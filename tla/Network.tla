------------------------------ MODULE Network -------------------------------
(***************************************************************************)
(* The packets of packet.c and the datagram network between the peers:     *)
(* UDP, or hupsim.pl, whose links are queues that drop what arrives when   *)
(* they are full.  The network is a function: net[p][q] holds the packets  *)
(* on their way from p to q, oldest first.                                 *)
(***************************************************************************)
EXTENDS Integers, Sequences, SequencesExt

CONSTANTS
    Peer,            \* the peers of the peer list
    QUEUE_MAX        \* packets a link holds

ASSUME QUEUE_MAX_Assumption == QUEUE_MAX \in Nat \ {0}

(* The packets.  seq_num and ack_num are what they are 0 for, and the magic,
   version and length fields are left out: every peer runs this code, so
   is_packet_valid accepts whatever arrives. *)

WHOHAS(chunks)     == [type |-> "WHOHAS", chunks |-> chunks]
IHAVE(chunks)      == [type |-> "IHAVE", chunks |-> chunks]
GET(sha1)          == [type |-> "GET", sha1 |-> sha1]
DATA(seq_num, sha1) == [type |-> "DATA", seq_num |-> seq_num, sha1 |-> sha1]
ACK(ack_num)       == [type |-> "ACK", ack_num |-> ack_num]

-----------------------------------------------------------------------------
(* What a handler transmits: for every peer, the packets sent to it. *)

Silence == [t \in Peer |-> <<>>]

To(q, packets) == [t \in Peer |-> IF t = q THEN packets ELSE <<>>]

\* process_download sends to every peer of the list but itself.
ToOthers(p, packets) == [t \in Peer |-> IF t = p THEN <<>> ELSE packets]

Then(out1, out2) == [t \in Peer |-> out1[t] \o out2[t]]

\* NSQueue::enQ: what does not fit is dropped.
EnQ(queue, packets) ==
    LET all == queue \o packets
    IN  IF Len(all) <= QUEUE_MAX THEN all ELSE SubSeq(all, 1, QUEUE_MAX)

\* The network after p has sent out; only reachable peers have a queue.
Post(net, p, out, reachable) ==
    [net EXCEPT ![p] =
        [t \in Peer |-> IF t \in reachable THEN EnQ(@[t], out[t]) ELSE @[t]]]

\* The network without the i-th packet from q to p.
Without(net, q, p, i) == [net EXCEPT ![q][p] = RemoveAt(@, i)]

\* The network once nobody listens at p: its packets are gone.
Unplugged(net, p) == [q \in Peer |-> [net[q] EXCEPT ![p] = <<>>]]
=============================================================================
