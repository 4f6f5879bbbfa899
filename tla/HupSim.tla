------------------------------- MODULE HupSim -------------------------------
(***************************************************************************)
(* hupsim.pl: routers with a drop-tail queue for every link, which pass    *)
(* the datagrams of the peers on to one another according to their tables, *)
(* from the packets a peer makes to the messages its handlers get.         *)
(*                                                                         *)
(* Every packet is due at a time that depends on latencies, rates and what *)
(* was queued before it.  Only the head of a queue is ever looked at, and  *)
(* here it may be due at any time.                                         *)
(***************************************************************************)
EXTENDS Routing, Wire

CONSTANTS
    QUEUEMAX,        \* packets per queue
    Flows,           \* who sends to whom: pairs of routers
    Messages         \* Messages[f]: what is sent, one after the other

ASSUME HupSim_Assumption ==
    /\ QUEUEMAX \in Nat \ {0} /\ Flows \subseteq Routers \X Routers
    /\ DOMAIN Messages = Flows
    /\ \A f \in Flows : \A r \in {f[1], f[2]} : bt_peer_info(r).id = r

VARIABLES
    links,           \* both directions of every line of topo.map
    routingTable,    \* routingTable[r][dest]: the neighbour that comes next
    queue,           \* queue[l]: the datagrams on link l, the head first
    sent,            \* sent[f]: how many packets the node of flow f has sent
    arrived          \* arrived[f]: the messages its destination got, in order

vars == <<links, routingTable, queue, sent, arrived>>

\* addRoute: a line of topo.map is a link in both directions.
Topologies ==
    LET Both(e) == e \cup {<<l[2], l[1]>> : l \in e}
        Line == {l \in Routers \X Routers : l[1] < l[2]}
    IN  {e \in {Both(s) : s \in SUBSET Line} : Connected(e)}

Init ==
    /\ links \in Topologies
    /\ routingTable = CreateTables(links)
    /\ queue = [l \in links |-> <<>>]
    /\ sent = [f \in Flows |-> 0]
    /\ arrived = [f \in Flows |-> <<>>]

-----------------------------------------------------------------------------
\* Mutant: a packet is put in front of those that wait.
EnQFirst(q, pkt) == IF Len(q) >= QUEUEMAX THEN q ELSE <<pkt>> \o q

EnQ(q, pkt) == IF Len(q) >= QUEUEMAX THEN q ELSE Append(q, pkt)

\* NSRouter::recv: router r gets a datagram while the queues are q.
Recv(r, d, q) ==
    LET dest == Destination(d)
    IN  \/ /\ dest = r
           /\ arrived' = [arrived EXCEPT ![<<find_peer(d.lSrcPort), dest>>] = @ \o Handled(d)]
           /\ queue' = q
        \/ /\ dest # r
           /\ queue' = [q EXCEPT ![<<r, routingTable[r][dest]>>] = EnQ(@, d)]
           /\ UNCHANGED arrived

\* main: a node sends a datagram to its router.
Insert(f) ==
    /\ sent[f] < Len(Messages[f])
    /\ sent' = [sent EXCEPT ![f] = @ + 1]
    /\ LET d == Datagram(f[1], f[2], Messages[f][sent[f] + 1])
       IN  Recv(d.ID, Cut(d, PACKETSIZEMAX - SPIFFY_HEADER_SIZE), queue)
    /\ UNCHANGED <<links, routingTable>>

\* NSRouter::run: the head of the queue of link l is due.
Run(l) ==
    /\ queue[l] # <<>>
    /\ Recv(l[2], Head(queue[l]), [queue EXCEPT ![l] = Tail(@)])
    /\ UNCHANGED <<links, routingTable, sent>>

Next ==
    \/ \E f \in Flows : Insert(f)
    \/ \E l \in links : Run(l)

Spec == Init /\ [][Next]_vars

\* The loop of main sleeps until the first head is due, and then runs all.
FairSpec ==
    /\ Spec
    /\ \A l \in Routers \X Routers : WF_vars(l \in links /\ Run(l))

-----------------------------------------------------------------------------
\* The tables of different routers, each made on its own, fit together: a
\* packet that follows them reaches every router, on a shortest way.
RoutesAreShortest ==
    \A r, s \in Routers : r # s =>
        /\ <<r, routingTable[r][s]>> \in links
        /\ After(Hops(r, s, links), r, s, routingTable) = s

\* The messages of flow f in the datagrams of a queue.
OfFlow(q, f) ==
    LET upTo[n \in 0 .. Len(q)] ==
            IF n = 0 THEN <<>>
            ELSE IF <<q[n].ID, q[n].to>> = f THEN Append(upTo[n - 1], q[n].message)
            ELSE upTo[n - 1]
    IN  upTo[Len(q)]

\* Those that wait for the n-th link of the way of f, ...
OnLink(n, f, tables, queues) ==
    LET r == After(n - 1, f[1], f[2], tables)
    IN  IF r = f[2] THEN <<>> ELSE OfFlow(queues[<<r, tables[r][f[2]]>>], f)

\* ... and all on its way, those on the last link first.
InTransit(f, tables, queues) ==
    LET upTo[n \in 0 .. NRouters] ==
            IF n = 0 THEN <<>> ELSE OnLink(n, f, tables, queues) \o upTo[n - 1]
    IN  upTo[NRouters]

Ends == INSTANCE Channel WITH transit <- [f \in Flows |-> InTransit(f, routingTable, queue)]

\* Whatever the topology, and although the queues are shared by all flows and
\* lose packets at every router, between two nodes messages never overtake each
\* other and none arrives twice: what Network assumes if nothing is reordered.
\* What arrives is what was sent, from the peer that sent it, after all changes
\* of byte order, lengths and addresses.
ImplementsChannel == Ends!Spec

\* No packet stays in the network for ever, going round in circles or waiting.
PacketsLeave == <>[](\A l \in links : queue[l] = <<>>)

\* A datagram holds the whole packet, as long as its header says.
DatagramsAreWhole == \A l \in links : \A i \in DOMAIN queue[l] : Whole(queue[l][i])
=============================================================================
