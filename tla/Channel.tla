------------------------------ MODULE Channel -------------------------------
(***************************************************************************)
(* What a network of drop-tail queues promises the peers: between any two  *)
(* of them, packets may be lost anywhere on their way, but they neither    *)
(* overtake each other nor appear from nowhere nor arrive twice.           *)
(***************************************************************************)
EXTENDS Naturals, SequencesExt

CONSTANTS
    Flows,           \* the pairs of nodes that send packets to one another
    Messages         \* Messages[f]: what is sent, one after the other

VARIABLES
    transit,         \* transit[f]: the packets of f on their way, oldest first
    sent,            \* sent[f]: how many packets were sent
    arrived          \* arrived[f]: the packets that arrived, in that order

Init ==
    /\ transit = [f \in Flows |-> <<>>]
    /\ sent = [f \in Flows |-> 0]
    /\ arrived = [f \in Flows |-> <<>>]

\* A packet that is sent may be lost at once.
Send(f) ==
    /\ sent[f] < Len(Messages[f])
    /\ sent' = [sent EXCEPT ![f] = @ + 1]
    /\ \/ transit' = [transit EXCEPT ![f] = Append(@, Messages[f][sent[f] + 1])]
       \/ UNCHANGED transit
    /\ UNCHANGED arrived

Lose(f) ==
    /\ \E i \in DOMAIN transit[f] :
          transit' = [transit EXCEPT ![f] = RemoveAt(@, i)]
    /\ UNCHANGED <<sent, arrived>>

Arrive(f) ==
    /\ transit[f] # <<>>
    /\ arrived' = [arrived EXCEPT ![f] = Append(@, Head(transit[f]))]
    /\ transit' = [transit EXCEPT ![f] = Tail(@)]
    /\ UNCHANGED sent

Next == \E f \in Flows : Send(f) \/ Lose(f) \/ Arrive(f)

Spec == Init /\ [][Next]_<<transit, sent, arrived>>
=============================================================================
