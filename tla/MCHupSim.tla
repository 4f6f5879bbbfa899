------------------------------ MODULE MCHupSim ------------------------------
(***************************************************************************)
(* Addresses, flows and messages for HupSim.                               *)
(***************************************************************************)
EXTENDS HupSim

\* nodes.map: all nodes are on one machine.
OneMachine ==
    [n \in Routers |-> [id |-> n, addr |-> "127.0.0.1", port |-> 48000 + n]] \o <<>>

\* Two that share links in most topologies, and one in the other direction.
ThreeFlows == {<<1, 4>>, <<2, 4>>, <<4, 1>>}

\* A request that takes two packets, its answer, a chunk, and an upload.
OneOfEach ==
    <<1, 4>> :> Requests(75, {1, 74, 75}) \o <<>>
    @@ <<4, 1>> :> <<IHAVE({1, 75}), DATA(512, "data")>>
    @@ <<2, 4>> :> <<GET(1), ACK(511)>>

\* A request for 63 chunks.
OneFlow == {<<1, 2>>}
Request63 == <<1, 2>> :> Requests(63, 1 .. 63)
=============================================================================
