---------------------------- MODULE MCSignalRace ----------------------------
(***************************************************************************)
(* Symmetry for SignalRace.                                                *)
(***************************************************************************)
EXTENDS SignalRace, TLC

Symmetry == Permutations(Peer) \cup Permutations(Hash)
=============================================================================
