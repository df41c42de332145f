---------------------------- MODULE MCRemoteChat -----------------------------
(* Instances of RemoteChat for TLC.                                         *)
EXTENDS RemoteChat, TLC

Symmetry == Permutations(Clients)
=============================================================================
