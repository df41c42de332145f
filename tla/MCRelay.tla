------------------------------ MODULE MCRelay -------------------------------
(* Instances of Relay for TLC: the configurations choose the pages, the     *)
(* number of rotations and of failing connections, and whether the edge     *)
(* reports that the daemon's peer is gone.                                  *)
EXTENDS Relay
=============================================================================
