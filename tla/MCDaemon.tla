------------------------------ MODULE MCDaemon ------------------------------
(* Instances of Daemon for TLC.                                             *)
EXTENDS Daemon

\* Main gets a signed commit, and others that are not.
SignedFirst == {1}
=============================================================================
