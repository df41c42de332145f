--------------------------- MODULE MCSessionWatcher --------------------------
(* Instances of SessionWatcher for TLC.                                     *)
EXTENDS SessionWatcher

\* The first write is a prompt, and so is the one that may replace it.
FirstWrites == {1, 2}
=============================================================================
