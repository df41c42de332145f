---------------------------- MODULE MCSessionView ----------------------------
(* Instances of SessionView for TLC.                                        *)
EXTENDS SessionView

\* No prompts: the watcher is not part of this instance.
NoPrompts == {}
=============================================================================
