------------------------------- MODULE MCTodos ------------------------------
(* Instances of Todos (and of the Scheduler inside it) for TLC.            *)
EXTENDS Todos, TLC

CONSTANTS r1, r2, t1

\* r1 is the one-shot reminder of a todo, r2 a recurring one.
Periods == r1 :> 0 @@ r2 :> 2
Links   == t1 :> r1
=============================================================================
