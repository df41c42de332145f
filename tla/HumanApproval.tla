--------------------------- MODULE HumanApproval ----------------------------
(***************************************************************************)
(* What the approval gate promises, without futures, frames or timers: a   *)
(* call is settled at once or put to a human; a call put to a human runs   *)
(* only after the human said yes, and may be refused at any time; the      *)
(* human's word is given at most once and outcomes are final.              *)
(***************************************************************************)
CONSTANT Calls

VARIABLES
  status, \* "new", "asked", "ran" or "refused"
  word    \* what the human said about the call

vars == <<status, word>>

Init ==
  /\ status = [c \in Calls |-> "new"]
  /\ word   = [c \in Calls |-> "silent"]

\* The call is settled without a human.
Settle(c) ==
  /\ status[c] = "new"
  /\ \E s \in {"ran", "refused"} : status' = [status EXCEPT ![c] = s]
  /\ UNCHANGED word

Ask(c) ==
  /\ status[c] = "new"
  /\ status' = [status EXCEPT ![c] = "asked"]
  /\ UNCHANGED word

\* The human's word may come too late to matter, but it comes once.
Answer(c) ==
  /\ status[c] # "new"
  /\ word[c] = "silent"
  /\ \E w \in {"yes", "no"} : word' = [word EXCEPT ![c] = w]
  /\ UNCHANGED status

Run(c) ==
  /\ status[c] = "asked"
  /\ word[c] = "yes"
  /\ status' = [status EXCEPT ![c] = "ran"]
  /\ UNCHANGED word

Refuse(c) ==
  /\ status[c] = "asked"
  /\ status' = [status EXCEPT ![c] = "refused"]
  /\ UNCHANGED word

Next ==
  \E c \in Calls : Settle(c) \/ Ask(c) \/ Answer(c) \/ Run(c) \/ Refuse(c)

Spec == Init /\ [][Next]_vars
=============================================================================
