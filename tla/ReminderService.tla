-------------------------- MODULE ReminderService ---------------------------
(***************************************************************************)
(* What the scheduler promises of a reminder, without a table, claims,     *)
(* processes or clocks: it can be cancelled until a delivery is begun; a   *)
(* delivery gets through or it does not, and both are followed up; a       *)
(* reminder that got through is not delivered again, unless it repeats;    *)
(* one that did not is tried again, so and so often.  Only what stops the  *)
(* service while a delivery is under way loses a reminder.                 *)
(***************************************************************************)
EXTENDS Naturals

CONSTANTS
  Reminders,
  Repeating, \* those that are due again and again
  Tries      \* attempts before a reminder is given up

VARIABLES
  fate,  \* see Fates
  misses \* failed attempts since the last success

vars == <<fate, misses>>

UnderWay == {"taken", "told", "missed"}
Fates    == UnderWay \cup {"unset", "waiting", "cancelled", "over", "dropped", "lost"}

Init ==
  /\ fate   = [r \in Reminders |-> "unset"]
  /\ misses = [r \in Reminders |-> 0]

Moves(r, from, to) ==
  /\ fate[r] = from
  /\ fate' = [fate EXCEPT ![r] = to]

Set(r)    == Moves(r, "unset", "waiting") /\ UNCHANGED misses
Cancel(r) == Moves(r, "waiting", "cancelled") /\ UNCHANGED misses

\* A delivery is begun, and gets through or does not.
Take(r) == Moves(r, "waiting", "taken") /\ UNCHANGED misses
Tell(r) == Moves(r, "taken", "told") /\ UNCHANGED misses
Miss(r) == Moves(r, "taken", "missed") /\ UNCHANGED misses

\* After a success: the next time, or never again.
Repeat(r) ==
  /\ r \in Repeating
  /\ Moves(r, "told", "waiting")
  /\ misses' = [misses EXCEPT ![r] = 0]

Close(r) == r \notin Repeating /\ Moves(r, "told", "over") /\ UNCHANGED misses

\* After a failure: another attempt, or no more of them.
Retry(r) ==
  /\ misses[r] + 1 < Tries
  /\ Moves(r, "missed", "waiting")
  /\ misses' = [misses EXCEPT ![r] = @ + 1]

Skip(r) ==
  /\ misses[r] + 1 = Tries /\ r \in Repeating
  /\ Moves(r, "missed", "waiting")
  /\ misses' = [misses EXCEPT ![r] = 0]

Drop(r) ==
  /\ misses[r] + 1 = Tries /\ r \notin Repeating
  /\ Moves(r, "missed", "dropped")
  /\ UNCHANGED misses

\* What was under way when the service stopped; a success needs no following up.
Stop(S) ==
  /\ S # {} /\ \A r \in S : fate[r] \in UnderWay
  /\ fate' = [r \in Reminders |-> IF r \notin S THEN fate[r]
                                  ELSE IF fate[r] = "told" /\ r \notin Repeating THEN "over"
                                  ELSE "lost"]
  /\ UNCHANGED misses

Next ==
  \/ \E r \in Reminders :
       \/ Set(r) \/ Cancel(r) \/ Take(r) \/ Tell(r) \/ Miss(r)
       \/ Repeat(r) \/ Close(r) \/ Retry(r) \/ Skip(r) \/ Drop(r)
  \/ \E S \in SUBSET Reminders : Stop(S)

Spec == Init /\ [][Next]_vars
=============================================================================
