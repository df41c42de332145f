------------------------------- MODULE Todos --------------------------------
(***************************************************************************)
(* tools/todos.py on top of the scheduler: a todo with a due time owns a   *)
(* reminder.  add_todo and complete_todo/cancel_todo are coroutines with   *)
(* one thread hop per SQL call, so two chat surfaces, the dispatcher and a *)
(* restart interleave between their steps.                                 *)
(***************************************************************************)
EXTENDS Scheduler

CONSTANTS
  TodoItems,  \* todos that get a due time
  ReminderOf  \* the row the reminder of a todo is inserted as

ASSUME TodoAssumption ==
  /\ ReminderOf \in [TodoItems -> Reminders]
  /\ \A t \in TodoItems : Period[ReminderOf[t]] = 0
  /\ \A t, u \in TodoItems : ReminderOf[t] = ReminderOf[u] => t = u

VARIABLES
  todo,    \* "absent", "open", "done" or "deleted"
  linked,  \* the row's reminder_id is set
  adding,  \* progress of add_todo
  closing, \* progress of complete_todo or cancel_todo (one of them at a time)
  raced    \* history: todos closed while their reminder could not be cancelled

todoVars == <<todo, linked, adding, closing, raced>>
vars     == <<schedVars, todoVars>>

TodoReminders == {ReminderOf[t] : t \in TodoItems}

Init ==
  /\ SchedInit
  /\ todo    = [t \in TodoItems |-> "absent"]
  /\ linked  = [t \in TodoItems |-> FALSE]
  /\ adding  = [t \in TodoItems |-> "no"]
  /\ closing = [t \in TodoItems |-> "no"]
  /\ raced   = {}

-----------------------------------------------------------------------------
(* add_todo: insert the todo, insert the reminder, link the two             *)

InsertTodo(t) ==
  /\ todo[t] = "absent"
  /\ todo'   = [todo EXCEPT ![t] = "open"]
  /\ adding' = [adding EXCEPT ![t] = "inserted"]
  /\ UNCHANGED <<schedVars, linked, closing, raced>>

InsertReminder(t, delay) ==
  /\ adding[t] = "inserted"
  /\ Add(ReminderOf[t], delay)
  /\ adding' = [adding EXCEPT ![t] = "scheduled"]
  /\ UNCHANGED <<todo, linked, closing, raced>>

\* UPDATE todos SET reminder_id: no effect on a row that is gone.
LinkReminder(t) ==
  /\ adding[t] = "scheduled"
  /\ linked' = [linked EXCEPT ![t] = todo[t] # "deleted"]
  /\ adding' = [adding EXCEPT ![t] = "no"]
  /\ UNCHANGED <<schedVars, todo, closing, raced>>

\* An insert or the link raises: the todo stays, "提醒未能设置".
AddFails(t) ==
  /\ adding[t] \in {"inserted", "scheduled"}
  /\ failures < MaxFailures
  /\ failures' = failures + 1
  /\ adding' = [adding EXCEPT ![t] = "no"]
  /\ UNCHANGED <<table, loops, history, todo, linked, closing, raced>>

-----------------------------------------------------------------------------
(* complete_todo and cancel_todo                                           *)

\* _close_sync, the SELECT: an open todo is found and its link is read.
ReadTodo(t) ==
  /\ todo[t] = "open"
  /\ closing[t] = "no"
  /\ closing' = [closing EXCEPT ![t] = IF linked[t] THEN "read" ELSE "read_unlinked"]
  /\ UNCHANGED <<schedVars, todo, linked, adding, raced>>

\* _close_sync, the UPDATE or DELETE, a statement of its own (autocommit).  A link
\* written since the SELECT is not seen.
CloseTodo(t, how) ==
  /\ closing[t] \in {"read", "read_unlinked"}
  /\ todo'    = [todo EXCEPT ![t] = how]
  /\ closing' = [closing EXCEPT ![t] = IF @ = "read" THEN "cancel" ELSE "unlinked"]
  /\ UNCHANGED <<schedVars, linked, adding, raced>>

\* Mutant: the linked reminder is forgotten when the todo is closed.
CloseForgetsReminder(t) ==
  /\ closing[t] = "cancel"
  /\ closing' = [closing EXCEPT ![t] = "closed"]
  /\ UNCHANGED <<schedVars, todo, linked, adding, raced>>

\* _cancel_linked_reminder: a claimed row is not found.
CancelLinked(t) ==
  /\ closing[t] = "cancel"
  /\ closing' = [closing EXCEPT ![t] = "closed"]
  /\ IF status[ReminderOf[t]] = "live"
     THEN Cancel(ReminderOf[t]) /\ raced' = raced
     ELSE UNCHANGED schedVars /\ raced' = raced \cup {t}
  /\ UNCHANGED <<todo, linked, adding>>

\* The DELETE raises: "best-effort", the todo counts as closed.
CancelFails(t) ==
  /\ closing[t] = "cancel"
  /\ failures < MaxFailures
  /\ failures' = failures + 1
  /\ closing'  = [closing EXCEPT ![t] = "closed"]
  /\ raced'    = raced \cup {t}
  /\ UNCHANGED <<table, loops, history, todo, linked, adding>>

\* The process that runs the tools and the dispatcher d dies between two steps:
\* its coroutines are gone, the rows stay.
RestartProcess(d) ==
  LET mine == {t \in TodoItems : owner[ReminderOf[t]] = d}
      busy == {t \in mine : closing[t] \in {"read", "read_unlinked", "cancel"}}
  IN /\ pc[d] # "poll" \/ busy # {} \/ \E t \in mine : adding[t] # "no"
     /\ EndRound(d)
     /\ adding'  = [t \in TodoItems |-> IF t \in mine THEN "no" ELSE adding[t]]
     /\ closing' = [t \in TodoItems |-> IF t \in busy THEN "no" ELSE closing[t]]
     /\ UNCHANGED <<todo, linked, raced>>

-----------------------------------------------------------------------------

\* The reminder tools work on any pending reminder; reminders of todos are only
\* inserted by add_todo.
PlainTools ==
  \E r \in Reminders :
    \/ r \notin TodoReminders /\ \E delay \in Delays : Add(r, delay)
    \/ Cancel(r)

AddTodo(t) ==
  \/ InsertTodo(t)
  \/ \E delay \in Delays : InsertReminder(t, delay)
  \/ LinkReminder(t)
  \/ AddFails(t)

Close(t) ==
  \/ \E how \in {"done", "deleted"} : CloseTodo(t, how)
  \/ ReadTodo(t)
  \/ CancelLinked(t)
  \/ CancelFails(t)

Next ==
  \/ (PlainTools \/ Dispatch) /\ UNCHANGED todoVars
  \/ \E t \in TodoItems : AddTodo(t) \/ Close(t)
  \/ \E d \in Dispatchers : RestartProcess(d)

Spec == Init /\ [][Next]_vars

\* Each process keeps running its dispatcher loop and time passes; nothing is
\* assumed about users, and failures are finitely many.
Fairness ==
  /\ \A d \in Dispatchers : WF_vars(Round(d) /\ UNCHANGED todoVars)
  /\ WF_vars(Tick /\ UNCHANGED todoVars)

FairSpec == Spec /\ Fairness

-----------------------------------------------------------------------------
(* Properties                                                              *)

TypeOK ==
  /\ SchedTypeOK
  /\ todo \in [TodoItems -> {"absent", "open", "done", "deleted"}]
  /\ linked \in [TodoItems -> BOOLEAN]
  /\ adding \in [TodoItems -> {"no", "inserted", "scheduled"}]
  /\ closing \in [TodoItems -> {"no", "read", "read_unlinked", "cancel",
                           "closed", "unlinked"}]
  /\ raced \subseteq TodoItems

\* Once a linked todo has been closed, its reminder can still fire only if it was
\* out of reach at that moment: claimed by a dispatcher, or the DELETE failed.
ClosedTodoQuiet ==
  \A t \in TodoItems :
    closing[t] = "closed" /\ t \notin raced =>
      /\ status[ReminderOf[t]] # "live"
      /\ ~InFlight(ReminderOf[t])

\* complete_todo "marks the todo done (and cancels the due reminder hanging on it)":
\* closing a linked todo leaves no reminder that is going to fire.
CompletedTodoNeverFires ==
  \A t \in TodoItems : closing[t] = "closed" => status[ReminderOf[t]] # "live"

\* Every one-shot reminder comes to an end: delivered, out of retries, cancelled,
\* or cut short together with the round that held it.
ReminderSettles ==
  \A r \in Reminders :
    Period[r] = 0 =>
      (status[r] = "live" ~> (r \in spent \cup orphaned \/ status[r] = "deleted"))
=============================================================================
