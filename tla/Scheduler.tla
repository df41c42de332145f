----------------------------- MODULE Scheduler ------------------------------
(***************************************************************************)
(* tools/scheduler.py: the reminder table and the dispatcher loops that    *)
(* claim due rows, deliver them and decide their fate.                     *)
(*                                                                         *)
(* The table is a SQLite file; every statement is atomic, everything       *)
(* between two statements interleaves with the other process, with the     *)
(* agent's tools and with the process dying.  Time is relative: dueIn[r]   *)
(* counts the ticks until reminder r is due, age[d] the ticks since the    *)
(* dispatcher d read the clock at the top of its loop.                     *)
(*                                                                         *)
(* The dispatchers serve disjoint origins (the daemon {local, relay, ""},  *)
(* the bot {telegram}), so a reminder has one owner, fixed when it is set. *)
(***************************************************************************)
EXTENDS Integers, FiniteSets

CONSTANTS
  Reminders,    \* row ids (AUTOINCREMENT: never reused)
  Dispatchers,  \* one per long-running process
  None,         \* no reminder
  Period,       \* repeat_seconds of each reminder; 0 is one-shot
  Delays,       \* delay_seconds a reminder may be set with
  Backoff,      \* RETRY_BACKOFF
  MaxRetries,   \* MAX_RETRIES
  MaxLate,      \* bound: how long a reminder stays overdue
  MaxAge,       \* bound: how long one round of a dispatcher takes
  MaxFailures   \* bound: restarts and database errors

ASSUME SchedulerAssumption ==
  /\ None \notin Reminders
  /\ Period \in [Reminders -> Nat]
  /\ Delays \subseteq Nat \ {0}
  /\ Backoff \in Nat \ {0}
  /\ MaxRetries \in Nat \ {0}
  /\ MaxLate \in Nat
  /\ MaxAge \in Nat
  /\ MaxFailures \in Nat

VARIABLES
  status,    \* "absent", "live" (fired=0), "fired" (fired=1) or "deleted"
  owner,     \* the dispatcher that serves the row's origin
  dueIn,     \* due_at, relative to now
  attempts,  \* failed deliveries since the last success
  pc,        \* where the loop of a dispatcher is
  candidates,\* rows the SELECT of _claim_due_sync returned, not yet updated
  batch,     \* rows claimed in this round, not yet handed to deliver()
  current,   \* the row being delivered or finalized
  landed,    \* what deliver() returned for it
  age,       \* time since "now = time.time()"
  failures,  \* restarts and database errors so far
  reports,   \* history: times deliver() returned True for a row (up to 2)
  spent,     \* history: one-shot rows consumed or dropped by _finalize_sync
  orphaned,  \* history: rows claimed by a round that never finished
  cancelled  \* history: rows whose cancellation returned True

table     == <<status, owner, dueIn, attempts>>
loops     == <<pc, candidates, batch, current, landed, age>>
history   == <<reports, spent, orphaned, cancelled>>
schedVars == <<table, loops, failures, history>>

Recurring(r) == Period[r] > 0
InFlight(r)  == \E d \in Dispatchers : r \in batch[d] \/ current[d] = r

SchedInit ==
  /\ status     = [r \in Reminders |-> "absent"]
  /\ owner      \in [Reminders -> Dispatchers]
  /\ dueIn      = [r \in Reminders |-> 0]
  /\ attempts   = [r \in Reminders |-> 0]
  /\ pc         = [d \in Dispatchers |-> "poll"]
  /\ candidates = [d \in Dispatchers |-> {}]
  /\ batch      = [d \in Dispatchers |-> {}]
  /\ current    = [d \in Dispatchers |-> None]
  /\ landed     = [d \in Dispatchers |-> FALSE]
  /\ age        = [d \in Dispatchers |-> 0]
  /\ failures   = 0
  /\ reports    = [r \in Reminders |-> 0]
  /\ spent      = {}
  /\ orphaned   = {}
  /\ cancelled  = {}

-----------------------------------------------------------------------------
(* The agent's tools                                                       *)

\* schedule_reminder: the row is inserted with fired=0.
Add(r, delay) ==
  /\ status[r] = "absent"
  /\ status' = [status EXCEPT ![r] = "live"]
  /\ dueIn'  = [dueIn EXCEPT ![r] = delay]
  /\ UNCHANGED <<owner, attempts, loops, failures, history>>

\* cancel_reminder in the row's own scope, when it returns True.  A claimed row
\* has fired=1 and is not found; the tool then changes nothing.
Cancel(r) ==
  /\ status[r] = "live"
  /\ status'    = [status EXCEPT ![r] = "deleted"]
  /\ cancelled' = cancelled \cup {r}
  /\ UNCHANGED <<owner, dueIn, attempts, loops, failures, reports, spent, orphaned>>

-----------------------------------------------------------------------------
(* _dispatcher_loop                                                        *)

\* The clock is read and the due rows of the dispatcher's origins are selected.
Due(d) == {r \in Reminders : status[r] = "live" /\ owner[r] = d /\ dueIn[r] <= 0}

Select(d) ==
  /\ pc[d] = "poll"
  /\ Due(d) # {}
  /\ candidates' = [candidates EXCEPT ![d] = Due(d)]
  /\ age'        = [age EXCEPT ![d] = 0]
  /\ pc'         = [pc EXCEPT ![d] = "claim"]
  /\ UNCHANGED <<table, batch, current, landed, failures, history>>

\* Mutant: the row count of the UPDATE is not looked at.
WonAlways(r) == TRUE

\* cur.rowcount == 1: the row is still there and unclaimed.
Won(r) == status[r] = "live"

\* UPDATE ... SET fired=1 WHERE id=? AND fired=0, for one selected row: a row
\* cancelled since the SELECT is passed over.
Claim(d, r) ==
  /\ pc[d] = "claim"
  /\ r \in candidates[d]
  /\ LET rest == candidates[d] \ {r}
         mine == IF Won(r) THEN batch[d] \cup {r} ELSE batch[d]
     IN /\ status'     = IF Won(r) THEN [status EXCEPT ![r] = "fired"] ELSE status
        /\ candidates' = [candidates EXCEPT ![d] = rest]
        /\ batch'      = [batch EXCEPT ![d] = mine]
        /\ pc'         = [pc EXCEPT ![d] = IF rest # {} THEN "claim"
                                           ELSE IF mine # {} THEN "deliver"
                                           ELSE "poll"]
  /\ UNCHANGED <<owner, dueIn, attempts, current, landed, age, failures, history>>

\* deliver() is awaited for one claimed row; an exception counts as False.
Deliver(d, r, ok) ==
  /\ pc[d] = "deliver"
  /\ r \in batch[d]
  /\ batch'   = [batch EXCEPT ![d] = @ \ {r}]
  /\ current' = [current EXCEPT ![d] = r]
  /\ landed'  = [landed EXCEPT ![d] = ok]
  /\ pc'      = [pc EXCEPT ![d] = "finalize"]
  /\ reports' = IF ok /\ reports[r] < 2
                THEN [reports EXCEPT ![r] = @ + 1]
                ELSE reports
  /\ UNCHANGED <<table, candidates, age, failures, spent, orphaned, cancelled>>

\* _next_slot: the first slot of the row's grid after the round's clock reading,
\* which lies a ticks back.
NextSlot(due, period, a) == due + period * (((-a - due) \div period) + 1)

\* Mutant: one attempt too many.
RetriableOnceMore(r) == attempts[r] < MaxRetries

\* Another attempt is due: attempts + 1 < MAX_RETRIES.
Retriable(r) == attempts[r] + 1 < MaxRetries

\* Mutant: a recurring reminder is dropped with its retries.
RearmedNever(d) == IF landed[d] THEN Recurring(current[d]) ELSE Retriable(current[d])

\* Whether _finalize_sync sets fired=0 again.
Rearmed(d) == Recurring(current[d]) \/ (~landed[d] /\ Retriable(current[d]))

\* Mutant: retries are not counted.
AttemptsForgotten(d) == 0

\* The attempts column of a row that is re-armed.
AttemptsAfter(d) ==
  IF ~landed[d] /\ Retriable(current[d]) THEN attempts[current[d]] + 1 ELSE 0

\* The due time of a row that is re-armed: "now + RETRY_BACKOFF" counts from the
\* clock reading of the round, age[d] ticks ago.
DueAfter(d) ==
  IF ~landed[d] /\ Retriable(current[d])
  THEN Backoff - age[d]
  ELSE NextSlot(dueIn[current[d]], Period[current[d]], age[d])

\* _finalize_sync for the row just delivered: consume, reschedule, retry or drop.
Finalize(d) ==
  /\ pc[d] = "finalize"
  /\ LET r == current[d]
     IN IF Rearmed(d)
        THEN /\ status'   = [status EXCEPT ![r] = "live"]
             /\ dueIn'    = [dueIn EXCEPT ![r] = DueAfter(d)]
             /\ attempts' = [attempts EXCEPT ![r] = AttemptsAfter(d)]
             /\ UNCHANGED spent
        ELSE /\ spent' = spent \cup {r}
             /\ UNCHANGED <<status, dueIn, attempts>>
  /\ current' = [current EXCEPT ![d] = None]
  /\ landed'  = [landed EXCEPT ![d] = FALSE]
  /\ pc'      = [pc EXCEPT ![d] = IF batch[d] # {} THEN "deliver" ELSE "poll"]
  /\ UNCHANGED <<owner, candidates, batch, age, failures, reports, orphaned, cancelled>>

\* A round ends early when the process dies, is re-executed by the self-upgrade or
\* cancels the loop on shutdown (Todos composes that with the tools' coroutines):
\* nothing looks for rows claimed before.  What the round leaves behind:
\* rows with fired=1 that no loop holds any more.  (A one-shot row whose delivery
\* landed needs no finalizing.)
Abandoned(d) ==
  batch[d] \cup
  (IF current[d] = None \/ (landed[d] /\ ~Recurring(current[d]))
   THEN {} ELSE {current[d]})

EndRound(d) ==
  /\ failures < MaxFailures
  /\ failures'   = failures + 1
  /\ orphaned'   = orphaned \cup Abandoned(d)
  /\ spent'      = IF current[d] = None \/ current[d] \in Abandoned(d)
                   THEN spent ELSE spent \cup {current[d]}
  /\ pc'         = [pc EXCEPT ![d] = "poll"]
  /\ candidates' = [candidates EXCEPT ![d] = {}]
  /\ batch'      = [batch EXCEPT ![d] = {}]
  /\ current'    = [current EXCEPT ![d] = None]
  /\ landed'     = [landed EXCEPT ![d] = FALSE]
  /\ UNCHANGED <<table, age, reports, cancelled>>

\* A statement raises (the database stays locked, the disk is full): the loop
\* logs it, backs off and starts a new round.
DatabaseError(d) == pc[d] \in {"claim", "finalize"} /\ EndRound(d)

\* Time passes, within the bounds.
Waiting(r) == status[r] = "live" \/ InFlight(r)

Tick ==
  /\ \E r \in Reminders : Waiting(r)
  /\ \A r \in Reminders : Waiting(r) => dueIn[r] > -MaxLate
  /\ \A d \in Dispatchers : pc[d] # "poll" => age[d] < MaxAge
  /\ dueIn' = [r \in Reminders |-> IF Waiting(r) THEN dueIn[r] - 1 ELSE dueIn[r]]
  /\ age'   = [d \in Dispatchers |-> IF pc[d] = "poll" THEN 0 ELSE age[d] + 1]
  /\ UNCHANGED <<status, owner, attempts, pc, candidates, batch, current, landed,
                 failures, history>>

-----------------------------------------------------------------------------

Round(d) ==
  \/ Select(d)
  \/ \E r \in Reminders : Claim(d, r)
  \/ \E r \in Reminders, ok \in BOOLEAN : Deliver(d, r, ok)
  \/ Finalize(d)

Dispatch ==
  \/ \E d \in Dispatchers : Round(d) \/ DatabaseError(d)
  \/ Tick

-----------------------------------------------------------------------------
(* Properties                                                              *)

SchedTypeOK ==
  /\ status \in [Reminders -> {"absent", "live", "fired", "deleted"}]
  /\ owner \in [Reminders -> Dispatchers]
  /\ dueIn \in [Reminders -> Int]
  /\ attempts \in [Reminders -> Nat]
  /\ pc \in [Dispatchers -> {"poll", "claim", "deliver", "finalize"}]
  /\ candidates \in [Dispatchers -> SUBSET Reminders]
  /\ batch \in [Dispatchers -> SUBSET Reminders]
  /\ current \in [Dispatchers -> Reminders \cup {None}]
  /\ landed \in [Dispatchers -> BOOLEAN]
  /\ age \in [Dispatchers -> Nat]
  /\ failures \in Nat
  /\ reports \in [Reminders -> 0..2]
  /\ spent \subseteq Reminders
  /\ orphaned \subseteq Reminders
  /\ cancelled \subseteq Reminders

\* A one-shot reminder is reported delivered at most once, across retries, restarts
\* and database errors, and one whose cancellation was confirmed is gone for good:
\* no round un-fires or still holds it, whatever its claim had selected before.
NeverTooOften ==
  /\ \A r \in Reminders : ~Recurring(r) => reports[r] <= 1
  /\ \A r \in cancelled : status[r] = "deleted" /\ ~InFlight(r)

\* A row with fired=1 that no round holds was decided by _finalize_sync (one-shot,
\* delivered or out of retries) or belongs to a round that was cut short: within a
\* live process no reminder is "silently lost", and no recurring one ever ends.  One
\* consumed without a report of delivery has used up its retries: "no surface was
\* there" never consumes a reminder early.
NoSilentLoss ==
  /\ \A r \in Reminders :
       status[r] = "fired" /\ ~InFlight(r) =>
         \/ r \in orphaned
         \/ r \in spent /\ ~Recurring(r)
  /\ \A r \in spent : reports[r] = 0 => attempts[r] = MaxRetries - 1

\* The scheduler implements ReminderService: a row is taken from its claim to its
\* delivery, told or missed from there until _finalize_sync has dealt with it.
FateOf(r) ==
  CASE status[r] = "absent"  -> "unset"
    [] status[r] = "live"    -> "waiting"
    [] status[r] = "deleted" -> "cancelled"
    [] status[r] = "fired"   ->
         IF \E d \in Dispatchers : r \in batch[d] THEN "taken"
         ELSE IF \E d \in Dispatchers : current[d] = r /\ landed[d] THEN "told"
         ELSE IF \E d \in Dispatchers : current[d] = r THEN "missed"
         ELSE IF r \notin spent THEN "lost"
         ELSE IF reports[r] > 0 THEN "over" ELSE "dropped"

Service == INSTANCE ReminderService WITH
             Repeating <- {r \in Reminders : Recurring(r)},
             Tries     <- MaxRetries,
             fate      <- [r \in Reminders |-> FateOf(r)],
             misses    <- attempts

\* Whatever the rounds, the tools, the failures and the restarts do to a row is what the
\* service may do to a reminder: a claim that lost its race takes nothing, a delivery
\* that got through is never repeated, none that failed is forgotten before its retries
\* are used up, and a row is lost only by a round that was cut short while it held it.
ReminderPromise == Service!Spec

\* "Reminders persist to a SQLite file so they survive a daemon restart": a row
\* that no round holds and nobody finalized is still going to fire.
SurvivesRestart ==
  \A r \in Reminders :
    status[r] = "fired" /\ ~InFlight(r) => r \in spent
=============================================================================
