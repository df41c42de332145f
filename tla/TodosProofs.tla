----------------------------- MODULE TodosProofs ------------------------------
(***************************************************************************)
(* Proofs about the reminders and the todos that own some of them, for any *)
(* number of reminders, dispatchers, retries, restarts and errors.         *)
(*                                                                         *)
(* RowInv is what holds of a reminder wherever a round is with it, LoopInv *)
(* of the loop of a dispatcher.                                            *)
(***************************************************************************)
EXTENDS Todos, TLAPS

-----------------------------------------------------------------------------
(* The invariant                                                           *)

\* Where a row may be: with its owner's loop alone, once, and marked as fired.
HeldInv(r) ==
  /\ InFlight(r) => status[r] = "fired"
  /\ \A d \in Dispatchers :
       /\ (r \in candidates[d] \cup batch[d] \/ current[d] = r) => owner[r] = d
       /\ current[d] = r => r \notin batch[d]

\* What has been delivered.
ReportInv(r) ==
  /\ \A d \in Dispatchers : current[d] = r /\ landed[d] => reports[r] > 0
  /\ ~Recurring(r) /\ reports[r] > 0 =>
       /\ reports[r] = 1 /\ status[r] = "fired"
       /\ \A d \in Dispatchers : r \notin batch[d] /\ (current[d] = r => landed[d])

\* What is over.
FateInv(r) ==
  /\ attempts[r] < MaxRetries
  /\ r \in cancelled => status[r] = "deleted"
  /\ r \in spent => /\ status[r] = "fired" /\ ~InFlight(r)
                    /\ (reports[r] = 0 => attempts[r] = MaxRetries - 1)
  /\ status[r] = "fired" /\ ~InFlight(r) => r \in orphaned \/ (r \in spent /\ ~Recurring(r))

RowInv(r)  == HeldInv(r) /\ ReportInv(r) /\ FateInv(r)
LoopInv(d) == pc[d] = "finalize" <=> current[d] # None

SchedInv ==
  /\ SchedTypeOK
  /\ \A r \in Reminders : RowInv(r)
  /\ \A d \in Dispatchers : LoopInv(d)

\* A todo closed without a race has had its reminder cancelled.
ClosedInv ==
  \A t \in TodoItems : closing[t] = "closed" /\ t \notin raced => ReminderOf[t] \in cancelled

TodoTypeOK ==
  /\ todo \in [TodoItems -> {"absent", "open", "done", "deleted"}]
  /\ linked \in [TodoItems -> BOOLEAN]
  /\ adding \in [TodoItems -> {"no", "inserted", "scheduled"}]
  /\ closing \in [TodoItems -> {"no", "read", "read_unlinked", "cancel",
                           "closed", "unlinked"}]
  /\ raced \subseteq TodoItems

Inv == SchedInv /\ TodoTypeOK /\ ClosedInv

-----------------------------------------------------------------------------
(* Types                                                                   *)

\* A due time that is set is a number of ticks.
LEMMA DueTyped ==
  ASSUME SchedTypeOK, NEW d \in Dispatchers, current[d] \in Reminders, Rearmed(d)
  PROVE  DueAfter(d) \in Int
<1>1. PICK r \in Reminders : r = current[d]
  OBVIOUS
<1>2. age[d] \in Int /\ dueIn[r] \in Int /\ Period[r] \in Nat /\ Backoff \in Int
  BY SchedulerAssumption DEF SchedTypeOK
<1>3. CASE ~landed[d] /\ Retriable(current[d])
  BY <1>2, <1>3 DEF DueAfter
<1>4. CASE ~(~landed[d] /\ Retriable(current[d]))
  <2>1. Period[r] > 0
    BY <1>1, <1>4 DEF Rearmed, Recurring
  <2>2. PICK p \in Nat \ {0}, a \in Int, u \in Int : p = Period[r] /\ a = age[d] /\ u = dueIn[r]
    BY <1>2, <2>1
  <2>3. u + p * (((-a - u) \div p) + 1) \in Int
    OBVIOUS
  <2> QED
    BY <1>1, <1>4, <2>2, <2>3 DEF DueAfter, NextSlot
<1> QED
  BY <1>3, <1>4

LEMMA AttemptsTyped ==
  ASSUME SchedTypeOK, NEW d \in Dispatchers, current[d] \in Reminders
  PROVE  AttemptsAfter(d) \in Nat /\ AttemptsAfter(d) < MaxRetries
<1>1. attempts[current[d]] \in Nat
  BY DEF SchedTypeOK
<1> QED
  BY <1>1, SchedulerAssumption DEF AttemptsAfter, Retriable

LEMMA ToolTypes ==
  ASSUME SchedTypeOK, NEW r \in Reminders, NEW delay \in Delays, Add(r, delay) \/ Cancel(r)
  PROVE  SchedTypeOK'
<1>1. delay \in Int
  BY SchedulerAssumption
<1> QED
  BY <1>1 DEF SchedTypeOK, Add, Cancel, loops, history

LEMMA SelectTypes ==
  ASSUME SchedTypeOK, NEW d \in Dispatchers, Select(d)
  PROVE  SchedTypeOK'
<1>1. Due(d) \in SUBSET Reminders
  BY DEF Due
<1> QED
  BY <1>1 DEF SchedTypeOK, Select, table, history

LEMMA ClaimTypes ==
  ASSUME SchedTypeOK, NEW d \in Dispatchers, NEW r \in Reminders, Claim(d, r)
  PROVE  SchedTypeOK'
<1>1. UNCHANGED <<owner, dueIn, attempts, current, landed, age, failures, history>>
  BY DEF Claim
<1>2. status' \in [Reminders -> {"absent", "live", "fired", "deleted"}]
  BY DEF SchedTypeOK, Claim
<1>3. candidates' \in [Dispatchers -> SUBSET Reminders]
  BY DEF SchedTypeOK, Claim
<1>4. batch' \in [Dispatchers -> SUBSET Reminders]
  BY DEF SchedTypeOK, Claim
<1>5. pc' \in [Dispatchers -> {"poll", "claim", "deliver", "finalize"}]
  BY DEF SchedTypeOK, Claim
<1> QED
  BY <1>1, <1>2, <1>3, <1>4, <1>5 DEF SchedTypeOK, history

LEMMA DeliverTypes ==
  ASSUME SchedTypeOK, NEW d \in Dispatchers, NEW r \in Reminders, NEW ok \in BOOLEAN,
         Deliver(d, r, ok)
  PROVE  SchedTypeOK'
<1>1. UNCHANGED <<table, candidates, age, failures, spent, orphaned, cancelled>>
  BY DEF Deliver
<1>2. batch' \in [Dispatchers -> SUBSET Reminders]
  BY DEF SchedTypeOK, Deliver
<1>3. landed' \in [Dispatchers -> BOOLEAN]
  BY DEF SchedTypeOK, Deliver
<1>4. current' \in [Dispatchers -> Reminders \cup {None}]
  BY DEF SchedTypeOK, Deliver
<1>5. pc' \in [Dispatchers -> {"poll", "claim", "deliver", "finalize"}]
  BY DEF SchedTypeOK, Deliver
<1>6. reports' \in [Reminders -> 0..2]
  BY DEF SchedTypeOK, Deliver
<1> QED
  BY <1>1, <1>2, <1>3, <1>4, <1>5, <1>6 DEF SchedTypeOK, table

LEMMA FinalizeTypes ==
  ASSUME SchedTypeOK, NEW d \in Dispatchers, LoopInv(d), Finalize(d)
  PROVE  SchedTypeOK'
<1>1. UNCHANGED <<owner, candidates, batch, age, failures, reports, orphaned, cancelled>>
  BY DEF Finalize
<1>2. current[d] \in Reminders
  BY DEF SchedTypeOK, LoopInv, Finalize
<1>3. /\ current' \in [Dispatchers -> Reminders \cup {None}]
      /\ landed' \in [Dispatchers -> BOOLEAN]
      /\ pc' \in [Dispatchers -> {"poll", "claim", "deliver", "finalize"}]
  BY DEF SchedTypeOK, Finalize
<1>4. CASE Rearmed(d)
  <2>1. DueAfter(d) \in Int /\ AttemptsAfter(d) \in Nat
    BY <1>2, <1>4, DueTyped, AttemptsTyped
  <2>2. /\ status' \in [Reminders -> {"absent", "live", "fired", "deleted"}]
        /\ dueIn' \in [Reminders -> Int] /\ attempts' \in [Reminders -> Nat]
        /\ UNCHANGED spent
    BY <1>4, <2>1 DEF SchedTypeOK, Finalize
  <2> QED
    BY <1>1, <1>3, <2>2 DEF SchedTypeOK
<1>5. CASE ~Rearmed(d)
  <2>1. spent' = spent \cup {current[d]} /\ UNCHANGED <<status, dueIn, attempts>>
    BY <1>5 DEF Finalize
  <2> QED
    BY <1>1, <1>2, <1>3, <2>1 DEF SchedTypeOK
<1> QED
  BY <1>4, <1>5

LEMMA EndTypes ==
  ASSUME SchedTypeOK, NEW d \in Dispatchers, EndRound(d)
  PROVE  SchedTypeOK'
<1>1. UNCHANGED <<table, age, reports, cancelled>> /\ failures' \in Nat
  BY DEF SchedTypeOK, EndRound
<1>2. current[d] \in Reminders \cup {None} /\ batch[d] \subseteq Reminders
  BY DEF SchedTypeOK
<1>3. orphaned' \subseteq Reminders /\ spent' \subseteq Reminders
  BY <1>2 DEF SchedTypeOK, EndRound, Abandoned
<1>4. /\ current' \in [Dispatchers -> Reminders \cup {None}]
      /\ landed' \in [Dispatchers -> BOOLEAN]
      /\ pc' \in [Dispatchers -> {"poll", "claim", "deliver", "finalize"}]
      /\ candidates' \in [Dispatchers -> SUBSET Reminders]
      /\ batch' \in [Dispatchers -> SUBSET Reminders]
  BY DEF SchedTypeOK, EndRound
<1> QED
  BY <1>1, <1>3, <1>4 DEF SchedTypeOK, table

LEMMA TickTypes ==
  ASSUME SchedTypeOK, Tick
  PROVE  SchedTypeOK'
<1>1. dueIn' \in [Reminders -> Int] /\ age' \in [Dispatchers -> Nat]
  BY DEF SchedTypeOK, Tick
<1> QED
  BY <1>1 DEF SchedTypeOK, Tick, history

-----------------------------------------------------------------------------
(* Steps                                                                   *)

\* A step that does not touch a row keeps what holds of it.
LEMMA RowFrame ==
  ASSUME NEW x \in Reminders, RowInv(x), UNCHANGED owner,
         status'[x] = status[x] /\ attempts'[x] = attempts[x] /\ reports'[x] = reports[x],
         x \in spent' <=> x \in spent,
         x \in cancelled' <=> x \in cancelled,
         x \in orphaned => x \in orphaned',
         \A e \in Dispatchers :
           /\ x \in batch'[e] <=> x \in batch[e]
           /\ current'[e] = x <=> current[e] = x
           /\ current[e] = x => landed'[e] = landed[e]
           /\ x \in candidates'[e] => x \in candidates[e] \/ owner[x] = e
  PROVE  RowInv(x)'
<1>1. InFlight(x)' <=> InFlight(x)
  BY DEF InFlight
<1>2. HeldInv(x)'
  BY <1>1 DEF RowInv, HeldInv
<1>3. ReportInv(x)'
  BY DEF RowInv, ReportInv
<1>4. FateInv(x)'
  BY <1>1 DEF RowInv, FateInv
<1> QED
  BY <1>2, <1>3, <1>4 DEF RowInv

\* The reminder tools.
LEMMA AddStep ==
  ASSUME SchedInv, NEW r \in Reminders, NEW delay \in Delays, Add(r, delay)
  PROVE  SchedInv'
<1>1. SchedTypeOK'
  BY ToolTypes DEF SchedInv
<1>2. /\ UNCHANGED <<owner, attempts, loops, failures, history>>
      /\ status[r] = "absent" /\ status'[r] = "live"
      /\ \A x \in Reminders : x # r => status'[x] = status[x]
  BY DEF Add, SchedInv, SchedTypeOK
<1>3. ASSUME NEW x \in Reminders, x # r
      PROVE  RowInv(x)'
  BY <1>2, <1>3, RowFrame DEF SchedInv, loops, history
<1>4. RowInv(r)'
  <2>1. RowInv(r) /\ ~InFlight(r) /\ ~InFlight(r)'
    BY <1>2 DEF SchedInv, RowInv, HeldInv, InFlight, loops
  <2>2. HeldInv(r)'
    BY <1>2, <2>1 DEF RowInv, HeldInv, loops
  <2>3. ReportInv(r)'
    BY <1>2, <2>1 DEF RowInv, ReportInv, loops, history
  <2>4. FateInv(r)'
    BY <1>2, <2>1 DEF RowInv, FateInv, history
  <2> QED
    BY <2>2, <2>3, <2>4 DEF RowInv
<1>5. \A d \in Dispatchers : LoopInv(d)'
  BY <1>2 DEF SchedInv, LoopInv, loops
<1> QED
  BY <1>1, <1>3, <1>4, <1>5 DEF SchedInv

LEMMA CancelStep ==
  ASSUME SchedInv, NEW r \in Reminders, Cancel(r)
  PROVE  SchedInv'
<1>1. SchedTypeOK'
  BY DEF SchedInv, SchedTypeOK, Cancel, loops
<1>2. /\ UNCHANGED <<owner, attempts, loops, reports, spent, orphaned>>
      /\ status[r] = "live" /\ status'[r] = "deleted" /\ cancelled' = cancelled \cup {r}
      /\ \A x \in Reminders : x # r => status'[x] = status[x]
  BY DEF Cancel, SchedInv, SchedTypeOK
<1>3. ASSUME NEW x \in Reminders, x # r
      PROVE  RowInv(x)'
  BY <1>2, <1>3, RowFrame DEF SchedInv, loops
<1>4. RowInv(r)'
  <2>1. RowInv(r) /\ ~InFlight(r) /\ ~InFlight(r)'
    BY <1>2 DEF SchedInv, RowInv, HeldInv, InFlight, loops
  <2>2. HeldInv(r)'
    BY <1>2, <2>1 DEF RowInv, HeldInv, loops
  <2>3. ReportInv(r)'
    BY <1>2, <2>1 DEF RowInv, ReportInv, loops
  <2>4. FateInv(r)'
    BY <1>2, <2>1 DEF RowInv, FateInv
  <2> QED
    BY <2>2, <2>3, <2>4 DEF RowInv
<1>5. \A d \in Dispatchers : LoopInv(d)'
  BY <1>2 DEF SchedInv, LoopInv, loops
<1> QED
  BY <1>1, <1>3, <1>4, <1>5 DEF SchedInv

\* A round.
LEMMA SelectStep ==
  ASSUME SchedInv, NEW d \in Dispatchers, Select(d)
  PROVE  SchedInv'
<1>1. SchedTypeOK'
  BY SelectTypes DEF SchedInv
<1>2. UNCHANGED <<table, batch, current, landed, history>>
  BY DEF Select
<1>3. \A e \in Dispatchers : candidates'[e] = IF e = d THEN Due(d) ELSE candidates[e]
  BY DEF Select, SchedInv, SchedTypeOK
<1>4. ASSUME NEW x \in Reminders
      PROVE  RowInv(x)'
  <2>1. \A e \in Dispatchers : x \in candidates'[e] => x \in candidates[e] \/ owner[x] = e
    BY <1>3 DEF Due
  <2> QED
    BY <1>2, <2>1, RowFrame DEF SchedInv, table, history
<1>5. \A e \in Dispatchers : LoopInv(e)'
  BY <1>2 DEF Select, SchedInv, SchedTypeOK, LoopInv
<1> QED
  BY <1>1, <1>4, <1>5 DEF SchedInv

LEMMA ClaimStep ==
  ASSUME SchedInv, NEW d \in Dispatchers, NEW r \in Reminders, Claim(d, r)
  PROVE  SchedInv'
<1>1. SchedTypeOK'
  BY ClaimTypes DEF SchedInv
<1>2. UNCHANGED <<owner, attempts, current, landed, history>> /\ owner[r] = d
  BY DEF Claim, SchedInv, RowInv, HeldInv
<1>3. /\ \A e \in Dispatchers : candidates'[e] \subseteq candidates[e]
      /\ \A e \in Dispatchers :
           batch'[e] = IF e = d /\ Won(r) THEN batch[e] \cup {r} ELSE batch[e]
      /\ \A x \in Reminders : status'[x] = IF x = r /\ Won(r) THEN "fired" ELSE status[x]
  BY DEF Claim, SchedInv, SchedTypeOK
<1>4. ASSUME NEW x \in Reminders, x # r \/ ~Won(r)
      PROVE  RowInv(x)'
  <2>1. \A e \in Dispatchers : (x \in batch'[e] <=> x \in batch[e]) /\ status'[x] = status[x]
    BY <1>3, <1>4
  <2> QED
    BY <1>2, <1>3, <2>1, RowFrame DEF SchedInv, history
<1>5. ASSUME Won(r)
      PROVE  RowInv(r)'
  <2>1. RowInv(r) /\ ~InFlight(r) /\ status[r] = "live"
    BY <1>5 DEF SchedInv, RowInv, HeldInv, Won
  <2>2. InFlight(r)' /\ status'[r] = "fired"
    BY <1>3, <1>5 DEF InFlight
  <2>3. \A e \in Dispatchers : current'[e] # r /\ (r \in batch'[e] => e = d)
    BY <1>2, <1>3, <2>1 DEF InFlight
  <2>4. HeldInv(r)'
    BY <1>2, <1>3, <2>1, <2>2, <2>3 DEF RowInv, HeldInv
  <2>5. ReportInv(r)'
    BY <1>2, <2>1, <2>3 DEF RowInv, ReportInv, history
  <2>6. FateInv(r)'
    BY <1>2, <2>1, <2>2 DEF RowInv, FateInv, history
  <2> QED
    BY <2>4, <2>5, <2>6 DEF RowInv
<1>6. \A e \in Dispatchers : LoopInv(e)'
  BY <1>2 DEF Claim, SchedInv, SchedTypeOK, LoopInv
<1> QED
  BY <1>1, <1>4, <1>5, <1>6 DEF SchedInv

LEMMA DeliverStep ==
  ASSUME SchedInv, NEW d \in Dispatchers, NEW r \in Reminders, NEW ok \in BOOLEAN,
         Deliver(d, r, ok)
  PROVE  SchedInv'
<1>1. SchedTypeOK'
  BY DeliverTypes DEF SchedInv
<1>2. UNCHANGED <<table, candidates, spent, orphaned, cancelled>> /\ r \in batch[d]
  BY DEF Deliver
<1>3. /\ current[d] = None /\ None \notin Reminders
      /\ \A e \in Dispatchers : batch'[e] = IF e = d THEN batch[e] \ {r} ELSE batch[e]
      /\ \A e \in Dispatchers : current'[e] = IF e = d THEN r ELSE current[e]
      /\ \A e \in Dispatchers : landed'[e] = IF e = d THEN ok ELSE landed[e]
      /\ \A x \in Reminders : x # r => reports'[x] = reports[x]
  BY SchedulerAssumption DEF Deliver, SchedInv, SchedTypeOK, LoopInv
<1>4. ASSUME NEW x \in Reminders, x # r
      PROVE  RowInv(x)'
  BY <1>2, <1>3, <1>4, RowFrame DEF SchedInv, table
<1>5. RowInv(r)'
  <2>1. RowInv(r) /\ InFlight(r) /\ status[r] = "fired"
    BY <1>2 DEF SchedInv, RowInv, HeldInv, InFlight
  <2>2. InFlight(r)'
    BY <1>3 DEF InFlight
  <2>3. \A e \in Dispatchers :
          /\ r \notin batch'[e]
          /\ current'[e] = r => e = d
    BY <1>2, <1>3, <2>1 DEF RowInv, HeldInv
  <2>4. HeldInv(r)'
    BY <1>2, <1>3, <2>1, <2>3 DEF RowInv, HeldInv, table
  <2>5. reports[r] \in 0 .. 2 /\ (Recurring(r) \/ reports[r] = 0)
    BY <1>2, <2>1 DEF RowInv, ReportInv, SchedInv, SchedTypeOK
  <2>6. reports'[r] = IF ok /\ reports[r] < 2 THEN reports[r] + 1 ELSE reports[r]
    BY DEF Deliver, SchedInv, SchedTypeOK
  <2>7. ReportInv(r)'
    BY <1>2, <1>3, <2>1, <2>3, <2>5, <2>6 DEF ReportInv, Recurring, table
  <2>8. FateInv(r)'
    BY <1>2, <2>1, <2>2 DEF RowInv, FateInv, table
  <2> QED
    BY <2>4, <2>7, <2>8 DEF RowInv
<1>6. \A e \in Dispatchers : LoopInv(e)'
  BY <1>3 DEF Deliver, SchedInv, SchedTypeOK, LoopInv
<1> QED
  BY <1>1, <1>4, <1>5, <1>6 DEF SchedInv

LEMMA FinalizeStep ==
  ASSUME SchedInv, NEW d \in Dispatchers, Finalize(d)
  PROVE  SchedInv'
<1>1. SchedTypeOK'
  BY FinalizeTypes DEF SchedInv
<1>2. PICK r \in Reminders : r = current[d]
  BY DEF SchedInv, SchedTypeOK, LoopInv, Finalize
<1>3. /\ UNCHANGED <<owner, candidates, batch, reports, orphaned, cancelled>>
      /\ \A e \in Dispatchers : current'[e] = IF e = d THEN None ELSE current[e]
      /\ \A e \in Dispatchers : landed'[e] = IF e = d THEN FALSE ELSE landed[e]
      /\ None \notin Reminders
  BY SchedulerAssumption DEF Finalize, SchedInv, SchedTypeOK
<1>4. ASSUME NEW x \in Reminders, x # r
      PROVE  RowInv(x)'
  <2>1. /\ status'[x] = status[x] /\ attempts'[x] = attempts[x]
        /\ x \in spent' <=> x \in spent
    BY <1>2, <1>4 DEF Finalize, SchedInv, SchedTypeOK
  <2> QED
    BY <1>2, <1>3, <1>4, <2>1, RowFrame DEF SchedInv
<1>5. RowInv(r)'
  <2>1. RowInv(r) /\ InFlight(r) /\ status[r] = "fired" /\ owner[r] = d
    BY <1>2 DEF SchedInv, RowInv, HeldInv, InFlight
  <2>2. \A e \in Dispatchers : current'[e] # r /\ r \notin batch'[e]
    BY <1>2, <1>3, <2>1 DEF RowInv, HeldInv
  <2>3. ~InFlight(r)'
    BY <2>2 DEF InFlight
  <2>4. HeldInv(r)'
    BY <1>3, <2>1, <2>2, <2>3 DEF RowInv, HeldInv
  <2>5. r \notin cancelled /\ r \notin spent /\ attempts[r] \in Nat
    BY <2>1 DEF RowInv, FateInv, SchedInv, SchedTypeOK
  <2>6. CASE Rearmed(d)
    <3>1. status'[r] = "live" /\ attempts'[r] = AttemptsAfter(d) /\ UNCHANGED spent
      BY <1>2, <2>6 DEF Finalize, SchedInv, SchedTypeOK
    <3>2. Recurring(r) \/ reports[r] = 0
      BY <1>2, <2>1, <2>6 DEF RowInv, ReportInv, Rearmed, SchedInv, SchedTypeOK
    <3>3. ReportInv(r)'
      BY <1>3, <2>2, <3>2 DEF ReportInv, Recurring
    <3>4. AttemptsAfter(d) < MaxRetries
      BY <1>2, AttemptsTyped DEF SchedInv
    <3>5. FateInv(r)'
      BY <1>3, <2>5, <3>1, <3>4 DEF FateInv
    <3> QED
      BY <2>4, <3>3, <3>5 DEF RowInv
  <2>7. CASE ~Rearmed(d)
    <3>1. spent' = spent \cup {r} /\ UNCHANGED <<status, attempts>>
      BY <1>2, <2>7 DEF Finalize
    <3>2. ReportInv(r)'
      BY <1>3, <2>1, <2>2, <3>1 DEF RowInv, ReportInv
    <3>3. ~Recurring(r)
      BY <1>2, <2>7 DEF Rearmed
    <3>4. reports[r] = 0 => attempts[r] = MaxRetries - 1
      <4>1. CASE landed[d]
        BY <1>2, <2>1, <4>1 DEF RowInv, ReportInv
      <4>2. CASE ~landed[d]
        <5>1. ~(attempts[r] + 1 < MaxRetries) /\ attempts[r] < MaxRetries
          BY <1>2, <2>1, <2>7, <4>2 DEF Rearmed, Retriable, RowInv, FateInv
        <5> QED
          BY <2>5, <5>1, SchedulerAssumption
      <4> QED
        BY <4>1, <4>2
    <3>5. FateInv(r)'
      BY <1>3, <2>1, <2>3, <2>5, <3>1, <3>3, <3>4 DEF RowInv, FateInv, Recurring
    <3> QED
      BY <2>4, <3>2, <3>5 DEF RowInv
  <2> QED
    BY <2>6, <2>7
<1>6. \A e \in Dispatchers : LoopInv(e)'
  BY <1>3 DEF Finalize, SchedInv, SchedTypeOK, LoopInv
<1> QED
  BY <1>1, <1>4, <1>5, <1>6 DEF SchedInv

\* A round is cut short.
LEMMA EndStep ==
  ASSUME SchedInv, NEW d \in Dispatchers, EndRound(d)
  PROVE  SchedInv'
<1>1. SchedTypeOK'
  BY EndTypes DEF SchedInv
<1>2. /\ UNCHANGED <<table, reports, cancelled>>
      /\ \A e \in Dispatchers : current'[e] = IF e = d THEN None ELSE current[e]
      /\ \A e \in Dispatchers : landed'[e] = IF e = d THEN FALSE ELSE landed[e]
      /\ \A e \in Dispatchers : batch'[e] = IF e = d THEN {} ELSE batch[e]
      /\ \A e \in Dispatchers : candidates'[e] = IF e = d THEN {} ELSE candidates[e]
      /\ None \notin Reminders
  BY SchedulerAssumption DEF EndRound, SchedInv, SchedTypeOK
<1>3. ASSUME NEW x \in Reminders, x \notin batch[d], current[d] # x
      PROVE  RowInv(x)'
  <2>1. (x \in orphaned => x \in orphaned') /\ (x \in spent' <=> x \in spent)
    BY <1>3 DEF EndRound
  <2>2. /\ owner'[x] = owner[x] /\ status'[x] = status[x]
        /\ attempts'[x] = attempts[x] /\ reports'[x] = reports[x]
        /\ UNCHANGED <<owner, cancelled>>
    BY <1>2 DEF table
  <2>3. ASSUME NEW e \in Dispatchers
        PROVE  /\ x \in batch'[e] <=> x \in batch[e]
               /\ current'[e] = x <=> current[e] = x
               /\ current[e] = x => landed'[e] = landed[e]
               /\ x \in candidates'[e] => x \in candidates[e] \/ owner[x] = e
    BY <1>2, <1>3
  <2>4. RowInv(x)
    BY DEF SchedInv
  <2> QED
    BY <2>1, <2>2, <2>3, <2>4, RowFrame
<1>4. ASSUME NEW x \in Reminders, x \in batch[d] \/ current[d] = x
      PROVE  RowInv(x)'
  <2>1. RowInv(x) /\ InFlight(x) /\ status[x] = "fired" /\ owner[x] = d
    BY <1>4 DEF SchedInv, RowInv, HeldInv, InFlight
  <2>2. \A e \in Dispatchers : current'[e] # x /\ x \notin batch'[e]
    BY <1>2, <2>1 DEF RowInv, HeldInv
  <2>3. ~InFlight(x)'
    BY <2>2 DEF InFlight
  <2>4. HeldInv(x)'
    BY <1>2, <2>1, <2>2, <2>3 DEF RowInv, HeldInv, table
  <2>5. ReportInv(x)'
    BY <1>2, <2>1, <2>2 DEF RowInv, ReportInv, table
  <2>6. x \notin cancelled /\ x \notin spent
    BY <2>1 DEF RowInv, FateInv
  <2>7. CASE x \in Abandoned(d)
    <3>1. x \in orphaned' /\ x \notin spent'
      BY <2>6, <2>7 DEF EndRound
    <3> QED
      BY <1>2, <2>1, <2>3, <2>4, <2>5, <2>6, <3>1 DEF RowInv, FateInv, table
  <2>8. CASE x \notin Abandoned(d)
    <3>1. current[d] = x /\ landed[d] /\ ~Recurring(x)
      BY <1>2, <1>4, <2>8 DEF Abandoned
    <3>2. x \in spent'
      BY <1>2, <2>8, <3>1 DEF EndRound
    <3>3. reports[x] > 0
      BY <2>1, <3>1 DEF RowInv, ReportInv
    <3> QED
      BY <1>2, <2>1, <2>3, <2>4, <2>5, <2>6, <3>1, <3>2, <3>3
         DEF RowInv, FateInv, Recurring, table
  <2> QED
    BY <2>7, <2>8
<1>5. \A e \in Dispatchers : LoopInv(e)'
  BY <1>2 DEF EndRound, SchedInv, SchedTypeOK, LoopInv
<1> QED
  BY <1>1, <1>3, <1>4, <1>5 DEF SchedInv

\* Time passes, or only an error is counted, or nothing happens at all.
LEMMA StillStep ==
  ASSUME SchedInv, SchedTypeOK',
         UNCHANGED <<status, owner, attempts, pc, candidates, batch, current, landed, history>>
  PROVE  SchedInv'
<1>1. ASSUME NEW x \in Reminders
      PROVE  RowInv(x)'
  BY RowFrame DEF SchedInv, history
<1>2. \A e \in Dispatchers : LoopInv(e)'
  BY DEF SchedInv, LoopInv
<1> QED
  BY <1>1, <1>2 DEF SchedInv

LEMMA TickStep ==
  ASSUME SchedInv, Tick
  PROVE  SchedInv'
<1>1. SchedTypeOK'
  BY TickTypes DEF SchedInv
<1> QED
  BY <1>1, StillStep DEF Tick, SchedInv

LEMMA FailureStep ==
  ASSUME SchedInv, UNCHANGED <<table, loops, history>>,
         failures' = failures \/ failures' = failures + 1
  PROVE  SchedInv'
<1>1. SchedTypeOK'
  BY DEF SchedInv, SchedTypeOK, table, loops, history
<1> QED
  BY <1>1, StillStep DEF table, loops

-----------------------------------------------------------------------------
(* The todos                                                               *)

LEMMA Start == Init => Inv
<1> SUFFICES ASSUME Init PROVE Inv
  OBVIOUS
<1>1. SchedTypeOK /\ TodoTypeOK /\ ClosedInv
  BY DEF Init, SchedInit, SchedTypeOK, TodoTypeOK, ClosedInv
<1>2. ASSUME NEW r \in Reminders
      PROVE  RowInv(r)
  <2>1. ~InFlight(r)
    BY SchedulerAssumption DEF Init, SchedInit, InFlight
  <2> QED
    BY <2>1, SchedulerAssumption
       DEF Init, SchedInit, RowInv, HeldInv, ReportInv, FateInv
<1>3. \A d \in Dispatchers : LoopInv(d)
  BY DEF Init, SchedInit, LoopInv
<1> QED
  BY <1>1, <1>2, <1>3 DEF Inv, SchedInv

\* What the dispatcher and the reminder tools do without the todos.
LEMMA PlainStep ==
  ASSUME Inv, PlainTools \/ Dispatch, UNCHANGED todoVars
  PROVE  Inv'
<1>1. SchedInv' /\ cancelled \subseteq cancelled'
  <2>1. ASSUME NEW r \in Reminders, NEW delay \in Delays, Add(r, delay)
        PROVE  SchedInv' /\ cancelled \subseteq cancelled'
    BY <2>1, AddStep DEF Inv, Add, history
  <2>2. ASSUME NEW r \in Reminders, Cancel(r)
        PROVE  SchedInv' /\ cancelled \subseteq cancelled'
    BY <2>2, CancelStep DEF Inv, Cancel
  <2>3. ASSUME NEW d \in Dispatchers, Round(d) \/ DatabaseError(d)
        PROVE  SchedInv' /\ cancelled \subseteq cancelled'
    <3>1. CASE Select(d)
      BY <3>1, SelectStep DEF Inv, Select, history
    <3>2. ASSUME NEW r \in Reminders, Claim(d, r)
          PROVE  SchedInv' /\ cancelled \subseteq cancelled'
      BY <3>2, ClaimStep DEF Inv, Claim, history
    <3>3. ASSUME NEW r \in Reminders, NEW ok \in BOOLEAN, Deliver(d, r, ok)
          PROVE  SchedInv' /\ cancelled \subseteq cancelled'
      BY <3>3, DeliverStep DEF Inv, Deliver
    <3>4. CASE Finalize(d)
      BY <3>4, FinalizeStep DEF Inv, Finalize
    <3>5. CASE EndRound(d)
      BY <3>5, EndStep DEF Inv, EndRound
    <3> QED
      BY <2>3, <3>1, <3>2, <3>3, <3>4, <3>5 DEF Round, DatabaseError
  <2>4. CASE Tick
    BY <2>4, TickStep DEF Inv, Tick, history
  <2> QED
    BY <2>1, <2>2, <2>3, <2>4 DEF PlainTools, Dispatch
<1>2. TodoTypeOK' /\ ClosedInv'
  BY <1>1 DEF Inv, TodoTypeOK, ClosedInv, todoVars
<1> QED
  BY <1>1, <1>2 DEF Inv

\* A step of add_todo.
LEMMA AddTodoStep ==
  ASSUME Inv, NEW t \in TodoItems, AddTodo(t)
  PROVE  Inv'
<1>1. ReminderOf[t] \in Reminders
  BY TodoAssumption
<1>2. SchedInv' /\ UNCHANGED cancelled
  <2>1. ASSUME NEW delay \in Delays, InsertReminder(t, delay)
        PROVE  SchedInv' /\ UNCHANGED cancelled
    <3>1. Add(ReminderOf[t], delay)
      BY <2>1 DEF InsertReminder
    <3> QED
      BY <1>1, <3>1, AddStep DEF Inv, Add, history
  <2>2. CASE InsertTodo(t) \/ LinkReminder(t)
    BY <2>2, FailureStep DEF Inv, InsertTodo, LinkReminder, schedVars, history
  <2>3. CASE AddFails(t)
    BY <2>3, FailureStep DEF Inv, AddFails, history
  <2> QED
    BY <2>1, <2>2, <2>3 DEF AddTodo
<1>3. UNCHANGED <<closing, raced>>
  BY DEF AddTodo, InsertTodo, InsertReminder, LinkReminder, AddFails
<1>4. TodoTypeOK'
  BY <1>3 DEF Inv, TodoTypeOK, AddTodo, InsertTodo, InsertReminder, LinkReminder, AddFails
<1>5. ClosedInv'
  BY <1>2, <1>3 DEF Inv, ClosedInv
<1> QED
  BY <1>2, <1>4, <1>5 DEF Inv

\* A step of complete_todo or cancel_todo.
LEMMA CloseStep ==
  ASSUME Inv, NEW t \in TodoItems, Close(t)
  PROVE  Inv'
<1>1. ReminderOf[t] \in Reminders
  BY TodoAssumption
<1>2. CASE CancelLinked(t)
  <2>1. /\ UNCHANGED <<todo, linked, adding>>
        /\ \A u \in TodoItems : closing'[u] = IF u = t THEN "closed" ELSE closing[u]
        /\ closing' \in [TodoItems -> {"no", "read", "read_unlinked", "cancel", "closed",
                                       "unlinked"}]
    BY <1>2 DEF CancelLinked, Inv, TodoTypeOK
  <2>2. CASE Cancel(ReminderOf[t]) /\ raced' = raced
    <3>1. SchedInv'
      BY <1>1, <2>2, CancelStep DEF Inv
    <3>2. cancelled' = cancelled \cup {ReminderOf[t]}
      BY <2>2 DEF Cancel
    <3>3. TodoTypeOK'
      BY <2>1, <2>2 DEF Inv, TodoTypeOK
    <3>4. ClosedInv'
      BY <2>1, <2>2, <3>2 DEF Inv, ClosedInv
    <3> QED
      BY <3>1, <3>3, <3>4 DEF Inv
  <2>3. CASE UNCHANGED schedVars /\ raced' = raced \cup {t}
    <3>1. SchedInv'
      BY <2>3, FailureStep DEF Inv, schedVars
    <3>2. TodoTypeOK'
      BY <2>1, <2>3 DEF Inv, TodoTypeOK
    <3>3. ClosedInv'
      BY <2>1, <2>3 DEF Inv, ClosedInv, schedVars, history
    <3> QED
      BY <3>1, <3>2, <3>3 DEF Inv
  <2> QED
    BY <1>2, <2>2, <2>3 DEF CancelLinked
<1>3. CASE CancelFails(t)
  <2>1. SchedInv' /\ UNCHANGED cancelled
    BY <1>3, FailureStep DEF Inv, CancelFails, history
  <2>2. TodoTypeOK'
    BY <1>3 DEF Inv, TodoTypeOK, CancelFails
  <2>3. ClosedInv'
    BY <1>3, <2>1 DEF Inv, TodoTypeOK, ClosedInv, CancelFails
  <2> QED
    BY <2>1, <2>2, <2>3 DEF Inv
<1>4. ASSUME ReadTodo(t) \/ \E how \in {"done", "deleted"} : CloseTodo(t, how)
      PROVE  Inv'
  <2>1. SchedInv' /\ UNCHANGED <<cancelled, raced>>
    BY <1>4, FailureStep DEF Inv, ReadTodo, CloseTodo, schedVars, history
  <2>2. TodoTypeOK'
    BY <1>4 DEF Inv, TodoTypeOK, ReadTodo, CloseTodo
  <2>3. \A u \in TodoItems : closing'[u] = "closed" => closing[u] = "closed"
    BY <1>4 DEF Inv, TodoTypeOK, ReadTodo, CloseTodo
  <2>4. ClosedInv'
    BY <2>1, <2>3 DEF Inv, ClosedInv
  <2> QED
    BY <2>1, <2>2, <2>4 DEF Inv
<1> QED
  BY <1>2, <1>3, <1>4 DEF Close

LEMMA RestartStep ==
  ASSUME Inv, NEW d \in Dispatchers, RestartProcess(d)
  PROVE  Inv'
<1>1. EndRound(d) /\ UNCHANGED <<todo, linked, raced, cancelled>>
  BY DEF RestartProcess, EndRound
<1>2. SchedInv'
  BY <1>1, EndStep DEF Inv
<1>3. /\ adding' \in [TodoItems -> {"no", "inserted", "scheduled"}]
      /\ closing' \in [TodoItems -> {"no", "read", "read_unlinked", "cancel", "closed",
                                     "unlinked"}]
      /\ \A u \in TodoItems : closing'[u] = "closed" => closing[u] = "closed"
  BY DEF Inv, TodoTypeOK, RestartProcess
<1>4. TodoTypeOK' /\ ClosedInv'
  BY <1>1, <1>3 DEF Inv, TodoTypeOK, ClosedInv
<1> QED
  BY <1>2, <1>4 DEF Inv

\* The invariant holds in every reachable state.
LEMMA Invariance == Spec => []Inv
<1>1. Inv /\ [Next]_vars => Inv'
  <2> SUFFICES ASSUME Inv, [Next]_vars
               PROVE  Inv'
    OBVIOUS
  <2>1. CASE Next
    BY <2>1, PlainStep, AddTodoStep, CloseStep, RestartStep DEF Next
  <2>2. CASE UNCHANGED vars
    <3>1. SchedInv'
      BY <2>2, FailureStep DEF Inv, vars, schedVars
    <3>2. TodoTypeOK' /\ ClosedInv'
      BY <2>2 DEF Inv, TodoTypeOK, ClosedInv, vars, schedVars, todoVars, history
    <3> QED
      BY <3>1, <3>2 DEF Inv
  <2> QED
    BY <2>1, <2>2
<1> QED
  BY <1>1, Start, PTL DEF Spec

-----------------------------------------------------------------------------

\* Every reachable state of reminders, rounds and todos is well typed.
THEOREM TypeCorrect == Spec => []TypeOK
<1>1. Inv => TypeOK
  BY DEF Inv, SchedInv, TodoTypeOK, TypeOK
<1> QED
  BY <1>1, Invariance, PTL

\* A one-shot reminder is reported delivered at most once, whatever _claim_due_sync and
\* _finalize_sync were interrupted by, and a cancelled one is gone for good.
THEOREM AtMostOnce == Spec => []NeverTooOften
<1>1. Inv => NeverTooOften
  <2> SUFFICES ASSUME Inv PROVE NeverTooOften
    OBVIOUS
  <2>1. ASSUME NEW r \in Reminders, ~Recurring(r)
        PROVE  reports[r] <= 1
    <3>1. reports[r] \in 0 .. 2 /\ (reports[r] > 0 => reports[r] = 1)
      BY <2>1 DEF Inv, SchedInv, SchedTypeOK, RowInv, ReportInv
    <3> QED
      BY <3>1
  <2>2. ASSUME NEW r \in cancelled
        PROVE  status[r] = "deleted" /\ ~InFlight(r)
    BY DEF Inv, SchedInv, SchedTypeOK, RowInv, HeldInv, FateInv
  <2> QED
    BY <2>1, <2>2 DEF NeverTooOften
<1> QED
  BY <1>1, Invariance, PTL

\* A reminder that is marked as fired and that no round holds was delivered, had used up
\* its retries, or belongs to a round that was cut short.
THEOREM NothingLost == Spec => []NoSilentLoss
<1>1. Inv => NoSilentLoss
  BY DEF Inv, SchedInv, SchedTypeOK, RowInv, FateInv, NoSilentLoss
<1> QED
  BY <1>1, Invariance, PTL

\* The reminder of a todo that was closed can only fire if it was out of reach of
\* _cancel_linked_reminder() at that moment.
THEOREM Quiet == Spec => []ClosedTodoQuiet
<1>1. Inv => ClosedTodoQuiet
  <2> SUFFICES ASSUME Inv, NEW t \in TodoItems, closing[t] = "closed", t \notin raced
               PROVE  status[ReminderOf[t]] # "live" /\ ~InFlight(ReminderOf[t])
    BY DEF ClosedTodoQuiet
  <2>1. PICK r \in Reminders : r = ReminderOf[t] /\ r \in cancelled
    BY TodoAssumption DEF Inv, ClosedInv
  <2> QED
    BY <2>1 DEF Inv, SchedInv, RowInv, HeldInv, FateInv
<1> QED
  BY <1>1, Invariance, PTL

-----------------------------------------------------------------------------
(* The scheduler implements ReminderService                                *)

\* A step that does not touch a row leaves its fate.
LEMMA FateFrame ==
  ASSUME NEW x \in Reminders,
         status'[x] = status[x] /\ reports'[x] = reports[x],
         x \in spent' <=> x \in spent,
         \A e \in Dispatchers :
           /\ x \in batch'[e] <=> x \in batch[e]
           /\ current'[e] = x <=> current[e] = x
           /\ current[e] = x => landed'[e] = landed[e]
  PROVE  FateOf(x)' = FateOf(x)
<1>1. (\E e \in Dispatchers : x \in batch[e])' <=> \E e \in Dispatchers : x \in batch[e]
  OBVIOUS
<1>2. (\E e \in Dispatchers : current[e] = x /\ landed[e])'
        <=> \E e \in Dispatchers : current[e] = x /\ landed[e]
  OBVIOUS
<1>3. (\E e \in Dispatchers : current[e] = x)' <=> \E e \in Dispatchers : current[e] = x
  OBVIOUS
<1> QED
  BY <1>1, <1>2, <1>3 DEF FateOf

\* What a row that has fired is doing, by who holds it.
LEMMA FateHeld ==
  ASSUME SchedInv, NEW x \in Reminders, status[x] = "fired"
  PROVE  /\ \A d \in Dispatchers : x \in batch[d] => FateOf(x) = "taken"
         /\ \A d \in Dispatchers : current[d] = x =>
              FateOf(x) = IF landed[d] THEN "told" ELSE "missed"
         /\ ~InFlight(x) => FateOf(x) = IF x \notin spent THEN "lost"
                                        ELSE IF reports[x] > 0 THEN "over" ELSE "dropped"
<1>1. RowInv(x)
  BY DEF SchedInv
<1>2. ASSUME NEW d \in Dispatchers, x \in batch[d]
      PROVE  FateOf(x) = "taken"
  BY <1>2 DEF FateOf
<1>3. ASSUME NEW d \in Dispatchers, current[d] = x
      PROVE  FateOf(x) = IF landed[d] THEN "told" ELSE "missed"
  <2>1. owner[x] = d
    BY <1>1, <1>3 DEF RowInv, HeldInv
  <2>2. ASSUME NEW e \in Dispatchers
        PROVE  x \notin batch[e] /\ (current[e] = x => e = d)
    BY <1>1, <1>3, <2>1 DEF RowInv, HeldInv
  <2>3. (\E e \in Dispatchers : current[e] = x /\ landed[e]) <=> landed[d]
    BY <1>3, <2>2
  <2>4. \E e \in Dispatchers : current[e] = x
    BY <1>3
  <2>5. ~\E e \in Dispatchers : x \in batch[e]
    BY <2>2
  <2> QED
    BY <2>3, <2>4, <2>5 DEF FateOf
<1>4. ASSUME ~InFlight(x)
      PROVE  FateOf(x) = IF x \notin spent THEN "lost"
                         ELSE IF reports[x] > 0 THEN "over" ELSE "dropped"
  BY <1>4 DEF FateOf, InFlight
<1> QED
  BY <1>2, <1>3, <1>4

\* A step that moves one row from one fate to another.
OthersStay(r) ==
  \A x \in Reminders \ {r} : FateOf(x)' = FateOf(x) /\ attempts'[x] = attempts[x]

LEMMA FateMoves ==
  ASSUME NEW r \in Reminders, OthersStay(r), NEW from, NEW to,
         FateOf(r) = from, FateOf(r)' = to
  PROVE  Service!Moves(r, from, to)
<1>1. [x \in Reminders |-> FateOf(x)'] =
        [[x \in Reminders |-> FateOf(x)] EXCEPT ![r] = to]
  BY DEF OthersStay
<1>2. [x \in Reminders |-> FateOf(x)][r] = from
  OBVIOUS
<1> QED
  BY <1>1, <1>2 DEF Service!Moves

\* Steps that leave every row where it is.
LEMMA FateStutters ==
  ASSUME \A x \in Reminders : FateOf(x)' = FateOf(x), UNCHANGED attempts
  PROVE  UNCHANGED Service!vars
BY DEF Service!vars

LEMMA StillMaps ==
  ASSUME UNCHANGED <<status, attempts, batch, current, landed, reports, spent>>
  PROVE  UNCHANGED Service!vars
<1>1. \A x \in Reminders : FateOf(x)' = FateOf(x)
  BY FateFrame
<1> QED
  BY <1>1, FateStutters

LEMMA ToolMaps ==
  ASSUME SchedInv, NEW r \in Reminders, NEW delay, Add(r, delay) \/ Cancel(r)
  PROVE  Service!Next
<1>1. /\ UNCHANGED <<attempts, batch, current, landed, reports, spent>>
      /\ \A x \in Reminders \ {r} : status'[x] = status[x]
  BY DEF Add, Cancel, SchedInv, SchedTypeOK, loops, history
<1>2. OthersStay(r)
  BY <1>1, FateFrame DEF OthersStay
<1>3. CASE Add(r, delay)
  <2>1. status[r] = "absent" /\ status'[r] = "live"
    BY <1>3 DEF Add, SchedInv, SchedTypeOK
  <2>2. FateOf(r) = "unset" /\ FateOf(r)' = "waiting"
    BY <2>1 DEF FateOf
  <2>3. Service!Set(r)
    BY <1>1, <1>2, <2>2, FateMoves DEF Service!Set
  <2> QED
    BY <2>3 DEF Service!Next
<1>4. CASE Cancel(r)
  <2>1. status[r] = "live" /\ status'[r] = "deleted"
    BY <1>4 DEF Cancel, SchedInv, SchedTypeOK
  <2>2. FateOf(r) = "waiting" /\ FateOf(r)' = "cancelled"
    BY <2>1 DEF FateOf
  <2>3. Service!Cancel(r)
    BY <1>1, <1>2, <2>2, FateMoves DEF Service!Cancel
  <2> QED
    BY <2>3 DEF Service!Next
<1> QED
  BY <1>3, <1>4

\* A claim takes the row, unless it lost the race.
LEMMA ClaimMaps ==
  ASSUME SchedInv, NEW d \in Dispatchers, NEW r \in Reminders, Claim(d, r)
  PROVE  Service!Next \/ UNCHANGED Service!vars
<1>1. UNCHANGED <<attempts, current, landed, reports, spent>>
  BY DEF Claim, history
<1>2. CASE ~Won(r)
  <2>1. status' = status /\ \A e \in Dispatchers : batch'[e] = batch[e]
    BY <1>2 DEF Claim, SchedInv, SchedTypeOK
  <2>2. \A x \in Reminders : FateOf(x)' = FateOf(x)
    BY <1>1, <2>1, FateFrame
  <2> QED
    BY <1>1, <2>2, FateStutters
<1>3. CASE Won(r)
  <2>1. /\ status[r] = "live" /\ status'[r] = "fired"
        /\ \A x \in Reminders \ {r} : status'[x] = status[x]
    BY <1>3 DEF Claim, Won, SchedInv, SchedTypeOK
  <2>2. \A e \in Dispatchers : batch'[e] = IF e = d THEN batch[d] \cup {r} ELSE batch[e]
    BY <1>3 DEF Claim, SchedInv, SchedTypeOK
  <2>3. OthersStay(r)
    BY <1>1, <2>1, <2>2, FateFrame DEF OthersStay
  <2>4. FateOf(r) = "waiting" /\ FateOf(r)' = "taken"
    <3>1. FateOf(r) = "waiting"
      BY <2>1 DEF FateOf
    <3>2. r \in batch'[d]
      BY <2>2
    <3> QED
      BY <2>1, <3>1, <3>2 DEF FateOf
  <2>5. Service!Take(r)
    BY <1>1, <2>3, <2>4, FateMoves DEF Service!Take
  <2> QED
    BY <2>5 DEF Service!Next
<1> QED
  BY <1>2, <1>3

LEMMA DeliverMaps ==
  ASSUME SchedInv, SchedInv', NEW d \in Dispatchers, NEW r \in Reminders, NEW ok \in BOOLEAN,
         Deliver(d, r, ok)
  PROVE  Service!Next
<1>1. UNCHANGED <<status, attempts, spent>>
  BY DEF Deliver, table
<1>2. /\ pc[d] = "deliver" /\ r \in batch[d]
      /\ \A e \in Dispatchers : batch'[e] = IF e = d THEN batch[d] \ {r} ELSE batch[e]
      /\ \A e \in Dispatchers : current'[e] = IF e = d THEN r ELSE current[e]
      /\ \A e \in Dispatchers : landed'[e] = IF e = d THEN ok ELSE landed[e]
      /\ \A x \in Reminders \ {r} : reports'[x] = reports[x]
  BY DEF Deliver, SchedInv, SchedTypeOK
<1>3. current[d] = None
  BY <1>2 DEF SchedInv, LoopInv
<1>4. OthersStay(r)
  <2> SUFFICES ASSUME NEW x \in Reminders \ {r}
               PROVE  FateOf(x)' = FateOf(x) /\ attempts'[x] = attempts[x]
    BY DEF OthersStay
  <2>1. x # None
    BY SchedulerAssumption
  <2>2. \A e \in Dispatchers : /\ x \in batch'[e] <=> x \in batch[e]
                               /\ current'[e] = x <=> current[e] = x
                               /\ current[e] = x => landed'[e] = landed[e]
    BY <1>2, <1>3, <2>1
  <2> QED
    BY <1>1, <1>2, <2>2, FateFrame
<1>5. status[r] = "fired"
  BY <1>2 DEF SchedInv, RowInv, HeldInv, InFlight
<1>6. FateOf(r) = "taken"
  BY <1>2, <1>5, FateHeld
<1>7. FateOf(r)' = IF ok THEN "told" ELSE "missed"
  <2>1. ASSUME NEW e \in Dispatchers
        PROVE  r \notin batch'[e] /\ (current'[e] = r => e = d)
    <3>1. owner'[r] = d /\ r \notin batch'[d]
      BY <1>2 DEF SchedInv, RowInv, HeldInv
    <3> QED
      BY <3>1 DEF SchedInv, RowInv, HeldInv
  <2>2. current'[d] = r /\ landed'[d] = ok
    BY <1>2
  <2>3. (\E e \in Dispatchers : current[e] = r /\ landed[e])' <=> ok
    BY <2>1, <2>2
  <2>4. (\E e \in Dispatchers : current[e] = r)' /\ ~(\E e \in Dispatchers : r \in batch[e])'
    BY <2>1, <2>2
  <2> QED
    BY <1>1, <1>5, <2>3, <2>4 DEF FateOf
<1>8. Service!Tell(r) \/ Service!Miss(r)
  <2>1. CASE ok
    BY <1>1, <1>4, <1>6, <1>7, <2>1, FateMoves DEF Service!Tell
  <2>2. CASE ~ok
    BY <1>1, <1>4, <1>6, <1>7, <2>2, FateMoves DEF Service!Miss
  <2> QED
    BY <2>1, <2>2
<1> QED
  BY <1>8 DEF Service!Next

\* The end of a delivery: the row repeats, is tried again, or is done with.
LEMMA FinalizeMaps ==
  ASSUME SchedInv, SchedInv', NEW d \in Dispatchers, Finalize(d)
  PROVE  Service!Next
<1>0. PICK r \in Reminders : r = current[d]
  BY DEF Finalize, SchedInv, SchedTypeOK, LoopInv
<1>1. /\ r # None
      /\ UNCHANGED <<batch, reports>>
      /\ \A e \in Dispatchers : current'[e] = IF e = d THEN None ELSE current[e]
      /\ \A e \in Dispatchers : landed'[e] = IF e = d THEN FALSE ELSE landed[e]
  BY <1>0, SchedulerAssumption DEF Finalize, SchedInv, SchedTypeOK, LoopInv
<1>2. /\ status[r] = "fired" /\ r \notin spent /\ attempts[r] \in Nat /\ attempts[r] < MaxRetries
      /\ owner[r] = d /\ r \notin batch[d]
  BY <1>0, <1>1 DEF SchedInv, SchedTypeOK, RowInv, HeldInv, FateInv, InFlight
<1>3. /\ Rearmed(d) => /\ status' = [status EXCEPT ![r] = "live"]
                       /\ attempts' = [attempts EXCEPT ![r] = AttemptsAfter(d)]
                       /\ UNCHANGED spent
      /\ ~Rearmed(d) => spent' = spent \cup {r} /\ UNCHANGED <<status, attempts>>
  BY <1>0 DEF Finalize
<1>4. attempts \in [Reminders -> Nat] /\ attempts' \in [Reminders -> Nat]
  BY DEF SchedInv, SchedTypeOK
<1>5. OthersStay(r)
  <2> SUFFICES ASSUME NEW x \in Reminders \ {r}
               PROVE  FateOf(x)' = FateOf(x) /\ attempts'[x] = attempts[x]
    BY DEF OthersStay
  <2>1. status'[x] = status[x] /\ attempts'[x] = attempts[x] /\ (x \in spent' <=> x \in spent)
    BY <1>1, <1>3, <1>4 DEF SchedInv, SchedTypeOK
  <2>2. x # None /\ current[d] # x
    BY <1>0, SchedulerAssumption
  <2>3. \A e \in Dispatchers : /\ current'[e] = x <=> current[e] = x
                               /\ current[e] = x => landed'[e] = landed[e]
    BY <1>1, <2>2
  <2> QED
    BY <1>1, <2>1, <2>3, FateFrame
<1>6. FateOf(r) = IF landed[d] THEN "told" ELSE "missed"
  BY <1>1, <1>2, FateHeld, <1>0
<1>7. CASE Rearmed(d)
  <2>1. FateOf(r)' = "waiting"
    <3>1. status'[r] = "live"
      BY <1>1, <1>3, <1>7 DEF SchedInv, SchedTypeOK
    <3> QED
      BY <3>1 DEF FateOf
  <2>2. attempts' = [attempts EXCEPT ![r] = AttemptsAfter(d)]
    BY <1>3, <1>7
  <2>3. CASE landed[d]
    <3>1. r \in {x \in Reminders : Recurring(x)}
      BY <1>1, <1>7, <2>3, <1>0 DEF Rearmed
    <3>2. attempts' = [attempts EXCEPT ![r] = 0]
      BY <2>2, <2>3 DEF AttemptsAfter
    <3>3. Service!Repeat(r)
      BY <1>1, <1>5, <1>6, <2>1, <2>3, <3>1, <3>2, FateMoves DEF Service!Repeat
    <3> QED
      BY <1>1, <3>3 DEF Service!Next
  <2>4. CASE ~landed[d] /\ Retriable(r)
    <3>1. attempts' = [attempts EXCEPT ![r] = @ + 1] /\ attempts[r] + 1 < MaxRetries
      BY <2>2, <2>4, <1>0 DEF AttemptsAfter, Retriable
    <3>2. Service!Retry(r)
      BY <1>1, <1>5, <1>6, <2>1, <2>4, <3>1, FateMoves DEF Service!Retry
    <3> QED
      BY <1>1, <3>2 DEF Service!Next
  <2>5. CASE ~landed[d] /\ ~Retriable(r)
    <3>1. r \in {x \in Reminders : Recurring(x)}
      BY <1>1, <1>7, <2>5, <1>0 DEF Rearmed
    <3>2. attempts' = [attempts EXCEPT ![r] = 0]
      BY <2>2, <2>5, <1>0 DEF AttemptsAfter
    <3>3. attempts[r] + 1 = MaxRetries
      BY <1>2, <2>5, SchedulerAssumption DEF Retriable
    <3>4. Service!Skip(r)
      BY <1>1, <1>5, <1>6, <2>1, <2>5, <3>1, <3>2, <3>3, FateMoves DEF Service!Skip
    <3> QED
      BY <1>1, <3>4 DEF Service!Next
  <2> QED
    BY <2>3, <2>4, <2>5
<1>8. CASE ~Rearmed(d)
  <2>1. r \in spent' /\ attempts' = attempts /\ status'[r] = "fired" /\ reports'[r] = reports[r]
    BY <1>1, <1>2, <1>3, <1>8
  <2>2. ~InFlight(r)'
    BY <1>1, <2>1 DEF SchedInv, RowInv, FateInv
  <2>3. FateOf(r)' = IF reports[r] > 0 THEN "over" ELSE "dropped"
    BY <2>1, <2>2 DEF FateOf, InFlight
  <2>4. r \notin {x \in Reminders : Recurring(x)} /\ ~Recurring(r)
    BY <1>8, <1>0 DEF Rearmed
  <2>5. CASE landed[d]
    <3>1. reports[r] > 0
      BY <1>1, <2>5, <1>0 DEF SchedInv, RowInv, ReportInv
    <3>2. Service!Close(r)
      BY <1>1, <1>5, <1>6, <2>1, <2>3, <2>4, <2>5, <3>1, FateMoves DEF Service!Close
    <3> QED
      BY <1>1, <3>2 DEF Service!Next
  <2>6. CASE ~landed[d]
    <3>1. ~(reports[r] > 0)
      BY <1>1, <2>4, <2>6, <1>0 DEF SchedInv, RowInv, ReportInv
    <3>2. attempts[r] + 1 = MaxRetries
      <4>1. ~(attempts[r] + 1 < MaxRetries)
        BY <1>8, <2>6, <1>0 DEF Rearmed, Retriable
      <4> QED
        BY <1>2, <4>1, SchedulerAssumption
    <3>3. Service!Drop(r)
      BY <1>1, <1>5, <1>6, <2>1, <2>3, <2>4, <2>6, <3>1, <3>2, FateMoves DEF Service!Drop
    <3> QED
      BY <1>1, <3>3 DEF Service!Next
  <2> QED
    BY <2>5, <2>6
<1> QED
  BY <1>7, <1>8

\* A round that is cut short stops the service for the rows it holds.
LEMMA EndMaps ==
  ASSUME SchedInv, SchedInv', NEW d \in Dispatchers, EndRound(d)
  PROVE  Service!Next \/ UNCHANGED Service!vars
<1> DEFINE S == {x \in Reminders : x \in batch[d] \/ current[d] = x}
<1>1. /\ UNCHANGED <<status, attempts, reports>> /\ None \notin Reminders
      /\ \A e \in Dispatchers : current'[e] = IF e = d THEN None ELSE current[e]
      /\ \A e \in Dispatchers : landed'[e] = IF e = d THEN FALSE ELSE landed[e]
      /\ \A e \in Dispatchers : batch'[e] = IF e = d THEN {} ELSE batch[e]
  BY SchedulerAssumption DEF EndRound, SchedInv, SchedTypeOK, table
<1>2. ASSUME NEW x \in Reminders \ S
      PROVE  FateOf(x)' = FateOf(x)
  <2>1. x \in spent' <=> x \in spent
    BY <1>2 DEF EndRound
  <2>2. \A e \in Dispatchers : /\ x \in batch'[e] <=> x \in batch[e]
                               /\ current'[e] = x <=> current[e] = x
                               /\ current[e] = x => landed'[e] = landed[e]
    BY <1>1, <1>2
  <2> QED
    BY <1>1, <1>2, <2>1, <2>2, FateFrame
<1>3. ASSUME NEW x \in S
      PROVE  /\ FateOf(x) \in Service!UnderWay
             /\ FateOf(x)' = IF FateOf(x) = "told" /\ ~Recurring(x) THEN "over" ELSE "lost"
  <2>1. /\ x \in Reminders /\ InFlight(x) /\ status[x] = "fired" /\ owner[x] = d
        /\ x \notin spent /\ (current[d] = x => x \notin batch[d])
    BY DEF SchedInv, RowInv, HeldInv, FateInv, InFlight
  <2>2. FateOf(x) = IF x \in batch[d] THEN "taken" ELSE IF landed[d] THEN "told" ELSE "missed"
    BY <2>1, FateHeld
  <2>3. ASSUME NEW e \in Dispatchers
        PROVE  x \notin batch'[e] /\ current'[e] # x
    BY <1>1, <2>1 DEF SchedInv, RowInv, HeldInv
  <2>4. FateOf(x)' = IF x \notin spent' THEN "lost"
                     ELSE IF reports[x] > 0 THEN "over" ELSE "dropped"
    <3>1. status'[x] = "fired" /\ reports'[x] = reports[x]
      BY <1>1, <2>1
    <3>2. ~(\E e \in Dispatchers : x \in batch[e])' /\ ~(\E e \in Dispatchers : current[e] = x)'
          /\ ~(\E e \in Dispatchers : current[e] = x /\ landed[e])'
      BY <2>3
    <3> QED
      BY <3>1, <3>2 DEF FateOf
  <2>5. x \in spent' <=> x \notin Abandoned(d) /\ current[d] = x
    BY <1>1, <2>1 DEF EndRound
  <2>6. x \notin Abandoned(d) <=> x \notin batch[d] /\ landed[d] /\ ~Recurring(x)
    <3>1. x \in batch[d] => x \in Abandoned(d)
      BY DEF Abandoned
    <3>2. current[d] = x => (x \notin Abandoned(d)
                               <=> x \notin batch[d] /\ landed[d] /\ ~Recurring(x))
      BY <1>1, <2>1 DEF Abandoned
    <3> QED
      BY <3>1, <3>2
  <2>7. x \in spent' <=> FateOf(x) = "told" /\ ~Recurring(x)
    BY <2>2, <2>5, <2>6
  <2>8. x \in spent' => reports[x] > 0
    BY <2>1, <2>5, <2>6 DEF SchedInv, RowInv, ReportInv
  <2> QED
    BY <2>2, <2>4, <2>7, <2>8 DEF Service!UnderWay
<1>4. CASE S = {}
  BY <1>1, <1>2, <1>4, FateStutters
<1>5. CASE S # {}
  <2> DEFINE fate == [x \in Reminders |-> FateOf(x)]
  <2>1. S \subseteq Reminders
    OBVIOUS
  <2> HIDE DEF S
  <2>2. ASSUME NEW x \in Reminders
        PROVE  FateOf(x)' = IF x \notin S THEN fate[x]
                            ELSE IF fate[x] = "told" /\ x \notin {y \in Reminders : Recurring(y)}
                            THEN "over" ELSE "lost"
    BY <1>2, <1>3
  <2>3. \A x \in S : fate[x] \in Service!UnderWay
    BY <1>3, <2>1
  <2>4. Service!Stop(S)
    BY <1>1, <1>5, <2>2, <2>3 DEF Service!Stop
  <2> QED
    BY <2>1, <2>4 DEF Service!Next
<1> QED
  BY <1>4, <1>5

\* Every step of reminders and todos is a step of the service, or stutters.
LEMMA StepMaps == Inv /\ Inv' /\ [Next]_vars => [Service!Next]_(Service!vars)
<1> SUFFICES ASSUME Inv, Inv', [Next]_vars
             PROVE  Service!Next \/ UNCHANGED Service!vars
  OBVIOUS
<1>0. SchedInv /\ SchedInv'
  BY DEF Inv
<1>1. ASSUME NEW r \in Reminders, NEW delay, Add(r, delay) \/ Cancel(r)
      PROVE  Service!Next \/ UNCHANGED Service!vars
  BY <1>0, <1>1, ToolMaps
<1>2. ASSUME NEW d \in Dispatchers, Round(d) \/ EndRound(d)
      PROVE  Service!Next \/ UNCHANGED Service!vars
  <2>1. CASE Select(d)
    BY <2>1, StillMaps DEF Select, table, history
  <2>2. ASSUME NEW r \in Reminders, Claim(d, r)
        PROVE  Service!Next \/ UNCHANGED Service!vars
    BY <1>0, <2>2, ClaimMaps
  <2>3. ASSUME NEW r \in Reminders, NEW ok \in BOOLEAN, Deliver(d, r, ok)
        PROVE  Service!Next \/ UNCHANGED Service!vars
    BY <1>0, <2>3, DeliverMaps
  <2>4. CASE Finalize(d)
    BY <1>0, <2>4, FinalizeMaps
  <2>5. CASE EndRound(d)
    BY <1>0, <2>5, EndMaps
  <2> QED
    BY <1>2, <2>1, <2>2, <2>3, <2>4, <2>5 DEF Round
<1>3. CASE PlainTools \/ Dispatch
  <2>1. CASE Tick
    BY <2>1, StillMaps DEF Tick, history
  <2> QED
    BY <1>1, <1>2, <1>3, <2>1 DEF PlainTools, Dispatch, DatabaseError
<1>4. ASSUME NEW t \in TodoItems, AddTodo(t) \/ Close(t)
      PROVE  Service!Next \/ UNCHANGED Service!vars
  <2>1. PICK r \in Reminders : r = ReminderOf[t]
    BY TodoAssumption
  <2>2. \/ \E delay \in Delays : Add(r, delay)
        \/ Cancel(r)
        \/ UNCHANGED <<status, attempts, batch, current, landed, reports, spent>>
    BY <1>4, <2>1 DEF AddTodo, Close, InsertTodo, InsertReminder, LinkReminder, AddFails,
       CloseTodo, ReadTodo, CancelLinked, CancelFails, schedVars, table, loops, history
  <2> QED
    BY <1>1, <2>2, StillMaps
<1>5. ASSUME NEW d \in Dispatchers, RestartProcess(d)
      PROVE  Service!Next \/ UNCHANGED Service!vars
  BY <1>2, <1>5 DEF RestartProcess
<1>6. CASE UNCHANGED vars
  BY <1>6, StillMaps DEF vars, schedVars, table, loops, history
<1> QED
  BY <1>3, <1>4, <1>5, <1>6 DEF Next

\* The scheduler keeps the promise of ReminderService for any number of dispatchers,
\* reminders and todos, whatever restarts, database errors and cancellations come
\* between the statements of _claim_due_sync and _finalize_sync.
THEOREM Implements == Spec => ReminderPromise
<1>1. Init => Service!Init
  <2> SUFFICES ASSUME Init PROVE Service!Init
    OBVIOUS
  <2>1. \A r \in Reminders : FateOf(r) = "unset"
    BY DEF Init, SchedInit, FateOf
  <2>2. attempts = [r \in Reminders |-> 0]
    BY DEF Init, SchedInit
  <2> QED
    BY <2>1, <2>2 DEF Service!Init
<1>2. Inv /\ Inv' /\ [Next]_vars => [Service!Next]_(Service!vars)
  BY StepMaps
<1> QED
  BY <1>1, <1>2, Invariance, PTL DEF Spec, ReminderPromise, Service!Spec
=============================================================================
