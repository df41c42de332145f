------------------------- MODULE ApprovalGateProofs -------------------------
(***************************************************************************)
(* Proofs about ApprovalGate, for any set of calls, any set of surfaces,   *)
(* any kinds of call and any number of clicks.                             *)
(***************************************************************************)
EXTENDS ApprovalGate, SequenceTheorems, TLAPS

\* Nothing has happened to a call before gate() is entered.
Fresh(r) ==
  phase[r] = "idle" =>
    /\ fut[r] = "none"
    /\ decision[r] = "none"
    /\ audit[r] = "none"
    /\ clicks[r] = <<>>
    /\ shown[r] = {}
    /\ r \notin pending

\* While a call is inside gate() it has a future and no outcome.
Inside(r) ==
  phase[r] \in {"sending", "waiting"} =>
    /\ fut[r] # "none"
    /\ decision[r] = "none"
    /\ audit[r] = "none"
    /\ phase[r] = "sending" => fut[r] \in {"open", "yes", "no"}

\* A registered request has not been clicked, and an open future is registered.
Unclicked(r) ==
  /\ r \in pending => clicks[r] = <<>>
  /\ fut[r] = "open" => r \in pending

\* Clicks come from surfaces that showed the request; only the first is accepted.
ClickHistory(r) ==
  \A i \in DOMAIN clicks[r] :
    /\ clicks[r][i].by \in shown[r]
    /\ clicks[r][i].accepted => i = 1

\* The future holds what the first click said.
FutureIsFirstClick(r) ==
  fut[r] \in {"yes", "no"} =>
    /\ clicks[r] # <<>>
    /\ clicks[r][1].accepted
    /\ clicks[r][1].ok <=> fut[r] = "yes"

\* The word of an accepted click.
FirstWord(r) == IF clicks[r][1].ok THEN "approved" ELSE "rejected"

\* An accepted click is in the future, or the turn died, or the timer overtook it; the
\* timer runs only in wait_for(), which returns at once what was clicked early.
AcceptedIsKept(r) ==
  (clicks[r] # <<>> /\ clicks[r][1].accepted) =>
    /\ phase[r] = "waiting" => ~clicks[r][1].early
    /\ phase[r] # "done" => fut[r] # "open"
    /\ phase[r] = "done" =>
         \/ decision[r] \in {"cancelled", FirstWord(r)}
         \/ audit[r] = "TIMEOUT" /\ decision[r] = "rejected" /\ ~clicks[r][1].early

\* How a call that is over relates to its history.
Outcome(r) ==
  /\ audit[r] \in {"APPROVED", "REJECTED"} =>
       /\ clicks[r] # <<>>
       /\ clicks[r][1].accepted
       /\ (decision[r] = "approved") = clicks[r][1].ok
  /\ decision[r] = "approved" => audit[r] = "APPROVED"
  /\ (phase[r] = "done" /\ fut[r] = "open") => decision[r] = "cancelled"
  /\ (phase[r] = "done" /\ r \in pending) => fut[r] = "open"

CallInv(r) ==
  /\ Fresh(r)
  /\ Inside(r)
  /\ Unclicked(r)
  /\ ClickHistory(r)
  /\ FutureIsFirstClick(r)
  /\ AcceptedIsKept(r)
  /\ Outcome(r)

\* The inductive invariant.
IInv == TypeOK /\ \A r \in Calls : CallInv(r)

-----------------------------------------------------------------------------
(* Type correctness                                                        *)

\* Every step keeps every variable in its type.
LEMMA TypeStep == TypeOK /\ [Next]_vars => TypeOK'
<1> SUFFICES ASSUME TypeOK, [Next]_vars PROVE TypeOK'
  OBVIOUS
<1> USE DEF TypeOK, Phase, Future, Decision, Audit
<1>1. ASSUME NEW s \in Surfaces, Register(s) PROVE TypeOK'
  <2>1. Append(broadcasters, s) \in Seq(Surfaces)
    OBVIOUS
  <2> QED BY <1>1, <2>1 DEF Register
<1>2. ASSUME NEW s \in Surfaces, Unregister(s) PROVE TypeOK'
  <2>1. PICK i \in DOMAIN broadcasters :
          broadcasters' = SubSeq(broadcasters, 1, i - 1)
                          \o SubSeq(broadcasters, i + 1, Len(broadcasters))
    BY <1>2 DEF Unregister
  <2>2. /\ SubSeq(broadcasters, 1, i - 1) \in Seq(Surfaces)
        /\ SubSeq(broadcasters, i + 1, Len(broadcasters)) \in Seq(Surfaces)
    BY SubSeqProperties
  <2>3. broadcasters' \in Seq(Surfaces)
    BY <2>1, <2>2
  <2> QED BY <1>2, <2>3 DEF Unregister
<1>3. ASSUME NEW r \in Calls, Decide(r) PROVE TypeOK'
  <2>1. RouteOf(r) \in Routes \ {"ask"}
    BY <1>3 DEF Decide, RouteOf, Route, Routes
  <2>2. DecisionOn[RouteOf(r)] \in Decision /\ AuditOn[RouteOf(r)] \in Audit
    BY <2>1 DEF Routes, DecisionOn, AuditOn
  <2> QED BY <1>3, <2>2 DEF Decide
<1>4. ASSUME NEW r \in Calls, Ask(r) PROVE TypeOK'
  BY <1>4 DEF Ask
<1>5. ASSUME NEW r \in Calls, Crash(r) PROVE TypeOK'
  BY <1>5 DEF Crash
<1>6. ASSUME NEW r \in Calls, NEW delivered \in BOOLEAN, Send(r, delivered)
      PROVE TypeOK'
  <2>1. /\ Tail(unsent[r]) \in Seq(Surfaces)
        /\ Head(unsent[r]) \in Surfaces
    BY <1>6 DEF Send
  <2>2. CASE Tail(unsent[r]) = <<>> /\ fut[r] = "open"
    BY <1>6, <2>1, <2>2 DEF Send, Await, Return
  <2>3. CASE Tail(unsent[r]) # <<>>
    BY <1>6, <2>1, <2>3 DEF Send
  <2>4. CASE Tail(unsent[r]) = <<>> /\ fut[r] # "open"
    <3>1. Return(r) /\ fut[r] \in {"yes", "no"}
      BY <1>6, <2>4 DEF Send, Await
    <3>2. DecisionFor[fut[r]] \in Decision /\ AuditFor[fut[r]] \in Audit
      BY <3>1 DEF DecisionFor, AuditFor
    <3> QED BY <1>6, <2>1, <3>1, <3>2 DEF Send, Return
  <2> QED BY <2>2, <2>3, <2>4
<1>7. ASSUME NEW r \in Calls, TimerFires(r) PROVE TypeOK'
  BY <1>7 DEF TimerFires
<1>8. ASSUME NEW r \in Calls, Resume(r) PROVE TypeOK'
  <2>1. fut[r] \in Future \ {"open", "none"}
    BY <1>8 DEF Resume
  <2>2. DecisionFor[fut[r]] \in Decision /\ AuditFor[fut[r]] \in Audit
    BY <2>1 DEF DecisionFor, AuditFor
  <2> QED BY <1>8, <2>2 DEF Resume, Return
<1>9. ASSUME NEW r \in Calls, CancelWaiting(r) PROVE TypeOK'
  BY <1>9 DEF CancelWaiting
<1>10. ASSUME NEW r \in Calls, CancelSending(r) PROVE TypeOK'
  BY <1>10 DEF CancelSending
<1>11. ASSUME NEW r \in Calls, NEW s \in Surfaces, NEW ok \in BOOLEAN,
              Resolve(r, s, ok)
       PROVE TypeOK'
  <2>1. [by |-> s, ok |-> ok, accepted |-> Accepts(r), early |-> phase[r] = "sending"]
          \in Click
    BY DEF Click, Accepts
  <2>2. Append(clicks[r], [by |-> s, ok |-> ok, accepted |-> Accepts(r),
                           early |-> phase[r] = "sending"]) \in Seq(Click)
    BY <2>1
  <2> HIDE DEF Click
  <2> QED BY <1>11, <2>2 DEF Resolve
<1>12. CASE UNCHANGED vars
  BY <1>12 DEF vars
<1> QED
  BY <1>1, <1>2, <1>3, <1>4, <1>5, <1>6, <1>7, <1>8, <1>9, <1>10, <1>11, <1>12
     DEF Next, Gate, Cancel

\* In every reachable state of the gate every variable has its type.
THEOREM TypeCorrect == Spec => []TypeOK
<1>1. Init => TypeOK
  BY GateAssumption DEF Init, TypeOK, Phase, Future, Decision, Audit, Mode
<1> QED BY <1>1, TypeStep, PTL DEF Spec

-----------------------------------------------------------------------------
(* The inductive invariant                                                 *)

\* What CallInv says of q depends only on q's own fields.
LEMMA CallFrame ==
  ASSUME NEW q \in Calls, CallInv(q),
         phase'[q] = phase[q], fut'[q] = fut[q], shown'[q] = shown[q],
         decision'[q] = decision[q], audit'[q] = audit[q], clicks'[q] = clicks[q],
         q \in pending' <=> q \in pending
  PROVE  CallInv(q)'
BY DEF CallInv, Fresh, Inside, Unclicked, ClickHistory, FutureIsFirstClick,
       AcceptedIsKept, FirstWord, Outcome

\* Initially no call has been made.
LEMMA InitInv == Init => IInv
BY GateAssumption
   DEF Init, IInv, TypeOK, Phase, Future, Decision, Audit, Mode, CallInv, Fresh,
       Inside, Unclicked, ClickHistory, FutureIsFirstClick, AcceptedIsKept, FirstWord, Outcome

\* A click on a request preserves what is known about its call.
LEMMA ResolveInv ==
  ASSUME IInv, NEW r \in Calls, NEW s \in Surfaces, NEW ok \in BOOLEAN,
         Resolve(r, s, ok)
  PROVE  CallInv(r)'
<1> DEFINE click == [by |-> s, ok |-> ok, accepted |-> Accepts(r),
                     early |-> phase[r] = "sending"]
<1>1. /\ clicks[r] \in Seq(Click)
      /\ clicks'[r] = Append(clicks[r], click)
      /\ click \in Click
  BY DEF IInv, TypeOK, Resolve, Click, Accepts
<1>2. CallInv(r)
  BY DEF IInv
<1>3. /\ phase'[r] = phase[r]
      /\ shown'[r] = shown[r]
      /\ decision'[r] = decision[r]
      /\ audit'[r] = audit[r]
      /\ r \notin pending'
      /\ fut'[r] = IF Accepts(r) THEN IF ok THEN "yes" ELSE "no" ELSE fut[r]
      /\ fut[r] \in Future
  BY DEF Resolve, IInv, TypeOK
<1>4. /\ click.by = s
      /\ click.ok = ok
      /\ click.accepted = Accepts(r)
      /\ click.early = (phase[r] = "sending")
      /\ s \in shown[r]
  BY DEF Resolve
<1> HIDE DEF click
<1>5. phase[r] # "idle"
  BY <1>2, <1>4 DEF CallInv, Fresh
<1>6. CASE clicks[r] = <<>>
  <2>1. DOMAIN clicks'[r] = {1} /\ clicks'[r][1] = click /\ clicks'[r] # <<>>
    BY <1>1, <1>6
  <2>2. CASE Accepts(r)
    <3>1. fut[r] = "open" /\ fut'[r] = IF ok THEN "yes" ELSE "no"
      BY <2>2, <1>3 DEF Accepts
    <3>2. phase[r] = "done" => decision[r] = "cancelled"
      BY <1>2, <3>1 DEF CallInv, Outcome
    <3>3. audit[r] \notin {"APPROVED", "REJECTED"}
      BY <1>2, <1>6 DEF CallInv, Outcome
    <3> QED
      BY <1>2, <1>3, <1>4, <1>5, <2>1, <2>2, <3>1, <3>2, <3>3
      DEF CallInv, Fresh, Inside, Unclicked, ClickHistory, FutureIsFirstClick,
          AcceptedIsKept, FirstWord, Outcome
  <2>3. CASE ~Accepts(r)
    <3>1. fut[r] # "open"
      BY <2>3, <1>2 DEF Accepts, CallInv, Unclicked
    <3> QED
      BY <1>2, <1>3, <1>4, <1>5, <1>6, <2>1, <2>3, <3>1
      DEF CallInv, Fresh, Inside, Unclicked, ClickHistory, FutureIsFirstClick,
          AcceptedIsKept, FirstWord, Outcome
  <2> QED BY <2>2, <2>3
<1>7. CASE clicks[r] # <<>>
  <2>1. ~Accepts(r)
    BY <1>7, <1>2 DEF Accepts, CallInv, Unclicked
  <2>2. fut[r] # "open"
    BY <1>2, <1>7 DEF CallInv, Unclicked
  <2>3. /\ clicks'[r] # <<>>
        /\ clicks'[r][1] = clicks[r][1]
        /\ \A i \in DOMAIN clicks'[r] :
             clicks'[r][i] = click \/ (i \in DOMAIN clicks[r] /\ clicks'[r][i] = clicks[r][i])
    BY <1>1, <1>7
  <2> QED
    BY <1>2, <1>3, <1>4, <1>5, <1>7, <2>1, <2>2, <2>3
    DEF CallInv, Fresh, Inside, Unclicked, ClickHistory, FutureIsFirstClick,
        AcceptedIsKept, FirstWord, Outcome
<1> QED BY <1>6, <1>7

\* What gate() returns agrees with the future, whether the call waited or not.
LEMMA ReturnInv ==
  ASSUME IInv, NEW r \in Calls, Return(r),
         \/ phase[r] = "sending" /\ fut[r] \in {"yes", "no"}
         \/ phase[r] = "waiting" /\ fut[r] \notin {"none", "open"},
         clicks' = clicks, fut' = fut, shown[r] \subseteq shown'[r]
  PROVE  CallInv(r)'
<1>0. TypeOK /\ CallInv(r)
  BY DEF IInv
<1>1. /\ decision'[r] = DecisionFor[fut[r]]
      /\ audit'[r] = AuditFor[fut[r]]
      /\ phase'[r] = "done"
      /\ r \notin pending'
  BY <1>0 DEF Return, TypeOK
<1>2. fut[r] \in {"yes", "no", "expired", "cancelled"}
  BY <1>0 DEF TypeOK, Future
<1>3. /\ fut[r] = "yes" => decision'[r] = "approved" /\ audit'[r] = "APPROVED"
      /\ fut[r] = "no" => decision'[r] = "rejected" /\ audit'[r] = "REJECTED"
      /\ fut[r] = "expired" => decision'[r] = "rejected" /\ audit'[r] = "TIMEOUT"
      /\ fut[r] = "cancelled" => decision'[r] = "cancelled" /\ audit'[r] = "none"
  BY <1>1, <1>2 DEF DecisionFor, AuditFor
<1>4. clicks[r] # <<>> => clicks[r][1].ok \in BOOLEAN
  <2>1. clicks[r] \in Seq(Click)
    BY <1>0 DEF TypeOK
  <2>2. clicks[r] # <<>> => clicks[r][1] \in Click
    BY <2>1
  <2> QED BY <2>2 DEF Click
<1>5. /\ Fresh(r)'
      /\ Inside(r)'
      /\ Unclicked(r)'
      /\ ClickHistory(r)'
      /\ FutureIsFirstClick(r)'
  BY <1>0, <1>1, <1>2
  DEF CallInv, Fresh, Inside, Unclicked, ClickHistory, FutureIsFirstClick
<1>6. AcceptedIsKept(r)'
  BY <1>0, <1>1, <1>2, <1>3, <1>4
  DEF CallInv, FutureIsFirstClick, AcceptedIsKept, FirstWord
<1>7. Outcome(r)'
  BY <1>0, <1>1, <1>2, <1>3, <1>4
  DEF CallInv, FutureIsFirstClick, Outcome
<1> QED BY <1>5, <1>6, <1>7 DEF CallInv

\* Every step preserves the invariant.
LEMMA InvStep == IInv /\ [Next]_vars => IInv'
<1> SUFFICES ASSUME IInv, [Next]_vars, NEW q \in Calls PROVE CallInv(q)'
  BY TypeStep DEF IInv
<1>0. TypeOK /\ CallInv(q)
  BY DEF IInv
<1>1. ASSUME NEW s \in Surfaces, Register(s) \/ Unregister(s) PROVE CallInv(q)'
  BY <1>0, <1>1, CallFrame DEF Register, Unregister
<1>2. ASSUME NEW r \in Calls, Decide(r) \/ Crash(r) PROVE CallInv(q)'
  <2>1. CASE q = r
    <3>1. \/ /\ DecisionOn[RouteOf(r)] # "approved"
             /\ AuditOn[RouteOf(r)] \notin {"APPROVED", "REJECTED"}
          \/ Crash(r)
      <4>1. ASSUME Decide(r) PROVE RouteOf(r) \in Routes \ {"ask"}
        BY <4>1 DEF Decide, RouteOf, Route, Routes
      <4> QED BY <4>1, <1>2 DEF Routes, DecisionOn, AuditOn
    <3> QED
      BY <1>0, <1>2, <2>1, <3>1
      DEF Decide, Crash, TypeOK, CallInv, Fresh, Inside, Unclicked, ClickHistory,
          FutureIsFirstClick, AcceptedIsKept, FirstWord, Outcome
  <2>2. CASE q # r
    BY <1>0, <1>2, <2>2, CallFrame DEF Decide, Crash, TypeOK
  <2> QED BY <2>1, <2>2
<1>3. ASSUME NEW r \in Calls, Ask(r) PROVE CallInv(q)'
  <2>1. CASE q = r
    BY <1>0, <1>3, <2>1
    DEF Ask, TypeOK, CallInv, Fresh, Inside, Unclicked, ClickHistory,
        FutureIsFirstClick, AcceptedIsKept, FirstWord, Outcome
  <2>2. CASE q # r
    BY <1>0, <1>3, <2>2, CallFrame DEF Ask, TypeOK
  <2> QED BY <2>1, <2>2
<1>4. ASSUME NEW r \in Calls, NEW delivered \in BOOLEAN, Send(r, delivered)
      PROVE CallInv(q)'
  <2>1. CASE q = r
    <3>1. shown[r] \subseteq shown'[r]
      BY <1>0, <1>4 DEF Send, TypeOK
    <3>2. CASE Return(r) /\ fut[r] \in {"yes", "no"}
      BY <1>4, <2>1, <3>1, <3>2, ReturnInv DEF Send
    <3>3. CASE ~(Return(r) /\ fut[r] \in {"yes", "no"})
      <4>1. /\ \/ phase' = phase
               \/ phase'[r] = "waiting" /\ fut[r] = "open"
            /\ phase[r] = "sending"
            /\ UNCHANGED <<pending, decision, audit, fut, clicks>>
        BY <1>0, <1>4, <3>3 DEF Send, Await, TypeOK
      <4> QED
        BY <1>0, <2>1, <3>1, <4>1
        DEF CallInv, Fresh, Inside, Unclicked, ClickHistory,
            FutureIsFirstClick, AcceptedIsKept, FirstWord, Outcome
    <3> QED BY <3>2, <3>3
  <2>2. CASE q # r
    BY <1>0, <1>4, <2>2, CallFrame DEF Send, Await, Return, TypeOK
  <2> QED BY <2>1, <2>2
<1>5. ASSUME NEW r \in Calls, TimerFires(r) PROVE CallInv(q)'
  <2>1. CASE q = r
    BY <1>0, <1>5, <2>1
    DEF TimerFires, TypeOK, CallInv, Fresh, Inside, Unclicked, ClickHistory,
        FutureIsFirstClick, AcceptedIsKept, FirstWord, Outcome
  <2>2. CASE q # r
    BY <1>0, <1>5, <2>2, CallFrame DEF TimerFires, TypeOK
  <2> QED BY <2>1, <2>2
<1>6. ASSUME NEW r \in Calls, Resume(r) PROVE CallInv(q)'
  <2>1. CASE q = r
    BY <1>0, <1>6, <2>1, ReturnInv DEF Resume
  <2>2. CASE q # r
    BY <1>0, <1>6, <2>2, CallFrame DEF Resume, Return, TypeOK
  <2> QED BY <2>1, <2>2
<1>7. ASSUME NEW r \in Calls, CancelWaiting(r) PROVE CallInv(q)'
  <2>1. CASE q = r
    BY <1>0, <1>7, <2>1
    DEF CancelWaiting, TypeOK, CallInv, Fresh, Inside, Unclicked, ClickHistory,
        FutureIsFirstClick, AcceptedIsKept, FirstWord, Outcome
  <2>2. CASE q # r
    BY <1>0, <1>7, <2>2, CallFrame DEF CancelWaiting, TypeOK
  <2> QED BY <2>1, <2>2
<1>8. ASSUME NEW r \in Calls, CancelSending(r) PROVE CallInv(q)'
  <2>1. CASE q = r
    BY <1>0, <1>8, <2>1
    DEF CancelSending, TypeOK, CallInv, Fresh, Inside, Unclicked, ClickHistory,
        FutureIsFirstClick, AcceptedIsKept, FirstWord, Outcome
  <2>2. CASE q # r
    BY <1>0, <1>8, <2>2, CallFrame DEF CancelSending, TypeOK
  <2> QED BY <2>1, <2>2
<1>9. ASSUME NEW r \in Calls, NEW s \in Surfaces, NEW ok \in BOOLEAN,
             Resolve(r, s, ok)
      PROVE CallInv(q)'
  <2>1. CASE q = r
    BY <1>9, <2>1, ResolveInv
  <2>2. CASE q # r
    BY <1>0, <1>9, <2>2, CallFrame DEF Resolve, TypeOK
  <2> QED BY <2>1, <2>2
<1>10. CASE UNCHANGED vars
  BY <1>0, <1>10, CallFrame DEF vars
<1> QED
  BY <1>1, <1>2, <1>3, <1>4, <1>5, <1>6, <1>7, <1>8, <1>9, <1>10
  DEF Next, Gate, Cancel

\* The inductive invariant holds in every reachable state.
THEOREM Invariance == Spec => []IInv
BY InitInv, InvStep, PTL DEF Spec

-----------------------------------------------------------------------------
(* What follows from it                                                    *)

\* The oldest click on a request is the one that decides it.
THEOREM FirstAnswer == Spec => []FirstAnswerWins
<1>1. IInv => FirstAnswerWins
  BY DEF IInv, TypeOK, CallInv, Outcome, ClickHistory, FirstAnswerWins
<1> QED BY <1>1, Invariance, PTL

\* A click resolve_decision() accepted decides unless the turn is cancelled or the timer,
\* which was running when it was made, overtakes it.
THEOREM Honoured == Spec => []AcceptedClickHonoured
<1>1. IInv => AcceptedClickHonoured
  BY DEF IInv, TypeOK, CallInv, ClickHistory, AcceptedIsKept, FirstWord, AcceptedClickHonoured
<1> QED BY <1>1, Invariance, PTL

\* Only a turn cancelled in the sending loop leaves its entry behind.
THEOREM Leaks == Spec => []LeaksOnlyFromSending
<1>1. IInv => LeaksOnlyFromSending
  BY DEF IInv, TypeOK, CallInv, Outcome, LeaksOnlyFromSending
<1> QED BY <1>1, Invariance, PTL

-----------------------------------------------------------------------------
(* The gate implements HumanApproval                                       *)

\* The abstract state a call maps to is a function of the call's own fields.
LEMMA MapFrame ==
  ASSUME NEW r \in Calls,
         \A q \in Calls \ {r} :
           /\ phase'[q] = phase[q]
           /\ decision'[q] = decision[q]
           /\ clicks'[q] = clicks[q]
  PROVE  /\ [q \in Calls |-> StatusOf(q)]' =
              [[q \in Calls |-> StatusOf(q)] EXCEPT ![r] = StatusOf(r)']
         /\ [q \in Calls |-> WordOf(q)]' =
              [[q \in Calls |-> WordOf(q)] EXCEPT ![r] = WordOf(r)']
<1>1. \A q \in Calls \ {r} : StatusOf(q)' = StatusOf(q) /\ WordOf(q)' = WordOf(q)
  BY DEF StatusOf, WordOf, Allowed
<1> QED BY <1>1

\* A step of call r that leaves the human's word alone and moves its status as
\* the abstract call may move.
LEMMA StatusStep ==
  ASSUME NEW r \in Calls,
         \A q \in Calls \ {r} :
           phase'[q] = phase[q] /\ decision'[q] = decision[q],
         clicks' = clicks,
         \/ StatusOf(r)' = StatusOf(r)
         \/ StatusOf(r) = "new" /\ StatusOf(r)' \in {"asked", "ran", "refused"}
         \/ StatusOf(r) = "asked" /\ StatusOf(r)' = "refused"
         \/ StatusOf(r) = "asked" /\ StatusOf(r)' = "ran" /\ WordOf(r) = "yes"
  PROVE  [Human!Next]_Human!vars
<1> DEFINE status == [q \in Calls |-> StatusOf(q)]
           word   == [q \in Calls |-> WordOf(q)]
<1>1. status' = [status EXCEPT ![r] = StatusOf(r)']
  BY MapFrame
<1>2. word' = word
  BY DEF WordOf
<1>3. status[r] = StatusOf(r) /\ word[r] = WordOf(r) /\ status \in [Calls -> {status[q] : q \in Calls}]
  OBVIOUS
<1>4. CASE StatusOf(r)' = StatusOf(r)
  BY <1>1, <1>2, <1>3, <1>4 DEF Human!vars
<1> HIDE DEF status, word
<1>5. CASE StatusOf(r) = "new" /\ StatusOf(r)' \in {"ran", "refused"}
  <2>1. Human!Settle(r)
    BY <1>1, <1>2, <1>3, <1>5 DEF Human!Settle, status, word
  <2> QED BY <2>1 DEF Human!Next
<1>6. CASE StatusOf(r) = "new" /\ StatusOf(r)' = "asked"
  <2>1. Human!Ask(r)
    BY <1>1, <1>2, <1>3, <1>6 DEF Human!Ask, status, word
  <2> QED BY <2>1 DEF Human!Next
<1>7. CASE StatusOf(r) = "asked" /\ StatusOf(r)' = "refused"
  <2>1. Human!Refuse(r)
    BY <1>1, <1>2, <1>3, <1>7 DEF Human!Refuse, status, word
  <2> QED BY <2>1 DEF Human!Next
<1>8. CASE StatusOf(r) = "asked" /\ StatusOf(r)' = "ran" /\ WordOf(r) = "yes"
  <2>1. Human!Run(r)
    BY <1>1, <1>2, <1>3, <1>8 DEF Human!Run, status, word
  <2> QED BY <2>1 DEF Human!Next
<1> QED BY <1>4, <1>5, <1>6, <1>7, <1>8

\* A click is the human's word, or stutters.
LEMMA ResolveMaps ==
  ASSUME IInv, NEW r \in Calls, NEW s \in Surfaces, NEW ok \in BOOLEAN,
         Resolve(r, s, ok)
  PROVE  [Human!Next]_Human!vars
<1> DEFINE status == [q \in Calls |-> StatusOf(q)]
           word   == [q \in Calls |-> WordOf(q)]
           click  == [by |-> s, ok |-> ok, accepted |-> Accepts(r),
                      early |-> phase[r] = "sending"]
<1>1. /\ clicks[r] \in Seq(Click)
      /\ clicks'[r] = Append(clicks[r], click)
      /\ \A q \in Calls \ {r} : clicks'[q] = clicks[q]
      /\ phase' = phase /\ decision' = decision
  BY DEF IInv, TypeOK, Resolve
<1>2. CallInv(r)
  BY DEF IInv
<1>3. /\ status' = status
      /\ word' = [word EXCEPT ![r] = WordOf(r)']
      /\ status[r] = StatusOf(r) /\ word[r] = WordOf(r)
  BY <1>1, MapFrame DEF StatusOf, Allowed
<1>4. click.accepted = Accepts(r) /\ click.ok = ok
  OBVIOUS
<1>5. phase[r] # "idle"
  BY <1>2 DEF CallInv, Fresh, Resolve
<1> HIDE DEF click
<1>6. CASE clicks[r] = <<>> /\ Accepts(r)
  <2>1. clicks'[r][1] = click /\ clicks'[r] # <<>>
    BY <1>1, <1>6
  <2>2. WordOf(r) = "silent" /\ WordOf(r)' \in {"yes", "no"}
    BY <1>4, <1>6, <2>1 DEF WordOf
  <2>3. StatusOf(r) # "new"
    BY <1>5 DEF StatusOf
  <2> HIDE DEF status, word
  <2>4. Human!Answer(r)
    BY <1>3, <2>2, <2>3 DEF Human!Answer, status, word
  <2> QED BY <2>4 DEF Human!Next
<1>7. CASE ~(clicks[r] = <<>> /\ Accepts(r))
  <2>1. WordOf(r)' = WordOf(r)
    <3>1. CASE clicks[r] = <<>>
      <4>1. clicks'[r][1] = click /\ clicks'[r] # <<>>
        BY <1>1, <3>1
      <4> QED BY <1>4, <1>7, <3>1, <4>1 DEF WordOf
    <3>2. CASE clicks[r] # <<>>
      <4>1. clicks'[r][1] = clicks[r][1] /\ clicks'[r] # <<>>
        BY <1>1, <3>2
      <4> QED BY <3>2, <4>1 DEF WordOf
    <3> QED BY <3>1, <3>2
  <2>2. word' = word
    BY <1>3, <2>1
  <2> QED BY <1>3, <2>2 DEF Human!vars
<1> QED BY <1>6, <1>7

\* Every step of the gate is a step of the promise, or stutters.
LEMMA StepMaps == IInv /\ [Next]_vars => [Human!Next]_Human!vars
<1> SUFFICES ASSUME IInv, [Next]_vars PROVE [Human!Next]_Human!vars
  OBVIOUS
<1>0. TypeOK
  BY DEF IInv
<1>1. ASSUME UNCHANGED <<phase, decision, clicks>> PROVE [Human!Next]_Human!vars
  BY <1>1 DEF Human!vars, StatusOf, WordOf, Allowed
<1>2. ASSUME NEW r \in Calls, Decide(r) \/ Crash(r) PROVE [Human!Next]_Human!vars
  <2>1. StatusOf(r) = "new" /\ StatusOf(r)' \in {"ran", "refused"}
    BY <1>0, <1>2 DEF Decide, Crash, StatusOf, TypeOK
  <2> QED BY <1>0, <1>2, <2>1, StatusStep DEF Decide, Crash, TypeOK
<1>3. ASSUME NEW r \in Calls, Ask(r) PROVE [Human!Next]_Human!vars
  <2>1. StatusOf(r) = "new" /\ StatusOf(r)' = "asked"
    BY <1>0, <1>3 DEF Ask, StatusOf, TypeOK
  <2> QED BY <1>0, <1>3, <2>1, StatusStep DEF Ask, TypeOK
<1>4. ASSUME NEW r \in Calls, Return(r), clicks' = clicks,
             phase[r] \in {"sending", "waiting"}, fut[r] \notin {"none", "open"}
      PROVE [Human!Next]_Human!vars
  <2>1. /\ decision'[r] = DecisionFor[fut[r]]
        /\ fut[r] \in {"yes", "no", "expired", "cancelled"}
    BY <1>0, <1>4 DEF Return, TypeOK, Future
  <2>2. \/ decision'[r] = "approved" /\ fut[r] = "yes"
        \/ decision'[r] \in {"rejected", "cancelled"}
    BY <2>1 DEF DecisionFor
  <2>3. fut[r] = "yes" => WordOf(r) = "yes"
    BY DEF IInv, CallInv, FutureIsFirstClick, WordOf
  <2>4. StatusOf(r) = "asked"
    BY <1>4 DEF StatusOf
  <2>5. \/ StatusOf(r)' = "refused"
        \/ StatusOf(r)' = "ran" /\ WordOf(r) = "yes"
    BY <1>0, <1>4, <2>2, <2>3 DEF Return, StatusOf, Allowed, TypeOK
  <2> QED BY <1>0, <1>4, <2>4, <2>5, StatusStep DEF Return, TypeOK
<1>5. ASSUME NEW r \in Calls, NEW delivered \in BOOLEAN, Send(r, delivered)
      PROVE [Human!Next]_Human!vars
  <2>1. CASE Return(r) /\ fut[r] \in {"yes", "no"}
    BY <1>4, <1>5, <2>1 DEF Send
  <2>2. CASE ~(Return(r) /\ fut[r] \in {"yes", "no"})
    <3>1. StatusOf(r)' = StatusOf(r)
      BY <1>0, <1>5, <2>2 DEF Send, Await, StatusOf, TypeOK
    <3> QED BY <1>0, <1>5, <2>2, <3>1, StatusStep DEF Send, Await, TypeOK
  <2> QED BY <2>1, <2>2
<1>6. ASSUME NEW r \in Calls, CancelSending(r) PROVE [Human!Next]_Human!vars
  <2>1. StatusOf(r) = "asked" /\ StatusOf(r)' = "refused"
    BY <1>0, <1>6 DEF CancelSending, StatusOf, Allowed, TypeOK
  <2> QED BY <1>0, <1>6, <2>1, StatusStep DEF CancelSending, TypeOK
<1>7. ASSUME NEW r \in Calls, NEW s \in Surfaces, NEW ok \in BOOLEAN,
             Resolve(r, s, ok)
      PROVE [Human!Next]_Human!vars
  BY <1>7, ResolveMaps
<1> QED
  BY <1>1, <1>2, <1>3, <1>4, <1>5, <1>6, <1>7
  DEF Next, Gate, Cancel, Register, Unregister, TimerFires, Resume, CancelWaiting, vars

\* The gate implements the promise: whatever the interleaving of clicks, timers,
\* failing broadcasters and cancellations, no call put to a human runs without a
\* yes that came first, and no outcome is revised.
THEOREM Implements == Spec => HumanPromise
<1>1. Init => Human!Init
  BY DEF Init, Human!Init, StatusOf, WordOf
<1> QED BY <1>1, StepMaps, Invariance, PTL DEF Spec, HumanPromise, Human!Spec

-----------------------------------------------------------------------------
(* The policy survives the interleavings                                   *)

\* Why a call is where it is, in terms of the facts it arrived with.
PolicyInv(r) ==
  /\ phase[r] \in {"sending", "waiting"} => ~AutonomousBlocked(kind[r])
  /\ Allowed(r) => ~AutonomousBlocked(kind[r])
  /\ decision[r] = "auto" =>
       mode = "off" \/ ~Eligible(kind[r]) \/ Waived(kind[r])
  /\ decision[r] = "logged" => mode = "log" \/ audit[r] = "DEGRADED-LOG"

\* Every step preserves it; only gate()'s own steps matter.
LEMMA PolicyStep ==
  ASSUME IInv, [Next]_vars, NEW q \in Calls, PolicyInv(q)
  PROVE  PolicyInv(q)'
<1>0. TypeOK /\ CallInv(q)
  BY DEF IInv
<1>1. ASSUME mode' = mode, kind' = kind, phase'[q] = phase[q],
             decision'[q] = decision[q], audit'[q] = audit[q]
      PROVE  PolicyInv(q)'
  BY <1>1 DEF PolicyInv, Allowed
<1>2. ASSUME NEW r \in Calls, Decide(r) PROVE PolicyInv(q)'
  <2>1. CASE q = r
    <3>1. /\ decision'[r] = DecisionOn[RouteOf(r)]
          /\ audit'[r] = AuditOn[RouteOf(r)]
          /\ phase'[r] = "done" /\ mode' = mode /\ kind' = kind
      BY <1>0, <1>2 DEF Decide, TypeOK
    <3>2. RouteOf(r) \in Routes \ {"ask"}
      BY <1>2 DEF Decide, RouteOf, Route, Routes
    <3>3. /\ decision'[r] = "auto" => RouteOf(r) = "auto"
          /\ decision'[r] = "logged" =>
               \/ RouteOf(r) = "log"
               \/ RouteOf(r) = "degrade" /\ audit'[r] = "DEGRADED-LOG"
          /\ decision'[r] # "approved"
      BY <3>1, <3>2 DEF Routes, DecisionOn, AuditOn
    <3>4. /\ RouteOf(r) \in {"auto", "log", "degrade"} => ~AutonomousBlocked(kind[r])
          /\ RouteOf(r) = "auto" =>
               mode = "off" \/ ~Eligible(kind[r]) \/ Waived(kind[r])
          /\ RouteOf(r) = "log" => mode = "log"
      BY DEF RouteOf, Route
    <3> QED BY <2>1, <3>1, <3>3, <3>4 DEF PolicyInv, Allowed
  <2>2. CASE q # r
    BY <1>0, <1>1, <1>2, <2>2 DEF Decide, TypeOK
  <2> QED BY <2>1, <2>2
<1>3. ASSUME NEW r \in Calls, Crash(r) \/ CancelSending(r) PROVE PolicyInv(q)'
  <2>1. CASE q = r
    BY <1>0, <1>3, <2>1 DEF Crash, CancelSending, PolicyInv, Allowed, TypeOK
  <2>2. CASE q # r
    BY <1>0, <1>1, <1>3, <2>2 DEF Crash, CancelSending, TypeOK
  <2> QED BY <2>1, <2>2
<1>4. ASSUME NEW r \in Calls, Ask(r) PROVE PolicyInv(q)'
  <2>1. CASE q = r
    <3>1. ~AutonomousBlocked(kind[r])
      BY <1>4 DEF Ask, RouteOf, Route
    <3> QED BY <1>0, <1>4, <2>1, <3>1 DEF Ask, PolicyInv, Allowed, TypeOK, CallInv, Fresh
  <2>2. CASE q # r
    BY <1>0, <1>1, <1>4, <2>2 DEF Ask, TypeOK
  <2> QED BY <2>1, <2>2
<1>5. ASSUME NEW r \in Calls, Return(r), mode' = mode, kind' = kind,
             phase[r] \in {"sending", "waiting"}, fut[r] \notin {"none", "open"}
      PROVE PolicyInv(q)'
  <2>1. CASE q = r
    <3>1. /\ decision'[r] = DecisionFor[fut[r]]
          /\ fut[r] \in {"yes", "no", "expired", "cancelled"}
      BY <1>0, <1>5 DEF Return, TypeOK, Future
    <3>2. decision'[r] \in {"approved", "rejected", "cancelled"}
      BY <3>1 DEF DecisionFor
    <3> QED BY <1>0, <1>5, <2>1, <3>2 DEF Return, TypeOK, PolicyInv, Allowed
  <2>2. CASE q # r
    BY <1>0, <1>1, <1>5, <2>2 DEF Return, TypeOK
  <2> QED BY <2>1, <2>2
<1>6. ASSUME NEW r \in Calls, NEW delivered \in BOOLEAN, Send(r, delivered)
      PROVE PolicyInv(q)'
  <2>1. CASE Return(r) /\ fut[r] \in {"yes", "no"}
    BY <1>5, <1>6, <2>1 DEF Send
  <2>2. CASE ~(Return(r) /\ fut[r] \in {"yes", "no"})
    BY <1>0, <1>6, <2>2 DEF Send, Await, PolicyInv, Allowed, TypeOK, CallInv, Inside
  <2> QED BY <2>1, <2>2
<1>7. ASSUME UNCHANGED <<mode, kind, phase, decision, audit>> PROVE PolicyInv(q)'
  BY <1>1, <1>7
<1> QED
  BY <1>2, <1>3, <1>4, <1>5, <1>6, <1>7
  DEF Next, Gate, Cancel, Register, Unregister, TimerFires, Resume, CancelWaiting,
      Resolve, vars

\* The policy invariant holds in every reachable state.
LEMMA PolicyInvariance == Spec => [](IInv /\ \A r \in Calls : PolicyInv(r))
<1>1. Init => \A r \in Calls : PolicyInv(r)
  BY DEF Init, PolicyInv, Allowed
<1>2. /\ IInv
      /\ \A r \in Calls : PolicyInv(r)
      /\ [Next]_vars
      => (\A r \in Calls : PolicyInv(r))'
  BY PolicyStep
<1> QED BY <1>1, <1>2, Invariance, PTL DEF Spec

\* In confirm mode nothing that needs a yes runs without one, unless no surface
\* was registered when the call was made.
THEOREM Consent == Spec => []ConfirmNeedsConsent
<1>1. IInv /\ (\A r \in Calls : PolicyInv(r)) => ConfirmNeedsConsent
  <2> SUFFICES ASSUME IInv, NEW r \in Calls, PolicyInv(r),
                      mode = "confirm", phase[r] = "done", Allowed(r),
                      \/ kind[r].dangerous
                      \/ kind[r].class = "always_confirm" /\ ~kind[r].listed
                      \/ kind[r].class = "other" /\ kind[r].confirm
                      \/ /\ kind[r].class = "other"
                         /\ kind[r].effect \in {"write", "absent"}
                         /\ ~kind[r].native
               PROVE  \/ /\ decision[r] = "approved"
                         /\ \E i \in DOMAIN clicks[r] : clicks[r][i].ok
                      \/ audit[r] = "DEGRADED-LOG"
    BY DEF ConfirmNeedsConsent
  <2>1. kind[r] \in CallKind
    BY GateAssumption DEF IInv, TypeOK
  <2>2. Eligible(kind[r]) /\ ~Waived(kind[r])
    BY <2>1 DEF CallKind, ToolClass, Eligible, Waived, Writes
  <2>3. decision[r] \in {"approved", "logged"}
    BY <2>2 DEF PolicyInv, Allowed
  <2>4. CASE decision[r] = "approved"
    <3>1. /\ clicks[r] \in Seq(Click)
          /\ clicks[r] # <<>>
          /\ clicks[r][1].ok
      BY <2>4 DEF IInv, TypeOK, CallInv, Outcome
    <3>2. 1 \in DOMAIN clicks[r]
      BY <3>1
    <3> QED BY <2>4, <3>1, <3>2
  <2>5. CASE decision[r] = "logged"
    BY <2>5 DEF PolicyInv
  <2> QED BY <2>3, <2>4, <2>5
<1> QED BY <1>1, PolicyInvariance, PTL

\* Unattended turns are read-only whatever the mode and the interleaving.
THEOREM ReadOnly == Spec => []AutonomousReadOnly
<1>1. IInv /\ (\A r \in Calls : PolicyInv(r)) => AutonomousReadOnly
  <2> SUFFICES ASSUME IInv, NEW r \in Calls, PolicyInv(r), phase[r] = "done",
                      kind[r].autonomous, Allowed(r)
               PROVE  /\ kind[r].class = "other"
                      /\ ~kind[r].confirm
                      /\ kind[r].effect \notin {"write", "absent"}
    BY DEF AutonomousReadOnly
  <2>1. kind[r] \in CallKind
    BY GateAssumption DEF IInv, TypeOK
  <2> QED
    BY <2>1 DEF PolicyInv, AutonomousBlocked, CallKind, SideEffect, Writes
<1> QED BY <1>1, PolicyInvariance, PTL

=============================================================================
