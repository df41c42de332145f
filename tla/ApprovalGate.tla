---------------------------- MODULE ApprovalGate ----------------------------
(***************************************************************************)
(* tool_guard.py: the approval gate every side-effecting tool call passes. *)
(*                                                                         *)
(* Each call runs gate() as a coroutine of its own.  A call that has to be *)
(* put to a human registers a future, sends one frame through every        *)
(* broadcaster in turn, and then waits for a decision or the timeout.      *)
(* Decisions arrive from any surface at any time: while frames are still   *)
(* being sent, twice, after the timeout.  The chat turn that runs the call *)
(* can be cancelled at every await.                                        *)
(*                                                                         *)
(* An answer only marks the future.  Until the event loop has stepped the  *)
(* coroutine, the timer (wait_for() of Python 3.12 is a timeout() block    *)
(* around the await) or a cancellation can still end the call instead.     *)
(* Python 3.11 lets an answered future win; its behaviours are among those *)
(* of this module.                                                         *)
(***************************************************************************)
EXTENDS GatePolicy, Sequences

CONSTANTS
  Calls,      \* identities of tool calls (one gate() coroutine each)
  Surfaces,   \* the broadcasters: local console, relay, Telegram
  Kinds,      \* the kinds of call that are made
  MaxClicks   \* bound: clicks a human makes on one request

ASSUME GateAssumption ==
  /\ Kinds \subseteq CallKind
  /\ MaxClicks \in Nat

VARIABLES
  mode,         \* ROBOOT_TOOL_APPROVAL, fixed for the process
  broadcasters, \* _broadcasters, in registration order
  kind,         \* the kind of each call: the arguments it arrives with
  phase,        \* where the coroutine of each call is
  unsent,       \* the rest of list(_broadcasters) in the sending loop
  shown,        \* surfaces that delivered the frame of a call
  pending,      \* keys of _pending
  fut,          \* the future of a call
  decision,     \* what gate() returned
  audit,        \* suffix of the audit record of a call
  clicks        \* history: decision frames received for a call, oldest first

vars == <<mode, broadcasters, kind, phase, unsent, shown, pending, fut,
          decision, audit, clicks>>

Phase    == {"idle", "sending", "waiting", "done"}
Future   == {"none", "open", "yes", "no", "expired", "cancelled"}
Decision == {"none", "auto", "logged", "approved", "rejected",
             "cancelled", "crashed"}
Audit    == {"none", "plain", "DEGRADED-LOG", "REJECTED-AUTONOMOUS",
             "REJECTED-OVERSIZE", "TIMEOUT", "APPROVED", "REJECTED"}

\* early: the click came while frames were still being sent.
Click == [by : Surfaces, ok : BOOLEAN, accepted : BOOLEAN, early : BOOLEAN]

\* confirmation_callback() lets the tool run for exactly these decisions.
Allowed(r) == decision[r] \in {"auto", "logged", "approved"}

Init ==
  /\ mode \in Mode
  /\ broadcasters = <<>>
  /\ kind \in [Calls -> Kinds]
  /\ phase    = [r \in Calls |-> "idle"]
  /\ unsent   = [r \in Calls |-> <<>>]
  /\ shown    = [r \in Calls |-> {}]
  /\ pending  = {}
  /\ fut      = [r \in Calls |-> "none"]
  /\ decision = [r \in Calls |-> "none"]
  /\ audit    = [r \in Calls |-> "none"]
  /\ clicks   = [r \in Calls |-> <<>>]

-----------------------------------------------------------------------------
(* Broadcaster registry                                                    *)

Registered == {broadcasters[i] : i \in DOMAIN broadcasters}

Register(s) ==
  /\ s \notin Registered
  /\ broadcasters' = Append(broadcasters, s)
  /\ UNCHANGED <<mode, kind, phase, unsent, shown, pending, fut, decision,
                 audit, clicks>>

Unregister(s) ==
  /\ \E i \in DOMAIN broadcasters :
       /\ broadcasters[i] = s
       /\ broadcasters' = SubSeq(broadcasters, 1, i - 1)
                          \o SubSeq(broadcasters, i + 1, Len(broadcasters))
  /\ UNCHANGED <<mode, kind, phase, unsent, shown, pending, fut, decision,
                 audit, clicks>>

-----------------------------------------------------------------------------
(* gate()                                                                  *)

\* The routes that decide without asking: what gate() returns and the suffix of
\* the audit record it writes first.
DecisionOn ==
  [auto |-> "auto", log |-> "logged", degrade |-> "logged",
   reject_oversize |-> "rejected", reject_autonomous |-> "rejected"]

AuditOn ==
  [auto |-> "none", log |-> "plain", degrade |-> "DEGRADED-LOG",
   reject_oversize |-> "REJECTED-OVERSIZE",
   reject_autonomous |-> "REJECTED-AUTONOMOUS"]

RouteOf(r) == Route(kind[r], mode, broadcasters # <<>>)

\* A call that gate() decides before its first await.
Decide(r) ==
  /\ phase[r] = "idle"
  /\ RouteOf(r) # "ask"
  /\ phase'    = [phase EXCEPT ![r] = "done"]
  /\ decision' = [decision EXCEPT ![r] = DecisionOn[RouteOf(r)]]
  /\ audit'    = [audit EXCEPT ![r] = AuditOn[RouteOf(r)]]
  /\ UNCHANGED <<mode, broadcasters, kind, unsent, shown, pending, fut, clicks>>

\* A call that must be put to a human: the future is registered and the list of
\* broadcasters is copied, before anything is sent.
Ask(r) ==
  /\ phase[r] = "idle"
  /\ RouteOf(r) = "ask"
  /\ phase'   = [phase EXCEPT ![r] = "sending"]
  /\ unsent'  = [unsent EXCEPT ![r] = broadcasters]
  /\ pending' = pending \cup {r}
  /\ fut'     = [fut EXCEPT ![r] = "open"]
  /\ UNCHANGED <<mode, broadcasters, kind, shown, decision, audit, clicks>>

\* gate() raises before its first await (arguments that cannot be encoded):
\* confirmation_callback() fails closed.
Crash(r) ==
  /\ phase[r] = "idle"
  /\ RouteOf(r) # "auto"
  /\ phase'    = [phase EXCEPT ![r] = "done"]
  /\ decision' = [decision EXCEPT ![r] = "crashed"]
  /\ UNCHANGED <<mode, broadcasters, kind, unsent, shown, pending, fut, audit,
                 clicks>>

\* Mutants: the answer itself is returned; a timeout counts as consent.
DecisionRaw ==
  [yes |-> "yes", no |-> "no", expired |-> "rejected", cancelled |-> "cancelled"]
DecisionLax ==
  [yes |-> "approved", no |-> "rejected", expired |-> "approved",
   cancelled |-> "cancelled"]

\* How the future ends the call.
DecisionFor ==
  [yes |-> "approved", no |-> "rejected", expired |-> "rejected",
   cancelled |-> "cancelled"]

AuditFor ==
  [yes |-> "APPROVED", no |-> "REJECTED", expired |-> "TIMEOUT",
   cancelled |-> "none"]

\* Mutant: the entry of a call that timed out stays.
ReturnNoCleanup(r) ==
  /\ phase'    = [phase EXCEPT ![r] = "done"]
  /\ decision' = [decision EXCEPT ![r] = DecisionFor[fut[r]]]
  /\ audit'    = [audit EXCEPT ![r] = AuditFor[fut[r]]]
  /\ UNCHANGED pending

\* wait_for() is over: the finally clause drops the entry, and the future says how the
\* call ends.
Return(r) ==
  /\ phase'    = [phase EXCEPT ![r] = "done"]
  /\ decision' = [decision EXCEPT ![r] = DecisionFor[fut[r]]]
  /\ audit'    = [audit EXCEPT ![r] = AuditFor[fut[r]]]
  /\ pending'  = pending \ {r}

\* Mutant: the call waits even for a future that is answered already.
AwaitAnyway(r) ==
  /\ phase' = [phase EXCEPT ![r] = "waiting"]
  /\ UNCHANGED <<pending, decision, audit>>

\* wait_for() begins: it starts the timer and waits, or returns at once the answer that
\* came while frames were being sent.
Await(r) ==
  \/ /\ fut[r] = "open"
     /\ phase' = [phase EXCEPT ![r] = "waiting"]
     /\ UNCHANGED <<pending, decision, audit>>
  \/ fut[r] \in {"yes", "no"} /\ Return(r)

\* One turn of the sending loop: the broadcaster delivers the frame, or raises
\* and is passed over.  The timeout is not running yet; nothing is awaited between the
\* last frame and wait_for().
Send(r, delivered) ==
  /\ phase[r] = "sending"
  /\ unsent[r] # <<>>
  /\ unsent' = [unsent EXCEPT ![r] = Tail(@)]
  /\ shown'  = IF delivered
               THEN [shown EXCEPT ![r] = @ \cup {Head(unsent[r])}]
               ELSE shown
  /\ \/ Tail(unsent[r]) = <<>> /\ Await(r)
     \/ Tail(unsent[r]) # <<>> /\ UNCHANGED <<phase, pending, decision, audit>>
  /\ UNCHANGED <<mode, broadcasters, kind, fut, clicks>>

\* Mutant: the timer only runs for a request that some surface has shown.
TimerFiresIfShown(r) ==
  /\ phase[r] = "waiting"
  /\ shown[r] # {}
  /\ fut[r] \in {"open", "yes", "no"}
  /\ fut' = [fut EXCEPT ![r] = "expired"]
  /\ UNCHANGED <<mode, broadcasters, kind, phase, unsent, shown, pending,
                 decision, audit, clicks>>

\* wait_for()'s timer fires and the coroutine resumes later; it overtakes an answer the
\* coroutine has not been stepped with.
TimerFires(r) ==
  /\ phase[r] = "waiting"
  /\ fut[r] \in {"open", "yes", "no"}
  /\ fut' = [fut EXCEPT ![r] = "expired"]
  /\ UNCHANGED <<mode, broadcasters, kind, phase, unsent, shown, pending,
                 decision, audit, clicks>>

\* The coroutine resumes in wait_for().
Resume(r) ==
  /\ phase[r] = "waiting"
  /\ fut[r] \notin {"none", "open"}
  /\ Return(r)
  /\ UNCHANGED <<mode, broadcasters, kind, unsent, shown, fut, clicks>>

\* The turn is cancelled while the call waits: an answer not yet picked up is lost, and
\* so is a timeout.
CancelWaiting(r) ==
  /\ phase[r] = "waiting"
  /\ fut[r] # "cancelled"
  /\ fut' = [fut EXCEPT ![r] = "cancelled"]
  /\ UNCHANGED <<mode, broadcasters, kind, phase, unsent, shown, pending,
                 decision, audit, clicks>>

\* The turn is cancelled inside "await bc(frame)": that await is outside the
\* try/finally, so the entry stays in _pending.
CancelSending(r) ==
  /\ phase[r] = "sending"
  /\ phase'    = [phase EXCEPT ![r] = "done"]
  /\ unsent'   = [unsent EXCEPT ![r] = <<>>]
  /\ decision' = [decision EXCEPT ![r] = "cancelled"]
  /\ UNCHANGED <<mode, broadcasters, kind, shown, pending, fut, audit, clicks>>

-----------------------------------------------------------------------------
(* resolve_decision(), called for a decision frame from a surface          *)

\* The entry is still in _pending and its future is not done.
Accepts(r) == r \in pending /\ fut[r] = "open"

Resolve(r, s, ok) ==
  /\ s \in shown[r]
  /\ Len(clicks[r]) < MaxClicks
  /\ clicks'  = [clicks EXCEPT ![r] =
                   Append(@, [by |-> s, ok |-> ok, accepted |-> Accepts(r),
                              early |-> phase[r] = "sending"])]
  /\ pending' = pending \ {r}
  /\ fut'     = IF Accepts(r)
                THEN [fut EXCEPT ![r] = IF ok THEN "yes" ELSE "no"]
                ELSE fut
  /\ UNCHANGED <<mode, broadcasters, kind, phase, unsent, shown, decision, audit>>

-----------------------------------------------------------------------------

Gate(r) ==
  \/ Decide(r) \/ Ask(r) \/ Crash(r)
  \/ \E delivered \in BOOLEAN : Send(r, delivered)
  \/ TimerFires(r)
  \/ Resume(r)

Cancel(r) == CancelWaiting(r) \/ CancelSending(r)

Next ==
  \/ \E s \in Surfaces : Register(s) \/ Unregister(s)
  \/ \E r \in Calls :
       \/ Gate(r)
       \/ Cancel(r)
       \/ \E s \in Surfaces, ok \in BOOLEAN : Resolve(r, s, ok)

Spec == Init /\ [][Next]_vars

\* The event loop runs every ready callback and every due timer; a broadcaster
\* that never returns from its send would hold the call for ever (see README).
Fairness ==
  \A r \in Calls :
    /\ WF_vars(\E delivered \in BOOLEAN : Send(r, delivered))
    /\ WF_vars(TimerFires(r))
    /\ WF_vars(Resume(r))

FairSpec == Spec /\ Fairness

-----------------------------------------------------------------------------
(* Properties                                                              *)

TypeOK ==
  /\ mode \in Mode
  /\ broadcasters \in Seq(Surfaces)
  /\ kind \in [Calls -> Kinds]
  /\ phase \in [Calls -> Phase]
  /\ unsent \in [Calls -> Seq(Surfaces)]
  /\ shown \in [Calls -> SUBSET Surfaces]
  /\ pending \subseteq Calls
  /\ fut \in [Calls -> Future]
  /\ decision \in [Calls -> Decision]
  /\ audit \in [Calls -> Audit]
  /\ clicks \in [Calls -> Seq(Click)]

\* The oldest click decides: a call that ran or was refused on a human's word
\* did so on the first click made on its own request, whatever other surfaces
\* clicked later, and whoever clicked had been shown the request.
\* (resolve_decision() pops the entry, so only one click can reach the future.)
FirstAnswerWins ==
  \A r \in Calls :
    audit[r] \in {"APPROVED", "REJECTED"} =>
      /\ clicks[r] # <<>>
      /\ clicks[r][1].accepted
      /\ clicks[r][1].by \in shown[r]
      /\ (decision[r] = "approved") = clicks[r][1].ok

\* A click resolve_decision() reported as resolved decides: unless the turn itself was
\* cancelled, the call ends the way the click said.  The one other end there is is the
\* timeout's refusal, and only for a click made after the timer was started: one made
\* while another surface was still being sent its frame is always honoured.
AcceptedClickHonoured ==
  \A r \in Calls : \A i \in DOMAIN clicks[r] :
    phase[r] = "done" /\ clicks[r][i].accepted =>
      \/ decision[r] = IF clicks[r][i].ok THEN "approved" ELSE "rejected"
      \/ decision[r] = "cancelled"
      \/ audit[r] = "TIMEOUT" /\ decision[r] = "rejected" /\ ~clicks[r][i].early

\* In confirm mode a call that has to be asked about never runs without a human's
\* yes, except in the documented degradation to log when no surface was registered.
\* Stated from the facts about the call, not from the route the gate chose.
ConfirmNeedsConsent ==
  \A r \in Calls :
    /\ mode = "confirm"
    /\ phase[r] = "done"
    /\ \/ kind[r].dangerous
       \/ kind[r].class = "always_confirm" /\ ~kind[r].listed
       \/ kind[r].class = "other" /\ kind[r].confirm
       \/ /\ kind[r].class = "other"
          /\ kind[r].effect \in {"write", "absent"}
          /\ ~kind[r].native
    /\ Allowed(r)
    => \/ decision[r] = "approved" /\ \E i \in DOMAIN clicks[r] : clicks[r][i].ok
       \/ audit[r] = "DEGRADED-LOG"

\* An unattended turn is read-only in every mode: nothing it calls that is keyed
\* by name, flagged for confirmation or a write (or of unreadable spec) ever runs.
\* An effect of a name the gate does not know is no write to it.
AutonomousReadOnly ==
  \A r \in Calls :
    /\ phase[r] = "done"
    /\ kind[r].autonomous
    /\ Allowed(r)
    => /\ kind[r].class = "other"
       /\ ~kind[r].confirm
       /\ kind[r].effect \notin {"write", "absent"}

\* Every entry that outlives its call comes from a turn cancelled while its
\* frames were being sent, before its timeout started.
LeaksOnlyFromSending ==
  \A r \in pending : phase[r] = "done" => decision[r] = "cancelled" /\ fut[r] = "open"

\* The gate implements HumanApproval: a call is "asked" from the moment its future
\* is registered until gate() returns, and the human's word is the first click if
\* resolve_decision() accepted it.
StatusOf(r) ==
  IF phase[r] = "idle" THEN "new"
  ELSE IF phase[r] # "done" THEN "asked"
  ELSE IF Allowed(r) THEN "ran" ELSE "refused"

WordOf(r) ==
  IF clicks[r] # <<>> /\ clicks[r][1].accepted
  THEN IF clicks[r][1].ok THEN "yes" ELSE "no"
  ELSE "silent"

Human == INSTANCE HumanApproval WITH
           status <- [r \in Calls |-> StatusOf(r)],
           word   <- [r \in Calls |-> WordOf(r)]

\* Every behaviour of the gate is one the promise allows: no call put to a human
\* runs without a yes that came first, and no outcome is revised.
HumanPromise == Human!Spec

\* Every call that is put to a human is decided, answered or not.
AskedIsDecided ==
  \A r \in Calls : phase[r] = "sending" ~> phase[r] = "done"
=============================================================================
