----------------------------- MODULE GatePolicy -----------------------------
(***************************************************************************)
(* The decision table of tool_guard.gate(): which tool calls run at once,  *)
(* which are refused at once, and which have to be put to a human.         *)
(*                                                                         *)
(* A call is described by the facts gate() computes about it before it     *)
(* reads any shared state.  The texts those facts come from (the command,  *)
(* the danger patterns, the allowlist file) are abstracted to Booleans.    *)
(***************************************************************************)
EXTENDS Naturals

\* ROBOOT_TOOL_APPROVAL; an unknown value is read as "off".
Mode == {"off", "log", "confirm"}

\* shell is danger-matched; send_to_session, create_claude_session,
\* enroll_face, write_file and edit_file are always confirmed.
ToolClass == {"danger_matched", "always_confirm", "other"}

\* The spec's side effect, after _coerce_side_effect: "absent" is None, "other" any text
\* that names none of the three.
SideEffect == {"write", "read", "none", "other", "absent"}

\* A danger reason exists only for danger-matched tools, and only tools with a
\* primary text (never those of class "other") can match an allowlist entry.
CallKind ==
  { k \in [ class      : ToolClass,
            dangerous  : BOOLEAN,   \* detect_dangerous() found a pattern
            native     : BOOLEAN,   \* the name is in _native_tools
            confirm    : BOOLEAN,   \* spec.requires_confirmation
            effect     : SideEffect,
            autonomous : BOOLEAN,   \* the origin is in _AUTONOMOUS_ORIGINS
            listed     : BOOLEAN,   \* is_allowlisted()
            oversize   : BOOLEAN ]  \* summary longer than MAX_ARGS_BYTES
    : /\ k.dangerous => k.class = "danger_matched"
      /\ k.listed    => k.class # "other" }

\* Mutant: a spec that declares nothing slips by.
WritesIfDeclared(k) == k.effect = "write"

\* confirmation_callback() treats a spec from which it can read neither signal
\* as a write, so that an unknown tool gates instead of slipping by.
Writes(k) ==
  \/ k.effect = "write"
  \/ k.effect = "absent" /\ ~k.confirm

AutonomousBlocked(k) ==
  /\ k.autonomous
  /\ k.class # "other" \/ k.confirm \/ Writes(k)

Eligible(k) ==
  CASE k.class = "danger_matched" -> k.dangerous
    [] k.class = "always_confirm" -> TRUE
    [] k.class = "other"          -> k.confirm \/ (Writes(k) /\ ~k.native)

\* Mutant: the allowlist waives danger too.
WaivedByList(k) == k.listed

\* Waived by the allowlist: danger is never waived.
Waived(k) == k.listed /\ ~k.dangerous

\* What gate() does with a call of kind k in mode m; reachable says whether any
\* broadcaster is registered at that moment.
Route(k, m, reachable) ==
  IF AutonomousBlocked(k)                         THEN "reject_autonomous"
  ELSE IF m = "off" \/ ~Eligible(k) \/ Waived(k)  THEN "auto"
  ELSE IF k.oversize                              THEN "reject_oversize"
  ELSE IF m = "log"                               THEN "log"
  ELSE IF ~reachable                              THEN "degrade"
  ELSE                                                 "ask"

Routes == {"reject_autonomous", "auto", "reject_oversize", "log", "degrade", "ask"}
=============================================================================
