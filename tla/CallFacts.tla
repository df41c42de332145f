------------------------------ MODULE CallFacts ------------------------------
(***************************************************************************)
(* tool_guard.py: what gate() reads off a call before it decides.  KindOf  *)
(* takes a call, with its arguments, its tool's specification and the      *)
(* allowlist as it is cached, to the facts GatePolicy decides on.          *)
(*                                                                         *)
(* A text is its words, whether it holds a shell metacharacter, the danger *)
(* patterns its normalised form matches, and its two lengths.  A pattern   *)
(* is the section of DANGEROUS_PATTERNS it is in.                          *)
(***************************************************************************)
EXTENDS GatePolicy, SequencesExt

MaxArgsBytes   == 2048      \* MAX_ARGS_BYTES, of the encoded summary
MaxDetectInput == 16 * 1024 \* MAX_DETECT_INPUT_BYTES, which counts characters

DangerousPatterns ==
  {"filesystem", "privilege", "remote payload", "local payload", "substitution",
   "inline payload", "system config", "credentials", "own secrets", "git", "network",
   "persistence", "kill"}

Empty == [words |-> <<>>, meta |-> FALSE, matches |-> {}, chars |-> 0, bytes |-> 0]

\* Python's truth of a text as it stands: white space counts.
Missing(t) == t.chars = 0

\* Python's truth of a text that is stripped.
Blank(t) == t.words = <<>>

\* detect_dangerous(): patterns are searched after escape codes, null bytes and
\* compatibility characters are gone; a text too long to search is dangerous.
DetectDangerous(t) ==
  ~Missing(t) /\ (t.chars > MaxDetectInput \/ t.matches \cap DangerousPatterns # {})

-----------------------------------------------------------------------------
(* The allowlist                                                           *)

NoFile  == [mtime |-> 0, readable |-> FALSE, entries |-> {}]
NoCache == [mtime |-> 0, entries |-> {}]

\* _load_allowlist(): the cache is replaced when the file's time is another one; a file
\* that cannot be read then counts as empty until it is written again.
Loaded(file, cache) ==
  IF file = NoFile                THEN NoCache
  ELSE IF file.mtime = cache.mtime THEN cache
  ELSE [mtime |-> file.mtime, entries |-> IF file.readable THEN file.entries ELSE {}]

\* _primary_text(): an empty argument gives way to the next.
PrimaryText(tool, args) ==
  CASE tool = "shell"                     -> args.command
    [] tool = "send_to_session"           -> args.text
    [] tool = "create_claude_session"     ->
         IF Missing(args.initial_prompt) THEN args.directory ELSE args.initial_prompt
    [] tool \in {"write_file", "edit_file"} -> args.path
    [] OTHER                              -> Empty

Chains(t) == t.meta

\* is_allowlisted(): the words of an entry begin the text, and neither chains commands.
IsAllowlisted(tool, args, entries) ==
  LET primary == PrimaryText(tool, args) IN
  /\ ~Blank(primary) /\ ~Chains(primary)
  /\ \E e \in entries :
       /\ e.tool = tool
       /\ ~Blank(e.prefix) /\ ~Chains(e.prefix)
       /\ IsPrefix(e.prefix.words, primary.words)

-----------------------------------------------------------------------------
(* The call                                                                *)

DangerMatchedTools == {"shell"}
AlwaysConfirmTools ==
  {"send_to_session", "create_claude_session", "enroll_face", "write_file", "edit_file"}
AutonomousOrigins == {"briefing"}

ClassOf(tool) ==
  IF tool \in DangerMatchedTools THEN "danger_matched"
  ELSE IF tool \in AlwaysConfirmTools THEN "always_confirm" ELSE "other"

\* _args_summary(): without a primary text, all the arguments.
SummaryBytes(tool, args) ==
  LET primary == PrimaryText(tool, args) IN
  IF Missing(primary) THEN args.bytes ELSE primary.bytes

\* Arguments that are a string are parsed, and anything but a dictionary is none.
Arguments(raw, none) == IF raw.dict THEN raw.args ELSE none

\* _coerce_side_effect(): what the specification says in lower case, whatever it says;
\* an attribute that is missing, or blank, is None.
Effect(spec) == IF spec.effect = "missing" THEN "absent" ELSE spec.effect

\* natives are the names set_native_tools() was given; before it is called, none.
IsNative(tool, natives) == tool \in natives

KindOf(call, args, entries, natives) ==
  [ class      |-> ClassOf(call.tool),
    dangerous  |-> /\ call.tool \in DangerMatchedTools
                   /\ DetectDangerous(PrimaryText(call.tool, args)),
    native     |-> IsNative(call.tool, natives),
    confirm    |-> call.confirm,
    effect     |-> Effect(call),
    autonomous |-> call.origin \in AutonomousOrigins,
    listed     |-> IsAllowlisted(call.tool, args, entries),
    oversize   |-> SummaryBytes(call.tool, args) > MaxArgsBytes ]
=============================================================================
