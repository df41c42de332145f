--------------------------- MODULE MCApprovalGate ---------------------------
(***************************************************************************)
(* The instance of ApprovalGate for TLC.  Calls share only the mode and    *)
(* the list of broadcasters, so one call of every kind, against every      *)
(* order of registrations, sends, clicks, timeouts and cancellations, is   *)
(* the instance worth its states.                                          *)
(***************************************************************************)
EXTENDS ApprovalGate, CallFacts

Tools == AlwaysConfirmTools \cup DangerMatchedTools \cup {"add_todo"}

\* Lengths: short, at the limit, over it only when encoded, too long to be searched.
Lengths == {<<12, 12>>, <<2048, 2048>>, <<1500, 2049>>, <<16385, 16385>>}

Texts ==
  {Empty} \cup
  { [words |-> w, meta |-> m, matches |-> d, chars |-> l[1], bytes |-> l[2]] :
      w \in {<<"git">>, <<"git", "status">>, <<"gitk">>}, m \in BOOLEAN,
      d \in {{}, {"git"}}, l \in Lengths } \cup
  \* white space only
  { [Empty EXCEPT !.chars = l[1], !.bytes = l[2]] : l \in Lengths }

ArgsOf(t, i) ==
  [command |-> t, text |-> t, initial_prompt |-> i, directory |-> t, path |-> t,
   bytes |-> IF Missing(t) THEN 4000 ELSE t.bytes + 20]

NoArgs == [ArgsOf(Empty, Empty) EXCEPT !.bytes = 2]

RawArgs ==
  {[dict |-> FALSE, args |-> NoArgs]}
    \cup {[dict |-> TRUE, args |-> ArgsOf(t, Empty)] : t \in Texts}

Git  == [Empty EXCEPT !.words = <<"git">>, !.chars = 3, !.bytes = 3]
Then == [Git EXCEPT !.meta = TRUE]

Files ==
  {NoFile} \cup
  { [mtime |-> n, readable |-> b, entries |-> {[tool |-> t, prefix |-> p] : t \in Tools}] :
      n \in 1 .. 2, b \in BOOLEAN, p \in {Git, Then, Empty} }

Specs ==
  [tool : Tools, effect : {"write", "read", "none", "other", "missing"}, confirm : BOOLEAN,
   origin : {"local", "relay", "telegram", "briefing"}]

\* Every kind of call there is.
AllKinds == CallKind

\* The kinds of the calls that can be made.
KindsOfCalls ==
  { KindOf(c, Arguments(a, NoArgs), Loaded(f, NoCache).entries, n) :
      c \in Specs, a \in RawArgs, f \in Files, n \in {{}, Tools} }

\* The kinds GatePolicy decides on are the kinds of the calls that can be made, no more
\* and no fewer.
ASSUME KindsAreCalls == KindsOfCalls = CallKind

\* The cache holds the entries of the file gate() finds, unless the file was written
\* within the same tick of its clock.
ASSUME CacheIsCurrent ==
  \A f, g \in Files :
    LET cache == Loaded(g, NoCache) IN
    f = NoFile \/ f.mtime # g.mtime => Loaded(f, cache) = Loaded(f, NoCache)

\* What an entry lets pass is one command that begins with its words: nothing chained
\* to it, and no other command whose name begins the same.
ASSUME EntriesAreWholeWords ==
  \A t \in Texts \ {Empty}, p \in {Git, Then, Empty} :
    IsAllowlisted("shell", ArgsOf(t, Empty), {[tool |-> "shell", prefix |-> p]})
      <=> p = Git /\ ~t.meta /\ t.words # <<>> /\ t.words[1] = "git"
=============================================================================
