------------------------------- MODULE Daemon -------------------------------
(***************************************************************************)
(* The daemon process: consoles and the daily briefing, and the            *)
(* self-upgrade loop that may replace the process under them.  (Turns of   *)
(* remote clients are not counted by the code and not part of the model.)  *)
(***************************************************************************)
EXTENDS WebConsole, SelfUpgrade

VARIABLES
  briefing, \* a briefing turn is running
  late      \* history: counted turns that began after the tick's look at the count

vars == <<consoleVars, upgradeVars, briefing, late>>

Init ==
  /\ ConsoleInit
  /\ UpgradeInit
  /\ briefing = FALSE
  /\ late = {}

ConsoleStep(c) ==
  /\ Console(c)
  /\ late' = IF TakeText(c) THEN late \cup {c} ELSE late
  /\ UNCHANGED <<upgradeVars, briefing>>

\* run_briefing_once() in _chat_in_flight_cm()
BriefingStarts ==
  /\ ~briefing
  /\ briefing' = TRUE
  /\ inFlight' = inFlight + 1
  /\ late'     = late \cup {"briefing"}
  /\ UNCHANGED <<sock, typed, queue, stage, text, rows, upgradeVars>>

BriefingEnds ==
  /\ briefing
  /\ briefing' = FALSE
  /\ inFlight' = inFlight - 1
  /\ UNCHANGED <<sock, typed, queue, stage, text, rows, upgradeVars, late>>

UpgradeStep ==
  /\ Tick(inFlight)
  /\ late' = IF at = "turns" THEN {} ELSE late
  /\ UNCHANGED <<consoleVars, briefing>>

RepositoryStep ==
  /\ Repository
  /\ UNCHANGED <<consoleVars, briefing, late>>

\* Every task of the process is gone.
Replace ==
  /\ Reexec \/ ReexecFails \/ Restart
  /\ ConsolesDie
  /\ briefing' = FALSE
  /\ late' = {}

Next ==
  \/ \E c \in Consoles : ConsoleStep(c)
  \/ BriefingStarts \/ BriefingEnds
  \/ UpgradeStep \/ RepositoryStep \/ Replace

Spec == Init /\ [][Next]_vars

\* The event loop runs what is ready and the two-second timer; neither the model, nor
\* the people who approve, nor git is assumed to answer.
LoopStep(c) == RunnerEnded(c) \/ CancelRunner(c)

FairSpec ==
  /\ Spec
  /\ \A c \in Consoles :
       WF_vars(LoopStep(c) /\ UNCHANGED <<upgradeVars, briefing, late>>)

-----------------------------------------------------------------------------
(* Properties                                                              *)

TypeOK ==
  /\ ConsoleTypeOK /\ UpgradeTypeOK
  /\ briefing \in BOOLEAN
  /\ late \subseteq Consoles \cup {"briefing"}

\* The count the upgrade loop reads is the number of turns of consoles and of the
\* briefing that are running, through failures, disconnections and cancellations.
InFlightExact ==
  inFlight = Cardinality({c \in Consoles : InTurn(c)}) + (IF briefing THEN 1 ELSE 0)

\* A history session reads as a conversation: every prompt once and in the order it
\* was typed, every reply directly after its own prompt.
HistoryInOrder ==
  \A c \in Consoles : \A i \in 1 .. Len(rows[c]) :
    /\ rows[c][i].role = "assistant" =>
         i > 1 /\ rows[c][i - 1] = Row("user", rows[c][i].text)
    /\ \A j \in 1 .. i - 1 :
         rows[c][i].role = "user" => rows[c][j].text < rows[c][i].text

\* Once the tick has looked at the count and goes on, a counted turn that is running began
\* afterwards; unless the daemon was started as a script, when it looks at another count.
CheckedTurnsAreSafe ==
  ~AsScript /\ at \in {"target", "tag", "pull", "reread", "test", "rollback", "exec"} =>
    /\ \A c \in Consoles : InTurn(c) => c \in late
    /\ briefing => "briefing" \in late

\* "if any chat turn is mid-stream, defer to the next tick so the user isn't interrupted
\* mid-response" (self_upgrade.py:18-19): the process is not replaced under a chat turn that
\* was under way when the tick looked at the count, however the daemon was started.
UpgradeDefers == at = "exec" => \A c \in Consoles : InTurn(c) => c \in late

\* A tick overwrites no edits that were there when it looked at the tree.
SeenEditsSurvive == ~wiped

\* The process runs a commit that is known good, unless a command failed or the
\* process was restarted with a pulled commit untested in the tree.
RunsKnownGood == running \notin verified => torn # "no"

\* "On any failure path the working tree ends up at a known-good sha"
FailuresKeepTreeGood == at = "idle" /\ torn # "restart" => head \in verified

\* With signed tags required, what is pulled is the commit whose tag was verified,
\* unless main moved on after it was fetched.
TagHonoured ==
  RequireTag /\ at \in {"reread", "test", "exec"} => head \in Signed \/ head > target

\* A connection that was lost is given up, whatever its turn is waiting for.
DisconnectEnds == \A c \in Consoles : sock[c] = "leaving" ~> sock[c] = "off"
=============================================================================
