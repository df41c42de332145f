---------------------------- MODULE DaemonProofs ----------------------------
(***************************************************************************)
(* Proofs about Daemon, for any number of consoles, messages, commits and  *)
(* failing commands.                                                       *)
(*                                                                         *)
(* The upgrade loop's invariant UInv speaks of its own variables only, so  *)
(* the consoles' steps frame it; CInv, the consoles' invariant, is framed  *)
(* by the steps of the loop that leave the process alone.  What a tick     *)
(* knows about turns (TInv) needs both: the tick reads a count, and the    *)
(* count is exact.  OrderInv is about the rows of a history: with what is  *)
(* queued and not ended they are the conversation, in order.               *)
(***************************************************************************)
EXTENDS Daemon, FiniteSetTheorems, TLAPS

-----------------------------------------------------------------------------
(* The upgrade loop                                                        *)

\* The process may have to run x: it passed the tests, or something failed.
Sound(x) == x \in verified \/ torn # "no"

\* The commands of a tick that come after its look at the tree.
AfterStatus == {"turns", "target", "tag", "pull", "reread", "test", "rollback", "exec"}

TreeInv ==
  /\ ~wiped
  /\ known => edited
  /\ at \in AfterStatus => ~known

\* Between the pull and the verdict of the tests HEAD is untested, but the tick
\* holds the commit it can go back to.
GoodInv ==
  /\ Sound(running)
  /\ at # "idle" => Sound(old)
  /\ at \notin {"reread", "test", "rollback"} => Sound(head)

TagInv ==
  /\ fetched <= origin
  /\ RequireTag /\ at \in {"tag", "pull"} => target <= origin
  /\ RequireTag /\ at = "pull" => target \in Signed
  /\ TagHonoured

UInv == UpgradeTypeOK /\ TreeInv /\ GoodInv /\ TagInv

\* A step of the loop, of the repository, or of the process as a whole.
UpgradeNext ==
  \/ \E turns \in Nat : Tick(turns)
  \/ Repository
  \/ Reexec \/ ReexecFails \/ Restart

LEMMA UpgradeStart == UpgradeInit => UInv
<1> SUFFICES ASSUME UpgradeInit
             PROVE  UInv
  OBVIOUS
<1>1. 0 \in 0 .. MaxCommits /\ 0 \in 0 .. MaxFaults
  BY UpgradeAssumption
<1>2. PlacesOK
  BY <1>1 DEF UpgradeInit, PlacesOK, Commits
<1>3. FlagsOK
  BY DEF UpgradeInit, FlagsOK
<1>4. TreeInv
  BY DEF UpgradeInit, TreeInv, AfterStatus
<1>5. GoodInv
  BY DEF UpgradeInit, GoodInv, Sound
<1>6. TagInv
  BY DEF UpgradeInit, TagInv, TagHonoured
<1> QED BY <1>2, <1>3, <1>4, <1>5, <1>6 DEF UInv, UpgradeTypeOK

LEMMA UpgradePlaces == PlacesOK /\ [UpgradeNext]_upgradeVars => PlacesOK'
<1> USE DEF PlacesOK
<1> SUFFICES ASSUME PlacesOK, [UpgradeNext]_upgradeVars
             PROVE  PlacesOK'
  OBVIOUS
<1>1. CASE UNCHANGED upgradeVars
  BY <1>1 DEF upgradeVars, repoVars
<1>2. CASE Push
  BY <1>2, UpgradeAssumption DEF Push, Commits
<1>3. CASE Edit \/ Discard
  BY <1>3 DEF Edit, Discard
<1>4. CASE Begin
  BY <1>4 DEF Begin, Step, repoVars
<1>5. ASSUME NEW turns \in Nat, CheckTurns(turns)
      PROVE  PlacesOK'
  BY <1>5 DEF CheckTurns, repoVars
<1>6. ASSUME Fault
      PROVE  faults' \in 0 .. MaxFaults
  BY <1>6, UpgradeAssumption DEF Fault
<1>7. CASE Fetch
  BY <1>7 DEF Fetch, Step, repoVars
<1>8. CASE CountBehind
  BY <1>8 DEF CountBehind, repoVars
<1>9. CASE CommandFails
  BY <1>9, <1>6 DEF CommandFails, repoVars
<1>10. CASE CheckClean
  BY <1>10 DEF CheckClean, repoVars
<1>11. CASE ResolveTarget
  BY <1>11 DEF ResolveTarget, Step, repoVars
<1>12. CASE CheckTag
  BY <1>12 DEF CheckTag, repoVars
<1>13. CASE Pull
  BY <1>13 DEF Pull, Step, repoVars
<1>14. CASE PullFails
  BY <1>14, <1>6 DEF PullFails, repoVars
<1>15. CASE Reread
  BY <1>15 DEF Reread, repoVars
<1>16. CASE RereadFails
  BY <1>16, <1>6 DEF RereadFails, Step, repoVars
<1>17. CASE TestsPass
  BY <1>17 DEF TestsPass, Step, repoVars
<1>18. CASE TestsFail
  BY <1>18 DEF TestsFail, Step, repoVars
<1>19. CASE Rollback
  BY <1>19 DEF Rollback, Step, Overwrite, repoVars
<1>20. CASE RollbackFails
  BY <1>20, <1>6 DEF RollbackFails, Step, repoVars
<1>21. CASE Reexec
  BY <1>21 DEF Reexec, repoVars
<1>22. CASE ReexecFails
  BY <1>22, <1>6 DEF ReexecFails, Step, Overwrite, repoVars
<1>23. CASE Restart
  BY <1>23, <1>6 DEF Restart, repoVars
<1> QED
  BY <1>1, <1>2, <1>3, <1>4, <1>5, <1>7, <1>8, <1>9, <1>10, <1>11, <1>12, <1>13, <1>14, <1>15, <1>16, <1>17, <1>18, <1>19, <1>20, <1>21, <1>22, <1>23
  DEF UpgradeNext, Tick, Repository

LEMMA UpgradeFlags == FlagsOK /\ [UpgradeNext]_upgradeVars => FlagsOK'
<1> USE DEF FlagsOK
<1> SUFFICES ASSUME FlagsOK, [UpgradeNext]_upgradeVars
             PROVE  FlagsOK'
  OBVIOUS
<1>1. CASE UNCHANGED upgradeVars
  BY <1>1 DEF upgradeVars, repoVars
<1>2. CASE Push
  BY <1>2 DEF Push, repoVars
<1>3. CASE Edit \/ Discard
  <2>1. CASE Edit
    <3>1. known' = TRUE \/ known' = FALSE
      BY <2>1 DEF Edit
    <3> QED BY <2>1, <3>1 DEF Edit
  <2>2. CASE Discard
    BY <2>2 DEF Discard
  <2> QED BY <1>3, <2>1, <2>2
<1>4. CASE Begin
  BY <1>4 DEF Begin, Step, repoVars
<1>5. ASSUME NEW turns \in Nat, CheckTurns(turns)
      PROVE  FlagsOK'
  BY <1>5 DEF CheckTurns, repoVars
<1>7. CASE Fetch
  BY <1>7 DEF Fetch, Step, repoVars
<1>8. CASE CountBehind
  BY <1>8 DEF CountBehind, repoVars
<1>9. CASE CommandFails
  BY <1>9 DEF CommandFails, repoVars
<1>10. CASE CheckClean
  BY <1>10 DEF CheckClean, repoVars
<1>11. CASE ResolveTarget
  BY <1>11 DEF ResolveTarget, Step, repoVars
<1>12. CASE CheckTag
  BY <1>12 DEF CheckTag, repoVars
<1>13. CASE Pull
  BY <1>13 DEF Pull, Step, repoVars
<1>14. CASE PullFails
  BY <1>14 DEF PullFails, repoVars
<1>15. CASE Reread
  BY <1>15 DEF Reread, repoVars
<1>16. CASE RereadFails
  BY <1>16 DEF RereadFails, Step, repoVars
<1>17. CASE TestsPass
  BY <1>17 DEF TestsPass, Step, repoVars
<1>18. CASE TestsFail
  BY <1>18 DEF TestsFail, Step, repoVars
<1>19. CASE Rollback
  BY <1>19 DEF Rollback, Step, Overwrite, repoVars
<1>20. CASE RollbackFails
  BY <1>20 DEF RollbackFails, Step, repoVars
<1>21. CASE Reexec
  BY <1>21 DEF Reexec, repoVars
<1>22. CASE ReexecFails
  BY <1>22 DEF ReexecFails, Step, Overwrite, repoVars
<1>23. CASE Restart
  BY <1>23 DEF Restart, repoVars
<1> QED
  BY <1>1, <1>2, <1>3, <1>4, <1>5, <1>7, <1>8, <1>9, <1>10, <1>11, <1>12, <1>13, <1>14, <1>15, <1>16, <1>17, <1>18, <1>19, <1>20, <1>21, <1>22, <1>23
  DEF UpgradeNext, Tick, Repository

\* Edits seen before the tree was looked at stop the tick there, so what a reset
\* overwrites was made later.
LEMMA TreeStep == UpgradeTypeOK /\ TreeInv /\ [UpgradeNext]_upgradeVars => TreeInv'
<1> USE DEF UpgradeTypeOK, FlagsOK, PlacesOK, TreeInv, AfterStatus, upgradeVars, repoVars
<1> SUFFICES ASSUME UpgradeTypeOK, TreeInv, [UpgradeNext]_upgradeVars
             PROVE  TreeInv'
  OBVIOUS
<1>1. CASE UNCHANGED upgradeVars
  BY <1>1
<1>2. CASE Repository
  BY <1>2 DEF Repository, Push, Edit, Discard
<1>3. CASE Begin \/ Fetch \/ CountBehind \/ CommandFails \/ CheckClean
  BY <1>3 DEF Begin, Fetch, CountBehind, CommandFails, CheckClean, Step
<1>4. ASSUME NEW turns \in Nat, CheckTurns(turns)
      PROVE  TreeInv'
  BY <1>4 DEF CheckTurns
<1>5. CASE ResolveTarget \/ CheckTag \/ Pull \/ PullFails
  BY <1>5 DEF ResolveTarget, CheckTag, Pull, PullFails, Step
<1>6. CASE Reread \/ RereadFails \/ TestsPass \/ TestsFail
  BY <1>6 DEF Reread, RereadFails, TestsPass, TestsFail, Step
<1>7. CASE Rollback \/ RollbackFails
  BY <1>7 DEF Rollback, RollbackFails, Overwrite, Step
<1>8. CASE Reexec \/ ReexecFails \/ Restart
  BY <1>8 DEF Reexec, ReexecFails, Restart, Overwrite, Step
<1> QED BY <1>1, <1>2, <1>3, <1>4, <1>5, <1>6, <1>7, <1>8 DEF UpgradeNext, Tick

\* The tests are between the pull and every use of HEAD; what goes round them is a
\* command that fails or a restart in between, which torn records.
LEMMA GoodStep == UpgradeTypeOK /\ GoodInv /\ [UpgradeNext]_upgradeVars => GoodInv'
<1> USE DEF UpgradeTypeOK, FlagsOK, PlacesOK, GoodInv, Sound, upgradeVars, repoVars
<1> SUFFICES ASSUME UpgradeTypeOK, GoodInv, [UpgradeNext]_upgradeVars
             PROVE  GoodInv'
  OBVIOUS
<1>1. CASE UNCHANGED upgradeVars
  BY <1>1
<1>2. CASE Repository
  BY <1>2 DEF Repository, Push, Edit, Discard
<1>3. CASE Begin \/ Fetch \/ CountBehind \/ CommandFails \/ CheckClean
  BY <1>3 DEF Begin, Fetch, CountBehind, CommandFails, CheckClean, Step
<1>4. ASSUME NEW turns \in Nat, CheckTurns(turns)
      PROVE  GoodInv'
  BY <1>4 DEF CheckTurns
<1>5. CASE ResolveTarget \/ CheckTag \/ Pull \/ PullFails
  BY <1>5 DEF ResolveTarget, CheckTag, Pull, PullFails, Step
<1>6. CASE Reread \/ RereadFails \/ TestsPass \/ TestsFail
  BY <1>6 DEF Reread, RereadFails, TestsPass, TestsFail, Step
<1>7. CASE Rollback \/ RollbackFails
  BY <1>7 DEF Rollback, RollbackFails, Overwrite, Step
<1>8. CASE Reexec \/ ReexecFails \/ Restart
  BY <1>8 DEF Reexec, ReexecFails, Restart, Overwrite, Step
<1> QED BY <1>1, <1>2, <1>3, <1>4, <1>5, <1>6, <1>7, <1>8 DEF UpgradeNext, Tick

\* Main only moves forward, so the pull takes the commit whose tag was verified or
\* a later one.
LEMMA TagStep == UpgradeTypeOK /\ TagInv /\ [UpgradeNext]_upgradeVars => TagInv'
<1> USE UpgradeAssumption DEF UpgradeTypeOK, PlacesOK, TagInv, TagHonoured, Commits, upgradeVars, repoVars
<1> SUFFICES ASSUME UpgradeTypeOK, TagInv, [UpgradeNext]_upgradeVars
             PROVE  TagInv'
  OBVIOUS
<1>1. CASE UNCHANGED upgradeVars
  BY <1>1
<1>2. CASE Repository
  BY <1>2 DEF Repository, Push, Edit, Discard
<1>3. CASE Begin \/ Fetch \/ CountBehind \/ CommandFails \/ CheckClean
  BY <1>3 DEF Begin, Fetch, CountBehind, CommandFails, CheckClean, Step
<1>4. ASSUME NEW turns \in Nat, CheckTurns(turns)
      PROVE  TagInv'
  BY <1>4 DEF CheckTurns
<1>5. CASE ResolveTarget \/ CheckTag
  BY <1>5 DEF ResolveTarget, CheckTag, TagVerifies, Step
<1>6. CASE Pull \/ PullFails
  BY <1>6 DEF Pull, PullFails, Step
<1>7. CASE Reread \/ RereadFails \/ TestsPass \/ TestsFail
  BY <1>7 DEF Reread, RereadFails, TestsPass, TestsFail, Step
<1>8. CASE Rollback \/ RollbackFails
  BY <1>8 DEF Rollback, RollbackFails, Overwrite, Step
<1>9. CASE Reexec \/ ReexecFails \/ Restart
  BY <1>9 DEF Reexec, ReexecFails, Restart, Overwrite, Step
<1> QED BY <1>1, <1>2, <1>3, <1>4, <1>5, <1>6, <1>7, <1>8, <1>9 DEF UpgradeNext, Tick

LEMMA UpgradeKeeps == UInv /\ [UpgradeNext]_upgradeVars => UInv'
BY UpgradePlaces, UpgradeFlags, TreeStep, GoodStep, TagStep DEF UInv, UpgradeTypeOK

-----------------------------------------------------------------------------
(* The consoles                                                            *)

TurnStages == {"recording", "streaming", "asking", "saving"}

\* The consoles that have a turn running.
Turning(st) == {c \in Consoles : st[c] \in TurnStages}

ShapeOK ==
  /\ sock \in [Consoles -> {"off", "open", "leaving"}]
  /\ typed \in [Consoles -> 0 .. MaxTexts]
  /\ queue \in [Consoles -> Seq(Texts \cup {Sentinel})]
  /\ stage \in [Consoles -> Stages]
  /\ text \in [Consoles -> Texts \cup {Sentinel}]
  /\ rows \in [Consoles -> Seq([role : {"user", "assistant"}, text : Texts])]

\* A turn has a message: what it records is one.
TurnHasText == \A c \in Consoles : InTurn(c) => text[c] \in Texts

\* Without a connection there is no runner, or one that has ended.
OffIsQuiet == \A c \in Consoles : sock[c] = "off" => stage[c] \in {"none", "ended"}

CInv == ShapeOK /\ TurnHasText /\ OffIsQuiet

LEMMA Counted ==
  ASSUME NEW st \in [Consoles -> Stages]
  PROVE  IsFiniteSet(Turning(st)) /\ Cardinality(Turning(st)) \in Nat
BY ConsoleAssumption, FS_Subset, FS_CardinalityType DEF Turning

\* A turn that begins, ends or goes on adds one to the turns, takes one, or neither.
LEMMA CountBegins ==
  ASSUME NEW st \in [Consoles -> Stages], NEW c \in Consoles, NEW x \in TurnStages,
         st[c] \notin TurnStages
  PROVE  Cardinality(Turning([st EXCEPT ![c] = x])) = Cardinality(Turning(st)) + 1
<1>1. Turning([st EXCEPT ![c] = x]) = Turning(st) \cup {c} /\ c \notin Turning(st)
  BY DEF Turning
<1>2. IsFiniteSet(Turning(st))
  BY Counted
<1> QED BY <1>1, <1>2, FS_AddElement

LEMMA CountEnds ==
  ASSUME NEW st \in [Consoles -> Stages], NEW c \in Consoles, NEW x,
         x \notin TurnStages, st[c] \in TurnStages
  PROVE  Cardinality(Turning([st EXCEPT ![c] = x])) = Cardinality(Turning(st)) - 1
<1>1. Turning([st EXCEPT ![c] = x]) = Turning(st) \ {c} /\ c \in Turning(st)
  BY DEF Turning
<1>2. IsFiniteSet(Turning(st))
  BY Counted
<1> QED BY <1>1, <1>2, FS_RemoveElement

LEMMA CountStays ==
  ASSUME NEW st \in [Consoles -> Stages], NEW c \in Consoles, NEW x,
         x \in TurnStages <=> st[c] \in TurnStages
  PROVE  Turning([st EXCEPT ![c] = x]) = Turning(st)
BY DEF Turning

-----------------------------------------------------------------------------
(* What a console's step does to the count                                 *)

\* A step of console c leaves the other turns alone, begins c's turn and counts it,
\* ends it and stops counting it, or does neither.
LEMMA ConsoleCounts ==
  ASSUME ShapeOK, OffIsQuiet, inFlight \in Int, NEW c \in Consoles, Console(c)
  PROVE  /\ inFlight' - inFlight = Cardinality(Turning(stage')) - Cardinality(Turning(stage))
         /\ \A d \in Consoles : InTurn(d)' => InTurn(d) \/ (TakeText(c) /\ d = c)
<1> USE DEF ShapeOK, InTurn
<1> DEFINE N(st) == Cardinality(Turning(st))
           Goal == /\ inFlight' - inFlight = N(stage') - N(stage)
                   /\ \A d \in Consoles : InTurn(d)' => InTurn(d) \/ (TakeText(c) /\ d = c)
<1>0. N(stage) \in Nat
  BY Counted
<1>1. CASE Receive(c) \/ Disconnect(c) \/ RunnerEnded(c)
  <2>1. stage' = stage /\ inFlight' = inFlight
    BY <1>1 DEF Receive, Disconnect, RunnerEnded
  <2> QED BY <2>1, <1>0
<1>2. CASE TakeText(c)
  <2>1. stage' = [stage EXCEPT ![c] = "recording"] /\ inFlight' = inFlight + 1
        /\ stage[c] \notin TurnStages
    BY <1>2 DEF TakeText, TurnStages
  <2>2. N(stage') = N(stage) + 1
    BY <2>1, CountBegins DEF TurnStages
  <2> QED BY <1>0, <1>2, <2>1, <2>2
<1>3. ASSUME NEW x \in Stages, stage' = [stage EXCEPT ![c] = x], inFlight' = inFlight,
             x \in TurnStages <=> stage[c] \in TurnStages
      PROVE  Goal
  <2>1. N(stage') = N(stage)
    BY <1>3, CountStays
  <2> QED BY <1>0, <1>3, <2>1 DEF TurnStages
<1>4. ASSUME NEW x \in Stages, stage' = [stage EXCEPT ![c] = x], inFlight' = inFlight - 1,
             x \notin TurnStages, stage[c] \in TurnStages
      PROVE  Goal
  <2>1. N(stage') = N(stage) - 1
    BY <1>4, CountEnds
  <2> QED BY <1>0, <1>4, <2>1 DEF TurnStages
<1>5. CASE TakeSentinel(c)
  BY <1>3, <1>5 DEF TakeSentinel, TurnStages, Stages
<1>7. CASE RecordUser(c) \/ AskApproval(c) \/ Decided(c) \/ Reply(c)
  BY <1>3, <1>7 DEF RecordUser, AskApproval, Decided, Reply, TurnStages, Stages
<1>8. CASE SaveReply(c) \/ TurnFails(c)
  BY <1>4, <1>8 DEF SaveReply, TurnFails, TurnStages, Stages
<1>9. CASE CancelRunner(c)
  BY <1>3, <1>4, <1>9 DEF CancelRunner, TurnStages, Stages
<1>10. CASE Connect(c)
  BY <1>3, <1>10 DEF Connect, OffIsQuiet, TurnStages, Stages
<1> QED BY <1>1, <1>2, <1>5, <1>7, <1>8, <1>9, <1>10 DEF Console, Turn

LEMMA ConsoleShape ==
  ASSUME ShapeOK, TurnHasText, NEW c \in Consoles, Console(c)
  PROVE  ShapeOK'
<1>1. stage' \in [Consoles -> Stages]
  <2>1. stage' = stage \/ \E x \in Stages : stage' = [stage EXCEPT ![c] = x]
    BY DEF Console, Turn, Connect, Receive, TakeText, TakeSentinel, RecordUser, AskApproval,
             Decided, Reply, SaveReply, TurnFails, Disconnect, RunnerEnded, CancelRunner, Stages
  <2> QED BY <2>1 DEF ShapeOK
<1>2. sock' \in [Consoles -> {"off", "open", "leaving"}]
  <2>1. sock' = sock \/ \E x \in {"off", "open", "leaving"} : sock' = [sock EXCEPT ![c] = x]
    BY DEF Console, Turn, Connect, Receive, TakeText, TakeSentinel, RecordUser, AskApproval,
             Decided, Reply, SaveReply, TurnFails, Disconnect, RunnerEnded, CancelRunner
  <2> QED BY <2>1 DEF ShapeOK
<1>3. typed' \in [Consoles -> 0 .. MaxTexts]
  <2>1. typed' = typed \/ \E x \in 0 .. MaxTexts : typed' = [typed EXCEPT ![c] = x]
    <3>1. 0 \in 0 .. MaxTexts
      BY ConsoleAssumption
    <3>2. typed[c] \in 0 .. MaxTexts
      BY DEF ShapeOK
    <3>3. CASE Receive(c)
      <4>1. typed[c] + 1 \in 0 .. MaxTexts
        BY <3>2, <3>3, ConsoleAssumption DEF Receive
      <4> QED BY <3>3, <4>1 DEF Receive
    <3>4. CASE ~Receive(c)
      BY <3>1, <3>4 DEF Console, Turn, Connect, Receive, TakeText, TakeSentinel, RecordUser, AskApproval,
             Decided, Reply, SaveReply, TurnFails, Disconnect, RunnerEnded, CancelRunner
    <3> QED BY <3>3, <3>4
  <2> QED BY <2>1 DEF ShapeOK
<1>4. text' \in [Consoles -> Texts \cup {Sentinel}]
  <2>1. text' = text \/ \E x \in Texts \cup {Sentinel} : text' = [text EXCEPT ![c] = x]
    <3>1. CASE TakeText(c)
      <4>1. Head(queue[c]) \in Texts \cup {Sentinel}
        BY <3>1 DEF TakeText, ShapeOK
      <4> QED BY <3>1, <4>1 DEF TakeText
    <3>2. CASE ~TakeText(c)
      BY <3>2 DEF Console, Turn, Connect, Receive, TakeText, TakeSentinel, RecordUser, AskApproval,
             Decided, Reply, SaveReply, TurnFails, Disconnect, RunnerEnded, CancelRunner
    <3> QED BY <3>1, <3>2
  <2> QED BY <2>1 DEF ShapeOK
<1>5. queue' \in [Consoles -> Seq(Texts \cup {Sentinel})]
  <2>0. queue[c] \in Seq(Texts \cup {Sentinel})
    BY DEF ShapeOK
  <2>1. queue' = queue \/ \E x \in Seq(Texts \cup {Sentinel}) : queue' = [queue EXCEPT ![c] = x]
    <3>1. CASE Receive(c)
      <4>1. typed'[c] = typed[c] + 1 /\ typed[c] + 1 \in Texts
        BY <3>1, ConsoleAssumption DEF Receive, ShapeOK, Texts
      <4>2. Append(queue[c], typed'[c]) \in Seq(Texts \cup {Sentinel})
        BY <2>0, <4>1
      <4> QED BY <3>1, <4>2 DEF Receive, Enqueue
    <3>2. CASE TakeText(c) \/ TakeSentinel(c)
      <4>1. Tail(queue[c]) \in Seq(Texts \cup {Sentinel})
        BY <2>0, <3>2 DEF TakeText, TakeSentinel
      <4> QED BY <3>2, <4>1 DEF TakeText, TakeSentinel
    <3>3. CASE Disconnect(c)
      <4>1. Append(queue[c], Sentinel) \in Seq(Texts \cup {Sentinel})
        BY <2>0
      <4> QED BY <3>3, <4>1 DEF Disconnect
    <3>4. CASE Connect(c) \/ CancelRunner(c)
      <4>1. <<>> \in Seq(Texts \cup {Sentinel})
        OBVIOUS
      <4> QED BY <3>4, <4>1 DEF Connect, CancelRunner
    <3>5. CASE RunnerEnded(c) \/ Turn(c)
      BY <3>5 DEF RunnerEnded, Turn, RecordUser, AskApproval, Decided, Reply, SaveReply,
                  TurnFails
    <3> QED BY <3>1, <3>2, <3>3, <3>4, <3>5 DEF Console
  <2> QED BY <2>1 DEF ShapeOK
<1>6. rows' \in [Consoles -> Seq([role : {"user", "assistant"}, text : Texts])]
  <2> DEFINE R == [role : {"user", "assistant"}, text : Texts]
  <2>0. rows[c] \in Seq(R)
    BY DEF ShapeOK
  <2>1. ASSUME InTurn(c), NEW who \in {"user", "assistant"}
        PROVE  Append(rows[c], Row(who, text[c])) \in Seq(R)
    <3>1. Row(who, text[c]) \in R
      BY <2>1 DEF TurnHasText, Row
    <3> QED BY <2>0, <3>1
  <2>2. rows' = rows \/ \E x \in Seq(R) : rows' = [rows EXCEPT ![c] = x]
    <3>1. CASE RecordUser(c) \/ SaveReply(c)
      BY <2>1, <3>1 DEF RecordUser, SaveReply, InTurn
    <3>2. CASE CancelRunner(c)
      <4>1. Cancelled(c) \subseteq Seq(R)
        <5>1. CASE stage[c] = "recording"
          BY <2>0, <2>1, <5>1 DEF Cancelled, InTurn
        <5>2. CASE stage[c] = "saving"
          BY <2>0, <2>1, <5>2 DEF Cancelled, InTurn
        <5>3. CASE stage[c] \notin {"recording", "saving"}
          BY <2>0, <5>3 DEF Cancelled
        <5> QED BY <5>1, <5>2, <5>3
      <4> QED BY <3>2, <4>1 DEF CancelRunner
    <3>3. CASE Connect(c)
      <4>1. <<>> \in Seq(R)
        OBVIOUS
      <4> QED BY <3>3, <4>1 DEF Connect
    <3>4. CASE ~(RecordUser(c) \/ SaveReply(c) \/ CancelRunner(c) \/ Connect(c))
      BY <3>4 DEF Console, Turn, Receive, TakeText, TakeSentinel, AskApproval, Decided,
                  Reply, TurnFails, Disconnect, RunnerEnded
    <3> QED BY <3>1, <3>2, <3>3, <3>4
  <2> HIDE DEF R
  <2>3. rows \in [Consoles -> Seq(R)]
    BY DEF ShapeOK, R
  <2>4. rows' \in [Consoles -> Seq(R)]
    BY <2>2, <2>3
  <2> QED BY <2>4 DEF R
<1> QED BY <1>1, <1>2, <1>3, <1>4, <1>5, <1>6 DEF ShapeOK

LEMMA ConsoleText ==
  ASSUME ShapeOK, TurnHasText, NEW c \in Consoles, Console(c)
  PROVE  TurnHasText'
<1> USE DEF ShapeOK, TurnHasText, InTurn
<1>1. CASE Connect(c)
  BY <1>1 DEF Connect
<1>2. CASE Receive(c)
  BY <1>2 DEF Receive
<1>3. CASE TakeText(c)
  BY <1>3 DEF TakeText, Texts, Sentinel
<1>4. CASE TakeSentinel(c)
  BY <1>4 DEF TakeSentinel
<1>5. CASE RecordUser(c)
  BY <1>5 DEF RecordUser
<1>6. CASE AskApproval(c) \/ Decided(c) \/ Reply(c)
  BY <1>6 DEF AskApproval, Decided, Reply
<1>7. CASE SaveReply(c)
  BY <1>7 DEF SaveReply
<1>8. CASE TurnFails(c)
  BY <1>8 DEF TurnFails
<1>9. CASE Disconnect(c)
  BY <1>9 DEF Disconnect
<1>10. CASE RunnerEnded(c)
  BY <1>10 DEF RunnerEnded
<1>11. CASE CancelRunner(c)
  BY <1>11 DEF CancelRunner
<1> QED BY <1>1, <1>2, <1>3, <1>4, <1>5, <1>6, <1>7, <1>8, <1>9, <1>10, <1>11 DEF Console, Turn

LEMMA ConsoleQuiet ==
  ASSUME ShapeOK, OffIsQuiet, NEW c \in Consoles, Console(c)
  PROVE  OffIsQuiet'
<1> USE DEF ShapeOK, OffIsQuiet, InTurn
<1>1. CASE Connect(c)
  BY <1>1 DEF Connect
<1>2. CASE Receive(c)
  BY <1>2 DEF Receive
<1>3. CASE TakeText(c)
  BY <1>3 DEF TakeText
<1>4. CASE TakeSentinel(c)
  BY <1>4 DEF TakeSentinel
<1>5. CASE RecordUser(c)
  BY <1>5 DEF RecordUser
<1>6. CASE AskApproval(c) \/ Decided(c) \/ Reply(c)
  BY <1>6 DEF AskApproval, Decided, Reply
<1>7. CASE SaveReply(c)
  BY <1>7 DEF SaveReply
<1>8. CASE TurnFails(c)
  BY <1>8 DEF TurnFails
<1>9. CASE Disconnect(c)
  BY <1>9 DEF Disconnect
<1>10. CASE RunnerEnded(c)
  BY <1>10 DEF RunnerEnded
<1>11. CASE CancelRunner(c)
  BY <1>11 DEF CancelRunner
<1> QED BY <1>1, <1>2, <1>3, <1>4, <1>5, <1>6, <1>7, <1>8, <1>9, <1>10, <1>11 DEF Console, Turn

-----------------------------------------------------------------------------
(* The order of a history                                                  *)

Rowset == [role : {"user", "assistant"}, text : Texts]

LEMMA TextsAreNumbers ==
  /\ \A x \in Texts \cup {Sentinel} : x \in Int
  /\ \A r \in Rowset : r.text \in Int
<1>1. \A x \in Texts : x \in Int
  BY DEF Texts
<1>2. \A r \in Rowset : r.text \in Texts
  BY DEF Rowset
<1> QED BY <1>1, <1>2 DEF Sentinel

\* What HistoryInOrder says of one history.
Conversation(rs) ==
  \A i \in 1 .. Len(rs) :
    /\ rs[i].role = "assistant" => i > 1 /\ rs[i - 1] = Row("user", rs[i].text)
    /\ \A j \in 1 .. i - 1 : rs[i].role = "user" => rs[j].text < rs[i].text

\* A queue q of messages up to the n-th ascends to its sentinel, and what is in it is
\* later than the message tx in hand and than all rows rs.
Queued(q, n, tx, rs) ==
  \A i \in 1 .. Len(q) :
    /\ q[i] <= n
    /\ \A j \in 1 .. i - 1 : q[j] # Sentinel /\ (q[i] = Sentinel \/ q[j] < q[i])
    /\ q[i] # Sentinel => tx < q[i] /\ \A k \in 1 .. Len(rs) : rs[k].text < q[i]

Unended(q) == \A i \in 1 .. Len(q) : q[i] # Sentinel

\* What rows there are in a stage st of the turn for tx.
Recorded(st, n, tx, rs) ==
  /\ tx <= n /\ \A k \in 1 .. Len(rs) : rs[k].text <= n
  /\ st = "recording" => \A k \in 1 .. Len(rs) : rs[k].text < tx
  /\ st \in {"streaming", "asking", "saving"} =>
       rs # <<>> /\ rs[Len(rs)] = Row("user", tx)

ConsoleOrder(c) ==
  /\ Conversation(rows[c])
  /\ InTurn(c) \/ text[c] = Sentinel
  /\ sock[c] # "off" => /\ Queued(queue[c], typed[c], text[c], rows[c])
                        /\ sock[c] = "open" => Unended(queue[c])
                        /\ Recorded(stage[c], typed[c], text[c], rows[c])

OrderInv == \A c \in Consoles : ConsoleOrder(c)

LEMMA QueueReceives ==
  ASSUME NEW q \in Seq(Texts \cup {Sentinel}), NEW n \in Nat,
         NEW tx \in Texts \cup {Sentinel}, NEW rs \in Seq(Rowset),
         Queued(q, n, tx, rs), Unended(q),
         tx <= n, \A k \in 1 .. Len(rs) : rs[k].text <= n
  PROVE  Queued(Append(q, n + 1), n + 1, tx, rs) /\ Unended(Append(q, n + 1))
<1> DEFINE p == Append(q, n + 1)
<1>1. /\ Len(p) = Len(q) + 1 /\ Len(q) \in Nat /\ p[Len(q) + 1] = n + 1
      /\ \A i \in 1 .. Len(q) : p[i] = q[i]
  OBVIOUS
<1>2. \A k \in 1 .. Len(rs) : rs[k].text \in Int
  <2>1. \A k \in 1 .. Len(rs) : rs[k] \in Rowset
    OBVIOUS
  <2> QED BY <2>1, TextsAreNumbers
<1>3. \A i \in 1 .. Len(q) : q[i] \in Int
  BY TextsAreNumbers
<1>4. tx \in Int
  BY TextsAreNumbers
<1> HIDE DEF p
<1>5. Unended(p)
  BY <1>1, <1>3 DEF Unended, Sentinel
<1>6. ASSUME NEW i \in 1 .. Len(p)
      PROVE  p[i] <= n + 1 /\ tx < p[i] /\ \A k \in 1 .. Len(rs) : rs[k].text < p[i]
  <2>1. CASE i = Len(q) + 1
    BY <1>1, <1>2, <1>4, <2>1
  <2>2. CASE i \in 1 .. Len(q)
    <3>1. /\ q[i] <= n /\ q[i] \in Int /\ tx < q[i]
          /\ \A k \in 1 .. Len(rs) : rs[k].text < q[i]
      BY <1>3, <2>2 DEF Queued, Unended
    <3> QED BY <1>1, <2>2, <3>1
  <2> QED BY <1>1, <2>1, <2>2
<1>7. ASSUME NEW i \in 1 .. Len(p), NEW j \in 1 .. i - 1
      PROVE  p[j] # Sentinel /\ p[j] < p[i]
  BY <1>1, <1>3 DEF Queued, Unended
<1>8. Queued(p, n + 1, tx, rs)
  BY <1>6, <1>7 DEF Queued
<1> QED BY <1>5, <1>8 DEF p

LEMMA QueueCloses ==
  ASSUME NEW q \in Seq(Texts \cup {Sentinel}), NEW n \in Nat, NEW tx, NEW rs,
         Queued(q, n, tx, rs), Unended(q)
  PROVE  Queued(Append(q, Sentinel), n, tx, rs)
<1> DEFINE p == Append(q, Sentinel)
<1>1. /\ Len(p) = Len(q) + 1 /\ Len(q) \in Nat /\ p[Len(q) + 1] = Sentinel
      /\ \A i \in 1 .. Len(q) : p[i] = q[i]
  OBVIOUS
<1> HIDE DEF p
<1> QED BY <1>1 DEF Queued, Unended, Sentinel, p

LEMMA QueueTakes ==
  ASSUME NEW q \in Seq(Texts \cup {Sentinel}), NEW n, NEW tx, NEW rs,
         q # <<>>, Queued(q, n, tx, rs)
  PROVE  /\ Queued(Tail(q), n, tx, rs)
         /\ Unended(q) => Unended(Tail(q))
         /\ Head(q) # Sentinel =>
              /\ Queued(Tail(q), n, Head(q), rs)
              /\ Head(q) <= n /\ \A k \in 1 .. Len(rs) : rs[k].text < Head(q)
<1> DEFINE p == Tail(q)
<1>1. /\ Len(q) \in Nat \ {0} /\ Len(p) = Len(q) - 1 /\ Head(q) = q[1]
      /\ \A i \in 1 .. Len(p) : p[i] = q[i + 1]
  OBVIOUS
<1> HIDE DEF p
<1>2. Queued(p, n, tx, rs)
  BY <1>1 DEF Queued
<1>3. Unended(q) => Unended(p)
  BY <1>1 DEF Unended
<1>4. ASSUME Head(q) # Sentinel
      PROVE  /\ Queued(p, n, Head(q), rs)
             /\ Head(q) <= n /\ \A k \in 1 .. Len(rs) : rs[k].text < Head(q)
  <2>1. Head(q) <= n /\ \A k \in 1 .. Len(rs) : rs[k].text < Head(q)
    BY <1>1, <1>4 DEF Queued
  <2>2. \A i \in 1 .. Len(p) : Head(q) # Sentinel /\ (p[i] = Sentinel \/ Head(q) < p[i])
    BY <1>1 DEF Queued
  <2>3. \A i \in 1 .. Len(p) : p[i] # Sentinel => \A k \in 1 .. Len(rs) : rs[k].text < p[i]
    BY <1>1 DEF Queued
  <2> QED BY <1>2, <2>1, <2>2, <2>3 DEF Queued
<1> QED BY <1>2, <1>3, <1>4 DEF p

\* A row of the turn for tx, which is earlier than everything queued.
LEMMA QueueBehindRow ==
  ASSUME NEW q, NEW n, NEW tx \in Texts, NEW rs \in Seq(Rowset), NEW who,
         Queued(q, n, tx, rs)
  PROVE  Queued(q, n, tx, Append(rs, Row(who, tx)))
<1> DEFINE p == Append(rs, Row(who, tx))
<1>1. /\ Len(rs) \in Nat /\ Len(p) = Len(rs) + 1 /\ p[Len(rs) + 1] = Row(who, tx)
      /\ \A k \in 1 .. Len(rs) : p[k] = rs[k]
  OBVIOUS
<1>2. \A k \in 1 .. Len(p) : k \in 1 .. Len(rs) \/ p[k].text = tx
  BY <1>1 DEF Row
<1> HIDE DEF p
<1> QED BY <1>1, <1>2 DEF Queued, p

LEMMA QueueBehindNothing ==
  ASSUME NEW q \in Seq(Texts \cup {Sentinel}), NEW n, NEW tx, NEW rs, Queued(q, n, tx, rs)
  PROVE  Queued(q, n, Sentinel, rs)
BY DEF Queued, Texts, Sentinel

LEMMA PromptRecorded ==
  ASSUME NEW rs \in Seq(Rowset), NEW tx \in Texts, Conversation(rs),
         \A k \in 1 .. Len(rs) : rs[k].text < tx
  PROVE  Conversation(Append(rs, Row("user", tx)))
<1> DEFINE p == Append(rs, Row("user", tx))
<1>1. /\ Len(rs) \in Nat /\ Len(p) = Len(rs) + 1 /\ p[Len(rs) + 1] = Row("user", tx)
      /\ \A k \in 1 .. Len(rs) : p[k] = rs[k]
  OBVIOUS
<1>2. Row("user", tx).role = "user" /\ Row("user", tx).text = tx
  BY DEF Row
<1> HIDE DEF p
<1> QED BY <1>1, <1>2 DEF Conversation, p

LEMMA ReplyRecorded ==
  ASSUME NEW rs \in Seq(Rowset), NEW tx \in Texts, Conversation(rs),
         rs # <<>>, rs[Len(rs)] = Row("user", tx)
  PROVE  Conversation(Append(rs, Row("assistant", tx)))
<1> DEFINE p == Append(rs, Row("assistant", tx))
<1>1. /\ Len(rs) \in Nat \ {0} /\ Len(p) = Len(rs) + 1
      /\ p[Len(rs) + 1] = Row("assistant", tx)
      /\ \A k \in 1 .. Len(rs) : p[k] = rs[k]
  OBVIOUS
<1>2. Row("assistant", tx).role = "assistant" /\ Row("assistant", tx).text = tx
  BY DEF Row
<1> HIDE DEF p
<1> QED BY <1>1, <1>2 DEF Conversation, p

LEMMA RowAdded ==
  ASSUME NEW rs \in Seq(Rowset), NEW tx \in Texts, NEW who, NEW n, tx <= n,
         \A k \in 1 .. Len(rs) : rs[k].text <= n
  PROVE  LET p == Append(rs, Row(who, tx)) IN
           /\ \A k \in 1 .. Len(p) : p[k].text <= n
           /\ p # <<>> /\ p[Len(p)] = Row(who, tx)
<1> DEFINE p == Append(rs, Row(who, tx))
<1>1. /\ Len(rs) \in Nat /\ Len(p) = Len(rs) + 1 /\ p[Len(rs) + 1] = Row(who, tx)
      /\ \A k \in 1 .. Len(rs) : p[k] = rs[k]
  OBVIOUS
<1>2. Row(who, tx).text = tx
  BY DEF Row
<1>3. p # <<>>
  OBVIOUS
<1> HIDE DEF p
<1>4. \A k \in 1 .. Len(p) : p[k].text <= n
  BY <1>1, <1>2
<1> QED BY <1>1, <1>3, <1>4 DEF p

LEMMA ConsoleKeepsOrder ==
  ASSUME ShapeOK, TurnHasText, OffIsQuiet, OrderInv, NEW c \in Consoles, Console(c)
  PROVE  OrderInv'
<1>1. ASSUME NEW d \in Consoles, d # c
      PROVE  ConsoleOrder(d)'
  <2>1. /\ sock'[d] = sock[d] /\ typed'[d] = typed[d] /\ queue'[d] = queue[d]
        /\ stage'[d] = stage[d] /\ text'[d] = text[d] /\ rows'[d] = rows[d]
    BY <1>1 DEF ShapeOK, Console, Turn, Connect, Receive, TakeText, TakeSentinel, RecordUser,
                AskApproval, Decided, Reply, SaveReply, TurnFails, Disconnect, RunnerEnded,
                CancelRunner
  <2> QED BY <2>1 DEF OrderInv, ConsoleOrder, InTurn
<1>2. ConsoleOrder(c)'
  <2> USE DEF ShapeOK
  <2>0. /\ queue[c] \in Seq(Texts \cup {Sentinel}) /\ rows[c] \in Seq(Rowset)
        /\ typed[c] \in Nat /\ text[c] \in Texts \cup {Sentinel}
        /\ ConsoleOrder(c)
        /\ InTurn(c) => text[c] \in Texts /\ sock[c] # "off"
    <3>1. rows[c] \in Seq(Rowset)
      BY DEF Rowset
    <3>2. ConsoleOrder(c)
      BY DEF OrderInv
    <3>3. InTurn(c) => text[c] \in Texts /\ sock[c] # "off"
      BY DEF TurnHasText, OffIsQuiet, InTurn
    <3>4. queue[c] \in Seq(Texts \cup {Sentinel}) /\ text[c] \in Texts \cup {Sentinel}
      OBVIOUS
    <3>5. typed[c] \in Nat
      OBVIOUS
    <3> QED BY <3>1, <3>2, <3>3, <3>4, <3>5
  <2>text. InTurn(c)' \/ text'[c] = Sentinel
    <3>1. InTurn(c) \/ text[c] = Sentinel
      BY <2>0 DEF ConsoleOrder
    <3>2. CASE Connect(c) \/ TakeSentinel(c)
      BY <2>0, <3>1, <3>2 DEF Connect, TakeSentinel, InTurn
    <3>3. CASE Receive(c) \/ Disconnect(c) \/ RunnerEnded(c)
      <4>1. stage'[c] = stage[c] /\ text'[c] = text[c]
        BY <3>3 DEF Receive, Disconnect, RunnerEnded
      <4> QED BY <3>1, <4>1 DEF InTurn
    <3>4. CASE TakeText(c) \/ RecordUser(c) \/ AskApproval(c) \/ Decided(c) \/ Reply(c)
      BY <3>4 DEF TakeText, RecordUser, AskApproval, Decided, Reply, InTurn
    <3>5. CASE SaveReply(c) \/ TurnFails(c) \/ CancelRunner(c)
      BY <3>5 DEF SaveReply, TurnFails, CancelRunner
    <3> QED BY <1>1, <3>2, <3>3, <3>4, <3>5 DEF Console, Turn
  <2>1. CASE Connect(c)
    <3>1. /\ sock'[c] = "open" /\ typed'[c] = 0 /\ queue'[c] = <<>> /\ rows'[c] = <<>>
          /\ stage'[c] = "waiting" /\ text'[c] = text[c]
      BY <2>1 DEF Connect
    <3>2. text[c] = Sentinel
      BY <2>0, <2>1 DEF Connect, ConsoleOrder, OffIsQuiet, InTurn
    <3> QED BY <2>text, <3>1, <3>2 DEF ConsoleOrder, Conversation, Queued, Unended, Recorded, Sentinel
  <2>2. CASE Receive(c)
    <3>1. /\ typed'[c] = typed[c] + 1 /\ queue'[c] = Append(queue[c], typed[c] + 1)
          /\ sock'[c] = "open" /\ sock[c] = "open"
          /\ stage'[c] = stage[c] /\ text'[c] = text[c] /\ rows'[c] = rows[c]
      BY <2>2 DEF Receive, Enqueue
    <3>2. /\ Queued(queue[c], typed[c], text[c], rows[c]) /\ Unended(queue[c])
          /\ Recorded(stage[c], typed[c], text[c], rows[c]) /\ Conversation(rows[c])
      BY <2>0, <3>1 DEF ConsoleOrder
    <3>3. text[c] <= typed[c] /\ \A k \in 1 .. Len(rows[c]) : rows[c][k].text <= typed[c]
      BY <3>2 DEF Recorded
    <3>4. Queued(queue'[c], typed'[c], text[c], rows[c]) /\ Unended(queue'[c])
      BY <2>0, <3>1, <3>2, <3>3, QueueReceives
    <3>5. \A k \in 1 .. Len(rows[c]) : rows[c][k].text \in Int
      BY <2>0, TextsAreNumbers
    <3>6. text[c] \in Int
      BY <2>0, TextsAreNumbers
    <3>7. Recorded(stage[c], typed[c] + 1, text[c], rows[c])
      BY <2>0, <3>2, <3>3, <3>5, <3>6 DEF Recorded
    <3> QED BY <2>text, <3>1, <3>2, <3>4, <3>7 DEF ConsoleOrder
  <2>3. CASE TakeText(c)
    <3>1. /\ queue[c] # <<>> /\ Head(queue[c]) # Sentinel
          /\ queue'[c] = Tail(queue[c]) /\ text'[c] = Head(queue[c])
          /\ stage'[c] = "recording" /\ stage[c] = "waiting"
          /\ sock'[c] = sock[c] /\ typed'[c] = typed[c] /\ rows'[c] = rows[c]
      BY <2>3 DEF TakeText
    <3>2. sock[c] # "off"
      BY <3>1 DEF OffIsQuiet
    <3>3. /\ Queued(queue[c], typed[c], text[c], rows[c])
          /\ sock[c] = "open" => Unended(queue[c])
          /\ Recorded(stage[c], typed[c], text[c], rows[c]) /\ Conversation(rows[c])
      BY <2>0, <3>2 DEF ConsoleOrder
    <3>4. /\ Queued(Tail(queue[c]), typed[c], Head(queue[c]), rows[c])
          /\ sock[c] = "open" => Unended(Tail(queue[c]))
          /\ Head(queue[c]) <= typed[c]
          /\ \A k \in 1 .. Len(rows[c]) : rows[c][k].text < Head(queue[c])
      BY <2>0, <3>1, <3>3, QueueTakes
    <3>5. Recorded("recording", typed[c], Head(queue[c]), rows[c])
      BY <3>3, <3>4 DEF Recorded
    <3> QED BY <2>text, <3>1, <3>3, <3>4, <3>5 DEF ConsoleOrder
  <2>4. CASE TakeSentinel(c)
    <3>1. /\ queue[c] # <<>> /\ queue'[c] = Tail(queue[c]) /\ stage'[c] = "ended"
          /\ sock'[c] = sock[c] /\ typed'[c] = typed[c] /\ rows'[c] = rows[c]
          /\ text'[c] = text[c]
      BY <2>4 DEF TakeSentinel
    <3>2. ASSUME sock[c] # "off"
          PROVE  /\ Queued(Tail(queue[c]), typed[c], text[c], rows[c])
                 /\ sock[c] = "open" => Unended(Tail(queue[c]))
                 /\ Recorded("ended", typed[c], text[c], rows[c])
      <4>1. /\ Queued(queue[c], typed[c], text[c], rows[c])
            /\ sock[c] = "open" => Unended(queue[c])
            /\ Recorded(stage[c], typed[c], text[c], rows[c])
        BY <2>0, <3>2 DEF ConsoleOrder
      <4> QED BY <2>0, <3>1, <4>1, QueueTakes DEF Recorded
    <3> QED BY <2>text, <2>0, <3>1, <3>2 DEF ConsoleOrder
  <2>5. CASE RecordUser(c)
    <3>1. /\ stage[c] = "recording" /\ stage'[c] = "streaming"
          /\ rows'[c] = Append(rows[c], Row("user", text[c])) /\ sock'[c] = sock[c]
          /\ typed'[c] = typed[c] /\ queue'[c] = queue[c] /\ text'[c] = text[c]
      BY <2>5 DEF RecordUser
    <3>2. text[c] \in Texts /\ sock[c] # "off"
      BY <2>0, <3>1 DEF InTurn
    <3>3. /\ Queued(queue[c], typed[c], text[c], rows[c])
          /\ Recorded("recording", typed[c], text[c], rows[c]) /\ Conversation(rows[c])
      BY <2>0, <3>1, <3>2 DEF ConsoleOrder
    <3>4. Queued(queue[c], typed[c], text[c], rows'[c])
      BY <2>0, <3>1, <3>2, <3>3, QueueBehindRow
    <3>5. Conversation(rows'[c])
      BY <2>0, <3>1, <3>2, <3>3, PromptRecorded DEF Recorded
    <3>a. /\ rows[c] \in Seq(Rowset) /\ text[c] <= typed[c]
          /\ \A k \in 1 .. Len(rows[c]) : rows[c][k].text <= typed[c]
      BY <2>0, <3>3 DEF Recorded
    <3>b. /\ \A k \in 1 .. Len(rows'[c]) : rows'[c][k].text <= typed[c]
          /\ rows'[c] # <<>> /\ rows'[c][Len(rows'[c])] = Row("user", text[c])
      BY <3>1, <3>2, <3>a, RowAdded
    <3>6. Recorded("streaming", typed[c], text[c], rows'[c])
      BY <3>a, <3>b DEF Recorded
    <3>7. Queued(queue[c], typed[c], text[c], rows[c]) => (sock[c] = "open" => Unended(queue[c]))
      BY <2>0, <3>2 DEF ConsoleOrder
    <3>8. /\ Queued(queue'[c], typed'[c], text'[c], rows'[c])
          /\ Recorded(stage'[c], typed'[c], text'[c], rows'[c])
          /\ sock'[c] = "open" => Unended(queue'[c])
      BY <3>1, <3>3, <3>4, <3>6, <3>7
    <3> QED BY <2>text, <3>5, <3>8 DEF ConsoleOrder
  <2>6. CASE AskApproval(c) \/ Decided(c) \/ Reply(c)
    <3>1. /\ {stage[c], stage'[c]} \subseteq {"streaming", "asking", "saving"}
          /\ rows'[c] = rows[c] /\ sock'[c] = sock[c]
          /\ typed'[c] = typed[c] /\ queue'[c] = queue[c] /\ text'[c] = text[c]
      BY <2>6 DEF AskApproval, Decided, Reply
    <3> QED BY <2>text, <2>0, <3>1 DEF ConsoleOrder, Recorded
  <2>7. CASE SaveReply(c)
    <3>1. /\ stage[c] = "saving" /\ stage'[c] = "waiting"
          /\ rows'[c] = Append(rows[c], Row("assistant", text[c])) /\ sock'[c] = sock[c]
          /\ typed'[c] = typed[c] /\ queue'[c] = queue[c] /\ text'[c] = Sentinel
      BY <2>7 DEF SaveReply
    <3>2. text[c] \in Texts /\ sock[c] # "off"
      BY <2>0, <3>1 DEF InTurn
    <3>3. /\ Queued(queue[c], typed[c], text[c], rows[c])
          /\ Recorded("saving", typed[c], text[c], rows[c]) /\ Conversation(rows[c])
      BY <2>0, <3>1, <3>2 DEF ConsoleOrder
    <3>4. Queued(queue[c], typed[c], Sentinel, rows'[c])
      BY <2>0, <3>1, <3>2, <3>3, QueueBehindRow, QueueBehindNothing
    <3>5. Conversation(rows'[c])
      BY <2>0, <3>1, <3>2, <3>3, ReplyRecorded DEF Recorded
    <3>6. \A k \in 1 .. Len(rows'[c]) : rows'[c][k].text <= typed[c]
      BY <2>0, <3>1, <3>2, <3>3, RowAdded DEF Recorded
    <3>7. Recorded("waiting", typed[c], Sentinel, rows'[c])
      BY <2>0, <3>6 DEF Recorded, Sentinel
    <3> QED BY <2>text, <2>0, <3>1, <3>4, <3>5, <3>7 DEF ConsoleOrder
  <2>8. CASE TurnFails(c)
    <3>1. /\ stage'[c] = "waiting" /\ InTurn(c)
          /\ rows'[c] = rows[c] /\ sock'[c] = sock[c]
          /\ typed'[c] = typed[c] /\ queue'[c] = queue[c] /\ text'[c] = Sentinel
      BY <2>8 DEF TurnFails
    <3>2. /\ Queued(queue[c], typed[c], text[c], rows[c])
          /\ Recorded(stage[c], typed[c], text[c], rows[c])
      BY <2>0, <3>1 DEF ConsoleOrder
    <3>3. Queued(queue[c], typed[c], Sentinel, rows[c])
      BY <2>0, <3>2, QueueBehindNothing
    <3>4. Recorded("waiting", typed[c], Sentinel, rows[c])
      BY <2>0, <3>2 DEF Recorded, Sentinel
    <3> QED BY <2>text, <2>0, <3>1, <3>3, <3>4 DEF ConsoleOrder
  <2>9. CASE Disconnect(c)
    <3>1. /\ sock[c] = "open" /\ sock'[c] = "leaving"
          /\ queue'[c] = Append(queue[c], Sentinel) /\ stage'[c] = stage[c]
          /\ typed'[c] = typed[c] /\ rows'[c] = rows[c] /\ text'[c] = text[c]
      BY <2>9 DEF Disconnect
    <3>2. Queued(queue'[c], typed[c], text[c], rows[c])
      BY <2>0, <3>1, QueueCloses DEF ConsoleOrder
    <3> QED BY <2>text, <2>0, <3>1, <3>2 DEF ConsoleOrder
  <2>10. CASE RunnerEnded(c)
    BY <2>0, <2>text, <2>10 DEF RunnerEnded, ConsoleOrder
  <2>11. CASE CancelRunner(c)
    <3>1. sock'[c] = "off" /\ rows'[c] \in Cancelled(c) /\ sock[c] = "leaving"
      BY <2>11 DEF CancelRunner
    <3>2. Conversation(rows[c]) /\ Recorded(stage[c], typed[c], text[c], rows[c])
      BY <2>0, <3>1 DEF ConsoleOrder
    <3>3. CASE stage[c] = "recording"
      <4>1. Conversation(Append(rows[c], Row("user", text[c])))
        BY <2>0, <3>2, <3>3, PromptRecorded DEF Recorded, InTurn
      <4> QED BY <2>text, <3>1, <3>2, <3>3, <4>1 DEF Cancelled, ConsoleOrder
    <3>4. CASE stage[c] = "saving"
      <4>1. Conversation(Append(rows[c], Row("assistant", text[c])))
        BY <2>0, <3>2, <3>4, ReplyRecorded DEF Recorded, InTurn
      <4> QED BY <2>text, <3>1, <3>2, <3>4, <4>1 DEF Cancelled, ConsoleOrder
    <3>5. CASE stage[c] \notin {"recording", "saving"}
      BY <2>text, <3>1, <3>2, <3>5 DEF Cancelled, ConsoleOrder
    <3> QED BY <3>3, <3>4, <3>5
  <2> QED BY <2>1, <2>2, <2>3, <2>4, <2>5, <2>6, <2>7, <2>8, <2>9, <2>10, <2>11
          DEF Console, Turn
<1> QED BY <1>1, <1>2 DEF OrderInv

-----------------------------------------------------------------------------
(* The daemon                                                              *)

Flight == inFlight \in Int /\ InFlightExact

OthersOK == briefing \in BOOLEAN /\ late \subseteq Consoles \cup {"briefing"}

Inv == UInv /\ CInv /\ Flight /\ OthersOK /\ CheckedTurnsAreSafe

LEMMA TurnsAreCounted ==
  ASSUME ShapeOK
  PROVE  /\ {c \in Consoles : InTurn(c)} = Turning(stage)
         /\ Cardinality(Turning(stage)) \in Nat
<1>1. {c \in Consoles : InTurn(c)} = Turning(stage)
  BY DEF InTurn, Turning, TurnStages
<1> QED BY <1>1, Counted DEF ShapeOK

\* The count is a natural number, and zero only when nothing runs.
LEMMA CountIsTurns ==
  ASSUME ShapeOK, Flight
  PROVE  /\ inFlight \in Nat
         /\ ~(inFlight > 0) => ~briefing /\ \A c \in Consoles : ~InTurn(c)
<1>1. inFlight = Cardinality(Turning(stage)) + (IF briefing THEN 1 ELSE 0)
  BY TurnsAreCounted DEF Flight, InFlightExact
<1>2. Cardinality(Turning(stage)) \in Nat /\ IsFiniteSet(Turning(stage))
  BY Counted DEF ShapeOK
<1>3. inFlight \in Nat
  BY <1>1, <1>2
<1>4. ASSUME ~(inFlight > 0)
      PROVE  ~briefing /\ \A c \in Consoles : ~InTurn(c)
  <2>1. Cardinality(Turning(stage)) = 0 /\ ~briefing
    BY <1>1, <1>2, <1>4
  <2>2. Turning(stage) = {}
    BY <1>2, <2>1, FS_EmptySet
  <2> QED BY <2>1, <2>2, TurnsAreCounted
<1> QED BY <1>3, <1>4

LEMMA InvStart == Init => Inv
<1> SUFFICES ASSUME Init
             PROVE  Inv
  OBVIOUS
<1>1. UInv
  BY UpgradeStart DEF Init
<1>2. ShapeOK
  <2>1. 0 \in 0 .. MaxTexts
    BY ConsoleAssumption
  <2> QED BY <2>1 DEF Init, ConsoleInit, ShapeOK, Stages, Sentinel
<1>3. \A c \in Consoles : ~InTurn(c)
  BY DEF Init, ConsoleInit, InTurn
<1>4. CInv
  BY <1>2, <1>3 DEF Init, ConsoleInit, CInv, TurnHasText, OffIsQuiet
<1>5. {c \in Consoles : InTurn(c)} = {}
  BY <1>3
<1>6. Flight
  BY <1>5, FS_EmptySet DEF Init, ConsoleInit, Flight, InFlightExact
<1>7. OthersOK /\ CheckedTurnsAreSafe
  BY <1>3 DEF Init, OthersOK, CheckedTurnsAreSafe
<1> QED BY <1>1, <1>4, <1>6, <1>7 DEF Inv

\* Steps that leave a part's variables alone leave its invariant.
LEMMA UpgradeFrame ==
  ASSUME UInv, UNCHANGED upgradeVars
  PROVE  UInv'
BY UpgradeKeeps

LEMMA ConsoleFrame ==
  ASSUME CInv, UNCHANGED <<sock, typed, queue, stage, text, rows>>
  PROVE  CInv'
BY DEF CInv, ShapeOK, TurnHasText, OffIsQuiet, InTurn

LEMMA ConsoleStepKeeps ==
  ASSUME Inv, NEW c \in Consoles, ConsoleStep(c)
  PROVE  Inv'
<1> USE DEF Inv
<1>1. UInv'
  BY UpgradeFrame DEF ConsoleStep
<1>2. CInv'
  BY ConsoleShape, ConsoleText, ConsoleQuiet DEF CInv, ConsoleStep
<1>3. /\ inFlight' - inFlight = Cardinality(Turning(stage')) - Cardinality(Turning(stage))
      /\ \A d \in Consoles : InTurn(d)' => InTurn(d) \/ (TakeText(c) /\ d = c)
  BY ConsoleCounts DEF CInv, Flight, ConsoleStep
<1>4. Flight'
  <2>1. inFlight' \in Int
    <3>1. CASE inFlight' = inFlight \/ inFlight' = inFlight + 1 \/ inFlight' = inFlight - 1
      BY <3>1 DEF Flight
    <3>2. inFlight' = inFlight \/ inFlight' = inFlight + 1 \/ inFlight' = inFlight - 1
      BY DEF ConsoleStep, Console, Turn, Connect, Receive, TakeText, TakeSentinel,
             RecordUser, AskApproval, Decided, Reply, SaveReply, TurnFails, Disconnect,
             RunnerEnded, CancelRunner
    <3> QED BY <3>1, <3>2
  <2>2. ShapeOK /\ ShapeOK'
    BY <1>2 DEF CInv
  <2>3. Cardinality(Turning(stage)) \in Nat /\ Cardinality(Turning(stage')) \in Nat
    BY <2>2, Counted DEF ShapeOK
  <2>4. inFlight = Cardinality(Turning(stage)) + (IF briefing THEN 1 ELSE 0)
    BY <2>2, TurnsAreCounted DEF Flight, InFlightExact
  <2>5. briefing' = briefing
    BY DEF ConsoleStep
  <2>6. inFlight' = Cardinality(Turning(stage')) + (IF briefing' THEN 1 ELSE 0)
    BY <1>3, <2>1, <2>3, <2>4, <2>5 DEF Flight
  <2>7. {d \in Consoles : InTurn(d)'} = Turning(stage')
    BY DEF InTurn, Turning, TurnStages
  <2> QED BY <2>1, <2>6, <2>7 DEF Flight, InFlightExact
<1>5. OthersOK'
  BY DEF OthersOK, ConsoleStep
<1>6. CheckedTurnsAreSafe'
  BY <1>3 DEF CheckedTurnsAreSafe, ConsoleStep, upgradeVars
<1> QED BY <1>1, <1>2, <1>4, <1>5, <1>6

LEMMA BriefingKeeps ==
  ASSUME Inv, BriefingStarts \/ BriefingEnds
  PROVE  Inv'
<1> USE DEF Inv
<1>1. UInv'
  BY UpgradeFrame DEF BriefingStarts, BriefingEnds
<1>2. CInv'
  BY ConsoleFrame DEF BriefingStarts, BriefingEnds
<1>3. stage' = stage
  BY DEF BriefingStarts, BriefingEnds
<1>4. Flight'
  <2>1. Cardinality(Turning(stage)) \in Nat
    BY TurnsAreCounted DEF CInv
  <2>2. inFlight = Cardinality(Turning(stage)) + (IF briefing THEN 1 ELSE 0)
    BY TurnsAreCounted DEF CInv, Flight, InFlightExact
  <2>3. inFlight' = Cardinality(Turning(stage)) + (IF briefing' THEN 1 ELSE 0)
        /\ inFlight' \in Int
    BY <2>1, <2>2 DEF BriefingStarts, BriefingEnds
  <2>4. {d \in Consoles : InTurn(d)'} = Turning(stage)
    BY <1>3 DEF InTurn, Turning, TurnStages
  <2> QED BY <2>3, <2>4 DEF Flight, InFlightExact
<1>5. OthersOK'
  BY DEF OthersOK, BriefingStarts, BriefingEnds
<1>6. CheckedTurnsAreSafe'
  BY <1>3 DEF CheckedTurnsAreSafe, InTurn, BriefingStarts, BriefingEnds, upgradeVars
<1> QED BY <1>1, <1>2, <1>4, <1>5, <1>6

\* The tick goes on from its look at the count only if that was zero: then nothing
\* runs, and whatever runs afterwards has begun since.
LEMMA UpgradeStepKeeps ==
  ASSUME Inv, UpgradeStep
  PROVE  Inv'
<1> USE DEF Inv
<1>1. inFlight \in Nat /\ (~(inFlight > 0) => ~briefing /\ \A c \in Consoles : ~InTurn(c))
  BY CountIsTurns DEF CInv
<1>2. UInv'
  BY <1>1, UpgradeKeeps DEF UpgradeStep, UpgradeNext
<1>3. UNCHANGED <<sock, typed, queue, stage, text, rows, inFlight, briefing>>
  BY DEF UpgradeStep, consoleVars
<1>4. CInv'
  BY <1>3, ConsoleFrame
<1>5. Flight'
  BY <1>3 DEF Flight, InFlightExact, InTurn
<1>6. OthersOK'
  BY <1>3 DEF OthersOK, UpgradeStep
<1>7. CheckedTurnsAreSafe'
  <2>1. CASE at = "turns"
    <3>1. at' = "idle" \/ ~(inFlight > 0) \/ AsScript
      BY <2>1 DEF UpgradeStep, Tick, Begin, Fetch, CountBehind, CommandFails, CheckClean,
                  CheckTurns, ResolveTarget, CheckTag, Pull, PullFails, Reread, RereadFails,
                  TestsPass, TestsFail, Rollback, RollbackFails, Step
    <3> QED BY <1>1, <1>3, <3>1 DEF CheckedTurnsAreSafe, InTurn
  <2>2. CASE at # "turns"
    <3>1. late' = late
      BY <2>2 DEF UpgradeStep
    <3>2. at' \in {"target", "tag", "pull", "reread", "test", "rollback", "exec"}
            => at \in {"target", "tag", "pull", "reread", "test", "rollback", "exec"}
      BY <2>2 DEF UpgradeStep, Tick, Begin, Fetch, CountBehind, CommandFails, CheckClean,
                  CheckTurns, ResolveTarget, CheckTag, Pull, PullFails, Reread, RereadFails,
                  TestsPass, TestsFail, Rollback, RollbackFails, Step
    <3> QED BY <1>3, <3>1, <3>2 DEF CheckedTurnsAreSafe, InTurn
  <2> QED BY <2>1, <2>2
<1> QED BY <1>2, <1>4, <1>5, <1>6, <1>7

LEMMA RepositoryKeeps ==
  ASSUME Inv, RepositoryStep
  PROVE  Inv'
<1> USE DEF Inv
<1>1. UInv'
  BY UpgradeKeeps DEF RepositoryStep, UpgradeNext
<1>2. UNCHANGED <<sock, typed, queue, stage, text, rows, inFlight, briefing, late>>
  BY DEF RepositoryStep, consoleVars
<1>3. at' = at
  BY DEF RepositoryStep, Repository, Push, Edit, Discard
<1>4. CInv'
  BY <1>2, ConsoleFrame
<1>5. Flight' /\ OthersOK' /\ CheckedTurnsAreSafe'
  BY <1>2, <1>3 DEF Flight, InFlightExact, OthersOK, CheckedTurnsAreSafe, InTurn
<1> QED BY <1>1, <1>4, <1>5

LEMMA ReplaceKeeps ==
  ASSUME Inv, Replace
  PROVE  Inv'
<1> USE DEF Inv
<1>1. UInv'
  BY UpgradeKeeps DEF Replace, UpgradeNext
<1>2. at' = "idle"
  BY DEF Replace, Reexec, ReexecFails, Restart, Step
<1>3. \A c \in Consoles : ~InTurn(c)'
  BY DEF Replace, ConsolesDie, InTurn
<1>4. CInv'
  <2>0. ConsolesDie /\ ShapeOK
    BY DEF Replace, CInv
  <2>1. typed' \in [Consoles -> 0 .. MaxTexts]
    <3>1. 0 \in 0 .. MaxTexts
      BY ConsoleAssumption
    <3> QED BY <2>0, <3>1 DEF ConsolesDie
  <2>2. queue' \in [Consoles -> Seq(Texts \cup {Sentinel})]
    <3>1. <<>> \in Seq(Texts \cup {Sentinel})
      OBVIOUS
    <3>2. queue' = [c \in Consoles |-> <<>>]
      BY <2>0 DEF ConsolesDie
    <3> HIDE DEF Inv
    <3> QED BY <3>1, <3>2, Zenon
  <2>3. sock' \in [Consoles -> {"off", "open", "leaving"}] /\ stage' \in [Consoles -> Stages]
    BY <2>0 DEF ConsolesDie, Stages
  <2>4. text' \in [Consoles -> Texts \cup {Sentinel}]
    BY <2>0 DEF ConsolesDie
  <2>5. ShapeOK'
    BY <2>0, <2>1, <2>2, <2>3, <2>4 DEF ShapeOK, ConsolesDie
  <2> QED BY <1>3, <2>0, <2>5 DEF CInv, TurnHasText, OffIsQuiet, ConsolesDie
<1>5. Flight'
  <2>1. {c \in Consoles : InTurn(c)'} = {}
    BY <1>3
  <2>2. Cardinality({c \in Consoles : InTurn(c)'}) = 0
    BY <2>1, FS_EmptySet
  <2>3. inFlight' = 0 /\ briefing' = FALSE
    BY DEF Replace, ConsolesDie
  <2> HIDE DEF Inv
  <2> QED BY <2>2, <2>3 DEF Flight, InFlightExact
<1>6. OthersOK' /\ CheckedTurnsAreSafe'
  BY <1>2 DEF OthersOK, CheckedTurnsAreSafe, Replace
<1> QED BY <1>1, <1>4, <1>5, <1>6

LEMMA Invariance == Spec => []Inv
<1>1. Inv /\ [Next]_vars => Inv'
  <2> SUFFICES ASSUME Inv, [Next]_vars
               PROVE  Inv'
    OBVIOUS
  <2>1. CASE UNCHANGED vars
    <3>1. UInv'
      BY <2>1, UpgradeFrame DEF vars, Inv
    <3>2. CInv'
      BY <2>1, ConsoleFrame DEF vars, consoleVars, Inv
    <3>3. Flight' /\ OthersOK'
      BY <2>1 DEF vars, consoleVars, Inv, Flight, InFlightExact, OthersOK, InTurn
    <3>4. UNCHANGED <<at, stage, briefing, late>>
      BY <2>1 DEF vars, consoleVars, upgradeVars
    <3>5. CheckedTurnsAreSafe'
      BY <3>4 DEF Inv, CheckedTurnsAreSafe, InTurn
    <3> QED BY <3>1, <3>2, <3>3, <3>5 DEF Inv
  <2>2. CASE Next
    BY <2>2, ConsoleStepKeeps, BriefingKeeps, UpgradeStepKeeps, RepositoryKeeps,
       ReplaceKeeps DEF Next
  <2> QED BY <2>1, <2>2
<1> QED BY <1>1, InvStart, PTL DEF Spec

\* The histories are in order, given what else holds of the consoles.
LEMMA Ordered == Spec => []OrderInv
<1>1. Init => OrderInv
  BY DEF Init, ConsoleInit, OrderInv, ConsoleOrder, Conversation
<1>2. Inv /\ OrderInv /\ [Next]_vars => OrderInv'
  <2> SUFFICES ASSUME Inv, OrderInv, [Next]_vars
               PROVE  OrderInv'
    OBVIOUS
  <2>1. CASE UNCHANGED <<sock, typed, queue, stage, text, rows>>
    BY <2>1 DEF OrderInv, ConsoleOrder, InTurn
  <2>2. ASSUME NEW c \in Consoles, ConsoleStep(c)
        PROVE  OrderInv'
    BY <2>2, ConsoleKeepsOrder DEF Inv, CInv, ConsoleStep
  <2>3. CASE Replace
    BY <2>3 DEF Replace, ConsolesDie, OrderInv, ConsoleOrder
  <2>4. CASE BriefingStarts \/ BriefingEnds \/ UpgradeStep \/ RepositoryStep \/ UNCHANGED vars
    BY <2>1, <2>4 DEF BriefingStarts, BriefingEnds, UpgradeStep, RepositoryStep, vars,
                      consoleVars
  <2> QED BY <2>2, <2>3, <2>4 DEF Next
<1> QED BY <1>1, <1>2, Invariance, PTL DEF Spec

-----------------------------------------------------------------------------
(* Theorems                                                                *)

\* Every reachable state of the daemon is well typed.
THEOREM TypeCorrect == Spec => []TypeOK
<1>1. Inv => TypeOK
  BY CountIsTurns
     DEF Inv, UInv, CInv, ShapeOK, OthersOK, TypeOK, ConsoleTypeOK
<1> QED BY <1>1, Invariance, PTL

\* The count that defers an upgrade is exact, for any number of consoles.
THEOREM ExactCount == Spec => []InFlightExact
<1>1. Inv => InFlightExact
  BY DEF Inv, Flight
<1> QED BY <1>1, Invariance, PTL

\* A turn the tick ought to have seen is never under way once it goes on, in a daemon
\* whose module server is the one that counts the turns (self_upgrade.py, _tick).
THEOREM SafeTurns == Spec => []CheckedTurnsAreSafe
<1>1. Inv => CheckedTurnsAreSafe
  BY DEF Inv
<1> QED BY <1>1, Invariance, PTL

\* No reset overwrites edits that were there when the tick looked at the tree.
THEOREM EditsSurvive == Spec => []SeenEditsSurvive
<1>1. Inv => SeenEditsSurvive
  BY DEF Inv, UInv, TreeInv, SeenEditsSurvive
<1> QED BY <1>1, Invariance, PTL

\* Without a failing command or an untimely restart the process is always a commit
\* that passed its tests, however many commits there are.
THEOREM KnownGood == Spec => []RunsKnownGood
<1>1. Inv => RunsKnownGood
  BY DEF Inv, UInv, GoodInv, Sound, RunsKnownGood
<1> QED BY <1>1, Invariance, PTL

\* Where signed tags are required, the commit that is pulled carries one or is later
\* than one that does.
THEOREM Tagged == Spec => []TagHonoured
<1>1. Inv => TagHonoured
  BY DEF Inv, UInv, TagInv
<1> QED BY <1>1, Invariance, PTL

\* A history session of a console reads as a conversation, whatever turns fail, whatever
\* connections are lost with messages queued, and whenever the process is replaced.
THEOREM InOrder == Spec => []HistoryInOrder
<1>1. OrderInv => HistoryInOrder
  BY DEF OrderInv, ConsoleOrder, Conversation, HistoryInOrder
<1> QED BY <1>1, Ordered, PTL
=============================================================================
