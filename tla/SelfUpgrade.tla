---------------------------- MODULE SelfUpgrade -----------------------------
(***************************************************************************)
(* self_upgrade.py: one tick checks, pulls, tests and re-executes, with an *)
(* await after every command.  Commits of main are numbered; the daemon is *)
(* started at commit 0.  A tick is its program counter, named for the      *)
(* command it is about to run.                                             *)
(***************************************************************************)
EXTENDS Integers, FiniteSets

CONSTANTS
  MaxCommits, \* bound: commits pushed to main
  MaxFaults,  \* bound: commands that fail, and restarts of the process
  RequireTag, \* ROBOOT_UPGRADE_REQUIRE_SIGNED_TAG
  AsScript,   \* the daemon was started as "python server.py", not by app.py
  Signed      \* commits with a release tag that verifies

ASSUME UpgradeAssumption ==
  /\ MaxCommits \in Nat /\ MaxFaults \in Nat
  /\ RequireTag \in BOOLEAN /\ AsScript \in BOOLEAN
  /\ Signed \subseteq 0 .. MaxCommits

Commits == 0 .. MaxCommits

VARIABLES
  at,       \* "idle" or the command the tick runs next
  origin,   \* main at the remote
  fetched,  \* origin/main
  head,     \* HEAD
  edited,   \* the working tree has local edits (soul.md is one of its files)
  old,      \* old_sha
  target,   \* remote_head, when a signed tag is required
  running,  \* the commit the process was started from
  verified, \* commits that are known good: the first, and those that passed
  known,    \* history: the edits were there when the tick looked
  wiped,    \* history: edits the tick had seen were overwritten
  torn,     \* history: "command" or "restart", what failed with a pulled commit
            \* untested in the tree; "no" if nothing did
  faults    \* commands that failed and restarts so far

repoVars    == <<origin, fetched, head, edited>>
upgradeVars == <<at, repoVars, old, target, running, verified, known, wiped, torn, faults>>

UpgradeInit ==
  /\ at = "idle"
  /\ origin = 0 /\ fetched = 0 /\ head = 0 /\ edited = FALSE
  /\ old = 0 /\ target = 0 /\ running = 0
  /\ verified = {0}
  /\ known = FALSE /\ wiped = FALSE /\ torn = "no"
  /\ faults = 0

-----------------------------------------------------------------------------
(* The repository                                                          *)

Push ==
  /\ origin < MaxCommits
  /\ origin' = origin + 1
  /\ UNCHANGED <<at, fetched, head, edited, old, target, running, verified, known,
                 wiped, torn, faults>>

\* A file changes: an editor, or a write to soul.md by a tool or a distillation.
Edit ==
  /\ ~edited
  /\ edited' = TRUE
  /\ known'  = (at \in {"fetch", "behind", "status"})
  /\ UNCHANGED <<at, origin, fetched, head, old, target, running, verified, wiped,
                 torn, faults>>

\* The edits are undone or stashed.
Discard ==
  /\ edited
  /\ edited' = FALSE
  /\ known'  = FALSE
  /\ UNCHANGED <<at, origin, fetched, head, old, target, running, verified, wiped,
                 torn, faults>>

-----------------------------------------------------------------------------
(* _tick()                                                                 *)

Step(from, to) == at = from /\ at' = to

Fault == faults < MaxFaults /\ faults' = faults + 1

Begin ==
  /\ Step("idle", "fetch")
  /\ old'   = head
  /\ known' = edited
  /\ UNCHANGED <<repoVars, target, running, verified, wiped, torn, faults>>

Fetch ==
  /\ Step("fetch", "behind")
  /\ fetched' = origin
  /\ UNCHANGED <<origin, head, edited, old, target, running, verified, known, wiped,
                 torn, faults>>

CountBehind ==
  /\ at = "behind"
  /\ at' = IF fetched > head THEN "status" ELSE "idle"
  /\ UNCHANGED <<repoVars, old, target, running, verified, known, wiped, torn, faults>>

\* Mutant: if git cannot tell, the tree is taken to be clean.
CommandFailsOpen ==
  /\ at \in {"fetch", "behind", "status", "target", "tag"}
  /\ Fault
  /\ at' = IF at = "status" THEN "turns" ELSE "idle"
  /\ UNCHANGED <<repoVars, old, target, running, verified, known, wiped, torn>>

\* A command before the pull fails: the tick ends (a tree that cannot be inspected
\* counts as edited).
CommandFails ==
  /\ at \in {"fetch", "behind", "status", "target", "tag"}
  /\ Fault
  /\ at' = "idle"
  /\ UNCHANGED <<repoVars, old, target, running, verified, known, wiped, torn>>

CheckClean ==
  /\ at = "status"
  /\ at' = IF edited THEN "idle" ELSE "turns"
  /\ UNCHANGED <<repoVars, old, target, running, verified, known, wiped, torn, faults>>

\* Mutant: the count is not looked at.
CheckNoTurns(turns) ==
  /\ at = "turns"
  /\ at' = IF RequireTag THEN "target" ELSE "pull"
  /\ UNCHANGED <<repoVars, old, target, running, verified, known, wiped, torn, faults>>

\* server.get_in_flight_count(): of the module that "import server" gives.  In a daemon
\* started as a script the module that counts is __main__, and the import loads the file
\* once more: what it counts, or its failure to load, is zero.
CheckTurns(turns) ==
  /\ at = "turns"
  /\ at' = IF turns > 0 /\ ~AsScript THEN "idle" ELSE IF RequireTag THEN "target" ELSE "pull"
  /\ UNCHANGED <<repoVars, old, target, running, verified, known, wiped, torn, faults>>

ResolveTarget ==
  /\ Step("target", "tag")
  /\ target' = fetched
  /\ UNCHANGED <<repoVars, old, running, verified, known, wiped, torn, faults>>

\* Mutant: a tag is enough, signed or not.
TagVerifiesAlways(commit) == commit \in Commits

\* _find_verified_tag_at()
TagVerifies(commit) == commit \in Signed

CheckTag ==
  /\ at = "tag"
  /\ at' = IF TagVerifies(target) THEN "pull" ELSE "idle"
  /\ UNCHANGED <<repoVars, old, target, running, verified, known, wiped, torn, faults>>

\* git pull fetches again: it takes main as it is now.
Pull ==
  /\ Step("pull", "reread")
  /\ fetched' = origin
  /\ head'    = origin
  /\ UNCHANGED <<origin, edited, old, target, running, verified, known, wiped, torn,
                 faults>>

\* Edits that are in the way, or a command that is killed by its timeout before or
\* after the merge.
PullFails ==
  /\ at = "pull"
  /\ at' = "idle"
  /\ \/ edited /\ UNCHANGED <<head, torn, faults>>
     \/ /\ Fault
        /\ head' \in {head, origin}
        /\ torn' = IF head' = head THEN torn ELSE "command"
  /\ UNCHANGED <<origin, fetched, edited, old, target, running, verified, known, wiped>>

Reread ==
  /\ at = "reread"
  /\ at' = IF head = old THEN "idle" ELSE "test"
  /\ UNCHANGED <<repoVars, old, target, running, verified, known, wiped, torn, faults>>

RereadFails ==
  /\ Step("reread", "idle")
  /\ Fault
  /\ torn' = "command"
  /\ UNCHANGED <<repoVars, old, target, running, verified, known, wiped>>

TestsPass ==
  /\ Step("test", "exec")
  /\ verified' = verified \cup {head}
  /\ UNCHANGED <<repoVars, old, target, running, known, wiped, torn, faults>>

\* Mutant: the old process goes on with the new files.
TestsFailKeep ==
  /\ Step("test", "idle")
  /\ UNCHANGED <<repoVars, old, target, running, verified, known, wiped, torn, faults>>

\* Failing tests, or the 60 seconds they are given.
TestsFail ==
  /\ Step("test", "rollback")
  /\ UNCHANGED <<repoVars, old, target, running, verified, known, wiped, torn, faults>>

\* git reset --hard old_sha
Overwrite ==
  /\ head'   = old
  /\ wiped'  = (wiped \/ (edited /\ known))
  /\ edited' = FALSE
  /\ known'  = FALSE

Rollback ==
  /\ Step("rollback", "idle")
  /\ Overwrite
  /\ UNCHANGED <<origin, fetched, old, target, running, verified, torn, faults>>

RollbackFails ==
  /\ Step("rollback", "idle")
  /\ Fault
  /\ torn' = "command"
  /\ UNCHANGED <<repoVars, old, target, running, verified, known, wiped>>

\* The process becomes the one HEAD describes: os.execv(), or a supervisor's restart.
Reexec ==
  /\ at = "exec"
  /\ at' = "idle"
  /\ running' = head
  /\ UNCHANGED <<repoVars, old, target, verified, known, wiped, torn, faults>>

\* os.execv() raises: reset and exit; whoever supervises the daemon restarts it.
ReexecFails ==
  /\ Step("exec", "idle")
  /\ Fault
  /\ Overwrite
  /\ running' = old
  /\ UNCHANGED <<origin, fetched, old, target, verified, torn>>

\* The process is killed and started again.
Restart ==
  /\ Fault
  /\ at' = "idle"
  /\ running' = head
  /\ torn' = IF torn = "no" /\ at \in {"reread", "test", "rollback"} THEN "restart" ELSE torn
  /\ UNCHANGED <<repoVars, old, target, verified, known, wiped>>

-----------------------------------------------------------------------------

Repository == Push \/ Edit \/ Discard

Tick(turns) ==
  \/ Begin \/ Fetch \/ CountBehind \/ CommandFails \/ CheckClean \/ CheckTurns(turns)
  \/ ResolveTarget \/ CheckTag \/ Pull \/ PullFails \/ Reread \/ RereadFails
  \/ TestsPass \/ TestsFail \/ Rollback \/ RollbackFails

FlagsOK == edited \in BOOLEAN /\ known \in BOOLEAN /\ wiped \in BOOLEAN

PlacesOK ==
  /\ at \in {"idle", "fetch", "behind", "status", "turns", "target", "tag", "pull",
             "reread", "test", "rollback", "exec"}
  /\ origin \in Commits /\ fetched \in Commits /\ head \in Commits
  /\ old \in Commits /\ target \in Commits /\ running \in Commits
  /\ verified \subseteq Commits
  /\ torn \in {"no", "command", "restart"}
  /\ faults \in 0 .. MaxFaults

UpgradeTypeOK == FlagsOK /\ PlacesOK
=============================================================================
