----------------------------- MODULE TelegramBot -----------------------------
(***************************************************************************)
(* The Telegram bot (adapters/telegram_bot.py), a process of its own with  *)
(* its own approval gate.  python-telegram-bot reads updates in order and, *)
(* unless told otherwise, hands out the next one when the handler of the   *)
(* one before has returned.  Distillations are tasks beside the updates    *)
(* and can call tools, for the user whose turn started them.               *)
(*                                                                         *)
(* The gate is known here by its request: asked, shown, clicked or timed   *)
(* out (ApprovalGate has the rest of it).  The requests of soul_review are *)
(* handled by copies of the same code, and are alike here.  Voice notes    *)
(* are texts that have to be transcribed and are answered aloud.  A        *)
(* decision is clicked by the user it was sent to.                         *)
(***************************************************************************)
EXTENDS Integers, Sequences, FiniteSets

CONSTANTS
  Users,      \* allowed users
  Sessions,   \* iTerm2 sessions
  EveryK,     \* DISTILL_EVERY_K
  MaxUpdates, \* bound: updates the users send, but for one decision on each request
  MaxAsks,    \* bound: tool calls that need an approval
  MaxTroubles \* bound: failing calls to Telegram, iTerm2, the database or the model

ASSUME BotAssumption ==
  /\ IsFiniteSet(Users) /\ IsFiniteSet(Sessions)
  /\ EveryK \in Nat \ {0}
  /\ {MaxUpdates, MaxAsks, MaxTroubles} \subseteq Nat

Agent  == "agent"  \* where a text goes that is not a command
NoSess == "none"
Turn   == 0        \* the asker of a request: the update's turn, or a distillation

VARIABLES
  inbox,    \* updates not read yet
  update,   \* the update that was read last
  stage,    \* its handler: "idle", "begun", "transcribed", "thinking", "asking" or "speaking"
  chosen,   \* _user_session_state
  sessions, \* users in _chat_sessions
  rows,     \* users in _history_ids
  counts,   \* turn_counter
  jobs,     \* distillation tasks
  reqs,     \* the gate's requests
  owner,    \* _pending_owner: requests that have one
  arrived, troubles,
  served    \* history: what became of clicks on sessions and of texts

vars == <<inbox, update, stage, chosen, sessions, rows, counts, jobs, reqs, owner,
          arrived, troubles, served>>

botVars == <<chosen, sessions, rows, counts>>

Requests == 1 .. Len(reqs)
Jobs     == 1 .. Len(jobs)
Nothing  == [sess |-> NoSess, awaiting |-> FALSE]
NoUpdate == [kind |-> "none"]

Init ==
  /\ inbox = <<>> /\ update = NoUpdate /\ stage = "idle"
  /\ chosen = [u \in Users |-> Nothing]
  /\ sessions = {} /\ rows = {}
  /\ counts = [u \in Users |-> 0]
  /\ jobs = <<>> /\ reqs = <<>> /\ owner = {}
  /\ arrived = 0 /\ troubles = 0
  /\ served = <<>>

Trouble   == troubles < MaxTroubles /\ troubles' = troubles + 1
NoTrouble == UNCHANGED troubles

-----------------------------------------------------------------------------
(* The users                                                               *)

Arrives(m) == inbox' = Append(inbox, m)

Send(m) ==
  /\ arrived < MaxUpdates
  /\ arrived' = arrived + 1
  /\ Arrives(m)

Says(u) ==
  /\ \E k \in {"text", "voice", "command"} : Send([kind |-> k, user |-> u])
  /\ UNCHANGED <<update, stage, botVars, jobs, reqs, owner, troubles, served>>

\* Buttons of any message of the bot that is still in the chat.
ClicksSession(u) ==
  /\ \/ \E k \in {"view", "cmd", "key"}, s \in Sessions : Send([kind |-> k, user |-> u, sess |-> s])
     \/ Send([kind |-> "back", user |-> u])
  /\ UNCHANGED <<update, stage, botVars, jobs, reqs, owner, troubles, served>>

\* A click on the keyboard of a request: in time if the gate still waits for it, and
\* delayed if the bot has something else to handle first.
ClicksDecision(r) ==
  /\ reqs[r].shown /\ reqs[r].click = "none"
  /\ \E ok \in BOOLEAN :
       Arrives([kind |-> "tool", user |-> reqs[r].user, req |-> r, ok |-> ok])
  /\ reqs' = [reqs EXCEPT ![r].click = IF reqs[r].fut = "waiting" THEN "in_time" ELSE "late",
                          ![r].delayed = stage # "idle" \/ inbox # <<>>]
  /\ UNCHANGED <<update, stage, botVars, jobs, owner, arrived, troubles, served>>

-----------------------------------------------------------------------------
(* Commands, and clicks on sessions                                        *)

Fetch ==
  /\ inbox # <<>> /\ stage = "idle"
  /\ update' = Head(inbox)
  /\ inbox'  = Tail(inbox)
  /\ stage'  = "begun"
  /\ UNCHANGED <<botVars, jobs, reqs, owner, arrived, troubles, served>>

Clicks(m, r) == m.kind = "tool" /\ m.req = r

Handling(stg, kind) == stage = stg /\ update.kind = kind

\* What every handler does first fails: a click is not acknowledged, "typing" not shown.
Unheard ==
  /\ stage = "begun" /\ Trouble
  /\ update.kind = "text" => ~chosen[update.user].awaiting
  /\ stage' = "idle"
  /\ reqs' = IF update.kind = "tool" THEN [reqs EXCEPT ![update.req].delayed = TRUE] ELSE reqs
  /\ UNCHANGED <<inbox, update, botVars, jobs, owner, arrived, served>>

Served(what, to) == Append(served, [user |-> update.user, kind |-> what, to |-> to])

Choose(u, s, waits) == chosen' = [chosen EXCEPT ![u] = [sess |-> s, awaiting |-> waits]]

\* "view:": the choice is replaced once the sessions have been listed.
ViewSession ==
  /\ Handling("begun", "view")
  /\ stage' = "idle"
  /\ \/ Choose(update.user, update.sess, FALSE) /\ NoTrouble
        /\ served' = Served("view", update.sess)
     \/ Trouble /\ UNCHANGED <<chosen, served>>
  /\ UNCHANGED <<inbox, update, sessions, rows, counts, jobs, reqs, owner, arrived>>

\* Mutant: what was chosen before wins over what was clicked.
CommandForOld(old, s) ==
  [sess |-> IF old.sess = NoSess THEN s ELSE old.sess, awaiting |-> TRUE]

CommandFor(old, s) == [sess |-> s, awaiting |-> TRUE]

\* "cmd:": the next message is for that session, also when saying so fails.
AskCommand ==
  /\ Handling("begun", "cmd")
  /\ stage'  = "idle"
  /\ chosen' = [chosen EXCEPT ![update.user] = CommandFor(@, update.sess)]
  /\ served' = Served("cmd", update.sess)
  /\ UNCHANGED <<inbox, update, sessions, rows, counts, jobs, reqs, owner, arrived,
                 troubles>>

\* "allow:" and "deny:": a "y" or "n" goes to the session of the button, and what the
\* next text is for stays as it was.
PressKey ==
  /\ Handling("begun", "key")
  /\ stage' = "idle"
  /\ UNCHANGED <<inbox, update, botVars, jobs, reqs, owner, arrived, troubles, served>>

\* Commands show something, and leave a session that waits for its text waiting.
Command ==
  /\ Handling("begun", "command")
  /\ stage' = "idle"
  /\ UNCHANGED <<inbox, update, botVars, jobs, reqs, owner, arrived, troubles, served>>

BackToList ==
  /\ Handling("begun", "back")
  /\ stage'  = "idle"
  /\ chosen' = [chosen EXCEPT ![update.user] = Nothing]
  /\ served' = Served("back", NoSess)
  /\ UNCHANGED <<inbox, update, sessions, rows, counts, jobs, reqs, owner, arrived,
                 troubles>>

-----------------------------------------------------------------------------
(* Texts and voice notes                                                   *)

\* handle_voice(): downloading or transcribing may fail, or nothing was said.
Transcribe ==
  /\ Handling("begun", "voice")
  /\ \/ stage' = "transcribed" /\ NoTrouble
     \/ stage' = "idle" /\ Trouble
  /\ UNCHANGED <<inbox, update, botVars, jobs, reqs, owner, arrived, served>>

\* After "cmd:" a transcript is to go to the terminal like a text, but it is assigned to
\* the update's message, which the library forbids: the handler ends with an exception.
VoiceCommand ==
  /\ Handling("transcribed", "voice") /\ chosen[update.user].awaiting
  /\ stage' = "idle"
  /\ UNCHANGED <<inbox, update, botVars, jobs, reqs, owner, arrived, troubles, served>>

\* handle_message() after "cmd:": the text goes to the terminal, once, or is lost.
SendCommand ==
  LET u == update.user IN
  /\ Handling("begun", "text") /\ chosen[u].awaiting
  /\ stage'  = "idle"
  /\ chosen' = [chosen EXCEPT ![u].awaiting = FALSE]
  /\ served' = Served("text", chosen[u].sess)
  /\ NoTrouble \/ Trouble
  /\ UNCHANGED <<inbox, update, sessions, rows, counts, jobs, reqs, owner, arrived>>

\* _agent_reply(): the user's first turn makes a ChatSession and then a history; when
\* that fails, the user goes on without one.
StartTurn ==
  LET u == update.user IN
  /\ Handling("begun", "text") \/ Handling("transcribed", "voice")
  /\ ~chosen[u].awaiting
  /\ served' = Served("text", Agent)
  /\ \/ /\ stage' = "thinking" /\ NoTrouble
        /\ sessions' = sessions \cup {u}
        /\ rows' = IF u \in sessions THEN rows ELSE rows \cup {u}
     \/ /\ stage' = "idle" /\ Trouble
        /\ sessions' \in {sessions, sessions \cup {u}} /\ UNCHANGED rows
  /\ UNCHANGED <<inbox, update, chosen, counts, jobs, reqs, owner, arrived>>

\* The reply is recorded and the turn counted, where there is a history; every K turns
\* a distillation starts.  Then the reply is sent.
TurnEnds ==
  LET u == update.user IN
  /\ stage = "thinking"
  /\ stage' = IF update.kind = "voice" THEN "speaking" ELSE "idle"
  /\ counts' = IF u \in rows THEN [counts EXCEPT ![u] = (@ + 1) % EveryK] ELSE counts
  /\ jobs'   = IF u \in rows /\ counts'[u] = 0
               THEN Append(jobs, [user |-> u, at |-> "thinking"]) ELSE jobs
  /\ UNCHANGED <<inbox, update, chosen, sessions, rows, reqs, owner, arrived, troubles,
                 served>>

\* The reply to a voice note is spoken, segment after segment, before its handler ends.
ReplySpoken ==
  /\ stage = "speaking"
  /\ stage' = "idle"
  /\ UNCHANGED <<inbox, update, botVars, jobs, reqs, owner, arrived, troubles, served>>

TurnFails ==
  /\ stage = "thinking" /\ Trouble
  /\ stage' = "idle"
  /\ UNCHANGED <<inbox, update, botVars, jobs, reqs, owner, arrived, served>>

JobEnds(j) ==
  /\ jobs[j].at = "thinking"
  /\ jobs' = [jobs EXCEPT ![j].at = "over"]
  /\ UNCHANGED <<inbox, update, stage, botVars, reqs, owner, arrived, troubles, served>>

-----------------------------------------------------------------------------
(* Approvals                                                               *)

\* A tool call of the turn or of a distillation waits at the gate; the owner is bound
\* before the keyboard is sent.
Ask(by, u) ==
  /\ Len(reqs) < MaxAsks
  /\ reqs'  = Append(reqs, [user |-> u, by |-> by, fut |-> "sending", shown |-> FALSE,
                            click |-> "none", delayed |-> FALSE])
  /\ owner' = owner \cup {Len(reqs')}

TurnAsks ==
  /\ stage = "thinking" /\ Ask(Turn, update.user)
  /\ stage' = "asking"
  /\ UNCHANGED <<inbox, update, botVars, jobs, arrived, troubles, served>>

JobAsks(j) ==
  /\ jobs[j].at = "thinking" /\ Ask(j, jobs[j].user)
  /\ jobs' = [jobs EXCEPT ![j].at = "asking"]
  /\ UNCHANGED <<inbox, update, stage, botVars, arrived, troubles, served>>

\* The keyboard is sent.  After an error the owner is forgotten; the message may have
\* reached the user all the same.
ShowRequest(r) ==
  /\ reqs[r].fut = "sending"
  /\ \/ /\ reqs' = [reqs EXCEPT ![r].fut = "waiting", ![r].shown = TRUE]
        /\ NoTrouble /\ UNCHANGED owner
     \/ /\ \E b \in BOOLEAN : reqs' = [reqs EXCEPT ![r].fut = "waiting", ![r].shown = b]
        /\ Trouble /\ owner' = owner \ {r}
  /\ UNCHANGED <<inbox, update, stage, botVars, jobs, arrived, served>>


TimedOut(r) == reqs[r].fut = "waiting"

\* The click on a request is not read, or not acknowledged.
Unread(r) ==
  \/ \E i \in DOMAIN inbox : Clicks(inbox[i], r)
  \/ stage = "begun" /\ Clicks(update, r)

\* 30 seconds later; a click not read or not acknowledged by then is delayed, too.
Expire(r) ==
  /\ TimedOut(r)
  /\ reqs' = [reqs EXCEPT ![r].fut = "expired",
                          ![r].delayed = @ \/ Unread(r)]
  /\ UNCHANGED <<inbox, update, stage, botVars, jobs, owner, arrived, troubles, served>>

\* Mutant: a request without an owner is nobody's.
RefusesUnowned(r, u) == r \notin owner \/ reqs[r].user # u

\* The click of another user than the owner.
Refuses(r, u) == r \in owner /\ reqs[r].user # u

\* resolve_decision(), and what the gate is stepped with after it: the answer, or, if the
\* timer falls due in between, the timeout (TimerFires of ApprovalGate).
Resolve(r, ok) ==
  IF reqs[r].fut # "waiting" THEN UNCHANGED reqs
  ELSE \/ reqs' = [reqs EXCEPT ![r].fut = IF ok THEN "yes" ELSE "no"]
       \/ reqs' = [reqs EXCEPT ![r].fut = "expired", ![r].delayed = TRUE]

\* "tool_ok:" and "tool_no:", after query.answer().
HandleDecision ==
  LET r == update.req IN
  /\ Handling("begun", "tool")
  /\ stage' = "idle"
  /\ IF Refuses(r, update.user) THEN UNCHANGED <<reqs, owner>>
     ELSE owner' = owner \ {r} /\ Resolve(r, update.ok)
  /\ UNCHANGED <<inbox, update, botVars, jobs, arrived, troubles, served>>

Answered(by) ==
  LET own == {r \in Requests : reqs[r].by = by} IN
  \A r \in own : reqs[r].fut \notin {"sending", "waiting"}

TurnResumes ==
  /\ stage = "asking" /\ Answered(Turn)
  /\ stage' = "thinking"
  /\ UNCHANGED <<inbox, update, botVars, jobs, reqs, owner, arrived, troubles, served>>

JobResumes(j) ==
  /\ jobs[j].at = "asking" /\ Answered(j)
  /\ jobs' = [jobs EXCEPT ![j].at = "thinking"]
  /\ UNCHANGED <<inbox, update, stage, botVars, reqs, owner, arrived, troubles, served>>

-----------------------------------------------------------------------------

Clicked == ViewSession \/ AskCommand \/ PressKey \/ BackToList \/ HandleDecision
Spoken  == Transcribe \/ VoiceCommand \/ SendCommand \/ StartTurn
Handle  == Command \/ Clicked \/ Spoken \/ TurnResumes \/ TurnEnds \/ ReplySpoken

Distilling(j) == JobEnds(j) \/ JobAsks(j) \/ JobResumes(j)

Next ==
  \/ \E u \in Users : Says(u) \/ ClicksSession(u)
  \/ Fetch \/ Unheard \/ Handle \/ TurnFails \/ TurnAsks
  \/ \E j \in Jobs : Distilling(j)
  \/ \E r \in Requests : ClicksDecision(r) \/ ShowRequest(r) \/ Expire(r)

\* What a handler does without waiting for the model, speech or iTerm2: calls of the bot
\* to Telegram have a time limit, and the database answers or raises.
OwnStep == AskCommand \/ HandleDecision \/ VoiceCommand \/ StartTurn \/ TurnResumes

\* The handler is in a call that nothing bounds: the model's turn, a transcription, the
\* synthesis of a spoken reply, or a call to iTerm2.
OutsideCall ==
  \/ stage \in {"thinking", "speaking"}
  \/ /\ stage = "begun"
     /\ \/ update.kind \in {"voice", "view", "key", "back", "command"}
        \/ update.kind = "text" /\ chosen[update.user].awaiting

\* The event loop goes on and timers fire.  Of calls without a time limit nothing is
\* assumed.
Fairness ==
  /\ WF_vars(Fetch) /\ WF_vars(OwnStep)
  /\ \A r \in 1 .. MaxAsks :
       WF_vars(r \in Requests /\ ShowRequest(r)) /\ WF_vars(r \in Requests /\ Expire(r))

FairSpec == Init /\ [][Next]_vars /\ Fairness

-----------------------------------------------------------------------------

\* What a user had done when n things had been served, and where a text belongs then.
Own(u, n) == {j \in 1 .. n : served[j].user = u}
Latest(S) == CHOOSE j \in S : \A k \in S : k <= j
Meant(u, n) ==
  IF Own(u, n) # {} /\ served[Latest(Own(u, n))].kind = "cmd"
  THEN served[Latest(Own(u, n))].to
  ELSE Agent

\* A text goes to a terminal if and only if its author's last say about sessions was to
\* type a command into that one, and no text has gone there since.
CommandGoesWhereChosen ==
  \A i \in DOMAIN served :
    served[i].kind = "text" => served[i].to = Meant(served[i].user, i - 1)

\* A decision clicked while the gate waits for it decides, unless it had to wait for the
\* bot to be done with something else, its acknowledgement failed or took too long, or the
\* time was up as it was being handled.
ClickInTimeCounts ==
  \A r \in Requests :
    reqs[r].click = "in_time" /\ ~reqs[r].delayed => reqs[r].fut # "expired"

\* "Every modal click came back stale" is said to have been the fault of the console
\* alone: on Telegram a click made in time is not answered as too late.
ClickIsNotStale ==
  \A r \in Requests : reqs[r].click = "in_time" => reqs[r].fut # "expired"

=============================================================================
