----------------------------- MODULE WebConsole -----------------------------
(***************************************************************************)
(* The web console's connection: the /ws endpoint of server.py with its    *)
(* reader, its queue and its runner task, and one chat turn of             *)
(* chat_handler.py.  Everything runs on one event loop; a step is what     *)
(* happens between two awaits.                                             *)
(***************************************************************************)
EXTENDS Integers, Sequences, FiniteSets

CONSTANTS
  Consoles, \* browser tabs
  MaxTexts  \* bound: messages typed on one connection

ASSUME ConsoleAssumption == IsFiniteSet(Consoles) /\ MaxTexts \in Nat

Texts    == 1 .. MaxTexts
Sentinel == 0
Stages   == {"none", "waiting", "recording", "streaming", "asking", "saving", "ended"}

VARIABLES
  sock,    \* "off", "open", or "leaving": the endpoint awaits its runner
  typed,   \* messages received on the connection
  queue,   \* chat_queue
  stage,   \* chat_runner(): where its task is suspended
  text,    \* user_text of the turn; Sentinel between turns
  rows,    \* messages of the connection's history session
  inFlight \* _chat_in_flight

consoleVars == <<sock, typed, queue, stage, text, rows, inFlight>>

InTurn(c) == stage[c] \in {"recording", "streaming", "asking", "saving"}

ConsoleInit ==
  /\ sock     = [c \in Consoles |-> "off"]
  /\ typed    = [c \in Consoles |-> 0]
  /\ queue    = [c \in Consoles |-> <<>>]
  /\ stage    = [c \in Consoles |-> "none"]
  /\ text     = [c \in Consoles |-> Sentinel]
  /\ rows     = [c \in Consoles |-> <<>>]
  /\ inFlight = 0

\* A new connection has a history session, a queue and a runner of its own.
Connect(c) ==
  /\ sock[c] = "off"
  /\ sock'  = [sock EXCEPT ![c] = "open"]
  /\ typed' = [typed EXCEPT ![c] = 0]
  /\ queue' = [queue EXCEPT ![c] = <<>>]
  /\ stage' = [stage EXCEPT ![c] = "waiting"]
  /\ rows'  = [rows EXCEPT ![c] = <<>>]
  /\ UNCHANGED <<text, inFlight>>

\* Mutant: the latest message is served first.
EnqueueFirst(q, n) == <<n>> \o q

Enqueue(q, n) == Append(q, n)

\* The reader queues a message; it never waits for a turn.
Receive(c) ==
  /\ sock[c] = "open"
  /\ typed[c] < MaxTexts
  /\ typed' = [typed EXCEPT ![c] = @ + 1]
  /\ queue' = [queue EXCEPT ![c] = Enqueue(@, typed'[c])]
  /\ UNCHANGED <<sock, stage, text, rows, inFlight>>

\* The runner takes the next message, or ends at the sentinel.
TakeText(c) ==
  /\ stage[c] = "waiting"
  /\ queue[c] # <<>>
  /\ Head(queue[c]) # Sentinel
  /\ queue'    = [queue EXCEPT ![c] = Tail(@)]
  /\ text'     = [text EXCEPT ![c] = Head(queue[c])]
  /\ stage'    = [stage EXCEPT ![c] = "recording"]
  /\ inFlight' = inFlight + 1
  /\ UNCHANGED <<sock, typed, rows>>

TakeSentinel(c) ==
  /\ stage[c] = "waiting"
  /\ queue[c] # <<>>
  /\ Head(queue[c]) = Sentinel
  /\ queue' = [queue EXCEPT ![c] = Tail(@)]
  /\ stage' = [stage EXCEPT ![c] = "ended"]
  /\ UNCHANGED <<sock, typed, text, rows, inFlight>>

-----------------------------------------------------------------------------
(* handle_chat()                                                           *)

Row(who, n) == [role |-> who, text |-> n]

RecordUser(c) ==
  /\ stage[c] = "recording"
  /\ rows'  = [rows EXCEPT ![c] = Append(@, Row("user", text[c]))]
  /\ stage' = [stage EXCEPT ![c] = "streaming"]
  /\ UNCHANGED <<sock, typed, queue, text, inFlight>>

\* A tool call waits at the approval gate, and goes on when it is decided.
AskApproval(c) ==
  /\ stage[c] = "streaming"
  /\ stage' = [stage EXCEPT ![c] = "asking"]
  /\ UNCHANGED <<sock, typed, queue, text, rows, inFlight>>

Decided(c) ==
  /\ stage[c] = "asking"
  /\ stage' = [stage EXCEPT ![c] = "streaming"]
  /\ UNCHANGED <<sock, typed, queue, text, rows, inFlight>>

\* The stream is complete and the "done" frame sent.
Reply(c) ==
  /\ stage[c] = "streaming"
  /\ stage' = [stage EXCEPT ![c] = "saving"]
  /\ UNCHANGED <<sock, typed, queue, text, rows, inFlight>>

\* The reply is recorded; the runner's finally clause ends the turn.
SaveReply(c) ==
  /\ stage[c] = "saving"
  /\ rows'     = [rows EXCEPT ![c] = Append(@, Row("assistant", text[c]))]
  /\ stage'    = [stage EXCEPT ![c] = "waiting"]
  /\ text'     = [text EXCEPT ![c] = Sentinel]
  /\ inFlight' = inFlight - 1
  /\ UNCHANGED <<sock, typed, queue>>

\* Mutant: the runner takes the next message without the finally clause.
TurnFailsUncounted(c) ==
  /\ InTurn(c)
  /\ stage' = [stage EXCEPT ![c] = "waiting"]
  /\ text'  = [text EXCEPT ![c] = Sentinel]
  /\ UNCHANGED <<sock, typed, queue, rows, inFlight>>

\* The model, the database or a send to a closed connection raises.
TurnFails(c) ==
  /\ InTurn(c)
  /\ stage'    = [stage EXCEPT ![c] = "waiting"]
  /\ text'     = [text EXCEPT ![c] = Sentinel]
  /\ inFlight' = inFlight - 1
  /\ UNCHANGED <<sock, typed, queue, rows>>

-----------------------------------------------------------------------------
(* The end of the connection                                               *)

\* The reader's finally clause: the sentinel, and two seconds for the runner.
Disconnect(c) ==
  /\ sock[c] = "open"
  /\ sock'  = [sock EXCEPT ![c] = "leaving"]
  /\ queue' = [queue EXCEPT ![c] = Append(@, Sentinel)]
  /\ UNCHANGED <<typed, stage, text, rows, inFlight>>

RunnerEnded(c) ==
  /\ sock[c] = "leaving"
  /\ stage[c] = "ended"
  /\ sock'  = [sock EXCEPT ![c] = "off"]
  /\ typed' = [typed EXCEPT ![c] = 0]
  /\ UNCHANGED <<queue, stage, text, rows, inFlight>>

\* What a write to the history that is cancelled leaves: the thread may finish it.
Cancelled(c) ==
  CASE stage[c] = "recording" -> {rows[c], Append(rows[c], Row("user", text[c]))}
    [] stage[c] = "saving"    -> {rows[c], Append(rows[c], Row("assistant", text[c]))}
    [] OTHER                  -> {rows[c]}

\* Mutant: a runner that waits at the gate is left alone.
CancelUnlessAsking(c) ==
  /\ sock[c] = "leaving"
  /\ stage[c] \notin {"ended", "asking", "streaming"}
  /\ sock'     = [sock EXCEPT ![c] = "off"]
  /\ stage'    = [stage EXCEPT ![c] = "ended"]
  /\ inFlight' = IF InTurn(c) THEN inFlight - 1 ELSE inFlight
  /\ \E r \in Cancelled(c) : rows' = [rows EXCEPT ![c] = r]
  /\ queue'    = [queue EXCEPT ![c] = <<>>]
  /\ text'     = [text EXCEPT ![c] = Sentinel]
  /\ typed'    = [typed EXCEPT ![c] = 0]

\* Mutant: the count is lowered although no turn may be running.
CancelAlwaysCounts(c) ==
  /\ sock[c] = "leaving"
  /\ stage[c] # "ended"
  /\ sock'     = [sock EXCEPT ![c] = "off"]
  /\ stage'    = [stage EXCEPT ![c] = "ended"]
  /\ inFlight' = inFlight - 1
  /\ \E r \in Cancelled(c) : rows' = [rows EXCEPT ![c] = r]
  /\ queue'    = [queue EXCEPT ![c] = <<>>]
  /\ text'     = [text EXCEPT ![c] = Sentinel]
  /\ typed'    = [typed EXCEPT ![c] = 0]

\* After two seconds wait_for() cancels the runner, which leaves the turn through
\* its finally clause; what is still queued is dropped.
CancelRunner(c) ==
  /\ sock[c] = "leaving"
  /\ stage[c] # "ended"
  /\ sock'     = [sock EXCEPT ![c] = "off"]
  /\ stage'    = [stage EXCEPT ![c] = "ended"]
  /\ inFlight' = IF InTurn(c) THEN inFlight - 1 ELSE inFlight
  /\ \E r \in Cancelled(c) : rows' = [rows EXCEPT ![c] = r]
  /\ queue'    = [queue EXCEPT ![c] = <<>>]
  /\ text'     = [text EXCEPT ![c] = Sentinel]
  /\ typed'    = [typed EXCEPT ![c] = 0]

\* The process ends: every task with it, the history stays.
ConsolesDie ==
  /\ sock'     = [c \in Consoles |-> "off"]
  /\ queue'    = [c \in Consoles |-> <<>>]
  /\ stage'    = [c \in Consoles |-> "none"]
  /\ typed'    = [c \in Consoles |-> 0]
  /\ text'     = [c \in Consoles |-> Sentinel]
  /\ inFlight' = 0
  /\ UNCHANGED rows

-----------------------------------------------------------------------------

Turn(c) ==
  \/ RecordUser(c) \/ AskApproval(c) \/ Decided(c)
  \/ Reply(c) \/ SaveReply(c) \/ TurnFails(c)

Console(c) ==
  \/ Connect(c) \/ Receive(c) \/ TakeText(c) \/ TakeSentinel(c) \/ Turn(c)
  \/ Disconnect(c) \/ RunnerEnded(c) \/ CancelRunner(c)

ConsoleTypeOK ==
  /\ sock \in [Consoles -> {"off", "open", "leaving"}]
  /\ typed \in [Consoles -> 0 .. MaxTexts]
  /\ queue \in [Consoles -> Seq(Texts \cup {Sentinel})]
  /\ stage \in [Consoles -> Stages]
  /\ text \in [Consoles -> Texts \cup {Sentinel}]
  /\ rows \in [Consoles -> Seq([role : {"user", "assistant"}, text : Texts])]
  /\ inFlight \in Nat
=============================================================================
