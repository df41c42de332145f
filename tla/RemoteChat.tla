------------------------------ MODULE RemoteChat -----------------------------
(***************************************************************************)
(* Conversations over the relay: the chat handlers of relay_client.py, the *)
(* turn they run (chat_handler.py), what it writes to the chat history,    *)
(* and the distillation it starts every K turns (memory.py).               *)
(*                                                                         *)
(* Each frame is handled in a task of its own, so that the hello and the   *)
(* chats of one client overlap at every await.  The model's session object *)
(* (arcana's ChatSession) is known only by what it has been told: a turn   *)
(* adds its prompt when it starts and its reply when it ends.              *)
(*                                                                         *)
(* Handshakes and sockets are in Relay; approvals in ApprovalGate; what    *)
(* the distillers do with what they have read in Soul.  Resuming an older  *)
(* conversation is left out: no frame tells a page the id it would need.   *)
(***************************************************************************)
EXTENDS ChatStore, Sequences

CONSTANTS
  Clients,   \* client ids: a page has a new one for each connection
  EveryK,    \* DISTILL_EVERY_K
  MaxTurns,  \* bound: chats that arrive
  MaxTroubles \* bound: wipes, months, reconnections, rotations and failures

ASSUME ChatAssumption ==
  /\ IsFiniteSet(Clients)
  /\ EveryK \in Nat \ {0}
  /\ {MaxTurns, MaxTroubles} \subseteq Nat

Distillers == {"user_knowledge", "self_feedback"}
NoChat     == 0

VARIABLES
  keyed,      \* _ciphers
  session,    \* chat_sessions: an index into told, or NoChat
  history,    \* _history_ids
  told,       \* the ChatSessions there have been, and what each has been told
  hello,      \* a client's hello: "no", "creating" or "handled"
  chats,      \* the _on_chat tasks, in the order their frames arrived
  counts,     \* turn_counter
  passes,     \* distillation passes
  troubles,   \* what has gone on besides chatting
  early,      \* history: clients with a chat that arrived before the hello was handled
  overlapped, \* history: clients with two chats at one time
  failed      \* history: turns that failed

clientVars == <<keyed, session, history, hello>>
turnVars   == <<told, chats>>
memoryVars == <<counts, passes>>
histories  == <<early, overlapped, failed>>
vars == <<storeVars, clientVars, turnVars, memoryVars, troubles, histories>>

Chats == 1 .. Len(chats)
Running(t) == chats[t].at # "over"

Trouble == troubles < MaxTroubles /\ troubles' = troubles + 1

Init ==
  /\ StoreInit
  /\ keyed = {}
  /\ session = [c \in Clients |-> NoChat]
  /\ history = [c \in Clients |-> NoSession]
  /\ hello   = [c \in Clients |-> "no"]
  /\ told = <<>> /\ chats = <<>>
  /\ counts = [s \in 1 .. MaxSessions |-> 0]
  /\ passes = {}
  /\ troubles = 0
  /\ early = {} /\ overlapped = {} /\ failed = {}

-----------------------------------------------------------------------------
(* Frames                                                                  *)

\* A new client's key; no session outlives it.
Handshake(c) ==
  /\ c \notin keyed /\ hello[c] = "no"
  /\ \A t \in Chats : chats[t].client # c
  /\ keyed'   = keyed \cup {c}
  /\ session' = [session EXCEPT ![c] = NoChat]
  /\ UNCHANGED <<storeVars, history, hello, turnVars, memoryVars, troubles, histories>>

\* _on_client_hello() up to create_session(): a new ChatSession replaces what was there.
HelloArrives(c) ==
  /\ c \in keyed /\ hello[c] = "no"
  /\ told'    = Append(told, <<>>)
  /\ session' = [session EXCEPT ![c] = Len(told')]
  /\ hello'   = [hello EXCEPT ![c] = "creating"]
  /\ UNCHANGED <<storeVars, keyed, history, chats, memoryVars, troubles, histories>>

\* Its history id replaces the one that is there.
HelloCreates(c) ==
  /\ hello[c] = "creating"
  /\ CreateSession
  /\ history' = [history EXCEPT ![c] = ids']
  /\ hello'   = [hello EXCEPT ![c] = "handled"]
  /\ UNCHANGED <<keyed, session, turnVars, memoryVars, troubles, histories>>

Task(c, s, h) ==
  [client |-> c, sess |-> s, hist |-> h, at |-> IF h = NoSession THEN "creating" ELSE "asking"]

\* The client's ChatSession, or else a new one.
SessionFor(c) == IF session[c] # NoChat THEN session[c] ELSE Len(told) + 1

\* _on_chat() up to its first await, with the ChatSession and the history id of now.
ChatArrives(c) ==
  LET s == SessionFor(c) IN
  /\ c \in keyed
  /\ Len(chats) < MaxTurns
  /\ told'    = IF s > Len(told) THEN Append(told, <<>>) ELSE told
  /\ session' = [session EXCEPT ![c] = s]
  /\ chats'   = Append(chats, Task(c, s, history[c]))
  /\ early'   = IF hello[c] # "handled" THEN early \cup {c} ELSE early
  /\ overlapped' = IF \E t \in Chats : chats[t].client = c /\ Running(t)
                   THEN overlapped \cup {c} ELSE overlapped
  /\ UNCHANGED <<storeVars, keyed, history, hello, memoryVars, troubles, failed>>

\* _connect() on a new connection, or rotate_token(): the maps are emptied while the
\* tasks go on.
LinkResets ==
  /\ Trouble
  /\ keyed'   = {}
  /\ session' = [c \in Clients |-> NoChat]
  /\ history' = [c \in Clients |-> NoSession]
  /\ UNCHANGED <<storeVars, hello, turnVars, memoryVars, histories>>

-----------------------------------------------------------------------------
(* A chat's task                                                           *)

Goes(t, at) == [chats EXCEPT ![t].at = at]

\* Mutant: the chat's history id is not kept for the next chat.
AdoptedOnce(c, h) == history

Adopted(c, h) == [history EXCEPT ![c] = h]

ChatCreates(t) ==
  /\ chats[t].at = "creating"
  /\ CreateSession
  /\ history' = Adopted(chats[t].client, ids')
  /\ chats'   = [chats EXCEPT ![t].hist = ids', ![t].at = "asking"]
  /\ UNCHANGED <<keyed, session, hello, told, memoryVars, troubles, histories>>

RecordPrompt(t) ==
  /\ chats[t].at = "asking"
  /\ Record(chats[t].hist, "user", t)
  /\ chats' = Goes(t, "thinking")
  /\ UNCHANGED <<clientVars, told, memoryVars, troubles, histories>>

Told(s, role, t) == [told EXCEPT ![s] = Append(@, <<role, t>>)]

\* The frame "thinking" is sent, or dropped for a client that is gone.
StreamStarts(t) ==
  /\ chats[t].at = "thinking"
  /\ told'  = Told(chats[t].sess, "user", t)
  /\ chats' = Goes(t, "streaming")
  /\ UNCHANGED <<storeVars, clientVars, memoryVars, troubles, histories>>

StreamEnds(t) ==
  /\ chats[t].at = "streaming"
  /\ told'  = Told(chats[t].sess, "assistant", t)
  /\ chats' = Goes(t, "saving")
  /\ UNCHANGED <<storeVars, clientVars, memoryVars, troubles, histories>>

\* Mutant: the reply goes to the history its client has by now.
ReplyHistoryNow(t) ==
  IF history[chats[t].client] # NoSession THEN history[chats[t].client] ELSE chats[t].hist

ReplyHistory(t) == chats[t].hist

Bumped(h) == counts[h] + 1

\* record_turn_and_maybe_distill(): the count starts again before the passes do.
RecordTurn(h, t) ==
  \/ /\ Bumped(h) < EveryK
     /\ counts' = [counts EXCEPT ![h] = @ + 1]
     /\ UNCHANGED passes
  \/ /\ Bumped(h) >= EveryK
     /\ counts' = [counts EXCEPT ![h] = 0]
     /\ passes' = passes \cup {[by |-> d, hist |-> h, since |-> clock, at |-> "due",
                                seen |-> Empty] : d \in Distillers}

\* The reply's row, and the count of turns.
RecordReply(t) ==
  /\ chats[t].at = "saving"
  /\ Record(ReplyHistory(t), "assistant", t)
  /\ RecordTurn(chats[t].hist, t)
  /\ chats' = Goes(t, "over")
  /\ UNCHANGED <<clientVars, told, troubles, histories>>

\* create_session() or a record raises, the model does, or a frame cannot be sent: the
\* turn ends there.  A row may be in the table although recording it raised.
ChatFails(t) ==
  /\ Running(t)
  /\ Trouble
  /\ failed' = failed \cup {t}
  /\ chats'  = Goes(t, "over")
  /\ \/ UNCHANGED storeVars
     \/ chats[t].at = "asking" /\ Record(chats[t].hist, "user", t)
     \/ chats[t].at = "saving" /\ Record(ReplyHistory(t), "assistant", t)
  /\ UNCHANGED <<clientVars, told, memoryVars, early, overlapped>>

HelloFails(c) ==
  /\ hello[c] = "creating"
  /\ Trouble
  /\ hello'  = [hello EXCEPT ![c] = "handled"]
  /\ UNCHANGED <<storeVars, keyed, session, history, turnVars, memoryVars, histories>>

-----------------------------------------------------------------------------

\* A distiller reads the last K messages of the conversation.
Distill(p) ==
  /\ p.at = "due"
  /\ passes' = (passes \ {p}) \cup
                 {[p EXCEPT !.at = "read", !.seen = ListMessages(p.hist, EveryK)]}
  /\ UNCHANGED <<storeVars, clientVars, turnVars, counts, troubles, histories>>

\* The owner wipes the history, whatever is going on; days go by between turns.
Store ==
  /\ \/ Trouble /\ WipeMessages(troubles)
     \/ (\E w \in DOMAIN wipes : WipeSessions(w)) /\ UNCHANGED troubles
     \/ Trouble /\ Elapse /\ \A t \in Chats : ~Running(t)
  /\ UNCHANGED <<clientVars, turnVars, memoryVars, histories>>

ClientStep(c) ==
  Handshake(c) \/ HelloArrives(c) \/ HelloCreates(c) \/ HelloFails(c) \/ ChatArrives(c)

ChatStep(t) ==
  \/ ChatCreates(t) \/ RecordPrompt(t) \/ StreamStarts(t)
  \/ StreamEnds(t) \/ RecordReply(t) \/ ChatFails(t)

Next ==
  \/ \E c \in Clients : ClientStep(c)
  \/ \E t \in Chats : ChatStep(t)
  \/ \E p \in passes : Distill(p)
  \/ LinkResets \/ Store

Spec == Init /\ [][Next]_vars

-----------------------------------------------------------------------------

\* Types and bounds of the store, the maps and the tasks.
TypeOK ==
  /\ StoreTypeOK
  /\ keyed \subseteq Clients
  /\ session \in [Clients -> 0 .. Len(told)]
  /\ history \in [Clients -> 0 .. ids]
  /\ hello \in [Clients -> {"no", "creating", "handled"}]
  /\ \A t \in Chats :
       /\ chats[t].client \in Clients
       /\ chats[t].sess \in 1 .. Len(told)
       /\ chats[t].hist \in 0 .. ids
       /\ chats[t].at \in {"creating", "asking", "thinking", "streaming", "saving", "over"}
       /\ chats[t].hist = NoSession => chats[t].at \in {"creating", "over"}
  /\ counts \in [1 .. MaxSessions -> 0 .. EveryK - 1]

\* A reply is stored after its prompt and in the same session, whatever the client's
\* other frames do to the maps meanwhile; unless a wipe or the retention took the prompt.
ReplyFollowsPrompt ==
  \A i \in DOMAIN messages :
    LET m == messages[i] IN
    m.role = "assistant" =>
      \/ <<"user", m.turn>> \in erased
      \/ \E j \in DOMAIN messages : j < i /\ messages[j] = Message(m.sid, "user", m.turn)

\* Between turns the store has told the same story as the agent: the turns of a client
\* are rows of its one history, in the order in which its one ChatSession was told them.
\* Left out: clients whose chat came before the hello was done, or during another chat;
\* and turns that failed or were deleted.
OneConversation ==
  \A c \in keyed :
    LET whole(t) == /\ chats[t].client = c
                    /\ t \notin failed
                    /\ {<<"user", t>>, <<"assistant", t>>} \cap erased = {}
        heard   == told[session[c]]
        says(i) == <<messages[i].role, messages[i].turn>>
        rows    == {i \in DOMAIN messages : whole(messages[i].turn)}
        tale    == {n \in DOMAIN heard : whole(heard[n][2])}
    IN
    /\ c \notin early \cup overlapped
    /\ \E t \in Chats : whole(t)
    /\ \A t \in Chats : chats[t].client = c => ~Running(t)
    => /\ {says(i) : i \in rows} = {heard[n] : n \in tale}
       /\ \A i, j \in rows, n, m \in tale :
            says(i) = heard[n] /\ says(j) = heard[m] => (i < j <=> n < m)
       /\ {messages[i].sid : i \in rows} = {history[c]}

\* search_chat finds a message by joining its session row.  A message that has lost that
\* row was inserted after the deletion of the row had begun: neither the retention nor a
\* wipe, whose statements run beside the turns, takes the row of a message older than it.
RowsKeepTheirSession ==
  \A i \in DOMAIN messages :
    LET s == messages[i].sid IN
    s \in DOMAIN sessions \/ (s \in DOMAIN forgotten /\ forgotten[s] <= i)

\* A distillation sees the turn that started it, unless what it sees is all newer.
PassSeesItsTurn ==
  \A p \in passes :
    p.at = "read" =>
      \/ p.since \in DOMAIN p.seen
      \/ \A i \in DOMAIN p.seen : i > p.since
=============================================================================
