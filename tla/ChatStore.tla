------------------------------ MODULE ChatStore ------------------------------
(***************************************************************************)
(* The chat history of chat_store.py: a table of sessions and a table of   *)
(* messages in SQLite, without a foreign key between them.  Every function *)
(* runs in a worker thread and opens its own connection, on which every    *)
(* statement is committed at once.  A function is one step here, placed    *)
(* where its row or its deletion becomes visible, if what other threads do *)
(* between its statements could as well be done before or after them; a    *)
(* wipe is two.                                                            *)
(*                                                                         *)
(* Time is the number of insertions so far; what is older than RETENTION_  *)
(* DAYS was inserted before the horizon.                                   *)
(***************************************************************************)
EXTENDS Integers, FiniteSets, Functions

CONSTANT MaxSessions \* bound: rows inserted into sessions

ASSUME StoreAssumption == MaxSessions \in Nat

NoSession == 0

VARIABLES
  sessions,  \* table sessions: the time of each row's insertion, by its id
  messages,  \* table messages: the rows by the time of their insertion
  ids,       \* session ids given out
  clock,     \* insertions so far
  horizon,   \* what is older than this is past its retention
  wipes,     \* the wipes between their two statements, and the time of the first
  erased,    \* history: messages deleted, as <<role, turn>>
  forgotten  \* history: the session rows deleted, and when their deletion began

storeVars == <<sessions, messages, ids, clock, horizon, wipes, erased, forgotten>>

Message(sid, role, turn) == [sid |-> sid, role |-> role, turn |-> turn]

Empty == [i \in {} |-> 0]

\* The table with a row more.
Inserted(table, key, row) ==
  [k \in DOMAIN table \cup {key} |-> IF k = key THEN row ELSE table[k]]

StoreInit ==
  /\ sessions = Empty /\ messages = Empty
  /\ ids = 0 /\ clock = 0 /\ horizon = 0
  /\ wipes = Empty
  /\ erased = {} /\ forgotten = Empty

Contents(rows) == {<<rows[i].role, rows[i].turn>> : i \in DOMAIN rows}
Owners(rows)   == {rows[i].sid : i \in DOMAIN rows}

\* The session rows that are deleted by what began at some time.
Forgotten(gone, since) ==
  [s \in DOMAIN forgotten \cup gone |-> IF s \in gone THEN since ELSE forgotten[s]]

-----------------------------------------------------------------------------

\* Mutant: the retention takes every old session row.
AgedOutAll(kept) == {s \in DOMAIN sessions : sessions[s] < horizon}

\* The old session rows that have no message left.
AgedOut(kept) == {s \in DOMAIN sessions : sessions[s] < horizon /\ s \notin Owners(kept)}

\* create_session(): old messages go, then old sessions, then the new row is inserted.
CreateSession ==
  LET kept == Restrict(messages, {i \in DOMAIN messages : i >= horizon})
      old  == Restrict(messages, DOMAIN messages \ DOMAIN kept)
      gone == AgedOut(kept)
      new  == ids + 1
  IN
  /\ ids < MaxSessions
  /\ ids'       = new
  /\ messages'  = kept
  /\ sessions'  = Inserted(Restrict(sessions, DOMAIN sessions \ gone), new, clock)
  /\ erased'    = erased \cup Contents(old)
  /\ forgotten' = Forgotten(gone, clock)
  /\ clock'     = clock + 1
  /\ UNCHANGED <<horizon, wipes>>

\* record_user() and record_assistant(): the row is inserted whether or not there still
\* is a session row whose updated_at can be set.
Record(sid, role, turn) ==
  /\ messages' = Inserted(messages, clock, Message(sid, role, turn))
  /\ clock'    = clock + 1
  /\ UNCHANGED <<sessions, ids, horizon, wipes, erased, forgotten>>

\* The messages of a session.
Own(sid) == {i \in DOMAIN messages : messages[i].sid = sid}

\* Mutant: the first messages.
ListMessagesAsc(sid, limit) ==
  Restrict(messages, {i \in Own(sid) : Cardinality({j \in Own(sid) : j < i}) < limit})

\* list_messages(): the last messages of a session.
ListMessages(sid, limit) ==
  Restrict(messages, {i \in Own(sid) : Cardinality({j \in Own(sid) : j > i}) < limit})

\* wipe_all(): the messages, then the sessions, while other threads insert between the
\* two statements and connections keep the ids they have.
WipeMessages(w) ==
  /\ w \notin DOMAIN wipes
  /\ wipes'    = Inserted(wipes, w, clock)
  /\ erased'   = erased \cup Contents(messages)
  /\ messages' = Empty
  /\ UNCHANGED <<sessions, ids, clock, horizon, forgotten>>

WipeSessions(w) ==
  /\ w \in DOMAIN wipes
  /\ wipes'     = Restrict(wipes, DOMAIN wipes \ {w})
  /\ forgotten' = Forgotten(DOMAIN sessions, wipes[w])
  /\ sessions'  = Empty
  /\ UNCHANGED <<messages, ids, clock, horizon, erased>>

\* Days go by, up to some point in what has been inserted.
Elapse ==
  /\ \E h \in horizon + 1 .. clock : horizon' = h
  /\ UNCHANGED <<sessions, messages, ids, clock, wipes, erased, forgotten>>

StoreTypeOK ==
  /\ ids \in 0 .. MaxSessions
  /\ DOMAIN sessions \subseteq 1 .. ids
  /\ Owners(messages) \subseteq 1 .. ids
  /\ horizon \in 0 .. clock
  /\ \A w \in DOMAIN wipes : wipes[w] \in 0 .. clock
  /\ DOMAIN forgotten \subseteq 1 .. ids
  /\ \A s \in DOMAIN forgotten : forgotten[s] \in 0 .. clock
=============================================================================
