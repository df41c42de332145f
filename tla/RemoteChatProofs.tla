------------------------- MODULE RemoteChatProofs -------------------------
(***************************************************************************)
(* Proofs about RemoteChat, for any number of clients, chats and troubles. *)
(*                                                                         *)
(* A step does one of two things to the table of messages: rows go, the    *)
(* oldest first, and are accounted for in erased (Shrinks), or a chat adds *)
(* one that is newer than all (Adds).  On this rest RowInv (a reply comes  *)
(* after its prompt) and PassInv (what a distillation reads).  StoreInv is *)
(* about the sessions' rows.                                               *)
(*                                                                         *)
(* That the history tells what the agent was told needs three more:        *)
(* ClientInv, whose ChatSession and history it is; RecordInv, what has     *)
(* been recorded of each turn and in which order; and ToldInv, the same of *)
(* what has been told.                                                     *)
(***************************************************************************)
EXTENDS RemoteChat, FiniteSetTheorems, TLAPS

Roles  == {"user", "assistant"}
Places == {"creating", "asking", "thinking", "streaming", "saving", "over"}

Tasks == [client : Clients, sess : Nat, hist : Nat, at : Places]
Rows  == [sid : Nat, role : Roles, turn : Nat]

\* What a distiller may have read, and a pass.
Readings == UNION {[D -> Rows] : D \in SUBSET Nat}
Passes   == [by : Distillers, hist : Nat, since : Nat, at : {"due", "read"}, seen : Readings]

\* The prompt of these is recorded, or was.
Asked == {"thinking", "streaming", "saving"}

StoreTyped ==
  /\ StoreTypeOK
  /\ ids \in Nat /\ clock \in Nat
  /\ DOMAIN messages \subseteq 0 .. clock - 1
  /\ messages \in [DOMAIN messages -> Rows]
  /\ \A i \in DOMAIN messages : messages[i].turn \in Chats

ChatsTyped ==
  /\ chats \in Seq(Tasks)
  /\ told \in Seq(Seq(Roles \X Nat))

TypeInv == TypeOK /\ StoreTyped /\ ChatsTyped

RowInv ==
  /\ \A t \in Chats : chats[t].at = "creating" => chats[t].hist = NoSession
  /\ \A i \in DOMAIN messages : messages[i].sid = chats[messages[i].turn].hist
  /\ \A t \in Chats :
       chats[t].at \in Asked =>
         \/ <<"user", t>> \in erased
         \/ \E j \in DOMAIN messages : messages[j] = Message(chats[t].hist, "user", t)
  /\ ReplyFollowsPrompt

\* A session that was given out is there or was deleted; a message without one is newer
\* than the deletion, as every message is newer than a wipe that has not taken the sessions.
StoreInv ==
  /\ 1 .. ids \subseteq DOMAIN sessions \cup DOMAIN forgotten
  /\ \A i \in DOMAIN messages : \A w \in DOMAIN wipes : wipes[w] <= i
  /\ RowsKeepTheirSession

\* What the passes read: the turn that started one is there, or only newer ones are.
Fresh(p) ==
  \/ p.since \in Own(p.hist)
  \/ \A i \in Own(p.hist) : i > p.since

PassInv ==
  /\ \A p \in passes :
       /\ p \in Passes /\ p.since \in 0 .. clock - 1
       /\ p.at = "due" => Fresh(p)
  /\ PassSeesItsTurn

Of(c) == {t \in Chats : chats[t].client = c}

\* Whose ChatSession and history it is.
ClientInv ==
  /\ \A c \in Clients : c \notin early /\ hello[c] # "handled" => Of(c) = {}
  /\ \A c \in keyed : hello[c] # "no" => session[c] # NoChat
  /\ \A c, d \in Clients : session[c] = session[d] => c = d \/ session[c] = NoChat
  /\ \A c \in Clients, t \in Chats : chats[t].sess = session[c] => chats[t].client = c
  /\ \A c \in Clients \ overlapped : \A t, u \in Of(c) : t < u => ~Running(t)
  /\ \A c \in keyed \ (early \cup overlapped) : \A t \in Of(c) :
       /\ chats[t].sess = session[c]
       /\ chats[t].hist = NoSession \/ chats[t].hist = history[c]
       /\ chats[t].at = "creating" => history[c] = NoSession

\* A turn of one client comes before its later turns, and the prompt before the reply.
Before(x, y) == x[2] < y[2] \/ (x[2] = y[2] /\ x[1] = "user" /\ y[1] = "assistant")

Line(i) == <<messages[i].role, messages[i].turn>>

Lonely(t) == chats[t].client \notin overlapped

Done(t) == chats[t].at = "over" /\ t \notin failed

\* The places from which on the prompt may be recorded, the turn runs, and has run.
Recorded == {"thinking", "streaming", "saving", "over"}
Started  == {"streaming", "saving", "over"}
Ended    == {"saving", "over"}

\* What has been recorded of each turn.
RecordInv ==
  /\ \A i \in DOMAIN messages :
       /\ chats[messages[i].turn].at \in Recorded
       /\ messages[i].role = "assistant" => chats[messages[i].turn].at = "over"
  /\ \A t \in Chats, role \in Roles :
       Done(t) => <<role, t>> \in erased \/ \E i \in DOMAIN messages : Line(i) = <<role, t>>
  /\ \A i, j \in DOMAIN messages :
       /\ i < j
       /\ chats[messages[i].turn].client = chats[messages[j].turn].client
       /\ Lonely(messages[i].turn)
       => Before(Line(i), Line(j))

\* What each ChatSession has been told.
ToldInv ==
  /\ \A s \in 1 .. Len(told) : \A n \in 1 .. Len(told[s]) :
       /\ told[s][n][2] \in Chats
       /\ chats[told[s][n][2]].sess = s
       /\ chats[told[s][n][2]].at \in Started
       /\ told[s][n][1] = "assistant" => chats[told[s][n][2]].at \in Ended
  /\ \A t \in Chats :
       /\ chats[t].at \in {"streaming", "saving"} \/ Done(t) =>
            \E n \in 1 .. Len(told[chats[t].sess]) : told[chats[t].sess][n] = <<"user", t>>
       /\ chats[t].at = "saving" \/ Done(t) =>
            \E n \in 1 .. Len(told[chats[t].sess]) : told[chats[t].sess][n] = <<"assistant", t>>
  /\ \A s \in 1 .. Len(told) : \A n, m \in 1 .. Len(told[s]) :
       /\ n < m
       /\ chats[told[s][n][2]].client = chats[told[s][m][2]].client
       /\ Lonely(told[s][n][2])
       => Before(told[s][n], told[s][m])

-----------------------------------------------------------------------------
(* What a step does to the table of messages.                              *)

\* Rows go: the oldest first, and each into erased.
Shrinks ==
  /\ DOMAIN messages' \subseteq DOMAIN messages
  /\ messages' = [i \in DOMAIN messages' |-> messages[i]]
  /\ \A i \in DOMAIN messages' : \A j \in DOMAIN messages \ DOMAIN messages' : j < i
  /\ \A j \in DOMAIN messages \ DOMAIN messages' :
       <<messages[j].role, messages[j].turn>> \in erased'
  /\ erased \subseteq erased'
  /\ clock' \in Nat /\ clock <= clock'

\* A chat's row comes in, newer than all.
Adds(role, t) ==
  /\ DOMAIN messages' = DOMAIN messages \cup {clock}
  /\ messages' = [i \in DOMAIN messages' |->
                    IF i = clock THEN Message(chats[t].hist, role, t) ELSE messages[i]]
  /\ erased' = erased
  /\ clock' = clock + 1
  /\ UNCHANGED <<sessions, ids, horizon, wipes, forgotten>>

LEMMA RecordAdds ==
  ASSUME NEW t \in Chats, NEW role \in Roles, Record(chats[t].hist, role, t)
  PROVE  Adds(role, t)
BY DEF Record, Adds, Inserted

LEMMA CreatePurges ==
  ASSUME TypeInv, CreateSession
  PROVE  Shrinks
<1> DEFINE new == {i \in DOMAIN messages : i >= horizon}
           old == DOMAIN messages \ new
<1>1. messages' = [i \in new |-> messages[i]]
  BY DEF CreateSession, Restrict
<1>2. DOMAIN messages' = new
  BY <1>1
<1>3. /\ horizon \in Nat
      /\ DOMAIN messages \subseteq Nat
  BY DEF TypeInv, StoreTyped, StoreTypeOK
<1>4. \A i \in DOMAIN messages' : \A j \in DOMAIN messages \ DOMAIN messages' : j < i
  BY <1>2, <1>3
<1>5. erased' = erased \cup Contents([i \in old |-> messages[i]])
  BY DEF CreateSession, Restrict
<1>6. \A j \in old : <<messages[j].role, messages[j].turn>> \in erased'
  BY <1>5 DEF Contents
<1>7. /\ clock' \in Nat /\ clock <= clock'
      /\ erased \subseteq erased'
  BY <1>5 DEF CreateSession, TypeInv, StoreTyped
<1> QED
  BY <1>1, <1>2, <1>4, <1>6, <1>7 DEF Shrinks

LEMMA WipePurges ==
  ASSUME TypeInv, NEW w, WipeMessages(w)
  PROVE  Shrinks
<1>1. messages' = [i \in {} |-> messages[i]] /\ DOMAIN messages' = {}
  BY DEF WipeMessages, Empty
<1>2. \A j \in DOMAIN messages : <<messages[j].role, messages[j].turn>> \in erased'
  BY DEF WipeMessages, Contents
<1>3. erased \subseteq erased' /\ clock' = clock
  BY DEF WipeMessages
<1> QED
  BY <1>1, <1>2, <1>3 DEF Shrinks, TypeInv, StoreTyped

LEMMA NothingPurges ==
  ASSUME TypeInv, messages' = messages, erased' = erased, clock' = clock
  PROVE  Shrinks
BY DEF Shrinks, TypeInv, StoreTyped

LEMMA StorePurges ==
  ASSUME TypeInv, Store
  PROVE  Shrinks
<1>1. ASSUME NEW w, WipeMessages(w) PROVE Shrinks
  BY <1>1, WipePurges
<1>2. ASSUME NEW w, WipeSessions(w) PROVE Shrinks
  BY <1>2, NothingPurges DEF WipeSessions
<1>3. CASE Elapse
  BY <1>3, NothingPurges DEF Elapse
<1> QED
  BY <1>1, <1>2, <1>3 DEF Store

-----------------------------------------------------------------------------
(* What a step does to the chats.                                          *)

\* Chat t is at another place.
Moves(t, at) ==
  /\ chats' \in Seq(Tasks) /\ Len(chats') = Len(chats)
  /\ \A u \in Chats : /\ chats'[u].client = chats[u].client
                      /\ chats'[u].sess = chats[u].sess
                      /\ chats'[u].hist = chats[u].hist
                      /\ u # t => chats'[u].at = chats[u].at
  /\ chats'[t].at = at

LEMMA GoesMoves ==
  ASSUME TypeInv, NEW t \in Chats, NEW at \in Places, chats' = Goes(t, at)
  PROVE  Moves(t, at)
<1>1. chats \in Seq(Tasks) /\ t \in 1 .. Len(chats)
  BY DEF TypeInv, ChatsTyped, Chats
<1>2. chats' = [chats EXCEPT ![t] = [chats[t] EXCEPT !.at = at]]
  BY DEF Goes
<1>3. chats[t] \in Tasks
  BY <1>1
<1>4. [chats[t] EXCEPT !.at = at] \in Tasks
  BY <1>3 DEF Tasks
<1>5. chats' \in Seq(Tasks) /\ Len(chats') = Len(chats)
  BY <1>1, <1>2, <1>4
<1>6. /\ chats'[t] = [chats[t] EXCEPT !.at = at]
      /\ \A u \in Chats : u # t => chats'[u] = chats[u]
  BY <1>1, <1>2 DEF Chats
<1>7. /\ chats'[t].client = chats[t].client /\ chats'[t].sess = chats[t].sess
      /\ chats'[t].hist = chats[t].hist /\ chats'[t].at = at
  BY <1>3, <1>6 DEF Tasks
<1> QED
  BY <1>5, <1>6, <1>7 DEF Moves

\* Chat t has got a history.
Begins(t) ==
  /\ chats' \in Seq(Tasks) /\ Len(chats') = Len(chats)
  /\ \A u \in Chats : u # t => chats'[u] = chats[u]
  /\ chats'[t].client = chats[t].client /\ chats'[t].sess = chats[t].sess
  /\ chats'[t].hist = ids' /\ chats'[t].at = "asking"

LEMMA CreatesBegins ==
  ASSUME TypeInv, NEW t \in Chats, ChatCreates(t)
  PROVE  Begins(t)
<1> DEFINE task == [chats[t] EXCEPT !.hist = ids', !.at = "asking"]
<1>1. chats \in Seq(Tasks) /\ t \in 1 .. Len(chats)
  BY DEF TypeInv, ChatsTyped, Chats
<1>2. ids' \in Nat
  BY DEF TypeInv, StoreTyped, ChatCreates, CreateSession
<1>3. chats' = [chats EXCEPT ![t] = task]
  BY <1>1 DEF ChatCreates
<1>4. chats[t] \in Tasks
  BY <1>1
<1>5. task \in Tasks
  BY <1>2, <1>4 DEF Tasks, Places
<1>6. /\ task.client = chats[t].client /\ task.sess = chats[t].sess
      /\ task.hist = ids' /\ task.at = "asking"
  BY <1>4 DEF Tasks
<1> HIDE DEF task
<1>7. chats' \in Seq(Tasks) /\ Len(chats') = Len(chats)
  BY <1>1, <1>3, <1>5
<1>8. /\ chats'[t] = task
      /\ \A u \in Chats : u # t => chats'[u] = chats[u]
  BY <1>1, <1>3 DEF Chats
<1> QED
  BY <1>6, <1>7, <1>8 DEF Begins

\* A chat more.
Comes(c) ==
  /\ chats' \in Seq(Tasks) /\ Len(chats') = Len(chats) + 1
  /\ \A u \in Chats : chats'[u] = chats[u]
  /\ chats'[Len(chats')] = Task(c, SessionFor(c), history[c])

LEMMA ArrivesComes ==
  ASSUME TypeInv, NEW c \in Clients, ChatArrives(c)
  PROVE  Comes(c)
<1>1. chats \in Seq(Tasks) /\ Len(told) \in Nat
  BY DEF TypeInv, ChatsTyped
<1>2. session[c] \in Nat /\ history[c] \in Nat
  BY DEF TypeInv, TypeOK
<1>3. SessionFor(c) \in Nat
  BY <1>1, <1>2 DEF SessionFor
<1>4. Task(c, SessionFor(c), history[c]) \in Tasks
  BY <1>2, <1>3 DEF Task, Tasks, Places
<1>5. chats' = Append(chats, Task(c, SessionFor(c), history[c]))
  BY DEF ChatArrives
<1> HIDE DEF Task, SessionFor
<1> QED
  BY <1>1, <1>4, <1>5 DEF Comes, Chats

-----------------------------------------------------------------------------
(* Types.                                                                  *)

LEMMA ShrinksTyped ==
  ASSUME TypeInv, Shrinks, Chats \subseteq Chats'
  PROVE  /\ DOMAIN messages' \subseteq 0 .. clock' - 1
         /\ messages' \in [DOMAIN messages' -> Rows]
         /\ \A i \in DOMAIN messages' : messages'[i].turn \in Chats'
         /\ Owners(messages') \subseteq 1 .. ids
<1>1. /\ clock \in Nat /\ clock' \in Nat /\ clock <= clock'
      /\ DOMAIN messages' \subseteq DOMAIN messages
      /\ messages' = [i \in DOMAIN messages' |-> messages[i]]
  BY DEF Shrinks, TypeInv, StoreTyped
<1>2. /\ DOMAIN messages \subseteq 0 .. clock - 1
      /\ messages \in [DOMAIN messages -> Rows]
      /\ \A i \in DOMAIN messages : messages[i].turn \in Chats
      /\ \A i \in DOMAIN messages : messages[i].sid \in 1 .. ids
  BY DEF TypeInv, StoreTyped, StoreTypeOK, Owners
<1>3. DOMAIN messages' \subseteq 0 .. clock' - 1
  BY <1>1, <1>2
<1>4. \A i \in DOMAIN messages' : messages'[i] = messages[i]
  BY <1>1
<1>5. messages' \in [DOMAIN messages' -> Rows]
  BY <1>1, <1>2
<1> QED
  BY <1>1, <1>2, <1>3, <1>4, <1>5 DEF Owners

LEMMA SameStoreTyped ==
  ASSUME TypeInv, UNCHANGED storeVars, Chats \subseteq Chats'
  PROVE  StoreTyped'
<1>1. Shrinks
  BY NothingPurges DEF storeVars
<1> QED
  BY <1>1, ShrinksTyped DEF TypeInv, StoreTyped, StoreTypeOK, storeVars

LEMMA CreateTyped ==
  ASSUME TypeInv, CreateSession, Chats \subseteq Chats'
  PROVE  StoreTyped' /\ ids' = ids + 1 /\ ids' \in 1 .. MaxSessions
<1>1. Shrinks
  BY CreatePurges
<1>2. /\ ids \in Nat /\ ids' = ids + 1 /\ ids < MaxSessions
      /\ clock \in Nat /\ clock' = clock + 1 /\ horizon' = horizon
      /\ horizon \in 0 .. clock
      /\ DOMAIN sessions \subseteq 1 .. ids
      /\ DOMAIN forgotten \subseteq 1 .. ids /\ \A s \in DOMAIN forgotten : forgotten[s] \in 0 .. clock
      /\ wipes' = wipes /\ \A w \in DOMAIN wipes : wipes[w] \in 0 .. clock
  BY DEF TypeInv, StoreTyped, StoreTypeOK, CreateSession
<1>3. DOMAIN sessions' \subseteq DOMAIN sessions \cup {ids'}
  BY DEF CreateSession, Inserted, Restrict
<1>4. PICK gone \in SUBSET DOMAIN sessions : forgotten' = Forgotten(gone, clock)
  BY DEF CreateSession, AgedOut
<1>5. ids' \in 1 .. MaxSessions
  BY <1>2, StoreAssumption
<1>6. /\ DOMAIN sessions' \subseteq 1 .. ids'
      /\ DOMAIN forgotten' \subseteq 1 .. ids'
      /\ \A s \in DOMAIN forgotten' : forgotten'[s] \in 0 .. clock'
  BY <1>2, <1>3, <1>4 DEF Forgotten
<1>7. Owners(messages') \subseteq 1 .. ids'
  BY <1>1, <1>2, ShrinksTyped
<1>8. StoreTypeOK'
  BY <1>2, <1>5, <1>6, <1>7, StoreAssumption DEF StoreTypeOK, Owners
<1> QED
  BY <1>1, <1>2, <1>5, <1>8, ShrinksTyped DEF StoreTyped

LEMMA AddsTyped ==
  ASSUME TypeInv, NEW t \in Chats, NEW role \in Roles, Adds(role, t),
         chats[t].hist \in 1 .. ids, Chats \subseteq Chats'
  PROVE  StoreTyped'
<1> DEFINE row == Message(chats[t].hist, role, t)
<1>1. /\ ids \in Nat /\ clock \in Nat /\ clock' = clock + 1
      /\ DOMAIN messages \subseteq 0 .. clock - 1
      /\ messages \in [DOMAIN messages -> Rows]
      /\ \A i \in DOMAIN messages : messages[i].turn \in Chats
      /\ \A i \in DOMAIN messages : messages[i].sid \in 1 .. ids
  BY DEF TypeInv, StoreTyped, StoreTypeOK, Owners, Adds
<1>2. t \in Nat
  BY DEF TypeInv, ChatsTyped, Chats
<1>3. row \in Rows /\ row.turn = t /\ row.sid = chats[t].hist
  BY <1>1, <1>2 DEF Rows, Message
<1>4. /\ DOMAIN messages' = DOMAIN messages \cup {clock}
      /\ messages' = [i \in DOMAIN messages' |-> IF i = clock THEN row ELSE messages[i]]
  BY DEF Adds
<1> HIDE DEF row
<1>5. DOMAIN messages' \subseteq 0 .. clock' - 1
  BY <1>1, <1>4
<1>6. messages' \in [DOMAIN messages' -> Rows]
  BY <1>1, <1>3, <1>4
<1>7. \A i \in DOMAIN messages' : messages'[i].turn \in Chats' /\ messages'[i].sid \in 1 .. ids
  BY <1>1, <1>3, <1>4
<1>8. /\ ids' = ids /\ sessions' = sessions /\ horizon' = horizon /\ forgotten' = forgotten
      /\ wipes' = wipes
  BY DEF Adds
<1>9. StoreTypeOK'
  BY <1>1, <1>7, <1>8 DEF StoreTypeOK, TypeInv, StoreTyped, Owners
<1> QED
  BY <1>1, <1>5, <1>6, <1>7, <1>8, <1>9 DEF StoreTyped

LEMMA WipeTyped ==
  ASSUME TypeInv, NEW w, WipeMessages(w) \/ WipeSessions(w), Chats \subseteq Chats'
  PROVE  StoreTyped'
<1>1. Shrinks
  BY WipePurges, NothingPurges DEF WipeSessions
<1>2. /\ ids' = ids /\ clock' = clock /\ horizon' = horizon /\ clock \in Nat
      /\ \A v \in DOMAIN wipes : wipes[v] \in 0 .. clock
      /\ DOMAIN sessions \subseteq 1 .. ids /\ DOMAIN forgotten \subseteq 1 .. ids
      /\ \A s \in DOMAIN forgotten : forgotten[s] \in 0 .. clock
  BY DEF WipeMessages, WipeSessions, TypeInv, StoreTyped, StoreTypeOK
<1>3. CASE WipeMessages(w)
  <2>1. sessions' = sessions /\ forgotten' = forgotten
    BY <1>3 DEF WipeMessages
  <2>2. \A v \in DOMAIN wipes' : wipes'[v] \in 0 .. clock
    BY <1>2, <1>3 DEF WipeMessages, Inserted
  <2> QED
    BY <1>1, <1>2, <2>1, <2>2, ShrinksTyped DEF TypeInv, StoreTyped, StoreTypeOK
<1>4. CASE WipeSessions(w)
  <2>1. DOMAIN sessions' = {} /\ forgotten' = Forgotten(DOMAIN sessions, wipes[w])
    BY <1>4 DEF WipeSessions, Empty
  <2>2. \A v \in DOMAIN wipes' : wipes'[v] \in 0 .. clock
    BY <1>2, <1>4 DEF WipeSessions, Restrict
  <2>3. /\ DOMAIN forgotten' \subseteq 1 .. ids
        /\ \A s \in DOMAIN forgotten' : forgotten'[s] \in 0 .. clock
    BY <1>2, <1>4, <2>1 DEF Forgotten, WipeSessions
  <2> QED
    BY <1>1, <1>2, <2>1, <2>2, <2>3, ShrinksTyped DEF TypeInv, StoreTyped, StoreTypeOK
<1> QED
  BY <1>3, <1>4

LEMMA ElapseTyped ==
  ASSUME TypeInv, Elapse, Chats \subseteq Chats'
  PROVE  StoreTyped'
<1>1. /\ messages' = messages /\ sessions' = sessions /\ ids' = ids
      /\ clock' = clock /\ erased' = erased /\ forgotten' = forgotten /\ wipes' = wipes
  BY DEF Elapse
<1>2. Shrinks
  BY <1>1, NothingPurges
<1>3. horizon' \in 0 .. clock
  BY DEF Elapse, TypeInv, StoreTyped, StoreTypeOK
<1> QED
  BY <1>1, <1>2, <1>3, ShrinksTyped DEF TypeInv, StoreTyped, StoreTypeOK

LEMMA InitTyped == Init => TypeInv
<1> SUFFICES ASSUME Init PROVE TypeInv
  OBVIOUS
<1>1. DOMAIN messages = {} /\ DOMAIN sessions = {} /\ DOMAIN forgotten = {} /\ DOMAIN wipes = {}
  BY DEF Init, StoreInit, Empty
<1>2. messages \in [DOMAIN messages -> Rows]
  BY <1>1 DEF Init, StoreInit, Empty
<1>3. StoreTypeOK
  BY <1>1, StoreAssumption DEF Init, StoreInit, StoreTypeOK, Owners
<1>4. StoreTyped
  BY <1>1, <1>2, <1>3 DEF Init, StoreInit, StoreTyped
<1>5. chats = <<>> /\ told = <<>> /\ ids = 0
  BY DEF Init, StoreInit
<1>6. counts \in [1 .. MaxSessions -> 0 .. EveryK - 1]
  BY ChatAssumption DEF Init
<1>7. TypeOK
  BY <1>3, <1>5, <1>6 DEF Init, TypeOK, Chats, NoChat, NoSession
<1> QED
  BY <1>4, <1>5, <1>7 DEF TypeInv, ChatsTyped

\* What TypeInv says of a chat.
LEMMA TaskTyped ==
  ASSUME TypeInv, NEW t \in Chats
  PROVE  /\ chats[t] \in Tasks /\ t \in Nat
         /\ chats[t].client \in Clients
         /\ chats[t].sess \in 1 .. Len(told)
         /\ chats[t].hist \in 0 .. ids
         /\ chats[t].at \in Places
         /\ chats[t].at \notin {"creating", "over"} => chats[t].hist \in 1 .. ids
BY DEF TypeInv, StoreTyped, ChatsTyped, TypeOK, Chats, Places, NoSession

LEMMA MovesTyped ==
  ASSUME TypeInv, NEW t \in Chats, NEW at \in Places, Moves(t, at),
         chats[t].hist = NoSession => at \in {"creating", "over"},
         Len(told') = Len(told), ids' = ids
  PROVE  \A u \in Chats' :
           /\ chats'[u].client \in Clients
           /\ chats'[u].sess \in 1 .. Len(told')
           /\ chats'[u].hist \in 0 .. ids'
           /\ chats'[u].at \in Places
           /\ chats'[u].hist = NoSession => chats'[u].at \in {"creating", "over"}
<1> SUFFICES ASSUME NEW u \in Chats'
             PROVE  /\ chats'[u].client \in Clients
                    /\ chats'[u].sess \in 1 .. Len(told')
                    /\ chats'[u].hist \in 0 .. ids'
                    /\ chats'[u].at \in Places
                    /\ chats'[u].hist = NoSession => chats'[u].at \in {"creating", "over"}
  OBVIOUS
<1>1. u \in Chats
  BY DEF Moves, Chats
<1>2. /\ chats'[u].client = chats[u].client
      /\ chats'[u].sess = chats[u].sess
      /\ chats'[u].hist = chats[u].hist
      /\ u # t => chats'[u].at = chats[u].at
      /\ chats'[t].at = at
  BY <1>1 DEF Moves
<1>3. chats[u].hist = NoSession => chats[u].at \in {"creating", "over"}
  BY <1>1 DEF TypeInv, TypeOK
<1> QED
  BY <1>1, <1>2, <1>3, TaskTyped

\* A step of a chat that changes nothing else but the store, and what is remembered.
LEMMA MoveStep ==
  ASSUME TypeInv, StoreTyped', NEW t \in Chats, NEW at \in Places, Moves(t, at),
         chats[t].hist = NoSession => at \in {"creating", "over"},
         told' \in Seq(Seq(Roles \X Nat)), Len(told') = Len(told), ids' = ids,
         UNCHANGED clientVars,
         counts' \in [1 .. MaxSessions -> 0 .. EveryK - 1]
  PROVE  TypeInv'
<1>1. \A u \in Chats' :
        /\ chats'[u].client \in Clients
        /\ chats'[u].sess \in 1 .. Len(told')
        /\ chats'[u].hist \in 0 .. ids'
        /\ chats'[u].at \in Places
        /\ chats'[u].hist = NoSession => chats'[u].at \in {"creating", "over"}
  BY MovesTyped
<1>2. TypeOK'
  BY <1>1 DEF TypeOK, TypeInv, StoreTyped, clientVars, Places
<1> QED
  BY <1>2 DEF TypeInv, ChatsTyped, Moves

LEMMA ToldTyped ==
  ASSUME TypeInv, NEW t \in Chats, NEW role \in Roles, told' = Told(chats[t].sess, role, t)
  PROVE  /\ told' \in Seq(Seq(Roles \X Nat)) /\ Len(told') = Len(told)
         /\ \A s \in 1 .. Len(told) : s # chats[t].sess => told'[s] = told[s]
         /\ told'[chats[t].sess] = Append(told[chats[t].sess], <<role, t>>)
<1> DEFINE s == chats[t].sess
           more == Append(told[s], <<role, t>>)
<1>1. told \in Seq(Seq(Roles \X Nat)) /\ s \in 1 .. Len(told) /\ t \in Nat
  BY TaskTyped DEF TypeInv, ChatsTyped
<1>2. told[s] \in Seq(Roles \X Nat)
  BY <1>1
<1>3. more \in Seq(Roles \X Nat)
  BY <1>1, <1>2
<1>4. told' = [told EXCEPT ![s] = more]
  BY <1>1 DEF Told
<1> HIDE DEF s, more
<1>5. /\ told' \in Seq(Seq(Roles \X Nat)) /\ Len(told') = Len(told)
      /\ \A u \in 1 .. Len(told) : u # s => told'[u] = told[u]
      /\ told'[s] = more
  BY <1>1, <1>3, <1>4
<1> QED
  BY <1>5 DEF s, more

LEMMA AskerAdds ==
  ASSUME TypeInv, NEW t \in Chats, chats[t].at \in {"asking", "saving"}, NEW role \in Roles,
         Record(chats[t].hist, role, t), Chats' = Chats
  PROVE  StoreTyped' /\ ids' = ids /\ chats[t].hist \in 1 .. ids
<1>1. chats[t].hist \in 1 .. ids
  BY TaskTyped
<1>2. Adds(role, t)
  BY RecordAdds
<1>3. StoreTyped'
  BY <1>1, <1>2, AddsTyped
<1> QED
  BY <1>1, <1>2, <1>3 DEF Adds

LEMMA ChatFailsTyped ==
  ASSUME TypeInv, NEW t \in Chats, ChatFails(t)
  PROVE  TypeInv'
<1>1. Moves(t, "over")
  BY GoesMoves DEF ChatFails, Places
<1>2. Chats' = Chats
  BY <1>1 DEF Moves, Chats
<1>3. /\ told' = told /\ UNCHANGED clientVars /\ UNCHANGED memoryVars
  BY DEF ChatFails
<1>4. StoreTyped' /\ ids' = ids
  <2>1. CASE UNCHANGED storeVars
    BY <1>2, <2>1, SameStoreTyped DEF storeVars
  <2>2. CASE chats[t].at = "asking" /\ Record(chats[t].hist, "user", t)
    BY <1>2, <2>2, AskerAdds DEF Roles
  <2>3. CASE chats[t].at = "saving" /\ Record(chats[t].hist, "assistant", t)
    BY <1>2, <2>3, AskerAdds DEF Roles
  <2> QED
    BY <2>1, <2>2, <2>3 DEF ChatFails, ReplyHistory
<1>5. told' \in Seq(Seq(Roles \X Nat)) /\ counts' \in [1 .. MaxSessions -> 0 .. EveryK - 1]
  BY <1>3 DEF memoryVars, TypeInv, ChatsTyped, TypeOK
<1> QED
  BY <1>1, <1>3, <1>4, <1>5, MoveStep DEF Places

LEMMA RecordReplyTyped ==
  ASSUME TypeInv, NEW t \in Chats, RecordReply(t)
  PROVE  TypeInv'
<1>1. Moves(t, "over")
  BY GoesMoves DEF RecordReply, Places
<1>2. Chats' = Chats
  BY <1>1 DEF Moves, Chats
<1>3. StoreTyped' /\ ids' = ids /\ chats[t].hist \in 1 .. ids
  BY <1>2, AskerAdds DEF RecordReply, ReplyHistory, Roles
<1>4. counts' \in [1 .. MaxSessions -> 0 .. EveryK - 1]
  <2> DEFINE h == chats[t].hist
  <2>1. /\ counts \in [1 .. MaxSessions -> 0 .. EveryK - 1]
        /\ EveryK \in Nat \ {0}
        /\ h \in 1 .. MaxSessions
    BY <1>3, ChatAssumption, StoreAssumption DEF TypeInv, TypeOK, StoreTypeOK
  <2>2. \/ counts[h] + 1 < EveryK /\ counts' = [counts EXCEPT ![h] = @ + 1]
        \/ counts' = [counts EXCEPT ![h] = 0]
    BY DEF RecordReply, RecordTurn, Bumped
  <2> HIDE DEF h
  <2> QED
    BY <2>1, <2>2
<1>5. told' = told /\ UNCHANGED clientVars
  BY DEF RecordReply
<1>6. told' \in Seq(Seq(Roles \X Nat))
  BY <1>5 DEF TypeInv, ChatsTyped
<1> QED
  BY <1>1, <1>3, <1>4, <1>5, <1>6, MoveStep DEF Places

LEMMA ChatStepTyped ==
  ASSUME TypeInv, NEW t \in Chats, ChatStep(t)
  PROVE  TypeInv'
<1>0. counts \in [1 .. MaxSessions -> 0 .. EveryK - 1] /\ told \in Seq(Seq(Roles \X Nat))
  BY DEF TypeInv, TypeOK, ChatsTyped
<1>1. CASE ChatCreates(t)
  <2>1. Begins(t)
    BY <1>1, CreatesBegins
  <2>2. Chats' = Chats
    BY <2>1 DEF Begins, Chats
  <2>3. StoreTyped' /\ ids' = ids + 1 /\ ids' \in 1 .. MaxSessions
    BY <1>1, <2>2, CreateTyped DEF ChatCreates
  <2>4. /\ told' = told /\ keyed' = keyed /\ session' = session /\ hello' = hello
        /\ counts' = counts
        /\ history' = [history EXCEPT ![chats[t].client] = ids']
    BY <1>1 DEF ChatCreates, Adopted, memoryVars
  <2>5. /\ ids \in Nat /\ history \in [Clients -> 0 .. ids]
    BY DEF TypeInv, TypeOK, StoreTyped
  <2>6. history' \in [Clients -> 0 .. ids']
    <3>1. ids' \in 0 .. ids' /\ 0 .. ids \subseteq 0 .. ids'
      BY <2>3, <2>5
    <3>2. history \in [Clients -> 0 .. ids']
      BY <2>5, <3>1
    <3> QED
      BY <2>4, <3>1, <3>2
  <2>7. \A u \in Chats :
          /\ chats'[u].client \in Clients
          /\ chats'[u].sess \in 1 .. Len(told)
          /\ chats'[u].hist \in 0 .. ids'
          /\ chats'[u].at \in Places
          /\ chats'[u].hist = NoSession => chats'[u].at \in {"creating", "over"}
    <3> SUFFICES ASSUME NEW u \in Chats
                 PROVE  /\ chats'[u].client \in Clients
                        /\ chats'[u].sess \in 1 .. Len(told)
                        /\ chats'[u].hist \in 0 .. ids'
                        /\ chats'[u].at \in Places
                        /\ chats'[u].hist = NoSession => chats'[u].at \in {"creating", "over"}
      OBVIOUS
    <3>1. CASE u = t
      BY <2>1, <2>3, <3>1, TaskTyped DEF Begins, Places, NoSession
    <3>2. CASE u # t
      <4>1. chats'[u] = chats[u]
        BY <2>1, <3>2 DEF Begins
      <4>2. chats[u].hist = NoSession => chats[u].at \in {"creating", "over"}
        BY DEF TypeInv, TypeOK
      <4> QED
        BY <2>3, <2>5, <4>1, <4>2, TaskTyped
    <3> QED
      BY <3>1, <3>2
  <2>8. TypeOK'
    BY <2>2, <2>3, <2>4, <2>6, <2>7 DEF TypeOK, TypeInv, StoreTyped, Places
  <2> QED
    BY <1>0, <2>1, <2>3, <2>4, <2>8 DEF TypeInv, ChatsTyped, Begins
<1>2. CASE RecordPrompt(t)
  <2>1. Moves(t, "thinking")
    BY <1>2, GoesMoves DEF RecordPrompt, Places
  <2>2. Chats' = Chats
    BY <2>1 DEF Moves, Chats
  <2>3. StoreTyped' /\ ids' = ids /\ chats[t].hist \in 1 .. ids
    BY <1>2, <2>2, AskerAdds DEF RecordPrompt, Roles
  <2>4. told' = told /\ UNCHANGED clientVars /\ counts' = counts
    BY <1>2 DEF RecordPrompt, memoryVars
  <2> QED
    BY <1>0, <2>1, <2>3, <2>4, MoveStep DEF Places, NoSession
<1>3. CASE StreamStarts(t)
  <2>1. Moves(t, "streaming")
    BY <1>3, GoesMoves DEF StreamStarts, Places
  <2>2. Chats' = Chats
    BY <2>1 DEF Moves, Chats
  <2>3. StoreTyped' /\ ids' = ids
    BY <1>3, <2>2, SameStoreTyped DEF StreamStarts, storeVars
  <2>4. told' \in Seq(Seq(Roles \X Nat)) /\ Len(told') = Len(told)
    BY <1>3, ToldTyped DEF StreamStarts, Roles
  <2>5. UNCHANGED clientVars /\ counts' = counts /\ chats[t].hist # NoSession
    BY <1>3, TaskTyped DEF StreamStarts, memoryVars, NoSession
  <2> QED
    BY <1>0, <2>1, <2>3, <2>4, <2>5, MoveStep DEF Places
<1>4. CASE StreamEnds(t)
  <2>1. Moves(t, "saving")
    BY <1>4, GoesMoves DEF StreamEnds, Places
  <2>2. Chats' = Chats
    BY <2>1 DEF Moves, Chats
  <2>3. StoreTyped' /\ ids' = ids
    BY <1>4, <2>2, SameStoreTyped DEF StreamEnds, storeVars
  <2>4. told' \in Seq(Seq(Roles \X Nat)) /\ Len(told') = Len(told)
    BY <1>4, ToldTyped DEF StreamEnds, Roles
  <2>5. UNCHANGED clientVars /\ counts' = counts /\ chats[t].hist # NoSession
    BY <1>4, TaskTyped DEF StreamEnds, memoryVars, NoSession
  <2> QED
    BY <1>0, <2>1, <2>3, <2>4, <2>5, MoveStep DEF Places
<1> QED
  BY <1>1, <1>2, <1>3, <1>4, RecordReplyTyped, ChatFailsTyped DEF ChatStep

LEMMA ClientStepTyped ==
  ASSUME TypeInv, NEW c \in Clients, ClientStep(c)
  PROVE  TypeInv'
<1>0. /\ told \in Seq(Seq(Roles \X Nat)) /\ Len(told) \in Nat
      /\ session \in [Clients -> 0 .. Len(told)]
      /\ ids \in Nat /\ history \in [Clients -> 0 .. ids]
      /\ chats \in Seq(Tasks)
  BY DEF TypeInv, TypeOK, StoreTyped, ChatsTyped
<1>1. CASE Handshake(c)
  <2>1. StoreTyped'
    BY <1>1, SameStoreTyped DEF Handshake, turnVars, Chats
  <2>2. session' \in [Clients -> 0 .. Len(told)]
    BY <1>0, <1>1 DEF Handshake, NoChat
  <2> QED
    BY <1>1, <2>1, <2>2
    DEF Handshake, turnVars, memoryVars, storeVars, TypeInv, TypeOK, StoreTyped, ChatsTyped, Chats
<1>2. CASE HelloArrives(c)
  <2>1. StoreTyped'
    BY <1>2, SameStoreTyped DEF HelloArrives, Chats
  <2>2. told' \in Seq(Seq(Roles \X Nat)) /\ Len(told') = Len(told) + 1
    BY <1>0, <1>2 DEF HelloArrives
  <2>3. session' \in [Clients -> 0 .. Len(told')]
    BY <1>0, <1>2, <2>2 DEF HelloArrives
  <2>4. \A t \in Chats : chats[t].sess \in 1 .. Len(told')
    BY <1>0, <2>2, TaskTyped
  <2> QED
    BY <1>2, <2>1, <2>2, <2>3, <2>4
    DEF HelloArrives, memoryVars, storeVars, TypeInv, TypeOK, StoreTyped, ChatsTyped, Chats
<1>3. CASE HelloCreates(c)
  <2>1. StoreTyped' /\ ids' = ids + 1 /\ ids' \in 1 .. MaxSessions
    BY <1>3, CreateTyped DEF HelloCreates, turnVars, Chats
  <2>2. history' \in [Clients -> 0 .. ids']
    BY <1>0, <1>3, <2>1 DEF HelloCreates
  <2>3. \A t \in Chats : chats[t].hist \in 0 .. ids'
    BY <1>0, <2>1, TaskTyped
  <2> QED
    BY <1>3, <2>1, <2>2, <2>3
    DEF HelloCreates, turnVars, memoryVars, TypeInv, TypeOK, StoreTyped, ChatsTyped, Chats
<1>4. CASE HelloFails(c)
  <2>1. StoreTyped'
    BY <1>4, SameStoreTyped DEF HelloFails, turnVars, Chats
  <2> QED
    BY <1>4, <2>1
    DEF HelloFails, turnVars, memoryVars, storeVars, TypeInv, TypeOK, StoreTyped, ChatsTyped, Chats
<1>5. CASE ChatArrives(c)
  <2>1. Comes(c)
    BY <1>5, ArrivesComes
  <2>2. Chats' = Chats \cup {Len(chats')} /\ Len(chats') \notin Chats
    BY <1>0, <2>1 DEF Comes, Chats
  <2>3. StoreTyped' /\ ids' = ids
    BY <1>5, <2>2, SameStoreTyped DEF ChatArrives, storeVars
  <2>4. /\ told' \in Seq(Seq(Roles \X Nat)) /\ Len(told') \in Nat /\ Len(told') >= Len(told)
        /\ SessionFor(c) \in 1 .. Len(told')
    BY <1>0, <1>5 DEF ChatArrives, SessionFor, NoChat
  <2>5. session' \in [Clients -> 0 .. Len(told')]
    <3>1. session' = [session EXCEPT ![c] = SessionFor(c)]
      BY <1>5 DEF ChatArrives
    <3> QED
      BY <1>0, <2>4, <3>1
  <2>6. \A t \in Chats' :
          /\ chats'[t].client \in Clients
          /\ chats'[t].sess \in 1 .. Len(told')
          /\ chats'[t].hist \in 0 .. ids
          /\ chats'[t].at \in Places
          /\ chats'[t].hist = NoSession => chats'[t].at \in {"creating", "over"}
    <3>1. ASSUME NEW t \in Chats
          PROVE  /\ chats'[t].client \in Clients
                 /\ chats'[t].sess \in 1 .. Len(told')
                 /\ chats'[t].hist \in 0 .. ids
                 /\ chats'[t].at \in Places
                 /\ chats'[t].hist = NoSession => chats'[t].at \in {"creating", "over"}
      <4>1. chats'[t] = chats[t]
        BY <2>1 DEF Comes
      <4>2. chats[t].hist = NoSession => chats[t].at \in {"creating", "over"}
        BY DEF TypeInv, TypeOK
      <4> QED
        BY <1>0, <2>4, <4>1, <4>2, TaskTyped
    <3>2. chats'[Len(chats')] = Task(c, SessionFor(c), history[c])
      BY <2>1 DEF Comes
    <3>3. LET u == Task(c, SessionFor(c), history[c]) IN
          /\ u.client = c /\ u.sess = SessionFor(c) /\ u.hist = history[c]
          /\ u.at \in Places /\ (u.hist = NoSession => u.at = "creating")
      BY DEF Task, Places
    <3>4. history[c] \in 0 .. ids
      BY <1>0
    <3> QED
      BY <2>2, <2>4, <3>1, <3>2, <3>3, <3>4
  <2>7. keyed' = keyed /\ history' = history /\ hello' = hello /\ counts' = counts
    BY <1>5 DEF ChatArrives, memoryVars
  <2>8. TypeOK'
    BY <2>3, <2>5, <2>6, <2>7 DEF TypeOK, TypeInv, StoreTyped, Places
  <2> QED
    BY <2>1, <2>3, <2>4, <2>8 DEF TypeInv, ChatsTyped, Comes
<1> QED
  BY <1>1, <1>2, <1>3, <1>4, <1>5 DEF ClientStep

LEMMA TypeStep == TypeInv /\ [Next]_vars => TypeInv'
<1> SUFFICES ASSUME TypeInv, [Next]_vars PROVE TypeInv'
  OBVIOUS
<1>1. ASSUME NEW c \in Clients, ClientStep(c) PROVE TypeInv'
  BY <1>1, ClientStepTyped
<1>2. ASSUME NEW t \in Chats, ChatStep(t) PROVE TypeInv'
  BY <1>2, ChatStepTyped
<1>3. ASSUME NEW p \in passes, Distill(p) PROVE TypeInv'
  <2>1. StoreTyped'
    BY <1>3, SameStoreTyped DEF Distill, turnVars, Chats
  <2> QED
    BY <1>3, <2>1
    DEF Distill, clientVars, turnVars, storeVars, TypeInv, TypeOK, StoreTyped, ChatsTyped, Chats
<1>4. CASE LinkResets
  <2>1. StoreTyped'
    BY <1>4, SameStoreTyped DEF LinkResets, turnVars, Chats
  <2>2. /\ session' \in [Clients -> 0 .. Len(told)]
        /\ history' \in [Clients -> 0 .. ids]
    BY <1>4 DEF LinkResets, NoChat, NoSession, TypeInv, StoreTyped, ChatsTyped
  <2> QED
    BY <1>4, <2>1, <2>2
    DEF LinkResets, turnVars, memoryVars, storeVars, TypeInv, TypeOK, StoreTyped, ChatsTyped, Chats
<1>5. CASE Store
  <2>1. StoreTyped' /\ ids' = ids
    <3>1. ASSUME NEW w, WipeMessages(w) \/ WipeSessions(w)
          PROVE  StoreTyped' /\ ids' = ids
      BY <1>5, <3>1, WipeTyped DEF Store, turnVars, Chats, WipeMessages, WipeSessions
    <3>2. CASE Elapse
      BY <1>5, <3>2, ElapseTyped DEF Store, turnVars, Chats, Elapse
    <3> QED
      BY <1>5, <3>1, <3>2 DEF Store
  <2> QED
    BY <1>5, <2>1
    DEF Store, clientVars, turnVars, memoryVars, TypeInv, TypeOK, StoreTyped, ChatsTyped, Chats
<1>6. CASE UNCHANGED vars
  <2>1. StoreTyped'
    BY <1>6, SameStoreTyped DEF vars, turnVars, Chats
  <2> QED
    BY <1>6, <2>1
    DEF vars, clientVars, turnVars, memoryVars, storeVars,
        TypeInv, TypeOK, StoreTyped, ChatsTyped, Chats
<1> QED
  BY <1>1, <1>2, <1>3, <1>4, <1>5, <1>6 DEF Next

-----------------------------------------------------------------------------
(* The rows: a reply comes after its prompt.                               *)

\* A chat's history stays once it has one; and those outside S that are asked now
\* have been.
Steady(S) ==
  /\ \A u \in Chats : u \in Chats' /\ (chats[u].hist # NoSession => chats'[u].hist = chats[u].hist)
  /\ \A u \in Chats' : chats'[u].at = "creating" => chats'[u].hist = NoSession
  /\ \A u \in Chats' \ S : chats'[u].at \in Asked => u \in Chats /\ chats[u].at \in Asked

LEMMA MovesSteady ==
  ASSUME TypeInv, RowInv, NEW t \in Chats, NEW at \in Places, Moves(t, at), at # "creating"
  PROVE  /\ Steady({t})
         /\ at \notin Asked \/ chats[t].at \in Asked => Steady({})
<1>1. Chats' = Chats
  BY DEF Moves, Chats
<1>2. \A u \in Chats : /\ chats'[u].hist = chats[u].hist
                       /\ u # t => chats'[u].at = chats[u].at
                       /\ u = t => chats'[u].at = at
  BY DEF Moves
<1>3. \A u \in Chats : chats[u].at = "creating" => chats[u].hist = NoSession
  BY DEF RowInv
<1> QED
  BY <1>1, <1>2, <1>3 DEF Steady

LEMMA BeginsSteady ==
  ASSUME TypeInv, RowInv, NEW t \in Chats, Begins(t), chats[t].at = "creating"
  PROVE  Steady({})
<1>1. Chats' = Chats
  BY DEF Begins, Chats
<1>2. \A u \in Chats : chats[u].at = "creating" => chats[u].hist = NoSession
  BY DEF RowInv
<1>3. \A u \in Chats : u # t => chats'[u] = chats[u]
  BY DEF Begins
<1>4. chats'[t].at = "asking"
  BY DEF Begins
<1> QED
  BY <1>1, <1>2, <1>3, <1>4 DEF Steady, Asked

LEMMA ComesSteady ==
  ASSUME TypeInv, RowInv, NEW c \in Clients, Comes(c)
  PROVE  Steady({})
<1>1. Len(chats) \in Nat
  BY DEF TypeInv, ChatsTyped
<1>2. Chats' = Chats \cup {Len(chats')}
  BY <1>1 DEF Comes, Chats
<1>3. /\ chats'[Len(chats')].at \notin Asked
      /\ chats'[Len(chats')].at = "creating" => chats'[Len(chats')].hist = NoSession
  BY DEF Comes, Task, Asked
<1>4. \A u \in Chats : chats'[u] = chats[u]
  BY DEF Comes
<1>5. \A u \in Chats : chats[u].at = "creating" => chats[u].hist = NoSession
  BY DEF RowInv
<1> QED
  BY <1>2, <1>3, <1>4, <1>5 DEF Steady

LEMMA SameSteady ==
  ASSUME RowInv, chats' = chats
  PROVE  Steady({})
BY DEF RowInv, Steady, Chats

LEMMA RowTyped ==
  ASSUME TypeInv, RowInv, NEW i \in DOMAIN messages
  PROVE  /\ i \in Nat /\ i < clock
         /\ messages[i] \in Rows
         /\ messages[i].turn \in Chats
         /\ messages[i].sid = chats[messages[i].turn].hist
         /\ messages[i].sid \in 1 .. ids
         /\ messages[i] = Message(messages[i].sid, messages[i].role, messages[i].turn)
<1>1. /\ DOMAIN messages \subseteq 0 .. clock - 1 /\ clock \in Nat
      /\ messages \in [DOMAIN messages -> Rows]
      /\ messages[i].turn \in Chats
      /\ messages[i].sid \in 1 .. ids
  BY DEF TypeInv, StoreTyped, StoreTypeOK, Owners
<1>2. messages[i] \in Rows
  BY <1>1
<1>3. messages[i] = Message(messages[i].sid, messages[i].role, messages[i].turn)
  BY <1>2 DEF Rows, Message
<1> QED
  BY <1>1, <1>2, <1>3 DEF RowInv

LEMMA RowsShrink ==
  ASSUME TypeInv, RowInv, Shrinks, Steady({})
  PROVE  RowInv'
<1>1. /\ DOMAIN messages' \subseteq DOMAIN messages
      /\ \A i \in DOMAIN messages' : messages'[i] = messages[i]
      /\ \A j \in DOMAIN messages \ DOMAIN messages' :
           <<messages[j].role, messages[j].turn>> \in erased'
      /\ erased \subseteq erased'
  BY DEF Shrinks
<1>2. \A u \in Chats : chats[u].hist # NoSession => chats'[u].hist = chats[u].hist
  BY DEF Steady
<1>3. \A i \in DOMAIN messages' : messages'[i].sid = chats'[messages'[i].turn].hist
  <2> SUFFICES ASSUME NEW i \in DOMAIN messages'
               PROVE  messages'[i].sid = chats'[messages'[i].turn].hist
    OBVIOUS
  <2>1. i \in DOMAIN messages /\ messages'[i] = messages[i]
    BY <1>1
  <2>2. /\ messages[i].turn \in Chats
        /\ messages[i].sid = chats[messages[i].turn].hist
        /\ messages[i].sid # NoSession
    BY <2>1, RowTyped DEF NoSession
  <2> QED
    BY <1>2, <2>1, <2>2
<1>4. ASSUME NEW t \in Chats', chats'[t].at \in Asked
      PROVE  \/ <<"user", t>> \in erased'
             \/ \E j \in DOMAIN messages' : messages'[j] = Message(chats'[t].hist, "user", t)
  <2>1. t \in Chats /\ chats[t].at \in Asked
    BY <1>4 DEF Steady
  <2>2. chats[t].hist # NoSession
    BY <2>1, TaskTyped DEF Asked, NoSession
  <2>3. chats'[t].hist = chats[t].hist
    BY <1>2, <2>1, <2>2
  <2>4. CASE <<"user", t>> \in erased
    BY <1>1, <2>4
  <2>5. ASSUME NEW j \in DOMAIN messages, messages[j] = Message(chats[t].hist, "user", t)
        PROVE  \/ <<"user", t>> \in erased'
               \/ \E k \in DOMAIN messages' : messages'[k] = Message(chats'[t].hist, "user", t)
    <3>1. messages[j].role = "user" /\ messages[j].turn = t
      BY <2>5 DEF Message
    <3> QED
      BY <1>1, <2>3, <2>5, <3>1
  <2> QED
    BY <2>1, <2>4, <2>5 DEF RowInv
<1>5. ASSUME NEW i \in DOMAIN messages', messages'[i].role = "assistant"
      PROVE  \/ <<"user", messages'[i].turn>> \in erased'
             \/ \E j \in DOMAIN messages' :
                  j < i /\ messages'[j] = Message(messages'[i].sid, "user", messages'[i].turn)
  <2>1. i \in DOMAIN messages /\ messages'[i] = messages[i]
    BY <1>1
  <2>2. CASE <<"user", messages[i].turn>> \in erased
    BY <1>1, <2>1, <2>2
  <2>3. ASSUME NEW j \in DOMAIN messages, j < i,
               messages[j] = Message(messages[i].sid, "user", messages[i].turn)
        PROVE  \/ <<"user", messages'[i].turn>> \in erased'
               \/ \E k \in DOMAIN messages' :
                    k < i /\ messages'[k] = Message(messages'[i].sid, "user", messages'[i].turn)
    <3>1. messages[j].role = "user" /\ messages[j].turn = messages[i].turn
      BY <2>3 DEF Message
    <3> QED
      BY <1>1, <2>1, <2>3, <3>1
  <2> QED
    BY <1>5, <2>1, <2>2, <2>3 DEF RowInv, ReplyFollowsPrompt
<1>6. ReplyFollowsPrompt'
  BY <1>5 DEF ReplyFollowsPrompt
<1> QED
  BY <1>3, <1>4, <1>6 DEF RowInv, Steady

LEMMA RowsAdd ==
  ASSUME TypeInv, RowInv, NEW t \in Chats, NEW role \in Roles, Adds(role, t),
         chats[t].hist \in 1 .. ids, chats'[t].hist = chats[t].hist,
         \/ role = "user" /\ Steady({t})
         \/ role = "assistant" /\ Steady({}) /\ chats[t].at \in Asked
  PROVE  RowInv'
<1> DEFINE row == Message(chats[t].hist, role, t)
<1>0. row.sid = chats[t].hist /\ row.role = role /\ row.turn = t
  BY DEF Message
<1>1. /\ DOMAIN messages' = DOMAIN messages \cup {clock} /\ clock \notin DOMAIN messages
      /\ \A i \in DOMAIN messages : messages'[i] = messages[i]
      /\ messages'[clock] = row
      /\ erased' = erased
  BY DEF Adds, TypeInv, StoreTyped
<1> HIDE DEF row
<1>2. /\ \A u \in Chats : chats[u].hist # NoSession => chats'[u].hist = chats[u].hist
      /\ \A u \in Chats' : chats'[u].at = "creating" => chats'[u].hist = NoSession
  BY DEF Steady
<1>3. ASSUME NEW i \in DOMAIN messages'
      PROVE  messages'[i].sid = chats'[messages'[i].turn].hist
  <2>1. CASE i = clock
    BY <1>0, <1>1, <2>1
  <2>2. CASE i # clock
    <3>1. i \in DOMAIN messages /\ messages'[i] = messages[i]
      BY <1>1, <2>2
    <3>2. /\ messages[i].turn \in Chats
          /\ messages[i].sid = chats[messages[i].turn].hist
          /\ messages[i].sid # NoSession
      BY <3>1, RowTyped DEF NoSession
    <3> QED
      BY <1>2, <3>1, <3>2
  <2> QED
    BY <2>1, <2>2
<1>4. ASSUME NEW u \in Chats', chats'[u].at \in Asked
      PROVE  \/ <<"user", u>> \in erased'
             \/ \E j \in DOMAIN messages' : messages'[j] = Message(chats'[u].hist, "user", u)
  <2>1. CASE u = t /\ role = "user"
    <3>1. row = Message(chats'[u].hist, "user", u)
      BY <2>1 DEF row
    <3> QED
      BY <1>1, <3>1
  <2>2. CASE ~(u = t /\ role = "user")
    <3>1. u \in Chats /\ chats[u].at \in Asked
      BY <1>4, <2>2 DEF Steady
    <3>2. chats[u].hist # NoSession
      BY <3>1, TaskTyped DEF Asked, NoSession
    <3>3. chats'[u].hist = chats[u].hist
      BY <1>2, <3>1, <3>2
    <3>4. \/ <<"user", u>> \in erased
          \/ \E j \in DOMAIN messages : messages[j] = Message(chats[u].hist, "user", u)
      BY <3>1 DEF RowInv
    <3> QED
      BY <1>1, <3>3, <3>4
  <2> QED
    BY <2>1, <2>2
<1>5. ASSUME NEW i \in DOMAIN messages', messages'[i].role = "assistant"
      PROVE  \/ <<"user", messages'[i].turn>> \in erased'
             \/ \E j \in DOMAIN messages' :
                  j < i /\ messages'[j] = Message(messages'[i].sid, "user", messages'[i].turn)
  <2>1. CASE i = clock
    <3>1. role = "assistant" /\ chats[t].at \in Asked
      BY <1>0, <1>1, <1>5, <2>1
    <3>2. \/ <<"user", t>> \in erased
          \/ \E j \in DOMAIN messages : messages[j] = Message(chats[t].hist, "user", t)
      BY <3>1 DEF RowInv
    <3>3. \A j \in DOMAIN messages : j < clock
      BY RowTyped
    <3> QED
      BY <1>0, <1>1, <2>1, <3>2, <3>3
  <2>2. CASE i # clock
    <3>1. i \in DOMAIN messages /\ messages'[i] = messages[i]
      BY <1>1, <2>2
    <3> QED
      BY <1>1, <1>5, <3>1 DEF RowInv, ReplyFollowsPrompt
  <2> QED
    BY <2>1, <2>2
<1>6. ReplyFollowsPrompt'
  BY <1>5 DEF ReplyFollowsPrompt
<1> QED
  BY <1>2, <1>3, <1>4, <1>6 DEF RowInv

LEMMA RowInit == Init => RowInv
BY DEF Init, StoreInit, RowInv, ReplyFollowsPrompt, Chats, Empty

LEMMA RowStep == TypeInv /\ RowInv /\ [Next]_vars => RowInv'
<1> SUFFICES ASSUME TypeInv, RowInv, [Next]_vars PROVE RowInv'
  OBVIOUS
<1>1. ASSUME NEW c \in Clients, ClientStep(c) PROVE RowInv'
  <2>1. CASE Handshake(c)
    BY <2>1, NothingPurges, SameSteady, RowsShrink DEF Handshake, storeVars, turnVars
  <2>2. CASE HelloArrives(c)
    BY <2>2, NothingPurges, SameSteady, RowsShrink DEF HelloArrives, storeVars
  <2>3. CASE HelloCreates(c)
    BY <2>3, CreatePurges, SameSteady, RowsShrink DEF HelloCreates, turnVars
  <2>4. CASE HelloFails(c)
    BY <2>4, NothingPurges, SameSteady, RowsShrink DEF HelloFails, storeVars, turnVars
  <2>5. CASE ChatArrives(c)
    <3>1. Steady({})
      BY <2>5, ArrivesComes, ComesSteady
    <3> QED
      BY <2>5, <3>1, NothingPurges, RowsShrink DEF ChatArrives, storeVars
  <2> QED
    BY <1>1, <2>1, <2>2, <2>3, <2>4, <2>5 DEF ClientStep
<1>2. ASSUME NEW t \in Chats, ChatStep(t) PROVE RowInv'
  <2>1. CASE ChatCreates(t)
    <3>1. Steady({})
      BY <2>1, CreatesBegins, BeginsSteady DEF ChatCreates
    <3> QED
      BY <2>1, <3>1, CreatePurges, RowsShrink DEF ChatCreates
  <2>2. CASE RecordPrompt(t)
    <3>1. Moves(t, "thinking")
      BY <2>2, GoesMoves DEF RecordPrompt, Places
    <3>2. Steady({t}) /\ chats'[t].hist = chats[t].hist
      BY <3>1, MovesSteady DEF Places, Moves
    <3>3. Adds("user", t) /\ chats[t].hist \in 1 .. ids
      BY <2>2, RecordAdds, TaskTyped DEF RecordPrompt, Roles
    <3> QED
      BY <3>2, <3>3, RowsAdd DEF Roles
  <2>3. CASE StreamStarts(t)
    <3>1. Moves(t, "streaming") /\ chats[t].at \in Asked
      BY <2>3, GoesMoves DEF StreamStarts, Places, Asked
    <3>2. Steady({})
      BY <3>1, MovesSteady DEF Places
    <3> QED
      BY <2>3, <3>2, NothingPurges, RowsShrink DEF StreamStarts, storeVars
  <2>4. CASE StreamEnds(t)
    <3>1. Moves(t, "saving") /\ chats[t].at \in Asked
      BY <2>4, GoesMoves DEF StreamEnds, Places, Asked
    <3>2. Steady({})
      BY <3>1, MovesSteady DEF Places
    <3> QED
      BY <2>4, <3>2, NothingPurges, RowsShrink DEF StreamEnds, storeVars
  <2>5. CASE RecordReply(t)
    <3>1. Moves(t, "over") /\ chats[t].at \in Asked
      BY <2>5, GoesMoves DEF RecordReply, Places, Asked
    <3>2. Steady({}) /\ chats'[t].hist = chats[t].hist
      BY <3>1, MovesSteady DEF Places, Asked, Moves
    <3>3. Adds("assistant", t) /\ chats[t].hist \in 1 .. ids
      BY <2>5, RecordAdds, TaskTyped DEF RecordReply, ReplyHistory, Roles
    <3> QED
      BY <3>1, <3>2, <3>3, RowsAdd DEF Roles
  <2>6. CASE ChatFails(t)
    <3>1. Moves(t, "over")
      BY <2>6, GoesMoves DEF ChatFails, Places
    <3>2. Steady({}) /\ Steady({t}) /\ chats'[t].hist = chats[t].hist
      BY <3>1, MovesSteady DEF Places, Asked, Moves
    <3>3. CASE UNCHANGED storeVars
      BY <3>2, <3>3, NothingPurges, RowsShrink DEF storeVars
    <3>4. CASE chats[t].at = "asking" /\ Record(chats[t].hist, "user", t)
      <4>1. Adds("user", t) /\ chats[t].hist \in 1 .. ids
        BY <3>4, RecordAdds, TaskTyped DEF Roles
      <4> QED
        BY <3>2, <4>1, RowsAdd DEF Roles
    <3>5. CASE chats[t].at = "saving" /\ Record(chats[t].hist, "assistant", t)
      <4>1. Adds("assistant", t) /\ chats[t].hist \in 1 .. ids
        BY <3>5, RecordAdds, TaskTyped DEF Roles
      <4> QED
        BY <3>2, <3>5, <4>1, RowsAdd DEF Roles, Asked
    <3> QED
      BY <2>6, <3>3, <3>4, <3>5 DEF ChatFails, ReplyHistory
  <2> QED
    BY <1>2, <2>1, <2>2, <2>3, <2>4, <2>5, <2>6 DEF ChatStep
<1>3. ASSUME NEW p \in passes, Distill(p) PROVE RowInv'
  BY <1>3, NothingPurges, SameSteady, RowsShrink DEF Distill, storeVars, turnVars
<1>4. CASE LinkResets
  BY <1>4, NothingPurges, SameSteady, RowsShrink DEF LinkResets, storeVars, turnVars
<1>5. CASE Store
  BY <1>5, StorePurges, SameSteady, RowsShrink DEF Store, turnVars
<1>6. CASE UNCHANGED vars
  BY <1>6, NothingPurges, SameSteady, RowsShrink DEF vars, storeVars, turnVars
<1> QED
  BY <1>1, <1>2, <1>3, <1>4, <1>5, <1>6 DEF Next

-----------------------------------------------------------------------------
(* The sessions: their rows stay as long as their messages.                *)

LEMMA StoreInvInit == TypeInv /\ Init => StoreInv
BY DEF Init, StoreInit, StoreInv, RowsKeepTheirSession, TypeInv, StoreTyped, Empty

\* A message that stays keeps what it had.
LEMMA OldMessages ==
  ASSUME Shrinks
  PROVE  \A i \in DOMAIN messages' : i \in DOMAIN messages /\ messages'[i] = messages[i]
BY DEF Shrinks

LEMMA StoreInvCreate == TypeInv /\ StoreInv /\ CreateSession => StoreInv'
<1> SUFFICES ASSUME TypeInv, StoreInv, CreateSession PROVE StoreInv'
  OBVIOUS
<1>1. PICK kept : kept = Restrict(messages, {i \in DOMAIN messages : i >= horizon})
  OBVIOUS
<1>2. PICK gone : gone = AgedOut(kept)
  OBVIOUS
<1>3. /\ messages' = kept /\ wipes' = wipes /\ ids' = ids + 1
      /\ DOMAIN sessions' = (DOMAIN sessions \ gone) \cup {ids + 1}
      /\ forgotten' = Forgotten(gone, clock)
  BY <1>1, <1>2 DEF CreateSession, Inserted, Restrict
<1>4. gone \cap Owners(kept) = {}
  BY <1>2 DEF AgedOut
<1>5. DOMAIN forgotten' = DOMAIN forgotten \cup gone
      /\ \A s \in DOMAIN forgotten \ gone : forgotten'[s] = forgotten[s]
  BY <1>3 DEF Forgotten
<1>6. 1 .. ids' = 1 .. ids \cup {ids + 1}
  BY <1>3 DEF TypeInv, StoreTyped
<1>7. \A i \in DOMAIN messages' : /\ i \in DOMAIN messages /\ messages'[i] = messages[i]
                                  /\ messages[i].sid \notin gone
  BY <1>3, <1>4, OldMessages, CreatePurges DEF Owners
<1>8. 1 .. ids' \subseteq DOMAIN sessions' \cup DOMAIN forgotten'
  BY <1>3, <1>5, <1>6 DEF StoreInv
<1>9. \A i \in DOMAIN messages' : \A w \in DOMAIN wipes' : wipes'[w] <= i
  BY <1>3, <1>7 DEF StoreInv
<1>10. RowsKeepTheirSession'
  BY <1>3, <1>5, <1>7 DEF StoreInv, RowsKeepTheirSession
<1> QED
  BY <1>8, <1>9, <1>10 DEF StoreInv

LEMMA StoreInvRecord ==
  ASSUME TypeInv, StoreInv, NEW t \in Chats, NEW role \in Roles, Adds(role, t),
         chats[t].hist \in 1 .. ids
  PROVE  StoreInv'
<1>1. PICK h : h = chats[t].hist
  OBVIOUS
<1>2. /\ UNCHANGED <<sessions, ids, wipes, forgotten>>
      /\ DOMAIN messages' = DOMAIN messages \cup {clock}
      /\ \A i \in DOMAIN messages : i # clock => messages'[i] = messages[i]
      /\ messages'[clock].sid = h
  BY <1>1 DEF Adds, Message
<1>3. /\ clock \in Nat /\ clock \notin DOMAIN messages
      /\ \A w \in DOMAIN wipes : wipes[w] <= clock
      /\ \A s \in DOMAIN forgotten : forgotten[s] <= clock
  BY DEF TypeInv, StoreTyped, StoreTypeOK
<1>4. \A i \in DOMAIN messages' : \A w \in DOMAIN wipes' : wipes'[w] <= i
  BY <1>2, <1>3 DEF StoreInv
<1>5. h \in DOMAIN sessions \/ (h \in DOMAIN forgotten /\ forgotten[h] <= clock)
  BY <1>1, <1>3 DEF StoreInv
<1>6. RowsKeepTheirSession'
  BY <1>2, <1>3, <1>5 DEF StoreInv, RowsKeepTheirSession
<1> QED
  BY <1>2, <1>4, <1>6 DEF StoreInv

LEMMA StoreInvWipe ==
  ASSUME TypeInv, StoreInv, NEW w, WipeMessages(w) \/ WipeSessions(w)
  PROVE  StoreInv'
<1>1. CASE WipeMessages(w)
  <2>1. DOMAIN messages' = {} /\ UNCHANGED <<sessions, ids, forgotten>>
    BY <1>1 DEF WipeMessages, Empty
  <2> QED
    BY <2>1 DEF StoreInv, RowsKeepTheirSession
<1>2. CASE WipeSessions(w)
  <2>1. PICK since : since = wipes[w]
    OBVIOUS
  <2>2. /\ UNCHANGED <<messages, ids>> /\ DOMAIN wipes' \subseteq DOMAIN wipes
        /\ \A v \in DOMAIN wipes' : wipes'[v] = wipes[v]
        /\ w \in DOMAIN wipes /\ DOMAIN sessions' = {}
        /\ forgotten' = Forgotten(DOMAIN sessions, since)
    BY <1>2, <2>1 DEF WipeSessions, Empty, Restrict
  <2>3. /\ DOMAIN forgotten' = DOMAIN forgotten \cup DOMAIN sessions
        /\ \A s \in DOMAIN forgotten' :
             forgotten'[s] = IF s \in DOMAIN sessions THEN since ELSE forgotten[s]
    BY <2>2 DEF Forgotten
  <2>4. \A i \in DOMAIN messages : since <= i
    BY <2>1, <2>2 DEF StoreInv
  <2>5. RowsKeepTheirSession'
    BY <2>2, <2>3, <2>4 DEF StoreInv, RowsKeepTheirSession
  <2> QED
    BY <2>2, <2>3, <2>5 DEF StoreInv
<1> QED
  BY <1>1, <1>2

LEMMA StoreInvStep == TypeInv /\ StoreInv /\ [Next]_vars => StoreInv'
<1> SUFFICES ASSUME TypeInv, StoreInv, [Next]_vars PROVE StoreInv'
  OBVIOUS
<1> DEFINE Same == UNCHANGED <<sessions, ids, messages, wipes, forgotten>>
<1>1. CASE CreateSession
  BY <1>1, StoreInvCreate
<1>2. CASE Same
  BY <1>2 DEF StoreInv, RowsKeepTheirSession
<1>4. ASSUME NEW c \in Clients, ClientStep(c)
      PROVE  CreateSession \/ Same
  BY <1>4 DEF ClientStep, Handshake, HelloArrives, HelloCreates, HelloFails, ChatArrives, storeVars
<1>5. ASSUME NEW t \in Chats, ChatStep(t)
      PROVE  StoreInv'
  <2>1. \/ CreateSession \/ Same
        \/ /\ chats[t].at \in {"asking", "saving"}
           /\ \E role \in Roles : Record(chats[t].hist, role, t)
    BY <1>5 DEF ChatStep, ChatCreates, RecordPrompt, StreamStarts, StreamEnds, RecordReply,
                ReplyHistory, ChatFails, storeVars, Roles
  <2>2. ASSUME chats[t].at \in {"asking", "saving"}, NEW role \in Roles,
               Record(chats[t].hist, role, t)
        PROVE  StoreInv'
    <3>1. chats[t].hist \in 1 .. ids
      BY <2>2, TaskTyped
    <3> QED
      BY <2>2, <3>1, RecordAdds, StoreInvRecord
  <2> QED
    BY <1>1, <1>2, <2>1, <2>2
<1>6. ASSUME NEW p \in passes, Distill(p)
      PROVE  Same
  BY <1>6 DEF Distill, storeVars
<1>7. CASE LinkResets \/ UNCHANGED vars
  BY <1>2, <1>7 DEF LinkResets, storeVars, vars
<1>8. CASE Store
  BY <1>2, <1>8, StoreInvWipe DEF Store, Elapse
<1> QED
  BY <1>1, <1>2, <1>4, <1>5, <1>6, <1>7, <1>8 DEF Next

-----------------------------------------------------------------------------
(* The passes: a distillation sees the turn that started it.               *)

\* A pass that is due stays fresh when rows go, and when one comes.
LEMMA FreshShrinks ==
  ASSUME TypeInv, Shrinks, NEW h, NEW since \in 0 .. clock - 1,
         since \in Own(h) \/ \A i \in Own(h) : i > since
  PROVE  (since \in Own(h) \/ \A i \in Own(h) : i > since)'
<1>1. /\ DOMAIN messages' \subseteq DOMAIN messages
      /\ \A i \in DOMAIN messages' : messages'[i] = messages[i]
      /\ \A i \in DOMAIN messages' : \A j \in DOMAIN messages \ DOMAIN messages' : j < i
  BY DEF Shrinks
<1>2. CASE since \in DOMAIN messages'
  BY <1>1, <1>2 DEF Own
<1>3. CASE since \notin DOMAIN messages'
  BY <1>1, <1>3 DEF Own
<1> QED
  BY <1>2, <1>3

LEMMA FreshAdds ==
  ASSUME TypeInv, NEW role, NEW t, Adds(role, t), NEW h, NEW since \in 0 .. clock - 1,
         since \in Own(h) \/ \A i \in Own(h) : i > since
  PROVE  (since \in Own(h) \/ \A i \in Own(h) : i > since)'
<1>1. /\ DOMAIN messages' = DOMAIN messages \cup {clock} /\ clock \notin DOMAIN messages
      /\ \A i \in DOMAIN messages : messages'[i] = messages[i]
      /\ clock \in Nat
  BY DEF Adds, TypeInv, StoreTyped
<1> QED
  BY <1>1 DEF Own

\* The last messages of a session hold one that is there, or are all newer.
LEMMA LastOnes ==
  ASSUME TypeInv, NEW h, NEW since \in Nat, NEW limit \in Nat \ {0},
         since \in Own(h) \/ \A i \in Own(h) : i > since
  PROVE  LET seen == ListMessages(h, limit) IN
         since \in DOMAIN seen \/ \A i \in DOMAIN seen : i > since
<1> DEFINE Newer(i) == {j \in Own(h) : j > i}
           seen == {i \in Own(h) : Cardinality(Newer(i)) < limit}
<1>1. DOMAIN ListMessages(h, limit) = seen
  BY DEF ListMessages, Restrict
<1>2. Own(h) \subseteq 0 .. clock - 1 /\ clock \in Nat
  BY DEF TypeInv, StoreTyped, Own
<1>3. IsFiniteSet(Own(h))
  <2>1. IsFiniteSet(0 .. clock - 1)
    BY <1>2, FS_Interval
  <2> QED
    BY <1>2, <2>1, FS_Subset
<1>4. ASSUME since \in Own(h), since \notin seen, NEW i \in seen
      PROVE  i > since
  <2>1. IsFiniteSet(Newer(i)) /\ IsFiniteSet(Newer(since))
    BY <1>3, FS_Subset
  <2>2. /\ Cardinality(Newer(i)) \in Nat /\ Cardinality(Newer(since)) \in Nat
        /\ Cardinality(Newer(i)) < limit
        /\ ~(Cardinality(Newer(since)) < limit)
    BY <1>4, <2>1, FS_CardinalityType
  <2>3. SUFFICES ASSUME ~(i > since) PROVE FALSE
    OBVIOUS
  <2>4. Newer(since) \subseteq Newer(i)
    BY <1>2, <1>4, <2>3
  <2>5. Cardinality(Newer(since)) <= Cardinality(Newer(i))
    BY <2>1, <2>4, FS_Subset
  <2> QED
    BY <2>2, <2>5
<1>5. seen \subseteq Own(h)
  OBVIOUS
<1> HIDE DEF seen
<1> QED
  BY <1>1, <1>4, <1>5

LEMMA PassInit == Init => PassInv
BY DEF Init, PassInv, PassSeesItsTurn

LEMMA PassesKept ==
  ASSUME TypeInv, PassInv, passes' = passes,
         Shrinks \/ \E t \in Chats, role \in Roles : Adds(role, t)
  PROVE  PassInv'
<1>1. clock \in Nat /\ clock' \in Nat /\ clock <= clock'
  BY DEF Shrinks, Adds, TypeInv, StoreTyped
<1>2. ASSUME NEW p \in passes, p.at = "due" PROVE Fresh(p)'
  <2>1. p.since \in 0 .. clock - 1 /\ Fresh(p)
    BY <1>2 DEF PassInv
  <2>2. p.since \in Own(p.hist) \/ \A i \in Own(p.hist) : i > p.since
    BY <2>1 DEF Fresh
  <2>3. (p.since \in Own(p.hist) \/ \A i \in Own(p.hist) : i > p.since)'
    BY <2>1, <2>2, FreshShrinks, FreshAdds
  <2> QED
    BY <2>3 DEF Fresh
<1> QED
  BY <1>1, <1>2 DEF PassInv, PassSeesItsTurn

LEMMA PassesStarted ==
  ASSUME TypeInv, PassInv, NEW t \in Chats, RecordReply(t)
  PROVE  PassInv'
<1>1. Adds("assistant", t)
  BY RecordAdds DEF RecordReply, ReplyHistory, Roles
<1>2. clock \in Nat /\ clock' = clock + 1
  BY <1>1 DEF Adds, TypeInv, StoreTyped
<1>3. CASE passes' = passes
  BY <1>1, <1>3, PassesKept DEF Roles
<1>4. CASE passes' = passes \cup {[by |-> d, hist |-> chats[t].hist, since |-> clock,
                                   at |-> "due", seen |-> Empty] : d \in Distillers}
  <2>1. ASSUME NEW p \in passes
        PROVE  /\ p \in Passes /\ p.since \in 0 .. clock' - 1
               /\ p.at = "due" => Fresh(p)'
               /\ p.at = "read" => (p.since \in DOMAIN p.seen \/ \A i \in DOMAIN p.seen : i > p.since)
    <3>1. /\ p \in Passes /\ p.since \in 0 .. clock - 1
          /\ p.at = "due" => Fresh(p)
          /\ p.at = "read" => (p.since \in DOMAIN p.seen \/ \A i \in DOMAIN p.seen : i > p.since)
      BY DEF PassInv, PassSeesItsTurn
    <3>2. p.at = "due" => Fresh(p)'
      BY <1>1, <3>1, FreshAdds DEF Fresh
    <3> QED
      BY <1>2, <3>1, <3>2
  <2>2. ASSUME NEW d \in Distillers,
               NEW p, p = [by |-> d, hist |-> chats[t].hist, since |-> clock,
                           at |-> "due", seen |-> Empty]
        PROVE  /\ p \in Passes /\ p.at = "due" /\ p.since \in 0 .. clock' - 1
               /\ Fresh(p)'
    <3>1. /\ p.by = d /\ p.hist = chats[t].hist /\ p.since = clock /\ p.at = "due"
          /\ p.seen = Empty
      BY <2>2
    <3>2. clock \in DOMAIN messages' /\ messages'[clock].sid = p.hist
      BY <1>1, <3>1 DEF Adds, Message
    <3>3. (p.since \in Own(p.hist))'
      BY <3>1, <3>2 DEF Own
    <3>4. Fresh(p)'
      BY <3>3 DEF Fresh
    <3>5. Empty \in Readings /\ chats[t].hist \in Nat
      <4>1. {} \in SUBSET Nat /\ Empty \in [{} -> Rows]
        BY DEF Empty
      <4>2. Empty \in Readings
        BY <4>1 DEF Readings
      <4> QED
        BY <4>2, TaskTyped DEF Tasks
    <3>6. p \in Passes
      BY <1>2, <2>2, <3>5 DEF Passes
    <3> QED
      BY <1>2, <3>1, <3>4, <3>6
  <2> QED
    BY <1>4, <2>1, <2>2 DEF PassInv, PassSeesItsTurn
<1> QED
  BY <1>3, <1>4 DEF RecordReply, RecordTurn

LEMMA PassesRead ==
  ASSUME TypeInv, PassInv, NEW p \in passes, Distill(p)
  PROVE  PassInv'
<1> DEFINE q == [p EXCEPT !.at = "read", !.seen = ListMessages(p.hist, EveryK)]
<1>1. /\ p \in Passes /\ p.at = "due" /\ p.since \in 0 .. clock - 1
      /\ p.since \in Own(p.hist) \/ \A i \in Own(p.hist) : i > p.since
  BY DEF PassInv, Distill, Fresh
<1>2. ListMessages(p.hist, EveryK) \in Readings
  <2>1. DOMAIN messages \subseteq Nat /\ messages \in [DOMAIN messages -> Rows]
    BY DEF TypeInv, StoreTyped
  <2>2. \A D \in SUBSET DOMAIN messages : Restrict(messages, D) \in [D -> Rows]
    BY <2>1 DEF Restrict
  <2>3. PICK D : D \in SUBSET DOMAIN messages /\ ListMessages(p.hist, EveryK) = Restrict(messages, D)
    BY DEF ListMessages, Own
  <2>4. D \in SUBSET Nat /\ ListMessages(p.hist, EveryK) \in [D -> Rows]
    BY <2>1, <2>2, <2>3
  <2> HIDE DEF ListMessages
  <2> QED
    BY <2>4 DEF Readings
<1>3. /\ q \in Passes
      /\ q.at = "read" /\ q.since = p.since /\ q.seen = ListMessages(p.hist, EveryK)
  BY <1>1, <1>2 DEF Passes
<1>4. q.since \in DOMAIN q.seen \/ \A i \in DOMAIN q.seen : i > q.since
  BY <1>1, <1>3, LastOnes, ChatAssumption
<1>5. passes' = (passes \ {p}) \cup {q}
  BY DEF Distill
<1> HIDE DEF q
<1>6. messages' = messages /\ clock' = clock
  BY DEF Distill, storeVars
<1>7. \A r \in passes : Fresh(r) => Fresh(r)'
  BY <1>6 DEF Fresh, Own
<1> QED
  BY <1>1, <1>3, <1>4, <1>5, <1>6, <1>7 DEF PassInv, PassSeesItsTurn

LEMMA PassStep == TypeInv /\ PassInv /\ [Next]_vars => PassInv'
<1> SUFFICES ASSUME TypeInv, PassInv, [Next]_vars PROVE PassInv'
  OBVIOUS
<1>1. ASSUME NEW c \in Clients, ClientStep(c) PROVE PassInv'
  <2>1. Shrinks
    BY <1>1, NothingPurges, CreatePurges
    DEF ClientStep, Handshake, HelloArrives, HelloCreates, HelloFails, ChatArrives, storeVars
  <2>2. passes' = passes
    BY <1>1 DEF ClientStep, Handshake, HelloArrives, HelloCreates, HelloFails, ChatArrives,
                memoryVars
  <2> QED
    BY <2>1, <2>2, PassesKept
<1>2. ASSUME NEW t \in Chats, ChatStep(t) PROVE PassInv'
  <2>1. CASE RecordReply(t)
    BY <2>1, PassesStarted
  <2>2. CASE ~RecordReply(t)
    <3>1. passes' = passes
      BY <1>2, <2>2 DEF ChatStep, ChatCreates, RecordPrompt, StreamStarts, StreamEnds, ChatFails,
                        memoryVars
    <3>2. CASE UNCHANGED storeVars \/ CreateSession
      BY <3>1, <3>2, NothingPurges, CreatePurges, PassesKept DEF storeVars
    <3>3. CASE Record(chats[t].hist, "user", t) \/ Record(chats[t].hist, "assistant", t)
      <4>1. Adds("user", t) \/ Adds("assistant", t)
        BY <3>3, RecordAdds DEF Roles
      <4> QED
        BY <3>1, <4>1, PassesKept DEF Roles
    <3> QED
      BY <1>2, <2>2, <3>2, <3>3
      DEF ChatStep, ChatCreates, RecordPrompt, StreamStarts, StreamEnds, ChatFails, ReplyHistory
  <2> QED
    BY <2>1, <2>2
<1>3. ASSUME NEW p \in passes, Distill(p) PROVE PassInv'
  BY <1>3, PassesRead
<1>4. CASE LinkResets \/ UNCHANGED vars
  BY <1>4, NothingPurges, PassesKept DEF LinkResets, vars, storeVars, memoryVars
<1>5. CASE Store
  <2>1. passes' = passes
    BY <1>5 DEF Store, memoryVars
  <2>2. Shrinks
    BY <1>5, StorePurges
  <2> QED
    BY <2>1, <2>2, PassesKept
<1> QED
  BY <1>1, <1>2, <1>3, <1>4, <1>5 DEF Next

-----------------------------------------------------------------------------
(* The clients: whose ChatSession and history it is.                       *)

\* The chats there are go on.
GoOn ==
  /\ Chats' = Chats
  /\ \A u \in Chats : /\ chats'[u].client = chats[u].client
                      /\ chats'[u].sess = chats[u].sess
                      /\ chats'[u].hist = chats[u].hist
                      /\ Running(u)' => Running(u)
                      /\ chats'[u].at = "creating" => chats[u].at = "creating"

LEMMA SameGoOn ==
  ASSUME chats' = chats
  PROVE  GoOn
BY DEF GoOn, Chats, Running

LEMMA MovesGoOn ==
  ASSUME NEW t \in Chats, NEW at \in Places, Moves(t, at), Running(t), at # "creating"
  PROVE  GoOn
<1>1. Chats' = Chats
  BY DEF Moves, Chats
<1>2. \A u \in Chats : u # t => chats'[u].at = chats[u].at
  BY DEF Moves
<1>3. chats'[t].at = at
  BY DEF Moves
<1> QED
  BY <1>1, <1>2, <1>3 DEF GoOn, Running, Moves

LEMMA ClientsKept ==
  ASSUME TypeInv, ClientInv, GoOn, UNCHANGED clientVars, early' = early, overlapped' = overlapped
  PROVE  ClientInv'
<1>1. \A c \in Clients : Of(c)' = Of(c)
  BY DEF GoOn, Of
<1>2. /\ keyed' = keyed /\ session' = session /\ history' = history /\ hello' = hello
  BY DEF clientVars
<1>3. \A c \in Clients : Of(c) \subseteq Chats
  BY DEF Of
<1>4. keyed \subseteq Clients
  BY DEF TypeInv, TypeOK
<1>5. \A c \in Clients \ overlapped : \A t, u \in Of(c) : t < u => ~Running(t)'
  BY <1>3 DEF ClientInv, GoOn
<1>6. \A c \in keyed \ (early \cup overlapped) : \A t \in Of(c) :
        /\ chats'[t].sess = session[c]
        /\ chats'[t].hist = NoSession \/ chats'[t].hist = history[c]
        /\ chats'[t].at = "creating" => history[c] = NoSession
  BY <1>3, <1>4 DEF ClientInv, GoOn
<1>7. \A c \in Clients, t \in Chats : chats'[t].sess = session[c] => chats'[t].client = c
  BY DEF ClientInv, GoOn
<1>8. Chats' = Chats
  BY DEF GoOn
<1> QED
  BY <1>1, <1>2, <1>4, <1>5, <1>6, <1>7, <1>8 DEF ClientInv

\* Only one chat of a client that has never had two at a time can be running.
LEMMA OneRuns ==
  ASSUME TypeInv, ClientInv, NEW c \in Clients \ overlapped, NEW t \in Of(c), NEW u \in Of(c),
         Running(t), u # t
  PROVE  u < t /\ ~Running(u)
<1>1. t \in Nat /\ u \in Nat
  BY TaskTyped DEF Of
<1> QED
  BY <1>1 DEF ClientInv

LEMMA ClientCreates ==
  ASSUME TypeInv, RowInv, ClientInv, NEW t \in Chats, ChatCreates(t)
  PROVE  ClientInv'
<1> DEFINE d == chats[t].client
<1>1. /\ d \in Clients /\ chats[t].at = "creating" /\ chats[t].hist = NoSession /\ t \in Of(d)
      /\ Running(t)
  BY TaskTyped DEF ChatCreates, RowInv, Of, Running
<1>2. Begins(t)
  BY CreatesBegins
<1>3. Chats' = Chats
  BY <1>2 DEF Begins, Chats
<1>4. \A u \in Chats : /\ chats'[u].client = chats[u].client
                       /\ chats'[u].sess = chats[u].sess
                       /\ Running(u)' => Running(u)
                       /\ chats'[u].at = "creating" => u # t /\ chats[u].at = "creating"
                       /\ u # t => chats'[u].hist = chats[u].hist
  <2>1. \A u \in Chats : u # t => chats'[u] = chats[u]
    BY <1>2 DEF Begins
  <2>2. chats'[t].client = chats[t].client /\ chats'[t].sess = chats[t].sess
        /\ chats'[t].at = "asking"
    BY <1>2 DEF Begins
  <2> QED
    BY <1>1, <2>1, <2>2 DEF Running
<1>5. \A c \in Clients : Of(c)' = Of(c) /\ Of(c) \subseteq Chats
  BY <1>3, <1>4 DEF Of
<1>6. /\ keyed' = keyed /\ session' = session /\ hello' = hello
      /\ early' = early /\ overlapped' = overlapped
      /\ history' = [history EXCEPT ![d] = ids']
  BY DEF ChatCreates, Adopted, histories
<1>7. /\ keyed \subseteq Clients /\ history \in [Clients -> 0 .. ids]
  BY DEF TypeInv, TypeOK
<1>8. \A c \in Clients \ overlapped : \A x, u \in Of(c) : x < u => ~Running(x)'
  BY <1>4, <1>5 DEF ClientInv
<1>9. ASSUME NEW c \in keyed \ (early \cup overlapped), NEW u \in Of(c)
      PROVE  /\ chats'[u].sess = session[c]
             /\ chats'[u].hist = NoSession \/ chats'[u].hist = history'[c]
             /\ chats'[u].at = "creating" => history'[c] = NoSession
  <2>1. c \in Clients \ overlapped /\ u \in Chats /\ chats[u].client = c
    BY <1>7 DEF Of
  <2>2. /\ chats[u].sess = session[c]
        /\ chats[u].hist = NoSession \/ chats[u].hist = history[c]
        /\ chats[u].at = "creating" => history[c] = NoSession
    BY DEF ClientInv
  <2>3. CASE c # d
    <3>1. history'[c] = history[c] /\ u # t
      BY <1>6, <1>7, <2>1, <2>3
    <3> QED
      BY <1>4, <2>1, <2>2, <3>1
  <2>4. CASE c = d
    <3>1. history[c] = NoSession /\ history'[c] = ids'
      BY <1>1, <1>6, <1>7, <2>1, <2>4 DEF ClientInv
    <3>2. CASE u = t
      BY <1>2, <1>4, <2>1, <2>2, <3>1, <3>2 DEF Begins
    <3>3. CASE u # t
      <4>1. ~Running(u)
        BY <1>1, <2>1, <2>4, <3>3, OneRuns
      <4>2. chats'[u].hist = NoSession /\ chats'[u].at # "creating"
        BY <1>4, <2>1, <2>2, <3>1, <3>3, <4>1 DEF Running
      <4> QED
        BY <1>4, <2>1, <2>2, <4>2
    <3> QED
      BY <3>2, <3>3
  <2> QED
    BY <2>3, <2>4
<1>10. \A c \in Clients, u \in Chats : chats'[u].sess = session[c] => chats'[u].client = c
  BY <1>4 DEF ClientInv
<1> HIDE DEF d
<1> QED
  BY <1>3, <1>5, <1>6, <1>7, <1>8, <1>9, <1>10 DEF ClientInv

LEMMA ClientArrives ==
  ASSUME TypeInv, ClientInv, NEW d \in Clients, ChatArrives(d)
  PROVE  ClientInv'
<1> DEFINE t == Len(chats')
<1>1. Comes(d)
  BY ArrivesComes
<1>2. /\ Len(chats) \in Nat /\ Len(told) \in Nat
      /\ session \in [Clients -> 0 .. Len(told)]
      /\ history \in [Clients -> 0 .. ids]
      /\ keyed \subseteq Clients
      /\ early \in {early} /\ hello \in [Clients -> {"no", "creating", "handled"}]
  BY DEF TypeInv, ChatsTyped, TypeOK
<1>3. /\ Chats' = Chats \cup {t} /\ t \notin Chats /\ \A u \in Chats : u < t
      /\ t \in Nat
  BY <1>1, <1>2 DEF Comes, Chats
<1>4. /\ chats'[t].client = d /\ chats'[t].sess = SessionFor(d) /\ chats'[t].hist = history[d]
      /\ chats'[t].at = "creating" => history[d] = NoSession
  BY <1>1 DEF Comes, Task
<1>5. \A u \in Chats : chats'[u] = chats[u]
  BY <1>1 DEF Comes
<1>6. /\ keyed' = keyed /\ history' = history /\ hello' = hello
      /\ session' = [session EXCEPT ![d] = SessionFor(d)]
      /\ early' = (IF hello[d] # "handled" THEN early \cup {d} ELSE early)
      /\ overlapped' = (IF \E u \in Chats : chats[u].client = d /\ Running(u)
                        THEN overlapped \cup {d} ELSE overlapped)
      /\ d \in keyed
  BY DEF ChatArrives
<1>7. /\ early \subseteq early' /\ overlapped \subseteq overlapped'
      /\ d \notin early' => hello[d] = "handled"
      /\ d \notin overlapped' => \A u \in Of(d) : ~Running(u)
  BY <1>6 DEF Of
<1>8. /\ SessionFor(d) = session[d] \/ SessionFor(d) = Len(told) + 1
      /\ session[d] # NoChat => SessionFor(d) = session[d]
      /\ SessionFor(d) # NoChat
  BY <1>2 DEF SessionFor, NoChat
<1>9. \A c \in Clients : session'[c] = IF c = d THEN SessionFor(d) ELSE session[c]
  BY <1>2, <1>6
<1> HIDE DEF t
<1>10. /\ Of(d)' = Of(d) \cup {t}
       /\ \A c \in Clients : c # d => Of(c)' = Of(c)
       /\ \A c \in Clients : Of(c) \subseteq Chats
  BY <1>3, <1>4, <1>5 DEF Of
<1>11. \A c \in Clients : c \notin early' /\ hello'[c] # "handled" => Of(c)' = {}
  BY <1>6, <1>7, <1>10 DEF ClientInv
<1>12. \A c \in keyed' : hello'[c] # "no" => session'[c] # NoChat
  BY <1>2, <1>6, <1>8, <1>9 DEF ClientInv
<1>13. ASSUME NEW c \in Clients, NEW e \in Clients, session'[c] = session'[e]
       PROVE  c = e \/ session'[c] = NoChat
  <2>1. session[c] \in 0 .. Len(told) /\ session[e] \in 0 .. Len(told)
    BY <1>2
  <2>2. session[c] = session[e] => c = e \/ session[c] = NoChat
    BY DEF ClientInv
  <2>3. /\ session[c] = session[d] => c = d \/ session[c] = NoChat
        /\ session[e] = session[d] => e = d \/ session[e] = NoChat
    BY DEF ClientInv
  <2>4. SessionFor(d) = Len(told) + 1 => session[c] # SessionFor(d) /\ session[e] # SessionFor(d)
    BY <1>2, <2>1
  <2> QED
    BY <1>8, <1>9, <1>13, <2>2, <2>3, <2>4
<1>14. ASSUME NEW c \in Clients, NEW u \in Chats', chats'[u].sess = session'[c]
       PROVE  chats'[u].client = c
  <2>1. CASE u = t
    <3>1. SessionFor(d) = session'[c]
      BY <1>4, <1>14, <2>1
    <3>2. session'[d] = session'[c] /\ session'[c] # NoChat
      BY <1>8, <1>9, <3>1
    <3> QED
      BY <1>4, <1>13, <2>1, <3>2
  <2>2. CASE u # t
    <3>1. u \in Chats /\ chats'[u] = chats[u]
      BY <1>3, <1>5, <2>2
    <3>2. chats[u].sess \in 1 .. Len(told)
      BY <3>1, TaskTyped
    <3>3. session'[c] # Len(told) + 1
      BY <1>2, <1>14, <3>1, <3>2
    <3>4. session'[c] = session[c]
      BY <1>8, <1>9, <3>3
    <3> QED
      BY <1>14, <3>1, <3>4 DEF ClientInv
  <2> QED
    BY <2>1, <2>2
<1>15. ASSUME NEW c \in Clients \ overlapped', NEW x \in Of(c)', NEW u \in Of(c)', x < u
       PROVE  ~Running(x)'
  <2>1. c \in Clients \ overlapped
    BY <1>7
  <2>2. x # t
    BY <1>3, <1>10, <1>15, <2>1 DEF Of, Chats
  <2>3. x \in Of(c) /\ x \in Chats
    BY <1>10, <2>2
  <2>4. ~Running(x)
    <3>1. CASE u = t /\ c = d
      BY <1>7, <2>3, <3>1
    <3>2. CASE u # t \/ c # d
      <4>1. u \in Of(c)
        BY <1>10, <3>2
      <4> QED
        BY <1>15, <2>1, <2>3, <4>1 DEF ClientInv
    <3> QED
      BY <3>1, <3>2
  <2> QED
    BY <1>5, <2>3, <2>4 DEF Running
<1>16. ASSUME NEW c \in keyed' \ (early' \cup overlapped'), NEW u \in Of(c)'
       PROVE  /\ chats'[u].sess = session'[c]
              /\ chats'[u].hist = NoSession \/ chats'[u].hist = history'[c]
              /\ chats'[u].at = "creating" => history'[c] = NoSession
  <2>1. c \in keyed \ (early \cup overlapped) /\ c \in Clients
    BY <1>2, <1>6, <1>7
  <2>2. CASE u = t /\ c = d
    BY <1>4, <1>6, <1>9, <2>1, <2>2
  <2>3. CASE u # t \/ c # d
    <3>1. u \in Of(c) /\ u \in Chats
      BY <1>10, <2>1, <2>3
    <3>2. /\ chats[u].sess = session[c]
          /\ chats[u].hist = NoSession \/ chats[u].hist = history[c]
          /\ chats[u].at = "creating" => history[c] = NoSession
      BY <2>1, <3>1 DEF ClientInv
    <3>3. session'[c] = session[c]
      <4>1. c = d => hello[d] # "no"
        BY <1>7
      <4>2. c = d => session[d] # NoChat
        BY <2>1, <4>1 DEF ClientInv
      <4> QED
        BY <1>8, <1>9, <2>1, <4>2
    <3> QED
      BY <1>5, <1>6, <3>1, <3>2, <3>3
  <2> QED
    BY <2>2, <2>3
<1> QED
  BY <1>11, <1>12, <1>13, <1>14, <1>15, <1>16 DEF ClientInv

LEMMA ClientInit == Init => ClientInv
BY DEF Init, ClientInv, Of, Chats, NoChat

\* The chats are not concerned; the client a step is about has none yet, or is early.
LEMMA ClientsMapped ==
  ASSUME TypeInv, ClientInv, NEW d \in Clients, chats' = chats,
         early' = early, overlapped' = overlapped,
         \A c \in Clients : c # d => /\ session'[c] = session[c] /\ history'[c] = history[c]
                                     /\ hello'[c] = hello[c] /\ (c \in keyed' => c \in keyed),
         keyed' \subseteq Clients,
         d \in early \/ Of(d) = {},
         d \in keyed' /\ hello'[d] # "no" => session'[d] # NoChat,
         \A c \in Clients : c # d => session'[d] # session[c] \/ session'[d] = NoChat,
         \A t \in Chats : chats[t].sess = session'[d] => chats[t].client = d
  PROVE  ClientInv'
<1>1. Chats' = Chats /\ \A c : Of(c)' = Of(c)
  BY DEF Chats, Of
<1>2. \A c \in Clients : c \notin early' /\ hello'[c] # "handled" => Of(c) = {}
  BY DEF ClientInv
<1>3. \A c \in keyed' : hello'[c] # "no" => session'[c] # NoChat
  BY DEF ClientInv
<1>4. \A c, e \in Clients : session'[c] = session'[e] => c = e \/ session'[c] = NoChat
  <2> SUFFICES ASSUME NEW c \in Clients, NEW e \in Clients, session'[c] = session'[e], c # e
               PROVE  session'[c] = NoChat
    OBVIOUS
  <2>1. CASE c # d /\ e # d
    BY <2>1 DEF ClientInv
  <2>2. CASE c = d \/ e = d
    BY <2>2
  <2> QED
    BY <2>1, <2>2
<1>5. \A c \in Clients, t \in Chats : chats[t].sess = session'[c] => chats[t].client = c
  BY DEF ClientInv
<1>6. \A c \in Clients \ overlapped : \A t, u \in Of(c) : t < u => ~Running(t)'
  BY DEF ClientInv, Running
<1>7. ASSUME NEW c \in keyed' \ (early \cup overlapped), NEW t \in Of(c)
      PROVE  /\ chats[t].sess = session'[c]
             /\ chats[t].hist = NoSession \/ chats[t].hist = history'[c]
             /\ chats[t].at = "creating" => history'[c] = NoSession
  <2>1. c # d /\ c \in Clients
    BY <1>7
  <2> QED
    BY <1>7, <2>1 DEF ClientInv
<1> QED
  BY <1>1, <1>2, <1>3, <1>4, <1>5, <1>6, <1>7 DEF ClientInv

LEMMA ClientStepKeeps ==
  ASSUME TypeInv, ClientInv, NEW d \in Clients, ClientStep(d)
  PROVE  ClientInv'
<1>0. /\ keyed \subseteq Clients
      /\ session \in [Clients -> 0 .. Len(told)] /\ Len(told) \in Nat
      /\ history \in [Clients -> 0 .. ids]
      /\ hello \in [Clients -> {"no", "creating", "handled"}]
  BY DEF TypeInv, ChatsTyped, TypeOK
<1>1. CASE Handshake(d)
  <2>1. Of(d) = {}
    BY <1>1 DEF Handshake, Of
  <2>2. /\ chats' = chats /\ early' = early /\ overlapped' = overlapped
        /\ history' = history /\ hello' = hello /\ hello[d] = "no"
        /\ session' = [session EXCEPT ![d] = NoChat] /\ keyed' = keyed \cup {d}
    BY <1>1 DEF Handshake, turnVars, histories
  <2>3. \A t \in Chats : chats[t].sess # NoChat
    BY TaskTyped DEF NoChat
  <2> QED
    BY <1>0, <2>1, <2>2, <2>3, ClientsMapped
<1>2. CASE HelloArrives(d)
  <2>1. /\ chats' = chats /\ early' = early /\ overlapped' = overlapped
        /\ history' = history /\ keyed' = keyed /\ hello[d] = "no"
        /\ hello' = [hello EXCEPT ![d] = "creating"]
    BY <1>2 DEF HelloArrives, histories
  <2>2. d \in early \/ Of(d) = {}
    BY <2>1 DEF ClientInv
  <2>3. session' = [session EXCEPT ![d] = Len(told) + 1]
    <3>1. told' = Append(told, <<>>) /\ session' = [session EXCEPT ![d] = Len(told')]
      BY <1>2 DEF HelloArrives
    <3>2. Len(told') = Len(told) + 1
      BY <3>1 DEF TypeInv, ChatsTyped
    <3> QED
      BY <3>1, <3>2
  <2>4. session'[d] = Len(told) + 1 /\ session'[d] # NoChat
    BY <1>0, <2>3 DEF NoChat
  <2>5. \A t \in Chats : chats[t].sess # session'[d]
    BY <1>0, <2>4, TaskTyped
  <2>6. \A c \in Clients : session'[d] # session[c]
    BY <1>0, <2>4
  <2> QED
    BY <1>0, <2>1, <2>2, <2>3, <2>4, <2>5, <2>6, ClientsMapped
<1>3. CASE HelloCreates(d)
  <2>1. /\ chats' = chats /\ early' = early /\ overlapped' = overlapped
        /\ session' = session /\ keyed' = keyed /\ hello[d] = "creating"
        /\ hello' = [hello EXCEPT ![d] = "handled"]
        /\ history' = [history EXCEPT ![d] = ids']
    BY <1>3 DEF HelloCreates, turnVars, histories
  <2>2. d \in early \/ Of(d) = {}
    BY <2>1 DEF ClientInv
  <2>3. /\ d \in keyed' => session[d] # NoChat
        /\ \A c \in Clients : c # d => session[d] # session[c] \/ session[d] = NoChat
        /\ \A t \in Chats : chats[t].sess = session[d] => chats[t].client = d
    BY <2>1 DEF ClientInv
  <2> QED
    BY <1>0, <2>1, <2>2, <2>3, ClientsMapped
<1>4. CASE HelloFails(d)
  <2>1. /\ chats' = chats /\ early' = early /\ overlapped' = overlapped
        /\ session' = session /\ keyed' = keyed /\ hello[d] = "creating"
        /\ hello' = [hello EXCEPT ![d] = "handled"]
        /\ history' = history
    BY <1>4 DEF HelloFails, turnVars, histories
  <2>2. d \in early \/ Of(d) = {}
    BY <2>1 DEF ClientInv
  <2>3. /\ d \in keyed' => session[d] # NoChat
        /\ \A c \in Clients : c # d => session[d] # session[c] \/ session[d] = NoChat
        /\ \A t \in Chats : chats[t].sess = session[d] => chats[t].client = d
    BY <2>1 DEF ClientInv
  <2> QED
    BY <1>0, <2>1, <2>2, <2>3, ClientsMapped
<1> QED
  BY <1>1, <1>2, <1>3, <1>4, ClientArrives DEF ClientStep

\* Every step of a chat but its first is one of those that GoOn describes.
LEMMA ChatGoesOn ==
  ASSUME TypeInv, NEW t \in Chats, ChatStep(t), ~ChatCreates(t)
  PROVE  GoOn /\ UNCHANGED clientVars /\ early' = early /\ overlapped' = overlapped
<1>1. PICK at \in Places : chats' = Goes(t, at) /\ Running(t) /\ at # "creating"
  BY DEF ChatStep, RecordPrompt, StreamStarts, StreamEnds, RecordReply, ChatFails, Places, Running
<1>2. Moves(t, at)
  BY <1>1, GoesMoves
<1>3. GoOn
  BY <1>1, <1>2, MovesGoOn
<1> QED
  BY <1>3 DEF ChatStep, RecordPrompt, StreamStarts, StreamEnds, RecordReply, ChatFails, histories

LEMMA ClientStepInv == TypeInv /\ RowInv /\ ClientInv /\ [Next]_vars => ClientInv'
<1> SUFFICES ASSUME TypeInv, RowInv, ClientInv, [Next]_vars PROVE ClientInv'
  OBVIOUS
<1>1. ASSUME NEW c \in Clients, ClientStep(c) PROVE ClientInv'
  BY <1>1, ClientStepKeeps
<1>2. ASSUME NEW t \in Chats, ChatStep(t) PROVE ClientInv'
  BY <1>2, ChatGoesOn, ClientsKept, ClientCreates
<1>3. ASSUME NEW p \in passes, Distill(p) PROVE ClientInv'
  BY <1>3, SameGoOn, ClientsKept DEF Distill, turnVars, histories
<1>4. CASE LinkResets
  <2>1. /\ keyed' = {} /\ session' = [c \in Clients |-> NoChat]
        /\ chats' = chats /\ hello' = hello /\ early' = early /\ overlapped' = overlapped
    BY <1>4 DEF LinkResets, turnVars, histories
  <2>2. Chats' = Chats /\ \A c : Of(c)' = Of(c)
    BY <2>1 DEF Chats, Of
  <2>3. \A t \in Chats : chats[t].sess # NoChat
    BY TaskTyped DEF NoChat
  <2> QED
    BY <2>1, <2>2, <2>3 DEF ClientInv, Running
<1>5. CASE Store
  BY <1>5, SameGoOn, ClientsKept DEF Store, turnVars, histories
<1>6. CASE UNCHANGED vars
  BY <1>6, SameGoOn, ClientsKept DEF vars, turnVars, histories
<1> QED
  BY <1>1, <1>2, <1>3, <1>4, <1>5, <1>6 DEF Next

-----------------------------------------------------------------------------
(* The turns: the history and the agent are told the same story.           *)

\* The chats go forward, and those outside S to no place where more is told or recorded.
Onward(S) ==
  /\ \A u \in Chats : /\ u \in Chats'
                      /\ chats'[u].client = chats[u].client
                      /\ chats'[u].sess = chats[u].sess
                      /\ chats[u].at \in Recorded => chats'[u].at \in Recorded
                      /\ chats[u].at \in Started => chats'[u].at \in Started
                      /\ chats[u].at \in Ended => chats'[u].at \in Ended
                      /\ chats[u].at = "over" => chats'[u].at = "over"
  /\ \A c \in Clients : c \in overlapped => c \in overlapped'
  /\ \A u \in Chats' \ S :
       /\ chats'[u].at \in {"streaming", "saving"} => u \in Chats /\ chats[u].at = chats'[u].at
       /\ Done(u)' => u \in Chats /\ Done(u)

LEMMA SameOnward ==
  ASSUME chats' = chats, overlapped' = overlapped, failed' = failed
  PROVE  Onward({})
BY DEF Onward, Chats, Done

LEMMA ComesOnward ==
  ASSUME TypeInv, NEW c \in Clients, ChatArrives(c)
  PROVE  Onward({})
<1>1. Comes(c)
  BY ArrivesComes
<1>2. Len(chats) \in Nat
  BY DEF TypeInv, ChatsTyped
<1>3. Chats' = Chats \cup {Len(chats')}
  BY <1>1, <1>2 DEF Comes, Chats
<1>4. chats'[Len(chats')].at \in {"creating", "asking"}
  BY <1>1 DEF Comes, Task
<1>5. \A u \in Chats : chats'[u] = chats[u]
  BY <1>1 DEF Comes
<1>6. overlapped \subseteq overlapped' /\ failed' = failed
  BY DEF ChatArrives
<1> QED
  BY <1>3, <1>4, <1>5, <1>6 DEF Onward, Done

LEMMA BeginsOnward ==
  ASSUME TypeInv, NEW t \in Chats, ChatCreates(t)
  PROVE  Onward({})
<1>1. Begins(t)
  BY CreatesBegins
<1>2. Chats' = Chats
  BY <1>1 DEF Begins, Chats
<1>3. \A u \in Chats : u # t => chats'[u] = chats[u]
  BY <1>1 DEF Begins
<1>4. /\ chats'[t].client = chats[t].client /\ chats'[t].sess = chats[t].sess
      /\ chats'[t].at = "asking" /\ chats[t].at = "creating"
  BY <1>1 DEF Begins, ChatCreates
<1>5. overlapped' = overlapped /\ failed' = failed
  BY DEF ChatCreates, histories
<1> QED
  BY <1>2, <1>3, <1>4, <1>5 DEF Onward, Done, Recorded, Started, Ended

\* The chat moves on, one place or to the end.
LEMMA MovesOnward ==
  ASSUME TypeInv, NEW t \in Chats, NEW at \in Places, Moves(t, at),
         \/ chats[t].at = "asking" /\ at = "thinking"
         \/ chats[t].at = "thinking" /\ at = "streaming"
         \/ chats[t].at = "streaming" /\ at = "saving"
         \/ at = "over",
         overlapped' = overlapped, failed \subseteq failed'
  PROVE  /\ Onward({t})
         /\ at = "thinking" \/ (at = "over" /\ t \in failed') => Onward({})
<1>1. Chats' = Chats
  BY DEF Moves, Chats
<1>2. \A u \in Chats : /\ chats'[u].client = chats[u].client
                       /\ chats'[u].sess = chats[u].sess
                       /\ u # t => chats'[u].at = chats[u].at
  BY DEF Moves
<1>3. chats'[t].at = at
  BY DEF Moves
<1>4. \A u \in Chats \ {t} : Done(u)' => Done(u)
  BY <1>2 DEF Done
<1>5. at = "thinking" \/ (at = "over" /\ t \in failed') => ~Done(t)'
  BY <1>3 DEF Done
<1>6. \A u \in Chats : /\ chats[u].at \in Recorded => chats'[u].at \in Recorded
                       /\ chats[u].at \in Started => chats'[u].at \in Started
                       /\ chats[u].at \in Ended => chats'[u].at \in Ended
                       /\ chats[u].at = "over" => chats'[u].at = "over"
  BY <1>2, <1>3 DEF Recorded, Started, Ended
<1> QED
  BY <1>1, <1>2, <1>3, <1>4, <1>5, <1>6 DEF Onward

LEMMA LineTyped ==
  ASSUME TypeInv, RowInv, NEW i \in DOMAIN messages
  PROVE  /\ Line(i) = <<messages[i].role, messages[i].turn>>
         /\ messages[i].role \in Roles /\ messages[i].turn \in Chats
         /\ chats[messages[i].turn].client \in Clients
BY RowTyped, TaskTyped DEF Line, Rows

LEMMA RecordInit == Init => RecordInv
BY DEF Init, StoreInit, RecordInv, Chats, Empty

LEMMA RecordsShrink ==
  ASSUME TypeInv, RowInv, RecordInv, Shrinks, NEW S, Onward(S), \A t \in S : ~Done(t)'
  PROVE  RecordInv'
<1>1. /\ DOMAIN messages' \subseteq DOMAIN messages
      /\ \A i \in DOMAIN messages' : messages'[i] = messages[i]
      /\ \A j \in DOMAIN messages \ DOMAIN messages' : Line(j) \in erased'
      /\ erased \subseteq erased'
  BY DEF Shrinks, Line
<1>2. \A i \in DOMAIN messages' : Line(i)' = Line(i)
  BY <1>1 DEF Line
<1>3. ASSUME NEW i \in DOMAIN messages'
      PROVE  /\ chats'[messages'[i].turn].at \in Recorded
             /\ messages'[i].role = "assistant" => chats'[messages'[i].turn].at = "over"
  <2>1. /\ messages'[i] = messages[i] /\ messages[i].turn \in Chats
        /\ chats[messages[i].turn].at \in Recorded
        /\ messages[i].role = "assistant" => chats[messages[i].turn].at = "over"
    BY <1>1, LineTyped DEF RecordInv
  <2> QED
    BY <2>1 DEF Onward
<1>4. ASSUME NEW t \in Chats', NEW role \in Roles, Done(t)'
      PROVE  <<role, t>> \in erased' \/ \E i \in DOMAIN messages' : Line(i)' = <<role, t>>
  <2>1. t \in Chats /\ Done(t)
    BY <1>4 DEF Onward
  <2>2. <<role, t>> \in erased \/ \E i \in DOMAIN messages : Line(i) = <<role, t>>
    BY <2>1 DEF RecordInv
  <2> QED
    BY <1>1, <1>2, <2>2
<1>5. ASSUME NEW i \in DOMAIN messages', NEW j \in DOMAIN messages', i < j,
             chats'[messages'[i].turn].client = chats'[messages'[j].turn].client,
             Lonely(messages[i].turn)'
      PROVE  Before(Line(i), Line(j))'
  <2>1. /\ i \in DOMAIN messages /\ j \in DOMAIN messages
        /\ messages'[i] = messages[i] /\ messages'[j] = messages[j]
    BY <1>1
  <2>2. /\ messages[i].turn \in Chats /\ messages[j].turn \in Chats
        /\ chats[messages[i].turn].client \in Clients
    BY <2>1, LineTyped
  <2>3. /\ chats[messages[i].turn].client = chats[messages[j].turn].client
        /\ Lonely(messages[i].turn)
    BY <1>5, <2>1, <2>2 DEF Onward, Lonely
  <2>4. Before(Line(i), Line(j))
    BY <1>5, <2>1, <2>3 DEF RecordInv
  <2> QED
    BY <1>2, <2>4 DEF Before
<1>6. \A i, j \in DOMAIN messages' :
       /\ i < j
       /\ chats'[messages'[i].turn].client = chats'[messages'[j].turn].client
       /\ Lonely(messages[i].turn)'
       => Before(Line(i), Line(j))'
  BY <1>5
<1> QED
  BY <1>3, <1>4, <1>6 DEF RecordInv

LEMMA RecordsAdd ==
  ASSUME TypeInv, RowInv, ClientInv, RecordInv, NEW t \in Chats, NEW role \in Roles,
         Adds(role, t),
         \/ chats[t].at = "asking" /\ role = "user" /\ Onward({})
         \/ chats[t].at = "saving" /\ role = "assistant" /\ Onward({t}),
         chats'[t].at \in Recorded,
         role = "assistant" => chats'[t].at = "over"
  PROVE  RecordInv'
<1> DEFINE row == Message(chats[t].hist, role, t)
<1>0. row.role = role /\ row.turn = t
  BY DEF Message
<1>1. /\ DOMAIN messages' = DOMAIN messages \cup {clock} /\ clock \notin DOMAIN messages
      /\ \A i \in DOMAIN messages : messages'[i] = messages[i]
      /\ messages'[clock] = row
      /\ erased' = erased
  BY DEF Adds, TypeInv, StoreTyped
<1> HIDE DEF row
<1>2. /\ \A i \in DOMAIN messages : Line(i)' = Line(i)
      /\ \A i \in DOMAIN messages' : i = clock => Line(i)' = <<role, t>>
  BY <1>0, <1>1 DEF Line
<1>3. /\ Onward({t})
      /\ \A u \in Chats : /\ chats'[u].client = chats[u].client
                          /\ chats[u].at \in Recorded => chats'[u].at \in Recorded
                          /\ chats[u].at = "over" => chats'[u].at = "over"
      /\ \A c \in Clients : c \in overlapped => c \in overlapped'
  BY DEF Onward
<1>4. ASSUME NEW i \in DOMAIN messages'
      PROVE  /\ chats'[messages'[i].turn].at \in Recorded
             /\ messages'[i].role = "assistant" => chats'[messages'[i].turn].at = "over"
  <2>1. CASE i = clock
    BY <1>0, <1>1, <2>1
  <2>2. CASE i # clock
    <3>1. /\ i \in DOMAIN messages /\ messages'[i] = messages[i]
          /\ messages[i].turn \in Chats
      BY <1>1, <2>2, LineTyped
    <3> QED
      BY <1>3, <3>1 DEF RecordInv
  <2> QED
    BY <2>1, <2>2
<1>5. ASSUME NEW u \in Chats', NEW r \in Roles, Done(u)'
      PROVE  <<r, u>> \in erased' \/ \E i \in DOMAIN messages' : Line(i)' = <<r, u>>
  <2>1. CASE u # t \/ Done(u)
    <3>1. u \in Chats /\ Done(u)
      BY <1>3, <1>5, <2>1 DEF Onward
    <3>2. <<r, u>> \in erased \/ \E i \in DOMAIN messages : Line(i) = <<r, u>>
      BY <3>1 DEF RecordInv
    <3> QED
      BY <1>1, <1>2, <3>2
  <2>2. CASE u = t /\ ~Done(u)
    <3>1. chats[t].at = "saving" /\ role = "assistant"
      BY <1>5, <2>2 DEF Onward
    <3>2. CASE r = "assistant"
      BY <1>1, <1>2, <2>2, <3>1, <3>2
    <3>3. CASE r = "user"
      <4>1. \/ <<"user", t>> \in erased
            \/ \E j \in DOMAIN messages : messages[j] = Message(chats[t].hist, "user", t)
        BY <3>1 DEF RowInv, Asked
      <4>2. \A j \in DOMAIN messages :
              messages[j] = Message(chats[t].hist, "user", t) => Line(j) = <<"user", t>>
        BY DEF Line, Message
      <4> QED
        BY <1>1, <1>2, <2>2, <3>3, <4>1, <4>2
    <3> QED
      BY <3>2, <3>3 DEF Roles
  <2> QED
    BY <2>1, <2>2
<1>6. ASSUME NEW i \in DOMAIN messages', NEW j \in DOMAIN messages', i < j,
             chats'[messages'[i].turn].client = chats'[messages'[j].turn].client,
             Lonely(messages[i].turn)'
      PROVE  Before(Line(i), Line(j))'
  <2>1. i \in DOMAIN messages /\ messages'[i] = messages[i]
    <3>1. \A k \in DOMAIN messages : k \in Nat /\ k < clock
      BY RowTyped
    <3>2. clock \in Nat
      BY DEF TypeInv, StoreTyped
    <3>3. i # clock
      BY <1>1, <1>6, <3>1, <3>2
    <3> QED
      BY <1>1, <3>3
  <2>2. /\ messages[i].turn \in Chats /\ messages[i].role \in Roles
        /\ chats[messages[i].turn].client \in Clients
    BY <2>1, LineTyped
  <2>3. Lonely(messages[i].turn)
    BY <1>3, <1>6, <2>1, <2>2 DEF Lonely
  <2>4. CASE j # clock
    <3>1. j \in DOMAIN messages /\ messages'[j] = messages[j]
      BY <1>1, <2>4
    <3>2. messages[j].turn \in Chats
      BY <3>1, LineTyped
    <3>3. chats[messages[i].turn].client = chats[messages[j].turn].client
      BY <1>3, <1>6, <2>1, <2>2, <3>1, <3>2
    <3>4. Before(Line(i), Line(j))
      BY <1>6, <2>1, <2>3, <3>1, <3>3 DEF RecordInv
    <3> QED
      BY <1>2, <2>1, <3>1, <3>4 DEF Before
  <2>5. CASE j = clock
    <3> DEFINE u == messages[i].turn
    <3>1. /\ chats[u].client = chats[t].client /\ chats[t].client \in Clients \ overlapped
          /\ t \in Of(chats[t].client) /\ u \in Of(chats[t].client)
      BY <1>0, <1>1, <1>3, <1>6, <2>1, <2>2, <2>3, <2>5, TaskTyped DEF Of, Lonely
    <3>2. Running(t)
      BY DEF Running
    <3>3. CASE u # t
      <4>1. u < t
        BY <3>1, <3>2, <3>3, OneRuns
      <4> QED
        BY <1>2, <2>1, <2>5, <4>1 DEF Before, Line
    <3>4. CASE u = t
      <4>1. /\ chats[t].at \in Recorded
            /\ messages[i].role = "assistant" => chats[t].at = "over"
        BY <2>1, <3>4 DEF RecordInv
      <4>2. role = "assistant" /\ messages[i].role = "user"
        BY <2>2, <4>1 DEF Recorded, Roles
      <4> QED
        BY <1>2, <2>1, <2>5, <3>4, <4>2 DEF Before, Line
    <3> QED
      BY <3>3, <3>4
  <2> QED
    BY <2>4, <2>5
<1>7. \A i, j \in DOMAIN messages' :
       /\ i < j
       /\ chats'[messages'[i].turn].client = chats'[messages'[j].turn].client
       /\ Lonely(messages[i].turn)'
       => Before(Line(i), Line(j))'
  BY <1>6
<1> QED
  BY <1>4, <1>5, <1>7 DEF RecordInv

LEMMA RecordStep == TypeInv /\ RowInv /\ ClientInv /\ RecordInv /\ [Next]_vars => RecordInv'
<1> SUFFICES ASSUME TypeInv, RowInv, ClientInv, RecordInv, [Next]_vars PROVE RecordInv'
  OBVIOUS
<1>1. ASSUME NEW c \in Clients, ClientStep(c) PROVE RecordInv'
  <2>1. Shrinks
    BY <1>1, NothingPurges, CreatePurges
    DEF ClientStep, Handshake, HelloArrives, HelloCreates, HelloFails, ChatArrives, storeVars
  <2>2. CASE ChatArrives(c)
    BY <2>1, <2>2, ComesOnward, RecordsShrink
  <2>3. CASE ~ChatArrives(c)
    <3>1. chats' = chats /\ overlapped' = overlapped /\ failed' = failed
      BY <1>1, <2>3 DEF ClientStep, Handshake, HelloArrives, HelloCreates, HelloFails,
                        turnVars, histories
    <3> QED
      BY <2>1, <3>1, SameOnward, RecordsShrink
  <2> QED
    BY <2>2, <2>3
<1>2. ASSUME NEW t \in Chats, ChatStep(t) PROVE RecordInv'
  <2>1. CASE ChatCreates(t)
    BY <2>1, BeginsOnward, CreatePurges, RecordsShrink DEF ChatCreates
  <2>2. CASE RecordPrompt(t)
    <3>1. /\ Moves(t, "thinking") /\ chats[t].at = "asking"
          /\ overlapped' = overlapped /\ failed' = failed
      BY <2>2, GoesMoves DEF RecordPrompt, Places, histories
    <3>2. Onward({}) /\ chats'[t].at = "thinking"
      BY <3>1, MovesOnward DEF Places, Moves
    <3>3. Adds("user", t)
      BY <2>2, RecordAdds DEF RecordPrompt, Roles
    <3> QED
      BY <3>1, <3>2, <3>3, RecordsAdd DEF Roles, Recorded
  <2>3. CASE StreamStarts(t)
    <3>1. /\ Moves(t, "streaming") /\ chats[t].at = "thinking"
          /\ overlapped' = overlapped /\ failed' = failed
      BY <2>3, GoesMoves DEF StreamStarts, Places, histories
    <3>2. Onward({t}) /\ ~Done(t)'
      BY <3>1, MovesOnward DEF Places, Moves, Done
    <3> QED
      BY <2>3, <3>1, <3>2, NothingPurges, RecordsShrink DEF StreamStarts, storeVars
  <2>4. CASE StreamEnds(t)
    <3>1. /\ Moves(t, "saving") /\ chats[t].at = "streaming"
          /\ overlapped' = overlapped /\ failed' = failed
      BY <2>4, GoesMoves DEF StreamEnds, Places, histories
    <3>2. Onward({t}) /\ ~Done(t)'
      BY <3>1, MovesOnward DEF Places, Moves, Done
    <3> QED
      BY <2>4, <3>1, <3>2, NothingPurges, RecordsShrink DEF StreamEnds, storeVars
  <2>5. CASE RecordReply(t)
    <3>1. /\ Moves(t, "over") /\ chats[t].at = "saving"
          /\ overlapped' = overlapped /\ failed' = failed
      BY <2>5, GoesMoves DEF RecordReply, Places, histories
    <3>2. Onward({t}) /\ chats'[t].at = "over"
      BY <3>1, MovesOnward DEF Places, Moves
    <3>3. Adds("assistant", t)
      BY <2>5, RecordAdds DEF RecordReply, ReplyHistory, Roles
    <3> QED
      BY <3>1, <3>2, <3>3, RecordsAdd DEF Roles, Recorded
  <2>6. CASE ChatFails(t)
    <3>1. /\ Moves(t, "over")
          /\ overlapped' = overlapped /\ failed' = failed \cup {t}
      BY <2>6, GoesMoves DEF ChatFails, Places
    <3>2. Onward({}) /\ Onward({t}) /\ chats'[t].at = "over"
      BY <3>1, MovesOnward DEF Places, Moves
    <3>3. CASE UNCHANGED storeVars
      BY <3>2, <3>3, NothingPurges, RecordsShrink DEF storeVars
    <3>4. CASE chats[t].at = "asking" /\ Record(chats[t].hist, "user", t)
      BY <3>2, <3>4, RecordAdds, RecordsAdd DEF Roles, Recorded
    <3>5. CASE chats[t].at = "saving" /\ Record(chats[t].hist, "assistant", t)
      BY <3>2, <3>5, RecordAdds, RecordsAdd DEF Roles, Recorded
    <3> QED
      BY <2>6, <3>3, <3>4, <3>5 DEF ChatFails, ReplyHistory
  <2> QED
    BY <1>2, <2>1, <2>2, <2>3, <2>4, <2>5, <2>6 DEF ChatStep
<1>3. ASSUME NEW p \in passes, Distill(p) PROVE RecordInv'
  BY <1>3, NothingPurges, SameOnward, RecordsShrink DEF Distill, storeVars, turnVars, histories
<1>4. CASE LinkResets
  BY <1>4, NothingPurges, SameOnward, RecordsShrink DEF LinkResets, storeVars, turnVars, histories
<1>5. CASE Store
  BY <1>5, StorePurges, SameOnward, RecordsShrink DEF Store, turnVars, histories
<1>6. CASE UNCHANGED vars
  BY <1>6, NothingPurges, SameOnward, RecordsShrink DEF vars, storeVars, turnVars, histories
<1> QED
  BY <1>1, <1>2, <1>3, <1>4, <1>5, <1>6 DEF Next

LEMMA ToldInit == Init => ToldInv
BY DEF Init, ToldInv, Chats

\* What has been told already is not taken back.
Longer ==
  /\ Len(told) <= Len(told')
  /\ \A s \in 1 .. Len(told) :
       /\ Len(told[s]) <= Len(told'[s])
       /\ \A n \in 1 .. Len(told[s]) : told'[s][n] = told[s][n]

\* The parts of ToldInv, for one entry and for two.
Entry(s, n) ==
  /\ told[s][n][2] \in Chats
  /\ chats[told[s][n][2]].sess = s
  /\ chats[told[s][n][2]].at \in Started
  /\ told[s][n][1] = "assistant" => chats[told[s][n][2]].at \in Ended

Heard(t, role) ==
  \E n \in 1 .. Len(told[chats[t].sess]) : told[chats[t].sess][n] = <<role, t>>

LEMMA SeqTyped ==
  ASSUME TypeInv
  PROVE  /\ Len(told) \in Nat
         /\ \A s \in 1 .. Len(told) : /\ told[s] \in Seq(Roles \X Nat) /\ Len(told[s]) \in Nat
                                      /\ \A n \in 1 .. Len(told[s]) : told[s][n] \in Roles \X Nat
<1>1. told \in Seq(Seq(Roles \X Nat))
  BY DEF TypeInv, ChatsTyped
<1>2. \A s \in 1 .. Len(told) : told[s] \in Seq(Roles \X Nat)
  BY <1>1
<1> QED
  BY <1>1, <1>2

LEMMA EntryStays ==
  ASSUME TypeInv, ToldInv, Longer, NEW S, Onward(S),
         NEW s \in 1 .. Len(told), NEW n \in 1 .. Len(told[s])
  PROVE  Entry(s, n)'
<1>1. Entry(s, n)
  BY DEF ToldInv, Entry
<1>2. told'[s][n] = told[s][n]
  BY DEF Longer
<1> QED
  BY <1>1, <1>2 DEF Entry, Onward

LEMMA HeardStays ==
  ASSUME TypeInv, Longer, NEW S, Onward(S), NEW t \in Chats, NEW role, Heard(t, role)
  PROVE  Heard(t, role)'
<1>1. chats[t].sess \in 1 .. Len(told) /\ chats'[t].sess = chats[t].sess
  BY TaskTyped DEF Onward
<1>2. PICK n \in 1 .. Len(told[chats[t].sess]) : told[chats[t].sess][n] = <<role, t>>
  BY DEF Heard
<1>3. /\ Len(told[chats[t].sess]) <= Len(told'[chats[t].sess])
      /\ told'[chats[t].sess][n] = <<role, t>>
  BY <1>1, <1>2 DEF Longer
<1>4. Len(told[chats[t].sess]) \in Nat
  BY <1>1, SeqTyped
<1>5. n \in 1 .. Len(told'[chats[t].sess])
  <2>1. n <= Len(told'[chats[t].sess])
    BY <1>2, <1>3, <1>4
  <2> QED
    BY <1>2, <2>1
<1> QED
  BY <1>1, <1>3, <1>5 DEF Heard

LEMMA PairStays ==
  ASSUME TypeInv, ToldInv, Longer, NEW S, Onward(S),
         NEW s \in 1 .. Len(told), NEW n \in 1 .. Len(told[s]), NEW m \in 1 .. Len(told[s]),
         n < m, (chats[told[s][n][2]].client = chats[told[s][m][2]].client)',
         Lonely(told[s][n][2])'
  PROVE  Before(told'[s][n], told'[s][m])
<1>1. told'[s][n] = told[s][n] /\ told'[s][m] = told[s][m]
  BY DEF Longer
<1>2. told[s][n][2] \in Chats /\ told[s][m][2] \in Chats
  BY DEF ToldInv
<1>3. chats[told[s][n][2]].client = chats[told[s][m][2]].client
  BY <1>1, <1>2 DEF Onward
<1>4. chats[told[s][n][2]].client \in Clients
  BY <1>2, TaskTyped
<1>5. Lonely(told[s][n][2])
  BY <1>1, <1>2, <1>4 DEF Lonely, Onward
<1> QED
  BY <1>1, <1>3, <1>5 DEF ToldInv

LEMMA Appended ==
  ASSUME NEW X, NEW q \in Seq(X), NEW e \in X
  PROVE  /\ Len(Append(q, e)) = Len(q) + 1 /\ Len(q) \in Nat
         /\ Append(q, e)[Len(q) + 1] = e
         /\ \A n \in 1 .. Len(q) : Append(q, e)[n] = q[n]
         /\ \A n \in 1 .. Len(q) + 1 : n \in 1 .. Len(q) \/ n = Len(q) + 1
OBVIOUS

\* Nothing more is told, or a ChatSession begins.
LEMMA ToldKept ==
  ASSUME TypeInv, ToldInv, NEW S, Onward(S),
         told' = told \/ told' = Append(told, <<>>),
         \A u \in S : u \in Chats /\ chats[u].at = "saving" /\ chats'[u].at = "over"
  PROVE  ToldInv'
<1>1. /\ Longer
      /\ \A s \in 1 .. Len(told') : \A n \in 1 .. Len(told'[s]) :
           s \in 1 .. Len(told) /\ n \in 1 .. Len(told[s])
  <2>1. CASE told' = told
    <3>1. \A s \in 1 .. Len(told) : Len(told[s]) \in Nat
      BY SeqTyped
    <3> QED
      BY <2>1, <3>1, SeqTyped DEF Longer
  <2>2. CASE told' = Append(told, <<>>)
    <3>1. /\ Len(told') = Len(told) + 1 /\ Len(told) \in Nat
          /\ told'[Len(told) + 1] = <<>>
          /\ \A s \in 1 .. Len(told) : told'[s] = told[s]
          /\ \A s \in 1 .. Len(told') : s \in 1 .. Len(told) \/ s = Len(told) + 1
      <4>1. told \in Seq(Seq(Roles \X Nat)) /\ <<>> \in Seq(Roles \X Nat)
        BY DEF TypeInv, ChatsTyped
      <4> QED
        BY <2>2, <4>1, Appended
    <3>2. \A s \in 1 .. Len(told) : Len(told[s]) \in Nat
      BY SeqTyped
    <3>3. Longer
      BY <3>1, <3>2 DEF Longer
    <3>4. ASSUME NEW s \in 1 .. Len(told'), NEW n \in 1 .. Len(told'[s])
          PROVE  s \in 1 .. Len(told) /\ n \in 1 .. Len(told[s])
      <4>1. s # Len(told) + 1
        BY <3>1
      <4> QED
        BY <3>1, <4>1
    <3> QED
      BY <3>3, <3>4
  <2> QED
    BY <2>1, <2>2
<1>2. ASSUME NEW s \in 1 .. Len(told'), NEW n \in 1 .. Len(told'[s])
      PROVE  Entry(s, n)'
  BY <1>1, EntryStays
<1>3. ASSUME NEW s \in 1 .. Len(told'),
             NEW n \in 1 .. Len(told'[s]), NEW m \in 1 .. Len(told'[s]),
             n < m, (chats[told[s][n][2]].client = chats[told[s][m][2]].client)',
             Lonely(told[s][n][2])'
      PROVE  Before(told'[s][n], told'[s][m])
  BY <1>1, <1>3, PairStays
<1>4. ASSUME NEW t \in Chats'
      PROVE  /\ chats'[t].at \in {"streaming", "saving"} \/ Done(t)' => Heard(t, "user")'
             /\ chats'[t].at = "saving" \/ Done(t)' => Heard(t, "assistant")'
  <2>1. CASE t \in S
    <3>1. t \in Chats /\ chats[t].at = "saving"
      BY <2>1
    <3>2. Heard(t, "user") /\ Heard(t, "assistant")
      BY <3>1 DEF ToldInv, Heard
    <3>3. Heard(t, "user")' /\ Heard(t, "assistant")'
      BY <1>1, <3>1, <3>2, HeardStays
    <3> QED
      BY <3>3
  <2>2. CASE t \notin S
    <3>1. /\ chats'[t].at \in {"streaming", "saving"} \/ Done(t)' =>
               t \in Chats /\ (chats[t].at \in {"streaming", "saving"} \/ Done(t))
          /\ chats'[t].at = "saving" \/ Done(t)' =>
               t \in Chats /\ (chats[t].at = "saving" \/ Done(t))
      BY <2>2 DEF Onward
    <3>2. t \in Chats =>
            /\ chats[t].at \in {"streaming", "saving"} \/ Done(t) => Heard(t, "user")
            /\ chats[t].at = "saving" \/ Done(t) => Heard(t, "assistant")
      BY DEF ToldInv, Heard
    <3>3. /\ t \in Chats /\ Heard(t, "user") => Heard(t, "user")'
          /\ t \in Chats /\ Heard(t, "assistant") => Heard(t, "assistant")'
      BY <1>1, HeardStays
    <3> QED
      BY <3>1, <3>2, <3>3
  <2> QED
    BY <2>1, <2>2
<1> QED
  <2>1. \A s \in 1 .. Len(told') : \A n \in 1 .. Len(told'[s]) :
          /\ told'[s][n][2] \in Chats'
          /\ chats'[told'[s][n][2]].sess = s
          /\ chats'[told'[s][n][2]].at \in Started
          /\ told'[s][n][1] = "assistant" => chats'[told'[s][n][2]].at \in Ended
    BY <1>2 DEF Entry
  <2>2. \A u \in Chats' :
          /\ chats'[u].at \in {"streaming", "saving"} \/ Done(u)' =>
               \E n \in 1 .. Len(told'[chats'[u].sess]) :
                 told'[chats'[u].sess][n] = <<"user", u>>
          /\ chats'[u].at = "saving" \/ Done(u)' =>
               \E n \in 1 .. Len(told'[chats'[u].sess]) :
                 told'[chats'[u].sess][n] = <<"assistant", u>>
    BY <1>4 DEF Heard
  <2> QED
    BY <2>1, <2>2, <1>3 DEF ToldInv

\* A turn starts, or ends.
LEMMA ToldMore ==
  ASSUME TypeInv, ClientInv, ToldInv, NEW t \in Chats, NEW role \in Roles, Onward({t}),
         told' = Told(chats[t].sess, role, t),
         \/ role = "user" /\ chats[t].at = "thinking" /\ chats'[t].at = "streaming"
         \/ role = "assistant" /\ chats[t].at = "streaming" /\ chats'[t].at = "saving"
  PROVE  ToldInv'
<1> DEFINE o == chats[t].sess
           l == Len(told[o]) + 1
<1>1. /\ Len(told') = Len(told) /\ Len(told) \in Nat
      /\ \A s \in 1 .. Len(told) : s # o => told'[s] = told[s]
      /\ told'[o] = Append(told[o], <<role, t>>)
      /\ o \in 1 .. Len(told) /\ told[o] \in Seq(Roles \X Nat)
  BY ToldTyped, SeqTyped, TaskTyped
<1>2. /\ Len(told'[o]) = l /\ l = Len(told[o]) + 1 /\ Len(told[o]) \in Nat
      /\ told'[o][l] = <<role, t>>
      /\ \A n \in 1 .. Len(told[o]) : told'[o][n] = told[o][n]
      /\ \A n \in 1 .. l : n \in 1 .. Len(told[o]) \/ n = l
  <2>1. <<role, t>> \in Roles \X Nat
    BY TaskTyped
  <2>2. /\ Len(Append(told[o], <<role, t>>)) = Len(told[o]) + 1 /\ Len(told[o]) \in Nat
        /\ Append(told[o], <<role, t>>)[Len(told[o]) + 1] = <<role, t>>
        /\ \A n \in 1 .. Len(told[o]) : Append(told[o], <<role, t>>)[n] = told[o][n]
        /\ \A n \in 1 .. Len(told[o]) + 1 : n \in 1 .. Len(told[o]) \/ n = Len(told[o]) + 1
    BY <1>1, <2>1, Appended, Zenon
  <2> QED
    BY <1>1, <2>2, Zenon
<1>n. l \in Nat
  <2>1. Len(told[o]) \in Nat
    BY <1>2, Zenon
  <2> QED
    BY <2>1
<1> HIDE DEF l, o
<1>3. Longer
  <2>1. ASSUME NEW s \in 1 .. Len(told)
        PROVE  /\ Len(told[s]) <= Len(told'[s])
               /\ \A n \in 1 .. Len(told[s]) : told'[s][n] = told[s][n]
    <3>1. CASE s = o
      BY <1>2, <3>1
    <3>2. CASE s # o
      <4>1. told'[s] = told[s] /\ Len(told[s]) \in Nat
        BY <1>1, <3>2, SeqTyped, Zenon
      <4> QED
        BY <4>1
    <3> QED
      BY <3>1, <3>2
  <2>2. Len(told) <= Len(told')
    BY <1>1
  <2> QED
    BY <2>1, <2>2 DEF Longer
<1>4. /\ t \in Chats' /\ chats'[t].sess = o /\ chats'[t].client = chats[t].client
  BY DEF Onward, o
<1>5. chats[t].client \in Clients /\ Running(t) /\ t \in Of(chats[t].client)
  BY TaskTyped DEF Running, Of
<1>6. ASSUME NEW s \in 1 .. Len(told'), NEW n \in 1 .. Len(told'[s])
      PROVE  Entry(s, n)'
  <2>1. CASE s = o /\ n = l
    <3>1. /\ told'[s][n] = <<role, t>>
      BY <1>2, <2>1
    <3>2. chats'[t].at \in Started /\ (role = "assistant" => chats'[t].at \in Ended)
      BY DEF Started, Ended
    <3> QED
      BY <1>4, <2>1, <3>1, <3>2 DEF Entry
  <2>2. CASE s # o \/ n # l
    <3>1. s \in 1 .. Len(told) /\ n \in 1 .. Len(told[s])
      BY <1>1, <1>2, <2>2
    <3> QED
      BY <1>3, <3>1, EntryStays
  <2> QED
    BY <2>1, <2>2
<1>7. ASSUME NEW u \in Chats'
      PROVE  /\ chats'[u].at \in {"streaming", "saving"} \/ Done(u)' => Heard(u, "user")'
             /\ chats'[u].at = "saving" \/ Done(u)' => Heard(u, "assistant")'
  <2>1. CASE u = t
    <3>1. Heard(t, role)'
      <4>1. l \in 1 .. Len(told'[o]) /\ told'[o][l] = <<role, t>>
        BY <1>2
      <4> QED
        BY <1>4, <4>1 DEF Heard
    <3>2. role = "assistant" => Heard(t, "user")'
      <4>1. role = "assistant" => Heard(t, "user")
        BY DEF ToldInv, Heard
      <4> QED
        BY <1>3, <4>1, HeardStays
    <3>3. role = "user" => ~(chats'[t].at = "saving" \/ Done(t)')
      BY DEF Done
    <3> QED
      BY <2>1, <3>1, <3>2, <3>3 DEF Roles
  <2>2. CASE u # t
    <3>1. /\ chats'[u].at \in {"streaming", "saving"} \/ Done(u)' =>
               u \in Chats /\ (chats[u].at \in {"streaming", "saving"} \/ Done(u))
          /\ chats'[u].at = "saving" \/ Done(u)' =>
               u \in Chats /\ (chats[u].at = "saving" \/ Done(u))
      BY <2>2 DEF Onward
    <3>2. u \in Chats =>
            /\ chats[u].at \in {"streaming", "saving"} \/ Done(u) => Heard(u, "user")
            /\ chats[u].at = "saving" \/ Done(u) => Heard(u, "assistant")
      BY DEF ToldInv, Heard
    <3>3. /\ u \in Chats /\ Heard(u, "user") => Heard(u, "user")'
          /\ u \in Chats /\ Heard(u, "assistant") => Heard(u, "assistant")'
      BY <1>3, HeardStays
    <3> QED
      BY <3>1, <3>2, <3>3
  <2> QED
    BY <2>1, <2>2
<1>8. ASSUME NEW s \in 1 .. Len(told'),
             NEW n \in 1 .. Len(told'[s]), NEW m \in 1 .. Len(told'[s]),
             n < m, (chats[told[s][n][2]].client = chats[told[s][m][2]].client)',
             Lonely(told[s][n][2])'
      PROVE  Before(told'[s][n], told'[s][m])
  <2>1. s \in 1 .. Len(told) /\ n \in 1 .. Len(told[s])
    <3>1. CASE s = o
      <4>0. Len(told'[s]) = l
        BY <1>2, <3>1, Zenon
      <4>1. n \in 1 .. l /\ m \in 1 .. l
        BY <4>0
      <4>2. n # l
        <5>1. l \in Nat /\ n < m
          BY <1>n, <1>8, Zenon
        <5> QED
          BY <4>1, <5>1
      <4>3. n \in 1 .. Len(told[o])
        BY <1>2, <4>1, <4>2, Zenon
      <4> QED
        BY <1>1, <3>1, <4>3, Zenon
    <3>2. CASE s # o
      BY <1>1, <3>2
    <3> QED
      BY <3>1, <3>2
  <2>2. CASE m \in 1 .. Len(told[s])
    BY <1>3, <1>8, <2>1, <2>2, PairStays
  <2>3. CASE m \notin 1 .. Len(told[s])
    <3>1. s = o /\ m = l
      BY <1>1, <1>2, <2>1, <2>3
    <3>2. told'[s][m] = <<role, t>> /\ told'[s][n] = told[s][n]
      BY <1>2, <2>1, <3>1
    <3>3. Entry(s, n)
      BY <2>1 DEF ToldInv, Entry
    <3>4. told[s][n] \in Roles \X Nat
      BY <2>1, SeqTyped
    <3> DEFINE u == told[s][n][2]
    <3>5. /\ u \in Chats /\ chats[u].client = chats[t].client
          /\ chats[t].client \notin overlapped
      BY <1>4, <1>5, <1>8, <3>2, <3>3 DEF Entry, Onward, Lonely
    <3>6. u \in Of(chats[t].client)
      BY <3>5 DEF Of
    <3>7. CASE u # t
      <4>1. u < t
        BY <1>5, <3>5, <3>6, <3>7, OneRuns
      <4> QED
        BY <3>2, <4>1 DEF Before
    <3>8. CASE u = t
      <4>1. role = "assistant" /\ told[s][n][1] = "user"
        BY <3>3, <3>4, <3>8 DEF Entry, Started, Ended, Roles
      <4> QED
        BY <3>2, <3>8, <4>1 DEF Before
    <3> QED
      BY <3>7, <3>8
  <2> QED
    BY <2>2, <2>3
<1> QED
  <2>1. \A s \in 1 .. Len(told') : \A n \in 1 .. Len(told'[s]) :
          /\ told'[s][n][2] \in Chats'
          /\ chats'[told'[s][n][2]].sess = s
          /\ chats'[told'[s][n][2]].at \in Started
          /\ told'[s][n][1] = "assistant" => chats'[told'[s][n][2]].at \in Ended
    BY <1>6 DEF Entry
  <2>2. \A u \in Chats' :
          /\ chats'[u].at \in {"streaming", "saving"} \/ Done(u)' =>
               \E n \in 1 .. Len(told'[chats'[u].sess]) :
                 told'[chats'[u].sess][n] = <<"user", u>>
          /\ chats'[u].at = "saving" \/ Done(u)' =>
               \E n \in 1 .. Len(told'[chats'[u].sess]) :
                 told'[chats'[u].sess][n] = <<"assistant", u>>
    BY <1>7 DEF Heard
  <2>3. \A s \in 1 .. Len(told') : \A n, m \in 1 .. Len(told'[s]) :
          /\ n < m
          /\ chats'[told'[s][n][2]].client = chats'[told'[s][m][2]].client
          /\ Lonely(told[s][n][2])'
          => Before(told'[s][n], told'[s][m])
    <3> SUFFICES ASSUME NEW s \in 1 .. Len(told'),
                        NEW n \in 1 .. Len(told'[s]), NEW m \in 1 .. Len(told'[s]),
                        n < m,
                        chats'[told'[s][n][2]].client = chats'[told'[s][m][2]].client,
                        Lonely(told[s][n][2])'
                 PROVE  Before(told'[s][n], told'[s][m])
      BY ZenonT(60)
    <3> QED
      BY <1>8, ZenonT(60)
  <2> QED
    BY <2>1, <2>2, <2>3, Zenon DEF ToldInv

LEMMA ToldStep == TypeInv /\ ClientInv /\ ToldInv /\ [Next]_vars => ToldInv'
<1> SUFFICES ASSUME TypeInv, ClientInv, ToldInv, [Next]_vars PROVE ToldInv'
  OBVIOUS
<1>1. ASSUME NEW c \in Clients, ClientStep(c) PROVE ToldInv'
  <2>1. told' = told \/ told' = Append(told, <<>>)
    BY <1>1 DEF ClientStep, Handshake, HelloArrives, HelloCreates, HelloFails, ChatArrives, turnVars
  <2>2. CASE ChatArrives(c)
    BY <2>1, <2>2, ComesOnward, ToldKept
  <2>3. CASE ~ChatArrives(c)
    <3>1. chats' = chats /\ overlapped' = overlapped /\ failed' = failed
      BY <1>1, <2>3 DEF ClientStep, Handshake, HelloArrives, HelloCreates, HelloFails,
                        turnVars, histories
    <3> QED
      BY <2>1, <3>1, SameOnward, ToldKept
  <2> QED
    BY <2>2, <2>3
<1>2. ASSUME NEW t \in Chats, ChatStep(t) PROVE ToldInv'
  <2>1. CASE ChatCreates(t)
    BY <2>1, BeginsOnward, ToldKept DEF ChatCreates
  <2>2. CASE RecordPrompt(t)
    <3>1. /\ Moves(t, "thinking") /\ chats[t].at = "asking"
          /\ overlapped' = overlapped /\ failed' = failed /\ told' = told
      BY <2>2, GoesMoves DEF RecordPrompt, Places, histories
    <3>2. Onward({})
      BY <3>1, MovesOnward DEF Places
    <3> QED
      BY <3>1, <3>2, ToldKept
  <2>3. CASE StreamStarts(t)
    <3>1. /\ Moves(t, "streaming") /\ chats[t].at = "thinking"
          /\ overlapped' = overlapped /\ failed' = failed
          /\ told' = Told(chats[t].sess, "user", t)
      BY <2>3, GoesMoves DEF StreamStarts, Places, histories
    <3>2. Onward({t}) /\ chats'[t].at = "streaming"
      BY <3>1, MovesOnward DEF Places, Moves
    <3> QED
      BY <3>1, <3>2, ToldMore DEF Roles
  <2>4. CASE StreamEnds(t)
    <3>1. /\ Moves(t, "saving") /\ chats[t].at = "streaming"
          /\ overlapped' = overlapped /\ failed' = failed
          /\ told' = Told(chats[t].sess, "assistant", t)
      BY <2>4, GoesMoves DEF StreamEnds, Places, histories
    <3>2. Onward({t}) /\ chats'[t].at = "saving"
      BY <3>1, MovesOnward DEF Places, Moves
    <3> QED
      BY <3>1, <3>2, ToldMore DEF Roles
  <2>5. CASE RecordReply(t)
    <3>1. /\ Moves(t, "over") /\ chats[t].at = "saving"
          /\ overlapped' = overlapped /\ failed' = failed /\ told' = told
      BY <2>5, GoesMoves DEF RecordReply, Places, histories
    <3>2. Onward({t}) /\ chats'[t].at = "over"
      BY <3>1, MovesOnward DEF Places, Moves
    <3> QED
      BY <3>1, <3>2, ToldKept
  <2>6. CASE ChatFails(t)
    <3>1. /\ Moves(t, "over")
          /\ overlapped' = overlapped /\ failed' = failed \cup {t} /\ told' = told
      BY <2>6, GoesMoves DEF ChatFails, Places
    <3>2. Onward({})
      BY <3>1, MovesOnward DEF Places
    <3> QED
      BY <3>1, <3>2, ToldKept
  <2> QED
    BY <1>2, <2>1, <2>2, <2>3, <2>4, <2>5, <2>6 DEF ChatStep
<1>3. ASSUME NEW p \in passes, Distill(p) PROVE ToldInv'
  BY <1>3, SameOnward, ToldKept DEF Distill, turnVars, histories
<1>4. CASE LinkResets
  BY <1>4, SameOnward, ToldKept DEF LinkResets, turnVars, histories
<1>5. CASE Store
  BY <1>5, SameOnward, ToldKept DEF Store, turnVars, histories
<1>6. CASE UNCHANGED vars
  BY <1>6, SameOnward, ToldKept DEF vars, turnVars, histories
<1> QED
  BY <1>1, <1>2, <1>3, <1>4, <1>5, <1>6 DEF Next

LEMMA SameTale ==
  ASSUME TypeInv, RowInv, ClientInv, RecordInv, ToldInv
  PROVE  OneConversation
<1> SUFFICES ASSUME NEW c \in keyed,
                    c \notin early \cup overlapped,
                    \A t \in Chats : chats[t].client = c => ~Running(t),
                    NEW w \in Chats,
                    chats[w].client = c, w \notin failed,
                    {<<"user", w>>, <<"assistant", w>>} \cap erased = {}
             PROVE  LET whole(t) == /\ chats[t].client = c
                                    /\ t \notin failed
                                    /\ {<<"user", t>>, <<"assistant", t>>} \cap erased = {}
                        heard   == told[session[c]]
                        says(i) == <<messages[i].role, messages[i].turn>>
                        rows    == {i \in DOMAIN messages : whole(messages[i].turn)}
                        tale    == {n \in DOMAIN heard : whole(heard[n][2])}
                    IN
                    /\ {says(i) : i \in rows} = {heard[n] : n \in tale}
                    /\ \A i, j \in rows, n, m \in tale :
                         says(i) = heard[n] /\ says(j) = heard[m] => (i < j <=> n < m)
                    /\ {messages[i].sid : i \in rows} = {history[c]}
  BY DEF OneConversation
<1> DEFINE whole(t) == /\ chats[t].client = c
                       /\ t \notin failed
                       /\ {<<"user", t>>, <<"assistant", t>>} \cap erased = {}
           heard   == told[session[c]]
           says(i) == <<messages[i].role, messages[i].turn>>
           rows    == {i \in DOMAIN messages : whole(messages[i].turn)}
           tale    == {n \in DOMAIN heard : whole(heard[n][2])}
           o       == session[c]
<1>1. /\ c \in Clients /\ w \in Of(c)
      /\ chats[w].sess = o /\ o \in 1 .. Len(told)
  BY TaskTyped DEF TypeInv, TypeOK, Of, ClientInv
<1>2. /\ heard \in Seq(Roles \X Nat) /\ Len(heard) \in Nat /\ DOMAIN heard = 1 .. Len(heard)
  BY <1>1, SeqTyped
<1>3. ASSUME NEW t \in Chats, whole(t)
      PROVE  /\ Done(t) /\ chats[t].sess = o /\ chats[t].client = c
             /\ chats[t].hist = NoSession \/ chats[t].hist = history[c]
             /\ \A role \in Roles : <<role, t>> \notin erased
  <2>1. t \in Of(c) /\ ~Running(t)
    BY <1>3 DEF Of
  <2>2. /\ chats[t].sess = session[c]
        /\ chats[t].hist = NoSession \/ chats[t].hist = history[c]
    BY <2>1 DEF ClientInv
  <2> QED
    BY <1>3, <2>1, <2>2 DEF Done, Running, Roles
<1>4. ASSUME NEW i \in rows
      PROVE  /\ i \in DOMAIN messages /\ i \in Nat
             /\ messages[i].turn \in Chats /\ whole(messages[i].turn)
             /\ messages[i].role \in Roles
             /\ says(i) = Line(i)
             /\ messages[i].sid = history[c]
  <2>1. i \in DOMAIN messages /\ whole(messages[i].turn)
    OBVIOUS
  <2>2. /\ i \in Nat /\ messages[i].turn \in Chats /\ messages[i].role \in Roles
        /\ messages[i].sid = chats[messages[i].turn].hist /\ messages[i].sid # NoSession
    BY <2>1, RowTyped, LineTyped DEF NoSession
  <2> QED
    BY <1>3, <2>1, <2>2 DEF Line
<1>5. ASSUME NEW n \in tale
      PROVE  /\ n \in 1 .. Len(told[o]) /\ n \in Nat
             /\ told[o][n] \in Roles \X Nat
             /\ told[o][n][2] \in Chats /\ whole(told[o][n][2])
             /\ heard[n] = told[o][n]
  <2>1. n \in 1 .. Len(told[o]) /\ whole(told[o][n][2])
    BY <1>2
  <2>2. told[o][n][2] \in Chats /\ told[o][n] \in Roles \X Nat
    BY <1>1, <2>1, SeqTyped DEF ToldInv
  <2> QED
    BY <2>1, <2>2
<1> HIDE DEF whole, says, rows, heard, tale, o
<1>6. ASSUME NEW i \in rows PROVE \E n \in tale : heard[n] = says(i)
  <2> DEFINE t == messages[i].turn
             r == messages[i].role
  <2>1. /\ t \in Chats /\ Done(t) /\ chats[t].sess = o /\ r \in Roles /\ says(i) = <<r, t>>
        /\ whole(t)
    BY <1>3, <1>4 DEF says
  <2> HIDE DEF t, r
  <2>2. \E n \in 1 .. Len(told[o]) : told[o][n] = <<r, t>>
    <3>1. CASE r = "user"
      BY <2>1, <3>1 DEF ToldInv
    <3>2. CASE r = "assistant"
      BY <2>1, <3>2 DEF ToldInv
    <3> QED
      BY <2>1, <3>1, <3>2 DEF Roles
  <2>3. PICK n \in 1 .. Len(told[o]) : told[o][n] = <<r, t>>
    BY <2>2
  <2>4. n \in DOMAIN heard /\ heard[n] = <<r, t>> /\ heard[n][2] = t
    BY <1>2, <2>3 DEF heard, o
  <2>5. n \in tale
    BY <2>1, <2>4 DEF tale
  <2> QED
    BY <2>1, <2>4, <2>5
<1>7. ASSUME NEW t \in Chats, whole(t), NEW r \in Roles
      PROVE  \E i \in rows : says(i) = <<r, t>>
  <2>1. Done(t) /\ <<r, t>> \notin erased
    BY <1>3, <1>7
  <2>2. PICK i \in DOMAIN messages : Line(i) = <<r, t>>
    BY <2>1 DEF RecordInv
  <2>3. messages[i].turn = t /\ says(i) = <<r, t>>
    BY <2>2 DEF Line, says
  <2>4. i \in rows
    BY <1>7, <2>3 DEF rows
  <2> QED
    BY <2>3, <2>4
<1>8. ASSUME NEW n \in tale PROVE \E i \in rows : says(i) = heard[n]
  <2>1. PICK r \in Roles, k \in Nat : heard[n] = <<r, k>>
    BY <1>5
  <2>2. k \in Chats /\ whole(k)
    BY <1>5, <2>1
  <2> QED
    BY <1>7, <2>1, <2>2
<1>9. {says(i) : i \in rows} = {heard[n] : n \in tale}
  <2>1. \A i \in rows : \E n \in tale : says(i) = heard[n]
    BY <1>6
  <2>2. \A n \in tale : \E i \in rows : heard[n] = says(i)
    BY <1>8
  <2> QED
    BY <2>1, <2>2, Zenon
<1>10. ASSUME NEW i \in rows, NEW j \in rows, i < j
       PROVE  Before(says(i), says(j))
  <2>1. /\ i \in DOMAIN messages /\ j \in DOMAIN messages
        /\ chats[messages[i].turn].client = c /\ chats[messages[j].turn].client = c
        /\ says(i) = Line(i) /\ says(j) = Line(j)
    BY <1>4 DEF whole
  <2>2. Lonely(messages[i].turn)
    BY <2>1 DEF Lonely
  <2> QED
    BY <1>10, <2>1, <2>2 DEF RecordInv
<1>11. ASSUME NEW n \in tale, NEW m \in tale, n < m
       PROVE  Before(heard[n], heard[m])
  <2>1. /\ n \in 1 .. Len(told[o]) /\ m \in 1 .. Len(told[o])
        /\ chats[told[o][n][2]].client = c /\ chats[told[o][m][2]].client = c
        /\ heard[n] = told[o][n] /\ heard[m] = told[o][m]
        /\ o \in 1 .. Len(told)
    BY <1>1, <1>5 DEF whole
  <2>2. Lonely(told[o][n][2])
    BY <2>1 DEF Lonely
  <2> QED
    BY <1>11, <2>1, <2>2 DEF ToldInv
<1>12. ASSUME NEW x \in Roles \X Nat, NEW y \in Roles \X Nat, Before(x, y)
       PROVE  ~Before(y, x) /\ x # y
  BY <1>12 DEF Before
<1>13. ASSUME NEW i \in rows, NEW j \in rows, NEW n \in tale, NEW m \in tale,
              says(i) = heard[n], says(j) = heard[m]
       PROVE  i < j <=> n < m
  <2>1. /\ heard[n] \in Roles \X Nat /\ heard[m] \in Roles \X Nat
        /\ i \in Nat /\ j \in Nat /\ n \in Nat /\ m \in Nat
    BY <1>4, <1>5
  <2>2. ASSUME i < j PROVE n < m
    <3>1. Before(heard[n], heard[m])
      BY <1>10, <1>13, <2>2
    <3>2. n # m /\ ~(m < n)
      BY <1>11, <1>12, <2>1, <3>1
    <3> QED
      BY <2>1, <3>2
  <2>3. ASSUME n < m PROVE i < j
    <3>1. Before(says(i), says(j))
      BY <1>11, <1>13, <2>3
    <3>2. i # j /\ ~(j < i)
      BY <1>10, <1>12, <1>13, <2>1, <3>1
    <3> QED
      BY <2>1, <3>2
  <2> QED
    BY <2>2, <2>3
<1>14. {messages[i].sid : i \in rows} = {history[c]}
  <2>1. whole(w)
    BY DEF whole
  <2>2. \E i \in rows : says(i) = <<"user", w>>
    BY <1>7, <2>1 DEF Roles
  <2>3. \A i \in rows : messages[i].sid = history[c]
    BY <1>4
  <2> QED
    BY <2>2, <2>3
<1>15. \A i, j \in rows, n, m \in tale :
         says(i) = heard[n] /\ says(j) = heard[m] => (i < j <=> n < m)
  BY <1>13
<1> QED
  BY <1>9, <1>14, <1>15, Zenon DEF whole, says, rows, heard, tale

-----------------------------------------------------------------------------
(* The theorems.                                                           *)

IInv == TypeInv /\ RowInv /\ StoreInv /\ PassInv /\ ClientInv /\ RecordInv /\ ToldInv

LEMMA Invariance == Spec => []IInv
<1>1. Init => IInv
  BY InitTyped, RowInit, StoreInvInit, PassInit, ClientInit, RecordInit, ToldInit DEF IInv
<1>2. IInv /\ [Next]_vars => IInv'
  BY TypeStep, RowStep, StoreInvStep, PassStep, ClientStepInv, RecordStep, ToldStep DEF IInv
<1> QED
  BY <1>1, <1>2, PTL DEF Spec

\* The store, the maps and the tasks keep their types: every chat that records something
\* has a history, and no count of turns reaches K (relay_client.py, memory.py).
THEOREM WellFormed == Spec => []TypeOK
<1>1. IInv => TypeOK
  BY DEF IInv, TypeInv
<1> QED
  BY <1>1, Invariance, PTL

\* A reply is stored after its prompt and in the same session, unless a wipe or the
\* retention took the prompt (chat_handler.py:51-95).
THEOREM RepliesFollow == Spec => []ReplyFollowsPrompt
<1>1. IInv => ReplyFollowsPrompt
  BY DEF IInv, RowInv
<1> QED
  BY <1>1, Invariance, PTL

\* A message without its session row was inserted after the deletion of that row had begun
\* (chat_store.py:122-130, 272-279).
THEOREM SessionsStay == Spec => []RowsKeepTheirSession
<1>1. IInv => RowsKeepTheirSession
  BY DEF IInv, StoreInv
<1> QED
  BY <1>1, Invariance, PTL

\* A distillation reads the turn that started it, or only newer messages (memory.py:495-530).
THEOREM DistillersAreCurrent == Spec => []PassSeesItsTurn
<1>1. IInv => PassSeesItsTurn
  BY DEF IInv, PassInv
<1> QED
  BY <1>1, Invariance, PTL

\* Between turns the history tells what the agent was told, in its order and in one
\* session, for a client that let its hello and each turn be done (relay_client.py:496-564).
THEOREM HistoryTellsTheSame == Spec => []OneConversation
<1>1. IInv => OneConversation
  BY SameTale DEF IInv
<1> QED
  BY <1>1, Invariance, PTL
=============================================================================
