-------------------------- MODULE TelegramBotProofs --------------------------
(***************************************************************************)
(* Proofs about TelegramBot, for any number of users, sessions, updates,   *)
(* requests and failing calls.                                             *)
(*                                                                         *)
(* ChoiceInv says where a text of each user would go now; ClickInv that a  *)
(* click made in time, which nothing kept the bot from reading, is still   *)
(* to be read as long as the gate waits.                                   *)
(***************************************************************************)
EXTENDS TelegramBot, TLAPS

-----------------------------------------------------------------------------
(* Types                                                                   *)

Message ==
  [kind : {"text", "voice", "command"}, user : Users]
    \cup [kind : {"view", "cmd", "key"}, user : Users, sess : Sessions]
    \cup [kind : {"back"}, user : Users]
    \cup [kind : {"tool"}, user : Users, req : Nat, ok : BOOLEAN]

Entry == [user : Users, kind : {"text", "view", "cmd", "back"},
          to : Sessions \cup {Agent, NoSess}]

Choice == [sess : Sessions \cup {NoSess}, awaiting : BOOLEAN]

Request == [user : Users, by : Nat,
            fut : {"sending", "waiting", "expired", "yes", "no"}, shown : BOOLEAN,
            click : {"none", "in_time", "late"}, delayed : BOOLEAN]

Job == [user : Users, at : {"thinking", "asking", "over"}]

UpdateOK == stage # "idle" => update \in Message

TypeOK ==
  /\ inbox \in Seq(Message)
  /\ UpdateOK
  /\ chosen \in [Users -> Choice]
  /\ jobs \in Seq(Job)
  /\ reqs \in Seq(Request)
  /\ served \in Seq(Entry)

\* What the fields of an update hold.
LEMMA MessageFields ==
  ASSUME NEW m \in Message
  PROVE  /\ m.user \in Users
         /\ m.kind \in {"view", "cmd"} => m.sess \in Sessions
         /\ m.kind = "tool" => m.req \in Nat /\ m.ok \in BOOLEAN
  BY DEF Message

\* What a user sends is a message.
LEMMA MessageMade ==
  ASSUME NEW u \in Users
  PROVE  /\ \A k \in {"text", "voice", "command"} : [kind |-> k, user |-> u] \in Message
         /\ \A k \in {"view", "cmd", "key"}, s \in Sessions :
              [kind |-> k, user |-> u, sess |-> s] \in Message
         /\ [kind |-> "back", user |-> u] \in Message
         /\ \A r \in Nat, ok \in BOOLEAN :
              [kind |-> "tool", user |-> u, req |-> r, ok |-> ok] \in Message
  BY DEF Message

LEMMA TypeStart == Init => TypeOK
<1> SUFFICES ASSUME Init PROVE TypeOK
  OBVIOUS
<1>1. <<>> \in Seq(Message) /\ <<>> \in Seq(Job) /\ <<>> \in Seq(Request) /\ <<>> \in Seq(Entry)
  OBVIOUS
<1>2. chosen \in [Users -> Choice]
  BY DEF Init, Nothing, Choice
<1> QED
  BY <1>1, <1>2 DEF Init, TypeOK, UpdateOK

LEMMA InputStep ==
  ASSUME TypeOK, \E u \in Users : Says(u) \/ ClicksSession(u)
  PROVE  TypeOK'
<1>1. PICK u \in Users : Says(u) \/ ClicksSession(u)
  OBVIOUS
<1>2. PICK m \in Message : inbox' = Append(inbox, m)
  BY <1>1, MessageMade DEF Says, ClicksSession, Send, Arrives
<1>3. inbox' \in Seq(Message)
  BY <1>2 DEF TypeOK
<1>4. UNCHANGED <<update, stage, chosen, jobs, reqs, served>>
  BY <1>1 DEF Says, ClicksSession, botVars
<1> QED
  BY <1>3, <1>4 DEF TypeOK, UpdateOK

LEMMA ClickStep ==
  ASSUME TypeOK, NEW r \in Requests, ClicksDecision(r)
  PROVE  TypeOK'
<1>1. r \in Nat /\ reqs[r] \in Request
  BY DEF TypeOK, Requests
<1>2. PICK m \in Message : inbox' = Append(inbox, m)
  BY <1>1, MessageMade DEF ClicksDecision, Arrives, Request
<1>3. inbox' \in Seq(Message)
  BY <1>2 DEF TypeOK
<1> DEFINE c == IF reqs[r].fut = "waiting" THEN "in_time" ELSE "late"
<1> DEFINE d == stage # "idle" \/ inbox # <<>>
<1> DEFINE q == [reqs[r] EXCEPT !.click = c, !.delayed = d]
<1>4. c \in {"none", "in_time", "late"} /\ d \in BOOLEAN
  OBVIOUS
<1> HIDE DEF c, d
<1>5. q \in Request
  BY <1>1, <1>4 DEF Request
<1>6. reqs' = [reqs EXCEPT ![r] = q]
  BY DEF ClicksDecision, c, d
<1> HIDE DEF q
<1>7. reqs' \in Seq(Request)
  BY <1>5, <1>6 DEF TypeOK, Requests
<1>8. UNCHANGED <<update, stage, chosen, jobs, served>>
  BY DEF ClicksDecision, botVars
<1> QED
  BY <1>3, <1>7, <1>8 DEF TypeOK, UpdateOK

LEMMA FetchStep ==
  ASSUME TypeOK, Fetch
  PROVE  TypeOK'
<1>1. update' \in Message /\ inbox' \in Seq(Message)
  BY DEF TypeOK, Fetch
<1> QED
  BY <1>1 DEF Fetch, TypeOK, UpdateOK, botVars

\* What a handler adds to the history.
LEMMA ServedTyped ==
  ASSUME TypeOK, update \in Message,
         NEW what \in {"text", "view", "cmd", "back"},
         NEW to \in Sessions \cup {Agent, NoSess}
  PROVE  Served(what, to) \in Seq(Entry)
<1>1. [user |-> update.user, kind |-> what, to |-> to] \in Entry
  BY MessageFields DEF Entry
<1> QED
  BY <1>1 DEF Served, TypeOK

LEMMA ChosenTyped ==
  ASSUME TypeOK, NEW u \in Users, NEW e \in Choice
  PROVE  [chosen EXCEPT ![u] = e] \in [Users -> Choice]
  BY DEF TypeOK

LEMMA SessionStep ==
  ASSUME TypeOK, ViewSession \/ AskCommand \/ BackToList
  PROVE  TypeOK'
<1>1. update \in Message /\ update.user \in Users /\ stage' = "idle"
  BY MessageFields DEF TypeOK, UpdateOK, ViewSession, AskCommand, BackToList, Handling
<1>2. UNCHANGED <<inbox, jobs, reqs>>
  BY DEF ViewSession, AskCommand, BackToList
<1>3. chosen' \in [Users -> Choice] /\ served' \in Seq(Entry)
  <2>1. CASE ViewSession
    <3>1. update.sess \in Sessions
      BY <1>1, <2>1, MessageFields DEF ViewSession, Handling
    <3>2. [sess |-> update.sess, awaiting |-> FALSE] \in Choice
      BY <3>1 DEF Choice
    <3>3. Served("view", update.sess) \in Seq(Entry)
      BY <1>1, <3>1, ServedTyped
    <3>4. CASE Choose(update.user, update.sess, FALSE) /\ served' = Served("view", update.sess)
      BY <1>1, <3>2, <3>3, <3>4, ChosenTyped DEF Choose
    <3>5. CASE UNCHANGED <<chosen, served>>
      BY <3>5 DEF TypeOK
    <3> QED
      BY <2>1, <3>4, <3>5 DEF ViewSession
  <2>2. CASE AskCommand
    <3>1. update.sess \in Sessions
      BY <1>1, <2>2, MessageFields DEF AskCommand, Handling
    <3>2. CommandFor(chosen[update.user], update.sess) \in Choice
      BY <3>1 DEF Choice, CommandFor
    <3>3. Served("cmd", update.sess) \in Seq(Entry)
      BY <1>1, <3>1, ServedTyped
    <3> QED
      BY <1>1, <2>2, <3>2, <3>3, ChosenTyped DEF AskCommand
  <2>3. CASE BackToList
    <3>1. Nothing \in Choice
      BY DEF Choice, Nothing
    <3>2. Served("back", NoSess) \in Seq(Entry)
      BY <1>1, ServedTyped
    <3> QED
      BY <1>1, <2>3, <3>1, <3>2, ChosenTyped DEF BackToList
  <2> QED
    BY <2>1, <2>2, <2>3
<1> QED
  BY <1>1, <1>2, <1>3 DEF TypeOK, UpdateOK

LEMMA TextStep ==
  ASSUME TypeOK, SendCommand \/ StartTurn
  PROVE  TypeOK'
<1>1. update \in Message /\ update.user \in Users
  BY MessageFields DEF TypeOK, UpdateOK, SendCommand, StartTurn, Handling
<1>2. UNCHANGED <<inbox, update, jobs, reqs>>
  BY DEF SendCommand, StartTurn
<1>3. chosen[update.user] \in Choice
  BY <1>1 DEF TypeOK
<1>4. chosen' \in [Users -> Choice]
  <2>1. [chosen[update.user] EXCEPT !.awaiting = FALSE] \in Choice
    BY <1>3 DEF Choice
  <2>2. [chosen EXCEPT ![update.user].awaiting = FALSE]
          = [chosen EXCEPT ![update.user] = [chosen[update.user] EXCEPT !.awaiting = FALSE]]
    OBVIOUS
  <2> QED
    BY <1>1, <2>1, <2>2, ChosenTyped DEF SendCommand, StartTurn, TypeOK
<1>5. served' \in Seq(Entry)
  <2>1. Served("text", Agent) \in Seq(Entry)
    BY <1>1, ServedTyped
  <2>2. Served("text", chosen[update.user].sess) \in Seq(Entry)
    BY <1>1, <1>3, ServedTyped DEF Choice
  <2> QED
    BY <2>1, <2>2 DEF SendCommand, StartTurn
<1> QED
  BY <1>1, <1>2, <1>4, <1>5 DEF TypeOK, UpdateOK

LEMMA PlainStep ==
  ASSUME TypeOK,
         \/ Transcribe \/ VoiceCommand \/ TurnFails \/ TurnResumes
         \/ PressKey \/ Command \/ ReplySpoken
  PROVE  TypeOK'
  BY DEF TypeOK, UpdateOK, Transcribe, VoiceCommand, TurnFails, TurnResumes, PressKey,
         Command, ReplySpoken, Handling, botVars

LEMMA TurnEndStep ==
  ASSUME TypeOK, TurnEnds
  PROVE  TypeOK'
<1>1. update.user \in Users
  BY MessageFields DEF TypeOK, UpdateOK, TurnEnds
<1>2. [user |-> update.user, at |-> "thinking"] \in Job
  BY <1>1 DEF Job
<1>3. jobs' \in Seq(Job)
  BY <1>2 DEF TypeOK, TurnEnds
<1> QED
  BY <1>3 DEF TypeOK, UpdateOK, TurnEnds

\* A request is replaced by another one.
LEMMA RequestTyped ==
  ASSUME TypeOK, NEW r \in Requests, NEW q \in Request
  PROVE  [reqs EXCEPT ![r] = q] \in Seq(Request)
  BY DEF TypeOK, Requests

LEMMA RequestFields ==
  ASSUME TypeOK, NEW r \in Requests
  PROVE  /\ reqs[r] \in Request
         /\ \A f \in {"sending", "waiting", "expired", "yes", "no"} :
              [reqs[r] EXCEPT !.fut = f] \in Request
         /\ [reqs[r] EXCEPT !.delayed = TRUE] \in Request
<1>1. reqs[r] \in Request
  BY DEF TypeOK, Requests
<1> QED
  BY <1>1 DEF Request

LEMMA JobTyped ==
  ASSUME TypeOK, NEW j \in Jobs, NEW a \in {"thinking", "asking", "over"}
  PROVE  [jobs EXCEPT ![j].at = a] \in Seq(Job)
<1>1. jobs[j] \in Job
  BY DEF TypeOK, Jobs
<1>2. [jobs[j] EXCEPT !.at = a] \in Job
  BY <1>1 DEF Job
<1>3. [jobs EXCEPT ![j].at = a] = [jobs EXCEPT ![j] = [jobs[j] EXCEPT !.at = a]]
  OBVIOUS
<1> QED
  BY <1>2, <1>3 DEF TypeOK, Jobs

LEMMA AskTyped ==
  ASSUME TypeOK, NEW by \in Nat, NEW u \in Users, Ask(by, u)
  PROVE  reqs' \in Seq(Request)
<1> DEFINE q == [user |-> u, by |-> by, fut |-> "sending", shown |-> FALSE,
                 click |-> "none", delayed |-> FALSE]
<1>1. q \in Request
  BY DEF Request
<1>2. reqs' = Append(reqs, q)
  BY DEF Ask
<1> HIDE DEF q
<1> QED
  BY <1>1, <1>2 DEF TypeOK

LEMMA AskStep ==
  ASSUME TypeOK, TurnAsks \/ \E j \in Jobs : JobAsks(j)
  PROVE  TypeOK'
<1>1. CASE TurnAsks
  <2>1. update.user \in Users /\ update \in Message
    BY <1>1, MessageFields DEF TypeOK, UpdateOK, TurnAsks
  <2>2. reqs' \in Seq(Request)
    BY <1>1, <2>1, AskTyped DEF TurnAsks, Turn
  <2> QED
    BY <1>1, <2>1, <2>2 DEF TypeOK, UpdateOK, TurnAsks, botVars
<1>2. ASSUME NEW j \in Jobs, JobAsks(j)
      PROVE  TypeOK'
  <2>0. jobs[j] \in Job
    BY DEF TypeOK, Jobs
  <2>1. j \in Nat /\ jobs[j].user \in Users
    BY <2>0 DEF Jobs, Job
  <2>2. reqs' \in Seq(Request)
    BY <1>2, <2>1, AskTyped DEF JobAsks
  <2>3. jobs' \in Seq(Job)
    BY <1>2, JobTyped DEF JobAsks
  <2> QED
    BY <1>2, <2>2, <2>3 DEF TypeOK, UpdateOK, JobAsks, botVars
<1> QED
  BY <1>1, <1>2

LEMMA JobStep ==
  ASSUME TypeOK, NEW j \in Jobs, JobEnds(j) \/ JobResumes(j)
  PROVE  TypeOK'
<1>1. jobs' \in Seq(Job)
  BY JobTyped DEF JobEnds, JobResumes
<1> QED
  BY <1>1 DEF TypeOK, UpdateOK, JobEnds, JobResumes, botVars

LEMMA UnheardStep ==
  ASSUME TypeOK, Unheard, update.kind = "tool" => update.req \in Requests
  PROVE  TypeOK'
<1>1. reqs' \in Seq(Request)
  <2>1. CASE update.kind = "tool"
    <3>1. [reqs EXCEPT ![update.req].delayed = TRUE]
            = [reqs EXCEPT ![update.req] = [reqs[update.req] EXCEPT !.delayed = TRUE]]
      OBVIOUS
    <3> QED
      BY <2>1, <3>1, RequestFields, RequestTyped DEF Unheard
  <2> QED
    BY <2>1 DEF Unheard, TypeOK
<1> QED
  BY <1>1 DEF TypeOK, UpdateOK, Unheard, botVars

LEMMA ShowStep ==
  ASSUME TypeOK, NEW r \in Requests, ShowRequest(r)
  PROVE  TypeOK'
<1>1. PICK b \in BOOLEAN : reqs' = [reqs EXCEPT ![r].fut = "waiting", ![r].shown = b]
  BY DEF ShowRequest
<1> DEFINE q == [reqs[r] EXCEPT !.fut = "waiting", !.shown = b]
<1>2. reqs[r] \in Request
  BY RequestFields
<1>3. q \in Request
  BY <1>2 DEF Request
<1>4. reqs' = [reqs EXCEPT ![r] = q]
  BY <1>1
<1> HIDE DEF q
<1>5. reqs' \in Seq(Request)
  BY <1>3, <1>4, RequestTyped
<1> QED
  BY <1>5 DEF TypeOK, UpdateOK, ShowRequest, botVars

LEMMA ExpireStep ==
  ASSUME TypeOK, NEW r \in Requests, Expire(r)
  PROVE  TypeOK'
<1> DEFINE d == reqs[r].delayed \/ Unread(r)
<1> DEFINE q == [reqs[r] EXCEPT !.fut = "expired", !.delayed = d]
<1>1. d \in BOOLEAN
  OBVIOUS
<1>2. reqs' = [reqs EXCEPT ![r] = q]
  BY DEF Expire
<1>3. reqs[r] \in Request
  BY RequestFields
<1> HIDE DEF d
<1>4. q \in Request
  BY <1>1, <1>3 DEF Request
<1> HIDE DEF q
<1>5. reqs' \in Seq(Request)
  BY <1>2, <1>4, RequestTyped
<1> QED
  BY <1>5 DEF TypeOK, UpdateOK, Expire, botVars

\* Resolving a request that waits answers it, or its time is up.
LEMMA Resolved ==
  ASSUME TypeOK, NEW r \in Requests, NEW ok \in BOOLEAN,
         Resolve(r, ok), reqs[r].fut = "waiting"
  PROVE  \E q \in Request :
           /\ reqs' = [reqs EXCEPT ![r] = q]
           /\ q.user = reqs[r].user
           /\ q.fut = "expired" => q.delayed
           /\ q.fut \in {"yes", "no", "expired"}
<1>0. reqs[r] \in Request
  BY RequestFields
<1>1. CASE reqs' = [reqs EXCEPT ![r].fut = IF ok THEN "yes" ELSE "no"]
  <2> DEFINE q == [reqs[r] EXCEPT !.fut = IF ok THEN "yes" ELSE "no"]
  <2>1. /\ q \in Request
        /\ q.user = reqs[r].user
        /\ q.fut = "expired" => q.delayed
        /\ q.fut \in {"yes", "no", "expired"}
    BY <1>0 DEF Request
  <2>2. reqs' = [reqs EXCEPT ![r] = q]
    BY <1>1
  <2> HIDE DEF q
  <2> QED BY <2>1, <2>2
<1>2. CASE reqs' = [reqs EXCEPT ![r].fut = "expired", ![r].delayed = TRUE]
  <2> DEFINE q == [reqs[r] EXCEPT !.fut = "expired", !.delayed = TRUE]
  <2>1. /\ q \in Request
        /\ q.user = reqs[r].user
        /\ q.fut = "expired" => q.delayed
        /\ q.fut \in {"yes", "no", "expired"}
    BY <1>0 DEF Request
  <2>2. reqs' = [reqs EXCEPT ![r] = q]
    BY <1>0, <1>2 DEF Request
  <2> HIDE DEF q
  <2> QED BY <2>1, <2>2
<1> QED BY <1>1, <1>2 DEF Resolve

LEMMA DecisionStep ==
  ASSUME TypeOK, HandleDecision, update.req \in Requests
  PROVE  TypeOK'
<1>1. PICK r \in Requests : r = update.req
  OBVIOUS
<1>2. update.ok \in BOOLEAN
  BY MessageFields DEF TypeOK, UpdateOK, HandleDecision, Handling
<1>3. reqs' \in Seq(Request)
  <2>1. CASE reqs' = reqs
    BY <2>1 DEF TypeOK
  <2>2. CASE reqs' # reqs
    <3>1. Resolve(r, update.ok) /\ reqs[r].fut = "waiting"
      BY <1>1, <2>2 DEF HandleDecision, Resolve
    <3>2. PICK q \in Request : reqs' = [reqs EXCEPT ![r] = q]
      BY <1>2, <3>1, Resolved
    <3> QED BY <3>2, RequestTyped
  <2> QED BY <2>1, <2>2
<1> QED
  BY <1>3 DEF TypeOK, UpdateOK, HandleDecision, botVars

-----------------------------------------------------------------------------
(* Clicks on requests                                                      *)

\* A decision is on a request, and from the user it was sent to.
Owned(m) == m.kind = "tool" => m.req \in Requests /\ m.user = reqs[m.req].user

OwnedInv ==
  /\ \A i \in 1 .. Len(inbox) : Owned(inbox[i])
  /\ stage # "idle" => Owned(update)

\* A click made in time, which nothing kept the bot from reading, is still to be read
\* while the gate waits for it.
InTime(r) == reqs[r].click = "in_time" /\ ~reqs[r].delayed

RequestInv(r) ==
  /\ reqs[r].fut = "sending" => ~reqs[r].shown /\ reqs[r].click = "none"
  /\ InTime(r) /\ reqs[r].fut = "waiting" => Unread(r)
  /\ InTime(r) => reqs[r].fut # "expired"

ClickInv == OwnedInv /\ \A r \in Requests : RequestInv(r)

LEMMA ClickStart == Init => ClickInv
  BY DEF Init, ClickInv, OwnedInv, Requests

\* A handler that is not about a decision goes on or returns.
LEMMA OtherHandler ==
  ASSUME TypeOK, ClickInv, UNCHANGED <<inbox, reqs, update>>,
         stage' # "begun", stage # "idle",
         stage = "begun" => update.kind # "tool"
  PROVE  ClickInv'
<1>1. OwnedInv'
  BY DEF ClickInv, OwnedInv, Owned, Requests
<1>2. ASSUME NEW r \in Requests
      PROVE  RequestInv(r)'
  <2>1. Unread(r) => Unread(r)'
    BY DEF Unread, Clicks
  <2> QED
    BY <2>1 DEF ClickInv, RequestInv, InTime
<1> QED
  BY <1>1, <1>2 DEF ClickInv, Requests

LEMMA UnchangedClicks ==
  ASSUME ClickInv, UNCHANGED <<inbox, reqs, update, stage>>
  PROVE  ClickInv'
  BY DEF ClickInv, OwnedInv, Owned, Requests, RequestInv, InTime, Unread, Clicks

\* An update arrives; it is a decision of the request's user, or none at all.
LEMMA MailKept ==
  ASSUME TypeOK, NEW m \in Message, inbox' = Append(inbox, m)
  PROVE  /\ Len(inbox') = Len(inbox) + 1
         /\ \A i \in 1 .. Len(inbox) : inbox'[i] = inbox[i]
         /\ inbox'[Len(inbox) + 1] = m
         /\ \A r : UNCHANGED <<update, stage>> /\ Unread(r) => Unread(r)'
<1>1. /\ Len(inbox') = Len(inbox) + 1
      /\ \A i \in 1 .. Len(inbox) : inbox'[i] = inbox[i]
      /\ inbox'[Len(inbox) + 1] = m
      /\ DOMAIN inbox = 1 .. Len(inbox) /\ DOMAIN inbox' = 1 .. Len(inbox) + 1
  BY DEF TypeOK
<1>2. ASSUME NEW r, UNCHANGED <<update, stage>>, Unread(r)
      PROVE  Unread(r)'
  BY <1>1, <1>2 DEF Unread, Clicks, TypeOK
<1> QED
  BY <1>1, <1>2

LEMMA ClicksInput ==
  ASSUME TypeOK, ClickInv, \E u \in Users : Says(u) \/ ClicksSession(u)
  PROVE  ClickInv'
<1>1. PICK u \in Users : Says(u) \/ ClicksSession(u)
  OBVIOUS
<1>2. PICK m \in Message : inbox' = Append(inbox, m) /\ m.kind # "tool"
  BY <1>1, MessageMade DEF Says, ClicksSession, Send, Arrives
<1>3. UNCHANGED <<update, stage, reqs>>
  BY <1>1 DEF Says, ClicksSession
<1>4. OwnedInv'
  BY <1>2, <1>3, MailKept DEF ClickInv, OwnedInv, Owned, Requests, TypeOK
<1>5. ASSUME NEW r \in Requests
      PROVE  RequestInv(r)'
  BY <1>2, <1>3, MailKept DEF ClickInv, RequestInv, InTime
<1> QED
  BY <1>3, <1>4, <1>5 DEF ClickInv, Requests

\* One request is replaced; its user stays.
LEMMA OneRequest ==
  ASSUME TypeOK, NEW r \in Requests, NEW q, reqs' = [reqs EXCEPT ![r] = q]
  PROVE  /\ Len(reqs') = Len(reqs) /\ Requests' = Requests
         /\ reqs'[r] = q
         /\ \A x \in Requests : x # r => reqs'[x] = reqs[x]
  BY DEF TypeOK, Requests

LEMMA ClicksDecided ==
  ASSUME TypeOK, ClickInv, NEW r \in Requests, ClicksDecision(r)
  PROVE  ClickInv'
<1>1. r \in Nat /\ reqs[r] \in Request
  BY DEF TypeOK, Requests
<1>2. PICK m \in Message : /\ inbox' = Append(inbox, m)
                           /\ m.kind = "tool" /\ m.req = r /\ m.user = reqs[r].user
  BY <1>1, MessageMade DEF ClicksDecision, Arrives, Request
<1>3. m \in Message /\ m.kind = "tool" /\ m.req = r /\ m.user = reqs[r].user
  BY <1>2
<1>4. inbox' = Append(inbox, m)
  BY <1>2
<1> DEFINE c == IF reqs[r].fut = "waiting" THEN "in_time" ELSE "late"
<1> DEFINE d == stage # "idle" \/ inbox # <<>>
<1> DEFINE q == [reqs[r] EXCEPT !.click = c, !.delayed = d]
<1>5. reqs' = [reqs EXCEPT ![r] = q]
  BY DEF ClicksDecision
<1>6. q.user = reqs[r].user /\ q.fut = reqs[r].fut /\ q.shown = reqs[r].shown
      /\ q.click = c /\ reqs[r].shown
  BY <1>1 DEF Request, ClicksDecision
<1> HIDE DEF q, d
<1>7. UNCHANGED <<update, stage>>
  BY DEF ClicksDecision
<1>8. /\ Requests' = Requests /\ reqs'[r] = q
      /\ \A x \in Requests : x # r => reqs'[x] = reqs[x]
  BY <1>5, OneRequest
<1>9. OwnedInv'
  <2>1. ASSUME NEW x \in Requests
        PROVE  x \in Requests' /\ reqs'[x].user = reqs[x].user
    BY <1>6, <1>8
  <2>2. ASSUME NEW x, Owned(x)
        PROVE  Owned(x)'
    BY <2>1, <2>2 DEF Owned
  <2>3. Owned(m)'
    BY <1>3, <2>1 DEF Owned
  <2>5. ASSUME NEW i \in 1 .. Len(inbox')
        PROVE  Owned(inbox[i])'
    <3>1. CASE i \in 1 .. Len(inbox)
      <4>1. Owned(inbox[i]) /\ inbox'[i] = inbox[i]
        BY <1>3, <1>4, <3>1, MailKept DEF ClickInv, OwnedInv
      <4> QED
        BY <2>1, <4>1 DEF Owned
    <3>2. CASE i \notin 1 .. Len(inbox)
      <4>1. inbox'[i] = m
        BY <1>3, <1>4, <2>5, <3>2, MailKept DEF TypeOK
      <4> QED
        BY <1>3, <2>1, <4>1 DEF Owned
    <3> QED
      BY <3>1, <3>2
  <2>4. (stage # "idle" => Owned(update))'
    BY <1>7, <2>1 DEF ClickInv, OwnedInv, Owned
  <2> QED
    BY <2>4, <2>5 DEF OwnedInv
<1>10. Unread(r)'
  <2>1. Len(inbox) + 1 \in DOMAIN inbox' /\ inbox'[Len(inbox) + 1] = m
    BY <1>3, <1>4, MailKept DEF TypeOK
  <2> QED
    BY <1>3, <2>1 DEF Unread, Clicks
<1>11. RequestInv(r)'
  BY <1>6, <1>8, <1>10 DEF ClickInv, RequestInv, InTime
<1>12. ASSUME NEW x \in Requests, x # r
       PROVE  RequestInv(x)'
  BY <1>3, <1>4, <1>7, <1>8, <1>12, MailKept DEF ClickInv, RequestInv, InTime
<1> QED
  BY <1>8, <1>9, <1>11, <1>12 DEF ClickInv

LEMMA ClicksFetched ==
  ASSUME TypeOK, ClickInv, Fetch
  PROVE  ClickInv'
<1>1. /\ inbox # <<>> /\ Len(inbox') = Len(inbox) - 1 /\ Len(inbox) \in Nat \ {0}
      /\ update' = inbox[1] /\ \A i \in 1 .. Len(inbox') : inbox'[i] = inbox[i + 1]
      /\ DOMAIN inbox = 1 .. Len(inbox) /\ DOMAIN inbox' = 1 .. Len(inbox')
  BY DEF Fetch, TypeOK
<1>2. stage = "idle" /\ stage' = "begun" /\ UNCHANGED reqs
  BY DEF Fetch
<1>3. OwnedInv'
  <2>1. ASSUME NEW i \in 1 .. Len(inbox')
        PROVE  Owned(inbox[i])'
    <3>1. i + 1 \in 1 .. Len(inbox) /\ inbox'[i] = inbox[i + 1]
      BY <1>1
    <3>2. Owned(inbox[i + 1])
      BY <3>1 DEF ClickInv, OwnedInv
    <3> QED
      BY <1>2, <3>1, <3>2 DEF Owned, Requests
  <2>2. Owned(update)'
    <3>1. Owned(inbox[1])
      BY <1>1 DEF ClickInv, OwnedInv
    <3> QED
      BY <1>1, <1>2, <3>1 DEF Owned, Requests
  <2> QED
    BY <2>1, <2>2 DEF OwnedInv
<1>4. ASSUME NEW r \in Requests
      PROVE  RequestInv(r)'
  <2>1. ASSUME Unread(r) PROVE Unread(r)'
    <3>1. PICK i \in DOMAIN inbox : Clicks(inbox[i], r)
      BY <1>2, <2>1 DEF Unread
    <3>2. CASE i = 1
      BY <1>1, <1>2, <3>1, <3>2 DEF Unread, Clicks
    <3>3. CASE i # 1
      <4>1. i - 1 \in DOMAIN inbox' /\ inbox'[i - 1] = inbox[i]
        BY <1>1, <3>1, <3>3
      <4> QED
        BY <3>1, <4>1 DEF Unread, Clicks
    <3> QED
      BY <3>2, <3>3
  <2> QED
    BY <1>2, <2>1 DEF ClickInv, RequestInv, InTime
<1> QED
  BY <1>2, <1>3, <1>4 DEF ClickInv, Requests

LEMMA ClicksUnheard ==
  ASSUME TypeOK, ClickInv, Unheard
  PROVE  ClickInv'
<1>1. UNCHANGED <<inbox, update>> /\ stage = "begun" /\ stage' = "idle"
  BY DEF Unheard
<1>2. CASE update.kind # "tool"
  BY <1>1, <1>2, OtherHandler DEF Unheard
<1>3. CASE update.kind = "tool"
  <2>1. PICK r \in Requests : r = update.req
    BY <1>1, <1>3 DEF ClickInv, OwnedInv, Owned
  <2> DEFINE q == [reqs[r] EXCEPT !.delayed = TRUE]
  <2>2. reqs[r] \in Request
    BY <2>1, RequestFields
  <2>3. /\ q.user = reqs[r].user /\ q.fut = reqs[r].fut /\ q.shown = reqs[r].shown
        /\ q.click = reqs[r].click /\ q.delayed
    BY <2>2 DEF Request
  <2>4. reqs' = [reqs EXCEPT ![r] = q]
    BY <1>3, <2>1 DEF Unheard
  <2> HIDE DEF q
  <2>5. /\ Requests' = Requests /\ reqs'[r] = q
        /\ \A x \in Requests : x # r => reqs'[x] = reqs[x]
    BY <2>1, <2>4, OneRequest
  <2>6. OwnedInv'
    BY <1>1, <2>3, <2>5 DEF ClickInv, OwnedInv, Owned
  <2>7. RequestInv(r)'
    BY <2>1, <2>3, <2>5 DEF ClickInv, RequestInv, InTime
  <2>8. ASSUME NEW x \in Requests, x # r
        PROVE  RequestInv(x)'
    <3>1. Unread(x) => Unread(x)'
      BY <1>1, <2>1, <2>8 DEF Unread, Clicks
    <3> QED
      BY <2>5, <2>8, <3>1 DEF ClickInv, RequestInv, InTime
  <2> QED
    BY <2>5, <2>6, <2>7, <2>8 DEF ClickInv
<1> QED
  BY <1>2, <1>3

\* The updates stay where they are, and so do the users of the requests.
LEMMA OwnedKept ==
  ASSUME ClickInv, UNCHANGED <<inbox, update>>, stage' # "idle" => stage # "idle",
         \A x \in Requests : x \in Requests' /\ reqs'[x].user = reqs[x].user
  PROVE  OwnedInv'
  BY DEF ClickInv, OwnedInv, Owned

LEMMA ClicksAsked ==
  ASSUME TypeOK, ClickInv, \E by, u : Ask(by, u), UNCHANGED <<inbox, update>>,
         stage' = "begun" <=> stage = "begun", stage' # "idle" => stage # "idle"
  PROVE  ClickInv'
<1>0. PICK by, u : Ask(by, u)
  OBVIOUS
<1> DEFINE q == [user |-> u, by |-> by, fut |-> "sending", shown |-> FALSE,
                 click |-> "none", delayed |-> FALSE]
<1>1. reqs' = Append(reqs, q)
  BY <1>0 DEF Ask
<1>2. q.fut = "sending" /\ ~q.shown /\ q.click = "none"
  OBVIOUS
<1> HIDE DEF q
<1>3. /\ Requests' = Requests \cup {Len(reqs) + 1}
      /\ reqs'[Len(reqs) + 1] = q
      /\ \A x \in Requests : reqs'[x] = reqs[x]
  BY <1>1 DEF TypeOK, Requests
<1>4. OwnedInv'
  BY <1>3, OwnedKept
<1>5. ASSUME NEW x \in Requests
      PROVE  RequestInv(x)'
  <2>1. Unread(x) => Unread(x)'
    BY DEF Unread
  <2> QED
    BY <1>3, <2>1 DEF ClickInv, RequestInv, InTime
<1>6. ASSUME NEW x, x = Len(reqs) + 1
      PROVE  RequestInv(x)'
  <2>1. reqs'[x] = q
    BY <1>3, <1>6
  <2> QED
    BY <1>2, <2>1 DEF RequestInv, InTime
<1> QED
  BY <1>3, <1>4, <1>5, <1>6 DEF ClickInv

LEMMA ClicksShown ==
  ASSUME TypeOK, ClickInv, NEW r \in Requests, ShowRequest(r)
  PROVE  ClickInv'
<1>1. PICK b \in BOOLEAN : reqs' = [reqs EXCEPT ![r].fut = "waiting", ![r].shown = b]
  BY DEF ShowRequest
<1> DEFINE q == [reqs[r] EXCEPT !.fut = "waiting", !.shown = b]
<1>2. q.user = reqs[r].user /\ q.fut = "waiting" /\ q.click = "none"
  <2>1. reqs[r] \in Request
    BY RequestFields
  <2>2. reqs[r].click = "none"
    BY DEF ShowRequest, ClickInv, RequestInv
  <2> QED
    BY <2>1, <2>2 DEF Request
<1>3. reqs' = [reqs EXCEPT ![r] = q]
  BY <1>1
<1> HIDE DEF q
<1>4. /\ Requests' = Requests /\ reqs'[r] = q
      /\ \A x \in Requests : x # r => reqs'[x] = reqs[x]
  BY <1>3, OneRequest
<1>5. UNCHANGED <<inbox, update, stage>>
  BY DEF ShowRequest
<1>6. OwnedInv'
  BY <1>2, <1>4, <1>5, OwnedKept
<1>7. RequestInv(r)'
  BY <1>2, <1>4 DEF RequestInv, InTime
<1>8. ASSUME NEW x \in Requests, x # r
      PROVE  RequestInv(x)'
  <2>1. Unread(x) => Unread(x)'
    BY <1>5 DEF Unread
  <2> QED
    BY <1>4, <1>8, <2>1 DEF ClickInv, RequestInv, InTime
<1> QED
  BY <1>4, <1>6, <1>7, <1>8 DEF ClickInv

\* A request that times out although it was clicked in time was delayed: its click is
\* still unread.
LEMMA ClicksExpired ==
  ASSUME TypeOK, ClickInv, NEW r \in Requests, Expire(r)
  PROVE  ClickInv'
<1> DEFINE d == reqs[r].delayed \/ Unread(r)
<1> DEFINE q == [reqs[r] EXCEPT !.fut = "expired", !.delayed = d]
<1>1. reqs' = [reqs EXCEPT ![r] = q]
  BY DEF Expire
<1>0. reqs[r] \in Request
  BY RequestFields
<1>2. /\ q.user = reqs[r].user /\ q.fut = "expired" /\ q.click = reqs[r].click
      /\ q.delayed = d
  BY <1>0 DEF Request
<1>3. reqs[r].click = "in_time" => d
  BY DEF Expire, TimedOut, ClickInv, RequestInv, InTime
<1> HIDE DEF d, q
<1>4. /\ Requests' = Requests /\ reqs'[r] = q
      /\ \A x \in Requests : x # r => reqs'[x] = reqs[x]
  BY <1>1, OneRequest
<1>5. UNCHANGED <<inbox, update, stage>>
  BY DEF Expire
<1>6. OwnedInv'
  BY <1>2, <1>4, <1>5, OwnedKept
<1>7. RequestInv(r)'
  BY <1>2, <1>3, <1>4 DEF RequestInv, InTime
<1>8. ASSUME NEW x \in Requests, x # r
      PROVE  RequestInv(x)'
  <2>1. Unread(x) => Unread(x)'
    BY <1>5 DEF Unread
  <2> QED
    BY <1>4, <1>8, <2>1 DEF ClickInv, RequestInv, InTime
<1> QED
  BY <1>4, <1>6, <1>7, <1>8 DEF ClickInv

\* A decision is handled; its user is the owner, so a gate that waits is answered.
LEMMA ClicksHandled ==
  ASSUME TypeOK, ClickInv, HandleDecision
  PROVE  ClickInv'
<1>1. /\ UNCHANGED <<inbox, update>> /\ stage = "begun" /\ stage' = "idle"
      /\ update.kind = "tool"
  BY DEF HandleDecision, Handling
<1>2. PICK r \in Requests : r = update.req
  BY <1>1 DEF ClickInv, OwnedInv, Owned
<1>3. ~Refuses(r, update.user)
  BY <1>1, <1>2 DEF ClickInv, OwnedInv, Owned, Refuses
<1>4. ASSUME NEW x \in Requests, x # r, reqs'[x] = reqs[x]
      PROVE  RequestInv(x)'
  <2>1. Unread(x) => Unread(x)'
    BY <1>1, <1>2, <1>4 DEF Unread, Clicks
  <2> QED
    BY <1>4, <2>1 DEF ClickInv, RequestInv, InTime
<1>5. CASE reqs[r].fut = "waiting"
  <2>1. Resolve(r, update.ok) /\ update.ok \in BOOLEAN
    BY <1>1, <1>2, <1>3, MessageFields DEF HandleDecision, TypeOK, UpdateOK
  <2>2. PICK q \in Request :
          /\ reqs' = [reqs EXCEPT ![r] = q]
          /\ q.user = reqs[r].user
          /\ q.fut = "expired" => q.delayed
          /\ q.fut \in {"yes", "no", "expired"}
    BY <1>5, <2>1, Resolved
  <2>4. /\ Requests' = Requests /\ reqs'[r] = q
        /\ \A x \in Requests : x # r => reqs'[x] = reqs[x]
    BY <2>2, OneRequest
  <2>5. OwnedInv'
    BY <1>1, <2>2, <2>4, OwnedKept
  <2>6. RequestInv(r)'
    BY <2>2, <2>4 DEF RequestInv, InTime
  <2> QED
    BY <1>4, <2>4, <2>5, <2>6 DEF ClickInv
<1>6. CASE reqs[r].fut # "waiting"
  <2>1. UNCHANGED reqs
    BY <1>2, <1>3, <1>6 DEF HandleDecision, Resolve
  <2>2. Requests' = Requests
    BY <2>1 DEF Requests
  <2>3. OwnedInv'
    BY <1>1, <2>1, <2>2, OwnedKept
  <2>4. RequestInv(r)'
    BY <1>6, <2>1 DEF ClickInv, RequestInv, InTime
  <2> QED
    BY <1>4, <2>1, <2>2, <2>3, <2>4 DEF ClickInv
<1> QED
  BY <1>5, <1>6

LEMMA ClicksStep ==
  ASSUME TypeOK, ClickInv, Next
  PROVE  TypeOK' /\ ClickInv'
<1>1. CASE \E u \in Users : Says(u) \/ ClicksSession(u)
  BY <1>1, InputStep, ClicksInput
<1>2. CASE Fetch
  BY <1>2, FetchStep, ClicksFetched
<1>3. CASE Unheard
  <2>1. update.kind = "tool" => update.req \in Requests
    BY <1>3 DEF Unheard, ClickInv, OwnedInv, Owned
  <2> QED
    BY <1>3, <2>1, UnheardStep, ClicksUnheard
<1>4. CASE ViewSession \/ AskCommand \/ BackToList
  <2>1. /\ UNCHANGED <<inbox, reqs, update>> /\ stage' # "begun" /\ stage # "idle"
        /\ stage = "begun" => update.kind # "tool"
    BY <1>4 DEF ViewSession, AskCommand, BackToList, Handling
  <2> QED
    BY <1>4, <2>1, SessionStep, OtherHandler
<1>5. CASE HandleDecision
  <2>1. update.req \in Requests
    BY <1>5 DEF HandleDecision, Handling, ClickInv, OwnedInv, Owned
  <2> QED
    BY <1>5, <2>1, DecisionStep, ClicksHandled
<1>6. CASE SendCommand \/ StartTurn
  <2>1. /\ UNCHANGED <<inbox, reqs, update>> /\ stage' # "begun" /\ stage # "idle"
        /\ stage = "begun" => update.kind # "tool"
    BY <1>6 DEF SendCommand, StartTurn, Handling
  <2> QED
    BY <1>6, <2>1, TextStep, OtherHandler
<1>7. CASE \/ Transcribe \/ VoiceCommand \/ TurnFails \/ TurnResumes
           \/ PressKey \/ Command \/ ReplySpoken
  <2>1. /\ UNCHANGED <<inbox, reqs, update>> /\ stage' # "begun" /\ stage # "idle"
        /\ stage = "begun" => update.kind # "tool"
    BY <1>7 DEF Transcribe, VoiceCommand, TurnFails, TurnResumes, PressKey, Command,
               ReplySpoken, Handling
  <2> QED
    BY <1>7, <2>1, PlainStep, OtherHandler
<1>8. CASE TurnEnds
  <2>1. /\ UNCHANGED <<inbox, reqs, update>> /\ stage' # "begun" /\ stage = "thinking"
    BY <1>8 DEF TurnEnds
  <2> QED
    BY <1>8, <2>1, TurnEndStep, OtherHandler
<1>9. CASE TurnAsks
  <2>1. /\ \E by, u : Ask(by, u)
        /\ UNCHANGED <<inbox, update>>
        /\ stage = "thinking" /\ stage' = "asking"
    BY <1>9 DEF TurnAsks
  <2> QED
    BY <1>9, <2>1, AskStep, ClicksAsked
<1>10. ASSUME NEW j \in Jobs, Distilling(j)
       PROVE  TypeOK' /\ ClickInv'
  <2>1. CASE JobEnds(j) \/ JobResumes(j)
    <3>1. UNCHANGED <<inbox, reqs, update, stage>>
      BY <2>1 DEF JobEnds, JobResumes
    <3> QED
      BY <2>1, <3>1, JobStep, UnchangedClicks
  <2>2. CASE JobAsks(j)
    <3>1. (\E by, u : Ask(by, u)) /\ UNCHANGED <<inbox, update, stage>>
      BY <2>2 DEF JobAsks
    <3>2. TypeOK'
      BY <2>2, AskStep
    <3>3. ClickInv'
      BY <3>1, ClicksAsked
    <3> QED
      BY <3>2, <3>3
  <2> QED
    BY <1>10, <2>1, <2>2 DEF Distilling
<1>11. ASSUME NEW r \in Requests, ClicksDecision(r) \/ ShowRequest(r) \/ Expire(r)
       PROVE  TypeOK' /\ ClickInv'
  BY <1>11, ClickStep, ClicksDecided, ShowStep, ClicksShown, ExpireStep, ClicksExpired
<1> QED
  BY <1>1, <1>2, <1>3, <1>4, <1>5, <1>6, <1>7, <1>8, <1>9, <1>10, <1>11
     DEF Next, Handle, Clicked, Spoken

-----------------------------------------------------------------------------
(* Where texts go                                                          *)

\* What a user did last is there to be found.
LastInv ==
  \A u \in Users, n \in 0 .. Len(served) :
    Own(u, n) # {} => \E j \in Own(u, n) : \A k \in Own(u, n) : k <= j

\* The state of a user's choice is what the user said last.
ChoiceInv ==
  /\ LastInv
  /\ \A u \in Users :
       Meant(u, Len(served)) = IF chosen[u].awaiting THEN chosen[u].sess ELSE Agent
  /\ CommandGoesWhereChosen

LEMMA LatestIs ==
  ASSUME NEW S \in SUBSET Nat, NEW j \in S, \A k \in S : k <= j
  PROVE  Latest(S) = j
<1>1. Latest(S) \in S /\ \A k \in S : k <= Latest(S)
  BY DEF Latest
<1>2. Latest(S) \in Nat /\ j \in Nat /\ Latest(S) <= j /\ j <= Latest(S)
  BY <1>1
<1> QED
  BY <1>2

LEMMA ChoiceStart == Init => ChoiceInv
<1> SUFFICES ASSUME Init PROVE ChoiceInv
  OBVIOUS
<1>1. served = <<>> /\ Len(served) = 0 /\ \A u \in Users : ~chosen[u].awaiting
  BY DEF Init, Nothing
<1>2. \A u, n : n \in {0} => Own(u, n) = {}
  BY DEF Own
<1>3. \A u : Meant(u, 0) = Agent
  BY <1>2 DEF Meant
<1> QED
  BY <1>1, <1>2, <1>3 DEF ChoiceInv, LastInv, CommandGoesWhereChosen

LEMMA ChoiceUnchanged ==
  ASSUME ChoiceInv, UNCHANGED <<served, chosen>>
  PROVE  ChoiceInv'
<1>1. \A u, n : Own(u, n)' = Own(u, n)
  BY DEF Own
<1>2. \A u, n : Meant(u, n)' = Meant(u, n)
  BY <1>1 DEF Meant
<1> QED
  BY <1>1, <1>2 DEF ChoiceInv, LastInv, CommandGoesWhereChosen

\* What was said before stays what it was.
LEMMA PastKept ==
  ASSUME TypeOK, LastInv, NEW e \in Entry, served' = Append(served, e),
         NEW u \in Users, NEW n \in 0 .. Len(served)
  PROVE  Own(u, n)' = Own(u, n) /\ Meant(u, n)' = Meant(u, n)
<1>1. Len(served) \in Nat /\ \A j \in 1 .. n : served'[j] = served[j]
  BY DEF TypeOK
<1>2. Own(u, n)' = Own(u, n)
  BY <1>1 DEF Own
<1>3. CASE Own(u, n) = {}
  BY <1>2, <1>3 DEF Meant
<1>4. CASE Own(u, n) # {}
  <2>1. PICK j \in Own(u, n) : \A k \in Own(u, n) : k <= j
    BY <1>4 DEF LastInv
  <2>2. Own(u, n) \in SUBSET Nat /\ j \in 1 .. n
    BY <2>1 DEF Own
  <2>3. Latest(Own(u, n)) = j
    BY <2>1, <2>2, LatestIs
  <2>4. served'[j] = served[j]
    BY <1>1, <2>2
  <2> QED
    BY <1>2, <2>3, <2>4 DEF Meant
<1> QED
  BY <1>2, <1>3, <1>4

\* What is said now is what counts for its user, and for nobody else.
LEMMA NowSaid ==
  ASSUME TypeOK, LastInv, NEW e \in Entry, served' = Append(served, e), NEW u \in Users,
         NEW n \in Nat, n = Len(served)
  PROVE  /\ Own(u, n + 1)' # {} =>
              \E j \in Own(u, n + 1)' : \A k \in Own(u, n + 1)' : k <= j
         /\ Meant(u, n + 1)' = IF e.user # u THEN Meant(u, n)
                               ELSE IF e.kind = "cmd" THEN e.to ELSE Agent
<1>1. served'[n + 1] = e /\ \A j \in 1 .. n : served'[j] = served[j]
  BY DEF TypeOK
<1>2. CASE e.user = u
  <2>0. Own(u, n + 1)' \in SUBSET Nat
    BY DEF Own
  <2>1. PICK S \in SUBSET Nat : S = Own(u, n + 1)'
    BY <2>0
  <2>2. n + 1 \in S /\ \A k \in S : k <= n + 1
    BY <1>1, <1>2, <2>1 DEF Own
  <2>3. Latest(S) = n + 1
    BY <2>2, LatestIs
  <2>4. Meant(u, n + 1)' = IF e.kind = "cmd" THEN e.to ELSE Agent
    BY <1>1, <2>1, <2>2, <2>3 DEF Meant
  <2> QED
    BY <1>2, <2>1, <2>2, <2>4
<1>3. CASE e.user # u
  <2>1. Own(u, n + 1)' = Own(u, n)'
    BY <1>1, <1>3 DEF Own
  <2>2. Meant(u, n + 1)' = Meant(u, n)'
    BY <2>1 DEF Meant
  <2>3. Own(u, n)' = Own(u, n) /\ Meant(u, n)' = Meant(u, n)
    BY PastKept
  <2> QED
    BY <1>3, <2>1, <2>2, <2>3 DEF LastInv
<1> QED
  BY <1>2, <1>3

\* Something of a user's is served: the choice follows it, and a text went where the
\* choice before said.
LEMMA ChoiceServed ==
  ASSUME TypeOK, ChoiceInv, NEW u \in Users, NEW e \in Entry, NEW c \in Choice,
         e.user = u, served' = Append(served, e), chosen' = [chosen EXCEPT ![u] = c],
         e.kind = "cmd" => c.awaiting /\ c.sess = e.to,
         e.kind # "cmd" => ~c.awaiting,
         e.kind = "text" => e.to = IF chosen[u].awaiting THEN chosen[u].sess ELSE Agent
  PROVE  ChoiceInv'
<1>1. PICK n \in Nat : n = Len(served)
  BY DEF TypeOK
<1>2. /\ Len(served') = n + 1 /\ DOMAIN served' = 1 .. n + 1 /\ DOMAIN served = 1 .. n
      /\ served'[n + 1] = e
      /\ \A i \in 1 .. n : served'[i] = served[i] /\ served[i] \in Entry
  BY <1>1 DEF TypeOK
<1>3. LastInv
  BY DEF ChoiceInv
<1>4. LastInv'
  <2>1. ASSUME NEW x \in Users, NEW m \in 0 .. n
        PROVE  Own(x, m)' # {} => \E j \in Own(x, m)' : \A k \in Own(x, m)' : k <= j
    <3>1. m \in 0 .. Len(served)
      BY <1>1
    <3>2. Own(x, m)' = Own(x, m)
      BY <1>3, <3>1, PastKept
    <3> QED
      BY <1>3, <3>1, <3>2 DEF LastInv
  <2>2. ASSUME NEW x \in Users
        PROVE  Own(x, n + 1)' # {} =>
                 \E j \in Own(x, n + 1)' : \A k \in Own(x, n + 1)' : k <= j
    BY <1>1, <1>3, NowSaid
  <2>3. ASSUME NEW x \in Users, NEW m \in 0 .. n + 1
        PROVE  Own(x, m)' # {} => \E j \in Own(x, m)' : \A k \in Own(x, m)' : k <= j
    <3>1. CASE m \in 0 .. n
      BY <2>1, <3>1
    <3>2. CASE m = n + 1
      BY <2>2, <3>2
    <3> QED
      BY <3>1, <3>2
  <2> QED
    BY <1>2, <2>3 DEF LastInv
<1>5. ASSUME NEW x \in Users
      PROVE  Meant(x, n + 1)' = IF chosen'[x].awaiting THEN chosen'[x].sess ELSE Agent
  <2>1. Meant(x, n) = IF chosen[x].awaiting THEN chosen[x].sess ELSE Agent
    BY <1>1 DEF ChoiceInv
  <2>2. Meant(x, n + 1)' = IF e.user # x THEN Meant(x, n)
                           ELSE IF e.kind = "cmd" THEN e.to ELSE Agent
    BY <1>1, <1>3, NowSaid
  <2>3. chosen'[x] = IF x = u THEN c ELSE chosen[x]
    BY DEF TypeOK
  <2> QED
    BY <2>1, <2>2, <2>3
<1>6. ASSUME NEW i \in 1 .. n + 1
      PROVE  (served[i].kind = "text" => served[i].to = Meant(served[i].user, i - 1))'
  <2>1. CASE i \in 1 .. n
    <3>1. PICK x \in Users : x = served[i].user
      BY <1>2, <2>1 DEF Entry
    <3>2. PICK m \in 0 .. Len(served) : m = i - 1
      BY <1>1, <2>1
    <3>3. Meant(x, m)' = Meant(x, m)
      BY <1>3, PastKept
    <3>4. served[i].kind = "text" => served[i].to = Meant(x, m)
      BY <1>2, <2>1, <3>1, <3>2 DEF ChoiceInv, CommandGoesWhereChosen
    <3>5. served'[i].kind = "text" => served'[i].to = Meant(x, m)'
      BY <1>2, <2>1, <3>3, <3>4
    <3>6. served'[i].user = x
      BY <1>2, <2>1, <3>1
    <3>7. (served[i].kind = "text" => served[i].to = Meant(x, m))'
      BY <3>2, <3>5 DEF Meant, Own
    <3> QED
      BY <3>2, <3>6, <3>7
  <2>2. CASE i = n + 1
    <3>1. Meant(u, n)' = Meant(u, n)
      BY <1>1, <1>3, PastKept
    <3>2. Meant(u, n) = IF chosen[u].awaiting THEN chosen[u].sess ELSE Agent
      BY <1>1 DEF ChoiceInv
    <3>3. served'[i].kind = "text" => served'[i].to = Meant(u, n)'
      BY <1>2, <2>2, <3>1, <3>2
    <3>4. served'[i].user = u /\ i - 1 = n
      BY <1>2, <2>2
    <3>5. (served[i].kind = "text" => served[i].to = Meant(u, n))'
      BY <3>3 DEF Meant, Own
    <3> QED
      BY <3>4, <3>5
  <2>3. i \in 1 .. n \/ i = n + 1
    OBVIOUS
  <2> QED
    BY <2>1, <2>2, <2>3
<1>7. CommandGoesWhereChosen'
  BY <1>2, <1>6 DEF CommandGoesWhereChosen
<1>8. ASSUME NEW x \in Users
      PROVE  (Meant(x, Len(served)) = IF chosen[x].awaiting THEN chosen[x].sess ELSE Agent)'
  BY <1>2, <1>5
<1> QED
  BY <1>4, <1>7, <1>8 DEF ChoiceInv

LEMMA ChoiceStep ==
  ASSUME TypeOK, ChoiceInv, Next
  PROVE  ChoiceInv'
<1>1. CASE ViewSession
  <2>1. update.user \in Users /\ update.sess \in Sessions
    BY <1>1, MessageFields DEF TypeOK, UpdateOK, ViewSession, Handling
  <2>2. CASE UNCHANGED <<chosen, served>>
    BY <2>2, ChoiceUnchanged
  <2>3. CASE Choose(update.user, update.sess, FALSE) /\ served' = Served("view", update.sess)
    <3>1. PICK u \in Users, s \in Sessions : u = update.user /\ s = update.sess
      BY <2>1
    <3>2. PICK e \in Entry : e = [user |-> u, kind |-> "view", to |-> s]
      BY DEF Entry
    <3>3. PICK c \in Choice : c = [sess |-> s, awaiting |-> FALSE]
      BY DEF Choice
    <3>4. served' = Append(served, e) /\ chosen' = [chosen EXCEPT ![u] = c]
      BY <2>3, <3>1, <3>2, <3>3 DEF Choose, Served
    <3> QED
      BY <3>2, <3>3, <3>4, ChoiceServed
  <2> QED
    BY <1>1, <2>2, <2>3 DEF ViewSession
<1>2. CASE AskCommand
  <2>1. update.user \in Users /\ update.sess \in Sessions
    BY <1>2, MessageFields DEF TypeOK, UpdateOK, AskCommand, Handling
  <2>2. PICK u \in Users, s \in Sessions : u = update.user /\ s = update.sess
    BY <2>1
  <2>3. PICK e \in Entry : e = [user |-> u, kind |-> "cmd", to |-> s]
    BY DEF Entry
  <2>4. PICK c \in Choice : c = [sess |-> s, awaiting |-> TRUE]
    BY DEF Choice
  <2>5. served' = Append(served, e) /\ chosen' = [chosen EXCEPT ![u] = c]
    BY <1>2, <2>2, <2>3, <2>4 DEF AskCommand, CommandFor, Served
  <2> QED
    BY <2>3, <2>4, <2>5, ChoiceServed
<1>3. CASE BackToList
  <2>1. PICK u \in Users : u = update.user
    BY <1>3, MessageFields DEF TypeOK, UpdateOK, BackToList, Handling
  <2>2. PICK e \in Entry : e = [user |-> u, kind |-> "back", to |-> NoSess]
    BY DEF Entry
  <2>3. PICK c \in Choice : c = Nothing
    BY DEF Choice, Nothing
  <2>4. served' = Append(served, e) /\ chosen' = [chosen EXCEPT ![u] = c]
    BY <1>3, <2>1, <2>2, <2>3 DEF BackToList, Served
  <2>5. ~c.awaiting
    BY <2>3 DEF Nothing
  <2> QED
    BY <2>2, <2>4, <2>5, ChoiceServed
<1>4. CASE SendCommand
  <2>1. PICK u \in Users : u = update.user
    BY <1>4, MessageFields DEF TypeOK, UpdateOK, SendCommand, Handling
  <2>2. chosen[u] \in Choice /\ chosen[u].awaiting
    BY <1>4, <2>1 DEF TypeOK, SendCommand
  <2>3. PICK e \in Entry : e = [user |-> u, kind |-> "text", to |-> chosen[u].sess]
    BY <2>2 DEF Entry, Choice
  <2>4. PICK c \in Choice : c = [chosen[u] EXCEPT !.awaiting = FALSE]
    BY <2>2 DEF Choice
  <2>5. served' = Append(served, e) /\ chosen' = [chosen EXCEPT ![u] = c]
    BY <1>4, <2>1, <2>3, <2>4 DEF SendCommand, Served
  <2>6. ~c.awaiting
    BY <2>2, <2>4 DEF Choice
  <2> QED
    BY <2>2, <2>3, <2>5, <2>6, ChoiceServed
<1>5. CASE StartTurn
  <2>1. PICK u \in Users : u = update.user
    BY <1>5, MessageFields DEF TypeOK, UpdateOK, StartTurn, Handling
  <2>2. chosen[u] \in Choice /\ ~chosen[u].awaiting
    BY <1>5, <2>1 DEF TypeOK, StartTurn
  <2>3. PICK e \in Entry : e = [user |-> u, kind |-> "text", to |-> Agent]
    BY DEF Entry
  <2>4. PICK c \in Choice : c = chosen[u]
    BY <2>2
  <2>5. served' = Append(served, e) /\ chosen' = [chosen EXCEPT ![u] = c]
    BY <1>5, <2>1, <2>3, <2>4 DEF StartTurn, Served, TypeOK
  <2> QED
    BY <2>2, <2>3, <2>4, <2>5, ChoiceServed
<1>6. CASE UNCHANGED <<served, chosen>>
  BY <1>6, ChoiceUnchanged
<1>7. ASSUME NEW u \in Users, Says(u) \/ ClicksSession(u)
      PROVE  UNCHANGED <<served, chosen>>
  BY <1>7 DEF Says, ClicksSession, botVars
<1>8. Fetch \/ Unheard \/ HandleDecision => UNCHANGED <<served, chosen>>
  BY DEF Fetch, Unheard, HandleDecision, botVars
<1>9. (\/ Transcribe \/ VoiceCommand \/ TurnResumes \/ TurnEnds \/ TurnFails \/ TurnAsks
       \/ PressKey \/ Command \/ ReplySpoken)
        => UNCHANGED <<served, chosen>>
  BY DEF Transcribe, VoiceCommand, TurnResumes, TurnEnds, TurnFails, TurnAsks, PressKey,
         Command, ReplySpoken, botVars
<1>10. ASSUME NEW j, Distilling(j)
       PROVE  UNCHANGED <<served, chosen>>
  BY <1>10 DEF Distilling, JobEnds, JobAsks, JobResumes, botVars
<1>11. ASSUME NEW r, ClicksDecision(r) \/ ShowRequest(r) \/ Expire(r)
       PROVE  UNCHANGED <<served, chosen>>
  BY <1>11 DEF ClicksDecision, ShowRequest, Expire, botVars
<1> QED
  BY <1>1, <1>2, <1>3, <1>4, <1>5, <1>6, <1>7, <1>8, <1>9, <1>10, <1>11
     DEF Next, Handle, Clicked, Spoken

-----------------------------------------------------------------------------

\* The bot's invariant, in any reachable state.
LEMMA BotInvariant == FairSpec => [](TypeOK /\ ClickInv /\ ChoiceInv)
<1>1. Init => TypeOK /\ ClickInv /\ ChoiceInv
  BY TypeStart, ClickStart, ChoiceStart
<1>2. TypeOK /\ ClickInv /\ ChoiceInv /\ [Next]_vars => (TypeOK /\ ClickInv /\ ChoiceInv)'
  <2> SUFFICES ASSUME TypeOK, ClickInv, ChoiceInv, [Next]_vars
               PROVE  TypeOK' /\ ClickInv' /\ ChoiceInv'
    OBVIOUS
  <2>1. CASE Next
    BY <2>1, ClicksStep, ChoiceStep
  <2>2. CASE UNCHANGED vars
    <3>1. TypeOK'
      BY <2>2 DEF vars, botVars, TypeOK, UpdateOK
    <3>2. ClickInv'
      BY <2>2, UnchangedClicks DEF vars
    <3>3. ChoiceInv'
      BY <2>2, ChoiceUnchanged DEF vars, botVars
    <3> QED
      BY <3>1, <3>2, <3>3
  <2> QED
    BY <2>1, <2>2
<1> QED
  BY <1>1, <1>2, PTL DEF FairSpec

\* A decision clicked while the gate waits for it (tool_ok: and tool_no: of the bot's
\* callback handler) decides, unless it had to wait for the handler of another update,
\* or its own acknowledgement failed or took too long.
THEOREM ClickCounts == FairSpec => []ClickInTimeCounts
<1>1. ClickInv => ClickInTimeCounts
  BY DEF ClickInv, RequestInv, InTime, ClickInTimeCounts
<1> QED
  BY <1>1, BotInvariant, PTL

\* A text goes to the terminal its author last asked to type a command into, once, and
\* to the agent in every other case (_user_session_state, handle_message()).
THEOREM CommandsGo == FairSpec => []CommandGoesWhereChosen
<1>1. ChoiceInv => CommandGoesWhereChosen
  BY DEF ChoiceInv
<1> QED
  BY <1>1, BotInvariant, PTL
=============================================================================
