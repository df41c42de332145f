---------------------------- MODULE SessionView -----------------------------
(***************************************************************************)
(* The terminal of a paired page: it selects a session and then asks for   *)
(* what came after the last row it has (relay/src/pair-page.ts).  The      *)
(* relay client serves each read_session in a task of its own              *)
(* (relay_client.py) with two awaits in the bridge, so that reads overlap  *)
(* each other and the terminal's output.  The page puts the text of an     *)
(* answer behind what it has, with no line break between the two.  The     *)
(* connection of the page is the business of Relay.                        *)
(***************************************************************************)
EXTENDS ITermBridge

CONSTANTS
  MaxReads,  \* bound: reads of the page on their way at one time
  MaxSelects \* bound: clicks on a session

ASSUME ViewAssumption == MaxReads \in Nat \ {0} /\ MaxSelects \in Nat

VARIABLES
  current, \* currentId, or None
  cursor,  \* lastLineBySession; None where it is undefined
  shown,   \* the terminal on the page: the number of a row (None: an error text), what it
           \* holds, and whether it is on a line of its own; not kept once suspect
  edge,    \* history: rows that were the screen when they were read
  seams,   \* history: rows an answer began with
  skipped, \* history: blank rows that were the whole of an answer
  suspect, \* history: the terminal was put together from reads that do not fit
  reused,  \* history: since the text began, the numbers of its rows were used again
  reads,   \* read_session tasks, the bridge's progress and what it has seen
  answers, \* session_content frames on their way
  selects  \* clicks so far

pageVars == <<shown, edge, seams, skipped, suspect, reused>>
viewVars == <<current, cursor, pageVars, reads, answers, selects>>
vars     == <<itermVars, viewVars>>

\* A text of which nothing is there yet.
NewText ==
  /\ shown' = <<>> /\ edge' = {} /\ seams' = {} /\ skipped' = {}
  /\ suspect' = FALSE /\ reused' = FALSE

Init ==
  /\ ITermInit
  /\ current = None /\ cursor = [s \in Sessions |-> None]
  /\ shown = <<>> /\ edge = {} /\ seams = {} /\ skipped = {}
  /\ suspect = FALSE /\ reused = FALSE
  /\ reads = <<>> /\ answers = <<>> /\ selects = 0

-----------------------------------------------------------------------------
(* The text of a session                                                   *)

InFlight == Len(reads) + Len(answers)

\* A read_session; slid if its cursor is a number that was used again since.
Request(s, after, slid) ==
  [s |-> s, after |-> after, at |-> "sent", over |-> 0, total |-> 0, slid |-> slid]

\* A click on a session: no cursor, an empty terminal, and a first read.
SelectSession(s) ==
  /\ s \in open
  /\ selects < MaxSelects /\ InFlight < MaxReads
  /\ selects' = selects + 1
  /\ current' = s
  /\ cursor'  = [cursor EXCEPT ![s] = None]
  /\ NewText
  /\ reads'   = Append(reads, Request(s, None, FALSE))
  /\ UNCHANGED <<itermVars, answers>>

\* The timer, the button, or a second after something was typed.
RefreshSession ==
  /\ current # None
  /\ InFlight < MaxReads
  /\ reads' = Append(reads, Request(current, cursor[current], reused))
  /\ UNCHANGED <<itermVars, current, cursor, pageVars, answers, selects>>

Without(i) == [j \in 1 .. Len(reads) - 1 |-> IF j < i THEN reads[j] ELSE reads[j + 1]]

\* A task's answer: rows, those of them that were the screen, the new cursor, and whether
\* it is an error, the cursor's row was gone (all the page looks at then), numbers were
\* used again, or some rows scrolled out before they were read.
Answer(i) ==
  [s |-> reads[i].s, after |-> reads[i].after, rws |-> {}, screen |-> {}, last |-> None,
   dropped |-> FALSE, error |-> FALSE, slid |-> reads[i].slid, torn |-> FALSE]

Reply(i, a) == reads' = Without(i) /\ answers' = Append(answers, a)

NoRows(i) == [Answer(i) EXCEPT !.after = None, !.slid = FALSE]

ReplyError(i) == Reply(i, [NoRows(i) EXCEPT !.error = TRUE])

\* The first await of read_session_incremental(): the size of the buffer.
ReadInfo(i) ==
  LET r == reads[i] IN
  /\ r.at = "sent"
  /\ \/ AppRaises /\ ReplyError(i)
     \/ AppReached /\ r.s \notin open /\ ReplyError(i)
     \/ /\ AppReached /\ r.s \in open
        /\ r.after >= LastValid(r.s) /\ ~Dropped(r.after, overflow[r.s])
        /\ Reply(i, [Answer(i) EXCEPT !.last = r.after])
     \/ /\ AppReached /\ r.s \in open
        /\ r.after < LastValid(r.s) \/ Dropped(r.after, overflow[r.s])
        /\ reads' = [reads EXCEPT ![i].at = "info", ![i].over = overflow[r.s],
                                  ![i].total = Len(rows[r.s]),
                                  ![i].slid = @ /\ r.after # None]
        /\ UNCHANGED answers
  /\ UNCHANGED <<running, open, rows, overflow, writes, troubles, current, cursor,
                 pageVars, selects>>

LastLine(first, count) == first + count - 1

\* The second one: the rows, of which some may have scrolled out meanwhile.
ReadContents(i) ==
  LET r     == reads[i]
      first == FirstWanted(r.after, r.over, r.total)
      got   == Rows(r.s, first, r.over + r.total - 1)
  IN
  /\ r.at = "info"
  /\ IF conn # "good" \/ r.s \notin open THEN ReplyError(i)
     ELSE IF Dropped(r.after, r.over) THEN Reply(i, [NoRows(i) EXCEPT !.dropped = TRUE])
     ELSE Reply(i, [Answer(i) EXCEPT
                      !.rws    = got,
                      !.screen = {x[1] : x \in got} \cap {LastValid(r.s)},
                      !.last   = IF got = {} THEN r.after
                                 ELSE LastLine(first, Cardinality(got)),
                      !.torn   = first < overflow[r.s] /\ ~r.slid])
  /\ UNCHANGED <<itermVars, current, cursor, pageVars, selects>>

\* Rows in the order of their numbers.
Place(x, rws) == Cardinality({y \in rws : y[1] <= x[1]})

Nth(rws, k) == CHOOSE x \in rws : Place(x, rws) = k

InOrder(rws) == [k \in 1 .. Cardinality(rws) |-> Nth(rws, k)]

\* No text: no row, or one blank row.
Empty(a) == ~a.error /\ \A x \in a.rws : a.rws = {x} /\ x[2] = Blank

\* What an answer puts on the page behind the old text; its first row shares the line of
\* what was there.  Several error texts in a row are kept as one.
Pieces(a, old) ==
  IF Empty(a) \/ (a.error /\ old # <<>> /\ old[Len(old)][1] = None) THEN <<>>
  ELSE IF a.error THEN <<<<None, Blank, old = <<>>>>>>
  ELSE [k \in 1 .. Cardinality(a.rws) |->
          <<InOrder(a.rws)[k][1], InOrder(a.rws)[k][2], k > 1 \/ old = <<>>>>]

FirstOf(a) == {x[1] : x \in {y \in a.rws : Place(y, a.rws) = 1}}

\* The text of the page with an answer behind it.
Shown(a, old) ==
  /\ shown'   = old \o Pieces(a, old)
  /\ edge'    = edge \cup a.screen
  /\ seams'   = IF Empty(a) THEN seams ELSE seams \cup FirstOf(a)
  /\ skipped' = IF Empty(a) THEN skipped \cup FirstOf(a) ELSE skipped

\* session_content: not the session on the page; a cursor whose row is gone, which
\* starts over; the first text, which replaces what is there; or more of it.
ShowAnswer ==
  LET a == Head(answers) IN
  /\ answers # <<>>
  /\ answers' = Tail(answers)
  /\ \/ /\ a.s # current
        /\ UNCHANGED <<cursor, pageVars, reads>>
     \/ /\ a.s = current /\ a.dropped
        /\ cursor' = [cursor EXCEPT ![current] = None]
        /\ NewText
        /\ reads'  = Append(reads, Request(current, None, FALSE))
     \/ /\ a.s = current /\ ~a.dropped
        /\ cursor'  = [cursor EXCEPT ![current] = IF a.last # None THEN a.last ELSE @]
        /\ reused'  = \/ cursor[current] # None /\ reused
                      \/ a.last # None /\ a.slid
        /\ suspect' = \/ reused'
                      \/ cursor[current] # None /\ suspect
                      \/ a.last # None /\ (a.after # cursor[current] \/ a.torn)
        /\ IF suspect' THEN shown' = <<>> /\ edge' = {} /\ seams' = {} /\ skipped' = {}
           ELSE Shown(a, IF cursor[current] = None THEN <<>> ELSE shown)
        /\ UNCHANGED reads
  /\ UNCHANGED <<itermVars, current, selects>>

\* When row numbers are used again, what was read before does not fit what comes after.
ITermStep ==
  LET moved == {s \in Sessions : Renumbered(s)} IN
  /\ ITerm
  /\ IF current \in moved
     THEN /\ suspect' = TRUE /\ reused' = TRUE
          /\ shown' = <<>> /\ edge' = {} /\ seams' = {} /\ skipped' = {}
     ELSE UNCHANGED pageVars
  /\ reads'   = [i \in DOMAIN reads |-> [reads[i] EXCEPT !.slid = @ \/ reads[i].s \in moved]]
  /\ answers' = [i \in DOMAIN answers |->
                   [answers[i] EXCEPT !.slid = @ \/ answers[i].s \in moved]]
  /\ UNCHANGED <<current, cursor, selects>>

-----------------------------------------------------------------------------

\* list_sessions() for the watcher or a page: it also renews the connection.
OthersList ==
  /\ Listed \/ ListFails
  /\ UNCHANGED <<running, open, rows, overflow, writes, troubles, viewVars>>

\* The i-th of the tasks under way goes on.
Task(i) == i <= Len(reads) /\ (ReadInfo(i) \/ ReadContents(i))

Page == RefreshSession \/ ShowAnswer \/ \E s \in Sessions : SelectSession(s)

Next == ITermStep \/ OthersList \/ Page \/ \E i \in 1 .. MaxReads : Task(i)

\* The watcher's timer, the page's timer, the event loop and the connection go on.
Fairness ==
  /\ WF_vars(OthersList) /\ WF_vars(RefreshSession) /\ WF_vars(ShowAnswer)
  /\ \A i \in 1 .. MaxReads : WF_vars(Task(i))

FairSpec == Init /\ [][Next]_vars /\ Fairness

-----------------------------------------------------------------------------

\* Types and bounds of bridge and page.
TypeOK ==
  /\ ITermTypeOK
  /\ current \in Sessions \cup {None}
  /\ cursor \in [Sessions -> -1 .. MaxRows]
  /\ \A i \in 1 .. Len(shown) : shown[i] \in (-1 .. MaxRows) \X (0 .. MaxWrites) \X BOOLEAN
  /\ suspect \in BOOLEAN /\ reused \in BOOLEAN
  /\ edge \cup seams \cup skipped \subseteq 0 .. MaxRows
  /\ InFlight <= MaxReads /\ selects \in 0 .. MaxSelects

Lines == {i \in DOMAIN shown : shown[i][1] # None}

\* The rows are in their order, and those between two of them are there or were skipped.
InSequence ==
  /\ \A i, j \in Lines : i < j => shown[i][1] < shown[j][1]
  /\ \A i, j \in Lines : \A n \in shown[i][1] .. shown[j][1] :
       n \in skipped \/ \E k \in Lines : shown[k][1] = n

\* A row is in the terminal as it is on the page, unless it was the screen then.
AsInTerminal ==
  current \in open =>
    \A i \in Lines :
      \/ shown[i][1] < overflow[current] \/ shown[i][1] \in edge
      \/ <<shown[i][1], shown[i][2]>> \in Rows(current, shown[i][1], shown[i][1])

\* The page shows consecutive rows, each as it is in the terminal and on a line of its
\* own.  It does so except for rows an answer began with, which share the line of what
\* the page had before; blank rows that came alone, which are dropped; the texts of
\* errors among them; rows that were the screen when they were read; and what was read
\* across a renumbering, a scroll during a read, or two reads of which one overtook the
\* other's cursor.
ViewIsTerminal ==
  ~suspect =>
    /\ InSequence
    /\ AsInTerminal
    /\ \A i \in Lines : shown[i][3] \/ shown[i][1] \in seams

\* A terminal that stays selected is read to its last row again and again, whatever
\* connections were lost and whatever scrolled away before the page could read it; unless
\* its rows were numbered anew, when the cursor may be beyond rows the page never gets.
ViewCatchesUp ==
  \A s \in Sessions :
    <>[](s \in open /\ current = s /\ ~reused) => []<>(cursor[s] = LastValid(s))
=============================================================================
