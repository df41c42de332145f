----------------------------- MODULE ITermBridge -----------------------------
(***************************************************************************)
(* iterm_bridge.py over the iTerm2 application it talks to.  A session is  *)
(* a buffer of rows with absolute numbers: the buffer keeps the Capacity   *)
(* latest rows, overflow counts the rows that scrolled out, and the last   *)
(* row is the screen, which programs rewrite in place.  What a row holds   *)
(* is the number of the write that made it; 0 is a blank row.              *)
(***************************************************************************)
EXTENDS Integers, Sequences, FiniteSets

CONSTANTS
  Sessions,     \* iTerm2 session ids
  Capacity,     \* rows a buffer keeps
  InitialLines, \* num_lines_initial
  MaxWrites,    \* bound: rows written, over all sessions
  MaxRows,      \* bound: absolute number of a row
  MaxTroubles,  \* bound: lost connections, ends of iTerm2, windows closed, failed reads
  PromptWrites  \* the writes that match CONFIRM_PATTERNS

Blank == 0
None  == -1

ASSUME BridgeAssumption ==
  /\ IsFiniteSet(Sessions)
  /\ Capacity \in Nat \ {0} /\ InitialLines \in Nat \ {0}
  /\ MaxWrites \in Nat /\ MaxRows \in Nat /\ MaxTroubles \in Nat
  /\ PromptWrites \subseteq 1 .. MaxWrites

VARIABLES
  running,  \* iTerm2 is running
  conn,     \* _conn: "none", "good", or "stale", a connection that is dead
  open,     \* the sessions there are
  rows,     \* the rows in the buffer of a session
  overflow, \* rows that scrolled out of it
  writes,   \* writes so far
  troubles

itermVars == <<running, conn, open, rows, overflow, writes, troubles>>

ITermInit ==
  /\ running  = TRUE
  /\ conn     = "none"
  /\ open     = {}
  /\ rows     = [s \in Sessions |-> <<Blank>>]
  /\ overflow = [s \in Sessions |-> 0]
  /\ writes   = 0
  /\ troubles = 0

Trouble == troubles < MaxTroubles /\ troubles' = troubles + 1

-----------------------------------------------------------------------------
(* iTerm2                                                                  *)

OpenWindow(s) ==
  /\ running /\ s \notin open
  /\ open'     = open \cup {s}
  /\ rows'     = [rows EXCEPT ![s] = <<Blank>>]
  /\ overflow' = [overflow EXCEPT ![s] = 0]
  /\ UNCHANGED <<running, conn, writes, troubles>>

CloseWindow(s) ==
  /\ s \in open
  /\ Trouble
  /\ open' = open \ {s}
  /\ UNCHANGED <<running, conn, rows, overflow, writes>>

\* A program writes, or rewrites, the row of the cursor.
Write(s) ==
  /\ s \in open
  /\ writes < MaxWrites
  /\ writes' = writes + 1
  /\ rows'   = [rows EXCEPT ![s][Len(rows[s])] = writes']
  /\ UNCHANGED <<running, conn, open, overflow, troubles>>

\* The screen scrolls by one row.
Scroll(s) ==
  /\ s \in open
  /\ overflow[s] + Len(rows[s]) <= MaxRows
  /\ IF Len(rows[s]) < Capacity
     THEN /\ rows' = [rows EXCEPT ![s] = Append(@, Blank)]
          /\ UNCHANGED overflow
     ELSE /\ rows'     = [rows EXCEPT ![s] = Append(Tail(@), Blank)]
          /\ overflow' = [overflow EXCEPT ![s] = @ + 1]
  /\ UNCHANGED <<running, conn, open, writes, troubles>>

\* The scrollback is cleared; whether its rows count as overflow is iTerm2's choice.
ClearBuffer(s) ==
  /\ s \in open
  /\ Len(rows[s]) > 1
  /\ rows' = [rows EXCEPT ![s] = <<rows[s][Len(rows[s])]>>]
  /\ \/ UNCHANGED overflow
     \/ overflow' = [overflow EXCEPT ![s] = @ + Len(rows[s]) - 1]
  /\ UNCHANGED <<running, conn, open, writes, troubles>>

\* A connection that is lost is noticed when it is used.
Stale == IF conn = "good" THEN "stale" ELSE conn

LoseConnection ==
  /\ conn = "good"
  /\ Trouble
  /\ conn' = Stale
  /\ UNCHANGED <<running, open, rows, overflow, writes>>

QuitITerm ==
  /\ running
  /\ Trouble
  /\ running' = FALSE
  /\ open'    = {}
  /\ conn'    = Stale
  /\ UNCHANGED <<rows, overflow, writes>>

StartITerm ==
  /\ ~running
  /\ running' = TRUE
  /\ UNCHANGED <<conn, open, rows, overflow, writes, troubles>>

ITerm ==
  \/ LoseConnection \/ QuitITerm \/ StartITerm
  \/ \E s \in Sessions :
       \/ OpenWindow(s) \/ CloseWindow(s)
       \/ Write(s) \/ Scroll(s) \/ ClearBuffer(s)

-----------------------------------------------------------------------------
(* The bridge                                                              *)

\* Mutant: the list does not drop a dead connection.
ListedKeepsConn == running /\ conn # "stale" /\ conn' = "good"

\* list_sessions(): a failure drops the connection and tries once more.
Listed == running /\ conn' = "good"

ListFails == ~running /\ conn' = "none"

\* _get_app() of a read: it makes a connection if there is none, and raises on a dead one.
AppReached == running /\ conn # "stale" /\ conn' = "good"

AppRaises == (~running \/ conn = "stale") /\ UNCHANGED conn

\* The rows of a session numbered first .. last that are still in the buffer.
Rows(s, first, last) ==
  {<<n, rows[s][n - overflow[s] + 1]>> :
     n \in {i \in first .. last : overflow[s] <= i /\ i < overflow[s] + Len(rows[s])}}

LastValid(s) == overflow[s] + Len(rows[s]) - 1

\* A cleared buffer, or a new session of the same id, uses row numbers again.
Renumbered(s) == LastValid(s)' < LastValid(s)

\* Mutant: the row of the cursor is read again.
FirstWantedAgain(after, over, total) ==
  IF after = None \/ after < over
  THEN over + (IF total > InitialLines THEN total - InitialLines ELSE 0)
  ELSE after

\* read_session_incremental(): the first row to fetch, given the reader's cursor.
FirstWanted(after, over, total) ==
  IF after = None \/ after < over
  THEN over + (IF total > InitialLines THEN total - InitialLines ELSE 0)
  ELSE after + 1

Dropped(after, over) == after # None /\ after < over

ITermTypeOK ==
  /\ running \in BOOLEAN
  /\ conn \in {"none", "good", "stale"}
  /\ open \subseteq Sessions /\ (~running => open = {})
  /\ \A s \in Sessions :
       /\ rows[s] \in Seq(0 .. MaxWrites)
       /\ Len(rows[s]) \in 1 .. Capacity
       /\ overflow[s] \in 0 .. MaxRows
  /\ writes \in 0 .. MaxWrites
  /\ troubles \in 0 .. MaxTroubles
=============================================================================
