--------------------------- MODULE SessionWatcher ---------------------------
(***************************************************************************)
(* session_watcher.py: every few seconds the watcher lists the sessions,   *)
(* reads the tail of each and announces the ones that started waiting for  *)
(* an answer; it also announces that the set of sessions changed, and a    *)
(* page that subscribed then asks for the list again (relay_client.py,     *)
(* server.py).  The page's connection is the business of Relay.            *)
(***************************************************************************)
EXTENDS ITermBridge

CONSTANT TailLines \* TAIL_LINES

ASSUME WatcherAssumption == TailLines \in Nat \ {0} /\ None \notin Sessions

VARIABLES
  polling,   \* poll_once() is between its awaits
  toRead,    \* sessions of the list it has not read yet
  reading,   \* the session whose text read_session() awaits, or None
  span,      \* the rows it asks for; slid if they were renumbered since (history)
  listed,    \* sessions of the list (seen_ids at the end)
  states,    \* _states: "absent", "idle" or "waiting"
  seeded,    \* _prev_session_ids is not None
  prevIds,   \* _prev_session_ids
  told,      \* the prompt of the latest announcement of a session; Blank before one
  hiccup,    \* history: since then a read of it failed, or its rows were renumbered
             \* while one was under way, or it was missing from a list
  masked,    \* history: since then another prompt was read, and not announced
  repeated   \* history: a prompt was announced again without such a hiccup

readVars    == <<reading, span>>
watcherVars == <<polling, toRead, readVars, listed, states, seeded, prevIds, told, hiccup,
                 masked, repeated>>

VARIABLES
  subscribed, \* the client is in _sessions_subscribed
  asked,      \* a get_sessions task has not looked at iTerm2 yet
  lists,      \* lists taken by such tasks and not yet answered
  panel,      \* the list the page shows
  offBeat     \* history: it was not the watcher's when the page got it

listVars == <<subscribed, asked, lists, panel, offBeat>>
allVars  == <<itermVars, watcherVars, listVars>>

NoSpan == [first |-> 0, last |-> None, slid |-> FALSE]

WatcherInit ==
  /\ ITermInit
  /\ subscribed = FALSE /\ asked = FALSE /\ lists = {} /\ panel = {} /\ offBeat = TRUE
  /\ polling  = FALSE
  /\ toRead   = {}
  /\ reading  = None
  /\ span     = NoSpan
  /\ listed   = {}
  /\ states   = [s \in Sessions |-> "absent"]
  /\ seeded   = FALSE
  /\ prevIds  = {}
  /\ told     = [s \in Sessions |-> Blank]
  /\ hiccup   = [s \in Sessions |-> FALSE]
  /\ masked   = [s \in Sessions |-> FALSE]
  /\ repeated = FALSE

\* The set of sessions is not the one of the previous list; the first list is silent.
SetChanged == seeded /\ open # prevIds

\* The list and, when the set changed, the announcement of it.
PollLists ==
  /\ ~polling
  /\ Listed
  /\ polling' = TRUE
  /\ toRead'  = open
  /\ listed'  = open
  /\ seeded'  = TRUE
  /\ prevIds' = open
  /\ UNCHANGED <<running, open, rows, overflow, writes, troubles, readVars, states, told,
                 hiccup, masked, repeated>>

\* The round is over before it began, and nothing is forgotten.
PollFails ==
  /\ ~polling
  /\ ListFails
  /\ UNCHANGED <<running, open, rows, overflow, writes, troubles, watcherVars>>

-----------------------------------------------------------------------------
(* The reads of a round                                                    *)

\* _match_prompt_line(): the latest prompt among some rows.
PromptIn(rws) ==
  LET prompts == {x \in rws : x[2] \in PromptWrites}
  IN IF prompts = {} THEN Blank
     ELSE (CHOOSE x \in prompts : \A y \in prompts : y[1] <= x[1])[2]

\* The number of the first of the last TAIL_LINES rows.
TailFirst(s) ==
  overflow[s] + (IF Len(rows[s]) > TailLines THEN Len(rows[s]) - TailLines ELSE 0)

\* The prompt a session shows: what a read finds that nothing disturbs.
PromptOf(s) ==
  IF s \in open THEN PromptIn(Rows(s, TailFirst(s), LastValid(s))) ELSE Blank

\* The read of a session begins, and ends.
Begins(s) == reading = None /\ s \in toRead

Ends(s) ==
  /\ toRead'  = toRead \ {s}
  /\ reading' = None
  /\ span'    = NoSpan
  /\ UNCHANGED <<running, open, rows, overflow, writes, polling, listed, seeded, prevIds>>

\* The first await of read_session(): where the buffer ends.
ReadLineInfo(s) ==
  /\ Begins(s)
  /\ AppReached /\ s \in open
  /\ reading' = s
  /\ span'    = [first |-> TailFirst(s), last |-> LastValid(s), slid |-> FALSE]
  /\ UNCHANGED <<running, open, rows, overflow, writes, troubles, polling, toRead, listed,
                 states, seeded, prevIds, told, hiccup, masked, repeated>>

\* The second: the text of those rows, as far as the buffer still has them.
Found(s) == PromptIn(Rows(s, span.first, span.last))

Text(s) ==
  /\ reading = s
  /\ conn = "good" /\ s \in open
  /\ UNCHANGED <<conn, troubles>>

\* Only the change from idle to waiting is announced.
Fresh(s) == states[s] # "waiting"

\* The text has a prompt.
ReadPrompt(s) ==
  /\ Text(s)
  /\ Found(s) # Blank
  /\ Ends(s)
  /\ IF Fresh(s)
     THEN /\ states'   = [states EXCEPT ![s] = "waiting"]
          /\ told'     = [told EXCEPT ![s] = Found(s)]
          /\ repeated' = (repeated \/ (told[s] = Found(s) /\ ~hiccup[s]))
          /\ hiccup'   = [hiccup EXCEPT ![s] = FALSE]
          /\ masked'   = [masked EXCEPT ![s] = FALSE]
     ELSE /\ masked'   = [masked EXCEPT ![s] = @ \/ told[s] # Found(s)]
          /\ UNCHANGED <<states, told, repeated, hiccup>>

\* A text without a prompt: the state falls back to idle.
Idle(s) == [states EXCEPT ![s] = IF @ = "waiting" THEN "idle" ELSE @]

ReadNone(s) ==
  /\ Text(s)
  /\ Found(s) = Blank
  /\ Ends(s)
  /\ states' = Idle(s)
  /\ hiccup' = [hiccup EXCEPT ![s] = @ \/ span.slid]
  /\ UNCHANGED <<told, masked, repeated>>

\* read_session() answers an error of the API, and an unknown session, with a text, which
\* has no prompt in it.
ReadError(s) ==
  /\ \/ Begins(s) /\ AppReached /\ s \in open /\ Trouble
     \/ Begins(s) /\ AppReached /\ s \notin open /\ UNCHANGED troubles
     \/ reading = s /\ (conn # "good" \/ s \notin open) /\ UNCHANGED <<conn, troubles>>
     \/ reading = s /\ Trouble /\ UNCHANGED conn
  /\ Ends(s)
  /\ states' = Idle(s)
  /\ hiccup' = [hiccup EXCEPT ![s] = TRUE]
  /\ UNCHANGED <<told, masked, repeated>>

\* Mutant: a read that raises counts as a session without a prompt.
SkippedForgets(s) == states' = Idle(s)

\* A read that raises leaves the state alone.
Skipped(s) == UNCHANGED states

ReadRaises(s) ==
  /\ Begins(s)
  /\ AppRaises
  /\ Ends(s)
  /\ Skipped(s)
  /\ UNCHANGED <<troubles, told, hiccup, masked, repeated>>

\* The end of the round forgets the sessions that were not in its list.
PollEnds ==
  /\ polling /\ toRead = {}
  /\ polling' = FALSE
  /\ states'  = [s \in Sessions |-> IF s \in listed THEN states[s] ELSE "absent"]
  /\ hiccup'  = [s \in Sessions |-> hiccup[s] \/ s \notin listed]
  /\ listed'  = {}
  /\ UNCHANGED <<running, conn, open, rows, overflow, writes, troubles, toRead, readVars,
                 seeded, prevIds, told, masked, repeated>>

Read(s) == ReadLineInfo(s) \/ ReadPrompt(s) \/ ReadNone(s) \/ ReadError(s) \/ ReadRaises(s)

Poll == PollLists \/ PollFails \/ PollEnds \/ \E s \in Sessions : Read(s)

-----------------------------------------------------------------------------
(* The list                                                                *)

\* get_sessions: the client subscribes before its list is taken.
Ask ==
  /\ ~asked
  /\ subscribed' = TRUE
  /\ asked'      = TRUE
  /\ UNCHANGED <<itermVars, watcherVars, lists, panel, offBeat>>

\* Without iTerm2 the answer is an empty list and an error.
TakeList ==
  /\ asked
  /\ asked' = FALSE
  /\ \/ Listed    /\ lists' = lists \cup {open}
     \/ ListFails /\ lists' = lists \cup {{}}
  /\ UNCHANGED <<running, open, rows, overflow, writes, troubles, watcherVars, subscribed,
                 panel, offBeat>>

ShowList(l) ==
  /\ l \in lists
  /\ lists'   = lists \ {l}
  /\ panel'   = l
  /\ offBeat' = (~seeded \/ l # prevIds)
  /\ UNCHANGED <<itermVars, watcherVars, subscribed, asked>>

\* Mutant: the page is told of new sessions, and not of those that went away.
ToldOfNew == SetChanged /\ ~(open \subseteq prevIds)

\* The page answers sessions_changed with another get_sessions.
ToldOfChange == SetChanged

WatcherStep ==
  /\ Poll
  /\ asked' = (asked \/ (subscribed /\ ~polling /\ polling' /\ ToldOfChange))
  /\ UNCHANGED <<subscribed, lists, panel, offBeat>>

\* A read that is under way is not told that the rows it asks for have other numbers.
ITermMoves ==
  /\ ITerm
  /\ span' = [span EXCEPT !.slid = @ \/ \E s \in Sessions : reading = s /\ Renumbered(s)]
  /\ UNCHANGED <<polling, toRead, reading, listed, states, seeded, prevIds, told, hiccup,
                 masked, repeated, listVars>>

WatcherNext ==
  ITermMoves \/ WatcherStep \/ Ask \/ TakeList \/ \E l \in lists : ShowList(l)

\* The watcher's timer and the event loop go on.
WatcherFairness ==
  /\ WF_allVars(WatcherStep) /\ WF_allVars(TakeList)
  /\ WF_allVars(\E l \in lists : ShowList(l))

WatcherSpec == WatcherInit /\ [][WatcherNext]_allVars /\ WatcherFairness

-----------------------------------------------------------------------------

\* Types of bridge, watcher and list; a round reads only sessions of its list.
WatcherTypeOK ==
  /\ ITermTypeOK
  /\ polling \in BOOLEAN /\ seeded \in BOOLEAN /\ repeated \in BOOLEAN
  /\ reading \in toRead \cup {None} /\ (reading = None <=> span = NoSpan)
  /\ toRead \subseteq listed /\ listed \subseteq prevIds /\ prevIds \subseteq Sessions
  /\ states \in [Sessions -> {"absent", "idle", "waiting"}]
  /\ told \in [Sessions -> PromptWrites \cup {Blank}]
  /\ hiccup \in [Sessions -> BOOLEAN] /\ masked \in [Sessions -> BOOLEAN]
  /\ subscribed \in BOOLEAN /\ asked \in BOOLEAN /\ offBeat \in BOOLEAN
  /\ lists \subseteq SUBSET Sessions /\ panel \subseteq Sessions

\* A prompt that stays on the screen is announced once: again only if, in between, a read
\* of its session answered an error text, its rows were renumbered between the two awaits
\* of a read (a cleared buffer), or a list came without the session.
AnnouncedOnce == ~repeated

PromptNoticed ==
  \A s \in Sessions :
    <>[](s \in open /\ PromptOf(s) # Blank) => <>[](told[s] = PromptOf(s) \/ masked[s])

PanelCatchesUp == <>[](running /\ subscribed) => <>[](panel = open \/ offBeat)

\* When iTerm2 stays as it is, a prompt on a screen ends announced (or hidden by an
\* earlier one the watcher never saw go), and the page's list ends as the sessions
\* there are (or was taken between two rounds of the watcher).
WatcherCatchesUp == PromptNoticed /\ PanelCatchesUp
=============================================================================
