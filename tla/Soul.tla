---------------------------------- MODULE Soul ----------------------------------
(* soul.md, the assistant's memory of itself and of its user: the tools that     *)
(* rewrite it (tools/soul.py), the review every rewrite goes through             *)
(* (soul_review.py) and the snapshots taken before each.                         *)
(*                                                                               *)
(* A call reads the whole file, edits the text in memory, has the edit reviewed  *)
(* and then writes the whole file.  Nothing suspends a call between two of its   *)
(* statements except the review of an interactive call in confirm mode, which    *)
(* waits for a human; but the daemon and its relay client run their turns in two *)
(* threads, whose statements interleave.                                         *)
(*                                                                               *)
(* The text is abstracted to its slots, the fields and sections the tools edit,  *)
(* each a sequence of lines; a missing slot is one outside the domain.           *)
EXTENDS Naturals, Sequences, FiniteSets, Functions

CONSTANTS Calls,        \* the calls of tools that are made, each once
          Lines,        \* facts, notes and feedback they record
          Fields,       \* the slots update_self is asked to change
          MaxFeedback,  \* SELF_FEEDBACK_MAX_LINES
          Threads,      \* "daemon" and, when the relay is enabled, "relay"
          Modes,        \* the values of ROBOOT_SOUL_REVIEW that are looked at
          MaxSecond     \* bound on the clock that names snapshots

\* The order of the slots in the file; "Feedback" is added by its first line.
Order == <<"Name", "Voice", "Role", "Personality", "Style", "About", "Notes", "Feedback">>

Slots   == Range(Order)
Text        == "text"         \* what stood in a slot at the start, or a new value
Placeholder == "placeholder"  \* of About User before the first fact

ASSUME SoulAssumption ==
    /\ Fields \subseteq {"Name", "Voice", "Personality", "Style"}
    /\ {Text, Placeholder} \cap Lines = {}
    /\ MaxFeedback \in Nat \ {0, 1} /\ MaxSecond \in Nat
    /\ Threads \subseteq {"daemon", "relay"} /\ "daemon" \in Threads
    /\ Modes \subseteq {"off", "log", "confirm"}

VARIABLES soul,      \* the file: present slots -> lines
          history,   \* .soul/history: second -> the content snapshotted then
          call,      \* the calls' requests, progress and reply
          pending,   \* soul_review._pending
          now,       \* the clock, in seconds
          mode,      \* ROBOOT_SOUL_REVIEW
          surfaces,  \* whether a broadcaster is registered
          ever,      \* history variable: every line the file has ever had
          stale,     \* history variable: a call wrote over a file it had not read
          hurried,   \* history variable: two snapshots were given one name
          raced      \* history variable: a thread used the file amid another's call

vars == <<soul, history, call, pending, now, mode, surfaces, ever, stale, hurried, raced>>

\* soul.md as it is shipped: no feedback yet, nothing known of the user.
Shipped == [s \in Slots \ {"Feedback"} |-> IF s = "About" THEN <<Placeholder>> ELSE <<Text>>]

LinesOf(d) == UNION {Range(d[s]) : s \in DOMAIN d}

\* f with the value v at x, where it may have had another or none.
Put(f, x, v) == [y \in DOMAIN f \cup {x} |-> IF y = x THEN v ELSE f[y]]

---------------------------------------------------------------------------------
(* The edits.                                                                    *)

Place(s) == CHOOSE i \in DOMAIN Order : Order[i] = s

\* The slot that follows s in d, as a set of at most one.
Following(d, s) ==
    LET later == {t \in DOMAIN d : Place(t) > Place(s)}
    IN  {t \in later : \A u \in later : Place(t) <= Place(u)}

\* The pattern skips white space after a heading or a field's colon before it
\* matches the body, so what it takes for the body of an empty slot is the whole
\* of the next one.  Without a match nothing is replaced.
Replaced(d, s, body) ==
    IF s \notin DOMAIN d THEN d
    ELSE LET kept == IF d[s] = <<>> THEN DOMAIN d \ Following(d, s) ELSE DOMAIN d
         IN  [t \in kept |-> IF t = s THEN body ELSE d[t]]

\* Mutant: a line always takes the place of what the section holds.
AppendedOver(d, s, l) == Replaced(d, s, <<l>>)

\* A line added to a section, in place of the placeholder if that is all there is.
Appended(d, s, l) ==
    Replaced(d, s, IF s \notin DOMAIN d \/ d[s] = <<Placeholder>> THEN <<l>> ELSE Append(d[s], l))

\* Mutant: the bound is checked one line late.
PrunedLate(b) == IF Len(b) > MaxFeedback THEN SubSeq(b, Len(b) - Len(b) \div 2 + 1, Len(b)) ELSE b

\* A full section keeps only its most recent half before the new line is added.
Pruned(b) == IF Len(b) >= MaxFeedback THEN SubSeq(b, Len(b) - Len(b) \div 2 + 1, Len(b)) ELSE b

\* append_self_feedback() creates its section at the end of the file.
WithFeedback(d, l) ==
    IF "Feedback" \notin DOMAIN d THEN Put(d, "Feedback", <<l>>)
    ELSE [d EXCEPT !["Feedback"] = Append(Pruned(@), l)]

Edited(d, r) ==
    IF r.op = "remember" THEN Appended(d, "About", r.line)
    ELSE IF r.op = "note" THEN Appended(d, "Notes", r.line)
    ELSE IF r.op = "feedback" THEN WithFeedback(d, r.line)
    ELSE Replaced(d, r.op, IF r.line = "" THEN <<>> ELSE <<r.line>>)

\* A fact that is already in its section is not written again.
Known(d, r) == r.op = "remember" /\ "About" \in DOMAIN d /\ r.line \in Range(d["About"])

\* remember_user is also called by the distiller, then marked automated, and
\* feedback only by it; update_self sets a field or section to a text, perhaps "".
Requests == [op : {"remember"}, line : Lines, auto : BOOLEAN]
       \cup [op : {"note"}, line : Lines, auto : {FALSE}]
       \cup [op : {"feedback"}, line : Lines, auto : {TRUE}]
       \cup [op : Fields, line : {"", Text}, auto : {FALSE}]

---------------------------------------------------------------------------------
(* The review.                                                                   *)

\* What review_write() does at once: let the write proceed (AUTO, LOGGED), refuse
\* it, or put it to a human.  review_write_sync() is the automated case of it.
Verdict(r, same, big) ==
    IF same \/ mode = "off" THEN "write"
    ELSE IF big THEN "refused"
    ELSE IF r.auto \/ mode = "log" \/ ~surfaces THEN "write"
    ELSE "asked"

Writing == {"write", "truncate", "fill"}  \* between two awaits of a call

\* One call at a time runs in a thread until it awaits.
MayRun(c, t) == \A d \in Calls \ {c} : call[d].thread = t => call[d].pc \notin Writing

\* A call that has ended keeps its request and answer only.
Ended(c, how) == [call EXCEPT ![c] = [@ EXCEPT !.pc = how, !.thread = "daemon",
                                               !.base = Shipped, !.new = Shipped]]

\* c uses the file while a call of the other thread is somewhere between its reading
\* and its writing.
Touches(c) == raced' = (raced \/ \E d \in Calls \ {c} : call[d].pc \in Writing)

\* A tool is called: it reads the file, edits the text and has the edit reviewed.
Begin(c) ==
    /\ call[c].pc = "idle"
    /\ \E r \in Requests, t \in Threads, big \in BOOLEAN :
         LET new == Edited(soul, r)
             pc  == IF Known(soul, r) THEN "known" ELSE Verdict(r, new = soul, big)
         IN  /\ MayRun(c, t)
             /\ call' = [call EXCEPT ![c] =
                           IF pc \in {"known", "refused"} THEN [@ EXCEPT !.pc = pc, !.req = r]
                           ELSE [@ EXCEPT !.pc = pc, !.thread = t, !.req = r,
                                          !.base = soul, !.new = new]]
             /\ pending' = IF pc = "asked" THEN pending \cup {c} ELSE pending
    /\ Touches(c)
    /\ UNCHANGED <<soul, history, now, mode, surfaces, ever, stale, hurried>>

\* A click on some surface: resolve_decision() takes the request off the table.
Answer(c) ==
    /\ c \in pending
    /\ pending' = pending \ {c}
    /\ \E yes \in {"yes", "no"} :
         call' = IF call[c].pc = "asked" THEN [call EXCEPT ![c].answer = yes] ELSE call
    /\ UNCHANGED <<soul, history, now, mode, surfaces, ever, stale, hurried, raced>>

\* Mutant: a call resumes with a write whatever was answered.
ResumeAlways(c) ==
    /\ call[c].pc = "asked" /\ call[c].answer # "none"
    /\ MayRun(c, call[c].thread)
    /\ call' = [call EXCEPT ![c].pc = "write"]
    /\ UNCHANGED <<soul, history, pending, now, mode, surfaces, ever, stale, hurried, raced>>

\* The waiting call resumes with the answer.
Resume(c) ==
    /\ call[c].pc = "asked" /\ call[c].answer # "none"
    /\ MayRun(c, call[c].thread)
    /\ call' = IF call[c].answer = "yes" THEN [call EXCEPT ![c].pc = "write"]
               ELSE Ended(c, "refused")
    /\ UNCHANGED <<soul, history, pending, now, mode, surfaces, ever, stale, hurried, raced>>

\* Nobody answered in time, which counts as a refusal.
TimeOut(c) ==
    /\ call[c].pc = "asked" /\ call[c].answer = "none"
    /\ MayRun(c, call[c].thread)
    /\ call' = Ended(c, "refused")
    /\ pending' = pending \ {c}
    /\ UNCHANGED <<soul, history, now, mode, surfaces, ever, stale, hurried, raced>>

\* The turn that made the call is cancelled; its request stays on the table.
Cancel(c) ==
    /\ call[c].pc = "asked"
    /\ call' = Ended(c, "cancelled")
    /\ UNCHANGED <<soul, history, pending, now, mode, surfaces, ever, stale, hurried, raced>>

---------------------------------------------------------------------------------
(* _write_soul(), statement by statement.                                        *)

\* Mutant: the snapshot is taken of the new content.
SnapshotNew(c) ==
    /\ call[c].pc = "write"
    /\ history' = IF soul = call[c].new THEN history ELSE Put(history, now, call[c].new)
    /\ hurried' = (hurried \/ (soul # call[c].new /\ now \in DOMAIN history))
    /\ stale' = (stale \/ soul # call[c].base)
    /\ call' = [call EXCEPT ![c].pc = "truncate"]
    /\ Touches(c)
    /\ UNCHANGED <<soul, pending, now, mode, surfaces, ever>>

\* What is about to be overwritten is kept under the second's name, unless it is
\* the same; another snapshot of that second is replaced.
Snapshot(c) ==
    /\ call[c].pc = "write"
    /\ history' = IF soul = call[c].new THEN history ELSE Put(history, now, soul)
    /\ hurried' = (hurried \/ (soul # call[c].new /\ now \in DOMAIN history))
    /\ stale' = (stale \/ soul # call[c].base)
    /\ call' = [call EXCEPT ![c].pc = "truncate"]
    /\ Touches(c)
    /\ UNCHANGED <<soul, pending, now, mode, surfaces, ever>>

\* write_text() opens the file, which empties it ...
Truncate(c) ==
    /\ call[c].pc = "truncate"
    /\ soul' = <<>>
    /\ call' = [call EXCEPT ![c].pc = "fill"]
    /\ Touches(c)
    /\ UNCHANGED <<history, pending, now, mode, surfaces, ever, stale, hurried>>

\* ... and writes the text; the tool reports success.
Fill(c) ==
    /\ call[c].pc = "fill"
    /\ soul' = call[c].new
    /\ ever' = ever \cup LinesOf(call[c].new)
    /\ call' = Ended(c, "done")
    /\ Touches(c)
    /\ UNCHANGED <<history, pending, now, mode, surfaces, stale, hurried>>

Tick ==
    /\ now < MaxSecond
    /\ now' = now + 1
    /\ UNCHANGED <<soul, history, call, pending, mode, surfaces, ever, stale, hurried, raced>>

---------------------------------------------------------------------------------
NoRequest == [op |-> "none", line |-> "", auto |-> FALSE]

Init ==
    /\ soul = Shipped
    /\ history = <<>>
    /\ call = [c \in Calls |-> [pc |-> "idle", thread |-> "daemon", req |-> NoRequest,
                                base |-> Shipped, new |-> Shipped, answer |-> "none"]]
    /\ pending = {}
    /\ now = 0
    /\ mode \in Modes
    /\ surfaces \in BOOLEAN
    /\ ever = LinesOf(Shipped)
    /\ stale = FALSE /\ hurried = FALSE /\ raced = FALSE

Next ==
    \/ \E c \in Calls : \/ Begin(c) \/ Answer(c) \/ Resume(c) \/ TimeOut(c) \/ Cancel(c)
                        \/ Snapshot(c) \/ Truncate(c) \/ Fill(c)
    \/ Tick

Spec == Init /\ [][Next]_vars

---------------------------------------------------------------------------------
(* Properties.                                                                   *)

\* The state is well formed; in particular the feedback section, which every
\* pruning leaves shorter, never outgrows its bound in any version of the file.
TypeOK ==
    /\ \A d \in {soul} \cup Range(history) \cup {call[c].new : c \in Calls} :
         /\ DOMAIN d \subseteq Slots
         /\ LinesOf(d) \subseteq Lines \cup {Text, Placeholder}
         /\ "Feedback" \in DOMAIN d => Len(d["Feedback"]) <= MaxFeedback
    /\ DOMAIN history \subseteq 0..MaxSecond
    /\ pending \subseteq {c \in Calls : call[c].pc \in {"asked", "cancelled"}}
    /\ now \in 0..MaxSecond

\* A reply of success was given to a call that wanted l remembered.
Told(l) == \E c \in Calls : /\ call[c].req.op = "remember" /\ call[c].req.line = l
                            /\ call[c].pc \in {"done", "known"}

\* In confirm mode, with a surface to ask on, no line an agent wants to add gets into
\* any version of soul.md unless a human said yes to a call that carries it or the
\* distiller wrote it: no refusal, timeout, cancellation or stale copy lets it in.
UnreviewedNeverLands ==
    mode = "confirm" /\ surfaces =>
        ever \cap Lines \subseteq
            {call[c].req.line : c \in {d \in Calls : call[d].req.auto \/ call[d].answer = "yes"}}

\* Whatever the file loses, by pruning, by a copy that was out of date or by the
\* replacement of an empty section, is kept in a snapshot, as long as no two
\* snapshots fall in one second and no two threads are in each other's way.
LostIsInHistory ==
    ~hurried /\ ~raced /\ (\A c \in Calls : call[c].pc # "fill") =>
        ever \subseteq LinesOf(soul) \cup UNION {LinesOf(history[s]) : s \in DOMAIN history}

\* What the user was told is remembered is forgotten only when a call writes a copy it
\* took before another write, when threads race, or after a section was set to nothing.
ForgetsOnlyWhenStale ==
    ~stale /\ ~raced /\ (\A c \in Calls : call[c].req.line = "" => call[c].pc \in {"idle", "refused"})
                     /\ (\A c \in Calls : call[c].pc # "fill") =>
        \A l \in Lines : Told(l) => "About" \in DOMAIN soul /\ l \in Range(soul["About"])

\* remember_user promises that the fact has been recorded in soul.md.
RememberedStays ==
    (\A c \in Calls : call[c].pc \notin Writing) =>
        \A l \in Lines : Told(l) => "About" \in DOMAIN soul /\ l \in Range(soul["About"])
=================================================================================
