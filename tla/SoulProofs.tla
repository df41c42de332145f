----------------------------- MODULE SoulProofs -----------------------------
(***************************************************************************)
(* Proofs about Soul, for any number of calls, lines and seconds.          *)
(*                                                                         *)
(* First what the edits do to a version of the file, then one invariant    *)
(* per property: ReviewInv for what a human has to agree to, KeptInv for   *)
(* what the snapshots hold, ToldInv for what the user was told.            *)
(***************************************************************************)
EXTENDS Soul, TLAPS

AllLines == Lines \cup {Text, Placeholder}

\* A version of the file: some slots with their lines, the feedback within its bound.
IsDoc(d) ==
  /\ DOMAIN d \in SUBSET Slots
  /\ d \in [DOMAIN d -> Seq(AllLines)]
  /\ "Feedback" \in DOMAIN d => Len(d["Feedback"]) <= MaxFeedback

LEMMA SlotNames ==
  Slots = {"Name", "Voice", "Role", "Personality", "Style", "About", "Notes", "Feedback"}
<1>1. DOMAIN Order = 1 .. 8
  BY DEF Order
<1>2. Slots = {Order[i] : i \in 1 .. 8}
  BY <1>1 DEF Slots, Range
<1>3. /\ Order[1] = "Name" /\ Order[2] = "Voice" /\ Order[3] = "Role"
      /\ Order[4] = "Personality" /\ Order[5] = "Style" /\ Order[6] = "About"
      /\ Order[7] = "Notes" /\ Order[8] = "Feedback"
  BY DEF Order
<1>4. 1 .. 8 = {1, 2, 3, 4, 5, 6, 7, 8}
  OBVIOUS
<1> QED BY <1>2, <1>3, <1>4

LEMMA LineIn ==
  ASSUME NEW d, NEW l
  PROVE  l \in LinesOf(d) <=> \E s \in DOMAIN d : \E i \in DOMAIN d[s] : d[s][i] = l
BY DEF LinesOf, Range

LEMMA ShippedDoc == IsDoc(Shipped) /\ Shipped # <<>>
<1>1. <<Placeholder>> \in Seq(AllLines) /\ <<Text>> \in Seq(AllLines)
  BY DEF AllLines
<1>2. DOMAIN Shipped = Slots \ {"Feedback"}
  BY DEF Shipped
<1>3. Shipped \in [Slots \ {"Feedback"} -> Seq(AllLines)]
  BY <1>1 DEF Shipped
<1>4. DOMAIN Shipped # DOMAIN <<>>
  BY <1>2, SlotNames
<1> QED BY <1>2, <1>3, <1>4, Zenon DEF IsDoc

LEMMA EmptyDoc == IsDoc(<<>>)
<1>1. DOMAIN <<>> = {}
  OBVIOUS
<1> QED BY <1>1 DEF IsDoc

-----------------------------------------------------------------------------
(* The edits                                                               *)

LEMMA PutDoc ==
  ASSUME NEW d, IsDoc(d), NEW s \in Slots, NEW v \in Seq(AllLines),
         s = "Feedback" => Len(v) <= MaxFeedback
  PROVE  IsDoc(Put(d, s, v))
<1> DEFINE e == Put(d, s, v)
<1>1. DOMAIN e = DOMAIN d \cup {s} /\ \A t \in DOMAIN e : e[t] = IF t = s THEN v ELSE d[t]
  BY DEF Put
<1>2. e = [t \in DOMAIN e |-> e[t]]
  BY DEF Put
<1> HIDE DEF e
<1>3. e \in [DOMAIN e -> Seq(AllLines)]
  BY <1>1, <1>2 DEF IsDoc
<1> QED BY <1>1, <1>3 DEF IsDoc, e

LEMMA PutLines ==
  ASSUME NEW d, NEW s, NEW v
  PROVE  LinesOf(Put(d, s, v)) \subseteq LinesOf(d) \cup Range(v)
<1> SUFFICES ASSUME NEW l \in LinesOf(Put(d, s, v)), l \notin Range(v)
             PROVE  l \in LinesOf(d)
  OBVIOUS
<1>1. PICK t \in DOMAIN Put(d, s, v) : \E i \in DOMAIN Put(d, s, v)[t] : Put(d, s, v)[t][i] = l
  BY LineIn
<1>2. t # s /\ t \in DOMAIN d /\ Put(d, s, v)[t] = d[t]
  BY <1>1 DEF Put, Range
<1> QED BY <1>1, <1>2, LineIn

LEMMA ReplacedDoc ==
  ASSUME NEW d, IsDoc(d), NEW s \in Slots \ {"Feedback"}, NEW v \in Seq(AllLines)
  PROVE  IsDoc(Replaced(d, s, v)) /\ LinesOf(Replaced(d, s, v)) \subseteq LinesOf(d) \cup Range(v)
<1> DEFINE e == Replaced(d, s, v)
<1>1. CASE s \notin DOMAIN d
  BY <1>1 DEF Replaced
<1>2. CASE s \in DOMAIN d
  <2>1. PICK kept \in SUBSET DOMAIN d : e = [t \in kept |-> IF t = s THEN v ELSE d[t]]
    BY <1>2 DEF Replaced
  <2> HIDE DEF e
  <2>2. DOMAIN e = kept /\ \A t \in kept : e[t] = IF t = s THEN v ELSE d[t]
    BY <2>1
  <2>3. e \in [kept -> Seq(AllLines)]
    BY <2>1, <2>2 DEF IsDoc
  <2>4. IsDoc(e)
    BY <2>2, <2>3 DEF IsDoc
  <2>5. ASSUME NEW l \in LinesOf(e), l \notin Range(v)
        PROVE  l \in LinesOf(d)
    <3>1. PICK t \in DOMAIN e : \E i \in DOMAIN e[t] : e[t][i] = l
      BY <2>5, LineIn
    <3>2. t # s /\ t \in DOMAIN d /\ e[t] = d[t]
      BY <2>2, <2>5, <3>1 DEF Range
    <3> QED BY <3>1, <3>2, LineIn
  <2> QED BY <2>4, <2>5 DEF e
<1> QED BY <1>1, <1>2

\* Pruning makes room for a line in a section that respects its bound.
LEMMA PrunedShort ==
  ASSUME NEW b \in Seq(AllLines), Len(b) <= MaxFeedback
  PROVE  /\ Pruned(b) \in Seq(AllLines)
         /\ Len(Pruned(b)) < MaxFeedback
         /\ Range(Pruned(b)) \subseteq Range(b)
<1>1. MaxFeedback \in Nat /\ MaxFeedback >= 2
  BY SoulAssumption
<1>2. CASE Len(b) < MaxFeedback
  BY <1>1, <1>2 DEF Pruned
<1>3. CASE Len(b) = MaxFeedback
  <2> DEFINE n == MaxFeedback
             h == n \div 2
             p == SubSeq(b, n - h + 1, n)
  <2>1. h \in Nat /\ h < n /\ h >= 1
    BY <1>1
  <2>2. Pruned(b) = p
    BY <1>1, <1>3 DEF Pruned
  <2> HIDE DEF h
  <2>3. p \in Seq(AllLines) /\ Len(p) = h /\ \A i \in 1 .. h : p[i] = b[n - h + i]
    BY <1>1, <1>3, <2>1
  <2>4. \A i \in 1 .. h : n - h + i \in 1 .. Len(b)
    BY <1>1, <1>3, <2>1
  <2> HIDE DEF p
  <2>5. Range(p) \subseteq Range(b)
    BY <2>3, <2>4 DEF Range
  <2> QED BY <2>1, <2>2, <2>3, <2>5
<1> QED BY <1>1, <1>2, <1>3

LEMMA AppendLines ==
  ASSUME NEW b \in Seq(AllLines), NEW l \in AllLines
  PROVE  /\ Append(b, l) \in Seq(AllLines)
         /\ Append(b, l) # <<>>
         /\ Len(Append(b, l)) = Len(b) + 1
         /\ Range(Append(b, l)) = Range(b) \cup {l}
<1>1. /\ Append(b, l) \in Seq(AllLines) /\ Len(Append(b, l)) = Len(b) + 1
      /\ Len(b) \in Nat /\ DOMAIN b = 1 .. Len(b)
      /\ DOMAIN Append(b, l) = 1 .. Len(b) + 1
      /\ \A i \in 1 .. Len(b) : Append(b, l)[i] = b[i]
      /\ Append(b, l)[Len(b) + 1] = l
  OBVIOUS
<1> QED BY <1>1 DEF Range

LEMMA OneLine ==
  ASSUME NEW l \in AllLines
  PROVE  <<l>> \in Seq(AllLines) /\ Len(<<l>>) = 1 /\ Range(<<l>>) = {l} /\ <<l>> # <<>>
BY DEF Range

LEMMA AppendedDoc ==
  ASSUME NEW d, IsDoc(d), NEW s \in {"About", "Notes"}, NEW l \in AllLines
  PROVE  /\ IsDoc(Appended(d, s, l))
         /\ LinesOf(Appended(d, s, l)) \subseteq LinesOf(d) \cup {l}
<1> DEFINE v == IF s \notin DOMAIN d \/ d[s] = <<Placeholder>> THEN <<l>> ELSE Append(d[s], l)
<1>1. v \in Seq(AllLines) /\ Range(v) \subseteq LinesOf(d) \cup {l}
  <2>1. CASE s \notin DOMAIN d \/ d[s] = <<Placeholder>>
    BY <2>1, OneLine
  <2>2. CASE ~(s \notin DOMAIN d \/ d[s] = <<Placeholder>>)
    <3>1. d[s] \in Seq(AllLines) /\ Range(d[s]) \subseteq LinesOf(d)
      BY <2>2 DEF IsDoc, LinesOf
    <3> QED BY <2>2, <3>1, AppendLines
  <2> QED BY <2>1, <2>2
<1>2. s \in Slots \ {"Feedback"}
  BY SlotNames
<1>3. Appended(d, s, l) = Replaced(d, s, v)
  BY DEF Appended
<1> HIDE DEF v
<1> QED BY <1>1, <1>2, <1>3, ReplacedDoc

LEMMA FeedbackDoc ==
  ASSUME NEW d, IsDoc(d), NEW l \in AllLines
  PROVE  /\ IsDoc(WithFeedback(d, l))
         /\ LinesOf(WithFeedback(d, l)) \subseteq LinesOf(d) \cup {l}
<1>0. "Feedback" \in Slots
  BY SlotNames
<1>1. CASE "Feedback" \notin DOMAIN d
  <2>1. 1 <= MaxFeedback
    BY SoulAssumption
  <2> QED BY <1>0, <1>1, <2>1, OneLine, PutDoc, PutLines DEF WithFeedback
<1>2. CASE "Feedback" \in DOMAIN d
  <2> DEFINE b == d["Feedback"]
             v == Append(Pruned(b), l)
  <2>1. b \in Seq(AllLines) /\ Len(b) <= MaxFeedback /\ Range(b) \subseteq LinesOf(d)
    BY <1>2 DEF IsDoc, LinesOf
  <2>2. /\ Pruned(b) \in Seq(AllLines) /\ Len(Pruned(b)) < MaxFeedback
        /\ Range(Pruned(b)) \subseteq LinesOf(d)
    BY <2>1, PrunedShort
  <2>3. v \in Seq(AllLines) /\ Len(v) = Len(Pruned(b)) + 1 /\ Range(v) \subseteq LinesOf(d) \cup {l}
    BY <2>2, AppendLines
  <2>4. Len(v) <= MaxFeedback
    BY <2>2, <2>3, SoulAssumption
  <2>5. WithFeedback(d, l) = Put(d, "Feedback", v)
    <3>1. WithFeedback(d, l) = [d EXCEPT !["Feedback"] = v]
      BY <1>2 DEF WithFeedback
    <3> HIDE DEF v
    <3>2. [d EXCEPT !["Feedback"] = v] = Put(d, "Feedback", v)
      BY <1>2 DEF Put, IsDoc
    <3> QED BY <3>1, <3>2
  <2> HIDE DEF v
  <2> QED BY <1>0, <2>3, <2>4, <2>5, PutDoc, PutLines
<1> QED BY <1>1, <1>2

\* An edit of a version is a version, with at most the call's own line added.
LEMMA EditedDoc ==
  ASSUME NEW d, IsDoc(d), NEW r \in Requests
  PROVE  /\ IsDoc(Edited(d, r))
         /\ LinesOf(Edited(d, r)) \subseteq LinesOf(d) \cup {r.line}
<1>1. CASE r.op \in {"remember", "note", "feedback"}
  <2>1. r.line \in AllLines
    BY <1>1, SoulAssumption DEF Requests, AllLines
  <2> QED BY <1>1, <2>1, AppendedDoc, FeedbackDoc DEF Edited
<1>2. CASE r.op \notin {"remember", "note", "feedback"}
  <2>1. r.op \in Slots \ {"Feedback"} /\ r.line \in {"", Text}
    BY <1>2, SoulAssumption, SlotNames DEF Requests
  <2> DEFINE v == IF r.line = "" THEN <<>> ELSE <<r.line>>
  <2>2. v \in Seq(AllLines) /\ Range(v) \subseteq {r.line}
    <3>1. <<>> \in Seq(AllLines) /\ Range(<<>>) = {}
      BY DEF Range
    <3>2. Text \in AllLines
      BY DEF AllLines
    <3> QED BY <2>1, <3>1, <3>2, OneLine
  <2>3. Edited(d, r) = Replaced(d, r.op, v)
    BY <1>2 DEF Edited
  <2> HIDE DEF v
  <2> QED BY <2>1, <2>2, <2>3, ReplacedDoc
<1> QED BY <1>1, <1>2

\* A version of the file with nothing missing and no section empty.
Whole(d) == Slots \ {"Feedback"} \subseteq DOMAIN d /\ \A s \in DOMAIN d : d[s] # <<>>

\* What replacing a part of a whole file does: that part, and nothing else.
WholeWith(d, s, v) ==
  /\ Whole(Replaced(d, s, v))
  /\ Replaced(d, s, v)[s] = v
  /\ \A t \in DOMAIN d \ {s} : Replaced(d, s, v)[t] = d[t]

LEMMA ReplacedWhole ==
  ASSUME NEW d, Whole(d), NEW s \in Slots \ {"Feedback"},
         NEW v \in Seq(AllLines), v # <<>>
  PROVE  WholeWith(d, s, v)
<1>1. s \in DOMAIN d /\ d[s] # <<>>
  BY DEF Whole
<1>2. Replaced(d, s, v) = [t \in DOMAIN d |-> IF t = s THEN v ELSE d[t]]
  BY <1>1 DEF Replaced
<1> QED BY <1>1, <1>2 DEF Whole, WholeWith

\* An edit with a text keeps a whole file whole, and keeps what About says except for
\* the placeholder; a fact is in it afterwards.
LEMMA EditedWhole ==
  ASSUME NEW d, IsDoc(d), Whole(d), NEW r \in Requests, r.line # ""
  PROVE  /\ Whole(Edited(d, r))
         /\ Range(d["About"]) \ {Placeholder} \subseteq Range(Edited(d, r)["About"])
         /\ r.op = "remember" => r.line \in Range(Edited(d, r)["About"])
<1>0. "About" \in DOMAIN d /\ d["About"] \in Seq(AllLines)
  BY SlotNames DEF Whole, IsDoc
<1>1. ASSUME NEW s \in {"About", "Notes"}, NEW l \in AllLines
      PROVE  /\ Whole(Appended(d, s, l))
             /\ Range(d["About"]) \ {Placeholder} \subseteq Range(Appended(d, s, l)["About"])
             /\ s = "About" => l \in Range(Appended(d, s, l)["About"])
  <2> DEFINE v == IF s \notin DOMAIN d \/ d[s] = <<Placeholder>> THEN <<l>> ELSE Append(d[s], l)
  <2>1. s \in Slots \ {"Feedback"} /\ s \in DOMAIN d /\ d[s] \in Seq(AllLines)
    BY SlotNames DEF Whole, IsDoc
  <2>2. /\ v \in Seq(AllLines) /\ v # <<>>
        /\ Range(d[s]) \ {Placeholder} \subseteq Range(v) /\ l \in Range(v)
    <3>1. CASE d[s] = <<Placeholder>>
      <4>1. Range(d[s]) = {Placeholder}
        BY <3>1, OneLine DEF AllLines
      <4> QED BY <2>1, <3>1, <4>1, OneLine
    <3>2. CASE d[s] # <<Placeholder>>
      BY <2>1, <3>2, AppendLines
    <3> QED BY <3>1, <3>2
  <2>3. Appended(d, s, l) = Replaced(d, s, v)
    BY DEF Appended
  <2> HIDE DEF v
  <2>4. WholeWith(d, s, v)
    BY <2>1, <2>2, ReplacedWhole
  <2>5. CASE s = "About"
    BY <2>2, <2>3, <2>4, <2>5 DEF WholeWith
  <2>6. CASE s # "About"
    <3>1. Replaced(d, s, v)["About"] = d["About"]
      BY <1>0, <2>4, <2>6 DEF WholeWith
    <3> QED BY <2>3, <2>4, <2>6, <3>1 DEF WholeWith
  <2> QED BY <2>5, <2>6
<1>2. CASE r.op \in {"remember", "note"}
  <2>1. r.line \in AllLines
    BY <1>2, SoulAssumption DEF Requests, AllLines
  <2> QED BY <1>1, <1>2, <2>1 DEF Edited
<1>3. CASE r.op = "feedback"
  <2>1. r.line \in AllLines
    BY <1>3, SoulAssumption DEF Requests, AllLines
  <2> DEFINE e == Edited(d, r)
             v == IF "Feedback" \in DOMAIN d THEN Append(Pruned(d["Feedback"]), r.line) ELSE <<r.line>>
  <2>2. e = Put(d, "Feedback", v)
    BY <1>3 DEF Edited, WithFeedback, Put, IsDoc
  <2>3. v # <<>>
    <3>1. CASE "Feedback" \in DOMAIN d
      <4>1. Pruned(d["Feedback"]) \in Seq(AllLines)
        BY <3>1, PrunedShort DEF IsDoc
      <4> QED BY <2>1, <3>1, <4>1, AppendLines
    <3>2. CASE "Feedback" \notin DOMAIN d
      BY <2>1, <3>2, OneLine
    <3> QED BY <3>1, <3>2
  <2> HIDE DEF e, v
  <2>4. DOMAIN e = DOMAIN d \cup {"Feedback"} /\ e["Feedback"] = v
        /\ \A t \in DOMAIN d \ {"Feedback"} : e[t] = d[t]
    BY <2>2 DEF Put
  <2>5. Whole(e) /\ e["About"] = d["About"]
    BY <1>0, <2>3, <2>4 DEF Whole
  <2> QED BY <1>3, <2>5 DEF e
<1>4. CASE r.op \notin {"remember", "note", "feedback"}
  <2>1. r.op \in Slots \ {"Feedback", "About"}
    BY <1>4, SoulAssumption, SlotNames DEF Requests
  <2>2. Edited(d, r) = Replaced(d, r.op, <<r.line>>)
    BY <1>4 DEF Edited
  <2>3. <<r.line>> \in Seq(AllLines) /\ <<r.line>> # <<>>
    <3>1. r.line \in AllLines
      BY <1>4 DEF Requests, AllLines
    <3> QED BY <3>1, OneLine
  <2>4. WholeWith(d, r.op, <<r.line>>)
    BY <2>1, <2>3, ReplacedWhole
  <2>5. Edited(d, r)["About"] = d["About"]
    BY <1>0, <2>1, <2>2, <2>4 DEF WholeWith
  <2> QED BY <1>4, <2>2, <2>4, <2>5 DEF WholeWith
<1> QED BY <1>2, <1>3, <1>4

-----------------------------------------------------------------------------
(* The calls                                                               *)

Docs == {d \in UNION {[S -> Seq(AllLines)] : S \in SUBSET Slots} : IsDoc(d)}

Active == {"asked", "write", "truncate", "fill"}  \* a call that carries a copy

CallRecords == [pc : Active \cup {"idle", "known", "refused", "done", "cancelled"},
                thread : Threads, req : Requests \cup {NoRequest},
                base : Docs, new : Docs, answer : {"none", "yes", "no"}]

\* A call that has begun has a request and, while it is under way, the edit of the copy
\* it read; what waits for an answer has none.
CallOK(c) ==
  /\ call[c].pc = "idle" => call[c].answer = "none" /\ call[c].req = NoRequest
  /\ call[c].pc # "idle" => call[c].req \in Requests
  /\ call[c].pc \in Active => call[c].new = Edited(call[c].base, call[c].req)
  /\ c \in pending => call[c].pc \in {"asked", "cancelled"} /\ call[c].answer = "none"

TypeInv ==
  /\ soul \in Docs
  /\ DOMAIN history \subseteq 0 .. MaxSecond
  /\ \A s \in DOMAIN history : history[s] \in Docs
  /\ call \in [Calls -> CallRecords]
  /\ \A c \in Calls : CallOK(c)
  /\ pending \subseteq Calls
  /\ now \in 0 .. MaxSecond

LEMMA DocIn ==
  ASSUME NEW d
  PROVE  d \in Docs <=> IsDoc(d)
BY DEF Docs, IsDoc

LEMMA ShippedIn == Shipped \in Docs /\ <<>> \in Docs
BY ShippedDoc, EmptyDoc, DocIn

LEMMA EditedIn ==
  ASSUME NEW d \in Docs, NEW r \in Requests
  PROVE  Edited(d, r) \in Docs /\ LinesOf(Edited(d, r)) \subseteq LinesOf(d) \cup {r.line}
BY EditedDoc, DocIn

LEMMA DocLines ==
  ASSUME NEW d \in Docs
  PROVE  LinesOf(d) \subseteq AllLines
BY DocIn DEF IsDoc, LinesOf, Range

LEMMA EmptyLines == LinesOf(<<>>) = {}
<1>1. DOMAIN <<>> = {}
  OBVIOUS
<1> QED BY <1>1 DEF LinesOf

LEMMA InitTyped == Init => TypeInv
<1> SUFFICES ASSUME Init PROVE TypeInv
  OBVIOUS
<1>1. DOMAIN history = {}
  BY DEF Init
<1>2. call \in [Calls -> CallRecords]
  BY ShippedIn, SoulAssumption DEF Init, CallRecords, Active
<1>3. \A c \in Calls : CallOK(c)
  BY DEF Init, CallOK, Active
<1>4. now \in 0 .. MaxSecond
  BY SoulAssumption DEF Init
<1> QED BY <1>1, <1>2, <1>3, <1>4, ShippedIn DEF Init, TypeInv

\* The actions of the calls, field by field.
Others(c) == \A d \in Calls \ {c} : call'[d] = call[d]

LEMMA BeginDoes ==
  ASSUME TypeInv, NEW c \in Calls, Begin(c)
  PROVE  /\ call[c].pc = "idle"
         /\ call' \in [Calls -> CallRecords] /\ Others(c)
         /\ call'[c].req \in Requests /\ call'[c].answer = "none"
         /\ call'[c].pc \in {"known", "refused", "asked", "write"}
         /\ call'[c].pc = "known" => Known(soul, call'[c].req)
         /\ call'[c].pc \in Active => /\ call'[c].base = soul
                                      /\ call'[c].new = Edited(soul, call'[c].req)
         /\ call'[c].pc = "write" => \/ call'[c].new = soul \/ call'[c].req.auto
                                     \/ mode # "confirm" \/ ~surfaces
         /\ pending' \subseteq pending \cup {c}
         /\ c \in pending' => call'[c].pc = "asked"
<1>1. PICK r \in Requests, t \in Threads, big \in BOOLEAN :
        LET new == Edited(soul, r)
            pc  == IF Known(soul, r) THEN "known" ELSE Verdict(r, new = soul, big)
        IN  /\ MayRun(c, t)
            /\ call' = [call EXCEPT ![c] =
                          IF pc \in {"known", "refused"} THEN [@ EXCEPT !.pc = pc, !.req = r]
                          ELSE [@ EXCEPT !.pc = pc, !.thread = t, !.req = r,
                                         !.base = soul, !.new = new]]
            /\ pending' = IF pc = "asked" THEN pending \cup {c} ELSE pending
  BY Zenon DEF Begin
<1> DEFINE new == Edited(soul, r)
           verdict == Verdict(r, new = soul, big)
           pc  == IF Known(soul, r) THEN "known" ELSE verdict
           rec == IF pc \in {"known", "refused"} THEN [call[c] EXCEPT !.pc = pc, !.req = r]
                  ELSE [call[c] EXCEPT !.pc = pc, !.thread = t, !.req = r,
                                       !.base = soul, !.new = new]
<1>2. call' = [call EXCEPT ![c] = rec] /\ pending' = IF pc = "asked" THEN pending \cup {c} ELSE pending
  BY <1>1
<1>3. verdict \in {"write", "refused", "asked"}
  BY DEF Verdict
<1>4. verdict = "write" => new = soul \/ r.auto \/ mode # "confirm" \/ ~surfaces
  BY DEF Verdict
<1>5. new \in Docs /\ soul \in Docs /\ call[c] \in CallRecords /\ CallOK(c)
  BY EditedIn DEF TypeInv
<1>6. call[c].pc = "idle"
  BY DEF Begin
<1>7. pc \in {"known", "write", "refused", "asked"} /\ (pc = "known" => Known(soul, r))
      /\ (pc = "write" => verdict = "write")
  BY <1>3
<1> HIDE DEF pc, verdict, new
<1>8. /\ rec \in CallRecords /\ rec.pc = pc /\ rec.req = r /\ rec.answer = call[c].answer
      /\ pc \in Active => rec.base = soul /\ rec.new = new
  BY <1>5, <1>7 DEF CallRecords, Active
<1> HIDE DEF rec
<1>9. call' \in [Calls -> CallRecords] /\ call'[c] = rec /\ Others(c)
  BY <1>2, <1>8 DEF TypeInv, Others
<1>10. c \notin pending
  BY <1>5, <1>6 DEF CallOK
<1>11. rec.answer = "none"
  BY <1>5, <1>6, <1>8 DEF CallOK
<1>12. call'[c].pc = pc /\ call'[c].req = r /\ call'[c].answer = "none"
  BY <1>8, <1>9, <1>11
<1>13. pc \in Active => call'[c].base = soul /\ call'[c].new = new
  BY <1>8, <1>9
<1>14. pc = "write" => new = soul \/ r.auto \/ mode # "confirm" \/ ~surfaces
  BY <1>4, <1>7
<1>15. pc = "write" => pc \in Active
  BY DEF Active
<1>16. pending' \subseteq pending \cup {c} /\ (c \in pending' => pc = "asked")
  BY <1>2, <1>10
<1>17. new = Edited(soul, r)
  BY DEF new
<1> HIDE DEF new
<1> QED BY <1>6, <1>7, <1>9, <1>12, <1>13, <1>14, <1>15, <1>16, <1>17

LEMMA EndedDoes ==
  ASSUME TypeInv, NEW c \in Calls, NEW how \in {"refused", "cancelled", "done"},
         call' = Ended(c, how)
  PROVE  /\ call' \in [Calls -> CallRecords] /\ Others(c)
         /\ call'[c].pc = how /\ call'[c].req = call[c].req
         /\ call'[c].answer = call[c].answer
<1> DEFINE rec == [call[c] EXCEPT !.pc = how, !.thread = "daemon",
                                  !.base = Shipped, !.new = Shipped]
<1>1. call' = [call EXCEPT ![c] = rec]
  BY DEF Ended
<1>2. rec \in CallRecords /\ rec.pc = how /\ rec.req = call[c].req /\ rec.answer = call[c].answer
  <2>1. call[c] \in CallRecords
    BY DEF TypeInv
  <2>2. "daemon" \in Threads /\ Shipped \in Docs
    BY ShippedIn, SoulAssumption
  <2> QED BY <2>1, <2>2 DEF CallRecords, Active
<1> HIDE DEF rec
<1> QED BY <1>1, <1>2 DEF TypeInv, Others

\* A step of a call that only moves on, or only gets its answer.
LEMMA MovesDoes ==
  ASSUME TypeInv, NEW c \in Calls, NEW how \in Active, call' = [call EXCEPT ![c].pc = how]
  PROVE  /\ call' \in [Calls -> CallRecords] /\ Others(c)
         /\ call'[c].pc = how /\ call'[c].req = call[c].req
         /\ call'[c].base = call[c].base /\ call'[c].new = call[c].new
         /\ call'[c].answer = call[c].answer
BY DEF TypeInv, CallRecords, Others

LEMMA AnswerDoes ==
  ASSUME TypeInv, NEW c \in Calls, Answer(c)
  PROVE  /\ c \in pending /\ pending' = pending \ {c}
         /\ call' \in [Calls -> CallRecords] /\ Others(c)
         /\ call[c].answer = "none"
         /\ call'[c].pc = call[c].pc /\ call'[c].req = call[c].req
         /\ call'[c].base = call[c].base /\ call'[c].new = call[c].new
<1>1. PICK yes \in {"yes", "no"} :
        call' = IF call[c].pc = "asked" THEN [call EXCEPT ![c].answer = yes] ELSE call
  BY DEF Answer
<1> QED BY <1>1 DEF Answer, TypeInv, CallRecords, CallOK, Others


LEMMA TruncateDoes ==
  ASSUME TypeInv, NEW c \in Calls, Snapshot(c) \/ Truncate(c)
  PROVE  /\ call' \in [Calls -> CallRecords] /\ Others(c)
         /\ \/ call[c].pc = "write" /\ call'[c].pc = "truncate"
            \/ call[c].pc = "truncate" /\ call'[c].pc = "fill"
         /\ call'[c].req = call[c].req /\ call'[c].answer = call[c].answer
         /\ call'[c].base = call[c].base /\ call'[c].new = call[c].new
<1>1. CASE Snapshot(c)
  <2>1. call[c].pc = "write" /\ call' = [call EXCEPT ![c].pc = "truncate"] /\ "truncate" \in Active
    BY <1>1 DEF Snapshot, Active
  <2> QED BY <2>1, MovesDoes
<1>2. CASE Truncate(c)
  <2>1. call[c].pc = "truncate" /\ call' = [call EXCEPT ![c].pc = "fill"] /\ "fill" \in Active
    BY <1>2 DEF Truncate, Active
  <2> QED BY <2>1, MovesDoes
<1> QED BY <1>1, <1>2

\* Resume goes on to the write, if the answer was yes, or ends the call.
LEMMA ResumeDoes ==
  ASSUME TypeInv, NEW c \in Calls, Resume(c)
  PROVE  /\ call[c].pc = "asked" /\ call[c].answer # "none"
         /\ call' \in [Calls -> CallRecords] /\ Others(c)
         /\ call'[c].pc = (IF call[c].answer = "yes" THEN "write" ELSE "refused")
         /\ call'[c].req = call[c].req /\ call'[c].answer = call[c].answer
         /\ call[c].answer = "yes" => call'[c].base = call[c].base /\ call'[c].new = call[c].new
<1>1. CASE call[c].answer = "yes"
  <2>1. call' = [call EXCEPT ![c].pc = "write"] /\ "write" \in Active
    BY <1>1 DEF Resume, Active
  <2> QED BY <1>1, <2>1, MovesDoes DEF Resume
<1>2. CASE call[c].answer # "yes"
  <2>1. call' = Ended(c, "refused")
    BY <1>2 DEF Resume
  <2> QED BY <1>2, <2>1, EndedDoes DEF Resume
<1> QED BY <1>1, <1>2

LEMMA PutHistory ==
  ASSUME TypeInv, NEW h, h = history \/ h = Put(history, now, soul)
  PROVE  /\ DOMAIN h \subseteq 0 .. MaxSecond
         /\ \A s \in DOMAIN h : h[s] \in Docs
BY DEF TypeInv, Put

\* Every call keeps its record in order when one of them takes a step.
LEMMA OthersOK ==
  ASSUME TypeInv, NEW c \in Calls, Others(c), CallOK(c)', pending' \subseteq pending \cup {c}
  PROVE  \A d \in Calls : CallOK(d)'
<1>1. ASSUME NEW d \in Calls, d # c
      PROVE  CallOK(d)'
  <2>1. call'[d] = call[d] /\ CallOK(d) /\ (d \in pending' => d \in pending)
    BY <1>1 DEF Others, TypeInv
  <2> QED BY <2>1 DEF CallOK
<1> QED BY <1>1

LEMMA TypePreserved == TypeInv /\ [Next]_vars => TypeInv'
<1> SUFFICES ASSUME TypeInv, [Next]_vars PROVE TypeInv'
  OBVIOUS
<1> USE DEF Active
<1>1. ASSUME NEW c \in Calls, Begin(c)
      PROVE  TypeInv'
  <2>1. CallOK(c)'
    BY <1>1, BeginDoes DEF CallOK
  <2>2. pending' \subseteq pending \cup {c} /\ Others(c) /\ call' \in [Calls -> CallRecords]
    BY <1>1, BeginDoes
  <2>3. \A d \in Calls : CallOK(d)'
    BY <2>1, <2>2, OthersOK
  <2> QED BY <1>1, <2>2, <2>3 DEF Begin, TypeInv
<1>2. ASSUME NEW c \in Calls, Answer(c)
      PROVE  TypeInv'
  <2>1. CallOK(c)'
    BY <1>2, AnswerDoes DEF CallOK, TypeInv
  <2>2. pending' \subseteq pending /\ Others(c) /\ call' \in [Calls -> CallRecords]
    BY <1>2, AnswerDoes
  <2>3. \A d \in Calls : CallOK(d)'
    BY <2>1, <2>2, OthersOK
  <2> QED BY <1>2, <2>2, <2>3 DEF Answer, TypeInv
<1>3. ASSUME NEW c \in Calls, Resume(c)
      PROVE  TypeInv'
  <2>1. CallOK(c) /\ pending' = pending
    BY <1>3 DEF TypeInv, Resume
  <2>2. CallOK(c)'
    BY <1>3, <2>1, ResumeDoes DEF CallOK
  <2>3. Others(c) /\ call' \in [Calls -> CallRecords]
    BY <1>3, ResumeDoes
  <2>4. \A d \in Calls : CallOK(d)'
    BY <2>1, <2>2, <2>3, OthersOK
  <2> QED BY <1>3, <2>3, <2>4 DEF Resume, TypeInv
<1>4. ASSUME NEW c \in Calls, NEW how \in {"refused", "cancelled", "done"}, call' = Ended(c, how),
             call[c].pc \in Active, pending' \subseteq pending, c \in pending' => how = "cancelled",
             soul' \in Docs, UNCHANGED <<history, now>>
      PROVE  TypeInv'
  <2>1. CallOK(c) /\ CallOK(c)' /\ Others(c) /\ call' \in [Calls -> CallRecords]
    BY <1>4, EndedDoes DEF CallOK, TypeInv
  <2>2. \A d \in Calls : CallOK(d)'
    BY <1>4, <2>1, OthersOK
  <2> QED BY <1>4, <2>1, <2>2 DEF TypeInv
<1>5. ASSUME NEW c \in Calls, TimeOut(c)
      PROVE  TypeInv'
  BY <1>4, <1>5 DEF TimeOut, TypeInv
<1>6. ASSUME NEW c \in Calls, Cancel(c)
      PROVE  TypeInv'
  BY <1>4, <1>6 DEF Cancel, TypeInv
<1>7. ASSUME NEW c \in Calls, Snapshot(c) \/ Truncate(c)
      PROVE  TypeInv'
  <2>1. CallOK(c) /\ pending' = pending /\ now' = now
    BY <1>7 DEF TypeInv, Snapshot, Truncate
  <2>2. CallOK(c)' /\ Others(c) /\ call' \in [Calls -> CallRecords]
    BY <1>7, <2>1, TruncateDoes DEF CallOK
  <2>3. \A d \in Calls : CallOK(d)'
    BY <2>1, <2>2, OthersOK
  <2>4. soul' \in Docs
    BY <1>7, ShippedIn DEF Snapshot, Truncate, TypeInv
  <2>5. history' = history \/ history' = Put(history, now, soul)
    BY <1>7 DEF Snapshot, Truncate
  <2> QED BY <2>1, <2>2, <2>3, <2>4, <2>5, PutHistory DEF TypeInv
<1>8. ASSUME NEW c \in Calls, Fill(c)
      PROVE  TypeInv'
  <2>1. call[c] \in CallRecords /\ CallOK(c) /\ call[c].pc = "fill"
    BY <1>8 DEF TypeInv, Fill
  <2>2. soul' \in Docs /\ c \notin pending
    BY <1>8, <2>1 DEF Fill, CallRecords, CallOK
  <2> QED BY <1>4, <1>8, <2>1, <2>2 DEF Fill
<1>9. ASSUME Tick
      PROVE  TypeInv'
  BY <1>9, SoulAssumption DEF Tick, TypeInv, CallOK
<1>10. ASSUME UNCHANGED vars
       PROVE  TypeInv'
  BY <1>10 DEF vars, TypeInv, CallOK
<1> QED BY <1>1, <1>2, <1>3, <1>5, <1>6, <1>7, <1>8, <1>9, <1>10 DEF Next

LEMMA Typed == Spec => []TypeInv
BY InitTyped, TypePreserved, PTL DEF Spec

\* Every version of the file, the present one, those kept and those a call is about to
\* write, consists of known slots and lines, with the feedback section within its bound.
THEOREM WellFormed == Spec => []TypeOK
<1>1. TypeInv => TypeOK
  <2> SUFFICES ASSUME TypeInv PROVE TypeOK
    OBVIOUS
  <2>1. ASSUME NEW d \in {soul} \cup Range(history) \cup {call[c].new : c \in Calls}
        PROVE  d \in Docs
    BY <2>1 DEF TypeInv, CallRecords, Range
  <2>2. ASSUME NEW d \in {soul} \cup Range(history) \cup {call[c].new : c \in Calls}
        PROVE  /\ DOMAIN d \subseteq Slots
               /\ LinesOf(d) \subseteq Lines \cup {Text, Placeholder}
               /\ "Feedback" \in DOMAIN d => Len(d["Feedback"]) <= MaxFeedback
    BY <2>1, <2>2, DocIn, DocLines DEF IsDoc, AllLines
  <2>3. pending \subseteq {c \in Calls : call[c].pc \in {"asked", "cancelled"}}
    BY DEF TypeInv, CallOK
  <2> QED BY <2>2, <2>3 DEF TypeOK, TypeInv
<1> QED BY Typed, <1>1, PTL

-----------------------------------------------------------------------------
(* What a human agreed to                                                  *)

Guarded   == mode = "confirm" /\ surfaces
Agreed(c) == call[c].req.auto \/ call[c].answer = "yes"

\* The copies are of versions of the file, and under review a call that gets to write
\* was agreed to, unless it changes nothing.
ReviewInv ==
  /\ LinesOf(soul) \subseteq ever
  /\ \A c \in Calls : call[c].pc \in Active => LinesOf(call[c].base) \subseteq ever
  /\ Guarded => \A c \in Calls :
       call[c].pc \in Writing => Agreed(c) \/ call[c].new = call[c].base
  /\ UnreviewedNeverLands

LEMMA InitReviewed == Init => ReviewInv
<1> SUFFICES ASSUME Init PROVE ReviewInv
  OBVIOUS
<1>1. \A c \in Calls : call[c].pc = "idle"
  BY DEF Init
<1>2. ever \subseteq {Text, Placeholder}
  <2> SUFFICES ASSUME NEW l \in LinesOf(Shipped) PROVE l \in {Text, Placeholder}
    BY DEF Init
  <2>1. PICK s \in DOMAIN Shipped : \E i \in DOMAIN Shipped[s] : Shipped[s][i] = l
    BY LineIn
  <2>2. Shipped[s] = <<Placeholder>> \/ Shipped[s] = <<Text>>
    BY <2>1 DEF Shipped
  <2> QED BY <2>1, <2>2
<1>3. ever \cap Lines = {}
  BY <1>2, SoulAssumption
<1> QED BY <1>1, <1>3 DEF Init, ReviewInv, UnreviewedNeverLands, Active, Writing

\* A step that writes nothing: the others stay as they are, and the call that takes it
\* keeps what was agreed and carries a copy of the file as it is, or the one it had.
LEMMA QuietStep ==
  ASSUME TypeInv, ReviewInv, NEW c \in Calls, Others(c),
         Agreed(c) => Agreed(c)' /\ call'[c].req = call[c].req,
         call'[c].pc \in Active => LinesOf(call'[c].base) \subseteq ever,
         Guarded /\ call'[c].pc \in Writing => Agreed(c)' \/ call'[c].new = call'[c].base,
         UNCHANGED <<mode, surfaces, ever>>, soul' = soul \/ soul' = <<>>
  PROVE  ReviewInv'
<1>1. LinesOf(soul') \subseteq ever'
  BY EmptyLines DEF ReviewInv
<1>2. \A d \in Calls : call'[d].pc \in Active => LinesOf(call'[d].base) \subseteq ever'
  BY DEF ReviewInv, Others
<1>3. Guarded' => \A d \in Calls :
        call'[d].pc \in Writing => Agreed(d)' \/ call'[d].new = call'[d].base
  BY DEF ReviewInv, Others, Guarded, Agreed
<1>4. \A d \in Calls : Agreed(d) => Agreed(d)' /\ call'[d].req = call[d].req
  BY DEF Others, Agreed
<1>5. UnreviewedNeverLands'
  BY <1>4 DEF ReviewInv, UnreviewedNeverLands, Agreed
<1> QED BY <1>1, <1>2, <1>3, <1>5 DEF ReviewInv

LEMMA ReviewPreserved == TypeInv /\ ReviewInv /\ [Next]_vars => ReviewInv'
<1> SUFFICES ASSUME TypeInv, ReviewInv, [Next]_vars PROVE ReviewInv'
  OBVIOUS
<1> USE DEF Active, Writing
<1>1. ASSUME NEW c \in Calls, Begin(c)
      PROVE  ReviewInv'
  <2>1. ~Agreed(c)
    <3>1. call[c].pc = "idle" /\ CallOK(c)
      BY <1>1, BeginDoes DEF TypeInv
    <3>2. call[c].answer = "none" /\ call[c].req = NoRequest
      BY <3>1 DEF CallOK
    <3>3. ~NoRequest.auto
      BY DEF NoRequest
    <3> QED BY <3>2, <3>3, Zenon DEF Agreed
  <2>2. UNCHANGED <<mode, surfaces, ever, soul>>
    BY <1>1 DEF Begin
  <2>3. call'[c].pc \in Active => LinesOf(call'[c].base) \subseteq ever
    BY <1>1, BeginDoes DEF ReviewInv
  <2>4. Guarded /\ call'[c].pc \in Writing => Agreed(c)' \/ call'[c].new = call'[c].base
    BY <1>1, BeginDoes DEF Guarded, Agreed
  <2>5. Others(c)
    BY <1>1, BeginDoes
  <2> QED BY <2>1, <2>2, <2>3, <2>4, <2>5, QuietStep
<1>2. ASSUME NEW c \in Calls, Answer(c)
      PROVE  ReviewInv'
  <2>1. /\ call[c].answer = "none" /\ call'[c].pc = call[c].pc /\ call'[c].req = call[c].req
        /\ call'[c].base = call[c].base /\ call'[c].new = call[c].new /\ Others(c)
    BY <1>2, AnswerDoes
  <2>2. Agreed(c) => Agreed(c)'
    BY <2>1 DEF Agreed
  <2>3. UNCHANGED <<mode, surfaces, ever, soul>>
    BY <1>2 DEF Answer
  <2>4. call'[c].pc \in Active => LinesOf(call'[c].base) \subseteq ever
    BY <2>1 DEF ReviewInv
  <2>5. Guarded /\ call'[c].pc \in Writing => Agreed(c)' \/ call'[c].new = call'[c].base
    BY <2>1, <2>2 DEF ReviewInv
  <2> QED BY <2>1, <2>2, <2>3, <2>4, <2>5, QuietStep
<1>3. ASSUME NEW c \in Calls, Resume(c)
      PROVE  ReviewInv'
  <2>1. /\ Others(c) /\ call'[c].req = call[c].req /\ call'[c].answer = call[c].answer
        /\ call'[c].pc = (IF call[c].answer = "yes" THEN "write" ELSE "refused")
        /\ call[c].answer = "yes" => call'[c].base = call[c].base
        /\ call[c].pc = "asked"
    BY <1>3, ResumeDoes
  <2>2. Agreed(c) => Agreed(c)'
    BY <2>1 DEF Agreed
  <2>3. UNCHANGED <<mode, surfaces, ever, soul>>
    BY <1>3 DEF Resume
  <2>4. call'[c].pc \in Active => LinesOf(call'[c].base) \subseteq ever
    BY <2>1 DEF ReviewInv
  <2>5. call'[c].pc \in Writing => Agreed(c)'
    BY <2>1 DEF Agreed
  <2> QED BY <2>1, <2>2, <2>3, <2>4, <2>5, QuietStep
<1>4. ASSUME NEW c \in Calls, NEW how \in {"refused", "cancelled", "done"}, call' = Ended(c, how),
             UNCHANGED <<mode, surfaces, ever, soul>>
      PROVE  ReviewInv'
  <2>1. /\ Others(c) /\ call'[c].req = call[c].req /\ call'[c].answer = call[c].answer
        /\ call'[c].pc = how
    BY <1>4, EndedDoes
  <2>2. Agreed(c) => Agreed(c)'
    BY <2>1 DEF Agreed
  <2> QED BY <1>4, <2>1, <2>2, QuietStep
<1>5. ASSUME NEW c \in Calls, TimeOut(c) \/ Cancel(c)
      PROVE  ReviewInv'
  BY <1>4, <1>5 DEF TimeOut, Cancel
<1>6. ASSUME NEW c \in Calls, Snapshot(c) \/ Truncate(c)
      PROVE  ReviewInv'
  <2>1. /\ call[c].pc \in Writing /\ Others(c)
        /\ call'[c].req = call[c].req /\ call'[c].answer = call[c].answer
        /\ call'[c].base = call[c].base /\ call'[c].new = call[c].new
    BY <1>6, TruncateDoes
  <2>2. Agreed(c) = Agreed(c)'
    BY <2>1 DEF Agreed
  <2>3. UNCHANGED <<mode, surfaces, ever>> /\ (soul' = soul \/ soul' = <<>>)
    BY <1>6 DEF Snapshot, Truncate
  <2>4. call'[c].pc \in Active => LinesOf(call'[c].base) \subseteq ever
    BY <2>1 DEF ReviewInv
  <2>5. Guarded /\ call'[c].pc \in Writing => Agreed(c)' \/ call'[c].new = call'[c].base
    BY <2>1, <2>2 DEF ReviewInv
  <2> QED BY <2>1, <2>2, <2>3, <2>4, <2>5, QuietStep
<1>7. ASSUME NEW c \in Calls, Fill(c)
      PROVE  ReviewInv'
  <2> DEFINE n == call[c].new
  <2>1. /\ soul' = n /\ ever' = ever \cup LinesOf(n) /\ call' = Ended(c, "done")
        /\ call[c].pc = "fill" /\ UNCHANGED <<mode, surfaces>>
    BY <1>7 DEF Fill
  <2>2. /\ Others(c) /\ call'[c].req = call[c].req /\ call'[c].answer = call[c].answer
        /\ call'[c].pc = "done"
    BY <2>1, EndedDoes
  <2>3. \A d \in Calls : Agreed(d) => Agreed(d)' /\ call'[d].req = call[d].req
    BY <2>2 DEF Others, Agreed
  <2>4. LinesOf(n) \subseteq ever \cup {call[c].req.line}
    <3>1. CallOK(c) /\ call[c] \in CallRecords
      BY DEF TypeInv
    <3>2. n = Edited(call[c].base, call[c].req) /\ call[c].base \in Docs /\ call[c].req \in Requests
      BY <2>1, <3>1 DEF CallOK, CallRecords
    <3>3. LinesOf(n) \subseteq LinesOf(call[c].base) \cup {call[c].req.line}
      BY <3>2, EditedIn
    <3> QED BY <2>1, <3>3 DEF ReviewInv
  <2>5. Guarded => Agreed(c) \/ LinesOf(n) \subseteq ever
    BY <2>1 DEF ReviewInv
  <2> HIDE DEF n
  <2>6. UnreviewedNeverLands'
    <3> SUFFICES ASSUME Guarded, NEW l \in ever' \cap Lines
                 PROVE  \E d \in Calls : l = call'[d].req.line /\ Agreed(d)'
      BY <2>1 DEF UnreviewedNeverLands, Guarded, Agreed
    <3>1. CASE l \in ever
      <4>1. PICK d \in Calls : l = call[d].req.line /\ Agreed(d)
        BY <3>1 DEF ReviewInv, UnreviewedNeverLands, Guarded, Agreed
      <4> QED BY <2>3, <4>1
    <3>2. CASE l \notin ever
      <4>1. l = call[c].req.line /\ Agreed(c)
        BY <2>1, <2>4, <2>5, <3>2
      <4> QED BY <2>3, <4>1
    <3> QED BY <3>1, <3>2
  <2>7. \A d \in Calls : call'[d].pc \in Active => LinesOf(call'[d].base) \subseteq ever'
    BY <2>1, <2>2 DEF ReviewInv, Others
  <2>8. Guarded' => \A d \in Calls :
          call'[d].pc \in Writing => Agreed(d)' \/ call'[d].new = call'[d].base
    BY <2>1, <2>2 DEF ReviewInv, Others, Guarded, Agreed
  <2> QED BY <2>1, <2>6, <2>7, <2>8 DEF ReviewInv
<1>8. ASSUME Tick \/ UNCHANGED vars
      PROVE  ReviewInv'
  <2>1. UNCHANGED <<soul, call, ever, mode, surfaces>>
    BY <1>8 DEF Tick, vars
  <2> QED BY <2>1 DEF ReviewInv, UnreviewedNeverLands, Guarded, Agreed
<1> QED BY <1>1, <1>2, <1>3, <1>5, <1>6, <1>7, <1>8 DEF Next

LEMMA Reviewed == Spec => []ReviewInv
BY InitReviewed, ReviewPreserved, Typed, PTL DEF Spec

\* Under review nothing an agent wants to add is ever in the file, in any interleaving
\* of calls, answers, timeouts, cancellations and stale copies, unless a human agreed.
THEOREM NoUnreviewedLine == Spec => []UnreviewedNeverLands
<1>1. ReviewInv => UnreviewedNeverLands
  BY DEF ReviewInv
<1> QED BY Reviewed, <1>1, PTL

-----------------------------------------------------------------------------
(* What the snapshots hold                                                 *)

Kept   == UNION {LinesOf(history[s]) : s \in DOMAIN history}
NoFill == \A c \in Calls : call[c].pc # "fill"

\* As long as the threads keep out of each other's way one call at a time is in the
\* middle of a write; a line the file has had is in the file or in a snapshot, or on its
\* way into the file: what a truncation takes away was kept by the snapshot before it.
KeptInv ==
  ~hurried /\ ~raced =>
    /\ \A c, d \in Calls : c # d /\ call[c].pc \in {"truncate", "fill"}
                              => call[d].pc \notin {"truncate", "fill"}
    /\ NoFill => ever \subseteq LinesOf(soul) \cup Kept
    /\ \A c \in Calls :
         /\ call[c].pc = "truncate" => LinesOf(soul) \subseteq Kept \cup LinesOf(call[c].new)
         /\ call[c].pc = "fill" => ever \subseteq Kept \cup LinesOf(call[c].new)

LEMMA InitKept == Init => KeptInv
BY DEF Init, KeptInv, Kept

\* A step of c that does not write: c is in no write before it and after it.
LEMMA KeptQuiet ==
  ASSUME KeptInv, NEW c \in Calls, Others(c), raced => raced',
         call[c].pc \notin {"truncate", "fill"}, call'[c].pc \notin {"truncate", "fill"},
         UNCHANGED <<soul, ever, history, hurried>>
  PROVE  KeptInv'
<1> SUFFICES ASSUME ~hurried', ~raced' PROVE KeptInv'
  BY DEF KeptInv
<1>1. ~hurried /\ ~raced
  OBVIOUS
<1>2. \A d \in Calls : call'[d].pc \in {"truncate", "fill"} => call'[d] = call[d]
  BY DEF Others
<1>3. NoFill' => NoFill
  BY DEF NoFill, Others
<1>4. Kept' = Kept
  BY DEF Kept
<1> QED BY <1>1, <1>2, <1>3, <1>4 DEF KeptInv

\* The step of a call in a write, by which the others stand still.
LEMMA AloneThen ==
  ASSUME NEW c \in Calls, Touches(c), ~raced'
  PROVE  ~raced /\ \A d \in Calls \ {c} : call[d].pc \notin Writing
BY DEF Touches

LEMMA KeptPreserved == TypeInv /\ KeptInv /\ [Next]_vars => KeptInv'
<1> SUFFICES ASSUME TypeInv, KeptInv, [Next]_vars PROVE KeptInv'
  OBVIOUS
<1>1. ASSUME NEW c \in Calls, Begin(c)
      PROVE  KeptInv'
  <2>1. /\ call[c].pc = "idle" /\ Others(c)
        /\ call'[c].pc \in {"known", "refused", "asked", "write"}
    BY <1>1, BeginDoes
  <2>2. UNCHANGED <<soul, ever, history, hurried>> /\ (raced => raced')
    BY <1>1 DEF Begin, Touches
  <2> QED BY <2>1, <2>2, KeptQuiet
<1>2. ASSUME NEW c \in Calls, Answer(c)
      PROVE  KeptInv'
  <2>1. call[c].pc \in {"asked", "cancelled"} /\ call'[c].pc = call[c].pc /\ Others(c)
    BY <1>2, AnswerDoes DEF TypeInv, CallOK
  <2>2. UNCHANGED <<soul, ever, history, hurried, raced>>
    BY <1>2 DEF Answer
  <2> QED BY <2>1, <2>2, KeptQuiet
<1>3. ASSUME NEW c \in Calls, Resume(c)
      PROVE  KeptInv'
  <2>1. call[c].pc = "asked" /\ call'[c].pc \in {"write", "refused"} /\ Others(c)
    BY <1>3, ResumeDoes
  <2>2. UNCHANGED <<soul, ever, history, hurried, raced>>
    BY <1>3 DEF Resume
  <2> QED BY <2>1, <2>2, KeptQuiet
<1>4. ASSUME NEW c \in Calls, TimeOut(c) \/ Cancel(c)
      PROVE  KeptInv'
  <2>1. PICK how \in {"refused", "cancelled"} : call' = Ended(c, how)
    BY <1>4 DEF TimeOut, Cancel
  <2>2. call[c].pc = "asked" /\ UNCHANGED <<soul, ever, history, hurried, raced>>
    BY <1>4 DEF TimeOut, Cancel
  <2>3. Others(c) /\ call'[c].pc = how
    BY <2>1, EndedDoes
  <2> QED BY <2>2, <2>3, KeptQuiet
<1>5. ASSUME NEW c \in Calls, Snapshot(c)
      PROVE  KeptInv'
  <2> SUFFICES ASSUME ~hurried', ~raced' PROVE KeptInv'
    BY DEF KeptInv
  <2>1. /\ call[c].pc = "write" /\ UNCHANGED <<soul, ever>> /\ Touches(c)
        /\ hurried' = (hurried \/ (soul # call[c].new /\ now \in DOMAIN history))
        /\ history' = IF soul = call[c].new THEN history ELSE Put(history, now, soul)
    BY <1>5 DEF Snapshot
  <2>2. Others(c) /\ call'[c].pc = "truncate" /\ call'[c].new = call[c].new
    BY <1>5, <2>1, TruncateDoes
  <2>3. ~raced /\ ~hurried /\ \A d \in Calls \ {c} : call'[d].pc \notin {"truncate", "fill"}
    BY <2>1, <2>2, AloneThen DEF Writing, Others
  <2>4. ever \subseteq LinesOf(soul) \cup Kept
    BY <2>1, <2>3, AloneThen DEF KeptInv, NoFill, Writing
  <2>5. Kept \subseteq Kept' /\ LinesOf(soul) \subseteq Kept' \cup LinesOf(call[c].new)
    <3>1. CASE soul = call[c].new
      BY <2>1, <3>1 DEF Kept
    <3>2. CASE soul # call[c].new
      <4>1. now \notin DOMAIN history /\ history' = Put(history, now, soul)
        BY <2>1, <3>2
      <4>2. /\ DOMAIN history' = DOMAIN history \cup {now} /\ history'[now] = soul
            /\ \A s \in DOMAIN history : history'[s] = history[s]
        BY <4>1 DEF Put
      <4> QED BY <4>2 DEF Kept
    <3> QED BY <3>1, <3>2
  <2> QED BY <2>1, <2>2, <2>3, <2>4, <2>5 DEF KeptInv
<1>6. ASSUME NEW c \in Calls, Truncate(c)
      PROVE  KeptInv'
  <2> SUFFICES ASSUME ~hurried', ~raced' PROVE KeptInv'
    BY DEF KeptInv
  <2>1. call[c].pc = "truncate" /\ UNCHANGED <<ever, history, hurried>> /\ Touches(c)
    BY <1>6 DEF Truncate
  <2>2. Others(c) /\ call'[c].pc = "fill" /\ call'[c].new = call[c].new
    BY <1>6, <2>1, TruncateDoes
  <2>3. ~raced /\ ~hurried /\ \A d \in Calls \ {c} : call'[d].pc \notin {"truncate", "fill"}
    BY <2>1, <2>2, AloneThen DEF Writing, Others
  <2>4. ever \subseteq LinesOf(soul) \cup Kept
    BY <2>1, <2>3, AloneThen DEF KeptInv, NoFill, Writing
  <2>5. LinesOf(soul) \subseteq Kept \cup LinesOf(call[c].new) /\ Kept' = Kept
    BY <2>1, <2>3 DEF KeptInv, Kept
  <2>6. ever' \subseteq Kept' \cup LinesOf(call'[c].new) /\ ~NoFill'
    BY <2>1, <2>2, <2>4, <2>5 DEF NoFill
  <2> QED BY <2>2, <2>3, <2>6 DEF KeptInv
<1>7. ASSUME NEW c \in Calls, Fill(c)
      PROVE  KeptInv'
  <2> SUFFICES ASSUME ~hurried', ~raced' PROVE KeptInv'
    BY DEF KeptInv
  <2>1. /\ call[c].pc = "fill" /\ UNCHANGED <<history, hurried>> /\ Touches(c)
        /\ soul' = call[c].new /\ ever' = ever \cup LinesOf(call[c].new)
        /\ call' = Ended(c, "done")
    BY <1>7 DEF Fill
  <2>2. Others(c) /\ call'[c].pc = "done"
    BY <2>1, EndedDoes
  <2>3. ~raced /\ ~hurried /\ \A d \in Calls : call'[d].pc \notin {"truncate", "fill"}
    BY <2>1, <2>2, AloneThen DEF Writing, Others
  <2>4. ever \subseteq Kept \cup LinesOf(call[c].new) /\ Kept' = Kept
    BY <2>1, <2>3 DEF KeptInv, Kept
  <2> QED BY <2>1, <2>3, <2>4 DEF KeptInv
<1>8. ASSUME Tick \/ UNCHANGED vars
      PROVE  KeptInv'
  <2>1. UNCHANGED <<soul, call, ever, history, hurried, raced>>
    BY <1>8 DEF Tick, vars
  <2> QED BY <2>1 DEF KeptInv, Kept, NoFill
<1> QED BY <1>1, <1>2, <1>3, <1>4, <1>5, <1>6, <1>7, <1>8 DEF Next

\* No line the file has had is lost from the file and from the snapshots, as long as no
\* snapshot takes another's name and the threads do not get in each other's way.
THEOREM NothingIsLost == Spec => []LostIsInHistory
<1>1. KeptInv => LostIsInHistory
  BY DEF KeptInv, LostIsInHistory, NoFill, Kept
<1>2. Spec => []KeptInv
  BY InitKept, KeptPreserved, Typed, PTL DEF Spec
<1> QED BY <1>1, <1>2, PTL

-----------------------------------------------------------------------------
(* What the user was told                                                  *)

\* A section was set to nothing, or is about to be.
Blanked == \E c \in Calls : call[c].req.line = "" /\ call[c].pc \in Writing \cup {"done"}

Recalls(d) == \A l \in Lines : Told(l) => l \in Range(d["About"])

\* As long as no copy is out of date and no section empty, the file is whole and recalls
\* what was told, and so does the copy of a call that has emptied the file to write it.
ToldInv ==
  ~stale /\ ~raced /\ ~Blanked =>
    /\ NoFill => Whole(soul) /\ Recalls(soul)
    /\ \A c \in Calls :
         /\ call[c].pc \in Active => Whole(call[c].base)
         /\ call[c].pc = "truncate" => soul = call[c].base
         /\ call[c].pc = "fill" => Recalls(call[c].new)

LEMMA InitTold == Init => ToldInv
<1> SUFFICES ASSUME Init PROVE ToldInv
  OBVIOUS
<1>1. \A c \in Calls : call[c].pc = "idle"
  BY DEF Init
<1>2. Recalls(soul)
  BY <1>1 DEF Recalls, Told
<1>3. Whole(soul)
  BY SlotNames DEF Init, Shipped, Whole
<1> QED BY <1>1, <1>2, <1>3 DEF ToldInv, Active

\* A call that ends in some other way than with a reply of success tells nothing, and
\* one that blanks a section has done so for good.
LEMMA ToldQuiet ==
  ASSUME TypeInv, ToldInv, NEW c \in Calls, Others(c), raced => raced',
         call[c].pc \in {"idle", "asked", "cancelled"},
         call'[c].pc \in {"asked", "write", "refused", "cancelled"},
         call'[c].pc \in Active /\ ~raced' /\ ~stale /\ ~Blanked => Whole(call'[c].base),
         UNCHANGED <<soul, stale>>
  PROVE  ToldInv'
<1> SUFFICES ASSUME ~stale', ~raced', ~Blanked' PROVE ToldInv'
  BY DEF ToldInv
<1>1. ~Blanked
  BY DEF Blanked, Others, Writing
<1>2. ASSUME NEW l
      PROVE  Told(l)' <=> Told(l)
  BY DEF Told, Others
<1>3. NoFill' => NoFill
  BY DEF NoFill, Others
<1>5. NoFill' => Whole(soul') /\ Recalls(soul)'
  BY <1>1, <1>2, <1>3 DEF ToldInv, Recalls
<1>6. ASSUME NEW d \in Calls
      PROVE  /\ call'[d].pc \in Active => Whole(call'[d].base)
             /\ call'[d].pc = "truncate" => soul' = call'[d].base
             /\ call'[d].pc = "fill" => Recalls(call[d].new)'
  <2>1. CASE d = c
    BY <1>1, <2>1 DEF ToldInv
  <2>2. CASE d # c
    <3>1. call'[d] = call[d]
      BY <2>2 DEF Others
    <3>2. /\ call[d].pc \in Active => Whole(call[d].base)
          /\ call[d].pc = "truncate" => soul = call[d].base
          /\ call[d].pc = "fill" => Recalls(call[d].new)
      BY <1>1 DEF ToldInv
    <3> QED BY <1>2, <3>1, <3>2 DEF Recalls
  <2> QED BY <2>1, <2>2
<1> QED BY <1>5, <1>6 DEF ToldInv


\* The writer stays on its way: what was told does not change.
LEMMA SameTold ==
  ASSUME NEW c \in Calls, Others(c), call[c].pc \in Writing, call'[c].pc \in Writing,
         call'[c].req = call[c].req
  PROVE  /\ \A l : Told(l)' <=> Told(l)
         /\ Blanked' <=> Blanked
BY DEF Told, Blanked, Others, Writing

LEMMA ToldPreserved == TypeInv /\ ToldInv /\ [Next]_vars => ToldInv'
<1> SUFFICES ASSUME TypeInv, ToldInv, [Next]_vars PROVE ToldInv'
  OBVIOUS
<1>1. ASSUME NEW c \in Calls, Begin(c)
      PROVE  ToldInv'
  <2>1. /\ call[c].pc = "idle" /\ Others(c)
        /\ call'[c].pc \in {"known", "refused", "asked", "write"}
        /\ call'[c].pc = "known" => Known(soul, call'[c].req)
        /\ call'[c].pc \in Active => call'[c].base = soul
    BY <1>1, BeginDoes
  <2>2. UNCHANGED <<soul, stale>> /\ Touches(c)
    BY <1>1 DEF Begin
  <2>3. ~raced' => NoFill /\ NoFill' /\ ~raced
    BY <2>1, <2>2, AloneThen DEF NoFill, Writing, Others
  <2>4. CASE call'[c].pc # "known"
    <3>1. call'[c].pc \in Active /\ ~raced' /\ ~stale /\ ~Blanked => Whole(call'[c].base)
      BY <2>1, <2>3 DEF ToldInv
    <3>2. raced => raced'
      BY <2>3
    <3> QED BY <2>1, <2>2, <2>4, <3>1, <3>2, ToldQuiet
  <2>5. CASE call'[c].pc = "known"
    <3> SUFFICES ASSUME ~stale', ~raced', ~Blanked' PROVE ToldInv'
      BY DEF ToldInv
    <3>1. ~stale /\ ~raced /\ ~Blanked /\ NoFill /\ NoFill'
      BY <2>1, <2>2, <2>3 DEF Blanked, Others, Writing
    <3>2. Whole(soul) /\ Recalls(soul)
      BY <3>1 DEF ToldInv
    <3>3. ASSUME NEW l \in Lines, Told(l)'
          PROVE  l \in Range(soul["About"])
      <4>1. CASE Told(l)
        BY <3>2, <4>1 DEF Recalls
      <4>2. CASE ~Told(l)
        <5>1. call'[c].req.op = "remember" /\ call'[c].req.line = l
          BY <2>1, <3>3, <4>2 DEF Told, Others
        <5> QED BY <2>1, <2>5, <5>1 DEF Known
      <4> QED BY <4>1, <4>2
    <3>4. Whole(soul') /\ Recalls(soul)'
      BY <2>2, <3>2, <3>3 DEF Recalls
    <3>5. \A d \in Calls :
            /\ call'[d].pc \in Active => Whole(call'[d].base)
            /\ call'[d].pc = "truncate" => soul' = call'[d].base
            /\ call'[d].pc # "fill"
      BY <2>1, <2>2, <2>5, <3>1 DEF ToldInv, Active, Others, NoFill
    <3> QED BY <3>4, <3>5 DEF ToldInv
  <2> QED BY <2>4, <2>5
<1>2. ASSUME NEW c \in Calls, Answer(c)
      PROVE  ToldInv'
  <2>1. /\ call[c].pc \in {"asked", "cancelled"} /\ call'[c].pc = call[c].pc /\ Others(c)
        /\ call'[c].base = call[c].base
    BY <1>2, AnswerDoes DEF TypeInv, CallOK
  <2>2. UNCHANGED <<soul, stale, raced>>
    BY <1>2 DEF Answer
  <2>3. call'[c].pc \in Active /\ ~raced' /\ ~stale /\ ~Blanked => Whole(call'[c].base)
    BY <2>1, <2>2 DEF ToldInv
  <2> QED BY <2>1, <2>2, <2>3, ToldQuiet
<1>3. ASSUME NEW c \in Calls, Resume(c)
      PROVE  ToldInv'
  <2>1. /\ call[c].pc = "asked" /\ Others(c)
        /\ call'[c].pc \in {"refused", "write"}
        /\ call'[c].pc = "write" => call'[c].base = call[c].base
    BY <1>3, ResumeDoes
  <2>2. UNCHANGED <<soul, stale, raced>>
    BY <1>3 DEF Resume
  <2>3. call'[c].pc \in Active /\ ~raced' /\ ~stale /\ ~Blanked => Whole(call'[c].base)
    BY <2>1, <2>2 DEF ToldInv, Active
  <2> QED BY <2>1, <2>2, <2>3, ToldQuiet
<1>4. ASSUME NEW c \in Calls, TimeOut(c) \/ Cancel(c)
      PROVE  ToldInv'
  <2>1. PICK how \in {"refused", "cancelled"} : call' = Ended(c, how)
    BY <1>4 DEF TimeOut, Cancel
  <2>2. call[c].pc = "asked" /\ UNCHANGED <<soul, stale, raced>>
    BY <1>4 DEF TimeOut, Cancel
  <2>3. Others(c) /\ call'[c].pc = how
    BY <2>1, EndedDoes
  <2> QED BY <2>2, <2>3, ToldQuiet DEF Active
<1>5. ASSUME NEW c \in Calls, Snapshot(c)
      PROVE  ToldInv'
  <2> SUFFICES ASSUME ~stale', ~raced', ~Blanked' PROVE ToldInv'
    BY DEF ToldInv
  <2>1. /\ call[c].pc = "write" /\ UNCHANGED soul /\ Touches(c)
        /\ stale' = (stale \/ soul # call[c].base)
    BY <1>5 DEF Snapshot
  <2>2. /\ Others(c) /\ call'[c].pc = "truncate" /\ call'[c].base = call[c].base
        /\ call'[c].req = call[c].req
    BY <1>5, <2>1, TruncateDoes
  <2>3. /\ ~raced /\ ~stale /\ ~Blanked /\ soul = call[c].base
        /\ \A l : Told(l)' <=> Told(l)
    BY <2>1, <2>2, AloneThen, SameTold DEF Writing
  <2>4. NoFill /\ \A d \in Calls \ {c} : call'[d] = call[d] /\ call[d].pc \notin {"truncate", "fill"}
    BY <2>1, <2>2, AloneThen DEF NoFill, Writing, Others
  <2>5. Whole(soul) /\ Recalls(soul) /\ \A d \in Calls : call[d].pc \in Active => Whole(call[d].base)
    BY <2>3, <2>4 DEF ToldInv
  <2>6. Whole(soul') /\ Recalls(soul)'
    BY <2>1, <2>3, <2>5 DEF Recalls
  <2>7. \A d \in Calls :
          /\ call'[d].pc \in Active => Whole(call'[d].base)
          /\ call'[d].pc = "truncate" => soul' = call'[d].base
          /\ call'[d].pc # "fill"
    BY <2>1, <2>2, <2>3, <2>4, <2>5 DEF Active
  <2> QED BY <2>6, <2>7 DEF ToldInv
<1>6. ASSUME NEW c \in Calls, Truncate(c)
      PROVE  ToldInv'
  <2> SUFFICES ASSUME ~stale', ~raced', ~Blanked' PROVE ToldInv'
    BY DEF ToldInv
  <2> DEFINE b == call[c].base
             n == call[c].new
  <2>1. call[c].pc = "truncate" /\ UNCHANGED stale /\ Touches(c)
    BY <1>6 DEF Truncate
  <2>2. /\ Others(c) /\ call'[c].pc = "fill" /\ call'[c].req = call[c].req
        /\ call'[c].base = b /\ call'[c].new = n
    BY <1>6, <2>1, TruncateDoes
  <2>3. ~raced /\ ~stale /\ ~Blanked /\ \A l : Told(l)' <=> Told(l)
    BY <2>1, <2>2, AloneThen, SameTold DEF Writing
  <2>4. NoFill /\ \A d \in Calls \ {c} : call'[d] = call[d] /\ call[d].pc \notin {"truncate", "fill"}
    BY <2>1, <2>2, AloneThen DEF NoFill, Writing, Others
  <2>5. /\ Recalls(soul) /\ soul = b
        /\ \A d \in Calls : call[d].pc \in Active => Whole(call[d].base)
    BY <2>1, <2>3, <2>4 DEF ToldInv
  <2>6. Range(b["About"]) \ {Placeholder} \subseteq Range(n["About"])
    <3>1. call[c] \in CallRecords /\ CallOK(c)
      BY DEF TypeInv
    <3>2. n = Edited(b, call[c].req) /\ b \in Docs /\ call[c].req \in Requests
      BY <2>1, <3>1 DEF CallOK, CallRecords, Active
    <3>3. call[c].req.line # "" /\ Whole(b) /\ IsDoc(b)
      BY <2>1, <2>3, <2>5, <3>2, DocIn DEF Blanked, Writing, Active
    <3> HIDE DEF b
    <3>4. Range(b["About"]) \ {Placeholder} \subseteq Range(Edited(b, call[c].req)["About"])
      BY <3>2, <3>3, EditedWhole
    <3> QED BY <3>2, <3>4
  <2>7. Recalls(call[c].new)'
    <3>1. \A l \in Lines : l # Placeholder
      BY SoulAssumption
    <3>2. \A l \in Lines : Told(l) => l \in Range(n["About"])
      BY <2>5, <2>6, <3>1 DEF Recalls
    <3> QED BY <2>2, <2>3, <3>2 DEF Recalls
  <2>8. ~NoFill'
    BY <2>2 DEF NoFill
  <2>9. \A d \in Calls :
          /\ call'[d].pc \in Active => Whole(call'[d].base)
          /\ call'[d].pc # "truncate"
          /\ call'[d].pc = "fill" => d = c
    BY <2>1, <2>2, <2>4, <2>5 DEF Active
  <2> QED BY <2>7, <2>8, <2>9 DEF ToldInv
<1>7. ASSUME NEW c \in Calls, Fill(c)
      PROVE  ToldInv'
  <2> SUFFICES ASSUME ~stale', ~raced', ~Blanked' PROVE ToldInv'
    BY DEF ToldInv
  <2> DEFINE b == call[c].base
             n == call[c].new
             r == call[c].req
  <2>1. /\ call[c].pc = "fill" /\ UNCHANGED stale /\ Touches(c)
        /\ soul' = n /\ call' = Ended(c, "done")
    BY <1>7 DEF Fill
  <2>2. Others(c) /\ call'[c].pc = "done" /\ call'[c].req = r
    BY <2>1, EndedDoes
  <2>3. ~raced /\ ~stale /\ ~Blanked /\ r.line # ""
    BY <2>1, <2>2, AloneThen DEF Blanked, Others, Writing
  <2>4. \A d \in Calls \ {c} : call'[d] = call[d] /\ call[d].pc \notin Writing
    BY <2>1, <2>2, AloneThen DEF Others
  <2>5. Recalls(n) /\ \A d \in Calls : call[d].pc \in Active => Whole(call[d].base)
    BY <2>1, <2>3 DEF ToldInv
  <2>6. Whole(n) /\ (r.op = "remember" => r.line \in Range(n["About"]))
    <3>1. call[c] \in CallRecords /\ CallOK(c)
      BY DEF TypeInv
    <3>2. n = Edited(b, r) /\ b \in Docs /\ r \in Requests
      BY <2>1, <3>1 DEF CallOK, CallRecords, Active
    <3>3. Whole(b) /\ IsDoc(b)
      BY <2>1, <2>5, <3>2, DocIn DEF Active
    <3> HIDE DEF b, r
    <3>4. Whole(Edited(b, r)) /\ (r.op = "remember" => r.line \in Range(Edited(b, r)["About"]))
      BY <2>3, <3>2, <3>3, EditedWhole
    <3> QED BY <3>2, <3>4
  <2>7. ASSUME NEW l \in Lines, Told(l)'
        PROVE  l \in Range(n["About"])
    <3>1. CASE Told(l)
      BY <2>5, <3>1 DEF Recalls
    <3>2. CASE ~Told(l)
      <4>1. r.op = "remember" /\ r.line = l
        BY <2>2, <2>7, <3>2 DEF Told, Others
      <4> QED BY <2>6, <4>1
    <3> QED BY <3>1, <3>2
  <2>8. Whole(soul') /\ Recalls(soul)'
    BY <2>1, <2>6, <2>7 DEF Recalls
  <2>9. \A d \in Calls :
          /\ call'[d].pc \in Active => Whole(call'[d].base)
          /\ call'[d].pc \notin {"truncate", "fill"}
    BY <2>2, <2>4, <2>5 DEF Active, Writing
  <2> QED BY <2>8, <2>9 DEF ToldInv
<1>8. ASSUME Tick \/ UNCHANGED vars
      PROVE  ToldInv'
  <2>1. UNCHANGED <<soul, call, stale, raced>>
    BY <1>8 DEF Tick, vars
  <2> QED BY <2>1 DEF ToldInv, Recalls, Told, Blanked, NoFill
<1> QED BY <1>1, <1>2, <1>3, <1>4, <1>5, <1>6, <1>7, <1>8 DEF Next

\* What the user was told is remembered stays in the file, unless a call writes a copy
\* that is out of date, the threads race or a section was set to nothing.
THEOREM ToldIsRemembered == Spec => []ForgetsOnlyWhenStale
<1>1. ToldInv => ForgetsOnlyWhenStale
  <2> SUFFICES ASSUME ToldInv, ~stale, ~raced, NoFill,
                      \A c \in Calls : call[c].req.line = "" => call[c].pc \in {"idle", "refused"},
                      NEW l \in Lines, Told(l)
               PROVE  "About" \in DOMAIN soul /\ l \in Range(soul["About"])
    BY DEF ForgetsOnlyWhenStale, NoFill
  <2>1. ~Blanked
    BY DEF Blanked, Writing
  <2>2. Whole(soul) /\ Recalls(soul)
    BY <2>1 DEF ToldInv
  <2>3. "About" \in Slots \ {"Feedback"}
    BY SlotNames
  <2> QED BY <2>2, <2>3 DEF Whole, Recalls
<1>2. Spec => []ToldInv
  BY InitTold, ToldPreserved, Typed, PTL DEF Spec
<1> QED BY <1>1, <1>2, PTL
=============================================================================
