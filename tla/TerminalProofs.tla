--------------------------- MODULE TerminalProofs ---------------------------
(***************************************************************************)
(* Proofs about SessionView and SessionWatcher, for any number of sessions,*)
(* reads, writes and troubles and buffers of any size.                     *)
(*                                                                         *)
(* A row a page has read is Good as long as no row number is used twice:   *)
(* it scrolled out, or it was the screen, or the terminal still holds it.  *)
(* AnswerInv says that an answer holds consecutive Good rows that begin    *)
(* after its cursor; ShownInv that the page has, in order, all the rows up *)
(* to its cursor that it did not drop, and that they are Good.  GoneInv    *)
(* says that the watcher lets go of a session only when what it announced  *)
(* is gone, and PeekInv that a read that is under way will see it.         *)
(***************************************************************************)
EXTENDS SessionView, SessionWatcher, FiniteSetTheorems, WellFoundedInduction, TLAPS

USE BridgeAssumption DEF None, Blank

-----------------------------------------------------------------------------
(* Types                                                                   *)

Cells   == Nat \X (0 .. MaxWrites)
Cursors == Nat \cup {None}

Tasks == [s : Sessions, after : Cursors, at : {"sent", "info"}, over : Nat, total : Nat,
          slid : BOOLEAN]

Replies == [s : Sessions, after : Cursors, rws : SUBSET Cells, screen : SUBSET Nat,
            last : Cursors, dropped : BOOLEAN, error : BOOLEAN, slid : BOOLEAN,
            torn : BOOLEAN]

\* What is on the page.
Marks == Cursors \X (0 .. MaxWrites) \X BOOLEAN

BufferTyped ==
  /\ open \subseteq Sessions
  /\ rows \in [Sessions -> Seq(0 .. MaxWrites)] /\ \A s \in Sessions : rows[s] # <<>>
  /\ overflow \in [Sessions -> Nat]
  /\ writes \in 0 .. MaxWrites

PageTyped ==
  /\ current \in Sessions \cup {None}
  /\ cursor \in [Sessions -> Cursors]
  /\ shown \in Seq(Marks)
  /\ edge \subseteq Nat /\ suspect \in BOOLEAN /\ reused \in BOOLEAN
  /\ reads \in Seq(Tasks) /\ answers \in Seq(Replies)

\* Row n of session s with the write w in it, which was the screen if n is in seen.
Good(s, n, w, seen) ==
  /\ n <= LastValid(s)
  /\ \/ n < overflow[s]
     \/ n \in seen
     \/ n < LastValid(s) /\ rows[s][n - overflow[s] + 1] = w

\* The rows numbered from first to last, one each.
RowsBy(v, first, last) == {<<n, v[n]>> : n \in first .. last}

Run(rws, first, last) ==
  \E v \in [first .. last -> 0 .. MaxWrites] : rws = RowsBy(v, first, last)

\* The size a read was told is not beyond the buffer, unless numbers were used again.
ReadInv ==
  \A i \in DOMAIN reads :
    LET r == reads[i] IN
    r.at = "info" /\ ~r.slid => r.over + r.total - 1 <= LastValid(r.s)

\* No rows and no new cursor, or a run of Good rows that ends with the new cursor.
AnswerOK(a) ==
  IF a.rws = {} THEN a.last \in {None, a.after}
  ELSE /\ a.last # None /\ ~a.error
       /\ ~a.slid /\ ~a.torn =>
            /\ \A x \in a.rws : Good(a.s, x[1], x[2], a.screen)
            /\ \E first \in Nat :
                 /\ first <= a.last
                 /\ a.after # None => first = a.after + 1
                 /\ Run(a.rws, first, a.last)

AnswerInv == \A i \in DOMAIN answers : AnswerOK(answers[i])

LinesOf(p) == {i \in DOMAIN p : p[i][1] # None}

\* Rows in their order, and all of them up to number c, but for those that were dropped.
Whole(p, c, dropped) ==
  \A i \in LinesOf(p) :
    /\ c # None /\ p[i][1] <= c
    /\ \A j \in LinesOf(p) : i < j => p[i][1] < p[j][1]
    /\ \A n \in p[i][1] .. c : n \in dropped \/ \E k \in LinesOf(p) : p[k][1] = n

ShownInv ==
  ~suspect =>
    /\ LinesOf(shown) # {} => current \in Sessions /\ Whole(shown, cursor[current], skipped)
    /\ \A i \in LinesOf(shown) :
         /\ Good(current, shown[i][1], shown[i][2], edge)
         /\ shown[i][3] \/ shown[i][1] \in seams

Inv == BufferTyped /\ PageTyped /\ ReadInv /\ AnswerInv /\ ShownInv

-----------------------------------------------------------------------------
(* Rows                                                                    *)

LEMMA RunCounts ==
  ASSUME NEW first \in Nat, NEW last \in Int, NEW v
  PROVE  /\ IsFiniteSet(RowsBy(v, first, last))
         /\ Cardinality(RowsBy(v, first, last)) = IF first > last THEN 0 ELSE last - first + 1
<1> DEFINE f   == [n \in first .. last |-> <<n, v[n]>>]
           rws == RowsBy(v, first, last)
<1>1. f \in Bijection(first .. last, rws)
  BY DEF RowsBy, Bijection, Injection, Surjection, IsInjective
<1>2. ExistsBijection(first .. last, rws)
  BY <1>1 DEF ExistsBijection
<1>3. IsFiniteSet(first .. last)
      /\ Cardinality(first .. last) = IF first > last THEN 0 ELSE last - first + 1
  BY FS_Interval
<1> QED BY <1>2, <1>3, FS_Bijection

\* A run of rows in the order of their numbers.
LEMMA RunInOrder ==
  ASSUME NEW first \in Nat, NEW last \in Nat, first <= last, NEW rws, Run(rws, first, last)
  PROVE  /\ rws \subseteq Cells
         /\ Cardinality(rws) = last - first + 1
         /\ \A x \in rws : Place(x, rws) = x[1] - first + 1
         /\ \E x \in rws : x[1] = first
         /\ \A k \in 1 .. last - first + 1 :
              InOrder(rws)[k] \in rws /\ InOrder(rws)[k][1] = first + k - 1
<1>1. PICK v \in [first .. last -> 0 .. MaxWrites] : rws = RowsBy(v, first, last)
  BY DEF Run
<1>2. Cardinality(rws) = last - first + 1
  BY <1>1, RunCounts
<1>3. \A x \in rws : Place(x, rws) = x[1] - first + 1
  <2> SUFFICES ASSUME NEW x \in rws
               PROVE  Place(x, rws) = x[1] - first + 1
    OBVIOUS
  <2>1. x[1] \in first .. last
    BY <1>1 DEF RowsBy
  <2>2. {y \in rws : y[1] <= x[1]} = RowsBy(v, first, x[1])
    BY <1>1, <2>1 DEF RowsBy
  <2>3. Place(x, rws) = Cardinality(RowsBy(v, first, x[1]))
    BY <2>2, Zenon DEF Place
  <2> QED BY <2>1, <2>3, RunCounts
<1>4. rws \subseteq Cells
  BY <1>1 DEF Cells, RowsBy
<1>5. ASSUME NEW k \in 1 .. last - first + 1
      PROVE  InOrder(rws)[k] \in rws /\ InOrder(rws)[k][1] = first + k - 1
  <2>1. \E x \in rws : Place(x, rws) = k
    <3> DEFINE m == first + k - 1
    <3>1. m \in first .. last /\ <<m, v[m]>> \in rws /\ <<m, v[m]>>[1] = m
      BY <1>1 DEF RowsBy
    <3> QED BY <3>1, <1>3
  <2>2. InOrder(rws)[k] = Nth(rws, k)
    BY <1>2 DEF InOrder
  <2>3. InOrder(rws)[k] \in rws /\ Place(InOrder(rws)[k], rws) = k
    BY <2>1, <2>2, Zenon DEF Nth
  <2>4. InOrder(rws)[k][1] \in Nat
    BY <2>3, <1>4 DEF Cells
  <2> QED BY <2>3, <2>4, <1>3
<1>6. <<first, v[first]>> \in rws /\ <<first, v[first]>>[1] = first
  BY <1>1 DEF RowsBy
<1> QED BY <1>2, <1>3, <1>4, <1>5, <1>6

\* What a read of rows finds in the buffer; all it asked for, unless some scrolled out.
LEMMA RowsFound ==
  ASSUME BufferTyped, NEW s \in Sessions, NEW first \in Nat, NEW last \in Int,
         Rows(s, first, last) # {}
  PROVE  /\ Rows(s, first, last) \subseteq Cells
         /\ Cardinality(Rows(s, first, last)) \in Nat \ {0}
         /\ overflow[s] <= first /\ last <= LastValid(s) =>
              /\ first <= last /\ Run(Rows(s, first, last), first, last)
              /\ Cardinality(Rows(s, first, last)) = last - first + 1
<1> DEFINE got == Rows(s, first, last)
           v   == [n \in first .. last |->
                     IF n - overflow[s] + 1 \in 1 .. Len(rows[s])
                     THEN rows[s][n - overflow[s] + 1] ELSE 0]
<1>1. rows[s] \in Seq(0 .. MaxWrites) /\ Len(rows[s]) \in Nat /\ overflow[s] \in Nat
  BY DEF BufferTyped
<1>2. \A k \in 1 .. Len(rows[s]) : rows[s][k] \in 0 .. MaxWrites
  BY <1>1
<1>3. v \in [first .. last -> 0 .. MaxWrites]
  BY <1>1, <1>2
<1>4. \A n \in first .. last :
        overflow[s] <= n /\ n < overflow[s] + Len(rows[s]) =>
          v[n] = rows[s][n - overflow[s] + 1]
  BY <1>1
<1> HIDE DEF v
<1>5. got \subseteq RowsBy(v, first, last)
  BY <1>4 DEF Rows, RowsBy
<1>6. got \subseteq Cells
  BY <1>3, <1>5 DEF RowsBy, Cells
<1>7. Cardinality(got) \in Nat \ {0}
  <2>1. IsFiniteSet(got)
    BY <1>5, RunCounts, FS_Subset
  <2> QED BY <2>1, FS_EmptySet, FS_CardinalityType
<1>8. ASSUME overflow[s] <= first, last <= LastValid(s)
      PROVE  first <= last /\ Run(got, first, last) /\ Cardinality(got) = last - first + 1
  <2>1. \A n \in first .. last : overflow[s] <= n /\ n < overflow[s] + Len(rows[s])
    BY <1>1, <1>8 DEF LastValid
  <2>2. RowsBy(v, first, last) \subseteq got
    BY <1>4, <2>1 DEF Rows, RowsBy
  <2>3. got = RowsBy(v, first, last)
    BY <1>5, <2>2
  <2>4. first <= last
    BY <2>3 DEF RowsBy
  <2> QED BY <1>3, <2>3, <2>4, RunCounts DEF Run
<1> QED BY <1>6, <1>7, <1>8

\* What was read is Good.
LEMMA FoundIsGood ==
  ASSUME BufferTyped, NEW s \in Sessions, NEW first \in Nat, NEW last \in Int,
         NEW x \in Rows(s, first, last)
  PROVE  Good(s, x[1], x[2], {y[1] : y \in Rows(s, first, last)} \cap {LastValid(s)})
<1>1. Len(rows[s]) \in Nat /\ overflow[s] \in Nat
  BY DEF BufferTyped
<1>2. PICK n \in first .. last :
        /\ overflow[s] <= n /\ n < overflow[s] + Len(rows[s])
        /\ x = <<n, rows[s][n - overflow[s] + 1]>>
  BY DEF Rows
<1>3. x[1] = n /\ x[2] = rows[s][n - overflow[s] + 1]
  BY <1>2
<1>4. n <= LastValid(s)
  BY <1>1, <1>2 DEF LastValid
<1>5. CASE n = LastValid(s)
  BY <1>3, <1>4, <1>5 DEF Good
<1>6. CASE n < LastValid(s)
  BY <1>3, <1>4, <1>6 DEF Good
<1> QED BY <1>1, <1>4, <1>5, <1>6 DEF LastValid

-----------------------------------------------------------------------------
(* iTerm2                                                                  *)

Kept == UNCHANGED <<open, rows, overflow, writes>>

LEMMA BufferKept ==
  ASSUME Kept
  PROVE  /\ BufferTyped => BufferTyped'
         /\ \A s : LastValid(s)' = LastValid(s)
         /\ \A s, n, w, seen : Good(s, n, w, seen) => Good(s, n, w, seen)'
         /\ \A a : AnswerOK(a) => AnswerOK(a)'
<1>1. BufferTyped => BufferTyped'
  BY DEF Kept, BufferTyped
<1>2. \A s : LastValid(s)' = LastValid(s)
  BY DEF Kept, LastValid
<1>3. \A s, n, w, seen : Good(s, n, w, seen) => Good(s, n, w, seen)'
  BY <1>2 DEF Kept, Good
<1>4. \A a : AnswerOK(a) => AnswerOK(a)'
  BY <1>3 DEF AnswerOK
<1> QED BY <1>1, <1>2, <1>3, <1>4

LEMMA LastIsNumber ==
  /\ BufferTyped => \A s \in Sessions : LastValid(s) \in Nat
  /\ BufferTyped' => \A s \in Sessions : LastValid(s)' \in Nat
<1>1. ASSUME NEW q \in Seq(0 .. MaxWrites), q # <<>>, NEW o \in Nat
      PROVE  o + Len(q) - 1 \in Nat
  BY <1>1
<1>2. ASSUME BufferTyped, NEW s \in Sessions
      PROVE  LastValid(s) \in Nat
  BY <1>1, <1>2 DEF BufferTyped, LastValid
<1>3. ASSUME BufferTyped', NEW s \in Sessions
      PROVE  LastValid(s)' \in Nat
  BY <1>1, <1>3 DEF BufferTyped, LastValid
<1> QED BY <1>2, <1>3

LEMMA ITermTyped ==
  ASSUME BufferTyped, ITerm
  PROVE  BufferTyped'
<1> USE DEF BufferTyped
<1>1. CASE LoseConnection \/ QuitITerm \/ StartITerm
  BY <1>1 DEF LoseConnection, QuitITerm, StartITerm
<1>2. ASSUME NEW s \in Sessions, OpenWindow(s)
      PROVE  BufferTyped'
  BY <1>2 DEF OpenWindow
<1>3. ASSUME NEW s \in Sessions, CloseWindow(s)
      PROVE  BufferTyped'
  BY <1>3 DEF CloseWindow
<1>4. ASSUME NEW s \in Sessions, Write(s)
      PROVE  BufferTyped'
  <2>1. writes' \in 0 .. MaxWrites
    BY <1>4 DEF Write
  <2>2. [rows[s] EXCEPT ![Len(rows[s])] = writes'] \in Seq(0 .. MaxWrites) \ {<<>>}
    BY <2>1
  <2>3. rows' = [rows EXCEPT ![s] = [rows[s] EXCEPT ![Len(rows[s])] = writes']]
    BY <1>4 DEF Write
  <2> QED BY <1>4, <2>1, <2>2, <2>3 DEF Write
<1>5. ASSUME NEW s \in Sessions, Scroll(s)
      PROVE  BufferTyped'
  <2>1. rows[s] \in Seq(0 .. MaxWrites) /\ rows[s] # <<>> /\ Blank \in 0 .. MaxWrites
    OBVIOUS
  <2>2. Append(rows[s], Blank) \in Seq(0 .. MaxWrites) /\ Append(rows[s], Blank) # <<>>
    BY <2>1
  <2> DEFINE rest == Tail(rows[s])
  <2>a. rest \in Seq(0 .. MaxWrites)
    BY <2>1
  <2> HIDE DEF rest
  <2>b. Append(rest, Blank) \in Seq(0 .. MaxWrites) /\ Len(Append(rest, Blank)) = Len(rest) + 1
    BY <2>1, <2>a
  <2>3. Append(rest, Blank) \in Seq(0 .. MaxWrites) /\ Append(rest, Blank) # <<>>
    <3>1. Len(rest) \in Nat
      BY <2>a
    <3>2. Len(Append(rest, Blank)) # 0
      BY <2>b, <3>1
    <3>3. Len(<<>>) = 0
      OBVIOUS
    <3> QED BY <2>b, <3>2, <3>3, Zenon
  <2>4. overflow[s] + 1 \in Nat
    OBVIOUS
  <2>5. UNCHANGED <<open, writes>>
    BY <1>5 DEF Scroll
  <2>6. CASE rows' = [rows EXCEPT ![s] = Append(rows[s], Blank)] /\ overflow' = overflow
    BY <2>2, <2>5, <2>6
  <2>7. CASE /\ rows' = [rows EXCEPT ![s] = Append(rest, Blank)]
             /\ overflow' = [overflow EXCEPT ![s] = overflow[s] + 1]
    BY <2>3, <2>4, <2>5, <2>7
  <2> QED BY <1>5, <2>6, <2>7 DEF Scroll, rest
<1>6. ASSUME NEW s \in Sessions, ClearBuffer(s)
      PROVE  BufferTyped'
  <2>1. rows[s] \in Seq(0 .. MaxWrites) /\ Len(rows[s]) \in Nat /\ Len(rows[s]) > 1
    BY <1>6 DEF ClearBuffer
  <2>2. rows[s][Len(rows[s])] \in 0 .. MaxWrites
    BY <2>1
  <2>3. <<rows[s][Len(rows[s])]>> \in Seq(0 .. MaxWrites) /\ <<rows[s][Len(rows[s])]>> # <<>>
    BY <2>2
  <2>4. overflow[s] + Len(rows[s]) - 1 \in Nat
    BY <2>1
  <2> QED BY <1>6, <2>3, <2>4 DEF ClearBuffer
<1> QED BY <1>1, <1>2, <1>3, <1>4, <1>5, <1>6 DEF ITerm

\* A row stays Good while the numbers of its buffer go up.
LEMMA GoodStays ==
  ASSUME BufferTyped, ITerm, NEW s \in Sessions, LastValid(s)' >= LastValid(s),
         NEW n \in Nat, NEW w, NEW seen, Good(s, n, w, seen)
  PROVE  Good(s, n, w, seen)'
<1>rows. rows[s] \in Seq(0 .. MaxWrites) /\ rows[s] # <<>>
  BY DEF BufferTyped
<1>1. Len(rows[s]) \in Nat \ {0} /\ overflow[s] \in Nat
  BY <1>rows DEF BufferTyped
<1>last. /\ LastValid(s) = overflow[s] + Len(rows[s]) - 1
         /\ LastValid(s)' = overflow'[s] + Len(rows'[s]) - 1
  BY DEF LastValid
<1>2. LastValid(s) \in Nat /\ n <= LastValid(s)
  BY <1>1, <1>last DEF Good
<1>3. CASE rows'[s] = rows[s] /\ overflow'[s] = overflow[s]
  BY <1>3, <1>last DEF Good
<1>4. CASE OpenWindow(s)
  <2>1. rows'[s] = <<Blank>> /\ overflow'[s] = 0
    BY <1>4 DEF OpenWindow, BufferTyped
  <2>2. LastValid(s)' = 0
    BY <2>1, <1>last
  <2>3. LastValid(s) = 0 /\ overflow[s] = 0 /\ n = 0
    BY <1>1, <1>2, <1>last, <2>2
  <2> QED BY <2>2, <2>3 DEF Good
<1>5. CASE Write(s)
  <2>1. rows'[s] = [rows[s] EXCEPT ![Len(rows[s])] = writes'] /\ overflow'[s] = overflow[s]
    BY <1>5 DEF Write, BufferTyped
  <2>2. Len(rows'[s]) = Len(rows[s])
        /\ \A k \in 1 .. Len(rows[s]) - 1 : rows'[s][k] = rows[s][k]
    BY <1>rows, <2>1
  <2> QED BY <1>1, <1>2, <1>last, <2>1, <2>2 DEF Good
<1>6. CASE Scroll(s)
  <2>1. CASE rows'[s] = Append(rows[s], Blank) /\ overflow'[s] = overflow[s]
    <3>1. Len(rows'[s]) = Len(rows[s]) + 1
          /\ \A k \in 1 .. Len(rows[s]) : rows'[s][k] = rows[s][k]
      BY <1>rows, <2>1
    <3>2. LastValid(s)' = LastValid(s) + 1
      BY <1>1, <1>last, <2>1, <3>1
    <3>3. CASE n < overflow[s] \/ n \in seen
      BY <1>1, <1>2, <2>1, <3>2, <3>3 DEF Good
    <3>4. CASE overflow[s] <= n /\ rows[s][n - overflow[s] + 1] = w
      <4>1. n - overflow[s] + 1 \in 1 .. Len(rows[s])
        BY <1>1, <1>2, <1>last, <3>4
      <4> QED BY <1>1, <1>2, <2>1, <3>1, <3>2, <3>4, <4>1 DEF Good
    <3> QED BY <1>1, <3>3, <3>4 DEF Good
  <2>2. CASE rows'[s] = Append(Tail(rows[s]), Blank) /\ overflow'[s] = overflow[s] + 1
    <3>1. Len(rows'[s]) = Len(rows[s])
          /\ \A k \in 1 .. Len(rows[s]) - 1 : rows'[s][k] = rows[s][k + 1]
      BY <1>rows, <2>2
    <3>2. LastValid(s)' = LastValid(s) + 1
      BY <1>1, <1>last, <2>2, <3>1
    <3>3. CASE n < overflow[s] + 1 \/ n \in seen
      BY <1>1, <1>2, <2>2, <3>2, <3>3 DEF Good
    <3>4. CASE /\ overflow[s] + 1 <= n /\ n < LastValid(s)
               /\ rows[s][n - overflow[s] + 1] = w
      <4> DEFINE k == n - (overflow[s] + 1) + 1
      <4>0. n < overflow[s] + Len(rows[s]) - 1
        BY <1>last, <3>4
      <4>1. k \in 1 .. Len(rows[s]) - 1 /\ k + 1 = n - overflow[s] + 1
        <5>1. ASSUME NEW o \in Nat, NEW l \in Nat, o + 1 <= n, n < o + l - 1
              PROVE  n - (o + 1) + 1 \in 1 .. l - 1 /\ n - (o + 1) + 1 + 1 = n - o + 1
          BY <5>1
        <5> QED BY <1>1, <3>4, <4>0, <5>1
      <4> HIDE DEF k
      <4>2. rows'[s][k] = w
        BY <3>1, <3>4, <4>1
      <4>3. rows'[s][n - overflow'[s] + 1] = w
        BY <2>2, <4>2 DEF k
      <4> QED BY <1>1, <1>2, <3>2, <3>4, <4>3 DEF Good
    <3> QED BY <1>1, <3>3, <3>4 DEF Good
  <2> QED BY <1>6, <2>1, <2>2 DEF Scroll, BufferTyped
<1>7. CASE ClearBuffer(s)
  <2>1. Len(rows'[s]) = 1 /\ Len(rows[s]) > 1
    BY <1>7 DEF ClearBuffer, BufferTyped
  <2>2. overflow'[s] = overflow[s] + Len(rows[s]) - 1
    BY <1>1, <1>7, <1>last, <2>1 DEF ClearBuffer, BufferTyped
  <2> QED BY <1>1, <1>2, <1>last, <2>1, <2>2 DEF Good
<1>8. ASSUME NEW t \in Sessions, t # s,
             OpenWindow(t) \/ CloseWindow(t) \/ Write(t) \/ Scroll(t) \/ ClearBuffer(t)
      PROVE  rows'[s] = rows[s] /\ overflow'[s] = overflow[s]
  BY <1>8 DEF OpenWindow, CloseWindow, Write, Scroll, ClearBuffer, BufferTyped
<1>9. CASE LoseConnection \/ QuitITerm \/ StartITerm \/ CloseWindow(s)
  BY <1>3, <1>9 DEF LoseConnection, QuitITerm, StartITerm, CloseWindow
<1> QED BY <1>3, <1>4, <1>5, <1>6, <1>7, <1>8, <1>9 DEF ITerm

-----------------------------------------------------------------------------
(* The page and its reads                                                  *)

LEMMA InitHolds == Init => Inv
<1> SUFFICES ASSUME Init PROVE Inv
  OBVIOUS
<1> USE DEF Init, ITermInit
<1>1. BufferTyped
  <2>1. <<Blank>> \in Seq(0 .. MaxWrites) /\ <<Blank>> # <<>>
    OBVIOUS
  <2> QED BY <2>1 DEF BufferTyped
<1>2. PageTyped
  <2>1. cursor \in [Sessions -> Cursors]
    BY DEF Cursors
  <2>2. <<>> \in Seq(Marks) /\ <<>> \in Seq(Tasks) /\ <<>> \in Seq(Replies)
    OBVIOUS
  <2> QED BY <2>1, <2>2, Zenon DEF PageTyped
<1>3. ReadInv /\ AnswerInv
  BY DEF ReadInv, AnswerInv
<1>4. ShownInv
  BY DEF ShownInv, LinesOf
<1> QED BY <1>1, <1>2, <1>3, <1>4 DEF Inv

LEMMA ITermStepKeeps ==
  ASSUME Inv, ITermStep
  PROVE  Inv'
<1> USE DEF Inv
<1>1. BufferTyped'
  BY ITermTyped DEF ITermStep
<1>2. UNCHANGED <<current, cursor, selects>>
  BY DEF ITermStep
<1>m. PICK M : M = {s \in Sessions : Renumbered(s)}
  OBVIOUS
<1>3. \A s \in Sessions : s \notin M => LastValid(s)' >= LastValid(s)
  BY <1>1, <1>m, LastIsNumber DEF Renumbered
<1>4. /\ reads' = [i \in DOMAIN reads |->
                     [reads[i] EXCEPT !.slid = reads[i].slid \/ reads[i].s \in M]]
      /\ answers' = [i \in DOMAIN answers |->
                       [answers[i] EXCEPT !.slid = answers[i].slid \/ answers[i].s \in M]]
  BY <1>m, Zenon DEF ITermStep
<1>5. DOMAIN reads = 1 .. Len(reads) /\ DOMAIN answers = 1 .. Len(answers)
      /\ DOMAIN reads' = DOMAIN reads /\ DOMAIN answers' = DOMAIN answers
  BY <1>4 DEF PageTyped
<1>6. \A i \in DOMAIN reads :
        /\ reads[i] \in Tasks /\ reads'[i] \in Tasks
        /\ reads'[i].s = reads[i].s /\ reads'[i].at = reads[i].at
        /\ reads'[i].over = reads[i].over /\ reads'[i].total = reads[i].total
        /\ ~reads'[i].slid => ~reads[i].slid /\ reads[i].s \notin M
  <2> SUFFICES ASSUME NEW i \in DOMAIN reads
               PROVE  /\ reads[i] \in Tasks /\ reads'[i] \in Tasks
                      /\ reads'[i].s = reads[i].s /\ reads'[i].at = reads[i].at
                      /\ reads'[i].over = reads[i].over /\ reads'[i].total = reads[i].total
                      /\ ~reads'[i].slid => ~reads[i].slid /\ reads[i].s \notin M
    OBVIOUS
  <2>1. reads[i] \in Tasks
    BY DEF PageTyped
  <2>2. PICK t, b : t = reads[i] /\ b = (t.slid \/ t.s \in M)
    OBVIOUS
  <2>3. reads'[i] = [t EXCEPT !.slid = b] /\ t \in Tasks /\ b \in BOOLEAN
    BY <1>4, <2>1, <2>2
  <2>4. /\ [t EXCEPT !.slid = b] \in Tasks /\ [t EXCEPT !.slid = b].slid = b
        /\ [t EXCEPT !.slid = b].s = t.s /\ [t EXCEPT !.slid = b].at = t.at
        /\ [t EXCEPT !.slid = b].over = t.over /\ [t EXCEPT !.slid = b].total = t.total
    BY <2>3 DEF Tasks
  <2> QED BY <2>1, <2>2, <2>3, <2>4
<1>7. \A i \in DOMAIN answers :
        /\ answers[i] \in Replies /\ answers'[i] \in Replies
        /\ \E b \in BOOLEAN : /\ answers'[i] = [answers[i] EXCEPT !.slid = b]
                              /\ ~b => ~answers[i].slid /\ answers[i].s \notin M
  <2> SUFFICES ASSUME NEW i \in DOMAIN answers
               PROVE  /\ answers[i] \in Replies /\ answers'[i] \in Replies
                      /\ \E b \in BOOLEAN :
                           /\ answers'[i] = [answers[i] EXCEPT !.slid = b]
                           /\ ~b => ~answers[i].slid /\ answers[i].s \notin M
    OBVIOUS
  <2>1. answers[i] \in Replies
    BY DEF PageTyped
  <2>2. PICK t, b : t = answers[i] /\ b = (t.slid \/ t.s \in M)
    OBVIOUS
  <2>3. answers'[i] = [t EXCEPT !.slid = b] /\ t \in Replies /\ b \in BOOLEAN
    BY <1>4, <2>1, <2>2
  <2>4. [t EXCEPT !.slid = b] \in Replies
    BY <2>3 DEF Replies
  <2> QED BY <2>1, <2>2, <2>3, <2>4
<1>8. reads' \in Seq(Tasks) /\ answers' \in Seq(Replies)
  <2>1. Len(reads) \in Nat /\ Len(answers) \in Nat
    BY DEF PageTyped
  <2>2. \A f, n : n \in Nat /\ DOMAIN f = 1 .. n /\ f = [i \in 1 .. n |-> f[i]]
                 /\ (\A i \in 1 .. n : f[i] \in Tasks) => f \in Seq(Tasks)
    OBVIOUS
  <2>3. \A f, n : n \in Nat /\ DOMAIN f = 1 .. n /\ f = [i \in 1 .. n |-> f[i]]
                 /\ (\A i \in 1 .. n : f[i] \in Replies) => f \in Seq(Replies)
    OBVIOUS
  <2>4. reads' = [i \in 1 .. Len(reads) |-> reads'[i]]
        /\ answers' = [i \in 1 .. Len(answers) |-> answers'[i]]
    BY <1>4, <1>5
  <2> QED BY <1>5, <1>6, <1>7, <2>1, <2>2, <2>3, <2>4
<1>9. PageTyped'
  <2>a. \/ shown' = <<>> /\ edge' = {} /\ suspect' = TRUE /\ reused' = TRUE
        \/ UNCHANGED pageVars
    BY Zenon DEF ITermStep
  <2>b. <<>> \in Seq(Marks) /\ {} \subseteq Nat
    OBVIOUS
  <2>1. shown' \in Seq(Marks) /\ edge' \subseteq Nat /\ suspect' \in BOOLEAN
        /\ reused' \in BOOLEAN
    BY <2>a, <2>b DEF pageVars, PageTyped
  <2> QED BY <1>2, <1>8, <2>1 DEF PageTyped
<1>10. ReadInv'
  <2>2. \A s \in Sessions : LastValid(s) \in Int /\ LastValid(s)' \in Int
    BY <1>1, LastIsNumber
  <2>3. ASSUME NEW i \in DOMAIN reads, NEW u, u = reads'[i], u.at = "info", ~u.slid
        PROVE  u.over + u.total - 1 <= LastValid(u.s)'
    <3>1. PICK t \in Tasks : t = reads[i]
      BY <1>6
    <3>2. /\ u.s = t.s /\ u.over = t.over /\ u.total = t.total /\ t.at = "info"
          /\ ~t.slid /\ t.s \notin M
      BY <1>6, <2>3, <3>1
    <3>3. t.s \in Sessions /\ t.over \in Nat /\ t.total \in Nat
      BY DEF Tasks
    <3>4. t.over + t.total - 1 <= LastValid(t.s)
      BY <3>1, <3>2 DEF ReadInv
    <3>5. PICK s \in Sessions : s = t.s
      BY <3>3
    <3>6. t.over + t.total - 1 <= LastValid(s)'
      BY <1>3, <2>2, <3>2, <3>3, <3>4, <3>5
    <3> QED BY <3>2, <3>5, <3>6
  <2> QED BY <1>5, <2>3 DEF ReadInv
<1>11. AnswerInv'
  <2> SUFFICES ASSUME NEW i \in DOMAIN answers
               PROVE  AnswerOK(answers[i])'
    BY <1>5 DEF AnswerInv
  <2>1. PICK a : a = answers[i]
    OBVIOUS
  <2>2. a \in Replies /\ AnswerOK(a)
    BY <1>7, <2>1 DEF AnswerInv
  <2>3. PICK b \in BOOLEAN : /\ answers'[i] = [a EXCEPT !.slid = b]
                             /\ ~b => ~a.slid /\ a.s \notin M
    BY <1>7, <2>1
  <2>4. PICK c : c = [a EXCEPT !.slid = b]
    OBVIOUS
  <2>5. /\ c.s = a.s /\ c.rws = a.rws /\ c.last = a.last /\ c.after = a.after
        /\ c.error = a.error /\ c.screen = a.screen /\ c.torn = a.torn /\ c.slid = b
    BY <2>2, <2>4 DEF Replies
  <2>6. a.s \in Sessions /\ \A x \in a.rws : x[1] \in Nat
    BY <2>2 DEF Replies, Cells
  <2>7. ~b => \A x \in a.rws :
                Good(a.s, x[1], x[2], a.screen) => Good(a.s, x[1], x[2], a.screen)'
    BY <1>3, <2>3, <2>6, GoodStays DEF ITermStep
  <2>8. AnswerOK(c)'
    BY <2>2, <2>3, <2>5, <2>7 DEF AnswerOK
  <2> QED BY <2>3, <2>4, <2>8
<1>12. ShownInv'
  <2>1. CASE current \in M
    <3>1. suspect'
      BY <1>m, <2>1, Zenon DEF ITermStep
    <3> QED BY <3>1 DEF ShownInv
  <2>2. CASE current \notin M
    <3>1. UNCHANGED pageVars
      BY <1>m, <2>2, Zenon DEF ITermStep
    <3> SUFFICES ASSUME ~suspect, NEW i \in LinesOf(shown)
                 PROVE  Good(current, shown[i][1], shown[i][2], edge)'
      BY <1>2, <3>1 DEF ShownInv, pageVars, LinesOf
    <3>2. current \in Sessions /\ Good(current, shown[i][1], shown[i][2], edge)
      BY DEF ShownInv
    <3>3. shown[i][1] \in Nat
      BY DEF PageTyped, LinesOf, Marks, Cursors
    <3>4. PICK c \in Sessions : c = current
      BY <3>2
    <3>n. PICK n \in Nat : n = shown[i][1]
      BY <3>3
    <3>w. PICK w, e : w = shown[i][2] /\ e = edge
      OBVIOUS
    <3>5. Good(c, n, w, e)'
      BY <1>3, <2>2, <3>2, <3>4, <3>n, <3>w, GoodStays DEF ITermStep
    <3>6. c = current' /\ e = edge' /\ shown' = shown
      BY <1>2, <3>1, <3>4, <3>w DEF pageVars
    <3> QED BY <3>n, <3>w, <3>5, <3>6
  <2> QED BY <2>1, <2>2
<1> QED BY <1>1, <1>9, <1>10, <1>11, <1>12

\* Lists of others, and steps that change nothing.
LEMMA ViewKept ==
  ASSUME Inv, Kept, UNCHANGED viewVars
  PROVE  Inv'
<1> USE DEF Inv, viewVars, pageVars
<1>1. BufferTyped' /\ PageTyped'
  BY BufferKept DEF PageTyped
<1>2. ReadInv'
  BY BufferKept DEF ReadInv
<1>3. AnswerInv'
  BY BufferKept DEF AnswerInv
<1>4. ShownInv'
  BY BufferKept DEF ShownInv
<1> QED BY <1>1, <1>2, <1>3, <1>4

LEMMA ReadAdded ==
  ASSUME reads \in Seq(Tasks), ReadInv, Kept, NEW s \in Sessions, NEW after \in Cursors,
         NEW slid \in BOOLEAN, reads' = Append(reads, Request(s, after, slid))
  PROVE  reads' \in Seq(Tasks) /\ ReadInv'
<1>1. Request(s, after, slid) \in Tasks /\ Request(s, after, slid).at = "sent"
  BY DEF Request, Tasks
<1>2. reads' \in Seq(Tasks)
  BY <1>1
<1>3. \A i \in DOMAIN reads' : \/ i \in DOMAIN reads /\ reads'[i] = reads[i]
                               \/ reads'[i] = Request(s, after, slid)
  BY <1>1
<1>4. ReadInv'
  BY <1>1, <1>3, BufferKept DEF ReadInv
<1> QED BY <1>2, <1>4

LEMMA SelectKeeps ==
  ASSUME Inv, NEW s \in Sessions, SelectSession(s)
  PROVE  Inv'
<1> USE DEF Inv
<1>1. Kept
  BY DEF SelectSession, itermVars, Kept
<1>2. None \in Cursors
  BY DEF Cursors
<1>3. reads' \in Seq(Tasks) /\ ReadInv'
  BY <1>1, <1>2, ReadAdded DEF SelectSession, PageTyped
<1>4. PageTyped'
  <2>1. cursor' \in [Sessions -> Cursors] /\ current' \in Sessions /\ answers' = answers
    BY <1>2 DEF SelectSession, PageTyped
  <2>2. shown' = <<>> /\ edge' = {} /\ suspect' = FALSE /\ reused' = FALSE
    BY DEF SelectSession, NewText
  <2>3. <<>> \in Seq(Marks)
    OBVIOUS
  <2> QED BY <1>3, <2>1, <2>2, <2>3 DEF PageTyped
<1>5. AnswerInv'
  BY <1>1, BufferKept DEF SelectSession, AnswerInv
<1>6. ShownInv'
  BY DEF SelectSession, NewText, ShownInv, LinesOf
<1> QED BY <1>1, <1>3, <1>4, <1>5, <1>6, BufferKept

LEMMA RefreshKeeps ==
  ASSUME Inv, RefreshSession
  PROVE  Inv'
<1> USE DEF Inv
<1>1. Kept
  BY DEF RefreshSession, itermVars, Kept
<1>2. current \in Sessions /\ cursor[current] \in Cursors
  BY DEF RefreshSession, PageTyped
<1>3. reads' \in Seq(Tasks) /\ ReadInv'
  BY <1>1, <1>2, ReadAdded DEF RefreshSession, pageVars, PageTyped
<1>4. PageTyped'
  BY <1>3 DEF RefreshSession, pageVars, PageTyped
<1>5. AnswerInv' /\ ShownInv'
  BY <1>1, BufferKept DEF RefreshSession, pageVars, AnswerInv, ShownInv
<1> QED BY <1>1, <1>3, <1>4, <1>5, BufferKept

\* A task ends with an answer.
LEMMA Replied ==
  ASSUME Inv, Kept, UNCHANGED <<current, cursor, pageVars>>,
         NEW i \in DOMAIN reads, NEW a \in Replies, Reply(i, a), AnswerOK(a)
  PROVE  Inv'
<1> USE DEF Inv
<1>1. reads \in Seq(Tasks) /\ reads[i] \in Tasks /\ answers \in Seq(Replies)
      /\ Len(reads) \in Nat /\ i \in 1 .. Len(reads)
  BY DEF PageTyped
<1>3. answers' = Append(answers, a) /\ reads' = Without(i)
  BY DEF Reply
<1>4. /\ DOMAIN reads' = 1 .. Len(reads) - 1
      /\ \A j \in 1 .. Len(reads) - 1 : \E k \in DOMAIN reads : reads'[j] = reads[k]
  <2>1. DOMAIN reads' = 1 .. Len(reads) - 1
    BY <1>3 DEF Without
  <2>2. ASSUME NEW j \in 1 .. Len(reads) - 1
        PROVE  \E k \in DOMAIN reads : reads'[j] = reads[k]
    <3>1. j \in DOMAIN reads /\ j + 1 \in DOMAIN reads
      BY <1>1
    <3>2. reads'[j] = reads[j] \/ reads'[j] = reads[j + 1]
      BY <1>3 DEF Without
    <3> QED BY <3>1, <3>2
  <2> QED BY <2>1, <2>2
<1>5. reads' \in Seq(Tasks)
  <2>1. \A j \in 1 .. Len(reads) - 1 : reads'[j] \in Tasks
    BY <1>1, <1>4
  <2>2. reads' = [j \in 1 .. Len(reads) - 1 |-> reads'[j]]
    BY <1>3 DEF Without
  <2>3. Len(reads) - 1 \in Nat
    BY <1>1
  <2> QED BY <2>1, <2>2, <2>3
<1>6. ReadInv'
  BY <1>4, BufferKept DEF ReadInv
<1>7. answers' \in Seq(Replies)
  BY <1>1, <1>3
<1>8. AnswerInv'
  <2>1. AnswerOK(a)'
    BY BufferKept
  <2>2. \A j \in DOMAIN answers' : \/ j \in DOMAIN answers /\ answers'[j] = answers[j]
                                   \/ answers'[j] = a
    BY <1>1, <1>3
  <2> QED BY <2>1, <2>2, BufferKept DEF AnswerInv
<1>9. PageTyped' /\ ShownInv'
  BY <1>5, <1>7, BufferKept DEF PageTyped, ShownInv, pageVars
<1> QED BY <1>6, <1>8, <1>9, BufferKept

\* A task under way.
LEMMA TaskTyped ==
  ASSUME reads \in Seq(Tasks), NEW i \in DOMAIN reads
  PROVE  /\ reads[i] \in Tasks /\ reads[i].s \in Sessions /\ reads[i].after \in Cursors
         /\ reads[i].over \in Nat /\ reads[i].total \in Nat /\ reads[i].slid \in BOOLEAN
<1>1. reads[i] \in Tasks
  OBVIOUS
<1> QED BY <1>1 DEF Tasks

\* The answers without rows.
LEMMA AnswerTyped ==
  ASSUME reads \in Seq(Tasks), NEW i \in DOMAIN reads
  PROVE  /\ Answer(i) \in Replies /\ AnswerOK(Answer(i))
         /\ [NoRows(i) EXCEPT !.error = TRUE] \in Replies
         /\ [NoRows(i) EXCEPT !.dropped = TRUE] \in Replies
         /\ [Answer(i) EXCEPT !.last = reads[i].after] \in Replies
         /\ AnswerOK([NoRows(i) EXCEPT !.error = TRUE])
         /\ AnswerOK([NoRows(i) EXCEPT !.dropped = TRUE])
         /\ AnswerOK([Answer(i) EXCEPT !.last = reads[i].after])
<1>1. reads[i].s \in Sessions /\ reads[i].after \in Cursors /\ reads[i].slid \in BOOLEAN
  BY TaskTyped
<1>2. None \in Cursors
  BY DEF Cursors
<1> USE <1>1, <1>2 DEF Answer, NoRows
<1>3. Answer(i) \in Replies /\ [Answer(i) EXCEPT !.last = reads[i].after] \in Replies
  BY DEF Replies
<1>4. [NoRows(i) EXCEPT !.error = TRUE] \in Replies
      /\ [NoRows(i) EXCEPT !.dropped = TRUE] \in Replies
  BY DEF Replies
<1>5. AnswerOK(Answer(i)) /\ AnswerOK([Answer(i) EXCEPT !.last = reads[i].after])
  BY DEF AnswerOK
<1>6. AnswerOK([NoRows(i) EXCEPT !.error = TRUE])
      /\ AnswerOK([NoRows(i) EXCEPT !.dropped = TRUE])
  BY DEF AnswerOK
<1> QED BY <1>3, <1>4, <1>5, <1>6

LEMMA ReadInfoKeeps ==
  ASSUME Inv, NEW i \in DOMAIN reads, ReadInfo(i)
  PROVE  Inv'
<1> USE DEF Inv
<1>1. Kept /\ UNCHANGED <<current, cursor, pageVars>>
  BY DEF ReadInfo, Kept
<1>2. /\ reads \in Seq(Tasks) /\ reads[i] \in Tasks /\ reads[i].s \in Sessions
      /\ reads[i].after \in Cursors /\ reads[i].slid \in BOOLEAN
  BY TaskTyped DEF PageTyped
<1>4. CASE ReplyError(i)
  BY <1>1, <1>2, <1>4, AnswerTyped, Replied DEF ReplyError
<1>5. CASE Reply(i, [Answer(i) EXCEPT !.last = reads[i].after])
  BY <1>1, <1>2, <1>5, AnswerTyped, Replied
<1>6. CASE /\ reads' = [reads EXCEPT ![i].at = "info", ![i].over = overflow[reads[i].s],
                                     ![i].total = Len(rows[reads[i].s]),
                                     ![i].slid = @ /\ reads[i].after # None]
           /\ UNCHANGED answers
  <2>1. /\ overflow[reads[i].s] \in Nat /\ Len(rows[reads[i].s]) \in Nat
    BY <1>2 DEF BufferTyped
  <2>b. PICK b \in BOOLEAN : b = (reads[i].slid /\ reads[i].after # None)
    OBVIOUS
  <2>p. PICK q : q = [reads[i] EXCEPT !.at = "info", !.over = overflow[reads[i].s],
                                      !.total = Len(rows[reads[i].s]), !.slid = b]
    OBVIOUS
  <2>2. reads' = [reads EXCEPT ![i] = q]
    BY <1>6, <2>b, <2>p DEF PageTyped
  <2>3. q \in Tasks /\ q.s \in Sessions /\ q.over + q.total - 1 = LastValid(q.s)
    BY <1>2, <2>1, <2>p DEF Tasks, LastValid
  <2>4. reads' \in Seq(Tasks)
    BY <2>2, <2>3 DEF PageTyped
  <2>5. ReadInv'
    <3>1. \A j \in DOMAIN reads' : \/ j \in DOMAIN reads /\ reads'[j] = reads[j]
                                   \/ reads'[j] = q
      BY <2>2 DEF PageTyped
    <3>2. q.over + q.total - 1 <= LastValid(q.s)'
      <4>1. LastValid(q.s) \in Nat
        BY <2>3, LastIsNumber
      <4> QED BY <1>1, <2>3, <4>1, BufferKept
    <3>3. \A t : (\E j \in DOMAIN reads : t = reads[j]) /\ t.at = "info" /\ ~t.slid =>
                  t.over + t.total - 1 <= LastValid(t.s)'
      <4>1. \A t : (\E j \in DOMAIN reads : t = reads[j]) /\ t.at = "info" /\ ~t.slid =>
                    t.over + t.total - 1 <= LastValid(t.s)
        BY DEF ReadInv
      <4> QED BY <1>1, <4>1, BufferKept
    <3> QED BY <3>1, <3>2, <3>3 DEF ReadInv
  <2>6. PageTyped' /\ AnswerInv' /\ ShownInv'
    BY <1>1, <1>6, <2>4, BufferKept DEF PageTyped, AnswerInv, ShownInv, pageVars
  <2> QED BY <1>1, <2>5, <2>6, BufferKept
<1> QED BY <1>4, <1>5, <1>6 DEF ReadInfo

LEMMA ReadContentsKeeps ==
  ASSUME Inv, NEW i \in DOMAIN reads, ReadContents(i)
  PROVE  Inv'
<1> USE DEF Inv
<1> DEFINE r     == reads[i]
           first == FirstWanted(r.after, r.over, r.total)
           last  == r.over + r.total - 1
           got   == Rows(r.s, first, last)
<1>1. Kept /\ UNCHANGED <<current, cursor, pageVars>>
  BY DEF ReadContents, itermVars, Kept
<1>2. /\ r \in Tasks /\ r.s \in Sessions /\ r.after \in Cursors
      /\ r.over \in Nat /\ r.total \in Nat /\ r.slid \in BOOLEAN /\ reads \in Seq(Tasks)
  BY TaskTyped DEF PageTyped
<1>4. first \in Nat /\ last \in Int
  <2>1. PICK a, o, n : a = r.after /\ o = r.over /\ n = r.total
    OBVIOUS
  <2>2. a \in Nat \cup {None} /\ o \in Nat /\ n \in Nat
    BY <1>2, <2>1 DEF Cursors
  <2>3. FirstWanted(a, o, n) \in Nat /\ o + n - 1 \in Int
    BY <2>2, BridgeAssumption DEF FirstWanted
  <2> QED BY <2>1, <2>3
<1>6. CASE ReplyError(i) \/ Reply(i, [NoRows(i) EXCEPT !.dropped = TRUE])
  BY <1>1, <1>2, <1>6, AnswerTyped, Replied DEF ReplyError
<1>8. CASE /\ ~Dropped(r.after, r.over)
           /\ Reply(i, [Answer(i) EXCEPT
                          !.rws    = got,
                          !.screen = {x[1] : x \in got} \cap {LastValid(r.s)},
                          !.last   = IF got = {} THEN r.after
                                     ELSE LastLine(first, Cardinality(got)),
                          !.torn   = first < overflow[r.s] /\ ~r.slid])
  <2> DEFINE screen == {x[1] : x \in got} \cap {LastValid(r.s)}
             end    == IF got = {} THEN r.after ELSE LastLine(first, Cardinality(got))
             torn   == first < overflow[r.s] /\ ~r.slid
  <2>0. PICK a : a = [Answer(i) EXCEPT !.rws = got, !.screen = screen, !.last = end,
                                       !.torn = torn]
    OBVIOUS
  <2>5. r.after # None => first = r.after + 1
    BY <1>8 DEF FirstWanted, Dropped
  <2>1. got \subseteq Cells /\ (got # {} => Cardinality(got) \in Nat \ {0})
    <3> HIDE DEF first, last
    <3>1. CASE got # {}
      BY <1>2, <1>4, <3>1, RowsFound
    <3> QED BY <3>1
  <2>2. end \in Cursors /\ (got # {} => end \in Nat)
    <3> HIDE DEF first, got
    <3> QED BY <1>2, <1>4, <2>1 DEF LastLine, Cursors
  <2>3. screen \in SUBSET Nat
    BY <1>2, LastIsNumber
  <2>6. ASSUME ~torn, ~r.slid, got # {}
        PROVE  first <= last /\ Run(got, first, last) /\ end = last
    <3>1. last <= LastValid(r.s)
      BY <2>6 DEF ReadInv, ReadContents
    <3>2. overflow[r.s] \in Nat /\ overflow[r.s] <= first
      <4>1. overflow[r.s] \in Nat
        BY <1>2 DEF BufferTyped
      <4> HIDE DEF first
      <4> QED BY <1>4, <2>6, <4>1
    <3>3. first <= last /\ Run(got, first, last) /\ Cardinality(got) = last - first + 1
      <4> HIDE DEF first, last
      <4> QED BY <1>2, <1>4, <2>6, <3>1, <3>2, RowsFound
    <3> HIDE DEF first, last, got
    <3> QED BY <1>4, <2>6, <3>3 DEF LastLine
  <2>7. \A x \in got : Good(r.s, x[1], x[2], screen)
    <3> HIDE DEF first, last
    <3> QED BY <1>2, <1>4, FoundIsGood
  <2>8. torn \in BOOLEAN
    BY <1>2
  <2>9. Reply(i, a)
    BY <1>8, <2>0
  <2> HIDE DEF first, last, got, screen, end, torn
  <2>10. /\ a \in Replies /\ a.rws = got /\ a.screen = screen /\ a.last = end
         /\ a.torn = torn /\ a.s = r.s /\ a.after = r.after /\ a.slid = r.slid /\ ~a.error
    <3> HIDE DEF r
    <3>2. a = [s |-> r.s, after |-> r.after, rws |-> got, screen |-> screen,
               last |-> end, dropped |-> FALSE, error |-> FALSE, slid |-> r.slid,
               torn |-> torn]
      BY <2>0 DEF Answer, r
    <3> QED BY <1>2, <2>1, <2>2, <2>3, <2>8, <3>2 DEF Replies
  <2>11. AnswerOK(a)
    <3>1. CASE got = {}
      <4>1. a.last = a.after
        BY <2>10, <3>1 DEF end
      <4> QED BY <2>10, <3>1, <4>1 DEF AnswerOK
    <3>2. CASE got # {}
      <4> HIDE DEF r
      <4>1. a.last # None
        BY <2>2, <2>10, <3>2
      <4>2. ASSUME ~a.slid, ~a.torn
            PROVE  \E f \in Nat : /\ f <= a.last
                                  /\ a.after # None => f = a.after + 1
                                  /\ Run(a.rws, f, a.last)
        <5>1. first <= end /\ Run(got, first, end)
          BY <2>6, <2>10, <3>2, <4>2
        <5> QED BY <1>4, <2>5, <2>10, <5>1
      <4> QED BY <2>7, <2>10, <3>2, <4>1, <4>2 DEF AnswerOK
    <3> QED BY <3>1, <3>2
  <2> QED BY <1>1, <2>9, <2>10, <2>11, Replied
<1> QED BY <1>6, <1>8 DEF ReadContents

-----------------------------------------------------------------------------
(* The page                                                                *)

LEMMA TwoTexts ==
  ASSUME NEW p \in Seq(Marks), NEW q \in Seq(Marks)
  PROVE  /\ Len(p) \in Nat /\ Len(q) \in Nat /\ p \o q \in Seq(Marks)
         /\ DOMAIN (p \o q) = 1 .. Len(p) + Len(q) /\ DOMAIN p = 1 .. Len(p)
         /\ \A i \in 1 .. Len(p) : (p \o q)[i] = p[i] /\ p[i] \in Marks
         /\ \A k \in 1 .. Len(q) : (p \o q)[Len(p) + k] = q[k]
<1>1. Len(p \o q) = Len(p) + Len(q) /\ p \o q \in Seq(Marks)
  OBVIOUS
<1> QED BY <1>1

Numbered(q, first) == \A k \in 1 .. Len(q) : q[k][1] = first + k - 1

\* Row number first continues a text that is whole up to c.
Continues(p, c, dropped, first) ==
  LinesOf(p) # {} => c \in Nat /\ Whole(p, c, dropped) /\ first = c + 1

\* A text and a run of rows behind it that begins where it ends.
LEMMA Joined ==
  ASSUME NEW p \in Seq(Marks), NEW q \in Seq(Marks), NEW c, NEW dropped,
         NEW first \in Nat, NEW last \in Nat, first <= last, Len(q) = last - first + 1,
         Numbered(q, first), Continues(p, c, dropped, first)
  PROVE  /\ p \o q \in Seq(Marks)
         /\ Whole(p \o q, last, dropped)
         /\ \A i \in LinesOf(p \o q) :
              \/ i \in LinesOf(p) /\ (p \o q)[i] = p[i]
              \/ \E k \in 1 .. Len(q) : (p \o q)[i] = q[k]
<1>0. PICK t, m, l : t = p \o q /\ m = Len(p) /\ l = Len(q)
  OBVIOUS
<1>l. /\ m \in Nat /\ l \in Nat /\ t \in Seq(Marks) /\ l = last - first + 1
      /\ DOMAIN t = 1 .. m + l /\ DOMAIN p = 1 .. m
      /\ \A i \in 1 .. m : t[i] = p[i] /\ p[i] \in Marks
      /\ \A k \in 1 .. l : t[m + k] = q[k]
  BY <1>0, TwoTexts
<1>1. m \in Nat /\ l \in Nat /\ DOMAIN t = 1 .. m + l /\ DOMAIN p = 1 .. m
  BY <1>l
<1>2. /\ \A i \in 1 .. m : t[i] = p[i]
      /\ \A k \in 1 .. l : t[m + k] = q[k] /\ q[k][1] = first + k - 1
  BY <1>0, <1>l DEF Numbered
<1>3. \A i \in LinesOf(p) : /\ i \in 1 .. m /\ i \in LinesOf(t) /\ t[i] = p[i]
                            /\ p[i][1] \in Nat /\ p[i][1] <= c /\ c \in Nat /\ first = c + 1
  <2> SUFFICES ASSUME NEW i \in LinesOf(p)
               PROVE  /\ i \in 1 .. m /\ i \in LinesOf(t) /\ t[i] = p[i]
                      /\ p[i][1] \in Nat /\ p[i][1] <= c /\ c \in Nat /\ first = c + 1
    OBVIOUS
  <2>1. i \in 1 .. m /\ p[i][1] # None
    BY <1>1 DEF LinesOf
  <2>2. t[i] = p[i] /\ i \in DOMAIN t
    BY <1>1, <1>2, <2>1
  <2>3. p[i] \in Marks
    BY <1>l, <2>1
  <2>4. p[i][1] \in Nat
    BY <2>1, <2>3 DEF Marks, Cursors
  <2>5. c \in Nat /\ Whole(p, c, dropped) /\ first = c + 1
    BY DEF Continues
  <2> QED BY <2>1, <2>2, <2>4, <2>5 DEF Whole, LinesOf
<1>4. \A k \in 1 .. l : m + k \in LinesOf(t) /\ t[m + k][1] = first + k - 1
  <2> SUFFICES ASSUME NEW k \in 1 .. l
               PROVE  m + k \in LinesOf(t) /\ t[m + k][1] = first + k - 1
    OBVIOUS
  <2>a. m + k \in DOMAIN t
    BY <1>1
  <2>1. t[m + k][1] = first + k - 1 /\ m + k \in DOMAIN t
    BY <1>2, <2>a
  <2>2. t[m + k][1] # None
    BY <2>1
  <2> QED BY <2>1, <2>2 DEF LinesOf
<1>5. \A i \in LinesOf(t) :
        \/ i \in LinesOf(p)
        \/ \E k \in 1 .. l : i = m + k
  <2> SUFFICES ASSUME NEW i \in LinesOf(t)
               PROVE  i \in LinesOf(p) \/ \E k \in 1 .. l : i = m + k
    OBVIOUS
  <2>1. i \in 1 .. m + l /\ t[i][1] # None
    BY <1>1 DEF LinesOf
  <2>2. CASE i <= m
    <3>1. i \in 1 .. m /\ t[i] = p[i]
      BY <1>1, <1>2, <2>1, <2>2
    <3> QED BY <1>1, <2>1, <3>1 DEF LinesOf
  <2>3. CASE i > m
    <3>1. i - m \in 1 .. l /\ i = m + (i - m)
      BY <1>1, <2>1, <2>3
    <3> QED BY <3>1
  <2> QED BY <1>1, <2>1, <2>2, <2>3
<1>6. \A n \in first .. last : \E k \in LinesOf(t) : t[k][1] = n
  <2> SUFFICES ASSUME NEW n \in first .. last
               PROVE  \E k \in LinesOf(t) : t[k][1] = n
    OBVIOUS
  <2>1. n - first + 1 \in 1 .. l /\ first + (n - first + 1) - 1 = n
    BY <1>l
  <2> QED BY <1>4, <2>1
<1>7. ASSUME NEW i \in LinesOf(t)
      PROVE  /\ t[i][1] \in Nat /\ t[i][1] <= last
             /\ \A j \in LinesOf(t) : i < j => t[i][1] < t[j][1]
             /\ \A n \in t[i][1] .. last :
                  n \in dropped \/ \E k \in LinesOf(t) : t[k][1] = n
  <2>1. CASE i \in LinesOf(p)
    <3>1. /\ t[i] = p[i] /\ p[i][1] \in Nat /\ p[i][1] <= c /\ c \in Nat /\ first = c + 1
          /\ i \in 1 .. m /\ Whole(p, c, dropped)
      BY <1>3, <2>1 DEF Continues
    <3>2. ASSUME NEW j \in LinesOf(t), i < j
          PROVE  t[i][1] < t[j][1]
      <4>1. CASE j \in LinesOf(p)
        <5>1. t[j] = p[j]
          BY <1>3, <4>1
        <5>2. p[i][1] < p[j][1]
          BY <2>1, <3>1, <3>2, <4>1 DEF Whole
        <5> QED BY <3>1, <5>1, <5>2, Zenon
      <4>2. CASE \E k \in 1 .. l : j = m + k
        <5>1. PICK k \in 1 .. l : j = m + k
          BY <4>2
        <5>2. t[j][1] = first + k - 1
          BY <1>4, <5>1
        <5>3. PICK w \in Nat : w = p[i][1] /\ w <= c
          BY <3>1
        <5>4. w < first + k - 1
          BY <1>1, <3>1, <5>1, <5>3
        <5> QED BY <3>1, <5>2, <5>3, <5>4
      <4> QED BY <1>5, <4>1, <4>2
    <3>3. ASSUME NEW n \in t[i][1] .. last
          PROVE  n \in dropped \/ \E k \in LinesOf(t) : t[k][1] = n
      <4>1. CASE n \in p[i][1] .. c
        <5>1. n \in dropped \/ \E k \in LinesOf(p) : p[k][1] = n
          BY <2>1, <3>1, <4>1 DEF Whole
        <5> QED BY <1>3, <5>1
      <4>2. CASE n \in first .. last
        BY <1>6, <4>2
      <4> QED BY <3>1, <3>3, <4>1, <4>2
    <3> QED BY <3>1, <3>2, <3>3
  <2>2. CASE \E k \in 1 .. l : i = m + k
    <3>1. PICK k \in 1 .. l : i = m + k
      BY <2>2
    <3>2. t[i][1] = first + k - 1
      BY <1>4, <3>1
    <3>3. ASSUME NEW j \in LinesOf(t), i < j
          PROVE  t[i][1] < t[j][1]
      <4>1. j \notin LinesOf(p)
        <5>1. \A g \in LinesOf(p) : g \in 1 .. m
          BY <1>3
        <5>2. j \in Int
          BY <1>1 DEF LinesOf
        <5> QED BY <1>1, <3>1, <3>3, <5>1, <5>2
      <4>2. PICK h \in 1 .. l : j = m + h
        BY <1>5, <4>1
      <4>3. t[j][1] = first + h - 1
        BY <1>4, <4>2
      <4>4. k < h
        BY <1>1, <3>1, <3>3, <4>2
      <4> QED BY <3>2, <4>3, <4>4
    <3>4. \A n \in t[i][1] .. last : n \in first .. last
      <4>1. PICK w \in Int : w = t[i][1] /\ first <= w
        BY <1>1, <3>2
      <4>2. \A n \in w .. last : n \in first .. last
        BY <4>1
      <4> QED BY <4>1, <4>2
    <3>5. t[i][1] \in Nat /\ t[i][1] <= last
      BY <1>l, <3>2
    <3> QED BY <1>6, <3>3, <3>4, <3>5, Zenon
  <2> QED BY <1>5, <2>1, <2>2
<1>8. Whole(t, last, dropped)
  BY <1>7 DEF Whole
<1>9. \A i \in LinesOf(t) : \/ i \in LinesOf(p) /\ t[i] = p[i]
                            \/ \E k \in 1 .. l : t[i] = q[k]
  BY <1>2, <1>3, <1>5
<1> QED BY <1>0, <1>l, <1>8, <1>9

\* A blank row that is dropped, and an error text.
LEMMA OneDropped ==
  ASSUME NEW p \in Seq(Marks), NEW c \in Nat, NEW dropped, Whole(p, c, dropped)
  PROVE  Whole(p, c + 1, dropped \cup {c + 1})
<1> SUFFICES ASSUME NEW i \in LinesOf(p)
             PROVE  /\ p[i][1] <= c + 1
                    /\ \A n \in p[i][1] .. c + 1 :
                         n \in dropped \cup {c + 1} \/ \E k \in LinesOf(p) : p[k][1] = n
  BY DEF Whole
<1>1. p[i] \in Marks /\ p[i][1] # None
  BY DEF LinesOf
<1>2. p[i][1] \in Nat /\ p[i][1] <= c
  BY <1>1 DEF Marks, Cursors, Whole
<1>3. ASSUME NEW n \in p[i][1] .. c + 1
      PROVE  n \in dropped \cup {c + 1} \/ \E k \in LinesOf(p) : p[k][1] = n
  <2>1. CASE n = c + 1
    BY <2>1
  <2>2. CASE n # c + 1
    <3>1. n \in p[i][1] .. c
      BY <1>2, <1>3, <2>2
    <3> QED BY <3>1 DEF Whole
  <2> QED BY <2>1, <2>2
<1> QED BY <1>2, <1>3

LEMMA ErrorAdded ==
  ASSUME NEW p \in Seq(Marks), NEW b \in BOOLEAN
  PROVE  /\ p \o <<<<None, Blank, b>>>> \in Seq(Marks)
         /\ LinesOf(p \o <<<<None, Blank, b>>>>) = LinesOf(p)
         /\ \A i \in LinesOf(p) : (p \o <<<<None, Blank, b>>>>)[i] = p[i]
         /\ \A c, dropped : Whole(p, c, dropped) => Whole(p \o <<<<None, Blank, b>>>>, c, dropped)
<1>0. PICK e : e = <<None, Blank, b>>
  OBVIOUS
<1>e. e \in Marks /\ e[1] = None
  BY <1>0 DEF Marks, Cursors
<1>t. PICK t : t = p \o <<e>>
  OBVIOUS
<1>1. /\ t \in Seq(Marks) /\ Len(p) \in Nat /\ DOMAIN t = 1 .. Len(p) + 1
      /\ DOMAIN p = 1 .. Len(p)
  BY <1>e, <1>t
<1>2. t[Len(p) + 1] = e /\ \A i \in 1 .. Len(p) : t[i] = p[i]
  BY <1>e, <1>t
<1>3. LinesOf(t) = LinesOf(p)
  <2>1. \A i \in 1 .. Len(p) + 1 : i \in 1 .. Len(p) \/ i = Len(p) + 1
    BY <1>1
  <2>2. \A i \in 1 .. Len(p) : i \in 1 .. Len(p) + 1
    BY <1>1
  <2> QED BY <1>e, <1>1, <1>2, <2>1, <2>2, Zenon DEF LinesOf
<1>4. \A i \in LinesOf(p) : t[i] = p[i]
  BY <1>1, <1>2 DEF LinesOf
<1>5. \A c, dropped : Whole(p, c, dropped) => Whole(t, c, dropped)
  BY <1>3, <1>4 DEF Whole
<1> QED BY <1>0, <1>t, <1>1, <1>3, <1>4, <1>5

LEMMA MoreSeen ==
  ASSUME NEW s, NEW n, NEW w, NEW seen, NEW more, Good(s, n, w, seen)
  PROVE  Good(s, n, w, seen \cup more) /\ Good(s, n, w, more \cup seen)
BY DEF Good

\* The rows of an answer, as they are put on the page.
LEMMA RowsPut ==
  ASSUME NEW a \in Replies, ~Empty(a), ~a.error, NEW old,
         NEW first \in Nat, a.last \in Nat, first <= a.last, Run(a.rws, first, a.last)
  PROVE  /\ Pieces(a, old) \in Seq(Marks)
         /\ Len(Pieces(a, old)) = a.last - first + 1
         /\ FirstOf(a) = {first}
         /\ \A k \in 1 .. Len(Pieces(a, old)) :
              /\ Pieces(a, old)[k][1] = first + k - 1
              /\ \E x \in a.rws : x[1] = Pieces(a, old)[k][1] /\ x[2] = Pieces(a, old)[k][2]
              /\ Pieces(a, old)[k][3] \/ Pieces(a, old)[k][1] = first
<1>1. /\ a.rws \subseteq Cells /\ Cardinality(a.rws) = a.last - first + 1
      /\ \A x \in a.rws : Place(x, a.rws) = x[1] - first + 1
      /\ \E x \in a.rws : x[1] = first
      /\ \A k \in 1 .. a.last - first + 1 :
           InOrder(a.rws)[k] \in a.rws /\ InOrder(a.rws)[k][1] = first + k - 1
  BY RunInOrder
<1>2. FirstOf(a) = {first}
  <2>1. \A x \in a.rws : x[1] \in Nat
    BY <1>1 DEF Cells
  <2> QED BY <1>1, <2>1 DEF FirstOf
<1>3. PICK o : o = InOrder(a.rws)
  OBVIOUS
<1>4. PICK b \in BOOLEAN : b = (old = <<>>)
  OBVIOUS
<1>5. Pieces(a, old) = [k \in 1 .. a.last - first + 1 |-> <<o[k][1], o[k][2], k > 1 \/ b>>]
  BY <1>1, <1>3, <1>4 DEF Pieces
<1>6. \A k \in 1 .. a.last - first + 1 :
        /\ o[k] \in a.rws /\ o[k][1] = first + k - 1 /\ o[k][2] \in 0 .. MaxWrites
        /\ o[k][1] \in Nat
  BY <1>1, <1>3 DEF Cells
<1>7. \A k \in 1 .. a.last - first + 1 : <<o[k][1], o[k][2], k > 1 \/ b>> \in Marks
  BY <1>6 DEF Marks, Cursors
<1>8. a.last - first + 1 \in Nat
  OBVIOUS
<1>9. PICK q, n : q = Pieces(a, old) /\ n = a.last - first + 1
  OBVIOUS
<1>10. /\ n \in Nat /\ q = [k \in 1 .. n |-> <<o[k][1], o[k][2], k > 1 \/ b>>]
       /\ \A k \in 1 .. n : <<o[k][1], o[k][2], k > 1 \/ b>> \in Marks
  BY <1>5, <1>7, <1>8, <1>9
<1>11. q \in Seq(Marks) /\ Len(q) = n
  <2>1. q = [k \in 1 .. n |-> q[k]]
    BY <1>10
  <2>2. \A k \in 1 .. n : q[k] \in Marks
    BY <1>10
  <2> QED BY <1>10, <2>1, <2>2
<1>12. \A k \in 1 .. n :
         /\ q[k][1] = first + k - 1
         /\ \E x \in a.rws : x[1] = q[k][1] /\ x[2] = q[k][2]
         /\ q[k][3] \/ q[k][1] = first
  <2> SUFFICES ASSUME NEW k \in 1 .. n
               PROVE  /\ q[k][1] = first + k - 1
                      /\ \E x \in a.rws : x[1] = q[k][1] /\ x[2] = q[k][2]
                      /\ q[k][3] \/ q[k][1] = first
    OBVIOUS
  <2>1. q[k] = <<o[k][1], o[k][2], k > 1 \/ b>>
    BY <1>10
  <2>2. o[k] \in a.rws /\ o[k][1] = first + k - 1
    BY <1>6, <1>9
  <2>3. q[k][1] = o[k][1] /\ q[k][2] = o[k][2] /\ q[k][3] = (k > 1 \/ b)
    BY <2>1
  <2>4. CASE k > 1
    BY <2>2, <2>3, <2>4
  <2>5. CASE k = 1
    BY <2>2, <2>3, <2>5
  <2> QED BY <1>10, <2>4, <2>5
<1> QED BY <1>2, <1>9, <1>11, <1>12

LEMMA ShowKeeps ==
  ASSUME Inv, ShowAnswer
  PROVE  Inv'
<1> USE DEF Inv
<1>a. PICK a : a = Head(answers)
  OBVIOUS
<1>1. Kept /\ current' = current
  BY DEF ShowAnswer, itermVars, Kept
<1>2. answers' = Tail(answers) /\ answers # <<>> /\ answers \in Seq(Replies)
  BY DEF ShowAnswer, PageTyped
<1>3. a \in Replies /\ AnswerOK(a)
  BY <1>a, <1>2 DEF AnswerInv
<1>4. /\ a.s \in Sessions /\ a.last \in Cursors /\ a.after \in Cursors
      /\ a.rws \subseteq Cells /\ a.screen \subseteq Nat
      /\ a.slid \in BOOLEAN /\ a.dropped \in BOOLEAN /\ a.error \in BOOLEAN
      /\ a.torn \in BOOLEAN
  BY <1>3 DEF Replies
<1>5. answers' \in Seq(Replies)
  BY <1>2
<1>6. AnswerInv'
  <2>1. \A j \in DOMAIN answers' : \E k \in DOMAIN answers : answers'[j] = answers[k]
    BY <1>2
  <2> QED BY <1>1, <2>1, BufferKept DEF AnswerInv
<1>7. CASE UNCHANGED <<cursor, pageVars, reads>>
  <2>1. PageTyped' /\ ReadInv' /\ ShownInv'
    BY <1>1, <1>5, <1>7, BufferKept DEF PageTyped, ReadInv, ShownInv, pageVars
  <2> QED BY <1>1, <1>6, <2>1, BufferKept
<1>8. CASE /\ a.s = current
           /\ cursor' = [cursor EXCEPT ![current] = None]
           /\ NewText
           /\ reads' = Append(reads, Request(current, None, FALSE))
  <2>1. reads' \in Seq(Tasks) /\ ReadInv'
    BY <1>1, <1>4, <1>8, ReadAdded DEF PageTyped, Cursors
  <2>2. cursor' \in [Sessions -> Cursors]
    BY <1>8 DEF PageTyped, Cursors
  <2>3. /\ shown' = <<>> /\ edge' = {} /\ suspect' = FALSE /\ reused' = FALSE
        /\ <<>> \in Seq(Marks)
    BY <1>8 DEF NewText
  <2>4. PageTyped'
    BY <1>1, <1>5, <2>1, <2>2, <2>3 DEF PageTyped
  <2>5. ShownInv'
    BY <2>3 DEF ShownInv, LinesOf
  <2> QED BY <1>1, <1>6, <2>1, <2>4, <2>5, BufferKept
<1>9. CASE /\ a.s = current /\ ~a.dropped
           /\ cursor'  = [cursor EXCEPT ![current] = IF a.last # None THEN a.last ELSE @]
           /\ reused'  = \/ cursor[current] # None /\ reused
                         \/ a.last # None /\ a.slid
           /\ suspect' = \/ reused'
                         \/ cursor[current] # None /\ suspect
                         \/ a.last # None /\ (a.after # cursor[current] \/ a.torn)
           /\ IF suspect' THEN shown' = <<>> /\ edge' = {} /\ seams' = {} /\ skipped' = {}
              ELSE Shown(a, IF cursor[current] = None THEN <<>> ELSE shown)
           /\ UNCHANGED reads
  <2>1. cursor' \in [Sessions -> Cursors] /\ reused' \in BOOLEAN /\ current \in Sessions
    BY <1>4, <1>9 DEF PageTyped
  <2>s. suspect' \in BOOLEAN
    BY <1>4, <1>9, <2>1 DEF PageTyped
  <2>c. cursor'[current] = IF a.last # None THEN a.last ELSE cursor[current]
    BY <1>4, <1>9 DEF PageTyped
  <2>2. ReadInv' /\ reads' \in Seq(Tasks)
    BY <1>1, <1>9, BufferKept DEF ReadInv, PageTyped
  <2>4. CASE suspect'
    <3>1. shown' = <<>> /\ edge' = {}
      BY <1>9, <2>4
    <3>2. PageTyped'
      BY <1>1, <1>5, <2>1, <2>s, <2>2, <3>1 DEF PageTyped
    <3>3. ShownInv'
      BY <2>4 DEF ShownInv
    <3> QED BY <1>1, <1>6, <2>2, <3>2, <3>3, BufferKept
  <2>5. CASE ~suspect'
    <3>0. PICK old, e : e = edge' /\ old = IF cursor[current] = None THEN <<>> ELSE shown
      OBVIOUS
    <3>1. Shown(a, old)
      BY <1>9, <2>5, <3>0
    <3>2. edge' = e /\ e = edge \cup a.screen /\ shown' = old \o Pieces(a, old)
          /\ seams' = (IF Empty(a) THEN seams ELSE seams \cup FirstOf(a))
          /\ skipped' = (IF Empty(a) THEN skipped \cup FirstOf(a) ELSE skipped)
      BY <3>0, <3>1 DEF Shown
    <3>3. edge' \subseteq Nat
      BY <1>4, <3>2 DEF PageTyped
    <3>4. /\ old \in Seq(Marks)
          /\ LinesOf(old) # {} => cursor[current] \in Nat
                                  /\ Whole(old, cursor[current], skipped)
          /\ \A i \in LinesOf(old) : /\ Good(current, old[i][1], old[i][2], e)
                                     /\ old[i][3] \/ old[i][1] \in seams'
      <4>1. CASE cursor[current] = None
        <5>1. old = <<>> /\ LinesOf(old) = {}
          BY <3>0, <4>1 DEF LinesOf
        <5> QED BY <5>1
      <4>2. CASE cursor[current] # None
        <5>1. old = shown /\ ~suspect
          BY <1>9, <2>5, <3>0, <4>2 DEF PageTyped
        <5>2. shown \in Seq(Marks) /\ cursor[current] \in Nat
          BY <2>1, <4>2 DEF PageTyped, Cursors
        <5>3. ASSUME NEW i \in LinesOf(shown)
              PROVE  /\ Good(current, shown[i][1], shown[i][2], e)
                     /\ shown[i][3] \/ shown[i][1] \in seams'
          <6>1. /\ Good(current, shown[i][1], shown[i][2], edge)
                /\ shown[i][3] \/ shown[i][1] \in seams
            BY <5>1, <5>3 DEF ShownInv
          <6>2. seams \subseteq seams'
            BY <3>2
          <6> QED BY <3>2, <6>1, <6>2, MoreSeen
        <5>4. LinesOf(shown) # {} => Whole(shown, cursor[current], skipped)
          BY <5>1 DEF ShownInv
        <5> QED BY <5>1, <5>2, <5>3, <5>4
      <4> QED BY <4>1, <4>2
    \* What is left to show: the new text is whole, and its lines are good.
    <3>5. ASSUME NEW t \in Seq(Marks), shown' = t,
                 LinesOf(t) # {} => Whole(t, cursor'[current], skipped'),
                 \A i \in LinesOf(t) : /\ Good(current, t[i][1], t[i][2], e)
                                       /\ t[i][3] \/ t[i][1] \in seams'
          PROVE  Inv'
      <4>1. PageTyped'
        BY <1>1, <1>5, <2>1, <2>s, <2>2, <3>3, <3>5 DEF PageTyped
      <4>3. \A s : s = current => \A i \in LinesOf(t) : Good(s, t[i][1], t[i][2], e)'
        <5>1. \A i \in LinesOf(t) : Good(current, t[i][1], t[i][2], e)
          BY <3>5
        <5> QED BY <1>1, <5>1, BufferKept
      <4>4. ShownInv'
        BY <1>1, <2>1, <3>2, <3>5, <4>3 DEF ShownInv
      <4> QED BY <1>1, <1>6, <2>2, <4>1, <4>4, BufferKept
    <3>6. CASE a.rws = {}
      <4>1. cursor'[current] = cursor[current]
        <5>1. a.last \in {None, a.after}
          BY <1>3, <3>6 DEF AnswerOK
        <5>2. a.last # None => a.after = cursor[current]
          BY <1>9, <2>5
        <5> QED BY <2>c, <5>1, <5>2
      <4>2. FirstOf(a) = {}
        BY <3>6 DEF FirstOf
      <4>3. skipped' = skipped
        BY <3>2, <4>2
      <4>4. CASE Pieces(a, old) = <<>>
        <5>1. shown' = old
          BY <3>2, <3>4, <4>4
        <5> QED BY <3>4, <3>5, <4>1, <4>3, <5>1
      <4>5. CASE Pieces(a, old) # <<>>
        <5>1. PICK b \in BOOLEAN : Pieces(a, old) = <<<<None, Blank, b>>>>
          <6>1. ~Empty(a) /\ a.error
            BY <3>6, <4>5 DEF Pieces, Empty
          <6> QED BY <4>5, <6>1 DEF Pieces
        <5>2. PICK t : t = old \o <<<<None, Blank, b>>>>
          OBVIOUS
        <5>3. /\ t \in Seq(Marks) /\ LinesOf(t) = LinesOf(old)
              /\ \A i \in LinesOf(old) : t[i] = old[i]
              /\ \A c, dropped : Whole(old, c, dropped) => Whole(t, c, dropped)
          BY <3>4, <5>2, ErrorAdded
        <5>4. shown' = t
          BY <3>2, <5>1, <5>2
        <5> QED BY <3>4, <3>5, <4>1, <4>3, <5>3, <5>4
      <4> QED BY <4>4, <4>5
    <3>7. CASE a.rws # {}
      <4>1. a.last \in Nat /\ a.after = cursor[current] /\ ~a.slid /\ ~a.torn /\ ~a.error
        BY <1>3, <1>4, <1>9, <2>5, <3>7 DEF AnswerOK, Cursors
      <4>2. cursor'[current] = a.last
        BY <2>c, <4>1
      <4>3. \A x \in a.rws : Good(current, x[1], x[2], a.screen)
        BY <1>3, <1>9, <3>7, <4>1 DEF AnswerOK
      <4>4. PICK first \in Nat :
              /\ first <= a.last
              /\ a.after # None => first = a.after + 1
              /\ Run(a.rws, first, a.last)
        BY <1>3, <1>9, <3>7, <4>1 DEF AnswerOK
      <4>5. LinesOf(old) # {} => first = cursor[current] + 1
        BY <3>4, <4>1, <4>4
      <4>6. CASE Empty(a)
        <5>1. Pieces(a, old) = <<>> /\ shown' = old
          BY <3>2, <3>4, <4>6 DEF Pieces
        <5>2. PICK x \in a.rws : a.rws = {x}
          BY <3>7, <4>6 DEF Empty
        <5>3. first = a.last /\ FirstOf(a) = {first}
          <6>1. /\ a.rws \subseteq Cells /\ Cardinality(a.rws) = a.last - first + 1
                /\ \A y \in a.rws : Place(y, a.rws) = y[1] - first + 1
                /\ \E y \in a.rws : y[1] = first
            BY <4>1, <4>4, RunInOrder
          <6>2. Cardinality(a.rws) = 1
            BY <5>2, FS_Singleton
          <6>3. x[1] = first /\ Place(x, a.rws) = 1
            BY <5>2, <6>1
          <6>4. FirstOf(a) = {x[1]}
            BY <5>2, <6>3 DEF FirstOf
          <6> QED BY <4>1, <6>1, <6>2, <6>3, <6>4
        <5>4. skipped' = skipped \cup {first}
          BY <3>2, <4>6, <5>3
        <5>5. LinesOf(old) # {} => Whole(old, a.last, skipped')
          <6> SUFFICES ASSUME LinesOf(old) # {} PROVE Whole(old, a.last, skipped')
            OBVIOUS
          <6>1. PICK c \in Nat : c = cursor[current]
            BY <3>4
          <6>2. a.last = c + 1 /\ skipped' = skipped \cup {c + 1} /\ Whole(old, c, skipped)
            BY <3>4, <4>5, <5>3, <5>4, <6>1
          <6> QED BY <3>4, <6>1, <6>2, OneDropped
        <5> QED BY <3>4, <3>5, <4>2, <5>1, <5>5
      <4>7. CASE ~Empty(a)
        <5>0. PICK q : q = Pieces(a, old)
          OBVIOUS
        <5>1. /\ q \in Seq(Marks) /\ Len(q) = a.last - first + 1 /\ FirstOf(a) = {first}
              /\ \A k \in 1 .. Len(q) :
                   /\ q[k][1] = first + k - 1
                   /\ \E x \in a.rws : x[1] = q[k][1] /\ x[2] = q[k][2]
                   /\ q[k][3] \/ q[k][1] = first
          <6>1. /\ Pieces(a, old) \in Seq(Marks)
                /\ Len(Pieces(a, old)) = a.last - first + 1
                /\ FirstOf(a) = {first}
                /\ \A k \in 1 .. Len(Pieces(a, old)) :
                     /\ Pieces(a, old)[k][1] = first + k - 1
                     /\ \E x \in a.rws : /\ x[1] = Pieces(a, old)[k][1]
                                         /\ x[2] = Pieces(a, old)[k][2]
                     /\ Pieces(a, old)[k][3] \/ Pieces(a, old)[k][1] = first
            BY <1>3, <4>1, <4>4, <4>7, RowsPut
          <6> QED BY <5>0, <6>1
        <5>2. skipped' = skipped /\ first \in seams' /\ shown' = old \o q
          BY <3>2, <4>7, <5>0, <5>1
        <5>3. PICK t : t = old \o q
          OBVIOUS
        <5>4. /\ t \in Seq(Marks) /\ Whole(t, a.last, skipped)
              /\ \A i \in LinesOf(t) : \/ i \in LinesOf(old) /\ t[i] = old[i]
                                       \/ \E k \in 1 .. Len(q) : t[i] = q[k]
          <6>c. PICK c : c = cursor[current]
            OBVIOUS
          <6>2. LinesOf(old) # {} => c \in Nat /\ Whole(old, c, skipped) /\ first = c + 1
            BY <3>4, <4>5, <6>c
          <6>3. Numbered(q, first)
            BY <5>1, Zenon DEF Numbered
          <6>d. PICK d : d = skipped
            OBVIOUS
          <6>4. PICK last \in Nat : last = a.last /\ d = skipped
            BY <4>1, <6>d
          <6>5. /\ old \in Seq(Marks) /\ q \in Seq(Marks) /\ first <= last
                /\ Len(q) = last - first + 1
            BY <3>4, <4>4, <5>1, <6>4
          <6>7. Continues(old, c, d, first)
            BY <6>2, <6>d DEF Continues
          <6>6. /\ old \o q \in Seq(Marks) /\ Whole(old \o q, last, d)
                /\ \A i \in LinesOf(old \o q) :
                     \/ i \in LinesOf(old) /\ (old \o q)[i] = old[i]
                     \/ \E k \in 1 .. Len(q) : (old \o q)[i] = q[k]
            BY <6>3, <6>5, <6>7, Joined
          <6> QED BY <5>3, <6>4, <6>6
        <5>5. \A k \in 1 .. Len(q) : /\ Good(current, q[k][1], q[k][2], e)
                                     /\ q[k][3] \/ q[k][1] \in seams'
          <6> SUFFICES ASSUME NEW k \in 1 .. Len(q)
                       PROVE  /\ Good(current, q[k][1], q[k][2], e)
                              /\ q[k][3] \/ q[k][1] \in seams'
            OBVIOUS
          <6>1. PICK x \in a.rws : x[1] = q[k][1] /\ x[2] = q[k][2]
            BY <5>1
          <6>2. Good(current, q[k][1], q[k][2], a.screen)
            BY <4>3, <6>1
          <6> QED BY <3>2, <5>1, <5>2, <6>2, MoreSeen
        <5>6. \A i \in LinesOf(t) : /\ Good(current, t[i][1], t[i][2], e)
                                    /\ t[i][3] \/ t[i][1] \in seams'
          BY <3>4, <5>4, <5>5
        <5> QED BY <3>5, <4>2, <5>2, <5>3, <5>4, <5>6
      <4> QED BY <4>6, <4>7
    <3> QED BY <3>6, <3>7
  <2> QED BY <2>4, <2>5
<1> QED BY <1>a, <1>7, <1>8, <1>9 DEF ShowAnswer

-----------------------------------------------------------------------------

LEMMA NextKeeps == Inv /\ [Next]_vars => Inv'
<1> SUFFICES ASSUME Inv, [Next]_vars
             PROVE  Inv'
  OBVIOUS
<1>1. CASE ITermStep
  BY <1>1, ITermStepKeeps
<1>2. CASE OthersList
  BY <1>2, ViewKept DEF OthersList, Kept
<1>3. CASE RefreshSession \/ ShowAnswer
  BY <1>3, RefreshKeeps, ShowKeeps
<1>4. ASSUME NEW s \in Sessions, SelectSession(s)
      PROVE  Inv'
  BY <1>4, SelectKeeps
<1>5. ASSUME NEW i \in 1 .. MaxReads, Task(i)
      PROVE  Inv'
  <2>1. i \in DOMAIN reads
    BY <1>5, ViewAssumption DEF Task, Inv, PageTyped
  <2> QED BY <1>5, <2>1, ReadInfoKeeps, ReadContentsKeeps DEF Task
<1>6. CASE UNCHANGED vars
  BY <1>6, ViewKept DEF vars, itermVars, Kept
<1> QED BY <1>1, <1>2, <1>3, <1>4, <1>5, <1>6 DEF Next, Page

LEMMA InvShows == Inv => ViewIsTerminal
<1> SUFFICES ASSUME Inv, ~suspect
             PROVE  /\ InSequence /\ AsInTerminal
                    /\ \A i \in Lines : shown[i][3] \/ shown[i][1] \in seams
  BY DEF ViewIsTerminal
<1>0. Lines = LinesOf(shown) /\ shown \in Seq(Marks)
  BY DEF Lines, LinesOf, Inv, PageTyped
<1>1. InSequence
  <2> SUFFICES ASSUME NEW i \in Lines, NEW j \in Lines
               PROVE  /\ i < j => shown[i][1] < shown[j][1]
                      /\ \A n \in shown[i][1] .. shown[j][1] :
                           n \in skipped \/ \E k \in Lines : shown[k][1] = n
    BY DEF InSequence
  <2>1. /\ Whole(shown, cursor[current], skipped) /\ current \in Sessions
    BY <1>0 DEF Inv, ShownInv
  <2>2. cursor[current] \in Nat
    BY <1>0, <2>1 DEF Inv, PageTyped, Cursors, Whole
  <2>3. \A k \in Lines : shown[k][1] \in Nat /\ shown[k][1] <= cursor[current]
    <3> SUFFICES ASSUME NEW k \in Lines
                 PROVE  shown[k][1] \in Nat /\ shown[k][1] <= cursor[current]
      OBVIOUS
    <3>1. shown[k] \in Marks /\ shown[k][1] # None
      BY <1>0 DEF LinesOf
    <3> QED BY <1>0, <2>1, <3>1 DEF Marks, Cursors, Whole
  <2>4. \A n \in shown[i][1] .. shown[j][1] : n \in shown[i][1] .. cursor[current]
    BY <2>2, <2>3
  <2> QED BY <1>0, <2>1, <2>4 DEF Whole
<1>2. AsInTerminal
  <2> SUFFICES ASSUME current \in open, NEW i \in Lines, ~(shown[i][1] < overflow[current]),
                      shown[i][1] \notin edge
               PROVE  <<shown[i][1], shown[i][2]>> \in Rows(current, shown[i][1], shown[i][1])
    BY DEF AsInTerminal
  <2>1. shown[i] \in Marks /\ shown[i][1] # None
    BY <1>0 DEF LinesOf
  <2>2. PICK n \in Nat, w \in 0 .. MaxWrites : shown[i][1] = n /\ shown[i][2] = w
    BY <2>1 DEF Marks, Cursors
  <2>4. current \in Sessions /\ Good(current, n, w, edge)
    BY <1>0, <2>2 DEF Inv, ShownInv, BufferTyped
  <2>5. overflow[current] \in Nat /\ Len(rows[current]) \in Nat
    BY <2>4 DEF Inv, BufferTyped
  <2>6. /\ overflow[current] <= n /\ n < LastValid(current)
        /\ rows[current][n - overflow[current] + 1] = w
    BY <2>2, <2>4, <2>5 DEF Good
  <2>7. n < overflow[current] + Len(rows[current])
    BY <2>5, <2>6 DEF LastValid
  <2>8. n \in {k \in n .. n : overflow[current] <= k /\ k < overflow[current] + Len(rows[current])}
    BY <2>6, <2>7
  <2> QED BY <2>2, <2>6, <2>8 DEF Rows
<1>3. \A i \in Lines : shown[i][3] \/ shown[i][1] \in seams
  BY <1>0 DEF Inv, ShownInv
<1> QED BY <1>1, <1>2, <1>3

\* Reads of the page overlap the output of the terminal, its scrolling, one another, lost
\* connections and a change of session, and the page still shows consecutive rows of the
\* session that is selected, each as the terminal has it and on a line of its own, up to
\* what ViewIsTerminal excepts (pair-page.ts, iterm_bridge.py).
THEOREM PageIsTerminal == FairSpec => []ViewIsTerminal
<1>1. Init => Inv
  BY InitHolds
<1>2. Inv /\ [Next]_vars => Inv'
  BY NextKeeps
<1>3. Inv => ViewIsTerminal
  BY InvShows
<1> QED BY <1>1, <1>2, <1>3, PTL DEF FairSpec

-----------------------------------------------------------------------------
(* The watcher                                                             *)

\* The indexes of the rows that are read.
TailRows(s) == {n \in 1 .. Len(rows[s]) : n > Len(rows[s]) - TailLines}

WatcherTyped ==
  /\ reading \in Sessions \cup {None}
  /\ span \in [first : Nat, last : Int, slid : BOOLEAN]
  /\ states \in [Sessions -> {"absent", "idle", "waiting"}]
  /\ told \in [Sessions -> PromptWrites \cup {Blank}]
  /\ hiccup \in [Sessions -> BOOLEAN]

\* Rows and announcements are of writes that were made.
HeldInv ==
  \A s \in Sessions :
    told[s] <= writes /\ \A n \in 1 .. Len(rows[s]) : rows[s][n] <= writes

\* What a session showed is neither among the rows that a new read would ask for nor
\* among those that a read under way asks for.
Gone(s, w) ==
  \A n \in 1 .. Len(rows[s]) :
    rows[s][n] = w => n \notin TailRows(s) /\ (reading = s => overflow[s] + n - 1 < span.first)

\* A session that does not wait no longer has on its screen what was announced of it.
GoneInv ==
  \A s \in open :
    states[s] # "waiting" /\ ~hiccup[s] /\ told[s] # Blank => Gone(s, told[s])

\* A read under way asks for the row of what a session shows.
Asked(s, w) ==
  \A n \in TailRows(s) :
    rows[s][n] = w => overflow[s] + n - 1 \in span.first .. span.last

PeekInv ==
  \A s \in open : reading = s /\ ~span.slid /\ told[s] # Blank => Asked(s, told[s])

WatchInv == BufferTyped /\ WatcherTyped /\ HeldInv /\ GoneInv /\ PeekInv /\ ~repeated

\* A set of row indexes has a greatest one.
LEMMA LatestOf ==
  ASSUME NEW last \in Nat, NEW T \in SUBSET (0 .. last), T # {}
  PROVE  \E n \in T : \A m \in T : m <= n
<1> DEFINE U == {last - n : n \in T}
<1>1. U \subseteq Nat /\ U # {}
  <2>1. PICK n \in T : TRUE
    OBVIOUS
  <2>2. last - n \in U
    BY <2>1
  <2>3. \A m \in T : last - m \in Nat
    OBVIOUS
  <2> QED BY <2>2, <2>3
<1>2. IsWellFoundedOn(OpToRel(<, Nat), Nat)
  BY NatLessThanWellFounded
<1>3. PICK u \in U : \A v \in U : ~(<<v, u>> \in OpToRel(<, Nat))
  <2> HIDE DEF U
  <2> QED BY <1>1, <1>2, WFMin
<1>4. \A v \in U : u <= v
  <2>1. \A v \in U : ~(v < u)
    BY <1>1, <1>3 DEF OpToRel
  <2> HIDE DEF U
  <2> QED BY <1>1, <2>1
<1>5. PICK n \in T : u = last - n
  OBVIOUS
<1>6. \A m \in T : last - n <= last - m
  BY <1>4, <1>5
<1> QED BY <1>6

\* A prompt that is found is one of the rows that are read; none is found if none is there.
LEMMA PromptFound ==
  ASSUME NEW last \in Nat, NEW rws \in SUBSET ((0 .. last) \X (0 .. MaxWrites))
  PROVE  /\ PromptIn(rws) # Blank =>
              PromptIn(rws) \in PromptWrites /\ \E x \in rws : x[2] = PromptIn(rws)
         /\ PromptIn(rws) = Blank => \A x \in rws : x[2] \notin PromptWrites
<1>0. PICK prompts : prompts = {x \in rws : x[2] \in PromptWrites}
  OBVIOUS
<1>1. CASE prompts = {}
  BY <1>0, <1>1 DEF PromptIn
<1>2. CASE prompts # {}
  <2>1. \E x \in prompts : \A y \in prompts : y[1] <= x[1]
    <3>1. PICK T : T = {y[1] : y \in prompts}
      OBVIOUS
    <3>2. T \in SUBSET (0 .. last) /\ T # {}
      BY <1>0, <1>2, <3>1
    <3>3. PICK n \in T : \A m \in T : m <= n
      BY <3>2, LatestOf
    <3>4. PICK x \in prompts : x[1] = n
      BY <3>1, <3>3
    <3> QED BY <3>1, <3>3, <3>4
  <2>2. PICK latest : latest = CHOOSE x \in prompts : \A y \in prompts : y[1] <= x[1]
    OBVIOUS
  <2>3. latest \in prompts
    BY <2>1, <2>2
  <2>4. PromptIn(rws) = latest[2]
    BY <1>0, <1>2, <2>2, Zenon DEF PromptIn
  <2>5. Blank \notin PromptWrites
    OBVIOUS
  <2>6. latest \in rws /\ latest[2] \in PromptWrites
    BY <1>0, <2>3
  <2> QED BY <2>4, <2>5, <2>6
<1> QED BY <1>1, <1>2

\* The rows of a range of numbers are rows of the buffer.
LEMMA RowsRead ==
  ASSUME BufferTyped, NEW s \in Sessions, NEW first \in Nat, NEW last \in Int
  PROVE  /\ \E m \in Nat : Rows(s, first, last) \subseteq (0 .. m) \X (0 .. MaxWrites)
         /\ \A x \in Rows(s, first, last) :
              \E n \in 1 .. Len(rows[s]) :
                /\ x = <<overflow[s] + n - 1, rows[s][n]>>
                /\ first <= overflow[s] + n - 1
         /\ \A n \in 1 .. Len(rows[s]) :
              overflow[s] + n - 1 \in first .. last =>
                <<overflow[s] + n - 1, rows[s][n]>> \in Rows(s, first, last)
<1>0. PICK o, q : o = overflow[s] /\ q = rows[s]
  OBVIOUS
<1>1. o \in Nat /\ q \in Seq(0 .. MaxWrites) /\ Len(q) \in Nat
  BY <1>0 DEF BufferTyped
<1>2. PICK R : R = Rows(s, first, last)
  OBVIOUS
<1>3. R = {<<n, q[n - o + 1]>> : n \in {i \in first .. last : o <= i /\ i < o + Len(q)}}
  BY <1>0, <1>2 DEF Rows
<1>4. ASSUME NEW x \in R
      PROVE  \E n \in 1 .. Len(q) : x = <<o + n - 1, q[n]>> /\ first <= o + n - 1
  <2>1. PICK i \in first .. last : o <= i /\ i < o + Len(q) /\ x = <<i, q[i - o + 1]>>
    BY <1>3, <1>4
  <2>2. PICK n : n = i - o + 1
    OBVIOUS
  <2>3. n \in 1 .. Len(q) /\ i = o + n - 1 /\ first <= i
    BY <1>1, <2>1, <2>2
  <2> QED BY <2>1, <2>2, <2>3
<1>5. ASSUME NEW n \in 1 .. Len(q), o + n - 1 \in first .. last
      PROVE  <<o + n - 1, q[n]>> \in R
  <2>1. PICK i : i = o + n - 1
    OBVIOUS
  <2>2. i \in first .. last /\ o <= i /\ i < o + Len(q) /\ i - o + 1 = n
    BY <1>1, <1>5, <2>1
  <2>3. <<i, q[i - o + 1]>> \in R
    BY <1>3, <2>2
  <2> QED BY <2>1, <2>2, <2>3
<1>6. R \subseteq (0 .. o + Len(q)) \X (0 .. MaxWrites)
  <2> SUFFICES ASSUME NEW x \in R PROVE x \in (0 .. o + Len(q)) \X (0 .. MaxWrites)
    OBVIOUS
  <2>1. PICK n \in 1 .. Len(q) : x = <<o + n - 1, q[n]>>
    BY <1>4
  <2>2. q[n] \in 0 .. MaxWrites /\ o + n - 1 \in 0 .. o + Len(q)
    BY <1>1
  <2> QED BY <2>1, <2>2
<1>7. o + Len(q) \in Nat
  BY <1>1
<1> QED BY <1>0, <1>2, <1>4, <1>5, <1>6, <1>7

\* What a step of iTerm2 does to the rows of a session.
LEMMA RowsMove ==
  ASSUME BufferTyped, ITerm, NEW s \in Sessions
  PROVE  /\ writes' \in {writes, writes + 1}
         /\ \/ /\ rows'[s] = rows[s] /\ overflow'[s] = overflow[s]
               /\ s \in open' => s \in open
            \/ rows'[s] = <<Blank>>
            \/ /\ s \in open /\ writes' = writes + 1 /\ overflow'[s] = overflow[s]
               /\ rows'[s] = [rows[s] EXCEPT ![Len(rows[s])] = writes + 1]
            \/ /\ s \in open /\ overflow'[s] = overflow[s]
               /\ rows'[s] = Append(rows[s], Blank)
            \/ /\ s \in open /\ overflow'[s] = overflow[s] + 1
               /\ rows'[s] = Append(Tail(rows[s]), Blank)
            \/ /\ s \in open /\ Len(rows[s]) > 1
               /\ overflow'[s] \in {overflow[s], overflow[s] + Len(rows[s]) - 1}
               /\ rows'[s] = <<rows[s][Len(rows[s])]>>
<1> USE DEF BufferTyped
<1> DEFINE Same == /\ rows'[s] = rows[s] /\ overflow'[s] = overflow[s]
                   /\ s \in open' => s \in open
<1>1. CASE LoseConnection \/ QuitITerm \/ StartITerm
  BY <1>1 DEF LoseConnection, QuitITerm, StartITerm
<1>2. ASSUME NEW t \in Sessions, OpenWindow(t) \/ CloseWindow(t)
      PROVE  writes' = writes /\ (Same \/ rows'[s] = <<Blank>>)
  BY <1>2 DEF OpenWindow, CloseWindow
<1>3. ASSUME NEW t \in Sessions, Write(t)
      PROVE  /\ writes' = writes + 1
             /\ \/ Same
                \/ /\ s \in open /\ overflow'[s] = overflow[s]
                   /\ rows'[s] = [rows[s] EXCEPT ![Len(rows[s])] = writes + 1]
  <2>1. rows' = [rows EXCEPT ![t] = [rows[t] EXCEPT ![Len(rows[t])] = writes + 1]]
    BY <1>3 DEF Write
  <2> QED BY <1>3, <2>1 DEF Write
<1>4. ASSUME NEW t \in Sessions, Scroll(t)
      PROVE  /\ writes' = writes
             /\ \/ Same
                \/ /\ s \in open /\ overflow'[s] = overflow[s]
                   /\ rows'[s] = Append(rows[s], Blank)
                \/ /\ s \in open /\ overflow'[s] = overflow[s] + 1
                   /\ rows'[s] = Append(Tail(rows[s]), Blank)
  BY <1>4 DEF Scroll
<1>5. ASSUME NEW t \in Sessions, ClearBuffer(t)
      PROVE  /\ writes' = writes
             /\ \/ Same
                \/ /\ s \in open /\ Len(rows[s]) > 1
                   /\ overflow'[s] \in {overflow[s], overflow[s] + Len(rows[s]) - 1}
                   /\ rows'[s] = <<rows[s][Len(rows[s])]>>
  BY <1>5 DEF ClearBuffer
<1> QED BY <1>1, <1>2, <1>3, <1>4, <1>5, Zenon DEF ITerm

\* Row n was row m before a step: it has the same number, unless its session was
\* renumbered, and then it was on the screen.
WasRow(s, n, m) ==
  /\ rows'[s][n] = rows[s][m]
  /\ s \in open' => s \in open
  /\ n \in TailRows(s)' => m \in TailRows(s)
  /\ IF LastValid(s)' < LastValid(s) THEN m \in TailRows(s)
     ELSE overflow'[s] + n = overflow[s] + m

\* Every row is blank, or of the write of this step, or was there before it.
LEMMA RowsComeFrom ==
  ASSUME BufferTyped, BufferTyped', ITerm, NEW s \in Sessions
  PROVE  \A n \in 1 .. Len(rows'[s]) :
           \/ rows'[s][n] = Blank
           \/ rows'[s][n] = writes + 1 /\ writes' = writes + 1
           \/ \E m \in 1 .. Len(rows[s]) : WasRow(s, n, m)
<1>0. PICK o, o2, p, q : o = overflow[s] /\ o2 = overflow'[s] /\ p = rows[s] /\ q = rows'[s]
  OBVIOUS
<1>1. /\ o \in Nat /\ o2 \in Nat /\ Len(p) \in Nat \ {0} /\ Len(q) \in Nat \ {0}
      /\ p \in Seq(0 .. MaxWrites) /\ p # <<>> /\ TailLines \in Nat \ {0}
  <2>1. \A x \in Seq(0 .. MaxWrites) : x # <<>> => Len(x) \in Nat \ {0}
    OBVIOUS
  <2> QED BY <1>0, <2>1, WatcherAssumption DEF BufferTyped
<1>tail. /\ TailRows(s) = {n \in 1 .. Len(p) : n > Len(p) - TailLines}
         /\ TailRows(s)' = {n \in 1 .. Len(q) : n > Len(q) - TailLines}
  BY <1>0 DEF TailRows
<1>last. LastValid(s) = o + Len(p) - 1 /\ LastValid(s)' = o2 + Len(q) - 1
  BY <1>0 DEF LastValid
<1>was. ASSUME NEW n \in 1 .. Len(q), NEW m \in 1 .. Len(p),
               q[n] = p[m], s \in open' => s \in open,
               n > Len(q) - TailLines => m > Len(p) - TailLines,
               \/ o2 + Len(q) < o + Len(p) /\ m > Len(p) - TailLines
               \/ o2 + Len(q) >= o + Len(p) /\ o2 + n = o + m
        PROVE  WasRow(s, n, m)
  <2>1. n \in TailRows(s)' => m \in TailRows(s)
    BY <1>tail, <1>was
  <2>2. CASE o2 + Len(q) < o + Len(p) /\ m > Len(p) - TailLines
    <3>1. m \in TailRows(s) /\ LastValid(s)' < LastValid(s)
      BY <1>1, <1>tail, <1>last, <2>2
    <3> QED BY <1>0, <1>was, <2>1, <3>1 DEF WasRow
  <2>3. CASE o2 + Len(q) >= o + Len(p) /\ o2 + n = o + m
    <3>1. ~(LastValid(s)' < LastValid(s))
      BY <1>1, <1>last, <2>3
    <3> QED BY <1>0, <1>was, <2>1, <2>3, <3>1 DEF WasRow
  <2> QED BY <1>was, <2>2, <2>3
<1> SUFFICES ASSUME NEW n \in 1 .. Len(q)
             PROVE  \/ q[n] = Blank
                    \/ q[n] = writes + 1 /\ writes' = writes + 1
                    \/ \E m \in 1 .. Len(p) : WasRow(s, n, m)
  BY <1>0
<1>2. CASE q = p /\ o2 = o /\ (s \in open' => s \in open)
  <2>1. n \in 1 .. Len(p) /\ q[n] = p[n] /\ o2 + Len(q) >= o + Len(p) /\ o2 + n = o + n
    BY <1>1, <1>2
  <2>2. n > Len(q) - TailLines => n > Len(p) - TailLines
    BY <1>2
  <2> QED BY <1>2, <1>was, <2>1, <2>2
<1>3. CASE q = <<Blank>>
  BY <1>3
<1>4. CASE s \in open /\ writes' = writes + 1 /\ o2 = o /\ q = [p EXCEPT ![Len(p)] = writes + 1]
  <2>1. Len(q) = Len(p) /\ (q[n] = writes + 1 \/ q[n] = p[n])
    BY <1>1, <1>4
  <2>2. /\ n \in 1 .. Len(p) /\ o2 + Len(q) >= o + Len(p) /\ o2 + n = o + n
        /\ n > Len(q) - TailLines => n > Len(p) - TailLines
    <3>1. o2 = o
      BY <1>4
    <3> QED BY <1>1, <2>1, <3>1
  <2> QED BY <1>4, <1>was, <2>1, <2>2
<1>5. CASE s \in open /\ o2 = o /\ q = Append(p, Blank)
  <2>1. Len(q) = Len(p) + 1 /\ (q[n] = Blank \/ (n \in 1 .. Len(p) /\ q[n] = p[n]))
    BY <1>1, <1>5
  <2>2. n \in 1 .. Len(p) =>
           /\ o2 + Len(q) >= o + Len(p) /\ o2 + n = o + n
           /\ n > Len(q) - TailLines => n > Len(p) - TailLines
    BY <1>1, <1>5, <2>1
  <2> QED BY <1>5, <1>was, <2>1, <2>2
<1>6. CASE s \in open /\ o2 = o + 1 /\ q = Append(Tail(p), Blank)
  <2>1. Len(q) = Len(p) /\ (q[n] = Blank \/ (n + 1 \in 1 .. Len(p) /\ q[n] = p[n + 1]))
    BY <1>1, <1>6
  <2>2. /\ o2 + Len(q) >= o + Len(p) /\ o2 + n = o + (n + 1)
        /\ n > Len(q) - TailLines => n + 1 > Len(p) - TailLines
    <3>1. o2 = o + 1
      BY <1>6
    <3> QED BY <1>1, <2>1, <3>1
  <2> QED BY <1>6, <1>was, <2>1, <2>2
<1>7. CASE s \in open /\ Len(p) > 1 /\ o2 \in {o, o + Len(p) - 1} /\ q = <<p[Len(p)]>>
  <2>1. Len(q) = 1 /\ n = 1 /\ q[n] = p[Len(p)] /\ Len(p) \in 1 .. Len(p)
    BY <1>1, <1>7
  <2>2. /\ Len(p) > Len(p) - TailLines
        /\ \/ o2 + Len(q) < o + Len(p)
           \/ o2 + Len(q) >= o + Len(p) /\ o2 + n = o + Len(p)
    BY <1>1, <1>7, <2>1
  <2> QED BY <1>7, <1>was, <2>1, <2>2
<1> QED BY <1>0, RowsMove, <1>2, <1>3, <1>4, <1>5, <1>6, <1>7

\* The rows that are read are those from the number on that a read begins with.
LEMMA TailNumbers ==
  ASSUME BufferTyped, NEW s \in Sessions
  PROVE  /\ TailFirst(s) \in Nat /\ LastValid(s) \in Int
         /\ \A n \in 1 .. Len(rows[s]) :
              IF n \in TailRows(s) THEN overflow[s] + n - 1 \in TailFirst(s) .. LastValid(s)
              ELSE overflow[s] + n - 1 < TailFirst(s)
<1>0. PICK o, l : o = overflow[s] /\ l = Len(rows[s])
  OBVIOUS
<1>1. o \in Nat /\ l \in Nat /\ TailLines \in Nat \ {0}
  BY <1>0, WatcherAssumption DEF BufferTyped
<1>2. PICK first, last : first = TailFirst(s) /\ last = LastValid(s)
  OBVIOUS
<1>3. /\ last = o + l - 1
      /\ first = o + (IF l > TailLines THEN l - TailLines ELSE 0)
      /\ TailRows(s) = {n \in 1 .. l : n > l - TailLines}
  BY <1>0, <1>2 DEF TailFirst, LastValid, TailRows
<1>4. first \in Nat /\ last \in Int
  BY <1>1, <1>3
<1>5. ASSUME NEW n \in 1 .. l
      PROVE  IF n \in TailRows(s) THEN o + n - 1 \in first .. last ELSE o + n - 1 < first
  BY <1>1, <1>3
<1> QED BY <1>0, <1>2, <1>4, <1>5

LEMMA ITermMovesKeeps ==
  ASSUME WatchInv, ITermMoves
  PROVE  WatchInv'
<1> USE DEF WatchInv
<1>0. ITerm /\ UNCHANGED <<reading, states, told, hiccup, repeated>>
  BY DEF ITermMoves
<1>1. BufferTyped'
  BY <1>0, ITermTyped
<1>sp. /\ span' \in [first : Nat, last : Int, slid : BOOLEAN]
       /\ span'.first = span.first /\ span'.last = span.last
       /\ \A s \in Sessions :
            reading = s /\ ~span'.slid => ~span.slid /\ ~(LastValid(s)' < LastValid(s))
  <2>1. PICK b \in BOOLEAN : b = \E s \in Sessions : reading = s /\ Renumbered(s)
    BY Zenon
  <2>2. span' = [span EXCEPT !.slid = span.slid \/ b]
    BY <2>1, Zenon DEF ITermMoves
  <2>3. span \in [first : Nat, last : Int, slid : BOOLEAN]
    BY DEF WatcherTyped
  <2>4. /\ span' \in [first : Nat, last : Int, slid : BOOLEAN]
        /\ span'.first = span.first /\ span'.last = span.last
        /\ ~span'.slid => ~span.slid /\ ~b
    BY <2>2, <2>3
  <2>5. \A s \in Sessions : reading = s /\ ~b => ~(LastValid(s)' < LastValid(s))
    BY <2>1, Zenon DEF Renumbered
  <2> QED BY <2>4, <2>5
<1>2. WatcherTyped' /\ ~repeated'
  BY <1>0, <1>sp DEF WatcherTyped
<1>num. writes \in Nat /\ writes' \in Nat
        /\ \A s \in Sessions : told[s] \in Nat /\ told[s] <= writes
  <2>1. writes \in Nat /\ writes' \in Nat
    BY <1>1 DEF BufferTyped
  <2>2. \A s \in Sessions : told[s] \in Nat
    <3>1. PromptWrites \cup {Blank} \subseteq Nat
      OBVIOUS
    <3> QED BY <3>1, Zenon DEF WatcherTyped
  <2> QED BY <2>1, <2>2 DEF HeldInv
<1>3. HeldInv'
  <2> SUFFICES ASSUME NEW s \in Sessions
               PROVE  told[s] <= writes' /\ \A n \in 1 .. Len(rows'[s]) : rows'[s][n] <= writes'
    BY <1>0 DEF HeldInv
  <2>1. writes' \in {writes, writes + 1}
    BY <1>0, RowsMove
  <2>2. told[s] <= writes'
    BY <1>num, <2>1
  <2>3. \A m \in 1 .. Len(rows[s]) : rows[s][m] \in Nat /\ rows[s][m] <= writes
    BY DEF BufferTyped, HeldInv
  <2>4. ASSUME NEW n \in 1 .. Len(rows'[s])
        PROVE  rows'[s][n] <= writes'
    <3>1. \/ rows'[s][n] = Blank
          \/ rows'[s][n] = writes + 1 /\ writes' = writes + 1
          \/ \E m \in 1 .. Len(rows[s]) : rows'[s][n] = rows[s][m]
      BY <1>0, <1>1, RowsComeFrom DEF WasRow
    <3> QED BY <1>num, <2>1, <2>3, <3>1
  <2> QED BY <2>2, <2>4
<1>len. \A s \in Sessions : Len(rows[s]) \in Nat /\ Len(rows'[s]) \in Nat
  BY <1>1 DEF BufferTyped
<1>from. ASSUME NEW s \in Sessions, told[s] # Blank, NEW n \in 1 .. Len(rows'[s]),
                rows'[s][n] = told[s]
         PROVE  \E m \in 1 .. Len(rows[s]) : WasRow(s, n, m) /\ rows[s][m] = told[s]
  <2>1. told[s] # writes + 1
    BY <1>num
  <2> QED BY <1>0, <1>1, <1>from, <2>1, RowsComeFrom DEF WasRow
<1>4. GoneInv'
  <2> SUFFICES ASSUME NEW s \in open', states[s] # "waiting", ~hiccup[s], told[s] # Blank,
                      NEW n \in 1 .. Len(rows'[s]), rows'[s][n] = told[s]
               PROVE  /\ n \notin TailRows(s)'
                      /\ reading = s => overflow'[s] + n - 1 < span.first
    BY <1>0, <1>sp DEF GoneInv, Gone
  <2>1. s \in Sessions
    BY <1>1 DEF BufferTyped
  <2>2. PICK m \in 1 .. Len(rows[s]) : WasRow(s, n, m) /\ rows[s][m] = told[s]
    BY <1>from, <2>1
  <2>3. s \in open
    BY <2>2 DEF WasRow
  <2>4. m \notin TailRows(s) /\ (reading = s => overflow[s] + m - 1 < span.first)
    BY <2>2, <2>3 DEF GoneInv, Gone
  <2>5. n \notin TailRows(s)'
    BY <2>2, <2>4 DEF WasRow
  <2>8. overflow'[s] + n = overflow[s] + m
    BY <2>2, <2>4 DEF WasRow
  <2>6. overflow[s] \in Nat /\ overflow'[s] \in Nat
    BY <1>1, <2>1 DEF BufferTyped
  <2>7. overflow'[s] + n - 1 = overflow[s] + m - 1
    <3>1. PICK i, j \in Int : i = n /\ j = m
      BY <1>len, <2>1, <2>2
    <3>2. PICK o, p \in Nat : o = overflow[s] /\ p = overflow'[s]
      BY <2>6
    <3>3. p + i = o + j
      BY <2>8, <3>1, <3>2
    <3>4. p + i - 1 = o + j - 1
      BY <3>3
    <3> QED BY <3>1, <3>2, <3>4
  <2> QED BY <2>4, <2>5, <2>7
<1>5. PeekInv'
  <2> SUFFICES ASSUME NEW s \in open', reading = s, ~span'.slid, told[s] # Blank,
                      NEW n \in TailRows(s)', rows'[s][n] = told[s]
               PROVE  overflow'[s] + n - 1 \in span.first .. span.last
    BY <1>0, <1>sp DEF PeekInv, Asked
  <2>1. s \in Sessions
    BY <1>1 DEF BufferTyped
  <2>2. n \in 1 .. Len(rows'[s])
    BY DEF TailRows
  <2>3. PICK m \in 1 .. Len(rows[s]) : WasRow(s, n, m) /\ rows[s][m] = told[s]
    BY <1>from, <2>1, <2>2
  <2>4. m \in TailRows(s) /\ s \in open /\ ~span.slid
    BY <1>sp, <2>1, <2>3 DEF WasRow
  <2>8. overflow'[s] + n = overflow[s] + m
    BY <1>sp, <2>1, <2>3 DEF WasRow
  <2>5. overflow[s] + m - 1 \in span.first .. span.last
    BY <2>3, <2>4 DEF PeekInv, Asked
  <2>6. overflow[s] \in Nat /\ overflow'[s] \in Nat
    BY <1>1, <2>1 DEF BufferTyped
  <2>7. overflow'[s] + n - 1 = overflow[s] + m - 1
    <3>1. PICK i, j \in Int : i = n /\ j = m
      BY <1>len, <2>1, <2>2, <2>3
    <3>2. PICK o, p \in Nat : o = overflow[s] /\ p = overflow'[s]
      BY <2>6
    <3>3. p + i = o + j
      BY <2>8, <3>1, <3>2
    <3>4. p + i - 1 = o + j - 1
      BY <3>3
    <3> QED BY <3>1, <3>2, <3>4
  <2> QED BY <2>5, <2>7
<1> QED BY <1>1, <1>2, <1>3, <1>4, <1>5

\* Steps that leave the buffers alone leave the tails alone.
LEMMA TailKept ==
  ASSUME BufferTyped, Kept
  PROVE  /\ BufferTyped' /\ \A t : TailRows(t)' = TailRows(t)
         /\ \A t, w : Gone(t, w) /\ reading' # t => Gone(t, w)'
         /\ \A t, w : Gone(t, w) /\ UNCHANGED readVars => Gone(t, w)'
<1>1. BufferTyped' /\ \A t : TailRows(t)' = TailRows(t)
  BY BufferKept DEF Kept, TailRows
<1> QED BY <1>1 DEF Gone, Kept, readVars

\* Steps that leave the buffers and what the watcher knows alone.
LEMMA WatchKept ==
  ASSUME WatchInv, Kept, UNCHANGED <<readVars, states, told, hiccup, repeated>>
  PROVE  WatchInv'
<1> USE DEF WatchInv
<1>1. BufferTyped' /\ \A t : TailRows(t)' = TailRows(t)
  BY TailKept
<1>2. WatcherTyped' /\ HeldInv' /\ ~repeated'
  BY DEF WatcherTyped, HeldInv, Kept, readVars
<1>3. GoneInv'
  BY TailKept DEF GoneInv, Kept
<1>4. PeekInv'
  BY <1>1 DEF PeekInv, Asked, Kept, readVars
<1> QED BY <1>1, <1>2, <1>3, <1>4

LEMMA ReadBeginsKeeps ==
  ASSUME WatchInv, NEW s \in Sessions, ReadLineInfo(s)
  PROVE  WatchInv'
<1> USE DEF WatchInv
<1>0. /\ Kept /\ UNCHANGED <<states, told, hiccup, repeated>>
      /\ reading' = s
      /\ span' = [first |-> TailFirst(s), last |-> LastValid(s), slid |-> FALSE]
  BY DEF ReadLineInfo, Kept
<1>1. BufferTyped' /\ \A t : TailRows(t)' = TailRows(t)
  BY <1>0, TailKept
<1>2. TailFirst(s) \in Nat /\ LastValid(s) \in Int
  BY TailNumbers
<1>3. PICK first \in Nat, last \in Int : first = TailFirst(s) /\ last = LastValid(s)
  BY <1>2
<1>4. span' = [first |-> first, last |-> last, slid |-> FALSE]
  BY <1>0, <1>3
<1>5. WatcherTyped' /\ HeldInv' /\ ~repeated'
  BY <1>0, <1>4 DEF WatcherTyped, HeldInv, Kept
<1>6. \A n \in 1 .. Len(rows[s]) :
        IF n \in TailRows(s) THEN overflow[s] + n - 1 \in first .. last
        ELSE overflow[s] + n - 1 < first
  BY <1>3, TailNumbers
<1>7. GoneInv'
  <2> SUFFICES ASSUME NEW t \in open, Gone(t, told[t])
               PROVE  Gone(t, told[t])'
    BY <1>0 DEF GoneInv, Kept
  <2>1. CASE t # s
    BY <1>0, <2>1, TailKept
  <2>2. CASE t = s
    <3>1. \A n \in 1 .. Len(rows[s]) :
            rows[s][n] = told[s] => n \notin TailRows(s) /\ overflow[s] + n - 1 < first
      BY <1>6, <2>2 DEF Gone
    <3> QED BY <1>0, <1>1, <1>4, <2>2, <3>1 DEF Gone, Kept
  <2> QED BY <2>1, <2>2
<1>8. PeekInv'
  <2>1. \A n \in TailRows(s) : overflow[s] + n - 1 \in first .. last
    BY <1>6 DEF TailRows
  <2> QED BY <1>0, <1>1, <1>4, <2>1 DEF PeekInv, Asked, Kept
<1> QED BY <1>1, <1>5, <1>7, <1>8

LEMMA ReadEndsKeeps ==
  ASSUME WatchInv, NEW s \in Sessions,
         ReadPrompt(s) \/ ReadNone(s) \/ ReadError(s) \/ ReadRaises(s)
  PROVE  WatchInv'
<1> USE DEF WatchInv
<1>0. Kept /\ reading' = None /\ span' = NoSpan
  BY DEF ReadPrompt, ReadNone, ReadError, ReadRaises, Ends, Kept
<1>n. \A t \in Sessions : reading' # t
  BY <1>0, WatcherAssumption
<1>1. BufferTyped' /\ PeekInv'
  <2>1. BufferTyped'
    BY <1>0, TailKept
  <2>2. open' \subseteq Sessions
    BY <2>1 DEF BufferTyped
  <2> QED BY <1>n, <2>1, <2>2 DEF PeekInv
<1>2. /\ reading' \in Sessions \cup {None}
      /\ span' \in [first : Nat, last : Int, slid : BOOLEAN]
  BY <1>0 DEF NoSpan
<1>3. \A t \in open : \A w : Gone(t, w) => Gone(t, w)'
  BY <1>0, <1>n, TailKept DEF BufferTyped
<1>4. CASE /\ Text(s) /\ Found(s) # Blank /\ Fresh(s)
           /\ states'   = [states EXCEPT ![s] = "waiting"]
           /\ told'     = [told EXCEPT ![s] = Found(s)]
           /\ repeated' = (repeated \/ (told[s] = Found(s) /\ ~hiccup[s]))
           /\ hiccup'   = [hiccup EXCEPT ![s] = FALSE]
  <2>f. PICK f : f = Found(s)
    OBVIOUS
  <2>1. PICK b \in BOOLEAN : f = Found(s) /\ b = (told[s] = f /\ ~hiccup[s])
    BY <2>f
  <2>2. /\ f \in PromptWrites
        /\ \E n \in 1 .. Len(rows[s]) : rows[s][n] = f /\ span.first <= overflow[s] + n - 1
    <3>1. PICK rws : rws = Rows(s, span.first, span.last)
      OBVIOUS
    <3>2. span.first \in Nat /\ span.last \in Int
      BY DEF WatcherTyped
    <3>3. /\ \E m \in Nat : rws \subseteq (0 .. m) \X (0 .. MaxWrites)
          /\ \A x \in rws : \E n \in 1 .. Len(rows[s]) :
               x = <<overflow[s] + n - 1, rows[s][n]>> /\ span.first <= overflow[s] + n - 1
      BY <3>1, <3>2, RowsRead
    <3>4. f = PromptIn(rws) /\ f # Blank
      BY <1>4, <2>1, <3>1 DEF Found
    <3>5. f \in PromptWrites /\ \E x \in rws : x[2] = f
      BY <3>3, <3>4, PromptFound
    <3> QED BY <3>3, <3>5
  <2>3. PICK n \in 1 .. Len(rows[s]) : rows[s][n] = f /\ span.first <= overflow[s] + n - 1
    BY <2>2
  <2>4. s \in open /\ reading = s /\ states[s] # "waiting" /\ f # Blank
    BY <1>4, <2>1 DEF Text, Fresh
  <2>5. ~b
    <3> SUFFICES ASSUME told[s] = f, ~hiccup[s] PROVE FALSE
      BY <2>1
    <3>1. overflow[s] + n - 1 < span.first
      BY <2>3, <2>4 DEF GoneInv, Gone
    <3>2. overflow[s] \in Nat /\ span.first \in Nat
      BY DEF BufferTyped, WatcherTyped
    <3> QED BY <2>3, <3>1, <3>2
  <2>6. ~repeated'
    BY <1>4, <2>1, <2>5
  <2>7. WatcherTyped'
    BY <1>2, <1>4, <2>1, <2>2 DEF WatcherTyped
  <2>8. f <= writes
    BY <2>3 DEF HeldInv
  <2>9. HeldInv'
    BY <1>0, <1>4, <2>1, <2>8 DEF HeldInv, Kept, WatcherTyped
  <2>10. GoneInv'
    <3> SUFFICES ASSUME NEW t \in open, NEW w, states'[t] # "waiting", ~hiccup'[t],
                        w # Blank, w = told'[t]
                 PROVE  Gone(t, w)'
      BY <1>0 DEF GoneInv, Kept
    <3>1. t \in Sessions /\ t # s
      BY <1>4 DEF BufferTyped, WatcherTyped
    <3>2. states'[t] = states[t] /\ told'[t] = told[t] /\ hiccup'[t] = hiccup[t]
      BY <1>4, <3>1 DEF WatcherTyped
    <3> QED BY <1>3, <3>2 DEF GoneInv
  <2> QED BY <1>1, <2>6, <2>7, <2>9, <2>10
<1>5. CASE UNCHANGED <<states, told, repeated, hiccup>>
  <2>1. WatcherTyped' /\ HeldInv' /\ ~repeated'
    BY <1>0, <1>2, <1>5 DEF WatcherTyped, HeldInv, Kept
  <2>2. GoneInv'
    BY <1>0, <1>3, <1>5 DEF GoneInv, Kept
  <2> QED BY <1>1, <2>1, <2>2
<1>6. ASSUME states' = Idle(s), UNCHANGED <<told, repeated>>,
             NEW b \in BOOLEAN, hiccup' = [hiccup EXCEPT ![s] = b],
             b \/ told[s] = Blank \/ \A n \in TailRows(s) : rows[s][n] # told[s]
      PROVE  WatchInv'
  <2>1. WatcherTyped'
    BY <1>2, <1>6 DEF WatcherTyped, Idle
  <2>2. HeldInv' /\ ~repeated'
    BY <1>0, <1>6 DEF HeldInv, Kept
  <2>3. GoneInv'
    <3> SUFFICES ASSUME NEW t \in open, states'[t] # "waiting", ~hiccup'[t], told[t] # Blank
                 PROVE  Gone(t, told[t])'
      BY <1>0, <1>6 DEF GoneInv, Kept
    <3>1. t \in Sessions
      BY DEF BufferTyped
    <3>2. PICK w : w = told[t]
      OBVIOUS
    <3>3. CASE t = s
      <4>1. \A n \in TailRows(t) : rows[t][n] # w
        BY <1>6, <3>2, <3>3 DEF WatcherTyped
      <4>2. Gone(t, w)'
        BY <1>0, <1>n, <3>1, <4>1, TailKept DEF Gone, Kept
      <4> QED BY <1>6, <3>2, <4>2
    <3>4. CASE t # s
      <4>1. states[t] # "waiting" /\ ~hiccup[t]
        BY <1>6, <3>1, <3>4 DEF Idle, WatcherTyped
      <4>2. Gone(t, w)'
        BY <1>3, <3>2, <4>1 DEF GoneInv
      <4> QED BY <1>6, <3>2, <4>2
    <3> QED BY <3>3, <3>4
  <2> QED BY <1>1, <2>1, <2>2, <2>3
<1>7. CASE ReadPrompt(s)
  <2>1. CASE Fresh(s)
    BY <1>4, <1>7, <2>1 DEF ReadPrompt
  <2>2. CASE ~Fresh(s)
    BY <1>5, <1>7, <2>2 DEF ReadPrompt
  <2> QED BY <2>1, <2>2
<1>8. CASE ReadNone(s)
  <2>1. PICK b \in BOOLEAN : b = (hiccup[s] \/ span.slid)
    OBVIOUS
  <2>2. /\ states' = Idle(s) /\ UNCHANGED <<told, repeated>>
        /\ hiccup' = [hiccup EXCEPT ![s] = b]
    BY <1>8, <2>1 DEF ReadNone
  <2>3. ASSUME ~b, told[s] # Blank, NEW n \in TailRows(s), rows[s][n] = told[s]
        PROVE  FALSE
    <3>1. s \in open /\ reading = s /\ ~span.slid
      BY <1>8, <2>1, <2>3 DEF ReadNone, Text
    <3>2. overflow[s] + n - 1 \in span.first .. span.last /\ n \in 1 .. Len(rows[s])
      BY <2>3, <3>1 DEF PeekInv, Asked, TailRows
    <3>3. PICK rws : rws = Rows(s, span.first, span.last)
      OBVIOUS
    <3>4. span.first \in Nat /\ span.last \in Int
      BY DEF WatcherTyped
    <3>5. /\ \E m \in Nat : rws \subseteq (0 .. m) \X (0 .. MaxWrites)
          /\ <<overflow[s] + n - 1, rows[s][n]>> \in rws
      BY <3>2, <3>3, <3>4, RowsRead
    <3>6. PromptIn(rws) = Blank
      BY <1>8, <3>3 DEF ReadNone, Found
    <3>7. \A x \in rws : x[2] \notin PromptWrites
      BY <3>5, <3>6, PromptFound
    <3>8. rows[s][n] \notin PromptWrites
      BY <3>5, <3>7
    <3> QED BY <2>3, <3>8 DEF WatcherTyped
  <2> QED BY <1>6, <2>2, <2>3
<1>9. CASE ReadError(s)
  BY <1>6, <1>9 DEF ReadError
<1>10. CASE ReadRaises(s)
  BY <1>5, <1>10 DEF ReadRaises, Skipped
<1> QED BY <1>7, <1>8, <1>9, <1>10

LEMMA PollEndKeeps ==
  ASSUME WatchInv, PollEnds
  PROVE  WatchInv'
<1> USE DEF WatchInv
<1>0. Kept /\ UNCHANGED <<readVars, told, repeated>>
  BY DEF PollEnds, Kept
<1>1. BufferTyped' /\ \A t : TailRows(t)' = TailRows(t)
  BY <1>0, TailKept
<1>2. WatcherTyped' /\ HeldInv' /\ ~repeated'
  <2>1. WatcherTyped'
    BY <1>0 DEF PollEnds, WatcherTyped, readVars
  <2> QED BY <1>0, <2>1 DEF HeldInv, Kept
<1>3. GoneInv'
  <2> SUFFICES ASSUME NEW t \in open, states'[t] # "waiting", ~hiccup'[t], told[t] # Blank
               PROVE  Gone(t, told[t])'
    BY <1>0 DEF GoneInv, Kept
  <2>1. t \in Sessions
    BY DEF BufferTyped
  <2>2. states[t] # "waiting" /\ ~hiccup[t]
    BY <2>1 DEF PollEnds
  <2>3. PICK w : w = told[t]
    OBVIOUS
  <2>4. Gone(t, w)'
    BY <1>0, <2>2, <2>3, TailKept DEF GoneInv
  <2> QED BY <1>0, <2>3, <2>4
<1>4. PeekInv'
  BY <1>0, <1>1 DEF PeekInv, Asked, Kept, readVars
<1> QED BY <1>1, <1>2, <1>3, <1>4

LEMMA WatchInit == WatcherInit => WatchInv
<1> SUFFICES ASSUME WatcherInit PROVE WatchInv
  OBVIOUS
<1> USE DEF WatcherInit, ITermInit
<1>1. BufferTyped
  <2>1. <<Blank>> \in Seq(0 .. MaxWrites) /\ <<Blank>> # <<>>
    OBVIOUS
  <2> QED BY <2>1 DEF BufferTyped
<1> QED BY <1>1 DEF WatchInv, WatcherTyped, HeldInv, GoneInv, PeekInv, NoSpan

LEMMA WatchStep == WatchInv /\ [WatcherNext]_allVars => WatchInv'
<1> SUFFICES ASSUME WatchInv, [WatcherNext]_allVars
             PROVE  WatchInv'
  OBVIOUS
<1>1. CASE ITermMoves
  BY <1>1, ITermMovesKeeps
<1>2. CASE PollLists \/ PollFails
  BY <1>2, WatchKept DEF PollLists, PollFails, Kept, watcherVars
<1>3. CASE PollEnds
  BY <1>3, PollEndKeeps
<1>4. ASSUME NEW s \in Sessions, Read(s)
      PROVE  WatchInv'
  BY <1>4, ReadBeginsKeeps, ReadEndsKeeps DEF Read
<1>5. CASE Ask \/ TakeList \/ (\E l \in lists : ShowList(l))
  BY <1>5, WatchKept DEF Ask, TakeList, ShowList, Kept, itermVars, watcherVars
<1>6. CASE UNCHANGED allVars
  BY <1>6, WatchKept DEF allVars, Kept, itermVars, watcherVars
<1> QED BY <1>1, <1>2, <1>3, <1>4, <1>5, <1>6 DEF WatcherNext, WatcherStep, Poll

\* A prompt that stays on the screen is announced once, for any number of sessions, rounds,
\* writes, clears and lost connections between any two awaits, but for the three reasons
\* AnnouncedOnce names (SessionWatcher.poll_once, read_session).
THEOREM OneAnnouncement == WatcherSpec => []AnnouncedOnce
<1>1. WatcherInit => WatchInv
  BY WatchInit
<1>2. WatchInv /\ [WatcherNext]_allVars => WatchInv'
  BY WatchStep
<1>3. WatchInv => AnnouncedOnce
  BY DEF WatchInv, AnnouncedOnce
<1> QED BY <1>1, <1>2, <1>3, PTL DEF WatcherSpec
=============================================================================
