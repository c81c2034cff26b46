--------------------------- MODULE LivePageProofs ---------------------------
(***************************************************************************)
(* Proofs about LivePage: what is shown and what is still to be shown make *)
(* up one stretch of consecutive events, and a page that plays comes       *)
(* nearer to the end of its list with every frame.                         *)
(*                                                                         *)
(* The first is not inductive.  An event that arrives continues the        *)
(* timeline only if that ends with the event before it, and a scene that   *)
(* is emptied starts again with the list, which has to be consecutive by   *)
(* itself.  Sound says both, of a page and of the number the server will   *)
(* give to its next event; each function of the page keeps it.             *)
(***************************************************************************)
EXTENDS LivePage, SequenceTheorems, WellFoundedInduction, TLAPS

Marks == {"stepped back", "dropped", "loaded"}
Shown == [run : Nat, n : Nat, note : BOOLEAN, dt : Int]
Incoming == [run : Nat, n : Nat, note : BOOLEAN, time : Int]
Page == [events : Seq(Shown), t0 : Int, T : Int, nextIdx : Nat, simNow : Int, playing : BOOLEAN,
         frames : Int, snapshotActive : BOOLEAN, snapshotApplied : BOOLEAN, capped : BOOLEAN,
         ready : BOOLEAN, shown : Seq(Shown), marred : SUBSET Marks]
Session == [stage : {"closed", "idle", "started", "snapshot", "events", "audited"},
            run : Nat, n : Nat, top : Int]

\* The consecutive events s are followed by the next one of the run, if the run
\* goes on.
UpTo(s, mid, run, n) ==
  /\ Consecutive(s)
  /\ mid /\ s # <<>> => s[Len(s)].run = run /\ s[Len(s)].n = n - 1

Sound(p, mid, run, n) ==
  /\ p \in Page
  /\ mid \/ p.events # <<>> => p.nextIdx <= Len(p.events)
  /\ "loaded" \notin p.marred => UpTo(p.events, mid, run, n)
  /\ p.marred = {} => UpTo(Timeline(p), mid, run, n)

Mid == session.stage \in {"snapshot", "events"}
Inv ==
  /\ session \in Session
  /\ Sound(page, Mid, session.run, session.n)
  /\ session.stage = "snapshot" => page.snapshotActive
  /\ session.stage = "events" => ~page.snapshotActive

-----------------------------------------------------------------------------
(* Numbers *)

LEMMA LargestExists ==
  ASSUME NEW n \in Nat, NEW S \in SUBSET (0..n), S # {}
  PROVE  \E x \in S : \A y \in S : x >= y
<1> DEFINE T == {n - x : x \in S}
<1>1. T \subseteq Nat /\ T # {}
  <2>1. \A x \in S : n - x \in Nat
    OBVIOUS
  <2>2. PICK x \in S : TRUE
    OBVIOUS
  <2> QED BY <2>1, <2>2
<1>2. PICK t \in T : \A u \in T : ~ (<<u, t>> \in OpToRel(<, Nat))
  <2> HIDE DEF T
  <2> QED BY <1>1, NatLessThanWellFounded, WFMin
<1>3. \A u \in T : u >= t
  <2> HIDE DEF T
  <2>1. TAKE u \in T
  <2>2. u < t => <<u, t>> \in OpToRel(<, Nat)
    BY <1>1, <2>1, Zenon DEF OpToRel
  <2>3. ~ (u < t)
    BY <1>2, <2>1, <2>2, Zenon
  <2>4. u \in Nat /\ t \in Nat
    BY <1>1, <1>2, <2>1, Zenon
  <2> QED BY <2>3, <2>4
<1>4. PICK x \in S : t = n - x
  OBVIOUS
<1>5. \A y \in S : x >= y
  <2>1. TAKE y \in S
  <2>2. n - y \in T
    OBVIOUS
  <2>3. n - y >= t
    BY <2>2, <1>3
  <2> QED BY <2>3, <1>4
<1> QED BY <1>5

\* The largest element is an element.
LEMMA MaxIsMember ==
  ASSUME NEW n \in Nat, NEW S \in SUBSET (0..n), S # {}
  PROVE  Max(S) \in S
BY LargestExists DEF Max

LEMMA MaxOfPair ==
  ASSUME NEW a \in Int, NEW b \in Int
  PROVE  Max({a, b}) = IF a > b THEN a ELSE b
<1>1. CASE a > b
  BY <1>1 DEF Max
<1>2. CASE ~ (a > b)
  BY <1>2 DEF Max
<1> QED BY <1>1, <1>2

\* Events that are due are events of the list after idx.
LEMMA DueWithin ==
  ASSUME NEW p \in Page, NEW idx \in Nat, NEW limit
  PROVE  Due(p, idx, limit) \in Nat /\ (Due(p, idx, limit) = 0 \/ idx + Due(p, idx, limit) <= Len(p.events))
<1> DEFINE S == {k \in 0..Len(p.events) :
                   \A i \in 1..k : idx + i <= Len(p.events) /\ p.events[idx + i].dt <= limit}
<1>1. Len(p.events) \in Nat
  BY DEF Page
<1>2. 0 \in S
  BY <1>1
<1>3. Max(S) \in S
  <2>1. S \in SUBSET (0..Len(p.events)) /\ S # {}
    BY <1>2
  <2> HIDE DEF S
  <2> QED BY <1>1, <2>1, MaxIsMember
<1>4. \A k \in S : k \in Nat /\ (k = 0 \/ idx + k <= Len(p.events))
  BY <1>1
<1> QED BY <1>3, <1>4 DEF Due

LEMMA PortionWithin ==
  ASSUME NEW p, NEW due \in Nat
  PROVE  Portion(p, due) \in 0..due
<1> DEFINE S == {k \in 0..Least(due, Batch) : \A i \in 1..k - 1 : ~p.events[p.nextIdx + i].note}
<1>1. Least(due, Batch) \in 0..due
  BY LivePageAssumption DEF Least
<1>2. 0 \in S
  BY <1>1
<1>3. Max(S) \in S
  <2>1. Least(due, Batch) \in Nat /\ S \in SUBSET (0..Least(due, Batch)) /\ S # {}
    BY <1>1, <1>2
  <2> HIDE DEF S
  <2> QED BY <2>1, MaxIsMember
<1> QED BY <1>1, <1>3 DEF Portion

-----------------------------------------------------------------------------
(* Sequences of events *)

LEMMA TimelineType ==
  ASSUME NEW p \in Page
  PROVE  /\ Timeline(p) \in Seq(Shown)
         /\ SubSeq(p.events, p.nextIdx + 1, Len(p.events)) \in Seq(Shown)
<1> p.events \in Seq(Shown) /\ p.shown \in Seq(Shown) /\ p.nextIdx \in Nat
  BY DEF Page
<1>1. \A i \in p.nextIdx + 1..Len(p.events) : p.events[i] \in Shown
  BY ElementOfSeq
<1>2. SubSeq(p.events, p.nextIdx + 1, Len(p.events)) \in Seq(Shown)
  BY <1>1, SubSeqProperties
<1> QED BY <1>2, ConcatProperties DEF Timeline

\* Firing moves events from one part of the timeline to the other.
LEMMA FireKeepsTimeline ==
  ASSUME NEW p \in Page, NEW k \in Nat, k = 0 \/ p.nextIdx + k <= Len(p.events)
  PROVE  /\ Fire(p, k) \in Page
         /\ Timeline(Fire(p, k)) = Timeline(p)
         /\ Fire(p, k) = [p EXCEPT !.nextIdx = p.nextIdx + k, !.shown = Fire(p, k).shown]
<1> DEFINE e == p.events
           i == p.nextIdx
           now == SubSeq(e, i + 1, i + k)
           rest == SubSeq(e, i + k + 1, Len(e))
<1>0. e \in Seq(Shown) /\ p.shown \in Seq(Shown) /\ i \in Nat /\ Len(e) \in Nat
      /\ (k = 0 \/ i + k <= Len(e))
  BY DEF Page
<1>1. now \in Seq(Shown)
  <2>1. \A j \in i + 1..i + k : e[j] \in Shown
    BY <1>0, ElementOfSeq
  <2> QED BY <1>0, <2>1, SubSeqProperties
<1>2. rest \in Seq(Shown)
  <2>1. \A j \in i + k + 1..Len(e) : e[j] \in Shown
    BY <1>0, ElementOfSeq
  <2> QED BY <1>0, <2>1, SubSeqProperties
<1>3. now \o rest = SubSeq(e, i + 1, Len(e))
  <2> HIDE DEF e, i
  <2>1. CASE k = 0
    <3>1. now = <<>>
      BY <1>0, <2>1, SubSeqEmpty
    <3>2. i + k + 1 = i + 1
      BY <1>0, <2>1
    <3>3. rest = SubSeq(e, i + 1, Len(e))
      BY <3>2
    <3> HIDE DEF now, rest
    <3> QED BY <1>2, <3>1, <3>3, ConcatEmptySeq
  <2>2. CASE i + k <= Len(e)
    <3>1. i + 1 \in 1..Len(e) + 1 /\ i + k \in (i + 1) - 1..Len(e) /\ Len(e) \in i + k..Len(e)
      BY <1>0, <2>2
    <3> QED BY <1>0, <3>1, ConcatAdjacentSubSeq, Zenon
  <2> QED BY <1>0, <2>1, <2>2
<1>4. Fire(p, k) = [p EXCEPT !.nextIdx = i + k, !.shown = p.shown \o now]
  BY DEF Fire
<1>5. p.shown \o now \in Seq(Shown)
  BY <1>0, <1>1, ConcatProperties
<1>6. Fire(p, k) \in Page
  <2>1. i + k \in Nat
    BY <1>0
  <2> HIDE DEF now, rest
  <2> QED BY <2>1, <1>4, <1>5 DEF Page
<1>7. Fire(p, k).events = e /\ Fire(p, k).nextIdx = i + k /\ Fire(p, k).shown = p.shown \o now
  BY <1>4 DEF Page
<1>8. Timeline(Fire(p, k)) = (p.shown \o now) \o rest
  BY <1>7 DEF Timeline
<1>9. (p.shown \o now) \o rest = p.shown \o (now \o rest)
  <2>1. \A a, b, c \in Seq(Shown) : (a \o b) \o c = a \o (b \o c)
    BY ConcatAssociative
  <2> HIDE DEF e, i, now, rest
  <2> QED BY <1>0, <1>1, <1>2, <2>1, Zenon
<1>10. Timeline(Fire(p, k)) = Timeline(p)
  BY <1>3, <1>8, <1>9 DEF Timeline
<1>11. Fire(p, k) = [p EXCEPT !.nextIdx = p.nextIdx + k, !.shown = Fire(p, k).shown]
  BY <1>4, <1>7
<1> QED BY <1>6, <1>10, <1>11

\* The next event of the run continues a stretch.
LEMMA AppendUpTo ==
  ASSUME NEW s \in Seq(Shown), NEW e \in Shown, NEW run \in Nat, NEW n \in Nat,
         UpTo(s, TRUE, run, n), e.run = run, e.n = n
  PROVE  UpTo(Append(s, e), TRUE, run, n + 1)
<1> DEFINE t == Append(s, e)
<1>1. t \in Seq(Shown) /\ Len(t) = Len(s) + 1 /\ t[Len(s) + 1] = e /\ Len(s) \in Nat
      /\ \A i \in 1..Len(s) : t[i] = s[i]
  BY AppendProperties
<1>2. Consecutive(t)
  <2>1. SUFFICES ASSUME NEW i \in 1..Len(t) - 1
                 PROVE  t[i + 1].run = t[i].run /\ t[i + 1].n = t[i].n + 1
    BY DEF Consecutive
  <2>2. CASE i < Len(s)
    <3>1. t[i] = s[i] /\ t[i + 1] = s[i + 1] /\ i \in 1..Len(s) - 1
      BY <1>1, <2>2
    <3> QED BY <3>1 DEF UpTo, Consecutive
  <2>3. CASE i = Len(s)
    <3>1. t[i] = s[Len(s)] /\ t[i + 1] = e /\ s # <<>> /\ s[Len(s)] \in Shown
      BY <1>1, <2>1, <2>3, ElementOfSeq
    <3>2. s[Len(s)].run = run /\ s[Len(s)].n = n - 1
      BY <3>1 DEF UpTo
    <3> QED BY <3>1, <3>2
  <2> QED BY <1>1, <2>2, <2>3
<1>3. t[Len(t)].run = run /\ t[Len(t)].n = (n + 1) - 1
  BY <1>1
<1>4. UpTo(t, TRUE, run, n + 1)
  <2> HIDE DEF t
  <2> QED BY <1>2, <1>3 DEF UpTo
<1> QED BY <1>4

\* The later part of a stretch is one.
LEMMA SuffixUpTo ==
  ASSUME NEW s \in Seq(Shown), NEW k \in Nat, k <= Len(s), NEW mid \in BOOLEAN, NEW run, NEW n,
         UpTo(s, mid, run, n)
  PROVE  UpTo(SubSeq(s, k + 1, Len(s)), mid, run, n)
<1> DEFINE t == SubSeq(s, k + 1, Len(s))
<1>0. Len(s) \in Nat /\ \A i \in k + 1..Len(s) : s[i] \in Shown
  BY ElementOfSeq
<1>1. t \in Seq(Shown) /\ Len(t) = Len(s) - k /\ \A i \in 1..Len(t) : t[i] = s[k + i]
  <2>1. /\ t \in Seq(Shown)
        /\ Len(t) = IF k + 1 <= Len(s) THEN Len(s) - (k + 1) + 1 ELSE 0
        /\ \A i \in 1..Len(s) - (k + 1) + 1 : t[i] = s[(k + 1) + i - 1]
    BY <1>0, SubSeqProperties
  <2> QED BY <1>0, <2>1
<1> HIDE DEF t
<1>2. Consecutive(t)
  <2>1. SUFFICES ASSUME NEW i \in 1..Len(t) - 1
                 PROVE  t[i + 1].run = t[i].run /\ t[i + 1].n = t[i].n + 1
    BY DEF Consecutive
  <2>2. t[i] = s[k + i] /\ t[i + 1] = s[(k + i) + 1] /\ k + i \in 1..Len(s) - 1
    BY <1>0, <1>1
  <2> QED BY <2>2 DEF UpTo, Consecutive
<1>3. t # <<>> => s # <<>> /\ t[Len(t)] = s[Len(s)]
  <2>1. t # <<>> => Len(t) > 0
    BY <1>1, EmptySeq
  <2> QED BY <1>0, <1>1, <2>1, EmptySeq
<1>4. UpTo(t, mid, run, n)
  BY <1>2, <1>3 DEF UpTo
<1> QED BY <1>4 DEF t

\* A list that is cut at the front after an event was appended to it.
LEMMA CutTail ==
  ASSUME NEW s \in Seq(Shown), NEW e \in Shown, NEW k \in Nat, NEW i \in Nat, k <= i, i <= Len(s)
  PROVE  LET all == Append(s, e)
             cut == SubSeq(all, k + 1, Len(all))
         IN /\ all \in Seq(Shown) /\ Len(all) = Len(s) + 1
            /\ cut \in Seq(Shown) /\ Len(cut) = Len(all) - k
            /\ SubSeq(cut, (i - k) + 1, Len(cut)) = SubSeq(s, i + 1, Len(s)) \o <<e>>
<1> DEFINE all == Append(s, e)
           cut == SubSeq(all, k + 1, Len(all))
           left == SubSeq(cut, (i - k) + 1, Len(cut))
           tail == SubSeq(s, i + 1, Len(s))
           right == tail \o <<e>>
<1>0. Len(s) \in Nat /\ (\A j \in i + 1..Len(s) : s[j] \in Shown)
  BY ElementOfSeq
<1>1. all \in Seq(Shown) /\ Len(all) = Len(s) + 1 /\ all[Len(s) + 1] = e
      /\ \A j \in 1..Len(s) : all[j] = s[j]
  BY AppendProperties
<1>2. cut \in Seq(Shown) /\ Len(cut) = Len(all) - k /\ \A j \in 1..Len(all) - k : cut[j] = all[k + j]
  <2> HIDE DEF all
  <2>1. \A j \in k + 1..Len(all) : all[j] \in Shown
    BY <1>0, <1>1, ElementOfSeq
  <2>2. /\ cut \in Seq(Shown)
        /\ Len(cut) = IF k + 1 <= Len(all) THEN Len(all) - (k + 1) + 1 ELSE 0
        /\ \A j \in 1..Len(all) - (k + 1) + 1 : cut[j] = all[(k + 1) + j - 1]
    BY <1>0, <1>1, <2>1, SubSeqProperties
  <2> HIDE DEF cut
  <2>3. Len(cut) = Len(all) - k
    BY <1>0, <1>1, <2>2
  <2>4. ASSUME NEW j \in 1..Len(all) - k
        PROVE  cut[j] = all[k + j]
    <3>1. j \in 1..Len(all) - (k + 1) + 1 /\ (k + 1) + j - 1 = k + j
      BY <1>0, <1>1
    <3> QED BY <2>2, <3>1
  <2> QED BY <2>2, <2>3, <2>4
<1>3. left \in Seq(Shown) /\ Len(left) = Len(s) - i + 1 /\ \A j \in 1..Len(s) - i + 1 : left[j] = all[i + j]
  <2> HIDE DEF all, cut
  <2>1. \A j \in (i - k) + 1..Len(cut) : cut[j] \in Shown
    BY <1>0, <1>1, <1>2, ElementOfSeq
  <2>2. /\ left \in Seq(Shown)
        /\ Len(left) = IF (i - k) + 1 <= Len(cut) THEN Len(cut) - ((i - k) + 1) + 1 ELSE 0
        /\ \A j \in 1..Len(cut) - ((i - k) + 1) + 1 : left[j] = cut[((i - k) + 1) + j - 1]
    BY <1>0, <1>1, <1>2, <2>1, SubSeqProperties
  <2> HIDE DEF left
  <2>3. \A j \in 1..Len(s) - i + 1 : left[j] = cut[(i - k) + j] /\ cut[(i - k) + j] = all[i + j]
    <3>1. TAKE j \in 1..Len(s) - i + 1
    <3>2. (i - k) + j \in 1..Len(all) - k /\ k + ((i - k) + j) = i + j
          /\ ((i - k) + 1) + j - 1 = (i - k) + j /\ j \in 1..Len(cut) - ((i - k) + 1) + 1
      BY <1>0, <1>1, <1>2
    <3> QED BY <1>2, <2>2, <3>2
  <2> QED BY <1>0, <1>1, <1>2, <2>2, <2>3
<1>4. tail \in Seq(Shown) /\ Len(tail) = Len(s) - i /\ \A j \in 1..Len(s) - i : tail[j] = s[i + j]
  <2>1. /\ tail \in Seq(Shown)
        /\ Len(tail) = IF i + 1 <= Len(s) THEN Len(s) - (i + 1) + 1 ELSE 0
        /\ \A j \in 1..Len(s) - (i + 1) + 1 : tail[j] = s[(i + 1) + j - 1]
    BY <1>0, SubSeqProperties
  <2> HIDE DEF tail
  <2> QED BY <1>0, <2>1
<1>5. right \in Seq(Shown) /\ Len(right) = Len(s) - i + 1
      /\ \A j \in 1..Len(s) - i + 1 : right[j] = IF j <= Len(s) - i THEN tail[j] ELSE e
  <2>1. <<e>> \in Seq(Shown) /\ Len(<<e>>) = 1 /\ <<e>>[1] = e
    OBVIOUS
  <2> HIDE DEF tail
  <2>2. right \in Seq(Shown) /\ Len(right) = Len(tail) + Len(<<e>>)
        /\ \A j \in 1..Len(tail) + Len(<<e>>) :
             right[j] = IF j <= Len(tail) THEN tail[j] ELSE <<e>>[j - Len(tail)]
    BY <1>4, <2>1, ConcatProperties
  <2> HIDE DEF right
  <2> QED BY <1>0, <1>4, <2>1, <2>2
<1>6. \A j \in 1..Len(s) - i + 1 : left[j] = right[j]
  <2> HIDE DEF all, cut, left, tail, right
  <2>1. TAKE j \in 1..Len(s) - i + 1
  <2>2. CASE j <= Len(s) - i
    BY <1>0, <1>1, <1>3, <1>4, <1>5, <2>2
  <2>3. CASE j = Len(s) - i + 1
    BY <1>0, <1>1, <1>3, <1>5, <2>3
  <2> QED BY <1>0, <2>2, <2>3
<1>7. left = right
  <2> HIDE DEF left, right
  <2> QED BY <1>3, <1>5, <1>6, SeqEqual
<1> QED BY <1>1, <1>2, <1>7

-----------------------------------------------------------------------------
(* The functions of the page that leave its list as it is *)

\* q is a page that is sound if p is.
Keeps(p, q) ==
  /\ q \in Page
  /\ q.events = p.events /\ q.snapshotActive = p.snapshotActive
  /\ \A mid, run, n : Sound(p, mid, run, n) => Sound(q, mid, run, n)

LEMMA KeepsThrough ==
  ASSUME NEW p, NEW q, NEW r, Keeps(p, q), Keeps(q, r)
  PROVE  Keeps(p, r)
BY DEF Keeps

\* A page with the same timeline.
LEMMA SameTimeline ==
  ASSUME NEW p \in Page, NEW q \in Page,
         q.events = p.events, q.snapshotActive = p.snapshotActive, q.marred = p.marred,
         Timeline(q) = Timeline(p),
         q.nextIdx = p.nextIdx \/ q.nextIdx <= Len(q.events)
  PROVE  Keeps(p, q)
BY DEF Keeps, Sound

LEMMA SameScene ==
  ASSUME NEW p \in Page, NEW q \in Page,
         q.events = p.events, q.snapshotActive = p.snapshotActive, q.marred = p.marred,
         q.nextIdx = p.nextIdx, q.shown = p.shown
  PROVE  Keeps(p, q)
<1>1. Timeline(q) = Timeline(p)
  BY DEF Timeline
<1> QED BY <1>1, SameTimeline

LEMMA FireKeeps ==
  ASSUME NEW p \in Page, NEW k \in Nat, k = 0 \/ p.nextIdx + k <= Len(p.events)
  PROVE  Keeps(p, Fire(p, k))
<1> DEFINE q == Fire(p, k)
<1>1. q \in Page /\ Timeline(q) = Timeline(p)
      /\ q = [p EXCEPT !.nextIdx = p.nextIdx + k, !.shown = q.shown]
  BY FireKeepsTimeline
<1> HIDE DEF q
<1>2. q.events = p.events /\ q.snapshotActive = p.snapshotActive /\ q.marred = p.marred
      /\ q.nextIdx = p.nextIdx + k
  BY <1>1 DEF Page
<1>3. q.nextIdx = p.nextIdx \/ q.nextIdx <= Len(q.events)
  BY <1>2 DEF Page
<1>4. Keeps(p, q)
  BY <1>1, <1>2, <1>3, SameTimeline
<1> QED BY <1>4 DEF q

\* The page q shows other events of the list of p.
Scene(q, p, idx, shown, marks) ==
  /\ q \in Page
  /\ q.events = p.events /\ q.nextIdx = idx /\ q.shown = shown /\ q.marred = marks
  /\ q.snapshotActive = p.snapshotActive

With(p, t, idx, shown, marks) ==
  [p EXCEPT !.simNow = t, !.nextIdx = idx, !.shown = shown, !.marred = marks]

LEMMA PageExcept ==
  ASSUME NEW p \in Page, NEW s \in Seq(Shown), NEW m \in SUBSET Marks, NEW t \in Int, NEW i \in Nat
  PROVE  Scene(With(p, t, i, s, m), p, i, s, m)
BY DEF Page, Scene, With

\* What is left of a scene that is emptied, and of its marks.
Nothing == <<>>
Left(marks) == marks \ {"stepped back", "dropped"}

LEMMA LeftIsLoaded ==
  ASSUME NEW marks \in SUBSET Marks
  PROVE  /\ Left(marks) \in SUBSET Marks
         /\ "loaded" \in marks <=> "loaded" \in Left(marks)
BY DEF Left, Marks

LEMMA ResetPage ==
  ASSUME NEW p \in Page
  PROVE  Scene(resetAll(p), p, 0, Nothing, Left(p.marred))
<1>1. p.marred \in SUBSET Marks /\ Nothing \in Seq(Shown)
  BY EmptySeq DEF Page, Nothing
<1>2. resetAll(p) = With(p, 0, 0, Nothing, Left(p.marred))
  BY Zenon DEF resetAll, With, Nothing, Left
<1>3. 0 \in Int /\ 0 \in Nat /\ Left(p.marred) \in SUBSET Marks
  BY <1>1, LeftIsLoaded
<1>4. Scene(With(p, 0, 0, Nothing, Left(p.marred)), p, 0, Nothing, Left(p.marred))
  BY <1>1, <1>3, PageExcept
<1> QED BY <1>2, <1>4

\* A scene that is emptied will show the list.
LEMMA ResetSound ==
  ASSUME NEW p \in Page, NEW mid, NEW run, NEW n,
         "loaded" \notin p.marred => UpTo(p.events, mid, run, n)
  PROVE  Sound(resetAll(p), mid, run, n)
<1> DEFINE q == resetAll(p)
<1>1. q \in Page /\ q.events = p.events /\ q.nextIdx = 0 /\ q.shown = Nothing
      /\ q.marred = Left(p.marred)
  BY ResetPage DEF Scene
<1> HIDE DEF q
<1>2. Timeline(q) = q.events
  <2>1. Timeline(q) = Nothing \o SubSeq(q.events, 1, Len(q.events))
    <3>1. q.nextIdx + 1 = 1
      BY <1>1
    <3> QED BY <1>1, <3>1, Zenon DEF Timeline
  <2>2. q.events \in Seq(Shown)
    BY <1>1 DEF Page
  <2>3. SubSeq(q.events, 1, Len(q.events)) = q.events
    BY <2>2, SubSeqFull
  <2> QED BY <2>1, <2>2, <2>3, ConcatEmptySeq DEF Nothing
<1>3. q.nextIdx <= Len(q.events)
  BY <1>1 DEF Page
<1>4. "loaded" \in p.marred => "loaded" \in q.marred
  BY <1>1, LeftIsLoaded DEF Page
<1>5. q.marred = {} => "loaded" \notin q.marred
  OBVIOUS
<1>6. Sound(q, mid, run, n)
  BY <1>1, <1>2, <1>3, <1>4, <1>5 DEF Sound
<1> QED BY <1>6 DEF q

LEMMA ResetKeeps ==
  ASSUME NEW p \in Page
  PROVE  Keeps(p, resetAll(p))
<1>1. resetAll(p) \in Page /\ resetAll(p).events = p.events
      /\ resetAll(p).snapshotActive = p.snapshotActive
  BY ResetPage DEF Scene
<1>2. \A mid, run, n : Sound(p, mid, run, n) => Sound(resetAll(p), mid, run, n)
  BY ResetSound DEF Sound
<1> QED BY <1>1, <1>2 DEF Keeps

\* What a scene does not depend on.
LEMMA ClockKeeps ==
  ASSUME NEW p \in Page, NEW t \in Int
  PROVE  Keeps(p, [p EXCEPT !.simNow = t])
<1> DEFINE q == [p EXCEPT !.simNow = t]
<1>1. q \in Page /\ q.events = p.events /\ q.snapshotActive = p.snapshotActive
      /\ q.marred = p.marred /\ q.nextIdx = p.nextIdx /\ q.shown = p.shown
  BY DEF Page
<1> HIDE DEF q
<1>2. Keeps(p, q)
  BY <1>1, SameScene
<1> QED BY <1>2 DEF q

LEMMA FramesKeeps ==
  ASSUME NEW p \in Page, NEW f \in Int
  PROVE  Keeps(p, [p EXCEPT !.frames = f])
<1> DEFINE q == [p EXCEPT !.frames = f]
<1>1. q \in Page /\ q.events = p.events /\ q.snapshotActive = p.snapshotActive
      /\ q.marred = p.marred /\ q.nextIdx = p.nextIdx /\ q.shown = p.shown
  BY DEF Page
<1> HIDE DEF q
<1>2. Keeps(p, q)
  BY <1>1, SameScene
<1> QED BY <1>2 DEF q

LEMMA PlayingKeeps ==
  ASSUME NEW p \in Page, NEW play \in BOOLEAN, NEW f \in Int
  PROVE  Keeps(p, [p EXCEPT !.playing = play, !.frames = f])
<1> DEFINE q == [p EXCEPT !.playing = play, !.frames = f]
<1>1. q \in Page /\ q.events = p.events /\ q.snapshotActive = p.snapshotActive
      /\ q.marred = p.marred /\ q.nextIdx = p.nextIdx /\ q.shown = p.shown
  BY DEF Page
<1> HIDE DEF q
<1>2. Keeps(p, q)
  BY <1>1, SameScene
<1> QED BY <1>2 DEF q

LEMMA ReadyKeeps ==
  ASSUME NEW p \in Page, NEW b \in BOOLEAN
  PROVE  Keeps(p, [p EXCEPT !.ready = b])
<1> DEFINE q == [p EXCEPT !.ready = b]
<1>1. q \in Page /\ q.events = p.events /\ q.snapshotActive = p.snapshotActive
      /\ q.marred = p.marred /\ q.nextIdx = p.nextIdx /\ q.shown = p.shown
  BY DEF Page
<1> HIDE DEF q
<1>2. Keeps(p, q)
  BY <1>1, SameScene
<1> QED BY <1>2 DEF q

LEMMA KeepsSelf ==
  ASSUME NEW p \in Page
  PROVE  Keeps(p, p)
BY DEF Keeps

LEMMA SetPlayingKeeps ==
  ASSUME NEW p \in Page, NEW play \in BOOLEAN
  PROVE  Keeps(p, setPlaying(p, play))
<1> DEFINE atEnd == p.nextIdx >= Len(p.events) \/ p.simNow >= p.T
           q == IF play /\ atEnd THEN resetAll(p) ELSE p
           f == IF play THEN q.frames + 1 ELSE q.frames
           r == [q EXCEPT !.playing = play, !.frames = IF play THEN @ + 1 ELSE @]
<1>1. Keeps(p, q)
  BY ResetKeeps, KeepsSelf
<1>2. q \in Page
  BY <1>1 DEF Keeps
<1>3. setPlaying(p, play) = r
  BY Zenon DEF setPlaying
<1> HIDE DEF q
<1>4. f \in Int
  BY <1>2 DEF Page
<1>5. r = [q EXCEPT !.playing = play, !.frames = f]
  BY <1>2 DEF Page
<1> HIDE DEF f, r
<1>6. Keeps(q, [q EXCEPT !.playing = play, !.frames = f])
  BY <1>2, <1>4, PlayingKeeps
<1>7. Keeps(q, setPlaying(p, play))
  BY ONLY <1>3, <1>5, <1>6
<1> QED BY <1>1, <1>7, KeepsThrough

\* The scene is emptied and events are fired from the front of the list.
LEMMA RefireKeeps ==
  ASSUME NEW p \in Page, NEW k \in Nat, k <= Len(p.events), NEW t \in Int
  PROVE  Keeps(p, [Fire(resetAll(p), k) EXCEPT !.simNow = t])
<1> DEFINE q == resetAll(p)
           r == Fire(q, k)
<1>1. Keeps(p, q) /\ q \in Page /\ q.nextIdx = 0 /\ q.events = p.events
  BY ResetKeeps, ResetPage DEF Scene
<1>2. q.nextIdx + k <= Len(q.events)
  BY <1>1
<1> HIDE DEF q
<1>3. Keeps(q, r) /\ r \in Page
  BY <1>1, <1>2, FireKeeps DEF Keeps
<1> HIDE DEF r
<1>4. Keeps(r, [r EXCEPT !.simNow = t])
  BY <1>3, ClockKeeps
<1>5. Keeps(p, [r EXCEPT !.simNow = t])
  BY <1>1, <1>3, <1>4, KeepsThrough
<1> QED BY <1>5 DEF q, r

LEMMA RebuildKeeps ==
  ASSUME NEW p \in Page
  PROVE  Keeps(p, rebuildSceneFromEvents(p))
<1>1. Len(p.events) \in Nat /\ p.T \in Int
  BY DEF Page
<1>2. Keeps(p, [Fire(resetAll(p), Len(p.events)) EXCEPT !.simNow = p.T])
  BY <1>1, RefireKeeps
<1> QED BY <1>2, KeepsSelf DEF rebuildSceneFromEvents

LEMMA FastForwardKeeps ==
  ASSUME NEW p \in Page, NEW ms \in Int
  PROVE  Keeps(p, fastForwardTo(p, ms))
<1> DEFINE k == Due(p, 0, ms)
<1>1. k \in Nat /\ k <= Len(p.events)
  <2>1. k \in Nat /\ (k = 0 \/ 0 + k <= Len(p.events)) /\ Len(p.events) \in Nat
    BY DueWithin DEF Page
  <2> HIDE DEF k
  <2> QED BY <2>1
<1> HIDE DEF k
<1>2. Keeps(p, [Fire(resetAll(p), k) EXCEPT !.simNow = ms])
  BY <1>1, RefireKeeps
<1> QED BY <1>2 DEF k, fastForwardTo

LEMMA LoopKeeps ==
  ASSUME NEW p \in Page, NEW d \in Nat
  PROVE  Keeps(p, loop(p, d))
<1> DEFINE now == Least(p.T, p.simNow + d)
           due == Due(p, p.nextIdx, now)
           k == IF now < p.T THEN Portion(p, due) ELSE due
           r == Fire(p, k)
           fired == [r EXCEPT !.simNow = now]
<1>11. \/ loop(p, d) = [p EXCEPT !.frames = p.frames - 1]
       \/ loop(p, d) = fired
       \/ loop(p, d) = setPlaying([fired EXCEPT !.frames = fired.frames - 1], FALSE)
  BY Zenon DEF loop
<1>0. p.nextIdx \in Nat /\ p.T \in Int /\ p.simNow \in Int /\ p.frames \in Int
  BY DEF Page
<1>1. now \in Int
  BY <1>0 DEF Least
<1>2. due \in Nat /\ (due = 0 \/ p.nextIdx + due <= Len(p.events))
  BY <1>0, DueWithin
<1>3. k \in 0..due
  <2>1. Portion(p, due) \in 0..due
    BY <1>2, PortionWithin
  <2> HIDE DEF due
  <2> QED BY <1>2, <2>1
<1>4. k \in Nat /\ (k = 0 \/ p.nextIdx + k <= Len(p.events))
  <2>1. Len(p.events) \in Nat
    BY DEF Page
  <2> HIDE DEF due, k
  <2> QED BY <1>0, <1>2, <1>3, <2>1
<1> HIDE DEF k, due, now
<1>5. Keeps(p, r) /\ r \in Page
  BY <1>4, FireKeeps DEF Keeps
<1> HIDE DEF r
<1>6. Keeps(r, fired) /\ fired \in Page
  BY <1>1, <1>5, ClockKeeps DEF Keeps
<1>7. Keeps(p, fired)
  BY <1>5, <1>6, KeepsThrough
<1> HIDE DEF fired
<1>8. Keeps(fired, setPlaying([fired EXCEPT !.frames = fired.frames - 1], FALSE))
  <2> DEFINE g == [fired EXCEPT !.frames = fired.frames - 1]
  <2>1. fired.frames - 1 \in Int
    BY <1>6 DEF Page
  <2>2. Keeps(fired, g) /\ g \in Page
    BY <1>6, <2>1, FramesKeeps DEF Keeps
  <2> HIDE DEF g
  <2>3. Keeps(g, setPlaying(g, FALSE))
    BY <2>2, SetPlayingKeeps
  <2>4. Keeps(fired, setPlaying(g, FALSE))
    BY <2>2, <2>3, KeepsThrough
  <2> QED BY <2>4 DEF g
<1>9. Keeps(p, setPlaying([fired EXCEPT !.frames = fired.frames - 1], FALSE))
  BY <1>7, <1>8, KeepsThrough
<1>10. Keeps(p, [p EXCEPT !.frames = p.frames - 1])
  <2>1. p.frames - 1 \in Int
    BY <1>0
  <2> QED BY <2>1, FramesKeeps
<1> QED BY <1>7, <1>9, <1>10, <1>11

-----------------------------------------------------------------------------
(* The functions of the page that change its list *)

\* The page q has another list than p.
Listing(q, p, events, idx, marks) ==
  /\ q \in Page
  /\ q.events = events /\ q.nextIdx = idx /\ q.shown = p.shown /\ q.marred = marks
  /\ q.snapshotActive = p.snapshotActive

Listed(p, t0, T, events, idx, capped, marks) ==
  [p EXCEPT !.t0 = t0, !.T = T, !.events = events, !.nextIdx = idx, !.capped = capped, !.marred = marks]

LEMMA ListedPage ==
  ASSUME NEW p \in Page, NEW t0 \in Int, NEW T \in Int, NEW events \in Seq(Shown), NEW idx \in Nat,
         NEW capped \in BOOLEAN, NEW marks \in SUBSET Marks
  PROVE  Listing(Listed(p, t0, T, events, idx, capped, marks), p, events, idx, marks)
BY DEF Page, Listing, Listed

Dropped(marks, lost) == IF lost THEN marks \union {"dropped"} ELSE marks

LEMMA DroppedMarks ==
  ASSUME NEW marks \in SUBSET Marks, NEW lost \in BOOLEAN
  PROVE  /\ Dropped(marks, lost) \in SUBSET Marks
         /\ "loaded" \in marks <=> "loaded" \in Dropped(marks, lost)
         /\ Dropped(marks, lost) = {} => marks = {} /\ ~lost
<1>1. CASE lost
  BY ONLY <1>1, marks \in SUBSET Marks DEF Dropped, Marks
<1>2. CASE ~lost
  BY ONLY <1>2, marks \in SUBSET Marks DEF Dropped
<1> QED BY <1>1, <1>2

LEMMA ConcatShown ==
  \A s, t, u \in Seq(Shown) : (s \o t) \o u = s \o (t \o u)
BY ConcatAssociative

\* An event that was not lost continues the timeline, and the list.
LEMMA ListedSound ==
  ASSUME NEW p \in Page, NEW q, NEW e \in Shown, NEW run \in Nat, NEW n \in Nat, NEW k \in Nat,
         Sound(p, TRUE, run, n), e.run = run, e.n = n, k <= Len(p.events),
         LET all == Append(p.events, e)
         IN Listing(q, p, SubSeq(all, k + 1, Len(all)), IF k <= p.nextIdx THEN p.nextIdx - k ELSE 0,
                    Dropped(p.marred, k > p.nextIdx))
  PROVE  Sound(q, TRUE, run, n + 1)
<1> DEFINE all == Append(p.events, e)
           cut == SubSeq(all, k + 1, Len(all))
           idx == IF k <= p.nextIdx THEN p.nextIdx - k ELSE 0
           lost == k > p.nextIdx
<1>1. p.events \in Seq(Shown) /\ p.shown \in Seq(Shown) /\ p.nextIdx \in Nat /\ Len(p.events) \in Nat
      /\ p.marred \in SUBSET Marks /\ p.nextIdx <= Len(p.events)
  BY DEF Page, Sound
<1>2. q \in Page /\ q.events = cut /\ q.nextIdx = idx /\ q.shown = p.shown
      /\ q.marred = Dropped(p.marred, lost)
  BY DEF Listing
<1>3. all \in Seq(Shown) /\ Len(all) = Len(p.events) + 1
  BY <1>1, AppendProperties
<1>4. cut \in Seq(Shown) /\ Len(cut) = Len(all) - k
  <2>1. \A j \in k + 1..Len(all) : all[j] \in Shown
    BY <1>3, ElementOfSeq
  <2> HIDE DEF all
  <2>2. cut \in Seq(Shown) /\ Len(cut) = IF k + 1 <= Len(all) THEN Len(all) - (k + 1) + 1 ELSE 0
    BY <1>1, <1>3, <2>1, SubSeqProperties
  <2> HIDE DEF cut
  <2> QED BY <1>1, <1>3, <2>2
<1>5. q.nextIdx <= Len(q.events)
  <2> HIDE DEF all, cut
  <2>1. Len(q.events) = Len(p.events) + 1 - k
    BY <1>2, <1>3, <1>4
  <2> HIDE DEF idx
  <2>2. q.nextIdx = idx
    BY <1>2
  <2>3. CASE k <= p.nextIdx
    BY ONLY <1>1, <2>1, <2>2, <2>3, k \in Nat DEF idx
  <2>4. CASE ~(k <= p.nextIdx)
    BY ONLY <1>1, <2>1, <2>2, <2>4, k \in Nat, k <= Len(p.events) DEF idx
  <2> QED BY <2>3, <2>4
<1>6. "loaded" \notin q.marred => UpTo(q.events, TRUE, run, n + 1)
  <2>1. SUFFICES ASSUME "loaded" \notin q.marred
                 PROVE  UpTo(q.events, TRUE, run, n + 1)
    OBVIOUS
  <2>2. lost \in BOOLEAN
    OBVIOUS
  <2>3. "loaded" \notin p.marred
    <3> HIDE DEF lost
    <3> QED BY <1>1, <1>2, <2>1, <2>2, DroppedMarks
  <2>4. UpTo(p.events, TRUE, run, n)
    BY <2>3 DEF Sound
  <2>5. UpTo(all, TRUE, run, n + 1)
    BY <1>1, <2>4, AppendUpTo
  <2>6. UpTo(cut, TRUE, run, n + 1)
    <3> HIDE DEF all
    <3>1. k <= Len(all)
      BY <1>1, <1>3
    <3> QED BY <1>3, <2>5, <3>1, SuffixUpTo
  <2> QED BY <1>2, <2>6
<1>7. q.marred = {} => UpTo(Timeline(q), TRUE, run, n + 1)
  <2>1. SUFFICES ASSUME q.marred = {}
                 PROVE  UpTo(Timeline(q), TRUE, run, n + 1)
    OBVIOUS
  <2>2. lost \in BOOLEAN
    OBVIOUS
  <2>3. p.marred = {} /\ ~lost
    <3> HIDE DEF lost
    <3> QED BY <1>1, <1>2, <2>1, <2>2, DroppedMarks
  <2>4. UpTo(Timeline(p), TRUE, run, n)
    BY <2>3 DEF Sound
  <2>5. k <= p.nextIdx /\ q.nextIdx = p.nextIdx - k
    <3>1. k <= p.nextIdx
      BY <1>1, <2>3
    <3> QED BY <1>2, <3>1
  <2> DEFINE tail == SubSeq(p.events, p.nextIdx + 1, Len(p.events))
  <2>6. SubSeq(cut, (p.nextIdx - k) + 1, Len(cut)) = tail \o <<e>>
    <3>1. p.events \in Seq(Shown) /\ e \in Shown /\ k \in Nat /\ p.nextIdx \in Nat
          /\ k <= p.nextIdx /\ p.nextIdx <= Len(p.events)
      BY <1>1, <2>5
    <3>2. PICK s \in Seq(Shown), i \in Nat : s = p.events /\ i = p.nextIdx
      BY ONLY <3>1
    <3>3. k \in Nat /\ e \in Shown /\ k <= i /\ i <= Len(s)
      BY ONLY <3>1, <3>2
    <3>4. PICK a : a = Append(s, e)
      OBVIOUS
    <3>5. PICK c : c = SubSeq(a, k + 1, Len(a))
      OBVIOUS
    <3>6. SubSeq(c, (i - k) + 1, Len(c)) = SubSeq(s, i + 1, Len(s)) \o <<e>>
      BY ONLY s \in Seq(Shown), i \in Nat, <3>3, <3>4, <3>5, CutTail, Zenon
    <3>7. a = all
      BY <3>2, <3>4
    <3>8. c = cut
      BY <3>5, <3>7
    <3> HIDE DEF cut, all
    <3> QED BY <3>2, <3>6, <3>8
  <2>7. Timeline(q) = p.shown \o (tail \o <<e>>)
    BY <1>2, <2>5, <2>6, Zenon DEF Timeline
  <2>8. tail \in Seq(Shown) /\ <<e>> \in Seq(Shown) /\ Timeline(p) \in Seq(Shown)
    BY TimelineType
  <2>9. Timeline(q) = Timeline(p) \o <<e>>
    <3>1. Timeline(p) = p.shown \o tail
      BY DEF Timeline
    <3> HIDE DEF tail
    <3>2. p.shown \in Seq(Shown) /\ tail \in Seq(Shown) /\ <<e>> \in Seq(Shown)
      BY <1>1, <2>8
    <3>3. (p.shown \o tail) \o <<e>> = p.shown \o (tail \o <<e>>)
      BY <3>2, ConcatShown
    <3> QED BY <2>7, <3>1, <3>3, Zenon
  <2>10. Timeline(p) \o <<e>> = Append(Timeline(p), e)
    BY <2>8, AppendIsConcat
  <2> QED BY <2>4, <2>8, <2>9, <2>10, AppendUpTo
<1> QED
  <2> HIDE DEF all, cut, idx, lost
  <2> QED BY <1>2, <1>5, <1>6, <1>7 DEF Sound

Grown(p, q, run, n) ==
  /\ Sound(q, TRUE, run, n + 1)
  /\ q \in Page /\ q.snapshotActive = p.snapshotActive

LEMMA ProcessSound ==
  ASSUME NEW p \in Page, NEW e \in Incoming, NEW run \in Nat, NEW n \in Nat,
         Sound(p, TRUE, run, n), e.run = run, e.n = n
  PROVE  Grown(p, processLiveEvent(p, e), run, n)
<1> DEFINE t0 == IF p.t0 = 0 THEN e.time ELSE p.t0
           evt == [run |-> e.run, n |-> e.n, note |-> e.note, dt |-> e.time - t0]
           all == Append(p.events, evt)
           over == Max({0, Len(all) - Cap})
           cut == SubSeq(all, over + 1, Len(all))
           idx == Max({0, p.nextIdx - over})
           capped == p.capped \/ over > 0
           marks == Dropped(p.marred, over > p.nextIdx)
           q == Listed(p, t0, evt.dt, cut, idx, capped, marks)
<1>1. processLiveEvent(p, e)
        = IF ~q.playing /\ Len(q.events) = 1 /\ ~q.snapshotActive THEN setPlaying(q, TRUE) ELSE q
  BY Zenon DEF processLiveEvent, Listed, Dropped
<1>2. t0 \in Int /\ evt \in Shown /\ evt.run = run /\ evt.n = n /\ evt.dt \in Int
  BY DEF Page, Incoming, Shown
<1> HIDE DEF t0, evt
<1>3. p.events \in Seq(Shown) /\ p.nextIdx \in Nat /\ Len(p.events) \in Nat /\ p.capped \in BOOLEAN
      /\ p.marred \in SUBSET Marks /\ p.nextIdx <= Len(p.events)
  BY DEF Page, Sound
<1>4. all \in Seq(Shown) /\ Len(all) = Len(p.events) + 1
  BY <1>2, <1>3, AppendProperties
<1>5. over \in Nat /\ over <= Len(p.events)
  <2> HIDE DEF all
  <2>1. Cap \in Nat \ {0}
    BY LivePageAssumption
  <2>2. Len(all) - Cap \in Int /\ Len(all) - Cap <= Len(p.events)
    BY <1>3, <1>4, <2>1
  <2>3. over = IF 0 > Len(all) - Cap THEN 0 ELSE Len(all) - Cap
    BY <2>2, MaxOfPair
  <2> HIDE DEF over
  <2> QED BY <1>3, <2>2, <2>3
<1> HIDE DEF over
<1>6. idx = IF over <= p.nextIdx THEN p.nextIdx - over ELSE 0
  <2>1. p.nextIdx - over \in Int
    BY <1>3, <1>5
  <2>2. idx = IF 0 > p.nextIdx - over THEN 0 ELSE p.nextIdx - over
    BY <2>1, MaxOfPair
  <2> HIDE DEF idx
  <2> QED BY <1>3, <1>5, <2>2
<1>7. idx \in Nat
  <2> HIDE DEF idx
  <2> QED BY <1>3, <1>5, <1>6
<1>8. cut \in Seq(Shown)
  <2> HIDE DEF all
  <2>1. \A j \in over + 1..Len(all) : all[j] \in Shown
    BY <1>4, <1>5, ElementOfSeq
  <2> QED BY <1>3, <1>4, <1>5, <2>1, SubSeqProperties
<1>9. capped \in BOOLEAN /\ (over > p.nextIdx) \in BOOLEAN
  BY <1>3
<1>10. marks \in SUBSET Marks
  <2> DEFINE lost == over > p.nextIdx
  <2>1. lost \in BOOLEAN
    OBVIOUS
  <2> HIDE DEF lost
  <2>2. Dropped(p.marred, lost) \in SUBSET Marks
    BY <1>3, <2>1, DroppedMarks
  <2> QED BY <2>2 DEF lost
<1>11. Listing(q, p, cut, idx, marks)
  <2> HIDE DEF cut, idx, capped, marks
  <2> QED BY <1>2, <1>7, <1>8, <1>9, <1>10, ListedPage
<1> HIDE DEF q
<1>12. Sound(q, TRUE, run, n + 1)
  <2>1. Listing(q, p, SubSeq(all, over + 1, Len(all)),
                IF over <= p.nextIdx THEN p.nextIdx - over ELSE 0, Dropped(p.marred, over > p.nextIdx))
    <3> HIDE DEF idx
    <3> QED BY <1>6, <1>11, Zenon
  <2> QED BY <1>2, <1>5, <2>1, ListedSound
<1>13. q \in Page /\ q.snapshotActive = p.snapshotActive
  BY <1>11 DEF Listing
<1>14. Keeps(q, setPlaying(q, TRUE))
  BY <1>13, SetPlayingKeeps
<1>15. Grown(p, q, run, n) /\ Grown(p, setPlaying(q, TRUE), run, n)
  BY <1>12, <1>13, <1>14 DEF Keeps, Grown
<1> QED BY <1>1, <1>15

LEMMA EmptyUpTo ==
  ASSUME NEW mid, NEW run, NEW n
  PROVE  UpTo(Nothing, mid, run, n)
<1>1. Len(Nothing) = 0
  BY EmptySeq DEF Nothing
<1> QED BY <1>1 DEF UpTo, Consecutive, Nothing

Relisted(p, events, t0, T, marks) ==
  [p EXCEPT !.events = events, !.t0 = t0, !.T = T, !.marred = marks]

LEMMA RelistedPage ==
  ASSUME NEW p \in Page, NEW events \in Seq(Shown), NEW t0 \in Int, NEW T \in Int,
         NEW marks \in SUBSET Marks
  PROVE  Listing(Relisted(p, events, t0, T, marks), p, events, p.nextIdx, marks)
BY DEF Page, Listing, Relisted

LEMMA EmptiedPage ==
  ASSUME NEW p \in Page
  PROVE  Listing(Emptied(p), p, Nothing, p.nextIdx, p.marred \ {"loaded"})
<1>1. p.marred \ {"loaded"} \in SUBSET Marks /\ Nothing \in Seq(Shown) /\ 0 \in Int
  BY EmptySeq DEF Page, Nothing
<1>2. Emptied(p) = Relisted(p, Nothing, 0, 0, p.marred \ {"loaded"})
  BY Zenon DEF Emptied, Relisted, Nothing
<1> DEFINE m == p.marred \ {"loaded"}
<1> HIDE DEF m
<1>3. Listing(Relisted(p, Nothing, 0, 0, m), p, Nothing, p.nextIdx, m)
  <2>1. m \in SUBSET Marks
    BY <1>1 DEF m
  <2> QED BY <1>1, <2>1, RelistedPage
<1> QED BY <1>2, <1>3, Zenon DEF m

\* A page that is emptied is sound whatever comes next.
LEMMA EmptiedSound ==
  ASSUME NEW p \in Page
  PROVE  /\ resetAll(Emptied(p)) \in Page
         /\ resetAll(Emptied(p)).snapshotActive = p.snapshotActive
         /\ \A mid, run, n : Sound(resetAll(Emptied(p)), mid, run, n)
<1> DEFINE q == Emptied(p)
<1>3. q \in Page /\ q.events = Nothing /\ q.snapshotActive = p.snapshotActive
  BY EmptiedPage, Zenon DEF Listing
<1> HIDE DEF q
<1>4. \A mid, run, n : Sound(resetAll(q), mid, run, n)
  BY <1>3, EmptyUpTo, ResetSound
<1>5. resetAll(q) \in Page /\ resetAll(q).snapshotActive = p.snapshotActive
  BY <1>3, ResetPage DEF Scene
<1> QED BY <1>4, <1>5, Zenon DEF q

\* A page with the same scene, whatever else has changed.
LEMMA SameSceneSound ==
  ASSUME NEW p, NEW q \in Page, NEW mid, NEW run, NEW n, Sound(p, mid, run, n),
         q.events = p.events, q.nextIdx = p.nextIdx, q.shown = p.shown, q.marred = p.marred
  PROVE  Sound(q, mid, run, n)
<1>1. Timeline(q) = Timeline(p)
  BY DEF Timeline
<1> QED BY <1>1 DEF Sound

LEMMA BeginSound ==
  ASSUME NEW p \in Page
  PROVE  /\ beginSnapshot(p).snapshotActive
         /\ \A mid, run, n : Sound(beginSnapshot(p), mid, run, n)
<1> DEFINE r == setPlaying(p, FALSE)
           q == resetAll(Emptied(r))
           b == [q EXCEPT !.snapshotActive = TRUE, !.snapshotApplied = FALSE, !.capped = FALSE]
<1>1. r \in Page
  BY SetPlayingKeeps DEF Keeps
<1> HIDE DEF r
<1>2. q \in Page /\ \A mid, run, n : Sound(q, mid, run, n)
  BY <1>1, EmptiedSound
<1> HIDE DEF q
<1>3. b \in Page /\ b.snapshotActive
      /\ b.events = q.events /\ b.nextIdx = q.nextIdx /\ b.shown = q.shown /\ b.marred = q.marred
  BY <1>2 DEF Page
<1> HIDE DEF b
<1>4. \A mid, run, n : Sound(b, mid, run, n)
  BY <1>2, <1>3, SameSceneSound
<1>5. beginSnapshot(p) = b
  BY Zenon DEF beginSnapshot, b, q, r
<1> QED BY <1>3, <1>4, <1>5

LEMMA SnapshotEventSound ==
  ASSUME NEW p \in Page, NEW e \in Incoming, NEW run \in Nat, NEW n \in Nat,
         Sound(p, TRUE, run, n), e.run = run, e.n = n, p.snapshotActive
  PROVE  Grown(p, applySnapshotEvent(p, e), run, n)
<1> DEFINE r == processLiveEvent(p, e)
           q == [r EXCEPT !.snapshotApplied = TRUE]
<1>1. Grown(p, r, run, n)
  BY ProcessSound
<1> HIDE DEF r
<1>2. r \in Page /\ Sound(r, TRUE, run, n + 1) /\ r.snapshotActive = p.snapshotActive
  BY <1>1 DEF Grown
<1>3. q \in Page /\ q.snapshotActive = r.snapshotActive
      /\ q.events = r.events /\ q.nextIdx = r.nextIdx /\ q.shown = r.shown /\ q.marred = r.marred
  BY <1>2 DEF Page
<1> HIDE DEF q
<1>4. Sound(q, TRUE, run, n + 1)
  BY <1>2, <1>3, SameSceneSound
<1>5. applySnapshotEvent(p, e) = q
  BY Zenon DEF applySnapshotEvent, q, r
<1> QED BY <1>2, <1>3, <1>4, <1>5 DEF Grown

LEMMA EndSound ==
  ASSUME NEW p \in Page, NEW mid, NEW run, NEW n, Sound(p, mid, run, n)
  PROVE  Sound(endSnapshot(p), mid, run, n) /\ ~endSnapshot(p).snapshotActive
<1> DEFINE q == [p EXCEPT !.snapshotActive = FALSE]
           r == rebuildSceneFromEvents(q)
<1>1. q \in Page /\ ~q.snapshotActive
      /\ q.events = p.events /\ q.nextIdx = p.nextIdx /\ q.shown = p.shown /\ q.marred = p.marred
  BY DEF Page
<1> HIDE DEF q
<1>2. Sound(q, mid, run, n)
  BY <1>1, SameSceneSound
<1>3. Keeps(q, r) /\ r \in Page
  BY <1>1, RebuildKeeps DEF Keeps
<1> HIDE DEF r
<1>4. Keeps(r, setPlaying(r, TRUE))
  BY <1>3, SetPlayingKeeps
<1>5. Keeps(q, setPlaying(r, TRUE))
  BY <1>3, <1>4, KeepsThrough
<1>6. endSnapshot(p) = q \/ endSnapshot(p) = setPlaying(r, TRUE)
  BY Zenon DEF endSnapshot, q, r
<1> QED BY <1>1, <1>2, <1>5, <1>6 DEF Keeps

Loaded(p, file, t0, last, capped, marks) ==
  [p EXCEPT !.events = file, !.t0 = t0, !.T = last, !.capped = capped, !.marred = marks]

LEMMA LoadedPage ==
  ASSUME NEW p \in Page, NEW file \in Seq(Shown), NEW t0 \in Int, NEW last \in Int,
         NEW capped \in BOOLEAN, NEW marks \in SUBSET Marks
  PROVE  Listing(Loaded(p, file, t0, last, capped, marks), p, file, p.nextIdx, marks)
BY DEF Page, Listing, Loaded

\* A page with a file is marked so until its list is emptied.
LEMMA LoadSound ==
  ASSUME NEW p \in Page, NEW mid, NEW run, NEW n
  PROVE  Sound(loadJSON(p), mid, run, n) /\ loadJSON(p).snapshotActive = p.snapshotActive
<1> DEFINE m == p.marred \union {"loaded"}
           last == File[Len(File)].dt
           q == Loaded(p, File, 1, last, FALSE, m)
           r == resetAll(q)
           s == rebuildSceneFromEvents(r)
<1>1. m \in SUBSET Marks /\ "loaded" \in m
  BY DEF Page, Marks
<1>2. File \in Seq(Shown) /\ last \in Int
  <2>1. File \in Seq(Shown) /\ File # <<>>
    BY LivePageAssumption DEF Shown
  <2>2. File[Len(File)] \in Shown
    <3>1. Len(File) \in Nat \ {0}
      BY <2>1, EmptySeq
    <3> QED BY <2>1, <3>1, ElementOfSeq
  <2> QED BY <2>1, <2>2 DEF Shown
<1> HIDE DEF m, last
<1>3. q \in Page /\ q.marred = m /\ q.snapshotActive = p.snapshotActive
  <2>0. m \in SUBSET Marks /\ 1 \in Int /\ FALSE \in BOOLEAN
    BY <1>1
  <2>1. Listing(q, p, File, p.nextIdx, m)
    BY <1>2, <2>0, LoadedPage
  <2> HIDE DEF q
  <2> QED BY <2>1 DEF Listing
<1> HIDE DEF q
<1>4. Sound(r, mid, run, n)
  BY <1>1, <1>3, ResetSound
<1>5. r \in Page /\ r.snapshotActive = p.snapshotActive
  BY <1>3, ResetPage DEF Scene
<1> HIDE DEF r
<1>6. Keeps(r, s) /\ s \in Page
  BY <1>5, RebuildKeeps DEF Keeps
<1> HIDE DEF s
<1>7. Keeps(s, [s EXCEPT !.ready = TRUE])
  BY <1>6, ReadyKeeps
<1>8. Keeps(r, [s EXCEPT !.ready = TRUE])
  BY <1>6, <1>7, KeepsThrough
<1>9. loadJSON(p) = [s EXCEPT !.ready = TRUE]
  BY Zenon DEF loadJSON, Loaded, m, last, q, r, s
<1> QED BY <1>4, <1>5, <1>8, <1>9 DEF Keeps

\* The event stepped back to is shown and still to come, and marked so.
LEMMA PrevSound ==
  ASSUME NEW p \in Page, NEW mid, NEW run, NEW n, Sound(p, mid, run, n), p.events # <<>>,
         NEW target \in Int
  PROVE  LET q == [fastForwardTo(setPlaying(p, FALSE), target) EXCEPT
                     !.nextIdx = Max({0, p.nextIdx - 1}), !.marred = @ \union {"stepped back"}]
         IN Sound(q, mid, run, n) /\ q.snapshotActive = p.snapshotActive
<1> DEFINE r == setPlaying(p, FALSE)
           s == fastForwardTo(r, target)
           idx == Max({0, p.nextIdx - 1})
           m == s.marred \union {"stepped back"}
           q == [s EXCEPT !.nextIdx = idx, !.marred = m]
<1>1. Keeps(p, r) /\ r \in Page
  BY SetPlayingKeeps DEF Keeps
<1> HIDE DEF r
<1>2. Keeps(r, s)
  BY <1>1, FastForwardKeeps
<1> HIDE DEF s
<1>3. Keeps(p, s)
  BY <1>1, <1>2, KeepsThrough
<1>4. s \in Page /\ s.events = p.events /\ s.snapshotActive = p.snapshotActive /\ Sound(s, mid, run, n)
  BY <1>3 DEF Keeps
<1>5. p.nextIdx \in Nat /\ p.nextIdx <= Len(p.events) /\ Len(p.events) \in Nat
  BY DEF Page, Sound
<1>6. idx \in Nat /\ idx <= Len(p.events)
  <2>1. p.nextIdx - 1 \in Int
    BY <1>5
  <2>2. idx = IF 0 > p.nextIdx - 1 THEN 0 ELSE p.nextIdx - 1
    BY <2>1, MaxOfPair
  <2> HIDE DEF idx
  <2> QED BY <1>5, <2>2
<1>7. m \in SUBSET Marks /\ m # {} /\ ("loaded" \notin m => "loaded" \notin s.marred)
  <2>1. s.marred \in SUBSET Marks
    BY <1>4 DEF Page
  <2> QED BY <2>1 DEF Marks
<1> HIDE DEF idx, m
<1>8. q \in Page /\ q.events = s.events /\ q.nextIdx = idx /\ q.marred = m
      /\ q.snapshotActive = s.snapshotActive
  BY <1>4, <1>6, <1>7 DEF Page
<1> HIDE DEF q
<1>9. Sound(q, mid, run, n)
  BY <1>4, <1>6, <1>7, <1>8 DEF Sound
<1>10. q.snapshotActive = p.snapshotActive
  BY <1>4, <1>8
<1> QED BY <1>9, <1>10, Zenon DEF q, idx, m, r, s

Abandoned(p, shown, marks) == [p EXCEPT !.playing = FALSE, !.shown = shown, !.marred = marks]

LEMMA AbandonedPage ==
  ASSUME NEW p \in Page, NEW shown \in Seq(Shown), NEW marks \in SUBSET Marks
  PROVE  Scene(Abandoned(p, shown, marks), p, p.nextIdx, shown, marks)
BY DEF Page, Scene, Abandoned

\* The index may stay where it was: no event is to come.
LEMMA ReconnectSound ==
  ASSUME NEW p \in Page, NEW run, NEW n
  PROVE  Sound([Emptied(p) EXCEPT !.playing = FALSE, !.shown = <<>>, !.marred = {}], FALSE, run, n)
<1> DEFINE q == Abandoned(Emptied(p), Nothing, {})
<1>1. {} \in SUBSET Marks /\ Nothing \in Seq(Shown)
  BY EmptySeq DEF Nothing
<1>2. [Emptied(p) EXCEPT !.playing = FALSE, !.shown = <<>>, !.marred = {}] = q
  BY Zenon DEF Abandoned, Nothing
<1>3. q \in Page /\ q.events = Nothing /\ q.shown = Nothing
  <2>1. Emptied(p) \in Page /\ Emptied(p).events = Nothing
    BY EmptiedPage, Zenon DEF Listing
  <2>2. Scene(q, Emptied(p), Emptied(p).nextIdx, Nothing, {})
    BY <1>1, <2>1, AbandonedPage
  <2> HIDE DEF q
  <2> QED BY <2>1, <2>2, Zenon DEF Scene
<1> HIDE DEF q
<1>4. Timeline(q) = Nothing
  <2>1. q.nextIdx + 1 > Len(q.events) /\ q.nextIdx + 1 \in Int /\ Len(q.events) \in Int
    <3>1. Len(q.events) = 0
      BY <1>3, EmptySeq DEF Nothing
    <3>2. q.nextIdx \in Nat
      BY <1>3 DEF Page
    <3> QED BY <3>1, <3>2
  <2>2. SubSeq(q.events, q.nextIdx + 1, Len(q.events)) = <<>>
    BY <2>1, SubSeqEmpty
  <2> QED BY <1>1, <1>3, <2>2, ConcatEmptySeq DEF Timeline
<1>5. Sound(q, FALSE, run, n)
  <2>1. q.events = <<>>
    BY <1>3 DEF Nothing
  <2> QED BY <1>3, <1>4, <2>1, EmptyUpTo DEF Sound
<1> QED BY <1>2, <1>5

-----------------------------------------------------------------------------
(* The invariant *)

LEMMA Weaken ==
  ASSUME NEW p, NEW mid \in BOOLEAN, NEW run, NEW n, Sound(p, mid, run, n), NEW run2, NEW n2
  PROVE  Sound(p, FALSE, run2, n2)
BY DEF Sound, UpTo

\* Outside a run that is announced and not ended, the number does not matter.
LEMMA Idle ==
  ASSUME Inv, NEW stage \in {"closed", "idle", "started", "audited"},
         session' \in Session, session'.stage = stage, Keeps(page, page')
  PROVE  Inv'
<1>1. Mid \in BOOLEAN /\ page \in Page /\ Sound(page, Mid, session.run, session.n)
  BY DEF Inv, Mid, Sound
<1>2. Sound(page', Mid, session.run, session.n)
  BY <1>1 DEF Keeps
<1>3. Sound(page', FALSE, session'.run, session'.n)
  BY <1>1, <1>2, Weaken
<1>4. Mid' = FALSE
  BY DEF Mid
<1> QED BY <1>3, <1>4 DEF Inv

\* What happens to the page alone.
LEMMA PageStep ==
  ASSUME Inv, UNCHANGED session, page'.snapshotActive = page.snapshotActive,
         Sound(page', Mid, session.run, session.n)
  PROVE  Inv'
BY DEF Inv, Mid

LEMMA KeepStep ==
  ASSUME Inv, UNCHANGED session, Keeps(page, page')
  PROVE  Inv'
BY PageStep DEF Inv, Keeps

LEMMA StageIsStage ==
  ASSUME session \in Session, NEW stage \in {"closed", "idle", "started", "snapshot", "events", "audited"}
  PROVE  LET s == [session EXCEPT !.stage = stage]
         IN s \in Session /\ s.stage = stage /\ s.run = session.run /\ s.n = session.n
BY DEF Session

\* The page takes the next event.
LEMMA EventStep ==
  ASSUME Inv, NEW e \in Incoming, e.run = session.run, e.n = session.n,
         session.stage \in {"snapshot", "events"},
         session' \in Session, session'.run = session.run, session'.n = session.n + 1,
         page' = IF session.stage = "snapshot" THEN applySnapshotEvent(page, e) ELSE applyEvent(page, e)
  PROVE  /\ session'.stage = session.stage => Inv'
         /\ session'.stage = "audited" => Inv'
<1>1. session.run \in Nat /\ session.n \in Nat
  BY DEF Inv, Session
<1>2. Mid /\ Sound(page, TRUE, session.run, session.n) /\ page \in Page
  BY DEF Inv, Mid, Sound
<1>3. Grown(page, page', session.run, session.n)
  <2>1. CASE session.stage = "snapshot"
    <3>1. page.snapshotActive /\ page' = applySnapshotEvent(page, e)
      BY <2>1 DEF Inv
    <3> QED BY <1>1, <1>2, <3>1, SnapshotEventSound
  <2>2. CASE session.stage = "events"
    <3>1. page' = applyEvent(page, e) /\ ~page.snapshotActive
      BY <2>2 DEF Inv
    <3>2. page' = processLiveEvent(page, e)
      BY <3>1 DEF applyEvent
    <3> QED BY <1>1, <1>2, <3>2, ProcessSound
  <2> QED BY <2>1, <2>2
<1>4. Sound(page', TRUE, session'.run, session'.n) /\ page'.snapshotActive = page.snapshotActive
  BY <1>3 DEF Grown
<1>5. ASSUME session'.stage = session.stage
      PROVE  Inv'
  <2>1. Mid' = TRUE
    BY <1>5 DEF Mid
  <2> QED BY <1>4, <1>5, <2>1 DEF Inv
<1>6. ASSUME session'.stage = "audited"
      PROVE  Inv'
  <2>1. Mid' = FALSE
    BY <1>6 DEF Mid
  <2>2. Sound(page', FALSE, session'.run, session'.n)
    BY <1>4, Weaken
  <2> QED BY <1>6, <2>1, <2>2 DEF Inv
<1> QED BY <1>5, <1>6

LEMMA NumberedIsIncoming ==
  ASSUME session \in Session, NEW time \in Int, NEW note \in BOOLEAN
  PROVE  /\ Numbered(time, note) \in Incoming
         /\ Numbered(time, note).run = session.run /\ Numbered(time, note).n = session.n
BY DEF Session, Incoming, Numbered

\* The session s follows, with the given stage and the next number.
Counted(s, stage, n) ==
  s \in Session /\ s.stage = stage /\ s.run = session.run /\ s.n = n

LEMMA CountedSession ==
  ASSUME session \in Session, NEW n \in Nat, NEW top \in Int,
         NEW stage \in {"closed", "idle", "started", "snapshot", "events", "audited"}
  PROVE  /\ Counted([session EXCEPT !.n = n, !.top = top], session.stage, n)
         /\ Counted([session EXCEPT !.stage = stage, !.n = n], stage, n)
BY DEF Session, Counted

LEMMA NextEvent ==
  ASSUME session \in Session, NEW time \in Int
  PROVE  Counted([session EXCEPT !.n = session.n + 1, !.top = Max({session.top, time})],
                 session.stage, session.n + 1)
<1> DEFINE top == Max({session.top, time})
<1>1. top \in Int
  <2>1. session.top \in Int
    BY DEF Session
  <2>2. top = IF session.top > time THEN session.top ELSE time
    BY <2>1, MaxOfPair
  <2> HIDE DEF top
  <2> QED BY <2>1, <2>2
<1>2. session.n + 1 \in Nat
  BY DEF Session
<1>3. Counted([session EXCEPT !.n = session.n + 1, !.top = top], session.stage, session.n + 1)
  <2> HIDE DEF top
  <2> QED BY <1>1, <1>2, CountedSession
<1> QED BY <1>3

LEMMA MessageStep ==
  ASSUME Inv, Messages
  PROVE  Inv'
<1>0. session \in Session /\ page \in Page /\ session.run \in Nat /\ session.n \in Nat
  BY DEF Inv, Session, Sound
<1>1. CASE RunStart
  <2>1. CASE UNCHANGED <<session, page>>
    BY <1>0, <2>1, KeepsSelf, KeepStep
  <2>2. CASE /\ session' = [stage |-> "started", run |-> session.run + 1, n |-> 1, top |-> 1]
             /\ page' = [page EXCEPT !.ready = FALSE]
    <3>1. Keeps(page, page')
      BY <1>0, <2>2, ReadyKeeps
    <3>2. session' \in Session /\ session'.stage = "started"
      BY <1>0, <2>2 DEF Session
    <3> QED BY <3>1, <3>2, Idle
  <2> QED BY <1>1, <2>1, <2>2 DEF RunStart
<1>2. CASE SnapshotBegin
  <2>1. session' = [session EXCEPT !.stage = "snapshot"] /\ page' = beginSnapshot(page)
    BY <1>2 DEF SnapshotBegin, Stage
  <2>2. session' \in Session /\ session'.stage = "snapshot"
    BY <1>0, <2>1, StageIsStage
  <2>3. page'.snapshotActive /\ Sound(page', Mid', session'.run, session'.n)
    BY <1>0, <2>1, BeginSound
  <2> QED BY <2>2, <2>3 DEF Inv
<1>3. CASE SnapshotEvent
  <2>1. PICK time \in Max({1, session.top - Lateness})..Least(session.top + 1, MaxTime), note \in BOOLEAN :
          /\ page' = applySnapshotEvent(page, Numbered(time, note))
          /\ session' = [session EXCEPT !.n = session.n + 1, !.top = Max({session.top, time})]
    BY <1>3 DEF SnapshotEvent, Event
  <2>2. session.stage = "snapshot"
    BY <1>3 DEF SnapshotEvent, Event
  <2>3. time \in Int
    OBVIOUS
  <2>4. session' \in Session /\ session'.stage = session.stage /\ session'.run = session.run
        /\ session'.n = session.n + 1
    BY <1>0, <2>1, <2>3, NextEvent DEF Counted
  <2>5. /\ Numbered(time, note) \in Incoming
        /\ Numbered(time, note).run = session.run /\ Numbered(time, note).n = session.n
    BY <1>0, <2>3, NumberedIsIncoming
  <2> QED BY <2>1, <2>2, <2>4, <2>5, EventStep
<1>4. CASE SnapshotEnd
  <2>1. session.stage = "snapshot" /\ session' = [session EXCEPT !.stage = "events"]
        /\ page' = endSnapshot(page)
    BY <1>4 DEF SnapshotEnd, Stage
  <2>2. session' \in Session /\ session'.stage = "events" /\ session'.run = session.run
        /\ session'.n = session.n
    BY <1>0, <2>1, StageIsStage
  <2>3. Mid = TRUE /\ Mid' = TRUE
    BY <2>1, <2>2 DEF Mid
  <2>4. ~page'.snapshotActive /\ Sound(page', TRUE, session.run, session.n)
    BY <1>0, <2>1, <2>3, EndSound DEF Inv
  <2> QED BY <2>2, <2>3, <2>4 DEF Inv
<1>5. CASE LiveEvent
  <2>1. PICK time \in Max({1, session.top - Lateness})..Least(session.top + 1, MaxTime), note \in BOOLEAN :
          /\ page' = applyEvent(page, Numbered(time, note))
          /\ session' = [session EXCEPT !.n = session.n + 1, !.top = Max({session.top, time})]
    BY <1>5 DEF LiveEvent, Event
  <2>2. session.stage = "events"
    BY <1>5 DEF LiveEvent, Event
  <2>3. time \in Int
    OBVIOUS
  <2>4. session' \in Session /\ session'.stage = session.stage /\ session'.run = session.run
        /\ session'.n = session.n + 1
    BY <1>0, <2>1, <2>3, NextEvent DEF Counted
  <2>5. /\ Numbered(time, note) \in Incoming
        /\ Numbered(time, note).run = session.run /\ Numbered(time, note).n = session.n
    BY <1>0, <2>3, NumberedIsIncoming
  <2> QED BY <2>1, <2>2, <2>4, <2>5, EventStep
<1>6. CASE AuditSummary
  <2>1. session.stage = "events" /\ page' = applyEvent(page, Numbered(session.top, FALSE))
        /\ session' = [session EXCEPT !.stage = "audited", !.n = session.n + 1]
    BY <1>6 DEF AuditSummary
  <2>2. session' \in Session /\ session'.stage = "audited" /\ session'.run = session.run
        /\ session'.n = session.n + 1
    <3>1. session.n + 1 \in Nat /\ session.top \in Int
      BY <1>0 DEF Session
    <3>2. Counted(session', "audited", session.n + 1)
      BY <1>0, <2>1, <3>1, CountedSession
    <3> QED BY <3>2 DEF Counted
  <2>3. session.top \in Int
    BY <1>0 DEF Session
  <2>4. /\ Numbered(session.top, FALSE) \in Incoming
        /\ Numbered(session.top, FALSE).run = session.run /\ Numbered(session.top, FALSE).n = session.n
    BY <1>0, <2>3, NumberedIsIncoming
  <2> QED BY <2>1, <2>2, <2>4, EventStep
<1>7. CASE RunEnd
  <2>1. session' \in Session /\ session'.stage = "idle"
    BY <1>0, <1>7, StageIsStage DEF RunEnd, Stage
  <2>2. Keeps(page, page')
    BY <1>0, <1>7, ReadyKeeps DEF RunEnd
  <2> QED BY <2>1, <2>2, Idle
<1>8. CASE Failed
  <2>1. session' \in Session /\ session'.stage = "idle"
    BY <1>0, <1>8, StageIsStage DEF Failed, Stage
  <2>2. Keeps(page, page')
    BY <1>0, <1>8, KeepsSelf DEF Failed
  <2> QED BY <2>1, <2>2, Idle
<1>9. CASE Closed
  <2>1. session' \in Session /\ session'.stage = "closed"
    BY <1>0, <1>9, StageIsStage DEF Closed
  <2>2. Keeps(page, page')
    BY <1>0, <1>9, KeepsSelf DEF Closed
  <2> QED BY <2>1, <2>2, Idle
<1> QED BY <1>1, <1>2, <1>3, <1>4, <1>5, <1>6, <1>7, <1>8, <1>9 DEF Messages

LEMMA ClickStep ==
  ASSUME Inv, Clicks
  PROVE  Inv'
<1>0. session \in Session /\ page \in Page /\ Sound(page, Mid, session.run, session.n)
  BY DEF Inv, Sound
<1>1. CASE Play
  BY <1>0, <1>1, SetPlayingKeeps, KeepStep DEF Play, Stay
<1>2. CASE Pause
  BY <1>0, <1>2, SetPlayingKeeps, KeepStep DEF Pause, Stay
<1>3. CASE Step
  <2> DEFINE f == Fire(page, 1)
             t == page.events[page.nextIdx + 1].dt
  <2>1. page' = [f EXCEPT !.simNow = t] /\ page.nextIdx < Len(page.events) /\ UNCHANGED session
    BY <1>3 DEF Step, Stay
  <2>2. t \in Int /\ page.nextIdx + 1 <= Len(page.events)
    <3>1. page.events \in Seq(Shown) /\ page.nextIdx \in Nat /\ Len(page.events) \in Nat
      BY <1>0 DEF Page
    <3>2. page.nextIdx + 1 \in 1..Len(page.events)
      BY <2>1, <3>1
    <3>3. page.events[page.nextIdx + 1] \in Shown
      BY <3>1, <3>2, ElementOfSeq
    <3> QED BY <3>2, <3>3 DEF Shown
  <2>3. Keeps(page, f) /\ f \in Page
    BY <1>0, <2>2, FireKeeps, 1 \in Nat DEF Keeps
  <2> HIDE DEF f, t
  <2>4. Keeps(f, page')
    BY <2>1, <2>2, <2>3, ClockKeeps
  <2> QED BY <2>1, <2>3, <2>4, KeepsThrough, KeepStep
<1>4. CASE Prev
  <2> DEFINE prevIdx == Max({0, page.nextIdx - 1})
             target == IF prevIdx < Len(page.events) THEN page.events[prevIdx + 1].dt ELSE 0
  <2>1. /\ page.events # <<>> /\ UNCHANGED session
        /\ page' = [fastForwardTo(setPlaying(page, FALSE), target) EXCEPT
                      !.nextIdx = prevIdx, !.marred = @ \union {"stepped back"}]
    BY <1>4 DEF Prev, Stay
  <2>2. target \in Int
    <3>1. page.events \in Seq(Shown) /\ page.nextIdx \in Nat /\ Len(page.events) \in Nat
      BY <1>0 DEF Page
    <3>2. prevIdx \in Nat
      <4>1. page.nextIdx - 1 \in Int
        BY <3>1
      <4>2. prevIdx = IF 0 > page.nextIdx - 1 THEN 0 ELSE page.nextIdx - 1
        BY <4>1, MaxOfPair
      <4> HIDE DEF prevIdx
      <4> QED BY <3>1, <4>2
    <3> HIDE DEF prevIdx
    <3>3. prevIdx < Len(page.events) => page.events[prevIdx + 1] \in Shown
      BY <3>1, <3>2, ElementOfSeq
    <3> QED BY <3>3 DEF Shown
  <2> HIDE DEF target
  <2>3. Sound(page', Mid, session.run, session.n) /\ page'.snapshotActive = page.snapshotActive
    BY <1>0, <2>1, <2>2, PrevSound
  <2> QED BY <2>1, <2>3, PageStep
<1>5. CASE Scrub
  <2>1. PICK ms \in Least(0, page.T)..Max({0, page.T}) : page' = fastForwardTo(page, ms)
    BY <1>5 DEF Scrub
  <2>2. ms \in Int /\ UNCHANGED session
    BY <1>5 DEF Scrub, Stay
  <2> QED BY <1>0, <2>1, <2>2, FastForwardKeeps, KeepStep
<1>6. CASE LoadFile
  BY <1>0, <1>6, LoadSound, PageStep DEF LoadFile, Stay
<1>7. CASE Download
  BY <1>0, <1>7, RebuildKeeps, KeepStep DEF Download, Stay
<1>8. CASE Rerun
  <2> DEFINE r == setPlaying(page, FALSE)
  <2>1. page' = resetAll(Emptied(r))
    BY <1>8 DEF Rerun
  <2>2. r \in Page /\ r.snapshotActive = page.snapshotActive
    BY <1>0, SetPlayingKeeps DEF Keeps
  <2> HIDE DEF r
  <2>3. page'.snapshotActive = page.snapshotActive /\ \A mid, run, n : Sound(page', mid, run, n)
    BY <2>1, <2>2, EmptiedSound
  <2>4. CASE UNCHANGED session
    BY <2>3, <2>4, PageStep
  <2>5. CASE session' = [session EXCEPT !.stage = "idle"]
    <3>1. session' \in Session /\ session'.stage = "idle"
      BY <1>0, <2>5, StageIsStage
    <3> QED BY <2>3, <3>1 DEF Inv
  <2> QED BY <1>8, <2>4, <2>5 DEF Rerun, startLiveConnection
<1>9. CASE reconnectFromUI
  <2>1. /\ page' = [Emptied(page) EXCEPT !.playing = FALSE, !.shown = <<>>, !.marred = {}]
        /\ session' = [session EXCEPT !.stage = "idle"]
    BY <1>9 DEF reconnectFromUI, startLiveConnection
  <2>2. session' \in Session /\ session'.stage = "idle"
    BY <1>0, <2>1, StageIsStage
  <2>3. \A run, n : Sound(page', FALSE, run, n)
    BY <1>0, <2>1, ReconnectSound
  <2>4. Mid' = FALSE
    BY <2>2 DEF Mid
  <2> QED BY <2>2, <2>3, <2>4 DEF Inv
<1> QED BY <1>1, <1>2, <1>3, <1>4, <1>5, <1>6, <1>7, <1>8, <1>9 DEF Clicks

LEMMA InitInv == Init => Inv
<1> SUFFICES ASSUME Init
             PROVE  Inv
  OBVIOUS
<1> DEFINE none == {}
           q == [events |-> Nothing, t0 |-> 0, T |-> 0, nextIdx |-> 0, simNow |-> 0, playing |-> FALSE,
                 frames |-> 0, snapshotActive |-> FALSE, snapshotApplied |-> FALSE, capped |-> FALSE,
                 ready |-> FALSE, shown |-> Nothing, marred |-> none]
<1>1. page = q
  BY DEF Init, Nothing
<1>2. Nothing \in Seq(Shown) /\ none \in SUBSET Marks
  BY EmptySeq DEF Nothing
<1> HIDE DEF none
<1>3. q \in Page /\ q.events = Nothing /\ q.shown = Nothing /\ q.nextIdx = 0
  BY <1>2 DEF Page
<1> HIDE DEF q
<1>4. Timeline(q) = Nothing
  <2>1. SubSeq(q.events, q.nextIdx + 1, Len(q.events)) = <<>>
    <3>1. Len(q.events) = 0
      BY <1>3, EmptySeq DEF Nothing
    <3>2. q.nextIdx + 1 > Len(q.events) /\ q.nextIdx + 1 \in Int /\ Len(q.events) \in Int
      BY <1>3, <3>1
    <3> QED BY <3>2, SubSeqEmpty
  <2> QED BY <1>2, <1>3, <2>1, ConcatEmptySeq DEF Timeline
<1>5. \A run, n : Sound(q, FALSE, run, n)
  <2>1. q.events = <<>>
    BY <1>3 DEF Nothing
  <2> QED BY <1>3, <1>4, <2>1, EmptyUpTo DEF Sound
<1>6. session \in Session /\ session.stage = "idle" /\ Mid = FALSE
  BY DEF Init, Session, Mid
<1> QED BY <1>1, <1>5, <1>6 DEF Inv

\* The invariant: the page's list and its timeline end with the event that the
\* server sent last, or with none.
THEOREM Invariance == Spec => []Inv
<1>1. ASSUME Inv, [Next]_vars
      PROVE  Inv'
  <2>1. CASE Messages
    BY <1>1, <2>1, MessageStep
  <2>2. CASE Clicks
    BY <1>1, <2>2, ClickStep
  <2>3. CASE \E d \in 0..2 : Frame(d)
    <3>1. PICK d \in 0..2 : Frame(d)
      BY <2>3
    <3>2. Keeps(page, page') /\ UNCHANGED session
      BY <1>1, <3>1, LoopKeeps DEF Frame, Inv, Sound
    <3> QED BY <1>1, <3>2, KeepStep
  <2>4. CASE UNCHANGED vars
    BY <1>1, <2>4, KeepsSelf, KeepStep DEF vars, Inv, Sound
  <2> QED BY <1>1, <2>1, <2>2, <2>3, <2>4 DEF Next
<1> QED BY <1>1, InitInv, PTL DEF Spec

\* What the page has shown and what it has still to show are consecutive events
\* of one run, unless the user stepped back, a full list lost events that were
\* not shown, or a file was loaded: for every capacity of the list, size of a
\* frame's portion, file, order of times and number of runs, events and clicks.
THEOREM ShowsOneTimeline == Spec => []OneTimeline
<1>1. Inv => OneTimeline
  BY DEF Inv, Sound, UpTo, OneTimeline
<1> QED BY <1>1, Invariance, PTL

-----------------------------------------------------------------------------
(* A page that plays goes on to the end of its list.                       *)

\* A page that plays has asked for a frame.
Rolls(p) ==
  /\ {"playing", "frames"} \subseteq DOMAIN p
  /\ p.frames \in Nat /\ (p.playing => p.frames > 0)

\* The page q plays as p does, with the same frames asked for.
Alike(p, q) == {"playing", "frames"} \subseteq DOMAIN q /\ q.playing = p.playing /\ q.frames = p.frames

LEMMA AlikeRolls ==
  ASSUME NEW p, NEW q, Rolls(p), Alike(p, q)
  PROVE  Rolls(q)
BY DEF Rolls, Alike

LEMMA FireAlike ==
  ASSUME NEW p, Rolls(p), NEW k
  PROVE  Alike(p, Fire(p, k))
BY DEF Rolls, Alike, Fire

LEMMA ResetAlike ==
  ASSUME NEW p, Rolls(p)
  PROVE  Alike(p, resetAll(p))
BY DEF Rolls, Alike, resetAll

LEMMA ClockAlike ==
  ASSUME NEW p, Rolls(p), NEW t
  PROVE  Alike(p, [p EXCEPT !.simNow = t])
BY DEF Rolls, Alike

LEMMA RefireRolls ==
  ASSUME NEW p, Rolls(p), NEW k, NEW t
  PROVE  Rolls([Fire(resetAll(p), k) EXCEPT !.simNow = t])
<1>1. Rolls(resetAll(p))
  BY ResetAlike, AlikeRolls
<1>2. Rolls(Fire(resetAll(p), k))
  BY <1>1, FireAlike, AlikeRolls
<1> QED BY <1>2, ClockAlike, AlikeRolls

\* Starting asks for one more frame; a frame under way may be left over when the
\* page is stopped, and finds nothing to do.
LEMMA SetPlayingRolls ==
  ASSUME NEW p, Rolls(p), NEW play \in BOOLEAN
  PROVE  /\ Rolls(setPlaying(p, play))
         /\ setPlaying(p, play).playing = play
<1> DEFINE q == IF play /\ (p.nextIdx >= Len(p.events) \/ p.simNow >= p.T) THEN resetAll(p) ELSE p
<1>1. Rolls(q)
  BY ResetAlike, AlikeRolls
<1>2. setPlaying(p, play) = [q EXCEPT !.playing = play, !.frames = IF play THEN @ + 1 ELSE @]
  BY Zenon DEF setPlaying
<1> HIDE DEF q
<1> QED BY <1>1, <1>2 DEF Rolls

LEMMA ProcessRolls ==
  ASSUME NEW p, Rolls(p), NEW e
  PROVE  Rolls(processLiveEvent(p, e))
<1> DEFINE t0 == IF p.t0 = 0 THEN e.time ELSE p.t0
           evt == [run |-> e.run, n |-> e.n, note |-> e.note, dt |-> e.time - t0]
           all == Append(p.events, evt)
           over == Max({0, Len(all) - Cap})
           q == [p EXCEPT !.t0 = t0, !.T = evt.dt,
                     !.events = SubSeq(all, over + 1, Len(all)),
                     !.nextIdx = Max({0, @ - over}),
                     !.capped = @ \/ over > 0,
                     !.marred = IF over > p.nextIdx THEN @ \union {"dropped"} ELSE @]
<1>1. Alike(p, q)
  <2> HIDE DEF t0, evt, all, over
  <2> QED BY DEF Rolls, Alike
<1>2. processLiveEvent(p, e) = q \/ processLiveEvent(p, e) = setPlaying(q, TRUE)
  BY Zenon DEF processLiveEvent
<1> HIDE DEF q
<1> QED BY <1>1, <1>2, AlikeRolls, SetPlayingRolls

LEMMA EmptiedRolls ==
  ASSUME NEW p, Rolls(p)
  PROVE  Rolls(Emptied(p))
<1>1. Alike(p, Emptied(p))
  BY DEF Rolls, Alike, Emptied
<1> QED BY <1>1, AlikeRolls

LEMMA RebuildRolls ==
  ASSUME NEW p, Rolls(p)
  PROVE  Rolls(rebuildSceneFromEvents(p))
BY RefireRolls DEF rebuildSceneFromEvents

LEMMA FastForwardRolls ==
  ASSUME NEW p, Rolls(p), NEW ms
  PROVE  Rolls(fastForwardTo(p, ms))
BY RefireRolls DEF fastForwardTo

LEMMA StoppedRolls ==
  ASSUME NEW p, Rolls(p)
  PROVE  Rolls(resetAll(Emptied(setPlaying(p, FALSE))))
<1> DEFINE q == setPlaying(p, FALSE)
<1>1. Rolls(q)
  BY SetPlayingRolls
<1> HIDE DEF q
<1>2. Rolls(Emptied(q))
  BY <1>1, EmptiedRolls
<1>3. Rolls(resetAll(Emptied(q)))
  BY <1>2, ResetAlike, AlikeRolls
<1> QED BY <1>3, Zenon DEF q

LEMMA BeginRolls ==
  ASSUME NEW p, Rolls(p)
  PROVE  Rolls(beginSnapshot(p))
<1> DEFINE q == resetAll(Emptied(setPlaying(p, FALSE)))
<1>1. Rolls(q)
  BY StoppedRolls, Zenon
<1>2. beginSnapshot(p) = [q EXCEPT !.snapshotActive = TRUE, !.snapshotApplied = FALSE, !.capped = FALSE]
  BY DEF beginSnapshot
<1> HIDE DEF q
<1>3. Alike(q, beginSnapshot(p))
  BY <1>1, <1>2 DEF Rolls, Alike
<1> QED BY <1>1, <1>3, AlikeRolls

LEMMA SnapshotEventRolls ==
  ASSUME NEW p, Rolls(p), NEW e
  PROVE  Rolls(applySnapshotEvent(p, e)) /\ Rolls(applyEvent(p, e))
<1>1. Rolls(processLiveEvent(p, e))
  BY ProcessRolls
<1>2. Alike(processLiveEvent(p, e), [processLiveEvent(p, e) EXCEPT !.snapshotApplied = TRUE])
  BY <1>1 DEF Rolls, Alike
<1> QED BY <1>1, <1>2, AlikeRolls DEF applySnapshotEvent, applyEvent

LEMMA EndRolls ==
  ASSUME NEW p, Rolls(p)
  PROVE  Rolls(endSnapshot(p))
<1> DEFINE q == [p EXCEPT !.snapshotActive = FALSE]
<1>1. Alike(p, q)
  BY DEF Rolls, Alike
<1>2. endSnapshot(p) = q \/ endSnapshot(p) = setPlaying(rebuildSceneFromEvents(q), TRUE)
  BY Zenon DEF endSnapshot
<1> HIDE DEF q
<1> QED BY <1>1, <1>2, AlikeRolls, RebuildRolls, SetPlayingRolls

LEMMA LoadRolls ==
  ASSUME NEW p, Rolls(p)
  PROVE  Rolls(loadJSON(p))
<1> DEFINE q == [p EXCEPT !.events = File, !.t0 = 1, !.T = File[Len(File)].dt,
                          !.capped = FALSE, !.marred = @ \union {"loaded"}]
           r == rebuildSceneFromEvents(resetAll(q))
<1>1. Alike(p, q)
  BY DEF Rolls, Alike
<1>2. loadJSON(p) = [r EXCEPT !.ready = TRUE]
  BY Zenon DEF loadJSON
<1>3. Rolls(r)
  <2> HIDE DEF q
  <2> QED BY <1>1, AlikeRolls, ResetAlike, RebuildRolls
<1> HIDE DEF r
<1>4. Alike(r, [r EXCEPT !.ready = TRUE])
  BY <1>3 DEF Rolls, Alike
<1> QED BY <1>2, <1>3, <1>4, AlikeRolls

\* A frame gives its callback back only when the page does not play, or stops.
LEMMA LoopRolls ==
  ASSUME NEW p, Rolls(p), p.frames > 0, NEW d
  PROVE  Rolls(loop(p, d))
<1> DEFINE now == Least(p.T, p.simNow + d)
           due == Due(p, p.nextIdx, now)
           k == IF now < p.T THEN Portion(p, due) ELSE due
           fired == [Fire(p, k) EXCEPT !.simNow = now]
           g == [fired EXCEPT !.frames = @ - 1]
<1>1. /\ ~p.playing => loop(p, d) = [p EXCEPT !.frames = @ - 1]
      /\ p.playing => loop(p, d) = fired \/ loop(p, d) = setPlaying(g, FALSE)
  BY Zenon DEF loop
<1>2. Rolls(fired) /\ fired.frames > 0
  <2>1. Alike(p, Fire(p, k)) /\ Rolls(Fire(p, k))
    BY FireAlike, AlikeRolls
  <2>2. Alike(Fire(p, k), fired) /\ Rolls(fired)
    BY <2>1, ClockAlike, AlikeRolls
  <2> QED BY <2>1, <2>2 DEF Alike
<1>3. ~p.playing => Rolls([p EXCEPT !.frames = @ - 1])
  BY DEF Rolls
<1> HIDE DEF fired
<1>4. /\ {"playing", "frames"} \subseteq DOMAIN g /\ g.frames \in Nat
  BY <1>2 DEF Rolls
<1> HIDE DEF g
<1>5. Rolls(setPlaying(g, FALSE))
  BY <1>4 DEF setPlaying, Rolls
<1> QED BY <1>1, <1>2, <1>3, <1>5

LEMMA RollsStep ==
  ASSUME Rolls(page), [Next]_vars
  PROVE  Rolls(page')
<1>1. CASE Messages
  <2>1. CASE RunStart
    <3>1. Alike(page, [page EXCEPT !.ready = FALSE])
      BY DEF Rolls, Alike
    <3> QED BY <2>1, <3>1, AlikeRolls DEF RunStart
  <2>2. CASE SnapshotBegin
    BY <2>2, BeginRolls DEF SnapshotBegin
  <2>3. CASE SnapshotEvent
    BY <2>3, SnapshotEventRolls DEF SnapshotEvent, Event
  <2>4. CASE SnapshotEnd
    BY <2>4, EndRolls DEF SnapshotEnd
  <2>5. CASE LiveEvent
    BY <2>5, SnapshotEventRolls DEF LiveEvent, Event
  <2>6. CASE AuditSummary
    BY <2>6, SnapshotEventRolls DEF AuditSummary
  <2>7. CASE RunEnd
    <3>1. Alike(page, [page EXCEPT !.ready = TRUE])
      BY DEF Rolls, Alike
    <3> QED BY <2>7, <3>1, AlikeRolls DEF RunEnd
  <2>8. CASE Failed \/ Closed
    BY <2>8 DEF Failed, Closed
  <2> QED BY <1>1, <2>1, <2>2, <2>3, <2>4, <2>5, <2>6, <2>7, <2>8 DEF Messages
<1>2. CASE Clicks
  <2>1. CASE Play
    BY <2>1, SetPlayingRolls DEF Play
  <2>2. CASE Pause
    BY <2>2, SetPlayingRolls DEF Pause
  <2>3. CASE Step
    <3>1. Rolls(Fire(page, 1))
      BY FireAlike, AlikeRolls
    <3>2. page' = [Fire(page, 1) EXCEPT !.simNow = page.events[page.nextIdx + 1].dt]
      BY <2>3 DEF Step
    <3>3. Alike(Fire(page, 1), page')
      BY <3>1, <3>2, ClockAlike, Zenon
    <3> QED BY <3>1, <3>3, AlikeRolls
  <2>4. CASE Prev
    <3>1. PICK target, prevIdx :
            page' = [fastForwardTo(setPlaying(page, FALSE), target) EXCEPT
                       !.nextIdx = prevIdx, !.marred = @ \union {"stepped back"}]
      BY <2>4, Zenon DEF Prev
    <3> DEFINE q == fastForwardTo(setPlaying(page, FALSE), target)
    <3>2. Rolls(q)
      BY SetPlayingRolls, FastForwardRolls
    <3> HIDE DEF q
    <3>3. page' = [q EXCEPT !.nextIdx = prevIdx, !.marred = @ \union {"stepped back"}]
      BY <3>1 DEF q
    <3>4. Alike(q, page')
      BY <3>2, <3>3 DEF Rolls, Alike
    <3> QED BY <3>2, <3>4, AlikeRolls
  <2>5. CASE Scrub
    BY <2>5, FastForwardRolls DEF Scrub
  <2>6. CASE LoadFile
    BY <2>6, LoadRolls DEF LoadFile
  <2>7. CASE Download
    BY <2>7, RebuildRolls DEF Download
  <2>8. CASE Rerun
    BY <2>8, StoppedRolls DEF Rerun
  <2>9. CASE reconnectFromUI
    <3> DEFINE q == Emptied(page)
    <3>1. Rolls(q)
      BY EmptiedRolls
    <3>2. page' = [q EXCEPT !.playing = FALSE, !.shown = <<>>, !.marred = {}]
      BY <2>9 DEF reconnectFromUI
    <3> HIDE DEF q
    <3> QED BY <3>1, <3>2 DEF Rolls
  <2> QED BY <1>2, <2>1, <2>2, <2>3, <2>4, <2>5, <2>6, <2>7, <2>8, <2>9 DEF Clicks
<1>3. CASE \E d \in 0..2 : Frame(d)
  BY <1>3, LoopRolls DEF Frame
<1>4. CASE UNCHANGED vars
  BY <1>4 DEF vars
<1> QED BY <1>1, <1>2, <1>3, <1>4 DEF Next

\* When no event of the list is later than the limit, all that are left are due.
LEMMA AllDue ==
  ASSUME NEW p \in Page, NEW idx \in Nat, idx <= Len(p.events), NEW limit \in Int,
         \A i \in 1..Len(p.events) : p.events[i].dt <= limit
  PROVE  Due(p, idx, limit) = Len(p.events) - idx
<1> DEFINE S == {k \in 0..Len(p.events) :
                   \A i \in 1..k : idx + i <= Len(p.events) /\ p.events[idx + i].dt <= limit}
           n == Len(p.events) - idx
<1>1. Len(p.events) \in Nat
  BY DEF Page
<1>2. n \in S
  <2>1. n \in 0..Len(p.events)
    BY <1>1
  <2>2. \A i \in 1..n : idx + i \in 1..Len(p.events)
    BY <1>1
  <2> QED BY <2>1, <2>2
<1>3. \A k \in S : k <= n
  <2>1. TAKE k \in S
  <2>2. k \in 0..Len(p.events) /\ \A i \in 1..k : idx + i <= Len(p.events)
    BY <2>1
  <2> HIDE DEF S
  <2>3. k > 0 => idx + k <= Len(p.events)
    BY <1>1, <2>2
  <2> QED BY <1>1, <2>2, <2>3
<1>4. S \subseteq Int
  OBVIOUS
<1>5. n \in Int
  BY <1>1
<1> HIDE DEF S, n
<1>6. Max(S) \in S /\ \A y \in S : Max(S) >= y
  <2>1. \A y \in S : n >= y
    BY <1>3, <1>4, <1>5
  <2> QED BY <1>2, <2>1, Zenon DEF Max
<1>7. Max(S) = n
  <2>1. Max(S) <= n /\ Max(S) >= n /\ Max(S) \in Int
    BY <1>2, <1>3, <1>4, <1>6
  <2> QED BY <1>5, <2>1
<1> QED BY <1>7 DEF Due, S, n

\* A frame in which time passes fires all that is left, or leaves the page
\* playing at a later time that is still before the end.
LEMMA LoopNearer ==
  ASSUME NEW p \in Page, p.playing, NEW d \in Nat \ {0},
         \A i \in 1..Len(p.events) : p.events[i].dt <= p.T
  PROVE  LET q == loop(p, d)
         IN /\ q.events = p.events /\ q.T = p.T
            /\ \/ q.nextIdx >= Len(q.events)
               \/ q.playing /\ p.simNow < q.simNow /\ q.simNow < q.T
<1> DEFINE now == Least(p.T, p.simNow + d)
           due == Due(p, p.nextIdx, now)
           k == IF now < p.T THEN Portion(p, due) ELSE due
           r == Fire(p, k)
           fired == [r EXCEPT !.simNow = now]
           g == [fired EXCEPT !.frames = @ - 1]
<1>0. /\ p.nextIdx \in Nat /\ p.T \in Int /\ p.simNow \in Int /\ p.frames \in Int
      /\ Len(p.events) \in Nat /\ d \in Nat /\ d > 0
  BY DEF Page
<1>1. now < p.T => p.simNow < now
  BY <1>0 DEF Least
<1>2. ~ (now < p.T) => now = p.T
  <2>1. \A a, b \in Int : ~ (Least(a, b) < a) => Least(a, b) = a
    BY DEF Least
  <2>2. p.T \in Int /\ p.simNow + d \in Int
    BY <1>0
  <2> QED BY <2>1, <2>2, Zenon
<1>3. ~ (now < p.T) => p.nextIdx + k >= Len(p.events)
  <2>1. SUFFICES ASSUME ~ (now < p.T)
                 PROVE  p.nextIdx + k >= Len(p.events)
    OBVIOUS
  <2>2. k = Due(p, p.nextIdx, p.T)
    BY <1>2, <2>1
  <2>3. k \in Nat
    BY <1>0, <2>2, DueWithin
  <2>4. p.nextIdx <= Len(p.events) => k = Len(p.events) - p.nextIdx
    BY <1>0, <2>2, AllDue
  <2> HIDE DEF k
  <2> QED BY <1>0, <2>3, <2>4
<1>4. /\ now < p.T => loop(p, d) = fired
      /\ ~ (now < p.T) => loop(p, d) = setPlaying(g, FALSE)
  BY Zenon DEF loop
<1> HIDE DEF now, due, k
<1>5. /\ r.events = p.events /\ r.T = p.T /\ r.nextIdx = p.nextIdx + k /\ r.playing = p.playing
      /\ {"events", "T", "nextIdx", "playing", "frames", "simNow"} \subseteq DOMAIN r
  BY DEF Fire, Page
<1> HIDE DEF r
<1>6. /\ fired.events = p.events /\ fired.T = p.T /\ fired.nextIdx = p.nextIdx + k
      /\ fired.playing = p.playing /\ fired.simNow = now
      /\ {"events", "T", "nextIdx", "playing", "frames", "simNow"} \subseteq DOMAIN fired
  BY <1>5
<1> HIDE DEF fired
<1>7. CASE now < p.T
  BY <1>1, <1>4, <1>6, <1>7
<1>8. CASE ~ (now < p.T)
  <2>1. /\ g.events = p.events /\ g.T = p.T /\ g.nextIdx = p.nextIdx + k
        /\ {"events", "T", "nextIdx", "playing", "frames", "simNow"} \subseteq DOMAIN g
    BY <1>6
  <2> HIDE DEF g
  <2>2. /\ setPlaying(g, FALSE).events = p.events /\ setPlaying(g, FALSE).T = p.T
        /\ setPlaying(g, FALSE).nextIdx = p.nextIdx + k
    BY <2>1 DEF setPlaying
  <2> QED BY <1>3, <1>4, <1>8, <2>2
<1> QED BY <1>7, <1>8

\* A page that plays has asked for a frame; and when the last event has come,
\* each frame in which time passes shows the last event of the list, or leaves
\* the page playing, nearer to the end.  With a browser that calls the page
\* back and an end that time reaches, it shows every event (PlaysOut).
Nearer ==
  \A d \in 1..2 :
    Frame(d) /\ page.playing /\ Settled =>
      /\ Settled'
      /\ \/ page'.nextIdx >= Len(page'.events)
         \/ /\ page'.playing /\ page'.T = page.T
            /\ page.simNow < page'.simNow /\ page'.simNow < page'.T
PlaysOn == [](page.playing => page.frames > 0) /\ [][Nearer]_vars

LEMMA FrameNearer ==
  ASSUME Inv
  PROVE  Nearer
<1> SUFFICES ASSUME NEW d \in 1..2, Frame(d), page.playing, Settled
             PROVE  /\ Settled'
                    /\ \/ page'.nextIdx >= Len(page'.events)
                       \/ /\ page'.playing /\ page'.T = page.T
                          /\ page.simNow < page'.simNow /\ page'.simNow < page'.T
  BY DEF Nearer
<1>1. page \in Page /\ page' = loop(page, d) /\ UNCHANGED session
  BY DEF Inv, Sound, Frame
<1>2. \A i \in 1..Len(page.events) : page.events[i].dt <= page.T
  <2>1. DOMAIN page.events = 1..Len(page.events)
    BY <1>1 DEF Page
  <2> QED BY <2>1 DEF Settled
<1>3. d \in Nat \ {0}
  OBVIOUS
<1>4. /\ page'.events = page.events /\ page'.T = page.T
      /\ \/ page'.nextIdx >= Len(page'.events)
         \/ page'.playing /\ page.simNow < page'.simNow /\ page'.simNow < page'.T
  BY <1>1, <1>2, <1>3, LoopNearer
<1>5. Settled'
  BY <1>1, <1>4 DEF Settled
<1> QED BY <1>4, <1>5

\* A page that plays gets to the end of its list, for every capacity of the list,
\* size of a frame's portion, file, order of times and number of events and clicks.
THEOREM GoesOnPlaying == Spec => PlaysOn
<1>1. Init => Rolls(page)
  BY DEF Init, Rolls
<1>2. Rolls(page) /\ [Next]_vars => Rolls(page)'
  BY RollsStep
<1>3. Rolls(page) => (page.playing => page.frames > 0)
  BY DEF Rolls
<1>4. Inv => Nearer
  BY FrameNearer
<1> QED BY <1>1, <1>2, <1>3, <1>4, Invariance, PTL DEF Spec, PlaysOn
=============================================================================
