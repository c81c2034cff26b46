-------------------------- MODULE SkipGraphProofs --------------------------
(***************************************************************************)
(* Proof that the skip graph stays in one piece, and that what a node      *)
(* keeps about another agrees, for any number of nodes and levels, any     *)
(* bit strings, any that leave, and however often the tickers fire.        *)
(*                                                                         *)
(* The inductive invariant IInv says of each node that its ranges and      *)
(* borders fit, that what they hold is connected once with their number as *)
(* its count, and that nobody is sent a reference to himself.  The graph   *)
(* is argued about by its cuts: a step that takes one reference across a   *)
(* cut leaves or makes another that crosses it.                            *)
(***************************************************************************)
EXTENDS SkipGraph, FiniteSetTheorems, FunctionTheorems, SequenceTheorems, NaturalsInduction,
        WellFoundedInduction, TLAPS

\* What the variables hold.
Entry == [node : Node, count : Nat]
Message == {Ref(x) : x \in Node} \union {Leave(x) : x \in Node}
             \union {Search(x, b) : x \in Node, b \in BOOLEAN} \union {Quit}
Letter == [to : Node, msg : Message]
Borders == [0..3 -> Node \union {None}]

TypeOK ==
  /\ bits \in [Node -> [Level -> {0, 1}]]
  /\ order \in [Node -> Node] /\ IsInjective(order)
  /\ border \in [Node -> [Level -> Borders]]
  /\ inRange \in [Node -> [Level -> SUBSET Node]]
  /\ conn \in [Node -> Seq(Entry)]
  /\ deleted \in [Node -> SUBSET Node]
  /\ changed \in [Node -> BOOLEAN] /\ draining \in [Node -> BOOLEAN]
  /\ inbox \in [Node -> Seq(Message)] /\ outbox \in [Node -> Seq(Letter)]
  /\ ticks \in Nat
  /\ main \in [stage : {"create", "stable", "leave", "search"}, i : Nat \ {0}]
  /\ main.stage \in {"create", "stable"} => main.i \in Node

\* Borders b and nodes r that level l of n may have.
Fits(n, l, b, r) ==
  /\ n \notin r
  /\ \A i \in {0, 2} : b[i] # None => b[i] \in r /\ b[i] < n
  /\ \A i \in {1, 3} : b[i] # None => b[i] \in r /\ n < b[i]
  /\ \A y \in r : /\ SamePrefix(n, y, l)
                  /\ y >= Floor(b[0]) \/ y >= Floor(b[2])
                  /\ y <= Ceiling(b[1]) \/ y <= Ceiling(b[3])
RangesInv == \A n \in Node, l \in Level : Fits(n, l, border[n][l], inRange[n][l])

\* Each connected node has one entry, and what a range holds is connected.
OneEntry(s) == \A i, j \in DOMAIN s : s[i].node = s[j].node => i = j
ConnInv ==
  \A n \in Node : /\ OneEntry(conn[n])
                  /\ n \notin Names(conn[n])
                  /\ \A l \in Level : inRange[n][l] \subseteq Names(conn[n])
                  /\ deleted[n] \intersect Names(conn[n]) = {}

-----------------------------------------------------------------------------
(* Order and rank *)

\* A set of numbers has a least element.
LEMMA LeastExists ==
  ASSUME NEW T, T \subseteq Nat, T # {}
  PROVE  \E x \in T : \A y \in T : x <= y
<1> DEFINE R == OpToRel(<, Nat)
<1>1. R = {ss \in Nat \X Nat : ss[1] < ss[2]}
  BY DEF OpToRel
<1>2. IsWellFoundedOn(R, Nat)
  BY NatLessThanWellFounded
<1> HIDE DEF R
<1>3. PICK x \in T : \A y \in T : ~(<<y, x>> \in R)
  BY <1>2, WFMin
<1>4. \A y \in T : ~(y < x)
  BY <1>1, <1>3
<1> QED
  BY <1>3, <1>4

\* A bounded set of numbers has a greatest element.
LEMMA GreatestExists ==
  ASSUME NEW T, T \subseteq Nat, T # {}, NEW m \in Nat, \A x \in T : x <= m
  PROVE  \E x \in T : \A y \in T : y <= x
<1> DEFINE U == {m - x : x \in T}
<1>1. \A x \in T : m - x \in Nat
  OBVIOUS
<1> U \subseteq Nat /\ U # {}
  BY <1>1
<1>2. PICK u \in U : \A v \in U : u <= v
  BY LeastExists
<1>3. PICK x \in T : u = m - x
  OBVIOUS
<1>4. \A y \in T : m - x <= m - y
  BY <1>2, <1>3
<1>5. ASSUME NEW y \in T PROVE y <= x
  <2>1. m - x <= m - y /\ y \in Nat /\ x \in Nat
    BY <1>4
  <2> QED
    BY <2>1
<1> QED
  BY <1>5

\* R orders S.
Orders(R, S) ==
  /\ \A x \in S : <<x, x>> \notin R
  /\ \A x, y \in S : x # y => <<x, y>> \in R \/ <<y, x>> \in R
  /\ \A x, y, z \in S : <<x, y>> \in R /\ <<y, z>> \in R => <<x, z>> \in R

\* Those of S that come before x.
Below(S, R, x) == {y \in S : <<y, x>> \in R}

\* Of an ordered set each element has a rank of its own, and each rank an element.
LEMMA RankGrows ==
  ASSUME NEW S, IsFiniteSet(S), NEW R, Orders(R, S), NEW x \in S, NEW y \in S, <<x, y>> \in R
  PROVE  Cardinality(Below(S, R, x)) < Cardinality(Below(S, R, y))
<1> DEFINE A == Below(S, R, x)
           B == Below(S, R, y)
<1>1. B \subseteq S /\ A \subseteq B /\ x \in B /\ x \notin A
  BY DEF Below, Orders
<1> HIDE DEF A, B
<1>2. IsFiniteSet(B)
  BY <1>1, FS_Subset
<1>3. /\ IsFiniteSet(A) /\ Cardinality(A) <= Cardinality(B)
      /\ Cardinality(B) = Cardinality(A) => B = A
  BY <1>1, <1>2, FS_Subset
<1>4. Cardinality(A) \in Nat /\ Cardinality(B) \in Nat
  BY <1>2, <1>3, FS_CardinalityType
<1>5. Cardinality(A) < Cardinality(B)
  BY <1>1, <1>3, <1>4
<1> QED
  BY <1>5 DEF A, B

\* A rank is below the number of elements.
LEMMA RankBound ==
  ASSUME NEW S, IsFiniteSet(S), NEW R, Orders(R, S), NEW x \in S
  PROVE  Cardinality(Below(S, R, x)) \in 0..Cardinality(S) - 1
<1> DEFINE A == Below(S, R, x)
<1>1. A \subseteq S /\ x \notin A
  BY DEF Below, Orders
<1> HIDE DEF A
<1>2. /\ IsFiniteSet(A) /\ Cardinality(A) <= Cardinality(S)
      /\ Cardinality(S) = Cardinality(A) => S = A
  BY <1>1, FS_Subset
<1>3. Cardinality(A) \in Nat /\ Cardinality(S) \in Nat
  BY <1>2, FS_CardinalityType
<1>4. Cardinality(A) \in 0..Cardinality(S) - 1
  BY <1>1, <1>2, <1>3
<1> QED
  BY <1>4 DEF A

\* Each number below that of the elements is the rank of one.
LEMMA RankTaken ==
  ASSUME NEW S, IsFiniteSet(S), NEW R, Orders(R, S), NEW k \in 1..Cardinality(S)
  PROVE  \E x \in S : Cardinality(Below(S, R, x)) = k - 1
<1> DEFINE m == Cardinality(S)
           T == 0..m - 1
           rank == [x \in S |-> Cardinality(Below(S, R, x))]
<1>1. m \in Nat
  BY FS_CardinalityType
<1>2. IsFiniteSet(T) /\ Cardinality(T) = m
  <2>1. 0 \in Int /\ m - 1 \in Int
    BY <1>1
  <2> HIDE DEF m
  <2>2. IsFiniteSet(0..m - 1) /\ Cardinality(0..m - 1) = IF 0 > m - 1 THEN 0 ELSE (m - 1) - 0 + 1
    BY <2>1, FS_Interval
  <2> QED
    BY <1>1, <2>2
<1>3. rank \in [S -> T]
  BY RankBound
<1>4. \A x, y \in S : rank[x] = rank[y] => x = y
  <2> SUFFICES ASSUME NEW x \in S, NEW y \in S, rank[x] = rank[y], x # y
               PROVE  FALSE
    OBVIOUS
  <2>1. rank[x] \in T /\ rank[y] \in T
    BY <1>3
  <2>2. <<x, y>> \in R => rank[x] < rank[y]
    BY RankGrows
  <2>3. <<y, x>> \in R => rank[y] < rank[x]
    BY RankGrows
  <2> QED
    BY <1>1, <2>1, <2>2, <2>3 DEF Orders
<1> HIDE DEF T, rank
<1>5. rank \in Injection(S, T)
  BY <1>3, <1>4 DEF Injection, IsInjective
<1>6. rank \in Surjection(S, T)
  BY <1>2, <1>5, FS_Injection
<1>7. k - 1 \in T
  BY <1>1 DEF T
<1>8. \E x \in S : rank[x] = k - 1
  BY <1>6, <1>7 DEF Surjection
<1> QED
  BY <1>8 DEF rank

\* InOrder lists a finite ordered set from its least element on.
LEMMA InOrderIs ==
  ASSUME NEW S, IsFiniteSet(S), NEW R, Orders(R, S)
  PROVE  /\ Cardinality(S) \in Nat
         /\ InOrder(S, R) \in [1..Cardinality(S) -> S]
         /\ \A x \in S : \E k \in 1..Cardinality(S) : InOrder(S, R)[k] = x
         /\ \A j, k \in 1..Cardinality(S) :
              j < k => <<InOrder(S, R)[j], InOrder(S, R)[k]>> \in R
<1> DEFINE m == Cardinality(S)
           q == InOrder(S, R)
           rank(x) == Cardinality(Below(S, R, x))
<1>1. m \in Nat
  BY FS_CardinalityType
<1>2. q = [k \in 1..m |-> CHOOSE x \in S : rank(x) = k - 1]
  BY DEF InOrder, Below
<1> HIDE DEF q
<1>3. ASSUME NEW k \in 1..m PROVE q[k] \in S /\ rank(q[k]) = k - 1
  <2>1. \E x \in S : rank(x) = k - 1
    BY RankTaken
  <2>2. q[k] = CHOOSE x \in S : rank(x) = k - 1
    BY <1>2
  <2> HIDE DEF rank
  <2> QED
    BY <2>1, <2>2
<1>4. q \in [1..m -> S]
  BY <1>2, <1>3
<1>5. ASSUME NEW x \in S, NEW y \in S, rank(x) = rank(y) PROVE x = y
  <2> SUFFICES ASSUME x # y PROVE FALSE
    OBVIOUS
  <2>1. rank(x) \in 0..m - 1 /\ rank(y) \in 0..m - 1
    BY RankBound
  <2>2. <<x, y>> \in R => rank(x) < rank(y)
    BY RankGrows
  <2>3. <<y, x>> \in R => rank(y) < rank(x)
    BY RankGrows
  <2>4. <<x, y>> \in R \/ <<y, x>> \in R
    BY DEF Orders
  <2> HIDE DEF rank
  <2> QED
    BY <1>1, <1>5, <2>1, <2>2, <2>3, <2>4
<1>6. ASSUME NEW x \in S PROVE \E k \in 1..m : q[k] = x
  <2>1. rank(x) \in 0..m - 1
    BY RankBound
  <2> HIDE DEF rank, m
  <2>2. rank(x) + 1 \in 1..m /\ (rank(x) + 1) - 1 = rank(x)
    BY <1>1, <2>1
  <2>3. q[rank(x) + 1] \in S /\ rank(q[rank(x) + 1]) = rank(x)
    BY <1>3, <2>2
  <2> QED
    BY <1>5, <2>2, <2>3
<1>7. ASSUME NEW j \in 1..m, NEW k \in 1..m, j < k PROVE <<q[j], q[k]>> \in R
  <2>1. /\ q[j] \in S /\ rank(q[j]) = j - 1
        /\ q[k] \in S /\ rank(q[k]) = k - 1
    BY <1>3
  <2>2. <<q[k], q[j]>> \in R => rank(q[k]) < rank(q[j])
    BY <2>1, RankGrows
  <2> HIDE DEF rank, m
  <2>3. rank(q[j]) < rank(q[k]) /\ ~(rank(q[k]) < rank(q[j]))
    BY <1>1, <1>7, <2>1
  <2>4. q[j] # q[k]
    BY <1>1, <1>7, <2>1
  <2> QED
    BY <2>1, <2>2, <2>3, <2>4 DEF Orders
<1> QED
  BY <1>1, <1>4, <1>6, <1>7 DEF q

\* A set of numbers, in ascending order.
LEMMA SortedIs ==
  ASSUME NEW S, S \subseteq Nat, IsFiniteSet(S)
  PROVE  /\ Cardinality(S) \in Nat
         /\ Sorted(S) \in [1..Cardinality(S) -> S]
         /\ \A x \in S : \E k \in 1..Cardinality(S) : Sorted(S)[k] = x
         /\ \A j, k \in 1..Cardinality(S) : j < k => Sorted(S)[j] < Sorted(S)[k]
<1> DEFINE R == {p \in S \X S : p[1] < p[2]}
<1>1. \A x, y \in S : <<x, y>> \in R <=> x < y
  OBVIOUS
<1> HIDE DEF R
<1>2. \A x, y \in S : x \in Nat /\ y \in Nat
  OBVIOUS
<1>3. Orders(R, S)
  BY <1>1, <1>2 DEF Orders
<1>4. Sorted(S) = InOrder(S, R)
  BY DEF Sorted, R
<1>5. /\ Cardinality(S) \in Nat
      /\ Sorted(S) \in [1..Cardinality(S) -> S]
      /\ \A x \in S : \E k \in 1..Cardinality(S) : Sorted(S)[k] = x
      /\ \A j, k \in 1..Cardinality(S) : j < k => <<Sorted(S)[j], Sorted(S)[k]>> \in R
  BY <1>3, <1>4, InOrderIs
<1>6. \A j, k \in 1..Cardinality(S) : Sorted(S)[j] \in S /\ Sorted(S)[k] \in S
  BY <1>5
<1> QED
  BY <1>1, <1>5, <1>6

\* Sequence q has the elements of s at the places of I, each once.
Rearranged(q, s, I) ==
  \E at \in [1..Cardinality(I) -> I] :
    /\ \A j, k \in 1..Cardinality(I) : at[j] = at[k] => j = k
    /\ \A i \in I : \E k \in 1..Cardinality(I) : at[k] = i
    /\ q = [k \in 1..Cardinality(I) |-> s[at[k]]]

\* InOrder lists no element twice.
LEMMA OrderedDistinct ==
  ASSUME NEW S, IsFiniteSet(S), NEW R, Orders(R, S)
  PROVE  \A j, k \in 1..Cardinality(S) : InOrder(S, R)[j] = InOrder(S, R)[k] => j = k
<1> SUFFICES ASSUME NEW j \in 1..Cardinality(S), NEW k \in 1..Cardinality(S),
                    InOrder(S, R)[j] = InOrder(S, R)[k], j # k
             PROVE  FALSE
  OBVIOUS
<1>1. /\ Cardinality(S) \in Nat /\ InOrder(S, R)[j] \in S
      /\ j < k => <<InOrder(S, R)[j], InOrder(S, R)[k]>> \in R
      /\ k < j => <<InOrder(S, R)[k], InOrder(S, R)[j]>> \in R
  BY InOrderIs
<1>2. j < k \/ k < j
  BY <1>1
<1>3. <<InOrder(S, R)[j], InOrder(S, R)[j]>> \in R
  BY <1>1, <1>2
<1> QED
  BY <1>1, <1>3 DEF Orders

\* What s has at the places of I, in any order of them, is rearranged.
LEMMA InOrderRearranges ==
  ASSUME NEW s, NEW I, IsFiniteSet(I), NEW R, Orders(R, I)
  PROVE  Rearranged([k \in DOMAIN InOrder(I, R) |-> s[InOrder(I, R)[k]]], s, I)
<1> DEFINE at == InOrder(I, R)
<1>1. /\ at \in [1..Cardinality(I) -> I]
      /\ \A i \in I : \E k \in 1..Cardinality(I) : at[k] = i
  BY InOrderIs
<1>2. \A j, k \in 1..Cardinality(I) : at[j] = at[k] => j = k
  BY OrderedDistinct
<1> HIDE DEF at
<1>3. [k \in DOMAIN at |-> s[at[k]]] = [k \in 1..Cardinality(I) |-> s[at[k]]]
  BY <1>1
<1>4. Rearranged([k \in DOMAIN at |-> s[at[k]]], s, I)
  BY <1>1, <1>2, <1>3 DEF Rearranged
<1> QED
  BY <1>4 DEF at

\* The places of a sequence are finitely many.
LEMMA PlacesFinite ==
  ASSUME NEW T, NEW s \in Seq(T), NEW I, I \subseteq DOMAIN s
  PROVE  IsFiniteSet(I) /\ I \subseteq Nat /\ DOMAIN s = 1..Len(s)
<1>1. Len(s) \in Nat /\ DOMAIN s = 1..Len(s)
  BY LenProperties
<1>2. IsFiniteSet(1..Len(s))
  BY <1>1, FS_Interval
<1> QED
  BY <1>1, <1>2, FS_Subset

\* Pick has what s has at the places of I.
LEMMA PickIs ==
  ASSUME NEW T, NEW s \in Seq(T), NEW I, I \subseteq DOMAIN s
  PROVE  Rearranged(Pick(s, I), s, I)
<1> DEFINE R == {p \in I \X I : p[1] < p[2]}
<1>1. IsFiniteSet(I) /\ I \subseteq Nat
  BY PlacesFinite
<1>2. \A x, y \in I : <<x, y>> \in R <=> x < y
  OBVIOUS
<1>3. Pick(s, I) = [k \in DOMAIN InOrder(I, R) |-> s[InOrder(I, R)[k]]]
  BY DEF Pick, Sorted
<1> HIDE DEF R
<1>4. \A x, y \in I : x \in Nat /\ y \in Nat
  BY <1>1
<1>5. Orders(R, I)
  BY <1>2, <1>4 DEF Orders
<1> QED
  BY <1>1, <1>3, <1>5, InOrderRearranges

\* Each element of q is one that s has at the places of I, and the other way round.
HasOnly(q, s, I) == \A k \in DOMAIN q : \E i \in I : q[k] = s[i]
HasAll(q, s, I) == \A i \in I : \E k \in DOMAIN q : q[k] = s[i]

\* What is rearranged is a sequence of the same elements.
LEMMA RearrangedHas ==
  ASSUME NEW T, NEW s \in Seq(T), NEW I, I \subseteq DOMAIN s, NEW q, Rearranged(q, s, I)
  PROVE  q \in Seq(T) /\ HasOnly(q, s, I) /\ HasAll(q, s, I)
<1>1. IsFiniteSet(I) /\ Cardinality(I) \in Nat
  BY PlacesFinite, FS_CardinalityType
<1>2. PICK at \in [1..Cardinality(I) -> I] :
        /\ \A i \in I : \E k \in 1..Cardinality(I) : at[k] = i
        /\ q = [k \in 1..Cardinality(I) |-> s[at[k]]]
  BY DEF Rearranged
<1>3. \A i \in I : s[i] \in T
  BY ElementOfSeq, PlacesFinite
<1>4. \A k \in 1..Cardinality(I) : at[k] \in I /\ q[k] = s[at[k]]
  BY <1>2
<1>5. q \in [1..Cardinality(I) -> T]
  BY <1>2, <1>3, <1>4
<1>6. DOMAIN q = 1..Cardinality(I)
  BY <1>2
<1>7. q \in Seq(T)
  BY <1>1, <1>5, SeqDef
<1> QED
  BY <1>2, <1>4, <1>6, <1>7 DEF HasOnly, HasAll

\* Entries that are rearranged name the same nodes, each once.
LEMMA RearrangedNames ==
  ASSUME NEW T, NEW s \in Seq(T), NEW I, I \subseteq DOMAIN s, NEW q, Rearranged(q, s, I)
  PROVE  /\ Names(q) = {s[i].node : i \in I}
         /\ OneEntry(s) => OneEntry(q)
<1>1. HasOnly(q, s, I) /\ HasAll(q, s, I)
  BY RearrangedHas
<1>2. Names(q) = {s[i].node : i \in I}
  BY <1>1 DEF Names, HasOnly, HasAll
<1>3. PICK at \in [1..Cardinality(I) -> I] :
        /\ \A j, k \in 1..Cardinality(I) : at[j] = at[k] => j = k
        /\ q = [k \in 1..Cardinality(I) |-> s[at[k]]]
  BY DEF Rearranged
<1>4. DOMAIN q = 1..Cardinality(I) /\ \A k \in DOMAIN q : q[k] = s[at[k]] /\ at[k] \in DOMAIN s
  BY <1>3
<1>5. OneEntry(s) => OneEntry(q)
  BY <1>3, <1>4 DEF OneEntry
<1> QED
  BY <1>2, <1>5

\* A sequence of sequences over T becomes one over T.
LEMMA FlatIs ==
  ASSUME NEW T, NEW ss \in Seq(Seq(T))
  PROVE  Flat(ss) \in Seq(T)
<1> DEFINE D == DOMAIN ss
           row == [i \in D |-> {i} \X (1..Len(ss[i]))]
           places == UNION {{i} \X (1..Len(ss[i])) : i \in D}
           R == {p \in places \X places :
                   \/ p[1][1] < p[2][1]
                   \/ p[1][1] = p[2][1] /\ p[1][2] < p[2][2]}
<1>1. D = 1..Len(ss) /\ Len(ss) \in Nat /\ IsFiniteSet(D)
  BY LenProperties, FS_Interval
<1>2. \A i \in D : ss[i] \in Seq(T)
  BY <1>1, ElementOfSeq
<1>3. \A i \in D : Len(ss[i]) \in Nat
  BY <1>2, LenProperties
<1>4. ASSUME NEW i \in D PROVE IsFiniteSet({i} \X (1..Len(ss[i])))
  <2>1. IsFiniteSet({i})
    BY FS_Singleton
  <2>2. IsFiniteSet(1..Len(ss[i]))
    BY <1>3, FS_Interval
  <2> QED
    BY <2>1, <2>2, FS_Product
<1>5. IsFiniteSet({{i} \X (1..Len(ss[i])) : i \in D})
  <2> DEFINE U == {{i} \X (1..Len(ss[i])) : i \in D}
  <2>1. row \in Surjection(D, U)
    BY DEF Surjection
  <2> HIDE DEF row, U
  <2>2. IsFiniteSet(U)
    BY <1>1, <2>1, FS_Surjection
  <2> QED
    BY <2>2 DEF U
<1>6. IsFiniteSet(places)
  BY <1>4, <1>5, FS_UNION
<1>7. \A p \in places : p[1] \in D /\ p[2] \in 1..Len(ss[p[1]]) /\ p = <<p[1], p[2]>>
  OBVIOUS
<1>8. \A p \in places : p[1] \in Nat /\ p[2] \in Nat
  BY <1>1, <1>3, <1>7
<1>9. \A p, q \in places :
        <<p, q>> \in R <=> (p[1] < q[1] \/ (p[1] = q[1] /\ p[2] < q[2]))
  OBVIOUS
<1> HIDE DEF places, R
<1>10. Orders(R, places)
  <2>1. \A p \in places : <<p, p>> \notin R
    BY <1>8, <1>9
  <2>2. \A p, q \in places : p # q => <<p, q>> \in R \/ <<q, p>> \in R
    <3> SUFFICES ASSUME NEW p \in places, NEW q \in places, p # q,
                        <<p, q>> \notin R, <<q, p>> \notin R
                 PROVE  FALSE
      OBVIOUS
    <3>1. p[1] \in Nat /\ p[2] \in Nat /\ q[1] \in Nat /\ q[2] \in Nat
      BY <1>8
    <3>2. p[1] = q[1] /\ p[2] = q[2]
      BY <1>9, <3>1
    <3> QED
      BY <1>7, <3>2
  <2>3. \A p, q, r \in places : <<p, q>> \in R /\ <<q, r>> \in R => <<p, r>> \in R
    <3> SUFFICES ASSUME NEW p \in places, NEW q \in places, NEW r \in places,
                        <<p, q>> \in R, <<q, r>> \in R
                 PROVE  <<p, r>> \in R
      OBVIOUS
    <3>1. /\ p[1] \in Nat /\ p[2] \in Nat /\ q[1] \in Nat /\ q[2] \in Nat
          /\ r[1] \in Nat /\ r[2] \in Nat
      BY <1>8
    <3>2. /\ p[1] < q[1] \/ (p[1] = q[1] /\ p[2] < q[2])
          /\ q[1] < r[1] \/ (q[1] = r[1] /\ q[2] < r[2])
      BY <1>9
    <3>3. p[1] < r[1] \/ (p[1] = r[1] /\ p[2] < r[2])
      BY <3>1, <3>2
    <3> QED
      BY <1>9, <3>3
  <2> QED
    BY <2>1, <2>2, <2>3 DEF Orders
<1> DEFINE at == InOrder(places, R)
<1>11. Cardinality(places) \in Nat /\ at \in [1..Cardinality(places) -> places]
  BY <1>6, <1>10, InOrderIs
<1>12. Flat(ss) = [k \in DOMAIN at |-> ss[at[k][1]][at[k][2]]]
  BY DEF Flat, places, R
<1> HIDE DEF at
<1>13. \A p \in places : ss[p[1]][p[2]] \in T
  BY <1>2, <1>7, ElementOfSeq
<1>14. \A k \in 1..Cardinality(places) : at[k] \in places
  BY <1>11
<1>15. Flat(ss) \in [1..Cardinality(places) -> T]
  BY <1>11, <1>12, <1>13, <1>14
<1> DEFINE m == Cardinality(places)
<1>16. m \in Nat /\ Flat(ss) \in [1..m -> T]
  BY <1>11, <1>15
<1> HIDE DEF m
<1> QED
  BY <1>16, SeqDef

-----------------------------------------------------------------------------
(* Fit and distance *)

\* A fit level is a number of levels.
LEMMA FitLevelIs ==
  ASSUME NEW a, NEW b
  PROVE  getFitLevel(a, b) \in 0..Depth
<1> DEFINE T == {l \in 0..Depth : \A i \in 0..l - 1 : bits[a][i] = bits[b][i]}
<1>1. Depth \in Nat
  BY SkipGraphAssumption
<1>2. 0 \in T /\ T \subseteq Nat /\ \A x \in T : x <= Depth
  BY <1>1
<1>3. getFitLevel(a, b) = CHOOSE x \in T : \A y \in T : x >= y
  BY DEF getFitLevel, Max
<1>4. T \subseteq 0..Depth
  OBVIOUS
<1> HIDE DEF T
<1>5. PICK x \in T : \A y \in T : y <= x
  BY <1>1, <1>2, GreatestExists
<1>6. \A y \in T : x >= y
  BY <1>2, <1>5
<1>7. getFitLevel(a, b) \in T
  BY <1>3, <1>6
<1> QED
  BY <1>4, <1>7

\* A node that is passed on goes to a connected node when there is one.
LEMMA BestFitIs ==
  ASSUME NEW n \in Node, NEW s \in Seq(Entry), s # <<>>, NEW x \in Node
  PROVE  getBestFitNext(n, s, x) \in Names(s)
<1> DEFINE D == DOMAIN s
           fit(y) == getFitLevel(y, x)
           far(y) == Distance(y, x)
           better(a, b) == \/ fit(a) > fit(b)
                           \/ fit(a) = fit(b) /\ far(a) < far(b)
           I == {i \in 1..Len(s) : ~\E y \in Names(s) : better(y, s[i].node)}
           best == IF I # {} THEN Min(I) ELSE 0
<1>1. getBestFitNext(n, s, x) = s[best].node
  BY DEF getBestFitNext, SelectInSeq
<1>2. D = 1..Len(s) /\ Len(s) \in Nat /\ Len(s) # 0
  BY LenProperties, EmptySeq
<1>3. \A i \in D : s[i].node \in Node
  <2>1. \A i \in D : s[i] \in Entry
    BY <1>2, ElementOfSeq
  <2> QED
    BY <2>1 DEF Entry
<1>4. \A y \in Names(s) : y \in Node
  BY <1>3 DEF Names
<1>5. \A y \in Node : fit(y) \in Nat /\ fit(y) <= Depth
  BY FitLevelIs, SkipGraphAssumption
<1>6. \A y \in Node : far(y) \in Nat
  BY SkipGraphAssumption DEF Distance, Node
<1> HIDE DEF fit, far
<1>7. I # {}
  <2> DEFINE F == {fit(y) : y \in Names(s)}
  <2>1. Names(s) # {}
    <3>1. 1 \in D
      BY <1>2
    <3> QED
      BY <3>1 DEF Names
  <2>2. F \subseteq Nat /\ F # {} /\ \A f \in F : f <= Depth
    BY <1>4, <1>5, <2>1
  <2>3. PICK f \in F : \A g \in F : g <= f
    BY <2>2, GreatestExists, SkipGraphAssumption
  <2> DEFINE G == {far(y) : y \in {z \in Names(s) : fit(z) = f}}
  <2>4. G \subseteq Nat /\ G # {}
    BY <1>4, <1>6
  <2>5. PICK d \in G : \A e \in G : d <= e
    BY <2>4, LeastExists
  <2>6. PICK y \in Names(s) : fit(y) = f /\ far(y) = d
    OBVIOUS
  <2>7. \A z \in Names(s) : fit(z) <= f /\ (fit(z) = f => d <= far(z))
    BY <2>3, <2>5
  <2> HIDE DEF F, G
  <2>8. \A z \in Names(s) : ~better(z, y)
    BY <1>4, <1>5, <1>6, <2>6, <2>7
  <2>9. PICK i \in D : y = s[i].node
    BY DEF Names
  <2> QED
    BY <1>2, <2>8, <2>9
<1>8. I \subseteq Nat /\ I \subseteq D
  BY <1>2
<1> HIDE DEF I
<1>9. PICK i \in I : \A j \in I : i <= j
  BY <1>7, <1>8, LeastExists
<1>10. Min(I) \in I
  BY <1>9 DEF Min
<1> QED
  BY <1>1, <1>7, <1>8, <1>10 DEF Names

-----------------------------------------------------------------------------
(* A range that is given a node *)

\* The borders b are the nearest of the nodes r on their sides.
Nearest(n, l, b, r) ==
  \A y \in r : LET slot == 2 * bits[y][l]
               IN IF y < n THEN b[slot] # None /\ y <= b[slot]
                  ELSE b[slot + 1] # None /\ b[slot + 1] <= y

\* Nodes lie between the two values of the nil border.
LEMMA Numbers ==
  /\ N \in Nat /\ Depth \in Nat /\ Node \subseteq Nat /\ None \in Nat /\ Infinity \in Nat
  /\ \A x \in Node : None < x /\ x < Infinity
BY SkipGraphAssumption DEF Node, None, Infinity

\* Borders b become c: each is a node of r on its side of n, and none moves away from n.
Closer(n, b, c, r) ==
  /\ \A i \in {0, 2} : (c[i] # None => c[i] \in r /\ c[i] < n) /\ b[i] <= c[i]
  /\ \A i \in {1, 3} : /\ c[i] # None => c[i] \in r /\ n < c[i]
                       /\ b[i] # None => c[i] # None /\ c[i] <= b[i]

\* The new borders are no further away, and the new node is not beyond its own.
LEMMA NewBorderIs ==
  ASSUME NEW n \in Node, NEW x \in Node, x # n, NEW l \in Level,
         bits \in [Node -> [Level -> {0, 1}]],
         border[n][l] \in Borders, NEW r, r \subseteq Node, Fits(n, l, border[n][l], r),
         NEW c, c = NewBorder(n, x, l)
  PROVE  /\ c \in Borders
         /\ Closer(n, border[n][l], c, r \union {x})
         /\ x < n => c[2 * bits[x][l]] # None /\ x <= c[2 * bits[x][l]]
         /\ n < x => c[2 * bits[x][l] + 1] # None /\ c[2 * bits[x][l] + 1] <= x
<1> DEFINE b == border[n][l]
<1>1. bits[x][l] \in {0, 1}
  OBVIOUS
<1>2. /\ b \in [0..3 -> Node \union {None}]
      /\ \A i \in {0, 2} : b[i] # None => b[i] \in r /\ b[i] < n
      /\ \A i \in {1, 3} : b[i] # None => b[i] \in r /\ n < b[i]
  BY DEF Borders, Fits
<1>3. \A i \in 0..3 : b[i] \in Nat /\ (b[i] = None \/ b[i] \in Node)
  BY <1>2, Numbers
<1>4. n \in Nat /\ x \in Nat /\ None < x /\ None < n /\ x < Infinity
  BY Numbers
<1>5. PICK s \in {0, 2} : s = 2 * bits[x][l]
  BY <1>1
<1>6. c = IF Floor(b[s]) < x /\ x < n THEN [b EXCEPT ![s] = x]
          ELSE IF n < x /\ x < Ceiling(b[s + 1]) THEN [b EXCEPT ![s + 1] = x]
          ELSE b
  BY <1>5 DEF NewBorder
<1> HIDE DEF b
<1>7. /\ c \in Borders
      /\ \A i \in {0, 2} : /\ c[i] # None => c[i] \in r \union {x} /\ c[i] < n
                           /\ b[i] <= c[i]
      /\ \A i \in {1, 3} : /\ c[i] # None => c[i] \in r \union {x} /\ n < c[i]
                           /\ b[i] # None => c[i] # None /\ c[i] <= b[i]
      /\ x < n => c[s] # None /\ x <= c[s]
      /\ n < x => c[s + 1] # None /\ c[s + 1] <= x
  <2>1. CASE b[s] < x /\ x < n
    <3>1. c = [b EXCEPT ![s] = x] /\ s \in 0..3
      BY <1>6, <2>1 DEF Floor
    <3>2. c \in Borders
      BY <1>2, <3>1 DEF Borders
    <3>3. c[s] = x /\ \A i \in 0..3 : i # s => c[i] = b[i]
      BY <1>2, <3>1
    <3>4. ~(n < x) /\ x # None
      BY <1>4, <2>1
    <3> QED
      BY <1>2, <1>3, <1>4, <2>1, <3>2, <3>3, <3>4
  <2>2. CASE n < x /\ x < Ceiling(b[s + 1])
    <3>1. c = [b EXCEPT ![s + 1] = x] /\ s + 1 \in {1, 3} /\ ~(x < n)
      BY <1>4, <1>6, <2>2
    <3>2. c \in Borders
      BY <1>2, <3>1 DEF Borders
    <3>3. c[s + 1] = x /\ \A i \in 0..3 : i # s + 1 => c[i] = b[i]
      BY <1>2, <3>1
    <3>4. x # None /\ (b[s + 1] # None => x <= b[s + 1])
      BY <1>3, <1>4, <2>2, <3>1 DEF Ceiling
    <3> QED
      BY <1>2, <1>3, <1>4, <2>2, <3>1, <3>2, <3>3, <3>4
  <2>3. CASE ~(b[s] < x /\ x < n) /\ ~(n < x /\ x < Ceiling(b[s + 1]))
    <3>1. c = b
      BY <1>6, <2>3 DEF Floor
    <3>2. x < n => b[s] # None /\ x <= b[s]
      BY <1>3, <1>4, <2>3
    <3>3. n < x => b[s + 1] # None /\ b[s + 1] <= x
      BY <1>3, <1>4, <2>3 DEF Ceiling
    <3> QED
      BY <1>2, <1>3, <3>1, <3>2, <3>3 DEF Borders
  <2> QED
    BY <2>1, <2>2, <2>3 DEF Floor
<1> QED
  BY <1>5, <1>7 DEF b, Closer

\* The bounds that borders set: what lies between them is not outside.
LEMMA BoundsAre ==
  ASSUME NEW b \in Borders, NEW y \in Node, NEW n \in Node,
         \A i \in {0, 2} : b[i] # None => b[i] < n,
         \A i \in {1, 3} : b[i] # None => n < b[i]
  PROVE  /\ Lower(b) <= y /\ y <= Upper(b) =>
              /\ y >= Floor(b[0]) \/ y >= Floor(b[2])
              /\ y <= Ceiling(b[1]) \/ y <= Ceiling(b[3])
         /\ y \in {b[0], b[1], b[2], b[3]} => Lower(b) <= y /\ y <= Upper(b)
         /\ Lower(b) \in Nat /\ Upper(b) \in Nat
<1>1. \A i \in 0..3 : b[i] \in Nat /\ (b[i] = None \/ b[i] < Infinity)
  BY Numbers DEF Borders
<1>2. y \in Nat /\ n \in Nat /\ None < y /\ y < Infinity /\ Infinity \in Nat /\ None = 0
  BY Numbers DEF None
<1>3. Lower(b) = IF b[0] = 0 THEN b[2] ELSE IF b[2] = 0 THEN b[0]
                 ELSE IF b[0] < b[2] THEN b[0] ELSE b[2]
  BY DEF Lower, Floor, specialMin
<1>4. Upper(b) = IF Ceiling(b[1]) = Infinity THEN Ceiling(b[3])
                 ELSE IF Ceiling(b[3]) = Infinity THEN Ceiling(b[1])
                 ELSE IF Ceiling(b[1]) < Ceiling(b[3]) THEN Ceiling(b[3]) ELSE Ceiling(b[1])
  BY DEF Upper, specialMax
<1>5. /\ b[1] = 0 => Ceiling(b[1]) = Infinity
      /\ b[1] # 0 => Ceiling(b[1]) = b[1] /\ n < b[1]
      /\ b[3] = 0 => Ceiling(b[3]) = Infinity
      /\ b[3] # 0 => Ceiling(b[3]) = b[3] /\ n < b[3]
      /\ b[0] # 0 => b[0] < n
      /\ b[2] # 0 => b[2] < n
  BY <1>2 DEF Ceiling
<1>6. /\ b[0] \in Nat /\ b[1] \in Nat /\ b[2] \in Nat /\ b[3] \in Nat
      /\ n < Infinity
  BY <1>1, Numbers
<1>7. Ceiling(b[1]) \in Nat /\ Ceiling(b[3]) \in Nat
  BY <1>2, <1>5, <1>6
<1>8. Lower(b) \in Nat /\ Upper(b) \in Nat
  BY <1>3, <1>4, <1>6, <1>7
<1>9. ASSUME Lower(b) <= y, y <= Upper(b)
      PROVE  /\ y >= Floor(b[0]) \/ y >= Floor(b[2])
             /\ y <= Ceiling(b[1]) \/ y <= Ceiling(b[3])
  <2>1. y >= b[0] \/ y >= b[2]
    BY <1>2, <1>3, <1>6, <1>9
  <2>2. y <= Ceiling(b[1]) \/ y <= Ceiling(b[3])
    BY <1>4, <1>7, <1>9, <1>2
  <2> QED
    BY <2>1, <2>2 DEF Floor
<1>10. ASSUME y \in {b[0], b[2]} PROVE Lower(b) <= y /\ y <= Upper(b)
  <2>1. y < n /\ Lower(b) <= y
    BY <1>2, <1>3, <1>5, <1>6, <1>10
  <2>2. Upper(b) >= n
    BY <1>1, <1>2, <1>4, <1>5, <1>6
  <2> QED
    BY <1>2, <1>8, <2>1, <2>2
<1>11. ASSUME y \in {b[1], b[3]} PROVE Lower(b) <= y /\ y <= Upper(b)
  <2>1. n < y /\ y <= Upper(b)
    BY <1>1, <1>2, <1>4, <1>5, <1>6, <1>11
  <2>2. Lower(b) <= n
    BY <1>2, <1>3, <1>5, <1>6
  <2> QED
    BY <1>2, <1>8, <2>1, <2>2
<1> QED
  BY <1>8, <1>9, <1>10, <1>11

\* Level l of n and the new node x are kept or reported as dropped.
AllReported(n, x, l, u) ==
  /\ u.inRange \union u.over \subseteq Node
  /\ u.inRange \intersect u.over = {}
  /\ u.inRange \union u.over = inRange[n][l] \union (IF Outside(n, x, l) THEN {} ELSE {x})
  /\ u.refused = IF Outside(n, x, l) THEN {x} ELSE {}
  /\ Outside(n, x, l) => x \notin inRange[n][l]

\* A level that is given x fits as before, and reports what it refuses and leaves out.
LEMMA UpdatedRange ==
  ASSUME NEW n \in Node, NEW x \in Node, x # n, NEW l \in Level,
         bits \in [Node -> [Level -> {0, 1}]],
         border[n][l] \in Borders, inRange[n][l] \subseteq Node,
         Fits(n, l, border[n][l], inRange[n][l]),
         NEW u, u = updateRange(n, x, l)
  PROVE  /\ u.border \in Borders
         /\ AllReported(n, x, l, u)
         /\ Fits(n, l, u.border, u.inRange)
         /\ Nearest(n, l, border[n][l], inRange[n][l]) => Nearest(n, l, u.border, u.inRange)
<1> DEFINE out == Outside(n, x, l)
           b == border[n][l]
           r == inRange[n][l]
           c == IF ~out /\ x # n THEN NewBorder(n, x, l) ELSE b
           all == IF ~out /\ x # n THEN r \union {x} ELSE r
           over == {y \in all : y < Lower(c) \/ y > Upper(c)}
<1>1. /\ u.border = c /\ u.inRange = all \ over /\ u.over = over
      /\ u.refused = IF out THEN {x} ELSE {}
  BY DEF updateRange
<1>2. all = r \union (IF out THEN {} ELSE {x})
  OBVIOUS
<1>3. out => x \notin r
  <2> SUFFICES ASSUME out, x \in r PROVE FALSE
    OBVIOUS
  <2>1. /\ SamePrefix(n, x, l)
        /\ x >= Floor(b[0]) \/ x >= Floor(b[2])
        /\ x <= Ceiling(b[1]) \/ x <= Ceiling(b[3])
    BY DEF Fits
  <2>2. \A i \in 0..3 : b[i] \in Nat
    BY Numbers DEF Borders
  <2>3. /\ x \in Nat /\ Floor(b[0]) \in Nat /\ Floor(b[2]) \in Nat
        /\ Ceiling(b[1]) \in Nat /\ Ceiling(b[3]) \in Nat
    BY <2>2, Numbers DEF Floor, Ceiling
  <2>4. \/ x < Floor(b[0]) /\ x < Floor(b[2])
        \/ x > Ceiling(b[1]) /\ x > Ceiling(b[3])
        \/ ~SamePrefix(n, x, l)
    BY DEF Outside
  <2> HIDE DEF b, out, r
  <2> QED
    BY <2>1, <2>3, <2>4
<1>4. c \in Borders /\ Closer(n, b, c, all)
  <2>1. CASE out
    <3>1. c = b /\ all = r
      BY <2>1
    <3>2. \A i \in 0..3 : b[i] \in Nat
      BY Numbers DEF Borders
    <3> HIDE DEF c, all, out
    <3> QED
      BY <3>1, <3>2 DEF Fits, Closer
  <2>2. CASE ~out
    <3>1. c = NewBorder(n, x, l) /\ all = r \union {x}
      BY <2>2
    <3> HIDE DEF c, all, out
    <3>2. c \in Borders /\ Closer(n, border[n][l], c, inRange[n][l] \union {x})
      BY <3>1, NewBorderIs
    <3> QED
      BY <3>1, <3>2
  <2> QED
    BY <2>1, <2>2
<1>5. all \subseteq Node
  OBVIOUS
<1>6. \A y \in all : SamePrefix(n, y, l)
  <2>1. \A y \in r : SamePrefix(n, y, l)
    BY DEF Fits
  <2>2. ~out => SamePrefix(n, x, l)
    BY DEF Outside
  <2> QED
    BY <2>1, <2>2
<1>7. n \notin all
  BY DEF Fits
<1>8. ASSUME NEW y \in Node
      PROVE  /\ Lower(c) <= y /\ y <= Upper(c) =>
                  /\ y >= Floor(c[0]) \/ y >= Floor(c[2])
                  /\ y <= Ceiling(c[1]) \/ y <= Ceiling(c[3])
             /\ y \in {c[0], c[1], c[2], c[3]} => Lower(c) <= y /\ y <= Upper(c)
             /\ Lower(c) \in Nat /\ Upper(c) \in Nat
  <2> HIDE DEF c, all
  <2>1. /\ \A i \in {0, 2} : c[i] # None => c[i] < n
        /\ \A i \in {1, 3} : c[i] # None => n < c[i]
    BY <1>4 DEF Closer
  <2> QED
    BY <1>4, <2>1, BoundsAre
<1>9. \A y \in all : y \notin over <=> Lower(c) <= y /\ y <= Upper(c)
  <2>1. \A y \in all : y \in Node /\ y \in Nat /\ Lower(c) \in Nat /\ Upper(c) \in Nat
    BY <1>5, <1>8, Numbers
  <2>2. \A y \in all : y \in over <=> (y < Lower(c) \/ y > Upper(c))
    OBVIOUS
  <2> HIDE DEF c, all, over
  <2> QED
    BY <2>1, <2>2
<1>10. Fits(n, l, c, all \ over)
  <2>1. \A i \in 0..3 : c[i] # None => c[i] \in Node
    BY <1>4 DEF Borders
  <2> HIDE DEF c, all, over
  <2>2. \A i \in 0..3 : c[i] # None /\ c[i] \in all => c[i] \notin over
    BY <1>8, <1>9, <2>1
  <2> QED
    BY <1>4, <1>5, <1>6, <1>7, <1>8, <1>9, <2>2 DEF Fits, Closer
<1>11. ASSUME Nearest(n, l, b, r) PROVE Nearest(n, l, c, all)
  <2> SUFFICES ASSUME NEW y \in all
               PROVE  LET s == 2 * bits[y][l]
                      IN IF y < n THEN c[s] # None /\ y <= c[s]
                         ELSE c[s + 1] # None /\ c[s + 1] <= y
    BY DEF Nearest
  <2> DEFINE s == 2 * bits[y][l]
  <2>1. s \in {0, 2} /\ s + 1 \in {1, 3}
    <3>1. y \in Node
      BY <1>5
    <3>2. bits[y][l] \in {0, 1}
      BY <3>1
    <3> QED
      BY <3>2
  <2>2. CASE y \in r
    <3>1. IF y < n THEN b[s] # None /\ y <= b[s] ELSE b[s + 1] # None /\ b[s + 1] <= y
      BY <1>11, <2>2 DEF Nearest
    <3>2. /\ b[s] <= c[s]
          /\ b[s + 1] # None => c[s + 1] # None /\ c[s + 1] <= b[s + 1]
      BY <1>4, <2>1 DEF Closer
    <3>3. /\ b[s] \in Nat /\ b[s + 1] \in Nat /\ c[s] \in Nat /\ c[s + 1] \in Nat
          /\ y \in Nat /\ n \in Nat /\ None < y
      <4>1. \A i \in 0..3 : b[i] \in Nat
        BY Numbers DEF Borders
      <4>2. \A i \in 0..3 : c[i] \in Nat
        <5> HIDE DEF c
        <5> QED
          BY <1>4, Numbers DEF Borders
      <4>3. y \in Node
        BY <1>5
      <4>4. s \in 0..3 /\ s + 1 \in 0..3
        BY <2>1
      <4> HIDE DEF b, c, s, all, r
      <4> QED
        BY <4>1, <4>2, <4>3, <4>4, Numbers
    <3> HIDE DEF s, c, all, b, r
    <3>4. IF y < n THEN c[s] # None /\ y <= c[s] ELSE c[s + 1] # None /\ c[s + 1] <= y
      BY <3>1, <3>2, <3>3 DEF None
    <3> QED
      BY <3>4 DEF s
  <2>3. CASE y \notin r
    <3>1. y = x /\ ~out /\ c = NewBorder(n, x, l)
      BY <2>3
    <3>2. /\ x < n => c[s] # None /\ x <= c[s]
          /\ n < x => c[s + 1] # None /\ c[s + 1] <= x
      <4> HIDE DEF c, out, all
      <4> QED
        BY <3>1, NewBorderIs
    <3>3. x \in Nat /\ n \in Nat
      BY Numbers
    <3> HIDE DEF s, c, all, out
    <3>4. IF y < n THEN c[s] # None /\ y <= c[s] ELSE c[s + 1] # None /\ c[s + 1] <= y
      BY <3>1, <3>2, <3>3
    <3> QED
      BY <3>4 DEF s
  <2> QED
    BY <2>2, <2>3
<1>12. Nearest(n, l, b, r) => Nearest(n, l, c, all \ over)
  <2> HIDE DEF b, r, c
  <2>1. \A y \in all \ over : y \in all
    OBVIOUS
  <2> HIDE DEF all, over
  <2> QED
    BY <1>11, <2>1 DEF Nearest
<1>13. over \subseteq all
  OBVIOUS
<1> HIDE DEF out, b, r, c, all, over
<1>14. /\ u.inRange \union u.over = all /\ u.inRange \intersect u.over = {}
  BY <1>1, <1>13
<1>15. AllReported(n, x, l, u)
  BY <1>1, <1>2, <1>3, <1>5, <1>14 DEF out, r, AllReported
<1> QED
  BY <1>1, <1>4, <1>10, <1>12, <1>15 DEF b, r

-----------------------------------------------------------------------------
(* A node that is given a reference *)

\* The levels of r that hold y, and entries that have their number as their count.
Holding(r, y) == {l \in Level : y \in r[l]}
CountsOf(s, r) == \A i \in DOMAIN s : s[i].count = Cardinality(Holding(r, s[i].node))

\* What Update calls range, known, drops, counted, kept and dropped.
RangesAfter(n, x) == [l \in Level |-> updateRange(n, x, l)]
RefusedBy(n, x, y) == {l \in Level : y \in RangesAfter(n, x)[l].refused}
OverIn(n, x, y) == {l \in Level : y \in RangesAfter(n, x)[l].over}
Heard(n, x) ==
  IF x \in Names(conn[n])
  THEN [i \in DOMAIN conn[n] |->
          IF conn[n][i].node = x THEN [node |-> x, count |-> Depth] ELSE conn[n][i]]
  ELSE Append(conn[n], [node |-> x, count |-> Depth])
Drops(n, x, y) == Cardinality(RefusedBy(n, x, y)) + Cardinality(OverIn(n, x, y))
Counted(n, x) ==
  [i \in DOMAIN Heard(n, x) |->
     [Heard(n, x)[i] EXCEPT !.count = Minus(@, Drops(n, x, Heard(n, x)[i].node))]]
KeptPlaces(n, x) == {i \in DOMAIN Counted(n, x) : Counted(n, x)[i].count > 0}
DroppedPlaces(n, x) == {i \in DOMAIN Counted(n, x) : Counted(n, x)[i].count = 0}
Kept(n, x) == Pick(Counted(n, x), KeptPlaces(n, x))
Dropped(n, x) == Pick(Counted(n, x), DroppedPlaces(n, x))
NewRanges(n, x) == [l \in Level |-> RangesAfter(n, x)[l].inRange]
NewBorders(n, x) == [l \in Level |-> RangesAfter(n, x)[l].border]
PassedOn(n, x) ==
  [i \in DOMAIN Dropped(n, x) |->
     To(getBestFitNext(n, Kept(n, x), Dropped(n, x)[i].node), Ref(Dropped(n, x)[i].node))]

\* Update in the terms named above.
LEMMA UpdateIs ==
  ASSUME NEW n, NEW x, Update(n, x)
  PROVE  /\ border' = [border EXCEPT ![n] = NewBorders(n, x)]
         /\ inRange' = [inRange EXCEPT ![n] = NewRanges(n, x)]
         /\ conn' = [conn EXCEPT ![n] = Kept(n, x)]
         /\ changed' = [changed EXCEPT ![n] = @ \/ Dropped(n, x) # <<>> \/ x \notin Names(conn[n])]
         /\ outbox' = [outbox EXCEPT ![n] = PassedOn(n, x)]
         /\ UNCHANGED <<deleted, draining>>
BY DEF Update, NewBorders, NewRanges, Kept, Dropped, PassedOn, Counted, Heard, Drops,
       RefusedBy, OverIn, RangesAfter, KeptPlaces, DroppedPlaces

\* There are Depth levels.
LEMMA LevelFinite == IsFiniteSet(Level) /\ Cardinality(Level) = Depth
<1>1. Depth \in Nat /\ Depth # 0
  BY SkipGraphAssumption
<1>2. IsFiniteSet(0..Depth - 1) /\ Cardinality(0..Depth - 1) = IF 0 > Depth - 1 THEN 0 ELSE (Depth - 1) - 0 + 1
  BY <1>1, FS_Interval
<1> QED
  BY <1>1, <1>2 DEF Level

\* The cardinality of two disjoint sets of levels.
LEMMA LevelsAdd ==
  ASSUME NEW A, A \subseteq Level, NEW B, B \subseteq Level, A \intersect B = {}
  PROVE  /\ Cardinality(A) \in Nat /\ Cardinality(B) \in Nat
         /\ Cardinality(A \union B) = Cardinality(A) + Cardinality(B)
<1>1. IsFiniteSet(A) /\ IsFiniteSet(B)
  BY LevelFinite, FS_Subset
<1>2. Cardinality(A) \in Nat /\ Cardinality(B) \in Nat
  BY <1>1, FS_CardinalityType
<1>3. Cardinality(A \union B) = Cardinality(A) + Cardinality(B) - Cardinality(A \intersect B)
  BY <1>1, FS_Union
<1>4. Cardinality(A \intersect B) = 0
  BY FS_EmptySet
<1> QED
  BY <1>2, <1>3, <1>4

\* When x is heard of it is connected, with the number of the levels as its count.
LEMMA HeardIs ==
  ASSUME TypeOK, ConnInv, NEW n \in Node, NEW x \in Node
  PROVE  /\ Heard(n, x) \in Seq(Entry)
         /\ OneEntry(Heard(n, x))
         /\ Names(Heard(n, x)) = Names(conn[n]) \union {x}
         /\ \A i \in DOMAIN Heard(n, x) :
              IF Heard(n, x)[i].node = x THEN Heard(n, x)[i].count = Depth
              ELSE \E j \in DOMAIN conn[n] : Heard(n, x)[i] = conn[n][j]
<1> DEFINE s == conn[n]
           e == [node |-> x, count |-> Depth]
<1>1. s \in Seq(Entry) /\ OneEntry(s)
  BY DEF TypeOK, ConnInv
<1>2. e \in Entry /\ e.node = x /\ e.count = Depth
  BY Numbers DEF Entry
<1>3. DOMAIN s = 1..Len(s) /\ Len(s) \in Nat /\ \A i \in DOMAIN s : s[i] \in Entry
  BY <1>1, LenProperties, ElementOfSeq
<1> HIDE DEF e
<1>4. CASE x \in Names(s)
  <2> DEFINE h == [i \in DOMAIN s |-> IF s[i].node = x THEN e ELSE s[i]]
  <2>1. Heard(n, x) = h
    BY <1>4 DEF Heard, e
  <2>2. h \in [1..Len(s) -> Entry]
    BY <1>2, <1>3
  <2>3. h \in Seq(Entry)
    BY <1>3, <2>2, SeqDef
  <2> HIDE DEF s
  <2>4. DOMAIN h = DOMAIN s /\ \A i \in DOMAIN s : h[i].node = s[i].node
    BY <1>2
  <2>5. OneEntry(h)
    BY <1>1, <2>4 DEF OneEntry
  <2>6. Names(h) = Names(s)
    BY <2>4 DEF Names
  <2>7. \A i \in DOMAIN h : IF h[i].node = x THEN h[i].count = Depth
                            ELSE \E j \in DOMAIN s : h[i] = s[j]
    BY <1>2
  <2> HIDE DEF h
  <2> QED
    BY <1>4, <2>1, <2>3, <2>5, <2>6, <2>7 DEF s
<1>5. CASE x \notin Names(s)
  <2> DEFINE h == Append(s, e)
  <2>1. Heard(n, x) = h
    BY <1>5 DEF Heard, e
  <2>2. /\ h \in Seq(Entry) /\ Len(h) = Len(s) + 1 /\ h[Len(s) + 1] = e
        /\ \A i \in 1..Len(s) : h[i] = s[i]
    BY <1>1, <1>2, AppendProperties
  <2>3. DOMAIN h = 1..Len(s) + 1
    BY <2>2, LenProperties
  <2> HIDE DEF h, s
  <2>4. \A i \in DOMAIN h : \/ i \in DOMAIN s /\ h[i] = s[i]
                            \/ i = Len(s) + 1 /\ h[i] = e
    BY <1>3, <2>2, <2>3
  <2>5. \A i \in DOMAIN s : s[i].node # x
    BY <1>5 DEF Names
  <2>6. DOMAIN s \subseteq DOMAIN h /\ Len(s) + 1 \in DOMAIN h
    BY <1>3, <2>3
  <2>7. OneEntry(h)
    BY <1>1, <1>2, <2>4, <2>5 DEF OneEntry
  <2>8. Names(h) = Names(s) \union {x}
    BY <1>2, <1>3, <2>2, <2>4, <2>6 DEF Names
  <2>9. \A i \in DOMAIN h : IF h[i].node = x THEN h[i].count = Depth
                            ELSE \E j \in DOMAIN s : h[i] = s[j]
    BY <1>2, <2>4, <2>5
  <2> QED
    BY <2>1, <2>2, <2>7, <2>8, <2>9 DEF s
<1> QED
  BY <1>4, <1>5

\* Where a node is no longer held, and the refusals, add up to its count.
LEMMA DropsAre ==
  ASSUME TypeOK, RangesInv, NEW n \in Node, NEW x \in Node, x # n, NEW y \in Node
  PROVE  /\ Drops(n, x, y) \in Nat
         /\ Cardinality(Holding(NewRanges(n, x), y)) \in Nat
         /\ Cardinality(Holding(NewRanges(n, x), y)) + Drops(n, x, y) =
              IF y = x THEN Depth ELSE Cardinality(Holding(inRange[n], y))
<1> DEFINE A == RefusedBy(n, x, y)
           B == OverIn(n, x, y)
           C == Holding(NewRanges(n, x), y)
<1>1. ASSUME NEW l \in Level
      PROVE  /\ l \in A <=> Outside(n, x, l) /\ y = x
             /\ l \in B => l \notin C
             /\ Outside(n, x, l) => x \notin inRange[n][l]
             /\ (l \in B \/ l \in C) <=> (y \in inRange[n][l] \/ (y = x /\ ~Outside(n, x, l)))
  <2> DEFINE u == updateRange(n, x, l)
  <2>1. /\ u.inRange \intersect u.over = {}
        /\ u.inRange \union u.over =
             inRange[n][l] \union (IF Outside(n, x, l) THEN {} ELSE {x})
        /\ u.refused = IF Outside(n, x, l) THEN {x} ELSE {}
        /\ Outside(n, x, l) => x \notin inRange[n][l]
    <3>1. /\ bits \in [Node -> [Level -> {0, 1}]]
          /\ border[n][l] \in Borders /\ inRange[n][l] \subseteq Node
          /\ Fits(n, l, border[n][l], inRange[n][l])
      BY DEF TypeOK, RangesInv
    <3>2. u = updateRange(n, x, l)
      OBVIOUS
    <3> HIDE DEF u, A, B, C
    <3>3. AllReported(n, x, l, u)
      BY <3>1, <3>2, UpdatedRange
    <3> QED
      BY <3>3 DEF AllReported
  <2>2. RangesAfter(n, x)[l] = u /\ NewRanges(n, x)[l] = u.inRange
    BY DEF RangesAfter, NewRanges
  <2> HIDE DEF u
  <2>3. /\ l \in A <=> y \in u.refused
        /\ l \in B <=> y \in u.over
        /\ l \in C <=> y \in u.inRange
    BY <2>2 DEF RefusedBy, OverIn, Holding
  <2> HIDE DEF A, B, C
  <2> QED
    BY <2>1, <2>3
<1>2. A \subseteq Level /\ B \subseteq Level /\ C \subseteq Level
  BY DEF RefusedBy, OverIn, Holding
<1>3. Drops(n, x, y) = Cardinality(A) + Cardinality(B)
  BY DEF Drops
<1> HIDE DEF A, B, C
<1>4. B \intersect C = {}
  BY <1>1, <1>2
<1>5. /\ Cardinality(B) \in Nat /\ Cardinality(C) \in Nat
      /\ Cardinality(B \union C) = Cardinality(B) + Cardinality(C)
  BY <1>2, <1>4, LevelsAdd
<1>6. CASE y = x
  <2>1. A \intersect (B \union C) = {}
    BY <1>1, <1>2, <1>6
  <2>2. A \union (B \union C) = Level
    BY <1>1, <1>2, <1>6
  <2>3. B \union C \subseteq Level
    BY <1>2
  <2>4. /\ Cardinality(A) \in Nat
        /\ Cardinality(Level) = Cardinality(A) + Cardinality(B \union C)
    BY <1>2, <2>1, <2>2, <2>3, LevelsAdd
  <2>5. Cardinality(C) + (Cardinality(A) + Cardinality(B)) = Depth
    BY <1>5, <2>4, LevelFinite
  <2>6. Cardinality(A) + Cardinality(B) \in Nat
    BY <1>5, <2>4
  <2> QED
    BY <1>3, <1>5, <1>6, <2>5, <2>6 DEF C
<1>7. CASE y # x
  <2>1. A = {}
    BY <1>1, <1>2, <1>7
  <2>2. B \union C = Holding(inRange[n], y)
    BY <1>1, <1>2, <1>7 DEF Holding
  <2>3. Cardinality(A) = 0
    BY <2>1, FS_EmptySet
  <2>4. Cardinality(C) + (Cardinality(A) + Cardinality(B)) = Cardinality(Holding(inRange[n], y))
    <3>1. Cardinality(B \union C) = Cardinality(Holding(inRange[n], y))
      BY <2>2
    <3>2. Cardinality(C) + (Cardinality(A) + Cardinality(B)) = Cardinality(B) + Cardinality(C)
      BY <1>5, <2>3
    <3> QED
      BY <1>5, <3>1, <3>2
  <2>5. Cardinality(A) + Cardinality(B) \in Nat
    BY <1>5, <2>3
  <2> QED
    BY <1>3, <1>5, <1>7, <2>4, <2>5 DEF C
<1> QED
  BY <1>6, <1>7

\* Once the drops are counted, each count is the number of the new ranges that hold the node.
LEMMA CountedIs ==
  ASSUME TypeOK, RangesInv, ConnInv, CountsRanges, NEW n \in Node, NEW x \in Node, x # n
  PROVE  /\ Counted(n, x) \in Seq(Entry)
         /\ OneEntry(Counted(n, x))
         /\ Names(Counted(n, x)) = Names(conn[n]) \union {x}
         /\ CountsOf(Counted(n, x), NewRanges(n, x))
<1> DEFINE h == Heard(n, x)
           q == Counted(n, x)
           r == NewRanges(n, x)
<1>1. /\ h \in Seq(Entry) /\ OneEntry(h) /\ Names(h) = Names(conn[n]) \union {x}
      /\ \A i \in DOMAIN h : IF h[i].node = x THEN h[i].count = Depth
                             ELSE \E j \in DOMAIN conn[n] : h[i] = conn[n][j]
  BY HeardIs
<1>2. DOMAIN h = 1..Len(h) /\ Len(h) \in Nat /\ \A i \in DOMAIN h : h[i] \in Entry
  BY <1>1, LenProperties, ElementOfSeq
<1>3. q = [i \in DOMAIN h |-> [h[i] EXCEPT !.count = Minus(@, Drops(n, x, h[i].node))]]
  BY DEF Counted
<1> HIDE DEF h, q, r
<1>4. ASSUME NEW i \in DOMAIN h
      PROVE  /\ q[i] \in Entry /\ q[i].node = h[i].node
             /\ q[i].count = Cardinality(Holding(r, q[i].node))
  <2>1. h[i] \in Entry /\ h[i].node \in Node /\ h[i].count \in Nat
    BY <1>2 DEF Entry
  <2> DEFINE y == h[i].node
             d == Drops(n, x, y)
             m == Cardinality(Holding(r, y))
  <2>2. q[i] = [node |-> y, count |-> Minus(h[i].count, d)]
    BY <1>3, <2>1 DEF Entry
  <2>3. /\ d \in Nat /\ m \in Nat
        /\ m + d = IF y = x THEN Depth ELSE Cardinality(Holding(inRange[n], y))
    BY <2>1, DropsAre DEF r
  <2>4. h[i].count = IF y = x THEN Depth ELSE Cardinality(Holding(inRange[n], y))
    <3>1. CASE y = x
      BY <1>1, <3>1
    <3>2. CASE y # x
      <4>1. PICK j \in DOMAIN conn[n] : h[i] = conn[n][j]
        BY <1>1, <3>2
      <4>2. conn[n][j].count = Cardinality(Holding(inRange[n], conn[n][j].node))
        BY DEF CountsRanges, Holding
      <4> QED
        BY <3>2, <4>1, <4>2
    <3> QED
      BY <3>1, <3>2
  <2> HIDE DEF y, d, m
  <2>5. Minus(h[i].count, d) = m
    BY <2>1, <2>3, <2>4 DEF Minus
  <2> QED
    BY <2>1, <2>2, <2>3, <2>5 DEF Entry, m, y
<1>5. DOMAIN q = DOMAIN h
  BY <1>3
<1>6. q \in [1..Len(h) -> Entry]
  BY <1>2, <1>3, <1>4
<1>7. q \in Seq(Entry)
  BY <1>2, <1>6, SeqDef
<1>8. OneEntry(q)
  BY <1>1, <1>4, <1>5 DEF OneEntry
<1>9. Names(q) = Names(h)
  BY <1>4, <1>5 DEF Names
<1>10. CountsOf(q, r)
  BY <1>4, <1>5 DEF CountsOf
<1> QED
  BY <1>1, <1>7, <1>8, <1>9, <1>10 DEF q, r

\* What is connected and x are kept or dropped, and what is kept is counted right.
LEMMA KeptIs ==
  ASSUME TypeOK, RangesInv, ConnInv, CountsRanges, NEW n \in Node, NEW x \in Node, x # n
  PROVE  /\ Kept(n, x) \in Seq(Entry) /\ Dropped(n, x) \in Seq(Entry)
         /\ OneEntry(Kept(n, x))
         /\ CountsOf(Kept(n, x), NewRanges(n, x))
         /\ Names(Kept(n, x)) \intersect Names(Dropped(n, x)) = {}
         /\ Names(Kept(n, x)) \union Names(Dropped(n, x)) = Names(conn[n]) \union {x}
         /\ \A l \in Level : NewRanges(n, x)[l] \subseteq Names(Kept(n, x))
<1> DEFINE q == Counted(n, x)
           r == NewRanges(n, x)
           K == KeptPlaces(n, x)
           D == DroppedPlaces(n, x)
<1>1. /\ q \in Seq(Entry) /\ OneEntry(q) /\ Names(q) = Names(conn[n]) \union {x}
      /\ CountsOf(q, r)
  BY CountedIs
<1>2. \A i \in DOMAIN q : q[i] \in Entry /\ q[i].node \in Node /\ q[i].count \in Nat
  <2>1. \A i \in DOMAIN q : q[i] \in Entry
    BY <1>1, LenProperties, ElementOfSeq
  <2> QED
    BY <2>1 DEF Entry
<1>3. /\ K = {i \in DOMAIN q : q[i].count > 0} /\ D = {i \in DOMAIN q : q[i].count = 0}
      /\ K \subseteq DOMAIN q /\ D \subseteq DOMAIN q
  BY DEF KeptPlaces, DroppedPlaces
<1>4. Kept(n, x) = Pick(q, K) /\ Dropped(n, x) = Pick(q, D)
  BY DEF Kept, Dropped
<1> HIDE DEF q, r, K, D
<1>5. Rearranged(Kept(n, x), q, K) /\ Rearranged(Dropped(n, x), q, D)
  BY <1>1, <1>3, <1>4, PickIs
<1>6. Kept(n, x) \in Seq(Entry) /\ HasOnly(Kept(n, x), q, K)
  BY <1>1, <1>3, <1>5, RearrangedHas
<1>7. Dropped(n, x) \in Seq(Entry)
  BY <1>1, <1>3, <1>5, RearrangedHas
<1>8. OneEntry(Kept(n, x)) /\ Names(Kept(n, x)) = {q[i].node : i \in K}
  BY <1>1, <1>3, <1>5, RearrangedNames
<1>9. Names(Dropped(n, x)) = {q[i].node : i \in D}
  BY <1>1, <1>3, <1>5, RearrangedNames
<1>10. CountsOf(Kept(n, x), r)
  BY <1>1, <1>3, <1>6 DEF CountsOf, HasOnly
<1>11. K \intersect D = {} /\ K \union D = DOMAIN q
  <2>1. \A i \in DOMAIN q : i \in K <=> i \notin D
    BY <1>2, <1>3
  <2> QED
    BY <1>3, <2>1
<1>12. Names(Kept(n, x)) \intersect Names(Dropped(n, x)) = {}
  BY <1>1, <1>3, <1>8, <1>9, <1>11 DEF OneEntry
<1>13. Names(Kept(n, x)) \union Names(Dropped(n, x)) = Names(conn[n]) \union {x}
  BY <1>1, <1>8, <1>9, <1>11 DEF Names
<1>14. ASSUME NEW l \in Level, NEW y \in r[l] PROVE y \in Names(Kept(n, x))
  <2> DEFINE u == updateRange(n, x, l)
  <2>1. AllReported(n, x, l, u)
    <3>1. /\ bits \in [Node -> [Level -> {0, 1}]]
          /\ border[n][l] \in Borders /\ inRange[n][l] \subseteq Node
          /\ Fits(n, l, border[n][l], inRange[n][l])
      BY DEF TypeOK, RangesInv
    <3>2. u = updateRange(n, x, l)
      OBVIOUS
    <3> HIDE DEF u
    <3> QED
      BY <3>1, <3>2, UpdatedRange
  <2>2. y \in u.inRange
    BY <1>14 DEF r, NewRanges, RangesAfter
  <2> HIDE DEF u
  <2>3. y \in inRange[n][l] \union {x}
    BY <2>1, <2>2 DEF AllReported
  <2>4. y \in Names(q)
    BY <1>1, <2>3 DEF ConnInv
  <2>5. PICK i \in DOMAIN q : y = q[i].node
    BY <2>4 DEF Names
  <2>6. l \in Holding(r, y)
    BY <1>14 DEF Holding
  <2>7. IsFiniteSet(Holding(r, y))
    BY LevelFinite, FS_Subset DEF Holding
  <2>8. Cardinality(Holding(r, y)) # 0
    BY <2>6, <2>7, FS_EmptySet
  <2>9. q[i].count > 0
    BY <1>1, <1>2, <2>5, <2>8 DEF CountsOf
  <2> QED
    BY <1>3, <1>8, <2>5, <2>9
<1> QED
  BY <1>6, <1>7, <1>8, <1>10, <1>12, <1>13, <1>14 DEF r

\* What the operators for messages and letters make.
LEMMA LettersAre ==
  /\ \A x \in Node : Ref(x) \in Message /\ Leave(x) \in Message
  /\ \A x \in Node, b \in BOOLEAN : Search(x, b) \in Message
  /\ Quit \in Message
  /\ \A y \in Node, m \in Message : To(y, m) \in Letter /\ To(y, m).to = y /\ To(y, m).msg = m
  /\ \A y, x \in Node : To(y, Ref(x)) \in Letter /\ To(y, Leave(x)) \in Letter
<1>1. \A x \in Node : Ref(x) \in Message /\ Leave(x) \in Message
  BY DEF Message
<1>2. \A x \in Node, b \in BOOLEAN : Search(x, b) \in Message
  BY DEF Message
<1>3. Quit \in Message
  BY DEF Message
<1> HIDE DEF Message
<1>4. \A y \in Node, m \in Message : To(y, m) \in Letter /\ To(y, m).to = y /\ To(y, m).msg = m
  BY DEF Letter, To
<1> QED
  BY <1>1, <1>2, <1>3, <1>4

\* Each dropped node is sent to a node that is kept, or to n itself.
LEMMA PassedOnIs ==
  ASSUME TypeOK, RangesInv, ConnInv, CountsRanges, NEW n \in Node, NEW x \in Node, x # n
  PROVE  /\ PassedOn(n, x) \in Seq(Letter)
         /\ \A i \in DOMAIN PassedOn(n, x) :
              \E z \in Names(Kept(n, x)) \union {n}, d \in Names(Dropped(n, x)) :
                z # d /\ PassedOn(n, x)[i] = To(z, Ref(d))
         /\ \A d \in Names(Dropped(n, x)) : \E z \in Names(Kept(n, x)) \union {n} :
              \E i \in DOMAIN PassedOn(n, x) : PassedOn(n, x)[i] = To(z, Ref(d))
<1> DEFINE k == Kept(n, x)
           q == Dropped(n, x)
           p == PassedOn(n, x)
           next(d) == getBestFitNext(n, k, d)
<1>1. /\ k \in Seq(Entry) /\ q \in Seq(Entry) /\ Names(k) \intersect Names(q) = {}
      /\ Names(k) \union Names(q) = Names(conn[n]) \union {x}
  BY KeptIs
<1>2. \A d \in Node : next(d) \in Names(k) \union {n}
  <2> SUFFICES ASSUME NEW d \in Node PROVE next(d) \in Names(k) \union {n}
    OBVIOUS
  <2>1. CASE k = <<>>
    BY <2>1 DEF getBestFitNext
  <2>2. CASE k # <<>>
    <3> HIDE DEF k
    <3> QED
      BY <1>1, <2>2, BestFitIs
  <2> QED
    BY <2>1, <2>2
<1>3. n \notin Names(conn[n]) \union {x}
  BY DEF ConnInv
<1>4. p = [i \in DOMAIN q |-> To(next(q[i].node), Ref(q[i].node))]
  BY DEF PassedOn
<1> HIDE DEF k, q, p, next
<1>5. DOMAIN q = 1..Len(q) /\ Len(q) \in Nat
  BY <1>1, LenProperties
<1>6. \A i \in DOMAIN q : q[i].node \in Node
  <2>1. \A i \in DOMAIN q : q[i] \in Entry
    BY <1>1, <1>5, ElementOfSeq
  <2> QED
    BY <2>1 DEF Entry
<1>7. Names(k) \subseteq Node
  <2>1. \A i \in DOMAIN k : k[i] \in Entry
    BY <1>1, LenProperties, ElementOfSeq
  <2> QED
    BY <2>1 DEF Entry, Names
<1>8. ASSUME NEW i \in DOMAIN q
      PROVE  /\ p[i] = To(next(q[i].node), Ref(q[i].node))
             /\ q[i].node \in Names(q) /\ next(q[i].node) \in Names(k) \union {n}
             /\ next(q[i].node) # q[i].node
  <2>1. p[i] = To(next(q[i].node), Ref(q[i].node)) /\ q[i].node \in Names(q)
    BY <1>4 DEF Names
  <2>2. next(q[i].node) \in Names(k) \union {n}
    BY <1>2, <1>6
  <2> QED
    BY <1>1, <1>3, <2>1, <2>2
<1>9. ASSUME NEW i \in DOMAIN q PROVE p[i] \in Letter
  <2>1. next(q[i].node) \in Node /\ q[i].node \in Node
    BY <1>6, <1>7, <1>8
  <2> QED
    BY <1>8, <2>1, LettersAre
<1>10. DOMAIN p = DOMAIN q
  BY <1>4
<1>11. p \in [1..Len(q) -> Letter]
  BY <1>4, <1>5, <1>9
<1>12. p \in Seq(Letter)
  BY <1>5, <1>11, SeqDef
<1>13. \A d \in Names(q) : \E i \in DOMAIN q : d = q[i].node
  BY DEF Names
<1> QED
  BY <1>8, <1>10, <1>12, <1>13 DEF k, q, p

-----------------------------------------------------------------------------
(* What a node sends when its ticker fires *)

\* References that n sends: from what it has connected, and its own.
Intro(n) == {o \in Letter : \E y, x \in Names(conn[n]) \union {n} : y # x /\ o = To(y, Ref(x))}

\* A reference to one of what n has connected and n, sent to another of these, is in Intro.
LEMMA IntroHas ==
  ASSUME TypeOK, NEW n \in Node
  PROVE  /\ Names(conn[n]) \subseteq Node
         /\ \A y, x \in Names(conn[n]) \union {n} : y # x => To(y, Ref(x)) \in Intro(n)
<1>1. Names(conn[n]) \subseteq Node
  <2>1. conn[n] \in Seq(Entry)
    BY DEF TypeOK
  <2>2. \A i \in DOMAIN conn[n] : conn[n][i] \in Entry
    BY <2>1, LenProperties, ElementOfSeq
  <2> QED
    BY <2>2 DEF Entry, Names
<1>2. \A y, x \in Names(conn[n]) \union {n} : To(y, Ref(x)) \in Letter
  BY <1>1, LettersAre
<1> QED
  BY <1>1, <1>2 DEF Intro

\* The sequences that linearizeRange is put together from.
LEMMA ShortSeqs ==
  ASSUME NEW T
  PROVE  /\ <<>> \in Seq(T)
         /\ \A a \in T : <<a>> \in Seq(T)
         /\ \A a, b \in T : <<a, b>> \in Seq(T)
         /\ \A s, t \in Seq(T) : s \o t \in Seq(T)
BY ConcatProperties

\* What one level sends when the ticker fires.
LEMMA LinearizeIs ==
  ASSUME TypeOK, RangesInv, ConnInv, NEW n \in Node, NEW l \in Level
  PROVE  linearizeRange(n, l) \in Seq(Intro(n))
<1> DEFINE T == Intro(n)
           S == inRange[n][l]
           r == Sorted(S)
           c == Cardinality(S)
           b == border[n][l]
           I == {i \in 1..Len(r) : r[i] > n}
           middle == IF I # {} THEN Min(I) ELSE 0
           intro(i) == IF i # middle THEN <<>>
                       ELSE <<To(r[i], Ref(n))>> \o
                              (IF i > 1 THEN <<To(r[i - 1], Ref(n))>> ELSE <<>>)
           pair(i) == IF i = 1 THEN <<>>
                      ELSE IF r[i] < n THEN <<To(r[i - 1], Ref(r[i]))>>
                      ELSE <<To(r[i], Ref(r[i - 1]))>>
           across(i) == IF r[i] < n THEN <<To(r[i], Ref(r[middle]))>>
                        ELSE IF middle > 1 THEN <<To(r[i], Ref(r[middle - 1]))>> ELSE <<>>
           both(x, y) == IF x = None \/ y = None THEN <<>> ELSE <<To(x, Ref(y)), To(y, Ref(x))>>
           D == DOMAIN r
           first == Flat([i \in D |-> intro(i) \o pair(i)])
           last == IF r # <<>> /\ middle = 0 THEN <<To(Last(r), Ref(n))>> ELSE <<>>
           second == IF middle = 0 THEN <<>> ELSE Flat([i \in D |-> across(i)])
<1>1. linearizeRange(n, l) = first \o last \o second \o both(b[0], b[3]) \o both(b[1], b[2])
  BY DEF linearizeRange, SelectInSeq
<1>2. /\ S \subseteq Node /\ n \notin S /\ S \subseteq Names(conn[n])
  BY DEF TypeOK, RangesInv, Fits, ConnInv
<1>3. IsFiniteSet(S) /\ S \subseteq Nat
  <2>1. IsFiniteSet(Node)
    BY FS_Interval, Numbers DEF Node
  <2> HIDE DEF S
  <2> QED
    BY <1>2, <2>1, FS_Subset, Numbers
<1>4. /\ c \in Nat /\ r \in [1..c -> S]
      /\ \A j, k \in 1..c : j < k => r[j] < r[k]
  <2> HIDE DEF S
  <2> QED
    BY <1>3, SortedIs
<1>5. \A y, x \in S \union {n} : y # x => To(y, Ref(x)) \in T
  BY <1>2, IntroHas
<1> HIDE DEF S, r, c, T
<1>6. r \in Seq(S) /\ Len(r) = c /\ D = 1..c
  <2>1. r \in Seq(S) /\ D = 1..c
    BY <1>4, SeqDef
  <2> QED
    BY <1>4, <2>1, LenProperties
<1>7. \A i \in 1..c : r[i] \in S /\ r[i] \in Nat /\ r[i] # n
  BY <1>2, <1>3, <1>4
<1>8. n \in Nat
  BY Numbers
<1>9. /\ middle = 0 => \A i \in 1..c : ~(r[i] > n)
      /\ middle # 0 => /\ middle \in 1..c /\ r[middle] > n
                       /\ \A i \in 1..c : r[i] > n => middle <= i
  <2>1. I \subseteq Nat /\ I \subseteq 1..c
    BY <1>6
  <2>2. \A i \in 1..c : i \in I <=> r[i] > n
    BY <1>6
  <2> HIDE DEF I
  <2>3. CASE I = {}
    BY <2>2, <2>3
  <2>4. CASE I # {}
    <3>1. PICK i \in I : \A j \in I : i <= j
      BY <2>1, <2>4, LeastExists
    <3>2. Min(I) \in I /\ \A j \in I : Min(I) <= j
      BY <3>1 DEF Min
    <3>3. middle = Min(I)
      BY <2>4
    <3> HIDE DEF middle
    <3>5. middle \in I /\ middle \in 1..c /\ \A j \in I : middle <= j
      BY <2>1, <3>2, <3>3
    <3>4. middle \in 1..c /\ middle # 0 /\ r[middle] > n /\ \A j \in I : middle <= j
      BY <1>4, <2>2, <3>5
    <3> QED
      BY <2>2, <3>4
  <2> QED
    BY <2>3, <2>4
<1> HIDE DEF middle
<1>10. \A i \in 1..c : i > 1 => i - 1 \in 1..c /\ r[i - 1] # r[i]
  <2> SUFFICES ASSUME NEW i \in 1..c, i > 1 PROVE i - 1 \in 1..c /\ r[i - 1] # r[i]
    OBVIOUS
  <2>1. i - 1 \in 1..c /\ i - 1 < i
    BY <1>4
  <2>2. r[i - 1] < r[i] /\ r[i - 1] \in Nat /\ r[i] \in Nat
    BY <1>4, <1>7, <2>1
  <2> QED
    BY <2>1, <2>2
<1>11. \A i \in 1..c : intro(i) \in Seq(T) /\ pair(i) \in Seq(T)
  <2> SUFFICES ASSUME NEW i \in 1..c PROVE intro(i) \in Seq(T) /\ pair(i) \in Seq(T)
    OBVIOUS
  <2>1. To(r[i], Ref(n)) \in T
    BY <1>5, <1>7
  <2>2. i > 1 => To(r[i - 1], Ref(n)) \in T
    BY <1>5, <1>7, <1>10
  <2>3. i > 1 => To(r[i - 1], Ref(r[i])) \in T /\ To(r[i], Ref(r[i - 1])) \in T
    BY <1>5, <1>7, <1>10
  <2>4. i # 1 => i > 1
    BY <1>4
  <2>5. intro(i) \in Seq(T)
    BY <2>1, <2>2, ShortSeqs
  <2>6. pair(i) \in Seq(T)
    BY <2>3, <2>4, ShortSeqs
  <2> QED
    BY <2>5, <2>6
<1>12. middle # 0 => \A i \in 1..c : across(i) \in Seq(T)
  <2> SUFFICES ASSUME middle # 0, NEW i \in 1..c PROVE across(i) \in Seq(T)
    OBVIOUS
  <2>1. middle \in 1..c /\ r[middle] > n /\ \A j \in 1..c : r[j] > n => middle <= j
    BY <1>9
  <2>2. CASE r[i] < n
    <3>1. r[i] \in S /\ r[middle] \in S /\ r[i] # r[middle]
      BY <1>7, <1>8, <2>1, <2>2
    <3>2. To(r[i], Ref(r[middle])) \in T
      BY <1>5, <3>1
    <3> QED
      BY <2>2, <3>2, ShortSeqs
  <2>3. CASE ~(r[i] < n) /\ middle > 1
    <3>1. middle - 1 \in 1..c /\ ~(middle <= middle - 1)
      BY <1>4, <2>1, <2>3
    <3>2. ~(r[middle - 1] > n)
      BY <2>1, <3>1
    <3>3. r[i] \in S /\ r[middle - 1] \in S /\ r[i] # r[middle - 1]
      BY <1>7, <1>8, <2>3, <3>1, <3>2
    <3>4. To(r[i], Ref(r[middle - 1])) \in T
      BY <1>5, <3>3
    <3> QED
      BY <2>3, <3>4, ShortSeqs
  <2>4. CASE ~(r[i] < n) /\ ~(middle > 1)
    BY <2>4, ShortSeqs
  <2> QED
    BY <2>2, <2>3, <2>4
<1>13. ASSUME NEW x, NEW y, x # None /\ y # None => x \in S /\ y \in S /\ x # y
       PROVE  both(x, y) \in Seq(T)
  <2>1. x # None /\ y # None => To(x, Ref(y)) \in T /\ To(y, Ref(x)) \in T
    BY <1>5, <1>13
  <2> QED
    BY <2>1, ShortSeqs
<1>14. both(b[0], b[3]) \in Seq(T) /\ both(b[1], b[2]) \in Seq(T)
  <2>1. /\ \A i \in {0, 2} : b[i] # None => b[i] \in S /\ b[i] < n
        /\ \A i \in {1, 3} : b[i] # None => b[i] \in S /\ n < b[i]
    BY DEF RangesInv, Fits, S
  <2> HIDE DEF b, both
  <2>4. /\ b[0] # None => b[0] \in S /\ b[0] < n /\ b[0] \in Nat
        /\ b[2] # None => b[2] \in S /\ b[2] < n /\ b[2] \in Nat
    BY <1>3, <2>1
  <2>5. /\ b[1] # None => b[1] \in S /\ n < b[1] /\ b[1] \in Nat
        /\ b[3] # None => b[3] \in S /\ n < b[3] /\ b[3] \in Nat
    BY <1>3, <2>1
  <2>2. b[0] # None /\ b[3] # None => b[0] \in S /\ b[3] \in S /\ b[0] # b[3]
    BY <1>8, <2>4, <2>5
  <2>3. b[1] # None /\ b[2] # None => b[1] \in S /\ b[2] \in S /\ b[1] # b[2]
    BY <1>8, <2>4, <2>5
  <2> QED
    BY <1>13, <2>2, <2>3
<1> HIDE DEF intro, pair, across, both
<1>15. first \in Seq(T)
  <2> DEFINE f == [i \in D |-> intro(i) \o pair(i)]
  <2>1. \A i \in 1..c : intro(i) \o pair(i) \in Seq(T)
    BY <1>11, ShortSeqs
  <2>2. f \in [1..c -> Seq(T)]
    BY <1>6, <2>1
  <2>3. f \in Seq(Seq(T))
    BY <1>4, <2>2, SeqDef
  <2> HIDE DEF f
  <2>4. Flat(f) \in Seq(T)
    BY <2>3, FlatIs
  <2> QED
    BY <2>4 DEF f
<1>16. second \in Seq(T)
  <2> DEFINE f == [i \in D |-> across(i)]
  <2>1. CASE middle = 0
    BY <2>1, ShortSeqs
  <2>2. CASE middle # 0
    <3>1. f \in [1..c -> Seq(T)]
      BY <1>6, <1>12, <2>2
    <3>2. f \in Seq(Seq(T))
      BY <1>4, <3>1, SeqDef
    <3> HIDE DEF f
    <3>3. Flat(f) \in Seq(T)
      BY <3>2, FlatIs
    <3> QED
      BY <2>2, <3>3 DEF f
  <2> QED
    BY <2>1, <2>2
<1>17. last \in Seq(T)
  <2>1. CASE r # <<>> /\ middle = 0
    <3>1. Len(r) # 0 /\ Len(r) \in 1..c
      BY <1>4, <1>6, <2>1, EmptySeq
    <3>2. r[Len(r)] \in S /\ r[Len(r)] # n
      BY <1>7, <3>1
    <3>3. To(r[Len(r)], Ref(n)) \in T
      BY <1>5, <3>2
    <3> QED
      BY <2>1, <3>3, ShortSeqs DEF Last
  <2>2. CASE ~(r # <<>> /\ middle = 0)
    BY <2>2, ShortSeqs
  <2> QED
    BY <2>1, <2>2
<1> HIDE DEF first, last, second
<1>18. first \o last \o second \o both(b[0], b[3]) \o both(b[1], b[2]) \in Seq(T)
  <2>1. first \o last \in Seq(T)
    BY <1>15, <1>17, ShortSeqs
  <2>2. first \o last \o second \in Seq(T)
    BY <1>16, <2>1, ShortSeqs
  <2>3. first \o last \o second \o both(b[0], b[3]) \in Seq(T)
    BY <1>14, <2>2, ShortSeqs
  <2> QED
    BY <1>14, <2>3, ShortSeqs
<1> QED
  BY <1>1, <1>18 DEF T

\* What all levels send when the ticker fires.
LEMMA TimeoutSends ==
  ASSUME TypeOK, RangesInv, ConnInv, NEW n \in Node
  PROVE  Flat([i \in 1..Depth |-> linearizeRange(n, i - 1)]) \in Seq(Intro(n))
<1> DEFINE f == [i \in 1..Depth |-> linearizeRange(n, i - 1)]
<1>1. Depth \in Nat /\ \A i \in 1..Depth : i - 1 \in Level
  BY Numbers DEF Level
<1>2. \A i \in 1..Depth : linearizeRange(n, i - 1) \in Seq(Intro(n))
  BY <1>1, LinearizeIs
<1>3. f \in [1..Depth -> Seq(Intro(n))]
  BY <1>2
<1>4. f \in Seq(Seq(Intro(n)))
  BY <1>1, <1>3, SeqDef
<1> HIDE DEF f
<1>5. Flat(f) \in Seq(Intro(n))
  BY <1>4, FlatIs
<1> QED
  BY <1>5 DEF f

-----------------------------------------------------------------------------
(* A node that removes, sorts and searches *)

\* The entries of the connected nodes.
LEMMA ConnType ==
  ASSUME TypeOK, NEW n \in Node
  PROVE  /\ conn[n] \in Seq(Entry) /\ DOMAIN conn[n] = 1..Len(conn[n]) /\ Len(conn[n]) \in Nat
         /\ \A i \in DOMAIN conn[n] : conn[n][i].node \in Node
<1>1. conn[n] \in Seq(Entry)
  BY DEF TypeOK
<1>2. \A i \in DOMAIN conn[n] : conn[n][i] \in Entry
  BY <1>1, LenProperties, ElementOfSeq
<1> QED
  BY <1>1, <1>2, LenProperties DEF Entry

\* What is connected to n but x.
Without(n, x) == Pick(conn[n], {i \in DOMAIN conn[n] : conn[n][i].node # x})

\* What is connected once x is removed.
LEMMA WithoutIs ==
  ASSUME TypeOK, NEW n \in Node, OneEntry(conn[n]), NEW x
  PROVE  /\ Without(n, x) \in Seq(Entry)
         /\ OneEntry(Without(n, x))
         /\ Names(Without(n, x)) = Names(conn[n]) \ {x}
         /\ HasOnly(Without(n, x), conn[n], DOMAIN conn[n])
<1> DEFINE s == conn[n]
           I == {i \in DOMAIN s : s[i].node # x}
           q == Pick(s, I)
<1>1. s \in Seq(Entry) /\ I \subseteq DOMAIN s
  BY ConnType
<1>2. Without(n, x) = q
  BY DEF Without
<1>3. Names(s) \ {x} = {s[i].node : i \in I}
  BY DEF Names
<1> HIDE DEF s, I, q
<1>4. Rearranged(q, s, I)
  BY <1>1, PickIs DEF q
<1>5. q \in Seq(Entry) /\ HasOnly(q, s, I)
  BY <1>1, <1>4, RearrangedHas
<1>6. OneEntry(q) /\ Names(q) = {s[i].node : i \in I}
  BY <1>1, <1>4, RearrangedNames DEF s
<1>7. HasOnly(q, s, DOMAIN s)
  BY <1>1, <1>5 DEF HasOnly
<1> QED
  BY <1>2, <1>3, <1>5, <1>6, <1>7 DEF s

\* Sorting what is connected changes the places only.
LEMMA SortConnectedIs ==
  ASSUME TypeOK, NEW n \in Node, OneEntry(conn[n]), NEW x
  PROVE  /\ SortConnected(n, x) \in Seq(Entry)
         /\ OneEntry(SortConnected(n, x))
         /\ Names(SortConnected(n, x)) = Names(conn[n])
         /\ HasOnly(SortConnected(n, x), conn[n], DOMAIN conn[n])
<1> DEFINE s == conn[n]
           D == DOMAIN s
           R == {p \in D \X D : IF x > n THEN s[p[1]].node < s[p[2]].node
                                ELSE s[p[1]].node > s[p[2]].node}
           q == SortConnected(n, x)
<1>1. /\ s \in Seq(Entry) /\ D \subseteq DOMAIN s /\ IsFiniteSet(D)
      /\ \A i \in D : s[i].node \in Node
  BY ConnType, FS_Interval
<1>2. \A i, j \in D : <<i, j>> \in R <=> IF x > n THEN s[i].node < s[j].node
                                         ELSE s[i].node > s[j].node
  OBVIOUS
<1>3. q = [k \in DOMAIN InOrder(D, R) |-> s[InOrder(D, R)[k]]]
  BY DEF SortConnected
<1>4. Names(s) = {s[i].node : i \in D}
  BY DEF Names
<1>5. \A i, j \in D : s[i].node = s[j].node => i = j
  BY DEF OneEntry
<1> HIDE DEF s, D, R, q
<1>6. \A i \in D : s[i].node \in Nat
  BY <1>1, Numbers
<1>7. Orders(R, D)
  BY <1>2, <1>5, <1>6 DEF Orders
<1>8. Rearranged(q, s, D)
  BY <1>1, <1>3, <1>7, InOrderRearranges
<1>9. q \in Seq(Entry) /\ HasOnly(q, s, D)
  BY <1>1, <1>8, RearrangedHas
<1>10. OneEntry(q) /\ Names(q) = {s[i].node : i \in D}
  BY <1>1, <1>8, RearrangedNames DEF s
<1> QED
  BY <1>4, <1>9, <1>10 DEF q, s, D

\* The letters that forward a search.
Seekers == {To(y, Search(x, b)) : y \in Node, x \in Node, b \in BOOLEAN}

\* A search is sent to a node, if at all.
LEMMA SearchSends ==
  ASSUME TypeOK, NEW n \in Node, NEW x \in Node
  PROVE  /\ searchOnNodeBitstring(n, x) \in Seq(Seekers)
         /\ searchOnNodeID(n, x) \in Seq(Seekers)
<1>1. \A y \in Node : To(y, Search(x, TRUE)) \in Seekers /\ To(y, Search(x, FALSE)) \in Seekers
  <2>1. \A y \in Node, b \in BOOLEAN : To(y, Search(x, b)) \in Seekers
    BY DEF Seekers
  <2> QED
    BY <2>1
<1>2. searchOnNodeBitstring(n, x) \in Seq(Seekers)
  <2> DEFINE s == conn[n]
             fits(y) == getFitLevel(y, x)
             I == {i \in 1..Len(s) : \A y \in Names(s) : fits(y) <= fits(s[i].node)}
             best == IF I # {} THEN Min(I) ELSE 0
  <2>1. searchOnNodeBitstring(n, x) =
          IF bits[x] = bits[n] \/ best = 0 \/ fits(s[best].node) <= fits(n) THEN <<>>
          ELSE <<To(s[best].node, Search(x, TRUE))>>
    BY DEF searchOnNodeBitstring, SelectInSeq
  <2>2. best # 0 => s[best].node \in Node
    <3> SUFFICES ASSUME best # 0 PROVE s[best].node \in Node
      OBVIOUS
    <3>1. I # {} /\ I \subseteq Nat /\ I \subseteq DOMAIN s
      BY ConnType
    <3> HIDE DEF I
    <3>2. PICK i \in I : \A j \in I : i <= j
      BY <3>1, LeastExists
    <3>3. Min(I) \in I
      BY <3>2 DEF Min
    <3> QED
      BY <3>1, <3>3, ConnType
  <2> HIDE DEF best, fits
  <2> QED
    BY <1>1, <2>1, <2>2, ShortSeqs
<1>3. searchOnNodeID(n, x) \in Seq(Seekers)
  <2> DEFINE B == {y \in Names(conn[n]) : (n < y /\ y <= x) \/ (x <= y /\ y < n)}
  <2>1. searchOnNodeID(n, x) = IF B = {} THEN <<>>
          ELSE <<To(IF x > n THEN Max(B) ELSE Min(B), Search(x, FALSE))>>
    BY DEF searchOnNodeID
  <2>2. B \subseteq Node
    BY ConnType DEF Names
  <2> HIDE DEF B
  <2>3. B # {} => Min(B) \in Node /\ Max(B) \in Node
    <3> SUFFICES ASSUME B # {} PROVE Min(B) \in Node /\ Max(B) \in Node
      OBVIOUS
    <3>1. B \subseteq Nat /\ \A y \in B : y <= N
      BY <2>2, Numbers DEF Node
    <3>2. PICK y \in B : \A z \in B : y <= z
      BY <3>1, LeastExists
    <3>3. PICK w \in B : \A z \in B : z <= w
      BY <3>1, GreatestExists, Numbers
    <3>4. \A z \in B : w >= z
      BY <3>1, <3>3
    <3>5. Min(B) \in B
      BY <3>2 DEF Min
    <3>6. Max(B) \in B
      BY <3>4 DEF Max
    <3> QED
      BY <2>2, <3>5, <3>6
  <2> QED
    BY <1>1, <2>1, <2>3, ShortSeqs
<1> QED
  BY <1>2, <1>3

-----------------------------------------------------------------------------
(* The invariant *)

\* What n may keep about others: borders b, ranges r, connected nodes c and
\* deleted nodes d.
NodeOK(n, b, r, c, d) ==
  /\ \A l \in Level : Fits(n, l, b[l], r[l])
  /\ OneEntry(c) /\ n \notin Names(c) /\ d \intersect Names(c) = {}
  /\ \A l \in Level : r[l] \subseteq Names(c)
  /\ CountsOf(c, r)
  /\ d = {} => \A l \in Level : Nearest(n, l, b[l], r[l])

StateInv == \A n \in Node : NodeOK(n, border[n], inRange[n], conn[n], deleted[n])

\* The parts of the invariant that the lemmas above ask for.
LEMMA StateIs ==
  ASSUME TypeOK, StateInv
  PROVE  RangesInv /\ ConnInv /\ CountsRanges
<1>1. ASSUME NEW n \in Node
      PROVE  /\ \A l \in Level : Fits(n, l, border[n][l], inRange[n][l])
             /\ OneEntry(conn[n]) /\ n \notin Names(conn[n])
             /\ deleted[n] \intersect Names(conn[n]) = {}
             /\ \A l \in Level : inRange[n][l] \subseteq Names(conn[n])
             /\ CountsOf(conn[n], inRange[n])
  BY DEF StateInv, NodeOK
<1>2. RangesInv /\ ConnInv
  BY <1>1 DEF RangesInv, ConnInv
<1>3. CountsRanges
  BY <1>1 DEF CountsRanges, CountsOf, Holding
<1> QED
  BY <1>2, <1>3

\* A step that changes what one node keeps.
KeptByOthers(n) ==
  \A m \in Node \ {n} : /\ border'[m] = border[m] /\ inRange'[m] = inRange[m]
                        /\ conn'[m] = conn[m] /\ deleted'[m] = deleted[m]
                        /\ draining'[m] = draining[m]

\* A step that changes what one node keeps, and leaves that in order.
LEMMA StateStep ==
  ASSUME StateInv, NEW n \in Node, KeptByOthers(n), bits' = bits,
         NodeOK(n, border'[n], inRange'[n], conn'[n], deleted'[n])
  PROVE  StateInv'
<1> SUFFICES ASSUME NEW m \in Node
             PROVE  NodeOK(m, border[m], inRange[m], conn[m], deleted[m])'
  BY DEF StateInv
<1> DEFINE B == border'[m]
           R == inRange'[m]
           C == conn'[m]
           D == deleted'[m]
<1>1. NodeOK(m, B, R, C, D)
  <2>1. CASE m = n
    BY <2>1
  <2>2. CASE m # n
    <3>1. B = border[m] /\ R = inRange[m] /\ C = conn[m] /\ D = deleted[m]
      BY <2>2 DEF KeptByOthers
    <3> HIDE DEF B, R, C, D
    <3> QED
      BY <2>2, <3>1 DEF StateInv
  <2> QED
    BY <2>1, <2>2
<1>2. bits' = bits
  OBVIOUS
<1> QED
  BY <1>1, <1>2 DEF NodeOK, Fits, Nearest, SamePrefix, CountsOf, Holding, OneEntry

\* A step that changes nothing that a node keeps.
LEMMA StateSame ==
  ASSUME TypeOK, StateInv, UNCHANGED <<bits, border, inRange, conn, deleted>>
  PROVE  StateInv'
BY DEF StateInv, NodeOK, Fits, Nearest, SamePrefix, CountsOf, Holding, OneEntry

\* A node that takes a reference to another stays in order.
LEMMA UpdateOK ==
  ASSUME TypeOK, StateInv, NEW n \in Node, NEW x \in Node, x # n, x \notin deleted[n]
  PROVE  /\ NodeOK(n, NewBorders(n, x), NewRanges(n, x), Kept(n, x), deleted[n])
         /\ NewBorders(n, x) \in [Level -> Borders]
         /\ NewRanges(n, x) \in [Level -> SUBSET Node]
<1> USE StateIs
<1> DEFINE b == NewBorders(n, x)
           r == NewRanges(n, x)
           c == Kept(n, x)
<1>1. /\ OneEntry(c) /\ CountsOf(c, r)
      /\ Names(c) \subseteq Names(conn[n]) \union {x}
      /\ \A l \in Level : r[l] \subseteq Names(c)
  BY KeptIs
<1>2. ASSUME NEW l \in Level
      PROVE  /\ b[l] \in Borders /\ r[l] \subseteq Node
             /\ Fits(n, l, b[l], r[l])
             /\ Nearest(n, l, border[n][l], inRange[n][l]) => Nearest(n, l, b[l], r[l])
  <2> DEFINE u == updateRange(n, x, l)
  <2>1. b[l] = u.border /\ r[l] = u.inRange
    BY DEF NewBorders, NewRanges, RangesAfter
  <2>2. /\ bits \in [Node -> [Level -> {0, 1}]]
        /\ border[n][l] \in Borders /\ inRange[n][l] \subseteq Node
        /\ Fits(n, l, border[n][l], inRange[n][l])
    BY DEF TypeOK, StateInv, NodeOK
  <2>3. u = updateRange(n, x, l)
    OBVIOUS
  <2> HIDE DEF u
  <2>4. /\ u.border \in Borders /\ AllReported(n, x, l, u)
        /\ Fits(n, l, u.border, u.inRange)
        /\ Nearest(n, l, border[n][l], inRange[n][l]) => Nearest(n, l, u.border, u.inRange)
    BY <2>2, <2>3, UpdatedRange
  <2> HIDE DEF b, r
  <2> QED
    BY <2>1, <2>4 DEF AllReported
<1>3. n \notin Names(conn[n]) /\ deleted[n] \intersect Names(conn[n]) = {}
  BY DEF StateInv, NodeOK
<1>4. deleted[n] = {} => \A l \in Level : Nearest(n, l, border[n][l], inRange[n][l])
  BY DEF StateInv, NodeOK
<1>5. b \in [Level -> Borders]
  BY <1>2 DEF NewBorders
<1>6. r \in [Level -> SUBSET Node]
  BY <1>2 DEF NewRanges
<1> HIDE DEF b, r, c
<1>7. NodeOK(n, b, r, c, deleted[n])
  BY <1>1, <1>2, <1>3, <1>4 DEF NodeOK
<1> QED
  BY <1>5, <1>6, <1>7 DEF b, r, c

\* What removeNodeFromRanges leaves of the borders and the ranges of n.
BordersLeft(n, x) ==
  [l \in Level |-> [i \in 0..3 |->
     LET b == border[n][l][i]
     IN IF b # None /\ b # x /\ bits[b] # bits[x] THEN b ELSE None]]
RangesLeft(n, x) == [l \in Level |-> inRange[n][l] \ {x}]

\* A node that removes another stays in order.
LEMMA LeaveOK ==
  ASSUME TypeOK, StateInv, NEW n \in Node, NEW x \in Node
  PROVE  /\ NodeOK(n, BordersLeft(n, x), RangesLeft(n, x), Without(n, x),
                   deleted[n] \union {x})
         /\ BordersLeft(n, x) \in [Level -> Borders]
         /\ RangesLeft(n, x) \in [Level -> SUBSET Node]
<1> DEFINE b == BordersLeft(n, x)
           r == RangesLeft(n, x)
           c == Without(n, x)
           d == deleted[n] \union {x}
<1>1. /\ \A l \in Level : Fits(n, l, border[n][l], inRange[n][l])
      /\ OneEntry(conn[n]) /\ n \notin Names(conn[n]) /\ deleted[n] \intersect Names(conn[n]) = {}
      /\ \A l \in Level : inRange[n][l] \subseteq Names(conn[n])
      /\ CountsOf(conn[n], inRange[n])
  BY DEF StateInv, NodeOK
<1>2. /\ OneEntry(c) /\ Names(c) = Names(conn[n]) \ {x}
      /\ HasOnly(c, conn[n], DOMAIN conn[n])
  BY <1>1, WithoutIs
<1>3. \A l \in Level : r[l] = inRange[n][l] \ {x}
  BY DEF RangesLeft
<1>4. \A l \in Level : border[n][l] \in Borders /\ inRange[n][l] \subseteq Node
  BY DEF TypeOK
<1>5. ASSUME NEW l \in Level
      PROVE  /\ b[l] \in Borders
             /\ \A i \in 0..3 : \/ b[l][i] = None
                                \/ b[l][i] = border[n][l][i] /\ b[l][i] # x
  BY <1>4 DEF BordersLeft, Borders
<1>6. b \in [Level -> Borders]
  BY <1>5 DEF BordersLeft
<1>7. r \in [Level -> SUBSET Node]
  BY <1>4 DEF RangesLeft
<1> HIDE DEF b, r, c, d
<1>8. ASSUME NEW l \in Level PROVE Fits(n, l, b[l], r[l])
  <2> DEFINE B == border[n][l]
             C == b[l]
  <2>1. /\ n \notin inRange[n][l]
        /\ \A i \in {0, 2} : B[i] # None => B[i] \in inRange[n][l] /\ B[i] < n
        /\ \A i \in {1, 3} : B[i] # None => B[i] \in inRange[n][l] /\ n < B[i]
    BY <1>1 DEF Fits
  <2>2. \A y \in inRange[n][l] : /\ SamePrefix(n, y, l)
                                 /\ y >= Floor(B[0]) \/ y >= Floor(B[2])
                                 /\ y <= Ceiling(B[1]) \/ y <= Ceiling(B[3])
    BY <1>1 DEF Fits
  <2>3. \A i \in 0..3 : C[i] = None \/ (C[i] = B[i] /\ C[i] # x)
    BY <1>5
  <2>4. \A y \in inRange[n][l] : y \in Nat /\ None <= y /\ y <= Infinity
    <3>1. \A y \in Node : y \in Nat /\ None < y /\ y < Infinity
      BY Numbers
    <3>2. \A y \in Node : y \in Nat /\ None <= y /\ y <= Infinity
      BY <3>1, Numbers
    <3> QED
      BY <1>4, <3>2
  <2> HIDE DEF B, C
  <2>5. \A i \in 0..3 : \A y \in inRange[n][l] :
          /\ y >= Floor(B[i]) => y >= Floor(C[i])
          /\ y <= Ceiling(B[i]) => y <= Ceiling(C[i])
    BY <2>3, <2>4, Numbers DEF Floor, Ceiling
  <2>6. \A y \in inRange[n][l] : /\ SamePrefix(n, y, l)
                                 /\ y >= Floor(C[0]) \/ y >= Floor(C[2])
                                 /\ y <= Ceiling(C[1]) \/ y <= Ceiling(C[3])
    BY <2>2, <2>5
  <2>7. /\ \A i \in {0, 2} : C[i] # None => C[i] \in r[l] /\ C[i] < n
        /\ \A i \in {1, 3} : C[i] # None => C[i] \in r[l] /\ n < C[i]
    BY <1>3, <2>1, <2>3
  <2>8. Fits(n, l, C, r[l])
    BY <1>3, <2>1, <2>6, <2>7 DEF Fits
  <2> QED
    BY <2>8 DEF C
<1>9. CountsOf(c, r)
  <2> SUFFICES ASSUME NEW k \in DOMAIN c
               PROVE  c[k].count = Cardinality(Holding(r, c[k].node))
    BY DEF CountsOf
  <2>1. PICK i \in DOMAIN conn[n] : c[k] = conn[n][i]
    BY <1>2 DEF HasOnly
  <2>2. c[k].node # x
    BY <1>2 DEF Names
  <2>3. Holding(r, c[k].node) = Holding(inRange[n], c[k].node)
    BY <1>3, <2>2 DEF Holding
  <2> QED
    BY <1>1, <2>1, <2>3 DEF CountsOf
<1>10. /\ d = deleted[n] \union {x} /\ d # {}
       /\ n \notin Names(c) /\ d \intersect Names(c) = {}
       /\ \A l \in Level : r[l] \subseteq Names(c)
  BY <1>1, <1>2, <1>3 DEF d
<1>11. NodeOK(n, b, r, c, d)
  BY <1>2, <1>8, <1>9, <1>10 DEF NodeOK
<1> QED
  BY <1>6, <1>7, <1>11 DEF b, r, c, d

\* A node that sorts what is connected stays in order.
LEMMA SortOK ==
  ASSUME TypeOK, StateInv, NEW n \in Node, NEW x \in Node
  PROVE  NodeOK(n, border[n], inRange[n], SortConnected(n, x), deleted[n])
<1> DEFINE c == SortConnected(n, x)
<1>1. NodeOK(n, border[n], inRange[n], conn[n], deleted[n])
  BY DEF StateInv
<1>2. OneEntry(conn[n])
  BY <1>1 DEF NodeOK
<1>3. /\ OneEntry(c) /\ Names(c) = Names(conn[n])
      /\ HasOnly(c, conn[n], DOMAIN conn[n])
  BY <1>2, SortConnectedIs
<1> HIDE DEF c
<1>4. CountsOf(c, inRange[n])
  BY <1>1, <1>3 DEF NodeOK, CountsOf, HasOnly
<1>5. NodeOK(n, border[n], inRange[n], c, deleted[n])
  BY <1>1, <1>3, <1>4 DEF NodeOK
<1> QED
  BY <1>5 DEF c

\* What is under way: no node is sent a reference to itself.
InboxOK(n, s) == s \in Seq(Message) /\ Ref(n) \notin Range(s)
OutboxOK(q) == q \in Seq(Letter) /\ \A o \in Range(q) : o.msg # Ref(o.to)
NetInv == \A n \in Node : InboxOK(n, inbox[n]) /\ OutboxOK(outbox[n])

\* Before a node is told to leave, what is known and under way is references
\* to nodes that main has created.
Calm == main.stage \in {"create", "stable"}
RefsTo(S) == {Ref(x) : x \in S}
LettersIn(S) == {To(y, Ref(x)) : y \in S, x \in S}
CalmInv ==
  Calm => \A n \in Node : /\ ~draining[n] /\ deleted[n] = {}
                          /\ Names(conn[n]) \subseteq Created
                          /\ Range(inbox[n]) \subseteq RefsTo(Created)
                          /\ Range(outbox[n]) \subseteq LettersIn(Created)

\* What a step preserves whatever the graph of references is.
BaseInv == TypeOK /\ StateInv /\ NetInv /\ CalmInv
IInv == BaseInv /\ Linked

\* What has the types of TypeOK after a step that leaves bits, order and main alone.
StepTypes ==
  /\ border' \in [Node -> [Level -> Borders]] /\ inRange' \in [Node -> [Level -> SUBSET Node]]
  /\ conn' \in [Node -> Seq(Entry)] /\ deleted' \in [Node -> SUBSET Node]
  /\ changed' \in [Node -> BOOLEAN] /\ draining' \in [Node -> BOOLEAN]
  /\ inbox' \in [Node -> Seq(Message)] /\ outbox' \in [Node -> Seq(Letter)]
  /\ ticks' \in Nat

\* A step of node n that adds to or takes from the inbox of k.
LEMMA NodeStep ==
  ASSUME BaseInv, NEW n \in Node, NEW k \in Node, UNCHANGED <<bits, order, main>>,
         StepTypes, KeptByOthers(n),
         \A m \in Node \ {n} : outbox'[m] = outbox[m],
         \A m \in Node \ {k} : inbox'[m] = inbox[m],
         NodeOK(n, border'[n], inRange'[n], conn'[n], deleted'[n]),
         InboxOK(k, inbox'[k]), OutboxOK(outbox'[n]),
         Calm => /\ ~draining'[n] /\ deleted'[n] = {} /\ Names(conn'[n]) \subseteq Created
                 /\ Range(inbox'[k]) \subseteq RefsTo(Created)
                 /\ Range(outbox'[n]) \subseteq LettersIn(Created)
  PROVE  BaseInv'
<1>1. TypeOK /\ StateInv /\ NetInv /\ CalmInv
  BY DEF BaseInv
<1>2. StateInv'
  BY <1>1, StateStep
<1>4. NetInv'
  <2> SUFFICES ASSUME NEW m \in Node PROVE InboxOK(m, inbox'[m]) /\ OutboxOK(outbox'[m])
    BY DEF NetInv, InboxOK, OutboxOK
  <2>1. InboxOK(m, inbox[m]) /\ OutboxOK(outbox[m])
    BY <1>1 DEF NetInv
  <2> QED
    BY <2>1
<1>5. Created' = Created /\ Calm' = Calm
  BY DEF Created, Calm
<1>6. CalmInv'
  <2> SUFFICES ASSUME Calm', NEW m \in Node
               PROVE  /\ ~draining'[m] /\ deleted'[m] = {}
                      /\ Names(conn'[m]) \subseteq Created'
                      /\ Range(inbox'[m]) \subseteq RefsTo(Created')
                      /\ Range(outbox'[m]) \subseteq LettersIn(Created')
    BY DEF CalmInv, Names, Range, RefsTo, LettersIn, To, Ref
  <2>1. /\ ~draining[m] /\ deleted[m] = {}
        /\ Names(conn[m]) \subseteq Created
        /\ Range(inbox[m]) \subseteq RefsTo(Created)
        /\ Range(outbox[m]) \subseteq LettersIn(Created)
    BY <1>1, <1>5 DEF CalmInv
  <2> QED
    BY <1>5, <2>1 DEF KeptByOthers
<1>7. TypeOK'
  BY <1>1 DEF TypeOK, StepTypes
<1> QED
  BY <1>2, <1>4, <1>6, <1>7 DEF BaseInv

-----------------------------------------------------------------------------
(* Messages *)

\* What a sequence over T contains.
LEMMA RangeHas ==
  ASSUME NEW T, NEW s \in Seq(T)
  PROVE  /\ Range(s) \subseteq T /\ s \in Seq(Range(s))
         /\ \A e : Contains(s, e) <=> e \in Range(s)
<1>1. DOMAIN s = 1..Len(s) /\ Len(s) \in Nat /\ s \in [1..Len(s) -> T]
  BY LenProperties
<1>2. Range(s) \subseteq T
  BY <1>1 DEF Range
<1>3. s \in [1..Len(s) -> Range(s)]
  BY <1>1 DEF Range
<1>4. s \in Seq(Range(s))
  BY <1>1, <1>3, SeqDef
<1>5. ASSUME NEW e PROVE Contains(s, e) <=> e \in Range(s)
  BY <1>1 DEF Contains, Range
<1> QED
  BY <1>2, <1>4, <1>5

\* What the head and the tail of a sequence contain.
LEMMA TailHas ==
  ASSUME NEW T, NEW s \in Seq(T), s # <<>>
  PROVE  /\ Head(s) \in T /\ Tail(s) \in Seq(T) /\ Head(s) \in Range(s)
         /\ Range(s) = Range(Tail(s)) \union {Head(s)}
<1>1. /\ Len(s) \in Nat /\ Len(s) >= 1 /\ Len(Tail(s)) = Len(s) - 1 /\ Head(s) = s[1]
      /\ \A i \in 1..Len(Tail(s)) : Tail(s)[i] = s[i + 1]
      /\ Head(s) \in T /\ Tail(s) \in Seq(T)
  BY HeadTailProperties, LenProperties, EmptySeq
<1>2. DOMAIN s = 1..Len(s) /\ DOMAIN Tail(s) = 1..Len(Tail(s))
  BY <1>1, LenProperties
<1>3. \A i \in DOMAIN Tail(s) : i + 1 \in DOMAIN s /\ Tail(s)[i] = s[i + 1]
  BY <1>1, <1>2
<1>4. \A i \in DOMAIN s : i = 1 \/ (i - 1 \in DOMAIN Tail(s) /\ Tail(s)[i - 1] = s[i])
  <2> SUFFICES ASSUME NEW i \in DOMAIN s, i # 1
               PROVE  i - 1 \in DOMAIN Tail(s) /\ Tail(s)[i - 1] = s[i]
    OBVIOUS
  <2>1. i - 1 \in 1..Len(Tail(s)) /\ (i - 1) + 1 = i
    BY <1>1, <1>2
  <2>2. Tail(s)[i - 1] = s[(i - 1) + 1]
    BY <1>1, <2>1
  <2> QED
    BY <1>2, <2>1, <2>2
<1>5. 1 \in DOMAIN s
  BY <1>1, <1>2
<1>6. Head(s) \in Range(s) /\ Range(Tail(s)) \subseteq Range(s)
  BY <1>1, <1>3, <1>5 DEF Range
<1>7. Range(s) \subseteq Range(Tail(s)) \union {Head(s)}
  <2> SUFFICES ASSUME NEW i \in DOMAIN s PROVE s[i] \in Range(Tail(s)) \union {Head(s)}
    BY DEF Range
  <2>1. CASE i = 1
    BY <1>1, <2>1
  <2>2. CASE i # 1
    <3>1. i - 1 \in DOMAIN Tail(s) /\ Tail(s)[i - 1] = s[i]
      BY <1>4, <2>2
    <3> QED
      BY <3>1 DEF Range
  <2> QED
    BY <2>1, <2>2
<1> QED
  BY <1>1, <1>6, <1>7

\* What a sequence contains when an element is appended.
LEMMA AppendHas ==
  ASSUME NEW T, NEW s \in Seq(T), NEW e \in T
  PROVE  Append(s, e) \in Seq(T) /\ Range(Append(s, e)) = Range(s) \union {e}
<1>1. /\ Append(s, e) \in Seq(T) /\ Len(Append(s, e)) = Len(s) + 1
      /\ Append(s, e)[Len(s) + 1] = e
      /\ \A i \in 1..Len(s) : Append(s, e)[i] = s[i]
  BY AppendProperties
<1>2. DOMAIN s = 1..Len(s) /\ Len(s) \in Nat /\ DOMAIN Append(s, e) = 1..Len(s) + 1
  BY <1>1, LenProperties
<1> DEFINE a == Append(s, e)
           k == Len(s) + 1
<1>3. /\ a[k] = e /\ k \in DOMAIN a
      /\ \A i \in DOMAIN a : i = k \/ i \in DOMAIN s
      /\ \A i \in DOMAIN s : i \in DOMAIN a /\ a[i] = s[i]
  BY <1>1, <1>2
<1> HIDE DEF a, k
<1>4. Range(a) = Range(s) \union {e}
  BY <1>3 DEF Range
<1> QED
  BY <1>1, <1>4 DEF a

\* What a sequence over T contains is in T.
LEMMA RangeIn ==
  ASSUME NEW T, NEW s \in Seq(T)
  PROVE  Range(s) \subseteq T
BY RangeHas

\* The kind of a message tells what it carries.
LEMMA KindsAre ==
  ASSUME NEW m \in Message
  PROVE  /\ m.kind = "quit" => m = Quit
         /\ m.kind \in {"leave", "searchBits", "searchID", "ref"} => m.node \in Node
         /\ m.kind = "ref" => m = Ref(m.node)
         /\ m.kind \in {"quit", "leave", "searchBits", "searchID", "ref"}
         /\ m \in RefsTo(Node) <=> m.kind = "ref"
BY DEF Message, Ref, Leave, Search, Quit, RefsTo

\* No message but a reference is under way before a node is told to leave.
LEMMA CalmHead ==
  ASSUME BaseInv, NEW n \in Node, inbox[n] # <<>>
  PROVE  /\ Head(inbox[n]) \in Message /\ Head(inbox[n]) # Ref(n)
         /\ InboxOK(n, Tail(inbox[n]))
         /\ Calm => /\ Head(inbox[n]).kind = "ref" /\ Head(inbox[n]).node \in Created
                    /\ Range(Tail(inbox[n])) \subseteq RefsTo(Created)
<1> DEFINE s == inbox[n]
<1>1. s \in Seq(Message) /\ Ref(n) \notin Range(s)
  BY DEF BaseInv, NetInv, InboxOK
<1>2. Calm => Range(s) \subseteq RefsTo(Created)
  BY DEF BaseInv, CalmInv
<1> HIDE DEF s
<1>3. /\ Head(s) \in Message /\ Tail(s) \in Seq(Message) /\ Head(s) \in Range(s)
      /\ Range(s) = Range(Tail(s)) \union {Head(s)}
  BY <1>1, TailHas DEF s
<1>4. Head(s) # Ref(n) /\ InboxOK(n, Tail(s))
  BY <1>1, <1>3 DEF InboxOK
<1>5. ASSUME Calm PROVE Head(s).kind = "ref" /\ Head(s).node \in Created
  <2>1. PICK x \in Created : Head(s) = Ref(x)
    BY <1>2, <1>3, <1>5 DEF RefsTo
  <2> QED
    BY <2>1 DEF Ref
<1> QED
  BY <1>2, <1>3, <1>4, <1>5 DEF s

-----------------------------------------------------------------------------
(* The steps of a node *)

\* Letters that may be sent whatever is going on are no references.
LEMMA OtherLetters ==
  ASSUME NEW q \in Seq(Letter), \A o \in Range(q) : o.msg.kind # "ref"
  PROVE  OutboxOK(q)
BY DEF OutboxOK, Ref

\* An empty outbox has no letter.
LEMMA EmptyOutbox ==
  /\ OutboxOK(<<>>) /\ \A S : Range(<<>>) \subseteq S
  /\ \A s : s \in Seq(Letter) /\ s = <<>> => Range(s) = {}
BY DEF OutboxOK, Range

\* What n has of its own.
LEMMA NodeIs ==
  ASSUME BaseInv, NEW n \in Node
  PROVE  /\ NodeOK(n, border[n], inRange[n], conn[n], deleted[n])
         /\ InboxOK(n, inbox[n]) /\ OutboxOK(outbox[n])
         /\ Calm => /\ ~draining[n] /\ deleted[n] = {} /\ Names(conn[n]) \subseteq Created
                    /\ Range(inbox[n]) \subseteq RefsTo(Created)
                    /\ Range(outbox[n]) \subseteq LettersIn(Created)
BY DEF BaseInv, StateInv, NetInv, CalmInv

\* A node that is told to leave.
LEMMA QuitStep ==
  ASSUME BaseInv, NEW n \in Node, Receive(n), Head(inbox[n]).kind = "quit"
  PROVE  BaseInv' /\ ~Calm
<1> DEFINE m == Head(inbox[n])
           q == [i \in DOMAIN conn[n] |-> To(conn[n][i].node, Leave(n))]
<1>1. /\ inbox[n] # <<>> /\ inbox' = [inbox EXCEPT ![n] = Tail(@)]
      /\ UNCHANGED <<bits, order, ticks, main>> /\ Handle(n, m)
  BY DEF Receive
<1>2. /\ outbox' = [outbox EXCEPT ![n] = q] /\ draining' = [draining EXCEPT ![n] = TRUE]
      /\ UNCHANGED state
  BY <1>1 DEF Handle, Send
<1>3. ~Calm
  BY <1>1, CalmHead
<1>4. OutboxOK(q)
  <2>1. /\ DOMAIN conn[n] = 1..Len(conn[n]) /\ Len(conn[n]) \in Nat
        /\ \A i \in DOMAIN conn[n] : conn[n][i].node \in Node
    BY ConnType DEF BaseInv
  <2>2. \A i \in DOMAIN conn[n] : /\ To(conn[n][i].node, Leave(n)) \in Letter
                                  /\ To(conn[n][i].node, Leave(n)).msg.kind # "ref"
    <3>1. \A y \in Node : To(y, Leave(n)) \in Letter /\ To(y, Leave(n)).msg.kind # "ref"
      BY LettersAre DEF To, Leave
    <3> QED
      BY <2>1, <3>1
  <2>3. q \in [1..Len(conn[n]) -> Letter]
    BY <2>1, <2>2
  <2>4. q \in Seq(Letter)
    BY <2>1, <2>3, SeqDef
  <2>5. \A o \in Range(q) : o.msg.kind # "ref"
    BY <2>2 DEF Range
  <2> HIDE DEF q
  <2> QED
    BY <2>4, <2>5, OtherLetters
<1> HIDE DEF q
<1>5. InboxOK(n, Tail(inbox[n]))
  BY <1>1, CalmHead
<1>6. StepTypes /\ KeptByOthers(n)
  BY <1>1, <1>2, <1>4, <1>5 DEF StepTypes, KeptByOthers, state, BaseInv, TypeOK, InboxOK, OutboxOK
<1>7. /\ \A k \in Node \ {n} : outbox'[k] = outbox[k] /\ inbox'[k] = inbox[k]
      /\ outbox'[n] = q /\ inbox'[n] = Tail(inbox[n])
  BY <1>1, <1>2 DEF BaseInv, TypeOK
<1>8. NodeOK(n, border'[n], inRange'[n], conn'[n], deleted'[n])
  BY <1>2, NodeIs DEF state
<1>9. BaseInv'
  BY <1>1, <1>3, <1>4, <1>5, <1>6, <1>7, <1>8, NodeStep
<1> QED
  BY <1>3, <1>9

\* A node that is told that another has left.
LEMMA LeaveStep ==
  ASSUME BaseInv, NEW n \in Node, Receive(n), Head(inbox[n]).kind = "leave"
  PROVE  BaseInv' /\ ~Calm
<1> DEFINE x == Head(inbox[n]).node
<1>1. /\ inbox[n] # <<>> /\ inbox' = [inbox EXCEPT ![n] = Tail(@)] /\ outbox[n] = <<>>
      /\ UNCHANGED <<bits, order, ticks, main>> /\ Handle(n, Head(inbox[n]))
  BY DEF Receive
<1>2. removeNodeFromRanges(n, x)
  BY <1>1 DEF Handle
<1>3. ~Calm /\ InboxOK(n, Tail(inbox[n])) /\ Head(inbox[n]) \in Message
  BY <1>1, CalmHead
<1>4. x \in Node
  BY <1>3, KindsAre
<1> HIDE DEF x
<1>5. /\ border' = [border EXCEPT ![n] = BordersLeft(n, x)]
      /\ inRange' = [inRange EXCEPT ![n] = RangesLeft(n, x)]
      /\ conn' = [conn EXCEPT ![n] = Without(n, x)]
      /\ deleted' = [deleted EXCEPT ![n] = deleted[n] \union {x}]
      /\ UNCHANGED <<changed, draining, outbox>>
  BY <1>2 DEF removeNodeFromRanges, BordersLeft, RangesLeft, Without
<1>6. TypeOK /\ StateInv /\ OneEntry(conn[n])
  BY NodeIs DEF BaseInv, NodeOK
<1>7. /\ NodeOK(n, BordersLeft(n, x), RangesLeft(n, x), Without(n, x), deleted[n] \union {x})
      /\ BordersLeft(n, x) \in [Level -> Borders]
      /\ RangesLeft(n, x) \in [Level -> SUBSET Node]
      /\ Without(n, x) \in Seq(Entry)
  BY <1>4, <1>6, LeaveOK, WithoutIs
<1>8. StepTypes /\ KeptByOthers(n)
  BY <1>1, <1>3, <1>4, <1>5, <1>6, <1>7 DEF StepTypes, KeptByOthers, TypeOK, InboxOK
<1>9. /\ \A k \in Node \ {n} : outbox'[k] = outbox[k] /\ inbox'[k] = inbox[k]
      /\ outbox'[n] = outbox[n] /\ inbox'[n] = Tail(inbox[n])
  BY <1>1, <1>5, <1>6 DEF TypeOK
<1>10. NodeOK(n, border'[n], inRange'[n], conn'[n], deleted'[n])
  BY <1>5, <1>6, <1>7 DEF TypeOK
<1>11. OutboxOK(outbox[n])
  BY NodeIs
<1>12. BaseInv'
  BY <1>1, <1>3, <1>8, <1>9, <1>10, <1>11, NodeStep
<1> QED
  BY <1>3, <1>12

\* A node that forwards a search.
LEMMA SearchStep ==
  ASSUME BaseInv, NEW n \in Node, Receive(n), Head(inbox[n]).kind \in {"searchBits", "searchID"}
  PROVE  BaseInv' /\ ~Calm
<1> DEFINE x == Head(inbox[n]).node
           q == IF Head(inbox[n]).kind = "searchBits" THEN searchOnNodeBitstring(n, x)
                ELSE searchOnNodeID(n, x)
           c == SortConnected(n, x)
<1>1. /\ inbox[n] # <<>> /\ inbox' = [inbox EXCEPT ![n] = Tail(@)]
      /\ UNCHANGED <<bits, order, ticks, main>> /\ Handle(n, Head(inbox[n]))
  BY DEF Receive
<1>2. /\ outbox' = [outbox EXCEPT ![n] = q]
      /\ UNCHANGED <<border, inRange, deleted, changed, draining>>
      /\ conn' = conn \/ conn' = [conn EXCEPT ![n] = c]
  BY <1>1 DEF Handle, Send, state
<1>3. ~Calm /\ InboxOK(n, Tail(inbox[n])) /\ Head(inbox[n]) \in Message
  BY <1>1, CalmHead
<1>4. x \in Node
  BY <1>3, KindsAre
<1>5. TypeOK /\ StateInv /\ OneEntry(conn[n])
  BY NodeIs DEF BaseInv, NodeOK
<1>6. OutboxOK(q)
  <2>1. q \in Seq(Seekers)
    BY <1>4, <1>5, SearchSends
  <2>2. \A o \in Seekers : o \in Letter /\ o.msg.kind # "ref"
    <3>1. ASSUME NEW y \in Node, NEW z \in Node, NEW b \in BOOLEAN
          PROVE  To(y, Search(z, b)) \in Letter /\ To(y, Search(z, b)).msg.kind # "ref"
      <4>1. To(y, Search(z, b)) \in Letter /\ To(y, Search(z, b)).msg = Search(z, b)
        BY LettersAre
      <4>2. Search(z, b).kind # "ref"
        BY DEF Search
      <4> QED
        BY <4>1, <4>2
    <3> QED
      BY <3>1 DEF Seekers
  <2> HIDE DEF q
  <2>3. Range(q) \subseteq Seekers /\ q \in Seq(Range(q))
    BY <2>1, RangeHas
  <2>4. \A o \in Range(q) : o.msg.kind # "ref"
    BY <2>2, <2>3
  <2>5. q \in Seq(Letter)
    <3>1. /\ q \in [1..Len(q) -> Seekers] /\ Len(q) \in Nat
      BY <2>1, LenProperties
    <3>2. q \in [1..Len(q) -> Letter]
      BY <2>2, <3>1
    <3> QED
      BY <3>1, <3>2, SeqDef
  <2> QED
    BY <2>4, <2>5, OtherLetters
<1>7. c \in Seq(Entry) /\ NodeOK(n, border[n], inRange[n], c, deleted[n])
  BY <1>4, <1>5, SortConnectedIs, SortOK
<1>8. NodeOK(n, border[n], inRange[n], conn[n], deleted[n])
  BY NodeIs
<1> HIDE DEF x, q, c
<1>13. /\ \A k \in Node \ {n} : conn'[k] = conn[k]
       /\ conn'[n] \in {conn[n], c} /\ conn' \in [Node -> Seq(Entry)]
  <2>1. conn \in [Node -> Seq(Entry)]
    BY <1>5 DEF TypeOK
  <2>2. CASE conn' = conn
    BY <2>1, <2>2
  <2>3. CASE conn' = [conn EXCEPT ![n] = c]
    BY <1>7, <2>1, <2>3
  <2> QED
    BY <1>2, <2>2, <2>3
<1>9. /\ \A k \in Node \ {n} : outbox'[k] = outbox[k] /\ inbox'[k] = inbox[k] /\ conn'[k] = conn[k]
      /\ outbox'[n] = q /\ inbox'[n] = Tail(inbox[n]) /\ conn'[n] \in {conn[n], c}
      /\ conn' \in [Node -> Seq(Entry)]
  BY <1>1, <1>2, <1>5, <1>13 DEF TypeOK
<1>10. StepTypes /\ KeptByOthers(n)
  BY <1>1, <1>2, <1>3, <1>5, <1>6, <1>9 DEF StepTypes, KeptByOthers, TypeOK, InboxOK, OutboxOK
<1>11. NodeOK(n, border'[n], inRange'[n], conn'[n], deleted'[n])
  BY <1>2, <1>7, <1>8, <1>9
<1>12. BaseInv'
  BY <1>1, <1>3, <1>6, <1>9, <1>10, <1>11, NodeStep
<1> QED
  BY <1>3, <1>12

\* A node that is sent a reference to one that has left.
LEMMA IgnoreStep ==
  ASSUME BaseInv, NEW n \in Node, Receive(n), Head(inbox[n]).kind = "ref",
         Head(inbox[n]).node \in deleted[n]
  PROVE  BaseInv' /\ ~Calm
<1>1. /\ inbox[n] # <<>> /\ inbox' = [inbox EXCEPT ![n] = Tail(@)] /\ outbox[n] = <<>>
      /\ UNCHANGED <<bits, order, ticks, main>> /\ Handle(n, Head(inbox[n]))
  BY DEF Receive
<1>2. UNCHANGED <<border, inRange, conn, deleted, changed, draining, outbox>>
  BY <1>1 DEF Handle, state
<1>3. ~Calm /\ InboxOK(n, Tail(inbox[n]))
  BY <1>1, CalmHead, NodeIs
<1>4. TypeOK
  BY DEF BaseInv
<1>5. StepTypes /\ KeptByOthers(n)
  BY <1>1, <1>2, <1>3, <1>4 DEF StepTypes, KeptByOthers, TypeOK, InboxOK
<1>6. /\ \A k \in Node \ {n} : outbox'[k] = outbox[k] /\ inbox'[k] = inbox[k]
      /\ outbox'[n] = outbox[n] /\ inbox'[n] = Tail(inbox[n])
  BY <1>1, <1>2, <1>4 DEF TypeOK
<1>7. NodeOK(n, border'[n], inRange'[n], conn'[n], deleted'[n]) /\ OutboxOK(outbox[n])
  BY <1>2, NodeIs
<1>8. BaseInv'
  BY <1>1, <1>3, <1>5, <1>6, <1>7, NodeStep
<1> QED
  BY <1>3, <1>8

\* A node that is sent a reference.
LEMMA UpdateStep ==
  ASSUME BaseInv, NEW n \in Node, Receive(n), Head(inbox[n]).kind = "ref",
         Head(inbox[n]).node \notin deleted[n], Calm => n \in Created
  PROVE  /\ BaseInv'
         /\ Head(inbox[n]).node \in Node /\ Head(inbox[n]).node # n
         /\ Head(inbox[n]) = Ref(Head(inbox[n]).node)
         /\ Update(n, Head(inbox[n]).node)
<1> DEFINE x == Head(inbox[n]).node
           q == PassedOn(n, x)
<1>1. /\ inbox[n] # <<>> /\ inbox' = [inbox EXCEPT ![n] = Tail(@)] /\ outbox[n] = <<>>
      /\ UNCHANGED <<bits, order, ticks, main>> /\ Handle(n, Head(inbox[n]))
  BY DEF Receive
<1>2. Update(n, x)
  BY <1>1 DEF Handle
<1>3. /\ InboxOK(n, Tail(inbox[n])) /\ Head(inbox[n]) \in Message /\ Head(inbox[n]) # Ref(n)
      /\ Calm => x \in Created /\ Range(Tail(inbox[n])) \subseteq RefsTo(Created)
  BY <1>1, CalmHead
<1>4. x \in Node /\ Head(inbox[n]) = Ref(x) /\ x # n
  BY <1>3, KindsAre
<1> HIDE DEF x
<1>5. /\ border' = [border EXCEPT ![n] = NewBorders(n, x)]
      /\ inRange' = [inRange EXCEPT ![n] = NewRanges(n, x)]
      /\ conn' = [conn EXCEPT ![n] = Kept(n, x)]
      /\ changed' = [changed EXCEPT ![n] = @ \/ Dropped(n, x) # <<>> \/ x \notin Names(conn[n])]
      /\ outbox' = [outbox EXCEPT ![n] = q]
      /\ UNCHANGED <<deleted, draining>>
  BY <1>2, UpdateIs
<1>6. TypeOK /\ StateInv /\ RangesInv /\ ConnInv /\ CountsRanges
  BY StateIs DEF BaseInv
<1>7. x \notin deleted[n]
  BY DEF x
<1>8. /\ NodeOK(n, NewBorders(n, x), NewRanges(n, x), Kept(n, x), deleted[n])
      /\ NewBorders(n, x) \in [Level -> Borders]
      /\ NewRanges(n, x) \in [Level -> SUBSET Node]
  BY <1>4, <1>6, <1>7, UpdateOK
<1>9. /\ Kept(n, x) \in Seq(Entry)
      /\ Names(Kept(n, x)) \union Names(Dropped(n, x)) = Names(conn[n]) \union {x}
  BY <1>4, <1>6, KeptIs
<1>10. /\ q \in Seq(Letter)
       /\ \A i \in DOMAIN q :
            \E z \in Names(Kept(n, x)) \union {n}, d \in Names(Dropped(n, x)) :
              z # d /\ q[i] = To(z, Ref(d))
  BY <1>4, <1>6, PassedOnIs
<1> HIDE DEF q
<1>11. \A o \in Range(q) : \E z \in Names(Kept(n, x)) \union {n}, d \in Names(Dropped(n, x)) :
         z # d /\ o = To(z, Ref(d))
  BY <1>10 DEF Range
<1>12. OutboxOK(q)
  BY <1>10, <1>11 DEF OutboxOK, To, Ref
<1>13. Calm => /\ Names(Kept(n, x)) \subseteq Created /\ Range(q) \subseteq LettersIn(Created)
               /\ ~draining[n] /\ deleted[n] = {}
  <2> SUFFICES ASSUME Calm
               PROVE  /\ Names(Kept(n, x)) \subseteq Created
                      /\ Range(q) \subseteq LettersIn(Created)
                      /\ ~draining[n] /\ deleted[n] = {}
    OBVIOUS
  <2>1. Names(conn[n]) \subseteq Created /\ ~draining[n] /\ deleted[n] = {}
    BY NodeIs
  <2>2. /\ Names(Kept(n, x)) \subseteq Created /\ Names(Dropped(n, x)) \subseteq Created
        /\ n \in Created
    BY <1>3, <1>9, <2>1 DEF x
  <2>3. Range(q) \subseteq LettersIn(Created)
    BY <1>11, <2>2 DEF LettersIn
  <2> QED
    BY <2>1, <2>2, <2>3
<1>14. changed' \in [Node -> BOOLEAN]
  BY <1>5, <1>6 DEF TypeOK
<1>15. StepTypes /\ KeptByOthers(n)
  BY <1>1, <1>3, <1>5, <1>6, <1>8, <1>9, <1>10, <1>14
     DEF StepTypes, KeptByOthers, TypeOK, InboxOK
<1>16. /\ \A k \in Node \ {n} : outbox'[k] = outbox[k] /\ inbox'[k] = inbox[k]
       /\ outbox'[n] = q /\ inbox'[n] = Tail(inbox[n])
  BY <1>1, <1>5, <1>6 DEF TypeOK
<1>17. /\ NodeOK(n, border'[n], inRange'[n], conn'[n], deleted'[n])
       /\ conn'[n] = Kept(n, x) /\ draining'[n] = draining[n] /\ deleted'[n] = deleted[n]
  BY <1>5, <1>6, <1>8 DEF TypeOK
<1>18. BaseInv'
  BY <1>1, <1>3, <1>12, <1>13, <1>15, <1>16, <1>17, NodeStep
<1> QED
  BY <1>2, <1>4, <1>18 DEF x

\* A leaving node that answers what is left in its inbox.
LEMMA DrainStep ==
  ASSUME BaseInv, NEW n \in Node, Drain(n)
  PROVE  BaseInv' /\ ~Calm
<1>1. /\ draining[n] /\ outbox[n] = <<>>
      /\ UNCHANGED <<bits, order, main>> /\ UNCHANGED <<border, inRange, conn, deleted, changed, ticks>>
  BY DEF Drain, state
<1>2. ~Calm
  BY <1>1, NodeIs
<1>3. TypeOK /\ NodeOK(n, border[n], inRange[n], conn[n], deleted[n])
      /\ InboxOK(n, inbox[n]) /\ OutboxOK(outbox[n])
  BY NodeIs DEF BaseInv
<1>4. CASE inbox[n] = <<>>
  <2>1. draining' = [draining EXCEPT ![n] = FALSE] /\ UNCHANGED <<inbox, outbox>>
    BY <1>4 DEF Drain
  <2>2. StepTypes /\ KeptByOthers(n)
    BY <1>1, <1>3, <2>1 DEF StepTypes, KeptByOthers, TypeOK
  <2> QED
    BY <1>1, <1>2, <1>3, <2>1, <2>2, NodeStep
<1>5. CASE inbox[n] # <<>>
  <2> DEFINE m == Head(inbox[n])
             q == IF m.kind \in {"ref", "leave"} THEN <<To(m.node, Leave(n))>> ELSE <<>>
  <2>1. inbox' = [inbox EXCEPT ![n] = Tail(@)] /\ outbox' = [outbox EXCEPT ![n] = q]
        /\ UNCHANGED draining
    BY <1>5 DEF Drain, Send
  <2>2. m \in Message /\ InboxOK(n, Tail(inbox[n]))
    BY <1>5, CalmHead
  <2>3. OutboxOK(q)
    <3>1. CASE m.kind \in {"ref", "leave"}
      <4> DEFINE o == To(m.node, Leave(n))
      <4>1. m.node \in Node
        BY <2>2, <3>1, KindsAre
      <4>2. o \in Letter /\ o.msg = Leave(n)
        BY <4>1, LettersAre
      <4>3. Leave(n).kind # "ref"
        BY DEF Leave
      <4>4. q = <<o>>
        BY <3>1
      <4> HIDE DEF o, q
      <4>5. q \in Seq(Letter) /\ Range(q) = {o}
        BY <4>2, <4>4 DEF Range
      <4> QED
        BY <4>2, <4>3, <4>5, OtherLetters
    <3>2. CASE m.kind \notin {"ref", "leave"}
      BY <3>2, EmptyOutbox
    <3> QED
      BY <3>1, <3>2
  <2> HIDE DEF q
  <2>4. StepTypes /\ KeptByOthers(n)
    BY <1>1, <1>3, <2>1, <2>2, <2>3 DEF StepTypes, KeptByOthers, TypeOK, InboxOK, OutboxOK
  <2>5. /\ \A k \in Node \ {n} : outbox'[k] = outbox[k] /\ inbox'[k] = inbox[k]
        /\ outbox'[n] = q /\ inbox'[n] = Tail(inbox[n])
    BY <1>3, <2>1 DEF TypeOK
  <2>6. NodeOK(n, border'[n], inRange'[n], conn'[n], deleted'[n])
    BY <1>1, <1>3
  <2> QED
    BY <1>1, <1>2, <2>2, <2>3, <2>4, <2>5, <2>6, NodeStep
<1> QED
  BY <1>2, <1>4, <1>5

\* A node that sends what its handler has made.
LEMMA SendStep ==
  ASSUME BaseInv, NEW n \in Node, sendTo(n)
  PROVE  BaseInv'
<1> DEFINE o == Head(outbox[n])
<1>1. /\ outbox[n] # <<>>
      /\ inbox' = [inbox EXCEPT ![o.to] = Append(@, o.msg)]
      /\ outbox' = [outbox EXCEPT ![n] = Tail(@)]
      /\ UNCHANGED <<bits, order, main>>
      /\ UNCHANGED <<border, inRange, conn, deleted, changed, draining, ticks>>
  BY DEF sendTo, state
<1>2. /\ TypeOK /\ NodeOK(n, border[n], inRange[n], conn[n], deleted[n]) /\ OutboxOK(outbox[n])
      /\ Calm => /\ ~draining[n] /\ deleted[n] = {} /\ Names(conn[n]) \subseteq Created
                 /\ Range(outbox[n]) \subseteq LettersIn(Created)
  BY NodeIs DEF BaseInv
<1>3. /\ o \in Letter /\ Tail(outbox[n]) \in Seq(Letter) /\ o \in Range(outbox[n])
      /\ Range(Tail(outbox[n])) \subseteq Range(outbox[n])
  BY <1>1, <1>2, TailHas DEF OutboxOK
<1> HIDE DEF o
<1>4. o.to \in Node /\ o.msg \in Message /\ o.msg # Ref(o.to) /\ OutboxOK(Tail(outbox[n]))
  BY <1>2, <1>3 DEF Letter, OutboxOK
<1> DEFINE k == o.to
           s == Append(inbox[k], o.msg)
<1>5. InboxOK(k, inbox[k]) /\ (Calm => Range(inbox[k]) \subseteq RefsTo(Created))
  BY <1>4, NodeIs
<1>6. s \in Seq(Message) /\ Range(s) = Range(inbox[k]) \union {o.msg}
  BY <1>4, <1>5, AppendHas DEF InboxOK
<1>7. InboxOK(k, s)
  BY <1>4, <1>5, <1>6 DEF InboxOK
<1>8. Calm => o.msg \in RefsTo(Created)
  BY <1>2, <1>3 DEF LettersIn, RefsTo, To
<1>9. inbox' = [inbox EXCEPT ![k] = s]
  BY <1>1
<1> HIDE DEF k, s
<1>10. k \in Node
  BY <1>4 DEF k
<1>11. StepTypes /\ KeptByOthers(n)
  <2>1. inbox' \in [Node -> Seq(Message)]
    BY <1>2, <1>6, <1>9, <1>10 DEF TypeOK
  <2>2. outbox' \in [Node -> Seq(Letter)]
    BY <1>1, <1>2, <1>3 DEF TypeOK
  <2>3. /\ border' = border /\ inRange' = inRange /\ conn' = conn /\ deleted' = deleted
        /\ changed' = changed /\ draining' = draining /\ ticks' = ticks
    BY <1>1
  <2>4. /\ border \in [Node -> [Level -> Borders]] /\ inRange \in [Node -> [Level -> SUBSET Node]]
        /\ conn \in [Node -> Seq(Entry)] /\ deleted \in [Node -> SUBSET Node]
        /\ changed \in [Node -> BOOLEAN] /\ draining \in [Node -> BOOLEAN] /\ ticks \in Nat
    BY <1>2 DEF TypeOK
  <2>5. StepTypes
    BY <2>1, <2>2, <2>3, <2>4 DEF StepTypes
  <2>6. KeptByOthers(n)
    BY <2>3 DEF KeptByOthers
  <2> QED
    BY <2>5, <2>6
<1>12. /\ \A i \in Node \ {n} : outbox'[i] = outbox[i]
       /\ \A i \in Node \ {k} : inbox'[i] = inbox[i]
       /\ outbox'[n] = Tail(outbox[n]) /\ inbox'[k] = s
  BY <1>1, <1>2, <1>9, <1>10 DEF TypeOK
<1>13. NodeOK(n, border'[n], inRange'[n], conn'[n], deleted'[n])
  BY <1>1, <1>2
<1>14. Calm => /\ ~draining'[n] /\ deleted'[n] = {} /\ Names(conn'[n]) \subseteq Created
               /\ Range(inbox'[k]) \subseteq RefsTo(Created)
               /\ Range(outbox'[n]) \subseteq LettersIn(Created)
  <2> SUFFICES ASSUME Calm
               PROVE  /\ ~draining'[n] /\ deleted'[n] = {} /\ Names(conn'[n]) \subseteq Created
                      /\ Range(inbox'[k]) \subseteq RefsTo(Created)
                      /\ Range(outbox'[n]) \subseteq LettersIn(Created)
    OBVIOUS
  <2>1. Range(s) \subseteq RefsTo(Created)
    BY <1>5, <1>6, <1>8 DEF k
  <2>2. Range(Tail(outbox[n])) \subseteq LettersIn(Created)
    BY <1>2, <1>3
  <2>3. conn'[n] = conn[n] /\ draining'[n] = draining[n] /\ deleted'[n] = deleted[n]
    BY <1>1
  <2> QED
    BY <1>2, <1>12, <2>1, <2>2, <2>3
<1> QED
  BY <1>1, <1>4, <1>7, <1>10, <1>11, <1>12, <1>13, <1>14, NodeStep

\* A node whose ticker fires.
LEMMA TimeoutStep ==
  ASSUME BaseInv, NEW n \in Node, Timeout(n), Calm => n \in Created
  PROVE  BaseInv'
<1> DEFINE q == Flat([i \in 1..Depth |-> linearizeRange(n, i - 1)])
<1>1. /\ ticks' = ticks + 1 /\ changed' = [changed EXCEPT ![n] = FALSE]
      /\ outbox' = [outbox EXCEPT ![n] = q]
      /\ UNCHANGED <<bits, order, main>>
      /\ UNCHANGED <<border, inRange, conn, deleted, draining, inbox>>
  BY DEF Timeout
<1>2. /\ TypeOK /\ NodeOK(n, border[n], inRange[n], conn[n], deleted[n]) /\ InboxOK(n, inbox[n])
      /\ Calm => /\ ~draining[n] /\ deleted[n] = {} /\ Names(conn[n]) \subseteq Created
                 /\ Range(inbox[n]) \subseteq RefsTo(Created)
  BY NodeIs DEF BaseInv
<1>3. q \in Seq(Intro(n))
  BY TimeoutSends, StateIs DEF BaseInv
<1> HIDE DEF q
<1>4. q \in Seq(Letter) /\ Range(q) \subseteq Intro(n)
  <2>1. q \in [1..Len(q) -> Intro(n)] /\ Len(q) \in Nat
    BY <1>3, LenProperties
  <2>2. q \in [1..Len(q) -> Letter]
    BY <2>1 DEF Intro
  <2> QED
    BY <1>3, <2>1, <2>2, SeqDef, RangeIn
<1>5. OutboxOK(q)
  BY <1>4 DEF OutboxOK, Intro, To, Ref
<1>6. Calm => Range(q) \subseteq LettersIn(Created)
  <2> SUFFICES ASSUME Calm, NEW o \in Range(q) PROVE o \in LettersIn(Created)
    OBVIOUS
  <2>1. PICK y \in Names(conn[n]) \union {n}, x \in Names(conn[n]) \union {n} : o = To(y, Ref(x))
    BY <1>4 DEF Intro
  <2>2. y \in Created /\ x \in Created
    BY <1>2
  <2> QED
    BY <2>1, <2>2 DEF LettersIn
<1>7. StepTypes /\ KeptByOthers(n)
  BY <1>1, <1>2, <1>4 DEF StepTypes, KeptByOthers, TypeOK
<1>8. /\ \A k \in Node \ {n} : outbox'[k] = outbox[k] /\ inbox'[k] = inbox[k]
      /\ outbox'[n] = q /\ inbox'[n] = inbox[n]
  BY <1>1, <1>2 DEF TypeOK
<1> QED
  BY <1>1, <1>2, <1>5, <1>6, <1>7, <1>8, NodeStep

-----------------------------------------------------------------------------
(* The steps of main *)

\* A step of main that adds msg to the inbox of k.
LEMMA PutStep ==
  ASSUME BaseInv, NEW k \in Node, NEW msg \in Message, msg # Ref(k),
         UNCHANGED <<bits, order, state, draining, outbox, ticks>>,
         inbox' = [inbox EXCEPT ![k] = Append(@, msg)],
         TypeOK', Created \subseteq Created',
         Calm' => Calm /\ msg \in RefsTo(Created')
  PROVE  BaseInv'
<1>1. TypeOK /\ StateInv /\ NetInv /\ CalmInv
  BY DEF BaseInv
<1>2. StateInv'
  BY <1>1, StateSame DEF state
<1> DEFINE s == Append(inbox[k], msg)
<1>3. s \in Seq(Message) /\ Range(s) = Range(inbox[k]) \union {msg}
  BY <1>1, AppendHas DEF NetInv, InboxOK
<1>4. inbox'[k] = s /\ \A m \in Node \ {k} : inbox'[m] = inbox[m]
  BY <1>1 DEF TypeOK
<1> HIDE DEF s
<1>5. NetInv'
  <2> SUFFICES ASSUME NEW m \in Node PROVE InboxOK(m, inbox'[m]) /\ OutboxOK(outbox[m])
    BY DEF NetInv, InboxOK, OutboxOK
  <2>1. InboxOK(m, inbox[m]) /\ OutboxOK(outbox[m])
    BY <1>1 DEF NetInv
  <2>2. CASE m = k
    BY <1>3, <1>4, <2>1, <2>2 DEF InboxOK
  <2>3. CASE m # k
    BY <1>4, <2>1, <2>3
  <2> QED
    BY <2>2, <2>3
<1>6. CalmInv'
  <2> SUFFICES ASSUME Calm', NEW m \in Node
               PROVE  /\ ~draining[m] /\ deleted[m] = {}
                      /\ Names(conn[m]) \subseteq Created'
                      /\ Range(inbox'[m]) \subseteq RefsTo(Created')
                      /\ Range(outbox[m]) \subseteq LettersIn(Created')
    BY DEF CalmInv, Names, Range, RefsTo, LettersIn, To, Ref, state
  <2>1. /\ ~draining[m] /\ deleted[m] = {}
        /\ Names(conn[m]) \subseteq Created
        /\ Range(inbox[m]) \subseteq RefsTo(Created)
        /\ Range(outbox[m]) \subseteq LettersIn(Created)
    BY <1>1 DEF CalmInv
  <2>2. RefsTo(Created) \subseteq RefsTo(Created') /\ LettersIn(Created) \subseteq LettersIn(Created')
    BY DEF RefsTo, LettersIn
  <2>3. Range(inbox'[m]) \subseteq Range(inbox[m]) \union {msg}
    BY <1>3, <1>4
  <2> QED
    BY <2>1, <2>2, <2>3
<1> QED
  BY <1>2, <1>5, <1>6 DEF BaseInv

\* A step of main that touches no node.
LEMMA MainStep ==
  ASSUME BaseInv, UNCHANGED <<bits, order, state, draining, inbox, outbox, ticks>>,
         TypeOK', Calm' => Calm /\ Created \subseteq Created'
  PROVE  BaseInv'
<1>1. TypeOK /\ StateInv /\ NetInv /\ CalmInv
  BY DEF BaseInv
<1>2. StateInv'
  BY <1>1, StateSame DEF state
<1>3. NetInv'
  BY <1>1 DEF NetInv, InboxOK, OutboxOK
<1>4. CalmInv'
  <2> SUFFICES ASSUME Calm', NEW m \in Node
               PROVE  /\ ~draining[m] /\ deleted[m] = {}
                      /\ Names(conn[m]) \subseteq Created'
                      /\ Range(inbox[m]) \subseteq RefsTo(Created')
                      /\ Range(outbox[m]) \subseteq LettersIn(Created')
    BY DEF CalmInv, Names, Range, RefsTo, LettersIn, To, Ref, state
  <2>1. /\ ~draining[m] /\ deleted[m] = {}
        /\ Names(conn[m]) \subseteq Created
        /\ Range(inbox[m]) \subseteq RefsTo(Created)
        /\ Range(outbox[m]) \subseteq LettersIn(Created)
    BY <1>1 DEF CalmInv
  <2>2. RefsTo(Created) \subseteq RefsTo(Created') /\ LettersIn(Created) \subseteq LettersIn(Created')
    BY DEF RefsTo, LettersIn
  <2> QED
    BY <2>1, <2>2
<1> QED
  BY <1>2, <1>3, <1>4 DEF BaseInv

\* main creates every node.
LEMMA AllCreated ==
  ASSUME TypeOK
  PROVE  {order[i] : i \in 1..N} = Node
<1>1. IsFiniteSet(Node) /\ order \in [Node -> Node] /\ Node = 1..N
  <2>1. N \in Int /\ 1 \in Int
    BY SkipGraphAssumption
  <2>2. IsFiniteSet(1..N)
    BY <2>1, FS_Interval
  <2> QED
    BY <2>2 DEF TypeOK, Node
<1>2. order \in Injection(Node, Node)
  BY <1>1 DEF TypeOK, IsInjective, Injection
<1>3. order \in Surjection(Node, Node)
  BY <1>1, <1>2, FS_Injection
<1> QED
  BY <1>1, <1>3 DEF Surjection

\* main creates no node twice.
LEMMA OrderIs ==
  ASSUME TypeOK
  PROVE  /\ \A i \in Node : order[i] \in Node
         /\ \A i, j \in Node : order[i] = order[j] => i = j
BY DEF TypeOK, IsInjective

\* main makes the next node known to the last, or has created them all.
LEMMA CreateStep ==
  ASSUME BaseInv, CreateNode
  PROVE  BaseInv'
<1>1. TypeOK /\ main.stage = "create" /\ main.i \in Node /\ main \in [stage : {"create", "stable", "leave", "search"}, i : Nat \ {0}]
  BY DEF BaseInv, TypeOK, CreateNode
<1>2. Calm
  BY <1>1 DEF Calm
<1>3. CASE main.i = N
  <2>1. main' = [stage |-> "stable", i |-> 1] /\ UNCHANGED <<bits, order, state, draining, inbox, outbox, ticks>>
    BY <1>3 DEF CreateNode
  <2>2. 1 \in Node /\ N \in Nat
    BY SkipGraphAssumption DEF Node
  <2>3. TypeOK'
    BY <1>1, <2>1, <2>2 DEF TypeOK, state
  <2>4. Created' = Node /\ Created = Node
    BY <1>1, <1>3, <2>1, AllCreated DEF Created
  <2> QED
    BY <1>2, <2>1, <2>3, <2>4, MainStep
<1>4. CASE main.i # N
  <2> DEFINE i == main.i
             k == order[i]
             w == order[i + 1]
  <2>1. /\ main' = [main EXCEPT !.i = i + 1]
        /\ inbox' = [inbox EXCEPT ![k] = Append(@, Ref(w))]
        /\ UNCHANGED <<bits, order, state, draining, outbox, ticks>>
    BY <1>4 DEF CreateNode
  <2>2. i \in Node /\ i + 1 \in Node /\ i \in Nat /\ i + 1 # i /\ i + 1 \in Nat \ {0}
    BY <1>1, <1>4, SkipGraphAssumption DEF Node
  <2>3. k \in Node /\ w \in Node /\ k # w
    BY <1>1, <2>2, OrderIs
  <2>4. main'.stage = "create" /\ main'.i = i + 1
        /\ main' \in [stage : {"create", "stable", "leave", "search"}, i : Nat \ {0}]
    BY <1>1, <2>1, <2>2
  <2>5. Ref(w) \in Message /\ Ref(w) # Ref(k)
    BY <2>3 DEF Message, Ref
  <2> DEFINE s == Append(inbox[k], Ref(w))
  <2>6. s \in Seq(Message)
    BY <1>1, <2>3, <2>5, AppendHas DEF TypeOK
  <2>7. inbox' = [inbox EXCEPT ![k] = s]
    BY <2>1
  <2> HIDE DEF s, k, w, i
  <2>8. inbox' \in [Node -> Seq(Message)]
    BY <1>1, <2>6, <2>7 DEF TypeOK
  <2>9. TypeOK'
    BY <1>1, <2>1, <2>2, <2>4, <2>8 DEF TypeOK, state
  <2>10. Created' = {order[j] : j \in 1..i + 1} /\ Created = {order[j] : j \in 1..i}
    BY <1>1, <2>1, <2>4 DEF Created, i
  <2>11. 1..i \subseteq 1..i + 1 /\ i + 1 \in 1..i + 1
    BY <2>2
  <2>12. Created \subseteq Created' /\ w \in Created'
    BY <2>10, <2>11 DEF w
  <2>13. Ref(w) \in RefsTo(Created')
    BY <2>12 DEF RefsTo
  <2> QED
    BY <1>2, <2>1, <2>3, <2>5, <2>9, <2>12, <2>13, PutStep
<1> QED
  BY <1>3, <1>4

\* main looks at whether a node has changed.
LEMMA CheckStep ==
  ASSUME BaseInv, checkStable
  PROVE  BaseInv'
<1>1. /\ TypeOK /\ main.stage = "stable" /\ main.i \in Node
      /\ main \in [stage : {"create", "stable", "leave", "search"}, i : Nat \ {0}]
      /\ UNCHANGED <<bits, order, state, draining, inbox, outbox, ticks>>
  BY DEF BaseInv, TypeOK, checkStable
<1>2. main' \in [stage : {"stable"}, i : Node] \union {[stage |-> "leave", i |-> 1]}
  <2>1. N \in Nat /\ N > 0
    BY SkipGraphAssumption
  <2>2. 1 \in Node
    BY <2>1 DEF Node
  <2>3. CASE changed[order[main.i]]
    BY <1>1, <2>2, <2>3 DEF checkStable
  <2>4. CASE ~changed[order[main.i]] /\ main.i < N
    <3>1. main' = [main EXCEPT !.i = main.i + 1]
      BY <2>4 DEF checkStable
    <3>2. main.i + 1 \in Node
      BY <1>1, <2>1, <2>4 DEF Node
    <3> QED
      BY <1>1, <3>1, <3>2
  <2>5. CASE ~changed[order[main.i]] /\ ~(main.i < N)
    BY <2>5 DEF checkStable
  <2> QED
    BY <2>3, <2>4, <2>5
<1>3. main' \in [stage : {"create", "stable", "leave", "search"}, i : Nat \ {0}]
      /\ main'.stage # "create" /\ (main'.stage = "stable" => main'.i \in Node)
  BY <1>2, SkipGraphAssumption DEF Node
<1>4. TypeOK'
  BY <1>1, <1>3 DEF TypeOK, state
<1>5. Calm /\ Created = Node /\ Created' = Node
  BY <1>1, <1>3 DEF Calm, Created
<1> QED
  BY <1>1, <1>4, <1>5, MainStep

\* main tells a node to leave.
LEMMA TriggerLeaveStep ==
  ASSUME BaseInv, TriggerLeave
  PROVE  BaseInv'
<1>1. TypeOK /\ main.stage = "leave"
      /\ main \in [stage : {"create", "stable", "leave", "search"}, i : Nat \ {0}]
  BY DEF BaseInv, TypeOK, TriggerLeave
<1>2. CASE main.i <= Len(Leavers)
  <2> DEFINE k == order[Leavers[main.i]]
  <2>1. /\ main' = [main EXCEPT !.i = main.i + 1]
        /\ inbox' = [inbox EXCEPT ![k] = Append(@, Quit)]
        /\ UNCHANGED <<bits, order, state, draining, outbox, ticks>>
    BY <1>2 DEF TriggerLeave, Put
  <2>2. main.i \in 1..Len(Leavers) /\ main.i + 1 \in Nat \ {0}
    BY <1>1, <1>2, SkipGraphAssumption, LenProperties
  <2>3. Leavers[main.i] \in Node
    BY <2>2, SkipGraphAssumption, ElementOfSeq DEF Node
  <2>4. k \in Node
    BY <1>1, <2>3, OrderIs
  <2>5. main' \in [stage : {"create", "stable", "leave", "search"}, i : Nat \ {0}]
        /\ main'.stage = "leave"
    BY <1>1, <2>1, <2>2
  <2>6. Quit \in Message /\ Quit # Ref(k)
    BY DEF Message, Quit, Ref
  <2> DEFINE s == Append(inbox[k], Quit)
  <2>7. s \in Seq(Message)
    BY <1>1, <2>4, <2>6, AppendHas DEF TypeOK
  <2>8. inbox' = [inbox EXCEPT ![k] = s]
    BY <2>1
  <2> HIDE DEF s, k
  <2>9. inbox' \in [Node -> Seq(Message)]
    BY <1>1, <2>7, <2>8 DEF TypeOK
  <2>10. TypeOK'
    BY <1>1, <2>1, <2>5, <2>9 DEF TypeOK, state
  <2>11. ~Calm' /\ Created = Node /\ Created' = Node
    BY <1>1, <2>5 DEF Calm, Created
  <2> QED
    BY <2>1, <2>4, <2>6, <2>10, <2>11, PutStep
<1>3. CASE ~(main.i <= Len(Leavers))
  <2>1. main' = [stage |-> "search", i |-> 1]
        /\ UNCHANGED <<bits, order, state, draining, inbox, outbox, ticks>>
    BY <1>3 DEF TriggerLeave
  <2>2. TypeOK'
    BY <1>1, <2>1 DEF TypeOK, state
  <2>3. ~Calm'
    BY <2>1 DEF Calm
  <2> QED
    BY <2>1, <2>2, <2>3, MainStep
<1> QED
  BY <1>2, <1>3

\* main starts a search.
LEMMA TriggerSearchStep ==
  ASSUME BaseInv, NEW k \in Node, TriggerSearch(k)
  PROVE  BaseInv'
<1>1. TypeOK /\ main.stage = "search"
      /\ main \in [stage : {"create", "stable", "leave", "search"}, i : Nat \ {0}]
  BY DEF BaseInv, TypeOK, TriggerSearch
<1> DEFINE x == order[((main.i - 1) % N) + 1]
           msg == Search(x, main.i <= N)
<1>2. /\ main' = [main EXCEPT !.i = main.i + 1]
      /\ inbox' = [inbox EXCEPT ![k] = Append(@, msg)]
      /\ UNCHANGED <<bits, order, state, draining, outbox, ticks>>
  BY DEF TriggerSearch, Put
<1>3. main.i \in Nat /\ main.i > 0 /\ main.i + 1 \in Nat \ {0} /\ N \in Nat /\ N > 0
  BY <1>1, SkipGraphAssumption
<1>4. ((main.i - 1) % N) + 1 \in Node
  BY <1>3 DEF Node
<1>5. x \in Node
  BY <1>1, <1>4, OrderIs
<1>6. msg \in Message /\ msg # Ref(k)
  <2>1. \A y \in Node, b \in BOOLEAN : Search(y, b) \in Message
    BY DEF Message
  <2>3. \A y \in Node, b \in BOOLEAN : Search(y, b).kind # "ref"
    BY DEF Search
  <2>4. Ref(k).kind = "ref"
    BY DEF Ref
  <2>2. (main.i <= N) \in BOOLEAN
    OBVIOUS
  <2> QED
    BY <1>5, <2>1, <2>2, <2>3, <2>4
<1> DEFINE s == Append(inbox[k], msg)
<1>7. s \in Seq(Message)
  BY <1>1, <1>6, AppendHas DEF TypeOK
<1>8. inbox' = [inbox EXCEPT ![k] = s]
  BY <1>2
<1> HIDE DEF s, msg
<1>9. inbox' \in [Node -> Seq(Message)]
  BY <1>1, <1>7, <1>8 DEF TypeOK
<1>10. main' \in [stage : {"create", "stable", "leave", "search"}, i : Nat \ {0}]
       /\ main'.stage = "search"
  BY <1>1, <1>2, <1>3
<1>11. TypeOK'
  BY <1>1, <1>2, <1>9, <1>10 DEF TypeOK, state
<1>12. ~Calm' /\ Created = Node /\ Created' = Node
  BY <1>1, <1>10 DEF Calm, Created
<1> QED
  BY <1>2, <1>6, <1>11, <1>12, PutStep

\* Nothing happens.
LEMMA StutterStep ==
  ASSUME BaseInv, UNCHANGED vars
  PROVE  BaseInv'
<1>1. TypeOK' /\ Created' = Created /\ Calm' = Calm
  BY DEF BaseInv, TypeOK, vars, Created, Calm
<1>2. UNCHANGED <<bits, order, state, draining, inbox, outbox, ticks>>
  BY DEF vars, state
<1> QED
  BY <1>1, <1>2, MainStep

\* The initial states.
LEMMA InitBase ==
  ASSUME Init
  PROVE  BaseInv
<1>1. bits \in [Node -> [Level -> {0, 1}]] /\ order \in [Node -> Node] /\ IsInjective(order)
  BY SkipGraphAssumption DEF Init, Node, Level
<1>2. 1 \in Node
  BY SkipGraphAssumption DEF Node
<1>3. main \in [stage : {"create", "stable", "leave", "search"}, i : Nat \ {0}] /\ main.i = 1
      /\ main.stage = "create"
  BY DEF Init
<1>4. \A T : [n \in Node |-> <<>>] \in [Node -> Seq(T)]
  BY EmptySeq
<1>5. border \in [Node -> [Level -> Borders]]
  BY DEF Init, Borders
<1>6. TypeOK
  <2>1. conn \in [Node -> Seq(Entry)] /\ inbox \in [Node -> Seq(Message)]
        /\ outbox \in [Node -> Seq(Letter)]
    BY <1>4 DEF Init
  <2>2. /\ inRange \in [Node -> [Level -> SUBSET Node]] /\ deleted \in [Node -> SUBSET Node]
        /\ changed \in [Node -> BOOLEAN] /\ draining \in [Node -> BOOLEAN] /\ ticks \in Nat
    BY DEF Init
  <2> QED
    BY <1>1, <1>2, <1>3, <1>5, <2>1, <2>2 DEF TypeOK
<1>7. ASSUME NEW n \in Node
      PROVE  /\ \A l \in Level, i \in 0..3 : border[n][l][i] = None
             /\ \A l \in Level : inRange[n][l] = {}
             /\ conn[n] = <<>> /\ deleted[n] = {} /\ ~draining[n]
             /\ inbox[n] = <<>> /\ outbox[n] = <<>>
  BY DEF Init
<1>8. \A s : s = <<>> => DOMAIN s = {}
  OBVIOUS
<1>9. StateInv
  <2> SUFFICES ASSUME NEW n \in Node
               PROVE  NodeOK(n, border[n], inRange[n], conn[n], deleted[n])
    BY DEF StateInv
  <2>1. \A l \in Level : Fits(n, l, border[n][l], inRange[n][l])
    BY <1>7 DEF Fits
  <2>2. Names(conn[n]) = {} /\ OneEntry(conn[n]) /\ CountsOf(conn[n], inRange[n])
    BY <1>7, <1>8 DEF Names, OneEntry, CountsOf
  <2>3. \A l \in Level : Nearest(n, l, border[n][l], inRange[n][l])
    BY <1>7 DEF Nearest
  <2> QED
    BY <1>7, <2>1, <2>2, <2>3 DEF NodeOK
<1>10. \A n \in Node : Range(inbox[n]) = {} /\ Range(outbox[n]) = {} /\ Names(conn[n]) = {}
  BY <1>7, <1>8 DEF Range, Names
<1>11. NetInv
  BY <1>6, <1>10 DEF NetInv, InboxOK, OutboxOK, TypeOK
<1>12. CalmInv
  BY <1>7, <1>10 DEF CalmInv
<1> QED
  BY <1>6, <1>9, <1>11, <1>12 DEF BaseInv

-----------------------------------------------------------------------------
(* Who knows whom *)

\* What Knows comes to; and a reference that crosses the cut between S and the rest.
Has(n, m) ==
  \/ m \in Names(conn[n])
  \/ Ref(m) \in Range(inbox[n])
  \/ \E k \in Node : To(n, Ref(m)) \in Range(outbox[k])
Crossing(S) == \E a \in S, b \in Created \ S : Has(a, b) \/ Has(b, a)

\* What main has created are nodes.
LEMMA CreatedIs ==
  ASSUME TypeOK
  PROVE  Created \subseteq Node
<1>1. CASE main.stage = "create"
  <2>1. main.i \in Node /\ N \in Nat
    BY <1>1, SkipGraphAssumption DEF TypeOK
  <2>2. 1..main.i \subseteq Node
    BY <2>1 DEF Node
  <2> QED
    BY <1>1, <2>2, OrderIs DEF Created
<1> QED
  BY <1>1 DEF Created

\* What a node has in its ranges and borders is connected.
LEMMA StoredIs ==
  ASSUME TypeOK, StateInv, NEW n \in Node
  PROVE  Stored(n) = Names(conn[n])
<1>1. \A l \in Level : /\ Fits(n, l, border[n][l], inRange[n][l])
                       /\ inRange[n][l] \subseteq Names(conn[n])
  BY DEF StateInv, NodeOK
<1>2. ASSUME NEW l \in Level, NEW y \in Range(border[n][l]), y # None PROVE y \in Names(conn[n])
  <2>1. border[n][l] \in [0..3 -> Node \union {None}]
    BY DEF TypeOK, Borders
  <2>2. PICK i \in 0..3 : y = border[n][l][i]
    BY <2>1 DEF Range
  <2>3. i \in {0, 2} \/ i \in {1, 3}
    OBVIOUS
  <2>4. y \in inRange[n][l]
    BY <1>1, <1>2, <2>2, <2>3 DEF Fits
  <2> QED
    BY <1>1, <2>4
<1>3. ASSUME NEW y \in Stored(n) PROVE y \in Names(conn[n])
  <2>1. CASE y \in Names(conn[n])
    BY <2>1
  <2>2. CASE \E l \in Level : y \in inRange[n][l]
    BY <1>1, <2>2
  <2>3. CASE y # None /\ \E l \in Level : y \in Range(border[n][l])
    BY <1>2, <2>3
  <2>4. None \notin Node
    BY DEF None, Node
  <2> QED
    BY <2>1, <2>2, <2>3, <2>4 DEF Stored
<1>4. Names(conn[n]) \subseteq Stored(n)
  BY DEF Stored
<1> QED
  BY <1>3, <1>4

\* Whom a node knows is connected or under way to it.
LEMMA KnowsIs ==
  ASSUME TypeOK, StateInv, NEW n \in Node, NEW m, Knows(n, m)
  PROVE  Has(n, m)
<1>1. CASE m \in Stored(n) \union Refs(inbox[n])
  BY <1>1, StoredIs DEF Has, Refs
<1>2. CASE \E k \in Node : Contains(outbox[k], To(n, Ref(m)))
  <2>1. PICK k \in Node : Contains(outbox[k], To(n, Ref(m)))
    BY <1>2
  <2>2. outbox[k] \in Seq(Letter)
    BY DEF TypeOK
  <2>3. To(n, Ref(m)) \in Range(outbox[k])
    BY <2>1, <2>2, RangeHas
  <2> QED
    BY <2>3 DEF Has
<1> QED
  BY <1>1, <1>2 DEF Knows

\* The converse, after a step.
LEMMA KnowsAfter ==
  ASSUME TypeOK', NEW n \in Node, NEW m \in Node, Has(n, m)'
  PROVE  Knows(n, m)'
<1>1. CASE m \in Names(conn'[n])
  BY <1>1 DEF Knows, Stored, Names
<1>2. CASE Ref(m) \in Range(inbox'[n])
  BY <1>2 DEF Knows, Refs, Range, Ref
<1>3. CASE \E k \in Node : To(n, Ref(m)) \in Range(outbox'[k])
  <2>1. PICK k \in Node : To(n, Ref(m)) \in Range(outbox'[k])
    BY <1>3
  <2>2. outbox'[k] \in Seq(Letter)
    BY DEF TypeOK
  <2>3. Contains(outbox'[k], To(n, Ref(m)))
    BY <2>1, <2>2, RangeHas
  <2> QED
    BY <2>3 DEF Knows, To, Ref, Contains
<1> QED
  BY <1>1, <1>2, <1>3 DEF Has, Names, Range, To, Ref

\* Linked, over what Has says.
LEMMA LinkedIs ==
  ASSUME BaseInv, Linked, Calm, NEW S \in SUBSET Created, S # {}, S # Created
  PROVE  Crossing(S)
<1>1. PICK n \in S, m \in Created \ S : Knows(n, m) \/ Knows(m, n)
  BY DEF Linked, Calm
<1>2. TypeOK /\ StateInv /\ n \in Node /\ m \in Node
  BY CreatedIs DEF BaseInv
<1>3. Has(n, m) \/ Has(m, n)
  BY <1>1, <1>2, KnowsIs
<1> QED
  BY <1>3 DEF Crossing

\* Linked after a step, when a reference crosses each cut.
LEMMA LinkedAfter ==
  ASSUME TypeOK', Calm' => Created' \subseteq Node,
         ASSUME Calm', NEW S \in SUBSET Created', S # {}, S # Created'
         PROVE  \E a \in S, b \in Created' \ S : Has(a, b)' \/ Has(b, a)'
  PROVE  Linked'
<1> SUFFICES ASSUME Calm', NEW S \in SUBSET Created', S # {}, S # Created'
             PROVE  \E n \in S, m \in Created' \ S : Knows(n, m)' \/ Knows(m, n)'
  BY DEF Linked, Calm
<1>1. PICK a \in S, b \in Created' \ S : Has(a, b)' \/ Has(b, a)'
  OBVIOUS
<1>2. a \in Node /\ b \in Node
  OBVIOUS
<1>3. Knows(a, b)' \/ Knows(b, a)'
  BY <1>1, <1>2, KnowsAfter
<1> QED
  BY <1>3

\* Whom n knew and knows no more is still on the same side of every cut.
Bridged(n, m) == \A S \in SUBSET Created : (n \in S) # (m \in S) => Crossing(S)

\* A reference that is still there.
LEMMA KnownKept ==
  ASSUME NEW a \in Created', NEW b \in Created', Has(a, b)'
  PROVE  Bridged(a, b)'
<1> SUFFICES ASSUME NEW S \in SUBSET Created', (a \in S) # (b \in S)
             PROVE  Crossing(S)'
  BY DEF Bridged
<1>1. (a \in S /\ b \in Created' \ S) \/ (b \in S /\ a \in Created' \ S)
  OBVIOUS
<1> QED
  BY <1>1 DEF Crossing

\* Of two references that go by a third node, one crosses a cut of the ends.
LEMMA ByOther ==
  ASSUME NEW a \in Created', NEW b \in Created', NEW z \in Created', Has(a, z)', Has(z, b)'
  PROVE  Bridged(a, b)'
<1> SUFFICES ASSUME NEW S \in SUBSET Created', (a \in S) # (b \in S)
             PROVE  Crossing(S)'
  BY DEF Bridged
<1>1. CASE (z \in S) # (a \in S)
  <2>1. (a \in S /\ z \in Created' \ S) \/ (z \in S /\ a \in Created' \ S)
    BY <1>1
  <2> QED
    BY <2>1 DEF Crossing
<1>2. CASE (z \in S) # (b \in S)
  <2>1. (z \in S /\ b \in Created' \ S) \/ (b \in S /\ z \in Created' \ S)
    BY <1>2
  <2> QED
    BY <2>1 DEF Crossing
<1> QED
  BY <1>1, <1>2

\* A step that creates no node.
LEMMA LinkedKept ==
  ASSUME BaseInv, Linked, TypeOK', UNCHANGED <<order, main>>,
         Calm => \A a, b \in Created : Has(a, b) => Bridged(a, b)'
  PROVE  Linked'
<1>1. Created' = Created /\ Calm' = Calm /\ Created \subseteq Node
  BY CreatedIs DEF Created, Calm, BaseInv
<1>2. ASSUME Calm, NEW S \in SUBSET Created, S # {}, S # Created
      PROVE  \E a \in S, b \in Created \ S : Has(a, b)' \/ Has(b, a)'
  <2>1. PICK a \in S, b \in Created \ S : Has(a, b) \/ Has(b, a)
    BY <1>2, LinkedIs DEF Crossing
  <2>2. Bridged(a, b)' \/ Bridged(b, a)'
    BY <1>2, <2>1
  <2>3. Crossing(S)'
    BY <1>1, <2>1, <2>2 DEF Bridged
  <2> QED
    BY <1>1, <2>3 DEF Crossing
<1> QED
  BY <1>1, <1>2, LinkedAfter

\* What a step takes from a node's outbox it puts into an inbox.
LEMMA SendLinked ==
  ASSUME BaseInv, Linked, BaseInv', NEW n \in Node, sendTo(n)
  PROVE  Linked'
<1> DEFINE o == Head(outbox[n])
<1>1. /\ outbox[n] # <<>>
      /\ inbox' = [inbox EXCEPT ![o.to] = Append(@, o.msg)]
      /\ outbox' = [outbox EXCEPT ![n] = Tail(@)]
      /\ UNCHANGED <<bits, order, main, conn>>
  BY DEF sendTo, state
<1>2. TypeOK /\ TypeOK' /\ outbox[n] \in Seq(Letter)
  BY DEF BaseInv, TypeOK
<1>3. o \in Letter /\ Range(outbox[n]) = Range(Tail(outbox[n])) \union {o}
  BY <1>1, <1>2, TailHas
<1> HIDE DEF o
<1>4. o.to \in Node /\ o.msg \in Message
  BY <1>3 DEF Letter
<1> DEFINE k == o.to
           s == Append(inbox[k], o.msg)
<1>5. Range(s) = Range(inbox[k]) \union {o.msg}
  <2>1. inbox[k] \in Seq(Message)
    BY <1>2, <1>4 DEF TypeOK
  <2> QED
    BY <1>4, <2>1, AppendHas
<1>6. inbox' = [inbox EXCEPT ![k] = s]
  BY <1>1
<1> HIDE DEF k, s
<1>7. k \in Node
  BY <1>4 DEF k
<1>8. /\ \A i \in Node : Range(inbox[i]) \subseteq Range(inbox'[i])
      /\ o.msg \in Range(inbox'[k])
  BY <1>2, <1>5, <1>6, <1>7 DEF TypeOK
<1>9. \A i \in Node : Range(outbox[i]) \subseteq Range(outbox'[i]) \union {o}
  BY <1>1, <1>2, <1>3 DEF TypeOK
<1>10. ASSUME NEW a \in Node, NEW b \in Node, Has(a, b)
       PROVE  Has(a, b)'
  <2>1. CASE b \in Names(conn[a])
    BY <1>1, <2>1 DEF Has, Names
  <2>2. CASE Ref(b) \in Range(inbox[a])
    <3>1. Ref(b) \in Range(inbox'[a])
      BY <1>8, <2>2
    <3> QED
      BY <3>1 DEF Has, Ref, Range
  <2>3. CASE \E i \in Node : To(a, Ref(b)) \in Range(outbox[i])
    <3>1. PICK i \in Node : To(a, Ref(b)) \in Range(outbox[i])
      BY <2>3
    <3>2. CASE To(a, Ref(b)) \in Range(outbox'[i])
      BY <3>2 DEF Has, Ref, To, Range
    <3>3. CASE To(a, Ref(b)) = o
      <4>1. k = a /\ o.msg = Ref(b)
        BY <3>3 DEF k, To
      <4>2. Ref(b) \in Range(inbox'[a])
        BY <1>8, <4>1
      <4> QED
        BY <4>2 DEF Has, Ref, Range
    <3> QED
      BY <1>9, <3>1, <3>2, <3>3
  <2>4. \/ b \in Names(conn[a]) \/ Ref(b) \in Range(inbox[a])
        \/ \E i \in Node : To(a, Ref(b)) \in Range(outbox[i])
    BY <1>10 DEF Has
  <2> QED
    BY <2>1, <2>2, <2>3, <2>4
<1>11. Created \subseteq Node /\ Created' = Created
  BY <1>1, <1>2, CreatedIs DEF Created
<1>12. \A a, b \in Created : Has(a, b) => Bridged(a, b)'
  BY <1>10, <1>11, KnownKept
<1> QED
  BY <1>1, <1>2, <1>12, LinkedKept

\* What a ticker adds to an empty outbox.
LEMMA TimeoutLinked ==
  ASSUME BaseInv, Linked, BaseInv', NEW n \in Node, Timeout(n)
  PROVE  Linked'
<1>1. /\ outbox[n] = <<>> /\ \E q : outbox' = [outbox EXCEPT ![n] = q]
      /\ UNCHANGED <<bits, order, main, conn, inbox>>
  BY DEF Timeout
<1>2. TypeOK /\ TypeOK' /\ Range(outbox[n]) = {}
  BY <1>1 DEF BaseInv, Range
<1>3. \A i \in Node : Range(outbox[i]) \subseteq Range(outbox'[i])
  BY <1>1, <1>2 DEF TypeOK
<1>4. ASSUME NEW a \in Node, NEW b \in Node, Has(a, b)
      PROVE  Has(a, b)'
  <2>1. CASE b \in Names(conn[a]) \/ Ref(b) \in Range(inbox[a])
    BY <1>1, <2>1 DEF Has, Names, Ref, Range
  <2>2. CASE \E i \in Node : To(a, Ref(b)) \in Range(outbox[i])
    <3>1. PICK i \in Node : To(a, Ref(b)) \in Range(outbox'[i])
      BY <1>3, <2>2
    <3> QED
      BY <3>1 DEF Has, Ref, To, Range
  <2>3. \/ b \in Names(conn[a]) \/ Ref(b) \in Range(inbox[a])
        \/ \E i \in Node : To(a, Ref(b)) \in Range(outbox[i])
    BY <1>4 DEF Has
  <2> QED
    BY <2>1, <2>2, <2>3
<1>5. Created \subseteq Node /\ Created' = Created
  BY <1>1, <1>2, CreatedIs DEF Created
<1>6. \A a, b \in Created : Has(a, b) => Bridged(a, b)'
  BY <1>4, <1>5, KnownKept
<1> QED
  BY <1>1, <1>2, <1>6, LinkedKept

\* What a node drops it passes on to a node that it keeps.
LEMMA UpdateLinked ==
  ASSUME BaseInv, Linked, BaseInv', NEW n \in Node, Receive(n),
         NEW x \in Node, x # n, Head(inbox[n]) = Ref(x), Update(n, x), Calm => n \in Created
  PROVE  Linked'
<1>1. /\ inbox[n] # <<>> /\ inbox' = [inbox EXCEPT ![n] = Tail(@)] /\ outbox[n] = <<>>
      /\ UNCHANGED <<bits, order, ticks, main>>
  BY DEF Receive
<1> DEFINE K == Kept(n, x)
           D == Dropped(n, x)
           q == PassedOn(n, x)
<1>2. conn' = [conn EXCEPT ![n] = K] /\ outbox' = [outbox EXCEPT ![n] = q]
  BY UpdateIs
<1>3. TypeOK /\ TypeOK' /\ StateInv /\ RangesInv /\ ConnInv /\ CountsRanges
  BY StateIs DEF BaseInv
<1>4. Names(K) \union Names(D) = Names(conn[n]) \union {x}
  BY <1>3, KeptIs
<1>5. \A d \in Names(D) : \E z \in Names(K) \union {n} : To(z, Ref(d)) \in Range(q)
  <2>1. \A d \in Names(D) : \E z \in Names(K) \union {n} :
          \E i \in DOMAIN q : q[i] = To(z, Ref(d))
    BY <1>3, PassedOnIs
  <2> HIDE DEF q
  <2> QED
    BY <2>1 DEF Range
<1> HIDE DEF K, D, q
<1>6. Created \subseteq Node /\ Created' = Created
  BY <1>1, <1>3, CreatedIs DEF Created
<1>7. SUFFICES ASSUME Calm, NEW a \in Created, NEW b \in Created, Has(a, b)
               PROVE  Bridged(a, b)'
  BY <1>1, <1>3, LinkedKept
<1>8. a \in Node /\ b \in Node /\ n \in Created
  BY <1>6, <1>7
<1>9. conn'[n] = K /\ outbox'[n] = q /\ inbox'[n] = Tail(inbox[n])
  BY <1>1, <1>2, <1>3 DEF TypeOK
<1>10. \A i \in Node \ {n} : conn'[i] = conn[i] /\ outbox'[i] = outbox[i] /\ inbox'[i] = inbox[i]
  BY <1>1, <1>2, <1>3 DEF TypeOK
<1>11. Names(K) \subseteq Created
  <2>1. CalmInv' /\ Calm'
    BY <1>1, <1>7 DEF BaseInv, Calm
  <2>2. Names(conn'[n]) \subseteq Created'
    BY <2>1 DEF CalmInv, Names
  <2> QED
    BY <1>6, <1>9, <2>2
<1>12. ASSUME a = n, b \in Names(K) \union Names(D)
       PROVE  Bridged(a, b)'
  <2>1. CASE b \in Names(K)
    <3>1. Has(a, b)'
      BY <1>9, <1>12, <2>1 DEF Has, Names
    <3> QED
      BY <1>6, <3>1, KnownKept
  <2>2. CASE b \in Names(D)
    <3>1. PICK z \in Names(K) \union {n} : To(z, Ref(b)) \in Range(q)
      BY <1>5, <2>2
    <3>2. To(z, Ref(b)) \in Range(outbox'[n])
      BY <1>9, <3>1
    <3>3. Has(z, b)'
      BY <3>2 DEF Has, To, Ref, Range
    <3>4. CASE z = n
      BY <1>6, <1>12, <3>3, <3>4, KnownKept
    <3>5. CASE z # n
      <4>1. z \in Names(conn'[n]) /\ z \in Created
        BY <1>9, <1>11, <3>1, <3>5
      <4>2. Has(n, z)'
        BY <4>1 DEF Has, Names
      <4> QED
        BY <1>6, <1>12, <3>3, <4>1, <4>2, ByOther
    <3> QED
      BY <3>4, <3>5
  <2> QED
    BY <1>12, <2>1, <2>2
<1>13. CASE b \in Names(conn[a])
  <2>1. CASE a = n
    BY <1>4, <1>12, <1>13, <2>1
  <2>2. CASE a # n
    <3>1. b \in Names(conn'[a])
      BY <1>8, <1>10, <1>13, <2>2
    <3>2. Has(a, b)'
      BY <3>1 DEF Has, Names
    <3> QED
      BY <1>6, <3>2, KnownKept
  <2> QED
    BY <2>1, <2>2
<1>14. CASE Ref(b) \in Range(inbox[a])
  <2>1. CASE a = n /\ Ref(b) = Ref(x)
    <3>1. b = x
      BY <2>1 DEF Ref
    <3> QED
      BY <1>4, <1>12, <2>1, <3>1
  <2>2. CASE ~(a = n /\ Ref(b) = Ref(x))
    <3>1. Ref(b) \in Range(inbox'[a])
      <4>1. CASE a = n
        <5>1. inbox[n] \in Seq(Message)
          BY <1>3 DEF TypeOK
        <5>2. Range(inbox[n]) = Range(Tail(inbox[n])) \union {Ref(x)}
          BY <1>1, <5>1, TailHas
        <5> QED
          BY <1>9, <1>14, <2>2, <4>1, <5>2
      <4>2. CASE a # n
        BY <1>8, <1>10, <1>14, <4>2
      <4> QED
        BY <4>1, <4>2
    <3>2. Has(a, b)'
      BY <3>1 DEF Has, Range, Ref
    <3> QED
      BY <1>6, <3>2, KnownKept
  <2> QED
    BY <2>1, <2>2
<1>15. CASE \E k \in Node : To(a, Ref(b)) \in Range(outbox[k])
  <2>1. PICK k \in Node : To(a, Ref(b)) \in Range(outbox[k])
    BY <1>15
  <2>2. k # n
    BY <1>1, <2>1 DEF Range
  <2>3. To(a, Ref(b)) \in Range(outbox'[k])
    BY <1>10, <2>1, <2>2
  <2>4. Has(a, b)'
    BY <2>3 DEF Has, To, Ref, Range
  <2> QED
    BY <1>6, <2>4, KnownKept
<1> QED
  BY <1>7, <1>13, <1>14, <1>15 DEF Has

\* A cut of what main has created, with the node that it has made known since.
LEMMA CreateLinked ==
  ASSUME BaseInv, Linked, BaseInv', CreateNode
  PROVE  Linked'
<1>1. /\ TypeOK /\ TypeOK' /\ main.stage = "create" /\ main.i \in Node
      /\ UNCHANGED <<bits, order, conn, outbox>>
  BY DEF BaseInv, TypeOK, CreateNode, state
<1>2. Calm /\ Created = {order[j] : j \in 1..main.i} /\ Created \subseteq Node
  BY <1>1, CreatedIs DEF Calm, Created
<1>3. CASE main.i = N
  <2>1. main'.stage = "stable" /\ UNCHANGED inbox
    BY <1>3 DEF CreateNode
  <2>2. Created' = Node /\ Created = Node
    BY <1>1, <1>2, <1>3, <2>1, AllCreated DEF Created
  <2>3. ASSUME NEW S \in SUBSET Created', S # {}, S # Created'
        PROVE  \E a \in S, b \in Created' \ S : Has(a, b)' \/ Has(b, a)'
    <3>1. PICK a \in S, b \in Created \ S : Has(a, b) \/ Has(b, a)
      BY <1>2, <2>2, <2>3, LinkedIs DEF Crossing
    <3>2. Has(a, b)' \/ Has(b, a)'
      BY <1>1, <2>1, <3>1 DEF Has, Names, Range, To, Ref
    <3> QED
      BY <2>2, <3>2
  <2> QED
    BY <1>1, <2>2, <2>3, LinkedAfter
<1>4. CASE main.i # N
  <2> DEFINE i == main.i
  <2>2. i \in Node /\ i + 1 \in Node /\ i \in Nat
    BY <1>1, <1>4, SkipGraphAssumption DEF Node
  <2>12. PICK v, w : v = order[i] /\ w = order[i + 1]
    OBVIOUS
  <2> DEFINE s == Append(inbox[v], Ref(w))
  <2>1. main' = [main EXCEPT !.i = i + 1] /\ inbox' = [inbox EXCEPT ![v] = s]
    BY <1>4, <2>12 DEF CreateNode
  <2>3. v \in Node /\ w \in Node /\ v \in Created
    <3>1. i \in 1..i
      BY <2>2 DEF Node
    <3> QED
      BY <1>1, <1>2, <2>2, <2>12, <3>1, OrderIs
  <2>4. main'.stage = "create" /\ main'.i = i + 1
    BY <1>1, <2>1 DEF TypeOK
  <2>5. Created' = Created \union {w}
    <3>1. 1..i + 1 = (1..i) \union {i + 1}
      BY <2>2
    <3>2. Created' = {order[j] : j \in 1..i + 1}
      BY <1>1, <2>4 DEF Created
    <3> QED
      BY <1>2, <2>12, <3>1, <3>2
  <2>6. Range(s) = Range(inbox[v]) \union {Ref(w)}
    <3>1. inbox[v] \in Seq(Message) /\ Ref(w) \in Message
      BY <1>1, <2>3, LettersAre DEF TypeOK
    <3> QED
      BY <3>1, AppendHas
  <2> HIDE DEF i, s
  <2>7. /\ \A k \in Node : Range(inbox[k]) \subseteq Range(inbox'[k])
        /\ Ref(w) \in Range(inbox'[v])
    BY <1>1, <2>1, <2>3, <2>6 DEF TypeOK
  <2>8. Has(v, w)'
    BY <2>7 DEF Has, Range, Ref
  <2>9. ASSUME NEW a \in Node, NEW b \in Node, Has(a, b)
        PROVE  Has(a, b)'
    <3>1. CASE b \in Names(conn[a]) \/ \E k \in Node : To(a, Ref(b)) \in Range(outbox[k])
      BY <1>1, <3>1 DEF Has, Names, Range, To, Ref
    <3>2. CASE Ref(b) \in Range(inbox[a])
      <4>1. Ref(b) \in Range(inbox'[a])
        BY <2>7, <3>2
      <4> QED
        BY <4>1 DEF Has, Range, Ref
    <3>3. \/ b \in Names(conn[a]) \/ Ref(b) \in Range(inbox[a])
          \/ \E k \in Node : To(a, Ref(b)) \in Range(outbox[k])
      BY <2>9 DEF Has
    <3> QED
      BY <3>1, <3>2, <3>3
  <2>10. ASSUME NEW S \in SUBSET Created', S # {}, S # Created'
         PROVE  \E a \in S, b \in Created' \ S : Has(a, b)' \/ Has(b, a)'
    <3> DEFINE T == S \intersect Created
    <3>1. CASE T = {} \/ T = Created
      <4>1. (w \in S /\ v \in Created' \ S) \/ (v \in S /\ w \in Created' \ S)
        BY <2>3, <2>5, <2>10, <3>1
      <4> QED
        BY <2>8, <4>1
    <3>2. CASE T # {} /\ T # Created
      <4>1. PICK a \in T, b \in Created \ T : Has(a, b) \/ Has(b, a)
        BY <1>2, <3>2, LinkedIs DEF Crossing
      <4>2. a \in S /\ b \in Created' \ S /\ a \in Node /\ b \in Node
        BY <1>2, <2>5, <4>1
      <4>3. Has(a, b)' \/ Has(b, a)'
        BY <2>9, <4>1, <4>2
      <4> QED
        BY <4>2, <4>3
    <3> QED
      BY <3>1, <3>2
  <2>11. Created' \subseteq Node
    BY <1>2, <2>3, <2>5
  <2> QED
    BY <1>1, <2>10, <2>11, LinkedAfter
<1> QED
  BY <1>3, <1>4

\* No reference goes while main looks at the nodes.
LEMMA CheckLinked ==
  ASSUME BaseInv, Linked, BaseInv', checkStable
  PROVE  Linked'
<1>1. /\ TypeOK' /\ main.stage = "stable" /\ main'.stage \in {"stable", "leave"}
      /\ UNCHANGED <<bits, order, conn, inbox, outbox>>
  <2>1. main.stage = "stable" /\ main \in [stage : {"create", "stable", "leave", "search"}, i : Nat \ {0}]
        /\ UNCHANGED <<bits, order, conn, inbox, outbox>>
    BY DEF BaseInv, TypeOK, checkStable, state
  <2>2. main'.stage \in {"stable", "leave"}
    BY <2>1 DEF checkStable
  <2> QED
    BY <2>1, <2>2 DEF BaseInv
<1>2. Calm /\ Created = Node /\ Created' = Node
  BY <1>1 DEF Calm, Created
<1>3. ASSUME NEW S \in SUBSET Created', S # {}, S # Created'
      PROVE  \E a \in S, b \in Created' \ S : Has(a, b)' \/ Has(b, a)'
  <2>1. PICK a \in S, b \in Created \ S : Has(a, b) \/ Has(b, a)
    BY <1>2, <1>3, LinkedIs DEF Crossing
  <2>2. Has(a, b)' \/ Has(b, a)'
    BY <1>1, <2>1 DEF Has, Names, Range, To, Ref
  <2> QED
    BY <1>2, <2>2
<1> QED
  BY <1>1, <1>2, <1>3, LinkedAfter

-----------------------------------------------------------------------------
(* The theorems *)

\* Whatever a node does preserves the invariant.
LEMMA NodeNext ==
  ASSUME IInv, NEW n \in Created, Receive(n) \/ Drain(n) \/ sendTo(n) \/ Timeout(n)
  PROVE  IInv'
<1>1. BaseInv /\ Linked /\ TypeOK /\ n \in Node /\ (Calm => n \in Created)
  BY CreatedIs DEF IInv, BaseInv
<1>2. ASSUME ~Calm, UNCHANGED main PROVE Linked'
  BY <1>2 DEF Linked, Calm
<1>3. CASE Receive(n)
  <2> DEFINE m == Head(inbox[n])
  <2>1. inbox[n] # <<>> /\ UNCHANGED main
    BY <1>3 DEF Receive
  <2>2. m.kind \in {"quit", "leave", "searchBits", "searchID", "ref"}
    BY <1>1, <2>1, CalmHead, KindsAre
  <2>3. CASE m.kind = "quit"
    BY <1>1, <1>2, <1>3, <2>1, <2>3, QuitStep DEF IInv
  <2>4. CASE m.kind = "leave"
    BY <1>1, <1>2, <1>3, <2>1, <2>4, LeaveStep DEF IInv
  <2>5. CASE m.kind \in {"searchBits", "searchID"}
    BY <1>1, <1>2, <1>3, <2>1, <2>5, SearchStep DEF IInv
  <2>6. CASE m.kind = "ref" /\ m.node \in deleted[n]
    BY <1>1, <1>2, <1>3, <2>1, <2>6, IgnoreStep DEF IInv
  <2>7. CASE m.kind = "ref" /\ m.node \notin deleted[n]
    <3>1. BaseInv' /\ m.node \in Node /\ m.node # n /\ m = Ref(m.node) /\ Update(n, m.node)
      BY <1>1, <1>3, <2>7, UpdateStep
    <3>2. Linked'
      BY <1>1, <1>3, <3>1, UpdateLinked
    <3> QED
      BY <3>1, <3>2 DEF IInv
  <2> QED
    BY <2>2, <2>3, <2>4, <2>5, <2>6, <2>7
<1>4. CASE Drain(n)
  <2>1. UNCHANGED main
    BY <1>4 DEF Drain
  <2> QED
    BY <1>1, <1>2, <1>4, <2>1, DrainStep DEF IInv
<1>5. CASE sendTo(n)
  BY <1>1, <1>5, SendStep, SendLinked DEF IInv
<1>6. CASE Timeout(n)
  BY <1>1, <1>6, TimeoutStep, TimeoutLinked DEF IInv
<1> QED
  BY <1>3, <1>4, <1>5, <1>6

\* Nothing is forgotten when nothing happens.
LEMMA StutterLinked ==
  ASSUME BaseInv, Linked, BaseInv', UNCHANGED vars
  PROVE  Linked'
<1>1. TypeOK' /\ UNCHANGED <<order, main, conn, inbox, outbox>> /\ Created' = Created
  BY DEF BaseInv, vars, Created
<1>2. ASSUME NEW a \in Created, NEW b \in Created, Has(a, b) PROVE Has(a, b)'
  BY <1>1, <1>2 DEF Has, Names, Range, To, Ref
<1>3. \A a, b \in Created : Has(a, b) => Bridged(a, b)'
  BY <1>1, <1>2, KnownKept
<1> QED
  BY <1>1, <1>3, LinkedKept

\* Every reachable state of a skip graph of any size satisfies the inductive
\* invariant: the ranges, the borders, the connected nodes and the counts of each
\* node fit each other, and the graph is in one piece.
THEOREM Inductive ==
  Spec => []IInv
<1>1. Init => IInv
  <2> SUFFICES ASSUME Init PROVE IInv
    OBVIOUS
  <2>1. BaseInv
    BY InitBase
  <2>2. Created = {order[i] : i \in 1..1}
    BY DEF Init, Created
  <2>3. Created = {order[1]}
    BY <2>2
  <2>4. Linked
    BY <2>3 DEF Linked
  <2> QED
    BY <2>1, <2>4 DEF IInv
<1>2. IInv /\ [Next]_vars => IInv'
  <2> SUFFICES ASSUME IInv, [Next]_vars PROVE IInv'
    OBVIOUS
  <2>1. BaseInv /\ Linked
    BY DEF IInv
  <2>2. ASSUME NEW n \in Created, Receive(n) \/ Drain(n) \/ sendTo(n) \/ Timeout(n)
        PROVE  IInv'
    BY <2>2, NodeNext
  <2>3. CASE CreateNode
    BY <2>1, <2>3, CreateStep, CreateLinked DEF IInv
  <2>4. CASE checkStable
    BY <2>1, <2>4, CheckStep, CheckLinked DEF IInv
  <2>5. CASE TriggerLeave
    <3>1. main'.stage \in {"leave", "search"}
      BY <2>1, <2>5 DEF TriggerLeave, BaseInv, TypeOK
    <3> QED
      BY <2>1, <2>5, <3>1, TriggerLeaveStep DEF IInv, Linked
  <2>6. ASSUME NEW n \in Node, TriggerSearch(n) PROVE IInv'
    <3>1. main'.stage = "search"
      BY <2>1, <2>6 DEF TriggerSearch, BaseInv, TypeOK
    <3> QED
      BY <2>1, <2>6, <3>1, TriggerSearchStep DEF IInv, Linked
  <2>7. CASE UNCHANGED vars
    BY <2>1, <2>7, StutterStep, StutterLinked DEF IInv
  <2> QED
    BY <2>2, <2>3, <2>4, <2>5, <2>6, <2>7 DEF Next
<1> QED
  BY <1>1, <1>2, PTL DEF Spec

\* The variables keep their types; what is in the inboxes and outboxes names nodes.
THEOREM TypeCorrect ==
  Spec => []TypeOK
<1>1. IInv => TypeOK
  BY DEF IInv, BaseInv
<1> QED
  BY <1>1, Inductive, PTL

\* manageNode, updateRangesOfNode and linearizeRange never cut the graph in two: until
\* a node is told to leave, each node can be reached by references, stored or sent.
THEOREM StaysLinked ==
  Spec => []Linked
<1>1. IInv => Linked
  BY DEF IInv
<1> QED
  BY <1>1, Inductive, PTL

\* The count by which updateRangesOfNode decides to forget a node is at all times the
\* number of the ranges that hold it.
THEOREM CountsAreRanges ==
  Spec => []CountsRanges
<1>1. IInv => CountsRanges
  BY StateIs DEF IInv, BaseInv
<1> QED
  BY <1>1, Inductive, PTL

\* removeNodeFromRanges leaves no reference to the node that has left, and none comes
\* back, whatever the others still send.
THEOREM LeftIsForgotten ==
  Spec => []Forgotten
<1>1. IInv => Forgotten
  <2> SUFFICES ASSUME IInv, NEW n \in Node PROVE deleted[n] \intersect Stored(n) = {}
    BY DEF Forgotten
  <2>1. TypeOK /\ StateInv
    BY DEF IInv, BaseInv
  <2>2. deleted[n] \intersect Names(conn[n]) = {}
    BY <2>1 DEF StateInv, NodeOK
  <2> QED
    BY <2>1, <2>2, StoredIs
<1> QED
  BY <1>1, Inductive, PTL

\* Until it is told that a node has left, the borders of a node are the nearest nodes
\* that updateRange has been given on each side.
THEOREM BordersAreNearest ==
  Spec => []BordersNearest
<1>1. IInv => BordersNearest
  <2> SUFFICES ASSUME IInv, NEW n \in Node, NEW l \in Level, deleted[n] = {}
               PROVE  Nearest(n, l, border[n][l], inRange[n][l])
    BY DEF BordersNearest, Nearest
  <2> QED
    BY DEF IInv, BaseInv, StateInv, NodeOK
<1> QED
  BY <1>1, Inductive, PTL

=============================================================================
