------------------------ MODULE DeadlockCycleProofs ------------------------
(***************************************************************************)
(* Proof that a deadlock warning that can be trusted is true and stays     *)
(* true, whatever program is observed and however long its cycle is; and   *)
(* that a deadlock among channels in use within the window is reported.    *)
(***************************************************************************)
EXTENDS DeadlockCycle, FiniteSetTheorems, TLAPS

\* The keys of a channel, and the goroutines at one of its ends.
Mine(c) == {c} \union NamesOf(c)

Users(c, d) == {s.g : s \in {r \in Sites : r.ch = c /\ r.kind = d}}

\* The label of a pointer is one of its channel.
NameInv == \A c \in Chan : nameOf[c] = Unnamed \/ nameOf[c] \in NamesOf(c)

\* Under the keys of a channel that shares no label only its own users are
\* recorded, or wait for a message.
SeenInv ==
    \A c \in Chan : Private(c) =>
       \A k \in Mine(c) :
          /\ \A d \in Dir : \A r \in act[d][k] : r.g \in Users(c, d)
          /\ \A i \in 1..Len(pend[k]) : pend[k][i].g \in Users(c, "recv")

\* Until the trace ends, what the parser takes for blocked waits, and waits for
\* what it is taken to wait for if it does nothing outside its regions.
RegionOnly(g) == \A s \in Sites : s.g = g => s.region

WaitInv ==
    /\ \A g \in Gor : stage[g] = "waiting" => cur[g].kind \in Dir
    /\ ~audited =>
         /\ warning = <<>>
         /\ \A g \in Gor :
              /\ stage[g] # "waiting" => blocked[g] = {}
              /\ RegionOnly(g) =>
                   /\ stage[g] \in {"begun", "waiting"} /\ cur[g].kind \in Dir
                        => last[g] = {cur[g]}
                   /\ \A w \in blocked[g] :
                        w = [kind |-> cur[g].kind, key |-> KeyOf(cur[g])]

\* A member of a cycle that can be trusted waits, and only the next one could
\* end its wait.
WarnInv ==
    (\A i \in DOMAIN warning : Certain(warning[i])) =>
       \A i \in DOMAIN warning :
          /\ stage[warning[i]] = "waiting"
          /\ Ends(cur[warning[i]].ch, cur[warning[i]].kind)
               \subseteq {warning[After(warning, i)]}

IInv == TypeOK /\ NameInv /\ SeenInv /\ WaitInv /\ WarnInv

-----------------------------------------------------------------------------
(* Keys and channels.                                                      *)

\* A site's goroutine, channel, name and key are of the sets named for them.
LEMMA SiteFacts ==
    ASSUME NEW s \in Sites
    PROVE  /\ s.g \in Gor /\ s.ch \in Chan /\ s.name \in Name
           /\ KeyOf(s) \in Key /\ KeyOf(s) \in Mine(s.ch)
           /\ s.name \in NamesOf(s.ch)
           /\ s.ptr # NoPtr => s.ptr = s.ch
  BY DeadlockCycleAssumption DEF DeadlockCycleAssumption, Gor, Chan, Name, Key, KeyOf, Mine, NamesOf

\* The keys of a channel are keys; its labels are labels, and no channel is one.
LEMMA MineFacts ==
    ASSUME NEW c \in Chan
    PROVE  /\ NamesOf(c) \subseteq Name /\ Mine(c) \subseteq Key
           /\ \A k \in Mine(c) : k \in Chan => k = c
           /\ \A k \in Mine(c) : k \in Name => k \in NamesOf(c)
  BY DeadlockCycleAssumption DEF DeadlockCycleAssumption, Chan, Name, Key, Mine, NamesOf

\* A label of a channel that shares none is a label of no other channel.
LEMMA PrivateName ==
    ASSUME NEW c \in Chan, Private(c), NEW n \in NamesOf(c), NEW d \in Chan, n \in NamesOf(d)
    PROVE  d = c
  BY DEF Private, NamesOf

\* A label last seen with a pointer is a label of its channel.
LEMMA SeenName ==
    ASSUME NameInv, NEW c \in Chan, nameOf[c] \in Name
    PROVE  nameOf[c] \in NamesOf(c)
  BY DeadlockCycleAssumption DEF NameInv, DeadlockCycleAssumption, Key

\* The key of a site stands for a channel that shares no label only if the site
\* uses that channel.
LEMMA KeyPrivate ==
    ASSUME NEW c \in Chan, Private(c), NEW s \in Sites, KeyOf(s) \in Mine(c)
    PROVE  s.ch = c
<1>1. CASE s.ptr # NoPtr
  BY <1>1, SiteFacts, MineFacts DEF KeyOf
<1>2. CASE s.ptr = NoPtr
  <2>1. s.name \in NamesOf(c)
    BY <1>2, SiteFacts, MineFacts DEF KeyOf
  <2>. QED  BY <2>1, SiteFacts, PrivateName
<1>. QED  BY <1>1, <1>2

\* So does every entry that an operation at the site makes.
LEMMA EntriesPrivate ==
    ASSUME TypeOK, NameInv, NEW s \in Sites, NEW K \in Entries(s), NEW k \in K,
           NEW c \in Chan, Private(c), k \in Mine(c)
    PROVE  s.ch = c
<1>1. CASE s.ptr # NoPtr
  <2>1. K = {s.ptr, nameOf[s.ptr]} \intersect Key
    BY <1>1 DEF Entries
  <2>2. CASE k = s.ptr
    BY <2>2, <1>1, SiteFacts, MineFacts
  <2>3. CASE k = nameOf[s.ptr] /\ k # s.ptr
    <3>1. s.ptr = s.ch /\ s.ch \in Chan
      BY <1>1, SiteFacts
    <3>2. k # Unnamed
      BY <2>1, DeadlockCycleAssumption DEF DeadlockCycleAssumption
    <3>3. k \in NamesOf(s.ch)
      BY <3>1, <3>2, <2>3 DEF NameInv
    <3>4. k \in NamesOf(c)
      BY <3>3, <3>1, MineFacts
    <3>. QED  BY <3>3, <3>4, <3>1, PrivateName
  <2>. QED  BY <2>1, <2>2, <2>3
<1>2. CASE s.ptr = NoPtr
  <2>1. k = s.name \/ (k \in Chan /\ nameOf[k] = s.name)
    BY <1>2 DEF Entries
  <2>2. CASE k = s.name
    BY <2>2, SiteFacts, MineFacts, PrivateName
  <2>3. CASE k \in Chan /\ nameOf[k] = s.name
    <3>1. k = c
      BY <2>3, MineFacts
    <3>2. s.name \in NamesOf(c)
      BY <3>1, <2>3, SiteFacts, SeenName
    <3>. QED  BY <3>2, SiteFacts, PrivateName
  <2>. QED  BY <2>1, <2>2, <2>3
<1>. QED  BY <1>1, <1>2

\* A receive that a send finds waited under a key of the send's channel, if the
\* channel shares no label.
LEMMA WaitingPrivate ==
    ASSUME TypeOK, NameInv, NEW s \in Sites, Private(s.ch), NEW k \in WaitingRecv(s)
    PROVE  /\ k \in Mine(s.ch) /\ k \in Key /\ pend[k] # <<>>
<1>0. k \in Key /\ pend[k] # <<>>
  BY SiteFacts DEF WaitingRecv
<1>1. k = KeyOf(s) \/ k = s.name \/ (k \in Chan /\ nameOf[k] = s.name)
  BY DEF WaitingRecv, Named
<1>2. CASE k \in Chan /\ nameOf[k] = s.name
  <2>1. s.name \in NamesOf(k)
    BY <1>2, SiteFacts, SeenName
  <2>2. k = s.ch
    BY <2>1, <1>2, SiteFacts, PrivateName
  <2>. QED  BY <2>2, <1>0 DEF Mine
<1>. QED  BY <1>0, <1>1, <1>2, SiteFacts DEF Mine

-----------------------------------------------------------------------------
(* Types.                                                                  *)

LEMMA HeadTail ==
    ASSUME NEW R, NEW q \in Seq(R), q # <<>>
    PROVE  /\ Head(q) \in R /\ Tail(q) \in Seq(R)
           /\ Head(q) = q[1] /\ 1 \in 1..Len(q)
  OBVIOUS

LEMMA AppendType ==
    ASSUME NEW R, NEW q \in Seq(R), NEW r \in R
    PROVE  Append(q, r) \in Seq(R)
  OBVIOUS

\* What an entry leaves of the map it is made in.
LEMMA EnterType ==
    ASSUME NEW a \in [Dir -> [Key -> SUBSET [g : Gor, t : Nat]]], NEW kind \in Dir,
           NEW K, NEW g \in Gor, NEW t \in Nat
    PROVE  Enter(a, kind, K, g, t) \in [Dir -> [Key -> SUBSET [g : Gor, t : Nat]]]
  BY DEF Enter, Dir

\* The parser's handling of an event keeps its types.
LEMMA BeginSeenType ==
    ASSUME TypeOK, NEW s \in Sites, BeginSeen(s)
    PROVE  last' \in [Gor -> SUBSET Sites] /\ nameOf' \in [Chan -> Name \union {Unnamed}]
<1>1. CASE s.region /\ s.kind # "close"
  <2>1. last' \in [Gor -> SUBSET Sites]
    <3>1. last \in [Gor -> SUBSET Sites] /\ {s} \in SUBSET Sites
      BY DEF TypeOK
    <3>2. last' = [last EXCEPT ![s.g] = {s}]
      BY <1>1 DEF BeginSeen
    <3>. QED  BY <3>1, <3>2
  <2>2. nameOf' \in [Chan -> Name \union {Unnamed}]
    <3>1. nameOf \in [Chan -> Name \union {Unnamed}] /\ s.name \in Name
      BY SiteFacts DEF TypeOK
    <3>2. nameOf' = IF s.ptr # NoPtr THEN [nameOf EXCEPT ![s.ptr] = s.name] ELSE nameOf
      BY <1>1 DEF BeginSeen
    <3>. QED  BY <3>1, <3>2
  <2>. QED  BY <2>1, <2>2
<1>2. CASE ~(s.region /\ s.kind # "close")
  BY <1>2 DEF TypeOK, BeginSeen
<1>. QED  BY <1>1, <1>2

LEMMA SendSeenType ==
    ASSUME TypeOK, NEW s \in Sites, SendSeen(s)
    PROVE  /\ unpaired' \in [Key -> Nat]
           /\ pend' \in [Key -> Seq([g : Gor, t : Nat])]
           /\ act' \in [Dir -> [Key -> SUBSET [g : Gor, t : Nat]]]
<1>0. s.g \in Gor /\ KeyOf(s) \in Key /\ clock \in Nat /\ "send" \in Dir /\ "recv" \in Dir
  BY SiteFacts DEF TypeOK, Dir
<1>1. CASE \E k \in WaitingRecv(s), K \in Entries(s), L \in Entries(s) :
             /\ pend' = [pend EXCEPT ![k] = Tail(@)]
             /\ act' = Enter(Enter(act, "recv", K, Head(pend[k]).g, Head(pend[k]).t),
                             "send", L, s.g, clock)
             /\ UNCHANGED unpaired
  <2>1. PICK k \in WaitingRecv(s), K \in Entries(s), L \in Entries(s) :
             /\ pend' = [pend EXCEPT ![k] = Tail(@)]
             /\ act' = Enter(Enter(act, "recv", K, Head(pend[k]).g, Head(pend[k]).t),
                             "send", L, s.g, clock)
             /\ UNCHANGED unpaired
    BY <1>1
  <2>2. k \in Key /\ pend[k] # <<>> /\ pend[k] \in Seq([g : Gor, t : Nat])
    BY <1>0 DEF WaitingRecv, TypeOK
  <2>3. Head(pend[k]) \in [g : Gor, t : Nat] /\ Tail(pend[k]) \in Seq([g : Gor, t : Nat])
    BY <2>2, HeadTail
  <2>4. Enter(act, "recv", K, Head(pend[k]).g, Head(pend[k]).t)
          \in [Dir -> [Key -> SUBSET [g : Gor, t : Nat]]]
    BY <2>3, <1>0, EnterType DEF TypeOK
  <2>5. act' \in [Dir -> [Key -> SUBSET [g : Gor, t : Nat]]]
    BY <2>1, <2>4, <1>0, EnterType
  <2>. QED  BY <2>1, <2>2, <2>3, <2>5 DEF TypeOK
<1>2. CASE /\ unpaired' = [unpaired EXCEPT ![KeyOf(s)] = @ + 1]
           /\ \E L \in Entries(s) : act' = Enter(act, "send", L, s.g, clock)
           /\ UNCHANGED pend
  <2>0. act \in [Dir -> [Key -> SUBSET [g : Gor, t : Nat]]]
    BY DEF TypeOK
  <2>1. act' \in [Dir -> [Key -> SUBSET [g : Gor, t : Nat]]]
    <3>1. PICK L \in Entries(s) : act' = Enter(act, "send", L, s.g, clock)
      BY <1>2
    <3>. QED  BY <1>0, <2>0, <3>1, EnterType
  <2>2. unpaired' \in [Key -> Nat]
    BY <1>0, <1>2 DEF TypeOK
  <2>. QED  BY <1>2, <2>1, <2>2 DEF TypeOK
<1>. QED  BY <1>1, <1>2 DEF SendSeen

LEMMA RecvSeenType ==
    ASSUME TypeOK, NEW s \in Sites, RecvSeen(s)
    PROVE  /\ unpaired' \in [Key -> Nat]
           /\ pend' \in [Key -> Seq([g : Gor, t : Nat])]
           /\ act' \in [Dir -> [Key -> SUBSET [g : Gor, t : Nat]]]
<1>0. s.g \in Gor /\ KeyOf(s) \in Key /\ clock \in Nat /\ "recv" \in Dir
  BY SiteFacts DEF TypeOK, Dir
<1>1. act' \in [Dir -> [Key -> SUBSET [g : Gor, t : Nat]]]
  <2>1. act \in [Dir -> [Key -> SUBSET [g : Gor, t : Nat]]]
    BY DEF TypeOK
  <2>2. PICK L \in Entries(s) : act' = Enter(act, "recv", L, s.g, clock)
    BY DEF RecvSeen
  <2>. QED  BY <1>0, <2>1, <2>2, EnterType
<1>2. CASE \E k \in SendQueues(s) :
             /\ unpaired' = [unpaired EXCEPT ![k] = @ - 1]
             /\ UNCHANGED pend
  <2>1. PICK k \in SendQueues(s) : unpaired' = [unpaired EXCEPT ![k] = @ - 1]
    BY <1>2
  <2>2. k \in Key /\ unpaired \in [Key -> Nat] /\ unpaired[k] > 0
    BY <1>0 DEF SendQueues, TypeOK
  <2>3. unpaired' \in [Key -> Nat]
    BY <2>1, <2>2
  <2>. QED  BY <1>1, <1>2, <2>3 DEF TypeOK
<1>3. CASE /\ pend' = [pend EXCEPT ![KeyOf(s)] = Append(@, [g |-> s.g, t |-> clock])]
           /\ UNCHANGED unpaired
  <2>1. pend \in [Key -> Seq([g : Gor, t : Nat])] /\ [g |-> s.g, t |-> clock] \in [g : Gor, t : Nat]
    BY <1>0 DEF TypeOK
  <2>2. Append(pend[KeyOf(s)], [g |-> s.g, t |-> clock]) \in Seq([g : Gor, t : Nat])
    BY <1>0, <2>1, AppendType
  <2>3. pend' \in [Key -> Seq([g : Gor, t : Nat])]
    BY <1>3, <2>1, <2>2
  <2>. QED  BY <1>1, <1>3, <2>3 DEF TypeOK
<1>. QED  BY <1>2, <1>3 DEF RecvSeen

\* What a wait is inferred to be for has the type of a wait.
LEMMA InferredType ==
    ASSUME TypeOK, NEW g \in Gor, cur[g].kind \in Dir
    PROVE  WaitInferred(g) \in SUBSET [kind : Dir, key : Key]
<1>1. \A s \in last[g] : s \in Sites /\ KeyOf(s) \in Key
  BY SiteFacts DEF TypeOK
<1>. QED  BY <1>1 DEF WaitInferred

\* What a step of one goroutine leaves of the program's types.
LEMMA ProceedType ==
    ASSUME TypeOK, NEW g \in Gor, NEW H \in SUBSET Gor, Proceed(g, H)
    PROVE  /\ stage' \in [Gor -> {"idle", "begun", "waiting", "moved"}]
           /\ blocked' \in [Gor -> SUBSET [kind : Dir, key : Key]]
           /\ UNCHANGED <<cur, begun, firstEnd, clock, last, nameOf, unpaired, pend,
                          act, audited, warning>>
<1>1. stage' \in [Gor -> {"idle", "begun", "waiting", "moved"}]
  BY DEF Proceed, TypeOK
<1>2. CASE audited /\ UNCHANGED parser
  BY <1>1, <1>2 DEF Proceed, TypeOK, parser
<1>3. CASE ~audited /\ WokenSeen(H)
  BY <1>1, <1>3 DEF Proceed, WokenSeen, TypeOK
<1>. QED  BY <1>1, <1>2, <1>3 DEF Proceed

\* An action in which a goroutine proceeds: whom it wakes.
Proceeds(g) ==
    \E H \in SUBSET Gor :
       /\ Proceed(g, H)
       /\ \A h \in H : /\ stage[h] = "waiting" /\ cur[h].ch = cur[g].ch
                       /\ \/ cur[g].kind = Other(cur[h].kind)
                          \/ cur[h].kind = "recv" /\ cur[g].kind = "close"

LEMMA SendProceeds ==
    ASSUME TypeOK, NEW g \in Gor, Send(g)
    PROVE  Proceeds(g) /\ len' \in [Chan -> Nat] /\ closed' \subseteq Chan
<1>1. cur[g] \in Sites /\ cur[g].ch \in Chan /\ cur[g].kind = "send"
  BY SiteFacts DEF TypeOK, Send
<1>2. CASE \E h \in Waiters(cur[g].ch, "recv") : Proceed(g, {h}) /\ UNCHANGED len
  <2>1. PICK h \in Waiters(cur[g].ch, "recv") : Proceed(g, {h}) /\ UNCHANGED len
    BY <1>2
  <2>2. {h} \in SUBSET Gor
    BY DEF Waiters
  <2>3. stage[h] = "waiting" /\ cur[h].ch = cur[g].ch /\ cur[g].kind = Other(cur[h].kind)
    BY <1>1, <2>1 DEF Waiters, Other
  <2>4. Proceeds(g)
    BY <2>1, <2>2, <2>3 DEF Proceeds
  <2>. QED  BY <2>1, <2>4 DEF Send, TypeOK
<1>3. CASE /\ len' = [len EXCEPT ![cur[g].ch] = @ + 1]
           /\ Proceed(g, {})
  <2>1. len' \in [Chan -> Nat]
    BY <1>1, <1>3 DEF TypeOK
  <2>2. Proceeds(g)
    <3>1. {} \in SUBSET Gor
      OBVIOUS
    <3>. QED  BY <3>1, <1>3 DEF Proceeds
  <2>. QED  BY <2>1, <2>2 DEF Send, TypeOK
<1>. QED  BY <1>2, <1>3 DEF Send

LEMMA ReceiveProceeds ==
    ASSUME TypeOK, NEW g \in Gor, Receive(g)
    PROVE  Proceeds(g) /\ len' \in [Chan -> Nat] /\ closed' \subseteq Chan
<1>1. cur[g] \in Sites /\ cur[g].ch \in Chan /\ cur[g].kind = "recv"
  BY SiteFacts DEF TypeOK, Receive
<1>2. CASE \E h \in Waiters(cur[g].ch, "send") : Proceed(g, {h}) /\ UNCHANGED len
  <2>1. PICK h \in Waiters(cur[g].ch, "send") : Proceed(g, {h}) /\ UNCHANGED len
    BY <1>2
  <2>2. {h} \in SUBSET Gor
    BY DEF Waiters
  <2>3. stage[h] = "waiting" /\ cur[h].ch = cur[g].ch /\ cur[g].kind = Other(cur[h].kind)
    BY <1>1, <2>1 DEF Waiters, Other
  <2>4. Proceeds(g)
    BY <2>1, <2>2, <2>3 DEF Proceeds
  <2>. QED  BY <2>1, <2>4 DEF Receive, TypeOK
<1>3. CASE /\ len[cur[g].ch] > 0
           /\ len' = [len EXCEPT ![cur[g].ch] = @ - 1]
           /\ Proceed(g, {})
  <2>1. len' \in [Chan -> Nat]
    BY <1>1, <1>3 DEF TypeOK
  <2>2. Proceeds(g)
    <3>1. {} \in SUBSET Gor
      OBVIOUS
    <3>. QED  BY <3>1, <1>3 DEF Proceeds
  <2>. QED  BY <2>1, <2>2 DEF Receive, TypeOK
<1>4. CASE Proceed(g, {}) /\ UNCHANGED len
  <2>1. {} \in SUBSET Gor
    OBVIOUS
  <2>2. Proceeds(g)
    BY <2>1, <1>4 DEF Proceeds
  <2>. QED  BY <2>2, <1>4 DEF Receive, TypeOK
<1>. QED  BY <1>2, <1>3, <1>4 DEF Receive

LEMMA CloseProceeds ==
    ASSUME TypeOK, NEW g \in Gor, Close(g)
    PROVE  Proceeds(g) /\ len' \in [Chan -> Nat] /\ closed' \subseteq Chan
<1>1. cur[g] \in Sites /\ cur[g].ch \in Chan
  BY SiteFacts DEF TypeOK
<1>2. Waiters(cur[g].ch, "recv") \in SUBSET Gor
  BY DEF Waiters
<1>3. Proceeds(g)
  BY <1>2 DEF Close, Proceeds, Waiters
<1>. QED  BY <1>1, <1>3 DEF Close, TypeOK

-----------------------------------------------------------------------------
(* The cycle that is reported.                                             *)

\* A path is a sequence of goroutines that follow edges.
LEMMA PathFacts ==
    ASSUME NEW p \in Paths
    PROVE  /\ p \in Seq(Gor) /\ Len(p) \in Nat \ {0} /\ DOMAIN p = 1..Len(p)
           /\ \A i \in 1..(Len(p) - 1) : Edge(p[i], p[i + 1])
<1>0. Cardinality(Gor) \in Nat
  BY FS_CardinalityType, DeadlockCycleAssumption DEF DeadlockCycleAssumption
<1>1. PICK n \in 1..Cardinality(Gor) : p \in [1..n -> Gor]
  BY DEF Paths
<1>2. p \in Seq(Gor) /\ Len(p) = n
  BY <1>0, <1>1
<1>. QED  BY <1>0, <1>1, <1>2 DEF Paths

\* The last element of a part of a sequence that goes to its end.
LEMMA LastIndex ==
    ASSUME NEW i \in Nat, NEW j \in Nat, NEW n \in Nat, j = n - i + 1
    PROVE  i + j - 1 = n
  OBVIOUS

\* A cycle is a sequence of goroutines, and each has an edge to the next one
\* round.
LEMMA CycleFacts ==
    ASSUME NEW q \in Cycles
    PROVE  q \in Seq(Gor) /\ \A j \in DOMAIN q : Edge(q[j], q[After(q, j)])
<1>1. \E p \in Paths : \E i \in DOMAIN p :
         q = SubSeq(p, i, Len(p)) /\ Edge(p[Len(p)], p[i])
  BY DEF Cycles
<1>2. PICK p \in Paths : \E i \in DOMAIN p :
         q = SubSeq(p, i, Len(p)) /\ Edge(p[Len(p)], p[i])
  BY <1>1
<1>3. PICK i \in DOMAIN p : q = SubSeq(p, i, Len(p)) /\ Edge(p[Len(p)], p[i])
  BY <1>2
<1>4. /\ p \in Seq(Gor) /\ Len(p) \in Nat \ {0} /\ i \in 1..Len(p)
      /\ \A j \in 1..(Len(p) - 1) : Edge(p[j], p[j + 1])
  BY <1>3, PathFacts
<1>5. /\ q \in Seq(Gor) /\ Len(q) = Len(p) - i + 1 /\ DOMAIN q = 1..Len(q)
      /\ \A j \in 1..Len(q) : q[j] = p[i + j - 1]
  BY <1>3, <1>4
<1>6. ASSUME NEW j \in 1..Len(q)
      PROVE  Edge(q[j], q[After(q, j)])
  <2>0. /\ i \in Nat /\ j \in Nat /\ Len(p) \in Nat /\ Len(q) \in Nat
        /\ 1 <= i /\ i <= Len(p) /\ 1 <= j /\ j <= Len(q) /\ Len(q) = Len(p) - i + 1
    BY <1>4, <1>5
  <2>1. CASE j = Len(q)
    <3>1. q[j] = p[Len(p)]
      <4>1. q[j] = p[i + j - 1]
        BY <1>5, <1>6
      <4>2. i + j - 1 = Len(p)
        BY <2>0, <2>1, LastIndex
      <4>. QED  BY <4>1, <4>2
    <3>2. q[1] = p[i]
      <4>1. 1 \in 1..Len(q) /\ i + 1 - 1 = i
        BY <2>0
      <4>. QED  BY <4>1, <1>5
    <3>. QED  BY <2>1, <3>1, <3>2, <1>3 DEF After
  <2>2. CASE j # Len(q)
    <3>1. i + j - 1 \in 1..(Len(p) - 1) /\ j + 1 \in 1..Len(q)
      BY <2>0, <2>2
    <3>2. q[j] = p[i + j - 1] /\ q[j + 1] = p[(i + j - 1) + 1]
      <4>1. q[j] = p[i + j - 1]
        BY <1>5, <1>6
      <4>2. q[j + 1] = p[i + (j + 1) - 1]
        BY <1>5, <3>1
      <4>3. i + (j + 1) - 1 = (i + j - 1) + 1
        BY <2>0
      <4>. QED  BY <4>1, <4>2, <4>3
    <3>3. Edge(p[i + j - 1], p[(i + j - 1) + 1])
      BY <3>1, <1>4
    <3>. QED  BY <3>2, <3>3, <2>2 DEF After
  <2>. QED  BY <2>1, <2>2
<1>. QED  BY <1>5, <1>6

-----------------------------------------------------------------------------
(* The invariant holds initially.                                          *)

LEMMA InitIInv == Init => IInv
<1>. SUFFICES ASSUME Init PROVE IInv
  OBVIOUS
<1>1. TypeOK
  <2>1. cur \in [Gor -> Sites] /\ \A g \in Gor : cur[g].g = g
    BY DEF Init, Gor
  <2>2. pend \in [Key -> Seq([g : Gor, t : Nat])] /\ warning \in Seq(Gor)
    BY DEF Init
  <2>3. act \in [Dir -> [Key -> SUBSET [g : Gor, t : Nat]]]
    BY DEF Init
  <2>4. \A g \in Gor : stage[g] = "idle"
    BY DEF Init
  <2>. QED  BY <2>1, <2>2, <2>3 DEF Init, TypeOK
<1>2. NameInv
  BY DEF Init, NameInv
<1>3. SeenInv
  <2>. SUFFICES ASSUME NEW c \in Chan, NEW k \in Mine(c)
                PROVE  /\ \A d \in Dir : act[d][k] = {}
                       /\ pend[k] = <<>>
    BY DEF SeenInv
  <2>. QED  BY MineFacts DEF Init
<1>4. WaitInv
  BY DEF Init, WaitInv
<1>5. WarnInv
  BY DEF Init, WarnInv
<1>. QED  BY <1>1, <1>2, <1>3, <1>4, <1>5 DEF IInv

-----------------------------------------------------------------------------
(* Every step keeps it.                                                    *)

\* The steps, by what the parser does at them.
LEMMA Steps ==
    ASSUME TypeOK, Next
    PROVE  \/ \E s \in Sites : Begin(s)
           \/ \E g \in Gor : Proceeds(g) /\ len' \in [Chan -> Nat] /\ closed' \subseteq Chan
           \/ \E g \in Gor : Wait(g) \/ End(g)
           \/ Tick \/ Audit
  BY SendProceeds, ReceiveProceeds, CloseProceeds DEF Next

LEMMA TypeStep ==
    ASSUME TypeOK, [Next]_vars
    PROVE  TypeOK'
<1>1. CASE UNCHANGED vars
  BY <1>1 DEF TypeOK, vars, program, parser
<1>2. CASE Next
  <2>1. ASSUME NEW s \in Sites, Begin(s) PROVE TypeOK'
    <3>1. s.g \in Gor
      BY SiteFacts
    <3>2. stage' \in [Gor -> {"idle", "begun", "waiting", "moved"}]
      BY <2>1, <3>1 DEF Begin, TypeOK
    <3>3. cur' \in [Gor -> Sites] /\ \A g \in Gor : cur'[g].g = g
      BY <2>1, <3>1 DEF Begin, TypeOK
    <3>4. begun' \in Nat
      BY <2>1 DEF Begin, TypeOK
    <3>5. CASE ~audited /\ BeginSeen(s)
      <4>1. last' \in [Gor -> SUBSET Sites] /\ nameOf' \in [Chan -> Name \union {Unnamed}]
        BY <3>5, BeginSeenType
      <4>. QED  BY <2>1, <3>2, <3>3, <3>4, <3>5, <4>1 DEF Begin, BeginSeen, TypeOK
    <3>6. CASE audited /\ UNCHANGED parser
      BY <2>1, <3>2, <3>3, <3>4, <3>6 DEF Begin, parser, TypeOK
    <3>. QED  BY <2>1, <3>5, <3>6 DEF Begin
  <2>2. ASSUME NEW g \in Gor, Proceeds(g), len' \in [Chan -> Nat], closed' \subseteq Chan
        PROVE  TypeOK'
    <3>1. PICK H \in SUBSET Gor : Proceed(g, H)
      BY <2>2 DEF Proceeds
    <3>. QED  BY <2>2, <3>1, ProceedType DEF TypeOK
  <2>3. ASSUME NEW g \in Gor, Wait(g) PROVE TypeOK'
    <3>1. stage' \in [Gor -> {"idle", "begun", "waiting", "moved"}]
      BY <2>3 DEF Wait, TypeOK
    <3>2. CASE ~audited /\ WaitSeen(g)
      <4>1. WaitInferred(g) \in SUBSET [kind : Dir, key : Key]
        BY <2>3, InferredType DEF Wait, Dir
      <4>2. blocked' \in [Gor -> SUBSET [kind : Dir, key : Key]]
        BY <3>2, <4>1 DEF WaitSeen, TypeOK
      <4>. QED  BY <2>3, <3>1, <3>2, <4>2 DEF Wait, WaitSeen, TypeOK
    <3>3. CASE audited /\ UNCHANGED parser
      BY <2>3, <3>1, <3>3 DEF Wait, parser, TypeOK
    <3>. QED  BY <2>3, <3>2, <3>3 DEF Wait
  <2>4. ASSUME NEW g \in Gor, End(g) PROVE TypeOK'
    <3>1. stage' \in [Gor -> {"idle", "begun", "waiting", "moved"}] /\ cur[g] \in Sites
      BY <2>4 DEF End, TypeOK
    <3>2. CASE UNCHANGED <<parser, firstEnd>>
      BY <2>4, <3>1, <3>2 DEF End, parser, TypeOK
    <3>3. CASE /\ SendSeen(cur[g]) \/ RecvSeen(cur[g])
               /\ firstEnd' = [firstEnd EXCEPT ![cur[g]] = IF @ = 0 THEN clock ELSE @]
      <4>1. firstEnd' \in [Sites -> Nat]
        BY <3>1, <3>3 DEF TypeOK
      <4>2. /\ unpaired' \in [Key -> Nat]
            /\ pend' \in [Key -> Seq([g : Gor, t : Nat])]
            /\ act' \in [Dir -> [Key -> SUBSET [g : Gor, t : Nat]]]
        BY <3>1, <3>3, SendSeenType, RecvSeenType
      <4>3. UNCHANGED <<last, nameOf, blocked>>
        BY <3>3 DEF SendSeen, RecvSeen
      <4>. QED  BY <2>4, <3>1, <4>1, <4>2, <4>3 DEF End, TypeOK
    <3>. QED  BY <2>4, <3>2, <3>3 DEF End, EndSeen
  <2>5. CASE Tick
    <3>1. clock' \in Nat
      BY <2>5 DEF Tick, TypeOK
    <3>. QED  BY <2>5, <3>1 DEF Tick, program, parser, TypeOK
  <2>6. CASE Audit
    <3>1. warning' \in Seq(Gor)
      <4>1. CASE warning' \in Cycles
        BY <4>1, CycleFacts
      <4>2. CASE warning' = <<>>
        BY <4>2
      <4>. QED  BY <2>6, <4>1, <4>2 DEF Audit
    <3>2. audited' \in BOOLEAN
      BY <2>6 DEF Audit
    <3>. QED  BY <2>6, <3>1, <3>2 DEF Audit, program, parser, TypeOK
  <2>. QED  BY <1>2, Steps, <2>1, <2>2, <2>3, <2>4, <2>5, <2>6
<1>. QED  BY <1>1, <1>2

LEMMA NameStep ==
    ASSUME TypeOK, NameInv, [Next]_vars
    PROVE  NameInv'
<1>1. CASE UNCHANGED nameOf
  BY <1>1 DEF NameInv
<1>2. ASSUME NEW s \in Sites, BeginSeen(s) PROVE NameInv'
  <2>1. UNCHANGED nameOf \/ (s.ptr = s.ch /\ nameOf' = [nameOf EXCEPT ![s.ch] = s.name])
    BY <1>2, SiteFacts DEF BeginSeen
  <2>. QED  BY <2>1, <1>1, SiteFacts DEF NameInv, TypeOK
<1>3. UNCHANGED nameOf \/ \E s \in Sites : BeginSeen(s)
  <2>1. CASE Next
    <3>1. ASSUME NEW g \in Gor, Proceeds(g) PROVE UNCHANGED nameOf
      BY <3>1, ProceedType DEF Proceeds
    <3>2. ASSUME NEW g \in Gor, Wait(g) PROVE UNCHANGED nameOf
      BY <3>2 DEF Wait, WaitSeen, parser
    <3>3. ASSUME NEW g \in Gor, End(g) PROVE UNCHANGED nameOf
      BY <3>3 DEF End, EndSeen, SendSeen, RecvSeen, parser
    <3>4. ASSUME NEW s \in Sites, Begin(s) PROVE UNCHANGED nameOf \/ BeginSeen(s)
      BY <3>4 DEF Begin, parser
    <3>5. Tick \/ Audit => UNCHANGED nameOf
      BY DEF Tick, Audit, parser
    <3>. QED  BY <2>1, Steps, <3>1, <3>2, <3>3, <3>4, <3>5
  <2>2. CASE UNCHANGED vars
    BY <2>2 DEF vars, parser
  <2>. QED  BY <2>1, <2>2
<1>. QED  BY <1>1, <1>2, <1>3

\* An entry of one of its users leaves a channel that shares no label with its
\* users only, and an entry at another channel's site is not made under its keys.
UsersOnly(a, c) ==
    \A k \in Mine(c) : \A d \in Dir : \A r \in a[d][k] : r.g \in Users(c, d)

LEMMA EnterSeen ==
    ASSUME TypeOK, NameInv,
           NEW a \in [Dir -> [Key -> SUBSET [g : Gor, t : Nat]]], NEW kind \in Dir,
           NEW s \in Sites, NEW K \in Entries(s), NEW g, NEW t,
           NEW c \in Chan, Private(c), UsersOnly(a, c),
           s.ch = c => g \in Users(c, kind)
    PROVE  UsersOnly(Enter(a, kind, K, g, t), c)
<1>. SUFFICES ASSUME NEW k \in Mine(c), NEW d \in Dir,
                     NEW r \in Enter(a, kind, K, g, t)[d][k]
              PROVE  r.g \in Users(c, d)
  BY DEF UsersOnly
<1>0. k \in Key
  BY MineFacts
<1>1. CASE d = kind /\ k \in K
  <2>1. r = [g |-> g, t |-> t]
    BY <1>0, <1>1 DEF Enter
  <2>2. s.ch = c
    BY <1>1, EntriesPrivate
  <2>. QED  BY <1>1, <2>1, <2>2
<1>2. CASE ~(d = kind /\ k \in K)
  <2>1. r \in a[d][k]
    BY <1>0, <1>2 DEF Enter
  <2>. QED  BY <2>1 DEF UsersOnly
<1>. QED  BY <1>1, <1>2

LEMMA SendSeenStep ==
    ASSUME TypeOK, NameInv, SeenInv, NEW s \in Sites, s.kind = "send", SendSeen(s)
    PROVE  SeenInv'
<1>. SUFFICES ASSUME NEW c \in Chan, Private(c)
              PROVE  /\ UsersOnly(act', c)
                     /\ \A k \in Mine(c) : \A i \in 1..Len(pend'[k]) :
                           pend'[k][i].g \in Users(c, "recv")
  BY DEF SeenInv, UsersOnly
<1>0. /\ UsersOnly(act, c) /\ "send" \in Dir /\ "recv" \in Dir
      /\ act \in [Dir -> [Key -> SUBSET [g : Gor, t : Nat]]] /\ clock \in Nat /\ s.g \in Gor
      /\ s.ch = c => s.g \in Users(c, "send")
  BY SiteFacts DEF SeenInv, UsersOnly, Dir, TypeOK, Users
<1>1. ASSUME NEW k \in WaitingRecv(s), NEW K \in Entries(s), NEW L \in Entries(s),
             pend' = [pend EXCEPT ![k] = Tail(@)],
             act' = Enter(Enter(act, "recv", K, Head(pend[k]).g, Head(pend[k]).t),
                          "send", L, s.g, clock)
      PROVE  /\ UsersOnly(act', c)
             /\ \A j \in Mine(c) : \A i \in 1..Len(pend'[j]) :
                   pend'[j][i].g \in Users(c, "recv")
  <2>1. k \in Key /\ pend[k] # <<>> /\ pend[k] \in Seq([g : Gor, t : Nat])
    BY SiteFacts DEF WaitingRecv, TypeOK
  <2>2. Head(pend[k]) = pend[k][1] /\ Head(pend[k]) \in [g : Gor, t : Nat] /\ 1 \in 1..Len(pend[k])
    BY <2>1, HeadTail
  <2>3. s.ch = c => Head(pend[k]).g \in Users(c, "recv")
    <3>. SUFFICES ASSUME s.ch = c PROVE Head(pend[k]).g \in Users(c, "recv")
      OBVIOUS
    <3>1. k \in Mine(c)
      BY WaitingPrivate
    <3>. QED  BY <3>1, <2>2 DEF SeenInv
  <2>4. UsersOnly(Enter(act, "recv", K, Head(pend[k]).g, Head(pend[k]).t), c)
    BY <1>0, <2>3, EnterSeen
  <2>5. Enter(act, "recv", K, Head(pend[k]).g, Head(pend[k]).t)
          \in [Dir -> [Key -> SUBSET [g : Gor, t : Nat]]]
    BY <1>0, <2>2, EnterType
  <2>6. UsersOnly(act', c)
    BY <1>0, <1>1, <2>4, <2>5, EnterSeen
  <2>7. ASSUME NEW j \in Mine(c), NEW i \in 1..Len(pend'[j])
        PROVE  pend'[j][i].g \in Users(c, "recv")
    <3>1. CASE j = k
      <4>1. pend'[j] = Tail(pend[k])
        BY <1>1, <2>1, <3>1 DEF TypeOK
      <4>2. i + 1 \in 1..Len(pend[k]) /\ pend'[j][i] = pend[k][i + 1]
        BY <4>1, <2>1, <2>7
      <4>. QED  BY <4>2, <3>1 DEF SeenInv
    <3>2. CASE j # k
      <4>1. pend'[j] = pend[j]
        BY <1>1, <3>2, MineFacts DEF TypeOK
      <4>. QED  BY <4>1, <2>7 DEF SeenInv
    <3>. QED  BY <3>1, <3>2
  <2>. QED  BY <2>6, <2>7
<1>2. ASSUME NEW L \in Entries(s), act' = Enter(act, "send", L, s.g, clock), UNCHANGED pend
      PROVE  /\ UsersOnly(act', c)
             /\ \A j \in Mine(c) : \A i \in 1..Len(pend'[j]) :
                   pend'[j][i].g \in Users(c, "recv")
  <2>1. UsersOnly(act', c)
    BY <1>0, <1>2, EnterSeen
  <2>. QED  BY <2>1, <1>2 DEF SeenInv
<1>. QED  BY <1>1, <1>2 DEF SendSeen

LEMMA RecvSeenStep ==
    ASSUME TypeOK, NameInv, SeenInv, NEW s \in Sites, s.kind = "recv", RecvSeen(s)
    PROVE  SeenInv'
<1>. SUFFICES ASSUME NEW c \in Chan, Private(c)
              PROVE  /\ UsersOnly(act', c)
                     /\ \A k \in Mine(c) : \A i \in 1..Len(pend'[k]) :
                           pend'[k][i].g \in Users(c, "recv")
  BY DEF SeenInv, UsersOnly
<1>0. /\ UsersOnly(act, c) /\ "recv" \in Dir
      /\ act \in [Dir -> [Key -> SUBSET [g : Gor, t : Nat]]]
      /\ s.ch = c => s.g \in Users(c, "recv")
  BY DEF SeenInv, UsersOnly, Dir, TypeOK, Users
<1>1. UsersOnly(act', c)
  <2>1. PICK L \in Entries(s) : act' = Enter(act, "recv", L, s.g, clock)
    BY DEF RecvSeen
  <2>. QED  BY <2>1, <1>0, EnterSeen
<1>2. ASSUME NEW j \in Mine(c), NEW i \in 1..Len(pend'[j])
      PROVE  pend'[j][i].g \in Users(c, "recv")
  <2>1. CASE UNCHANGED pend
    BY <2>1, <1>2 DEF SeenInv
  <2>2. CASE pend' = [pend EXCEPT ![KeyOf(s)] = Append(@, [g |-> s.g, t |-> clock])]
    <3>0. j \in Key /\ KeyOf(s) \in Key /\ pend[j] \in Seq([g : Gor, t : Nat])
      BY MineFacts, SiteFacts DEF TypeOK
    <3>1. CASE j = KeyOf(s)
      <4>1. s.ch = c
        BY <3>1, KeyPrivate
      <4>2. pend'[j] = Append(pend[j], [g |-> s.g, t |-> clock])
        BY <2>2, <3>0, <3>1 DEF TypeOK
      <4>3. CASE i = Len(pend[j]) + 1
        <5>1. pend'[j][i] = [g |-> s.g, t |-> clock]
          BY <4>2, <4>3, <3>0
        <5>. QED  BY <5>1, <4>1, <1>0
      <4>4. CASE i # Len(pend[j]) + 1
        <5>1. i \in 1..Len(pend[j]) /\ pend'[j][i] = pend[j][i]
          BY <4>2, <4>4, <3>0, <1>2
        <5>. QED  BY <5>1 DEF SeenInv
      <4>. QED  BY <4>3, <4>4
    <3>2. CASE j # KeyOf(s)
      <4>1. pend'[j] = pend[j]
        BY <2>2, <3>0, <3>2 DEF TypeOK
      <4>. QED  BY <4>1, <1>2 DEF SeenInv
    <3>. QED  BY <3>1, <3>2
  <2>. QED  BY <2>1, <2>2 DEF RecvSeen
<1>. QED  BY <1>1, <1>2

LEMMA SeenStep ==
    ASSUME TypeOK, NameInv, SeenInv, [Next]_vars
    PROVE  SeenInv'
<1>1. CASE UNCHANGED <<act, pend>>
  BY <1>1 DEF SeenInv
<1>2. ASSUME NEW g \in Gor, End(g) PROVE SeenInv'
  <2>1. cur[g] \in Sites
    BY DEF TypeOK
  <2>2. CASE UNCHANGED parser
    BY <2>2, <1>1 DEF parser
  <2>3. CASE cur[g].kind = "send" /\ SendSeen(cur[g])
    BY <2>1, <2>3, SendSeenStep
  <2>4. CASE cur[g].kind \notin {"send", "close"} /\ RecvSeen(cur[g])
    BY <2>1, <2>4, RecvSeenStep, DeadlockCycleAssumption DEF DeadlockCycleAssumption
  <2>. QED  BY <1>2, <2>2, <2>3, <2>4 DEF End, EndSeen
<1>3. UNCHANGED <<act, pend>> \/ \E g \in Gor : End(g)
  <2>1. CASE Next
    <3>1. ASSUME NEW g \in Gor, Proceeds(g) PROVE UNCHANGED <<act, pend>>
      BY <3>1, ProceedType DEF Proceeds
    <3>2. ASSUME NEW g \in Gor, Wait(g) PROVE UNCHANGED <<act, pend>>
      BY <3>2 DEF Wait, WaitSeen, parser
    <3>3. ASSUME NEW s \in Sites, Begin(s) PROVE UNCHANGED <<act, pend>>
      BY <3>3 DEF Begin, BeginSeen, parser
    <3>4. Tick \/ Audit => UNCHANGED <<act, pend>>
      BY DEF Tick, Audit, parser
    <3>. QED  BY <2>1, Steps, <3>1, <3>2, <3>3, <3>4
  <2>2. CASE UNCHANGED vars
    BY <2>2 DEF vars, parser
  <2>. QED  BY <2>1, <2>2
<1>. QED  BY <1>1, <1>2, <1>3

\* A goroutine with all its operations in regions waits for what its wait is
\* inferred to be for.
LEMMA WaitStep ==
    ASSUME TypeOK, WaitInv, [Next]_vars
    PROVE  WaitInv'
<1>1. CASE UNCHANGED vars
  BY <1>1 DEF WaitInv, RegionOnly, vars, program, parser
<1>2. CASE Next
  <2>1. ASSUME NEW s \in Sites, Begin(s) PROVE WaitInv'
    <3>0. s.g \in Gor
      BY SiteFacts
    <3>1. /\ \A g \in Gor : stage'[g] = IF g = s.g THEN "begun" ELSE stage[g]
          /\ \A g \in Gor : cur'[g] = IF g = s.g THEN s ELSE cur[g]
          /\ stage[s.g] = "idle" /\ UNCHANGED <<audited, warning>>
      BY <2>1, <3>0 DEF Begin, TypeOK
    <3>2. CASE audited
      BY <3>1, <3>2 DEF WaitInv
    <3>3. CASE ~audited
      <4>1. UNCHANGED blocked /\ BeginSeen(s)
        BY <2>1, <3>3 DEF Begin, BeginSeen
      <4>2. \A g \in Gor : g # s.g => last'[g] = last[g]
        BY <4>1, <3>0 DEF BeginSeen, TypeOK
      <4>3. RegionOnly(s.g) /\ s.kind \in Dir => last'[s.g] = {s}
        <5>1. RegionOnly(s.g) /\ s.kind \in Dir => s.region /\ s.kind # "close"
          BY DEF RegionOnly, Dir
        <5>. QED  BY <5>1, <4>1, <3>0 DEF BeginSeen, TypeOK
      <4>4. blocked[s.g] = {}
        BY <3>0, <3>1, <3>3 DEF WaitInv
      <4>. QED  BY <3>1, <3>3, <4>1, <4>2, <4>3, <4>4 DEF WaitInv, RegionOnly
    <3>. QED  BY <3>2, <3>3
  <2>2. ASSUME NEW g \in Gor, Proceeds(g) PROVE WaitInv'
    <3>1. PICK H \in SUBSET Gor : Proceed(g, H)
      BY <2>2 DEF Proceeds
    <3>2. \A h \in Gor : stage'[h] = IF h \in H \union {g} THEN "moved" ELSE stage[h]
      BY <3>1 DEF Proceed
    <3>3. UNCHANGED <<cur, last, audited, warning>>
      BY <3>1, ProceedType
    <3>4. CASE audited
      BY <3>2, <3>3, <3>4 DEF WaitInv
    <3>5. CASE ~audited
      <4>1. \A h \in Gor : blocked'[h] = IF h \in H THEN {} ELSE blocked[h]
        BY <3>1, <3>5 DEF Proceed, WokenSeen
      <4>2. stage[g] # "waiting" /\ blocked[g] = {}
        BY <3>1, <3>5 DEF Proceed, WaitInv
      <4>. QED  BY <3>2, <3>3, <3>5, <4>1, <4>2 DEF WaitInv, RegionOnly
    <3>. QED  BY <3>4, <3>5
  <2>3. ASSUME NEW g \in Gor, Wait(g) PROVE WaitInv'
    <3>1. /\ \A h \in Gor : stage'[h] = IF h = g THEN "waiting" ELSE stage[h]
          /\ cur[g].kind \in Dir /\ stage[g] = "begun"
          /\ UNCHANGED <<cur, audited, warning>>
      BY <2>3 DEF Wait, TypeOK, Dir
    <3>2. CASE audited
      BY <3>1, <3>2 DEF WaitInv
    <3>3. CASE ~audited
      <4>1. /\ \A h \in Gor : blocked'[h] = IF h = g THEN WaitInferred(g) ELSE blocked[h]
            /\ UNCHANGED last
        BY <2>3, <3>3 DEF Wait, WaitSeen, TypeOK
      <4>2. RegionOnly(g) => WaitInferred(g) = {[kind |-> cur[g].kind, key |-> KeyOf(cur[g])]}
        <5>1. RegionOnly(g) => last[g] = {cur[g]}
          BY <3>1, <3>3 DEF WaitInv
        <5>. QED  BY <5>1 DEF WaitInferred
      <4>. QED  BY <3>1, <3>3, <4>1, <4>2 DEF WaitInv, RegionOnly
    <3>. QED  BY <3>2, <3>3
  <2>4. ASSUME NEW g \in Gor, End(g) PROVE WaitInv'
    <3>1. /\ \A h \in Gor : stage'[h] = IF h = g THEN "idle" ELSE stage[h]
          /\ stage[g] = "moved" /\ UNCHANGED <<cur, audited, warning>>
      BY <2>4 DEF End, TypeOK
    <3>2. UNCHANGED <<blocked, last>>
      BY <2>4 DEF End, EndSeen, SendSeen, RecvSeen, parser
    <3>. QED  BY <3>1, <3>2 DEF WaitInv, RegionOnly
  <2>5. CASE Tick
    BY <2>5 DEF Tick, WaitInv, RegionOnly, program, parser
  <2>6. CASE Audit
    BY <2>6 DEF Audit, WaitInv, program, parser
  <2>. QED  BY <1>2, Steps, <2>1, <2>2, <2>3, <2>4, <2>5, <2>6
<1>. QED  BY <1>1, <1>2

\* What an edge that can be trusted says: the goroutine waits, and only the one
\* the edge leads to could end its wait.
LEMMA EdgeTrue ==
    ASSUME IInv, ~audited, NEW g \in Gor, NEW h \in Gor, Edge(g, h), Certain(g)
    PROVE  /\ stage[g] = "waiting"
           /\ Ends(cur[g].ch, cur[g].kind) \subseteq {h}
<1>1. PICK w \in blocked[g] : \E r \in Candidates(w) : r.g = h
  BY DEF Edge
<1>2. PICK r \in Candidates(w) : r.g = h
  BY <1>1
<1>3. /\ stage[g] = "waiting"
      /\ w = [kind |-> cur[g].kind, key |-> KeyOf(cur[g])]
  BY <1>1 DEF IInv, WaitInv, Certain, RegionOnly
<1>4. cur[g] \in Sites /\ cur[g].kind \in Dir
  BY <1>3 DEF IInv, TypeOK, WaitInv
<1>5. PICK c \in Chan : /\ w.key \in Mine(c) /\ Private(c)
                       /\ \A m, n \in Ends(c, w.kind) : m = n
  BY <1>1 DEF Certain, Mine
<1>6. cur[g].ch = c
  BY <1>3, <1>4, <1>5, KeyPrivate
<1>7. r.g \in Users(c, Other(w.kind))
  <2>0. Other(w.kind) \in Dir
    BY DEF Other, Dir
  <2>1. CASE r \in act[Other(w.kind)][w.key]
    BY <2>0, <2>1, <1>5 DEF IInv, SeenInv
  <2>2. CASE /\ w.key \in Chan /\ nameOf[w.key] \in Name
             /\ r \in act[Other(w.kind)][nameOf[w.key]]
    <3>1. w.key = c
      BY <2>2, <1>5, MineFacts
    <3>2. nameOf[c] \in Mine(c)
      BY <3>1, <2>2, SeenName DEF IInv, Mine
    <3>. QED  BY <2>0, <2>2, <3>1, <3>2, <1>5 DEF IInv, SeenInv
  <2>. QED  BY <1>2, <2>1, <2>2 DEF Candidates
<1>8. h \in Ends(c, w.kind)
  BY <1>2, <1>7 DEF Users, Ends
<1>. QED  BY <1>3, <1>5, <1>6, <1>8

\* A member of a cycle that can be trusted goes on waiting: whoever could end
\* its wait waits itself.
LEMMA WarnStep ==
    ASSUME IInv, [Next]_vars
    PROVE  WarnInv'
<1>0. TypeOK /\ WaitInv /\ WarnInv
  BY DEF IInv
<1>1. CASE UNCHANGED <<warning, blocked, cur, stage>>
  BY <1>0, <1>1 DEF WarnInv, Certain, After
<1>2. CASE ~audited /\ warning' = <<>>
  BY <1>2 DEF WarnInv
<1>3. CASE Audit /\ warning' \in Cycles
  <2>0. ~audited /\ UNCHANGED <<blocked, cur, stage>>
    BY <1>3 DEF Audit, program, parser
  <2>1. warning' \in Seq(Gor) /\ \A j \in DOMAIN warning' : Edge(warning'[j], warning'[After(warning', j)])
    BY <1>3, CycleFacts
  <2>2. ASSUME \A i \in DOMAIN warning' : Certain(warning'[i]), NEW j \in DOMAIN warning'
        PROVE  /\ stage[warning'[j]] = "waiting"
               /\ Ends(cur[warning'[j]].ch, cur[warning'[j]].kind)
                    \subseteq {warning'[After(warning', j)]}
    <3>1. warning'[j] \in Gor /\ warning'[After(warning', j)] \in Gor
      BY <2>1, <2>2 DEF After
    <3>. QED  BY <2>0, <2>1, <2>2, <3>1, EdgeTrue
  <2>. QED  BY <2>0, <2>2 DEF WarnInv, Certain, After
<1>4. CASE audited /\ UNCHANGED <<warning, blocked>> /\ Next
  <2>. SUFFICES ASSUME \A i \in DOMAIN warning : Certain(warning[i]), NEW j \in DOMAIN warning
                PROVE  /\ stage'[warning[j]] = "waiting" /\ cur'[warning[j]] = cur[warning[j]]
    BY <1>0, <1>4 DEF WarnInv, Certain, After
  <2>0. /\ warning[j] \in Gor /\ stage[warning[j]] = "waiting"
        /\ warning[After(warning, j)] \in Gor /\ stage[warning[After(warning, j)]] = "waiting"
        /\ Ends(cur[warning[j]].ch, cur[warning[j]].kind) \subseteq {warning[After(warning, j)]}
    <3>1. warning \in Seq(Gor) /\ After(warning, j) \in DOMAIN warning
      BY <1>0 DEF TypeOK, After
    <3>2. \A i \in DOMAIN warning :
             /\ stage[warning[i]] = "waiting"
             /\ Ends(cur[warning[i]].ch, cur[warning[i]].kind)
                  \subseteq {warning[After(warning, i)]}
      BY <1>0 DEF WarnInv
    <3>3. warning[j] \in Gor /\ warning[After(warning, j)] \in Gor
      BY <3>1
    <3>. QED  BY <3>1, <3>2, <3>3
  <2>1. ASSUME NEW s \in Sites, Begin(s)
        PROVE  stage'[warning[j]] = "waiting" /\ cur'[warning[j]] = cur[warning[j]]
    BY <1>0, <2>0, <2>1 DEF Begin, TypeOK
  <2>2. ASSUME NEW g \in Gor, Proceeds(g)
        PROVE  stage'[warning[j]] = "waiting" /\ cur'[warning[j]] = cur[warning[j]]
    <3>1. PICK H \in SUBSET Gor :
             /\ Proceed(g, H)
             /\ \A h \in H : /\ stage[h] = "waiting" /\ cur[h].ch = cur[g].ch
                             /\ \/ cur[g].kind = Other(cur[h].kind)
                                \/ cur[h].kind = "recv" /\ cur[g].kind = "close"
      BY <2>2 DEF Proceeds
    <3>2. /\ stage[g] = "begun"
          /\ \A h \in Gor : stage'[h] = IF h \in H \union {g} THEN "moved" ELSE stage[h]
          /\ UNCHANGED cur
      BY <3>1 DEF Proceed
    <3>3. warning[j] \notin H
      <4>. SUFFICES ASSUME warning[j] \in H PROVE FALSE
        OBVIOUS
      <4>1. cur[g] \in Sites /\ cur[g].g = g
        BY <1>0 DEF TypeOK
      <4>2. g \in Ends(cur[warning[j]].ch, cur[warning[j]].kind)
        BY <3>1, <4>1 DEF Ends
      <4>3. g = warning[After(warning, j)]
        BY <4>2, <2>0
      <4>. QED  BY <4>3, <2>0, <3>2
    <3>. QED  BY <3>2, <3>3, <2>0
  <2>3. ASSUME NEW g \in Gor, Wait(g) \/ End(g)
        PROVE  stage'[warning[j]] = "waiting" /\ cur'[warning[j]] = cur[warning[j]]
    BY <1>0, <2>0, <2>3 DEF Wait, End, TypeOK
  <2>4. CASE Tick \/ Audit
    BY <1>4, <2>4 DEF Tick, Audit
  <2>. QED  BY <1>0, <1>4, Steps, <2>1, <2>2, <2>3, <2>4
<1>5. CASE UNCHANGED vars
  BY <1>1, <1>5 DEF vars, program, parser
<1>6. CASE Next /\ ~(Audit /\ warning' \in Cycles)
  <2>1. UNCHANGED warning \/ (warning' = <<>> /\ ~audited)
    <3>1. ASSUME NEW g \in Gor, Proceeds(g) PROVE UNCHANGED warning
      BY <1>0, <3>1, ProceedType DEF Proceeds
    <3>2. Audit => warning' = <<>> /\ ~audited
      BY <1>6 DEF Audit
    <3>3. ASSUME NEW s \in Sites, Begin(s) PROVE UNCHANGED warning
      BY <3>3 DEF Begin
    <3>4. ASSUME NEW g \in Gor, Wait(g) \/ End(g) PROVE UNCHANGED warning
      BY <3>4 DEF Wait, End
    <3>5. Tick => UNCHANGED warning
      BY DEF Tick
    <3>6. CASE Audit
      BY <3>2, <3>6
    <3>7. CASE ~Audit
      <4>1. UNCHANGED warning
        BY <1>0, <1>6, <3>7, Steps, <3>1, <3>3, <3>4, <3>5
      <4>. QED  BY <4>1
    <3>. QED  BY <3>6, <3>7
  <2>2. CASE ~audited
    BY <1>0, <1>2, <2>1, <2>2 DEF WaitInv
  <2>3. CASE audited
    <3>1. ASSUME NEW g \in Gor, Proceeds(g) PROVE UNCHANGED blocked
      BY <2>3, <3>1 DEF Proceeds, Proceed, parser
    <3>2. UNCHANGED blocked
      BY <1>0, <1>6, <2>3, Steps, <3>1 DEF Begin, Wait, End, Tick, Audit, parser
    <3>. QED  BY <1>4, <1>6, <2>1, <2>3, <3>2
  <2>. QED  BY <2>2, <2>3
<1>. QED  BY <1>3, <1>5, <1>6

\* Every step keeps the invariant.
LEMMA IInvStep ==
    ASSUME IInv, [Next]_vars
    PROVE  IInv'
<1>1. TypeOK /\ NameInv /\ SeenInv /\ WaitInv
  BY DEF IInv
<1>. QED  BY <1>1, TypeStep, NameStep, SeenStep, WaitStep, WarnStep DEF IInv

-----------------------------------------------------------------------------
(* The theorems.                                                           *)

\* The inductive invariant: what the parser takes for blocked waits for what it
\* is taken to wait for, who is recorded at an end of a channel uses that end,
\* and the members of a trusted cycle wait for each other (recordChannelActivity,
\* the blocked map, deadlockCycleEvent).
THEOREM Invariance == Spec => []IInv
<1>1. IInv /\ [Next]_vars => IInv'
  BY IInvStep
<1>. QED  BY InitIInv, <1>1, PTL DEF Spec

\* Every variable of program, parser and audit keeps its type.
THEOREM TypeCorrect == Spec => []TypeOK
<1>1. IInv => TypeOK
  BY DEF IInv
<1>. QED  BY Invariance, <1>1, PTL

\* A deadlock warning that can be trusted at every edge is true and stays true,
\* for every program, window and length of the cycle (deadlockCycleEvent).
THEOREM WarningsAreTrue == Spec => []CycleIsDeadlock
<1>1. IInv => CycleIsDeadlock
  BY DEF IInv, WarnInv, CycleIsDeadlock
<1>. QED  BY Invariance, <1>1, PTL

-----------------------------------------------------------------------------
(* A deadlock is reported.                                                 *)

\* Until the trace ends, a goroutine that is in an operation with a region has
\* that region as its last, its channel has a name if the region had a pointer,
\* and when it waits it is taken to wait for the channel of the region.
RegionInv ==
    ~audited => \A g \in Gor : cur[g].region /\ cur[g].kind \in Dir =>
       /\ stage[g] \in {"begun", "waiting"} => last[g] = {cur[g]}
       /\ stage[g] # "idle" /\ cur[g].ptr # NoPtr => nameOf[cur[g].ch] # Unnamed
       /\ stage[g] = "waiting" =>
             blocked[g] = {[kind |-> cur[g].kind, key |-> KeyOf(cur[g])]}

\* Who is recorded at an end of a channel that shares no label has ended an
\* operation at that end, and is recorded no earlier than that.
Ended(f, c, d, r) ==
    \E t \in Sites : /\ t.g = r.g /\ t.ch = c /\ t.kind = d
                     /\ f[t] > 0 /\ f[t] <= r.t

OnlyEnded(a, f, c) ==
    \A k \in Mine(c) : \A d \in Dir : \A r \in a[d][k] : Ended(f, c, d, r)

PendEnded(q, f, c) ==
    \A k \in Mine(c) : \A i \in 1..Len(q[k]) : Ended(f, c, "recv", q[k][i])

TimeInv ==
    /\ clock > 0 /\ \A t \in Sites : firstEnd[t] <= clock
    /\ \A c \in Chan : Private(c) =>
          OnlyEnded(act, firstEnd, c) /\ PendEnded(pend, firstEnd, c)

\* Once an operation at an end of a channel has ended, somebody is recorded
\* there: under the pointer if every site has it, and under the label if there
\* is one only.
OnePtr(c) == \A t \in Sites : t.ch = c => t.ptr # NoPtr

OneName(c, n) == \A t \in Sites : t.ch = c => t.name = n

FoundInv ==
    \A t \in Sites : t.kind \in Dir /\ firstEnd[t] > 0 =>
       /\ OnePtr(t.ch) => act[t.kind][t.ch] # {}
       /\ \A n \in Name : OneName(t.ch, n) => act[t.kind][n] # {}

ReportInv == IInv /\ RegionInv /\ TimeInv /\ FoundInv

\* Initially nothing has ended and nothing is recorded.
LEMMA InitReport == Init => RegionInv /\ TimeInv /\ FoundInv
<1>. SUFFICES ASSUME Init PROVE RegionInv /\ TimeInv /\ FoundInv
  OBVIOUS
<1>1. RegionInv
  BY DEF Init, RegionInv
<1>2. TimeInv
  <2>1. clock > 0 /\ \A t \in Sites : firstEnd[t] <= clock
    BY DEF Init
  <2>2. ASSUME NEW c \in Chan, NEW k \in Mine(c)
        PROVE  (\A d \in Dir : act[d][k] = {}) /\ pend[k] = <<>>
    <3>1. k \in Key
      BY MineFacts
    <3>. QED  BY <3>1 DEF Init
  <2>3. ASSUME NEW c \in Chan, NEW k \in Mine(c)
        PROVE  1..Len(pend[k]) = {}
    <3>1. pend[k] = <<>>
      BY <2>2, <2>3
    <3>2. 1..Len(<<>>) = {}
      OBVIOUS
    <3>. QED  BY <3>1, <3>2
  <2>. QED  BY <2>1, <2>2, <2>3 DEF TimeInv, OnlyEnded, PendEnded
<1>3. FoundInv
  BY DEF Init, FoundInv
<1>. QED  BY <1>1, <1>2, <1>3

\* What the program does to the region that a goroutine is in.
LEMMA RegionStep ==
    ASSUME IInv, RegionInv, [Next]_vars
    PROVE  RegionInv'
<1>0. TypeOK /\ WaitInv
  BY DEF IInv
<1>1. CASE UNCHANGED vars
  BY <1>1 DEF RegionInv, vars, program, parser
<1>2. CASE Next
  <2>1. ASSUME NEW s \in Sites, Begin(s) PROVE RegionInv'
    <3>. SUFFICES ASSUME ~audited', NEW g \in Gor, cur'[g].region, cur'[g].kind \in Dir
                  PROVE  /\ stage'[g] \in {"begun", "waiting"} => last'[g] = {cur'[g]}
                         /\ stage'[g] # "idle" /\ cur'[g].ptr # NoPtr => nameOf'[cur'[g].ch] # Unnamed
                         /\ stage'[g] = "waiting" =>
                              blocked'[g] = {[kind |-> cur'[g].kind, key |-> KeyOf(cur'[g])]}
      BY DEF RegionInv, KeyOf
    <3>0. s.g \in Gor /\ s.ch \in Chan /\ s.name # Unnamed /\ (s.ptr # NoPtr => s.ptr = s.ch)
      BY SiteFacts, DeadlockCycleAssumption DEF DeadlockCycleAssumption, Key
    <3>1. /\ ~audited /\ BeginSeen(s) /\ UNCHANGED blocked
          /\ stage'[g] = IF g = s.g THEN "begun" ELSE stage[g]
          /\ cur'[g] = IF g = s.g THEN s ELSE cur[g]
      BY <1>0, <2>1, <3>0 DEF Begin, TypeOK, BeginSeen
    <3>2. CASE g = s.g
      <4>1. s.region /\ s.kind # "close"
        BY <3>1, <3>2 DEF Dir
      <4>2. /\ last' = [last EXCEPT ![s.g] = {s}]
            /\ nameOf' = IF s.ptr # NoPtr THEN [nameOf EXCEPT ![s.ptr] = s.name] ELSE nameOf
        BY <3>1, <4>1 DEF BeginSeen
      <4>3. last'[g] = {s} /\ (s.ptr # NoPtr => nameOf'[s.ch] = s.name)
        BY <1>0, <3>0, <3>2, <4>2 DEF TypeOK
      <4>. QED  BY <3>0, <3>1, <3>2, <4>3
    <3>3. CASE g # s.g
      <4>1. last'[g] = last[g] /\ cur'[g] = cur[g] /\ stage'[g] = stage[g]
        BY <1>0, <3>0, <3>1, <3>3 DEF BeginSeen, TypeOK
      <4>2. cur[g] \in Sites /\ cur[g].ch \in Chan
        BY <1>0, SiteFacts DEF TypeOK
      <4>3. nameOf'[cur[g].ch] = nameOf[cur[g].ch] \/ nameOf'[cur[g].ch] = s.name
        BY <1>0, <3>0, <3>1, <4>2 DEF BeginSeen, TypeOK
      <4>. QED  BY <3>0, <3>1, <4>1, <4>3 DEF RegionInv
    <3>. QED  BY <3>2, <3>3
  <2>2. ASSUME NEW g \in Gor, Proceeds(g) PROVE RegionInv'
    <3>1. PICK H \in SUBSET Gor :
             /\ Proceed(g, H)
             /\ \A h \in H : /\ stage[h] = "waiting" /\ cur[h].ch = cur[g].ch
                             /\ \/ cur[g].kind = Other(cur[h].kind)
                                \/ cur[h].kind = "recv" /\ cur[g].kind = "close"
      BY <2>2 DEF Proceeds
    <3>2. /\ \A h \in Gor : stage'[h] = IF h \in H \union {g} THEN "moved" ELSE stage[h]
          /\ stage[g] = "begun" /\ \A h \in H : stage[h] = "waiting"
      BY <3>1 DEF Proceed
    <3>3. UNCHANGED <<cur, last, nameOf, audited>>
      BY <1>0, <3>1, ProceedType
    <3>4. ~audited => \A h \in Gor : blocked'[h] = IF h \in H THEN {} ELSE blocked[h]
      BY <3>1 DEF Proceed, WokenSeen
    <3>5. \A h \in Gor \ H : stage[h] = "idle" => stage'[h] = "idle"
      BY <3>2
    <3>. SUFFICES ASSUME ~audited, NEW h \in Gor, cur[h].region, cur[h].kind \in Dir
                  PROVE  /\ stage'[h] \in {"begun", "waiting"} => last[h] = {cur[h]}
                         /\ stage'[h] # "idle" /\ cur[h].ptr # NoPtr => nameOf[cur[h].ch] # Unnamed
                         /\ stage'[h] = "waiting" =>
                              blocked'[h] = {[kind |-> cur[h].kind, key |-> KeyOf(cur[h])]}
      BY <3>3 DEF RegionInv, KeyOf
    <3>6. CASE h \in H \union {g}
      <4>1. stage[h] # "idle"
        BY <3>2, <3>6
      <4>. QED  BY <3>2, <3>6, <4>1 DEF RegionInv
    <3>7. CASE h \notin H \union {g}
      BY <3>2, <3>4, <3>7 DEF RegionInv
    <3>. QED  BY <3>6, <3>7
  <2>3. ASSUME NEW g \in Gor, Wait(g) PROVE RegionInv'
    <3>1. /\ \A h \in Gor : stage'[h] = IF h = g THEN "waiting" ELSE stage[h]
          /\ stage[g] = "begun" /\ UNCHANGED <<cur, audited>>
      BY <1>0, <2>3 DEF Wait, TypeOK
    <3>. SUFFICES ASSUME ~audited, NEW h \in Gor, cur[h].region, cur[h].kind \in Dir
                  PROVE  /\ stage'[h] \in {"begun", "waiting"} => last'[h] = {cur[h]}
                         /\ stage'[h] # "idle" /\ cur[h].ptr # NoPtr => nameOf'[cur[h].ch] # Unnamed
                         /\ stage'[h] = "waiting" =>
                              blocked'[h] = {[kind |-> cur[h].kind, key |-> KeyOf(cur[h])]}
      BY <3>1 DEF RegionInv, KeyOf
    <3>2. /\ \A j \in Gor : blocked'[j] = IF j = g THEN WaitInferred(g) ELSE blocked[j]
          /\ UNCHANGED <<last, nameOf>>
      BY <1>0, <2>3 DEF Wait, WaitSeen, TypeOK
    <3>3. CASE h = g
      <4>1. last[g] = {cur[g]}
        BY <3>1, <3>3 DEF RegionInv
      <4>2. WaitInferred(g) = {[kind |-> cur[g].kind, key |-> KeyOf(cur[g])]}
        BY <4>1 DEF WaitInferred
      <4>. QED  BY <3>1, <3>2, <3>3, <4>1, <4>2 DEF RegionInv
    <3>4. CASE h # g
      BY <3>1, <3>2, <3>4 DEF RegionInv
    <3>. QED  BY <3>3, <3>4
  <2>4. ASSUME NEW g \in Gor, End(g) PROVE RegionInv'
    <3>1. /\ \A h \in Gor : stage'[h] = IF h = g THEN "idle" ELSE stage[h]
          /\ UNCHANGED <<cur, audited>>
      BY <1>0, <2>4 DEF End, TypeOK
    <3>2. UNCHANGED <<blocked, last, nameOf>>
      BY <2>4 DEF End, EndSeen, SendSeen, RecvSeen, parser
    <3>. QED  BY <3>1, <3>2 DEF RegionInv, KeyOf
  <2>5. CASE Tick
    BY <2>5 DEF Tick, RegionInv, program, parser
  <2>6. CASE Audit
    BY <2>6 DEF Audit, RegionInv
  <2>. QED  BY <1>0, <1>2, Steps, <2>1, <2>2, <2>3, <2>4, <2>5, <2>6
<1>. QED  BY <1>1, <1>2

\* An end once seen stays seen, and is noted at the first one of its site.
LEMMA EndedLater ==
    ASSUME NEW f, NEW h, \A t \in Sites : f[t] > 0 => h[t] = f[t],
           NEW c, NEW d, NEW r, Ended(f, c, d, r)
    PROVE  Ended(h, c, d, r)
  BY DEF Ended

LEMMA OnlyEndedLater ==
    ASSUME NEW f, NEW h, \A t \in Sites : f[t] > 0 => h[t] = f[t],
           NEW c
    PROVE  /\ OnlyEnded(act, f, c) => OnlyEnded(act, h, c)
           /\ PendEnded(pend, f, c) => PendEnded(pend, h, c)
  BY EndedLater DEF OnlyEnded, PendEnded

LEMMA FirstEnd ==
    ASSUME TypeOK, TimeInv, NEW s \in Sites,
           firstEnd' = [firstEnd EXCEPT ![s] = IF @ = 0 THEN clock ELSE @]
    PROVE  /\ \A t \in Sites : firstEnd[t] > 0 => firstEnd'[t] = firstEnd[t]
           /\ \A t \in Sites : firstEnd'[t] <= clock
           /\ \A t \in Sites : t # s => firstEnd'[t] = firstEnd[t]
           /\ firstEnd'[s] > 0
           /\ Ended(firstEnd', s.ch, s.kind, [g |-> s.g, t |-> clock])
<1>1. firstEnd \in [Sites -> Nat] /\ clock \in Nat /\ clock > 0 /\ \A t \in Sites : firstEnd[t] <= clock
  BY DEF TypeOK, TimeInv
<1>2. \A t \in Sites : firstEnd'[t] = IF t = s /\ firstEnd[t] = 0 THEN clock ELSE firstEnd[t]
  BY <1>1
<1>3. \A t \in Sites : firstEnd[t] > 0 => firstEnd'[t] = firstEnd[t]
  BY <1>1, <1>2
<1>4. \A t \in Sites : firstEnd'[t] <= clock
  BY <1>1, <1>2
<1>5. firstEnd'[s] > 0
  BY <1>1, <1>2
<1>6. Ended(firstEnd', s.ch, s.kind, [g |-> s.g, t |-> clock])
  BY <1>4, <1>5 DEF Ended
<1>. QED  BY <1>2, <1>3, <1>4, <1>5, <1>6

\* An entry of one who has ended leaves a channel that shares no label with such
\* ones only.
LEMMA EnterEnded ==
    ASSUME TypeOK, NameInv,
           NEW a \in [Dir -> [Key -> SUBSET [g : Gor, t : Nat]]], NEW kind \in Dir,
           NEW s \in Sites, NEW K \in Entries(s), NEW g, NEW t, NEW f,
           NEW c \in Chan, Private(c), OnlyEnded(a, f, c),
           s.ch = c => Ended(f, c, kind, [g |-> g, t |-> t])
    PROVE  OnlyEnded(Enter(a, kind, K, g, t), f, c)
<1>. SUFFICES ASSUME NEW k \in Mine(c), NEW d \in Dir,
                     NEW r \in Enter(a, kind, K, g, t)[d][k]
              PROVE  Ended(f, c, d, r)
  BY DEF OnlyEnded
<1>0. k \in Key
  BY MineFacts
<1>1. CASE d = kind /\ k \in K
  <2>1. r = [g |-> g, t |-> t]
    BY <1>0, <1>1 DEF Enter
  <2>2. s.ch = c
    BY <1>1, EntriesPrivate
  <2>. QED  BY <1>1, <2>1, <2>2
<1>2. CASE ~(d = kind /\ k \in K)
  <2>1. r \in a[d][k]
    BY <1>0, <1>2 DEF Enter
  <2>. QED  BY <2>1 DEF OnlyEnded
<1>. QED  BY <1>1, <1>2

\* What an ended operation makes the parser record has ended.
LEMMA SendEnded ==
    ASSUME TypeOK, NameInv, NEW s \in Sites, SendSeen(s), NEW f,
           s.kind = "send", Ended(f, s.ch, "send", [g |-> s.g, t |-> clock]),
           NEW c \in Chan, Private(c), OnlyEnded(act, f, c), PendEnded(pend, f, c)
    PROVE  OnlyEnded(act', f, c) /\ PendEnded(pend', f, c)
<1>0. /\ "send" \in Dir /\ "recv" \in Dir
      /\ act \in [Dir -> [Key -> SUBSET [g : Gor, t : Nat]]] /\ clock \in Nat /\ s.g \in Gor
  BY SiteFacts DEF Dir, TypeOK
<1>1. ASSUME NEW k \in WaitingRecv(s), NEW K \in Entries(s), NEW L \in Entries(s),
             pend' = [pend EXCEPT ![k] = Tail(@)],
             act' = Enter(Enter(act, "recv", K, Head(pend[k]).g, Head(pend[k]).t),
                          "send", L, s.g, clock)
      PROVE  OnlyEnded(act', f, c) /\ PendEnded(pend', f, c)
  <2>1. k \in Key /\ pend[k] # <<>> /\ pend[k] \in Seq([g : Gor, t : Nat])
    BY SiteFacts DEF WaitingRecv, TypeOK
  <2>2. Head(pend[k]) = pend[k][1] /\ Head(pend[k]) \in [g : Gor, t : Nat] /\ 1 \in 1..Len(pend[k])
    BY <2>1, HeadTail
  <2>3. s.ch = c => Ended(f, c, "recv", [g |-> Head(pend[k]).g, t |-> Head(pend[k]).t])
    <3>. SUFFICES ASSUME s.ch = c
                  PROVE  Ended(f, c, "recv", [g |-> Head(pend[k]).g, t |-> Head(pend[k]).t])
      OBVIOUS
    <3>1. k \in Mine(c)
      BY WaitingPrivate
    <3>2. Ended(f, c, "recv", pend[k][1])
      BY <3>1, <2>2 DEF PendEnded
    <3>3. Head(pend[k]) = [g |-> Head(pend[k]).g, t |-> Head(pend[k]).t]
      BY <2>2
    <3>. QED  BY <3>2, <3>3, <2>2
  <2>4. OnlyEnded(Enter(act, "recv", K, Head(pend[k]).g, Head(pend[k]).t), f, c)
    BY <1>0, <2>3, EnterEnded
  <2>5. Enter(act, "recv", K, Head(pend[k]).g, Head(pend[k]).t)
          \in [Dir -> [Key -> SUBSET [g : Gor, t : Nat]]]
    BY <1>0, <2>2, EnterType
  <2>6. OnlyEnded(act', f, c)
    BY <1>0, <1>1, <2>4, <2>5, EnterEnded
  <2>7. ASSUME NEW j \in Mine(c), NEW i \in 1..Len(pend'[j])
        PROVE  Ended(f, c, "recv", pend'[j][i])
    <3>1. CASE j = k
      <4>1. pend'[j] = Tail(pend[k])
        BY <1>1, <2>1, <3>1 DEF TypeOK
      <4>2. i + 1 \in 1..Len(pend[k]) /\ pend'[j][i] = pend[k][i + 1]
        BY <4>1, <2>1, <2>7
      <4>3. Ended(f, c, "recv", pend[k][i + 1])
        BY <4>2, <3>1 DEF PendEnded
      <4>. QED  BY <4>2, <4>3
    <3>2. CASE j # k
      <4>1. pend'[j] = pend[j]
        BY <1>1, <3>2, MineFacts DEF TypeOK
      <4>. QED  BY <4>1, <2>7 DEF PendEnded
    <3>. QED  BY <3>1, <3>2
  <2>. QED  BY <2>6, <2>7 DEF PendEnded
<1>2. ASSUME NEW L \in Entries(s), act' = Enter(act, "send", L, s.g, clock), UNCHANGED pend
      PROVE  OnlyEnded(act', f, c) /\ PendEnded(pend', f, c)
  <2>1. OnlyEnded(act', f, c)
    BY <1>0, <1>2, EnterEnded
  <2>. QED  BY <2>1, <1>2 DEF PendEnded
<1>. QED  BY <1>1, <1>2 DEF SendSeen

LEMMA RecvEnded ==
    ASSUME TypeOK, NameInv, NEW s \in Sites, RecvSeen(s), NEW f,
           s.kind = "recv", Ended(f, s.ch, "recv", [g |-> s.g, t |-> clock]),
           NEW c \in Chan, Private(c), OnlyEnded(act, f, c), PendEnded(pend, f, c)
    PROVE  OnlyEnded(act', f, c) /\ PendEnded(pend', f, c)
<1>0. /\ "recv" \in Dir
      /\ act \in [Dir -> [Key -> SUBSET [g : Gor, t : Nat]]]
  BY DEF Dir, TypeOK
<1>1. OnlyEnded(act', f, c)
  <2>1. PICK L \in Entries(s) : act' = Enter(act, "recv", L, s.g, clock)
    BY DEF RecvSeen
  <2>. QED  BY <2>1, <1>0, EnterEnded
<1>2. ASSUME NEW j \in Mine(c), NEW i \in 1..Len(pend'[j])
      PROVE  Ended(f, c, "recv", pend'[j][i])
  <2>1. CASE UNCHANGED pend
    BY <2>1, <1>2 DEF PendEnded
  <2>2. CASE pend' = [pend EXCEPT ![KeyOf(s)] = Append(@, [g |-> s.g, t |-> clock])]
    <3>0. j \in Key /\ KeyOf(s) \in Key /\ pend[j] \in Seq([g : Gor, t : Nat])
      BY MineFacts, SiteFacts DEF TypeOK
    <3>1. CASE j = KeyOf(s)
      <4>1. s.ch = c
        BY <3>1, KeyPrivate
      <4>2. pend'[j] = Append(pend[j], [g |-> s.g, t |-> clock])
        BY <2>2, <3>0, <3>1 DEF TypeOK
      <4>3. CASE i = Len(pend[j]) + 1
        <5>1. pend'[j][i] = [g |-> s.g, t |-> clock]
          BY <4>2, <4>3, <3>0
        <5>. QED  BY <5>1, <4>1
      <4>4. CASE i # Len(pend[j]) + 1
        <5>1. i \in 1..Len(pend[j]) /\ pend'[j][i] = pend[j][i]
          BY <4>2, <4>4, <3>0, <1>2
        <5>. QED  BY <5>1 DEF PendEnded
      <4>. QED  BY <4>3, <4>4
    <3>2. CASE j # KeyOf(s)
      <4>1. pend'[j] = pend[j]
        BY <2>2, <3>0, <3>2 DEF TypeOK
      <4>. QED  BY <4>1, <1>2 DEF PendEnded
    <3>. QED  BY <3>1, <3>2
  <2>. QED  BY <2>1, <2>2 DEF RecvSeen
<1>. QED  BY <1>1, <1>2 DEF PendEnded

\* A step leaves what has ended, or ends an operation in a region.
LEMMA EndOrNot ==
    ASSUME TypeOK, [Next]_vars
    PROVE  \/ UNCHANGED <<act, pend, firstEnd, clock>>
           \/ UNCHANGED <<act, pend, firstEnd>> /\ clock' = clock + 1
           \/ \E s \in Sites :
                 /\ ~audited /\ s.region /\ \E g \in Gor : cur[g] = s /\ stage[g] = "moved"
                 /\ \/ s.kind = "send" /\ SendSeen(s)
                    \/ s.kind = "recv" /\ RecvSeen(s)
                 /\ firstEnd' = [firstEnd EXCEPT ![s] = IF @ = 0 THEN clock ELSE @]
                 /\ UNCHANGED clock
<1>1. CASE UNCHANGED vars
  BY <1>1 DEF vars, parser
<1>2. CASE Next
  <2>1. ASSUME NEW g \in Gor, Proceeds(g) PROVE UNCHANGED <<act, pend, firstEnd, clock>>
    BY <2>1, ProceedType DEF Proceeds
  <2>2. ASSUME NEW g \in Gor, Wait(g) PROVE UNCHANGED <<act, pend, firstEnd, clock>>
    BY <2>2 DEF Wait, WaitSeen, parser
  <2>3. ASSUME NEW s \in Sites, Begin(s) PROVE UNCHANGED <<act, pend, firstEnd, clock>>
    BY <2>3 DEF Begin, BeginSeen, parser
  <2>4. Tick => UNCHANGED <<act, pend, firstEnd>> /\ clock' = clock + 1
    BY DEF Tick, parser
  <2>5. Audit => UNCHANGED <<act, pend, firstEnd, clock>>
    BY DEF Audit, parser
  <2>6. ASSUME NEW g \in Gor, End(g)
        PROVE  \/ UNCHANGED <<act, pend, firstEnd, clock>>
               \/ \E s \in Sites :
                     /\ ~audited /\ s.region /\ \E h \in Gor : cur[h] = s /\ stage[h] = "moved"
                     /\ \/ s.kind = "send" /\ SendSeen(s)
                        \/ s.kind = "recv" /\ RecvSeen(s)
                     /\ firstEnd' = [firstEnd EXCEPT ![s] = IF @ = 0 THEN clock ELSE @]
                     /\ UNCHANGED clock
    <3>1. cur[g] \in Sites /\ UNCHANGED clock /\ stage[g] = "moved"
      BY <2>6 DEF End, TypeOK
    <3>2. CASE UNCHANGED <<parser, firstEnd>>
      BY <3>1, <3>2 DEF parser
    <3>3. CASE /\ ~audited /\ cur[g].region /\ cur[g].kind # "close"
               /\ IF cur[g].kind = "send" THEN SendSeen(cur[g]) ELSE RecvSeen(cur[g])
               /\ firstEnd' = [firstEnd EXCEPT ![cur[g]] = IF @ = 0 THEN clock ELSE @]
      BY <3>1, <3>3, DeadlockCycleAssumption DEF DeadlockCycleAssumption
    <3>. QED  BY <2>6, <3>2, <3>3 DEF End, EndSeen
  <2>. QED  BY <1>2, Steps, <2>1, <2>2, <2>3, <2>4, <2>5, <2>6
<1>. QED  BY <1>1, <1>2

\* Who is recorded has ended an operation by then, and a receive that a send
\* records again keeps its time.
LEMMA TimeStep ==
    ASSUME IInv, TimeInv, [Next]_vars
    PROVE  TimeInv'
<1>0. TypeOK /\ NameInv
  BY DEF IInv
<1>1. CASE UNCHANGED <<act, pend, firstEnd, clock>>
  BY <1>1 DEF TimeInv
<1>2. CASE UNCHANGED <<act, pend, firstEnd>> /\ clock' = clock + 1
  <2>1. firstEnd \in [Sites -> Nat] /\ clock \in Nat
    BY <1>0 DEF TypeOK
  <2>2. clock' > 0 /\ \A t \in Sites : firstEnd'[t] <= clock'
    BY <1>2, <2>1 DEF TimeInv
  <2>. QED  BY <1>2, <2>2 DEF TimeInv
<1>3. ASSUME NEW s \in Sites,
             \/ s.kind = "send" /\ SendSeen(s)
             \/ s.kind = "recv" /\ RecvSeen(s),
             firstEnd' = [firstEnd EXCEPT ![s] = IF @ = 0 THEN clock ELSE @],
             UNCHANGED clock
      PROVE  TimeInv'
  <2>1. /\ \A t \in Sites : firstEnd[t] > 0 => firstEnd'[t] = firstEnd[t]
        /\ \A t \in Sites : firstEnd'[t] <= clock
        /\ Ended(firstEnd', s.ch, s.kind, [g |-> s.g, t |-> clock])
    BY <1>0, <1>3, FirstEnd
  <2>2. PICK f : f = firstEnd'
    OBVIOUS
  <2>3. ASSUME NEW c \in Chan, Private(c)
        PROVE  OnlyEnded(act', f, c) /\ PendEnded(pend', f, c)
    <3>1. OnlyEnded(act, f, c) /\ PendEnded(pend, f, c)
      BY <2>1, <2>2, <2>3, OnlyEndedLater DEF TimeInv
    <3>2. CASE s.kind = "send" /\ SendSeen(s)
      BY <1>0, <2>1, <2>2, <2>3, <3>1, <3>2, SendEnded
    <3>3. CASE s.kind = "recv" /\ RecvSeen(s)
      BY <1>0, <2>1, <2>2, <2>3, <3>1, <3>3, RecvEnded
    <3>. QED  BY <1>3, <3>2, <3>3
  <2>4. clock' > 0 /\ \A t \in Sites : firstEnd'[t] <= clock'
    BY <1>3, <2>1 DEF TimeInv
  <2>. QED  BY <2>2, <2>3, <2>4 DEF TimeInv
<1>. QED  BY <1>0, <1>1, <1>2, <1>3, EndOrNot

\* An entry empties nothing, and fills the keys it is made under.
Keeps(a, b) == \A d \in Dir, k \in Key : a[d][k] # {} => b[d][k] # {}

Filled(b, kind, K) == \A k \in K \intersect Key : b[kind][k] # {}

LEMMA EnterFills ==
    ASSUME NEW a \in [Dir -> [Key -> SUBSET [g : Gor, t : Nat]]],
           NEW kind \in Dir, NEW K, NEW g, NEW t
    PROVE  /\ Keeps(a, Enter(a, kind, K, g, t))
           /\ Filled(Enter(a, kind, K, g, t), kind, K)
<1>1. ASSUME NEW d \in Dir, NEW k \in Key
      PROVE  Enter(a, kind, K, g, t)[d][k]
               = IF d = kind /\ k \in K THEN {[g |-> g, t |-> t]} ELSE a[d][k]
  BY DEF Enter
<1>. QED  BY <1>1 DEF Keeps, Filled

\* An ended operation is recorded under one set of its entries.
LEMMA SeenFills ==
    ASSUME TypeOK, NEW s \in Sites, s.kind \in Dir,
           \/ s.kind = "send" /\ SendSeen(s)
           \/ s.kind = "recv" /\ RecvSeen(s)
    PROVE  Keeps(act, act') /\ \E L \in Entries(s) : Filled(act', s.kind, L)
<1>0. /\ "send" \in Dir /\ "recv" \in Dir
      /\ act \in [Dir -> [Key -> SUBSET [g : Gor, t : Nat]]] /\ clock \in Nat /\ s.g \in Gor
  BY SiteFacts DEF Dir, TypeOK
<1>1. ASSUME NEW L \in Entries(s), act' = Enter(act, s.kind, L, s.g, clock)
      PROVE  Keeps(act, act') /\ Filled(act', s.kind, L)
  BY <1>0, <1>1, EnterFills
<1>2. ASSUME NEW k \in WaitingRecv(s), NEW K \in Entries(s), NEW L \in Entries(s),
             act' = Enter(Enter(act, "recv", K, Head(pend[k]).g, Head(pend[k]).t),
                          "send", L, s.g, clock),
             s.kind = "send"
      PROVE  Keeps(act, act') /\ Filled(act', s.kind, L)
  <2>1. k \in Key /\ pend[k] # <<>> /\ pend[k] \in Seq([g : Gor, t : Nat])
    BY SiteFacts DEF WaitingRecv, TypeOK
  <2>2. Head(pend[k]) \in [g : Gor, t : Nat]
    BY <2>1, HeadTail
  <2>3. PICK b : b = Enter(act, "recv", K, Head(pend[k]).g, Head(pend[k]).t)
    OBVIOUS
  <2>4. b \in [Dir -> [Key -> SUBSET [g : Gor, t : Nat]]]
    BY <1>0, <2>2, <2>3, EnterType
  <2>5. Keeps(act, b)
    BY <1>0, <2>3, EnterFills
  <2>6. act' = Enter(b, "send", L, s.g, clock)
    BY <1>2, <2>3
  <2>7. Keeps(b, act')
    BY <1>0, <2>4, <2>6, EnterFills
  <2>8. Filled(act', "send", L)
    BY <1>0, <2>4, <2>6, EnterFills
  <2>. QED  BY <1>2, <2>5, <2>7, <2>8 DEF Keeps
<1>3. CASE s.kind = "send" /\ SendSeen(s)
  <2>1. \/ \E k \in WaitingRecv(s), K \in Entries(s), L \in Entries(s) :
              act' = Enter(Enter(act, "recv", K, Head(pend[k]).g, Head(pend[k]).t),
                           "send", L, s.g, clock)
        \/ \E L \in Entries(s) : act' = Enter(act, "send", L, s.g, clock)
    BY <1>3 DEF SendSeen
  <2>. QED  BY <1>1, <1>2, <1>3, <2>1
<1>4. CASE s.kind = "recv" /\ RecvSeen(s)
  <2>1. \E L \in Entries(s) : act' = Enter(act, "recv", L, s.g, clock)
    BY <1>4 DEF RecvSeen
  <2>. QED  BY <1>1, <1>4, <2>1
<1>. QED  BY <1>3, <1>4

\* So somebody is recorded where an operation has ended: under the pointer, or
\* under the label that the pointer got when the region began.
LEMMA FoundStep ==
    ASSUME IInv, RegionInv, TimeInv, FoundInv, [Next]_vars
    PROVE  FoundInv'
<1>0. TypeOK /\ NameInv
  BY DEF IInv
<1>1. CASE UNCHANGED <<act, firstEnd>>
  BY <1>1 DEF FoundInv
<1>2. ASSUME NEW s \in Sites, ~audited, s.region,
             NEW g \in Gor, cur[g] = s, stage[g] = "moved",
             \/ s.kind = "send" /\ SendSeen(s)
             \/ s.kind = "recv" /\ RecvSeen(s),
             firstEnd' = [firstEnd EXCEPT ![s] = IF @ = 0 THEN clock ELSE @]
      PROVE  FoundInv'
  <2>1. s.kind \in Dir /\ s.ch \in Chan /\ s.name \in Name /\ (s.ptr # NoPtr => s.ptr = s.ch)
    BY <1>2, SiteFacts DEF Dir
  <2>2. /\ \A d \in Dir, k \in Key : act[d][k] # {} => act'[d][k] # {}
        /\ \E L \in Entries(s) : \A k \in L \intersect Key : act'[s.kind][k] # {}
    BY <1>0, <1>2, <2>1, SeenFills DEF Keeps, Filled
  <2>3. PICK L \in Entries(s) : \A k \in L \intersect Key : act'[s.kind][k] # {}
    BY <2>2
  <2>4. \A t \in Sites : t # s => firstEnd'[t] = firstEnd[t]
    BY <1>0, <1>2, FirstEnd
  <2>5. OnePtr(s.ch) => act'[s.kind][s.ch] # {}
    <3>1. OnePtr(s.ch) => s.ptr = s.ch
      BY <2>1 DEF OnePtr
    <3>2. s.ptr = s.ch => s.ptr # NoPtr /\ s.ch \in Key
      BY <2>1, DeadlockCycleAssumption DEF DeadlockCycleAssumption, Key
    <3>3. s.ptr = s.ch => s.ch \in L
      BY <3>2 DEF Entries
    <3>. QED  BY <2>3, <3>1, <3>2, <3>3
  <2>6. \A n \in Name : OneName(s.ch, n) => act'[s.kind][n] # {}
    <3>. SUFFICES ASSUME NEW n \in Name, OneName(s.ch, n) PROVE n \in L /\ n \in Key
      BY <2>3
    <3>1. n = s.name /\ n \in Key
      BY DEF OneName, Key
    <3>2. CASE s.ptr # NoPtr
      <4>1. nameOf[s.ch] # Unnamed
        BY <1>2, <2>1, <3>2 DEF RegionInv
      <4>2. nameOf[s.ch] \in NamesOf(s.ch)
        BY <1>0, <2>1, <4>1 DEF NameInv
      <4>3. nameOf[s.ch] = n
        BY <4>2 DEF NamesOf, OneName
      <4>4. L = {s.ptr, nameOf[s.ptr]} \intersect Key
        BY <3>2 DEF Entries
      <4>. QED  BY <2>1, <3>1, <3>2, <4>3, <4>4
    <3>3. CASE s.ptr = NoPtr
      <4>1. s.name \in L
        BY <3>3 DEF Entries
      <4>. QED  BY <3>1, <4>1
    <3>. QED  BY <3>2, <3>3
  <2>. SUFFICES ASSUME NEW t \in Sites, t.kind \in Dir, firstEnd'[t] > 0
                PROVE  /\ OnePtr(t.ch) => act'[t.kind][t.ch] # {}
                       /\ \A n \in Name : OneName(t.ch, n) => act'[t.kind][n] # {}
    BY DEF FoundInv
  <2>7. CASE t = s
    BY <2>5, <2>6, <2>7
  <2>8. CASE t # s
    <3>1. firstEnd[t] > 0 /\ t.ch \in Key /\ Name \subseteq Key
      BY <2>4, <2>8, SiteFacts DEF Key
    <3>2. OnePtr(t.ch) => act'[t.kind][t.ch] # {}
      BY <2>2, <3>1 DEF FoundInv
    <3>3. \A n \in Name : OneName(t.ch, n) => act'[t.kind][n] # {}
      BY <2>2, <3>1 DEF FoundInv
    <3>. QED  BY <3>2, <3>3
  <2>. QED  BY <2>7, <2>8
<1>3. \/ UNCHANGED <<act, firstEnd>>
      \/ \E s \in Sites :
            /\ ~audited /\ s.region /\ \E g \in Gor : cur[g] = s /\ stage[g] = "moved"
            /\ \/ s.kind = "send" /\ SendSeen(s)
               \/ s.kind = "recv" /\ RecvSeen(s)
            /\ firstEnd' = [firstEnd EXCEPT ![s] = IF @ = 0 THEN clock ELSE @]
  BY <1>0, EndOrNot
<1>. QED  BY <1>1, <1>2, <1>3

\* A channel that the parser knows by one pointer or one label.
LEMMA OneKey ==
    ASSUME NEW c \in Chan,
           \A r, t \in Sites : r.ch = c /\ t.ch = c => r.name = t.name \/ KeyOf(r) = KeyOf(t)
    PROVE  OnePtr(c) \/ \E n \in Name : OneName(c, n)
<1>1. CASE OnePtr(c)
  BY <1>1
<1>2. CASE ~OnePtr(c)
  <2>1. PICK r \in Sites : r.ch = c /\ r.ptr = NoPtr
    BY <1>2 DEF OnePtr
  <2>2. ASSUME NEW t \in Sites, t.ch = c PROVE t.name = r.name
    <3>1. t.name = r.name \/ KeyOf(t) = r.name
      BY <2>1, <2>2 DEF KeyOf
    <3>2. KeyOf(t) = t.name \/ KeyOf(t) = c
      BY <2>2, SiteFacts DEF KeyOf
    <3>3. r.name # c
      BY SiteFacts, DeadlockCycleAssumption DEF DeadlockCycleAssumption
    <3>. QED  BY <3>1, <3>2, <3>3
  <2>3. r.name \in Name /\ OneName(c, r.name)
    BY <2>2, SiteFacts DEF OneName
  <2>. QED  BY <2>3
<1>. QED  BY <1>1, <1>2

\* A wait that only one goroutine could end, and that one has used the channel
\* within the window, is an edge to it.
LEMMA WaitIsEdge ==
    ASSUME ReportInv, ~audited, NEW g \in Gor, NEW h \in Gor,
           NEW s, s = cur[g], stage[g] = "waiting", s.region,
           Ends(s.ch, s.kind) = {h}, Private(s.ch),
           \A r, t \in Sites : r.ch = s.ch /\ t.ch = s.ch => r.name = t.name \/ KeyOf(r) = KeyOf(t),
           Recent(h, s.ch, s.kind)
    PROVE  Edge(g, h)
<1>0. TypeOK /\ NameInv /\ WaitInv /\ RegionInv /\ TimeInv /\ FoundInv
  BY DEF ReportInv, IInv
<1>1. /\ s \in Sites /\ s.kind \in Dir /\ Other(s.kind) \in Dir /\ s.ch \in Chan
      /\ s.ptr # NoPtr => s.ptr = s.ch
  <2>1. s \in Sites /\ s.kind \in Dir
    BY <1>0 DEF TypeOK, WaitInv
  <2>. QED  BY <2>1, SiteFacts DEF Other, Dir
<1>2. PICK w : w = [kind |-> s.kind, key |-> KeyOf(s)]
  OBVIOUS
<1>3. w \in blocked[g] /\ w.kind = s.kind /\ w.key = KeyOf(s) /\ w.key \in Mine(s.ch)
  BY <1>0, <1>1, <1>2, SiteFacts DEF RegionInv
<1>4. PICK t \in Sites : /\ t.g = h /\ t.ch = s.ch /\ t.kind = Other(s.kind)
                        /\ firstEnd[t] > 0
  BY DEF Recent
<1>5. Candidates(w) # {}
  <2>1. CASE OnePtr(s.ch)
    <3>1. KeyOf(s) = s.ch
      BY <1>1, <2>1 DEF OnePtr, KeyOf
    <3>2. act[Other(s.kind)][s.ch] # {}
      BY <1>0, <1>1, <1>4, <2>1 DEF FoundInv
    <3>. QED  BY <1>3, <3>1, <3>2 DEF Candidates
  <2>2. ASSUME NEW n \in Name, OneName(s.ch, n)
        PROVE  Candidates(w) # {}
    <3>1. s.name = n /\ act[Other(s.kind)][n] # {}
      BY <1>0, <1>1, <1>4, <2>2 DEF FoundInv, OneName
    <3>2. CASE s.ptr = NoPtr
      <4>1. w.key = n
        BY <1>3, <3>1, <3>2 DEF KeyOf
      <4>. QED  BY <1>3, <3>1, <4>1 DEF Candidates
    <3>3. CASE s.ptr # NoPtr
      <4>1. w.key = s.ch
        BY <1>1, <1>3, <3>3 DEF KeyOf
      <4>2. nameOf[s.ch] # Unnamed
        BY <1>0, <1>1, <3>3 DEF RegionInv
      <4>3. nameOf[s.ch] \in NamesOf(s.ch)
        BY <1>0, <1>1, <4>2 DEF NameInv
      <4>4. nameOf[s.ch] = n
        BY <2>2, <4>3 DEF NamesOf, OneName
      <4>. QED  BY <1>1, <1>3, <2>2, <3>1, <4>1, <4>4 DEF Candidates
    <3>. QED  BY <3>2, <3>3
  <2>. QED  BY <1>1, <2>1, <2>2, OneKey
<1>6. PICK r : r \in Candidates(w)
  BY <1>5
<1>7. PICK k \in Mine(s.ch) : k \in Key /\ r \in act[Other(s.kind)][k]
  <2>1. CASE r \in act[Other(w.kind)][w.key]
    BY <1>1, <1>3, <2>1, MineFacts
  <2>2. CASE /\ w.key \in Chan /\ nameOf[w.key] \in Name
             /\ r \in act[Other(w.kind)][nameOf[w.key]]
    <3>1. w.key = s.ch
      BY <1>1, <1>3, <2>2, MineFacts
    <3>2. nameOf[s.ch] \in Mine(s.ch)
      BY <1>0, <1>1, <2>2, <3>1, SeenName DEF Mine
    <3>. QED  BY <1>1, <1>3, <2>2, <3>1, <3>2, MineFacts
  <2>. QED  BY <1>6, <2>1, <2>2 DEF Candidates
<1>8. Ended(firstEnd, s.ch, Other(s.kind), r)
  BY <1>0, <1>1, <1>7 DEF TimeInv, OnlyEnded
<1>9. PICK e \in Sites : /\ e.g = r.g /\ e.ch = s.ch /\ e.kind = Other(s.kind)
                        /\ firstEnd[e] > 0 /\ firstEnd[e] <= r.t
  BY <1>8 DEF Ended
<1>10. r.g = h
  BY <1>9 DEF Ends
<1>11. clock <= r.t + Window
  <2>1. clock <= firstEnd[e] + Window
    BY <1>9, <1>10 DEF Recent
  <2>2. r \in [g : Gor, t : Nat]
    BY <1>0, <1>1, <1>7 DEF TypeOK
  <2>3. r.t \in Nat /\ clock \in Nat /\ firstEnd[e] \in Nat /\ Window \in Nat
    BY <1>0, <2>2, DeadlockCycleAssumption DEF TypeOK, DeadlockCycleAssumption
  <2>. QED  BY <1>9, <2>1, <2>3
<1>. QED  BY <1>3, <1>6, <1>10, <1>11 DEF Edge

\* A reported cycle names somebody.
LEMMA CycleNotEmpty ==
    ASSUME NEW q \in Cycles
    PROVE  q # <<>>
<1>1. \E p \in Paths : \E i \in DOMAIN p : q = SubSeq(p, i, Len(p))
  BY DEF Cycles
<1>2. PICK p \in Paths : \E i \in DOMAIN p : q = SubSeq(p, i, Len(p))
  BY <1>1
<1>3. PICK i \in DOMAIN p : q = SubSeq(p, i, Len(p))
  BY <1>2
<1>4. p \in Seq(Gor) /\ Len(p) \in Nat \ {0} /\ i \in 1..Len(p)
  BY <1>3, PathFacts
<1>5. Len(q) = Len(p) - i + 1
  BY <1>3, <1>4
<1>. QED  BY <1>4, <1>5

\* The goroutines of a deadlock are a cycle that the search finds.
LEMMA DeadlockIsCycle ==
    ASSUME ReportInv, ~audited, DeadlockThere
    PROVE  Cycles # {}
<1>0. Cardinality(Gor) \in Nat
  BY FS_CardinalityType, DeadlockCycleAssumption DEF DeadlockCycleAssumption
<1>1. PICK n \in 1..Cardinality(Gor) : \E p \in Sequences(n) : Deadlocked(p)
  BY DEF DeadlockThere
<1>2. PICK p \in Sequences(n) : Deadlocked(p)
  BY <1>1
<1>3. /\ p \in [1..n -> Gor] /\ n \in Nat /\ n > 0
      /\ \A i, j \in 1..n : p[i] = p[j] => i = j
  BY <1>0, <1>1, <1>2 DEF Sequences
<1>4. p \in Seq(Gor) /\ Len(p) = n /\ DOMAIN p = 1..n
  BY <1>3
<1>5. \A i \in 1..n : After(p, i) \in 1..n
  BY <1>3, <1>4 DEF After
<1>6. ASSUME NEW i \in 1..n PROVE Edge(p[i], p[After(p, i)])
  <2>1. p[i] \in Gor /\ p[After(p, i)] \in Gor
    BY <1>3, <1>5
  <2>2. PICK s : s = cur[p[i]]
    OBVIOUS
  <2>3. /\ stage[p[i]] = "waiting" /\ s.region
        /\ Ends(s.ch, s.kind) = {p[After(p, i)]}
        /\ Private(s.ch)
        /\ \A r, t \in Sites : r.ch = s.ch /\ t.ch = s.ch => r.name = t.name \/ KeyOf(r) = KeyOf(t)
        /\ Recent(p[After(p, i)], s.ch, s.kind)
    BY <1>2, <1>4, <1>6, <2>2 DEF Deadlocked
  <2>. QED  BY <2>1, <2>2, <2>3, WaitIsEdge
<1>7. \A i \in 1..(n - 1) : Edge(p[i], p[i + 1])
  <2>. SUFFICES ASSUME NEW i \in 1..(n - 1) PROVE Edge(p[i], p[i + 1])
    OBVIOUS
  <2>1. i \in 1..n /\ i # n
    BY <1>3
  <2>2. After(p, i) = i + 1
    BY <1>4, <2>1 DEF After
  <2>. QED  BY <1>6, <2>1, <2>2
<1>8. n \in 1..n /\ 1 \in 1..n /\ After(p, n) = 1
  BY <1>3, <1>4 DEF After
<1>9. Edge(p[n], p[1])
  BY <1>6, <1>8
<1>10. p \in Paths
  BY <1>1, <1>3, <1>4, <1>7 DEF Paths
<1>11. 1 \in {j \in DOMAIN p : Edge(p[Len(p)], p[j])}
  BY <1>4, <1>8, <1>9
<1>12. PICK C : C = {SubSeq(p, i, Len(p)) : i \in {j \in DOMAIN p : Edge(p[Len(p)], p[j])}}
  OBVIOUS
<1>13. SubSeq(p, 1, Len(p)) \in C
  BY <1>11, <1>12
<1>14. C \subseteq Cycles
  BY <1>10, <1>12 DEF Cycles
<1>. QED  BY <1>13, <1>14

\* What the parser holds of a channel suffices to report a deadlock there: who
\* is recorded has ended an operation no later than recorded, and somebody is
\* recorded wherever an operation has ended (recordChannelActivity).
THEOREM ReportInvariance == Spec => []ReportInv
<1>1. Init => ReportInv
  BY InitIInv, InitReport DEF ReportInv
<1>2. ReportInv /\ [Next]_vars => ReportInv'
  <2>. SUFFICES ASSUME ReportInv, [Next]_vars PROVE ReportInv'
    OBVIOUS
  <2>1. IInv /\ RegionInv /\ TimeInv /\ FoundInv
    BY DEF ReportInv
  <2>. QED  BY <2>1, IInvStep, RegionStep, TimeStep, FoundStep DEF ReportInv
<1>. QED  BY <1>1, <1>2, PTL DEF Spec

\* Only the audit ends the trace.
LEMMA AuditOnly ==
    ASSUME TypeOK, [Next]_vars, audited' # audited
    PROVE  Audit
<1>1. CASE UNCHANGED vars
  BY <1>1 DEF vars
<1>2. CASE Next
  <2>1. ASSUME NEW g \in Gor, Proceeds(g) PROVE UNCHANGED audited
    BY <2>1, ProceedType DEF Proceeds
  <2>2. ASSUME NEW g \in Gor, Wait(g) \/ End(g) PROVE UNCHANGED audited
    BY <2>2 DEF Wait, End
  <2>3. ASSUME NEW s \in Sites, Begin(s) PROVE UNCHANGED audited
    BY <2>3 DEF Begin
  <2>4. Tick => UNCHANGED audited
    BY DEF Tick
  <2>. QED  BY <1>2, Steps, <2>1, <2>2, <2>3, <2>4
<1>. QED  BY <1>1, <1>2

\* A deadlock is reported: where goroutines wait in a cycle, each for a channel
\* that only the next could serve and has used within the window, the audit
\* gives a warning, whatever else the program and the trace hold
\* (recordChannelActivity, deadlockCycleEvent).
THEOREM DeadlocksAreReported == Spec => DeadlockReported
<1>1. ReportInv /\ [Next]_vars
        => [audited' # audited /\ DeadlockThere => warning' # <<>>]_vars
  <2>. SUFFICES ASSUME ReportInv, [Next]_vars, audited' # audited, DeadlockThere
                PROVE  warning' # <<>>
    OBVIOUS
  <2>1. Audit
    BY AuditOnly DEF ReportInv, IInv
  <2>2. ~audited
    BY <2>1 DEF Audit
  <2>3. Cycles # {}
    BY <2>2, DeadlockIsCycle
  <2>4. warning' \in Cycles
    BY <2>1, <2>3 DEF Audit
  <2>. QED  BY <2>4, CycleNotEmpty
<1>. QED  BY ReportInvariance, <1>1, PTL DEF Spec, DeadlockReported
=============================================================================
