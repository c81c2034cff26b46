--------------------------- MODULE PairingProofs ---------------------------
(***************************************************************************)
(* Whatever program is observed, however many goroutines and channels it   *)
(* has and however its labels and pointers mix, the parser shows no send   *)
(* as received twice, no receive with two senders, and misses no pairing   *)
(* under one key.                                                          *)
(*                                                                         *)
(* The argument counts: an operation completes once, and becomes then a    *)
(* message id in one queue, an entry in one queue of receives, or a part   *)
(* of a pair; what leaves a queue for a pair is in no queue any more.      *)
(* Channels are kept apart when labels are: every key an operation is      *)
(* queued or looked up under belongs to its channel.                       *)
(*                                                                         *)
(* The second half relates the queues to what the program did.  On a pipe  *)
(* values arrive in the order they were sent, and what has left the        *)
(* parser's queues has left them send and receive together; so the oldest  *)
(* send that waits and a receive that ends without an older one waiting    *)
(* are the two ends of one communication.  That every receive is given a   *)
(* sender is a counting argument once more: messages and receives never    *)
(* both wait, and as many receives have ended as sends were taken.         *)
(***************************************************************************)
EXTENDS Pairing, SequenceTheorems, FiniteSetTheorems, NaturalsInduction, WellFoundedInduction,
        TLAPS

\* Operations that are under way, and those that have ended.
Live == {cur[g] : g \in {h \in Gor : stage[h] # "idle"}}
Done == (1..Len(ops)) \ Live

Elems(q) == {q[i] : i \in 1..Len(q)}
Distinct(q) == \A i, j \in 1..Len(q) : q[i] = q[j] => i = j

\* What the queues f hold, each in one place of one queue.
All(f) == UNION {Elems(f[k]) : k \in Key}
Separate(f) ==
    /\ \A k \in Key : Distinct(f[k])
    /\ \A j, k \in Key : j # k => Elems(f[j]) \intersect Elems(f[k]) = {}

\* A goroutine's current operation is its own.
ProgramInv ==
    \A g \in Gor : stage[g] # "idle" => cur[g] \in 1..Len(ops) /\ ops[cur[g]].g = g

\* A message is a completed send, and a send is one message.
MessageInv == (\A i \in 1..Len(msgs) : msgs[i] \in Done) /\ Distinct(msgs)

SendsInv == Separate(sends) /\ All(sends) \subseteq 1..Len(msgs)
RecvsInv == Separate(recvs) /\ All(recvs) \subseteq Done

\* What is in a pair is in no queue.
PairsInv ==
    \A p \in pairs :
        /\ \E i \in (1..Len(msgs)) \ All(sends) : msgs[i] = p[1]
        /\ p[2] \in Done \ All(recvs)

QueueInv == MessageInv /\ SendsInv /\ RecvsInv /\ PairsInv /\ PairedOnce /\ NeverBothWaiting

IInv == TypeOK /\ ProgramInv /\ QueueInv

-----------------------------------------------------------------------------
(* Queues *)

\* Taking the first of a queue.
LEMMA TailElems ==
  ASSUME NEW q \in Seq(Nat), q # <<>>
  PROVE  /\ Head(q) \in Elems(q) /\ Elems(Tail(q)) \subseteq Elems(q)
         /\ Distinct(q) => Distinct(Tail(q)) /\ Head(q) \notin Elems(Tail(q))
<1>1. /\ Len(q) \in Nat /\ Len(q) >= 1 /\ Len(Tail(q)) = Len(q) - 1 /\ Head(q) = q[1]
      /\ \A i \in 1..Len(Tail(q)) : Tail(q)[i] = q[i + 1]
  BY HeadTailProperties, LenProperties, EmptySeq
<1>2. Head(q) \in Elems(q)
  BY <1>1 DEF Elems
<1>3. Elems(Tail(q)) \subseteq Elems(q)
  BY <1>1 DEF Elems
<1>4. ASSUME Distinct(q) PROVE Distinct(Tail(q)) /\ Head(q) \notin Elems(Tail(q))
  BY <1>1, <1>4 DEF Distinct, Elems
<1> QED
  BY <1>2, <1>3, <1>4

\* Putting something at the end.
LEMMA AppendElems ==
  ASSUME NEW q \in Seq(Nat), NEW x \in Nat
  PROVE  /\ Elems(Append(q, x)) = Elems(q) \union {x}
         /\ Distinct(q) /\ x \notin Elems(q) => Distinct(Append(q, x))
<1>1. /\ Len(q) \in Nat /\ Len(Append(q, x)) = Len(q) + 1 /\ Append(q, x)[Len(q) + 1] = x
      /\ \A i \in 1..Len(q) : Append(q, x)[i] = q[i]
  BY AppendProperties, LenProperties
<1>2. \A i \in 1..(Len(q) + 1) : i \in 1..Len(q) \/ i = Len(q) + 1
  BY <1>1
<1>3. Elems(Append(q, x)) = Elems(q) \union {x}
  BY <1>1, <1>2 DEF Elems
<1>4. ASSUME Distinct(q), x \notin Elems(q) PROVE Distinct(Append(q, x))
  BY <1>1, <1>2, <1>4 DEF Distinct, Elems
<1> QED
  BY <1>3, <1>4

\* Queues of which one loses its first: that is in none of them any more.
LEMMA Pop ==
  ASSUME NEW f \in [Key -> Seq(Nat)], NEW k \in Key, f[k] # <<>>, Separate(f),
         NEW h \in [Key -> Seq(Nat)], h[k] = Tail(f[k]), \A j \in Key \ {k} : h[j] = f[j]
  PROVE  /\ Separate(h) /\ All(h) \subseteq All(f)
         /\ Head(f[k]) \in All(f) /\ Head(f[k]) \notin All(h) /\ Head(f[k]) \in Nat
         /\ \A j \in Key : f[j] = <<>> => h[j] = <<>>
<1>1. /\ Head(f[k]) \in Elems(f[k]) /\ Elems(Tail(f[k])) \subseteq Elems(f[k])
      /\ Distinct(Tail(f[k])) /\ Head(f[k]) \notin Elems(Tail(f[k]))
  BY TailElems DEF Separate
<1>2. Tail(f[k]) \in Seq(Nat) /\ Head(f[k]) \in Nat
  BY HeadTailProperties
<1>3. \A j \in Key : Elems(h[j]) \subseteq Elems(f[j]) /\ Distinct(h[j])
  BY <1>1 DEF Separate
<1>4. Separate(h)
  BY <1>3 DEF Separate
<1>5. All(h) \subseteq All(f) /\ Head(f[k]) \in All(f)
  BY <1>1, <1>3 DEF All
<1>6. Head(f[k]) \notin All(h)
  BY <1>1 DEF All, Separate
<1> QED
  BY <1>2, <1>4, <1>5, <1>6

\* Queues of which one gets something that was in none of them.
LEMMA Push ==
  ASSUME NEW f \in [Key -> Seq(Nat)], NEW k \in Key, NEW x \in Nat, Separate(f), x \notin All(f),
         NEW h \in [Key -> Seq(Nat)], \A j \in Key \ {k} : h[j] = f[j],
         Elems(h[k]) = Elems(f[k]) \union {x}, Distinct(h[k])
  PROVE  Separate(h) /\ All(h) = All(f) \union {x}
<1>1. Separate(h)
  <2>1. \A j \in Key : Distinct(h[j])
    BY DEF Separate
  <2>2. \A j \in Key : x \notin Elems(f[j])
    BY DEF All
  <2>3. \A i, j \in Key : i # j => Elems(f[i]) \intersect Elems(f[j]) = {}
    BY DEF Separate
  <2>4. \A j \in Key \ {k} : Elems(h[j]) = Elems(f[j])
    OBVIOUS
  <2>5. ASSUME NEW i \in Key, NEW j \in Key, i # j
        PROVE  Elems(h[i]) \intersect Elems(h[j]) = {}
    <3>1. Elems(f[i]) \intersect Elems(f[j]) = {} /\ x \notin Elems(f[i]) /\ x \notin Elems(f[j])
      BY <2>2, <2>3, <2>5
    <3>2. CASE i = k
      <4>1. Elems(h[j]) = Elems(f[j])
        BY <2>4, <2>5, <3>2
      <4>2. Elems(h[i]) = Elems(f[i]) \union {x}
        BY <3>2
      <4> QED
        BY ONLY <3>1, <4>1, <4>2
    <3>3. CASE j = k
      <4>1. Elems(h[i]) = Elems(f[i])
        BY <2>4, <2>5, <3>3
      <4>2. Elems(h[j]) = Elems(f[j]) \union {x}
        BY <3>3
      <4> QED
        BY ONLY <3>1, <4>1, <4>2
    <3>4. CASE i # k /\ j # k
      BY <2>4, <3>1, <3>4
    <3> QED
      BY <3>2, <3>3, <3>4
  <2> QED
    BY <2>1, <2>5 DEF Separate
<1>2. All(h) = All(f) \union {x}
  <2>1. \A j \in Key : /\ Elems(f[j]) \subseteq Elems(h[j])
                       /\ Elems(h[j]) \subseteq Elems(f[j]) \union {x}
    OBVIOUS
  <2>2. All(f) \subseteq All(h) /\ All(h) \subseteq All(f) \union {x}
    BY <2>1 DEF All
  <2>3. x \in All(h)
    BY DEF All
  <2> QED
    BY <2>2, <2>3
<1> QED
  BY <1>1, <1>2

\* A set of natural numbers that is not empty has a least one.
LEMMA LeastExists ==
  ASSUME NEW T, T \subseteq Nat, T # {}
  PROVE  \E x \in T : \A y \in T : x <= y
<1> DEFINE R == OpToRel(<, Nat)
<1>1. R = {ss \in Nat \X Nat : ss[1] < ss[2]}
  BY DEF OpToRel
<1>2. IsWellFoundedOn(R, Nat)
  BY NatLessThanWellFounded
<1> HIDE DEF R
<1>3. PICK x \in T : \A y \in T : ~(<<y, x>> \in R)
  BY <1>2, WFMin
<1>4. \A y \in T : ~(y < x)
  BY <1>1, <1>3
<1> QED
  BY <1>3, <1>4

\* Of the queues with a label, one begins with the oldest message.
LEMMA OldestExists ==
  ASSUME NEW name, sends \in [Key -> Seq(Nat)], NEW k \in Key, sends[k] # <<>>, Named(k, name)
  PROVE  SendQueueByName(name) # {}
<1> DEFINE Q == {j \in Key : sends[j] # <<>> /\ Named(j, name)}
           T == {Head(sends[j]) : j \in Q}
<1>1. T \subseteq Nat /\ T # {}
  BY HeadTailProperties
<1>2. PICK x \in T : \A y \in T : x <= y
  BY <1>1, LeastExists
<1>3. PICK j \in Q : x = Head(sends[j])
  BY <1>2
<1>4. j \in SendQueueByName(name)
  BY <1>2, <1>3 DEF SendQueueByName
<1> QED
  BY <1>4

-----------------------------------------------------------------------------
(* Pairing *)

\* Sites have channels and labels that are keys.
LEMMA SiteType ==
  ASSUME NEW s \in Sites
  PROVE  s.ch \in Chan /\ s.name \in Name /\ s.name \in Key /\ OpKey(s) \in Key /\ s.g \in Gor
  BY PairingAssumption DEF SitesOK, OpKey, Chan, Name, Key, Gor

\* What the pairing of an operation starts from: it is under way and now ends.
Ends(op) == op \in Nat /\ op \notin Done /\ Done' = Done \union {op}

QueueTypes ==
    /\ msgs \in Seq(Nat) /\ pairs \subseteq Nat \X Nat
    /\ sends \in [Key -> Seq(Nat)] /\ recvs \in [Key -> Seq(Nat)] /\ selRecv \in [Key -> Nat]

\* A completed send is paired once, counted off or queued.
LEMMA CompleteSendStep ==
  ASSUME QueueTypes, QueueInv, NEW s \in Sites, NEW op, Ends(op), CompleteSend(op, s)
  PROVE  QueueTypes' /\ QueueInv'
<1> DEFINE n == Len(msgs) + 1
<1>1. /\ msgs \in Seq(Nat) /\ sends \in [Key -> Seq(Nat)] /\ recvs \in [Key -> Seq(Nat)]
      /\ selRecv \in [Key -> Nat] /\ op \in Nat /\ op \notin Done /\ Done' = Done \union {op}
  BY DEF QueueTypes, Ends
<1>2. /\ Separate(sends) /\ All(sends) \subseteq 1..Len(msgs)
      /\ Separate(recvs) /\ All(recvs) \subseteq Done
  BY DEF QueueInv, SendsInv, RecvsInv
<1>3. /\ msgs' \in Seq(Nat) /\ Len(msgs') = n /\ msgs'[n] = op
      /\ Len(msgs) \in Nat /\ \A i \in 1..Len(msgs) : msgs'[i] = msgs[i]
  BY <1>1, AppendProperties, LenProperties DEF CompleteSend
<1>4. \A i \in 1..n : i \in 1..Len(msgs) \/ i = n
  BY <1>3
<1>5. MessageInv'
  BY <1>1, <1>3, <1>4 DEF QueueInv, MessageInv, Distinct
<1>6. \A p \in pairs : p[1] # op /\ p[2] # op
  BY <1>1 DEF QueueInv, PairsInv, MessageInv
<1>7. n \notin All(sends) /\ n \in Nat
  BY <1>2, <1>3
<1> HIDE DEF n
<1>8. ASSUME NEW k \in Waiting(s, RecvWaiting),
             recvs' = [recvs EXCEPT ![k] = Tail(@)],
             pairs' = pairs \union {<<op, Head(recvs[k])>>},
             UNCHANGED <<sends, selRecv>>
      PROVE  QueueTypes' /\ QueueInv'
  <2> DEFINE x == Head(recvs[k])
  <2>1. k \in Key /\ recvs[k] # <<>>
    BY DEF Waiting, RecvWaiting
  <2>2. /\ recvs' \in [Key -> Seq(Nat)] /\ Separate(recvs') /\ All(recvs') \subseteq All(recvs)
        /\ x \in All(recvs) /\ x \notin All(recvs')
        /\ x \in Nat /\ \A j \in Key : recvs[j] = <<>> => recvs'[j] = <<>>
    <3>1. /\ recvs' \in [Key -> Seq(Nat)] /\ recvs'[k] = Tail(recvs[k])
          /\ \A j \in Key \ {k} : recvs'[j] = recvs[j]
      BY <1>1, <1>8, <2>1, HeadTailProperties
    <3>2. /\ Separate(recvs') /\ All(recvs') \subseteq All(recvs)
          /\ x \in All(recvs) /\ x \notin All(recvs') /\ x \in Nat
          /\ \A j \in Key : recvs[j] = <<>> => recvs'[j] = <<>>
      BY <1>1, <1>2, <2>1, <3>1, Pop
    <3> QED
      BY <3>1, <3>2
  <2>3. pairs' = pairs \union {<<op, x>>}
    BY <1>8
  <2> HIDE DEF x
  <2>4. QueueTypes'
    <3>1. pairs' \subseteq Nat \X Nat
      BY <1>1, <2>2, <2>3 DEF QueueTypes
    <3>2. /\ msgs' \in Seq(Nat) /\ recvs' \in [Key -> Seq(Nat)]
          /\ sends' = sends /\ selRecv' = selRecv
      BY <1>3, <1>8, <2>2
    <3> QED
      BY <1>1, <3>1, <3>2 DEF QueueTypes
  <2>5. SendsInv' /\ RecvsInv'
    <3>1. All(sends') \subseteq 1..Len(msgs') /\ Separate(sends')
      BY <1>2, <1>3, <1>8 DEF n
    <3>2. All(recvs') \subseteq Done' /\ Separate(recvs')
      BY <1>1, <1>2, <2>2
    <3> QED
      BY <3>1, <3>2 DEF SendsInv, RecvsInv
  <2>6. ASSUME NEW p \in pairs
        PROVE  /\ \E i \in (1..Len(msgs')) \ All(sends') : msgs'[i] = p[1]
               /\ p[2] \in Done' \ All(recvs')
    <3>1. PICK i \in (1..Len(msgs)) \ All(sends) : msgs[i] = p[1]
      BY DEF QueueInv, PairsInv
    <3>2. i \in 1..Len(msgs') /\ msgs'[i] = p[1] /\ i \notin All(sends')
      BY <1>3, <1>8, <3>1 DEF n
    <3>3. p[2] \in Done \ All(recvs)
      BY DEF QueueInv, PairsInv
    <3> QED
      BY <1>1, <2>2, <3>2, <3>3
  <2>7. /\ n \in (1..Len(msgs')) \ All(sends') /\ msgs'[n] = op
        /\ x \in Done' \ All(recvs')
    BY <1>1, <1>2, <1>3, <1>7, <1>8, <2>2 DEF n
  <2>8. PairsInv'
    BY <2>3, <2>6, <2>7 DEF PairsInv
  <2>9. \A p \in pairs : p[1] # op /\ p[2] # x
    BY <1>6, <2>2 DEF QueueInv, PairsInv
  <2>10. PairedOnce'
    BY <2>3, <2>9 DEF QueueInv, PairedOnce
  <2>11. NeverBothWaiting'
    BY <1>8, <2>2 DEF QueueInv, NeverBothWaiting
  <2> QED
    BY <1>5, <2>4, <2>5, <2>8, <2>10, <2>11 DEF QueueInv
<1>9. ASSUME UNCHANGED <<recvs, pairs>>, All(sends') \subseteq All(sends) \union {n}
      PROVE  PairsInv'
  <2>1. ASSUME NEW p \in pairs
        PROVE  /\ \E i \in (1..Len(msgs')) \ All(sends') : msgs'[i] = p[1]
               /\ p[2] \in Done' \ All(recvs')
    <3>1. PICK i \in (1..Len(msgs)) \ All(sends) : msgs[i] = p[1]
      BY DEF QueueInv, PairsInv
    <3>2. i \in 1..Len(msgs') /\ msgs'[i] = p[1] /\ i # n
      BY <1>3, <3>1 DEF n
    <3>3. p[2] \in Done \ All(recvs)
      BY DEF QueueInv, PairsInv
    <3> QED
      BY <1>1, <1>9, <3>1, <3>2, <3>3
  <2> QED
    BY <1>9, <2>1 DEF PairsInv
<1>10. ASSUME NEW k \in Waiting(s, SelectWaiting),
              selRecv' = [selRecv EXCEPT ![k] = @ - 1],
              UNCHANGED <<sends, recvs, pairs>>
       PROVE  QueueTypes' /\ QueueInv'
  <2>1. k \in Key /\ selRecv[k] \in Nat /\ selRecv[k] > 0
    BY <1>1 DEF Waiting, SelectWaiting
  <2>2. selRecv' \in [Key -> Nat] /\ \A j \in Key : selRecv[j] = 0 => selRecv'[j] = 0
    BY <1>1, <1>10, <2>1
  <2>3. QueueTypes'
    BY <1>3, <1>10, <2>2 DEF QueueTypes
  <2>4. SendsInv' /\ RecvsInv' /\ PairsInv'
    BY <1>1, <1>2, <1>3, <1>9, <1>10 DEF SendsInv, RecvsInv, n
  <2>5. PairedOnce' /\ NeverBothWaiting'
    BY <1>10, <2>2 DEF QueueInv, PairedOnce, NeverBothWaiting
  <2> QED
    BY <1>5, <2>3, <2>4, <2>5 DEF QueueInv
<1>11. ASSUME Waiting(s, RecvWaiting) = {}, Waiting(s, SelectWaiting) = {},
              sends' = [sends EXCEPT ![OpKey(s)] = Append(@, n)],
              UNCHANGED <<recvs, selRecv, pairs>>
       PROVE  QueueTypes' /\ QueueInv'
  <2>1. OpKey(s) \in Key /\ recvs[OpKey(s)] = <<>> /\ ~(selRecv[OpKey(s)] > 0)
    BY <1>11, SiteType DEF Waiting, RecvWaiting, SelectWaiting
  <2>2. selRecv[OpKey(s)] = 0
    BY <1>1, <2>1
  <2>3. /\ sends' \in [Key -> Seq(Nat)] /\ Separate(sends')
        /\ All(sends') = All(sends) \union {n}
        /\ \A j \in Key \ {OpKey(s)} : sends'[j] = sends[j]
    <3>1. PICK k \in Key : k = OpKey(s)
      BY <2>1
    <3>2. /\ sends' \in [Key -> Seq(Nat)] /\ sends'[k] = Append(sends[k], n)
          /\ \A j \in Key \ {k} : sends'[j] = sends[j]
      BY <1>1, <1>7, <1>11, <3>1, AppendProperties
    <3>3. sends[k] \in Seq(Nat) /\ n \notin Elems(sends[k]) /\ Distinct(sends[k])
      BY <1>1, <1>2, <1>7 DEF All, Separate
    <3>4. Elems(sends'[k]) = Elems(sends[k]) \union {n} /\ Distinct(sends'[k])
      BY <1>7, <3>2, <3>3, AppendElems
    <3>5. Separate(sends') /\ All(sends') = All(sends) \union {n}
      BY <1>1, <1>2, <1>7, <3>2, <3>4, Push
    <3> QED
      BY <3>1, <3>2, <3>5
  <2>4. QueueTypes'
    BY <1>3, <1>11, <2>3 DEF QueueTypes
  <2>5. SendsInv' /\ RecvsInv' /\ PairsInv'
    <3>1. All(sends') \subseteq 1..Len(msgs')
      BY <1>2, <1>3, <2>3 DEF n
    <3>2. All(recvs') \subseteq Done' /\ Separate(recvs')
      BY <1>1, <1>2, <1>11
    <3>3. PairsInv'
      BY <1>9, <1>11, <2>3
    <3> QED
      BY <2>3, <3>1, <3>2, <3>3 DEF SendsInv, RecvsInv
  <2>6. PairedOnce' /\ NeverBothWaiting'
    BY <1>11, <2>1, <2>2, <2>3 DEF QueueInv, PairedOnce, NeverBothWaiting
  <2> QED
    BY <1>5, <2>4, <2>5, <2>6 DEF QueueInv
<1> QED
  BY <1>8, <1>10, <1>11 DEF CompleteSend, n

\* Pop, for the queues of messages.
LEMMA PopSends ==
  ASSUME sends \in [Key -> Seq(Nat)], NEW k \in Key, sends[k] # <<>>, Separate(sends),
         sends' \in [Key -> Seq(Nat)], sends'[k] = Tail(sends[k]),
         \A j \in Key \ {k} : sends'[j] = sends[j]
  PROVE  /\ Separate(sends') /\ All(sends') \subseteq All(sends)
         /\ Head(sends[k]) \in All(sends) /\ Head(sends[k]) \notin All(sends')
         /\ Head(sends[k]) \in Nat
         /\ \A j \in Key : sends[j] = <<>> => sends'[j] = <<>>
<1>1. PICK f \in [Key -> Seq(Nat)] : f = sends
  OBVIOUS
<1>2. PICK h \in [Key -> Seq(Nat)] : h = sends'
  OBVIOUS
<1>3. /\ f[k] # <<>> /\ Separate(f) /\ h[k] = Tail(f[k])
      /\ \A j \in Key \ {k} : h[j] = f[j]
  BY <1>1, <1>2
<1>4. /\ Separate(h) /\ All(h) \subseteq All(f)
      /\ Head(f[k]) \in All(f) /\ Head(f[k]) \notin All(h) /\ Head(f[k]) \in Nat
      /\ \A j \in Key : f[j] = <<>> => h[j] = <<>>
  BY ONLY <1>3, k \in Key, f \in [Key -> Seq(Nat)], h \in [Key -> Seq(Nat)], Pop
<1> QED
  BY <1>1, <1>2, <1>4

\* A receive takes the first message of a queue, and shows its sender or not.
LEMMA TakeMessage ==
  ASSUME QueueTypes, QueueInv, NEW op, Ends(op), NEW k \in Key, sends[k] # <<>>,
         sends' = [sends EXCEPT ![k] = Tail(@)], UNCHANGED <<msgs, recvs, selRecv>>,
         UNCHANGED pairs \/ pairs' = pairs \union {<<msgs[Head(sends[k])], op>>}
  PROVE  QueueTypes' /\ QueueInv'
<1> DEFINE x == Head(sends[k])
<1>1. /\ msgs \in Seq(Nat) /\ sends \in [Key -> Seq(Nat)] /\ op \in Nat /\ op \notin Done
      /\ Done' = Done \union {op}
  BY DEF QueueTypes, Ends
<1>2. Separate(sends) /\ All(sends) \subseteq 1..Len(msgs) /\ Distinct(msgs)
  BY DEF QueueInv, SendsInv, MessageInv
<1>3. /\ sends' \in [Key -> Seq(Nat)] /\ sends'[k] = Tail(sends[k])
      /\ \A j \in Key \ {k} : sends'[j] = sends[j]
  BY <1>1, HeadTailProperties
<1>4. /\ Separate(sends') /\ All(sends') \subseteq All(sends)
      /\ x \in All(sends) /\ x \notin All(sends') /\ x \in Nat
      /\ \A j \in Key : sends[j] = <<>> => sends'[j] = <<>>
  BY <1>1, <1>2, <1>3, PopSends
<1>5. UNCHANGED pairs \/ pairs' = pairs \union {<<msgs[x], op>>}
  OBVIOUS
<1>6. x \in 1..Len(msgs) /\ msgs[x] \in Nat
  <2> HIDE DEF x
  <2>1. x \in 1..Len(msgs)
    BY <1>2, <1>4
  <2> QED
    BY ONLY <1>1, <2>1, ElementOfSeq
<1> HIDE DEF x
<1>7. QueueTypes'
  <2>1. pairs \subseteq Nat \X Nat
    BY DEF QueueTypes
  <2>2. <<msgs[x], op>> \in Nat \X Nat
    BY <1>1, <1>6
  <2>3. pairs' \subseteq Nat \X Nat
    BY <1>5, <2>1, <2>2
  <2>4. /\ msgs' \in Seq(Nat) /\ recvs' \in [Key -> Seq(Nat)]
        /\ selRecv' \in [Key -> Nat]
    BY DEF QueueTypes
  <2> QED
    BY ONLY <1>3, <2>3, <2>4 DEF QueueTypes
<1>8. MessageInv'
  BY <1>1 DEF QueueInv, MessageInv
<1>9. SendsInv' /\ RecvsInv'
  <2>1. All(sends') \subseteq 1..Len(msgs')
    BY <1>2, <1>4
  <2>2. All(recvs') \subseteq Done' /\ Separate(recvs')
    BY <1>1 DEF QueueInv, RecvsInv
  <2> QED
    BY <1>4, <2>1, <2>2 DEF SendsInv, RecvsInv
<1>10. op \notin All(recvs)
  BY <1>1 DEF QueueInv, RecvsInv
<1>11. ASSUME NEW p \in pairs
       PROVE  /\ p[1] # msgs[x] /\ p[2] # op
              /\ \E i \in (1..Len(msgs)) \ All(sends') : msgs[i] = p[1]
              /\ p[2] \in Done' \ All(recvs)
  <2>1. PICK i \in (1..Len(msgs)) \ All(sends) : msgs[i] = p[1]
    BY DEF QueueInv, PairsInv
  <2>2. p[2] \in Done \ All(recvs)
    BY DEF QueueInv, PairsInv
  <2>3. i # x
    BY <1>4, <2>1
  <2>4. msgs[i] # msgs[x]
    BY <1>2, <1>6, <2>1, <2>3 DEF Distinct
  <2> QED
    BY <1>1, <1>4, <2>1, <2>2, <2>4
<1>12. PairsInv'
  <2>1. ASSUME NEW p \in pairs'
        PROVE  /\ \E i \in (1..Len(msgs')) \ All(sends') : msgs'[i] = p[1]
               /\ p[2] \in Done' \ All(recvs')
    <3>1. CASE p \in pairs
      BY <1>11, <3>1
    <3>2. CASE p = <<msgs[x], op>>
      BY <1>1, <1>4, <1>6, <1>10, <3>2
    <3> QED
      BY <1>5, <3>1, <3>2
  <2> QED
    BY <2>1 DEF PairsInv
<1>13. PairedOnce'
  BY <1>5, <1>11 DEF QueueInv, PairedOnce
<1>14. NeverBothWaiting'
  BY <1>4 DEF QueueInv, NeverBothWaiting
<1> QED
  BY <1>7, <1>8, <1>9, <1>12, <1>13, <1>14 DEF QueueInv

\* A queue a receive takes its message from has one.
LEMMA SourceHasMessage ==
  ASSUME NEW s \in Sites, NEW b, NEW k \in Source(s, b)
  PROVE  k \in Key /\ sends[k] # <<>>
  BY SiteType DEF Source, SendQueueByName

\* A completed receive takes a message or waits.
LEMMA CompleteRecvStep ==
  ASSUME QueueTypes, QueueInv, NEW s \in Sites, NEW op, Ends(op), CompleteRecv(op, s)
  PROVE  QueueTypes' /\ QueueInv'
<1>1. ASSUME Source(s, s.ptr = NoPtr) = {},
             recvs' = [recvs EXCEPT ![OpKey(s)] = Append(@, op)],
             UNCHANGED <<msgs, selRecv, sends, pairs>>
      PROVE  QueueTypes' /\ QueueInv'
  <2>1. /\ recvs \in [Key -> Seq(Nat)] /\ op \in Nat /\ op \notin Done
        /\ Done' = Done \union {op} /\ Separate(recvs) /\ All(recvs) \subseteq Done
    BY DEF QueueTypes, Ends, QueueInv, RecvsInv
  <2>2. PICK k \in Key : k = OpKey(s)
    BY SiteType
  <2>3. sends[k] = <<>>
    BY <1>1, <2>2 DEF Source
  <2>4. /\ recvs' \in [Key -> Seq(Nat)] /\ recvs'[k] = Append(recvs[k], op)
        /\ \A j \in Key \ {k} : recvs'[j] = recvs[j]
    BY <1>1, <2>1, <2>2, AppendProperties
  <2>5. /\ recvs[k] \in Seq(Nat) /\ op \notin Elems(recvs[k])
        /\ Distinct(recvs[k]) /\ op \notin All(recvs)
    BY <2>1 DEF All, Separate
  <2>6. Elems(recvs'[k]) = Elems(recvs[k]) \union {op} /\ Distinct(recvs'[k])
    BY <2>1, <2>4, <2>5, AppendElems
  <2>7. Separate(recvs') /\ All(recvs') = All(recvs) \union {op}
    BY <2>1, <2>4, <2>5, <2>6, Push
  <2>8. QueueTypes'
    BY <1>1, <2>4 DEF QueueTypes
  <2>9. MessageInv' /\ SendsInv' /\ PairedOnce'
    BY <1>1, <2>1 DEF QueueInv, MessageInv, SendsInv, PairedOnce
  <2>10. RecvsInv'
    BY <2>1, <2>7 DEF RecvsInv
  <2>11. PairsInv'
    BY <1>1, <2>1, <2>7 DEF QueueInv, PairsInv
  <2>12. NeverBothWaiting'
    BY <1>1, <2>3, <2>4 DEF QueueInv, NeverBothWaiting
  <2> QED
    BY <2>8, <2>9, <2>10, <2>11, <2>12 DEF QueueInv
<1>2. ASSUME NEW k \in Source(s, s.ptr = NoPtr), UNCHANGED <<msgs, selRecv, recvs>>,
             \/ sends' = [sends EXCEPT ![k] = Tail(@)] /\ UNCHANGED pairs
             \/ PairWith(op, k)
      PROVE  QueueTypes' /\ QueueInv'
  <2>1. k \in Key /\ sends[k] # <<>>
    BY SourceHasMessage
  <2>2. /\ sends' = [sends EXCEPT ![k] = Tail(@)]
        /\ UNCHANGED pairs \/ pairs' = pairs \union {<<msgs[Head(sends[k])], op>>}
    BY <1>2 DEF PairWith
  <2> QED
    BY <1>2, <2>1, <2>2, TakeMessage
<1> QED
  BY <1>1, <1>2 DEF CompleteRecv

\* A receive that a select chose takes a message or is counted.
LEMMA CompleteSelectRecvStep ==
  ASSUME QueueTypes, QueueInv, NEW s \in Sites, NEW op, Ends(op), CompleteSelectRecv(op, s)
  PROVE  QueueTypes' /\ QueueInv'
<1>1. ASSUME Source(s, TRUE) = {},
             selRecv' = [k \in Key |-> selRecv[k] + (IF k = OpKey(s) THEN 1 ELSE 0)
                                                   + (IF k = s.name THEN 1 ELSE 0)],
             UNCHANGED <<msgs, recvs, sends, pairs>>
      PROVE  QueueTypes' /\ QueueInv'
  <2>1. Done' = Done \union {op} /\ op \notin Done /\ selRecv \in [Key -> Nat]
    BY DEF Ends, QueueTypes
  <2>2. selRecv' \in [Key -> Nat]
    BY <1>1, <2>1
  <2>3. sends[OpKey(s)] = <<>> /\ SendQueueByName(s.name) = {}
    BY <1>1 DEF Source
  <2>4. sends[s.name] = <<>>
    BY <2>3, SiteType, OldestExists DEF Named, QueueTypes
  <2>5. \A k \in Key : selRecv'[k] = selRecv[k] \/ sends[k] = <<>>
    BY <1>1, <2>1, <2>3, <2>4
  <2>6. QueueTypes'
    BY <1>1, <2>2 DEF QueueTypes
  <2>7. MessageInv' /\ SendsInv' /\ RecvsInv' /\ PairsInv' /\ PairedOnce'
    BY <1>1, <2>1 DEF QueueInv, MessageInv, SendsInv, RecvsInv, PairsInv, PairedOnce
  <2>8. NeverBothWaiting'
    BY <1>1, <2>5 DEF QueueInv, NeverBothWaiting
  <2> QED
    BY <2>6, <2>7, <2>8 DEF QueueInv
<1>2. ASSUME NEW k \in Source(s, TRUE), UNCHANGED <<msgs, recvs, selRecv>>, PairWith(op, k)
      PROVE  QueueTypes' /\ QueueInv'
  <2>1. k \in Key /\ sends[k] # <<>>
    BY SourceHasMessage
  <2>2. /\ sends' = [sends EXCEPT ![k] = Tail(@)]
        /\ UNCHANGED pairs \/ pairs' = pairs \union {<<msgs[Head(sends[k])], op>>}
    BY <1>2 DEF PairWith
  <2> QED
    BY <1>2, <2>1, <2>2, TakeMessage
<1> QED
  BY <1>1, <1>2 DEF CompleteSelectRecv

-----------------------------------------------------------------------------
(* Steps *)

\* Steps that complete nothing leave the queues and what has ended alone.
LEMMA QueuesStay ==
  ASSUME QueueTypes, QueueInv, UNCHANGED queues, Done' = Done
  PROVE  QueueTypes' /\ QueueInv'
  BY DEF queues, QueueTypes, QueueInv, MessageInv, SendsInv, RecvsInv, PairsInv, PairedOnce,
         NeverBothWaiting

ProgramTypes ==
    /\ ops \in Seq(Sites) /\ cur \in [Gor -> Nat]
    /\ stage \in [Gor -> {"idle", "begun", "moved"}]
    /\ chanQ \in [Chan -> Seq(Nat)] /\ took \subseteq Nat \X Nat

AtomicTypes ==
    /\ sndAtt \in [Key -> Seq(Nat)] /\ commits \subseteq Nat \X Nat
    /\ depth \in [Chan -> Nat] /\ buffered \in [Chan -> SUBSET Nat]

\* The site of an operation under way.
LEMMA CurrentSite ==
  ASSUME ProgramTypes, ProgramInv, NEW g \in Gor, stage[g] # "idle"
  PROVE  Site(g) \in Sites /\ cur[g] \in Nat /\ cur[g] \in 1..Len(ops)
  BY ElementOfSeq DEF ProgramTypes, ProgramInv, Site

\* An operation begins: nothing ends.
LEMMA EnterStep ==
  ASSUME ProgramTypes, ProgramInv, NEW s \in Sites, Enter(s)
  PROVE  ProgramTypes' /\ ProgramInv' /\ Done' = Done
<1> DEFINE n == Len(ops) + 1
<1>1. /\ ops' \in Seq(Sites) /\ Len(ops') = n /\ ops'[n] = s /\ Len(ops) \in Nat
      /\ \A i \in 1..Len(ops) : ops'[i] = ops[i]
  BY AppendProperties, LenProperties DEF Enter, ProgramTypes
<1>2. /\ s.g \in Gor /\ stage[s.g] = "idle"
      /\ cur' = [cur EXCEPT ![s.g] = n] /\ stage' = [stage EXCEPT ![s.g] = "begun"]
      /\ UNCHANGED <<chanQ, took>>
  BY SiteType DEF Enter
<1>3. ProgramTypes'
  BY <1>1, <1>2 DEF ProgramTypes
<1>4. ProgramInv'
  BY <1>1, <1>2 DEF ProgramTypes, ProgramInv
<1>5. Live' = Live \union {n}
  BY <1>2 DEF Live, ProgramTypes
<1>6. n \notin 1..Len(ops) /\ 1..Len(ops') = 1..Len(ops) \union {n}
  BY <1>1
<1>7. Done' = Done
  BY <1>5, <1>6 DEF Done
<1> QED
  BY <1>3, <1>4, <1>7

\* A communication: nothing ends.
LEMMA MoveStep ==
  ASSUME ProgramTypes, ProgramInv, UNCHANGED <<ops, cur>>,
         stage' \in [Gor -> {"idle", "begun", "moved"}],
         \A g \in Gor : stage'[g] = "idle" <=> stage[g] = "idle"
  PROVE  ProgramInv' /\ Done' = Done
<1>1. ProgramInv'
  BY DEF ProgramInv
<1>2. Live' = Live
  BY DEF Live
<1> QED
  BY <1>1, <1>2 DEF Done

\* An operation ends.
LEMMA LeaveStep ==
  ASSUME ProgramTypes, ProgramInv, NEW g \in Gor, Leave(g)
  PROVE  /\ ProgramTypes' /\ ProgramInv' /\ Ends(cur[g])
         /\ Site(g) \in Sites
<1>1. /\ stage[g] = "moved" /\ stage' = [stage EXCEPT ![g] = "idle"]
      /\ cur' = [cur EXCEPT ![g] = 0] /\ UNCHANGED <<ops, chanQ, took>>
  BY DEF Leave
<1>2. Site(g) \in Sites /\ cur[g] \in Nat /\ cur[g] \in 1..Len(ops)
  BY <1>1, CurrentSite
<1>3. ProgramTypes' /\ ProgramInv'
  BY <1>1 DEF ProgramTypes, ProgramInv
<1>4. cur[g] \in Live
  BY <1>1 DEF Live
<1>5. \A h \in Gor : stage[h] # "idle" /\ cur[h] = cur[g] => h = g
  BY <1>1 DEF ProgramInv
<1>6. Live' = Live \ {cur[g]}
  BY <1>1, <1>5 DEF Live, ProgramTypes
<1>7. Ends(cur[g])
  BY <1>1, <1>2, <1>4, <1>6 DEF Ends, Done
<1> QED
  BY <1>2, <1>3, <1>7

\* The label of a pointer is one of the program's.
LEMMA LearnNameStep ==
  ASSUME nameOf \in [Chan -> Name \union {"none"}], NEW s \in Sites, LearnName(s)
  PROVE  nameOf' \in [Chan -> Name \union {"none"}]
<1>1. s.ptr # NoPtr => s.ptr \in Chan
  BY SiteType, PairingAssumption DEF SitesOK
<1> QED
  BY <1>1, SiteType DEF LearnName

\* Types of the bookkeeping of a completed send.
LEMMA CommitSendStep ==
  ASSUME AtomicTypes, NEW s \in Sites, NEW op \in Nat, CommitSend(op, s)
  PROVE  AtomicTypes'
<1>1. s.ptr # NoPtr => s.ptr \in Chan
  BY SiteType, PairingAssumption DEF SitesOK
<1>2. CASE BufferedChan(s)
  <2>1. depth' = [depth EXCEPT ![s.ptr] = IF @ < Cap[s.ptr] THEN @ + 1 ELSE @]
    BY <1>2 DEF CommitSend
  <2>2. buffered' = [buffered EXCEPT ![s.ptr] = @ \union {op}] /\ UNCHANGED <<sndAtt, commits>>
    BY <1>2 DEF CommitSend
  <2> QED
    BY <1>1, <1>2, <2>1, <2>2 DEF AtomicTypes, BufferedChan
<1>3. CASE ~BufferedChan(s)
  BY <1>3 DEF CommitSend, AtomicTypes
<1> QED
  BY <1>2, <1>3

\* Types of the bookkeeping of a completed receive.
LEMMA CommitRecvStep ==
  ASSUME AtomicTypes, NEW s \in Sites, NEW op \in Nat, CommitRecv(op, s)
  PROVE  AtomicTypes'
<1> DEFINE q    == sndAtt[OpKey(s)]
           pair == IF q = <<>> THEN op ELSE Head(q)
<1>1. s.ptr # NoPtr => s.ptr \in Chan
  BY SiteType, PairingAssumption DEF SitesOK
<1>2. OpKey(s) \in Key /\ q \in Seq(Nat)
  BY SiteType DEF AtomicTypes
<1>3. pair \in Nat /\ (q # <<>> => Tail(q) \in Seq(Nat))
  BY <1>2, HeadTailProperties
<1>4. sndAtt' \in [Key -> Seq(Nat)] /\ commits' \subseteq Nat \X Nat
  BY <1>2, <1>3 DEF CommitRecv, AtomicTypes
<1>5. depth' \in [Chan -> Nat] /\ buffered' \in [Chan -> SUBSET Nat]
  <2>1. CASE BufferedChan(s) /\ pair \in buffered[s.ptr]
    <3>1. /\ buffered' = [buffered EXCEPT ![s.ptr] = @ \ {pair}]
          /\ depth' = [depth EXCEPT ![s.ptr] = IF @ > 0 THEN @ - 1 ELSE 0]
      BY <2>1 DEF CommitRecv
    <3> QED
      BY <1>1, <2>1, <3>1 DEF AtomicTypes, BufferedChan
  <2>2. CASE ~(BufferedChan(s) /\ pair \in buffered[s.ptr])
    BY <2>2 DEF CommitRecv, AtomicTypes
  <2> QED
    BY <2>1, <2>2
<1> QED
  BY <1>4, <1>5 DEF AtomicTypes

\* The invariant, with types in parts.
Parts ==
    /\ ProgramTypes /\ QueueTypes /\ AtomicTypes
    /\ nameOf \in [Chan -> Name \union {"none"}]
    /\ ProgramInv /\ QueueInv

\* The two forms of the invariant are one.
LEMMA InParts == IInv <=> Parts
  BY DEF IInv, Parts, TypeOK, ProgramTypes, QueueTypes, AtomicTypes

\* The invariant holds before the program begins.
LEMMA Initially == Init => IInv
<1> SUFFICES ASSUME Init PROVE IInv
  OBVIOUS
<1>1. Elems(<<>>) = {} /\ Distinct(<<>>) /\ 1..0 = {} /\ Len(<<>>) = 0
  BY DEF Elems, Distinct
<1>2. TypeOK /\ ProgramInv
  BY DEF Init, TypeOK, ProgramInv
<1>3. All(sends) = {} /\ All(recvs) = {}
  BY <1>1 DEF Init, All
<1>4. Separate(sends) /\ Separate(recvs)
  BY <1>1 DEF Init, Separate
<1>5. MessageInv /\ SendsInv /\ RecvsInv /\ PairsInv
  BY <1>1, <1>3, <1>4 DEF Init, MessageInv, SendsInv, RecvsInv, PairsInv
<1>6. PairedOnce /\ NeverBothWaiting
  BY DEF Init, PairedOnce, NeverBothWaiting
<1> QED
  BY <1>2, <1>5, <1>6 DEF IInv, QueueInv

\* Every event of the trace, and every step between, keeps the invariant.
LEMMA Inductive == IInv /\ [Next]_vars => IInv'
<1> SUFFICES ASSUME IInv, [Next]_vars PROVE IInv'
  OBVIOUS
<1>1. /\ ProgramTypes /\ QueueTypes /\ AtomicTypes /\ nameOf \in [Chan -> Name \union {"none"}]
      /\ ProgramInv /\ QueueInv
  BY InParts DEF Parts
<1>2. ASSUME NEW s \in Sites, RegionBegin(s) PROVE Parts'
  <2>1. ProgramTypes' /\ ProgramInv' /\ Done' = Done
    BY <1>1, <1>2, EnterStep DEF RegionBegin
  <2>2. QueueTypes' /\ QueueInv'
    BY <1>1, <1>2, <2>1, QueuesStay DEF RegionBegin
  <2>3. nameOf' \in [Chan -> Name \union {"none"}]
    BY <1>1, <1>2, LearnNameStep DEF RegionBegin
  <2>4. AtomicTypes'
    <3>1. Append(sndAtt[OpKey(s)], Len(ops) + 1) \in Seq(Nat) /\ OpKey(s) \in Key
      BY <1>1, SiteType, AppendProperties, LenProperties DEF AtomicTypes, ProgramTypes
    <3> QED
      BY <1>1, <1>2, <3>1 DEF RegionBegin, AtomicTypes
  <2> QED
    BY <2>1, <2>2, <2>3, <2>4 DEF Parts
<1>3. ASSUME NEW s \in Sites, SelectBegin(s) PROVE Parts'
  <2>1. ProgramTypes' /\ ProgramInv' /\ Done' = Done
    BY <1>1, <1>3, EnterStep DEF SelectBegin
  <2>2. QueueTypes' /\ QueueInv'
    BY <1>1, <1>3, <2>1, QueuesStay DEF SelectBegin
  <2> QED
    BY <1>1, <1>3, <2>1, <2>2 DEF SelectBegin, atomic, AtomicTypes, Parts
<1>4. ASSUME UNCHANGED <<ops, cur, queues, nameOf, atomic>>, ProgramTypes',
             \A g \in Gor : stage'[g] = "idle" <=> stage[g] = "idle"
      PROVE  Parts'
  <2>1. ProgramInv' /\ Done' = Done
    BY <1>1, <1>4, MoveStep DEF ProgramTypes
  <2>2. QueueTypes' /\ QueueInv'
    BY <1>1, <1>4, <2>1, QueuesStay
  <2> QED
    BY <1>1, <1>4, <2>1, <2>2 DEF atomic, AtomicTypes, Parts
<1>5. ASSUME NEW g \in Gor, Put(g) PROVE Parts'
  <2>1. Site(g) \in Sites /\ cur[g] \in Nat /\ Site(g).ch \in Chan
    BY <1>1, <1>5, CurrentSite, SiteType DEF Put
  <2>2. Append(chanQ[Site(g).ch], cur[g]) \in Seq(Nat)
    BY <1>1, <2>1, AppendProperties DEF ProgramTypes
  <2>3. ProgramTypes'
    BY <1>1, <1>5, <2>1, <2>2 DEF Put, ProgramTypes
  <2> QED
    BY <1>1, <1>4, <1>5, <2>3 DEF Put, ProgramTypes, Parts
<1>6. ASSUME NEW g \in Gor, Take(g) PROVE Parts'
  <2>1. Site(g) \in Sites /\ cur[g] \in Nat /\ Site(g).ch \in Chan
    BY <1>1, <1>6, CurrentSite, SiteType DEF Take
  <2>2. Head(chanQ[Site(g).ch]) \in Nat /\ Tail(chanQ[Site(g).ch]) \in Seq(Nat)
    BY <1>1, <1>6, <2>1, HeadTailProperties DEF ProgramTypes, Take
  <2>3. ProgramTypes'
    BY <1>1, <1>6, <2>1, <2>2 DEF Take, ProgramTypes
  <2> QED
    BY <1>1, <1>4, <1>6, <2>3 DEF Take, ProgramTypes, Parts
<1>7. ASSUME NEW g \in Gor, NEW h \in Gor, Meet(g, h) PROVE Parts'
  <2>1. cur[g] \in Nat /\ cur[h] \in Nat
    BY <1>1 DEF ProgramTypes
  <2>2. ProgramTypes'
    <3>1. stage' = [stage EXCEPT ![g] = "moved", ![h] = "moved"]
      BY <1>7 DEF Meet
    <3>2. stage' \in [Gor -> {"idle", "begun", "moved"}]
      BY <1>1, <3>1 DEF ProgramTypes
    <3>3. took' \subseteq Nat \X Nat /\ UNCHANGED <<ops, cur, chanQ>>
      BY <1>1, <1>7, <2>1 DEF Meet, ProgramTypes
    <3> QED
      BY <1>1, <3>2, <3>3 DEF ProgramTypes
  <2> QED
    BY <1>1, <1>4, <1>7, <2>2 DEF Meet, ProgramTypes, Parts
<1>8. ASSUME NEW g \in Gor, Leave(g)
      PROVE  ProgramTypes' /\ ProgramInv' /\ Ends(cur[g]) /\ Site(g) \in Sites /\ cur[g] \in Nat
  BY <1>1, <1>8, LeaveStep DEF Ends
<1>9. ASSUME NEW g \in Gor, SendRegionEnd(g) PROVE Parts'
  <2>1. QueueTypes' /\ QueueInv'
    BY <1>1, <1>8, <1>9, CompleteSendStep DEF SendRegionEnd
  <2>2. AtomicTypes'
    BY <1>1, <1>8, <1>9, CommitSendStep DEF SendRegionEnd
  <2> QED
    BY <1>1, <1>8, <1>9, <2>1, <2>2 DEF SendRegionEnd, Parts
<1>10. ASSUME NEW g \in Gor, RecvRegionEnd(g) PROVE Parts'
  <2>1. QueueTypes' /\ QueueInv'
    BY <1>1, <1>8, <1>10, CompleteRecvStep DEF RecvRegionEnd
  <2>2. AtomicTypes'
    BY <1>1, <1>8, <1>10, CommitRecvStep DEF RecvRegionEnd
  <2> QED
    BY <1>1, <1>8, <1>10, <2>1, <2>2 DEF RecvRegionEnd, Parts
<1>11. ASSUME NEW g \in Gor, SelectSend(g) PROVE Parts'
  <2>1. QueueTypes' /\ QueueInv'
    BY <1>1, <1>8, <1>11, CompleteSendStep DEF SelectSend
  <2>2. nameOf' \in [Chan -> Name \union {"none"}]
    BY <1>1, <1>8, <1>11, LearnNameStep DEF SelectSend
  <2>3. AtomicTypes'
    BY <1>1, <1>11 DEF SelectSend, atomic, AtomicTypes
  <2> QED
    BY <1>8, <1>11, <2>1, <2>2, <2>3 DEF SelectSend, Parts
<1>12. ASSUME NEW g \in Gor, SelectRecv(g) PROVE Parts'
  <2>1. QueueTypes' /\ QueueInv'
    BY <1>1, <1>8, <1>12, CompleteSelectRecvStep DEF SelectRecv
  <2>2. nameOf' \in [Chan -> Name \union {"none"}]
    BY <1>1, <1>8, <1>12, LearnNameStep DEF SelectRecv
  <2>3. AtomicTypes'
    BY <1>1, <1>12 DEF SelectRecv, atomic, AtomicTypes
  <2> QED
    BY <1>8, <1>12, <2>1, <2>2, <2>3 DEF SelectRecv, Parts
<1>13. ASSUME UNCHANGED vars PROVE Parts'
  <2>1. UNCHANGED <<ops, cur, queues, nameOf, atomic>> /\ UNCHANGED <<stage, chanQ, took>>
    BY <1>13 DEF vars, program
  <2>2. ProgramTypes'
    BY <1>1, <2>1 DEF ProgramTypes
  <2>3. \A g \in Gor : stage'[g] = "idle" <=> stage[g] = "idle"
    BY <2>1
  <2> QED
    BY <1>4, <2>1, <2>2, <2>3
<1>14. ASSUME Next PROVE Parts'
  <2>1. CASE \E s \in Sites : RegionBegin(s) \/ SelectBegin(s)
    BY <1>2, <1>3, <2>1
  <2>2. CASE \E g, h \in Gor : Meet(g, h)
    BY <1>7, <2>2
  <2>3. CASE \E g \in Gor : \/ Put(g) \/ Take(g) \/ SendRegionEnd(g) \/ RecvRegionEnd(g)
                          \/ SelectSend(g) \/ SelectRecv(g)
    BY <1>5, <1>6, <1>9, <1>10, <1>11, <1>12, <2>3
  <2> QED
    BY <1>14, <2>1, <2>2, <2>3 DEF Next
<1>15. Parts'
  BY <1>13, <1>14
<1> QED
  BY <1>15, InParts, PTL

-----------------------------------------------------------------------------
(* One label, one channel *)

\* No two channels share a label.
Unambiguous == \A s, t \in Sites : s.name = t.name => s.ch = t.ch

\* A key an operation of site s may be queued or looked up under.
KeyOf(s, k) == k = s.ch \/ k = s.name

\* The parser has seen a pointer with the label it keeps for it.
LabelInv == \A c \in Chan : nameOf[c] # "none" => \E s \in Sites : s.ch = c /\ s.name = nameOf[c]

\* What is queued under a key belongs there.
OriginInv ==
    \A k \in Key : /\ \A i \in Elems(sends[k]) : KeyOf(ops[msgs[i]], k)
                   /\ \A r \in Elems(recvs[k]) : KeyOf(ops[r], k)

ChannelInv == LabelInv /\ OriginInv /\ SameChannel

\* Two operations of one key are on one channel.
LEMMA KeyIsChannel ==
  ASSUME Unambiguous, NEW s \in Sites, NEW t \in Sites, NEW k, KeyOf(s, k), KeyOf(t, k)
  PROVE  s.ch = t.ch
  BY SiteType, PairingAssumption DEF Unambiguous, KeyOf

\* Every lookup stays on the channel of the operation.
LEMMA LookupIsKey ==
  ASSUME Unambiguous, LabelInv, NEW s \in Sites, NEW k \in Key
  PROVE  /\ KeyOf(s, OpKey(s))
         /\ Named(k, s.name) => KeyOf(s, k)
         /\ \A W : k \in Waiting(s, W) => KeyOf(s, k)
         /\ \A b : k \in Source(s, b) => KeyOf(s, k)
<1>1. KeyOf(s, OpKey(s))
  BY PairingAssumption DEF SitesOK, OpKey, KeyOf
<1>2. Named(k, s.name) => KeyOf(s, k)
  BY SiteType, PairingAssumption DEF Named, LabelInv, Unambiguous, KeyOf
<1>3. \A W : k \in Waiting(s, W) => k = OpKey(s) \/ Named(k, s.name)
  BY DEF Waiting
<1>4. \A b : k \in Source(s, b) => k = OpKey(s) \/ Named(k, s.name)
  BY DEF Source, SendQueueByName
<1> QED
  BY <1>1, <1>2, <1>3, <1>4

\* What the numbers in queues and pairs refer to.
LEMMA References ==
  ASSUME Parts
  PROVE  /\ \A k \in Key : \A i \in Elems(sends[k]) :
               i \in 1..Len(msgs) /\ msgs[i] \in 1..Len(ops) /\ ops[msgs[i]] \in Sites
         /\ \A k \in Key : \A r \in Elems(recvs[k]) : r \in 1..Len(ops) /\ ops[r] \in Sites
         /\ \A p \in pairs : p[1] \in 1..Len(ops) /\ p[2] \in 1..Len(ops)
<1>1. Done \subseteq 1..Len(ops) /\ \A i \in 1..Len(ops) : ops[i] \in Sites
  BY ElementOfSeq DEF Done, Parts, ProgramTypes
<1>2. \A k \in Key : Elems(sends[k]) \subseteq 1..Len(msgs) /\ Elems(recvs[k]) \subseteq Done
  BY DEF Parts, QueueInv, SendsInv, RecvsInv, All
<1>3. \A i \in 1..Len(msgs) : msgs[i] \in Done
  BY DEF Parts, QueueInv, MessageInv
<1>4. \A p \in pairs : p[1] \in Done /\ p[2] \in Done
  BY <1>3 DEF Parts, QueueInv, PairsInv
<1> QED
  BY <1>1, <1>2, <1>3, <1>4

\* A label is learned from a site that has it.
LEMMA LabelStep ==
  ASSUME nameOf \in [Chan -> Name \union {"none"}], LabelInv, NEW s \in Sites, LearnName(s)
  PROVE  LabelInv'
<1>1. s.ptr # NoPtr => s.ptr \in Chan /\ s.ptr = s.ch
  BY SiteType, PairingAssumption DEF SitesOK
<1> QED
  BY <1>1 DEF LearnName, LabelInv

\* Queues and pairs that stay refer to the same operations when one begins.
LEMMA OriginStays ==
  ASSUME Parts, OriginInv, SameChannel, UNCHANGED queues,
         \A i \in 1..Len(ops) : ops'[i] = ops[i]
  PROVE  OriginInv' /\ SameChannel'
<1>1. UNCHANGED <<msgs, sends, recvs, pairs>>
  BY DEF queues
<1> QED
  BY <1>1, References DEF OriginInv, SameChannel

\* An operation that ends: what the queues give it, and it gives them, is of its
\* channel.
LEMMA PopOrigin ==
  ASSUME NEW f \in [Key -> Seq(Nat)], NEW k \in Key, f[k] # <<>>, NEW h,
         h = [f EXCEPT ![k] = Tail(@)]
  PROVE  /\ Head(f[k]) \in Elems(f[k])
         /\ \A j \in Key : Elems(h[j]) \subseteq Elems(f[j])
<1>1. Head(f[k]) \in Elems(f[k]) /\ Elems(Tail(f[k])) \subseteq Elems(f[k])
  BY TailElems
<1>2. h[k] = Tail(f[k]) /\ \A j \in Key \ {k} : h[j] = f[j]
  OBVIOUS
<1> QED
  BY <1>1, <1>2

\* A completed send is paired with a receive of its channel, or queued under its key.
LEMMA SendChannel ==
  ASSUME Unambiguous, Parts, LabelInv, OriginInv, SameChannel, UNCHANGED ops,
         NEW s \in Sites, NEW op, op \in 1..Len(ops), ops[op] = s, CompleteSend(op, s)
  PROVE  OriginInv' /\ SameChannel'
<1>1. /\ msgs \in Seq(Nat) /\ Len(msgs) \in Nat /\ op \in Nat
      /\ sends \in [Key -> Seq(Nat)] /\ recvs \in [Key -> Seq(Nat)]
  BY LenProperties DEF Parts, QueueTypes
<1>2. msgs'[Len(msgs) + 1] = op /\ \A i \in 1..Len(msgs) : msgs'[i] = msgs[i]
  BY <1>1, AppendProperties DEF CompleteSend
<1>3. \A k \in Key : \A i \in Elems(sends[k]) : KeyOf(ops[msgs'[i]], k)
  BY <1>2, References DEF OriginInv
<1>4. ASSUME NEW k \in Waiting(s, RecvWaiting),
             recvs' = [recvs EXCEPT ![k] = Tail(@)],
             pairs' = pairs \union {<<op, Head(recvs[k])>>},
             UNCHANGED sends
      PROVE  OriginInv' /\ SameChannel'
  <2>1. k \in Key /\ recvs[k] # <<>>
    BY DEF Waiting, RecvWaiting
  <2>2. /\ Head(recvs[k]) \in Elems(recvs[k])
        /\ \A j \in Key : Elems(recvs'[j]) \subseteq Elems(recvs[j])
    BY <1>1, <1>4, <2>1, PopOrigin
  <2>3. OriginInv'
    BY <1>3, <1>4, <2>2 DEF OriginInv
  <2>4. KeyOf(s, k) /\ KeyOf(ops[Head(recvs[k])], k) /\ ops[Head(recvs[k])] \in Sites
    BY <2>1, <2>2, LookupIsKey, References DEF OriginInv
  <2>5. ops[Head(recvs[k])].ch = s.ch
    BY <2>4, KeyIsChannel
  <2>6. SameChannel'
    BY <1>4, <2>5 DEF SameChannel
  <2> QED
    BY <2>3, <2>6
<1>5. ASSUME UNCHANGED <<sends, recvs, pairs>>
      PROVE  OriginInv' /\ SameChannel'
  BY <1>3, <1>5 DEF OriginInv, SameChannel
<1>6. ASSUME sends' = [sends EXCEPT ![OpKey(s)] = Append(@, Len(msgs) + 1)],
             UNCHANGED <<recvs, pairs>>
      PROVE  OriginInv' /\ SameChannel'
  <2>1. PICK k \in Key : k = OpKey(s)
    BY SiteType
  <2>2. PICK n \in Nat : n = Len(msgs) + 1
    BY <1>1
  <2>3. sends' = [sends EXCEPT ![k] = Append(@, n)]
    BY <1>6, <2>1, <2>2
  <2>4. \A j \in Key : Elems(sends'[j]) \subseteq Elems(sends[j]) \union (IF j = k THEN {n} ELSE {})
    <3>1. sends'[k] = Append(sends[k], n) /\ \A j \in Key \ {k} : sends'[j] = sends[j]
      BY <1>1, <2>3
    <3>2. Elems(Append(sends[k], n)) = Elems(sends[k]) \union {n}
      BY <1>1, AppendElems
    <3>3. Elems(sends'[k]) = Elems(sends[k]) \union {n}
      BY <3>1, <3>2
    <3> QED
      BY <3>1, <3>3
  <2>5. KeyOf(ops[msgs'[n]], k)
    BY <1>2, <2>1, <2>2, LookupIsKey
  <2>6. OriginInv'
    BY <1>3, <1>6, <2>4, <2>5 DEF OriginInv
  <2> QED
    BY <1>6, <2>6 DEF SameChannel
<1> QED
  BY <1>4, <1>5, <1>6 DEF CompleteSend

\* A receive that takes a message takes one of its channel.
LEMMA TakeChannel ==
  ASSUME Unambiguous, Parts, LabelInv, OriginInv, SameChannel, UNCHANGED <<ops, msgs, recvs>>,
         NEW s \in Sites, NEW op, op \in 1..Len(ops), ops[op] = s,
         NEW b, NEW k \in Source(s, b),
         sends' = [sends EXCEPT ![k] = Tail(@)],
         UNCHANGED pairs \/ pairs' = pairs \union {<<msgs[Head(sends[k])], op>>}
  PROVE  OriginInv' /\ SameChannel'
<1>1. k \in Key /\ sends[k] # <<>> /\ sends \in [Key -> Seq(Nat)]
  BY SourceHasMessage DEF Parts, QueueTypes
<1>2. /\ Head(sends[k]) \in Elems(sends[k])
      /\ \A j \in Key : Elems(sends'[j]) \subseteq Elems(sends[j])
  BY <1>1, PopOrigin
<1>3. OriginInv'
  BY <1>2 DEF OriginInv
<1>4. PICK m : m = msgs[Head(sends[k])]
  OBVIOUS
<1>5. KeyOf(s, k) /\ KeyOf(ops[m], k) /\ ops[m] \in Sites
  BY <1>1, <1>2, <1>4, LookupIsKey, References DEF OriginInv
<1>6. ops[m].ch = s.ch
  BY <1>5, KeyIsChannel
<1>7. UNCHANGED pairs \/ pairs' = pairs \union {<<m, op>>}
  BY <1>4
<1>8. SameChannel'
  BY <1>6, <1>7 DEF SameChannel
<1> QED
  BY <1>3, <1>8

\* A completed receive takes a message of its channel, or waits under its key.
LEMMA RecvChannel ==
  ASSUME Unambiguous, Parts, LabelInv, OriginInv, SameChannel, UNCHANGED ops,
         NEW s \in Sites, NEW op, op \in 1..Len(ops), ops[op] = s,
         CompleteRecv(op, s) \/ CompleteSelectRecv(op, s)
  PROVE  OriginInv' /\ SameChannel'
<1>1. recvs \in [Key -> Seq(Nat)] /\ op \in Nat
  BY LenProperties DEF Parts, QueueTypes, ProgramTypes
<1>2. ASSUME recvs' = [recvs EXCEPT ![OpKey(s)] = Append(@, op)],
             UNCHANGED <<msgs, sends, pairs>>
      PROVE  OriginInv' /\ SameChannel'
  <2>1. PICK k \in Key : k = OpKey(s)
    BY SiteType
  <2>2. recvs' = [recvs EXCEPT ![k] = Append(@, op)]
    BY <1>2, <2>1
  <2>3. \A j \in Key :
            Elems(recvs'[j]) \subseteq Elems(recvs[j]) \union (IF j = k THEN {op} ELSE {})
    <3>1. recvs'[k] = Append(recvs[k], op) /\ \A j \in Key \ {k} : recvs'[j] = recvs[j]
      BY <1>1, <2>2
    <3>2. Elems(Append(recvs[k], op)) = Elems(recvs[k]) \union {op}
      BY <1>1, AppendElems
    <3>3. Elems(recvs'[k]) = Elems(recvs[k]) \union {op}
      BY <3>1, <3>2
    <3> QED
      BY <3>1, <3>3
  <2>4. KeyOf(ops[op], k)
    BY <2>1, LookupIsKey
  <2>5. OriginInv'
    BY <1>2, <2>3, <2>4 DEF OriginInv
  <2> QED
    BY <1>2, <2>5 DEF SameChannel
<1>3. ASSUME UNCHANGED <<msgs, sends, recvs, pairs>>
      PROVE  OriginInv' /\ SameChannel'
  BY <1>3 DEF OriginInv, SameChannel
<1>4. CASE CompleteRecv(op, s)
  <2>1. ASSUME NEW k \in Source(s, s.ptr = NoPtr), UNCHANGED <<msgs, recvs>>,
               \/ sends' = [sends EXCEPT ![k] = Tail(@)] /\ UNCHANGED pairs
               \/ PairWith(op, k)
        PROVE  OriginInv' /\ SameChannel'
    BY <2>1, TakeChannel DEF PairWith
  <2> QED
    BY <1>2, <1>4, <2>1 DEF CompleteRecv
<1>5. CASE CompleteSelectRecv(op, s)
  <2>1. ASSUME NEW k \in Source(s, TRUE), UNCHANGED <<msgs, recvs>>, PairWith(op, k)
        PROVE  OriginInv' /\ SameChannel'
    BY <2>1, TakeChannel DEF PairWith
  <2> QED
    BY <1>3, <1>5, <2>1 DEF CompleteSelectRecv
<1> QED
  BY <1>4, <1>5

\* Every step keeps channels apart.
LEMMA ChannelStep == Unambiguous /\ IInv /\ ChannelInv /\ [Next]_vars => ChannelInv'
<1> SUFFICES ASSUME Unambiguous, IInv, LabelInv, OriginInv, SameChannel, [Next]_vars
             PROVE  LabelInv' /\ OriginInv' /\ SameChannel'
  BY DEF ChannelInv
<1>1. /\ Parts /\ ProgramTypes /\ ProgramInv /\ ops \in Seq(Sites)
      /\ nameOf \in [Chan -> Name \union {"none"}]
  BY InParts DEF Parts, ProgramTypes
<1>2. ASSUME UNCHANGED nameOf PROVE LabelInv'
  BY <1>2 DEF LabelInv
<1>3. ASSUME NEW s \in Sites, Enter(s), UNCHANGED queues PROVE OriginInv' /\ SameChannel'
  <2>1. \A i \in 1..Len(ops) : ops'[i] = ops[i]
    BY <1>1, <1>3, AppendProperties DEF Enter
  <2> QED
    BY <1>1, <1>3, <2>1, OriginStays
<1>4. ASSUME UNCHANGED <<ops, queues>> PROVE OriginInv' /\ SameChannel'
  BY <1>1, <1>4, OriginStays
<1>5. ASSUME NEW g \in Gor, Leave(g)
      PROVE  Site(g) \in Sites /\ cur[g] \in 1..Len(ops) /\ ops[cur[g]] = Site(g) /\ UNCHANGED ops
  BY <1>1, <1>5, CurrentSite DEF Leave, Site
<1>6. ASSUME NEW s \in Sites, RegionBegin(s) \/ SelectBegin(s)
      PROVE  LabelInv' /\ OriginInv' /\ SameChannel'
  BY <1>1, <1>2, <1>3, <1>6, LabelStep DEF RegionBegin, SelectBegin
<1>7. ASSUME NEW g \in Gor, Put(g) \/ Take(g) PROVE LabelInv' /\ OriginInv' /\ SameChannel'
  BY <1>2, <1>4, <1>7 DEF Put, Take
<1>8. ASSUME NEW g \in Gor, NEW h \in Gor, Meet(g, h) PROVE LabelInv' /\ OriginInv' /\ SameChannel'
  BY <1>2, <1>4, <1>8 DEF Meet
<1>9. ASSUME NEW g \in Gor, SendRegionEnd(g) PROVE LabelInv' /\ OriginInv' /\ SameChannel'
  BY <1>1, <1>2, <1>5, <1>9, SendChannel DEF SendRegionEnd
<1>10. ASSUME NEW g \in Gor, RecvRegionEnd(g) PROVE LabelInv' /\ OriginInv' /\ SameChannel'
  BY <1>1, <1>2, <1>5, <1>10, RecvChannel DEF RecvRegionEnd
<1>11. ASSUME NEW g \in Gor, SelectSend(g) PROVE LabelInv' /\ OriginInv' /\ SameChannel'
  BY <1>1, <1>5, <1>11, SendChannel, LabelStep DEF SelectSend
<1>12. ASSUME NEW g \in Gor, SelectRecv(g) PROVE LabelInv' /\ OriginInv' /\ SameChannel'
  BY <1>1, <1>5, <1>12, RecvChannel, LabelStep DEF SelectRecv
<1>13. CASE UNCHANGED vars
  BY <1>2, <1>4, <1>13 DEF vars, program
<1>14. CASE Next
  <2>1. CASE \E s \in Sites : RegionBegin(s) \/ SelectBegin(s)
    BY <1>6, <2>1
  <2>2. CASE \E g, h \in Gor : Meet(g, h)
    BY <1>8, <2>2
  <2>3. CASE \E g \in Gor : \/ Put(g) \/ Take(g) \/ SendRegionEnd(g) \/ RecvRegionEnd(g)
                          \/ SelectSend(g) \/ SelectRecv(g)
    BY <1>7, <1>9, <1>10, <1>11, <1>12, <2>3
  <2> QED
    BY <1>14, <2>1, <2>2, <2>3 DEF Next
<1> QED
  BY <1>13, <1>14

-----------------------------------------------------------------------------
(* What the program did with its channels.                                 *)

\* Operations that wait for their communication, and those it has happened to.
Begun == {cur[g] : g \in {h \in Gor : stage[h] = "begun"}}
Moved == (1..Len(ops)) \ Begun

Increasing(q) == \A i, j \in 1..Len(q) : i < j => q[i] < q[j]

\* The operation a goroutine is in is its last.
Latest ==
    \A g \in Gor : stage[g] # "idle" => \A i \in 1..Len(ops) : ops[i].g = g => i <= cur[g]

\* A value goes from one send to one receive of the same channel.
TookRefs ==
    \A p \in took : /\ p[1] \in Moved /\ ops[p[1]].kind = "send"
                    /\ p[2] \in Moved /\ ops[p[2]].kind = "recv"
                    /\ ops[p[1]].ch = ops[p[2]].ch
TookOnce == \A p, q \in took : p[1] = q[1] \/ p[2] = q[2] => p = q

\* What a channel holds was sent on it and has not been taken.
HeldRefs ==
    \A c \in Chan : \A i \in Elems(chanQ[c]) :
        /\ i \in Moved /\ ops[i].kind = "send" /\ ops[i].ch = c
        /\ \A p \in took : p[1] # i
HeldOnce == \A c \in Chan : Distinct(chanQ[c])

\* What was sent is in the channel or taken; what was received was taken.
SentAll ==
    \A i \in Moved : ops[i].kind = "send" =>
        i \in Elems(chanQ[ops[i].ch]) \/ \E p \in took : p[1] = i
ReceivedAll == \A i \in Moved : ops[i].kind = "recv" => \E p \in took : p[2] = i

\* A pipe delivers in the order of sending.
InOrder ==
    \A c \in Chan : Pipe(c) =>
        /\ Increasing(chanQ[c])
        /\ \A p \in took : ops[p[1]].ch = c => \A i \in Elems(chanQ[c]) : p[1] < i
        /\ \A p, q \in took : ops[p[1]].ch = c /\ ops[q[1]].ch = c /\ p[1] < q[1] => p[2] < q[2]

TruthInv ==
    Latest /\ TookRefs /\ TookOnce /\ HeldRefs /\ HeldOnce /\ SentAll /\ ReceivedAll /\ InOrder

-----------------------------------------------------------------------------
(* What the parser has queued of a channel.                                *)

\* What is queued under a key was done with that key.
KeyedSends ==
    \A k \in Key : \A m \in Elems(sends[k]) : OpKey(ops[msgs[m]]) = k /\ ops[msgs[m]].kind = "send"
KeyedRecvs ==
    \A k \in Key : \A r \in Elems(recvs[k]) : OpKey(ops[r]) = k /\ ops[r].kind = "recv"
KeyedAttempts ==
    \A k \in Key : \A x \in Elems(sndAtt[k]) :
        /\ x \in 1..Len(ops) /\ OpKey(ops[x]) = k
        /\ ops[x].kind = "send" /\ ops[x].via = "region"
CommitRefs == \A p \in commits : p[1] \in 1..Len(ops)
KeyInv == KeyedSends /\ KeyedRecvs /\ KeyedAttempts /\ CommitRefs

\* The three kinds of steps: an operation begins, values move, an operation ends.
Begins(s) == RegionBegin(s) \/ SelectBegin(s)
Flows ==
    /\ UNCHANGED <<ops, queues, nameOf, sndAtt, commits>>
    /\ Done' = Done /\ took \subseteq took' /\ \A p \in took' \ took : p[2] \notin Done
EndOf(g) == SendRegionEnd(g) \/ RecvRegionEnd(g) \/ SelectSend(g) \/ SelectRecv(g)

\* What the end of the operation op at the site s does to the pairing.
Pairs(op, s) ==
    \/ /\ s.kind = "send" /\ CompleteSend(op, s) /\ UNCHANGED <<sndAtt, commits>>
    \/ /\ s.kind = "recv" /\ s.via = "region" /\ CompleteRecv(op, s) /\ CommitRecv(op, s)
    \/ /\ s.kind = "recv" /\ s.via = "select"
       /\ CompleteSelectRecv(op, s) /\ UNCHANGED <<sndAtt, commits>>
Ending(op, s) ==
    /\ s \in Sites /\ op \in Moved /\ ops[op] = s /\ Ends(op)
    /\ UNCHANGED <<ops, took>> /\ Pairs(op, s)
    /\ s.via = "region" => UNCHANGED nameOf
    /\ s.via = "select" => LearnName(s)

\* The channel c has the label to itself; its sends are keyed by sk and its
\* receives by rk, each by the pointer or by the label.  Only a receive may have
\* lost a pointer the other side has.
KeyedAs(c, label, sk, rk) ==
    /\ c \in Chan /\ label \in Name /\ sk \in {c, label} /\ rk \in {c, label}
    /\ sk = c \/ rk = label
    /\ \A s \in Sites : s.ch = c <=> s.name = label
    /\ \A s \in Sites : s.ch = c => OpKey(s) = IF s.kind = "send" THEN sk ELSE rk

\* Every receive of the channel is in a region.
Traced(c, label, sk, rk) ==
    /\ KeyedAs(c, label, sk, rk)
    /\ \A s \in Sites : s.ch = c /\ s.kind = "recv" => s.via = "region"

\* The label leads to the channel and to no other, and does so once it is needed.
NameView(c, label) ==
    /\ \A d \in Chan : nameOf[d] = label => d = c
    /\ nameOf[c] \in {"none", label}
    /\ \A i \in 1..Len(ops) : ops[i].ptr = c /\ ops[i].via = "region" => nameOf[c] = label
    /\ sends[c] # <<>> => nameOf[c] = label
Uncounted(c, label) == selRecv[c] = 0 /\ selRecv[label] = 0
LabelView(c, label) == NameView(c, label) /\ Uncounted(c, label)

\* The sends and the receives that wait, on a channel or under its keys.
On(c, kind) == {i \in 1..Len(ops) : ops[i].ch = c /\ ops[i].kind = kind}
QSd(sk) == {msgs[m] : m \in Elems(sends[sk])}
QRv(rk) == Elems(recvs[rk])
NotBoth(sk, rk) == sends[sk] = <<>> \/ recvs[rk] = <<>>

\* Those that have ended and wait no more.
SendsGone(c, sk) == (On(c, "send") \intersect Done) \ QSd(sk)
RecvsGone(c, rk) == (On(c, "recv") \intersect Done) \ QRv(rk)

\* A pipe's queues are in the order of the program, and what has gone from them
\* has gone together with its peer.
QueueOrder(sk, rk) ==
    /\ \A i, j \in 1..Len(sends[sk]) : i < j => msgs[sends[sk][i]] < msgs[sends[sk][j]]
    /\ Increasing(recvs[rk])
Gone(c, sk, rk) ==
    /\ \A x \in SendsGone(c, sk) : \E p \in took : p[1] = x /\ p[2] \in RecvsGone(c, rk)
    /\ \A y \in RecvsGone(c, rk) : \E p \in took : p[2] = y /\ p[1] \in SendsGone(c, sk)
PairsTrue(c) == \A p \in pairs : ops[p[1]].ch = c => p \in took

\* The same of the attempts, which wait from the begin of a send to the end of a
\* receive.
InRegions(c) == \A s \in Sites : s.ch = c => s.via = "region"
Committed(c, sk) ==
    /\ Increasing(sndAtt[sk])
    /\ \A x \in On(c, "send") \ Elems(sndAtt[sk]) : \E p \in took : p[1] = x /\ p[2] \in Done
    /\ \A y \in On(c, "recv") \intersect Done : \E p \in took : p[2] = y /\ p[1] \notin Elems(sndAtt[sk])
CommitsTrue(c) == \A p \in commits : ops[p[1]].ch = c => p \in took

PipeView(c, sk, rk) ==
    /\ QueueOrder(sk, rk) /\ Gone(c, sk, rk) /\ PairsTrue(c) /\ CommitsTrue(c)
    /\ sk = rk /\ InRegions(c) => Committed(c, sk)

\* What has gone is in a pair of the channel.
AllPaired(c, sk, rk) ==
    /\ \A x \in SendsGone(c, sk) : \E p \in pairs : p[1] = x
    /\ \A y \in RecvsGone(c, rk) : \E p \in pairs : p[2] = y
PairsStay(c) == \A p \in pairs : ops[p[1]].ch = c => p[2] \in On(c, "recv")

\* The parser's view of a traced channel.
View(c, label, sk, rk) ==
    /\ LabelView(c, label) /\ NotBoth(sk, rk) /\ PairsStay(c)
    /\ label \notin SkipPairing => AllPaired(c, sk, rk)
    /\ Pipe(c) => PipeView(c, sk, rk)

\* An unbuffered pipe whose receiver selects.
Handed(c, label, sk, rk) ==
    /\ KeyedAs(c, label, sk, rk) /\ Pipe(c) /\ Cap[c] = 0
    /\ \A s \in Sites : s.ch = c /\ s.kind = "recv" => s.via = "select"

\* The parser's view of it: a send that waits has its receive under way, and a
\* receive whose send is under way is counted under the label.
HandView(c, label, sk) ==
    /\ NameView(c, label)
    /\ chanQ[c] = <<>> /\ recvs[c] = <<>> /\ recvs[label] = <<>>
    /\ \A x \in QSd(sk) : \E p \in took : p[1] = x /\ p[2] \notin Done
    /\ \A p \in took : ops[p[1]].ch = c /\ p[1] \notin Done /\ p[2] \in Done => selRecv[label] > 0
    /\ PairsTrue(c) /\ CommitsTrue(c)

Views ==
    \A c \in Chan, label \in Name : \A sk, rk \in {c, label} :
        /\ Traced(c, label, sk, rk) => View(c, label, sk, rk)
        /\ Handed(c, label, sk, rk) => HandView(c, label, sk)

\* All that holds of the program and of the parser together.
PeerInv == IInv /\ TruthInv /\ KeyInv /\ Views

\* The conditions of the theorems below: the pipes, or the channels received from
\* in a region, are of those kinds.
PipesTraced ==
    \A c \in Chan : Pipe(c) =>
        \E label \in Name : \E sk, rk \in {c, label} :
            Traced(c, label, sk, rk) \/ Handed(c, label, sk, rk)
RegionsTraced ==
    \A s \in Sites : s.kind = "recv" /\ s.via = "region" /\ s.name \notin SkipPairing =>
        \E sk, rk \in {s.ch, s.name} : Traced(s.ch, s.name, sk, rk)

\* The operations of a goroutine before its last have ended.
LEMMA Earlier ==
  ASSUME ProgramTypes, ProgramInv, Latest, NEW i \in 1..Len(ops), NEW j \in 1..Len(ops),
         ops[i].g = ops[j].g, i < j
  PROVE  i \in Done /\ i \in Moved
<1>1. Len(ops) \in Nat
  BY LenProperties DEF ProgramTypes
<1>2. i \notin Live
  <2> SUFFICES ASSUME NEW g \in Gor, stage[g] # "idle", cur[g] = i PROVE FALSE
    BY DEF Live
  <2>1. ops[j].g = g
    BY DEF ProgramInv
  <2> QED
    BY <1>1, <2>1 DEF Latest
<1>3. Begun \subseteq Live
  BY DEF Begun, Live
<1> QED
  BY <1>2, <1>3 DEF Done, Moved

\* An operation under way is the newest of its kind on a pipe.
LEMMA Newest ==
  ASSUME ProgramTypes, ProgramInv, Latest, NEW g \in Gor, stage[g] # "idle", Pipe(Site(g).ch),
         NEW i \in 1..Len(ops), ops[i].ch = Site(g).ch, ops[i].kind = Site(g).kind
  PROVE  i <= cur[g]
<1>1. Site(g) \in Sites /\ ops[i] \in Sites /\ Site(g).g = g
  BY CurrentSite, ElementOfSeq DEF ProgramTypes, ProgramInv, Site
<1>2. ops[i].g = g
  BY <1>1 DEF Pipe
<1> QED
  BY <1>2 DEF Latest

\* The operations that begin to wait, and those whose communication happened.
LEMMA EnterMoved ==
  ASSUME ProgramTypes, ProgramInv, NEW s \in Sites, Enter(s)
  PROVE  /\ Moved' = Moved /\ Len(ops) + 1 \notin Moved /\ Len(ops) \in Nat
         /\ Len(ops') = Len(ops) + 1 /\ ops'[Len(ops) + 1] = s
         /\ \A i \in 1..Len(ops) : ops'[i] = ops[i]
<1> DEFINE n == Len(ops) + 1
<1>1. /\ ops' \in Seq(Sites) /\ Len(ops') = n /\ ops'[n] = s /\ Len(ops) \in Nat
      /\ \A i \in 1..Len(ops) : ops'[i] = ops[i]
  BY AppendProperties, LenProperties DEF Enter, ProgramTypes
<1>2. /\ s.g \in Gor /\ stage[s.g] = "idle"
      /\ cur' = [cur EXCEPT ![s.g] = n] /\ stage' = [stage EXCEPT ![s.g] = "begun"]
  BY SiteType DEF Enter
<1>3. Begun' = Begun \union {n}
  BY <1>2 DEF Begun, ProgramTypes
<1>4. n \notin 1..Len(ops) /\ 1..Len(ops') = 1..Len(ops) \union {n}
  BY <1>1
<1> QED
  BY <1>1, <1>3, <1>4 DEF Moved

\* An operation that ends had happened.
LEMMA LeaveMoved ==
  ASSUME ProgramTypes, NEW g \in Gor, Leave(g)
  PROVE  Moved' = Moved
<1>1. Begun' = Begun
  BY DEF Leave, Begun, ProgramTypes
<1> QED
  BY <1>1 DEF Moved, Leave

\* Goroutines whose communication happens.
LEMMA MoveMoved ==
  ASSUME ProgramTypes, ProgramInv, NEW G \in SUBSET Gor, UNCHANGED <<ops, cur>>,
         \A g \in G : stage[g] = "begun",
         \A g \in Gor : stage'[g] = IF g \in G THEN "moved" ELSE stage[g]
  PROVE  /\ Moved' = Moved \union {cur[g] : g \in G}
         /\ \A g \in G : cur[g] \in (1..Len(ops)) \ Moved
<1>1. \A g, h \in Gor : stage[g] # "idle" /\ stage[h] # "idle" /\ cur[g] = cur[h] => g = h
  BY DEF ProgramInv
<1>2. Begun' = Begun \ {cur[g] : g \in G}
  BY <1>1 DEF Begun
<1>3. \A g \in G : cur[g] \in 1..Len(ops) /\ cur[g] \in Begun
  BY DEF ProgramInv, Begun
<1> QED
  BY <1>2, <1>3 DEF Moved

\* A larger number at the end of an increasing queue.
LEMMA AppendIncreasing ==
  ASSUME NEW q \in Seq(Nat), NEW x \in Nat, Increasing(q), \A i \in Elems(q) : i < x
  PROVE  Increasing(Append(q, x))
<1>1. /\ Len(q) \in Nat /\ Len(Append(q, x)) = Len(q) + 1 /\ Append(q, x)[Len(q) + 1] = x
      /\ \A i \in 1..Len(q) : Append(q, x)[i] = q[i]
  BY AppendProperties, LenProperties
<1>2. \A i \in 1..Len(q) : q[i] < x
  BY DEF Elems
<1> QED
  BY <1>1, <1>2 DEF Increasing

\* The rest of an increasing queue is increasing and above its head.
LEMMA TailIncreasing ==
  ASSUME NEW q \in Seq(Nat), q # <<>>, Increasing(q)
  PROVE  Increasing(Tail(q)) /\ \A i \in Elems(Tail(q)) : Head(q) < i
<1>1. /\ Len(q) \in Nat /\ Len(q) >= 1 /\ Len(Tail(q)) = Len(q) - 1 /\ Head(q) = q[1]
      /\ \A i \in 1..Len(Tail(q)) : Tail(q)[i] = q[i + 1]
  BY HeadTailProperties, LenProperties, EmptySeq
<1> QED
  BY <1>1 DEF Increasing, Elems

\* A queue is its head and its tail.
LEMMA TailSplit ==
  ASSUME NEW q \in Seq(Nat), q # <<>>
  PROVE  Elems(q) = Elems(Tail(q)) \union {Head(q)}
<1>1. /\ Len(q) \in Nat /\ Len(q) >= 1 /\ Len(Tail(q)) = Len(q) - 1 /\ Head(q) = q[1]
      /\ \A i \in 1..Len(Tail(q)) : Tail(q)[i] = q[i + 1]
  BY HeadTailProperties, LenProperties, EmptySeq
<1>2. \A i \in 2..Len(q) : i - 1 \in 1..Len(Tail(q)) /\ Tail(q)[i - 1] = q[i]
  BY <1>1
<1>3. \A i \in 1..Len(q) : i = 1 \/ i \in 2..Len(q)
  BY <1>1
<1>4. \A i \in 1..Len(q) : q[i] = Head(q) \/ q[i] \in Elems(Tail(q))
  BY <1>1, <1>2, <1>3 DEF Elems
<1>5. Elems(q) \subseteq Elems(Tail(q)) \union {Head(q)}
  BY <1>4 DEF Elems
<1> QED
  BY <1>5, TailElems

-----------------------------------------------------------------------------
(* What the program did, step by step.                                    *)

\* Steps after which the same communications have happened.
LEMMA TruthStays ==
  ASSUME ProgramTypes, TruthInv, UNCHANGED <<chanQ, took>>, Moved' = Moved, Latest',
         \A i \in 1..Len(ops) : ops'[i] = ops[i]
  PROVE  TruthInv'
<1> USE DEF TruthInv
<1>1. Moved \subseteq 1..Len(ops)
  BY DEF Moved
<1>2. \A i \in Moved : ops'[i] = ops[i]
  BY <1>1
<1>3. TookRefs' /\ TookOnce'
  BY <1>2 DEF TookRefs, TookOnce
<1>4. HeldRefs' /\ HeldOnce'
  BY <1>2 DEF HeldRefs, HeldOnce
<1>5. SentAll' /\ ReceivedAll'
  BY <1>2 DEF SentAll, ReceivedAll
<1>6. \A p \in took : ops'[p[1]] = ops[p[1]]
  BY <1>2 DEF TookRefs
<1>7. InOrder'
  BY <1>6 DEF InOrder
<1> QED
  BY <1>3, <1>4, <1>5, <1>7

\* An operation begins.
LEMMA TruthEnter ==
  ASSUME ProgramTypes, ProgramInv, TruthInv, NEW s \in Sites, Enter(s)
  PROVE  TruthInv'
<1>1. /\ Moved' = Moved /\ Len(ops) \in Nat /\ Len(ops') = Len(ops) + 1
      /\ ops'[Len(ops) + 1] = s /\ \A i \in 1..Len(ops) : ops'[i] = ops[i]
  BY EnterMoved
<1>2. /\ s.g \in Gor /\ stage[s.g] = "idle" /\ UNCHANGED <<chanQ, took>>
      /\ cur' = [cur EXCEPT ![s.g] = Len(ops) + 1] /\ stage' = [stage EXCEPT ![s.g] = "begun"]
  BY SiteType DEF Enter
<1>3. Latest'
  <2> SUFFICES ASSUME NEW g \in Gor, stage'[g] # "idle", NEW i \in 1..Len(ops'), ops'[i].g = g
               PROVE  i <= cur'[g]
    BY DEF Latest
  <2>1. CASE g = s.g
    BY <1>1, <1>2, <2>1 DEF ProgramTypes
  <2>2. CASE g # s.g
    <3>1. cur'[g] = cur[g] /\ stage[g] # "idle" /\ i # Len(ops) + 1
      BY <1>1, <1>2, <2>2 DEF ProgramTypes
    <3>2. i \in 1..Len(ops) /\ ops[i].g = g
      BY <1>1, <3>1
    <3> QED
      BY <3>1, <3>2 DEF TruthInv, Latest
  <2> QED
    BY <2>1, <2>2
<1> QED
  BY <1>1, <1>2, <1>3, TruthStays

\* An operation ends.
LEMMA TruthLeave ==
  ASSUME ProgramTypes, ProgramInv, TruthInv, NEW g \in Gor, Leave(g)
  PROVE  TruthInv'
<1>1. Moved' = Moved
  BY LeaveMoved
<1>2. Latest'
  BY DEF Leave, TruthInv, Latest, ProgramTypes
<1> QED
  BY <1>1, <1>2, TruthStays DEF Leave

\* A send puts its value into the channel.
LEMMA TruthPut ==
  ASSUME ProgramTypes, ProgramInv, TruthInv, NEW g \in Gor, Put(g)
  PROVE  TruthInv'
<1> USE DEF TruthInv
<1> DEFINE c == Site(g).ch
           x == cur[g]
<1>1. /\ stage[g] = "begun" /\ Site(g).kind = "send" /\ Site(g) \in Sites /\ c \in Chan
      /\ chanQ' = [chanQ EXCEPT ![c] = Append(@, x)] /\ stage' = [stage EXCEPT ![g] = "moved"]
      /\ UNCHANGED <<ops, cur, took>>
  BY CurrentSite, SiteType DEF Put
<1>2. Moved' = Moved \union {x} /\ x \in (1..Len(ops)) \ Moved
  BY <1>1, MoveMoved, {g} \in SUBSET Gor DEF ProgramTypes
<1>3. x \in Nat /\ chanQ \in [Chan -> Seq(Nat)] /\ ops[x] = Site(g)
  BY <1>1 DEF ProgramTypes, Site
<1>4. /\ chanQ'[c] = Append(chanQ[c], x) /\ Elems(chanQ'[c]) = Elems(chanQ[c]) \union {x}
      /\ \A d \in Chan \ {c} : chanQ'[d] = chanQ[d]
  BY <1>1, <1>3, AppendElems
<1>5. x \notin Elems(chanQ[c]) /\ \A p \in took : p[1] # x /\ p[2] # x
  BY <1>1, <1>2 DEF HeldRefs, TookRefs
<1>6. Latest'
  BY <1>1 DEF Latest, ProgramTypes
<1>7. TookRefs' /\ TookOnce'
  BY <1>1, <1>2 DEF TookRefs, TookOnce
<1>8. HeldRefs'
  <2> SUFFICES ASSUME NEW d \in Chan, NEW i \in Elems(chanQ'[d])
               PROVE  /\ i \in Moved' /\ ops[i].kind = "send" /\ ops[i].ch = d
                      /\ \A p \in took : p[1] # i
    BY <1>1 DEF HeldRefs
  <2>1. CASE d = c /\ i = x
    BY <1>1, <1>2, <1>3, <1>5, <2>1
  <2>2. CASE i \in Elems(chanQ[d])
    BY <1>2, <2>2 DEF HeldRefs
  <2> QED
    BY <1>4, <2>1, <2>2
<1>9. HeldOnce'
  BY <1>1, <1>3, <1>4, <1>5, AppendElems DEF HeldOnce
<1>10. SentAll' /\ ReceivedAll'
  <2>1. \A d \in Chan : Elems(chanQ[d]) \subseteq Elems(chanQ'[d])
    BY <1>4
  <2>2. \A i \in Moved : ops[i].ch \in Chan
    BY SiteType, ElementOfSeq DEF Moved, ProgramTypes
  <2> QED
    BY <1>1, <1>2, <1>3, <1>4, <2>1, <2>2 DEF SentAll, ReceivedAll
<1>11. InOrder'
  <2> SUFFICES ASSUME NEW d \in Chan, Pipe(d)
               PROVE  /\ Increasing(chanQ'[d])
                      /\ \A p \in took : ops[p[1]].ch = d => \A i \in Elems(chanQ'[d]) : p[1] < i
                      /\ \A p, q \in took : ops[p[1]].ch = d /\ ops[q[1]].ch = d /\ p[1] < q[1]
                            => p[2] < q[2]
    BY <1>1 DEF InOrder
  <2>1. CASE d # c
    BY <1>4, <2>1 DEF InOrder
  <2>2. CASE d = c
    <3>1. \A i \in 1..Len(ops) : ops[i].ch = c /\ ops[i].kind = "send" => i <= x
      BY <1>1, <2>2, Newest
    <3>2. \A i \in 1..Len(ops) : ops[i].ch = c /\ ops[i].kind = "send" /\ i # x => i < x
      BY <1>3, <3>1
    <3>3. \A i \in Moved : i \in 1..Len(ops)
      BY DEF Moved
    <3>4. \A i \in Elems(chanQ[c]) : i < x
      BY <1>1, <1>5, <3>2, <3>3 DEF HeldRefs
    <3>5. \A p \in took : ops[p[1]].ch = c => p[1] < x
      BY <1>5, <3>2, <3>3 DEF TookRefs
    <3>6. Increasing(Append(chanQ[c], x))
      BY <1>1, <1>3, <2>2, <3>4, AppendIncreasing DEF InOrder
    <3> QED
      BY <1>4, <2>2, <3>5, <3>6 DEF InOrder
  <2> QED
    BY <2>1, <2>2
<1> QED
  BY <1>6, <1>7, <1>8, <1>9, <1>10, <1>11

\* A receive y gets the value of a send x, from the channel or from hand to hand.
LEMMA TruthMatch ==
  ASSUME ProgramTypes, TruthInv, Latest', UNCHANGED ops, NEW c \in Chan, NEW x, NEW y,
         x \in 1..Len(ops), ops[x].ch = c, ops[x].kind = "send", \A p \in took : p[1] # x,
         y \in 1..Len(ops), ops[y].ch = c, ops[y].kind = "recv", y \notin Moved,
         took' = took \union {<<x, y>>}, Moved' = Moved \union {x, y},
         \A d \in Chan \ {c} : chanQ'[d] = chanQ[d],
         Elems(chanQ'[c]) = Elems(chanQ[c]) \ {x}, Distinct(chanQ'[c]),
         Pipe(c) => /\ \A p \in took : ops[p[1]].ch = c => p[1] < x /\ p[2] < y
                    /\ Increasing(chanQ'[c]) /\ \A i \in Elems(chanQ'[c]) : x < i
  PROVE  TruthInv'
<1> USE DEF TruthInv
<1>1. \A p \in took : p[2] # y
  BY DEF TookRefs
<1>2. TookRefs' /\ TookOnce'
  BY <1>1 DEF TookRefs, TookOnce
<1>3. \A d \in Chan : ops[x].ch = d => d = c
  OBVIOUS
<1>4. HeldRefs'
  <2> SUFFICES ASSUME NEW d \in Chan, NEW i \in Elems(chanQ'[d])
               PROVE  /\ i \in Moved' /\ ops[i].kind = "send" /\ ops[i].ch = d
                      /\ \A p \in took' : p[1] # i
    BY DEF HeldRefs
  <2>1. i \in Elems(chanQ[d]) /\ i # x
    <3>1. CASE d = c
      BY <3>1
    <3>2. CASE d # c
      <4>1. i \in Elems(chanQ[d]) /\ ops[i].ch = d
        BY <3>2 DEF HeldRefs
      <4> QED
        BY <3>2, <4>1
    <3> QED
      BY <3>1, <3>2
  <2> QED
    BY <2>1 DEF HeldRefs
<1>5. HeldOnce'
  BY DEF HeldOnce
<1>6. SentAll' /\ ReceivedAll'
  <2>1. \A i \in Moved : ops[i].ch \in Chan
    BY SiteType, ElementOfSeq DEF Moved, ProgramTypes
  <2>2. <<x, y>> \in took' /\ took \subseteq took'
    OBVIOUS
  <2>3. SentAll'
    <3> SUFFICES ASSUME NEW i \in Moved \union {x, y}, ops[i].kind = "send"
                 PROVE  i \in Elems(chanQ'[ops[i].ch]) \/ \E p \in took' : p[1] = i
      BY DEF SentAll
    <3>1. CASE i = x
      BY <2>2, <3>1
    <3>2. CASE i # x
      <4>1. i \in Moved
        BY <3>2
      <4>2. i \in Elems(chanQ[ops[i].ch]) \/ \E p \in took : p[1] = i
        BY <4>1 DEF SentAll
      <4> QED
        BY <2>1, <2>2, <3>2, <4>1, <4>2
    <3> QED
      BY <3>1, <3>2
  <2>4. ReceivedAll'
    BY <2>2 DEF ReceivedAll
  <2> QED
    BY <2>3, <2>4
<1>7. InOrder'
  <2> SUFFICES ASSUME NEW d \in Chan, Pipe(d)
               PROVE  /\ Increasing(chanQ'[d])
                      /\ \A p \in took' : ops[p[1]].ch = d => \A i \in Elems(chanQ'[d]) : p[1] < i
                      /\ \A p, q \in took' : ops[p[1]].ch = d /\ ops[q[1]].ch = d /\ p[1] < q[1]
                            => p[2] < q[2]
    BY DEF InOrder
  <2>1. /\ Increasing(chanQ[d]) /\ \A p \in took : ops[p[1]].ch = d => \A i \in Elems(chanQ[d]) : p[1] < i
        /\ \A p, q \in took : ops[p[1]].ch = d /\ ops[q[1]].ch = d /\ p[1] < q[1] => p[2] < q[2]
    BY DEF InOrder
  <2>2. CASE d # c
    BY <2>1, <2>2
  <2>3. CASE d = c
    <3>1. \A p \in took : ops[p[1]].ch = d => p[1] < x /\ p[2] < y /\ p[1] \in Nat
      BY <2>3 DEF ProgramTypes
    <3>2. x \in Nat
      OBVIOUS
    <3> QED
      BY <2>1, <2>3, <3>1, <3>2
  <2> QED
    BY <2>2, <2>3
<1> QED
  BY <1>2, <1>4, <1>5, <1>6, <1>7

\* Both ends of what goes from hand to hand, or the receive of a held value, are newer
\* than what was taken before.
LEMMA NewerThanTaken ==
  ASSUME ProgramTypes, ProgramInv, TruthInv, NEW g \in Gor, stage[g] = "begun", Pipe(Site(g).ch)
  PROVE  /\ Site(g).kind = "send" => \A p \in took : ops[p[1]].ch = Site(g).ch => p[1] < cur[g]
         /\ Site(g).kind = "recv" => \A p \in took : ops[p[1]].ch = Site(g).ch => p[2] < cur[g]
<1>1. cur[g] \in Nat /\ cur[g] \in Begun
  BY DEF ProgramTypes, Begun
<1>2. \A i \in 1..Len(ops) : ops[i].ch = Site(g).ch /\ ops[i].kind = Site(g).kind => i <= cur[g]
  BY Newest DEF TruthInv
<1>3. \A i \in Moved : i \in 1..Len(ops) /\ i # cur[g]
  BY <1>1 DEF Moved
<1>4. \A i \in Moved : ops[i].ch = Site(g).ch /\ ops[i].kind = Site(g).kind => i < cur[g]
  BY <1>1, <1>2, <1>3
<1> QED
  BY <1>4 DEF TruthInv, TookRefs

\* A receive takes the oldest value its channel holds.
LEMMA TruthTake ==
  ASSUME ProgramTypes, ProgramInv, TruthInv, NEW g \in Gor, Take(g)
  PROVE  TruthInv'
<1> DEFINE c == Site(g).ch
           q == chanQ[c]
           x == Head(q)
           y == cur[g]
<1>1. /\ stage[g] = "begun" /\ Site(g).kind = "recv" /\ Site(g) \in Sites /\ c \in Chan
      /\ chanQ' = [chanQ EXCEPT ![c] = Tail(@)] /\ stage' = [stage EXCEPT ![g] = "moved"]
      /\ UNCHANGED <<ops, cur>> /\ took' = took \union {<<x, y>>} /\ q # <<>>
  BY CurrentSite, SiteType DEF Take
<1>2. Moved' = Moved \union {y} /\ y \in (1..Len(ops)) \ Moved
  BY <1>1, MoveMoved, {g} \in SUBSET Gor DEF ProgramTypes
<1>3. q \in Seq(Nat) /\ ops[y] = Site(g) /\ Distinct(q)
  BY <1>1 DEF ProgramTypes, Site, TruthInv, HeldOnce
<1>4. x \in Elems(q) /\ Elems(Tail(q)) \subseteq Elems(q) /\ Distinct(Tail(q)) /\ x \notin Elems(Tail(q))
  BY <1>1, <1>3, TailElems
<1>5. Elems(Tail(q)) = Elems(q) \ {x}
  BY <1>1, <1>3, <1>4, TailSplit
<1>6. x \in Moved /\ ops[x].kind = "send" /\ ops[x].ch = c /\ \A p \in took : p[1] # x
  BY <1>1, <1>4 DEF TruthInv, HeldRefs
<1>7. chanQ'[c] = Tail(q) /\ \A d \in Chan \ {c} : chanQ'[d] = chanQ[d]
  BY <1>1 DEF ProgramTypes
<1>8. Latest'
  BY <1>1 DEF TruthInv, Latest, ProgramTypes
<1>9. Pipe(c) => /\ \A p \in took : ops[p[1]].ch = c => p[1] < x /\ p[2] < y
                 /\ Increasing(Tail(q)) /\ \A i \in Elems(Tail(q)) : x < i
  <2> SUFFICES ASSUME Pipe(c)
               PROVE  /\ \A p \in took : ops[p[1]].ch = c => p[1] < x /\ p[2] < y
                      /\ Increasing(Tail(q)) /\ \A i \in Elems(Tail(q)) : x < i
    OBVIOUS
  <2>1. Increasing(q) /\ \A p \in took : ops[p[1]].ch = c => p[1] < x
    <3>1. \A p \in took : ops[p[1]].ch = c => \A i \in Elems(q) : p[1] < i
      BY <1>1 DEF TruthInv, InOrder
    <3>2. Increasing(q)
      BY <1>1 DEF TruthInv, InOrder
    <3> QED
      BY <1>4, <3>1, <3>2
  <2>2. \A p \in took : ops[p[1]].ch = c => p[2] < y
    BY <1>1, NewerThanTaken
  <2> QED
    BY <1>1, <1>3, <2>1, <2>2, TailIncreasing
<1>10. x \in 1..Len(ops) /\ Moved' = Moved \union {x, y}
  BY <1>2, <1>6 DEF Moved
<1>11. ops[y].ch = c /\ ops[y].kind = "recv"
  BY <1>1, <1>3
<1>12. Elems(chanQ'[c]) = Elems(chanQ[c]) \ {x} /\ Distinct(chanQ'[c])
  BY <1>4, <1>5, <1>7
<1>13. Pipe(c) => /\ \A p \in took : ops[p[1]].ch = c => p[1] < x /\ p[2] < y
                  /\ Increasing(chanQ'[c]) /\ \A i \in Elems(chanQ'[c]) : x < i
  BY <1>7, <1>9
<1> HIDE DEF q, x, y, c
<1> QED
  BY <1>1, <1>2, <1>6, <1>7, <1>8, <1>10, <1>11, <1>12, <1>13, TruthMatch

\* A send and a receive meet at an empty channel.
LEMMA TruthMeet ==
  ASSUME ProgramTypes, ProgramInv, TruthInv, NEW g \in Gor, NEW h \in Gor, Meet(g, h)
  PROVE  TruthInv'
<1> DEFINE c == Site(g).ch
           x == cur[g]
           y == cur[h]
<1>1. /\ stage[g] = "begun" /\ Site(g).kind = "send" /\ Site(g) \in Sites /\ c \in Chan
      /\ stage[h] = "begun" /\ Site(h).kind = "recv" /\ Site(h) \in Sites /\ Site(h).ch = c
      /\ stage' = [stage EXCEPT ![g] = "moved", ![h] = "moved"]
      /\ UNCHANGED <<ops, cur, chanQ>> /\ took' = took \union {<<x, y>>} /\ chanQ[c] = <<>>
  BY CurrentSite, SiteType DEF Meet
<1>2. Moved' = Moved \union {x, y} /\ x \in (1..Len(ops)) \ Moved /\ y \in (1..Len(ops)) \ Moved
  <2>1. \A j \in Gor : stage'[j] = IF j \in {g, h} THEN "moved" ELSE stage[j]
    BY <1>1 DEF ProgramTypes
  <2> QED
    BY <1>1, <2>1, MoveMoved, {g, h} \in SUBSET Gor
<1>3. ops[x] = Site(g) /\ ops[y] = Site(h)
  BY DEF Site
<1>4. \A p \in took : p[1] # x
  BY <1>2 DEF TruthInv, TookRefs
<1>5. Elems(<<>>) = {} /\ Distinct(<<>>) /\ Increasing(<<>>)
  BY DEF Elems, Distinct, Increasing
<1>6. Latest'
  BY <1>1 DEF TruthInv, Latest, ProgramTypes
<1>7. Pipe(c) => \A p \in took : ops[p[1]].ch = c => p[1] < x /\ p[2] < y
  BY <1>1, NewerThanTaken
<1>8. ops[x].ch = c /\ ops[x].kind = "send" /\ ops[y].ch = c /\ ops[y].kind = "recv"
  BY <1>1, <1>3
<1>9. /\ \A d \in Chan \ {c} : chanQ'[d] = chanQ[d]
      /\ Elems(chanQ'[c]) = Elems(chanQ[c]) \ {x} /\ Distinct(chanQ'[c])
      /\ Increasing(chanQ'[c]) /\ \A i \in Elems(chanQ'[c]) : x < i
  BY <1>1, <1>5
<1> HIDE DEF x, y, c
<1> QED
  BY <1>1, <1>2, <1>4, <1>6, <1>7, <1>8, <1>9, TruthMatch

\* Every step of the program keeps what it knows of its channels.
LEMMA TruthStep == IInv /\ TruthInv /\ [Next]_vars => TruthInv'
<1> SUFFICES ASSUME IInv, TruthInv, [Next]_vars PROVE TruthInv'
  OBVIOUS
<1>1. ProgramTypes /\ ProgramInv
  BY InParts DEF Parts
<1>2. ASSUME NEW s \in Sites, RegionBegin(s) \/ SelectBegin(s) PROVE TruthInv'
  BY <1>1, <1>2, TruthEnter DEF RegionBegin, SelectBegin
<1>3. ASSUME NEW g \in Gor, SendRegionEnd(g) \/ RecvRegionEnd(g) \/ SelectSend(g) \/ SelectRecv(g)
      PROVE  TruthInv'
  BY <1>1, <1>3, TruthLeave DEF SendRegionEnd, RecvRegionEnd, SelectSend, SelectRecv
<1>4. ASSUME NEW g \in Gor, Put(g) \/ Take(g) PROVE TruthInv'
  BY <1>1, <1>4, TruthPut, TruthTake
<1>5. ASSUME NEW g \in Gor, NEW h \in Gor, Meet(g, h) PROVE TruthInv'
  BY <1>1, <1>5, TruthMeet
<1>6. CASE UNCHANGED vars
  <2>1. UNCHANGED <<ops, cur, stage, chanQ, took>>
    BY <1>6 DEF vars, program
  <2>2. Moved' = Moved /\ Latest'
    BY <2>1 DEF Moved, Begun, TruthInv, Latest
  <2> QED
    BY <1>1, <2>1, <2>2, TruthStays
<1> QED
  BY <1>2, <1>3, <1>4, <1>5, <1>6 DEF Next

\* At first the program has done nothing.
LEMMA TruthInit == Init => TruthInv
<1> SUFFICES ASSUME Init PROVE TruthInv
  OBVIOUS
<1>1. Elems(<<>>) = {} /\ Distinct(<<>>) /\ Increasing(<<>>) /\ 1..Len(<<>>) = {}
  BY DEF Elems, Distinct, Increasing
<1>2. Moved = {}
  BY <1>1 DEF Init, Moved
<1> QED
  BY <1>1, <1>2
  DEF Init, TruthInv, Latest, TookRefs, TookOnce, HeldRefs, HeldOnce, SentAll, ReceivedAll, InOrder

-----------------------------------------------------------------------------
(* Keys, step by step.                                                    *)

\* What is queued keeps its key while operations begin.
LEMMA KeysStay ==
  ASSUME Parts, KeyedSends, KeyedRecvs, UNCHANGED queues,
         \A i \in 1..Len(ops) : ops'[i] = ops[i]
  PROVE  KeyedSends' /\ KeyedRecvs'
<1>1. UNCHANGED <<msgs, sends, recvs, pairs>>
  BY DEF queues
<1> QED
  BY <1>1, References DEF KeyedSends, KeyedRecvs

\* Attempts and commits that nothing touches.
LEMMA AttemptsStay ==
  ASSUME KeyedAttempts, CommitRefs, UNCHANGED <<ops, sndAtt, commits>>
  PROVE  KeyedAttempts' /\ CommitRefs'
  BY DEF KeyedAttempts, CommitRefs

\* The attempt of a send is queued under its key when its region begins.
LEMMA BeginKeys ==
  ASSUME Parts, KeyInv, NEW s \in Sites, RegionBegin(s) \/ SelectBegin(s)
  PROVE  KeyInv'
<1> DEFINE n == Len(ops) + 1
<1>1. Enter(s) /\ UNCHANGED queues
  BY DEF RegionBegin, SelectBegin
<1>2. /\ Len(ops') = n /\ ops'[n] = s /\ Len(ops) \in Nat /\ \A i \in 1..Len(ops) : ops'[i] = ops[i]
  BY <1>1, EnterMoved DEF Parts
<1>3. KeyedSends' /\ KeyedRecvs'
  BY <1>1, <1>2, KeysStay DEF KeyInv
<1>4. \A k \in Key : \A x \in Elems(sndAtt[k]) :
        x \in 1..Len(ops') /\ OpKey(ops'[x]) = k /\ ops'[x].kind = "send" /\ ops'[x].via = "region"
  <2> SUFFICES ASSUME NEW k \in Key, NEW x \in Elems(sndAtt[k])
               PROVE  /\ x \in 1..Len(ops') /\ OpKey(ops'[x]) = k
                      /\ ops'[x].kind = "send" /\ ops'[x].via = "region"
    OBVIOUS
  <2>1. x \in 1..Len(ops) /\ OpKey(ops[x]) = k /\ ops[x].kind = "send" /\ ops[x].via = "region"
    BY DEF KeyInv, KeyedAttempts
  <2>2. ops'[x] = ops[x] /\ x \in 1..Len(ops')
    BY <1>2, <2>1
  <2> QED
    BY <2>1, <2>2
<1>5. KeyedAttempts'
  <2>1. CASE sndAtt' = sndAtt
    BY <1>4, <2>1 DEF KeyedAttempts
  <2>2. CASE /\ s.kind = "send" /\ s.via = "region"
             /\ sndAtt' = [sndAtt EXCEPT ![OpKey(s)] = Append(@, n)]
    <3>1. sndAtt \in [Key -> Seq(Nat)] /\ OpKey(s) \in Key
      BY SiteType DEF Parts, AtomicTypes
    <3>2. Elems(Append(sndAtt[OpKey(s)], n)) = Elems(sndAtt[OpKey(s)]) \union {n}
      BY <1>2, <3>1, AppendElems
    <3>3. n \in 1..Len(ops') /\ OpKey(ops'[n]) = OpKey(s) /\ ops'[n].kind = "send"
          /\ ops'[n].via = "region"
      BY <1>2, <2>2
    <3> HIDE DEF n
    <3>4. \A k \in Key \ {OpKey(s)} : sndAtt'[k] = sndAtt[k]
      BY <2>2, <3>1
    <3>5. sndAtt'[OpKey(s)] = Append(sndAtt[OpKey(s)], n)
      BY <2>2, <3>1
    <3> QED
      BY <1>4, <3>2, <3>3, <3>4, <3>5 DEF KeyedAttempts
  <2> QED
    BY <2>1, <2>2 DEF RegionBegin, SelectBegin, atomic
<1>6. CommitRefs'
  <2>1. UNCHANGED commits
    BY DEF RegionBegin, SelectBegin, atomic
  <2> QED
    BY <1>2, <2>1 DEF KeyInv, CommitRefs
<1> QED
  BY <1>3, <1>5, <1>6 DEF KeyInv

\* A completed send is queued under its key (handleRegionOp).
LEMMA SendKeys ==
  ASSUME Parts, KeyInv, UNCHANGED ops,
         NEW s \in Sites, NEW op, op \in 1..Len(ops), ops[op] = s, s.kind = "send", CompleteSend(op, s)
  PROVE  KeyedSends' /\ KeyedRecvs'
<1> DEFINE n == Len(msgs) + 1
<1>1. /\ msgs \in Seq(Nat) /\ Len(msgs) \in Nat /\ op \in Nat
      /\ sends \in [Key -> Seq(Nat)] /\ recvs \in [Key -> Seq(Nat)]
  BY LenProperties DEF Parts, QueueTypes
<1>2. msgs'[n] = op /\ \A i \in 1..Len(msgs) : msgs'[i] = msgs[i]
  BY <1>1, AppendProperties DEF CompleteSend
<1>3. \A k \in Key : \A m \in Elems(sends[k]) : OpKey(ops[msgs'[m]]) = k /\ ops[msgs'[m]].kind = "send"
  BY <1>2, References DEF KeyInv, KeyedSends
<1>4. CASE UNCHANGED <<sends, recvs>>
  BY <1>3, <1>4 DEF KeyInv, KeyedSends, KeyedRecvs
<1>5. ASSUME NEW k \in Waiting(s, RecvWaiting), recvs' = [recvs EXCEPT ![k] = Tail(@)],
             UNCHANGED sends
      PROVE  KeyedSends' /\ KeyedRecvs'
  <2>1. k \in Key /\ recvs[k] # <<>>
    BY <1>5 DEF Waiting, RecvWaiting
  <2>2. \A j \in Key : Elems(recvs'[j]) \subseteq Elems(recvs[j])
    BY <1>1, <1>5, <2>1, PopOrigin
  <2> QED
    BY <1>3, <1>5, <2>2 DEF KeyInv, KeyedSends, KeyedRecvs
<1>6. ASSUME sends' = [sends EXCEPT ![OpKey(s)] = Append(@, n)], UNCHANGED recvs
      PROVE  KeyedSends' /\ KeyedRecvs'
  <2>1. OpKey(s) \in Key
    BY SiteType
  <2>2. Elems(Append(sends[OpKey(s)], n)) = Elems(sends[OpKey(s)]) \union {n}
    BY <1>1, <2>1, AppendElems
  <2>3. OpKey(ops[msgs'[n]]) = OpKey(s) /\ ops[msgs'[n]].kind = "send"
    BY <1>2
  <2> HIDE DEF n
  <2>4. \A k \in Key \ {OpKey(s)} : sends'[k] = sends[k]
    BY <1>1, <1>6, <2>1
  <2>5. sends'[OpKey(s)] = Append(sends[OpKey(s)], n)
    BY <1>1, <1>6, <2>1
  <2> QED
    BY <1>3, <1>6, <2>2, <2>3, <2>4, <2>5 DEF KeyInv, KeyedSends, KeyedRecvs
<1> QED
  BY <1>4, <1>5, <1>6 DEF CompleteSend

\* A completed receive is queued under its key, or takes a message off.
LEMMA RecvKeys ==
  ASSUME Parts, KeyInv, UNCHANGED ops,
         NEW s \in Sites, NEW op, op \in 1..Len(ops), ops[op] = s, s.kind = "recv",
         CompleteRecv(op, s) \/ CompleteSelectRecv(op, s)
  PROVE  KeyedSends' /\ KeyedRecvs'
<1>1. /\ sends \in [Key -> Seq(Nat)] /\ recvs \in [Key -> Seq(Nat)] /\ op \in Nat
      /\ UNCHANGED msgs
  <2>1. sends \in [Key -> Seq(Nat)] /\ recvs \in [Key -> Seq(Nat)]
    BY DEF Parts, QueueTypes
  <2>2. UNCHANGED msgs
    BY DEF CompleteRecv, CompleteSelectRecv
  <2> QED
    BY <2>1, <2>2
<1>2. CASE UNCHANGED <<sends, recvs>>
  BY <1>1, <1>2 DEF KeyInv, KeyedSends, KeyedRecvs
<1>3. ASSUME NEW b, NEW k \in Source(s, b), sends' = [sends EXCEPT ![k] = Tail(@)], UNCHANGED recvs
      PROVE  KeyedSends' /\ KeyedRecvs'
  <2>1. k \in Key /\ sends[k] # <<>>
    BY <1>3, SourceHasMessage
  <2>2. \A j \in Key : Elems(sends'[j]) \subseteq Elems(sends[j])
    BY <1>1, <1>3, <2>1, PopOrigin
  <2> QED
    BY <1>1, <1>3, <2>2 DEF KeyInv, KeyedSends, KeyedRecvs
<1>4. ASSUME recvs' = [recvs EXCEPT ![OpKey(s)] = Append(@, op)], UNCHANGED sends
      PROVE  KeyedSends' /\ KeyedRecvs'
  <2>1. OpKey(s) \in Key
    BY SiteType
  <2>2. Elems(Append(recvs[OpKey(s)], op)) = Elems(recvs[OpKey(s)]) \union {op}
    BY <1>1, <2>1, AppendElems
  <2>3. \A k \in Key \ {OpKey(s)} : recvs'[k] = recvs[k]
    BY <1>1, <1>4, <2>1
  <2>4. recvs'[OpKey(s)] = Append(recvs[OpKey(s)], op)
    BY <1>1, <1>4, <2>1
  <2> QED
    BY <1>1, <1>4, <2>2, <2>3, <2>4 DEF KeyInv, KeyedSends, KeyedRecvs
<1> QED
  BY <1>2, <1>3, <1>4 DEF CompleteRecv, CompleteSelectRecv, PairWith

\* A committed receive takes an attempt off its queue.
LEMMA CommitKeys ==
  ASSUME Parts, KeyInv, UNCHANGED ops, NEW s \in Sites, NEW op, op \in 1..Len(ops),
         CommitRecv(op, s)
  PROVE  KeyedAttempts' /\ CommitRefs'
<1>1. OpKey(s) \in Key /\ sndAtt \in [Key -> Seq(Nat)]
  BY SiteType DEF Parts, AtomicTypes
<1>2. CASE sndAtt[OpKey(s)] = <<>>
  <2>1. UNCHANGED <<sndAtt, commits>>
    BY <1>2 DEF CommitRecv
  <2> QED
    BY <2>1, AttemptsStay DEF KeyInv
<1>3. CASE sndAtt[OpKey(s)] # <<>>
  <2> DEFINE k == OpKey(s)
  <2>1. /\ sndAtt' = [sndAtt EXCEPT ![k] = Tail(@)]
        /\ commits' = commits \union {<<Head(sndAtt[k]), op>>}
    BY <1>3 DEF CommitRecv
  <2> HIDE DEF k
  <2>2. /\ Head(sndAtt[k]) \in Elems(sndAtt[k])
        /\ \A j \in Key : Elems(sndAtt'[j]) \subseteq Elems(sndAtt[j])
    BY <1>1, <1>3, <2>1, PopOrigin DEF k
  <2>3. KeyedAttempts'
    BY <2>2 DEF KeyInv, KeyedAttempts
  <2>4. Head(sndAtt[k]) \in 1..Len(ops)
    BY <1>1, <2>2 DEF KeyInv, KeyedAttempts, k
  <2> QED
    BY <2>1, <2>3, <2>4 DEF KeyInv, CommitRefs
<1> QED
  BY <1>2, <1>3

\* Every step is of one of the three kinds.
LEMMA StepKinds ==
  ASSUME Parts, [Next]_vars
  PROVE  (\E s \in Sites : Begins(s)) \/ Flows \/ \E g \in Gor : EndOf(g)
<1>1. /\ ProgramTypes /\ ProgramInv
  BY DEF Parts
<1>2. ASSUME NEW g \in Gor, Put(g) \/ Take(g) PROVE Flows
  <2>1. /\ UNCHANGED <<ops, cur, queues, nameOf, sndAtt, commits>> /\ took \subseteq took'
        /\ stage[g] = "begun" /\ stage' = [stage EXCEPT ![g] = "moved"]
    BY <1>2 DEF Put, Take, atomic
  <2>2. \A h \in Gor : stage'[h] = "idle" <=> stage[h] = "idle"
    BY <1>1, <2>1 DEF ProgramTypes
  <2>3. stage' \in [Gor -> {"idle", "begun", "moved"}]
    BY <1>1, <2>1 DEF ProgramTypes
  <2>4. \A p \in took' \ took : p[2] \notin Done
    <3>1. \A p \in took' \ took : p[2] = cur[g]
      BY <1>2 DEF Put, Take
    <3> QED
      BY <2>1, <3>1 DEF Done, Live
  <2> QED
    BY <1>1, <2>1, <2>2, <2>3, <2>4, MoveStep DEF Flows
<1>3. ASSUME NEW g \in Gor, NEW h \in Gor, Meet(g, h) PROVE Flows
  <2>1. /\ UNCHANGED <<ops, cur, queues, nameOf, sndAtt, commits>> /\ took \subseteq took'
        /\ stage[g] = "begun" /\ stage[h] = "begun"
        /\ stage' = [stage EXCEPT ![g] = "moved", ![h] = "moved"]
    BY <1>3 DEF Meet, atomic
  <2>2. \A j \in Gor : stage'[j] = "idle" <=> stage[j] = "idle"
    BY <1>1, <2>1 DEF ProgramTypes
  <2>3. stage' \in [Gor -> {"idle", "begun", "moved"}]
    BY <1>1, <2>1 DEF ProgramTypes
  <2>4. \A p \in took' \ took : p[2] \notin Done
    <3>1. \A p \in took' \ took : p[2] = cur[h]
      BY <1>3 DEF Meet
    <3> QED
      BY <2>1, <3>1 DEF Done, Live
  <2> QED
    BY <1>1, <2>1, <2>2, <2>3, <2>4, MoveStep DEF Flows
<1>4. CASE UNCHANGED vars
  <2>1. UNCHANGED <<ops, cur, stage, took, queues, nameOf, sndAtt, commits>>
    BY <1>4 DEF vars, program, atomic
  <2>2. Done' = Done
    BY <2>1 DEF Done, Live
  <2> QED
    BY <2>1, <2>2 DEF Flows
<1>5. CASE Next
  <2>1. CASE \E s \in Sites : RegionBegin(s) \/ SelectBegin(s)
    BY <2>1 DEF Begins
  <2>2. CASE \E g, h \in Gor : Meet(g, h)
    BY <1>3, <2>2
  <2>3. CASE \E g \in Gor : \/ Put(g) \/ Take(g) \/ SendRegionEnd(g) \/ RecvRegionEnd(g)
                          \/ SelectSend(g) \/ SelectRecv(g)
    BY <1>2, <2>3 DEF EndOf
  <2> QED
    BY <1>5, <2>1, <2>2, <2>3 DEF Next
<1> QED
  BY <1>4, <1>5

\* What an ending operation does.
LEMMA EndEffect ==
  ASSUME Parts, NEW g \in Gor, EndOf(g)
  PROVE  Ending(cur[g], Site(g)) /\ Moved' = Moved
<1>1. ProgramTypes /\ ProgramInv
  BY DEF Parts
<1>2. Leave(g) /\ stage[g] = "moved" /\ UNCHANGED <<ops, took>>
  BY DEF EndOf, SendRegionEnd, RecvRegionEnd, SelectSend, SelectRecv, Leave
<1>3. Site(g) \in Sites /\ Ends(cur[g]) /\ Moved' = Moved
  BY <1>1, <1>2, LeaveStep, LeaveMoved
<1>4. cur[g] \in 1..Len(ops) /\ ops[cur[g]] = Site(g)
  BY <1>1, <1>2 DEF ProgramInv, Site
<1>5. cur[g] \notin Begun
  BY <1>1, <1>2 DEF Begun, ProgramInv
<1>6. Pairs(cur[g], Site(g))
  BY DEF EndOf, SendRegionEnd, RecvRegionEnd, SelectSend, SelectRecv, Pairs, CommitSend, atomic
<1>7. /\ Site(g).via = "region" => UNCHANGED nameOf
      /\ Site(g).via = "select" => LearnName(Site(g))
  BY DEF EndOf, SendRegionEnd, RecvRegionEnd, SelectSend, SelectRecv
<1> QED
  BY <1>2, <1>3, <1>4, <1>5, <1>6, <1>7 DEF Ending, Moved

\* Whatever step is taken, what is queued under a key was done with that key.
LEMMA KeyStep ==
  ASSUME Parts, KeyInv, [Next]_vars
  PROVE  KeyInv'
<1>1. ASSUME NEW s \in Sites, Begins(s) PROVE KeyInv'
  BY <1>1, BeginKeys DEF Begins
<1>2. CASE Flows
  <2>1. KeyedSends' /\ KeyedRecvs'
    BY <1>2, KeysStay DEF Flows, KeyInv
  <2>2. KeyedAttempts' /\ CommitRefs'
    BY <1>2, AttemptsStay DEF Flows, KeyInv
  <2> QED
    BY <2>1, <2>2 DEF KeyInv
<1>3. ASSUME NEW g \in Gor, EndOf(g) PROVE KeyInv'
  <2> DEFINE s == Site(g)
             op == cur[g]
  <2>1. Ending(op, s)
    BY <1>3, EndEffect
  <2>2. s \in Sites /\ op \in 1..Len(ops) /\ ops[op] = s /\ UNCHANGED ops /\ Pairs(op, s)
    BY <2>1 DEF Ending, Moved
  <2> HIDE DEF s, op
  <2>3. KeyedSends' /\ KeyedRecvs'
    BY <2>2, SendKeys, RecvKeys DEF Pairs
  <2>4. KeyedAttempts' /\ CommitRefs'
    <3>1. CASE UNCHANGED <<sndAtt, commits>>
      BY <2>2, <3>1, AttemptsStay DEF KeyInv
    <3>2. CASE CommitRecv(op, s)
      BY <2>2, <3>2, CommitKeys
    <3> QED
      BY <2>2, <3>1, <3>2 DEF Pairs
  <2> QED
    BY <2>3, <2>4 DEF KeyInv
<1> QED
  BY <1>1, <1>2, <1>3, StepKinds

-----------------------------------------------------------------------------
(* The keys of one channel.                                               *)

\* A traced channel has its keys to itself.
LEMMA OwnSites ==
  ASSUME NEW c, NEW label, NEW sk, NEW rk, KeyedAs(c, label, sk, rk),
         NEW s \in Sites
  PROVE  /\ s.ch = c => /\ s.name = label
                        /\ s.kind = "send" => OpKey(s) = sk
                        /\ s.kind = "recv" => OpKey(s) = rk
         /\ s.ch # c => OpKey(s) \notin {c, label} /\ s.name \notin {c, label}
<1>1. Chan \intersect Name = {} /\ s.ch \in Chan /\ s.name \in Name
  BY PairingAssumption, SiteType
<1>2. OpKey(s) = s.ch \/ OpKey(s) = s.name
  BY PairingAssumption DEF SitesOK, OpKey
<1>3. CASE s.ch = c
  BY <1>3 DEF KeyedAs
<1>4. CASE s.ch # c
  BY <1>1, <1>2, <1>4 DEF KeyedAs
<1> QED
  BY <1>3, <1>4

\* The head of a queue is in it.
LEMMA FirstIn ==
  ASSUME NEW q \in Seq(Nat), q # <<>>
  PROVE  Head(q) \in Elems(q)
  BY TailElems

\* The queues under a channel's two keys hold operations of the channel only.
LEMMA OwnQueues ==
  ASSUME Parts, KeyInv, NEW c, NEW label, NEW sk, NEW rk,
         KeyedAs(c, label, sk, rk)
  PROVE  /\ c \in Key /\ label \in Key /\ c # label /\ sk \in Key /\ rk \in Key
         /\ c \in Chan /\ label \in Name /\ sk \in {c, label} /\ rk \in {c, label}
         /\ \A k \in {c, label} :
               /\ \A m \in Elems(sends[k]) : msgs[m] \in On(c, "send")
               /\ \A r \in Elems(recvs[k]) : r \in On(c, "recv")
               /\ \A x \in Elems(sndAtt[k]) : x \in On(c, "send") /\ ops[x].via = "region"
               /\ k # sk => sends[k] = <<>> /\ sndAtt[k] = <<>>
               /\ k # rk => recvs[k] = <<>>
<1>1. /\ c \in Key /\ label \in Key /\ c # label /\ sk \in Key /\ rk \in Key
      /\ c \in Chan /\ label \in Name /\ sk \in {c, label} /\ rk \in {c, label}
  BY PairingAssumption DEF Key, KeyedAs
<1>2. /\ sends \in [Key -> Seq(Nat)] /\ recvs \in [Key -> Seq(Nat)] /\ sndAtt \in [Key -> Seq(Nat)]
      /\ \A i \in 1..Len(ops) : ops[i] \in Sites
  BY ElementOfSeq DEF Parts, QueueTypes, AtomicTypes, ProgramTypes
<1>3. ASSUME NEW k \in {c, label}, NEW m \in Elems(sends[k]) PROVE msgs[m] \in On(c, "send") /\ k = sk
  <2>1. /\ msgs[m] \in 1..Len(ops) /\ ops[msgs[m]] \in Sites
        /\ OpKey(ops[msgs[m]]) = k /\ ops[msgs[m]].kind = "send"
    BY <1>1, References DEF KeyInv, KeyedSends
  <2> QED
    BY <2>1, OwnSites DEF On
<1>4. ASSUME NEW k \in {c, label}, NEW r \in Elems(recvs[k]) PROVE r \in On(c, "recv") /\ k = rk
  <2>1. /\ r \in 1..Len(ops) /\ ops[r] \in Sites
        /\ OpKey(ops[r]) = k /\ ops[r].kind = "recv"
    BY <1>1, References DEF KeyInv, KeyedRecvs
  <2> QED
    BY <2>1, OwnSites DEF On
<1>5. ASSUME NEW k \in {c, label}, NEW x \in Elems(sndAtt[k])
      PROVE  x \in On(c, "send") /\ k = sk /\ ops[x].via = "region"
  <2>1. /\ x \in 1..Len(ops) /\ ops[x] \in Sites
        /\ OpKey(ops[x]) = k /\ ops[x].kind = "send" /\ ops[x].via = "region"
    BY <1>1, <1>2 DEF KeyInv, KeyedAttempts
  <2> QED
    BY <2>1, OwnSites DEF On
<1>6. ASSUME NEW k \in {c, label}
      PROVE  /\ k # sk => sends[k] = <<>> /\ sndAtt[k] = <<>>
             /\ k # rk => recvs[k] = <<>>
  <2>1. k \in Key /\ sends[k] \in Seq(Nat) /\ recvs[k] \in Seq(Nat) /\ sndAtt[k] \in Seq(Nat)
    BY <1>1, <1>2
  <2>2. sends[k] # <<>> => k = sk
    BY <1>3, <2>1, FirstIn
  <2>3. recvs[k] # <<>> => k = rk
    BY <1>4, <2>1, FirstIn
  <2>4. sndAtt[k] # <<>> => k = sk
    BY <1>5, <2>1, FirstIn
  <2> QED
    BY <2>2, <2>3, <2>4
<1> QED
  BY <1>1, <1>3, <1>4, <1>5, <1>6

\* Where the operations of the channel look, and the others do not.
LEMMA LabelKeys ==
  ASSUME NEW c \in Chan, NEW label \in Name, NameView(c, label), NEW k \in Key
  PROVE  /\ Named(k, label) => k \in {c, label}
         /\ \A name \in Name : Named(k, name) /\ name # label => k \notin {c, label}
<1>1. Chan \intersect Name = {} /\ "none" \notin Name
  BY PairingAssumption
<1> QED
  BY <1>1 DEF NameView, Named

\* A send of a traced channel finds the receive that waits, and only that.
LEMMA SendLooks ==
  ASSUME Parts, KeyInv, NEW c, NEW label, NEW sk, NEW rk,
         Traced(c, label, sk, rk), LabelView(c, label),
         NEW s \in Sites, s.ch = c, s.kind = "send"
  PROVE  /\ \A k : k \in Waiting(s, RecvWaiting) <=> k = rk /\ recvs[rk] # <<>>
         /\ Waiting(s, SelectWaiting) = {}
<1>1. s.name = label /\ OpKey(s) = sk
  BY OwnSites DEF Traced
<1>2. /\ c \in Chan /\ label \in Name /\ sk \in {c, label} /\ rk \in {c, label}
      /\ c \in Key /\ label \in Key /\ sk \in Key /\ rk \in Key
      /\ \A k \in {c, label} : k # rk => recvs[k] = <<>>
  BY OwnQueues DEF Traced
<1>3. \A k \in Key : Named(k, label) => k \in {c, label}
  BY <1>2, LabelKeys DEF LabelView
<1>4. ~(0 > 0) /\ \A k \in {c, label} : selRecv[k] = 0
  BY DEF LabelView, Uncounted
<1>5. Waiting(s, SelectWaiting) = {}
  BY <1>1, <1>2, <1>3, <1>4 DEF Waiting, SelectWaiting
<1>6. ASSUME NEW k, k \in Waiting(s, RecvWaiting) PROVE k = rk /\ recvs[rk] # <<>>
  <2>1. k \in Key /\ recvs[k] # <<>> /\ k \in {c, label}
    BY <1>1, <1>2, <1>3, <1>6 DEF Waiting, RecvWaiting
  <2> QED
    BY <1>2, <2>1
<1>7. ASSUME recvs[rk] # <<>> PROVE rk \in Waiting(s, RecvWaiting)
  <2>1. rk \in RecvWaiting
    BY <1>2, <1>7 DEF RecvWaiting
  <2>2. CASE sk = rk
    BY <1>1, <2>1, <2>2 DEF Waiting
  <2>3. CASE sk # rk
    <3>1. rk = label /\ sk \notin RecvWaiting
      BY <1>2, <2>3 DEF RecvWaiting, Traced, KeyedAs
    <3> QED
      BY <1>1, <2>1, <3>1 DEF Waiting, Named
  <2> QED
    BY <2>2, <2>3
<1> QED
  BY <1>5, <1>6, <1>7

\* Where a completed receive looks.
RecvSource(s) == Source(s, s.ptr = NoPtr)

\* A receive of a traced channel finds the queue of its sends, by the pointer or
\* by the label (findSendQueueByName).
LEMMA RecvLooks ==
  ASSUME Parts, KeyInv, NEW c, NEW label, NEW sk, NEW rk,
         Traced(c, label, sk, rk), LabelView(c, label),
         NEW s \in Sites, s.ch = c, s.kind = "recv"
  PROVE  \A k : k \in RecvSource(s) <=> k = sk /\ sends[sk] # <<>>
<1>1. s.name = label /\ OpKey(s) = rk
  BY OwnSites DEF Traced
<1>2. /\ c \in Chan /\ label \in Name /\ sk \in {c, label} /\ rk \in {c, label}
      /\ c \in Key /\ label \in Key /\ c # label /\ sk \in Key /\ rk \in Key
      /\ \A k \in {c, label} : k # sk => sends[k] = <<>>
      /\ sends \in [Key -> Seq(Nat)]
  BY OwnQueues DEF Parts, QueueTypes, Traced
<1>3. \A k \in Key : Named(k, label) => k \in {c, label}
  BY <1>2, LabelKeys DEF LabelView
<1>4. ASSUME NEW k, k \in RecvSource(s) PROVE k = sk /\ sends[sk] # <<>>
  <2>1. k \in {c, label} /\ sends[k] # <<>>
    BY <1>1, <1>2, <1>3, <1>4 DEF RecvSource, Source, SendQueueByName
  <2> QED
    BY <1>2, <2>1
<1>5. ASSUME sends[sk] # <<>> PROVE sk \in RecvSource(s)
  <2>1. CASE sk = rk
    BY <1>1, <1>5, <2>1 DEF RecvSource, Source
  <2>2. CASE sk # rk
    <3>1. sk = c /\ rk = label /\ sends[rk] = <<>>
      BY <1>2, <2>2 DEF Traced, KeyedAs
    <3>2. s.ptr = NoPtr
      BY <1>1, <1>2, <3>1, PairingAssumption DEF SitesOK, OpKey
    <3>3. nameOf[c] = label /\ Named(c, label)
      BY <1>5, <3>1 DEF LabelView, NameView, Named, Traced, KeyedAs
    <3>4. SendQueueByName(label) # {}
      BY <1>2, <1>5, <3>1, <3>3, OldestExists
    <3>5. \A j \in SendQueueByName(label) : j = sk
      BY <1>2, <1>3 DEF SendQueueByName
    <3> QED
      BY <1>1, <3>1, <3>2, <3>4, <3>5 DEF RecvSource, Source
  <2> QED
    BY <2>1, <2>2
<1> QED
  BY <1>4, <1>5

\* Operations of other channels stay away.
LEMMA OthersLook ==
  ASSUME NEW c, NEW label, NEW sk, NEW rk,
         KeyedAs(c, label, sk, rk), NameView(c, label), NEW s \in Sites, s.ch # c
  PROVE  /\ OpKey(s) \notin {c, label} /\ s.name \notin {c, label}
         /\ \A W \in SUBSET Key : \A k \in Waiting(s, W) : k \in Key \ {c, label}
         /\ \A b : \A k \in Source(s, b) : k \in Key \ {c, label}
<1>1. OpKey(s) \notin {c, label} /\ s.name \notin {c, label} /\ s.name \in Name /\ OpKey(s) \in Key
  BY OwnSites, SiteType
<1>2. \A k \in Key : Named(k, s.name) => k \notin {c, label}
  BY <1>1, LabelKeys DEF KeyedAs
<1>3. \A W \in SUBSET Key : \A k \in Waiting(s, W) : k \in Key \ {c, label}
  BY <1>1, <1>2 DEF Waiting
<1>4. \A b : \A k \in Source(s, b) : k \in Key \ {c, label}
  BY <1>1, <1>2 DEF Source, SendQueueByName
<1> QED
  BY <1>1, <1>3, <1>4

-----------------------------------------------------------------------------
(* What the end of an operation changes under them.                       *)

\* What the end of an operation changes under the keys of the channel.
LEMMA OwnSendEnds ==
  ASSUME Parts, KeyInv, NEW c, NEW label, NEW sk, NEW rk, Traced(c, label, sk, rk),
         LabelView(c, label), NEW op, NEW s, Ending(op, s), s.ch = c, s.kind = "send"
  PROVE  /\ msgs' = Append(msgs, op) /\ UNCHANGED <<selRecv, sndAtt, commits>>
         /\ \/ /\ recvs[rk] # <<>> /\ recvs' = [recvs EXCEPT ![rk] = Tail(@)]
               /\ pairs' = pairs \union {<<op, Head(recvs[rk])>>} /\ UNCHANGED sends
            \/ /\ recvs[rk] = <<>> /\ sends' = [sends EXCEPT ![sk] = Append(@, Len(msgs) + 1)]
               /\ UNCHANGED <<recvs, pairs>>
<1>1. /\ \A k : k \in Waiting(s, RecvWaiting) <=> k = rk /\ recvs[rk] # <<>>
      /\ Waiting(s, SelectWaiting) = {} /\ OpKey(s) = sk
  BY SendLooks, OwnSites DEF Traced, Ending
<1>2. CompleteSend(op, s) /\ UNCHANGED <<sndAtt, commits>>
  BY DEF Ending, Pairs
<1>3. recvs[rk] # <<>> \/ Waiting(s, RecvWaiting) = {}
  BY <1>1
<1> QED
  BY <1>1, <1>2, <1>3 DEF CompleteSend

\* A receive that ends takes the channel's oldest message or waits.
LEMMA OwnRecvEnds ==
  ASSUME Parts, KeyInv, NEW c, NEW label, NEW sk, NEW rk, Traced(c, label, sk, rk),
         LabelView(c, label), NEW op, NEW s, Ending(op, s), s.ch = c, s.kind = "recv"
  PROVE  /\ UNCHANGED <<msgs, selRecv, nameOf>> /\ CommitRecv(op, s) /\ OpKey(s) = rk
         /\ \/ /\ sends[sk] = <<>> /\ recvs' = [recvs EXCEPT ![rk] = Append(@, op)]
               /\ UNCHANGED <<sends, pairs>>
            \/ /\ sends[sk] # <<>> /\ sends' = [sends EXCEPT ![sk] = Tail(@)] /\ UNCHANGED recvs
               /\ \/ label \in SkipPairing /\ UNCHANGED pairs
                  \/ pairs' = pairs \union {<<msgs[Head(sends[sk])], op>>}
<1>1. /\ \A k : k \in RecvSource(s) <=> k = sk /\ sends[sk] # <<>>
      /\ OpKey(s) = rk /\ s.via = "region" /\ s.name = label
  <2>1. s \in Sites
    BY DEF Ending
  <2>2. OpKey(s) = rk /\ s.via = "region" /\ s.name = label
    BY <2>1, OwnSites DEF Traced
  <2>3. \A k : k \in RecvSource(s) <=> k = sk /\ sends[sk] # <<>>
    BY <2>1, RecvLooks
  <2> QED
    BY <2>2, <2>3
<1>2. CompleteRecv(op, s) /\ CommitRecv(op, s) /\ UNCHANGED nameOf
  BY <1>1 DEF Ending, Pairs
<1>3. sends[sk] # <<>> \/ RecvSource(s) = {}
  BY <1>1
<1>4. UNCHANGED <<msgs, selRecv>>
  BY <1>2 DEF CompleteRecv, RecvSource
<1>5. CASE /\ RecvSource(s) = {}
           /\ recvs' = [recvs EXCEPT ![rk] = Append(@, op)]
           /\ UNCHANGED <<sends, pairs>>
  <2>1. sends[sk] = <<>>
    BY <1>1, <1>5
  <2> QED
    BY <1>1, <1>2, <1>4, <1>5, <2>1
<1>6. ASSUME NEW k \in RecvSource(s), UNCHANGED recvs,
             \/ /\ label \in SkipPairing /\ sends' = [sends EXCEPT ![k] = Tail(@)]
                /\ UNCHANGED pairs
             \/ PairWith(op, k)
      PROVE  /\ sends[sk] # <<>> /\ sends' = [sends EXCEPT ![sk] = Tail(@)] /\ UNCHANGED recvs
             /\ \/ label \in SkipPairing /\ UNCHANGED pairs
                \/ pairs' = pairs \union {<<msgs[Head(sends[sk])], op>>}
  BY <1>1, <1>6 DEF PairWith
<1> QED
  BY <1>1, <1>2, <1>4, <1>5, <1>6 DEF CompleteRecv, RecvSource

\* A send of another channel changes nothing under the keys of this one.
LEMMA OtherSendEnds ==
  ASSUME Parts, KeyInv, NEW c, NEW label, NEW sk, NEW rk, KeyedAs(c, label, sk, rk),
         NameView(c, label), NEW op, NEW s \in Sites, ops[op] = s, op \in 1..Len(ops),
         CompleteSend(op, s), s.ch # c
  PROVE  /\ \A k \in {c, label} : sends'[k] = sends[k] /\ recvs'[k] = recvs[k] /\ selRecv'[k] = selRecv[k]
         /\ \A i \in 1..Len(msgs) : msgs'[i] = msgs[i]
         /\ pairs \subseteq pairs' /\ \A p \in pairs' \ pairs : ops[p[1]].ch # c
<1>1. /\ sends \in [Key -> Seq(Nat)] /\ recvs \in [Key -> Seq(Nat)] /\ selRecv \in [Key -> Nat]
      /\ msgs \in Seq(Nat) /\ op \in Nat /\ c \in Key /\ label \in Key
  <2>1. c \in Key /\ label \in Key
    BY OwnQueues
  <2> QED
    BY <2>1 DEF Parts, QueueTypes
<1>2. RecvWaiting \in SUBSET Key /\ SelectWaiting \in SUBSET Key
  BY DEF RecvWaiting, SelectWaiting
<1>3. /\ OpKey(s) \notin {c, label}
      /\ \A k \in Waiting(s, RecvWaiting) \union Waiting(s, SelectWaiting) : k \in Key \ {c, label}
  BY <1>2, OthersLook
<1>4. \A i \in 1..Len(msgs) : msgs'[i] = msgs[i]
  BY <1>1, AppendProperties DEF CompleteSend
<1>5. ASSUME NEW k \in Waiting(s, RecvWaiting), recvs' = [recvs EXCEPT ![k] = Tail(@)],
             pairs' = pairs \union {<<op, Head(recvs[k])>>}, UNCHANGED <<sends, selRecv>>
      PROVE  /\ \A j \in {c, label} : sends'[j] = sends[j] /\ recvs'[j] = recvs[j] /\ selRecv'[j] = selRecv[j]
             /\ pairs \subseteq pairs' /\ \A p \in pairs' \ pairs : ops[p[1]].ch # c
  BY <1>1, <1>3, <1>5
<1>6. ASSUME NEW k \in Waiting(s, SelectWaiting), selRecv' = [selRecv EXCEPT ![k] = @ - 1],
             UNCHANGED <<sends, recvs, pairs>>
      PROVE  /\ \A j \in {c, label} : sends'[j] = sends[j] /\ recvs'[j] = recvs[j] /\ selRecv'[j] = selRecv[j]
             /\ pairs \subseteq pairs' /\ \A p \in pairs' \ pairs : ops[p[1]].ch # c
  BY <1>1, <1>3, <1>6
<1>7. ASSUME sends' = [sends EXCEPT ![OpKey(s)] = Append(@, Len(msgs) + 1)],
             UNCHANGED <<recvs, selRecv, pairs>>
      PROVE  /\ \A j \in {c, label} : sends'[j] = sends[j] /\ recvs'[j] = recvs[j] /\ selRecv'[j] = selRecv[j]
             /\ pairs \subseteq pairs' /\ \A p \in pairs' \ pairs : ops[p[1]].ch # c
  BY <1>1, <1>3, <1>7
<1> QED
  BY <1>4, <1>5, <1>6, <1>7 DEF CompleteSend

\* Nor does a receive of another channel.
LEMMA OtherRecvEnds ==
  ASSUME Parts, KeyInv, NEW c, NEW label, NEW sk, NEW rk, KeyedAs(c, label, sk, rk),
         NameView(c, label), NEW op, NEW s \in Sites, ops[op] = s, op \in 1..Len(ops),
         CompleteRecv(op, s) \/ CompleteSelectRecv(op, s), s.ch # c
  PROVE  /\ \A k \in {c, label} : sends'[k] = sends[k] /\ recvs'[k] = recvs[k] /\ selRecv'[k] = selRecv[k]
         /\ UNCHANGED msgs
         /\ pairs \subseteq pairs' /\ \A p \in pairs' \ pairs : ops[p[1]].ch # c
<1>1. /\ sends \in [Key -> Seq(Nat)] /\ recvs \in [Key -> Seq(Nat)] /\ selRecv \in [Key -> Nat]
      /\ msgs \in Seq(Nat) /\ c \in Key /\ label \in Key
  <2>1. c \in Key /\ label \in Key
    BY OwnQueues
  <2> QED
    BY <2>1 DEF Parts, QueueTypes
<1>2. /\ OpKey(s) \notin {c, label} /\ s.name \notin {c, label}
      /\ \A b : \A k \in Source(s, b) : k \in Key \ {c, label}
  BY OthersLook
<1>3. UNCHANGED msgs
  BY DEF CompleteRecv, CompleteSelectRecv
<1>4. ASSUME NEW b, NEW k \in Source(s, b), UNCHANGED <<recvs, selRecv>>,
             sends' = [sends EXCEPT ![k] = Tail(@)],
             UNCHANGED pairs \/ pairs' = pairs \union {<<msgs[Head(sends[k])], op>>}
      PROVE  /\ \A j \in {c, label} : sends'[j] = sends[j] /\ recvs'[j] = recvs[j] /\ selRecv'[j] = selRecv[j]
             /\ pairs \subseteq pairs' /\ \A p \in pairs' \ pairs : ops[p[1]].ch # c
  <2>1. k \in Key \ {c, label} /\ sends[k] # <<>>
    BY <1>2, SourceHasMessage
  <2>2. PICK m : m = Head(sends[k])
    OBVIOUS
  <2>3. m \in Elems(sends[k])
    BY <1>1, <2>1, <2>2, FirstIn
  <2>4. ops[msgs[m]] \in Sites /\ OpKey(ops[msgs[m]]) = k /\ ops[msgs[m]].kind = "send"
    BY <2>1, <2>3, References DEF KeyInv, KeyedSends
  <2>5. ops[msgs[m]].ch # c
    BY <2>1, <2>4, OwnSites DEF KeyedAs
  <2>6. \A p \in pairs' \ pairs : p[1] = msgs[m]
    BY <1>4, <2>2
  <2>7. pairs \subseteq pairs'
    BY <1>4
  <2> QED
    BY <1>1, <1>4, <2>1, <2>5, <2>6, <2>7
<1>5. ASSUME recvs' = [recvs EXCEPT ![OpKey(s)] = Append(@, op)], UNCHANGED <<sends, selRecv, pairs>>
      PROVE  /\ \A j \in {c, label} : sends'[j] = sends[j] /\ recvs'[j] = recvs[j] /\ selRecv'[j] = selRecv[j]
             /\ pairs \subseteq pairs' /\ \A p \in pairs' \ pairs : ops[p[1]].ch # c
  BY <1>1, <1>2, <1>5
<1>6. ASSUME selRecv' = [k \in Key |-> selRecv[k] + (IF k = OpKey(s) THEN 1 ELSE 0)
                                                  + (IF k = s.name THEN 1 ELSE 0)],
             UNCHANGED <<sends, recvs, pairs>>
      PROVE  /\ \A j \in {c, label} : sends'[j] = sends[j] /\ recvs'[j] = recvs[j] /\ selRecv'[j] = selRecv[j]
             /\ pairs \subseteq pairs' /\ \A p \in pairs' \ pairs : ops[p[1]].ch # c
  <2>1. \A j \in {c, label} : selRecv'[j] = selRecv[j] + 0 + 0 /\ selRecv[j] \in Nat
    BY <1>1, <1>2, <1>6
  <2> QED
    BY <1>6, <2>1
<1>7. CASE CompleteRecv(op, s)
  <2>1. UNCHANGED selRecv
    BY <1>7 DEF CompleteRecv
  <2>2. CASE recvs' = [recvs EXCEPT ![OpKey(s)] = Append(@, op)] /\ UNCHANGED <<sends, pairs>>
    BY <1>3, <1>5, <2>1, <2>2
  <2>3. ASSUME NEW k \in Source(s, s.ptr = NoPtr), UNCHANGED recvs,
               \/ sends' = [sends EXCEPT ![k] = Tail(@)] /\ UNCHANGED pairs
               \/ PairWith(op, k)
        PROVE  /\ \A j \in {c, label} : sends'[j] = sends[j] /\ recvs'[j] = recvs[j] /\ selRecv'[j] = selRecv[j]
               /\ pairs \subseteq pairs' /\ \A p \in pairs' \ pairs : ops[p[1]].ch # c
    BY <1>4, <2>1, <2>3 DEF PairWith
  <2> QED
    BY <1>3, <1>7, <2>2, <2>3 DEF CompleteRecv
<1>8. CASE CompleteSelectRecv(op, s)
  <2>1. ASSUME NEW k \in Source(s, TRUE), UNCHANGED <<recvs, selRecv>>, PairWith(op, k)
        PROVE  /\ \A j \in {c, label} : sends'[j] = sends[j] /\ recvs'[j] = recvs[j] /\ selRecv'[j] = selRecv[j]
               /\ pairs \subseteq pairs' /\ \A p \in pairs' \ pairs : ops[p[1]].ch # c
    BY <1>4, <2>1 DEF PairWith
  <2> QED
    BY <1>3, <1>6, <1>8, <2>1 DEF CompleteSelectRecv
<1> QED
  BY <1>7, <1>8

\* The end of an operation on another channel leaves the keys of this one, its
\* pairs and its commits alone.
LEMMA OtherEnds ==
  ASSUME Parts, KeyInv, NEW c, NEW label, NEW sk, NEW rk, KeyedAs(c, label, sk, rk),
         NameView(c, label), NEW op, NEW s, Ending(op, s), s.ch # c
  PROVE  /\ \A k \in {c, label} : /\ sends'[k] = sends[k] /\ recvs'[k] = recvs[k]
                                  /\ selRecv'[k] = selRecv[k] /\ sndAtt'[k] = sndAtt[k]
         /\ \A i \in 1..Len(msgs) : msgs'[i] = msgs[i]
         /\ pairs \subseteq pairs' /\ \A p \in pairs' \ pairs : ops[p[1]].ch # c
         /\ \A p \in commits' \ commits : ops[p[1]].ch # c
<1>1. s \in Sites /\ ops[op] = s /\ op \in 1..Len(ops) /\ Pairs(op, s)
  BY DEF Ending, Moved
<1>2. /\ \A k \in {c, label} : sends'[k] = sends[k] /\ recvs'[k] = recvs[k] /\ selRecv'[k] = selRecv[k]
      /\ \A i \in 1..Len(msgs) : msgs'[i] = msgs[i]
      /\ pairs \subseteq pairs' /\ \A p \in pairs' \ pairs : ops[p[1]].ch # c
  <2>1. CASE CompleteSend(op, s)
    BY <1>1, <2>1, OtherSendEnds
  <2>2. CASE CompleteRecv(op, s) \/ CompleteSelectRecv(op, s)
    BY <1>1, <2>2, OtherRecvEnds
  <2> QED
    BY <1>1, <2>1, <2>2 DEF Pairs
<1>3. (\A k \in {c, label} : sndAtt'[k] = sndAtt[k]) /\ \A p \in commits' \ commits : ops[p[1]].ch # c
  <2>1. CASE UNCHANGED <<sndAtt, commits>>
    BY <2>1
  <2>2. CASE CommitRecv(op, s)
    <3>1. OpKey(s) \notin {c, label} /\ OpKey(s) \in Key /\ sndAtt \in [Key -> Seq(Nat)]
      BY <1>1, OthersLook, SiteType DEF Parts, AtomicTypes
    <3>2. CASE sndAtt[OpKey(s)] = <<>>
      BY <2>2, <3>2 DEF CommitRecv
    <3>3. CASE sndAtt[OpKey(s)] # <<>>
      <4>1. PICK k, x : k = OpKey(s) /\ x = Head(sndAtt[k])
        OBVIOUS
      <4>2. sndAtt' = [sndAtt EXCEPT ![k] = Tail(@)] /\ commits' = commits \union {<<x, op>>}
        BY <2>2, <3>3, <4>1 DEF CommitRecv
      <4>3. x \in Elems(sndAtt[k])
        BY <3>1, <3>3, <4>1, FirstIn
      <4>4. x \in 1..Len(ops) /\ OpKey(ops[x]) = k /\ ops[x].kind = "send"
        BY <3>1, <4>1, <4>3 DEF KeyInv, KeyedAttempts
      <4>5. ops[x] \in Sites
        BY <4>4, ElementOfSeq DEF Parts, ProgramTypes
      <4>6. ops[x].ch # c
        BY <3>1, <4>1, <4>4, <4>5, OwnSites DEF KeyedAs
      <4> QED
        BY <3>1, <4>1, <4>2, <4>6
    <3> QED
      BY <3>2, <3>3
  <2> QED
    BY <1>1, <2>1, <2>2 DEF Pairs
<1> QED
  BY <1>2, <1>3

-----------------------------------------------------------------------------
(* The label of the channel.                                              *)

\* The parser keeps the channel's label for its pointer and for no other.
LEMMA LearnLabel ==
  ASSUME Parts, NEW c, NEW label, NEW sk, NEW rk, KeyedAs(c, label, sk, rk), NameView(c, label),
         NEW s \in Sites, LearnName(s)
  PROVE  /\ \A d \in Chan : nameOf'[d] = label => d = c
         /\ nameOf'[c] \in {"none", label}
         /\ nameOf[c] = label => nameOf'[c] = label
         /\ s.ptr = c => nameOf'[c] = label
<1>1. /\ s.ptr \in {s.ch, NoPtr} /\ s.ch \in Chan /\ (s.ch = c <=> s.name = label)
      /\ c \in Chan /\ NoPtr \notin Chan /\ nameOf \in [Chan -> Name \union {"none"}]
  BY SiteType, PairingAssumption DEF SitesOK, KeyedAs, KeyedAs, Parts
<1>2. /\ \A d \in Chan : nameOf[d] = label => d = c
      /\ nameOf[c] \in {"none", label}
  BY DEF NameView
<1>3. CASE s.ptr = NoPtr
  BY <1>1, <1>2, <1>3 DEF LearnName
<1>4. CASE s.ptr # NoPtr
  <2>1. s.ptr = s.ch /\ nameOf' = [nameOf EXCEPT ![s.ch] = s.name]
    BY <1>1, <1>4 DEF LearnName
  <2> QED
    BY <1>1, <1>2, <2>1
<1> QED
  BY <1>3, <1>4

\* The label keeps leading to the channel when an operation begins.
LEMMA LabelBegins ==
  ASSUME Parts, NEW c, NEW label, NEW sk, NEW rk, KeyedAs(c, label, sk, rk), NameView(c, label),
         NEW s \in Sites, Begins(s)
  PROVE  NameView(c, label)'
<1>1. /\ Enter(s) /\ UNCHANGED <<sends, selRecv>>
      /\ s.via = "select" => UNCHANGED nameOf
      /\ s.via = "region" => LearnName(s)
  BY DEF Begins, RegionBegin, SelectBegin, queues
<1>2. /\ Len(ops') = Len(ops) + 1 /\ ops'[Len(ops) + 1] = s /\ Len(ops) \in Nat
      /\ \A i \in 1..Len(ops) : ops'[i] = ops[i]
  BY <1>1, EnterMoved DEF Parts
<1>3. s.via = "region" \/ s.via = "select"
  BY PairingAssumption DEF SitesOK
<1>4. /\ \A d \in Chan : nameOf'[d] = label => d = c
      /\ nameOf'[c] \in {"none", label}
      /\ nameOf[c] = label => nameOf'[c] = label
      /\ s.ptr = c /\ s.via = "region" => nameOf'[c] = label
  <2>1. CASE s.via = "region"
    BY <1>1, <2>1, LearnLabel
  <2>2. CASE s.via = "select"
    BY <1>1, <2>2 DEF NameView
  <2> QED
    BY <1>3, <2>1, <2>2
<1>5. \A i \in 1..Len(ops') : ops'[i].ptr = c /\ ops'[i].via = "region" => nameOf'[c] = label
  <2> SUFFICES ASSUME NEW i \in 1..Len(ops'), ops'[i].ptr = c, ops'[i].via = "region"
               PROVE  nameOf'[c] = label
    OBVIOUS
  <2>1. CASE i \in 1..Len(ops)
    BY <1>2, <1>4, <2>1 DEF NameView
  <2>2. CASE i = Len(ops) + 1
    BY <1>2, <1>4, <2>2
  <2> QED
    BY <1>2, <2>1, <2>2
<1> QED
  BY <1>1, <1>4, <1>5 DEF NameView

\* Only a send with that key starts a queue of sends.
LEMMA SendsGrow ==
  ASSUME sends \in [Key -> Seq(Nat)], NEW op, NEW s \in Sites, Pairs(op, s), NEW k \in Key,
         sends[k] = <<>>, sends'[k] # <<>>
  PROVE  s.kind = "send" /\ OpKey(s) = k
<1>1. CASE s.kind = "send" /\ CompleteSend(op, s)
  BY <1>1, SiteType DEF CompleteSend
<1>2. ASSUME NEW b, NEW j \in Source(s, b), sends' = [sends EXCEPT ![j] = Tail(@)] PROVE FALSE
  <2>1. j \in Key /\ sends[j] # <<>>
    BY <1>2, SourceHasMessage
  <2> QED
    BY <1>2, <2>1
<1>3. CASE CompleteRecv(op, s)
  BY <1>2, <1>3 DEF CompleteRecv, PairWith
<1>4. CASE CompleteSelectRecv(op, s)
  BY <1>2, <1>4 DEF CompleteSelectRecv, PairWith
<1> QED
  BY <1>1, <1>3, <1>4 DEF Pairs

\* The label keeps leading to the channel when an operation ends.
LEMMA LabelEnds ==
  ASSUME Parts, KeyInv, NEW c, NEW label, NEW sk, NEW rk, KeyedAs(c, label, sk, rk),
         NameView(c, label), NEW op, NEW s, Ending(op, s)
  PROVE  NameView(c, label)'
<1>1. /\ s \in Sites /\ ops[op] = s /\ op \in 1..Len(ops) /\ UNCHANGED ops
      /\ s.via = "region" => UNCHANGED nameOf
      /\ s.via = "select" => LearnName(s)
  BY DEF Ending, Moved
<1>2. /\ s.via = "region" \/ s.via = "select"
      /\ c \in Key /\ label \in Key /\ sk \in Key /\ rk \in Key
      /\ sends \in [Key -> Seq(Nat)]
  BY <1>1, PairingAssumption, OwnQueues DEF SitesOK, Parts, QueueTypes
<1>3. /\ \A d \in Chan : nameOf'[d] = label => d = c
      /\ nameOf'[c] \in {"none", label}
      /\ nameOf[c] = label => nameOf'[c] = label
      /\ s.ptr = c => nameOf'[c] = label
  <2>1. CASE s.via = "region"
    BY <1>1, <2>1 DEF NameView
  <2>2. CASE s.via = "select"
    BY <1>1, <2>2, LearnLabel
  <2> QED
    BY <1>2, <2>1, <2>2
<1>4. sends'[c] # <<>> => nameOf'[c] = label
  <2> SUFFICES ASSUME sends'[c] # <<>>, sends[c] = <<>> PROVE nameOf'[c] = label
    BY <1>3 DEF NameView
  <2>1. s.kind = "send" /\ OpKey(s) = c
    BY <1>1, <1>2, SendsGrow DEF Ending
  <2>2. s.ptr = c
    <3>1. s.name # c
      BY <1>1, PairingAssumption, SiteType DEF KeyedAs
    <3> QED
      BY <2>1, <3>1 DEF OpKey
  <2> QED
    BY <1>3, <2>2
<1> QED
  BY <1>1, <1>3, <1>4 DEF NameView

\* Nothing is counted when an operation begins.
LEMMA LabelViewBegins ==
  ASSUME Parts, NEW c, NEW label, NEW sk, NEW rk, Traced(c, label, sk, rk), LabelView(c, label),
         NEW s \in Sites, Begins(s)
  PROVE  LabelView(c, label)'
<1>1. NameView(c, label)'
  BY LabelBegins DEF LabelView, Traced
<1>2. UNCHANGED selRecv
  BY DEF Begins, RegionBegin, SelectBegin, queues
<1> QED
  BY <1>1, <1>2 DEF LabelView, Uncounted

\* A channel whose receives are in regions has no receives to be counted off.
LEMMA UncountedEnds ==
  ASSUME Parts, KeyInv, NEW c, NEW label, NEW sk, NEW rk, Traced(c, label, sk, rk),
         LabelView(c, label), NEW op, NEW s, Ending(op, s)
  PROVE  LabelView(c, label)'
<1>1. NameView(c, label)'
  BY LabelEnds DEF LabelView, Traced
<1>2. s.kind \in {"send", "recv"}
  BY PairingAssumption DEF SitesOK, Ending
<1>3. selRecv'[c] = selRecv[c] /\ selRecv'[label] = selRecv[label]
  <2>1. CASE s.ch # c
    BY <2>1, OtherEnds DEF LabelView, Traced
  <2>2. CASE s.ch = c
    BY <1>2, <2>2, OwnSendEnds, OwnRecvEnds
  <2> QED
    BY <2>1, <2>2
<1> QED
  BY <1>1, <1>3 DEF LabelView, Uncounted

\* Nor when values move.
LEMMA LabelFlows ==
  ASSUME NEW c, NEW label, LabelView(c, label), Flows
  PROVE  LabelView(c, label)'
  BY DEF Flows, queues, LabelView, NameView, Uncounted

-----------------------------------------------------------------------------
(* The oldest send and the oldest receive of a pipe.                      *)

\* The oldest send and the oldest receive that have not gone belong together.
LEMMA Partner ==
  ASSUME ProgramTypes, TruthInv, NEW c \in Chan, Pipe(c), NEW sk, NEW rk, Gone(c, sk, rk),
         NEW x \in Moved \ SendsGone(c, sk), x \in On(c, "send"),
         \A i \in On(c, "send") : i < x => i \in SendsGone(c, sk),
         NEW y \in Moved \ RecvsGone(c, rk), y \in On(c, "recv"),
         \A j \in On(c, "recv") : j < y => j \in RecvsGone(c, rk)
  PROVE  <<x, y>> \in took
<1>1. /\ ops[x].kind = "send" /\ ops[x].ch = c /\ x \in Nat
      /\ ops[y].kind = "recv" /\ ops[y].ch = c /\ y \in Nat
  BY DEF On
<1>2. PICK p \in took : p[2] = y
  BY <1>1 DEF TruthInv, ReceivedAll
<1>3. p = <<p[1], p[2]>> /\ p[1] \in Nat /\ p[1] \in On(c, "send")
  BY <1>1, <1>2 DEF ProgramTypes, TruthInv, TookRefs, On, Moved
<1>4. \A q \in took : q[1] = p[1] \/ q[2] = p[2] => q = p
  BY <1>2 DEF TruthInv, TookOnce
<1>5. ~(p[1] < x)
  <2> SUFFICES ASSUME p[1] < x PROVE FALSE
    OBVIOUS
  <2>1. p[1] \in SendsGone(c, sk)
    BY <1>3
  <2>2. PICK q \in took : q[1] = p[1] /\ q[2] \in RecvsGone(c, rk)
    BY <2>1 DEF Gone
  <2> QED
    BY <1>2, <1>4, <2>2
<1>6. ~(x < p[1])
  <2> SUFFICES ASSUME x < p[1] PROVE FALSE
    OBVIOUS
  <2>1. ops[p[1]].ch = c
    BY <1>3 DEF On
  <2>2. x \notin Elems(chanQ[c])
    <3>1. \A i \in Elems(chanQ[c]) : p[1] < i
      BY <1>2, <2>1 DEF TruthInv, InOrder
    <3> QED
      BY <1>1, <1>3, <3>1
  <2>3. PICK q \in took : q[1] = x
    BY <1>1, <2>2 DEF TruthInv, SentAll
  <2>4. q[2] < y /\ q[2] \in On(c, "recv")
    BY <1>1, <1>2, <2>1, <2>3 DEF TruthInv, InOrder, TookRefs, On, Moved
  <2>5. q[2] \in RecvsGone(c, rk)
    BY <2>4
  <2>6. PICK r \in took : r[2] = q[2] /\ r[1] \in SendsGone(c, sk)
    BY <2>5 DEF Gone
  <2>7. r = q
    BY <2>3, <2>6 DEF TruthInv, TookOnce
  <2> QED
    BY <2>3, <2>6, <2>7
<1>7. p[1] = x
  BY <1>1, <1>3, <1>5, <1>6
<1> QED
  BY <1>2, <1>3, <1>7

\* The head of an increasing queue is its least element.
LEMMA HeadLeast ==
  ASSUME NEW q \in Seq(Nat), q # <<>>, Increasing(q)
  PROVE  Head(q) \in Nat /\ \A i \in Elems(q) : Head(q) <= i
<1>1. /\ Len(q) \in Nat /\ Len(q) >= 1 /\ Head(q) = q[1]
      /\ \A i \in 1..Len(q) : q[i] \in Nat
  BY HeadTailProperties, LenProperties, EmptySeq, ElementOfSeq
<1>2. \A i \in 1..Len(q) : i # 1 => q[1] < q[i]
  BY <1>1 DEF Increasing
<1> QED
  BY <1>1, <1>2 DEF Elems

\* A receive that ends finds the attempt of the send it had on top.
LEMMA CommitPartner ==
  ASSUME ProgramTypes, ProgramInv, TruthInv, NEW c \in Chan, Pipe(c), NEW k, Committed(c, k),
         sndAtt[k] \in Seq(Nat), \A x \in Elems(sndAtt[k]) : x \in On(c, "send"),
         NEW y \in Moved \ Done, y \in On(c, "recv"),
         \A j \in On(c, "recv") : j < y => j \in Done
  PROVE  sndAtt[k] # <<>> /\ <<Head(sndAtt[k]), y>> \in took
<1> DEFINE A == Elems(sndAtt[k])
<1>1. /\ ops[y].kind = "recv" /\ ops[y].ch = c /\ y \in Nat
  BY DEF On
<1>2. PICK p \in took : p[2] = y
  BY <1>1 DEF TruthInv, ReceivedAll
<1>3. p = <<p[1], p[2]>> /\ p[1] \in Nat /\ p[1] \in On(c, "send")
  BY <1>1, <1>2 DEF ProgramTypes, TruthInv, TookRefs, On, Moved
<1>4. \A q \in took : q[1] = p[1] \/ q[2] = p[2] => q = p
  BY <1>2 DEF TruthInv, TookOnce
<1>5. p[1] \in A
  <2> SUFFICES ASSUME p[1] \notin A PROVE FALSE
    OBVIOUS
  <2>1. PICK q \in took : q[1] = p[1] /\ q[2] \in Done
    BY <1>3 DEF Committed
  <2> QED
    BY <1>2, <1>4, <2>1
<1>6. sndAtt[k] # <<>>
  BY <1>5 DEF Elems
<1> DEFINE h == Head(sndAtt[k])
<1>7. h \in A /\ h \in On(c, "send") /\ h \in Nat /\ h <= p[1]
  BY <1>5, <1>6, FirstIn, HeadLeast DEF Committed
<1> HIDE DEF A, h
<1>8. ~(h < p[1])
  <2> SUFFICES ASSUME h < p[1] PROVE FALSE
    OBVIOUS
  <2>1. /\ h \in 1..Len(ops) /\ p[1] \in 1..Len(ops) /\ ops[h] \in Sites /\ ops[p[1]] \in Sites
        /\ ops[h].ch = c /\ ops[h].kind = "send" /\ ops[p[1]].ch = c /\ ops[p[1]].kind = "send"
    BY <1>3, <1>7, ElementOfSeq DEF On, ProgramTypes
  <2>2. ops[h].g = ops[p[1]].g
    BY <2>1 DEF Pipe
  <2>3. h \in Moved
    BY <2>1, <2>2, Earlier DEF TruthInv
  <2>4. h \notin Elems(chanQ[c])
    <3>1. \A i \in Elems(chanQ[c]) : p[1] < i
      BY <1>2, <2>1 DEF TruthInv, InOrder
    <3> QED
      BY <1>3, <1>7, <3>1
  <2>5. PICK q \in took : q[1] = h
    BY <2>1, <2>3, <2>4 DEF TruthInv, SentAll
  <2>6. q[2] < y /\ q[2] \in On(c, "recv")
    BY <1>1, <1>2, <2>1, <2>5 DEF TruthInv, InOrder, TookRefs, On, Moved
  <2>7. PICK r \in took : r[2] = q[2] /\ r[1] \notin A
    BY <2>6 DEF Committed, A
  <2>8. r = q
    BY <2>5, <2>7 DEF TruthInv, TookOnce
  <2> QED
    BY <1>7, <2>5, <2>7, <2>8
<1>9. h = p[1]
  BY <1>3, <1>7, <1>8
<1> QED
  BY <1>2, <1>3, <1>6, <1>9 DEF h

-----------------------------------------------------------------------------
(* The view of a traced channel, step by step.                            *)

\* Steps that leave the channel's queues alone.
LEMMA QueueSame ==
  ASSUME Parts, NEW sk \in Key, NEW rk \in Key, sends'[sk] = sends[sk], recvs'[rk] = recvs[rk],
         \A i \in 1..Len(msgs) : msgs'[i] = msgs[i]
  PROVE  /\ QSd(sk)' = QSd(sk) /\ QRv(rk)' = QRv(rk)
         /\ NotBoth(sk, rk) => NotBoth(sk, rk)'
         /\ QueueOrder(sk, rk) => QueueOrder(sk, rk)'
<1>1. \A m \in Elems(sends[sk]) : m \in 1..Len(msgs)
  BY References
<1>2. \A i \in 1..Len(sends[sk]) : sends[sk][i] \in 1..Len(msgs)
  BY <1>1 DEF Elems
<1>3. QSd(sk)' = QSd(sk) /\ QRv(rk)' = QRv(rk)
  BY <1>1 DEF QSd, QRv
<1>4. NotBoth(sk, rk) => NotBoth(sk, rk)'
  BY DEF NotBoth
<1>5. QueueOrder(sk, rk) => QueueOrder(sk, rk)'
  BY <1>2 DEF QueueOrder
<1> QED
  BY <1>3, <1>4, <1>5

\* A step that changes neither the channel's queues nor which of its operations
\* have ended keeps the parser's view of it.
LEMMA ViewKept ==
  ASSUME Parts, KeyInv, NEW c, NEW label, NEW sk, NEW rk, Traced(c, label, sk, rk),
         View(c, label, sk, rk), LabelView(c, label)',
         sends'[sk] = sends[sk], recvs'[rk] = recvs[rk],
         \A i \in 1..Len(msgs) : msgs'[i] = msgs[i],
         \A i \in 1..Len(ops) : ops'[i] = ops[i],
         On(c, "recv") \subseteq On(c, "recv")',
         On(c, "send")' \intersect Done' = On(c, "send") \intersect Done,
         On(c, "recv")' \intersect Done' = On(c, "recv") \intersect Done,
         took \subseteq took',
         pairs \subseteq pairs', \A p \in pairs' \ pairs : ops'[p[1]].ch # c,
         \A p \in commits' \ commits : ops'[p[1]].ch # c,
         Pipe(c) /\ sk = rk /\ InRegions(c) => Committed(c, sk)'
  PROVE  View(c, label, sk, rk)'
<1>1. c \in Chan /\ sk \in Key /\ rk \in Key
  BY OwnQueues DEF Traced
<1>2. /\ QSd(sk)' = QSd(sk) /\ QRv(rk)' = QRv(rk)
      /\ NotBoth(sk, rk)'
      /\ QueueOrder(sk, rk) => QueueOrder(sk, rk)'
  BY <1>1, QueueSame DEF View
<1>3. SendsGone(c, sk)' = SendsGone(c, sk) /\ RecvsGone(c, rk)' = RecvsGone(c, rk)
  BY <1>2 DEF SendsGone, RecvsGone
<1>4. \A p \in pairs : ops'[p[1]] = ops[p[1]]
  BY References
<1>5. \A p \in commits : ops'[p[1]] = ops[p[1]]
  BY DEF KeyInv, CommitRefs
<1>6. PairsStay(c)'
  BY <1>4 DEF View, PairsStay
<1>7. AllPaired(c, sk, rk) => AllPaired(c, sk, rk)'
  BY <1>3 DEF AllPaired
<1>8. ASSUME PipeView(c, sk, rk), Pipe(c) PROVE PipeView(c, sk, rk)'
  <2>1. Gone(c, sk, rk)'
    BY <1>3, <1>8 DEF PipeView, Gone
  <2>2. PairsTrue(c)'
    BY <1>4, <1>8 DEF PipeView, PairsTrue
  <2>3. CommitsTrue(c)'
    BY <1>5, <1>8 DEF PipeView, CommitsTrue
  <2> QED
    BY <1>2, <1>8, <2>1, <2>2, <2>3 DEF PipeView, InRegions
<1> QED
  BY <1>2, <1>6, <1>7, <1>8 DEF View, Pipe

\* Attempts that nothing touches stay matched.
LEMMA CommittedKept ==
  ASSUME NEW c, NEW k, Committed(c, k), sndAtt'[k] = sndAtt[k], On(c, "send")' = On(c, "send"),
         On(c, "recv")' \intersect Done' = On(c, "recv") \intersect Done,
         took \subseteq took', Done \subseteq Done'
  PROVE  Committed(c, k)'
  BY DEF Committed

\* What the three kinds of steps do to the operations of the channel.
LEMMA BeginSets ==
  ASSUME Parts, NEW c, NEW s \in Sites, Begins(s)
  PROVE  /\ Done' = Done /\ Done \subseteq 1..Len(ops)
         /\ UNCHANGED <<took, msgs, sends, recvs, pairs, commits>>
         /\ Len(ops) \in Nat /\ \A i \in 1..Len(ops) : ops'[i] = ops[i]
         /\ \A kind : On(c, kind)' = On(c, kind) \union
                        (IF s.ch = c /\ s.kind = kind THEN {Len(ops) + 1} ELSE {})
<1>1. /\ Enter(s) /\ UNCHANGED <<took, msgs, sends, recvs, pairs, commits>>
  BY DEF Begins, RegionBegin, SelectBegin, queues, Enter, atomic
<1>2. /\ Len(ops') = Len(ops) + 1 /\ ops'[Len(ops) + 1] = s /\ Len(ops) \in Nat
      /\ \A i \in 1..Len(ops) : ops'[i] = ops[i]
  BY <1>1, EnterMoved DEF Parts
<1>3. Done' = Done /\ Done \subseteq 1..Len(ops)
  BY <1>1, EnterStep DEF Parts, Done
<1>4. 1..Len(ops') = 1..Len(ops) \union {Len(ops) + 1}
  BY <1>2
<1>5. ASSUME NEW kind
      PROVE  On(c, kind)' = On(c, kind) \union
                              (IF s.ch = c /\ s.kind = kind THEN {Len(ops) + 1} ELSE {})
  BY <1>2, <1>4 DEF On
<1> QED
  BY <1>1, <1>2, <1>3, <1>5

\* An operation begins: its attempt, if it is a send of the channel, is the newest.
LEMMA ViewBegins ==
  ASSUME Parts, KeyInv, TruthInv, NEW c, NEW label, NEW sk, NEW rk, Traced(c, label, sk, rk),
         View(c, label, sk, rk), NEW s \in Sites, Begins(s)
  PROVE  View(c, label, sk, rk)'
<1> DEFINE n == Len(ops) + 1
<1>1. /\ Done' = Done /\ Done \subseteq 1..Len(ops)
      /\ UNCHANGED <<took, msgs, sends, recvs, pairs, commits>>
      /\ Len(ops) \in Nat /\ \A i \in 1..Len(ops) : ops'[i] = ops[i]
      /\ \A kind : On(c, kind)' = On(c, kind) \union (IF s.ch = c /\ s.kind = kind THEN {n} ELSE {})
  BY BeginSets
<1>2. LabelView(c, label)'
  BY LabelViewBegins DEF View
<1>3. n \notin Done /\ n \in Nat
  BY <1>1
<1>4. /\ c \in Key /\ sk \in Key /\ sndAtt \in [Key -> Seq(Nat)]
      /\ \A x \in Elems(sndAtt[sk]) : x \in On(c, "send")
  <2>1. sndAtt \in [Key -> Seq(Nat)]
    BY DEF Parts, AtomicTypes
  <2> QED
    BY <2>1, OwnQueues DEF Traced
<1> HIDE DEF n
<1>5. ASSUME Committed(c, sk), InRegions(c) PROVE Committed(c, sk)'
  <2>1. On(c, "recv")' \intersect Done' = On(c, "recv") \intersect Done
    BY <1>1, <1>3
  <2>2. \/ UNCHANGED sndAtt
        \/ s.kind = "send" /\ s.via = "region" /\ sndAtt' = [sndAtt EXCEPT ![OpKey(s)] = Append(@, n)]
    BY DEF Begins, RegionBegin, SelectBegin, atomic, n
  <2>3. CASE s.ch = c /\ s.kind = "send"
    <3>1. s.via = "region" /\ OpKey(s) = sk
      BY <1>5, <2>3, OwnSites DEF InRegions, Traced
    <3>2. sndAtt' = [sndAtt EXCEPT ![sk] = Append(@, n)]
      BY <2>3, <3>1 DEF Begins, RegionBegin, SelectBegin, n
    <3>3. sndAtt'[sk] = Append(sndAtt[sk], n) /\ sndAtt[sk] \in Seq(Nat)
      BY <1>4, <3>2
    <3>4. Elems(sndAtt'[sk]) = Elems(sndAtt[sk]) \union {n}
      BY <1>3, <3>3, AppendElems
    <3>5. \A x \in Elems(sndAtt[sk]) : x < n
      BY <1>1, <1>4 DEF On, n
    <3>6. Increasing(sndAtt'[sk])
      BY <1>3, <1>5, <3>3, <3>5, AppendIncreasing DEF Committed
    <3>7. On(c, "send")' = On(c, "send") \union {n}
      BY <1>1, <2>3
    <3>8. \A x \in On(c, "send")' \ Elems(sndAtt'[sk]) : \E p \in took' : p[1] = x /\ p[2] \in Done'
      BY <1>1, <1>5, <3>4, <3>7 DEF Committed
    <3>9. ASSUME NEW y \in On(c, "recv")' \intersect Done'
           PROVE  \E p \in took' : p[2] = y /\ p[1] \notin Elems(sndAtt'[sk])
      <4>1. PICK p \in took : p[2] = y /\ p[1] \notin Elems(sndAtt[sk])
        BY <1>5, <2>1 DEF Committed
      <4>2. p[1] # n
        BY <1>1, <4>1 DEF TruthInv, TookRefs, Moved, n
      <4> QED
        BY <1>1, <3>4, <4>1, <4>2
    <3> QED
      BY <3>6, <3>8, <3>9 DEF Committed
  <2>4. CASE ~(s.ch = c /\ s.kind = "send")
    <3>1. On(c, "send")' = On(c, "send")
      BY <1>1, <2>4
    <3>2. sndAtt'[sk] = sndAtt[sk]
      <4>1. CASE UNCHANGED sndAtt
        BY <4>1
      <4>2. CASE s.kind = "send" /\ sndAtt' = [sndAtt EXCEPT ![OpKey(s)] = Append(@, n)]
        <5>1. OpKey(s) # sk
          <6>1. s.ch # c /\ sk \in {c, label}
            BY <2>4, <4>2, OwnQueues DEF Traced
          <6> QED
            BY <6>1, OwnSites DEF Traced
        <5> QED
          BY <1>4, <4>2, <5>1
      <4> QED
        BY <2>2, <4>1, <4>2
    <3> QED
      BY <1>1, <1>5, <2>1, <3>1, <3>2, CommittedKept
  <2> QED
    BY <2>3, <2>4
<1>6. /\ On(c, "recv") \subseteq On(c, "recv")'
      /\ On(c, "send")' \intersect Done' = On(c, "send") \intersect Done
      /\ On(c, "recv")' \intersect Done' = On(c, "recv") \intersect Done
  BY <1>1, <1>3
<1>7. Pipe(c) /\ sk = rk /\ InRegions(c) => Committed(c, sk)'
  BY <1>5 DEF View, PipeView
<1> QED
  BY <1>1, <1>2, <1>6, <1>7, ViewKept

\* Values move: the parser sees nothing of it.
LEMMA ViewFlows ==
  ASSUME Parts, KeyInv, NEW c, NEW label, NEW sk, NEW rk, Traced(c, label, sk, rk),
         View(c, label, sk, rk), Flows
  PROVE  View(c, label, sk, rk)'
<1>1. /\ UNCHANGED <<ops, msgs, sends, recvs, pairs, sndAtt, commits>>
      /\ Done' = Done /\ took \subseteq took'
  BY DEF Flows, queues
<1>2. LabelView(c, label)'
  BY LabelFlows DEF View
<1>3. On(c, "recv")' = On(c, "recv") /\ On(c, "send")' = On(c, "send")
  BY <1>1 DEF On
<1>4. Committed(c, sk) => Committed(c, sk)'
  BY <1>1, <1>3, CommittedKept
<1>5. Pipe(c) /\ sk = rk /\ InRegions(c) => Committed(c, sk)'
  BY <1>4 DEF View, PipeView
<1> QED
  BY <1>1, <1>2, <1>3, <1>5, ViewKept

\* The operation that ends is the only one that has not ended before.
LEMMA EndSets ==
  ASSUME Parts, NEW c, NEW op, NEW s, Ending(op, s)
  PROVE  /\ Done' = Done \union {op} /\ op \notin Done /\ op \in 1..Len(ops) /\ op \in Nat
         /\ op \in Moved /\ op \in On(s.ch, s.kind) /\ s \in Sites /\ UNCHANGED <<ops, took>>
         /\ \A kind : On(c, kind)' = On(c, kind)
  BY DEF Ending, Ends, Moved, On

\* An operation on another channel ends.
LEMMA ViewOtherEnds ==
  ASSUME Parts, KeyInv, NEW c, NEW label, NEW sk, NEW rk, Traced(c, label, sk, rk),
         View(c, label, sk, rk), NEW op, NEW s, Ending(op, s), s.ch # c
  PROVE  View(c, label, sk, rk)'
<1>1. /\ \A k \in {c, label} : /\ sends'[k] = sends[k] /\ recvs'[k] = recvs[k]
                               /\ selRecv'[k] = selRecv[k] /\ sndAtt'[k] = sndAtt[k]
      /\ \A i \in 1..Len(msgs) : msgs'[i] = msgs[i]
      /\ pairs \subseteq pairs' /\ \A p \in pairs' \ pairs : ops[p[1]].ch # c
      /\ \A p \in commits' \ commits : ops[p[1]].ch # c
  BY OtherEnds DEF View, LabelView, Traced
<1>2. /\ Done' = Done \union {op} /\ op \in On(s.ch, s.kind) /\ UNCHANGED <<ops, took>>
      /\ \A kind : On(c, kind)' = On(c, kind)
  BY EndSets
<1>3. LabelView(c, label)'
  BY UncountedEnds DEF View
<1>4. \A kind : op \notin On(c, kind)
  BY <1>2 DEF On
<1>5. \A kind : On(c, kind)' \intersect Done' = On(c, kind) \intersect Done
  BY <1>2, <1>4
<1>6. sk \in {c, label} /\ rk \in {c, label}
  BY DEF Traced, KeyedAs
<1>7. Committed(c, sk) => Committed(c, sk)'
  BY <1>1, <1>2, <1>5, <1>6, CommittedKept
<1>8. Pipe(c) /\ sk = rk /\ InRegions(c) => Committed(c, sk)'
  BY <1>7 DEF View, PipeView
<1>9. sends'[sk] = sends[sk] /\ recvs'[rk] = recvs[rk]
  BY <1>1, <1>6
<1> QED
  BY <1>1, <1>2, <1>3, <1>5, <1>8, <1>9, ViewKept

\* On a pipe, all that came before an operation that ends has ended.
LEMMA EndingNewest ==
  ASSUME ProgramTypes, ProgramInv, Latest, NEW op, NEW s, Ending(op, s), Pipe(s.ch),
         NEW i \in On(s.ch, s.kind)
  PROVE  i <= op /\ (i < op => i \in Done)
<1>1. /\ s \in Sites /\ ops[op] = s /\ op \in 1..Len(ops) /\ op \notin Done
      /\ i \in 1..Len(ops) /\ ops[i] \in Sites /\ ops[i].ch = s.ch /\ ops[i].kind = s.kind
  BY ElementOfSeq DEF Ending, Ends, Moved, On, ProgramTypes
<1>2. ops[i].g = s.g
  BY <1>1 DEF Pipe
<1>3. PICK g \in Gor : stage[g] # "idle" /\ cur[g] = op
  BY <1>1 DEF Done, Live
<1>4. s.g = g
  BY <1>1, <1>3 DEF ProgramInv
<1>5. i <= op
  BY <1>1, <1>2, <1>3, <1>4 DEF Latest
<1>6. i < op => i \in Done
  BY <1>1, <1>2, Earlier
<1> QED
  BY <1>5, <1>6

\* On a pipe, what came before some operation of its kind has ended.
LEMMA PipeEarlier ==
  ASSUME ProgramTypes, ProgramInv, Latest, NEW c, Pipe(c), NEW kind,
         NEW i \in On(c, kind), NEW j \in On(c, kind), i < j
  PROVE  i \in Done
<1>1. /\ i \in 1..Len(ops) /\ ops[i] \in Sites /\ j \in 1..Len(ops) /\ ops[j] \in Sites
      /\ ops[i].ch = c /\ ops[i].kind = kind /\ ops[j].ch = c /\ ops[j].kind = kind
  BY ElementOfSeq DEF On, ProgramTypes
<1>2. ops[i].g = ops[j].g
  BY <1>1 DEF Pipe
<1> QED
  BY <1>1, <1>2, Earlier

\* What has ended has happened.
LEMMA DoneMoved == Done \subseteq Moved
  BY DEF Done, Moved, Live, Begun

\* A send and the receive it was taken by go together.
LEMMA GoneMore ==
  ASSUME NEW c, NEW sk, NEW rk, Gone(c, sk, rk), UNCHANGED took, NEW x, NEW y, <<x, y>> \in took,
         SendsGone(c, sk)' = SendsGone(c, sk) \union {x},
         RecvsGone(c, rk)' = RecvsGone(c, rk) \union {y}
  PROVE  Gone(c, sk, rk)'
  BY DEF Gone

\* A receive that ends commits the send it had.
LEMMA RecvCommits ==
  ASSUME Parts, KeyInv, TruthInv, NEW c, NEW label, NEW sk, NEW rk, Traced(c, label, sk, rk),
         Pipe(c), PipeView(c, sk, rk), NEW op, NEW s, Ending(op, s), s.ch = c, s.kind = "recv",
         CommitRecv(op, s), OpKey(s) = rk
  PROVE  CommitsTrue(c)' /\ (sk = rk /\ InRegions(c) => Committed(c, sk)')
<1>1. /\ c \in Chan /\ rk \in Key /\ sk \in Key /\ sndAtt \in [Key -> Seq(Nat)]
      /\ \A x \in Elems(sndAtt[rk]) : x \in On(c, "send") /\ ops[x].via = "region"
      /\ rk # sk => sndAtt[rk] = <<>>
  <2>1. sndAtt \in [Key -> Seq(Nat)]
    BY DEF Parts, AtomicTypes
  <2> QED
    BY <2>1, OwnQueues DEF Traced
<1>2. /\ Done' = Done \union {op} /\ op \notin Done /\ op \in Moved /\ op \in On(c, "recv")
      /\ UNCHANGED <<ops, took>> /\ \A kind : On(c, kind)' = On(c, kind)
  BY EndSets
<1>3. \A j \in On(c, "recv") : j < op => j \in Done
  BY EndingNewest DEF Parts, TruthInv
<1>4. sndAtt[rk] # <<>> => sk = rk /\ InRegions(c)
  <2> SUFFICES ASSUME sndAtt[rk] # <<>>, NEW t \in Sites, t.ch = c
               PROVE  t.via = "region"
    BY <1>1 DEF InRegions
  <2>1. PICK x : x \in Elems(sndAtt[rk])
    BY <1>1, FirstIn
  <2>2. ops[x].ch = c /\ ops[x].kind = "send" /\ ops[x].via = "region" /\ ops[x] \in Sites
    BY <1>1, <2>1, ElementOfSeq DEF On, Parts, ProgramTypes
  <2>3. CASE t.kind = "recv"
    BY <2>3 DEF Traced
  <2>4. CASE t.kind = "send"
    <3>1. t.g = ops[x].g
      BY <2>2, <2>4 DEF Pipe
    <3> QED
      BY <2>2, <2>4, <3>1, PairingAssumption DEF SitesOK
  <2> QED
    BY <2>3, <2>4, PairingAssumption DEF SitesOK
<1>5. sk = rk /\ InRegions(c) => sndAtt[rk] # <<>> /\ <<Head(sndAtt[rk]), op>> \in took
  <2> SUFFICES ASSUME sk = rk, InRegions(c)
               PROVE  sndAtt[rk] # <<>> /\ <<Head(sndAtt[rk]), op>> \in took
    OBVIOUS
  <2>1. Committed(c, rk) /\ sndAtt[rk] \in Seq(Nat)
    BY <1>1 DEF PipeView
  <2> QED
    BY <1>1, <1>2, <1>3, <2>1, CommitPartner DEF Parts
<1>6. CASE sndAtt[rk] = <<>>
  <2>1. UNCHANGED commits
    BY <1>6 DEF CommitRecv
  <2>2. CommitsTrue(c)'
    BY <1>2, <2>1 DEF PipeView, CommitsTrue
  <2> QED
    BY <1>5, <1>6, <2>2
<1>7. CASE sndAtt[rk] # <<>>
  <2> DEFINE h == Head(sndAtt[rk])
             q == sndAtt[rk]
  <2>1. /\ sndAtt' = [sndAtt EXCEPT ![rk] = Tail(@)] /\ commits' = commits \union {<<h, op>>}
        /\ <<h, op>> \in took /\ sk = rk /\ Committed(c, rk)
    BY <1>4, <1>5, <1>7 DEF CommitRecv, PipeView
  <2>2. /\ sndAtt'[rk] = Tail(q) /\ q \in Seq(Nat) /\ Increasing(q)
    BY <1>1, <2>1 DEF Committed
  <2>3. /\ Increasing(Tail(q)) /\ \A i \in Elems(Tail(q)) : h < i
        /\ Tail(q) \in Seq(Nat) /\ h \in Nat
    BY <1>7, <2>2, TailIncreasing, HeadTailProperties
  <2>4. h \notin Elems(Tail(q)) /\ Elems(q) = Elems(Tail(q)) \union {h}
    <3>1. ~(h < h)
      BY <2>3
    <3>2. Elems(q) = Elems(Tail(q)) \union {h}
      BY <1>7, <2>2, TailSplit
    <3> QED
      BY <2>3, <3>1, <3>2
  <2> HIDE DEF h, q
  <2>5. CommitsTrue(c)'
    BY <1>2, <2>1 DEF PipeView, CommitsTrue
  <2>6. ASSUME NEW x \in On(c, "send")' \ Elems(Tail(q))
        PROVE  \E p \in took : p[1] = x /\ p[2] \in Done'
    <3>1. CASE x = h
      BY <1>2, <2>1, <3>1
    <3>2. CASE x # h
      <4>1. x \in On(c, "send") \ Elems(sndAtt[rk])
        BY <1>2, <2>4, <3>2 DEF q
      <4> QED
        BY <1>2, <2>1, <4>1 DEF Committed
    <3> QED
      BY <3>1, <3>2
  <2>7. ASSUME NEW y \in On(c, "recv")' \intersect Done'
        PROVE  \E p \in took : p[2] = y /\ p[1] \notin Elems(Tail(q))
    <3>1. CASE y = op
      BY <2>1, <2>4, <3>1
    <3>2. CASE y # op
      <4>1. PICK p \in took : p[2] = y /\ p[1] \notin Elems(sndAtt[rk])
        BY <1>2, <2>1, <3>2 DEF Committed
      <4> QED
        BY <2>4, <4>1 DEF q
    <3> QED
      BY <3>1, <3>2
  <2>8. Committed(c, rk)'
    BY <1>2, <2>2, <2>3, <2>6, <2>7 DEF Committed
  <2> QED
    BY <2>1, <2>5, <2>8
<1> QED
  BY <1>6, <1>7

\* A send of the channel ends: with the receive that waits for it, or into the queue.
LEMMA SendPaired ==
  ASSUME Parts, KeyInv, TruthInv, NEW c, NEW label, NEW sk, NEW rk, Traced(c, label, sk, rk),
         View(c, label, sk, rk), NEW op, NEW s, Ending(op, s), s.ch = c, s.kind = "send",
         recvs[rk] # <<>>, recvs' = [recvs EXCEPT ![rk] = Tail(@)],
         pairs' = pairs \union {<<op, Head(recvs[rk])>>},
         UNCHANGED <<sends, sndAtt, commits>>
  PROVE  View(c, label, sk, rk)'
<1> DEFINE h == Head(recvs[rk])
<1>1. /\ c \in Chan /\ rk \in Key /\ sk \in Key /\ recvs \in [Key -> Seq(Nat)]
      /\ \A r \in Elems(recvs[rk]) : r \in On(c, "recv") /\ r \in Done
      /\ Distinct(recvs[rk])
  <2>1. /\ c \in Chan /\ rk \in Key /\ sk \in Key
        /\ \A r \in Elems(recvs[rk]) : r \in On(c, "recv")
    BY OwnQueues DEF Traced
  <2> QED
    BY <2>1 DEF Parts, QueueTypes, QueueInv, RecvsInv, Separate, All
<1>2. /\ Done' = Done \union {op} /\ op \notin Done /\ op \in Moved /\ op \in On(c, "send")
      /\ UNCHANGED <<ops, took>> /\ \A kind : On(c, kind)' = On(c, kind)
  BY EndSets
<1>3. /\ recvs'[rk] = Tail(recvs[rk]) /\ recvs[rk] \in Seq(Nat) /\ h \in Elems(recvs[rk])
      /\ sends[sk] = <<>>
  BY <1>1, FirstIn DEF View, NotBoth
<1>4. QRv(rk)' = QRv(rk) \ {h} /\ h \in QRv(rk)
  <2>1. Elems(recvs[rk]) = Elems(Tail(recvs[rk])) \union {h} /\ h \notin Elems(Tail(recvs[rk]))
    BY <1>1, <1>3, TailSplit, TailElems
  <2> QED
    BY <1>3, <2>1 DEF QRv
<1>5. QSd(sk) = {} /\ QSd(sk)' = {}
  BY <1>3 DEF QSd, Elems
<1> HIDE DEF h
<1>6. h \in On(c, "recv") /\ h \in Done /\ h # op
  BY <1>1, <1>2, <1>3
<1>7. op \notin On(c, "recv")
  BY <1>2 DEF On
<1>8. SendsGone(c, sk)' = SendsGone(c, sk) \union {op}
  BY <1>2, <1>5 DEF SendsGone
<1>9. RecvsGone(c, rk)' = RecvsGone(c, rk) \union {h}
  BY <1>2, <1>4, <1>6, <1>7 DEF RecvsGone
<1>10. LabelView(c, label)' /\ NotBoth(sk, rk)'
  BY <1>3, UncountedEnds DEF View, NotBoth
<1>11. <<op, h>> \in pairs' /\ pairs' = pairs \union {<<op, h>>}
  BY DEF h
<1>12. PairsStay(c)'
  BY <1>2, <1>6, <1>11 DEF View, PairsStay
<1>13. AllPaired(c, sk, rk) => AllPaired(c, sk, rk)'
  BY <1>8, <1>9, <1>11 DEF AllPaired
<1>14. ASSUME Pipe(c), PipeView(c, sk, rk) PROVE PipeView(c, sk, rk)'
  <2>1. \A i \in On(c, "send") : i < op => i \in SendsGone(c, sk)
    <3>1. ASSUME NEW i \in On(c, "send"), i < op PROVE i \in Done
      BY <1>14, <3>1, EndingNewest DEF Parts, TruthInv
    <3> QED
      BY <1>5, <3>1 DEF SendsGone
  <2>2. \A i \in Elems(recvs[rk]) : h <= i
    BY <1>3, <1>14, HeadLeast DEF PipeView, QueueOrder, h
  <2>3. \A j \in On(c, "recv") : j < h => j \in RecvsGone(c, rk)
    <3> SUFFICES ASSUME NEW j \in On(c, "recv"), j < h PROVE j \in RecvsGone(c, rk)
      OBVIOUS
    <3>1. j \in Done
      BY <1>6, <1>14, PipeEarlier DEF Parts, TruthInv
    <3>2. j \in Nat /\ h \in Nat /\ ~(h <= j)
      BY <1>6 DEF On
    <3> QED
      BY <2>2, <3>1, <3>2 DEF RecvsGone, QRv
  <2>4. op \in Moved \ SendsGone(c, sk) /\ h \in Moved \ RecvsGone(c, rk)
    BY <1>2, <1>4, <1>6, DoneMoved DEF SendsGone, RecvsGone
  <2>5. <<op, h>> \in took
    BY <1>1, <1>2, <1>6, <1>14, <2>1, <2>3, <2>4, Partner DEF PipeView, Parts
  <2>6. Gone(c, sk, rk)'
    BY <1>2, <1>8, <1>9, <1>14, <2>5, GoneMore DEF PipeView
  <2>7. PairsTrue(c)' /\ CommitsTrue(c)'
    BY <1>2, <1>11, <1>14, <2>5 DEF PipeView, PairsTrue, CommitsTrue
  <2>8. QueueOrder(sk, rk)'
    <3>1. Increasing(Tail(recvs[rk]))
      BY <1>3, <1>14, TailIncreasing DEF PipeView, QueueOrder
    <3>2. 1..Len(<<>>) = {}
      OBVIOUS
    <3> QED
      BY <1>3, <3>1, <3>2 DEF QueueOrder
  <2>9. sk = rk /\ InRegions(c) => Committed(c, sk)'
    <3>1. On(c, "recv")' \intersect Done' = On(c, "recv") \intersect Done
      BY <1>2, <1>7
    <3>2. Committed(c, sk) => Committed(c, sk)'
      BY <1>2, <3>1, CommittedKept
    <3> QED
      BY <1>14, <3>2 DEF PipeView
  <2> QED
    BY <2>6, <2>7, <2>8, <2>9 DEF PipeView, InRegions
<1> QED
  BY <1>10, <1>12, <1>13, <1>14 DEF View, Pipe

\* A send of the channel ends before its receive, and is queued.
LEMMA SendQueued ==
  ASSUME Parts, KeyInv, TruthInv, NEW c, NEW label, NEW sk, NEW rk, Traced(c, label, sk, rk),
         View(c, label, sk, rk), NEW op, NEW s, Ending(op, s), s.ch = c, s.kind = "send",
         recvs[rk] = <<>>, sends' = [sends EXCEPT ![sk] = Append(@, Len(msgs) + 1)],
         msgs' = Append(msgs, op), UNCHANGED <<recvs, pairs, sndAtt, commits>>
  PROVE  View(c, label, sk, rk)'
<1> DEFINE n == Len(msgs) + 1
<1>1. /\ c \in Chan /\ rk \in Key /\ sk \in Key /\ sends \in [Key -> Seq(Nat)]
      /\ msgs \in Seq(Nat) /\ Len(msgs) \in Nat /\ n \in Nat
      /\ \A m \in Elems(sends[sk]) : msgs[m] \in On(c, "send") /\ msgs[m] \in Done /\ m \in 1..Len(msgs)
  <2>1. /\ c \in Chan /\ rk \in Key /\ sk \in Key
        /\ \A m \in Elems(sends[sk]) : msgs[m] \in On(c, "send")
    BY OwnQueues DEF Traced
  <2>2. \A m \in Elems(sends[sk]) : m \in 1..Len(msgs)
    BY <2>1, References
  <2>3. \A m \in 1..Len(msgs) : msgs[m] \in Done
    BY DEF Parts, QueueInv, MessageInv
  <2>4. /\ sends \in [Key -> Seq(Nat)] /\ msgs \in Seq(Nat) /\ Len(msgs) \in Nat
        /\ n \in Nat
    BY LenProperties DEF Parts, QueueTypes
  <2> QED
    BY <2>1, <2>2, <2>3, <2>4
<1>2. /\ Done' = Done \union {op} /\ op \notin Done /\ op \in Moved /\ op \in On(c, "send")
      /\ op \in Nat /\ UNCHANGED <<ops, took>> /\ \A kind : On(c, kind)' = On(c, kind)
  BY EndSets
<1>3. msgs'[n] = op /\ \A i \in 1..Len(msgs) : msgs'[i] = msgs[i]
  BY <1>1, <1>2, AppendProperties
<1> HIDE DEF n
<1>4. /\ sends'[sk] = Append(sends[sk], n) /\ sends[sk] \in Seq(Nat)
      /\ Elems(sends'[sk]) = Elems(sends[sk]) \union {n}
  BY <1>1, AppendElems DEF n
<1>5. QSd(sk)' = QSd(sk) \union {op} /\ QRv(rk)' = QRv(rk)
  BY <1>1, <1>3, <1>4 DEF QSd, QRv
<1>6. op \notin On(c, "recv")
  BY <1>2 DEF On
<1>7. SendsGone(c, sk)' = SendsGone(c, sk) /\ RecvsGone(c, rk)' = RecvsGone(c, rk)
  BY <1>2, <1>5, <1>6 DEF SendsGone, RecvsGone
<1>8. LabelView(c, label)' /\ NotBoth(sk, rk)'
  BY UncountedEnds DEF View, NotBoth
<1>9. PairsStay(c)'
  BY <1>2 DEF View, PairsStay
<1>10. AllPaired(c, sk, rk) => AllPaired(c, sk, rk)'
  BY <1>7 DEF AllPaired
<1>11. ASSUME Pipe(c), PipeView(c, sk, rk) PROVE PipeView(c, sk, rk)'
  <2>1. Gone(c, sk, rk)' /\ PairsTrue(c)' /\ CommitsTrue(c)'
    BY <1>2, <1>7, <1>11 DEF PipeView, Gone, PairsTrue, CommitsTrue
  <2>2. \A m \in Elems(sends[sk]) : msgs[m] < op
    <3> SUFFICES ASSUME NEW m \in Elems(sends[sk]) PROVE msgs[m] < op
      OBVIOUS
    <3>1. msgs[m] \in On(s.ch, s.kind) /\ msgs[m] # op /\ msgs[m] \in Nat
      BY <1>1, <1>2 DEF On
    <3>2. msgs[m] <= op
      BY <1>11, <3>1, EndingNewest DEF Parts, TruthInv
    <3> QED
      BY <1>2, <3>1, <3>2
  <2>3. QueueOrder(sk, rk)'
    <3> DEFINE l == Len(sends[sk])
    <3>1. /\ l \in Nat /\ Len(sends'[sk]) = l + 1 /\ sends'[sk][l + 1] = n
          /\ \A i \in 1..l : sends'[sk][i] = sends[sk][i] /\ sends[sk][i] \in Elems(sends[sk])
      BY <1>1, <1>4, AppendProperties, LenProperties DEF Elems
    <3> HIDE DEF l
    <3>2. \A i, j \in 1..l : i < j => msgs[sends[sk][i]] < msgs[sends[sk][j]]
      BY <1>11 DEF PipeView, QueueOrder, l
    <3>3. \A i \in 1..l : msgs'[sends'[sk][i]] = msgs[sends[sk][i]] /\ msgs[sends[sk][i]] < op
      BY <1>1, <1>3, <2>2, <3>1
    <3>4. \A i, j \in 1..(l + 1) : i < j => i \in 1..l /\ (j \in 1..l \/ j = l + 1)
      BY <3>1
    <3>5. \A i, j \in 1..(l + 1) : i < j => msgs'[sends'[sk][i]] < msgs'[sends'[sk][j]]
      <4> SUFFICES ASSUME NEW i \in 1..(l + 1), NEW j \in 1..(l + 1), i < j
                   PROVE  msgs'[sends'[sk][i]] < msgs'[sends'[sk][j]]
        OBVIOUS
      <4>1. CASE j \in 1..l
        BY <3>2, <3>3, <3>4, <4>1
      <4>2. CASE j = l + 1
        BY <1>3, <3>1, <3>3, <3>4, <4>2
      <4> QED
        BY <3>4, <4>1, <4>2
    <3> QED
      BY <1>11, <3>1, <3>5 DEF PipeView, QueueOrder
  <2>4. sk = rk /\ InRegions(c) => Committed(c, sk)'
    <3>1. On(c, "recv")' \intersect Done' = On(c, "recv") \intersect Done
      BY <1>2, <1>6
    <3>2. Committed(c, sk) => Committed(c, sk)'
      BY <1>2, <3>1, CommittedKept
    <3> QED
      BY <1>11, <3>2 DEF PipeView
  <2> QED
    BY <2>1, <2>3, <2>4 DEF PipeView, InRegions
<1> QED
  BY <1>8, <1>9, <1>10, <1>11 DEF View, Pipe

\* A receive of the channel ends, and takes the send that has waited longest.
LEMMA RecvPaired ==
  ASSUME Parts, KeyInv, TruthInv, NEW c, NEW label, NEW sk, NEW rk, Traced(c, label, sk, rk),
         View(c, label, sk, rk), NEW op, NEW s, Ending(op, s), s.ch = c, s.kind = "recv",
         CommitRecv(op, s), OpKey(s) = rk,
         sends[sk] # <<>>, sends' = [sends EXCEPT ![sk] = Tail(@)], UNCHANGED <<msgs, recvs>>,
         \/ label \in SkipPairing /\ UNCHANGED pairs
         \/ pairs' = pairs \union {<<msgs[Head(sends[sk])], op>>}
  PROVE  View(c, label, sk, rk)'
<1> DEFINE h == Head(sends[sk])
           x == msgs[h]
<1>1. /\ c \in Chan /\ rk \in Key /\ sk \in Key /\ sends \in [Key -> Seq(Nat)]
      /\ \A m \in Elems(sends[sk]) : m \in 1..Len(msgs) /\ msgs[m] \in On(c, "send") /\ msgs[m] \in Done
      /\ Distinct(sends[sk])
      /\ \A i, j \in 1..Len(msgs) : msgs[i] = msgs[j] => i = j
  <2>1. /\ c \in Chan /\ rk \in Key /\ sk \in Key
        /\ \A m \in Elems(sends[sk]) : msgs[m] \in On(c, "send")
    BY OwnQueues DEF Traced
  <2>2. \A m \in Elems(sends[sk]) : m \in 1..Len(msgs)
    BY <2>1, References
  <2>3. \A m \in 1..Len(msgs) : msgs[m] \in Done
    BY DEF Parts, QueueInv, MessageInv
  <2>4. \A i, j \in 1..Len(msgs) : msgs[i] = msgs[j] => i = j
    BY DEF Parts, QueueInv, MessageInv, Distinct
  <2>5. sends \in [Key -> Seq(Nat)] /\ Distinct(sends[sk])
    BY <2>1 DEF Parts, QueueTypes, QueueInv, SendsInv, Separate
  <2> QED
    BY <2>1, <2>2, <2>3, <2>4, <2>5
<1>2. /\ Done' = Done \union {op} /\ op \notin Done /\ op \in Moved /\ op \in On(c, "recv")
      /\ UNCHANGED <<ops, took>> /\ \A kind : On(c, kind)' = On(c, kind)
  BY EndSets
<1>3. /\ sends'[sk] = Tail(sends[sk]) /\ sends[sk] \in Seq(Nat) /\ h \in Elems(sends[sk])
      /\ recvs[rk] = <<>>
  BY <1>1, FirstIn DEF View, NotBoth
<1>4. QSd(sk)' = QSd(sk) \ {x} /\ x \in QSd(sk)
  <2>1. Elems(sends[sk]) = Elems(Tail(sends[sk])) \union {h} /\ h \notin Elems(Tail(sends[sk]))
    BY <1>1, <1>3, TailSplit, TailElems
  <2>2. \A m \in Elems(Tail(sends[sk])) : msgs[m] # x
    BY <1>1, <1>3, <2>1
  <2> QED
    BY <1>3, <2>1, <2>2 DEF QSd
<1>5. QRv(rk) = {} /\ QRv(rk)' = {}
  BY <1>3 DEF QRv, Elems
<1>6. x \in On(c, "send") /\ x \in Done /\ x # op
  BY <1>1, <1>2, <1>3
<1>7. /\ UNCHANGED pairs \/ pairs' = pairs \union {<<x, op>>}
      /\ label \notin SkipPairing => <<x, op>> \in pairs'
  OBVIOUS
<1> HIDE DEF h, x
<1>8. op \notin On(c, "send")
  BY <1>2 DEF On
<1>9. SendsGone(c, sk)' = SendsGone(c, sk) \union {x}
  BY <1>2, <1>4, <1>6, <1>8 DEF SendsGone
<1>10. RecvsGone(c, rk)' = RecvsGone(c, rk) \union {op}
  BY <1>2, <1>5 DEF RecvsGone
<1>11. LabelView(c, label)' /\ NotBoth(sk, rk)'
  BY <1>3, UncountedEnds DEF View, NotBoth
<1>12. PairsStay(c)'
  BY <1>2, <1>7 DEF View, PairsStay
<1>13. label \notin SkipPairing /\ AllPaired(c, sk, rk) => AllPaired(c, sk, rk)'
  BY <1>7, <1>9, <1>10 DEF AllPaired
<1>14. ASSUME Pipe(c), PipeView(c, sk, rk) PROVE PipeView(c, sk, rk)'
  <2>1. \A j \in On(c, "recv") : j < op => j \in RecvsGone(c, rk)
    <3>1. ASSUME NEW j \in On(c, "recv"), j < op PROVE j \in Done
      BY <1>14, <3>1, EndingNewest DEF Parts, TruthInv
    <3> QED
      BY <1>5, <3>1 DEF RecvsGone
  <2>2. \A i \in QSd(sk) : x <= i
    <3>1. /\ Len(sends[sk]) \in Nat /\ Len(sends[sk]) >= 1 /\ h = sends[sk][1]
      BY <1>3, HeadTailProperties, LenProperties, EmptySeq DEF h
    <3>2. \A i \in 1..Len(sends[sk]) : i # 1 => x < msgs[sends[sk][i]]
      BY <1>14, <3>1 DEF PipeView, QueueOrder, x
    <3>3. x \in Nat
      BY <1>6 DEF On
    <3>4. \A i \in 1..Len(sends[sk]) : msgs[sends[sk][i]] \in Nat /\ x <= msgs[sends[sk][i]]
      <4> SUFFICES ASSUME NEW i \in 1..Len(sends[sk])
                   PROVE  msgs[sends[sk][i]] \in Nat /\ x <= msgs[sends[sk][i]]
        OBVIOUS
      <4>1. sends[sk][i] \in Elems(sends[sk])
        BY DEF Elems
      <4>2. msgs[sends[sk][i]] \in Nat
        BY <1>1, <4>1 DEF On
      <4> QED
        BY <3>1, <3>2, <3>3, <4>2 DEF x
    <3> QED
      BY <3>4 DEF QSd, Elems
  <2>3. \A i \in On(c, "send") : i < x => i \in SendsGone(c, sk)
    <3> SUFFICES ASSUME NEW i \in On(c, "send"), i < x PROVE i \in SendsGone(c, sk)
      OBVIOUS
    <3>1. i \in Done
      BY <1>6, <1>14, PipeEarlier DEF Parts, TruthInv
    <3>2. i \in Nat /\ x \in Nat /\ ~(x <= i)
      BY <1>6 DEF On
    <3> QED
      BY <2>2, <3>1, <3>2 DEF SendsGone
  <2>4. x \in Moved \ SendsGone(c, sk) /\ op \in Moved \ RecvsGone(c, rk)
    BY <1>2, <1>4, <1>6, DoneMoved DEF SendsGone, RecvsGone
  <2>5. <<x, op>> \in took
    BY <1>1, <1>2, <1>6, <1>14, <2>1, <2>3, <2>4, Partner DEF PipeView, Parts
  <2>6. Gone(c, sk, rk)'
    BY <1>2, <1>9, <1>10, <1>14, <2>5, GoneMore DEF PipeView
  <2>7. PairsTrue(c)'
    BY <1>2, <1>7, <1>14, <2>5 DEF PipeView, PairsTrue
  <2>8. QueueOrder(sk, rk)'
    <3> DEFINE q == sends[sk]
    <3>1. /\ Len(q) \in Nat /\ Len(q) >= 1 /\ Len(Tail(q)) = Len(q) - 1
          /\ \A i \in 1..Len(Tail(q)) : Tail(q)[i] = q[i + 1]
      BY <1>3, HeadTailProperties, LenProperties, EmptySeq
    <3>2. \A i, j \in 1..Len(q) : i < j => msgs[q[i]] < msgs[q[j]]
      BY <1>14 DEF PipeView, QueueOrder
    <3> HIDE DEF q
    <3>3. \A i, j \in 1..Len(Tail(q)) : i < j => msgs[Tail(q)[i]] < msgs[Tail(q)[j]]
      BY <3>1, <3>2
    <3> QED
      BY <1>3, <1>14, <3>3 DEF PipeView, QueueOrder, q
  <2>9. CommitsTrue(c)' /\ (sk = rk /\ InRegions(c) => Committed(c, sk)')
    BY <1>14, RecvCommits
  <2> QED
    BY <2>6, <2>7, <2>8, <2>9 DEF PipeView, InRegions
<1> QED
  BY <1>11, <1>12, <1>13, <1>14 DEF View, Pipe

\* A receive of the channel ends before its send, and waits.
LEMMA RecvQueued ==
  ASSUME Parts, KeyInv, TruthInv, NEW c, NEW label, NEW sk, NEW rk, Traced(c, label, sk, rk),
         View(c, label, sk, rk), NEW op, NEW s, Ending(op, s), s.ch = c, s.kind = "recv",
         CommitRecv(op, s), OpKey(s) = rk,
         sends[sk] = <<>>, recvs' = [recvs EXCEPT ![rk] = Append(@, op)],
         UNCHANGED <<msgs, sends, pairs>>
  PROVE  View(c, label, sk, rk)'
<1>1. /\ c \in Chan /\ rk \in Key /\ sk \in Key /\ recvs \in [Key -> Seq(Nat)]
      /\ \A r \in Elems(recvs[rk]) : r \in On(c, "recv") /\ r \in Done
  <2>1. /\ c \in Chan /\ rk \in Key /\ sk \in Key
        /\ \A r \in Elems(recvs[rk]) : r \in On(c, "recv")
    BY OwnQueues DEF Traced
  <2> QED
    BY <2>1 DEF Parts, QueueTypes, QueueInv, RecvsInv, All
<1>2. /\ Done' = Done \union {op} /\ op \notin Done /\ op \in Moved /\ op \in On(c, "recv")
      /\ op \in Nat /\ UNCHANGED <<ops, took>> /\ \A kind : On(c, kind)' = On(c, kind)
  BY EndSets
<1>3. /\ recvs'[rk] = Append(recvs[rk], op) /\ recvs[rk] \in Seq(Nat)
      /\ Elems(recvs'[rk]) = Elems(recvs[rk]) \union {op}
  BY <1>1, <1>2, AppendElems
<1>4. QRv(rk)' = QRv(rk) \union {op} /\ QSd(sk)' = QSd(sk)
  BY <1>3 DEF QSd, QRv
<1>5. op \notin On(c, "send")
  BY <1>2 DEF On
<1>6. SendsGone(c, sk)' = SendsGone(c, sk) /\ RecvsGone(c, rk)' = RecvsGone(c, rk)
  BY <1>2, <1>4, <1>5 DEF SendsGone, RecvsGone
<1>7. LabelView(c, label)' /\ NotBoth(sk, rk)'
  BY UncountedEnds DEF View, NotBoth
<1>8. PairsStay(c)'
  BY <1>2 DEF View, PairsStay
<1>9. AllPaired(c, sk, rk) => AllPaired(c, sk, rk)'
  BY <1>6 DEF AllPaired
<1>10. ASSUME Pipe(c), PipeView(c, sk, rk) PROVE PipeView(c, sk, rk)'
  <2>1. Gone(c, sk, rk)' /\ PairsTrue(c)'
    BY <1>2, <1>6, <1>10 DEF PipeView, Gone, PairsTrue
  <2>2. \A r \in Elems(recvs[rk]) : r < op
    <3> SUFFICES ASSUME NEW r \in Elems(recvs[rk]) PROVE r < op
      OBVIOUS
    <3>1. r \in On(s.ch, s.kind) /\ r # op /\ r \in Nat
      BY <1>1, <1>2 DEF On
    <3>2. r <= op
      BY <1>10, <3>1, EndingNewest DEF Parts, TruthInv
    <3> QED
      BY <1>2, <3>1, <3>2
  <2>3. QueueOrder(sk, rk)'
    <3>1. Increasing(Append(recvs[rk], op))
      BY <1>2, <1>3, <1>10, <2>2, AppendIncreasing DEF PipeView, QueueOrder
    <3> QED
      BY <1>3, <1>10, <3>1 DEF PipeView, QueueOrder
  <2>4. CommitsTrue(c)' /\ (sk = rk /\ InRegions(c) => Committed(c, sk)')
    BY <1>10, RecvCommits
  <2> QED
    BY <2>1, <2>3, <2>4 DEF PipeView, InRegions
<1> QED
  BY <1>7, <1>8, <1>9, <1>10 DEF View, Pipe

\* Every step keeps the parser's view of a traced channel.
LEMMA ViewStep ==
  ASSUME Parts, KeyInv, TruthInv, NEW c, NEW label, NEW sk, NEW rk, Traced(c, label, sk, rk),
         View(c, label, sk, rk), [Next]_vars
  PROVE  View(c, label, sk, rk)'
<1>1. ASSUME NEW s \in Sites, Begins(s) PROVE View(c, label, sk, rk)'
  BY <1>1, ViewBegins
<1>2. CASE Flows
  BY <1>2, ViewFlows
<1>3. ASSUME NEW g \in Gor, EndOf(g) PROVE View(c, label, sk, rk)'
  <2> DEFINE s == Site(g)
             op == cur[g]
  <2>1. Ending(op, s)
    BY <1>3, EndEffect
  <2> HIDE DEF s, op
  <2>2. CASE s.ch # c
    BY <2>1, <2>2, ViewOtherEnds
  <2>3. CASE s.ch = c /\ s.kind = "send"
    <3>1. /\ msgs' = Append(msgs, op) /\ UNCHANGED <<selRecv, sndAtt, commits>>
          /\ \/ /\ recvs[rk] # <<>> /\ recvs' = [recvs EXCEPT ![rk] = Tail(@)]
                /\ pairs' = pairs \union {<<op, Head(recvs[rk])>>} /\ UNCHANGED sends
             \/ /\ recvs[rk] = <<>> /\ sends' = [sends EXCEPT ![sk] = Append(@, Len(msgs) + 1)]
                /\ UNCHANGED <<recvs, pairs>>
      BY <2>1, <2>3, OwnSendEnds DEF View
    <3> QED
      BY <2>1, <2>3, <3>1, SendPaired, SendQueued
  <2>4. CASE s.ch = c /\ s.kind = "recv"
    <3>1. /\ UNCHANGED <<msgs, selRecv, nameOf>> /\ CommitRecv(op, s) /\ OpKey(s) = rk
          /\ \/ /\ sends[sk] = <<>> /\ recvs' = [recvs EXCEPT ![rk] = Append(@, op)]
                /\ UNCHANGED <<sends, pairs>>
             \/ /\ sends[sk] # <<>> /\ sends' = [sends EXCEPT ![sk] = Tail(@)] /\ UNCHANGED recvs
                /\ \/ label \in SkipPairing /\ UNCHANGED pairs
                   \/ pairs' = pairs \union {<<msgs[Head(sends[sk])], op>>}
      BY <2>1, <2>4, OwnRecvEnds DEF View
    <3>2. CASE sends[sk] = <<>> /\ recvs' = [recvs EXCEPT ![rk] = Append(@, op)]
               /\ UNCHANGED <<sends, pairs>>
      BY <2>1, <2>4, <3>1, <3>2, RecvQueued
    <3>3. CASE /\ sends[sk] # <<>> /\ sends' = [sends EXCEPT ![sk] = Tail(@)] /\ UNCHANGED recvs
               /\ \/ label \in SkipPairing /\ UNCHANGED pairs
                  \/ pairs' = pairs \union {<<msgs[Head(sends[sk])], op>>}
      BY <2>1, <2>4, <3>1, <3>3, RecvPaired
    <3> QED
      BY <3>1, <3>2, <3>3
  <2>5. s.kind \in {"send", "recv"}
    BY <2>1, PairingAssumption DEF SitesOK, Ending
  <2> QED
    BY <2>2, <2>3, <2>4, <2>5
<1> QED
  BY <1>1, <1>2, <1>3, StepKinds

-----------------------------------------------------------------------------
(* The view of a channel whose receiver selects, step by step.            *)

\* An unbuffered channel holds no value.
LEMMA HandEmpty ==
  ASSUME Parts, NEW c \in Chan, Cap[c] = 0, chanQ[c] = <<>>, [Next]_vars
  PROVE  chanQ'[c] = <<>>
<1>1. chanQ \in [Chan -> Seq(Nat)] /\ Len(<<>>) = 0
  BY DEF Parts, ProgramTypes
<1>2. ASSUME NEW g \in Gor, Put(g) PROVE chanQ'[c] = <<>>
  <2>1. Site(g).ch # c
    BY <1>1, <1>2 DEF Put
  <2> QED
    BY <1>1, <1>2, <2>1 DEF Put
<1>3. ASSUME NEW g \in Gor, Take(g) PROVE chanQ'[c] = <<>>
  BY <1>1, <1>3 DEF Take
<1>4. ASSUME NEW g \in Gor, SendRegionEnd(g) \/ RecvRegionEnd(g) \/ SelectSend(g) \/ SelectRecv(g)
      PROVE  chanQ'[c] = <<>>
  BY <1>4 DEF SendRegionEnd, RecvRegionEnd, SelectSend, SelectRecv, Leave
<1>5. ASSUME NEW s \in Sites, RegionBegin(s) \/ SelectBegin(s) PROVE chanQ'[c] = <<>>
  BY <1>5 DEF RegionBegin, SelectBegin, Enter
<1>6. ASSUME NEW g \in Gor, NEW h \in Gor, Meet(g, h) PROVE chanQ'[c] = <<>>
  BY <1>6 DEF Meet
<1>7. CASE UNCHANGED vars
  BY <1>7 DEF vars, program
<1> QED
  BY <1>2, <1>3, <1>4, <1>5, <1>6, <1>7 DEF Next

\* A step that changes neither the channel's queues nor which of its operations
\* have ended keeps the parser's view of it.
LEMMA HandKept ==
  ASSUME Parts, KeyInv, NEW c, NEW label, NEW sk, NEW rk, Handed(c, label, sk, rk),
         HandView(c, label, sk), NameView(c, label)', chanQ'[c] = <<>>,
         \A k \in {c, label} : sends'[k] = sends[k] /\ recvs'[k] = recvs[k] /\ selRecv'[k] = selRecv[k],
         \A i \in 1..Len(msgs) : msgs'[i] = msgs[i],
         \A i \in 1..Len(ops) : ops'[i] = ops[i],
         TookRefs, took \subseteq took', \A p \in took' \ took : p[2] \notin Done',
         \A p \in took : ops[p[1]].ch = c => (p[1] \in Done' <=> p[1] \in Done)
                                          /\ (p[2] \in Done' <=> p[2] \in Done),
         pairs \subseteq pairs', \A p \in pairs' \ pairs : ops'[p[1]].ch # c,
         \A p \in commits' \ commits : ops'[p[1]].ch # c
  PROVE  HandView(c, label, sk)'
<1>1. /\ c \in Key /\ label \in Key /\ sk \in Key /\ sk \in {c, label}
      /\ \A m \in Elems(sends[sk]) : msgs[m] \in On(c, "send")
  BY OwnQueues DEF Handed
<1>2. \A m \in Elems(sends[sk]) : m \in 1..Len(msgs)
  BY <1>1, References
<1>3. QSd(sk)' = QSd(sk)
  BY <1>1, <1>2 DEF QSd
<1>4. \A x \in QSd(sk) : ops[x].ch = c
  BY <1>1 DEF QSd, On
<1>5. \A x \in QSd(sk)' : \E p \in took' : p[1] = x /\ p[2] \notin Done'
  <2> SUFFICES ASSUME NEW x \in QSd(sk) PROVE \E p \in took' : p[1] = x /\ p[2] \notin Done'
    BY <1>3
  <2>1. PICK p \in took : p[1] = x /\ p[2] \notin Done
    BY DEF HandView
  <2> QED
    BY <1>4, <2>1
<1>6. \A p \in took : ops'[p[1]] = ops[p[1]]
  BY DEF TookRefs, Moved
<1>7. \A p \in took' : ops'[p[1]].ch = c /\ p[1] \notin Done' /\ p[2] \in Done' => selRecv'[label] > 0
  <2> SUFFICES ASSUME NEW p \in took', ops'[p[1]].ch = c, p[1] \notin Done', p[2] \in Done'
               PROVE  selRecv'[label] > 0
    OBVIOUS
  <2>1. p \in took /\ ops[p[1]].ch = c
    BY <1>6
  <2>2. p[1] \notin Done /\ p[2] \in Done /\ selRecv'[label] = selRecv[label]
    BY <2>1
  <2> QED
    BY <2>1, <2>2 DEF HandView
<1>8. \A p \in pairs : ops'[p[1]] = ops[p[1]]
  BY References
<1>9. \A p \in commits : ops'[p[1]] = ops[p[1]]
  BY DEF KeyInv, CommitRefs
<1>10. PairsTrue(c)' /\ CommitsTrue(c)'
  BY <1>8, <1>9 DEF HandView, PairsTrue, CommitsTrue
<1> QED
  BY <1>5, <1>7, <1>10 DEF HandView

\* An operation on another channel ends.
LEMMA HandOtherEnds ==
  ASSUME Parts, KeyInv, TruthInv, NEW c, NEW label, NEW sk, NEW rk, Handed(c, label, sk, rk),
         HandView(c, label, sk), NEW op, NEW s, Ending(op, s), s.ch # c, chanQ'[c] = <<>>
  PROVE  HandView(c, label, sk)'
<1>1. /\ \A k \in {c, label} : /\ sends'[k] = sends[k] /\ recvs'[k] = recvs[k]
                               /\ selRecv'[k] = selRecv[k] /\ sndAtt'[k] = sndAtt[k]
      /\ \A i \in 1..Len(msgs) : msgs'[i] = msgs[i]
      /\ pairs \subseteq pairs' /\ \A p \in pairs' \ pairs : ops[p[1]].ch # c
      /\ \A p \in commits' \ commits : ops[p[1]].ch # c
  BY OtherEnds DEF HandView, Handed
<1>2. /\ Done' = Done \union {op} /\ op \in On(s.ch, s.kind) /\ UNCHANGED <<ops, took>>
  BY EndSets
<1>3. NameView(c, label)'
  BY LabelEnds DEF HandView, Handed
<1>4. ops[op].ch # c /\ TookRefs
  BY <1>2 DEF On, TruthInv
<1>5. \A p \in took : ops[p[1]].ch = c => (p[1] \in Done' <=> p[1] \in Done)
                                       /\ (p[2] \in Done' <=> p[2] \in Done)
  BY <1>2, <1>4 DEF TookRefs
<1> QED
  BY <1>1, <1>2, <1>3, <1>4, <1>5, HandKept

\* An operation begins.
LEMMA HandBegins ==
  ASSUME Parts, KeyInv, TruthInv, NEW c, NEW label, NEW sk, NEW rk, Handed(c, label, sk, rk),
         HandView(c, label, sk), NEW s \in Sites, Begins(s), chanQ'[c] = <<>>
  PROVE  HandView(c, label, sk)'
<1>1. /\ Done' = Done /\ UNCHANGED <<took, msgs, sends, recvs, pairs, commits>>
      /\ \A i \in 1..Len(ops) : ops'[i] = ops[i]
  BY BeginSets
<1>2. UNCHANGED selRecv
  BY DEF Begins, RegionBegin, SelectBegin, queues
<1>3. NameView(c, label)'
  BY LabelBegins DEF HandView, Handed
<1> QED
  BY <1>1, <1>2, <1>3, HandKept DEF TruthInv

\* Values move.
LEMMA HandFlows ==
  ASSUME Parts, KeyInv, TruthInv, NEW c, NEW label, NEW sk, NEW rk, Handed(c, label, sk, rk),
         HandView(c, label, sk), Flows, chanQ'[c] = <<>>
  PROVE  HandView(c, label, sk)'
<1>1. /\ UNCHANGED <<ops, msgs, sends, recvs, selRecv, pairs, nameOf, commits>>
      /\ Done' = Done /\ took \subseteq took' /\ \A p \in took' \ took : p[2] \notin Done
  BY DEF Flows, queues
<1>2. NameView(c, label)'
  BY <1>1 DEF HandView, NameView
<1> QED
  BY <1>1, <1>2, HandKept DEF TruthInv

\* A send finds no receive in a queue, and a receive that has been counted.
LEMMA HandLooks ==
  ASSUME Parts, KeyInv, NEW c, NEW label, NEW sk, NEW rk, Handed(c, label, sk, rk),
         HandView(c, label, sk), NEW s \in Sites, s.ch = c, s.kind = "send"
  PROVE  /\ Waiting(s, RecvWaiting) = {}
         /\ selRecv[label] > 0 => Waiting(s, SelectWaiting) # {}
<1>1. s.name = label
  BY OwnSites DEF Handed
<1>2. /\ OpKey(s) \in {c, label} /\ c \in Key /\ label \in Key /\ c \in Chan /\ label \in Name
      /\ recvs[c] = <<>> /\ recvs[label] = <<>>
  BY OwnSites, OwnQueues DEF Handed, HandView
<1>3. \A k \in Key : Named(k, label) => k \in {c, label}
  BY <1>2, LabelKeys DEF HandView
<1>4. Waiting(s, RecvWaiting) = {}
  BY <1>1, <1>2, <1>3 DEF Waiting, RecvWaiting
<1>5. ASSUME selRecv[label] > 0 PROVE Waiting(s, SelectWaiting) # {}
  <2>1. label \in SelectWaiting /\ Named(label, label)
    BY <1>2, <1>5 DEF SelectWaiting, Named
  <2> QED
    BY <1>1, <2>1 DEF Waiting
<1> QED
  BY <1>4, <1>5

\* A send of the channel ends: it is counted off, or it is queued while its receive
\* is under way.
LEMMA HandSendEnds ==
  ASSUME Parts, KeyInv, TruthInv, NEW c, NEW label, NEW sk, NEW rk, Handed(c, label, sk, rk),
         HandView(c, label, sk), NEW op, NEW s, Ending(op, s), s.ch = c, s.kind = "send",
         chanQ'[c] = <<>>
  PROVE  HandView(c, label, sk)'
<1>1. /\ c \in Chan /\ sk \in Key /\ sk \in {c, label} /\ sends \in [Key -> Seq(Nat)] /\ Pipe(c)
      /\ msgs \in Seq(Nat) /\ Len(msgs) \in Nat
      /\ \A m \in Elems(sends[sk]) : msgs[m] \in On(c, "send") /\ m \in 1..Len(msgs)
  <2>1. /\ c \in Chan /\ sk \in Key /\ sk \in {c, label} /\ Pipe(c)
        /\ \A m \in Elems(sends[sk]) : msgs[m] \in On(c, "send")
    BY OwnQueues DEF Handed
  <2>2. \A m \in Elems(sends[sk]) : m \in 1..Len(msgs)
    BY <2>1, References
  <2>3. sends \in [Key -> Seq(Nat)] /\ msgs \in Seq(Nat) /\ Len(msgs) \in Nat
    BY LenProperties DEF Parts, QueueTypes
  <2> QED
    BY <2>1, <2>2, <2>3
<1>2. /\ Done' = Done \union {op} /\ op \notin Done /\ op \in Moved /\ op \in On(c, "send")
      /\ op \in Nat /\ UNCHANGED <<ops, took>> /\ s \in Sites
  BY EndSets
<1>3. /\ Waiting(s, RecvWaiting) = {} /\ OpKey(s) = sk
      /\ selRecv[label] > 0 => Waiting(s, SelectWaiting) # {}
  BY <1>2, HandLooks, OwnSites DEF Handed
<1>4. /\ CompleteSend(op, s) /\ UNCHANGED <<sndAtt, commits>>
  BY DEF Ending, Pairs
<1>5. /\ UNCHANGED <<recvs, pairs>> /\ msgs' = Append(msgs, op)
      /\ \/ UNCHANGED sends
         \/ /\ Waiting(s, SelectWaiting) = {}
            /\ sends' = [sends EXCEPT ![sk] = Append(@, Len(msgs) + 1)]
  BY <1>3, <1>4 DEF CompleteSend
<1>6. msgs'[Len(msgs) + 1] = op /\ \A i \in 1..Len(msgs) : msgs'[i] = msgs[i]
  BY <1>1, <1>2, <1>5, AppendProperties
<1>7. ops[op].ch = c /\ ops[op].kind = "send"
  BY <1>2 DEF On
<1>8. \A p \in took : p[2] # op
  BY <1>7 DEF TruthInv, TookRefs
<1>9. \A p \in took : ops[p[1]].ch = c => p[1] \in Done'
  <2> SUFFICES ASSUME NEW p \in took, ops[p[1]].ch = c PROVE p[1] \in Done'
    OBVIOUS
  <2>1. p[1] \in On(s.ch, s.kind)
    BY DEF TruthInv, TookRefs, Moved, On
  <2>2. p[1] <= op /\ (p[1] < op => p[1] \in Done)
    BY <1>1, <2>1, EndingNewest DEF Parts, TruthInv
  <2>3. p[1] \in Nat
    BY <2>1 DEF On
  <2> QED
    BY <1>2, <2>2, <2>3
<1>10. \A x \in QSd(sk) : \E p \in took : p[1] = x /\ p[2] \notin Done'
  <2> SUFFICES ASSUME NEW x \in QSd(sk) PROVE \E p \in took : p[1] = x /\ p[2] \notin Done'
    OBVIOUS
  <2>1. PICK p \in took : p[1] = x /\ p[2] \notin Done
    BY DEF HandView
  <2> QED
    BY <1>2, <1>8, <2>1
<1>11. \A x \in QSd(sk)' : \E p \in took : p[1] = x /\ p[2] \notin Done'
  <2>1. CASE UNCHANGED sends
    <3>1. QSd(sk)' = QSd(sk)
      BY <1>1, <1>6, <2>1 DEF QSd
    <3> QED
      BY <1>10, <3>1
  <2>2. CASE /\ Waiting(s, SelectWaiting) = {}
             /\ sends' = [sends EXCEPT ![sk] = Append(@, Len(msgs) + 1)]
    <3>1. PICK n \in Nat : n = Len(msgs) + 1
      BY <1>1
    <3>2. QSd(sk)' = QSd(sk) \union {op}
      <4>1. Elems(sends'[sk]) = Elems(sends[sk]) \union {n}
        BY <1>1, <2>2, <3>1, AppendElems
      <4>2. msgs'[n] = op
        BY <1>6, <3>1
      <4>3. \A m \in Elems(sends[sk]) : msgs'[m] = msgs[m]
        BY <1>1, <1>6
      <4> QED
        BY <4>1, <4>2, <4>3 DEF QSd
    <3>3. op \notin Elems(chanQ[c])
      BY EmptySeq DEF HandView, Elems
    <3>4. PICK p \in took : p[1] = op
      BY <1>2, <1>7, <3>3 DEF TruthInv, SentAll
    <3>5. p[2] \notin Done
      BY <1>2, <1>3, <1>7, <2>2, <3>4 DEF HandView
    <3> QED
      BY <1>2, <1>8, <1>10, <3>2, <3>4, <3>5
  <2> QED
    BY <1>5, <2>1, <2>2
<1>12. NameView(c, label)'
  BY LabelEnds DEF HandView, Handed
<1>13. PairsTrue(c)' /\ CommitsTrue(c)'
  BY <1>2, <1>4, <1>5 DEF HandView, PairsTrue, CommitsTrue
<1>14. recvs'[c] = <<>> /\ recvs'[label] = <<>>
  BY <1>5 DEF HandView
<1> QED
  BY <1>2, <1>9, <1>11, <1>12, <1>13, <1>14 DEF HandView

\* Where a receive in a select looks.
SelectSource(s) == Source(s, TRUE)

\* A receive finds the queue of the channel's sends.
LEMMA HandSource ==
  ASSUME Parts, KeyInv, NEW c, NEW label, NEW sk, NEW rk, Handed(c, label, sk, rk),
         HandView(c, label, sk), NEW s \in Sites, s.ch = c
  PROVE  \A k : k \in SelectSource(s) <=> k = sk /\ sends[sk] # <<>>
<1>1. s.name = label /\ OpKey(s) \in {c, label}
  <2>1. s.kind \in {"send", "recv"}
    BY PairingAssumption DEF SitesOK
  <2>2. OpKey(s) \in {sk, rk} /\ s.name = label
    BY <2>1, OwnSites DEF Handed
  <2> QED
    BY <2>2 DEF Handed, KeyedAs
<1>2. /\ c \in Chan /\ label \in Name /\ sk \in {c, label}
      /\ c \in Key /\ label \in Key /\ c # label /\ sk \in Key
      /\ \A k \in {c, label} : k # sk => sends[k] = <<>>
      /\ sends \in [Key -> Seq(Nat)]
  BY OwnQueues DEF Parts, QueueTypes, Handed
<1>3. \A k \in Key : Named(k, label) => k \in {c, label}
  BY <1>2, LabelKeys DEF HandView
<1>4. ASSUME NEW k, k \in SelectSource(s) PROVE k = sk /\ sends[sk] # <<>>
  <2>1. k \in {c, label} /\ sends[k] # <<>>
    BY <1>1, <1>2, <1>3, <1>4 DEF SelectSource, Source, SendQueueByName
  <2> QED
    BY <1>2, <2>1
<1>5. ASSUME sends[sk] # <<>> PROVE sk \in SelectSource(s)
  <2>1. CASE OpKey(s) = sk
    BY <1>5, <2>1 DEF SelectSource, Source
  <2>2. CASE OpKey(s) # sk
    <3>1. sends[OpKey(s)] = <<>>
      BY <1>1, <1>2, <2>2
    <3>2. Named(sk, label)
      BY <1>2, <1>5 DEF HandView, NameView, Named
    <3>3. SendQueueByName(label) # {}
      BY <1>2, <1>5, <3>2, OldestExists
    <3>4. \A j \in SendQueueByName(label) : j = sk
      BY <1>2, <1>3 DEF SendQueueByName
    <3> QED
      BY <1>1, <3>1, <3>3, <3>4 DEF SelectSource, Source
  <2> QED
    BY <2>1, <2>2
<1> QED
  BY <1>4, <1>5

\* A receive of the channel ends: with the one send that has ended, its own, or it is
\* counted for the send to come (matchSelectRecv).
LEMMA HandRecvEnds ==
  ASSUME Parts, KeyInv, TruthInv, NEW c, NEW label, NEW sk, NEW rk, Handed(c, label, sk, rk),
         HandView(c, label, sk), NEW op, NEW s, Ending(op, s), s.ch = c, s.kind = "recv",
         chanQ'[c] = <<>>
  PROVE  HandView(c, label, sk)'
<1>1. /\ c \in Chan /\ sk \in Key /\ sk \in {c, label} /\ Pipe(c) /\ label \in Key
      /\ sends \in [Key -> Seq(Nat)] /\ selRecv \in [Key -> Nat]
      /\ \A m \in Elems(sends[sk]) : msgs[m] \in On(c, "send")
      /\ Distinct(sends[sk]) /\ s.via = "select" /\ s.name = label
  <2>1. /\ c \in Chan /\ sk \in Key /\ sk \in {c, label} /\ Pipe(c) /\ label \in Key
        /\ \A m \in Elems(sends[sk]) : msgs[m] \in On(c, "send")
    BY OwnQueues DEF Handed
  <2>2. /\ sends \in [Key -> Seq(Nat)] /\ selRecv \in [Key -> Nat] /\ Distinct(sends[sk])
    BY <2>1 DEF Parts, QueueTypes, QueueInv, SendsInv, Separate
  <2>3. s.via = "select" /\ s.name = label
    BY OwnSites DEF Handed, Ending
  <2> QED
    BY <2>1, <2>2, <2>3
<1>2. /\ Done' = Done \union {op} /\ op \notin Done /\ op \in Moved /\ op \in On(c, "recv")
      /\ op \in Nat /\ UNCHANGED <<ops, took>> /\ s \in Sites
  BY EndSets
<1>3. \A k : k \in SelectSource(s) <=> k = sk /\ sends[sk] # <<>>
  BY <1>2, HandSource
<1>4. CompleteSelectRecv(op, s) /\ UNCHANGED <<sndAtt, commits>>
  BY <1>1 DEF Ending, Pairs
<1>5. NameView(c, label)'
  BY LabelEnds DEF HandView, Handed
<1>6. UNCHANGED <<msgs, recvs>>
  BY <1>4 DEF CompleteSelectRecv
<1>7. recvs'[c] = <<>> /\ recvs'[label] = <<>>
  BY <1>6 DEF HandView
<1>8. CommitsTrue(c)'
  BY <1>2, <1>4 DEF HandView, CommitsTrue
<1>9. CASE /\ SelectSource(s) = {}
           /\ selRecv' = [k \in Key |-> selRecv[k] + (IF k = OpKey(s) THEN 1 ELSE 0)
                                                  + (IF k = s.name THEN 1 ELSE 0)]
           /\ UNCHANGED <<sends, pairs>>
  <2>1. QSd(sk)' = {}
    BY <1>3, <1>9, EmptySeq DEF QSd, Elems
  <2>2. selRecv'[label] > 0
    BY <1>1, <1>9
  <2>3. PairsTrue(c)'
    BY <1>2, <1>9 DEF HandView, PairsTrue
  <2> QED
    BY <1>5, <1>7, <1>8, <2>1, <2>2, <2>3 DEF HandView
<1>10. ASSUME NEW k \in SelectSource(s), PairWith(op, k), UNCHANGED selRecv
       PROVE  HandView(c, label, sk)'
  <2>1. /\ sends' = [sends EXCEPT ![sk] = Tail(@)]
        /\ pairs' = pairs \union {<<msgs[Head(sends[sk])], op>>}
        /\ sends[sk] # <<>>
    BY <1>3, <1>10 DEF PairWith
  <2> DEFINE h == Head(sends[sk])
             x == msgs[h]
  <2>2. h \in Elems(sends[sk]) /\ x \in QSd(sk)
    BY <1>1, <2>1, FirstIn DEF QSd
  <2>3. \A z \in QSd(sk) : <<z, op>> \in took
    <3> SUFFICES ASSUME NEW z \in QSd(sk) PROVE <<z, op>> \in took
      OBVIOUS
    <3>1. PICK p \in took : p[1] = z /\ p[2] \notin Done
      BY DEF HandView
    <3>2. z \in On(c, "send")
      BY <1>1 DEF QSd
    <3>3. p = <<p[1], p[2]>> /\ p[2] \in On(s.ch, s.kind)
      BY <3>1, <3>2 DEF Parts, ProgramTypes, TruthInv, TookRefs, Moved, On
    <3>4. p[2] <= op /\ (p[2] < op => p[2] \in Done)
      BY <1>1, <3>3, EndingNewest DEF Parts, TruthInv
    <3>5. p[2] \in Nat
      BY <3>3 DEF On
    <3> QED
      BY <1>2, <3>1, <3>3, <3>4, <3>5
  <2>4. \A z \in QSd(sk) : z = x
    <3> SUFFICES ASSUME NEW z \in QSd(sk) PROVE z = x
      OBVIOUS
    <3>1. <<z, op>> \in took /\ <<x, op>> \in took
      BY <2>2, <2>3
    <3> HIDE DEF x
    <3>2. <<z, op>> = <<x, op>>
      <4>1. <<z, op>>[2] = <<x, op>>[2]
        OBVIOUS
      <4> QED
        BY <3>1, <4>1 DEF TruthInv, TookOnce
    <3> QED
      BY <3>2
  <2>5. x \in Done /\ x \in On(c, "send")
    <3>1. h \in 1..Len(msgs)
      BY <1>1, <2>2, References
    <3> QED
      BY <1>1, <2>2, <3>1 DEF Parts, QueueInv, MessageInv
  <2>6. QSd(sk)' = {}
    <3>1. Elems(sends[sk]) = Elems(Tail(sends[sk])) \union {h} /\ h \notin Elems(Tail(sends[sk]))
      BY <1>1, <2>1, TailSplit, TailElems
    <3>2. \A m \in Elems(Tail(sends[sk])) : msgs[m] # x
      <4> SUFFICES ASSUME NEW m \in Elems(Tail(sends[sk])), msgs[m] = x PROVE FALSE
        OBVIOUS
      <4>1. m \in 1..Len(msgs) /\ h \in 1..Len(msgs)
        BY <1>1, <3>1, References
      <4>2. m = h
        BY <4>1 DEF Parts, QueueInv, MessageInv, Distinct
      <4> QED
        BY <3>1, <4>2
    <3>3. \A m \in Elems(Tail(sends[sk])) : msgs[m] = x
      BY <2>4, <3>1 DEF QSd
    <3>4. sends'[sk] = Tail(sends[sk])
      BY <1>1, <2>1
    <3> QED
      BY <3>2, <3>3, <3>4 DEF QSd
  <2> HIDE DEF h, x
  <2>7. \A p \in took : ops[p[1]].ch = c /\ p[1] \notin Done' /\ p[2] \in Done' => selRecv'[label] > 0
    <3> SUFFICES ASSUME NEW p \in took, ops[p[1]].ch = c, p[1] \notin Done', p[2] \in Done'
                 PROVE  selRecv'[label] > 0
      OBVIOUS
    <3>1. CASE p[2] = op
      <4>1. p = <<x, op>>
        <5>1. <<x, op>> \in took /\ <<x, op>>[2] = p[2]
          BY <2>2, <2>3, <3>1 DEF x, h
        <5> QED
          BY <5>1 DEF TruthInv, TookOnce
      <4> QED
        BY <1>2, <2>5, <4>1
    <3>2. CASE p[2] \in Done
      BY <1>2, <1>10, <3>2 DEF HandView
    <3> QED
      BY <1>2, <3>1, <3>2
  <2>8. PairsTrue(c)'
    <3>1. pairs' = pairs \union {<<x, op>>} /\ <<x, op>> \in took
      BY <2>1, <2>2, <2>3 DEF x, h
    <3> QED
      BY <1>2, <3>1 DEF HandView, PairsTrue
  <2> QED
    BY <1>2, <1>5, <1>7, <1>8, <2>6, <2>7, <2>8 DEF HandView
<1> QED
  BY <1>4, <1>9, <1>10 DEF CompleteSelectRecv, SelectSource

\* Every step keeps the parser's view of a channel whose receiver selects.
LEMMA HandStep ==
  ASSUME Parts, KeyInv, TruthInv, NEW c, NEW label, NEW sk, NEW rk, Handed(c, label, sk, rk),
         HandView(c, label, sk), [Next]_vars
  PROVE  HandView(c, label, sk)'
<1>0. chanQ'[c] = <<>>
  BY HandEmpty DEF HandView, Handed, KeyedAs
<1>1. ASSUME NEW s \in Sites, Begins(s) PROVE HandView(c, label, sk)'
  BY <1>0, <1>1, HandBegins
<1>2. CASE Flows
  BY <1>0, <1>2, HandFlows
<1>3. ASSUME NEW g \in Gor, EndOf(g) PROVE HandView(c, label, sk)'
  <2> DEFINE s == Site(g)
             op == cur[g]
  <2>1. Ending(op, s)
    BY <1>3, EndEffect
  <2> HIDE DEF s, op
  <2>2. CASE s.ch # c
    BY <1>0, <2>1, <2>2, HandOtherEnds
  <2>3. CASE s.ch = c /\ s.kind = "send"
    BY <1>0, <2>1, <2>3, HandSendEnds
  <2>4. CASE s.ch = c /\ s.kind = "recv"
    BY <1>0, <2>1, <2>4, HandRecvEnds
  <2>5. s.kind \in {"send", "recv"}
    BY <2>1, PairingAssumption DEF SitesOK, Ending
  <2> QED
    BY <2>2, <2>3, <2>4, <2>5
<1> QED
  BY <1>1, <1>2, <1>3, StepKinds

-----------------------------------------------------------------------------
(* All channels together.                                                 *)

\* At first nothing is queued.
LEMMA KeyInit == Init => KeyInv
<1> SUFFICES ASSUME Init PROVE KeyInv
  OBVIOUS
<1>1. Elems(<<>>) = {}
  BY EmptySeq DEF Elems
<1>2. \A k \in Key : sends[k] = <<>> /\ recvs[k] = <<>> /\ sndAtt[k] = <<>>
  BY DEF Init
<1>3. commits = {}
  BY DEF Init
<1> QED
  BY <1>1, <1>2, <1>3 DEF KeyInv, KeyedSends, KeyedRecvs, KeyedAttempts, CommitRefs

\* At first nothing is known of any channel.
LEMMA ViewsInit == Init => Views
<1> SUFFICES ASSUME Init, NEW c \in Chan, NEW label \in Name,
                    NEW sk \in {c, label}, NEW rk \in {c, label}
             PROVE  View(c, label, sk, rk) /\ HandView(c, label, sk)
  BY DEF Views
<1>1. Elems(<<>>) = {} /\ Len(<<>>) = 0 /\ 1..0 = {}
  BY EmptySeq DEF Elems
<1>2. /\ c \in Key /\ label \in Key /\ sk \in Key /\ rk \in Key
      /\ "none" \notin Name
  BY PairingAssumption DEF Key
<1>3. /\ ops = <<>> /\ took = {} /\ pairs = {} /\ commits = {} /\ chanQ[c] = <<>>
      /\ \A k \in Key : sends[k] = <<>> /\ recvs[k] = <<>> /\ sndAtt[k] = <<>> /\ selRecv[k] = 0
      /\ \A d \in Chan : nameOf[d] = "none"
  BY DEF Init
<1>4. LabelView(c, label)
  BY <1>1, <1>2, <1>3 DEF LabelView, NameView, Uncounted
<1>5. QSd(sk) = {} /\ QRv(rk) = {} /\ \A kind : On(c, kind) = {}
  BY <1>1, <1>2, <1>3 DEF QSd, QRv, On
<1>6. SendsGone(c, sk) = {} /\ RecvsGone(c, rk) = {}
  BY <1>5 DEF SendsGone, RecvsGone
<1>7. QueueOrder(sk, rk) /\ Increasing(sndAtt[sk])
  BY <1>1, <1>2, <1>3 DEF QueueOrder, Increasing
<1>8. PairsTrue(c) /\ CommitsTrue(c) /\ PairsStay(c)
  BY <1>3 DEF PairsTrue, CommitsTrue, PairsStay
<1>9. Gone(c, sk, rk) /\ AllPaired(c, sk, rk)
  BY <1>6 DEF Gone, AllPaired
<1>10. Committed(c, sk)
  BY <1>5, <1>7 DEF Committed
<1>11. View(c, label, sk, rk)
  BY <1>2, <1>3, <1>4, <1>7, <1>8, <1>9, <1>10 DEF View, NotBoth, PipeView
<1>12. HandView(c, label, sk)
  BY <1>2, <1>3, <1>4, <1>5, <1>8 DEF HandView, LabelView
<1> QED
  BY <1>11, <1>12

\* Every step keeps the views of all channels.
LEMMA ViewsStep ==
  ASSUME Parts, KeyInv, TruthInv, Views, [Next]_vars
  PROVE  Views'
<1> SUFFICES ASSUME NEW c \in Chan, NEW label \in Name, NEW sk \in {c, label}, NEW rk \in {c, label}
             PROVE  /\ Traced(c, label, sk, rk) => View(c, label, sk, rk)'
                    /\ Handed(c, label, sk, rk) => HandView(c, label, sk)'
  BY DEF Views, Traced, Handed, KeyedAs, Pipe
<1>1. /\ Traced(c, label, sk, rk) => View(c, label, sk, rk)
      /\ Handed(c, label, sk, rk) => HandView(c, label, sk)
  BY DEF Views
<1>2. Traced(c, label, sk, rk) => View(c, label, sk, rk)'
  BY <1>1, ViewStep
<1>3. Handed(c, label, sk, rk) => HandView(c, label, sk)'
  BY <1>1, HandStep
<1> QED
  BY <1>2, <1>3

\* A set does not go one-to-one into itself without one of its elements.
LEMMA NoRoom ==
  ASSUME NEW S, IsFiniteSet(S), NEW r \in S, NEW f \in [S -> S \ {r}],
         \A x, y \in S : f[x] = f[y] => x = y
  PROVE  FALSE
<1>1. /\ IsFiniteSet(S \ {r}) /\ Cardinality(S \ {r}) = Cardinality(S) - 1
      /\ Cardinality(S) \in Nat
  BY FS_RemoveElement, FS_CardinalityType
<1>2. Cardinality(S \ {r}) < Cardinality(S)
  BY <1>1
<1>3. \E x, y \in S : x # y /\ f[x] = f[y]
  BY <1>1, <1>2, FS_PigeonHole
<1> QED
  BY <1>3

\* On an idle traced channel no receive waits for its sender.
LEMMA NoneWaits ==
  ASSUME Parts, KeyInv, TruthInv, NEW c, NEW label, NEW sk, NEW rk, Traced(c, label, sk, rk),
         View(c, label, sk, rk), label \notin SkipPairing, Done = 1..Len(ops), Moved = 1..Len(ops)
  PROVE  recvs[rk] = <<>>
<1> SUFFICES ASSUME recvs[rk] # <<>> PROVE FALSE
  OBVIOUS
<1> DEFINE S == On(c, "recv")
           r == Head(recvs[rk])
           Sent(y, x) == x \in On(c, "send") /\ <<x, y>> \in took
           Shown(x, z) == z \in S \ {r} /\ <<x, z>> \in pairs
<1>1. /\ c \in Chan /\ rk \in Key /\ recvs \in [Key -> Seq(Nat)]
      /\ \A i \in Elems(recvs[rk]) : i \in On(c, "recv")
  <2>1. c \in Chan /\ rk \in Key /\ \A i \in Elems(recvs[rk]) : i \in On(c, "recv")
    BY OwnQueues DEF Traced
  <2> QED
    BY <2>1 DEF Parts, QueueTypes
<1>2. r \in Elems(recvs[rk]) /\ r \in S
  BY <1>1, FirstIn
<1>3. IsFiniteSet(S)
  <2>1. Len(ops) \in Nat /\ S \subseteq 1..Len(ops)
    BY LenProperties DEF Parts, ProgramTypes, On
  <2>2. IsFiniteSet(1..Len(ops))
    BY <2>1, FS_Interval
  <2> QED
    BY <2>1, <2>2, FS_Subset
<1>4. \A y \in S : \E x : Sent(y, x)
  <2> SUFFICES ASSUME NEW y \in S PROVE \E x : Sent(y, x)
    OBVIOUS
  <2>1. PICK p \in took : p[2] = y
    BY DEF On, TruthInv, ReceivedAll
  <2>2. p = <<p[1], y>> /\ p[1] \in On(c, "send")
    BY <2>1 DEF Parts, ProgramTypes, TruthInv, TookRefs, On
  <2> QED
    BY <2>1, <2>2
<1>5. \A x \in On(c, "send") : \E z : Shown(x, z)
  <2> SUFFICES ASSUME NEW x \in On(c, "send") PROVE \E z : Shown(x, z)
    OBVIOUS
  <2>1. QSd(sk) = {}
    BY EmptySeq DEF View, NotBoth, QSd, Elems
  <2>2. x \in SendsGone(c, sk)
    BY <2>1 DEF SendsGone, On
  <2>3. PICK p \in pairs : p[1] = x
    BY <2>2 DEF View, AllPaired
  <2>4. p = <<x, p[2]>>
    BY <2>3 DEF Parts, QueueTypes
  <2>5. p[2] \in S
    BY <2>3 DEF View, PairsStay, On
  <2>6. p[2] # r
    BY <1>1, <1>2, <2>3 DEF Parts, QueueInv, PairsInv, All
  <2> QED
    BY <2>3, <2>4, <2>5, <2>6
<1>6. \A x, y, z : <<x, y>> \in took /\ <<x, z>> \in took => y = z
  <2> SUFFICES ASSUME NEW x, NEW y, NEW z, <<x, y>> \in took, <<x, z>> \in took PROVE y = z
    OBVIOUS
  <2>1. <<x, y>>[1] = <<x, z>>[1]
    OBVIOUS
  <2>2. <<x, y>> = <<x, z>>
    BY <2>1 DEF TruthInv, TookOnce
  <2> QED
    BY <2>2
<1>7. \A x, y, z : <<x, z>> \in pairs /\ <<y, z>> \in pairs => x = y
  <2> SUFFICES ASSUME NEW x, NEW y, NEW z, <<x, z>> \in pairs, <<y, z>> \in pairs PROVE x = y
    OBVIOUS
  <2>1. <<x, z>>[2] = <<y, z>>[2]
    OBVIOUS
  <2>2. <<x, z>> = <<y, z>>
    BY <2>1 DEF Parts, QueueInv, PairedOnce
  <2> QED
    BY <2>2
<1> DEFINE g == [y \in S |-> CHOOSE x : Sent(y, x)]
           h == [x \in On(c, "send") |-> CHOOSE z : Shown(x, z)]
           f == [y \in S |-> h[g[y]]]
<1>8. \A y \in S : Sent(y, g[y])
  BY <1>4
<1>9. \A x \in On(c, "send") : Shown(x, h[x])
  BY <1>5
<1> HIDE DEF g, h, S, r
<1>10. f \in [S -> S \ {r}] /\ \A y \in S : f[y] = h[g[y]]
  BY <1>8, <1>9
<1>11. \A x, y \in S : f[x] = f[y] => x = y
  <2> SUFFICES ASSUME NEW x \in S, NEW y \in S, f[x] = f[y] PROVE x = y
    OBVIOUS
  <2>1. h[g[x]] = h[g[y]]
    BY <1>10
  <2>2. g[x] = g[y]
    BY <1>7, <1>8, <1>9, <2>1
  <2> QED
    BY <1>6, <1>8, <2>2
<1> HIDE DEF f
<1> QED
  BY <1>2, <1>3, <1>10, <1>11, NoRoom

\* Every step keeps the invariant.
LEMMA PeerStep == PeerInv /\ [Next]_vars => PeerInv'
<1> SUFFICES ASSUME PeerInv, [Next]_vars PROVE PeerInv'
  OBVIOUS
<1>1. Parts /\ IInv /\ TruthInv /\ KeyInv /\ Views
  BY InParts DEF PeerInv
<1>2. IInv' /\ TruthInv' /\ KeyInv' /\ Views'
  BY <1>1, Inductive, TruthStep, KeyStep, ViewsStep
<1> QED
  BY <1>2 DEF PeerInv

-----------------------------------------------------------------------------
(* Theorems *)

\* The invariant above holds whatever program is observed.
THEOREM Invariance == Spec => []IInv
  BY Initially, Inductive, PTL DEF Spec

\* Every variable of the parser and of the program keeps its type.
THEOREM TypeCorrect == Spec => []TypeOK
<1>1. IInv => TypeOK
  BY DEF IInv
<1> QED
  BY <1>1, Invariance, PTL

\* No send is shown as received twice and no receive shows two senders
\* (handleRegionOp, emitSelectChosenCase, matchSelectRecv).
THEOREM PairsOnce == Spec => []PairedOnce
<1>1. IInv => PairedOnce
  BY DEF IInv, QueueInv
<1> QED
  BY <1>1, Invariance, PTL

\* A message and a receive never both wait under one key.
THEOREM NoPairingMissed == Spec => []NeverBothWaiting
<1>1. IInv => NeverBothWaiting
  BY DEF IInv, QueueInv
<1> QED
  BY <1>1, Invariance, PTL

\* When no two channels share a label, both sides of a pair used the same channel,
\* whether or not their pointers were logged.
THEOREM ChannelsNotMixed ==
  ASSUME Unambiguous
  PROVE  Spec => []SameChannel
<1>1. Init => ChannelInv
  <2>1. Elems(<<>>) = {}
    BY DEF Elems
  <2> QED
    BY <2>1 DEF Init, ChannelInv, LabelInv, OriginInv, SameChannel
<1>2. IInv /\ ChannelInv /\ [Next]_vars => ChannelInv'
  BY ChannelStep
<1>3. ChannelInv => SameChannel
  BY DEF ChannelInv
<1> QED
  BY <1>1, <1>2, <1>3, Invariance, PTL DEF Spec

\* Of every program, the parser's queues and what the program did with its channels
\* fit together as above.
THEOREM PeersTracked == Spec => []PeerInv
<1>1. Init => PeerInv
  BY Initially, TruthInit, KeyInit, ViewsInit DEF PeerInv
<1> QED
  BY <1>1, PeerStep, PTL DEF Spec

\* On a channel with one sender and one receiver, with a label of its own, whose
\* receives are all in regions, or all from a select if it is unbuffered, every pair
\* and every commit names the peer the receive really had, in whatever order the
\* completions reach the parser and also when only the receives have lost the pointer
\* (handleRegionOp, matchSelectRecv, EmitAtomic).
THEOREM PeersTrue ==
  ASSUME PipesTraced
  PROVE  Spec => []TruePeer
<1>1. PeerInv => TruePeer
  <2> SUFFICES ASSUME PeerInv, NEW p \in pairs \union commits, Pipe(ops[p[1]].ch) PROVE p \in took
    BY DEF TruePeer
  <2> DEFINE c == ops[p[1]].ch
  <2>1. p[1] \in 1..Len(ops) /\ Parts
    BY InParts, References DEF PeerInv, KeyInv, CommitRefs
  <2>2. ops[p[1]] \in Sites
    BY <2>1, ElementOfSeq DEF Parts, ProgramTypes
  <2>3. c \in Chan
    BY <2>2 DEF Chan
  <2>4. PICK label \in Name : \E sk, rk \in {c, label} :
            Traced(c, label, sk, rk) \/ Handed(c, label, sk, rk)
    BY <2>3 DEF PipesTraced
  <2>7. PICK sk \in {c, label}, rk \in {c, label} :
            Traced(c, label, sk, rk) \/ Handed(c, label, sk, rk)
    BY <2>4
  <2>5. View(c, label, sk, rk) \/ HandView(c, label, sk)
    BY <2>3, <2>7 DEF PeerInv, Views
  <2>6. PairsTrue(c) /\ CommitsTrue(c)
    BY <2>5 DEF View, PipeView, HandView
  <2> QED
    BY <2>6 DEF PairsTrue, CommitsTrue
<1> QED
  BY <1>1, PeersTracked, PTL

\* On a channel with a label of its own that is received from in regions, by however
\* many goroutines, every receive has been given a sender once no operation is under
\* way: a wrong sender for one receive never leaves another one without.
THEOREM EveryReceivePaired ==
  ASSUME RegionsTraced
  PROVE  Spec => []ReceivesPaired
<1>1. PeerInv => ReceivesPaired
  <2> SUFFICES ASSUME PeerInv, Quiet, NEW r \in 1..Len(ops), ops[r].kind = "recv",
                      ops[r].via = "region", ops[r].name \notin SkipPairing
               PROVE  \E p \in pairs : p[2] = r
    BY DEF ReceivesPaired
  <2> DEFINE s == ops[r]
  <2>1. Parts /\ KeyInv /\ TruthInv
    BY InParts DEF PeerInv
  <2>2. s \in Sites
    BY <2>1, ElementOfSeq DEF Parts, ProgramTypes
  <2>3. Done = 1..Len(ops) /\ Moved = 1..Len(ops)
    BY DEF Done, Live, Moved, Begun, Quiet
  <2>4. PICK c, label : c = s.ch /\ label = s.name
    OBVIOUS
  <2>5. PICK sk \in {c, label}, rk \in {c, label} : Traced(c, label, sk, rk)
    BY <2>2, <2>4 DEF RegionsTraced
  <2>6. c \in Chan /\ label \in Name /\ View(c, label, sk, rk)
    BY <2>5 DEF PeerInv, Views, Traced, KeyedAs
  <2>7. recvs[rk] = <<>>
    BY <2>1, <2>3, <2>4, <2>5, <2>6, NoneWaits
  <2>8. r \in RecvsGone(c, rk)
    BY <2>3, <2>4, <2>7, EmptySeq DEF RecvsGone, QRv, Elems, On
  <2> QED
    BY <2>4, <2>6, <2>8 DEF View, AllPaired
<1> QED
  BY <1>1, PeersTracked, PTL
=============================================================================
