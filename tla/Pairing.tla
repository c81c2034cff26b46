------------------------------ MODULE Pairing ------------------------------
(***************************************************************************)
(* How the trace processor pairs channel sends with receives               *)
(* (internal/traceproc/traceproc.go: handleRegionBegin, handleRegionEnd,   *)
(* handleRegionOp, emitSelectChosenCase, matchSelectRecv).                 *)
(*                                                                         *)
(* The observed program runs beside its parser.  A goroutine enters a      *)
(* trace region, its send or receive happens, and the region ends; only    *)
(* the beginning and the end reach the trace, so the parser sees           *)
(* completions in another order than the channel did.  A select logs its   *)
(* chosen case after the communication.  Trace events reach the parser in  *)
(* the order of their time stamps, so an event and its handling are one    *)
(* step.                                                                   *)
(*                                                                         *)
(* A channel is known to the parser by its pointer or, when no pointer was *)
(* logged, by the label in the region's name; two channels may share a     *)
(* label.  What the program really did (chanQ, took) is never read by the  *)
(* parser.  The queues of receive attempts and the counters of matched     *)
(* pairs decide nothing and are left out.                                  *)
(***************************************************************************)
EXTENDS Naturals, Sequences, FiniteSets

CONSTANTS
    Sites,        \* where the program uses channels: see SitesOK
    Cap,          \* capacity of each channel
    SkipPairing,  \* labels named in GTV_SKIP_PAIRING_CHANNELS
    NoPtr,        \* no pointer was logged
    MaxOps        \* bound: channel operations the program begins

Gor  == {s.g : s \in Sites}
Chan == {s.ch : s \in Sites}
Name == {s.name : s \in Sites}
Key  == Chan \union Name

\* A site is used by one goroutine, for one kind of operation on one channel.
\* A goroutine does not use a channel both from a select and from a region:
\* a region that comes within three events of the select would be taken for
\* the body of its case.
SitesOK ==
    /\ \A s \in Sites :
          /\ s.kind \in {"send", "recv"} /\ s.via \in {"region", "select"}
          /\ s.ptr \in {s.ch, NoPtr}
    /\ \A s, t \in Sites :
          s.g = t.g /\ s.ch = t.ch /\ s.kind = t.kind => s.via = t.via

ASSUME PairingAssumption ==
    /\ SitesOK
    /\ Chan \intersect Name = {} /\ NoPtr \notin Chan /\ "none" \notin Name
    /\ Cap \in [Chan -> Nat]
    /\ MaxOps \in Nat

VARIABLES
    \* the observed program
    ops,        \* the site of every operation begun, in order
    cur,        \* the operation a goroutine is in, 0 when in none
    stage,      \* how far it is: "idle", "begun" or "moved"
    chanQ,      \* sends whose value a channel holds
    took,       \* <<send, recv>>: the receive really took the value of the send
    \* pairing of completed operations
    msgs,       \* the send behind each message id
    sends,      \* sendsByKey: ids of messages still to be received
    recvs,      \* pendingRecvByKey
    selRecv,    \* pendingSelectRecv
    pairs,      \* <<send, recv>>: chan_recv was emitted with this peer
    nameOf,     \* channelNameByPtr
    \* pairing of attempts, and buffer depth
    sndAtt,     \* sndAttQ
    commits,    \* <<send, recv>>: chan_recv_commit carried this pair id
    depth,      \* depthByPtr
    buffered    \* bufSends

program == <<ops, cur, stage, chanQ, took>>
queues  == <<msgs, sends, recvs, selRecv, pairs>>
atomic  == <<sndAtt, commits, depth, buffered>>
vars    == <<program, queues, nameOf, atomic>>

Init ==
    /\ ops = <<>> /\ took = {}
    /\ cur = [g \in Gor |-> 0] /\ stage = [g \in Gor |-> "idle"]
    /\ chanQ = [c \in Chan |-> <<>>]
    /\ msgs = <<>> /\ pairs = {}
    /\ sends = [k \in Key |-> <<>>] /\ recvs = [k \in Key |-> <<>>]
    /\ selRecv = [k \in Key |-> 0]
    /\ nameOf = [c \in Chan |-> "none"]
    /\ sndAtt = [k \in Key |-> <<>>] /\ commits = {}
    /\ depth = [c \in Chan |-> 0] /\ buffered = [c \in Chan |-> {}]

-----------------------------------------------------------------------------
(* The observed program: Go channels.                                      *)

Site(g) == ops[cur[g]]

Enter(s) ==
    /\ stage[s.g] = "idle" /\ Len(ops) < MaxOps
    /\ ops' = Append(ops, s)
    /\ cur' = [cur EXCEPT ![s.g] = Len(ops) + 1]
    /\ stage' = [stage EXCEPT ![s.g] = "begun"]
    /\ UNCHANGED <<chanQ, took>>

Leave(g) ==
    /\ stage[g] = "moved"
    /\ stage' = [stage EXCEPT ![g] = "idle"]
    /\ cur' = [cur EXCEPT ![g] = 0]
    /\ UNCHANGED <<ops, chanQ, took>>

Put(g) ==
    /\ stage[g] = "begun" /\ Site(g).kind = "send"
    /\ Len(chanQ[Site(g).ch]) < Cap[Site(g).ch]
    /\ chanQ' = [chanQ EXCEPT ![Site(g).ch] = Append(@, cur[g])]
    /\ stage' = [stage EXCEPT ![g] = "moved"]
    /\ UNCHANGED <<ops, cur, took, queues, nameOf, atomic>>

Take(g) ==
    /\ stage[g] = "begun" /\ Site(g).kind = "recv"
    /\ chanQ[Site(g).ch] # <<>>
    /\ took' = took \union {<<Head(chanQ[Site(g).ch]), cur[g]>>}
    /\ chanQ' = [chanQ EXCEPT ![Site(g).ch] = Tail(@)]
    /\ stage' = [stage EXCEPT ![g] = "moved"]
    /\ UNCHANGED <<ops, cur, queues, nameOf, atomic>>

\* A receiver that waits on an empty channel is handed the value.
Meet(g, h) ==
    /\ stage[g] = "begun" /\ Site(g).kind = "send"
    /\ stage[h] = "begun" /\ Site(h).kind = "recv"
    /\ Site(g).ch = Site(h).ch /\ chanQ[Site(g).ch] = <<>>
    /\ took' = took \union {<<cur[g], cur[h]>>}
    /\ stage' = [stage EXCEPT ![g] = "moved", ![h] = "moved"]
    /\ UNCHANGED <<ops, cur, chanQ, queues, nameOf, atomic>>

-----------------------------------------------------------------------------
(* Channel identity.                                                       *)

OpKey(s) == IF s.ptr # NoPtr THEN s.ptr ELSE s.name

\* A key that stands for the label: the label itself, or a pointer last seen
\* with it.
NamedAny(k, name) == k = name \/ k \in Chan  \* Mutant: the label is not compared.
Named(k, name) == k = name \/ (k \in Chan /\ nameOf[k] = name)

LearnName(s) ==
    nameOf' = IF s.ptr # NoPtr THEN [nameOf EXCEPT ![s.ptr] = s.name] ELSE nameOf

\* Mutant: the label is not tried.
WaitingExact(s, W) == {OpKey(s)} \intersect W

\* The lookups of popPendingRecv and resolvePendingSelectRecv: the key of the
\* operation if anything waits under it, or else any key with its label.
Waiting(s, W) ==
    IF OpKey(s) \in W THEN {OpKey(s)} ELSE {k \in W : Named(k, s.name)}

RecvWaiting == {k \in Key : recvs[k] # <<>>}

\* Mutant: select receives are not looked up.
SelectWaitingNever == {}

SelectWaiting == {k \in Key : selRecv[k] > 0}

\* findSendQueueByName: of the queues with the label, the one whose first
\* message is the oldest.
SendQueueByName(name) ==
    LET Q == {k \in Key : sends[k] # <<>> /\ Named(k, name)}
    IN  {k \in Q : \A j \in Q : Head(sends[k]) <= Head(sends[j])}

-----------------------------------------------------------------------------
(* Pairing of completed operations.                                        *)

\* A completed send gets the next message id and goes to the oldest receive
\* that waits for it, is counted off against a select receive, or is queued.
CompleteSend(op, s) ==
    /\ msgs' = Append(msgs, op)
    /\ \/ \E k \in Waiting(s, RecvWaiting) :
             /\ recvs' = [recvs EXCEPT ![k] = Tail(@)]
             /\ pairs' = pairs \union {<<op, Head(recvs[k])>>}
             /\ UNCHANGED <<sends, selRecv>>
       \/ /\ Waiting(s, RecvWaiting) = {}
          /\ \E k \in Waiting(s, SelectWaiting) :
                selRecv' = [selRecv EXCEPT ![k] = @ - 1]
          /\ UNCHANGED <<sends, recvs, pairs>>
       \/ /\ Waiting(s, RecvWaiting) = {} /\ Waiting(s, SelectWaiting) = {}
          /\ sends' = [sends EXCEPT ![OpKey(s)] = Append(@, Len(msgs) + 1)]
          /\ UNCHANGED <<recvs, selRecv, pairs>>

\* The queue a receive takes its message from, if there is one.
Source(s, byName) ==
    IF sends[OpKey(s)] # <<>> THEN {OpKey(s)}
    ELSE IF byName THEN SendQueueByName(s.name) ELSE {}

\* Mutants: the message stays in the queue; the newest message is taken.
PairWithKept(op, k) ==
    /\ UNCHANGED sends
    /\ pairs' = pairs \union {<<msgs[Head(sends[k])], op>>}

PairWithNewest(op, k) ==
    LET n == Len(sends[k])
    IN  /\ sends' = [sends EXCEPT ![k] = SubSeq(@, 1, n - 1)]
        /\ pairs' = pairs \union {<<msgs[sends[k][n]], op>>}

PairWith(op, k) ==
    /\ sends' = [sends EXCEPT ![k] = Tail(@)]
    /\ pairs' = pairs \union {<<msgs[Head(sends[k])], op>>}

\* A completed receive takes the oldest message, or waits for one.  A receive
\* without a pointer may look its queue up by label.
CompleteRecv(op, s) ==
    /\ UNCHANGED <<msgs, selRecv>>
    /\ \/ /\ Source(s, s.ptr = NoPtr) = {}
          /\ recvs' = [recvs EXCEPT ![OpKey(s)] = Append(@, op)]
          /\ UNCHANGED <<sends, pairs>>
       \/ \E k \in Source(s, s.ptr = NoPtr) :
             /\ UNCHANGED recvs
             /\ \/ /\ s.name \in SkipPairing
                   /\ sends' = [sends EXCEPT ![k] = Tail(@)]
                   /\ UNCHANGED pairs
                \/ /\ s.name \notin SkipPairing
                   /\ PairWith(op, k)

\* matchSelectRecv: the label is tried even when the pointer is known, and a
\* receive that comes first is left under the pointer and under the label.
CompleteSelectRecv(op, s) ==
    /\ UNCHANGED <<msgs, recvs>>
    /\ \/ /\ Source(s, TRUE) = {}
          /\ selRecv' = [k \in Key |-> selRecv[k] + (IF k = OpKey(s) THEN 1 ELSE 0)
                                                  + (IF k = s.name THEN 1 ELSE 0)]
          /\ UNCHANGED <<sends, pairs>>
       \/ \E k \in Source(s, TRUE) :
             /\ PairWith(op, k)
             /\ UNCHANGED selRecv

-----------------------------------------------------------------------------
(* Pairing of attempts and buffer depth (EmitAtomic).                      *)

BufferedChan(s) == s.ptr # NoPtr /\ Cap[s.ch] > 0

CommitSend(op, s) ==
    /\ UNCHANGED <<sndAtt, commits>>
    /\ IF BufferedChan(s)
       THEN /\ buffered' = [buffered EXCEPT ![s.ptr] = @ \union {op}]
            /\ depth' = [depth EXCEPT ![s.ptr] = IF @ < Cap[s.ptr] THEN @ + 1 ELSE @]
       ELSE UNCHANGED <<buffered, depth>>

\* The commit takes the oldest send attempt; the depth goes down only if that
\* attempt has already been counted.
CommitRecv(op, s) ==
    LET q    == sndAtt[OpKey(s)]
        pair == IF q = <<>> THEN op ELSE Head(q)
    IN  /\ sndAtt' = IF q = <<>> THEN sndAtt
                     ELSE [sndAtt EXCEPT ![OpKey(s)] = Tail(@)]
        /\ commits' = IF q = <<>> THEN commits ELSE commits \union {<<pair, op>>}
        /\ IF BufferedChan(s) /\ pair \in buffered[s.ptr]
           THEN /\ buffered' = [buffered EXCEPT ![s.ptr] = @ \ {pair}]
                /\ depth' = [depth EXCEPT ![s.ptr] = IF @ > 0 THEN @ - 1 ELSE 0]
           ELSE UNCHANGED <<buffered, depth>>

-----------------------------------------------------------------------------
(* The trace events.                                                       *)

\* Region begin: the attempt is recorded.
RegionBegin(s) ==
    /\ s.via = "region"
    /\ Enter(s)
    /\ LearnName(s)
    /\ sndAtt' = IF s.kind = "send"
                 THEN [sndAtt EXCEPT ![OpKey(s)] = Append(@, Len(ops) + 1)]
                 ELSE sndAtt
    /\ UNCHANGED <<queues, commits, depth, buffered>>

\* A select announces nothing the pairing uses before its case is chosen.
SelectBegin(s) ==
    /\ s.via = "select"
    /\ Enter(s)
    /\ UNCHANGED <<queues, nameOf, atomic>>

SendRegionEnd(g) ==
    /\ Leave(g) /\ Site(g).via = "region" /\ Site(g).kind = "send"
    /\ CompleteSend(cur[g], Site(g))
    /\ CommitSend(cur[g], Site(g))
    /\ UNCHANGED nameOf

RecvRegionEnd(g) ==
    /\ Leave(g) /\ Site(g).via = "region" /\ Site(g).kind = "recv"
    /\ CompleteRecv(cur[g], Site(g))
    /\ CommitRecv(cur[g], Site(g))
    /\ UNCHANGED nameOf

\* select_chosen and select_case; the region around the case's body that
\* follows is recognised as the same operation and skipped.
SelectSend(g) ==
    /\ Leave(g) /\ Site(g).via = "select" /\ Site(g).kind = "send"
    /\ LearnName(Site(g))
    /\ CompleteSend(cur[g], Site(g))
    /\ UNCHANGED atomic

SelectRecv(g) ==
    /\ Leave(g) /\ Site(g).via = "select" /\ Site(g).kind = "recv"
    /\ LearnName(Site(g))
    /\ CompleteSelectRecv(cur[g], Site(g))
    /\ UNCHANGED atomic

Next ==
    \/ \E s \in Sites : RegionBegin(s) \/ SelectBegin(s)
    \/ \E g \in Gor : Put(g) \/ Take(g) \/ SendRegionEnd(g) \/ RecvRegionEnd(g)
                        \/ SelectSend(g) \/ SelectRecv(g)
    \/ \E g, h \in Gor : Meet(g, h)

Spec == Init /\ [][Next]_vars

-----------------------------------------------------------------------------
(* Properties.                                                             *)

Op == 1..MaxOps

TypeOK ==
    /\ ops \in Seq(Sites) /\ cur \in [Gor -> Nat]
    /\ stage \in [Gor -> {"idle", "begun", "moved"}]
    /\ chanQ \in [Chan -> Seq(Nat)] /\ took \subseteq Nat \X Nat
    /\ msgs \in Seq(Nat) /\ pairs \subseteq Nat \X Nat
    /\ sends \in [Key -> Seq(Nat)] /\ recvs \in [Key -> Seq(Nat)]
    /\ selRecv \in [Key -> Nat]
    /\ nameOf \in [Chan -> Name \union {"none"}]
    /\ sndAtt \in [Key -> Seq(Nat)] /\ commits \subseteq Nat \X Nat
    /\ depth \in [Chan -> Nat] /\ buffered \in [Chan -> SUBSET Nat]

\* No send is shown as received twice and no receive shows two senders,
\* whichever of the three ways an operation was paired in.
PairedOnce ==
    \A p, q \in pairs : (p[1] = q[1] \/ p[2] = q[2]) => p = q

\* A pairing is never missed under one key: a message and a receive do not
\* both wait.
NeverBothWaiting ==
    \A k \in Key : sends[k] = <<>> \/ (recvs[k] = <<>> /\ selRecv[k] = 0)

\* "Do not invent endpoints" (docs/spec.md:79): the two sides of a pair used the
\* same channel, also when one of them has no pointer, where labels differ.  Two
\* channels that share a label are mixed up (MCPairingShared.cfg).
SameChannel == \A p \in pairs : ops[p[1]].ch = ops[p[2]].ch

\* One goroutine sends on the channel and one receives.
Pipe(c) ==
    \A s, t \in Sites : s.ch = c /\ t.ch = c /\ s.kind = t.kind => s.g = t.g

\* On a channel with one sender and one receiver the parser finds the peer the
\* receive really had, although completions reach it out of order: in the
\* paired events and in the commits.
TruePeer ==
    \A p \in pairs \union commits : Pipe(ops[p[1]].ch) => p \in took

Quiet == \A g \in Gor : stage[g] = "idle"

\* When no operation is under way, every receive of a region has been given
\* its sender, whichever of the two ended first and whether or not its pointer
\* was logged.
ReceivesPaired ==
    Quiet => \A r \in 1..Len(ops) :
        ops[r].kind = "recv" /\ ops[r].via = "region" /\ ops[r].name \notin SkipPairing =>
            \E p \in pairs : p[2] = r

\* "buffered depth by pointer": when no operation is under way, the depth is
\* the number of values the channel holds.  It is not: a receive that ends before
\* its send leaves it too high (MCPairingDepth.cfg), one that ends after the
\* buffer has been filled again leaves it too low.
DepthExact ==
    Quiet => \A c \in Chan : Cap[c] > 0 => depth[c] = Len(chanQ[c])
=============================================================================
