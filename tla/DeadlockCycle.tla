--------------------------- MODULE DeadlockCycle ---------------------------
(***************************************************************************)
(* The deadlock warning of the trace processor                             *)
(* (internal/traceproc/traceproc.go: recordChannelActivity, the blocked    *)
(* map, deadlockCycleEvent, EmitAuditSummary).                             *)
(*                                                                         *)
(* When a trace ends, a goroutine that waits on a channel is taken to wait *)
(* for the goroutine last seen at the other end of the channel; a cycle of *)
(* such edges is reported.  The program of Go channels runs beside the     *)
(* parser, and goes on after the trace has ended, so that a warning can be *)
(* compared with what becomes of the goroutines it names.                  *)
(*                                                                         *)
(* A channel is known by its pointer or, when none was logged, by a label, *)
(* as in Pairing; how operations are paired matters here only because a    *)
(* send that finds an unpaired receive records it a second time.  An       *)
(* operation outside any region shows nothing but its wait, whose channel  *)
(* is guessed.  Goroutines that wait in a select are never in the map of   *)
(* blocked ones, and are left out, as are programs that panic.             *)
(***************************************************************************)
EXTENDS Naturals, Sequences, FiniteSets

CONSTANTS
    Sites,     \* where the program uses channels
    Cap,       \* capacity of each channel
    NoPtr,     \* no pointer was logged
    Window,    \* GTV_DEADLOCK_WINDOW_MS
    MaxOps,    \* bound: channel operations the program begins
    MaxClock   \* bound: instants

Gor  == {s.g : s \in Sites}
Chan == {s.ch : s \in Sites}
Name == {s.name : s \in Sites}
Key  == Chan \union Name

Unnamed == "none"

ASSUME DeadlockCycleAssumption ==
    /\ \A s \in Sites :
          /\ s.kind \in {"send", "recv", "close"} /\ s.region \in BOOLEAN
          /\ s.ptr \in {s.ch, NoPtr}
    /\ IsFiniteSet(Gor)
    /\ Chan \intersect Name = {} /\ NoPtr \notin Key /\ Unnamed \notin Key
    /\ Cap \in [Chan -> Nat]
    /\ Window \in Nat /\ MaxOps \in Nat /\ MaxClock \in Nat

VARIABLES
    \* the program
    stage,    \* "idle", "begun", "waiting" or "moved"
    cur,      \* the site of the operation a goroutine is in, or was in last
    len,      \* values a channel holds
    closed,   \* closed channels
    begun,    \* number of operations begun
    firstEnd, \* when an operation at a site first ended in its region, 0 for never
    clock,    \* the time of the last event: lastTimeMs
    \* the parser
    last,     \* Last: the site of the last region of a goroutine, if any
    nameOf,   \* channelNameByPtr
    unpaired, \* sendsByKey: number of messages still to be received
    pend,     \* pendingRecvByKey
    act,      \* lastSendByChannel and lastRecvByChannel
    blocked,  \* blocked: what a goroutine waits for, if known
    \* the audit
    audited,  \* the trace has ended
    warning   \* cycle_gids of warn_deadlock_cycle, empty for no warning

program == <<stage, cur, len, closed, begun>>
parser  == <<last, nameOf, unpaired, pend, act, blocked>>
vars    == <<program, firstEnd, clock, parser, audited, warning>>

Dir == {"send", "recv"}

Init ==
    /\ stage = [g \in Gor |-> "idle"]
    /\ cur = [g \in Gor |-> CHOOSE s \in Sites : s.g = g]
    /\ len = [c \in Chan |-> 0] /\ closed = {} /\ begun = 0
    /\ firstEnd = [s \in Sites |-> 0] /\ clock = 1
    /\ last = [g \in Gor |-> {}]
    /\ nameOf = [c \in Chan |-> Unnamed]
    /\ unpaired = [k \in Key |-> 0] /\ pend = [k \in Key |-> <<>>]
    /\ act = [d \in Dir |-> [k \in Key |-> {}]]
    /\ blocked = [g \in Gor |-> {}]
    /\ audited = FALSE /\ warning = <<>>

-----------------------------------------------------------------------------
(* What is known of channels.                                              *)

Other(kind) == IF kind = "recv" THEN "send" ELSE "recv"

KeyOf(s) == IF s.ptr # NoPtr THEN s.ptr ELSE s.name

\* recordChannelActivity: the channel is entered under its pointer and the
\* label last seen with it, or under its label and one pointer last seen with
\* that, if there is one.
Entries(s) ==
    LET P == {p \in Chan : nameOf[p] = s.name}
    IN  IF s.ptr # NoPtr THEN {{s.ptr, nameOf[s.ptr]} \intersect Key}
        ELSE IF P = {} THEN {{s.name}} ELSE {{s.name, p} : p \in P}

Enter(a, kind, K, g, t) ==
    [a EXCEPT ![kind] = [k \in Key |-> IF k \in K THEN {[g |-> g, t |-> t]} ELSE @[k]]]

Named(k, name) == k = name \/ (k \in Chan /\ nameOf[k] = name)

\* popPendingRecv: the key of the operation, or any key with its label.
WaitingRecv(s) ==
    IF pend[KeyOf(s)] # <<>> THEN {KeyOf(s)}
    ELSE {k \in Key : pend[k] # <<>> /\ Named(k, s.name)}

\* The queue a receive takes its message from.  The parser prefers the label
\* whose oldest message is the oldest; any of them is allowed here.
SendQueues(s) ==
    IF unpaired[KeyOf(s)] > 0 THEN {KeyOf(s)}
    ELSE {k \in Key : s.ptr = NoPtr /\ unpaired[k] > 0 /\ Named(k, s.name)}

\* inferBlockChannel: the last region of the goroutine, if it is of the kind
\* of the wait.
WaitInferred(g) ==
    {[kind |-> s.kind, key |-> KeyOf(s)] : s \in {r \in last[g] : r.kind = cur[g].kind}}

-----------------------------------------------------------------------------
(* The program, and the events it leaves in the trace.                     *)

Waiters(c, kind) ==
    {h \in Gor : stage[h] = "waiting" /\ cur[h].ch = c /\ cur[h].kind = kind}

\* The beginning of a region; the one around a close is not looked at.
BeginSeen(s) ==
    /\ IF s.region /\ s.kind # "close"
       THEN /\ last' = [last EXCEPT ![s.g] = {s}]
            /\ nameOf' = IF s.ptr # NoPtr THEN [nameOf EXCEPT ![s.ptr] = s.name]
                         ELSE nameOf
       ELSE UNCHANGED <<last, nameOf>>
    /\ UNCHANGED <<unpaired, pend, act, blocked>>

Begin(s) ==
    /\ stage[s.g] = "idle" /\ begun < MaxOps
    /\ s.ch \in closed => s.kind = "recv"
    /\ stage' = [stage EXCEPT ![s.g] = "begun"]
    /\ cur' = [cur EXCEPT ![s.g] = s]
    /\ begun' = begun + 1
    /\ \/ ~audited /\ BeginSeen(s)
       \/ audited /\ UNCHANGED parser
    /\ UNCHANGED <<len, closed, firstEnd, clock, audited, warning>>

\* Mutant: a goroutine that is woken is not taken out of the map.
WokenSeenNot(H) == UNCHANGED parser

\* GoWaiting to GoRunnable.
WokenSeen(H) ==
    /\ blocked' = [h \in Gor |-> IF h \in H THEN {} ELSE blocked[h]]
    /\ UNCHANGED <<last, nameOf, unpaired, pend, act>>

\* The operation of g takes place, and wakes the goroutines of H.
Proceed(g, H) ==
    /\ stage[g] = "begun"
    /\ stage' = [h \in Gor |-> IF h \in H \union {g} THEN "moved" ELSE stage[h]]
    /\ \/ ~audited /\ WokenSeen(H)
       \/ audited /\ UNCHANGED parser
    /\ UNCHANGED <<cur, begun, firstEnd, clock, audited, warning>>

\* Which of several waiting goroutines is served is left open.
Send(g) ==
    LET c == cur[g].ch
    IN  /\ cur[g].kind = "send"
        /\ \/ \E h \in Waiters(c, "recv") : Proceed(g, {h}) /\ UNCHANGED len
           \/ /\ Waiters(c, "recv") = {} /\ len[c] < Cap[c]
              /\ len' = [len EXCEPT ![c] = @ + 1]
              /\ Proceed(g, {})
        /\ UNCHANGED closed

\* A sender that waits hands over its value, or puts it where the one received
\* has been.
Receive(g) ==
    LET c == cur[g].ch
    IN  /\ cur[g].kind = "recv"
        /\ \/ \E h \in Waiters(c, "send") : Proceed(g, {h}) /\ UNCHANGED len
           \/ /\ Waiters(c, "send") = {} /\ len[c] > 0
              /\ len' = [len EXCEPT ![c] = @ - 1]
              /\ Proceed(g, {})
           \/ /\ Waiters(c, "send") = {} /\ len[c] = 0 /\ c \in closed
              /\ Proceed(g, {}) /\ UNCHANGED len
        /\ UNCHANGED closed

Close(g) ==
    LET c == cur[g].ch
    IN  /\ cur[g].kind = "close" /\ c \notin closed
        /\ \A h \in Gor \ {g} :
              stage[h] \in {"begun", "waiting"} /\ cur[h].ch = c => cur[h].kind = "recv"
        /\ closed' = closed \union {c}
        /\ Proceed(g, Waiters(c, "recv"))
        /\ UNCHANGED len

\* GoRunning to GoWaiting.
WaitSeen(g) ==
    /\ blocked' = [blocked EXCEPT ![g] = WaitInferred(g)]
    /\ UNCHANGED <<last, nameOf, unpaired, pend, act>>

Wait(g) ==
    LET c == cur[g].ch
    IN  /\ stage[g] = "begun" /\ c \notin closed
        /\ \/ cur[g].kind = "send" /\ Waiters(c, "recv") = {} /\ len[c] = Cap[c]
           \/ cur[g].kind = "recv" /\ Waiters(c, "send") = {} /\ len[c] = 0
        /\ stage' = [stage EXCEPT ![g] = "waiting"]
        /\ \/ ~audited /\ WaitSeen(g)
           \/ audited /\ UNCHANGED parser
        /\ UNCHANGED <<cur, len, closed, begun, firstEnd, clock, audited, warning>>

\* The end of a region: the operation is recorded; before that, a send that
\* finds an unpaired receive records it again, at the time it had.
SendSeen(s) ==
    /\ \/ \E k \in WaitingRecv(s), K \in Entries(s), L \in Entries(s) :
             /\ pend' = [pend EXCEPT ![k] = Tail(@)]
             /\ act' = Enter(Enter(act, "recv", K, Head(pend[k]).g, Head(pend[k]).t),
                             "send", L, s.g, clock)
             /\ UNCHANGED unpaired
       \/ /\ WaitingRecv(s) = {}
          /\ unpaired' = [unpaired EXCEPT ![KeyOf(s)] = @ + 1]
          /\ \E L \in Entries(s) : act' = Enter(act, "send", L, s.g, clock)
          /\ UNCHANGED pend
    /\ UNCHANGED <<last, nameOf, blocked>>

RecvSeen(s) ==
    /\ \/ \E k \in SendQueues(s) :
             /\ unpaired' = [unpaired EXCEPT ![k] = @ - 1]
             /\ UNCHANGED pend
       \/ /\ SendQueues(s) = {}
          /\ pend' = [pend EXCEPT ![KeyOf(s)] = Append(@, [g |-> s.g, t |-> clock])]
          /\ UNCHANGED unpaired
    /\ \E L \in Entries(s) : act' = Enter(act, "recv", L, s.g, clock)
    /\ UNCHANGED <<last, nameOf, blocked>>

EndSeen(s) ==
    IF ~s.region \/ s.kind = "close" THEN UNCHANGED <<parser, firstEnd>>
    ELSE /\ IF s.kind = "send" THEN SendSeen(s) ELSE RecvSeen(s)
         /\ firstEnd' = [firstEnd EXCEPT ![s] = IF @ = 0 THEN clock ELSE @]

End(g) ==
    /\ stage[g] = "moved"
    /\ stage' = [stage EXCEPT ![g] = "idle"]
    /\ \/ ~audited /\ EndSeen(cur[g])
       \/ audited /\ UNCHANGED <<parser, firstEnd>>
    /\ UNCHANGED <<cur, len, closed, begun, clock, audited, warning>>

\* Something else is traced, later.
Tick ==
    /\ ~audited /\ clock < MaxClock
    /\ clock' = clock + 1
    /\ UNCHANGED <<program, firstEnd, parser, audited, warning>>

-----------------------------------------------------------------------------
(* The audit at the end of the trace.                                      *)

\* Mutant: who was last at the same end.
CandidatesSame(w) == act[w.kind][w.key]

\* resolveCandidate: who was last at the other end, under the key of the wait
\* or else under the label of its pointer.
Candidates(w) ==
    LET seen == act[Other(w.kind)]
    IN  IF seen[w.key] # {} THEN seen[w.key]
        ELSE IF w.key \in Chan /\ nameOf[w.key] \in Name THEN seen[nameOf[w.key]]
        ELSE {}

Edge(g, h) ==
    \E w \in blocked[g] : \E r \in Candidates(w) : r.g = h /\ clock <= r.t + Window

\* The stacks the depth-first search can have: paths without repetition.  A
\* goroutine has one edge at most, so that a node visited earlier and no longer
\* on the stack leads to no cycle.
Paths ==
    {p \in UNION {[1..n -> Gor] : n \in 1..Cardinality(Gor)} :
        /\ \A i, j \in DOMAIN p : p[i] = p[j] => i = j
        /\ \A i \in 1..(Len(p) - 1) : Edge(p[i], p[i + 1])}

\* The cycle from the node the search meets again, for a search that starts
\* anywhere.
Cycles ==
    UNION {{SubSeq(p, i, Len(p)) : i \in {j \in DOMAIN p : Edge(p[Len(p)], p[j])}}
             : p \in Paths}

Audit ==
    /\ ~audited /\ audited' = TRUE
    /\ \/ warning' \in Cycles
       \/ Cycles = {} /\ warning' = <<>>
    /\ UNCHANGED <<program, firstEnd, clock, parser>>

Next ==
    \/ \E s \in Sites : Begin(s)
    \/ \E g \in Gor : Send(g) \/ Receive(g) \/ Close(g) \/ Wait(g) \/ End(g)
    \/ Tick \/ Audit

Spec == Init /\ [][Next]_vars

-----------------------------------------------------------------------------
(* Properties.                                                             *)

TypeOK ==
    /\ stage \in [Gor -> {"idle", "begun", "waiting", "moved"}]
    /\ cur \in [Gor -> Sites] /\ \A g \in Gor : cur[g].g = g
    /\ len \in [Chan -> Nat] /\ closed \subseteq Chan /\ begun \in Nat
    /\ firstEnd \in [Sites -> Nat] /\ clock \in Nat
    /\ last \in [Gor -> SUBSET Sites]
    /\ nameOf \in [Chan -> Name \union {Unnamed}]
    /\ unpaired \in [Key -> Nat]
    /\ pend \in [Key -> Seq([g : Gor, t : Nat])]
    /\ act \in [Dir -> [Key -> SUBSET [g : Gor, t : Nat]]]
    /\ blocked \in [Gor -> SUBSET [kind : Dir, key : Key]]
    /\ audited \in BOOLEAN /\ warning \in Seq(Gor)

NamesOf(c) == {s.name : s \in {r \in Sites : r.ch = c}}

\* No other channel has a label of this one.
Private(c) == \A s, t \in Sites : s.ch = c /\ t.name = s.name => t.ch = c

\* The goroutines that could end a wait on the channel.
Ends(c, kind) ==
    {s.g : s \in {r \in Sites : /\ r.ch = c
                                /\ \/ r.kind = Other(kind)
                                   \/ kind = "recv" /\ r.kind = "close"}}

\* The member following the i-th in the cycle.
After(p, i) == IF i = Len(p) THEN 1 ELSE i + 1

\* Where the warning can be trusted: a goroutine with all its operations in
\* regions waits on a channel whose labels are its own and whose other end
\* is used by one goroutine only.
Certain(g) ==
    /\ \A s \in Sites : s.g = g => s.region
    /\ \A w \in blocked[g] : \E c \in Chan :
          /\ w.key \in {c} \union NamesOf(c)
          /\ Private(c)
          /\ \A h, k \in Ends(c, w.kind) : h = k

\* A deadlock warning is true and stays true: when it can be trusted at every
\* edge of its cycle, the goroutines it names wait in every later state,
\* whatever the rest of the program does (deadlockCycleEvent).
CycleIsDeadlock ==
    (\A i \in DOMAIN warning : Certain(warning[i])) =>
       \A i \in DOMAIN warning : stage[warning[i]] = "waiting"

\* The same of every warning does not hold: a goroutine the cycle passes over may
\* come to help (MCDeadlockCycleUnsure.cfg).
EveryCycleIsDeadlock == \A i \in DOMAIN warning : stage[warning[i]] = "waiting"

\* Goroutines that wait in a cycle, each for a channel that only the next could
\* serve and has used, within the window, and which the parser knows by one
\* pointer or one label.
Recent(h, c, kind) ==
    LET T == {t \in Sites : t.g = h /\ t.ch = c /\ t.kind = Other(kind) /\ firstEnd[t] > 0}
    IN  T # {} /\ \A t \in T : clock <= firstEnd[t] + Window

Deadlocked(p) ==
    \A i \in DOMAIN p :
       LET s == cur[p[i]]
       IN  /\ stage[p[i]] = "waiting" /\ s.region
           /\ Ends(s.ch, s.kind) = {p[After(p, i)]}
           /\ Private(s.ch)
           /\ \A r, t \in Sites : r.ch = s.ch /\ t.ch = s.ch => r.name = t.name \/ KeyOf(r) = KeyOf(t)
           /\ Recent(p[After(p, i)], s.ch, s.kind)

Sequences(n) == {p \in [1..n -> Gor] : \A i, j \in 1..n : p[i] = p[j] => i = j}

DeadlockThere == \E n \in 1..Cardinality(Gor) : \E p \in Sequences(n) : Deadlocked(p)

\* A deadlock is reported: the audit gives a warning when there is one among
\* channels that were in use within the window (recordChannelActivity,
\* deadlockCycleEvent).
DeadlockReported ==
    [][audited' # audited /\ DeadlockThere => warning' # <<>>]_vars
=============================================================================
