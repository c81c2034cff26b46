------------------------- MODULE GoroutinesProofs -------------------------
(***************************************************************************)
(* The parser's account of blocking is right for every number of           *)
(* goroutines and events, every filter and every option.                   *)
(*                                                                         *)
(* A goroutine has a reason and a beginning in the parser's maps only      *)
(* while it waits, a candidate only while it is in its lock region.  The   *)
(* time it would be charged for if it were unblocked now, and the time it  *)
(* has been charged for, are together at most the time it spent waiting or *)
(* in a lock region: no instant is charged twice.  A goroutine with a name *)
(* of the workload is introduced before anything else is shown of it.      *)
(***************************************************************************)
EXTENDS Goroutines, TLAPS

Event == {"created", "started", "op", "done", "block", "unblock"}

ShownBlocked(g) == out[g] # <<>> /\ Last(out[g]) = "block"

ReasonInv(g) ==
    /\ blocked[g] # "none" => run[g] = "waiting" /\ g \in interested
    /\ run[g] # "waiting" => why[g] = "none"
    /\ why[g] \in ChanOp /\ g \in interested /\ opt.noChannel = "keep" => blocked[g] = why[g]

\* What an unblocking now would be charged from.
StartInv(g) ==
    /\ blockedAt[g] # Never => run[g] = "waiting" /\ g \in interested /\ blockedAt[g] <= clock
    /\ cand[g] # Never => op[g] = "lock" /\ cand[g] <= clock
    /\ since[g] <= clock
    /\ ShownBlocked(g) =>
          run[g] = "waiting" /\ g \in interested /\ blockedAt[g] # Never /\ blockedAt[g] <= since[g]

TimeInv(g) ==
    /\ shownWait[g] <= total[g]
    /\ total[g] <= covered[g]
    /\ BlockedSince(g) # Never => total[g] + (clock - BlockedSince(g)) <= covered[g]

Still(s) == \A i \in 1..Len(s) - 1 : s[i] = "block" => s[i + 1] = "unblock"

StillInv(g) == Still(out[g])

IInv ==
    /\ TypeOK
    /\ \A g \in Gor : ReasonInv(g) /\ StartInv(g) /\ TimeInv(g) /\ StillInv(g)

-----------------------------------------------------------------------------
(* What the parts of an action do to the parser's state.                   *)

\* A lifecycle event shows the event, or keeps it back.
LEMMA LifecycleEffect ==
  ASSUME TypeOK, NEW g \in Gor, NEW e \in {"created", "started"}, NEW named,
         Lifecycle(g, e, named)
  PROVE  /\ interested' \in {interested, interested \union {g}}
         /\ pending' \in [Gor -> SUBSET {"created", "started"}]
         /\ out' = out \/ out' = [out EXCEPT ![g] = @ \o <<e>>]
<1>1. CASE /\ interested' = interested \union {g}
           /\ pending' = [pending EXCEPT ![g] = {}]
           /\ Emit(g, <<e>>)
  BY <1>1 DEF Emit, TypeOK
<1>2. CASE /\ pending' = [pending EXCEPT ![g] = @ \union {e}]
           /\ UNCHANGED <<interested, out>>
  BY <1>2 DEF TypeOK
<1>3. QED
  BY <1>1, <1>2 DEF Lifecycle

Calm(s) == s \in Seq(Event) /\ \A i \in 1..Len(s) : s[i] # "block"

LEMMA CalmConcat ==
  ASSUME NEW s, Calm(s), NEW t, Calm(t)
  PROVE  Calm(s \o t)
  BY DEF Calm

LEMMA CalmShort ==
  ASSUME NEW e \in Event \ {"block"}
  PROVE  Calm(<<>>) /\ Calm(<<e>>)
  BY DEF Calm, Event

\* An operation shows at most a creation and a start before itself.
LEMMA PendingEffect ==
  ASSUME NEW g \in Gor
  PROVE  Calm(PendingLifecycle(g))
<1>1. Calm(Kept(g, "created")) /\ Calm(Kept(g, "started"))
  BY CalmShort DEF Kept, Event
<1>2. Calm(Kept(g, "created") \o Kept(g, "started"))
  BY <1>1, CalmConcat
<1>3. Calm(<<>>)
  <2>1. "op" \in Event \ {"block"}
    BY DEF Event
  <2>2. QED
    BY <2>1, CalmShort
<1>4. QED
  BY <1>2, <1>3 DEF PendingLifecycle

\* Events after a goroutine that is not shown as blocked leave it alone.
LEMMA EmitStill ==
  ASSUME NEW s \in Seq(Event), Still(s), s = <<>> \/ Last(s) # "block",
         NEW p, Calm(p), NEW e \in Event, NEW t, t = s \o (p \o <<e>>)
  PROVE  t \in Seq(Event) /\ Still(t) /\ Last(t) = e
<1>1. PICK q : q = p \o <<e>>
  OBVIOUS
<1>2. /\ q \in Seq(Event) /\ Len(q) \in Nat /\ Len(q) >= 1 /\ q[Len(q)] = e
      /\ \A i \in 1..Len(q) - 1 : q[i] # "block"
  BY <1>1 DEF Calm
<1>3. QED
  BY <1>1, <1>2 DEF Still, Last

LEMMA EmitOne ==
  ASSUME NEW s \in Seq(Event), Still(s), s = <<>> \/ Last(s) # "block",
         NEW e \in Event, NEW t, t = s \o <<e>>
  PROVE  t \in Seq(Event) /\ Still(t) /\ Last(t) = e
  BY DEF Still, Last

\* An unblocking ends whatever is shown.
LEMMA UnblockStill ==
  ASSUME NEW s \in Seq(Event), Still(s), NEW t, t = s \o <<"unblock">>
  PROVE  t \in Seq(Event) /\ Still(t) /\ Last(t) = "unblock"
  BY DEF Still, Last, Event

-----------------------------------------------------------------------------
LEMMA Initially == Init => IInv
  BY GoroutinesAssumption
  DEF Init, IInv, TypeOK, ReasonInv, StartInv, TimeInv, StillInv, Still, ShownBlocked,
      BlockedSince, Never, Reason, ChanOp

LEMMA TickType ==
  ASSUME TypeOK, Tick
  PROVE  opt' \in Options /\ clock' \in Nat /\ clock' = clock + 1 /\ covered' \in [Gor -> Nat]
  BY DEF Tick, TypeOK

LEMMA EmitType ==
  ASSUME TypeOK, NEW g \in Gor, NEW e \in Seq(Event), Emit(g, e)
  PROVE  out' \in [Gor -> Seq(Event)]
<1>1. PICK t : t = out[g] \o e
  OBVIOUS
<1>2. t \in Seq(Event)
  BY <1>1 DEF TypeOK, Event
<1>3. QED
  BY <1>1, <1>2 DEF Emit, TypeOK, Event

LEMMA EmitOneType ==
  ASSUME TypeOK, NEW g \in Gor, NEW e \in Event, Emit(g, <<e>>)
  PROVE  out' \in [Gor -> Seq(Event)]
<1>1. <<e>> \in Seq(Event)
  OBVIOUS
<1>2. QED
  BY <1>1, EmitType

LEMMA LifecycleType ==
  ASSUME TypeOK, NEW g \in Gor, NEW e \in {"created", "started"}, NEW named,
         Lifecycle(g, e, named)
  PROVE  /\ interested' \subseteq Gor
         /\ pending' \in [Gor -> SUBSET {"created", "started"}]
         /\ out' \in [Gor -> Seq(Event)]
<1>1. out' = out \/ Emit(g, <<e>>)
  BY LifecycleEffect DEF Emit
<1>2. e \in Event
  BY DEF Event
<1>3. out \in [Gor -> Seq(Event)]
  BY DEF TypeOK, Event
<1>4. out' \in [Gor -> Seq(Event)]
  BY <1>1, <1>2, <1>3, EmitOneType
<1>5. QED
  <2>1. interested \subseteq Gor /\ pending \in [Gor -> SUBSET {"created", "started"}]
    BY DEF TypeOK
  <2>2. interested' \subseteq Gor
    BY <2>1 DEF Lifecycle
  <2>3. \/ pending' = [pending EXCEPT ![g] = {}]
        \/ pending' = [pending EXCEPT ![g] = @ \union {e}]
    BY DEF Lifecycle
  <2>4. pending' \in [Gor -> SUBSET {"created", "started"}]
    BY ONLY <2>1, <2>3, g \in Gor, e \in {"created", "started"}
  <2>5. QED
    BY <1>4, <2>2, <2>4

LEMMA BlockShown ==
  ASSUME TypeOK, NEW g \in Gor, NEW reason, NEW start,
         Blocks(g, reason, start) \/ UNCHANGED <<blocked, blockedAt, out>>
  PROVE  out' \in [Gor -> Seq(Event)]
<1>1. "block" \in Event /\ out \in [Gor -> Seq(Event)]
  BY DEF TypeOK, Event
<1>2. QED
  BY <1>1, EmitOneType DEF Blocks

LEMMA BlockEffect ==
  ASSUME TypeOK, NEW g \in Gor, NEW reason \in Reason, NEW start \in Nat,
         Blocks(g, reason, start)
  PROVE  blocked' \in [Gor -> Reason] /\ blockedAt' \in [Gor -> Nat \union {Never}]
<1>1. blocked \in [Gor -> Reason] /\ blockedAt \in [Gor -> Nat \union {Never}]
  BY DEF TypeOK
<1>2. blockedAt' = [blockedAt EXCEPT ![g] = start] \/ blockedAt' = blockedAt
  BY DEF Blocks
<1>3. blocked' = [blocked EXCEPT ![g] = reason]
  BY DEF Blocks
<1>4. QED
  BY <1>1, <1>2, <1>3

LEMMA WaitType ==
  ASSUME TypeOK, NEW g \in Gor, NEW reason \in ChanOp \union {"lock", "other"}, Wait(g, reason)
  PROVE  /\ run' \in [Gor -> {"none", "runnable", "running", "waiting", "gone"}]
         /\ why' \in [Gor -> Reason \union {"other"}] /\ since' \in [Gor -> Nat]
<1>1. /\ run' = [run EXCEPT ![g] = "waiting"]
      /\ run \in [Gor -> {"none", "runnable", "running", "waiting", "gone"}]
  BY DEF Wait, Moves, TypeOK
<1>2. /\ why' = [why EXCEPT ![g] = reason]
      /\ why \in [Gor -> Reason \union {"other"}] /\ reason \in Reason \union {"other"}
  BY DEF Wait, TypeOK, Reason, ChanOp
<1>3. since' = [since EXCEPT ![g] = clock] /\ since \in [Gor -> Nat] /\ clock \in Nat
  BY DEF Wait, TypeOK
<1>4. QED
  BY ONLY <1>1, <1>2, <1>3, g \in Gor

LEMMA TypeStep == IInv /\ [Next]_vars => TypeOK'
<1> SUFFICES ASSUME IInv, [Next]_vars PROVE TypeOK'
  OBVIOUS
<1>0. TypeOK
  BY DEF IInv
<1>1. ASSUME NEW g \in Gor, Create(g) PROVE TypeOK'
  BY <1>0, <1>1, LifecycleType, TickType DEF Create, TypeOK, Moves, Event
<1>2. ASSUME NEW g \in Gor, Start(g) PROVE TypeOK'
  BY <1>0, <1>2, LifecycleType, TickType DEF Start, TypeOK, Moves, Event
<1>3. ASSUME NEW g \in Gor, RoleLog(g) PROVE TypeOK'
  BY <1>0, <1>3, TickType DEF RoleLog, TypeOK
<1>4. ASSUME NEW g \in Gor, Finish(g) PROVE TypeOK'
  BY <1>0, <1>4, TickType DEF Finish, TypeOK, Moves, parser
<1>5. ASSUME NEW g \in Gor, NEW kind \in ChanOp \union {"lock"}, RegionBegin(g, kind)
      PROVE  TypeOK'
  <2>1. PendingLifecycle(g) \o <<"op">> \in Seq(Event)
    <3>1. PICK p : p = PendingLifecycle(g)
      OBVIOUS
    <3>2. p \in Seq(Event)
      BY <3>1, PendingEffect DEF Calm
    <3>3. QED
      BY <3>1, <3>2 DEF Event
  <2>2. out' \in [Gor -> Seq(Event)]
    BY <1>0, <1>5, <2>1, EmitType DEF RegionBegin
  <2>3. interested' \subseteq Gor /\ pending' \in [Gor -> SUBSET {"created", "started"}]
    <3>1. interested \subseteq Gor /\ pending \in [Gor -> SUBSET {"created", "started"}]
      BY <1>0 DEF TypeOK
    <3>2. \/ interested' = interested /\ pending' = pending
          \/ interested' = interested \union {g} /\ pending' = [pending EXCEPT ![g] = {}]
      BY <1>5 DEF RegionBegin, Activate
    <3>3. QED
      BY ONLY <3>1, <3>2, g \in Gor
  <2>4. op' \in [Gor -> Reason] /\ last' \in [Gor -> Reason \ {"lock"}]
    <3>1. op' = [op EXCEPT ![g] = kind] /\ op \in [Gor -> Reason] /\ kind \in Reason
      BY <1>0, <1>5 DEF RegionBegin, TypeOK, Reason, ChanOp
    <3>2. last \in [Gor -> Reason \ {"lock"}]
      BY <1>0 DEF TypeOK
    <3>3. \/ last' = last
          \/ last' = [last EXCEPT ![g] = kind] /\ kind \in Reason \ {"lock"}
      BY <1>5 DEF RegionBegin, Reason, ChanOp
    <3>4. QED
      BY ONLY <3>1, <3>2, <3>3, g \in Gor
  <2>5. cand' \in [Gor -> Nat \union {Never}]
    <3>1. cand \in [Gor -> Nat \union {Never}] /\ clock \in Nat
      BY <1>0 DEF TypeOK
    <3>2. cand' = cand \/ cand' = [cand EXCEPT ![g] = clock]
      BY <1>5 DEF RegionBegin
    <3>3. QED
      BY ONLY <3>1, <3>2, g \in Gor
  <2>6. Tick /\ UNCHANGED <<run, why, since, shownWait, blocked, blockedAt, total>>
    BY <1>5 DEF RegionBegin
  <2>7. opt' \in Options /\ clock' \in Nat /\ covered' \in [Gor -> Nat]
    BY <1>0, <2>6, TickType
  <2>8. QED
    BY ONLY <1>0, <2>2, <2>3, <2>4, <2>5, <2>6, <2>7 DEF TypeOK, Event
<1>6. ASSUME NEW g \in Gor, RegionEnd(g) PROVE TypeOK'
  <2>1. out' \in [Gor -> Seq(Event)]
    <3>1. out' = out \/ Emit(g, <<"done">>)
      BY <1>6 DEF RegionEnd
    <3>2. "done" \in Event /\ out \in [Gor -> Seq(Event)]
      BY <1>0 DEF TypeOK, Event
    <3>3. QED
      BY <1>0, <3>1, <3>2, EmitOneType
  <2>2. op' \in [Gor -> Reason] /\ cand' \in [Gor -> Nat \union {Never}]
    <3>1. op \in [Gor -> Reason] /\ cand \in [Gor -> Nat \union {Never}] /\ "none" \in Reason
      BY <1>0 DEF TypeOK, Reason
    <3>2. op' = [op EXCEPT ![g] = "none"] /\ (cand' = cand \/ cand' = [cand EXCEPT ![g] = Never])
      BY <1>6 DEF RegionEnd
    <3>3. QED
      BY ONLY <3>1, <3>2, g \in Gor
  <2>3. /\ UNCHANGED <<run, why, since, shownWait, interested, pending, last, blocked, blockedAt, total>>
        /\ Tick
    BY <1>6 DEF RegionEnd
  <2>4. /\ opt' \in Options /\ clock' \in Nat /\ covered' \in [Gor -> Nat]
    BY <1>0, <2>3, TickType
  <2>5. QED
    BY ONLY <1>0, <2>1, <2>2, <2>3, <2>4 DEF TypeOK, Event
<1>7. ASSUME NEW g \in Gor, NEW reason \in ChanOp, BlockOnChannel(g, reason) PROVE TypeOK'
  <2>1. \/ Blocks(g, reason, clock)
        \/ UNCHANGED <<blocked, blockedAt, out>>
    BY <1>0, <1>7 DEF BlockOnChannel
  <2>2. out' \in [Gor -> Seq(Event)]
    BY <1>0, <2>1, BlockShown
  <2>3. blocked' \in [Gor -> Reason] /\ blockedAt' \in [Gor -> Nat \union {Never}]
    <3>1. reason \in Reason /\ clock \in Nat
      BY <1>0 DEF TypeOK, Reason, ChanOp
    <3>2. CASE Blocks(g, reason, clock)
      BY <1>0, <3>1, <3>2, BlockEffect
    <3>3. CASE UNCHANGED <<blocked, blockedAt, out>>
      BY <1>0, <3>3 DEF TypeOK
    <3>4. QED
      BY <2>1, <3>2, <3>3
  <2>4. Tick /\ Wait(g, reason) /\ UNCHANGED <<op, shownWait, interested, pending, last, cand, total>>
    BY <1>7 DEF BlockOnChannel
  <2>5. /\ run' \in [Gor -> {"none", "runnable", "running", "waiting", "gone"}]
        /\ why' \in [Gor -> Reason \union {"other"}] /\ since' \in [Gor -> Nat]
    <3>1. reason \in ChanOp \union {"lock", "other"}
      OBVIOUS
    <3>2. QED
      BY <1>0, <2>4, <3>1, WaitType
  <2>6. opt' \in Options /\ clock' \in Nat /\ covered' \in [Gor -> Nat]
    BY <1>0, <2>4, TickType
  <2>7. QED
    BY ONLY <1>0, <2>2, <2>3, <2>4, <2>5, <2>6 DEF TypeOK, Event
<1>8. ASSUME NEW g \in Gor, NEW reason \in {"lock", "other"}, BlockElsewhere(g, reason)
      PROVE  TypeOK'
  <2>1. \/ Blocks(g, "lock", IF cand[g] # Never THEN cand[g] ELSE clock)
        \/ UNCHANGED <<blocked, blockedAt, out>>
    BY <1>0, <1>8 DEF BlockElsewhere
  <2>2. out' \in [Gor -> Seq(Event)]
    BY <1>0, <2>1, BlockShown
  <2>3. blocked' \in [Gor -> Reason] /\ blockedAt' \in [Gor -> Nat \union {Never}]
    <3>1. PICK start : start = IF cand[g] # Never THEN cand[g] ELSE clock
      OBVIOUS
    <3>2. start \in Nat
      BY <1>0, <3>1 DEF TypeOK
    <3>3. QED
      BY <1>0, <2>1, <3>1, <3>2, BlockEffect DEF TypeOK, Reason
  <2>4. Tick /\ Wait(g, reason) /\ UNCHANGED <<op, shownWait, interested, pending, last, cand, total>>
    BY <1>8 DEF BlockElsewhere
  <2>5. /\ run' \in [Gor -> {"none", "runnable", "running", "waiting", "gone"}]
        /\ why' \in [Gor -> Reason \union {"other"}] /\ since' \in [Gor -> Nat]
    <3>1. reason \in ChanOp \union {"lock", "other"}
      OBVIOUS
    <3>2. QED
      BY <1>0, <2>4, <3>1, WaitType
  <2>6. opt' \in Options /\ clock' \in Nat /\ covered' \in [Gor -> Nat]
    BY <1>0, <2>4, TickType
  <2>7. QED
    BY ONLY <1>0, <2>2, <2>3, <2>4, <2>5, <2>6 DEF TypeOK, Event
<1>9. ASSUME NEW g \in Gor, Unblock(g) PROVE TypeOK'
  <2>1. out' \in [Gor -> Seq(Event)]
    <3>1. out' = out \/ Emit(g, <<"unblock">>)
      BY <1>9 DEF Unblock
    <3>2. "unblock" \in Event /\ out \in [Gor -> Seq(Event)]
      BY <1>0 DEF TypeOK, Event
    <3>3. QED
      BY <1>0, <3>1, <3>2, EmitOneType
  <2>2. StartInv(g)
    BY DEF IInv
  <2>3. shownWait' \in [Gor -> Nat]
    BY <1>0, <1>9, <2>2 DEF Unblock, Wakes, StartInv, TypeOK
  <2>4. total' \in [Gor -> Nat]
    <3>1. PICK start : start = BlockedSince(g)
      OBVIOUS
    <3>2. start = Never \/ (start \in Nat /\ start <= clock)
      BY <1>0, <2>2, <3>1 DEF BlockedSince, StartInv, TypeOK
    <3>3. total' = total \/ (start # Never /\ total' = [total EXCEPT ![g] = @ + (clock - start)])
      BY <1>9, <3>1 DEF Unblock, AddBlocked
    <3>4. start # Never => clock - start \in Nat
      BY <1>0, <3>2 DEF TypeOK
    <3>5. PICK d : d = clock - start
      OBVIOUS
    <3>6. CASE total' = total
      BY <1>0, <3>6 DEF TypeOK
    <3>7. CASE d \in Nat /\ total' = [total EXCEPT ![g] = @ + d]
      <4>1. total \in [Gor -> Nat]
        BY <1>0 DEF TypeOK
      <4>2. QED
        BY ONLY <3>7, <4>1, g \in Gor
    <3>8. QED
      BY <3>3, <3>4, <3>5, <3>6, <3>7
  <2>5. cand' \in [Gor -> Nat \union {Never}] /\ blockedAt' \in [Gor -> Nat \union {Never}]
        /\ blocked' \in [Gor -> Reason]
    <3>1. /\ cand \in [Gor -> Nat \union {Never}] /\ blockedAt \in [Gor -> Nat \union {Never}]
          /\ blocked \in [Gor -> Reason] /\ "none" \in Reason
      BY <1>0 DEF TypeOK, Reason
    <3>2. ForgetWait(g) \/ UNCHANGED <<cand, blockedAt, blocked>>
      BY <1>9 DEF Unblock
    <3>3. cand' = cand \/ cand' = [cand EXCEPT ![g] = Never]
      BY <3>2 DEF ForgetWait
    <3>4. blockedAt' = blockedAt \/ blockedAt' = [blockedAt EXCEPT ![g] = Never]
      BY <3>2 DEF ForgetWait
    <3>5. blocked' = blocked \/ blocked' = [blocked EXCEPT ![g] = "none"]
      BY <3>2 DEF ForgetWait
    <3>6. QED
      BY ONLY <3>1, <3>3, <3>4, <3>5, g \in Gor
  <2>6. QED
    <3>1. /\ run' \in [Gor -> {"none", "runnable", "running", "waiting", "gone"}]
          /\ why' \in [Gor -> Reason \union {"other"}]
          /\ UNCHANGED <<op, since, interested, pending, last>>
      BY <1>0, <1>9 DEF Unblock, Wakes, Moves, TypeOK, Reason
    <3>2. opt' \in Options /\ clock' \in Nat /\ covered' \in [Gor -> Nat]
      BY <1>0, <1>9, TickType DEF Unblock
    <3>3. QED
      BY ONLY <1>0, <2>1, <2>3, <2>4, <2>5, <3>1, <3>2 DEF TypeOK, Event
<1>10. CASE UNCHANGED vars
  BY <1>0, <1>10 DEF vars, program, parser, TypeOK
<1>11. QED
  BY <1>0, <1>1, <1>2, <1>3, <1>4, <1>5, <1>6, <1>7, <1>8, <1>9, <1>10 DEF Next

-----------------------------------------------------------------------------
(* A step of g, and what it does to each goroutine.                        *)

Step(g) ==
    \/ Create(g) \/ Start(g) \/ RoleLog(g) \/ Finish(g)
    \/ \E kind \in ChanOp \union {"lock"} : RegionBegin(g, kind)
    \/ RegionEnd(g)
    \/ \E reason \in ChanOp : BlockOnChannel(g, reason)
    \/ \E reason \in {"lock", "other"} : BlockElsewhere(g, reason)
    \/ Unblock(g)

Inv(h) == ReasonInv(h) /\ StartInv(h) /\ TimeInv(h) /\ StillInv(h)

SameWait(h) ==
    /\ why'[h] = why[h] /\ since'[h] = since[h] /\ shownWait'[h] = shownWait[h]
    /\ blocked'[h] = blocked[h] /\ blockedAt'[h] = blockedAt[h] /\ total'[h] = total[h]

Same(h) ==
    /\ SameWait(h)
    /\ run'[h] = run[h] /\ op'[h] = op[h] /\ cand'[h] = cand[h] /\ out'[h] = out[h]
    /\ h \in interested' <=> h \in interested

LEMMA TickCounts ==
  ASSUME TypeOK, Tick, NEW h \in Gor
  PROVE  /\ clock' = clock + 1 /\ clock \in Nat /\ opt' = opt
         /\ covered[h] \in Nat /\ covered'[h] \in {covered[h], covered[h] + 1}
         /\ run'[h] = "waiting" \/ op'[h] = "lock" => covered'[h] = covered[h] + 1
  BY DEF Tick, TypeOK

\* A goroutine that the step does not touch keeps its part: the clock and the
\* time it covers move together.
LEMMA SameKeeps ==
  ASSUME TypeOK, TypeOK', Tick, NEW h \in Gor, Inv(h), Same(h)
  PROVE  Inv(h)'
<1>1. ReasonInv(h)'
  BY TickCounts DEF Inv, ReasonInv, Same, SameWait
<1>2. StartInv(h)'
  <2>1. clock \in Nat /\ clock' = clock + 1
    BY TickCounts
  <2>2. /\ cand[h] \in Nat \union {Never} /\ blockedAt[h] \in Nat \union {Never}
        /\ since[h] \in Nat
    BY DEF TypeOK
  <2>3. ShownBlocked(h)' <=> ShownBlocked(h)
    BY DEF Same, ShownBlocked
  <2>4. StartInv(h) /\ Same(h)
    BY DEF Inv
  <2>5. QED
    BY ONLY <2>1, <2>2, <2>3, <2>4 DEF StartInv, Same, SameWait, Never
<1>3. TimeInv(h)'
  <2>1. BlockedSince(h)' = BlockedSince(h)
    BY DEF Same, SameWait, BlockedSince
  <2>2. BlockedSince(h) # Never => run'[h] = "waiting" \/ op'[h] = "lock"
    BY DEF Inv, StartInv, Same, BlockedSince
  <2>3. total[h] \in Nat /\ (BlockedSince(h) = Never \/ BlockedSince(h) \in Nat)
    BY DEF TypeOK, BlockedSince
  <2>4. QED
    BY <2>1, <2>2, <2>3, TickCounts DEF Inv, TimeInv, Same, SameWait
<1>4. StillInv(h)'
  BY DEF Inv, StillInv, Still, Same
<1>5. QED
  BY <1>1, <1>2, <1>3, <1>4 DEF Inv

LEMMA LifecycleOther ==
  ASSUME TypeOK, NEW g \in Gor, NEW e \in {"created", "started"}, NEW named,
         Lifecycle(g, e, named), NEW h \in Gor, h # g
  PROVE  out'[h] = out[h] /\ (h \in interested' <=> h \in interested)
  BY DEF Lifecycle, Emit, TypeOK

\* Every action is of one goroutine.
LEMMA Others ==
  ASSUME TypeOK, NEW g \in Gor, Step(g), NEW h \in Gor, h # g
  PROVE  Same(h) /\ Tick
<1> USE DEF Same, SameWait
<1>1. CASE Create(g)
  <2>1. out'[h] = out[h] /\ (h \in interested' <=> h \in interested)
    BY <1>1, LifecycleOther DEF Create
  <2>2. /\ run' = [run EXCEPT ![g] = "runnable"]
        /\ UNCHANGED <<op, why, since, shownWait, last, cand, blocked, blockedAt, total>>
        /\ Tick
    BY <1>1 DEF Create, Moves
  <2>3. QED
    BY <2>1, <2>2 DEF TypeOK
<1>2. CASE Start(g)
  <2>1. out'[h] = out[h] /\ (h \in interested' <=> h \in interested)
    BY <1>2, LifecycleOther DEF Start
  <2>2. /\ run' = [run EXCEPT ![g] = "running"]
        /\ UNCHANGED <<op, why, since, shownWait, last, cand, blocked, blockedAt, total>>
        /\ Tick
    BY <1>2 DEF Start, Moves
  <2>3. QED
    BY <2>1, <2>2 DEF TypeOK
<1>3. CASE RoleLog(g)
  BY <1>3 DEF RoleLog, TypeOK
<1>4. CASE Finish(g)
  BY <1>4 DEF Finish, Moves, parser, TypeOK
<1>5. ASSUME NEW kind \in ChanOp \union {"lock"}, RegionBegin(g, kind)
      PROVE  Same(h) /\ Tick
  BY <1>5 DEF RegionBegin, Activate, Emit, TypeOK
<1>6. CASE RegionEnd(g)
  BY <1>6 DEF RegionEnd, Emit, TypeOK
<1>7. ASSUME NEW reason \in ChanOp, BlockOnChannel(g, reason) PROVE Same(h) /\ Tick
  BY <1>7 DEF BlockOnChannel, Wait, Moves, Blocks, Emit, TypeOK
<1>8. ASSUME NEW reason \in {"lock", "other"}, BlockElsewhere(g, reason)
      PROVE  Same(h) /\ Tick
  BY <1>8 DEF BlockElsewhere, Wait, Moves, Blocks, Emit, TypeOK
<1>9. CASE Unblock(g)
  BY <1>9 DEF Unblock, Wakes, Moves, AddBlocked, ForgetWait, Emit, TypeOK
<1>10. QED
  BY <1>1, <1>2, <1>3, <1>4, <1>5, <1>6, <1>7, <1>8, <1>9 DEF Step

\* A goroutine that does not wait before or after its step.
LEMMA AwakeKeeps ==
  ASSUME TypeOK, TypeOK', Tick, NEW g \in Gor, Inv(g), SameWait(g),
         run[g] # "waiting", run'[g] # "waiting",
         \/ cand'[g] = Never
         \/ op'[g] = "lock" /\ cand'[g] \in {cand[g], clock}
         \/ op'[g] = op[g] /\ cand'[g] = cand[g],
         NEW p, Calm(p), NEW e \in Event, e # "block",
         out'[g] = out[g] \/ out'[g] = out[g] \o (p \o <<e>>)
  PROVE  Inv(g)'
<1>1. ReasonInv(g)'
  BY DEF Inv, ReasonInv, SameWait, ChanOp
<1>2. out[g] \in Seq(Event) /\ out'[g] \in Seq(Event) /\ Still(out[g])
      /\ (out[g] = <<>> \/ Last(out[g]) # "block")
  BY DEF TypeOK, Event, Inv, StartInv, StillInv, ShownBlocked
<1>3. Still(out'[g]) /\ (out'[g] = <<>> \/ Last(out'[g]) # "block")
  <2>1. CASE out'[g] = out[g]
    BY <1>2, <2>1
  <2>2. CASE out'[g] = out[g] \o (p \o <<e>>)
    <3>1. PICK t : t = out'[g]
      OBVIOUS
    <3>2. PICK u : u = out[g]
      OBVIOUS
    <3>3. t = u \o (p \o <<e>>) /\ u \in Seq(Event) /\ Still(u) /\ (u = <<>> \/ Last(u) # "block")
      BY <1>2, <2>2, <3>1, <3>2
    <3>4. Still(t) /\ Last(t) = e
      BY <3>3, EmitStill
    <3>5. QED
      BY <3>1, <3>4
  <2>3. QED
    BY <2>1, <2>2
<1>4. StartInv(g)'
  <2>1. cand'[g] # Never => op'[g] = "lock" /\ cand'[g] <= clock
    BY DEF Inv, StartInv, TypeOK
  <2>2. cand'[g] \in Nat \union {Never} /\ since[g] \in Nat
    BY DEF TypeOK
  <2>3. QED
    BY <1>3, <2>1, <2>2, TickCounts DEF Inv, StartInv, SameWait, ShownBlocked
<1>5. TimeInv(g)'
  <2>1. blockedAt[g] = Never /\ blockedAt'[g] = Never
    BY DEF Inv, StartInv, SameWait
  <2>2. BlockedSince(g)' = cand'[g] /\ BlockedSince(g) = cand[g]
    BY <2>1 DEF BlockedSince
  <2>3. \/ cand'[g] = Never
        \/ op'[g] = "lock" /\ cand'[g] = clock
        \/ op'[g] = "lock" /\ cand'[g] = cand[g] /\ cand[g] \in Nat
    BY DEF Inv, StartInv, TypeOK
  <2>4. total[g] \in Nat /\ shownWait[g] \in Nat
    BY DEF TypeOK
  <2>5. /\ shownWait[g] <= total[g] /\ total[g] <= covered[g]
        /\ cand[g] # Never => total[g] + (clock - cand[g]) <= covered[g]
    BY <2>2 DEF Inv, TimeInv
  <2>6. total'[g] = total[g] /\ shownWait'[g] = shownWait[g]
    BY DEF SameWait
  <2>7. total[g] <= covered'[g]
    BY <2>4, <2>5, TickCounts
  <2>8. cand'[g] # Never => total[g] + (clock + 1 - cand'[g]) <= covered'[g]
    <3>1. clock \in Nat /\ covered[g] \in Nat /\ covered'[g] \in {covered[g], covered[g] + 1}
      BY TickCounts
    <3>2. op'[g] = "lock" => covered'[g] = covered[g] + 1
      BY TickCounts
    <3>3. CASE op'[g] = "lock" /\ cand'[g] = clock
      BY ONLY <3>1, <3>2, <3>3, <2>4, <2>5
    <3>4. CASE op'[g] = "lock" /\ cand'[g] = cand[g] /\ cand[g] \in Nat
      BY ONLY <3>1, <3>2, <3>4, <2>4, <2>5 DEF Never
    <3>5. QED
      BY <2>3, <3>3, <3>4
  <2>9. QED
    <3>1. shownWait'[g] <= total'[g] /\ total'[g] <= covered'[g]
      BY <2>5, <2>6, <2>7
    <3>2. cand'[g] # Never => total'[g] + (clock' - cand'[g]) <= covered'[g]
      <4>1. clock' = clock + 1 /\ clock \in Nat
        BY TickCounts
      <4>2. total'[g] = total[g]
        BY <2>6
      <4>3. QED
        <5>1. cand'[g] \in Nat \union {Never} /\ total[g] \in Nat /\ covered'[g] \in Nat
          BY DEF TypeOK
        <5>2. CASE cand'[g] \in Nat
          BY ONLY <2>8, <4>1, <4>2, <5>1, <5>2
        <5>3. CASE cand'[g] = Never
          BY <5>3
        <5>4. QED
          BY <5>1, <5>2, <5>3
    <3>3. BlockedSince(g)' = cand'[g]
      BY <2>2
    <3>4. QED
      BY <3>1, <3>2, <3>3 DEF TimeInv
<1>6. QED
  BY <1>1, <1>3, <1>4, <1>5 DEF Inv, StillInv

LEMMA LifecycleActor ==
  ASSUME TypeOK, NEW g \in Gor, NEW e \in {"created", "started"}, NEW named,
         Lifecycle(g, e, named)
  PROVE  out'[g] = out[g] \/ out'[g] = out[g] \o (<<>> \o <<e>>)
<1>1. <<>> \o <<e>> = <<e>>
  OBVIOUS
<1>2. out' = out \/ out' = [out EXCEPT ![g] = @ \o <<e>>]
  BY LifecycleEffect
<1>3. QED
  BY <1>1, <1>2 DEF TypeOK

\* The steps of a goroutine that is awake.
LEMMA AwakeSteps ==
  ASSUME TypeOK, TypeOK', NEW g \in Gor, Inv(g),
         \/ Create(g) \/ Start(g) \/ RoleLog(g) \/ Finish(g)
         \/ \E kind \in ChanOp \union {"lock"} : RegionBegin(g, kind)
         \/ RegionEnd(g)
  PROVE  Inv(g)'
<1>0. Calm(<<>>) /\ {"created", "started", "op", "done"} \subseteq Event
  <2>1. "op" \in Event \ {"block"}
    BY DEF Event
  <2>2. QED
    BY <2>1, CalmShort DEF Event
<1>1. CASE Create(g)
  <2>1. out'[g] = out[g] \/ out'[g] = out[g] \o (<<>> \o <<"created">>)
    BY <1>1, LifecycleActor DEF Create
  <2>2. SameWait(g) /\ Tick /\ run[g] = "none" /\ run'[g] = "runnable"
        /\ op'[g] = op[g] /\ cand'[g] = cand[g]
    BY <1>1 DEF Create, Moves, SameWait, TypeOK
  <2>3. QED
    BY <1>0, <2>1, <2>2, AwakeKeeps
<1>2. CASE Start(g)
  <2>1. out'[g] = out[g] \/ out'[g] = out[g] \o (<<>> \o <<"started">>)
    BY <1>2, LifecycleActor DEF Start
  <2>2. SameWait(g) /\ Tick /\ run[g] = "runnable" /\ run'[g] = "running"
        /\ op'[g] = op[g] /\ cand'[g] = cand[g]
    BY <1>2 DEF Start, Moves, SameWait, TypeOK
  <2>3. QED
    BY <1>0, <2>1, <2>2, AwakeKeeps
<1>3. CASE RoleLog(g)
  <2>1. SameWait(g) /\ Tick /\ run[g] = "running" /\ run'[g] = "running"
        /\ op'[g] = op[g] /\ cand'[g] = cand[g] /\ out'[g] = out[g]
    BY <1>3 DEF RoleLog, SameWait
  <2>2. QED
    BY <1>0, <2>1, AwakeKeeps
<1>4. CASE Finish(g)
  <2>1. SameWait(g) /\ Tick /\ run[g] = "running" /\ run'[g] = "gone"
        /\ op'[g] = op[g] /\ cand'[g] = cand[g] /\ out'[g] = out[g]
    BY <1>4 DEF Finish, Moves, parser, SameWait, TypeOK
  <2>2. QED
    BY <1>0, <2>1, AwakeKeeps
<1>5. ASSUME NEW kind \in ChanOp \union {"lock"}, RegionBegin(g, kind) PROVE Inv(g)'
  <2>1. out'[g] = out[g] \o (PendingLifecycle(g) \o <<"op">>)
    BY <1>5 DEF RegionBegin, Emit, TypeOK
  <2>2. SameWait(g) /\ Tick /\ run[g] = "running" /\ run'[g] = "running" /\ op[g] = "none"
    BY <1>5 DEF RegionBegin, SameWait
  <2>3. cand[g] = Never
    BY <2>2 DEF Inv, StartInv
  <2>4. cand'[g] = Never \/ (op'[g] = "lock" /\ cand'[g] = clock)
    BY <1>5, <2>3 DEF RegionBegin, TypeOK
  <2>5. Calm(PendingLifecycle(g))
    BY PendingEffect
  <2>6. QED
    BY <1>0, <2>1, <2>2, <2>4, <2>5, AwakeKeeps
<1>6. CASE RegionEnd(g)
  <2>1. out'[g] = out[g] \/ out'[g] = out[g] \o (<<>> \o <<"done">>)
    <3>1. <<>> \o <<"done">> = <<"done">>
      OBVIOUS
    <3>2. QED
      BY <1>6, <3>1 DEF RegionEnd, Emit, TypeOK
  <2>2. SameWait(g) /\ Tick /\ run[g] = "running" /\ run'[g] = "running"
    BY <1>6 DEF RegionEnd, SameWait
  <2>3. cand'[g] = Never
    BY <1>6 DEF RegionEnd, Inv, StartInv, TypeOK
  <2>4. QED
    BY <1>0, <2>1, <2>2, <2>3, AwakeKeeps
<1>7. QED
  BY <1>1, <1>2, <1>3, <1>4, <1>5, <1>6

\* A wait begins.  It may be counted from the beginning of the lock region.
LEMMA BlockKeeps ==
  ASSUME TypeOK, TypeOK', Tick, NEW g \in Gor, Inv(g), NEW reason \in Reason \union {"other"},
         Wait(g, reason), UNCHANGED <<op, shownWait, interested, cand, total>>,
         NEW start \in Nat, start = clock \/ (start = cand[g] /\ cand[g] # Never),
         \/ /\ Blocks(g, IF reason = "other" THEN "lock" ELSE reason, start)
            /\ g \in interested
         \/ /\ UNCHANGED <<blocked, blockedAt, out>>
            /\ ~(reason \in ChanOp /\ g \in interested /\ opt.noChannel = "keep")
  PROVE  Inv(g)'
<1> DEFINE shown == IF reason = "other" THEN "lock" ELSE reason
<1>1. /\ run[g] = "running" /\ run'[g] = "waiting" /\ why'[g] = reason /\ since'[g] = clock
      /\ op'[g] = op[g] /\ shownWait'[g] = shownWait[g] /\ total'[g] = total[g]
      /\ cand'[g] = cand[g] /\ interested' = interested
  BY DEF Wait, Moves, TypeOK
<1>2. blockedAt[g] = Never /\ ~ShownBlocked(g) /\ blocked[g] = "none"
  BY <1>1 DEF Inv, ReasonInv, StartInv
<1>3. \/ /\ blocked'[g] = shown /\ blockedAt'[g] = start
         /\ out'[g] = out[g] \o <<"block">> /\ g \in interested
      \/ /\ blocked'[g] = "none" /\ blockedAt'[g] = Never /\ out'[g] = out[g]
         /\ ~(reason \in ChanOp /\ g \in interested /\ opt.noChannel = "keep")
  BY <1>2 DEF Blocks, Emit, TypeOK
<1>4. ReasonInv(g)'
  BY <1>1, <1>3, TickCounts DEF ReasonInv, ChanOp
<1>5. Still(out'[g]) /\ (out'[g] = <<>> \/ Last(out'[g]) # "block" \/ blockedAt'[g] = start)
  <2>1. out[g] \in Seq(Event) /\ Still(out[g]) /\ (out[g] = <<>> \/ Last(out[g]) # "block")
    BY <1>2 DEF TypeOK, Event, Inv, StillInv, ShownBlocked
  <2>2. CASE out'[g] = out[g]
    BY <2>1, <2>2
  <2>3. CASE out'[g] = out[g] \o <<"block">> /\ blockedAt'[g] = start
    <3>1. "block" \in Event
      BY DEF Event
    <3>2. QED
      BY <2>1, <2>3, <3>1, EmitOne
  <2>4. QED
    BY <1>3, <2>2, <2>3
<1>6. cand[g] # Never => op[g] = "lock" /\ cand[g] <= clock
  BY DEF Inv, StartInv
<1>7. start <= clock /\ clock' = clock + 1 /\ clock \in Nat
  BY <1>6, TickCounts
<1>8. blockedAt'[g] = Never \/ (blockedAt'[g] = start /\ g \in interested)
  BY <1>3
<1>9. StartInv(g)'
  <2>1. cand[g] \in Nat \union {Never}
    BY DEF TypeOK
  <2>2. ShownBlocked(g)' => blockedAt'[g] # Never
    BY <1>5 DEF ShownBlocked, Never
  <2>3. QED
    BY <1>1, <1>6, <1>7, <1>8, <2>1, <2>2 DEF StartInv
<1>10. TimeInv(g)'
  <2>1. total[g] \in Nat /\ shownWait[g] \in Nat /\ covered[g] \in Nat /\ cand[g] \in Nat \union {Never}
    BY DEF TypeOK
  <2>2. /\ shownWait[g] <= total[g] /\ total[g] <= covered[g]
        /\ cand[g] # Never => total[g] + (clock - cand[g]) <= covered[g]
    BY <1>2 DEF Inv, TimeInv, BlockedSince
  <2>3. covered'[g] = covered[g] + 1
    BY <1>1, TickCounts
  <2>4. total[g] + (clock + 1 - start) <= covered'[g]
    BY <1>7, <2>1, <2>2, <2>3
  <2>5. cand[g] # Never => total[g] + (clock + 1 - cand[g]) <= covered'[g]
    BY <1>7, <2>1, <2>2, <2>3
  <2>6. PICK b : b = BlockedSince(g)'
    OBVIOUS
  <2>7. b = start \/ b = cand[g]
    BY <1>1, <1>8, <2>6 DEF BlockedSince
  <2>8. b # Never => total'[g] + (clock' - b) <= covered'[g]
    BY <1>1, <1>7, <2>1, <2>4, <2>5, <2>7
  <2>9. QED
    BY <1>1, <2>1, <2>2, <2>3, <2>6, <2>8 DEF TimeInv
<1>11. QED
  BY <1>4, <1>5, <1>9, <1>10 DEF Inv, StillInv

\* A wait ends.  What it is charged for was set aside by TimeInv.
LEMMA UnblockKeeps ==
  ASSUME TypeOK, TypeOK', NEW g \in Gor, Inv(g), Unblock(g)
  PROVE  Inv(g)'
<1>1. /\ Tick /\ run[g] = "waiting" /\ run'[g] = "runnable" /\ why'[g] = "none"
      /\ op'[g] = op[g] /\ since'[g] = since[g] /\ interested' = interested
  BY DEF Unblock, Wakes, Moves, TypeOK
<1>2. out[g] \in Seq(Event) /\ Still(out[g])
  BY DEF TypeOK, Event, Inv, StillInv
<1>3. shownWait'[g] = IF ShownBlocked(g) THEN shownWait[g] + (clock - since[g]) ELSE shownWait[g]
  BY DEF Unblock, Wakes, ShownBlocked, TypeOK
<1>4. /\ total[g] \in Nat /\ shownWait[g] \in Nat /\ since[g] \in Nat /\ covered[g] \in Nat
      /\ cand[g] \in Nat \union {Never} /\ blockedAt[g] \in Nat \union {Never}
  BY DEF TypeOK
<1>5. /\ clock' = clock + 1 /\ clock \in Nat /\ covered'[g] >= covered[g]
      /\ op'[g] = "lock" => covered'[g] = covered[g] + 1
  BY <1>1, <1>4, TickCounts
<1>6. CASE g \notin interested
  <2>1. UNCHANGED <<total, blockedAt, blocked, cand, out>>
    BY <1>6 DEF Unblock
  <2>2. blockedAt[g] = Never /\ ~ShownBlocked(g)
    BY <1>6 DEF Inv, StartInv
  <2>3. ReasonInv(g)'
    BY <1>1, <1>6, <2>1 DEF Inv, ReasonInv, ChanOp
  <2>4. cand[g] # Never => op[g] = "lock" /\ cand[g] <= clock
    BY DEF Inv, StartInv
  <2>5. StartInv(g)'
    <3>1. since'[g] <= clock'
      BY <1>1, <1>4, <1>5 DEF Inv, StartInv
    <3>2. ~ShownBlocked(g)'
      BY <2>1, <2>2 DEF ShownBlocked
    <3>3. cand'[g] # Never => op'[g] = "lock" /\ cand'[g] <= clock'
      BY <1>1, <1>4, <1>5, <2>1, <2>4
    <3>4. QED
      BY <2>1, <2>2, <3>1, <3>2, <3>3 DEF StartInv
  <2>6. TimeInv(g)'
    <3>1. BlockedSince(g)' = cand[g] /\ BlockedSince(g) = cand[g]
      BY <2>1, <2>2 DEF BlockedSince
    <3>2. /\ shownWait[g] <= total[g] /\ total[g] <= covered[g]
          /\ cand[g] # Never => total[g] + (clock - cand[g]) <= covered[g]
      BY <3>1 DEF Inv, TimeInv
    <3>3. covered'[g] \in Nat
      BY DEF TypeOK
    <3>4. total'[g] = total[g] /\ shownWait'[g] = shownWait[g] /\ op'[g] = op[g]
      BY <1>1, <1>3, <2>1, <2>2
    <3>5. total[g] <= covered'[g]
      BY <1>4, <1>5, <3>2, <3>3
    <3>6. cand[g] # Never => total[g] + (clock' - cand[g]) <= covered'[g]
      BY <1>4, <1>5, <2>4, <3>2, <3>3, <3>4
    <3>7. QED
      BY <3>1, <3>2, <3>4, <3>5, <3>6 DEF TimeInv
  <2>7. QED
    BY <1>2, <2>1, <2>3, <2>5, <2>6 DEF Inv, StillInv
<1>7. CASE g \in interested
  <2>1. blockedAt'[g] = Never /\ blocked'[g] = "none" /\ cand'[g] = Never
    BY <1>7 DEF Unblock, ForgetWait, TypeOK
  <2>2. out'[g] = out[g] \o <<"unblock">>
    BY <1>7 DEF Unblock, Emit, TypeOK
  <2>3. Still(out'[g]) /\ Last(out'[g]) = "unblock"
    BY <1>2, <2>2, UnblockStill
  <2>4. ReasonInv(g)'
    BY <1>1, <2>1 DEF ReasonInv, ChanOp
  <2>5. StartInv(g)'
    <3>1. since'[g] <= clock'
      BY <1>1, <1>4, <1>5 DEF Inv, StartInv
    <3>2. ~ShownBlocked(g)'
      BY <2>3 DEF ShownBlocked
    <3>3. QED
      BY <2>1, <3>1, <3>2 DEF StartInv
  <2>6. TimeInv(g)'
    <3>1. PICK start : start = BlockedSince(g)
      OBVIOUS
    <3>2. start \in Nat \union {Never} /\ start <= clock
      BY <1>4, <1>5, <3>1 DEF Inv, StartInv, BlockedSince, Never
    <3>3. total'[g] = IF start = Never THEN total[g] ELSE total[g] + (clock - start)
      BY <1>7, <3>1 DEF Unblock, AddBlocked, TypeOK
    <3>4. /\ shownWait[g] <= total[g] /\ total[g] <= covered[g]
          /\ start # Never => total[g] + (clock - start) <= covered[g]
      BY <3>1 DEF Inv, TimeInv
    <3>5. ShownBlocked(g) => start # Never /\ start <= since[g] /\ since[g] <= clock
      BY <3>1 DEF Inv, StartInv, BlockedSince
    <3>6. covered'[g] \in Nat
      BY DEF TypeOK
    <3>7. total'[g] <= covered'[g]
      BY <1>4, <1>5, <3>2, <3>3, <3>4, <3>6
    <3>8. shownWait'[g] <= total'[g]
      <4>1. CASE ShownBlocked(g)
        BY <1>3, <1>4, <1>5, <3>2, <3>3, <3>4, <3>5, <4>1
      <4>2. CASE ~ShownBlocked(g)
        BY <1>3, <1>4, <1>5, <3>2, <3>3, <3>4, <4>2
      <4>3. QED
        BY <4>1, <4>2
    <3>9. BlockedSince(g)' = Never
      BY <2>1 DEF BlockedSince
    <3>10. QED
      BY <3>7, <3>8, <3>9 DEF TimeInv
  <2>7. QED
    BY <2>3, <2>4, <2>5, <2>6 DEF Inv, StillInv
<1>8. QED
  BY <1>6, <1>7

-----------------------------------------------------------------------------
LEMMA ActorKeeps ==
  ASSUME TypeOK, TypeOK', NEW g \in Gor, Inv(g), Step(g)
  PROVE  Inv(g)'
<1>1. CASE \/ Create(g) \/ Start(g) \/ RoleLog(g) \/ Finish(g)
           \/ \E kind \in ChanOp \union {"lock"} : RegionBegin(g, kind)
           \/ RegionEnd(g)
  BY <1>1, AwakeSteps
<1>2. ASSUME NEW reason \in ChanOp, BlockOnChannel(g, reason) PROVE Inv(g)'
  <2>1. /\ Tick /\ Wait(g, reason) /\ UNCHANGED <<op, shownWait, interested, cand, total>>
        /\ reason \in Reason \union {"other"} /\ reason # "other"
    BY <1>2 DEF BlockOnChannel, ChanOp, Reason
  <2>2. \/ Blocks(g, reason, clock) /\ g \in interested
        \/ /\ UNCHANGED <<blocked, blockedAt, out>>
           /\ ~(reason \in ChanOp /\ g \in interested /\ opt.noChannel = "keep")
    BY <1>2 DEF BlockOnChannel
  <2>3. clock \in Nat
    BY DEF TypeOK
  <2>4. QED
    BY <2>1, <2>2, <2>3, BlockKeeps
<1>3. ASSUME NEW reason \in {"lock", "other"}, BlockElsewhere(g, reason) PROVE Inv(g)'
  <2>1. PICK start : start = IF cand[g] # Never THEN cand[g] ELSE clock
    OBVIOUS
  <2>2. start \in Nat /\ (start = clock \/ (start = cand[g] /\ cand[g] # Never))
    BY <2>1 DEF TypeOK
  <2>3. /\ Tick /\ Wait(g, reason) /\ UNCHANGED <<op, shownWait, interested, cand, total>>
        /\ reason \in Reason \union {"other"} /\ ~(reason \in ChanOp)
        /\ (IF reason = "other" THEN "lock" ELSE reason) = "lock"
    BY <1>3 DEF BlockElsewhere, ChanOp, Reason
  <2>4. \/ Blocks(g, "lock", start) /\ g \in interested
        \/ UNCHANGED <<blocked, blockedAt, out>>
    BY <1>3, <2>1 DEF BlockElsewhere
  <2>5. QED
    BY <2>2, <2>3, <2>4, BlockKeeps
<1>4. CASE Unblock(g)
  BY <1>4, UnblockKeeps
<1>5. QED
  BY <1>1, <1>2, <1>3, <1>4 DEF Step

LEMMA Preserved == IInv /\ [Next]_vars => IInv'
<1> SUFFICES ASSUME IInv, [Next]_vars PROVE IInv'
  OBVIOUS
<1>1. TypeOK /\ TypeOK' /\ \A h \in Gor : Inv(h)
  BY TypeStep DEF IInv, Inv
<1>2. \A h \in Gor : Inv(h)'
  <2>1. ASSUME NEW g \in Gor, Step(g), NEW h \in Gor PROVE Inv(h)'
    <3>1. CASE h = g
      BY <1>1, <2>1, <3>1, ActorKeeps
    <3>2. CASE h # g
      BY <1>1, <2>1, <3>2, Others, SameKeeps
    <3>3. QED
      BY <3>1, <3>2
  <2>2. CASE UNCHANGED vars
    BY <1>1, <2>2
    DEF vars, program, parser, Inv, ReasonInv, StartInv, TimeInv, StillInv, Still,
        ShownBlocked, BlockedSince
  <2>3. Next => \E g \in Gor : Step(g)
    BY DEF Next, Step
  <2>4. QED
    BY <2>1, <2>2, <2>3
<1>3. QED
  BY <1>1, <1>2 DEF IInv, Inv

\* The parser's account of each goroutine agrees with what the program does,
\* in every reachable state: the reason and the beginning of a block are there
\* only during the wait, a candidate only during the lock region, and the time
\* charged and to be charged fits in the time spent waiting or at a lock.
THEOREM Invariance == Spec => []IInv
  BY Initially, Preserved, PTL DEF Spec

\* ParseState keeps the types its maps are declared with, for any program.
THEOREM TypeCorrect == Spec => []TypeOK
<1>1. IInv => TypeOK
  BY DEF IInv
<1>2. QED
  BY <1>1, Invariance, PTL

\* Who the audit names as blocked is waiting, and who waits for a channel is
\* named, for any number of goroutines.
THEOREM BlockedAreWaiting == Spec => []BlockedIsWaiting
<1>1. IInv => BlockedIsWaiting
  BY DEF IInv, ReasonInv, BlockedIsWaiting
<1>2. QED
  BY <1>1, Invariance, PTL

\* A goroutine shown as blocked is next shown as unblocked, however long the
\* trace.
THEOREM ShownBlockedStaysStill == Spec => []ShownBlockedIsStill
<1>1. IInv => ShownBlockedIsStill
  BY DEF IInv, StillInv, Still, ShownBlockedIsStill
<1>2. QED
  BY <1>1, Invariance, PTL

\* addBlockedDuration counts no wait twice and leaves none out that was shown,
\* however long the trace.
THEOREM BlockedTimeIsExact == Spec => []BlockedTimeExact
<1>1. IInv => BlockedTimeExact
  <2> SUFFICES ASSUME IInv, NEW g \in Gor
               PROVE  /\ shownWait[g] <= total[g]
                      /\ total[g] + (IF blockedAt[g] # Never THEN clock - blockedAt[g] ELSE 0)
                            <= covered[g]
    BY DEF BlockedTimeExact
  <2>1. shownWait[g] <= total[g] /\ total[g] <= covered[g] /\ total[g] \in Nat
    BY DEF IInv, TimeInv, TypeOK
  <2>2. blockedAt[g] # Never => total[g] + (clock - blockedAt[g]) <= covered[g]
    BY DEF IInv, TimeInv, BlockedSince
  <2>3. QED
    BY <2>1, <2>2
<1>2. QED
  BY <1>1, Invariance, PTL

-----------------------------------------------------------------------------
(* Introductions                                                           *)

Named(g) == opt.filter = "all" \/ g \in opt.tracked
Introduces(s) == s # <<>> /\ Head(s) = "created" /\ \A i \in 2..Len(s) : s[i] # "created"

\* A goroutine of the workload is introduced as soon as there is one.
IntroInv(g) ==
    Named(g) => IF run[g] = "none" THEN out[g] = <<>> ELSE Introduces(out[g])

\* An introduction is not undone by what is shown later.
LEMMA IntroducesMore ==
  ASSUME NEW s \in Seq(Event), Introduces(s), NEW e \in Event \ {"created"}, NEW t, t = s \o <<e>>
  PROVE  Introduces(t)
  BY DEF Introduces

\* What was kept back is deleted before it is looked for, so that an operation
\* shows itself alone.
LEMMA NothingKept ==
  ASSUME TypeOK, NEW g \in Gor, Activate(g)
  PROVE  PendingLifecycle(g) = <<>>
<1>1. CASE g \in interested \/ opt.filter = "legacy"
  BY <1>1 DEF PendingLifecycle
<1>2. CASE ~(g \in interested \/ opt.filter = "legacy")
  <2>1. pending'[g] = {}
    BY <1>2 DEF Activate, TypeOK
  <2>2. Kept(g, "created") = <<>> /\ Kept(g, "started") = <<>>
    BY <2>1 DEF Kept
  <2>3. QED
    BY <1>2, <2>2 DEF PendingLifecycle
<1>3. QED
  BY <1>1, <1>2

\* Every step but a creation shows nothing of its goroutine, or one event that
\* is no creation, and leaves it in existence.
LEMMA LaterSteps ==
  ASSUME TypeOK, NEW g \in Gor, Step(g), ~Create(g)
  PROVE  /\ run[g] # "none" /\ run'[g] # "none"
         /\ \/ out'[g] = out[g]
            \/ \E e \in Event \ {"created"} : out'[g] = out[g] \o <<e>>
<1> DEFINE Goal == /\ run[g] # "none" /\ run'[g] # "none"
                   /\ \/ out'[g] = out[g]
                      \/ \E e \in Event \ {"created"} : out'[g] = out[g] \o <<e>>
<1>0. run \in [Gor -> {"none", "runnable", "running", "waiting", "gone"}] /\ DOMAIN out = Gor
  BY DEF TypeOK
<1>1. ASSUME NEW events, Emit(g, events) PROVE out'[g] = out[g] \o events
  BY <1>0, <1>1 DEF Emit
<1>2. {"started", "op", "done", "block", "unblock"} \subseteq Event \ {"created"}
  BY DEF Event
<1>3. CASE Start(g)
  <2>1. out' = out \/ Emit(g, <<"started">>)
    BY <1>3 DEF Start, Lifecycle
  <2>2. QED
    BY <1>0, <1>1, <1>2, <1>3, <2>1 DEF Start, Moves
<1>4. CASE RoleLog(g)
  BY <1>0, <1>4 DEF RoleLog
<1>5. CASE Finish(g)
  BY <1>0, <1>5 DEF Finish, Moves, parser
<1>6. ASSUME NEW kind \in ChanOp \union {"lock"}, RegionBegin(g, kind) PROVE Goal
  <2>1. PendingLifecycle(g) = <<>>
    BY <1>6, NothingKept DEF RegionBegin
  <2>2. PendingLifecycle(g) \o <<"op">> = <<"op">>
    BY <2>1
  <2>3. Emit(g, <<"op">>)
    BY <1>6, <2>2 DEF RegionBegin
  <2>4. QED
    BY <1>0, <1>1, <1>2, <1>6, <2>3 DEF RegionBegin
<1>7. CASE RegionEnd(g)
  <2>1. out' = out \/ Emit(g, <<"done">>)
    BY <1>7 DEF RegionEnd
  <2>2. QED
    BY <1>0, <1>1, <1>2, <1>7, <2>1 DEF RegionEnd
<1>8. ASSUME NEW reason, BlockOnChannel(g, reason) \/ BlockElsewhere(g, reason) PROVE Goal
  <2>1. out' = out \/ Emit(g, <<"block">>)
    BY <1>8 DEF BlockOnChannel, BlockElsewhere, Blocks
  <2>2. run[g] = "running" /\ run'[g] = "waiting"
    BY <1>0, <1>8 DEF BlockOnChannel, BlockElsewhere, Wait, Moves
  <2>3. QED
    BY <1>1, <1>2, <2>1, <2>2
<1>9. CASE Unblock(g)
  <2>1. out' = out \/ Emit(g, <<"unblock">>)
    BY <1>9 DEF Unblock
  <2>2. run[g] = "waiting" /\ run'[g] = "runnable"
    BY <1>0, <1>9 DEF Unblock, Wakes, Moves
  <2>3. QED
    BY <1>1, <1>2, <2>1, <2>2
<1>10. QED
  BY <1>3, <1>4, <1>5, <1>6, <1>7, <1>8, <1>9 DEF Step

\* A creation introduces the goroutine if it is named.
LEMMA CreationIntroduces ==
  ASSUME TypeOK, NEW g \in Gor, IntroInv(g), Create(g), Named(g)
  PROVE  run'[g] = "runnable" /\ Introduces(out'[g])
<1>1. TracksName(g, TRUE)
  BY DEF Named, TracksName
<1>2. Emit(g, <<"created">>)
  BY <1>1 DEF Create, Lifecycle
<1>3. run[g] = "none" /\ run'[g] = "runnable" /\ DOMAIN out = Gor
  BY DEF Create, Moves, TypeOK
<1>4. out'[g] = <<>> \o <<"created">>
  BY <1>2, <1>3 DEF Emit, IntroInv
<1>5. out'[g] = <<"created">>
  BY <1>4
<1>6. QED
  BY <1>3, <1>5 DEF Introduces

\* A step introduces the goroutine it creates and leaves the others alone.
LEMMA IntroStep ==
  ASSUME TypeOK, NEW g \in Gor, Step(g), \A h \in Gor : IntroInv(h)
  PROVE  \A h \in Gor : IntroInv(h)'
<1>1. UNCHANGED opt
  <2>1. Tick
    BY DEF Step, Create, Start, RoleLog, Finish, RegionBegin, RegionEnd, BlockOnChannel,
           BlockElsewhere, Unblock
  <2>2. QED
    BY <2>1 DEF Tick
<1>2. \A h \in Gor : Named(h)' = Named(h)
  BY <1>1 DEF Named
<1>3. IntroInv(g)'
  <2>1. CASE ~Named(g)
    BY <1>2, <2>1 DEF IntroInv
  <2>2. CASE Named(g) /\ Create(g)
    BY <2>2, CreationIntroduces DEF IntroInv
  <2>3. CASE Named(g) /\ ~Create(g)
    <3>1. /\ run[g] # "none" /\ run'[g] # "none" /\ Introduces(out[g])
          /\ \/ out'[g] = out[g]
             \/ \E e \in Event \ {"created"} : out'[g] = out[g] \o <<e>>
      BY <2>3, LaterSteps DEF IntroInv
    <3>2. out[g] \in Seq(Event)
      BY DEF TypeOK, Event
    <3>3. Introduces(out'[g])
      BY <3>1, <3>2, IntroducesMore
    <3>4. QED
      BY <3>1, <3>3 DEF IntroInv
  <2>4. QED
    BY <2>1, <2>2, <2>3
<1>4. ASSUME NEW h \in Gor, h # g PROVE IntroInv(h)'
  <2>1. run'[h] = run[h] /\ out'[h] = out[h]
    BY <1>4, Others DEF Same
  <2>2. QED
    BY <1>2, <2>1 DEF IntroInv
<1>5. QED
  BY <1>3, <1>4

\* The goroutine filter, for any trace: a goroutine with a name of the workload
\* (or any, when all are asked for) is shown to be created before anything else is
\* shown of it, and only once.
THEOREM NamedAreIntroduced == Spec => []IntroducedWhenNamed
<1> DEFINE Intro == \A g \in Gor : IntroInv(g)
<1>1. Init => Intro
  BY DEF Init, IntroInv
<1>2. TypeOK /\ Intro /\ [Next]_vars => Intro'
  <2> SUFFICES ASSUME TypeOK, Intro, [Next]_vars PROVE Intro'
    OBVIOUS
  <2>1. CASE UNCHANGED vars
    BY <2>1 DEF vars, program, parser, IntroInv, Named
  <2>2. CASE Next
    <3>1. PICK g \in Gor : Step(g)
      BY <2>2 DEF Next, Step
    <3>2. QED
      BY <3>1, IntroStep
  <2>3. QED
    BY <2>1, <2>2
<1>3. TypeOK /\ Intro => IntroducedWhenNamed
  BY DEF IntroInv, Introduces, Named, IntroducedWhenNamed
<1>4. QED
  <2> HIDE DEF Intro
  <2>1. QED
    BY <1>1, <1>2, <1>3, TypeCorrect, PTL DEF Spec
=============================================================================
