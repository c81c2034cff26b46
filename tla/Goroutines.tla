----------------------------- MODULE Goroutines -----------------------------
(***************************************************************************)
(* What the trace processor tells of goroutines: when they are created and *)
(* started, when they block and unblock, and how long they were blocked    *)
(* (internal/traceproc/traceproc.go: the state transitions of ProcessEvent,*)
(* activateGoroutineFromOp, the sync wait candidates).                     *)
(*                                                                         *)
(* The program really runs (run, op, why); the parser sees each transition *)
(* as it happens.  A goroutine whose entry function is not of the workload *)
(* is kept back as pending until it uses a channel, a mutex or the like.   *)
(* Every trace event has a time of its own, so the clock moves with each.  *)
(* Creation stands for GoNotExist to GoRunnable, the start, the wait and    *)
(* the wake-up for the transitions between GoRunnable, GoRunning and        *)
(* GoWaiting; "lock" stands for the kinds of isSyncWaitKind.                *)
(***************************************************************************)
EXTENDS Integers, Sequences, SequencesExt

CONSTANTS
    Gor,        \* goroutines
    MaxTime     \* bound: trace events

ASSUME GoroutinesAssumption == MaxTime \in Nat

\* GoroutineFilter, DropBlockNoCh (of a block with no channel), and of the program the goroutines whose entry
\* is main.main or a function of a workload package.
Options == [filter : {"ops", "all", "legacy"}, noChannel : {"keep", "drop"}, tracked : SUBSET Gor]

ChanOp == {"send", "recv"}
Never  == -1

VARIABLES
    opt, clock,
    \* the program
    run,        \* "none", "runnable", "running", "waiting" or "gone"
    op,         \* the region a goroutine is in: "none", "send", "recv", "lock"
    why,        \* what it waits for: "none", "send", "recv", "lock", "other"
    since,      \* when it began to wait
    shownWait,  \* instants of its waits that were shown from their beginning
    covered,    \* instants spent waiting or in a lock region
    \* the parser
    interested, \* Interested
    pending,    \* pendingGoroutines: the lifecycle events kept back
    last,       \* Last: the kind of the last channel region
    cand,       \* syncWaitCandidateByG: when the lock region began, or Never
    blocked,    \* blocked: the reason, or "none"
    blockedAt,  \* blockedAt, or Never
    total,      \* blockedTotalMs
    out         \* the events emitted about each goroutine

program == <<run, op, why, since, shownWait, covered>>
parser  == <<interested, pending, last, cand, blocked, blockedAt, total, out>>
vars    == <<opt, clock, program, parser>>

Init ==
    /\ opt \in Options /\ clock = 1
    /\ run = [g \in Gor |-> "none"]
    /\ op = [g \in Gor |-> "none"] /\ why = [g \in Gor |-> "none"]
    /\ since = [g \in Gor |-> 0]
    /\ shownWait = [g \in Gor |-> 0] /\ covered = [g \in Gor |-> 0]
    /\ interested = {} /\ pending = [g \in Gor |-> {}]
    /\ last = [g \in Gor |-> "none"] /\ cand = [g \in Gor |-> Never]
    /\ blocked = [g \in Gor |-> "none"] /\ blockedAt = [g \in Gor |-> Never]
    /\ total = [g \in Gor |-> 0]
    /\ out = [g \in Gor |-> <<>>]

-----------------------------------------------------------------------------
(* The program.                                                            *)

\* The instant that follows this event.
Tick ==
    /\ clock < MaxTime
    /\ clock' = clock + 1
    /\ covered' = [g \in Gor |->
                     covered[g] + (IF run'[g] = "waiting" \/ op'[g] = "lock" THEN 1 ELSE 0)]
    /\ UNCHANGED opt

Moves(g, from, to) ==
    /\ run[g] = from
    /\ run' = [run EXCEPT ![g] = to]

Emit(g, events) == out' = [out EXCEPT ![g] = @ \o events]

-----------------------------------------------------------------------------
(* Lifecycle.                                                              *)

\* The creation names the entry function, the start only when its event
\* carries a stack.
TracksNameOnly(g, named) == named /\ g \in opt.tracked  \* mutant

TracksName(g, named) == opt.filter = "all" \/ (named /\ g \in opt.tracked)

Lifecycle(g, event, named) ==
    \/ /\ TracksName(g, named)
       /\ interested' = interested \union {g}
       /\ pending' = [pending EXCEPT ![g] = {}]
       /\ Emit(g, <<event>>)
    \/ /\ ~TracksName(g, named)
       /\ pending' = [pending EXCEPT ![g] = @ \union {event}]
       /\ UNCHANGED <<interested, out>>

Create(g) ==
    /\ Moves(g, "none", "runnable")
    /\ Lifecycle(g, "created", TRUE)
    /\ UNCHANGED <<op, why, since, shownWait, last, cand, blocked, blockedAt, total>>
    /\ Tick

\* The scheduler starts a goroutine again after every wait.
Start(g) ==
    /\ Moves(g, "runnable", "running")
    /\ \E named \in BOOLEAN : Lifecycle(g, "started", named)
    /\ UNCHANGED <<op, why, since, shownWait, last, cand, blocked, blockedAt, total>>
    /\ Tick

\* A role in a log makes the goroutine interesting; what was kept back is lost.
RoleLog(g) ==
    /\ run[g] = "running"
    /\ interested' = interested \union {g}
    /\ pending' = [pending EXCEPT ![g] = {}]
    /\ UNCHANGED <<run, op, why, since, shownWait, last, cand, blocked, blockedAt, total, out>>
    /\ Tick

\* The end of a goroutine is not looked at.
Finish(g) ==
    /\ op[g] = "none" /\ Moves(g, "running", "gone")
    /\ UNCHANGED <<op, why, since, shownWait, parser>>
    /\ Tick

-----------------------------------------------------------------------------
(* Regions.                                                                *)

Kept(g, event) == IF event \in pending'[g] THEN <<event>> ELSE <<>>

\* activateGoroutineFromOp: markGoroutineInterested deletes the pending entry
\* before emitPendingLifecycle looks for it.
Activate(g) ==
    IF g \in interested \/ opt.filter = "legacy"
    THEN UNCHANGED <<interested, pending>>
    ELSE /\ interested' = interested \union {g}
         /\ pending' = [pending EXCEPT ![g] = {}]

PendingLifecycle(g) ==
    IF g \in interested \/ opt.filter = "legacy" THEN <<>>
    ELSE Kept(g, "created") \o Kept(g, "started")

RegionBegin(g, kind) ==
    /\ run[g] = "running" /\ op[g] = "none"
    /\ op' = [op EXCEPT ![g] = kind]
    /\ Activate(g)
    /\ Emit(g, PendingLifecycle(g) \o <<"op">>)
    /\ last' = IF kind \in ChanOp THEN [last EXCEPT ![g] = kind] ELSE last
    /\ cand' = IF kind = "lock" THEN [cand EXCEPT ![g] = clock] ELSE cand
    /\ UNCHANGED <<run, why, since, shownWait, blocked, blockedAt, total>>
    /\ Tick

\* A lock region ends without an event.
RegionEnd(g) ==
    /\ run[g] = "running" /\ op[g] # "none"
    /\ op' = [op EXCEPT ![g] = "none"]
    /\ IF op[g] = "lock"
       THEN cand' = [cand EXCEPT ![g] = Never] /\ UNCHANGED out
       ELSE UNCHANGED cand /\ Emit(g, <<"done">>)
    /\ UNCHANGED <<run, why, since, shownWait, interested, pending, last, blocked, blockedAt, total>>
    /\ Tick

-----------------------------------------------------------------------------
(* Blocking.                                                               *)

Wait(g, reason) ==
    /\ Moves(g, "running", "waiting")
    /\ reason \in ChanOp => op[g] \in {reason, "none"}
    /\ reason = "lock" => op[g] \in {"lock", "none"}
    /\ why' = [why EXCEPT ![g] = reason]
    /\ since' = [since EXCEPT ![g] = clock]

Blocks(g, reason, start) ==
    /\ blocked' = [blocked EXCEPT ![g] = reason]
    /\ blockedAt' = IF blockedAt[g] = Never THEN [blockedAt EXCEPT ![g] = start]
                    ELSE blockedAt
    /\ Emit(g, <<"block">>)

\* inferBlockChannel finds the channel in the region, in the last region, or in
\* a recent log.  Without one the event may be dropped.
BlockOnChannel(g, reason) ==
    /\ reason \in ChanOp /\ Wait(g, reason)
    /\ \E fresh \in BOOLEAN :
          IF g \in interested /\ (last[g] = reason \/ fresh \/ opt.noChannel = "keep")
          THEN Blocks(g, reason, clock)
          ELSE UNCHANGED <<blocked, blockedAt, out>>
    /\ UNCHANGED <<op, shownWait, interested, pending, last, cand, total>>
    /\ Tick

\* Any other wait: a lock by the runtime's reason, and whatever the reason is
\* while a lock region is open.
BlockElsewhere(g, reason) ==
    /\ reason \in {"lock", "other"} /\ Wait(g, reason)
    /\ IF g \in interested /\ (reason = "lock" \/ cand[g] # Never)
       THEN Blocks(g, "lock", IF cand[g] # Never THEN cand[g] ELSE clock)
       ELSE UNCHANGED <<blocked, blockedAt, out>>
    /\ UNCHANGED <<op, shownWait, interested, pending, last, cand, total>>
    /\ Tick

\* The part of an unblocking that happens to the program.
Wakes(g) ==
    /\ Moves(g, "waiting", "runnable")
    /\ why' = [why EXCEPT ![g] = "none"]
    /\ shownWait' = IF out[g] # <<>> /\ Last(out[g]) = "block"
                    THEN [shownWait EXCEPT ![g] = @ + (clock - since[g])] ELSE shownWait
    /\ UNCHANGED <<op, since>>

\* When the wait that ends is taken to have begun.
BlockedSince(g) == IF blockedAt[g] # Never THEN blockedAt[g] ELSE cand[g]

AddBlocked(g) ==
    total' = IF BlockedSince(g) = Never THEN total
             ELSE [total EXCEPT ![g] = @ + (clock - BlockedSince(g))]

\* Mutant: the candidate is kept, and counts again for the next wait.
ForgetWaitNotCandidate(g) ==
    /\ blockedAt' = [blockedAt EXCEPT ![g] = Never]
    /\ blocked' = [blocked EXCEPT ![g] = "none"]
    /\ UNCHANGED cand

\* Mutant: the reason is kept.
ForgetWaitNotReason(g) ==
    /\ blockedAt' = [blockedAt EXCEPT ![g] = Never]
    /\ cand' = [cand EXCEPT ![g] = Never]
    /\ UNCHANGED blocked

ForgetWait(g) ==
    /\ blockedAt' = [blockedAt EXCEPT ![g] = Never]
    /\ blocked' = [blocked EXCEPT ![g] = "none"]
    /\ cand' = [cand EXCEPT ![g] = Never]

\* Mutant: only the end of a channel wait is told.
UnblockChannelOnly(g) ==
    /\ Wakes(g)
    /\ IF g \in interested
       THEN /\ AddBlocked(g) /\ ForgetWait(g)
            /\ IF blocked[g] = "lock" THEN UNCHANGED out ELSE Emit(g, <<"unblock">>)
       ELSE UNCHANGED <<total, blockedAt, blocked, cand, out>>
    /\ UNCHANGED <<interested, pending, last>>
    /\ Tick

\* Every end of a wait is told, also when its beginning was not.
Unblock(g) ==
    /\ Wakes(g)
    /\ IF g \in interested
       THEN AddBlocked(g) /\ ForgetWait(g) /\ Emit(g, <<"unblock">>)
       ELSE UNCHANGED <<total, blockedAt, blocked, cand, out>>
    /\ UNCHANGED <<interested, pending, last>>
    /\ Tick

Next == \E g \in Gor :
    \/ Create(g) \/ Start(g) \/ RoleLog(g) \/ Finish(g)
    \/ \E kind \in ChanOp \union {"lock"} : RegionBegin(g, kind)
    \/ RegionEnd(g)
    \/ \E reason \in ChanOp : BlockOnChannel(g, reason)
    \/ \E reason \in {"lock", "other"} : BlockElsewhere(g, reason)
    \/ Unblock(g)

Spec == Init /\ [][Next]_vars

-----------------------------------------------------------------------------
(* Properties.                                                             *)

Reason == {"none", "send", "recv", "lock"}

TypeOK ==
    /\ opt \in Options /\ clock \in Nat
    /\ run \in [Gor -> {"none", "runnable", "running", "waiting", "gone"}]
    /\ op \in [Gor -> Reason] /\ why \in [Gor -> Reason \union {"other"}]
    /\ since \in [Gor -> Nat] /\ shownWait \in [Gor -> Nat] /\ covered \in [Gor -> Nat]
    /\ interested \subseteq Gor
    /\ pending \in [Gor -> SUBSET {"created", "started"}]
    /\ last \in [Gor -> Reason \ {"lock"}]
    /\ cand \in [Gor -> Nat \union {Never}] /\ blockedAt \in [Gor -> Nat \union {Never}]
    /\ blocked \in [Gor -> Reason] /\ total \in [Gor -> Nat]
    /\ out \in [Gor -> Seq({"created", "started", "op", "done", "block", "unblock"})]

\* The goroutines the audit names as blocked, which the warnings of quiescence
\* and of a deadlock cycle are made of, are waiting; and none that waits for a
\* channel is missed, once it is tracked and unless its event is dropped.
BlockedIsWaiting ==
    \A g \in Gor :
        /\ blocked[g] # "none" => run[g] = "waiting"
        /\ why[g] \in ChanOp /\ g \in interested /\ opt.noChannel = "keep" => blocked[g] = why[g]

\* A goroutine that is shown as blocked does nothing before it is shown as
\* unblocked: no operation, no start, no second block.
ShownBlockedIsStill ==
    \A g \in Gor : \A i \in 1..Len(out[g]) - 1 :
        out[g][i] = "block" => out[g][i + 1] = "unblock"

\* No wait is counted twice, and none that was shown is left out: the blocked
\* time is at least that of the shown waits and at most the time spent waiting
\* or at a lock.
BlockedTimeExact ==
    \A g \in Gor :
        /\ shownWait[g] <= total[g]
        /\ total[g] + (IF blockedAt[g] # Never THEN clock - blockedAt[g] ELSE 0) <= covered[g]

\* A goroutine whose entry function is of the workload, or any when all are asked
\* for, is shown to be created before anything else is shown of it, whatever
\* makes it interesting first.
IntroducedWhenNamed ==
    \A g \in Gor : (opt.filter = "all" \/ g \in opt.tracked) /\ out[g] # <<>> =>
        /\ Head(out[g]) = "created"
        /\ \A i \in 2..Len(out[g]) : out[g][i] # "created"

\* docs/mvp-refactor.md counts goroutine_created among the minimum event set: a
\* goroutine that is shown to use a channel or a lock has been shown to be
\* created, as the events kept back for it (pendingGoroutines) are meant for.
Introduced ==
    opt.filter = "ops" =>
        \A g \in Gor : \A i \in 1..Len(out[g]) : out[g][i] = "op" =>
            \E j \in 1..i - 1 : out[g][j] = "created"
=============================================================================
