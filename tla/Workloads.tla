----------------------------- MODULE Workloads -----------------------------
(***************************************************************************)
(* The programs that the server offers for tracing, as they are run: the   *)
(* handwritten ones and the ones the instrumenter has generated from the   *)
(* user's programs (src/internal/workload).  Every definition is the       *)
(* concurrent behaviour of one Go function or file: its goroutines, what   *)
(* they send, receive, close and wait for.  Of the data only what decides  *)
(* control is kept; regions, logs and sleeps are left out.                 *)
(*                                                                         *)
(* __jspt_wg_0, the wait group that the instrumenter adds to a program, is *)
(* "added": main returns only when every goroutine counted in it has       *)
(* ended.                                                                  *)
(***************************************************************************)
EXTENDS GoRuntime

CONSTANTS Jobs,     \* how many jobs a producer sends
          Workers,  \* how many workers a program starts
          Clients,  \* how many clients a broadcast program starts
          Phases,   \* how many phases the workers of a barrier go through
          Depth,    \* how deep a merge sort splits its input
          Selected, \* the names of the programs that are run
          MaxGoroutines \* how many goroutines a program has at most

Main(body, deferred) == <<Func(body, deferred \o <<Wait("added")>>)>>
Started(body) == GoCounted({"added"}, body)
Caps(cs, n) == [c \in cs |-> n]

-----------------------------------------------------------------------------
(* Producer, workers, closer and aggregator: abc and its copies *)

producerLeavesOpen == <<For(Jobs, <<Send("jobs", 0)>>)>>
producer == <<For(Jobs, <<Send("jobs", 0)>>), Close("jobs")>>

worker == <<Func(<<Loop(<<RecvOk("jobs", <<>>, <<Return>>), Send("results", 0)>>)>>,
                 <<Done("wg")>>)>>

closeAtOnce == <<Close("results")>>
closeWhenDone == <<Wait("wg"), Close("results")>>

aggregator == <<Func(<<Loop(<<RecvOk("results", <<Inc("sum", 1)>>,
                                     <<Send("done", 0), Return>>)>>)>>, <<>>)>>

RunabcProgram ==
  Program("abc", Caps({"jobs", "results", "done"}, 0), {"wg", "added"}, {}, {},
    [sum |-> 0],
    Main(<<Add("wg", Workers), Started(producer)>>
           \o Each(Workers, LAMBDA i : Started(worker))
           \o <<Started(closeWhenDone), Started(aggregator), Recv("done")>>, <<>>))

Runideal1Program == RunabcProgram
Runidealo1Program == RunabcProgram
Runidealo12Program == RunabcProgram
Runidealo123Program == RunabcProgram
Runbdcst1231Program == RunabcProgram
Runbdcst1234Program == RunabcProgram
RungtvdemoProgram == RunabcProgram

-----------------------------------------------------------------------------
(* Broadcast server and its clients: bdcst, bdcst12 and their copies.      *)
(* mem.clientOut is the server's array of clients in the order in which    *)
(* they registered, mem.serverOut what client 1 knows: 0 nothing, 1 the    *)
(* server's channel, 2 it has sent its message.                            *)

register == [i \in 0..Clients - 1 |-> <<Push("clientOut", i), Send(Nth("reg", i), 0)>>]

broadcastStopsShort ==
  <<Set("sent", 1),
    ForEach("clientOut", [i \in 0..Clients - 1 |->
              IF i < Clients - 1 THEN <<Send(Nth("serverIn", i), 0)>> ELSE <<>>])>>

broadcast == <<Set("sent", 1),
               ForEach("clientOut", [i \in 0..Clients - 1 |-> <<Send(Nth("serverIn", i), 0)>>])>>

\* After a broadcast the server goes on (bdcst) or returns (bdcst12), and so
\* does a client that has received the message.
runServer(after) ==
  <<Func(<<Loop(<<Select(<<RecvCase("join", register),
                           RecvCase("clientIn", Always(broadcast \o after))>>)>>)>>, <<>>)>>

\* Client 1 sends once it knows the server; the others only listen.
runClient(i, after) ==
  <<Send("join", i),
    Func(<<Loop(<<SelectDefault(
             <<RecvCase(Nth("reg", i), Always(IF i = 1 THEN <<Set("serverOut", 1)>> ELSE <<>>)),
               RecvCase(Nth("serverIn", i), Always(<<Inc(Nth("got", i), 1)>> \o after))>>,
             IF i = 1 THEN <<Test("serverOut", Always(<<>>) @@
                                    (1 :> <<Send("clientIn", 0), Set("serverOut", 2)>>))>>
             ELSE <<>>)>>)>>, <<>>)>>

ClientCaps == [c \in {Nth("reg", i) : i \in 0..Clients - 1}
                  \union {Nth("serverIn", i) : i \in 0..Clients - 1} |-> 1]
ClientVals == [x \in {Nth("got", i) : i \in 0..Clients - 1} |-> 0]

\* At most Clients requests are in join and one message in clientIn, whose
\* capacities (MAX, 10) are therefore never exhausted.
BroadcastProgram(name, after) ==
  Program(name, ("join" :> Clients) @@ ("clientIn" :> 1) @@ ClientCaps, {"added"}, {}, {},
    [clientOut |-> <<>>, serverOut |-> 0, sent |-> 0] @@ ClientVals,
    Main(Each(Clients, LAMBDA i : Started(runClient(i, after))) \o runServer(after), <<>>))

RunbdcstProgram == BroadcastProgram("bdcst", <<>>)
RunobdtestProgram == RunbdcstProgram
Runobdtest2Program == RunbdcstProgram
RuntpcProgram == RunbdcstProgram
Runtpc1Program == RunbdcstProgram
Runbdcst1Program == RunbdcstProgram
Runbdcst3Program == RunbdcstProgram
RunbdcstsampleProgram == RunbdcstProgram

Runbdcst12Program == BroadcastProgram("bdcst12", <<Return>>)
RunbtestProgram == Runbdcst12Program
RunbdtestProgram == Runbdcst12Program
Runbdcsttest1Program == Runbdcst12Program

client(inbox) == <<Recv(inbox), Send("done", 0)>>
RunBroadcastSmokeProgram ==
  Program("broadcastsmoke", ("done" :> 2) @@ Caps({"clientA", "clientB"}, 0), {"added"}, {}, {},
    <<>>,
    Main(<<Started(client("clientA")), Started(client("clientB")),
           Send("clientA", 0), Send("clientB", 0), Recv("done"), Recv("done")>>, <<>>))

-----------------------------------------------------------------------------
(* Fan-out and fan-in under a deadline: fan and its copies *)

Generator ==
  <<Func(<<For(Jobs, <<Until("ctx", SendCase("in", 0, <<>>))>>)>>, <<Close("in")>>)>>

FanWorkerDrops ==
  <<Func(<<RangeOver("in", <<Until("ctx", TimeCase(<<>>)),
                         SelectDefault(<<SendCase("out", 0, <<>>)>>, <<>>)>>)>>, <<Done("wg")>>)>>

FanWorker ==
  <<Func(<<RangeOver("in", <<Until("ctx", TimeCase(<<>>)),
                         Until("ctx", SendCase("out", 0, <<>>))>>)>>, <<Done("wg")>>)>>

Sum ==
  <<Func(<<Loop(<<Select(
      <<RecvCase("ctx", Always(<<Send("done", 0), Return>>)),
        RecvCase("out", Always(<<Inc("sum", 1)>>) @@ (Closed :> <<Send("done", 0), Return>>))>>)>>)>>,
    <<>>)>>

RunfanProgram ==
  Program("fan", ("done" :> 1) @@ Caps({"ctx", "in", "out"}, 0), {"wg", "added"}, {}, {},
    [sum |-> 0],
    Main(<<WithTimeout("ctx"), Started(Generator), Add("wg", Workers)>>
           \o Each(Workers, LAMBDA w : Started(FanWorker))
           \o <<Started(<<Wait("wg"), Close("out")>>), Started(Sum), Recv("done")>>,
         <<Cancel("ctx")>>))

RunrpcProgram == RunfanProgram
Runfan4Program == RunfanProgram
Runfan5Program == RunfanProgram

-----------------------------------------------------------------------------
(* Ping and pong *)

pingpong == <<Recv("ping"), Send("pong", 0)>>
RunpingProgram ==
  Program("ping", Caps({"ping", "pong"}, 0), {"added"}, {}, {}, <<>>,
    Main(<<Started(pingpong), Send("ping", 0), Recv("pong")>>, <<>>))
Runping1Program == RunpingProgram
Runping2Program == RunpingProgram
RunpingpongtestProgram == RunpingProgram
Runpingpongtest1Program == RunpingProgram

PingPong == pingpong \o <<Close("done")>>
RunPingPongProgram ==
  Program("pingpong", Caps({"ping", "pong", "done"}, 0), {}, {}, {}, <<>>,
    <<Go(PingPong), Send("ping", 0), Recv("pong"), Recv("done")>>)


-----------------------------------------------------------------------------
(* A mutex, and a channel whose receiver comes late *)

RunmutexProgram ==
  Program("mutex", ("ch" :> 0), {"wg", "added"}, {"mu"}, {}, <<>>,
    Main(<<Add("wg", 3),
           Started(<<Lock("mu"), Unlock("mu"), Send("ch", 0), Done("wg")>>),
           Started(<<Lock("mu"), Unlock("mu"), Done("wg")>>),
           Started(<<Recv("ch"), Done("wg")>>),
           Wait("wg")>>, <<>>))

-----------------------------------------------------------------------------
(* A barrier of workers with a coordinator on one condition variable: cndtr *)

Coordinator ==
  <<Func(<<
      Loop(<<Test("phase", Always(<<>>) @@ (Phases :> <<Break>>)),
             Lock("mu"),
             Loop(<<Test("arrived", Always(<<>>) @@ (Workers :> <<Break>>)),
                    Test("phase", Always(<<>>) @@ (Phases :> <<Break>>)),
                    CondWait("cond", "mu")>>),
             Test("phase", Always(<<>>) @@ (Phases :> <<Unlock("mu"), Return>>)),
             Inc("phase", 1), Set("arrived", 0), Broadcast("cond"), Unlock("mu")>>),
      Close("updates")>>, <<>>)>>

BarrierPhase(p) ==
  <<Until("ctx", SendCase("updates", 0, <<>>)),
    Lock("mu"),
    Loop(<<Test("phase", Always(<<>>) @@ (p :> <<Break>>) @@ (Phases :> <<Break>>)),
           CondWait("cond", "mu")>>),
    Inc("arrived", 1), Signal("cond"),
    Loop(<<Test("phase", Always(<<Break>>) @@ (p :> <<>>)), CondWait("cond", "mu")>>),
    Unlock("mu")>>

BarrierWorker == <<Func(FlattenSeq(Each(Phases, BarrierPhase)), <<Done("wg")>>)>>

RuncndtrProgram ==
  Program("cndtr", ("ctx" :> 0) @@ ("updates" :> Workers * Phases), {"wg", "added"},
    {"mu"}, {"cond"}, [phase |-> 0, arrived |-> 0],
    Main(<<WithTimeout("ctx"), Started(Coordinator), Add("wg", Workers)>>
           \o Each(Workers, LAMBDA w : Started(BarrierWorker))
           \o <<Started(<<RangeOver("updates", <<>>)>>), Wait("wg")>>, <<Cancel("ctx")>>))
Runcrndtr1Program == RuncndtrProgram

-----------------------------------------------------------------------------
(* Jobs, heartbeats and a canceller: demo2 and its copies *)

DemoProducer ==
  <<Func(<<For(Jobs, <<Select(<<RecvCase("ctx", Always(<<Return>>)),
                               RecvCase("cancelCh", Always(<<Return>>)),
                               SendCase("jobs", 0, <<>>)>>)>>)>>, <<Close("jobs")>>)>>

DemoWorker ==
  <<Func(<<Loop(<<Until("ctx", RecvCase("jobs",
      Always(<<Until("ctx", SendCase("results", 0, <<>>))>>) @@ (Closed :> <<Return>>)))>>)>>, <<>>)>>

\* Returns after all but one of the jobs (20 of 30 in the source).
DemoAggregator ==
  <<Func(<<Loop(<<Select(<<RecvCase("ctx", Always(<<Return>>)),
                          RecvCase("results", Always(
                            <<Inc("seen", 1), Test("seen", Always(<<>>) @@ (Jobs - 1 :> <<Return>>))>>)),
                          TimeCase(<<>>)>>)>>)>>, <<Close("done")>>)>>

broadcaster ==
  <<Func(<<Loop(<<Until("ctx", RecvCase("hbIn",
      Always(<<Until("ctx", SendCase("subA", 0, <<>>)), Until("ctx", SendCase("subB", 0, <<>>))>>)
        @@ (Closed :> <<Return>>)))>>)>>, <<>>)>>

subscriber(in) == <<Func(<<Loop(<<Until("ctx", RecvCase(in, Always(<<>>)))>>)>>, <<>>)>>

\* The tick is passed on with a send that nothing else can end.
heartbeatSource ==
  <<Func(<<Loop(<<Select(<<RecvCase("ctx", Always(<<Close("hbIn"), Return>>)),
                          TimeCase(<<Send("hbIn", 0)>>)>>)>>)>>, <<>>)>>

Joined(body) == GoCounted({"wg", "added"}, body)
Canceler == <<Close("cancelCh"), Cancel("ctx")>>

\* The two halves of the program share nothing but the contexts, cancelCh and
\* the wait groups, so that each is run with what the other may do to these:
\* jobs without heartbeats, and heartbeats with an aggregator that is done at
\* any time.
demo2(name, cap, goroutines) ==
  Program(name, Caps({"ctx", "cancelCh", "done"}, 0) @@ cap, {"wg", "added"}, {}, {}, [seen |-> 0],
    Main([i \in DOMAIN goroutines |-> Joined(goroutines[i])]
           \o <<Recv("done"), Cancel("ctx"), Wait("wg")>>, <<Cancel("ctx")>>))

Rundemo2Program ==
  { demo2("demo2 jobs", ("jobs" :> 0) @@ ("results" :> 1),
          <<Canceler>> \o Each(Workers, LAMBDA i : DemoWorker) \o <<DemoProducer, DemoAggregator>>),
    demo2("demo2 heartbeats", ("hbIn" :> 0) @@ Caps({"subA", "subB"}, 1),
          <<Canceler, broadcaster, subscriber("subA"), subscriber("subB"), heartbeatSource,
            <<Close("done")>> >>) }
Runtest23Program == Rundemo2Program
RunsdidealoProgram == Rundemo2Program

-----------------------------------------------------------------------------
(* The handwritten broadcast: buffered or blocking channels, and limits on *)
(* its time or on the requests its server answers (broadcast.go).  limits  *)
(* is the number of steps after which the context is cancelled (0: none),  *)
(* and whether a timer cancels it.                                         *)

withBroadcastLimits(limits) == IF limits.timer THEN <<WithTimeout("ctx")>> ELSE <<>>

recordStep(limits) ==
  IF limits.steps = 0 THEN <<>>
  ELSE <<Lock("rl"), Inc("steps", 1),
         Test("steps", Always(<<Unlock("rl")>>)
           @@ [n \in limits.steps..2 * Clients + 2 |-> <<Unlock("rl"), Cancel("ctx")>>])>>

runServerBuffered(limits) ==
  <<Func(<<For(Clients, <<Until("ctx", RecvCase("join",
             [i \in 0..Clients - 1 |-> recordStep(limits) \o <<Send(Nth("reg", i), 0)>>]))>>),
           Until("ctx", RecvCase("clientIn", Always(recordStep(limits)
             \o Each(Clients, LAMBDA i : Send(Nth("serverIn", i), 0)))))>>, <<Close("done")>>)>>

runClientBuffered(i) ==
  <<Send("join", i),
    Func(<<Loop(<<Select(
      <<RecvCase("ctx", Always(<<Return>>)),
        RecvCase(Nth("reg", i), Always(IF i = 1 THEN <<Send("clientIn", 0)>> ELSE <<>>)),
        RecvCase(Nth("serverIn", i), Always(<<Inc(Nth("got", i), 1), Return>>))>>)>>)>>,
      <<Done("gotOne")>>)>>

runBroadcastBuffered(limits) ==
  <<Add("gotOne", Clients)>>
  \o Each(Clients, LAMBDA i : Go(runClientBuffered(i))) \o <<Go(runServerBuffered(limits))>>
  \o <<Select(<<RecvCase("ctx", Always(<<>>)), RecvCase("done", Always(<<>>))>>), Wait("gotOne")>>

\* The clients and main of the blocking variant do not look at the context.
blockingClient(i) ==
  <<Send("join-", i), Recv(Nth("reg-", i))>>
  \o (IF i = 1 THEN <<Send("clientIn-", 0)>> ELSE <<>>)
  \o <<Recv(Nth("serverIn-", i)), Inc(Nth("got-", i), 1), Done("wg")>>

blockingServer(limits) ==
  <<Func(<<For(Clients, <<Until("ctx", RecvCase("join-",
             [i \in 0..Clients - 1 |-> recordStep(limits) \o <<Send(Nth("reg-", i), 0)>>]))>>),
           Until("ctx", RecvCase("clientIn-", Always(recordStep(limits))))>>
         \o Each(Clients, LAMBDA i : Send(Nth("serverIn-", i), 0)), <<Close("done-")>>)>>

runBroadcastBlocking(limits) ==
  <<Add("wg", Clients)>>
  \o Each(Clients, LAMBDA i : Go(blockingClient(i))) \o <<Go(blockingServer(limits))>>
  \o <<Recv("done-"), Wait("wg")>>

Unlimited == [timer |-> FALSE, steps |-> 0]
Limits == {Unlimited, [timer |-> TRUE, steps |-> 0], [timer |-> FALSE, steps |-> 2]}
Modes == {"buffered", "blocking", "both"}

\* The channels of the two variants are told apart by a dash, for they are not
\* the same ones when both run.
RunBroadcastProgram(mode, limits) ==
  LET ids == 0..Clients - 1
      kinds == {"reg", "serverIn"}
      named(name, dash) == {Nth(name \o dash, i) : i \in ids}
  IN Program(
       IF limits = Unlimited THEN mode ELSE mode \o " limited",
       Caps({"ctx", "done", "join-", "clientIn-", "done-"}, 0) @@ Caps({"join", "clientIn"}, Clients)
         @@ Caps(UNION {named(k, "") : k \in kinds}, 1)
         @@ Caps(UNION {named(k, "-") : k \in kinds}, 0),
       {"gotOne", "wg"}, {"rl"}, {},
       Caps(named("got", "") \union named("got", "-") \union {"steps"}, 0),
       <<Func(withBroadcastLimits(limits)
              \o (IF mode = "blocking" THEN <<>> ELSE runBroadcastBuffered(limits))
              \o (IF mode = "buffered" THEN <<>> ELSE runBroadcastBlocking(limits)),
              <<Cancel("ctx")>>)>>)

-----------------------------------------------------------------------------
(* Merge sort: two goroutines per level, each with its own channel *)

RECURSIVE MergeSort(_, _)
MergeSort(depth, call) ==
  IF depth = Depth THEN <<>>
  ELSE Each(2, LAMBDA half : Go(MergeSort(depth + 1, Nth(call, half)) \o <<Send(Nth(call, half), 0)>>))
       \o Each(2, LAMBDA half : Recv(Nth(call, half)))

RECURSIVE Halves(_, _)
Halves(depth, call) ==
  IF depth = Depth THEN {}
  ELSE UNION {{Nth(call, half)} \union Halves(depth + 1, Nth(call, half)) : half \in {0, 1}}

RunMergeSortProgram ==
  Program("mergesort", Caps(Halves(0, "half"), 1), {}, {}, {}, <<>>, MergeSort(0, "half"))

-----------------------------------------------------------------------------
(* Six demonstrations under one deadline: richsample.  They share nothing  *)
(* but the context and main's wait group, so that each is run on its own.  *)

richsample(name, cap, locks, conds, vals, demo) ==
  Program(name, ("ctx" :> 0) @@ cap, {"wg", "main", "added"}, locks, conds, vals,
    Main(<<WithTimeout("ctx"), GoCounted({"main", "added"}, demo), Wait("main")>>, <<Cancel("ctx")>>))

InPool(body) == GoCounted({"wg"}, body)
UntilCancelled(case) == <<Func(<<Loop(<<Until("ctx", case)>>)>>, <<>>)>>
FewTimes(n, body) == <<Func(<<For(n, body)>>, <<>>)>>

poolWorker ==
  UntilCancelled(RecvCase("jobs",
    Always(<<AtomicAdd("counter", 1), Until("ctx", SendCase("results", 0, <<>>))>>)
      @@ (Closed :> <<Return>>)))
poolProducer == <<Func(<<For(Jobs, <<Until("ctx", SendCase("jobs", 0, <<>>))>>)>>, <<Close("jobs")>>)>>
collector == UntilCancelled(RecvCase("results", Always(<<>>)))
workerPool ==
  Each(Workers, LAMBDA i : InPool(poolWorker)) \o <<Go(poolProducer), Go(collector), Wait("wg")>>

chReceiver == UntilCancelled(RecvCase("ch", Always(<<>>)))
chSender == FewTimes(Jobs, <<Until("ctx", SendCase("ch", 0, <<>>))>>)
bufferedChannelDemo == <<InPool(chReceiver), InPool(chSender), Wait("wg")>>
unbufferedRendezvous == <<InPool(chSender), InPool(chReceiver), Wait("wg")>>

\* The producer of a is not counted and does not look at the context.
aProducer == <<For(Jobs, <<Send("a", 0)>>), Close("done")>>
bReceiver == UntilCancelled(RecvCase("b", Always(<<>>)))
selectTwice ==
  Func(<<Loop(<<
    SelectDefault(<<RecvCase("ctx", Always(<<Return>>)), RecvCase("done", Always(<<Return>>))>>, <<>>),
    Select(<<RecvCase("ctx", Always(<<Return>>)), RecvCase("a", Always(<<>>)),
             SendCase("b", 42, <<>>), TimeCase(<<>>)>>)>>)>>, <<>>)
selectDemo == <<Go(aProducer), Go(bReceiver), selectTwice>>

\* shared += n is a read and a write; the two writers hold different locks.
sharedAdd(n) == Test("shared", [v \in 0..12 |-> <<Set("shared", v + n)>>])
unlessCancelled == SelectDefault(<<RecvCase("ctx", Always(<<Return>>))>>, <<>>)
readerNotCancelled == <<Loop(<<RLock("rw"), Test("shared", Always(<<>>)), RUnlock("rw")>>)>>
reader ==
  <<Func(<<Loop(<<unlessCancelled, RLock("rw"), Test("shared", Always(<<>>)), RUnlock("rw")>>)>>, <<>>)>>

muWriter == FewTimes(2, <<unlessCancelled, Lock("mu"), sharedAdd(1), Unlock("mu")>>)
rwWriter == FewTimes(1, <<unlessCancelled, Lock("rw"), sharedAdd(10), Unlock("rw")>>)
mutexContention == <<InPool(muWriter), InPool(reader), InPool(rwWriter), Wait("wg")>>

\* The waiters do not look at the context; the setter gives up when it is done.
waiter == <<Lock("mu"),
            Loop(<<Test("ready", Always(<<>>) @@ (1 :> <<Break>>)), CondWait("cond", "mu")>>),
            Unlock("mu")>>
setterUnlocked == <<Func(<<Until("ctx", TimeCase(<<>>)), Set("ready", 1), Broadcast("cond")>>, <<>>)>>
setter == <<Func(<<Until("ctx", TimeCase(<<>>)), Lock("mu"), Set("ready", 1), Unlock("mu"),
                   Broadcast("cond")>>, <<>>)>>
condDemo == Each(2, LAMBDA i : InPool(waiter)) \o <<InPool(setter), Wait("wg")>>

RunrichsampleProgram ==
  { richsample("workerPool", ("jobs" :> 1) @@ ("results" :> 0), {}, {}, [counter |-> 0], workerPool),
    richsample("bufferedChannelDemo", ("ch" :> 1), {}, {}, <<>>, bufferedChannelDemo),
    richsample("unbufferedRendezvous", ("ch" :> 0), {}, {}, <<>>, unbufferedRendezvous),
    richsample("selectDemo", ("a" :> 1) @@ Caps({"b", "done"}, 0), {}, {}, <<>>, selectDemo),
    richsample("mutexContention", <<>>, {"mu", "rw"}, {}, [shared |-> 0], mutexContention),
    richsample("condDemo", <<>>, {"mu"}, {"cond"}, [ready |-> 0], condDemo) }

Programs ==
  Rundemo2Program \union RunrichsampleProgram
  \union {RunBroadcastProgram(m, l) : m \in Modes, l \in Limits}
  \union {RunabcProgram, RunbdcstProgram, Runbdcst12Program, RunBroadcastSmokeProgram,
          RunfanProgram, RunpingProgram, RunPingPongProgram, RunmutexProgram, RuncndtrProgram,
          RunMergeSortProgram}

Names == {p.name : p \in Programs}

Init == \E p \in Programs : p.name \in Selected /\ Start(p)
Next == \E g \in DOMAIN todo : Step(g)
SafetySpec == Init /\ [][Next]_vars
Spec == SafetySpec /\ \A g \in 1..MaxGoroutines : FairGoroutine(g)

-----------------------------------------------------------------------------
(* Properties *)

\* No program sends on a closed channel, closes a channel twice or takes a wait
\* group below zero, whatever the order in which its goroutines run and
\* whenever its context is cancelled.
NoPanic == ~panicked

\* A program comes to a stop with main still waiting only for these reasons:
\* a condition variable's signal went to a worker when the coordinator waited
\* for it, or a worker of the barrier has given up at the deadline (cndtr); the
\* broadcaster ended between a tick and the send that passes it on (demo2); the
\* server of the blocking broadcast ended at a limit that the clients do not
\* look at (broadcast); the setter of the condition gave up at the deadline and
\* woke nobody (condDemo).
CauseOfHang ==
  CASE prog.name = "cndtr" -> \/ mem.arrived = Workers /\ Contains(parked["cond"], 3)
                              \/ mem.phase < Phases /\ \E w \in 4..3 + Workers : Ended(w)
    [] prog.name = "demo2 heartbeats" -> "ctx" \in closed /\ "hbIn" \notin closed
    [] prog.name \in {"blocking limited", "both limited"} -> {"ctx", "done-"} \subseteq closed
    [] prog.name = "condDemo" -> "ctx" \in closed /\ mem.ready = 0
    [] OTHER -> FALSE
HangsOnlyWhen == Stuck => CauseOfHang

\* "RunBroadcastProgram ... performs a single broadcast, and returns"
\* (broadcast.go:192), under the limits that are to bound it.
BroadcastReturns ==
  prog.name \in {m \o s : m \in Modes, s \in {"", " limited"}} => ~Stuck

\* Two goroutines are never about to use a variable at the same time, one of
\* them to write it, but for the variable that mutexContention protects with
\* two different locks.
NoRace ==
  \A g, h \in DOMAIN todo :
    Racing(g, h) => prog.name = "mutexContention" /\ lock["mu"] = -1

\* A program that has ended before its deadline has done all of its work: every
\* job has come out of the pipeline, every client has heard the broadcast once.
InTime == Len(todo) >= 2 /\ ~Ended(2)
Heard(dash, i) == Nth("got" \o dash, i) \in DOMAIN mem /\ mem[Nth("got" \o dash, i)] = 1
AllHeard(dash) == \A i \in 0..Clients - 1 : Heard(dash, i)
WorkDone ==
  Over => CASE prog.name = "abc" -> mem.sum = Jobs
            [] prog.name = "fan" -> InTime => mem.sum = Jobs
            [] prog.name = "workerPool" -> InTime => mem.counter = Jobs
            [] prog.name \in {"bdcst12", "buffered"} -> AllHeard("")
            [] prog.name = "blocking" -> AllHeard("-")
            [] prog.name = "both" -> AllHeard("") /\ AllHeard("-")
            [] OTHER -> TRUE

\* The other programs end, a limit or a deadline passing when it may.
MayNotEnd == {"cndtr", "demo2 heartbeats", "blocking limited", "both limited", "condDemo",
              "bdcst", "bdcst12"}
Ends == prog.name \notin MayNotEnd => <>Over

\* A client that has registered by the time of the broadcast hears it, although
\* the other clients and the server spin, return or register meanwhile.
Registered(i) ==
  prog.name \in {"bdcst", "bdcst12"} /\ mem.sent = 0 /\ Contains(mem.clientOut, i)
RegisteredHear == \A i \in 0..Clients - 1 : Registered(i) ~> Heard("", i)
=============================================================================
