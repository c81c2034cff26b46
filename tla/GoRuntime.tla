----------------------------- MODULE GoRuntime -----------------------------
(***************************************************************************)
(* Goroutines, channels, select, close, contexts, wait groups, mutexes and *)
(* condition variables, as the Go runtime and the packages sync and        *)
(* context give them to the workloads (src/internal/workload).  None of it *)
(* is under src/: it is modelled from how the workloads use it.            *)
(*                                                                         *)
(* A goroutine is the sequence of statements it has still to execute.      *)
(* Control flow is local to a goroutine: Norm unfolds it together with the *)
(* step before it, so that the head of a sequence is always a statement    *)
(* that other goroutines may observe.  A sleep is no statement at all: a   *)
(* goroutine may be delayed before any of its steps.  A context is the     *)
(* channel of its Done method, closed when the context is cancelled.       *)
(***************************************************************************)
EXTENDS Integers, FiniteSets, Sequences, SequencesExt, TLC

VARIABLES
  prog,     \* what is being run: its name and the capacity of its channels
  todo,     \* todo[g]: what goroutine g has still to do; goroutine 1 is main
  buf,      \* buf[c]: the values in the buffer of channel c
  closed,   \* the channels that are closed
  count,    \* count[w]: the counter of wait group w
  lock,     \* lock[m]: -1 held for writing, n > 0 held by n readers, 0 free
  parked,   \* parked[c]: the goroutines waiting on condition variable c, in order
  mem,      \* mem[x]: the value of the shared variable x
  panicked  \* the program has panicked

vars == <<prog, todo, buf, closed, count, lock, parked, mem, panicked>>

-----------------------------------------------------------------------------
(* Statements *)

Closed == -1   \* what a receive yields on a closed and empty channel
Else == -2     \* any value that is not listed

Always(body) == (Else :> body)
On(on, v) == IF v \in DOMAIN on THEN on[v] ELSE on[Else]

SendCase(c, v, body) == [dir |-> "send", ch |-> c, val |-> v, on |-> Always(body)]
RecvCase(c, on) == [dir |-> "recv", ch |-> c, on |-> on]
TimeCase(body) == [dir |-> "time", on |-> Always(body)]

Select(cases) == [op |-> "comm", cases |-> cases]
SelectDefault(cases, body) == [op |-> "comm", cases |-> cases, default |-> body]
Send(c, v) == Select(<<SendCase(c, v, <<>>)>>)
Recv(c) == Select(<<RecvCase(c, Always(<<>>))>>)
RecvOk(c, body, eof) == Select(<<RecvCase(c, (Closed :> eof) @@ Always(body))>>)

Close(c) == [op |-> "close", ch |-> c]
Cancel(c) == [op |-> "cancel", ch |-> c]
\* go body, counted in the wait groups ws from the go statement to the end of
\* body; nobody can tell the Add before the go statement from the statement, nor
\* the deferred Done of one group from that of the next.
GoCounted(ws, body) == [op |-> "go", wgs |-> ws, body |-> body]
Go(body) == GoCounted({}, body)
Add(w, n) == [op |-> "add", wgs |-> {w}, n |-> n]
Done(w) == Add(w, -1)
Wait(w) == [op |-> "wait", wg |-> w]
Lock(m) == [op |-> "lock", mu |-> m]
Unlock(m) == [op |-> "unlock", mu |-> m]
RLock(m) == [op |-> "rlock", mu |-> m]
RUnlock(m) == [op |-> "runlock", mu |-> m]
CondWait(c, m) == [op |-> "condwait", cond |-> c, mu |-> m]
Signal(c) == [op |-> "signal", cond |-> c]
Broadcast(c) == [op |-> "broadcast", cond |-> c]
Set(x, v) == [op |-> "set", var |-> x, val |-> v]
Inc(x, n) == [op |-> "inc", var |-> x, n |-> n]
AtomicAdd(x, n) == [op |-> "atomic", var |-> x, n |-> n]
Push(x, v) == [op |-> "push", var |-> x, val |-> v]
Test(x, on) == [op |-> "test", var |-> x, on |-> on]
ForEach(x, body) == [op |-> "each", var |-> x, body |-> body]

\* A loop that has begun is "next": that is where its break leads to.
For(n, body) == [op |-> "loop", times |-> n, body |-> body]
Loop(body) == For(-1, body)   \* for {}: times stays below zero
Func(body, deferred) == [op |-> "func", body |-> body, deferred |-> deferred]
Break == [op |-> "break"]
Return == [op |-> "return"]

RangeOver(c, body) == Loop(<<RecvOk(c, body, <<Break>>)>>)
\* context.WithTimeout: the runtime cancels the context when its time is up.
WithTimeout(ctx) == Go(<<Cancel(ctx)>>)
Until(ctx, case) == Select(<<RecvCase(ctx, Always(<<Return>>)), case>>)

Nth(name, i) == name \o ToString(i)
Each(n, S(_)) == [i \in 1..n |-> S(i - 1)]   \* for i := 0; i < n; i++

\* The rest of a sequence of statements after the first of a kind.
After(s, ops) == SubSeq(s, SelectInSeq(s, LAMBDA t : t.op \in ops) + 1, Len(s))
From(s, ops) == SubSeq(s, SelectInSeq(s, LAMBDA t : t.op \in ops), Len(s))

RECURSIVE Norm(_)
Norm(s) ==
  IF s = <<>> THEN s
  ELSE LET h == Head(s)
           t == Tail(s)
       IN CASE h.op \in {"loop", "next"} ->
                 Norm(IF h.times = 0 THEN t
                      ELSE h.body \o <<[h EXCEPT !.op = "next", !.times = IF @ < 0 THEN @ ELSE @ - 1]>> \o t)
            [] h.op = "func" ->
                 Norm(h.body \o <<[op |-> "end", deferred |-> h.deferred]>> \o t)
            [] h.op = "end" -> Norm(h.deferred \o t)
            [] h.op = "break" -> Norm(After(t, {"next"}))
            [] h.op = "return" -> Norm(From(t, {"end"}))
            [] OTHER -> s

-----------------------------------------------------------------------------
(* Steps *)

Over == todo[1] = <<>>
Running(g) == ~panicked /\ ~Over /\ todo[g] # <<>>
At(g, op) == Running(g) /\ Head(todo[g]).op = op
Stmt(g) == Head(todo[g])
Continue(g, body) == [todo EXCEPT ![g] = Norm(body \o Tail(todo[g]))]
GoOn(g, body) == todo' = Continue(g, body)
Skip(g) == GoOn(g, <<>>)

Room(c) == Len(buf[c]) < prog.cap[c]
Meets(g, i, h, j) ==
  LET s == Stmt(g).cases[i]
      r == Stmt(h).cases[j]
  IN /\ g # h
     /\ s.dir = "send"
     /\ r.dir = "recv"
     /\ s.ch = r.ch
     /\ prog.cap[s.ch] = 0
     /\ s.ch \notin closed

Cases(g) == IF At(g, "comm") THEN DOMAIN Stmt(g).cases ELSE {}

\* Case i of g's select can be chosen without another goroutine's help.
Open(g, i) ==
  LET k == Stmt(g).cases[i]
  IN \/ k.dir = "time"
     \/ k.dir = "send" /\ (k.ch \in closed \/ Room(k.ch))
     \/ k.dir = "recv" /\ (k.ch \in closed \/ buf[k.ch] # <<>>)

\* ... or with one that has come to its own half of the communication.
Ready(g, i) ==
  \/ Open(g, i)
  \/ \E h \in DOMAIN todo : \E j \in Cases(h) : Meets(g, i, h, j) \/ Meets(h, j, g, i)

Communicate(g) ==
  \E i \in Cases(g) :
    LET k == Stmt(g).cases[i]
    IN /\ Open(g, i)
       /\ CASE k.dir = "time" -> GoOn(g, k.on[Else]) /\ UNCHANGED <<buf, panicked>>
            [] k.dir = "send" ->
                 /\ GoOn(g, k.on[Else])
                 /\ buf' = [buf EXCEPT ![k.ch] = Append(@, k.val)]
                 /\ panicked' = (k.ch \in closed)
            [] OTHER ->
                 /\ buf[k.ch] # <<>>
                 /\ GoOn(g, On(k.on, Head(buf[k.ch])))
                 /\ buf' = [buf EXCEPT ![k.ch] = Tail(@)]
                 /\ UNCHANGED panicked
       /\ UNCHANGED <<prog, closed, count, lock, parked, mem>>

ReceiveClosed(g) ==
  /\ \E i \in Cases(g) :
       LET k == Stmt(g).cases[i]
       IN /\ k.dir = "recv"
          /\ k.ch \in closed
          /\ buf[k.ch] = <<>>
          /\ GoOn(g, On(k.on, Closed))
  /\ UNCHANGED <<prog, buf, closed, count, lock, parked, mem, panicked>>

Rendezvous(g, h) ==
  /\ \E i \in Cases(g), j \in Cases(h) :
       /\ Meets(g, i, h, j)
       /\ LET s == Stmt(g).cases[i]
              r == Stmt(h).cases[j]
          IN todo' = [todo EXCEPT ![g] = Norm(s.on[Else] \o Tail(@)),
                                  ![h] = Norm(On(r.on, s.val) \o Tail(@))]
  /\ UNCHANGED <<prog, buf, closed, count, lock, parked, mem, panicked>>

Default(g) ==
  /\ At(g, "comm")
  /\ "default" \in DOMAIN Stmt(g)
  /\ \A i \in Cases(g) : ~Ready(g, i)
  /\ GoOn(g, Stmt(g).default)
  /\ UNCHANGED <<prog, buf, closed, count, lock, parked, mem, panicked>>

CloseChannel(g) ==
  /\ At(g, "close") \/ At(g, "cancel")
  /\ panicked' = (Stmt(g).op = "close" /\ Stmt(g).ch \in closed)
  /\ closed' = closed \union {Stmt(g).ch}
  /\ Skip(g)
  /\ UNCHANGED <<prog, buf, count, lock, parked, mem>>

\* Go statements that follow one another are one step: a new goroutine may be
\* delayed, so that nobody can tell them apart.
Spawned(g) ==
  LET other == SelectInSeq(todo[g], LAMBDA t : t.op # "go")
  IN IF other = 0 THEN todo[g] ELSE SubSeq(todo[g], 1, other - 1)

Spawn(g) ==
  /\ At(g, "go")
  /\ LET new == Spawned(g)
     IN /\ todo' = [todo EXCEPT ![g] = Norm(SubSeq(@, Len(new) + 1, Len(@)))]
                    \o [i \in DOMAIN new |->
                          Norm(<<Func(new[i].body,
                                      IF new[i].wgs = {} THEN <<>>
                                      ELSE <<[op |-> "add", wgs |-> new[i].wgs, n |-> -1]>>)>>)]
        /\ count' = [w \in DOMAIN count |->
                        count[w] + Cardinality({i \in DOMAIN new : w \in new[i].wgs})]
  /\ UNCHANGED <<prog, buf, closed, lock, parked, mem, panicked>>

AddToGroup(g) ==
  /\ At(g, "add")
  /\ count' = [w \in DOMAIN count |->
                 IF w \in Stmt(g).wgs THEN count[w] + Stmt(g).n ELSE count[w]]
  /\ panicked' = (\E w \in DOMAIN count : count'[w] < 0)
  /\ Skip(g)
  /\ UNCHANGED <<prog, buf, closed, lock, parked, mem>>

WaitForGroup(g) ==
  /\ At(g, "wait")
  /\ count[Stmt(g).wg] = 0
  /\ Skip(g)
  /\ UNCHANGED <<prog, buf, closed, count, lock, parked, mem, panicked>>

SetLock(g, v) ==
  /\ lock' = [lock EXCEPT ![Stmt(g).mu] = v]
  /\ Skip(g)
  /\ UNCHANGED <<prog, buf, closed, count, parked, mem, panicked>>

Mutex(g) ==
  \/ At(g, "lock") /\ lock[Stmt(g).mu] = 0 /\ SetLock(g, -1)
  \/ At(g, "rlock") /\ lock[Stmt(g).mu] >= 0 /\ SetLock(g, lock[Stmt(g).mu] + 1)
  \/ At(g, "unlock") /\ SetLock(g, 0)
  \/ At(g, "runlock") /\ SetLock(g, lock[Stmt(g).mu] - 1)

\* Wait gives the mutex up and queues the goroutine in one step; the goroutine
\* takes the mutex again when a signal has removed it from the queue.
Park(g) ==
  /\ At(g, "condwait")
  /\ parked' = [parked EXCEPT ![Stmt(g).cond] = Append(@, g)]
  /\ lock' = [lock EXCEPT ![Stmt(g).mu] = 0]
  /\ GoOn(g, <<[Stmt(g) EXCEPT !.op = "parked"]>>)
  /\ UNCHANGED <<prog, buf, closed, count, mem, panicked>>

Unpark(g) ==
  /\ At(g, "parked")
  /\ ~Contains(parked[Stmt(g).cond], g)
  /\ lock[Stmt(g).mu] = 0
  /\ SetLock(g, -1)

Wake(g) ==
  /\ At(g, "signal") \/ At(g, "broadcast")
  /\ parked' = [parked EXCEPT ![Stmt(g).cond] =
                  IF Stmt(g).op = "broadcast" \/ @ = <<>> THEN <<>> ELSE Tail(@)]
  /\ Skip(g)
  /\ UNCHANGED <<prog, buf, closed, count, lock, mem, panicked>>

Write(g) ==
  /\ \/ At(g, "set") /\ mem' = [mem EXCEPT ![Stmt(g).var] = Stmt(g).val]
     \/ (At(g, "inc") \/ At(g, "atomic")) /\ mem' = [mem EXCEPT ![Stmt(g).var] = @ + Stmt(g).n]
     \/ At(g, "push") /\ mem' = [mem EXCEPT ![Stmt(g).var] = Append(@, Stmt(g).val)]
  /\ Skip(g)
  /\ UNCHANGED <<prog, buf, closed, count, lock, parked, panicked>>

Read(g) ==
  /\ \/ At(g, "test") /\ GoOn(g, On(Stmt(g).on, mem[Stmt(g).var]))
     \/ /\ At(g, "each")
        /\ GoOn(g, FlattenSeq([i \in DOMAIN mem[Stmt(g).var] |->
                                   Stmt(g).body[mem[Stmt(g).var][i]]]))
  /\ UNCHANGED <<prog, buf, closed, count, lock, parked, mem, panicked>>

Step(g) ==
  \/ Communicate(g) \/ ReceiveClosed(g) \/ Default(g) \/ CloseChannel(g) \/ Spawn(g)
  \/ AddToGroup(g) \/ WaitForGroup(g) \/ Mutex(g) \/ Park(g) \/ Unpark(g)
  \/ Wake(g) \/ Write(g) \/ Read(g)
  \/ \E h \in DOMAIN todo : Rendezvous(g, h) \/ Rendezvous(h, g)

-----------------------------------------------------------------------------
(* A program: its channels with their capacities, its wait groups, mutexes,
   condition variables and shared variables, and its main function. *)
Program(name, cap, groups, locks, conds, vals, main) ==
  [name |-> name, cap |-> cap, groups |-> groups, locks |-> locks,
   conds |-> conds, vals |-> vals, main |-> main]

Start(p) ==
  /\ prog = [name |-> p.name, cap |-> p.cap]
  /\ todo = <<Norm(p.main)>>
  /\ buf = [c \in DOMAIN p.cap |-> <<>>]
  /\ closed = {}
  /\ count = [w \in p.groups |-> 0]
  /\ lock = [m \in p.locks |-> 0]
  /\ parked = [c \in p.conds |-> <<>>]
  /\ mem = p.vals
  /\ panicked = FALSE

\* The processor is given to every goroutine that can use it, and a select does
\* not pass over the same closed channel for ever, for it chooses at random.
Goroutine(g) == g \in DOMAIN todo /\ Step(g)
FairGoroutine(g) ==
  /\ WF_vars(Goroutine(g))
  /\ SF_vars(g \in DOMAIN todo /\ ReceiveClosed(g))

\* No goroutine of a program that has not ended can take a step.
Stuck == ~panicked /\ ~Over /\ \A g \in DOMAIN todo : ~ENABLED Step(g)
Ended(g) == todo[g] = <<>>

\* What the next statement of g does to the shared variables.
Accesses(g) ==
  IF Running(g) /\ Stmt(g).op \in {"set", "inc", "push", "test", "each"}
  THEN {[var |-> Stmt(g).var, write |-> Stmt(g).op \in {"set", "inc", "push"}]} ELSE {}
Racing(g, h) ==
  g # h /\ \E a \in Accesses(g), b \in Accesses(h) : a.var = b.var /\ (a.write \/ b.write)

=============================================================================
