----------------------------- MODULE RunnerStop -----------------------------
(***************************************************************************)
(* How a traced process stops (cmd/gtv-runner/main.go, main.go,            *)
(* internal/gtvtrace): the workload returns, -timeout or GTV_TIMEOUT_MS    *)
(* runs out, or a signal arrives, possibly all at once, and whoever comes  *)
(* first stops the trace, flushes it and exits.  os.Exit runs no defers    *)
(* and waits for nobody, so every caller has to find the trace complete.   *)
(*                                                                         *)
(* Three goroutines may stop the process: main, the signal handler and the *)
(* timer.  runtime/trace is external: events go to a writer goroutine, and *)
(* trace.Stop returns when it has written them all.  The parent reads the  *)
(* trace from a pipe unless it is written to a file, and may stop reading. *)
(***************************************************************************)
EXTENDS Naturals

CONSTANT MaxEvents    \* bound: events traced

ASSUME RunnerStopAssumption == MaxEvents \in Nat

Caller == {"main", "signal", "timer"}

\* What is chosen for a run: -timeout is given; GTV_TIMEOUT_MS is set; the trace
\* goes to a file of its own; a flush hook converts the file (main.go).
Options == {"timeout", "envTimeout", "file", "hook"}

VARIABLES
    opts,       \* the options chosen
    workload,   \* "running" or "done"
    pc,         \* where each caller is
    stopOnce,   \* "free", the caller that is inside, or "done"
    flushOnce,
    tracer,     \* "on" or "off"
    made,       \* events traced
    written,    \* events the writer has written
    reader,     \* the parent: "reading" or "gone"
    file,       \* the trace file: "open" or "closed"
    parsed,     \* the hook ran, and found this many events (plus one)
    sigs,       \* signals in the handler's channel, capacity 2
    parent,     \* signals the parent has sent
    process     \* "running", "exited" or "killed"

trace == <<tracer, made, written, reader>>
output == <<file, parsed>>
outside == <<sigs, parent>>
vars == <<opts, workload, pc, stopOnce, flushOnce, trace, output, outside, process>>

Init ==
    /\ opts \in SUBSET Options /\ ("hook" \in opts => "file" \in opts)
    /\ workload = "running"
    /\ pc = [c \in Caller |-> "wait"]
    /\ stopOnce = "free" /\ flushOnce = "free"
    /\ tracer = "on" /\ made = 0 /\ written = 0 /\ reader = "reading"
    /\ file = "open" /\ parsed = 0
    /\ sigs = 0 /\ parent = 0
    /\ process = "running"

Goto(c, l) == pc' = [pc EXCEPT ![c] = l]

-----------------------------------------------------------------------------
(* runtime/trace and the workload.                                         *)

Trace ==
    /\ process = "running" /\ tracer = "on" /\ made < MaxEvents
    /\ made' = made + 1
    /\ UNCHANGED <<opts, workload, pc, stopOnce, flushOnce, tracer, written, reader,
                   output, outside, process>>

Write ==
    /\ process = "running" /\ reader = "reading" /\ written < made
    /\ written' = written + 1
    /\ UNCHANGED <<opts, workload, pc, stopOnce, flushOnce, tracer, made, reader,
                   output, outside, process>>

WorkloadReturns ==
    /\ process = "running" /\ workload = "running"
    /\ workload' = "done"
    /\ UNCHANGED <<opts, pc, stopOnce, flushOnce, trace, output, outside, process>>

-----------------------------------------------------------------------------
(* The parent.                                                             *)

\* withTimeoutSignals: interrupt, terminate, kill.  A signal may only reach
\* the go run process in between; a full channel drops it.
ParentSignals ==
    /\ process = "running" /\ parent < 2
    /\ parent' = parent + 1
    /\ \/ sigs' = IF sigs < 2 THEN sigs + 1 ELSE sigs
       \/ UNCHANGED sigs
    /\ UNCHANGED <<opts, workload, pc, stopOnce, flushOnce, trace, output, process>>

ParentKills ==
    /\ process = "running" /\ parent = 2
    /\ parent' = 3
    /\ process' = "killed"
    /\ UNCHANGED <<opts, workload, pc, stopOnce, flushOnce, trace, output, sigs>>

ParentStopsReading ==
    /\ process = "running" /\ reader = "reading" /\ "file" \notin opts
    /\ reader' = "gone"
    /\ UNCHANGED <<opts, workload, pc, stopOnce, flushOnce, tracer, made, written,
                   output, outside, process>>

-----------------------------------------------------------------------------
(* What makes each caller stop the process.                                *)

Told(c) ==
    \/ c = "main" /\ (workload = "done" \/ "timeout" \in opts)
    \/ c = "timer" /\ "envTimeout" \in opts
    \/ c = "signal" /\ sigs > 0

\* Mutant: flushes first, as the deferred calls of main would in the other order.
BeginByFlush(c) ==
    /\ process = "running" /\ pc[c] = "wait" /\ Told(c)
    /\ Goto(c, "flush")
    /\ sigs' = IF c = "signal" THEN sigs - 1 ELSE sigs
    /\ UNCHANGED <<opts, workload, stopOnce, flushOnce, trace, output, parent, process>>

Begin(c) ==
    /\ process = "running" /\ pc[c] = "wait" /\ Told(c)
    /\ Goto(c, "stop")
    /\ sigs' = IF c = "signal" THEN sigs - 1 ELSE sigs
    /\ UNCHANGED <<opts, workload, stopOnce, flushOnce, trace, output, parent, process>>

-----------------------------------------------------------------------------
(* StopIdempotent, FlushIdempotent and os.Exit.  sync.Once lets the first  *)
(* caller in and holds the others back until it has returned.              *)

\* Mutant: a flag instead of the Once, which does not wait.
StopCallFlag(c) ==
    /\ process = "running" /\ pc[c] = "stop"
    /\ \/ /\ stopOnce = "free"
          /\ stopOnce' = c /\ tracer' = "off" /\ Goto(c, "stopping")
       \/ /\ stopOnce # "free"
          /\ Goto(c, "flush") /\ UNCHANGED <<stopOnce, tracer>>
    /\ UNCHANGED <<opts, workload, flushOnce, made, written, reader, output, outside, process>>

StopCall(c) ==
    /\ process = "running" /\ pc[c] = "stop"
    /\ \/ /\ stopOnce = "free"
          /\ stopOnce' = c /\ tracer' = "off" /\ Goto(c, "stopping")
       \/ /\ stopOnce = "done"
          /\ Goto(c, "flush") /\ UNCHANGED <<stopOnce, tracer>>
    /\ UNCHANGED <<opts, workload, flushOnce, made, written, reader, output, outside, process>>

\* Mutant: the stop waits for the workload.
StopReturnsAfterWorkload(c) ==
    /\ process = "running" /\ pc[c] = "stopping" /\ written = made /\ workload = "done"
    /\ stopOnce' = "done" /\ Goto(c, "flush")
    /\ UNCHANGED <<opts, workload, flushOnce, trace, output, outside, process>>

\* trace.Stop returns when the writer has written everything.
StopReturns(c) ==
    /\ process = "running" /\ pc[c] = "stopping" /\ written = made
    /\ stopOnce' = "done" /\ Goto(c, "flush")
    /\ UNCHANGED <<opts, workload, flushOnce, trace, output, outside, process>>

FlushCall(c) ==
    /\ process = "running" /\ pc[c] = "flush"
    /\ \/ flushOnce = "free" /\ flushOnce' = c /\ Goto(c, "close")
       \/ flushOnce = "done" /\ Goto(c, "exit") /\ UNCHANGED flushOnce
    /\ UNCHANGED <<opts, workload, stopOnce, trace, output, outside, process>>

\* Mutant: closing stops the trace again, from inside FlushIdempotent.
FlushCloseStopping(c) ==
    /\ process = "running" /\ pc[c] = "close"
    /\ Goto(c, "stop")
    /\ UNCHANGED <<opts, workload, stopOnce, flushOnce, trace, output, outside, process>>

\* The file is synced and closed if it is ours.
FlushClose(c) ==
    /\ process = "running" /\ pc[c] = "close"
    /\ file' = IF "file" \in opts THEN "closed" ELSE file
    /\ Goto(c, "hook")
    /\ UNCHANGED <<opts, workload, stopOnce, flushOnce, trace, parsed, outside, process>>

\* The hook reads the file back; flushOnce is done when it returns.
FlushHook(c) ==
    /\ process = "running" /\ pc[c] = "hook"
    /\ parsed' = IF "hook" \in opts THEN written + 1 ELSE parsed
    /\ flushOnce' = "done"
    /\ Goto(c, "exit")
    /\ UNCHANGED <<opts, workload, stopOnce, trace, file, outside, process>>

\* os.Exit, or the return of main.
Exit(c) ==
    /\ process = "running" /\ pc[c] = "exit"
    /\ process' = "exited"
    /\ UNCHANGED <<opts, workload, pc, stopOnce, flushOnce, trace, output, outside>>

Stop(c) ==
    \/ Begin(c) \/ StopCall(c) \/ StopReturns(c)
    \/ FlushCall(c) \/ FlushClose(c) \/ FlushHook(c) \/ Exit(c)

Next ==
    \/ Trace \/ Write \/ WorkloadReturns
    \/ ParentSignals \/ ParentKills \/ ParentStopsReading
    \/ \E c \in Caller : Stop(c)

Spec == Init /\ [][Next]_vars

\* The scheduler runs the writer and the three callers; timers run out.
\* Nothing makes the workload return or the parent act.
FairSpec == Spec /\ WF_vars(Write) /\ \A c \in Caller : WF_vars(Stop(c))

-----------------------------------------------------------------------------
(* Properties.                                                             *)

Step == {"wait", "stop", "stopping", "flush", "close", "hook", "exit"}

\* Types, and the bounds of the counters.
TypeOK ==
    /\ opts \subseteq Options /\ workload \in {"running", "done"}
    /\ pc \in [Caller -> Step]
    /\ stopOnce \in Caller \union {"free", "done"}
    /\ flushOnce \in Caller \union {"free", "done"}
    /\ tracer \in {"on", "off"} /\ reader \in {"reading", "gone"} /\ file \in {"open", "closed"}
    /\ made \in Nat /\ written \in 0..made /\ parsed \in Nat
    /\ sigs \in 0..2 /\ parent \in 0..3
    /\ process \in {"running", "exited", "killed"}

\* A process that exits by itself leaves a complete trace: every event traced
\* is written, its file is closed, and the hook has converted all of it.
\* Only a kill truncates the trace.
ExitComplete ==
    process = "exited" =>
        /\ tracer = "off" /\ written = made
        /\ "file" \in opts => file = "closed"
        /\ "hook" \in opts => parsed = made + 1

\* The file is never closed while events may still be written to it, whichever
\* caller closes it.
ClosedWhenStopped == file = "closed" => tracer = "off" /\ written = made

\* With either timeout the process ends although the workload does not return,
\* unless the parent has stopped reading the trace.
EndsInTime ==
    opts \intersect {"timeout", "envTimeout"} # {} => <>(process # "running" \/ reader = "gone")

-----------------------------------------------------------------------------
(* Why a process with a deadline ends: who can go on, and what is left.    *)

WriterCan == reader = "reading" /\ written < made

CanGoOn(c) ==
    \/ pc[c] = "wait" /\ Told(c)
    \/ pc[c] = "stop" /\ stopOnce \in {"free", "done"}
    \/ pc[c] = "stopping" /\ written = made
    \/ pc[c] = "flush" /\ flushOnce \in {"free", "done"}
    \/ pc[c] \in {"close", "hook", "exit"}

\* Steps a caller has still to go.
StepsLeft(l) ==
    CASE l = "wait" -> 6 [] l = "stop" -> 5 [] l = "stopping" -> 4
      [] l = "flush" -> 3 [] l = "close" -> 2 [] l = "hook" -> 1
      [] OTHER -> 0

Work ==
    2 * (MaxEvents - made) + (made - written) + (3 - parent)
    + StepsLeft(pc["main"]) + StepsLeft(pc["signal"]) + StepsLeft(pc["timer"])
    + (IF workload = "running" THEN 1 ELSE 0)
    + (IF reader = "reading" THEN 1 ELSE 0) + (IF process = "running" THEN 1 ELSE 0)

\* The callers never hold one another up in the two Onces: as soon as one is told
\* to stop, the writer or one of the callers can go on until the process has ended
\* or the parent has stopped reading; and every step uses up some of a finite
\* amount of work.  With a scheduler that runs whoever can go on, the process ends
\* (EndsInTime, where a timeout tells main or the timer).
StopProgresses ==
    /\ [](process = "running" /\ reader = "reading"
            /\ (\E c \in Caller : pc[c] # "wait" \/ Told(c))
              => WriterCan \/ \E c \in Caller : CanGoOn(c))
    /\ [](Work \in Nat) /\ [][Work' < Work]_vars
=============================================================================
