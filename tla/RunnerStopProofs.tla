------------------------- MODULE RunnerStopProofs -------------------------
(***************************************************************************)
(* A process that exits by itself leaves a complete trace, for any number  *)
(* of events and every interleaving of main, signal handler and timer.     *)
(*                                                                         *)
(* The argument follows the two Onces.  Only the caller inside stopOnce is *)
(* stopping; nobody is past the stop before stopOnce is done, and then the *)
(* tracer is off and everything is written, for good.  In the same way     *)
(* only the caller inside flushOnce touches the file, and nobody reaches   *)
(* the exit before flushOnce is done.                                      *)
(***************************************************************************)
EXTENDS RunnerStop, Integers, TLAPS

\* The steps that follow StopIdempotent, those inside FlushIdempotent's Once.
AfterStop   == {"flush", "close", "hook", "exit"}
InsideFlush == {"close", "hook"}

StopInv ==
    /\ \A c \in Caller : pc[c] = "stopping" => stopOnce = c
    /\ \A c \in Caller : pc[c] \in AfterStop => stopOnce = "done"
    /\ stopOnce # "free" => tracer = "off"
    /\ stopOnce = "done" => written = made

FlushInv ==
    /\ \A c \in Caller : pc[c] \in InsideFlush => flushOnce = c
    /\ \A c \in Caller : pc[c] = "hook" /\ "file" \in opts => file = "closed"
    /\ \A c \in Caller : pc[c] = "exit" => flushOnce = "done"
    /\ flushOnce # "free" \/ file = "closed" => stopOnce = "done"
    /\ flushOnce = "done" =>
          /\ "file" \in opts => file = "closed"
          /\ "hook" \in opts => parsed = made + 1

ExitInv == process = "exited" => stopOnce = "done" /\ flushOnce = "done"

IInv == TypeOK /\ StopInv /\ FlushInv /\ ExitInv

-----------------------------------------------------------------------------
LEMMA Initially == Init => IInv
  BY RunnerStopAssumption
  DEF Init, IInv, TypeOK, StopInv, FlushInv, ExitInv, AfterStop, InsideFlush,
      Options, Caller, Step

LEMMA TypeStep == TypeOK /\ [Next]_vars => TypeOK'
<1> SUFFICES ASSUME TypeOK, [Next]_vars PROVE TypeOK'
  OBVIOUS
<1> USE DEF TypeOK, trace, output, outside
<1>1. CASE Trace
  BY <1>1 DEF Trace
<1>2. CASE Write
  BY <1>2 DEF Write
<1>3. CASE WorkloadReturns
  BY <1>3 DEF WorkloadReturns
<1>4. CASE ParentSignals
  BY <1>4 DEF ParentSignals
<1>5. CASE ParentKills
  BY <1>5 DEF ParentKills
<1>6. CASE ParentStopsReading
  BY <1>6 DEF ParentStopsReading
<1>7. ASSUME NEW c \in Caller, Stop(c) PROVE TypeOK'
  <2> USE DEF Goto, Step
  <2>1. CASE Begin(c)
    BY <2>1 DEF Begin, Told
  <2>2. CASE StopCall(c)
    BY <2>2 DEF StopCall
  <2>3. CASE StopReturns(c)
    BY <2>3 DEF StopReturns
  <2>4. CASE FlushCall(c)
    BY <2>4 DEF FlushCall
  <2>5. CASE FlushClose(c)
    BY <2>5 DEF FlushClose
  <2>6. CASE FlushHook(c)
    BY <2>6 DEF FlushHook
  <2>7. CASE Exit(c)
    BY <2>7 DEF Exit
  <2>8. QED
    BY <1>7, <2>1, <2>2, <2>3, <2>4, <2>5, <2>6, <2>7 DEF Stop
<1>8. CASE UNCHANGED vars
  BY <1>8 DEF vars
<1>9. QED
  BY <1>1, <1>2, <1>3, <1>4, <1>5, <1>6, <1>7, <1>8 DEF Next

-----------------------------------------------------------------------------
\* Nobody is past the stop before it has returned, and then nothing is left to
\* be written.
LEMMA StopStep == IInv /\ [Next]_vars => StopInv'
<1> SUFFICES ASSUME IInv, [Next]_vars PROVE StopInv'
  OBVIOUS
<1> USE DEF IInv, TypeOK, StopInv, AfterStop, trace, output, outside
<1>1. CASE Trace
  BY <1>1 DEF Trace
<1>2. CASE Write
  BY <1>2 DEF Write
<1>3. CASE WorkloadReturns
  BY <1>3 DEF WorkloadReturns
<1>4. CASE ParentSignals
  BY <1>4 DEF ParentSignals
<1>5. CASE ParentKills
  BY <1>5 DEF ParentKills
<1>6. CASE ParentStopsReading
  BY <1>6 DEF ParentStopsReading
<1>7. ASSUME NEW c \in Caller, Stop(c) PROVE StopInv'
  <2> USE DEF Goto, Step, Caller
  <2>1. CASE Begin(c)
    BY <2>1 DEF Begin
  <2>2. CASE StopCall(c)
    BY <2>2 DEF StopCall
  <2>3. CASE StopReturns(c)
    BY <2>3 DEF StopReturns
  <2>4. CASE FlushCall(c)
    BY <2>4 DEF FlushCall
  <2>5. CASE FlushClose(c)
    BY <2>5 DEF FlushClose
  <2>6. CASE FlushHook(c)
    BY <2>6 DEF FlushHook
  <2>7. CASE Exit(c)
    BY <2>7 DEF Exit
  <2>8. QED
    BY <1>7, <2>1, <2>2, <2>3, <2>4, <2>5, <2>6, <2>7 DEF Stop
<1>8. CASE UNCHANGED vars
  BY <1>8 DEF vars
<1>9. QED
  BY <1>1, <1>2, <1>3, <1>4, <1>5, <1>6, <1>7, <1>8 DEF Next

\* Nobody leaves before the file is closed and converted.
LEMMA FlushStep == IInv /\ [Next]_vars => FlushInv' /\ ExitInv'
<1> SUFFICES ASSUME IInv, [Next]_vars PROVE FlushInv' /\ ExitInv'
  OBVIOUS
<1> USE DEF IInv, TypeOK, StopInv, FlushInv, ExitInv, AfterStop, InsideFlush,
            trace, output, outside
<1>1. CASE Trace
  BY <1>1 DEF Trace
<1>2. CASE Write
  BY <1>2 DEF Write
<1>3. CASE WorkloadReturns
  BY <1>3 DEF WorkloadReturns
<1>4. CASE ParentSignals
  BY <1>4 DEF ParentSignals
<1>5. CASE ParentKills
  BY <1>5 DEF ParentKills
<1>6. CASE ParentStopsReading
  BY <1>6 DEF ParentStopsReading
<1>7. ASSUME NEW c \in Caller, Stop(c) PROVE FlushInv' /\ ExitInv'
  <2> USE DEF Goto, Step, Caller
  <2>1. CASE Begin(c)
    BY <2>1 DEF Begin
  <2>2. CASE StopCall(c)
    BY <2>2 DEF StopCall
  <2>3. CASE StopReturns(c)
    BY <2>3 DEF StopReturns
  <2>4. CASE FlushCall(c)
    BY <2>4 DEF FlushCall
  <2>5. CASE FlushClose(c)
    BY <2>5 DEF FlushClose
  <2>6. CASE FlushHook(c)
    BY <2>6 DEF FlushHook
  <2>7. CASE Exit(c)
    BY <2>7 DEF Exit
  <2>8. QED
    BY <1>7, <2>1, <2>2, <2>3, <2>4, <2>5, <2>6, <2>7 DEF Stop
<1>8. CASE UNCHANGED vars
  BY <1>8 DEF vars
<1>9. QED
  BY <1>1, <1>2, <1>3, <1>4, <1>5, <1>6, <1>7, <1>8 DEF Next

-----------------------------------------------------------------------------
\* The invariant of stopping: a process is past its stop only with a complete
\* trace, and past its flush only with a closed and converted file.
THEOREM StopInvariance == Spec => []IInv
<1>1. IInv /\ [Next]_vars => IInv'
  BY TypeStep, StopStep, FlushStep DEF IInv
<1>2. QED
  BY Initially, <1>1, PTL DEF Spec

\* Every variable keeps its type, for all options and numbers of events.
THEOREM TypeCorrect == Spec => []TypeOK
<1>1. IInv => TypeOK
  BY DEF IInv
<1>2. QED
  BY StopInvariance, <1>1, PTL

\* Whoever of main, signal handler and timer exits first leaves every event
\* written, the file closed and the hook's conversion complete.
THEOREM ExitsComplete == Spec => []ExitComplete
<1>1. IInv => ExitComplete
  BY DEF IInv, StopInv, FlushInv, ExitInv, ExitComplete
<1>2. QED
  BY StopInvariance, <1>1, PTL

\* The trace file is never closed under the trace writer.
THEOREM ClosesAfterStop == Spec => []ClosedWhenStopped
<1>1. IInv => ClosedWhenStopped
  BY DEF IInv, StopInv, FlushInv, ClosedWhenStopped
<1>2. QED
  BY StopInvariance, <1>1, PTL
-----------------------------------------------------------------------------
(* Progress: a caller that is told to stop is never held up for good.       *)

\* Whoever is inside a Once is at one of its steps, and the trace is bounded.
OnceInv ==
    /\ stopOnce \in Caller => pc[stopOnce] = "stopping"
    /\ flushOnce \in Caller => pc[flushOnce] \in InsideFlush
    /\ made <= MaxEvents

LEMMA OnceInit == Init => OnceInv
  BY RunnerStopAssumption DEF Init, OnceInv, Caller

\* A caller enters and leaves a Once with the step that takes or releases it.
LEMMA OnceStep == IInv /\ OnceInv /\ [Next]_vars => OnceInv'
<1> SUFFICES ASSUME IInv, OnceInv, [Next]_vars PROVE OnceInv'
  OBVIOUS
<1> USE DEF IInv, TypeOK, StopInv, FlushInv, AfterStop, InsideFlush, OnceInv, Caller,
            trace, output, outside
<1>1. CASE Trace
  BY <1>1, RunnerStopAssumption DEF Trace
<1>2. CASE Write \/ WorkloadReturns
  BY <1>2 DEF Write, WorkloadReturns
<1>3. CASE ParentSignals \/ ParentKills \/ ParentStopsReading
  BY <1>3 DEF ParentSignals, ParentKills, ParentStopsReading
<1>4. ASSUME NEW c \in Caller, Stop(c) PROVE OnceInv'
  <2> USE DEF Goto
  <2>1. CASE Begin(c)
    BY <2>1 DEF Begin
  <2>2. CASE StopCall(c)
    BY <2>2 DEF StopCall
  <2>3. CASE StopReturns(c)
    BY <2>3 DEF StopReturns
  <2>4. CASE FlushCall(c)
    BY <2>4 DEF FlushCall
  <2>5. CASE FlushClose(c)
    BY <2>5 DEF FlushClose
  <2>6. CASE FlushHook(c)
    BY <2>6 DEF FlushHook
  <2>7. CASE Exit(c)
    BY <2>7 DEF Exit
  <2> QED
    BY <1>4, <2>1, <2>2, <2>3, <2>4, <2>5, <2>6, <2>7 DEF Stop
<1>5. CASE UNCHANGED vars
  BY <1>5 DEF vars
<1> QED
  BY <1>1, <1>2, <1>3, <1>4, <1>5 DEF Next

\* The caller that was told waits at most for the one inside a Once, and that one
\* waits at most for the writer.
LEMMA NobodyHeldUp ==
  IInv /\ OnceInv =>
    (process = "running" /\ reader = "reading" /\ (\E c \in Caller : pc[c] # "wait" \/ Told(c))
        => WriterCan \/ \E c \in Caller : CanGoOn(c))
<1> SUFFICES ASSUME IInv, OnceInv, reader = "reading",
                    NEW c \in Caller, pc[c] # "wait" \/ Told(c)
             PROVE  WriterCan \/ \E d \in Caller : CanGoOn(d)
  OBVIOUS
<1> USE DEF IInv, TypeOK, StopInv, FlushInv, AfterStop, InsideFlush, OnceInv
<1>1. CASE stopOnce \in Caller
  <2>1. pc[stopOnce] = "stopping"
    BY <1>1
  <2>2. written = made \/ written < made
    OBVIOUS
  <2> QED
    BY <1>1, <2>1, <2>2 DEF WriterCan, CanGoOn
<1>2. CASE flushOnce \in Caller
  BY <1>2 DEF CanGoOn
<1>3. CASE stopOnce \in {"free", "done"} /\ flushOnce \in {"free", "done"}
  <2>1. pc[c] # "stopping"
    BY <1>3 DEF Caller
  <2> QED
    BY <1>3, <2>1 DEF CanGoOn, Step
<1> QED
  BY <1>1, <1>2, <1>3

\* What the steps of a caller are worth.
LEMMA StepsWorth ==
  /\ StepsLeft("wait") = 6 /\ StepsLeft("stop") = 5 /\ StepsLeft("stopping") = 4
  /\ StepsLeft("flush") = 3 /\ StepsLeft("close") = 2 /\ StepsLeft("hook") = 1
  /\ StepsLeft("exit") = 0
  /\ \A l : StepsLeft(l) \in Nat
<1>1. \A l : StepsLeft(l) \in Nat
  BY DEF StepsLeft
<1> QED
  BY <1>1 DEF StepsLeft

\* What is left for the callers, and what is left for the others.
CallersLeft == StepsLeft(pc["main"]) + StepsLeft(pc["signal"]) + StepsLeft(pc["timer"])
OthersLeft ==
    2 * (MaxEvents - made) + (made - written) + (3 - parent)
    + (IF workload = "running" THEN 1 ELSE 0)
    + (IF reader = "reading" THEN 1 ELSE 0) + (IF process = "running" THEN 1 ELSE 0)

LEMMA LeftTypes ==
  IInv /\ OnceInv => CallersLeft \in Nat /\ OthersLeft \in Nat /\ Work = OthersLeft + CallersLeft
<1> SUFFICES ASSUME IInv, OnceInv
             PROVE  CallersLeft \in Nat /\ OthersLeft \in Nat /\ Work = OthersLeft + CallersLeft
  OBVIOUS
<1>1. /\ made \in Nat /\ written \in 0..made /\ parent \in 0..3 /\ made <= MaxEvents
      /\ MaxEvents \in Nat
  BY RunnerStopAssumption DEF IInv, TypeOK, OnceInv
<1>2. /\ StepsLeft(pc["main"]) \in Nat /\ StepsLeft(pc["signal"]) \in Nat
      /\ StepsLeft(pc["timer"]) \in Nat
  BY StepsWorth
<1>3. CallersLeft \in Nat
  BY ONLY <1>2 DEF CallersLeft
<1>4. OthersLeft \in Nat
  BY ONLY <1>1 DEF OthersLeft
<1>5. Work = OthersLeft + CallersLeft
  BY ONLY <1>1, <1>2 DEF Work, OthersLeft, CallersLeft
<1> QED
  BY <1>3, <1>4, <1>5

\* A caller's step brings it nearer to its exit, or ends the process.
LEMMA CallerWorks ==
  ASSUME IInv, OnceInv, NEW c \in Caller, Stop(c)
  PROVE  /\ OthersLeft' <= OthersLeft /\ CallersLeft' <= CallersLeft
         /\ OthersLeft' < OthersLeft \/ CallersLeft' < CallersLeft
<1>1. /\ made \in Nat /\ written \in 0..made /\ parent \in 0..3 /\ MaxEvents \in Nat
      /\ UNCHANGED <<made, written, parent, workload, reader>>
  BY RunnerStopAssumption
  DEF IInv, TypeOK, Stop, Begin, StopCall, StopReturns, FlushCall, FlushClose, FlushHook,
      Exit, trace, outside
<1>2. CASE Exit(c)
  <2>1. process = "running" /\ process' = "exited" /\ pc' = pc
    BY <1>2 DEF Exit
  <2>2. OthersLeft' < OthersLeft
    BY ONLY <1>1, <2>1 DEF OthersLeft
  <2>3. CallersLeft' = CallersLeft
    BY <2>1 DEF CallersLeft
  <2>4. OthersLeft \in Nat /\ CallersLeft \in Nat
    BY LeftTypes
  <2>5. OthersLeft' \in Int
    BY ONLY <1>1, <2>1 DEF OthersLeft
  <2> QED
    BY ONLY <2>2, <2>3, <2>4, <2>5
<1>3. CASE ~Exit(c)
  <2>1. PICK l : /\ pc' = [pc EXCEPT ![c] = l] /\ process' = process
                 /\ \/ pc[c] = "wait" /\ l = "stop"
                    \/ pc[c] = "stop" /\ l \in {"stopping", "flush"}
                    \/ pc[c] = "stopping" /\ l = "flush"
                    \/ pc[c] = "flush" /\ l \in {"close", "exit"}
                    \/ pc[c] = "close" /\ l = "hook"
                    \/ pc[c] = "hook" /\ l = "exit"
    BY <1>3 DEF Stop, Begin, StopCall, StopReturns, FlushCall, FlushClose, FlushHook, Goto
  <2>2. StepsLeft(l) < StepsLeft(pc[c])
    BY <2>1, StepsWorth
  <2>3. \A d \in Caller : pc'[d] = IF d = c THEN l ELSE pc[d]
    BY <2>1 DEF IInv, TypeOK
  <2>4. CallersLeft' < CallersLeft
    <3>1. /\ StepsLeft(pc["main"]) \in Nat /\ StepsLeft(pc["signal"]) \in Nat
          /\ StepsLeft(pc["timer"]) \in Nat /\ StepsLeft(l) \in Nat
      BY StepsWorth
    <3>2. /\ c \in {"main", "signal", "timer"}
          /\ pc'["main"] = IF c = "main" THEN l ELSE pc["main"]
          /\ pc'["signal"] = IF c = "signal" THEN l ELSE pc["signal"]
          /\ pc'["timer"] = IF c = "timer" THEN l ELSE pc["timer"]
      BY <2>3 DEF Caller
    <3> QED
      BY ONLY <2>2, <3>1, <3>2 DEF CallersLeft
  <2>5. OthersLeft' = OthersLeft
    BY <1>1, <2>1 DEF OthersLeft
  <2>6. OthersLeft \in Nat /\ CallersLeft \in Nat
    BY LeftTypes
  <2>7. CallersLeft' \in Nat
    <3>1. /\ StepsLeft(pc'["main"]) \in Nat /\ StepsLeft(pc'["signal"]) \in Nat
          /\ StepsLeft(pc'["timer"]) \in Nat
      BY StepsWorth
    <3> QED
      BY ONLY <3>1 DEF CallersLeft
  <2> QED
    BY ONLY <2>4, <2>5, <2>6, <2>7
<1> QED
  BY <1>2, <1>3

\* A sum decreases when no part grows and one decreases.
LEMMA SumDecreases ==
  \A a, b, c, d \in Int : c <= a /\ d <= b /\ (c < a \/ d < b) => c + d < a + b
  OBVIOUS

\* Every step uses up some of the work.
LEMMA WorkStep ==
  IInv /\ OnceInv /\ IInv' /\ OnceInv' /\ [Next]_vars => Work \in Nat /\ [Work' < Work]_vars
<1> SUFFICES ASSUME IInv, OnceInv, IInv', OnceInv', [Next]_vars
             PROVE  Work \in Nat /\ (Work' < Work \/ UNCHANGED vars)
  OBVIOUS
<1>1. CallersLeft \in Int /\ OthersLeft \in Int /\ Work = OthersLeft + CallersLeft
  BY LeftTypes
<1>2. CallersLeft' \in Int /\ OthersLeft' \in Int /\ Work' = OthersLeft' + CallersLeft'
  <2>1. (CallersLeft \in Nat /\ OthersLeft \in Nat /\ Work = OthersLeft + CallersLeft)'
    BY LeftTypes, PTL
  <2> QED
    BY <2>1
<1>3. /\ made \in Nat /\ written \in 0..made /\ parent \in 0..3 /\ made <= MaxEvents
      /\ MaxEvents \in Nat
  BY RunnerStopAssumption DEF IInv, TypeOK, OnceInv
<1>4. ASSUME NEW c \in Caller, Stop(c) PROVE Work' < Work
  <2>1. /\ OthersLeft' <= OthersLeft /\ CallersLeft' <= CallersLeft
        /\ OthersLeft' < OthersLeft \/ CallersLeft' < CallersLeft
    BY <1>4, CallerWorks
  <2>2. OthersLeft' + CallersLeft' < OthersLeft + CallersLeft
    BY <1>1, <1>2, <2>1, SumDecreases, Zenon
  <2> QED
    BY <1>1, <1>2, <2>2, Zenon
<1>5. ASSUME Trace \/ Write \/ WorkloadReturns \/ ParentSignals \/ ParentKills \/ ParentStopsReading
      PROVE  Work' < Work
  <2>1. pc' = pc
    BY <1>5 DEF Trace, Write, WorkloadReturns, ParentSignals, ParentKills, ParentStopsReading
  <2>2. CallersLeft' = CallersLeft
    BY <2>1 DEF CallersLeft
  <2>3. OthersLeft' < OthersLeft
    <3>1. CASE Trace
      BY <1>3, <3>1 DEF Trace, OthersLeft, outside
    <3>2. CASE Write
      BY <1>3, <3>2 DEF Write, OthersLeft, outside
    <3>3. CASE WorkloadReturns
      BY <1>3, <3>3 DEF WorkloadReturns, OthersLeft, outside, trace
    <3>4. CASE ParentSignals
      BY <1>3, <3>4 DEF ParentSignals, OthersLeft, trace
    <3>5. CASE ParentKills
      BY <1>3, <3>5 DEF ParentKills, OthersLeft, trace
    <3>6. CASE ParentStopsReading
      BY <1>3, <3>6 DEF ParentStopsReading, OthersLeft, outside
    <3> QED
      BY <1>5, <3>1, <3>2, <3>3, <3>4, <3>5, <3>6
  <2>4. OthersLeft' + CallersLeft' < OthersLeft + CallersLeft
    <3>1. CallersLeft' <= CallersLeft /\ OthersLeft' <= OthersLeft
      BY <1>1, <1>2, <2>2, <2>3
    <3> QED
      BY <1>1, <1>2, <2>3, <3>1, SumDecreases, Zenon
  <2>5. Work' < Work
    BY <1>1, <1>2, <2>4, Zenon
  <2> QED
    BY <2>5
<1>6. Work \in Nat
  BY LeftTypes
<1> QED
  BY <1>4, <1>5, <1>6 DEF Next

\* A process that is told to stop is never held up by its own callers, and its work
\* is finite: the safety half of EndsInTime, for any number of events.
THEOREM StopGoesOn == Spec => StopProgresses
<1>1. Init => IInv /\ OnceInv
  BY Initially, OnceInit
<1>2. (IInv /\ OnceInv) /\ [Next]_vars => (IInv /\ OnceInv)'
  BY TypeStep, StopStep, FlushStep, OnceStep DEF IInv
<1>3. IInv /\ OnceInv =>
        (process = "running" /\ reader = "reading" /\ (\E c \in Caller : pc[c] # "wait" \/ Told(c))
            => WriterCan \/ \E c \in Caller : CanGoOn(c))
  BY NobodyHeldUp
<1>4. (IInv /\ OnceInv) /\ (IInv /\ OnceInv)' /\ [Next]_vars => Work \in Nat /\ [Work' < Work]_vars
  BY WorkStep
<1> QED
  BY <1>1, <1>2, <1>3, <1>4, PTL DEF Spec, StopProgresses
=============================================================================
