-------------------------- MODULE LiveStreamProofs --------------------------
(* The inductive invariant of LiveStream and what follows from it.          *)
EXTENDS LiveStream, SequenceTheorems, TLAPS

\* A queue holding the consecutive numbers a+1, a+2, ...
Run(s, a) == \A i \in 1..Len(s) : s[i] = a + i

\* How far the events have come: sent to eventCh, and taken by runOnce.
Emitted == IF strPc = "send" THEN seq - 1 ELSE seq
Taken == Emitted - Len(eventCh) - Len(pending) - Len(toSend) - Len(liveCh)

\* The history is the most recent part of what was recorded.
HistoryInv ==
    /\ Len(history) <= HistoryCap
    /\ Len(history) <= seq
    /\ Len(history) < HistoryCap => Len(history) = seq
    /\ Run(history, seq - Len(history))

\* The four queues, laid end to end, hold the events from Taken to Emitted.
QueueInv ==
    /\ strPc = "send" => seq > 0
    /\ Taken >= 0
    /\ Run(liveCh, Taken)
    /\ Run(toSend, Taken + Len(liveCh))
    /\ Run(pending, Taken + Len(liveCh) + Len(toSend))
    /\ Run(eventCh, Taken + Len(liveCh) + Len(toSend) + Len(pending))

\* What each place of the buffering goroutine says about the queues.
BufferInv ==
    /\ bufPc \in {"off", "hold", "recv", "done"} => toSend = <<>>
    /\ bufPc \in {"recv", "send", "drain", "done"} => pending = <<>>
    /\ bufPc \in {"drain", "done"} => EventClosed /\ eventCh = <<>>

\* A streamer that ends without an error has sent the audit summary last.
AuditInv ==
    /\ strPc \in {"off", "open", "read", "process", "audit", "send", "wait"} =>
          streamErr = "nil"
    /\ streamErr = "nil" /\ strPc \in {"wait", "close", "report", "done"} => auditSeq = seq
    /\ strPc = "send" /\ strRet = "wait" => auditSeq = seq

\* What runOnce has written at each of its places.
MainInv ==
    /\ mainPc = "start" => strPc = "off" /\ bufPc = "off"
    /\ mainPc \in {"start", "snapshot"} => snapshot = <<>> /\ delivered = <<>>
    /\ mainPc \in {"snapshot_begin", "snapshot_event"} => Len(delivered) <= Len(snapshot)
    /\ mainPc \in {"start", "snapshot", "snapshot_begin", "snapshot_event"} => Taken = 0
    /\ mainPc \in {"live", "result"} /\ sendErr = "nil" =>
          lastSeq = Missed + Len(delivered) /\ Taken <= lastSeq
    /\ mainPc = "result" => bufPc = "done" /\ liveCh = <<>>
    /\ mainPc # "returned" => outcome = "none"
    /\ outcome = "start_error" => snapshot = <<>> /\ delivered = <<>>

\* What the page has been given.
DeliveredInv ==
    /\ Missed \in Nat
    /\ Run(snapshot, Missed)
    /\ Run(delivered, Missed)
    /\ Missed + Len(snapshot) <= seq
    /\ Missed + Len(delivered) <= seq

\* A run whose every write succeeded has written everything its streamer recorded,
\* run_end only after the audit summary.
FinishInv ==
    /\ outcome \in {"trace_error", "run_end"} =>
          strPc = "done" /\ Missed + Len(delivered) = seq
    /\ outcome = "run_end" => auditSeq = seq

IInv == /\ TypeOK
        /\ HistoryInv
        /\ QueueInv
        /\ BufferInv
        /\ AuditInv
        /\ MainInv
        /\ DeliveredInv
        /\ FinishInv
-----------------------------------------------------------------------------
(* Lemmas about queues of consecutive numbers.                              *)

\* The empty queue starts anywhere.
LEMMA RunEmpty == \A a : Run(<<>>, a)
  BY DEF Run

\* Sending the next number keeps a queue consecutive.
LEMMA RunAppend ==
  ASSUME NEW s \in Seq(Nat), NEW a \in Nat, Run(s, a),
         NEW e, e = a + Len(s) + 1, NEW t, t = Append(s, e)
  PROVE  t \in Seq(Nat) /\ Len(t) = Len(s) + 1 /\ Run(t, a)
<1>1. t \in Seq(Nat) /\ Len(t) = Len(s) + 1
  OBVIOUS
<1>2. \A i \in 1..(Len(s) + 1) : t[i] = a + i
  BY DEF Run
<1> QED
  BY <1>1, <1>2 DEF Run

\* Receiving yields the first number and leaves a queue that starts after it.
LEMMA RunTail ==
  ASSUME NEW s \in Seq(Nat), NEW a \in Nat, Run(s, a), s # <<>>,
         NEW t, t = Tail(s)
  PROVE  /\ Head(s) = a + 1
         /\ t \in Seq(Nat) /\ Len(t) = Len(s) - 1 /\ Len(s) >= 1
         /\ Run(t, a + 1)
<1>1. t \in Seq(Nat) /\ Len(t) = Len(s) - 1 /\ Len(s) >= 1
  OBVIOUS
<1>2. Head(s) = a + 1
  BY <1>1 DEF Run
<1>3. \A i \in 1..(Len(s) - 1) : t[i] = s[i + 1]
  OBVIOUS
<1>4. \A i \in 1..(Len(s) - 1) : t[i] = a + 1 + i
  BY <1>3 DEF Run
<1> QED
  BY <1>1, <1>2, <1>4 DEF Run

\* Receiving from a queue of one empties it.
LEMMA LastOut ==
  ASSUME NEW s \in Seq(Nat), s # <<>>, Len(s) = 1
  PROVE  Tail(s) = <<>>
<1>1. Tail(s) \in Seq(Nat) /\ Len(Tail(s)) = 0
  OBVIOUS
<1>2. \A q \in Seq(Nat) : q # <<>> => Len(q) # 0
  BY EmptySeq
<1> QED
  BY <1>1, <1>2

\* runHistory.add keeps the most recent events, at most HistoryCap of them.
LEMMA HistoryAddType ==
  ASSUME NEW h \in Seq(Nat), NEW ev \in Nat
  PROVE  HistoryAdd(h, ev) \in Seq(Nat)
<1>1. CASE Len(h) = HistoryCap
  <2>1. h # <<>>
    BY <1>1, LiveStreamAssumption
  <2> QED
    BY <1>1, <2>1 DEF HistoryAdd
<1>2. CASE Len(h) # HistoryCap
  BY <1>2 DEF HistoryAdd
<1> QED
  BY <1>1, <1>2

\* Whatever the history drops, what it keeps is still the latest stretch of events.
LEMMA HistoryAddRecent ==
  ASSUME NEW h \in Seq(Nat), NEW n \in Nat,
         Len(h) <= HistoryCap, Len(h) <= n,
         Len(h) < HistoryCap => Len(h) = n,
         Run(h, n - Len(h)),
         NEW g, g = HistoryAdd(h, n + 1)
  PROVE  /\ Len(g) <= HistoryCap /\ Len(g) <= n + 1
         /\ Len(g) < HistoryCap => Len(g) = n + 1
         /\ Run(g, n + 1 - Len(g))
<1>1. CASE Len(h) = HistoryCap
  <2>1. PICK t : t = Tail(h)
    OBVIOUS
  <2>2. PICK a : a = n - Len(h)
    OBVIOUS
  <2>3. h # <<>> /\ a \in Nat /\ Run(h, a)
    BY <1>1, <2>2, LiveStreamAssumption
  <2>4. t \in Seq(Nat) /\ Len(t) = Len(h) - 1 /\ Run(t, a + 1)
    BY <2>1, <2>3, RunTail
  <2>5. g = Append(t, n + 1)
    BY <1>1, <2>1 DEF HistoryAdd
  <2>6. a + 1 \in Nat /\ n + 1 = (a + 1) + Len(t) + 1
    BY <2>2, <2>3, <2>4
  <2>7. Len(g) = Len(t) + 1 /\ Run(g, a + 1)
    BY ONLY <2>4, <2>5, <2>6, RunAppend
  <2> QED
    BY <1>1, <2>2, <2>4, <2>7, LiveStreamAssumption
<1>2. CASE Len(h) # HistoryCap
  <2>1. Len(h) = n /\ Run(h, 0) /\ n + 1 = 0 + Len(h) + 1 /\ g = Append(h, n + 1)
    BY <1>2, LiveStreamAssumption DEF HistoryAdd
  <2>2. Len(g) = Len(h) + 1 /\ Run(g, 0)
    BY <2>1, RunAppend
  <2> QED
    BY <1>2, <2>1, <2>2, LiveStreamAssumption
<1> QED
  BY <1>1, <1>2

-----------------------------------------------------------------------------
(* Type correctness.                                                        *)

\* No step of the five parties leaves the types.
LEMMA TypeStep == TypeOK /\ [Next]_vars => TypeOK'
<1> SUFFICES ASSUME TypeOK, [Next]_vars PROVE TypeOK'
  OBVIOUS
<1> USE DEF TypeOK, child, streamer, buffer, main
<1>1. CASE Runner
  <2>1. CASE RunnerWrite
    BY <2>1 DEF RunnerWrite
  <2>2. CASE RunnerExit
    BY <2>2 DEF RunnerExit
  <2> QED
    BY <1>1, <2>1, <2>2 DEF Runner
<1>2. CASE Streamer
  <2>1. CASE StreamOpen
    BY <2>1 DEF StreamOpen
  <2>2. CASE StreamFail
    BY <2>2 DEF StreamFail
  <2>3. CASE StreamRead
    BY <2>3 DEF StreamRead
  <2>4. CASE StreamEOF
    BY <2>4 DEF StreamEOF
  <2>5. CASE StreamEmit
    BY <2>5, HistoryAddType DEF StreamEmit, Record
  <2>6. CASE StreamAuditSummary
    BY <2>6, HistoryAddType DEF StreamAuditSummary, Record
  <2>7. CASE StreamSend
    BY <2>7 DEF StreamSend
  <2>8. CASE StreamNext
    BY <2>8 DEF StreamNext
  <2>9. CASE StreamWait
    BY <2>9 DEF StreamWait
  <2>10. CASE StreamClose
    BY <2>10 DEF StreamClose
  <2>11. CASE StreamReport
    BY <2>11 DEF StreamReport
  <2> QED
    BY <1>2, <2>1, <2>2, <2>3, <2>4, <2>5, <2>6, <2>7, <2>8, <2>9, <2>10, <2>11 DEF Streamer
<1>3. CASE Buffer
  <2>1. CASE BufferHold
    BY <2>1 DEF BufferHold
  <2>2. CASE BufferRelease
    BY <2>2 DEF BufferRelease
  <2>3. CASE BufferForward
    BY <2>3 DEF BufferForward
  <2>4. CASE BufferSend
    BY <2>4 DEF BufferSend
  <2>5. CASE BufferEnd
    BY <2>5 DEF BufferEnd
  <2>6. CASE BufferClose
    BY <2>6 DEF BufferClose
  <2> QED
    BY <1>3, <2>1, <2>2, <2>3, <2>4, <2>5, <2>6 DEF Buffer
<1>4. CASE Main
  <2>1. CASE MainStartFails
    BY <2>1 DEF MainStartFails, Return
  <2>2. CASE MainTraceOutFails
    BY <2>2 DEF MainTraceOutFails, Return
  <2>3. CASE MainStart
    BY <2>3 DEF MainStart
  <2>4. CASE MainTakeSnapshot
    BY <2>4 DEF MainTakeSnapshot
  <2>5. CASE MainSnapshotBegin
    BY <2>5 DEF MainSnapshotBegin
  <2>6. CASE MainSnapshotEvent
    BY <2>6 DEF MainSnapshotEvent
  <2>7. CASE MainSnapshotEnd
    BY <2>7 DEF MainSnapshotEnd, SeqEnd
  <2>8. CASE MainSnapshotFails
    BY <2>8 DEF MainSnapshotFails, Return
  <2>9. CASE MainSkip
    BY <2>9 DEF MainSkip
  <2>10. CASE MainDeliver
    BY <2>10 DEF MainDeliver
  <2>11. CASE MainDeliverFails
    BY <2>11 DEF MainDeliverFails
  <2>12. CASE MainLiveDone
    BY <2>12 DEF MainLiveDone
  <2>13. CASE MainFinish
    BY <2>13 DEF MainFinish, Return, Result
  <2> QED
    BY <1>4, <2>1, <2>2, <2>3, <2>4, <2>5, <2>6, <2>7, <2>8, <2>9, <2>10, <2>11, <2>12, <2>13 DEF Main
<1>5. CASE RunnerDies
  BY <1>5 DEF RunnerDies
<1>6. CASE ClientGone
  BY <1>6 DEF ClientGone
<1>7. CASE UNCHANGED vars
  BY <1>7 DEF vars
<1> QED
  BY <1>1, <1>2, <1>3, <1>4, <1>5, <1>6, <1>7 DEF Next

\* A run starts with every variable in its type.
LEMMA TypeInit == Init => TypeOK
  BY LiveStreamAssumption DEF Init, TypeOK

\* Every queue and history of a run holds sequence numbers and every goroutine is
\* at one of its places, for all capacities.
THEOREM TypeCorrect == Spec => []TypeOK
<1>1. QED
  BY TypeInit, TypeStep, PTL DEF Spec
-----------------------------------------------------------------------------
(* What each party leaves alone.                                            *)

\* The child and the network touch no goroutine and no channel.
LEMMA ChildFrame ==
  Runner \/ RunnerDies \/ ClientGone \/ UNCHANGED vars =>
    UNCHANGED <<strPc, strRet, seq, auditSeq, history, streamErr, eventCh, bufPc,
                pending, toSend, liveCh, mainPc, snapshot, lastSeq, sendErr,
                delivered, outcome>>
  BY DEF Runner, RunnerWrite, RunnerExit, RunnerDies, ClientGone, vars,
         streamer, buffer, main

\* The streamer writes eventCh and its own state only.
LEMMA StreamerFrame ==
  Streamer => UNCHANGED <<bufPc, pending, toSend, liveCh, mainPc, snapshot, lastSeq,
                          sendErr, delivered, outcome>>
  BY DEF Streamer, StreamOpen, StreamFail, StreamRead, StreamEOF, StreamEmit,
         StreamAuditSummary, StreamSend, StreamNext, StreamWait, StreamClose,
         StreamReport, buffer, main

\* The buffering goroutine moves events between the queues and does nothing else.
LEMMA BufferFrame ==
  Buffer => UNCHANGED <<strPc, strRet, seq, auditSeq, history, streamErr, mainPc,
                        snapshot, lastSeq, sendErr, delivered, outcome>>
  BY DEF Buffer, BufferHold, BufferRelease, BufferForward, BufferSend, BufferEnd,
         BufferClose, streamer, main

\* runOnce leaves numbering, history and the buffered events to the goroutines it started.
LEMMA MainFrame ==
  Main => /\ UNCHANGED <<strRet, seq, auditSeq, history, streamErr, eventCh, pending,
                         toSend>>
          /\ UNCHANGED <<strPc, bufPc>> \/ MainStart
  BY DEF Main, MainStartFails, MainTraceOutFails, MainStart, MainTakeSnapshot,
         MainSnapshotBegin, MainSnapshotEvent, MainSnapshotEnd, MainSnapshotFails,
         MainSkip, MainDeliver, MainDeliverFails, MainLiveDone, MainFinish,
         streamer, buffer, main

-----------------------------------------------------------------------------
(* Each part of the invariant is preserved by every step.                   *)

\* The history stays the most recent part of the run (runHistory.add).
LEMMA HistoryStep == IInv /\ [Next]_vars => HistoryInv'
<1> SUFFICES ASSUME IInv, [Next]_vars PROVE HistoryInv'
  OBVIOUS
<1> USE DEF IInv, TypeOK
<1>1. CASE UNCHANGED <<seq, history>>
  BY <1>1 DEF HistoryInv, Run
<1>2. CASE StreamEmit \/ StreamAuditSummary
  <2>1. seq' = seq + 1 /\ history' = HistoryAdd(history, seq + 1)
    BY <1>2 DEF StreamEmit, StreamAuditSummary, Record
  <2>2. /\ history \in Seq(Nat) /\ seq \in Nat
        /\ Len(history) <= HistoryCap /\ Len(history) <= seq
        /\ Len(history) < HistoryCap => Len(history) = seq
        /\ Run(history, seq - Len(history))
    BY DEF HistoryInv
  <2>3. /\ Len(history') <= HistoryCap /\ Len(history') <= seq + 1
        /\ Len(history') < HistoryCap => Len(history') = seq + 1
        /\ Run(history', seq + 1 - Len(history'))
    BY ONLY <2>1, <2>2, HistoryAddRecent
  <2> QED
    BY <2>1, <2>3 DEF HistoryInv
<1>3. CASE Streamer /\ ~(StreamEmit \/ StreamAuditSummary)
  BY <1>1, <1>3 DEF Streamer, StreamOpen, StreamFail, StreamRead, StreamEOF,
                    StreamSend, StreamNext, StreamWait, StreamClose, StreamReport
<1> QED
  BY <1>1, <1>2, <1>3, ChildFrame, BufferFrame, MainFrame DEF Next

\* Only the audit summary is recorded between end of trace and a clean return.
LEMMA AuditStep == IInv /\ [Next]_vars => AuditInv'
<1> SUFFICES ASSUME IInv, [Next]_vars PROVE AuditInv'
  OBVIOUS
<1> USE DEF IInv, TypeOK, AuditInv
<1>1. CASE UNCHANGED <<strPc, strRet, seq, auditSeq, streamErr>>
  BY <1>1
<1>2. CASE Streamer
  <2>1. CASE StreamEmit \/ StreamAuditSummary
    BY <2>1 DEF StreamEmit, StreamAuditSummary, Record
  <2>2. CASE ~(StreamEmit \/ StreamAuditSummary)
    BY <1>2, <2>2 DEF Streamer, StreamOpen, StreamFail, StreamRead, StreamEOF,
                      StreamSend, StreamNext, StreamWait, StreamClose, StreamReport
  <2> QED
    BY <2>1, <2>2
<1>3. CASE MainStart
  BY <1>3 DEF MainStart, MainInv
<1> QED
  BY <1>1, <1>2, <1>3, ChildFrame, BufferFrame, MainFrame DEF Next

\* liveEventCh is only closed after everything held has been forwarded.
LEMMA BufferStep == IInv /\ [Next]_vars => BufferInv'
<1> SUFFICES ASSUME IInv, [Next]_vars PROVE BufferInv'
  OBVIOUS
<1> USE DEF IInv, TypeOK, BufferInv, EventClosed
<1>1. CASE UNCHANGED <<strPc, eventCh, bufPc, pending, toSend>>
  BY <1>1
<1>2. CASE Streamer
  <2>1. UNCHANGED <<bufPc, pending, toSend>>
    BY <1>2, StreamerFrame
  <2>2. EventClosed => EventClosed' /\ UNCHANGED eventCh
    BY <1>2 DEF Streamer, StreamOpen, StreamFail, StreamRead, StreamEOF,
                StreamEmit, StreamAuditSummary, StreamSend, StreamNext, StreamWait,
                StreamClose, StreamReport
  <2> QED
    BY <2>1, <2>2
<1>3. CASE Buffer
  <2>1. UNCHANGED strPc
    BY <1>3, BufferFrame
  <2>2. CASE BufferSend
    <3>1. toSend # <<>> /\ Len(toSend) = 1 => Tail(toSend) = <<>>
      BY LastOut
    <3> QED
      BY <2>1, <2>2, <3>1 DEF BufferSend
  <2>3. CASE ~BufferSend
    BY <1>3, <2>1, <2>3 DEF Buffer, BufferHold, BufferRelease, BufferForward,
                            BufferEnd, BufferClose
  <2> QED
    BY <2>2, <2>3
<1>4. CASE MainStart
  BY <1>4 DEF MainStart, MainInv
<1> QED
  BY <1>1, <1>2, <1>3, <1>4, ChildFrame, MainFrame DEF Next

\* A streamer step sends the next number to eventCh or leaves the queues alone.
LEMMA StreamerSends ==
  ASSUME IInv, Streamer
  PROVE  \/ Emitted' = Emitted /\ eventCh' = eventCh
         \/ Emitted' = Emitted + 1 /\ eventCh' = Append(eventCh, Emitted + 1)
<1> USE DEF IInv, TypeOK, QueueInv, Emitted
<1>1. CASE StreamSend
  <2>1. strPc = "send" /\ strPc' # "send" /\ seq' = seq
    BY <1>1 DEF StreamSend
  <2>2. eventCh' = Append(eventCh, seq)
    BY <1>1 DEF StreamSend
  <2> QED
    BY <2>1, <2>2
<1>2. CASE StreamEmit \/ StreamAuditSummary
  BY <1>2 DEF StreamEmit, StreamAuditSummary, Record
<1>3. CASE ~(StreamSend \/ StreamEmit \/ StreamAuditSummary)
  BY <1>3 DEF Streamer, StreamOpen, StreamFail, StreamRead, StreamEOF,
              StreamNext, StreamWait, StreamClose, StreamReport
<1> QED
  BY <1>1, <1>2, <1>3

\* The places where the queues meet are natural numbers.
LEMMA QueueTypes ==
  ASSUME IInv
  PROVE  /\ Emitted \in Nat /\ Taken \in Nat
         /\ Len(liveCh) \in Nat /\ Len(toSend) \in Nat
         /\ Len(pending) \in Nat /\ Len(eventCh) \in Nat
         /\ Emitted = Taken + Len(liveCh) + Len(toSend) + Len(pending) + Len(eventCh)
<1>1. Emitted \in Nat
  BY DEF IInv, TypeOK, QueueInv, Emitted
<1>2. /\ Len(liveCh) \in Nat /\ Len(toSend) \in Nat
      /\ Len(pending) \in Nat /\ Len(eventCh) \in Nat
  BY DEF IInv, TypeOK
<1>3. Taken \in Int /\ Taken >= 0
  BY <1>1, <1>2 DEF Taken, IInv, QueueInv
<1> QED
  BY <1>1, <1>2, <1>3 DEF Taken

\* emitWithSeq keeps the numbers on their way to the page consecutive.
LEMMA QueueStepStreamer ==
  ASSUME IInv, Streamer
  PROVE  QueueInv' /\ Taken' = Taken
<1>0. /\ Emitted \in Nat /\ Taken \in Nat
      /\ Len(liveCh) \in Nat /\ Len(toSend) \in Nat
      /\ Len(pending) \in Nat /\ Len(eventCh) \in Nat
      /\ Emitted = Taken + Len(liveCh) + Len(toSend) + Len(pending) + Len(eventCh)
  BY QueueTypes
<1>1. UNCHANGED <<pending, toSend, liveCh>>
  BY StreamerFrame
<1>2. strPc' = "send" => seq' > 0
  BY DEF Streamer, StreamOpen, StreamFail, StreamRead, StreamEOF, StreamEmit,
         StreamAuditSummary, StreamSend, StreamNext, StreamWait, StreamClose,
         StreamReport, Record, IInv, TypeOK
<1>3. CASE Emitted' = Emitted /\ eventCh' = eventCh
  <2>1. Taken' = Taken
    BY <1>1, <1>3 DEF Taken
  <2> QED
    BY <1>1, <1>2, <1>3, <2>1 DEF IInv, QueueInv
<1>4. CASE Emitted' = Emitted + 1 /\ eventCh' = Append(eventCh, Emitted + 1)
  <2>1. PICK a : a = Taken + Len(liveCh) + Len(toSend) + Len(pending)
    OBVIOUS
  <2>2. a \in Nat /\ Emitted + 1 = a + Len(eventCh) + 1
    BY <2>1, <1>0
  <2>3. eventCh \in Seq(Nat) /\ Run(eventCh, a)
    BY <2>1 DEF IInv, TypeOK, QueueInv
  <2>4. Len(eventCh') = Len(eventCh) + 1 /\ Run(eventCh', a)
    BY ONLY <1>4, <2>2, <2>3, RunAppend
  <2>5. Taken' = Taken
    BY <1>1, <1>4, <2>4, <1>0 DEF Taken
  <2> QED
    BY <1>1, <1>2, <2>1, <2>4, <2>5 DEF IInv, QueueInv
<1> QED
  BY <1>3, <1>4, StreamerSends

\* Holding, releasing and forwarding events neither loses nor reorders any.
LEMMA QueueStepBuffer ==
  ASSUME IInv, Buffer
  PROVE  QueueInv' /\ Taken' = Taken
<1>0. /\ Emitted \in Nat /\ Taken \in Nat
      /\ Len(liveCh) \in Nat /\ Len(toSend) \in Nat
      /\ Len(pending) \in Nat /\ Len(eventCh) \in Nat
      /\ Emitted = Taken + Len(liveCh) + Len(toSend) + Len(pending) + Len(eventCh)
  BY QueueTypes
<1>1. UNCHANGED <<strPc, seq>> /\ Emitted' = Emitted
  BY BufferFrame DEF Emitted
<1>2. PICK l, t, p : /\ l = Taken + Len(liveCh)
                     /\ t = Taken + Len(liveCh) + Len(toSend)
                     /\ p = Taken + Len(liveCh) + Len(toSend) + Len(pending)
  OBVIOUS
<1>3. l \in Nat /\ t \in Nat /\ p \in Nat
  BY <1>2, <1>0
<1>4. /\ Run(liveCh, Taken) /\ Run(toSend, l) /\ Run(pending, t) /\ Run(eventCh, p)
      /\ liveCh \in Seq(Nat) /\ toSend \in Seq(Nat)
      /\ pending \in Seq(Nat) /\ eventCh \in Seq(Nat)
  BY <1>2 DEF IInv, TypeOK, QueueInv
<1>5. eventCh # <<>> /\ eventCh' = Tail(eventCh) =>
        /\ Head(eventCh) = p + 1 /\ Len(eventCh') = Len(eventCh) - 1
        /\ Run(eventCh', p + 1)
  BY <1>3, <1>4, RunTail
<1>6. CASE BufferHold
  <2>1. /\ eventCh # <<>> /\ eventCh' = Tail(eventCh)
        /\ pending' = Append(pending, Head(eventCh))
        /\ UNCHANGED <<toSend, liveCh>>
    BY <1>6 DEF BufferHold
  <2>2. /\ t \in Nat /\ pending \in Seq(Nat) /\ Run(pending, t)
        /\ Head(eventCh) = t + Len(pending) + 1
        /\ pending' = Append(pending, Head(eventCh))
    BY <1>2, <1>3, <1>4, <1>5, <2>1
  <2>3. Len(pending') = Len(pending) + 1 /\ Run(pending', t)
    BY ONLY <2>2, RunAppend
  <2>4. Taken' = Taken
    BY <1>1, <1>5, <2>1, <2>3, <1>0 DEF Taken
  <2>5. p + 1 = Taken' + Len(liveCh') + Len(toSend') + Len(pending')
    BY <1>2, <2>1, <2>3, <2>4, <1>0
  <2> QED
    BY <1>1, <1>2, <1>4, <1>5, <2>1, <2>3, <2>4, <2>5 DEF IInv, QueueInv
<1>7. CASE BufferRelease
  <2>1. /\ eventCh # <<>> /\ eventCh' = Tail(eventCh)
        /\ toSend = <<>> /\ toSend' = Append(pending, Head(eventCh))
        /\ pending' = <<>> /\ UNCHANGED liveCh
    BY <1>7 DEF BufferRelease, IInv, BufferInv
  <2>2. Len(toSend) = 0 /\ Len(pending') = 0 /\ t = l
    BY <1>2, <2>1, <1>0
  <2>3. /\ l \in Nat /\ pending \in Seq(Nat) /\ Run(pending, l)
        /\ Head(eventCh) = l + Len(pending) + 1
        /\ toSend' = Append(pending, Head(eventCh))
    BY <1>2, <1>3, <1>4, <1>5, <2>1, <2>2
  <2>4. Len(toSend') = Len(pending) + 1 /\ Run(toSend', l)
    BY ONLY <2>3, RunAppend
  <2>5. Taken' = Taken
    BY <1>1, <1>5, <2>1, <2>2, <2>4, <1>0 DEF Taken
  <2>6. p + 1 = Taken' + Len(liveCh') + Len(toSend') + Len(pending')
    BY <1>2, <2>1, <2>2, <2>4, <2>5, <1>0
  <2> QED
    BY <1>1, <1>2, <1>4, <1>5, <2>1, <2>4, <2>5, <2>6, RunEmpty DEF IInv, QueueInv
<1>8. CASE BufferForward
  <2>1. /\ eventCh # <<>> /\ eventCh' = Tail(eventCh)
        /\ toSend = <<>> /\ toSend' = <<Head(eventCh)>>
        /\ pending = <<>> /\ pending' = <<>> /\ UNCHANGED liveCh
    BY <1>8 DEF BufferForward, IInv, BufferInv
  <2>2. Len(toSend) = 0 /\ Len(pending) = 0 /\ p = l
    BY <1>2, <2>1, <1>0
  <2>3. Len(toSend') = 1 /\ Run(toSend', l)
    BY <1>3, <1>5, <2>1, <2>2 DEF Run
  <2>4. Taken' = Taken
    BY <1>1, <1>5, <2>1, <2>2, <2>3, <1>0 DEF Taken
  <2>5. p + 1 = Taken' + Len(liveCh') + Len(toSend') + Len(pending')
    BY <1>2, <2>1, <2>2, <2>3, <2>4, <1>0
  <2> QED
    BY <1>1, <1>2, <1>4, <1>5, <2>1, <2>3, <2>4, <2>5, RunEmpty DEF IInv, QueueInv
<1>9. CASE BufferSend
  <2>1. /\ toSend # <<>> /\ toSend' = Tail(toSend)
        /\ liveCh' = Append(liveCh, Head(toSend))
        /\ UNCHANGED <<eventCh, pending>>
    BY <1>9 DEF BufferSend
  <2>2. /\ Head(toSend) = l + 1 /\ Len(toSend') = Len(toSend) - 1
        /\ Run(toSend', l + 1)
    BY <1>3, <1>4, <2>1, RunTail
  <2>3. Head(toSend) = Taken + Len(liveCh) + 1 /\ Taken \in Nat
    BY <1>2, <2>2, <1>0
  <2>4. Len(liveCh') = Len(liveCh) + 1 /\ Run(liveCh', Taken)
    <3>1. /\ liveCh \in Seq(Nat) /\ Run(liveCh, Taken) /\ Taken \in Nat
          /\ Head(toSend) = Taken + Len(liveCh) + 1 /\ liveCh' = Append(liveCh, Head(toSend))
      BY <1>4, <2>1, <2>3
    <3> QED
      BY ONLY <3>1, RunAppend
  <2>5. Taken' = Taken
    BY <1>1, <2>1, <2>2, <2>4, <1>0 DEF Taken
  <2>6. /\ l + 1 = Taken' + Len(liveCh')
        /\ t = Taken' + Len(liveCh') + Len(toSend')
        /\ p = Taken' + Len(liveCh') + Len(toSend') + Len(pending')
    BY <1>2, <2>1, <2>2, <2>4, <2>5, <1>0
  <2> QED
    BY <1>1, <1>4, <2>1, <2>2, <2>4, <2>5, <2>6 DEF IInv, QueueInv
<1>10. CASE BufferEnd
  <2>1. /\ toSend = <<>> /\ toSend' = pending /\ pending' = <<>>
        /\ UNCHANGED <<eventCh, liveCh>>
    BY <1>10 DEF BufferEnd, IInv, BufferInv
  <2>2. Len(toSend) = 0 /\ Len(pending') = 0 /\ t = l
    BY <1>2, <2>1, <1>0
  <2>3. Taken' = Taken
    BY <1>1, <2>1, <2>2, <1>0 DEF Taken
  <2>4. p = Taken' + Len(liveCh') + Len(toSend') + Len(pending')
    BY <1>2, <2>1, <2>2, <2>3, <1>0
  <2> QED
    BY <1>1, <1>2, <1>4, <2>1, <2>2, <2>3, <2>4, RunEmpty DEF IInv, QueueInv
<1>11. CASE BufferClose
  <2>1. UNCHANGED <<eventCh, pending, toSend, liveCh>>
    BY <1>11 DEF BufferClose
  <2>2. Taken' = Taken
    BY <1>1, <2>1 DEF Taken
  <2> QED
    BY <1>1, <2>1, <2>2 DEF IInv, QueueInv
<1> QED
  BY <1>6, <1>7, <1>8, <1>9, <1>10, <1>11 DEF Buffer

\* runOnce leaves the queues alone or takes the next event from liveEventCh.
LEMMA QueueStepMain ==
  ASSUME IInv, Main
  PROVE  /\ QueueInv'
         /\ \/ Taken' = Taken /\ liveCh' = liveCh
            \/ /\ MainSkip \/ MainDeliver \/ MainDeliverFails
               /\ Head(liveCh) = Taken + 1 /\ Taken' = Taken + 1
               /\ Head(liveCh) <= Emitted
<1>0. /\ Emitted \in Nat /\ Taken \in Nat
      /\ Len(liveCh) \in Nat /\ Len(toSend) \in Nat
      /\ Len(pending) \in Nat /\ Len(eventCh) \in Nat
      /\ Emitted = Taken + Len(liveCh) + Len(toSend) + Len(pending) + Len(eventCh)
  BY QueueTypes
<1>1. UNCHANGED <<seq, eventCh, pending, toSend>>
  BY MainFrame
<1>2. Emitted' = Emitted /\ (strPc' = "send" => strPc = "send")
  BY MainFrame DEF Emitted, MainStart, IInv, MainInv
<1>3. CASE liveCh' = liveCh
  <2>1. Taken' = Taken
    BY <1>1, <1>2, <1>3 DEF Taken
  <2> QED
    BY <1>1, <1>2, <1>3, <2>1 DEF IInv, QueueInv
<1>4. CASE MainSkip \/ MainDeliver \/ MainDeliverFails
  <2>1. liveCh # <<>> /\ liveCh' = Tail(liveCh) /\ Taken \in Nat
    BY <1>0, <1>4 DEF MainSkip, MainDeliver, MainDeliverFails
  <2>2. liveCh \in Seq(Nat) /\ Run(liveCh, Taken)
    BY DEF IInv, TypeOK, QueueInv
  <2>3. /\ Head(liveCh) = Taken + 1 /\ Len(liveCh') = Len(liveCh) - 1
        /\ Len(liveCh) >= 1 /\ Run(liveCh', Taken + 1)
    BY ONLY <2>1, <2>2, RunTail
  <2>4. Taken' = Taken + 1
    BY <1>0, <1>1, <1>2, <2>3 DEF Taken
  <2>5. /\ Taken + Len(liveCh) = Taken' + Len(liveCh')
        /\ Head(liveCh) <= Emitted
    BY <1>0, <2>3, <2>4
  <2>6. Taken + Len(liveCh) + Len(toSend) = Taken' + Len(liveCh') + Len(toSend')
    BY <1>1, <2>5
  <2>7. Taken + Len(liveCh) + Len(toSend) + Len(pending)
          = Taken' + Len(liveCh') + Len(toSend') + Len(pending')
    BY <1>1, <2>6
  <2> QED
    BY <1>0, <1>1, <1>2, <1>4, <2>3, <2>4, <2>5, <2>6, <2>7 DEF IInv, QueueInv
<1>5. liveCh' = liveCh \/ MainSkip \/ MainDeliver \/ MainDeliverFails
  BY DEF Main, MainStartFails, MainTraceOutFails, MainStart, MainTakeSnapshot,
         MainSnapshotBegin, MainSnapshotEvent, MainSnapshotEnd, MainSnapshotFails,
         MainLiveDone, MainFinish
<1> QED
  BY <1>3, <1>4, <1>5

\* The child and the network leave the events on their way alone.
LEMMA QueueStepChild ==
  ASSUME IInv, Runner \/ RunnerDies \/ ClientGone \/ UNCHANGED vars
  PROVE  QueueInv' /\ Taken' = Taken
<1>1. UNCHANGED <<strPc, seq, eventCh, pending, toSend, liveCh>>
  BY ChildFrame
<1>2. Taken' = Taken
  BY <1>1 DEF Taken, Emitted
<1> QED
  BY <1>1, <1>2 DEF IInv, QueueInv

\* Between streamer and runOnce no event is lost, repeated or reordered.
LEMMA QueueStep == IInv /\ [Next]_vars => QueueInv'
  BY QueueStepChild, QueueStepStreamer, QueueStepBuffer, QueueStepMain DEF Next

\* lastSeq is always the last number written, and nothing taken is beyond it.
LEMMA MainStep == IInv /\ [Next]_vars => MainInv'
<1> SUFFICES ASSUME IInv, [Next]_vars PROVE MainInv'
  OBVIOUS
<1> USE DEF IInv, TypeOK, MainInv
<1>1. CASE Runner \/ RunnerDies \/ ClientGone \/ UNCHANGED vars
  BY <1>1, ChildFrame, QueueStepChild DEF Missed
<1>2. CASE Streamer
  <2>1. mainPc # "start"
    BY <1>2 DEF Streamer, StreamOpen, StreamFail, StreamRead, StreamEOF, StreamEmit,
                StreamAuditSummary, StreamSend, StreamNext, StreamWait, StreamClose,
                StreamReport
  <2> QED
    BY <1>2, <2>1, StreamerFrame, QueueStepStreamer DEF Missed
<1>3. CASE Buffer
  <2>1. mainPc # "start" /\ mainPc # "result"
    BY <1>3 DEF Buffer, BufferHold, BufferRelease, BufferForward, BufferSend,
                BufferEnd, BufferClose
  <2> QED
    BY <1>3, <2>1, BufferFrame, QueueStepBuffer DEF Missed
<1>4. CASE Main
  <2>1. CASE MainStartFails \/ MainTraceOutFails
    BY <2>1 DEF MainStartFails, MainTraceOutFails, Return
  <2>2. CASE MainStart
    BY <1>4, <2>2, QueueStepMain DEF MainStart, MainSkip, MainDeliver, MainDeliverFails
  <2>3. CASE MainTakeSnapshot
    BY <1>4, <2>3, QueueStepMain DEF MainTakeSnapshot, MainSkip, MainDeliver,
                                     MainDeliverFails
  <2>4. CASE MainSnapshotBegin
    BY <1>4, <2>4, QueueStepMain DEF MainSnapshotBegin, MainSkip, MainDeliver,
                                     MainDeliverFails
  <2>5. CASE MainSnapshotEvent
    BY <1>4, <2>5, QueueStepMain DEF MainSnapshotEvent, MainSkip, MainDeliver,
                                     MainDeliverFails
  <2>6. CASE MainSnapshotEnd
    <3>1. lastSeq' = Missed + Len(delivered) /\ Missed' = Missed
      BY <2>6 DEF MainSnapshotEnd, SeqEnd, Missed, DeliveredInv, Run
    <3>2. Taken' = 0 /\ lastSeq' \in Nat
      BY <1>4, <2>6, <3>1, QueueStepMain
         DEF MainSnapshotEnd, MainSkip, MainDeliver, MainDeliverFails, DeliveredInv
    <3> QED
      BY <2>6, <3>1, <3>2 DEF MainSnapshotEnd
  <2>7. CASE MainSnapshotFails
    BY <2>7 DEF MainSnapshotFails, Return
  <2>8. CASE MainSkip
    BY <1>4, <2>8, QueueStepMain, QueueTypes DEF MainSkip, MainDeliver,
                              MainDeliverFails, main, Missed
  <2>9. CASE MainDeliver
    <3>1. /\ Taken' = Taken + 1 /\ Head(liveCh) = Taken + 1 /\ Taken \in Nat
      BY <1>4, <2>9, QueueStepMain, QueueTypes DEF MainDeliver
    <3>2. /\ lastSeq = Missed + Len(delivered) /\ Taken <= lastSeq
          /\ Head(liveCh) > lastSeq /\ lastSeq' = Head(liveCh)
          /\ UNCHANGED <<mainPc, snapshot, sendErr, outcome>> /\ mainPc = "live"
      BY <2>9 DEF MainDeliver
    <3>3. Len(delivered') = Len(delivered) + 1 /\ Missed' = Missed /\ Missed \in Nat
      BY <2>9 DEF MainDeliver, Missed, DeliveredInv
    <3>4. lastSeq \in Nat /\ Len(delivered) \in Nat
      OBVIOUS
    <3>5. Taken + 1 = Missed + Len(delivered) + 1
      BY ONLY <3>1, <3>2, <3>3, <3>4
    <3>6. lastSeq' = Missed' + Len(delivered') /\ Taken' <= lastSeq'
      BY ONLY <3>1, <3>2, <3>3, <3>4, <3>5
    <3> QED
      BY <3>2, <3>6
  <2>10. CASE MainDeliverFails
    BY <2>10 DEF MainDeliverFails
  <2>11. CASE MainLiveDone
    <3>1. /\ mainPc = "live" /\ mainPc' = "result" /\ bufPc = "done"
          /\ liveCh = <<>> /\ liveCh' = <<>>
          /\ UNCHANGED <<snapshot, lastSeq, sendErr, delivered, outcome, bufPc>>
      BY <2>11 DEF MainLiveDone, LiveClosed, buffer
    <3>2. Taken' = Taken /\ Missed' = Missed
      BY <1>4, <3>1, QueueStepMain DEF Missed, MainSkip, MainDeliver, MainDeliverFails
    <3> QED
      BY <3>1, <3>2
  <2>12. CASE MainFinish
    BY <2>12 DEF MainFinish, Return, Result
  <2> QED
    BY <1>4, <2>1, <2>2, <2>3, <2>4, <2>5, <2>6, <2>7, <2>8, <2>9, <2>10, <2>11,
       <2>12 DEF Main
<1> QED
  BY <1>1, <1>2, <1>3, <1>4 DEF Next

\* What the page has been given stays consecutive across snapshot and live events.
LEMMA DeliveredStep == IInv /\ [Next]_vars => DeliveredInv'
<1> SUFFICES ASSUME IInv, [Next]_vars PROVE DeliveredInv'
  OBVIOUS
<1> USE DEF IInv, TypeOK, DeliveredInv
<1>1. seq' >= seq /\ seq' \in Nat
  BY TypeStep, ChildFrame, BufferFrame, MainFrame
     DEF Next, Streamer, StreamOpen, StreamFail, StreamRead, StreamEOF, StreamEmit,
         StreamAuditSummary, StreamSend, StreamNext, StreamWait, StreamClose,
         StreamReport, Record
<1>2. CASE UNCHANGED <<snapshot, delivered>>
  <2>1. Missed' = Missed
    BY <1>2 DEF Missed
  <2> QED
    BY <1>1, <1>2, <2>1
<1>3. CASE MainTakeSnapshot
  <2>1. snapshot' = history /\ delivered' = <<>> /\ seq' = seq
    BY <1>3, MainFrame DEF MainTakeSnapshot, MainInv, Main
  <2>2. CASE history = <<>>
    BY <2>1, <2>2, RunEmpty DEF Missed
  <2>3. CASE history # <<>>
    <3>1. Len(history) \in Nat /\ Len(history) >= 1 /\ history[1] = seq - Len(history) + 1
      BY <2>3 DEF HistoryInv, Run
    <3>2. Missed' = seq - Len(history)
      BY <2>1, <2>3, <3>1 DEF Missed
    <3>3. Missed' \in Nat /\ Missed' + Len(snapshot') = seq' /\ Len(delivered') = 0
      BY <2>1, <3>1, <3>2 DEF HistoryInv
    <3>4. Run(snapshot', Missed') /\ Run(delivered', Missed')
      BY <2>1, <3>2, RunEmpty DEF HistoryInv
    <3>5. Missed' + Len(snapshot') <= seq' /\ Missed' + Len(delivered') <= seq'
      <4>1. PICK m : m = Missed'
        OBVIOUS
      <4>2. m \in Nat /\ m + Len(snapshot') = seq' /\ Len(delivered') = 0
        BY <3>3, <4>1
      <4>3. m + Len(snapshot') <= seq'
        BY ONLY <1>1, <4>2
      <4>4. Len(snapshot') \in Nat
        BY <2>1
      <4>5. m + Len(delivered') <= seq'
        BY ONLY <1>1, <4>2, <4>4
      <4> QED
        BY <4>1, <4>3, <4>5
    <3> QED
      BY <3>3, <3>4, <3>5
  <2> QED
    BY <2>2, <2>3
<1>4. CASE MainSnapshotEvent
  <2>1. PICK e : e = snapshot[Len(delivered) + 1]
    OBVIOUS
  <2>2. /\ delivered' = Append(delivered, e) /\ UNCHANGED snapshot
        /\ Len(delivered) + 1 <= Len(snapshot)
    BY <1>4, <2>1 DEF MainSnapshotEvent
  <2>3. e = Missed + Len(delivered) + 1
    BY <2>1, <2>2 DEF Run
  <2>4. delivered \in Seq(Nat) /\ Missed \in Nat /\ Run(delivered, Missed)
    OBVIOUS
  <2>5. Len(delivered') = Len(delivered) + 1 /\ Run(delivered', Missed)
    BY ONLY <2>2, <2>3, <2>4, RunAppend
  <2>6. Missed' = Missed
    BY <2>2 DEF Missed
  <2> QED
    BY <1>1, <2>2, <2>5, <2>6
<1>5. CASE MainDeliver
  <2>1. PICK e : e = Head(liveCh)
    OBVIOUS
  <2>2. /\ delivered' = Append(delivered, e) /\ UNCHANGED snapshot
        /\ e > lastSeq /\ lastSeq = Missed + Len(delivered) /\ Taken <= lastSeq
    BY <1>5, <2>1 DEF MainDeliver, MainInv
  <2>3. e = Taken + 1 /\ e <= Emitted /\ Taken \in Nat /\ Emitted \in Nat
    BY <1>5, <2>1, QueueStepMain, QueueTypes DEF Main, MainDeliver
  <2>4. e <= seq
    BY <2>3 DEF Emitted
  <2>5. lastSeq \in Nat /\ delivered \in Seq(Nat) /\ Missed \in Nat /\ Run(delivered, Missed)
        /\ Len(delivered) \in Nat
    OBVIOUS
  <2>6. e = Missed + Len(delivered) + 1
    BY ONLY <2>2, <2>3, <2>5
  <2>7. Len(delivered') = Len(delivered) + 1 /\ Run(delivered', Missed)
    BY ONLY <2>2, <2>5, <2>6, RunAppend
  <2>8. Missed' = Missed
    BY <2>2 DEF Missed
  <2> QED
    BY <1>1, <2>2, <2>4, <2>6, <2>7, <2>8
<1>6. CASE Main /\ ~(MainTakeSnapshot \/ MainSnapshotEvent \/ MainDeliver)
  BY <1>2, <1>6 DEF Main, MainStartFails, MainTraceOutFails, MainStart,
                    MainSnapshotBegin, MainSnapshotEnd, MainSnapshotFails,
                    MainSkip, MainDeliverFails, MainLiveDone, MainFinish, main
<1> QED
  BY <1>2, <1>3, <1>4, <1>5, <1>6, ChildFrame, StreamerFrame, BufferFrame DEF Next

\* When runOnce asks for the streamer's result nothing is under way any more: it
\* has written all that was recorded, unless a write failed.
LEMMA AllWritten ==
  ASSUME IInv, mainPc = "result", sendErr = "nil"
  PROVE  Missed + Len(delivered) = seq
<1> USE DEF IInv, TypeOK
<1>1. /\ lastSeq = Missed + Len(delivered) /\ Taken <= lastSeq
      /\ bufPc = "done" /\ liveCh = <<>>
  BY DEF MainInv
<1>2. toSend = <<>> /\ pending = <<>> /\ eventCh = <<>> /\ strPc # "send"
  BY <1>1 DEF BufferInv, EventClosed
<1>3. Taken = seq
  BY <1>1, <1>2 DEF Taken, Emitted
<1> QED
  BY <1>1, <1>3 DEF DeliveredInv

\* A result other than a failed write is only returned when all queues are empty,
\* run_end when the audit summary was last.
LEMMA FinishStep == IInv /\ [Next]_vars => FinishInv'
<1> SUFFICES ASSUME IInv, [Next]_vars, outcome' \in {"trace_error", "run_end"}
             PROVE  /\ strPc' = "done"
                    /\ Missed' + Len(delivered') = seq'
                    /\ outcome' = "run_end" => auditSeq' = seq'
  BY DEF FinishInv
<1> USE DEF IInv, TypeOK, FinishInv
<1>1. CASE MainFinish
  <2>1. /\ mainPc = "result" /\ strPc = "done" /\ sendErr = "nil"
        /\ outcome' = "run_end" => streamErr = "nil"
        /\ UNCHANGED <<strPc, seq, auditSeq, snapshot, delivered>>
    BY <1>1 DEF MainFinish, Return, Result, ErrSent, streamer
  <2>2. Missed + Len(delivered) = seq /\ Missed' = Missed
    BY <2>1, AllWritten DEF Missed
  <2>3. outcome' = "run_end" => auditSeq = seq
    BY <2>1 DEF AuditInv
  <2> QED
    BY <2>1, <2>2, <2>3
<1>2. CASE UNCHANGED <<strPc, seq, auditSeq, snapshot, delivered, outcome>>
  BY <1>2 DEF Missed
<1>3. CASE Streamer
  <2>1. strPc # "done"
    BY <1>3 DEF Streamer, StreamOpen, StreamFail, StreamRead, StreamEOF, StreamEmit,
                StreamAuditSummary, StreamSend, StreamNext, StreamWait, StreamClose,
                StreamReport
  <2> QED
    BY <1>3, <2>1, StreamerFrame
<1>4. CASE Main /\ ~MainFinish
  <2>1. mainPc # "returned" /\ (outcome' = outcome \/ outcome' \notin {"trace_error", "run_end"})
    BY <1>4 DEF Main, MainStartFails, MainTraceOutFails, MainStart, MainTakeSnapshot,
                MainSnapshotBegin, MainSnapshotEvent, MainSnapshotEnd,
                MainSnapshotFails, MainSkip, MainDeliver, MainDeliverFails,
                MainLiveDone, Return, main
  <2> QED
    BY <2>1 DEF MainInv
<1> QED
  BY <1>1, <1>2, <1>3, <1>4, ChildFrame, BufferFrame DEF Next

-----------------------------------------------------------------------------
(* The invariant, and the properties the runs check.                        *)

\* The inductive invariant holds before runOnce starts the child.
LEMMA InitIInv == Init => IInv
<1> SUFFICES ASSUME Init PROVE IInv
  OBVIOUS
<1>1. /\ seq = 0 /\ auditSeq = 0 /\ strPc = "off" /\ bufPc = "off" /\ mainPc = "start"
      /\ history = <<>> /\ eventCh = <<>> /\ pending = <<>> /\ toSend = <<>>
      /\ liveCh = <<>> /\ snapshot = <<>> /\ delivered = <<>>
      /\ outcome = "none" /\ streamErr = "nil"
  BY DEF Init
<1>2. Emitted = 0 /\ Taken = 0 /\ Missed = 0
  <2>1. Len(<<>>) = 0
    OBVIOUS
  <2>2. Emitted = 0
    BY <1>1 DEF Emitted
  <2>3. /\ Len(eventCh) = 0 /\ Len(pending) = 0 /\ Len(toSend) = 0
        /\ Len(liveCh) = 0
    BY <1>1, <2>1
  <2>4. Taken = 0
    BY ONLY <2>2, <2>3 DEF Taken
  <2>5. Missed = 0
    BY <1>1 DEF Missed
  <2> QED
    BY <2>2, <2>4, <2>5
<1>3. HistoryInv
  BY <1>1, RunEmpty, LiveStreamAssumption DEF HistoryInv
<1>4. QueueInv
  BY <1>1, <1>2, RunEmpty DEF QueueInv
<1>5. BufferInv /\ AuditInv /\ MainInv
  BY <1>1, <1>2 DEF BufferInv, AuditInv, MainInv
<1>6. DeliveredInv /\ FinishInv
  BY <1>1, <1>2, RunEmpty DEF DeliveredInv, FinishInv
<1> QED
  BY <1>3, <1>4, <1>5, <1>6, TypeInit DEF IInv

\* The inductive invariant holds for all capacities and bounds.
THEOREM Invariance == Spec => []IInv
<1>1. IInv /\ [Next]_vars => IInv'
  BY TypeStep, HistoryStep, QueueStep, BufferStep, AuditStep, MainStep, DeliveredStep,
     FinishStep DEF IInv
<1> QED
  BY InitIInv, <1>1, PTL DEF Spec

\* Snapshot and live stream join without a seam, whatever the capacities.
THEOREM SeamlessDelivery == Spec => []NoSeam
<1>1. IInv => NoSeam
  BY DEF IInv, DeliveredInv, NoSeam, Run
<1> QED
  BY Invariance, <1>1, PTL

\* run_end is only written when nothing is missing.
THEOREM CompleteAtRunEnd == Spec => []RunEndComplete
<1>1. IInv => RunEndComplete
  BY DEF IInv, FinishInv, RunEndComplete
<1> QED
  BY Invariance, <1>1, PTL

-----------------------------------------------------------------------------
(* A run implements EventDelivery.                                          *)

\* The first number the page gets, as the refinement mapping reads it.
From == IF Served THEN Missed + 1 ELSE 0

\* A step that moves none of what the mapping reads is a stuttering step.
LEMMA DeliveryStutter ==
  ASSUME UNCHANGED <<seq, snapshot, delivered, outcome>>, Served' = Served
  PROVE  UNCHANGED Delivery!deliveryVars
<1>1. Missed' = Missed /\ Status' = Status
  BY DEF Missed, Status
<1> QED
  BY <1>1 DEF Delivery!deliveryVars

\* The snapshot serves the page from the oldest event the history still holds.
LEMMA DeliveryServe == IInv /\ MainTakeSnapshot => Delivery!Serve
<1> SUFFICES ASSUME IInv, MainTakeSnapshot PROVE Delivery!Serve
  OBVIOUS
<1> USE DEF IInv, TypeOK, HistoryInv
<1>1. /\ mainPc = "snapshot" /\ mainPc' = "snapshot_begin" /\ snapshot' = history
      /\ outcome = "none" /\ UNCHANGED <<seq, delivered, outcome>>
  BY DEF MainTakeSnapshot, MainInv, streamer
<1>2. Status = "running" /\ Status' = Status
  BY <1>1 DEF Status
<1>3. ~Served /\ Served'
  BY <1>1 DEF Served
<1>4. PICK n : n = seq - Len(history) + 1
  OBVIOUS
<1>5. n \in 1..(seq + 1) /\ (n = 1 \/ n + HistoryCap = seq + 1)
  <2>1. PICK k : k = Len(history)
    OBVIOUS
  <2>2. /\ k \in Nat /\ HistoryCap \in Nat /\ seq \in Nat
        /\ k <= seq /\ k <= HistoryCap /\ (k < HistoryCap => k = seq)
        /\ n = seq - k + 1
    BY <1>4, <2>1, LiveStreamAssumption
  <2> QED
    BY ONLY <2>2
<1>6. Missed' + 1 = n
  <2>1. CASE history = <<>>
    <3>1. Len(history) = 0 /\ seq = 0
      BY <2>1, LiveStreamAssumption
    <3>2. Missed' = 0
      BY <1>1, <2>1 DEF Missed
    <3> QED
      BY <1>4, <3>1, <3>2
  <2>2. CASE history # <<>>
    <3>1. Len(history) \in Nat /\ Len(history) >= 1 /\ history[1] = seq - Len(history) + 1
      BY <2>2 DEF Run
    <3>2. Missed' = history[1] - 1
      BY <1>1, <2>2 DEF Missed
    <3> QED
      BY <1>4, <3>1, <3>2
  <2> QED
    BY <2>1, <2>2
<1>7. From = 0 /\ From' = n
  BY <1>3, <1>6 DEF From
<1> QED
  BY <1>1, <1>2, <1>5, <1>7 DEF Delivery!Serve, From

\* Every event written, out of the snapshot or live, is the next one.
LEMMA DeliveryDeliver ==
  IInv /\ DeliveredInv' /\ (MainSnapshotEvent \/ MainDeliver) => Delivery!Deliver
<1> SUFFICES ASSUME IInv, DeliveredInv', MainSnapshotEvent \/ MainDeliver
             PROVE  Delivery!Deliver
  OBVIOUS
<1> USE DEF IInv, TypeOK
<1>1. /\ mainPc \in {"snapshot_event", "live"} /\ mainPc' = mainPc /\ outcome = "none"
      /\ UNCHANGED <<seq, snapshot, outcome>>
  BY DEF MainSnapshotEvent, MainDeliver, MainInv, streamer
<1>2. PICK e : delivered' = Append(delivered, e)
  BY DEF MainSnapshotEvent, MainDeliver
<1>3. Status = "running" /\ Status' = Status /\ Served /\ Served' /\ Missed' = Missed
  BY <1>1 DEF Status, Served, Missed
<1>4. Len(delivered') = Len(delivered) + 1 /\ Len(delivered) \in Nat /\ Missed \in Nat
  BY <1>2 DEF DeliveredInv
<1>5. delivered'[Len(delivered) + 1] = e
  BY <1>2
<1>6. e = Missed + Len(delivered) + 1 /\ Missed + Len(delivered) + 1 <= seq
  BY <1>1, <1>3, <1>4, <1>5 DEF DeliveredInv, Run
<1>7. From = Missed + 1 /\ From' = From
  BY <1>3 DEF From
<1>8. e = From + Len(delivered) /\ From + Len(delivered) <= seq /\ From > 0
  BY <1>4, <1>6, <1>7
<1> QED
  BY <1>1, <1>2, <1>3, <1>7, <1>8 DEF Delivery!Deliver, From

\* Every step of the run is a step of EventDelivery or leaves it alone.
LEMMA DeliveryStep ==
  IInv /\ DeliveredInv' /\ FinishInv' /\ [Next]_vars =>
      [Delivery!DeliveryNext]_(Delivery!deliveryVars)
<1> SUFFICES ASSUME IInv, DeliveredInv', FinishInv', [Next]_vars
             PROVE  Delivery!DeliveryNext \/ UNCHANGED Delivery!deliveryVars
  OBVIOUS
<1> USE DEF IInv, TypeOK
<1>1. CASE UNCHANGED <<mainPc, seq, snapshot, delivered, outcome>>
  BY <1>1, DeliveryStutter DEF Served
<1>2. CASE StreamEmit \/ StreamAuditSummary
  <2>1. /\ strPc # "done" /\ seq' = seq + 1
        /\ UNCHANGED <<mainPc, snapshot, delivered, outcome>>
    BY <1>2 DEF StreamEmit, StreamAuditSummary, Record, main
  <2>2. Missed' = Missed /\ Status' = Status /\ Served' = Served /\ Status # "complete"
    BY <2>1 DEF Missed, Status, Served, FinishInv
  <2>3. From' = From
    BY <2>2 DEF From
  <2> QED
    BY <2>1, <2>2, <2>3 DEF Delivery!DeliveryNext, Delivery!Produce, From
<1>3. CASE Streamer /\ ~(StreamEmit \/ StreamAuditSummary)
  BY <1>1, <1>3 DEF Streamer, StreamOpen, StreamFail, StreamRead, StreamEOF, StreamSend,
                    StreamNext, StreamWait, StreamClose, StreamReport, main
<1>4. CASE MainTakeSnapshot
  BY <1>4, DeliveryServe DEF Delivery!DeliveryNext
<1>5. CASE MainSnapshotEvent \/ MainDeliver
  BY <1>5, DeliveryDeliver DEF Delivery!DeliveryNext
<1>6. CASE MainStartFails \/ MainTraceOutFails \/ MainSnapshotFails
  <2>1. /\ outcome = "none" /\ outcome' \in {"start_error", "send_error"}
        /\ UNCHANGED <<seq, snapshot, delivered>>
        /\ Served' = Served
    BY <1>6 DEF MainStartFails, MainTraceOutFails, MainSnapshotFails, Return, MainInv,
                Served, streamer
  <2>2. Status = "running" /\ Status' = "failed" /\ Missed' = Missed
    BY <2>1 DEF Status, Missed
  <2>3. From' = From
    BY <2>1, <2>2 DEF From
  <2> QED
    BY <2>1, <2>2, <2>3 DEF Delivery!DeliveryNext, Delivery!Fail, From
<1>7. CASE MainFinish
  <2>1. /\ outcome = "none" /\ outcome' \in {"send_error", "trace_error", "run_end"}
        /\ UNCHANGED <<seq, snapshot, delivered>>
        /\ Served /\ Served'
    BY <1>7 DEF MainFinish, Result, Return, MainInv, Served, streamer
  <2>2. Missed' = Missed /\ Missed \in Nat /\ Len(delivered) \in Nat
    BY <2>1 DEF Missed, DeliveredInv
  <2>3. From = Missed + 1 /\ From' = From
    BY <2>1, <2>2 DEF From
  <2>4. CASE outcome' = "run_end"
    <3>1. Missed + Len(delivered) = seq
      BY <2>1, <2>2, <2>4 DEF FinishInv
    <3>2. From > 0 /\ From + Len(delivered) = seq + 1
      <4>1. PICK m : m = Missed
        OBVIOUS
      <4>2. /\ m \in Nat /\ Len(delivered) \in Nat /\ seq \in Nat
            /\ From = m + 1 /\ m + Len(delivered) = seq
        BY <2>2, <2>3, <3>1, <4>1
      <4> QED
        BY ONLY <4>2
    <3>3. Status = "running" /\ Status' = "complete"
      BY <2>1, <2>4 DEF Status
    <3> QED
      BY <2>1, <2>3, <3>2, <3>3 DEF Delivery!DeliveryNext, Delivery!Complete, From
  <2>5. CASE outcome' # "run_end"
    <3>1. Status = "running" /\ Status' = "failed"
      BY <2>1, <2>5 DEF Status
    <3> QED
      BY <2>1, <2>3, <3>1 DEF Delivery!DeliveryNext, Delivery!Fail, From
  <2> QED
    BY <2>4, <2>5
<1>8. CASE MainStart \/ MainSnapshotBegin \/ MainSnapshotEnd \/ MainLiveDone
  <2>1. UNCHANGED <<seq, snapshot, delivered, outcome>> /\ Served' = Served
    BY <1>8 DEF MainStart, MainSnapshotBegin, MainSnapshotEnd, MainLiveDone, Served,
                MainInv, streamer
  <2> QED
    BY <2>1, DeliveryStutter
<1>9. CASE MainSkip \/ MainDeliverFails
  BY <1>1, <1>9 DEF MainSkip, MainDeliverFails, main, streamer
<1> QED
  <2>1. CASE Main
    BY <1>4, <1>5, <1>6, <1>7, <1>8, <1>9, <2>1 DEF Main
  <2>2. CASE Streamer
    BY <1>2, <1>3, <2>2
  <2>3. CASE Runner \/ RunnerDies \/ Buffer \/ ClientGone \/ UNCHANGED vars
    BY <1>1, <2>3, ChildFrame, BufferFrame DEF vars, main, streamer
  <2> QED
    BY <2>1, <2>2, <2>3 DEF Next

\* A run delivers its events in order and without a gap, from the first or
\* from at most HistoryCap events back, and reports completion (run_end) only
\* when all of them are out: runOnce implements EventDelivery.
THEOREM ImplementsDelivery == Spec => DeliverySpec
<1>1. Init => Delivery!DeliveryInit
  <2> SUFFICES ASSUME Init PROVE Delivery!DeliveryInit
    OBVIOUS
  <2>1. ~Served /\ Status = "running" /\ seq = 0 /\ delivered = <<>>
    BY DEF Init, Served, Status
  <2> QED
    BY <2>1 DEF Delivery!DeliveryInit
<1>2. IInv /\ IInv' /\ [Next]_vars => [Delivery!DeliveryNext]_(Delivery!deliveryVars)
  BY DeliveryStep DEF IInv
<1> QED
  BY Invariance, <1>1, <1>2, PTL DEF Spec, DeliverySpec, Delivery!DeliverySpec
-----------------------------------------------------------------------------
(* Progress: nobody waits in a circle, and the work of a run is finite.     *)

\* What the places of the parties say about one another.
PlaceInv ==
    /\ (strPc = "off") <=> (bufPc = "off")
    /\ mainPc \notin {"start", "returned"} => strPc # "off"
    /\ mainPc = "start" => runner = "off"
    /\ strPc # "off" => runner # "off"
    /\ strPc \in {"audit", "wait"} => runner = "exited"
    /\ strPc = "send" /\ strRet \in {"audit", "wait"} => runner = "exited"

\* What is in the hands of the buffering goroutine and of runOnce.
HandsInv ==
    /\ bufPc = "send" => toSend # <<>>
    /\ Len(liveCh) <= LiveBuf
    /\ conn = "open" => sendErr = "nil"

\* Only the audit summary may be recorded beyond the last timeline event.
Summed == strPc \in {"wait", "close", "report", "done"} \/ (strPc = "send" /\ strRet = "wait")
SeqInv == seq <= MaxEvents \/ (Summed /\ seq = MaxEvents + 1)

ProgressInv == PlaceInv /\ HandsInv /\ SeqInv

\* Receiving from a queue makes it shorter by one, sending longer by one.
LEMMA QueueLengths ==
  /\ \A s \in Seq(Nat) : Len(s) \in Nat
  /\ \A s \in Seq(Nat) : s # <<>> => Len(s) >= 1 /\ Len(Tail(s)) = Len(s) - 1
  /\ \A s \in Seq(Nat), e \in Nat : Len(Append(s, e)) = Len(s) + 1
  /\ \A s \in Seq(Nat) : Len(s) = 0 => s = <<>>
  /\ Len(<<>>) = 0
<1>1. \A s \in Seq(Nat) : Len(s) \in Nat
  OBVIOUS
<1>2. \A s \in Seq(Nat) : s # <<>> => Len(s) >= 1 /\ Len(Tail(s)) = Len(s) - 1
  OBVIOUS
<1>3. \A s \in Seq(Nat), e \in Nat : Len(Append(s, e)) = Len(s) + 1
  OBVIOUS
<1>4. \A s \in Seq(Nat) : Len(s) = 0 => s = <<>>
  BY EmptySeq
<1>5. Len(<<>>) = 0
  OBVIOUS
<1> QED
  BY <1>1, <1>2, <1>3, <1>4, <1>5

\* The streamer goes through its places in order, and reaches the audit only when
\* the child has exited.
LEMMA StreamerPlaces ==
  ASSUME TypeOK, Streamer
  PROVE  /\ UNCHANGED <<runner, toWrite, mainPc, bufPc, toSend, liveCh, conn, sendErr>>
         /\ strPc # "off" /\ strPc' # "off"
         /\ strPc' \in {"audit", "wait"} \/ (strPc' = "send" /\ strRet' \in {"audit", "wait"})
              => \/ runner = "exited"
                 \/ strPc = "audit"
                 \/ strPc = "send" /\ strRet \in {"audit", "wait"}
         /\ \/ seq' = seq /\ (Summed => Summed')
            \/ seq' = seq + 1 /\ seq < MaxEvents /\ ~Summed
            \/ seq' = seq + 1 /\ ~Summed /\ Summed'
<1> USE DEF TypeOK, Summed, child, buffer, main
<1>1. CASE StreamOpen \/ StreamFail
  BY <1>1 DEF StreamOpen, StreamFail
<1>2. CASE StreamRead \/ StreamEOF \/ StreamNext
  BY <1>2 DEF StreamRead, StreamEOF, StreamNext
<1>3. CASE StreamEmit
  BY <1>3 DEF StreamEmit, Record
<1>4. CASE StreamAuditSummary
  BY <1>4 DEF StreamAuditSummary, Record
<1>5. CASE StreamSend
  BY <1>5 DEF StreamSend
<1>6. CASE StreamWait \/ StreamClose \/ StreamReport
  BY <1>6 DEF StreamWait, StreamClose, StreamReport
<1> QED
  BY <1>1, <1>2, <1>3, <1>4, <1>5, <1>6 DEF Streamer

\* The buffering goroutine leaves its place only for another one it has started at,
\* holds something when it sends, and never overfills liveEventCh.
LEMMA BufferPlaces ==
  ASSUME TypeOK, HandsInv, Buffer
  PROVE  /\ UNCHANGED <<runner, toWrite, pipe, mainPc, strPc, strRet, seq, conn, sendErr>>
         /\ bufPc # "off" /\ bufPc' # "off"
         /\ bufPc' = "send" => toSend' # <<>>
         /\ Len(liveCh') <= LiveBuf
<1> USE DEF TypeOK, HandsInv, child, streamer, main
<1>1. CASE BufferHold
  BY <1>1 DEF BufferHold
<1>2. CASE BufferRelease \/ BufferForward
  <2>1. PICK e : e = Head(eventCh) /\ e \in Nat
    <3>1. eventCh # <<>>
      BY <1>2 DEF BufferRelease, BufferForward
    <3> QED
      BY <3>1
  <2>2. toSend' = Append(pending, e) \/ toSend' = <<e>>
    BY <1>2, <2>1 DEF BufferRelease, BufferForward
  <2>3. Append(pending, e) # <<>>
    <3>1. Len(Append(pending, e)) # Len(<<>>)
      BY <2>1, QueueLengths
    <3> QED
      BY <3>1
  <2>4. <<e>> # <<>>
    OBVIOUS
  <2> QED
    BY <1>2, <2>2, <2>3, <2>4 DEF BufferRelease, BufferForward
<1>3. CASE BufferSend
  <2>1. bufPc' = "send" => toSend' # <<>>
    <3>1. Len(toSend) # 1 => Len(Tail(toSend)) # 0
      BY <1>3, QueueLengths DEF BufferSend
    <3> QED
      BY <1>3, <3>1, QueueLengths DEF BufferSend
  <2>2. Len(liveCh') <= LiveBuf
    BY <1>3, QueueLengths, LiveStreamAssumption DEF BufferSend
  <2> QED
    BY <1>3, <2>1, <2>2 DEF BufferSend
<1>4. CASE BufferEnd \/ BufferClose
  BY <1>4 DEF BufferEnd, BufferClose
<1> QED
  BY <1>1, <1>2, <1>3, <1>4 DEF Buffer

\* runOnce starts all goroutines together, or returns without any.
LEMMA MainPlaces ==
  ASSUME IInv, HandsInv, Main
  PROVE  /\ \/ /\ mainPc = "start" /\ mainPc' = "snapshot" /\ strPc = "off" /\ bufPc = "off"
               /\ strPc' = "open" /\ bufPc' = "hold" /\ runner' = "running"
            \/ /\ mainPc = "start" /\ mainPc' = "returned" /\ strPc = "off"
               /\ UNCHANGED <<strPc, bufPc>>
            \/ /\ mainPc \notin {"start", "returned"} /\ mainPc' # "start"
               /\ UNCHANGED <<runner, strPc, bufPc>>
         /\ UNCHANGED <<seq, strRet, toSend, toWrite, pipe>>
         /\ Len(liveCh') <= LiveBuf
         /\ conn' = "open" => sendErr' = "nil"
<1> USE DEF IInv, TypeOK, HandsInv, MainInv, child, streamer, buffer, main
<1>1. CASE MainStartFails \/ MainTraceOutFails
  BY <1>1 DEF MainStartFails, MainTraceOutFails, Return
<1>2. CASE MainStart
  BY <1>2 DEF MainStart
<1>3. CASE MainTakeSnapshot \/ MainSnapshotBegin \/ MainSnapshotEvent
  BY <1>3 DEF MainTakeSnapshot, MainSnapshotBegin, MainSnapshotEvent
<1>4. CASE MainSnapshotEnd \/ MainSnapshotFails
  BY <1>4 DEF MainSnapshotEnd, MainSnapshotFails, Return
<1>5. CASE MainSkip \/ MainDeliver \/ MainDeliverFails
  <2>1. Len(liveCh') <= LiveBuf
    <3>1. liveCh # <<>> /\ liveCh' = Tail(liveCh)
      BY <1>5 DEF MainSkip, MainDeliver, MainDeliverFails
    <3> QED
      BY <3>1, QueueLengths, LiveStreamAssumption
  <2> QED
    BY <1>5, <2>1 DEF MainSkip, MainDeliver, MainDeliverFails
<1>6. CASE MainLiveDone \/ MainFinish
  BY <1>6 DEF MainLiveDone, MainFinish, Return
<1> QED
  BY <1>1, <1>2, <1>3, <1>4, <1>5, <1>6 DEF Main

\* No step of the five parties breaks what their places say about one another.
LEMMA ProgressStep == IInv /\ ProgressInv /\ [Next]_vars => ProgressInv'
<1> SUFFICES ASSUME IInv, ProgressInv, [Next]_vars PROVE ProgressInv'
  OBVIOUS
<1>1. CASE Runner \/ RunnerDies \/ ClientGone \/ UNCHANGED vars
  <2>1. UNCHANGED <<strPc, strRet, seq, bufPc, toSend, liveCh, mainPc, sendErr>>
    BY <1>1, ChildFrame
  <2>2. /\ runner' = runner \/ (runner = "running" /\ runner' = "exited")
        /\ conn' = conn \/ conn' = "broken"
    BY <1>1 DEF Runner, RunnerWrite, RunnerExit, RunnerDies, ClientGone, vars, child
  <2> QED
    BY <2>1, <2>2 DEF ProgressInv, PlaceInv, HandsInv, SeqInv, Summed
<1>2. CASE Streamer
  <2>1. PlaceInv'
    BY <1>2, StreamerPlaces DEF IInv, ProgressInv, PlaceInv
  <2>2. HandsInv'
    BY <1>2, StreamerPlaces DEF IInv, ProgressInv, HandsInv
  <2>3. SeqInv'
    <3>1. /\ \/ seq' = seq /\ (Summed => Summed')
             \/ seq' = seq + 1 /\ seq < MaxEvents /\ ~Summed
             \/ seq' = seq + 1 /\ ~Summed /\ Summed'
          /\ seq \in Nat
      BY <1>2, StreamerPlaces DEF IInv, TypeOK
    <3> QED
      BY <3>1, LiveStreamAssumption DEF ProgressInv, SeqInv
  <2> QED
    BY <2>1, <2>2, <2>3 DEF ProgressInv
<1>3. CASE Buffer
  BY <1>3, BufferPlaces DEF IInv, ProgressInv, PlaceInv, HandsInv, SeqInv, Summed
<1>4. CASE Main
  <2>1. HandsInv /\ PlaceInv /\ SeqInv
    BY DEF ProgressInv
  <2>2. HandsInv'
    BY <1>4, <2>1, MainPlaces DEF HandsInv
  <2>3. SeqInv'
    <3>1. \/ UNCHANGED strPc
          \/ strPc = "off" /\ strPc' = "open"
      BY <1>4, <2>1, MainPlaces
    <3>2. seq' = seq /\ strRet' = strRet
      BY <1>4, <2>1, MainPlaces
    <3> QED
      BY <2>1, <3>1, <3>2 DEF SeqInv, Summed
  <2>4. PlaceInv'
    BY <1>4, <2>1, MainPlaces DEF PlaceInv
  <2> QED
    BY <2>2, <2>3, <2>4 DEF ProgressInv
<1> QED
  BY <1>1, <1>2, <1>3, <1>4 DEF Next

\* They hold before the first step.
LEMMA ProgressInit == Init => ProgressInv
  BY LiveStreamAssumption, QueueLengths
  DEF Init, ProgressInv, PlaceInv, HandsInv, SeqInv, Summed

\* Before runOnce has returned someone can go on: the pipe has room for the child
\* or an item for the streamer, and room in front or events behind for the rest.
LEMMA SomeoneCan ==
  IInv /\ ProgressInv /\ mainPc # "returned" => RunnerCan \/ StreamerCan \/ BufferCan \/ MainCan
<1> SUFFICES ASSUME IInv, ProgressInv, mainPc # "returned"
             PROVE  RunnerCan \/ StreamerCan \/ BufferCan \/ MainCan
  OBVIOUS
<1> USE DEF IInv, TypeOK, ProgressInv, PlaceInv, HandsInv
<1>1. CASE mainPc \in {"start", "snapshot", "snapshot_begin", "snapshot_event"}
  BY <1>1 DEF MainCan, MainInv
<1>2. CASE mainPc = "result"
  BY <1>2 DEF MainCan, ErrSent, StreamerCan, MainInv, BufferInv, EventClosed
<1>3. CASE mainPc = "live"
  <2>1. CASE liveCh # <<>> \/ bufPc = "done"
    BY <1>3, <2>1 DEF MainCan, LiveClosed
  <2>2. CASE liveCh = <<>> /\ bufPc \in {"send", "drain"}
    BY <2>2, QueueLengths, LiveStreamAssumption DEF BufferCan
  <2>3. CASE bufPc \in {"hold", "recv"} /\ (eventCh # <<>> \/ EventClosed)
    BY <1>3, <2>3 DEF BufferCan, BufferReady
  <2>4. CASE bufPc \in {"hold", "recv"} /\ eventCh = <<>> /\ ~EventClosed
    <3>1. strPc \in {"open", "read", "process", "audit", "send", "wait", "close"}
      BY <2>4 DEF EventClosed
    <3> QED
      BY <2>4, <3>1, QueueLengths, LiveStreamAssumption DEF StreamerCan, RunnerCan
  <2> QED
    BY <1>3, <2>1, <2>2, <2>3, <2>4
<1> QED
  BY <1>1, <1>2, <1>3

\* The goroutines a run leaves behind can go on while liveEventCh has room.
LEMMA LeftBehindCan ==
  IInv /\ ProgressInv /\ mainPc = "returned" =>
      GoroutinesOver \/ Len(liveCh) = LiveBuf \/ RunnerCan \/ StreamerCan \/ BufferCan
<1> SUFFICES ASSUME IInv, ProgressInv, mainPc = "returned", ~GoroutinesOver, Len(liveCh) # LiveBuf
             PROVE  RunnerCan \/ StreamerCan \/ BufferCan
  OBVIOUS
<1> USE DEF IInv, TypeOK, ProgressInv, PlaceInv, HandsInv
<1>1. Len(liveCh) < LiveBuf /\ BufferReady
  BY LiveStreamAssumption DEF BufferReady
<1>2. CASE bufPc \in {"send", "drain"}
  BY <1>1, <1>2 DEF BufferCan
<1>3. CASE bufPc \in {"hold", "recv"} /\ (eventCh # <<>> \/ EventClosed)
  BY <1>1, <1>3 DEF BufferCan
<1>4. CASE bufPc \in {"hold", "recv"} /\ eventCh = <<>> /\ ~EventClosed
  <2>1. strPc \in {"open", "read", "process", "audit", "send", "wait", "close"}
    BY <1>4 DEF EventClosed
  <2> QED
    BY <1>4, <2>1, QueueLengths, LiveStreamAssumption DEF StreamerCan, RunnerCan
<1>5. CASE bufPc = "done"
  BY <1>5 DEF BufferInv, EventClosed, StreamerCan, GoroutinesOver
<1>6. bufPc # "off"
  BY DEF GoroutinesOver
<1> QED
  BY <1>2, <1>3, <1>4, <1>5, <1>6

-----------------------------------------------------------------------------
(* Every step uses up work.                                                 *)

\* What the places are worth.
LEMMA Places ==
  /\ StreamerPlace("off") = 8 /\ StreamerPlace("open") = 7 /\ StreamerPlace("process") = 6
  /\ StreamerPlace("read") = 5 /\ StreamerPlace("audit") = 4 /\ StreamerPlace("wait") = 3
  /\ StreamerPlace("close") = 2 /\ StreamerPlace("report") = 1 /\ StreamerPlace("done") = 0
  /\ BufferPlace("off") = 4 /\ BufferPlace("hold") = 3 /\ BufferPlace("send") = 3
  /\ BufferPlace("recv") = 2 /\ BufferPlace("drain") = 1 /\ BufferPlace("done") = 0
  /\ MainPlace("start") = 6 /\ MainPlace("snapshot") = 5 /\ MainPlace("snapshot_begin") = 4
  /\ MainPlace("snapshot_event") = 3 /\ MainPlace("live") = 2 /\ MainPlace("result") = 1
  /\ MainPlace("returned") = 0
  /\ RunnerPlace("off") = 2 /\ RunnerPlace("running") = 1 /\ RunnerPlace("exited") = 0
  /\ \A p : /\ StreamerPlace(p) \in Nat /\ BufferPlace(p) \in Nat
            /\ MainPlace(p) \in Nat /\ RunnerPlace(p) \in Nat
<1>1. \A p : StreamerPlace(p) \in Nat /\ BufferPlace(p) \in Nat
  BY DEF StreamerPlace, BufferPlace
<1>2. \A p : MainPlace(p) \in Nat /\ RunnerPlace(p) \in Nat
  BY DEF MainPlace, RunnerPlace
<1> QED
  BY <1>1, <1>2 DEF StreamerPlace, BufferPlace, MainPlace, RunnerPlace

\* Each part of the work is a natural number.
LEMMA WorkTypes == IInv /\ ProgressInv => EventsLeft \in Nat /\ SnapshotLeft \in Nat
<1> SUFFICES ASSUME IInv, ProgressInv PROVE EventsLeft \in Nat /\ SnapshotLeft \in Nat
  OBVIOUS
<1> USE DEF IInv, TypeOK
<1>1. EventsLeft \in Nat
  <2>1. MaxEvents + 1 - seq \in Nat /\ MaxEvents \in Nat /\ seq \in Nat
    BY LiveStreamAssumption DEF ProgressInv, SeqInv
  <2>2. /\ Len(eventCh) \in Nat /\ Len(pending) \in Nat /\ Len(toSend) \in Nat
        /\ Len(liveCh) \in Nat
    OBVIOUS
  <2> QED
    BY ONLY <2>1, <2>2 DEF EventsLeft
<1>2. SnapshotLeft \in Nat
  BY LiveStreamAssumption, QueueLengths DEF SnapshotLeft, MainInv
<1> QED
  BY <1>1, <1>2

\* The place of the streamer, one that sends counted where it will go on.
StreamerAt == StreamerPlace(IF strPc = "send" THEN strRet ELSE strPc)
ConnLeft == IF conn = "open" THEN 1 ELSE 0

\* The work of the streamer: its events, its items in the pipe and its place.
StreamerWork == EventsLeft + 2 * pipe + StreamerAt

\* Everything the work is counted from is a natural number.
LEMMA CountTypes ==
  ASSUME TypeOK
  PROVE  /\ Len(eventCh) \in Nat /\ Len(pending) \in Nat /\ Len(toSend) \in Nat
         /\ Len(liveCh) \in Nat /\ Len(snapshot) \in Nat /\ Len(delivered) \in Nat
         /\ seq \in Nat /\ pipe \in Nat /\ toWrite \in Nat
         /\ MaxEvents \in Nat /\ HistoryCap \in Nat
  BY LiveStreamAssumption DEF TypeOK

\* The streamer works: an item it reads, an event it records or sends, or its place.
LEMMA StreamerWorks ==
  ASSUME IInv, ProgressInv, Streamer
  PROVE  StreamerWork' < StreamerWork
<1>1. UNCHANGED <<pending, toSend, liveCh>>
  BY StreamerFrame
<1>2. /\ Len(eventCh) \in Nat /\ Len(pending) \in Nat /\ Len(toSend) \in Nat
      /\ Len(liveCh) \in Nat /\ MaxEvents \in Nat /\ seq \in Nat
  BY CountTypes DEF IInv
<1>3. EventsLeft \in Nat /\ StreamerAt \in Nat /\ pipe \in Nat
  BY WorkTypes, Places, CountTypes DEF StreamerAt, IInv
<1>4. CASE StreamOpen \/ StreamFail \/ StreamRead \/ StreamEOF \/ StreamNext \/ StreamWait
           \/ StreamClose \/ StreamReport
  <2>1. /\ seq' = seq /\ eventCh' = eventCh
        /\ strPc # "send" /\ strPc' # "send"
        /\ \/ strPc = "open" /\ strPc' = "read" /\ pipe' = pipe - 1
           \/ strPc = "read" /\ strPc' = "process" /\ pipe' = pipe - 1
           \/ strPc \in {"open", "read", "wait"} /\ strPc' = "close" /\ pipe' = pipe
           \/ strPc = "read" /\ strPc' = "audit" /\ pipe' = pipe
           \/ strPc = "process" /\ strPc' = "read" /\ pipe' = pipe
           \/ strPc = "close" /\ strPc' = "report" /\ pipe' = pipe
           \/ strPc = "report" /\ strPc' = "done" /\ pipe' = pipe
    BY <1>4 DEF StreamOpen, StreamFail, StreamRead, StreamEOF, StreamNext, StreamWait,
                StreamClose, StreamReport, child
  <2>2. EventsLeft' = EventsLeft
    BY <1>1, <2>1 DEF EventsLeft
  <2>3. StreamerAt = StreamerPlace(strPc) /\ StreamerAt' = StreamerPlace(strPc')
    BY <2>1 DEF StreamerAt
  <2>4. 2 * pipe' + StreamerPlace(strPc') < 2 * pipe + StreamerPlace(strPc)
    BY ONLY <1>3, <2>1, Places
  <2>5. StreamerPlace(strPc') \in Nat /\ pipe' \in Int
    BY ONLY <1>3, <2>1, Places
  <2> QED
    BY ONLY <1>3, <2>2, <2>3, <2>4, <2>5 DEF StreamerWork
<1>5. CASE StreamEmit \/ StreamAuditSummary
  <2>1. /\ strPc # "send" /\ strPc' = "send" /\ seq' = seq + 1
        /\ strRet' = strPc \/ (strPc = "audit" /\ strRet' = "wait")
        /\ UNCHANGED <<pipe, eventCh>>
    BY <1>5 DEF StreamEmit, StreamAuditSummary, Record, child
  <2>2. EventsLeft' = EventsLeft - 1
    BY ONLY <1>1, <1>2, <2>1 DEF EventsLeft
  <2>3. StreamerAt = StreamerPlace(strPc) /\ StreamerAt' = StreamerPlace(strRet')
    BY <2>1 DEF StreamerAt
  <2>4. StreamerPlace(strRet') <= StreamerPlace(strPc) /\ StreamerPlace(strRet') \in Nat
        /\ StreamerPlace(strPc) \in Nat
    BY ONLY <2>1, Places
  <2> QED
    BY ONLY <1>3, <2>1, <2>2, <2>3, <2>4 DEF StreamerWork
<1>6. CASE StreamSend
  <2>1. /\ strPc = "send" /\ strPc' = strRet /\ strRet' = strRet /\ strRet # "send"
        /\ seq' = seq /\ pipe' = pipe
    BY <1>6 DEF StreamSend, child, IInv, TypeOK
  <2>2. Len(eventCh') = Len(eventCh) + 1
    BY <1>6, QueueLengths DEF StreamSend, IInv, TypeOK
  <2>3. EventsLeft' = EventsLeft - 1
    BY ONLY <1>1, <1>2, <2>1, <2>2 DEF EventsLeft
  <2>4. StreamerAt' = StreamerAt
    BY <2>1 DEF StreamerAt
  <2> QED
    BY ONLY <1>3, <2>1, <2>3, <2>4 DEF StreamerWork
<1> QED
  BY <1>4, <1>5, <1>6 DEF Streamer

\* The buffering goroutine works: every event it moves is nearer to the client.
LEMMA BufferWorks ==
  ASSUME IInv, ProgressInv, Buffer
  PROVE  EventsLeft' + BufferPlace(bufPc') < EventsLeft + BufferPlace(bufPc)
<1>1. UNCHANGED <<seq, strPc>>
  BY BufferFrame
<1>2. /\ Len(eventCh) \in Nat /\ Len(pending) \in Nat /\ Len(toSend) \in Nat
      /\ Len(liveCh) \in Nat /\ MaxEvents \in Nat /\ seq \in Nat
  BY CountTypes DEF IInv
<1>3. /\ eventCh \in Seq(Nat) /\ pending \in Seq(Nat) /\ toSend \in Seq(Nat) /\ liveCh \in Seq(Nat)
      /\ eventCh # <<>> => Head(eventCh) \in Nat
      /\ toSend # <<>> => Head(toSend) \in Nat
  BY DEF IInv, TypeOK
<1>4. BufferPlace(bufPc) \in Nat /\ BufferPlace(bufPc') \in Nat
  BY Places
<1>5. CASE BufferHold
  <2>1. /\ Len(pending') = Len(pending) + 1 /\ Len(eventCh') = Len(eventCh) - 1
        /\ UNCHANGED <<toSend, liveCh, bufPc>>
    BY <1>3, <1>5, QueueLengths DEF BufferHold
  <2>2. BufferPlace(bufPc') = BufferPlace(bufPc)
    BY <2>1
  <2> QED
    BY ONLY <1>1, <1>2, <1>4, <2>1, <2>2 DEF EventsLeft
<1>6. CASE BufferRelease \/ BufferForward
  <2>1. bufPc \in {"hold", "recv"} /\ bufPc' = "send"
    BY <1>6 DEF BufferRelease, BufferForward
  <2>2. Len(eventCh') = Len(eventCh) - 1 /\ Len(toSend) = 0 /\ Len(liveCh') = Len(liveCh)
    BY <1>3, <1>6, QueueLengths DEF BufferRelease, BufferForward, IInv, BufferInv
  <2>3. \/ Len(toSend') = Len(pending) + 1 /\ Len(pending') = 0
        \/ Len(toSend') = 1 /\ Len(pending') = Len(pending)
    <3>1. CASE BufferRelease
      BY <1>3, <3>1, QueueLengths DEF BufferRelease
    <3>2. CASE BufferForward
      BY <3>2 DEF BufferForward
    <3> QED
      BY <1>6, <3>1, <3>2
  <2>4. EventsLeft' <= EventsLeft - 2 /\ EventsLeft' \in Int
    <3>1. CASE Len(toSend') = Len(pending) + 1 /\ Len(pending') = 0
      BY ONLY <1>1, <1>2, <2>2, <3>1 DEF EventsLeft
    <3>2. CASE Len(toSend') = 1 /\ Len(pending') = Len(pending)
      BY ONLY <1>1, <1>2, <2>2, <3>2 DEF EventsLeft
    <3> QED
      BY ONLY <2>3, <3>1, <3>2
  <2>5. BufferPlace(bufPc') <= BufferPlace(bufPc) + 1
    BY ONLY <2>1, Places
  <2>6. EventsLeft \in Nat
    BY WorkTypes
  <2> QED
    BY ONLY <1>4, <2>4, <2>5, <2>6
<1>7. CASE BufferSend
  <2>1. bufPc' = bufPc \/ (bufPc = "send" /\ bufPc' = "recv")
    BY <1>7 DEF BufferSend
  <2>2. /\ Len(toSend') = Len(toSend) - 1 /\ Len(liveCh') = Len(liveCh) + 1
        /\ UNCHANGED <<eventCh, pending>>
    BY <1>3, <1>7, QueueLengths DEF BufferSend
  <2>3. BufferPlace(bufPc') <= BufferPlace(bufPc)
    BY ONLY <1>4, <2>1, Places
  <2>4. EventsLeft' < EventsLeft /\ EventsLeft' \in Int
    BY ONLY <1>1, <1>2, <2>2 DEF EventsLeft
  <2>5. EventsLeft \in Nat
    BY WorkTypes
  <2> QED
    BY ONLY <1>4, <2>3, <2>4, <2>5
<1>8. CASE BufferEnd
  <2>1. /\ Len(toSend') = Len(pending) /\ Len(pending') = 0
        /\ UNCHANGED <<eventCh, liveCh>>
    BY <1>8, QueueLengths DEF BufferEnd
  <2>2. bufPc \in {"hold", "recv"} /\ bufPc' = "drain"
    BY <1>8 DEF BufferEnd
  <2>3. Len(toSend) = 0
    BY <2>2, QueueLengths DEF IInv, BufferInv
  <2>4. BufferPlace(bufPc') < BufferPlace(bufPc)
    BY ONLY <2>2, Places
  <2> QED
    BY ONLY <1>1, <1>2, <1>4, <2>1, <2>3, <2>4 DEF EventsLeft
<1>9. CASE BufferClose
  <2>1. UNCHANGED <<eventCh, pending, toSend, liveCh>>
    BY <1>9 DEF BufferClose
  <2>2. EventsLeft' = EventsLeft
    BY <1>1, <2>1 DEF EventsLeft
  <2>3. BufferPlace(bufPc') < BufferPlace(bufPc)
    BY <1>9, Places DEF BufferClose
  <2>4. EventsLeft \in Nat
    BY WorkTypes
  <2> QED
    BY ONLY <1>4, <2>2, <2>3, <2>4
<1> QED
  BY <1>5, <1>6, <1>7, <1>8, <1>9 DEF Buffer

\* runOnce works: an event it takes or writes, or its place; starting the others
\* moves them too.
MainWork == EventsLeft + SnapshotLeft + StreamerAt + BufferPlace(bufPc) + MainPlace(mainPc)
            + RunnerPlace(runner)

LEMMA MainWorks ==
  ASSUME IInv, ProgressInv, Main
  PROVE  MainWork' < MainWork
<1>1. UNCHANGED <<seq, strRet, eventCh, pending, toSend>>
  BY MainFrame
<1>2. /\ Len(eventCh) \in Nat /\ Len(pending) \in Nat /\ Len(toSend) \in Nat
      /\ Len(liveCh) \in Nat /\ MaxEvents \in Nat /\ seq \in Nat
  BY CountTypes DEF IInv
<1>3. /\ EventsLeft \in Nat /\ SnapshotLeft \in Nat /\ StreamerAt \in Nat /\ StreamerAt' \in Nat
      /\ BufferPlace(bufPc) \in Nat /\ MainPlace(mainPc) \in Nat /\ RunnerPlace(runner) \in Nat
      /\ BufferPlace(bufPc') \in Nat /\ MainPlace(mainPc') \in Nat /\ RunnerPlace(runner') \in Nat
  BY WorkTypes, Places DEF StreamerAt
<1>4. CASE mainPc = "start"
  <2>1. strPc = "off" /\ bufPc = "off" /\ runner = "off"
    BY <1>4 DEF IInv, MainInv, ProgressInv, PlaceInv
  <2>2. /\ mainPc' \in {"snapshot", "returned"} /\ strPc' \in {"off", "open"}
        /\ bufPc' \in {"off", "hold"} /\ runner' \in {"off", "running"}
    BY <1>4, <2>1 DEF Main, MainStartFails, MainTraceOutFails, MainStart, MainTakeSnapshot,
         MainSnapshotBegin, MainSnapshotEvent, MainSnapshotEnd, MainSnapshotFails,
         MainSkip, MainDeliver, MainDeliverFails, MainLiveDone, MainFinish, Return,
         child, streamer, buffer
  <2>3. liveCh' = liveCh
    BY <1>4 DEF Main, MainStartFails, MainTraceOutFails, MainStart, MainTakeSnapshot,
         MainSnapshotBegin, MainSnapshotEvent, MainSnapshotEnd, MainSnapshotFails,
         MainSkip, MainDeliver, MainDeliverFails, MainLiveDone, MainFinish
  <2>4. EventsLeft' = EventsLeft
    <3>1. strPc # "send" /\ strPc' # "send"
      BY <2>1, <2>2
    <3> QED
      BY <1>1, <2>3, <3>1 DEF EventsLeft
  <2>5. SnapshotLeft' <= SnapshotLeft /\ SnapshotLeft' \in Nat
    BY <1>4, <2>2, LiveStreamAssumption DEF SnapshotLeft
  <2>6. StreamerAt' <= StreamerAt
    BY <2>1, <2>2, Places DEF StreamerAt
  <2>7. BufferPlace(bufPc') <= BufferPlace(bufPc) /\ RunnerPlace(runner') <= RunnerPlace(runner)
    BY <2>1, <2>2, Places
  <2>8. MainPlace(mainPc') < MainPlace(mainPc)
    BY <1>4, <2>2, Places
  <2> QED
    BY ONLY <1>3, <2>4, <2>5, <2>6, <2>7, <2>8 DEF MainWork
<1>5. CASE mainPc # "start"
  <2>1. UNCHANGED <<strPc, bufPc, runner>>
    <3>1. HandsInv
      BY DEF ProgressInv
    <3> QED
      BY <1>5, <3>1, MainPlaces
  <2>2. StreamerAt' = StreamerAt
    BY <1>1, <2>1 DEF StreamerAt
  <2>3. BufferPlace(bufPc') = BufferPlace(bufPc) /\ RunnerPlace(runner') = RunnerPlace(runner)
    BY <2>1
  <2>4. liveCh' = liveCh => EventsLeft' = EventsLeft
    BY <1>1, <2>1 DEF EventsLeft
  <2>5. CASE MainTakeSnapshot
    <3>1. Len(snapshot') <= HistoryCap /\ Len(snapshot') \in Nat /\ HistoryCap \in Nat
      BY <2>5, LiveStreamAssumption DEF MainTakeSnapshot, IInv, TypeOK, HistoryInv
    <3>2. Len(delivered') = 0
      BY <2>5, QueueLengths DEF MainTakeSnapshot, IInv, MainInv
    <3>3. SnapshotLeft = HistoryCap /\ SnapshotLeft' = Len(snapshot') - Len(delivered')
      BY <2>5 DEF MainTakeSnapshot, SnapshotLeft
    <3>4. SnapshotLeft' <= SnapshotLeft /\ SnapshotLeft' \in Int
      BY ONLY <3>1, <3>2, <3>3
    <3>5. MainPlace(mainPc') < MainPlace(mainPc)
      BY <2>5, Places DEF MainTakeSnapshot
    <3>6. EventsLeft' = EventsLeft
      BY <2>4, <2>5 DEF MainTakeSnapshot
    <3> QED
      BY ONLY <1>3, <2>2, <2>3, <3>4, <3>5, <3>6 DEF MainWork
  <2>6. CASE MainSnapshotBegin
    <3>1. SnapshotLeft' = SnapshotLeft
      BY <2>6 DEF MainSnapshotBegin, SnapshotLeft
    <3>2. MainPlace(mainPc') < MainPlace(mainPc)
      BY <2>6, Places DEF MainSnapshotBegin
    <3>3. EventsLeft' = EventsLeft
      BY <2>4, <2>6 DEF MainSnapshotBegin
    <3> QED
      BY ONLY <1>3, <2>2, <2>3, <3>1, <3>2, <3>3 DEF MainWork
  <2>7. CASE MainSnapshotEvent
    <3>1. Len(delivered') = Len(delivered) + 1 /\ Len(delivered) \in Nat /\ Len(snapshot) \in Nat
      BY <2>7, QueueLengths DEF MainSnapshotEvent, IInv, TypeOK
    <3>2. SnapshotLeft = Len(snapshot) - Len(delivered) /\ SnapshotLeft' = Len(snapshot) - Len(delivered')
      BY <2>7 DEF MainSnapshotEvent, SnapshotLeft
    <3>3. SnapshotLeft' < SnapshotLeft /\ SnapshotLeft' \in Int
      BY ONLY <3>1, <3>2
    <3>4. MainPlace(mainPc') = MainPlace(mainPc)
      BY <2>7 DEF MainSnapshotEvent
    <3>5. EventsLeft' = EventsLeft
      BY <2>4, <2>7 DEF MainSnapshotEvent
    <3> QED
      BY ONLY <1>3, <2>2, <2>3, <3>3, <3>4, <3>5 DEF MainWork
  <2>8. CASE MainSnapshotEnd \/ MainSnapshotFails \/ MainLiveDone \/ MainFinish
    <3>1. /\ \/ mainPc = "snapshot_event" /\ mainPc' = "live"
             \/ mainPc \in {"snapshot_begin", "snapshot_event"} /\ mainPc' = "returned"
             \/ mainPc = "live" /\ mainPc' = "result"
             \/ mainPc = "result" /\ mainPc' = "returned"
          /\ liveCh' = liveCh
      BY <2>8 DEF MainSnapshotEnd, MainSnapshotFails, MainLiveDone, MainFinish, Return
    <3>2. SnapshotLeft' = 0
      BY <3>1 DEF SnapshotLeft
    <3>3. MainPlace(mainPc') < MainPlace(mainPc)
      BY <3>1, Places
    <3>4. EventsLeft' = EventsLeft
      BY <2>4, <3>1
    <3> QED
      BY ONLY <1>3, <2>2, <2>3, <3>2, <3>3, <3>4 DEF MainWork
  <2>9. CASE MainSkip \/ MainDeliver \/ MainDeliverFails
    <3>1. /\ mainPc = "live" /\ mainPc' = "live"
          /\ liveCh # <<>> /\ liveCh' = Tail(liveCh)
      BY <2>9 DEF MainSkip, MainDeliver, MainDeliverFails, main
    <3>2. Len(liveCh') = Len(liveCh) - 1
      BY <3>1, QueueLengths DEF IInv, TypeOK
    <3>3. EventsLeft' < EventsLeft /\ EventsLeft' \in Int
      BY ONLY <1>1, <1>2, <2>1, <3>2 DEF EventsLeft
    <3>4. SnapshotLeft' = SnapshotLeft /\ MainPlace(mainPc') = MainPlace(mainPc)
      BY <3>1 DEF SnapshotLeft
    <3> QED
      BY ONLY <1>3, <2>2, <2>3, <3>3, <3>4 DEF MainWork
  <2>10. ~(MainStartFails \/ MainTraceOutFails \/ MainStart)
    BY <1>5 DEF MainStartFails, MainTraceOutFails, MainStart
  <2> QED
    BY <2>5, <2>6, <2>7, <2>8, <2>9, <2>10 DEF Main
<1> QED
  BY <1>4, <1>5

\* The work is a natural number, and every step lowers it.
LEMMA WorkStep ==
  IInv /\ ProgressInv /\ ProgressInv' /\ IInv' /\ [Next]_vars => Work \in Nat /\ [Work' < Work]_vars
<1> SUFFICES ASSUME IInv, ProgressInv, IInv', ProgressInv', [Next]_vars
             PROVE  Work \in Nat /\ (Work' < Work \/ UNCHANGED vars)
  OBVIOUS
<1>1. /\ EventsLeft \in Nat /\ SnapshotLeft \in Nat /\ StreamerAt \in Nat
      /\ BufferPlace(bufPc) \in Nat /\ MainPlace(mainPc) \in Nat /\ RunnerPlace(runner) \in Nat
      /\ ConnLeft \in Nat /\ toWrite \in Nat /\ pipe \in Nat
  BY WorkTypes, Places, CountTypes DEF StreamerAt, ConnLeft, IInv
<1>2. (EventsLeft \in Nat /\ SnapshotLeft \in Nat)'
  BY WorkTypes, PTL
<1>3. /\ StreamerAt' \in Nat /\ ConnLeft' \in Nat
      /\ BufferPlace(bufPc') \in Nat /\ MainPlace(mainPc') \in Nat /\ RunnerPlace(runner') \in Nat
  BY Places DEF StreamerAt, ConnLeft
<1>4. toWrite' \in Nat /\ pipe' \in Nat
  BY DEF IInv, TypeOK
<1>5. Work = EventsLeft + SnapshotLeft + 3 * toWrite + 2 * pipe + StreamerAt + BufferPlace(bufPc)
             + MainPlace(mainPc) + RunnerPlace(runner) + ConnLeft
  BY DEF Work, StreamerAt, ConnLeft
<1>6. Work' = EventsLeft' + SnapshotLeft' + 3 * toWrite' + 2 * pipe' + StreamerAt' + BufferPlace(bufPc')
              + MainPlace(mainPc') + RunnerPlace(runner') + ConnLeft'
  BY DEF Work, StreamerAt, ConnLeft
<1>7. Work \in Nat
  BY ONLY <1>1, <1>5
<1>8. CASE Streamer
  <2>1. UNCHANGED <<mainPc, bufPc, runner, conn, toWrite>>
    BY <1>8, StreamerPlaces DEF IInv
  <2>2. SnapshotLeft' = SnapshotLeft /\ ConnLeft' = ConnLeft /\ toWrite' = toWrite
    BY <1>8, <2>1, StreamerFrame DEF SnapshotLeft, ConnLeft
  <2>3. EventsLeft' + 2 * pipe' + StreamerAt' < EventsLeft + 2 * pipe + StreamerAt
    BY <1>8, StreamerWorks DEF StreamerWork
  <2>4. BufferPlace(bufPc') = BufferPlace(bufPc) /\ MainPlace(mainPc') = MainPlace(mainPc)
        /\ RunnerPlace(runner') = RunnerPlace(runner)
    BY <2>1
  <2>5. Work' - Work = (EventsLeft' + 2 * pipe' + StreamerAt') - (EventsLeft + 2 * pipe + StreamerAt)
    BY ONLY <1>1, <1>2, <1>3, <1>4, <1>5, <1>6, <2>2, <2>4
  <2>6. Work' \in Int /\ EventsLeft' + 2 * pipe' + StreamerAt' \in Int
        /\ EventsLeft + 2 * pipe + StreamerAt \in Int
    BY ONLY <1>1, <1>2, <1>3, <1>4, <1>6
  <2> QED
    BY ONLY <1>7, <2>3, <2>5, <2>6
<1>9. CASE Buffer
  <2>1. UNCHANGED <<mainPc, strPc, strRet, runner, conn, toWrite, pipe>>
    BY <1>9, BufferPlaces DEF IInv, ProgressInv
  <2>2. SnapshotLeft' = SnapshotLeft /\ ConnLeft' = ConnLeft /\ StreamerAt' = StreamerAt
        /\ toWrite' = toWrite /\ pipe' = pipe
    BY <1>9, <2>1, BufferFrame DEF SnapshotLeft, ConnLeft, StreamerAt
  <2>3. EventsLeft' + BufferPlace(bufPc') < EventsLeft + BufferPlace(bufPc)
    BY <1>9, BufferWorks
  <2>4. MainPlace(mainPc') = MainPlace(mainPc) /\ RunnerPlace(runner') = RunnerPlace(runner)
    BY <2>1
  <2> QED
    BY ONLY <1>1, <1>2, <1>3, <1>4, <1>5, <1>6, <1>7, <2>2, <2>3, <2>4
<1>10. CASE Main
  <2>1. toWrite' = toWrite /\ pipe' = pipe
    BY <1>10, MainPlaces DEF ProgressInv
  <2>2. ConnLeft' = ConnLeft
    BY <1>10 DEF ConnLeft, Main, MainStartFails, MainTraceOutFails, MainStart, MainTakeSnapshot,
         MainSnapshotBegin, MainSnapshotEvent, MainSnapshotEnd, MainSnapshotFails,
         MainSkip, MainDeliver, MainDeliverFails, MainLiveDone, MainFinish
  <2>3. MainWork' < MainWork
    BY <1>10, MainWorks
  <2> QED
    BY ONLY <1>1, <1>2, <1>3, <1>4, <1>5, <1>6, <1>7, <2>1, <2>2, <2>3 DEF MainWork
<1>11. CASE Runner \/ RunnerDies \/ ClientGone
  <2>1. EventsLeft' = EventsLeft
    BY <1>11, ChildFrame DEF EventsLeft
  <2>2. SnapshotLeft' = SnapshotLeft /\ StreamerAt' = StreamerAt
    BY <1>11, ChildFrame DEF SnapshotLeft, StreamerAt
  <2>3. BufferPlace(bufPc') = BufferPlace(bufPc) /\ MainPlace(mainPc') = MainPlace(mainPc)
    BY <1>11, ChildFrame
  <2>4. CASE RunnerWrite
    <3>1. toWrite' = toWrite - 1 /\ pipe' = pipe + 1
      BY <2>4 DEF RunnerWrite
    <3>2. RunnerPlace(runner') = RunnerPlace(runner) /\ ConnLeft' = ConnLeft
      BY <2>4 DEF RunnerWrite, ConnLeft
    <3> QED
      BY ONLY <1>1, <1>2, <1>3, <1>4, <1>5, <1>6, <1>7, <2>1, <2>2, <2>3, <3>1, <3>2
  <2>5. CASE RunnerExit \/ RunnerDies
    <3>1. /\ runner = "running" /\ runner' = "exited" /\ conn' = conn
          /\ toWrite' = toWrite \/ toWrite' = 0
          /\ pipe' = pipe
      BY <2>5 DEF RunnerExit, RunnerDies
    <3>2. RunnerPlace(runner') < RunnerPlace(runner) /\ ConnLeft' = ConnLeft
      BY <3>1, Places DEF ConnLeft
    <3>3. toWrite' <= toWrite /\ pipe' = pipe
      BY ONLY <1>1, <3>1
    <3> QED
      BY ONLY <1>1, <1>2, <1>3, <1>4, <1>5, <1>6, <1>7, <2>1, <2>2, <2>3, <3>2, <3>3
  <2>6. CASE ClientGone
    <3>1. toWrite' = toWrite /\ pipe' = pipe
      BY <2>6 DEF ClientGone, child
    <3>2. RunnerPlace(runner') = RunnerPlace(runner) /\ ConnLeft' < ConnLeft
      BY <2>6 DEF ClientGone, child, ConnLeft
    <3> QED
      BY ONLY <1>1, <1>2, <1>3, <1>4, <1>5, <1>6, <1>7, <2>1, <2>2, <2>3, <3>1, <3>2
  <2> QED
    BY <1>11, <2>4, <2>5, <2>6 DEF Runner
<1> QED
  BY <1>7, <1>8, <1>9, <1>10, <1>11 DEF Next

\* The five parties never wait for one another in a circle and their work is
\* finite, for all capacities: with fair scheduling runOnce returns, and what it
\* leaves behind ends or waits at a full liveEventCh.
THEOREM RunProgresses == Spec => Progresses
<1>1. Init => IInv /\ ProgressInv
  BY InitIInv, ProgressInit
<1>2. (IInv /\ ProgressInv) /\ [Next]_vars => (IInv /\ ProgressInv)'
  BY TypeStep, HistoryStep, QueueStep, BufferStep, AuditStep, MainStep, DeliveredStep,
     FinishStep, ProgressStep DEF IInv
<1>3. IInv /\ ProgressInv =>
        /\ mainPc # "returned" => RunnerCan \/ StreamerCan \/ BufferCan \/ MainCan
        /\ mainPc = "returned" =>
             GoroutinesOver \/ Len(liveCh) = LiveBuf \/ RunnerCan \/ StreamerCan \/ BufferCan
  BY SomeoneCan, LeftBehindCan
<1>4. (IInv /\ ProgressInv) /\ (IInv /\ ProgressInv)' /\ [Next]_vars => Work \in Nat /\ [Work' < Work]_vars
  BY WorkStep
<1> QED
  BY <1>1, <1>2, <1>3, <1>4, PTL DEF Spec, Progresses

\* A run whose every write succeeded has written all that was recorded after its
\* snapshot began, also one whose trace broke off (ClientCatchesUp without "eventually").
CaughtUp ==
    (mainPc = "result" /\ sendErr = "nil") \/ outcome \in {"trace_error", "run_end"} =>
        Missed + Len(delivered) = seq

\* The client that stays has every event when its run ends, with or without an error
\* of the streamer.
THEOREM ClientHearsAll == Spec => []CaughtUp
<1>1. IInv => CaughtUp
  BY AllWritten DEF CaughtUp, IInv, FinishInv
<1> QED
  BY Invariance, <1>1, PTL
=============================================================================
