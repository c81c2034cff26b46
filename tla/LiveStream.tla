----------------------------- MODULE LiveStream -----------------------------
(***************************************************************************)
(* One run of a live session: runOnce and streamTraceEvents in             *)
(* cmd/gtv-live/main.go.                                                   *)
(*                                                                         *)
(* Five parties take part.                                                 *)
(*   - The runner child writes its runtime trace to an OS pipe.            *)
(*   - The streamer goroutine reads the pipe, numbers every timeline event *)
(*     with `seq`, records it in the run history and then sends it to      *)
(*     eventCh.                                                            *)
(*   - The buffering goroutine holds events back until the snapshot has    *)
(*     been written, then forwards them to liveEventCh.                    *)
(*   - The main goroutine (runOnce itself, the only writer of the          *)
(*     WebSocket) takes a snapshot of the history, writes it, then writes  *)
(*     the live events the snapshot did not contain.                       *)
(*   - The client may disappear at any moment; from then on every write to *)
(*     the connection fails.                                               *)
(*                                                                         *)
(* An event is represented by its sequence number: what a timeline event   *)
(* says does not matter to its delivery.                                   *)
(***************************************************************************)
EXTENDS Naturals, Sequences

CONSTANTS
    HistoryCap,   \* runHistoryCapacity
    EventBuf,     \* capacity of eventCh (liveEventBuffer)
    LiveBuf,      \* capacity of liveEventCh (liveEventBuffer)
    PipeCap,      \* what the OS pipe holds before the runner blocks
    MaxItems,     \* bound: trace items one run writes
    MaxEvents     \* bound: timeline events emitted before the audit summary

ASSUME LiveStreamAssumption ==
    /\ HistoryCap \in Nat \ {0}
    /\ EventBuf \in Nat \ {0}
    /\ LiveBuf \in Nat \ {0}
    /\ PipeCap \in Nat \ {0}
    /\ MaxItems \in Nat
    /\ MaxEvents \in Nat

VARIABLES
    \* the runner child and the pipe it writes to
    runner,       \* "off", "running" or "exited"
    toWrite,      \* trace items the runner has still to write
    pipe,         \* trace items in the pipe
    wrapper,      \* the `go run` process around it: "alive" or "killed"
    \* the streamer goroutine
    strPc,
    strRet,       \* where it goes on after a send
    seq,          \* last sequence number given out
    auditSeq,     \* sequence number of the audit summary, 0 before it
    history,      \* runHistory.events
    streamErr,    \* what streamTraceEvents returned: "nil" or "err"
    eventCh,
    \* the buffering goroutine
    bufPc,        \* receiving in "hold" while it is buffering, then in "recv"
    pending,
    toSend,       \* what it is sending to liveEventCh
    liveCh,
    \* the main goroutine and its connection
    mainPc, snapshot, lastSeq, sendErr,
    delivered,    \* sequence numbers written to the connection, in order
    outcome,      \* what runOnce returned
    conn          \* "open" or "broken"

child    == <<runner, toWrite, pipe, wrapper>>
streamer == <<strPc, strRet, seq, auditSeq, history, streamErr>>
buffer   == <<bufPc, pending, toSend>>
main     == <<mainPc, snapshot, lastSeq, sendErr, delivered, outcome>>

vars == <<child, streamer, eventCh, buffer, liveCh, main, conn>>

\* Four facts about the channels are read off the program counters: who has
\* closed eventCh, liveEventCh and bufferReadyCh, and that errCh holds a result.
EventClosed == strPc \in {"report", "done"}
ErrSent     == strPc = "done"
LiveClosed  == bufPc = "done"
\* Mutant: a failed snapshot returns without closing bufferReadyCh.
BufferReadyOnSuccess == mainPc \in {"live", "result"}

BufferReady == mainPc \in {"live", "result", "returned"}

-----------------------------------------------------------------------------
Init ==
    /\ runner = "off" /\ toWrite \in 0..MaxItems /\ pipe = 0 /\ wrapper = "alive"
    /\ strPc = "off" /\ strRet = "read" /\ seq = 0 /\ auditSeq = 0
    /\ history = <<>> /\ streamErr = "nil" /\ eventCh = <<>>
    /\ bufPc = "off" /\ pending = <<>> /\ toSend = <<>>
    /\ liveCh = <<>>
    /\ mainPc = "start" /\ conn = "open" /\ snapshot = <<>> /\ lastSeq = 0
    /\ sendErr = "nil" /\ delivered = <<>> /\ outcome = "none"

-----------------------------------------------------------------------------
(* The runner child.  `go run` is only a wrapper around it: Kill ends the  *)
(* wrapper and may or may not take the runner along.                       *)

RunnerWrite ==
    /\ runner = "running" /\ toWrite > 0 /\ pipe < PipeCap
    /\ toWrite' = toWrite - 1
    /\ pipe' = pipe + 1
    /\ UNCHANGED <<runner, wrapper, streamer, eventCh, buffer, liveCh, main,
                   conn>>

\* The workload is over, or its own deadline passed, and the trace is flushed.
RunnerExit ==
    /\ runner = "running" /\ toWrite = 0
    /\ runner' = "exited"
    /\ UNCHANGED <<toWrite, pipe, wrapper, streamer, eventCh, buffer, liveCh,
                   main, conn>>

RunnerDies ==
    /\ runner = "running" /\ wrapper = "killed"
    /\ runner' = "exited"
    /\ toWrite' = 0
    /\ UNCHANGED <<pipe, wrapper, streamer, eventCh, buffer, liveCh, main,
                   conn>>

-----------------------------------------------------------------------------
(* The streamer goroutine: streamTraceEvents, then close(eventCh) and      *)
(* errCh <- err.                                                           *)

\* Mutant: a full history is emptied before the event is added.
HistoryAddReset(h, ev) ==
    IF Len(h) = HistoryCap THEN <<ev>> ELSE Append(h, ev)

\* runHistory.add: a full history drops its oldest event.
HistoryAdd(h, ev) ==
    IF Len(h) = HistoryCap THEN Append(Tail(h), ev) ELSE Append(h, ev)

\* xtrace.NewReader consumes the header.
StreamOpen ==
    /\ strPc = "open" /\ pipe > 0
    /\ pipe' = pipe - 1
    /\ strPc' = "read"
    /\ UNCHANGED <<runner, toWrite, wrapper, strRet, seq, auditSeq, history,
                   streamErr, eventCh, buffer, liveCh, main, conn>>

\* NewReader or ReadEvent fails: bad bytes, or a trace that ends too early.
StreamFail ==
    /\ strPc \in {"open", "read"}
    /\ pipe > 0 \/ runner = "exited"
    /\ wrapper' = "killed"
    /\ streamErr' = "err"
    /\ strPc' = "close"
    /\ UNCHANGED <<runner, toWrite, pipe, strRet, seq, auditSeq, history,
                   eventCh, buffer, liveCh, main, conn>>

StreamRead ==
    /\ strPc = "read" /\ pipe > 0
    /\ pipe' = pipe - 1
    /\ strPc' = "process"
    /\ UNCHANGED <<runner, toWrite, wrapper, strRet, seq, auditSeq, history,
                   streamErr, eventCh, buffer, liveCh, main, conn>>

StreamEOF ==
    /\ strPc = "read" /\ pipe = 0 /\ runner = "exited"
    /\ strPc' = "audit"
    /\ UNCHANGED <<child, strRet, seq, auditSeq, history, streamErr, eventCh,
                   buffer, liveCh, main, conn>>

\* emitWithSeq up to and including record(ev); the send to eventCh follows.
Record(ret) ==
    /\ seq' = seq + 1
    /\ history' = HistoryAdd(history, seq + 1)
    /\ strPc' = "send"
    /\ strRet' = ret

\* ProcessEvent emits any number of events for one trace item, and
\* EmitAuditSummary emits up to two warnings before the summary.
StreamEmit ==
    /\ strPc \in {"process", "audit"} /\ seq < MaxEvents
    /\ Record(strPc)
    /\ UNCHANGED <<child, auditSeq, streamErr, eventCh, buffer, liveCh, main,
                   conn>>

StreamAuditSummary ==
    /\ strPc = "audit"
    /\ Record("wait")
    /\ auditSeq' = seq + 1
    /\ UNCHANGED <<child, streamErr, eventCh, buffer, liveCh, main, conn>>

\* emit(ev): eventCh <- ev blocks while the channel is full.
StreamSend ==
    /\ strPc = "send" /\ Len(eventCh) < EventBuf
    /\ eventCh' = Append(eventCh, seq)
    /\ strPc' = strRet
    /\ UNCHANGED <<child, strRet, seq, auditSeq, history, streamErr, buffer,
                   liveCh, main, conn>>

StreamNext ==
    /\ strPc = "process"
    /\ strPc' = "read"
    /\ UNCHANGED <<child, strRet, seq, auditSeq, history, streamErr, eventCh,
                   buffer, liveCh, main, conn>>

\* cmd.Wait after the audit summary.
StreamWait ==
    /\ strPc = "wait" /\ runner = "exited"
    /\ strPc' = "close"
    /\ UNCHANGED <<child, strRet, seq, auditSeq, history, streamErr, eventCh,
                   buffer, liveCh, main, conn>>

StreamClose ==
    /\ strPc = "close"
    /\ strPc' = "report"
    /\ UNCHANGED <<child, strRet, seq, auditSeq, history, streamErr, eventCh,
                   buffer, liveCh, main, conn>>

StreamReport ==
    /\ strPc = "report"
    /\ strPc' = "done"
    /\ UNCHANGED <<child, strRet, seq, auditSeq, history, streamErr, eventCh,
                   buffer, liveCh, main, conn>>

-----------------------------------------------------------------------------
(* The buffering goroutine.                                                *)

\* Still buffering and the snapshot is not out: keep the event.
BufferHold ==
    /\ bufPc = "hold" /\ eventCh # <<>> /\ ~BufferReady
    /\ pending' = Append(pending, Head(eventCh))
    /\ eventCh' = Tail(eventCh)
    /\ UNCHANGED <<child, streamer, bufPc, toSend, liveCh, main,
                   conn>>

\* The first event received after bufferReadyCh was closed releases the
\* events held so far and follows them.
BufferRelease ==
    /\ bufPc = "hold" /\ eventCh # <<>> /\ BufferReady
    /\ toSend' = Append(pending, Head(eventCh))
    /\ pending' = <<>>
    /\ eventCh' = Tail(eventCh)
    /\ bufPc' = "send"
    /\ UNCHANGED <<child, streamer, liveCh, main, conn>>

BufferForward ==
    /\ bufPc = "recv" /\ eventCh # <<>>
    /\ toSend' = <<Head(eventCh)>>
    /\ eventCh' = Tail(eventCh)
    /\ bufPc' = "send"
    /\ UNCHANGED <<child, streamer, pending, liveCh, main, conn>>

\* liveEventCh <- ev blocks while the channel is full.
BufferSend ==
    /\ bufPc \in {"send", "drain"} /\ toSend # <<>>
    /\ Len(liveCh) < LiveBuf
    /\ liveCh' = Append(liveCh, Head(toSend))
    /\ toSend' = Tail(toSend)
    /\ bufPc' = IF bufPc = "send" /\ Len(toSend) = 1 THEN "recv" ELSE bufPc
    /\ UNCHANGED <<child, streamer, eventCh, pending, main, conn>>

\* Mutant: the events still held when eventCh closes are not forwarded.
BufferEndDrop ==
    /\ bufPc \in {"hold", "recv"} /\ eventCh = <<>> /\ EventClosed
    /\ pending' = <<>>
    /\ bufPc' = "drain"
    /\ UNCHANGED <<child, streamer, eventCh, toSend, liveCh, main, conn>>

\* eventCh is closed and empty; what is still held waits for bufferReadyCh.
BufferEnd ==
    /\ bufPc \in {"hold", "recv"} /\ eventCh = <<>> /\ EventClosed
    /\ bufPc = "hold" => BufferReady
    /\ toSend' = pending
    /\ pending' = <<>>
    /\ bufPc' = "drain"
    /\ UNCHANGED <<child, streamer, eventCh, liveCh, main, conn>>

BufferClose ==
    /\ bufPc = "drain" /\ toSend = <<>>
    /\ bufPc' = "done"
    /\ UNCHANGED <<child, streamer, eventCh, pending, toSend,
                   liveCh, main, conn>>

-----------------------------------------------------------------------------
(* The main goroutine: runOnce.                                            *)

Return(res) ==
    /\ mainPc' = "returned"
    /\ outcome' = res

\* Duplicate workload files, no pipe, or the child does not start.
MainStartFails ==
    /\ mainPc = "start"
    /\ Return("start_error")
    /\ UNCHANGED <<child, streamer, eventCh, buffer, liveCh, snapshot, lastSeq,
                   sendErr, delivered, conn>>

\* The child is running but trace.out cannot be created.
MainTraceOutFails ==
    /\ mainPc = "start"
    /\ runner' = "running"
    /\ wrapper' = "killed"
    /\ Return("start_error")
    /\ UNCHANGED <<toWrite, pipe, streamer, eventCh, buffer, liveCh, snapshot,
                   lastSeq, sendErr, delivered, conn>>

\* The child, the streamer and the buffering goroutine are started.
MainStart ==
    /\ mainPc = "start"
    /\ runner' = "running"
    /\ strPc' = "open"
    /\ bufPc' = "hold"
    /\ mainPc' = "snapshot"
    /\ UNCHANGED <<toWrite, pipe, wrapper, strRet, seq, auditSeq, history,
                   streamErr, eventCh, pending, toSend, liveCh,
                   snapshot, lastSeq, sendErr, delivered, outcome, conn>>

\* run_start is written (its error ignored) and waitForHistory returns, on a
\* first event or after 200 ms; then the history is copied.
MainTakeSnapshot ==
    /\ mainPc = "snapshot"
    /\ snapshot' = history
    /\ mainPc' = "snapshot_begin"
    /\ UNCHANGED <<child, streamer, eventCh, buffer, liveCh, lastSeq, sendErr,
                   delivered, outcome, conn>>

MainSnapshotBegin ==
    /\ mainPc = "snapshot_begin" /\ conn = "open"
    /\ mainPc' = "snapshot_event"
    /\ UNCHANGED <<child, streamer, eventCh, buffer, liveCh, snapshot, lastSeq,
                   sendErr, delivered, outcome, conn>>

\* The loop of sendSnapshotWS; its index is the number of events written.
MainSnapshotEvent ==
    /\ mainPc = "snapshot_event" /\ conn = "open"
    /\ Len(delivered) < Len(snapshot)
    /\ delivered' = Append(delivered, snapshot[Len(delivered) + 1])
    /\ UNCHANGED <<child, streamer, eventCh, buffer, liveCh, mainPc, snapshot,
                   lastSeq, sendErr, outcome, conn>>

\* snapshotSeqBounds: the last sequence number of the snapshot.
SeqEnd == IF snapshot = <<>> THEN 0 ELSE snapshot[Len(snapshot)]

\* snapshot_end is written and the buffered events are released.
MainSnapshotEnd ==
    /\ mainPc = "snapshot_event" /\ conn = "open"
    /\ Len(delivered) = Len(snapshot)
    /\ lastSeq' = SeqEnd
    /\ mainPc' = "live"
    /\ UNCHANGED <<child, streamer, eventCh, buffer, liveCh, snapshot, sendErr,
                   delivered, outcome, conn>>

\* Any write of the snapshot fails: runOnce gives up at once.
MainSnapshotFails ==
    /\ mainPc \in {"snapshot_begin", "snapshot_event"} /\ conn = "broken"
    /\ wrapper' = "killed"
    /\ Return("send_error")
    /\ UNCHANGED <<runner, toWrite, pipe, streamer, eventCh, buffer, liveCh,
                   snapshot, lastSeq, sendErr, delivered, conn>>

\* Mutant: the loop stops receiving after a failed write.
MainSkipNoDrain ==
    /\ mainPc = "live" /\ liveCh # <<>>
    /\ Head(liveCh) <= lastSeq
    /\ liveCh' = Tail(liveCh)
    /\ UNCHANGED <<child, streamer, eventCh, buffer, main, conn>>

\* An event the snapshot already held, or one that follows a failed write.
MainSkip ==
    /\ mainPc = "live" /\ liveCh # <<>>
    /\ Head(liveCh) <= lastSeq \/ sendErr # "nil"
    /\ liveCh' = Tail(liveCh)
    /\ UNCHANGED <<child, streamer, eventCh, buffer, main, conn>>

\* Mutant: events the snapshot already held are written again.
MainDeliverAll ==
    /\ mainPc = "live" /\ liveCh # <<>>
    /\ sendErr = "nil" /\ conn = "open"
    /\ delivered' = Append(delivered, Head(liveCh))
    /\ lastSeq' = Head(liveCh)
    /\ liveCh' = Tail(liveCh)
    /\ UNCHANGED <<child, streamer, eventCh, buffer, mainPc, snapshot, sendErr,
                   outcome, conn>>

MainDeliver ==
    /\ mainPc = "live" /\ liveCh # <<>>
    /\ Head(liveCh) > lastSeq /\ sendErr = "nil"
    /\ conn = "open"
    /\ delivered' = Append(delivered, Head(liveCh))
    /\ lastSeq' = Head(liveCh)
    /\ liveCh' = Tail(liveCh)
    /\ UNCHANGED <<child, streamer, eventCh, buffer, mainPc, snapshot, sendErr,
                   outcome, conn>>

MainDeliverFails ==
    /\ mainPc = "live" /\ liveCh # <<>>
    /\ Head(liveCh) > lastSeq /\ sendErr = "nil"
    /\ conn = "broken"
    /\ sendErr' = "err"
    /\ wrapper' = "killed"
    /\ liveCh' = Tail(liveCh)
    /\ UNCHANGED <<runner, toWrite, pipe, streamer, eventCh, buffer, mainPc,
                   snapshot, lastSeq, delivered, outcome, conn>>

\* liveEventCh is closed and drained.
MainLiveDone ==
    /\ mainPc = "live" /\ liveCh = <<>> /\ LiveClosed
    /\ mainPc' = "result"
    /\ UNCHANGED <<child, streamer, eventCh, buffer, liveCh, snapshot, lastSeq,
                   sendErr, delivered, outcome, conn>>

\* Mutant: the result of the streamer is ignored.
ResultIgnoringStream == IF sendErr # "nil" THEN "send_error" ELSE "run_end"

\* streamErr := <-errCh decides the last message and the result.
Result ==
    CASE sendErr # "nil"                     -> "send_error"
      [] sendErr = "nil" /\ streamErr # "nil" -> "trace_error"
      [] OTHER                              -> "run_end"

MainFinish ==
    /\ mainPc = "result" /\ ErrSent
    /\ Return(Result)
    /\ UNCHANGED <<child, streamer, eventCh, buffer, liveCh, snapshot, lastSeq,
                   sendErr, delivered, conn>>

-----------------------------------------------------------------------------
\* The client closes the page, the network fails or a write deadline passes.
ClientGone ==
    /\ conn = "open" /\ mainPc # "returned"
    /\ conn' = "broken"
    /\ UNCHANGED <<child, streamer, eventCh, buffer, liveCh, main>>

Runner == RunnerWrite \/ RunnerExit

Streamer ==
    \/ StreamOpen \/ StreamFail \/ StreamRead \/ StreamEOF
    \/ StreamEmit \/ StreamAuditSummary \/ StreamSend \/ StreamNext
    \/ StreamWait \/ StreamClose \/ StreamReport

Buffer ==
    \/ BufferHold \/ BufferRelease \/ BufferForward
    \/ BufferSend \/ BufferEnd \/ BufferClose

Main ==
    \/ MainStartFails \/ MainTraceOutFails \/ MainStart
    \/ MainTakeSnapshot \/ MainSnapshotBegin \/ MainSnapshotEvent
    \/ MainSnapshotEnd \/ MainSnapshotFails
    \/ MainSkip \/ MainDeliver \/ MainDeliverFails
    \/ MainLiveDone \/ MainFinish

Next == Runner \/ RunnerDies \/ Streamer \/ Buffer \/ Main \/ ClientGone

Spec == Init /\ [][Next]_vars

\* The Go scheduler runs every goroutine that can run and the kernel runs the
\* child; nothing makes the client leave or a killed child die.
Fairness == WF_vars(Runner) /\ WF_vars(Streamer) /\ WF_vars(Buffer) /\ WF_vars(Main)

FairSpec == Spec /\ Fairness

-----------------------------------------------------------------------------
(* Properties.                                                             *)

TypeOK ==
    /\ runner \in {"off", "running", "exited"}
    /\ toWrite \in Nat /\ pipe \in Nat /\ wrapper \in {"alive", "killed"}
    /\ strPc \in {"off", "open", "read", "process", "audit", "send", "wait",
                  "close", "report", "done"}
    /\ strRet \in {"read", "process", "audit", "wait"}
    /\ seq \in Nat /\ auditSeq \in Nat
    /\ history \in Seq(Nat) /\ streamErr \in {"nil", "err"} /\ eventCh \in Seq(Nat)
    /\ bufPc \in {"off", "hold", "recv", "send", "drain", "done"}
    /\ pending \in Seq(Nat) /\ toSend \in Seq(Nat)
    /\ liveCh \in Seq(Nat)
    /\ mainPc \in {"start", "snapshot", "snapshot_begin", "snapshot_event",
                   "live", "result", "returned"}
    /\ conn \in {"open", "broken"} /\ snapshot \in Seq(Nat)
    /\ lastSeq \in Nat /\ sendErr \in {"nil", "err"} /\ delivered \in Seq(Nat)
    /\ outcome \in {"none", "start_error", "send_error", "trace_error", "run_end"}

\* Events the history had already dropped when the snapshot was taken.
Missed == IF snapshot = <<>> THEN 0 ELSE snapshot[1] - 1

-----------------------------------------------------------------------------
(* The run as its page sees it.                                            *)

Served == mainPc \notin {"start", "snapshot"} /\ outcome # "start_error"

Status == CASE outcome = "none"    -> "running"
            [] outcome = "run_end" -> "complete"
            [] OTHER               -> "failed"

Delivery == INSTANCE EventDelivery WITH
    Window   <- HistoryCap,
    produced <- seq,
    from     <- IF Served THEN Missed + 1 ELSE 0,
    shown    <- delivered,
    status   <- Status

\* A run implements ordered delivery without gaps: every step of the five
\* parties is a step of EventDelivery or changes nothing of it.
DeliverySpec == Delivery!DeliverySpec

-----------------------------------------------------------------------------
\* Snapshot and live stream join without a seam: the numbers written to the
\* client are consecutive, with no event twice and none left out, although the
\* snapshot is copied while the streamer keeps recording and the live events
\* overlap it.
NoSeam == \A i \in 1..Len(delivered) : delivered[i] = Missed + i

\* run_end is a promise: everything recorded has been written, and the last
\* event is the audit summary.
RunEndComplete ==
    outcome = "run_end" =>
        /\ Missed + Len(delivered) = seq
        /\ auditSeq = seq

\* runOnce always comes back, so that the session reads its next "start":
\* with a client that stays, one that leaves, and a trace that breaks off.
RunReturns == <>(mainPc = "returned")

\* A client that stays gets every event recorded after its snapshot.
ClientCatchesUp ==
    [](conn = "open" /\ mainPc = "live" =>
        <>(conn = "broken" \/ Missed + Len(delivered) = seq))

\* The goroutines a run started end with it, except behind a liveEventCh that
\* is full and that runOnce, which gave up on its snapshot, will never drain.
GoroutinesEndUnlessFull ==
    [](mainPc = "returned" /\ strPc # "off" =>
        <>((strPc = "done" /\ bufPc = "done") \/ Len(liveCh) = LiveBuf))

-----------------------------------------------------------------------------
(* Why a run comes to its end: who can go on, and how much is left to do.  *)

RunnerCan == runner = "running" /\ (toWrite = 0 \/ pipe < PipeCap)

StreamerCan ==
    \/ strPc \in {"open", "read"} /\ (pipe > 0 \/ runner = "exited")
    \/ strPc = "send" /\ Len(eventCh) < EventBuf
    \/ strPc = "wait" /\ runner = "exited"
    \/ strPc \in {"process", "audit", "close", "report"}

BufferCan ==
    \/ bufPc \in {"hold", "recv"} /\ eventCh # <<>>
    \/ bufPc \in {"hold", "recv"} /\ EventClosed /\ (bufPc = "hold" => BufferReady)
    \/ bufPc \in {"send", "drain"} /\ toSend # <<>> /\ Len(liveCh) < LiveBuf
    \/ bufPc = "drain" /\ toSend = <<>>

MainCan ==
    \/ mainPc \in {"start", "snapshot", "snapshot_begin"}
    \/ mainPc = "snapshot_event" /\ (conn = "open" => Len(delivered) <= Len(snapshot))
    \/ mainPc = "live" /\ (liveCh # <<>> \/ LiveClosed)
    \/ mainPc = "result" /\ ErrSent

\* The places of each party, numbered down to its last.
StreamerPlace(p) ==
    CASE p = "off" -> 8 [] p = "open" -> 7 [] p = "process" -> 6 [] p = "read" -> 5
      [] p = "audit" -> 4 [] p = "wait" -> 3 [] p = "close" -> 2 [] p = "report" -> 1
      [] OTHER -> 0
BufferPlace(p) ==
    CASE p = "off" -> 4 [] p = "hold" -> 3 [] p = "send" -> 3 [] p = "recv" -> 2
      [] p = "drain" -> 1 [] OTHER -> 0
MainPlace(p) ==
    CASE p = "start" -> 6 [] p = "snapshot" -> 5 [] p = "snapshot_begin" -> 4
      [] p = "snapshot_event" -> 3 [] p = "live" -> 2 [] p = "result" -> 1
      [] OTHER -> 0
RunnerPlace(p) == CASE p = "off" -> 2 [] p = "running" -> 1 [] OTHER -> 0

\* An event not yet recorded, being sent, in eventCh, held, about to be
\* forwarded, in liveEventCh: every step brings it nearer to the connection.
EventsLeft ==
    6 * (MaxEvents + 1 - seq) + (IF strPc = "send" THEN 5 ELSE 0)
    + 4 * Len(eventCh) + 3 * Len(pending) + 2 * Len(toSend) + Len(liveCh)

SnapshotLeft ==
    CASE mainPc \in {"start", "snapshot"}                  -> HistoryCap
      [] mainPc \in {"snapshot_begin", "snapshot_event"} -> Len(snapshot) - Len(delivered)
      [] OTHER                                           -> 0

Work ==
    EventsLeft + SnapshotLeft + 3 * toWrite + 2 * pipe
    + StreamerPlace(IF strPc = "send" THEN strRet ELSE strPc) + BufferPlace(bufPc)
    + MainPlace(mainPc) + RunnerPlace(runner) + (IF conn = "open" THEN 1 ELSE 0)

GoroutinesOver == strPc \in {"off", "done"} /\ bufPc \in {"off", "done"}

\* The five parties never wait for one another in a circle: until runOnce has
\* returned one of them can go on, and after that one of the goroutines it
\* leaves behind can, unless both have ended or liveEventCh is full; and every
\* step of theirs uses up some of a finite amount of work.  With a scheduler
\* that runs whoever can go on, runOnce therefore returns (RunReturns) and the
\* goroutines end (GoroutinesEndUnlessFull).
Progresses ==
    /\ [](mainPc # "returned" => RunnerCan \/ StreamerCan \/ BufferCan \/ MainCan)
    /\ [](mainPc = "returned" =>
            GoroutinesOver \/ Len(liveCh) = LiveBuf \/ RunnerCan \/ StreamerCan \/ BufferCan)
    /\ [](Work \in Nat) /\ [][Work' < Work]_vars

\* "Use a modest timeout for live runs to avoid hanging sessions": when runOnce
\* has returned, the goroutines it started come to their end too.
GoroutinesEnd ==
    [](mainPc = "returned" /\ strPc # "off" => <>(strPc = "done" /\ bufPc = "done"))
=============================================================================
