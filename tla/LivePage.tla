------------------------------ MODULE LivePage ------------------------------
(***************************************************************************)
(* The live page (src/web/pages/graph-live/graph-live.html): messages of   *)
(* the socket, the list of events, and the playback that fires them.       *)
(*                                                                         *)
(* JavaScript runs one handler at a time: a message, a frame of the        *)
(* playback loop or a click.  A handler is a function from page to page.   *)
(*                                                                         *)
(* The server is known by its messages (EventDelivery: consecutive events, *)
(* then completion or failure).  A message takes no time here: one that is *)
(* under way is one that the server has still to send, since it reads no   *)
(* further command before it has ended a run.  An event is the number of   *)
(* its run and its number in it; normalizeIncomingEvent keeps neither      *)
(* number, so none of the code looks at them: evt.seq and evt.time_ns are  *)
(* missing, every event leaves liveBuffer at once and none is ever late.   *)
(***************************************************************************)
EXTENDS Integers, Sequences, FiniteSetsExt

CONSTANTS Cap,       \* LIVE_EVENT_CAP
          Batch,     \* MAX_BATCH
          Lateness,  \* how far the time of an event may lie behind an earlier one's
          File,      \* the events of a file that may be loaded
          MaxEvents, \* bound: the events of a run
          MaxTime,   \* bound: the latest time of an event
          MaxRuns,   \* bound: how often the server starts a run
          MaxClicks  \* bound: how often the user does something

ASSUME LivePageAssumption ==
  /\ {Cap, Batch} \subseteq Nat \ {0}
  /\ {Lateness, MaxTime} \subseteq Nat
  /\ File \in Seq([run : Nat, n : Nat, note : BOOLEAN, dt : Int]) /\ File # <<>>

VARIABLES
  page,     \* the variables of the page, and two of ours:
            \*   shown: the events fired since the scene was last emptied
            \*   marred: what was done since then that a scene may show
  session,  \* the connection: [stage, run, n: number of the next event, top: latest time]
  starts,   \* the commands to start that the server has not read
  clicks    \* how often the user has done something

vars == <<page, session, starts, clicks>>

Least(a, b) == IF a < b THEN a ELSE b

-----------------------------------------------------------------------------
(* The functions of the page *)

Fire(p, k) ==
  [p EXCEPT !.nextIdx = @ + k, !.shown = @ \o SubSeq(p.events, p.nextIdx + 1, p.nextIdx + k)]

\* How many events after the first idx are due, one after the other.
Due(p, idx, limit) ==
  Max({k \in 0..Len(p.events) :
         \A i \in 1..k : idx + i <= Len(p.events) /\ p.events[idx + i].dt <= limit})

resetAll(p) ==
  [p EXCEPT !.simNow = 0, !.nextIdx = 0, !.shown = <<>>, !.marred = @ \ {"stepped back", "dropped"}]

setPlaying(p, play) ==
  LET atEnd == p.nextIdx >= Len(p.events) \/ p.simNow >= p.T
      q == IF play /\ atEnd THEN resetAll(p) ELSE p
  IN [q EXCEPT !.playing = play, !.frames = IF play THEN @ + 1 ELSE @]

rebuildSceneFromEvents(p) ==
  IF p.events = <<>> THEN p
  ELSE [Fire(resetAll(p), Len(p.events)) EXCEPT !.simNow = p.T]

fastForwardTo(p, ms) ==
  [Fire(resetAll(p), Due(p, 0, ms)) EXCEPT !.simNow = ms]

\* Mutant: the index is not moved when a full list is cut.
processLiveEventIndexKept(p, e) ==
  LET t0 == IF p.t0 = 0 THEN e.time ELSE p.t0
      evt == [run |-> e.run, n |-> e.n, note |-> e.note, dt |-> e.time - t0]
      all == Append(p.events, evt)
      over == Max({0, Len(all) - Cap})
      q == [p EXCEPT !.t0 = t0, !.T = evt.dt,
                     !.events = SubSeq(all, over + 1, Len(all)),
                     !.capped = @ \/ over > 0]
  IN IF ~q.playing /\ Len(q.events) = 1 /\ ~q.snapshotActive THEN setPlaying(q, TRUE) ELSE q

\* With neither seq nor time_ns, handleLiveTimelineEvent is this alone.
processLiveEvent(p, e) ==
  LET t0 == IF p.t0 = 0 THEN e.time ELSE p.t0
      evt == [run |-> e.run, n |-> e.n, note |-> e.note, dt |-> e.time - t0]
      all == Append(p.events, evt)
      over == Max({0, Len(all) - Cap})
      q == [p EXCEPT !.t0 = t0, !.T = evt.dt,
                     !.events = SubSeq(all, over + 1, Len(all)),
                     !.nextIdx = Max({0, @ - over}),
                     !.capped = @ \/ over > 0,
                     !.marred = IF over > p.nextIdx THEN @ \union {"dropped"} ELSE @]
  IN IF ~q.playing /\ Len(q.events) = 1 /\ ~q.snapshotActive THEN setPlaying(q, TRUE) ELSE q

Emptied(p) == [p EXCEPT !.events = <<>>, !.t0 = 0, !.T = 0, !.marred = @ \ {"loaded"}]

\* suppressAutoPlay is snapshotActive.
beginSnapshot(p) ==
  [resetAll(Emptied(setPlaying(p, FALSE))) EXCEPT
     !.snapshotActive = TRUE, !.snapshotApplied = FALSE, !.capped = FALSE]

applySnapshotEvent(p, e) ==
  IF p.snapshotActive THEN [processLiveEvent(p, e) EXCEPT !.snapshotApplied = TRUE] ELSE p

endSnapshot(p) ==
  LET q == [p EXCEPT !.snapshotActive = FALSE]
  IN IF q.snapshotApplied /\ q.events # <<>> THEN setPlaying(rebuildSceneFromEvents(q), TRUE) ELSE q

\* At most one note is fired in a frame, and at most MAX_BATCH events.
Portion(p, due) ==
  Max({k \in 0..Least(due, Batch) : \A i \in 1..k - 1 : ~p.events[p.nextIdx + i].note})

\* Mutant: a frame that comes to the end stops with its portion.
loopNotDrained(p, d) ==
  LET now == Least(p.T, p.simNow + d)
      due == Due(p, p.nextIdx, now)
      fired == [Fire(p, Portion(p, due)) EXCEPT !.simNow = now]
  IN IF ~p.playing THEN [p EXCEPT !.frames = @ - 1]
     ELSE IF now < p.T THEN fired
     ELSE setPlaying([fired EXCEPT !.frames = @ - 1], FALSE)

\* A frame in which the clock of the playback has moved on by d.  One that comes
\* to the end fires what is due beyond its portion, and stops.
loop(p, d) ==
  LET now == Least(p.T, p.simNow + d)
      due == Due(p, p.nextIdx, now)
      fired == [Fire(p, IF now < p.T THEN Portion(p, due) ELSE due) EXCEPT !.simNow = now]
  IN IF ~p.playing THEN [p EXCEPT !.frames = @ - 1]
     ELSE IF now < p.T THEN fired
     ELSE setPlaying([fired EXCEPT !.frames = @ - 1], FALSE)

loadJSON(p) ==
  LET q == [p EXCEPT !.events = File, !.t0 = 1, !.T = File[Len(File)].dt,
                     !.capped = FALSE, !.marred = @ \union {"loaded"}]
  IN [rebuildSceneFromEvents(resetAll(q)) EXCEPT !.ready = TRUE]

-----------------------------------------------------------------------------
(* Messages *)

Stage(from, to) == session.stage = from /\ session' = [session EXCEPT !.stage = to]
Server == UNCHANGED <<starts, clicks>>

\* The server reads a start; the run is announced, or fails before that.
RunStart ==
  /\ session.stage = "idle" /\ starts > 0 /\ session.run < MaxRuns
  /\ starts' = starts - 1
  /\ \/ /\ session' = [stage |-> "started", run |-> session.run + 1, n |-> 1, top |-> 1]
        /\ page' = [page EXCEPT !.ready = FALSE]
     \/ UNCHANGED <<session, page>>
  /\ UNCHANGED clicks

SnapshotBegin == Stage("started", "snapshot") /\ page' = beginSnapshot(page) /\ Server
SnapshotEnd == Stage("snapshot", "events") /\ page' = endSnapshot(page) /\ Server

applyEvent(p, e) == IF p.snapshotActive THEN p ELSE processLiveEvent(p, e)

Numbered(time, note) == [run |-> session.run, n |-> session.n, time |-> time, note |-> note]
Event(stage, apply(_, _)) ==
  /\ session.stage = stage /\ session.n < MaxEvents
  /\ \E time \in Max({1, session.top - Lateness})..Least(session.top + 1, MaxTime), note \in BOOLEAN :
       /\ page' = apply(page, Numbered(time, note))
       /\ session' = [session EXCEPT !.n = @ + 1, !.top = Max({@, time})]
  /\ Server
SnapshotEvent == Event("snapshot", applySnapshotEvent)
LiveEvent == Event("events", applyEvent)
\* The last event of a run that completes bears the latest time of all.
AuditSummary ==
  /\ session.stage = "events"
  /\ page' = applyEvent(page, Numbered(session.top, FALSE))
  /\ session' = [session EXCEPT !.stage = "audited", !.n = @ + 1]
  /\ Server

RunEnd == Stage("audited", "idle") /\ page' = [page EXCEPT !.ready = TRUE] /\ Server
Failed == Stage("events", "idle") /\ UNCHANGED page /\ Server
\* The server or the network closes the connection, at any time.
Closed ==
  /\ session.stage # "closed"
  /\ session' = [session EXCEPT !.stage = "closed"]
  /\ starts' = 0
  /\ UNCHANGED <<page, clicks>>

-----------------------------------------------------------------------------
(* Frames and clicks *)

\* With two callbacks in a frame the second finds that no time has passed.
Frame(d) ==
  /\ page.frames > 0
  /\ d = 0 => page.frames > 1
  /\ page' = loop(page, d)
  /\ UNCHANGED <<session, starts, clicks>>

Click == clicks < MaxClicks /\ clicks' = clicks + 1
Stay == Click /\ UNCHANGED <<session, starts>>

Play == ~page.playing /\ page' = setPlaying(page, TRUE) /\ Stay
Pause == page' = setPlaying(page, FALSE) /\ Stay
Step ==
  /\ page.nextIdx < Len(page.events)
  /\ page' = [Fire(page, 1) EXCEPT !.simNow = page.events[page.nextIdx + 1].dt]
  /\ Stay
Prev ==
  /\ page.events # <<>>
  /\ LET prevIdx == Max({0, page.nextIdx - 1})
         target == IF prevIdx < Len(page.events) THEN page.events[prevIdx + 1].dt ELSE 0
     IN page' = [fastForwardTo(setPlaying(page, FALSE), target) EXCEPT
                   !.nextIdx = prevIdx, !.marred = @ \union {"stepped back"}]
  /\ Stay
Scrub ==
  /\ page.events # <<>>
  /\ \E ms \in Least(0, page.T)..Max({0, page.T}) : page' = fastForwardTo(page, ms)
  /\ Stay
LoadFile == page' = loadJSON(page) /\ Stay
Download ==
  /\ page.ready /\ ~page.capped
  /\ page' = rebuildSceneFromEvents(page)
  /\ Stay

\* A new socket; what the old one still brings is not delivered.
startLiveConnection ==
  /\ session' = [session EXCEPT !.stage = "idle"]
  /\ starts' = 1
Rerun ==
  /\ page' = resetAll(Emptied(setPlaying(page, FALSE)))
  /\ IF session.stage = "closed" THEN startLiveConnection
     ELSE starts' = starts + 1 /\ UNCHANGED session
  /\ Click
\* nextIdx and simNow are left as they are.
reconnectFromUI ==
  /\ page' = [Emptied(page) EXCEPT !.playing = FALSE, !.shown = <<>>,
                                   !.marred = {}]
  /\ startLiveConnection
  /\ Click

Init ==
  /\ page = [events |-> <<>>, t0 |-> 0, T |-> 0, nextIdx |-> 0, simNow |-> 0, playing |-> FALSE,
             frames |-> 0, snapshotActive |-> FALSE, snapshotApplied |-> FALSE, capped |-> FALSE,
             ready |-> FALSE, shown |-> <<>>, marred |-> {}]
  /\ session = [stage |-> "idle", run |-> 0, n |-> 1, top |-> 1]
  /\ starts = 1
  /\ clicks = 0

Messages == RunStart \/ SnapshotBegin \/ SnapshotEvent \/ SnapshotEnd \/ LiveEvent
            \/ AuditSummary \/ RunEnd \/ Failed \/ Closed
Clicks == Play \/ Pause \/ Step \/ Prev \/ Scrub \/ LoadFile \/ Download \/ Rerun \/ reconnectFromUI
Next == Messages \/ Clicks \/ \E d \in 0..2 : Frame(d)

Spec == Init /\ [][Next]_vars
\* The browser goes on asking for frames, and time passes between them.
FairSpec == Spec /\ WF_vars(\E d \in 1..2 : Frame(d))

-----------------------------------------------------------------------------
(* Properties *)

\* The events that are shown and those still to come, as they would be fired.
Timeline(p) == p.shown \o SubSeq(p.events, p.nextIdx + 1, Len(p.events))
Consecutive(s) == \A i \in 1..Len(s) - 1 : s[i + 1].run = s[i].run /\ s[i + 1].n = s[i].n + 1

\* What the page has shown and what it has still to show are consecutive events
\* of one run, none twice and none left out, across snapshots, runs started
\* anew, new connections, full lists and every use of the playback; unless the
\* user has stepped back (the event stepped back to is shown and will be shown
\* again), a full list has lost events that were not shown yet, or a file was
\* loaded into a session (processLiveEvent, beginSnapshot, fastForwardTo, loop).
OneTimeline == page.marred = {} => Consecutive(Timeline(page))

\* A page that plays when the last event has come shows every event in its list
\* before it stops, unless the user intervenes; what it can wait for in vain is
\* an event with a time after that of the last one (loop).
Settled == session.stage \in {"idle", "closed"} /\ \A e \in {page.events[i] : i \in DOMAIN page.events} : e.dt <= page.T
PlaysOut ==
  \A c \in 0..MaxClicks :
    (page.playing /\ Settled /\ clicks = c)
      ~> (page.nextIdx >= Len(page.events) \/ ~Settled \/ clicks # c)
=============================================================================
