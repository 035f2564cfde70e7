--------------------------- MODULE TrackingClient ---------------------------
(***************************************************************************)
(* The tracking client in the browser (demo/web/tracking.js, with the slot *)
(* and encoder of demo/web/frame-pipeline.js).                             *)
(*                                                                         *)
(* One thread: an action is what runs from one await to the next.  A run   *)
(* is the promise in task; it is named by its token, the epoch it began    *)
(* with.  Up to two user-interface handlers are suspended in stop() or in  *)
(* what they do after it.  A live run has a producer, whose slot the       *)
(* dispatcher empties, at most two requests on the network, and a main     *)
(* loop that takes their outcomes; an offline run sends its frames one by  *)
(* one.  The session of a run at the server has the name of the run.  What *)
(* a run or a handler held is reset when it ends.                          *)
(*                                                                         *)
(* A frame is always on offer while the slot is open.  Recording,          *)
(* playback, rendering and timings are left out.                           *)
(***************************************************************************)
EXTENDS Naturals, FiniteSets

CONSTANTS
    Handlers,   \* bound: user-interface handlers suspended at a time
    MaxEpoch,   \* bound: starts and stops
    MaxSent     \* bound: requests of a run

ASSUME ClientAssumption ==
    Handlers \subseteq Nat /\ MaxEpoch \in Nat \ {0} /\ MaxSent \in Nat \ {0}

VARIABLES
    mode, epoch, ready, task, session,   \* the variables of initTracking
    startable, locked,  \* what controls() last made of the buttons
    spc,       \* where a handler is suspended
    then,      \* what it does after stop()
    arg,       \* the session or epoch it holds
    run, rpc,  \* the run and where it is suspended
    slot,      \* its slot: "open", "closed", "failed"
    dpc,       \* its dispatcher
    rq,        \* its requests
    sent,      \* requests pushed
    shifted,   \* requests whose turn came in the main loop
    faces,     \* the triangle indices are known
    counted,   \* external: the server has counted a frame of the session
    shown,     \* history: the last frame displayed
    server     \* external: open sessions at the server

page    == <<mode, epoch, ready, task, session, startable, locked>>
stops   == <<spc, then, arg>>
pipe    == <<slot, dpc, rq, sent, shifted, faces, counted, shown>>
vars    == <<page, stops, run, rpc, pipe, server>>

Runs     == 1..MaxEpoch
Requests == 1..MaxSent
Modes    == {"photo", "offline", "live"}
Flying   == {"sent", "faces", "plain", "busy", "failed"}
Active   == {i \in Requests : rq[i] \in Flying}     \* activeRequests

TypeOK ==
    /\ mode \in Modes /\ epoch \in 0..MaxEpoch /\ ready \in BOOLEAN
    /\ task \in 0..MaxEpoch /\ session \in 0..MaxEpoch
    /\ startable \in BOOLEAN /\ locked \in BOOLEAN
    /\ spc \in [Handlers -> {"idle", "task", "finish", "history", "loading"}]
    /\ then \in [Handlers -> Modes \cup {"button", "release", "source"}]
    /\ arg \in [Handlers -> 0..MaxEpoch]
    /\ run \in 0..MaxEpoch
    /\ rpc \in {"none", "creating", "loop", "frame", "wait", "settle",
                "finishing", "drain", "finishAnyway"}
    /\ slot \in {"open", "closed", "failed"}
    /\ dpc \in {"absent", "loop", "capacity", "failed", "done"}
    /\ rq \in [Requests -> Flying \cup {"none", "ok", "skip", "error"}]
    /\ Cardinality(Active) <= 2
    /\ sent \in 0..MaxSent /\ shifted \in 0..sent
    /\ faces \in BOOLEAN /\ counted \in BOOLEAN
    /\ shown \in 0..MaxSent
    /\ server \subseteq Runs

Init ==
    /\ mode = "photo" /\ epoch = 0 /\ ready = FALSE /\ task = 0 /\ session = 0
    /\ startable = FALSE /\ locked = FALSE
    /\ spc = [h \in Handlers |-> "idle"]
    /\ then = [h \in Handlers |-> "release"]
    /\ arg = [h \in Handlers |-> 0]
    /\ run = 0 /\ rpc = "none"
    /\ slot = "closed" /\ dpc = "absent"
    /\ rq = [i \in Requests |-> "none"] /\ sent = 0 /\ shifted = 0
    /\ faces = FALSE /\ counted = FALSE /\ shown = 0
    /\ server = {}

Current == run = epoch                \* token===epoch
Controls(t, r) == startable' = (r /\ t = 0) /\ locked' = (t # 0)

\* A finish call ends the session; one that fails leaves it to its expiry.
Finish(s) == server' = server \ {s}

\* A suspended handler resumes before the browser delivers another event.
NoneResumes == \A h \in Handlers : spc[h] = "task" => rpc # "none"

-----------------------------------------------------------------------------
(* stop() and its callers                                                  *)

\* The handler ends; what it held is forgotten.
Idle(h) ==
    /\ spc' = [spc EXCEPT ![h] = "idle"]
    /\ then' = [then EXCEPT ![h] = "release"]
    /\ arg' = [arg EXCEPT ![h] = 0]

\* stop() after the run: the session is finished, or there is none.
AfterTask(h) ==
    /\ task' = 0
    /\ session' = 0
    /\ arg' = [arg EXCEPT ![h] = session]
    /\ spc' = [spc EXCEPT ![h] = IF session # 0 THEN "finish" ELSE "history"]
    /\ IF session # 0 THEN UNCHANGED <<startable, locked>> ELSE Controls(0, ready)

\* epoch++, abort, cancelPipeline; without a run, stop() goes on at once.
\* Nobody looks at the frames of an aborted run any more.
Stop(h, next) ==
    /\ spc[h] = "idle" /\ \A g \in Handlers : g < h => spc[g] # "idle"
    /\ NoneResumes /\ epoch < MaxEpoch
    /\ epoch' = epoch + 1
    /\ slot' = IF slot = "open" THEN "closed" ELSE slot
    /\ rq' = [i \in Requests |-> IF i \in Active THEN "failed"
                                ELSE IF rq[i] = "none" THEN "none" ELSE "error"]
    /\ faces' = FALSE /\ counted' = FALSE
    /\ then' = [then EXCEPT ![h] = next]
    /\ IF task # 0
       THEN /\ spc' = [spc EXCEPT ![h] = "task"]
            /\ UNCHANGED <<arg, task, session, startable, locked>>
       ELSE AfterTask(h)
    /\ UNCHANGED <<mode, ready, run, rpc, dpc, sent, shifted, shown, server>>

\* The mode menu, or an entry of the history.
ChangeMode(h) == \E m \in Modes : Stop(h, m)

StopButton(h) == locked /\ mode # "photo" /\ Stop(h, "button")

\* The tab is hidden, or the camera unplugged.
CameraGone(h) == mode = "live" /\ Stop(h, "release")

\* Another video or the camera; one camera is opened at a time.
ChooseSource(h) ==
    /\ mode # "photo" /\ ~locked
    /\ mode = "live" => \A other \in Handlers : spc[other] # "idle" => then[other] # "source"
    /\ Stop(h, "source")

ResumeStop(h) ==
    /\ spc[h] = "task" /\ rpc = "none"
    /\ AfterTask(h)
    /\ UNCHANGED <<mode, epoch, ready, then, run, rpc, pipe, server>>

StopFinished(h) ==
    /\ spc[h] = "finish"
    /\ Finish(arg[h])
    /\ spc' = [spc EXCEPT ![h] = "history"]
    /\ arg' = [arg EXCEPT ![h] = 0]
    /\ Controls(task, ready)
    /\ UNCHANGED <<mode, epoch, ready, task, session, then, run, rpc, pipe>>

\* history() returned: the caller of stop() goes on, whatever happened since.
AfterStop(h) ==
    /\ spc[h] = "history"
    /\ LET next == then[h] IN
        /\ mode' = IF next \in Modes THEN next ELSE mode
        /\ IF next = "button" /\ mode # "live"
           THEN UNCHANGED <<ready, startable, locked>>
           ELSE ready' = FALSE /\ Controls(task, FALSE)
        /\ IF next = "source"
           THEN /\ spc' = [spc EXCEPT ![h] = "loading"]
                /\ arg' = [arg EXCEPT ![h] = epoch]
                /\ UNCHANGED then
           ELSE Idle(h)
    /\ UNCHANGED <<epoch, task, session, run, rpc, pipe, server>>

\* history() threw: the caller does not go on.
HistoryFails(h) ==
    /\ spc[h] = "history"
    /\ Idle(h)
    /\ Controls(task, ready)
    /\ UNCHANGED <<mode, epoch, ready, task, session, run, rpc, pipe, server>>

\* The first image of the source, unless the selection changed meanwhile.
Loaded(h) ==
    /\ spc[h] = "loading"
    /\ \/ arg[h] = epoch /\ ready' = TRUE
       \/ UNCHANGED ready
    /\ Controls(task, ready')
    /\ Idle(h)
    /\ UNCHANGED <<mode, epoch, task, session, run, rpc, pipe, server>>

-----------------------------------------------------------------------------
(* The main loop of a run                                                  *)

\* The start button, up to the request that creates the session.
Start ==
    /\ startable /\ mode # "photo" /\ task = 0 /\ ready
    /\ NoneResumes /\ epoch < MaxEpoch
    /\ epoch' = epoch + 1 /\ run' = epoch' /\ task' = epoch'
    /\ Controls(task', ready)
    /\ rpc' = "creating" /\ slot' = "open"
    /\ UNCHANGED <<mode, ready, session, stops, dpc, rq, sent, shifted, faces, counted, shown, server>>

\* The finally block begins.
Drain ==
    /\ rpc' = "drain"
    /\ slot' = IF slot = "open" THEN "closed" ELSE slot
    /\ dpc' = IF dpc = "capacity" THEN "loop" ELSE dpc

\* Mutant: a session that comes too late is not kept.
CreatedTooLate ==
    /\ rpc = "creating"
    /\ server' = server \cup {run}
    /\ session' = IF Current THEN run ELSE session
    /\ Controls(task, ready)
    /\ IF Current THEN /\ rpc' = "loop" /\ UNCHANGED slot
                       /\ dpc' = IF mode = "live" THEN "loop" ELSE dpc
                  ELSE Drain
    /\ UNCHANGED <<mode, epoch, ready, task, stops, run, rq, sent, shifted, faces, counted, shown>>

\* The session is kept even when the run was stopped, so that stop() can
\* finish it.  A live run gets its producer and dispatcher.
Created ==
    /\ rpc = "creating"
    /\ server' = server \cup {run}
    /\ session' = run
    /\ Controls(task, ready)
    /\ IF Current THEN /\ rpc' = "loop" /\ UNCHANGED slot
                       /\ dpc' = IF mode = "live" THEN "loop" ELSE dpc
                  ELSE Drain
    /\ UNCHANGED <<mode, epoch, ready, task, stops, run, rq, sent, shifted, faces, counted, shown>>

CreateFails ==
    /\ rpc = "creating"
    /\ Drain
    /\ UNCHANGED <<page, stops, run, rq, sent, shifted, faces, counted, shown, server>>

\* The loop is left: the session is finished, unless the run was stopped.
LeaveLoop ==
    IF Current /\ session # 0 THEN rpc' = "finishing" /\ UNCHANGED <<slot, dpc>> ELSE Drain

\* The loop reads the mode of the moment.
Loop ==
    /\ rpc = "loop"
    /\ \/ /\ ~Current \/ mode = "offline"
          /\ LeaveLoop /\ UNCHANGED shifted
       \/ /\ Current /\ mode = "offline"
          /\ rpc' = "frame" /\ UNCHANGED <<slot, dpc, shifted>>
       \/ /\ Current /\ mode # "offline" /\ shifted < sent
          /\ shifted' = shifted + 1
          /\ rpc' = "settle" /\ UNCHANGED <<slot, dpc>>
       \/ /\ Current /\ mode # "offline" /\ shifted = sent
          /\ CASE dpc = "done"   -> LeaveLoop
               [] dpc = "failed" -> Drain
               [] OTHER          -> rpc' = "wait" /\ UNCHANGED <<slot, dpc>>
          /\ UNCHANGED shifted
    /\ UNCHANGED <<page, stops, run, rq, sent, faces, counted, shown, server>>

\* Seek, encode, send and display of an offline frame.
OfflineFrame ==
    /\ rpc = "frame"
    /\ \/ Current /\ rpc' = "loop" /\ UNCHANGED <<slot, dpc>>
       \/ Drain      \* stopped, or an error
    /\ UNCHANGED <<page, stops, run, rq, sent, shifted, faces, counted, shown, server>>

\* Mutant: whichever request settles next.
AnyTurn(i) == i <= sent
Turn(i) == i = shifted

\* await request.settled
TakeOutcome(i) ==
    /\ rpc = "settle" /\ Turn(i)
    /\ rq[i] \in {"ok", "skip", "error"}
    /\ IF Current /\ rq[i] # "error"
       THEN /\ rpc' = "loop" /\ UNCHANGED <<slot, dpc>>
            /\ shown' = IF rq[i] = "ok" THEN i ELSE shown
       ELSE Drain /\ UNCHANGED shown
    /\ rq' = [rq EXCEPT ![i] = "none"]
    /\ UNCHANGED <<page, stops, run, sent, shifted, faces, counted, server>>

\* The run ended by itself and has finished its session.  When the call
\* failed, the finally block calls again.
Finished ==
    /\ rpc = "finishing"
    /\ \/ /\ Finish(run)
          /\ session' = 0
          /\ ready' = (ready /\ ~(Current /\ mode # "offline"))
          /\ IF Current /\ mode # "offline" THEN Controls(task, FALSE)
                                            ELSE UNCHANGED <<startable, locked>>
       \/ UNCHANGED <<server, session, ready, startable, locked>>
    /\ Drain
    /\ UNCHANGED <<mode, epoch, task, stops, run, rq, sent, shifted, faces, counted, shown>>

EndRun ==
    /\ rpc' = "none" /\ run' = 0
    /\ rq' = [i \in Requests |-> "none"] /\ sent' = 0 /\ shifted' = 0
    /\ faces' = FALSE /\ counted' = FALSE /\ shown' = 0
    /\ slot' = "closed" /\ dpc' = "absent"
    /\ IF Current THEN task' = 0 /\ Controls(0, ready) ELSE UNCHANGED <<task, startable, locked>>

\* Producer, dispatcher and requests have ended.
Drained ==
    /\ rpc = "drain"
    /\ dpc \in {"absent", "failed", "done"} /\ Active = {}
    /\ IF session # 0 /\ Current
       THEN /\ rpc' = "finishAnyway" /\ session' = 0
            /\ UNCHANGED <<task, startable, locked, run, pipe>>
       ELSE EndRun /\ UNCHANGED session
    /\ UNCHANGED <<mode, epoch, ready, stops, server>>

FinishedAnyway ==
    /\ rpc = "finishAnyway"
    /\ Finish(run)
    /\ EndRun
    /\ UNCHANGED <<mode, epoch, ready, session, stops>>

-----------------------------------------------------------------------------
(* Producer, dispatcher and requests of a live run                         *)

\* The producer ends: the tab is hidden, the camera or the encoder fails.
ProducerEnds ==
    /\ dpc # "absent" /\ slot = "open"
    /\ slot' \in {"closed", "failed"}
    /\ UNCHANGED <<page, stops, run, rpc, dpc, rq, sent, shifted, faces, counted, shown, server>>

Wake == rpc' = IF rpc = "wait" THEN "loop" ELSE rpc     \* requestWaiter

HasCapacity == Cardinality(Active) < 2

\* A frame leaves the slot and is sent.
Dispatch ==
    /\ dpc = "loop" /\ Current /\ slot = "open"
    /\ HasCapacity /\ sent < MaxSent
    /\ sent' = sent + 1
    /\ rq' = [rq EXCEPT ![sent + 1] = "sent"]
    /\ Wake
    /\ UNCHANGED <<page, stops, run, slot, dpc, shifted, faces, counted, shown, server>>

AwaitCapacity ==
    /\ dpc = "loop" /\ Current /\ ~HasCapacity
    /\ dpc' = "capacity"
    /\ UNCHANGED <<page, stops, run, rpc, slot, rq, sent, shifted, faces, counted, shown, server>>

\* Mutant: nobody tells the main loop.
DispatchEndsSilently ==
    /\ dpc = "loop" /\ (~Current \/ slot # "open")
    /\ dpc' = IF Current /\ slot = "failed" THEN "failed" ELSE "done"
    /\ UNCHANGED <<page, stops, run, rpc, slot, rq, sent, shifted, faces, counted, shown, server>>

DispatchEnds ==
    /\ dpc = "loop" /\ (~Current \/ slot # "open")
    /\ dpc' = IF Current /\ slot = "failed" THEN "failed" ELSE "done"
    /\ Wake
    /\ UNCHANGED <<page, stops, run, slot, rq, sent, shifted, faces, counted, shown, server>>

\* The server's answer; requests on two connections may arrive in any order.
\* The first frame it counts carries the indices, if its answer gets through.
Serve(i) ==
    /\ rq[i] = "sent"
    /\ \/ /\ \A j \in Requests : j > i => rq[j] \in {"none", "sent", "busy", "skip"}
          /\ run \in server
          /\ counted' = TRUE
          /\ \E reply \in {IF counted THEN "plain" ELSE "faces", "failed"} :
                 rq' = [rq EXCEPT ![i] = reply]
       \/ \E reply \in {"busy", "failed"} : rq' = [rq EXCEPT ![i] = reply] /\ UNCHANGED counted
    /\ UNCHANGED <<page, stops, run, rpc, slot, dpc, sent, shifted, faces, shown, server>>

\* sendFrame returns: without the indices a frame cannot be decoded.
Settle(i) ==
    /\ rq[i] \in Flying \ {"sent"}
    /\ rq' = [rq EXCEPT ![i] =
                 CASE rq[i] = "busy" -> "skip"
                   [] rq[i] = "faces" \/ (rq[i] = "plain" /\ faces) -> "ok"
                   [] OTHER -> "error"]
    /\ faces' = (faces \/ rq[i] = "faces")
    /\ dpc' = IF dpc = "capacity" THEN "loop" ELSE dpc
    /\ UNCHANGED <<page, stops, run, rpc, slot, sent, shifted, counted, shown, server>>

-----------------------------------------------------------------------------
Interface(h) ==
    \/ ChangeMode(h) \/ StopButton(h) \/ CameraGone(h) \/ ChooseSource(h)
    \/ ResumeStop(h) \/ StopFinished(h) \/ AfterStop(h) \/ HistoryFails(h) \/ Loaded(h)

MainLoop ==
    \/ Created \/ CreateFails \/ Loop \/ OfflineFrame
    \/ \E i \in Requests : TakeOutcome(i)
    \/ Finished \/ Drained \/ FinishedAnyway

Next ==
    \/ \E h \in Handlers : Interface(h)
    \/ Start \/ MainLoop
    \/ ProducerEnds \/ Dispatch \/ AwaitCapacity \/ DispatchEnds
    \/ \E i \in Requests : Serve(i) \/ Settle(i)

Spec == Init /\ [][Next]_vars

\* The event loop goes on as long as anything can be resumed: calls to the
\* server return (it bounds every request itself), and settled promises resume
\* who awaits them.  The user does what he likes.
EventLoop ==
    \/ \E h \in Handlers : ResumeStop(h) \/ StopFinished(h) \/ AfterStop(h)
    \/ MainLoop \/ DispatchEnds
    \/ \E i \in Requests : Serve(i) \/ Settle(i)

FairSpec == Spec /\ WF_vars(EventLoop)

-----------------------------------------------------------------------------
(* Properties                                                              *)

\* When nothing goes on in the page, no session it created is left open at
\* the server: neither a late reply to the creation nor overlapping stops
\* lose one (README: "cancels pending live work").
SessionsEnd ==
    (task = 0 /\ rpc = "none" /\ \A h \in Handlers : spc[h] = "idle") =>
        server = {}

\* Two requests may overtake each other, what is displayed does not go back
\* in time (reference/BODY_LIVE_PERFORMANCE.md: "consumes results in request
\* order").
ShownInOrder == [][run' = run => shown' >= shown]_vars

\* The menu can change the mode under a run that was started while stop()
\* waited for the history: the run then waits for a dispatcher it never got.
Stranded == rpc = "wait" /\ dpc = "absent"

\* stop() comes back, whatever producer, dispatcher, requests and main loop
\* were waiting for; except for a stranded run.
StopReturns == \A h \in Handlers : spc[h] = "task" ~> (spc[h] # "task" \/ Stranded)
=============================================================================
