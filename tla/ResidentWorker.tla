--------------------------- MODULE ResidentWorker ---------------------------
(***************************************************************************)
(* The native processes behind the queue consumer (demo/worker.go, the     *)
(* process handling of demo/main.go and demo/object_inference.go, and the  *)
(* --worker loop of apps/body_infer.c).                                    *)
(*                                                                         *)
(* The consumer runs one request at a time.  Body jobs and video frames    *)
(* share a resident process when persistent, which speaks a line protocol  *)
(* on stdout (READY, TIMING, DONE) and writes diagnostics to stderr.  Two  *)
(* reader goroutines move lines from the pipes to one bounded channel of   *)
(* events; a third closes w.done once both pipes ended and the process is  *)
(* reaped.  Without persistent a body job starts a process of its own, and *)
(* a frame stops the resident one when it is done.  An object job always   *)
(* has its own process.                                                    *)
(*                                                                         *)
(* A request starts at most one process, so a process is named by the      *)
(* request that started it; 0 is nil.  The tag of a protocol line is the   *)
(* request the process was serving: the program sees only the word.        *)
(***************************************************************************)
EXTENDS Naturals, Sequences, FiniteSets

CONSTANTS
    MaxReq,      \* bound: requests explored
    Cap,         \* cap(w.events)
    MaxLines     \* bound: diagnostics in the stderr pipe

ASSUME WorkerAssumption ==
    /\ MaxReq \in Nat \ {0}
    /\ Cap \in Nat \ {0}
    /\ MaxLines \in Nat

VARIABLES
    persistent,  \* cfg.persistent
    gpc,         \* where the consumer is
    after,       \* where stopResident returns to
    req,         \* requests taken so far; the current one while gpc is not idle
    kind,        \* what the current request is
    ctx,         \* its context: "live" or "ended" (DELETE, timeout, disconnect, signal)
    stopping,    \* the server's context is done
    native,      \* a.native, until stopResident returns
    verdict,     \* what the run of the current or last request returned
    timing,      \* a valid TIMING line was read for it
    proc,        \* state of each process
    work,        \* the request a process is serving
    result,      \* result.bin or object.glb of each request
    stdin,       \* frames written to a process and not read yet
    open,        \* its stdin is open
    stdout,      \* lines in its stdout pipe
    stderr,      \* number of lines in its stderr pipe
    events       \* w.events

request == <<req, kind, verdict, timing>>
native_ == <<proc, work, result, stdin, open, stdout, stderr>>
vars    == <<persistent, gpc, after, req, kind, ctx, stopping, native, verdict,
             timing, proc, work, result, stdin, open, stdout, stderr, events>>

Reqs  == 1..MaxReq
Kinds == {"body", "frame", "object"}
Words == {"READY", "TIMING", "DONE", "log"}
Line(word, r) == [word |-> word, of |-> r]
Lines == [word : Words, of : 0..MaxReq]

TypeOK ==
    /\ persistent \in BOOLEAN
    /\ gpc \in {"idle", "enter", "start", "ready", "send", "wait", "solo",
                "reap", "stop", "kill", "drain", "off"}
    /\ after \in {"idle", "start", "off"}
    /\ req \in 0..MaxReq
    /\ kind \in Kinds
    /\ ctx \in {"live", "ended"}
    /\ stopping \in BOOLEAN
    /\ native \in 0..MaxReq
    /\ verdict \in {"none", "ok", "error", "cancelled"}
    /\ timing \in BOOLEAN
    /\ proc \in [Reqs -> {"none", "loading", "await", "infer", "write", "reply",
                          "solo", "dead", "reaped"}]
    /\ work \in [Reqs -> 0..MaxReq]
    /\ result \in [Reqs -> {"none", "partial", "whole"}]
    /\ stdin \in [Reqs -> Seq(Reqs)]
    /\ open \in [Reqs -> BOOLEAN]
    /\ stdout \in [Reqs -> Seq(Lines)]
    /\ stderr \in [Reqs -> 0..MaxLines]
    /\ events \in [Reqs -> Seq(Lines)]
    /\ \A p \in Reqs : Len(events[p]) <= Cap

Init ==
    /\ persistent \in BOOLEAN
    /\ gpc = "idle" /\ after = "idle" /\ req = 0 /\ kind = "body"
    /\ ctx = "live" /\ stopping = FALSE /\ native = 0
    /\ verdict = "none" /\ timing = FALSE
    /\ proc = [p \in Reqs |-> "none"]
    /\ work = [p \in Reqs |-> 0]
    /\ result = [r \in Reqs |-> "none"]
    /\ stdin = [p \in Reqs |-> <<>>]
    /\ open = [p \in Reqs |-> FALSE]
    /\ stdout = [p \in Reqs |-> <<>>]
    /\ stderr = [p \in Reqs |-> 0]
    /\ events = [p \in Reqs |-> <<>>]

Running(p) == proc[p] \notin {"none", "dead", "reaped"}
Resident   == kind = "frame" \/ (kind = "body" /\ persistent)

-----------------------------------------------------------------------------
(* The queue consumer                                                      *)

\* A frame or a job is taken from its channel.  Its context descends from
\* the server's.
Begin(k) ==
    /\ gpc = "idle"
    /\ req < MaxReq
    /\ gpc' = "enter"
    /\ req' = req + 1
    /\ kind' = k
    /\ verdict' = "none" /\ timing' = FALSE
    /\ ctx' = IF stopping THEN "ended" ELSE "live"
    /\ UNCHANGED <<persistent, after, stopping, native, native_, events>>

\* Timeout of the job, DELETE, or a client that disconnects.
EndContext ==
    /\ gpc \notin {"idle", "off"}
    /\ ctx = "live"
    /\ ctx' = "ended"
    /\ UNCHANGED <<persistent, gpc, after, request, stopping, native, native_, events>>

Signal ==
    /\ ~stopping
    /\ stopping' = TRUE
    /\ ctx' = "ended"
    /\ UNCHANGED <<persistent, gpc, after, request, native, native_, events>>

\* The run returns v while the resident process stays up, except that
\* runFrame stops it when the server is not persistent.
Return(v) ==
    /\ verdict' = v
    /\ gpc' = IF kind = "frame" /\ ~persistent THEN "stop" ELSE "idle"
    /\ after' = "idle"

\* Mutant: the deferred stopResident is missing.
FailAndKeep(v) ==
    /\ verdict' = v
    /\ gpc' = "idle"
    /\ after' = "idle"

\* The run returns an error after the resident process was involved: the
\* deferred stopResident discards it.
Fail(v) ==
    /\ verdict' = v
    /\ gpc' = "stop"
    /\ after' = "idle"

\* runResidentPaths: a context that is over returns before anything is
\* touched; a resident process that ended is forgotten and replaced.
EnterResident ==
    /\ gpc = "enter"
    /\ Resident
    /\ \/ ctx = "ended" /\ Return("cancelled")
       \/ /\ ctx = "live"
          /\ IF native = 0
             THEN gpc' = "start" /\ UNCHANGED after
             ELSE IF proc[native] = "reaped"
             THEN gpc' = "stop" /\ after' = "start"
             ELSE gpc' = "send" /\ UNCHANGED after
          /\ UNCHANGED verdict
    /\ UNCHANGED <<persistent, req, kind, ctx, stopping, timing, native, native_, events>>

\* runFrame cannot create its scratch directory.
ScratchFails ==
    /\ gpc = "enter"
    /\ kind = "frame"
    /\ verdict' = "error"
    /\ gpc' = "idle"
    /\ UNCHANGED <<persistent, after, req, kind, ctx, stopping, timing, native, native_, events>>

\* runOnce: no process is up when the server is not persistent.
EnterOnce ==
    /\ gpc = "enter"
    /\ kind = "body" /\ ~persistent
    /\ gpc' = "start"
    /\ UNCHANGED <<persistent, after, request, ctx, stopping, native, native_, events>>

\* Mutant: the resident process keeps the GPU.
EnterObjectBeside ==
    /\ gpc = "enter"
    /\ kind = "object"
    /\ \/ Return("error")
       \/ gpc' = "start" /\ after' = "start" /\ UNCHANGED verdict
    /\ UNCHANGED <<persistent, req, kind, ctx, stopping, timing, native, native_, events>>

\* runObject: not enough memory, or make room first.
EnterObject ==
    /\ gpc = "enter"
    /\ kind = "object"
    /\ \/ Return("error")
       \/ gpc' = "stop" /\ after' = "start" /\ UNCHANGED verdict
    /\ UNCHANGED <<persistent, req, kind, ctx, stopping, timing, native, native_, events>>

\* startResident, or the own process of runOnce and runObject.
Start ==
    /\ gpc = "start"
    /\ proc' = [proc EXCEPT ![req] = IF Resident THEN "loading" ELSE "solo"]
    /\ work' = [work EXCEPT ![req] = IF Resident THEN 0 ELSE req]
    /\ open' = [open EXCEPT ![req] = Resident]
    /\ native' = IF Resident THEN req ELSE native
    /\ gpc' = IF Resident THEN "ready" ELSE "solo"
    /\ UNCHANGED <<persistent, after, request, ctx, stopping, result, stdin,
                   stdout, stderr, events>>

\* Not enough memory, no pipe, no executable.
StartFails ==
    /\ gpc = "start"
    /\ Return("error")
    /\ UNCHANGED <<persistent, req, kind, ctx, stopping, timing, native, native_, events>>

\* inference.log cannot be created, before anything was sent.
LogFails ==
    /\ gpc \in {"ready", "send"}
    /\ Fail("error")
    /\ UNCHANGED <<persistent, req, kind, ctx, stopping, timing, native, native_, events>>

\* The writer goroutine hands the frame to the pipe; a dead process has closed it.
Send ==
    /\ gpc = "send"
    /\ IF Running(native)
       THEN /\ stdin' = [stdin EXCEPT ![native] = Append(@, req)]
            /\ gpc' = "wait"
            /\ UNCHANGED <<verdict, after>>
       ELSE Fail("error") /\ UNCHANGED stdin
    /\ UNCHANGED <<persistent, req, kind, ctx, stopping, timing, native, proc, work,
                   result, open, stdout, stderr, events>>

\* case <-ctx.Done() at the write or in wait; while sending, the writer
\* goroutine may have got through.
Cancelled ==
    /\ gpc \in {"ready", "send", "wait"}
    /\ ctx = "ended"
    /\ \/ UNCHANGED stdin
       \/ /\ gpc = "send" /\ Running(native)
          /\ stdin' = [stdin EXCEPT ![native] = Append(@, req)]
    /\ Fail("cancelled")
    /\ UNCHANGED <<persistent, req, kind, ctx, stopping, timing, native, proc, work,
                   result, open, stdout, stderr, events>>

\* case <-w.done in wait: queued diagnostics are read, queued protocol lines
\* are not believed any more.
ProcessGone ==
    /\ gpc \in {"ready", "wait"}
    /\ proc[native] = "reaped"
    /\ events' = [events EXCEPT ![native] = <<>>]
    /\ Fail("error")
    /\ UNCHANGED <<persistent, req, kind, ctx, stopping, timing, native, native_>>

Expected == IF gpc = "ready" THEN "READY" ELSE "DONE"

\* Mutant: any protocol line counts as the answer.
Accepts(word) == word # "log"

Answers(word) == word = Expected

\* case ev := <-w.events in wait.
ReadEvent ==
    /\ gpc \in {"ready", "wait"}
    /\ events[native] # <<>>
    /\ events' = [events EXCEPT ![native] = Tail(@)]
    /\ LET word == Head(events[native]).word IN
       \/ /\ word = "log"
          /\ UNCHANGED <<gpc, after, verdict, timing>>
       \/ /\ word = "TIMING" /\ gpc = "wait" /\ ~Answers(word)
          /\ timing' = TRUE
          /\ UNCHANGED <<gpc, after, verdict>>
       \/ /\ Answers(word)
          /\ IF gpc = "ready" THEN gpc' = "send" /\ UNCHANGED <<after, verdict>>
                              ELSE Return("ok")
          /\ UNCHANGED timing
       \/ /\ word # "log" /\ ~Answers(word) /\ ~(word = "TIMING" /\ gpc = "wait")
          /\ Fail("error")
          /\ UNCHANGED timing
    /\ UNCHANGED <<persistent, req, kind, ctx, stopping, native, native_>>

\* The own process of a job ended by itself and is reaped.
SoloDone ==
    /\ gpc = "solo"
    /\ proc[req] = "reaped"
    /\ Return(IF result[req] = "whole" THEN "ok" ELSE "error")
    /\ UNCHANGED <<persistent, req, kind, ctx, stopping, timing, native, native_, events>>

\* ... or is killed when the context ends, and waited for.
SoloKilled ==
    /\ gpc = "solo"
    /\ ctx = "ended"
    /\ proc' = [proc EXCEPT ![req] = IF Running(req) THEN "dead" ELSE @]
    /\ gpc' = "reap"
    /\ UNCHANGED <<persistent, after, request, ctx, stopping, native, work, result,
                   stdin, open, stdout, stderr, events>>

SoloReaped ==
    /\ gpc = "reap"
    /\ proc[req] = "reaped"
    /\ Return("cancelled")
    /\ UNCHANGED <<persistent, req, kind, ctx, stopping, timing, native, native_, events>>

-----------------------------------------------------------------------------
(* stopResident                                                            *)

\* Nobody refers to the ended process any more: what is left in its channel
\* and in its stdin is garbage.
Forget ==
    /\ native' = 0
    /\ work' = [work EXCEPT ![native] = 0]
    /\ stdin' = [stdin EXCEPT ![native] = <<>>]
    /\ events' = [events EXCEPT ![native] = <<>>]

\* Its stdin is closed.  One that is known to be gone needs no more.
StopResident ==
    /\ gpc = "stop" /\ native # 0
    /\ open' = [open EXCEPT ![native] = FALSE]
    /\ IF proc[native] = "reaped"
       THEN gpc' = after /\ Forget
       ELSE gpc' = "kill" /\ UNCHANGED <<native, work, stdin, events>>
    /\ UNCHANGED <<persistent, after, request, ctx, stopping, proc, result, stdout, stderr>>

\* Mutant: the process is only asked to leave.
KillNothing ==
    /\ gpc = "kill"
    /\ gpc' = "drain"
    /\ UNCHANGED <<persistent, after, request, ctx, stopping, native, native_, events>>

\* systemctl stop may take a while, then SIGKILL to the process group.
Kill ==
    /\ gpc = "kill"
    /\ proc' = [proc EXCEPT ![native] = IF Running(native) THEN "dead" ELSE @]
    /\ gpc' = "drain"
    /\ UNCHANGED <<persistent, after, request, ctx, stopping, native, work, result, stdin,
                   open, stdout, stderr, events>>

NothingToStop ==
    /\ gpc = "stop" /\ native = 0
    /\ gpc' = after
    /\ UNCHANGED <<persistent, after, request, ctx, stopping, native, native_, events>>

\* Mutant: stopResident waits for w.done without reading events.
DrainNothing == FALSE /\ UNCHANGED vars

\* Events are thrown away so that the readers can finish.
DrainEvent ==
    /\ gpc = "drain"
    /\ events[native] # <<>>
    /\ events' = [events EXCEPT ![native] = Tail(@)]
    /\ UNCHANGED <<persistent, gpc, after, request, ctx, stopping, native, native_>>

Drained ==
    /\ gpc = "drain"
    /\ proc[native] = "reaped"
    /\ gpc' = after
    /\ Forget
    /\ UNCHANGED <<persistent, after, request, ctx, stopping, proc, result, open,
                   stdout, stderr>>

\* The ticker of app.worker: the process has been unused for a while.
IdleTick ==
    /\ gpc = "idle"
    /\ native # 0
    /\ gpc' = "stop"
    /\ after' = "idle"
    /\ UNCHANGED <<persistent, request, ctx, stopping, native, native_, events>>

WorkerExit ==
    /\ gpc = "idle" /\ stopping
    /\ gpc' = "stop" /\ after' = "off"
    /\ UNCHANGED <<persistent, request, ctx, stopping, native, native_, events>>

-----------------------------------------------------------------------------
(* The native process p: body_infer --worker, or a process of one job      *)

Go == <<persistent, gpc, after, request, ctx, stopping, native>>

\* A diagnostic may or may not be written at this point.
Diagnose(p) ==
    \/ UNCHANGED stderr
    \/ stderr[p] < MaxLines /\ stderr' = [stderr EXCEPT ![p] = @ + 1]

Announce(p) ==
    /\ proc[p] = "loading"
    /\ proc' = [proc EXCEPT ![p] = "await"]
    /\ stdout' = [stdout EXCEPT ![p] = Append(@, Line("READY", 0))]
    /\ Diagnose(p)
    /\ UNCHANGED <<Go, work, result, stdin, open, events>>

TakeFrame(p) ==
    /\ proc[p] = "await"
    /\ stdin[p] # <<>>
    /\ work' = [work EXCEPT ![p] = Head(stdin[p])]
    /\ stdin' = [stdin EXCEPT ![p] = Tail(@)]
    /\ proc' = [proc EXCEPT ![p] = "infer"]
    /\ Diagnose(p)
    /\ UNCHANGED <<Go, result, open, stdout, events>>

\* End of input at a request boundary is a clean exit.
LeaveAtEof(p) ==
    /\ proc[p] = "await"
    /\ stdin[p] = <<>> /\ ~open[p]
    /\ proc' = [proc EXCEPT ![p] = "dead"]
    /\ UNCHANGED <<Go, work, result, stdin, open, stdout, stderr, events>>

\* The timing line precedes DONE on the same pipe; then the result is opened.
Infer(p) ==
    /\ proc[p] = "infer"
    /\ proc' = [proc EXCEPT ![p] = "write"]
    /\ stdout' = [stdout EXCEPT ![p] = Append(@, Line("TIMING", work[p]))]
    /\ Diagnose(p)
    /\ result' = [result EXCEPT ![work[p]] = "partial"]
    /\ UNCHANGED <<Go, work, stdin, open, events>>

WriteResult(p) ==
    /\ proc[p] = "write"
    /\ proc' = [proc EXCEPT ![p] = "reply"]
    /\ result' = [result EXCEPT ![work[p]] = "whole"]
    /\ UNCHANGED <<Go, work, stdin, open, stdout, stderr, events>>

Reply(p) ==
    /\ proc[p] = "reply"
    /\ proc' = [proc EXCEPT ![p] = "await"]
    /\ stdout' = [stdout EXCEPT ![p] = Append(@, Line("DONE", work[p]))]
    /\ UNCHANGED <<Go, work, result, stdin, open, stderr, events>>

\* A failed request, a driver abort or the memory limit ends the process.
Dies(p) ==
    /\ Running(p)
    /\ proc' = [proc EXCEPT ![p] = "dead"]
    /\ UNCHANGED <<Go, work, result, stdin, open, stdout, stderr, events>>

\* runOnce and runObject: one result, then exit 0.
SoloFinishes(p) ==
    /\ proc[p] = "solo"
    /\ proc' = [proc EXCEPT ![p] = "dead"]
    /\ result' = [result EXCEPT ![work[p]] = "whole"]
    /\ UNCHANGED <<Go, work, stdin, open, stdout, stderr, events>>

-----------------------------------------------------------------------------
(* The goroutines that read its pipes and reap it                          *)

\* Protocol lines wait for room in the channel.
ReadStdout(p) ==
    /\ stdout[p] # <<>>
    /\ Len(events[p]) < Cap
    /\ events' = [events EXCEPT ![p] = Append(@, Head(stdout[p]))]
    /\ stdout' = [stdout EXCEPT ![p] = Tail(@)]
    /\ UNCHANGED <<Go, proc, work, result, stdin, open, stderr>>

\* Diagnostics are dropped when there is none.
ReadStderr(p) ==
    /\ stderr[p] > 0
    /\ stderr' = [stderr EXCEPT ![p] = @ - 1]
    /\ events' = [events EXCEPT ![p] =
                     IF Len(@) < Cap THEN Append(@, Line("log", 0)) ELSE @]
    /\ UNCHANGED <<Go, proc, work, result, stdin, open, stdout>>

\* Both pipes are at their end: cmd.Wait, close(w.done).
Reap(p) ==
    /\ proc[p] = "dead"
    /\ stdout[p] = <<>> /\ stderr[p] = 0
    /\ proc' = [proc EXCEPT ![p] = "reaped"]
    /\ UNCHANGED <<Go, work, result, stdin, open, stdout, stderr, events>>

-----------------------------------------------------------------------------
Enter == EnterResident \/ ScratchFails \/ EnterOnce \/ EnterObject
Await == Cancelled \/ ProcessGone \/ ReadEvent
Solo  == SoloDone \/ SoloKilled \/ SoloReaped
Stop  == StopResident \/ Kill \/ NothingToStop \/ DrainEvent \/ Drained

Consumer ==
    \/ \E k \in Kinds : Begin(k)
    \/ Enter \/ Start \/ StartFails \/ LogFails \/ Send \/ Await \/ Solo
    \/ Stop \/ IdleTick \/ WorkerExit

Native(p) ==
    \/ Announce(p) \/ TakeFrame(p) \/ LeaveAtEof(p) \/ Infer(p)
    \/ WriteResult(p) \/ Reply(p) \/ Dies(p) \/ SoloFinishes(p)

Readers(p) == ReadStdout(p) \/ ReadStderr(p) \/ Reap(p)

Next ==
    \/ Consumer \/ EndContext \/ Signal
    \/ \E p \in Reqs : Native(p) \/ Readers(p)

Spec == Init /\ [][Next]_vars

\* Goroutines run and the timeout of the request fires.  The native process
\* may hang at any point: none of its steps is fair.
Fairness ==
    /\ WF_vars(EndContext)
    /\ WF_vars(Enter) /\ WF_vars(Start \/ StartFails) /\ WF_vars(Send)
    /\ WF_vars(Cancelled) /\ WF_vars(SoloDone) /\ WF_vars(SoloKilled) /\ WF_vars(SoloReaped)
    /\ WF_vars(StopResident) /\ WF_vars(Kill) /\ WF_vars(NothingToStop)
    /\ WF_vars(DrainEvent) /\ WF_vars(Drained)
    /\ WF_vars(WorkerExit)
    /\ \A p \in Reqs : WF_vars(ReadStdout(p)) /\ WF_vars(ReadStderr(p)) /\ WF_vars(Reap(p))

FairSpec == Spec /\ Fairness

-----------------------------------------------------------------------------
(* Properties                                                              *)

\* A run that returns without an error has its own complete result: no DONE
\* of an earlier, failed or cancelled request is ever taken for the answer
\* (app.runResidentPaths, infer_main), and the timing line on the same pipe is
\* neither lost nor overtaken (body_infer.c:51).
OkMeansWritten ==
    verdict = "ok" => /\ result[req] = "whole"
                      /\ Resident => timing

\* Between requests the resident process owes nothing: no frame is unread and
\* no protocol line is on its way that the next request could mistake.
NoStaleReply ==
    (gpc = "idle" /\ native # 0) =>
        /\ stdin[native] = <<>>
        /\ stdout[native] = <<>>
        /\ \A i \in DOMAIN events[native] : events[native][i].word = "log"

\* At any time at most one native process runs, and it is one the consumer
\* will stop: "never leave a hidden GPU job" (worker.go:135).  When the
\* consumer has left, none is.
NoHiddenProcess ==
    \A p \in Reqs : proc[p] \notin {"none", "reaped"} =>
        /\ p = native \/ (p = req /\ gpc \in {"solo", "reap"})
        /\ \A q \in Reqs : q # p => ~Running(q)
        /\ gpc # "off"

\* A hanging process, a full channel or a verbose driver never keeps the
\* consumer: every request returns.
EachRequestReturns == gpc \notin {"idle", "off"} ~> gpc \in {"idle", "off"}

\* After a signal the consumer leaves, its processes gone.
StopReaps == stopping ~> (gpc = "off" /\ \A p \in Reqs : ~Running(p))
=============================================================================
