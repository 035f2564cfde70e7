------------------------------ MODULE JobQueue ------------------------------
(***************************************************************************)
(* Still-image and object jobs of the demo server (demo/main.go,           *)
(* demo/object_inference.go): admission by HTTP handlers, a bounded queue, *)
(* one queue consumer, cancellation, the job timeout, job.json on disk,    *)
(* graceful shutdown, crash and restart.                                   *)
(*                                                                         *)
(* Two locks of the code appear as state of the handlers.  A handler holds *)
(* the upload token (a.uploads) whenever it is not idle, and the mutex     *)
(* (a.mu) from the moment it has made the job directory until it enqueues  *)
(* or gives up.  Every other critical section is one action guarded by     *)
(* MuFree: nobody else can see its intermediate states, and a crash inside *)
(* it leaves the disk as it was before or after its single rename.         *)
(*                                                                         *)
(* a.current and a.cancel are always assigned together under a.mu, so one  *)
(* variable stands for both.  jobs[id] is the State field; a job that is   *)
(* not in the map is "absent".                                             *)
(***************************************************************************)
EXTENDS Naturals, Sequences, FiniteSets

CONSTANTS
    Ids,        \* job identifiers (random 96-bit names in the code)
    Clients,    \* concurrent submit / submitObject handlers
    None,       \* no job
    QueueCap,   \* cap(a.queue): waiting jobs
    MaxJobs,    \* cfg.maxJobs: retained history entries
    MaxBoots,   \* bound: restarts explored
    MaxFaults   \* bound: failing writes explored

ASSUME QueueAssumption ==
    /\ None \notin Ids
    /\ QueueCap \in Nat \ {0}
    /\ MaxJobs \in Nat \ {0}
    /\ MaxBoots \in Nat
    /\ MaxFaults \in Nat

VARIABLES
    srv,      \* "up", "stopping" (SIGTERM seen), "closed" (Shutdown called), "down"
    pc,       \* pc[c]: where submit handler c is
    target,   \* target[c]: the identifier drawn by handler c
    jobs,     \* a.jobs: State of each job in memory
    disk,     \* DATA/ID/: "none", "bare" (no job.json yet) or the State saved there
    queue,    \* a.queue
    wpc,      \* where the queue consumer is
    wid,      \* the job it has received
    current,  \* a.current and a.cancel
    ctx,      \* runctx.Err() of the current run
    werr,     \* error returned by run / runObject
    asked,    \* history: jobs some client asked to DELETE while they could be cancelled
    boots,    \* restarts so far
    faults    \* failed writes so far

server  == <<srv, boots, faults>>
handler == <<pc, target>>
worker  == <<wpc, wid, ctx, werr>>
vars    == <<srv, pc, target, jobs, disk, queue, wpc, wid, current, ctx, werr,
             asked, boots, faults>>

Active    == {"queued", "running"}
Terminal  == {"complete", "failed", "cancelled"}
JobStates == Active \cup Terminal

TypeOK ==
    /\ srv \in {"up", "stopping", "closed", "down"}
    /\ pc \in [Clients -> {"idle", "decoding", "made", "saved"}]
    /\ target \in [Clients -> Ids \cup {None}]
    /\ jobs \in [Ids -> JobStates \cup {"absent"}]
    /\ disk \in [Ids -> JobStates \cup {"none", "bare"}]
    /\ queue \in Seq(Ids)
    /\ wpc \in {"off", "select", "received", "native", "export", "done"}
    /\ wid \in Ids \cup {None}
    /\ current \in Ids \cup {None}
    /\ ctx \in {"live", "canceled", "deadline"}
    /\ werr \in {"none", "canceled", "deadline", "error"}
    /\ asked \subseteq Ids
    /\ boots \in Nat
    /\ faults \in Nat

-----------------------------------------------------------------------------
Alive   == srv # "down"
Serving == srv \in {"up", "stopping"}     \* the listener still accepts
Holders == {c \in Clients : pc[c] \in {"made", "saved"}}
MuFree  == Holders = {}
TokenFree == \A c \in Clients : pc[c] = "idle"
InRun   == wpc \in {"native", "export", "done"}

Init ==
    /\ srv = "up" /\ boots = 0 /\ faults = 0
    /\ pc = [c \in Clients |-> "idle"]
    /\ target = [c \in Clients |-> None]
    /\ jobs = [id \in Ids |-> "absent"]
    /\ disk = [id \in Ids |-> "none"]
    /\ queue = <<>>
    /\ wpc = "select" /\ wid = None /\ ctx = "live" /\ werr = "none"
    /\ current = None
    /\ asked = {}

\* a.save(j): the whole file is replaced by a rename, or the write fails and
\* the previous file stays.
Save(id, state) ==
    \/ /\ disk' = [disk EXCEPT ![id] = state]
       /\ UNCHANGED faults
    \/ /\ faults < MaxFaults
       /\ faults' = faults + 1
       /\ UNCHANGED disk

-----------------------------------------------------------------------------
(* POST /api/jobs and POST /api/object-jobs                                *)

\* The upload token is taken without waiting; a handler that finds it held
\* replies 429 and changes nothing.
BeginSubmit(c) ==
    /\ Serving
    /\ TokenFree
    /\ pc' = [pc EXCEPT ![c] = "decoding"]
    /\ UNCHANGED <<server, target, jobs, disk, queue, worker, current, asked>>

\* Unusable upload, or any admission check that fails: reply and release.
RejectSubmit(c) ==
    /\ Alive
    /\ pc[c] = "decoding"
    /\ pc' = [pc EXCEPT ![c] = "idle"]
    /\ UNCHANGED <<server, target, jobs, disk, queue, worker, current, asked>>

\* Mutant: one job too many.
OneTooMany ==
    /\ Cardinality({id \in Ids : jobs[id] # "absent"}) < MaxJobs
    /\ Len(queue) <= QueueCap

Admissible ==
    /\ Cardinality({id \in Ids : jobs[id] # "absent"}) < MaxJobs
    /\ Len(queue) < QueueCap

\* Under a.mu: history and queue limits, a fresh name, os.Mkdir.  The storage
\* check of the same section is the subject of module StorageBudget.
MakeJobDir(c, id) ==
    /\ Alive
    /\ pc[c] = "decoding"
    /\ MuFree
    /\ Admissible
    /\ disk[id] = "none"
    /\ disk' = [disk EXCEPT ![id] = "bare"]
    /\ target' = [target EXCEPT ![c] = id]
    /\ pc' = [pc EXCEPT ![c] = "made"]
    /\ UNCHANGED <<server, jobs, queue, worker, current, asked>>

SaveNewJob(c) ==
    /\ Alive
    /\ pc[c] = "made"
    /\ disk' = [disk EXCEPT ![target[c]] = "queued"]
    /\ pc' = [pc EXCEPT ![c] = "saved"]
    /\ UNCHANGED <<server, target, jobs, queue, worker, current, asked>>

\* One of the writes fails: the deferred RemoveAll takes the directory away.
AbandonJobDir(c) ==
    /\ Alive
    /\ pc[c] = "made"
    /\ faults < MaxFaults
    /\ faults' = faults + 1
    /\ disk' = [disk EXCEPT ![target[c]] = "none"]
    /\ pc' = [pc EXCEPT ![c] = "idle"]
    /\ target' = [target EXCEPT ![c] = None]
    /\ UNCHANGED <<srv, boots, jobs, queue, worker, current, asked>>

\* a.jobs[id] = j; a.queue <- id.  The send blocks while the channel is full,
\* with a.mu held: NeverBlocksUnderMu says it never has to.
Enqueue(c) ==
    /\ Alive
    /\ pc[c] = "saved"
    /\ Len(queue) < QueueCap
    /\ jobs' = [jobs EXCEPT ![target[c]] = "queued"]
    /\ queue' = Append(queue, target[c])
    /\ pc' = [pc EXCEPT ![c] = "idle"]
    /\ target' = [target EXCEPT ![c] = None]
    /\ UNCHANGED <<server, disk, worker, current, asked>>

-----------------------------------------------------------------------------
(* DELETE /api/jobs/{id}                                                   *)

\* A waiting job is only marked: its identifier stays in the channel.
CancelQueued(id) ==
    /\ Alive
    /\ MuFree
    /\ jobs[id] = "queued"
    /\ jobs' = [jobs EXCEPT ![id] = "cancelled"]
    /\ Save(id, "cancelled")
    /\ asked' = asked \cup {id}
    /\ UNCHANGED <<srv, boots, handler, queue, worker, current>>

\* a.cancel() of the run in progress.
CancelRunning(id) ==
    /\ Alive
    /\ MuFree
    /\ jobs[id] # "queued"
    /\ current = id
    /\ ctx' = IF ctx = "live" THEN "canceled" ELSE ctx
    /\ asked' = asked \cup {id}
    /\ UNCHANGED <<server, handler, jobs, disk, queue, wpc, wid, werr, current>>

-----------------------------------------------------------------------------
(* The queue consumer, app.worker                                          *)

\* Mutant: the newest job first.
ReceiveNewest ==
    /\ Alive
    /\ wpc = "select"
    /\ queue # <<>>
    /\ wid' = queue[Len(queue)]
    /\ queue' = SubSeq(queue, 1, Len(queue) - 1)
    /\ wpc' = "received"
    /\ UNCHANGED <<server, handler, jobs, disk, current, ctx, werr, asked>>

\* case id := <-a.queue: the channel is read before a.mu is taken.
Receive ==
    /\ Alive
    /\ wpc = "select"
    /\ queue # <<>>
    /\ wid' = Head(queue)
    /\ queue' = Tail(queue)
    /\ wpc' = "received"
    /\ UNCHANGED <<server, handler, jobs, disk, current, ctx, werr, asked>>

\* A job cancelled while it waited is dropped.
SkipJob ==
    /\ Alive
    /\ wpc = "received"
    /\ MuFree
    /\ jobs[wid] # "queued"
    /\ wpc' = "select"
    /\ wid' = None
    /\ UNCHANGED <<server, handler, jobs, disk, queue, current, ctx, werr, asked>>

\* Mutant: the State is not looked at again after the channel read.
StartAnyJob ==
    /\ Alive /\ MuFree
    /\ wpc = "received"
    /\ current' = wid
    /\ ctx' = IF srv = "up" THEN "live" ELSE "canceled"
    /\ jobs' = [jobs EXCEPT ![wid] = "running"]
    /\ Save(wid, "running")
    /\ wpc' = "native" /\ werr' = "none"
    /\ UNCHANGED <<srv, boots, handler, queue, wid, asked>>

\* The run's context descends from the server's: it is born cancelled when
\* the server is already stopping.  The result of this save is ignored.
StartJob ==
    /\ Alive
    /\ wpc = "received"
    /\ MuFree
    /\ jobs[wid] = "queued"
    /\ current' = wid
    /\ ctx' = IF srv = "up" THEN "live" ELSE "canceled"
    /\ jobs' = [jobs EXCEPT ![wid] = "running"]
    /\ Save(wid, "running")
    /\ wpc' = "native"
    /\ werr' = "none"
    /\ UNCHANGED <<srv, boots, handler, queue, wid, asked>>

\* app.stage: a progress message rewrites job.json.
Stage ==
    /\ Alive
    /\ wpc \in {"native", "export"}
    /\ MuFree
    /\ Save(wid, jobs[wid])
    /\ UNCHANGED <<srv, boots, handler, jobs, queue, worker, current, asked>>

Timeout ==
    /\ Alive
    /\ InRun
    /\ ctx = "live"
    /\ ctx' = "deadline"
    /\ UNCHANGED <<server, handler, jobs, disk, queue, wpc, wid, werr, current, asked>>

\* The native process ended well; a select that also sees ctx.Done may still
\* choose this branch.
NativeOk ==
    /\ Alive
    /\ wpc = "native"
    /\ wpc' = "export"
    /\ UNCHANGED <<server, handler, jobs, disk, queue, wid, ctx, werr, current, asked>>

NativeFails ==
    /\ Alive
    /\ wpc = "native"
    /\ wpc' = "done"
    /\ werr' = "error"
    /\ UNCHANGED <<server, handler, jobs, disk, queue, wid, ctx, current, asked>>

\* Mutants: only one of the two ways a context ends is noticed.
StoppedByCancel ==
    /\ Alive
    /\ wpc = "native"
    /\ ctx = "canceled"
    /\ wpc' = "done" /\ werr' = ctx
    /\ UNCHANGED <<server, handler, jobs, disk, queue, wid, ctx, current, asked>>

StoppedByDeadline ==
    /\ Alive
    /\ wpc = "native"
    /\ ctx = "deadline"
    /\ wpc' = "done" /\ werr' = ctx
    /\ UNCHANGED <<server, handler, jobs, disk, queue, wid, ctx, current, asked>>

\* case <-ctx.Done(): the process is killed and reaped, ctx.Err() returned.
NativeStopped ==
    /\ Alive
    /\ wpc = "native"
    /\ ctx # "live"
    /\ wpc' = "done"
    /\ werr' = ctx
    /\ UNCHANGED <<server, handler, jobs, disk, queue, wid, ctx, current, asked>>

\* Mutant: run itself saves the job as complete, before the consumer records it.
ExportSavesComplete ==
    /\ Alive /\ MuFree
    /\ wpc = "export"
    /\ wpc' = "done"
    /\ disk' = [disk EXCEPT ![wid] = "complete"]
    /\ UNCHANGED <<server, handler, jobs, queue, wid, ctx, werr, current, asked>>

\* Validation and export no longer look at the context.  The hashes are
\* stored under a.mu.
ExportOk ==
    /\ Alive
    /\ wpc = "export"
    /\ MuFree
    /\ wpc' = "done"
    /\ UNCHANGED <<server, handler, jobs, disk, queue, wid, ctx, werr, current, asked>>

ExportFails ==
    /\ Alive
    /\ wpc = "export"
    /\ wpc' = "done"
    /\ werr' = "error"
    /\ UNCHANGED <<server, handler, jobs, disk, queue, wid, ctx, current, asked>>

\* Mutant: any context error counts as a cancellation.
OutcomeAnyContext(e) ==
    CASE e = "none" -> "complete" [] e = "error" -> "failed" [] OTHER -> "cancelled"

Outcome(e) ==
    CASE e = "none"     -> "complete"
      [] e = "canceled" -> "cancelled"
      [] OTHER          -> "failed"

\* A failed save is only logged.
FinishJob ==
    /\ Alive
    /\ wpc = "done"
    /\ MuFree
    /\ jobs' = [jobs EXCEPT ![wid] = Outcome(werr)]
    /\ Save(wid, Outcome(werr))
    /\ current' = None
    /\ wpc' = "select"
    /\ wid' = None
    /\ UNCHANGED <<srv, boots, handler, queue, ctx, werr, asked>>

\* case <-ctx.Done() of the consumer's own select.
WorkerExit ==
    /\ srv \in {"stopping", "closed"}
    /\ wpc = "select"
    /\ wpc' = "off"
    /\ UNCHANGED <<server, handler, jobs, disk, queue, wid, ctx, werr, current, asked>>

-----------------------------------------------------------------------------
(* The process                                                             *)

\* SIGINT or SIGTERM cancels the server's context and the run below it.
Signal ==
    /\ srv = "up"
    /\ srv' = "stopping"
    /\ ctx' = IF InRun /\ ctx = "live" THEN "canceled" ELSE ctx
    /\ UNCHANGED <<boots, faults, handler, jobs, disk, queue, wpc, wid, werr, current, asked>>

\* server.Shutdown: ListenAndServe returns at once and main only waits for
\* the queue consumer, not for handlers that are still running.
CloseListener ==
    /\ srv = "stopping"
    /\ srv' = "closed"
    /\ UNCHANGED <<boots, faults, handler, jobs, disk, queue, worker, current, asked>>

MemoryLost ==
    /\ srv' = "down"
    /\ pc' = [c \in Clients |-> "idle"]
    /\ target' = [c \in Clients |-> None]
    /\ jobs' = [id \in Ids |-> "absent"]
    /\ queue' = <<>>
    /\ wpc' = "off" /\ wid' = None /\ ctx' = "live" /\ werr' = "none"
    /\ current' = None
    /\ UNCHANGED <<disk, asked, boots, faults>>

Exit ==
    /\ srv = "closed"
    /\ wpc = "off"
    /\ MemoryLost

Crash ==
    /\ Alive
    /\ boots < MaxBoots
    /\ MemoryLost

\* Mutant: only running jobs are seen as interrupted.
LoadedRunningOnly(state) == IF state = "running" THEN "failed" ELSE state

\* loadApp: a job saved as queued or running becomes "failed" (Interrupted)
\* in memory and on disk; a directory without a readable job.json is an error.
Loaded(state) == IF state \in Active THEN "failed" ELSE state
Loadable == \A id \in Ids : disk[id] # "bare"

Boot ==
    /\ srv = "down"
    /\ boots < MaxBoots
    /\ Loadable
    /\ boots' = boots + 1
    /\ srv' = "up"
    /\ disk' = [id \in Ids |-> Loaded(disk[id])]
    /\ jobs' = [id \in Ids |-> IF disk[id] = "none" THEN "absent" ELSE Loaded(disk[id])]
    /\ wpc' = "select"
    /\ UNCHANGED <<faults, handler, queue, wid, current, ctx, werr, asked>>

\* Loading stops at the first error: the directories read before it (S) have
\* been rewritten, the server does not start.
BootFails(S) ==
    /\ srv = "down"
    /\ boots < MaxBoots
    /\ \/ ~Loadable /\ UNCHANGED faults
       \/ faults < MaxFaults /\ faults' = faults + 1
    /\ disk' = [id \in Ids |-> IF id \in S THEN Loaded(disk[id]) ELSE disk[id]]
    /\ UNCHANGED <<srv, boots, handler, jobs, queue, worker, current, asked>>

-----------------------------------------------------------------------------
Submit == \E c \in Clients :
    \/ BeginSubmit(c)
    \/ RejectSubmit(c)
    \/ \E id \in Ids : MakeJobDir(c, id)
    \/ SaveNewJob(c)
    \/ AbandonJobDir(c)
    \/ Enqueue(c)

Cancel == \E id \in Ids : CancelQueued(id) \/ CancelRunning(id)

Run == NativeOk \/ NativeFails \/ NativeStopped \/ ExportOk \/ ExportFails

Consume == Receive \/ SkipJob \/ StartJob \/ Run \/ FinishJob \/ WorkerExit

Lifetime ==
    \/ Signal \/ CloseListener \/ Exit \/ Crash \/ Boot
    \/ \E S \in SUBSET Ids : BootFails(S)

Next == Submit \/ Cancel \/ Consume \/ Stage \/ Timeout \/ Lifetime

Spec == Init /\ [][Next]_vars

\* The Go scheduler runs every runnable goroutine: the consumer's step, the
\* steps of a handler that holds a.mu, the job timer and main after a signal.
\* Requests, signals and crashes are not fair.
Fairness ==
    /\ WF_vars(Receive) /\ WF_vars(SkipJob \/ StartJob)
    /\ WF_vars(Timeout) /\ WF_vars(NativeStopped)
    /\ WF_vars(ExportOk \/ ExportFails) /\ WF_vars(FinishJob)
    /\ WF_vars(WorkerExit) /\ WF_vars(CloseListener) /\ WF_vars(Exit)
    /\ \A c \in Clients : WF_vars(SaveNewJob(c)) /\ WF_vars(Enqueue(c))

FairSpec == Spec /\ Fairness

-----------------------------------------------------------------------------
(* Properties                                                              *)

\* An admitted job that still waits is in the channel, or in the consumer's
\* hands between the channel read and a.mu, exactly once: no cancellation,
\* restart or failed write loses it or runs it twice (app.submit, app.worker).
Waiting == (IF wpc = "received" THEN <<wid>> ELSE <<>>) \o queue
EachWaitsOnce ==
    /\ \A id \in Ids : jobs[id] = "queued" => \E i \in DOMAIN Waiting : Waiting[i] = id
    /\ \A i, j \in DOMAIN Waiting : Waiting[i] = Waiting[j] => i = j
    /\ \A i \in DOMAIN Waiting : jobs[Waiting[i]] \in {"queued", "cancelled"}

\* The job that a DELETE can reach through a.current / a.cancel is the one
\* running, and there is at most one (README "one queue consumer").
RunningIsCurrent ==
    /\ \A id \in Ids : jobs[id] = "running" <=> current = id
    /\ InRun => current = wid

\* `a.queue <- id` is executed with a.mu held.  If it ever had to wait, the
\* consumer could not take a.mu to make room: the whole server would stop.
NeverBlocksUnderMu ==
    \A c \in Clients : pc[c] \in {"made", "saved"} => Len(queue) < QueueCap

\* While the server runs, a job that reached a final state keeps it: a job
\* cancelled in the queue never starts, a finished one is never cancelled.
TerminalIsFinal ==
    [][\A id \in Ids : (jobs[id] \in Terminal /\ Alive') => jobs'[id] = jobs[id]]_vars

\* With no failed write, what a restart will find is what clients were told:
\* outside the critical sections job.json agrees with the State in memory.
DiskMatchesMemory ==
    (faults = 0 /\ Alive /\ MuFree) =>
        \A id \in Ids : disk[id] = IF jobs[id] = "absent" THEN "none" ELSE jobs[id]

\* A failed write may lose the final state of a job across a restart, but it
\* never invents one: what is saved as complete was completed, and what is
\* saved as waiting has not run to completion on a different record.
DiskNeverAhead ==
    Alive => \A id \in Ids : (disk[id] \in Terminal) => disk[id] = jobs[id]

\* job.json and a.jobs are written one after the other by handlers and the
\* consumer, and any save may fail: a restart finds what clients were told as
\* long as no save failed, and never an outcome that was not reached.
DiskFollowsMemory == DiskMatchesMemory /\ DiskNeverAhead

\* A job is reported cancelled only when somebody asked for that job, or the
\* server was told to stop: the stored cancel function never hits another job.
CancelHitsItsJob ==
    \A id \in Ids : (jobs[id] = "cancelled" /\ srv = "up" /\ boots = 0) => id \in asked

\* Every admitted job reaches a final state or the process ends: the timeout
\* bounds the native run, the consumer always comes back to its select.
EveryJobEnds ==
    \A id \in Ids : jobs[id] \in Active ~> (jobs[id] \in Terminal \/ srv = "down")

\* After a signal the process ends: no handler or job keeps main waiting.
StopEnds == srv = "stopping" ~> srv = "down"
=============================================================================
