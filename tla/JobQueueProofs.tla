--------------------------- MODULE JobQueueProofs ---------------------------
(***************************************************************************)
(* Proofs about JobQueue for any number of jobs, handlers, queue slots,    *)
(* restarts and failing writes.                                            *)
(*                                                                         *)
(* TypeOK is not inductive by itself: that Enqueue puts an identifier and  *)
(* not None into the queue depends on where the handler is.  Inv adds what *)
(* the two locks give: one handler between upload token and enqueue, room  *)
(* in the queue for it as long as it holds a.mu, and a job that runs       *)
(* exactly while it is a.current.                                          *)
(***************************************************************************)
EXTENDS JobQueueRefinement, TLAPS

OneHolder == \A c, d \in Clients : pc[c] # "idle" /\ pc[d] # "idle" => c = d

HolderReady == \A c \in Clients : pc[c] \in {"made", "saved"} =>
    /\ target[c] \in Ids
    /\ jobs[target[c]] = "absent"
    /\ disk[target[c]] # "none"

JobInHand ==
    /\ wpc \notin {"off", "select"} => wid \in Ids
    /\ current = IF InRun THEN wid ELSE None

OnDisk == \A id \in Ids : jobs[id] # "absent" => disk[id] # "none"

DownIsEmpty == srv = "down" =>
    /\ \A c \in Clients : pc[c] = "idle"
    /\ queue = <<>>
    /\ wpc = "off"
    /\ \A id \in Ids : jobs[id] = "absent"

Inv ==
    /\ TypeOK
    /\ OneHolder
    /\ HolderReady
    /\ NeverBlocksUnderMu
    /\ JobInHand
    /\ RunningIsCurrent
    /\ OnDisk
    /\ DownIsEmpty

-----------------------------------------------------------------------------
(* The inductive invariant, one lemma per group of actions                 *)

\* A new job passes from the upload token through a.mu into the queue.
LEMMA SubmitKeepsInv == Inv /\ Submit => Inv'
<1>. SUFFICES ASSUME Inv, NEW c \in Clients,
                     \/ BeginSubmit(c) \/ RejectSubmit(c)
                     \/ \E id \in Ids : MakeJobDir(c, id)
                     \/ SaveNewJob(c) \/ AbandonJobDir(c) \/ Enqueue(c)
              PROVE  Inv'
  BY DEF Submit
<1>. USE QueueAssumption
     DEF Inv, TypeOK, OneHolder, HolderReady, NeverBlocksUnderMu, JobInHand,
         RunningIsCurrent, OnDisk, DownIsEmpty, Alive, Serving, InRun,
         JobStates, Active, Terminal, server, handler, worker
<1>1. CASE BeginSubmit(c) \/ RejectSubmit(c)
  BY <1>1 DEF BeginSubmit, RejectSubmit, TokenFree
<1>2. CASE \E id \in Ids : MakeJobDir(c, id)
  <2>. PICK id \in Ids : MakeJobDir(c, id)
    BY <1>2
  <2>1. jobs[id] = "absent" /\ Len(queue) < QueueCap
    BY DEF MakeJobDir, Admissible
  <2>. QED  BY <2>1 DEF MakeJobDir
<1>3. CASE SaveNewJob(c)
  BY <1>3 DEF SaveNewJob
<1>4. CASE AbandonJobDir(c)
  BY <1>4 DEF AbandonJobDir
<1>5. CASE Enqueue(c)
  <2>1. target[c] \in Ids /\ jobs[target[c]] = "absent" /\ srv # "down"
    BY <1>5 DEF Enqueue
  <2>2. TypeOK'
    BY <1>5, <2>1 DEF Enqueue
  <2>3. \A d \in Clients : pc'[d] = "idle"
    BY <1>5 DEF Enqueue
  <2>4. OneHolder' /\ HolderReady' /\ NeverBlocksUnderMu'
    BY <2>3
  <2>5. JobInHand' /\ RunningIsCurrent' /\ OnDisk' /\ DownIsEmpty'
    BY <1>5, <2>1 DEF Enqueue
  <2>. QED  BY <2>2, <2>4, <2>5
<1>. QED  BY <1>1, <1>2, <1>3, <1>4, <1>5

\* DELETE touches only a waiting job or the context of the current one.
LEMMA CancelKeepsInv == Inv /\ Cancel => Inv'
<1>. SUFFICES ASSUME Inv, NEW id \in Ids, CancelQueued(id) \/ CancelRunning(id)
              PROVE  Inv'
  BY DEF Cancel
<1>. USE QueueAssumption
     DEF Inv, TypeOK, OneHolder, HolderReady, NeverBlocksUnderMu, JobInHand,
         RunningIsCurrent, OnDisk, DownIsEmpty, Alive, InRun,
         JobStates, Active, Terminal, server, handler, worker
<1>1. CASE CancelQueued(id)
  <2>1. TypeOK'
    BY <1>1 DEF CancelQueued, Save
  <2>2. OneHolder' /\ HolderReady' /\ NeverBlocksUnderMu'
    BY <1>1 DEF CancelQueued, MuFree, Holders
  <2>3. JobInHand' /\ RunningIsCurrent' /\ OnDisk' /\ DownIsEmpty'
    BY <1>1 DEF CancelQueued, Save
  <2>. QED  BY <2>1, <2>2, <2>3
<1>2. CASE CancelRunning(id)
  BY <1>2 DEF CancelRunning
<1>. QED  BY <1>1, <1>2

\* The consumer takes a job, runs it and records its outcome.
LEMMA ConsumeKeepsInv == Inv /\ (Consume \/ Stage \/ Timeout) => Inv'
<1>. SUFFICES ASSUME Inv, Consume \/ Stage \/ Timeout PROVE Inv'
  OBVIOUS
<1>. USE QueueAssumption
     DEF Inv, TypeOK, OneHolder, HolderReady, NeverBlocksUnderMu, JobInHand,
         RunningIsCurrent, OnDisk, DownIsEmpty, Alive, InRun,
         JobStates, Active, Terminal, server, handler, worker
<1>1. CASE Receive
  <2>1. Head(queue) \in Ids /\ Tail(queue) \in Seq(Ids) /\ Len(Tail(queue)) < Len(queue)
    BY <1>1 DEF Receive
  <2>. QED  BY <1>1, <2>1 DEF Receive
<1>2. CASE SkipJob \/ WorkerExit
  BY <1>2 DEF SkipJob, WorkerExit
<1>3. CASE StartJob
  BY <1>3 DEF StartJob, Save, MuFree, Holders
<1>4. CASE Run
  BY <1>4 DEF Run, NativeOk, NativeFails, NativeStopped, ExportOk, ExportFails
<1>5. CASE FinishJob
  <2>1. Outcome(werr) \in Terminal
    BY DEF Outcome
  <2>. QED  BY <1>5, <2>1 DEF FinishJob, Save, MuFree, Holders
<1>6. CASE Stage
  BY <1>6 DEF Stage, Save, MuFree, Holders
<1>7. CASE Timeout
  BY <1>7 DEF Timeout
<1>. QED  BY <1>1, <1>2, <1>3, <1>4, <1>5, <1>6, <1>7 DEF Consume

\* Signals, exits and crashes clear the memory; a start fills it from DATA.
LEMMA LifetimeKeepsInv == Inv /\ Lifetime => Inv'
<1>. SUFFICES ASSUME Inv, Lifetime PROVE Inv'
  OBVIOUS
<1>. USE QueueAssumption
     DEF Inv, TypeOK, OneHolder, HolderReady, NeverBlocksUnderMu, JobInHand,
         RunningIsCurrent, OnDisk, DownIsEmpty, Alive, InRun,
         JobStates, Active, Terminal, server, handler, worker
<1>1. CASE Signal \/ CloseListener
  BY <1>1 DEF Signal, CloseListener
<1>2. CASE Exit \/ Crash
  <2>. USE <1>2 DEF Exit, Crash, MemoryLost
  <2>1. TypeOK'
    <3>1. queue' = <<>>
      OBVIOUS
    <3>2. queue' \in Seq(Ids)
      BY ONLY <3>1
    <3>. QED  BY <3>2
  <2>2. OneHolder' /\ HolderReady' /\ NeverBlocksUnderMu'
    OBVIOUS
  <2>3. JobInHand' /\ RunningIsCurrent' /\ OnDisk' /\ DownIsEmpty'
    OBVIOUS
  <2>. QED  BY <2>1, <2>2, <2>3
<1>3. CASE Boot
  BY <1>3 DEF Boot, Loadable, Loaded
<1>4. CASE \E S \in SUBSET Ids : BootFails(S)
  BY <1>4 DEF BootFails, Loaded
<1>. QED  BY <1>1, <1>2, <1>3, <1>4 DEF Lifetime

\* Inv holds in every reachable state.
LEMMA Invariance == Spec => []Inv
<1>1. Init => Inv
  BY QueueAssumption DEF Init, Inv, TypeOK, OneHolder, HolderReady,
     NeverBlocksUnderMu, JobInHand, RunningIsCurrent, OnDisk, DownIsEmpty,
     InRun, JobStates, Active, Terminal
<1>2. Inv /\ UNCHANGED vars => Inv'
  BY DEF vars, Inv, TypeOK, OneHolder, HolderReady, NeverBlocksUnderMu,
     JobInHand, RunningIsCurrent, OnDisk, DownIsEmpty, InRun
<1>3. Inv /\ [Next]_vars => Inv'
  BY <1>2, SubmitKeepsInv, CancelKeepsInv, ConsumeKeepsInv, LifetimeKeepsInv
     DEF Next
<1>. QED  BY <1>1, <1>3, PTL DEF Spec

-----------------------------------------------------------------------------
(* Theorems                                                                *)

\* Every variable of the server stays in its type: app.submit, app.worker,
\* DELETE and loadApp store only known states and real identifiers.
THEOREM TypeCorrect == Spec => []TypeOK
<1>1. Inv => TypeOK
  BY DEF Inv
<1>. QED  BY <1>1, Invariance, PTL

\* app.submit never has to wait at `a.queue <- id` with a.mu held, for any
\* queue capacity and number of handlers.
THEOREM SendNeverBlocks == Spec => []NeverBlocksUnderMu
<1>1. Inv => NeverBlocksUnderMu
  BY DEF Inv
<1>. QED  BY <1>1, Invariance, PTL

\* At most one job runs, and a.current / a.cancel name it.
THEOREM CancelReachesTheRunningJob == Spec => []RunningIsCurrent
<1>1. Inv => RunningIsCurrent
  BY DEF Inv
<1>. QED  BY <1>1, Invariance, PTL

\* A final state is final until the process ends: DELETE, the consumer and
\* the submit handlers only ever change jobs that are absent or unfinished.
THEOREM FinalStatesStay == Spec => TerminalIsFinal
<1>. DEFINE Stays == \A id \in Ids :
                (jobs[id] \in Terminal /\ Alive') => jobs'[id] = jobs[id]
<1>1. Inv /\ [Next]_vars => [Stays]_vars
  <2>. SUFFICES ASSUME Inv, Next, NEW id \in Ids, jobs[id] \in Terminal, Alive'
                PROVE  jobs'[id] = jobs[id]
    OBVIOUS
  <2>. USE DEF Terminal, server, handler, worker, Inv, TypeOK
  <2>1. CASE Submit
    BY <2>1 DEF Submit, BeginSubmit, RejectSubmit, MakeJobDir, SaveNewJob,
                AbandonJobDir, Enqueue, HolderReady
  <2>2. CASE Cancel
    BY <2>2 DEF Cancel, CancelQueued, CancelRunning
  <2>3. CASE Consume
    <3>1. CASE Receive \/ SkipJob \/ Run \/ WorkerExit
      BY <3>1 DEF Receive, SkipJob, WorkerExit, Run, NativeOk, NativeFails,
                  NativeStopped, ExportOk, ExportFails
    <3>2. CASE StartJob
      BY <3>2 DEF StartJob
    <3>3. CASE FinishJob
      BY <3>3 DEF FinishJob, JobInHand, RunningIsCurrent, InRun
    <3>. QED  BY <2>3, <3>1, <3>2, <3>3 DEF Consume
  <2>4. CASE Stage \/ Timeout
    BY <2>4 DEF Stage, Timeout
  <2>5. CASE Lifetime
    <3>1. srv # "down"
      BY DEF DownIsEmpty
    <3>2. CASE Signal \/ CloseListener
      BY <3>2 DEF Signal, CloseListener
    <3>. QED  BY <2>5, <3>1, <3>2 DEF Lifetime, Exit, Crash, MemoryLost, Boot, BootFails, Alive
  <2>. QED  BY <2>1, <2>2, <2>3, <2>4, <2>5 DEF Next
<1>. QED  BY <1>1, Invariance, PTL DEF Spec, TerminalIsFinal

-----------------------------------------------------------------------------
(* The queue holds every waiting job exactly once                          *)

\* EachWaitsOnce in terms of the channel and of the identifier in the
\* consumer's hands, without the concatenation.
InChannel ==
    /\ \A id \in Ids : jobs[id] = "queued" =>
          \/ wpc = "received" /\ wid = id
          \/ \E i \in 1..Len(queue) : queue[i] = id
    /\ \A i, j \in 1..Len(queue) : queue[i] = queue[j] => i = j
    /\ \A i \in 1..Len(queue) : jobs[queue[i]] \in {"queued", "cancelled"}
    /\ wpc = "received" =>
          /\ jobs[wid] \in {"queued", "cancelled"}
          /\ \A i \in 1..Len(queue) : queue[i] # wid

\* InChannel follows a job from Enqueue to StartJob or SkipJob.
LEMMA InChannelInduction == Inv /\ InChannel /\ [Next]_vars => InChannel'
<1>. SUFFICES ASSUME Inv, InChannel, [Next]_vars PROVE InChannel'
  OBVIOUS
<1>. USE QueueAssumption DEF InChannel, Inv, TypeOK, server, handler, worker
<1>1. ASSUME NEW c \in Clients, Enqueue(c) PROVE InChannel'
  <2>1. target[c] \in Ids /\ jobs[target[c]] = "absent"
    BY <1>1 DEF Enqueue, HolderReady
  <2>2. /\ queue' = Append(queue, target[c]) /\ Len(queue') = Len(queue) + 1
        /\ queue'[Len(queue) + 1] = target[c]
        /\ \A i \in 1..Len(queue) : queue'[i] = queue[i]
    BY <1>1, <2>1 DEF Enqueue
  <2>3. \A i \in 1..Len(queue) : queue[i] \in Ids /\ queue[i] # target[c]
    BY <2>1
  <2>4. jobs' = [jobs EXCEPT ![target[c]] = "queued"] /\ wpc' = wpc /\ wid' = wid
    BY <1>1 DEF Enqueue
  <2>5. wpc = "received" => wid \in Ids /\ wid # target[c]
    BY <2>1 DEF JobInHand
  <2>. HIDE <1>1 DEF Inv, TypeOK, server, handler, worker
  <2>6. jobs \in [Ids -> JobStates \cup {"absent"}] /\ Len(queue) \in Nat
    BY DEF Inv, TypeOK
  <2>7. \A id \in Ids : jobs'[id] = "queued" =>
          \/ wpc' = "received" /\ wid' = id
          \/ \E i \in 1..Len(queue') : queue'[i] = id
    BY <2>1, <2>2, <2>4, <2>6
  <2>8. \A i, j \in 1..Len(queue') : queue'[i] = queue'[j] => i = j
    BY <2>2, <2>3, <2>6
  <2>9. \A i \in 1..Len(queue') : jobs'[queue'[i]] \in {"queued", "cancelled"}
    BY <2>1, <2>2, <2>3, <2>4, <2>6
  <2>10. wpc' = "received" =>
          /\ jobs'[wid'] \in {"queued", "cancelled"}
          /\ \A i \in 1..Len(queue') : queue'[i] # wid'
    BY <2>1, <2>2, <2>4, <2>5, <2>6
  <2>. QED  BY <2>7, <2>8, <2>9, <2>10
<1>2. CASE Receive
  <2>1. /\ wpc # "received" /\ wpc' = "received" /\ jobs' = jobs /\ wid' = queue[1]
        /\ Len(queue) > 0 /\ Len(queue') = Len(queue) - 1
        /\ \A i \in 1..Len(queue') : queue'[i] = queue[i + 1]
    BY <1>2 DEF Receive
  <2>2. \A i \in 1..Len(queue) : i = 1 \/ (i - 1 \in 1..Len(queue') /\ queue[i] = queue'[i - 1])
    BY <2>1
  <2>3. \A id \in Ids : jobs[id] = "queued" =>
          wid' = id \/ \E i \in 1..Len(queue') : queue'[i] = id
    <3>. SUFFICES ASSUME NEW id \in Ids, jobs[id] = "queued", wid' # id
                  PROVE  \E i \in 1..Len(queue') : queue'[i] = id
      OBVIOUS
    <3>1. PICK i \in 1..Len(queue) : queue[i] = id
      BY <2>1
    <3>2. i - 1 \in 1..Len(queue') /\ queue'[i - 1] = id
      BY <2>1, <2>2, <3>1
    <3>. QED  BY <3>2
  <2>4. \A i, j \in 1..Len(queue') : queue'[i] = queue'[j] => i = j
    <3>. TAKE i, j \in 1..Len(queue')
    <3>1. i + 1 \in 1..Len(queue) /\ j + 1 \in 1..Len(queue)
      BY <2>1
    <3>2. queue[i + 1] = queue[j + 1] => i + 1 = j + 1
      BY <3>1
    <3>3. queue'[i] = queue[i + 1] /\ queue'[j] = queue[j + 1]
      BY <2>1
    <3>4. i \in Nat /\ j \in Nat
      OBVIOUS
    <3>. HIDE DEF Inv, InChannel, TypeOK
    <3>. QED  BY <3>2, <3>3, <3>4
  <2>5. \A i \in 1..Len(queue') :
          jobs[queue'[i]] \in {"queued", "cancelled"} /\ queue'[i] # wid'
    <3>. TAKE i \in 1..Len(queue')
    <3>1. i \in Nat /\ i + 1 \in 1..Len(queue) /\ 1 \in 1..Len(queue) /\ i + 1 # 1
      BY <2>1
    <3>2. queue'[i] = queue[i + 1]
      BY <2>1
    <3>3. queue[i + 1] # queue[1] /\ jobs[queue[i + 1]] \in {"queued", "cancelled"}
      BY <3>1
    <3>. QED  BY <2>1, <3>2, <3>3
  <2>6. jobs[wid'] \in {"queued", "cancelled"}
    BY <2>1
  <2>. QED  BY <2>1, <2>3, <2>4, <2>5, <2>6
<1>3. CASE StartJob
  <2>1. \A i \in 1..Len(queue) : queue[i] \in Ids /\ queue[i] # wid
    BY <1>3 DEF StartJob
  <2>. QED  BY <1>3, <2>1 DEF StartJob
<1>4. CASE SkipJob \/ Run \/ WorkerExit
  BY <1>4 DEF SkipJob, WorkerExit, Run, NativeOk, NativeFails, NativeStopped,
              ExportOk, ExportFails
<1>5. CASE FinishJob
  BY <1>5 DEF FinishJob, JobInHand, RunningIsCurrent, InRun, Outcome
<1>6. CASE Submit
  <2>1. ASSUME NEW c \in Clients, BeginSubmit(c) \/ RejectSubmit(c) \/ SaveNewJob(c)
                                  \/ AbandonJobDir(c) \/ \E id \in Ids : MakeJobDir(c, id)
        PROVE  InChannel'
    BY <2>1 DEF BeginSubmit, RejectSubmit, SaveNewJob, AbandonJobDir, MakeJobDir
  <2>. QED  BY <1>1, <1>6, <2>1 DEF Submit
<1>7. CASE Cancel
  <2>. PICK id \in Ids : CancelQueued(id) \/ CancelRunning(id)
    BY <1>7 DEF Cancel
  <2>1. CASE CancelQueued(id)
    <3>1. \A i \in 1..Len(queue) : queue[i] \in Ids
      OBVIOUS
    <3>2. wpc = "received" => wid \in Ids
      BY DEF JobInHand
    <3>3. \A k \in Ids : jobs'[k] = IF k = id THEN "cancelled" ELSE jobs[k]
      BY <2>1 DEF CancelQueued
    <3>. QED  BY <2>1, <3>1, <3>2, <3>3 DEF CancelQueued
  <2>2. CASE CancelRunning(id)
    BY <2>2 DEF CancelRunning
  <2>. QED  BY <2>1, <2>2
<1>8. CASE Stage \/ Timeout
  BY <1>8 DEF Stage, Timeout
<1>9. CASE Lifetime
  <2>1. CASE Signal \/ CloseListener
    BY <2>1 DEF Signal, CloseListener
  <2>2. CASE Exit \/ Crash
    BY <2>2 DEF Exit, Crash, MemoryLost
  <2>3. CASE Boot
    BY <2>3 DEF Boot, Loaded, Active, DownIsEmpty
  <2>4. CASE \E S \in SUBSET Ids : BootFails(S)
    BY <2>4 DEF BootFails
  <2>. QED  BY <1>9, <2>1, <2>2, <2>3, <2>4 DEF Lifetime
<1>10. CASE UNCHANGED vars
  BY <1>10 DEF vars
<1>. QED  BY <1>2, <1>3, <1>4, <1>5, <1>6, <1>7, <1>8, <1>9, <1>10 DEF Next, Consume

\* No interleaving of submit, DELETE, the consumer, failed writes and
\* restarts loses an accepted job or queues it twice.
THEOREM NoJobLostOrDoubled == Spec => []EachWaitsOnce
<1>1. Init => InChannel
  BY DEF Init, InChannel
<1>2. Inv /\ InChannel => EachWaitsOnce
  <2>. SUFFICES ASSUME Inv, InChannel PROVE EachWaitsOnce
    OBVIOUS
  <2>. USE DEF InChannel, Inv, TypeOK, Waiting, EachWaitsOnce
  <2>1. CASE wpc # "received"
    BY <2>1
  <2>2. CASE wpc = "received"
    <3>1. wid \in Ids
      BY <2>2 DEF JobInHand
    <3>2. /\ Waiting \in Seq(Ids) /\ Len(Waiting) = Len(queue) + 1 /\ Waiting[1] = wid
          /\ \A i \in 1..Len(queue) : Waiting[i + 1] = queue[i]
      BY <2>2, <3>1
    <3>3. \A i \in 1..Len(Waiting) : i = 1 \/ (i - 1 \in 1..Len(queue) /\ Waiting[i] = queue[i - 1])
      BY <3>2
    <3>4. DOMAIN Waiting = 1..Len(Waiting)
      BY <3>2
    <3>. HIDE DEF Waiting
    <3>5. ASSUME NEW id \in Ids, jobs[id] = "queued"
          PROVE  \E i \in DOMAIN Waiting : Waiting[i] = id
      <4>1. CASE wid = id
        BY <4>1, <3>2, <3>4
      <4>2. CASE \E i \in 1..Len(queue) : queue[i] = id
        <5>. PICK i \in 1..Len(queue) : queue[i] = id
          BY <4>2
        <5>. QED  BY <3>2, <3>4
      <4>. QED  BY <3>5, <4>1, <4>2
    <3>6. ASSUME NEW i \in DOMAIN Waiting, NEW j \in DOMAIN Waiting,
                 Waiting[i] = Waiting[j]
          PROVE  i = j
      <4>1. i = 1 <=> Waiting[i] = wid
        BY <2>2, <3>2, <3>3, <3>4
      <4>2. j = 1 <=> Waiting[j] = wid
        BY <2>2, <3>2, <3>3, <3>4
      <4>3. CASE i # 1 /\ j # 1
        <5>1. i - 1 \in 1..Len(queue) /\ j - 1 \in 1..Len(queue)
          BY <4>3, <3>3, <3>4
        <5>2. queue[i - 1] = queue[j - 1]
          BY <4>3, <3>3, <3>4, <3>6
        <5>3. i - 1 = j - 1
          BY <5>1, <5>2
        <5>4. i \in Nat /\ j \in Nat
          BY <3>4, <3>2
        <5>. QED  BY ONLY <5>3, <5>4
      <4>. QED  BY <3>6, <4>1, <4>2, <4>3
    <3>7. ASSUME NEW i \in DOMAIN Waiting
          PROVE  jobs[Waiting[i]] \in {"queued", "cancelled"}
      <4>1. CASE i = 1
        BY <4>1, <2>2, <3>2
      <4>2. CASE i # 1
        BY <4>2, <3>3, <3>4
      <4>. QED  BY <4>1, <4>2
    <3>. QED  BY <3>5, <3>6, <3>7
  <2>. QED  BY <2>1, <2>2
<1>. QED  BY <1>1, <1>2, InChannelInduction, Invariance, PTL DEF Spec

-----------------------------------------------------------------------------
(* What is on disk, and who asked for a cancellation                       *)

\* job.json of a job that is being admitted, and of all the others.
DiskInv ==
    /\ \A c \in Clients : pc[c] = "saved" => disk[target[c]] = "queued"
    /\ DiskNeverAhead
    /\ faults = 0 /\ Alive => \A id \in Ids :
          \/ \E c \in Holders : target[c] = id
          \/ disk[id] = IF jobs[id] = "absent" THEN "none" ELSE jobs[id]

\* A cancelled context, and the error it becomes, go back to a DELETE of the
\* job in the consumer's hands unless the server was told to stop.
AskedInv == srv = "up" /\ boots = 0 =>
    /\ \A id \in Ids : jobs[id] = "cancelled" => id \in asked
    /\ InRun /\ (ctx = "canceled" \/ werr = "canceled") => wid \in asked

LEMMA DiskInduction == Inv /\ DiskInv /\ [Next]_vars => DiskInv'
<1>. SUFFICES ASSUME Inv, DiskInv, [Next]_vars PROVE DiskInv'
  OBVIOUS
<1>. USE QueueAssumption
     DEF Inv, TypeOK, DiskInv, DiskNeverAhead, Alive, Holders, JobStates, Active,
         Terminal, server, handler, worker
<1>1. ASSUME NEW c \in Clients, BeginSubmit(c) \/ RejectSubmit(c) PROVE DiskInv'
  BY <1>1 DEF BeginSubmit, RejectSubmit, TokenFree
<1>2. ASSUME NEW c \in Clients, NEW id \in Ids, MakeJobDir(c, id) PROVE DiskInv'
  BY <1>2 DEF MakeJobDir, OnDisk, MuFree
<1>3. ASSUME NEW c \in Clients, SaveNewJob(c) PROVE DiskInv'
  <2>1. target[c] \in Ids /\ \A d \in Clients : pc'[d] # "idle" => d = c
    BY <1>3 DEF SaveNewJob, HolderReady, OneHolder
  <2>. QED  BY <1>3, <2>1 DEF SaveNewJob
<1>4. ASSUME NEW c \in Clients, AbandonJobDir(c) PROVE DiskInv'
  <2>1. target[c] \in Ids /\ \A d \in Clients : pc'[d] = "idle"
    BY <1>4 DEF AbandonJobDir, HolderReady, OneHolder
  <2>2. faults' # 0
    BY <1>4 DEF AbandonJobDir
  <2>. QED  BY <1>4, <2>1, <2>2 DEF AbandonJobDir
<1>5. ASSUME NEW c \in Clients, Enqueue(c) PROVE DiskInv'
  <2>1. /\ target[c] \in Ids /\ jobs[target[c]] = "absent"
        /\ \A d \in Clients : pc'[d] = "idle"
        /\ \A d \in Holders : d = c
    BY <1>5 DEF Enqueue, HolderReady, OneHolder
  <2>. QED  BY <1>5, <2>1 DEF Enqueue
<1>6. CASE Cancel
  <2>. PICK id \in Ids : CancelQueued(id) \/ CancelRunning(id)
    BY <1>6 DEF Cancel
  <2>1. CASE CancelQueued(id)
    BY <2>1 DEF CancelQueued, Save, MuFree
  <2>2. CASE CancelRunning(id)
    BY <2>2 DEF CancelRunning
  <2>. QED  BY <2>1, <2>2
<1>7. CASE Receive \/ SkipJob \/ Run \/ WorkerExit \/ Timeout
  BY <1>7 DEF Receive, SkipJob, Run, NativeOk, NativeFails, NativeStopped,
              ExportOk, ExportFails, WorkerExit, Timeout
<1>8. CASE StartJob
  BY <1>8 DEF StartJob, Save, MuFree, JobInHand
<1>9. CASE FinishJob
  <2>1. wid \in Ids /\ jobs[wid] = "running" /\ Outcome(werr) \in Terminal
    BY <1>9 DEF FinishJob, JobInHand, RunningIsCurrent, InRun, Outcome
  <2>. QED  BY <1>9, <2>1 DEF FinishJob, Save, MuFree
<1>10. CASE Stage
  <2>1. wid \in Ids /\ jobs[wid] = "running"
    BY <1>10 DEF Stage, JobInHand, RunningIsCurrent, InRun
  <2>. QED  BY <1>10, <2>1 DEF Stage, Save, MuFree
<1>11. CASE Lifetime
  BY <1>11 DEF Lifetime, Signal, CloseListener, Exit, Crash, MemoryLost, Boot,
               Loadable, Loaded, BootFails, DownIsEmpty
<1>12. CASE UNCHANGED vars
  BY <1>12 DEF vars
<1>. QED
  BY <1>1, <1>2, <1>3, <1>4, <1>5, <1>6, <1>7, <1>8, <1>9, <1>10, <1>11, <1>12
     DEF Next, Submit, Consume

LEMMA AskedInduction == Inv /\ AskedInv /\ [Next]_vars => AskedInv'
<1>. SUFFICES ASSUME Inv, AskedInv, [Next]_vars PROVE AskedInv'
  OBVIOUS
<1>. USE QueueAssumption
     DEF Inv, TypeOK, AskedInv, Alive, InRun, server, handler, worker
<1>1. CASE Submit
  BY <1>1 DEF Submit, BeginSubmit, RejectSubmit, MakeJobDir, SaveNewJob,
              AbandonJobDir, Enqueue
<1>2. CASE Cancel
  BY <1>2 DEF Cancel, CancelQueued, CancelRunning, JobInHand
<1>3. CASE Receive \/ SkipJob \/ Run \/ WorkerExit \/ Timeout \/ Stage
  BY <1>3 DEF Receive, SkipJob, Run, NativeOk, NativeFails, NativeStopped,
              ExportOk, ExportFails, WorkerExit, Timeout, Stage
<1>4. CASE StartJob
  BY <1>4 DEF StartJob
<1>5. CASE FinishJob
  BY <1>5 DEF FinishJob, Outcome
<1>6. CASE Lifetime
  BY <1>6 DEF Lifetime, Signal, CloseListener, Exit, Crash, MemoryLost, Boot, BootFails
<1>7. CASE UNCHANGED vars
  BY <1>7 DEF vars
<1>. QED  BY <1>1, <1>2, <1>3, <1>4, <1>5, <1>6, <1>7 DEF Next, Consume

\* A job saved in a final state is in that state in memory: no handler or
\* worker step writes an outcome to job.json before it is the job's State.
THEOREM NoOutcomeInvented == Spec => []DiskNeverAhead
<1>1. Init => DiskInv
  BY DEF Init, DiskInv, DiskNeverAhead, Terminal
<1>2. DiskInv => DiskNeverAhead
  BY DEF DiskInv
<1>. QED  BY <1>1, <1>2, DiskInduction, Invariance, PTL DEF Spec

\* While writes succeed, job.json equals the State clients see whenever a.mu
\* is free, so a restart shows what was shown before.
THEOREM DiskAgrees == Spec => []DiskMatchesMemory
<1>1. Init => DiskInv
  BY DEF Init, DiskInv, DiskNeverAhead, Terminal
<1>2. DiskInv => DiskMatchesMemory
  BY DEF DiskInv, DiskMatchesMemory, MuFree
<1>. QED  BY <1>1, <1>2, DiskInduction, Invariance, PTL DEF Spec

\* What the disk says is what memory said: both facts at once.
THEOREM DiskIsMemory == Spec => []DiskFollowsMemory
<1>1. DiskMatchesMemory /\ DiskNeverAhead => DiskFollowsMemory
  BY DEF DiskFollowsMemory
<1>. QED  BY <1>1, DiskAgrees, NoOutcomeInvented, PTL

\* DELETE's a.cancel() never cancels a job other than the one it names.
THEOREM CancelIsExact == Spec => []CancelHitsItsJob
<1>1. Init => AskedInv
  BY DEF Init, AskedInv, InRun
<1>2. AskedInv => CancelHitsItsJob
  BY DEF AskedInv, CancelHitsItsJob
<1>. QED  BY <1>1, <1>2, AskedInduction, Invariance, PTL DEF Spec

-----------------------------------------------------------------------------
(* The refinement of JobLifecycle                                          *)

\* Nothing is ever written without success.
AllSaved == faults = 0

\* What a step of JobQueue is in JobLifecycle: one of its steps or none.
Maps == Lifecycle!Next \/ UNCHANGED <<[id \in Ids |-> Shown(id)], Waiting>>

\* While the process lives the history is a.jobs.
LEMMA ShownAlive ==
    /\ Inv /\ Alive => [id \in Ids |-> Shown(id)] = jobs
    /\ Inv' /\ Alive' => [id \in Ids |-> Shown(id)]' = jobs'
BY DEF Inv, TypeOK, Shown, Alive

\* Steps that change neither a.jobs nor the line: handlers before a.queue <- id,
\* the run of a job, signals.
LEMMA SilentStep ==
    ASSUME Inv, Inv', Alive, Alive', jobs' = jobs, Waiting' = Waiting
    PROVE  Maps
BY ShownAlive DEF Maps

\* Accept: app.submit enqueues.
LEMMA EnqueueMaps ==
    ASSUME Inv, Inv', NEW c \in Clients, Enqueue(c)
    PROVE  Maps
<1>1. target[c] \in Ids /\ jobs[target[c]] = "absent" /\ queue \in Seq(Ids)
  BY DEF Inv, TypeOK, HolderReady, Enqueue
<1>2. Alive /\ Alive' /\ jobs' = [jobs EXCEPT ![target[c]] = "queued"]
  BY DEF Enqueue, server, Alive
<1>3. Waiting' = Append(Waiting, target[c])
  <2>1. queue' = Append(queue, target[c]) /\ wpc' = wpc /\ wid' = wid
    BY DEF Enqueue, worker
  <2>2. wpc = "received" => wid \in Ids
    BY DEF Inv, JobInHand
  <2>. QED  BY <1>1, <2>1, <2>2 DEF Waiting
<1>4. Lifecycle!Accept(target[c])
  BY <1>1, <1>2, <1>3, ShownAlive DEF Lifecycle!Accept
<1>. QED  BY <1>1, <1>4 DEF Maps, Lifecycle!Next

\* Withdraw: DELETE of a waiting job, which stays in the channel.
LEMMA CancelMaps ==
    ASSUME Inv, Inv', Cancel
    PROVE  Maps
<1>. PICK id \in Ids : CancelQueued(id) \/ CancelRunning(id)
  BY DEF Cancel
<1>1. CASE CancelQueued(id)
  <2>1. Alive /\ Alive' /\ jobs[id] = "queued" /\ jobs' = [jobs EXCEPT ![id] = "cancelled"]
    BY <1>1 DEF CancelQueued, Alive
  <2>2. Waiting' = Waiting
    BY <1>1 DEF CancelQueued, worker, Waiting
  <2>3. Lifecycle!Withdraw(id)
    BY <2>1, <2>2, ShownAlive DEF Lifecycle!Withdraw
  <2>. QED  BY <2>3 DEF Maps, Lifecycle!Next
<1>2. CASE CancelRunning(id)
  BY <1>2, SilentStep DEF CancelRunning, server, Alive, Waiting
<1>. QED  BY <1>1, <1>2

\* The consumer: the channel read is not seen, the second look at the job is
\* Start or Pass, the record of the outcome is End.
LEMMA ConsumeMaps ==
    ASSUME Inv, Inv', InChannel, Consume \/ Stage \/ Timeout
    PROVE  Maps
<1>. USE DEF Alive, server, worker, handler
<1>1. CASE Receive
  <2>1. queue \in Seq(Ids) /\ queue # <<>>
    BY <1>1 DEF Receive, Inv, TypeOK
  <2>2. <<Head(queue)>> \o Tail(queue) = <<>> \o queue
    BY <2>1
  <2>3. Waiting' = Waiting
    BY <1>1, <2>2 DEF Receive, Waiting
  <2>. QED  BY <1>1, <2>3, SilentStep DEF Receive
<1>2. ASSUME wpc = "received"
      PROVE  /\ wid \in Ids /\ Waiting # <<>> /\ Head(Waiting) = wid
             /\ wpc' # "received" /\ queue' = queue => Waiting' = Tail(Waiting)
  <2>1. wid \in Ids /\ queue \in Seq(Ids)
    BY <1>2 DEF Inv, TypeOK, JobInHand
  <2>2. Waiting = <<wid>> \o queue
    BY <1>2 DEF Waiting
  <2>3. wpc' # "received" /\ queue' = queue => Waiting' = <<>> \o queue
    BY DEF Waiting
  <2>. QED  BY <2>1, <2>2, <2>3
<1>3. CASE SkipJob
  <2>1. jobs[wid] = "cancelled"
    BY <1>3 DEF SkipJob, InChannel
  <2>2. Lifecycle!Pass
    BY <1>2, <1>3, <2>1, ShownAlive DEF SkipJob, Lifecycle!Pass
  <2>. QED  BY <2>2 DEF Maps, Lifecycle!Next
<1>4. CASE StartJob
  <2>1. \A id \in Ids : jobs[id] # "running"
    BY <1>4, QueueAssumption DEF StartJob, Inv, JobInHand, RunningIsCurrent, InRun
  <2>2. Lifecycle!Start
    BY <1>2, <1>4, <2>1, ShownAlive DEF StartJob, Lifecycle!Start
  <2>. QED  BY <2>2 DEF Maps, Lifecycle!Next
<1>5. CASE Run \/ WorkerExit \/ Stage \/ Timeout
  <2>1. Alive /\ Alive' /\ jobs' = jobs /\ queue' = queue
    BY <1>5 DEF Run, NativeOk, NativeFails, NativeStopped, ExportOk, ExportFails,
                WorkerExit, Stage, Timeout
  <2>2. \/ wpc # "received" /\ wpc' # "received"
        \/ wpc' = wpc /\ wid' = wid
    BY <1>5 DEF Run, NativeOk, NativeFails, NativeStopped, ExportOk, ExportFails,
                WorkerExit, Stage, Timeout
  <2>3. Waiting' = Waiting
    BY <2>1, <2>2 DEF Waiting
  <2>. QED  BY <2>1, <2>3, SilentStep
<1>6. CASE FinishJob
  <2>1. wid \in Ids /\ jobs[wid] = "running"
    BY <1>6 DEF FinishJob, Inv, JobInHand, RunningIsCurrent, InRun
  <2>2. Outcome(werr) \in {"complete", "failed", "cancelled"}
    BY DEF Outcome
  <2>3. Waiting' = Waiting
    BY <1>6 DEF FinishJob, Waiting
  <2>4. jobs' = [jobs EXCEPT ![wid] = Outcome(werr)] /\ Alive /\ Alive'
    BY <1>6 DEF FinishJob
  <2>5. Lifecycle!End(wid)
    BY <2>1, <2>2, <2>3, <2>4, ShownAlive DEF Lifecycle!End
  <2>. QED  BY <2>1, <2>5 DEF Maps, Lifecycle!Next
<1>. QED  BY <1>1, <1>3, <1>4, <1>5, <1>6 DEF Consume

\* Interrupt: what loadApp will make of the directories is what was shown,
\* with the unfinished jobs failed; the job whose handler holds a.mu may be
\* one of them.
LEMMA LossMaps ==
    ASSUME Inv, DiskInv, AllSaved, Alive, MemoryLost
    PROVE  Maps
<1>. DEFINE late == {id \in Ids : /\ \E c \in Holders : target[c] = id
                                 /\ disk[id] # "bare"}
<1>1. late \in SUBSET Ids /\ \A id \in late : jobs[id] = "absent"
  BY DEF Inv, HolderReady, Holders
<1>2. \A i, j \in late : i = j
  BY DEF Inv, OneHolder, Holders
<1>3. \A id \in Ids : Shown(id)' = IF disk[id] \in {"none", "bare"} THEN "absent" ELSE Loaded(disk[id])
  BY DEF MemoryLost, Shown, Alive
<1>4. ASSUME NEW id \in Ids
      PROVE  Shown(id)' = IF id \in late \/ jobs[id] \in {"queued", "running"}
                          THEN "failed" ELSE jobs[id]
  <2>1. jobs[id] \in JobStates \cup {"absent"} /\ disk[id] \in JobStates \cup {"none", "bare"}
    BY DEF Inv, TypeOK
  <2>2. disk[id] \in Terminal => disk[id] = jobs[id]
    BY DEF DiskInv, DiskNeverAhead
  <2>3. CASE \E c \in Holders : target[c] = id
    <3>1. jobs[id] = "absent" /\ disk[id] # "none"
      BY <2>3 DEF Inv, HolderReady, Holders
    <3>2. disk[id] \in {"bare", "queued", "running"}
      BY <2>1, <2>2, <3>1 DEF JobStates, Active, Terminal
    <3>. QED  BY <1>3, <2>3, <3>1, <3>2 DEF Loaded, Active
  <2>4. CASE ~\E c \in Holders : target[c] = id
    <3>1. disk[id] = IF jobs[id] = "absent" THEN "none" ELSE jobs[id]
      BY <2>4 DEF DiskInv, AllSaved
    <3>2. id \notin late
      BY <2>4
    <3>. HIDE DEF late
    <3>. QED  BY <1>3, <2>1, <3>1, <3>2 DEF Loaded, JobStates, Active, Terminal
  <2>. QED  BY <2>3, <2>4
<1>5. Waiting' = <<>>
  BY DEF MemoryLost, Waiting
<1>6. [id \in Ids |-> Shown(id)] = jobs
  BY ShownAlive
<1>. HIDE DEF late
<1>7. [id \in Ids |-> Shown(id)]'
        = [id \in Ids |-> IF id \in late \/ jobs[id] \in {"queued", "running"}
                          THEN "failed" ELSE jobs[id]]
  BY <1>4
<1>8. Lifecycle!Interrupt(late)
  BY <1>1, <1>2, <1>5, <1>6, <1>7 DEF Lifecycle!Interrupt
<1>. QED  BY <1>1, <1>8 DEF Maps, Lifecycle!Next

\* A start shows what was shown of the directories before, and so does one
\* that fails half-way.
LEMMA LifetimeMaps ==
    ASSUME Inv, Inv', DiskInv, AllSaved, Lifetime
    PROVE  Maps
<1>. USE DEF Alive, server, worker, handler
<1>1. CASE Signal \/ CloseListener
  BY <1>1, SilentStep DEF Signal, CloseListener, Waiting
<1>2. CASE Exit \/ Crash
  BY <1>2, LossMaps DEF Exit, Crash
<1>3. ASSUME srv = "down"
      PROVE  \A id \in Ids : Shown(id) = IF disk[id] \in {"none", "bare"} THEN "absent"
                                         ELSE Loaded(disk[id])
  BY <1>3 DEF Shown
<1>4. CASE Boot
  <2>1. \A id \in Ids : Shown(id) = jobs'[id]
    BY <1>3, <1>4 DEF Boot, Loadable
  <2>2. Alive' /\ jobs' \in [Ids -> JobStates \cup {"absent"}]
    BY <1>4 DEF Boot, Inv, TypeOK
  <2>3. [id \in Ids |-> Shown(id)]' = [id \in Ids |-> Shown(id)]
    BY <2>1, <2>2, ShownAlive
  <2>4. Waiting' = Waiting
    BY <1>4 DEF Boot, Waiting, Inv, DownIsEmpty
  <2>. QED  BY <2>3, <2>4 DEF Maps
<1>5. ASSUME NEW S \in SUBSET Ids, BootFails(S) PROVE Maps
  <2>1. \A id \in Ids : disk'[id] = IF id \in S THEN Loaded(disk[id]) ELSE disk[id]
    BY <1>5 DEF BootFails
  <2>2. \A id \in Ids : Shown(id)' = Shown(id)
    BY <1>3, <1>5, <2>1 DEF BootFails, Shown, Loaded, Active
  <2>3. Waiting' = Waiting
    BY <1>5 DEF BootFails, Waiting
  <2>. QED  BY <2>2, <2>3 DEF Maps
<1>. QED  BY <1>1, <1>2, <1>4, <1>5 DEF Lifetime

\* Every step of the server is one of the lifecycle, or changes nothing of it.
LEMMA StepMaps ==
    ASSUME Inv, Inv', InChannel, DiskInv, AllSaved, [Next]_vars
    PROVE  Maps
<1>1. CASE Submit
  <2>. PICK c \in Clients :
           \/ BeginSubmit(c) \/ RejectSubmit(c)
           \/ \E id \in Ids : MakeJobDir(c, id)
           \/ SaveNewJob(c) \/ AbandonJobDir(c) \/ Enqueue(c)
    BY <1>1 DEF Submit
  <2>1. CASE ~Enqueue(c)
    <3>1. Alive /\ Alive' /\ jobs' = jobs /\ Waiting' = Waiting
      BY <2>1 DEF BeginSubmit, RejectSubmit, MakeJobDir, SaveNewJob, AbandonJobDir,
                  Alive, Serving, server, worker, Waiting
    <3>. QED  BY <3>1, SilentStep
  <2>. QED  BY <2>1, EnqueueMaps
<1>2. CASE UNCHANGED vars
  <2>1. Waiting' = Waiting /\ \A id \in Ids : Shown(id)' = Shown(id)
    BY <1>2 DEF vars, Waiting, Shown, Alive
  <2>. QED  BY <2>1 DEF Maps
<1>. QED  BY <1>1, <1>2, CancelMaps, ConsumeMaps, LifetimeMaps DEF Next

\* Without failing writes, submit, DELETE, the consumer, shutdown, crash and
\* loadApp together do what JobLifecycle promises: jobs start one at a time in
\* the order of acceptance, a withdrawn one never does, an interrupted one is
\* shown as failed, and nothing is lost or changed afterwards.
THEOREM LifecycleImplemented == ASSUME MaxFaults = 0 PROVE Spec => ImplementsLifecycle
<1>1. Init => Lifecycle!Init
  BY DEF Init, Lifecycle!Init, Shown, Alive, Waiting
<1>2. Init => InChannel /\ DiskInv /\ AllSaved
  BY DEF Init, InChannel, DiskInv, DiskNeverAhead, Terminal, AllSaved
<1>3. AllSaved /\ [Next]_vars => AllSaved'
  <2>. SUFFICES ASSUME AllSaved, [Next]_vars PROVE faults' = 0
    BY DEF AllSaved
  <2>. USE MaxFaults = 0 DEF AllSaved, server
  <2>1. CASE Submit
    BY <2>1 DEF Submit, BeginSubmit, RejectSubmit, MakeJobDir, SaveNewJob, AbandonJobDir, Enqueue
  <2>2. CASE Cancel
    BY <2>2 DEF Cancel, CancelQueued, CancelRunning, Save
  <2>3. CASE Consume \/ Stage \/ Timeout
    BY <2>3 DEF Consume, Receive, SkipJob, StartJob, Run, NativeOk, NativeFails, NativeStopped,
                ExportOk, ExportFails, FinishJob, WorkerExit, Stage, Timeout, Save
  <2>4. CASE Lifetime
    BY <2>4 DEF Lifetime, Signal, CloseListener, Exit, Crash, MemoryLost, Boot, BootFails
  <2>5. CASE UNCHANGED vars
    BY <2>5 DEF vars
  <2>. QED  BY <2>1, <2>2, <2>3, <2>4, <2>5 DEF Next
<1>4. Inv /\ Inv' /\ InChannel /\ DiskInv /\ AllSaved /\ [Next]_vars
        => [Lifecycle!Next]_<<[id \in Ids |-> Shown(id)], Waiting>>
  BY StepMaps DEF Maps
<1>. QED
  BY <1>1, <1>2, <1>3, <1>4, Invariance, InChannelInduction, DiskInduction, PTL
     DEF Spec, ImplementsLifecycle, Lifecycle!Spec, Lifecycle!lifecycle
=============================================================================
