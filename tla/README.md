# TLA+ models of sam3d.cpp

sam3d.cpp runs SAM 3D Body and SAM 3D Objects inference natively and ships a demo
server.  Most of its C++ is straight-line tensor arithmetic.  What is hard to test is
the control around it: a Go server that queues jobs, keeps a resident native process,
serves tracking sessions of several browsers at once and persists everything in one
directory, and the browser client of its tracking endpoints; and, before any of that can
run, the Python tools that make, publish and verify its model files.  That is what these
modules model; the native API follows according to the plan below.

Source paths are relative to the repository (`demo/main.go` is `src/demo/main.go` in
`PROJECT.json`, whose `map` names the lines behind every definition).

## 1. Inventory

### Components

| component | state | operations | hard behaviour | correct when |
|---|---|---|---|---|
| Job queue and history (`demo/main.go`, `demo/object_inference.go`) | `a.jobs`, `a.queue`, `a.current`/`a.cancel`, `DATA/ID/job.json`, the tokens `a.uploads` and `a.mu` | POST job, DELETE job, queue consumer, job timeout, signal, `loadApp` | channel send under a mutex, state re-read after a channel receive, failed saves, a crash between mkdir and the first save | no job is lost, doubled or changed after its end; the disk never claims more than happened; the server stops and starts |
| Native processes (`demo/worker.go`, `apps/body_infer.c`, `runOnce`, `runObject`) | `a.native`, its pipes and event channel, `result.bin` | start, ready, send, wait, stop, idle release; the `--worker` loop | answers of an abandoned request, a full channel, a process that hangs, dies or is still being reaped | an answer belongs to its request; one GPU process at a time, always reaped; every request returns |
| Tracking sessions and takes (`demo/tracking.go`, `demo/recording.go`) | `a.tracks`, in-flight counts, `session.Recording`, `tracks/ID/track.json`, `a.frames` | create, frame, finish, record, stop, rename, delete, expiry, `loadTracks` | a take chosen at admission and used after inference; finish, stop and expiry in between; failed saves; two frames ahead | a take has one owner, ordered samples, none from before or after it; answered frames are on disk; jobs are not starved |
| Data budget (`cfg.storage`) | bytes on disk, reservations of queued and running jobs | admission of jobs, tracks, frames, takes | two admission rules that do not know of each other | what admitted jobs may write is kept free for them |
| Photo preparation (`demo/prepare.go`) | the upload token, a scratch file | POST prepare | deadline against a client that leaves | token and scratch file are given back |
| Results, skeleton export, image packs, settings (`demo/result.go`, `skeleton.go`, `image_pack.go`, `precision.go`) | none | parse, validate, write GLB/OBJ | sizes and indices at their limits | malformed results are refused |
| Browser tracking client (`demo/web/tracking.js`, `frame-pipeline.js`, `frame-encoder-worker.js`) | epoch, task, session, one-frame slot, encoder, at most two requests | start, stop, mode change, record, producer, dispatcher, receiver | everything that happens across an `await` | stop() returns; every session is finished; frames are shown in order; two requests at most |
| Public C API (`src/body_model_api.cpp`, `src/body_model.cpp`, `src/body_result.cpp`) | options, model, request and result handles | setters, getters, load, infer, free | a setter that fails half-way, outputs after an error, sizes that overflow | failure leaves handles as they were and outputs null |
| Body pipeline (`src/body_pipeline.cpp`, `body_flow.cpp`, `body_decoder.cpp`, hand modules) | intermediate tensors | infer | optional branches and intermediate layers | the stages run once each, in order |
| Tensor archives (`src/tensor_archive.cpp`, `validated_weights.hpp`) | the tensor directory of a file | open, look up, read | offsets and sizes near the end of the file | every tensor lies inside the file and is read once |
| Objects runtime (`src/objects_runtime/session.cpp`, `backend.cpp`, `gguf_loader.cpp`) | loaded stages, backend registry under a mutex | end-to-end inference, backend creation | releasing one stage before the next is loaded | at most the planned stages are resident; the registry holds a module once |
| Tensor arithmetic (`src/neural*.cpp`, `dino_*.cpp`, `mhr_*.cpp`, `objects_*.cpp`, graphs) | none | pure functions | numeric | parity with the reference, which its own captures test |
| Checkpoint extraction and Body conversion (`reference/extract_body_checkpoint.py`, `inventory_checkpoint.py`, `preflight.py`, `scripts/convert_gguf.py`, `convert_body_branch.py`, `convert_mhr_gguf.py`, `safe_tensor_stream.py`) | the model directory, a temporary file per process | hash, open, stream, read back, hash again, link, record | sources that change between hash and read, two tools and one name, kills between two files | what has a final name is complete, pinned and never replaced |
| Publication (`scripts/publish_gguf.py`) | open model files, the checkout, the hub's head | prepare, upload | edits and commits while gigabytes are hashed and uploaded | what is published is what was reviewed, with its own documents |
| Objects export (`scripts/objects/convert_sam3d_to_gguf.py`, `gguf_schema.py`) | the tensors collected so far, the output files | one converter per model, options that decide about each tensor | policies that meet in one loop, rows that do not fill blocks, an output truncated in place | a complete file holds what was asked for, addressable by ggml |
| Q4_0 scale search (`gguf_schema.py`) | codes, scales, projected residual of a row | coordinate descent over blocks | codes at the edge of four bits | the residual is that of the bytes |
| Reference captures (31 `reference/capture_*.py`) | an output directory, observers on the original module | build, call, observe, compare, save, list | observers that perturb, old files in the directory, two runs of a script at once | the manifest lists its own run; the taps are those of an unobserved call |
| Native comparison and profiling (`scripts/run_*.py`, `profile_body_infer.py`, `qa_body_captures.py`, `check_parity.py`) | an output directory, hashes taken before | read the manifest, check, load, run the native program, check again | references rewritten and programs rebuilt meanwhile | what is compared is what the manifest lists; what is hashed before and after is what ran, with the exceptions of section 5 |
| Bounded execution (`scripts/run_bounded.py`) | a lock file, a report, a record in the scope | outer and inner process | a lock handed from one process to another, kills of either or of the scope | one capped command at a time; a finished record is of a finished command |

### Interactions

- HTTP handlers of jobs, photos and frames share the upload token `a.uploads`, taken
  without waiting; all state of jobs and tracks is under `a.mu`.
- Handlers talk to the one queue consumer (`app.worker`) through `a.queue` (jobs) and
  `a.frames` (one frame); the consumer talks back through `a.jobs` and a reply channel
  per frame.
- The consumer owns the native process: only it calls `startResident`,
  `runResidentPaths` and `stopResident`.  Cancellation reaches it through a context that
  descends from the server's.
- Jobs have priority over frames: a frame is not admitted while a job waits.
- The browser client calls the track endpoints and is the only source of frame times.
- The tools of the model files meet only in the file system: extraction makes the sources
  of two converters, publication reads what the three converters link.
- Comparisons read what captures wrote, and some captures read other captures; each script
  uses the output directory of its own name.  `run_bounded.py` runs any of them as its
  command.

### Hazards

`PROJECT.json` lists, at its line, what can go wrong in this code and no unit test
easily reaches, with the properties that would show it.

## 2. Modules

| module | models | lines of code behind it |
|---|---|---|
| `JobQueue` | admission, queue, consumer, cancellation, timeout, `job.json`, signals, crash, `loadApp` | `demo/main.go`, `demo/object_inference.go` |
| `JobLifecycle` | what the history promises about a job, without threads, locks or files | abstract |
| `JobQueueRefinement` | the refinement mapping from `JobQueue` to `JobLifecycle` | |
| `JobQueueProofs` | theorems about `JobQueue`, and that it implements `JobLifecycle` | |
| `ResidentWorker` | the consumer's side of the native processes, their reader goroutines and the processes themselves | `demo/worker.go`, `runOnce`, `runObject`, `runFrame`, `apps/body_infer.c` |
| `ResidentWorkerProofs` | theorems about `ResidentWorker` | |
| `LiveSession` | sessions, takes, frame requests, the consumer's choice between jobs and frames, saves, crash and `loadTracks` | `demo/tracking.go`, `demo/recording.go` |
| `LiveSessionProofs` | theorems about `LiveSession` | |
| `StorageBudget` | the two admission rules of the data budget | `app.submit`, `submitObject`, `createTrack`, frames, takes |
| `StorageBudgetProofs` | theorems about `StorageBudget` | |
| `TrackingClient` | stop and its callers, a run with its producer, dispatcher, slot and requests | `demo/web/tracking.js`, `frame-pipeline.js` |
| `TrackingClientProofs` | theorems about `TrackingClient` | |
| `ModelFiles` | the five tools between the checkpoint and the GGUF files, over one directory tree | `extract_body_checkpoint.py`, `inventory_checkpoint.py`, `safe_tensor_stream.py`, `convert_gguf.py`, `convert_body_branch.py`, `convert_mhr_gguf.py` |
| `Publication` | `ModelFiles` composed with publication, a checkout and a hub | `publish_gguf.py` |
| `PublicationProofs` | theorems about both | |
| `ObjectsExport` | the export of the Objects checkpoints, tensor by tensor | `convert_sam3d_to_gguf.py`, `gguf_schema.py` |
| `ObjectsExportProofs` | theorems about `ObjectsExport` | |
| `Q4Calibration` | the search for Q4_0 scales in exact arithmetic | `gguf_schema.py` |
| `Instructions` | the steps that captures and comparisons are made of | idioms of `reference/` and `scripts/` |
| `BodyCaptures`, `ModelCaptures`, `ObjectsCaptures`, `NativeChecks` | each script as a sequence of these steps | 31 captures, 20 comparisons and profilers |
| `ScriptPrograms` | all of them by name | |
| `ScriptRules` | the rules that every such sequence keeps to | the order of steps in the same scripts |
| `ScriptRun` | what a step does; several runs at once, kills, orphaned native programs, edited inputs | |
| `BoundedRun` | the outer and inner process, lock, report, record, command | `run_bounded.py` |
| `Verification` | `ScriptRun` composed with `BoundedRun` | |
| `VerificationProofs` | theorems about `BoundedRun` and `Verification` | |
| `MCJobQueue`, `MCJobQueueRefinement`, `MCLiveSession`, `MCPublication`, `MCObjectsExport`, `MCQ4Calibration`, `MCVerification` | model values and symmetry for TLC | |

### How state and actions correspond to the code

**JobQueue.**  `pc[c]` is where a submit handler stands between taking the upload token
and enqueueing; a handler in `made` or `saved` holds `a.mu`, so every critical section
of anybody else is guarded by `MuFree`.  The handler is split at its writes because a
crash can fall between them; the other critical sections are one action each because
nobody can see inside them and each does at most one rename.  `jobs` is `a.jobs`,
`disk` what `loadApp` would read, `queue` the buffered channel, `wpc`/`wid` the
consumer, `ctx`/`werr` the run's context and error, `current` both `a.current` and
`a.cancel`.  `asked` is a history variable.  `submit` and `submitObject` differ in what
they decode, not in control, and are one set of actions.

**ResidentWorker.**  One process per request at most, so a process is named by the
request that started it.  Its three pipes, the reader goroutines and the bounded channel
`w.events` are explicit, because the properties are about what is still in them.
Protocol words are tagged with the request they answer; the guards only look at the
word, as the program does.  The native process may hang or die anywhere: none of its
actions is fair.  `stopResident` is two steps (close stdin; kill), because the call of
`systemctl stop` between them takes time in which the process may still answer or leave.

**LiveSession.**  `Live`, `Offline` and `Takes` are the three modes of a track.  A frame
request `h[r]` is admitted (`Admit`), read and decoded (`Reject`, `Enqueue`), inferred
(`TakeFrame` and one of the ways it ends) and answered (`Leave`).  Finish, record, stop,
rename, delete and expiry are critical sections of `a.mu` and one action each, with
their success and failure as disjuncts; a DELETE whose `RemoveAll` fails changes nothing.
`Restart` is a crash at any point followed by `loadTracks`, which refuses when an entry cannot be
read or its interrupted track not be saved.  Times are counted in sampling intervals.

**StorageBudget.**  Bytes of jobs and of tracks, and what queued and running jobs may
still write.  The sizes that a job, a frame or a pose writes at most are assumptions of
the code (160, 16 and 2 MiB) and constants here.

**TrackingClient.**  JavaScript has one thread, so an action runs from one `await` to the
next.  `spc[h]` is where a handler is suspended (in `stop()`: on the run, on the finish
call, on `history()`; or on the first image of a source), `then[h]` what its caller does
next.  `rpc` is the place of the main loop, `dpc` of the dispatcher, `slot` the one-frame
slot, `rq[i]` a request from fetch to its settled promise.  Handlers that `stop()` on the
same run are resumed together, before any further event (`NoneResumes`).  The server is
reduced to the sessions that are open and to its answers; `busy` is 429.

**ModelFiles, Publication.**  A file is the version of the weights it holds, whether it is
complete, and how often it was edited since.  A tool is a record in `proc`: its job, the
step it is at, what its open source is (`live` while the path still names it), and its
temporary file with the number of bytes written.  `Tools` says which step follows which in
each tool; `Begin`, `Stream`, `Sync`, `Readback` and `Link` are the parts of
`write_verified` and of the converters' own loops.  `Edit` overwrites a file in place,
`Replace` moves another one to its name; an open handle sees the first and not the second.
`Publication` holds its models open (`kept`), as the script holds its streams.  A commit of
the checkout is a number and stands for its documents.

**ObjectsExport.**  One process at a time; `run` is its place in the list of models and in
the tensors of the checkpoint, `out` what the GGUF writer has collected.  Each converter is
an action over one tensor; the policies are the operators that it applies, in the order
of the code.  A checkpoint is an input, so a converter may meet tensors that it cannot fold:
`Reshapes` is what `reshape` refuses.  `files` is what lies in the output directory.  A low-rank residual is a pair
of factors with their dimensions.

**Q4Calibration.**  One row of small blocks and one token.  `Code` and `Byte` are kept
apart, because the first is a number and the second what `astype(np.uint8)` makes of it.

**ScriptRules.**  What is hashed again is loaded between its hashes, but for what Python
loads before a script can hash it (`Imported`), and with no later hash but in a script that
hashes anew for its report (`ReportsAnew`): `run_body_flow.py` is the only one with either
exception.  The call that others
are compared with is not observed; what is kept was compared; a manifest lists what was
written before it and comes last; what is loaded of a directory whose manifest was read is
compared with it, sooner or later.  `ProgramsAssumption` states that all programs of all
options are like that, and TLC evaluates it for those of `ScriptPrograms`: a script that
loses one of its comparisons breaks it.

**ScriptRun.**  A script is its list of instructions, taken in order; `Holds` is the guard
of an instruction and `Raise` what happens without it.  A file is identified by the run
that wrote it and by whether it was complete: that pair stands for its hash.  A write is
two steps, `Open` and `Finish`, and another run may come between them; a native program
reads what it is given until it finishes.  A call of the original module returns `plain`
unobserved, and `plain`, `near` or `off` while a hook, a trace or a profile function is in
place.  A native program goes on when its script is killed, and writes later.  `before`
holds the hash of an input that was taken last, which is the one that is reported; `checked`
those that were taken again and compared; `noted` the manifests whose hashes go into the own one.

**BoundedRun, Verification.**  A call is an outer and an inner process and a command.  The
outer one gives the lock up before it starts the inner one, which takes it again.  Memory
is there or not at every look.  `Verification` lets a command be a script: it starts with
`Execute`, has to be over before `CommandEnds`, and goes with its scope.

## 3. Runs

| run | module | states | what it shows |
|---|---|---|---|
| `JobQueue_safety` | `MCJobQueue` | 0.1 M | jobs wait once, the send never blocks under the mutex, the disk follows memory, a cancellation hits its job, final states stay; two handlers, three jobs, a failing write and a restart |
| `JobQueue_lifecycle` | `MCJobQueueRefinement` | 0.16 M | `JobQueue` implements `JobLifecycle`; every job ends; a stop ends |
| `ResidentWorker` | `ResidentWorker` | 0.19 M | an answer is its request's and was written, one process, reaping; every request returns; a signal reaps |
| `LiveSession_safety` | `MCLiveSession` | 2.5 M | owners, order and contents of takes, answered frames on disk, with a failed save and a crash |
| `LiveSession_live` | `MCLiveSession` | 0.1 M | jobs are not starved, every frame request is answered, and what an offline session saves can be loaded |
| `LiveSession_dangling` | `MCLiveSession` | violation | finding 1 |
| `TrackingClient` | `TrackingClient` | 1.0 M | sessions are finished, frames shown in order, stop() returns |
| `StorageBudget` | `StorageBudget` | 4 k | the reservation is kept as long as only jobs write, and missed by a bounded amount otherwise |
| `Publication` | `MCPublication` | 2.4 M | files under final names are complete, pinned and never replaced; what is published is approved and consistent |
| `ObjectsExport` | `MCObjectsExport` | 67 k | residuals that were asked for are there, rows are addressable, policies hold together |
| `Captures` | `MCVerification` | 0.55 M | manifests are their run's own, taps are unperturbed, comparisons read what was recorded, programs keep their identity; bounded commands run one at a time |
| `Q4Calibration` | `MCQ4Calibration` | violation | finding 2 |

Every property of a passing run has a mutant in `PROJECT.json`: a definition of the model
changed the way a plausible bug would change the code, under which TLC finds the property
violated.

### Bounds

- *Jobs.*  Two handlers are enough for every pair of handlers to meet at the token;
  three jobs with one waiting slot reach "one running, one waiting, one being
  admitted" and "the channel is full of a cancelled job".  One restart and one failing
  write: a second one meets a state that the first already led to.  The refinement and
  liveness run has one handler, since the token admits one at a time anyway, and two
  slots so that order matters.
- *Native processes.*  Three requests: one that leaves something behind, one that could
  mistake it, one more for the process that was replaced in between.  A channel of one
  place is full after one line (64 in the code); one diagnostic in the stderr pipe is
  enough to fill it at any moment.
- *Sessions.*  `MaxLive` 1 with two ids: the second can only come after the first
  expired or finished.  Two frame requests are the code's own limit for a session; the
  liveness run has three so that frames can compete for ever.  `MaxFrames` 2 stands for
  1800: first frame, last frame.  Two or three stamps make two frames ordered, equal or
  reversed.
- *Browser.*  Five epochs are: choose a mode, choose a source, start, and two stops that
  overlap, or a stop and a second start.  Three requests: one more than may fly.  Two
  handlers: `stop()` has three awaits, and the races are between two of them.
- *Budget.*  Units that make one job, one frame and one pose differ and a few of each fit.
- *Model files.*  Two processes are enough for two tools to race for a name or for one to
  write what the other reads; four starts are extraction, a converter, the publication and
  one more.  Two changes of files, because one change is what the second hash is there for
  and a change back is what it cannot see (`twice`).  Two tensors: one that fills its alignment
  and one that needs padding.
- *Objects export.*  A checkpoint has at least one tensor of each kind that the code
  tells apart: long names, vectors, rows of 256, 32 and neither, sparse convolutions, names that are
  skipped; each decoder has convolutions in the layout that it folds.  Two processes: the second meets what a killed first one left.
- *Scripts.*  Every capture is run twice in every combination of its options with one kill;
  each comparison follows its capture with one more start of either.  Pairs of scripts
  overlap where they share a directory.  Two edits of inputs: an edit and an edit back.  Cases are
  two, the small and the full-size one, since `--small-regression` tells only these apart.
- *Bounded execution.*  Three calls, two of which name one report; two kills: one at each
  side of the hand-over.

`CHECK_DEADLOCK FALSE` appears where the system may really stop: identifiers are finite
in the model, and a server that stopped or refused to start does nothing more.

### Fairness

Only what the runtime guarantees: a goroutine that can run does (weak fairness of the
consumer's steps, of a handler that holds a lock, of the pipe readers); timers fire
(job timeout, frame context, `ReadTimeout` of the server); after a signal `main`
continues.  Requests, signals, crashes and every step of a native process are unfair.
`TakeFrame` has strong fairness: Go's `select` picks at random among ready cases, so a
frame that waits is taken sooner or later although jobs come in between.  The job side
needs no such assumption (`JobNotStarved` holds because frames give way).

In the browser one weak fairness of the event loop: what can be resumed is.  The calls to
the server return because it bounds every request.  Clicks, the camera and the encoder
are unfair; so is a slot that nobody closes.

The Python tools are checked for safety only: nobody waits for them but their user.

## 4. Proofs

`JobQueueProofs` proves for any number of jobs, handlers, slots, restarts and failing
writes: `TypeOK`, `NeverBlocksUnderMu`, `RunningIsCurrent`, `TerminalIsFinal`,
`EachWaitsOnce`, `CancelHitsItsJob` and `DiskFollowsMemory`, which joins `DiskNeverAhead`
(no outcome on disk that memory does not have) and `DiskMatchesMemory` (equality, without
failed writes), from the one assumption `QueueAssumption`.

`TypeOK` is not inductive: that `Enqueue` appends an identifier and not `None`
depends on where the handler is.  The invariant `Inv` adds what the two locks give: at most one handler
is between token and enqueue (`OneHolder`), its job is not in the map yet and has a
directory (`HolderReady`), and there is room in the channel for it (`NeverBlocksUnderMu`,
inductive because only the holder sends); the consumer's identifier and `a.current`
agree (`JobInHand`, `RunningIsCurrent`); a job in the map has a directory (`OnDisk`);
a process that is down holds nothing (`DownIsEmpty`).  Three further invariants
build on it: `InChannel` follows each waiting job
through the channel (`EachWaitsOnce` restates it with a concatenation); `DiskInv` says
what `job.json` holds while a handler has the mutex; `AskedInv` follows a cancellation
from DELETE through the context and the error to the recorded outcome.

`LifecycleImplemented` proves the refinement `Spec => Lifecycle!Spec` under `MaxFaults = 0`
(a failed save may show another outcome after a restart than before).  The history is
`a.jobs` while the process lives and what `loadApp` would make of the directories while it
does not; the line is the identifier in the consumer's hands followed by the channel.  So
the channel read is not seen, the second look under `a.mu` is `Start` or, for a job that was
withdrawn meanwhile, `Pass`.  A crash is `Interrupt`: by `DiskInv` the directories say what
was shown, except for the one job whose handler is between its save and its enqueue, which
turns up as failed.

`ResidentWorkerProofs` proves `TypeOK`, `OkMeansWritten`, `NoStaleReply` and `NoHiddenProcess`
for any number of requests, any capacity of the event channel and any number of diagnostics.
None of the three is inductive, for a line on its way between process and consumer says
nothing by itself.  `Inv` follows it: while nothing is asked, a resident process rests and
owes nothing (`Quiet`); while it comes up, READY is the only protocol line and nothing
follows it (`Greeting`); while a request waits, TIMING and DONE of that request are the only ones,
in this order, and its result precedes DONE (`Answering`).  `Fresh` says that a request whose
process was not started has empty pipes, `Owned` whose process may be alive, `Settled` what a
verdict leaves behind.  The central argument is that every way out of `ready` and `wait` but
a matching answer leads through `stopResident`, and that a new process has new pipes.

`LiveSessionProofs` proves `TypeOK`, `NothingIsOrphaned`, `AnsweredIsSaved`, `SavedIsLoadable`,
`TakesAreSoundIfSaved` and `TakeHoldsItsFrames` for any number of sessions, takes, requests,
stamps, frames, crashes and failing saves, from `SessionAssumption` (the sets are disjoint,
the handlers are finitely many, the limits are natural numbers).  What a take may hold
follows from facts that the code states nowhere in one place: the history and the
directories agree (`Listing`); an open take belongs to exactly one listed live session (`Owners`); a
request that nobody answered is being read, in the channel or with the consumer, and its
open take is the one its session records (`Requests`); requests of a session are answered in the
order of their stamps (`Ordering`); an admitted request has room, and the directory is
never ahead of the memory (`Lengths`); while saves succeed, the last sample of an open take is
not after the last frame that was counted (`Sound`).  `StepKeepsInv` collects what the
handlers have in common; each handler then shows only what it changes.

`StorageBudgetProofs` proves `TypeOK`, `ReservationKept` and `SlipBounded` for any
budget, sizes and queue capacity; the argument is the arithmetic of `(queued + 1) *
Reserve` as one job's share is added or removed.

`TrackingClientProofs` proves `TypeOK`, `SessionsEnd` and `ShownInOrder` for any number of
handlers, runs and requests.  `SessionsEnd` speaks only of a page in which nothing goes on;
in between, a session may belong to the page, to a run that finishes it because it was
stopped while it was being created, or to a handler that took it out of the page before an
`await`.  `Owed` says that each open session has one of these, `Holding` which of them it can
be at each step of a run, and `Running` that a run which is no longer the current one has a
handler waiting for it, so that none of them goes away without its turn.  Order is simpler:
an outcome is shown when its turn came (`InTurn`), and only the end of a run starts counting
again.

`PublicationProofs` proves every property that the run `Publication` checks, for any number of
processes, tools, tensors, edits and moves, from `FilesAssumption` and `PresentAssumption`
(a GGUF of the backbone that is there at the start has its manifest, and a manifest the
files it names).

Its first part is about the tools alone.  That a linked file is complete is not
inductive: it holds because `Sync` has compared lengths and nothing until `Link` writes to
the temporary file.  `FilesInv` says so (`Complete`), where a tool can be in its own flow
(`Placed`), and what it has in its hands there (`Equipped`).  `ToolKeeps` is the step of
`NeverOverwritten`: no tool changes what exists, except a report it is still dumping.

The second part composes this with the script, so that `NothingPartial` and
`NeverOverwritten` are proved of `PubSpec`.  `RemoteIsApproved` rests on `Handles`: the
edits counted when a model was opened are at most those its stream has now, and while the
two are equal the stream is what was hashed; moving the path over changes neither.
`BundleIsConsistent` rests on `Documents`, which follows the documents from the first one
read through the commit that git names.

The third part proves `ContentsArePinned`.  `Pinned` ties each running tool to the
files it depends on (`Tied`): either it reads what it hashed (`Untouched`), or the file under
its source's name was changed and differs from what is expected (`Spoiled`).  With no
file changed twice a spoiled tool stays spoiled and fails its second look; a converter
links only what passed it, and an extraction reaches its reports only through it.  The
converter of the backbone also needs that its manifest keeps its contents, and
the manifest that both halves are linked before it.

The first part of `VerificationProofs` is about `BoundedRun` alone and proves `OneCommand` and
`FinishedIsOver` for any number of calls, any sharing of reports and any number of kills.  Nothing can be said about the lock while it
is given up between the two processes, so the invariant is about what lies after: an inner
process past the lock holds it (`Holding`), a command has its inner process unless that
was killed alone (`Attended`), a complete record is of a command that is over
(`Recorded`), a report has the call that created it as its owner (`Owned`), and before the
hand-over there is no record (`Unstarted`).

The rest proves `ManifestIsOwn`, `Neutral`, `Accepted`, `IdentityHeld` and
`OutputsAreOwn`, with `OneCommand` and `FinishedIsOver` carried over, for any number of runs,
calls, kills, orphans and edits, and for every set of scripts: nothing is assumed of these
but `ProgramsAssumption` and `PlansAssumption` (what a plan runs through `run_bounded.py`
lists only files it wrote, by name).  So they say of a future script what the author has
to keep to, and the run `Captures` says that the present ones do.

The argument has four parts, all in `Known`.  Where a run is in its program says what it
has done (`Base`; `NextKinds` reduces the fifteen steps of a run to a few kinds), and from
this follows what it knows (`RunsKnow`): an observer in place has been put there and not
removed, a result that stands was that of an unobserved call or has been compared, and a
load between two equal hashes is of the same version, because with no input edited twice
versions only grow; the comparison keeps the version it saw (`checked`), and where no hash
follows it, that is the reported one (`before`).  Second, `Claims`: in the directory of a script that refuses anything in
it and creates its cases exclusively, everything is of the one run that created the first
case, although two may have looked before either wrote; with `Stays`, that what an
undisturbed run wrote is there, this gives `Hashed`, what the lists contain.  Third, a
complete manifest is of a run that is done (`Documents`); such a run writes no more and its list stays.
While nobody writes to the directory, or nobody can (`Frozen`), what was taken and
what was compared are still what is there (`Takes`, `Compares`), in whichever order the two were
done.  Fourth, `Bounds`: with the invariant of the first part, an active run is
the command of a call, and at most one call has a command.

`ObjectsExportProofs` proves `TypeOK`, `ResidualsExported`, `StoredForGgml` and `PolicyKept` for
any checkpoints, requests and number of runs, from `ExportAssumption` (what a checkpoint and a
command line look like; a positional embedding has a leading dimension of 1).  None of the
three properties is inductive: they speak of files that are whole, and nothing in a file says
how the writer came to it.  `Filled` describes a writer that is past the first `k` tensors of
its checkpoint: each tensor that is not skipped stands once, under its own name and in the form its
policies give (`Stands`), a name is in `done` only when it is of such a tensor and has exactly two
factors that fit it (`Corrected`), and no other tensor has any.  `Looping` says that of the
converter, with `Past` for the step between a weight and its factors; `AtEnd` adds what
`CheckResiduals` found, and `Complete` that a whole file was written from such a writer.  With
`Distinct` a name of a file then stands for the tensor that `Filled` speaks of (`WeightOf`).

`StoredForGgml` needs one fact about numbers: rows that fill their blocks take, over all rows,
as many bytes as the product of the dimensions in the header.  The product is a recursive
function, and induction is not at hand.  Its recursion has a solution because there
is a least counterexample otherwise (`LeastNumber`, from the well-foundedness of `<`, gives `UpTo`
and `ProductsExist`); two lists of dimensions that differ only in the last have products that
differ only in that factor (`ProductSplits`); and a whole number of blocks can be divided first or
last (`WholeBlocks`).

So every invariant and every step property that a passing run checks is a theorem, and so is
the implementation of `JobLifecycle`.  Only model-checked are the seven liveness properties
(`EveryJobEnds`, `StopEnds`, `EachRequestReturns`, `StopReaps`, `JobNotStarved`, `EveryFrameAnswered`,
`StopReturns`), since the prover has neither fairness nor ENABLED, and the two runs that end with a
violation, where there is nothing to prove.

## 5. Where the code and its documents disagree

1. *A failed save in `finishRecording` leaves a session with a take that DELETE may
   remove; from then on the session cannot be finished or expired, and creating any
   session fails* (`LiveSession_dangling`).
2. *The Q4_0 search considers scales that are not legal* (`Q4Calibration`).  A multiplier
   below 1 gives codes below zero.  They wrap to bytes above 15, the candidate is judged by
   these bytes, and packing spills them into the neighbouring weight.  The docstring of
   `quantize_q4_0_activation_aware` speaks of legal scales and of the complete projected residual.

Four more that the models reach, without a run of their own:

- A job interrupted by a signal is saved as cancelled (`Outcome` in `JobQueue`), while
  `demo/README.md:253` says interrupted jobs remain visibly failed.
- A crash, or even a graceful stop, between `os.Mkdir` and the first `job.json` keeps the
  server from starting again (`BootFails` in `JobQueue`; `demo/main.go:257`, `643`).  Tracks have the same
  gap in `createTrack`, `record` and DELETE; `Restart` in `LiveSession` reaches it as
  `up = "refused"`.
- A failed save in `appendRecording` (`demo/recording.go:62`) lets the same frame be recorded
  twice, after which the take cannot be exported: `TakesAreSoundIfSaved` holds while
  saves succeed.
- `run_body_flow.py` imports `rotation_parity.py` at line 8 and hashes it, and itself, at
  line 24; and after the comparison of line 81 it hashes runner, module, GGUF, script and
  helper again for its report (lines 83-85), although it has compared hashes in `before`.  One edit
  at the right moment makes the report name a file that did not run, while
  `reference/BODY_FLOW.md:236` says reports hash the policy code.  `IdentityHeld` excepts
  the two (`Imported`, `ReportsAnew`); without either exception TLC finds it violated by the plan of
  `Captures` that edits the runner and the helper.  What
  stays true of `run_body_flow.py` is that runner, module and GGUF were loaded as they were hashed
  and found unchanged (`checked`).

Tracking does not count the reservations of jobs, although `demo/README.md` speaks of
"reserving space for queued results"; `SlipBounded` states how far the budget can be
missed because of it.

In the browser a run can be started while the caller of `stop()` still waits for
`history()`: the caller then releases the source and may change the mode under the new
run.  A run whose mode is no longer offline but which never had a dispatcher waits for
ever, and so does every later `stop()`.  `Stranded` names that state and `StopReturns`
excepts it.  Also, when the answers to the first two frames overtake each other, the
second cannot be decoded and the run ends with an error; the model has this as a run that
ends, not as a violation.

What the tools for model files and captures leave open, by design or not:

- Hashes by path before and after cannot see a file that changes and changes back;
  `ContentsArePinned` and `IdentityHeld` except it (`twice`, `Twice`).
- `run_body_model.py` pins its GGUF files before it starts and does not look again;
  `check_parity.py` reads files that no hash ties to a manifest.  `Recheck` and `Listed` are
  absent from their programs, and the properties claim nothing there.
- Many comparisons hash what ran, and nearly all their own script, only for their report,
  and compare with nothing.  Such hashes are left out of their programs and claimed of nowhere.
- Captures that use an existing directory and overwrite (`Put`) may list files of another
  run that wrote there meanwhile; `ManifestIsOwn` says what holds of them.
- A native program whose script was killed may still write its output; run through
  `run_bounded.py` it is killed with its scope.
- Killing only the inner process of `run_bounded.py` frees the lock while its command goes
  on (`orphaned`).
- The Objects export writes in place: a killed process leaves a truncated file under
  its final name, which no later step of the export notices.  Calibrating or overriding a
  tensor whose rows do not fill blocks stores it as F16 without a message.
- `publish_gguf.py` may create the repository and fail afterwards, leaving it empty.

## 6. What is not modelled

Tensor arithmetic, file formats beyond their control, HTTP, wording and logging.  Reads
(list, get, download) change nothing.  Memory limits, disk errors and unusable uploads
appear as refusals or failures that may happen at any time.  The wall-clock rate cap on
frames only refuses more of them.

Known hazards of the demo server that no property covers: the native process may end right
after its DONE, and `select` may see the end first, so that a finished result is reported as an
error (`demo/worker.go:217`; `ProcessGone` has it); a cancelled job keeps its slot
of the channel until the consumer comes by (`demo/main.go:430`); `storageSize` walks a
changing tree (`main.go:168`); a STAGE line that stderr delivers late is shown for the next
job (`demo/worker.go:205`); a native process outlives a crashed server until it sees its
end of input (`worker.go:52`); `checkMemory` runs before the resident model is freed
(`demo/object_inference.go:198`); a partly deleted or partly created track directory
(`demo/tracking.go:109`); a run started while a caller of `stop()` still waits for
`history()` (`demo/web/tracking.js:20`).

Of the Python tools: the one-off studies of rounding, the quality checks that are clients of the demo,
and the pure comparison functions.  Every part of the repository is listed in
`PROJECT.json` with its reason.

## 7. Plan

Done: `JobQueue` (checked, proved), `ResidentWorker` and `LiveSession` (checked, proved),
`StorageBudget` (checked, proved), `TrackingClient` (checked, proved), `ModelFiles` and
`Publication` (checked, proved), `ObjectsExport` (checked, proved), `Q4Calibration` (checked), the
captures and comparisons, `BoundedRun` and `Verification` (checked, proved).

Next, in this order:

1. Native side: `BodyApi` (handles, setters, load, infer), `TensorArchive` (layout
   checks as operators against a reference definition, 64-bit overflow), `BodyFlow`
   (stages and optional intermediates), `ObjectSession` (stage loading and release,
   backend registry).
2. `TrackingClient`: record and stop recording across their awaits, the encoder's busy
   flag and timeout, ownership of camera frames.

Abstract specifications worth stating besides `JobLifecycle`: a one-slot mailbox that
never reorders for `LatestFrameSlot`, and a request/answer channel for the native
process.
