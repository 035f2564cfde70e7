--------------------------- MODULE StorageBudget ---------------------------
(***************************************************************************)
(* The data budget of the demo server (cfg.storage; demo/main.go,          *)
(* demo/tracking.go, demo/recording.go).                                   *)
(*                                                                         *)
(* A job is admitted when the files on disk and a reservation for every    *)
(* job that may still write fit the budget; it writes its input at once    *)
(* and the rest while it runs.  Offline frames and takes are admitted when *)
(* the files on disk and one allowance of their own fit; they know nothing *)
(* of the reservations.  Sizes are in units that divide all of them.       *)
(*                                                                         *)
(* External: a job leaves at most Reserve bytes, a frame at most Frame, a  *)
(* recorded pose at most Pose.  The code trusts these sizes too.           *)
(***************************************************************************)
EXTENDS Naturals

CONSTANTS
    Budget,      \* cfg.storage
    Reserve,     \* what a job may write: 160 MiB
    Frame,       \* allowance of an offline frame or a new track: 16 MiB
    Pose,        \* allowance of a recorded pose or a new take: 2 MiB
    Cap          \* cap(a.queue)

ASSUME BudgetAssumption ==
    /\ Budget \in Nat /\ Reserve \in Nat /\ Frame \in Nat /\ Pose \in Nat
    /\ Cap \in Nat \ {0}

VARIABLES
    jobBytes,    \* files of jobs; the API never removes a job
    trackBytes,  \* files of tracks
    queued,      \* len(a.queue)
    owed,        \* what the queued jobs may still write
    running,     \* a job is running
    left,        \* what the running job may still write
    tracked      \* history: a track grew since the server started

vars == <<jobBytes, trackBytes, queued, owed, running, left, tracked>>

used == jobBytes + trackBytes     \* storageSize

TypeOK ==
    /\ jobBytes \in Nat /\ trackBytes \in Nat
    /\ queued \in 0..Cap
    /\ owed \in 0..(queued * Reserve)
    /\ running \in BOOLEAN
    /\ left \in 0..Reserve
    /\ ~running => left = 0
    /\ tracked \in BOOLEAN

Init ==
    /\ jobBytes \in 0..Budget /\ trackBytes \in 0..(Budget - jobBytes)
    /\ queued = 0 /\ owed = 0 /\ running = FALSE /\ left = 0
    /\ tracked = FALSE

\* Mutant: the job that is running is not counted.
FitsBesideQueue == used + (queued + 1) * Reserve <= Budget

\* Room for the queued jobs, the one that runs and the new one.
Fits == used + (queued + 2) * Reserve <= Budget

\* submit and submitObject: the upload is on disk, what the job may still
\* write of its reservation is owed.
Submit(input) ==
    /\ queued < Cap
    /\ Fits
    /\ jobBytes' = jobBytes + input
    /\ queued' = queued + 1
    /\ owed' = owed + (Reserve - input)
    /\ UNCHANGED <<trackBytes, running, left, tracked>>

\* The consumer takes a job; rest is what that job may still write.
StartJob(rest) ==
    /\ ~running /\ queued > 0
    /\ rest <= owed /\ owed - rest <= (queued - 1) * Reserve
    /\ queued' = queued - 1
    /\ owed' = owed - rest
    /\ running' = TRUE
    /\ left' = rest
    /\ UNCHANGED <<jobBytes, trackBytes, tracked>>

\* Results and exports; nothing looks at the budget.
WriteResult(bytes) ==
    /\ running /\ bytes <= left
    /\ jobBytes' = jobBytes + bytes
    /\ left' = left - bytes
    /\ UNCHANGED <<trackBytes, queued, owed, running, tracked>>

\* Also the end of a job that was cancelled in the queue.
EndJob ==
    /\ running
    /\ running' = FALSE /\ left' = 0
    /\ UNCHANGED <<jobBytes, trackBytes, queued, owed, tracked>>

\* Mutant: a pose is written without a look at the disk.
GrowUnchecked(allowance, bytes) ==
    /\ tracked' = TRUE
    /\ bytes <= allowance
    /\ allowance = Pose \/ used + allowance <= Budget
    /\ trackBytes' = trackBytes + bytes
    /\ UNCHANGED <<jobBytes, queued, owed, running, left>>

\* createTrack, a frame of an offline session, record, a recorded pose.
GrowTrack(allowance, bytes) ==
    /\ tracked' = TRUE
    /\ used + allowance <= Budget
    /\ bytes <= allowance
    /\ trackBytes' = trackBytes + bytes
    /\ UNCHANGED <<jobBytes, queued, owed, running, left>>

\* DELETE of a track
DropTrack(bytes) ==
    /\ bytes <= trackBytes
    /\ trackBytes' = trackBytes - bytes
    /\ UNCHANGED <<jobBytes, queued, owed, running, left, tracked>>

Next ==
    \/ \E n \in 0..Reserve : Submit(n) \/ StartJob(n) \/ WriteResult(n)
    \/ EndJob
    \/ \E a \in {Frame, Pose}, n \in 0..(Frame + Pose) : GrowTrack(a, n)
    \/ \E n \in 0..trackBytes : DropTrack(n)

Spec == Init /\ [][Next]_vars

-----------------------------------------------------------------------------

\* As long as only jobs write, what admitted jobs may still write is kept
\* free for them: that is why a job may write without looking (README:291,
\* "reserving space for queued results"; main.go:688).
ReservationKept == ~tracked => used + owed + left <= Budget

\* Tracks ignore the reservations, so the budget can be missed; but by no
\* more than the reservations of the jobs that can be pending at once.
SlipBounded == used + owed + left <= Budget + (Cap + 1) * Reserve

=============================================================================
