------------------------- MODULE JobQueueRefinement -------------------------
(* JobQueue implements JobLifecycle while writes to DATA succeed.           *)
EXTENDS JobQueue

\* While the server is down the history is what loadApp would make of the disk.
Shown(id) ==
    IF Alive THEN jobs[id]
    ELSE IF disk[id] \in {"none", "bare"} THEN "absent" ELSE Loaded(disk[id])

Lifecycle == INSTANCE JobLifecycle WITH
    status <- [id \in Ids |-> Shown(id)],
    line   <- Waiting

\* Jobs run one at a time in the order of acceptance, withdrawn ones never do,
\* and interrupted ones are shown as failed: app.submit, app.worker, DELETE
\* and loadApp together implement the lifecycle the demo promises.
ImplementsLifecycle == Lifecycle!Spec
=============================================================================
