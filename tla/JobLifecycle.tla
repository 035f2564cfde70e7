---------------------------- MODULE JobLifecycle ----------------------------
(***************************************************************************)
(* What the demo promises about a job, whatever the threads behind it do:  *)
(* jobs start one at a time and in the order they were accepted, a job     *)
(* that waits can be withdrawn, a final state is final, and a stop of the  *)
(* server turns unfinished jobs into failed ones instead of losing them.   *)
(* JobQueueRefinement shows that JobQueue implements this.                 *)
(***************************************************************************)
EXTENDS Sequences

CONSTANT Ids

VARIABLES
    status,   \* what the history shows for each job
    line      \* the jobs that were accepted and did not start, oldest first;
              \* a withdrawn one keeps its place until its turn comes

lifecycle == <<status, line>>

Init ==
    /\ status = [id \in Ids |-> "absent"]
    /\ line = <<>>

Accept(id) ==
    /\ status[id] = "absent"
    /\ status' = [status EXCEPT ![id] = "queued"]
    /\ line' = Append(line, id)

Start ==
    /\ line # <<>> /\ status[Head(line)] = "queued"
    /\ \A id \in Ids : status[id] # "running"
    /\ status' = [status EXCEPT ![Head(line)] = "running"]
    /\ line' = Tail(line)

Withdraw(id) ==
    /\ status[id] = "queued"
    /\ status' = [status EXCEPT ![id] = "cancelled"]
    /\ UNCHANGED line

\* The turn of a withdrawn job.
Pass ==
    /\ line # <<>> /\ status[Head(line)] = "cancelled"
    /\ line' = Tail(line)
    /\ UNCHANGED status

End(id) ==
    /\ status[id] = "running"
    /\ \E s \in {"complete", "failed", "cancelled"} :
           status' = [status EXCEPT ![id] = s]
    /\ UNCHANGED line

\* The process is gone.  A job that was just being accepted may turn up too,
\* and one only.
Interrupt(late) ==
    /\ \A i, j \in late : i = j
    /\ \A id \in late : status[id] = "absent"
    /\ status' = [id \in Ids |->
           IF id \in late \/ status[id] \in {"queued", "running"}
           THEN "failed" ELSE status[id]]
    /\ line' = <<>>

Next ==
    \/ \E id \in Ids : Accept(id) \/ Withdraw(id) \/ End(id)
    \/ Start \/ Pass
    \/ \E late \in SUBSET Ids : Interrupt(late)

Spec == Init /\ [][Next]_lifecycle
=============================================================================
