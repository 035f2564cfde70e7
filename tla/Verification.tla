---------------------------- MODULE Verification ----------------------------
(***************************************************************************)
(* The scripts as they are run: by hand, or, with plan.bounded, as the     *)
(* commands of scripts/run_bounded.py, which then decides when a script    *)
(* starts and when it is over.                                             *)
(***************************************************************************)
EXTENDS ScriptRun, BoundedRun

VARIABLE running    \* call -> the number of the run that is its command, or 0

all == <<scripts, bounded, running>>

Init == RunInit /\ BoundedInit /\ running = [p \in Calls |-> 0]

\* The command of p is a script that has not ended.
Busy(p) == running[p] \in Numbers /\ Active(running[p])

\* By hand.
ByHand ==
    /\ ~plan.bounded
    /\ \/ \E job \in plan.jobs : Start(job)
       \/ \E n \in Numbers : Step(n) \/ Kill(n)
       \/ \E o \in orphans : OrphanWrites(o)
       \/ \E x \in plan.editable : Edit(x)
    /\ UNCHANGED <<bounded, running>>

\* Under run_bounded.py: its own steps,
Bounding ==
    /\ plan.bounded
    /\ \E p \in Calls :
           \/ OuterTake(p) \/ Reserve(p) \/ HandOver(p) \/ Refuse(p) \/ OuterFinish(p)
           \/ InnerTake(p) \/ InnerFail(p) \/ InnerFinish(p)
           \/ LoseOuter(p) \/ LoseMonitor(p)
           \/ ~Busy(p) /\ LoseScope(p)
    /\ UNCHANGED <<scripts, running>>

\* the start and the end of the script,
Launch(p, job) ==
    /\ plan.bounded
    /\ Execute(p) /\ Start(job)
    /\ running' = [running EXCEPT ![p] = Len(runs')]

Return(p) ==
    /\ plan.bounded /\ running[p] # 0 /\ ~Active(running[p])
    /\ CommandEnds(p)
    /\ UNCHANGED <<scripts, running>>

\* the end of its memory,
OutOfMemory(p) ==
    /\ plan.bounded /\ Busy(p)
    /\ LoseScope(p) /\ KillAll(running[p])
    /\ UNCHANGED <<kills, running>>

\* and the script's own steps.
Within ==
    /\ plan.bounded
    /\ \E n \in Numbers : Step(n)
    /\ UNCHANGED <<bounded, running>>

Next ==
    \/ ByHand \/ Bounding \/ Within
    \/ \E p \in Calls :
           \/ \E job \in plan.jobs : Launch(p, job)
           \/ Return(p) \/ OutOfMemory(p)

Spec == Init /\ [][Next]_all

-----------------------------------------------------------------------------

\* Native comparisons write over one another's files when they run at once,
\* also those that insist on an empty directory, for they look first and write
\* later.  Run through run_bounded.py, whatever of it is killed except a
\* monitor alone, the native outputs a finished one hashed are its own.
OutputsAreOwn ==
    plan.bounded /\ ~orphaned =>
        \A n \in Numbers : Done(n) => \A e \in runs[n].lists : e[2] = <<n, TRUE>>

=============================================================================
