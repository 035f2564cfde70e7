----------------------------- MODULE BoundedRun -----------------------------
(***************************************************************************)
(* scripts/run_bounded.py: one command at a time, in a memory-limited      *)
(* scope.  A call p is an outer process, which checks the lock and the     *)
(* headroom, reserves the report and starts a scope, and an inner one in   *)
(* that scope, which takes the lock again, checks again and runs the       *)
(* command.  The outer process gives the lock up before the inner one      *)
(* takes it.  Memory is an environment: headroom is there or not at each   *)
(* look, and so are the limits that the kernel applied.                    *)
(***************************************************************************)
EXTENDS Naturals

CONSTANTS
    Calls,
    Report,      \* the --report of each call; two calls may name one file
    None,
    MaxLosses    \* bound: how many processes are killed

ASSUME NoneAssumption == \A p \in Calls : None \notin {<<"outer", p>>, <<"inner", p>>}

VARIABLES
    lock,        \* None, or who holds the flock: <<"outer", p>>, <<"inner", p>>
    outer,       \* "new", "locked", "reserved", "waiting", "over"
    inner,       \* "none", "created", "held", "running", "over"
    command,     \* "none", "running", "over", "killed"
    metadata,    \* execution.json of the scope: "none", "running", "finished"
    reports,     \* report -> [state, the call that wrote it, what it says of the execution]
    losses,
    orphaned     \* history: a command was left without its monitor

bounded == <<lock, outer, inner, command, metadata, reports, losses, orphaned>>

Reports == {Report[p] : p \in Calls}

BoundedInit ==
    /\ lock = None
    /\ outer = [p \in Calls |-> "new"] /\ inner = [p \in Calls |-> "none"]
    /\ command = [p \in Calls |-> "none"] /\ metadata = [p \in Calls |-> "none"]
    /\ reports = [r \in Reports |-> [state |-> "none", owner |-> None, execution |-> "none"]]
    /\ losses = 0 /\ orphaned = FALSE

Free(holder) == IF lock = holder THEN None ELSE lock

\* The outer process takes the lock, or fails at once.
OuterTake(p) ==
    /\ outer[p] = "new" /\ lock = None
    /\ lock' = <<"outer", p>>
    /\ outer' = [outer EXCEPT ![p] = "locked"]
    /\ UNCHANGED <<inner, command, metadata, reports, losses, orphaned>>

\* There is headroom, and the report is a new file.
Reserve(p) ==
    /\ outer[p] = "locked" /\ reports[Report[p]].state = "none"
    /\ reports' = [reports EXCEPT ![Report[p]] = [state |-> "empty", owner |-> p, execution |-> "none"]]
    /\ outer' = [outer EXCEPT ![p] = "reserved"]
    /\ UNCHANGED <<lock, inner, command, metadata, losses, orphaned>>

\* The report is begun, the lock given up and systemd-run started.
HandOver(p) ==
    /\ outer[p] = "reserved"
    /\ reports' = [reports EXCEPT ![Report[p]].state = "starting"]
    /\ lock' = Free(<<"outer", p>>)
    /\ outer' = [outer EXCEPT ![p] = "waiting"]
    /\ inner' = [inner EXCEPT ![p] = "created"]
    /\ UNCHANGED <<command, metadata, losses, orphaned>>

\* The lock is taken, no headroom, or the report exists: nothing is started.
Refuse(p) ==
    /\ \/ outer[p] = "new" /\ lock # None
       \/ outer[p] = "locked"
    /\ lock' = Free(<<"outer", p>>)
    /\ outer' = [outer EXCEPT ![p] = "over"]
    /\ UNCHANGED <<inner, command, metadata, reports, losses, orphaned>>

\* Mutant: the inner process trusts that the outer one had the lock.
InnerTrusts(p) ==
    /\ inner[p] = "created"
    /\ inner' = [inner EXCEPT ![p] = "held"]
    /\ UNCHANGED <<lock, outer, command, metadata, reports, losses, orphaned>>

\* The inner process takes the lock ...
InnerTake(p) ==
    /\ inner[p] = "created" /\ lock = None
    /\ lock' = <<"inner", p>>
    /\ inner' = [inner EXCEPT ![p] = "held"]
    /\ UNCHANGED <<outer, command, metadata, reports, losses, orphaned>>

\* ... or fails, as it does without headroom, limits, or a scope at all.
InnerFail(p) ==
    /\ \/ inner[p] = "created"
       \/ inner[p] = "held"
    /\ lock' = Free(<<"inner", p>>)
    /\ inner' = [inner EXCEPT ![p] = "over"]
    /\ UNCHANGED <<outer, command, metadata, reports, losses, orphaned>>

\* Headroom and limits are there: the record says "running", the command starts.
Execute(p) ==
    /\ inner[p] = "held"
    /\ metadata' = [metadata EXCEPT ![p] = "running"]
    /\ command' = [command EXCEPT ![p] = "running"]
    /\ inner' = [inner EXCEPT ![p] = "running"]
    /\ UNCHANGED <<lock, outer, reports, losses, orphaned>>

CommandEnds(p) ==
    /\ command[p] = "running"
    /\ command' = [command EXCEPT ![p] = "over"]
    /\ UNCHANGED <<lock, outer, inner, metadata, reports, losses, orphaned>>

\* Mutant: the record is completed when the command has been started.
FinishEarly(p) ==
    /\ inner[p] = "running"
    /\ metadata' = [metadata EXCEPT ![p] = "finished"]
    /\ lock' = Free(<<"inner", p>>)
    /\ inner' = [inner EXCEPT ![p] = "over"]
    /\ UNCHANGED <<outer, command, reports, losses, orphaned>>

\* The record is completed when the command has ended.
InnerFinish(p) ==
    /\ inner[p] = "running" /\ command[p] = "over"
    /\ metadata' = [metadata EXCEPT ![p] = "finished"]
    /\ lock' = Free(<<"inner", p>>)
    /\ inner' = [inner EXCEPT ![p] = "over"]
    /\ UNCHANGED <<outer, command, reports, losses, orphaned>>

\* The scope's process is gone: its record, if there is one, joins the report.
OuterFinish(p) ==
    /\ outer[p] = "waiting" /\ inner[p] = "over"
    /\ reports' = [reports EXCEPT ![Report[p]].state = "finished",
                                 ![Report[p]].execution = metadata[p]]
    /\ outer' = [outer EXCEPT ![p] = "over"]
    /\ UNCHANGED <<lock, inner, command, metadata, losses, orphaned>>

Lose == losses < MaxLosses /\ losses' = losses + 1

\* The invoking process is killed; what is in the scope goes on.
LoseOuter(p) ==
    /\ outer[p] \in {"locked", "reserved", "waiting"}
    /\ Lose
    /\ lock' = Free(<<"outer", p>>)
    /\ outer' = [outer EXCEPT ![p] = "over"]
    /\ UNCHANGED <<inner, command, metadata, reports, orphaned>>

\* Mutant: without OOMPolicy=kill, one process of the scope is killed.
LoseOne(p) ==
    /\ inner[p] \in {"created", "held", "running"}
    /\ Lose
    /\ lock' = Free(<<"inner", p>>)
    /\ inner' = [inner EXCEPT ![p] = "over"]
    /\ UNCHANGED <<outer, command, metadata, reports, orphaned>>

\* Out of memory: everything in the scope is killed together.
LoseScope(p) ==
    /\ inner[p] \in {"created", "held", "running"}
    /\ Lose
    /\ lock' = Free(<<"inner", p>>)
    /\ inner' = [inner EXCEPT ![p] = "over"]
    /\ command' = [command EXCEPT ![p] = IF @ = "running" THEN "killed" ELSE @]
    /\ UNCHANGED <<outer, metadata, reports, orphaned>>

\* The inner process alone is killed.  The command did not inherit the lock.
LoseMonitor(p) ==
    /\ inner[p] = "running" /\ command[p] = "running"
    /\ Lose
    /\ lock' = Free(<<"inner", p>>)
    /\ inner' = [inner EXCEPT ![p] = "over"]
    /\ orphaned' = TRUE
    /\ UNCHANGED <<outer, command, metadata, reports>>

BoundedNext ==
    \E p \in Calls :
        \/ OuterTake(p) \/ Reserve(p) \/ HandOver(p) \/ Refuse(p) \/ OuterFinish(p)
        \/ InnerTake(p) \/ InnerFail(p) \/ Execute(p) \/ InnerFinish(p) \/ CommandEnds(p)
        \/ LoseOuter(p) \/ LoseScope(p) \/ LoseMonitor(p)

BoundedSpec == BoundedInit /\ [][BoundedNext]_bounded

-----------------------------------------------------------------------------

\* "Competing jobs fail before launching a model": as long as no command has
\* lost its monitor, at most one command runs, whichever processes are killed
\* while the lock passes from the outer to the inner one.
OneCommand ==
    orphaned \/ \A p, q \in Calls : command[p] = "running" /\ command[q] = "running" => p = q

\* "An incomplete inside record is explicitly not proof of a clean exit", but a
\* complete one is: an execution that a report calls finished is that of the
\* call that created the report, and its command came to its end.
FinishedIsOver ==
    \A r \in Reports :
        reports[r].execution = "finished" => command[reports[r].owner] = "over"

=============================================================================
