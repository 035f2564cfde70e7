------------------------------ MODULE ScriptRun ------------------------------
(***************************************************************************)
(* Running the capture and comparison scripts: what each instruction does. *)
(*                                                                         *)
(* Every run of a script has a number.  A script always works on the       *)
(* output directory of its own name, so two runs of it share one.  A file  *)
(* is identified by the run that wrote it and by whether it was complete;  *)
(* that pair stands for its hash, and run 0 for two writers at once.  A    *)
(* script may be killed at any instruction, a native program it started    *)
(* may then go on and still write its file, and inputs that lie outside    *)
(* the output directories may be edited.  What a call of the original      *)
(* module returns is "plain" when nothing observes it; when something      *)
(* does, it may also be "near" or "off".                                   *)
(***************************************************************************)
EXTENDS ScriptRules, FiniteSets

CONSTANTS
    Programs,   \* script -> option -> its instructions
    Plans       \* what may be run: see Plan

Options == {"small", "full"}
Scripts == DOMAIN Programs

\* What one behaviour may do: which scripts run with which options, how many at
\* a time, and the bounds on runs, on kills and on edits of inputs.
Plan == [jobs : SUBSET (Scripts \X Options), bounded : BOOLEAN,
         active : Nat, starts : Nat, kills : Nat, editable : SUBSET STRING, edits : Nat]

ASSUME ProgramsAssumption ==
    \A s \in Scripts :
        /\ DOMAIN Programs[s] = Options
        /\ \A o, q \in Options : Alike(Programs[s][o], Programs[s][q])
        /\ \A o \in Options : Orderly(Programs[s][o], s)

\* What runs under run_bounded.py lists what it wrote.
ASSUME PlansAssumption ==
    /\ Plans \subseteq Plan
    /\ \A e \in Plans : e.bounded =>
           \A job \in e.jobs, o \in Options : ByName(Programs[job[1]][o])

VARIABLES
    plan,
    fs,       \* <<directory, file>> -> <<the run that wrote it, complete>>
    runs,     \* the runs so far
    orphans,  \* <<directory, file, run>>: what native programs of killed runs will still write
    kills,
    edits     \* the inputs edited so far, in order

scripts == <<plan, fs, runs, orphans, kills, edits>>

-----------------------------------------------------------------------------
(* What there is                                                           *)

Numbers == DOMAIN runs
Program(n) == Programs[runs[n].script][runs[n].opt]
Instruction(n) == Head(runs[n].todo)
Active(n) == runs[n].state = "active"
Done(n)   == runs[n].state = "done"

\* An input has its pinned contents, 0, or others; an edit changes which.
Version(x) == Cardinality({k \in DOMAIN edits : edits[k] = x}) % 2

Exists(d, f)  == <<d, f>> \in DOMAIN fs
Content(d, f) == fs[<<d, f>>]
Whole(d, f)   == Exists(d, f) /\ Content(d, f)[2]
FilesOf(d)    == {p[2] : p \in {q \in DOMAIN fs : q[1] = d}}

Value(n, v) == (CHOOSE x \in runs[n].values : x[1] = v)[2]

-----------------------------------------------------------------------------
(* The steps of a run                                                      *)

Fresh(script, opt) ==
    [script |-> script, opt |-> opt, state |-> "active",
     todo |-> Programs[script][opt],    \* the instructions to come
     half |-> FALSE,      \* within Put, New or Native
     before |-> {},       \* <<input, version>> as hashed last, and as reported
     checked |-> {},      \* <<input, version>> as hashed again and found the same
     used |-> {},         \* <<input, version>> as loaded
     lists |-> {},        \* <<file, content>> as hashed for the manifest or the report
     values |-> {},       \* <<which call, its result>>
     watching |-> {},     \* the observers in place
     taps |-> {},         \* what the saved tensors come from
     noted |-> {},        \* <<directory, its manifest's content>> for the manifest
     ref |-> <<>>,        \* directory -> the run whose manifest was read
     took |-> {},         \* <<directory, file, content>> as loaded from there
     torn |-> FALSE,      \* history: such a directory was written to afterwards
     shared |-> FALSE]    \* history: so was its own, by another run

\* The run of number n goes on to its next instruction as the record r.
After(n, r) ==
    [runs EXCEPT ![n] =
        IF Len(r.todo) > 1 THEN [r EXCEPT !.todo = Tail(@), !.half = FALSE]
        ELSE [r EXCEPT !.todo = <<>>, !.half = FALSE, !.state = "done",
                       !.values = {}, !.watching = {}]]

Goes(n, r) == runs' = After(n, r)

Stopped(r) ==
    [Fresh(r.script, r.opt) EXCEPT !.state = "stopped", !.todo = <<>>]

Quiet == UNCHANGED <<plan, orphans, kills, edits>>

\* Mutant: the hash is taken again and not compared.
HashedOnce(n, x) == \E b \in runs[n].before : b[1] = x

\* The hash that was taken is still that of the input.
SameHash(n, x) == <<x, Version(x)>> \in runs[n].before

\* Mutant: open('w').
Writable(n, f) == TRUE

\* open('x') creates the file; what is half written is the run's own.
Creatable(n, f) == runs[n].half \/ ~Exists(runs[n].script, f)

\* Mutant: the manifest is not consulted.
Present(n, d, f) == Exists(d, f)

\* The file has the hash that the manifest lists.
AsListed(n, d, f) ==
    Exists(d, f) /\ <<f, Content(d, f)>> \in runs[runs[n].ref[d]].lists

\* The manifest of e is the one that d was made from.
AsNoted(n, d, e) ==
    Exists(e, Document(e)) /\ <<e, Content(e, Document(e))>> \in runs[runs[n].ref[d]].noted

\* The guard of an instruction; where it does not hold, the script raises.
Holds(n) ==
    LET i == Instruction(n)
        r == runs[n]
        op == i[1]
    IN /\ op = "pinned"  => Version(i[2]) = 0
       /\ op = "recheck" => SameHash(n, i[2])
       /\ op = "newdir"  => ~Exists(r.script, ".")
       /\ op = "empty"   => FilesOf(r.script) = {}
       /\ op = "new"     => Creatable(n, i[2])
       /\ op = "collect" => Exists(r.script, i[2])
       /\ op = "same"    => Value(n, i[2]) = Value(n, "base")
       /\ op = "close"   => \/ Value(n, i[2]) = Value(n, "base")
                            \/ {Value(n, i[2]), Value(n, "base")} \subseteq {"plain", "near"}
       /\ op = "read"    => Whole(i[2], Document(i[2])) /\ Content(i[2], Document(i[2]))[1] # 0
       /\ op = "listed"  => AsListed(n, i[2], i[3])
       /\ op = "note"    => Exists(i[2], Document(i[2]))
       /\ op = "made"    => AsNoted(n, i[2], i[3])
       /\ op = "take"    => Whole(i[2], i[3])
       /\ op = "native"  => \A f \in i[5] : Whole(i[4], f)

Is(n, ops) == Active(n) /\ Instruction(n)[1] \in ops /\ Holds(n)

\* What an instruction loads, as it is now.
AsLoaded(i) == {<<x, Version(x)>> : x \in Loaded(i)}
AsTaken(i)  == {<<t[1], t[2], Content(t[1], t[2])>> : t \in Taken(i)}

\* What is looked at or compared, and nothing kept.
Check(n) ==
    /\ Is(n, {"empty", "same", "close", "listed", "made"})
    /\ Goes(n, runs[n])
    /\ Quiet /\ UNCHANGED fs

HashInput(n) ==
    /\ Is(n, {"pinned", "hash"})
    /\ LET x == Instruction(n)[2]
       IN Goes(n, [runs[n] EXCEPT !.before = {b \in @ : b[1] # x} \cup {<<x, Version(x)>>}])
    /\ Quiet /\ UNCHANGED fs

RecheckInput(n) ==
    /\ Is(n, {"recheck"})
    /\ LET x == Instruction(n)[2]
       IN Goes(n, [runs[n] EXCEPT !.checked = @ \cup {<<x, Version(x)>>}])
    /\ Quiet /\ UNCHANGED fs

LoadInput(n) ==
    /\ Is(n, {"load"})
    /\ Goes(n, [runs[n] EXCEPT !.used = @ \cup AsLoaded(Instruction(n))])
    /\ Quiet /\ UNCHANGED fs

\* Mutant: the profile function stays.
WithoutHook(n, o) == runs[n].watching \ {"hook"}

\* The observers in place when o is taken away.
Without(n, o) == runs[n].watching \ {o}

Observe(n) ==
    /\ \/ /\ Is(n, {"build"})
          /\ Goes(n, [runs[n] EXCEPT !.watching = @ \ {"hook"}])
       \/ /\ Is(n, {"watch"})
          /\ Goes(n, [runs[n] EXCEPT !.watching = @ \cup {Instruction(n)[2]}])
       \/ /\ Is(n, {"unwatch"})
          /\ Goes(n, [runs[n] EXCEPT !.watching = Without(n, Instruction(n)[2])])
    /\ Quiet /\ UNCHANGED fs

\* The original module; the first call of a case begins its values anew.
Call(n) ==
    /\ Is(n, {"pass"})
    /\ LET v == Instruction(n)[2]
       IN \E result \in IF runs[n].watching = {} THEN {"plain"} ELSE {"plain", "near", "off"} :
              Goes(n, [runs[n] EXCEPT !.values =
                  (IF v = "base" THEN {} ELSE {x \in @ : x[1] # v}) \cup {<<v, result>>}])
    /\ Quiet /\ UNCHANGED fs

\* The tensors of the observed calls, or of the only one.
KeepTaps(n) ==
    /\ Is(n, {"keep"})
    /\ LET observed == {x \in runs[n].values : x[1] \in {"part", "seen"}}
           kept == IF observed = {} THEN {x \in runs[n].values : x[1] = "base"} ELSE observed
       IN Goes(n, [runs[n] EXCEPT !.taps = @ \cup {x[2] : x \in kept}])
    /\ Quiet /\ UNCHANGED fs

ReadManifest(n) ==
    /\ Is(n, {"read"})
    /\ LET d == Instruction(n)[2]
           of == Content(d, Document(d))[1]
           rest == SubSeq(Programs[runs[n].script][runs[of].opt],
                          Len(Program(n)) - Len(runs[n].todo) + 1,
                          Len(Programs[runs[n].script][runs[of].opt]))
       IN Goes(n, [runs[n] EXCEPT !.opt = runs[of].opt, !.todo = rest,
                                  !.ref = [e \in DOMAIN @ \cup {d} |-> IF e = d THEN of ELSE @[e]]])
    /\ Quiet /\ UNCHANGED fs

NoteManifest(n) ==
    /\ Is(n, {"note"})
    /\ LET d == Instruction(n)[2]
       IN Goes(n, [runs[n] EXCEPT !.noted = @ \cup {<<d, Content(d, Document(d))>>}])
    /\ Quiet /\ UNCHANGED fs

TakeFile(n) ==
    /\ Is(n, {"take"})
    /\ Goes(n, [runs[n] EXCEPT !.took = @ \cup AsTaken(Instruction(n))])
    /\ Quiet /\ UNCHANGED fs

\* The hashes of what is in the run's own directory.
ListFiles(n) ==
    /\ LET d == runs[n].script
           Hashed(files) == {<<f, Content(d, f)>> : f \in files}
       IN \/ /\ Is(n, {"list"})
             /\ Goes(n, [runs[n] EXCEPT !.lists =
                    @ \cup Hashed(FilesOf(d) \ (Instruction(n)[2] \cup {Document(d)}))])
          \/ /\ Is(n, {"collect"})
             /\ Goes(n, [runs[n] EXCEPT !.lists =
                    {e \in @ : e[1] # Instruction(n)[2]} \cup Hashed({Instruction(n)[2]})])
    /\ Quiet /\ UNCHANGED fs

-----------------------------------------------------------------------------
(* Writing                                                                 *)

\* Run n writes to a file: what the other runs may notice of it.
Written(rs, n, d) ==
    [m \in DOMAIN rs |->
        IF m = n \/ rs[m].state # "active" THEN rs[m]
        ELSE [rs[m] EXCEPT !.shared = @ \/ rs[m].script = d, !.torn = @ \/ d \in DOMAIN rs[m].ref]]

Store(d, f, content) ==
    fs' = [p \in DOMAIN fs \cup {<<d, f>>} |-> IF p = <<d, f>> THEN content ELSE fs[p]]

\* The file is complete, unless somebody else opened it too.
Finished(d, f, n) == IF Exists(d, f) /\ Content(d, f) = <<n, FALSE>> THEN <<n, TRUE>> ELSE <<0, TRUE>>

MakeDirectory(n) ==
    /\ Is(n, {"newdir"})
    /\ Store(runs[n].script, ".", <<n, TRUE>>)
    /\ Goes(n, runs[n])
    /\ Quiet

\* The file is opened, and empty; a native program loads its inputs.
Open(n) ==
    /\ Is(n, Writes) /\ ~runs[n].half
    /\ LET i == Instruction(n)
           d == runs[n].script
       IN /\ Store(d, i[2], <<n, FALSE>>)
          /\ runs' = Written([runs EXCEPT ![n].half = TRUE, ![n].used = @ \cup AsLoaded(i)], n, d)
    /\ Quiet

\* The file is complete; until then the native program read what it was given.
Finish(n) ==
    /\ Is(n, Writes) /\ runs[n].half
    /\ LET i == Instruction(n)
           d == runs[n].script
       IN /\ Store(d, i[2], Finished(d, i[2], n))
          /\ runs' = Written(After(n, [runs[n] EXCEPT !.used = @ \cup AsLoaded(i),
                                                     !.took = @ \cup AsTaken(i)]), n, d)
    /\ Quiet

-----------------------------------------------------------------------------
(* Starting, raising, killing, editing                                     *)

Running == {n \in Numbers : Active(n)}

Start(job) ==
    /\ job \in plan.jobs
    /\ Len(runs) < plan.starts /\ Cardinality(Running) < plan.active
    /\ runs' = Append(runs, Fresh(job[1], job[2]))
    /\ Quiet /\ UNCHANGED fs

\* The script raises, or exits with an error.
Raise(n) ==
    /\ Active(n) /\ ~Holds(n)
    /\ runs' = [runs EXCEPT ![n] = Stopped(@)]
    /\ Quiet /\ UNCHANGED fs

\* Its process group is gone, native program and all.
KillAll(n) ==
    /\ runs' = [runs EXCEPT ![n] = Stopped(@)]
    /\ UNCHANGED <<plan, fs, orphans, edits>>

\* The script is killed; a native program it waits for goes on.
Kill(n) ==
    /\ Active(n) /\ kills < plan.kills
    /\ kills' = kills + 1
    /\ runs' = [runs EXCEPT ![n] = Stopped(@)]
    /\ orphans' = IF runs[n].half /\ Instruction(n)[1] = "native"
                  THEN orphans \cup {<<runs[n].script, Instruction(n)[2], n>>} ELSE orphans
    /\ UNCHANGED <<plan, fs, edits>>

OrphanWrites(o) ==
    /\ o \in orphans
    /\ orphans' = orphans \ {o}
    /\ Store(o[1], o[2], Finished(o[1], o[2], o[3]))
    /\ runs' = Written(runs, o[3], o[1])
    /\ UNCHANGED <<plan, kills, edits>>

\* Somebody edits, rebuilds or downloads an input.
Edit(x) ==
    /\ x \in plan.editable /\ Len(edits) < plan.edits
    /\ Running # {}
    /\ edits' = Append(edits, x)
    /\ UNCHANGED <<plan, fs, runs, orphans, kills>>

RunInit ==
    /\ plan \in Plans
    /\ fs = <<>> /\ runs = <<>> /\ orphans = {} /\ kills = 0 /\ edits = <<>>

Step(n) ==
    \/ Check(n) \/ HashInput(n) \/ RecheckInput(n) \/ LoadInput(n)
    \/ Observe(n) \/ Call(n) \/ KeepTaps(n)
    \/ ReadManifest(n) \/ NoteManifest(n) \/ TakeFile(n) \/ ListFiles(n)
    \/ MakeDirectory(n) \/ Open(n) \/ Finish(n) \/ Raise(n)

-----------------------------------------------------------------------------
(* Properties                                                              *)

WritesOf(n) ==
    LET p == Program(n)
    IN {p[k][2] : k \in {j \in DOMAIN p : p[j][1] \in Writes}} \ {Document(runs[n].script)}

\* A manifest describes the run that wrote it.  Whatever other runs of the same
\* script did or left behind, a capture that insists on its own directory lists
\* only files of its own, complete; the others at least list all files they
\* wrote, as they wrote them, if nobody wrote there meanwhile.
ManifestIsOwn ==
    \A n \in Numbers :
        Done(n) /\ Has(Program(n), Put("manifest")) =>
            /\ Exclusive(Program(n)) => \A e \in runs[n].lists : e[2] = <<n, TRUE>>
            /\ Exclusive(Program(n)) \/ ~runs[n].shared =>
                   \A f \in WritesOf(n) : <<f, <<n, TRUE>>>> \in runs[n].lists

\* Observation is neutral: the tensors a finished capture saved come from calls
\* whose results are those of an unobserved one, bit by bit where the script
\* compares bits, within the tolerance where it compares with one.
Neutral ==
    \A n \in Numbers :
        Done(n) => runs[n].taps \subseteq
            IF Has(Program(n), Close("seen")) THEN {"plain", "near"} ELSE {"plain"}

\* What a finished comparison read of a capture is what the capture's manifest
\* lists, if the capture was not written to meanwhile; a capture that insists
\* on its own directory cannot be.
Accepted ==
    \A n \in Numbers :
        Done(n) /\ (~runs[n].torn \/ \A d \in DOMAIN runs[n].ref : Exclusive(Program(runs[n].ref[d]))) =>
            \A t \in runs[n].took :
                t[1] \in DOMAIN runs[n].ref =>
                    <<t[2], t[3]>> \in runs[runs[n].ref[t[1]]].lists

Twice == \E j, k \in DOMAIN edits : j # k /\ edits[j] = edits[k]

\* What a finished run hashed before and after is what ran, and what it reports:
\* nothing that is hashed again at the end was different when it was loaded,
\* unless it was edited and edited back.  Not so for a script and a helper that
\* Python loaded before they were hashed.  And what run_body_flow.py reports need
\* not be what it checked: it hashes everything a third time for its report.
IdentityHeld ==
    ~Twice =>
        \A n \in Numbers : Done(n) =>
            \A u \in runs[n].used :
                Has(Program(n), Recheck(u[1])) /\ u[1] \notin Imported =>
                    /\ u \in runs[n].checked
                    /\ runs[n].script \notin ReportsAnew => u \in runs[n].before

=============================================================================
