------------------------- MODULE VerificationProofs -------------------------
(***************************************************************************)
(* Verification for any number of runs, calls, kills and edits, and for    *)
(* all scripts that keep to the rules of ScriptRules: what a finished run  *)
(* reports is so.  Where a run is in its program says what it has done;    *)
(* what it has done says what is in its directory, in those whose          *)
(* manifest it read, and in its lists.                                     *)
(***************************************************************************)
EXTENDS Verification, FiniteSetTheorems, SequenceTheorems, TLAPS

-----------------------------------------------------------------------------
(***************************************************************************)
(* BoundedRun: at most one command at a time, and what a finished report   *)
(* is worth.  The lock passes from the outer to the inner process by being *)
(* given up, so nothing can be said while neither has it; what counts is   *)
(* that an inner process that is past the lock still holds it, and that a  *)
(* command has its inner process.                                          *)
(***************************************************************************)

BoundedType ==
    /\ outer \in [Calls -> {"new", "locked", "reserved", "waiting", "over"}]
    /\ inner \in [Calls -> {"none", "created", "held", "running", "over"}]
    /\ command \in [Calls -> {"none", "running", "over", "killed"}]
    /\ metadata \in [Calls -> {"none", "running", "finished"}]
    /\ reports \in [Reports -> [state : {"none", "empty", "starting", "finished"},
                                owner : Calls \cup {None},
                                execution : {"none", "running", "finished"}]]
    /\ orphaned \in BOOLEAN

\* An inner process that has passed the lock holds it.
Holding == \A p \in Calls : inner[p] \in {"held", "running"} => lock = <<"inner", p>>

\* A command runs under its inner process.
Attended == orphaned \/ \A p \in Calls : command[p] = "running" => inner[p] = "running"

\* A complete record is of a command and a monitor that are over.
Recorded ==
    \A p \in Calls : metadata[p] = "finished" => inner[p] = "over" /\ command[p] = "over"

\* Whoever waits has begun the report, and a report that is begun has an owner.
Owned ==
    /\ \A p \in Calls : outer[p] \in {"reserved", "waiting"} => reports[Report[p]].owner = p
    /\ \A r \in Reports :
           /\ reports[r].state = "none" => reports[r].execution = "none"
           /\ reports[r].execution = "finished" =>
                  reports[r].owner \in Calls /\ metadata[reports[r].owner] = "finished"
    /\ \A p \in Calls : outer[p] \in {"reserved", "waiting"} => reports[Report[p]].state # "none"

\* Before the hand-over there is no inner process, and no record of one.
Unstarted ==
    \A p \in Calls :
        outer[p] \in {"new", "locked", "reserved"} => inner[p] = "none" /\ metadata[p] = "none"

Inductive == BoundedType /\ Holding /\ Attended /\ Recorded /\ Owned /\ Unstarted

LEMMA InductiveInit == BoundedInit => Inductive
<1> SUFFICES ASSUME BoundedInit PROVE Inductive
  OBVIOUS
<1>1. BoundedType
  BY DEF BoundedInit, BoundedType
<1>2. Holding /\ Attended /\ Recorded /\ Unstarted
  BY DEF BoundedInit, Holding, Attended, Recorded, Unstarted
<1>3. Owned
  BY DEF BoundedInit, Owned, Reports
<1> QED BY <1>1, <1>2, <1>3 DEF Inductive

LEMMA ReportsCover == \A p \in Calls : Report[p] \in Reports
  BY DEF Reports

LEMMA InductiveStep == Inductive /\ [BoundedNext]_bounded => Inductive'
<1> SUFFICES ASSUME Inductive, [BoundedNext]_bounded
             PROVE  Inductive'
  OBVIOUS
<1> USE NoneAssumption, ReportsCover DEF Inductive
<1>1. ASSUME NEW p \in Calls, OuterTake(p) PROVE Inductive'
  <2>1. BoundedType'
    BY <1>1 DEF BoundedType, OuterTake
  <2>2. Holding'
    BY <1>1 DEF BoundedType, Holding, OuterTake
  <2>3. Attended'
    BY <1>1 DEF BoundedType, Attended, Holding, Unstarted, OuterTake
  <2>4. Recorded'
    BY <1>1 DEF BoundedType, Recorded, Attended, Unstarted, OuterTake
  <2>5. Owned'
    BY <1>1 DEF BoundedType, Owned, Recorded, OuterTake
  <2>6. Unstarted'
    BY <1>1 DEF BoundedType, Unstarted, OuterTake
  <2> QED BY <2>1, <2>2, <2>3, <2>4, <2>5, <2>6
<1>2. ASSUME NEW p \in Calls, Reserve(p) PROVE Inductive'
  <2>1. BoundedType'
    BY <1>2 DEF BoundedType, Reserve
  <2>2. Holding'
    BY <1>2 DEF BoundedType, Holding, Reserve
  <2>3. Attended'
    BY <1>2 DEF BoundedType, Attended, Holding, Unstarted, Reserve
  <2>4. Recorded'
    BY <1>2 DEF BoundedType, Recorded, Attended, Unstarted, Reserve
  <2>5. Owned'
    BY <1>2 DEF BoundedType, Owned, Recorded, Reserve
  <2>6. Unstarted'
    BY <1>2 DEF BoundedType, Unstarted, Reserve
  <2> QED BY <2>1, <2>2, <2>3, <2>4, <2>5, <2>6
<1>3. ASSUME NEW p \in Calls, HandOver(p) PROVE Inductive'
  <2>1. BoundedType'
    BY <1>3 DEF BoundedType, HandOver, Free
  <2>2. Holding'
    BY <1>3 DEF BoundedType, Holding, HandOver, Free
  <2>3. Attended'
    BY <1>3 DEF BoundedType, Attended, Holding, Unstarted, HandOver, Free
  <2>4. Recorded'
    BY <1>3 DEF BoundedType, Recorded, Attended, Unstarted, HandOver, Free
  <2>5. Owned'
    BY <1>3 DEF BoundedType, Owned, Recorded, HandOver, Free
  <2>6. Unstarted'
    BY <1>3 DEF BoundedType, Unstarted, HandOver, Free
  <2> QED BY <2>1, <2>2, <2>3, <2>4, <2>5, <2>6
<1>4. ASSUME NEW p \in Calls, Refuse(p) PROVE Inductive'
  <2>1. BoundedType'
    BY <1>4 DEF BoundedType, Refuse, Free
  <2>2. Holding'
    BY <1>4 DEF BoundedType, Holding, Refuse, Free
  <2>3. Attended'
    BY <1>4 DEF BoundedType, Attended, Holding, Unstarted, Refuse, Free
  <2>4. Recorded'
    BY <1>4 DEF BoundedType, Recorded, Attended, Unstarted, Refuse, Free
  <2>5. Owned'
    BY <1>4 DEF BoundedType, Owned, Recorded, Refuse, Free
  <2>6. Unstarted'
    BY <1>4 DEF BoundedType, Unstarted, Refuse, Free
  <2> QED BY <2>1, <2>2, <2>3, <2>4, <2>5, <2>6
<1>5. ASSUME NEW p \in Calls, OuterFinish(p) PROVE Inductive'
  <2>1. BoundedType'
    BY <1>5 DEF BoundedType, OuterFinish
  <2>2. Holding'
    BY <1>5 DEF BoundedType, Holding, OuterFinish
  <2>3. Attended'
    BY <1>5 DEF BoundedType, Attended, Holding, Unstarted, OuterFinish
  <2>4. Recorded'
    BY <1>5 DEF BoundedType, Recorded, Attended, Unstarted, OuterFinish
  <2>5. Owned'
    BY <1>5 DEF BoundedType, Owned, Recorded, OuterFinish
  <2>6. Unstarted'
    BY <1>5 DEF BoundedType, Unstarted, OuterFinish
  <2> QED BY <2>1, <2>2, <2>3, <2>4, <2>5, <2>6
<1>6. ASSUME NEW p \in Calls, InnerTake(p) PROVE Inductive'
  <2>1. BoundedType'
    BY <1>6 DEF BoundedType, InnerTake
  <2>2. Holding'
    BY <1>6 DEF BoundedType, Holding, InnerTake
  <2>3. Attended'
    BY <1>6 DEF BoundedType, Attended, Holding, Unstarted, InnerTake
  <2>4. Recorded'
    BY <1>6 DEF BoundedType, Recorded, Attended, Unstarted, InnerTake
  <2>5. Owned'
    BY <1>6 DEF BoundedType, Owned, Recorded, InnerTake
  <2>6. Unstarted'
    BY <1>6 DEF BoundedType, Unstarted, InnerTake
  <2> QED BY <2>1, <2>2, <2>3, <2>4, <2>5, <2>6
<1>7. ASSUME NEW p \in Calls, InnerFail(p) PROVE Inductive'
  <2>1. BoundedType'
    BY <1>7 DEF BoundedType, InnerFail, Free
  <2>2. Holding'
    BY <1>7 DEF BoundedType, Holding, InnerFail, Free
  <2>3. Attended'
    BY <1>7 DEF BoundedType, Attended, Holding, Unstarted, InnerFail, Free
  <2>4. Recorded'
    BY <1>7 DEF BoundedType, Recorded, Attended, Unstarted, InnerFail, Free
  <2>5. Owned'
    BY <1>7 DEF BoundedType, Owned, Recorded, InnerFail, Free
  <2>6. Unstarted'
    BY <1>7 DEF BoundedType, Unstarted, InnerFail, Free
  <2> QED BY <2>1, <2>2, <2>3, <2>4, <2>5, <2>6
<1>8. ASSUME NEW p \in Calls, Execute(p) PROVE Inductive'
  <2>1. BoundedType'
    BY <1>8 DEF BoundedType, Execute
  <2>2. Holding'
    BY <1>8 DEF BoundedType, Holding, Execute
  <2>3. Attended'
    BY <1>8 DEF BoundedType, Attended, Holding, Unstarted, Execute
  <2>4. Recorded'
    BY <1>8 DEF BoundedType, Recorded, Attended, Unstarted, Execute
  <2>5. Owned'
    BY <1>8 DEF BoundedType, Owned, Recorded, Execute
  <2>6. Unstarted'
    BY <1>8 DEF BoundedType, Unstarted, Execute
  <2> QED BY <2>1, <2>2, <2>3, <2>4, <2>5, <2>6
<1>9. ASSUME NEW p \in Calls, InnerFinish(p) PROVE Inductive'
  <2>1. BoundedType'
    BY <1>9 DEF BoundedType, InnerFinish, Free
  <2>2. Holding'
    BY <1>9 DEF BoundedType, Holding, InnerFinish, Free
  <2>3. Attended'
    BY <1>9 DEF BoundedType, Attended, Holding, Unstarted, InnerFinish, Free
  <2>4. Recorded'
    BY <1>9 DEF BoundedType, Recorded, Attended, Unstarted, InnerFinish, Free
  <2>5. Owned'
    BY <1>9 DEF BoundedType, Owned, Recorded, InnerFinish, Free
  <2>6. Unstarted'
    BY <1>9 DEF BoundedType, Unstarted, InnerFinish, Free
  <2> QED BY <2>1, <2>2, <2>3, <2>4, <2>5, <2>6
<1>10. ASSUME NEW p \in Calls, CommandEnds(p) PROVE Inductive'
  <2>1. BoundedType'
    BY <1>10 DEF BoundedType, CommandEnds
  <2>2. Holding'
    BY <1>10 DEF BoundedType, Holding, CommandEnds
  <2>3. Attended'
    BY <1>10 DEF BoundedType, Attended, Holding, Unstarted, CommandEnds
  <2>4. Recorded'
    BY <1>10 DEF BoundedType, Recorded, Attended, Unstarted, CommandEnds
  <2>5. Owned'
    BY <1>10 DEF BoundedType, Owned, Recorded, CommandEnds
  <2>6. Unstarted'
    BY <1>10 DEF BoundedType, Unstarted, CommandEnds
  <2> QED BY <2>1, <2>2, <2>3, <2>4, <2>5, <2>6
<1>11. ASSUME NEW p \in Calls, LoseOuter(p) PROVE Inductive'
  <2>1. BoundedType'
    BY <1>11 DEF BoundedType, LoseOuter, Free, Lose
  <2>2. Holding'
    BY <1>11 DEF BoundedType, Holding, LoseOuter, Free, Lose
  <2>3. Attended'
    BY <1>11 DEF BoundedType, Attended, Holding, Unstarted, LoseOuter, Free, Lose
  <2>4. Recorded'
    BY <1>11 DEF BoundedType, Recorded, Attended, Unstarted, LoseOuter, Free, Lose
  <2>5. Owned'
    BY <1>11 DEF BoundedType, Owned, Recorded, LoseOuter, Free, Lose
  <2>6. Unstarted'
    BY <1>11 DEF BoundedType, Unstarted, LoseOuter, Free, Lose
  <2> QED BY <2>1, <2>2, <2>3, <2>4, <2>5, <2>6
<1>12. ASSUME NEW p \in Calls, LoseScope(p) PROVE Inductive'
  <2>1. BoundedType'
    BY <1>12 DEF BoundedType, LoseScope, Free, Lose
  <2>2. Holding'
    BY <1>12 DEF BoundedType, Holding, LoseScope, Free, Lose
  <2>3. Attended'
    BY <1>12 DEF BoundedType, Attended, Holding, Unstarted, LoseScope, Free, Lose
  <2>4. Recorded'
    BY <1>12 DEF BoundedType, Recorded, Attended, Unstarted, LoseScope, Free, Lose
  <2>5. Owned'
    BY <1>12 DEF BoundedType, Owned, Recorded, LoseScope, Free, Lose
  <2>6. Unstarted'
    BY <1>12 DEF BoundedType, Unstarted, LoseScope, Free, Lose
  <2> QED BY <2>1, <2>2, <2>3, <2>4, <2>5, <2>6
<1>13. ASSUME NEW p \in Calls, LoseMonitor(p) PROVE Inductive'
  <2>1. BoundedType'
    BY <1>13 DEF BoundedType, LoseMonitor, Free, Lose
  <2>2. Holding'
    BY <1>13 DEF BoundedType, Holding, LoseMonitor, Free, Lose
  <2>3. Attended'
    BY <1>13 DEF BoundedType, Attended, Holding, Unstarted, LoseMonitor, Free, Lose
  <2>4. Recorded'
    BY <1>13 DEF BoundedType, Recorded, Attended, Unstarted, LoseMonitor, Free, Lose
  <2>5. Owned'
    BY <1>13 DEF BoundedType, Owned, Recorded, LoseMonitor, Free, Lose
  <2>6. Unstarted'
    BY <1>13 DEF BoundedType, Unstarted, LoseMonitor, Free, Lose
  <2> QED BY <2>1, <2>2, <2>3, <2>4, <2>5, <2>6
<1>14. CASE UNCHANGED bounded
  BY <1>14 DEF bounded, BoundedType, Holding, Attended, Recorded, Owned, Unstarted
<1> QED
  BY <1>1, <1>2, <1>3, <1>4, <1>5, <1>6, <1>7, <1>8, <1>9, <1>10, <1>11, <1>12, <1>13, <1>14 DEF BoundedNext

\* As long as no command has lost its monitor, at most one runs.
THEOREM OneCommandTheorem == BoundedSpec => []OneCommand
<1>1. Inductive => OneCommand
  BY DEF Inductive, BoundedType, Holding, Attended, OneCommand
<1> QED BY <1>1, InductiveInit, InductiveStep, PTL DEF BoundedSpec

\* A report that calls its execution finished is of a command that ended.
THEOREM FinishedIsOverTheorem == BoundedSpec => []FinishedIsOver
<1>1. Inductive => FinishedIsOver
  BY DEF Inductive, Recorded, Owned, FinishedIsOver
<1> QED BY <1>1, InductiveInit, InductiveStep, PTL DEF BoundedSpec

-----------------------------------------------------------------------------
(* Where a run is                                                          *)

Fields == {"script", "opt", "state", "todo", "half", "before", "checked", "used", "lists",
           "values", "watching", "taps", "noted", "ref", "took", "torn", "shared"}

Code(r)  == Programs[r.script][r.opt]
At(r)    == Len(Code(r)) - Len(r.todo) + 1
Ended(r) == 1..(At(r) - 1)
Begun(r) == IF r.half THEN 1..At(r) ELSE Ended(r)

Shape(r) ==
    /\ DOMAIN r = Fields
    /\ r.script \in Scripts /\ r.opt \in Options
    /\ r.state \in {"active", "done", "stopped"} /\ r.half \in BOOLEAN
    /\ r.torn \in BOOLEAN /\ r.shared \in BOOLEAN
    /\ r.state = "active" =>
           /\ At(r) \in 1..Len(Code(r))
           /\ r.todo = SubSeq(Code(r), At(r), Len(Code(r)))
           /\ r.half => Code(r)[At(r)][1] \in Writes
    /\ r.state # "active" => r.todo = <<>> /\ ~r.half

ASequence(s) == s \in Seq({s[k] : k \in DOMAIN s})

Base ==
    /\ plan \in Plans
    /\ ASequence(runs) /\ ASequence(edits)
    /\ \A n \in Numbers : Shape(runs[n])
    /\ \A q \in DOMAIN fs : q = <<q[1], q[2]>> /\ fs[q] \in (Numbers \cup {0}) \X BOOLEAN
    /\ \A o \in orphans : o = <<o[1], o[2], o[3]>> /\ o[3] \in Numbers

-----------------------------------------------------------------------------
(* What one run knows of its inputs and of the original module             *)

\* Hashes and loads, each with the version of its time.
Dated(r) ==
    /\ \A b \in r.before : b = <<b[1], b[2]>> /\ b[2] \in {0, 1}
    /\ \A b, c \in r.before : b[1] = c[1] => b = c
    /\ \A u \in r.used : /\ u = <<u[1], u[2]>> /\ u[2] \in {0, 1}
                         /\ \E j \in Begun(r) : u[1] \in Loaded(Code(r)[j])

\* So far x was hashed before it was loaded.
HashedFirst(r, x) ==
    \A i, j \in Begun(r) : Hashes(Code(r)[i], x) /\ x \in Loaded(Code(r)[j]) => i < j

\* The version of x after the edits e.
VersionAfter(e, x) == Cardinality({k \in DOMAIN e : e[k] = x}) % 2

\* Versions only grow, so a load between two equal hashes is of their version.
Identified(r, e) ==
    /\ \A b \in r.before : b[2] <= VersionAfter(e, b[1])
    /\ \A u \in r.used : u[2] <= VersionAfter(e, u[1])
    /\ \A b \in r.before, u \in r.used :
           b[1] = u[1] /\ HashedFirst(r, u[1]) => b[2] <= u[2]
    /\ \A m \in Ended(r), u \in r.used :
           Code(r)[m][1] = "recheck" /\ Code(r)[m][2] = u[1] /\ u[1] \notin Imported =>
               u \in r.checked /\ (r.script \notin ReportsAnew => u \in r.before)

\* An observer is in place since its watch.
Watched(r) ==
    \A o \in r.watching : \E j \in Ended(r) :
        /\ Code(r)[j][1] = "watch" /\ Code(r)[j][2] = o
        /\ \A m \in (j + 1)..(At(r) - 1) : ~Ends(Code(r)[m], o)

\* The results of the calls, since the call.
Called(r) ==
    /\ \A x, y \in r.values : x = <<x[1], x[2]>> /\ (x[1] = y[1] => x = y)
    /\ \A x \in r.values : \E j \in Ended(r) : Stands(Code(r), j, At(r)) /\ Code(r)[j][2] = x[1]
    /\ \A j \in Ended(r) : BasePass(Code(r)[j]) => \E x \in r.values : x[1] = "base"
    /\ \A x \in r.values : x[1] = "base" => x[2] = "plain"

\* Compared is equal, or near.
Found(r) ==
    \A x \in r.values, j, m \in Ended(r) :
        Stands(Code(r), j, At(r)) /\ Code(r)[j][2] = x[1] /\ j < m =>
            /\ Code(r)[m] = Same(x[1]) => x[2] = "plain"
            /\ Code(r)[m] = Close(x[1]) => x[2] \in {"plain", "near"}

Kept(r) ==
    \A t \in r.taps :
        t = "plain" \/ (t = "near" /\ \E k \in Ended(r) : Code(r)[k] = Close("seen"))

Observed(r) == r.state = "active" => Watched(r) /\ Called(r) /\ Found(r)

RunsKnow ==
    \A n \in Numbers :
        /\ Dated(runs[n]) /\ (~Twice => Identified(runs[n], edits))
        /\ Observed(runs[n]) /\ Kept(runs[n])

-----------------------------------------------------------------------------
(* What is in the directories                                              *)

Claimed(r) == \E c \in Begun(r) : Code(r)[c] = New("case0")
Owner(d)   == Content(d, "case0")[1]

Sole(d) == d \in Scripts /\ \E o \in Options : Exclusive(Programs[d][o])

\* What is left behind is of runs that were killed.
Left == \A o \in orphans : runs[o[3]].state = "stopped"

\* In a directory of an exclusive script everything is of the run that created
\* the first case.
OneOwner(d) ==
    /\ \A q \in DOMAIN fs : q[1] = d =>
           /\ Exists(d, "case0") /\ fs[q][1] = Owner(d)
           /\ Active(Owner(d)) => \E j \in Begun(runs[Owner(d)]) :
                                      WritesTo(Code(runs[Owner(d)])[j], q[2])
    /\ Exists(d, "case0") => Owner(d) \in Numbers /\ runs[Owner(d)].script = d
    /\ \A n \in Numbers :
           runs[n].script = d /\ runs[n].state # "stopped" /\ Claimed(runs[n]) =>
               Exists(d, "case0") /\ Owner(d) = n
    /\ \A o \in orphans : o[1] # d

Claims == \A d \in Scripts : Sole(d) => OneOwner(d)

Undisturbed(n) == Exclusive(Code(runs[n])) \/ ~runs[n].shared

\* What an undisturbed run wrote is there.
Intact(n) ==
    \A j \in Begun(runs[n]) : Code(runs[n])[j][1] \in Writes =>
        /\ Exists(runs[n].script, Code(runs[n])[j][2])
        /\ Content(runs[n].script, Code(runs[n])[j][2]) =
               IF runs[n].half /\ Code(runs[n])[At(runs[n])][2] = Code(runs[n])[j][2]
               THEN <<n, FALSE>> ELSE <<n, TRUE>>

Stays == \A n \in Numbers : Active(n) /\ Undisturbed(n) => Intact(n)

\* What was written and then listed is in the list; in that of an exclusive
\* script nothing else is.
Hashed ==
    \A n \in Numbers : runs[n].state # "stopped" =>
        /\ Exclusive(Code(runs[n])) => \A e \in runs[n].lists : e[2] = <<n, TRUE>>
        /\ Undisturbed(n) => \A j, i \in Ended(runs[n]) :
               /\ j < i /\ Code(runs[n])[j][1] \in Writes
               /\ Lists(Code(runs[n])[i], Code(runs[n])[j][2])
               /\ Code(runs[n])[j][2] # Document(runs[n].script)
               => <<Code(runs[n])[j][2], <<n, TRUE>>>> \in runs[n].lists

-----------------------------------------------------------------------------
(* What is read of other directories                                       *)

\* A complete manifest is of a run that is done.
Documents ==
    /\ \A q \in DOMAIN fs : q[2] = Document(q[1]) /\ fs[q][2] /\ fs[q][1] # 0 =>
           fs[q][1] \in Numbers /\ Done(fs[q][1]) /\ runs[fs[q][1]].script = q[1]
    /\ \A o \in orphans : o[2] # Document(o[1])

ReadBefore(r, d, i) == \E k \in 1..(i - 1) : Code(r)[k][1] = "read" /\ Code(r)[k][2] = d

Refers ==
    \A n \in Numbers : runs[n].state # "stopped" =>
        /\ \A d \in DOMAIN runs[n].ref :
               LET w == runs[n].ref[d]
               IN /\ d # runs[n].script /\ ReadBefore(runs[n], d, At(runs[n]))
                  /\ w \in Numbers /\ Done(w) /\ runs[w].script = d
        /\ \A k \in Ended(runs[n]) :
               Code(runs[n])[k][1] = "read" => Code(runs[n])[k][2] \in DOMAIN runs[n].ref

\* Nobody writes to d any more, as far as run n notices.
Frozen(n, d) ==
    d \in DOMAIN runs[n].ref /\ (~runs[n].torn \/ Exclusive(Code(runs[runs[n].ref[d]])))

InManifest(n, d, f, c) == <<f, c>> \in runs[runs[n].ref[d]].lists

\* What was taken is as it was, and what was compared as it was listed.
Takes ==
    \A n \in Numbers : runs[n].state # "stopped" =>
        \A t \in runs[n].took :
            /\ t = <<t[1], t[2], t[3]>>
            /\ \E j \in Ended(runs[n]) : <<t[1], t[2]>> \in Taken(Code(runs[n])[j])
            /\ Active(n) /\ Frozen(n, t[1]) =>
                   <<t[1], t[2]>> \in DOMAIN fs /\ fs[<<t[1], t[2]>>] = t[3]
            /\ \A i \in Ended(runs[n]) :
                   /\ Frozen(n, t[1]) /\ ReadBefore(runs[n], t[1], i)
                   /\ Code(runs[n])[i] = Listed(t[1], t[2])
                   => InManifest(n, t[1], t[2], t[3])

Compares ==
    \A n \in Numbers : Active(n) =>
        \A d, f : \A i \in Ended(runs[n]) :
            Code(runs[n])[i] = Listed(d, f) /\ Frozen(n, d) /\ ReadBefore(runs[n], d, i) =>
                <<d, f>> \in DOMAIN fs /\ InManifest(n, d, f, fs[<<d, f>>])

-----------------------------------------------------------------------------
(* Under run_bounded.py                                                    *)

Attending(n) == \E p \in Calls : command[p] = "running" /\ running[p] = n

\* Every run is the command of a call, so that no two run at once, and each
\* lists only what it wrote.
Bounds ==
    /\ DOMAIN running = Calls
    /\ plan.bounded =>
           /\ orphans = {}
           /\ \A n \in Numbers : \E job \in plan.jobs : job[1] = runs[n].script
           /\ ~orphaned => \A n \in Numbers :
                  /\ Active(n) => ~runs[n].shared /\ Attending(n)
                  /\ \A e \in runs[n].lists : e[2] = <<n, TRUE>>

-----------------------------------------------------------------------------
(* Programs and records                                                    *)

\* What the rules of a script are about.
LEMMA ProgramFacts ==
    ASSUME NEW s \in Scripts, NEW o \in Options
    PROVE  /\ Orderly(Programs[s][o], s)
           /\ Len(Programs[s][o]) \in Nat \ {0}
           /\ DOMAIN Programs[s][o] = 1..Len(Programs[s][o])
           /\ ASequence(Programs[s][o])
<1>1. Orderly(Programs[s][o], s)
  BY ProgramsAssumption
<1>2. ASequence(Programs[s][o]) /\ Programs[s][o] # <<>>
  BY <1>1 DEF Orderly, ASequence
<1> QED BY <1>1, <1>2, LenProperties, EmptySeq DEF ASequence

\* The rest of a program, from an instruction on.
LEMMA Coming ==
    ASSUME NEW p, ASequence(p), NEW a \in 1..Len(p)
    PROVE  /\ Head(SubSeq(p, a, Len(p))) = p[a]
           /\ Tail(SubSeq(p, a, Len(p))) = SubSeq(p, a + 1, Len(p))
           /\ Len(SubSeq(p, a, Len(p))) = Len(p) - a + 1
<1> DEFINE S == {p[k] : k \in DOMAIN p}
           t == SubSeq(p, a, Len(p))
<1>1. p \in Seq(S) /\ Len(p) \in Nat /\ DOMAIN p = 1..Len(p)
  BY LenProperties DEF ASequence
<1>2. Head(t) = p[a] /\ Tail(t) = SubSeq(p, a + 1, Len(p))
  BY <1>1, HeadTailOfSubSeq
<1>3. \A i \in a..Len(p) : p[i] \in S
  BY <1>1
<1>4. Len(t) = Len(p) - a + 1
  BY <1>1, <1>3, SubSeqProperties
<1> QED BY <1>2, <1>4

\* The instruction that an active run is at.
LEMMA Current ==
    ASSUME NEW r, Shape(r), r.state = "active"
    PROVE  /\ Head(r.todo) = Code(r)[At(r)]
           /\ At(r) \in Nat /\ Len(Code(r)) \in Nat /\ At(r) >= 1 /\ At(r) <= Len(Code(r))
           /\ Len(r.todo) = Len(Code(r)) - At(r) + 1
           /\ Tail(r.todo) = SubSeq(Code(r), At(r) + 1, Len(Code(r)))
           /\ DOMAIN Code(r) = 1..Len(Code(r)) /\ Orderly(Code(r), r.script)
<1>1. ASequence(Code(r)) /\ Len(Code(r)) \in Nat /\ DOMAIN Code(r) = 1..Len(Code(r))
      /\ Orderly(Code(r), r.script)
  BY ProgramFacts DEF Shape, Code
<1>2. At(r) \in 1..Len(Code(r)) /\ r.todo = SubSeq(Code(r), At(r), Len(Code(r)))
  BY DEF Shape
<1> HIDE DEF Shape
<1>3. \A a \in 1..Len(Code(r)) :
        /\ Head(SubSeq(Code(r), a, Len(Code(r)))) = Code(r)[a]
        /\ Tail(SubSeq(Code(r), a, Len(Code(r)))) = SubSeq(Code(r), a + 1, Len(Code(r)))
        /\ Len(SubSeq(Code(r), a, Len(Code(r)))) = Len(Code(r)) - a + 1
  BY <1>1, Coming
<1>4. At(r) \in Nat /\ At(r) >= 1 /\ At(r) <= Len(Code(r))
  BY <1>1, <1>2
<1>5. /\ Head(r.todo) = Code(r)[At(r)]
      /\ Tail(r.todo) = SubSeq(Code(r), At(r) + 1, Len(Code(r)))
      /\ Len(r.todo) = Len(Code(r)) - At(r) + 1
  BY <1>2, <1>3, Zenon
<1> QED BY <1>1, <1>4, <1>5

\* Where a run that is not active is.
LEMMA AtTheEnd ==
    ASSUME NEW r, Shape(r), r.state # "active"
    PROVE  /\ At(r) = Len(Code(r)) + 1 /\ Len(Code(r)) \in Nat /\ At(r) \in Nat
           /\ Ended(r) = DOMAIN Code(r) /\ Begun(r) = DOMAIN Code(r)
           /\ Orderly(Code(r), r.script)
<1>1. Len(Code(r)) \in Nat /\ DOMAIN Code(r) = 1..Len(Code(r)) /\ Orderly(Code(r), r.script)
  BY ProgramFacts DEF Shape, Code
<1>2. Len(r.todo) = 0 /\ ~r.half
  BY EmptySeq DEF Shape
<1> QED BY <1>1, <1>2 DEF At, Ended, Begun

\* A run that goes on, as After has it.
Advance(r) ==
    IF Len(r.todo) > 1 THEN [r EXCEPT !.todo = Tail(@), !.half = FALSE]
    ELSE [r EXCEPT !.todo = <<>>, !.half = FALSE, !.state = "done",
                   !.values = {}, !.watching = {}]

\* s is one instruction further than r, in a program that begins like that of r.
Onward(r, s) ==
    /\ Shape(s) /\ s.script = r.script /\ s.state \in {"active", "done"}
    /\ \A j \in 1..At(r) : Code(s)[j] = Code(r)[j]
    /\ Exclusive(Code(s)) = Exclusive(Code(r))
    /\ At(s) = At(r) + 1 /\ ~s.half /\ Ended(s) = 1..At(r) /\ Begun(s) = 1..At(r)
    /\ s.torn = r.torn /\ s.shared = r.shared

\* What Advance makes of an active run.
LEMMA Advances ==
    ASSUME NEW r, Shape(r), r.state = "active", NEW s, s = Advance(r)
    PROVE  /\ Onward(r, s)
           /\ s.before = r.before /\ s.checked = r.checked /\ s.used = r.used /\ s.lists = r.lists
           /\ s.taps = r.taps /\ s.ref = r.ref /\ s.took = r.took
           /\ s.state = "active" => s.values = r.values /\ s.watching = r.watching
<1>1. /\ Len(r.todo) = Len(Code(r)) - At(r) + 1 /\ Len(Code(r)) \in Nat
      /\ At(r) \in Nat /\ At(r) >= 1 /\ At(r) <= Len(Code(r))
      /\ Tail(r.todo) = SubSeq(Code(r), At(r) + 1, Len(Code(r)))
  BY Current
<1>2. DOMAIN r = Fields /\ r.script \in Scripts /\ r.opt \in Options
      /\ r.torn \in BOOLEAN /\ r.shared \in BOOLEAN
  BY DEF Shape
<1>3. /\ DOMAIN s = Fields /\ s.script = r.script /\ s.opt = r.opt
      /\ s.torn = r.torn /\ s.shared = r.shared /\ s.half = FALSE
      /\ s.torn \in BOOLEAN /\ s.shared \in BOOLEAN
      /\ s.before = r.before /\ s.checked = r.checked /\ s.used = r.used /\ s.lists = r.lists
      /\ s.taps = r.taps /\ s.ref = r.ref /\ s.took = r.took
  BY <1>2 DEF Advance, Fields
<1>4. Code(s) = Code(r)
  BY <1>3 DEF Code
<1>5. CASE Len(r.todo) > 1
  <2>1. s.todo = SubSeq(Code(r), At(r) + 1, Len(Code(r))) /\ s.state = "active"
        /\ s.values = r.values /\ s.watching = r.watching
    BY <1>1, <1>2, <1>5 DEF Advance, Fields
  <2>2. At(r) + 1 \in 1..Len(Code(r))
    BY <1>1, <1>5
  <2>3. ASequence(Code(r))
    BY ProgramFacts, <1>2 DEF Code
  <2>4. Len(s.todo) = Len(Code(r)) - At(r)
    BY <2>1, <2>2, <2>3, <1>1, Coming
  <2>5. At(s) = At(r) + 1
    BY <2>4, <1>4, <1>1 DEF At
  <2>6. Shape(s)
    BY <1>2, <1>3, <1>4, <2>1, <2>2, <2>5 DEF Shape
  <2>7. Ended(s) = 1..At(r) /\ Begun(s) = 1..At(r)
    BY <1>3, <2>5, <1>1 DEF Ended, Begun
  <2> QED BY <1>3, <1>4, <2>1, <2>5, <2>6, <2>7 DEF Onward
<1>6. CASE ~(Len(r.todo) > 1)
  <2>1. s.todo = <<>> /\ s.state = "done"
    BY <1>6, <1>2 DEF Advance, Fields
  <2>2. Len(s.todo) = 0
    BY <2>1, EmptySeq
  <2>3. At(s) = Len(Code(r)) + 1 /\ At(r) = Len(Code(r))
    BY <2>2, <1>4, <1>1, <1>6 DEF At
  <2>4. Shape(s)
    BY <1>2, <1>3, <2>1 DEF Shape
  <2>5. Ended(s) = 1..At(r) /\ Begun(s) = 1..At(r)
    BY <1>3, <2>3, <1>1 DEF Ended, Begun
  <2> QED BY <1>3, <1>4, <2>1, <2>3, <2>4, <2>5 DEF Onward
<1> QED BY <1>5, <1>6

-----------------------------------------------------------------------------
(* What a step does to the runs                                            *)

\* s is r, but for what other runs did.
Kin(r, s) ==
    /\ DOMAIN s = Fields /\ s.script = r.script /\ s.opt = r.opt /\ s.state = r.state
    /\ s.todo = r.todo /\ s.half = r.half /\ s.before = r.before /\ s.checked = r.checked /\ s.used = r.used
    /\ s.lists = r.lists /\ s.values = r.values /\ s.watching = r.watching
    /\ s.taps = r.taps /\ s.ref = r.ref /\ s.took = r.took
    /\ s.torn \in BOOLEAN /\ s.shared \in BOOLEAN
    /\ (r.torn => s.torn) /\ (r.shared => s.shared)

\* Such a run is where it was.
LEMMA KinFacts ==
    ASSUME NEW r, NEW s, Shape(r), Kin(r, s)
    PROVE  Shape(s) /\ Code(s) = Code(r) /\ At(s) = At(r) /\ Ended(s) = Ended(r) /\ Begun(s) = Begun(r)
<1>1. Code(s) = Code(r)
  BY DEF Kin, Code
<1>2. At(s) = At(r)
  BY <1>1 DEF Kin, At
<1>3. Ended(s) = Ended(r) /\ Begun(s) = Begun(r)
  BY <1>2 DEF Kin, Ended, Begun
<1> QED BY <1>1, <1>2, <1>3 DEF Kin, Shape

\* The other runs, when run n writes to directory d, or writes nothing.
Aside(n) == \A m \in Numbers : m # n => runs'[m] = runs[m]

Noticed(n, d) ==
    \A m \in Numbers : m # n =>
        /\ Kin(runs[m], runs'[m])
        /\ ~Active(m) => runs'[m] = runs[m]
        /\ Active(m) /\ runs[m].script = d => runs'[m].shared
        /\ Active(m) /\ d \in DOMAIN runs[m].ref => runs'[m].torn

\* A function on 1..k is a sequence.
LEMMA FunctionIsSequence ==
    ASSUME NEW k \in Nat, NEW f, f = [i \in 1..k |-> f[i]]
    PROVE  ASequence(f) /\ Len(f) = k /\ DOMAIN f = 1..k
<1> DEFINE S == {f[i] : i \in DOMAIN f}
<1>1. DOMAIN f = 1..k
  OBVIOUS
<1>2. f \in [1..k -> S]
  BY <1>1
<1>3. f \in Seq(S)
  BY <1>2, SeqDef
<1>4. DOMAIN f = 1..Len(f) /\ Len(f) \in Nat
  BY <1>3, LenProperties
<1> QED BY <1>1, <1>3, <1>4 DEF ASequence

\* What is known of the sequence of runs.
LEMMA RunsFacts ==
    Base => Len(runs) \in Nat /\ Numbers = 1..Len(runs) /\ 0 \notin Numbers
  BY LenProperties DEF Base, ASequence, Numbers

\* Replacing one run.
LEMMA Replaced ==
    ASSUME Base, NEW n \in Numbers, NEW s, runs' = [runs EXCEPT ![n] = s]
    PROVE  /\ ASequence(runs)' /\ Numbers' = Numbers /\ Len(runs') = Len(runs)
           /\ runs'[n] = s /\ Aside(n)
<1>1. Len(runs) \in Nat /\ Numbers = 1..Len(runs)
  BY RunsFacts
<1>2. runs' = [i \in 1..Len(runs) |-> runs'[i]]
  BY <1>1 DEF Numbers
<1>3. ASequence(runs') /\ Len(runs') = Len(runs) /\ DOMAIN runs' = 1..Len(runs)
  BY <1>1, <1>2, FunctionIsSequence
<1> QED BY <1>1, <1>3 DEF Numbers, Aside, ASequence

\* One run writes: the others notice.
LEMMA WrittenFacts ==
    ASSUME NEW rs, NEW n, NEW d, NEW k \in Nat, DOMAIN rs = 1..k,
           \A m \in 1..k : DOMAIN rs[m] = Fields /\ rs[m].torn \in BOOLEAN /\ rs[m].shared \in BOOLEAN,
           NEW ws, ws = Written(rs, n, d)
    PROVE  /\ ASequence(ws) /\ Len(ws) = k /\ DOMAIN ws = 1..k
           /\ n \in 1..k => ws[n] = rs[n]
           /\ \A m \in 1..k : m # n =>
                  /\ Kin(rs[m], ws[m])
                  /\ rs[m].state # "active" => ws[m] = rs[m]
                  /\ rs[m].state = "active" /\ rs[m].script = d => ws[m].shared
                  /\ rs[m].state = "active" /\ d \in DOMAIN rs[m].ref => ws[m].torn
<1>1. ws = [i \in 1..k |-> ws[i]] /\ DOMAIN ws = 1..k
  BY DEF Written
<1>2. ASequence(ws) /\ Len(ws) = k
  BY <1>1, FunctionIsSequence
<1>3. n \in 1..k => ws[n] = rs[n]
  BY DEF Written
<1>4. ASSUME NEW m \in 1..k, m # n
      PROVE  /\ Kin(rs[m], ws[m])
             /\ rs[m].state # "active" => ws[m] = rs[m]
             /\ rs[m].state = "active" /\ rs[m].script = d => ws[m].shared
             /\ rs[m].state = "active" /\ d \in DOMAIN rs[m].ref => ws[m].torn
  <2>1. CASE rs[m].state # "active"
    <3>1. ws[m] = rs[m]
      BY <1>4, <2>1 DEF Written
    <3> QED BY <2>1, <3>1 DEF Kin
  <2>2. CASE rs[m].state = "active"
    <3> DEFINE sh == rs[m].shared \/ rs[m].script = d
               to == rs[m].torn \/ d \in DOMAIN rs[m].ref
    <3>1. ws[m] = [rs[m] EXCEPT !.shared = sh, !.torn = to]
      BY <1>4, <2>2 DEF Written
    <3>2. sh \in BOOLEAN /\ to \in BOOLEAN
      OBVIOUS
    <3> HIDE DEF sh, to
    <3>3. /\ DOMAIN ws[m] = Fields /\ ws[m].shared = sh /\ ws[m].torn = to
          /\ \A f \in Fields \ {"shared", "torn"} : ws[m][f] = rs[m][f]
      BY <3>1 DEF Fields
    <3>4. (rs[m].shared => sh) /\ (rs[m].torn => to) /\ (rs[m].script = d => sh)
          /\ (d \in DOMAIN rs[m].ref => to)
      BY DEF sh, to
    <3> QED BY <2>2, <3>2, <3>3, <3>4 DEF Kin, Fields
  <2> QED BY <2>1, <2>2
<1> QED BY <1>1, <1>2, <1>3, <1>4

\* What each instruction does to what a run knows.
NextBefore(r, i) ==
    IF i[1] \in {"pinned", "hash"} THEN {b \in r.before : b[1] # i[2]} \cup {<<i[2], Version(i[2])>>}
    ELSE r.before

NextChecked(r, i) ==
    IF i[1] = "recheck" THEN r.checked \cup {<<i[2], Version(i[2])>>} ELSE r.checked

HashOf(d, files) == {<<f, Content(d, f)>> : f \in files}

NextLists(r, i) ==
    IF i[1] = "list" THEN r.lists \cup HashOf(r.script, FilesOf(r.script) \ (i[2] \cup {Document(r.script)}))
    ELSE IF i[1] = "collect" THEN {e \in r.lists : e[1] # i[2]} \cup HashOf(r.script, {i[2]})
    ELSE r.lists

Seen(r) == {x \in r.values : x[1] \in {"part", "seen"}}
Tapped(r) == IF Seen(r) = {} THEN {x \in r.values : x[1] = "base"} ELSE Seen(r)
NextTaps(r, i) == IF i[1] = "keep" THEN r.taps \cup {x[2] : x \in Tapped(r)} ELSE r.taps

NextRef(r, i) ==
    IF i[1] = "read"
    THEN [e \in DOMAIN r.ref \cup {i[2]} |->
              IF e = i[2] THEN Content(i[2], Document(i[2]))[1] ELSE r.ref[e]]
    ELSE r.ref

NextWatching(r, i) ==
    IF i[1] = "build" THEN r.watching \ {"hook"}
    ELSE IF i[1] = "watch" THEN r.watching \cup {i[2]}
    ELSE IF i[1] = "unwatch" THEN r.watching \ {i[2]}
    ELSE r.watching

Results(r) == IF r.watching = {} THEN {"plain"} ELSE {"plain", "near", "off"}
NextValues(r, i, result) ==
    (IF i[2] = "base" THEN {} ELSE {x \in r.values : x[1] # i[2]}) \cup {<<i[2], result>>}

\* s is r after its instruction i.
Does(r, i, s) ==
    /\ Onward(r, s)
    /\ s.before = NextBefore(r, i) /\ s.checked = NextChecked(r, i)
    /\ s.used = r.used \cup AsLoaded(i)
    /\ s.took = r.took \cup AsTaken(i) /\ s.lists = NextLists(r, i)
    /\ s.taps = NextTaps(r, i) /\ s.ref = NextRef(r, i)
    /\ s.state = "active" =>
           /\ s.watching = NextWatching(r, i)
           /\ i[1] # "pass" => s.values = r.values
           /\ i[1] = "pass" => \E result \in Results(r) : s.values = NextValues(r, i, result)

\* The instruction that run n is at.
Now(n) == Program(n)[At(runs[n])]

Moved(n) ==
    /\ n \in Numbers /\ Active(n) /\ Holds(n) /\ Instruction(n) = Now(n)
    /\ Numbers' = Numbers /\ ASequence(runs)'
    /\ Does(runs[n], Now(n), runs'[n])

\* r1 is r with other knowledge.
Learns(r, r1) ==
    /\ DOMAIN r1 = Fields /\ r1.script = r.script /\ r1.opt = r.opt /\ r1.state = r.state
    /\ r1.todo = r.todo /\ r1.half = r.half /\ r1.torn = r.torn /\ r1.shared = r.shared

\* Such a run is where it was.
LEMMA LearnsFacts ==
    ASSUME NEW r, NEW r1, Shape(r), Learns(r, r1)
    PROVE  Shape(r1) /\ Code(r1) = Code(r) /\ At(r1) = At(r)
<1>1. Code(r1) = Code(r)
  BY DEF Learns, Code
<1>2. At(r1) = At(r)
  BY <1>1 DEF Learns, At
<1> QED BY <1>1, <1>2 DEF Learns, Shape

\* A run that goes on.
LEMMA GoesOn ==
    ASSUME Base, NEW n \in Numbers, Active(n), NEW r1, Learns(runs[n], r1), NEW rs, rs = After(n, r1)
    PROVE  /\ ASequence(rs) /\ Len(rs) = Len(runs) /\ DOMAIN rs = 1..Len(runs)
           /\ \A m \in Numbers : m # n => rs[m] = runs[m]
           /\ Onward(runs[n], rs[n])
           /\ rs[n].before = r1.before /\ rs[n].checked = r1.checked /\ rs[n].used = r1.used /\ rs[n].lists = r1.lists
           /\ rs[n].taps = r1.taps /\ rs[n].ref = r1.ref /\ rs[n].took = r1.took
           /\ rs[n].state = "active" => rs[n].values = r1.values /\ rs[n].watching = r1.watching
<1>1. Len(runs) \in Nat /\ Numbers = 1..Len(runs) /\ Shape(runs[n])
  BY RunsFacts DEF Base
<1>2. rs = [runs EXCEPT ![n] = Advance(r1)]
  BY DEF After, Advance
<1>3. rs = [i \in 1..Len(runs) |-> rs[i]]
  BY <1>1, <1>2 DEF Numbers
<1>4. ASequence(rs) /\ Len(rs) = Len(runs) /\ DOMAIN rs = 1..Len(runs)
  BY <1>1, <1>3, FunctionIsSequence
<1>5. rs[n] = Advance(r1) /\ \A m \in Numbers : m # n => rs[m] = runs[m]
  BY <1>1, <1>2 DEF Numbers
<1>6. Shape(r1) /\ Code(r1) = Code(runs[n]) /\ At(r1) = At(runs[n])
      /\ r1.state = "active" /\ r1.torn = runs[n].torn /\ r1.shared = runs[n].shared
      /\ r1.script = runs[n].script
  BY <1>1, LearnsFacts DEF Learns, Active
<1>7. /\ Onward(r1, rs[n])
      /\ rs[n].before = r1.before /\ rs[n].checked = r1.checked /\ rs[n].used = r1.used /\ rs[n].lists = r1.lists
      /\ rs[n].taps = r1.taps /\ rs[n].ref = r1.ref /\ rs[n].took = r1.took
      /\ rs[n].state = "active" => rs[n].values = r1.values /\ rs[n].watching = r1.watching
  BY <1>5, <1>6, Advances
<1>8. Onward(runs[n], rs[n])
  BY <1>6, <1>7 DEF Onward
<1> QED BY <1>4, <1>5, <1>7, <1>8

\* An active run is at its instruction.
LEMMA AtInstruction ==
    ASSUME Base, NEW n \in Numbers, Active(n)
    PROVE  Shape(runs[n]) /\ runs[n].state = "active" /\ Instruction(n) = Now(n)
           /\ DOMAIN runs[n] = Fields
  BY Current DEF Base, Active, Instruction, Now, Program, Code, Shape

\* What an instruction leaves alone.
LEMMA Idle ==
    ASSUME NEW r, NEW i
    PROVE  /\ i[1] \notin {"pinned", "hash"} => NextBefore(r, i) = r.before
           /\ i[1] # "recheck" => NextChecked(r, i) = r.checked
           /\ i[1] \notin {"load", "native"} => r.used \cup AsLoaded(i) = r.used
           /\ i[1] \notin {"take", "native"} => r.took \cup AsTaken(i) = r.took
           /\ i[1] \notin {"list", "collect"} => NextLists(r, i) = r.lists
           /\ i[1] # "keep" => NextTaps(r, i) = r.taps
           /\ i[1] # "read" => NextRef(r, i) = r.ref
           /\ i[1] \notin {"build", "watch", "unwatch"} => NextWatching(r, i) = r.watching
<1>1. i[1] \notin {"load", "native"} => AsLoaded(i) = {}
  BY DEF AsLoaded, Loaded
<1>2. i[1] \notin {"take", "native"} => AsTaken(i) = {}
  BY DEF AsTaken, Taken
<1> QED BY <1>1, <1>2 DEF NextBefore, NextChecked, NextLists, NextTaps, NextRef, NextWatching

\* Going on with r1, if r1 knows what the instruction tells.
LEMMA GoesMoves ==
    ASSUME Base, NEW n \in Numbers, Active(n), Holds(n), NEW r1, Learns(runs[n], r1), Goes(n, r1),
           r1.before = NextBefore(runs[n], Now(n)), r1.checked = NextChecked(runs[n], Now(n)),
           r1.used = runs[n].used \cup AsLoaded(Now(n)),
           r1.took = runs[n].took \cup AsTaken(Now(n)), r1.lists = NextLists(runs[n], Now(n)),
           r1.taps = NextTaps(runs[n], Now(n)), r1.ref = NextRef(runs[n], Now(n)),
           r1.watching = NextWatching(runs[n], Now(n)),
           Now(n)[1] # "pass" => r1.values = runs[n].values,
           Now(n)[1] = "pass" => \E result \in Results(runs[n]) :
                                     r1.values = NextValues(runs[n], Now(n), result)
    PROVE  Moved(n) /\ Aside(n)
<1>1. runs' = After(n, r1)
  BY DEF Goes
<1>2. /\ ASequence(runs') /\ DOMAIN runs' = 1..Len(runs)
      /\ \A m \in Numbers : m # n => runs'[m] = runs[m]
      /\ Onward(runs[n], runs'[n])
      /\ runs'[n].before = r1.before /\ runs'[n].checked = r1.checked /\ runs'[n].used = r1.used /\ runs'[n].lists = r1.lists
      /\ runs'[n].taps = r1.taps /\ runs'[n].ref = r1.ref /\ runs'[n].took = r1.took
      /\ runs'[n].state = "active" => runs'[n].values = r1.values /\ runs'[n].watching = r1.watching
  BY <1>1, GoesOn
<1>3. Numbers' = Numbers
  BY <1>2, RunsFacts DEF Numbers
<1>4. Does(runs[n], Now(n), runs'[n])
  BY <1>2 DEF Does
<1> QED BY <1>2, <1>3, <1>4, AtInstruction DEF Moved, Aside, ASequence

\* A run that goes on as it was.
LEMMA GoesAsItWas ==
    ASSUME Base, NEW n \in Numbers, Active(n), Holds(n), Goes(n, runs[n]),
           Now(n)[1] \in {"empty", "same", "close", "listed", "made", "newdir"}
    PROVE  Moved(n) /\ Aside(n)
<1>1. Learns(runs[n], runs[n])
  BY AtInstruction DEF Learns
<1> QED BY <1>1, GoesMoves, Idle

\* Then the instructions that read, one by one, and making a directory.
LEMMA CheckMoves ==
    ASSUME Base, NEW n \in Numbers, Check(n)
    PROVE  Moved(n) /\ Aside(n)
  BY GoesAsItWas, AtInstruction DEF Check, Is

\* Making a directory changes nothing in the run itself.
LEMMA MakeDirectoryMoves ==
    ASSUME Base, NEW n \in Numbers, MakeDirectory(n)
    PROVE  Moved(n) /\ Aside(n)
  BY GoesAsItWas, AtInstruction DEF MakeDirectory, Is

\* Hashing an input replaces what was known of it.
LEMMA HashInputMoves ==
    ASSUME Base, NEW n \in Numbers, HashInput(n)
    PROVE  Moved(n) /\ Aside(n)
<1> DEFINE r1 == [runs[n] EXCEPT !.before = NextBefore(runs[n], Now(n))]
<1>1. Active(n) /\ Holds(n) /\ Instruction(n) = Now(n) /\ Now(n)[1] \in {"pinned", "hash"}
      /\ Shape(runs[n]) /\ DOMAIN runs[n] = Fields
  BY AtInstruction DEF HashInput, Is
<1>2. Goes(n, r1)
  BY <1>1 DEF HashInput, NextBefore
<1>3. Learns(runs[n], r1) /\ r1.before = NextBefore(runs[n], Now(n))
      /\ r1.checked = runs[n].checked /\ r1.used = runs[n].used
      /\ r1.took = runs[n].took /\ r1.lists = runs[n].lists /\ r1.taps = runs[n].taps
      /\ r1.ref = runs[n].ref /\ r1.watching = runs[n].watching /\ r1.values = runs[n].values
  BY <1>1 DEF Learns, Fields
<1> HIDE DEF r1
<1> QED BY <1>1, <1>2, <1>3, GoesMoves, Idle

\* A hash that is found the same is known as such.
LEMMA RecheckInputMoves ==
    ASSUME Base, NEW n \in Numbers, RecheckInput(n)
    PROVE  Moved(n) /\ Aside(n)
<1> DEFINE r1 == [runs[n] EXCEPT !.checked = NextChecked(runs[n], Now(n))]
<1>1. Active(n) /\ Holds(n) /\ Instruction(n) = Now(n) /\ Now(n)[1] = "recheck"
      /\ Shape(runs[n]) /\ DOMAIN runs[n] = Fields
  BY AtInstruction DEF RecheckInput, Is
<1>2. Goes(n, r1)
  BY <1>1 DEF RecheckInput, NextChecked
<1>3. Learns(runs[n], r1) /\ r1.before = runs[n].before
      /\ r1.checked = NextChecked(runs[n], Now(n)) /\ r1.used = runs[n].used
      /\ r1.took = runs[n].took /\ r1.lists = runs[n].lists /\ r1.taps = runs[n].taps
      /\ r1.ref = runs[n].ref /\ r1.watching = runs[n].watching /\ r1.values = runs[n].values
  BY <1>1 DEF Learns, Fields
<1> HIDE DEF r1
<1> QED BY <1>1, <1>2, <1>3, GoesMoves, Idle

\* Loading adds the version of the time.
LEMMA LoadInputMoves ==
    ASSUME Base, NEW n \in Numbers, LoadInput(n)
    PROVE  Moved(n) /\ Aside(n)
<1> DEFINE r1 == [runs[n] EXCEPT !.used = @ \cup AsLoaded(Now(n))]
<1>1. Active(n) /\ Holds(n) /\ Instruction(n) = Now(n) /\ Now(n)[1] = "load"
      /\ Shape(runs[n]) /\ DOMAIN runs[n] = Fields
  BY AtInstruction DEF LoadInput, Is
<1>2. Goes(n, r1)
  BY <1>1 DEF LoadInput
<1>3. Learns(runs[n], r1) /\ r1.before = runs[n].before /\ r1.checked = runs[n].checked
      /\ r1.used = runs[n].used \cup AsLoaded(Now(n))
      /\ r1.took = runs[n].took /\ r1.lists = runs[n].lists /\ r1.taps = runs[n].taps
      /\ r1.ref = runs[n].ref /\ r1.watching = runs[n].watching /\ r1.values = runs[n].values
  BY <1>1 DEF Learns, Fields
<1> HIDE DEF r1
<1> QED BY <1>1, <1>2, <1>3, GoesMoves, Idle

\* Observers come and go.
LEMMA ObserveMoves ==
    ASSUME Base, NEW n \in Numbers, Observe(n)
    PROVE  Moved(n) /\ Aside(n)
<1> DEFINE r1 == [runs[n] EXCEPT !.watching = NextWatching(runs[n], Now(n))]
<1>1. Active(n) /\ Holds(n) /\ Instruction(n) = Now(n) /\ Now(n)[1] \in {"build", "watch", "unwatch"}
      /\ Shape(runs[n]) /\ DOMAIN runs[n] = Fields
  BY AtInstruction DEF Observe, Is
<1>2. Goes(n, r1)
  BY <1>1 DEF Observe, Is, NextWatching, Without
<1>3. Learns(runs[n], r1) /\ r1.before = runs[n].before /\ r1.checked = runs[n].checked /\ r1.used = runs[n].used
      /\ r1.took = runs[n].took /\ r1.lists = runs[n].lists /\ r1.taps = runs[n].taps
      /\ r1.ref = runs[n].ref /\ r1.watching = NextWatching(runs[n], Now(n))
      /\ r1.values = runs[n].values
  BY <1>1 DEF Learns, Fields
<1> HIDE DEF r1
<1> QED BY <1>1, <1>2, <1>3, GoesMoves, Idle

\* A call has a result, and a first call forgets those before it.
LEMMA CallMoves ==
    ASSUME Base, NEW n \in Numbers, Call(n)
    PROVE  Moved(n) /\ Aside(n)
<1>1. Active(n) /\ Holds(n) /\ Instruction(n) = Now(n) /\ Now(n)[1] = "pass"
      /\ Shape(runs[n]) /\ DOMAIN runs[n] = Fields
  BY AtInstruction DEF Call, Is
<1>2. PICK result \in Results(runs[n]) :
          Goes(n, [runs[n] EXCEPT !.values = NextValues(runs[n], Now(n), result)])
  BY <1>1 DEF Call, Results, NextValues
<1> DEFINE r1 == [runs[n] EXCEPT !.values = NextValues(runs[n], Now(n), result)]
<1>3. Learns(runs[n], r1) /\ r1.before = runs[n].before /\ r1.checked = runs[n].checked /\ r1.used = runs[n].used
      /\ r1.took = runs[n].took /\ r1.lists = runs[n].lists /\ r1.taps = runs[n].taps
      /\ r1.ref = runs[n].ref /\ r1.watching = runs[n].watching
      /\ r1.values = NextValues(runs[n], Now(n), result)
  BY <1>1 DEF Learns, Fields
<1>4. Goes(n, r1)
  BY <1>2
<1> HIDE DEF r1
<1> QED BY <1>1, <1>2, <1>3, <1>4, GoesMoves, Idle

\* Keeping adds results to the tensors.
LEMMA KeepTapsMoves ==
    ASSUME Base, NEW n \in Numbers, KeepTaps(n)
    PROVE  Moved(n) /\ Aside(n)
<1> DEFINE r1 == [runs[n] EXCEPT !.taps = NextTaps(runs[n], Now(n))]
<1>1. Active(n) /\ Holds(n) /\ Instruction(n) = Now(n) /\ Now(n)[1] = "keep"
      /\ Shape(runs[n]) /\ DOMAIN runs[n] = Fields
  BY AtInstruction DEF KeepTaps, Is
<1>2. Goes(n, r1)
  BY <1>1 DEF KeepTaps, NextTaps, Tapped, Seen
<1>3. Learns(runs[n], r1) /\ r1.before = runs[n].before /\ r1.checked = runs[n].checked /\ r1.used = runs[n].used
      /\ r1.took = runs[n].took /\ r1.lists = runs[n].lists /\ r1.taps = NextTaps(runs[n], Now(n))
      /\ r1.ref = runs[n].ref /\ r1.watching = runs[n].watching /\ r1.values = runs[n].values
  BY <1>1 DEF Learns, Fields
<1> HIDE DEF r1
<1> QED BY <1>1, <1>2, <1>3, GoesMoves, Idle

\* What is noted of another manifest concerns nothing else.
LEMMA NoteManifestMoves ==
    ASSUME Base, NEW n \in Numbers, NoteManifest(n)
    PROVE  Moved(n) /\ Aside(n)
<1> DEFINE d  == Now(n)[2]
           r1 == [runs[n] EXCEPT !.noted = @ \cup {<<d, Content(d, Document(d))>>}]
<1>1. Active(n) /\ Holds(n) /\ Instruction(n) = Now(n) /\ Now(n)[1] = "note"
      /\ Shape(runs[n]) /\ DOMAIN runs[n] = Fields
  BY AtInstruction DEF NoteManifest, Is
<1>2. Goes(n, r1)
  BY <1>1 DEF NoteManifest
<1>3. Learns(runs[n], r1) /\ r1.before = runs[n].before /\ r1.checked = runs[n].checked
      /\ r1.used = runs[n].used
      /\ r1.took = runs[n].took /\ r1.lists = runs[n].lists /\ r1.taps = runs[n].taps
      /\ r1.ref = runs[n].ref /\ r1.watching = runs[n].watching /\ r1.values = runs[n].values
  BY <1>1 DEF Learns, Fields
<1> HIDE DEF r1
<1> QED BY <1>1, <1>2, <1>3, GoesMoves, Idle

\* Loading a file of another script adds its content.
LEMMA TakeFileMoves ==
    ASSUME Base, NEW n \in Numbers, TakeFile(n)
    PROVE  Moved(n) /\ Aside(n)
<1> DEFINE r1 == [runs[n] EXCEPT !.took = @ \cup AsTaken(Now(n))]
<1>1. Active(n) /\ Holds(n) /\ Instruction(n) = Now(n) /\ Now(n)[1] = "take"
      /\ Shape(runs[n]) /\ DOMAIN runs[n] = Fields
  BY AtInstruction DEF TakeFile, Is
<1>2. Goes(n, r1)
  BY <1>1 DEF TakeFile
<1>3. Learns(runs[n], r1) /\ r1.before = runs[n].before /\ r1.checked = runs[n].checked /\ r1.used = runs[n].used
      /\ r1.took = runs[n].took \cup AsTaken(Now(n))
      /\ r1.lists = runs[n].lists /\ r1.taps = runs[n].taps
      /\ r1.ref = runs[n].ref /\ r1.watching = runs[n].watching /\ r1.values = runs[n].values
  BY <1>1 DEF Learns, Fields
<1> HIDE DEF r1
<1> QED BY <1>1, <1>2, <1>3, GoesMoves, Idle

\* Listing adds the contents of the time.
LEMMA ListFilesMoves ==
    ASSUME Base, NEW n \in Numbers, ListFiles(n)
    PROVE  Moved(n) /\ Aside(n)
<1> DEFINE r1 == [runs[n] EXCEPT !.lists = NextLists(runs[n], Now(n))]
<1>1. Active(n) /\ Holds(n) /\ Instruction(n) = Now(n) /\ Now(n)[1] \in {"list", "collect"}
      /\ Shape(runs[n]) /\ DOMAIN runs[n] = Fields
  BY AtInstruction DEF ListFiles, Is
<1>2. Goes(n, r1)
  BY <1>1 DEF ListFiles, Is, NextLists, HashOf
<1>3. Learns(runs[n], r1) /\ r1.before = runs[n].before /\ r1.checked = runs[n].checked /\ r1.used = runs[n].used
      /\ r1.took = runs[n].took /\ r1.lists = NextLists(runs[n], Now(n)) /\ r1.taps = runs[n].taps
      /\ r1.ref = runs[n].ref /\ r1.watching = runs[n].watching /\ r1.values = runs[n].values
  BY <1>1 DEF Learns, Fields
<1> HIDE DEF r1
<1> QED BY <1>1, <1>2, <1>3, GoesMoves, Idle

\* The other option's program is the same as far as this.
LEMMA ReadManifestMoves ==
    ASSUME Base, NEW n \in Numbers, ReadManifest(n)
    PROVE  Moved(n) /\ Aside(n)
<1> DEFINE r  == runs[n]
           d  == Now(n)[2]
           of == Content(d, Document(d))[1]
           p  == Code(r)
           q  == Programs[r.script][runs[of].opt]
           a  == At(r)
           r1 == [r EXCEPT !.opt = runs[of].opt, !.todo = SubSeq(q, a, Len(q)),
                           !.ref = NextRef(r, Now(n))]
<1>1. Active(n) /\ Holds(n) /\ Instruction(n) = Now(n) /\ Now(n)[1] = "read"
      /\ Shape(r) /\ DOMAIN r = Fields /\ r.state = "active" /\ r.script \in Scripts
      /\ r.opt \in Options
  BY AtInstruction DEF ReadManifest, Is, Shape
<1>2. of \in Numbers
  BY <1>1 DEF Holds, Whole, Exists, Content, Base
<1>3. runs[of].opt \in Options
  BY <1>2 DEF Base, Shape
<1>4. Alike(p, q) /\ p[a][1] = "read"
  BY <1>1, <1>3, ProgramsAssumption DEF Code, Now, Program
<1>5. /\ DOMAIN p = 1..Len(p) /\ Len(p) \in Nat /\ a \in 1..Len(p) /\ a \in Nat /\ a >= 1
      /\ DOMAIN q = 1..Len(q) /\ Len(q) \in Nat /\ ASequence(q)
  <2>1. DOMAIN p = 1..Len(p) /\ Len(p) \in Nat /\ a \in Nat /\ a >= 1 /\ a <= Len(p)
    BY <1>1, Current
  <2>2. DOMAIN q = 1..Len(q) /\ Len(q) \in Nat /\ ASequence(q)
    BY <1>1, <1>3, ProgramFacts
  <2> HIDE DEF a, p, q
  <2> QED BY <2>1, <2>2
<1>6. a \in 1..Len(q) /\ \A j \in 1..a : q[j] = p[j]
  BY <1>4, <1>5 DEF Alike
<1>7. Exclusive(q) = Exclusive(p)
  BY <1>4 DEF Alike
<1>8. /\ DOMAIN r1 = Fields /\ r1.script = r.script /\ r1.opt = runs[of].opt /\ r1.state = r.state
      /\ r1.todo = SubSeq(q, a, Len(q)) /\ r1.half = r.half /\ r1.torn = r.torn
      /\ r1.shared = r.shared
      /\ r1.before = r.before /\ r1.checked = r.checked /\ r1.used = r.used /\ r1.took = r.took /\ r1.lists = r.lists
      /\ r1.taps = r.taps /\ r1.ref = NextRef(r, Now(n)) /\ r1.watching = r.watching
      /\ r1.values = r.values
  BY <1>1 DEF Fields
<1>9. runs' = After(n, r1)
  BY <1>1 DEF ReadManifest, Goes, NextRef, Program, Code, At
<1> HIDE DEF r1
<1>10. Code(r1) = q
  BY <1>8 DEF Code
<1>11. At(r1) = a
  <2>1. Len(r1.todo) = Len(q) - a + 1
    BY <1>5, <1>6, <1>8, Coming
  <2>2. At(r1) = Len(q) - Len(r1.todo) + 1
    BY <1>10 DEF At
  <2> HIDE DEF a, q
  <2> QED BY <2>1, <2>2, <1>5
<1>12. Shape(r1) /\ r1.state = "active"
  <2>1. r1.half => q[a][1] \in Writes
    <3>1. r.half => p[a][1] \in Writes
      BY <1>1 DEF Shape
    <3>2. q[a] = p[a]
      <4>1. \A b \in Nat : b >= 1 => b \in 1..b
        OBVIOUS
      <4>2. a \in 1..a
        BY <1>5, <4>1, Zenon
      <4> QED BY <1>6, <4>2, Zenon
    <3> QED BY <1>8, <3>1, <3>2
  <2>2. r1.torn \in BOOLEAN /\ r1.shared \in BOOLEAN /\ r1.half \in BOOLEAN
    BY <1>1, <1>8 DEF Shape
  <2> QED BY <1>1, <1>3, <1>6, <1>8, <1>10, <1>11, <2>1, <2>2 DEF Shape
<1> DEFINE s == Advance(r1)
<1>13. runs' = [runs EXCEPT ![n] = s]
  BY <1>9 DEF After, Advance
<1>14. ASequence(runs)' /\ Numbers' = Numbers /\ runs'[n] = s /\ Aside(n)
  BY <1>13, Replaced
<1>15. /\ Onward(r1, s)
       /\ s.before = r1.before /\ s.checked = r1.checked /\ s.used = r1.used /\ s.lists = r1.lists
       /\ s.taps = r1.taps /\ s.ref = r1.ref /\ s.took = r1.took
       /\ s.state = "active" => s.values = r1.values /\ s.watching = r1.watching
  BY <1>12, Advances
<1> HIDE DEF s
<1>16. Onward(r, s)
  <2>1. \A j \in 1..a : Code(s)[j] = p[j]
    <3>1. \A j \in 1..At(r1) : Code(s)[j] = Code(r1)[j]
      BY <1>15 DEF Onward
    <3> HIDE DEF a, p, q
    <3> QED BY <1>6, <1>10, <1>11, <3>1
  <2>2. Exclusive(Code(s)) = Exclusive(p)
    BY <1>7, <1>10, <1>15 DEF Onward
  <2> QED BY <1>8, <1>11, <1>15, <2>1, <2>2 DEF Onward
<1>17. Does(r, Now(n), s)
  <2>1. /\ NextBefore(r, Now(n)) = r.before /\ NextChecked(r, Now(n)) = r.checked
        /\ r.used \cup AsLoaded(Now(n)) = r.used
        /\ r.took \cup AsTaken(Now(n)) = r.took /\ NextLists(r, Now(n)) = r.lists
        /\ NextTaps(r, Now(n)) = r.taps /\ NextWatching(r, Now(n)) = r.watching
    BY <1>1, Idle
  <2>2. Now(n)[1] # "pass"
    BY <1>1
  <2> HIDE DEF r
  <2> QED BY <1>8, <1>15, <1>16, <2>1, <2>2 DEF Does
<1> QED BY <1>1, <1>14, <1>17 DEF Moved

\* A run that completes a file goes on, and the others notice.
LEMMA FinishMoves ==
    ASSUME Base, NEW n \in Numbers, Finish(n)
    PROVE  Moved(n) /\ Noticed(n, runs[n].script) /\ runs[n].half /\ Now(n)[1] \in Writes
<1> DEFINE r  == runs[n]
           r1 == [r EXCEPT !.used = @ \cup AsLoaded(Now(n)), !.took = @ \cup AsTaken(Now(n))]
           rs == After(n, r1)
<1>1. Active(n) /\ Holds(n) /\ Instruction(n) = Now(n) /\ Now(n)[1] \in Writes
      /\ Shape(r) /\ DOMAIN r = Fields /\ r.half
  BY AtInstruction DEF Finish, Is
<1>2. runs' = Written(rs, n, r.script)
  BY <1>1 DEF Finish
<1>3. /\ Learns(r, r1) /\ r1.used = r.used \cup AsLoaded(Now(n))
      /\ r1.took = r.took \cup AsTaken(Now(n))
      /\ r1.before = r.before /\ r1.checked = r.checked /\ r1.lists = r.lists /\ r1.taps = r.taps /\ r1.ref = r.ref
      /\ r1.watching = r.watching /\ r1.values = r.values
  BY <1>1 DEF Learns, Fields
<1> HIDE DEF r1
<1>4. /\ DOMAIN rs = 1..Len(runs)
      /\ \A m \in Numbers : m # n => rs[m] = runs[m]
      /\ Onward(r, rs[n])
      /\ rs[n].before = r1.before /\ rs[n].checked = r1.checked /\ rs[n].used = r1.used /\ rs[n].lists = r1.lists
      /\ rs[n].taps = r1.taps /\ rs[n].ref = r1.ref /\ rs[n].took = r1.took
      /\ rs[n].state = "active" => rs[n].values = r1.values /\ rs[n].watching = r1.watching
  BY <1>1, <1>3, GoesOn
<1>5. Len(runs) \in Nat /\ Numbers = 1..Len(runs)
  BY RunsFacts
<1> HIDE DEF rs
<1>6. \A m \in 1..Len(runs) : DOMAIN rs[m] = Fields /\ rs[m].torn \in BOOLEAN /\ rs[m].shared \in BOOLEAN
  BY <1>4, <1>5 DEF Base, Shape, Onward
<1>7. /\ ASequence(runs') /\ DOMAIN runs' = 1..Len(runs)
      /\ runs'[n] = rs[n]
      /\ \A m \in 1..Len(runs) : m # n =>
             /\ Kin(rs[m], runs'[m])
             /\ rs[m].state # "active" => runs'[m] = rs[m]
             /\ rs[m].state = "active" /\ rs[m].script = r.script => runs'[m].shared
             /\ rs[m].state = "active" /\ r.script \in DOMAIN rs[m].ref => runs'[m].torn
  BY <1>2, <1>4, <1>5, <1>6, WrittenFacts
<1>8. Noticed(n, r.script)
  BY <1>4, <1>5, <1>7 DEF Noticed, Active
<1>9. Does(r, Now(n), runs'[n])
  <2>1. Now(n)[1] \in {"put", "new", "native"}
    BY <1>1 DEF Writes
  <2> QED BY <1>3, <1>4, <1>7, <2>1, Idle DEF Does
<1> QED BY <1>1, <1>5, <1>7, <1>8, <1>9 DEF Moved, Numbers, ASequence

\* A run that opens a file stays where it is.
Opened(n) ==
    LET r == runs[n]
        s == runs'[n]
    IN /\ n \in Numbers /\ Active(n) /\ Holds(n) /\ Instruction(n) = Now(n)
       /\ Now(n)[1] \in Writes /\ ~r.half
       /\ Numbers' = Numbers /\ ASequence(runs)'
       /\ Shape(s) /\ s.script = r.script /\ s.opt = r.opt /\ s.state = r.state /\ s.todo = r.todo
       /\ Code(s) = Code(r) /\ At(s) = At(r) /\ Ended(s) = Ended(r) /\ Begun(s) = 1..At(r)
       /\ s.half /\ s.before = r.before /\ s.checked = r.checked /\ s.used = r.used \cup AsLoaded(Now(n))
       /\ s.lists = r.lists /\ s.values = r.values /\ s.watching = r.watching
       /\ s.taps = r.taps /\ s.ref = r.ref /\ s.took = r.took
       /\ s.torn = r.torn /\ s.shared = r.shared

\* Opening a file is half an instruction.
LEMMA OpenOpens ==
    ASSUME Base, NEW n \in Numbers, Open(n)
    PROVE  Opened(n) /\ Noticed(n, runs[n].script)
<1> DEFINE r  == runs[n]
           s  == [r EXCEPT !.half = TRUE, !.used = @ \cup AsLoaded(Now(n))]
           rs == [runs EXCEPT ![n].half = TRUE, ![n].used = @ \cup AsLoaded(Now(n))]
<1>1. Active(n) /\ Holds(n) /\ Instruction(n) = Now(n) /\ Now(n)[1] \in Writes
      /\ Shape(r) /\ DOMAIN r = Fields /\ ~r.half /\ r.state = "active"
      /\ Now(n) = Code(r)[At(r)]
  BY AtInstruction DEF Open, Is, Now, Program, Code
<1>2. runs' = Written(rs, n, r.script)
  BY <1>1 DEF Open
<1>3. Len(runs) \in Nat /\ Numbers = 1..Len(runs) /\ DOMAIN runs = 1..Len(runs)
  BY RunsFacts DEF Numbers
<1>4. DOMAIN rs = 1..Len(runs) /\ rs[n] = s /\ \A m \in Numbers : m # n => rs[m] = runs[m]
  BY <1>1, <1>3 DEF Fields
<1>5. /\ DOMAIN s = Fields /\ s.script = r.script /\ s.opt = r.opt /\ s.state = r.state
      /\ s.todo = r.todo /\ s.half /\ s.half \in BOOLEAN
      /\ s.before = r.before /\ s.checked = r.checked /\ s.used = r.used \cup AsLoaded(Now(n))
      /\ s.lists = r.lists /\ s.values = r.values /\ s.watching = r.watching
      /\ s.taps = r.taps /\ s.ref = r.ref /\ s.took = r.took
      /\ s.torn = r.torn /\ s.shared = r.shared
  BY <1>1 DEF Fields
<1> HIDE DEF s, rs
<1>6. Code(s) = Code(r)
  BY <1>5 DEF Code
<1>7. At(s) = At(r)
  BY <1>5, <1>6 DEF At
<1>8. Ended(s) = Ended(r) /\ Begun(s) = 1..At(r)
  BY <1>5, <1>7 DEF Ended, Begun
<1>9. Shape(s)
  BY <1>1, <1>5, <1>6, <1>7 DEF Shape
<1>10. \A m \in 1..Len(runs) : DOMAIN rs[m] = Fields /\ rs[m].torn \in BOOLEAN /\ rs[m].shared \in BOOLEAN
  BY <1>3, <1>4, <1>9 DEF Base, Shape
<1>11. /\ ASequence(runs') /\ DOMAIN runs' = 1..Len(runs)
       /\ runs'[n] = rs[n]
       /\ \A m \in 1..Len(runs) : m # n =>
              /\ Kin(rs[m], runs'[m])
              /\ rs[m].state # "active" => runs'[m] = rs[m]
              /\ rs[m].state = "active" /\ rs[m].script = r.script => runs'[m].shared
              /\ rs[m].state = "active" /\ r.script \in DOMAIN rs[m].ref => runs'[m].torn
  BY <1>2, <1>3, <1>4, <1>10, WrittenFacts
<1>12. Noticed(n, r.script)
  BY <1>3, <1>4, <1>11 DEF Noticed, Active
<1> QED BY <1>1, <1>3, <1>4, <1>5, <1>6, <1>7, <1>8, <1>9, <1>11, <1>12 DEF Opened, Numbers, ASequence

\* A run that raises or is killed, and may leave a native program behind.
Stops(n) ==
    /\ Active(n)
    /\ runs' = [runs EXCEPT ![n] = Stopped(@)]
    /\ orphans' \subseteq orphans \cup
           IF runs[n].half /\ Instruction(n)[1] = "native"
           THEN {<<runs[n].script, Instruction(n)[2], n>>} ELSE {}
    /\ UNCHANGED <<plan, fs, edits>>

\* It knows nothing any more.
Forgot(r, s) ==
    /\ Shape(s) /\ s.state = "stopped" /\ s.script = r.script /\ s.opt = r.opt
    /\ s.before = {} /\ s.used = {} /\ s.lists = {} /\ s.values = {} /\ s.watching = {}
    /\ s.taps = {} /\ s.took = {} /\ s.torn = FALSE /\ s.shared = FALSE
    /\ DOMAIN s.ref = {}

\* Raising and being killed leave the others alone.
LEMMA StopsStops ==
    ASSUME Base, NEW n \in Numbers, Stops(n)
    PROVE  /\ Numbers' = Numbers /\ ASequence(runs)' /\ Aside(n)
           /\ Forgot(runs[n], runs'[n])
<1> DEFINE s == Stopped(runs[n])
<1>1. Numbers' = Numbers /\ ASequence(runs)' /\ Aside(n) /\ runs'[n] = s
  <2>1. runs' = [runs EXCEPT ![n] = s]
    BY DEF Stops
  <2> QED BY <2>1, Replaced
<1>2. runs[n].script \in Scripts /\ runs[n].opt \in Options
  BY DEF Base, Shape
<1>3. /\ DOMAIN s = Fields /\ s.script = runs[n].script /\ s.opt = runs[n].opt
      /\ s.state = "stopped" /\ s.todo = <<>> /\ s.half = FALSE
      /\ s.before = {} /\ s.used = {} /\ s.lists = {} /\ s.values = {} /\ s.watching = {}
      /\ s.taps = {} /\ s.ref = <<>> /\ s.took = {} /\ s.torn = FALSE /\ s.shared = FALSE
  BY DEF Stopped, Fresh, Fields
<1>4. DOMAIN s.ref = {}
  BY <1>3
<1> HIDE DEF s
<1> QED BY <1>1, <1>2, <1>3, <1>4 DEF Forgot, Shape

\* A run that begins.
Begins(s) ==
    /\ Shape(s) /\ s.state = "active" /\ At(s) = 1 /\ ~s.half /\ Ended(s) = {} /\ Begun(s) = {}
    /\ s.before = {} /\ s.used = {} /\ s.lists = {} /\ s.values = {} /\ s.watching = {}
    /\ s.taps = {} /\ s.took = {} /\ s.torn = FALSE /\ s.shared = FALSE
    /\ DOMAIN s.ref = {}

\* A run that starts is the last one, at its first instruction.
LEMMA StartBegins ==
    ASSUME Base, NEW job \in plan.jobs, Start(job)
    PROVE  /\ Len(runs') = Len(runs) + 1 /\ Numbers' = Numbers \cup {Len(runs')}
           /\ Len(runs') \notin Numbers /\ Len(runs') # 0 /\ ASequence(runs)'
           /\ \A m \in Numbers : runs'[m] = runs[m]
           /\ Begins(runs'[Len(runs')]) /\ runs'[Len(runs')].script = job[1]
           /\ Quiet /\ fs' = fs
<1> DEFINE s == Fresh(job[1], job[2])
           p == Programs[job[1]][job[2]]
           S == {runs[k] : k \in DOMAIN runs} \cup {s}
<1>1. job[1] \in Scripts /\ job[2] \in Options
  BY PlansAssumption DEF Base, Plan
<1>2. ASequence(p) /\ Len(p) \in Nat \ {0} /\ DOMAIN p = 1..Len(p)
  BY <1>1, ProgramFacts
<1>3. /\ DOMAIN s = Fields /\ s.script = job[1] /\ s.opt = job[2]
      /\ s.state = "active" /\ s.todo = p /\ s.half = FALSE
      /\ s.before = {} /\ s.used = {} /\ s.lists = {} /\ s.values = {} /\ s.watching = {}
      /\ s.taps = {} /\ s.ref = <<>> /\ s.took = {} /\ s.torn = FALSE /\ s.shared = FALSE
  BY DEF Fresh, Fields
<1>4. DOMAIN s.ref = {}
  BY <1>3
<1>5. Code(s) = p
  BY <1>3 DEF Code
<1>6. At(s) = 1
  <2> HIDE DEF s, p
  <2> QED BY <1>2, <1>3, <1>5 DEF At
<1>7. p = SubSeq(p, 1, Len(p))
  BY <1>2, SubSeqFull DEF ASequence
<1>8. Begins(s)
  <2> HIDE DEF s, p
  <2>1. 1 \in 1..Len(p)
    BY <1>2
  <2>2. s.todo = SubSeq(Code(s), At(s), Len(Code(s))) /\ At(s) \in 1..Len(Code(s))
    BY <1>3, <1>5, <1>6, <1>7, <2>1
  <2>3. Shape(s)
    BY <1>1, <1>3, <2>2 DEF Shape
  <2>4. Ended(s) = {} /\ Begun(s) = {}
    BY <1>3, <1>6 DEF Ended, Begun
  <2> QED BY <1>3, <1>4, <1>6, <2>3, <2>4 DEF Begins
<1>9. Len(runs) \in Nat /\ Numbers = 1..Len(runs) /\ runs \in Seq(S)
  <2>1. runs \in Seq({runs[k] : k \in DOMAIN runs})
    BY DEF Base, ASequence
  <2> QED BY <2>1, RunsFacts, SeqMonotonic
<1>10. runs' = Append(runs, s)
  BY DEF Start
<1>11. /\ runs' \in Seq(S) /\ Len(runs') = Len(runs) + 1
       /\ \A i \in 1..Len(runs) : runs'[i] = runs[i]
       /\ runs'[Len(runs) + 1] = s
  BY <1>9, <1>10, AppendProperties
<1>12. DOMAIN runs' = 1..(Len(runs) + 1)
  BY <1>11, LenProperties
<1>13. ASequence(runs')
  <2>1. runs' = [i \in 1..(Len(runs) + 1) |-> runs'[i]]
    BY <1>10, <1>9, <1>11, LenProperties
  <2> QED BY <2>1, <1>9, FunctionIsSequence
<1> HIDE DEF s, S
<1>14. /\ Numbers' = Numbers \cup {Len(runs')} /\ Len(runs') \notin Numbers /\ Len(runs') # 0
  BY <1>9, <1>11, <1>12 DEF Numbers
<1> QED BY <1>3, <1>8, <1>9, <1>11, <1>13, <1>14 DEF Start, ASequence

\* A native program without its script writes: everybody notices.
LEMMA OrphanNoticed ==
    ASSUME Base, NEW o \in orphans, OrphanWrites(o)
    PROVE  /\ Numbers' = Numbers /\ ASequence(runs)'
           /\ o[3] \in Numbers /\ runs'[o[3]] = runs[o[3]] /\ Noticed(o[3], o[1])
<1>1. o[3] \in Numbers /\ Len(runs) \in Nat /\ Numbers = 1..Len(runs) /\ DOMAIN runs = 1..Len(runs)
  BY RunsFacts DEF Base, Numbers
<1>2. \A m \in 1..Len(runs) : DOMAIN runs[m] = Fields /\ runs[m].torn \in BOOLEAN /\ runs[m].shared \in BOOLEAN
  BY <1>1 DEF Base, Shape
<1>3. /\ ASequence(runs') /\ DOMAIN runs' = 1..Len(runs)
      /\ runs'[o[3]] = runs[o[3]]
      /\ \A m \in 1..Len(runs) : m # o[3] =>
             /\ Kin(runs[m], runs'[m])
             /\ runs[m].state # "active" => runs'[m] = runs[m]
             /\ runs[m].state = "active" /\ runs[m].script = o[1] => runs'[m].shared
             /\ runs[m].state = "active" /\ o[1] \in DOMAIN runs[m].ref => runs'[m].torn
  BY <1>1, <1>2, WrittenFacts DEF OrphanWrites
<1> QED BY <1>1, <1>3 DEF Noticed, Active, Numbers, ASequence

-----------------------------------------------------------------------------
(* The kinds of steps                                                      *)

\* What writes no file.
Reads(n) == Moved(n) /\ Aside(n) /\ Quiet /\ fs' = fs /\ Now(n)[1] \notin Writes \cup {"newdir"}

Opens(n) ==
    /\ Opened(n) /\ Noticed(n, runs[n].script) /\ Quiet
    /\ Store(runs[n].script, Now(n)[2], <<n, FALSE>>)

Finishes(n) ==
    /\ Moved(n) /\ Noticed(n, runs[n].script) /\ Quiet /\ runs[n].half /\ Now(n)[1] \in Writes
    /\ Store(runs[n].script, Now(n)[2], Finished(runs[n].script, Now(n)[2], n))

Makes(n) ==
    /\ Moved(n) /\ Aside(n) /\ Quiet /\ Now(n)[1] = "newdir"
    /\ Store(runs[n].script, ".", <<n, TRUE>>)

ScriptsNext ==
    \/ \E job \in plan.jobs : Start(job)
    \/ \E n \in Numbers : Reads(n) \/ Opens(n) \/ Finishes(n) \/ Makes(n) \/ Stops(n)
    \/ \E o \in orphans : OrphanWrites(o)
    \/ \E x \in plan.editable : Edit(x)
    \/ UNCHANGED scripts

\* Every step of a script is one of these kinds.
LEMMA StepKinds ==
    ASSUME Base, NEW n \in Numbers, Step(n)
    PROVE  Reads(n) \/ Opens(n) \/ Finishes(n) \/ Makes(n) \/ Stops(n)
<1>1. CASE Check(n)
  BY <1>1, CheckMoves, AtInstruction DEF Check, Is, Reads, Writes
<1>2. CASE HashInput(n)
  BY <1>2, HashInputMoves, AtInstruction DEF HashInput, Is, Reads, Writes
<1>14. CASE RecheckInput(n)
  BY <1>14, RecheckInputMoves, AtInstruction DEF RecheckInput, Is, Reads, Writes
<1>15. CASE NoteManifest(n)
  BY <1>15, NoteManifestMoves, AtInstruction DEF NoteManifest, Is, Reads, Writes
<1>3. CASE LoadInput(n)
  BY <1>3, LoadInputMoves, AtInstruction DEF LoadInput, Is, Reads, Writes
<1>4. CASE Observe(n)
  BY <1>4, ObserveMoves, AtInstruction DEF Observe, Is, Reads, Writes
<1>5. CASE Call(n)
  BY <1>5, CallMoves, AtInstruction DEF Call, Is, Reads, Writes
<1>6. CASE KeepTaps(n)
  BY <1>6, KeepTapsMoves, AtInstruction DEF KeepTaps, Is, Reads, Writes
<1>7. CASE ReadManifest(n)
  BY <1>7, ReadManifestMoves, AtInstruction DEF ReadManifest, Is, Reads, Writes
<1>8. CASE TakeFile(n)
  BY <1>8, TakeFileMoves, AtInstruction DEF TakeFile, Is, Reads, Writes
<1>9. CASE ListFiles(n)
  BY <1>9, ListFilesMoves, AtInstruction DEF ListFiles, Is, Reads, Writes
<1>10. CASE MakeDirectory(n)
  BY <1>10, MakeDirectoryMoves, AtInstruction DEF MakeDirectory, Is, Makes
<1>11. CASE Open(n)
  BY <1>11, OpenOpens, AtInstruction DEF Open, Is, Opens
<1>12. CASE Finish(n)
  BY <1>12, FinishMoves, AtInstruction DEF Finish, Is, Finishes
<1>13. CASE Raise(n)
  BY <1>13 DEF Raise, Stops, Quiet
<1> QED BY <1>1, <1>2, <1>3, <1>4, <1>5, <1>6, <1>7, <1>8, <1>9, <1>10, <1>11, <1>12, <1>13,
           <1>14, <1>15 DEF Step

\* So is every step of the specification, as far as the scripts are concerned.
LEMMA NextKinds == Base /\ [Next]_all => ScriptsNext
<1> SUFFICES ASSUME Base, [Next]_all PROVE ScriptsNext
  OBVIOUS
<1>1. CASE ByHand
  <2>1. ASSUME NEW n \in Numbers, Kill(n) PROVE Stops(n)
    BY <2>1 DEF Kill, Stops
  <2> QED BY <1>1, <2>1, StepKinds DEF ByHand, ScriptsNext
<1>2. CASE Bounding
  BY <1>2 DEF Bounding, ScriptsNext
<1>3. CASE Within
  BY <1>3, StepKinds DEF Within, ScriptsNext
<1>4. ASSUME NEW p \in Calls, NEW job \in plan.jobs, Launch(p, job) PROVE ScriptsNext
  BY <1>4 DEF Launch, ScriptsNext
<1>5. ASSUME NEW p \in Calls, Return(p) PROVE ScriptsNext
  BY <1>5 DEF Return, ScriptsNext
<1>6. ASSUME NEW p \in Calls, OutOfMemory(p) PROVE ScriptsNext
  <2>1. running[p] \in Numbers /\ Active(running[p])
    BY <1>6 DEF OutOfMemory, Busy
  <2>2. Stops(running[p])
    BY <1>6, <2>1 DEF OutOfMemory, KillAll, Stops
  <2> QED BY <2>1, <2>2 DEF ScriptsNext
<1>7. CASE UNCHANGED all
  BY <1>7 DEF all, ScriptsNext
<1> QED BY <1>1, <1>2, <1>3, <1>4, <1>5, <1>6, <1>7 DEF Next

-----------------------------------------------------------------------------
(* The base of the invariant                                               *)

\* What a write does to the files.
LEMMA Stored ==
    ASSUME NEW d, NEW f, NEW c, Store(d, f, c)
    PROVE  /\ DOMAIN fs' = DOMAIN fs \cup {<<d, f>>} /\ fs'[<<d, f>>] = c
           /\ \A q \in DOMAIN fs : q # <<d, f>> => fs'[q] = fs[q]
  BY DEF Store

\* A run that nobody changed, and one that somebody noticed, are akin.
LEMMA AsideKin ==
    ASSUME Base, NEW n, Aside(n)
    PROVE  \A m \in Numbers : m # n => Kin(runs[m], runs'[m])
  BY DEF Base, Shape, Aside, Kin

\* What a step does to each run.
LEMMA RecordKinds ==
    ASSUME Base, ScriptsNext
    PROVE  /\ ASequence(runs)' /\ Numbers \subseteq Numbers'
           /\ \A m \in Numbers' :
                  \/ m \notin Numbers /\ Begins(runs'[m]) /\ edits' = edits
                  \/ /\ m \in Numbers
                     /\ \/ Kin(runs[m], runs'[m])
                        \/ Forgot(runs[m], runs'[m]) /\ edits' = edits
                        \/ (Moved(m) \/ Opened(m)) /\ edits' = edits
<1>1. CASE \E job \in plan.jobs : Start(job)
  BY <1>1, StartBegins DEF Quiet, Base, Shape, Kin
<1>2. ASSUME NEW n \in Numbers, Reads(n) \/ Makes(n)
      PROVE  /\ ASequence(runs)' /\ Numbers' = Numbers
             /\ \A m \in Numbers : Kin(runs[m], runs'[m]) \/ (Moved(m) /\ edits' = edits)
  BY <1>2, AsideKin DEF Reads, Makes, Moved, Quiet
<1>3. ASSUME NEW n \in Numbers, Opens(n) \/ Finishes(n)
      PROVE  /\ ASequence(runs)' /\ Numbers' = Numbers
             /\ \A m \in Numbers : Kin(runs[m], runs'[m]) \/ ((Moved(m) \/ Opened(m)) /\ edits' = edits)
  BY <1>3 DEF Opens, Finishes, Moved, Opened, Quiet, Noticed
<1>4. ASSUME NEW n \in Numbers, Stops(n)
      PROVE  /\ ASequence(runs)' /\ Numbers' = Numbers
             /\ \A m \in Numbers : Kin(runs[m], runs'[m]) \/ (Forgot(runs[m], runs'[m]) /\ edits' = edits)
  <2>1. edits' = edits
    BY <1>4 DEF Stops
  <2> QED BY <1>4, <2>1, StopsStops, AsideKin
<1>5. ASSUME NEW o \in orphans, OrphanWrites(o)
      PROVE  /\ ASequence(runs)' /\ Numbers' = Numbers
             /\ \A m \in Numbers : Kin(runs[m], runs'[m])
  <2>1. Kin(runs[o[3]], runs[o[3]])
    BY <1>5, OrphanNoticed DEF Base, Shape, Kin
  <2> QED BY <1>5, <2>1, OrphanNoticed DEF Noticed
<1>6. ASSUME runs' = runs
      PROVE  /\ ASequence(runs)' /\ Numbers' = Numbers
             /\ \A m \in Numbers : Kin(runs[m], runs'[m])
  BY <1>6 DEF Base, Shape, Kin, Numbers, ASequence
<1>7. CASE (\E x \in plan.editable : Edit(x)) \/ UNCHANGED scripts
  BY <1>6, <1>7 DEF Edit, scripts
<1> QED BY <1>1, <1>2, <1>3, <1>4, <1>5, <1>7 DEF ScriptsNext

\* The plan stays, and edits are only added.
LEMMA EditsFacts ==
    ASSUME Base, ScriptsNext
    PROVE  /\ plan' = plan /\ ASequence(edits)' /\ Len(edits) \in Nat
           /\ DOMAIN edits = 1..Len(edits)
           /\ DOMAIN edits \subseteq DOMAIN edits' /\ \A k \in DOMAIN edits : edits'[k] = edits[k]
<1>1. Len(edits) \in Nat /\ DOMAIN edits = 1..Len(edits)
  BY LenProperties DEF Base, ASequence
<1>2. CASE edits' = edits /\ plan' = plan
  BY <1>1, <1>2 DEF Base, ASequence
<1>3. ASSUME NEW x \in plan.editable, Edit(x)
      PROVE  /\ plan' = plan /\ ASequence(edits)'
             /\ DOMAIN edits \subseteq DOMAIN edits' /\ \A k \in DOMAIN edits : edits'[k] = edits[k]
  <2> DEFINE S == {edits[k] : k \in DOMAIN edits} \cup {x}
  <2>1. edits \in Seq(S)
    BY SeqMonotonic DEF Base, ASequence
  <2>2. edits' = Append(edits, x) /\ plan' = plan
    BY <1>3 DEF Edit
  <2>3. /\ edits' \in Seq(S) /\ Len(edits') = Len(edits) + 1
        /\ \A k \in 1..Len(edits) : edits'[k] = edits[k]
    BY <2>1, <2>2, AppendProperties
  <2>4. DOMAIN edits' = 1..(Len(edits) + 1)
    BY <2>3, LenProperties
  <2>5. edits' = [i \in 1..(Len(edits) + 1) |-> edits'[i]]
    BY <2>3, LenProperties
  <2>6. ASequence(edits')
    BY <1>1, <2>5, FunctionIsSequence
  <2> QED BY <1>1, <2>2, <2>3, <2>4, <2>6 DEF ASequence
<1>4. ASSUME NEW n \in Numbers, Reads(n) \/ Opens(n) \/ Finishes(n) \/ Makes(n) \/ Stops(n)
      PROVE  edits' = edits /\ plan' = plan
  BY <1>4 DEF Reads, Opens, Finishes, Makes, Stops, Quiet
<1>5. ASSUME NEW o \in orphans, OrphanWrites(o) PROVE edits' = edits /\ plan' = plan
  BY <1>5 DEF OrphanWrites
<1>6. ASSUME NEW job \in plan.jobs, Start(job) PROVE edits' = edits /\ plan' = plan
  BY <1>6 DEF Start, Quiet
<1>7. CASE UNCHANGED scripts
  BY <1>2, <1>7 DEF scripts
<1> QED BY <1>1, <1>2, <1>3, <1>4, <1>5, <1>6, <1>7 DEF ScriptsNext

\* Which files there are, and whose.
LEMMA FilesFacts ==
    ASSUME Base, ScriptsNext, Numbers \subseteq Numbers'
    PROVE  /\ \A q \in DOMAIN fs' : q = <<q[1], q[2]>> /\ fs'[q] \in (Numbers' \cup {0}) \X BOOLEAN
           /\ \A o \in orphans' : o = <<o[1], o[2], o[3]>> /\ o[3] \in Numbers'
<1>1. ASSUME NEW d, NEW f, NEW n \in Numbers, NEW c \in {<<n, TRUE>>, <<n, FALSE>>, <<0, TRUE>>},
             Store(d, f, c)
      PROVE  \A q \in DOMAIN fs' : q = <<q[1], q[2]>> /\ fs'[q] \in (Numbers' \cup {0}) \X BOOLEAN
  <2>1. n \in Numbers' \cup {0} /\ 0 \in Numbers' \cup {0}
    BY <1>1
  <2>2. c \in (Numbers' \cup {0}) \X BOOLEAN
    <3>1. \A w \in Numbers' \cup {0}, b \in BOOLEAN : <<w, b>> \in (Numbers' \cup {0}) \X BOOLEAN
      OBVIOUS
    <3>2. TRUE \in BOOLEAN /\ FALSE \in BOOLEAN
      OBVIOUS
    <3> QED BY <1>1, <2>1, <3>1, <3>2, Zenon
  <2>3. /\ DOMAIN fs' = DOMAIN fs \cup {<<d, f>>} /\ fs'[<<d, f>>] = c
        /\ \A q \in DOMAIN fs : q # <<d, f>> => fs'[q] = fs[q]
    BY <1>1, Stored
  <2>4. \A q \in DOMAIN fs : q = <<q[1], q[2]>> /\ fs[q] \in (Numbers' \cup {0}) \X BOOLEAN
    BY DEF Base
  <2> QED BY <2>2, <2>3, <2>4
<1>2. ASSUME NEW d, NEW f, NEW n PROVE Finished(d, f, n) \in {<<n, TRUE>>, <<0, TRUE>>}
  BY DEF Finished
<1>3. ASSUME fs' = fs
      PROVE  \A q \in DOMAIN fs' : q = <<q[1], q[2]>> /\ fs'[q] \in (Numbers' \cup {0}) \X BOOLEAN
  BY <1>3 DEF Base
<1>4. ASSUME orphans' \subseteq orphans
      PROVE  \A o \in orphans' : o = <<o[1], o[2], o[3]>> /\ o[3] \in Numbers'
  BY <1>4 DEF Base
<1>5. ASSUME NEW job \in plan.jobs, Start(job) PROVE fs' = fs /\ orphans' = orphans
  BY <1>5 DEF Start, Quiet
<1>6. ASSUME NEW n \in Numbers, Reads(n) PROVE fs' = fs /\ orphans' = orphans
  BY <1>6 DEF Reads, Quiet
<1>7. ASSUME NEW n \in Numbers, Opens(n) \/ Finishes(n) \/ Makes(n)
      PROVE  /\ \A q \in DOMAIN fs' : q = <<q[1], q[2]>> /\ fs'[q] \in (Numbers' \cup {0}) \X BOOLEAN
             /\ orphans' = orphans
  BY <1>1, <1>2, <1>7 DEF Opens, Finishes, Makes, Quiet
<1>8. ASSUME NEW n \in Numbers, Stops(n)
      PROVE  /\ fs' = fs
             /\ \A o \in orphans' : o = <<o[1], o[2], o[3]>> /\ o[3] \in Numbers'
  BY <1>8 DEF Stops, Base
<1>9. ASSUME NEW o \in orphans, OrphanWrites(o)
      PROVE  /\ \A q \in DOMAIN fs' : q = <<q[1], q[2]>> /\ fs'[q] \in (Numbers' \cup {0}) \X BOOLEAN
             /\ orphans' \subseteq orphans
  <2>1. o[3] \in Numbers
    BY DEF Base
  <2> QED BY <1>1, <1>2, <1>9, <2>1 DEF OrphanWrites
<1>10. CASE (\E x \in plan.editable : Edit(x)) \/ UNCHANGED scripts
  BY <1>3, <1>4, <1>10 DEF Edit, scripts
<1> QED BY <1>3, <1>4, <1>5, <1>6, <1>7, <1>8, <1>9, <1>10 DEF ScriptsNext

\* Records, files and orphans keep their shape.
LEMMA BaseStep == Base /\ ScriptsNext => Base'
<1> SUFFICES ASSUME Base, ScriptsNext PROVE Base'
  OBVIOUS
<1>1. ASequence(runs)' /\ Numbers \subseteq Numbers'
  BY RecordKinds
<1>2. \A n \in Numbers' : Shape(runs'[n])
  <2>1. ASSUME NEW n \in Numbers, Kin(runs[n], runs'[n]) PROVE Shape(runs'[n])
    BY <2>1, KinFacts DEF Base
  <2>2. ASSUME NEW n \in Numbers, Moved(n) \/ Opened(n) PROVE Shape(runs'[n])
    BY <2>2 DEF Moved, Does, Onward, Opened
  <2> QED BY <2>1, <2>2, RecordKinds DEF Begins, Forgot
<1>3. plan' \in Plans /\ ASequence(edits)'
  BY EditsFacts DEF Base
<1>4. /\ \A q \in DOMAIN fs' : q = <<q[1], q[2]>> /\ fs'[q] \in (Numbers' \cup {0}) \X BOOLEAN
      /\ \A o \in orphans' : o = <<o[1], o[2], o[3]>> /\ o[3] \in Numbers'
  BY <1>1, FilesFacts
<1> QED BY <1>1, <1>2, <1>3, <1>4 DEF Base

\* At first there are none.
LEMMA BaseInit == Init => Base
<1> SUFFICES ASSUME Init PROVE Base
  OBVIOUS
<1>1. plan \in Plans /\ runs = <<>> /\ edits = <<>> /\ fs = <<>> /\ orphans = {}
  BY DEF Init, RunInit
<1>2. DOMAIN <<>> = {}
  OBVIOUS
<1>3. ASequence(<<>>)
  BY EmptySeq DEF ASequence
<1> QED BY <1>1, <1>2, <1>3 DEF Base, Numbers

-----------------------------------------------------------------------------
(* Inputs                                                                  *)

\* A version is 0 or 1.
LEMMA Counted ==
    ASSUME NEW e, ASequence(e), NEW x
    PROVE  VersionAfter(e, x) \in {0, 1}
<1> DEFINE S == {k \in DOMAIN e : e[k] = x}
<1>1. Len(e) \in Nat /\ DOMAIN e = 1..Len(e)
  BY LenProperties DEF ASequence
<1>2. IsFiniteSet(1..Len(e))
  BY <1>1, FS_Interval
<1>3. IsFiniteSet(S)
  BY <1>1, <1>2, FS_Subset
<1>4. Cardinality(S) \in Nat
  BY <1>3, FS_CardinalityType
<1> QED BY <1>4 DEF VersionAfter

\* What was edited at most once has version 0 before and 1 after.
LEMMA CountedOnce ==
    ASSUME NEW e, NEW x, ~(\E j, k \in DOMAIN e : j # k /\ e[j] = e[k])
    PROVE  VersionAfter(e, x) = IF \E k \in DOMAIN e : e[k] = x THEN 1 ELSE 0
<1>1. ASSUME NEW k \in DOMAIN e, e[k] = x
      PROVE  Cardinality({j \in DOMAIN e : e[j] = x}) % 2 = 1
  <2>1. {j \in DOMAIN e : e[j] = x} = {k}
    BY <1>1
  <2>2. Cardinality({k}) = 1
    BY FS_Singleton
  <2> QED BY <2>1, <2>2
<1>2. ASSUME ~\E k \in DOMAIN e : e[k] = x
      PROVE  Cardinality({j \in DOMAIN e : e[j] = x}) % 2 = 0
  <2>1. {j \in DOMAIN e : e[j] = x} = {}
    BY <1>2
  <2>2. Cardinality({}) = 0
    BY FS_EmptySet
  <2> QED BY <2>1, <2>2
<1> QED BY <1>1, <1>2 DEF VersionAfter

\* The version of an input now.
LEMMA VersionIs == \A x : Version(x) = VersionAfter(edits, x)
  BY DEF Version, VersionAfter

\* As long as nothing is edited twice, versions only grow.
LEMMA VersionGrows ==
    ASSUME Base, ScriptsNext, ~Twice'
    PROVE  ~Twice /\ \A x : VersionAfter(edits, x) <= VersionAfter(edits', x)
<1>1. /\ DOMAIN edits \subseteq DOMAIN edits' /\ \A k \in DOMAIN edits : edits'[k] = edits[k]
  BY EditsFacts
<1>2. ~Twice
  BY <1>1 DEF Twice
<1>3. ASSUME NEW x PROVE VersionAfter(edits, x) <= VersionAfter(edits', x)
  <2>1. VersionAfter(edits, x) = IF \E k \in DOMAIN edits : edits[k] = x THEN 1 ELSE 0
    BY <1>2, CountedOnce DEF Twice
  <2>2. VersionAfter(edits', x) = IF \E k \in DOMAIN edits' : edits'[k] = x THEN 1 ELSE 0
    BY CountedOnce DEF Twice
  <2> QED BY <1>1, <2>1, <2>2
<1> QED BY <1>2, <1>3

\* A run that has begun its instruction, or ended it.
Reaches(r, s) ==
    LET i == Code(r)[At(r)]
    IN /\ Shape(s) /\ \A j \in 1..At(r) : Code(s)[j] = Code(r)[j]
       /\ Begun(s) = 1..At(r) /\ Ended(s) \subseteq 1..At(r) /\ 1..At(r) \subseteq DOMAIN Code(s)
       /\ s.before = NextBefore(r, i) /\ s.checked = NextChecked(r, i)
       /\ s.used = r.used \cup AsLoaded(i) /\ s.script = r.script
       /\ i[1] = "recheck" => <<i[2], Version(i[2])>> \in r.before
       /\ Orderly(Code(s), s.script)

\* That is where a step takes the run that takes it.
LEMMA MovedReaches ==
    ASSUME Base, NEW m, Moved(m) \/ Opened(m)
    PROVE  Reaches(runs[m], runs'[m]) /\ Shape(runs[m]) /\ runs[m].state = "active" /\ m \in Numbers
<1>1. /\ m \in Numbers /\ Active(m) /\ Holds(m) /\ Instruction(m) = Now(m)
      /\ Shape(runs[m]) /\ runs[m].state = "active"
      /\ Now(m) = Code(runs[m])[At(runs[m])]
  BY AtInstruction DEF Moved, Opened, Now, Program, Code
<1>2. Now(m)[1] = "recheck" => <<Now(m)[2], Version(Now(m)[2])>> \in runs[m].before
  BY <1>1 DEF Holds, SameHash
<1>3. At(runs[m]) \in Nat /\ At(runs[m]) >= 1 /\ At(runs[m]) <= Len(Code(runs[m]))
  BY <1>1, Current
<1>4. CASE Moved(m)
  <2>1. Does(runs[m], Now(m), runs'[m])
    BY <1>4 DEF Moved
  <2>2. Shape(runs'[m]) /\ At(runs'[m]) = At(runs[m]) + 1
    BY <2>1 DEF Does, Onward
  <2>3. 1..At(runs[m]) \subseteq DOMAIN Code(runs'[m]) /\ Orderly(Code(runs'[m]), runs'[m].script)
    <3>1. CASE runs'[m].state = "active"
      BY <1>3, <2>2, <3>1, Current
    <3>2. CASE runs'[m].state # "active"
      BY <1>3, <2>2, <3>2, AtTheEnd DEF Ended
    <3> QED BY <3>1, <3>2
  <2> QED BY <1>1, <1>2, <2>1, <2>3 DEF Does, Onward, Reaches
<1>5. CASE Opened(m)
  <2>1. Now(m)[1] \in Writes
    BY <1>5 DEF Opened
  <2>2. /\ NextBefore(runs[m], Now(m)) = runs[m].before
        /\ NextChecked(runs[m], Now(m)) = runs[m].checked
    BY <2>1, Idle DEF Writes
  <2>3. 1..At(runs[m]) \subseteq DOMAIN Code(runs[m]) /\ Orderly(Code(runs[m]), runs[m].script)
    BY <1>1, <1>3, Current
  <2>4. Ended(runs[m]) \subseteq 1..At(runs[m])
    BY <1>3 DEF Ended
  <2> QED BY <1>1, <1>2, <1>5, <2>2, <2>3, <2>4 DEF Opened, Reaches
<1> QED BY <1>4, <1>5

\* It keeps hashes and loads apart, each with its version.
LEMMA ReachesDated ==
    ASSUME NEW r, NEW s, Shape(r), r.state = "active", Reaches(r, s), Dated(r),
           \A x : Version(x) \in {0, 1}
    PROVE  Dated(s)
<1> DEFINE a == At(r)
           i == Code(r)[a]
<1>1. a \in Nat /\ a >= 1 /\ Begun(r) \subseteq 1..a
  BY Current DEF Begun, Ended
<1>2. ASSUME NEW u \in s.used
      PROVE  /\ u = <<u[1], u[2]>> /\ u[2] \in {0, 1}
             /\ \E j \in Begun(s) : u[1] \in Loaded(Code(s)[j])
  <2>1. CASE u \in r.used
    BY <1>1, <2>1 DEF Dated, Reaches
  <2>2. CASE u \in AsLoaded(i)
    <3>1. PICK x \in Loaded(i) : u = <<x, Version(x)>>
      BY <2>2 DEF AsLoaded
    <3>2. a \in Begun(s) /\ Code(s)[a] = i
      BY <1>1 DEF Reaches
    <3> QED BY <3>1, <3>2
  <2> QED BY <2>1, <2>2 DEF Reaches
<1>3. \A b \in s.before : b = <<b[1], b[2]>> /\ b[2] \in {0, 1}
  BY DEF Reaches, NextBefore, Dated
<1>4. \A b, c \in s.before : b[1] = c[1] => b = c
  BY DEF Reaches, NextBefore, Dated
<1> QED BY <1>2, <1>3, <1>4 DEF Dated

\* What it hashes is the newest version, and so is what it loads; a hash that is
\* compared and found the same has had no edit since.
LEMMA ReachesIdentified ==
    ASSUME NEW r, NEW s, Shape(r), r.state = "active", Reaches(r, s), Dated(r), Identified(r, edits),
           \A x : Version(x) \in {0, 1}
    PROVE  Identified(s, edits)
<1> DEFINE a == At(r)
           i == Code(r)[a]
           p == Code(s)
<1>1. /\ a \in Nat /\ a >= 1 /\ Begun(r) \subseteq 1..a /\ Ended(r) = 1..(a - 1)
      /\ Ended(r) \subseteq Begun(r)
  BY Current DEF Begun, Ended
<1>2. /\ \A j \in 1..a : p[j] = Code(r)[j]
      /\ Begun(s) = 1..a /\ Ended(s) \subseteq 1..a /\ 1..a \subseteq DOMAIN p
      /\ s.before = NextBefore(r, i) /\ s.checked = NextChecked(r, i)
      /\ s.used = r.used \cup AsLoaded(i) /\ s.script = r.script
      /\ i[1] = "recheck" => <<i[2], Version(i[2])>> \in r.before
      /\ Bracketed(p, s.script) /\ p[a] = i
  BY <1>1 DEF Reaches, Orderly
<1>3. \A b \in s.before : b \in r.before \/ (i[1] \in {"pinned", "hash"} /\ b = <<i[2], Version(i[2])>>)
  BY <1>2 DEF NextBefore
<1>4. \A u \in s.used : u \in r.used \/ \E x \in Loaded(i) : u = <<x, Version(x)>>
  BY <1>2 DEF AsLoaded
<1>5. \A u \in r.used : u = <<u[1], u[2]>> /\ u[2] \in {0, 1}
                        /\ \E j \in Begun(r) : u[1] \in Loaded(p[j])
  BY <1>1, <1>2 DEF Dated
<1>6. /\ \A b \in r.before : b[2] <= Version(b[1]) /\ b[2] \in {0, 1}
      /\ \A u \in r.used : u[2] <= Version(u[1])
  BY VersionIs DEF Dated, Identified
<1> HIDE DEF a, i, p
<1>7. \A b \in s.before : b[2] <= Version(b[1]) /\ b[2] \in {0, 1}
  BY <1>3, <1>6
<1>8. \A u \in s.used : u[2] <= Version(u[1])
  BY <1>4, <1>6
<1>9. ASSUME NEW b \in s.before, NEW u \in s.used, b[1] = u[1], HashedFirst(s, u[1])
      PROVE  b[2] <= u[2]
  <2>1. CASE u \in r.used /\ b \in r.before
    <3>1. HashedFirst(r, u[1])
      BY <1>1, <1>2, <1>9 DEF HashedFirst, p
    <3> QED BY <1>9, <2>1, <3>1 DEF Identified
  <2>2. CASE u \notin r.used
    BY <1>4, <1>7, <1>9, <2>2
  <2>3. CASE u \in r.used /\ b \notin r.before
    <3>1. i[1] \in {"pinned", "hash"} /\ Hashes(p[a], u[1])
      BY <1>2, <1>3, <1>9, <2>3 DEF Hashes
    <3>2. PICK j \in Begun(r) : u[1] \in Loaded(p[j])
      BY <1>5, <2>3
    <3>3. a < j
      BY <1>1, <1>2, <1>9, <3>1, <3>2 DEF HashedFirst, p
    <3> QED BY <1>1, <3>3
  <2> QED BY <2>1, <2>2, <2>3
<1>10. ASSUME NEW m \in Ended(s), NEW u \in s.used, p[m][1] = "recheck", p[m][2] = u[1],
              u[1] \notin Imported
       PROVE  u \in s.checked /\ (s.script \notin ReportsAnew => u \in s.before)
  <2>1. m \in 1..a /\ m \in DOMAIN p
    BY <1>2
  <2>2. \A j \in DOMAIN p : u[1] \in Loaded(p[j]) =>
            /\ j < m
            /\ \A k \in DOMAIN p :
                   Hashes(p[k], u[1]) /\ (k < m \/ s.script \notin ReportsAnew) => k < j
    BY <1>10, <2>1, <1>2 DEF Bracketed
  <2>3. u \in r.used
    <3>1. ASSUME u \notin r.used PROVE FALSE
      <4>1. u[1] \in Loaded(p[a])
        BY <1>2, <1>4, <3>1
      <4>2. a < m
        BY <1>1, <1>2, <2>2, <4>1
      <4> QED BY <1>1, <2>1, <4>2
    <3> QED BY <3>1
  <2>4. PICK j \in Begun(r) : u[1] \in Loaded(p[j])
    BY <1>5, <2>3
  <2>5. j \in 1..a /\ j \in DOMAIN p
    BY <1>1, <1>2
  <2>6. s.script \notin ReportsAnew => ~Hashes(p[a], u[1])
    BY <1>1, <1>2, <2>2, <2>4, <2>5
  <2>7. CASE m < a
    <3>1. u \in r.checked /\ (r.script \notin ReportsAnew => u \in r.before)
      <4>1. m \in Ended(r) /\ p[m] = Code(r)[m]
        BY <1>1, <1>2, <2>1, <2>7
      <4> QED BY <1>10, <2>3, <4>1 DEF Identified
    <3>2. u \in s.checked
      BY <1>2, <3>1 DEF NextChecked
    <3>3. s.script \notin ReportsAnew => u \in s.before
      BY <1>2, <2>6, <3>1 DEF NextBefore, Hashes
    <3> QED BY <3>2, <3>3
  <2>8. CASE m = a
    <3>1. i[1] = "recheck" /\ i[2] = u[1]
      BY <1>2, <1>10, <2>8
    <3>2. /\ <<u[1], Version(u[1])>> \in r.before /\ s.before = r.before
          /\ <<u[1], Version(u[1])>> \in s.checked
      BY <1>2, <3>1 DEF NextBefore, NextChecked
    <3>3. HashedFirst(r, u[1])
      <4>1. \A k \in Begun(r) : k \in 1..a /\ k \in DOMAIN p /\ p[k] = Code(r)[k]
        BY <1>1, <1>2
      <4>2. \A k \in Begun(r) : Hashes(p[k], u[1]) => k < m
        BY <1>1, <1>2, <2>8, <3>1, <4>1 DEF Hashes
      <4> QED BY <2>2, <4>1, <4>2 DEF HashedFirst
    <3>4. Version(u[1]) <= u[2]
      BY <2>3, <3>2, <3>3 DEF Identified
    <3>5. u[2] = Version(u[1])
      BY <1>5, <1>6, <2>3, <3>4
    <3> QED BY <1>5, <2>3, <3>2, <3>5
  <2> QED BY <2>1, <2>7, <2>8, <1>1
<1> QED BY <1>7, <1>8, <1>9, <1>10, VersionIs DEF Identified, p

-----------------------------------------------------------------------------
(* The original module                                                     *)

\* Where an instruction was, and is.
LEMMA DoesPlace ==
    ASSUME NEW r, NEW s, NEW i, Shape(r), r.state = "active", i = Code(r)[At(r)], Does(r, i, s)
    PROVE  /\ At(r) \in Nat /\ At(r) >= 1 /\ At(r) \in 1..At(r)
           /\ Ended(r) = 1..(At(r) - 1) /\ Begun(r) \subseteq 1..At(r)
           /\ At(s) = At(r) + 1 /\ Ended(s) = 1..At(r) /\ Begun(s) = 1..At(r)
           /\ \A j \in 1..At(r) : Code(s)[j] = Code(r)[j]
           /\ Code(s)[At(r)] = i
           /\ 1..At(r) \subseteq DOMAIN Code(r) /\ 1..At(r) \subseteq DOMAIN Code(s)
           /\ Orderly(Code(r), r.script) /\ Orderly(Code(s), s.script)
           /\ s.script = r.script
<1>1. /\ Shape(s) /\ s.script = r.script /\ At(s) = At(r) + 1
      /\ Ended(s) = 1..At(r) /\ Begun(s) = 1..At(r)
      /\ \A j \in 1..At(r) : Code(s)[j] = Code(r)[j]
  BY DEF Does, Onward
<1>2. /\ At(r) \in Nat /\ At(r) >= 1 /\ At(r) <= Len(Code(r)) /\ Len(Code(r)) \in Nat
      /\ DOMAIN Code(r) = 1..Len(Code(r)) /\ Orderly(Code(r), r.script)
  BY Current
<1>3. 1..At(r) \subseteq DOMAIN Code(s) /\ Orderly(Code(s), s.script)
  <2>1. CASE s.state = "active"
    BY <1>1, <1>2, <2>1, Current
  <2>2. CASE s.state # "active"
    BY <1>1, <1>2, <2>2, AtTheEnd DEF Ended
  <2> QED BY <2>1, <2>2
<1>4. At(r) \in 1..At(r)
  BY <1>2
<1>5. Ended(r) = 1..(At(r) - 1) /\ Begun(r) \subseteq 1..At(r)
  BY <1>2 DEF Ended, Begun
<1> QED BY <1>1, <1>2, <1>3, <1>4, <1>5

\* What it takes for the results to be described, instruction after instruction.
LEMMA DoesWatched ==
    ASSUME NEW r, NEW s, NEW i, Shape(r), r.state = "active", i = Code(r)[At(r)], Does(r, i, s),
           s.state = "active", Watched(r)
    PROVE  Watched(s)
<1> DEFINE a == At(r)
           p == Code(s)
<1>1. /\ a \in Nat /\ a >= 1 /\ Ended(r) = 1..(a - 1) /\ Ended(s) = 1..a /\ At(s) = a + 1
      /\ \A j \in 1..a : p[j] = Code(r)[j]
      /\ s.watching = NextWatching(r, i) /\ p[a] = i
  BY DoesPlace DEF Does
<1> HIDE DEF a, p
<1>2. ASSUME NEW o \in s.watching
      PROVE  \E j \in 1..a : /\ p[j][1] = "watch" /\ p[j][2] = o
                             /\ \A m \in (j + 1)..a : ~Ends(p[m], o)
  <2>1. CASE o \in r.watching /\ ~Ends(i, o)
    <3>1. PICK j \in 1..(a - 1) :
              /\ Code(r)[j][1] = "watch" /\ Code(r)[j][2] = o
              /\ \A m \in (j + 1)..(a - 1) : ~Ends(Code(r)[m], o)
      BY <1>1, <2>1 DEF Watched, a
    <3>2. \A m \in (j + 1)..a : ~Ends(p[m], o)
      BY <1>1, <2>1, <3>1
    <3> QED BY <1>1, <3>1, <3>2
  <2>2. CASE i[1] = "watch" /\ i[2] = o
    BY <1>1, <2>2
  <2> QED BY <1>1, <2>1, <2>2 DEF NextWatching, Ends
<1> QED BY <1>1, <1>2 DEF Watched, p

\* The call that others are compared with is observed by nothing.
LEMMA BasePlain ==
    ASSUME NEW r, NEW i, Shape(r), r.state = "active", i = Code(r)[At(r)], Watched(r), BasePass(i)
    PROVE  r.watching = {}
<1> DEFINE a == At(r)
           p == Code(r)
<1>1. a \in Nat /\ a >= 1 /\ a <= Len(p) /\ Len(p) \in Nat /\ DOMAIN p = 1..Len(p)
      /\ Orderly(p, r.script)
  BY Current
<1>2. a \in DOMAIN p
  <2> HIDE DEF a, p
  <2> QED BY <1>1
<1>3. Unobserved(p)
  BY <1>1 DEF Orderly
<1>4. ASSUME NEW o \in r.watching PROVE FALSE
  <2>1. PICK j \in 1..(a - 1) :
            /\ p[j][1] = "watch" /\ p[j][2] = o
            /\ \A m \in (j + 1)..(a - 1) : ~Ends(p[m], o)
    BY DEF Watched, Ended
  <2>2. \E m \in (j + 1)..(a - 1) : Ends(p[m], p[j][2])
    BY <1>2, <1>3, <2>1 DEF Unobserved
  <2> QED BY <2>1, <2>2
<1> QED BY <1>4

\* Results stand until the next first call.
LEMMA DoesCalled ==
    ASSUME NEW r, NEW s, NEW i, Shape(r), r.state = "active", i = Code(r)[At(r)], Does(r, i, s),
           s.state = "active", Watched(r), Called(r)
    PROVE  Called(s)
<1> DEFINE a == At(r)
           p == Code(s)
<1>1. /\ a \in Nat /\ a >= 1 /\ Ended(r) = 1..(a - 1) /\ Ended(s) = 1..a /\ At(s) = a + 1
      /\ \A j \in 1..a : p[j] = Code(r)[j]
      /\ i[1] # "pass" => s.values = r.values
      /\ i[1] = "pass" => \E result \in Results(r) : s.values = NextValues(r, i, result)
      /\ p[a] = i
  BY DoesPlace DEF Does
<1>2. i[1] = "pass" /\ i[2] = "base" => r.watching = {}
  BY BasePlain DEF BasePass
<1>3. /\ \A x, y \in r.values : x = <<x[1], x[2]>> /\ (x[1] = y[1] => x = y)
      /\ \A x \in r.values : \E j \in 1..(a - 1) : Stands(Code(r), j, a) /\ Code(r)[j][2] = x[1]
      /\ \A j \in 1..(a - 1) : BasePass(Code(r)[j]) => \E x \in r.values : x[1] = "base"
      /\ \A x \in r.values : x[1] = "base" => x[2] = "plain"
  BY <1>1 DEF Called
<1> HIDE DEF a, p
<1>4. CASE i[1] # "pass"
  <2>1. ASSUME NEW x \in r.values
        PROVE  \E j \in 1..a : Stands(p, j, a + 1) /\ p[j][2] = x[1]
    <3>1. PICK j \in 1..(a - 1) : Stands(Code(r), j, a) /\ Code(r)[j][2] = x[1]
      BY <1>3
    <3>2. j \in 1..a /\ Stands(p, j, a + 1) /\ p[j][2] = x[1]
      BY <1>1, <1>4, <3>1 DEF Stands
    <3> QED BY <3>2
  <2>2. \A j \in 1..a : BasePass(p[j]) => j \in 1..(a - 1)
    BY <1>1, <1>4 DEF BasePass
  <2> QED BY <1>1, <1>3, <1>4, <2>1, <2>2 DEF Called, p
<1>5. CASE i[1] = "pass"
  <2>1. PICK result \in Results(r) : s.values = NextValues(r, i, result)
    BY <1>1, <1>5
  <2>2. \A x \in s.values : \/ x \in r.values /\ i[2] # "base" /\ x[1] # i[2]
                            \/ x = <<i[2], result>>
    BY <2>1 DEF NextValues
  <2>3. <<i[2], result>> \in s.values
    BY <2>1 DEF NextValues
  <2>4. \A x, y \in s.values : x = <<x[1], x[2]>> /\ (x[1] = y[1] => x = y)
    BY <1>3, <2>2
  <2>5. ASSUME NEW x \in s.values
        PROVE  \E j \in 1..a : Stands(p, j, a + 1) /\ p[j][2] = x[1]
    <3>1. CASE x = <<i[2], result>>
      <4>1. Stands(p, a, a + 1) /\ p[a][2] = x[1]
        BY <1>1, <1>5, <3>1 DEF Stands
      <4> QED BY <1>1, <4>1
    <3>2. CASE x \in r.values /\ i[2] # "base" /\ x[1] # i[2]
      <4>1. PICK j \in 1..(a - 1) : Stands(Code(r), j, a) /\ Code(r)[j][2] = x[1]
        BY <1>3, <3>2
      <4>2. Stands(p, j, a + 1)
        BY <1>1, <3>2, <4>1 DEF Stands
      <4> QED BY <1>1, <4>1, <4>2
    <3> QED BY <2>2, <3>1, <3>2
  <2>6. \A j \in 1..a : BasePass(p[j]) => \E x \in s.values : x[1] = "base"
    <3>1. ASSUME NEW j \in 1..a, BasePass(p[j]) PROVE \E x \in s.values : x[1] = "base"
      <4>1. CASE i[2] = "base"
        BY <2>3, <4>1
      <4>2. CASE i[2] # "base"
        <5>1. j \in 1..(a - 1)
          BY <1>1, <3>1, <4>2 DEF BasePass
        <5>2. PICK x \in r.values : x[1] = "base"
          BY <1>1, <1>3, <3>1, <5>1
        <5>3. x \in s.values
          BY <2>1, <4>2, <5>2 DEF NextValues
        <5> QED BY <5>2, <5>3
      <4> QED BY <4>1, <4>2
    <3> QED BY <3>1
  <2>7. \A x \in s.values : x[1] = "base" => x[2] = "plain"
    BY <1>2, <1>3, <1>5, <2>1, <2>2 DEF Results
  <2> QED BY <1>1, <2>4, <2>5, <2>6, <2>7 DEF Called, p
<1> QED BY <1>4, <1>5

\* A comparison that did not raise says what the result is.
LEMMA DoesFound ==
    ASSUME NEW r, NEW s, NEW i, Shape(r), r.state = "active", i = Code(r)[At(r)], Does(r, i, s),
           s.state = "active", Called(r), Found(r),
           i = Same(i[2]) => \A x, y \in r.values : x[1] = i[2] /\ y[1] = "base" => x[2] = y[2],
           i = Close(i[2]) => \A x, y \in r.values : x[1] = i[2] /\ y[1] = "base" =>
                                  x[2] = y[2] \/ x[2] \in {"plain", "near"}
    PROVE  Found(s)
<1> DEFINE a == At(r)
           p == Code(s)
<1>1. /\ a \in Nat /\ a >= 1 /\ Ended(r) = 1..(a - 1) /\ Ended(s) = 1..a /\ At(s) = a + 1
      /\ \A j \in 1..a : p[j] = Code(r)[j]
      /\ i[1] # "pass" => s.values = r.values
      /\ i[1] = "pass" => \E result \in Results(r) : s.values = NextValues(r, i, result)
      /\ p[a] = i /\ a \in 1..a /\ 1..a \subseteq DOMAIN Code(r) /\ Orderly(Code(r), r.script)
  BY DoesPlace DEF Does
<1> HIDE DEF a, p
<1>2. a \in DOMAIN Code(r) /\ Compared(Code(r))
  BY <1>1 DEF Orderly
<1>3. SUFFICES ASSUME NEW x \in s.values, NEW j \in 1..a, NEW m \in 1..a,
                      Stands(p, j, a + 1), p[j][2] = x[1], j < m
               PROVE  /\ p[m] = Same(x[1]) => x[2] = "plain"
                      /\ p[m] = Close(x[1]) => x[2] \in {"plain", "near"}
  BY <1>1 DEF Found, p
<1>4. Stands(Code(r), j, a)
  BY <1>1, <1>3 DEF Stands
<1>5. j \in 1..(a - 1)
  BY <1>1, <1>3
<1>6. x \in r.values
  <2>1. CASE i[1] # "pass"
    BY <1>1, <1>3, <2>1
  <2>2. CASE i[1] = "pass"
    <3>1. a \in (j + 1)..(a + 1 - 1)
      BY <1>1, <1>5
    <3>2. p[a][2] # p[j][2]
      BY <1>1, <1>3, <2>2, <3>1 DEF Stands
    <3> QED BY <1>1, <1>3, <2>2, <3>2 DEF NextValues
  <2> QED BY <2>1, <2>2
<1>7. CASE m < a
  BY <1>1, <1>3, <1>4, <1>5, <1>6, <1>7 DEF Found, a
<1>8. CASE m = a
  <2>1. ASSUME p[m] = Same(x[1]) \/ p[m] = Close(x[1])
        PROVE  \E y \in r.values : y[1] = "base" /\ y[2] = "plain"
    <3>1. Code(r)[a][1] \in {"same", "close"}
      BY <1>1, <1>8, <2>1 DEF Same, Close
    <3>2. PICK k \in 1..(a - 1) : BasePass(Code(r)[k])
      BY <1>2, <1>1, <3>1 DEF Compared
    <3>3. PICK y \in r.values : y[1] = "base"
      BY <1>1, <3>2 DEF Called
    <3> QED BY <3>3 DEF Called
  <2>2. ASSUME p[m] = Same(x[1]) PROVE x[2] = "plain"
    <3>1. i[2] = x[1] /\ i = Same(i[2])
      BY <1>1, <1>8, <2>2 DEF Same
    <3> QED BY <1>6, <2>1, <2>2, <3>1
  <2>3. ASSUME p[m] = Close(x[1]) PROVE x[2] \in {"plain", "near"}
    <3>1. i[2] = x[1] /\ i = Close(i[2])
      BY <1>1, <1>8, <2>3 DEF Close
    <3> QED BY <1>6, <2>1, <2>3, <3>1
  <2> QED BY <2>2, <2>3
<1> QED BY <1>1, <1>7, <1>8

\* What is kept has been compared.
LEMMA DoesKept ==
    ASSUME NEW r, NEW s, NEW i, Shape(r), r.state = "active", i = Code(r)[At(r)], Does(r, i, s),
           Called(r), Found(r), Kept(r)
    PROVE  Kept(s)
<1> DEFINE a == At(r)
           p == Code(s)
<1>1. /\ a \in Nat /\ a >= 1 /\ Ended(r) = 1..(a - 1) /\ Ended(s) = 1..a
      /\ \A j \in 1..a : p[j] = Code(r)[j]
      /\ s.taps = NextTaps(r, i)
      /\ p[a] = i /\ a \in 1..a /\ 1..a \subseteq DOMAIN Code(r) /\ Orderly(Code(r), r.script)
  BY DoesPlace DEF Does
<1> HIDE DEF a, p
<1>2. a \in DOMAIN Code(r) /\ Compared(Code(r))
  BY <1>1 DEF Orderly
<1>3. SUFFICES ASSUME NEW t \in s.taps
               PROVE  t = "plain" \/ (t = "near" /\ \E k \in 1..a : p[k] = Close("seen"))
  BY <1>1 DEF Kept, p
<1>4. CASE t \in r.taps
  BY <1>1, <1>4 DEF Kept
<1>5. CASE t \notin r.taps
  <2>1. i[1] = "keep" /\ \E x \in Tapped(r) : t = x[2]
    BY <1>1, <1>3, <1>5 DEF NextTaps
  <2>2. PICK x \in Tapped(r) : t = x[2]
    BY <2>1
  <2>3. x \in r.values /\ x[1] \in {"base", "part", "seen"}
    BY <2>2 DEF Tapped, Seen
  <2>4. CASE x[1] = "base"
    BY <2>2, <2>3, <2>4 DEF Called
  <2>5. CASE x[1] \in {"part", "seen"}
    <3>1. PICK j \in 1..(a - 1) : Stands(Code(r), j, a) /\ Code(r)[j][2] = x[1]
      BY <1>1, <2>3 DEF Called, a
    <3>2. Code(r)[a][1] = "keep"
      BY <1>1, <2>1
    <3>3. PICK m \in (j + 1)..(a - 1) :
              Code(r)[m] = Same(x[1]) \/ (x[1] = "seen" /\ Code(r)[m] = Close("seen"))
      BY <1>2, <1>1, <2>5, <3>1, <3>2 DEF Compared
    <3>4. m \in 1..(a - 1) /\ j < m
      BY <1>1, <3>1, <3>3
    <3>5. CASE Code(r)[m] = Same(x[1])
      BY <1>1, <2>2, <2>3, <3>1, <3>4, <3>5 DEF Found, a
    <3>6. CASE x[1] = "seen" /\ Code(r)[m] = Close("seen")
      <4>1. x[2] \in {"plain", "near"}
        BY <1>1, <2>3, <3>1, <3>4, <3>6 DEF Found, a
      <4>2. m \in 1..a /\ p[m] = Close("seen")
        BY <1>1, <3>4, <3>6
      <4> QED BY <2>2, <4>1, <4>2
    <3> QED BY <3>3, <3>5, <3>6
  <2> QED BY <2>3, <2>4, <2>5
<1> QED BY <1>4, <1>5

-----------------------------------------------------------------------------
(* What the runs know stays so                                             *)

\* CHOOSE finds the only result of a call.
LEMMA ValueIs ==
    ASSUME NEW n, Called(runs[n]), NEW x \in runs[n].values
    PROVE  Value(n, x[1]) = x[2]
<1>1. \E y \in runs[n].values : y[1] = x[1]
  OBVIOUS
<1>2. (CHOOSE y \in runs[n].values : y[1] = x[1]) = x
  BY <1>1 DEF Called
<1> QED BY <1>2 DEF Value

\* Other runs do not change what a run knows,
LEMMA KinKnows ==
    ASSUME NEW r, NEW s, Shape(r), Kin(r, s)
    PROVE  /\ Dated(r) => Dated(s)
           /\ Observed(r) => Observed(s)
           /\ Kept(r) => Kept(s)
<1>1. Code(s) = Code(r) /\ At(s) = At(r) /\ Ended(s) = Ended(r) /\ Begun(s) = Begun(r)
  BY KinFacts
<1>2. Dated(r) => Dated(s)
  BY <1>1 DEF Kin, Dated
<1>3. Observed(r) => Observed(s)
  BY <1>1 DEF Kin, Observed, Watched, Called, Found
<1>4. Kept(r) => Kept(s)
  BY <1>1 DEF Kin, Kept
<1> QED BY <1>2, <1>3, <1>4

\* nor do later edits change what it knows of its inputs.
LEMMA KinIdentified ==
    ASSUME NEW r, NEW s, NEW e, NEW f, Shape(r), Kin(r, s), Dated(r), Identified(r, e),
           \A x : /\ VersionAfter(e, x) \in {0, 1} /\ VersionAfter(f, x) \in {0, 1}
                  /\ VersionAfter(e, x) <= VersionAfter(f, x)
    PROVE  Identified(s, f)
<1>1. Code(s) = Code(r) /\ At(s) = At(r) /\ Ended(s) = Ended(r) /\ Begun(s) = Begun(r)
      /\ s.before = r.before /\ s.checked = r.checked /\ s.used = r.used /\ s.script = r.script
  BY KinFacts DEF Kin
<1>2. /\ \A b \in r.before : b[2] \in {0, 1} /\ b[2] <= VersionAfter(e, b[1])
      /\ \A u \in r.used : u[2] \in {0, 1} /\ u[2] <= VersionAfter(e, u[1])
  BY DEF Dated, Identified
<1>3. /\ \A b \in s.before : b[2] <= VersionAfter(f, b[1])
      /\ \A u \in s.used : u[2] <= VersionAfter(f, u[1])
  BY <1>1, <1>2
<1>4. \A u \in r.used : HashedFirst(s, u[1]) = HashedFirst(r, u[1])
  BY <1>1 DEF HashedFirst
<1> QED BY <1>1, <1>3, <1>4 DEF Identified

\* A run that has forgotten everything, or has not begun, knows nothing wrong.
LEMMA NothingKnown ==
    ASSUME NEW s, s.before = {}, s.used = {}, s.taps = {}, s.state # "active" \/ Begins(s)
    PROVE  Dated(s) /\ (\A e : Identified(s, e)) /\ Observed(s) /\ Kept(s)
<1>1. Dated(s) /\ (\A e : Identified(s, e)) /\ Kept(s)
  BY DEF Dated, Identified, Kept
<1>2. Observed(s)
  BY DEF Observed, Begins, Watched, Called, Found
<1> QED BY <1>1, <1>2

\* What every run knows is kept by every step.
LEMMA RunsKnowStep == Base /\ Base' /\ RunsKnow /\ ScriptsNext => RunsKnow'
<1> SUFFICES ASSUME Base, Base', RunsKnow, ScriptsNext, NEW m \in Numbers'
             PROVE  /\ Dated(runs'[m]) /\ (~Twice' => Identified(runs'[m], edits'))
                    /\ Observed(runs'[m]) /\ Kept(runs'[m])
  BY DEF RunsKnow
<1> DEFINE r == runs[m]
           s == runs'[m]
<1>1. ASequence(edits) /\ ASequence(edits')
  BY DEF Base, ASequence
<1>2. \A x : /\ VersionAfter(edits, x) \in {0, 1} /\ VersionAfter(edits', x) \in {0, 1}
             /\ Version(x) \in {0, 1}
  BY <1>1, Counted, VersionIs
<1>3. ~Twice' => ~Twice /\ \A x : VersionAfter(edits, x) <= VersionAfter(edits', x)
  BY VersionGrows
<1>4. ASSUME m \notin Numbers, Begins(s), edits' = edits
      PROVE  Dated(s) /\ Identified(s, edits') /\ Observed(s) /\ Kept(s)
  BY <1>4, NothingKnown DEF Begins
<1>5. ASSUME m \in Numbers, Forgot(r, s), edits' = edits
      PROVE  Dated(s) /\ Identified(s, edits') /\ Observed(s) /\ Kept(s)
  BY <1>5, NothingKnown DEF Forgot
<1>6. m \in Numbers => /\ Shape(r) /\ Dated(r) /\ (~Twice => Identified(r, edits))
                       /\ Observed(r) /\ Kept(r)
  BY DEF RunsKnow, Base
<1>7. ASSUME m \in Numbers, Kin(r, s)
      PROVE  /\ Dated(s) /\ (~Twice' => Identified(s, edits')) /\ Observed(s) /\ Kept(s)
  <2>1. Dated(s) /\ Observed(s) /\ Kept(s)
    BY <1>6, <1>7, KinKnows
  <2>2. ASSUME ~Twice' PROVE Identified(s, edits')
    BY <1>2, <1>3, <1>6, <1>7, <2>2, KinIdentified
  <2> QED BY <2>1, <2>2
<1>8. ASSUME Moved(m) \/ Opened(m), edits' = edits
      PROVE  Dated(s) /\ (~Twice' => Identified(s, edits'))
  <2>1. Reaches(r, s) /\ Shape(r) /\ r.state = "active" /\ m \in Numbers
    BY <1>8, MovedReaches
  <2>2. Dated(s)
    BY <1>2, <1>6, <2>1, ReachesDated
  <2>3. ~Twice => Identified(s, edits)
    BY <1>2, <1>6, <2>1, ReachesIdentified
  <2> QED BY <1>3, <1>8, <2>2, <2>3
<1>9. ASSUME Moved(m) PROVE Observed(s) /\ Kept(s)
  <2> DEFINE i == Now(m)
  <2>1. /\ m \in Numbers /\ Active(m) /\ Holds(m) /\ Instruction(m) = i /\ Does(r, i, s)
        /\ Shape(r) /\ r.state = "active" /\ i = Code(r)[At(r)]
    BY <1>9 DEF Moved, Base, Active, Now, Program, Code
  <2>2. Watched(r) /\ Called(r) /\ Found(r) /\ Kept(r)
    BY <1>6, <2>1 DEF Observed
  <2>3. Kept(s)
    BY <2>1, <2>2, DoesKept
  <2>4. i = Same(i[2]) => \A x, y \in r.values : x[1] = i[2] /\ y[1] = "base" => x[2] = y[2]
    <3> SUFFICES ASSUME i = Same(i[2]), NEW x \in r.values, NEW y \in r.values,
                        x[1] = i[2], y[1] = "base"
                 PROVE  x[2] = y[2]
      OBVIOUS
    <3>1. i[1] = "same"
      BY DEF Same
    <3>2. Value(m, x[1]) = Value(m, y[1])
      BY <2>1, <3>1 DEF Holds
    <3> QED BY <2>2, <3>2, ValueIs
  <2>5. i = Close(i[2]) => \A x, y \in r.values : x[1] = i[2] /\ y[1] = "base" =>
                               x[2] = y[2] \/ x[2] \in {"plain", "near"}
    <3> SUFFICES ASSUME i = Close(i[2]), NEW x \in r.values, NEW y \in r.values,
                        x[1] = i[2], y[1] = "base"
                 PROVE  x[2] = y[2] \/ x[2] \in {"plain", "near"}
      OBVIOUS
    <3>1. i[1] = "close"
      BY DEF Close
    <3>2. Value(m, x[1]) = Value(m, y[1]) \/ Value(m, x[1]) \in {"plain", "near"}
      BY <2>1, <3>1 DEF Holds
    <3> QED BY <2>2, <3>2, ValueIs
  <2>6. s.state = "active" => Watched(s) /\ Called(s) /\ Found(s)
    BY <2>1, <2>2, <2>4, <2>5, DoesWatched, DoesCalled, DoesFound
  <2> QED BY <2>3, <2>6 DEF Observed
<1>10. ASSUME Opened(m) PROVE Observed(s) /\ Kept(s)
  <2>1. /\ Code(s) = Code(r) /\ At(s) = At(r) /\ Ended(s) = Ended(r) /\ m \in Numbers
        /\ s.state = r.state /\ s.values = r.values /\ s.watching = r.watching /\ s.taps = r.taps
    BY <1>10 DEF Opened
  <2> HIDE DEF r, s
  <2>2. Observed(r) => Observed(s)
    BY <2>1 DEF Observed, Watched, Called, Found
  <2>3. Kept(r) => Kept(s)
    BY <2>1 DEF Kept
  <2> QED BY <1>6, <2>1, <2>2, <2>3
<1> QED BY <1>4, <1>5, <1>7, <1>8, <1>9, <1>10, RecordKinds

-----------------------------------------------------------------------------
(* Manifests                                                               *)

\* A run that is over stays as it is.
LEMMA Settled ==
    ASSUME Base, ScriptsNext
    PROVE  \A m \in Numbers : ~Active(m) => runs'[m] = runs[m]
<1>1. ASSUME NEW job \in plan.jobs, Start(job) PROVE \A m \in Numbers : ~Active(m) => runs'[m] = runs[m]
  BY <1>1, StartBegins
<1>2. ASSUME NEW n \in Numbers, Reads(n) \/ Makes(n)
      PROVE  \A m \in Numbers : ~Active(m) => runs'[m] = runs[m]
  BY <1>2 DEF Reads, Makes, Moved, Aside
<1>3. ASSUME NEW n \in Numbers, Opens(n) \/ Finishes(n)
      PROVE  \A m \in Numbers : ~Active(m) => runs'[m] = runs[m]
  BY <1>3 DEF Opens, Finishes, Moved, Opened, Noticed
<1>4. ASSUME NEW n \in Numbers, Stops(n) PROVE \A m \in Numbers : ~Active(m) => runs'[m] = runs[m]
  BY <1>4, StopsStops DEF Stops, Aside
<1>5. ASSUME NEW o \in orphans, OrphanWrites(o) PROVE \A m \in Numbers : ~Active(m) => runs'[m] = runs[m]
  BY <1>5, OrphanNoticed DEF Noticed
<1>6. CASE (\E x \in plan.editable : Edit(x)) \/ UNCHANGED scripts
  BY <1>6 DEF Edit, scripts
<1> QED BY <1>1, <1>2, <1>3, <1>4, <1>5, <1>6 DEF ScriptsNext

\* s is at least as far as r.
Further(r, s) ==
    /\ Shape(s) /\ s.script = r.script /\ (s.state = "active" => r.state = "active")
    /\ Exclusive(Code(s)) = Exclusive(Code(r))
    /\ s.state # "stopped" =>
           /\ r.state # "stopped"
           /\ Begun(r) \subseteq Begun(s) /\ Ended(r) \subseteq Ended(s)
           /\ \A j \in Begun(r) \cup Ended(r) : Code(s)[j] = Code(r)[j]
           /\ (r.torn => s.torn) /\ (r.shared => s.shared)

\* No run ever goes back, or comes to life again.
LEMMA GoesFurther ==
    ASSUME Base, ScriptsNext
    PROVE  \A m \in Numbers : Further(runs[m], runs'[m])
<1> SUFFICES ASSUME NEW m \in Numbers PROVE Further(runs[m], runs'[m])
  OBVIOUS
<1> DEFINE r == runs[m]
           s == runs'[m]
<1>1. Shape(r)
  BY DEF Base
<1>2. ASSUME Kin(r, s) PROVE Further(r, s)
  <2>1. Shape(s) /\ Code(s) = Code(r) /\ Ended(s) = Ended(r) /\ Begun(s) = Begun(r)
    BY <1>1, <1>2, KinFacts
  <2> QED BY <1>2, <2>1 DEF Further, Kin
<1>3. ASSUME Forgot(r, s) PROVE Further(r, s)
  <2>1. Code(s) = Code(r)
    BY <1>3 DEF Forgot, Code
  <2> QED BY <1>3, <2>1 DEF Further, Forgot
<1>4. ASSUME Moved(m) PROVE Further(r, s)
  <2>1. Does(r, Now(m), s) /\ r.state = "active" /\ Now(m) = Code(r)[At(r)]
    BY <1>4 DEF Moved, Active, Now, Program, Code
  <2>2. /\ At(r) \in Nat /\ At(r) >= 1
        /\ Ended(r) = 1..(At(r) - 1) /\ Begun(r) \subseteq 1..At(r)
        /\ Ended(s) = 1..At(r) /\ Begun(s) = 1..At(r)
        /\ \A j \in 1..At(r) : Code(s)[j] = Code(r)[j]
    BY <1>1, <2>1, DoesPlace
  <2>3. Ended(r) \subseteq 1..At(r)
    BY <2>2
  <2> QED BY <1>1, <2>1, <2>2, <2>3 DEF Does, Onward, Further, Shape
<1>5. ASSUME Opened(m) PROVE Further(r, s)
  <2>1. Begun(r) \subseteq Begun(s)
    BY <1>1, <1>5, Current DEF Opened, Active, Begun, Ended
  <2> QED BY <1>1, <1>5, <2>1 DEF Opened, Active, Further
<1> QED BY <1>2, <1>3, <1>4, <1>5, RecordKinds

\* A write leaves the manifests as they should be if it does not complete another.
LEMMA DocumentsWith ==
    ASSUME Documents, NEW d, NEW f, NEW c, Store(d, f, c), Numbers \subseteq Numbers',
           \A m \in Numbers : Done(m) => runs'[m] = runs[m],
           f = Document(d) /\ c[2] /\ c[1] # 0 =>
               c[1] \in Numbers' /\ runs'[c[1]].state = "done" /\ runs'[c[1]].script = d,
           \A o \in orphans' : o[2] # Document(o[1])
    PROVE  Documents'
<1>1. /\ DOMAIN fs' = DOMAIN fs \cup {<<d, f>>} /\ fs'[<<d, f>>] = c
      /\ \A q \in DOMAIN fs : q # <<d, f>> => fs'[q] = fs[q]
  BY Stored
<1>2. ASSUME NEW q \in DOMAIN fs', q[2] = Document(q[1]), fs'[q][2], fs'[q][1] # 0
      PROVE  fs'[q][1] \in Numbers' /\ runs'[fs'[q][1]].state = "done" /\ runs'[fs'[q][1]].script = q[1]
  <2>1. CASE q = <<d, f>>
    <3>1. q[1] = d /\ q[2] = f /\ fs'[q] = c
      BY <1>1, <2>1
    <3> QED BY <1>2, <3>1
  <2>2. CASE q # <<d, f>>
    <3>1. q \in DOMAIN fs /\ fs'[q] = fs[q]
      BY <1>1, <2>2
    <3> DEFINE n == fs[q][1]
    <3>2. n \in Numbers /\ Done(n) /\ runs[n].script = q[1]
      BY <1>2, <3>1 DEF Documents
    <3> QED BY <3>1, <3>2 DEF Done
  <2> QED BY <2>1, <2>2
<1> QED BY <1>2 DEF Documents, Done

\* A write by a run is of its last instruction if it is of the manifest.
LEMMA DocumentsStep == Base /\ Base' /\ Documents /\ ScriptsNext => Documents'
<1> SUFFICES ASSUME Base, Base', Documents, ScriptsNext PROVE Documents'
  OBVIOUS
<1>1. Numbers \subseteq Numbers' /\ \A m \in Numbers : Done(m) => runs'[m] = runs[m]
  BY Settled, RecordKinds DEF Done, Active
<1>2. \A d : Document(d) # "."
  BY DEF Document
<1>3. \A o \in orphans : o[2] # Document(o[1])
  BY DEF Documents
<1>4. ASSUME fs' = fs, \A o \in orphans' : o[2] # Document(o[1]) PROVE Documents'
  <2>1. ASSUME NEW q \in DOMAIN fs', q[2] = Document(q[1]), fs'[q][2], fs'[q][1] # 0
        PROVE  fs'[q][1] \in Numbers' /\ runs'[fs'[q][1]].state = "done" /\ runs'[fs'[q][1]].script = q[1]
    <3> DEFINE n == fs[q][1]
    <3>1. n \in Numbers /\ Done(n) /\ runs[n].script = q[1]
      BY <1>4, <2>1 DEF Documents
    <3> QED BY <1>1, <1>4, <3>1 DEF Done
  <2> QED BY <1>4, <2>1 DEF Documents, Done
<1>5. ASSUME NEW job \in plan.jobs, Start(job) PROVE Documents'
  BY <1>3, <1>4, <1>5 DEF Start, Quiet
<1>6. ASSUME NEW n \in Numbers, Reads(n) PROVE Documents'
  BY <1>3, <1>4, <1>6 DEF Reads, Quiet
<1>7. ASSUME NEW n \in Numbers, Opens(n) PROVE Documents'
  <2>1. Store(runs[n].script, Now(n)[2], <<n, FALSE>>) /\ orphans' = orphans
    BY <1>7 DEF Opens, Quiet
  <2>2. <<n, FALSE>>[2] = FALSE
    OBVIOUS
  <2> QED BY <1>1, <1>3, <2>1, <2>2, DocumentsWith
<1>8. ASSUME NEW n \in Numbers, Makes(n) PROVE Documents'
  <2>1. Store(runs[n].script, ".", <<n, TRUE>>) /\ orphans' = orphans
    BY <1>8 DEF Makes, Quiet
  <2> QED BY <1>1, <1>2, <1>3, <2>1, DocumentsWith
<1>9. ASSUME NEW n \in Numbers, Finishes(n) PROVE Documents'
  <2> DEFINE r == runs[n]
             s == runs'[n]
             d == r.script
             f == Now(n)[2]
             c == Finished(d, f, n)
  <2>1. Store(d, f, c) /\ orphans' = orphans /\ Moved(n) /\ Now(n)[1] \in Writes
    BY <1>9 DEF Finishes, Quiet
  <2>2. c[1] \in {n, 0}
    BY DEF Finished
  <2>3. ASSUME f = Document(d) PROVE s.state = "done" /\ s.script = d
    <3>1. Does(r, Now(n), s) /\ r.state = "active" /\ Shape(r) /\ Now(n) = Code(r)[At(r)]
      BY <2>1 DEF Moved, Active, Now, Program, Code, Base
    <3>2. /\ At(r) \in 1..At(r) /\ At(s) = At(r) + 1 /\ Code(s)[At(r)] = Now(n)
          /\ 1..At(r) \subseteq DOMAIN Code(s) /\ Orderly(Code(s), s.script) /\ s.script = d
      BY <3>1, DoesPlace
    <3>3. At(r) \in DOMAIN Code(s) /\ WritesTo(Code(s)[At(r)], Document(s.script))
      BY <2>1, <2>3, <3>2 DEF WritesTo
    <3>4. At(r) = Len(Code(s))
      BY <3>2, <3>3 DEF Orderly, Listing
    <3>5. Shape(s) /\ s.state \in {"active", "done"} /\ At(r) \in Nat
      BY <3>1, DoesPlace DEF Does, Onward
    <3>6. ASSUME s.state = "active" PROVE FALSE
      <4>1. At(s) <= Len(Code(s))
        BY <3>5, <3>6, Current
      <4> QED BY <3>2, <3>4, <3>5, <4>1
    <3> QED BY <3>2, <3>5, <3>6
  <2> HIDE DEF c, f, d
  <2>4. n \in Numbers'
    BY <1>1
  <2>5. c[1] # 0 => c[1] = n
    BY <2>2
  <2>6. f = Document(d) /\ c[2] /\ c[1] # 0 =>
            c[1] \in Numbers' /\ runs'[c[1]].state = "done" /\ runs'[c[1]].script = d
    BY <2>3, <2>4, <2>5
  <2> QED BY <1>1, <1>3, <2>1, <2>6, DocumentsWith
<1>10. ASSUME NEW n \in Numbers, Stops(n) PROVE Documents'
  <2>1. fs' = fs /\ Active(n)
    BY <1>10 DEF Stops
  <2>2. ASSUME Instruction(n)[1] = "native" PROVE Instruction(n)[2] # Document(runs[n].script)
    <3>1. Shape(runs[n]) /\ runs[n].state = "active" /\ Instruction(n) = Code(runs[n])[At(runs[n])]
      BY <2>1, AtInstruction DEF Now, Program, Code
    <3>2. At(runs[n]) \in DOMAIN Code(runs[n]) /\ Orderly(Code(runs[n]), runs[n].script)
      BY <3>1, Current
    <3> QED BY <2>2, <3>1, <3>2 DEF Orderly, Listing, WritesTo, Writes
  <2>3. \A o \in orphans' : o[2] # Document(o[1])
    BY <1>3, <1>10, <2>2 DEF Stops
  <2> QED BY <1>4, <2>1, <2>3
<1>11. ASSUME NEW o \in orphans, OrphanWrites(o) PROVE Documents'
  <2>1. /\ Store(o[1], o[2], Finished(o[1], o[2], o[3])) /\ orphans' \subseteq orphans
        /\ o[2] # Document(o[1])
    BY <1>3, <1>11 DEF OrphanWrites
  <2> HIDE DEF Finished
  <2> QED BY <1>1, <1>3, <2>1, DocumentsWith
<1>12. CASE (\E x \in plan.editable : Edit(x)) \/ UNCHANGED scripts
  BY <1>3, <1>4, <1>12 DEF Edit, scripts
<1> QED BY <1>5, <1>6, <1>7, <1>8, <1>9, <1>10, <1>11, <1>12 DEF ScriptsNext

\* The manifests that were read are of runs that are done.
LEMMA RefersStep == Base /\ Base' /\ Documents /\ Refers /\ ScriptsNext => Refers'
<1> SUFFICES ASSUME Base, Base', Documents, Refers, ScriptsNext, NEW m \in Numbers',
                    runs'[m].state # "stopped"
             PROVE  /\ \A d \in DOMAIN runs'[m].ref :
                           /\ d # runs'[m].script /\ ReadBefore(runs'[m], d, At(runs'[m]))
                           /\ runs'[m].ref[d] \in Numbers' /\ runs'[runs'[m].ref[d]].state = "done"
                           /\ runs'[runs'[m].ref[d]].script = d
                    /\ \A k \in Ended(runs'[m]) : Code(runs'[m])[k][1] = "read" =>
                           Code(runs'[m])[k][2] \in DOMAIN runs'[m].ref
  BY DEF Refers, Program, Code, Done
<1> DEFINE r == runs[m]
           s == runs'[m]
           Good(d, w) == /\ w \in Numbers' /\ runs'[w].state = "done" /\ runs'[w].script = d
<1>1. Numbers \subseteq Numbers' /\ \A w \in Numbers : Done(w) => runs'[w] = runs[w]
  BY Settled, RecordKinds DEF Done, Active
<1>2. ASSUME NEW w \in Numbers, NEW d, Done(w), runs[w].script = d PROVE Good(d, w)
  BY <1>1, <1>2 DEF Done
<1>3. CASE m \notin Numbers /\ Begins(s)
  BY <1>3 DEF Begins
<1>4. CASE m \in Numbers /\ Forgot(r, s)
  BY <1>4 DEF Forgot
<1>5. ASSUME m \in Numbers, r.state # "stopped"
      PROVE  /\ \A d \in DOMAIN r.ref : /\ d # r.script /\ ReadBefore(r, d, At(r)) /\ Good(d, r.ref[d])
             /\ \A k \in Ended(r) : Code(r)[k][1] = "read" => Code(r)[k][2] \in DOMAIN r.ref
  <2>1. ASSUME NEW d \in DOMAIN r.ref
        PROVE  d # r.script /\ ReadBefore(r, d, At(r)) /\ Good(d, r.ref[d])
    <3>1. /\ d # r.script /\ ReadBefore(r, d, At(r))
          /\ r.ref[d] \in Numbers /\ Done(r.ref[d]) /\ runs[r.ref[d]].script = d
      BY <1>5 DEF Refers
    <3> QED BY <1>2, <3>1
  <2>2. \A k \in Ended(r) : Code(r)[k][1] = "read" => Code(r)[k][2] \in DOMAIN r.ref
    BY <1>5 DEF Refers, Program, Code
  <2> QED BY <2>1, <2>2
<1>6. CASE m \in Numbers /\ (Kin(r, s) \/ Opened(m))
  <2>1. /\ Code(s) = Code(r) /\ At(s) = At(r) /\ Ended(s) = Ended(r)
        /\ s.ref = r.ref /\ s.script = r.script /\ s.state = r.state
    <3>1. Shape(r)
      BY <1>6 DEF Base
    <3> QED BY <1>6, <3>1, KinFacts DEF Kin, Opened
  <2>2. \A d : ReadBefore(r, d, At(r)) => ReadBefore(s, d, At(s))
    BY <2>1 DEF ReadBefore
  <2> HIDE DEF r, s, Good
  <2>3. /\ \A d \in DOMAIN s.ref : /\ d # s.script /\ ReadBefore(s, d, At(s)) /\ Good(d, s.ref[d])
        /\ \A k \in Ended(s) : Code(s)[k][1] = "read" => Code(s)[k][2] \in DOMAIN s.ref
    BY <1>5, <1>6, <2>1, <2>2 DEF s
  <2> QED BY <2>3 DEF s, Good
<1>7. CASE Moved(m)
  <2> DEFINE i == Now(m)
             a == At(r)
  <2>1. /\ m \in Numbers /\ Active(m) /\ Holds(m) /\ Instruction(m) = i /\ Does(r, i, s)
        /\ Shape(r) /\ r.state = "active" /\ i = Code(r)[a]
    BY <1>7 DEF Moved, Base, Active, Now, Program, Code
  <2>2. /\ a \in Nat /\ a >= 1 /\ Ended(r) = 1..(a - 1) /\ Ended(s) = 1..a /\ At(s) = a + 1
        /\ \A j \in 1..a : Code(s)[j] = Code(r)[j]
        /\ Code(s)[a] = i /\ a \in 1..a /\ 1..a \subseteq DOMAIN Code(r)
        /\ Orderly(Code(r), r.script) /\ s.script = r.script
    BY <2>1, DoesPlace
  <2>3. s.ref = NextRef(r, i)
    BY <2>1 DEF Does
  <2>4. /\ \A d \in DOMAIN r.ref : /\ d # r.script /\ ReadBefore(r, d, a) /\ Good(d, r.ref[d])
        /\ \A k \in 1..(a - 1) : Code(r)[k][1] = "read" => Code(r)[k][2] \in DOMAIN r.ref
    BY <1>5, <2>1, <2>2
  <2>5. i[1] = "read" =>
            /\ Good(i[2], Content(i[2], Document(i[2]))[1])
            /\ i[2] # r.script
    <3> SUFFICES ASSUME i[1] = "read"
                 PROVE  Good(i[2], Content(i[2], Document(i[2]))[1]) /\ i[2] # r.script
      OBVIOUS
    <3> DEFINE q == <<i[2], Document(i[2])>>
    <3>1. Whole(i[2], Document(i[2])) /\ Content(i[2], Document(i[2]))[1] # 0
      BY <2>1 DEF Holds
    <3>2. q \in DOMAIN fs /\ fs[q][2] /\ fs[q][1] # 0 /\ q[1] = i[2] /\ q[2] = Document(i[2])
      BY <3>1 DEF Whole, Exists, Content
    <3>3. fs[q][1] \in Numbers /\ Done(fs[q][1]) /\ runs[fs[q][1]].script = i[2]
      BY <3>2 DEF Documents
    <3>4. Good(i[2], fs[q][1])
      BY <1>2, <3>3
    <3>5. i[2] # r.script
      BY <2>1, <2>2 DEF Orderly, Checking
    <3> QED BY <3>4, <3>5 DEF Content
  <2> HIDE DEF r, s, Good, i, a
  <2>6. \A d : ReadBefore(r, d, a) => ReadBefore(s, d, a + 1)
    <3> SUFFICES ASSUME NEW d, NEW k \in 1..(a - 1), Code(r)[k][1] = "read", Code(r)[k][2] = d
                 PROVE  ReadBefore(s, d, a + 1)
      BY DEF ReadBefore
    <3>1. k \in 1..(a + 1 - 1) /\ k \in 1..a
      BY <2>2
    <3> QED BY <2>2, <3>1 DEF ReadBefore
  <2>7. CASE i[1] = "read"
    <3>1. DOMAIN s.ref = DOMAIN r.ref \cup {i[2]}
      BY <2>3, <2>7 DEF NextRef
    <3>2. ReadBefore(s, i[2], a + 1)
      <4>1. a \in 1..(a + 1 - 1)
        BY <2>2
      <4> QED BY <2>2, <2>7, <4>1 DEF ReadBefore
    <3>3. ASSUME NEW d \in DOMAIN s.ref PROVE d # s.script /\ ReadBefore(s, d, a + 1) /\ Good(d, s.ref[d])
      <4>1. CASE d = i[2]
        <5>1. s.ref[d] = Content(i[2], Document(i[2]))[1]
          BY <2>3, <2>7, <4>1 DEF NextRef
        <5> QED BY <2>2, <2>5, <2>7, <3>2, <4>1, <5>1
      <4>2. CASE d # i[2]
        <5>1. d \in DOMAIN r.ref /\ s.ref[d] = r.ref[d]
          BY <2>3, <2>7, <3>1, <4>2 DEF NextRef
        <5> QED BY <2>2, <2>4, <2>6, <5>1
      <4> QED BY <4>1, <4>2
    <3>4. ASSUME NEW k \in 1..a, Code(s)[k][1] = "read" PROVE Code(s)[k][2] \in DOMAIN s.ref
      <4>1. CASE k = a
        BY <2>2, <3>1, <4>1
      <4>2. CASE k # a
        <5>1. k \in 1..(a - 1)
          BY <2>2, <4>2
        <5> QED BY <2>2, <2>4, <3>1, <3>4, <5>1
      <4> QED BY <4>1, <4>2
    <3> QED BY <2>2, <3>3, <3>4 DEF s, Good
  <2>8. CASE i[1] # "read"
    <3>1. s.ref = r.ref
      BY <2>3, <2>8 DEF NextRef
    <3>2. ASSUME NEW d \in DOMAIN s.ref PROVE d # s.script /\ ReadBefore(s, d, a + 1) /\ Good(d, s.ref[d])
      BY <2>2, <2>4, <2>6, <3>1
    <3>3. ASSUME NEW k \in 1..a, Code(s)[k][1] = "read" PROVE Code(s)[k][2] \in DOMAIN s.ref
      <4>1. k # a
        BY <2>2, <2>8, <3>3
      <4>2. k \in 1..(a - 1)
        BY <2>2, <4>1
      <4> QED BY <2>2, <2>4, <3>1, <3>3, <4>2
    <3> QED BY <2>2, <3>2, <3>3 DEF s, Good
  <2> QED BY <2>7, <2>8
<1> QED BY <1>3, <1>4, <1>6, <1>7, RecordKinds

-----------------------------------------------------------------------------
(* Directories                                                             *)

\* Runs that are killed stay so.
LEMMA LeftStep == Base /\ Left /\ ScriptsNext => Left'
<1> SUFFICES ASSUME Base, Left, ScriptsNext, NEW o \in orphans' PROVE runs'[o[3]].state = "stopped"
  BY DEF Left
<1>1. CASE o \in orphans
  <2>1. o[3] \in Numbers /\ runs[o[3]].state = "stopped"
    BY <1>1 DEF Left, Base
  <2> QED BY <2>1, Settled DEF Active
<1>2. CASE o \notin orphans
  <2>1. ASSUME NEW n \in Numbers, Stops(n) PROVE runs'[o[3]].state = "stopped"
    <3>1. o[3] = n
      BY <1>2, <2>1 DEF Stops
    <3> QED BY <2>1, <3>1, StopsStops DEF Forgot
  <2>2. ASSUME NEW n \in Numbers, Reads(n) \/ Opens(n) \/ Finishes(n) \/ Makes(n) PROVE orphans' = orphans
    BY <2>2 DEF Reads, Opens, Finishes, Makes, Quiet
  <2> QED BY <1>2, <2>1, <2>2 DEF ScriptsNext, Start, Quiet, OrphanWrites, Edit, scripts
<1> QED BY <1>1, <1>2

\* A script is exclusive with all its options or with none.
LEMMA SoleIs ==
    ASSUME NEW r, Shape(r)
    PROVE  Sole(r.script) <=> Exclusive(Code(r))
<1>1. r.script \in Scripts /\ r.opt \in Options
  BY DEF Shape
<1>2. \A o, q \in Options : Alike(Programs[r.script][o], Programs[r.script][q])
  BY <1>1, ProgramsAssumption
<1> QED BY <1>1, <1>2 DEF Sole, Code, Alike

\* Where an exclusive script claims its directory.
LEMMA ClaimAt ==
    ASSUME NEW r, Shape(r), r.state # "stopped", Sole(r.script)
    PROVE  \E c \in DOMAIN Code(r) :
               /\ Code(r)[c] = New("case0")
               /\ \A i \in DOMAIN Code(r) :
                      /\ Code(r)[i][1] \notin {"native", "newdir"}
                      /\ Code(r)[i][1] \in Writes \cup {"list", "collect"} => c <= i
<1>1. Orderly(Code(r), r.script)
  BY Current, AtTheEnd
<1> QED BY <1>1, SoleIs DEF Orderly, Claiming

\* Who claims a directory in a step.
LEMMA NewClaims ==
    ASSUME Base, ScriptsNext
    PROVE  \A m \in Numbers' : runs'[m].state # "stopped" /\ Claimed(runs'[m]) =>
               /\ m \in Numbers /\ runs[m].state # "stopped"
               /\ \/ Claimed(runs[m])
                  \/ (Moved(m) \/ Opened(m)) /\ Now(m) = New("case0")
<1> SUFFICES ASSUME NEW m \in Numbers', runs'[m].state # "stopped", Claimed(runs'[m])
             PROVE  /\ m \in Numbers /\ runs[m].state # "stopped"
                    /\ Claimed(runs[m]) \/ ((Moved(m) \/ Opened(m)) /\ Now(m) = New("case0"))
  OBVIOUS
<1> DEFINE r == runs[m]
           s == runs'[m]
<1>1. m \in Numbers => Shape(r)
  BY DEF Base
<1>2. CASE Begins(s)
  BY <1>2 DEF Begins, Claimed
<1>3. CASE m \in Numbers /\ Kin(r, s)
  <2>1. Code(s) = Code(r) /\ Begun(s) = Begun(r)
    BY <1>1, <1>3, KinFacts
  <2> QED BY <1>3, <2>1 DEF Kin, Claimed
<1>4. CASE Forgot(r, s)
  BY <1>4 DEF Forgot
<1>5. CASE Moved(m) \/ Opened(m)
  <2>1. /\ Reaches(r, s) /\ Shape(r) /\ r.state = "active" /\ m \in Numbers
        /\ Now(m) = Code(r)[At(r)]
    BY <1>5, MovedReaches DEF Now, Program, Code
  <2>2. At(r) \in Nat /\ At(r) >= 1
    BY <2>1, Current
  <2>3. PICK c \in 1..At(r) : Code(r)[c] = New("case0")
    BY <2>1 DEF Reaches, Claimed
  <2>4. CASE c = At(r)
    BY <1>5, <2>1, <2>3, <2>4
  <2>5. CASE c # At(r)
    <3>1. c \in Begun(r)
      BY <2>2, <2>5 DEF Begun, Ended
    <3> QED BY <2>1, <2>3, <3>1 DEF Claimed
  <2> QED BY <2>4, <2>5
<1> QED BY <1>2, <1>3, <1>4, <1>5, RecordKinds

\* Directory d is as it was.
SameFiles(d) ==
    /\ \A q \in DOMAIN fs' : q[1] = d => q \in DOMAIN fs /\ fs'[q] = fs[q]
    /\ \A q \in DOMAIN fs : q[1] = d => q \in DOMAIN fs'

\* Where nothing is written and nobody claims, the owner stays.
LEMMA SameOwner ==
    ASSUME Base, ScriptsNext, NEW d, OneOwner(d), SameFiles(d),
           \A m \in Numbers' : runs'[m].script = d /\ runs'[m].state # "stopped" /\ Claimed(runs'[m]) =>
               m \in Numbers /\ runs[m].state # "stopped" /\ Claimed(runs[m]),
           \A o \in orphans' : o[1] # d
    PROVE  OneOwner(d)'
<1>1. Numbers \subseteq Numbers' /\ \A m \in Numbers : Further(runs[m], runs'[m])
  BY RecordKinds, GoesFurther
<1>2. (Exists(d, "case0"))' <=> Exists(d, "case0")
  BY DEF SameFiles, Exists
<1>3. Exists(d, "case0") => Owner(d)' = Owner(d)
  BY <1>2 DEF SameFiles, Owner, Content, Exists
<1>4. Exists(d, "case0") => Owner(d) \in Numbers /\ runs[Owner(d)].script = d
  BY DEF OneOwner
<1>5. ASSUME NEW q \in DOMAIN fs', q[1] = d
      PROVE  /\ Exists(d, "case0")' /\ fs'[q][1] = Owner(d)'
             /\ Active(Owner(d))' => \E j \in Begun(runs[Owner(d)])' :
                                         WritesTo(Code(runs[Owner(d)])[j]', q[2])
  <2>1. q \in DOMAIN fs /\ fs'[q] = fs[q]
    BY <1>5 DEF SameFiles
  <2>2. Exists(d, "case0") /\ fs[q][1] = Owner(d)
    BY <1>5, <2>1 DEF OneOwner
  <2> DEFINE w == Owner(d)
  <2>3. w \in Numbers /\ Owner(d)' = w /\ Further(runs[w], runs'[w])
    BY <1>1, <1>3, <1>4, <2>2
  <2>4. Active(w) => \E j \in Begun(runs[w]) : WritesTo(Code(runs[w])[j], q[2])
    BY <1>5, <2>1 DEF OneOwner
  <2> HIDE DEF w
  <2>5. ASSUME runs'[w].state = "active"
        PROVE  \E j \in Begun(runs'[w]) : WritesTo(Code(runs'[w])[j], q[2])
    <3>1. Active(w)
      BY <2>3, <2>5 DEF Further, Active
    <3>2. PICK j \in Begun(runs[w]) : WritesTo(Code(runs[w])[j], q[2])
      BY <2>4, <3>1
    <3>3. j \in Begun(runs'[w]) /\ Code(runs'[w])[j] = Code(runs[w])[j]
      BY <2>3, <2>5 DEF Further
    <3> QED BY <3>2, <3>3
  <2> QED BY <1>2, <2>1, <2>2, <2>3, <2>5 DEF Active, w
<1>6. Exists(d, "case0")' => Owner(d)' \in Numbers' /\ runs'[Owner(d)'].script = d
  BY <1>1, <1>2, <1>3, <1>4 DEF Further
<1>7. ASSUME NEW m \in Numbers', runs'[m].script = d, runs'[m].state # "stopped", Claimed(runs'[m])
      PROVE  Exists(d, "case0")' /\ Owner(d)' = m
  <2>1. m \in Numbers /\ runs[m].state # "stopped" /\ Claimed(runs[m]) /\ runs[m].script = d
    BY <1>1, <1>7 DEF Further
  <2> QED BY <1>2, <1>3, <2>1 DEF OneOwner
<1> QED BY <1>5, <1>6, <1>7 DEF OneOwner

\* The owner, or who becomes it, writes.
LEMMA OwnWrites ==
    ASSUME Base, ScriptsNext, NEW n \in Numbers, NEW d, runs[n].script = d, OneOwner(d),
           runs[n].state = "active", runs'[n].state # "stopped",
           NEW f, NEW c, c[1] = n, Store(d, f, c),
           \E j \in Begun(runs'[n]) : WritesTo(Code(runs'[n])[j], f),
           Claimed(runs[n]) \/ (f = "case0" /\ ~Exists(d, "case0")),
           \A m \in Numbers' :
               runs'[m].script = d /\ runs'[m].state # "stopped" /\ Claimed(runs'[m]) =>
                   m = n \/ (m \in Numbers /\ runs[m].state # "stopped" /\ Claimed(runs[m])),
           \A o \in orphans' : o[1] # d
    PROVE  OneOwner(d)'
<1>1. Numbers \subseteq Numbers' /\ \A m \in Numbers : Further(runs[m], runs'[m])
  BY RecordKinds, GoesFurther
<1>2. runs'[n].script = d
  BY <1>1 DEF Further
<1>3. /\ DOMAIN fs' = DOMAIN fs \cup {<<d, f>>} /\ fs'[<<d, f>>] = c
      /\ \A q \in DOMAIN fs : q # <<d, f>> => fs'[q] = fs[q]
  <2>1. Store(d, f, c)
    OBVIOUS
  <2> QED BY ONLY <2>1, Stored
<1>4. \A q \in DOMAIN fs : q[1] = d => fs[q][1] = n
  <2>1. CASE Claimed(runs[n])
    BY <2>1 DEF OneOwner
  <2>2. CASE ~Exists(d, "case0")
    BY <2>2 DEF OneOwner
  <2> QED BY <2>1, <2>2
<1>5. Exists(d, "case0")'
  <2>1. CASE Claimed(runs[n])
    BY <1>3, <2>1 DEF OneOwner, Exists
  <2>2. CASE f = "case0"
    BY <1>3, <2>2 DEF Exists
  <2> QED BY <2>1, <2>2
<1>6. Content(d, "case0")'[1] = n
  <2>1. CASE f = "case0"
    BY <1>3, <2>1 DEF Content
  <2>2. CASE f # "case0"
    <3>1. <<d, "case0">> # <<d, f>> /\ <<d, "case0">>[1] = d
      BY <2>2
    <3>2. <<d, "case0">> \in DOMAIN fs
      BY <1>3, <1>5, <3>1 DEF Exists
    <3>3. fs'[<<d, "case0">>] = fs[<<d, "case0">>]
      BY <1>3, <3>1, <3>2
    <3> QED BY <1>4, <3>1, <3>2, <3>3 DEF Content
  <2> QED BY <2>1, <2>2
<1>7. Owner(d)' = n
  BY <1>6 DEF Owner
<1>8. ASSUME NEW q \in DOMAIN fs', q[1] = d
      PROVE  /\ fs'[q][1] = n
             /\ \E j \in Begun(runs'[n]) : WritesTo(Code(runs'[n])[j], q[2])
  <2>1. CASE q = <<d, f>>
    <3>1. q[2] = f /\ fs'[q] = c
      BY <1>3, <2>1
    <3> QED BY <3>1
  <2>2. CASE q # <<d, f>>
    <3>1. q \in DOMAIN fs /\ fs'[q] = fs[q]
      BY <1>3, <2>2
    <3>2. fs[q][1] = n /\ Owner(d) = n
      BY <1>4, <1>8, <3>1 DEF OneOwner
    <3>3. PICK j \in Begun(runs[n]) : WritesTo(Code(runs[n])[j], q[2])
      BY <1>8, <3>1, <3>2 DEF OneOwner, Active
    <3>4. j \in Begun(runs'[n]) /\ Code(runs'[n])[j] = Code(runs[n])[j]
      BY <1>1 DEF Further
    <3> QED BY <3>1, <3>2, <3>3, <3>4
  <2> QED BY <2>1, <2>2
<1>9. ASSUME NEW m \in Numbers', runs'[m].script = d, runs'[m].state # "stopped", Claimed(runs'[m])
      PROVE  m = n
  <2>1. CASE m \in Numbers /\ runs[m].state # "stopped" /\ Claimed(runs[m])
    <3>1. runs[m].script = d
      BY <1>1, <1>9, <2>1 DEF Further
    <3>2. Exists(d, "case0") /\ Owner(d) = m
      BY <2>1, <3>1 DEF OneOwner
    <3>3. Owner(d) = n
      BY <1>4, <3>2 DEF OneOwner, Exists
    <3> QED BY <3>2, <3>3
  <2> QED BY <1>9, <2>1
<1> QED BY <1>1, <1>2, <1>5, <1>7, <1>8, <1>9 DEF OneOwner

\* A write to another directory.
LEMMA Elsewhere ==
    ASSUME NEW d, NEW e, e # d, NEW f, NEW c, Store(e, f, c)
    PROVE  SameFiles(d)
<1>1. /\ DOMAIN fs' = DOMAIN fs \cup {<<e, f>>}
      /\ \A q \in DOMAIN fs : q # <<e, f>> => fs'[q] = fs[q]
  BY DEF Store
<1>2. \A q : q[1] = d => q # <<e, f>>
  OBVIOUS
<1> QED BY <1>1, <1>2 DEF SameFiles

\* Nobody but n claims a directory when the others at most notice the step.
LEMMA OthersClaim ==
    ASSUME Base, ScriptsNext, NEW n, \A m \in Numbers : m # n => Kin(runs[m], runs'[m])
    PROVE  \A m \in Numbers' : m # n /\ runs'[m].state # "stopped" /\ Claimed(runs'[m]) =>
               m \in Numbers /\ runs[m].state # "stopped" /\ Claimed(runs[m])
<1> SUFFICES ASSUME NEW m \in Numbers', m # n, runs'[m].state # "stopped", Claimed(runs'[m])
             PROVE  m \in Numbers /\ runs[m].state # "stopped" /\ Claimed(runs[m])
  OBVIOUS
<1>1. m \in Numbers /\ runs[m].state # "stopped"
  BY NewClaims
<1>2. Shape(runs[m]) /\ Kin(runs[m], runs'[m])
  BY <1>1 DEF Base
<1>3. Code(runs'[m]) = Code(runs[m]) /\ Begun(runs'[m]) = Begun(runs[m])
  BY <1>2, KinFacts
<1> QED BY <1>1, <1>3 DEF Claimed

\* Where a run of an exclusive script writes.
LEMMA WriterClaims ==
    ASSUME Base, NEW n \in Numbers, Active(n), Holds(n), Instruction(n) = Now(n),
           Now(n)[1] \in Writes, Sole(runs[n].script)
    PROVE  Claimed(runs[n]) \/ (Now(n)[2] = "case0" /\ ~Exists(runs[n].script, "case0"))
<1> DEFINE r == runs[n]
           a == At(r)
<1>1. Shape(r) /\ r.state = "active" /\ Now(n) = Code(r)[a]
  BY DEF Base, Active, Now, Program, Code
<1>2. a \in Nat /\ a >= 1 /\ a \in DOMAIN Code(r) /\ DOMAIN Code(r) = 1..Len(Code(r))
  BY <1>1, Current
<1>3. PICK c \in DOMAIN Code(r) : Code(r)[c] = New("case0") /\ c <= a
  BY <1>1, <1>2, ClaimAt
<1>4. CASE c < a
  <2>1. c \in Ended(r) /\ c \in Begun(r)
    BY <1>2, <1>4 DEF Ended, Begun
  <2> QED BY <1>3, <2>1 DEF Claimed
<1>5. CASE c = a /\ r.half
  <2>1. c \in Begun(r)
    BY <1>2, <1>5 DEF Begun
  <2> QED BY <1>3, <2>1 DEF Claimed
<1>6. CASE c = a /\ ~r.half
  <2>1. Now(n) = New("case0")
    BY <1>1, <1>3, <1>6
  <2>2. Now(n)[1] = "new" /\ Now(n)[2] = "case0"
    BY <2>1 DEF New
  <2>3. Creatable(n, "case0")
    BY <2>2 DEF Holds
  <2> QED BY <1>6, <2>2, <2>3 DEF Creatable
<1> QED BY <1>2, <1>3, <1>4, <1>5, <1>6

\* What a run of an exclusive script is about to complete is its own.
LEMMA FinishedIs ==
    ASSUME Base, Stays, NEW n \in Numbers, Active(n), runs[n].half, Now(n)[1] \in Writes, Undisturbed(n)
    PROVE  Finished(runs[n].script, Now(n)[2], n) = <<n, TRUE>>
<1> DEFINE r == runs[n]
           a == At(r)
           f == Now(n)[2]
<1>1. Shape(r) /\ r.state = "active" /\ Now(n) = Code(r)[a] /\ Now(n) = Program(n)[a]
  BY DEF Base, Active, Now, Program, Code
<1>2. a \in Begun(r)
  BY <1>1, Current DEF Begun
<1>3. Exists(r.script, f) /\ Content(r.script, f) = <<n, FALSE>>
  BY <1>1, <1>2 DEF Stays, Intact
<1> QED BY <1>3 DEF Finished

\* The directories of exclusive scripts keep their owners.
LEMMA ClaimsStep == Base /\ Claims /\ Stays /\ ScriptsNext => Claims'
<1> SUFFICES ASSUME Base, Claims, Stays, ScriptsNext, NEW d \in Scripts, Sole(d) PROVE OneOwner(d)'
  BY DEF Claims, Sole
<1>1. OneOwner(d) /\ Numbers \subseteq Numbers'
  BY RecordKinds DEF Claims
<1>2. \A o \in orphans : o[1] # d
  BY <1>1 DEF OneOwner
<1>3. ASSUME NEW n \in Numbers, Moved(n), Now(n)[1] \notin Writes, SameFiles(d), orphans' = orphans,
             \A m \in Numbers : m # n => Kin(runs[m], runs'[m])
      PROVE  OneOwner(d)'
  <2>1. Now(n) # New("case0")
    BY <1>3 DEF New, Writes
  <2>2. \A m \in Numbers' : runs'[m].state # "stopped" /\ Claimed(runs'[m]) =>
            m \in Numbers /\ runs[m].state # "stopped" /\ Claimed(runs[m])
    BY <1>3, <2>1, NewClaims, OthersClaim
  <2> QED BY <1>1, <1>2, <1>3, <2>2, SameOwner
<1>4. ASSUME SameFiles(d), orphans' \subseteq orphans,
             \A m \in Numbers : Kin(runs[m], runs'[m])
      PROVE  OneOwner(d)'
  <2>1. \A m \in Numbers' : runs'[m].state # "stopped" /\ Claimed(runs'[m]) =>
            m \in Numbers /\ runs[m].state # "stopped" /\ Claimed(runs[m])
    <3>1. \A m \in Numbers : m # 0 => Kin(runs[m], runs'[m])
      BY <1>4
    <3>2. \A m \in Numbers' : m # 0 /\ runs'[m].state # "stopped" /\ Claimed(runs'[m]) =>
            m \in Numbers /\ runs[m].state # "stopped" /\ Claimed(runs[m])
      BY <3>1, OthersClaim
    <3>3. \A m \in Numbers' : runs'[m].state # "stopped" /\ Claimed(runs'[m]) => m \in Numbers
      BY NewClaims
    <3>4. 0 \notin Numbers
      BY RunsFacts
    <3> QED BY <3>2, <3>3, <3>4
  <2> QED BY <1>1, <1>2, <1>4, <2>1, SameOwner
<1>5. fs' = fs => SameFiles(d)
  BY DEF SameFiles
<1>6. \A m \in Numbers : Kin(runs[m], runs[m])
  BY DEF Base, Shape, Kin
<1>7. ASSUME NEW job \in plan.jobs, Start(job) PROVE OneOwner(d)'
  <2>1. \A m \in Numbers : Kin(runs[m], runs'[m])
    BY <1>6, <1>7, StartBegins
  <2> QED BY <1>4, <1>5, <1>7, <2>1 DEF Start, Quiet
<1>8. ASSUME NEW n \in Numbers, Reads(n) PROVE OneOwner(d)'
  <2>1. \A m \in Numbers : m # n => Kin(runs[m], runs'[m])
    BY <1>8, AsideKin DEF Reads
  <2> QED BY <1>3, <1>5, <1>8, <2>1 DEF Reads, Quiet
<1>9. ASSUME NEW n \in Numbers, Makes(n) PROVE OneOwner(d)'
  <2>1. \A m \in Numbers : m # n => Kin(runs[m], runs'[m])
    BY <1>9, AsideKin DEF Makes
  <2>2. Active(n) /\ Shape(runs[n]) /\ Now(n) = Code(runs[n])[At(runs[n])] /\ Now(n)[1] = "newdir"
        /\ runs[n].state = "active"
    BY <1>9 DEF Makes, Moved, Base, Now, Program, Code, Active
  <2>3. At(runs[n]) \in DOMAIN Code(runs[n])
    BY <2>2, Current
  <2>4. runs[n].script # d
    BY <2>2, <2>3, ClaimAt
  <2>5. SameFiles(d)
    BY <1>9, <2>4, Elsewhere DEF Makes
  <2> QED BY <1>3, <1>9, <2>1, <2>2, <2>5 DEF Makes, Quiet, Writes
<1>10. ASSUME NEW n \in Numbers, Opens(n) \/ Finishes(n) PROVE OneOwner(d)'
  <2> DEFINE e == runs[n].script
             i == Now(n)
             c == IF Opens(n) THEN <<n, FALSE>> ELSE Finished(e, i[2], n)
  <2>1. /\ Active(n) /\ Holds(n) /\ Instruction(n) = i /\ i[1] \in Writes /\ orphans' = orphans
        /\ runs[n].state = "active" /\ Shape(runs[n]) /\ i = Code(runs[n])[At(runs[n])]
        /\ \A m \in Numbers : m # n => Kin(runs[m], runs'[m])
    BY <1>10 DEF Opens, Finishes, Opened, Moved, Quiet, Noticed, Active, Base, Now, Program, Code
  <2>2. Store(e, i[2], c)
    BY <1>10 DEF Opens, Finishes
  <2>3. /\ runs'[n].script = e /\ runs'[n].state # "stopped" /\ Begun(runs'[n]) = 1..At(runs[n])
        /\ Code(runs'[n])[At(runs[n])] = i /\ At(runs[n]) \in 1..At(runs[n])
    <3>1. At(runs[n]) \in 1..At(runs[n])
      BY <2>1, Current
    <3> QED BY <1>10, <2>1, <3>1 DEF Opens, Finishes, Opened, Moved, Does, Onward
  <2>4. \A m \in Numbers' : m # n /\ runs'[m].state # "stopped" /\ Claimed(runs'[m]) =>
            m \in Numbers /\ runs[m].state # "stopped" /\ Claimed(runs[m])
    BY <2>1, OthersClaim
  <2>5. CASE e # d
    <3>1. SameFiles(d)
      <4> HIDE DEF e, i, c
      <4> QED BY <2>2, <2>5, Elsewhere
    <3>2. \A m \in Numbers' : runs'[m].script = d /\ runs'[m].state # "stopped" /\ Claimed(runs'[m]) =>
            m \in Numbers /\ runs[m].state # "stopped" /\ Claimed(runs[m])
      BY <2>3, <2>4, <2>5
    <3> QED BY <1>1, <1>2, <2>1, <3>1, <3>2, SameOwner
  <2>6. CASE e = d
    <3>1. Claimed(runs[n]) \/ (i[2] = "case0" /\ ~Exists(e, "case0"))
      BY <2>1, <2>6, WriterClaims
    <3>2. c[1] = n
      <4>1. CASE Opens(n)
        BY <4>1
      <4>2. CASE Finishes(n) /\ ~Opens(n)
        <5>1. Undisturbed(n)
          BY <2>1, <2>6, SoleIs DEF Undisturbed
        <5>2. runs[n].half
          BY <4>2 DEF Finishes
        <5>3. Finished(e, i[2], n) = <<n, TRUE>>
          BY <2>1, <5>1, <5>2, FinishedIs
        <5> QED BY <4>2, <5>3
      <4> QED BY <1>10, <4>1, <4>2
    <3>3. \E j \in Begun(runs'[n]) : WritesTo(Code(runs'[n])[j], i[2])
      BY <2>1, <2>3 DEF WritesTo
    <3>4. \A m \in Numbers' : runs'[m].script = d /\ runs'[m].state # "stopped" /\ Claimed(runs'[m]) =>
              m = n \/ (m \in Numbers /\ runs[m].state # "stopped" /\ Claimed(runs[m]))
      BY <2>4
    <3>5. \A o \in orphans' : o[1] # d
      BY <1>2, <2>1
    <3> HIDE DEF i, c
    <3> QED BY <1>1, <2>1, <2>2, <2>3, <2>6, <3>1, <3>2, <3>3, <3>4, <3>5, OwnWrites
  <2> QED BY <2>5, <2>6
<1>11. ASSUME NEW n \in Numbers, Stops(n) PROVE OneOwner(d)'
  <2>1. /\ fs' = fs /\ Active(n) /\ runs'[n].state = "stopped"
        /\ \A m \in Numbers : m # n => Kin(runs[m], runs'[m])
    BY <1>11, StopsStops, AsideKin DEF Stops, Forgot
  <2>2. \A m \in Numbers' : runs'[m].state # "stopped" /\ Claimed(runs'[m]) =>
            m \in Numbers /\ runs[m].state # "stopped" /\ Claimed(runs[m])
    BY <2>1, OthersClaim
  <2>3. ASSUME Instruction(n)[1] = "native" PROVE runs[n].script # d
    <3>1. Shape(runs[n]) /\ runs[n].state = "active" /\ Instruction(n) = Code(runs[n])[At(runs[n])]
      BY <2>1, AtInstruction DEF Now, Program, Code
    <3>2. At(runs[n]) \in DOMAIN Code(runs[n])
      BY <3>1, Current
    <3> QED BY <2>3, <3>1, <3>2, ClaimAt
  <2>4. \A o \in orphans' : o[1] # d
    BY <1>2, <1>11, <2>3 DEF Stops
  <2> QED BY <1>1, <1>5, <2>1, <2>2, <2>4, SameOwner
<1>12. ASSUME NEW o \in orphans, OrphanWrites(o) PROVE OneOwner(d)'
  <2>1. \A m \in Numbers : Kin(runs[m], runs'[m])
    BY <1>6, <1>12, OrphanNoticed DEF Noticed
  <2>2. SameFiles(d)
    <3>1. o[1] # d /\ Store(o[1], o[2], Finished(o[1], o[2], o[3]))
      BY <1>2, <1>12 DEF OrphanWrites
    <3> QED BY <3>1, Elsewhere
  <2> QED BY <1>4, <1>12, <2>1, <2>2 DEF OrphanWrites
<1>13. CASE (\E x \in plan.editable : Edit(x)) \/ UNCHANGED scripts
  BY <1>4, <1>5, <1>6, <1>13 DEF Edit, scripts
<1> QED BY <1>7, <1>8, <1>9, <1>10, <1>11, <1>12, <1>13 DEF ScriptsNext

-----------------------------------------------------------------------------
(* What nobody writes over                                                 *)

\* What a step does to a run that there was.
LEMMA OwnKinds ==
    ASSUME Base, ScriptsNext, NEW m \in Numbers
    PROVE  \/ Kin(runs[m], runs'[m]) \/ Forgot(runs[m], runs'[m])
           \/ Reads(m) \/ Makes(m) \/ Opens(m) \/ Finishes(m)
<1>1. \A n \in Numbers : Kin(runs[n], runs[n])
  BY DEF Base, Shape, Kin
<1>2. ASSUME NEW job \in plan.jobs, Start(job) PROVE Kin(runs[m], runs'[m])
  BY <1>1, <1>2, StartBegins
<1>3. ASSUME NEW n \in Numbers, n # m, Reads(n) \/ Opens(n) \/ Finishes(n) \/ Makes(n) \/ Stops(n)
      PROVE  Kin(runs[m], runs'[m])
  <2>1. Aside(n) \/ Noticed(n, runs[n].script)
    BY <1>3, StopsStops DEF Reads, Opens, Finishes, Makes
  <2> QED BY <1>3, <2>1, AsideKin DEF Noticed
<1>4. ASSUME Stops(m) PROVE Forgot(runs[m], runs'[m])
  BY <1>4, StopsStops
<1>5. ASSUME NEW o \in orphans, OrphanWrites(o) PROVE Kin(runs[m], runs'[m])
  BY <1>1, <1>5, OrphanNoticed DEF Noticed
<1>6. CASE (\E x \in plan.editable : Edit(x)) \/ UNCHANGED scripts
  BY <1>1, <1>6 DEF Edit, scripts
<1> QED BY <1>2, <1>3, <1>4, <1>5, <1>6 DEF ScriptsNext

\* What there is in directory d stays as it is.
StillThere(d) == \A q \in DOMAIN fs : q[1] = d => q \in DOMAIN fs' /\ fs'[q] = fs[q]

\* Or somebody writes there, and the others notice.
WritesIn(n, d, f, c) ==
    /\ Store(d, f, c) /\ c[1] \in {n, 0} /\ Noticed(n, d)
    /\ runs[n].state = "stopped" \/ (Active(n) /\ runs[n].script = d /\ (Opens(n) \/ Finishes(n)))

\* One of the two it is.
LEMMA Disturbance ==
    ASSUME Base, Left, ScriptsNext, NEW d
    PROVE  StillThere(d) \/ \E n \in Numbers : \E f, c : WritesIn(n, d, f, c)
<1>1. ASSUME fs' = fs PROVE StillThere(d)
  BY <1>1 DEF StillThere
<1>2. ASSUME NEW e, e # d, NEW f, NEW c, Store(e, f, c) PROVE StillThere(d)
  <2>1. SameFiles(d)
    BY ONLY <1>2, Elsewhere
  <2> QED BY <2>1 DEF SameFiles, StillThere
<1>3. ASSUME NEW n \in Numbers, Reads(n) \/ Stops(n) PROVE StillThere(d)
  BY <1>1, <1>3 DEF Reads, Stops
<1>4. ASSUME NEW n \in Numbers, Makes(n) PROVE StillThere(d)
  <2> DEFINE e == runs[n].script
  <2>1. Store(e, ".", <<n, TRUE>>) /\ ~Exists(e, ".")
    BY <1>4 DEF Makes, Moved, Holds
  <2> QED BY <2>1 DEF Store, Exists, StillThere
<1>5. ASSUME NEW n \in Numbers, Opens(n) \/ Finishes(n)
      PROVE  StillThere(d) \/ \E f, c : WritesIn(n, d, f, c)
  <2> DEFINE e == runs[n].script
             f == Now(n)[2]
             c == IF Opens(n) THEN <<n, FALSE>> ELSE Finished(e, f, n)
  <2>1. /\ Store(e, f, c) /\ Noticed(n, e) /\ Active(n)
    BY <1>5 DEF Opens, Finishes, Opened, Moved
  <2>2. c[1] \in {n, 0}
    BY DEF Finished
  <2> HIDE DEF f, c, e
  <2>3. CASE e # d
    BY <1>2, <2>1, <2>3
  <2>4. CASE e = d
    <3>1. WritesIn(n, d, f, c)
      BY <1>5, <2>1, <2>2, <2>4 DEF WritesIn, e
    <3> QED BY <3>1
  <2> QED BY <2>3, <2>4
<1>6. ASSUME NEW o \in orphans, OrphanWrites(o)
      PROVE  StillThere(d) \/ \E n \in Numbers : \E f, c : WritesIn(n, d, f, c)
  <2> DEFINE c == Finished(o[1], o[2], o[3])
  <2>1. Store(o[1], o[2], c) /\ o[3] \in Numbers /\ runs[o[3]].state = "stopped" /\ Noticed(o[3], o[1])
    BY <1>6, OrphanNoticed DEF OrphanWrites, Left
  <2>2. c[1] \in {o[3], 0}
    BY DEF Finished
  <2> HIDE DEF c
  <2>3. CASE o[1] # d
    BY <1>2, <2>1, <2>3
  <2>4. CASE o[1] = d
    <3>1. WritesIn(o[3], d, o[2], c)
      BY <2>1, <2>2, <2>4 DEF WritesIn
    <3> QED BY <2>1, <3>1
  <2> QED BY <2>3, <2>4
<1>7. CASE (\E job \in plan.jobs : Start(job)) \/ (\E x \in plan.editable : Edit(x)) \/ UNCHANGED scripts
  BY <1>1, <1>7 DEF Start, Edit, scripts
<1> QED BY <1>3, <1>4, <1>5, <1>6, <1>7 DEF ScriptsNext

\* Not in the directory of an exclusive script, if another run has claimed it.
LEMMA Protected ==
    ASSUME Claims', NEW m \in Numbers', Shape(runs'[m]), runs'[m].state # "stopped",
           Exclusive(Code(runs'[m])), Claimed(runs'[m]),
           NEW d, d = runs'[m].script, NEW f, NEW c, Store(d, f, c)
    PROVE  c[1] = m
<1>1. Sole(d) /\ d \in Scripts
  BY SoleIs DEF Shape
<1>2. OneOwner(d)'
  BY <1>1 DEF Claims, Sole
<1>3. /\ \A q \in DOMAIN fs' : q[1] = d => fs'[q][1] = Owner(d)'
      /\ Owner(d)' = m
  BY <1>2 DEF OneOwner
<1>4. <<d, f>> \in DOMAIN fs' /\ fs'[<<d, f>>] = c /\ <<d, f>>[1] = d
  BY DEF Store
<1> QED BY <1>3, <1>4

\* A run that writes has claimed its directory, if its script is exclusive.
LEMMA WrittenClaimed ==
    ASSUME NEW r, Shape(r), r.state # "stopped", Exclusive(Code(r)),
           NEW j \in Begun(r), Code(r)[j][1] \in Writes \cup {"list", "collect"}
    PROVE  Claimed(r)
<1>1. Begun(r) = 1..At(r) \/ Begun(r) = 1..(At(r) - 1)
  BY DEF Begun, Ended
<1>2. DOMAIN Code(r) = 1..Len(Code(r)) /\ Len(Code(r)) \in Nat /\ At(r) \in Nat
  BY Current, ProgramFacts, AtTheEnd DEF Shape, Code
<1>3. Begun(r) \subseteq DOMAIN Code(r)
  <2>1. CASE r.state = "active"
    <3>1. At(r) >= 1 /\ At(r) <= Len(Code(r))
      BY <2>1, Current
    <3> QED BY <1>1, <1>2, <3>1
  <2>2. CASE r.state # "active"
    BY <2>2, AtTheEnd
  <2> QED BY <2>1, <2>2
<1>4. PICK c \in DOMAIN Code(r) : Code(r)[c] = New("case0") /\ c <= j
  BY <1>3, SoleIs, ClaimAt
<1>5. c \in Begun(r)
  BY <1>1, <1>2, <1>4
<1> QED BY <1>4, <1>5 DEF Claimed

\* An undisturbed run is the only one that writes to its directory.
LEMMA OwnShielded ==
    ASSUME Base, Base', Left, Claims', ScriptsNext, NEW m \in Numbers, Active(m), NEW d, runs[m].script = d,
           runs'[m].state # "stopped", Exclusive(Code(runs'[m])) \/ ~runs'[m].shared,
           Exclusive(Code(runs'[m])) => Claimed(runs'[m])
    PROVE  StillThere(d) \/ Opens(m) \/ Finishes(m)
<1> SUFFICES ASSUME NEW n \in Numbers, NEW f, NEW c, WritesIn(n, d, f, c)
             PROVE  Opens(m) \/ Finishes(m)
  BY Disturbance
<1>1. CASE n = m
  BY <1>1 DEF WritesIn, Active
<1>2. CASE n # m
  <2>1. runs'[m].shared /\ Store(d, f, c) /\ c[1] \in {n, 0}
    BY <1>2 DEF WritesIn, Noticed
  <2>2. m \in Numbers' /\ Shape(runs'[m]) /\ runs'[m].script = d
    BY RecordKinds, GoesFurther DEF Further
  <2>3. c[1] = m
    BY <2>1, <2>2, Protected
  <2> QED BY <1>2, <2>1, <2>3, RunsFacts
<1> QED BY <1>1, <1>2

\* What a run has read a manifest of is not written to, as far as it notices.
LEMMA FrozenShielded ==
    ASSUME Base, Base', Left, Claims', Refers, ScriptsNext, NEW m \in Numbers, Active(m),
           runs'[m].state # "stopped", NEW d \in DOMAIN runs[m].ref,
           NEW w, runs[m].ref[d] = w, ~runs'[m].torn \/ Exclusive(Code(runs'[w]))
    PROVE  StillThere(d)
<1> SUFFICES ASSUME NEW n \in Numbers, NEW f, NEW c, WritesIn(n, d, f, c)
             PROVE  FALSE
  BY Disturbance
<1>1. d # runs[m].script /\ w \in Numbers /\ Done(w) /\ runs[w].script = d
  BY DEF Refers, Active
<1>2. n # m
  BY <1>1 DEF WritesIn, Active
<1>3. runs'[m].torn /\ Store(d, f, c) /\ c[1] \in {n, 0}
  BY <1>2 DEF WritesIn, Noticed
<1>4. w \in Numbers' /\ runs'[w] = runs[w] /\ Shape(runs[w]) /\ runs[w].state = "done"
  BY <1>1, RecordKinds, Settled DEF Base, Done, Active
<1>5. Exclusive(Code(runs'[w]))
  BY <1>3
<1>6. Claimed(runs'[w])
  BY <1>4, <1>5, AtTheEnd DEF Exclusive, Has, Claimed
<1>7. c[1] = w
  BY <1>1, <1>3, <1>4, <1>5, <1>6, Protected
<1>8. n # w /\ w # 0
  BY <1>1, RunsFacts DEF WritesIn, Done, Active
<1> QED BY <1>3, <1>7, <1>8

\* What an undisturbed run wrote stays there.
LEMMA StaysStep == Base /\ Base' /\ Left /\ Claims' /\ Stays /\ ScriptsNext => Stays'
<1> SUFFICES ASSUME Base, Base', Left, Claims', Stays, ScriptsNext, NEW m \in Numbers',
                    runs'[m].state = "active", Exclusive(Code(runs'[m])) \/ ~runs'[m].shared,
                    NEW j \in Begun(runs'[m]), Code(runs'[m])[j][1] \in Writes
             PROVE  /\ <<runs'[m].script, Code(runs'[m])[j][2]>> \in DOMAIN fs'
                    /\ fs'[<<runs'[m].script, Code(runs'[m])[j][2]>>] =
                           IF runs'[m].half /\ Code(runs'[m])[At(runs'[m])][2] = Code(runs'[m])[j][2]
                           THEN <<m, FALSE>> ELSE <<m, TRUE>>
  BY DEF Stays, Intact, Undisturbed, Active, Exists, Content
<1> DEFINE r == runs[m]
           s == runs'[m]
           d == r.script
           g == Code(s)[j][2]
<1>1. m \in Numbers
  BY RecordKinds DEF Begins
<1>2. Further(r, s) /\ Shape(r) /\ Active(m) /\ r.state = "active"
  BY <1>1, GoesFurther DEF Further, Active, Base
<1>3. s.script = d /\ Undisturbed(m)
  BY <1>2 DEF Further, Undisturbed
<1>4. Intact(m)
  BY <1>1, <1>2, <1>3 DEF Stays
<1>5. Exclusive(Code(s)) => Claimed(s)
  BY <1>2, WrittenClaimed DEF Further
<1>6. StillThere(d) \/ Opens(m) \/ Finishes(m)
  BY <1>1, <1>2, <1>5, OwnShielded
<1>7. \A k \in Begun(r) : Code(r)[k][1] \in Writes =>
          /\ <<d, Code(r)[k][2]>> \in DOMAIN fs
          /\ fs[<<d, Code(r)[k][2]>>] =
                 IF r.half /\ Code(r)[At(r)][2] = Code(r)[k][2] THEN <<m, FALSE>> ELSE <<m, TRUE>>
  BY <1>4 DEF Intact, Exists, Content
<1>8. At(r) \in Nat /\ At(r) >= 1
  BY <1>2, Current
<1>9. CASE Opens(m)
  <2>1. /\ ~r.half /\ s.half /\ Code(s) = Code(r) /\ At(s) = At(r) /\ Begun(s) = 1..At(r)
        /\ Store(d, Now(m)[2], <<m, FALSE>>) /\ Now(m) = Code(r)[At(r)]
    BY <1>9 DEF Opens, Opened, Now, Program, Code
  <2>2. CASE g = Now(m)[2]
    <3>1. <<d, g>> \in DOMAIN fs' /\ fs'[<<d, g>>] = <<m, FALSE>>
      BY <2>1, <2>2 DEF Store
    <3> QED BY <1>3, <2>1, <2>2, <3>1
  <2>3. CASE g # Now(m)[2]
    <3>1. j # At(r)
      BY <2>1, <2>3
    <3>2. j \in Begun(r)
      BY <1>8, <2>1, <3>1 DEF Begun, Ended
    <3>3. <<d, g>> \in DOMAIN fs /\ fs[<<d, g>>] = <<m, TRUE>>
      BY <1>7, <2>1, <3>2
    <3>4. <<d, g>> # <<d, Now(m)[2]>>
      BY <2>3
    <3>5. <<d, g>> \in DOMAIN fs' /\ fs'[<<d, g>>] = <<m, TRUE>>
      BY <2>1, <3>3, <3>4 DEF Store
    <3> QED BY <1>3, <2>1, <2>3, <3>5
  <2> QED BY <2>2, <2>3
<1>10. CASE Finishes(m)
  <2>1. /\ r.half /\ ~s.half /\ Begun(s) = 1..At(r) /\ Now(m)[1] \in Writes
        /\ \A k \in 1..At(r) : Code(s)[k] = Code(r)[k]
        /\ Store(d, Now(m)[2], Finished(d, Now(m)[2], m)) /\ Now(m) = Code(r)[At(r)]
    BY <1>10 DEF Finishes, Moved, Does, Onward, Now, Program, Code
  <2>2. Finished(d, Now(m)[2], m) = <<m, TRUE>>
    BY <1>1, <1>2, <1>3, <2>1, FinishedIs
  <2>3. CASE g = Now(m)[2]
    <3>1. <<d, g>> \in DOMAIN fs' /\ fs'[<<d, g>>] = <<m, TRUE>>
      BY <2>1, <2>2, <2>3 DEF Store
    <3> QED BY <1>3, <2>1, <3>1
  <2>4. CASE g # Now(m)[2]
    <3>1. j \in Begun(r) /\ Code(s)[j] = Code(r)[j]
      BY <2>1 DEF Begun
    <3>2. <<d, g>> \in DOMAIN fs /\ fs[<<d, g>>] = <<m, TRUE>>
      BY <1>7, <2>1, <2>4, <3>1
    <3>3. <<d, g>> # <<d, Now(m)[2]>>
      BY <2>4
    <3>4. <<d, g>> \in DOMAIN fs' /\ fs'[<<d, g>>] = <<m, TRUE>>
      BY <2>1, <3>2, <3>3 DEF Store
    <3> QED BY <1>3, <2>1, <3>4
  <2> QED BY <2>3, <2>4
<1>11. ASSUME StillThere(d), NEW k \in Begun(r), Code(r)[k][1] \in Writes
       PROVE  /\ <<d, Code(r)[k][2]>> \in DOMAIN fs'
              /\ fs'[<<d, Code(r)[k][2]>>] =
                     IF r.half /\ Code(r)[At(r)][2] = Code(r)[k][2] THEN <<m, FALSE>> ELSE <<m, TRUE>>
  <2> DEFINE q == <<d, Code(r)[k][2]>>
  <2>1. q \in DOMAIN fs /\ q[1] = d
    BY <1>7, <1>11
  <2>2. q \in DOMAIN fs' /\ fs'[q] = fs[q]
    BY <1>11, <2>1 DEF StillThere
  <2> QED BY <1>7, <1>11, <2>2
<1>12. CASE StillThere(d) /\ Kin(r, s)
  <2>1. Code(s) = Code(r) /\ At(s) = At(r) /\ Begun(s) = Begun(r) /\ s.half = r.half
    BY <1>2, <1>12, KinFacts DEF Kin
  <2> QED BY <1>3, <1>11, <1>12, <2>1
<1>13. CASE StillThere(d) /\ (Reads(m) \/ Makes(m))
  <2>1. /\ Now(m)[1] \notin Writes /\ ~s.half /\ Begun(s) = 1..At(r) /\ Now(m) = Code(r)[At(r)]
        /\ \A k \in 1..At(r) : Code(s)[k] = Code(r)[k]
    BY <1>13 DEF Reads, Makes, Moved, Does, Onward, Now, Program, Code, Writes
  <2>2. ~r.half
    BY <1>2, <2>1 DEF Shape
  <2>3. j # At(r)
    BY <1>8, <2>1
  <2>4. j \in Begun(r) /\ Code(s)[j] = Code(r)[j]
    <3>1. Begun(r) = 1..(At(r) - 1)
      BY <2>2 DEF Begun, Ended
    <3>2. j \in 1..At(r)
      BY <2>1
    <3> HIDE DEF r, s
    <3> QED BY <1>8, <2>1, <2>3, <3>1, <3>2
  <2> QED BY <1>3, <1>11, <1>13, <2>1, <2>2, <2>4
<1>14. CASE Forgot(r, s)
  BY <1>14 DEF Forgot
<1> QED BY <1>1, <1>6, <1>9, <1>10, <1>12, <1>13, <1>14, OwnKinds

\* What an undisturbed run that is about to list has written.
LEMMA Ready ==
    ASSUME Base, Stays, NEW m \in Numbers, Active(m), Now(m)[1] \in {"list", "collect"},
           NEW j \in Begun(runs[m]), Code(runs[m])[j][1] \in Writes, Undisturbed(m)
    PROVE  /\ <<runs[m].script, Code(runs[m])[j][2]>> \in DOMAIN fs
           /\ Content(runs[m].script, Code(runs[m])[j][2]) = <<m, TRUE>>
<1>1. ~runs[m].half
  BY DEF Base, Shape, Active, Now, Program, Code, Writes
<1> QED BY <1>1 DEF Stays, Intact, Exists

\* In the directory of an exclusive script everything is of the run that lists it.
LEMMA AllReady ==
    ASSUME Base, ScriptsNext, Claims, Stays, NEW m, Moved(m), Now(m)[1] \in {"list", "collect"},
           Exclusive(Code(runs[m])), NEW f, Exists(runs[m].script, f)
    PROVE  Content(runs[m].script, f) = <<m, TRUE>>
<1> DEFINE r == runs[m]
           s == runs'[m]
           d == r.script
<1>1. /\ m \in Numbers /\ Active(m) /\ Shape(r) /\ r.state = "active" /\ Now(m) = Code(r)[At(r)]
      /\ Does(r, Now(m), s) /\ Numbers' = Numbers
  BY DEF Moved, Base, Active, Now, Program, Code
<1>2. /\ Shape(s) /\ s.state # "stopped" /\ Exclusive(Code(s))
      /\ At(r) \in Begun(s) /\ Code(s)[At(r)] = Now(m)
  <2>1. Begun(s) = 1..At(r) /\ At(r) \in 1..At(r) /\ Code(s)[At(r)] = Now(m)
    BY <1>1, DoesPlace
  <2>2. Onward(r, s)
    BY <1>1 DEF Does
  <2> HIDE DEF r, s
  <2>3. Shape(s) /\ s.state # "stopped" /\ Exclusive(Code(s))
    BY <2>2 DEF Onward, r
  <2> QED BY <2>1, <2>3
<1>3. Claimed(s)
  BY <1>2, WrittenClaimed
<1>4. Now(m) # New("case0")
  BY DEF New
<1>5. Claimed(r)
  BY <1>1, <1>2, <1>3, <1>4, NewClaims
<1>6. Sole(d) /\ d \in Scripts
  BY <1>1, SoleIs DEF Shape
<1>7. OneOwner(d)
  BY <1>6 DEF Claims
<1>8. Owner(d) = m
  BY <1>1, <1>5, <1>7 DEF OneOwner
<1>9. <<d, f>> \in DOMAIN fs /\ <<d, f>>[1] = d /\ <<d, f>>[2] = f
  BY DEF Exists
<1>10. PICK j \in Begun(r) : WritesTo(Code(r)[j], f)
  BY <1>1, <1>7, <1>8, <1>9 DEF OneOwner
<1>11. Undisturbed(m)
  BY DEF Undisturbed
<1> QED BY <1>1, <1>10, <1>11, Ready DEF WritesTo

\* What joins the list.
LEMMA NewlyListed ==
    ASSUME Base, NEW r, NEW i, i[1] = "collect" => Exists(r.script, i[2]),
           NEW e \in NextLists(r, i)
    PROVE  \/ e \in r.lists
           \/ /\ i[1] \in {"list", "collect"}
              /\ \E f : Exists(r.script, f) /\ e = <<f, Content(r.script, f)>>
<1>1. ASSUME NEW f \in FilesOf(r.script) PROVE Exists(r.script, f)
  <2>1. PICK q \in DOMAIN fs : q[1] = r.script /\ q[2] = f
    BY DEF FilesOf
  <2>2. q = <<q[1], q[2]>>
    BY DEF Base
  <2> QED BY <2>1, <2>2 DEF Exists
<1> QED BY <1>1 DEF NextLists, HashOf

\* The lists of the runs are kept true.
LEMMA HashedStep == Base /\ Base' /\ Claims /\ Stays /\ Hashed /\ ScriptsNext => Hashed'
<1> SUFFICES ASSUME Base, Base', Claims, Stays, Hashed, ScriptsNext, NEW m \in Numbers',
                    runs'[m].state # "stopped"
             PROVE  /\ Exclusive(Code(runs'[m])) => \A e \in runs'[m].lists : e[2] = <<m, TRUE>>
                    /\ Exclusive(Code(runs'[m])) \/ ~runs'[m].shared =>
                           \A j, i \in Ended(runs'[m]) :
                               /\ j < i /\ Code(runs'[m])[j][1] \in Writes
                               /\ Lists(Code(runs'[m])[i], Code(runs'[m])[j][2])
                               /\ Code(runs'[m])[j][2] # Document(runs'[m].script)
                               => <<Code(runs'[m])[j][2], <<m, TRUE>>>> \in runs'[m].lists
  BY DEF Hashed, Undisturbed
<1> DEFINE r == runs[m]
           s == runs'[m]
           d == r.script
<1>1. CASE m \notin Numbers
  BY <1>1, RecordKinds DEF Begins
<1>2. CASE m \in Numbers /\ Forgot(r, s)
  BY <1>2 DEF Forgot
<1>3. m \in Numbers => /\ Further(r, s) /\ Shape(r)
                       /\ (Exclusive(Code(s)) \/ ~s.shared => Undisturbed(m))
                       /\ r.state # "stopped" /\ s.script = d
  BY GoesFurther DEF Further, Undisturbed, Base
<1>4. CASE m \in Numbers /\ (Kin(r, s) \/ Opened(m))
  <2>1. Code(s) = Code(r) /\ Ended(s) = Ended(r) /\ s.lists = r.lists
    BY <1>3, <1>4, KinFacts DEF Kin, Opened
  <2> QED BY <1>3, <1>4, <2>1 DEF Hashed
<1>5. CASE Moved(m)
  <2> DEFINE i == Now(m)
             a == At(r)
  <2>1. /\ m \in Numbers /\ Active(m) /\ Holds(m) /\ Instruction(m) = i /\ Does(r, i, s)
        /\ Shape(r) /\ r.state = "active" /\ i = Code(r)[a]
    BY <1>5 DEF Moved, Base, Active, Now, Program, Code
  <2>2. /\ a \in Nat /\ a >= 1 /\ Ended(r) = 1..(a - 1) /\ Ended(s) = 1..a
        /\ \A j \in 1..a : Code(s)[j] = Code(r)[j]
        /\ s.lists = NextLists(r, i)
    BY <2>1, DoesPlace DEF Does
  <2>3. i[1] = "collect" => Exists(d, i[2])
    BY <2>1 DEF Holds
  <2>4. Exclusive(Code(s)) = Exclusive(Code(r))
    BY <1>3, <2>1 DEF Further
  <2>5. ASSUME Exclusive(Code(s)), NEW e \in s.lists PROVE e[2] = <<m, TRUE>>
    <3>1. CASE e \in r.lists
      BY <1>3, <2>1, <2>4, <2>5, <3>1 DEF Hashed
    <3>2. CASE e \notin r.lists
      <4>1. i[1] \in {"list", "collect"} /\ \E f : Exists(d, f) /\ e = <<f, Content(d, f)>>
        BY <2>2, <2>3, <2>5, <3>2, NewlyListed
      <4>2. PICK f : Exists(d, f) /\ e = <<f, Content(d, f)>>
        BY <4>1
      <4>3. Content(d, f) = <<m, TRUE>>
        BY <1>5, <2>4, <2>5, <4>1, <4>2, AllReady
      <4> QED BY <4>2, <4>3
    <3> QED BY <3>1, <3>2
  <2>6. ASSUME Exclusive(Code(s)) \/ ~s.shared, NEW j \in 1..a, NEW k \in 1..a,
               j < k, Code(s)[j][1] \in Writes, Lists(Code(s)[k], Code(s)[j][2]),
               Code(s)[j][2] # Document(s.script)
        PROVE  <<Code(s)[j][2], <<m, TRUE>>>> \in s.lists
    <3> DEFINE g == Code(r)[j][2]
    <3>1. Code(s)[j] = Code(r)[j] /\ Code(s)[k] = Code(r)[k] /\ Undisturbed(m) /\ s.script = d
      BY <1>3, <2>1, <2>2, <2>6
    <3>2. j \in 1..(a - 1) /\ j \in Begun(r) /\ j \in Ended(r)
      BY <2>2, <2>6 DEF Begun, Ended
    <3>3. i[1] \in {"list", "collect"} => /\ <<d, g>> \in DOMAIN fs
                                          /\ Content(d, g) = <<m, TRUE>>
      BY <2>1, <2>6, <3>1, <3>2, Ready
    <3>4. CASE k = a
      <4>1. Lists(i, g)
        BY <2>1, <2>6, <3>1, <3>4
      <4>2. CASE i[1] = "collect" /\ i[2] = g
        <5>1. <<g, Content(d, g)>> \in HashOf(d, {i[2]})
          BY <4>2 DEF HashOf
        <5> QED BY <2>2, <3>1, <3>3, <4>2, <5>1 DEF NextLists
      <4>3. CASE i[1] = "list" /\ g \notin i[2]
        <5>1. g \in FilesOf(d) \ (i[2] \cup {Document(d)})
          BY <2>6, <3>1, <3>3, <4>3 DEF FilesOf
        <5>2. <<g, Content(d, g)>> \in HashOf(d, FilesOf(d) \ (i[2] \cup {Document(d)}))
          BY <5>1 DEF HashOf
        <5> QED BY <2>2, <3>1, <3>3, <4>3, <5>2 DEF NextLists
      <4> QED BY <4>1, <4>2, <4>3 DEF Lists
    <3>5. CASE k # a
      <4>1. k \in Ended(r)
        <5> HIDE DEF r
        <5> QED BY <2>2, <3>5
      <4>2. <<g, <<m, TRUE>>>> \in r.lists
        BY <1>3, <2>1, <2>6, <3>1, <3>2, <4>1 DEF Hashed
      <4>3. CASE i[1] = "collect" /\ i[2] = g
        <5>1. <<g, Content(d, g)>> \in HashOf(d, {i[2]})
          BY <4>3 DEF HashOf
        <5> QED BY <2>2, <3>1, <3>3, <4>3, <5>1 DEF NextLists
      <4>4. CASE ~(i[1] = "collect" /\ i[2] = g)
        <5>1. <<g, <<m, TRUE>>>>[1] = g
          OBVIOUS
        <5> QED BY <2>2, <3>1, <4>2, <4>4, <5>1 DEF NextLists
      <4> QED BY <4>3, <4>4
    <3> QED BY <3>4, <3>5
  <2> QED BY <2>2, <2>5, <2>6
<1> QED BY <1>1, <1>2, <1>4, <1>5, RecordKinds

-----------------------------------------------------------------------------
(* What is read of other directories                                       *)

\* A manifest is read once.
LEMMA RefKept ==
    ASSUME Base, ScriptsNext, Refers, NEW m \in Numbers, runs'[m].state # "stopped",
           NEW d \in DOMAIN runs[m].ref
    PROVE  /\ d \in DOMAIN runs'[m].ref /\ runs'[m].ref[d] = runs[m].ref[d]
           /\ runs[m].state # "stopped" /\ d # runs[m].script
           /\ runs[m].ref[d] \in Numbers /\ runs'[runs[m].ref[d]] = runs[runs[m].ref[d]]
<1> DEFINE r == runs[m]
           s == runs'[m]
<1>1. r.state # "stopped"
  BY GoesFurther DEF Further
<1>2. /\ d # r.script /\ ReadBefore(r, d, At(r))
      /\ r.ref[d] \in Numbers /\ Done(r.ref[d])
  BY <1>1 DEF Refers
<1>3. runs'[r.ref[d]] = runs[r.ref[d]]
  BY <1>2, Settled DEF Done, Active
<1>4. d \in DOMAIN s.ref /\ s.ref[d] = r.ref[d]
  <2>1. CASE Kin(r, s) \/ Opened(m)
    BY <2>1 DEF Kin, Opened
  <2>2. CASE Moved(m)
    <3> DEFINE i == Now(m)
               a == At(r)
    <3>1. /\ s.ref = NextRef(r, i) /\ i = Code(r)[a] /\ Shape(r) /\ r.state = "active"
      BY <2>2 DEF Moved, Does, Base, Active, Now, Program, Code
    <3>2. a \in DOMAIN Code(r) /\ DOMAIN Code(r) = 1..Len(Code(r)) /\ Orderly(Code(r), r.script)
          /\ a \in Nat /\ Len(Code(r)) \in Nat /\ a <= Len(Code(r))
      BY <3>1, Current
    <3>3. PICK k \in 1..(a - 1) : Code(r)[k][1] = "read" /\ Code(r)[k][2] = d
      BY <1>2 DEF ReadBefore
    <3> HIDE DEF a
    <3>4. k \in DOMAIN Code(r) /\ k # a
      BY <3>2, <3>3
    <3>5. ~(i[1] = "read" /\ i[2] = d)
      BY <3>1, <3>2, <3>3, <3>4 DEF Orderly, Checking
    <3> QED BY <3>1, <3>5 DEF NextRef
  <2> QED BY <2>1, <2>2, RecordKinds DEF Forgot
<1> QED BY <1>1, <1>2, <1>3, <1>4

\* What nobody writes to has not been written to.
LEMMA FrozenBefore ==
    ASSUME Base, Base', Left, Claims', Refers, ScriptsNext, NEW m \in Numbers,
           runs'[m].state # "stopped", NEW d \in DOMAIN runs[m].ref, Frozen(m, d)'
    PROVE  /\ Frozen(m, d) /\ (Active(m) => StillThere(d))
           /\ \A f, c : InManifest(m, d, f, c)' <=> InManifest(m, d, f, c)
<1> DEFINE w == runs[m].ref[d]
<1>1. /\ d \in DOMAIN runs'[m].ref /\ runs'[m].ref[d] = w /\ runs'[w] = runs[w]
  BY RefKept
<1>2. ~runs'[m].torn \/ Exclusive(Code(runs'[w]))
  BY <1>1 DEF Frozen
<1>3. runs[m].torn => runs'[m].torn
  BY GoesFurther DEF Further
<1>4. Frozen(m, d)
  BY <1>1, <1>2, <1>3 DEF Frozen
<1>5. ASSUME Active(m) PROVE StillThere(d)
  BY <1>2, <1>5, FrozenShielded
<1>6. \A f, c : InManifest(m, d, f, c)' <=> InManifest(m, d, f, c)
  BY <1>1 DEF InManifest
<1> QED BY <1>4, <1>5, <1>6

\* What a run compares is as the manifest has it, then.
LEMMA Compared1 ==
    ASSUME NEW m, Moved(m), NEW d, NEW f, Now(m) = Listed(d, f)
    PROVE  <<d, f>> \in DOMAIN fs /\ InManifest(m, d, f, fs[<<d, f>>])
<1>1. Now(m)[1] = "listed" /\ Now(m)[2] = d /\ Now(m)[3] = f
  BY DEF Listed
<1> QED BY <1>1 DEF Moved, Holds, AsListed, Exists, Content, InManifest

\* What was compared with a frozen manifest is still as it lists.
LEMMA ComparesStep ==
    Base /\ Base' /\ Left /\ Claims' /\ Refers /\ Compares /\ ScriptsNext => Compares'
<1> SUFFICES ASSUME Base, Base', Left, Claims', Refers, Compares, ScriptsNext, NEW m \in Numbers',
                    runs'[m].state = "active", NEW d, NEW f, NEW i \in Ended(runs'[m]),
                    Code(runs'[m])[i] = Listed(d, f), Frozen(m, d)', ReadBefore(runs'[m], d, i)
             PROVE  <<d, f>> \in DOMAIN fs' /\ InManifest(m, d, f, fs[<<d, f>>])'
  BY DEF Compares, Active
<1> DEFINE r == runs[m]
           s == runs'[m]
<1>1. m \in Numbers
  BY RecordKinds DEF Begins
<1>2. Further(r, s) /\ Shape(r) /\ Active(m) /\ r.state = "active"
  BY <1>1, GoesFurther DEF Further, Active, Base
<1>3. PICK k \in 1..(i - 1) : Code(s)[k][1] = "read" /\ Code(s)[k][2] = d
  BY DEF ReadBefore
<1>4. ASSUME \A k1 \in 1..(i - 1) : Code(s)[k1] = Code(r)[k1] /\ k1 \in Ended(r)
      PROVE  d \in DOMAIN r.ref /\ ReadBefore(r, d, i)
  BY <1>1, <1>2, <1>3, <1>4 DEF Refers, ReadBefore
<1>5. ASSUME d \in DOMAIN r.ref
      PROVE  /\ Frozen(m, d) /\ StillThere(d)
             /\ \A c : InManifest(m, d, f, c)' <=> InManifest(m, d, f, c)
  BY <1>1, <1>2, <1>5, FrozenBefore
<1>6. ASSUME d \in DOMAIN r.ref, <<d, f>> \in DOMAIN fs, InManifest(m, d, f, fs[<<d, f>>])
      PROVE  <<d, f>> \in DOMAIN fs' /\ InManifest(m, d, f, fs[<<d, f>>])'
  <2> DEFINE c == fs[<<d, f>>]
  <2>1. <<d, f>>[1] = d
    OBVIOUS
  <2>2. <<d, f>> \in DOMAIN fs' /\ fs'[<<d, f>>] = c
    BY <1>5, <1>6, <2>1 DEF StillThere
  <2>3. \A b : InManifest(m, d, f, b)' <=> InManifest(m, d, f, b)
    BY <1>5, <1>6
  <2>4. \A b : InManifest(m, d, f, b)' <=> <<f, b>> \in runs'[runs'[m].ref[d]].lists
    BY DEF InManifest
  <2>5. <<f, c>> \in runs'[runs'[m].ref[d]].lists
    BY <1>6, <2>3, <2>4
  <2>6. <<f, fs'[<<d, f>>]>> \in runs'[runs'[m].ref[d]].lists
    BY <2>2, <2>5
  <2> QED BY <2>2, <2>6 DEF InManifest
<1>7. CASE Kin(r, s) \/ Opened(m)
  <2>1. Code(s) = Code(r) /\ Ended(s) = Ended(r) /\ At(r) \in Nat /\ Ended(r) = 1..(At(r) - 1)
    BY <1>2, <1>7, KinFacts, Current DEF Opened, Ended
  <2>2. i \in Ended(r) /\ \A k1 \in 1..(i - 1) : k1 \in Ended(r)
    BY <2>1
  <2> QED BY <1>1, <1>2, <1>4, <1>5, <1>6, <2>1, <2>2 DEF Compares
<1>8. CASE Moved(m)
  <2>1. /\ Does(r, Now(m), s) /\ Now(m) = Code(r)[At(r)]
    BY <1>8 DEF Moved, Now, Program, Code
  <2>2. /\ At(r) \in Nat /\ At(r) >= 1 /\ Ended(r) = 1..(At(r) - 1) /\ Ended(s) = 1..At(r)
        /\ \A j \in 1..At(r) : Code(s)[j] = Code(r)[j]
    BY <1>2, <2>1, DoesPlace
  <2>3. i \in 1..At(r) /\ \A k1 \in 1..(i - 1) : k1 \in Ended(r) /\ k1 \in 1..At(r)
    <3> HIDE DEF r, s
    <3> QED BY <2>2 DEF s
  <2>4. d \in DOMAIN r.ref /\ ReadBefore(r, d, i)
    BY <1>4, <2>2, <2>3
  <2>5. CASE i = At(r)
    BY <1>6, <1>8, <2>1, <2>2, <2>3, <2>4, <2>5, Compared1
  <2>6. CASE i # At(r)
    <3>1. i \in Ended(r)
      <4> HIDE DEF r
      <4> QED BY <2>2, <2>3, <2>6
    <3> QED BY <1>1, <1>2, <1>5, <1>6, <2>2, <2>3, <2>4, <3>1 DEF Compares
  <2> QED BY <2>5, <2>6
<1> QED BY <1>1, <1>7, <1>8, RecordKinds DEF Forgot

\* What a run takes is as it finds it.
LEMMA Taken1 ==
    ASSUME NEW m, Moved(m), NEW t \in AsTaken(Now(m))
    PROVE  /\ t = <<t[1], t[2], t[3]>> /\ <<t[1], t[2]>> \in Taken(Now(m))
           /\ <<t[1], t[2]>> \in DOMAIN fs /\ fs[<<t[1], t[2]>>] = t[3]
           /\ Now(m)[1] \in {"take", "native"}
<1> DEFINE i == Now(m)
<1>1. Holds(m) /\ Instruction(m) = i
  BY DEF Moved
<1>2. PICK u \in Taken(i) : t = <<u[1], u[2], Content(u[1], u[2])>>
  BY DEF AsTaken
<1>3. t[1] = u[1] /\ t[2] = u[2] /\ t[3] = Content(u[1], u[2])
  BY <1>2
<1>4. i[1] \in {"take", "native"} /\ u = <<u[1], u[2]>> /\ Whole(u[1], u[2])
  <2>1. CASE i[1] = "take"
    <3>1. u = <<i[2], i[3]>>
      BY <1>2, <2>1 DEF Taken
    <3>2. Whole(i[2], i[3])
      BY <1>1, <2>1 DEF Holds
    <3> QED BY <2>1, <3>1, <3>2
  <2>2. CASE i[1] = "native"
    <3>1. PICK f \in i[5] : u = <<i[4], f>>
      BY <1>2, <2>2 DEF Taken
    <3>2. Whole(i[4], f)
      BY <1>1, <2>2 DEF Holds
    <3> QED BY <2>2, <3>1, <3>2
  <2> QED BY <1>2, <2>1, <2>2 DEF Taken
<1> QED BY <1>2, <1>3, <1>4 DEF Whole, Exists, Content

\* What was taken from a frozen directory is still what is there.
LEMMA TakesStep ==
    Base /\ Base' /\ Left /\ Claims' /\ Refers /\ Compares /\ Takes /\ ScriptsNext => Takes'
<1> SUFFICES ASSUME Base, Base', Left, Claims', Refers, Compares, Takes, ScriptsNext,
                    NEW m \in Numbers', runs'[m].state # "stopped", NEW t \in runs'[m].took
             PROVE  /\ t = <<t[1], t[2], t[3]>>
                    /\ \E j \in Ended(runs'[m]) : <<t[1], t[2]>> \in Taken(Code(runs'[m])[j])
                    /\ runs'[m].state = "active" /\ Frozen(m, t[1])' =>
                           <<t[1], t[2]>> \in DOMAIN fs' /\ fs'[<<t[1], t[2]>>] = t[3]
                    /\ \A i \in Ended(runs'[m]) :
                           /\ Frozen(m, t[1])' /\ ReadBefore(runs'[m], t[1], i)
                           /\ Code(runs'[m])[i] = Listed(t[1], t[2])
                           => InManifest(m, t[1], t[2], t[3])'
  BY DEF Takes, Active
<1> DEFINE r == runs[m]
           s == runs'[m]
           d == t[1]
           f == t[2]
<1>1. m \in Numbers
  BY RecordKinds DEF Begins
<1>2. Further(r, s) /\ Shape(r) /\ r.state # "stopped"
  BY <1>1, GoesFurther DEF Further, Base
<1>3. ASSUME d \in DOMAIN r.ref, Frozen(m, d)'
      PROVE  /\ Frozen(m, d) /\ (Active(m) => StillThere(d))
             /\ \A c : InManifest(m, d, f, c)' <=> InManifest(m, d, f, c)
  <2> HIDE DEF d, f
  <2> QED BY <1>1, <1>2, <1>3, FrozenBefore
<1>4. s.state = "active" => Active(m)
  BY <1>2 DEF Further, Active
<1>5. ASSUME d \in DOMAIN r.ref, Frozen(m, d)', s.state = "active",
             <<d, f>> \in DOMAIN fs, fs[<<d, f>>] = t[3]
      PROVE  <<d, f>> \in DOMAIN fs' /\ fs'[<<d, f>>] = t[3]
  <2>1. <<d, f>>[1] = d
    OBVIOUS
  <2> QED BY <1>3, <1>4, <1>5, <2>1 DEF StillThere
<1>6. t \in r.took =>
          /\ t = <<t[1], t[2], t[3]>>
          /\ \E j \in Ended(r) : <<d, f>> \in Taken(Code(r)[j])
          /\ Active(m) /\ Frozen(m, d) => <<d, f>> \in DOMAIN fs /\ fs[<<d, f>>] = t[3]
          /\ \A i \in Ended(r) :
                 Frozen(m, d) /\ ReadBefore(r, d, i) /\ Code(r)[i] = Listed(d, f) =>
                     InManifest(m, d, f, t[3])
  BY <1>1, <1>2 DEF Takes
<1>7. CASE Kin(r, s) \/ Opened(m)
  <2>1. /\ Code(s) = Code(r) /\ Ended(s) = Ended(r) /\ t \in r.took /\ DOMAIN s.ref = DOMAIN r.ref
    BY <1>2, <1>7, KinFacts DEF Kin, Opened
  <2>2. \A i : ReadBefore(s, d, i) => ReadBefore(r, d, i)
    BY <2>1 DEF ReadBefore
  <2>3. Frozen(m, d)' => d \in DOMAIN r.ref
    BY <2>1 DEF Frozen
  <2> HIDE DEF d, f, r, s
  <2>4. s.state = "active" /\ Frozen(m, d)' => <<d, f>> \in DOMAIN fs' /\ fs'[<<d, f>>] = t[3]
    BY <1>3, <1>4, <1>5, <1>6, <2>1, <2>3
  <2>5. \A i \in Ended(s) : Frozen(m, d)' /\ ReadBefore(s, d, i) /\ Code(s)[i] = Listed(d, f) =>
            InManifest(m, d, f, t[3])'
    BY <1>3, <1>6, <2>1, <2>2, <2>3
  <2>6. t = <<t[1], t[2], t[3]>> /\ \E j \in Ended(s) : <<d, f>> \in Taken(Code(s)[j])
    BY <1>6, <2>1
  <2> QED BY <2>4, <2>5, <2>6 DEF d, f, s
<1>8. CASE Moved(m)
  <2> DEFINE n == Now(m)
             a == At(r)
  <2>1. /\ Does(r, n, s) /\ n = Code(r)[a] /\ r.state = "active" /\ Active(m)
    BY <1>8 DEF Moved, Now, Program, Code, Active
  <2>2. /\ a \in Nat /\ a >= 1 /\ Ended(r) = 1..(a - 1) /\ Ended(s) = 1..a /\ a \in 1..a
        /\ \A j \in 1..a : Code(s)[j] = Code(r)[j]
        /\ Code(s)[a] = n /\ 1..a \subseteq DOMAIN Code(s) /\ Orderly(Code(s), s.script)
        /\ s.took = r.took \cup AsTaken(n) /\ s.ref = NextRef(r, n)
    BY <1>2, <2>1, DoesPlace DEF Does
  <2>3. t \in AsTaken(n) => /\ t = <<t[1], t[2], t[3]>> /\ <<d, f>> \in Taken(n)
                            /\ <<d, f>> \in DOMAIN fs /\ fs[<<d, f>>] = t[3]
                            /\ n[1] \in {"take", "native"}
    BY <1>8, Taken1
  <2>4. t \in r.took \/ t \in AsTaken(n)
    BY <2>2
  <2>5. \E j \in Ended(s) : <<d, f>> \in Taken(Code(s)[j])
    <3>1. CASE t \in r.took
      <4>1. PICK j \in Ended(r) : <<d, f>> \in Taken(Code(r)[j])
        BY <1>6, <3>1
      <4>2. j \in 1..a
        <5> HIDE DEF r, a
        <5> QED BY <2>2
      <4> QED BY <2>2, <4>1, <4>2
    <3>2. CASE t \in AsTaken(n)
      BY <2>2, <2>3, <3>2
    <3> QED BY <2>4, <3>1, <3>2
  <2>6. ASSUME Frozen(m, d)' PROVE d \in DOMAIN r.ref
    <3>1. d \in DOMAIN s.ref
      <4> HIDE DEF d
      <4> QED BY <2>6 DEF Frozen
    <3>2. CASE n[1] = "read" /\ n[2] = d
      <4>1. PICK j \in Ended(r) : <<d, f>> \in Taken(Code(r)[j])
        BY <1>6, <2>3, <2>4, <3>2
      <4>2. j \in 1..a /\ j < a
        <5> HIDE DEF r, a
        <5> QED BY <2>2
      <4>3. <<d, f>> \in Taken(Code(s)[j]) /\ <<d, f>>[1] = d /\ j \in DOMAIN Code(s) /\ a \in DOMAIN Code(s)
        BY <2>2, <4>1, <4>2
      <4>4. a < j
        <5> HIDE DEF d, f, n, a
        <5> QED BY <2>2, <3>2, <4>3 DEF Orderly, Checking
      <4> QED BY <2>2, <4>2, <4>4
    <3>3. CASE ~(n[1] = "read" /\ n[2] = d)
      BY <2>2, <3>1, <3>3 DEF NextRef
    <3> QED BY <3>2, <3>3
  <2>7. ASSUME s.state = "active", Frozen(m, d)'
        PROVE  <<d, f>> \in DOMAIN fs' /\ fs'[<<d, f>>] = t[3]
    <3>1. d \in DOMAIN r.ref /\ Frozen(m, d)
      BY <1>3, <2>6, <2>7
    <3>2. <<d, f>> \in DOMAIN fs /\ fs[<<d, f>>] = t[3]
      BY <1>6, <2>1, <2>3, <2>4, <3>1
    <3> QED BY <1>5, <2>7, <3>1, <3>2
  <2>8. ASSUME NEW i \in 1..a, Frozen(m, d)', ReadBefore(s, d, i), Code(s)[i] = Listed(d, f)
        PROVE  InManifest(m, d, f, t[3])'
    <3>1. /\ d \in DOMAIN r.ref /\ Frozen(m, d)
          /\ \A c : InManifest(m, d, f, c)' <=> InManifest(m, d, f, c)
      BY <1>3, <2>6, <2>8
    <3>2. InManifest(m, d, f, t[3])
      <4>1. CASE i = a
        <5>1. n = Listed(d, f)
          BY <2>2, <2>8, <4>1
        <5>2. <<d, f>> \in DOMAIN fs /\ InManifest(m, d, f, fs[<<d, f>>])
          BY <1>8, <5>1, Compared1
        <5>3. n[1] = "listed"
          BY <5>1 DEF Listed
        <5>4. t \in r.took
          BY <2>3, <2>4, <5>3
        <5> QED BY <1>6, <2>1, <3>1, <5>2, <5>4
      <4>2. CASE i # a
        <5>1. i \in Ended(r) /\ Code(s)[i] = Code(r)[i]
          <6> HIDE DEF r, a, s
          <6> QED BY <2>2, <4>2
        <5>2. ReadBefore(r, d, i)
          <6>1. PICK k \in 1..(i - 1) : Code(s)[k][1] = "read" /\ Code(s)[k][2] = d
            BY <2>8 DEF ReadBefore
          <6>2. k \in 1..a
            <7> HIDE DEF a
            <7> QED BY <2>2
          <6> QED BY <2>2, <6>1, <6>2 DEF ReadBefore
        <5>3. CASE t \in r.took
          BY <1>6, <2>8, <3>1, <5>1, <5>2, <5>3
        <5>4. CASE t \in AsTaken(n)
          <6>1. <<d, f>> \in DOMAIN fs /\ InManifest(m, d, f, fs[<<d, f>>])
            <7> HIDE DEF d, f
            <7> QED BY <1>1, <2>1, <2>8, <3>1, <5>1, <5>2 DEF Compares
          <6> QED BY <2>3, <5>4, <6>1
        <5> QED BY <2>4, <5>3, <5>4
      <4> QED BY <4>1, <4>2
    <3> QED BY <3>1, <3>2
  <2>9. t = <<t[1], t[2], t[3]>>
    BY <1>6, <2>3, <2>4
  <2> HIDE DEF n, a
  <2> QED BY <2>2, <2>5, <2>7, <2>8, <2>9
<1> QED BY <1>1, <1>7, <1>8, RecordKinds DEF Forgot

-----------------------------------------------------------------------------
(* Under run_bounded.py                                                    *)

\* What the scripts do is nothing that run_bounded.py does.
LEMMA BoundedKinds == [Next]_all => [BoundedNext]_bounded
<1> SUFFICES ASSUME [Next]_all PROVE [BoundedNext]_bounded
  OBVIOUS
<1>1. CASE ByHand \/ Within \/ UNCHANGED all
  BY <1>1 DEF ByHand, Within, all
<1>2. CASE Bounding
  BY <1>2 DEF Bounding, BoundedNext
<1>3. ASSUME NEW p \in Calls, (\E job \in plan.jobs : Launch(p, job)) \/ Return(p) \/ OutOfMemory(p)
      PROVE  BoundedNext
  BY <1>3 DEF Launch, Return, OutOfMemory, BoundedNext
<1> QED BY <1>1, <1>2, <1>3 DEF Next

\* A command without its monitor stays so.
LEMMA OrphanedStays == [BoundedNext]_bounded /\ ~orphaned' => ~orphaned
  BY DEF BoundedNext, OuterTake, Reserve, HandOver, Refuse, OuterFinish, InnerTake, InnerFail,
         Execute, InnerFinish, CommandEnds, LoseOuter, LoseScope, LoseMonitor, bounded

\* Which commands go on running.
LEMMA CommandsGoOn ==
    ASSUME BoundedType, NEW p \in Calls
    PROVE  /\ OuterTake(p) \/ Reserve(p) \/ HandOver(p) \/ Refuse(p) \/ OuterFinish(p)
              \/ InnerTake(p) \/ InnerFail(p) \/ InnerFinish(p) \/ LoseOuter(p) => command' = command
           /\ CommandEnds(p) \/ LoseScope(p) =>
                  \A q \in Calls : q # p /\ command[q] = "running" => command'[q] = "running"
           /\ Execute(p) => command'[p] = "running" /\ inner[p] = "held"
           /\ LoseMonitor(p) => orphaned'
  BY DEF BoundedType, OuterTake, Reserve, HandOver, Refuse, OuterFinish, InnerTake, InnerFail,
         Execute, InnerFinish, CommandEnds, LoseOuter, LoseScope, LoseMonitor

\* The commands of two calls do not run at once, nor while another is about to.
LEMMA Alone ==
    ASSUME Inductive, ~orphaned, NEW p \in Calls, command[p] = "running"
    PROVE  /\ \A q \in Calls : command[q] = "running" => p = q
           /\ \A q \in Calls : inner[q] # "held"
<1>1. inner[p] = "running" /\ lock = <<"inner", p>>
  BY DEF Inductive, Attended, Holding
<1>2. ASSUME NEW q \in Calls, command[q] = "running" \/ inner[q] = "held" PROVE p = q
  <2>1. lock = <<"inner", q>>
    BY <1>2 DEF Inductive, Attended, Holding
  <2> QED BY <1>1, <2>1
<1> QED BY <1>1, <1>2

\* A script that is run so lists what it wrote, by name.
LEMMA ListsByName ==
    ASSUME Base, Stays, Bounds, plan.bounded, ~orphaned, NEW m, Moved(m)
    PROVE  \A e \in runs'[m].lists : e[2] = <<m, TRUE>>
<1> DEFINE r == runs[m]
           i == Now(m)
<1>1. /\ m \in Numbers /\ Active(m) /\ Shape(r) /\ r.state = "active" /\ i = Code(r)[At(r)]
      /\ runs'[m].lists = NextLists(r, i)
  BY DEF Moved, Does, Base, Active, Now, Program, Code
<1>2. At(r) \in DOMAIN Code(r) /\ At(r) \in Nat
  BY <1>1, Current
<1>3. PICK job \in plan.jobs : job[1] = r.script
  BY <1>1 DEF Bounds
<1>4. ByName(Code(r))
  BY <1>1, <1>3, PlansAssumption DEF Base, Shape, Code
<1>5. ~r.shared /\ \A e \in r.lists : e[2] = <<m, TRUE>>
  BY <1>1 DEF Bounds
<1>6. i[1] # "list"
  BY <1>1, <1>2, <1>4 DEF ByName
<1>7. CASE i[1] = "collect"
  <2>1. PICK j \in 1..(At(r) - 1) : WritesTo(Code(r)[j], i[2])
    BY <1>1, <1>2, <1>4, <1>7 DEF ByName
  <2>2. j \in Begun(r)
    <3> HIDE DEF r
    <3> QED BY <1>2 DEF Begun, Ended
  <2>3. Content(r.script, i[2]) = <<m, TRUE>>
    BY <1>1, <1>5, <1>7, <2>1, <2>2, Ready DEF WritesTo, Undisturbed
  <2>4. \A e \in HashOf(r.script, {i[2]}) : e[2] = Content(r.script, i[2])
    BY DEF HashOf
  <2> QED BY <1>1, <1>5, <1>7, <2>3, <2>4 DEF NextLists
<1>8. CASE i[1] # "collect"
  BY <1>1, <1>5, <1>6, <1>8 DEF NextLists
<1> QED BY <1>7, <1>8

\* No step of a script leaves anything behind.
LEMMA StepLeavesNothing == \A n : Step(n) => orphans' = orphans
  BY DEF Step, Check, HashInput, RecheckInput, LoadInput, Observe, Call, KeepTaps, ReadManifest, TakeFile,
         NoteManifest, ListFiles, MakeDirectory, Open, Finish, Raise, Quiet

\* Every run is of a job.
LEMMA JobsStay ==
    ASSUME Base, ScriptsNext, \A n \in Numbers : \E job \in plan.jobs : job[1] = runs[n].script
    PROVE  \A n \in Numbers' : \E job \in plan.jobs : job[1] = runs'[n].script
<1>1. \A n \in Numbers : runs'[n].script = runs[n].script
  BY GoesFurther DEF Further
<1>2. ASSUME NEW job \in plan.jobs, Start(job)
      PROVE  \A n \in Numbers' : \E e \in plan.jobs : e[1] = runs'[n].script
  BY <1>1, <1>2, StartBegins
<1>3. ASSUME NEW n \in Numbers, Reads(n) \/ Opens(n) \/ Finishes(n) \/ Makes(n) \/ Stops(n)
      PROVE  Numbers' = Numbers
  BY <1>3, StopsStops DEF Reads, Opens, Finishes, Makes, Moved, Opened
<1>4. ASSUME NEW o \in orphans, OrphanWrites(o) PROVE Numbers' = Numbers
  BY <1>4, OrphanNoticed
<1>5. CASE (\E x \in plan.editable : Edit(x)) \/ UNCHANGED scripts
  BY <1>5 DEF Edit, scripts, Numbers
<1> QED BY <1>1, <1>2, <1>3, <1>4, <1>5 DEF ScriptsNext

\* What Bounds says of a run.
Lawful(n) ==
    /\ Active(n) => ~runs[n].shared /\ Attending(n)
    /\ \A e \in runs[n].lists : e[2] = <<n, TRUE>>

\* The only run that is active takes a step.
LEMMA WithinLawful ==
    ASSUME Base, Base', Stays, Inductive, Bounds, plan.bounded, ~orphaned, NEW n \in Numbers, Step(n),
           UNCHANGED <<bounded, running>>
    PROVE  \A m \in Numbers' : Lawful(m)'
<1>1. Reads(n) \/ Opens(n) \/ Finishes(n) \/ Makes(n) \/ Stops(n)
  BY StepKinds
<1>2. Numbers' = Numbers /\ Active(n)
  BY <1>1, StopsStops DEF Reads, Opens, Finishes, Makes, Stops, Moved, Opened
<1>3. \A m \in Numbers : Lawful(m)
  BY DEF Bounds, Lawful
<1>4. \A m \in Numbers : Active(m) => m = n
  <2> SUFFICES ASSUME NEW m \in Numbers, Active(m) PROVE m = n
    OBVIOUS
  <2>1. PICK p \in Calls : command[p] = "running" /\ running[p] = m
    BY <1>3 DEF Lawful, Attending
  <2>2. PICK q \in Calls : command[q] = "running" /\ running[q] = n
    BY <1>2, <1>3 DEF Lawful, Attending
  <2>3. p = q
    BY <2>1, <2>2, Alone
  <2> QED BY <2>1, <2>2, <2>3
<1>5. \A m \in Numbers : Attending(m)' <=> Attending(m)
  BY DEF Attending, bounded
<1>6. ASSUME NEW m \in Numbers, m # n PROVE Lawful(m)'
  <2>1. ~Active(m) /\ ScriptsNext
    BY <1>1, <1>4, <1>6 DEF ScriptsNext
  <2>2. runs'[m] = runs[m]
    BY <2>1, Settled
  <2> QED BY <1>3, <2>1, <2>2 DEF Lawful, Active
<1>7. Lawful(n)'
  <2>1. CASE Stops(n)
    <3>1. runs'[n].state = "stopped" /\ runs'[n].lists = {}
      BY <2>1, StopsStops DEF Forgot
    <3> QED BY <3>1 DEF Lawful, Active
  <2>2. CASE Opens(n)
    <3>1. runs'[n].shared = runs[n].shared /\ runs'[n].lists = runs[n].lists
      BY <2>2 DEF Opens, Opened
    <3> QED BY <1>2, <1>3, <1>5, <3>1 DEF Lawful
  <2>3. CASE Moved(n)
    <3>1. runs'[n].shared = runs[n].shared
      BY <2>3 DEF Moved, Does, Onward
    <3>2. \A e \in runs'[n].lists : e[2] = <<n, TRUE>>
      BY <2>3, ListsByName
    <3> QED BY <1>2, <1>3, <1>5, <3>1, <3>2 DEF Lawful
  <2> QED BY <1>1, <2>1, <2>2, <2>3 DEF Reads, Finishes, Makes
<1> QED BY <1>2, <1>6, <1>7

\* Only one run is active under run_bounded.py, and it is that of the running call.
LEMMA BoundsStep == Base /\ Base' /\ Stays /\ Inductive /\ Bounds /\ [Next]_all => Bounds'
<1> SUFFICES ASSUME Base, Base', Stays, Inductive, Bounds, [Next]_all PROVE Bounds'
  OBVIOUS
<1>1. ScriptsNext /\ [BoundedNext]_bounded /\ plan' = plan
  BY NextKinds, BoundedKinds, EditsFacts
<1>2. DOMAIN running' = Calls
  BY DEF Bounds, Next, ByHand, Bounding, Within, Launch, Return, OutOfMemory, all
<1>3. plan.bounded => \A n \in Numbers' : \E job \in plan.jobs : job[1] = runs'[n].script
  BY <1>1, JobsStay DEF Bounds
<1>4. ASSUME plan.bounded PROVE orphans' = {}
  <2>1. orphans = {}
    BY <1>4 DEF Bounds
  <2>2. CASE Bounding \/ UNCHANGED all
    BY <2>1, <2>2 DEF Bounding, all, scripts
  <2>3. CASE Within
    BY <2>1, <2>3, StepLeavesNothing DEF Within
  <2>4. ASSUME NEW p \in Calls, (\E job \in plan.jobs : Launch(p, job)) \/ Return(p) \/ OutOfMemory(p)
        PROVE  orphans' = {}
    BY <2>1, <2>4 DEF Launch, Start, Quiet, Return, scripts, OutOfMemory, KillAll
  <2> QED BY <1>4, <2>2, <2>3, <2>4 DEF Next, ByHand
<1>5. ASSUME plan.bounded, ~orphaned' PROVE \A n \in Numbers' : Lawful(n)'
  <2>1. ~orphaned
    BY <1>1, <1>5, OrphanedStays
  <2>2. \A n \in Numbers : Lawful(n)
    BY <1>5, <2>1 DEF Bounds, Lawful
  <2>3. BoundedType
    BY DEF Inductive
  <2>4. ASSUME runs' = runs, running' = running,
               \A n \in Numbers, p \in Calls :
                   Active(n) /\ command[p] = "running" /\ running[p] = n => command'[p] = "running"
        PROVE  \A n \in Numbers' : Lawful(n)'
    <3> SUFFICES ASSUME NEW n \in Numbers PROVE Lawful(n)'
      BY <2>4 DEF Numbers
    <3>1. Active(n) => Attending(n)'
      BY <2>2, <2>4 DEF Lawful, Attending
    <3> QED BY <2>2, <2>4, <3>1 DEF Lawful, Active
  <2>5. CASE UNCHANGED all
    BY <2>4, <2>5 DEF all, scripts, bounded
  <2>6. CASE Within
    BY <1>5, <2>1, <2>6, WithinLawful DEF Within
  <2>7. CASE Bounding
    <3>1. PICK p \in Calls :
              \/ OuterTake(p) \/ Reserve(p) \/ HandOver(p) \/ Refuse(p) \/ OuterFinish(p)
              \/ InnerTake(p) \/ InnerFail(p) \/ InnerFinish(p)
              \/ LoseOuter(p) \/ LoseMonitor(p) \/ (~Busy(p) /\ LoseScope(p))
      BY <2>7 DEF Bounding
    <3>2. runs' = runs /\ running' = running
      BY <2>7 DEF Bounding, scripts
    <3>3. \A n \in Numbers, q \in Calls :
              Active(n) /\ command[q] = "running" /\ running[q] = n => command'[q] = "running"
      BY <1>5, <2>3, <3>1, CommandsGoOn DEF Busy
    <3> QED BY <2>4, <3>2, <3>3
  <2>8. ASSUME NEW p \in Calls, Return(p) PROVE \A n \in Numbers' : Lawful(n)'
    <3>1. runs' = runs /\ running' = running /\ ~Active(running[p]) /\ CommandEnds(p)
      BY <2>8 DEF Return, scripts
    <3>2. \A n \in Numbers, q \in Calls :
              Active(n) /\ command[q] = "running" /\ running[q] = n => command'[q] = "running"
      BY <2>3, <3>1, CommandsGoOn
    <3> QED BY <2>4, <3>1, <3>2
  <2>9. ASSUME NEW p \in Calls, OutOfMemory(p) PROVE \A n \in Numbers' : Lawful(n)'
    <3>1. PICK w \in Numbers : w = running[p]
      BY <2>9 DEF OutOfMemory, Busy
    <3>2. running' = running /\ LoseScope(p) /\ KillAll(w) /\ Stops(w)
      BY <2>9, <3>1 DEF OutOfMemory, Busy, KillAll, Stops
    <3>3. Numbers' = Numbers /\ runs'[w].state = "stopped" /\ runs'[w].lists = {} /\ Aside(w)
      BY <3>2, StopsStops DEF Forgot
    <3>4. ASSUME NEW n \in Numbers, n # w PROVE Lawful(n)'
      <4>1. runs'[n] = runs[n]
        BY <3>3, <3>4 DEF Aside
      <4>2. Active(n) => Attending(n)'
        <5>1. ASSUME Active(n) PROVE Attending(n)'
          <6>1. PICK q \in Calls : command[q] = "running" /\ running[q] = n
            BY <2>2, <5>1 DEF Lawful, Attending
          <6>2. q # p
            BY <3>1, <3>4, <6>1
          <6>3. command'[q] = "running"
            BY <2>3, <3>2, <6>1, <6>2, CommandsGoOn
          <6> QED BY <3>2, <6>1, <6>3 DEF Attending
        <5> QED BY <5>1
      <4> QED BY <2>2, <4>1, <4>2 DEF Lawful, Active
    <3>5. Lawful(w)'
      BY <3>3 DEF Lawful, Active
    <3> QED BY <3>3, <3>4, <3>5
  <2>10. ASSUME NEW p \in Calls, NEW job \in plan.jobs, Launch(p, job)
         PROVE  \A n \in Numbers' : Lawful(n)'
    <3>1. Execute(p) /\ Start(job) /\ running' = [running EXCEPT ![p] = Len(runs')]
      BY <2>10 DEF Launch
    <3>2. inner[p] = "held" /\ command'[p] = "running"
      BY <2>3, <3>1, CommandsGoOn
    <3>3. \A n \in Numbers : ~Active(n)
      <4>1. \A q \in Calls : command[q] # "running"
        BY <2>1, <3>2, Alone
      <4> QED BY <2>2, <4>1 DEF Lawful, Attending
    <3>4. /\ Numbers' = Numbers \cup {Len(runs')} /\ \A n \in Numbers : runs'[n] = runs[n]
          /\ runs'[Len(runs')].lists = {} /\ runs'[Len(runs')].shared = FALSE
      BY <3>1, StartBegins DEF Begins
    <3>5. running'[p] = Len(runs')
      BY <3>1 DEF Bounds
    <3>6. \A n \in Numbers : Lawful(n)'
      BY <2>2, <3>3, <3>4 DEF Lawful, Active
    <3>7. \A n : n = Len(runs') => Lawful(n)'
      BY <3>2, <3>4, <3>5 DEF Lawful, Attending
    <3> QED BY <3>4, <3>6, <3>7
  <2> QED BY <1>5, <2>5, <2>6, <2>7, <2>8, <2>9, <2>10 DEF Next, ByHand
<1> QED BY <1>1, <1>2, <1>3, <1>4, <1>5 DEF Bounds, Lawful

-----------------------------------------------------------------------------
(* What is known altogether                                                *)

Known ==
    /\ Base /\ RunsKnow /\ Documents /\ Refers /\ Left /\ Claims /\ Stays /\ Hashed
    /\ Compares /\ Takes /\ Inductive /\ Bounds

\* Before the first run there is nothing to know.
LEMMA KnownInit == Init => Known
<1> SUFFICES ASSUME Init PROVE Known
  OBVIOUS
<1>1. Numbers = {} /\ DOMAIN fs = {} /\ orphans = {} /\ running = [p \in Calls |-> 0]
  BY DEF Init, RunInit, Numbers
<1>2. Base
  BY BaseInit
<1>3. RunsKnow /\ Documents /\ Refers /\ Left /\ Stays /\ Hashed /\ Compares /\ Takes
  BY <1>1 DEF RunsKnow, Documents, Refers, Left, Stays, Hashed, Compares, Takes
<1>4. Claims
  BY <1>1 DEF Claims, OneOwner, Exists
<1>5. Inductive
  BY InductiveInit DEF Init
<1>6. Bounds
  BY <1>1 DEF Bounds
<1> QED BY <1>2, <1>3, <1>4, <1>5, <1>6 DEF Known

\* Every step keeps it; the parts that need another one afterwards come last.
LEMMA KnownStep == Known /\ [Next]_all => Known'
<1> SUFFICES ASSUME Known, [Next]_all PROVE Known'
  OBVIOUS
<1> USE DEF Known
<1>1. ScriptsNext
  BY NextKinds
<1>2. Base'
  BY <1>1, BaseStep
<1>3. RunsKnow'
  BY <1>1, <1>2, RunsKnowStep
<1>4. Documents' /\ Refers'
  BY <1>1, <1>2, DocumentsStep, RefersStep
<1>5. Left' /\ Claims'
  BY <1>1, LeftStep, ClaimsStep
<1>6. Stays' /\ Hashed'
  BY <1>1, <1>2, <1>5, StaysStep, HashedStep
<1>7. Compares' /\ Takes'
  BY <1>1, <1>2, <1>5, ComparesStep, TakesStep
<1>8. Inductive'
  BY BoundedKinds, InductiveStep
<1>9. Bounds'
  BY <1>2, BoundsStep
<1> QED BY <1>2, <1>3, <1>4, <1>5, <1>6, <1>7, <1>8, <1>9

\* A run that is done has come to the end of its program.
LEMMA DoneIs ==
    ASSUME Base, NEW n \in Numbers, Done(n)
    PROVE  /\ Program(n) = Code(runs[n]) /\ Ended(runs[n]) = DOMAIN Code(runs[n])
           /\ At(runs[n]) = Len(Code(runs[n])) + 1 /\ Len(Code(runs[n])) \in Nat
           /\ DOMAIN Code(runs[n]) = 1..Len(Code(runs[n]))
           /\ Orderly(Code(runs[n]), runs[n].script)
           /\ runs[n].state # "stopped"
<1>1. Shape(runs[n]) /\ runs[n].state = "done"
  BY DEF Base, Done
<1>2. runs[n].script \in Scripts /\ runs[n].opt \in Options
  BY <1>1 DEF Shape
<1>3. DOMAIN Code(runs[n]) = 1..Len(Code(runs[n]))
  BY <1>2, ProgramFacts DEF Code
<1> QED BY <1>1, <1>3, AtTheEnd DEF Program, Code

-----------------------------------------------------------------------------
(* What the runs of the project ask                                        *)

\* A manifest lists what its run wrote, and only that where the script insists
\* on its own directory.
THEOREM ManifestIsOwnTheorem == Spec => []ManifestIsOwn
<1>1. Known => ManifestIsOwn
  <2> SUFFICES ASSUME Known, NEW n \in Numbers, Done(n), Has(Program(n), Put("manifest"))
               PROVE  /\ Exclusive(Program(n)) => \A e \in runs[n].lists : e[2] = <<n, TRUE>>
                      /\ Exclusive(Program(n)) \/ ~runs[n].shared =>
                             \A f \in WritesOf(n) : <<f, <<n, TRUE>>>> \in runs[n].lists
    BY DEF ManifestIsOwn
  <2> DEFINE p == Code(runs[n])
             d == runs[n].script
  <2>1. Program(n) = p /\ Ended(runs[n]) = DOMAIN p /\ Orderly(p, d) /\ runs[n].state # "stopped"
    BY DoneIs DEF Known
  <2>2. Exclusive(p) => \A e \in runs[n].lists : e[2] = <<n, TRUE>>
    BY <2>1 DEF Known, Hashed
  <2>3. ASSUME Exclusive(p) \/ ~runs[n].shared, NEW f \in WritesOf(n)
        PROVE  <<f, <<n, TRUE>>>> \in runs[n].lists
    <3>1. PICK j \in DOMAIN p : p[j][1] \in Writes /\ p[j][2] = f /\ f # Document(d)
      BY <2>1 DEF WritesOf
    <3>2. PICK i \in DOMAIN p : j < i /\ Lists(p[i], p[j][2])
      BY <2>1, <3>1 DEF Orderly, Listing
    <3> QED BY <2>1, <2>3, <3>1, <3>2 DEF Known, Hashed, Undisturbed
  <2> QED BY <2>1, <2>2, <2>3
<1> QED BY <1>1, KnownInit, KnownStep, PTL DEF Spec

\* The tensors a finished capture saved are those of an unobserved call.
THEOREM NeutralTheorem == Spec => []Neutral
<1>1. Known => Neutral
  <2> SUFFICES ASSUME Known, NEW n \in Numbers, Done(n), NEW t \in runs[n].taps
               PROVE  t = "plain" \/ (t = "near" /\ Has(Program(n), Close("seen")))
    BY DEF Neutral
  <2>1. Kept(runs[n])
    BY DEF Known, RunsKnow
  <2> QED BY <2>1, DoneIs DEF Kept, Has, Known
<1> QED BY <1>1, KnownInit, KnownStep, PTL DEF Spec

\* What a finished comparison took from a capture is what its manifest lists.
THEOREM AcceptedTheorem == Spec => []Accepted
<1>1. Known => Accepted
  <2> SUFFICES ASSUME Known, NEW n \in Numbers, Done(n),
                      ~runs[n].torn \/ \A d \in DOMAIN runs[n].ref : Exclusive(Program(runs[n].ref[d])),
                      NEW t \in runs[n].took, t[1] \in DOMAIN runs[n].ref
               PROVE  <<t[2], t[3]>> \in runs[runs[n].ref[t[1]]].lists
    BY DEF Accepted
  <2> DEFINE p == Code(runs[n])
             d == runs[n].script
  <2>1. /\ Ended(runs[n]) = DOMAIN p /\ Orderly(p, d) /\ runs[n].state # "stopped"
        /\ At(runs[n]) = Len(p) + 1 /\ Len(p) \in Nat /\ DOMAIN p = 1..Len(p)
    BY DoneIs DEF Known
  <2>2. Frozen(n, t[1])
    BY DEF Frozen, Program, Code
  <2>3. PICK k \in 1..Len(p) : p[k][1] = "read" /\ p[k][2] = t[1]
    BY <2>1 DEF Known, Refers, ReadBefore
  <2>4. PICK j \in DOMAIN p : <<t[1], t[2]>> \in Taken(p[j])
    BY <2>1 DEF Known, Takes
  <2>5. PICK i \in DOMAIN p : k < i /\ p[i] = Listed(t[1], t[2])
    <3>1. \A u \in Taken(p[j]) : u[1] = p[k][2] => \E i \in DOMAIN p : k < i /\ p[i] = Listed(u[1], u[2])
      BY <2>1, <2>3 DEF Orderly, Checking
    <3> QED BY <2>3, <2>4, <3>1
  <2>6. ReadBefore(runs[n], t[1], i)
    BY <2>1, <2>3, <2>5 DEF ReadBefore
  <2>7. InManifest(n, t[1], t[2], t[3])
    BY <2>1, <2>2, <2>5, <2>6 DEF Known, Takes
  <2> QED BY <2>7 DEF InManifest
<1> QED BY <1>1, KnownInit, KnownStep, PTL DEF Spec

\* What a finished run hashed before and after is what it loaded, except for what
\* Python loaded before; and so is what it reports, where that is the same hash.
THEOREM IdentityHeldTheorem == Spec => []IdentityHeld
<1>1. Known => IdentityHeld
  <2> SUFFICES ASSUME Known, ~Twice, NEW n \in Numbers, Done(n), NEW u \in runs[n].used,
                      Has(Program(n), Recheck(u[1])), u[1] \notin Imported
               PROVE  /\ u \in runs[n].checked
                      /\ runs[n].script \notin ReportsAnew => u \in runs[n].before
    BY DEF IdentityHeld
  <2>1. Identified(runs[n], edits)
    BY DEF Known, RunsKnow
  <2>2. PICK k \in Ended(runs[n]) : Code(runs[n])[k] = Recheck(u[1])
    BY DoneIs DEF Known, Has
  <2>3. Code(runs[n])[k][1] = "recheck" /\ Code(runs[n])[k][2] = u[1]
    BY <2>2 DEF Recheck
  <2> QED BY <2>1, <2>2, <2>3 DEF Identified
<1> QED BY <1>1, KnownInit, KnownStep, PTL DEF Spec

\* Under run_bounded.py a finished comparison hashed outputs of its own.
THEOREM OutputsAreOwnTheorem == Spec => []OutputsAreOwn
<1>1. Known => OutputsAreOwn
  BY DEF Known, Bounds, OutputsAreOwn
<1> QED BY <1>1, KnownInit, KnownStep, PTL DEF Spec

\* The scripts do not matter to run_bounded.py: what holds of it alone holds of
\* it with them.
THEOREM BoundedTheorem == Spec => []OneCommand /\ []FinishedIsOver
<1>1. Init => BoundedInit
  BY DEF Init
<1>2. Spec => BoundedSpec
  BY <1>1, BoundedKinds, PTL DEF Spec, BoundedSpec
<1> QED BY <1>2, OneCommandTheorem, FinishedIsOverTheorem, PTL

====
