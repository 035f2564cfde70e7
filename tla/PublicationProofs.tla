--------------------------- MODULE PublicationProofs ---------------------------
(***************************************************************************)
(* Publication for any number of processes, tools and changes of files, of *)
(* the checkout and of the remote repository: what the tools guarantee     *)
(* holds beside a running upload, and what is published was reviewed.      *)
(*                                                                         *)
(* RemoteIsApproved rests on Handles: the number of edits that fstat saw   *)
(* when a model was opened is a lower bound of those the stream has now,   *)
(* and while the two are equal the stream has the contents that were       *)
(* hashed.  A path may be moved over meanwhile: the stream is kept.        *)
(* ContentsArePinned rests on Pinned, in the last part.  The first part is *)
(* about the tools alone.                                                  *)
(***************************************************************************)
EXTENDS Publication, SequenceTheorems, TLAPS

-----------------------------------------------------------------------------
(***************************************************************************)
(* ModelFiles for any number of processes, tools started, tensors and      *)
(* changes of files: what is in the directory keeps its type, a model file *)
(* under its final name is complete, and no tool replaces one.             *)
(*                                                                         *)
(* A file is complete when it is linked because Sync has compared its      *)
(* length with the header and nothing between Sync and Link writes to the  *)
(* temporary file.  That is the last conjunct of Steady; the others say    *)
(* where a tool can be in its own flow and what it has in its hands there. *)
(***************************************************************************)

\* A tool at a step of its own flow.
Placed(me) == me.job \in Jobs /\ me.pc \in DOMAIN Tools[me.job].flow

Reporting == {"recheck", "json", "dump"}

\* What it has there, with the files f.
Equipped(me, f) ==
    /\ me.pc = "open" \/ me.src # None
    /\ me.src = "live" => f[Source(me.job)] # None
    /\ me.pc \in Reporting \/ me.job = "inventory" \/ me.dest \in Models
    /\ me.pc \in Reporting \/ me.job = "inventory" => me.left # <<>>
    /\ me.pc = "stream" => me.k < Len(Elements)
    /\ me.pc \in {"sync", "readback", "rehash", "link"} => me.temp.ver \in Versions
    /\ me.pc = "dump" => f[Head(me.left)[1]] # None

\* Its temporary file is as long as the header says.
Complete(me) ==
    me.pc \in {"readback", "rehash", "link"} =>
        me.temp.size = HeaderBytes + Offset(me.job, Len(Elements))

Steady ==
    \A p \in Procs : proc[p].pc # "idle" =>
        Placed(proc[p]) /\ Equipped(proc[p], fs) /\ Complete(proc[p])

ProcType ==
    [job : Jobs \cup {None}, pc : PCs, src : Versions \cup {None, "live"},
     dest : Models \cup {None}, temp : [ver : Versions \cup {None}, size : Nat],
     k : 0..Len(Elements), expect : Versions \cup {None}, left : Seq(Reports \X Versions)]

FilesInv == FilesTypeOK /\ Steady /\ NothingPartial

\* The jobs by name.
LEMMA JobNames == Jobs = {"extract", "inventory", "backbone", "branch", "mhr"}
  BY DEF Jobs, Tools

\* The steps of each tool, and what follows each of them.
LEMMA Flows ==
    ASSUME NEW job \in Jobs
    PROVE  /\ \A pc \in DOMAIN Tools[job].flow :
                 Tools[job].flow[pc] \in DOMAIN Tools[job].flow \cup {"idle"}
           /\ DOMAIN Tools[job].flow \subseteq PCs \ {"idle"}
           /\ "open" \in DOMAIN Tools[job].flow
<1>1. CASE job = "extract"
  BY <1>1 DEF Tools, Extract, PCs
<1>2. CASE job = "inventory"
  BY <1>2 DEF Tools, Inventory, PCs
<1>3. CASE job = "backbone"
  BY <1>3 DEF Tools, Backbone, PCs
<1>4. CASE job = "branch"
  BY <1>4 DEF Tools, Branch, PCs
<1>5. CASE job = "mhr"
  BY <1>5 DEF Tools, Mhr, PCs
<1> QED
  BY <1>1, <1>2, <1>3, <1>4, <1>5, JobNames

\* Which step follows which.
LEMMA Follows ==
    ASSUME NEW job \in Jobs
    PROVE  LET flow == Tools[job].flow IN
           /\ flow["open"] = (IF job = "inventory" THEN "recheck" ELSE "begin")
           /\ "begin" \in DOMAIN flow => job # "inventory" /\ flow["begin"] = "stream"
           /\ "stream" \in DOMAIN flow => job # "inventory" /\ flow["stream"] = "sync"
           /\ "sync" \in DOMAIN flow => job # "inventory" /\ flow["sync"] \in {"readback", "rehash"}
           /\ "readback" \in DOMAIN flow => job # "inventory" /\ flow["readback"] \in {"rehash", "link"}
           /\ "rehash" \in DOMAIN flow => job # "inventory" /\ flow["rehash"] = "link"
           /\ "link" \in DOMAIN flow => job # "inventory" /\ flow["link"] \in {"record", "idle"}
           /\ "record" \in DOMAIN flow => job = "extract" /\ flow["record"] = "recheck"
           /\ "recheck" \in DOMAIN flow => flow["recheck"] = "json"
           /\ "json" \in DOMAIN flow => flow["json"] = "dump"
           /\ "dump" \in DOMAIN flow => flow["dump"] = "json"
<1>1. CASE job = "extract"
  BY <1>1 DEF Tools, Extract
<1>2. CASE job = "inventory"
  BY <1>2 DEF Tools, Inventory
<1>3. CASE job = "backbone"
  BY <1>3 DEF Tools, Backbone
<1>4. CASE job = "branch"
  BY <1>4 DEF Tools, Branch
<1>5. CASE job = "mhr"
  BY <1>5 DEF Tools, Mhr
<1> QED
  BY <1>1, <1>2, <1>3, <1>4, <1>5, JobNames

\* Where the tools read and what they make.
LEMMA Places ==
    ASSUME NEW job \in Jobs
    PROVE  /\ Source(job) \in Paths /\ Gguf(job) \in BOOLEAN
           /\ Gguf(job) => (CHOOSE d \in Outputs(job) : TRUE) \in Models
           /\ ~Gguf(job) => job \in {"extract", "inventory"}
<1> USE DEF Source, Gguf, Outputs, Tools, Paths, Sources, Models, Safe, Ggufs
<1>1. CASE job = "extract"
  BY <1>1 DEF Extract
<1>2. CASE job = "inventory"
  BY <1>2 DEF Inventory
<1>3. CASE job = "backbone"
  <2>1. (CHOOSE d \in {"dino_gguf"} : TRUE) \in {"dino_gguf"}
    BY Zenon
  <2> QED
    BY <1>3, <2>1 DEF Backbone
<1>4. CASE job = "branch"
  <2>1. (CHOOSE d \in {"branch_gguf"} : TRUE) \in {"branch_gguf"}
    BY Zenon
  <2> QED
    BY <1>4, <2>1 DEF Branch
<1>5. CASE job = "mhr"
  <2>1. (CHOOSE d \in {"mhr_gguf"} : TRUE) \in {"mhr_gguf"}
    BY Zenon
  <2> QED
    BY <1>5, <2>1 DEF Mhr
<1> QED
  BY <1>1, <1>2, <1>3, <1>4, <1>5, JobNames

\* The version of a file, and what an open source gives.
LEMMA VersionTypes ==
    ASSUME FilesTypeOK
    PROVE  /\ \A path \in Paths : Version(path) \in Versions \cup {None}
           /\ \A path \in Paths : Exists(path) => Version(path) \in Versions
           /\ \A path \in Paths : Exists(path) <=> fs[path] # None
  BY DEF FilesTypeOK, FileType, Version, Exists

\* The list of reports to write is typed.
LEMMA Lists ==
    ASSUME NEW left \in Seq(Reports \X Versions)
    PROVE  /\ left # <<>> => /\ Head(left) \in Reports \X Versions
                             /\ Tail(left) \in Seq(Reports \X Versions)
                             /\ Len(left) # 1 => Tail(left) # <<>>
           /\ \A e \in Reports \X Versions : /\ Append(left, e) \in Seq(Reports \X Versions)
                                             /\ Append(left, e) # <<>>
                                             /\ <<e>> \in Seq(Reports \X Versions)
<1> DEFINE S == Reports \X Versions
<1> HIDE DEF S
<1> SUFFICES ASSUME left \in Seq(S)
             PROVE  /\ left # <<>> => Head(left) \in S /\ Tail(left) \in Seq(S)
                                      /\ (Len(left) # 1 => Tail(left) # <<>>)
                    /\ \A e \in S : /\ Append(left, e) \in Seq(S) /\ Append(left, e) # <<>>
                                    /\ <<e>> \in Seq(S)
  BY DEF S
<1>1. left # <<>> => Head(left) \in S /\ Tail(left) \in Seq(S) /\ (Len(left) # 1 => Tail(left) # <<>>)
  <2> SUFFICES ASSUME left # <<>>
               PROVE  Head(left) \in S /\ Tail(left) \in Seq(S) /\ (Len(left) # 1 => Tail(left) # <<>>)
    OBVIOUS
  <2>1. Head(left) \in S /\ Tail(left) \in Seq(S) /\ Len(Tail(left)) = Len(left) - 1
    BY HeadTailProperties
  <2>2. ASSUME Len(left) # 1, Tail(left) = <<>> PROVE FALSE
    <3>1. Len(left) \in Nat /\ Len(<<>>) = 0
      OBVIOUS
    <3>2. Len(Tail(left)) = 0
      BY <2>2, <3>1
    <3> HIDE DEF S
    <3> QED
      BY <2>1, <2>2, <3>1, <3>2
  <2> QED
    BY <2>1, <2>2
<1>2. \A e \in S : Append(left, e) \in Seq(S) /\ Append(left, e) # <<>> /\ <<e>> \in Seq(S)
  BY AppendProperties
<1> QED
  BY <1>1, <1>2

\* What a tool at one step needs of the others and leaves to them: it goes on
\* as new, the files that exist stay, and the files it changes are typed.
LEMMA OneMoves ==
    ASSUME FilesInv, NEW p \in Procs, NEW new \in ProcType,
           proc' = [proc EXCEPT ![p] = new],
           new.pc = "idle" \/ (Placed(new) /\ Equipped(new, fs') /\ Complete(new)),
           \A path \in Paths : fs[path] # None => fs'[path] # None
    PROVE  Steady' /\ proc' \in [Procs -> ProcType]
<1>1. proc \in [Procs -> ProcType]
  BY DEF FilesInv, FilesTypeOK, ProcType
<1>2. proc' \in [Procs -> ProcType]
  BY <1>1
<1>3. ASSUME NEW q \in Procs, proc'[q].pc # "idle"
      PROVE  Placed(proc'[q]) /\ Equipped(proc'[q], fs') /\ Complete(proc'[q])
  <2>1. CASE q = p
    BY <1>1, <1>3, <2>1
  <2>2. CASE q # p
    <3>1. proc'[q] = proc[q]
      BY <1>1, <2>2
    <3>2. Placed(proc[q]) /\ Equipped(proc[q], fs) /\ Complete(proc[q])
      BY <1>3, <3>1 DEF FilesInv, Steady
    <3>3. Source(proc[q].job) \in Paths
      BY <3>2, Places DEF Placed
    <3>4. proc[q].pc = "dump" => Head(proc[q].left)[1] \in Paths
      <4>1. SUFFICES ASSUME proc[q].pc = "dump" PROVE Head(proc[q].left)[1] \in Paths
        OBVIOUS
      <4>2. proc[q].left \in Seq(Reports \X Versions) /\ proc[q].left # <<>>
        BY <1>1, <3>2, <4>1 DEF ProcType, Equipped, Reporting
      <4>3. Head(proc[q].left) \in Reports \X Versions
        BY <4>2, Lists
      <4> QED
        BY <4>3 DEF Paths
    <3> QED
      BY <3>1, <3>2, <3>3, <3>4 DEF Equipped
  <2> QED
    BY <2>1, <2>2
<1> QED
  BY <1>2, <1>3 DEF Steady

\* A step that changes no file.
LEMMA OnlyMoves ==
    ASSUME FilesInv, NEW p \in Procs, NEW new \in ProcType,
           proc' = [proc EXCEPT ![p] = new],
           new.pc = "idle" \/ (Placed(new) /\ Equipped(new, fs) /\ Complete(new)),
           UNCHANGED <<fs, edits, twice>>, starts' \in 0..MaxStarts
    PROVE  FilesInv'
<1>1. Steady' /\ proc' \in [Procs -> ProcType]
  BY OneMoves
<1> QED
  BY <1>1 DEF FilesInv, FilesTypeOK, ProcType, NothingPartial, Exists

\* The state of one tool.
LEMMA OfOne ==
    ASSUME FilesInv, NEW p \in Procs
    PROVE  /\ proc[p] \in ProcType
           /\ proc[p].pc # "idle" => /\ Placed(proc[p]) /\ Equipped(proc[p], fs)
                                     /\ Complete(proc[p])
  BY DEF FilesInv, FilesTypeOK, ProcType, Steady

\* A tool starts at the beginning of its flow, with a name to write or a list of reports.
LEMMA StartStep ==
    ASSUME FilesInv, NEW p \in Procs, NEW job \in Jobs, Start(p, job)
    PROVE  FilesInv'
<1> DEFINE dest == IF job = "extract" THEN "backbone_safe"
                   ELSE IF Gguf(job) THEN CHOOSE d \in Outputs(job) : TRUE ELSE None
           left == IF job = "inventory" THEN <<<<"inventory", "pinned">>>> ELSE <<>>
           new  == Begun(job)
<1>1. new = [job |-> job, pc |-> "open", src |-> None, dest |-> dest, temp |-> NoTemp,
             k |-> 0, expect |-> Expected(job), left |-> left]
  BY DEF Begun
<1>2. dest \in Models \cup {None} /\ (job # "inventory" => dest \in Models)
  BY Places DEF Models, Safe
<1>3. left \in Seq(Reports \X Versions) /\ (job = "inventory" => left # <<>>)
  BY DEF Reports, Versions
<1>4. Expected(job) \in Versions \cup {None}
  BY VersionTypes DEF FilesInv, Expected, Paths, Reports, Versions
<1>5. NoTemp \in [ver : Versions \cup {None}, size : Nat] /\ 0 \in 0..Len(Elements)
  BY FilesAssumption DEF FilesAssumption, NoTemp
<1>6. new \in ProcType
  BY <1>1, <1>2, <1>3, <1>4, <1>5 DEF ProcType, PCs
<1>7. Placed(new) /\ Equipped(new, fs) /\ Complete(new)
  <2>1. Placed(new)
    BY <1>1, Flows DEF Placed
  <2>2. Equipped(new, fs)
    BY <1>1, <1>2, <1>3, FilesAssumption DEF Equipped, Reporting, FilesAssumption
  <2>3. Complete(new)
    BY <1>1 DEF Complete
  <2> QED
    BY <2>1, <2>2, <2>3
<1>8. starts' \in 0..MaxStarts
  BY FilesAssumption DEF FilesAssumption, Start, FilesInv, FilesTypeOK
<1>9. proc' = [proc EXCEPT ![p] = new] /\ UNCHANGED <<fs, edits, twice>>
  BY DEF Start
<1> HIDE DEF new
<1> QED
  BY <1>6, <1>7, <1>8, <1>9, OnlyMoves

\* Reading and writing the temporary file, and the checks of the source.
LEMMA StreamingSteps ==
    ASSUME FilesInv, NEW p \in Procs,
           Open(p) \/ Begin(p) \/ Stream(p) \/ Sync(p) \/ Readback(p) \/ Rehash(p) \/ Recheck(p)
    PROVE  FilesInv'
<1> DEFINE me == proc[p]
<1>0. me \in ProcType /\ proc \in [Procs -> ProcType] /\ me.pc # "idle"
      /\ Placed(me) /\ Equipped(me, fs) /\ Complete(me)
  <2>1. me.pc # "idle"
    BY DEF Open, Begin, Stream, Sync, Readback, Rehash, Recheck
  <2> QED
    BY <2>1, OfOne DEF FilesInv, FilesTypeOK, ProcType
<1>1. me.job \in Jobs /\ me.pc \in DOMAIN Tools[me.job].flow
  BY <1>0 DEF Placed
<1>2. Then(p) \in DOMAIN Tools[me.job].flow \cup {"idle"} /\ Then(p) \in PCs
  BY <1>1, Flows DEF Then, PCs
<1>3. starts' \in 0..MaxStarts /\ UNCHANGED <<fs, edits, twice>>
  BY DEF Open, Begin, Stream, Sync, Readback, Rehash, Recheck, FilesInv, FilesTypeOK
<1>4. CASE Open(p)
  <2> DEFINE new == [me EXCEPT !.src = "live", !.pc = Then(p)]
  <2>1. proc' = [proc EXCEPT ![p] = new]
    BY <1>0, <1>4 DEF Open
  <2>2. new \in ProcType
    BY <1>0, <1>2 DEF ProcType
  <2>3. Then(p) = (IF me.job = "inventory" THEN "recheck" ELSE "begin")
    BY <1>1, <1>4, Follows DEF Then, Open
  <2>4. Placed(new) /\ Complete(new)
    BY <1>0, <1>1, <1>2, <2>3 DEF Placed, Complete, ProcType
  <2>5. fs[Source(me.job)] # None
    BY <1>4 DEF Open, Exists
  <2>6. Equipped(new, fs)
    BY <1>0, <1>4, <2>3, <2>5, FilesAssumption DEF Equipped, ProcType, Reporting, Open, FilesAssumption
  <2> HIDE DEF new
  <2> QED
    BY <1>3, <2>1, <2>2, <2>4, <2>6, OnlyMoves
<1>5. CASE Begin(p)
  <2> DEFINE new == [me EXCEPT !.pc = Then(p), !.k = 0,
                               !.temp = [ver |-> None, size |-> HeaderBytes]]
  <2>1. proc' = [proc EXCEPT ![p] = new]
    BY <1>0, <1>5 DEF Begin
  <2>2. new \in ProcType
    <3>1. /\ [ver |-> None, size |-> HeaderBytes] \in [ver : Versions \cup {None}, size : Nat]
          /\ 0 \in 0..Len(Elements)
      BY FilesAssumption DEF FilesAssumption
    <3> QED
      BY <1>0, <1>2, <3>1 DEF ProcType
  <2>3. Then(p) = "stream" /\ me.job # "inventory"
    BY <1>1, <1>5, Follows DEF Then, Begin
  <2>4. Placed(new) /\ Complete(new)
    BY <1>0, <1>1, <1>2, <2>3 DEF Placed, Complete, ProcType
  <2>5. 0 < Len(Elements)
    BY FilesAssumption DEF FilesAssumption
  <2>6. Equipped(new, fs)
    BY <1>0, <1>5, <2>3, <2>5 DEF Equipped, ProcType, Reporting, Begin
  <2> HIDE DEF new
  <2> QED
    BY <1>3, <2>1, <2>2, <2>4, <2>6, OnlyMoves
<1>6. CASE Stream(p)
  <2> DEFINE n == 4 * Elements[me.k + 1]
             temp == [ver |-> Mix(me.temp.ver, Read(p)), size |-> me.temp.size + n + Padding(me.job, n)]
             pc == IF me.k + 1 = Len(Elements) THEN Then(p) ELSE "stream"
             new == [me EXCEPT !.temp = temp, !.k = @ + 1, !.pc = pc]
  <2>1. proc' = [proc EXCEPT ![p] = new]
    BY <1>0, <1>6 DEF Stream, ProcType
  <2>2. me.pc = "stream" /\ me.k < Len(Elements) /\ me.k \in Nat
    BY <1>0, <1>6, FilesAssumption DEF Stream, Equipped, ProcType, FilesAssumption
  <2>3. Elements[me.k + 1] \in Nat /\ Len(Elements) \in Nat
    BY <2>2, FilesAssumption DEF FilesAssumption
  <2>4. n \in Nat /\ Padding(me.job, n) \in Nat
    <3>1. n \in Nat
      BY <2>3
    <3> HIDE DEF n
    <3>2. n % 32 \in 0..31
      BY <3>1
    <3>3. (32 - (n % 32)) % 32 \in Nat
      BY <3>2
    <3> QED
      BY <3>1, <3>3 DEF Padding, Alignment
  <2>5. Read(p) \in Versions
    <3>1. me.src \in Versions \/ me.src = "live"
      BY <1>0, <2>2 DEF Equipped, ProcType
    <3>2. CASE me.src = "live"
      BY <1>0, <1>1, <3>2, Places, VersionTypes DEF Equipped, Read, FilesInv
    <3>3. CASE me.src \in Versions
      BY <3>3 DEF Read, Versions
    <3> QED
      BY <3>1, <3>2, <3>3
  <2>6. temp \in [ver : Versions \cup {None}, size : Nat] /\ temp.ver \in Versions
    <3>1. Mix(me.temp.ver, Read(p)) \in Versions
      BY <2>5 DEF Mix, Versions
    <3>2. me.temp.size \in Nat
      BY <1>0 DEF ProcType
    <3> QED
      BY <2>4, <3>1, <3>2
  <2>7. Then(p) = "sync" /\ me.job # "inventory"
    BY <1>1, <2>2, Follows DEF Then
  <2>8. me.k + 1 \in 0..Len(Elements) /\ (me.k + 1 # Len(Elements) => me.k + 1 < Len(Elements))
    BY <2>2, <2>3
  <2>9. new \in ProcType
    <3>1. pc \in PCs
      BY <2>7 DEF PCs
    <3> HIDE DEF temp, pc
    <3> QED
      BY <1>0, <2>6, <2>8, <3>1 DEF ProcType
  <2>10. Placed(new) /\ Complete(new)
    BY <1>0, <1>1, <1>2, <2>2, <2>7 DEF Placed, Complete, ProcType
  <2>11. Equipped(new, fs)
    <3> HIDE DEF temp
    <3> QED
      BY <1>0, <2>2, <2>6, <2>7, <2>8 DEF Equipped, ProcType, Reporting
  <2> HIDE DEF new
  <2> QED
    BY <1>3, <2>1, <2>9, <2>10, <2>11, OnlyMoves
<1>7. CASE Sync(p) \/ Readback(p) \/ Rehash(p) \/ Recheck(p)
  <2> DEFINE new == [me EXCEPT !.pc = Then(p)]
  <2>1. proc' = [proc EXCEPT ![p] = new]
    BY <1>0, <1>7 DEF Sync, Readback, Rehash, Recheck, Step
  <2>2. new \in ProcType
    BY <1>0, <1>2 DEF ProcType
  <2>3. CASE Sync(p) \/ Readback(p) \/ Rehash(p)
    <3>1. Then(p) \in {"readback", "rehash", "link"} /\ me.job # "inventory"
      BY <1>1, <2>3, Follows DEF Then, Sync, Readback, Rehash
    <3>2. me.temp.size = HeaderBytes + Offset(me.job, Len(Elements))
      BY <1>0, <2>3 DEF Complete, Sync, Readback, Rehash
    <3>3. Placed(new) /\ Complete(new)
      BY <1>0, <1>1, <1>2, <3>1, <3>2 DEF Placed, Complete, ProcType
    <3>4. Equipped(new, fs)
      BY <1>0, <2>3, <3>1 DEF Equipped, ProcType, Reporting, Sync, Readback, Rehash
    <3> HIDE DEF new
    <3> QED
      BY <1>3, <2>1, <2>2, <3>3, <3>4, OnlyMoves
  <2>4. CASE Recheck(p)
    <3>1. Then(p) = "json"
      BY <1>1, <2>4, Follows DEF Then, Recheck
    <3>2. Placed(new) /\ Complete(new)
      BY <1>0, <1>1, <1>2, <3>1 DEF Placed, Complete, ProcType
    <3>3. Equipped(new, fs)
      BY <1>0, <2>4, <3>1 DEF Equipped, ProcType, Reporting, Recheck
    <3> HIDE DEF new
    <3> QED
      BY <1>3, <2>1, <2>2, <3>2, <3>3, OnlyMoves
  <2> QED
    BY <1>7, <2>3, <2>4
<1> QED
  BY <1>4, <1>5, <1>6, <1>7

\* os.link puts a complete file under a name that is free.
LEMMA LinkStep ==
    ASSUME FilesInv, NEW p \in Procs, Link(p)
    PROVE  FilesInv'
<1> DEFINE me   == proc[p]
           file == File(me.temp.ver, me.temp.size = HeaderBytes + Offset(me.job, Len(Elements)))
           new  == IF Then(p) = "idle" THEN Idle ELSE [me EXCEPT !.pc = Then(p), !.temp = NoTemp]
<1>0. /\ me \in ProcType /\ proc \in [Procs -> ProcType] /\ me.pc = "link"
      /\ Placed(me) /\ Equipped(me, fs) /\ Complete(me)
  <2>1. me.pc = "link"
    BY DEF Link
  <2> QED
    BY <2>1, OfOne DEF FilesInv, FilesTypeOK, ProcType
<1>1. me.job \in Jobs /\ "link" \in DOMAIN Tools[me.job].flow
  BY <1>0 DEF Placed
<1>2. Then(p) \in {"record", "idle"} /\ me.job # "inventory"
  BY <1>0, <1>1, Follows DEF Then
<1>3. Then(p) # "idle" => Then(p) \in DOMAIN Tools[me.job].flow
  BY <1>0, <1>1, Flows DEF Then
<1>4. me.dest \in Models /\ fs[me.dest] = None /\ me.dest \in Paths
  BY <1>0, <1>2 DEF Equipped, Link, Exists, Reporting, Models, Paths
<1>5. file \in FileType /\ file.whole
  BY <1>0 DEF File, FileType, Equipped, Complete
<1>6. fs' = [fs EXCEPT ![me.dest] = file] /\ proc' = [proc EXCEPT ![p] = new]
      /\ UNCHANGED <<starts, edits, twice>>
  BY <1>0 DEF Link, Linked
<1>7. fs \in [Paths -> FileType \cup {None}] /\ fs' \in [Paths -> FileType \cup {None}]
  <2> HIDE DEF file
  <2> QED
    BY <1>5, <1>6 DEF FilesInv, FilesTypeOK
<1>8. \A path \in Paths : fs[path] # None => fs'[path] # None
  <2> HIDE DEF file
  <2> QED
    BY <1>4, <1>6, <1>7
<1>9. NoTemp \in [ver : Versions \cup {None}, size : Nat] /\ Idle \in ProcType
  BY FilesAssumption DEF NoTemp, Idle, ProcType, PCs, FilesAssumption
<1>10. new \in ProcType
  <2>1. CASE Then(p) = "idle"
    BY <1>9, <2>1
  <2>2. CASE Then(p) = "record"
    <3>1. [me EXCEPT !.pc = Then(p), !.temp = NoTemp] \in ProcType
      <4> HIDE DEF file
      <4>1. NoTemp \in [ver : Versions \cup {None}, size : Nat]
        BY <1>9
      <4> QED
        BY <1>0, <2>2, <4>1 DEF ProcType, PCs
    <3> QED
      BY <2>2, <3>1
  <2> QED
    BY <1>2, <2>1, <2>2
<1>11. new.pc = "idle" \/ (Placed(new) /\ Equipped(new, fs') /\ Complete(new))
  <2>1. CASE Then(p) = "idle"
    BY <2>1 DEF Idle
  <2>2. CASE Then(p) # "idle"
    <3>1. new = [me EXCEPT !.pc = "record", !.temp = NoTemp]
      BY <1>2, <2>2
    <3>2. Source(me.job) \in Paths
      BY <1>1, Places
    <3>3. Placed(new) /\ Complete(new)
      BY <1>0, <1>1, <1>2, <1>3, <2>2, <3>1 DEF Placed, Complete, ProcType
    <3>4. Equipped(new, fs')
      <4> HIDE DEF file
      <4> QED
        BY <1>0, <1>2, <1>4, <1>8, <3>1, <3>2 DEF Equipped, Reporting, ProcType
    <3> QED
      BY <3>3, <3>4
  <2> QED
    BY <2>1, <2>2
<1>12. Steady' /\ proc' \in [Procs -> ProcType]
  <2> HIDE DEF new, file
  <2> QED
    BY <1>6, <1>8, <1>10, <1>11, OneMoves
<1>13. NothingPartial'
  <2> HIDE DEF file
  <2> SUFFICES ASSUME NEW path \in Models, fs'[path] # None
               PROVE  fs'[path].whole
    BY DEF NothingPartial, Exists
  <2>1. path \in Paths
    BY DEF Paths, Models
  <2>2. CASE path = me.dest
    BY <1>5, <1>6, <1>7, <2>1, <2>2
  <2>3. CASE path # me.dest
    BY <1>6, <1>7, <2>1, <2>3 DEF FilesInv, NothingPartial, Exists
  <2> QED
    BY <2>2, <2>3
<1> QED
  <2> HIDE DEF file, new
  <2> QED
    BY <1>6, <1>7, <1>12, <1>13 DEF FilesInv, FilesTypeOK, ProcType

\* An extraction records its first half and goes on to the second, or to its reports.
LEMMA RecordStep ==
    ASSUME FilesInv, NEW p \in Procs, Record(p)
    PROVE  FilesInv'
<1> DEFINE me    == proc[p]
           first == [me EXCEPT !.pc = "begin", !.dest = "rest_safe",
                               !.left = <<<<"manifest", Version(me.dest)>>>>]
           last  == [me EXCEPT !.pc = Then(p), !.dest = None,
                               !.left = Append(@, <<"extraction", Version(me.dest)>>)]
<1>0. /\ me \in ProcType /\ proc \in [Procs -> ProcType] /\ me.pc = "record"
      /\ Placed(me) /\ Equipped(me, fs) /\ Complete(me)
  <2>1. me.pc = "record"
    BY DEF Record
  <2> QED
    BY <2>1, OfOne DEF FilesInv, FilesTypeOK, ProcType
<1>1. me.job = "extract" /\ Then(p) = "recheck" /\ me.job \in Jobs
  BY <1>0, Follows DEF Placed, Then
<1>2. {"begin", "recheck"} \subseteq DOMAIN Tools[me.job].flow
  BY <1>1 DEF Tools, Extract
<1>3. Version(me.dest) \in Versions
  <2>1. me.dest \in Models
    BY <1>0, <1>1 DEF Equipped, Reporting
  <2> QED
    BY <2>1, VersionTypes DEF FilesInv, Record, Models, Paths
<1>4. UNCHANGED <<fs, edits, twice>> /\ starts' \in 0..MaxStarts
  BY DEF Record, FilesInv, FilesTypeOK
<1>5. me.left \in Seq(Reports \X Versions)
  BY <1>0 DEF ProcType
<1>6. CASE me.dest = "backbone_safe"
  <2>1. proc' = [proc EXCEPT ![p] = first]
    BY <1>6 DEF Record
  <2> DEFINE l == <<<<"manifest", Version(me.dest)>>>>
  <2>2. l \in Seq(Reports \X Versions)
    BY <1>3, Lists, <1>5 DEF Reports
  <2>3. first \in ProcType
    <3> HIDE DEF l
    <3> QED
      BY <1>0, <2>2 DEF ProcType, PCs, Models, Safe, l
  <2>4. Placed(first) /\ Complete(first)
    BY <1>0, <1>1, <1>2 DEF Placed, Complete, ProcType
  <2>5. Equipped(first, fs)
    BY <1>0, <1>1 DEF Equipped, Reporting, ProcType, Models, Safe
  <2> HIDE DEF first
  <2> QED
    BY <1>4, <2>1, <2>3, <2>4, <2>5, OnlyMoves
<1>7. CASE me.dest # "backbone_safe"
  <2>1. proc' = [proc EXCEPT ![p] = last]
    BY <1>7 DEF Record
  <2> DEFINE l == Append(me.left, <<"extraction", Version(me.dest)>>)
  <2>2. l \in Seq(Reports \X Versions) /\ l # <<>>
    BY <1>3, <1>5, Lists DEF Reports
  <2>3. last \in ProcType
    <3> HIDE DEF l
    <3> QED
      BY <1>0, <1>1, <2>2 DEF ProcType, PCs, l
  <2>4. Placed(last) /\ Complete(last)
    BY <1>0, <1>1, <1>2 DEF Placed, Complete, ProcType
  <2>5. Equipped(last, fs)
    BY <1>0, <1>1, <2>2 DEF Equipped, Reporting, ProcType
  <2> HIDE DEF last
  <2> QED
    BY <1>4, <2>1, <2>3, <2>4, <2>5, OnlyMoves
<1> QED
  BY <1>6, <1>7

\* A report is opened and dumped; what is left to write stays a list of reports.
LEMMA JsonSteps ==
    ASSUME FilesInv, NEW p \in Procs, OpenJson(p) \/ DumpJson(p)
    PROVE  FilesInv'
<1> DEFINE me   == proc[p]
           next == Head(me.left)
<1>0. /\ me \in ProcType /\ proc \in [Procs -> ProcType] /\ me.pc \in {"json", "dump"}
      /\ Placed(me) /\ Equipped(me, fs) /\ Complete(me)
      /\ fs \in [Paths -> FileType \cup {None}]
  <2>1. me.pc \in {"json", "dump"}
    BY DEF OpenJson, DumpJson
  <2> QED
    BY <2>1, OfOne DEF FilesInv, FilesTypeOK, ProcType
<1>1. me.left \in Seq(Reports \X Versions) /\ me.left # <<>>
  BY <1>0 DEF ProcType, Equipped, Reporting
<1>2. next \in Reports \X Versions
  BY <1>1, Lists
<1>3. next[1] \in Reports /\ next[2] \in Versions
  BY <1>2
<1>4. next[1] \in Paths /\ next[1] \notin Models
  BY <1>3 DEF Reports, Paths, Models, Safe, Ggufs
<1>5. me.job \in Jobs /\ me.pc \in DOMAIN Tools[me.job].flow
  BY <1>0 DEF Placed
<1>6. Then(p) \in DOMAIN Tools[me.job].flow /\ Then(p) \in Reporting
  BY <1>0, <1>5, Follows, Flows DEF Then, Reporting
<1>7. ASSUME NEW new \in ProcType, NEW file \in FileType, proc' = [proc EXCEPT ![p] = new],
             new.pc = "idle" \/ (Placed(new) /\ Equipped(new, fs') /\ Complete(new)),
             fs' = [fs EXCEPT ![next[1]] = file],
             UNCHANGED <<starts, edits, twice>>
      PROVE  FilesInv'
  <2>1. fs' \in [Paths -> FileType \cup {None}]
    BY <1>0, <1>7
  <2>2. \A path \in Paths : fs[path] # None => fs'[path] # None
    BY <1>0, <1>7, FilesAssumption DEF FilesAssumption
  <2>3. Steady' /\ proc' \in [Procs -> ProcType]
    BY <1>7, <2>2, OneMoves
  <2>4. NothingPartial'
    BY <1>0, <1>4, <1>7 DEF FilesInv, NothingPartial, Exists, Models, Paths
  <2> QED
    BY <1>7, <2>1, <2>3, <2>4 DEF FilesInv, FilesTypeOK, ProcType
<1>8. CASE OpenJson(p)
  <2> DEFINE new == [me EXCEPT !.pc = Then(p)]
             file == File(next[2], FALSE)
  <2>1. proc' = [proc EXCEPT ![p] = new] /\ UNCHANGED <<starts, edits, twice>>
    BY <1>0, <1>8 DEF OpenJson, Step
  <2>2. file \in FileType
    BY <1>3 DEF File, FileType
  <2>3. fs' = [fs EXCEPT ![next[1]] = file]
    BY <1>8 DEF OpenJson
  <2>4. new \in ProcType
    BY <1>0, <1>6 DEF ProcType, PCs, Reporting
  <2>5. fs'[next[1]] # None /\ \A path \in Paths : fs[path] # None => fs'[path] # None
    <3> HIDE DEF file
    <3> QED
      BY <1>0, <1>4, <2>2, <2>3, FilesAssumption DEF FilesAssumption
  <2>6. Placed(new) /\ Complete(new)
    BY <1>0, <1>5, <1>6 DEF Placed, Complete, Reporting, ProcType
  <2>7. Equipped(new, fs')
    <3>1. Source(me.job) \in Paths
      BY <1>5, Places
    <3> HIDE DEF file
    <3> QED
      BY <1>0, <1>1, <1>6, <2>5, <3>1 DEF Equipped, Reporting, ProcType
  <2> HIDE DEF new, file
  <2> QED
    BY <1>7, <2>1, <2>2, <2>3, <2>4, <2>6, <2>7
<1>9. CASE DumpJson(p)
  <2> DEFINE on   == [me EXCEPT !.pc = Then(p), !.left = Tail(@)]
             new  == IF Len(me.left) = 1 THEN Idle ELSE on
             file == [fs[next[1]] EXCEPT !.whole = TRUE]
  <2>1. proc' = [proc EXCEPT ![p] = new] /\ UNCHANGED <<starts, edits, twice>>
    BY <1>9 DEF DumpJson
  <2>2. me.pc = "dump" /\ Then(p) = "json"
    BY <1>5, <1>9, Follows DEF DumpJson, Then
  <2>3. fs[next[1]] \in FileType
    BY <1>0, <1>4, <2>2 DEF Equipped
  <2>4. file \in FileType
    BY <2>3 DEF FileType
  <2>5. fs' = [fs EXCEPT ![next[1]] = file]
    BY <1>0, <1>4, <1>9 DEF DumpJson
  <2>6. Idle \in ProcType
    <3>1. 0 \in 0..Len(Elements) /\ NoTemp \in [ver : Versions \cup {None}, size : Nat]
      BY FilesAssumption DEF FilesAssumption, NoTemp
    <3> QED
      BY <3>1 DEF Idle, ProcType, PCs
  <2>7. on \in ProcType
    <3> DEFINE l == Tail(me.left)
    <3>1. l \in Seq(Reports \X Versions)
      BY <1>1, Lists
    <3> HIDE DEF l
    <3> QED
      BY <1>0, <2>2, <3>1 DEF ProcType, PCs, l
  <2>8. CASE Len(me.left) = 1
    <3>1. new = Idle /\ new.pc = "idle"
      BY <2>8 DEF Idle
    <3> HIDE DEF new, file
    <3> QED
      BY <1>7, <2>1, <2>4, <2>5, <2>6, <3>1
  <2>9. CASE Len(me.left) # 1
    <3>1. Tail(me.left) # <<>> /\ new = on
      BY <1>1, <2>9, Lists
    <3>2. Placed(on) /\ Complete(on)
      BY <1>0, <1>5, <1>6, <2>2 DEF Placed, Complete, Reporting, ProcType
    <3>3. \A path \in Paths : fs[path] # None => fs'[path] # None
      <4> HIDE DEF file
      <4> QED
        BY <1>0, <2>4, <2>5, FilesAssumption DEF FilesAssumption
    <3>4. Source(me.job) \in Paths
      BY <1>5, Places
    <3>5. Equipped(on, fs')
      <4> HIDE DEF file
      <4> QED
        BY <1>0, <2>2, <3>1, <3>3, <3>4 DEF Equipped, Reporting, ProcType
    <3> HIDE DEF new, on, file
    <3> QED
      BY <1>7, <2>1, <2>4, <2>5, <2>7, <3>1, <3>2, <3>5
  <2> QED
    BY <2>8, <2>9
<1> QED
  BY <1>8, <1>9

\* A tool that raises or is killed takes its temporary file with it.
LEMMA StopStep ==
    ASSUME FilesInv, NEW p \in Procs, Stop(p)
    PROVE  FilesInv'
<1>1. Idle \in ProcType
  <2>1. 0 \in 0..Len(Elements) /\ NoTemp \in [ver : Versions \cup {None}, size : Nat]
    BY FilesAssumption DEF FilesAssumption, NoTemp
  <2> QED
    BY <2>1 DEF Idle, ProcType, PCs
<1>2. Idle.pc = "idle"
  BY DEF Idle
<1> QED
  BY <1>1, <1>2, OnlyMoves DEF Stop, FilesInv, FilesTypeOK

\* What else writes into the directory leaves complete files.
LEMMA ChangeStep ==
    ASSUME FilesInv, NEW path \in Editable, NEW ver \in {"pinned", "alike", "broken"},
           Edit(path, ver) \/ Replace(path, ver)
    PROVE  FilesInv'
<1> DEFINE file == [ver |-> ver, whole |-> TRUE, edits |-> fs[path].edits + 1]
<1>0. /\ proc \in [Procs -> ProcType] /\ fs \in [Paths -> FileType \cup {None}]
      /\ path \in Paths /\ fs[path] # None /\ fs[path] \in FileType
  BY FilesAssumption DEF FilesAssumption, FilesInv, FilesTypeOK, ProcType, Edit, Replace, Changed, Exists
<1>1. file \in FileType /\ file.whole
  BY <1>0 DEF FileType, Versions
<1>2. fs' = [fs EXCEPT ![path] = file] /\ starts' = starts
      /\ edits' \in 0..MaxEdits /\ twice' \in BOOLEAN
  <2>1. Changed(path, ver)
    BY DEF Edit, Replace
  <2>2. fs' = [fs EXCEPT ![path] = file]
    BY <1>0, <2>1 DEF Changed
  <2>3. starts' = starts /\ edits' \in 0..MaxEdits
    BY <2>1, FilesAssumption DEF Changed, FilesInv, FilesTypeOK, FilesAssumption
  <2>4. twice' \in BOOLEAN
    BY <2>1, Zenon DEF Changed
  <2> QED
    BY <2>2, <2>3, <2>4
<1> HIDE DEF file
<1>3. fs' \in [Paths -> FileType \cup {None}] /\ \A q \in Paths : fs[q] # None => fs'[q] # None
  BY <1>0, <1>1, <1>2, FilesAssumption DEF FilesAssumption
<1>4. proc' \in [Procs -> ProcType]
      /\ \A q \in Procs : proc'[q] = proc[q]
                          \/ (/\ proc'[q] = [proc[q] EXCEPT !.src = Version(path)]
                              /\ Version(path) \in Versions)
  <2>1. CASE Edit(path, ver)
    BY <1>0, <2>1 DEF Edit
  <2>2. CASE Replace(path, ver)
    <3>1. Version(path) \in Versions
      BY <1>0, VersionTypes DEF FilesInv
    <3>2. \A q \in Procs : [proc[q] EXCEPT !.src = Version(path)] \in ProcType
      BY <1>0, <3>1 DEF ProcType
    <3> QED
      BY <1>0, <2>2, <3>1, <3>2 DEF Replace
  <2> QED
    BY <2>1, <2>2
<1>5. ASSUME NEW q \in Procs, proc'[q].pc # "idle"
      PROVE  Placed(proc'[q]) /\ Equipped(proc'[q], fs') /\ Complete(proc'[q])
  <2>1. proc'[q].pc = proc[q].pc /\ proc'[q].job = proc[q].job /\ proc'[q].temp = proc[q].temp
        /\ proc'[q].dest = proc[q].dest /\ proc'[q].left = proc[q].left /\ proc'[q].k = proc[q].k
    <3>1. CASE proc'[q] = proc[q]
      BY <3>1
    <3>2. CASE proc'[q] = [proc[q] EXCEPT !.src = Version(path)]
      BY <1>0, <3>2 DEF ProcType
    <3> QED
      BY <1>4, <3>1, <3>2
  <2>2. proc'[q].src = proc[q].src \/ proc'[q].src \in Versions
    BY <1>0, <1>4 DEF ProcType
  <2>3. Placed(proc[q]) /\ Equipped(proc[q], fs) /\ Complete(proc[q])
    BY <1>5, <2>1, OfOne
  <2>4. Source(proc[q].job) \in Paths
    BY <2>3, Places DEF Placed
  <2>5. proc[q].pc = "dump" => Head(proc[q].left)[1] \in Paths
    <3> SUFFICES ASSUME proc[q].pc = "dump" PROVE Head(proc[q].left)[1] \in Paths
      OBVIOUS
    <3>1. proc[q].left \in Seq(Reports \X Versions) /\ proc[q].left # <<>>
      BY <1>0, <2>3 DEF ProcType, Equipped, Reporting
    <3>2. Head(proc[q].left) \in Reports \X Versions
      BY <3>1, Lists
    <3> QED
      BY <3>2 DEF Paths
  <2>6. None \notin Versions /\ "live" \notin Versions
    BY FilesAssumption DEF FilesAssumption, Versions
  <2>7. Placed(proc'[q]) /\ Complete(proc'[q])
    BY <2>1, <2>3 DEF Placed, Complete
  <2>8. Equipped(proc'[q], fs')
    BY <1>3, <2>1, <2>2, <2>3, <2>4, <2>5, <2>6 DEF Equipped
  <2> QED
    BY <2>7, <2>8
<1>6. NothingPartial'
  BY <1>0, <1>1, <1>2 DEF FilesInv, NothingPartial, Exists, Models, Paths
<1> QED
  BY <1>2, <1>3, <1>4, <1>5, <1>6 DEF FilesInv, FilesTypeOK, ProcType, Steady

-----------------------------------------------------------------------------

\* At the start no tool runs and every file is complete.
LEMMA InvInit == Init => FilesInv
<1> SUFFICES ASSUME Init PROVE FilesInv
  OBVIOUS
<1>1. Idle \in ProcType /\ Idle.pc = "idle"
  <2>1. 0 \in 0..Len(Elements) /\ NoTemp \in [ver : Versions \cup {None}, size : Nat]
    BY FilesAssumption DEF FilesAssumption, NoTemp
  <2> QED
    BY <2>1 DEF Idle, ProcType, PCs
<1>2. File("pinned", TRUE) \in FileType /\ File("pinned", TRUE).whole
  BY DEF File, FileType, Versions
<1>3. fs \in [Paths -> FileType \cup {None}] /\ NothingPartial
  BY <1>2 DEF Init, NothingPartial, Exists, Models, Paths
<1>4. proc \in [Procs -> ProcType] /\ Steady
  BY <1>1 DEF Init, Steady
<1>5. starts \in 0..MaxStarts /\ edits \in 0..MaxEdits /\ twice \in BOOLEAN
  <2>1. starts = 0 /\ edits = 0 /\ twice = FALSE
    BY DEF Init
  <2>2. MaxStarts \in Nat /\ MaxEdits \in Nat
    BY FilesAssumption DEF FilesAssumption
  <2>3. starts \in 0..MaxStarts /\ edits \in 0..MaxEdits
    BY <2>1, <2>2
  <2>4. twice \in BOOLEAN
    BY Zenon DEF Init
  <2> QED
    BY <2>3, <2>4
<1> QED
  BY <1>3, <1>4, <1>5 DEF FilesInv, FilesTypeOK, ProcType

\* Every step of a tool.
LEMMA ToolStep ==
    ASSUME FilesInv, NEW p \in Procs, Tool(p)
    PROVE  FilesInv'
  BY StartStep, StreamingSteps, LinkStep, RecordStep, JsonSteps, StopStep DEF Tool

\* Every step of ModelFiles keeps the invariant.
LEMMA InvStep == FilesInv /\ [Next]_files => FilesInv'
<1> SUFFICES ASSUME FilesInv, [Next]_files PROVE FilesInv'
  OBVIOUS
<1>1. CASE UNCHANGED files
  BY <1>1 DEF files, FilesInv, FilesTypeOK, ProcType, Steady, NothingPartial, Exists
<1>2. ASSUME NEW p \in Procs, Tool(p) PROVE FilesInv'
  BY <1>2, ToolStep
<1>3. CASE Elsewhere
  BY <1>3, ChangeStep DEF Elsewhere
<1> QED
  BY <1>1, <1>2, <1>3 DEF Next

\* No tool changes what it finds under a name, except that a report it has just
\* opened becomes complete.
LEMMA ToolKeeps ==
    ASSUME FilesInv, NEW p \in Procs, Tool(p), NEW path \in Paths, fs[path] # None
    PROVE  /\ fs'[path] = (IF path \in Reports THEN [fs[path] EXCEPT !.whole = fs'[path].whole]
                           ELSE fs[path])
           /\ fs'[path] \in FileType
<1>0. fs \in [Paths -> FileType \cup {None}] /\ fs[path] \in FileType
  BY DEF FilesInv, FilesTypeOK
<1>1. CASE fs'[path] = fs[path]
  BY <1>0, <1>1 DEF FileType
<1>2. CASE Link(p)
  <2>1. proc[p].dest # path /\ fs' = [fs EXCEPT ![proc[p].dest] = fs'[proc[p].dest]]
    BY <1>0, <1>2 DEF Link, Linked, Exists
  <2> QED
    BY <1>0, <1>1, <2>1
<1>3. CASE OpenJson(p)
  <2>1. Head(proc[p].left)[1] # path
    BY <1>3 DEF OpenJson, Exists
  <2>2. fs'[path] = fs[path]
    BY <1>0, <1>3, <2>1 DEF OpenJson
  <2> QED
    BY <1>1, <2>2
<1>4. CASE DumpJson(p)
  <2>1. proc[p].left \in Seq(Reports \X Versions) /\ proc[p].left # <<>>
    BY <1>4, OfOne DEF ProcType, Equipped, Reporting, DumpJson
  <2>2. Head(proc[p].left)[1] \in Reports
    BY <2>1, Lists
  <2>3. CASE Head(proc[p].left)[1] = path
    BY <1>0, <1>4, <2>2, <2>3 DEF DumpJson, FileType
  <2>4. CASE Head(proc[p].left)[1] # path
    <3>1. fs'[path] = fs[path]
      BY <1>0, <1>4, <2>4 DEF DumpJson
    <3> QED
      BY <1>1, <3>1
  <2> QED
    BY <2>3, <2>4
<1>5. CASE UNCHANGED fs
  BY <1>1, <1>5
<1> QED
  BY <1>2, <1>3, <1>4, <1>5 DEF Tool, Start, Open, Begin, Stream, Sync, Readback, Rehash,
     Record, Recheck, Stop

\* The directory, the tools and their temporary files keep their types: no tool
\* takes a step that its flow does not have, or writes what it does not hold.
THEOREM FilesTypes == Spec => []FilesTypeOK
<1>1. FilesInv => FilesTypeOK
  BY DEF FilesInv
<1> QED
  BY <1>1, InvInit, InvStep, PTL DEF Spec

-----------------------------------------------------------------------------
(* The upload beside the tools                                             *)

PubPCs == {"idle", "open", "hash", "docs", "more", "state", "check", "parent", "add", "commit"}

Snapshot == [commit : Nat, docs : Nat]

PubType ==
    /\ pub \in [pc : PubPCs, upload : BOOLEAN, create : BOOLEAN, k : 0..3,
                kept : [Components -> FileType \cup {None}], before : [Components -> Nat],
                docs : Nat, source : Snapshot \cup {None}, parent : Nat]
    /\ checkout \in Snapshot
    /\ remote \in [exists : BOOLEAN, head : Nat,
                   bundle : [models : [Components -> Versions], docs : Nat, source : Nat] \cup {None}]
    /\ late \in BOOLEAN /\ moved \in BOOLEAN

\* The script has opened the model, and has hashed it.
Taken(c)    == pub.pc # "idle" /\ \E i \in 1..3 :
                  Order[i] = c /\ i < pub.k + (IF pub.pc = "open" THEN 0 ELSE 1)
Digested(c) == pub.pc # "idle" /\ \E i \in 1..3 :
                  Order[i] = c /\ i < pub.k + (IF pub.pc \in {"open", "hash"} THEN 0 ELSE 1)

\* The open streams against what was seen when they were opened and hashed.
Handles ==
    \A c \in Components :
        /\ Taken(c) => OpenFile(c) \in FileType /\ OpenFile(c).edits >= pub.before[c]
        /\ ~Taken(c) => pub.kept[c] = None
        /\ Digested(c) /\ Unchanged(c) => OpenFile(c).ver = "pinned"

\* Where the script can be, and what it has looked at there.
Progress ==
    /\ pub.pc \in {"open", "hash"} => pub.k \in 1..3
    /\ pub.pc \in PubPCs \ {"idle", "open", "hash"} => pub.k = 3
    /\ pub.pc = "commit" /\ ~late => \A c \in Components : Unchanged(c)

\* The documents in hand.
Documents ==
    /\ pub.pc \in {"more", "state"} /\ ~moved => pub.docs = checkout.docs
    /\ pub.pc \in {"check", "parent", "add", "commit"} =>
           pub.source \in Snapshot /\ (~moved => pub.docs = pub.source.docs)
    /\ pub.pc \in {"parent", "add", "commit"} => Clean(pub.source)

Published == RemoteIsApproved /\ BundleIsConsistent

PubInv == FilesInv /\ PubType /\ Handles /\ Progress /\ Documents /\ Published

\* The order of the components names each of them once.
LEMMA Ordered ==
    /\ Len(Order) = 3
    /\ \A i \in 1..3 : Order[i] \in Components
    /\ \A i, j \in 1..3 : Order[i] = Order[j] => i = j
    /\ \A c \in Components : \E i \in 1..3 : Order[i] = c
<1>1. Len(Order) = 3 /\ Order[1] = "dino_gguf" /\ Order[2] = "branch_gguf" /\ Order[3] = "mhr_gguf"
  BY DEF Order
<1>2. 1..3 = {1, 2, 3}
  OBVIOUS
<1> QED
  BY <1>1, <1>2 DEF Components, Ggufs

\* The tools' own invariant beside the script.
LEMMA FilesBeside ==
    ASSUME FilesInv, [PubNext]_vars
    PROVE  FilesInv'
<1>1. ASSUME UNCHANGED files PROVE FilesInv'
  BY <1>1 DEF files, FilesInv, FilesTypeOK, ProcType, Steady, NothingPartial, Exists
<1>2. ASSUME NEW upload \in BOOLEAN, NEW create \in BOOLEAN, Prepare(upload, create)
      PROVE  FilesInv'
  <2>1. starts' \in 0..MaxStarts /\ UNCHANGED <<fs, proc, edits, twice>>
    BY <1>2, FilesAssumption DEF Prepare, FilesInv, FilesTypeOK, FilesAssumption
  <2> QED
    BY <2>1 DEF FilesInv, FilesTypeOK, ProcType, Steady, NothingPartial, Exists
<1>3. ASSUME NEW p \in Procs, Tool(p) PROVE FilesInv'
  BY <1>3, ToolStep
<1>4. ASSUME NEW path \in Editable, NEW ver \in {"pinned", "alike", "broken"},
             EditFile(path, ver) \/ ReplaceFile(path, ver)
      PROVE  FilesInv'
  BY <1>4, ChangeStep DEF EditFile, ReplaceFile
<1> QED
  BY <1>1, <1>2, <1>3, <1>4 DEF PubNext, Publish, vars, OpenModel, HashModel, ReadDocuments,
     ReadState, CheckSource, FindParent, AddModels, Commit, GiveUp, MoveCheckout, MoveRemote

\* The script is idle and nothing is published.
LEMMA PubStarts == PubInit => PubInv
<1> SUFFICES ASSUME PubInit PROVE PubInv
  OBVIOUS
<1>1. FilesInv
  BY InvInit DEF PubInit
<1>2. PubType
  <2>1. pub = Quiet /\ checkout = [commit |-> 1, docs |-> 1] /\ moved = FALSE /\ late = FALSE
        /\ remote = [exists |-> FALSE, head |-> 0, bundle |-> None]
    BY Zenon DEF PubInit
  <2>2. late \in BOOLEAN /\ moved \in BOOLEAN
    BY <2>1, Zenon
  <2>3. checkout \in Snapshot
    BY <2>1 DEF Snapshot
  <2>4. remote.bundle = None /\ remote \in [exists : BOOLEAN, head : Nat, bundle : {None}]
    BY <2>1
  <2>5. Quiet \in [pc : {"idle"}, upload : BOOLEAN, create : BOOLEAN, k : 0..3,
                   kept : [Components -> {None}], before : [Components -> Nat],
                   docs : Nat, source : {None}, parent : Nat]
    BY DEF Quiet
  <2> QED
    BY <2>1, <2>2, <2>3, <2>4, <2>5 DEF PubType, PubPCs
<1>3. pub.pc = "idle" /\ remote.bundle = None /\ \A c \in Components : pub.kept[c] = None
  BY DEF PubInit, Quiet
<1> QED
  BY <1>1, <1>2, <1>3 DEF PubInv, Handles, Taken, Digested, Progress, Documents, Published,
     RemoteIsApproved, BundleIsConsistent

-----------------------------------------------------------------------------
(* Steps of the surroundings                                               *)

\* A step that leaves the script where it is and no open stream other than it
\* was keeps the invariant.
LEMMA StreamsKept ==
    ASSUME PubInv, FilesInv', PubType', 
           pub' = [pub EXCEPT !.kept = pub'.kept],
           \A c \in Components : Taken(c) => OpenFile(c)' = OpenFile(c),
           \A c \in Components : ~Taken(c) => pub'.kept[c] = None,
           remote'.bundle = remote.bundle, UNCHANGED checkout, moved' = moved, late' = late
    PROVE  PubInv'
<1>1. /\ pub'.pc = pub.pc /\ pub'.k = pub.k /\ pub'.before = pub.before
      /\ pub'.docs = pub.docs /\ pub'.source = pub.source
  BY DEF PubInv, PubType
<1>2. \A c \in Components : (Taken(c)' <=> Taken(c)) /\ (Digested(c)' <=> Digested(c))
  BY <1>1 DEF Taken, Digested
<1>3. \A c \in Components : Digested(c) => Taken(c)
  BY DEF Taken, Digested, PubInv, PubType
<1>4. \A c \in Components : Taken(c) => (Unchanged(c)' <=> Unchanged(c))
  BY <1>1 DEF Unchanged
<1>5. Handles'
  BY <1>1, <1>2, <1>3, <1>4 DEF PubInv, Handles
<1>6. Progress'
  <2>1. ASSUME pub.pc = "commit", NEW c \in Components PROVE Taken(c)
    <3>1. pub.k = 3
      BY <2>1 DEF PubInv, Progress, PubPCs
    <3> QED
      BY <2>1, <3>1, Ordered DEF Taken
  <2> QED
    BY <1>1, <1>4, <2>1 DEF PubInv, Progress
<1>7. Documents'
  BY <1>1 DEF PubInv, Documents, Clean
<1>8. Published'
  BY DEF PubInv, Published, RemoteIsApproved, BundleIsConsistent
<1> QED
  BY <1>5, <1>6, <1>7, <1>8 DEF PubInv

\* The tools.
LEMMA BesideTools ==
    ASSUME PubInv, NEW p \in Procs, Tool(p), UNCHANGED release
    PROVE  PubInv'
<1>1. UNCHANGED <<pub, checkout, remote, late, moved>>
  BY DEF release
<1>2. FilesInv'
  BY ToolStep DEF PubInv
<1>3. ASSUME NEW c \in Components, Taken(c) PROVE OpenFile(c)' = OpenFile(c)
  <2>1. CASE pub.kept[c] = None
    <3>1. c \in Paths /\ c \notin Reports /\ fs[c] # None
      BY <1>3, <2>1, FilesAssumption
      DEF Components, Ggufs, Paths, Models, Reports, PubInv, Handles, OpenFile, FilesAssumption
    <3>2. fs'[c] = fs[c]
      BY <3>1, ToolKeeps DEF PubInv
    <3> QED
      BY <1>1, <2>1, <3>2 DEF OpenFile
  <2>2. CASE pub.kept[c] # None
    BY <1>1, <2>2 DEF OpenFile
  <2> QED
    BY <2>1, <2>2
<1>4. PubType' /\ pub' = [pub EXCEPT !.kept = pub'.kept]
  BY <1>1 DEF PubInv, PubType
<1>5. \A c \in Components : ~Taken(c) => pub'.kept[c] = None
  BY <1>1 DEF PubInv, Handles
<1> QED
  BY <1>1, <1>2, <1>3, <1>4, <1>5, StreamsKept

\* A file is moved over: the open stream keeps what it had.
LEMMA BesideReplace ==
    ASSUME PubInv, NEW path \in Editable, NEW ver \in {"pinned", "alike", "broken"},
           ReplaceFile(path, ver)
    PROVE  PubInv'
<1>1. UNCHANGED <<checkout, remote, moved, late>>
  BY DEF ReplaceFile
<1>2. FilesInv' /\ FilesInv
  BY ChangeStep DEF PubInv, ReplaceFile
<1>3. /\ fs[path] \in FileType /\ fs \in [Paths -> FileType \cup {None}]
      /\ \A q \in Paths : q # path => fs'[q] = fs[q]
  <2>1. path \in Paths /\ fs[path] # None /\ fs \in [Paths -> FileType \cup {None}]
    BY <1>2, FilesAssumption
    DEF FilesAssumption, ReplaceFile, Replace, Changed, Exists, FilesInv, FilesTypeOK
  <2> QED
    BY <2>1 DEF ReplaceFile, Replace, Changed
<1>4. CASE Opened(path)
  <2>1. pub' = [pub EXCEPT !.kept[path] = fs[path]] /\ path \in Components /\ pub.kept[path] = None
    BY <1>4 DEF ReplaceFile, Opened
  <2>2. pub'.kept = [pub.kept EXCEPT ![path] = fs[path]] /\ pub' = [pub EXCEPT !.kept = pub'.kept]
    BY <2>1 DEF PubInv, PubType
  <2>3. PubType'
    BY <1>1, <1>3, <2>1 DEF PubInv, PubType
  <2>4. Taken(path)
    BY <1>4, Ordered DEF Opened, Taken
  <2>5. \A c \in Components : OpenFile(c)' = OpenFile(c)
    <3> SUFFICES ASSUME NEW c \in Components PROVE OpenFile(c)' = OpenFile(c)
      OBVIOUS
    <3>1. CASE c = path
      <4>1. pub'.kept[c] = fs[c] /\ fs[c] # None
        BY <1>3, <2>1, <2>2, <3>1, FilesAssumption DEF FilesAssumption, PubInv, PubType
      <4> QED
        BY <2>1, <3>1, <4>1 DEF OpenFile
    <3>2. CASE c # path
      <4>1. fs'[c] = fs[c] /\ pub'.kept[c] = pub.kept[c]
        BY <1>3, <2>2, <3>2 DEF Components, Paths, Models, PubInv, PubType
      <4> QED
        BY <4>1 DEF OpenFile
    <3> QED
      BY <3>1, <3>2
  <2>6. \A c \in Components : ~Taken(c) => pub'.kept[c] = None
    BY <2>2, <2>4 DEF PubInv, PubType, Handles
  <2> QED
    BY <1>1, <1>2, <2>2, <2>3, <2>5, <2>6, StreamsKept
<1>5. CASE ~Opened(path)
  <2>1. pub' = pub
    BY <1>5 DEF ReplaceFile
  <2>2. PubType' /\ pub' = [pub EXCEPT !.kept = pub'.kept]
    BY <1>1, <2>1 DEF PubInv, PubType
  <2>3. ASSUME NEW c \in Components, Taken(c) PROVE OpenFile(c)' = OpenFile(c)
    <3>1. CASE c = path
      <4>1. pub.kept[c] # None
        BY <1>5, <2>3, <3>1, Ordered DEF Opened, Taken
      <4> QED
        BY <2>1, <4>1 DEF OpenFile
    <3>2. CASE c # path
      <4>1. fs'[c] = fs[c]
        BY <1>3, <3>2 DEF Components, Paths, Models
      <4> QED
        BY <2>1, <4>1 DEF OpenFile
    <3> QED
      BY <3>1, <3>2
  <2>4. \A c \in Components : ~Taken(c) => pub'.kept[c] = None
    BY <2>1 DEF PubInv, Handles
  <2> QED
    BY <1>1, <1>2, <2>1, <2>2, <2>3, <2>4, StreamsKept
<1> QED
  BY <1>4, <1>5

\* A file is edited in place: the stream that reads it no longer matches what
\* fstat saw, and an upload that is already under way counts as late.
LEMMA BesideEdit ==
    ASSUME PubInv, NEW path \in Editable, NEW ver \in {"pinned", "alike", "broken"},
           EditFile(path, ver)
    PROVE  PubInv'
<1>1. UNCHANGED <<pub, checkout, remote, moved>>
  BY DEF EditFile
<1>2. FilesInv' /\ FilesInv
  BY ChangeStep DEF PubInv, EditFile
<1>3. /\ path \in Paths /\ fs[path] \in FileType /\ fs'[path] \in FileType
      /\ fs'[path].edits = fs[path].edits + 1
      /\ \A q \in Paths : q # path => fs'[q] = fs[q]
  <2>1. path \in Paths /\ fs[path] # None /\ fs \in [Paths -> FileType \cup {None}]
    BY <1>2, FilesAssumption
    DEF FilesAssumption, EditFile, Edit, Changed, Exists, FilesInv, FilesTypeOK
  <2>2. fs' = [fs EXCEPT ![path] = [ver |-> ver, whole |-> TRUE, edits |-> fs[path].edits + 1]]
    BY <2>1 DEF EditFile, Edit, Changed
  <2>3. fs[path] \in FileType /\ fs[path].edits \in Nat
    BY <2>1 DEF FileType
  <2>4. [ver |-> ver, whole |-> TRUE, edits |-> fs[path].edits + 1] \in FileType
    BY <2>3 DEF FileType, Versions
  <2> QED
    BY <2>1, <2>2, <2>3, <2>4
<1>4. late' \in BOOLEAN /\ (late => late') /\ (pub.pc = "commit" /\ Opened(path) => late')
  BY Zenon DEF EditFile, PubInv, PubType
<1>5. \A c \in Components : c \in Paths /\ c \notin Reports
  BY DEF Components, Ggufs, Paths, Models, Reports
<1>6. \A c \in Components : (Taken(c)' <=> Taken(c)) /\ (Digested(c)' <=> Digested(c))
  BY <1>1 DEF Taken, Digested
<1>7. \A c \in Components : Digested(c) => Taken(c)
  BY DEF Taken, Digested, PubInv, PubType
<1>8. ASSUME NEW c \in Components, Taken(c)
      PROVE  \/ OpenFile(c)' = OpenFile(c)
             \/ Opened(path) /\ OpenFile(c)' \in FileType /\ OpenFile(c)'.edits > pub.before[c]
  <2>1. CASE c = path /\ pub.kept[c] = None
    <3>1. Opened(path)
      BY <1>8, <2>1, Ordered DEF Opened, Taken
    <3>2. OpenFile(c) = fs[path] /\ OpenFile(c)' = fs'[path]
      BY <1>1, <2>1 DEF OpenFile
    <3>3. fs[path].edits >= pub.before[c] /\ fs[path].edits \in Nat /\ pub.before[c] \in Nat
      BY <1>3, <1>8, <3>2 DEF PubInv, Handles, PubType, FileType
    <3> QED
      BY <1>3, <3>1, <3>2, <3>3
  <2>2. CASE c # path \/ pub.kept[c] # None
    <3>1. pub'.kept = pub.kept
      BY <1>1
    <3>2. CASE c # path
      BY <1>3, <1>5, <3>1, <3>2 DEF OpenFile
    <3>3. CASE pub.kept[c] # None
      BY <3>1, <3>3 DEF OpenFile
    <3> QED
      BY <2>2, <3>2, <3>3
  <2> QED
    BY <2>1, <2>2
<1>9. Handles'
  <2> SUFFICES ASSUME NEW c \in Components
               PROVE  /\ Taken(c) => OpenFile(c)' \in FileType /\ OpenFile(c)'.edits >= pub.before[c]
                      /\ ~Taken(c) => pub.kept[c] = None
                      /\ Digested(c) /\ Unchanged(c)' => OpenFile(c)'.ver = "pinned"
    BY <1>1, <1>6 DEF Handles
  <2>1. pub.before[c] \in Nat
    BY DEF PubInv, PubType
  <2>2. CASE Taken(c) /\ OpenFile(c)' = OpenFile(c)
    BY <1>1, <2>2 DEF PubInv, Handles, Unchanged
  <2>3. CASE Taken(c) /\ OpenFile(c)' \in FileType /\ OpenFile(c)'.edits > pub.before[c]
    BY <1>1, <2>1, <2>3 DEF Unchanged, FileType
  <2>4. CASE ~Taken(c)
    BY <1>7, <2>4 DEF PubInv, Handles
  <2> QED
    BY <1>8, <2>2, <2>3, <2>4
<1>10. Progress'
  <2>1. ASSUME pub.pc = "commit", ~late', NEW c \in Components PROVE Unchanged(c)'
    <3>1. pub.k = 3
      BY <2>1 DEF PubInv, Progress, PubPCs
    <3>2. Taken(c)
      BY <2>1, <3>1, Ordered DEF Taken
    <3>3. OpenFile(c)' = OpenFile(c)
      BY <1>4, <1>8, <2>1, <3>2
    <3>4. Unchanged(c)
      BY <1>4, <2>1 DEF PubInv, Progress
    <3> QED
      BY <1>1, <3>3, <3>4 DEF Unchanged
  <2> QED
    BY <1>1, <2>1 DEF PubInv, Progress
<1>11. PubType' /\ Documents' /\ Published'
  BY <1>1, <1>4 DEF PubInv, PubType, Documents, Clean, Published, RemoteIsApproved, BundleIsConsistent
<1> QED
  BY <1>2, <1>9, <1>10, <1>11 DEF PubInv

\* The checkout and the remote move.
LEMMA BesideMoves ==
    ASSUME PubInv, MoveCheckout \/ MoveRemote
    PROVE  PubInv'
<1>1. UNCHANGED <<files, pub, late>>
  BY DEF MoveCheckout, MoveRemote
<1>2. FilesInv'
  BY <1>1 DEF files, PubInv, FilesInv, FilesTypeOK, ProcType, Steady, NothingPartial, Exists
<1>3. Handles' /\ Progress'
  BY <1>1 DEF files, PubInv, Handles, Progress, Taken, Digested, OpenFile, Unchanged
<1>4. CASE MoveCheckout
  <2>1. UNCHANGED remote /\ moved' = (moved \/ pub.pc \in {"more", "state"})
    BY <1>4 DEF MoveCheckout
  <2>2. moved' \in BOOLEAN /\ (moved => moved') /\ (pub.pc \in {"more", "state"} => moved')
    BY <2>1, Zenon DEF PubInv, PubType
  <2>3. checkout' \in Snapshot
    BY <1>4 DEF MoveCheckout, PubInv, PubType, Snapshot
  <2> QED
    BY <1>1, <1>2, <1>3, <2>1, <2>2, <2>3
    DEF PubInv, PubType, Documents, Clean, Published, RemoteIsApproved, BundleIsConsistent
<1>5. CASE MoveRemote
  <2>1. UNCHANGED <<checkout, moved>> /\ remote' = [remote EXCEPT !.head = @ + 1]
    BY <1>5 DEF MoveRemote
  <2>2. remote'.bundle = remote.bundle /\ PubType'
    BY <1>1, <2>1 DEF PubInv, PubType
  <2> QED
    BY <1>1, <1>2, <1>3, <2>1, <2>2
    DEF PubInv, Documents, Clean, Published, RemoteIsApproved, BundleIsConsistent
<1> QED
  BY <1>4, <1>5

-----------------------------------------------------------------------------
(* Steps of the script                                                     *)

Later == {"docs", "more", "state", "check", "parent", "add", "commit"}

PubRecord ==
    [pc : PubPCs, upload : BOOLEAN, create : BOOLEAN, k : 0..3,
     kept : [Components -> FileType \cup {None}], before : [Components -> Nat],
     docs : Nat, source : Snapshot \cup {None}, parent : Nat]

\* The script goes on with the streams it has.
LEMMA GoesOn ==
    ASSUME PubInv, UNCHANGED files, pub.pc \in Later, pub'.pc \in Later,
           pub'.k = pub.k, pub'.kept = pub.kept, pub'.before = pub.before
    PROVE  Handles' /\ pub'.k = 3
<1>1. \A c \in Components : (Taken(c)' <=> Taken(c)) /\ (Digested(c)' <=> Digested(c))
  BY DEF Taken, Digested, Later
<1>2. \A c \in Components : OpenFile(c)' = OpenFile(c) /\ (Unchanged(c)' <=> Unchanged(c))
  BY DEF OpenFile, Unchanged, files
<1>3. pub.k = 3
  BY DEF PubInv, Progress, Later, PubPCs
<1> QED
  BY <1>1, <1>2, <1>3 DEF PubInv, Handles

\* The script ends.
LEMMA GoesQuiet ==
    ASSUME pub' = Quiet
    PROVE  pub' \in PubRecord /\ Handles' /\ Progress' /\ Documents'
<1>1. Quiet \in [pc : {"idle"}, upload : BOOLEAN, create : BOOLEAN, k : 0..3,
                 kept : [Components -> {None}], before : [Components -> Nat],
                 docs : Nat, source : {None}, parent : Nat]
  BY DEF Quiet
<1>2. pub' \in PubRecord
  BY <1>1 DEF PubRecord, PubPCs
<1>3. pub'.pc = "idle" /\ \A c \in Components : pub'.kept[c] = None
  BY DEF Quiet
<1> QED
  BY <1>2, <1>3 DEF Handles, Taken, Digested, Progress, Documents

\* The script starts with no stream open.
LEMMA PrepareStep ==
    ASSUME PubInv, NEW upload \in BOOLEAN, NEW create \in BOOLEAN, Prepare(upload, create)
    PROVE  PubType' /\ Handles' /\ Progress' /\ Documents' /\ Published'
<1> DEFINE new == [Quiet EXCEPT !.pc = "open", !.upload = upload, !.create = create, !.k = 1]
<1>1. pub' = new /\ UNCHANGED <<checkout, remote, moved, late>>
  BY DEF Prepare
<1>2. new \in [pc : {"open"}, upload : BOOLEAN, create : BOOLEAN, k : {1},
               kept : [Components -> {None}], before : [Components -> Nat],
               docs : Nat, source : {None}, parent : Nat]
  BY DEF Quiet
<1>3. new.pc = "open" /\ new.k = 1 /\ \A c \in Components : new.kept[c] = None
  BY DEF Quiet
<1>4. new \in PubRecord
  <2> HIDE DEF new
  <2> QED
    BY <1>2 DEF PubRecord, PubPCs
<1> HIDE DEF new
<1>5. PubType'
  BY <1>1, <1>4 DEF PubInv, PubType, PubRecord
<1>6. \A c \in Components : ~Taken(c)' /\ ~Digested(c)'
  BY <1>1, <1>3 DEF Taken, Digested
<1>7. Handles'
  BY <1>1, <1>3, <1>6 DEF Handles
<1> QED
  BY <1>1, <1>3, <1>5, <1>7
  DEF PubInv, Progress, Documents, Published, RemoteIsApproved, BundleIsConsistent

\* One more stream is open, and nobody has edited it since its fstat.
LEMMA OpenModelStep ==
    ASSUME PubInv, OpenModel
    PROVE  PubType' /\ Handles' /\ Progress' /\ Documents' /\ Published'
<1> DEFINE c   == Order[pub.k]
           new == [pub EXCEPT !.pc = "hash", !.before[c] = fs[c].edits]
<1>1. /\ pub.pc = "open" /\ fs[c] # None /\ pub' = new
      /\ UNCHANGED <<fs, checkout, remote, moved, late>>
  BY DEF OpenModel, Exists, files
<1>2. pub.k \in 1..3 /\ c \in Components /\ pub \in PubRecord
  BY <1>1, Ordered DEF PubInv, Progress, PubType, PubRecord
<1>3. fs[c] \in FileType /\ fs[c].edits \in Nat
  BY <1>1, <1>2 DEF PubInv, FilesInv, FilesTypeOK, FileType, Components, Paths, Models
<1> HIDE DEF c
<1>4. /\ new.pc = "hash" /\ new.k = pub.k /\ new.kept = pub.kept
      /\ new.before = [pub.before EXCEPT ![c] = fs[c].edits]
  BY <1>2 DEF PubRecord
<1>5. new \in PubRecord
  BY <1>2, <1>3 DEF PubRecord, PubPCs
<1> HIDE DEF new
<1>6. PubType'
  BY <1>1, <1>5 DEF PubInv, PubType, PubRecord
<1>7. ASSUME NEW d \in Components
      PROVE  /\ Taken(d)' <=> Taken(d) \/ d = c
             /\ Digested(d)' <=> Digested(d)
             /\ Digested(d) => Taken(d) /\ d # c
             /\ ~Taken(c)
  BY <1>1, <1>2, <1>4, Ordered DEF Taken, Digested, c
<1>8. pub.kept[c] = None
  BY <1>2, <1>7 DEF PubInv, Handles
<1>9. \A d \in Components : OpenFile(d)' = OpenFile(d)
  BY <1>1, <1>4 DEF OpenFile
<1>10. OpenFile(c) = fs[c] /\ pub'.before[c] = fs[c].edits
  BY <1>1, <1>2, <1>4, <1>8 DEF OpenFile, PubRecord
<1>11. \A d \in Components : d # c => pub'.before[d] = pub.before[d]
  BY <1>1, <1>2, <1>4 DEF PubRecord
<1>12. Handles'
  <2> SUFFICES ASSUME NEW d \in Components
               PROVE  /\ Taken(d)' => OpenFile(d)' \in FileType /\ OpenFile(d)'.edits >= pub'.before[d]
                      /\ ~Taken(d)' => pub'.kept[d] = None
                      /\ Digested(d)' /\ Unchanged(d)' => OpenFile(d)'.ver = "pinned"
    BY DEF Handles
  <2>1. CASE d = c
    BY <1>3, <1>7, <1>9, <1>10, <2>1
  <2>2. CASE d # c
    BY <1>1, <1>4, <1>7, <1>9, <1>11, <2>2 DEF PubInv, Handles, Unchanged
  <2> QED
    BY <2>1, <2>2
<1> QED
  BY <1>1, <1>2, <1>4, <1>6, <1>12
  DEF PubInv, Progress, Documents, Published, RemoteIsApproved, BundleIsConsistent

\* The stream that was hashed is the one that was opened last.
LEMMA HashModelStep ==
    ASSUME PubInv, HashModel
    PROVE  PubType' /\ Handles' /\ Progress' /\ Documents' /\ Published'
<1> DEFINE c   == Order[pub.k]
           new == IF pub.k < 3 THEN [pub EXCEPT !.pc = "open", !.k = pub.k + 1]
                  ELSE [pub EXCEPT !.pc = "docs"]
<1>1. /\ pub.pc = "hash" /\ OpenFile(c).ver = "pinned"
      /\ UNCHANGED <<fs, checkout, remote, moved, late>>
  BY DEF HashModel, files
<1>2. pub.k \in 1..3 /\ c \in Components /\ pub \in PubRecord
  BY <1>1, Ordered DEF PubInv, Progress, PubType, PubRecord
<1>3. pub' = new
  BY Ordered DEF HashModel
<1> HIDE DEF c
<1>4. /\ new.pc = (IF pub.k < 3 THEN "open" ELSE "docs")
      /\ new.k = (IF pub.k < 3 THEN pub.k + 1 ELSE 3)
      /\ new.kept = pub.kept /\ new.before = pub.before
  BY <1>2 DEF PubRecord
<1>5. new \in PubRecord
  <2>1. CASE pub.k < 3
    <3>1. pub.k + 1 \in 0..3 /\ new = [pub EXCEPT !.pc = "open", !.k = pub.k + 1]
      BY <1>2, <2>1
    <3> QED
      BY <1>2, <3>1 DEF PubRecord, PubPCs
  <2>2. CASE ~(pub.k < 3)
    BY <1>2, <2>2 DEF PubRecord, PubPCs
  <2> QED
    BY <2>1, <2>2
<1> HIDE DEF new
<1>6. PubType'
  BY <1>1, <1>3, <1>5 DEF PubInv, PubType, PubRecord
<1>7. ASSUME NEW d \in Components
      PROVE  (Taken(d)' <=> Taken(d)) /\ (Digested(d)' <=> Digested(d) \/ d = c)
  <2>1. CASE pub.k < 3
    BY <1>1, <1>2, <1>3, <1>4, <2>1, Ordered DEF Taken, Digested, c
  <2>2. CASE pub.k = 3
    BY <1>1, <1>2, <1>3, <1>4, <2>2, Ordered DEF Taken, Digested, c
  <2> QED
    BY <1>2, <2>1, <2>2
<1>8. \A d \in Components : OpenFile(d)' = OpenFile(d) /\ (Unchanged(d)' <=> Unchanged(d))
  BY <1>1, <1>3, <1>4 DEF OpenFile, Unchanged
<1>9. Handles'
  BY <1>1, <1>3, <1>4, <1>7, <1>8 DEF PubInv, Handles
<1> QED
  BY <1>1, <1>2, <1>3, <1>4, <1>6, <1>9
  DEF PubInv, Progress, Documents, Published, RemoteIsApproved, BundleIsConsistent

\* The documents and the state of the checkout are read.
LEMMA ReadingSteps ==
    ASSUME PubInv, ReadDocuments \/ ReadState
    PROVE  PubType' /\ Handles' /\ Progress' /\ Documents' /\ Published'
<1>0. pub \in PubRecord /\ UNCHANGED <<files, checkout, remote, moved, late>>
  BY DEF PubInv, PubType, PubRecord, ReadDocuments, ReadState
<1>1. Published'
  BY <1>0 DEF PubInv, Published, RemoteIsApproved, BundleIsConsistent
<1>2. CASE ReadDocuments
  <2> DEFINE docs == IF pub.pc = "docs" \/ pub.docs = checkout.docs THEN checkout.docs ELSE 0
             pc   == IF pub.pc = "docs" THEN "more" ELSE "state"
             new  == [pub EXCEPT !.pc = pc, !.docs = docs]
  <2>1. pub' = new /\ pub.pc \in {"docs", "more"}
    BY <1>0, <1>2 DEF ReadDocuments, PubRecord
  <2>2. docs \in Nat /\ pc \in {"more", "state"}
    BY DEF PubInv, PubType, Snapshot
  <2>3. pub.pc = "more" /\ ~moved => docs = checkout.docs
    BY DEF PubInv, Documents
  <2>4. pub.pc = "docs" => docs = checkout.docs
    OBVIOUS
  <2> HIDE DEF docs, pc
  <2>5. /\ new \in PubRecord /\ new.pc = pc /\ new.docs = docs
        /\ new.k = pub.k /\ new.kept = pub.kept /\ new.before = pub.before
    BY <1>0, <2>2 DEF PubRecord, PubPCs
  <2> HIDE DEF new
  <2>6. Handles' /\ pub'.k = 3
    BY <1>0, <2>1, <2>2, <2>5, GoesOn DEF Later
  <2> QED
    BY <1>0, <1>1, <2>1, <2>2, <2>3, <2>4, <2>5, <2>6
    DEF PubInv, PubType, PubRecord, Progress, Documents
<1>3. CASE ReadState /\ pub.upload
  <2> DEFINE new == [pub EXCEPT !.pc = "check", !.source = checkout]
  <2>1. pub' = new /\ pub.pc = "state"
    BY <1>0, <1>3 DEF ReadState, PubRecord
  <2>2. checkout \in Snapshot /\ (~moved => pub.docs = checkout.docs)
    BY <2>1 DEF PubInv, PubType, Documents
  <2>3. /\ new \in PubRecord /\ new.pc = "check" /\ new.source = checkout /\ new.docs = pub.docs
        /\ new.k = pub.k /\ new.kept = pub.kept /\ new.before = pub.before
    BY <1>0, <2>2 DEF PubRecord, PubPCs
  <2> HIDE DEF new
  <2>4. Handles' /\ pub'.k = 3
    BY <1>0, <2>1, <2>3, GoesOn DEF Later
  <2> QED
    BY <1>0, <1>1, <2>1, <2>2, <2>3, <2>4
    DEF PubInv, PubType, PubRecord, Progress, Documents
<1>4. CASE ReadState /\ ~pub.upload
  <2>1. pub' = Quiet
    BY <1>4 DEF ReadState
  <2> QED
    BY <1>0, <1>1, <2>1, GoesQuiet DEF PubInv, PubType, PubRecord
<1> QED
  BY <1>2, <1>3, <1>4

\* The checks of the checkout and of the streams before the commit.
LEMMA CheckingSteps ==
    ASSUME PubInv, CheckSource \/ FindParent \/ AddModels
    PROVE  PubType' /\ Handles' /\ Progress' /\ Documents' /\ Published'
<1>0. pub \in PubRecord /\ UNCHANGED <<files, checkout, moved, late>>
  BY DEF PubInv, PubType, PubRecord, CheckSource, FindParent, AddModels
<1>1. /\ pub'.pc \in {"parent", "add", "commit"} /\ pub' \in PubRecord
      /\ pub'.k = pub.k /\ pub'.kept = pub.kept /\ pub'.before = pub.before
      /\ pub'.docs = pub.docs /\ pub'.source = pub.source
      /\ pub.pc \in {"check", "parent", "add"}
  <2>1. CASE CheckSource
    BY <1>0, <2>1 DEF CheckSource, Advance, PubRecord, PubPCs
  <2>2. CASE FindParent
    <3>1. remote.head \in Nat
      BY DEF PubInv, PubType
    <3> QED
      BY <1>0, <2>2, <3>1 DEF FindParent, PubRecord, PubPCs
  <2>3. CASE AddModels
    BY <1>0, <2>3 DEF AddModels, Advance, PubRecord, PubPCs
  <2> QED
    BY <2>1, <2>2, <2>3
<1>2. Handles' /\ pub'.k = 3
  BY <1>0, <1>1, GoesOn DEF Later
<1>3. remote'.bundle = remote.bundle /\ PubType'
  <2>1. CASE FindParent
    <3>1. remote' = [remote EXCEPT !.exists = TRUE]
      BY <2>1 DEF FindParent
    <3> QED
      BY <1>0, <1>1, <3>1 DEF PubInv, PubType, PubRecord
  <2>2. CASE CheckSource \/ AddModels
    <3>1. remote' = remote
      BY <2>2 DEF CheckSource, AddModels
    <3> QED
      BY <1>0, <1>1, <3>1 DEF PubInv, PubType, PubRecord
  <2> QED
    BY <2>1, <2>2
<1>4. Published'
  BY <1>0, <1>3 DEF PubInv, Published, RemoteIsApproved, BundleIsConsistent
<1>5. Documents'
  <2>1. Clean(pub.source)
    BY DEF CheckSource, FindParent, AddModels, PubInv, Documents
  <2> QED
    BY <1>0, <1>1, <2>1 DEF PubInv, Documents, Clean
<1>6. Progress'
  <2>1. ASSUME pub'.pc = "commit", NEW c \in Components PROVE Unchanged(c)'
    <3>1. AddModels
      BY <1>0, <2>1 DEF CheckSource, FindParent, AddModels, Advance, PubRecord
    <3>2. Unchanged(c)
      BY <3>1 DEF AddModels
    <3> QED
      BY <1>0, <1>1, <3>2 DEF Unchanged, OpenFile, files
  <2> QED
    BY <1>1, <1>2, <2>1 DEF Progress
<1> QED
  BY <1>2, <1>3, <1>4, <1>5, <1>6

\* What is published is what the streams hold.
LEMMA CommitStep ==
    ASSUME PubInv, Commit
    PROVE  PubType' /\ Handles' /\ Progress' /\ Documents' /\ Published'
<1> DEFINE models == [c \in Components |-> OpenFile(c).ver]
           bundle == [models |-> models, docs |-> pub.docs, source |-> pub.source.commit]
<1>1. /\ pub.pc = "commit" /\ pub' = Quiet /\ UNCHANGED <<files, checkout, moved, late>>
      /\ remote' = [exists |-> TRUE, head |-> remote.head + 1, bundle |-> bundle]
  BY DEF Commit
<1>2. /\ pub.source \in Snapshot /\ Clean(pub.source) /\ (~moved => pub.docs = pub.source.docs)
      /\ pub.docs \in Nat /\ remote.head \in Nat /\ pub.k = 3
  BY <1>1 DEF PubInv, Documents, PubType, Progress, PubPCs
<1>3. \A c \in Components : Taken(c) /\ Digested(c)
  BY <1>1, <1>2, Ordered DEF Taken, Digested
<1>4. \A c \in Components : OpenFile(c).ver \in Versions
  BY <1>3 DEF PubInv, Handles, FileType
<1>5. ~late => \A c \in Components : OpenFile(c).ver = "pinned"
  BY <1>1, <1>3 DEF PubInv, Handles, Progress
<1>6. models \in [Components -> Versions] /\ (~late => \A c \in Components : models[c] = "pinned")
  BY <1>4, <1>5
<1> HIDE DEF models
<1>7. bundle \in [models : [Components -> Versions], docs : Nat, source : Nat]
  BY <1>2, <1>6 DEF Snapshot
<1>8. bundle.models = models /\ (~moved => bundle.docs = bundle.source)
  BY <1>2 DEF Clean
<1> HIDE DEF bundle
<1>9. remote'.bundle = bundle
      /\ remote' \in [exists : BOOLEAN, head : Nat,
                      bundle : [models : [Components -> Versions], docs : Nat, source : Nat] \cup {None}]
  BY <1>1, <1>2, <1>7
<1>10. pub' \in PubRecord /\ Handles' /\ Progress' /\ Documents'
  BY <1>1, GoesQuiet
<1>11. PubType'
  BY <1>1, <1>9, <1>10 DEF PubInv, PubType, PubRecord
<1>12. Published'
  BY <1>1, <1>6, <1>8, <1>9 DEF Published, RemoteIsApproved, BundleIsConsistent
<1> QED
  BY <1>10, <1>11, <1>12

\* The script raises or ends: its streams are closed.
LEMMA GiveUpStep ==
    ASSUME PubInv, GiveUp
    PROVE  PubType' /\ Handles' /\ Progress' /\ Documents' /\ Published'
<1>1. pub' = Quiet /\ UNCHANGED <<checkout, remote, moved, late>>
  BY DEF GiveUp
<1>2. pub' \in PubRecord /\ Handles' /\ Progress' /\ Documents'
  BY <1>1, GoesQuiet
<1> QED
  BY <1>1, <1>2 DEF PubInv, PubType, PubRecord, Published, RemoteIsApproved, BundleIsConsistent

-----------------------------------------------------------------------------

\* Every step of Publication keeps the invariant.
LEMMA PubStep == PubInv /\ [PubNext]_vars => PubInv'
<1> SUFFICES ASSUME PubInv, [PubNext]_vars PROVE PubInv'
  OBVIOUS
<1>1. FilesInv'
  BY FilesBeside DEF PubInv
<1>2. CASE Publish
  <2>1. PubType' /\ Handles' /\ Progress' /\ Documents' /\ Published'
    BY <1>2, PrepareStep, OpenModelStep, HashModelStep, ReadingSteps, CheckingSteps, CommitStep,
       GiveUpStep DEF Publish
  <2> QED
    BY <1>1, <2>1 DEF PubInv
<1>3. CASE MoveCheckout \/ MoveRemote
  BY <1>3, BesideMoves
<1>4. ASSUME NEW p \in Procs, Tool(p), UNCHANGED release PROVE PubInv'
  BY <1>4, BesideTools
<1>5. ASSUME NEW path \in Editable, NEW ver \in {"pinned", "alike", "broken"},
             EditFile(path, ver) \/ ReplaceFile(path, ver)
      PROVE  PubInv'
  BY <1>5, BesideEdit, BesideReplace
<1>6. CASE UNCHANGED vars
  <2>1. UNCHANGED <<fs, pub, checkout, remote, moved, late>>
    BY <1>6 DEF vars, files, release
  <2> QED
    BY <1>1, <2>1 DEF PubInv, PubType, Handles, Taken, Digested, OpenFile, Unchanged, Progress,
       Documents, Clean, Published, RemoteIsApproved, BundleIsConsistent
<1> QED
  BY <1>2, <1>3, <1>4, <1>5, <1>6 DEF PubNext

\* Whatever tools raise or are killed beside an upload, and however files are
\* edited and moved over, a model file under its final name is complete.
THEOREM NothingPartialTheorem == PubSpec => []NothingPartial
<1>1. PubInv => NothingPartial
  BY DEF PubInv, FilesInv
<1> QED
  BY <1>1, PubStarts, PubStep, PTL DEF PubSpec

\* Every published bundle has the reviewed models, unless one was edited in
\* place while the upload read it.
THEOREM RemoteIsApprovedTheorem == PubSpec => []RemoteIsApproved
<1>1. PubInv => RemoteIsApproved
  BY DEF PubInv, Published
<1> QED
  BY <1>1, PubStarts, PubStep, PTL DEF PubSpec

\* The documents of a bundle are those of the commit that its manifest names.
THEOREM BundleIsConsistentTheorem == PubSpec => []BundleIsConsistent
<1>1. PubInv => BundleIsConsistent
  BY DEF PubInv, Published
<1> QED
  BY <1>1, PubStarts, PubStep, PTL DEF PubSpec

\* A step that is not a change from elsewhere leaves every name what it was.
LEMMA KeptNames ==
    ASSUME FilesInv, [PubNext]_vars, edits' = edits, NEW path \in Paths, Exists(path)
    PROVE  fs'[path] = (IF path \in Reports THEN [fs[path] EXCEPT !.whole = fs'[path].whole]
                        ELSE fs[path])
<1>0. fs[path] # None /\ fs[path] \in FileType
  BY DEF Exists, FilesInv, FilesTypeOK
<1>1. CASE UNCHANGED fs
  <2>1. fs[path] = [fs[path] EXCEPT !.whole = fs[path].whole]
    BY <1>0 DEF FileType
  <2> QED
    BY <1>1, <2>1
<1>2. ASSUME NEW p \in Procs, Tool(p)
      PROVE  fs'[path] = (IF path \in Reports THEN [fs[path] EXCEPT !.whole = fs'[path].whole]
                          ELSE fs[path])
  BY <1>0, <1>2, ToolKeeps
<1>3. ASSUME NEW q \in Editable, NEW ver \in {"pinned", "alike", "broken"},
             EditFile(q, ver) \/ ReplaceFile(q, ver)
      PROVE  FALSE
  <2>1. edits' = edits + 1 /\ edits \in Nat
    BY <1>3, FilesAssumption
    DEF EditFile, ReplaceFile, Edit, Replace, Changed, FilesInv, FilesTypeOK, FilesAssumption
  <2> QED
    BY <2>1
<1> QED
  BY <1>1, <1>2, <1>3 DEF PubNext, Publish, vars, files, Prepare, OpenModel, HashModel,
     ReadDocuments, ReadState, CheckSource, FindParent, AddModels, Commit, GiveUp, MoveCheckout,
     MoveRemote

\* No tool ever puts another file under a name that exists, whichever tools
\* write the same name and whatever the script does beside them.
THEOREM NeverOverwrittenTheorem == PubSpec => NeverOverwritten
<1>1. PubInv /\ [PubNext]_vars =>
        [edits' = edits => \A path \in Paths : Exists(path) =>
            fs'[path] = (IF path \in Reports THEN [fs[path] EXCEPT !.whole = fs'[path].whole]
                         ELSE fs[path])]_files
  BY KeptNames DEF PubInv
<1> QED
  BY <1>1, PubStarts, PubStep, PTL DEF PubSpec, NeverOverwritten

-----------------------------------------------------------------------------
(* ContentsArePinned: a tool that has hashed its source either still reads  *)
(* what it hashed, or the file under the source's name has been changed     *)
(* since and differs from what was expected (Spoiled).  With no file        *)
(* changed twice that stays so, and the second hash tells the two apart:    *)
(* what is linked by a converter, and what an extraction has linked when it *)
(* goes on to its reports, is what was expected.  The manifest's contents   *)
(* never change while it exists, so a converter's expectation stays the     *)
(* manifest's.                                                              *)

\* What the tool reads is what it hashed ...
Untouched(me, f) ==
    f[Source(me.job)].ver = me.expect /\ (me.pc = "open" \/ me.src = "live")

\* ... or the second look will fail.
Spoiled(me, f) == f[Source(me.job)].edits > 0 /\ f[Source(me.job)].ver # me.expect

\* Which halves an extraction has linked, and what they are worth.
LinkedBackbone(me) == me.dest = "rest_safe" \/ me.pc \in Reporting \cup {"record"}
LinkedRest(me)     == (me.dest = "rest_safe" /\ me.pc = "record") \/ me.pc \in Reporting

Held(path, me, f) ==
    /\ f[path] # None
    /\ f[path].edits = 0 => \/ f[path].ver = "pinned"
                            \/ me.pc \notin {"json", "dump"} /\ Spoiled(me, f)

Extracted(me, f) ==
    /\ me.pc \notin Reporting => me.dest \in Safe
    /\ LinkedBackbone(me) => Held("backbone_safe", me, f)
    /\ LinkedRest(me) => Held("rest_safe", me, f)

Converted(me) ==
    me.dest \in Outputs(me.job) /\ (me.pc = "link" => me.temp.ver = me.expect)

\* A tool and the files it depends on.
Tied(me, f) ==
    /\ f[Source(me.job)] # None
    /\ me.job = "inventory" => me.left = <<<<"inventory", "pinned">>>>
    /\ me.job = "backbone" => f["manifest"] # None /\ f["manifest"].ver = me.expect
    /\ me.job # "backbone" => me.expect = "pinned"
    /\ me.job # "inventory" => \/ Untouched(me, f) /\ me.temp.ver \in {None, me.expect}
                               \/ Spoiled(me, f)
    /\ Gguf(me.job) => Converted(me)
    /\ me.job = "extract" => Extracted(me, f)

AllTied == \A p \in Procs : proc[p].pc # "idle" => Tied(proc[p], fs)

\* The backbone is converted from an extraction whose manifest is there.
HasManifest == Exists("dino_gguf") => Exists("manifest")

GgufContents ==
    \A path \in Ggufs : Exists(path) /\ fs[path].edits = 0 =>
        fs[path].ver = (IF path = "dino_gguf" THEN Version("manifest") ELSE "pinned")

ExtractionContents ==
    Parses("manifest") => \A path \in Safe : Exists(path) /\ (fs[path].edits = 0 => fs[path].ver = "pinned")

Pinned == AllTied /\ HasManifest /\ GgufContents /\ ExtractionContents

PinnedInv == PubInv /\ (~twice => Pinned)

\* What exists stays, with its contents.
Same(f, g) == \A path \in Paths : f[path] # None =>
                 g[path] # None /\ g[path].ver = f[path].ver /\ g[path].edits = f[path].edits

-----------------------------------------------------------------------------
\* What each tool reads and makes.
LEMMA Roles ==
    ASSUME NEW job \in Jobs
    PROVE  /\ Gguf(job) <=> job \in {"backbone", "branch", "mhr"}
           /\ Source(job) = (IF job = "backbone" THEN "backbone_safe"
                             ELSE IF job = "branch" THEN "rest_safe"
                             ELSE IF job = "mhr" THEN "mhr_state" ELSE "ckpt")
           /\ Gguf(job) => Outputs(job) = {IF job = "backbone" THEN "dino_gguf"
                                           ELSE IF job = "branch" THEN "branch_gguf" ELSE "mhr_gguf"}
           /\ Gguf(job) => "record" \notin DOMAIN Tools[job].flow
           /\ Gguf(job) => DOMAIN Tools[job].flow \cap Reporting = {}
           /\ Gguf(job) /\ "readback" \in DOMAIN Tools[job].flow => Tools[job].flow["readback"] = "rehash"
           /\ Gguf(job) => Tools[job].flow["link"] = "idle"
           /\ job = "extract" => Tools[job].flow["link"] = "record" /\ "rehash" \notin DOMAIN Tools[job].flow
           /\ Gguf(job) /\ "sync" \in DOMAIN Tools[job].flow => Tools[job].flow["sync"] # "link"
<1> USE DEF Source, Gguf, Outputs, Tools, Reporting
<1>1. CASE job = "extract"
  BY <1>1 DEF Extract
<1>2. CASE job = "inventory"
  BY <1>2 DEF Inventory
<1>3. CASE job = "backbone"
  BY <1>3 DEF Backbone
<1>4. CASE job = "branch"
  BY <1>4 DEF Branch
<1>5. CASE job = "mhr"
  BY <1>5 DEF Mhr
<1> QED
  BY <1>1, <1>2, <1>3, <1>4, <1>5, JobNames

\* The names by kind.
LEMMA Names ==
    /\ "manifest" \in Paths /\ "manifest" \in Reports /\ Safe \subseteq Paths /\ Ggufs \subseteq Paths
    /\ Safe \cap Reports = {} /\ Ggufs \cap Reports = {} /\ Safe \cap Ggufs = {}
    /\ Safe = {"backbone_safe", "rest_safe"} /\ "ckpt" \in Paths
  BY DEF Paths, Sources, Models, Safe, Ggufs, Reports

\* No tool changes what exists.
LEMMA ToolSame ==
    ASSUME FilesInv, NEW p \in Procs, Tool(p)
    PROVE  Same(fs, fs')
<1> SUFFICES ASSUME NEW path \in Paths, fs[path] # None
             PROVE  fs'[path] # None /\ fs'[path].ver = fs[path].ver /\ fs'[path].edits = fs[path].edits
  BY DEF Same
<1>1. /\ fs'[path] = (IF path \in Reports THEN [fs[path] EXCEPT !.whole = fs'[path].whole]
                     ELSE fs[path])
      /\ fs[path] \in FileType /\ fs'[path] \in FileType
  BY ToolKeeps DEF FilesInv, FilesTypeOK
<1>2. CASE path \in Reports
  <2> DEFINE whole == fs'[path].whole
  <2>1. fs'[path] = [fs[path] EXCEPT !.whole = whole]
    BY <1>1, <1>2
  <2> HIDE DEF whole
  <2>2. fs'[path].ver = fs[path].ver /\ fs'[path].edits = fs[path].edits
    BY <1>1, <2>1 DEF FileType
  <2> QED
    BY <1>1, <2>2, FilesAssumption DEF FilesAssumption
<1>3. CASE path \notin Reports
  BY <1>1, <1>3, FilesAssumption DEF FilesAssumption
<1> QED
  BY <1>2, <1>3


\* What a tool relies on stays while the files it depends on stay.
LEMMA TiedKept ==
    ASSUME NEW me, Placed(me), NEW f, NEW g, Same(f, g), Tied(me, f)
    PROVE  Tied(me, g)
<1>1. Source(me.job) \in Paths /\ "manifest" \in Paths /\ "backbone_safe" \in Paths
      /\ "rest_safe" \in Paths
  BY Places, Names DEF Placed
<1>2. g[Source(me.job)] # None /\ (Untouched(me, g) <=> Untouched(me, f))
      /\ (Spoiled(me, g) <=> Spoiled(me, f))
  BY <1>1 DEF Same, Tied, Untouched, Spoiled
<1>3. me.job = "backbone" => g["manifest"] # None /\ g["manifest"].ver = me.expect
  BY <1>1 DEF Same, Tied
<1>4. \A path \in Paths : Held(path, me, f) => Held(path, me, g)
  BY <1>2 DEF Same, Held
<1>5. Extracted(me, f) => Extracted(me, g)
  BY <1>1, <1>4 DEF Extracted
<1> QED
  BY <1>2, <1>3, <1>5 DEF Tied

\* One tool moves, the files that exist stay: what the others rely on holds.
LEMMA OthersTied ==
    ASSUME FilesInv, AllTied, NEW p \in Procs, NEW new, proc' = [proc EXCEPT ![p] = new],
           new.pc = "idle" \/ Tied(new, fs'), Same(fs, fs')
    PROVE  AllTied'
<1> SUFFICES ASSUME NEW q \in Procs, proc'[q].pc # "idle" PROVE Tied(proc'[q], fs')
  BY DEF AllTied
<1>1. p \in DOMAIN proc
  BY DEF FilesInv, FilesTypeOK
<1>2. CASE q = p
  BY <1>1, <1>2
<1>3. CASE q # p
  <2>1. proc'[q] = proc[q] /\ Tied(proc[q], fs) /\ Placed(proc[q])
    BY <1>3, OfOne DEF AllTied
  <2> QED
    BY <2>1, TiedKept
<1> QED
  BY <1>2, <1>3

\* A step that changes no file and one tool.
LEMMA OnlyTied ==
    ASSUME FilesInv, Pinned, NEW p \in Procs, NEW new, proc' = [proc EXCEPT ![p] = new],
           new.pc = "idle" \/ Tied(new, fs), UNCHANGED fs
    PROVE  Pinned'
<1>1. Same(fs, fs')
  BY DEF Same
<1>2. AllTied'
  BY <1>1, OthersTied DEF Pinned
<1>3. HasManifest' /\ GgufContents' /\ ExtractionContents'
  BY DEF Pinned, HasManifest, GgufContents, ExtractionContents, Exists, Version, Parses
<1> QED
  BY <1>2, <1>3 DEF Pinned

\* An inventory relies on little.
LEMMA InventoryOn ==
    ASSUME NEW me, NEW new, NEW f, Tied(me, f), me.job = "inventory", new.job = me.job,
           new.left = me.left, new.expect = me.expect
    PROVE  Tied(new, f)
<1>1. ~Gguf("inventory")
  BY JobNames, Roles
<1> QED
  BY <1>1 DEF Tied

\* A tool goes on while it streams: it reads what it hashed, or is spoiled.
LEMMA StreamsOn ==
    ASSUME NEW me, NEW new, NEW f, Placed(me), Tied(me, f), me.job # "inventory",
           new.job = me.job, new.dest = me.dest, new.expect = me.expect, new.left = me.left,
           me.pc \notin Reporting \cup {"record"}, new.pc \notin Reporting \cup {"record"},
           Untouched(me, f) /\ me.temp.ver \in {None, me.expect}
               => new.src = "live" /\ new.temp.ver \in {None, me.expect},
           Gguf(me.job) /\ new.pc = "link" => new.temp.ver = me.expect
    PROVE  Tied(new, f)
<1>1. Spoiled(new, f) <=> Spoiled(me, f)
  BY DEF Spoiled
<1>2. \/ Untouched(new, f) /\ new.temp.ver \in {None, new.expect}
      \/ Spoiled(new, f)
  BY <1>1 DEF Tied, Untouched
<1>3. Gguf(me.job) => Converted(new)
  BY DEF Tied, Converted
<1>4. \A path : me.pc \notin {"json", "dump"} /\ new.pc \notin {"json", "dump"} /\ Held(path, me, f)
                => Held(path, new, f)
  BY <1>1 DEF Held
<1>5. me.job = "extract" => Extracted(new, f)
  BY <1>4 DEF Tied, Extracted, LinkedBackbone, LinkedRest, Reporting
<1> QED
  BY <1>2, <1>3, <1>5 DEF Tied

-----------------------------------------------------------------------------

\* A tool that starts has just hashed its source.
LEMMA StartTied ==
    ASSUME FilesInv, Pinned, NEW p \in Procs, NEW job \in Jobs, Start(p, job)
    PROVE  Pinned'
<1> DEFINE new == Begun(job)
<1>1. /\ proc' = [proc EXCEPT ![p] = new] /\ UNCHANGED fs
      /\ fs[Source(job)] # None /\ fs[Source(job)].ver = Expected(job)
      /\ Accepts(job)
  BY DEF Start, Exists, Version
<1>2. /\ new.job = job /\ new.pc = "open" /\ new.temp.ver = None /\ new.expect = Expected(job)
      /\ job = "extract" => new.dest = "backbone_safe"
      /\ Gguf(job) => job # "extract" /\ new.dest = CHOOSE d \in Outputs(job) : TRUE
      /\ job = "inventory" => new.left = <<<<"inventory", "pinned">>>>
  BY Roles DEF Begun, NoTemp
<1>3. Gguf(job) => (CHOOSE d \in Outputs(job) : TRUE) \in Outputs(job)
  BY Roles
<1>4. job = "backbone" => fs["manifest"] # None /\ Expected(job) = fs["manifest"].ver
  BY <1>1 DEF Accepts, Parses, Exists, Expected, Version
<1>5. job # "backbone" => Expected(job) = "pinned"
  BY DEF Expected
<1> HIDE DEF new
<1>6. Converted(new) \/ ~Gguf(job)
  BY <1>2, <1>3 DEF Converted
<1>7. job = "extract" => Extracted(new, fs)
  BY <1>2 DEF Extracted, LinkedBackbone, LinkedRest, Reporting, Safe
<1>8. Untouched(new, fs)
  BY <1>1, <1>2 DEF Untouched
<1>9. Tied(new, fs)
  BY <1>1, <1>2, <1>4, <1>5, <1>6, <1>7, <1>8 DEF Tied
<1> QED
  BY <1>1, <1>9, OnlyTied

\* The steps between the opening of the source and the link.
LEMMA StreamingTied ==
    ASSUME FilesInv, Pinned, NEW p \in Procs,
           Open(p) \/ Begin(p) \/ Stream(p) \/ Sync(p) \/ Readback(p) \/ Rehash(p)
    PROVE  Pinned'
<1> DEFINE me == proc[p]
<1>0. /\ me \in ProcType /\ proc \in [Procs -> ProcType] /\ me.pc # "idle"
      /\ Placed(me) /\ Equipped(me, fs) /\ Tied(me, fs) /\ UNCHANGED fs
  <2>1. me.pc # "idle" /\ UNCHANGED fs
    BY DEF Open, Begin, Stream, Sync, Readback, Rehash
  <2> QED
    BY <2>1, OfOne DEF FilesInv, FilesTypeOK, ProcType, Pinned, AllTied
<1>1. me.job \in Jobs /\ me.pc \in DOMAIN Tools[me.job].flow
  BY <1>0 DEF Placed
<1>2. /\ me.pc \in {"open", "begin", "stream", "sync", "readback", "rehash"}
      /\ me.pc \notin Reporting \cup {"record"}
  BY DEF Open, Begin, Stream, Sync, Readback, Rehash, Reporting
<1>3. CASE me.job = "inventory"
  <2> DEFINE new == [me EXCEPT !.src = "live", !.pc = Then(p)]
  <2>1. Open(p)
    BY <1>1, <1>3, Follows DEF Open, Begin, Stream, Sync, Readback, Rehash
  <2>2. proc' = [proc EXCEPT ![p] = new]
    BY <1>0, <2>1 DEF Open
  <2>3. new.job = me.job /\ new.left = me.left /\ new.expect = me.expect
    BY <1>0 DEF ProcType
  <2> HIDE DEF new
  <2>4. Tied(new, fs)
    BY <1>0, <1>3, <2>3, InventoryOn
  <2> QED
    BY <1>0, <2>2, <2>4, OnlyTied
<1>4. CASE me.job # "inventory"
  <2>0. /\ Then(p) = Tools[me.job].flow[me.pc]
        /\ Then(p) \notin Reporting \cup {"record"}
        /\ Gguf(me.job) /\ Then(p) = "link" => me.pc = "rehash"
    BY <1>1, <1>2, <1>4, Follows, Roles DEF Then, Reporting
  <2>1. ASSUME NEW new, proc' = [proc EXCEPT ![p] = new],
               new.job = me.job, new.dest = me.dest, new.expect = me.expect, new.left = me.left,
               new.pc \notin Reporting \cup {"record"},
               Untouched(me, fs) /\ me.temp.ver \in {None, me.expect}
                   => new.src = "live" /\ new.temp.ver \in {None, me.expect},
               Gguf(me.job) /\ new.pc = "link" => new.temp.ver = me.expect
        PROVE  Pinned'
    <3>1. Tied(new, fs)
      BY <1>0, <1>2, <1>4, <2>1, StreamsOn
    <3> QED
      BY <1>0, <2>1, <3>1, OnlyTied
  <2>2. CASE Open(p)
    <3> DEFINE new == [me EXCEPT !.src = "live", !.pc = Then(p)]
    <3>1. proc' = [proc EXCEPT ![p] = new] /\ me.pc = "open"
      BY <1>0, <2>2 DEF Open
    <3>2. /\ new.job = me.job /\ new.dest = me.dest /\ new.expect = me.expect /\ new.left = me.left
          /\ new.pc = Then(p) /\ new.src = "live" /\ new.temp = me.temp
      BY <1>0 DEF ProcType
    <3> HIDE DEF new
    <3> QED
      BY <2>0, <2>1, <3>1, <3>2
  <2>3. CASE Begin(p)
    <3> DEFINE new == [me EXCEPT !.pc = Then(p), !.k = 0,
                                 !.temp = [ver |-> None, size |-> HeaderBytes]]
    <3>1. proc' = [proc EXCEPT ![p] = new] /\ me.pc = "begin"
      BY <1>0, <2>3 DEF Begin
    <3>2. /\ new.job = me.job /\ new.dest = me.dest /\ new.expect = me.expect /\ new.left = me.left
          /\ new.pc = Then(p) /\ new.src = me.src /\ new.temp.ver = None
      BY <1>0 DEF ProcType
    <3> HIDE DEF new
    <3> QED
      BY <2>0, <2>1, <3>1, <3>2 DEF Untouched
  <2>4. CASE Stream(p)
    <3> DEFINE n   == 4 * Elements[me.k + 1]
               temp == [ver |-> Mix(me.temp.ver, Read(p)), size |-> me.temp.size + n + Padding(me.job, n)]
               pc  == IF me.k + 1 = Len(Elements) THEN Then(p) ELSE "stream"
               new == [me EXCEPT !.temp = temp, !.k = me.k + 1, !.pc = pc]
    <3>1. proc' = [proc EXCEPT ![p] = new] /\ me.pc = "stream"
      BY <1>0, <2>4 DEF Stream, ProcType
    <3>2. temp.ver = Mix(me.temp.ver, Read(p)) /\ pc \in {Then(p), "stream"}
      OBVIOUS
    <3> HIDE DEF temp, pc
    <3>3. /\ new.job = me.job /\ new.dest = me.dest /\ new.expect = me.expect /\ new.left = me.left
          /\ new.pc = pc /\ new.src = me.src /\ new.temp = temp
      BY <1>0 DEF ProcType
    <3> HIDE DEF new
    <3>4. Untouched(me, fs) => Read(p) = me.expect
      BY <1>0, <3>1 DEF Untouched, Read, Version, Exists, Tied
    <3> QED
      BY <2>0, <2>1, <3>1, <3>2, <3>3, <3>4 DEF Untouched, Mix, Reporting
  <2>5. CASE Sync(p) \/ Readback(p) \/ Rehash(p)
    <3> DEFINE new == [me EXCEPT !.pc = Then(p)]
    <3>1. proc' = [proc EXCEPT ![p] = new] /\ me.pc \in {"sync", "readback", "rehash"}
      BY <1>0, <2>5 DEF Sync, Readback, Rehash, Step
    <3>2. /\ new.job = me.job /\ new.dest = me.dest /\ new.expect = me.expect /\ new.left = me.left
          /\ new.pc = Then(p) /\ new.src = me.src /\ new.temp = me.temp
      BY <1>0 DEF ProcType
    <3> HIDE DEF new
    <3>3. Gguf(me.job) /\ Then(p) = "link" => me.temp.ver = me.expect
      <4> SUFFICES ASSUME Gguf(me.job), Then(p) = "link" PROVE me.temp.ver = me.expect
        OBVIOUS
      <4>1. Rehash(p) /\ me.pc = "rehash"
        BY <2>0, <2>5 DEF Sync, Readback, Rehash
      <4>2. fs[Source(me.job)].ver = me.expect
        BY <1>0, <4>1 DEF Rehash, Version, Exists, Tied
      <4>3. me.temp.ver \in {None, me.expect} /\ me.temp.ver \in Versions
        BY <1>0, <1>4, <4>1, <4>2 DEF Tied, Spoiled, Equipped
      <4> QED
        BY <4>3, FilesAssumption DEF FilesAssumption
    <3> QED
      BY <2>0, <2>1, <3>1, <3>2, <3>3 DEF Untouched
  <2> QED
    BY <2>2, <2>3, <2>4, <2>5
<1> QED
  BY <1>3, <1>4


\* The link: what a converter links is what its manifest or itself expects, and
\* what an extraction links is pinned or its source is spoiled.
LEMMA LinkTied ==
    ASSUME FilesInv, Pinned, NEW p \in Procs, Link(p)
    PROVE  Pinned'
<1> DEFINE me   == proc[p]
           dest == me.dest
           file == File(me.temp.ver, me.temp.size = HeaderBytes + Offset(me.job, Len(Elements)))
           new  == IF Then(p) = "idle" THEN Idle ELSE [me EXCEPT !.pc = Then(p), !.temp = NoTemp]
<1>0. /\ me \in ProcType /\ proc \in [Procs -> ProcType] /\ me.pc = "link"
      /\ Placed(me) /\ Equipped(me, fs) /\ Tied(me, fs)
      /\ fs \in [Paths -> FileType \cup {None}]
  <2>1. me.pc = "link"
    BY DEF Link
  <2> QED
    BY <2>1, OfOne DEF FilesInv, FilesTypeOK, ProcType, Pinned, AllTied
<1>1. me.job \in Jobs /\ me.pc \in DOMAIN Tools[me.job].flow /\ me.job # "inventory"
  BY <1>0, Follows DEF Placed
<1>2. IF Gguf(me.job) THEN Then(p) = "idle" ELSE me.job = "extract" /\ Then(p) = "record"
  BY <1>0, <1>1, Roles, Places DEF Then
<1>3. me.temp.ver \in Versions /\ me.temp.ver # None /\ dest \in Paths
  BY <1>0, <1>1, FilesAssumption DEF Equipped, FilesAssumption, Reporting, Paths
<1>4. file.ver = me.temp.ver /\ file.edits = 0
  BY DEF File
<1>5. proc' = [proc EXCEPT ![p] = new] /\ fs' = [fs EXCEPT ![dest] = file] /\ fs[dest] = None
  BY DEF Link, Linked, Exists
<1> HIDE DEF file
<1>6. fs'[dest] = file /\ \A path \in Paths : path # dest => fs'[path] = fs[path]
  BY <1>0, <1>3, <1>5
<1>7. Same(fs, fs') /\ fs'[dest] # None
  <2>1. fs' \in [Paths -> FileType \cup {None}] /\ Tool(p)
    BY ToolStep DEF Tool, FilesInv, FilesTypeOK
  <2>2. file \in FileType
    BY <1>3 DEF file, File, FileType
  <2> QED
    BY <1>6, <2>1, <2>2, ToolSame, FilesAssumption DEF FilesAssumption
<1>8. Tied(me, fs')
  BY <1>0, <1>7, TiedKept
<1>9. CASE Gguf(me.job)
  <2>1. new = Idle /\ Idle.pc = "idle"
    BY <1>2, <1>9 DEF Idle
  <2>2. dest \in Outputs(me.job) /\ file.ver = me.expect
    BY <1>0, <1>4, <1>9 DEF Tied, Converted
  <2>3. /\ dest = (IF me.job = "backbone" THEN "dino_gguf"
                   ELSE IF me.job = "branch" THEN "branch_gguf" ELSE "mhr_gguf")
        /\ me.job \in {"backbone", "branch", "mhr"}
    BY <1>1, <1>9, <2>2, Roles
  <2>4. dest \in Ggufs /\ dest \notin Safe /\ dest # "manifest"
    BY <2>3, Names DEF Ggufs
  <2>5. AllTied'
    <3> HIDE DEF new
    <3> QED
      BY <1>5, <1>7, <2>1, OthersTied DEF Pinned
  <2>6. fs'["manifest"] = fs["manifest"] /\ Version("manifest")' = Version("manifest")
    BY <1>6, <2>4, Names DEF Version, Exists
  <2>7. me.job = "backbone" => fs["manifest"] # None /\ Version("manifest") = me.expect
    BY <1>0 DEF Tied, Version, Exists
  <2>8. me.job # "backbone" => me.expect = "pinned"
    BY <1>0 DEF Tied
  <2>9. HasManifest'
    BY <1>6, <2>3, <2>6, <2>7, Names DEF Pinned, HasManifest, Exists, Ggufs
  <2>10. GgufContents'
    <3> SUFFICES ASSUME NEW path \in Ggufs, fs'[path] # None, fs'[path].edits = 0
                 PROVE  fs'[path].ver = (IF path = "dino_gguf" THEN Version("manifest") ELSE "pinned")
      BY <2>6 DEF GgufContents, Exists
    <3>1. CASE path = dest
      BY <1>6, <2>2, <2>3, <2>7, <2>8, <3>1
    <3>2. CASE path # dest
      BY <1>6, <3>2, Names DEF Pinned, GgufContents, Exists
    <3> QED
      BY <3>1, <3>2
  <2>11. ExtractionContents'
    <3>1. \A path \in Safe : fs'[path] = fs[path]
      BY <1>6, <2>4, Names
    <3> QED
      BY <2>6, <3>1 DEF Pinned, ExtractionContents, Parses, Exists
  <2> QED
    BY <2>5, <2>9, <2>10, <2>11 DEF Pinned
<1>10. CASE ~Gguf(me.job)
  <2>1. me.job = "extract" /\ Then(p) = "record" /\ new = [me EXCEPT !.pc = "record", !.temp = NoTemp]
    BY <1>2, <1>10
  <2>2. /\ new.job = me.job /\ new.dest = me.dest /\ new.expect = me.expect /\ new.left = me.left
        /\ new.pc = "record" /\ new.src = me.src /\ new.temp.ver = None
    BY <1>0, <2>1 DEF ProcType, NoTemp
  <2> HIDE DEF new
  <2>3. dest \in Safe /\ dest # "manifest" /\ dest \notin Ggufs
    BY <1>0, <2>1, Names DEF Tied, Extracted, Reporting, Safe, Ggufs
  <2>4. Spoiled(new, fs') <=> Spoiled(me, fs')
    BY <2>2 DEF Spoiled
  <2>5. \/ Untouched(new, fs') /\ new.temp.ver \in {None, new.expect} /\ me.temp.ver = "pinned"
        \/ Spoiled(new, fs')
    BY <1>0, <1>3, <1>8, <2>1, <2>2, <2>4 DEF Tied, Untouched
  <2>6. Held(dest, new, fs')
    BY <1>4, <1>6, <1>7, <2>2, <2>5 DEF Held
  <2>7. dest = "rest_safe" => Held("backbone_safe", new, fs')
    BY <1>0, <1>8, <2>1, <2>2, <2>4 DEF Tied, Extracted, LinkedBackbone, Held
  <2>8. Extracted(new, fs')
    BY <2>2, <2>3, <2>6, <2>7 DEF Extracted, LinkedBackbone, LinkedRest, Reporting, Safe
  <2>9. Tied(new, fs')
    BY <1>8, <1>10, <2>1, <2>2, <2>5, <2>8 DEF Tied
  <2>10. AllTied'
    BY <1>5, <1>7, <2>9, OthersTied DEF Pinned
  <2>11. fs'["manifest"] = fs["manifest"] /\ \A path \in Ggufs : fs'[path] = fs[path]
    BY <1>6, <2>3, Names
  <2>12. HasManifest' /\ GgufContents'
    BY <2>11 DEF Pinned, HasManifest, GgufContents, Exists, Version, Ggufs
  <2>13. ~Parses("manifest")
    BY <1>5, <2>3 DEF Pinned, ExtractionContents, Exists
  <2>14. ExtractionContents'
    BY <2>11, <2>13 DEF ExtractionContents, Parses, Exists
  <2> QED
    BY <2>10, <2>12, <2>14 DEF Pinned
<1> QED
  BY <1>9, <1>10

\* The next half, or the reports: a tool that goes on to those has looked at
\* the checkpoint once more, which was not spoiled then.
LEMMA RecordTied ==
    ASSUME FilesInv, Pinned, NEW p \in Procs, Record(p) \/ Recheck(p)
    PROVE  Pinned'
<1> DEFINE me == proc[p]
<1>0. /\ me \in ProcType /\ proc \in [Procs -> ProcType] /\ me.pc \in {"record", "recheck"}
      /\ Placed(me) /\ Equipped(me, fs) /\ Tied(me, fs) /\ UNCHANGED fs
  <2>1. me.pc \in {"record", "recheck"} /\ UNCHANGED fs
    BY DEF Record, Recheck
  <2> QED
    BY <2>1, OfOne DEF FilesInv, FilesTypeOK, ProcType, Pinned, AllTied
<1>1. /\ me.job \in Jobs /\ me.pc \in DOMAIN Tools[me.job].flow /\ ~Gguf(me.job)
      /\ me.job \in {"extract", "inventory"}
  BY <1>0, Roles, Places DEF Placed, Reporting
<1>2. CASE Record(p)
  <2> DEFINE first == [me EXCEPT !.pc = "begin", !.dest = "rest_safe",
                                 !.left = <<<<"manifest", Version(me.dest)>>>>]
             last  == [me EXCEPT !.pc = Then(p), !.dest = None,
                                 !.left = Append(me.left, <<"extraction", Version(me.dest)>>)]
             new   == IF me.dest = "backbone_safe" THEN first ELSE last
  <2>1. proc' = [proc EXCEPT ![p] = new] /\ me.pc = "record"
    BY <1>0, <1>2 DEF Record, ProcType
  <2>2. me.job = "extract" /\ Then(p) = "recheck"
    BY <1>1, <2>1, Follows DEF Then
  <2>3. /\ new.job = me.job /\ new.expect = me.expect /\ new.src = me.src /\ new.temp = me.temp
        /\ IF me.dest = "backbone_safe" THEN new.pc = "begin" /\ new.dest = "rest_safe"
           ELSE new.pc = "recheck" /\ new.dest = None
    BY <1>0, <2>2 DEF ProcType
  <2> HIDE DEF new
  <2>4. Spoiled(new, fs) <=> Spoiled(me, fs)
    BY <2>3 DEF Spoiled
  <2>5. Extracted(me, fs)
    BY <1>0, <2>2 DEF Tied
  <2>6. Held("backbone_safe", new, fs)
    BY <2>1, <2>3, <2>4, <2>5 DEF Extracted, LinkedBackbone, Held
  <2>7. me.dest # "backbone_safe" => Held("rest_safe", new, fs)
    BY <2>1, <2>3, <2>4, <2>5 DEF Extracted, LinkedRest, Held, Reporting, Safe
  <2>8. Extracted(new, fs)
    BY <2>3, <2>6, <2>7 DEF Extracted, LinkedBackbone, LinkedRest, Reporting, Safe
  <2>9. Tied(new, fs)
    BY <1>0, <1>1, <2>1, <2>2, <2>3, <2>4, <2>8 DEF Tied, Untouched
  <2> QED
    BY <1>0, <2>1, <2>9, OnlyTied
<1>3. CASE Recheck(p)
  <2> DEFINE new == [me EXCEPT !.pc = Then(p)]
  <2>1. /\ proc' = [proc EXCEPT ![p] = new] /\ me.pc = "recheck" /\ Then(p) = "json"
        /\ Version("ckpt") = "pinned"
    BY <1>0, <1>1, <1>3, Follows DEF Recheck, Step, Then
  <2>2. /\ new.job = me.job /\ new.expect = me.expect /\ new.src = me.src /\ new.temp = me.temp
        /\ new.left = me.left /\ new.dest = me.dest /\ new.pc = "json"
    BY <1>0, <2>1 DEF ProcType
  <2> HIDE DEF new
  <2>3. CASE me.job = "inventory"
    <3>1. Tied(new, fs)
      BY <1>0, <2>2, <2>3, InventoryOn
    <3> QED
      BY <1>0, <2>1, <3>1, OnlyTied
  <2>4. CASE me.job = "extract"
    <3>1. Source(me.job) = "ckpt" /\ me.expect = "pinned"
      BY <1>0, <1>1, <2>4, Roles DEF Tied
    <3>2. fs["ckpt"].ver = "pinned" /\ ~Spoiled(me, fs)
      BY <1>0, <2>1, <3>1 DEF Tied, Version, Exists, Spoiled
    <3>3. Held("backbone_safe", new, fs) /\ Held("rest_safe", new, fs)
      BY <1>0, <2>1, <2>4, <3>2 DEF Tied, Extracted, LinkedBackbone, LinkedRest, Held, Reporting
    <3>4. Tied(new, fs)
      BY <1>0, <1>1, <2>1, <2>2, <2>4, <3>2, <3>3
      DEF Tied, Untouched, Spoiled, Extracted, Reporting
    <3> QED
      BY <1>0, <2>1, <3>4, OnlyTied
  <2> QED
    BY <1>1, <2>3, <2>4
<1> QED
  BY <1>2, <1>3


\* A report is opened and dumped: the manifest comes last of all that it names.
LEMMA JsonTied ==
    ASSUME FilesInv, Pinned, NEW p \in Procs, OpenJson(p) \/ DumpJson(p)
    PROVE  Pinned'
<1> DEFINE me   == proc[p]
           name == Head(me.left)[1]
<1>0. /\ me \in ProcType /\ proc \in [Procs -> ProcType] /\ me.pc \in {"json", "dump"}
      /\ Placed(me) /\ Equipped(me, fs) /\ Tied(me, fs)
      /\ fs \in [Paths -> FileType \cup {None}]
  <2>1. me.pc \in {"json", "dump"}
    BY DEF OpenJson, DumpJson
  <2> QED
    BY <2>1, OfOne DEF FilesInv, FilesTypeOK, ProcType, Pinned, AllTied
<1>1. me.left \in Seq(Reports \X Versions) /\ me.left # <<>>
  BY <1>0 DEF ProcType, Equipped, Reporting
<1>2. name \in Reports /\ name \in Paths
  BY <1>1, Lists DEF Paths
<1>3. /\ me.job \in Jobs /\ me.pc \in DOMAIN Tools[me.job].flow
      /\ ~Gguf(me.job) /\ me.job \in {"extract", "inventory"}
  BY <1>0, Roles, Places DEF Placed, Reporting
<1>4. Same(fs, fs')
  BY ToolSame DEF Tool
<1>5. Tied(me, fs')
  BY <1>0, <1>4, TiedKept
<1>6. \A path \in Paths : path # name => fs'[path] = fs[path]
  BY <1>0, <1>2 DEF OpenJson, DumpJson
<1>7. \A path \in Ggufs \cup Safe : path \in Paths /\ fs'[path] = fs[path]
  BY <1>2, <1>6, Names
<1>8. HasManifest'
  BY <1>4, <1>7, Names DEF Same, Pinned, HasManifest, Exists, Ggufs
<1>9. GgufContents'
  <2> SUFFICES ASSUME NEW path \in Ggufs, fs[path] # None, fs[path].edits = 0
               PROVE  fs[path].ver = (IF path = "dino_gguf" THEN Version("manifest")' ELSE "pinned")
    BY <1>7 DEF GgufContents, Exists
  <2>1. fs[path].ver = (IF path = "dino_gguf" THEN Version("manifest") ELSE "pinned")
    BY DEF Pinned, GgufContents, Exists
  <2>2. path = "dino_gguf" => fs["manifest"] # None
    BY DEF Pinned, HasManifest, Exists
  <2>3. fs["manifest"] # None => Version("manifest")' = Version("manifest")
    BY <1>4, Names DEF Same, Version, Exists
  <2> QED
    BY <2>1, <2>2, <2>3
<1>10. ASSUME NEW new, proc' = [proc EXCEPT ![p] = new],
              new.pc = "idle" \/ Tied(new, fs'),
              name = "manifest" => ~Parses("manifest")' \/ (me.pc = "dump" /\ me.job = "extract")
       PROVE  Pinned'
  <2>1. AllTied'
    BY <1>4, <1>10, OthersTied DEF Pinned
  <2>2. ExtractionContents'
    <3> SUFFICES ASSUME Parses("manifest")', NEW path \in Safe
                 PROVE  fs[path] # None /\ (fs[path].edits = 0 => fs[path].ver = "pinned")
      BY <1>7 DEF ExtractionContents, Exists
    <3>1. CASE name # "manifest"
      <4>1. Parses("manifest")
        BY <1>6, <3>1, Names DEF Parses, Exists
      <4> QED
        BY <4>1 DEF Pinned, ExtractionContents, Exists
    <3>2. CASE name = "manifest"
      <4>1. me.pc = "dump" /\ me.job = "extract"
        BY <1>10, <3>2
      <4>2. Held("backbone_safe", me, fs) /\ Held("rest_safe", me, fs)
        BY <1>0, <4>1 DEF Tied, Extracted, LinkedBackbone, LinkedRest, Reporting
      <4> QED
        BY <4>1, <4>2, Names DEF Held
    <3> QED
      BY <3>1, <3>2
  <2> QED
    BY <1>8, <1>9, <2>1, <2>2 DEF Pinned
<1>11. ASSUME NEW new, new.job = me.job, new.expect = me.expect, new.src = me.src, new.temp = me.temp,
              new.dest = me.dest, me.job = "inventory" => new.left = me.left, new.pc \in {"json", "dump"}
       PROVE  Tied(new, fs')
  <2>1. Spoiled(new, fs') <=> Spoiled(me, fs')
    BY <1>11 DEF Spoiled
  <2>2. Extracted(me, fs') => Extracted(new, fs')
    BY <1>0, <1>11, <2>1 DEF Extracted, LinkedBackbone, LinkedRest, Held, Reporting
  <2> QED
    BY <1>0, <1>3, <1>5, <1>11, <2>1, <2>2 DEF Tied, Untouched
<1>12. CASE OpenJson(p)
  <2> DEFINE new == [me EXCEPT !.pc = Then(p)]
  <2>1. proc' = [proc EXCEPT ![p] = new] /\ Then(p) = "dump"
    BY <1>0, <1>3, <1>12, Follows DEF OpenJson, Step, Then
  <2>2. /\ new.job = me.job /\ new.expect = me.expect /\ new.src = me.src /\ new.temp = me.temp
        /\ new.dest = me.dest /\ new.left = me.left /\ new.pc = "dump"
    BY <1>0, <2>1 DEF ProcType
  <2> HIDE DEF new
  <2>3. Tied(new, fs')
    BY <1>11, <2>2
  <2>4. fs'[name] = File(Head(me.left)[2], FALSE)
    BY <1>0, <1>2, <1>12 DEF OpenJson
  <2>5. name = "manifest" => ~Parses("manifest")'
    BY <2>4 DEF Parses, File
  <2> QED
    BY <1>10, <2>1, <2>3, <2>5
<1>13. CASE DumpJson(p)
  <2> DEFINE on  == [me EXCEPT !.pc = Then(p), !.left = Tail(me.left)]
             new == IF Len(me.left) = 1 THEN Idle ELSE on
  <2>1. proc' = [proc EXCEPT ![p] = new] /\ me.pc = "dump" /\ Then(p) = "json"
    BY <1>0, <1>3, <1>13, Follows DEF DumpJson, Then, ProcType
  <2>2. /\ on.job = me.job /\ on.expect = me.expect /\ on.src = me.src /\ on.temp = me.temp
        /\ on.dest = me.dest /\ on.pc = "json"
    BY <1>0, <2>1 DEF ProcType
  <2>3. me.job = "inventory" => Len(me.left) = 1 /\ name = "inventory"
    BY <1>0 DEF Tied
  <2>4. Idle.pc = "idle"
    BY DEF Idle
  <2> HIDE DEF on
  <2>5. new.pc = "idle" \/ Tied(new, fs')
    <3>1. CASE Len(me.left) = 1
      BY <2>4, <3>1
    <3>2. CASE Len(me.left) # 1
      <4>1. Tied(on, fs')
        BY <1>11, <2>2, <2>3, <3>2
      <4> QED
        BY <3>2, <4>1
    <3> QED
      BY <3>1, <3>2
  <2>6. name = "manifest" => me.job = "extract"
    BY <1>3, <2>3
  <2> HIDE DEF new
  <2> QED
    BY <1>10, <2>1, <2>5, <2>6
<1> QED
  BY <1>12, <1>13

\* Every step of a tool.
LEMMA ToolTied ==
    ASSUME FilesInv, Pinned, NEW p \in Procs, Tool(p)
    PROVE  Pinned'
<1>1. CASE Stop(p)
  <2>1. Idle.pc = "idle"
    BY DEF Idle
  <2> QED
    BY <1>1, <2>1, OnlyTied DEF Stop
<1> QED
  BY <1>1, StartTied, StreamingTied, LinkTied, RecordTied, JsonTied DEF Tool

\* A file is changed for the first time: it spoils the tools that read it, and
\* no longer counts as made by a tool.
LEMMA ChangeTied ==
    ASSUME FilesInv, Pinned, NEW path \in Editable, NEW ver \in {"pinned", "alike", "broken"},
           Edit(path, ver) \/ Replace(path, ver), ~twice'
    PROVE  Pinned'
<1> DEFINE file == [ver |-> ver, whole |-> TRUE, edits |-> fs[path].edits + 1]
<1>0. /\ proc \in [Procs -> ProcType] /\ fs \in [Paths -> FileType \cup {None}]
      /\ path \in Paths /\ path \notin Reports /\ fs[path] # None /\ fs[path] \in FileType
      /\ ver # fs[path].ver
  BY FilesAssumption
  DEF FilesAssumption, FilesInv, FilesTypeOK, ProcType, Edit, Replace, Changed, Exists, Version
<1>1. fs[path].edits = 0
  <2>1. fs[path].edits \in Nat /\ ~(fs[path].edits > 0)
    BY <1>0 DEF FileType, Edit, Replace, Changed
  <2> QED
    BY <2>1
<1>2. file.edits = 1 /\ file.ver = ver /\ file \in FileType /\ fs' = [fs EXCEPT ![path] = file]
  BY <1>0, <1>1 DEF FileType, Versions, Edit, Replace, Changed
<1> HIDE DEF file
<1>3. /\ fs'[path] = file /\ fs'[path] # None
      /\ \A q \in Paths : q # path => fs'[q] = fs[q]
      /\ \A q \in Paths : (fs'[q] # None <=> fs[q] # None)
  BY <1>0, <1>2, FilesAssumption DEF FilesAssumption
<1>4. fs'["manifest"] = fs["manifest"] /\ "manifest" \in Paths
  BY <1>0, <1>3, Names
<1>5. ASSUME NEW q \in Procs, proc'[q].pc # "idle"
      PROVE  Tied(proc'[q], fs')
  <2> DEFINE me  == proc[q]
             new == proc'[q]
  <2>1. /\ new.job = me.job /\ new.pc = me.pc /\ new.temp = me.temp /\ new.dest = me.dest
        /\ new.left = me.left /\ new.expect = me.expect
        /\ Source(me.job) # path => new.src = me.src
    <3>1. CASE Edit(path, ver)
      BY <1>0, <3>1 DEF Edit
    <3>2. CASE Replace(path, ver)
      BY <1>0, <3>2 DEF Replace, ProcType
    <3> QED
      BY <3>1, <3>2
  <2>2. Tied(me, fs) /\ Placed(me) /\ Source(me.job) \in Paths
    BY <1>5, <2>1, OfOne, Places DEF Pinned, AllTied, Placed
  <2> HIDE DEF new, me
  <2>3. Spoiled(me, fs) => Spoiled(new, fs')
    BY <1>1, <1>3, <2>1, <2>2 DEF Spoiled
  <2>4. Untouched(me, fs) => \/ Untouched(new, fs')
                             \/ Spoiled(new, fs')
    <3>1. CASE Source(me.job) = path
      BY <1>0, <1>2, <1>3, <2>1, <3>1 DEF Untouched, Spoiled
    <3>2. CASE Source(me.job) # path
      BY <1>3, <2>1, <2>2, <3>2 DEF Untouched
    <3> QED
      BY <3>1, <3>2
  <2>5. \A h \in Paths : Held(h, me, fs) => Held(h, new, fs')
    BY <1>2, <1>3, <2>1, <2>3 DEF Held
  <2>6. me.job = "extract" => Extracted(new, fs')
    BY <2>1, <2>2, <2>5, Names DEF Tied, Extracted, LinkedBackbone, LinkedRest
  <2>7. Gguf(me.job) => Converted(new)
    BY <2>1, <2>2 DEF Tied, Converted
  <2>8. fs'[Source(me.job)] # None
    BY <1>3, <2>2 DEF Tied
  <2>9. Tied(new, fs')
    BY <1>4, <2>1, <2>2, <2>3, <2>4, <2>6, <2>7, <2>8 DEF Tied
  <2> QED
    BY <2>9 DEF new
<1>6. HasManifest'
  BY <1>3, <1>4, Names DEF Pinned, HasManifest, Exists, Ggufs
<1>7. GgufContents'
  <2> SUFFICES ASSUME NEW g \in Ggufs, fs'[g] # None, fs'[g].edits = 0
               PROVE  fs'[g].ver = (IF g = "dino_gguf" THEN Version("manifest") ELSE "pinned")
    BY <1>4 DEF GgufContents, Exists, Version
  <2>1. g # path /\ g \in Paths
    BY <1>2, <1>3, Names
  <2> QED
    BY <1>3, <2>1 DEF Pinned, GgufContents, Exists
<1>8. ExtractionContents'
  <2> SUFFICES ASSUME Parses("manifest"), NEW h \in Safe
               PROVE  fs'[h] # None /\ (fs'[h].edits = 0 => fs'[h].ver = "pinned")
    BY <1>4 DEF ExtractionContents, Exists, Parses
  <2>1. h \in Paths /\ fs[h] # None /\ (fs[h].edits = 0 => fs[h].ver = "pinned")
    BY Names DEF Pinned, ExtractionContents, Exists
  <2> QED
    BY <1>2, <1>3, <2>1
<1> QED
  BY <1>5, <1>6, <1>7, <1>8 DEF Pinned, AllTied

-----------------------------------------------------------------------------

\* What is there at the start is pinned.
LEMMA PinnedStarts == PubInit => PinnedInv
<1> SUFFICES ASSUME PubInit PROVE Pinned
  BY PubStarts DEF PinnedInv
<1>1. fs = [path \in Paths |-> IF path \in Present THEN File("pinned", TRUE) ELSE None]
      /\ \A p \in Procs : proc[p].pc = "idle"
  BY DEF PubInit, Init, Idle
<1>2. File("pinned", TRUE) \in FileType /\ File("pinned", TRUE).ver = "pinned"
  BY DEF File, FileType, Versions
<1>3. \A path \in Paths : /\ fs[path] # None <=> path \in Present
                          /\ path \in Present => fs[path].ver = "pinned"
  BY <1>1, <1>2, FilesAssumption DEF FilesAssumption
<1> QED
  BY <1>1, <1>3, Names, PresentAssumption
  DEF Pinned, AllTied, HasManifest, GgufContents, ExtractionContents, Exists, Version, Parses,
      PresentAssumption, Ggufs, Safe

\* Every step keeps the invariant while no file has changed twice.
LEMMA PinnedStep == PinnedInv /\ [PubNext]_vars => PinnedInv'
<1> SUFFICES ASSUME PinnedInv, [PubNext]_vars, ~twice' PROVE Pinned'
  BY PubStep DEF PinnedInv
<1>1. FilesInv /\ twice \in BOOLEAN
  BY DEF PinnedInv, PubInv, FilesInv, FilesTypeOK
<1>2. ASSUME UNCHANGED <<fs, proc, twice>> PROVE Pinned'
  BY <1>2
  DEF PinnedInv, Pinned, AllTied, HasManifest, GgufContents, ExtractionContents, Exists, Version,
      Parses
<1>3. ASSUME NEW p \in Procs, Tool(p) PROVE Pinned'
  <2>1. twice' = twice
    BY <1>3 DEF Tool, Start, Open, Begin, Stream, Sync, Readback, Rehash, Link, Linked, Record,
       Recheck, OpenJson, DumpJson, Stop
  <2> QED
    BY <1>1, <1>3, <2>1, ToolTied DEF PinnedInv
<1>4. ASSUME NEW path \in Editable, NEW ver \in {"pinned", "alike", "broken"},
             EditFile(path, ver) \/ ReplaceFile(path, ver)
      PROVE  Pinned'
  <2>1. Edit(path, ver) \/ Replace(path, ver)
    BY <1>4 DEF EditFile, ReplaceFile
  <2>2. ~twice
    <3>1. twice' = (twice \/ fs[path].edits > 0)
      BY <2>1 DEF Edit, Replace, Changed
    <3> QED
      BY <3>1
  <2> QED
    BY <1>1, <2>1, <2>2, ChangeTied DEF PinnedInv
<1> QED
  BY <1>2, <1>3, <1>4 DEF PubNext, Publish, vars, files, Prepare, OpenModel, HashModel,
     ReadDocuments, ReadState, CheckSource, FindParent, AddModels, Commit, GiveUp, MoveCheckout,
     MoveRemote

\* A converted file holds what its manifest or its converter pins, and a
\* manifest that parses stands for a complete extraction of the release, for
\* any interleaving of tools, interruptions and changes beneath them in which
\* no file changes a second time.
THEOREM ContentsArePinnedTheorem == PubSpec => []ContentsArePinned
<1>1. PinnedInv => ContentsArePinned
  <2>1. CASE twice
    BY <2>1 DEF ContentsArePinned, GgufIsPinned, ExtractionIsPinned
  <2>2. CASE ~twice
    BY <2>2 DEF PinnedInv, Pinned, GgufContents, ExtractionContents, ContentsArePinned, GgufIsPinned,
       ExtractionIsPinned
  <2> QED
    BY <2>1, <2>2
<1> QED
  BY <1>1, PinnedStarts, PinnedStep, PTL DEF PubSpec

=============================================================================
