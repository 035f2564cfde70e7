------------------------------ MODULE ModelFiles ------------------------------
(***************************************************************************)
(* From the released checkpoint to the three GGUF files of the Body        *)
(* pipeline (reference/extract_body_checkpoint.py,                         *)
(* reference/inventory_checkpoint.py, scripts/safe_tensor_stream.py,       *)
(* scripts/convert_gguf.py, convert_body_branch.py, convert_mhr_gguf.py).  *)
(*                                                                         *)
(* The tools run as separate processes over one directory tree.  A tool    *)
(* hashes its source by path, opens it again, streams it tensor by tensor  *)
(* into a temporary file, checks the result and links it to its final      *)
(* name.  Any tool may raise or be killed at any step, two of them may     *)
(* write the same name, and files may be replaced or edited beneath them.  *)
(*                                                                         *)
(* The bytes of a file are abstracted to the version of the weights they   *)
(* hold: "pinned" is the release, "alike" has its names and shapes,        *)
(* "broken" does not pass the schema, "mixed" was read while it changed.   *)
(* An open source is "live" while its path still names the file that was   *)
(* opened, and otherwise the version that file had when it was replaced.   *)
(* A temporary file belongs to the process that writes it: no other tool   *)
(* knows its name.                                                         *)
(***************************************************************************)
EXTENDS Naturals, Sequences

CONSTANTS
    Procs,        \* the processes that may run a tool
    None,
    Present,      \* paths that exist, complete and pinned, at the start
    Editable,     \* paths that something else may change
    Elements,     \* the number of 4-byte elements of each tensor, by name
    HeaderBytes,  \* the length of an encoded header
    MaxStarts,    \* bound: tools started
    MaxEdits      \* bound: changes made to files by anything else

Sources  == {"ckpt", "mhr_state"}
Safe     == {"backbone_safe", "rest_safe"}
Ggufs    == {"dino_gguf", "branch_gguf", "mhr_gguf"}
Reports  == {"manifest", "extraction", "inventory"}
Models   == Safe \cup Ggufs
Paths    == Sources \cup Models \cup Reports
Versions == {"pinned", "alike", "broken", "mixed"}
FileType == [ver : Versions, whole : BOOLEAN, edits : Nat]

ASSUME FilesAssumption ==
    /\ Present \subseteq Paths /\ Editable \subseteq Paths \ Reports
    /\ Elements \in Seq(Nat \ {0}) /\ Elements # <<>>
    /\ HeaderBytes \in Nat
    /\ MaxStarts \in Nat /\ MaxEdits \in Nat
    /\ None \notin Paths \cup Versions \cup Procs
    /\ None \notin FileType /\ None # "live"
    /\ None \notin {"extract", "inventory", "backbone", "branch", "mhr"}

\* What is there at the start, these tools have made.
ASSUME PresentAssumption ==
    /\ "dino_gguf" \in Present => "manifest" \in Present
    /\ "manifest" \in Present => Safe \subseteq Present

VARIABLES
    fs,      \* path -> None, or the file: version, complete, changes since it was made
    proc,    \* what each process is doing
    starts, edits,
    twice    \* history: a file was changed again after it had been changed

files == <<fs, proc, starts, edits, twice>>

NoTemp == [ver |-> None, size |-> 0]
Idle == [job |-> None, pc |-> "idle", src |-> None, dest |-> None, temp |-> NoTemp,
         k |-> 0, expect |-> None, left |-> <<>>]

PCs == {"idle", "open", "begin", "stream", "sync", "readback", "rehash", "link", "record",
        "recheck", "json", "dump"}

-----------------------------------------------------------------------------
(* The tools: where they read, the names they refuse to find when they     *)
(* start, and which step follows which.                                    *)

\* The checkpoint is split: both halves are streamed, verified and hashed one
\* after the other, the checkpoint is checked again, two reports are written.
Extract ==
    [source |-> "ckpt", outputs |-> Safe \cup {"manifest", "extraction"}, gguf |-> FALSE,
     flow |-> [open |-> "begin", begin |-> "stream", stream |-> "sync", sync |-> "readback",
               readback |-> "link", link |-> "record", record |-> "recheck",
               recheck |-> "json", json |-> "dump", dump |-> "json"]]

\* Only the names and shapes of the checkpoint are looked at.
Inventory ==
    [source |-> "ckpt", outputs |-> {"inventory"}, gguf |-> FALSE,
     flow |-> [open |-> "recheck", recheck |-> "json", json |-> "dump", dump |-> "json"]]

Backbone ==
    [source |-> "backbone_safe", outputs |-> {"dino_gguf"}, gguf |-> TRUE,
     flow |-> [open |-> "begin", begin |-> "stream", stream |-> "sync", sync |-> "rehash",
               rehash |-> "link", link |-> "idle"]]

\* The branch is the one converter that reads its whole payload back.
Branch ==
    [source |-> "rest_safe", outputs |-> {"branch_gguf"}, gguf |-> TRUE,
     flow |-> [open |-> "begin", begin |-> "stream", stream |-> "sync", sync |-> "readback",
               readback |-> "rehash", rehash |-> "link", link |-> "idle"]]

Mhr ==
    [source |-> "mhr_state", outputs |-> {"mhr_gguf"}, gguf |-> TRUE,
     flow |-> [open |-> "begin", begin |-> "stream", stream |-> "sync", sync |-> "rehash",
               rehash |-> "link", link |-> "idle"]]

Tools == [extract |-> Extract, inventory |-> Inventory, backbone |-> Backbone,
          branch |-> Branch, mhr |-> Mhr]
Jobs  == DOMAIN Tools

Source(job)  == Tools[job].source
Outputs(job) == Tools[job].outputs
Gguf(job)    == Tools[job].gguf

Exists(path)  == fs[path] # None
Version(path) == IF Exists(path) THEN fs[path].ver ELSE None

\* read_json: a document that was cut off does not parse.
Parses(path) == Exists(path) /\ fs[path].whole

\* The backbone's hash is the one its manifest names; the hash of the branch is
\* pinned in the converter, which wants the extraction report to name it too;
\* the MHR state has a manifest of its own, which this model does not change.
Expected(job) == IF job = "backbone" THEN Version("manifest") ELSE "pinned"
Accepts(job) ==
    /\ job = "backbone" => Parses("manifest")
    /\ job = "branch"   => Parses("extraction") /\ Version("extraction") = "pinned"

\* What the schema checks and validate_tensor let through.
Valid(ver) == ver # "broken"

-----------------------------------------------------------------------------
(* encode_header and the loop that follows it: both walk the tensors in    *)
(* the order of their names, the first computes offsets, the second pads.  *)

Alignment == 32
RoundUp(n) == ((n + Alignment - 1) \div Alignment) * Alignment

\* The offset the header gives tensor k + 1, and the body's size for k = Len.
Offset(job, k) ==
    LET sum[i \in 0..k] == IF i = 0 THEN 0
                           ELSE sum[i - 1] + (IF Gguf(job) THEN RoundUp(4 * Elements[i])
                                              ELSE 4 * Elements[i])
    IN sum[k]

Padding(job, n) == IF Gguf(job) THEN (Alignment - (n % Alignment)) % Alignment ELSE 0

-----------------------------------------------------------------------------
File(ver, whole) == [ver |-> ver, whole |-> whole, edits |-> 0]

\* What reading the open source gives.
Read(p) == IF proc[p].src = "live" THEN Version(Source(proc[p].job)) ELSE proc[p].src

Init ==
    /\ fs = [path \in Paths |-> IF path \in Present THEN File("pinned", TRUE) ELSE None]
    /\ proc = [p \in Procs |-> Idle]
    /\ starts = 0 /\ edits = 0 /\ twice = FALSE

\* The step that follows the present one.
Then(p) == Tools[proc[p].job].flow[proc[p].pc]
Step(p) == proc' = [proc EXCEPT ![p].pc = Then(p)]

Begun(job) ==
    [job |-> job, pc |-> "open", src |-> None, temp |-> NoTemp, k |-> 0, expect |-> Expected(job),
     dest |-> IF job = "extract" THEN "backbone_safe"
              ELSE IF Gguf(job) THEN CHOOSE d \in Outputs(job) : TRUE ELSE None,
     left |-> IF job = "inventory" THEN <<<<"inventory", "pinned">>>> ELSE <<>>]

\* The checks before anything is made: no output yet, the source hashed and,
\* for a converter, its manifest read.
Start(p, job) ==
    /\ proc[p].pc = "idle" /\ starts < MaxStarts
    /\ \A path \in Outputs(job) : ~Exists(path)
    /\ Accepts(job)
    /\ Exists(Source(job)) /\ Version(Source(job)) = Expected(job)
    /\ proc' = [proc EXCEPT ![p] = Begun(job)]
    /\ starts' = starts + 1
    /\ UNCHANGED <<fs, edits, twice>>

\* safe_open, or the mapped torch.load: the path is opened again.  The
\* inventory looks at the names only and goes on to its second check.
Open(p) ==
    /\ proc[p].pc = "open"
    /\ Exists(Source(proc[p].job)) /\ Valid(Version(Source(proc[p].job)))
    /\ proc' = [proc EXCEPT ![p].src = "live",
                            ![p].pc = Then(p)]
    /\ UNCHANGED <<fs, starts, edits, twice>>

\* The temporary file with its header; write_verified first looks for its
\* destination once more.
Begin(p) ==
    /\ proc[p].pc = "begin"
    /\ proc[p].job = "extract" => ~Exists(proc[p].dest)
    /\ proc' = [proc EXCEPT ![p].pc = Then(p), ![p].k = 0,
                            ![p].temp = [ver |-> None, size |-> HeaderBytes]]
    /\ UNCHANGED <<fs, starts, edits, twice>>

Mix(a, b) == IF a = None \/ a = b THEN b ELSE "mixed"

\* One turn of the loop over the sorted tensors.
Stream(p) ==
    LET me == proc[p]  n == 4 * Elements[me.k + 1] IN
    /\ me.pc = "stream"
    /\ Valid(Read(p))
    /\ proc' = [proc EXCEPT ![p].temp = [ver |-> Mix(@.ver, Read(p)),
                                         size |-> @.size + n + Padding(me.job, n)],
                            ![p].k = @ + 1,
                            ![p].pc = IF me.k + 1 = Len(Elements) THEN Then(p) ELSE "stream"]
    /\ UNCHANGED <<fs, starts, edits, twice>>

\* The length check, flush and fsync.
Sync(p) ==
    LET me == proc[p] IN
    /\ me.pc = "sync"
    /\ me.temp.size = HeaderBytes + Offset(me.job, Len(Elements))
    /\ Step(p)
    /\ UNCHANGED <<fs, starts, edits, twice>>

\* Every tensor is read again from the open source and compared.
Readback(p) ==
    LET me == proc[p] IN
    /\ me.pc = "readback"
    /\ Read(p) = me.temp.ver
    /\ Step(p)
    /\ UNCHANGED <<fs, starts, edits, twice>>

\* Mutant: the source is not hashed a second time.
NoRehash(p) ==
    /\ proc[p].pc = "rehash"
    /\ Step(p)
    /\ UNCHANGED <<fs, starts, edits, twice>>

\* sha256(source) once more, by path.
Rehash(p) ==
    /\ proc[p].pc = "rehash"
    /\ Version(Source(proc[p].job)) = proc[p].expect
    /\ Step(p)
    /\ UNCHANGED <<fs, starts, edits, twice>>

Linked(p) ==
    /\ fs' = [fs EXCEPT ![proc[p].dest] =
                File(proc[p].temp.ver, proc[p].temp.size = HeaderBytes + Offset(proc[p].job, Len(Elements)))]
    /\ proc' = [proc EXCEPT ![p] = IF Then(p) = "idle" THEN Idle
                                   ELSE [@ EXCEPT !.pc = Then(p), !.temp = NoTemp]]
    /\ UNCHANGED <<starts, edits, twice>>

\* Mutant: os.replace.
LinkOver(p) == proc[p].pc = "link" /\ Linked(p)

\* Mutant: the destination is opened and written, not linked when complete.
LinkEarly(p) == proc[p].pc \in {"stream", "link"} /\ ~Exists(proc[p].dest) /\ Linked(p)

\* os.link, which fails when the name exists; finally drops the temporary name.
Link(p) ==
    /\ proc[p].pc = "link"
    /\ ~Exists(proc[p].dest)
    /\ Linked(p)

-----------------------------------------------------------------------------
(* What the extraction and the inventory do beside streaming               *)

\* extract() hashes the file it has just made, by path; then the next one.
Record(p) ==
    LET me == proc[p] IN
    /\ me.pc = "record"
    /\ Exists(me.dest)
    /\ proc' = [proc EXCEPT ![p] =
                IF me.dest = "backbone_safe"
                THEN [me EXCEPT !.pc = "begin", !.dest = "rest_safe",
                                !.left = <<<<"manifest", Version(me.dest)>>>>]
                ELSE [me EXCEPT !.pc = Then(p), !.dest = None,
                                !.left = Append(@, <<"extraction", Version(me.dest)>>)]]
    /\ UNCHANGED <<fs, starts, edits, twice>>

\* check_artifact of the checkpoint again.
Recheck(p) ==
    /\ proc[p].pc = "recheck"
    /\ Version("ckpt") = "pinned"
    /\ Step(p)
    /\ UNCHANGED <<fs, starts, edits, twice>>

\* open('x'): the name exists, empty, until the dump is done.
OpenJson(p) ==
    LET me == proc[p]  next == Head(me.left) IN
    /\ me.pc = "json"
    /\ ~Exists(next[1])
    /\ fs' = [fs EXCEPT ![next[1]] = File(next[2], FALSE)]
    /\ Step(p)
    /\ UNCHANGED <<starts, edits, twice>>

DumpJson(p) ==
    LET me == proc[p] IN
    /\ me.pc = "dump"
    /\ fs' = [fs EXCEPT ![Head(me.left)[1]].whole = TRUE]
    /\ proc' = [proc EXCEPT ![p] = IF Len(me.left) = 1 THEN Idle
                                   ELSE [me EXCEPT !.pc = Then(p), !.left = Tail(@)]]
    /\ UNCHANGED <<starts, edits, twice>>

-----------------------------------------------------------------------------
(* What may happen to a tool and to the files at any time                  *)

\* An exception (a check that fails, a full disk) or a kill.  The temporary
\* file is removed or left, under a name of its own; a JSON file that was
\* being dumped stays as it is.
Stop(p) ==
    /\ proc[p].pc # "idle"
    /\ proc' = [proc EXCEPT ![p] = Idle]
    /\ UNCHANGED <<fs, starts, edits, twice>>

Changed(path, ver) ==
    /\ edits < MaxEdits /\ Exists(path) /\ ver # Version(path)
    /\ fs' = [fs EXCEPT ![path] = [ver |-> ver, whole |-> TRUE, edits |-> @.edits + 1]]
    /\ twice' = (twice \/ fs[path].edits > 0)
    /\ edits' = edits + 1
    /\ UNCHANGED starts

\* The user or another program overwrites a file in place ...
Edit(path, ver) == Changed(path, ver) /\ UNCHANGED proc

\* ... or moves another one to its name: who has the old one open keeps it.
Replace(path, ver) ==
    /\ Changed(path, ver)
    /\ proc' = [p \in Procs |-> IF proc[p].src = "live" /\ Source(proc[p].job) = path
                                THEN [proc[p] EXCEPT !.src = Version(path)] ELSE proc[p]]

Tool(p) ==
    \/ \E job \in Jobs : Start(p, job)
    \/ Open(p) \/ Begin(p) \/ Stream(p) \/ Sync(p) \/ Readback(p) \/ Rehash(p)
    \/ Link(p) \/ Record(p) \/ Recheck(p) \/ OpenJson(p) \/ DumpJson(p) \/ Stop(p)

Elsewhere == \E path \in Editable, ver \in {"pinned", "alike", "broken"} :
                Edit(path, ver) \/ Replace(path, ver)

Next == \/ \E p \in Procs : Tool(p)
        \/ Elsewhere

Spec == Init /\ [][Next]_files

-----------------------------------------------------------------------------
FilesTypeOK ==
    /\ fs \in [Paths -> FileType \cup {None}]
    /\ proc \in [Procs -> [job : Jobs \cup {None}, pc : PCs, src : Versions \cup {None, "live"},
                           dest : Models \cup {None},
                           temp : [ver : Versions \cup {None}, size : Nat],
                           k : 0..Len(Elements), expect : Versions \cup {None},
                           left : Seq(Reports \X Versions)]]
    /\ starts \in 0..MaxStarts /\ edits \in 0..MaxEdits /\ twice \in BOOLEAN

\* A model file under its final name is complete, whatever tool raised or was
\* killed at whatever moment.
NothingPartial == \A path \in Models : Exists(path) => fs[path].whole

\* No tool ever puts another file under a name that exists, two of them
\* writing the same name included.
NeverOverwritten ==
    [][edits' = edits => \A path \in Paths : Exists(path) =>
         fs'[path] = (IF path \in Reports THEN [fs[path] EXCEPT !.whole = fs'[path].whole]
                      ELSE fs[path])]_files

\* A GGUF file holds the very weights its manifest or its converter pins:
\* hashing by path before and after reading the source through another
\* handle catches every change, unless a file changes and changes back.
GgufIsPinned ==
    ~twice => \A path \in Ggufs : Exists(path) /\ fs[path].edits = 0 =>
                fs[path].ver = (IF path = "dino_gguf" THEN Version("manifest") ELSE "pinned")

\* A manifest that parses stands for a complete extraction of the released
\* checkpoint: both files are there, and as made they hold its weights.
ExtractionIsPinned ==
    Parses("manifest") /\ ~twice =>
        \A path \in Safe : Exists(path) /\ (fs[path].edits = 0 => fs[path].ver = "pinned")

\* What is published under a released name has the released contents, for all
\* that is edited and replaced while the tools run.
ContentsArePinned == GgufIsPinned /\ ExtractionIsPinned

\* The loop is always where the header says the next tensor starts, so the
\* offsets that the native loader uses are those of the bytes.
PayloadAtOffset ==
    \A p \in Procs : proc[p].pc \in {"stream", "sync"} =>
        proc[p].temp.size = HeaderBytes + Offset(proc[p].job, proc[p].k)

=============================================================================
