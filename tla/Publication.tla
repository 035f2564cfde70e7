------------------------------ MODULE Publication ------------------------------
(***************************************************************************)
(* Publishing the three GGUF files (scripts/publish_gguf.py), composed     *)
(* with the tools that make them (ModelFiles).                             *)
(*                                                                         *)
(* The script opens each model once and keeps it open: it hashes it        *)
(* against the reviewed specification, then reads the documents of the     *)
(* checkout, asks git for the commit, and uploads everything as one commit *)
(* on the head it found, comparing the files' identity in between.  The    *)
(* checkout, the files and the remote repository move on meanwhile.        *)
(*                                                                         *)
(* A commit of the checkout is a number and stands for its documents; the  *)
(* documents are that number, or 0 while they are edited.                  *)
(***************************************************************************)
EXTENDS ModelFiles

CONSTANT MaxMoves   \* bound: changes of the checkout and of the remote

ASSUME MovesAssumption == MaxMoves \in Nat

\* The components in the order of COMPONENTS.
Order == <<"dino_gguf", "branch_gguf", "mhr_gguf">>
Components == Ggufs

VARIABLES
    pub,       \* the running script
    checkout,  \* the source checkout: its commit and its documents
    remote,    \* the repository on the hub: its head and the published bundle
    moves,
    moved,     \* history: the checkout changed while its documents and state were read
    late       \* history: an open model was edited during the upload itself

release == <<pub, checkout, remote, moves, moved, late>>
vars    == <<files, release>>

Quiet == [pc |-> "idle", upload |-> FALSE, create |-> FALSE, k |-> 0,
          kept |-> [c \in Components |-> None], before |-> [c \in Components |-> 0],
          docs |-> 0, source |-> None, parent |-> 0]

Clean(source) == source.docs = source.commit

PubInit ==
    /\ Init
    /\ pub = Quiet
    /\ checkout = [commit |-> 1, docs |-> 1]
    /\ remote = [exists |-> FALSE, head |-> 0, bundle |-> None]
    /\ moves = 0 /\ moved = FALSE /\ late = FALSE

\* ModelFile: the stream that stays open, and its fstat.  kept is None while
\* the path still names the open file.
OpenFile(c)  == IF pub.kept[c] = None THEN fs[c] ELSE pub.kept[c]
Unchanged(c) == OpenFile(c).edits = pub.before[c]

Advance(pc) == pub' = [pub EXCEPT !.pc = pc]

\* main: the options, then prepare.
Prepare(upload, create) ==
    /\ pub.pc = "idle" /\ starts < MaxStarts
    /\ create => upload
    /\ pub' = [Quiet EXCEPT !.pc = "open", !.upload = upload, !.create = create, !.k = 1]
    /\ starts' = starts + 1
    /\ UNCHANGED <<fs, proc, edits, twice, checkout, remote, moves, moved, late>>

\* open_regular and identity of the next model, and its size.
OpenModel ==
    LET c == Order[pub.k] IN
    /\ pub.pc = "open"
    /\ Exists(c) /\ fs[c].whole
    /\ pub' = [pub EXCEPT !.pc = "hash", !.before[c] = fs[c].edits]
    /\ UNCHANGED <<files, checkout, remote, moves, moved, late>>

\* The digest of the stream against the reviewed specification, and its
\* identity once more.
HashModel ==
    LET c == Order[pub.k] IN
    /\ pub.pc = "hash"
    /\ OpenFile(c).ver = "pinned" /\ Unchanged(c)
    /\ pub' = IF pub.k < Len(Order) THEN [pub EXCEPT !.pc = "open", !.k = @ + 1]
              ELSE [pub EXCEPT !.pc = "docs"]
    /\ UNCHANGED <<files, checkout, remote, moves, moved, late>>

\* The documents, one after the other.
ReadDocuments ==
    /\ pub.pc \in {"docs", "more"}
    /\ pub' = [pub EXCEPT !.pc = IF @ = "docs" THEN "more" ELSE "state",
                          !.docs = IF pub.pc = "docs" \/ @ = checkout.docs THEN checkout.docs
                                   ELSE 0]
    /\ UNCHANGED <<files, checkout, remote, moves, moved, late>>

\* source_state: the commit and whether the checkout is clean; a dry run ends.
ReadState ==
    /\ pub.pc = "state"
    /\ pub' = IF pub.upload THEN [pub EXCEPT !.pc = "check", !.source = checkout] ELSE Quiet
    /\ UNCHANGED <<files, checkout, remote, moves, moved, late>>

\* Mutant: an unclean checkout is only reported.
CheckCommit ==
    /\ pub.pc = "check"
    /\ checkout = pub.source
    /\ Advance("parent")
    /\ UNCHANGED <<files, checkout, remote, moves, moved, late>>

\* upload: a clean checkout, still the same, and unchanged models.
CheckSource ==
    /\ pub.pc = "check"
    /\ Clean(pub.source) /\ checkout = pub.source
    /\ \A c \in Components : Unchanged(c)
    /\ Advance("parent")
    /\ UNCHANGED <<files, checkout, remote, moves, moved, late>>

\* model_info, or create_repo when the caller allowed it.
FindParent ==
    /\ pub.pc = "parent"
    /\ remote.exists \/ pub.create
    /\ remote' = [remote EXCEPT !.exists = TRUE]
    /\ pub' = [pub EXCEPT !.pc = "add", !.parent = remote.head]
    /\ UNCHANGED <<files, checkout, moves, moved, late>>

AddModels ==
    /\ pub.pc = "add"
    /\ \A c \in Components : Unchanged(c)
    /\ Advance("commit")
    /\ UNCHANGED <<files, checkout, remote, moves, moved, late>>

\* Mutant: the models are named by their paths and opened again.
CommitPaths ==
    /\ pub.pc = "commit" /\ remote.head = pub.parent
    /\ remote' = [exists |-> TRUE, head |-> remote.head + 1,
                  bundle |-> [models |-> [c \in Components |-> Version(c)],
                              docs |-> pub.docs, source |-> pub.source.commit]]
    /\ pub' = Quiet
    /\ UNCHANGED <<files, checkout, moves, moved, late>>

\* create_commit reads the streams; the hub refuses it when the head moved.
Commit ==
    /\ pub.pc = "commit" /\ remote.head = pub.parent
    /\ remote' = [exists |-> TRUE, head |-> remote.head + 1,
                  bundle |-> [models |-> [c \in Components |-> OpenFile(c).ver],
                              docs |-> pub.docs, source |-> pub.source.commit]]
    /\ pub' = Quiet
    /\ UNCHANGED <<files, checkout, moves, moved, late>>

\* Any error, or the end of the process.
GiveUp ==
    /\ pub.pc # "idle"
    /\ pub' = Quiet
    /\ UNCHANGED <<files, checkout, remote, moves, moved, late>>

Publish ==
    \/ \E upload, create \in BOOLEAN : Prepare(upload, create)
    \/ OpenModel \/ HashModel \/ ReadDocuments \/ ReadState \/ CheckSource \/ FindParent \/ AddModels
    \/ Commit \/ GiveUp

-----------------------------------------------------------------------------
(* Surroundings                                                            *)

\* Documents are edited, the edit is dropped, or a commit is made.
MoveCheckout ==
    /\ moves < MaxMoves /\ moves' = moves + 1
    /\ \/ checkout' = [checkout EXCEPT !.docs = 0]
       \/ checkout' = [checkout EXCEPT !.docs = checkout.commit]
       \/ checkout' = [commit |-> checkout.commit + 1, docs |-> checkout.commit + 1]
    /\ checkout' # checkout
    /\ moved' = (moved \/ pub.pc \in {"more", "state"})
    /\ UNCHANGED <<files, pub, remote, late>>

\* Somebody else commits to the repository.
MoveRemote ==
    /\ moves < MaxMoves /\ moves' = moves + 1
    /\ remote.exists
    /\ remote' = [remote EXCEPT !.head = @ + 1]
    /\ UNCHANGED <<files, pub, checkout, moved, late>>

\* The script has opened it, and its path still names it.
Opened(path) ==
    /\ path \in Components /\ pub.pc # "idle" /\ pub.kept[path] = None
    /\ \E i \in 1..Len(Order) : Order[i] = path
                               /\ i < pub.k + (IF pub.pc = "open" THEN 0 ELSE 1)

EditFile(path, ver) ==
    /\ Edit(path, ver)
    /\ late' = (late \/ (pub.pc = "commit" /\ Opened(path)))
    /\ UNCHANGED <<pub, checkout, remote, moves, moved>>

ReplaceFile(path, ver) ==
    /\ Replace(path, ver)
    /\ pub' = IF Opened(path) THEN [pub EXCEPT !.kept[path] = fs[path]] ELSE pub
    /\ UNCHANGED <<checkout, remote, moves, moved, late>>

PubNext ==
    \/ Publish \/ MoveCheckout \/ MoveRemote
    \/ \E p \in Procs : Tool(p) /\ UNCHANGED release
    \/ \E path \in Editable, ver \in {"pinned", "alike", "broken"} :
          EditFile(path, ver) \/ ReplaceFile(path, ver)

PubSpec == PubInit /\ [][PubNext]_vars

-----------------------------------------------------------------------------
TypeOK ==
    /\ FilesTypeOK
    /\ pub.pc \in {"idle", "open", "hash", "docs", "more", "state", "check", "parent", "add", "commit"}
    /\ pub.k \in 0..Len(Order)
    /\ pub.kept \in [Components -> FileType \cup {None}]
    /\ pub.before \in [Components -> Nat]
    /\ pub.pc \in {"check", "parent", "add", "commit"} => pub.source # None
    /\ checkout.commit \in 1..(MaxMoves + 1)
    /\ remote.head \in Nat /\ remote.exists \in BOOLEAN
    /\ moves \in 0..MaxMoves /\ moved \in BOOLEAN /\ late \in BOOLEAN

\* What is published is what was reviewed, although the models' paths may be
\* moved over and the files edited while the script runs: it only ever reads
\* the streams it has hashed, and looks at them again.  The script asks that
\* they stay unedited during the upload itself.
RemoteIsApproved ==
    remote.bundle # None /\ ~late => \A c \in Components : remote.bundle.models[c] = "pinned"

\* The documents of a bundle are those of the commit its manifest names, unless
\* the checkout changed from the first document read until git was asked.
BundleIsConsistent ==
    remote.bundle # None /\ ~moved => remote.bundle.docs = remote.bundle.source

=============================================================================
