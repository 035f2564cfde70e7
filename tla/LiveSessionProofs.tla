-------------------------- MODULE LiveSessionProofs --------------------------
(***************************************************************************)
(* Proofs about LiveSession for any number of sessions, takes, requests,   *)
(* stamps, frames, failing writes and crashes.                             *)
(*                                                                         *)
(* What a take may hold follows from four facts that the code never states *)
(* in one place: which directory a listed track has (Listing), which       *)
(* session an open take belongs to (Owners), where a request that nobody   *)
(* answered is (Requests), and that requests of one session are answered   *)
(* in the order of their stamps (Ordering).                                *)
(***************************************************************************)
EXTENDS LiveSession, SequenceTheorems, FiniteSetTheorems, TLAPS

\* The history and the directories agree, and a track is listed as long as
\* it records.  A refused server does nothing.
Listing ==
    /\ \A t \in listed : state[t] \notin {"none", "deleted"}
    /\ \A t \in Kept : state[t] = "recording" => t \in listed
    /\ up = "up" => \A t \in Kept : disk[t].kind = IF t \in listed THEN "file" ELSE "none"
    /\ \A t \in Kept : disk[t].kind = "file" => disk[t].state # "none"
    /\ up = "refused" => /\ listed = {} /\ frames = <<>> /\ worker = "idle" /\ jobs = 0
                         /\ \A r \in Handlers : h[r].pc = "idle"

\* A take is recorded by at most one session, a listed live one, and by one
\* as long as it is open.
Owners ==
    /\ \A s \in Sessions : recording[s] # None => s \in Live \cap listed
    /\ \A s, t \in Sessions : recording[s] # None /\ recording[s] = recording[t] => s = t
    /\ \A s \in Sessions : recording[s] # None => state[recording[s]] # "none"
    /\ \A k \in Takes : state[k] = "recording" => \E s \in Sessions : recording[s] = k

Open(r) == h[r].pc # "idle" /\ h[r].reply = "none"

\* A request without an answer reads, waits in the channel or is served.  If
\* its take is still open, it is the one its session records.
Requests ==
    /\ \A r \in Handlers : frames = <<r>> => h[r].pc = "waiting" /\ h[r].reply = "none"
    /\ worker = "frame" => /\ serving \in Handlers /\ frames # <<serving>>
                           /\ h[serving].pc = "waiting" /\ h[serving].reply = "none"
    /\ \A r \in Handlers : IF h[r].pc = "idle" THEN r \notin early ELSE h[r].of \in Sessions
    /\ \A r \in Handlers : h[r].pc = "reading" => upload = r /\ h[r].reply = "none"
    /\ \A r \in Handlers : h[r].pc = "waiting" /\ h[r].reply = "none" =>
         frames = <<r>> \/ (worker = "frame" /\ serving = r)
    /\ \A r \in Handlers : h[r].pc # "idle" /\ h[r].take # None =>
         /\ state[h[r].take] # "none"
         /\ state[h[r].take] = "recording" =>
              recording[h[r].of] = h[r].take /\ r \notin early

\* q was admitted after r and has no answer either.
Behind(r, q) == \/ worker = "frame" /\ serving = r /\ q # r
                \/ frames = <<r>> /\ h[q].pc = "reading"

Ordering ==
    /\ \A r \in Handlers : h[r].pc # "idle" =>
         /\ h[r].stamp <= lastSubmit[h[r].of]
         /\ lastTime[h[r].of] # None =>
              /\ lastTime[h[r].of] <= lastSubmit[h[r].of]
              /\ h[r].reply = "none" => lastTime[h[r].of] < h[r].stamp
    /\ \A r, q \in Handlers :
         Open(r) /\ Open(q) /\ h[r].of = h[q].of /\ Behind(r, q) => h[r].stamp < h[q].stamp

\* Lengths: a request of an offline session is alone and has room, an open
\* take has room, and the directory is never ahead of the memory.
Lengths ==
    /\ \A t \in Kept : /\ Len(samples[t]) <= MaxFrames
                       /\ Len(disk[t].samples) <= MaxFrames
                       /\ answered[t] <= Len(samples[t])
                       /\ state[t] = "none" => samples[t] = <<>>
    /\ \A k \in Takes : state[k] = "recording" => Len(samples[k]) < MaxFrames
    /\ \A r \in Handlers : Open(r) /\ h[r].of \in Offline => Len(samples[h[r].of]) < MaxFrames
    /\ \A r, q \in Handlers :
         h[r].pc # "idle" /\ h[q].pc # "idle" /\ h[r].of = h[q].of /\ h[r].of \in Offline => r = q
    /\ up = "up" => \A t \in Kept \cap listed :
                      /\ answered[t] <= Len(disk[t].samples)
                      /\ Len(disk[t].samples) <= Len(samples[t])

Final(times) == times[Len(times)]

\* While saves succeed, the take a session records is open, and its last
\* sample is not after the last counted frame.
Sound == faults = 0 =>
    /\ \A s \in Sessions : recording[s] # None =>
         /\ state[recording[s]] = "recording"
         /\ samples[recording[s]] # <<>> =>
              lastTime[s] # None /\ Final(samples[recording[s]]) <= lastTime[s]
    /\ \A k \in Takes : Increasing(samples[k]) /\ Increasing(disk[k].samples)

Inv ==
    /\ TypeOK
    /\ Listing
    /\ Owners
    /\ Requests
    /\ Ordering
    /\ Lengths
    /\ Sound
-----------------------------------------------------------------------------
(* Sequences of times, and the shapes of the records                       *)

\* Taking one more time (samples = append(samples, ...)): what it does to the
\* length, to the last time and to the order.
LEMMA OneMore ==
    ASSUME NEW s \in Seq(Stamps), NEW x \in Stamps
    PROVE  /\ Append(s, x) \in Seq(Stamps) /\ Append(s, x) # <<>>
           /\ Len(s) \in Nat /\ Len(Append(s, x)) = Len(s) + 1
           /\ Final(Append(s, x)) = x
           /\ Increasing(s) /\ (s # <<>> => Final(s) < x) => Increasing(Append(s, x))
<1>. DEFINE t == Append(s, x)
<1>1. /\ t \in Seq(Stamps) /\ Len(t) = Len(s) + 1 /\ Len(s) \in Nat
      /\ \A i \in 1..Len(s) : t[i] = s[i]
      /\ t[Len(s) + 1] = x
  BY AppendProperties, LenProperties
<1>2. t # <<>>
  BY <1>1, EmptySeq
<1>3. Len(s) # 0 => s # <<>>
  BY EmptySeq
<1>. HIDE DEF t
<1>4. Final(t) = x
  BY <1>1 DEF Final
<1>5. ASSUME Increasing(s), s # <<>> => Final(s) < x
      PROVE  Increasing(t)
  <2>. SUFFICES ASSUME NEW i \in 1..(Len(t) - 1) PROVE t[i] < t[i + 1]
    BY DEF Increasing
  <2>1. CASE i \in 1..(Len(s) - 1)
    BY <1>1, <1>5, <2>1 DEF Increasing
  <2>2. CASE i = Len(s)
    BY <1>1, <1>3, <1>5, <2>2 DEF Final
  <2>. QED  BY <1>1, <2>1, <2>2
<1>. QED  BY <1>1, <1>2, <1>4, <1>5 DEF t

\* No time at all.
LEMMA NoTimes == <<>> \in Seq(Stamps) /\ Len(<<>>) = 0 /\ Increasing(<<>>)
BY DEF Increasing

RequestType == [pc : {"idle", "reading", "waiting"}, of : Sessions \cup {None},
                stamp : Stamps, take : Takes \cup {None},
                ctx : {"live", "ended"}, reply : {"none", "ok", "error"}]
FileType == [kind : {"none", "bare", "file"},
             state : {"none", "recording", "complete", "interrupted"},
             samples : Seq(Stamps)]

\* A channel of one place is empty or holds one request.
LEMMA OnePlace ==
    ASSUME NEW q \in Seq(Handlers), Len(q) <= 1
    PROVE  \/ q = <<>>
           \/ q # <<>> /\ q = <<Head(q)>> /\ Head(q) \in Handlers /\ Tail(q) = <<>>
<1>1. CASE Len(q) = 0
  BY <1>1, EmptySeq
<1>2. CASE Len(q) = 1
  <2>1. q[1] \in Handlers /\ DOMAIN q = 1..1
    BY <1>2, ElementOfSeq, LenProperties
  <2>2. q = <<q[1]>>
    BY <1>2, <2>1
  <2>3. q # <<>>
    <3>1. Len(q) # 0
      BY <1>2
    <3>. QED  BY <3>1, EmptySeq
  <2>4. Head(q) = q[1] /\ Tail(q) \in Seq(Handlers) /\ Len(Tail(q)) = 0
    BY <1>2, <2>3, HeadTailProperties
  <2>5. Tail(q) = <<>>
    BY <2>4, EmptySeq
  <2>. QED  BY <2>1, <2>2, <2>3, <2>4, <2>5
<1>3. Len(q) \in Nat
  BY LenProperties
<1>. DEFINE n == Len(q)
<1>. HIDE DEF n
<1>4. n \in Nat /\ n <= 1 => n = 0 \/ n = 1
  OBVIOUS
<1>. QED  BY <1>1, <1>2, <1>3, <1>4 DEF n

\* What the two sets of identifiers have in common, and what None is not.
LEMMA Names ==
    /\ Live \cap Kept = {} /\ Offline \cap Takes = {} /\ Live \cap Takes = {}
    /\ Sessions = Live \cup Offline /\ Live \cap Offline = {}
    /\ Sessions \cap Takes = {}
    /\ Offline \subseteq Kept /\ Takes \subseteq Kept /\ Kept \subseteq Tracks
    /\ Live \subseteq Tracks /\ Sessions \subseteq Tracks
    /\ None \notin Sessions /\ None \notin Takes /\ None \notin Handlers /\ None \notin Stamps
    /\ MaxFrames \in Nat \ {0} /\ MaxStamp \in Nat /\ Stamps \subseteq Nat
BY SessionAssumption DEF Sessions, Kept, Tracks, Stamps

-----------------------------------------------------------------------------
(* The inductive invariant, one lemma per group of actions                 *)

\* Jobs, the clock and the signal touch no track and no request.
LEMMA OthersKeepInv ==
    ASSUME Inv, \/ SubmitJob \/ TakeJob \/ EndJob \/ StopWorker
                \/ \E s \in Live : Age(s)
    PROVE  Inv'
<1>1. /\ UNCHANGED <<up, listed, state, samples, lastTime, lastSubmit, recording, start, h, upload,
                     frames, serving, disk, faults, crashes, early, answered>>
      /\ worker # "frame" \/ worker' = worker
      /\ worker' # "frame" \/ worker' = worker
      /\ up = "refused" => worker' = worker /\ jobs' = jobs
  <2>1. up = "refused" => worker = "idle" /\ jobs = 0
    BY DEF Inv, Listing
  <2>. QED  BY <2>1 DEF SubmitJob, TakeJob, EndJob, StopWorker, Age, tracks, consume, history
<1>2. idle' \in [Sessions -> BOOLEAN] /\ jobs' \in 0..MaxJobs /\ worker' \in {"idle", "frame", "job", "off"}
  <2>1. idle' \in [Sessions -> BOOLEAN]
    BY DEF SubmitJob, TakeJob, EndJob, StopWorker, Age, tracks, Inv, TypeOK
  <2>2. jobs' \in 0..MaxJobs
    BY SessionAssumption DEF SubmitJob, TakeJob, EndJob, StopWorker, Age, consume, Inv, TypeOK
  <2>3. worker' \in {"idle", "frame", "job", "off"}
    BY DEF SubmitJob, TakeJob, EndJob, StopWorker, Age, consume, Inv, TypeOK
  <2>. QED  BY <2>1, <2>2, <2>3
<1>3. TypeOK'
  BY <1>1, <1>2 DEF Inv, TypeOK
<1>4. Listing' /\ Owners'
  BY <1>1 DEF Inv, Listing, Owners
<1>5. Requests'
  BY <1>1 DEF Inv, Requests
<1>6. Ordering'
  BY <1>1 DEF Inv, Ordering, Open, Behind
<1>7. Lengths' /\ Sound'
  BY <1>1 DEF Inv, Lengths, Sound, Open
<1>. QED  BY <1>3, <1>4, <1>5, <1>6, <1>7 DEF Inv

\* A step that admits and releases no request: contexts may end, and the
\* request that is served may get its answer and become the last one counted.
RequestStep ==
    /\ h' \in [Handlers -> RequestType]
    /\ \A q \in Handlers : /\ h'[q].pc = h[q].pc /\ h'[q].of = h[q].of
                           /\ h'[q].stamp = h[q].stamp /\ h'[q].take = h[q].take
    /\ UNCHANGED <<upload, frames, jobs, lastSubmit, early>>
    /\ \/ /\ UNCHANGED <<worker, serving, lastTime>>
          /\ \A q \in Handlers : h'[q].reply = h[q].reply
       \/ /\ worker = "frame" /\ worker' = "idle" /\ serving' = None
          /\ \A q \in Handlers : q # serving => h'[q].reply = h[q].reply
          /\ h'[serving].reply # "none"
          /\ lastTime' \in [Sessions -> Stamps \cup {None}]
          /\ \A s \in Sessions : \/ lastTime'[s] = lastTime[s]
                                 \/ s = h[serving].of /\ lastTime'[s] = h[serving].stamp

\* A step that opens no take: sessions let go of takes, and never of an open
\* one that stays open.
ClosingStep ==
    /\ recording' \in [Sessions -> Takes \cup {None}]
    /\ \A s \in Sessions : recording'[s] = recording[s] \/ recording'[s] = None
    /\ \A k \in Takes : /\ state[k] # "none" => state'[k] # "none"
                        /\ state'[k] = "recording" =>
                             /\ state[k] = "recording"
                             /\ \A s \in Sessions : recording[s] = k => recording'[s] = k

\* The shape of a request, and the one being served.
LEMMA RequestShape ==
    ASSUME Inv
    PROVE  /\ h \in [Handlers -> RequestType]
           /\ \A q \in Handlers : /\ h[q].pc \in {"idle", "reading", "waiting"}
                                  /\ h[q].of \in Sessions \cup {None}
                                  /\ h[q].pc # "idle" => h[q].of \in Sessions
                                  /\ h[q].stamp \in Stamps /\ h[q].take \in Takes \cup {None}
                                  /\ h[q].reply \in {"none", "ok", "error"}
           /\ worker = "frame" => /\ serving \in Handlers /\ h[serving].of \in Sessions
                                  /\ h[serving].pc = "waiting" /\ h[serving].reply = "none"
<1>1. h \in [Handlers -> RequestType]
  BY DEF Inv, TypeOK, RequestType
<1>2. \A q \in Handlers : h[q] \in RequestType
  BY <1>1
<1>. QED  BY <1>1, <1>2 DEF Inv, Requests, RequestType

\* The answer of a request comes after those of the earlier frames of its
\* session, and the frames still open are later.
LEMMA ServedInOrder ==
    ASSUME Inv, worker = "frame"
    PROVE  LET s == h[serving].of IN
           /\ h[serving].stamp \in Nat /\ h[serving].stamp <= lastSubmit[s]
           /\ lastTime[s] # None => lastTime[s] \in Nat /\ lastTime[s] < h[serving].stamp
           /\ \A q \in Handlers : q # serving /\ Open(q) /\ h[q].of = s =>
                 h[serving].stamp < h[q].stamp
<1>. DEFINE s == h[serving].of
<1>1. /\ serving \in Handlers /\ s \in Sessions /\ h[serving].stamp \in Nat
      /\ h[serving].pc = "waiting" /\ h[serving].reply = "none"
  BY RequestShape, Names
<1>2. lastTime[s] \in Stamps \cup {None}
  BY <1>1 DEF Inv, TypeOK
<1>3. h[serving].stamp <= lastSubmit[s] /\ (lastTime[s] # None => lastTime[s] < h[serving].stamp)
  BY <1>1 DEF Inv, Ordering
<1>4. \A q \in Handlers : q # serving /\ Open(q) /\ h[q].of = s => h[serving].stamp < h[q].stamp
  BY <1>1 DEF Inv, Ordering, Open, Behind
<1>. QED  BY <1>1, <1>2, <1>3, <1>4, Names

\* What is known of requests survives every such step.
LEMMA RequestsFollow ==
    ASSUME Inv, RequestStep, ClosingStep
    PROVE  Requests' /\ Ordering'
<1>1. /\ \A q \in Handlers : /\ h'[q].pc = h[q].pc /\ h'[q].of = h[q].of
                             /\ h'[q].stamp = h[q].stamp /\ h'[q].take = h[q].take
                             /\ h'[q].reply = "none" => h[q].reply = "none"
      /\ UNCHANGED <<upload, frames, lastSubmit, early>>
  BY RequestShape DEF RequestStep
<1>2. \A q \in Handlers : h[q].take \in Takes \cup {None} /\ h[q].of \in Sessions \cup {None}
                          /\ h[q].stamp \in Nat
  BY RequestShape, Names
<1>3. \A q \in Handlers : h[q].pc # "idle" => h[q].of \in Sessions
  BY RequestShape
<1>4. Requests'
  <2>1. ASSUME NEW r \in Handlers, h'[r].pc # "idle", h'[r].take # None
        PROVE  /\ state'[h'[r].take] # "none"
               /\ state'[h'[r].take] = "recording" =>
                    recording'[h'[r].of] = h'[r].take /\ r \notin early'
    BY <1>1, <1>2, <1>3, <2>1 DEF Inv, Requests, ClosingStep
  <2>2. ASSUME NEW r \in Handlers, frames' = <<r>>
        PROVE  h'[r].pc = "waiting" /\ h'[r].reply = "none"
    <3>1. h[r].pc = "waiting" /\ h[r].reply = "none" /\ (worker = "frame" => r # serving)
      BY <1>1, <2>2 DEF Inv, Requests
    <3>. QED  BY <1>1, <3>1 DEF RequestStep
  <2>3. ASSUME worker' = "frame"
        PROVE  /\ serving' \in Handlers /\ frames' # <<serving'>>
               /\ h'[serving'].pc = "waiting" /\ h'[serving'].reply = "none"
    BY <1>1, <2>3 DEF Inv, Requests, RequestStep
  <2>4. ASSUME NEW r \in Handlers, h'[r].pc = "waiting", h'[r].reply = "none"
        PROVE  frames' = <<r>> \/ (worker' = "frame" /\ serving' = r)
    BY <1>1, <2>4 DEF Inv, Requests, RequestStep
  <2>5. ASSUME NEW r \in Handlers
        PROVE  /\ IF h'[r].pc = "idle" THEN r \notin early' ELSE h'[r].of \in Sessions
               /\ h'[r].pc = "reading" => upload' = r /\ h'[r].reply = "none"
    BY <1>1, <1>3, RequestShape, <2>5 DEF Inv, Requests, RequestStep
  <2>. QED  BY <2>1, <2>2, <2>3, <2>4, <2>5 DEF Requests
<1>5. Ordering'
  <2>1. ASSUME NEW r \in Handlers, NEW q \in Handlers, Open(r)', Open(q)', h'[r].of = h'[q].of,
               Behind(r, q)'
        PROVE  h'[r].stamp < h'[q].stamp
    <3>1. Open(r) /\ Open(q) /\ h[r].of = h[q].of
      BY <1>1, <2>1 DEF Open
    <3>2. Behind(r, q)
      BY <1>1, <2>1 DEF Behind, RequestStep
    <3>. QED  BY <1>1, <3>1, <3>2 DEF Inv, Ordering
  <2>2. ASSUME NEW r \in Handlers, h'[r].pc # "idle"
        PROVE  /\ h'[r].stamp <= lastSubmit'[h'[r].of]
               /\ lastTime'[h'[r].of] # None =>
                    /\ lastTime'[h'[r].of] <= lastSubmit'[h'[r].of]
                    /\ h'[r].reply = "none" => lastTime'[h'[r].of] < h'[r].stamp
    <3>. DEFINE s == h[r].of
    <3>1. /\ h[r].pc # "idle" /\ s \in Sessions /\ h'[r].of = s /\ h'[r].stamp = h[r].stamp
          /\ lastSubmit' = lastSubmit
      BY <1>1, <1>3, <2>2
    <3>2. /\ h[r].stamp <= lastSubmit[s]
          /\ lastTime[s] # None =>
               /\ lastTime[s] <= lastSubmit[s]
               /\ h[r].reply = "none" => lastTime[s] < h[r].stamp
      BY <3>1 DEF Inv, Ordering
    <3>3. CASE lastTime'[s] = lastTime[s]
      BY <1>1, <3>1, <3>2, <3>3
    <3>4. CASE lastTime'[s] # lastTime[s]
      <4>1. /\ worker = "frame" /\ s = h[serving].of /\ lastTime'[s] = h[serving].stamp
            /\ h'[serving].reply # "none"
        BY <3>1, <3>4 DEF RequestStep
      <4>2. h[serving].stamp <= lastSubmit[s]
        BY <4>1, ServedInOrder
      <4>3. ASSUME h'[r].reply = "none" PROVE h[serving].stamp < h[r].stamp
        <5>1. r # serving /\ Open(r)
          BY <1>1, <3>1, <4>1, <4>3 DEF Open
        <5>. QED  BY <4>1, <5>1, ServedInOrder
      <4>. QED  BY <3>1, <3>2, <4>1, <4>2, <4>3
    <3>. QED  BY <3>3, <3>4
  <2>. QED  BY <2>1, <2>2 DEF Ordering
<1>. QED  BY <1>4, <1>5

\* A step that adds no sample: what is written is what the memory holds, and
\* a directory that is replaced by an empty track or none is not listed.
FilesStep ==
    /\ up = "up" \/ listed = {}
    /\ UNCHANGED <<up, samples, answered>>
    /\ disk' \in [Kept -> FileType]
    /\ \A t \in Kept : /\ state'[t] = "none" => state[t] = "none"
                       /\ \/ disk'[t].samples = samples[t]
                          \/ disk'[t].samples = disk[t].samples /\ (t \in listed' => t \in listed)
                          \/ disk'[t].samples = <<>> /\ t \notin listed'

\* While saves succeed, such a step changes no open take without letting go
\* of it.
SavedStep == faults' = 0 =>
    /\ faults = 0
    /\ \A s \in Sessions : recording'[s] # None => state'[recording'[s]] = "recording"

\* Counting a frame never moves the last counted time before the last sample
\* of the take.
LEMMA LastIsCounted ==
    ASSUME Inv, RequestStep, faults = 0, NEW s \in Sessions, recording[s] # None,
           samples[recording[s]] # <<>>
    PROVE  lastTime'[s] # None /\ Final(samples[recording[s]]) <= lastTime'[s]
<1>. DEFINE k == recording[s]
<1>1. lastTime[s] # None /\ Final(samples[k]) <= lastTime[s] /\ k \in Kept
  BY Names DEF Inv, Sound, TypeOK
<1>2. samples[k] \in Seq(Stamps) /\ lastTime[s] \in Nat
  BY <1>1, Names DEF Inv, TypeOK
<1>3. Final(samples[k]) \in Nat
  <2>1. Len(samples[k]) \in Nat \ {0}
    BY <1>2, EmptySeq
  <2>2. samples[k][Len(samples[k])] \in Stamps
    BY <1>2, <2>1, ElementOfSeq
  <2>. QED  BY <2>2, Names DEF Final
<1>4. CASE lastTime'[s] = lastTime[s]
  BY <1>1, <1>4
<1>5. CASE lastTime'[s] # lastTime[s]
  <2>1. worker = "frame" /\ s = h[serving].of /\ lastTime'[s] = h[serving].stamp
    BY <1>5 DEF RequestStep
  <2>2. lastTime[s] < h[serving].stamp /\ h[serving].stamp \in Nat
    BY <1>1, <2>1, ServedInOrder
  <2>3. h[serving].stamp # None
    BY <2>1, RequestShape, Names
  <2>. QED  BY <1>1, <1>2, <1>3, <2>1, <2>2, <2>3
<1>. QED  BY <1>4, <1>5

\* The lengths and orders of the tracks survive a step that adds no sample.
LEMMA TracksFollow ==
    ASSUME Inv, RequestStep, ClosingStep, FilesStep, SavedStep
    PROVE  Lengths' /\ Sound'
<1>1. /\ \A q \in Handlers : /\ h'[q].pc = h[q].pc /\ h'[q].of = h[q].of
                             /\ h'[q].reply = "none" => h[q].reply = "none"
      /\ UNCHANGED <<samples, answered>>
  BY RequestShape DEF RequestStep, FilesStep
<1>2. Lengths'
  <2>1. ASSUME NEW t \in Kept
        PROVE  /\ Len(samples'[t]) <= MaxFrames
               /\ Len(disk'[t].samples) <= MaxFrames
               /\ answered'[t] <= Len(samples'[t])
               /\ state'[t] = "none" => samples'[t] = <<>>
    BY <1>1, NoTimes, Names DEF Inv, Lengths, FilesStep
  <2>2. ASSUME NEW k \in Takes, state'[k] = "recording" PROVE Len(samples'[k]) < MaxFrames
    BY <1>1, <2>2 DEF Inv, Lengths, ClosingStep
  <2>3. ASSUME NEW r \in Handlers, Open(r)', h'[r].of \in Offline
        PROVE  Len(samples'[h'[r].of]) < MaxFrames
    BY <1>1, <2>3 DEF Inv, Lengths, Open
  <2>4. ASSUME NEW r \in Handlers, NEW q \in Handlers, h'[r].pc # "idle", h'[q].pc # "idle",
               h'[r].of = h'[q].of, h'[r].of \in Offline
        PROVE  r = q
    BY <1>1, <2>4 DEF Inv, Lengths
  <2>5. ASSUME up' = "up", NEW t \in Kept \cap listed'
        PROVE  answered'[t] <= Len(disk'[t].samples) /\ Len(disk'[t].samples) <= Len(samples'[t])
    <3>1. samples[t] \in Seq(Stamps)
      BY DEF Inv, TypeOK
    <3>2. Len(samples[t]) \in Nat /\ answered[t] <= Len(samples[t])
      BY <3>1, LenProperties DEF Inv, Lengths
    <3>3. CASE disk'[t].samples = samples[t]
      BY <1>1, <3>2, <3>3
    <3>4. CASE disk'[t].samples = disk[t].samples /\ t \in listed
      <4>1. up = "up" /\ t \in Kept \cap listed
        BY <2>5, <3>4 DEF FilesStep
      <4>. QED  BY <1>1, <3>4, <4>1 DEF Inv, Lengths
    <3>. QED  BY <3>3, <3>4 DEF FilesStep
  <2>. QED  BY <2>1, <2>2, <2>3, <2>4, <2>5 DEF Lengths
<1>3. Sound'
  <2>. SUFFICES ASSUME faults' = 0 PROVE Sound'
    BY DEF Sound
  <2>1. /\ faults = 0
        /\ \A s \in Sessions : recording'[s] # None => state'[recording'[s]] = "recording"
    BY DEF SavedStep
  <2>2. ASSUME NEW s \in Sessions, recording'[s] # None
        PROVE  samples'[recording'[s]] # <<>> =>
                 lastTime'[s] # None /\ Final(samples'[recording'[s]]) <= lastTime'[s]
    <3>. DEFINE k == recording[s]
    <3>1. recording'[s] = k /\ k \in Takes
      BY <2>2 DEF ClosingStep, Inv, TypeOK
    <3>. SUFFICES ASSUME samples[k] # <<>>
                  PROVE  lastTime'[s] # None /\ Final(samples[k]) <= lastTime'[s]
      BY <1>1, <3>1
    <3>. QED  BY <2>1, <2>2, <3>1, LastIsCounted
  <2>3. ASSUME NEW k \in Takes PROVE Increasing(samples'[k]) /\ Increasing(disk'[k].samples)
    <3>1. k \in Kept
      BY Names
    <3>. QED  BY <1>1, <2>1, <3>1, NoTimes DEF Inv, Sound, FilesStep
  <2>. QED  BY <2>1, <2>2, <2>3 DEF Sound
<1>. QED  BY <1>2, <1>3

\* With the history, the owners and the types, that is the whole invariant.
LEMMA StepKeepsInv ==
    ASSUME Inv, RequestStep, ClosingStep, FilesStep, SavedStep, Listing',
           listed' \subseteq Tracks,
           state' \in [Tracks -> {"none", "recording", "complete", "interrupted", "deleted"}],
           \A s \in Sessions : recording'[s] # None => s \in listed',
           UNCHANGED <<start, idle, crashes>>, faults' \in 0..MaxFaults
    PROVE  Inv'
<1>1. Requests' /\ Ordering' /\ Lengths' /\ Sound'
  BY RequestsFollow, TracksFollow
<1>2. Owners'
  <2>1. \A s \in Sessions : recording'[s] # None => recording'[s] = recording[s] /\ recording[s] \in Takes
    BY DEF ClosingStep, Inv, TypeOK
  <2>2. \A s \in Sessions : recording'[s] # None => s \in Live \cap listed' /\ state'[recording'[s]] # "none"
    BY <2>1 DEF Inv, Owners, ClosingStep
  <2>3. \A s, t \in Sessions : recording'[s] # None /\ recording'[s] = recording'[t] => s = t
    BY <2>1 DEF Inv, Owners
  <2>4. \A k \in Takes : state'[k] = "recording" => \E s \in Sessions : recording'[s] = k
    BY DEF Inv, Owners, ClosingStep
  <2>. QED  BY <2>2, <2>3, <2>4 DEF Owners
<1>3. TypeOK'
  <2>1. /\ lastTime' \in [Sessions -> Stamps \cup {None}]
        /\ worker' \in {"idle", "frame", "job", "off"} /\ serving' \in Handlers \cup {None}
    BY DEF RequestStep, Inv, TypeOK
  <2>2. up' = up /\ samples' = samples /\ answered' = answered /\ disk' \in [Kept -> FileType]
    BY DEF FilesStep
  <2>3. /\ h' \in [Handlers -> RequestType] /\ recording' \in [Sessions -> Takes \cup {None}]
        /\ UNCHANGED <<upload, frames, jobs, lastSubmit, early>>
    BY DEF RequestStep, ClosingStep
  <2>. QED  BY <2>1, <2>2, <2>3 DEF Inv, TypeOK, RequestType, FileType
<1>. QED  BY <1>1, <1>2, <1>3 DEF Inv

-----------------------------------------------------------------------------
(* Actions that end takes                                                  *)

States == {"none", "recording", "complete", "interrupted", "deleted"}
Ends   == {"complete", "interrupted"}

\* Who may own a take, and that while saves succeed it is an open one that
\* is there.
LEMMA OwnedTake ==
    ASSUME Inv, up = "up", NEW s \in Sessions, recording[s] # None
    PROVE  /\ recording[s] \in Takes /\ recording[s] \in Kept /\ recording[s] \in Tracks
           /\ s \in Live \cap listed /\ state[recording[s]] # "none"
           /\ faults = 0 => /\ state[recording[s]] = "recording" /\ recording[s] \in listed
                            /\ disk[recording[s]].kind = "file"
<1>1. recording[s] \in Takes
  BY DEF Inv, TypeOK
<1>2. recording[s] \in Kept /\ recording[s] \in Tracks
  BY <1>1, Names
<1>3. s \in Live \cap listed /\ state[recording[s]] # "none"
  BY DEF Inv, Owners
<1>4. faults = 0 => state[recording[s]] = "recording"
  BY DEF Inv, Sound
<1>. QED  BY <1>1, <1>2, <1>3, <1>4 DEF Inv, Listing

\* A close whose save fails: the take has the new state, the directory the
\* old one, and the session keeps pointing at it.
LEMMA FailedClose ==
    ASSUME Inv, up = "up", RequestStep, NEW s \in Sessions, NEW how \in Ends, CloseFails(s, how),
           UNCHANGED <<up, samples, start, idle, crashes, answered>>,
           listed' \subseteq listed,
           \A t \in listed : t \notin listed' => t \in Live /\ recording[t] = None
    PROVE  Inv'
<1>. DEFINE k == recording[s]
<1>1. /\ k \in Takes /\ k \in Kept /\ k \in Tracks /\ s \in Live \cap listed /\ state[k] # "none"
      /\ faults = 0 => disk[k].kind = "file"
  BY OwnedTake DEF CloseFails
<1>2. /\ state' \in [Tracks -> States] /\ state'[k] = how
      /\ \A t \in Tracks : t # k => state'[t] = state[t]
      /\ disk' = disk /\ recording' = recording
  BY <1>1 DEF CloseFails, Inv, TypeOK, States, Ends
<1>3. faults' \in 0..MaxFaults /\ faults' # 0
  <2>1. faults \in 0..MaxFaults /\ MaxFaults \in Nat
    BY SessionAssumption DEF Inv, TypeOK
  <2>. QED  BY <1>1, <2>1 DEF CloseFails, SaveFails
<1>4. \A t \in Kept : t \in listed' <=> t \in listed
  BY Names
<1>5. ClosingStep
  BY <1>1, <1>2, Names DEF ClosingStep, Inv, TypeOK, Ends
<1>6. FilesStep
  BY <1>1, <1>2, <1>4, Names DEF FilesStep, Inv, TypeOK, FileType, Ends
<1>7. Listing'
  <2>1. \A t \in listed' : state'[t] \notin {"none", "deleted"}
    BY <1>2 DEF Inv, TypeOK, Listing, Ends
  <2>2. \A t \in Kept : state'[t] = "recording" => t \in listed'
    BY <1>2, <1>4, Names DEF Inv, Listing, Ends
  <2>. QED  BY <1>2, <1>4, <2>1, <2>2 DEF Inv, Listing
<1>8. \A l \in Sessions : recording'[l] # None => l \in listed'
  BY <1>2 DEF Inv, Owners
<1>9. listed' \subseteq Tracks
  BY DEF Inv, TypeOK
<1>. QED  BY <1>2, <1>3, <1>5, <1>6, <1>7, <1>8, <1>9, StepKeepsInv DEF SavedStep, States

\* A close that is saved, of the takes of any set of sessions, together with
\* the creation of offline sessions: createTrack does both in one step.
Saves(S, how, new) ==
    /\ S \subseteq Sessions /\ how \in Ends /\ CanClose(S)
    /\ new \subseteq Offline /\ \A t \in new : state[t] = "none"
    /\ faults' = faults
    /\ recording' = Detached(S)
    /\ state' \in [Tracks -> States]
    /\ \A k \in Takes : state'[k] = ClosedState(S, how)[k]
    /\ \A t \in Offline : IF t \in new THEN state'[t] = "recording" ELSE state'[t] = state[t]
    /\ \A l \in Live \cap listed' : state'[l] \notin {"none", "deleted"}
    /\ listed' \subseteq Tracks
    /\ \A t \in Kept : t \in listed' <=> t \in listed \/ t \in new
    /\ \A l \in Live : l \in listed /\ l \notin listed' => l \in S \/ recording[l] = None
    /\ disk' = [t \in Kept |-> IF t \in new THEN File("recording", <<>>)
                               ELSE ClosedDisk(S, how)[t]]

\* Such a step keeps the invariant, with requests going on beside it.
LEMMA SavedClose ==
    ASSUME Inv, up = "up", RequestStep, NEW S, NEW how, NEW new, Saves(S, how, new),
           UNCHANGED <<up, samples, start, idle, crashes, answered>>
    PROVE  Inv'
<1>. USE DEF Saves
<1>. DEFINE K == OpenTakes(S)
<1>1. \A k \in K : k \in Takes /\ k \in Kept /\ k \in listed /\ k \notin new
  <2>. SUFFICES ASSUME NEW k \in K PROVE k \in Takes /\ k \in Kept /\ k \in listed /\ k \notin new
    OBVIOUS
  <2>1. PICK s \in S : k = recording[s] /\ k # None
    BY DEF OpenTakes
  <2>2. k \in Takes /\ k \in Kept
    BY <2>1, OwnedTake
  <2>3. disk[k].kind # "none"
    BY DEF CanClose
  <2>. QED  BY <2>2, <2>3, Names DEF Inv, Listing
<1>2. /\ \A k \in Takes : IF k \in K THEN state'[k] = how ELSE state'[k] = state[k]
      /\ \A k \in Takes : k \notin new
  BY Names DEF ClosedState
<1>3. /\ \A t \in Kept : t \in new => disk'[t] = File("recording", <<>>)
      /\ \A t \in K : disk'[t] = File(how, samples[t])
      /\ \A t \in Kept : t \notin new /\ t \notin K => disk'[t] = disk[t]
  BY <1>1 DEF ClosedDisk
<1>4. /\ \A s \in Sessions : IF s \in S THEN recording'[s] = None ELSE recording'[s] = recording[s]
      /\ recording' \in [Sessions -> Takes \cup {None}]
  BY DEF Detached, Inv, TypeOK
<1>. HIDE DEF K
<1>5. \A s \in S : recording[s] # None => recording[s] \in K
  BY DEF K, OpenTakes
<1>6. ClosingStep
  <2>1. ASSUME NEW k \in Takes
        PROVE  /\ state[k] # "none" => state'[k] # "none"
               /\ state'[k] = "recording" => state[k] = "recording" /\ k \notin K
    BY <1>2 DEF Ends
  <2>2. ASSUME NEW s \in Sessions, recording[s] # None, recording[s] \notin K
        PROVE  recording'[s] = recording[s]
    BY <1>4, <1>5, <2>2
  <2>3. \A s \in Sessions, k \in Takes : recording[s] = k => recording[s] # None
    BY Names
  <2>. QED  BY <1>4, <2>1, <2>2, <2>3 DEF ClosingStep
<1>7. \A t \in Kept : samples[t] \in Seq(Stamps) /\ disk[t] \in FileType
  BY DEF Inv, TypeOK, FileType
<1>8. ASSUME NEW t \in Kept
      PROVE  \/ /\ t \in new /\ t \notin K /\ disk'[t] = File("recording", <<>>)
                /\ disk'[t].kind = "file" /\ disk'[t].state = "recording" /\ disk'[t].samples = <<>>
             \/ /\ t \in K /\ t \notin new /\ disk'[t] = File(how, samples[t])
                /\ disk'[t].kind = "file" /\ disk'[t].state = how /\ disk'[t].samples = samples[t]
             \/ t \notin new /\ t \notin K /\ disk'[t] = disk[t]
  <2>1. CASE t \in new
    BY <1>1, <1>3, <2>1 DEF File
  <2>2. CASE t \in K
    <3>1. disk'[t] = File(how, samples[t]) /\ t \notin new
      BY <1>1, <1>3, <2>2
    <3>. QED  BY <2>2, <3>1 DEF File
  <2>3. CASE t \notin new /\ t \notin K
    BY <1>3, <2>3
  <2>. QED  BY <2>1, <2>2, <2>3
<1>9. FilesStep
  <2>1. disk' \in [Kept -> FileType]
    <3>1. ASSUME NEW t \in Kept PROVE disk'[t] \in FileType
      <4>1. \A times \in Seq(Stamps) : /\ File("recording", times) \in FileType
                                        /\ File(how, times) \in FileType
        BY DEF FileType, File, Ends
      <4>. QED  BY <1>7, <1>8, <4>1, NoTimes
    <3>. QED  BY <3>1
  <2>2. ASSUME NEW t \in Kept PROVE state'[t] = "none" => state[t] = "none"
    BY <1>2, <2>2 DEF Kept, Ends
  <2>3. ASSUME NEW t \in Kept
        PROVE  \/ disk'[t].samples = samples[t]
               \/ disk'[t].samples = disk[t].samples /\ (t \in listed' => t \in listed)
               \/ disk'[t].samples = <<>> /\ t \notin listed'
    <3>1. t \in new => samples[t] = <<>>
      BY DEF Inv, Lengths
    <3>2. t \in listed' => t \in listed \/ t \in new
      OBVIOUS
    <3>. QED  BY <1>8, <3>1, <3>2
  <2>. QED  BY <2>1, <2>2, <2>3 DEF FilesStep
<1>10. Listing'
  <2>1. ASSUME NEW t \in listed' PROVE state'[t] \notin {"none", "deleted"}
    <3>1. CASE t \in Live
      BY <3>1
    <3>2. CASE t \in Takes
      BY <1>2, <3>2, Names DEF Inv, Listing, Ends
    <3>3. CASE t \in Offline
      BY <3>3, Names DEF Inv, Listing
    <3>. QED  BY <3>1, <3>2, <3>3 DEF Tracks, Kept
  <2>2. ASSUME NEW t \in Kept, state'[t] = "recording" PROVE t \in listed'
    BY <1>2, <2>2 DEF Inv, Listing, Kept, Ends
  <2>3. ASSUME NEW t \in Kept PROVE disk'[t].kind = IF t \in listed' THEN "file" ELSE "none"
    BY <1>1, <1>8 DEF Inv, Listing
  <2>4. ASSUME NEW t \in Kept, disk'[t].kind = "file" PROVE disk'[t].state # "none"
    BY <1>1, <1>8, <2>4 DEF Inv, Listing, Ends
  <2>. QED  BY <2>1, <2>2, <2>3, <2>4 DEF Listing
<1>11. ASSUME NEW s \in Sessions, recording'[s] # None PROVE s \in listed'
  <2>1. s \notin S /\ recording[s] # None
    BY <1>4, <1>11
  <2>. QED  BY <2>1 DEF Inv, Owners
<1>12. SavedStep
  <2>. SUFFICES ASSUME faults = 0, NEW s \in Sessions, recording'[s] # None
                PROVE  state'[recording'[s]] = "recording"
    BY DEF SavedStep
  <2>1. s \notin S /\ recording'[s] = recording[s] /\ recording[s] # None
    BY <1>4
  <2>2. recording[s] \in Takes /\ state[recording[s]] = "recording"
    BY <2>1, OwnedTake
  <2>3. recording[s] \notin K
    <3>. SUFFICES ASSUME NEW l \in S, recording[l] = recording[s] PROVE FALSE
      BY DEF K, OpenTakes
    <3>. QED  BY <2>1 DEF Inv, Owners
  <2>. QED  BY <1>2, <2>1, <2>2, <2>3
<1>13. faults' \in 0..MaxFaults
  BY DEF Inv, TypeOK
<1>. QED  BY <1>6, <1>9, <1>10, <1>11, <1>12, <1>13, StepKeepsInv DEF States

\* Requests left alone, or with their contexts ended, or with the reply sent:
\* the steps of the requests that go with ends of takes.
LEMMA RequestsStay ==
    ASSUME Inv, UNCHANGED <<h, upload, consume, lastTime, lastSubmit, early>>
    PROVE  RequestStep
BY RequestShape DEF RequestStep, consume

LEMMA RequestsCancelled ==
    ASSUME Inv, NEW s \in Sessions, CancelFrames(s),
           UNCHANGED <<upload, consume, lastTime, lastSubmit, early>>
    PROVE  RequestStep
<1>. DEFINE Ended(q) == [h[q] EXCEPT !.ctx = "ended"]
<1>1. \A q \in Handlers : h'[q] = Ended(q) \/ h'[q] = h[q]
  BY DEF CancelFrames
<1>2. \A q \in Handlers : /\ Ended(q) \in RequestType
                          /\ Ended(q).pc = h[q].pc /\ Ended(q).of = h[q].of
                          /\ Ended(q).stamp = h[q].stamp /\ Ended(q).take = h[q].take
                          /\ Ended(q).reply = h[q].reply
  BY RequestShape DEF RequestType
<1>. HIDE DEF Ended
<1>3. h' \in [Handlers -> RequestType]
  <2>1. \A q \in Handlers : h'[q] \in RequestType
    BY <1>1, <1>2, RequestShape
  <2>2. h' = [q \in Handlers |-> h'[q]]
    BY DEF CancelFrames
  <2>. QED  BY <2>1, <2>2
<1>. QED  BY <1>1, <1>2, <1>3 DEF RequestStep, consume

\* What a reply does to the requests.
LEMMA Replied ==
    ASSUME Inv, worker = "frame", NEW verdict \in {"ok", "error"}, Reply(verdict)
    PROVE  /\ h' \in [Handlers -> RequestType]
           /\ \A q \in Handlers : /\ h'[q].pc = h[q].pc /\ h'[q].of = h[q].of
                                  /\ h'[q].stamp = h[q].stamp /\ h'[q].take = h[q].take
                                  /\ q # serving => h'[q].reply = h[q].reply
           /\ h'[serving].reply = verdict /\ verdict # "none"
           /\ worker' = "idle" /\ serving' = None /\ UNCHANGED <<frames, jobs>>
           /\ serving \in Handlers /\ h[serving].of \in Sessions
<1>1. serving \in Handlers /\ h \in [Handlers -> RequestType] /\ h[serving].of \in Sessions
  BY RequestShape
<1>2. h' = [h EXCEPT ![serving] = [h[serving] EXCEPT !.reply = verdict]]
  BY DEF Reply
<1>3. h[serving] \in RequestType
  BY <1>1
<1>4. /\ [h[serving] EXCEPT !.reply = verdict] \in RequestType
      /\ [h[serving] EXCEPT !.reply = verdict].pc = h[serving].pc
      /\ [h[serving] EXCEPT !.reply = verdict].of = h[serving].of
      /\ [h[serving] EXCEPT !.reply = verdict].stamp = h[serving].stamp
      /\ [h[serving] EXCEPT !.reply = verdict].take = h[serving].take
      /\ [h[serving] EXCEPT !.reply = verdict].reply = verdict
  BY <1>3 DEF RequestType
<1>5. \A q \in Handlers : /\ q # serving => h'[q] = h[q]
                          /\ q = serving => h'[q] = [h[serving] EXCEPT !.reply = verdict]
  BY <1>1, <1>2
<1>6. h' \in [Handlers -> RequestType]
  BY <1>1, <1>2, <1>4
<1>. QED  BY <1>1, <1>4, <1>5, <1>6 DEF Reply

LEMMA RequestsReplied ==
    ASSUME Inv, worker = "frame", NEW verdict \in {"ok", "error"}, Reply(verdict),
           UNCHANGED <<upload, lastSubmit, early>>,
           \/ lastTime' = lastTime
           \/ lastTime' = [lastTime EXCEPT ![h[serving].of] = h[serving].stamp]
    PROVE  RequestStep
<1>1. lastTime' \in [Sessions -> Stamps \cup {None}]
  BY RequestShape DEF Inv, TypeOK
<1>2. \A s \in Sessions : \/ lastTime'[s] = lastTime[s]
                          \/ s = h[serving].of /\ lastTime'[s] = h[serving].stamp
  BY DEF Inv, TypeOK
<1>. QED  BY <1>1, <1>2, Replied DEF RequestStep

\* A request that is served belongs to a server that is up.
LEMMA ServedUp == ASSUME Inv, worker = "frame" PROVE up = "up"
BY DEF Inv, TypeOK, Listing

\* Expiry and creation.
LEMMA CreateKeepsInv ==
    ASSUME Inv, NEW s \in Sessions, Create(s)
    PROVE  Inv'
<1>1. /\ RequestStep /\ up = "up" /\ state[s] = "none" /\ s \notin listed /\ recording[s] = None
      /\ UNCHANGED <<up, samples, start, idle, crashes, answered>> /\ faults' = faults
  <2>1. up = "up" /\ state[s] = "none" /\ s \notin listed
    BY DEF Create, Inv, Listing
  <2>2. recording[s] = None
    BY <2>1 DEF Inv, Owners
  <2>. QED  BY <2>1, <2>2, RequestsStay DEF Create, history
<1>2. /\ Expired \in SUBSET Sessions /\ "interrupted" \in Ends /\ CanClose(Expired)
      /\ recording' = Detached(Expired)
      /\ \A t \in Expired : t \in Live /\ t \in listed
  BY DEF Create, Expired, Sessions, Ends
<1>3. /\ ClosedState(Expired, "interrupted") \in [Tracks -> States]
      /\ \A t \in Tracks : t \notin Takes => ClosedState(Expired, "interrupted")[t] = state[t]
  <2>1. OpenTakes(Expired) \subseteq Takes
    BY <1>2 DEF OpenTakes, Inv, TypeOK
  <2>. QED  BY <2>1 DEF ClosedState, Inv, TypeOK, States
<1>4. /\ listed \subseteq Tracks /\ s \in Tracks
      /\ \A t \in listed : state[t] \notin {"none", "deleted"}
  BY Names DEF Inv, TypeOK, Listing
<1>5. CASE /\ listed' = (listed \ Expired) \cup {s}
           /\ state' = [ClosedState(Expired, "interrupted") EXCEPT ![s] = "recording"]
           /\ disk' = [t \in Kept |-> IF t = s THEN File("recording", <<>>)
                                     ELSE ClosedDisk(Expired, "interrupted")[t]]
  <2>. DEFINE new == {s} \cap Offline
  <2>1. /\ new \in SUBSET Offline /\ \A t \in new : state[t] = "none"
        /\ \A t \in Kept : t \in new <=> t = s
    BY <1>1, Names
  <2>2. /\ state' \in [Tracks -> States] /\ state'[s] = "recording"
        /\ \A t \in Tracks : t # s => state'[t] = ClosedState(Expired, "interrupted")[t]
    BY <1>3, <1>4, <1>5 DEF States
  <2>3. /\ \A k \in Takes : state'[k] = ClosedState(Expired, "interrupted")[k]
        /\ \A t \in Offline : IF t \in new THEN state'[t] = "recording" ELSE state'[t] = state[t]
    BY <1>3, <2>2, Names
  <2>4. \A l \in Live \cap listed' : state'[l] \notin {"none", "deleted"}
    BY <1>3, <1>4, <1>5, <2>2, Names
  <2>5. /\ listed' \subseteq Tracks
        /\ \A t \in Kept : t \in listed' <=> t \in listed \/ t \in new
        /\ \A l \in Live : l \in listed /\ l \notin listed' => l \in Expired \/ recording[l] = None
    BY <1>2, <1>4, <1>5, <2>1, Names
  <2>6. disk' = [t \in Kept |-> IF t \in new THEN File("recording", <<>>)
                               ELSE ClosedDisk(Expired, "interrupted")[t]]
    BY <1>5, <2>1
  <2>. HIDE DEF new
  <2>7. Saves(Expired, "interrupted", new)
    BY <1>1, <1>2, <2>1, <2>2, <2>3, <2>4, <2>5, <2>6 DEF Saves
  <2>. QED  BY <1>1, <2>7, SavedClose
<1>6. CASE /\ listed' = listed \ Expired
           /\ state' = ClosedState(Expired, "interrupted")
           /\ disk' = ClosedDisk(Expired, "interrupted")
  <2>. DEFINE new == Offline \cap {}
  <2>1. /\ new \in SUBSET Offline /\ \A t \in new : state[t] = "none"
        /\ \A t : t \notin new
    OBVIOUS
  <2>2. /\ state' \in [Tracks -> States]
        /\ \A k \in Takes : state'[k] = ClosedState(Expired, "interrupted")[k]
        /\ \A t \in Offline : IF t \in new THEN state'[t] = "recording" ELSE state'[t] = state[t]
        /\ \A l \in Live \cap listed' : state'[l] \notin {"none", "deleted"}
    BY <1>3, <1>4, <1>6, Names
  <2>3. /\ listed' \subseteq Tracks
        /\ \A t \in Kept : t \in listed' <=> t \in listed \/ t \in new
        /\ \A l \in Live : l \in listed /\ l \notin listed' => l \in Expired \/ recording[l] = None
    BY <1>2, <1>4, <1>6, Names
  <2>4. disk' = [t \in Kept |-> IF t \in new THEN File("recording", <<>>)
                               ELSE ClosedDisk(Expired, "interrupted")[t]]
    BY <1>6 DEF ClosedDisk
  <2>. HIDE DEF new
  <2>5. Saves(Expired, "interrupted", new)
    BY <1>1, <1>2, <2>1, <2>2, <2>3, <2>4 DEF Saves
  <2>. QED  BY <1>1, <2>5, SavedClose
<1>. QED  BY <1>5, <1>6 DEF Create

\* An expiry whose take cannot be saved: it ends, as the takes of the
\* sessions closed before it do, but its session keeps pointing at it.
LEMMA CreateFailsKeepsInv == ASSUME Inv, CreateFails PROVE Inv'
<1>1. PICK s \in Expired : \E gone \in SUBSET (Expired \ {s}) :
         /\ CanClose(gone)
         /\ recording[s] # None /\ SaveFails(recording[s])
         /\ state' = ClosedState(gone \cup {s}, "interrupted")
         /\ recording' = Detached(gone)
         /\ disk' = ClosedDisk(gone, "interrupted")
         /\ listed' = listed \ gone
  BY DEF CreateFails
<1>2. PICK gone \in SUBSET (Expired \ {s}) :
         /\ CanClose(gone)
         /\ recording[s] # None /\ SaveFails(recording[s])
         /\ state' = ClosedState(gone \cup {s}, "interrupted")
         /\ recording' = Detached(gone)
         /\ disk' = ClosedDisk(gone, "interrupted")
         /\ listed' = listed \ gone
  BY <1>1
<1>. DEFINE k == recording[s]
            K == OpenTakes(gone)
<1>3. /\ up = "up" /\ UNCHANGED <<up, samples, start, idle, crashes, answered>>
      /\ RequestStep
  BY RequestsStay DEF CreateFails, history
<1>4. /\ s \in Sessions /\ s \notin gone /\ \A l \in gone : l \in Sessions /\ l \in Live
  BY <1>2 DEF Expired, Sessions
<1>5. /\ k \in Takes /\ k \in Kept /\ k \in Tracks /\ k # None /\ state[k] # "none"
      /\ faults = 0 => disk[k].kind = "file"
      /\ s \in Live \cap listed
  BY <1>2, <1>3, <1>4, OwnedTake
<1>6. /\ \A l \in gone : recording[l] # None => recording[l] \in K
      /\ k \notin K
      /\ \A t \in K : /\ t \in Takes /\ t \in Kept /\ t \in listed /\ t \in Tracks
                      /\ state[t] # "none" /\ disk[t].kind = "file"
  <2>1. ASSUME NEW t \in K
        PROVE  /\ t # k /\ t \in Takes /\ t \in Kept /\ t \in listed /\ t \in Tracks
               /\ state[t] # "none" /\ disk[t].kind = "file"
    <3>1. PICK l \in gone : t = recording[l] /\ t # None
      BY DEF OpenTakes
    <3>2. t \in Takes /\ t \in Kept /\ t \in Tracks /\ state[t] # "none"
      BY <1>3, <1>4, <3>1, OwnedTake
    <3>3. t # k
      BY <1>2, <1>4, <3>1 DEF Inv, Owners
    <3>4. disk[t].kind # "none"
      BY <1>2 DEF CanClose
    <3>. QED  BY <1>3, <3>2, <3>3, <3>4 DEF Inv, Listing
  <2>. QED  BY <2>1 DEF OpenTakes
<1>7. /\ \A t \in Tracks : IF t \in K \/ t = k THEN state'[t] = "interrupted"
                                               ELSE state'[t] = state[t]
      /\ state' \in [Tracks -> States]
  <2>1. \A t : t \in OpenTakes(gone \cup {s}) <=> t \in K \/ t = k
    BY <1>5 DEF OpenTakes
  <2>2. \A t \in Tracks : state'[t] = IF t \in K \/ t = k THEN "interrupted" ELSE state[t]
    BY <1>2, <2>1 DEF ClosedState
  <2>3. \A t \in Tracks : state'[t] \in States
    BY <2>2 DEF Inv, TypeOK, States
  <2>4. state' = [t \in Tracks |-> state'[t]]
    BY <1>2 DEF ClosedState
  <2>. HIDE DEF k, K
  <2>. QED  BY <2>2, <2>3, <2>4
<1>8. /\ \A t \in Kept : t \in K => disk'[t] = File("interrupted", samples[t])
      /\ \A t \in Kept : t \notin K => disk'[t] = disk[t]
      /\ disk' = [t \in Kept |-> disk'[t]]
  BY <1>2 DEF ClosedDisk
<1>9. /\ \A l \in Sessions : IF l \in gone THEN recording'[l] = None ELSE recording'[l] = recording[l]
      /\ recording' \in [Sessions -> Takes \cup {None}]
  BY <1>2 DEF Detached, Inv, TypeOK
<1>10. faults' \in 0..MaxFaults /\ faults' # 0
  <2>1. faults \in 0..MaxFaults /\ MaxFaults \in Nat
    BY SessionAssumption DEF Inv, TypeOK
  <2>. QED  BY <1>2, <1>5, <2>1 DEF SaveFails
<1>11. /\ listed' \subseteq listed /\ listed' \subseteq Tracks
       /\ \A t \in Kept : t \in listed' <=> t \in listed
       /\ \A l \in gone : l \notin listed'
       /\ \A l \in listed : l \notin gone => l \in listed'
  BY <1>2, <1>4, Names DEF Inv, TypeOK
<1>. HIDE DEF k, K
<1>12. \A t \in Kept : /\ samples[t] \in Seq(Stamps) /\ disk[t] \in FileType
                       /\ t \in K => /\ disk'[t].kind = "file" /\ disk'[t].state = "interrupted"
                                     /\ disk'[t].samples = samples[t]
  BY <1>8 DEF Inv, TypeOK, FileType, File
<1>13. ClosingStep
  <2>1. ASSUME NEW t \in Takes
        PROVE  /\ state[t] # "none" => state'[t] # "none"
               /\ state'[t] = "recording" => state[t] = "recording" /\ t \notin K
    BY <1>7, Names
  <2>2. \A l \in Sessions : recording[l] # None /\ recording[l] \notin K
                            => recording'[l] = recording[l]
    BY <1>6, <1>9
  <2>3. \A l \in Sessions, t \in Takes : recording[l] = t => recording[l] # None
    BY Names
  <2>. QED  BY <1>9, <2>1, <2>2, <2>3 DEF ClosingStep
<1>14. FilesStep
  <2>1. disk' \in [Kept -> FileType]
    <3>1. \A times \in Seq(Stamps) : File("interrupted", times) \in FileType
      BY DEF FileType, File
    <3>2. \A t \in Kept : disk'[t] \in FileType
      BY <1>8, <1>12, <3>1
    <3>. QED  BY <1>8, <3>2
  <2>2. \A t \in Kept : state'[t] = "none" => state[t] = "none"
    BY <1>7, Names
  <2>3. \A t \in Kept : \/ disk'[t].samples = samples[t]
                        \/ disk'[t].samples = disk[t].samples /\ (t \in listed' => t \in listed)
    BY <1>8, <1>11, <1>12
  <2>. QED  BY <1>3, <2>1, <2>2, <2>3 DEF FilesStep
<1>15. Listing'
  <2>1. \A t \in listed' : state'[t] \notin {"none", "deleted"}
    BY <1>7, <1>11 DEF Inv, TypeOK, Listing
  <2>2. \A t \in Kept : state'[t] = "recording" => t \in listed'
    BY <1>7, <1>11, Names DEF Inv, Listing
  <2>3. ASSUME NEW t \in Kept
        PROVE  /\ disk'[t].kind = IF t \in listed' THEN "file" ELSE "none"
               /\ disk'[t].kind = "file" => disk'[t].state # "none"
    BY <1>3, <1>6, <1>8, <1>11, <1>12 DEF Inv, Listing
  <2>. QED  BY <1>3, <2>1, <2>2, <2>3 DEF Listing
<1>16. \A l \in Sessions : recording'[l] # None => l \in listed'
  BY <1>9, <1>11 DEF Inv, Owners
<1>. QED  BY <1>3, <1>7, <1>10, <1>11, <1>13, <1>14, <1>15, <1>16, StepKeepsInv
     DEF SavedStep, States

\* A saved close of the take of one session, which may leave the map.
LEMMA OneSavedClose ==
    ASSUME Inv, up = "up", RequestStep, NEW s \in Sessions, NEW how \in Ends, CanClose({s}),
           UNCHANGED <<up, samples, start, idle, crashes, answered>>, faults' = faults,
           recording' = Detached({s}), disk' = ClosedDisk({s}, how),
           \/ listed' = listed /\ state' = ClosedState({s}, how)
           \/ /\ s \in Live /\ listed' = listed \ {s}
              /\ state' = [ClosedState({s}, how) EXCEPT ![s] = "complete"]
    PROVE  Inv'
<1>. DEFINE new == Offline \cap {}
            S   == Sessions \cap {s}
<1>1. /\ S \in SUBSET Sessions /\ S = {s} /\ new \in SUBSET Offline
      /\ \A t \in new : state[t] = "none"
      /\ \A t : t \notin new
  OBVIOUS
<1>2. /\ ClosedState(S, how) \in [Tracks -> States]
      /\ \A t \in Tracks : t \notin Takes => ClosedState(S, how)[t] = state[t]
  <2>1. OpenTakes(S) \subseteq Takes
    BY DEF OpenTakes, Inv, TypeOK
  <2>. QED  BY <2>1 DEF ClosedState, Inv, TypeOK, States, Ends
<1>3. listed \subseteq Tracks /\ \A t \in listed : state[t] \notin {"none", "deleted"}
  BY DEF Inv, TypeOK, Listing
<1>4. /\ disk' = [t \in Kept |-> IF t \in new THEN File("recording", <<>>)
                                 ELSE ClosedDisk(S, how)[t]]
      /\ CanClose(S) /\ recording' = Detached(S)
  <2>. HIDE DEF new
  <2>. QED  BY <1>1 DEF ClosedDisk
<1>. DEFINE closed == ClosedState(S, how)
<1>. HIDE DEF new
<1>7. closed = ClosedState({s}, how)
  BY <1>1
<1>. HIDE DEF S
<1>8. S \in SUBSET Sessions /\ new \in SUBSET Offline /\ \A t \in new : state[t] = "none"
  BY <1>1
<1>5. CASE listed' = listed /\ state' = ClosedState({s}, how)
  <2>1. /\ state' \in [Tracks -> States]
        /\ \A k \in Takes : state'[k] = ClosedState(S, how)[k]
        /\ \A t \in Offline : IF t \in new THEN state'[t] = "recording" ELSE state'[t] = state[t]
        /\ \A l \in Live \cap listed' : state'[l] \notin {"none", "deleted"}
    BY <1>1, <1>2, <1>3, <1>5, <1>7, Names
  <2>2. /\ listed' \subseteq Tracks
        /\ \A t \in Kept : t \in listed' <=> t \in listed \/ t \in new
        /\ \A l \in Live : l \in listed /\ l \notin listed' => l \in S \/ recording[l] = None
    BY <1>1, <1>3, <1>5
  <2>. HIDE DEF closed
  <2>3. Saves(S, how, new)
    BY <1>4, <1>8, <2>1, <2>2 DEF closed, Saves
  <2>. QED  BY <2>3, SavedClose
<1>6. CASE /\ s \in Live /\ listed' = listed \ {s}
           /\ state' = [ClosedState({s}, how) EXCEPT ![s] = "complete"]
  <2>1. /\ state' \in [Tracks -> States]
        /\ \A k \in Takes : state'[k] = ClosedState(S, how)[k]
        /\ \A t \in Offline : IF t \in new THEN state'[t] = "recording" ELSE state'[t] = state[t]
        /\ \A l \in Live \cap listed' : state'[l] \notin {"none", "deleted"}
    <3>. HIDE DEF closed
    <3>1. closed \in [Tracks -> States] /\ s \in Tracks /\ s \notin Takes
          /\ \A t \in Tracks : t \notin Takes => closed[t] = state[t]
      BY <1>2, Names DEF closed
    <3>2. state' = [closed EXCEPT ![s] = "complete"]
      BY <1>6, <1>7
    <3>3. /\ state' \in [Tracks -> States]
          /\ \A t \in Tracks : t # s => state'[t] = closed[t]
      BY <3>1, <3>2 DEF States
    <3>4. \A k \in Takes : state'[k] = closed[k]
      BY <3>1, <3>3, Names
    <3>5. \A t \in Tracks : t \notin Takes /\ t # s => state'[t] = state[t]
      BY <3>1, <3>3
    <3>6. \A t \in Offline : IF t \in new THEN state'[t] = "recording" ELSE state'[t] = state[t]
      BY <1>1, <1>6, <3>5, Names
    <3>7. \A l \in Live \cap listed' : state'[l] \notin {"none", "deleted"}
      BY <1>3, <1>6, <3>5, Names
    <3>. QED  BY <3>3, <3>4, <3>6, <3>7 DEF closed
  <2>2. /\ listed' \subseteq Tracks
        /\ \A t \in Kept : t \in listed' <=> t \in listed \/ t \in new
        /\ \A l \in Live : l \in listed /\ l \notin listed' => l \in S \/ recording[l] = None
    BY <1>1, <1>3, <1>6, Names
  <2>. HIDE DEF closed
  <2>3. Saves(S, how, new)
    BY <1>4, <1>8, <2>1, <2>2 DEF closed, Saves
  <2>. QED  BY <2>3, SavedClose
<1>. QED  BY <1>5, <1>6

\* POST record/stop.
LEMMA StopRecordKeepsInv ==
    ASSUME Inv, NEW s \in Live, StopRecord(s)
    PROVE  Inv'
<1>1. /\ s \in Sessions /\ up = "up" /\ "complete" \in Ends /\ RequestStep
      /\ UNCHANGED <<up, listed, samples, start, idle, crashes, answered>>
  BY RequestsStay, Names DEF StopRecord, history, Ends
<1>2. CASE CanClose({s}) /\ state' = ClosedState({s}, "complete")
           /\ disk' = ClosedDisk({s}, "complete") /\ recording' = Detached({s}) /\ faults' = faults
  BY <1>1, <1>2, OneSavedClose
<1>3. CASE CloseFails(s, "complete")
  BY <1>1, <1>3, FailedClose
<1>. QED  BY <1>2, <1>3 DEF StopRecord

\* POST finish of a live session.
LEMMA FinishLiveKeepsInv ==
    ASSUME Inv, NEW s \in Live, FinishLive(s)
    PROVE  Inv'
<1>1. /\ s \in Sessions /\ up = "up" /\ "complete" \in Ends
      /\ UNCHANGED <<up, samples, start, idle, crashes, answered>>
      /\ UNCHANGED <<upload, consume, lastTime, lastSubmit, early>>
  BY Names DEF FinishLive, history, Ends
<1>2. CASE /\ CanClose({s}) /\ disk' = ClosedDisk({s}, "complete") /\ recording' = Detached({s})
           /\ state' = [ClosedState({s}, "complete") EXCEPT ![s] = "complete"]
           /\ listed' = listed \ {s} /\ CancelFrames(s) /\ faults' = faults
  <2>1. RequestStep
    BY <1>1, <1>2, RequestsCancelled
  <2>. QED  BY <1>1, <1>2, <2>1, OneSavedClose
<1>3. CASE CloseFails(s, "complete") /\ listed' = listed /\ h' = h
  <2>1. RequestStep
    BY <1>1, <1>3, RequestsStay
  <2>. QED  BY <1>1, <1>3, <2>1, FailedClose
<1>. QED  BY <1>2, <1>3 DEF FinishLive

\* The budget is spent: the frame fails and its take is interrupted.
LEMMA BudgetSpentKeepsInv == ASSUME Inv, BudgetSpent PROVE Inv'
<1>. DEFINE s == h[serving].of
<1>1. /\ s \in Sessions /\ up = "up" /\ "interrupted" \in Ends
      /\ UNCHANGED <<up, listed, samples, start, idle, crashes, answered>>
      /\ UNCHANGED <<upload, lastTime, lastSubmit, early>>
      /\ worker = "frame" /\ Reply("error")
  BY ServedUp, RequestShape DEF BudgetSpent, history, Ends
<1>2. RequestStep
  BY <1>1, RequestsReplied
<1>. HIDE DEF s
<1>3. CASE CanClose({s}) /\ state' = ClosedState({s}, "interrupted")
           /\ disk' = ClosedDisk({s}, "interrupted") /\ recording' = Detached({s})
           /\ faults' = faults
  BY <1>1, <1>2, <1>3, OneSavedClose
<1>4. CASE CloseFails(s, "interrupted")
  BY <1>1, <1>2, <1>4, FailedClose
<1>. QED  BY <1>3, <1>4 DEF BudgetSpent, s

-----------------------------------------------------------------------------
(* Actions that leave the takes of the sessions alone                      *)

\* The same tracks, the same directories: only requests moved on.
LEMMA OnlyRequestsMove ==
    ASSUME Inv, RequestStep,
           UNCHANGED <<up, listed, state, samples, recording, start, idle, disk, faults, crashes,
                       answered>>,
           up = "up" \/ (worker' = worker /\ \A q \in Handlers : h'[q].pc = h[q].pc)
    PROVE  Inv'
<1>1. ClosingStep /\ SavedStep
  BY DEF ClosingStep, SavedStep, Inv, TypeOK, Sound
<1>2. FilesStep
  BY DEF FilesStep, Inv, TypeOK, FileType, Listing
<1>3. Listing'
  BY DEF Inv, Listing, RequestStep
<1>4. \A s \in Sessions : recording'[s] # None => s \in listed'
  BY DEF Inv, Owners
<1>5. listed' \subseteq Tracks /\ faults' \in 0..MaxFaults
      /\ state' \in [Tracks -> {"none", "recording", "complete", "interrupted", "deleted"}]
  BY DEF Inv, TypeOK
<1>. QED  BY <1>1, <1>2, <1>3, <1>4, <1>5, StepKeepsInv

LEMMA EndContextKeepsInv ==
    ASSUME Inv, NEW r \in Handlers, EndContext(r)
    PROVE  Inv'
<1>. DEFINE ended == [h[r] EXCEPT !.ctx = "ended"]
<1>1. /\ UNCHANGED <<up, listed, state, samples, recording, start, idle, disk, faults, crashes,
                     answered, upload, frames, worker, serving, jobs, lastTime, lastSubmit, early>>
      /\ h' = [h EXCEPT ![r] = ended]
  BY DEF EndContext, tracks, consume, history
<1>2. ended \in RequestType /\ ended.pc = h[r].pc /\ ended.of = h[r].of
      /\ ended.stamp = h[r].stamp /\ ended.take = h[r].take /\ ended.reply = h[r].reply
  BY RequestShape DEF RequestType
<1>. HIDE DEF ended
<1>3. RequestStep
  BY <1>1, <1>2, RequestShape DEF RequestStep
<1>. QED  BY <1>1, <1>3, OnlyRequestsMove DEF RequestStep

LEMMA FrameFailsKeepsInv == ASSUME Inv, FrameFails PROVE Inv'
<1>1. /\ UNCHANGED <<up, listed, state, samples, recording, start, idle, disk, faults, crashes,
                     answered, upload, lastTime, lastSubmit, early>>
      /\ up = "up" /\ RequestStep
  BY RequestsReplied, ServedUp DEF FrameFails, tracks, history
<1>. QED  BY <1>1, OnlyRequestsMove

LEMMA KeepNothingKeepsInv == ASSUME Inv, KeepNothing PROVE Inv'
<1>1. /\ UNCHANGED <<up, listed, state, samples, recording, start, idle, disk, faults, crashes,
                     answered, upload, lastSubmit, early>>
      /\ worker = "frame" /\ Reply("ok")
      /\ lastTime' = [lastTime EXCEPT ![h[serving].of] = h[serving].stamp]
  BY DEF KeepNothing, history
<1>2. up = "up" /\ RequestStep
  BY <1>1, RequestsReplied, ServedUp
<1>. QED  BY <1>1, <1>2, OnlyRequestsMove

\* POST finish of an offline session.
LEMMA FinishOfflineKeepsInv ==
    ASSUME Inv, NEW s \in Offline, FinishOffline(s)
    PROVE  Inv'
<1>1. /\ up = "up" /\ s \in listed /\ s \in Sessions /\ s \in Kept /\ s \in Tracks /\ s \notin Takes
      /\ UNCHANGED <<up, listed, samples, recording, start, idle, crashes, answered>>
      /\ RequestStep
  BY RequestsCancelled, Names DEF FinishOffline, history
<1>2. /\ state' \in [Tracks -> States] /\ state'[s] = "complete"
      /\ \A t \in Tracks : t # s => state'[t] = state[t]
  BY <1>1 DEF FinishOffline, Inv, TypeOK, States
<1>3. /\ disk' = disk \/ disk' = [disk EXCEPT ![s] = File("complete", samples[s])]
      /\ faults' \in 0..MaxFaults /\ (faults' = 0 => faults = 0)
  <2>1. faults \in 0..MaxFaults /\ MaxFaults \in Nat
    BY SessionAssumption DEF Inv, TypeOK
  <2>. QED  BY <1>1, <2>1 DEF FinishOffline, SaveOk, SaveFails
<1>4. ASSUME NEW t \in Kept
      PROVE  \/ disk'[t] = disk[t]
             \/ t = s /\ disk'[t].kind = "file" /\ disk'[t].state = "complete"
                      /\ disk'[t].samples = samples[t] /\ disk'[t] \in FileType
  <2>1. samples[s] \in Seq(Stamps)
    BY <1>1 DEF Inv, TypeOK
  <2>2. /\ File("complete", samples[s]) \in FileType
        /\ File("complete", samples[s]).kind = "file"
        /\ File("complete", samples[s]).state = "complete"
        /\ File("complete", samples[s]).samples = samples[s]
    BY <2>1 DEF File, FileType
  <2>. QED  BY <1>1, <1>3, <2>2 DEF Inv, TypeOK
<1>5. ClosingStep
  BY <1>1, <1>2, Names DEF ClosingStep, Inv, TypeOK
<1>6. FilesStep
  <2>1. \A t \in Kept : disk'[t] \in FileType
    BY <1>4 DEF Inv, TypeOK, FileType
  <2>2. disk' \in [Kept -> FileType]
    BY <1>3, <2>1 DEF Inv, TypeOK
  <2>. QED  BY <1>1, <1>2, <1>4, <2>2, Names DEF FilesStep
<1>7. Listing'
  <2>1. \A t \in listed' : state'[t] \notin {"none", "deleted"}
    BY <1>1, <1>2 DEF Inv, TypeOK, Listing
  <2>2. \A t \in Kept : state'[t] = "recording" => t \in listed'
    BY <1>1, <1>2, Names DEF Inv, Listing
  <2>3. \A t \in Kept : /\ disk'[t].kind = IF t \in listed' THEN "file" ELSE "none"
                        /\ disk'[t].kind = "file" => disk'[t].state # "none"
    BY <1>1, <1>4 DEF Inv, Listing
  <2>. QED  BY <1>1, <2>1, <2>2, <2>3 DEF Listing
<1>8. SavedStep
  BY <1>1, <1>2, <1>3, OwnedTake, Names DEF SavedStep
<1>9. /\ \A l \in Sessions : recording'[l] # None => l \in listed'
      /\ listed' \subseteq Tracks
  BY <1>1 DEF Inv, Owners, TypeOK
<1>. QED  BY <1>1, <1>2, <1>3, <1>5, <1>6, <1>7, <1>8, <1>9, StepKeepsInv DEF States

\* PATCH.
LEMMA RenameKeepsInv ==
    ASSUME Inv, NEW t \in Kept, Rename(t)
    PROVE  Inv'
<1>1. /\ up = "up" /\ t \in listed /\ t \in Tracks /\ faults' = faults
      /\ UNCHANGED <<up, listed, state, samples, recording, start, idle, crashes, answered>>
      /\ RequestStep
  BY RequestsStay, Names DEF Rename, SaveOk, tracks, history
<1>2. ASSUME NEW u \in Kept
      PROVE  \/ disk'[u] = disk[u]
             \/ u = t /\ disk'[u].kind = "file" /\ disk'[u].state # "none"
                      /\ disk'[u].samples = samples[u] /\ disk'[u] \in FileType
  <2>1. samples[t] \in Seq(Stamps) /\ state[t] \in {"recording", "complete", "interrupted"}
    BY <1>1 DEF Inv, TypeOK, Listing
  <2>2. /\ File(state[t], samples[t]) \in FileType
        /\ File(state[t], samples[t]).kind = "file"
        /\ File(state[t], samples[t]).state # "none"
        /\ File(state[t], samples[t]).samples = samples[t]
    BY <2>1 DEF File, FileType
  <2>. QED  BY <1>1, <2>2 DEF Rename, Inv, TypeOK
<1>3. ClosingStep
  BY <1>1 DEF ClosingStep, Inv, TypeOK
<1>4. FilesStep
  <2>1. \A u \in Kept : disk'[u] \in FileType
    BY <1>2 DEF Inv, TypeOK, FileType
  <2>2. disk' \in [Kept -> FileType]
    BY <2>1 DEF Inv, TypeOK, Rename
  <2>. QED  BY <1>1, <1>2, <2>2 DEF FilesStep
<1>5. Listing'
  <2>1. \A u \in Kept : /\ disk'[u].kind = IF u \in listed' THEN "file" ELSE "none"
                        /\ disk'[u].kind = "file" => disk'[u].state # "none"
    BY <1>1, <1>2 DEF Inv, Listing
  <2>. QED  BY <1>1, <2>1 DEF Inv, Listing
<1>6. SavedStep
  BY <1>1, OwnedTake DEF SavedStep
<1>7. /\ \A l \in Sessions : recording'[l] # None => l \in listed'
      /\ listed' \subseteq Tracks /\ faults' \in 0..MaxFaults /\ state' \in [Tracks -> States]
  BY <1>1 DEF Inv, Owners, TypeOK, States
<1>. QED  BY <1>1, <1>3, <1>4, <1>5, <1>6, <1>7, StepKeepsInv DEF States

\* DELETE.
LEMMA DeleteKeepsInv ==
    ASSUME Inv, NEW t \in Kept, Delete(t)
    PROVE  Inv'
<1>1. /\ up = "up" /\ t \in listed /\ t \in Tracks /\ t \notin Live /\ state[t] # "recording"
      /\ faults' = faults
      /\ UNCHANGED <<up, samples, recording, start, idle, crashes, answered>>
      /\ listed' = listed \ {t}
      /\ RequestStep
  BY RequestsStay, Names DEF Delete, Deletable, history
<1>2. /\ state' \in [Tracks -> States] /\ state'[t] = "deleted"
      /\ \A u \in Tracks : u # t => state'[u] = state[u]
  BY <1>1 DEF Delete, Inv, TypeOK, States
<1>3. /\ disk' \in [Kept -> FileType]
      /\ disk'[t].kind = "none" /\ disk'[t].samples = <<>>
      /\ \A u \in Kept : u # t => disk'[u] = disk[u]
  <2>1. NoDir \in FileType /\ NoDir.kind = "none" /\ NoDir.samples = <<>>
    BY NoTimes DEF NoDir, FileType
  <2>. QED  BY <2>1 DEF Delete, Inv, TypeOK, FileType
<1>4. ClosingStep
  BY <1>1, <1>2, Names DEF ClosingStep, Inv, TypeOK
<1>5. FilesStep
  BY <1>1, <1>2, <1>3, Names DEF FilesStep
<1>6. Listing'
  <2>1. \A u \in listed' : state'[u] \notin {"none", "deleted"}
    BY <1>1, <1>2 DEF Inv, TypeOK, Listing
  <2>2. \A u \in Kept : state'[u] = "recording" => u \in listed'
    BY <1>1, <1>2, Names DEF Inv, Listing
  <2>3. \A u \in Kept : /\ disk'[u].kind = IF u \in listed' THEN "file" ELSE "none"
                        /\ disk'[u].kind = "file" => disk'[u].state # "none"
    BY <1>1, <1>3 DEF Inv, Listing
  <2>. QED  BY <1>1, <2>1, <2>2, <2>3 DEF Listing
<1>7. SavedStep
  BY <1>1, <1>2, OwnedTake DEF SavedStep
<1>8. /\ \A l \in Sessions : recording'[l] # None => l \in listed'
      /\ listed' \subseteq Tracks /\ faults' \in 0..MaxFaults
  BY <1>1 DEF Inv, Owners, TypeOK
<1>. QED  BY <1>1, <1>2, <1>4, <1>5, <1>6, <1>7, <1>8, StepKeepsInv DEF States

-----------------------------------------------------------------------------
(* Actions of the frame requests and of the consumer                       *)

\* A server that does something for a request is up.
LEMMA RequestUp == ASSUME Inv, NEW r \in Handlers, h[r].pc # "idle" PROVE up = "up"
BY DEF Inv, TypeOK, Listing

\* Requests come and go while the tracks stay as they are.
LEMMA TracksStay ==
    ASSUME Inv, up = "up",
           UNCHANGED <<up, listed, state, samples, lastTime, recording, disk, faults, answered>>
    PROVE  /\ Listing' /\ Owners' /\ Sound'
           /\ \A t \in Kept : /\ Len(samples'[t]) <= MaxFrames
                              /\ Len(disk'[t].samples) <= MaxFrames
                              /\ answered'[t] <= Len(samples'[t])
                              /\ state'[t] = "none" => samples'[t] = <<>>
           /\ \A k \in Takes : state'[k] = "recording" => Len(samples'[k]) < MaxFrames
           /\ up' = "up" => \A t \in Kept \cap listed' :
                              /\ answered'[t] <= Len(disk'[t].samples)
                              /\ Len(disk'[t].samples) <= Len(samples'[t])
<1>1. Listing' /\ Owners'
  BY DEF Inv, Listing, Owners
<1>2. Sound'
  BY DEF Inv, Sound
<1>. QED  BY <1>1, <1>2 DEF Inv, Lengths

\* A request that is refused, or has its reply, ends.
LEMMA GoneKeepsInv ==
    ASSUME Inv, NEW r \in Handlers, Reject(r) \/ Leave(r)
    PROVE  Inv'
<1>1. /\ UNCHANGED <<up, listed, state, samples, lastTime, lastSubmit, recording, start, idle,
                     frames, worker, serving, jobs, disk, faults, crashes, answered>>
      /\ h' = [h EXCEPT ![r] = Idle] /\ early' = early \ {r}
      /\ \/ h[r].pc = "reading" /\ upload' = None
         \/ h[r].pc = "waiting" /\ h[r].reply # "none" /\ upload' = upload
  BY DEF Reject, Leave, Gone, tracks, consume
<1>2. up = "up"
  BY <1>1, RequestUp
<1>3. /\ h' \in [Handlers -> RequestType]
      /\ h'[r].pc = "idle"
      /\ \A q \in Handlers : q # r => h'[q] = h[q]
  <2>1. Idle \in RequestType /\ Idle.pc = "idle"
    <3>1. 0 \in Stamps
      BY Names DEF Stamps
    <3>. QED  BY <3>1 DEF Idle, RequestType
  <2>. QED  BY <1>1, <2>1, RequestShape
<1>4. TypeOK'
  <2>1. early' \subseteq Handlers /\ upload' \in Handlers \cup {None}
    BY <1>1 DEF Inv, TypeOK
  <2>. QED  BY <1>1, <1>3, <2>1 DEF Inv, TypeOK, RequestType
<1>5. \A q \in Handlers : h'[q].pc # "idle" => q # r /\ h'[q] = h[q]
  BY <1>3
<1>6. Requests'
  <2>1. ASSUME NEW q \in Handlers, h[q].pc = "waiting", h[q].reply = "none" PROVE q # r
    BY <1>1, <2>1
  <2>2. ASSUME NEW q \in Handlers, frames' = <<q>> PROVE h'[q].pc = "waiting" /\ h'[q].reply = "none"
    BY <1>1, <1>3, <2>1, <2>2 DEF Inv, Requests
  <2>3. ASSUME worker' = "frame"
        PROVE  /\ serving' \in Handlers /\ frames' # <<serving'>>
               /\ h'[serving'].pc = "waiting" /\ h'[serving'].reply = "none"
    BY <1>1, <1>3, <2>1, <2>3 DEF Inv, Requests
  <2>4. ASSUME NEW q \in Handlers, h'[q].pc = "reading" PROVE upload' = q /\ h'[q].reply = "none"
    BY <1>1, <1>3, <2>4 DEF Inv, Requests
  <2>5. ASSUME NEW q \in Handlers, h'[q].pc # "idle"
        PROVE  /\ h'[q].of \in Sessions
               /\ h'[q].pc = "waiting" /\ h'[q].reply = "none" =>
                    frames' = <<q>> \/ (worker' = "frame" /\ serving' = q)
               /\ h'[q].take # None =>
                    /\ state'[h'[q].take] # "none"
                    /\ state'[h'[q].take] = "recording" =>
                         recording'[h'[q].of] = h'[q].take /\ q \notin early'
    BY <1>1, <1>5, <2>5 DEF Inv, Requests
  <2>6. ASSUME NEW q \in Handlers, h'[q].pc = "idle" PROVE q \notin early'
    BY <1>1, <1>3, <2>6 DEF Inv, Requests
  <2>. QED  BY <2>2, <2>3, <2>4, <2>5, <2>6 DEF Requests
<1>7. Ordering'
  <2>1. ASSUME NEW p \in Handlers, NEW q \in Handlers, Behind(p, q)', h'[q].pc # "idle"
        PROVE  Behind(p, q)
    BY <1>1, <1>5, <2>1 DEF Behind
  <2>. QED  BY <1>1, <1>5, <2>1 DEF Inv, Ordering, Open
<1>8. Lengths' /\ Listing' /\ Owners' /\ Sound'
  <2>1. /\ \A q \in Handlers : Open(q)' /\ h'[q].of \in Offline => Len(samples'[h'[q].of]) < MaxFrames
        /\ \A p, q \in Handlers :
             h'[p].pc # "idle" /\ h'[q].pc # "idle" /\ h'[p].of = h'[q].of /\ h'[p].of \in Offline => p = q
    BY <1>1, <1>5 DEF Inv, Lengths, Open
  <2>. QED  BY <1>1, <1>2, <2>1, TracksStay DEF Lengths
<1>. QED  BY <1>4, <1>6, <1>7, <1>8 DEF Inv

\* The decoded frame enters the channel.
LEMMA EnqueueKeepsInv ==
    ASSUME Inv, NEW r \in Handlers, Enqueue(r)
    PROVE  Inv'
<1>1. /\ UNCHANGED <<up, listed, state, samples, lastTime, lastSubmit, recording, start, idle,
                     worker, serving, jobs, disk, faults, crashes, early, answered>>
      /\ h[r].pc = "reading" /\ upload' = None
  BY DEF Enqueue, tracks, history
<1>2. up = "up" /\ upload = r /\ h[r].reply = "none"
  BY <1>1, RequestUp DEF Inv, Requests
<1>3. frames = <<>> /\ frames' = <<r>>
  <2>1. frames \in Seq(Handlers) /\ Len(frames) < 1
    BY DEF Enqueue, Inv, TypeOK
  <2>2. frames = <<>>
    BY <2>1, EmptySeq
  <2>. QED  BY <2>2 DEF Enqueue
<1>4. /\ h' \in [Handlers -> RequestType]
      /\ \A q \in Handlers : /\ h'[q].of = h[q].of /\ h'[q].stamp = h[q].stamp
                             /\ h'[q].take = h[q].take /\ h'[q].reply = h[q].reply
                             /\ q # r => h'[q].pc = h[q].pc
      /\ h'[r].pc = "waiting"
  <2>. DEFINE moved == [h[r] EXCEPT !.pc = "waiting"]
  <2>1. h' = [h EXCEPT ![r] = moved]
    BY DEF Enqueue
  <2>2. moved \in RequestType /\ moved.of = h[r].of /\ moved.stamp = h[r].stamp
        /\ moved.take = h[r].take /\ moved.reply = h[r].reply /\ moved.pc = "waiting"
    BY RequestShape DEF RequestType
  <2>. HIDE DEF moved
  <2>. QED  BY <2>1, <2>2, RequestShape
<1>5. TypeOK'
  <2>1. upload' \in Handlers \cup {None} /\ frames' \in Seq(Handlers) /\ Len(frames') <= 1
    BY <1>1, <1>3
  <2>. QED  BY <1>1, <1>4, <2>1 DEF Inv, TypeOK, RequestType
<1>6. /\ \A q \in Handlers : frames' = <<q>> => q = r
      /\ \A q \in Handlers : q # r => h[q].pc # "reading"
      /\ worker = "frame" => serving # r
      /\ \A q \in Handlers : h'[q].pc # "idle" <=> h[q].pc # "idle"
      /\ \A q \in Handlers : frames # <<q>>
  BY <1>1, <1>2, <1>3, <1>4 DEF Inv, Requests
<1>7. Requests'
  <2>1. ASSUME NEW q \in Handlers, frames' = <<q>> PROVE h'[q].pc = "waiting" /\ h'[q].reply = "none"
    BY <1>2, <1>4, <1>6, <2>1
  <2>2. ASSUME worker' = "frame"
        PROVE  /\ serving' \in Handlers /\ frames' # <<serving'>>
               /\ h'[serving'].pc = "waiting" /\ h'[serving'].reply = "none"
    BY <1>1, <1>4, <1>6, <2>2 DEF Inv, Requests
  <2>3. ASSUME NEW q \in Handlers, h'[q].pc = "reading" PROVE FALSE
    BY <1>4, <1>6, <2>3
  <2>4. ASSUME NEW q \in Handlers, h'[q].pc = "waiting", h'[q].reply = "none"
        PROVE  frames' = <<q>> \/ (worker' = "frame" /\ serving' = q)
    BY <1>1, <1>3, <1>4, <1>6, <2>4 DEF Inv, Requests
  <2>5. ASSUME NEW q \in Handlers, h'[q].pc # "idle"
        PROVE  /\ h'[q].of \in Sessions
               /\ h'[q].take # None =>
                    /\ state'[h'[q].take] # "none"
                    /\ state'[h'[q].take] = "recording" =>
                         recording'[h'[q].of] = h'[q].take /\ q \notin early'
    BY <1>1, <1>4, <1>6, <2>5 DEF Inv, Requests
  <2>6. ASSUME NEW q \in Handlers, h'[q].pc = "idle" PROVE q \notin early'
    BY <1>1, <1>6, <2>6 DEF Inv, Requests
  <2>. QED  BY <2>1, <2>2, <2>3, <2>4, <2>5, <2>6 DEF Requests
<1>8. Ordering'
  <2>1. ASSUME NEW p \in Handlers, NEW q \in Handlers, Behind(p, q)'
        PROVE  Behind(p, q)
    BY <1>1, <1>4, <1>6, <2>1 DEF Behind
  <2>. QED  BY <1>1, <1>4, <1>6, <2>1 DEF Inv, Ordering, Open
<1>9. Lengths' /\ Listing' /\ Owners' /\ Sound'
  <2>1. /\ \A q \in Handlers : Open(q)' /\ h'[q].of \in Offline => Len(samples'[h'[q].of]) < MaxFrames
        /\ \A p, q \in Handlers :
             h'[p].pc # "idle" /\ h'[q].pc # "idle" /\ h'[p].of = h'[q].of /\ h'[p].of \in Offline => p = q
    BY <1>1, <1>4, <1>6 DEF Inv, Lengths, Open
  <2>. QED  BY <1>1, <1>2, <2>1, TracksStay DEF Lengths
<1>. QED  BY <1>5, <1>7, <1>8, <1>9 DEF Inv

\* The consumer takes the frame out of the channel.
LEMMA TakeFrameKeepsInv == ASSUME Inv, TakeFrame PROVE Inv'
<1>1. /\ UNCHANGED <<up, listed, state, samples, lastTime, lastSubmit, recording, start, idle, h,
                     upload, jobs, disk, faults, crashes, early, answered>>
      /\ worker = "idle" /\ worker' = "frame"
  BY DEF TakeFrame, tracks, history
<1>2. /\ serving' \in Handlers /\ frames = <<serving'>> /\ frames' = <<>>
  <2>1. frames \in Seq(Handlers) /\ Len(frames) <= 1 /\ frames # <<>>
    BY DEF TakeFrame, Inv, TypeOK
  <2>. QED  BY <2>1, OnePlace DEF TakeFrame
<1>3. up = "up"
  BY <1>2 DEF Inv, TypeOK, Listing
<1>4. TypeOK'
  <2>1. frames' \in Seq(Handlers) /\ Len(frames') <= 1
    BY <1>2
  <2>. QED  BY <1>1, <1>2, <2>1 DEF Inv, TypeOK
<1>5. /\ h[serving'].pc = "waiting" /\ h[serving'].reply = "none"
      /\ \A q \in Handlers : frames' # <<q>> /\ (frames = <<q>> => q = serving')
  BY <1>2 DEF Inv, Requests
<1>6. Requests'
  BY <1>1, <1>2, <1>5 DEF Inv, Requests
<1>7. Ordering'
  <2>1. ASSUME NEW p \in Handlers, NEW q \in Handlers, Behind(p, q)', Open(q)
        PROVE  Behind(p, q)
    <3>1. p = serving' /\ q # p
      BY <1>1, <1>5, <2>1 DEF Behind
    <3>2. h[q].pc = "reading"
      BY <1>1, <1>5, <2>1, <3>1, RequestShape DEF Inv, Requests, Open
    <3>. QED  BY <1>2, <3>1, <3>2 DEF Behind
  <2>. QED  BY <1>1, <2>1 DEF Inv, Ordering, Open
<1>8. Lengths' /\ Listing' /\ Owners' /\ Sound'
  BY <1>1, <1>3, TracksStay DEF Inv, Lengths, Open
<1>. QED  BY <1>4, <1>6, <1>7, <1>8 DEF Inv

\* Admission: the token is free, the stamp is behind those of the session's
\* other requests, and an offline session has no other request.
LEMMA AdmitKeepsInv ==
    ASSUME Inv, NEW r \in Handlers, NEW s \in Sessions, NEW x \in Stamps, Admit(r, s, x)
    PROVE  Inv'
<1>. DEFINE new == [Idle EXCEPT !.pc = "reading", !.of = s, !.stamp = x, !.take = TakeFor(s, x)]
<1>1. /\ UNCHANGED <<up, listed, state, samples, lastTime, recording, start, frames, worker,
                     serving, jobs, disk, faults, crashes, early, answered>>
      /\ up = "up" /\ h[r].pc = "idle" /\ upload = None /\ upload' = r
      /\ Previous(s) # None => x >= Previous(s) + 1
      /\ s \in Offline => Len(samples[s]) < MaxFrames
      /\ h' = [h EXCEPT ![r] = new]
      /\ lastSubmit' = [lastSubmit EXCEPT ![s] = x]
      /\ idle' = [idle EXCEPT ![s] = FALSE]
      /\ Room(s)
  BY DEF Admit, consume, history
<1>2. TakeFor(s, x) \in Takes \cup {None} /\ (TakeFor(s, x) # None => TakeFor(s, x) = recording[s])
  BY DEF TakeFor, Inv, TypeOK
<1>3. /\ new \in RequestType /\ new.pc = "reading" /\ new.of = s /\ new.stamp = x
      /\ new.take = TakeFor(s, x) /\ new.reply = "none"
  <2>. HIDE DEF TakeFor
  <2>. QED  BY <1>2 DEF Idle, RequestType
<1>. HIDE DEF new
<1>4. /\ h' \in [Handlers -> RequestType] /\ h'[r] = new
      /\ \A q \in Handlers : q # r => h'[q] = h[q]
  BY <1>1, <1>3, RequestShape
<1>5. /\ lastSubmit' \in [Sessions -> Stamps] /\ lastSubmit'[s] = x
      /\ \A l \in Sessions : l # s => lastSubmit'[l] = lastSubmit[l]
      /\ \A l \in Sessions : lastSubmit[l] \in Nat /\ lastSubmit[l] # None
      /\ \A l \in Sessions : lastTime[l] # None => lastTime[l] \in Nat
  <2>1. /\ lastSubmit \in [Sessions -> Stamps] /\ lastTime \in [Sessions -> Stamps \cup {None}]
    BY DEF Inv, TypeOK
  <2>2. \A l \in Sessions : lastSubmit[l] \in Stamps /\ lastTime[l] \in Stamps \cup {None}
    BY <2>1
  <2>3. lastSubmit' \in [Sessions -> Stamps]
    BY <1>1, <2>1
  <2>4. /\ lastSubmit'[s] = x
        /\ \A l \in Sessions : l # s => lastSubmit'[l] = lastSubmit[l]
    BY <1>1, <2>1
  <2>. QED  BY <2>2, <2>3, <2>4, Names
<1>6. TypeOK'
  <2>1. idle' \in [Sessions -> BOOLEAN]
    BY <1>1 DEF Inv, TypeOK
  <2>. QED  BY <1>1, <1>4, <1>5, <2>1 DEF Inv, TypeOK, RequestType
<1>7. \A q \in Handlers : /\ h[q].pc # "reading"
                          /\ frames = <<q>> => q # r
                          /\ worker = "frame" => serving # r
  <2>1. \A q \in Handlers : h[q].pc # "reading"
    BY <1>1, Names DEF Inv, Requests
  <2>. QED  BY <1>1, <2>1 DEF Inv, Requests
<1>8. Requests'
  <2>1. ASSUME NEW q \in Handlers, frames' = <<q>> PROVE h'[q].pc = "waiting" /\ h'[q].reply = "none"
    BY <1>1, <1>4, <1>7, <2>1 DEF Inv, Requests
  <2>2. ASSUME worker' = "frame"
        PROVE  /\ serving' \in Handlers /\ frames' # <<serving'>>
               /\ h'[serving'].pc = "waiting" /\ h'[serving'].reply = "none"
    BY <1>1, <1>4, <1>7, <2>2 DEF Inv, Requests
  <2>3. ASSUME NEW q \in Handlers
        PROVE  /\ IF h'[q].pc = "idle" THEN q \notin early' ELSE h'[q].of \in Sessions
               /\ h'[q].pc = "reading" => upload' = q /\ h'[q].reply = "none"
               /\ h'[q].pc = "waiting" /\ h'[q].reply = "none" =>
                    frames' = <<q>> \/ (worker' = "frame" /\ serving' = q)
    <3>1. CASE q = r
      BY <1>1, <1>3, <1>4, <3>1
    <3>2. CASE q # r
      BY <1>1, <1>4, <1>7, <3>2 DEF Inv, Requests
    <3>. QED  BY <3>1, <3>2
  <2>4. ASSUME NEW q \in Handlers, h'[q].pc # "idle", h'[q].take # None
        PROVE  /\ state'[h'[q].take] # "none"
               /\ state'[h'[q].take] = "recording" =>
                    recording'[h'[q].of] = h'[q].take /\ q \notin early'
    <3>1. CASE q = r
      <4>1. /\ h'[q].of = s /\ h'[q].take = recording[s] /\ recording[s] # None
            /\ r \notin early
        BY <1>1, <1>2, <1>3, <1>4, <2>4, <3>1 DEF Inv, Requests
      <4>. QED  BY <1>1, <3>1, <4>1 DEF Inv, Owners
    <3>2. CASE q # r
      BY <1>1, <1>4, <2>4, <3>2 DEF Inv, Requests
    <3>. QED  BY <3>1, <3>2
  <2>. QED  BY <2>1, <2>2, <2>3, <2>4 DEF Requests
<1>9. ASSUME NEW q \in Handlers, h[q].pc # "idle", h[q].of = s
      PROVE  h[q].stamp \in Nat /\ h[q].stamp < x /\ (lastTime[s] # None => lastTime[s] < x)
  <2>1. Busy(s)
    BY <1>9 DEF Busy, InFlight
  <2>2. x >= lastSubmit[s] + 1
    BY <1>1, <1>5, <2>1 DEF Previous
  <2>3. h[q].stamp <= lastSubmit[s] /\ (lastTime[s] # None => lastTime[s] <= lastSubmit[s])
    BY <1>9 DEF Inv, Ordering
  <2>4. h[q].stamp \in Nat /\ x \in Nat
    BY RequestShape, Names
  <2>. QED  BY <1>5, <2>2, <2>3, <2>4
<1>10. lastTime[s] # None => lastTime[s] < x
  <2>1. CASE \E q \in Handlers : h[q].pc # "idle" /\ h[q].of = s
    BY <1>9, <2>1
  <2>2. CASE ~ \E q \in Handlers : h[q].pc # "idle" /\ h[q].of = s
    <3>1. Previous(s) = lastTime[s]
      BY <2>2 DEF Previous, Busy, InFlight
    <3>. QED  BY <1>1, <1>5, <3>1, Names
  <2>. QED  BY <2>1, <2>2
<1>11. Ordering'
  <2>1. ASSUME NEW q \in Handlers, h'[q].pc # "idle"
        PROVE  /\ h'[q].stamp <= lastSubmit'[h'[q].of]
               /\ lastTime'[h'[q].of] # None =>
                    /\ lastTime'[h'[q].of] <= lastSubmit'[h'[q].of]
                    /\ h'[q].reply = "none" => lastTime'[h'[q].of] < h'[q].stamp
    <3>1. x \in Nat
      BY Names
    <3>2. CASE q = r
      <4>1. h'[q].of = s /\ h'[q].stamp = x /\ lastSubmit'[s] = x /\ lastTime' = lastTime
        BY <1>1, <1>3, <1>4, <1>5, <3>2
      <4>. QED  BY <1>5, <1>10, <3>1, <4>1
    <3>3. CASE q # r /\ h[q].of = s
      <4>1. /\ h'[q] = h[q] /\ h[q].pc # "idle" /\ lastSubmit'[s] = x /\ lastTime' = lastTime
        BY <1>1, <1>4, <1>5, <2>1, <3>3
      <4>2. h[q].stamp \in Nat /\ h[q].stamp < x /\ (lastTime[s] # None => lastTime[s] < x)
        BY <1>9, <3>3, <4>1
      <4>3. lastTime[s] # None /\ h[q].reply = "none" => lastTime[s] < h[q].stamp
        BY <3>3, <4>1 DEF Inv, Ordering
      <4>. QED  BY <1>5, <3>1, <3>3, <4>1, <4>2, <4>3
    <3>4. CASE q # r /\ h[q].of # s
      <4>1. /\ h'[q] = h[q] /\ h[q].pc # "idle" /\ h[q].of \in Sessions
            /\ lastSubmit'[h[q].of] = lastSubmit[h[q].of] /\ lastTime' = lastTime
        BY <1>1, <1>4, <1>5, <2>1, <3>4, RequestShape
      <4>. QED  BY <4>1 DEF Inv, Ordering
    <3>. QED  BY <3>2, <3>3, <3>4
  <2>2. ASSUME NEW p \in Handlers, NEW q \in Handlers, Open(p)', Open(q)', h'[p].of = h'[q].of,
               Behind(p, q)'
        PROVE  h'[p].stamp < h'[q].stamp
    <3>1. p # r /\ h'[p] = h[p] /\ p # q
      BY <1>1, <1>4, <1>7, <2>2 DEF Behind, Inv, Requests
    <3>2. CASE q = r
      <4>1. h'[q].of = s /\ h'[q].stamp = x /\ h[p].pc # "idle" /\ h[p].of = s
        BY <1>3, <1>4, <2>2, <3>1, <3>2 DEF Open
      <4>. QED  BY <1>9, <3>1, <4>1
    <3>3. CASE q # r
      <4>1. h'[q] = h[q]
        BY <1>4, <3>3
      <4>. QED  BY <1>1, <2>2, <3>1, <4>1 DEF Inv, Ordering, Open, Behind
    <3>. QED  BY <3>2, <3>3
  <2>. QED  BY <2>1, <2>2 DEF Ordering
<1>12. s \in Offline => \A q \in Handlers : h[q].pc # "idle" => h[q].of # s
  <2>. SUFFICES ASSUME s \in Offline PROVE InFlight(s) = {}
    BY DEF InFlight
  <2>1. IsFiniteSet(InFlight(s))
    <3>1. InFlight(s) \subseteq Handlers
      BY DEF InFlight
    <3>. QED  BY <3>1, FS_Subset, SessionAssumption
  <2>2. Cardinality(InFlight(s)) < 1 /\ Cardinality(InFlight(s)) \in Nat
    <3>1. s \notin Live
      BY Names
    <3>. QED  BY <1>1, <2>1, <3>1, FS_CardinalityType DEF Room, Limit
  <2>3. Cardinality(InFlight(s)) = 0
    BY <2>2
  <2>. QED  BY <2>1, <2>3, FS_EmptySet
<1>13. Lengths' /\ Listing' /\ Owners' /\ Sound'
  <2>1. ASSUME NEW q \in Handlers, Open(q)', h'[q].of \in Offline
        PROVE  Len(samples'[h'[q].of]) < MaxFrames
    <3>1. CASE q = r
      BY <1>1, <1>3, <1>4, <2>1, <3>1
    <3>2. CASE q # r
      BY <1>1, <1>4, <2>1, <3>2 DEF Inv, Lengths, Open
    <3>. QED  BY <3>1, <3>2
  <2>2. ASSUME NEW p \in Handlers, NEW q \in Handlers, h'[p].pc # "idle", h'[q].pc # "idle",
               h'[p].of = h'[q].of, h'[p].of \in Offline
        PROVE  p = q
    <3>1. CASE p # r /\ q # r
      BY <1>4, <2>2, <3>1 DEF Inv, Lengths
    <3>2. CASE p = r \/ q = r
      BY <1>3, <1>4, <1>12, <2>2, <3>2
    <3>. QED  BY <3>1, <3>2
  <2>. QED  BY <1>1, <2>1, <2>2, TracksStay DEF Lengths
<1>. QED  BY <1>6, <1>8, <1>11, <1>13 DEF Inv

\* POST record: a new take, without the requests that are under way.
LEMMA RecordKeepsInv ==
    ASSUME Inv, NEW s \in Live, NEW k \in Takes, NEW time \in Stamps, Record(s, k, time)
    PROVE  Inv'
<1>1. /\ UNCHANGED <<up, samples, lastTime, lastSubmit, idle, h, upload, frames, worker, serving,
                     jobs, faults, crashes, answered>>
      /\ up = "up" /\ s \in listed /\ recording[s] = None /\ state[k] = "none"
      /\ listed' = listed \cup {k}
      /\ state' = [state EXCEPT ![k] = "recording"]
      /\ start' = [start EXCEPT ![k] = time]
      /\ recording' = [recording EXCEPT ![s] = k]
      /\ disk' = [disk EXCEPT ![k] = File("recording", <<>>)]
      /\ early' = early \cup InFlight(s)
  BY DEF Record, consume
<1>2. s \in Sessions /\ k \in Kept /\ k \in Tracks /\ k \notin Sessions /\ k # None
  BY Names
<1>3. /\ state' \in [Tracks -> States] /\ state'[k] = "recording"
      /\ \A t \in Tracks : t # k => state'[t] = state[t]
  BY <1>1, <1>2 DEF Inv, TypeOK, States
<1>4. /\ recording' \in [Sessions -> Takes \cup {None}] /\ recording'[s] = k
      /\ \A l \in Sessions : l # s => recording'[l] = recording[l]
      /\ \A l \in Sessions : recording[l] # k
  <2>1. \A l \in Sessions : recording[l] # k
    BY <1>1, <1>2 DEF Inv, Owners
  <2>. QED  BY <1>1, <1>2, <2>1 DEF Inv, TypeOK
<1>5. /\ disk' \in [Kept -> FileType]
      /\ disk'[k].kind = "file" /\ disk'[k].state = "recording" /\ disk'[k].samples = <<>>
      /\ \A t \in Kept : t # k => disk'[t] = disk[t]
  <2>. DEFINE d == File("recording", <<>>)
  <2>1. d \in FileType /\ d.kind = "file" /\ d.state = "recording" /\ d.samples = <<>>
    BY NoTimes DEF File, FileType
  <2>2. disk \in [Kept -> FileType] /\ disk' = [disk EXCEPT ![k] = d]
    BY <1>1 DEF Inv, TypeOK, FileType
  <2>. HIDE DEF d
  <2>. QED  BY <1>2, <2>1, <2>2
<1>6. samples[k] = <<>> /\ Len(samples[k]) = 0 /\ answered[k] <= 0 /\ k \notin listed
  BY <1>1, <1>2, NoTimes DEF Inv, Lengths, Listing
<1>7. TypeOK'
  <2>1. start' \in [Takes -> Stamps]
    BY <1>1 DEF Inv, TypeOK
  <2>2. early' \subseteq Handlers /\ listed' \subseteq Tracks
    BY <1>1, <1>2 DEF Inv, TypeOK, InFlight
  <2>. QED  BY <1>1, <1>3, <1>4, <1>5, <2>1, <2>2 DEF Inv, TypeOK, States, FileType
<1>8. Listing'
  <2>1. \A t \in listed' : state'[t] \notin {"none", "deleted"}
    BY <1>1, <1>3 DEF Inv, TypeOK, Listing
  <2>2. \A t \in Kept : state'[t] = "recording" => t \in listed'
    BY <1>1, <1>3, Names DEF Inv, Listing
  <2>3. ASSUME NEW t \in Kept
        PROVE  /\ disk'[t].kind = IF t \in listed' THEN "file" ELSE "none"
               /\ disk'[t].kind = "file" => disk'[t].state # "none"
    <3>1. CASE t = k
      BY <1>1, <1>5, <3>1
    <3>2. CASE t # k
      BY <1>1, <1>5, <3>2 DEF Inv, Listing
    <3>. QED  BY <3>1, <3>2
  <2>. QED  BY <1>1, <2>1, <2>2, <2>3 DEF Listing
<1>9. Owners'
  <2>1. ASSUME NEW l \in Sessions, recording'[l] # None
        PROVE  l \in Live \cap listed' /\ state'[recording'[l]] # "none"
    <3>1. CASE l = s
      BY <1>1, <1>3, <1>4, <3>1
    <3>2. CASE l # s
      <4>1. recording'[l] = recording[l] /\ recording[l] # k /\ recording[l] \in Tracks
        BY <1>4, <2>1, <3>2, Names DEF Inv, TypeOK
      <4>. QED  BY <1>1, <1>3, <2>1, <4>1 DEF Inv, Owners
    <3>. QED  BY <3>1, <3>2
  <2>2. \A l, m \in Sessions : recording'[l] # None /\ recording'[l] = recording'[m] => l = m
    BY <1>4 DEF Inv, Owners
  <2>3. ASSUME NEW t \in Takes, state'[t] = "recording" PROVE \E l \in Sessions : recording'[l] = t
    <3>1. CASE t = k
      BY <1>2, <1>4, <3>1
    <3>2. CASE t # k
      <4>1. state[t] = "recording" /\ t # None
        BY <1>3, <2>3, <3>2, Names
      <4>2. PICK l \in Sessions : recording[l] = t
        BY <4>1 DEF Inv, Owners
      <4>. QED  BY <1>1, <1>4, <4>1, <4>2
    <3>. QED  BY <3>1, <3>2
  <2>. QED  BY <2>1, <2>2, <2>3 DEF Owners
<1>10. Requests'
  <2>1. ASSUME NEW r \in Handlers, h[r].pc # "idle", h[r].take # None
        PROVE  /\ state'[h[r].take] # "none"
               /\ state'[h[r].take] = "recording" => recording'[h[r].of] = h[r].take /\ r \notin early'
    <3>. DEFINE t == h[r].take
    <3>1. t \in Takes /\ t \in Tracks /\ h[r].of \in Sessions /\ state[t] # "none"
      BY <2>1, RequestShape, Names DEF Inv, Requests
    <3>2. t # k /\ state'[t] = state[t]
      BY <1>1, <1>3, <3>1
    <3>3. ASSUME state[t] = "recording" PROVE recording'[h[r].of] = t /\ r \notin early'
      <4>1. recording[h[r].of] = t /\ r \notin early
        BY <2>1, <3>3 DEF Inv, Requests
      <4>2. h[r].of # s
        BY <1>1, <2>1, <4>1
      <4>. QED  BY <1>1, <1>4, <3>1, <4>1, <4>2 DEF InFlight
    <3>. QED  BY <3>1, <3>2, <3>3
  <2>2. \A r \in Handlers : h[r].pc = "idle" => r \notin early'
    BY <1>1 DEF Inv, Requests, InFlight
  <2>. QED  BY <1>1, <2>1, <2>2 DEF Inv, Requests
<1>11. Ordering'
  BY <1>1 DEF Inv, Ordering, Open, Behind
<1>12. Lengths'
  <2>1. ASSUME NEW t \in Kept
        PROVE  /\ Len(samples'[t]) <= MaxFrames
               /\ Len(disk'[t].samples) <= MaxFrames
               /\ answered'[t] <= Len(samples'[t])
               /\ state'[t] = "none" => samples'[t] = <<>>
    <3>1. CASE t = k
      BY <1>1, <1>3, <1>5, <1>6, <3>1, NoTimes, Names
    <3>2. CASE t # k
      <4>1. t \in Tracks
        BY Names
      <4>. QED  BY <1>1, <1>3, <1>5, <3>2, <4>1 DEF Inv, Lengths
    <3>. QED  BY <3>1, <3>2
  <2>2. ASSUME NEW t \in Takes, state'[t] = "recording" PROVE Len(samples'[t]) < MaxFrames
    BY <1>1, <1>3, <1>6, <2>2, Names DEF Inv, Lengths
  <2>3. ASSUME NEW t \in Kept \cap listed'
        PROVE  /\ answered'[t] <= Len(disk'[t].samples)
               /\ Len(disk'[t].samples) <= Len(samples'[t])
    <3>1. CASE t = k
      BY <1>1, <1>5, <1>6, <3>1, NoTimes
    <3>2. CASE t # k
      BY <1>1, <1>5, <3>2 DEF Inv, Lengths
    <3>. QED  BY <3>1, <3>2
  <2>. QED  BY <1>1, <2>1, <2>2, <2>3 DEF Inv, Lengths, Open
<1>13. Sound'
  <2>. SUFFICES ASSUME faults = 0 PROVE Sound'
    BY <1>1 DEF Sound
  <2>1. ASSUME NEW l \in Sessions, recording'[l] # None
        PROVE  /\ state'[recording'[l]] = "recording"
               /\ samples'[recording'[l]] # <<>> =>
                    lastTime'[l] # None /\ Final(samples'[recording'[l]]) <= lastTime'[l]
    <3>1. CASE l = s
      BY <1>1, <1>3, <1>4, <1>6, <3>1
    <3>2. CASE l # s
      <4>1. recording'[l] = recording[l] /\ recording[l] # k /\ recording[l] \in Tracks
        BY <1>4, <2>1, <3>2, Names DEF Inv, TypeOK
      <4>. QED  BY <1>1, <1>3, <2>1, <4>1 DEF Inv, Sound
    <3>. QED  BY <3>1, <3>2
  <2>2. ASSUME NEW t \in Takes PROVE Increasing(samples'[t]) /\ Increasing(disk'[t].samples)
    BY <1>1, <1>5, NoTimes, Names DEF Inv, Sound
  <2>. QED  BY <2>1, <2>2 DEF Sound
<1>. QED  BY <1>7, <1>8, <1>9, <1>10, <1>11, <1>12, <1>13 DEF Inv

-----------------------------------------------------------------------------
(* Frames that are kept                                                    *)

\* The served frame becomes the last sample of k, the track of its session
\* or the take that its session records, and the request has its answer.
Appends(k) ==
    /\ worker = "frame" /\ worker' = "idle"
    /\ k \in Kept /\ k \in listed
    /\ k \in Takes => recording[h[serving].of] = k
    /\ k \in Offline => k = h[serving].of
    /\ Len(samples[k]) + 1 <= MaxFrames
    /\ samples' = [samples EXCEPT ![k] = Append(@, h[serving].stamp)]
    /\ UNCHANGED <<up, listed, start, idle, crashes>>
    /\ state' \in [Tracks -> States]
    /\ \A t \in Tracks : state'[t] = state[t] \/ (t \in Takes /\ state'[t] = "complete" /\ t = k)
    /\ k \in Takes /\ state'[k] = "recording" => Len(samples[k]) + 1 < MaxFrames
    /\ faults' \in 0..MaxFaults
    /\ \/ /\ faults' = faults
          /\ \E st \in {"recording", "complete"} :
                disk' = [disk EXCEPT ![k] = File(st, samples'[k])]
          /\ answered' = [answered EXCEPT ![k] = Len(samples'[k])]
          /\ lastTime'[h[serving].of] = h[serving].stamp
       \/ faults' # 0 /\ UNCHANGED <<disk, answered>>

\* What such a step does to the memory, the directory and the history.
LEMMA AppendShape ==
    ASSUME Inv, NEW k, Appends(k)
    PROVE  /\ h[serving].stamp \in Stamps
           /\ samples[k] \in Seq(Stamps) /\ samples' \in [Kept -> Seq(Stamps)]
           /\ samples'[k] = Append(samples[k], h[serving].stamp)
           /\ Len(samples'[k]) = Len(samples[k]) + 1 /\ Len(samples[k]) \in Nat
           /\ \A t \in Kept : t # k => /\ samples'[t] = samples[t]
                                       /\ disk'[t] = disk[t]
                                       /\ answered'[t] = answered[t]
           /\ disk' \in [Kept -> FileType] /\ answered' \in [Kept -> 0..MaxFrames]
           /\ \/ /\ faults' = faults /\ disk'[k].kind = "file"
                 /\ disk'[k].state # "none" /\ disk'[k].samples = samples'[k]
                 /\ answered'[k] = Len(samples'[k])
              \/ faults' # 0 /\ UNCHANGED <<disk, answered>>
<1>1. h[serving].stamp \in Stamps
  BY RequestShape DEF Appends
<1>2. k \in Kept /\ samples \in [Kept -> Seq(Stamps)]
  BY DEF Appends, Inv, TypeOK
<1>3. samples[k] \in Seq(Stamps)
  BY <1>2
<1>. DEFINE more == Append(samples[k], h[serving].stamp)
<1>4. more \in Seq(Stamps) /\ Len(more) = Len(samples[k]) + 1 /\ Len(samples[k]) \in Nat
  BY <1>1, <1>3, OneMore
<1>5. samples' = [samples EXCEPT ![k] = more]
  BY DEF Appends
<1>. HIDE DEF more
<1>6. /\ samples' \in [Kept -> Seq(Stamps)] /\ samples'[k] = more
      /\ \A t \in Kept : t # k => samples'[t] = samples[t]
  BY <1>2, <1>4, <1>5
<1>7. disk \in [Kept -> FileType] /\ answered \in [Kept -> 0..MaxFrames]
  BY DEF Inv, TypeOK, FileType
<1>8. CASE /\ faults' = faults
           /\ \E st \in {"recording", "complete"} : disk' = [disk EXCEPT ![k] = File(st, samples'[k])]
           /\ answered' = [answered EXCEPT ![k] = Len(samples'[k])]
  <2>1. PICK st \in {"recording", "complete"} : disk' = [disk EXCEPT ![k] = File(st, samples'[k])]
    BY <1>8
  <2>. DEFINE d == File(st, samples'[k])
  <2>2. d \in FileType /\ d.kind = "file" /\ d.state # "none" /\ d.samples = samples'[k]
    BY <1>4, <1>6 DEF File, FileType
  <2>3. disk' = [disk EXCEPT ![k] = d]
    BY <2>1
  <2>. HIDE DEF d
  <2>4. /\ disk' \in [Kept -> FileType] /\ disk'[k] = d
        /\ \A t \in Kept : t # k => disk'[t] = disk[t]
    BY <1>2, <1>7, <2>2, <2>3
  <2>5. Len(samples'[k]) \in 0..MaxFrames
    BY <1>4, <1>6, Names DEF Appends
  <2>6. /\ answered' \in [Kept -> 0..MaxFrames] /\ answered'[k] = Len(samples'[k])
        /\ \A t \in Kept : t # k => answered'[t] = answered[t]
    BY <1>2, <1>7, <1>8, <2>5
  <2>. QED  BY <1>1, <1>3, <1>4, <1>6, <1>8, <2>2, <2>4, <2>6 DEF more
<1>9. CASE faults' # 0 /\ UNCHANGED <<disk, answered>>
  BY <1>1, <1>3, <1>4, <1>6, <1>7, <1>9 DEF more
<1>. QED  BY <1>8, <1>9 DEF Appends

\* While saves succeed the sample is later than the others of the take.
LEMMA AppendInOrder ==
    ASSUME Inv, NEW k \in Takes, Appends(k), faults = 0
    PROVE  Increasing(samples'[k]) /\ Final(samples'[k]) = h[serving].stamp
<1>. DEFINE s == h[serving].of
<1>1. worker = "frame" /\ recording[s] = k /\ s \in Sessions /\ k # None
  BY RequestShape, Names DEF Appends
<1>2. Increasing(samples[k])
  BY DEF Inv, Sound
<1>3. samples[k] # <<>> => lastTime[s] # None /\ Final(samples[k]) <= lastTime[s]
  BY <1>1 DEF Inv, Sound
<1>4. lastTime[s] # None => lastTime[s] \in Nat /\ lastTime[s] < h[serving].stamp
  BY <1>1, ServedInOrder
<1>5. samples[k] # <<>> => Final(samples[k]) \in Nat
  <2>. SUFFICES ASSUME samples[k] # <<>> PROVE Final(samples[k]) \in Nat
    OBVIOUS
  <2>1. Len(samples[k]) \in Nat \ {0}
    BY AppendShape, EmptySeq
  <2>2. samples[k][Len(samples[k])] \in Stamps
    BY <2>1, AppendShape, ElementOfSeq
  <2>. QED  BY <2>2, Names DEF Final
<1>6. h[serving].stamp \in Nat
  BY <1>1, ServedInOrder
<1>7. samples[k] # <<>> => Final(samples[k]) < h[serving].stamp
  BY <1>3, <1>4, <1>5, <1>6
<1>8. samples'[k] = Append(samples[k], h[serving].stamp) /\ samples[k] \in Seq(Stamps)
      /\ h[serving].stamp \in Stamps
  BY AppendShape
<1>. QED  BY <1>2, <1>7, <1>8, OneMore

\* Keeping a frame keeps the invariant.
LEMMA AppendKeepsInv ==
    ASSUME Inv, RequestStep, ClosingStep, SavedStep, NEW k, Appends(k)
    PROVE  Inv'
<1>. DEFINE s == h[serving].of
<1>1. /\ \A q \in Handlers : /\ h'[q].pc = h[q].pc /\ h'[q].of = h[q].of
                             /\ h'[q].reply = "none" => h[q].reply = "none" /\ q # serving
      /\ worker = "frame" /\ up = "up" /\ up' = up /\ listed' = listed /\ s \in Sessions
      /\ serving \in Handlers /\ h[serving].pc = "waiting"
  BY RequestShape, ServedUp DEF RequestStep, Appends
<1>2. \A t \in Kept : /\ state'[t] = "none" => state[t] = "none"
                      /\ state'[t] = "recording" => state[t] = "recording"
  BY Names DEF Appends
<1>3. k \in Kept /\ k \in listed /\ state[k] # "none"
  BY DEF Appends, Inv, Listing
<1>10. \A t \in Kept : t # k => /\ samples'[t] = samples[t] /\ disk'[t] = disk[t]
                                /\ answered'[t] = answered[t]
  BY AppendShape
<1>4. Requests' /\ Ordering'
  BY RequestsFollow
<1>5. Listing'
  <2>1. \A t \in listed' : state'[t] \notin {"none", "deleted"}
    BY <1>1 DEF Appends, Inv, TypeOK, Listing
  <2>2. \A t \in Kept : state'[t] = "recording" => t \in listed'
    BY <1>1, <1>2 DEF Inv, Listing
  <2>3. ASSUME NEW t \in Kept
        PROVE  /\ disk'[t].kind = IF t \in listed' THEN "file" ELSE "none"
               /\ disk'[t].kind = "file" => disk'[t].state # "none"
    <3>1. CASE t = k
      BY <1>1, <1>3, <3>1, AppendShape DEF Inv, Listing
    <3>2. CASE t # k
      BY <1>1, <3>2, AppendShape DEF Inv, Listing
    <3>. QED  BY <3>1, <3>2
  <2>. QED  BY <1>1, <2>1, <2>2, <2>3 DEF Listing
<1>6. Owners'
  <2>1. \A l \in Sessions : recording'[l] # None => recording'[l] = recording[l] /\ recording[l] \in Takes
    BY DEF ClosingStep, Inv, TypeOK
  <2>2. \A l \in Sessions : recording'[l] # None => l \in Live \cap listed' /\ state'[recording'[l]] # "none"
    BY <1>1, <2>1 DEF Inv, Owners, ClosingStep
  <2>3. \A l, m \in Sessions : recording'[l] # None /\ recording'[l] = recording'[m] => l = m
    BY <2>1 DEF Inv, Owners
  <2>4. \A t \in Takes : state'[t] = "recording" => \E l \in Sessions : recording'[l] = t
    BY DEF Inv, Owners, ClosingStep
  <2>. QED  BY <2>2, <2>3, <2>4 DEF Owners
<1>7. Lengths'
  <2>1. ASSUME NEW t \in Kept
        PROVE  /\ Len(samples'[t]) <= MaxFrames
               /\ Len(disk'[t].samples) <= MaxFrames
               /\ answered'[t] <= Len(samples'[t])
               /\ state'[t] = "none" => samples'[t] = <<>>
    <3>1. CASE t = k
      <4>1. /\ Len(samples'[k]) <= MaxFrames /\ Len(samples'[k]) = Len(samples[k]) + 1
            /\ Len(samples[k]) \in Nat
        BY AppendShape DEF Appends
      <4>2. answered[k] <= Len(samples[k]) /\ answered[k] \in Nat
        BY <1>3, Names DEF Inv, Lengths, TypeOK
      <4>3. Len(disk'[k].samples) <= MaxFrames /\ answered'[k] <= Len(samples'[k])
        BY <1>3, <4>1, <4>2, AppendShape DEF Inv, Lengths
      <4>4. state'[k] # "none"
        BY <1>2, <1>3
      <4>5. Len(samples'[k]) <= MaxFrames
        BY <4>1
      <4>. QED  BY <3>1, <4>3, <4>4, <4>5
    <3>2. CASE t # k
      BY <1>2, <1>10, <3>2 DEF Inv, Lengths
    <3>. QED  BY <3>1, <3>2
  <2>2. ASSUME NEW t \in Takes, state'[t] = "recording" PROVE Len(samples'[t]) < MaxFrames
    <3>1. CASE t = k
      BY <2>2, <3>1, AppendShape DEF Appends
    <3>2. CASE t # k
      <4>1. t \in Kept /\ state[t] = "recording"
        BY <1>2, <2>2, Names
      <4>2. samples'[t] = samples[t]
        BY <1>10, <3>2, <4>1
      <4>. QED  BY <4>1, <4>2 DEF Inv, Lengths
    <3>. QED  BY <3>1, <3>2
  <2>3. ASSUME NEW r \in Handlers, Open(r)', h'[r].of \in Offline
        PROVE  Len(samples'[h'[r].of]) < MaxFrames
    <3>1. Open(r) /\ r # serving /\ h'[r].of = h[r].of /\ h[r].of \in Offline /\ h[r].of \in Kept
      BY <1>1, <2>3, Names DEF Open
    <3>2. h[r].of # k
      BY <1>1, <3>1 DEF Appends, Inv, Lengths, Open
    <3>. QED  BY <3>1, <3>2, AppendShape DEF Inv, Lengths
  <2>4. ASSUME NEW r \in Handlers, NEW q \in Handlers, h'[r].pc # "idle", h'[q].pc # "idle",
               h'[r].of = h'[q].of, h'[r].of \in Offline
        PROVE  r = q
    BY <1>1, <2>4 DEF Inv, Lengths
  <2>5. ASSUME NEW t \in Kept \cap listed'
        PROVE  answered'[t] <= Len(disk'[t].samples) /\ Len(disk'[t].samples) <= Len(samples'[t])
    <3>0. /\ answered[t] <= Len(disk[t].samples) /\ Len(disk[t].samples) <= Len(samples[t])
          /\ disk[t].samples \in Seq(Stamps)
      BY <1>1 DEF Inv, Lengths, TypeOK
    <3>1. CASE t = k
      <4>1. Len(disk[k].samples) \in Nat /\ Len(samples'[k]) = Len(samples[k]) + 1
            /\ Len(samples[k]) \in Nat
        BY <3>0, <3>1, AppendShape, LenProperties
      <4>2. CASE disk'[k].samples = samples'[k] /\ answered'[k] = Len(samples'[k])
        BY <3>1, <4>1, <4>2
      <4>3. CASE disk' = disk /\ answered' = answered
        BY <3>0, <3>1, <4>1, <4>3
      <4>. QED  BY <4>2, <4>3, AppendShape
    <3>2. CASE t # k
      BY <3>0, <3>2, AppendShape
    <3>. QED  BY <3>1, <3>2
  <2>. QED  BY <2>1, <2>2, <2>3, <2>4, <2>5 DEF Lengths
<1>8. Sound'
  <2>. SUFFICES ASSUME faults' = 0 PROVE Sound'
    BY DEF Sound
  <2>1. /\ faults = 0 /\ disk'[k].samples = samples'[k] /\ lastTime'[s] = h[serving].stamp
        /\ \A l \in Sessions : recording'[l] # None => state'[recording'[l]] = "recording"
    BY AppendShape DEF SavedStep, Appends
  <2>2. ASSUME NEW l \in Sessions, recording'[l] # None, samples'[recording'[l]] # <<>>
        PROVE  lastTime'[l] # None /\ Final(samples'[recording'[l]]) <= lastTime'[l]
    <3>1. recording'[l] = recording[l] /\ recording[l] \in Takes /\ recording[l] \in Kept
      BY <2>2, Names DEF ClosingStep, Inv, TypeOK
    <3>2. CASE recording[l] = k
      <4>1. l = s
        BY <1>1, <2>2, <3>1, <3>2 DEF Appends, Inv, Owners
      <4>2. Final(samples'[k]) = h[serving].stamp
        BY <2>1, <3>1, <3>2, AppendInOrder
      <4>3. h[serving].stamp \in Nat /\ h[serving].stamp # None
        BY AppendShape, Names
      <4>. QED  BY <2>1, <3>1, <3>2, <4>1, <4>2, <4>3
    <3>3. CASE recording[l] # k
      <4>1. samples'[recording[l]] = samples[recording[l]]
        BY <3>1, <3>3, AppendShape
      <4>. QED  BY <2>1, <2>2, <3>1, <4>1, LastIsCounted
    <3>. QED  BY <3>2, <3>3
  <2>3. ASSUME NEW t \in Takes PROVE Increasing(samples'[t]) /\ Increasing(disk'[t].samples)
    <3>1. CASE t = k
      BY <2>1, <3>1, AppendInOrder
    <3>2. CASE t # k
      <4>1. t \in Kept
        BY Names
      <4>2. samples'[t] = samples[t] /\ disk'[t] = disk[t]
        BY <3>2, <4>1, AppendShape
      <4>. QED  BY <2>1, <4>2 DEF Inv, Sound
    <3>. QED  BY <3>1, <3>2
  <2>. QED  BY <2>1, <2>2, <2>3 DEF Sound
<1>9. TypeOK'
  <2>1. /\ lastTime' \in [Sessions -> Stamps \cup {None}]
        /\ worker' \in {"idle", "frame", "job", "off"} /\ serving' \in Handlers \cup {None}
        /\ h' \in [Handlers -> RequestType] /\ recording' \in [Sessions -> Takes \cup {None}]
        /\ UNCHANGED <<upload, frames, jobs, lastSubmit, early>>
    BY DEF RequestStep, ClosingStep, Inv, TypeOK
  <2>2. /\ samples' \in [Kept -> Seq(Stamps)] /\ disk' \in [Kept -> FileType]
        /\ answered' \in [Kept -> 0..MaxFrames]
    BY AppendShape
  <2>3. UNCHANGED <<up, listed, start, idle, crashes>> /\ faults' \in 0..MaxFaults
        /\ state' \in [Tracks -> States]
    BY DEF Appends
  <2>. QED  BY <2>1, <2>2, <2>3 DEF Inv, TypeOK, RequestType, FileType, States
<1>. QED  BY <1>4, <1>5, <1>6, <1>7, <1>8, <1>9 DEF Inv

\* The session of a frame, and the take it may go into.
LEMMA ServedTake ==
    ASSUME Inv, worker = "frame", Grows(serving)
    PROVE  LET k == TakeOf(serving) IN
           /\ k \in Takes /\ k \in Kept /\ k \in listed /\ k # None /\ k \notin Offline
           /\ recording[h[serving].of] = k /\ h[serving].of \in Sessions
           /\ disk[k].kind = "file" /\ Len(samples[k]) + 1 <= MaxFrames
           /\ serving \notin early
<1>. DEFINE k == h[serving].take
<1>1. k \in Takes /\ k # None /\ state[k] = "recording"
  BY RequestShape DEF Grows, TakeOf
<1>2. k \in Kept /\ k \notin Offline
  BY <1>1, Names
<1>3. h[serving].of \in Sessions /\ recording[h[serving].of] = k /\ serving \notin early
  BY <1>1, RequestShape DEF Inv, Requests
<1>4. k \in listed /\ disk[k].kind = "file"
  BY <1>1, <1>2, ServedUp DEF Inv, Listing
<1>5. Len(samples[k]) + 1 <= MaxFrames
  <2>1. samples[k] \in Seq(Stamps)
    BY <1>2 DEF Inv, TypeOK
  <2>2. Len(samples[k]) \in Nat /\ Len(samples[k]) < MaxFrames
    BY <1>1, <2>1, LenProperties DEF Inv, Lengths
  <2>. QED  BY <2>2, Names
<1>. QED  BY <1>1, <1>2, <1>3, <1>4, <1>5 DEF TakeOf

\* A save that fails although the directory is there is a fault.
LEMMA FaultCounted ==
    ASSUME Inv, NEW t \in Kept, disk[t].kind = "file", SaveFails(t)
    PROVE  faults' \in 0..MaxFaults /\ faults' # 0
<1>1. faults \in 0..MaxFaults /\ MaxFaults \in Nat
  BY SessionAssumption DEF Inv, TypeOK
<1>. QED  BY <1>1 DEF SaveFails

\* A frame of an offline session.
LEMMA KeepOfflineKeepsInv == ASSUME Inv, KeepOffline PROVE Inv'
<1>. DEFINE s == h[serving].of
<1>1. /\ worker = "frame" /\ Wanted(serving) /\ s \in Offline
      /\ samples' = [samples EXCEPT ![s] = Append(@, h[serving].stamp)]
      /\ lastTime' = [lastTime EXCEPT ![s] = h[serving].stamp]
      /\ \/ /\ SaveOk(s)
            /\ disk' = [disk EXCEPT ![s] = File(state[s], samples'[s])]
            /\ answered' = [answered EXCEPT ![s] = Len(samples'[s])]
            /\ Reply("ok")
         \/ SaveFails(s) /\ UNCHANGED <<disk, answered>> /\ Reply("error")
      /\ UNCHANGED <<up, listed, state, lastSubmit, recording, start, idle, upload, crashes, early>>
  BY DEF KeepOffline
<1>2. s \in Sessions /\ s \in Kept /\ s \notin Takes /\ s \in Tracks
  BY <1>1, Names
<1>3. state[s] = "recording" /\ s \in listed /\ disk[s].kind = "file"
  BY <1>1, <1>2, ServedUp DEF Wanted, Inv, Listing
<1>4. RequestStep
  BY <1>1, RequestsReplied
<1>5. ClosingStep
  BY <1>1 DEF ClosingStep, Inv, TypeOK
<1>6. /\ faults' \in 0..MaxFaults
      /\ faults' = 0 => faults = 0
      /\ SaveFails(s) => faults' # 0
  <2>1. faults \in 0..MaxFaults /\ MaxFaults \in Nat
    BY SessionAssumption DEF Inv, TypeOK
  <2>2. SaveFails(s) => faults' \in 0..MaxFaults /\ faults' # 0
    BY <1>2, <1>3, FaultCounted
  <2>. QED  BY <1>1, <2>1, <2>2 DEF SaveOk
<1>7. SavedStep
  BY <1>1, <1>6 DEF SavedStep, Inv, Sound
<1>8. Len(samples[s]) + 1 <= MaxFrames
  <2>1. Open(serving) /\ serving \in Handlers
    BY <1>1, RequestShape DEF Open
  <2>2. samples[s] \in Seq(Stamps)
    BY <1>2 DEF Inv, TypeOK
  <2>3. Len(samples[s]) \in Nat /\ Len(samples[s]) < MaxFrames
    BY <1>1, <2>1, <2>2, LenProperties DEF Inv, Lengths
  <2>. QED  BY <2>3, Names
<1>9. worker' = "idle" /\ lastTime'[s] = h[serving].stamp /\ state' \in [Tracks -> States]
  BY <1>1, <1>2 DEF Reply, Inv, TypeOK, States
<1>10. \/ /\ faults' = faults
          /\ \E st \in {"recording", "complete"} : disk' = [disk EXCEPT ![s] = File(st, samples'[s])]
          /\ answered' = [answered EXCEPT ![s] = Len(samples'[s])]
       \/ faults' # 0 /\ UNCHANGED <<disk, answered>>
  BY <1>1, <1>3, <1>6 DEF SaveOk
<1>11. Appends(s)
  BY <1>1, <1>2, <1>3, <1>6, <1>8, <1>9, <1>10 DEF Appends
<1>. QED  BY <1>4, <1>5, <1>7, <1>11, AppendKeepsInv

\* A frame of a take that may have more.
LEMMA AppendSampleKeepsInv == ASSUME Inv, AppendSample PROVE Inv'
<1>. DEFINE s == h[serving].of
            k == TakeOf(serving)
<1>1. /\ worker = "frame" /\ Grows(serving) /\ Len(samples[k]) + 1 < MaxFrames
      /\ samples' = [samples EXCEPT ![k] = Append(@, h[serving].stamp)]
      /\ \/ /\ SaveOk(k)
            /\ disk' = [disk EXCEPT ![k] = File("recording", samples'[k])]
            /\ lastTime' = [lastTime EXCEPT ![s] = h[serving].stamp]
            /\ answered' = [answered EXCEPT ![k] = Len(samples'[k])]
            /\ Reply("ok")
         \/ SaveFails(k) /\ UNCHANGED <<disk, lastTime, answered>> /\ Reply("error")
      /\ UNCHANGED <<up, listed, state, lastSubmit, recording, start, idle, upload, crashes, early>>
  BY DEF AppendSample
<1>2. /\ k \in Takes /\ k \in Kept /\ k \in listed /\ k \notin Offline
      /\ recording[s] = k /\ s \in Sessions
      /\ disk[k].kind = "file" /\ Len(samples[k]) + 1 <= MaxFrames
  BY <1>1, ServedTake
<1>. HIDE DEF k
<1>3. RequestStep
  BY <1>1, RequestsReplied
<1>4. ClosingStep
  BY <1>1 DEF ClosingStep, Inv, TypeOK
<1>5. /\ faults' \in 0..MaxFaults
      /\ faults' = 0 => faults = 0
      /\ SaveFails(k) => faults' # 0
  <2>1. faults \in 0..MaxFaults /\ MaxFaults \in Nat
    BY SessionAssumption DEF Inv, TypeOK
  <2>2. SaveFails(k) => faults' \in 0..MaxFaults /\ faults' # 0
    BY <1>2, FaultCounted
  <2>. QED  BY <1>1, <2>1, <2>2 DEF SaveOk
<1>6. SavedStep
  BY <1>1, <1>5 DEF SavedStep, Inv, Sound
<1>7. worker' = "idle" /\ state' \in [Tracks -> States]
  BY <1>1 DEF Reply, Inv, TypeOK, States
<1>8. \/ /\ faults' = faults
         /\ \E st \in {"recording", "complete"} : disk' = [disk EXCEPT ![k] = File(st, samples'[k])]
         /\ answered' = [answered EXCEPT ![k] = Len(samples'[k])]
         /\ lastTime'[s] = h[serving].stamp
      \/ faults' # 0 /\ UNCHANGED <<disk, answered>>
  <2>1. lastTime \in [Sessions -> Stamps \cup {None}]
    BY DEF Inv, TypeOK
  <2>. QED  BY <1>1, <1>2, <1>5, <2>1 DEF SaveOk
<1>9. Appends(k)
  BY <1>1, <1>2, <1>5, <1>7, <1>8 DEF Appends
<1>. QED  BY <1>3, <1>4, <1>6, <1>9, AppendKeepsInv

\* The last frame a take may have.
LEMMA LastSampleKeepsInv == ASSUME Inv, LastSample PROVE Inv'
<1>. DEFINE s == h[serving].of
            k == TakeOf(serving)
<1>1. /\ worker = "frame" /\ Grows(serving) /\ Len(samples[k]) + 1 >= MaxFrames
      /\ samples' = [samples EXCEPT ![k] = Append(@, h[serving].stamp)]
      /\ \/ /\ SaveOk(recording[s])
            /\ state' = ClosedState({s}, "complete")
            /\ disk' = [disk EXCEPT ![recording[s]] = File("complete", samples'[recording[s]])]
            /\ recording' = Detached({s})
            /\ lastTime' = [lastTime EXCEPT ![s] = h[serving].stamp]
            /\ answered' = [answered EXCEPT ![k] = Len(samples'[k])]
            /\ Reply("ok")
         \/ CloseFails(s, "complete") /\ UNCHANGED <<lastTime, answered>> /\ Reply("error")
      /\ UNCHANGED <<up, listed, lastSubmit, start, idle, upload, crashes, early>>
  BY DEF LastSample
<1>2. /\ k \in Takes /\ k \in Kept /\ k \in listed /\ k \notin Offline /\ k # None /\ k \in Tracks
      /\ recording[s] = k /\ s \in Sessions
      /\ disk[k].kind = "file" /\ Len(samples[k]) + 1 <= MaxFrames
      /\ \A l \in Sessions : recording[l] = k => l = s
  <2>1. /\ k \in Takes /\ k \in Kept /\ k \in listed /\ k \notin Offline /\ k # None
        /\ recording[s] = k /\ s \in Sessions
        /\ disk[k].kind = "file" /\ Len(samples[k]) + 1 <= MaxFrames
    BY <1>1, ServedTake
  <2>. HIDE DEF s, k
  <2>. QED  BY <2>1, Names DEF Inv, Owners
<1>. HIDE DEF k, s
<1>3. RequestStep
  BY <1>1, RequestsReplied DEF s
<1>4. /\ state' \in [Tracks -> States] /\ state'[k] = "complete"
      /\ \A t \in Tracks : t # k => state'[t] = state[t]
  <2>1. CASE state' = ClosedState({s}, "complete")
    <3>1. OpenTakes({s}) = {k}
      BY <1>2 DEF OpenTakes
    <3>. QED  BY <1>2, <2>1, <3>1 DEF ClosedState, Inv, TypeOK, States
  <2>2. CASE CloseFails(s, "complete")
    BY <1>2, <2>2 DEF CloseFails, Inv, TypeOK, States
  <2>. QED  BY <1>1, <2>1, <2>2
<1>5. /\ recording' \in [Sessions -> Takes \cup {None}]
      /\ recording'[s] = k \/ recording'[s] = None
      /\ \A l \in Sessions : l # s => recording'[l] = recording[l]
  <2>1. recording \in [Sessions -> Takes \cup {None}]
    BY DEF Inv, TypeOK
  <2>2. CASE recording' = Detached({s})
    BY <1>2, <2>1, <2>2 DEF Detached
  <2>3. CASE recording' = recording
    BY <1>2, <2>1, <2>3
  <2>. QED  BY <1>1, <2>2, <2>3 DEF CloseFails
<1>6. ClosingStep
  <2>1. \A l \in Sessions : recording'[l] = recording[l] \/ recording'[l] = None
    BY <1>2, <1>5
  <2>2. ASSUME NEW t \in Takes
        PROVE  /\ state[t] # "none" => state'[t] # "none"
               /\ state'[t] = "recording" => state[t] = "recording" /\ t # k
    BY <1>4, Names
  <2>3. ASSUME NEW t \in Takes, t # k, NEW l \in Sessions, recording[l] = t
        PROVE  recording'[l] = t
    BY <1>2, <1>5, <2>3
  <2>. QED  BY <1>5, <2>1, <2>2, <2>3 DEF ClosingStep
<1>7. /\ faults' \in 0..MaxFaults
      /\ CloseFails(s, "complete") => faults' # 0
      /\ ~CloseFails(s, "complete") => faults' = faults
  <2>1. faults \in 0..MaxFaults /\ MaxFaults \in Nat
    BY SessionAssumption DEF Inv, TypeOK
  <2>2. CloseFails(s, "complete") => faults' \in 0..MaxFaults /\ faults' # 0
    BY <1>2, FaultCounted DEF CloseFails
  <2>. QED  BY <1>1, <2>1, <2>2 DEF SaveOk
<1>8. SavedStep
  <2>. SUFFICES ASSUME faults' = 0
                PROVE  /\ faults = 0
                       /\ \A l \in Sessions : recording'[l] # None => state'[recording'[l]] = "recording"
    BY DEF SavedStep
  <2>1. faults = 0 /\ recording' = Detached({s})
    BY <1>1, <1>7
  <2>2. recording'[s] = None
    BY <1>2, <2>1 DEF Detached
  <2>3. ASSUME NEW l \in Sessions, recording'[l] # None PROVE state'[recording'[l]] = "recording"
    <3>1. l # s /\ recording'[l] = recording[l] /\ recording[l] # k /\ recording[l] # None
      BY <1>2, <1>5, <2>2, <2>3
    <3>2. recording[l] \in Tracks /\ state[recording[l]] = "recording"
      BY <2>1, <3>1, Names DEF Inv, Sound, TypeOK
    <3>. QED  BY <1>4, <3>1, <3>2
  <2>. QED  BY <2>1, <2>3
<1>9. worker' = "idle"
  BY <1>1 DEF Reply
<1>10. \/ /\ faults' = faults
          /\ \E st \in {"recording", "complete"} : disk' = [disk EXCEPT ![k] = File(st, samples'[k])]
          /\ answered' = [answered EXCEPT ![k] = Len(samples'[k])]
          /\ lastTime'[s] = h[serving].stamp
       \/ faults' # 0 /\ UNCHANGED <<disk, answered>>
  <2>1. lastTime \in [Sessions -> Stamps \cup {None}]
    BY DEF Inv, TypeOK
  <2>2. CASE CloseFails(s, "complete") /\ UNCHANGED <<lastTime, answered>>
    BY <1>7, <2>2 DEF CloseFails
  <2>3. CASE /\ SaveOk(recording[s])
             /\ disk' = [disk EXCEPT ![recording[s]] = File("complete", samples'[recording[s]])]
             /\ lastTime' = [lastTime EXCEPT ![s] = h[serving].stamp]
             /\ answered' = [answered EXCEPT ![k] = Len(samples'[k])]
    <3>1. disk' = [disk EXCEPT ![k] = File("complete", samples'[k])] /\ faults' = faults
      BY <1>2, <2>3 DEF SaveOk
    <3>2. lastTime'[s] = h[serving].stamp
      BY <1>2, <2>1, <2>3
    <3>. QED  BY <2>3, <3>1, <3>2
  <2>. QED  BY <1>1, <2>2, <2>3
<1>11. Appends(k)
  BY <1>1, <1>2, <1>4, <1>7, <1>9, <1>10 DEF Appends, s
<1>. QED  BY <1>3, <1>6, <1>8, <1>11, AppendKeepsInv

-----------------------------------------------------------------------------
(* Dying and starting again                                                *)

\* loadTracks: what is listed is what the directories held, and nothing is
\* recording or under way.
LEMMA RestartKeepsInv == ASSUME Inv, Restart PROVE Inv'
<1>1. PICK torn \in {{}} \cup {{t} : t \in Torn}, fault \in 0..1 :
        LET left  == [t \in Kept |-> IF t \in torn THEN Bare ELSE disk[t]]
            loads == Loadable(left) /\ fault = 0
            found == {t \in Kept : loads /\ left[t].kind = "file"} IN
        /\ faults + fault <= MaxFaults /\ faults' = faults + fault
        /\ up' = IF loads THEN "up" ELSE "refused"
        /\ disk' = [t \in Kept |-> IF t \in found /\ left[t].state = "recording"
                                   THEN [left[t] EXCEPT !.state = "interrupted"] ELSE left[t]]
        /\ listed' = found
        /\ state' = [t \in Tracks |-> IF t \in found THEN disk'[t].state ELSE "none"]
        /\ samples' = [t \in Kept |-> IF t \in found THEN left[t].samples ELSE <<>>]
        /\ answered' = [t \in Kept |-> IF t \in found THEN answered[t] ELSE 0]
  BY DEF Restart
<1>. DEFINE left  == [t \in Kept |-> IF t \in torn THEN Bare ELSE disk[t]]
            loads == Loadable(left) /\ fault = 0
            found == {t \in Kept : loads /\ left[t].kind = "file"}
<1>2. /\ up = "up" /\ crashes < MaxCrashes /\ crashes' = crashes + 1
      /\ lastTime' = [s \in Sessions |-> None]
      /\ lastSubmit' = [s \in Sessions |-> 0]
      /\ recording' = [s \in Sessions |-> None]
      /\ start' = [k \in Takes |-> 0]
      /\ idle' = [s \in Sessions |-> FALSE]
      /\ h' = [r \in Handlers |-> Idle]
      /\ upload' = None /\ frames' = <<>> /\ worker' = "idle" /\ serving' = None /\ jobs' = 0
      /\ early' = {}
      /\ faults' \in 0..MaxFaults /\ (faults' = 0 => faults = 0)
  <2>1. faults \in 0..MaxFaults /\ MaxFaults \in Nat
    BY SessionAssumption DEF Inv, TypeOK
  <2>. QED  BY <1>1, <2>1 DEF Restart
<1>3. \A t \in Kept : /\ samples[t] \in Seq(Stamps) /\ disk[t] \in FileType
                      /\ answered[t] \in 0..MaxFrames
  BY DEF Inv, TypeOK, FileType
<1>4. Bare \in FileType /\ Bare.kind = "bare" /\ Bare.samples = <<>>
  BY NoTimes DEF Bare, FileType
<1>5. \A t \in Kept : left[t] \in FileType
  BY <1>3, <1>4
<1>6. \A t \in Kept : left[t] = disk[t] \/ (left[t].kind = "bare" /\ left[t].samples = <<>>)
  BY <1>4
<1>7. \A t \in found : /\ t \in Kept /\ left[t] = disk[t] /\ disk[t].kind = "file" /\ t \in listed
                       /\ disk[t].state # "none" /\ answered[t] <= Len(disk[t].samples)
  <2>. SUFFICES ASSUME NEW t \in found
                PROVE  /\ t \in Kept /\ left[t] = disk[t] /\ disk[t].kind = "file" /\ t \in listed
                       /\ disk[t].state # "none" /\ answered[t] <= Len(disk[t].samples)
    OBVIOUS
  <2>1. t \in Kept /\ left[t].kind = "file"
    OBVIOUS
  <2>. HIDE DEF found, left
  <2>2. left[t] = disk[t] /\ disk[t].kind = "file"
    BY <1>6, <2>1
  <2>3. t \in listed /\ disk[t].state # "none"
    BY <1>2, <2>1, <2>2 DEF Inv, Listing
  <2>. QED  BY <1>2, <2>1, <2>2, <2>3 DEF Inv, Lengths
<1>8. /\ up' \in {"up", "refused"} /\ listed' = found
      /\ up' = "refused" => found = {}
      /\ up' = "up" => \A t \in Kept : left[t].kind # "bare" /\ (left[t].kind = "file" => t \in found)
  BY <1>1 DEF Loadable
<1>9. ASSUME NEW t \in Kept
      PROVE  /\ disk'[t] \in FileType /\ disk'[t].kind = left[t].kind
             /\ disk'[t].samples = left[t].samples
             /\ disk'[t].state = IF t \in found /\ left[t].state = "recording"
                                 THEN "interrupted" ELSE left[t].state
  <2>1. left[t] \in FileType
    BY <1>5
  <2>2. disk'[t] = IF t \in found /\ left[t].state = "recording"
                   THEN [left[t] EXCEPT !.state = "interrupted"] ELSE left[t]
    BY <1>1
  <2>. HIDE DEF left, found
  <2>. QED  BY <2>1, <2>2 DEF FileType
<1>10. /\ state' = [t \in Tracks |-> IF t \in found THEN disk'[t].state ELSE "none"]
       /\ samples' = [t \in Kept |-> IF t \in found THEN left[t].samples ELSE <<>>]
       /\ answered' = [t \in Kept |-> IF t \in found THEN answered[t] ELSE 0]
       /\ disk' = [t \in Kept |-> disk'[t]]
  BY <1>1
<1>. HIDE DEF left, found
<1>11. \A t \in found : t \in Kept /\ t \in Tracks /\ disk'[t].state \in {"complete", "interrupted"}
  BY <1>7, <1>9, Names DEF FileType
<1>12. \A t \in Tracks : state'[t] = IF t \in found THEN disk'[t].state ELSE "none"
  BY <1>10
<1>13. \A t \in Kept : /\ t \in found => samples'[t] = disk[t].samples /\ disk'[t].samples = disk[t].samples
                                         /\ answered'[t] = answered[t]
                       /\ t \notin found => samples'[t] = <<>> /\ answered'[t] = 0
                       /\ disk'[t].samples = disk[t].samples \/ disk'[t].samples = <<>>
  BY <1>6, <1>7, <1>9, <1>10
<1>14. TypeOK'
  <2>1. /\ state' \in [Tracks -> States] /\ listed' \subseteq Tracks
    BY <1>8, <1>10, <1>11 DEF States
  <2>2. /\ samples' \in [Kept -> Seq(Stamps)] /\ answered' \in [Kept -> 0..MaxFrames]
    <3>1. \A t \in Kept : left[t].samples \in Seq(Stamps)
      BY <1>5 DEF FileType
    <3>. QED  BY <1>3, <1>10, <3>1, NoTimes, Names
  <2>3. disk' \in [Kept -> FileType]
    BY <1>9, <1>10
  <2>4. 0 \in Stamps /\ Idle \in RequestType
    <3>1. 0 \in Stamps
      BY Names DEF Stamps
    <3>. QED  BY <3>1 DEF Idle, RequestType
  <2>5. /\ lastTime' \in [Sessions -> Stamps \cup {None}] /\ lastSubmit' \in [Sessions -> Stamps]
        /\ recording' \in [Sessions -> Takes \cup {None}] /\ start' \in [Takes -> Stamps]
        /\ idle' \in [Sessions -> BOOLEAN] /\ h' \in [Handlers -> RequestType]
    BY <1>2, <2>4
  <2>6. /\ frames' \in Seq(Handlers) /\ Len(frames') <= 1 /\ early' \subseteq Handlers
        /\ jobs' \in 0..MaxJobs /\ crashes' \in 0..MaxCrashes
    BY <1>2, SessionAssumption DEF Inv, TypeOK
  <2>. QED  BY <1>2, <1>8, <2>1, <2>2, <2>3, <2>5, <2>6 DEF Inv, TypeOK, States, FileType, RequestType
<1>15. \A r \in Handlers : h'[r].pc = "idle"
  BY <1>2 DEF Idle
<1>16. \A s \in Sessions : recording'[s] = None /\ lastTime'[s] = None
  BY <1>2
<1>17. \A t \in Kept : state'[t] # "recording" /\ (state'[t] = "none" => t \notin found)
  BY <1>11, <1>12, Names
<1>18. Listing'
  <2>1. \A t \in listed' : state'[t] \notin {"none", "deleted"}
    BY <1>8, <1>11, <1>12
  <2>2. up' = "up" => \A t \in Kept : disk'[t].kind = IF t \in listed' THEN "file" ELSE "none"
    BY <1>5, <1>7, <1>8, <1>9 DEF FileType
  <2>3. \A t \in Kept : disk'[t].kind = "file" => disk'[t].state # "none"
    BY <1>6, <1>9 DEF Inv, Listing
  <2>. QED  BY <1>2, <1>8, <1>15, <1>17, <2>1, <2>2, <2>3 DEF Listing
<1>19. Owners' /\ Requests' /\ Ordering'
  <2>1. Owners'
    BY <1>16, <1>17, Names DEF Owners
  <2>2. \A r \in Handlers : frames' # <<r>>
    BY <1>2
  <2>3. Requests' /\ Ordering'
    BY <1>2, <1>15, <2>2 DEF Requests, Ordering, Open, Behind
  <2>. QED  BY <2>1, <2>3
<1>20. Lengths'
  <2>1. ASSUME NEW t \in Kept
        PROVE  /\ Len(samples'[t]) <= MaxFrames
               /\ Len(disk'[t].samples) <= MaxFrames
               /\ answered'[t] <= Len(samples'[t])
               /\ state'[t] = "none" => samples'[t] = <<>>
    <3>1. Len(disk[t].samples) <= MaxFrames /\ Len(<<>>) = 0 /\ MaxFrames \in Nat
      BY NoTimes, Names DEF Inv, Lengths
    <3>2. CASE t \in found
      BY <1>7, <1>13, <1>17, <3>1, <3>2
    <3>3. CASE t \notin found
      BY <1>13, <3>1, <3>3
    <3>. QED  BY <3>2, <3>3
  <2>2. ASSUME NEW t \in Kept \cap listed'
        PROVE  /\ answered'[t] <= Len(disk'[t].samples)
               /\ Len(disk'[t].samples) <= Len(samples'[t])
    <3>1. t \in found /\ disk[t].samples \in Seq(Stamps)
      BY <1>3, <1>8 DEF FileType
    <3>2. Len(disk[t].samples) \in Nat
      BY <3>1, LenProperties
    <3>. QED  BY <1>7, <1>13, <3>1, <3>2
  <2>. QED  BY <1>15, <1>17, <2>1, <2>2, Names DEF Lengths, Open
<1>21. Sound'
  <2>. SUFFICES ASSUME faults = 0, NEW k \in Takes
                PROVE  Increasing(samples'[k]) /\ Increasing(disk'[k].samples)
    BY <1>2, <1>16 DEF Sound
  <2>1. k \in Kept /\ Increasing(disk[k].samples)
    BY Names DEF Inv, Sound
  <2>. QED  BY <1>13, <2>1, NoTimes
<1>. QED  BY <1>14, <1>18, <1>19, <1>20, <1>21 DEF Inv

-----------------------------------------------------------------------------
(* Theorems                                                                *)

\* Nothing is listed, recorded or under way when the program starts first.
LEMMA InitInv == Init => Inv
<1>. SUFFICES ASSUME Init PROVE Inv
  OBVIOUS
<1>. USE DEF Init
<1>1. 0 \in Stamps /\ Idle \in RequestType /\ NoDir \in FileType
  <2>1. 0 \in Stamps
    BY Names DEF Stamps
  <2>. QED  BY <2>1, NoTimes DEF Idle, NoDir, RequestType, FileType
<1>2. TypeOK
  <2>1. /\ h \in [Handlers -> RequestType] /\ disk \in [Kept -> FileType]
        /\ lastSubmit \in [Sessions -> Stamps] /\ start \in [Takes -> Stamps]
    BY <1>1
  <2>2. /\ samples \in [Kept -> Seq(Stamps)] /\ frames \in Seq(Handlers) /\ Len(frames) <= 1
    BY NoTimes
  <2>3. /\ jobs \in 0..MaxJobs /\ faults \in 0..MaxFaults /\ crashes \in 0..MaxCrashes
        /\ answered \in [Kept -> 0..MaxFrames]
    BY SessionAssumption, Names
  <2>4. /\ up \in {"up", "refused"} /\ listed \subseteq Tracks /\ early \subseteq Handlers
        /\ state \in [Tracks -> States] /\ lastTime \in [Sessions -> Stamps \cup {None}]
        /\ recording \in [Sessions -> Takes \cup {None}] /\ idle \in [Sessions -> BOOLEAN]
        /\ upload \in Handlers \cup {None} /\ serving \in Handlers \cup {None}
        /\ worker \in {"idle", "frame", "job", "off"}
    BY DEF States
  <2>. QED  BY <2>1, <2>2, <2>3, <2>4 DEF TypeOK, RequestType, FileType, States
<1>3. /\ \A r \in Handlers : h[r].pc = "idle" /\ frames # <<r>>
      /\ \A t \in Kept : /\ state[t] = "none" /\ samples[t] = <<>> /\ answered[t] = 0
                         /\ disk[t].kind = "none" /\ disk[t].samples = <<>>
      /\ \A s \in Sessions : recording[s] = None
  BY Names DEF Idle, NoDir
<1>4. Listing /\ Owners
  BY <1>3, Names DEF Listing, Owners
<1>5. Requests /\ Ordering
  BY <1>3 DEF Requests, Ordering, Open, Behind
<1>6. Lengths /\ Sound
  BY <1>3, NoTimes, Names DEF Lengths, Sound, Open
<1>. QED  BY <1>2, <1>4, <1>5, <1>6 DEF Inv

\* Every step keeps the invariant.
LEMMA NextInv == ASSUME Inv, [Next]_vars PROVE Inv'
<1>1. CASE UNCHANGED vars
  <2>1. UNCHANGED <<up, listed, state, samples, lastTime, lastSubmit, recording, start, idle, h,
                    upload, frames, worker, serving, jobs, disk, faults, crashes, early, answered>>
    BY <1>1 DEF vars, tracks, consume, history
  <2>2. TypeOK' /\ Listing' /\ Owners'
    BY <2>1 DEF Inv, TypeOK, Listing, Owners
  <2>3. Requests' /\ Ordering'
    BY <2>1 DEF Inv, Requests, Ordering, Open, Behind
  <2>4. Lengths' /\ Sound'
    BY <2>1 DEF Inv, Lengths, Sound, Open
  <2>. QED  BY <2>2, <2>3, <2>4 DEF Inv
<1>2. CASE CreateFails \/ \E s \in Sessions : Create(s)
  BY <1>2, CreateKeepsInv, CreateFailsKeepsInv
<1>3. CASE \E s \in Live : Age(s) \/ StopRecord(s) \/ FinishLive(s)
  BY <1>3, OthersKeepInv, StopRecordKeepsInv, FinishLiveKeepsInv
<1>4. CASE \E s \in Live, k \in Takes, time \in Stamps : Record(s, k, time)
  BY <1>4, RecordKeepsInv
<1>5. CASE \/ \E s \in Offline : FinishOffline(s)
           \/ \E t \in Kept : Rename(t) \/ Delete(t)
  BY <1>5, FinishOfflineKeepsInv, RenameKeepsInv, DeleteKeepsInv
<1>6. CASE \E r \in Handlers, s \in Sessions, x \in Stamps : Admit(r, s, x)
  BY <1>6, AdmitKeepsInv
<1>7. CASE \E r \in Handlers : Reject(r) \/ Enqueue(r) \/ EndContext(r) \/ Leave(r)
  BY <1>7, GoneKeepsInv, EnqueueKeepsInv, EndContextKeepsInv
<1>8. CASE SubmitJob \/ TakeJob \/ EndJob \/ TakeFrame \/ StopWorker
  BY <1>8, OthersKeepInv, TakeFrameKeepsInv
<1>9. CASE FrameFails \/ KeepNothing \/ KeepOffline \/ AppendSample \/ LastSample \/ BudgetSpent
  BY <1>9, FrameFailsKeepsInv, KeepNothingKeepsInv, KeepOfflineKeepsInv, AppendSampleKeepsInv,
     LastSampleKeepsInv, BudgetSpentKeepsInv
<1>10. CASE Restart
  BY <1>10, RestartKeepsInv
<1>. QED  BY <1>1, <1>2, <1>3, <1>4, <1>5, <1>6, <1>7, <1>8, <1>9, <1>10 DEF Next

\* The invariant holds of every behaviour of the server, whatever its clients
\* do and whichever saves fail.
THEOREM Invariant == Spec => []Inv
<1>1. Init => Inv
  BY InitInv
<1>2. Inv /\ [Next]_vars => Inv'
  BY NextInv
<1>. QED  BY <1>1, <1>2, PTL DEF Spec


\* The type invariant of LiveSession.
THEOREM TypeCorrect == Spec => []TypeOK
<1>1. Inv => TypeOK
  BY DEF Inv
<1>. QED  BY <1>1, Invariant, PTL

\* Whatever is under way keeps somebody who answers for it: a take that
\* records a session that can stop it, a frame in the channel or the consumer
\* a request that waits (demo/recording.go, demo/tracking.go).
THEOREM NoneOrphaned == Spec => []NothingIsOrphaned
<1>1. Inv => OpenTakeIsOwned
  <2>. SUFFICES ASSUME Inv, NEW k \in Takes, state[k] = "recording"
                PROVE  Cardinality({s \in Live \cap listed : recording[s] = k}) = 1
    BY DEF OpenTakeIsOwned
  <2>1. PICK s \in Sessions : recording[s] = k
    BY DEF Inv, Owners
  <2>2. k # None
    BY Names
  <2>3. {t \in Live \cap listed : recording[t] = k} = {s}
    BY <2>1, <2>2, Names DEF Inv, Owners
  <2>. QED  BY <2>3, FS_Singleton
<1>2. Inv => OwnershipHeld
  <2>. SUFFICES ASSUME Inv PROVE OwnershipHeld
    OBVIOUS
  <2>1. ASSUME NEW i \in DOMAIN frames
        PROVE  h[frames[i]].pc = "waiting" /\ h[frames[i]].reply = "none"
    <3>1. frames \in Seq(Handlers) /\ Len(frames) <= 1
      BY DEF Inv, TypeOK
    <3>2. i \in 1..Len(frames) /\ Len(frames) \in Nat
      BY <3>1, LenProperties
    <3>3. frames # <<>>
      BY <3>1, <3>2, EmptySeq
    <3>4. frames = <<Head(frames)>> /\ Head(frames) \in Handlers
      BY <3>1, <3>3, OnePlace
    <3>5. i = 1 /\ frames[1] = Head(frames)
      BY <3>1, <3>2, <3>4
    <3>. QED  BY <3>4, <3>5 DEF Inv, Requests
  <2>2. worker = "frame" => h[serving].pc = "waiting" /\ h[serving].reply = "none"
    BY DEF Inv, Requests
  <2>. QED  BY <2>1, <2>2 DEF OwnershipHeld
<1>3. Inv => NothingIsOrphaned
  BY <1>1, <1>2 DEF NothingIsOrphaned
<1>. QED  BY <1>3, Invariant, PTL

\* A frame that was answered with success is on disk, whatever failed before
\* it and whenever the server dies.
THEOREM AnswersAreSaved == Spec => []AnsweredIsSaved
<1>1. Inv => AnsweredIsSaved
  <2>. SUFFICES ASSUME Inv, up = "up", NEW t \in SavedTracks
                PROVE  disk[t].kind = "file" /\ Len(disk[t].samples) >= answered[t]
    BY DEF AnsweredIsSaved
  <2>1. t \in Kept /\ t \in listed
    BY DEF SavedTracks
  <2>2. disk[t].samples \in Seq(Stamps) /\ answered[t] \in Nat
    BY <2>1, Names DEF Inv, TypeOK
  <2>3. Len(disk[t].samples) \in Nat /\ answered[t] <= Len(disk[t].samples)
    BY <2>1, <2>2, LenProperties DEF Inv, Lengths
  <2>. QED  BY <2>1, <2>2, <2>3 DEF Inv, Listing
<1>. QED  BY <1>1, Invariant, PTL

\* No directory ever holds more frames than loadTracks accepts.
THEOREM AlwaysLoadable == Spec => []SavedIsLoadable
<1>1. Inv => SavedIsLoadable
  BY DEF Inv, Lengths, SavedIsLoadable
<1>. QED  BY <1>1, Invariant, PTL

\* While saves succeed, the times of a take increase and the take that a
\* session records is in the history.
THEOREM TakesAreSound == Spec => []TakesAreSoundIfSaved
<1>1. Inv => TakesAreSoundIfSaved
  <2>. SUFFICES ASSUME Inv, faults = 0 PROVE TakeTimesIncrease /\ RecordingIsKept
    BY DEF TakesAreSoundIfSaved
  <2>1. TakeTimesIncrease
    BY DEF Inv, Sound, TakeTimesIncrease
  <2>2. ASSUME NEW s \in Live \cap listed, recording[s] # None PROVE recording[s] \in listed
    <3>1. s \in Sessions
      BY Names
    <3>2. state[recording[s]] = "recording" /\ recording[s] \in Kept
      BY <2>2, <3>1, Names DEF Inv, Sound, TypeOK
    <3>. QED  BY <3>2 DEF Inv, Listing
  <2>. QED  BY <2>1, <2>2 DEF RecordingIsKept
<1>. QED  BY <1>1, Invariant, PTL

\* Which steps add a sample: those that keep a frame, to a track that is
\* open, and to a take only if the request was admitted after it began.
LEMMA GrowthShape ==
    ASSUME Inv, [Next]_vars, samples' # samples, crashes' = crashes
    PROVE  \E k \in Kept :
             /\ state[k] = "recording" /\ (k \in Takes => serving \notin early)
             /\ \A t \in Kept : t # k => samples'[t] = samples[t]
<1>1. KeepOffline \/ AppendSample \/ LastSample \/ Restart
  BY DEF Next, vars, tracks, history, consume, Create, CreateFails, Age, StopRecord, FinishLive,
         Record, FinishOffline, Rename, Delete, Admit, Reject, Enqueue, EndContext, Leave,
         SubmitJob, TakeJob, EndJob, TakeFrame, StopWorker, FrameFails, KeepNothing, BudgetSpent
<1>2. ~Restart
  <2>1. crashes \in Nat
    BY SessionAssumption DEF Inv, TypeOK
  <2>. QED  BY <2>1 DEF Restart
<1>3. CASE KeepOffline
  <2>. DEFINE s == h[serving].of
  <2>1. /\ state[s] = "recording" /\ s \in Kept /\ s \notin Takes
        /\ samples' = [samples EXCEPT ![s] = Append(@, h[serving].stamp)]
    BY <1>3, Names DEF KeepOffline, Wanted
  <2>2. \A t \in Kept : t # s => samples'[t] = samples[t]
    BY <2>1 DEF Inv, TypeOK
  <2>. QED  BY <2>1, <2>2
<1>4. CASE AppendSample \/ LastSample
  <2>. DEFINE k == TakeOf(serving)
  <2>1. /\ worker = "frame" /\ Grows(serving)
        /\ samples' = [samples EXCEPT ![k] = Append(@, h[serving].stamp)]
    BY <1>4 DEF AppendSample, LastSample
  <2>2. k \in Kept /\ serving \notin early /\ state[k] = "recording"
    BY <2>1, ServedTake DEF Grows
  <2>3. \A t \in Kept : t # k => samples'[t] = samples[t]
    BY <2>1 DEF Inv, TypeOK
  <2>. QED  BY <2>2, <2>3
<1>. QED  BY <1>1, <1>2, <1>3, <1>4

\* A start never lists more samples than the memory had.
LEMMA RestartShrinks ==
    ASSUME Inv, Restart
    PROVE  \A t \in Kept : Len(samples'[t]) <= Len(samples[t])
<1>. SUFFICES ASSUME NEW t \in Kept PROVE Len(samples'[t]) <= Len(samples[t])
  OBVIOUS
<1>1. \/ samples'[t] = <<>>
      \/ samples'[t] = disk[t].samples /\ disk[t].kind = "file"
  <2>1. Bare.kind = "bare"
    BY DEF Bare
  <2>. QED  BY <2>1 DEF Restart
<1>2. samples[t] \in Seq(Stamps) /\ up = "up"
  BY DEF Restart, Inv, TypeOK
<1>3. Len(samples[t]) \in Nat /\ Len(<<>>) = 0
  BY <1>2, LenProperties, NoTimes
<1>4. disk[t].kind = "file" => Len(disk[t].samples) <= Len(samples[t])
  BY <1>2 DEF Inv, Listing, Lengths
<1>. QED  BY <1>1, <1>3, <1>4

\* One step of TakeHoldsItsFrames.
HoldsStep ==
    /\ \A t \in Kept : state[t] \in {"complete", "interrupted"} /\ crashes' = crashes
                       => samples'[t] = samples[t]
    /\ \A k \in Takes : Len(samples'[k]) > Len(samples[k]) => serving \notin early

\* A take holds frames admitted while it was recording and no other: nothing
\* is added to a take that has ended, and nothing that was in flight before
\* it began.
THEOREM TakesHoldTheirFrames == Spec => TakeHoldsItsFrames
<1>1. ASSUME Inv, [Next]_vars PROVE HoldsStep
  <2>0. \A k \in Takes : k \in Kept /\ Len(samples[k]) \in Nat
    BY LenProperties, Names DEF Inv, TypeOK
  <2>1. CASE samples' = samples
    BY <2>0, <2>1 DEF HoldsStep
  <2>2. CASE samples' # samples /\ crashes' = crashes
    <3>1. PICK k \in Kept : /\ state[k] = "recording" /\ (k \in Takes => serving \notin early)
                            /\ \A t \in Kept : t # k => samples'[t] = samples[t]
      BY <1>1, <2>2, GrowthShape
    <3>. QED  BY <2>0, <3>1 DEF HoldsStep
  <2>3. CASE crashes' # crashes
    <3>1. Restart
      BY <1>1, <2>3
      DEF Next, vars, tracks, history, consume, Create, CreateFails, Age, StopRecord, FinishLive,
          Record, FinishOffline, Rename, Delete, Admit, Reject, Enqueue, EndContext, Leave,
          SubmitJob, TakeJob, EndJob, TakeFrame, StopWorker, FrameFails, KeepNothing, BudgetSpent,
          KeepOffline, AppendSample, LastSample
    <3>2. \A k \in Takes : Len(samples'[k]) <= Len(samples[k]) /\ Len(samples'[k]) \in Nat
      <4>1. Inv'
        BY <1>1, NextInv
      <4>2. \A k \in Kept : samples'[k] \in Seq(Stamps)
        BY <4>1 DEF Inv, TypeOK
      <4>. QED  BY <1>1, <2>0, <3>1, <4>2, RestartShrinks, LenProperties
    <3>. QED  BY <2>0, <2>3, <3>2 DEF HoldsStep
  <2>. QED  BY <2>1, <2>2, <2>3
<1>. QED  BY <1>1, Invariant, PTL DEF Spec, TakeHoldsItsFrames, HoldsStep
=============================================================================
