---------------------------- MODULE LiveSession ----------------------------
(***************************************************************************)
(* Tracking sessions and recorded takes of the demo server                 *)
(* (demo/tracking.go, demo/recording.go).                                  *)
(*                                                                         *)
(* An offline session keeps every frame it infers under tracks/ID; a live  *)
(* session keeps nothing, except that it may own one take, which is a      *)
(* track of its own with a directory.  A frame request is admitted under   *)
(* the upload token and the mutex, reads and decodes its body, enters the  *)
(* one-place channel of the queue consumer, which also serves jobs, and    *)
(* waits for the reply.  Finish, record, stop, rename, delete and the      *)
(* expiry of idle sessions run at any moment in between, and so do failed  *)
(* writes, crashes and restarts.                                           *)
(*                                                                         *)
(* Handler, session and take identities are model values.  A stamp counts  *)
(* sampling intervals.  A session slot stands for one random id.           *)
(***************************************************************************)
EXTENDS Naturals, Sequences, FiniteSets

CONSTANTS
    Live, Offline,   \* session ids
    Takes,           \* take ids
    Handlers,        \* concurrent frame requests
    None,
    MaxStamp,        \* bound: stamps a client sends
    MaxFrames,       \* maxTrackFrames
    MaxLive,         \* live sessions the server admits
    MaxHistory,      \* cfg.maxJobs, as the limit on saved tracks
    MaxJobs,         \* cap(a.queue)
    MaxFaults,       \* bound: writes of track.json that fail
    MaxCrashes       \* bound: times the server dies

ASSUME SessionAssumption ==
    /\ Live \cap Offline = {} /\ Live \cap Takes = {} /\ Offline \cap Takes = {}
    /\ None \notin Live \cup Offline \cup Takes \cup Handlers \cup 0..MaxStamp
    /\ IsFiniteSet(Handlers)
    /\ MaxStamp \in Nat /\ MaxFrames \in Nat \ {0}
    /\ MaxLive \in Nat \ {0} /\ MaxHistory \in Nat \ {0} /\ MaxJobs \in Nat
    /\ MaxFaults \in Nat /\ MaxCrashes \in Nat

Sessions == Live \cup Offline
Kept     == Offline \cup Takes        \* tracks with a directory
Tracks   == Live \cup Kept
Stamps   == 0..MaxStamp

VARIABLES
    up,          \* "up", or "refused": loadTracks returned an error
    listed,      \* the keys of a.tracks
    state,       \* track.State; "none" before the id is drawn, "deleted" after
    samples,     \* the times in track.Samples (source times, also in a take)
    lastTime,    \* time of the last counted frame; None while Count = 0
    lastSubmit,  \* time of the last admitted frame
    recording,   \* session.Recording
    start,       \* take.Start
    idle,        \* the session was last used more than a minute ago
    h,           \* the frame requests
    upload,      \* the request holding a.uploads
    frames,      \* a.frames
    worker,      \* the queue consumer: "idle", "frame", "job", "off"
    serving,     \* the request runFrame has
    jobs,        \* len(a.queue)
    disk,        \* tracks/ID: no directory, a bare one, or one with track.json
    faults, crashes,
    early,       \* history: requests in flight when their session's take began
    answered     \* history: frames of a track whose reply was a success

tracks  == <<listed, state, samples, lastTime, lastSubmit, recording, start, idle>>
consume == <<frames, worker, serving, jobs>>
history == <<early, answered>>
vars == <<up, tracks, h, upload, consume, disk, faults, crashes, history>>

Idle == [pc |-> "idle", of |-> None, stamp |-> 0, take |-> None,
         ctx |-> "live", reply |-> "none"]
NoDir == [kind |-> "none", state |-> "none", samples |-> <<>>]
Bare  == [kind |-> "bare", state |-> "none", samples |-> <<>>]
File(st, times) == [kind |-> "file", state |-> st, samples |-> times]

InFlight(s) == {r \in Handlers : h[r].pc # "idle" /\ h[r].of = s}
Busy(s)     == InFlight(s) # {}

TypeOK ==
    /\ up \in {"up", "refused"}
    /\ listed \subseteq Tracks
    /\ state \in [Tracks -> {"none", "recording", "complete", "interrupted", "deleted"}]
    /\ samples \in [Kept -> Seq(Stamps)]
    /\ lastTime \in [Sessions -> Stamps \cup {None}]
    /\ lastSubmit \in [Sessions -> Stamps]
    /\ recording \in [Sessions -> Takes \cup {None}]
    /\ start \in [Takes -> Stamps]
    /\ idle \in [Sessions -> BOOLEAN]
    /\ h \in [Handlers -> [pc : {"idle", "reading", "waiting"}, of : Sessions \cup {None},
                           stamp : Stamps, take : Takes \cup {None},
                           ctx : {"live", "ended"}, reply : {"none", "ok", "error"}]]
    /\ upload \in Handlers \cup {None}
    /\ frames \in Seq(Handlers) /\ Len(frames) <= 1
    /\ worker \in {"idle", "frame", "job", "off"}
    /\ serving \in Handlers \cup {None}
    /\ jobs \in 0..MaxJobs
    /\ disk \in [Kept -> [kind : {"none", "bare", "file"},
                          state : {"none", "recording", "complete", "interrupted"},
                          samples : Seq(Stamps)]]
    /\ faults \in 0..MaxFaults /\ crashes \in 0..MaxCrashes
    /\ early \subseteq Handlers
    /\ answered \in [Kept -> 0..MaxFrames]

Init ==
    /\ up = "up" /\ listed = {}
    /\ state = [t \in Tracks |-> "none"]
    /\ samples = [t \in Kept |-> <<>>]
    /\ lastTime = [s \in Sessions |-> None]
    /\ lastSubmit = [s \in Sessions |-> 0]
    /\ recording = [s \in Sessions |-> None]
    /\ start = [t \in Takes |-> 0]
    /\ idle = [s \in Sessions |-> FALSE]
    /\ h = [r \in Handlers |-> Idle]
    /\ upload = None /\ frames = <<>> /\ worker = "idle" /\ serving = None /\ jobs = 0
    /\ disk = [t \in Kept |-> NoDir]
    /\ faults = 0 /\ crashes = 0 /\ early = {}
    /\ answered = [t \in Kept |-> 0]

-----------------------------------------------------------------------------
(* Saving.  track.json is replaced atomically; a save fails for good when  *)
(* the directory is gone and otherwise with a fault.                       *)

SaveOk(t)    == disk[t].kind # "none" /\ UNCHANGED faults
SaveFails(t) == \/ disk[t].kind = "none" /\ UNCHANGED faults
                \/ disk[t].kind # "none" /\ faults < MaxFaults /\ faults' = faults + 1

\* finishRecording(s, how) for every s in S: what it leaves of state,
\* recording and disk when the saves succeed.
OpenTakes(S)         == {recording[s] : s \in S} \ {None}
CanClose(S)          == \A k \in OpenTakes(S) : disk[k].kind # "none"
ClosedState(S, how)  == [t \in Tracks |-> IF t \in OpenTakes(S) THEN how ELSE state[t]]
Detached(S)          == [s \in Sessions |-> IF s \in S THEN None ELSE recording[s]]
ClosedDisk(S, how)   == [t \in Kept |-> IF t \in OpenTakes(S) THEN File(how, samples[t])
                                        ELSE disk[t]]

\* finishRecording returns the error of its save, with the state set.
CloseFails(s, how) ==
    /\ recording[s] # None
    /\ SaveFails(recording[s])
    /\ state' = [state EXCEPT ![recording[s]] = how]
    /\ UNCHANGED <<disk, recording>>

-----------------------------------------------------------------------------
(* Sessions and takes                                                      *)

SavedTracks == listed \cap Kept

Expired == {s \in Live \cap listed : idle[s] /\ ~Busy(s)}

\* createTrack: expired sessions leave first, their takes interrupted.  The
\* new session may then be refused (limits, budget, a failed mkdir or save).
Create(s) ==
    /\ up = "up" /\ state[s] = "none"
    /\ CanClose(Expired)
    /\ recording' = Detached(Expired)
    /\ \/ /\ Cardinality((listed \cap Live) \ Expired) < MaxLive
          /\ s \in Offline => Cardinality(SavedTracks) < MaxHistory
          /\ listed' = (listed \ Expired) \cup {s}
          /\ state' = [ClosedState(Expired, "interrupted") EXCEPT ![s] = "recording"]
          /\ disk' = [t \in Kept |-> IF t = s THEN File("recording", <<>>)
                                    ELSE ClosedDisk(Expired, "interrupted")[t]]
       \/ /\ listed' = listed \ Expired
          /\ state' = ClosedState(Expired, "interrupted")
          /\ disk' = ClosedDisk(Expired, "interrupted")
    /\ UNCHANGED <<up, samples, lastTime, lastSubmit, start, idle, h, upload, consume, faults,
                   crashes, history>>

\* createTrack returns 500 because the take of an expired session cannot be
\* saved; the sessions visited before it in the map are closed and gone.
CreateFails ==
    /\ up = "up"
    /\ \E s \in Expired : \E gone \in SUBSET (Expired \ {s}) :
        /\ CanClose(gone)
        /\ recording[s] # None /\ SaveFails(recording[s])
        /\ state' = ClosedState(gone \cup {s}, "interrupted")
        /\ recording' = Detached(gone)
        /\ disk' = ClosedDisk(gone, "interrupted")
        /\ listed' = listed \ gone
    /\ UNCHANGED <<up, samples, lastTime, lastSubmit, start, idle, h, upload, consume,
                   crashes, history>>

\* More than a minute passes since the session's last frame was admitted.
Age(s) ==
    /\ up = "up" /\ s \in listed /\ ~idle[s]
    /\ idle' = [idle EXCEPT ![s] = TRUE]
    /\ UNCHANGED <<up, listed, state, samples, lastTime, lastSubmit, recording, start, h,
                   upload, consume, disk, faults, crashes, history>>

\* POST record.  A failed mkdir or save leaves nothing behind.
Record(s, k, time) ==
    /\ up = "up"
    /\ s \in listed /\ state[s] = "recording" /\ recording[s] = None
    /\ Cardinality(SavedTracks) < MaxHistory
    /\ state[k] = "none"
    /\ listed' = listed \cup {k}
    /\ state' = [state EXCEPT ![k] = "recording"]
    /\ start' = [start EXCEPT ![k] = time]
    /\ recording' = [recording EXCEPT ![s] = k]
    /\ disk' = [disk EXCEPT ![k] = File("recording", <<>>)]
    /\ early' = early \cup InFlight(s)
    /\ UNCHANGED <<up, samples, lastTime, lastSubmit, idle, h, upload, consume, faults,
                   crashes, answered>>

\* POST record/stop
StopRecord(s) ==
    /\ up = "up" /\ s \in listed /\ recording[s] # None
    /\ \/ /\ CanClose({s})
          /\ state' = ClosedState({s}, "complete")
          /\ disk' = ClosedDisk({s}, "complete")
          /\ recording' = Detached({s})
          /\ UNCHANGED faults
       \/ CloseFails(s, "complete")
    /\ UNCHANGED <<up, listed, samples, lastTime, lastSubmit, start, idle, h, upload, consume,
                   crashes, history>>

CancelFrames(s) == h' = [r \in Handlers |-> IF r \in InFlight(s)
                                            THEN [h[r] EXCEPT !.ctx = "ended"] ELSE h[r]]

\* POST finish of a live session: its take is complete, its frames are
\* cancelled and it leaves the map.
FinishLive(s) ==
    /\ up = "up" /\ s \in listed
    /\ \/ /\ CanClose({s})
          /\ state' = [ClosedState({s}, "complete") EXCEPT ![s] = "complete"]
          /\ disk' = ClosedDisk({s}, "complete")
          /\ recording' = Detached({s})
          /\ listed' = listed \ {s}
          /\ CancelFrames(s)
          /\ UNCHANGED faults
       \/ CloseFails(s, "complete") /\ UNCHANGED <<listed, h>>
    /\ UNCHANGED <<up, samples, lastTime, lastSubmit, start, idle, upload, consume, crashes,
                   history>>

\* POST finish of an offline session, in any state.  A failed save is
\* reported after the state is set.
FinishOffline(s) ==
    /\ up = "up" /\ s \in listed
    /\ state' = [state EXCEPT ![s] = "complete"]
    /\ CancelFrames(s)
    /\ \/ SaveOk(s) /\ disk' = [disk EXCEPT ![s] = File("complete", samples[s])]
       \/ SaveFails(s) /\ UNCHANGED disk
    /\ UNCHANGED <<up, listed, samples, lastTime, lastSubmit, recording, start, idle, upload,
                   consume, crashes, history>>

\* PATCH: the name does not matter, but the whole track is saved.
Rename(t) ==
    /\ up = "up" /\ t \in listed
    /\ SaveOk(t)
    /\ disk' = [disk EXCEPT ![t] = File(state[t], samples[t])]
    /\ UNCHANGED <<up, tracks, h, upload, consume, crashes, history>>

Deletable(t) == t \in listed /\ state[t] # "recording" /\ (t \in Offline => ~Busy(t))

\* DELETE
Delete(t) ==
    /\ up = "up" /\ Deletable(t)
    /\ disk' = [disk EXCEPT ![t] = NoDir]
    /\ state' = [state EXCEPT ![t] = "deleted"]
    /\ listed' = listed \ {t}
    /\ UNCHANGED <<up, samples, lastTime, lastSubmit, recording, start, idle, h, upload,
                   consume, faults, crashes, history>>

-----------------------------------------------------------------------------
(* Frame requests                                                          *)

\* Mutant: every session may have one frame ahead.
LimitTwo(s) == 2
Limit(s) == IF s \in Live THEN 2 ELSE 1

Previous(s) == IF Busy(s) THEN lastSubmit[s] ELSE lastTime[s]

\* Mutant: frames do not give way to jobs.
RoomBesideJobs(s) == Cardinality(InFlight(s)) < Limit(s)
Room(s) == Cardinality(InFlight(s)) < Limit(s) /\ jobs = 0

\* A frame from before the start of the take belongs to no take.
TakeFor(s, x) == IF recording[s] # None /\ x >= start[recording[s]]
                 THEN recording[s] ELSE None

\* Mutant: the token is given back once the frame is admitted.
AdmitUnordered(r, s, x) ==
    /\ up = "up" /\ h[r].pc = "idle" /\ upload = None
    /\ s \in listed /\ state[s] = "recording"
    /\ worker # "off"
    /\ Room(s)
    /\ Previous(s) # None => x >= Previous(s) + 1
    /\ h' = [h EXCEPT ![r] = [Idle EXCEPT !.pc = "reading", !.of = s, !.stamp = x,
                                          !.take = TakeFor(s, x)]]
    /\ lastSubmit' = [lastSubmit EXCEPT ![s] = x]
    /\ idle' = [idle EXCEPT ![s] = FALSE]
    /\ UNCHANGED <<up, listed, state, samples, lastTime, recording, start, upload, consume,
                   disk, faults, crashes, history>>

\* Token and admission.  A refusal changes nothing; the rate cap on the wall
\* clock only refuses more.
Admit(r, s, x) ==
    /\ up = "up" /\ h[r].pc = "idle" /\ upload = None
    /\ s \in listed /\ state[s] = "recording"
    /\ worker # "off"
    /\ Room(s)
    /\ Previous(s) # None => x >= Previous(s) + 1
    /\ s \in Offline => Len(samples[s]) < MaxFrames
    /\ upload' = r
    /\ h' = [h EXCEPT ![r] = [Idle EXCEPT !.pc = "reading", !.of = s, !.stamp = x,
                                          !.take = TakeFor(s, x)]]
    /\ lastSubmit' = [lastSubmit EXCEPT ![s] = x]
    /\ idle' = [idle EXCEPT ![s] = FALSE]
    /\ UNCHANGED <<up, listed, state, samples, lastTime, recording, start, consume, disk,
                   faults, crashes, history>>

Gone(r) == h' = [h EXCEPT ![r] = Idle] /\ early' = early \ {r}

\* The body is cut off, too long, or not an image of the session's size; or
\* the channel of the consumer is full.
Reject(r) ==
    /\ h[r].pc = "reading"
    /\ Gone(r)
    /\ upload' = None
    /\ UNCHANGED <<up, tracks, consume, disk, faults, crashes, answered>>

\* The decoded frame waits for the consumer; only then is the token free.
Enqueue(r) ==
    /\ h[r].pc = "reading"
    /\ Len(frames) < 1
    /\ frames' = Append(frames, r)
    /\ upload' = None
    /\ h' = [h EXCEPT ![r].pc = "waiting"]
    /\ UNCHANGED <<up, tracks, worker, serving, jobs, disk, faults, crashes, history>>

\* The client disconnects or the frame times out.
EndContext(r) ==
    /\ h[r].pc # "idle" /\ h[r].ctx = "live"
    /\ h' = [h EXCEPT ![r].ctx = "ended"]
    /\ UNCHANGED <<up, tracks, upload, consume, disk, faults, crashes, history>>

\* Mutant: a cancelled request does not wait for the consumer.
LeaveEarly(r) ==
    /\ h[r].pc = "waiting" /\ (h[r].reply # "none" \/ h[r].ctx = "ended")
    /\ Gone(r)
    /\ UNCHANGED <<up, tracks, upload, consume, disk, faults, crashes, answered>>

\* The reply is sent on, or 408 when the context ended first.  Either way
\* the request waits for it.
Leave(r) ==
    /\ h[r].pc = "waiting" /\ h[r].reply # "none"
    /\ Gone(r)
    /\ UNCHANGED <<up, tracks, upload, consume, disk, faults, crashes, answered>>

-----------------------------------------------------------------------------
(* The queue consumer                                                      *)

SubmitJob ==
    /\ up = "up" /\ upload = None /\ jobs < MaxJobs
    /\ jobs' = jobs + 1
    /\ UNCHANGED <<up, tracks, h, upload, frames, worker, serving, disk, faults, crashes,
                   history>>

TakeJob ==
    /\ worker = "idle" /\ jobs > 0
    /\ worker' = "job" /\ jobs' = jobs - 1
    /\ UNCHANGED <<up, tracks, h, upload, frames, serving, disk, faults, crashes, history>>

EndJob ==
    /\ worker = "job" /\ worker' = "idle"
    /\ UNCHANGED <<up, tracks, h, upload, frames, serving, jobs, disk, faults, crashes, history>>

TakeFrame ==
    /\ worker = "idle" /\ frames # <<>>
    /\ worker' = "frame" /\ serving' = Head(frames) /\ frames' = Tail(frames)
    /\ UNCHANGED <<up, tracks, h, upload, jobs, disk, faults, crashes, history>>

\* A signal ends the consumer; requests that wait are not answered.
StopWorker ==
    /\ worker = "idle" /\ up = "up"
    /\ worker' = "off"
    /\ UNCHANGED <<up, tracks, h, upload, frames, serving, jobs, disk, faults, crashes, history>>

\* runFrame returns and its deferred reply is sent.
Reply(verdict) ==
    /\ h' = [h EXCEPT ![serving].reply = verdict]
    /\ worker' = "idle" /\ serving' = None
    /\ UNCHANGED <<frames, jobs>>

\* Mutant: the reply is sent only if the request is still wanted.
FailSilently ==
    /\ worker = "frame"
    /\ \/ h[serving].ctx = "live" /\ Reply("error")
       \/ h[serving].ctx = "ended" /\ worker' = "idle" /\ serving' = None
                                   /\ UNCHANGED <<h, frames, jobs>>
    /\ UNCHANGED <<up, tracks, upload, disk, faults, crashes, history>>

\* Inference fails or is cancelled, or a file of the frame cannot be written.
FrameFails ==
    /\ worker = "frame"
    /\ Reply("error")
    /\ UNCHANGED <<up, tracks, upload, disk, faults, crashes, history>>

\* The check under the mutex before a result is kept.
Wanted(r) == h[r].ctx = "live" /\ state[h[r].of] = "recording"

\* Mutant: the take of the moment rather than that of the admission.
TakeNow(r) == IF recording[h[r].of] # None THEN recording[h[r].of] ELSE None
TakeOf(r)  == h[r].take

Grows(r) == TakeOf(r) # None /\ state[TakeOf(r)] = "recording"

\* A live frame outside a take is only counted.
KeepNothing ==
    /\ worker = "frame"
    /\ LET r == serving IN
        /\ Wanted(r) /\ h[r].of \in Live /\ ~Grows(r)
        /\ lastTime' = [lastTime EXCEPT ![h[r].of] = h[r].stamp]
    /\ Reply("ok")
    /\ UNCHANGED <<up, listed, state, samples, lastSubmit, recording, start, idle, upload, disk,
                   faults, crashes, history>>

\* A frame of an offline session.  Its files are written first; when they or
\* the budget fail, FrameFails.  A failed save leaves the frame counted.
KeepOffline ==
    /\ worker = "frame"
    /\ LET r == serving
           s == h[r].of IN
        /\ Wanted(r) /\ s \in Offline
        /\ samples' = [samples EXCEPT ![s] = Append(@, h[r].stamp)]
        /\ lastTime' = [lastTime EXCEPT ![s] = h[r].stamp]
        /\ \/ /\ SaveOk(s)
              /\ disk' = [disk EXCEPT ![s] = File(state[s], samples'[s])]
              /\ answered' = [answered EXCEPT ![s] = Len(samples'[s])]
              /\ Reply("ok")
           \/ SaveFails(s) /\ UNCHANGED <<disk, answered>> /\ Reply("error")
    /\ UNCHANGED <<up, listed, state, lastSubmit, recording, start, idle, upload, crashes, early>>

\* Mutant: the track of a take is only saved when the take ends.
AppendUnsaved ==
    /\ worker = "frame"
    /\ LET r == serving
           s == h[r].of
           k == TakeOf(r) IN
        /\ Wanted(r) /\ Grows(r) /\ Len(samples[k]) + 1 < MaxFrames
        /\ samples' = [samples EXCEPT ![k] = Append(@, h[r].stamp)]
        /\ lastTime' = [lastTime EXCEPT ![s] = h[r].stamp]
        /\ answered' = [answered EXCEPT ![k] = Len(samples'[k])]
        /\ Reply("ok")
    /\ UNCHANGED <<up, listed, state, lastSubmit, recording, start, idle, upload, disk, faults,
                   crashes, early>>

\* appendRecording below the limit of frames.  A failed save leaves the
\* sample in the take and the frame uncounted.
AppendSample ==
    /\ worker = "frame"
    /\ LET r == serving
           s == h[r].of
           k == TakeOf(r) IN
        /\ Wanted(r) /\ Grows(r) /\ Len(samples[k]) + 1 < MaxFrames
        /\ samples' = [samples EXCEPT ![k] = Append(@, h[r].stamp)]
        /\ \/ /\ SaveOk(k)
              /\ disk' = [disk EXCEPT ![k] = File("recording", samples'[k])]
              /\ lastTime' = [lastTime EXCEPT ![s] = h[r].stamp]
              /\ answered' = [answered EXCEPT ![k] = Len(samples'[k])]
              /\ Reply("ok")
           \/ SaveFails(k) /\ UNCHANGED <<disk, lastTime, answered>> /\ Reply("error")
    /\ UNCHANGED <<up, listed, state, lastSubmit, recording, start, idle, upload, crashes, early>>

\* appendRecording of the last frame a take may have: the take is finished.
LastSample ==
    /\ worker = "frame"
    /\ LET r == serving
           s == h[r].of
           k == TakeOf(r) IN
        /\ Wanted(r) /\ Grows(r) /\ Len(samples[k]) + 1 >= MaxFrames
        /\ samples' = [samples EXCEPT ![k] = Append(@, h[r].stamp)]
        /\ \/ /\ SaveOk(recording[s])
              /\ state' = ClosedState({s}, "complete")
              /\ disk' = [disk EXCEPT ![recording[s]] = File("complete", samples'[recording[s]])]
              /\ recording' = Detached({s})
              /\ lastTime' = [lastTime EXCEPT ![s] = h[r].stamp]
              /\ answered' = [answered EXCEPT ![k] = Len(samples'[k])]
              /\ Reply("ok")
           \/ CloseFails(s, "complete") /\ UNCHANGED <<lastTime, answered>> /\ Reply("error")
    /\ UNCHANGED <<up, listed, lastSubmit, start, idle, upload, crashes, early>>

\* appendRecording finds the budget spent: the take is interrupted.
BudgetSpent ==
    /\ worker = "frame"
    /\ LET r == serving
           s == h[r].of IN
        /\ Wanted(r) /\ Grows(r)
        /\ \/ /\ CanClose({s})
              /\ state' = ClosedState({s}, "interrupted")
              /\ disk' = ClosedDisk({s}, "interrupted")
              /\ recording' = Detached({s})
              /\ UNCHANGED faults
           \/ CloseFails(s, "interrupted")
    /\ Reply("error")
    /\ UNCHANGED <<up, listed, samples, lastTime, lastSubmit, start, idle, upload, crashes,
                   history>>

-----------------------------------------------------------------------------
(* The server dies and starts again                                        *)

\* Directories a crash leaves without track.json: one that mkdir just made,
\* or one that RemoveAll is emptying.
Torn == {t \in Kept :
            \/ Deletable(t)
            \/ /\ state[t] = "none" /\ Cardinality(SavedTracks) < MaxHistory
               /\ t \in Takes => \E s \in Live \cap listed : recording[s] = None}

Loadable(d) == \A t \in Kept : /\ d[t].kind # "bare"
                               /\ Len(d[t].samples) <= MaxFrames

\* loadTracks.  A track that was recording is interrupted, and saved so.  An
\* entry that cannot be read, or not be saved, refuses the start (what was
\* saved before it would be saved the same way by the next start).
Restart ==
    /\ up = "up" /\ crashes < MaxCrashes
    /\ crashes' = crashes + 1
    /\ \E torn \in {{}} \cup {{t} : t \in Torn}, fault \in 0..1 :
        LET left  == [t \in Kept |-> IF t \in torn THEN Bare ELSE disk[t]]
            loads == Loadable(left) /\ fault = 0
            found == {t \in Kept : loads /\ left[t].kind = "file"} IN
        /\ fault = 1 => \E t \in Kept : left[t].kind = "file" /\ left[t].state = "recording"
        /\ faults + fault <= MaxFaults /\ faults' = faults + fault
        /\ up' = IF loads THEN "up" ELSE "refused"
        /\ disk' = [t \in Kept |-> IF t \in found /\ left[t].state = "recording"
                                   THEN [left[t] EXCEPT !.state = "interrupted"] ELSE left[t]]
        /\ listed' = found
        /\ state' = [t \in Tracks |-> IF t \in found THEN disk'[t].state ELSE "none"]
        /\ samples' = [t \in Kept |-> IF t \in found THEN left[t].samples ELSE <<>>]
        /\ answered' = [t \in Kept |-> IF t \in found THEN answered[t] ELSE 0]
    /\ lastTime' = [s \in Sessions |-> None]
    /\ lastSubmit' = [s \in Sessions |-> 0]
    /\ recording' = [s \in Sessions |-> None]
    /\ start' = [k \in Takes |-> 0]
    /\ idle' = [s \in Sessions |-> FALSE]
    /\ h' = [r \in Handlers |-> Idle]
    /\ upload' = None /\ frames' = <<>> /\ worker' = "idle" /\ serving' = None /\ jobs' = 0
    /\ early' = {}

-----------------------------------------------------------------------------

FrameEnds ==
    FrameFails \/ KeepNothing \/ KeepOffline \/ AppendSample \/ LastSample \/ BudgetSpent

Next ==
    \/ \E s \in Sessions : Create(s)
    \/ CreateFails
    \/ \E s \in Live : Age(s) \/ StopRecord(s) \/ FinishLive(s)
    \/ \E s \in Live, k \in Takes, time \in Stamps : Record(s, k, time)
    \/ \E s \in Offline : FinishOffline(s)
    \/ \E t \in Kept : Rename(t) \/ Delete(t)
    \/ \E r \in Handlers, s \in Sessions, x \in Stamps : Admit(r, s, x)
    \/ \E r \in Handlers : Reject(r) \/ Enqueue(r) \/ EndContext(r) \/ Leave(r)
    \/ SubmitJob \/ TakeJob \/ EndJob \/ TakeFrame \/ StopWorker
    \/ FrameFails \/ KeepNothing \/ KeepOffline \/ AppendSample \/ LastSample \/ BudgetSpent
    \/ Restart

Spec == Init /\ [][Next]_vars

\* Reads are bounded by ReadTimeout, inference by the context's deadline,
\* jobs by cfg.timeout; goroutines that can run do.  The select of the
\* consumer picks among its ready channels at random, so a waiting frame is
\* not passed over for ever; for jobs no such luck is assumed.
Fairness ==
    /\ \A r \in Handlers : WF_vars(Reject(r) \/ Enqueue(r)) /\ WF_vars(Leave(r))
    /\ WF_vars(TakeJob \/ TakeFrame)
    /\ SF_vars(TakeFrame)
    /\ WF_vars(EndJob)
    /\ WF_vars(FrameEnds)

FairSpec == Spec /\ Fairness

-----------------------------------------------------------------------------
(* Properties                                                              *)

\* A take that is recording is the take of exactly one live session that is
\* still in the map: somebody can stop it (finishRecording, finish, expiry).
OpenTakeIsOwned ==
    \A k \in Takes : state[k] = "recording" =>
        Cardinality({s \in Live \cap listed : recording[s] = k}) = 1

\* Whatever the consumer or its channel holds belongs to a request that
\* still waits for the answer, even when its client has gone
\* (tracking_test.go:259).
OwnershipHeld ==
    /\ \A i \in DOMAIN frames : h[frames[i]].pc = "waiting" /\ h[frames[i]].reply = "none"
    /\ worker = "frame" => h[serving].pc = "waiting" /\ h[serving].reply = "none"

\* Whatever is under way keeps somebody who answers for it, through expiry,
\* finish, disconnects, crashes and failed saves: an open take a session that
\* can stop it, a frame in the channel or the consumer a request that waits.
NothingIsOrphaned == OpenTakeIsOwned /\ OwnershipHeld

\* A take holds frames admitted while it was recording and no other: frames in
\* flight when it began and frames unfinished when it stops or is interrupted
\* are still inferred and stay out (README: "Frames already in flight when
\* recording starts ... and unfinished when it stops, are excluded").
TakeHoldsItsFrames ==
    [][/\ \A t \in Kept : state[t] \in {"complete", "interrupted"} /\ crashes' = crashes
                          => samples'[t] = samples[t]
       /\ \A k \in Takes : Len(samples'[k]) > Len(samples[k]) => serving \notin early]_vars

\* A frame that was answered with success survives a crash: the track in the
\* history has it on disk (README: "Saved poses survive restart").
AnsweredIsSaved ==
    up = "up" => \A t \in SavedTracks :
        disk[t].kind = "file" /\ Len(disk[t].samples) >= answered[t]

\* No track grows past what loadTracks accepts, or the server would not
\* start again.
SavedIsLoadable == \A t \in Kept : Len(disk[t].samples) <= MaxFrames

Increasing(times) == \A i \in 1..(Len(times) - 1) : times[i] < times[i + 1]

\* The times of a take increase, or skeletonGLB refuses to export it.
TakeTimesIncrease == \A k \in Takes : Increasing(samples[k])

\* The take a session is recording is in the history (recording.go:28, 170).
RecordingIsKept ==
    \A s \in Live \cap listed : recording[s] # None => recording[s] \in listed

\* While saves succeed, a session records into a take that is there, in the
\* order of the source, though frames decode concurrently and takes, sessions
\* and the server come and go.
TakesAreSoundIfSaved == faults = 0 => TakeTimesIncrease /\ RecordingIsKept

\* Frames give way: a queued job is taken, whatever the sessions do.
JobNotStarved == jobs > 0 ~> worker \in {"job", "off"}

\* A frame request comes to an end while the consumer runs.
EveryFrameAnswered == \A r \in Handlers : h[r].pc # "idle" ~> h[r].pc = "idle" \/ worker = "off"

=============================================================================
