------------------------- MODULE TrackingClientProofs -------------------------
(***************************************************************************)
(* TrackingClient for any number of handlers, epochs and requests: the     *)
(* sessions that are open at the server are those that somebody in the     *)
(* page still has to finish, and somebody will.                            *)
(*                                                                         *)
(* A run that is stopped is finished by the handler that stopped it or by  *)
(* its own last step; which of the two depends on who is first to read the *)
(* session after an await.  Owed names them all.                           *)
(***************************************************************************)
EXTENDS TrackingClient, FiniteSetTheorems, TLAPS

Waits == \E h \in Handlers : spc[h] = "task"

\* A run is a task until it ends; when it is stopped, a handler waits for it.
Running ==
    /\ rpc # "none" <=> run # 0
    /\ run # 0 => task # 0 /\ (Current \/ Waits)
    /\ task # 0 /\ run = 0 => Waits

\* The page holds the session of its run, from its creation to its end.
Holding ==
    /\ task = 0 => session = 0 /\ run = 0
    /\ session # 0 /\ run # 0 => session = run
    /\ rpc \in {"creating", "finishAnyway"} => session = 0
    /\ rpc = "finishing" => session = run

\* Who still has to finish which session.
Owed ==
    \A s \in server :
        \/ s = session
        \/ s = run /\ rpc = "finishAnyway"
        \/ \E h \in Handlers : spc[h] = "finish" /\ arg[h] = s

\* Outcomes are shown in their turn.
InTurn == shown <= shifted

\* TypeOK, but for the bound on requests that are on their way.
Typed ==
    /\ mode \in Modes /\ epoch \in 0..MaxEpoch
    /\ task \in 0..MaxEpoch /\ session \in 0..MaxEpoch
    /\ spc \in [Handlers -> {"idle", "task", "finish", "history", "loading"}]
    /\ then \in [Handlers -> Modes \cup {"button", "release", "source"}]
    /\ arg \in [Handlers -> 0..MaxEpoch]
    /\ run \in 0..MaxEpoch
    /\ rpc \in {"none", "creating", "loop", "frame", "wait", "settle",
                "finishing", "drain", "finishAnyway"}
    /\ slot \in {"open", "closed", "failed"}
    /\ dpc \in {"absent", "loop", "capacity", "failed", "done"}
    /\ rq \in [Requests -> Flying \cup {"none", "ok", "skip", "error"}]
    /\ sent \in 0..MaxSent /\ shifted \in 0..sent
    /\ shown \in 0..MaxSent
    /\ server \subseteq Runs

AtMostTwo == Cardinality(Active) <= 2

Booleans ==
    /\ ready \in BOOLEAN /\ startable \in BOOLEAN /\ locked \in BOOLEAN
    /\ faces \in BOOLEAN /\ counted \in BOOLEAN

Inv == Typed /\ AtMostTwo /\ Booleans /\ Running /\ Holding /\ Owed /\ InTurn

\* There are finitely many requests.
LEMMA ActiveIsFinite == IsFiniteSet(Active)
<1>1. Active \subseteq 1..MaxSent
  BY DEF Active, Requests
<1>2. IsFiniteSet(1..MaxSent)
  BY ClientAssumption, FS_Interval
<1> QED BY <1>1, <1>2, FS_Subset

\* A step that sends none leaves at most two on their way.
LEMMA Fewer == AtMostTwo /\ Active' \subseteq Active => AtMostTwo'
<1> SUFFICES ASSUME AtMostTwo, Active' \subseteq Active PROVE AtMostTwo'
  OBVIOUS
<1>1. IsFiniteSet(Active') /\ Cardinality(Active') <= Cardinality(Active)
  BY ActiveIsFinite, FS_Subset
<1>2. Cardinality(Active) \in Nat /\ Cardinality(Active') \in Nat
  BY <1>1, ActiveIsFinite, FS_CardinalityType
<1> QED BY <1>1, <1>2 DEF AtMostTwo

\* A page that has just been loaded owes nothing.
LEMMA InvInit == Init => Inv
<1> SUFFICES ASSUME Init PROVE Inv
  OBVIOUS
<1>1. Active = {}
  BY DEF Init, Active, Flying
<1>2. AtMostTwo
  BY <1>1, FS_EmptySet DEF AtMostTwo
<1>3. Typed
  BY ClientAssumption DEF Init, Typed, Modes
<1>4. Booleans
  BY Zenon DEF Init, Booleans
<1> QED BY <1>2, <1>3, <1>4 DEF Inv, Init, Running, Holding, Owed, InTurn

\* No handler, run or request of the page breaks the invariant.
LEMMA InvStep == Inv /\ [Next]_vars => Inv'
<1> SUFFICES ASSUME Inv, [Next]_vars PROVE Inv'
  OBVIOUS
<1> USE ClientAssumption DEF Inv, page, stops, pipe
<1>1. ASSUME NEW h \in Handlers, NEW next \in Modes \cup {"button", "release", "source"},
             Stop(h, next)
      PROVE  Inv'
  <2>1. Typed'
    BY <1>1 DEF Typed, Stop, AfterTask, NoneResumes, Modes, Flying, Runs, Requests, Current
  <2>2. AtMostTwo'
    BY <1>1, Fewer DEF Typed, Stop, AfterTask, Controls, NoneResumes, Active, Flying, Requests
  <2>3. Booleans'
    BY <1>1, Zenon DEF Booleans, Stop, AfterTask, Controls, NoneResumes
  <2>4. Running'
    BY <1>1 DEF Running, Stop, AfterTask, Controls, NoneResumes, Typed, Waits, Current
  <2>5. Holding'
    BY <1>1 DEF Holding, Stop, AfterTask, Controls, NoneResumes, Typed, Running, Current, Waits
  <2>6. Owed'
    BY <1>1 DEF Owed, Stop, AfterTask, Controls, NoneResumes, Typed, Running, Holding, Current, Runs
  <2>7. InTurn'
    BY <1>1 DEF InTurn, Stop, AfterTask, Controls, NoneResumes, Typed, Requests
  <2> QED BY <2>1, <2>2, <2>3, <2>4, <2>5, <2>6, <2>7
<1>2. ASSUME NEW h \in Handlers, ResumeStop(h)
      PROVE  Inv'
  <2>1. Typed'
    BY <1>2 DEF Typed, ResumeStop, AfterTask, Modes, Flying, Runs, Requests, Current
  <2>2. AtMostTwo'
    BY <1>2, Fewer DEF Typed, ResumeStop, AfterTask, Controls, Active, Flying, Requests
  <2>3. Booleans'
    BY <1>2, Zenon DEF Booleans, ResumeStop, AfterTask, Controls
  <2>4. Running'
    BY <1>2 DEF Running, ResumeStop, AfterTask, Controls, Typed, Waits, Current
  <2>5. Holding'
    BY <1>2 DEF Holding, ResumeStop, AfterTask, Controls, Typed, Running, Current, Waits
  <2>6. Owed'
    BY <1>2 DEF Owed, ResumeStop, AfterTask, Controls, Typed, Running, Holding, Current, Runs
  <2>7. InTurn'
    BY <1>2 DEF InTurn, ResumeStop, AfterTask, Controls, Typed, Requests
  <2> QED BY <2>1, <2>2, <2>3, <2>4, <2>5, <2>6, <2>7
<1>3. ASSUME NEW h \in Handlers, StopFinished(h)
      PROVE  Inv'
  <2>1. Typed'
    <3>1. server' \subseteq server
      BY <1>3 DEF StopFinished, Finish
    <3> QED BY <1>3, <3>1 DEF Typed, StopFinished
  <2>2. AtMostTwo'
    BY <1>3, Fewer DEF Typed, StopFinished, Finish, Controls, Active, Flying, Requests
  <2>3. Booleans'
    BY <1>3, Zenon DEF Booleans, StopFinished, Finish, Controls
  <2>4. Running'
    BY <1>3 DEF Running, StopFinished, Finish, Controls, Typed, Waits, Current
  <2>5. Holding'
    BY <1>3 DEF Holding, StopFinished, Finish, Controls, Typed, Running, Current, Waits
  <2>6. Owed'
    BY <1>3 DEF Owed, StopFinished, Finish, Controls, Typed, Running, Holding, Current, Runs
  <2>7. InTurn'
    BY <1>3 DEF InTurn, StopFinished, Finish, Controls, Typed, Requests
  <2> QED BY <2>1, <2>2, <2>3, <2>4, <2>5, <2>6, <2>7
<1>4. ASSUME NEW h \in Handlers, AfterStop(h)
      PROVE  Inv'
  <2>1. Typed'
    BY <1>4 DEF Typed, AfterStop, Idle, Modes, Flying, Runs, Requests, Current
  <2>2. AtMostTwo'
    BY <1>4, Fewer DEF Typed, AfterStop, Idle, Controls, Active, Flying, Requests
  <2>3. Booleans'
    BY <1>4, Zenon DEF Booleans, AfterStop, Idle, Controls
  <2>4. Running'
    BY <1>4 DEF Running, AfterStop, Idle, Controls, Typed, Waits, Current
  <2>5. Holding'
    BY <1>4 DEF Holding, AfterStop, Idle, Controls, Typed, Running, Current, Waits
  <2>6. Owed'
    BY <1>4 DEF Owed, AfterStop, Idle, Controls, Typed, Running, Holding, Current, Runs
  <2>7. InTurn'
    BY <1>4 DEF InTurn, AfterStop, Idle, Controls, Typed, Requests
  <2> QED BY <2>1, <2>2, <2>3, <2>4, <2>5, <2>6, <2>7
<1>5. ASSUME NEW h \in Handlers, HistoryFails(h)
      PROVE  Inv'
  <2>1. Typed'
    BY <1>5 DEF Typed, HistoryFails, Idle, Modes, Flying, Runs, Requests, Current
  <2>2. AtMostTwo'
    BY <1>5, Fewer DEF Typed, HistoryFails, Idle, Controls, Active, Flying, Requests
  <2>3. Booleans'
    BY <1>5, Zenon DEF Booleans, HistoryFails, Idle, Controls
  <2>4. Running'
    BY <1>5 DEF Running, HistoryFails, Idle, Controls, Typed, Waits, Current
  <2>5. Holding'
    BY <1>5 DEF Holding, HistoryFails, Idle, Controls, Typed, Running, Current, Waits
  <2>6. Owed'
    BY <1>5 DEF Owed, HistoryFails, Idle, Controls, Typed, Running, Holding, Current, Runs
  <2>7. InTurn'
    BY <1>5 DEF InTurn, HistoryFails, Idle, Controls, Typed, Requests
  <2> QED BY <2>1, <2>2, <2>3, <2>4, <2>5, <2>6, <2>7
<1>6. ASSUME NEW h \in Handlers, Loaded(h)
      PROVE  Inv'
  <2>1. Typed'
    BY <1>6 DEF Typed, Loaded, Idle, Modes, Flying, Runs, Requests, Current
  <2>2. AtMostTwo'
    BY <1>6, Fewer DEF Typed, Loaded, Idle, Controls, Active, Flying, Requests
  <2>3. Booleans'
    BY <1>6, Zenon DEF Booleans, Loaded, Idle, Controls
  <2>4. Running'
    BY <1>6 DEF Running, Loaded, Idle, Controls, Typed, Waits, Current
  <2>5. Holding'
    BY <1>6 DEF Holding, Loaded, Idle, Controls, Typed, Running, Current, Waits
  <2>6. Owed'
    BY <1>6 DEF Owed, Loaded, Idle, Controls, Typed, Running, Holding, Current, Runs
  <2>7. InTurn'
    BY <1>6 DEF InTurn, Loaded, Idle, Controls, Typed, Requests
  <2> QED BY <2>1, <2>2, <2>3, <2>4, <2>5, <2>6, <2>7
<1>7. CASE Start
  <2>1. Typed'
    BY <1>7 DEF Typed, Start, NoneResumes, Modes, Flying, Runs, Requests, Current
  <2>2. AtMostTwo'
    BY <1>7, Fewer DEF Typed, Start, Controls, NoneResumes, Active, Flying, Requests
  <2>3. Booleans'
    BY <1>7, Zenon DEF Booleans, Start, Controls, NoneResumes
  <2>4. Running'
    BY <1>7 DEF Running, Start, Controls, NoneResumes, Typed, Waits, Current
  <2>5. Holding'
    BY <1>7 DEF Holding, Start, Controls, NoneResumes, Typed, Running, Current, Waits
  <2>6. Owed'
    BY <1>7 DEF Owed, Start, Controls, NoneResumes, Typed, Running, Holding, Current, Runs
  <2>7. InTurn'
    BY <1>7 DEF InTurn, Start, Controls, NoneResumes, Typed, Requests
  <2> QED BY <2>1, <2>2, <2>3, <2>4, <2>5, <2>6, <2>7
<1>8. CASE Created
  <2>1. Typed'
    BY <1>8 DEF Typed, Created, Drain, Running, Modes, Flying, Runs, Requests, Current
  <2>2. AtMostTwo'
    BY <1>8, Fewer DEF Typed, Created, Drain, Controls, Active, Flying, Requests
  <2>3. Booleans'
    BY <1>8, Zenon DEF Booleans, Created, Drain, Controls
  <2>4. Running'
    BY <1>8 DEF Running, Created, Drain, Controls, Typed, Waits, Current
  <2>5. Holding'
    BY <1>8 DEF Holding, Created, Drain, Controls, Typed, Running, Current, Waits
  <2>6. Owed'
    BY <1>8 DEF Owed, Created, Drain, Controls, Typed, Running, Holding, Current, Runs
  <2>7. InTurn'
    BY <1>8 DEF InTurn, Created, Drain, Controls, Typed, Requests
  <2> QED BY <2>1, <2>2, <2>3, <2>4, <2>5, <2>6, <2>7
<1>9. CASE CreateFails
  <2>1. Typed'
    BY <1>9 DEF Typed, CreateFails, Drain, Modes, Flying, Runs, Requests, Current
  <2>2. AtMostTwo'
    BY <1>9, Fewer DEF Typed, CreateFails, Drain, Active, Flying, Requests
  <2>3. Booleans'
    BY <1>9, Zenon DEF Booleans, CreateFails, Drain
  <2>4. Running'
    BY <1>9 DEF Running, CreateFails, Drain, Typed, Waits, Current
  <2>5. Holding'
    BY <1>9 DEF Holding, CreateFails, Drain, Typed, Running, Current, Waits
  <2>6. Owed'
    BY <1>9 DEF Owed, CreateFails, Drain, Typed, Running, Holding, Current, Runs
  <2>7. InTurn'
    BY <1>9 DEF InTurn, CreateFails, Drain, Typed, Requests
  <2> QED BY <2>1, <2>2, <2>3, <2>4, <2>5, <2>6, <2>7
<1>10. CASE Loop
  <2>1. Typed'
    BY <1>10 DEF Typed, Loop, LeaveLoop, Drain, Modes, Flying, Runs, Requests, Current
  <2>2. AtMostTwo'
    BY <1>10, Fewer DEF Typed, Loop, LeaveLoop, Drain, Active, Flying, Requests
  <2>3. Booleans'
    BY <1>10, Zenon DEF Booleans, Loop, LeaveLoop, Drain
  <2>4. Running'
    BY <1>10 DEF Running, Loop, LeaveLoop, Drain, Typed, Waits, Current
  <2>5. Holding'
    BY <1>10 DEF Holding, Loop, LeaveLoop, Drain, Typed, Running, Current, Waits
  <2>6. Owed'
    BY <1>10 DEF Owed, Loop, LeaveLoop, Drain, Typed, Running, Holding, Current, Runs
  <2>7. InTurn'
    BY <1>10 DEF InTurn, Loop, LeaveLoop, Drain, Typed, Requests
  <2> QED BY <2>1, <2>2, <2>3, <2>4, <2>5, <2>6, <2>7
<1>11. CASE OfflineFrame
  <2>1. Typed'
    BY <1>11 DEF Typed, OfflineFrame, Drain, Modes, Flying, Runs, Requests, Current
  <2>2. AtMostTwo'
    BY <1>11, Fewer DEF Typed, OfflineFrame, Drain, Active, Flying, Requests
  <2>3. Booleans'
    BY <1>11, Zenon DEF Booleans, OfflineFrame, Drain
  <2>4. Running'
    BY <1>11 DEF Running, OfflineFrame, Drain, Typed, Waits, Current
  <2>5. Holding'
    BY <1>11 DEF Holding, OfflineFrame, Drain, Typed, Running, Current, Waits
  <2>6. Owed'
    BY <1>11 DEF Owed, OfflineFrame, Drain, Typed, Running, Holding, Current, Runs
  <2>7. InTurn'
    BY <1>11 DEF InTurn, OfflineFrame, Drain, Typed, Requests
  <2> QED BY <2>1, <2>2, <2>3, <2>4, <2>5, <2>6, <2>7
<1>12. ASSUME NEW i \in Requests, TakeOutcome(i)
      PROVE  Inv'
  <2>1. Typed'
    BY <1>12 DEF Typed, TakeOutcome, Turn, Drain, Modes, Flying, Runs, Requests, Current
  <2>2. AtMostTwo'
    BY <1>12, Fewer DEF Typed, TakeOutcome, Turn, Drain, Active, Flying, Requests
  <2>3. Booleans'
    BY <1>12, Zenon DEF Booleans, TakeOutcome, Turn, Drain
  <2>4. Running'
    BY <1>12 DEF Running, TakeOutcome, Turn, Drain, Typed, Waits, Current
  <2>5. Holding'
    BY <1>12 DEF Holding, TakeOutcome, Turn, Drain, Typed, Running, Current, Waits
  <2>6. Owed'
    BY <1>12 DEF Owed, TakeOutcome, Turn, Drain, Typed, Running, Holding, Current, Runs
  <2>7. InTurn'
    BY <1>12 DEF InTurn, TakeOutcome, Turn, Drain, Typed, Requests
  <2> QED BY <2>1, <2>2, <2>3, <2>4, <2>5, <2>6, <2>7
<1>13. CASE Finished
  <2>1. Typed'
    <3>1. server' \subseteq server /\ session' \in {session, 0}
      BY <1>13 DEF Finished, Finish
    <3> QED BY <1>13, <3>1 DEF Typed, Finished, Drain
  <2>2. AtMostTwo'
    BY <1>13, Fewer DEF Typed, Finished, Finish, Drain, Controls, Active, Flying, Requests
  <2>3. Booleans'
    BY <1>13, Zenon DEF Booleans, Finished, Finish, Drain, Controls
  <2>4. Running'
    BY <1>13 DEF Running, Finished, Finish, Drain, Controls, Typed, Waits, Current
  <2>5. Holding'
    BY <1>13 DEF Holding, Finished, Finish, Drain, Controls, Typed, Running, Current, Waits
  <2>6. Owed'
    <3>1. session = run /\ server' \subseteq server
      BY <1>13 DEF Finished, Finish, Holding
    <3>2. CASE session' = session
      BY <1>13, <3>1, <3>2 DEF Owed, Finished, Drain
    <3>3. CASE session' # session
      <4>1. server' = server \ {run}
        BY <1>13, <3>3 DEF Finished, Finish
      <4> QED BY <1>13, <3>1, <4>1 DEF Owed, Finished, Drain
    <3> QED BY <3>2, <3>3
  <2>7. InTurn'
    BY <1>13 DEF InTurn, Finished, Finish, Drain, Controls, Typed, Requests
  <2> QED BY <2>1, <2>2, <2>3, <2>4, <2>5, <2>6, <2>7
<1>14. CASE Drained
  <2>1. Typed'
    <3>1. task' \in {task, 0} /\ session' \in {session, 0}
      BY <1>14 DEF Drained, EndRun
    <3> QED BY <1>14, <3>1 DEF Typed, Drained, EndRun
  <2>2. AtMostTwo'
    BY <1>14, Fewer DEF Typed, Drained, EndRun, Controls, Active, Flying, Requests
  <2>3. Booleans'
    BY <1>14, Zenon DEF Booleans, Drained, EndRun, Controls
  <2>4. Running'
    BY <1>14 DEF Running, Drained, EndRun, Controls, Typed, Waits, Current
  <2>5. Holding'
    BY <1>14 DEF Holding, Drained, EndRun, Controls, Typed, Running, Current, Waits
  <2>6. Owed'
    BY <1>14 DEF Owed, Drained, EndRun, Controls, Typed, Running, Holding, Current, Runs
  <2>7. InTurn'
    BY <1>14 DEF InTurn, Drained, EndRun, Controls, Typed, Requests
  <2> QED BY <2>1, <2>2, <2>3, <2>4, <2>5, <2>6, <2>7
<1>15. CASE FinishedAnyway
  <2>1. Typed'
    BY <1>15 DEF Typed, FinishedAnyway, Finish, EndRun, Modes, Flying, Runs, Requests, Current
  <2>2. AtMostTwo'
    BY <1>15, Fewer DEF Typed, FinishedAnyway, Finish, EndRun, Controls, Active, Flying, Requests
  <2>3. Booleans'
    BY <1>15, Zenon DEF Booleans, FinishedAnyway, Finish, EndRun, Controls
  <2>4. Running'
    BY <1>15 DEF Running, FinishedAnyway, Finish, EndRun, Controls, Typed, Waits, Current
  <2>5. Holding'
    BY <1>15 DEF Holding, FinishedAnyway, Finish, EndRun, Controls, Typed, Running, Current, Waits
  <2>6. Owed'
    BY <1>15 DEF Owed, FinishedAnyway, Finish, EndRun, Controls, Typed, Running, Holding, Current, Runs
  <2>7. InTurn'
    BY <1>15 DEF InTurn, FinishedAnyway, Finish, EndRun, Controls, Typed, Requests
  <2> QED BY <2>1, <2>2, <2>3, <2>4, <2>5, <2>6, <2>7
<1>16. CASE ProducerEnds
  <2>1. Typed'
    BY <1>16 DEF Typed, ProducerEnds, Modes, Flying, Runs, Requests, Current
  <2>2. AtMostTwo'
    BY <1>16, Fewer DEF Typed, ProducerEnds, Active, Flying, Requests
  <2>3. Booleans'
    BY <1>16, Zenon DEF Booleans, ProducerEnds
  <2>4. Running'
    BY <1>16 DEF Running, ProducerEnds, Typed, Waits, Current
  <2>5. Holding'
    BY <1>16 DEF Holding, ProducerEnds, Typed, Running, Current, Waits
  <2>6. Owed'
    BY <1>16 DEF Owed, ProducerEnds, Typed, Running, Holding, Current, Runs
  <2>7. InTurn'
    BY <1>16 DEF InTurn, ProducerEnds, Typed, Requests
  <2> QED BY <2>1, <2>2, <2>3, <2>4, <2>5, <2>6, <2>7
<1>17. CASE Dispatch
  <2>1. Typed'
    BY <1>17 DEF Typed, Dispatch, HasCapacity, Wake, Modes, Flying, Runs, Requests, Current
  <2>2. AtMostTwo'
    <3>1. Active' = Active \cup {sent + 1}
      BY <1>17 DEF Typed, Dispatch, Active, Flying, Requests
    <3>2. IsFiniteSet(Active) /\ Cardinality(Active) \in Nat /\ Cardinality(Active) < 2
      BY <1>17, ActiveIsFinite, FS_CardinalityType DEF Dispatch, HasCapacity
    <3> QED BY <3>1, <3>2, FS_AddElement DEF AtMostTwo
  <2>3. Booleans'
    BY <1>17, Zenon DEF Booleans, Dispatch, HasCapacity, Wake
  <2>4. Running'
    BY <1>17 DEF Running, Dispatch, HasCapacity, Wake, Typed, Waits, Current
  <2>5. Holding'
    BY <1>17 DEF Holding, Dispatch, HasCapacity, Wake, Typed, Running, Current, Waits
  <2>6. Owed'
    BY <1>17 DEF Owed, Dispatch, HasCapacity, Wake, Typed, Running, Holding, Current, Runs
  <2>7. InTurn'
    BY <1>17 DEF InTurn, Dispatch, HasCapacity, Wake, Typed, Requests
  <2> QED BY <2>1, <2>2, <2>3, <2>4, <2>5, <2>6, <2>7
<1>18. CASE AwaitCapacity
  <2>1. Typed'
    BY <1>18 DEF Typed, AwaitCapacity, Modes, Flying, Runs, Requests, Current
  <2>2. AtMostTwo'
    BY <1>18, Fewer DEF Typed, AwaitCapacity, Active, Flying, Requests
  <2>3. Booleans'
    BY <1>18, Zenon DEF Booleans, AwaitCapacity
  <2>4. Running'
    BY <1>18 DEF Running, AwaitCapacity, Typed, Waits, Current
  <2>5. Holding'
    BY <1>18 DEF Holding, AwaitCapacity, Typed, Running, Current, Waits
  <2>6. Owed'
    BY <1>18 DEF Owed, AwaitCapacity, Typed, Running, Holding, Current, Runs
  <2>7. InTurn'
    BY <1>18 DEF InTurn, AwaitCapacity, Typed, Requests
  <2> QED BY <2>1, <2>2, <2>3, <2>4, <2>5, <2>6, <2>7
<1>19. CASE DispatchEnds
  <2>1. Typed'
    BY <1>19 DEF Typed, DispatchEnds, Wake, Modes, Flying, Runs, Requests, Current
  <2>2. AtMostTwo'
    BY <1>19, Fewer DEF Typed, DispatchEnds, Wake, Active, Flying, Requests
  <2>3. Booleans'
    BY <1>19, Zenon DEF Booleans, DispatchEnds, Wake
  <2>4. Running'
    BY <1>19 DEF Running, DispatchEnds, Wake, Typed, Waits, Current
  <2>5. Holding'
    BY <1>19 DEF Holding, DispatchEnds, Wake, Typed, Running, Current, Waits
  <2>6. Owed'
    BY <1>19 DEF Owed, DispatchEnds, Wake, Typed, Running, Holding, Current, Runs
  <2>7. InTurn'
    BY <1>19 DEF InTurn, DispatchEnds, Wake, Typed, Requests
  <2> QED BY <2>1, <2>2, <2>3, <2>4, <2>5, <2>6, <2>7
<1>20. ASSUME NEW i \in Requests, Serve(i)
      PROVE  Inv'
  <2>1. Typed'
    <3>1. PICK reply \in {"faces", "plain", "busy", "failed"} : rq' = [rq EXCEPT ![i] = reply]
      BY <1>20 DEF Serve
    <3> QED BY <1>20, <3>1 DEF Typed, Serve, Flying, Requests
  <2>2. AtMostTwo'
    BY <1>20, Fewer DEF Typed, Serve, Active, Flying, Requests
  <2>3. Booleans'
    BY <1>20, Zenon DEF Booleans, Serve
  <2>4. Running'
    BY <1>20 DEF Running, Serve, Typed, Waits, Current
  <2>5. Holding'
    BY <1>20 DEF Holding, Serve, Typed, Running, Current, Waits
  <2>6. Owed'
    BY <1>20 DEF Owed, Serve, Typed, Running, Holding, Current, Runs
  <2>7. InTurn'
    BY <1>20 DEF InTurn, Serve, Typed, Requests
  <2> QED BY <2>1, <2>2, <2>3, <2>4, <2>5, <2>6, <2>7
<1>21. ASSUME NEW i \in Requests, Settle(i)
      PROVE  Inv'
  <2>1. Typed'
    BY <1>21 DEF Typed, Settle, Modes, Flying, Runs, Requests, Current
  <2>2. AtMostTwo'
    BY <1>21, Fewer DEF Typed, Settle, Active, Flying, Requests
  <2>3. Booleans'
    BY <1>21, Zenon DEF Booleans, Settle
  <2>4. Running'
    BY <1>21 DEF Running, Settle, Typed, Waits, Current
  <2>5. Holding'
    BY <1>21 DEF Holding, Settle, Typed, Running, Current, Waits
  <2>6. Owed'
    BY <1>21 DEF Owed, Settle, Typed, Running, Holding, Current, Runs
  <2>7. InTurn'
    BY <1>21 DEF InTurn, Settle, Typed, Requests
  <2> QED BY <2>1, <2>2, <2>3, <2>4, <2>5, <2>6, <2>7
<1>22. CASE UNCHANGED vars
  BY <1>22 DEF vars, Booleans, Typed, AtMostTwo, Active, Running, Holding, Owed, InTurn, Waits, Current
<1> QED
  BY <1>1, <1>2, <1>3, <1>4, <1>5, <1>6, <1>7, <1>8, <1>9, <1>10, <1>11,
     <1>12, <1>13, <1>14, <1>15, <1>16, <1>17, <1>18, <1>19, <1>20, <1>21, <1>22
     DEF Next, Interface, MainLoop, ChangeMode, StopButton, CameraGone, ChooseSource

\* The variables stay in their ranges.
THEOREM TypeOKTheorem == Spec => []TypeOK
<1>1. Inv => TypeOK
  BY DEF Inv, Typed, AtMostTwo, Booleans, TypeOK
<1> QED BY <1>1, InvInit, InvStep, PTL DEF Spec

\* When nothing goes on in the page, no session is left open.
THEOREM SessionsEndTheorem == Spec => []SessionsEnd
<1>1. Inv => SessionsEnd
  BY DEF Inv, Typed, Holding, Owed, Runs, SessionsEnd
<1> QED BY <1>1, InvInit, InvStep, PTL DEF Spec

\* What is displayed does not go back in time while a run lasts.
THEOREM ShownInOrderTheorem == Spec => ShownInOrder
<1>1. Inv /\ [Next]_vars => [run' = run => shown' >= shown]_vars
  <2> SUFFICES ASSUME Inv, Next, run' = run PROVE shown' >= shown
    BY DEF vars
  <2>1. shown \in Nat /\ shown <= shifted
    BY DEF Inv, Typed, InTurn
  <2>2. ASSUME NEW i \in Requests, TakeOutcome(i) PROVE shown' >= shown
    BY <2>1, <2>2 DEF TakeOutcome, Turn, Requests
  <2>3. CASE Drained \/ FinishedAnyway
    <3>1. ~EndRun
      BY <2>3 DEF Inv, Running, Drained, FinishedAnyway, EndRun
    <3> QED BY <2>1, <2>3, <3>1 DEF Drained, FinishedAnyway, pipe
  <2>4. ASSUME NEW h \in Handlers, Interface(h) PROVE shown' = shown
    BY <2>4 DEF Interface, ChangeMode, StopButton, CameraGone, ChooseSource, Stop, ResumeStop,
                StopFinished, AfterStop, HistoryFails, Loaded, pipe
  <2>5. CASE Start \/ ProducerEnds \/ Dispatch \/ AwaitCapacity \/ DispatchEnds
             \/ \E i \in Requests : Serve(i) \/ Settle(i)
    BY <2>1, <2>5 DEF Start, ProducerEnds, Dispatch, AwaitCapacity, DispatchEnds, Serve, Settle
  <2>6. CASE Created \/ CreateFails \/ Loop \/ OfflineFrame \/ Finished
    <3>1. shown' = shown
      BY <2>6, Zenon DEF Created, CreateFails, Loop, OfflineFrame, Finished
    <3> QED BY <2>1, <3>1
  <2> QED BY <2>1, <2>2, <2>3, <2>4, <2>5, <2>6 DEF Next, MainLoop
<1> QED BY <1>1, InvInit, InvStep, PTL DEF Spec, ShownInOrder

=============================================================================
