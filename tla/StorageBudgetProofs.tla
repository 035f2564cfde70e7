------------------------ MODULE StorageBudgetProofs ------------------------
(***************************************************************************)
(* Proofs about StorageBudget.  The arithmetic that matters is that of the *)
(* reservation: one step adds or removes one job's share of it.            *)
(***************************************************************************)
EXTENDS StorageBudget, TLAPS

USE BudgetAssumption DEF BudgetAssumption

\* The share of one job.
LEMMA Shares ==
    ASSUME NEW n \in Nat
    PROVE  /\ n * Reserve \in Nat
           /\ (n + 1) * Reserve = n * Reserve + Reserve
           /\ (n + 2) * Reserve = n * Reserve + Reserve + Reserve
           /\ n > 0 => (n - 1) * Reserve = n * Reserve - Reserve
  BY Z3

\* The reservation of fewer jobs is no larger.
LEMMA SharesMonotonic ==
    ASSUME NEW n \in Nat, NEW m \in Nat, n <= m
    PROVE  n * Reserve <= m * Reserve
  BY Z3

\* Every size stays a number, and what the queued jobs may still write stays
\* within a reservation for each of them.
THEOREM TypeCorrect == Spec => []TypeOK
<1>1. Init => TypeOK
  <2> SUFFICES ASSUME Init PROVE TypeOK
    OBVIOUS
  <2>1. queued \in 0..Cap /\ owed \in 0..(queued * Reserve)
    <3>1. queued = 0 /\ owed = 0
      BY DEF Init
    <3>2. 0 * Reserve = 0
      OBVIOUS
    <3> QED
      BY <3>1, <3>2
  <2>2. jobBytes \in Nat /\ trackBytes \in Nat /\ left \in 0..Reserve
    BY DEF Init
  <2>3. running \in BOOLEAN /\ (~running => left = 0) /\ tracked \in BOOLEAN
    BY Zenon DEF Init
  <2> QED
    BY <2>1, <2>2, <2>3, Zenon DEF TypeOK
<1>2. TypeOK /\ [Next]_vars => TypeOK'
  <2> SUFFICES ASSUME TypeOK, [Next]_vars PROVE TypeOK'
    OBVIOUS
  <2> USE DEF TypeOK
  <2>0. /\ queued * Reserve \in Nat
        /\ (queued + 1) * Reserve = queued * Reserve + Reserve
        /\ queued > 0 => (queued - 1) * Reserve = queued * Reserve - Reserve
    BY Shares
  <2>1. ASSUME NEW n \in 0..Reserve, Submit(n) PROVE TypeOK'
    BY <2>0, <2>1 DEF Submit
  <2>2. ASSUME NEW n \in 0..Reserve, StartJob(n) PROVE TypeOK'
    BY <2>0, <2>2 DEF StartJob
  <2>3. ASSUME NEW n \in 0..Reserve, WriteResult(n) PROVE TypeOK'
    BY <2>3 DEF WriteResult
  <2>4. CASE EndJob
    <3>1. left' \in 0..Reserve
      BY <2>4 DEF EndJob
    <3>2. running' \in BOOLEAN /\ (~running' => left' = 0)
      BY <2>4, Zenon DEF EndJob
    <3> QED
      BY <2>4, <3>1, <3>2, Zenon DEF EndJob
  <2>5. ASSUME NEW a \in {Frame, Pose}, NEW n \in 0..(Frame + Pose), GrowTrack(a, n)
        PROVE TypeOK'
    BY <2>5 DEF GrowTrack
  <2>6. ASSUME NEW n \in 0..trackBytes, DropTrack(n) PROVE TypeOK'
    BY <2>6 DEF DropTrack
  <2>7. CASE UNCHANGED vars
    BY <2>7 DEF vars
  <2> QED
    BY <2>1, <2>2, <2>3, <2>4, <2>5, <2>6, <2>7 DEF Next
<1> QED
  BY <1>1, <1>2, PTL DEF Spec

\* As long as no track grows, what jobs were promised is there: a job admitted by
\* submit can always write its result within the budget.
THEOREM PromisesAreKept == Spec => []ReservationKept
<1>1. Init => ReservationKept
  BY DEF Init, ReservationKept, used
<1>2. TypeOK /\ ReservationKept /\ [Next]_vars => ReservationKept'
  <2> SUFFICES ASSUME TypeOK, ReservationKept, [Next]_vars PROVE ReservationKept'
    OBVIOUS
  <2> USE DEF TypeOK, ReservationKept, used
  <2>1. ASSUME NEW n \in 0..Reserve, Submit(n) PROVE ReservationKept'
    <3>1. /\ queued * Reserve \in Nat
          /\ (queued + 2) * Reserve = queued * Reserve + Reserve + Reserve
      BY Shares
    <3> QED
      BY <2>1, <3>1 DEF Submit, Fits
  <2>2. ASSUME NEW n \in 0..Reserve, StartJob(n) PROVE ReservationKept'
    <3>1. owed \in Nat /\ left = 0
      BY <2>2, Shares DEF StartJob
    <3> QED
      BY <2>2, <3>1 DEF StartJob
  <2>3. ASSUME NEW n \in 0..Reserve, WriteResult(n) PROVE ReservationKept'
    BY <2>3, Shares DEF WriteResult
  <2>4. CASE EndJob
    BY <2>4, Shares DEF EndJob
  <2>5. ASSUME NEW a \in {Frame, Pose}, NEW n \in 0..(Frame + Pose), GrowTrack(a, n)
        PROVE ReservationKept'
    BY <2>5 DEF GrowTrack
  <2>6. ASSUME NEW n \in 0..trackBytes, DropTrack(n) PROVE ReservationKept'
    BY <2>6, Shares DEF DropTrack
  <2>7. CASE UNCHANGED vars
    BY <2>7 DEF vars
  <2> QED
    BY <2>1, <2>2, <2>3, <2>4, <2>5, <2>6, <2>7 DEF Next
<1> QED
  BY <1>1, <1>2, TypeCorrect, PTL DEF Spec

\* However tracking is used, the data directory misses the budget by no more
\* than the reservations of the jobs that can be pending at once.
THEOREM SlipIsBounded == Spec => []SlipBounded
<1>0. (Cap + 1) * Reserve = Cap * Reserve + Reserve /\ Cap * Reserve \in Nat
  BY Shares
<1>1. Init => SlipBounded
  BY <1>0 DEF Init, SlipBounded, used
<1>2. TypeOK /\ SlipBounded /\ [Next]_vars => SlipBounded'
  <2> SUFFICES ASSUME TypeOK, SlipBounded, [Next]_vars PROVE SlipBounded'
    OBVIOUS
  <2> USE <1>0 DEF TypeOK, SlipBounded, used
  <2>0. /\ queued * Reserve \in Nat
        /\ queued * Reserve <= Cap * Reserve
        /\ (queued + 2) * Reserve = queued * Reserve + Reserve + Reserve
    BY Shares, SharesMonotonic
  <2>1. ASSUME NEW n \in 0..Reserve, Submit(n) PROVE SlipBounded'
    BY <2>0, <2>1 DEF Submit, Fits
  <2>2. ASSUME NEW n \in 0..Reserve, StartJob(n) PROVE SlipBounded'
    BY <2>0, <2>2 DEF StartJob
  <2>3. ASSUME NEW n \in 0..Reserve, WriteResult(n) PROVE SlipBounded'
    BY <2>0, <2>3 DEF WriteResult
  <2>4. CASE EndJob
    BY <2>0, <2>4 DEF EndJob
  <2>5. ASSUME NEW a \in {Frame, Pose}, NEW n \in 0..(Frame + Pose), GrowTrack(a, n)
        PROVE SlipBounded'
    BY <2>0, <2>5 DEF GrowTrack
  <2>6. ASSUME NEW n \in 0..trackBytes, DropTrack(n) PROVE SlipBounded'
    BY <2>0, <2>6 DEF DropTrack
  <2>7. CASE UNCHANGED vars
    BY <2>7 DEF vars
  <2> QED
    BY <2>1, <2>2, <2>3, <2>4, <2>5, <2>6, <2>7 DEF Next
<1> QED
  BY <1>1, <1>2, TypeCorrect, PTL DEF Spec

=============================================================================
