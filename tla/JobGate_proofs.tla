---------------------------- MODULE JobGate_proofs ----------------------------
(***************************************************************************)
(* The safety of the heavy-job gate for every finite set of launches and   *)
(* every set of other jobs. Together with TypeOK the four properties the    *)
(* runs check are inductive, once SleeperHasWaker also speaks of a caller   *)
(* that is about to call notified().                                       *)
(***************************************************************************)
EXTENDS JobGate, FiniteSetTheorems, TLAPS

QueuedLaunches == {t \in Launches : pc[t] \in Queued}

Working == {"work", "release"}

(* SleeperHasWaker, from the moment the closed gate was seen.              *)
WaiterHasWaker ==
  \A t \in Callers : pc[t] \in {"register", "asleep"} =>
    \/ \E u \in Callers : pc[u] \in Working
    \/ t \in Others /\ \E l \in Launches : pc[l] \in Queued
    \/ t \in missed

-----------------------------------------------------------------------------
(* What a caller does to the gate keeps active one of the kinds, the count *)
(* a number and each caller at a place of run_instance_job.                *)
LEMMA CallerKeepsTypes ==
  ASSUME TypeOK, NEW t \in Callers,
         ArriveLaunch(t) \/ ArriveOther(t) \/ Step(t) \/ Finish(t)
  PROVE  TypeOK'
<1> USE DEF TypeOK, Queued, Move
<1>1. CASE ArriveLaunch(t) \/ ArriveOther(t)
  BY <1>1 DEF ArriveLaunch, ArriveOther
<1>2. CASE Step(t)
  <2>1. Enter(t) => TypeOK'
    BY DEF Enter, KindOf
  <2>2. Release(t) => TypeOK'
    BY DEF Release
  <2>3. Check(t) \/ Sleep(t) => TypeOK'
    BY DEF Check, Sleep
  <2>4. QED
    BY <1>2, <2>1, <2>2, <2>3 DEF Step
<1>3. CASE Finish(t)
  BY <1>3 DEF Finish
<1>4. QED
  BY <1>1, <1>2, <1>3

(* Every reachable state of the gate is well typed.                        *)
THEOREM GateTypeCorrect == Spec => []TypeOK
<1>1. TypeOK /\ [Next]_vars => TypeOK'
  <2>1. TypeOK /\ Next => TypeOK'
    BY CallerKeepsTypes DEF Next
  <2>2. TypeOK /\ vars' = vars => TypeOK'
    BY DEF TypeOK, vars
  <2>3. QED
    BY <2>1, <2>2
<1>2. ASSUME Init
      PROVE  TypeOK
  BY <1>2 DEF Init, TypeOK, Queued
<1>3. QED
  BY <1>1, <1>2, PTL DEF Spec

-----------------------------------------------------------------------------
(* The queued launches are finitely many, and one more or one fewer of them *)
(* is counted as one.                                                      *)
LEMMA QueuedLaunchesFinite ==
  ASSUME TypeOK
  PROVE  /\ IsFiniteSet(QueuedLaunches)
         /\ Cardinality(QueuedLaunches) \in Nat
<1>1. QueuedLaunches \subseteq Launches
  BY DEF QueuedLaunches
<1>2. IsFiniteSet(QueuedLaunches)
  BY <1>1, CallersAssumption, FS_Subset
<1>3. QED
  BY <1>2, FS_CardinalityType

(* A count of zero means that no launch is queued.                         *)
LEMMA NoCountNoLaunch ==
  ASSUME TypeOK, LaunchesCounted, NEW l \in Launches, pc[l] \in Queued
  PROVE  waitingLaunches > 0
<1>1. l \in QueuedLaunches
  BY DEF QueuedLaunches
<1>2. Cardinality(QueuedLaunches) # 0
  BY <1>1, QueuedLaunchesFinite, FS_EmptySet
<1>3. QED
  BY <1>2, QueuedLaunchesFinite DEF LaunchesCounted, QueuedLaunches

(* A positive count means that a launch is queued.                         *)
LEMMA CountMeansLaunch ==
  ASSUME TypeOK, LaunchesCounted, waitingLaunches > 0
  PROVE  \E l \in Launches : pc[l] \in Queued
<1>1. Cardinality(QueuedLaunches) # 0
  BY QueuedLaunchesFinite DEF LaunchesCounted, QueuedLaunches
<1>2. QueuedLaunches # {}
  BY <1>1, FS_EmptySet
<1>3. QED
  BY <1>2 DEF QueuedLaunches

(* Only an arriving and an entering launch move the count, and they move   *)
(* the set of queued launches by themselves.                               *)
LEMMA CountStep ==
  ASSUME TypeOK, LaunchesCounted, [Next]_vars
  PROVE  LaunchesCounted'
<1> USE DEF TypeOK, Move
<1>1. ASSUME NEW t \in Callers, ArriveLaunch(t)
      PROVE  LaunchesCounted'
  <2>1. QueuedLaunches' = QueuedLaunches \cup {t} /\ t \notin QueuedLaunches
    BY <1>1 DEF ArriveLaunch, QueuedLaunches, Queued, Callers
  <2>2. Cardinality(QueuedLaunches') = Cardinality(QueuedLaunches) + 1
    BY <2>1, QueuedLaunchesFinite, FS_AddElement
  <2>3. QED
    BY <1>1, <2>2 DEF ArriveLaunch, LaunchesCounted, QueuedLaunches
<1>2. ASSUME NEW t \in Callers, Enter(t)
      PROVE  LaunchesCounted'
  <2>1. CASE t \in Launches
    <3>1. QueuedLaunches' = QueuedLaunches \ {t} /\ t \in QueuedLaunches
      BY <1>2, <2>1 DEF Enter, QueuedLaunches, Queued, Callers
    <3>2. Cardinality(QueuedLaunches') = Cardinality(QueuedLaunches) - 1
      BY <3>1, QueuedLaunchesFinite, FS_RemoveElement
    <3>3. waitingLaunches > 0
      BY <2>1, <3>1, NoCountNoLaunch DEF QueuedLaunches
    <3>4. QED
      BY <1>2, <2>1, <3>2, <3>3 DEF Enter, LaunchesCounted, QueuedLaunches
  <2>2. CASE t \notin Launches
    <3>1. QueuedLaunches' = QueuedLaunches
      BY <1>2, <2>2 DEF Enter, QueuedLaunches, Queued, Callers
    <3>2. QED
      BY <1>2, <2>2, <3>1 DEF Enter, LaunchesCounted, QueuedLaunches
  <2>3. QED
    BY <2>1, <2>2
<1>3. ASSUME NEW t \in Callers, ArriveOther(t) \/ Check(t) \/ Sleep(t) \/ Finish(t) \/ Release(t)
      PROVE  LaunchesCounted'
  <2>1. QueuedLaunches' = QueuedLaunches
    BY <1>3, CallersAssumption
    DEF ArriveOther, Check, Sleep, Finish, Release, QueuedLaunches, Queued, Callers
  <2>2. waitingLaunches' = waitingLaunches
    BY <1>3 DEF ArriveOther, Check, Sleep, Finish, Release
  <2>3. QED
    BY <2>1, <2>2 DEF LaunchesCounted, QueuedLaunches
<1>4. CASE UNCHANGED vars
  BY <1>4 DEF vars, LaunchesCounted
<1>5. QED
  BY <1>1, <1>2, <1>3, <1>4 DEF Next, Step

(* waiting_launches is exactly the number of queued launches, in JobGate's *)
(* acquire and wait_for_turn, however many call it.                        *)
THEOREM LaunchesAreCounted == Spec => []LaunchesCounted
<1>1. Init => LaunchesCounted
  <2> SUFFICES ASSUME Init
               PROVE  LaunchesCounted
    OBVIOUS
  <2>1. {t \in Launches : pc[t] \in Queued} = {}
    BY DEF Init, Queued, Callers
  <2>2. QED
    BY <2>1, FS_EmptySet DEF Init, LaunchesCounted
<1>2. TypeOK /\ LaunchesCounted /\ [Next]_vars => LaunchesCounted'
  BY CountStep
<1>3. QED
  BY <1>1, <1>2, GateTypeCorrect, PTL DEF Spec
-----------------------------------------------------------------------------
(* A gate that is closed has a caller in the work or one whose permit has   *)
(* dropped and whose release is on its way.                                *)
LEMMA ClosedStep ==
  ASSUME TypeOK, NeverStuckClosed, [Next]_vars
  PROVE  NeverStuckClosed'
<1> USE DEF TypeOK, Move, NeverStuckClosed
<1>1. ASSUME NEW t \in Callers, Enter(t)
      PROVE  NeverStuckClosed'
  BY <1>1 DEF Enter
<1>2. ASSUME NEW t \in Callers, Release(t)
      PROVE  NeverStuckClosed'
  BY <1>2 DEF Release
<1>3. ASSUME NEW t \in Callers,
             ArriveLaunch(t) \/ ArriveOther(t) \/ Check(t) \/ Sleep(t) \/ Finish(t)
      PROVE  NeverStuckClosed'
  <2>1. active' = active
    BY <1>3 DEF ArriveLaunch, ArriveOther, Check, Sleep, Finish
  <2>2. \A u \in Callers : pc[u] \in {"work", "release"} => pc'[u] \in {"work", "release"}
    BY <1>3 DEF ArriveLaunch, ArriveOther, Check, Sleep, Finish
  <2>3. QED
    BY <2>1, <2>2
<1>4. CASE UNCHANGED vars
  BY <1>4 DEF vars
<1>5. QED
  BY <1>1, <1>2, <1>3, <1>4 DEF Next, Step

(* run_instance_job never leaves the gate closed with nobody to open it.   *)
THEOREM GateNeverStuckClosed == Spec => []NeverStuckClosed
<1>1. Init => NeverStuckClosed
  BY DEF Init, NeverStuckClosed
<1>2. TypeOK /\ NeverStuckClosed /\ [Next]_vars => NeverStuckClosed'
  BY ClosedStep
<1>3. QED
  BY <1>1, <1>2, GateTypeCorrect, PTL DEF Spec

-----------------------------------------------------------------------------
(* An install passes its check only when no launch is counted, so whoever   *)
(* is in front of a queued launch was there when the launch arrived.       *)
LEMMA OvertakingStep ==
  ASSUME TypeOK, LaunchesCounted, NoNewOvertaking, [Next]_vars
  PROVE  NoNewOvertaking'
<1> USE CallersAssumption DEF TypeOK, Move, NoNewOvertaking, Queued, Callers
<1>1. ASSUME NEW t \in Callers, ArriveLaunch(t)
      PROVE  NoNewOvertaking'
  BY <1>1 DEF ArriveLaunch
<1>2. ASSUME NEW t \in Callers, Check(t)
      PROVE  NoNewOvertaking'
  <2>1. CASE MustWait(t)
    BY <1>2, <2>1 DEF Check
  <2>2. CASE ~MustWait(t)
    <3>1. t \in Others => \A l \in Launches : pc[l] \notin Queued
      BY <2>2, NoCountNoLaunch DEF MustWait
    <3>2. pc' = [pc EXCEPT ![t] = "admitted"] /\ pc[t] = "check" /\ early' = early
      BY <1>2, <2>2 DEF Check
    <3>3. QED
      BY <3>1, <3>2
  <2>3. QED
    BY <2>1, <2>2
<1>3. ASSUME NEW t \in Callers, ArriveOther(t) \/ Sleep(t) \/ Enter(t) \/ Finish(t)
      PROVE  NoNewOvertaking'
  BY <1>3 DEF ArriveOther, Sleep, Enter, Finish
<1>4. ASSUME NEW t \in Callers, Release(t)
      PROVE  NoNewOvertaking'
  BY <1>4 DEF Release
<1>5. CASE UNCHANGED vars
  BY <1>5 DEF vars
<1>6. QED
  BY <1>1, <1>2, <1>3, <1>4, <1>5 DEF Next, Step

(* Launches have priority: wait_for_turn lets no install past its check     *)
(* while a launch waits.                                                   *)
THEOREM LaunchesArePreferred == Spec => []NoNewOvertaking
<1>1. Init => NoNewOvertaking
  BY CallersAssumption DEF Init, NoNewOvertaking, Queued, Callers
<1>2. TypeOK /\ LaunchesCounted /\ NoNewOvertaking /\ [Next]_vars => NoNewOvertaking'
  BY OvertakingStep
<1>3. QED
  BY <1>1, <1>2, GateTypeCorrect, LaunchesAreCounted, PTL DEF Spec

-----------------------------------------------------------------------------
(* A caller that saw a closed gate keeps a waker until it is woken, unless  *)
(* a release goes by before it has registered.                             *)
LEMMA WakerStep ==
  ASSUME TypeOK, LaunchesCounted, NeverStuckClosed, WaiterHasWaker, [Next]_vars
  PROVE  WaiterHasWaker'
<1> USE CallersAssumption DEF TypeOK, Move, WaiterHasWaker, Working, Queued, Callers
<1>1. ASSUME NEW t \in Callers, ArriveLaunch(t) \/ ArriveOther(t) \/ Sleep(t) \/ Finish(t)
      PROVE  WaiterHasWaker'
  BY <1>1 DEF ArriveLaunch, ArriveOther, Sleep, Finish
<1>2. ASSUME NEW t \in Callers, Check(t)
      PROVE  WaiterHasWaker'
  <2>1. CASE MustWait(t)
    <3>1. \/ \E u \in Callers : pc[u] \in Working
          \/ t \in Others /\ \E l \in Launches : pc[l] \in Queued
      BY <2>1, CountMeansLaunch DEF MustWait, NeverStuckClosed
    <3>2. pc' = [pc EXCEPT ![t] = "register"] /\ pc[t] = "check" /\ missed' = missed
      BY <1>2, <2>1 DEF Check
    <3>3. QED
      BY <3>1, <3>2
  <2>2. CASE ~MustWait(t)
    BY <1>2, <2>2 DEF Check
  <2>3. QED
    BY <2>1, <2>2
<1>3. ASSUME NEW t \in Callers, Enter(t)
      PROVE  WaiterHasWaker'
  BY <1>3 DEF Enter
<1>4. ASSUME NEW t \in Callers, Release(t)
      PROVE  WaiterHasWaker'
  BY <1>4 DEF Release
<1>5. CASE UNCHANGED vars
  BY <1>5 DEF vars
<1>6. QED
  BY <1>1, <1>2, <1>3, <1>4, <1>5 DEF Next, Step

(* The only sleeper nobody will wake is one that missed a release between   *)
(* its look at the gate and its notified().                                *)
THEOREM SleepersHaveWakers == Spec => []SleeperHasWaker
<1>1. Init => WaiterHasWaker
  BY DEF Init, WaiterHasWaker
<1>2. TypeOK /\ LaunchesCounted /\ NeverStuckClosed /\ WaiterHasWaker /\ [Next]_vars
      => WaiterHasWaker'
  BY WakerStep
<1>3. WaiterHasWaker => SleeperHasWaker
  BY DEF WaiterHasWaker, SleeperHasWaker, Working
<1>4. QED
  BY <1>1, <1>2, <1>3, GateTypeCorrect, LaunchesAreCounted, GateNeverStuckClosed, PTL DEF Spec
=============================================================================
