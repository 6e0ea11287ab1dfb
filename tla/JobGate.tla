------------------------------- MODULE JobGate -------------------------------
(***************************************************************************)
(* The heavy-job gate of one instance (src-tauri/src/jobs.rs): launches,   *)
(* installs, refreshes and probes of an instance queue here. The gate is a *)
(* state behind an async mutex and a tokio Notify; a step is one critical  *)
(* section of that mutex, or what a task does between two of them.         *)
(*                                                                         *)
(* Two facts of tokio are modelled: Notify::notify_waiters wakes every     *)
(* task whose Notified future exists and keeps no permit for one that is   *)
(* about to create it; and the guard is dropped before notified() is       *)
(* called, so a release fits between the two.                              *)
(***************************************************************************)
EXTENDS Naturals, FiniteSets

CONSTANTS
  Launches,  \* calls of run_instance_job with HeavyJobKind::Launch
  Others     \* calls with any other kind

ASSUME CallersAssumption ==
  /\ IsFiniteSet(Launches)
  /\ Launches \cap Others = {}

Callers == Launches \cup Others

VARIABLES
  active,          \* GateState.active: a heavy job kind or "none"
  waitingLaunches, \* GateState.waiting_launches
  pc,              \* where each caller is in run_instance_job
  \* history, read by no action's guard
  early,           \* launch -> the others past their check when it was counted
  missed           \* callers that saw a closed gate and slept after it was released

vars == <<active, waitingLaunches, pc, early, missed>>

KindOf(t) == IF t \in Launches THEN "launch" ELSE "other"
Queued    == {"check", "register", "asleep", "admitted"}

(* Mutant of MustWait: an install looks at the active job only.            *)
MustWaitForActive(t) == active # "none"

(* The condition wait_for_turn sleeps on.                                  *)
MustWait(t) == active # "none" \/ (t \in Others /\ waitingLaunches > 0)

Move(t, to) == pc' = [pc EXCEPT ![t] = to]

-----------------------------------------------------------------------------
Init ==
  /\ active = "none"
  /\ waitingLaunches = 0
  /\ pc = [t \in Callers |-> "idle"]
  /\ early = [l \in Launches |-> {}]
  /\ missed = {}

(* JobPermit::acquire: a launch counts itself before it waits.             *)
ArriveLaunch(t) ==
  /\ t \in Launches /\ pc[t] = "idle"
  /\ waitingLaunches' = waitingLaunches + 1
  /\ Move(t, "check")
  /\ early' = [early EXCEPT ![t] = {o \in Others : pc[o] \in {"admitted", "work"}}]
  /\ UNCHANGED <<active, missed>>

ArriveOther(t) ==
  /\ t \in Others /\ pc[t] = "idle"
  /\ Move(t, "check")
  /\ UNCHANGED <<active, waitingLaunches, early, missed>>

(* wait_for_turn looks at the gate under the mutex and drops the guard.    *)
Check(t) ==
  /\ pc[t] = "check"
  /\ \/ MustWait(t) /\ Move(t, "register")
     \/ ~MustWait(t) /\ Move(t, "admitted")
  /\ UNCHANGED <<active, waitingLaunches, early, missed>>

(* gate.notify.notified().await                                            *)
Sleep(t) ==
  /\ pc[t] = "register"
  /\ Move(t, "asleep")
  /\ UNCHANGED <<active, waitingLaunches, early, missed>>

(* Mutant of Enter: the launch stays counted.                              *)
EnterStillCounted(t) ==
  /\ pc[t] = "admitted"
  /\ Move(t, "work")
  /\ active' = KindOf(t)
  /\ UNCHANGED <<waitingLaunches, early, missed>>

(* Mutant of Enter: every caller uncounts, without saturating_sub.         *)
EnterUncounts(t) ==
  /\ pc[t] = "admitted"
  /\ Move(t, "work")
  /\ active' = KindOf(t)
  /\ waitingLaunches' = waitingLaunches - 1
  /\ UNCHANGED <<early, missed>>

(* The caller takes the mutex again and claims the gate, without a second  *)
(* look at it; a launch uncounts itself (saturating_sub).                  *)
Enter(t) ==
  /\ pc[t] = "admitted"
  /\ Move(t, "work")
  /\ active' = KindOf(t)
  /\ waitingLaunches' =
       IF t \in Launches /\ waitingLaunches > 0 THEN waitingLaunches - 1 ELSE waitingLaunches
  /\ UNCHANGED <<early, missed>>

(* The work ends and the permit drops, which only spawns the release.      *)
Finish(t) ==
  /\ pc[t] = "work"
  /\ Move(t, "release")
  /\ UNCHANGED <<active, waitingLaunches, early, missed>>

(* Mutant of Release: the gate stays closed.                               *)
ReleaseStaysClosed(t) ==
  /\ pc[t] = "release"
  /\ pc' = [u \in Callers |-> IF u = t THEN "idle"
                              ELSE IF pc[u] = "asleep" THEN "check" ELSE pc[u]]
  /\ early' = [l \in Launches |-> early[l] \ {t}]
  /\ missed' = {u \in Callers : pc[u] = "register"}
  /\ UNCHANGED <<active, waitingLaunches>>

(* Mutant of Release: the gate opens and nobody is notified.               *)
ReleaseSilently(t) ==
  /\ pc[t] = "release"
  /\ active' = "none"
  /\ Move(t, "idle")
  /\ early' = [l \in Launches |-> early[l] \ {t}]
  /\ UNCHANGED <<waitingLaunches, missed>>

(* Mutant of Release: one sleeper is notified, and may not be the one that  *)
(* can go on.                                                              *)
ReleaseNotifiesOne(t) ==
  LET asleep == {u \in Callers : pc[u] = "asleep"} IN
  /\ pc[t] = "release"
  /\ active' = "none"
  /\ \/ asleep = {} /\ Move(t, "idle")
     \/ \E u \in asleep : pc' = [pc EXCEPT ![t] = "idle", ![u] = "check"]
  /\ early' = [l \in Launches |-> early[l] \ {t}]
  /\ missed' = {u \in Callers : pc[u] = "register"}
  /\ UNCHANGED waitingLaunches

(* The spawned release: the gate opens and every registered waiter wakes.  *)
Release(t) ==
  /\ pc[t] = "release"
  /\ active' = "none"
  /\ pc' = [u \in Callers |-> IF u = t THEN "idle"
                              ELSE IF pc[u] = "asleep" THEN "check" ELSE pc[u]]
  /\ early' = [l \in Launches |-> early[l] \ {t}]
  /\ missed' = {u \in Callers : pc[u] = "register"}
  /\ UNCHANGED waitingLaunches

-----------------------------------------------------------------------------
Step(t) == Check(t) \/ Sleep(t) \/ Enter(t) \/ Release(t)

Next == \E t \in Callers : ArriveLaunch(t) \/ ArriveOther(t) \/ Step(t) \/ Finish(t)

Spec == Init /\ [][Next]_vars

(* Tasks that can run are polled. Nobody has to call, and no work has to end. *)
FairSpec == Spec /\ \A t \in Callers : WF_vars(Step(t))

-----------------------------------------------------------------------------
TypeOK ==
  /\ active \in {"none", "launch", "other"}
  /\ waitingLaunches \in Nat
  /\ pc \in [Callers -> Queued \cup {"idle", "work", "release"}]
  /\ early \in [Launches -> SUBSET Others]
  /\ missed \subseteq Callers

(* waiting_launches is exactly the launches still queued: the increment and *)
(* the decrement sit in two critical sections with a wait between, and a    *)
(* count left behind would hold installs back for ever.                     *)
LaunchesCounted ==
  waitingLaunches = Cardinality({t \in Launches : pc[t] \in Queued})

(* A closed gate has somebody who will open it.                            *)
NeverStuckClosed ==
  active # "none" => \E t \in Callers : pc[t] \in {"work", "release"}

(* A launch is overtaken only by jobs that were past their check when it   *)
(* was counted: a later install never slips in front of it.                *)
NoNewOvertaking ==
  \A l \in Launches, o \in Others :
    pc[l] \in Queued /\ pc[o] \in {"admitted", "work"} => o \in early[l]

(* A sleeper has somebody on the way whose release will wake it, unless a  *)
(* release already went by between its check and its notified().           *)
SleeperHasWaker ==
  \A t \in Callers : pc[t] = "asleep" =>
    \/ \E u \in Callers : pc[u] \in {"work", "release"}
    \/ t \in Others /\ \E l \in Launches : pc[l] \in Queued
    \/ t \in missed

(* The gate keeps serving: while somebody is queued, somebody gets to work, *)
(* unless a wake-up was missed.                                             *)
GateKeepsServing ==
  (\E t \in Callers : pc[t] \in Queued) ~> (missed # {} \/ \E t \in Callers : pc[t] = "work")

(* "installs never collide with a launch or an inventory-refresh on the    *)
(* same instance": no two heavy jobs at once.                              *)
OneHeavyJob == \A t, u \in Callers : pc[t] = "work" /\ pc[u] = "work" => t = u
=============================================================================
