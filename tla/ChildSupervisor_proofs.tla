------------------------ MODULE ChildSupervisor_proofs ------------------------
(***************************************************************************)
(* Theorems about the supervisor of the harness child, for any number of   *)
(* instances and launch attempts.                                          *)
(***************************************************************************)
EXTENDS ChildSupervisor, TLAPS

BeforeRow   == {"unborn", "prepare", "lock", "await_stop", "prepare_env"}
BeforeSpawn == BeforeRow \cup {"spawn"}

(* Numbers are handed out in order.                                        *)
AttemptsInOrder == \A n \in Attempts : at[n].pc = "unborn" <=> n >= next

(* What is known of an attempt's process: before the spawn there is none,  *)
(* an exited one is down, and one that is up has a status that says so.    *)
ProcessesInOrder ==
  \A n \in Attempts :
    /\ at[n].pc \in BeforeSpawn => n \notin alive /\ exiting[n] = "none"
    /\ n \in alive => status[n] \in Live /\ exiting[n] = "none"

(* The slot's mutex is held by the one late boot that is being finalized,   *)
(* and its child is in the slot.                                           *)
LockInOrder ==
  \A n \in Attempts : background[n] = "finalize" => slotLock = n /\ slot = n

(* The current session is an open row, and a row opens at most once.       *)
SessionInOrder ==
  /\ session # None => row[session] = "running"
  /\ \A n \in Attempts : at[n].pc \in BeforeRow => row[n] = "none"

CoreInv ==
  TypeOK /\ AttemptsInOrder /\ ProcessesInOrder /\ LockInOrder /\ SessionInOrder

Positions == [pc : PC, inst : Instances, tier : Tiers, victim : Attempts \cup {None}]

-----------------------------------------------------------------------------
(* An attempt that moves on changes nothing but its own position.          *)
LEMMA GotoEffect ==
  ASSUME TypeOK, NEW n \in Attempts, NEW pc \in PC, Goto(n, pc)
  PROVE  /\ at' \in [Attempts -> Positions]
         /\ at'[n].pc = pc
         /\ \A m \in Attempts : m # n => at'[m] = at[m]
  BY DEF TypeOK, Goto, Positions

(* The same for a step that also sets which child is being stopped.        *)
LEMMA VictimEffect ==
  ASSUME TypeOK, NEW n \in Attempts, NEW pc \in PC, NEW v \in Attempts \cup {None},
         at' = [at EXCEPT ![n].pc = pc, ![n].victim = v]
  PROVE  /\ at' \in [Attempts -> Positions]
         /\ at'[n].pc = pc
         /\ \A m \in Attempts : m # n => at'[m] = at[m]
<1>1. at \in [Attempts -> Positions]
  BY DEF TypeOK, Positions
<1> DEFINE new == [at[n] EXCEPT !.pc = pc, !.victim = v]
<1>2. new \in Positions /\ new.pc = pc
  <2>1. at[n] \in Positions
    BY <1>1
  <2>2. QED
    BY <2>1 DEF Positions
<1>3. at' = [at EXCEPT ![n] = new]
  BY <1>1
<1> HIDE DEF new
<1>4. QED
  BY <1>1, <1>2, <1>3

(* A new attempt gets the next number and disturbs no other.               *)
LEMMA BeginEffect ==
  ASSUME TypeOK, AttemptsInOrder, NEW i \in Instances, NEW tier \in Tiers,
         NEW pc \in {"prepare", "lock"}, next <= MaxAttempts, next' = next + 1,
         at' = [at EXCEPT ![next] = Begin(i, tier, pc)]
  PROVE  /\ next' \in 1..(MaxAttempts + 1)
         /\ at' \in [Attempts -> Positions]
         /\ AttemptsInOrder'
         /\ \A m \in Attempts : at[m].pc # "unborn" => at'[m] = at[m]
         /\ \A m \in Attempts : at[m].pc = "unborn" => at'[m].pc \in {"unborn", "prepare", "lock"}
<1>1. next \in Attempts /\ next' \in 1..(MaxAttempts + 1)
  BY AttemptsAssumption DEF TypeOK, Attempts
<1>2. Begin(i, tier, pc) \in Positions /\ Begin(i, tier, pc).pc = pc
  BY DEF Begin, Positions, PC, None
<1>3. /\ at' \in [Attempts -> Positions]
      /\ at'[next].pc = pc
      /\ \A m \in Attempts : m # next => at'[m] = at[m]
  BY <1>1, <1>2 DEF TypeOK, Positions
<1>4. AttemptsInOrder'
  BY <1>1, <1>3 DEF AttemptsInOrder, Attempts, TypeOK
<1>5. QED
  BY <1>1, <1>3, <1>4 DEF AttemptsInOrder, Attempts, TypeOK

(* The ladder only ever starts the next attempt.                           *)
LEMMA EscalateEffect ==
  ASSUME TypeOK, AttemptsInOrder, NEW n \in Attempts, Escalate(n)
  PROVE  /\ escalating' \in BOOLEAN
         /\ next' \in 1..(MaxAttempts + 1)
         /\ at' \in [Attempts -> Positions]
         /\ AttemptsInOrder'
         /\ \A m \in Attempts : at[m].pc # "unborn" => at'[m] = at[m]
         /\ \A m \in Attempts : at[m].pc = "unborn" => at'[m].pc \in {"unborn", "prepare", "lock"}
<1>1. CASE UNCHANGED <<next, at>>
  BY <1>1 DEF TypeOK, AttemptsInOrder, Escalate, Positions
<1>2. CASE \E tier \in Narrower(at[n].tier) :
             /\ next <= MaxAttempts /\ next' = next + 1 /\ escalating' = TRUE
             /\ at' = [at EXCEPT ![next] = Begin(at[n].inst, tier, "prepare")]
  <2>1. PICK tier \in Narrower(at[n].tier) :
             /\ next <= MaxAttempts /\ next' = next + 1 /\ escalating' = TRUE
             /\ at' = [at EXCEPT ![next] = Begin(at[n].inst, tier, "prepare")]
    BY <1>2
  <2>2. tier \in Tiers /\ at[n].inst \in Instances
    BY DEF Narrower, Tiers, TypeOK
  <2>3. QED
    BY <2>1, <2>2, BeginEffect
<1>3. QED
  BY <1>1, <1>2 DEF Escalate

(* close_session closes the current row, if any, and no other.             *)
LEMMA CloseEffect ==
  ASSUME TypeOK, NEW verdict \in Over, CloseSession(verdict)
  PROVE  /\ session' = None
         /\ row' \in [Attempts -> {"none", "running", "stopped", "crashed"}]
         /\ \A m \in Attempts : m # session => row'[m] = row[m]
  BY DEF TypeOK, CloseSession, Over

-----------------------------------------------------------------------------
LEMMA CoreInit == Init => CoreInv
<1> SUFFICES ASSUME Init PROVE CoreInv
  OBVIOUS
<1>1. Unborn \in Positions /\ Unborn.pc = "unborn"
  BY InstancesExist DEF Unborn, Positions, PC, Tiers, None
<1>2. TypeOK
  <2>1. next \in 1..(MaxAttempts + 1)
    BY AttemptsAssumption DEF Init
  <2>2. at \in [Attempts -> Positions]
    BY <1>1 DEF Init
  <2>3. QED
    BY <2>1, <2>2 DEF Init, TypeOK, Positions
<1>3. AttemptsInOrder
  BY <1>1 DEF Init, AttemptsInOrder, Attempts
<1>4. ProcessesInOrder /\ LockInOrder /\ SessionInOrder
  BY <1>1 DEF Init, ProcessesInOrder, LockInOrder, SessionInOrder
<1>5. QED
  BY <1>2, <1>3, <1>4 DEF CoreInv

-----------------------------------------------------------------------------
(* Every step of the supervisor keeps its state well typed.                *)
LEMMA TypeStep ==
  ASSUME TypeOK, AttemptsInOrder, [Next]_vars
  PROVE  TypeOK'
<1> USE DEF locks, books, procs, tasks
<1> DEFINE Rest == /\ slot' \in Attempts \cup {None}
                   /\ slotLock' \in Attempts \cup {None}
                   /\ session' \in Attempts \cup {None}
                   /\ row' \in [Attempts -> {"none", "running", "stopped", "crashed"}]
                   /\ ledger' \subseteq Attempts
                   /\ escalating' \in BOOLEAN
                   /\ next' \in 1..(MaxAttempts + 1)
                   /\ alive' \subseteq Attempts
                   /\ status' \in [Attempts -> Live \cup Over \cup {"none"}]
                   /\ killed' \subseteq Attempts
                   /\ background' \in [Attempts -> {"none", "watch", "degraded", "finalize"}]
                   /\ exiting' \in [Attempts -> Over \cup {"none"}]
                   /\ stopping' \subseteq Attempts
<1>0. Rest /\ at' \in [Attempts -> Positions] => TypeOK'
  BY DEF TypeOK, Positions
<1> HIDE DEF Rest
<1>1. ASSUME NEW i \in Instances, Launch(i)
      PROVE  TypeOK'
  <2>1. next' \in 1..(MaxAttempts + 1) /\ at' \in [Attempts -> Positions]
    BY <1>1, BeginEffect DEF Launch, Tiers
  <2>2. QED
    BY <1>0, <1>1, <2>1 DEF Launch, TypeOK, Rest
<1>2. ASSUME NEW i \in Instances, SafeLaunch(i)
      PROVE  TypeOK'
  <2>1. next' \in 1..(MaxAttempts + 1) /\ at' \in [Attempts -> Positions]
    BY <1>2, BeginEffect DEF SafeLaunch, Tiers
  <2>2. QED
    BY <1>0, <1>2, <2>1 DEF SafeLaunch, TypeOK, Rest
<1>3. CASE Stop
  BY <1>3 DEF Stop, TypeOK
<1>4. CASE Poll
  <2>1. session' = None /\ row' \in [Attempts -> {"none", "running", "stopped", "crashed"}]
    BY <1>4, CloseEffect DEF Poll, Over
  <2>2. QED
    BY <1>4, <2>1 DEF Poll, TypeOK
<1>5. ASSUME NEW n \in Attempts, PrepareSafe(n)
      PROVE  TypeOK'
  <2>1. at' \in [Attempts -> Positions]
    <3>1. CASE Goto(n, "lock") \/ Goto(n, "returned")
      BY <3>1, GotoEffect DEF PC
    <3>2. CASE \E tier \in Narrower(at[n].tier) : at' = [at EXCEPT ![n].tier = tier]
      BY <3>2 DEF TypeOK, Positions, Narrower, Tiers
    <3>3. QED
      BY <1>5, <3>1, <3>2 DEF PrepareSafe
  <2>2. QED
    BY <1>0, <1>5, <2>1 DEF PrepareSafe, TypeOK, Rest
<1>6. ASSUME NEW n \in Attempts, LookAtSlot(n)
      PROVE  TypeOK'
  <2>1. at' \in [Attempts -> Positions]
    <3>1. CASE Goto(n, "prepare_env") \/ Goto(n, "returned")
      BY <3>1, GotoEffect DEF PC
    <3>2. CASE at' = [at EXCEPT ![n].pc = "await_stop", ![n].victim = slot]
      BY <3>2, VictimEffect DEF TypeOK, PC
    <3>3. QED
      BY <1>6, <3>1, <3>2 DEF LookAtSlot
  <2>2. slot' \in Attempts \cup {None} /\ killed' \subseteq Attempts
    BY <1>6 DEF LookAtSlot, TypeOK
  <2>3. QED
    BY <1>0, <1>6, <2>1, <2>2 DEF LookAtSlot, TypeOK, Rest
<1>7. ASSUME NEW n \in Attempts, SwitchedOff(n)
      PROVE  TypeOK'
  <2>1. at' \in [Attempts -> Positions]
    BY <1>7, VictimEffect DEF SwitchedOff, PC
  <2>2. session' = None /\ row' \in [Attempts -> {"none", "running", "stopped", "crashed"}]
    BY <1>7, CloseEffect DEF SwitchedOff, Over
  <2>3. QED
    BY <1>0, <1>7, <2>1, <2>2 DEF SwitchedOff, TypeOK, Rest
<1>8. ASSUME NEW n \in Attempts, PrepareEnv(n)
      PROVE  TypeOK'
  <2>1. at' \in [Attempts -> Positions]
    BY <1>8, GotoEffect DEF PrepareEnv, PC
  <2>2. QED
    BY <1>0, <1>8, <2>1 DEF PrepareEnv, TypeOK, Rest
<1>9. ASSUME NEW n \in Attempts, Spawn(n)
      PROVE  TypeOK'
  <2>1. at' \in [Attempts -> Positions]
    BY <1>9, GotoEffect DEF Spawn, PC
  <2>2. session' \in Attempts \cup {None} /\ row' \in [Attempts -> {"none", "running", "stopped", "crashed"}]
    BY <1>9, CloseEffect DEF Spawn, TypeOK, Over
  <2>3. alive' \subseteq Attempts /\ status' \in [Attempts -> Live \cup Over \cup {"none"}]
    BY <1>9 DEF Spawn, TypeOK, Live
  <2>4. QED
    BY <1>0, <1>9, <2>1, <2>2, <2>3 DEF Spawn, TypeOK, Rest
<1>10. ASSUME NEW n \in Attempts, RecordPid(n)
       PROVE  TypeOK'
  <2>1. at' \in [Attempts -> Positions]
    BY <1>10, GotoEffect DEF RecordPid, PC
  <2>2. QED
    BY <1>0, <1>10, <2>1 DEF RecordPid, TypeOK, Rest
<1>11. ASSUME NEW n \in Attempts, AwaitUrl(n)
       PROVE  TypeOK'
  <2>1. at' \in [Attempts -> Positions]
    BY <1>11, GotoEffect DEF AwaitUrl, PC
  <2>2. QED
    BY <1>0, <1>11, <2>1 DEF AwaitUrl, TypeOK, Rest
<1>12. ASSUME NEW n \in Attempts, StoreDead(n)
       PROVE  TypeOK'
  <2>1. at' \in [Attempts -> Positions]
    BY <1>12, GotoEffect DEF StoreDead, PC
  <2>2. session' \in Attempts \cup {None} /\ row' \in [Attempts -> {"none", "running", "stopped", "crashed"}]
    BY <1>12, CloseEffect DEF StoreDead, TypeOK, Over
  <2>3. QED
    BY <1>0, <1>12, <2>1, <2>2 DEF StoreDead, StoreInSlot, TypeOK, Rest
<1>13. ASSUME NEW n \in Attempts, Finalize(n)
       PROVE  TypeOK'
  <2>1. at' \in [Attempts -> Positions]
    BY <1>13, GotoEffect DEF Finalize, PC
  <2>2. QED
    BY <1>0, <1>13, <2>1 DEF Finalize, TypeOK, Rest, Live
<1>14. ASSUME NEW n \in Attempts, Store(n)
       PROVE  TypeOK'
  <2>1. at' \in [Attempts -> Positions]
    BY <1>14, GotoEffect DEF Store, PC
  <2>2. QED
    BY <1>0, <1>14, <2>1 DEF Store, StoreInSlot, TypeOK, Rest
<1>15. ASSUME NEW n \in Attempts, LateUrl(n)
       PROVE  TypeOK'
  BY <1>15 DEF LateUrl, TypeOK
<1>16. ASSUME NEW n \in Attempts, LateFinalize(n)
       PROVE  TypeOK'
  BY <1>16 DEF LateFinalize, TypeOK, Live
<1>17. ASSUME NEW n \in Attempts, Degrade(n)
       PROVE  TypeOK'
  <2>1. /\ escalating' \in BOOLEAN /\ next' \in 1..(MaxAttempts + 1)
        /\ at' \in [Attempts -> Positions]
    BY <1>17, EscalateEffect DEF Degrade
  <2>2. status' \in [Attempts -> Live \cup Over \cup {"none"}]
    BY <1>17 DEF Degrade, TypeOK, Live
  <2>3. QED
    BY <1>0, <1>17, <2>1, <2>2 DEF Degrade, TypeOK, Rest
<1>18. ASSUME NEW n \in Attempts, WatchEnds(n)
       PROVE  TypeOK'
  BY <1>18 DEF WatchEnds, TypeOK
<1>19. ASSUME NEW n \in Attempts, ProcessExits(n)
       PROVE  TypeOK'
  <2>1. PICK verdict \in Over : /\ status' = [status EXCEPT ![n] = verdict]
                                /\ exiting' = [exiting EXCEPT ![n] = verdict]
    BY <1>19 DEF ProcessExits, Over
  <2>2. QED
    BY <1>19, <2>1 DEF ProcessExits, TypeOK
<1>20. ASSUME NEW n \in Attempts, KillTree(n)
       PROVE  TypeOK'
  BY <1>20 DEF KillTree, TypeOK, Over
<1>21. ASSUME NEW n \in Attempts, OnExit(n)
       PROVE  TypeOK'
  <2>1. /\ escalating' \in BOOLEAN /\ next' \in 1..(MaxAttempts + 1)
        /\ at' \in [Attempts -> Positions]
    BY <1>21, EscalateEffect DEF OnExit, TypeOK, Positions
  <2>2. session' \in Attempts \cup {None} /\ row' \in [Attempts -> {"none", "running", "stopped", "crashed"}]
    BY <1>21, CloseEffect DEF OnExit, TypeOK
  <2>3. QED
    BY <1>0, <1>21, <2>1, <2>2 DEF OnExit, TypeOK, Rest
<1>22. ASSUME NEW n \in Attempts, Stopped(n)
       PROVE  TypeOK'
  <2>1. session' = None /\ row' \in [Attempts -> {"none", "running", "stopped", "crashed"}]
    BY <1>22, CloseEffect DEF Stopped, Over
  <2>2. QED
    BY <1>22, <2>1 DEF Stopped, TypeOK
<1>23. CASE UNCHANGED vars
  BY <1>23 DEF vars, TypeOK
<1>24. QED
  BY <1>1, <1>2, <1>3, <1>4, <1>5, <1>6, <1>7, <1>8, <1>9, <1>10, <1>11, <1>12, <1>13,
     <1>14, <1>15, <1>16, <1>17, <1>18, <1>19, <1>20, <1>21, <1>22, <1>23
  DEF Next, LaunchStep, Background

-----------------------------------------------------------------------------
(* Where a step of an attempt can take it: a position it reaches by one of  *)
(* its own steps, and no other attempt moves.                              *)
LEMMA StepsMove ==
  ASSUME TypeOK, NEW n \in Attempts, PrepareSafe(n) \/ LaunchStep(n)
  PROVE  /\ \A m \in Attempts : m # n => at'[m] = at[m]
         /\ at[n].pc # "unborn" /\ at'[n].pc # "unborn"
         /\ at[n].pc \notin BeforeRow => at'[n].pc \notin BeforeRow
         /\ at'[n].pc \in BeforeSpawn => at[n].pc \in BeforeRow
         /\ next' = next
<1>5. CASE PrepareSafe(n)
  <2>1. CASE Goto(n, "lock") \/ Goto(n, "returned")
    BY <1>5, <2>1, GotoEffect DEF PrepareSafe, PC, BeforeRow, BeforeSpawn
  <2>2. CASE \E tier \in Narrower(at[n].tier) : at' = [at EXCEPT ![n].tier = tier]
    BY <1>5, <2>2 DEF PrepareSafe, TypeOK, BeforeRow, BeforeSpawn
  <2>3. QED
    BY <1>5, <2>1, <2>2 DEF PrepareSafe
<1>6. CASE LookAtSlot(n)
  BY <1>6, GotoEffect, VictimEffect DEF LookAtSlot, PC, BeforeRow, BeforeSpawn, TypeOK
<1>7. CASE SwitchedOff(n)
  BY <1>7, GotoEffect, VictimEffect DEF SwitchedOff, PC, BeforeRow, BeforeSpawn, TypeOK
<1>8. CASE PrepareEnv(n)
  BY <1>8, GotoEffect, VictimEffect DEF PrepareEnv, PC, BeforeRow, BeforeSpawn, TypeOK
<1>9. CASE Spawn(n)
  BY <1>9, GotoEffect, VictimEffect DEF Spawn, PC, BeforeRow, BeforeSpawn, TypeOK
<1>10. CASE RecordPid(n)
  BY <1>10, GotoEffect, VictimEffect DEF RecordPid, PC, BeforeRow, BeforeSpawn, TypeOK
<1>11. CASE AwaitUrl(n)
  BY <1>11, GotoEffect, VictimEffect DEF AwaitUrl, PC, BeforeRow, BeforeSpawn, TypeOK
<1>12. CASE StoreDead(n)
  BY <1>12, GotoEffect, VictimEffect DEF StoreDead, PC, BeforeRow, BeforeSpawn, TypeOK
<1>13. CASE Finalize(n)
  BY <1>13, GotoEffect, VictimEffect DEF Finalize, PC, BeforeRow, BeforeSpawn, TypeOK
<1>14. CASE Store(n)
  BY <1>14, GotoEffect, VictimEffect DEF Store, PC, BeforeRow, BeforeSpawn, TypeOK
<1>15. QED
  BY <1>5, <1>6, <1>7, <1>8, <1>9, <1>10, <1>11, <1>12, <1>13, <1>14 DEF LaunchStep

(* A step that is no launch attempt's own moves nobody, or starts the next  *)
(* attempt.                                                                *)
LEMMA OthersMove ==
  ASSUME TypeOK, AttemptsInOrder,
         \/ \E i \in Instances : Launch(i) \/ SafeLaunch(i)
         \/ Stop \/ Poll \/ UNCHANGED vars
         \/ \E n \in Attempts : \/ Background(n) \/ ProcessExits(n) \/ KillTree(n)
                              \/ OnExit(n) \/ Stopped(n)
  PROVE  /\ AttemptsInOrder'
         /\ \A m \in Attempts : at[m].pc # "unborn" => at'[m] = at[m]
         /\ \A m \in Attempts : at[m].pc = "unborn" => at'[m].pc \in {"unborn", "prepare", "lock"}
<1>1. ASSUME NEW i \in Instances, Launch(i) \/ SafeLaunch(i)
      PROVE  /\ AttemptsInOrder'
             /\ \A m \in Attempts : at[m].pc # "unborn" => at'[m] = at[m]
             /\ \A m \in Attempts : at[m].pc = "unborn" => at'[m].pc \in {"unborn", "prepare", "lock"}
  BY <1>1, BeginEffect DEF Launch, SafeLaunch, Tiers
<1>2. ASSUME NEW n \in Attempts, Escalate(n)
      PROVE  /\ AttemptsInOrder'
             /\ \A m \in Attempts : at[m].pc # "unborn" => at'[m] = at[m]
             /\ \A m \in Attempts : at[m].pc = "unborn" => at'[m].pc \in {"unborn", "prepare", "lock"}
  BY <1>2, EscalateEffect
<1>3. CASE UNCHANGED <<next, at>>
  BY <1>3 DEF AttemptsInOrder
<1>4. QED
  BY <1>1, <1>2, <1>3
  DEF Stop, Poll, vars, Background, LateUrl, LateFinalize, Degrade, WatchEnds, ProcessExits,
      KillTree, OnExit, Stopped

LEMMA AttemptsStep ==
  ASSUME TypeOK, AttemptsInOrder, [Next]_vars
  PROVE  AttemptsInOrder'
<1>1. ASSUME NEW n \in Attempts, PrepareSafe(n) \/ LaunchStep(n)
      PROVE  AttemptsInOrder'
  BY <1>1, StepsMove DEF AttemptsInOrder
<1>2. QED
  BY <1>1, OthersMove DEF Next

(* No attempt comes back to before its row, or to before its spawn.         *)
LEMMA NoReturn ==
  ASSUME TypeOK, AttemptsInOrder, [Next]_vars
  PROVE  \A m \in Attempts : /\ at'[m].pc \in BeforeRow => at[m].pc \in BeforeRow
                             /\ at'[m].pc \in BeforeSpawn => at[m].pc \in BeforeSpawn
<1>1. ASSUME NEW n \in Attempts, PrepareSafe(n) \/ LaunchStep(n), NEW m \in Attempts
      PROVE  /\ at'[m].pc \in BeforeRow => at[m].pc \in BeforeRow
             /\ at'[m].pc \in BeforeSpawn => at[m].pc \in BeforeSpawn
  BY <1>1, StepsMove DEF BeforeSpawn
<1>2. CASE \/ \E i \in Instances : Launch(i) \/ SafeLaunch(i)
           \/ Stop \/ Poll \/ UNCHANGED vars
           \/ \E n \in Attempts : \/ Background(n) \/ ProcessExits(n) \/ KillTree(n)
                                \/ OnExit(n) \/ Stopped(n)
  BY <1>2, OthersMove DEF BeforeRow, BeforeSpawn
<1>3. QED
  BY <1>1, <1>2 DEF Next

-----------------------------------------------------------------------------
LEMMA ProcessesStep ==
  ASSUME TypeOK, AttemptsInOrder, ProcessesInOrder, [Next]_vars
  PROVE  ProcessesInOrder'
<1> USE DEF procs, tasks
<1>0. \A m \in Attempts : at'[m].pc \in BeforeSpawn => at[m].pc \in BeforeSpawn
  BY NoReturn
<1>1. ASSUME NEW n \in Attempts, Spawn(n)
      PROVE  ProcessesInOrder'
  <2>1. /\ at[n].pc = "spawn"
        /\ exiting' = exiting
        /\ at'[n].pc \notin BeforeSpawn
    <3>1. at'[n].pc \notin BeforeSpawn
      BY <1>1, StepsMove DEF LaunchStep, Spawn, BeforeRow
    <3>2. QED
      BY <1>1, <3>1 DEF Spawn
  <2>2. CASE alive' = alive \cup {n} /\ status' = [status EXCEPT ![n] = "starting"]
    BY <1>0, <2>1, <2>2 DEF ProcessesInOrder, BeforeSpawn, TypeOK, Live
  <2>3. CASE UNCHANGED <<alive, status>>
    BY <1>0, <2>1, <2>3 DEF ProcessesInOrder
  <2>4. QED
    BY <1>1, <2>2, <2>3 DEF Spawn
<1>2. ASSUME NEW n \in Attempts, ProcessExits(n)
      PROVE  ProcessesInOrder'
  <2>1. PICK verdict \in Over : /\ status' = [status EXCEPT ![n] = verdict]
                                /\ exiting' = [exiting EXCEPT ![n] = verdict]
    BY <1>2 DEF ProcessExits, Over
  <2>2. at[n].pc \notin BeforeSpawn /\ alive' = alive \ {n}
    BY <1>2 DEF ProcessExits, ProcessesInOrder
  <2>3. QED
    BY <1>0, <2>1, <2>2 DEF ProcessesInOrder, TypeOK
<1>3. ASSUME NEW n \in Attempts, KillTree(n)
      PROVE  ProcessesInOrder'
  BY <1>0, <1>3 DEF KillTree, ProcessesInOrder, TypeOK
<1>4. ASSUME NEW n \in Attempts, Finalize(n) \/ LateFinalize(n) \/ Degrade(n)
      PROVE  ProcessesInOrder'
  <2>1. UNCHANGED <<alive, exiting>>
    BY <1>4 DEF Finalize, LateFinalize, Degrade
  <2>2. \A m \in Attempts : status'[m] = status[m] \/ status'[m] \in Live
    BY <1>4 DEF Finalize, LateFinalize, Degrade, TypeOK, Live
  <2>3. QED
    BY <1>0, <2>1, <2>2 DEF ProcessesInOrder
<1>5. ASSUME NEW n \in Attempts, OnExit(n)
      PROVE  ProcessesInOrder'
  BY <1>0, <1>5 DEF OnExit, ProcessesInOrder, TypeOK
<1>6. CASE UNCHANGED <<alive, status, exiting>>
  BY <1>0, <1>6 DEF ProcessesInOrder
<1>7. ASSUME NEW n \in Attempts, PrepareSafe(n) \/ Stopped(n) \/ LookAtSlot(n) \/ SwitchedOff(n)
                                 \/ PrepareEnv(n) \/ RecordPid(n) \/ AwaitUrl(n) \/ StoreDead(n)
                                 \/ Store(n) \/ LateUrl(n) \/ WatchEnds(n)
      PROVE  UNCHANGED <<alive, status, exiting>>
  BY <1>7 DEF PrepareSafe, Stopped, LookAtSlot, SwitchedOff, PrepareEnv, RecordPid, AwaitUrl,
              StoreDead, Store, LateUrl, WatchEnds
<1>8. QED
  BY <1>1, <1>2, <1>3, <1>4, <1>5, <1>6, <1>7
  DEF Next, LaunchStep, Background, Launch, SafeLaunch, Stop, Poll, vars

LEMMA LockStep ==
  ASSUME TypeOK, LockInOrder, [Next]_vars
  PROVE  LockInOrder'
<1> USE DEF locks, tasks
<1>0. SlotFree => \A m \in Attempts : background[m] # "finalize"
  BY DEF SlotFree, LockInOrder, Attempts, None
<1>1. ASSUME NEW n \in Attempts, LateUrl(n)
      PROVE  LockInOrder'
  BY <1>0, <1>1 DEF LateUrl, LockInOrder, TypeOK
<1>2. ASSUME NEW n \in Attempts, LateFinalize(n)
      PROVE  LockInOrder'
  BY <1>2 DEF LateFinalize, LockInOrder, TypeOK
<1>3. CASE /\ UNCHANGED slotLock
           /\ SlotFree \/ UNCHANGED slot
           /\ \A m \in Attempts : background'[m] = "finalize" => background[m] = "finalize"
  BY <1>0, <1>3 DEF LockInOrder
<1>4. ASSUME NEW n \in Attempts, PrepareSafe(n) \/ Stopped(n) \/ LookAtSlot(n) \/ SwitchedOff(n)
                                 \/ PrepareEnv(n) \/ Spawn(n) \/ RecordPid(n) \/ StoreDead(n)
                                 \/ Finalize(n) \/ Store(n) \/ ProcessExits(n) \/ KillTree(n)
                                 \/ OnExit(n)
      PROVE  UNCHANGED <<slotLock, background>> /\ (SlotFree \/ UNCHANGED slot)
  BY <1>4 DEF PrepareSafe, Stopped, LookAtSlot, SwitchedOff, PrepareEnv, Spawn, RecordPid,
              StoreDead, Finalize, Store, ProcessExits, KillTree, OnExit
<1>5. ASSUME NEW n \in Attempts, AwaitUrl(n) \/ Degrade(n) \/ WatchEnds(n)
      PROVE  /\ UNCHANGED <<slotLock, slot>>
             /\ \A m \in Attempts : background'[m] = "finalize" => background[m] = "finalize"
  BY <1>5 DEF AwaitUrl, Degrade, WatchEnds, TypeOK
<1>6. CASE Stop \/ Poll \/ UNCHANGED vars \/ \E i \in Instances : Launch(i) \/ SafeLaunch(i)
  BY <1>3, <1>6 DEF Stop, Poll, vars, Launch, SafeLaunch
<1>7. QED
  BY <1>1, <1>2, <1>3, <1>4, <1>5, <1>6 DEF Next, LaunchStep, Background

(* Which steps close the current row, and what else happens to the rows.    *)
LEMMA RowsMove ==
  ASSUME TypeOK, [Next]_vars
  PROVE  \/ UNCHANGED <<session, row>>
         \/ \E verdict \in Over : CloseSession(verdict)
         \/ \E n \in Attempts : PrepareEnv(n) /\ at'[n].pc = "spawn"
                                /\ session' = n /\ row' = [row EXCEPT ![n] = "running"]
<1> USE DEF books, Over
<1>1. ASSUME NEW n \in Attempts, PrepareEnv(n)
      PROVE  \/ UNCHANGED <<session, row>>
             \/ at'[n].pc = "spawn" /\ session' = n /\ row' = [row EXCEPT ![n] = "running"]
  BY <1>1, GotoEffect DEF PrepareEnv, PC
<1>2. ASSUME NEW n \in Attempts, SwitchedOff(n) \/ Spawn(n) \/ StoreDead(n) \/ OnExit(n) \/ Stopped(n)
      PROVE  UNCHANGED <<session, row>> \/ \E verdict \in Over : CloseSession(verdict)
  BY <1>2 DEF SwitchedOff, Spawn, StoreDead, OnExit, Stopped
<1>3. ASSUME NEW n \in Attempts, PrepareSafe(n) \/ LookAtSlot(n) \/ RecordPid(n) \/ AwaitUrl(n)
                                 \/ Finalize(n) \/ Store(n) \/ Background(n)
                                 \/ ProcessExits(n) \/ KillTree(n)
      PROVE  UNCHANGED <<session, row>>
  BY <1>3 DEF PrepareSafe, LookAtSlot, RecordPid, AwaitUrl, Finalize, Store, Background, LateUrl,
              LateFinalize, Degrade, WatchEnds, ProcessExits, KillTree
<1>4. CASE Stop \/ Poll \/ UNCHANGED vars \/ \E i \in Instances : Launch(i) \/ SafeLaunch(i)
  BY <1>4 DEF Stop, Poll, vars, Launch, SafeLaunch
<1>5. QED
  BY <1>1, <1>2, <1>3, <1>4 DEF Next, LaunchStep

LEMMA SessionStep ==
  ASSUME TypeOK, AttemptsInOrder, SessionInOrder, [Next]_vars
  PROVE  SessionInOrder'
<1>0. \A m \in Attempts : at'[m].pc \in BeforeRow => at[m].pc \in BeforeRow
  BY NoReturn
<1>1. CASE UNCHANGED <<session, row>>
  BY <1>0, <1>1 DEF SessionInOrder
<1>2. ASSUME NEW verdict \in Over, CloseSession(verdict)
      PROVE  SessionInOrder'
  <2>1. session' = None /\ \A m \in Attempts : m # session => row'[m] = row[m]
    BY <1>2, CloseEffect
  <2>2. \A m \in Attempts : at[m].pc \in BeforeRow => m # session
    BY DEF SessionInOrder, Attempts, None
  <2>3. QED
    BY <1>0, <2>1, <2>2 DEF SessionInOrder
<1>3. ASSUME NEW n \in Attempts, PrepareEnv(n), at'[n].pc = "spawn",
             session' = n, row' = [row EXCEPT ![n] = "running"]
      PROVE  SessionInOrder'
  BY <1>0, <1>3 DEF SessionInOrder, TypeOK, BeforeRow
<1>4. QED
  BY <1>1, <1>2, <1>3, RowsMove

(* The positions, processes, mutex and session of the launch attempts stay  *)
(* in the order the theorems below rest on, whoever steps in between.      *)
THEOREM CoreInvariant == Spec => []CoreInv
<1>1. CoreInv /\ [Next]_vars => CoreInv'
  BY TypeStep, AttemptsStep, ProcessesStep, LockStep, SessionStep DEF CoreInv
<1>2. QED
  BY CoreInit, <1>1, PTL DEF Spec

(* No launch, stop, poll, exit or late boot leaves the supervisor's state   *)
(* ill typed.                                                              *)
THEOREM SupervisorTypeCorrect == Spec => []TypeOK
<1>1. CoreInv => TypeOK
  BY DEF CoreInv
<1>2. QED
  BY <1>1, CoreInvariant, PTL

(* A late boot marks ready the very child that sits in the slot: no stop,   *)
(* launch, poll or exit takes it away while finalize_ready waits.          *)
THEOREM LateBootsFinalizeInPlace == Spec => []FinalizedInPlace
<1>1. CoreInv => FinalizedInPlace
  BY DEF CoreInv, LockInOrder, FinalizedInPlace
<1>2. QED
  BY <1>1, CoreInvariant, PTL

(* Whoever closes a row first settles it: a history row's verdict stands.   *)
THEOREM RowsCloseOnce == Spec => RowClosedOnce
<1>1. CoreInv /\ [Next]_vars
      => [\A n \in Attempts : row[n] \in Over => row'[n] = row[n]]_vars
  <2> SUFFICES ASSUME CoreInv, [Next]_vars, NEW n \in Attempts, row[n] \in Over
               PROVE  row'[n] = row[n]
    OBVIOUS
  <2>1. TypeOK /\ SessionInOrder /\ row[n] \notin {"none", "running"}
    BY DEF CoreInv, Over
  <2>2. ASSUME NEW verdict \in Over, CloseSession(verdict)
        PROVE  row'[n] = row[n]
    <3>1. n # session
      BY <2>1 DEF SessionInOrder, Attempts, None
    <3>2. QED
      BY <2>1, <2>2, <3>1, CloseEffect
  <2>3. ASSUME NEW m \in Attempts, PrepareEnv(m), row' = [row EXCEPT ![m] = "running"]
        PROVE  row'[n] = row[n]
    <3>1. row[m] = "none"
      BY <2>1, <2>3 DEF PrepareEnv, SessionInOrder, BeforeRow
    <3>2. QED
      BY <2>1, <2>3, <3>1 DEF TypeOK
  <2>4. QED
    BY <2>1, <2>2, <2>3, RowsMove
<1>2. QED
  BY <1>1, CoreInvariant, PTL DEF Spec, RowClosedOnce

-----------------------------------------------------------------------------
(* Where the trees are and what is written down of them.                   *)
TreeInv == NoUnmanagedTree /\ LiveTreeIsRecorded

(* The position of an attempt whose process is up survives what others do.  *)
LEMMA UpStaysPut ==
  ASSUME CoreInv, [Next]_vars,
         \A n \in Attempts : ~PrepareSafe(n) /\ ~LaunchStep(n)
  PROVE  \A m \in alive : at'[m] = at[m]
<1>1. \A m \in alive : at[m].pc # "unborn"
  BY DEF CoreInv, TypeOK, ProcessesInOrder, BeforeSpawn, BeforeRow
<1>2. QED
  BY <1>1, OthersMove DEF CoreInv, TypeOK, Next

(* The slot loses a live child only to a kill: the steps that empty it or   *)
(* put another child there tell the old one's watcher, or find it over.     *)
LEMMA SlotHandedOn ==
  ASSUME CoreInv, [Next]_vars
  PROVE  /\ \A m \in alive' : m = slot => m = slot' \/ m \in killed'
         /\ \A m \in alive' : m \in killed => m \in killed'
<1> USE DEF procs, tasks
<1>0. TypeOK /\ ProcessesInOrder
  BY DEF CoreInv
<1>1. ASSUME NEW n \in Attempts, LookAtSlot(n) \/ Store(n) \/ StoreDead(n)
      PROVE  /\ \A m \in alive' : m = slot => m = slot' \/ m \in killed'
             /\ \A m \in alive' : m \in killed => m \in killed'
  BY <1>1 DEF LookAtSlot, Store, StoreDead, StoreInSlot
<1>2. ASSUME NEW n \in Attempts, OnExit(n)
      PROVE  /\ \A m \in alive' : m = slot => m = slot' \/ m \in killed'
             /\ \A m \in alive' : m \in killed => m \in killed'
  BY <1>0, <1>2 DEF OnExit, ProcessesInOrder, TypeOK, Over
<1>3. CASE Stop
  BY <1>3 DEF Stop
<1>4. CASE Poll
  <2>1. slot \notin alive
    BY <1>0, <1>4 DEF Poll, SlotStatus, ProcessesInOrder, TypeOK, Live, Over, Attempts, None
  <2>2. QED
    BY <1>4, <2>1 DEF Poll
<1>5. ASSUME NEW n \in Attempts, KillTree(n)
      PROVE  /\ \A m \in alive' : m = slot => m = slot' \/ m \in killed'
             /\ \A m \in alive' : m \in killed => m \in killed'
  BY <1>5 DEF KillTree
<1>6. CASE UNCHANGED <<slot, killed>>
  BY <1>6
<1>7. ASSUME NEW n \in Attempts, PrepareSafe(n) \/ SwitchedOff(n) \/ PrepareEnv(n) \/ Spawn(n)
                                 \/ RecordPid(n) \/ AwaitUrl(n) \/ Finalize(n) \/ Background(n)
                                 \/ ProcessExits(n) \/ Stopped(n)
      PROVE  UNCHANGED <<slot, killed>>
  BY <1>7 DEF PrepareSafe, SwitchedOff, PrepareEnv, Spawn, RecordPid, AwaitUrl, Finalize,
              Background, LateUrl, LateFinalize, Degrade, WatchEnds, ProcessExits, Stopped
<1>8. QED
  BY <1>1, <1>2, <1>3, <1>4, <1>5, <1>6, <1>7
  DEF Next, LaunchStep, Launch, SafeLaunch, vars

LEMMA ManagedStep ==
  ASSUME CoreInv, NoUnmanagedTree, [Next]_vars
  PROVE  NoUnmanagedTree'
<1> USE DEF procs
<1>0. TypeOK
  BY DEF CoreInv
<1>1. ASSUME NEW n \in Attempts, PrepareSafe(n) \/ LaunchStep(n),
             \A m \in alive' : m \in alive \/ m = n,
             n \in alive' => n \in Booting' \/ n \in {slot'} \cup killed'
      PROVE  NoUnmanagedTree'
  <2>1. \A m \in Attempts : m # n => at'[m] = at[m]
    BY <1>0, <1>1, StepsMove
  <2>2. \A m \in Attempts : m # n /\ m \in Booting => m \in Booting'
    BY <2>1 DEF Booting
  <2>3. alive \subseteq Attempts
    BY <1>0 DEF TypeOK
  <2>4. QED
    BY <1>1, <2>2, <2>3, SlotHandedOn DEF NoUnmanagedTree
<1>2. CASE \A n \in Attempts : ~PrepareSafe(n) /\ ~LaunchStep(n)
  <2>1. \A m \in alive : at'[m] = at[m]
    BY <1>2, UpStaysPut
  <2>2. alive' \subseteq alive
    BY <1>2 DEF Next, Launch, SafeLaunch, Stop, Poll, Background, LateUrl, LateFinalize, Degrade,
                WatchEnds, ProcessExits, KillTree, OnExit, Stopped, vars
  <2>3. QED
    BY <1>0, <2>1, <2>2, SlotHandedOn DEF NoUnmanagedTree, Booting, TypeOK
<1>3. ASSUME NEW n \in Attempts, PrepareSafe(n) \/ LaunchStep(n)
      PROVE  /\ \A m \in alive' : m \in alive \/ m = n
             /\ n \in alive' => n \in Booting' \/ n \in {slot'} \cup killed'
  <2>1. CASE PrepareSafe(n) \/ LookAtSlot(n) \/ SwitchedOff(n) \/ PrepareEnv(n)
    BY <2>1 DEF CoreInv, ProcessesInOrder, BeforeSpawn, BeforeRow, PrepareSafe, LookAtSlot,
                SwitchedOff, PrepareEnv
  <2>2. CASE Spawn(n)
    BY <1>0, <2>2, GotoEffect DEF Spawn, Booting, PC, CoreInv, ProcessesInOrder, BeforeSpawn
  <2>3. CASE RecordPid(n) \/ AwaitUrl(n) \/ Finalize(n)
    BY <1>0, <2>3, GotoEffect DEF RecordPid, AwaitUrl, Finalize, Booting, PC
  <2>4. CASE Store(n) \/ StoreDead(n)
    BY <2>4 DEF Store, StoreDead, StoreInSlot
  <2>5. QED
    BY <1>3, <2>1, <2>2, <2>3, <2>4 DEF LaunchStep
<1>4. QED
  BY <1>1, <1>2, <1>3

LEMMA RecordedStep ==
  ASSUME CoreInv, LiveTreeIsRecorded, [Next]_vars
  PROVE  LiveTreeIsRecorded'
<1> USE DEF procs, books
<1>0. TypeOK /\ ProcessesInOrder
  BY DEF CoreInv
<1>1. CASE \A n \in Attempts : ~PrepareSafe(n) /\ ~LaunchStep(n)
  <2>1. \A m \in alive : at'[m] = at[m]
    BY <1>1, UpStaysPut
  <2>2. CASE Poll
    <3>1. slot \notin alive
      BY <1>0, <2>2 DEF Poll, SlotStatus, ProcessesInOrder, TypeOK, Live, Over, Attempts, None
    <3>2. QED
      BY <2>1, <2>2, <3>1 DEF Poll, LiveTreeIsRecorded
  <2>3. ASSUME NEW n \in Attempts, Stopped(n)
        PROVE  LiveTreeIsRecorded'
    BY <2>1, <2>3 DEF Stopped, LiveTreeIsRecorded
  <2>4. CASE alive' \subseteq alive /\ UNCHANGED ledger
    BY <2>1, <2>4 DEF LiveTreeIsRecorded
  <2>5. QED
    BY <1>1, <2>2, <2>3, <2>4
    DEF Next, Launch, SafeLaunch, Stop, Background, LateUrl, LateFinalize, Degrade, WatchEnds,
        ProcessExits, KillTree, OnExit, vars
<1>2. ASSUME NEW n \in Attempts, PrepareSafe(n) \/ LaunchStep(n),
             \A m \in alive' : m \in alive \/ m = n,
             \A m \in alive : m \in ledger => m \in ledger',
             n \in alive' => n \in ledger' \/ at'[n].pc = "record"
      PROVE  LiveTreeIsRecorded'
  <2>1. \A m \in Attempts : m # n => at'[m] = at[m]
    BY <1>0, <1>2, StepsMove
  <2>2. QED
    BY <1>0, <1>2, <2>1 DEF LiveTreeIsRecorded, TypeOK
<1>3. ASSUME NEW n \in Attempts, PrepareSafe(n) \/ LaunchStep(n)
      PROVE  /\ \A m \in alive' : m \in alive \/ m = n
             /\ \A m \in alive : m \in ledger => m \in ledger'
             /\ n \in alive' => n \in ledger' \/ at'[n].pc = "record"
  <2>1. CASE PrepareSafe(n) \/ LookAtSlot(n) \/ SwitchedOff(n) \/ PrepareEnv(n)
    BY <2>1 DEF CoreInv, ProcessesInOrder, BeforeSpawn, BeforeRow, PrepareSafe, LookAtSlot,
                SwitchedOff, PrepareEnv
  <2>2. CASE Spawn(n)
    BY <1>0, <2>2, GotoEffect DEF Spawn, PC, ProcessesInOrder, BeforeSpawn
  <2>3. CASE RecordPid(n)
    BY <2>3 DEF RecordPid
  <2>4. CASE AwaitUrl(n) \/ Finalize(n) \/ Store(n) \/ StoreDead(n)
    BY <2>4 DEF AwaitUrl, Finalize, Store, StoreDead, LiveTreeIsRecorded
  <2>5. QED
    BY <1>3, <2>1, <2>2, <2>3, <2>4 DEF LaunchStep
<1>4. QED
  BY <1>1, <1>2, <1>3

(* Every tree that is up is both managed and written down: an induction     *)
(* over CoreInv, the two parts having nothing to say of each other.        *)
THEOREM TreeInvariant == Spec => []TreeInv
<1>1. Init => TreeInv
  BY DEF Init, TreeInv, NoUnmanagedTree, LiveTreeIsRecorded
<1>2. CoreInv /\ TreeInv /\ [Next]_vars => TreeInv'
  BY ManagedStep, RecordedStep DEF TreeInv
<1>3. QED
  BY <1>1, <1>2, CoreInvariant, PTL DEF Spec

(* A harness that is up is in the slot, on its way there, or told to die.  *)
THEOREM NoTreeIsUnmanaged == Spec => []NoUnmanagedTree
<1>1. TreeInv => NoUnmanagedTree
  BY DEF TreeInv
<1>2. QED
  BY <1>1, TreeInvariant, PTL

(* From its spawn's record on, a harness that is up has a ledger row, so    *)
(* that the sweep after a crash of the launcher can find it.               *)
THEOREM LiveTreesAreRecorded == Spec => []LiveTreeIsRecorded
<1>1. TreeInv => LiveTreeIsRecorded
  BY DEF TreeInv
<1>2. QED
  BY <1>1, TreeInvariant, PTL
=============================================================================
