------------------------- MODULE InstallQueue_proofs -------------------------
(***************************************************************************)
(* The safety of the install queue for every number of instances, rows,    *)
(* drainers, restarts and store errors.                                    *)
(***************************************************************************)
EXTENDS InstallQueue, TLAPS

-----------------------------------------------------------------------------
(* What the ledger says of a row, in any reachable state.                  *)
RowsInOrder ==
  /\ \A j \in JobIds : status[j] = "unborn" <=> j >= nextId
  /\ \A j \in JobIds : j < nextId => owner[j] \in Instances
  /\ \A j \in toKick : j < nextId
  /\ \A j \in JobIds : status[j] \in {"unborn", "waiting", "cancelled"} => runs[j] = 0

(* What a live drainer relies on: its marker, its row, and what has already *)
(* been done with that row.                                                *)
TaskInOrder(t) ==
  /\ Live(t) => task[t].inst \in drainers
  /\ task[t].pc \in {"idle", "claim", "recheck"} <=> task[t].job = NoJob
  /\ task[t].job # NoJob => /\ status[task[t].job] \in {"running", "failed", "deleted"}
                           /\ owner[task[t].job] = task[t].inst
  /\ task[t].pc \in {"plan", "gate"} => runs[task[t].job] = 0
  /\ task[t].pc = "mark_done" => task[t].job \in installed

TasksInOrder == \A t \in Drainers : TaskInOrder(t)

(* A marker without a drainer is the trace of a store error.               *)
MarkersServed ==
  \A i \in drainers : i \in faulted \/ \E t \in Drainers : Live(t) /\ task[t].inst = i

(* No row older than one that was taken or dispatched is waiting.          *)
Taken(k) == runs[k] > 0 \/ \E t \in Drainers : Holds(t, k)

OldestTakenFirst ==
  \A j, k \in JobIds : j < k /\ owner[j] = owner[k] /\ Taken(k) => status[j] # "waiting"

CoreInv == TypeOK /\ RowsInOrder /\ TasksInOrder /\ OneDrainerPerInstance

-----------------------------------------------------------------------------
(* kick_drainer does nothing for a marked instance, and otherwise marks it  *)
(* and starts some idle task on it.                                        *)
LEMMA KickStartsOne ==
  ASSUME NEW i, KickDrainer(i)
  PROVE  \/ i \in drainers /\ UNCHANGED <<drainers, task, faulted>>
         \/ /\ i \notin drainers
            /\ drainers' = drainers \cup {i}
            /\ faulted' = faulted \ {i}
            /\ \E t \in Drainers :
                 /\ ~Live(t)
                 /\ task' = [task EXCEPT ![t] = [pc |-> "claim", inst |-> i, job |-> NoJob]]
<1>1. CASE i \in drainers
  BY <1>1 DEF KickDrainer
<1>2. CASE i \notin drainers
  <2> DEFINE t == CHOOSE u \in Drainers : ~Live(u)
  <2>1. \E u \in Drainers : ~Live(u)
    BY <1>2 DEF KickDrainer
  <2>2. t \in Drainers /\ ~Live(t)
    BY <2>1
  <2>3. task' = [task EXCEPT ![t] = [pc |-> "claim", inst |-> i, job |-> NoJob]]
    BY <1>2 DEF KickDrainer
  <2>4. drainers' = drainers \cup {i} /\ faulted' = faulted \ {i}
    BY <1>2 DEF KickDrainer
  <2> HIDE DEF t
  <2>5. QED
    BY <1>2, <2>2, <2>3, <2>4
<1>3. QED
  BY <1>1, <1>2
(* What Goto and Return do to the tasks.                                   *)
Task == [pc : PC \cup {"idle"}, inst : Instances \cup {NoInstance}, job : JobIds \cup {NoJob}]

LEMMA GotoEffect ==
  ASSUME TypeOK, NEW t \in Drainers, NEW pc \in PC, NEW j \in JobIds \cup {NoJob},
         Goto(t, pc, j)
  PROVE  /\ task' \in [Drainers -> Task]
         /\ task'[t].pc = pc /\ task'[t].inst = task[t].inst /\ task'[t].job = j
         /\ \A u \in Drainers : u # t => task'[u] = task[u]
BY DEF TypeOK, Goto, Task

LEMMA ReturnEffect ==
  ASSUME TypeOK, NEW t \in Drainers, Return(t)
  PROVE  /\ task' \in [Drainers -> Task]
         /\ task'[t] = Idle
         /\ \A u \in Drainers : u # t => task'[u] = task[u]
BY DEF TypeOK, Return, Idle, Task

(* A drainer past its claim holds a row.                                   *)
LEMMA HoldsRow ==
  ASSUME TypeOK, TasksInOrder, NEW t \in Drainers,
         task[t].pc \notin {"idle", "claim", "recheck"}
  PROVE  task[t].job \in JobIds
BY DEF TypeOK, TasksInOrder, TaskInOrder

-----------------------------------------------------------------------------
LEMMA CoreInit == Init => CoreInv
<1> SUFFICES ASSUME Init
             PROVE  CoreInv
  OBVIOUS
<1> USE BoundsAssumption DEF Init, Idle, JobIds, NoJob, Live
<1>1. TypeOK
  BY DEF TypeOK, Status
<1>2. RowsInOrder
  BY DEF RowsInOrder
<1>3. TasksInOrder
  BY DEF TasksInOrder, TaskInOrder
<1>4. OneDrainerPerInstance
  BY DEF OneDrainerPerInstance
<1>5. QED
  BY <1>1, <1>2, <1>3, <1>4 DEF CoreInv

(* Every step keeps the state well typed.                                  *)
LEMMA TypeStep ==
  ASSUME CoreInv, [Next]_vars
  PROVE  TypeOK'
<1> USE BoundsAssumption DEF CoreInv, TypeOK, RowsInOrder, JobIds, NoJob,
        ledger, memory, history, Goto, Return, Idle, StoreError, PC
<1>1. ASSUME NEW i \in Instances, Enqueue(i)
      PROVE  TypeOK'
  <2>1. nextId \in JobIds
    BY <1>1 DEF Enqueue
  <2>2. toKick' \subseteq JobIds /\ faulted' \subseteq Instances
    BY <1>1, <2>1 DEF Enqueue
  <2>3. faults' \in Nat
    BY <1>1 DEF Enqueue
  <2>4. QED
    BY <1>1, <2>1, <2>2, <2>3 DEF Enqueue, Status, Present
<1>2. ASSUME NEW j \in JobIds, Retry(j)
      PROVE  TypeOK'
  <2>1. owner[j] \in Instances
    BY <1>2 DEF Retry, Present, Terminal
  <2>2. QED
    BY <1>1, <1>2, <2>1 DEF Retry
<1>3. ASSUME NEW j \in JobIds, Cancel(j) \/ Delete(j)
      PROVE  TypeOK'
  BY <1>3 DEF Cancel, Delete, Status, Present, Terminal
<1>15. CASE ClearFinished
  <2>1. status' \in [JobIds -> Status]
    BY <1>15 DEF ClearFinished, Status
  <2>2. QED
    BY <1>15, <2>1 DEF ClearFinished
<1>4. ASSUME NEW i \in Instances, KickDrainer(i)
      PROVE  /\ drainers' \subseteq Instances
             /\ faulted' \subseteq Instances
             /\ task' \in [Drainers -> [pc : PC \cup {"idle"},
                                       inst : Instances \cup {NoInstance},
                                       job : JobIds \cup {NoJob}]]
  BY <1>4, KickStartsOne
<1>5. ASSUME NEW j \in JobIds, Kick(j)
      PROVE  TypeOK'
  <2>1. owner[j] \in Instances
    BY <1>5 DEF Kick
  <2>2. QED
    BY <1>4, <1>5, <2>1 DEF Kick
<1>6. ASSUME NEW t \in Drainers, Claim(t)
      PROVE  TypeOK'
  <2>1. CASE \E j \in Oldest(WaitingOf(task[t].inst)) :
               status' = [status EXCEPT ![j] = "running"] /\ Goto(t, "plan", j)
    <3>1. PICK j \in JobIds : status' = [status EXCEPT ![j] = "running"] /\ Goto(t, "plan", j)
      BY <2>1 DEF Oldest, WaitingOf
    <3>2. status' \in [JobIds -> Status]
      BY <3>1 DEF Status, Present
    <3>3. task' \in [Drainers -> Task]
      BY <3>1, GotoEffect
    <3> HIDE DEF Goto
    <3>4. QED
      BY <1>6, <3>2, <3>3 DEF Claim, Task
  <2>2. CASE Goto(t, "recheck", NoJob) /\ UNCHANGED status
    <3>1. task' \in [Drainers -> Task]
      BY <2>2, GotoEffect
    <3> HIDE DEF Goto
    <3>2. QED
      BY <1>6, <2>2, <3>1 DEF Claim, Task
  <2>3. QED
    BY <1>6, <2>1, <2>2 DEF Claim
<1>16. ASSUME NEW t \in Drainers, ClaimError(t)
      PROVE  TypeOK'
  <2>1. status' \in [JobIds -> Status]
    BY <1>16 DEF ClaimError, Oldest, WaitingOf, Status, Present
  <2>2. faulted' \subseteq Instances
    BY <1>16 DEF ClaimError, TasksInOrder, TaskInOrder, Live
  <2>3. QED
    BY <1>16, <2>1, <2>2 DEF ClaimError
<1>7. ASSUME NEW t \in Drainers, Recheck(t) \/ RecheckError(t) \/ ReadPlan(t) \/ MarkError(t)
      PROVE  TypeOK'
  BY <1>7 DEF Recheck, RecheckError, ReadPlan, MarkError
<1>8. ASSUME NEW t \in Drainers, StartBody(t)
      PROVE  TypeOK'
  <2>1. task[t].job \in JobIds
    BY <1>8, HoldsRow DEF StartBody
  <2>2. runs' \in [JobIds -> Nat]
    BY <1>8, <2>1 DEF StartBody
  <2>3. task' \in [Drainers -> Task]
    BY <1>8, <2>1, GotoEffect DEF StartBody
  <2> HIDE DEF Goto
  <2>4. QED
    BY <1>8, <2>2, <2>3 DEF StartBody, Task
<1>17. ASSUME NEW t \in Drainers, FinishBody(t)
      PROVE  TypeOK'
  <2>1. task[t].job \in JobIds
    BY <1>17, HoldsRow DEF FinishBody
  <2>2. installed' \subseteq JobIds
    BY <1>17, <2>1 DEF FinishBody
  <2>3. task' \in [Drainers -> Task]
    BY <1>17, <2>1, GotoEffect DEF FinishBody
  <2> HIDE DEF Goto
  <2>4. QED
    BY <1>17, <2>2, <2>3 DEF FinishBody, Task
<1>9. ASSUME NEW t \in Drainers, Mark(t)
      PROVE  TypeOK'
  BY <1>9 DEF Mark, MarkedAs, Status, Present, Terminal
<1>10. CASE ResumeReclaim
  <2>1. status' \in [JobIds -> Status]
    BY <1>10 DEF ResumeReclaim, Status, Present, Terminal
  <2>2. QED
    BY <1>10, <2>1 DEF ResumeReclaim
<1>18. CASE ResumeScan
  BY <1>18 DEF ResumeScan
<1>11. ASSUME NEW i \in Instances, ResumeKick(i)
       PROVE  TypeOK'
  BY <1>4, <1>11 DEF ResumeKick
<1>12. CASE Restart
  BY <1>12 DEF Restart
<1>13. CASE UNCHANGED vars
  BY <1>13 DEF vars
<1> HIDE DEF CoreInv, TypeOK, RowsInOrder, JobIds
<1>14. QED
  BY <1>1, <1>2, <1>3, <1>5, <1>6, <1>7, <1>8, <1>9, <1>10, <1>11, <1>12, <1>13,
     <1>15, <1>16, <1>17, <1>18
  DEF Next, Command, DrainerStep, Resume
(* Ids are handed out once and in order, and a row that is back to none of  *)
(* its early statuses stays there: no action makes a row waiting again.     *)
LEMMA RowsStep ==
  ASSUME CoreInv, [Next]_vars
  PROVE  RowsInOrder'
<1> USE BoundsAssumption DEF CoreInv, TypeOK, RowsInOrder, JobIds, NoJob,
        ledger, memory, history
<1>1. ASSUME NEW i \in Instances, Enqueue(i)
      PROVE  RowsInOrder'
  <2>1. /\ nextId \in JobIds /\ nextId' = nextId + 1 /\ toKick' \subseteq toKick \cup {nextId}
        /\ status' = [status EXCEPT ![nextId] = "waiting"]
        /\ owner' = [owner EXCEPT ![nextId] = i]
        /\ UNCHANGED <<runs, installed, task>>
    BY <1>1 DEF Enqueue
  <2>2. QED
    BY <1>1, <2>1
<1>2. ASSUME NEW j \in JobIds, Retry(j)
      PROVE  RowsInOrder'
  <2>1. owner[j] \in Instances
    BY <1>2 DEF Retry, Present, Terminal
  <2>2. QED
    BY <1>1, <1>2, <2>1 DEF Retry
<1>3. ASSUME NEW j \in JobIds, Cancel(j) \/ Delete(j)
      PROVE  RowsInOrder'
  BY <1>3 DEF Cancel, Delete, Present, Terminal
<1>4. CASE ClearFinished
  BY <1>4 DEF ClearFinished, Terminal
<1>5. ASSUME NEW j \in JobIds, Kick(j)
      PROVE  RowsInOrder'
  BY <1>5 DEF Kick
<1>6. ASSUME NEW t \in Drainers, Claim(t) \/ ClaimError(t)
      PROVE  RowsInOrder'
  <2>1. \/ UNCHANGED status
        \/ \E j \in JobIds : /\ status[j] = "waiting"
                             /\ status' = [status EXCEPT ![j] = "running"]
    BY <1>6 DEF Claim, ClaimError, Oldest, WaitingOf
  <2>2. UNCHANGED <<owner, nextId, toKick, runs>>
    BY <1>6 DEF Claim, ClaimError
  <2>3. QED
    BY <2>1, <2>2
<1>7. ASSUME NEW t \in Drainers, Recheck(t) \/ RecheckError(t) \/ ReadPlan(t) \/ MarkError(t)
      PROVE  RowsInOrder'
  BY <1>7 DEF Recheck, RecheckError, ReadPlan, MarkError
<1>8. ASSUME NEW t \in Drainers, StartBody(t)
      PROVE  RowsInOrder'
  <2>1. task[t].job \in JobIds /\ status[task[t].job] \in {"running", "failed", "deleted"}
    BY <1>8, HoldsRow DEF StartBody, TasksInOrder, TaskInOrder
  <2>2. QED
    BY <1>8, <2>1 DEF StartBody
<1>9. ASSUME NEW t \in Drainers, FinishBody(t)
      PROVE  RowsInOrder'
  BY <1>9 DEF FinishBody
<1>10. ASSUME NEW t \in Drainers, Mark(t)
       PROVE  RowsInOrder'
  <2>1. task[t].job \in JobIds /\ status[task[t].job] \in {"running", "failed", "deleted"}
    BY <1>10, HoldsRow DEF Mark, TasksInOrder, TaskInOrder
  <2>2. QED
    BY <1>10, <2>1 DEF Mark, MarkedAs
<1>11. CASE ResumeReclaim
  BY <1>11 DEF ResumeReclaim
<1>12. CASE ResumeScan \/ (\E i \in Instances : ResumeKick(i)) \/ Restart
  BY <1>12 DEF ResumeScan, ResumeKick, Restart
<1>13. CASE UNCHANGED vars
  BY <1>13 DEF vars
<1> HIDE DEF CoreInv, TypeOK, RowsInOrder, JobIds
<1>14. QED
  BY <1>1, <1>2, <1>3, <1>4, <1>5, <1>6, <1>7, <1>8, <1>9, <1>10, <1>11, <1>12, <1>13
  DEF Next, Command, DrainerStep, Resume
(* Two drainers never hold the same row.                                   *)
LEMMA OneHolder ==
  ASSUME CoreInv, NEW t \in Drainers, NEW u \in Drainers,
         task[t].job # NoJob, task[u].job = task[t].job
  PROVE  t = u
BY DEF CoreInv, TasksInOrder, TaskInOrder, OneDrainerPerInstance, Live

(* A live drainer keeps its marker, and nobody takes the row it holds: a    *)
(* waiting row is held by no task, and only waiting rows are claimed.       *)
LEMMA TasksStep ==
  ASSUME CoreInv, [Next]_vars
  PROVE  TasksInOrder'
<1> SUFFICES ASSUME NEW u \in Drainers
             PROVE  TaskInOrder(u)'
  BY DEF TasksInOrder
<1>0. TaskInOrder(u)
  BY DEF CoreInv, TasksInOrder
<1> USE BoundsAssumption DEF CoreInv, TypeOK, TaskInOrder, Live,
        JobIds, NoJob, ledger, memory, history
<1>1. ASSUME NEW i \in Instances, Enqueue(i)
      PROVE  TaskInOrder(u)'
  BY <1>0, <1>1 DEF Enqueue, RowsInOrder
<1>2. ASSUME NEW j \in JobIds, Retry(j)
      PROVE  TaskInOrder(u)'
  <2>1. owner[j] \in Instances
    BY <1>2 DEF Retry, Present, Terminal, RowsInOrder
  <2>2. QED
    BY <1>0, <1>1, <1>2, <2>1 DEF Retry
<1>3. ASSUME NEW j \in JobIds, Cancel(j) \/ Delete(j)
      PROVE  TaskInOrder(u)'
  BY <1>0, <1>3 DEF Cancel, Delete
<1>4. CASE ClearFinished
  BY <1>0, <1>4 DEF ClearFinished
<1>5. ASSUME NEW i \in Instances, KickDrainer(i), UNCHANGED <<status, owner, runs, installed>>
      PROVE  TaskInOrder(u)'
  <2>1. CASE UNCHANGED <<drainers, task>>
    BY <1>0, <1>5, <2>1
  <2>2. CASE /\ i \notin drainers
             /\ drainers' = drainers \cup {i}
             /\ \E t \in Drainers :
                  /\ ~Live(t)
                  /\ task' = [task EXCEPT ![t] = [pc |-> "claim", inst |-> i, job |-> NoJob]]
    BY <1>0, <1>5, <2>2
  <2>3. QED
    BY <1>0, <1>5, <2>1, <2>2, KickStartsOne
<1>6. ASSUME NEW j \in JobIds, Kick(j)
      PROVE  TaskInOrder(u)'
  <2>1. owner[j] \in Instances
    BY <1>6 DEF Kick, RowsInOrder
  <2>2. QED
    BY <1>0, <1>5, <1>6, <2>1 DEF Kick
<1>7. ASSUME NEW t \in Drainers, Claim(t)
      PROVE  TaskInOrder(u)'
  <2>1. CASE \E j \in Oldest(WaitingOf(task[t].inst)) :
               status' = [status EXCEPT ![j] = "running"] /\ Goto(t, "plan", j)
    <3>1. PICK j \in JobIds : /\ status[j] = "waiting" /\ owner[j] = task[t].inst
                             /\ status' = [status EXCEPT ![j] = "running"]
                             /\ Goto(t, "plan", j)
      BY <2>1 DEF Oldest, WaitingOf
    <3>2. /\ task'[t].pc = "plan" /\ task'[t].inst = task[t].inst /\ task'[t].job = j
          /\ (u # t => task'[u] = task[u])
      BY <3>1, GotoEffect DEF PC
    <3>3. runs[j] = 0
      BY <3>1 DEF RowsInOrder
    <3>4. UNCHANGED <<drainers, owner, runs, installed>> /\ task[t].pc = "claim"
      BY <1>7 DEF Claim
    <3>5. QED
      BY <1>0, <3>1, <3>2, <3>3, <3>4
  <2>2. CASE Goto(t, "recheck", NoJob) /\ UNCHANGED status
    <3>1. /\ task'[t].pc = "recheck" /\ task'[t].inst = task[t].inst /\ task'[t].job = NoJob
          /\ (u # t => task'[u] = task[u])
      BY <2>2, GotoEffect DEF PC
    <3>2. QED
      BY <1>0, <1>7, <2>2, <3>1 DEF Claim
  <2>3. QED
    BY <1>0, <1>7, <2>1, <2>2 DEF Claim
<1>8. ASSUME NEW t \in Drainers, ClaimError(t)
      PROVE  TaskInOrder(u)'
  <2>1. task'[t] = Idle /\ (u # t => task'[u] = task[u])
    BY <1>8, ReturnEffect DEF ClaimError
  <2>2. \/ UNCHANGED status
        \/ \E j \in JobIds : /\ status[j] = "waiting"
                             /\ status' = [status EXCEPT ![j] = "running"]
    BY <1>8 DEF ClaimError, Oldest, WaitingOf
  <2>3. UNCHANGED <<drainers, owner, runs, installed>>
    BY <1>8 DEF ClaimError
  <2>4. QED
    BY <1>0, <2>1, <2>2, <2>3 DEF Idle
<1>9. ASSUME NEW t \in Drainers, Recheck(t)
      PROVE  TaskInOrder(u)'
  <2>1. UNCHANGED <<status, owner, runs, installed>> /\ task[t].pc = "recheck"
    BY <1>9 DEF Recheck
  <2>2. CASE drainers' = drainers \ {task[t].inst} /\ Return(t)
    <3>1. task'[t] = Idle /\ (u # t => task'[u] = task[u])
      BY <2>2, ReturnEffect
    <3>2. QED
      BY <1>0, <2>1, <2>2, <3>1 DEF Idle, OneDrainerPerInstance
  <2>3. CASE Goto(t, "claim", NoJob) /\ UNCHANGED drainers
    <3>1. /\ task'[t].pc = "claim" /\ task'[t].inst = task[t].inst /\ task'[t].job = NoJob
          /\ (u # t => task'[u] = task[u])
      BY <2>3, GotoEffect DEF PC
    <3>2. QED
      BY <1>0, <2>1, <2>3, <3>1
  <2>4. QED
    BY <1>0, <1>9, <2>2, <2>3 DEF Recheck
<1>10. ASSUME NEW t \in Drainers, RecheckError(t) \/ MarkError(t)
       PROVE  TaskInOrder(u)'
  <2>1. UNCHANGED <<status, owner, drainers, runs, installed>> /\ task[t].pc # "idle"
    BY <1>10 DEF RecheckError, MarkError
  <2>2. /\ task'[t].pc = "claim" /\ task'[t].inst = task[t].inst /\ task'[t].job = NoJob
        /\ (u # t => task'[u] = task[u])
    BY <1>10, GotoEffect DEF RecheckError, MarkError, PC
  <2>3. QED
    BY <1>0, <2>1, <2>2
<1>11. ASSUME NEW t \in Drainers, ReadPlan(t)
       PROVE  TaskInOrder(u)'
  <2>1. UNCHANGED <<status, owner, drainers, runs, installed>> /\ task[t].pc = "plan"
    BY <1>11 DEF ReadPlan
  <2>2. /\ task'[t].pc \in {"gate", "mark_failed"}
        /\ task'[t].inst = task[t].inst /\ task'[t].job = task[t].job
        /\ (u # t => task'[u] = task[u])
    BY <1>11, GotoEffect DEF ReadPlan, PC
  <2>3. QED
    BY <1>0, <2>1, <2>2
<1>12. ASSUME NEW t \in Drainers, StartBody(t)
       PROVE  TaskInOrder(u)'
  <2>1. /\ UNCHANGED <<status, owner, drainers, installed>>
        /\ task[t].pc = "gate" /\ task[t].job \in JobIds
        /\ runs' = [runs EXCEPT ![task[t].job] = @ + 1]
    BY <1>12, HoldsRow DEF StartBody
  <2>2. /\ task'[t].pc = "body" /\ task'[t].inst = task[t].inst /\ task'[t].job = task[t].job
        /\ (u # t => task'[u] = task[u])
    BY <1>12, <2>1, GotoEffect DEF StartBody, PC
  <2>3. u # t => task[u].job # task[t].job
    BY <2>1, OneHolder DEF Live
  <2>4. QED
    BY <1>0, <2>1, <2>2, <2>3
<1>13. ASSUME NEW t \in Drainers, FinishBody(t)
       PROVE  TaskInOrder(u)'
  <2>1. /\ UNCHANGED <<status, owner, drainers, runs>>
        /\ task[t].pc = "body" /\ task[t].job \in JobIds
        /\ installed \subseteq installed'
    BY <1>13, HoldsRow DEF FinishBody
  <2>2. /\ task'[t].pc \in {"mark_done", "mark_failed"}
        /\ task'[t].inst = task[t].inst /\ task'[t].job = task[t].job
        /\ task'[t].pc = "mark_done" => task[t].job \in installed'
        /\ (u # t => task'[u] = task[u])
    BY <1>13, <2>1, GotoEffect DEF FinishBody, PC
  <2>3. QED
    BY <1>0, <2>1, <2>2
<1>14. ASSUME NEW t \in Drainers, Mark(t)
       PROVE  TaskInOrder(u)'
  <2>1. /\ UNCHANGED <<owner, drainers, runs, installed>>
        /\ task[t].pc \in {"mark_done", "mark_failed"} /\ task[t].job \in JobIds
        /\ \A j \in JobIds : j # task[t].job => status'[j] = status[j]
    BY <1>14, HoldsRow DEF Mark
  <2>2. /\ task'[t].pc = "claim" /\ task'[t].inst = task[t].inst /\ task'[t].job = NoJob
        /\ (u # t => task'[u] = task[u])
    BY <1>14, GotoEffect DEF Mark, PC
  <2>3. u # t => task[u].job # task[t].job
    BY <2>1, OneHolder
  <2>4. QED
    BY <1>0, <2>1, <2>2, <2>3
<1>15. CASE ResumeReclaim
  <2>1. UNCHANGED <<task, owner, drainers, runs, installed>>
    BY <1>15 DEF ResumeReclaim
  <2>2. \A j \in JobIds : status[j] \in {"running", "failed", "deleted"}
                           => status'[j] \in {"running", "failed", "deleted"}
    BY <1>15 DEF ResumeReclaim
  <2>3. QED
    BY <1>0, <2>1, <2>2
<1>16. CASE ResumeScan
  BY <1>0, <1>16 DEF ResumeScan
<1>17. ASSUME NEW i \in Instances, ResumeKick(i)
       PROVE  TaskInOrder(u)'
  BY <1>0, <1>5, <1>17 DEF ResumeKick
<1>18. CASE Restart
  BY <1>0, <1>18 DEF Restart, Idle
<1>19. CASE UNCHANGED vars
  BY <1>0, <1>19 DEF vars
<1> HIDE DEF CoreInv, TypeOK, TaskInOrder, JobIds
<1>20. QED
  BY <1>0, <1>1, <1>2, <1>3, <1>4, <1>6, <1>7, <1>8, <1>9, <1>10, <1>11, <1>12, <1>13, <1>14,
     <1>15, <1>16, <1>17, <1>18, <1>19
  DEF Next, Command, DrainerStep, Resume
-----------------------------------------------------------------------------
(* No step moves a live task to another instance, and only a kick of an     *)
(* unmarked instance starts one.                                           *)
LEMMA TasksMove ==
  ASSUME CoreInv, [Next]_vars
  PROVE  \/ \A t \in Drainers : Live(t)' => Live(t) /\ task'[t].inst = task[t].inst
         \/ \E i \in Instances \ drainers, t \in Drainers :
              task' = [task EXCEPT ![t] = [pc |-> "claim", inst |-> i, job |-> NoJob]]
<1> DEFINE Same == \A t \in Drainers : Live(t)' => Live(t) /\ task'[t].inst = task[t].inst
           Started == \E i \in Instances \ drainers, t \in Drainers :
                        task' = [task EXCEPT ![t] = [pc |-> "claim", inst |-> i, job |-> NoJob]]
<1>1. TypeOK
  BY DEF CoreInv
<1>2. ASSUME NEW i \in Instances, KickDrainer(i)
      PROVE  Same \/ Started
  BY <1>2, KickStartsOne DEF Live
<1>3. ASSUME NEW t \in Drainers, NEW pc \in PC, NEW j \in JobIds \cup {NoJob},
             Goto(t, pc, j), Live(t)
      PROVE  Same
  BY <1>1, <1>3, GotoEffect DEF Live
<1>4. ASSUME NEW t \in Drainers, Return(t)
      PROVE  Same
  BY <1>1, <1>4, ReturnEffect DEF Live, Idle
<1>5. ASSUME task' = task
      PROVE  Same
  BY <1>5 DEF Live
<1>6. CASE Command \/ ResumeReclaim \/ ResumeScan \/ UNCHANGED vars
  BY <1>5, <1>6
  DEF Command, Enqueue, Retry, Cancel, Delete, ClearFinished, ResumeReclaim, ResumeScan, vars, memory
<1>7. ASSUME NEW j \in JobIds, Kick(j)
      PROVE  Same \/ Started
  <2>1. owner[j] \in Instances
    BY <1>7 DEF Kick, CoreInv, RowsInOrder
  <2>2. QED
    BY <1>2, <1>7, <2>1 DEF Kick
<1>8. ASSUME NEW i \in Instances, ResumeKick(i)
      PROVE  Same \/ Started
  BY <1>2, <1>8 DEF ResumeKick
<1>9. ASSUME NEW t \in Drainers, Claim(t) \/ ClaimError(t) \/ Recheck(t) \/ RecheckError(t)
      PROVE  Same
  BY <1>3, <1>4, <1>9
  DEF Claim, ClaimError, Recheck, RecheckError, Live, PC, Oldest, WaitingOf
<1>10. ASSUME NEW t \in Drainers,
              ReadPlan(t) \/ StartBody(t) \/ FinishBody(t) \/ Mark(t) \/ MarkError(t)
       PROVE  Same
  <2>1. Live(t)
    BY <1>10 DEF ReadPlan, StartBody, FinishBody, Mark, MarkError, Live
  <2>2. task[t].job \in JobIds \cup {NoJob}
    BY <1>1 DEF TypeOK
  <2>3. QED
    BY <1>3, <1>10, <2>1, <2>2 DEF ReadPlan, StartBody, FinishBody, Mark, MarkError, PC
<1>11. CASE Restart
  BY <1>11 DEF Restart, Live, Idle
<1>12. QED
  BY <1>6, <1>7, <1>8, <1>9, <1>10, <1>11 DEF Next, DrainerStep, Resume

LEMMA OneDrainerStep ==
  ASSUME CoreInv, [Next]_vars
  PROVE  OneDrainerPerInstance'
<1>1. CASE \A t \in Drainers : Live(t)' => Live(t) /\ task'[t].inst = task[t].inst
  BY <1>1 DEF CoreInv, OneDrainerPerInstance
<1>2. CASE \E i \in Instances \ drainers, t \in Drainers :
             task' = [task EXCEPT ![t] = [pc |-> "claim", inst |-> i, job |-> NoJob]]
  BY <1>2 DEF CoreInv, OneDrainerPerInstance, TasksInOrder, TaskInOrder, TypeOK, Live
<1>3. QED
  BY <1>1, <1>2, TasksMove

(* CoreInv is inductive.                                                   *)
LEMMA CoreInvariant == Spec => []CoreInv
<1>1. CoreInv /\ [Next]_vars => CoreInv'
  BY TypeStep, RowsStep, TasksStep, OneDrainerStep DEF CoreInv
<1>2. QED
  BY <1>1, CoreInit, PTL DEF Spec

(* The queue is always well typed.                                         *)
THEOREM QueueTypeCorrect == Spec => []TypeOK
<1>1. CoreInv => TypeOK
  BY DEF CoreInv
<1>2. QED
  BY <1>1, CoreInvariant, PTL

(* kick_drainer and drain_instance together: an instance never has two     *)
(* drainers, for every number of instances, tasks, restarts and errors.    *)
THEOREM OneDrainer == Spec => []OneDrainerPerInstance
<1>1. CoreInv => OneDrainerPerInstance
  BY DEF CoreInv
<1>2. QED
  BY <1>1, CoreInvariant, PTL
-----------------------------------------------------------------------------
(* A dispatch happens from the gate, where the row has never been run, and  *)
(* a verdict of done is only carried by a task whose plan returned Ok.      *)
LEMMA OutcomeStep ==
  ASSUME CoreInv, DispatchedAtMostOnce, OutcomeIsTrue, [Next]_vars
  PROVE  DispatchedAtMostOnce' /\ OutcomeIsTrue'
<1> SUFFICES ASSUME NEW j \in JobIds
             PROVE  /\ runs'[j] <= 1
                    /\ status'[j] = "done" => j \in installed'
                    /\ status'[j] = "cancelled" => runs'[j] = 0
  BY DEF DispatchedAtMostOnce, OutcomeIsTrue
<1> DEFINE Inv == /\ runs[j] <= 1
                  /\ status[j] = "done" => j \in installed
                  /\ status[j] = "cancelled" => runs[j] = 0
<1>0. /\ Inv
      /\ status \in [JobIds -> Status] /\ runs \in [JobIds -> Nat]
      /\ status[j] \in {"unborn", "waiting", "cancelled"} => runs[j] = 0
  BY DEF CoreInv, TypeOK, RowsInOrder, DispatchedAtMostOnce, OutcomeIsTrue
<1>1. ASSUME UNCHANGED <<runs, installed>>,
             status'[j] \in {status[j], "waiting", "running", "failed", "deleted"}
      PROVE  Inv'
  BY <1>0, <1>1
<1>2. ASSUME NEW i \in Instances, Enqueue(i)
      PROVE  Inv'
  BY <1>0, <1>1, <1>2 DEF Enqueue, history
<1>3. ASSUME NEW k \in JobIds, Retry(k)
      PROVE  Inv'
  <2>1. owner[k] \in Instances
    BY <1>3 DEF Retry, Present, Terminal, CoreInv, TypeOK, RowsInOrder, JobIds
  <2>2. QED
    BY <1>2, <1>3, <2>1 DEF Retry
<1>4. ASSUME NEW k \in JobIds, Cancel(k)
      PROVE  Inv'
  BY <1>0, <1>4 DEF Cancel, history
<1>5. ASSUME NEW k \in JobIds, Delete(k) \/ ClearFinished \/ Kick(k)
      PROVE  Inv'
  BY <1>0, <1>1, <1>5 DEF Delete, ClearFinished, Kick, ledger, history
<1>6. ASSUME NEW t \in Drainers, Claim(t) \/ ClaimError(t)
      PROVE  Inv'
  <2>1. UNCHANGED <<runs, installed>>
    BY <1>6 DEF Claim, ClaimError, history
  <2>2. status'[j] \in {status[j], "running"}
    BY <1>0, <1>6 DEF Claim, ClaimError, Oldest, WaitingOf
  <2>3. QED
    BY <1>1, <2>1, <2>2
<1>7. ASSUME NEW t \in Drainers, Recheck(t) \/ RecheckError(t) \/ ReadPlan(t) \/ MarkError(t)
      PROVE  Inv'
  BY <1>0, <1>1, <1>7 DEF Recheck, RecheckError, ReadPlan, MarkError, ledger, history
<1>8. ASSUME NEW t \in Drainers, StartBody(t)
      PROVE  Inv'
  <2>1. /\ task[t].job \in JobIds
        /\ runs[task[t].job] = 0
        /\ status[task[t].job] \in {"running", "failed", "deleted"}
    BY <1>8, HoldsRow DEF StartBody, CoreInv, TasksInOrder, TaskInOrder, JobIds, NoJob
  <2>2. QED
    BY <1>0, <1>8, <2>1 DEF StartBody, ledger
<1>9. ASSUME NEW t \in Drainers, FinishBody(t)
      PROVE  Inv'
  BY <1>0, <1>9 DEF FinishBody, ledger
<1>10. ASSUME NEW t \in Drainers, Mark(t)
       PROVE  Inv'
  <2>1. /\ task[t].pc \in {"mark_done", "mark_failed"}
        /\ task[t].pc = "mark_done" => task[t].job \in installed
    BY <1>10 DEF Mark, CoreInv, TasksInOrder, TaskInOrder
  <2>2. UNCHANGED <<runs, installed>>
    BY <1>10 DEF Mark, history
  <2>3. \/ status'[j] = status[j]
        \/ j = task[t].job /\ status'[j] = MarkedAs(task[t].pc)
    BY <1>0, <1>10 DEF Mark
  <2>4. QED
    BY <1>0, <2>1, <2>2, <2>3 DEF MarkedAs
<1>11. CASE Resume \/ Restart
  <2>1. UNCHANGED <<runs, installed>> /\ status'[j] \in {status[j], "failed"}
    BY <1>11 DEF Resume, ResumeReclaim, ResumeScan, ResumeKick, Restart, ledger, history
  <2>2. QED
    BY <1>1, <2>1
<1>12. CASE UNCHANGED vars
  BY <1>0, <1>1, <1>12 DEF vars, ledger, history
<1>13. QED
  BY <1>2, <1>3, <1>4, <1>5, <1>6, <1>7, <1>8, <1>9, <1>10, <1>11, <1>12
  DEF Next, Command, DrainerStep

(* drain_instance runs the plan of a row at most once, through every retry, *)
(* cancel, delete, crash and boot recovery; its done and cancelled verdicts *)
(* are true.                                                               *)
LEMMA OutcomeInvariant == Spec => [](DispatchedAtMostOnce /\ OutcomeIsTrue)
<1>1. Init => DispatchedAtMostOnce /\ OutcomeIsTrue
  BY DEF Init, DispatchedAtMostOnce, OutcomeIsTrue
<1>2. CoreInv /\ DispatchedAtMostOnce /\ OutcomeIsTrue /\ [Next]_vars
      => (DispatchedAtMostOnce /\ OutcomeIsTrue)'
  BY OutcomeStep
<1>3. QED
  BY <1>1, <1>2, CoreInvariant, PTL DEF Spec

(* One row, one install.                                                   *)
THEOREM NeverDispatchedTwice == Spec => []DispatchedAtMostOnce
BY OutcomeInvariant, PTL

(* A row that says done was installed; a cancelled one was never started.   *)
THEOREM OutcomesAreTrue == Spec => []OutcomeIsTrue
BY OutcomeInvariant, PTL
-----------------------------------------------------------------------------
(* What a step does to the set of taken rows and to the waiting ones: one   *)
(* row is submitted, one row is claimed, or nothing is added to either.     *)
LEMMA QueueMoves ==
  ASSUME CoreInv, [Next]_vars
  PROVE  \/ /\ \A k \in JobIds : Taken(k)' => Taken(k)
            /\ \A j \in JobIds : status'[j] = "waiting" => status[j] = "waiting"
            /\ UNCHANGED owner
         \/ \E i \in Instances : Enqueue(i)
         \/ \E t \in Drainers, j \in JobIds :
              /\ status[j] = "waiting" /\ owner[j] = task[t].inst
              /\ \A k \in WaitingOf(task[t].inst) : j <= k
              /\ status' = [status EXCEPT ![j] = "running"]
              /\ \A k \in JobIds : Taken(k)' => Taken(k) \/ k = j
              /\ UNCHANGED owner
<1> DEFINE NoneTaken == \A k \in JobIds : Taken(k)' => Taken(k)
           NoneWaits == \A j \in JobIds : status'[j] = "waiting" => status[j] = "waiting"
           Quiet == NoneTaken /\ NoneWaits /\ owner' = owner
           Claimed == \E t \in Drainers, j \in JobIds :
                        /\ status[j] = "waiting" /\ owner[j] = task[t].inst
                        /\ \A k \in WaitingOf(task[t].inst) : j <= k
                        /\ status' = [status EXCEPT ![j] = "running"]
                        /\ \A k \in JobIds : Taken(k)' => Taken(k) \/ k = j
                        /\ UNCHANGED owner
<1> SUFFICES \/ Quiet
             \/ \E i \in Instances : Enqueue(i)
             \/ Claimed
  OBVIOUS
<1>0. /\ TypeOK /\ NoJob \notin JobIds
      /\ status \in [JobIds -> Status] /\ runs \in [JobIds -> Nat]
  BY DEF CoreInv, TypeOK, JobIds, NoJob
<1>1. ASSUME UNCHANGED <<runs, task>>
      PROVE  NoneTaken
  BY <1>1 DEF Taken, Holds
<1>2. ASSUME NEW t \in Drainers, NEW pc \in PC, NEW j \in {task[t].job, NoJob},
             Goto(t, pc, j), UNCHANGED runs
      PROVE  NoneTaken
  <2>1. j \in JobIds \cup {NoJob}
    BY <1>0 DEF TypeOK
  <2>2. task'[t].job = j /\ \A u \in Drainers : u # t => task'[u] = task[u]
    BY <1>0, <1>2, <2>1, GotoEffect
  <2>3. QED
    BY <1>0, <1>2, <2>2 DEF Taken, Holds
<1>3. ASSUME NEW t \in Drainers, Return(t), UNCHANGED runs
      PROVE  NoneTaken
  <2>1. task'[t].job = NoJob /\ \A u \in Drainers : u # t => task'[u] = task[u]
    BY <1>0, <1>3, ReturnEffect DEF Idle
  <2>2. QED
    BY <1>0, <1>3, <2>1 DEF Taken, Holds
<1>4. ASSUME NEW i \in Instances, KickDrainer(i), UNCHANGED runs
      PROVE  NoneTaken
  <2>1. CASE task' = task
    BY <1>1, <1>4, <2>1
  <2>2. CASE \E t \in Drainers :
               task' = [task EXCEPT ![t] = [pc |-> "claim", inst |-> i, job |-> NoJob]]
    BY <1>0, <1>4, <2>2 DEF Taken, Holds, TypeOK
  <2>3. QED
    BY <1>4, <2>1, <2>2, KickStartsOne
<1>5. CASE \E i \in Instances : Enqueue(i)
  BY <1>5
<1>6. ASSUME NEW j \in JobIds, Retry(j)
      PROVE  \E i \in Instances : Enqueue(i)
  <2>1. owner[j] \in Instances
    BY <1>6 DEF Retry, Present, Terminal, CoreInv, TypeOK, RowsInOrder, JobIds
  <2>2. QED
    BY <1>6, <2>1 DEF Retry
<1>7. ASSUME ClearFinished \/ (\E j \in JobIds : Cancel(j) \/ Delete(j))
      PROVE  Quiet
  <2>1. UNCHANGED <<runs, task, owner>> /\ NoneWaits
    BY <1>0, <1>7 DEF Cancel, Delete, ClearFinished, memory, history
  <2>2. QED
    BY <1>1, <2>1
<1>8. ASSUME NEW j \in JobIds, Kick(j)
      PROVE  Quiet
  <2>1. owner[j] \in Instances
    BY <1>8 DEF Kick, CoreInv, RowsInOrder
  <2>2. QED
    BY <1>4, <1>8, <2>1 DEF Kick, ledger, history
<1>9. ASSUME NEW t \in Drainers, Claim(t)
      PROVE  Claimed \/ Quiet
  <2>1. CASE \E j \in Oldest(WaitingOf(task[t].inst)) :
               status' = [status EXCEPT ![j] = "running"] /\ Goto(t, "plan", j)
    <3>1. PICK j \in Oldest(WaitingOf(task[t].inst)) :
            status' = [status EXCEPT ![j] = "running"] /\ Goto(t, "plan", j)
      BY <2>1
    <3>8. /\ j \in JobIds /\ status[j] = "waiting" /\ owner[j] = task[t].inst
          /\ \A k \in WaitingOf(task[t].inst) : j <= k
      BY DEF Oldest, WaitingOf
    <3>6. "plan" \in PC /\ j \in JobIds \cup {NoJob}
      BY <3>8 DEF PC
    <3>2. task'[t].job = j /\ \A u \in Drainers : u # t => task'[u] = task[u]
      BY <1>0, <3>1, <3>6, <3>8, GotoEffect
    <3>3. owner' = owner /\ runs' = runs
      BY <1>9 DEF Claim, history
    <3>4. \A k \in JobIds : Taken(k)' => Taken(k) \/ k = j
      BY <3>2, <3>3 DEF Taken, Holds
    <3>5. Claimed
      BY <3>1, <3>3, <3>4, <3>8, Zenon
    <3>7. QED
      BY <3>5
  <2>2. CASE Goto(t, "recheck", NoJob) /\ UNCHANGED status
    <3>1. UNCHANGED <<owner, runs>>
      BY <1>9 DEF Claim, history
    <3>2. QED
      BY <1>2, <2>2, <3>1 DEF PC
  <2>3. QED
    BY <1>9, <2>1, <2>2 DEF Claim
<1>10. ASSUME NEW t \in Drainers, ClaimError(t)
       PROVE  Quiet
  <2>1. UNCHANGED <<owner, runs>> /\ Return(t)
    BY <1>10 DEF ClaimError, history
  <2>2. NoneWaits
    BY <1>0, <1>10 DEF ClaimError, Oldest, WaitingOf
  <2>3. QED
    BY <1>3, <2>1, <2>2
<1>11. ASSUME NEW t \in Drainers, Recheck(t) \/ RecheckError(t) \/ ReadPlan(t) \/ MarkError(t)
       PROVE  Quiet
  <2>1. UNCHANGED <<status, owner, runs>>
    BY <1>11 DEF Recheck, RecheckError, ReadPlan, MarkError, ledger, history
  <2>2. QED
    BY <1>2, <1>3, <1>11, <2>1 DEF Recheck, RecheckError, ReadPlan, MarkError, PC
<1>12. ASSUME NEW t \in Drainers, StartBody(t)
       PROVE  Quiet
  <2>1. task[t].job \in JobIds
    BY <1>0, <1>12, HoldsRow DEF StartBody, CoreInv
  <2>2. \A u \in Drainers : task'[u].job = task[u].job
    BY <1>0, <1>12, <2>1, GotoEffect DEF StartBody, PC
  <2>3. UNCHANGED <<status, owner>> /\ \A k \in JobIds : k # task[t].job => runs'[k] = runs[k]
    BY <1>0, <1>12 DEF StartBody, ledger
  <2>4. QED
    BY <2>2, <2>3 DEF Taken, Holds
<1>13. ASSUME NEW t \in Drainers, FinishBody(t) \/ Mark(t)
       PROVE  Quiet
  <2>1. UNCHANGED <<owner, runs>> /\ NoneWaits
    BY <1>0, <1>13 DEF FinishBody, Mark, MarkedAs, ledger, history
  <2>2. QED
    BY <1>2, <1>13, <2>1 DEF FinishBody, Mark, PC
<1>14. CASE ResumeReclaim \/ ResumeScan \/ UNCHANGED vars
  <2>1. UNCHANGED <<runs, task, owner>> /\ NoneWaits
    BY <1>0, <1>14 DEF ResumeReclaim, ResumeScan, vars, ledger, memory, history
  <2>2. QED
    BY <1>1, <2>1
<1>15. ASSUME NEW i \in Instances, ResumeKick(i)
       PROVE  Quiet
  BY <1>4, <1>15 DEF ResumeKick, ledger, history
<1>16. CASE Restart
  BY <1>0, <1>16 DEF Restart, ledger, Taken, Holds, Idle
<1> HIDE DEF NoneTaken, NoneWaits, Quiet, Claimed
<1>17. QED
  BY <1>5, <1>6, <1>7, <1>8, <1>9, <1>10, <1>11, <1>12, <1>13, <1>14, <1>15, <1>16
  DEF Next, Command, DrainerStep, Resume

LEMMA OrderStep ==
  ASSUME CoreInv, OldestTakenFirst, [Next]_vars
  PROVE  OldestTakenFirst'
<1> USE DEF OldestTakenFirst
<1>1. CASE /\ \A k \in JobIds : Taken(k)' => Taken(k)
           /\ \A j \in JobIds : status'[j] = "waiting" => status[j] = "waiting"
           /\ UNCHANGED owner
  BY <1>1
<1>2. ASSUME NEW i \in Instances, Enqueue(i)
      PROVE  OldestTakenFirst'
  <2>1. /\ nextId \in JobIds
        /\ \A k \in JobIds : Taken(k)' <=> Taken(k)
        /\ \A k \in JobIds : k # nextId => status'[k] = status[k] /\ owner'[k] = owner[k]
    BY <1>2 DEF Enqueue, history, Taken, Holds, CoreInv, TypeOK, JobIds
  <2>2. \A k \in JobIds : k >= nextId => ~Taken(k)
    BY DEF Taken, Holds, CoreInv, TypeOK, RowsInOrder, TasksInOrder, TaskInOrder, JobIds, NoJob
  <2>3. QED
    BY <2>1, <2>2, BoundsAssumption DEF JobIds
<1>3. ASSUME NEW t \in Drainers, NEW j \in JobIds,
             status[j] = "waiting", owner[j] = task[t].inst,
             \A k \in WaitingOf(task[t].inst) : j <= k,
             status' = [status EXCEPT ![j] = "running"],
             \A k \in JobIds : Taken(k)' => Taken(k) \/ k = j,
             UNCHANGED owner
      PROVE  OldestTakenFirst'
  <2>1. \A k \in JobIds : status'[k] = "waiting" => status[k] = "waiting" /\ k # j
    BY <1>3 DEF CoreInv, TypeOK
  <2>2. \A k \in JobIds : k < j /\ owner[k] = owner[j] => status[k] # "waiting"
    BY <1>3, BoundsAssumption DEF WaitingOf, JobIds
  <2>3. QED
    BY <1>3, <2>1, <2>2
<1>4. QED
  BY <1>1, <1>2, <1>3, QueueMoves

(* claim_next takes the oldest row and ids only grow, so no row of an       *)
(* instance is dispatched while an older one of it still waits.             *)
THEOREM OldestFirst == Spec => []NoOvertaking
<1>1. Init => OldestTakenFirst
  BY DEF Init, OldestTakenFirst
<1>2. CoreInv /\ OldestTakenFirst /\ [Next]_vars => OldestTakenFirst'
  BY OrderStep
<1>3. OldestTakenFirst => NoOvertaking
  BY DEF OldestTakenFirst, NoOvertaking, Taken
<1>4. QED
  BY <1>1, <1>2, <1>3, CoreInvariant, PTL DEF Spec
-----------------------------------------------------------------------------
Served(i) == \E t \in Drainers : Live(t) /\ task[t].inst = i

(* Somebody will look at the queue of instance i, or an error said nobody   *)
(* will.                                                                   *)
Attended(j) == \/ Served(owner[j])
               \/ j \in toKick
               \/ resume \in {"reclaim", "scan"} \/ owner[j] \in resumeIds
               \/ owner[j] \in faulted

WakeInv == NoStrandedRow /\ MarkersServed

(* A task that moves on serves the same instance as before.                 *)
LEMMA GotoServes ==
  ASSUME TypeOK, NEW t \in Drainers, NEW pc \in PC, NEW j \in JobIds \cup {NoJob},
         Goto(t, pc, j), NEW i, Served(i)
  PROVE  Served(i)'
<1>1. /\ task'[t].pc = pc /\ task'[t].inst = task[t].inst
      /\ \A u \in Drainers : u # t => task'[u] = task[u]
  BY GotoEffect
<1>2. pc # "idle"
  BY DEF PC
<1>3. QED
  BY <1>1, <1>2 DEF Served, Live

(* A kick leaves its instance served, and every other as it was.           *)
LEMMA KickServes ==
  ASSUME TypeOK, MarkersServed, NEW i \in Instances, KickDrainer(i)
  PROVE  /\ Served(i)' \/ i \in faulted'
         /\ \A k : Served(k) => Served(k)'
         /\ \A k : k # i /\ k \in faulted => k \in faulted'
         /\ \A k \in drainers' : k \in drainers \/ k = i
         /\ \A k \in faulted : k \in faulted' \/ Served(k)'
<1>1. CASE i \in drainers /\ UNCHANGED <<drainers, task, faulted>>
  BY <1>1 DEF MarkersServed, Served, Live
<1>2. ASSUME NEW t \in Drainers, ~Live(t), drainers' = drainers \cup {i},
             faulted' = faulted \ {i},
             task' = [task EXCEPT ![t] = [pc |-> "claim", inst |-> i, job |-> NoJob]]
      PROVE  /\ Served(i)'
             /\ \A k : Served(k) => Served(k)'
  <2>1. /\ task'[t] = [pc |-> "claim", inst |-> i, job |-> NoJob]
        /\ \A u \in Drainers : u # t => task'[u] = task[u]
    BY <1>2 DEF TypeOK
  <2>2. QED
    BY <1>2, <2>1 DEF Served, Live
<1>3. QED
  BY <1>1, <1>2, KickStartsOne

LEMMA WakeStep ==
  ASSUME CoreInv, WakeInv, [Next]_vars
  PROVE  WakeInv'
<1> DEFINE Attends == \A j \in JobIds : status[j] = "waiting" => Attended(j)
           Marks == \A i \in drainers : i \in faulted \/ Served(i)
<1>0. TypeOK /\ MarkersServed /\ Attends /\ Marks
  BY DEF CoreInv, WakeInv, NoStrandedRow, MarkersServed, Attended, Served
<1> SUFFICES Attends' /\ Marks'
  BY DEF WakeInv, NoStrandedRow, MarkersServed, Attended, Served
<1>1. ASSUME \A j \in JobIds : status'[j] = "waiting" => status[j] = "waiting",
             \A i : Served(i) => Served(i)',
             drainers' \subseteq drainers, faulted \subseteq faulted',
             UNCHANGED <<owner, toKick, resume, resumeIds>>
      PROVE  Attends' /\ Marks'
  BY <1>0, <1>1 DEF Attended
<1>2. ASSUME NEW i \in Instances, Enqueue(i)
      PROVE  Attends' /\ Marks'
  <2>1. /\ \A j \in JobIds : j # nextId => status'[j] = status[j] /\ owner'[j] = owner[j]
        /\ nextId \in toKick' \/ (owner'[nextId] = i /\ i \in faulted')
        /\ toKick \subseteq toKick' /\ faulted \subseteq faulted'
        /\ UNCHANGED <<drainers, task, resume, resumeIds>>
    BY <1>0, <1>2, BoundsAssumption DEF Enqueue, TypeOK, CoreInv, RowsInOrder, JobIds
  <2>2. \A k : Served(k) <=> Served(k)'
    BY <2>1 DEF Served, Live
  <2>3. QED
    BY <1>0, <2>1, <2>2 DEF Attended
<1>3. ASSUME NEW j \in JobIds, Retry(j)
      PROVE  Attends' /\ Marks'
  <2>1. owner[j] \in Instances
    BY <1>3 DEF Retry, Present, Terminal, CoreInv, TypeOK, RowsInOrder, JobIds
  <2>2. QED
    BY <1>2, <1>3, <2>1 DEF Retry
<1>4. CASE ClearFinished \/ (\E j \in JobIds : Cancel(j) \/ Delete(j))
  <2>1. UNCHANGED <<memory, owner, faulted>>
    BY <1>4 DEF ClearFinished, Cancel, Delete
  <2>2. \A j \in JobIds : status'[j] = "waiting" => status[j] = "waiting"
    BY <1>0, <1>4 DEF ClearFinished, Cancel, Delete, TypeOK
  <2>3. QED
    BY <1>1, <2>1, <2>2 DEF memory, Served, Live
<1>5. ASSUME NEW i \in Instances, KickDrainer(i), UNCHANGED <<status, owner>>,
             \A j \in toKick : j \in toKick' \/ owner[j] = i,
             resume' = resume,
             \A k \in resumeIds : k \in resumeIds' \/ k = i
      PROVE  Attends' /\ Marks'
  <2>1. /\ Served(i)' \/ i \in faulted'
        /\ \A k : Served(k) => Served(k)'
        /\ \A k \in drainers' : k \in drainers \/ k = i
        /\ \A k \in faulted : k \in faulted' \/ Served(k)'
    BY <1>0, <1>5, KickServes
  <2>2. Attends'
    BY <1>0, <1>5, <2>1 DEF Attended
  <2>3. Marks'
    BY <1>0, <2>1
  <2>4. QED
    BY <2>2, <2>3
<1>6. ASSUME NEW j \in JobIds, Kick(j)
      PROVE  Attends' /\ Marks'
  <2>1. owner[j] \in Instances
    BY <1>6 DEF Kick, CoreInv, RowsInOrder
  <2>2. QED
    BY <1>5, <1>6, <2>1 DEF Kick, ledger
<1>7. ASSUME NEW i \in Instances, ResumeKick(i)
      PROVE  Attends' /\ Marks'
  BY <1>5, <1>7 DEF ResumeKick, ledger
<1>8. ASSUME NEW t \in Drainers, NEW pc \in PC, NEW k \in JobIds \cup {NoJob}, Goto(t, pc, k),
             \A j \in JobIds : status'[j] = "waiting" => status[j] = "waiting",
             UNCHANGED <<owner, drainers, toKick, resume, resumeIds, faulted>>
      PROVE  Attends' /\ Marks'
  <2>1. \A i : Served(i) => Served(i)'
    BY <1>0, <1>8, GotoServes
  <2>2. QED
    BY <1>1, <1>8, <2>1
<1>9. ASSUME NEW t \in Drainers, Claim(t)
      PROVE  Attends' /\ Marks'
  <2>1. \A j \in JobIds : status'[j] = "waiting" => status[j] = "waiting"
    BY <1>0, <1>9 DEF Claim, Oldest, WaitingOf, TypeOK
  <2>2. UNCHANGED <<owner, drainers, toKick, resume, resumeIds, faulted>>
    BY <1>9 DEF Claim
  <2>3. \E pc \in PC, k \in JobIds \cup {NoJob} : Goto(t, pc, k)
    BY <1>9 DEF Claim, Oldest, WaitingOf, PC
  <2>4. QED
    BY <1>8, <2>1, <2>2, <2>3
<1>10. ASSUME NEW t \in Drainers, ClaimError(t)
       PROVE  Attends' /\ Marks'
  <2>1. /\ task'[t] = Idle
        /\ \A u \in Drainers : u # t => task'[u] = task[u]
    BY <1>0, <1>10, ReturnEffect DEF ClaimError
  <2>2. /\ faulted' = faulted \cup {task[t].inst}
        /\ UNCHANGED <<owner, drainers, toKick, resume, resumeIds>>
    BY <1>10 DEF ClaimError
  <2>3. \A i : Served(i) => Served(i)' \/ i \in faulted'
    BY <2>1, <2>2 DEF Served, Live
  <2>4. \A j \in JobIds : status'[j] = "waiting" => status[j] = "waiting"
    BY <1>0, <1>10 DEF ClaimError, Oldest, WaitingOf, TypeOK
  <2>5. QED
    BY <1>0, <2>2, <2>3, <2>4 DEF Attended
<1>11. ASSUME NEW t \in Drainers, Recheck(t)
       PROVE  Attends' /\ Marks'
  <2>1. UNCHANGED <<status, owner, toKick, resume, resumeIds, faulted>>
    BY <1>11 DEF Recheck, ledger
  <2>2. CASE WaitingOf(task[t].inst) = {} /\ drainers' = drainers \ {task[t].inst} /\ Return(t)
    <3>1. /\ task'[t] = Idle
          /\ \A u \in Drainers : u # t => task'[u] = task[u]
      BY <1>0, <2>2, ReturnEffect
    <3>2. \A i : Served(i) /\ i # task[t].inst => Served(i)'
      BY <3>1 DEF Served, Live
    <3>3. \A j \in JobIds : status[j] = "waiting" => owner[j] # task[t].inst
      BY <2>2 DEF WaitingOf
    <3>4. QED
      BY <1>0, <2>1, <2>2, <3>2, <3>3 DEF Attended
  <2>3. CASE Goto(t, "claim", NoJob) /\ UNCHANGED drainers
    BY <1>8, <2>1, <2>3 DEF PC
  <2>4. QED
    BY <1>11, <2>2, <2>3 DEF Recheck
<1>12. ASSUME NEW t \in Drainers, RecheckError(t) \/ ReadPlan(t) \/ StartBody(t)
                                  \/ FinishBody(t) \/ Mark(t) \/ MarkError(t)
       PROVE  Attends' /\ Marks'
  <2>1. UNCHANGED <<owner, drainers, toKick, resume, resumeIds, faulted>>
    BY <1>12 DEF RecheckError, ReadPlan, StartBody, FinishBody, Mark, MarkError, ledger
  <2>2. \A j \in JobIds : status'[j] = "waiting" => status[j] = "waiting"
    BY <1>0, <1>12
    DEF RecheckError, ReadPlan, StartBody, FinishBody, Mark, MarkedAs, MarkError, ledger, TypeOK
  <2>3. task[t].job \in JobIds \cup {NoJob}
    BY <1>0 DEF TypeOK
  <2>4. \E pc \in PC, k \in JobIds \cup {NoJob} : Goto(t, pc, k)
    BY <1>12, <2>3 DEF RecheckError, ReadPlan, StartBody, FinishBody, Mark, MarkError, PC
  <2>5. QED
    BY <1>8, <2>1, <2>2, <2>4
<1>13. CASE ResumeReclaim
  <2>1. /\ resume' = "scan" /\ UNCHANGED <<drainers, faulted, task>>
    BY <1>13 DEF ResumeReclaim
  <2>2. QED
    BY <1>0, <2>1 DEF Attended, Served, Live
<1>14. CASE ResumeScan
  <2>1. UNCHANGED <<status, owner, drainers, toKick, task>> /\ faulted \subseteq faulted'
    BY <1>14 DEF ResumeScan, ledger
  <2>2. \A j \in JobIds : status[j] = "waiting" =>
          owner[j] \in {i \in Instances : WaitingOf(i) # {}}
    BY DEF WaitingOf, CoreInv, TypeOK, RowsInOrder, JobIds
  <2>3. \A j \in JobIds : status[j] = "waiting" =>
          owner[j] \in resumeIds' \/ owner[j] \in faulted'
    BY <1>14, <2>2 DEF ResumeScan
  <2>4. QED
    BY <1>0, <2>1, <2>3 DEF Attended, Served, Live
<1>15. CASE Restart
  BY <1>15 DEF Restart, Attended
<1>16. CASE UNCHANGED vars
  BY <1>1, <1>16 DEF vars, ledger, memory, Served, Live
<1> HIDE DEF Attends, Marks
<1>17. QED
  BY <1>2, <1>3, <1>4, <1>6, <1>7, <1>9, <1>10, <1>11, <1>12, <1>13, <1>14, <1>15, <1>16
  DEF Next, Command, DrainerStep, Resume

(* No lost wake-up between enqueue, retire, cancel, boot resume and crash:  *)
(* only a store error strands a waiting row.                               *)
THEOREM NoRowIsStranded == Spec => []NoStrandedRow
<1>1. Init => WakeInv
  BY DEF Init, WakeInv, NoStrandedRow, MarkersServed
<1>2. CoreInv /\ WakeInv /\ [Next]_vars => WakeInv'
  BY WakeStep
<1>3. WakeInv => NoStrandedRow
  BY DEF WakeInv
<1>4. QED
  BY <1>1, <1>2, <1>3, CoreInvariant, PTL DEF Spec
-----------------------------------------------------------------------------
(* The refinement of InstallService: how a step moves the busy rows.       *)
Busy == {j \in JobIds : \E t \in Drainers : Holds(t, j)}

LEMMA GotoBusy ==
  ASSUME CoreInv, NEW t \in Drainers, NEW pc \in PC, NEW j \in JobIds \cup {NoJob},
         Goto(t, pc, j)
  PROVE  Busy' = (Busy \ {task[t].job}) \cup {k \in JobIds : k = j}
<1>1. /\ task'[t].job = j
      /\ \A u \in Drainers : u # t => task'[u] = task[u]
  BY GotoEffect DEF CoreInv
<1>2. \A u \in Drainers : task[u].job = task[t].job /\ task[t].job \in JobIds => u = t
  BY OneHolder DEF JobIds, NoJob
<1>3. ASSUME NEW k \in JobIds
      PROVE  k \in Busy' <=> (k \in Busy /\ k # task[t].job) \/ k = j
  BY <1>1, <1>2 DEF Busy, Holds
<1>4. QED
  BY <1>3 DEF Busy

LEMMA FreeBusy ==
  ASSUME CoreInv, NEW t \in Drainers, task[t].job = NoJob, task'[t].job = NoJob,
         \A u \in Drainers : u # t => task'[u] = task[u]
  PROVE  Busy' = Busy
BY DEF Busy, Holds

LEMMA KickBusy ==
  ASSUME CoreInv, NEW i, KickDrainer(i)
  PROVE  Busy' = Busy
<1>1. CASE task' = task
  BY <1>1 DEF Busy, Holds
<1>2. ASSUME NEW t \in Drainers, ~Live(t),
             task' = [task EXCEPT ![t] = [pc |-> "claim", inst |-> i, job |-> NoJob]]
      PROVE  Busy' = Busy
  <2>1. task[t].job = NoJob
    BY <1>2 DEF CoreInv, TasksInOrder, TaskInOrder, Live
  <2>2. task'[t].job = NoJob /\ \A u \in Drainers : u # t => task'[u] = task[u]
    BY <1>2 DEF CoreInv, TypeOK
  <2>3. QED
    BY <2>1, <2>2, FreeBusy
<1>3. QED
  BY <1>1, <1>2, KickStartsOne

(* A claim starts the oldest waiting row, of an instance nobody works on.  *)
LEMMA ClaimStarts ==
  ASSUME CoreInv, NEW t \in Drainers, Claim(t)
  PROVE  \/ \E j \in JobIds : Service!Start(j)
         \/ UNCHANGED <<status, owner, Busy>>
<1>0. task[t].pc = "claim" /\ task[t].job = NoJob /\ owner' = owner
  BY DEF Claim, CoreInv, TasksInOrder, TaskInOrder
<1>1. ASSUME NEW j \in Oldest(WaitingOf(task[t].inst)),
             status' = [status EXCEPT ![j] = "running"], Goto(t, "plan", j)
      PROVE  Service!Start(j)
  <2>1. /\ j \in JobIds /\ status[j] = "waiting" /\ owner[j] = task[t].inst
        /\ \A k \in JobIds : status[k] = "waiting" /\ owner[k] = owner[j] => j <= k
    BY DEF Oldest, WaitingOf
  <2>2. "plan" \in PC /\ j \in JobIds \cup {NoJob} /\ NoJob \notin JobIds
    BY <2>1 DEF PC, JobIds, NoJob
  <2>3. Busy' = Busy \cup {j}
    BY <1>0, <1>1, <2>1, <2>2, GotoBusy DEF Busy
  <2>4. \A k \in Busy : owner[k] # owner[j]
    <3>1. SUFFICES ASSUME NEW k \in JobIds, NEW u \in Drainers, task[u].job = k
                   PROVE  owner[k] # owner[j]
      BY DEF Busy, Holds
    <3>2. task[u].job # NoJob /\ u # t
      BY <1>0, <2>2, <3>1
    <3>3. owner[k] = task[u].inst /\ Live(u) /\ Live(t)
      BY <1>0, <3>1, <3>2 DEF CoreInv, TasksInOrder, TaskInOrder, Live
    <3>4. QED
      BY <2>1, <3>2, <3>3 DEF CoreInv, OneDrainerPerInstance
  <2>5. QED
    BY <1>0, <1>1, <2>1, <2>3, <2>4
    DEF Service!Start, Service!IsOldestWaiting, Service!JobIds, JobIds, Busy
<1>2. ASSUME Goto(t, "recheck", NoJob), UNCHANGED status
      PROVE  UNCHANGED <<status, owner, Busy>>
  <2>1. Busy' = Busy
    BY <1>0, <1>2, GotoBusy DEF Busy, PC, JobIds, NoJob
  <2>2. QED
    BY <1>0, <1>2, <2>1
<1>3. QED
  BY <1>1, <1>2 DEF Claim, Oldest, WaitingOf

(* A verdict, or the loss of one, finishes the row.                        *)
LEMMA MarkFinishes ==
  ASSUME CoreInv, NEW t \in Drainers, Mark(t) \/ MarkError(t)
  PROVE  \E j \in JobIds : Service!Finish(j)
<1> DEFINE j == task[t].job
<1>1. /\ j \in JobIds /\ owner' = owner /\ Goto(t, "claim", NoJob)
      /\ status[j] \in {"running", "failed", "deleted"}
  BY HoldsRow DEF Mark, MarkError, ledger, CoreInv, TasksInOrder, TaskInOrder, JobIds, NoJob
<1>2. j \in Busy /\ Busy' = Busy \ {j}
  BY <1>1, GotoBusy DEF Busy, Holds, PC, JobIds, NoJob
<1>3. \/ UNCHANGED status
      \/ /\ status[j] \in {"running", "failed"}
         /\ \E verdict \in {"done", "failed"} : status' = [status EXCEPT ![j] = verdict]
  <2>1. CASE Mark(t) /\ status[j] = "deleted"
    <3>1. status' = [status EXCEPT ![j] = "deleted"]
      BY <2>1 DEF Mark
    <3>2. QED
      BY <1>1, <2>1, <3>1 DEF CoreInv, TypeOK
  <2>2. CASE Mark(t) /\ status[j] # "deleted"
    BY <1>1, <2>2 DEF Mark, MarkedAs
  <2>3. CASE MarkError(t)
    BY <2>3 DEF MarkError, ledger
  <2>4. QED
    BY <2>1, <2>2, <2>3
<1>4. Service!Finish(j)
  BY <1>1, <1>2, <1>3 DEF Service!Finish, Busy
<1> HIDE DEF j
<1>5. QED
  BY <1>1, <1>4
(* Every step of the queue is a step of the service, or invisible to it.    *)
LEMMA QueueStepSimulates ==
  ASSUME CoreInv, [Next]_vars
  PROVE  [Service!Next]_(Service!vars)
<1> DEFINE Stutters == UNCHANGED <<status, owner, Busy>>
           Serves == Service!Next
<1> SUFFICES Serves \/ Stutters
  BY DEF Service!vars, Busy
<1>1. ASSUME NEW i \in Instances, Enqueue(i)
      PROVE  Serves
  <2>1. /\ nextId \in JobIds /\ status[nextId] = "unborn"
        /\ \A k \in JobIds : k < nextId => status[k] # "unborn"
    BY <1>1, BoundsAssumption DEF Enqueue, CoreInv, TypeOK, RowsInOrder, JobIds
  <2>2. Busy' = Busy
    BY <1>1 DEF Enqueue, Busy, Holds
  <2>3. Service!Submit(nextId, i)
    BY <1>1, <2>1, <2>2 DEF Enqueue, Service!Submit, Service!JobIds, JobIds, Busy
  <2>4. QED
    BY <2>1, <2>3 DEF Service!Next, Service!JobIds, JobIds
<1>2. ASSUME NEW j \in JobIds, Retry(j)
      PROVE  Serves
  <2>1. owner[j] \in Instances
    BY <1>2 DEF Retry, Present, Terminal, CoreInv, TypeOK, RowsInOrder, JobIds
  <2>2. QED
    BY <1>1, <1>2, <2>1 DEF Retry
<1>3. ASSUME NEW j \in JobIds, Cancel(j)
      PROVE  Serves
  <2>1. Service!Cancel(j)
    BY <1>3 DEF Cancel, memory, Holds, Service!Cancel
  <2>2. QED
    BY <2>1 DEF Service!Next, Service!JobIds, JobIds
<1>4. ASSUME NEW j \in JobIds, Delete(j)
      PROVE  Serves
  <2>1. status' = [k \in JobIds |-> IF k \in {j} THEN "deleted" ELSE status[k]]
    BY <1>4 DEF Delete, CoreInv, TypeOK
  <2>2. Service!Delete({j})
    BY <1>4, <2>1
    DEF Delete, memory, Holds, Present, Terminal,
        Service!Delete, Service!JobIds, Service!Present, Service!Terminal, JobIds
  <2>3. {j} \in SUBSET Service!JobIds
    BY DEF Service!JobIds, JobIds
  <2>4. QED
    BY <2>2, <2>3 DEF Service!Next
<1>5. CASE ClearFinished
  <2> DEFINE S == {j \in JobIds : status[j] \in Terminal}
  <2>1. Service!Delete(S)
    BY <1>5 DEF ClearFinished, memory, Holds, Terminal,
                Service!Delete, Service!JobIds, Service!Present, Service!Terminal, JobIds
  <2>2. S \in SUBSET Service!JobIds
    BY DEF Service!JobIds, JobIds
  <2> HIDE DEF S
  <2>3. QED
    BY <2>1, <2>2 DEF Service!Next
<1>6. ASSUME NEW j \in JobIds, Kick(j)
      PROVE  Stutters
  BY <1>6, KickBusy DEF Kick, ledger
<1>7. ASSUME NEW i \in Instances, ResumeKick(i)
      PROVE  Stutters
  BY <1>7, KickBusy DEF ResumeKick, ledger
<1>8. ASSUME NEW t \in Drainers, Claim(t)
      PROVE  Serves \/ Stutters
  BY <1>8, ClaimStarts DEF Service!Next, Service!JobIds, JobIds
<1>9. ASSUME NEW t \in Drainers, ClaimError(t)
      PROVE  Serves \/ Stutters
  <2>1. task[t].job = NoJob /\ owner' = owner
    BY <1>9 DEF ClaimError, CoreInv, TasksInOrder, TaskInOrder
  <2>2. task'[t].job = NoJob /\ \A u \in Drainers : u # t => task'[u] = task[u]
    BY <1>9, ReturnEffect DEF ClaimError, CoreInv, Idle
  <2>3. Busy' = Busy
    BY <2>1, <2>2, FreeBusy
  <2>4. ASSUME NEW j \in Oldest(WaitingOf(task[t].inst)),
               status' = [status EXCEPT ![j] = "running"]
        PROVE  Serves
    <3>1. /\ j \in JobIds /\ status[j] = "waiting" /\ owner[j] = task[t].inst
          /\ \A k \in JobIds : status[k] = "waiting" /\ owner[k] = owner[j] => j <= k
      BY DEF Oldest, WaitingOf
    <3>2. Service!Lose(j)
      BY <2>1, <2>3, <2>4, <3>1
      DEF Service!Lose, Service!IsOldestWaiting, Service!JobIds, JobIds, Busy
    <3>3. QED
      BY <3>1, <3>2 DEF Service!Next, Service!JobIds, JobIds
  <2>5. QED
    BY <1>9, <2>1, <2>3, <2>4 DEF ClaimError
<1>10. ASSUME NEW t \in Drainers, Recheck(t) \/ RecheckError(t)
       PROVE  Stutters
  <2>1. task[t].job = NoJob /\ UNCHANGED <<status, owner>>
    BY <1>10 DEF Recheck, RecheckError, ledger, CoreInv, TasksInOrder, TaskInOrder
  <2>2. CASE Return(t)
    <3>1. task'[t].job = NoJob /\ \A u \in Drainers : u # t => task'[u] = task[u]
      BY <2>2, ReturnEffect DEF CoreInv, Idle
    <3>2. QED
      BY <2>1, <3>1, FreeBusy
  <2>3. CASE Goto(t, "claim", NoJob)
    <3>1. task'[t].job = NoJob /\ \A u \in Drainers : u # t => task'[u] = task[u]
      BY <2>3, GotoEffect DEF CoreInv, PC
    <3>2. QED
      BY <2>1, <3>1, FreeBusy
  <2>4. QED
    BY <1>10, <2>2, <2>3 DEF Recheck, RecheckError
<1>11. ASSUME NEW t \in Drainers, ReadPlan(t) \/ StartBody(t) \/ FinishBody(t)
       PROVE  Stutters
  <2>1. task[t].job \in JobIds /\ UNCHANGED <<status, owner>>
    BY <1>11, HoldsRow DEF ReadPlan, StartBody, FinishBody, ledger, CoreInv
  <2>2. \E pc \in PC : Goto(t, pc, task[t].job)
    BY <1>11 DEF ReadPlan, StartBody, FinishBody, PC
  <2>3. Busy' = (Busy \ {task[t].job}) \cup {task[t].job}
    BY <2>1, <2>2, GotoBusy
  <2>4. task[t].job \in Busy
    BY <2>1 DEF Busy, Holds
  <2>5. QED
    BY <2>1, <2>3, <2>4
<1>12. ASSUME NEW t \in Drainers, Mark(t) \/ MarkError(t)
       PROVE  Serves
  BY <1>12, MarkFinishes DEF Service!Next, Service!JobIds, JobIds
<1>13. CASE ResumeReclaim
  <2>1. owner' = owner /\ Busy' = Busy
    BY <1>13 DEF ResumeReclaim, Busy, Holds
  <2>2. \E S \in SUBSET {j \in JobIds : status[j] = "running"} :
          status' = [j \in JobIds |-> IF j \in S THEN "failed" ELSE status[j]]
    BY <1>13 DEF ResumeReclaim
  <2>3. Service!Reclaim
    BY <2>1, <2>2 DEF Service!Reclaim, Service!JobIds, JobIds, Busy
  <2>4. QED
    BY <2>3 DEF Service!Next
<1>14. CASE ResumeScan \/ UNCHANGED vars
  BY <1>14 DEF ResumeScan, vars, ledger, memory, Busy, Holds
<1>15. CASE Restart
  <2>1. Busy' = {} /\ UNCHANGED <<status, owner>>
    BY <1>15 DEF Restart, ledger, Busy, Holds, Idle, JobIds, NoJob
  <2>2. Service!Abandon
    BY <2>1 DEF Service!Abandon, Busy
  <2>3. QED
    BY <2>2 DEF Service!Next
<1> HIDE DEF Serves, Stutters
<1>16. QED
  BY <1>1, <1>2, <1>3, <1>4, <1>5, <1>6, <1>7, <1>8, <1>9, <1>10, <1>11, <1>12, <1>13,
     <1>14, <1>15
  DEF Next, Command, DrainerStep, Resume

(* The drainers, markers, kicks and boot recovery implement the service of  *)
(* InstallService, for all constants.                                      *)
THEOREM QueueImplementsService == Spec => ImplementsService
<1>1. Init => Service!Init
  BY DEF Init, Idle, Holds, Service!Init, Service!JobIds, JobIds, NoJob
<1>2. CoreInv /\ [Next]_vars => [Service!Next]_(Service!vars)
  BY QueueStepSimulates
<1>3. QED
  BY <1>1, <1>2, CoreInvariant, PTL DEF Spec, ImplementsService, Service!Spec

-----------------------------------------------------------------------------
(* A terminal verdict changes only by deletion, or under a live drainer's   *)
(* own row when boot recovery reclaimed it.                                *)
THEOREM VerdictsAreFinal == Spec => VerdictIsFinal
<1> DEFINE Final == \A j \in JobIds :
                      status[j] \in Terminal /\ status'[j] # status[j] =>
                        status'[j] = "deleted" \/ \E t \in Drainers : Holds(t, j)
<1>1. ASSUME CoreInv, [Next]_vars
      PROVE  Final
  <2> SUFFICES ASSUME NEW j \in JobIds, status[j] \in Terminal, status'[j] # status[j],
                      ~ \E t \in Drainers : Holds(t, j)
               PROVE  status'[j] = "deleted"
    OBVIOUS
  <2>1. status \in [JobIds -> Status] /\ (j >= nextId => status[j] = "unborn")
    BY <1>1 DEF CoreInv, TypeOK, RowsInOrder
  <2>2. CASE Command
    BY <2>1, <2>2, BoundsAssumption
    DEF Command, Enqueue, Retry, Cancel, Delete, ClearFinished, Terminal, JobIds
  <2>3. ASSUME NEW t \in Drainers, DrainerStep(t)
        PROVE  status'[j] = "deleted"
    <3>1. task[t].job # j
      BY DEF Holds
    <3>2. CASE Claim(t) \/ ClaimError(t)
      BY <2>1, <3>2 DEF Claim, ClaimError, Oldest, WaitingOf, Terminal
    <3>3. CASE Mark(t)
      BY <2>1, <3>1, <3>3 DEF Mark
    <3>4. QED
      BY <2>3, <3>2, <3>3
      DEF DrainerStep, Recheck, RecheckError, ReadPlan, StartBody, FinishBody, MarkError, ledger
  <2>4. CASE Resume \/ Restart \/ (\E k \in JobIds : Kick(k)) \/ UNCHANGED vars
    BY <2>1, <2>4 DEF Resume, ResumeReclaim, ResumeScan, ResumeKick, Restart, Kick, vars, ledger,
                      Terminal
  <2>5. QED
    BY <1>1, <2>2, <2>3, <2>4 DEF Next
<1>2. QED
  BY <1>1, CoreInvariant, PTL DEF Spec, VerdictIsFinal
=============================================================================
