---------------------------- MODULE InstallQueue ----------------------------
(***************************************************************************)
(* The durable install queue of the desktop shell: the SQLite job ledger   *)
(* (launcher-core/src/jobs.rs), the per-instance drainer tasks             *)
(* (src-tauri/src/jobs.rs) and the Install Center commands                 *)
(* (src-tauri/src/commands/jobs.rs), across restarts of the launcher.      *)
(*                                                                         *)
(* Every JobStore method runs under one connection mutex, so it is one     *)
(* step here; whatever the callers do between two methods is another.      *)
(* Rows are AUTOINCREMENT ids: an id is never reused.                      *)
(***************************************************************************)
EXTENDS Naturals, FiniteSets

CONSTANTS
  Instances,   \* instance ids
  Drainers,    \* identities for spawned drainer tasks
  NoInstance,  \* the home of a drainer identity that runs no task
  MaxJobs,     \* bound: rows ever created
  MaxRestarts, \* bound: exits of the launcher process
  MaxFaults    \* bound: store calls that return Err

ASSUME InstancesAssumption == NoInstance \notin Instances
ASSUME BoundsAssumption == /\ MaxJobs \in Nat \ {0}
                           /\ MaxRestarts \in Nat
                           /\ MaxFaults \in Nat

JobIds == 1..MaxJobs
NoJob  == 0

Terminal == {"done", "failed", "cancelled"}
Present  == Terminal \cup {"waiting", "running"}
Status   == Present \cup {"unborn", "deleted"}

VARIABLES
  \* the ledger: what survives the process
  status,     \* row id -> JobStatus; "unborn" before INSERT, "deleted" after DELETE
  owner,      \* row id -> instance_id column
  nextId,     \* AUTOINCREMENT counter
  \* process memory
  drainers,   \* AppState.drainers: instance ids marked as being drained
  task,       \* drainer task -> its position, its instance, the row it holds
  toKick,     \* rows inserted by an enqueue_install that has yet to kick_drainer
  resume,     \* position of resume_pending_jobs
  resumeIds,  \* the instance ids it has yet to kick
  \* history, read by no action's guard
  runs,       \* row id -> how often its plan was dispatched
  installed,  \* rows whose plan returned Ok
  faulted,    \* instances whose wake-up was lost to a store error
  restarts, faults

ledger  == <<status, owner, nextId>>
memory  == <<drainers, task, toKick, resume, resumeIds>>
history == <<runs, installed, restarts>>
vars    == <<ledger, memory, history, faulted, faults>>

PC    == {"claim", "recheck", "plan", "gate", "body", "mark_done", "mark_failed"}
Idle  == [pc |-> "idle", inst |-> NoInstance, job |-> NoJob]
Live(t)     == task[t].pc # "idle"
Holds(t, j) == task[t].job = j

(* Mutant of Oldest: newest first, ORDER BY with the direction wrong.       *)
Newest(S) == {j \in S : \A k \in S : k <= j}

WaitingOf(i) == {j \in JobIds : status[j] = "waiting" /\ owner[j] = i}
Oldest(S)    == {j \in S : \A k \in S : j <= k}

-----------------------------------------------------------------------------
Init ==
  /\ status = [j \in JobIds |-> "unborn"]
  /\ owner = [j \in JobIds |-> NoInstance]
  /\ nextId = 1
  /\ drainers = {}
  /\ task = [t \in Drainers |-> Idle]
  /\ toKick = {}
  /\ resume = "reclaim"
  /\ resumeIds = {}
  /\ runs = [j \in JobIds |-> 0]
  /\ installed = {}
  /\ faulted = {}
  /\ restarts = 0
  /\ faults = 0

(* A store call that returns Err, within the bound.                        *)
StoreError == faults < MaxFaults /\ faults' = faults + 1

-----------------------------------------------------------------------------
(* JobStore::create inserts the waiting row; the caller kicks afterwards,  *)
(* or not at all when only the read-back of the new row failed.            *)
Enqueue(i) ==
  /\ nextId <= MaxJobs
  /\ status' = [status EXCEPT ![nextId] = "waiting"]
  /\ owner' = [owner EXCEPT ![nextId] = i]
  /\ nextId' = nextId + 1
  /\ \/ toKick' = toKick \cup {nextId} /\ UNCHANGED <<faulted, faults>>
     \/ StoreError /\ faulted' = faulted \cup {i} /\ UNCHANGED toKick
  /\ UNCHANGED <<drainers, task, resume, resumeIds, history>>

(* jobs_retry copies any row that still exists, whatever its status.       *)
Retry(j) == status[j] \in Present /\ Enqueue(owner[j])

(* Mutant of KickDrainer: spawns whatever the marker says.                 *)
KickAlways(i) ==
  /\ \E t \in Drainers :
       /\ ~Live(t)
       /\ task' = [task EXCEPT ![t] = [pc |-> "claim", inst |-> i, job |-> NoJob]]
  /\ drainers' = drainers \cup {i}
  /\ faulted' = faulted \ {i}

(* Mutant of KickDrainer: the marker is set and the spawn forgotten.       *)
KickMarksOnly(i) == drainers' = drainers \cup {i} /\ UNCHANGED <<task, faulted>>

(* kick_drainer: HashSet::insert decides, under the marker lock, who spawns. *)
(* Which identity the new task gets does not matter.                         *)
KickDrainer(i) ==
  \/ /\ i \in drainers
     /\ UNCHANGED <<drainers, task, faulted>>
  \/ /\ i \notin drainers
     /\ \E t \in Drainers : ~Live(t)
     /\ LET t == CHOOSE u \in Drainers : ~Live(u) IN
          task' = [task EXCEPT ![t] = [pc |-> "claim", inst |-> i, job |-> NoJob]]
     /\ drainers' = drainers \cup {i}
     /\ faulted' = faulted \ {i}

Kick(j) ==
  /\ j \in toKick
  /\ toKick' = toKick \ {j}
  /\ KickDrainer(owner[j])
  /\ UNCHANGED <<ledger, resume, resumeIds, history, faults>>

(* Mutant of Cancel: without the status guard.                             *)
CancelAny(j) ==
  /\ status[j] \in Present
  /\ status' = [status EXCEPT ![j] = "cancelled"]
  /\ UNCHANGED <<owner, nextId, memory, history, faulted, faults>>

(* jobs_cancel -> cancel_if_waiting: only a waiting row flips.             *)
Cancel(j) ==
  /\ status[j] = "waiting"
  /\ status' = [status EXCEPT ![j] = "cancelled"]
  /\ UNCHANGED <<owner, nextId, memory, history, faulted, faults>>

(* jobs_delete has no status guard: a running row can be deleted.          *)
Delete(j) ==
  /\ status[j] \in Present
  /\ status' = [status EXCEPT ![j] = "deleted"]
  /\ UNCHANGED <<owner, nextId, memory, history, faulted, faults>>

ClearFinished ==
  /\ \E j \in JobIds : status[j] \in Terminal
  /\ status' = [j \in JobIds |-> IF status[j] \in Terminal THEN "deleted" ELSE status[j]]
  /\ UNCHANGED <<owner, nextId, memory, history, faulted, faults>>

-----------------------------------------------------------------------------
(* A task reaching its next position, with the row it then holds.          *)
Goto(t, pc, j) == task' = [task EXCEPT ![t].pc = pc, ![t].job = j]
Return(t)      == task' = [task EXCEPT ![t] = Idle]

(* claim_next: the oldest waiting row of the instance becomes running.     *)
Claim(t) ==
  LET waiting == WaitingOf(task[t].inst) IN
  /\ task[t].pc = "claim"
  /\ \/ \E j \in Oldest(waiting) :
          /\ status' = [status EXCEPT ![j] = "running"]
          /\ Goto(t, "plan", j)
     \/ /\ waiting = {}
        /\ Goto(t, "recheck", NoJob)
        /\ UNCHANGED status
  /\ UNCHANGED <<owner, nextId, drainers, toKick, resume, resumeIds, history, faulted, faults>>

(* claim_next fails: drain_instance returns and its marker stays. The row  *)
(* may already be running when only the read-back failed.                  *)
ClaimError(t) ==
  /\ task[t].pc = "claim"
  /\ StoreError
  /\ Return(t)
  /\ faulted' = faulted \cup {task[t].inst}
  /\ \/ UNCHANGED status
     \/ \E j \in Oldest(WaitingOf(task[t].inst)) :
          status' = [status EXCEPT ![j] = "running"]
  /\ UNCHANGED <<owner, nextId, drainers, toKick, resume, resumeIds, history>>

(* Mutant of Recheck: retires on the empty claim, without a second look.    *)
RetireAtOnce(t) ==
  /\ task[t].pc = "recheck"
  /\ drainers' = drainers \ {task[t].inst}
  /\ Return(t)
  /\ UNCHANGED <<ledger, toKick, resume, resumeIds, history, faulted, faults>>

(* The second look at the queue, under the marker lock, before retiring.   *)
Recheck(t) ==
  /\ task[t].pc = "recheck"
  /\ \/ /\ WaitingOf(task[t].inst) = {}
        /\ drainers' = drainers \ {task[t].inst}
        /\ Return(t)
     \/ /\ WaitingOf(task[t].inst) # {}
        /\ Goto(t, "claim", NoJob)
        /\ UNCHANGED drainers
  /\ UNCHANGED <<ledger, toKick, resume, resumeIds, history, faulted, faults>>

(* waiting_count failed: unwrap_or(1) keeps the drainer alive.             *)
RecheckError(t) ==
  /\ task[t].pc = "recheck"
  /\ StoreError
  /\ Goto(t, "claim", NoJob)
  /\ UNCHANGED <<ledger, drainers, toKick, resume, resumeIds, history, faulted>>

(* execute_job reads the plan; a deleted row or an undecodable plan fails it. *)
ReadPlan(t) ==
  /\ task[t].pc = "plan"
  /\ \/ /\ status[task[t].job] # "deleted"
        /\ Goto(t, "gate", task[t].job)
     \/ Goto(t, "mark_failed", task[t].job)
  /\ UNCHANGED <<ledger, drainers, toKick, resume, resumeIds, history, faulted, faults>>

(* run_instance_job admits the install and dispatch_plan starts (JobGate   *)
(* says when).                                                             *)
StartBody(t) ==
  /\ task[t].pc = "gate"
  /\ Goto(t, "body", task[t].job)
  /\ runs' = [runs EXCEPT ![task[t].job] = @ + 1]
  /\ UNCHANGED <<ledger, drainers, toKick, resume, resumeIds, installed, restarts,
                 faulted, faults>>

FinishBody(t) ==
  /\ task[t].pc = "body"
  /\ \/ /\ Goto(t, "mark_done", task[t].job)
        /\ installed' = installed \cup {task[t].job}
     \/ /\ Goto(t, "mark_failed", task[t].job)
        /\ UNCHANGED installed
  /\ UNCHANGED <<ledger, drainers, toKick, resume, resumeIds, runs, restarts,
                 faulted, faults>>

(* Mutant of MarkedAs: a failed install is marked done.                    *)
MarkedDone(pc) == "done"

(* Mutant of MarkedAs: a string JobStatus does not know.                   *)
MarkedError(pc) == IF pc = "mark_done" THEN "done" ELSE "error"

(* mark_done / mark_failed write by id, whatever the row says by then; on  *)
(* a deleted row the UPDATE matches nothing.                               *)
MarkedAs(pc) == IF pc = "mark_done" THEN "done" ELSE "failed"

Mark(t) ==
  /\ task[t].pc \in {"mark_done", "mark_failed"}
  /\ Goto(t, "claim", NoJob)
  /\ status' = [status EXCEPT ![task[t].job] =
                  IF @ = "deleted" THEN @ ELSE MarkedAs(task[t].pc)]
  /\ UNCHANGED <<owner, nextId, drainers, toKick, resume, resumeIds, history,
                 faulted, faults>>

(* The outcome cannot be written: logged or dropped, and the row stays running. *)
MarkError(t) ==
  /\ task[t].pc \in {"mark_done", "mark_failed"}
  /\ StoreError
  /\ Goto(t, "claim", NoJob)
  /\ UNCHANGED <<ledger, drainers, toKick, resume, resumeIds, history, faulted>>

-----------------------------------------------------------------------------
(* Mutant of ResumeReclaim: interrupted rows are queued again.             *)
ResumeRequeue ==
  /\ resume = "reclaim"
  /\ resume' = "scan"
  /\ status' = [j \in JobIds |-> IF status[j] = "running" THEN "waiting" ELSE status[j]]
  /\ UNCHANGED <<owner, nextId, drainers, task, toKick, resumeIds, history, faulted, faults>>

(* resume_pending_jobs, spawned by setup: interrupt_stale_running(0) fails  *)
(* every running row, or some of them before a store error ...             *)
ResumeReclaim ==
  LET running == {j \in JobIds : status[j] = "running"} IN
  /\ resume = "reclaim"
  /\ resume' = "scan"
  /\ \E S \in SUBSET running :
       /\ status' = [j \in JobIds |-> IF j \in S THEN "failed" ELSE status[j]]
       /\ \/ S = running /\ UNCHANGED faults
          \/ StoreError
  /\ UNCHANGED <<owner, nextId, drainers, task, toKick, resumeIds, history, faulted>>

(* ... then waiting_instance_ids; an error returns without any kick ...    *)
ResumeScan ==
  LET ids == {i \in Instances : WaitingOf(i) # {}} IN
  /\ resume = "scan"
  /\ resume' = "kick"
  /\ \/ resumeIds' = ids /\ UNCHANGED <<faulted, faults>>
     \/ /\ StoreError
        /\ faulted' = faulted \cup ids
        /\ UNCHANGED resumeIds
  /\ UNCHANGED <<ledger, drainers, task, toKick, history>>

(* ... then kick_drainer for each id.                                      *)
ResumeKick(i) ==
  /\ resume = "kick"
  /\ i \in resumeIds
  /\ resumeIds' = resumeIds \ {i}
  /\ KickDrainer(i)
  /\ UNCHANGED <<ledger, toKick, resume, history, faults>>

(* The process exits at any point and is started again: only the ledger    *)
(* survives.                                                               *)
Restart ==
  /\ restarts < MaxRestarts
  /\ restarts' = restarts + 1
  /\ drainers' = {}
  /\ task' = [t \in Drainers |-> Idle]
  /\ toKick' = {}
  /\ resume' = "reclaim"
  /\ resumeIds' = {}
  /\ faulted' = {}
  /\ UNCHANGED <<ledger, runs, installed, faults>>

-----------------------------------------------------------------------------
Command ==
  \/ \E i \in Instances : Enqueue(i)
  \/ \E j \in JobIds : Retry(j) \/ Cancel(j) \/ Delete(j)
  \/ ClearFinished

DrainerStep(t) ==
  \/ Claim(t) \/ ClaimError(t) \/ Recheck(t) \/ RecheckError(t) \/ ReadPlan(t)
  \/ StartBody(t) \/ FinishBody(t) \/ Mark(t) \/ MarkError(t)

Resume == ResumeReclaim \/ ResumeScan \/ (\E i \in Instances : ResumeKick(i))

Next ==
  \/ Command
  \/ \E j \in JobIds : Kick(j)
  \/ \E t \in Drainers : DrainerStep(t)
  \/ Resume
  \/ Restart

Spec == Init /\ [][Next]_vars

(* The runtime keeps polling spawned tasks. Nothing is assumed of StartBody  *)
(* and FinishBody: the gate may hold an install back and a sub-process may   *)
(* run for ever.                                                             *)
Fairness ==
  /\ WF_vars(Resume)
  /\ \A j \in JobIds : WF_vars(Kick(j))
  /\ \A t \in Drainers : WF_vars(Claim(t) \/ Recheck(t) \/ ReadPlan(t) \/ Mark(t))

FairSpec == Spec /\ Fairness

-----------------------------------------------------------------------------
TypeOK ==
  /\ status \in [JobIds -> Status]
  /\ owner \in [JobIds -> Instances \cup {NoInstance}]
  /\ nextId \in 1..(MaxJobs + 1)
  /\ drainers \subseteq Instances
  /\ task \in [Drainers -> [pc : PC \cup {"idle"}, inst : Instances \cup {NoInstance},
                            job : JobIds \cup {NoJob}]]
  /\ toKick \subseteq JobIds
  /\ resume \in {"reclaim", "scan", "kick"}
  /\ resumeIds \subseteq Instances
  /\ runs \in [JobIds -> Nat]
  /\ installed \subseteq JobIds
  /\ faulted \subseteq Instances
  /\ restarts \in Nat
  /\ faults \in Nat

(* "Ensure exactly one drainer is running": two live drainer tasks never   *)
(* serve the same instance, whatever enqueues, retries, boot resume and    *)
(* store errors do (kick_drainer, drain_instance).                         *)
OneDrainerPerInstance ==
  \A t, u \in Drainers : Live(t) /\ Live(u) /\ task[t].inst = task[u].inst => t = u

(* No lost wake-up: a waiting row has a live drainer, or somebody who is   *)
(* still about to kick one. A store error while enqueueing, while claiming *)
(* or while scanning at boot is the only way to strand a row.              *)
NoStrandedRow ==
  \A j \in JobIds : status[j] = "waiting" =>
    \/ \E t \in Drainers : Live(t) /\ task[t].inst = owner[j]
    \/ j \in toKick
    \/ resume \in {"reclaim", "scan"} \/ owner[j] \in resumeIds
    \/ owner[j] \in faulted

(* One row, one install: whatever is retried, cancelled, deleted, crashed  *)
(* or reclaimed, the plan of a row is dispatched at most once.             *)
DispatchedAtMostOnce == \A j \in JobIds : runs[j] <= 1

(* A row only says done if its own plan returned Ok, and a cancelled row   *)
(* was never dispatched.                                                   *)
OutcomeIsTrue ==
  \A j \in JobIds : /\ status[j] = "done" => j \in installed
                    /\ status[j] = "cancelled" => runs[j] = 0

(* Oldest first, per instance: once a row has been dispatched, no older    *)
(* row of its instance is still waiting.                                   *)
NoOvertaking ==
  \A j, k \in JobIds :
    j < k /\ owner[j] = owner[k] /\ runs[k] > 0 => status[j] # "waiting"

(* A terminal row keeps its verdict until it is deleted. The one exception *)
(* is a row a live drainer still holds, which boot recovery can reclaim    *)
(* under it.                                                               *)
VerdictIsFinal ==
  [][\A j \in JobIds :
       status[j] \in Terminal /\ status'[j] # status[j] =>
         status'[j] = "deleted" \/ \E t \in Drainers : Holds(t, j)]_vars

(* A queue never idles: while an instance has waiting rows, one of its     *)
(* rows is eventually claimed, or the queue empties, unless a store error  *)
(* lost the wake-up.                                                       *)
QueueNeverIdles ==
  \A i \in Instances :
    WaitingOf(i) # {} ~> \/ WaitingOf(i) = {}
                         \/ \E t \in Drainers : task[t].inst = i /\ task[t].job # NoJob
                         \/ i \in faulted

(* The queue implements the service a user sees: see InstallService.       *)
Service ==
  INSTANCE InstallService WITH busy <- {j \in JobIds : \E t \in Drainers : Holds(t, j)}

ImplementsService == Service!Spec

(* The comment on the claim error: the marker is dropped, so the next      *)
(* enqueue spawns a new drainer. Hence a marked instance has a live one.   *)
MarkerMeansDrainer ==
  \A i \in drainers : \E t \in Drainers : Live(t) /\ task[t].inst = i
=============================================================================
