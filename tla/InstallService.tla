--------------------------- MODULE InstallService ---------------------------
(***************************************************************************)
(* What the Install Center promises, with no drainers, markers, kicks or   *)
(* boot sequence in it: rows that are started oldest first, at most one at *)
(* a time per instance, and that end with one verdict. InstallQueue        *)
(* implements it.                                                          *)
(***************************************************************************)
EXTENDS Naturals

CONSTANTS Instances, NoInstance, MaxJobs

JobIds   == 1..MaxJobs
Terminal == {"done", "failed", "cancelled"}
Present  == Terminal \cup {"waiting", "running"}

VARIABLES
  status,  \* row id -> status
  owner,   \* row id -> instance
  busy     \* rows some worker is on

vars == <<status, owner, busy>>

IsOldestWaiting(j) ==
  /\ status[j] = "waiting"
  /\ \A k \in JobIds : status[k] = "waiting" /\ owner[k] = owner[j] => j <= k

Init ==
  /\ status = [j \in JobIds |-> "unborn"]
  /\ owner = [j \in JobIds |-> NoInstance]
  /\ busy = {}

Submit(j, i) ==
  /\ status[j] = "unborn"
  /\ \A k \in JobIds : k < j => status[k] # "unborn"
  /\ status' = [status EXCEPT ![j] = "waiting"]
  /\ owner' = [owner EXCEPT ![j] = i]
  /\ UNCHANGED busy

(* A worker takes the oldest waiting row of an instance nobody works on.   *)
Start(j) ==
  /\ IsOldestWaiting(j)
  /\ \A k \in busy : owner[k] # owner[j]
  /\ status' = [status EXCEPT ![j] = "running"]
  /\ busy' = busy \cup {j}
  /\ UNCHANGED owner

(* The worker lets go of a row that is running, was reclaimed as failed or *)
(* deleted meanwhile. The verdict may not reach the ledger.                *)
Finish(j) ==
  /\ j \in busy
  /\ busy' = busy \ {j}
  /\ \/ UNCHANGED status
     \/ /\ status[j] \in {"running", "failed"}
        /\ \E verdict \in {"done", "failed"} : status' = [status EXCEPT ![j] = verdict]
  /\ UNCHANGED owner

(* A row that was about to be started is lost: running, with no worker.    *)
Lose(j) ==
  /\ IsOldestWaiting(j)
  /\ status' = [status EXCEPT ![j] = "running"]
  /\ UNCHANGED <<owner, busy>>

Cancel(j) ==
  /\ status[j] = "waiting"
  /\ status' = [status EXCEPT ![j] = "cancelled"]
  /\ UNCHANGED <<owner, busy>>

Delete(S) ==
  /\ \A j \in S : status[j] \in Present
  /\ status' = [j \in JobIds |-> IF j \in S THEN "deleted" ELSE status[j]]
  /\ UNCHANGED <<owner, busy>>

(* A new process works on nothing ...                                      *)
Abandon == busy' = {} /\ UNCHANGED <<status, owner>>

(* ... and fails the rows the last one left running, as far as it gets.    *)
Reclaim ==
  /\ \E S \in SUBSET {j \in JobIds : status[j] = "running"} :
       status' = [j \in JobIds |-> IF j \in S THEN "failed" ELSE status[j]]
  /\ UNCHANGED <<owner, busy>>

Next ==
  \/ \E j \in JobIds : \/ \E i \in Instances : Submit(j, i)
                       \/ Start(j) \/ Finish(j) \/ Lose(j) \/ Cancel(j)
  \/ \E S \in SUBSET JobIds : Delete(S)
  \/ Abandon
  \/ Reclaim

Spec == Init /\ [][Next]_vars
=============================================================================
