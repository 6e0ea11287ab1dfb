--------------------------- MODULE ChildSupervisor ---------------------------
(***************************************************************************)
(* The supervisor of the one harness child (src-tauri/src/commands/        *)
(* process.rs, launcher-core/src/process.rs): launch, safe launch and its  *)
(* ladder, stop, the state poll, the exit watcher and the background wait  *)
(* of a slow boot, over one shared child slot and one session id.          *)
(*                                                                         *)
(* A launch attempt is a number. Its history row, its process and its      *)
(* background tasks carry the same number. Every stretch of code between   *)
(* two awaits is a step. Nothing is assumed of the heavy-job gate: it is   *)
(* per instance, the ladder does not take it, and JobGate shows it can     *)
(* admit two.                                                              *)
(***************************************************************************)
EXTENDS Naturals

CONSTANTS
  Instances,    \* instance ids
  MaxAttempts   \* bound: launches, the ladder's own ones included

ASSUME AttemptsAssumption == MaxAttempts \in Nat \ {0}
ASSUME InstancesExist == Instances # {}  \* the last one cannot be deleted

Attempts == 1..MaxAttempts
None     == 0

Tiers == {"normal", "plugins", "minimal"}
Narrower(tier) == IF tier = "plugins" THEN {"minimal"} ELSE {}  \* SafeTier::next

Live == {"starting", "running", "degraded"}  \* ProcessStatus that counts as up
Over == {"crashed", "stopped"}

VARIABLES
  slot,       \* AppState.child
  slotLock,   \* the background task that holds the slot's mutex across an await
  session,    \* AppState.session_id
  row,        \* attempt -> status of its launch_sessions row
  ledger,     \* attempts whose process has a row in the PID ledger
  escalating, \* AppState.safe_escalating
  next,       \* number of the next attempt
  at,         \* attempt -> its position in do_launch, instance, tier, child it is stopping
  alive,      \* attempts whose process tree is up
  status,     \* attempt -> ChildHandle's status
  killed,     \* live attempts whose watcher was told to kill: stop() or a dropped handle
  background, \* attempt -> position of its background boot wait
  exiting,    \* attempt -> status its exit sink has yet to handle
  stopping    \* attempts a do_stop has taken and awaits

locks  == <<slotLock, escalating>>
books  == <<session, row, ledger>>
procs  == <<alive, status, killed>>
tasks  == <<background, exiting, stopping>>
vars   == <<slot, locks, books, next, at, procs, tasks>>

PC == {"unborn", "prepare", "lock", "await_stop", "prepare_env", "spawn", "record",
       "await_url", "finalize", "store", "store_dead", "returned"}

Unborn == [pc |-> "unborn", inst |-> CHOOSE i \in Instances : TRUE,
           tier |-> "normal", victim |-> None]

Init ==
  /\ slot = None
  /\ slotLock = None
  /\ session = None
  /\ row = [n \in Attempts |-> "none"]
  /\ ledger = {}
  /\ escalating = FALSE
  /\ next = 1
  /\ at = [n \in Attempts |-> Unborn]
  /\ alive = {}
  /\ status = [n \in Attempts |-> "none"]
  /\ killed = {}
  /\ background = [n \in Attempts |-> "none"]
  /\ exiting = [n \in Attempts |-> "none"]
  /\ stopping = {}

-----------------------------------------------------------------------------
SlotFree == slotLock = None

(* An empty slot reads as ProcessState::stopped().                         *)
SlotStatus == IF slot = None THEN "stopped" ELSE status[slot]

(* Mutant of CloseSession: the id is read and not taken.                   *)
CloseAndKeep(verdict) ==
  /\ row' = IF session = None THEN row ELSE [row EXCEPT ![session] = verdict]
  /\ UNCHANGED session

(* Mutant of CloseSession: a verdict the history does not know.            *)
CloseInterrupted(verdict) ==
  /\ session' = None
  /\ row' = IF session = None THEN row ELSE [row EXCEPT ![session] = "interrupted"]

(* close_session: takes whichever session id is current.                   *)
CloseSession(verdict) ==
  /\ session' = None
  /\ row' = IF session = None THEN row ELSE [row EXCEPT ![session] = verdict]

Goto(n, pc) == at' = [at EXCEPT ![n].pc = pc]

(* Mutant of StoreInSlot: the old handle is leaked instead of dropped.      *)
StoreAndLeak(n) == slot' = n /\ UNCHANGED killed

(* *guard = Some(child): the handle that was there is dropped, which tells  *)
(* its watcher to kill.                                                     *)
StoreInSlot(n) ==
  /\ slot' = n
  /\ killed' = killed \cup ((alive \cap {slot}) \ {n})

Begin(i, tier, pc) == [pc |-> pc, inst |-> i, tier |-> tier, victim |-> None]

-----------------------------------------------------------------------------
(* launch                                                                  *)
Launch(i) ==
  /\ next <= MaxAttempts
  /\ next' = next + 1
  /\ at' = [at EXCEPT ![next] = Begin(i, "normal", "lock")]
  /\ UNCHANGED <<slot, locks, books, procs, tasks>>

(* safe_launch resets the once-only guard before anything else. The only   *)
(* caller, the recovery panel, starts at the upper tier.                   *)
SafeLaunch(i) ==
  /\ next <= MaxAttempts
  /\ next' = next + 1
  /\ at' = [at EXCEPT ![next] = Begin(i, "plugins", "prepare")]
  /\ escalating' = FALSE
  /\ UNCHANGED <<slot, slotLock, books, procs, tasks>>

(* do_safe_launch: dsh judges the scratch profile; a refusal climbs here,   *)
(* without the guard, and at the bottom the command fails.                  *)
PrepareSafe(n) ==
  /\ at[n].pc = "prepare"
  /\ \/ Goto(n, "lock")
     \/ \E tier \in Narrower(at[n].tier) : at' = [at EXCEPT ![n].tier = tier]
     \/ Goto(n, "returned")
  /\ UNCHANGED <<slot, locks, books, next, procs, tasks>>

(* The first block of do_launch, under the slot's mutex.                   *)
LookAtSlot(n) ==
  /\ at[n].pc = "lock"
  /\ SlotFree
  /\ \/ /\ SlotStatus \in Live
        /\ at[slot].inst = at[n].inst /\ at[n].tier = "normal"
        /\ Goto(n, "returned")
        /\ UNCHANGED <<slot, killed>>
     \/ /\ SlotStatus \in Live
        /\ ~(at[slot].inst = at[n].inst /\ at[n].tier = "normal")
        /\ at' = [at EXCEPT ![n].pc = "await_stop", ![n].victim = slot]
        /\ slot' = None
        /\ killed' = killed \cup (alive \cap {slot})
     \/ /\ SlotStatus \notin Live
        /\ Goto(n, "prepare_env")
        /\ UNCHANGED <<slot, killed>>
  /\ UNCHANGED <<locks, books, next, alive, status, tasks>>

(* handle.stop() joins the old child's watcher; then its books are closed.  *)
SwitchedOff(n) ==
  /\ at[n].pc = "await_stop"
  /\ at[n].victim \notin alive
  /\ at' = [at EXCEPT ![n].pc = "prepare_env", ![n].victim = None]
  /\ ledger' = ledger \ {at[n].victim}
  /\ CloseSession("stopped")
  /\ UNCHANGED <<slot, locks, next, procs, tasks>>

(* Settings, manifest, provider, environment and usage proxy; any of them   *)
(* may fail the command. Then the session row opens.                        *)
PrepareEnv(n) ==
  /\ at[n].pc = "prepare_env"
  /\ \/ /\ Goto(n, "spawn")
        /\ row' = [row EXCEPT ![n] = "running"]
        /\ session' = n
     \/ Goto(n, "returned") /\ UNCHANGED <<row, session>>
  /\ UNCHANGED <<slot, locks, ledger, next, procs, tasks>>

Spawn(n) ==
  /\ at[n].pc = "spawn"
  /\ \/ /\ Goto(n, "record")
        /\ alive' = alive \cup {n}
        /\ status' = [status EXCEPT ![n] = "starting"]
        /\ UNCHANGED <<session, row>>
     \/ /\ Goto(n, "returned")
        /\ CloseSession("crashed")
        /\ UNCHANGED <<alive, status>>
  /\ UNCHANGED <<slot, locks, ledger, next, killed, tasks>>

(* The guard is cleared for a safe child and the PID goes to the ledger.    *)
RecordPid(n) ==
  /\ at[n].pc = "record"
  /\ Goto(n, "await_url")
  /\ escalating' = (escalating /\ at[n].tier = "normal")
  /\ ledger' = ledger \cup {n}
  /\ UNCHANGED <<slot, slotLock, session, row, next, procs, tasks>>

(* The URL or the 20 s ceiling, then one look at the process.              *)
AwaitUrl(n) ==
  /\ at[n].pc = "await_url"
  /\ \/ /\ status[n] \in Over
        /\ Goto(n, "store_dead")
        /\ UNCHANGED background
     \/ /\ status[n] \notin Over
        /\ Goto(n, "finalize")
        /\ UNCHANGED background
     \/ /\ status[n] \notin Over
        /\ Goto(n, "store")
        /\ background' = [background EXCEPT ![n] = "watch"]
  /\ UNCHANGED <<slot, locks, books, next, procs, exiting, stopping>>

StoreDead(n) ==
  /\ at[n].pc = "store_dead"
  /\ SlotFree
  /\ StoreInSlot(n)
  /\ Goto(n, "returned")
  /\ IF status[n] = "crashed" THEN CloseSession("crashed") ELSE UNCHANGED <<session, row>>
  /\ UNCHANGED <<locks, ledger, next, alive, status, tasks>>

(* finalize_ready: after the port and the root answered or timed out, the   *)
(* status is set whatever became of the process.                            *)
Finalize(n) ==
  /\ at[n].pc = "finalize"
  /\ Goto(n, "store")
  /\ status' = [status EXCEPT ![n] = "running"]
  /\ UNCHANGED <<slot, locks, books, next, alive, killed, tasks>>

Store(n) ==
  /\ at[n].pc = "store"
  /\ SlotFree
  /\ StoreInSlot(n)
  /\ Goto(n, "returned")
  /\ UNCHANGED <<locks, books, next, alive, status, tasks>>

-----------------------------------------------------------------------------
(* escalate_safe_mode: once-only guard, then a safe launch one tier down   *)
(* that takes no gate.                                                     *)
Escalate(n) ==
  IF at[n].tier = "normal" \/ escalating
  THEN UNCHANGED <<escalating, next, at>>
  ELSE /\ escalating' = TRUE
       /\ IF Narrower(at[n].tier) = {}
          THEN UNCHANGED <<next, at>>
          ELSE /\ next <= MaxAttempts
               /\ next' = next + 1
               /\ \E tier \in Narrower(at[n].tier) :
                    at' = [at EXCEPT ![next] = Begin(at[n].inst, tier, "prepare")]

(* Mutant of LateUrl: the slot's guard is dropped before finalize_ready.    *)
LateUrlUnlocked(n) ==
  /\ background[n] \in {"watch", "degraded"}
  /\ SlotFree
  /\ background' = [background EXCEPT ![n] = IF slot = n THEN "finalize" ELSE "none"]
  /\ UNCHANGED <<slot, locks, books, next, at, procs, exiting, stopping>>

(* The background wait of a slow boot: the URL lands. If this child is not  *)
(* in the slot, the URL is dropped for good.                                *)
LateUrl(n) ==
  /\ background[n] \in {"watch", "degraded"}
  /\ SlotFree
  /\ \/ /\ slot = n
        /\ slotLock' = n
        /\ background' = [background EXCEPT ![n] = "finalize"]
     \/ /\ slot # n
        /\ background' = [background EXCEPT ![n] = "none"]
        /\ UNCHANGED slotLock
  /\ UNCHANGED <<slot, escalating, books, next, at, procs, exiting, stopping>>

(* Mutant of LateFinalize: the guard outlives the task.                    *)
LateFinalizeHolds(n) ==
  /\ background[n] = "finalize"
  /\ status' = [status EXCEPT ![n] = "running"]
  /\ background' = [background EXCEPT ![n] = "none"]
  /\ UNCHANGED <<slot, locks, books, next, at, alive, killed, exiting, stopping>>

(* finalize_ready again, this time with the slot's mutex held throughout.   *)
LateFinalize(n) ==
  /\ background[n] = "finalize"
  /\ status' = [status EXCEPT ![n] = "running"]
  /\ slotLock' = None
  /\ background' = [background EXCEPT ![n] = "none"]
  /\ UNCHANGED <<slot, escalating, books, next, at, alive, killed, exiting, stopping>>

(* Two minutes of silence, far longer than do_launch still needs to store  *)
(* the child.                                                              *)
Degrade(n) ==
  /\ at[n].pc = "returned"
  /\ background[n] = "watch"
  /\ SlotFree
  /\ background' = [background EXCEPT ![n] = "degraded"]
  /\ status' = IF slot = n THEN [status EXCEPT ![n] = "degraded"] ELSE status
  /\ Escalate(n)
  /\ UNCHANGED <<slot, slotLock, books, alive, killed, exiting, stopping>>

(* The log channel closes once the process is gone and do_launch returned.  *)
WatchEnds(n) ==
  /\ background[n] \in {"watch", "degraded"}
  /\ n \notin alive
  /\ at[n].pc = "returned"
  /\ background' = [background EXCEPT ![n] = "none"]
  /\ UNCHANGED <<slot, locks, books, next, at, procs, exiting, stopping>>

-----------------------------------------------------------------------------
(* The watcher sees an exit it was not told to bring about.                *)
ProcessExits(n) ==
  /\ n \in alive \ killed
  /\ alive' = alive \ {n}
  /\ \E verdict \in {IF status[n] \in {"starting", "running"} THEN "crashed" ELSE "stopped"} :
       /\ status' = [status EXCEPT ![n] = verdict]
       /\ exiting' = [exiting EXCEPT ![n] = verdict]
  /\ UNCHANGED <<slot, locks, books, next, at, killed, background, stopping>>

(* The watcher kills the tree it was told to kill, unless the tree was      *)
(* quicker. Its handle has left the slot for good, so nobody reads the      *)
(* status again and the sink's task will find nothing to do.               *)
KillTree(n) ==
  /\ n \in killed
  /\ alive' = alive \ {n}
  /\ killed' = killed \ {n}
  /\ status' = [status EXCEPT ![n] = "stopped"]
  /\ UNCHANGED <<slot, locks, books, next, at, tasks>>

(* The on_exit sink's task: it cleans up only if the slot still holds this  *)
(* child. It leaves the PID ledger alone.                                   *)
OnExit(n) ==
  /\ exiting[n] \in Over
  /\ SlotFree
  /\ exiting' = [exiting EXCEPT ![n] = "none"]
  /\ \/ /\ slot = n
        /\ slot' = None
        /\ CloseSession(exiting[n])
        /\ IF exiting[n] = "crashed"
           THEN Escalate(n)
           ELSE UNCHANGED <<escalating, next, at>>
     \/ /\ slot # n
        /\ UNCHANGED <<slot, session, row, escalating, next, at>>
  /\ UNCHANGED <<slotLock, ledger, procs, background, stopping>>

-----------------------------------------------------------------------------
(* Mutant of Stop: the ledger row is dropped before the tree is down.      *)
StopForgetsFirst ==
  /\ SlotFree
  /\ slot # None
  /\ slot' = None
  /\ killed' = killed \cup (alive \cap {slot})
  /\ stopping' = stopping \cup {slot}
  /\ ledger' = ledger \ {slot}
  /\ UNCHANGED <<locks, session, row, next, at, alive, status, background, exiting>>

(* stop, and the close button of the DSH window.                           *)
Stop ==
  /\ SlotFree
  /\ slot # None
  /\ slot' = None
  /\ killed' = killed \cup (alive \cap {slot})
  /\ stopping' = stopping \cup {slot}
  /\ UNCHANGED <<locks, books, next, at, alive, status, background, exiting>>

Stopped(n) ==
  /\ n \in stopping
  /\ n \notin alive
  /\ stopping' = stopping \ {n}
  /\ ledger' = ledger \ {n}
  /\ CloseSession("stopped")
  /\ UNCHANGED <<slot, locks, next, at, procs, background, exiting>>

(* process_state, polled every 1.5 s: an ended child, or no child at all,   *)
(* closes the current session as crashed.                                   *)
Poll ==
  /\ SlotFree
  /\ SlotStatus \in Over
  /\ session # None
  /\ CloseSession("crashed")
  /\ slot' = None
  /\ ledger' = ledger \ {slot}
  /\ UNCHANGED <<locks, next, at, procs, tasks>>

-----------------------------------------------------------------------------
LaunchStep(n) ==
  \/ LookAtSlot(n) \/ SwitchedOff(n) \/ PrepareEnv(n) \/ Spawn(n) \/ RecordPid(n)
  \/ AwaitUrl(n) \/ StoreDead(n) \/ Finalize(n) \/ Store(n)

Background(n) == LateUrl(n) \/ LateFinalize(n) \/ Degrade(n) \/ WatchEnds(n)

Next ==
  \/ \E i \in Instances : Launch(i) \/ SafeLaunch(i)
  \/ Stop
  \/ Poll
  \/ \E n \in Attempts :
       \/ PrepareSafe(n) \/ LaunchStep(n) \/ Background(n)
       \/ ProcessExits(n) \/ KillTree(n) \/ OnExit(n) \/ Stopped(n)

Spec == Init /\ [][Next]_vars

(* do_launch is polled, every wait in it is bounded (20 s for the URL, 5 s  *)
(* and 2 s in finalize_ready), and a kill request is carried out. Nothing   *)
(* is assumed of the harness, the user or dsh's judgement of a safe profile. *)
Fairness ==
  \A n \in Attempts :
    WF_vars(LaunchStep(n)) /\ WF_vars(LateFinalize(n)) /\ WF_vars(KillTree(n))

FairSpec == Spec /\ Fairness

-----------------------------------------------------------------------------
TypeOK ==
  /\ slot \in Attempts \cup {None}
  /\ slotLock \in Attempts \cup {None}
  /\ session \in Attempts \cup {None}
  /\ row \in [Attempts -> {"none", "running", "stopped", "crashed"}]
  /\ ledger \subseteq Attempts
  /\ escalating \in BOOLEAN
  /\ next \in 1..(MaxAttempts + 1)
  /\ at \in [Attempts -> [pc : PC, inst : Instances, tier : Tiers,
                          victim : Attempts \cup {None}]]
  /\ alive \subseteq Attempts
  /\ status \in [Attempts -> Live \cup Over \cup {"none"}]
  /\ killed \subseteq Attempts
  /\ background \in [Attempts -> {"none", "watch", "degraded", "finalize"}]
  /\ exiting \in [Attempts -> Over \cup {"none"}]
  /\ stopping \subseteq Attempts

(* No unmanaged tree: a harness that is up is in the slot, on its way      *)
(* there, or has been told to die.                                         *)
Booting == {n \in Attempts : at[n].pc \in {"record", "await_url", "finalize", "store", "store_dead"}}

NoUnmanagedTree == alive \subseteq {slot} \cup Booting \cup killed

(* A tree that is up has its row in the PID ledger, or is in the instant   *)
(* between spawn and record: a crash of the launcher at any other moment   *)
(* leaves a row by which the next sweep can reap it.                       *)
LiveTreeIsRecorded == \A n \in alive : n \in ledger \/ at[n].pc = "record"

(* A history row gets one verdict.                                         *)
RowClosedOnce ==
  [][\A n \in Attempts : row[n] \in Over => row'[n] = row[n]]_vars

(* The child in the slot is only finalized while the slot's mutex is held  *)
(* by its own background task, so no stop, launch or poll swaps it away.   *)
FinalizedInPlace == \A n \in Attempts : background[n] = "finalize" => slot = n

(* A launch that got past the safe-profile check returns.                  *)
LaunchReturns ==
  \A n \in Attempts : at[n].pc \notin {"unborn", "prepare"} ~> at[n].pc = "returned"

(* "if the child ended on its own (crash) but its session row was never    *)
(* closed, close it now": a row is only closed when its harness is over.   *)
ClosedRowIsOver ==
  \A n \in Attempts : row[n] \in Over => n \notin alive /\ at[n].pc # "spawn"

(* "launching a different instance while one is up stops the old one       *)
(* first": two instances never have a tree up that nobody told to die.     *)
OneInstanceAtATime ==
  \A m, n \in alive \ killed : at[m].inst = at[n].inst
=============================================================================
