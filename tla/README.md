# A TLA+ model of dsh-launcher

dsh-launcher is a Tauri desktop application that installs, configures, starts
and supervises the DeepSeek Harness (`dsh`). This directory holds the models of
its control logic, the TLC configurations that check them, and TLAPS proofs of
the properties that matter most.

## 1. The system

| Part | Where | State it keeps | Operations |
|---|---|---|---|
| Install Center | `launcher-core/src/jobs.rs`, `src-tauri/src/jobs.rs`, `commands/jobs.rs` | `install_jobs` table (durable); `AppState.drainers` marker set | enqueue, retry, cancel, delete, clear; one drainer task per instance; reclaim and resume at boot |
| Heavy-job gate | `src-tauri/src/jobs.rs` | per instance: `active`, `waiting_launches`, a `Notify` | `run_instance_job` around every launch, install, refresh, probe |
| Harness supervisor | `commands/process.rs`, `launcher-core/src/process.rs` | `AppState.child` (one slot), `session_id`, `safe_escalating`, history rows | launch, safe launch, stop, state poll; exit watcher, background boot wait, safe-mode ladder |
| PID ledger | `launcher-core/src/process.rs` | a file of `{pid, owner, created_at, instance}` shared by every launcher on the data root, and its lock file | record, forget, sweep before a launch |
| Rescue points | `dsh-adapter/src/rescue.rs`, `commands/rescue.rs` | copies of the profile files and `snapshot.json` | reserve, refresh after a good boot, mark, restore |
| Safe profile | `dsh-adapter/src/safe_boot.rs` | a scratch profile | plan the bundles of a tier, let dsh judge it, boot it |
| Library cache | `commands/plugins.rs` | `library-inventory.json` | rebuild from disk, refresh from the harness that runs |
| Content installs | `commands/content.rs`, `commands/plugins.rs`, `dsh-adapter/src/{content,lib}.rs` | manifest records, `cordis.patch.yml`, package tree, clones, skill directories, market metadata | the bodies an install job dispatches, and the toggles and removals |
| MCP machinery | `dsh-adapter/src/mcp_{probe,prefetch,resolver,local}.rs` | a server's directory, `runtime.json` | resolve, fetch, clone, build, probe |
| Instance manifests | `launcher-core/src/instance.rs`, `commands/{instance,environment}.rs` | a directory per instance, one JSON file in it | create, clone, rename, delete, switch, export, import |
| Managed runtimes | `dsh-adapter/src/runtimes.rs` | a directory per version, an `active` file | install, replace, repair, remove, resolve |
| Downloads | `launcher-core/src/download.rs` | a `.part` file | resume, retry, verify, rename |
| TUI shell | `tui/src-tauri` | the Node host side-car, a restart counter, a closing flag | supervise, restart, stop |
| Telemetry, usage, market, health, providers | remaining crates and commands | files, SQLite tables, caches | mostly request/response |
| Front end | `apps/desktop/src` | zustand stores | calls the commands above; polls `process_state` every 1.5 s |

How they interact. The front end calls Tauri commands, which run concurrently on
a tokio runtime and share `AppState`. An install command only inserts a row and
kicks the drainer of its instance; the drainer claims rows and runs each body
inside the instance's heavy-job gate. A launch runs inside the same gate, spawns
the harness, and puts it in the one child slot when it has booted; the watcher of
the process calls back into the shell when it exits; the safe-mode ladder starts
further launches from those callbacks, without the gate. An install body goes through
the instance's manifest, its profile patch, `dsh plugin` and the Library cache one
after the other; a launch quarantines what would break the boot, and once it is up
refreshes the rescue point and, by a sync job, the Library. Rescue, instance and
runtime commands work on the same files and most take no gate. History rows, job rows,
the PID ledger and all these files are what a later process finds.

What is hard in it:

* **Interleavings of async tasks.** Every `.await` is a place where another
  command runs. The child slot is looked at before a boot that lasts minutes and
  written after it; the gate is examined in one critical section and claimed in
  the next; a drainer may retire while somebody enqueues.
* **Restarts.** The job ledger outlives the process, its drainers do not. Every command
  that writes several files can be cut off between two, and most files are written
  in place.
* **Unlocked files.** Manifests, runtimes, profile files and the Library are read,
  changed and written by commands that do not exclude one another; several launchers
  share one PID ledger.
* **Callbacks out of order.** The exit sink, the poll, a stop and the next launch
  all close "the current session".
* **Partial failure.** Every store call may fail between two others.
* **Wake-ups.** A marker set, a `Notify` without permits and a spawned release
  must not lose anybody.

## 2. Modules

| Module | Models | Kind |
|---|---|---|
| `InstallService` | what the Install Center promises | abstract specification |
| `InstallQueue` | ledger, drainers, markers, boot resume, commands | component |
| `JobGate` | the heavy-job gate of one instance | component |
| `ChildSupervisor` | slot, session, launches, ladder, watcher, poll, stop | component |
| `PidLedger` | the shared ledger of harness trees and its sweep | component |
| `TimedRun` | the ends a program run under a time limit can have | operators |
| `ProfilePatch` | `cordis.patch.yml` and its five line editors | operators |
| `McpSource` | how a server comes onto the machine | operators |
| `McpProbe` | the health check of a server | sub-component |
| `ContentJobs` | the commands on one instance's content; uses the four above | component |
| `SafeProfile` | the bundles of a tier, dsh's verdict, the root check | operators |
| `LibraryCache` | the rows of the Library and how two scans are merged | operators |
| `InstanceProfile` | profile, rescue point, Library, jobs and launches; uses the two above | component |
| `InstanceStore` | instance directories, environment packages | component |
| `Runtimes` | the managed runtimes and which one a launch runs | component |
| `MC*` | instances of the components for TLC | model checking |
| `*_proofs` | theorems about the components | TLAPS |

The operators whose comment begins "Mutant of" or "MUTANT" are deliberately wrong
variants of the definition that follows them, one for each property. Checking a property
against its variant shows that the property can fail.

### InstallQueue

`status`, `owner` and `nextId` are the `install_jobs` table: a row is `unborn`
before its INSERT and `deleted` after its DELETE, and ids are AUTOINCREMENT, so
`nextId` never goes back. `drainers` is `AppState.drainers`. `task` is the set of
spawned `drain_instance` tasks; a task's `pc` is the next store call or await it
will make. `toKick` holds rows whose `enqueue_install` is between `create` and
`kick_drainer`. `resume` and `resumeIds` are the position of
`resume_pending_jobs`, which runs beside the command handlers.

A `JobStore` method holds the connection mutex from its first statement to its
last, so a method is one step. `Recheck` is one step although it makes a store
call, because the marker lock is held around it and `kick_drainer` takes the same
lock; another enqueue can still insert its row just before or after.

`StoreError` is any store call returning `Err`. Where an error can come after the
write (`create`, `claim_next`, `interrupt_stale_running` fail on the read-back or
half way) the step has the write and the error. `faulted` remembers the instances
whose wake-up such an error lost, until a drainer is spawned for them again; no
guard reads it.

`Restart` is an exit of the process at any point and its next start: memory is
lost, the ledger is not.

Abstracted: progress, stage, stderr tail, exit code, labels and plans (only
whether the plan can be read and whether its body returned Ok), event emission.
Rows are ordered by id; `created_at` is a wall-clock second that orders the same
unless the clock steps back. A panic in a body is not modelled. When a body may
start is the gate's business: here it may start at any time.

### InstallService and the refinement

The service has rows, their owners, and `busy`, the rows a worker is on. It has no
drainers, markers, kicks or boot sequence. `InstallQueue!ImplementsService` maps
`busy` to the rows some task holds. The steps map as follows: Enqueue and Retry
to `Submit`, a successful Claim to `Start`, Mark and MarkError to `Finish`, a
failed claim whose UPDATE took effect to `Lose`, ResumeReclaim to `Reclaim`,
Restart to `Abandon`, and everything else to a stutter. The content of
the refinement is that `Start` requires the oldest waiting row of an instance
nobody works on, which the queue has to get from its markers.

### JobGate

One instance's gate. A step is a critical section of the gate's async mutex or
what a task does between two of them: `Check` looks at the gate, `Enter` claims it,
`Sleep` creates the `Notified` future, `Release` is the task a dropped permit spawns.
`notify_waiters` wakes exactly the callers that are `asleep` and stores no permit.
`early` and `missed` are history variables, read by no guard: the jobs that were
already past their check when a launch was counted, and the callers for which
the last release fell between their check and their `notified()`.

### ChildSupervisor

A launch attempt is a number, and its history row, its process and its background
tasks carry the same number (PIDs and row ids are unique while they matter here).
`at[n]` is the position in `do_launch`; each stretch between two awaits is one
step. `slot` is `AppState.child`, and `slotLock` is set while the background
continuation holds the slot's mutex across `finalize_ready`; every other holder
releases it within its step. `alive` is the set of process trees; `killed` are the
live ones whose watcher has been told to kill, by `stop()` or by dropping the
handle, which is what overwriting the slot does (`StoreInSlot`). A session is
closed through `CloseSession`, which takes whatever id is current.

`PrepareEnv` stands for everything between the slot check and the spawn that can
fail (settings, manifest, vault, environment, proxy). `finalize_ready` is one step
that ends with `set_status(Running)` whatever became of the process; what it
spawns afterwards (inventory refresh, model, theme and language pushes) is not
modelled. The heavy-job gate is left out on purpose: the ladder does not take it,
it is per instance, and `JobGate` shows it can admit two.

### PidLedger

`proc` is the machine's process table: what holds each PID, with a creation time no
other process of that PID has. `ledger` and `lock` are the two files; a session's file
operation is lock, read, change, write (`step`), and `rows`, `todo`, `entry` are what
it has in memory. A launch is `switch` (stop the tree that runs and forget it), `sweep`,
`spawn`, `record`; a session may be killed at any step, and its job object may take
the tree along. A write truncates and then fills the file; a sweep that dropped no row
(`step` is not "dropped") leaves it alone. A row of an older launcher has owner 0 and no
time; a row whose time could not be read has time 0. `LockError`, `ReadFails` and
`WriteFails` are failures the code passes over: it goes on without the lock, takes a file
that cannot be read for an empty one, and ignores what became of a write.

Assumed: a session does one ledger operation at a time; `pid_is_recorded_process` and
`kill_tree` are one step, and the kill is effective; the creation time is read while
the child still holds its PID or is missing. History: `known`, the trees whose
recording is over; `masked`, those whose PID was on file already; `intact`, that
every operation had the lock, could read and write and was not cut off while it wrote;
`target`, the orphans a sweep read on file.

### TimedRun, McpSource, McpProbe, ProfilePatch

Programs the launcher runs are external, so `TimedRun` and `McpSource` give for each
function the set of results it can have, computed from the catalogue entry and the tools
on the machine. `McpProbe` is a sub-component with one variable, `probe`: deadlines are
the order of a deadline against the server's lines. `ProfilePatch` holds the line
editors of `cordis.patch.yml` as operators on a record of what the file holds; the
order of entries is left out because no reader looks at it.

### ContentJobs

One command at a time, as the heavy-job gate has it. A command is a list of writes
still to do (`job.todo`); each write is an action, and the launcher may exit before each.
A write whose error the code returns with `?` may fail instead (`StepFails`, the steps in
`Fallible`; the others have their failure in the action itself): the command, or the item
of a bundle, ends there, and what was written before stays. What the code does as best
effort and goes on from is so here: the quarantine of a launch or a rescan passes over
any rows (`missed`), and so are the removal of a skin's root package (`RemoveRoot`), of the
skin records a removed package's name matches (`Alike`) and of a server's directory. What is
on disk stays: manifest records,
patch, package tree (`nm`, `deps`), clones and the packages linked into them, skill
directories file by file, temporary files, server directories, `runtime.json`, market
metadata. `upstream` is what a skill's author serves. `Launch` is here only as far as it
quarantines; `running` keeps commands out, as `ensure_not_running` does.
`scope` picks, once per behaviour, the items it works on; that keeps the product of
unrelated items out of the state space.

History, which no guard reads: `unsynced`, the items whose record the command has changed
and not yet compiled into the patch; `cut`, those that a command which failed or was cut
off left so, until the next compilation; `spared`, the bundles with a row the launch of the
running harness could not turn off; `rewritten`, skills whose directory is being changed or
was left so.

Abstracted: file contents are versions; a bundle's loader rows are ids; a package is
loadable or not by its kind and whether its entry is built. A write of the patch or the
manifest goes through or leaves the file as it was: one that is torn by a full disk or by an
exit in the middle of it, and a patch that cannot be read, are not modelled. A prune that
fails is taken to have removed nothing.

### InstanceProfile, with SafeProfile and LibraryCache

The other half of one instance: jobs and launches under the gate (`job`, one at a
time), a late boot and rescue commands beside them. Profile files hold one fact each.
A snapshot copies file by file (`left`) and ends with its metadata; the harness loads
what the profile says at `Spawn`; the Library is `cache`. The child slot is reduced to
empty, booting, up and over; `ChildSupervisor` has its details. `good` holds the
combinations of files that came up or that the user marked, `blurred` says the
rescue point is of a snapshot that failed or was disturbed, and `owed` that a command
failed, was cut short or went past the gate since the Library was last scanned. A rescan
may fail, with its cache as it was or torn (`CacheFails`), and every quarantine passes over
any of the bundles it should turn off.

The content steps are coarser here than in `ContentJobs`: an install is one package,
its rows, its record. What is finer is what runs at the same time.

### InstanceStore

The directories of one slug (`slug`, `slug-2`, ...), each with a manifest and a
workspace. `create`, `clone` and `rename` run one at a time, as synchronous commands do
on the main thread; a delete, an import and the queued install of an import run beside
them. A save truncates and then writes; a torn manifest is not listed, and its id is
free to `unique_id`. The child slot is not modelled: its check in `delete_instance` may
pass or not. `add_skill` stands for all record editors, which have one form: they read the
manifest, and what they save later may be of an instance that a delete has removed since.
`alive` and `ghosts` remember the instances by number and id: those created and not
deleted, and those that a delete could not remove whole or that a command held in memory
when it ran (`Held`). `load_or_create` is not called by the program and left out; `set_settings`, which writes back the front
end's copy, is left out too.

### Runtimes

A directory per version whose files remember the tree they came from; imports, repairs
and removals are threads that copy in place, and pnpm's junctions are restored after
the copy. `launch` resolves the binary at any time. `torn` names the versions whose
files were touched since an import of their own went through alone.

## 3. What is checked

Most runs have deadlock checking off: with bounded counters every behaviour ends when
the bounds are used up, and in `JobGate` the system itself may stop when a wake-up is
lost. `content` checks it: with its commands used up the harness can still be started and
stopped.

| Run | Instance | Properties | What it shows |
|---|---|---|---|
| `install_queue` | 2 instances, 2 drainer identities, 2 rows, 1 restart, 1 store error | all of `InstallQueue` | the queue is right under every interleaving, restart and single fault |
| `job_gate` | 2 launches, 2 others, unbounded repetitions | all of `JobGate` | the gate's book-keeping, and when it serves |
| `child_supervisor` | 1 instance, 2 attempts | all of `ChildSupervisor` | supervision of a boot, a relaunch and one climb |
| `pid_ledger` | 2 launchers, 3 PIDs, 5 processes, 1 failed lock, read or write | all of `PidLedger` | what stays on file, what a sweep reaps and spares |
| `content` | 3 commands, 1 exit; families of items below | all of `ContentJobs` | what the files still agree on after failures and exits |
| `profile` | 3 packages, 3 jobs or launches, 1 rescue command, 1 exit | all of `InstanceProfile` | rescue point, Library and safe boots |
| `instances` | 3 ids, 4 commands (2 at a time), 1 import row, 1 exit | all of `InstanceStore` | no instance is lost, an import is whole |
| `runtimes` | 2 versions, 2 trees, 3 commands (2 at a time), 1 exit | `BootsWholeRuntime` | what a launch runs |
| `queue_marker` | 1 instance, 1 fault | `MarkerMeansDrainer` | violated, see below |
| `gate_collision` | 2 + 2 | `OneHeavyJob` | violated |
| `supervisor_poll` | 1 attempt | `ClosedRowIsOver` | violated |
| `two_trees` | 2 instances, 2 attempts | `OneInstanceAtATime` | violated |

The bounds and why they are enough.

* `install_queue`: two rows give every order between two rows of one instance and rows
  of different instances, and the retry of a first row; two drainer identities allow a
  second drainer for an instance if the markers ever admitted one, and two instances
  drained together otherwise; a restart and a fault at any point meet in one behaviour.
* `job_gate`: two callers of each kind, for a launch to wait behind a launch and an
  install behind an install.
* `child_supervisor`: two attempts cover a relaunch during a boot, a switch, a stop during
  either, and one automatic climb; an `Escalate` beyond the bound is not taken. A third
  attempt makes the state space too large for a quick run.
* `pid_ledger`: five processes are two launchers, a tree each and one more; three PIDs
  are fewer than that, so they are recycled, among them the PID of a dead launcher and
  that of a row on file. The ledger may begin with a row of an older launcher. One
  failure lets two operations overlap, loses the rows on file or keeps old ones. 1.3
  million states.
* `content`: three commands are an install, a second command on the same item and a
  third that meets what both left (install, failed retry, removal; install, update,
  toggle). An exit may cut any of them, and any number of their writes may fail. Each family is one kind of item, or two that share a
  file: a skill and a remote server share the manifest, a skin and a server the patch.
  Versions 1 and 2 of a skill have different files, and version 2 of a bundle one row more.
  2.6 million states.
* `profile`: three jobs are a boot that captures a good state, a change, and a boot or
  change after it; the packages are a bundle, a bundle that was not built and a skin whose
  live row has another name. One rescue command and one exit fall between any two steps.
  1.2 million states.
* `instances`: three ids are one and the next two `unique_id` can pick; four commands are
  a create, a delete or clone beside another, and an import: enough for the record of an
  import's skill to be saved after its instance was deleted and its id taken again. 2.1
  million states.
* `runtimes`: two trees, of which one has a file the other has not, so that a copy over
  an older one can be told from a whole one.

The theorems of section 4 lift the properties they name to every value of the bounds.

Properties worth a word:

* `NoStrandedRow` and `QueueNeverIdles` are the absence of a lost wake-up, as a
  state property and as progress. They name the one exception, a store error.
* `VerdictIsFinal` has an exception the code really has: the boot-time reclaim
  can fail a row that a drainer of the same process already runs, and the
  drainer's own verdict then replaces it.
* `SleeperHasWaker` and `GateKeepsServing` hold except for callers in `missed`: a
  release that falls between a caller's check and its `notified()` is lost on it.
  Without that exception both are false.
* `NoUnmanagedTree` says that a tree that is up is in the slot, on its way there, or
  told to die; `LiveTreeIsRecorded` says a tree that is up has a ledger row, except in
  the instant between spawn and record.
* `RecordedTreeKeepsRow` is the same promise across launchers. Its exceptions are an
  operation without the lock, one that could not read or write the file or was cut off
  while it wrote, and a tree whose PID was on file when it was recorded: `record_entry`
  then adds no row.
* `SweepSparesStrangers` speaks of rows with a creation time. A row without one can make a
  sweep kill whatever holds the PID.
* `KnownGoodKept`, `InstanceStays`, `SomeInstanceRemains`, `ImportIsWhole` and
  `BootsWholeRuntime` each name the races they except (`blurred`, `mixed` and `ghosts`,
  `twice`, `stale`, `torn`). Each exception is real: without it TLC finds the property false.
* `InstanceStays` says it both ways: an instance that was not deleted has its own manifest,
  and a manifest that can be read is of such an instance. `mixed` excepts ids that two
  commands chose at once or while a torn manifest hid one, and `ghosts` an instance that a
  failed delete left or that a command had read when the delete came, and saved after it:
  it may come back, over the next holder of its id too. A save of anything else over an
  instance, or a manifest back from a delete in any other way, violates it. That an import whose instance was
  deleted goes on in a later instance of the same id is what the code does; no property
  forbids it.
* `BootMountsOnlyBuiltBundles` is about the rows a launch could turn off. The quarantine
  is best effort: a bundle with a row it could not write is imported (`spared`), and so is
  one that has no row to turn off, of which the property does not speak.
* `FirstInstallIsWhole` excepts a directory that is being, or was left, rewritten, and skills
  with a raw URL to fall back on: a failing clone brings SKILL.md alone.
* `InstallLandsOff` and `LibraryMatchesDisk` each name an exception that the proofs brought
  to light; section 4 has both.
* `McpRowsAreRecords` excepts the time between a record's write and the patch's, and a
  server whose command failed or was cut off there (`cut`): the manifest is saved first, and
  the error of the patch's write is returned. Any later compilation, of whatever server,
  ends the exception, and no other editor of the file gives cause for one.

### Divergences

* `queue_marker`: a failed claim returns without dropping the marker, although
  the comment there says it is dropped. The queue of that instance is stuck until
  the next start.
* `gate_collision`: the check and the claim of the gate are two critical sections,
  so two heavy jobs of one instance can run together.
* `supervisor_poll`: during a boot the slot is empty, which `process_state` reads as
  stopped; it closes the session of the harness that is coming up as crashed.
* `two_trees`: the one-at-a-time check reads the slot, which is empty during a
  boot; launches of two instances both pass it.

Other places where the code and its comments part, which a property excepts by name
or which lie outside the models:

* A retry of an MCP install that failed before the patch was compiled finds the record the
  first attempt left and takes it for the user's: a server that then fails its probe is
  not rolled back.
* After a safe boot the sync job's rebuild quarantines, which writes the user's patch,
  against "The user's profile is never touched" (`safe_boot.rs:13`).
* A skill update whose clone fails falls back to a single `SKILL.md` and prunes its
  siblings.
* A restore does not bring manifest records or the Library up to date; `rescue_create` and
  `rescue_restore` take no gate. Uninstalls and toggles reserve no rescue point, and an
  install reserves one before it looks whether DSH runs.
* Imports, repairs and removals of runtimes take no lock: two imports of one version wipe
  or roll back each other. An import that fails halfway leaves what it copied ("Roll back a
  partial copy" is reached only when the copy went through), and `pick_default_version`
  takes the directory whose version string is the last in string order (not always the
  newest version), whether or not it has a binary.
* Two deletes at once can leave no instance; a queued import is not cancelled by the
  delete of its instance, and a record it has read before and saves then brings a manifest
  back, over that of an instance which has taken the id meanwhile.
* An MCP command whose patch write fails reports an error and leaves the record on, or
  off, without its row, until the next command compiles the rows.
* The exit sink leaves the tree's ledger row. If the PID is recycled onto the next
  tree, that tree gets no row of its own.

### Fairness

`InstallQueue`: the runtime polls spawned tasks, so the steps of the boot resume,
of every pending kick and of every drainer between two awaits are weakly fair. No
fairness for an install body or its admission by the gate: `QueueNeverIdles`
promises only that a row is taken. `JobGate`: a runnable task is polled; nobody has to
call and no work has to end. `ChildSupervisor`: `do_launch` is polled and each of its
waits has a timeout (20 s for the URL, 5 s and 2 s in `finalize_ready`), and the
watcher carries out a kill; nothing is assumed of the harness, the user, or the
background wait's timers. The other components are checked for safety only: their
commands end by themselves unless an external program or the launcher stops, which
the code does not control.

## 4. What is proved

TLAPS checks the following for every value of the constants, from the assumptions
named in the modules only (`InstancesAssumption`: `NoInstance` is no instance;
`BoundsAssumption`: the bounds are naturals and there is room for a row;
`CallersAssumption`: launches are finitely many and are not among the others;
`AttemptsAssumption` and `InstancesExist`: there is room for one launch, and there is
an instance, since the last one cannot be deleted; `ProfileAssumption`,
`StoreAssumption`, `RuntimesAssumption`: the sets of items are what their names say and
the bounds are naturals; `LedgerAssumption`: 0 is no PID, one process has been
started, and "-" and "old" are no sessions; `ContentAssumption`: servers, skills and
packages have different names, the lists of the catalogue are lists of such names, the
other files of a skill are not called `SKILL.md`, and the bounds are naturals).

**InstallQueue_proofs.** The inductive invariant is
`CoreInv == TypeOK /\ RowsInOrder /\ TasksInOrder /\ OneDrainerPerInstance`.
`OneDrainerPerInstance` alone is not inductive: that a kick spawns no second
drainer rests on every live task having its marker set, which is part of
`TasksInOrder`. That part also ties a task's row to its instance and to a status,
and its `pc` to what was already done with the row, which is what
`DispatchedAtMostOnce` and `OutcomeIsTrue` need: a row in a task's hands before its
gate was never dispatched, and no other task has it. `RowsInOrder` says which rows
exist and that an unborn, waiting or cancelled row was never dispatched. On top of it:

* `QueueTypeCorrect`, `OneDrainer`, `NeverDispatchedTwice`, `OutcomesAreTrue`;
* `OldestFirst`: `NoOvertaking` is not inductive, since a row is claimed before it is
  dispatched; `OldestTakenFirst` speaks of rows taken or dispatched;
* `NoRowIsStranded`: `NoStrandedRow` needs `MarkersServed`, that a marker without a
  drainer is the trace of a store error, for the step where a kick finds a marker;
* `QueueImplementsService`: every step is a step of `InstallService` or a stutter;
* `VerdictsAreFinal`, an action property.

**JobGate_proofs.** `GateTypeCorrect`; `LaunchesAreCounted`, from lemmas about the
cardinality of the queued launches when one arrives, enters or moves;
`GateNeverStuckClosed`; `LaunchesArePreferred`, where the step that matters is a job's
check, which fails while a launch is counted, so the count must be exact;
`SleepersHaveWakers`, strengthened to callers that are about to sleep
(`WaiterHasWaker`), for whom the waker they saw may have released meanwhile.

**ChildSupervisor_proofs.** The inductive invariant is
`CoreInv == TypeOK /\ AttemptsInOrder /\ ProcessesInOrder /\ LockInOrder /\
SessionInOrder`, and `TreeInv` on top of it:

* `RowsCloseOnce` needs `SessionInOrder`: the current session is an open row, and an
  attempt that has not prepared its environment has none, so neither a close nor an
  open ever meets a row with a verdict;
* `LateBootsFinalizeInPlace` needs `LockInOrder`, which names the holder of the slot's
  mutex: every step that changes the slot takes the mutex first;
* `NoTreeIsUnmanaged` and `LiveTreesAreRecorded` need `ProcessesInOrder`: a child whose
  exit is reported, or whose status says it is over, is down, which is why the poll and
  the exit sink may drop it and forget its PID. The other way round, an attempt that
  is about to spawn has no process yet, which needs `AttemptsInOrder`: numbers are
  handed out once.

**Runtimes_proofs.** `LaunchesRunWholeRuntimes` (`BootsWholeRuntime`). A version that is
not torn must be whole: `UntouchedIsWhole`. It is kept because an import un-tears its
version only when it was alone on it from start to end (`AloneIsAlone`: a thread that is
marked alone has no companion on its version), and because what such an import has copied
so far is what it has left to copy taken from its tree (`CopyIsExact`).

**InstanceStore_proofs.** `InstancesStay` (`InstanceStays`) and `TheLastInstanceStays`
(`SomeInstanceRemains`). `DeletesLeaveOne` says that a delete on its way has
another instance beside it, unless two deletes counted each other; `MakersAreAlone`, that
of the commands that make an instance no two have the same id, and no instance lives
there yet, but for the ids in `mixed`: two chose the id at once, or a torn manifest
hid it. `OneTenant` follows: two instances that were not deleted share no other id.
`HeldIsGenuine` is what makes a save harmless: what a rename or the record of a skill has
in its hands was read off an instance that was not deleted then, and a delete that
overtakes it says so (`ghosts`). So a save puts back the instance that lives there, or one
of those.

**InstanceProfile_proofs.** `KnownGoodIsKept` (`KnownGoodKept`) and
`SafeBootsLeaveTheProfile`. A snapshot that was not disturbed ends with the point equal
to a good combination: `CopiesAreExact` says that what it has copied is what the files
held at its start; `FilesStay`, that a file once there does not vanish, so the copies of
files that were absent before are absent still; `ReservesNothingNew`, that a reservation
is only taken while there is no point; `QueuesFine`, which lists of files a snapshot can
have; `BootsTakeTurns` and `SafeBootsCopyNothing`, who may be finalizing and that it is not
a safe boot. `SafeBootsLeaveTheProfile` follows from these and the type invariant.

**PidLedger_proofs.** `SweepsAreThorough` (`SweepReapsOrphans`), `SweepsSpareStrangers`
(`SweepSparesStrangers`) and `RecordedTreesKeepRows` (`RecordedTreeKeepsRow`). The argument
rests on times: no two processes of one PID share one, so a tree that is down never
comes up (`StaysDown`), and a row with a time names the harness that its owner's session
started or nothing (`RowsFine`). A launcher that is up holds its PID (`LaunchersUp`), so an
owner PID that is free belongs to a launcher that is over. `TargetsFine` says that an
orphan a sweep found is left only while the row that names it is still to be judged; a
failed write does not matter to it. What a write, done or failed, can leave is stated once
(`WriteCases`).
For `RecordedTreesKeepRows`, `HoldersFine` lets one operation at a time be under way,
and `RowsCover` follows the rows through it: on file, among the rows read and to be
judged, and among those to be written back, there is one for each recorded tree, with
the PID of the session that started it. `KeepersFine` is what makes `forget` harmless:
a harness that a session with this PID runs under its tree's PID is its tree, and that
one is down by then.

**ContentJobs_proofs.** A command is the list of writes it still has to do, and every
invariant says something of that list. `TypeInv == TypeOK /\ JobOK`: each write is one
that a command of this kind may have (`Course`), and some writes are never left without
the one that completes them (`Follows`: a record is followed by the compilation of the
rows, a file of a skill by the rest of it). Every action turns one list into another by
taking its head, by putting writes in front, or by replacing it after a failure; the
lemmas about `Tail`, `\o` and `Follows` are stated once and used by all that follows.

* `TypesHold`; `PatchAlwaysReads`, from what each editor of `ProfilePatch` does to a file
  that is an array;
* `BootIsSafe` needs `BootInv`: while the harness runs only a health check may, and the
  quarantine of the launch still covers every bundle that cannot load, except those with a
  row it passed over then;
* `RowsFollowRecords` needs `McpInv`: the rows are the records, or their compilation is the
  next write, or the one after a second record, and it is noted that a record waits for it
  (`unsynced`). That is why a command that ends in between, by a failure or an exit, leaves
  a trace in `cut`, and why one that ends elsewhere does not;
* `RollbacksAreComplete` and `OnlyAskedRemovals` need `ServerInv`: a server that was there
  before is never rolled back, and of a rollback's writes those still to do are exactly
  those whose effect is missing (`RollsBack`);
* `InstallsLandOff` needs `SkinInv` (a row without a record is about to be dropped, or was
  left by a command that ended before it was) and
  `PluginInv`: whatever changes the package comes before the write that lands it, and
  from then on its loader rows are off or about to be turned off (`RowsLeft`);
* `FirstInstallsAreWhole` needs `Writing`: the writes to a directory stand at the head of
  the list, and at each of them the files that have landed are of the version fetched,
  with `SKILL.md` the last;
* `SuccessesAreExact` needs `SkillInv`: the record is written when the directory is what
  the fetch brought, and nothing but the record comes after.

**InstanceStore_proofs, imports.** `ImportsAreWhole` (`ImportIsWhole`) rests on `Books`,
five facts that TLC checked together first. `Numbered` and `MakersAreNew` keep the lives of
instances apart: what a maker has in its hands is nowhere else, so an id that two
instances wrote is always marked. `GateHeld` lets one import at a time work on a
directory. `RenamesAreOld` and the first part of `RowGood` say that what is about to be
saved over a manifest lists all that the manifest lists, so a save never takes a skill
away where nothing was marked; the rest of `RowGood` follows each item of a package from
the list of what is to do into the workspace and, for a skill, through the hands of the
save into the manifest. `StoreTypeCorrect` is the module's `TypeOK`; its bound on the
imports is inductive only with those that are still being made counted (`RowsBounded`).

**InstanceProfile_proofs, the Library.** `LibraryShowsDisk` (`LibraryMatchesDisk`).
`RebuiltIs` says which rows a merge of the last list with a new scan has: those of the
scan, and rows of a harness with another name; `LibraryIs`, what the Library shows of
such a list. `LibraryFine` is inductive: unless a change is `Midway` to its rebuild, or
one is owed, because it went past the gate, was cut short or its rebuild failed, the cache
shows the profile as it is now. `ProfileTypeCorrect` is the
module's `TypeOK`.

Two properties turned out to be too strong when their invariants were not inductive, and
name the exception now:

* `InstallLandsOff`: when the removal of a theme that is a bundle too fails or is cut off
  after its record went and before its row did, the row stays, and the next install does not
  drop it. The theme loads although its switch is off.
* `LibraryMatchesDisk`: a skin record outlives its package when a restore takes the
  package away. If the harness had the skin loaded and names it as the package does,
  the second sync after it shows the skin as on. TLC finds the way there in 36 states
  with a skin outside of `Renamed` and 6 jobs, more than the run has.

Only model-checked: the liveness properties (`QueueNeverIdles`, `GateKeepsServing`,
`LaunchReturns`), because the prover does not handle ENABLED. Every other property of a
passing run is a theorem. The four properties of the runs that expect a violation do not
hold.

## 5. Plan

Done: every module of section 2. What could be added:

1. `Download` and `Sidecar`: which answers may promote a partial file; the TUI's
   restart budget and closing flag.
2. A reduced ladder module for the once-only guard, with enough attempts to reach a
   double climb; the watcher's error path.

## 6. Not modelled

Log text, progress, diagnosis rules, catalogue parsing and ranking, the usage proxy's
byte handling, credential storage, theme and language pushes, the front end beyond
calling commands in any order, release and catalogue scripts. The reasons are in
`PROJECT.json` under `components`.

The resumable download fetches the npm catalogue only, and nothing else reads what it
yields: two refreshes at once append to one `.part` file, which is promoted without a
checksum and cached for that version. The TUI shell is a program of its own that
shares no state with the launcher. Crash telemetry makes one pass at start.

Wall-clock effects (`started_at` in the future after the clock steps back), panics
inside an install body and the `try_wait` error of the exit watcher are known hazards
without a model. In the supervisor the settings-watch and proxy handles, the DSH
window and crash diagnosis are left out.
