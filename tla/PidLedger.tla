------------------------------ MODULE PidLedger ------------------------------
(***************************************************************************)
(* The ledger of harness trees (launcher-core/src/process.rs) that every   *)
(* launcher on a data root shares, and the sweep that uses it to reap what *)
(* a dead launcher left behind.                                            *)
(*                                                                         *)
(* Launcher sessions start, launch and stop one harness each and may die   *)
(* at any step.  Their file operations interleave; PIDs are given to other *)
(* processes once they are free.  A process is known by its PID and by its *)
(* creation time, which no two processes of one PID share.                 *)
(***************************************************************************)
EXTENDS Naturals, FiniteSets

CONSTANTS Sessions,      \* launcher processes, each started at most once
          Pids,
          Fingerprints,  \* the platform tells creation times
          Legacy,        \* the ledger may begin with a row of an older launcher
          MaxBorn,       \* bound: processes started
          MaxErrors      \* bound: times the lock cannot be had, or the file read or written

ASSUME LedgerAssumption ==
    /\ 0 \notin Pids /\ Fingerprints \in BOOLEAN /\ Legacy \in BOOLEAN
    /\ MaxBorn \in Nat \ {0} /\ MaxErrors \in Nat
    /\ Sessions \cap {"-", "old"} = {}

VARIABLES
    proc,    \* the process table: what holds a PID
    born,    \* creation time of the youngest process
    ledger,  \* rows on file
    lock,    \* the session that has the lock file
    pid,     \* PID of each session
    pc,      \* what a session is doing
    step,    \* how far its file operation is
    held,    \* it got the lock
    rows,    \* the rows it read, and will write back
    todo,    \* the rows its sweep has not judged yet
    child,   \* the tree it manages
    entry,   \* the row it is about to record
    known,   \* history: trees whose recording is over
    masked,  \* history: those whose PID was on file already
    intact,  \* history: every operation had the lock, could read and write, and was not cut off in its write
    errors,  \* failed file operations
    target   \* history: orphans each sweep found on file

file == <<ledger, lock, errors>>
session == <<pid, pc, step, held, rows, todo, child, entry>>
history == <<known, masked, intact, target>>
vars == <<proc, born, file, session, history>>

\* A PID and the creation time of the process that holds it; 0 is no process, and
\* a time that could not be read.
Times == 0..MaxBorn
Tree == [pid : Pids, at : 1..MaxBorn]
NoTree == [pid |-> 0, at |-> 0]
Process == [what : {"launcher", "harness", "other"}, by : Sessions \cup {"-", "old"}, at : 1..MaxBorn]
NoProc == [what |-> "none", by |-> "-", at |-> 0]
Row == [pid : Pids, owner : Pids \cup {0}, at : Times]

TypeOK ==
    /\ proc \in [Pids -> Process \cup {NoProc}] /\ born \in Times
    /\ ledger \in SUBSET Row /\ lock \in Sessions \cup {"-"} /\ errors \in 0..MaxErrors
    /\ pid \in [Sessions -> Pids \cup {0}]
    /\ pc \in [Sessions -> {"off", "idle", "stop", "switch", "sweep", "spawn", "record", "over"}]
    /\ step \in [Sessions -> {"none", "locked", "read", "dropped", "truncated"}]
    /\ held \in [Sessions -> BOOLEAN]
    /\ rows \in [Sessions -> SUBSET Row] /\ todo \in [Sessions -> SUBSET Row]
    /\ child \in [Sessions -> Tree \cup {NoTree}] /\ entry \in [Sessions -> Row \cup {NoTree}]
    /\ known \in SUBSET Tree /\ masked \in SUBSET Tree /\ intact \in BOOLEAN /\ target \in [Sessions -> SUBSET Tree]

pid_alive(p) == p \in Pids /\ proc[p] # NoProc
Up(t) == t \in Tree /\ proc[t.pid].at = t.at
TreeOf(p) == [pid |-> p, at |-> proc[p].at]
Orphan(t) == Up(t) /\ proc[t.pid].what = "harness" /\ proc[t.pid].by \in {"old"} \cup {s \in Sessions : pc[s] = "over"}

\* A row on file that stands for a tree.
Named(t) == \E r \in ledger : r.pid = t.pid /\ r.at \in {0, t.at}

\* MUTANT: any process under the PID will do, or a row without a time is left alone.
AnyProcess(r) == pid_alive(r.pid)
OnlyFingerprinted(r) == pid_alive(r.pid) /\ proc[r.pid].at = r.at

\* Without a recorded time any process will do; with one it must match.
pid_is_recorded_process(r) == pid_alive(r.pid) /\ (r.at = 0 \/ proc[r.pid].at = r.at)

-----------------------------------------------------------------------------
\* The system's side: programs come and go, and take free PIDs.

Fork(p, what, s) ==
    /\ proc[p] = NoProc /\ born < MaxBorn
    /\ proc' = [proc EXCEPT ![p] = [what |-> what, by |-> s, at |-> born + 1]]
    /\ born' = born + 1

StrangerStarts(p) == Fork(p, "other", "-") /\ UNCHANGED <<file, session, history>>

\* A harness may end by itself; a launcher is ended by Dies.
Exits(p) ==
    /\ proc[p].what \in {"other", "harness"}
    /\ proc' = [proc EXCEPT ![p] = NoProc]
    /\ UNCHANGED <<born, file, session, history>>

SessionStarts(s, p) ==
    /\ pc[s] = "off" /\ Fork(p, "launcher", s)
    /\ pid' = [pid EXCEPT ![s] = p] /\ pc' = [pc EXCEPT ![s] = "idle"]
    /\ UNCHANGED <<file, step, held, rows, todo, child, entry, history>>

\* A launcher that is killed, with its tree or without: its job object may take the
\* tree along.  The system releases its lock, and a ledger it had truncated has lost
\* its rows.
Killed(s) ==
    /\ \E kill \in SUBSET {child[s].pid} :
          proc' = [p \in Pids |-> IF p = pid[s] \/ (p \in kill /\ Up(child[s])) THEN NoProc ELSE proc[p]]
    /\ pc' = [pc EXCEPT ![s] = "over"]
    /\ step' = [step EXCEPT ![s] = "none"] /\ held' = [held EXCEPT ![s] = FALSE]
    /\ rows' = [rows EXCEPT ![s] = {}] /\ todo' = [todo EXCEPT ![s] = {}]
    /\ entry' = [entry EXCEPT ![s] = NoTree] /\ child' = [child EXCEPT ![s] = NoTree]
    /\ lock' = IF held[s] THEN "-" ELSE lock
    /\ intact' = (intact /\ step[s] # "truncated")
    /\ target' = [target EXCEPT ![s] = {}]
    /\ UNCHANGED <<born, ledger, errors, pid, known, masked>>

Dies(s) == pc[s] \notin {"off", "over"} /\ Killed(s)

-----------------------------------------------------------------------------
\* What a session does.

\* Effective on whatever holds the PID.
kill_tree(p) == [proc EXCEPT ![p] = NoProc]

\* A launch stops the tree that runs, sweeps, spawns and records.
Launch(s) ==
    /\ pc[s] = "idle"
    /\ pc' = [pc EXCEPT ![s] = IF child[s] = NoTree THEN "sweep" ELSE "switch"]
    /\ proc' = IF Up(child[s]) THEN kill_tree(child[s].pid) ELSE proc
    /\ UNCHANGED <<born, file, pid, step, held, rows, todo, child, entry, history>>

\* Stop kills the tree before its row goes; so does the poll, when it finds the
\* tree ended.
Stop(s) ==
    /\ pc[s] = "idle" /\ child[s] # NoTree
    /\ pc' = [pc EXCEPT ![s] = "stop"]
    /\ proc' = IF Up(child[s]) THEN kill_tree(child[s].pid) ELSE proc
    /\ UNCHANGED <<born, file, pid, step, held, rows, todo, child, entry, history>>

\* The exit sink clears the slot and leaves the row.
ExitSink(s) ==
    /\ pc[s] = "idle" /\ child[s] # NoTree /\ ~Up(child[s])
    /\ child' = [child EXCEPT ![s] = NoTree]
    /\ UNCHANGED <<proc, born, file, pid, pc, step, held, rows, todo, entry, history>>

\* The creation time is read at once; it is missing when the child is already gone.
Spawn(s, p) ==
    /\ pc[s] = "spawn" /\ Fork(p, "harness", s)
    /\ child' = [child EXCEPT ![s] = [pid |-> p, at |-> born + 1]]
    /\ \E at \in {0} \cup IF Fingerprints THEN {born + 1} ELSE {} :
          entry' = [entry EXCEPT ![s] = [pid |-> p, owner |-> pid[s], at |-> at]]
    /\ pc' = [pc EXCEPT ![s] = "record"]
    /\ UNCHANGED <<file, pid, step, held, rows, todo, history>>

SpawnFails(s) ==
    /\ pc[s] = "spawn" /\ pc' = [pc EXCEPT ![s] = "idle"]
    /\ UNCHANGED <<proc, born, file, pid, step, held, rows, todo, child, entry, history>>

-----------------------------------------------------------------------------
\* A file operation: lock, read, change, write back.  A session that cannot have
\* the lock goes on without it.

Fails == errors < MaxErrors /\ errors' = errors + 1 /\ intact' = FALSE

\* MUTANT: the lock is not waited for.
LockAnyway(s) ==
    /\ pc[s] \in {"stop", "switch", "sweep", "record"} /\ step[s] = "none"
    /\ step' = [step EXCEPT ![s] = "locked"]
    /\ UNCHANGED <<proc, born, file, pid, pc, held, rows, todo, child, entry, history>>

Lock(s) ==
    /\ pc[s] \in {"stop", "switch", "sweep", "record"} /\ step[s] = "none"
    /\ lock = "-"
    /\ lock' = s /\ held' = [held EXCEPT ![s] = TRUE]
    /\ step' = [step EXCEPT ![s] = "locked"]
    /\ UNCHANGED <<proc, born, ledger, errors, pid, pc, rows, todo, child, entry, history>>

LockError(s) ==
    /\ pc[s] \in {"stop", "switch", "sweep", "record"} /\ step[s] = "none"
    /\ Fails /\ step' = [step EXCEPT ![s] = "locked"]
    /\ UNCHANGED <<proc, born, ledger, lock, pid, pc, held, rows, todo, child, entry, known, masked, target>>

Read(s) ==
    /\ step[s] = "locked"
    /\ step' = [step EXCEPT ![s] = "read"]
    /\ rows' = [rows EXCEPT ![s] = IF pc[s] = "sweep" THEN {} ELSE ledger]
    /\ todo' = [todo EXCEPT ![s] = IF pc[s] = "sweep" THEN ledger ELSE {}]
    /\ target' = [target EXCEPT ![s] =
                     IF pc[s] = "sweep"
                     THEN {t \in Tree : Orphan(t) /\ Named(t)} ELSE {}]
    /\ UNCHANGED <<proc, born, file, pid, pc, held, child, entry, known, masked, intact>>

\* A ledger that cannot be read is taken for an empty one.
ReadFails(s) ==
    /\ step[s] = "locked"
    /\ Fails /\ step' = [step EXCEPT ![s] = "read"]
    /\ rows' = [rows EXCEPT ![s] = {}] /\ todo' = [todo EXCEPT ![s] = {}]
    /\ target' = [target EXCEPT ![s] = {}]
    /\ UNCHANGED <<proc, born, ledger, lock, pid, pc, held, child, entry, known, masked>>

\* One row of the sweep: a live owner keeps it; what is killed or gone loses it.  A
\* row without a time can name a PID that a launcher holds by now.
Judge(s, r) ==
    /\ pc[s] = "sweep" /\ step[s] \in {"read", "dropped"} /\ r \in todo[s]
    /\ IF pid_alive(r.owner)
       THEN /\ rows' = [rows EXCEPT ![s] = @ \cup {r}]
            /\ todo' = [todo EXCEPT ![s] = @ \ {r}]
            /\ target' = [target EXCEPT ![s] = {t \in @ : t.pid # r.pid}]
            /\ UNCHANGED <<proc, born, file, pid, pc, step, held, child, entry, known, masked, intact>>
       ELSE IF pid_is_recorded_process(r) /\ proc[r.pid].what = "launcher"
       THEN Killed(proc[r.pid].by)
       ELSE /\ todo' = [todo EXCEPT ![s] = @ \ {r}] /\ step' = [step EXCEPT ![s] = "dropped"]
            /\ proc' = IF pid_is_recorded_process(r) THEN kill_tree(r.pid) ELSE proc
            /\ UNCHANGED <<born, file, pid, pc, held, rows, child, entry, history>>

\* A row whose PID is on file already is not added.
record_entry(s) == rows[s] \cup IF \E r \in rows[s] : r.pid = entry[s].pid THEN {} ELSE {entry[s]}

\* A session drops only its own row.
forget(s) == {r \in rows[s] : ~(r.pid = child[s].pid /\ r.owner = pid[s])}

Result(s) == IF pc[s] = "record" THEN record_entry(s) ELSE IF pc[s] = "sweep" THEN rows[s] ELSE forget(s)

\* What comes after the operation.
Done(s) ==
    /\ pc' = [pc EXCEPT ![s] = CASE @ = "switch" -> "sweep" [] @ = "sweep" -> "spawn" [] OTHER -> "idle"]
    /\ child' = IF pc[s] \in {"stop", "switch"} THEN [child EXCEPT ![s] = NoTree] ELSE child
    /\ entry' = [entry EXCEPT ![s] = NoTree]
    /\ known' = known \cup IF pc[s] = "record" THEN {child[s]} ELSE {}
    /\ masked' = masked \cup IF pc[s] = "record" /\ entry[s] \notin Result(s) THEN {child[s]} ELSE {}
    /\ step' = [step EXCEPT ![s] = "none"]
    /\ held' = [held EXCEPT ![s] = FALSE]
    /\ rows' = [rows EXCEPT ![s] = {}]

Release(s) == lock' = IF held[s] THEN "-" ELSE lock

\* A sweep that dropped no row leaves the file alone.
Rewrites(s) == pc[s] # "sweep" \/ step[s] = "dropped"

\* An empty ledger is removed, and any other is truncated and written.
Write(s) ==
    /\ step[s] \in {"read", "dropped"} /\ todo[s] = {}
    /\ IF Rewrites(s) /\ Result(s) # {}
       THEN /\ ledger' = {} /\ step' = [step EXCEPT ![s] = "truncated"]
            /\ UNCHANGED <<lock, pc, held, rows, child, entry, known, masked>>
       ELSE /\ ledger' = IF Rewrites(s) THEN {} ELSE ledger
            /\ Done(s) /\ Release(s)
    /\ UNCHANGED <<proc, born, errors, pid, todo, intact, target>>

WriteRows(s) ==
    /\ step[s] = "truncated"
    /\ ledger' = Result(s) /\ Done(s) /\ Release(s)
    /\ UNCHANGED <<proc, born, errors, pid, todo, intact, target>>

\* Nobody looks whether the file could be removed, opened or written: the old rows
\* stay, or those of a file that was truncated are gone.
WriteFails(s) ==
    /\ step[s] = "truncated" \/ (step[s] \in {"read", "dropped"} /\ todo[s] = {} /\ Rewrites(s))
    /\ Fails /\ Done(s) /\ Release(s)
    /\ UNCHANGED <<proc, born, ledger, pid, todo, target>>

Init ==
    /\ \E first \in {0} \cup (IF Legacy THEN Pids ELSE {}) :
          /\ proc = [p \in Pids |-> IF p = first THEN [what |-> "harness", by |-> "old", at |-> 1] ELSE NoProc]
          /\ ledger = IF first = 0 THEN {} ELSE {[pid |-> first, owner |-> 0, at |-> 0]}
    /\ born = 1 /\ lock = "-" /\ errors = 0
    /\ pid = [s \in Sessions |-> 0] /\ pc = [s \in Sessions |-> "off"]
    /\ step = [s \in Sessions |-> "none"] /\ held = [s \in Sessions |-> FALSE]
    /\ rows = [s \in Sessions |-> {}] /\ todo = [s \in Sessions |-> {}]
    /\ child = [s \in Sessions |-> NoTree] /\ entry = [s \in Sessions |-> NoTree]
    /\ known = {} /\ masked = {} /\ intact = TRUE /\ target = [s \in Sessions |-> {}]

Next ==
    \/ \E p \in Pids : StrangerStarts(p) \/ Exits(p)
    \/ \E s \in Sessions, p \in Pids : SessionStarts(s, p) \/ Spawn(s, p)
    \/ \E s \in Sessions : \/ Dies(s) \/ Launch(s) \/ Stop(s) \/ ExitSink(s) \/ SpawnFails(s)
                           \/ Lock(s) \/ LockError(s) \/ Read(s) \/ ReadFails(s)
                           \/ Write(s) \/ WriteRows(s) \/ WriteFails(s)
                           \/ \E r \in todo[s] : Judge(s, r)

Spec == Init /\ [][Next]_vars

-----------------------------------------------------------------------------
\* "a PID the system recycled onto an unrelated process must not be killed"
\* (sweep_leftover): what a sweep kills for a row with a creation time is the harness
\* of a launcher that is gone, never a stranger, nor a tree another launcher manages.
SweepSparesStrangers ==
    [][\A s \in Sessions : \A r \in todo[s] :
          Judge(s, r) /\ r.at # 0
             => \A p \in Pids : proc'[p] # proc[p] => Orphan(TreeOf(p))]_vars

\* The row outlives the launcher: a harness that is up and was recorded is on file,
\* whatever other launchers record, forget and sweep, until an operation goes
\* unlocked, cannot read or write the file or is cut off while it writes, or the PID
\* had an old row at the time.
RecordedTreeKeepsRow ==
    intact /\ (\A s \in Sessions : step[s] # "truncated")
       => \A t \in known \ masked : Up(t) => Named(t)

\* A sweep is thorough: when a launch spawns, no orphan that its sweep read on file is
\* up, even when it could not write the ledger back, but for one whose owner's PID had a new holder.
SweepReapsOrphans ==
    \A s \in Sessions : pc[s] = "spawn" => \A t \in target[s] : ~Up(t)

=============================================================================
