-------------------------- MODULE PidLedger_proofs ---------------------------
(***************************************************************************)
(* What the ledger keeps, and whom a sweep kills, for any number of        *)
(* launchers, programs and PIDs.  The argument rests on times: no two      *)
(* processes of one PID share one, so a tree that is down never comes up,  *)
(* and a row with a time names the harness it was written for or nothing.  *)
(***************************************************************************)
EXTENDS PidLedger, TLAPS

Active == {"idle", "stop", "switch", "sweep", "spawn", "record"}

Tables ==
  /\ proc \in [Pids -> Process \cup {NoProc}] /\ born \in Times
  /\ pid \in [Sessions -> Pids \cup {0}]
  /\ pc \in [Sessions -> Active \cup {"off", "over"}]
  /\ child \in [Sessions -> Tree \cup {NoTree}]

Files ==
  /\ ledger \in SUBSET Row /\ lock \in Sessions \cup {"-"} /\ errors \in 0..MaxErrors
  /\ step \in [Sessions -> {"none", "locked", "read", "dropped", "truncated"}]
  /\ held \in [Sessions -> BOOLEAN]
  /\ rows \in [Sessions -> SUBSET Row] /\ todo \in [Sessions -> SUBSET Row]
  /\ entry \in [Sessions -> Row \cup {NoTree}]
  /\ \A s \in Sessions : pc[s] = "record" => entry[s] \in Row /\ child[s] \in Tree
  /\ \A s \in Sessions : step[s] # "none" => pc[s] \in {"stop", "switch", "sweep", "record"}

Histories ==
  /\ known \in SUBSET Tree /\ masked \in SUBSET Tree /\ intact \in BOOLEAN
  /\ target \in [Sessions -> SUBSET Tree]

(* Types, and what a session has at hand while it works on the files.      *)
Typed == Tables /\ Files /\ Histories

(* A process is no younger than the clock; a launcher is of a session that *)
(* is up; no session has a process before it starts.                       *)
ProcessesFine ==
  /\ \A p \in Pids : proc[p].at <= born
  /\ \A p \in Pids : proc[p].what = "launcher" =>
       proc[p].by \in Sessions /\ pid[proc[p].by] = p /\ pc[proc[p].by] \in Active
  /\ \A p \in Pids : proc[p].by \in Sessions => pc[proc[p].by] # "off"

(* A session that is up is in the process table.                           *)
LaunchersUp ==
  \A s \in Sessions : pc[s] \in Active =>
    pid[s] \in Pids /\ proc[pid[s]].what = "launcher" /\ proc[pid[s]].by = s

-----------------------------------------------------------------------------
(* What a step does to the process table: some processes end, one starts.  *)
Evolves ==
  /\ born' \in Times /\ born' >= born
  /\ \A p \in Pids : \/ proc'[p] = proc[p] \/ proc'[p] = NoProc
                     \/ proc[p] = NoProc /\ born' = born + 1 /\ proc'[p].at = born'

LEMMA Records ==
  /\ NoProc.at = 0 /\ NoProc.what = "none" /\ NoProc.by = "-"
  /\ NoTree \notin Row /\ NoTree \notin Tree /\ NoTree.pid = 0 /\ NoTree.at = 0
  /\ \A x \in Process : x.at >= 1 /\ x # NoProc
  /\ "-" \notin Sessions /\ "old" \notin Sessions /\ 0 \notin Pids
BY LedgerAssumption DEF NoProc, NoTree, Row, Tree, Process

LEMMA Forks ==
  ASSUME Tables, NEW p, NEW what, NEW by, Fork(p, what, by), p \in Pids,
         what \in {"launcher", "harness", "other"}, by \in Sessions \cup {"-", "old"}
  PROVE  /\ proc' \in [Pids -> Process \cup {NoProc}] /\ born' \in Times /\ Evolves
         /\ proc'[p] = [what |-> what, by |-> by, at |-> born + 1] /\ born' = born + 1
         /\ \A q \in Pids \ {p} : proc'[q] = proc[q]
         /\ [pid |-> p, at |-> born + 1] \in Tree
BY LedgerAssumption DEF Tables, Fork, Evolves, Process, Times, Tree

LEMMA Kills ==
  ASSUME Tables, NEW s \in Sessions, Killed(s)
  PROVE  /\ proc' \in [Pids -> Process \cup {NoProc}] /\ Evolves
         /\ \A p \in Pids : proc'[p] = proc[p] \/ (proc'[p] = NoProc /\ (p = pid[s] \/ (p = child[s].pid /\ Up(child[s]))))
         /\ \A p \in Pids : p = pid[s] => proc'[p] = NoProc
BY LedgerAssumption DEF Tables, Killed, Evolves, Times

LEMMA KillTree ==
  ASSUME Tables, NEW p, proc' = kill_tree(p), UNCHANGED born
  PROVE  /\ proc' \in [Pids -> Process \cup {NoProc}] /\ Evolves
         /\ \A q \in Pids : proc'[q] = IF q = p THEN NoProc ELSE proc[q]
<1>1. proc' = [proc EXCEPT ![p] = NoProc]
  BY DEF kill_tree
<1>2. /\ proc' \in [Pids -> Process \cup {NoProc}]
      /\ \A q \in Pids : proc'[q] = IF q = p THEN NoProc ELSE proc[q]
  BY <1>1 DEF Tables
<1>3. born' \in Times /\ born' >= born
  BY LedgerAssumption DEF Tables, Times
<1>4. QED
  BY <1>2, <1>3 DEF Evolves

LEMMA RowSets ==
  ASSUME Typed, NEW s \in Sessions
  PROVE  Result(s) \in SUBSET Row
BY DEF Typed, Files, Result, record_entry, forget

(* A file operation that fails counts.                                     *)
LEMMA Counts ==
  ASSUME Files, Fails
  PROVE  errors' \in 0..MaxErrors /\ intact' = FALSE
BY LedgerAssumption DEF Files, Fails

(* The end of a file operation, and the truncation in the middle of it.    *)
LEMMA WriteCases ==
  ASSUME NEW s \in Sessions, Write(s) \/ WriteRows(s) \/ WriteFails(s)
  PROVE  /\ step[s] # "none" /\ UNCHANGED <<proc, born, pid, todo, target>>
         /\ step[s] = "truncated" \/ (step[s] \in {"read", "dropped"} /\ todo[s] = {})
         /\ intact' => intact
         /\ \/ /\ Done(s) /\ Release(s) /\ ledger' \in {Result(s), ledger, {}}
               /\ intact' => ledger' = Result(s) \/ (ledger' = ledger /\ pc[s] = "sweep" /\ step[s] = "read")
            \/ /\ ledger' = {} /\ step' = [step EXCEPT ![s] = "truncated"] /\ intact' = intact
               /\ UNCHANGED <<lock, pc, held, rows, child, entry, known, masked>>
BY DEF Write, WriteRows, WriteFails, Rewrites, Fails

LEMMA KilledTyped ==
  ASSUME Typed, NEW s \in Sessions, Killed(s)
  PROVE  Typed'
<1>1. Tables'
  <2>1. proc' \in [Pids -> Process \cup {NoProc}] /\ born' \in Times
    BY Kills DEF Typed, Evolves
  <2>2. QED
    BY <2>1 DEF Typed, Tables, Killed
<1>2. Files'
  BY LedgerAssumption DEF Typed, Tables, Files, Killed
<1>3. Histories'
  BY DEF Typed, Histories, Killed
<1>4. QED
  BY <1>1, <1>2, <1>3 DEF Typed

LEMMA DoneTyped ==
  ASSUME Typed, NEW s \in Sessions, Done(s), Release(s), ledger' \in {Result(s), ledger, {}},
         pc[s] \in {"stop", "switch", "sweep", "record"}, errors' \in 0..MaxErrors, intact' \in BOOLEAN,
         UNCHANGED <<proc, born, pid, todo, target>>
  PROVE  Typed'
<1>1. Tables'
  BY DEF Typed, Tables, Done, Active
<1>2. Files'
  BY RowSets DEF Typed, Tables, Files, Done, Release, Active
<1>3. Histories'
  BY DEF Typed, Tables, Files, Histories, Done
<1>4. QED
  BY <1>1, <1>2, <1>3 DEF Typed

LEMMA TypedStep ==
  ASSUME Typed, ProcessesFine, Next
  PROVE  Typed'
<1> USE DEF Typed
<1>1. ASSUME NEW p \in Pids, StrangerStarts(p) \/ Exits(p)
      PROVE  Typed'
  <2>1. proc' \in [Pids -> Process \cup {NoProc}] /\ born' \in Times
    BY <1>1, Forks DEF Tables, StrangerStarts, Exits
  <2>2. QED
    BY <1>1, <2>1 DEF Tables, Files, Histories, StrangerStarts, Exits, file, session, history
<1>2. ASSUME NEW s \in Sessions, NEW p \in Pids, SessionStarts(s, p)
      PROVE  Typed'
  <2>1. proc' \in [Pids -> Process \cup {NoProc}] /\ born' \in Times
    BY <1>2, Forks DEF SessionStarts
  <2>2. QED
    BY <1>2, <2>1 DEF Tables, Files, Histories, SessionStarts, file, history, Active
<1>3. ASSUME NEW s \in Sessions, NEW p \in Pids, Spawn(s, p)
      PROVE  Typed'
  <2>1. /\ proc' \in [Pids -> Process \cup {NoProc}] /\ born' \in Times
        /\ [pid |-> p, at |-> born + 1] \in Tree /\ born' = born + 1
    BY <1>3, Forks DEF Spawn
  <2>2. Tables'
    BY <1>3, <2>1 DEF Tables, Spawn, Active
  <2>3. PICK at \in {0, born + 1} : entry' = [entry EXCEPT ![s] = [pid |-> p, owner |-> pid[s], at |-> at]]
    BY <1>3 DEF Spawn
  <2>4. [pid |-> p, owner |-> pid[s], at |-> at] \in Row
    BY <2>1, <2>3, LedgerAssumption DEF Tables, Row, Times
  <2>5. Files'
    BY <1>3, <2>1, <2>3, <2>4 DEF Tables, Files, Spawn, file
  <2>6. QED
    BY <1>3, <2>2, <2>5 DEF Histories, Spawn, history
<1>4. ASSUME NEW s \in Sessions, Dies(s)
      PROVE  Typed'
  BY <1>4, KilledTyped DEF Dies
<1>5. ASSUME NEW s \in Sessions, Launch(s) \/ Stop(s)
      PROVE  Typed'
  <2>1. proc' \in [Pids -> Process \cup {NoProc}] /\ born' \in Times
    BY <1>5, KillTree DEF Tables, Launch, Stop
  <2>2. QED
    BY <1>5, <2>1 DEF Tables, Files, Histories, Launch, Stop, file, history, Active
<1>6. ASSUME NEW s \in Sessions, ExitSink(s) \/ SpawnFails(s) \/ Lock(s) \/ LockError(s)
      PROVE  Typed'
  <2>1. errors' \in 0..MaxErrors /\ intact' \in BOOLEAN
    BY <1>6, Counts DEF Files, Histories, ExitSink, SpawnFails, Lock, LockError, file, history
  <2>2. QED
    BY <1>6, <2>1 DEF Tables, Files, Histories, ExitSink, SpawnFails, Lock, LockError, file, history, Active
<1>7. ASSUME NEW s \in Sessions, Read(s) \/ ReadFails(s)
      PROVE  Typed'
  <2>1. errors' \in 0..MaxErrors /\ intact' \in BOOLEAN
    BY <1>7, Counts DEF Files, Histories, Read, ReadFails, file
  <2>2. QED
    BY <1>7, <2>1 DEF Tables, Files, Histories, Read, ReadFails, file
<1>8. ASSUME NEW s \in Sessions, Write(s) \/ WriteRows(s) \/ WriteFails(s)
      PROVE  Typed'
  <2>1. pc[s] \in {"stop", "switch", "sweep", "record"}
    BY <1>8 DEF Files, Write, WriteRows, WriteFails
  <2>2. errors' \in 0..MaxErrors /\ intact' \in BOOLEAN
    BY <1>8, Counts DEF Files, Histories, Write, WriteRows, WriteFails
  <2>3. CASE /\ ledger' \in {Result(s), ledger, {}} /\ Done(s) /\ Release(s)
             /\ UNCHANGED <<proc, born, pid, todo, target>>
    BY <2>1, <2>2, <2>3, DoneTyped
  <2>4. CASE /\ ledger' = {} /\ step' = [step EXCEPT ![s] = "truncated"]
             /\ UNCHANGED <<lock, pc, held, rows, child, entry, known, masked, proc, born, pid, todo, target>>
    BY <2>1, <2>2, <2>4 DEF Tables, Files, Histories
  <2>5. QED
    BY <1>8, <2>3, <2>4, WriteCases
<1>9. ASSUME NEW s \in Sessions, NEW r \in todo[s], Judge(s, r)
      PROVE  Typed'
  <2>1. CASE pid_alive(r.owner)
    <3>1. /\ rows' = [rows EXCEPT ![s] = @ \cup {r}] /\ todo' = [todo EXCEPT ![s] = @ \ {r}]
          /\ target' = [target EXCEPT ![s] = {t \in @ : t.pid # r.pid}] /\ r \in Row
          /\ UNCHANGED <<proc, born, file, pid, pc, step, held, child, entry, known, masked, intact>>
      BY <1>9, <2>1 DEF Judge, Files
    <3>2. Tables' /\ Files'
      BY <3>1 DEF Tables, Files, file
    <3>3. Histories'
      BY <3>1 DEF Histories
    <3>4. QED
      BY <3>2, <3>3
  <2>2. CASE ~pid_alive(r.owner) /\ pid_is_recorded_process(r) /\ proc[r.pid].what = "launcher"
    <3>1. proc[r.pid].by \in Sessions /\ Killed(proc[r.pid].by)
      BY <1>9, <2>2 DEF Judge, ProcessesFine, pid_is_recorded_process, pid_alive
    <3>2. QED
      BY <3>1, KilledTyped
  <2>3. CASE ~pid_alive(r.owner) /\ ~(pid_is_recorded_process(r) /\ proc[r.pid].what = "launcher")
    <3>1. proc' \in [Pids -> Process \cup {NoProc}] /\ UNCHANGED <<born, file, pid, pc, held, rows, child, entry, history>>
          /\ todo' = [todo EXCEPT ![s] = @ \ {r}] /\ step' = [step EXCEPT ![s] = "dropped"] /\ pc[s] = "sweep"
      BY <1>9, <2>3, KillTree DEF Judge, Tables
    <3>2. QED
      BY <3>1 DEF Tables, Files, Histories, file, history
  <2>4. QED
    BY <2>1, <2>2, <2>3
<1>10. QED
  BY <1>1, <1>2, <1>3, <1>4, <1>5, <1>6, <1>7, <1>8, <1>9 DEF Next

-----------------------------------------------------------------------------
(* A step kills one process or a launcher with its tree, starts one, or    *)
(* leaves the process table alone.                                         *)
LEMMA Judges ==
  ASSUME Typed, ProcessesFine, NEW s \in Sessions, NEW r \in todo[s], Judge(s, r)
  PROVE  \/ pid_alive(r.owner) /\ UNCHANGED <<proc, born, file, pid, pc, step, child, entry, known, masked, intact>>
         \/ /\ pid_is_recorded_process(r) /\ proc[r.pid].what = "launcher"
            /\ proc[r.pid].by \in Sessions /\ pid[proc[r.pid].by] = r.pid /\ Killed(proc[r.pid].by)
         \/ /\ ~pid_alive(r.owner) /\ proc' = IF pid_is_recorded_process(r) THEN kill_tree(r.pid) ELSE proc
            /\ pid_is_recorded_process(r) => proc[r.pid].what # "launcher"
            /\ step' = [step EXCEPT ![s] = "dropped"]
            /\ UNCHANGED <<born, file, pid, pc, held, rows, child, entry, history>>
BY DEF Judge, ProcessesFine, pid_is_recorded_process, pid_alive

Goes ==
  /\ Evolves
  /\ \A s \in Sessions : pc[s] # "off" => pid'[s] = pid[s] /\ pc'[s] # "off"
  /\ \A s \in Sessions : pc[s] = "over" => pc'[s] = "over"

LEMMA StandsStill ==
  ASSUME Tables, UNCHANGED <<proc, born>>
  PROVE  Evolves
BY LedgerAssumption DEF Tables, Evolves, Times

LEMMA Course ==
  ASSUME Typed, ProcessesFine, Next
  PROVE  Goes
<1> USE DEF Typed, Tables
<1>1. ASSUME NEW p \in Pids, StrangerStarts(p) \/ Exits(p)
      PROVE  Goes
  <2>1. Evolves
    <3>1. CASE StrangerStarts(p)
      BY <3>1, Forks DEF StrangerStarts
    <3>2. CASE Exits(p)
      BY <3>2, LedgerAssumption DEF Exits, Evolves, Times
    <3>3. QED
      BY <1>1, <3>1, <3>2
  <2>2. QED
    BY <1>1, <2>1 DEF Goes, StrangerStarts, Exits, session
<1>2. ASSUME NEW s \in Sessions, NEW p \in Pids, SessionStarts(s, p) \/ Spawn(s, p)
      PROVE  Goes
  <2>1. Evolves
    BY <1>2, Forks DEF SessionStarts, Spawn
  <2>2. QED
    BY <1>2, <2>1 DEF Goes, SessionStarts, Spawn
<1>3. ASSUME NEW s \in Sessions, Killed(s)
      PROVE  Goes
  <2>1. Evolves
    BY <1>3, Kills
  <2>2. QED
    BY <1>3, <2>1 DEF Goes, Killed
<1>4. ASSUME NEW s \in Sessions, Launch(s) \/ Stop(s)
      PROVE  Goes
  <2>1. Evolves
    BY <1>4, KillTree, StandsStill DEF Launch, Stop
  <2>2. QED
    BY <1>4, <2>1 DEF Goes, Launch, Stop
<1>5. ASSUME NEW s \in Sessions, ExitSink(s) \/ SpawnFails(s) \/ Lock(s) \/ LockError(s) \/ Read(s) \/ ReadFails(s)
      PROVE  Goes
  <2>1. Evolves
    BY <1>5, StandsStill DEF ExitSink, SpawnFails, Lock, LockError, Read, ReadFails
  <2>2. QED
    BY <1>5, <2>1 DEF Goes, ExitSink, SpawnFails, Lock, LockError, Read, ReadFails
<1>6. ASSUME NEW s \in Sessions, Write(s) \/ WriteRows(s) \/ WriteFails(s)
      PROVE  Goes
  <2>1. Evolves
    BY <1>6, StandsStill DEF Write, WriteRows, WriteFails
  <2>2. pc[s] \in {"stop", "switch", "sweep", "record"} /\ UNCHANGED pid
    BY <1>6 DEF Files, Write, WriteRows, WriteFails
  <2>3. (\A u \in Sessions \ {s} : pc'[u] = pc[u]) /\ pc'[s] \in {"stop", "switch", "sweep", "record", "spawn", "idle"}
    BY <1>6, <2>2 DEF Write, WriteRows, WriteFails, Done
  <2>4. QED
    BY <2>1, <2>2, <2>3 DEF Goes
<1>7. ASSUME NEW s \in Sessions, NEW r \in todo[s], Judge(s, r)
      PROVE  Goes
  <2>1. CASE UNCHANGED <<proc, born, pid, pc>>
    BY <2>1, StandsStill DEF Goes
  <2>2. CASE UNCHANGED <<born, pid, pc>> /\ proc' = IF pid_is_recorded_process(r) THEN kill_tree(r.pid) ELSE proc
    BY <2>2, StandsStill, KillTree DEF Goes
  <2>3. QED
    BY <1>3, <1>7, <2>1, <2>2, Judges
<1>8. QED
  BY <1>1, <1>2, <1>3, <1>4, <1>5, <1>6, <1>7 DEF Next, Dies

-----------------------------------------------------------------------------
(* The tree of a session, as long as it is up, is a harness it started.    *)
ChildrenFine ==
  \A s \in Sessions : child[s] # NoTree =>
    child[s].at <= born /\ (Up(child[s]) => proc[child[s].pid].what = "harness" /\ proc[child[s].pid].by = s)

TableFine == ProcessesFine /\ LaunchersUp /\ ChildrenFine

(* What is down stays down.                                                *)
LEMMA StaysDown ==
  ASSUME Typed, ProcessesFine, Goes, NEW t \in Tree, t.at <= born, Up(t)'
  PROVE  Up(t) /\ proc'[t.pid] = proc[t.pid]
<1>1. t.pid \in Pids /\ t.at >= 1 /\ t.at \in Nat /\ proc'[t.pid].at = t.at
  BY LedgerAssumption DEF Tree, Up
<1>2. proc'[t.pid] = proc[t.pid] \/ proc'[t.pid] = NoProc \/ proc'[t.pid].at = born + 1
  BY <1>1 DEF Goes, Evolves
<1>3. QED
  BY <1>1, <1>2, Records, LedgerAssumption DEF Typed, Tables, Times, Up

(* Processes that end, and a launcher only with its session.               *)
LEMMA ThinsOut ==
  ASSUME Typed, Typed', TableFine, Goes, UNCHANGED <<born, pid>>,
         \A p \in Pids : proc'[p] = proc[p] \/ proc'[p] = NoProc,
         \A p \in Pids : proc'[p] # proc[p] /\ proc[p].what = "launcher" => pc'[proc[p].by] \notin Active,
         \A s \in Sessions : pc'[s] \in Active => pc[s] \in Active,
         \A s \in Sessions : pc[s] \in Active /\ pc'[s] \notin Active => proc'[pid[s]] = NoProc,
         \A s \in Sessions : child'[s] = child[s] \/ child'[s] = NoTree
  PROVE  TableFine'
<1>1. ProcessesFine'
  <2>1. \A p \in Pids : proc'[p].at <= born'
    BY Records, LedgerAssumption DEF TableFine, ProcessesFine, Typed, Tables, Times
  <2>2. ASSUME NEW p \in Pids, proc'[p].what = "launcher"
        PROVE  proc'[p].by \in Sessions /\ pid'[proc'[p].by] = p /\ pc'[proc'[p].by] \in Active
    <3>1. proc'[p] = proc[p]
      BY <2>2, Records
    <3>2. proc[p].by \in Sessions /\ pid[proc[p].by] = p /\ pc[proc[p].by] \in Active
      BY <2>2, <3>1 DEF TableFine, ProcessesFine
    <3>3. proc[p] # NoProc
      BY <2>2, <3>1, Records
    <3>4. QED
      BY <3>1, <3>2, <3>3
  <2>3. \A p \in Pids : proc'[p].by \in Sessions => pc'[proc'[p].by] # "off"
    BY Records DEF TableFine, ProcessesFine, Goes
  <2>4. QED
    BY <2>1, <2>2, <2>3 DEF ProcessesFine
<1>2. LaunchersUp'
  BY DEF TableFine, LaunchersUp
<1>3. ASSUME NEW s \in Sessions, child'[s] # NoTree
      PROVE  /\ child'[s].at <= born'
             /\ Up(child[s])' => proc'[child'[s].pid].what = "harness" /\ proc'[child'[s].pid].by = s
  <2>1. child'[s] = child[s] /\ child[s] \in Tree /\ child[s].at <= born
    BY <1>3 DEF TableFine, ChildrenFine, Typed, Tables
  <2>2. ASSUME Up(child[s])'
        PROVE  proc'[child[s].pid] = proc[child[s].pid] /\ Up(child[s])
    <3> DEFINE t == child[s]
    <3>1. proc'[t.pid].at = t.at /\ t.pid \in Pids /\ t.at # 0
      BY <2>1, <2>2 DEF Up, Tree
    <3>2. QED
      BY <2>1, <3>1, Records DEF Up
  <2>3. Up(child[s]) => proc[child[s].pid].what = "harness" /\ proc[child[s].pid].by = s
    BY <2>1, Records DEF TableFine, ChildrenFine
  <2>4. child'[s].at <= born'
    BY <2>1
  <2>5. QED
    BY <2>1, <2>2, <2>3, <2>4
<1>4. QED
  BY <1>1, <1>2, <1>3 DEF TableFine, ChildrenFine

(* A process that starts.                                                  *)
LEMMA OneStarts ==
  ASSUME Typed, TableFine, NEW p \in Pids, NEW what \in {"launcher", "harness", "other"},
         NEW by \in Sessions \cup {"-", "old"}, Fork(p, what, by),
         what = "launcher" => by \in Sessions /\ pid'[by] = p /\ pc'[by] \in Active,
         by \in Sessions => pc'[by] # "off",
         \A s \in Sessions : pc[s] # "off" => pid'[s] = pid[s] /\ pc'[s] # "off" /\ (pc[s] \in Active <=> pc'[s] \in Active),
         \A s \in Sessions : pc[s] = "off" /\ pc'[s] # "off" => what = "launcher" /\ by = s,
         \A s \in Sessions : child'[s] = child[s]
            \/ (what = "harness" /\ by = s /\ child'[s] = [pid |-> p, at |-> born + 1])
  PROVE  TableFine'
<1>1. /\ proc'[p] = [what |-> what, by |-> by, at |-> born + 1] /\ born' = born + 1
      /\ \A q \in Pids \ {p} : proc'[q] = proc[q]
      /\ proc[p] = NoProc /\ born \in Nat
  BY Forks, LedgerAssumption DEF Fork, Typed, Tables, Times
<1>2. ProcessesFine'
  <2>1. \A q \in Pids : proc'[q].at <= born'
    BY <1>1, LedgerAssumption DEF TableFine, ProcessesFine, Typed, Tables, Times, Process, NoProc
  <2>2. ASSUME NEW q \in Pids, proc'[q].what = "launcher"
        PROVE  proc'[q].by \in Sessions /\ pid'[proc'[q].by] = q /\ pc'[proc'[q].by] \in Active
    <3>1. CASE q = p
      BY <1>1, <2>2, <3>1
    <3>2. CASE q # p
      BY <1>1, <2>2, <3>2 DEF TableFine, ProcessesFine, Active
    <3>3. QED
      BY <3>1, <3>2
  <2>3. \A q \in Pids : proc'[q].by \in Sessions => pc'[proc'[q].by] # "off"
    BY <1>1 DEF TableFine, ProcessesFine
  <2>4. QED
    BY <2>1, <2>2, <2>3 DEF ProcessesFine
<1>3. LaunchersUp'
  <2>1. ASSUME NEW s \in Sessions, pc'[s] \in Active
        PROVE  pid'[s] \in Pids /\ proc'[pid'[s]].what = "launcher" /\ proc'[pid'[s]].by = s
    <3>1. CASE pc[s] = "off"
      BY <1>1, <2>1, <3>1 DEF Active
    <3>2. CASE pc[s] # "off"
      BY <1>1, <2>1, <3>2, Records DEF TableFine, LaunchersUp
    <3>3. QED
      BY <3>1, <3>2
  <2>2. QED
    BY <2>1 DEF LaunchersUp
<1>4. ASSUME NEW s \in Sessions, child'[s] # NoTree
      PROVE  /\ child'[s].at <= born'
             /\ proc'[child'[s].pid].at = child'[s].at
                  => proc'[child'[s].pid].what = "harness" /\ proc'[child'[s].pid].by = s
  <2>1. CASE child'[s] = child[s]
    <3>1. child[s] \in Tree /\ child[s].at <= born /\ child[s].at \in Nat
      BY <1>4, <2>1, LedgerAssumption DEF TableFine, ChildrenFine, Typed, Tables, Tree
    <3>2. child[s].pid = p => ~(proc'[child[s].pid].at = child[s].at)
      BY <1>1, <3>1
    <3>3. child[s].pid \in Pids /\ (proc[child[s].pid].at = child[s].at
                                      => proc[child[s].pid].what = "harness" /\ proc[child[s].pid].by = s)
      BY <3>1, Records DEF TableFine, ChildrenFine, Up, Tree
    <3>4. QED
      BY <1>1, <2>1, <3>1, <3>2, <3>3
  <2>2. CASE what = "harness" /\ by = s /\ child'[s] = [pid |-> p, at |-> born + 1]
    BY <1>1, <2>2
  <2>3. QED
    BY <2>1, <2>2
<1>5. QED
  BY <1>2, <1>3, <1>4 DEF TableFine, ChildrenFine, Up

LEMMA TableStays ==
  ASSUME Typed, TableFine, Next
  PROVE  TableFine'
<1> USE DEF Typed, Tables
<1>0. Goes /\ Typed'
  BY Course, TypedStep DEF TableFine
<1>1. ASSUME NEW p \in Pids, StrangerStarts(p)
      PROVE  TableFine'
  <2>1. Fork(p, "other", "-") /\ UNCHANGED <<pid, pc, child>>
    BY <1>1 DEF StrangerStarts, session
  <2>2. QED
    BY <1>0, <2>1, Records, OneStarts
<1>2. ASSUME NEW p \in Pids, Exits(p)
      PROVE  TableFine'
  BY <1>0, <1>2, ThinsOut, StandsStill DEF Exits, session, LaunchersUp, TableFine
<1>3. ASSUME NEW s \in Sessions, NEW p \in Pids, SessionStarts(s, p)
      PROVE  TableFine'
  BY <1>0, <1>3, OneStarts DEF SessionStarts, Active
<1>4. ASSUME NEW s \in Sessions, NEW p \in Pids, Spawn(s, p)
      PROVE  TableFine'
  BY <1>0, <1>4, OneStarts DEF Spawn, Active
<1>5. ASSUME NEW s \in Sessions, Killed(s), pc[s] \in Active
      PROVE  TableFine'
  <2>1. /\ \A p \in Pids : proc'[p] = proc[p] \/ (proc'[p] = NoProc /\ (p = pid[s] \/ (p = child[s].pid /\ Up(child[s]))))
        /\ \A p \in Pids : p = pid[s] => proc'[p] = NoProc
        /\ UNCHANGED <<born, pid>> /\ pc' = [pc EXCEPT ![s] = "over"] /\ child' = [child EXCEPT ![s] = NoTree]
    BY <1>5, Kills DEF Killed
  <2>2. pid[s] \in Pids /\ proc[pid[s]].by = s
    BY <1>5 DEF TableFine, LaunchersUp
  <2>3. Up(child[s]) => proc[child[s].pid].what = "harness"
    BY Records DEF TableFine, ChildrenFine, Up
  <2>4. \A p \in Pids : proc'[p] # proc[p] /\ proc[p].what = "launcher" => pc'[proc[p].by] \notin Active
    BY <2>1, <2>2, <2>3 DEF Active
  <2>5. QED
    BY <1>0, <2>1, <2>2, <2>4, ThinsOut DEF Active
<1>6. ASSUME NEW s \in Sessions, Launch(s) \/ Stop(s)
      PROVE  TableFine'
  <2>1. /\ UNCHANGED <<born, pid, child>>
        /\ pc[s] = "idle" /\ pc' \in {[pc EXCEPT ![s] = "sweep"], [pc EXCEPT ![s] = "switch"], [pc EXCEPT ![s] = "stop"]}
    BY <1>6 DEF Launch, Stop
  <2>2. \A p \in Pids : proc'[p] = proc[p] \/ (proc'[p] = NoProc /\ p = child[s].pid /\ Up(child[s]))
    BY <1>6, KillTree DEF Launch, Stop
  <2>3. Up(child[s]) => proc[child[s].pid].what = "harness"
    BY Records DEF TableFine, ChildrenFine, Up
  <2>4. \A u \in Sessions : pc[u] \in Active <=> pc'[u] \in Active
    BY <2>1 DEF Active
  <2>5. QED
    BY <1>0, <2>1, <2>2, <2>3, <2>4, ThinsOut
<1>7. ASSUME UNCHANGED <<proc, born, pid>>,
             \A s \in Sessions : (pc[s] \in Active <=> pc'[s] \in Active),
             \A s \in Sessions : child'[s] = child[s] \/ child'[s] = NoTree
      PROVE  TableFine'
  BY <1>0, <1>7, ThinsOut
<1>8. ASSUME NEW s \in Sessions, ExitSink(s) \/ SpawnFails(s) \/ Lock(s) \/ LockError(s) \/ Read(s) \/ ReadFails(s)
      PROVE  TableFine'
  BY <1>7, <1>8 DEF ExitSink, SpawnFails, Lock, LockError, Read, ReadFails, Active, file
<1>9. ASSUME NEW s \in Sessions, Write(s) \/ WriteRows(s) \/ WriteFails(s)
      PROVE  TableFine'
  <2>1. pc[s] \in {"stop", "switch", "sweep", "record"} /\ UNCHANGED <<proc, born, pid>>
    BY <1>9 DEF Files, Write, WriteRows, WriteFails
  <2>2. UNCHANGED <<pc, child>> \/ Done(s)
    BY <1>9 DEF Write, WriteRows, WriteFails
  <2>3. \A u \in Sessions : pc[u] \in Active <=> pc'[u] \in Active
    BY <2>1, <2>2 DEF Done, Active
  <2>4. QED
    BY <1>7, <2>1, <2>2, <2>3 DEF Done
<1>10. ASSUME NEW s \in Sessions, NEW r \in todo[s], Judge(s, r)
      PROVE  TableFine'
  <2>1. CASE UNCHANGED <<proc, born, pid, pc, child>>
    BY <1>7, <2>1
  <2>2. ASSUME NEW u \in Sessions, pid[u] = r.pid, Killed(u), proc[r.pid].what = "launcher", proc[r.pid].by = u, r.pid \in Pids
        PROVE  TableFine'
    BY <1>5, <2>2 DEF TableFine, ProcessesFine
  <2>3. ASSUME ~(pid_is_recorded_process(r) /\ proc[r.pid].what = "launcher"), UNCHANGED <<born, pid, pc, child>>,
               proc' = IF pid_is_recorded_process(r) THEN kill_tree(r.pid) ELSE proc
        PROVE  TableFine'
    <3>1. \A p \in Pids : proc'[p] = proc[p] \/ (proc'[p] = NoProc /\ proc[p].what # "launcher")
      BY <2>3, KillTree
    <3>2. QED
      BY <1>0, <2>3, <3>1, ThinsOut
  <2>4. QED
    BY <1>10, <2>1, <2>2, <2>3, Judges DEF TableFine, history, file, pid_is_recorded_process, pid_alive
<1>11. QED
  BY <1>1, <1>2, <1>3, <1>4, <1>5, <1>6, <1>8, <1>9, <1>10 DEF Next, Dies, Active

-----------------------------------------------------------------------------
(* A row with a time is of a harness that its owner's session started.     *)
RowFine(r) ==
  r.at # 0 => /\ r.at <= born
              /\ proc[r.pid].at = r.at => /\ proc[r.pid].what = "harness" /\ proc[r.pid].by \in Sessions
                                         /\ pid[proc[r.pid].by] = r.owner

RowsFine ==
  /\ \A r \in ledger : RowFine(r)
  /\ \A s \in Sessions : RowFine(entry[s]) /\ \A r \in rows[s] \cup todo[s] : RowFine(r)

LEMMA RowStays ==
  ASSUME Typed, TableFine, Goes, NEW r \in Row, RowFine(r)
  PROVE  RowFine(r)'
<1>1. r.pid \in Pids /\ r.at \in Nat /\ born \in Nat /\ born' \in Nat /\ born <= born'
  BY LedgerAssumption DEF Row, Times, Typed, Tables, Goes, Evolves
<1>2. \/ proc'[r.pid] = proc[r.pid] \/ proc'[r.pid] = NoProc
      \/ proc'[r.pid].at = born + 1
  BY <1>1 DEF Goes, Evolves
<1>3. CASE r.at # 0 /\ proc'[r.pid].at = r.at
  <2>1. r.at <= born
    BY <1>3 DEF RowFine
  <2>2. proc'[r.pid] = proc[r.pid]
    BY <1>1, <1>2, <1>3, <2>1, Records
  <2>3. proc[r.pid].what = "harness" /\ proc[r.pid].by \in Sessions /\ pid[proc[r.pid].by] = r.owner
    BY <1>3, <2>2 DEF RowFine
  <2>4. pid'[proc[r.pid].by] = r.owner
    BY <1>1, <2>3 DEF TableFine, ProcessesFine, Goes
  <2>5. QED
    BY <1>1, <2>1, <2>2, <2>3, <2>4 DEF RowFine
<1>4. CASE ~(r.at # 0 /\ proc'[r.pid].at = r.at)
  BY <1>1, <1>4 DEF RowFine
<1>5. QED
  BY <1>3, <1>4

(* A step brings no row but the one a launch is about to record.           *)
LEMMA RowsCome ==
  ASSUME Typed, TableFine, RowsFine, Goes, Typed',
         \A r \in ledger' : r \in ledger \/ \E s \in Sessions : r \in rows[s] \cup {entry[s]},
         \A s \in Sessions : \A r \in rows'[s] \cup todo'[s] : r \in rows[s] \cup todo[s] \cup ledger,
         \A s \in Sessions : entry'[s] = entry[s] \/ entry'[s] = NoTree \/ RowFine(entry[s])'
  PROVE  RowsFine'
<1>1. \A r : r \in Row /\ RowFine(r) => RowFine(r)'
  BY RowStays
<1>2. ASSUME NEW r \in ledger'
      PROVE  RowFine(r)'
  BY <1>1 DEF RowsFine, Typed, Files
<1>3. ASSUME NEW s \in Sessions
      PROVE  RowFine(entry[s])' /\ \A r \in rows'[s] \cup todo'[s] : RowFine(r)'
  <2>1. \A r \in rows'[s] \cup todo'[s] : RowFine(r)'
    BY <1>1 DEF RowsFine, Typed, Files
  <2>2. CASE entry'[s] = NoTree
    BY <2>1, <2>2, Records DEF RowFine
  <2>3. CASE entry'[s] = entry[s] /\ entry[s] # NoTree
    <3>1. \A x : x = entry[s] => RowFine(x)'
      BY <1>1, <2>3 DEF RowsFine, Typed, Files
    <3>2. QED
      BY <2>1, <2>3, <3>1 DEF RowFine
  <2>4. QED
    BY <2>1, <2>2, <2>3
<1>4. QED
  BY <1>2, <1>3 DEF RowsFine

LEMMA RowsStay ==
  ASSUME Typed, TableFine, RowsFine, Next
  PROVE  RowsFine'
<1>0. Goes /\ Typed'
  BY Course, TypedStep DEF TableFine
<1> USE DEF Typed, Files
<1>1. ASSUME NEW p \in Pids, StrangerStarts(p) \/ Exits(p)
      PROVE  RowsFine'
  BY <1>0, <1>1, RowsCome DEF StrangerStarts, Exits, file, session
<1>2. ASSUME NEW s \in Sessions, NEW p \in Pids, SessionStarts(s, p)
      PROVE  RowsFine'
  BY <1>0, <1>2, RowsCome DEF SessionStarts, file
<1>3. ASSUME NEW s \in Sessions, NEW p \in Pids, Spawn(s, p)
      PROVE  RowsFine'
  <2>1. /\ proc'[p] = [what |-> "harness", by |-> s, at |-> born + 1] /\ born' = born + 1
    <3>1. Fork(p, "harness", s) /\ Tables
      BY <1>3 DEF Spawn
    <3>2. QED
      BY <3>1, Forks
  <2>2. PICK at \in {0, born + 1} : entry' = [entry EXCEPT ![s] = [pid |-> p, owner |-> pid[s], at |-> at]]
    BY <1>3 DEF Spawn
  <2>3. entry'[s] = [pid |-> p, owner |-> pid[s], at |-> at] /\ \A u \in Sessions \ {s} : entry'[u] = entry[u]
    BY <2>2
  <2>4. RowFine(entry[s])'
    BY <1>3, <2>1, <2>3, LedgerAssumption DEF RowFine, Spawn, Tables, Times
  <2>5. QED
    BY <1>0, <1>3, <2>3, <2>4, RowsCome DEF Spawn, file
<1>4. ASSUME NEW s \in Sessions, Killed(s)
      PROVE  RowsFine'
  BY <1>0, <1>4, RowsCome DEF Killed
<1>5. ASSUME NEW s \in Sessions, Launch(s) \/ Stop(s) \/ ExitSink(s) \/ SpawnFails(s) \/ Lock(s) \/ LockError(s)
      PROVE  RowsFine'
  BY <1>0, <1>5, RowsCome DEF Launch, Stop, ExitSink, SpawnFails, Lock, LockError, file
<1>6. ASSUME NEW s \in Sessions, Read(s) \/ ReadFails(s)
      PROVE  RowsFine'
  BY <1>0, <1>6, RowsCome DEF Read, ReadFails, file
<1>7. ASSUME NEW s \in Sessions, Write(s) \/ WriteRows(s) \/ WriteFails(s)
      PROVE  RowsFine'
  <2>1. Result(s) \subseteq rows[s] \cup {entry[s]}
    BY DEF Result, record_entry, forget
  <2>2. UNCHANGED todo /\ (UNCHANGED <<rows, entry>> \/ Done(s)) /\ ledger' \in {Result(s), ledger, {}}
    BY <1>7, WriteCases
  <2>3. QED
    BY <1>0, <2>1, <2>2, RowsCome DEF Done
<1>8. ASSUME NEW s \in Sessions, NEW r \in todo[s], Judge(s, r)
      PROVE  RowsFine'
  <2>1. CASE /\ rows' = [rows EXCEPT ![s] = @ \cup {r}] /\ todo' = [todo EXCEPT ![s] = @ \ {r}]
             /\ UNCHANGED <<file, entry>>
    BY <1>0, <2>1, RowsCome DEF file
  <2>2. CASE todo' = [todo EXCEPT ![s] = @ \ {r}] /\ UNCHANGED <<file, rows, entry>>
    BY <1>0, <2>2, RowsCome DEF file
  <2>3. QED
    BY <1>4, <1>8, <2>1, <2>2 DEF Judge, TableFine, ProcessesFine, pid_is_recorded_process, pid_alive
<1>9. QED
  BY <1>1, <1>2, <1>3, <1>4, <1>5, <1>6, <1>7, <1>8 DEF Next, Dies

-----------------------------------------------------------------------------
(* A sweep leaves an orphan only while the row that names it is to be      *)
(* judged yet.                                                             *)
Names(r, t) == r.pid = t.pid /\ r.at \in {0, t.at}

TargetsFine ==
  \A s \in Sessions : \A t \in target[s] :
     /\ t.at <= born
     /\ Up(t) => pc[s] = "sweep" /\ step[s] \in {"read", "dropped"} /\ \E r \in todo[s] : Names(r, t)

LEMMA TargetsKeep ==
  ASSUME Typed, TableFine, TargetsFine, Goes, NEW s \in Sessions,
         target'[s] \subseteq target[s],
         pc[s] = "sweep" /\ step[s] \in {"read", "dropped"} /\ todo[s] # {}
            => pc'[s] = "sweep" /\ step'[s] \in {"read", "dropped"} /\ todo'[s] = todo[s]
  PROVE  \A t \in target'[s] : t.at <= born' /\ (Up(t)' => pc'[s] = "sweep" /\ step'[s] \in {"read", "dropped"} /\ \E r \in todo'[s] : Names(r, t))
<1> SUFFICES ASSUME NEW t \in target'[s]
             PROVE  t.at <= born' /\ (Up(t)' => pc'[s] = "sweep" /\ step'[s] \in {"read", "dropped"} /\ \E r \in todo'[s] : Names(r, t))
  OBVIOUS
<1>1. t \in Tree /\ t.at <= born /\ t.at \in Nat
  BY LedgerAssumption DEF TargetsFine, Typed, Histories, Tree
<1>2. t.at <= born'
  BY <1>1, LedgerAssumption DEF Goes, Evolves, Typed, Tables, Times
<1>3. Up(t)' => Up(t)
  BY <1>1, StaysDown DEF TableFine
<1>4. QED
  BY <1>1, <1>2, <1>3 DEF TargetsFine

LEMMA TargetsStay ==
  ASSUME Typed, TableFine, RowsFine, TargetsFine, Next
  PROVE  TargetsFine'
<1>0. Goes /\ Typed'
  BY Course, TypedStep DEF TableFine
<1> DEFINE Good(s) == \A t \in target'[s] : t.at <= born' /\ (Up(t)' => pc'[s] = "sweep" /\ step'[s] \in {"read", "dropped"} /\ \E r \in todo'[s] : Names(r, t))
<1>1. ASSUME NEW u \in Sessions, target'[u] \subseteq target[u],
             pc[u] = "sweep" /\ step[u] \in {"read", "dropped"} /\ todo[u] # {}
               => pc'[u] = "sweep" /\ step'[u] \in {"read", "dropped"} /\ todo'[u] = todo[u]
      PROVE  Good(u)
  <2>1. \A t \in target'[u] : t.at <= born' /\ (Up(t)' => pc'[u] = "sweep" /\ step'[u] \in {"read", "dropped"} /\ \E r \in todo'[u] : Names(r, t))
    BY <1>0, <1>1, TargetsKeep
  <2>2. QED
    BY <2>1 DEF Good
<1>a. ASSUME \A u \in Sessions : Good(u)
      PROVE  TargetsFine'
  BY <1>a DEF TargetsFine
<1> HIDE DEF Good
<1> USE DEF Typed, Tables, Files, Histories
<1>b. ASSUME UNCHANGED <<pc, step, todo, target>>
      PROVE  TargetsFine'
  BY <1>1, <1>a, <1>b
<1>2. ASSUME NEW p \in Pids, StrangerStarts(p) \/ Exits(p)
      PROVE  TargetsFine'
  BY <1>2, <1>b DEF StrangerStarts, Exits, session, history
<1>3. ASSUME NEW s \in Sessions, NEW p \in Pids, SessionStarts(s, p) \/ Spawn(s, p)
      PROVE  TargetsFine'
  BY <1>3, <1>1, <1>a DEF SessionStarts, Spawn, history
<1>4. ASSUME NEW s \in Sessions, Killed(s)
      PROVE  TargetsFine'
  <2>1. target'[s] = {}
    BY <1>4 DEF Killed
  <2>2. Good(s)
    BY <2>1 DEF Good
  <2>3. \A u \in Sessions \ {s} : Good(u)
    BY <1>4, <1>1 DEF Killed
  <2>4. QED
    BY <2>2, <2>3, <1>a
<1>5. ASSUME NEW s \in Sessions, Launch(s) \/ Stop(s) \/ ExitSink(s) \/ SpawnFails(s) \/ Lock(s) \/ LockError(s)
      PROVE  TargetsFine'
  BY <1>5, <1>1, <1>a DEF Launch, Stop, ExitSink, SpawnFails, Lock, LockError, history
<1>6. ASSUME NEW s \in Sessions, Read(s) \/ ReadFails(s)
      PROVE  TargetsFine'
  <2>1. \A u \in Sessions \ {s} : Good(u)
    BY <1>6, <1>1 DEF Read, ReadFails
  <2>2. CASE pc[s] # "sweep" \/ ReadFails(s)
    <3>1. target'[s] = {}
      BY <1>6, <2>2 DEF Read, ReadFails
    <3>2. QED
      BY <2>1, <3>1, <1>a DEF Good
  <2>3. CASE pc[s] = "sweep" /\ Read(s)
    <3>1. /\ target'[s] = {t \in Tree : Orphan(t) /\ Named(t)} /\ todo'[s] = ledger
          /\ pc'[s] = "sweep" /\ step'[s] = "read" /\ UNCHANGED <<proc, born>>
      BY <2>3 DEF Read
    <3>2. \A t \in target'[s] : t.at <= born /\ \E r \in ledger : Names(r, t)
      BY <3>1 DEF Orphan, Named, Names, Up, TableFine, ProcessesFine, Tree
    <3>3. Good(s)
      BY <3>1, <3>2 DEF Good
    <3>4. QED
      BY <2>1, <3>3, <1>a
  <2>4. QED
    BY <1>6, <2>2, <2>3
<1>7. ASSUME NEW s \in Sessions, Write(s) \/ WriteRows(s) \/ WriteFails(s)
      PROVE  TargetsFine'
  <2>1. UNCHANGED <<todo, target>> /\ (todo[s] = {} \/ step[s] = "truncated")
    BY <1>7, WriteCases
  <2>2. \A u \in Sessions \ {s} : pc'[u] = pc[u] /\ step'[u] = step[u]
    BY <1>7 DEF Write, WriteRows, WriteFails, Done
  <2>3. QED
    BY <2>1, <2>2, <1>1, <1>a
<1>8. ASSUME NEW s \in Sessions, NEW r \in todo[s], Judge(s, r)
      PROVE  TargetsFine'
  <2>1. CASE /\ todo' = [todo EXCEPT ![s] = @ \ {r}] /\ UNCHANGED <<proc, born, pc, step>>
             /\ target' = [target EXCEPT ![s] = {t \in @ : t.pid # r.pid}]
    <3>1. \A u \in Sessions \ {s} : Good(u)
      BY <2>1, <1>1
    <3>2. ASSUME NEW t \in target'[s]
          PROVE  t.at <= born' /\ (Up(t)' => pc'[s] = "sweep" /\ step'[s] \in {"read", "dropped"} /\ \E x \in todo'[s] : Names(x, t))
      <4>1. t \in target[s] /\ t.pid # r.pid /\ todo'[s] = todo[s] \ {r} /\ UNCHANGED <<proc, born, pc, step>>
        BY <2>1
      <4>2. Up(t)' => Up(t)
        BY <4>1 DEF Up
      <4>3. QED
        BY <4>1, <4>2 DEF TargetsFine, Names
    <3>3. QED
      BY <3>1, <3>2, <1>a DEF Good
  <2>2. CASE /\ todo' = [todo EXCEPT ![s] = @ \ {r}] /\ UNCHANGED <<born, pc, target>>
             /\ step' = [step EXCEPT ![s] = "dropped"]
             /\ proc' = IF pid_is_recorded_process(r) THEN kill_tree(r.pid) ELSE proc
    <3>1. \A u \in Sessions \ {s} : Good(u)
      BY <2>2, <1>1
    <3>2. ASSUME NEW t \in target'[s], Up(t)'
          PROVE  pc'[s] = "sweep" /\ step'[s] \in {"read", "dropped"} /\ \E x \in todo'[s] : Names(x, t)
      <4>1. t \in target[s] /\ t \in Tree /\ t.at <= born /\ todo'[s] = todo[s] \ {r}
        BY <2>2, <3>2 DEF TargetsFine
      <4>2. Up(t) /\ proc'[t.pid] = proc[t.pid]
        BY <1>0, <3>2, <4>1, StaysDown DEF TableFine
      <4>3. pc[s] = "sweep" /\ step[s] \in {"read", "dropped"} /\ \E x \in todo[s] : Names(x, t)
        BY <4>1, <4>2 DEF TargetsFine
      <4>4. ASSUME Names(r, t)
            PROVE  FALSE
        <5>1. r.pid \in Pids /\ proc[r.pid].at = t.at /\ proc[r.pid] # NoProc
          BY <4>1, <4>2, <4>4, Records DEF Names, Up, Tree
        <5>2. pid_is_recorded_process(r)
          BY <4>4, <5>1 DEF Names, pid_is_recorded_process, pid_alive
        <5>3. proc'[r.pid] = NoProc
          BY <2>2, <5>1, <5>2, KillTree
        <5>4. QED
          BY <4>2, <4>4, <5>1, <5>3 DEF Names
      <4>5. pc'[s] = "sweep" /\ step'[s] = "dropped"
        BY <2>2, <4>3
      <4>6. QED
        BY <4>1, <4>3, <4>4, <4>5
    <3>3. \A t \in target'[s] : t.at <= born'
      BY <2>2 DEF TargetsFine
    <3>4. Good(s)
      BY <2>2, <3>2, <3>3 DEF Good
    <3>5. QED
      BY <3>1, <3>4, <1>a
  <2>3. QED
    BY <1>4, <1>8, <2>1, <2>2 DEF Judge, TableFine, ProcessesFine, pid_is_recorded_process, pid_alive, history
<1>9. QED
  BY <1>2, <1>3, <1>4, <1>5, <1>6, <1>7, <1>8 DEF Next, Dies

-----------------------------------------------------------------------------
(* The lock is of the session that took it; while every operation has had  *)
(* it, one session at most is in the middle of one.                        *)
HoldersFine ==
  /\ \A s \in Sessions : held[s] => lock = s
  /\ intact => \A s \in Sessions : step[s] # "none" => lock = s

LEMMA HoldersStay ==
  ASSUME Typed, ProcessesFine, HoldersFine, Next
  PROVE  HoldersFine'
<1> USE DEF Typed, Files, Tables, Histories
<1>1. ASSUME UNCHANGED <<held, step, lock, intact>>
      PROVE  HoldersFine'
  BY <1>1 DEF HoldersFine
<1>2. ASSUME NEW s \in Sessions, Killed(s)
      PROVE  HoldersFine'
  <2>1. /\ step' = [step EXCEPT ![s] = "none"] /\ held' = [held EXCEPT ![s] = FALSE]
        /\ lock' = (IF held[s] THEN "-" ELSE lock) /\ (intact' => intact)
    BY <1>2 DEF Killed
  <2>2. QED
    BY <2>1 DEF HoldersFine
<1>3. ASSUME NEW s \in Sessions, Lock(s)
      PROVE  HoldersFine'
  <2>1. /\ step' = [step EXCEPT ![s] = "locked"] /\ held' = [held EXCEPT ![s] = TRUE]
        /\ lock = "-" /\ lock' = s /\ intact' = intact
    BY <1>3 DEF Lock, history
  <2>2. QED
    BY <2>1, Records DEF HoldersFine
<1>4. ASSUME NEW s \in Sessions, LockError(s)
      PROVE  HoldersFine'
  BY <1>4 DEF HoldersFine, LockError, Fails
<1>5. ASSUME NEW s \in Sessions, Read(s) \/ ReadFails(s)
      PROVE  HoldersFine'
  <2>1. step' = [step EXCEPT ![s] = "read"] /\ step[s] # "none" /\ UNCHANGED <<held, lock>> /\ (intact' => intact)
    BY <1>5 DEF Read, ReadFails, Fails, file
  <2>2. QED
    BY <2>1 DEF HoldersFine
<1>6. ASSUME NEW s \in Sessions, Write(s) \/ WriteRows(s) \/ WriteFails(s)
      PROVE  HoldersFine'
  <2>1. step[s] # "none" /\ (intact' => intact)
    BY <1>6, WriteCases
  <2>2. CASE step' = [step EXCEPT ![s] = "truncated"] /\ UNCHANGED <<held, lock>>
    BY <2>1, <2>2 DEF HoldersFine
  <2>3. CASE Done(s) /\ Release(s)
    <3>1. /\ step' = [step EXCEPT ![s] = "none"] /\ held' = [held EXCEPT ![s] = FALSE]
          /\ lock' = (IF held[s] THEN "-" ELSE lock)
      BY <2>3 DEF Done, Release
    <3>2. QED
      BY <2>1, <3>1 DEF HoldersFine
  <2>4. QED
    BY <1>6, <2>2, <2>3, WriteCases
<1>7. ASSUME NEW s \in Sessions, NEW r \in todo[s], Judge(s, r)
      PROVE  HoldersFine'
  <2>1. CASE step' = [step EXCEPT ![s] = "dropped"] /\ UNCHANGED <<held, lock, intact>>
    BY <1>7, <2>1 DEF Judge, HoldersFine
  <2>2. QED
    BY <1>1, <1>2, <1>7, <2>1 DEF Judge, file, history, ProcessesFine, pid_is_recorded_process, pid_alive
<1>8. ASSUME NEW p \in Pids, StrangerStarts(p) \/ Exits(p)
      PROVE  HoldersFine'
  BY <1>1, <1>8 DEF StrangerStarts, Exits, file, session, history
<1>9. ASSUME NEW s \in Sessions, NEW p \in Pids, SessionStarts(s, p) \/ Spawn(s, p)
      PROVE  HoldersFine'
  BY <1>1, <1>9 DEF SessionStarts, Spawn, file, history
<1>10. ASSUME NEW s \in Sessions, Launch(s) \/ Stop(s) \/ ExitSink(s) \/ SpawnFails(s)
      PROVE  HoldersFine'
  BY <1>1, <1>10 DEF Launch, Stop, ExitSink, SpawnFails, file, history
<1>11. QED
  BY <1>2, <1>3, <1>4, <1>5, <1>6, <1>7, <1>8, <1>9, <1>10 DEF Next, Dies

-----------------------------------------------------------------------------
(* A harness started by a session of this PID.                             *)
OwnedBy(p, owner) == proc[p].what = "harness" /\ proc[p].by \in Sessions /\ pid[proc[p].by] = owner

(* The tree a session forgets is down; the row it records stands for its   *)
(* tree; and what a session of its own PID runs under its tree's PID is    *)
(* its tree.                                                               *)
Keeper(s) ==
  /\ child[s] # NoTree => pc[s] \in Active
  /\ pc[s] \in {"stop", "switch"} => ~Up(child[s])
  /\ pc[s] = "record" => entry[s].pid = child[s].pid /\ entry[s].owner = pid[s] /\ entry[s].at \in {0, child[s].at}
  /\ child[s] # NoTree /\ OwnedBy(child[s].pid, pid[s]) => Up(child[s])

KeepersFine == \A s \in Sessions : Keeper(s)

LEMMA KeeperKeeps ==
  ASSUME Typed, Typed', TableFine, Goes, NEW s \in Sessions, Keeper(s),
         child'[s] = child[s],
         child[s] # NoTree => pc'[s] \in Active,
         pc'[s] \in {"stop", "switch"} => pc[s] \in {"stop", "switch"} \/ ~Up(child[s])',
         pc'[s] = "record" => pc[s] = "record" /\ entry'[s] = entry[s],
         \A p \in Pids : \/ proc'[p] = proc[p] \/ proc'[p].what # "harness"
                         \/ child[s] # NoTree => pid'[proc'[p].by] # pid'[s]
  PROVE  Keeper(s)'
<1>1. child[s] # NoTree => pid'[s] = pid[s] /\ child[s] \in Tree /\ child[s].at <= born
  BY DEF Keeper, Active, Goes, TableFine, ChildrenFine, Typed, Tables
<1>2. Up(child[s])' => Up(child[s])
  <2>1. CASE child[s] = NoTree
    BY <2>1, Records DEF Up
  <2>2. CASE child[s] # NoTree
    <3>1. \A t \in Tree : t.at <= born /\ Up(t)' => Up(t)
      BY StaysDown DEF TableFine
    <3>2. QED
      BY <1>1, <2>2, <3>1 DEF Up
  <2>3. QED
    BY <2>1, <2>2
<1>3. pc'[s] = "record" => entry'[s].pid = child'[s].pid /\ entry'[s].owner = pid'[s] /\ entry'[s].at \in {0, child'[s].at}
  BY DEF Keeper, Goes
<1>4. ASSUME child'[s] # NoTree, OwnedBy(child[s].pid, pid[s])'
      PROVE  Up(child[s])'
  <2> DEFINE p == child[s].pid
  <2>1. p \in Pids /\ proc'[p] = proc[p]
    BY <1>1, <1>4 DEF OwnedBy, Tree
  <2>2. pid'[proc[p].by] = pid[proc[p].by]
    BY <1>4, <2>1 DEF OwnedBy, TableFine, ProcessesFine, Goes
  <2>3. Up(child[s])
    BY <1>1, <1>4, <2>1, <2>2 DEF OwnedBy, Keeper
  <2>4. QED
    BY <2>1, <2>3 DEF Up
<1>5. QED
  BY <1>2, <1>3, <1>4 DEF Keeper

LEMMA KeeperOfNone ==
  ASSUME Typed, NEW s \in Sessions, child'[s] = NoTree, pc'[s] # "record"
  PROVE  Keeper(s)'
BY Records DEF Keeper, Up

LEMMA KeepersStay ==
  ASSUME Typed, TableFine, KeepersFine, Next
  PROVE  KeepersFine'
<1>a. ASSUME NEW p \in Pids, NEW what \in {"launcher", "other"}, NEW by \in Sessions \cup {"-"}, Fork(p, what, by)
      PROVE  \A q \in Pids : proc'[q] = proc[q] \/ proc'[q].what # "harness"
  <2>1. Tables
    BY DEF Typed
  <2>2. proc'[p] = [what |-> what, by |-> by, at |-> born + 1] /\ \A q \in Pids \ {p} : proc'[q] = proc[q]
    BY <1>a, <2>1, Forks
  <2>3. QED
    BY <2>2
<1>b. ASSUME NEW p, proc' = kill_tree(p), UNCHANGED born
      PROVE  \A q \in Pids : proc'[q] = proc[q] \/ proc'[q].what # "harness"
  BY <1>b, KillTree, Records DEF Typed
<1> USE DEF Typed, Tables
<1>0. Goes /\ Typed' /\ TableFine'
  BY Course, TypedStep, TableStays DEF TableFine
<1>1. ASSUME NEW s \in Sessions, child'[s] = child[s], pc'[s] = pc[s], entry'[s] = entry[s],
             \A p \in Pids : proc'[p] = proc[p] \/ proc'[p].what # "harness" \/ (child[s] # NoTree => pid'[proc'[p].by] # pid'[s])
      PROVE  Keeper(s)'
  BY <1>0, <1>1, KeeperKeeps DEF KeepersFine, Keeper
<1>2. ASSUME NEW p \in Pids, StrangerStarts(p) \/ Exits(p)
      PROVE  KeepersFine'
  <2>1. \A q \in Pids : proc'[q] = proc[q] \/ proc'[q].what # "harness"
    BY <1>2, <1>a, Records DEF StrangerStarts, Exits
  <2>2. QED
    BY <1>1, <1>2, <2>1 DEF KeepersFine, StrangerStarts, Exits, session
<1>3. ASSUME NEW s \in Sessions, NEW p \in Pids, SessionStarts(s, p)
      PROVE  KeepersFine'
  <2>1. \A q \in Pids : proc'[q] = proc[q] \/ proc'[q].what # "harness"
    BY <1>3, <1>a DEF SessionStarts
  <2>2. \A u \in Sessions \ {s} : Keeper(u)'
    BY <1>1, <1>3, <2>1 DEF SessionStarts
  <2>3. child[s] = NoTree /\ pc'[s] = "idle" /\ UNCHANGED child
    BY <1>3 DEF SessionStarts, KeepersFine, Keeper, Active
  <2>4. QED
    BY <2>2, <2>3, KeeperOfNone DEF KeepersFine
<1>4. ASSUME NEW s \in Sessions, NEW p \in Pids, Spawn(s, p)
      PROVE  KeepersFine'
  <2>1. /\ proc'[p] = [what |-> "harness", by |-> s, at |-> born + 1] /\ [pid |-> p, at |-> born + 1] \in Tree
        /\ \A q \in Pids \ {p} : proc'[q] = proc[q]
    BY <1>4, Forks DEF Spawn
  <2>2. pid' = pid /\ pc[s] = "spawn" /\ pc'[s] = "record" /\ child'[s] = [pid |-> p, at |-> born + 1]
    BY <1>4 DEF Spawn
  <2>3. ASSUME NEW u \in Sessions \ {s}
        PROVE  Keeper(u)'
    <3>1. child'[u] = child[u] /\ pc'[u] = pc[u] /\ entry'[u] = entry[u]
      BY <1>4 DEF Spawn, Files
    <3>2. child[u] # NoTree => pid[u] # pid[s]
      BY <2>2 DEF KeepersFine, Keeper, TableFine, LaunchersUp, Active
    <3>3. QED
      BY <1>1, <2>1, <2>2, <3>1, <3>2
  <2>4. Keeper(s)'
    <3>1. Up(child[s])'
      BY <2>1, <2>2 DEF Up
    <3>2. PICK at \in {0, born + 1} : entry' = [entry EXCEPT ![s] = [pid |-> p, owner |-> pid[s], at |-> at]]
      BY <1>4 DEF Spawn
    <3>3. entry'[s] = [pid |-> p, owner |-> pid[s], at |-> at]
      BY <3>2 DEF Files
    <3>4. QED
      BY <2>2, <3>1, <3>3 DEF Keeper, Active
  <2>5. QED
    BY <2>3, <2>4 DEF KeepersFine
<1>5. ASSUME NEW s \in Sessions, Killed(s)
      PROVE  KeepersFine'
  <2>1. \A q \in Pids : proc'[q] = proc[q] \/ proc'[q].what # "harness"
    BY <1>5, Kills, Records
  <2>2. \A u \in Sessions \ {s} : Keeper(u)'
    BY <1>1, <1>5, <2>1 DEF Killed, Files
  <2>3. child'[s] = NoTree /\ pc'[s] = "over"
    BY <1>5 DEF Killed
  <2>4. QED
    BY <2>2, <2>3, KeeperOfNone DEF KeepersFine
<1>6. ASSUME NEW s \in Sessions, Launch(s) \/ Stop(s)
      PROVE  KeepersFine'
  <2>1. \A q \in Pids : proc'[q] = proc[q] \/ proc'[q].what # "harness"
    BY <1>6, KillTree, Records DEF Launch, Stop
  <2>2. /\ child' = child /\ entry' = entry /\ (\A u \in Sessions \ {s} : pc'[u] = pc[u])
        /\ pc'[s] \in {"stop", "switch", "sweep"} /\ (child[s] = NoTree => pc'[s] = "sweep")
    BY <1>6 DEF Launch, Stop
  <2>3. Up(child[s])' => child[s] = NoTree
    BY <1>6, <2>2, KillTree, Records DEF Launch, Stop, Up, Tree
  <2>4. Keeper(s)'
    BY <1>0, <2>1, <2>2, <2>3, KeeperKeeps, Records DEF KeepersFine, Active, Up
  <2>5. QED
    BY <1>1, <2>1, <2>2, <2>4 DEF KeepersFine
<1>7. ASSUME NEW s \in Sessions, ExitSink(s) \/ SpawnFails(s) \/ Lock(s) \/ LockError(s) \/ Read(s) \/ ReadFails(s)
      PROVE  KeepersFine'
  <2>1. /\ UNCHANGED <<proc, entry>> /\ (\A u \in Sessions \ {s} : pc'[u] = pc[u] /\ child'[u] = child[u])
        /\ \/ child'[s] = NoTree /\ pc'[s] = "idle"
           \/ child'[s] = child[s] /\ (pc'[s] = pc[s] \/ pc'[s] = "idle")
    BY <1>7 DEF ExitSink, SpawnFails, Lock, LockError, Read, ReadFails
  <2>2. Keeper(s)'
    BY <1>0, <1>1, <2>1, KeeperOfNone, KeeperKeeps DEF KeepersFine, Active
  <2>3. QED
    BY <1>1, <2>1, <2>2 DEF KeepersFine
<1>8. ASSUME NEW s \in Sessions, Write(s) \/ WriteRows(s) \/ WriteFails(s)
      PROVE  KeepersFine'
  <2>1. UNCHANGED proc /\ pc[s] \in {"stop", "switch", "sweep", "record"}
    BY <1>8 DEF Write, WriteRows, WriteFails, Files
  <2>2. CASE UNCHANGED <<pc, child, entry>>
    BY <1>1, <2>1, <2>2 DEF KeepersFine
  <2>3. CASE Done(s)
    <3>1. /\ \A u \in Sessions \ {s} : pc'[u] = pc[u] /\ child'[u] = child[u] /\ entry'[u] = entry[u]
          /\ pc'[s] \in {"sweep", "spawn", "idle"} /\ (child'[s] = NoTree \/ child'[s] = child[s])
      BY <2>1, <2>3 DEF Done, Files
    <3>2. Keeper(s)'
      BY <1>0, <2>1, <3>1, KeeperOfNone, KeeperKeeps DEF KeepersFine, Active
    <3>3. QED
      BY <1>1, <2>1, <3>1, <3>2 DEF KeepersFine
  <2>4. QED
    BY <1>8, <2>2, <2>3 DEF Write, WriteRows, WriteFails
<1>9. ASSUME NEW s \in Sessions, NEW r \in todo[s], Judge(s, r)
      PROVE  KeepersFine'
  <2>1. ASSUME UNCHANGED <<pc, child, entry>>, \A q \in Pids : proc'[q] = proc[q] \/ proc'[q].what # "harness"
        PROVE  KeepersFine'
    BY <1>1, <2>1 DEF KeepersFine
  <2>2. CASE proc' = (IF pid_is_recorded_process(r) THEN kill_tree(r.pid) ELSE proc) /\ UNCHANGED born
    <3>1. \A q \in Pids : proc'[q] = proc[q] \/ proc'[q].what # "harness"
      BY <2>2, <1>b
    <3>2. QED
      BY <1>5, <1>9, <2>1, <3>1, Judges DEF TableFine
  <2>3. QED
    BY <1>5, <1>9, <2>1, <2>2, Judges DEF TableFine
<1>10. QED
  BY <1>2, <1>3, <1>4, <1>5, <1>6, <1>7, <1>8, <1>9 DEF Next, Dies

-----------------------------------------------------------------------------
(* Trees that were recorded are harnesses of sessions.                     *)
KnownFine ==
  \A t \in known : t.at <= born /\ (Up(t) => proc[t.pid].what = "harness" /\ proc[t.pid].by \in Sessions)

LEMMA DoneKnows ==
  ASSUME NEW s \in Sessions, Done(s)
  PROVE  known' = known \/ (pc[s] = "record" /\ known' = known \cup {child[s]})
BY DEF Done

LEMMA KnownStays ==
  ASSUME Typed, TableFine, KnownFine, Next
  PROVE  KnownFine'
<1>0. Goes
  BY Course DEF TableFine
<1>1. ASSUME NEW t \in Tree, t.at <= born, Up(t) => proc[t.pid].what = "harness" /\ proc[t.pid].by \in Sessions
      PROVE  t.at <= born' /\ (Up(t)' => proc'[t.pid].what = "harness" /\ proc'[t.pid].by \in Sessions)
  <2>1. t.at <= born'
    BY <1>0, <1>1, LedgerAssumption DEF Goes, Evolves, Typed, Tables, Times, Tree
  <2>2. Up(t)' => Up(t) /\ proc'[t.pid] = proc[t.pid]
    BY <1>0, <1>1, StaysDown DEF TableFine
  <2>3. QED
    BY <1>1, <2>1, <2>2
<1>2. known' \subseteq known \/ \E s \in Sessions : pc[s] = "record" /\ known' \subseteq known \cup {child[s]}
  <2>1. ASSUME NEW s \in Sessions, Write(s) \/ WriteRows(s) \/ WriteFails(s)
        PROVE  known' \subseteq known \/ (pc[s] = "record" /\ known' \subseteq known \cup {child[s]})
    <3>1. known' = known \/ Done(s)
      BY <2>1 DEF Write, WriteRows, WriteFails
    <3>2. QED
      BY <3>1, DoneKnows
  <2>2. ASSUME NEW s \in Sessions, NEW r \in todo[s], Judge(s, r)
        PROVE  known' = known
    BY <2>2 DEF Judge, Killed, history
  <2>3. QED
    BY <2>1, <2>2 DEF Next, StrangerStarts, Exits, SessionStarts, Spawn, Dies, Killed, Launch, Stop, ExitSink,
       SpawnFails, Lock, LockError, Read, ReadFails, history
<1>3. ASSUME NEW s \in Sessions, pc[s] = "record"
      PROVE  /\ child[s] \in Tree /\ child[s].at <= born
             /\ Up(child[s]) => proc[child[s].pid].what = "harness" /\ proc[child[s].pid].by \in Sessions
  BY <1>3, Records DEF Typed, Files, TableFine, ChildrenFine
<1>4. ASSUME NEW t \in known'
      PROVE  t \in Tree /\ t.at <= born /\ (Up(t) => proc[t.pid].what = "harness" /\ proc[t.pid].by \in Sessions)
  <2>1. CASE t \in known
    BY <2>1 DEF KnownFine, Typed, Histories
  <2>2. CASE t \notin known
    <3>1. PICK s \in Sessions : pc[s] = "record" /\ t = child[s]
      BY <1>2, <2>2
    <3>2. QED
      BY <1>3, <3>1
  <2>3. QED
    BY <2>1, <2>2
<1>5. ASSUME NEW t \in known'
      PROVE  t.at <= born' /\ (Up(t)' => proc'[t.pid].what = "harness" /\ proc'[t.pid].by \in Sessions)
  BY <1>1, <1>4
<1>6. QED
  BY <1>5 DEF KnownFine, Up

-----------------------------------------------------------------------------
(* Rows that stand for every tree that was recorded and is up, each with   *)
(* the PID of the session that started it; and the same after a step.      *)
Covers(R) ==
  \A t \in known \ masked : Up(t) => \E r \in R : Names(r, t) /\ r.owner = pid[proc[t.pid].by]

CoverLater(R) ==
  \A t \in known' \ masked' : Up(t)' => \E r \in R : Names(r, t) /\ r.owner = pid'[proc'[t.pid].by]

(* What an operation will write back, as it is after a step.               *)
Written(s) ==
  IF pc'[s] = "record" THEN rows'[s] \cup IF \E r \in rows'[s] : r.pid = entry'[s].pid THEN {} ELSE {entry'[s]}
  ELSE IF pc'[s] = "sweep" THEN rows'[s]
  ELSE {r \in rows'[s] : ~(r.pid = child'[s].pid /\ r.owner = pid'[s])}

(* What an operation writes back covers them, and so does what a sweep has *)
(* kept and has still to judge.                                            *)
RowsCover ==
  intact => /\ (\A s \in Sessions : step[s] # "truncated") => Covers(ledger)
            /\ \A s \in Sessions : step[s] \in {"read", "dropped"} => Covers(Result(s) \cup todo[s])
            /\ \A s \in Sessions : step[s] = "truncated" => Covers(Result(s))

LEMMA CoverStays ==
  ASSUME Typed, TableFine, KnownFine, Goes, UNCHANGED <<known, masked>>, NEW R, Covers(R)
  PROVE  CoverLater(R)
<1> SUFFICES ASSUME NEW t \in known \ masked, Up(t)'
             PROVE  \E r \in R : Names(r, t) /\ r.owner = pid'[proc'[t.pid].by]
  BY DEF CoverLater, Up
<1>1. t \in Tree /\ t.at <= born
  BY DEF KnownFine, Typed, Histories
<1>2. Up(t) /\ proc'[t.pid] = proc[t.pid]
  BY <1>1, StaysDown DEF TableFine
<1>3. proc[t.pid].by \in Sessions /\ t.pid \in Pids
  BY <1>1, <1>2 DEF KnownFine, Tree
<1>4. pid'[proc'[t.pid].by] = pid[proc[t.pid].by]
  BY <1>2, <1>3 DEF TableFine, ProcessesFine, Goes
<1>5. QED
  BY <1>2, <1>4 DEF Covers

LEMMA CoversBack ==
  ASSUME intact' => /\ (\A s \in Sessions : step'[s] # "truncated") => CoverLater(ledger')
                    /\ \A s \in Sessions : step'[s] \in {"read", "dropped"} => CoverLater(Written(s) \cup todo'[s])
                    /\ \A s \in Sessions : step'[s] = "truncated" => CoverLater(Written(s))
  PROVE  RowsCover'
BY DEF RowsCover, Covers, CoverLater, Result, record_entry, forget, Written, Up

(* A step that goes on with no operation, or drops one.                    *)
LEMMA CoverFrame ==
  ASSUME Typed, TableFine, KnownFine, Goes, RowsCover, UNCHANGED <<known, masked, ledger>>, intact' => intact,
         intact' /\ (\A s \in Sessions : step'[s] # "truncated") => \A s \in Sessions : step[s] # "truncated",
         \A s \in Sessions : step'[s] \in {"read", "dropped", "truncated"} =>
            /\ step'[s] = step[s] /\ pc'[s] = pc[s] /\ rows'[s] = rows[s] /\ todo'[s] = todo[s]
            /\ child'[s] = child[s] /\ entry'[s] = entry[s] /\ pid'[s] = pid[s]
  PROVE  RowsCover'
<1>1. \A R : Covers(R) => CoverLater(R)
  BY CoverStays
<1>2. ASSUME NEW s \in Sessions, step'[s] \in {"read", "dropped", "truncated"}
      PROVE  Written(s) = Result(s) /\ todo'[s] = todo[s] /\ step'[s] = step[s]
  <2>1. /\ step'[s] = step[s] /\ pc'[s] = pc[s] /\ rows'[s] = rows[s] /\ todo'[s] = todo[s]
        /\ child'[s] = child[s] /\ entry'[s] = entry[s] /\ pid'[s] = pid[s]
    BY <1>2
  <2>2. QED
    BY <2>1 DEF Written, Result, record_entry, forget
<1>3. ASSUME intact'
      PROVE  /\ (\A s \in Sessions : step'[s] # "truncated") => CoverLater(ledger')
             /\ \A s \in Sessions : step'[s] \in {"read", "dropped"} => CoverLater(Written(s) \cup todo'[s])
             /\ \A s \in Sessions : step'[s] = "truncated" => CoverLater(Written(s))
  BY <1>1, <1>2, <1>3 DEF RowsCover
<1>4. QED
  BY <1>3, CoversBack

(* A session forgets no row of a tree that is up.                          *)
LEMMA ForgetsOwn ==
  ASSUME Typed, KnownFine, KeepersFine, NEW s \in Sessions, pc[s] \in {"stop", "switch"}, NEW R \in SUBSET Row, Covers(R)
  PROVE  Covers({r \in R : ~(r.pid = child[s].pid /\ r.owner = pid[s])})
<1> SUFFICES ASSUME NEW t \in known \ masked, Up(t), NEW r \in R, Names(r, t), r.owner = pid[proc[t.pid].by],
                    r.pid = child[s].pid, r.owner = pid[s]
             PROVE  FALSE
  BY DEF Covers
<1>1. OwnedBy(child[s].pid, pid[s])
  BY DEF OwnedBy, KnownFine, Names
<1>2. child[s] # NoTree
  BY Records DEF Row
<1>3. QED
  BY <1>1, <1>2 DEF KeepersFine, Keeper

LEMMA CoverStep ==
  ASSUME Typed, TableFine, HoldersFine, KeepersFine, KnownFine, RowsCover, Next
  PROVE  RowsCover'
<1>0. Goes
  BY Course DEF TableFine
<1>1. \A R : UNCHANGED <<known, masked>> /\ Covers(R) => CoverLater(R)
  BY <1>0, CoverStays
<1>2. ASSUME NEW p \in Pids, StrangerStarts(p) \/ Exits(p)
      PROVE  RowsCover'
  BY <1>0, <1>2, CoverFrame DEF StrangerStarts, Exits, file, session, history
<1>3. ASSUME NEW s \in Sessions, NEW p \in Pids, SessionStarts(s, p) \/ Spawn(s, p)
      PROVE  RowsCover'
  <2>1. step[s] = "none" /\ UNCHANGED <<file, history, step, rows, todo>> /\ intact' = intact /\ ledger' = ledger
    BY <1>3 DEF SessionStarts, Spawn, Typed, Files, file, history
  <2>2. \A u \in Sessions \ {s} : pc'[u] = pc[u] /\ child'[u] = child[u] /\ entry'[u] = entry[u] /\ pid'[u] = pid[u]
    BY <1>3 DEF SessionStarts, Spawn, Typed, Tables, Files
  <2>3. QED
    BY <1>0, <2>1, <2>2, CoverFrame DEF history
<1>4. ASSUME NEW s \in Sessions, Killed(s)
      PROVE  RowsCover'
  <2>1. /\ step'[s] = "none" /\ UNCHANGED <<ledger, pid, known, masked>>
        /\ intact' => intact /\ step[s] # "truncated"
    BY <1>4 DEF Killed, Typed, Files
  <2>2. \A u \in Sessions \ {s} : step'[u] = step[u] /\ pc'[u] = pc[u] /\ child'[u] = child[u] /\ entry'[u] = entry[u]
                                  /\ rows'[u] = rows[u] /\ todo'[u] = todo[u]
    BY <1>4 DEF Killed, Typed, Tables, Files
  <2>3. QED
    BY <1>0, <2>1, <2>2, CoverFrame
<1>5. ASSUME NEW s \in Sessions, Launch(s) \/ Stop(s) \/ ExitSink(s) \/ SpawnFails(s)
      PROVE  RowsCover'
  <2>1. step[s] = "none"
    BY <1>5 DEF Launch, Stop, ExitSink, SpawnFails, Typed, Files
  <2>2. /\ \A u \in Sessions \ {s} : pc'[u] = pc[u] /\ child'[u] = child[u]
        /\ UNCHANGED <<pid, step, rows, todo, entry, known, masked, intact, ledger>>
    <3>1. UNCHANGED <<pid, step, rows, todo, entry, file, history>>
      BY <1>5 DEF Launch, Stop, ExitSink, SpawnFails
    <3>2. \A u \in Sessions \ {s} : pc'[u] = pc[u]
      BY <1>5 DEF Launch, Stop, ExitSink, SpawnFails, Typed, Tables
    <3>3. \A u \in Sessions \ {s} : child'[u] = child[u]
      BY <1>5 DEF Launch, Stop, ExitSink, SpawnFails, Typed, Tables
    <3>4. QED
      BY <3>1, <3>2, <3>3 DEF file, history
  <2>3. QED
    BY <1>0, <2>1, <2>2, CoverFrame
<1>6. ASSUME NEW s \in Sessions, Lock(s) \/ LockError(s)
      PROVE  RowsCover'
  <2>1. step[s] = "none" /\ step' = [step EXCEPT ![s] = "locked"]
    BY <1>6 DEF Lock, LockError
  <2>2. step'[s] = "locked" /\ \A u \in Sessions \ {s} : step'[u] = step[u]
    BY <2>1 DEF Typed, Files
  <2>3. UNCHANGED <<pid, pc, child, rows, todo, entry, known, masked, ledger>> /\ (intact' => intact)
    BY <1>6 DEF Lock, LockError, Fails, file, history
  <2>4. QED
    BY <1>0, <2>1, <2>2, <2>3, CoverFrame
<1>a. ASSUME NEW s \in Sessions, ReadFails(s)
      PROVE  RowsCover'
  BY <1>a DEF ReadFails, Fails, RowsCover
<1>7. ASSUME NEW s \in Sessions, Read(s)
      PROVE  RowsCover'
  <2>1. /\ step[s] = "locked" /\ step'[s] = "read" /\ (\A u \in Sessions \ {s} : step'[u] = step[u])
        /\ rows'[s] = (IF pc[s] = "sweep" THEN {} ELSE ledger) /\ todo'[s] = (IF pc[s] = "sweep" THEN ledger ELSE {})
        /\ \A u \in Sessions \ {s} : rows'[u] = rows[u] /\ todo'[u] = todo[u]
    BY <1>7 DEF Read, Typed, Files
  <2>2. UNCHANGED <<ledger, pid, pc, child, entry, known, masked, intact>>
    BY <1>7 DEF Read, file
  <2>3. \A u \in Sessions \ {s} : Written(u) = Result(u)
    BY <2>1, <2>2 DEF Written, Result, record_entry, forget
  <2>4. ASSUME intact
        PROVE  /\ \A u \in Sessions : step[u] # "truncated"
               /\ \A u \in Sessions \ {s} : step[u] = "none"
    BY <2>1, <2>4 DEF HoldersFine
  <2>5. ASSUME intact
        PROVE  CoverLater(Written(s) \cup todo'[s])
    <3>1. Covers(ledger) /\ ledger \in SUBSET Row
      BY <2>4, <2>5 DEF RowsCover, Typed, Files
    <3>2. CASE pc[s] \in {"stop", "switch"}
      <4>1. Written(s) = {r \in ledger : ~(r.pid = child[s].pid /\ r.owner = pid[s])} /\ todo'[s] = {}
        BY <2>1, <2>2, <3>2 DEF Written, forget
      <4>2. Covers({r \in ledger : ~(r.pid = child[s].pid /\ r.owner = pid[s])})
        BY <3>1, <3>2, ForgetsOwn
      <4>3. CoverLater({r \in ledger : ~(r.pid = child[s].pid /\ r.owner = pid[s])})
        BY <1>1, <2>2, <4>2
      <4>4. QED
        BY <4>1, <4>3
    <3>3. CASE pc[s] \in {"sweep", "record"}
      <4>1. ledger \subseteq Written(s) \cup todo'[s]
        BY <2>1, <2>2, <3>3 DEF Written
      <4>2. CoverLater(ledger)
        BY <1>1, <2>2, <3>1
      <4>3. QED
        BY <4>1, <4>2 DEF CoverLater
    <3>4. QED
      BY <2>1, <3>2, <3>3 DEF Typed, Files
  <2>6. QED
    <3>1. CoverLater(ledger') \/ ~intact
      BY <1>1, <2>2, <2>4 DEF RowsCover
    <3>2. QED
      BY <2>1, <2>2, <2>4, <2>5, <3>1, CoversBack
<1>8. ASSUME NEW s \in Sessions, Write(s) \/ WriteRows(s) \/ WriteFails(s)
      PROVE  RowsCover'
  <2>1. /\ step[s] = "truncated" \/ (step[s] \in {"read", "dropped"} /\ todo[s] = {})
        /\ UNCHANGED <<proc, born, pid, todo>> /\ (intact' => intact)
    BY <1>8, WriteCases
  <2>2. intact => \A u \in Sessions \ {s} : step[u] = "none"
    BY <2>1 DEF HoldersFine
  <2>3. intact => Covers(Result(s))
    BY <2>1 DEF RowsCover
  <2>4. CASE /\ step' = [step EXCEPT ![s] = "truncated"] /\ UNCHANGED <<pc, rows, child, entry, known, masked>>
             /\ intact' = intact
    <3>1. Written(s) = Result(s) /\ step'[s] = "truncated" /\ \A u \in Sessions \ {s} : step'[u] = step[u]
      BY <2>1, <2>4 DEF Written, Result, record_entry, forget, Typed, Files
    <3>2. intact => CoverLater(Written(s))
      BY <1>1, <2>3, <2>4, <3>1
    <3>3. QED
      BY <2>1, <2>2, <3>1, <3>2, CoversBack
  <2>5. CASE /\ Done(s)
             /\ intact' => ledger' = Result(s) \/ (ledger' = ledger /\ pc[s] = "sweep" /\ step[s] = "read")
    <3>1. /\ step'[s] = "none" /\ \A u \in Sessions \ {s} : step'[u] = step[u]
      BY <2>5 DEF Done, Typed, Files
    <3>2. /\ known' = known \cup (IF pc[s] = "record" THEN {child[s]} ELSE {})
          /\ masked' = masked \cup (IF pc[s] = "record" /\ entry[s] \notin Result(s) THEN {child[s]} ELSE {})
      BY <2>5 DEF Done
    <3>3. ASSUME intact, NEW t \in known' \ masked', Up(t)'
          PROVE  \E r \in Result(s) : Names(r, t) /\ r.owner = pid[proc[t.pid].by]
      <4>1. Up(t)
        BY <2>1, <3>3 DEF Up
      <4>2. CASE t \in known \ masked
        BY <2>3, <3>3, <4>1, <4>2 DEF Covers
      <4>3. CASE t \notin known \ masked
        <5>1. pc[s] = "record" /\ t = child[s] /\ entry[s] \in Result(s)
          BY <3>2, <3>3, <4>3
        <5>2. Names(entry[s], t) /\ entry[s].owner = pid[s]
          BY <5>1 DEF KeepersFine, Keeper, Names
        <5>3. proc[t.pid].by = s
          BY <4>1, <5>1, Records DEF TableFine, ChildrenFine, Typed, Files
        <5>4. QED
          BY <5>1, <5>2, <5>3
      <4>4. QED
        BY <4>2, <4>3
    <3>4. intact' => CoverLater(ledger')
      <4>1. CASE intact' /\ ledger' = Result(s)
        BY <2>1, <3>3, <4>1 DEF CoverLater
      <4>2. CASE intact' /\ ledger' = ledger /\ pc[s] = "sweep" /\ step[s] = "read"
        <5>1. \A u \in Sessions : step[u] # "truncated"
          BY <2>1, <2>2, <4>2
        <5>2. Covers(ledger) /\ UNCHANGED <<known, masked>>
          BY <2>1, <3>2, <4>2, <5>1 DEF RowsCover
        <5>3. QED
          BY <1>1, <4>2, <5>2
      <4>3. QED
        BY <2>5, <4>1, <4>2
    <3>5. QED
      BY <2>1, <2>2, <3>1, <3>4, CoversBack
  <2>6. QED
    BY <1>8, <2>4, <2>5, WriteCases
<1>9. ASSUME NEW s \in Sessions, NEW r \in todo[s], Judge(s, r)
      PROVE  RowsCover'
  <2>1. step[s] \in {"read", "dropped"} /\ pc[s] = "sweep" /\ Result(s) = rows[s]
    BY <1>9 DEF Judge, Result
  <2>2. intact => (\A u \in Sessions \ {s} : step[u] = "none") /\ Covers(ledger) /\ Covers(rows[s] \cup todo[s])
    BY <2>1 DEF HoldersFine, RowsCover
  <2>3. CASE /\ rows' = [rows EXCEPT ![s] = @ \cup {r}] /\ todo' = [todo EXCEPT ![s] = @ \ {r}]
             /\ UNCHANGED <<ledger, pc, step, known, masked, intact>>
    <3>1. Written(s) \cup todo'[s] = rows[s] \cup todo[s]
      BY <2>1, <2>3 DEF Written, Typed, Files
    <3>2. intact => CoverLater(Written(s) \cup todo'[s]) /\ CoverLater(ledger')
      BY <1>1, <2>2, <2>3, <3>1
    <3>3. QED
      BY <2>1, <2>2, <2>3, <3>2, CoversBack
  <2>4. CASE /\ todo' = [todo EXCEPT ![s] = @ \ {r}] /\ UNCHANGED <<ledger, rows, born, pc, known, masked, intact>>
             /\ step' = [step EXCEPT ![s] = "dropped"]
             /\ proc' = IF pid_is_recorded_process(r) THEN kill_tree(r.pid) ELSE proc
    <3>1. Written(s) = rows[s] /\ todo'[s] = todo[s] \ {r}
      BY <2>1, <2>4 DEF Written, Typed, Files
    <3>2. intact => CoverLater(rows[s] \cup todo[s]) /\ CoverLater(ledger')
      BY <1>1, <2>2, <2>4
    <3>3. ASSUME NEW t \in known \ masked, Up(t)'
          PROVE  ~Names(r, t)
      <4>1. t \in Tree /\ Up(t) /\ proc'[t.pid] = proc[t.pid] /\ t.pid \in Pids
        <5>1. t \in Tree /\ t.at <= born
          BY DEF KnownFine, Typed, Histories
        <5>2. QED
          BY <1>0, <3>3, <5>1, StaysDown DEF TableFine, Tree
      <4>2. SUFFICES ASSUME Names(r, t) PROVE FALSE
        OBVIOUS
      <4>3. r.pid = t.pid /\ proc[r.pid].at = t.at /\ proc[r.pid] # NoProc
        BY <4>1, <4>2, Records DEF Names, Up, Tree
      <4>4. pid_is_recorded_process(r)
        BY <4>1, <4>2, <4>3 DEF Names, pid_is_recorded_process, pid_alive
      <4>5. proc'[r.pid] = NoProc
        BY <2>4, <4>1, <4>3, <4>4, KillTree DEF Typed
      <4>6. QED
        BY <4>1, <4>3, <4>5
    <3>4. intact => CoverLater(Written(s) \cup todo'[s])
      BY <2>4, <3>1, <3>2, <3>3 DEF CoverLater
    <3>5. QED
      BY <2>1, <2>2, <2>4, <3>2, <3>4, CoversBack
  <2>5. QED
    BY <1>4, <1>9, <2>3, <2>4 DEF Judge, TableFine, ProcessesFine, pid_is_recorded_process, pid_alive, file, history
<1>10. QED
  BY <1>2, <1>3, <1>4, <1>5, <1>6, <1>a, <1>7, <1>8, <1>9 DEF Next, Dies

-----------------------------------------------------------------------------
SweepInv == Typed /\ TableFine /\ RowsFine /\ TargetsFine

LEMMA SweepStart == Init => SweepInv
<1> SUFFICES ASSUME Init PROVE SweepInv
  OBVIOUS
<1>1. Tables
  BY LedgerAssumption DEF Init, Tables, Process, NoProc, Times, Active, Tree, NoTree
<1>2. Files /\ Histories
  BY LedgerAssumption DEF Init, Files, Histories, Row, Times
<1>3. TableFine
  BY Records, LedgerAssumption DEF Init, TableFine, ProcessesFine, LaunchersUp, ChildrenFine, Active
<1>4. RowsFine
  BY Records DEF Init, RowsFine, RowFine
<1>5. TargetsFine
  BY DEF Init, TargetsFine
<1>6. QED
  BY <1>1, <1>2, <1>3, <1>4, <1>5 DEF SweepInv, Typed

LEMMA SweepStep == SweepInv /\ [Next]_vars => SweepInv'
<1> SUFFICES ASSUME SweepInv, [Next]_vars PROVE SweepInv'
  OBVIOUS
<1>1. CASE Next
  BY <1>1, TypedStep, TableStays, RowsStay, TargetsStay DEF SweepInv, TableFine
<1>2. CASE UNCHANGED vars
  BY <1>2 DEF vars, file, session, history, SweepInv, Typed, Tables, Files, Histories, TableFine, ProcessesFine,
     LaunchersUp, ChildrenFine, RowsFine, RowFine, TargetsFine, Up
<1>3. QED
  BY <1>1, <1>2

LEMMA SweepInvariant == Spec => []SweepInv
BY SweepStart, SweepStep, PTL DEF Spec

(* Every variable keeps its type.                                          *)
THEOREM TypesHold == Spec => []TypeOK
<1>1. SweepInv => TypeOK
  BY DEF SweepInv, Typed, Tables, Files, Histories, TypeOK, Active
<1>2. QED
  BY <1>1, SweepInvariant, PTL

(* When a launch spawns, no orphan its sweep found on file is up, however  *)
(* many launchers record, forget and sweep meanwhile (sweep_leftover).     *)
THEOREM SweepsAreThorough == Spec => []SweepReapsOrphans
<1>1. SweepInv => SweepReapsOrphans
  BY DEF SweepInv, TargetsFine, SweepReapsOrphans
<1>2. QED
  BY <1>1, SweepInvariant, PTL

LEMMA SparesOthers ==
  ASSUME SweepInv, NEW s \in Sessions, NEW r \in todo[s], Judge(s, r), r.at # 0, NEW p \in Pids, proc'[p] # proc[p]
  PROVE  Orphan(TreeOf(p))
<1>1. RowFine(r) /\ r \in Row
  BY DEF SweepInv, RowsFine, Typed, Files
<1>2. pid_is_recorded_process(r) => proc[r.pid].what = "harness" /\ proc[r.pid].by \in Sessions
                                     /\ pid[proc[r.pid].by] = r.owner /\ r.pid \in Pids /\ proc[r.pid] # NoProc
  BY <1>1 DEF RowFine, pid_is_recorded_process, pid_alive
<1>3. /\ ~pid_alive(r.owner) /\ proc' = IF pid_is_recorded_process(r) THEN kill_tree(r.pid) ELSE proc
      /\ UNCHANGED born
  BY <1>2, Judges DEF SweepInv, TableFine
<1>4. pid_is_recorded_process(r) /\ p = r.pid
  BY <1>3, KillTree DEF SweepInv, Typed
<1>5. pc[proc[p].by] = "over"
  <2>1. pc[proc[p].by] \notin Active
    BY <1>2, <1>3, <1>4, Records DEF SweepInv, TableFine, LaunchersUp, pid_alive
  <2>2. pc[proc[p].by] # "off"
    BY <1>2, <1>4 DEF SweepInv, TableFine, ProcessesFine
  <2>3. QED
    BY <1>2, <1>4, <2>1, <2>2 DEF SweepInv, Typed, Tables
<1>6. TreeOf(p) \in Tree
  BY <1>2, <1>4, Records DEF SweepInv, Typed, Tables, TreeOf, Tree, Process
<1>7. QED
  BY <1>2, <1>4, <1>5, <1>6 DEF Orphan, Up, TreeOf

(* For a row with a creation time a sweep kills what a launcher that is    *)
(* gone left behind, and nothing else (pid_is_recorded_process).           *)
THEOREM SweepsSpareStrangers == Spec => SweepSparesStrangers
<1>1. SweepInv /\ [Next]_vars => [\A s \in Sessions : \A r \in todo[s] :
          Judge(s, r) /\ r.at # 0
             => \A p \in Pids : proc'[p] # proc[p] => Orphan(TreeOf(p))]_vars
  BY SparesOthers
<1>2. QED
  BY <1>1, SweepInvariant, PTL DEF Spec, SweepSparesStrangers

-----------------------------------------------------------------------------
LedgerInv == SweepInv /\ HoldersFine /\ KeepersFine /\ KnownFine /\ RowsCover

LEMMA LedgerStart == Init => LedgerInv
<1> SUFFICES ASSUME Init PROVE LedgerInv
  OBVIOUS
<1>1. SweepInv
  BY SweepStart
<1>2. HoldersFine /\ KnownFine
  BY DEF Init, HoldersFine, KnownFine
<1>3. KeepersFine
  BY Records DEF Init, KeepersFine, Keeper, Up
<1>4. RowsCover
  BY DEF Init, RowsCover, Covers
<1>5. QED
  BY <1>1, <1>2, <1>3, <1>4 DEF LedgerInv

LEMMA LedgerStep == LedgerInv /\ [Next]_vars => LedgerInv'
<1> SUFFICES ASSUME LedgerInv, [Next]_vars PROVE LedgerInv'
  OBVIOUS
<1>1. SweepInv'
  BY SweepStep DEF LedgerInv
<1>2. CASE Next
  BY <1>1, <1>2, HoldersStay, KeepersStay, KnownStays, CoverStep DEF LedgerInv, SweepInv, TableFine
<1>3. CASE UNCHANGED vars
  BY <1>1, <1>3 DEF vars, file, session, history, LedgerInv, HoldersFine, KeepersFine, Keeper, OwnedBy, KnownFine,
     RowsCover, Covers, Result, record_entry, forget, Up
<1>4. QED
  BY <1>2, <1>3

LEMMA LedgerInvariant == Spec => []LedgerInv
BY LedgerStart, LedgerStep, PTL DEF Spec

(* A harness that was recorded and is up is on file, whatever the          *)
(* launchers record, forget and sweep (record_entry, forget,               *)
(* sweep_leftover), as long as every file operation had the lock and went  *)
(* through.                                                                *)
THEOREM RecordedTreesKeepRows == Spec => []RecordedTreeKeepsRow
<1>1. LedgerInv => RecordedTreeKeepsRow
  BY DEF LedgerInv, RowsCover, Covers, Names, Named, RecordedTreeKeepsRow
<1>2. QED
  BY <1>1, LedgerInvariant, PTL
=============================================================================
