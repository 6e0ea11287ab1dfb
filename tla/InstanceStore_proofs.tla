------------------------ MODULE InstanceStore_proofs -------------------------
(***************************************************************************)
(* There is always an instance, and an instance stays where it was made,   *)
(* for any set of commands beside each other, any content and any number   *)
(* of directories, imports and deaths of the launcher.  What has to be     *)
(* known besides: which commands have a manifest in their hands, that a    *)
(* delete leaves another instance there, that a directory in which a new   *)
(* instance is being made has no other one in it or on its way, and that   *)
(* what a command has in its hands to save is an instance that was not     *)
(* deleted, or one that the delete has been noted to have overtaken.       *)
(*                                                                         *)
(* An import that is done is whole.  What has to be known besides: that    *)
(* every new instance has a life no import was made for, that one import   *)
(* at a time works on a directory, and that a manifest in the hands of an  *)
(* import lists whatever an import has recorded there.                     *)
(***************************************************************************)
EXTENDS InstanceStore, TLAPS, FiniteSetTheorems

Creators == {"create", "clone", "import"}

TaskRec == [op : Sync \cup {"import", "delete", "none"}, id : Ids, src : Ids,
          step : {"none", "mkdir", "copy", "truncate", "write", "enqueue", "remove", "settings"},
          man : Manifest \cup {Bare}]

(* What a command of each kind does, and with what in its hands.           *)
TaskFine(r) ==
  /\ r \in TaskRec
  /\ r.step \in {"mkdir", "copy"} => r.op \in Creators
  /\ r.step \in {"truncate", "write"} => r.op \in Creators \cup {"rename"} /\ r.man \in Manifest
  /\ r.step = "enqueue" => r.op = "import"
  /\ r.op \in Creators => r.man \in Manifest

RowFine(row) ==
  /\ row \in Row
  /\ row.status = "read" => row.skill \in Skills
  /\ row.status \in {"truncate", "write"} => row.man \in Manifest

TasksFine == tasks = [t \in Tasks |-> tasks[t]] /\ \A t \in Tasks : TaskFine(tasks[t])
RowsFine == rows \in Seq(Row) /\ \A r \in DOMAIN rows : RowFine(rows[r])
StoreFine == store \in [Ids -> Dir]

BooksFine ==
  /\ last \in Ids \cup {Nobody} /\ package \subseteq Items
  /\ lives \in 0..MaxCommands /\ commands \in 0..MaxCommands /\ lives <= commands /\ crashes \in 0..MaxCrashes
  /\ alive \cup ghosts \subseteq Lives \X Ids /\ mixed \subseteq Ids /\ stale \subseteq Ids /\ twice \in BOOLEAN

Typed == TasksFine /\ RowsFine /\ StoreFine /\ BooksFine

-----------------------------------------------------------------------------
(* A delete that is about to remove a directory leaves another instance.   *)
Removing(t) == Task(t, "delete", "remove")
DeletesLeaveOne ==
  twice \/ \A t \in Tasks : Removing(t) => /\ \A u \in Tasks : Removing(u) => u = t
                                           /\ \E id \in Ids : id # tasks[t].id /\ HasManifest(id)

(* Where a new instance is being made there is no other, nor one coming.   *)
Making(t) == tasks[t].op \in Creators /\ tasks[t].step \in {"mkdir", "copy", "truncate", "write"}
MakersAreAlone ==
  \A t \in Tasks : tasks[t].op \in Creators /\ tasks[t].id \notin mixed =>
     /\ \A u \in Tasks : tasks[u].op \in Creators /\ tasks[u].id = tasks[t].id => u = t
     /\ Making(t) => \A a \in alive : a[2] # tasks[t].id

(* What a rename or the record of a skill is about to save is the manifest *)
(* of an instance that was not deleted, or that the delete overtook.       *)
HeldIsGenuine ==
  /\ \A t \in Tasks : tasks[t].op = "rename" => Genuine(tasks[t].man.life, tasks[t].id)
  /\ \A r \in DOMAIN rows : rows[r].status \in {"truncate", "write"} => Genuine(rows[r].man.life, rows[r].id)

(* Two instances share a directory only if they chose the id at once.      *)
OneTenant == \A a, b \in alive : a[2] = b[2] /\ a[2] \notin mixed => a = b

Tenancy == HeldIsGenuine /\ OneTenant /\ InstanceStays
IInv == Typed /\ DeletesLeaveOne /\ MakersAreAlone /\ Tenancy

-----------------------------------------------------------------------------
LEMMA FineIdle == TaskFine(Idle)
BY StoreAssumption DEF TaskFine, TaskRec, Idle, Ids, Sync, Creators

LEMMA TasksTyped ==
  ASSUME TasksFine
  PROVE  tasks \in [Tasks -> TaskRec]
BY DEF TasksFine, TaskFine

LEMMA TasksSet ==
  ASSUME TasksFine, NEW t \in Tasks, NEW r, TaskFine(r), tasks' = [tasks EXCEPT ![t] = r]
  PROVE  TasksFine'
BY DEF TasksFine

LEMMA Goes ==
  ASSUME TasksFine, NEW t \in Tasks, NEW s \in {"truncate", "write", "enqueue", "settings"},
         s \in {"truncate", "write"} => tasks[t].op \in Creators \cup {"rename"} /\ tasks[t].man \in Manifest,
         s = "enqueue" => tasks[t].op = "import", Go(t, s)
  PROVE  TasksFine'
<1> DEFINE r == [tasks[t] EXCEPT !.step = s]
<1>1. tasks' = [tasks EXCEPT ![t] = r]
  BY TasksTyped DEF Go, TaskRec
<1>2. TaskFine(r)
  BY DEF TasksFine, TaskFine, TaskRec, Creators
<1>3. QED
  BY <1>1, <1>2, TasksSet

LEMMA Ends ==
  ASSUME TasksFine, NEW t \in Tasks, EndTask(t)
  PROVE  TasksFine'
BY FineIdle, TasksSet DEF EndTask

LEMMA RowsSet ==
  ASSUME RowsFine, NEW r \in DOMAIN rows, NEW row, RowFine(row), rows' = [rows EXCEPT ![r] = row]
  PROVE  RowsFine'
<1>1. rows' \in Seq(Row) /\ DOMAIN rows' = DOMAIN rows
  BY DEF RowsFine, RowFine
<1>2. QED
  BY <1>1 DEF RowsFine

LEMMA RowsTyped ==
  ASSUME RowsFine, NEW r \in DOMAIN rows
  PROVE  rows[r] \in Row /\ RowFine(rows[r])
BY DEF RowsFine, RowFine

LEMMA StoreSet ==
  ASSUME StoreFine, NEW id \in Ids, NEW d \in Dir, store' = [store EXCEPT ![id] = d]
  PROVE  StoreFine'
BY DEF StoreFine

LEMMA ManifestPut ==
  ASSUME StoreFine, NEW id \in Ids, NEW man \in Manifest \cup {Bare}, PutManifest(id, man)
  PROVE  StoreFine'
<1> DEFINE d == [store[id] EXCEPT !.there = TRUE, !.manifest = man]
<1>1. store' = [store EXCEPT ![id] = d]
  BY DEF PutManifest, StoreFine, Dir
<1>2. d \in Dir
  BY DEF StoreFine, Dir
<1>3. QED
  BY <1>1, <1>2, StoreSet

LEMMA Saves ==
  ASSUME StoreFine, NEW id \in Ids, NEW man \in Manifest, Truncate(id, man) \/ Fill(id, man)
  PROVE  StoreFine'
<1>1. [man EXCEPT !.torn = TRUE] \in Manifest
  BY DEF Manifest
<1>2. QED
  BY <1>1, ManifestPut DEF Truncate, Fill

LEMMA FilesPut ==
  ASSUME StoreFine, NEW id \in Ids, NEW files \in SUBSET Items, PutFiles(id, files)
  PROVE  StoreFine'
<1> DEFINE d == [store[id] EXCEPT !.there = TRUE, !.workspace = store[id].workspace \cup files]
<1>1. store' = [store EXCEPT ![id] = d]
  BY DEF PutFiles, StoreFine, Dir
<1>2. d \in Dir
  BY DEF StoreFine, Dir
<1>3. QED
  BY <1>1, <1>2, StoreSet

LEMMA Picks ==
  ASSUME Typed, NEW t \in Tasks, NEW op \in Creators, NEW src \in Ids, NEW skills \in SUBSET Skills, Pick(t, op, src, skills)
  PROVE  Typed'
<1> DEFINE man == [life |-> lives + 1, skills |-> skills, torn |-> FALSE]
           r(id) == [op |-> op, step |-> IF op = "clone" THEN "copy" ELSE "mkdir", id |-> id, src |-> src, man |-> man]
<1>1. PICK id \in Ids : tasks' = [tasks EXCEPT ![t] = r(id)] /\ (mixed' = mixed \/ mixed' = mixed \cup {id})
  BY DEF Pick, unique_id
<1>2. /\ commands < MaxCommands /\ commands' = commands + 1 /\ lives' = lives + 1
      /\ UNCHANGED <<store, last, rows, package, alive, ghosts, stale, twice, crashes>>
  BY DEF Pick, Counted
<1>3. man \in Manifest
  BY <1>2, StoreAssumption DEF Manifest, Lives, Typed, BooksFine
<1>4. TaskFine(r(id))
  <2> HIDE DEF man
  <2>1. QED
    BY <1>3 DEF TaskFine, TaskRec, Creators, Sync
<1>5. TasksFine'
  BY <1>1, <1>4, TasksSet DEF Typed
<1>6. QED
  BY <1>1, <1>2, <1>5, StoreAssumption DEF Typed, RowsFine, StoreFine, BooksFine

-----------------------------------------------------------------------------
(* Every reachable state of the instances is well typed.                   *)
LEMMA InitTyped == Init => Typed
<1> SUFFICES ASSUME Init
             PROVE  Typed
  OBVIOUS
<1>1. TasksFine
  BY FineIdle DEF Init, TasksFine
<1>2. RowsFine
  BY DEF Init, RowsFine
<1>3. StoreFine
  BY DEF Init, StoreFine, NoDir, Dir
<1>4. BooksFine
  <2>1. MaxCommands \in Nat /\ MaxCrashes \in Nat /\ Foreign \subseteq Items
    BY StoreAssumption DEF Items
  <2>2. 0 \in 0..MaxCommands /\ 0 \in 0..MaxCrashes /\ (0 <= 0)
    BY <2>1
  <2>3. /\ last \in Ids \cup {Nobody} /\ package \subseteq Items
        /\ lives = 0 /\ commands = 0 /\ crashes = 0
        /\ alive \cup ghosts \subseteq Lives \X Ids /\ mixed \subseteq Ids /\ stale \subseteq Ids /\ twice \in BOOLEAN
    BY <2>1 DEF Init
  <2>4. QED
    BY <2>2, <2>3 DEF BooksFine
<1>5. QED
  BY <1>1, <1>2, <1>3, <1>4 DEF Typed

LEMMA CommandTyped ==
  ASSUME Typed, NEW t \in Tasks, Command(t)
  PROVE  Typed'
<1> USE DEF Typed, counts, history
<1>0. /\ TaskFine(tasks[t]) /\ tasks[t] \in TaskRec /\ tasks[t].id \in Ids /\ tasks[t].src \in Ids
  BY DEF TasksFine, TaskFine, TaskRec
<1>1. CASE create_instance(t)
  BY <1>1, StoreAssumption, Picks DEF create_instance, Creators, Ids
<1>2. CASE enqueue_environment_import(t)
  BY <1>2, StoreAssumption, Picks DEF enqueue_environment_import, Creators, Ids
<1>3. ASSUME NEW id \in Ids, clone_instance(t, id)
      PROVE  Typed'
  <2>1. store[id].manifest.skills \in SUBSET Skills
    BY <1>3 DEF clone_instance, Readable, HasManifest, StoreFine, Dir, Manifest
  <2>2. QED
    BY <1>3, <2>1, Picks DEF clone_instance, Creators
<1>4. CASE MakeWorkspace(t)
  <2>1. TasksFine'
    BY <1>0, <1>4, Goes DEF MakeWorkspace, TaskFine
  <2>2. StoreFine'
    BY <1>0, <1>4, FilesPut DEF MakeWorkspace
  <2>3. QED
    BY <1>4, <2>1, <2>2 DEF MakeWorkspace, RowsFine, BooksFine
<1>5. CASE copy_dir_recursive(t)
  <2>1. PICK copied \in SUBSET store[tasks[t].src].workspace :
           /\ PutFiles(tasks[t].id, copied)
           /\ Go(t, "truncate") \/ EndTask(t)
    BY <1>5 DEF copy_dir_recursive
  <2>2. TasksFine'
    BY <1>0, <1>5, <2>1, Goes, Ends DEF copy_dir_recursive, TaskFine
  <2>3. StoreFine'
    BY <1>0, <2>1, FilesPut DEF StoreFine, Dir
  <2>4. QED
    BY <1>5, <2>2, <2>3 DEF copy_dir_recursive, RowsFine, BooksFine
<1>6. ASSUME NEW id \in Ids, rename_instance(t, id)
      PROVE  Typed'
  <2> DEFINE r == [op |-> "rename", step |-> "truncate", id |-> id, src |-> 1, man |-> store[id].manifest]
  <2>1. TaskFine(r)
    BY <1>6, StoreAssumption DEF rename_instance, Readable, HasManifest, StoreFine, Dir, TaskFine, TaskRec, Creators, Sync, Ids
  <2>2. TasksFine'
    BY <1>6, <2>1, TasksSet DEF rename_instance
  <2>3. QED
    BY <1>6, <2>2, StoreAssumption DEF rename_instance, Counted, RowsFine, StoreFine, BooksFine
<1>7. CASE BeginSave(t)
  <2>1. tasks[t].op \in Creators \cup {"rename"} /\ tasks[t].man \in Manifest
    BY <1>0, <1>7 DEF BeginSave, TaskFine
  <2>2. TasksFine'
    BY <1>7, <2>1, Goes DEF BeginSave
  <2>3. StoreFine'
    BY <1>0, <1>7, <2>1, Saves DEF BeginSave
  <2>4. QED
    BY <1>0, <1>7, <2>2, <2>3 DEF BeginSave, Older, RowsFine, BooksFine
<1>8. CASE EndSave(t)
  <2>1. tasks[t].op \in Creators \cup {"rename"} /\ tasks[t].man \in Manifest /\ tasks[t].man.life \in Lives
    BY <1>0, <1>8 DEF EndSave, TaskFine, Manifest
  <2>2. TasksFine'
    BY <1>8, <2>1, Goes, Ends DEF EndSave
  <2>3. StoreFine'
    BY <1>0, <1>8, <2>1, Saves DEF EndSave
  <2>4. BooksFine'
    BY <1>0, <1>8, <2>1 DEF EndSave, Older, BooksFine
  <2>5. QED
    BY <1>8, <2>2, <2>3, <2>4 DEF EndSave, RowsFine
<1>9. CASE EnqueueImport(t)
  <2> DEFINE row == [id |-> tasks[t].id, life |-> tasks[t].man.life, items |-> package, todo |-> {},
                     failed |-> FALSE, status |-> "queued", skill |-> "-", man |-> Bare]
  <2>1. RowFine(row)
    BY <1>0, <1>9 DEF EnqueueImport, TaskFine, Creators, RowFine, Row, Manifest, BooksFine
  <2>2. RowsFine'
    <3>1. CASE UNCHANGED rows
      BY <3>1 DEF RowsFine
    <3>2. CASE rows' = Append(rows, row)
      <4> HIDE DEF row
      <4>1. rows' \in Seq(Row) /\ DOMAIN rows' = 1..(Len(rows) + 1)
        BY <2>1, <3>2 DEF RowsFine, RowFine
      <4>2. \A i \in DOMAIN rows' : (i \in DOMAIN rows /\ rows'[i] = rows[i]) \/ rows'[i] = row
        BY <2>1, <3>2, <4>1 DEF RowsFine, RowFine
      <4>3. QED
        BY <2>1, <4>1, <4>2 DEF RowsFine
    <3>3. QED
      BY <1>9, <3>1, <3>2 DEF EnqueueImport
  <2>3. TasksFine'
    BY <1>9, Ends DEF EnqueueImport
  <2>4. QED
    BY <1>9, <2>2, <2>3 DEF EnqueueImport, StoreFine, BooksFine
<1>10. ASSUME NEW id \in Ids, delete_instance(t, id)
       PROVE  Typed'
  <2>1. TaskFine([op |-> "delete", step |-> "remove", id |-> id, src |-> 1, man |-> Bare])
    BY StoreAssumption DEF TaskFine, TaskRec, Creators, Sync, Ids
  <2>2. TasksFine'
    BY <1>10, <2>1, TasksSet DEF delete_instance
  <2>3. QED
    BY <1>10, <2>2, StoreAssumption DEF delete_instance, Counted, RowsFine, StoreFine, BooksFine
<1>11. CASE RemoveDir(t)
  <2>1. TasksFine'
    BY <1>11, Goes, Ends DEF RemoveDir
  <2>2. StoreFine'
    <3>1. CASE store' = [store EXCEPT ![tasks[t].id] = NoDir]
      BY <1>0, <3>1, StoreSet DEF NoDir, Dir
    <3>2. ASSUME NEW man \in {Bare, store[tasks[t].id].manifest}, NEW files \in SUBSET store[tasks[t].id].workspace,
                 store' = [store EXCEPT ![tasks[t].id].manifest = man, ![tasks[t].id].workspace = files]
          PROVE  StoreFine'
      <4> DEFINE d == [store[tasks[t].id] EXCEPT !.manifest = man, !.workspace = files]
      <4>1. store' = [store EXCEPT ![tasks[t].id] = d]
        BY <1>0, <3>2 DEF StoreFine, Dir
      <4>2. d \in Dir
        BY <1>0 DEF StoreFine, Dir
      <4>3. QED
        BY <1>0, <4>1, <4>2, StoreSet
    <3>3. QED
      BY <1>11, <3>1, <3>2 DEF RemoveDir
  <2>3. ghosts' \subseteq Lives \X Ids
    <3>1. PICK id \in Ids : id = tasks[t].id
      BY <1>0
    <3>2. \A m \in Manifest \cup {Bare} : m.life \in Lives \cup {Nobody}
      BY DEF Manifest, Bare, Nobody
    <3>3. Held(id) \subseteq Lives \cup {Nobody}
      <4>1. \A u \in Tasks : tasks[u].man \in Manifest \cup {Bare}
        BY DEF TasksFine, TaskFine, TaskRec
      <4>2. \A r \in DOMAIN rows : rows[r].man \in Manifest \cup {Bare}
        BY RowsTyped DEF Row
      <4>3. QED
        BY <3>2, <4>1, <4>2 DEF Held
    <3>4. store'[id].manifest.life \in Lives \cup {Nobody}
      BY <2>2, <3>2 DEF StoreFine, Dir
    <3>5. ghosts' = ghosts \cup {<<life, id>> : life \in (Held(id) \cup {store'[id].manifest.life}) \ {Nobody}}
      BY <1>11, <3>1 DEF RemoveDir
    <3>6. QED
      BY <3>3, <3>4, <3>5 DEF BooksFine
  <2>4. alive' \subseteq alive /\ UNCHANGED <<last, rows, package, lives, commands, crashes, mixed, stale, twice>>
    BY <1>11 DEF RemoveDir
  <2>5. BooksFine'
    BY <2>3, <2>4 DEF BooksFine
  <2>6. QED
    BY <2>1, <2>2, <2>4, <2>5 DEF RowsFine
<1>12. CASE MoveMarker(t)
  BY <1>12, Ends DEF MoveMarker, Listed, RowsFine, StoreFine, BooksFine
<1>13. QED
  BY <1>1, <1>2, <1>3, <1>4, <1>5, <1>6, <1>7, <1>8, <1>9, <1>10, <1>11, <1>12 DEF Command

LEMMA ImportTyped ==
  ASSUME Typed, NEW r \in DOMAIN rows, Import(r)
  PROVE  Typed'
<1> USE DEF Typed, counts, history
<1>0. rows[r] \in Row /\ RowFine(rows[r]) /\ rows[r].id \in Ids
  BY RowsTyped DEF Row
<1>1. ASSUME NEW row, RowFine(row), rows' = [rows EXCEPT ![r] = row]
      PROVE  RowsFine'
  BY <1>1, RowsSet
<1>2. ASSUME NEW s \in {"queued", "item", "done", "failed"}
      PROVE  RowFine([rows[r] EXCEPT !.status = s])
  BY <1>0 DEF RowFine, Row
<1>3. ASSUME NEW s \in {"done", "failed"}
      PROVE  RowFine(Over(rows[r], s))
  BY <1>0 DEF RowFine, Row, Over
<1>4. CASE environment_import_job(r)
  <2>1. RowFine([rows[r] EXCEPT !.status = "item", !.todo = rows[r].items, !.failed = FALSE])
    BY <1>0 DEF RowFine, Row
  <2>2. \/ rows' = [rows EXCEPT ![r] = [rows[r] EXCEPT !.status = "failed"]]
        \/ rows' = [rows EXCEPT ![r] = [rows[r] EXCEPT !.status = "item", !.todo = rows[r].items, !.failed = FALSE]]
    BY <1>0, <1>4 DEF environment_import_job, SetRow, RowsFine, Row
  <2>3. RowsFine'
    BY <1>1, <1>2, <2>1, <2>2
  <2>4. QED
    BY <1>4, <2>3 DEF environment_import_job, TasksFine, StoreFine, BooksFine
<1>5. ASSUME NEW item \in Items, install_bundle_item(r, item)
      PROVE  Typed'
  <2> DEFINE failed == [rows[r] EXCEPT !.todo = rows[r].todo \ {item}, !.failed = TRUE]
             put == [rows[r] EXCEPT !.todo = rows[r].todo \ {item}, !.skill = IF item \in Skills THEN item ELSE "-",
                                    !.status = IF item \in Skills THEN "read" ELSE "item"]
  <2>1. RowFine(failed) /\ RowFine(put)
    BY <1>0, <1>5 DEF install_bundle_item, RowStep, RowFine, Row
  <2>2. \/ rows' = [rows EXCEPT ![r] = failed] /\ UNCHANGED store
        \/ rows' = [rows EXCEPT ![r] = put] /\ PutFiles(rows[r].id, {item})
    BY <1>0, <1>5 DEF install_bundle_item, RowsFine, Row
  <2>3. RowsFine'
    <3> HIDE DEF failed, put
    <3>1. QED
      BY <1>1, <2>1, <2>2
  <2>4. StoreFine'
    BY <1>0, <2>2, FilesPut DEF StoreFine
  <2>5. QED
    BY <1>5, <2>3, <2>4 DEF install_bundle_item, TasksFine, BooksFine
<1>6. CASE add_skill(r)
  <2> DEFINE man == [store[rows[r].id].manifest EXCEPT !.skills = store[rows[r].id].manifest.skills \cup {rows[r].skill}]
             read == [rows[r] EXCEPT !.man = man, !.status = "truncate"]
             unread == [rows[r] EXCEPT !.failed = TRUE, !.status = "item"]
  <2>1. RowFine(unread)
    BY <1>0 DEF RowFine, Row
  <2>2. rows[r].skill \in Skills
    BY <1>0, <1>6 DEF add_skill, RowStep, RowFine
  <2>3. Readable(rows[r].id) => man \in Manifest
    BY <1>0, <2>2 DEF Readable, HasManifest, StoreFine, Dir, Manifest
  <2>4. Readable(rows[r].id) => RowFine(read)
    <3> HIDE DEF man
    <3>1. QED
      BY <1>0, <2>3 DEF RowFine, Row
  <2>5. rows' = [rows EXCEPT ![r] = IF Readable(rows[r].id) THEN read ELSE unread]
    BY <1>6 DEF add_skill
  <2>6. RowsFine'
    <3> HIDE DEF read, unread
    <3>1. QED
      BY <1>1, <2>1, <2>4, <2>5
  <2>7. QED
    BY <1>6, <2>6 DEF add_skill, TasksFine, StoreFine, BooksFine
<1>7. CASE SaveRecord(r)
  <2>1. rows[r].status \in {"truncate", "write"} /\ rows[r].man \in Manifest
    BY <1>0, <1>7 DEF SaveRecord, RowStep, RowFine
  <2>2. RowFine([rows[r] EXCEPT !.status = "write"]) /\ RowFine([rows[r] EXCEPT !.status = "item", !.man = Bare, !.skill = "-"])
    BY <1>0, <2>1 DEF RowFine, Row
  <2>3. \/ rows' = [rows EXCEPT ![r] = [rows[r] EXCEPT !.status = "write"]]
        \/ rows' = [rows EXCEPT ![r] = [rows[r] EXCEPT !.status = "item", !.man = Bare, !.skill = "-"]]
    BY <1>0, <1>7 DEF SaveRecord, SetRow, RowsFine, Row
  <2>4. RowsFine'
    BY <1>1, <2>2, <2>3
  <2>5. StoreFine'
    BY <1>0, <1>7, <2>1, Saves DEF SaveRecord
  <2>6. QED
    BY <1>0, <1>7, <2>4, <2>5 DEF SaveRecord, TasksFine, BooksFine
<1>8. CASE FinishImport(r)
  <2>1. RowsFine'
    BY <1>1, <1>3, <1>8 DEF FinishImport, Conclude
  <2>2. QED
    BY <1>8, <2>1 DEF FinishImport, TasksFine, StoreFine, BooksFine
<1>9. CASE jobs_retry(r)
  <2>1. rows' = [rows EXCEPT ![r] = [rows[r] EXCEPT !.status = "queued"]]
    BY <1>0, <1>9 DEF jobs_retry, SetRow, RowsFine, Row
  <2>2. RowsFine'
    BY <1>1, <1>2, <2>1
  <2>3. QED
    BY <1>9, <2>2 DEF jobs_retry, TasksFine, StoreFine, BooksFine
<1>10. QED
  BY <1>4, <1>5, <1>6, <1>7, <1>8, <1>9 DEF Import

LEMMA StepTyped ==
  ASSUME Typed, [Next]_vars
  PROVE  Typed'
<1> USE DEF Typed, counts, history
<1>1. ASSUME NEW id \in Ids, switch_instance(id) \/ environment_export(id)
      PROVE  Typed'
  <2>1. package' \subseteq Items
    BY <1>1, StoreAssumption DEF switch_instance, environment_export, exported, find_by_key, Items, BooksFine
  <2>2. QED
    BY <1>1, <2>1, StoreAssumption DEF switch_instance, environment_export, Counted, TasksFine, RowsFine, StoreFine, BooksFine
<1>2. CASE Crash
  <2>1. TasksFine'
    BY <1>2, FineIdle DEF Crash, TasksFine
  <2>2. RowsFine'
    <3> DEFINE row(i) == IF Active(i) THEN Over(rows[i], "failed") ELSE rows[i]
    <3>1. \A i \in DOMAIN rows : RowFine(row(i))
      BY RowsTyped DEF RowFine, Row, Over
    <3>2. rows' = [i \in DOMAIN rows |-> row(i)]
      BY <1>2 DEF Crash
    <3> HIDE DEF row
    <3>3. DOMAIN rows = 1..Len(rows) /\ Len(rows) \in Nat
      BY DEF RowsFine
    <3>4. rows' \in Seq(Row)
      BY <3>1, <3>2, <3>3 DEF RowFine
    <3>5. QED
      BY <3>1, <3>2, <3>4 DEF RowsFine
  <2>3. QED
    BY <1>2, <2>1, <2>2, StoreAssumption DEF Crash, StoreFine, BooksFine
<1>3. CASE UNCHANGED vars
  BY <1>3 DEF vars, TasksFine, RowsFine, StoreFine, BooksFine
<1>4. QED
  BY <1>1, <1>2, <1>3, CommandTyped, ImportTyped DEF Next

-----------------------------------------------------------------------------
(* What the steps do to the commands, and to the manifests.                *)
Steady ==
  \A t \in Tasks : \/ tasks'[t].op \notin Creators \cup {"delete"}
                   \/ /\ tasks'[t].op = tasks[t].op /\ tasks'[t].id = tasks[t].id
                      /\ Making(t)' => Making(t)
                      /\ Removing(t)' => Removing(t)

SameManifests == \A id \in Ids : store'[id].manifest = store[id].manifest

LEMMA GoSteady ==
  ASSUME TasksFine, NEW t \in Tasks, NEW s \in {"truncate", "write", "enqueue", "settings"},
         s \in {"truncate", "write"} => tasks[t].step \in {"mkdir", "copy", "truncate"}, Go(t, s)
  PROVE  Steady
BY TasksTyped DEF Go, Steady, Making, Removing, Task, TaskRec

LEMMA EndSteady ==
  ASSUME TasksFine, NEW t \in Tasks, EndTask(t)
  PROVE  Steady
BY TasksTyped DEF EndTask, Steady, Idle, Making, Removing, Task, Creators

LEMMA StaySteady ==
  ASSUME UNCHANGED tasks
  PROVE  Steady
BY DEF Steady, Making, Removing, Task

LEMMA FilesOnly ==
  ASSUME StoreFine, NEW id \in Ids, NEW files, PutFiles(id, files)
  PROVE  SameManifests
BY DEF PutFiles, SameManifests, StoreFine, Dir

LEMMA FilesGrow ==
  ASSUME StoreFine, NEW id \in Ids, NEW files, PutFiles(id, files)
  PROVE  \A i \in Ids : store[i].workspace \subseteq store'[i].workspace
BY DEF PutFiles, StoreFine, Dir


(* A manifest that is saved: what the file holds then.                     *)
LEMMA SavedIs ==
  ASSUME StoreFine, NEW id \in Ids, NEW man \in Manifest, Truncate(id, man) \/ Fill(id, man)
  PROVE  /\ store'[id].manifest.life = man.life /\ store'[id].manifest.skills = man.skills
         /\ Truncate(id, man) => store'[id].manifest.torn
         /\ \A i \in Ids : store'[i].workspace = store[i].workspace
         /\ \A i \in Ids \ {id} : store'[i] = store[i]
<1> DEFINE torn == [man EXCEPT !.torn = TRUE]
<1>1. torn.life = man.life /\ torn.skills = man.skills /\ torn.torn = TRUE
  BY DEF Manifest
<1> HIDE DEF torn
<1>2. PICK m \in {man, torn} : PutManifest(id, m) /\ (Truncate(id, man) => m = torn \/ PutManifest(id, torn))
  BY DEF Truncate, Fill, torn
<1>3. store'[id].manifest = m /\ \A i \in Ids : store'[i].workspace = store[i].workspace
  BY <1>2 DEF PutManifest, StoreFine, Dir
<1>4. \A i \in Ids \ {id} : store'[i] = store[i]
  BY <1>2 DEF PutManifest, StoreFine
<1>5. Truncate(id, man) => store'[id].manifest = torn
  BY DEF Truncate, PutManifest, StoreFine, Dir, torn
<1>6. QED
  BY <1>1, <1>2, <1>3, <1>4, <1>5

LEMMA RealManifest ==
  ASSUME NEW man \in Manifest
  PROVE  man # Bare /\ [man EXCEPT !.torn = TRUE] # Bare /\ [man EXCEPT !.torn = TRUE].life = man.life
BY StoreAssumption DEF Manifest, Bare, Lives

LEMMA OneSaved ==
  ASSUME StoreFine, NEW id \in Ids, NEW man \in Manifest, Truncate(id, man) \/ Fill(id, man)
  PROVE  /\ HasManifest(id)' /\ store'[id].manifest.life = man.life
         /\ \A i \in Ids \ {id} : store'[i].manifest = store[i].manifest
<1>1. PICK m : m # Bare /\ m.life = man.life /\ PutManifest(id, m)
  BY RealManifest DEF Truncate, Fill
<1>2. QED
  BY <1>1 DEF PutManifest, HasManifest, StoreFine, Dir

-----------------------------------------------------------------------------
(* What a step leaves in the hands of the commands and of the imports: what *)
(* was there, or a manifest that could be read.                            *)
TaskHands ==
  \A t \in Tasks : tasks'[t].op = "rename" =>
     \/ tasks[t].op = "rename" /\ tasks'[t].man = tasks[t].man /\ tasks'[t].id = tasks[t].id
     \/ /\ tasks'[t].id \in Ids /\ Readable(tasks'[t].id)
        /\ tasks'[t].man.life = store[tasks'[t].id].manifest.life
RowHands ==
  \A r \in DOMAIN rows' : rows'[r].status \in {"truncate", "write"} =>
     \/ /\ r \in DOMAIN rows /\ rows[r].status \in {"truncate", "write"}
        /\ rows'[r].man = rows[r].man /\ rows'[r].id = rows[r].id
     \/ /\ rows'[r].id \in Ids /\ Readable(rows'[r].id)
        /\ rows'[r].man.life = store[rows'[r].id].manifest.life

LEMMA TaskHandsGo ==
  ASSUME TasksFine, NEW t \in Tasks, NEW s, Go(t, s)
  PROVE  TaskHands
BY TasksTyped DEF Go, TaskHands, TaskRec

LEMMA TaskHandsEnd ==
  ASSUME TasksFine, NEW t \in Tasks, EndTask(t)
  PROVE  TaskHands
BY TasksTyped DEF EndTask, TaskHands, Idle

LEMMA TaskHandsBegin ==
  ASSUME TasksFine, NEW t \in Tasks, NEW task, task.op # "rename", tasks' = [tasks EXCEPT ![t] = task]
  PROVE  TaskHands
BY TasksTyped DEF TaskHands

LEMMA TaskHandsStay ==
  ASSUME UNCHANGED tasks
  PROVE  TaskHands
BY DEF TaskHands

LEMMA RowHandsStay ==
  ASSUME UNCHANGED rows
  PROVE  RowHands
BY DEF RowHands

LEMMA HeldKept ==
  ASSUME IInv, TaskHands, RowHands, alive \cup ghosts \subseteq alive' \cup ghosts'
  PROVE  HeldIsGenuine'
<1>1. ASSUME NEW L, NEW id, Genuine(L, id)
      PROVE  <<L, id>> \in alive' \cup ghosts'
  <2>1. <<L, id>> \in alive \cup ghosts
    BY <1>1 DEF Genuine
  <2>2. QED
    BY <2>1
<1>2. \A id \in Ids : Readable(id) => Genuine(store[id].manifest.life, id)
  BY DEF IInv, Tenancy, InstanceStays
<1>3. ASSUME NEW t \in Tasks, tasks'[t].op = "rename"
      PROVE  Genuine(tasks'[t].man.life, tasks'[t].id)
  BY <1>2, <1>3 DEF TaskHands, IInv, Tenancy, HeldIsGenuine
<1>4. ASSUME NEW r \in DOMAIN rows', rows'[r].status \in {"truncate", "write"}
      PROVE  Genuine(rows'[r].man.life, rows'[r].id)
  BY <1>2, <1>4 DEF RowHands, IInv, Tenancy, HeldIsGenuine
<1>5. QED
  BY <1>1, <1>3, <1>4 DEF HeldIsGenuine, Genuine

(* What keeps the parts of the invariant.                                  *)
LEMMA DeletesKept ==
  ASSUME DeletesLeaveOne, twice => twice', Steady, \A id \in Ids : HasManifest(id) => HasManifest(id)'
  PROVE  DeletesLeaveOne'
BY DEF DeletesLeaveOne, Steady, Removing, Task, Creators

LEMMA MakersKept ==
  ASSUME MakersAreAlone, Steady, mixed \subseteq mixed', alive' \subseteq alive
  PROVE  MakersAreAlone'
BY DEF MakersAreAlone, Steady, Making

LEMMA StaysKept ==
  ASSUME IInv, mixed \subseteq mixed', UNCHANGED <<alive, ghosts>>, SameManifests
  PROVE  OneTenant' /\ InstanceStays'
<1>1. OneTenant'
  BY DEF OneTenant, IInv, Tenancy
<1>2. \A a \in alive : a[2] \in Ids
  BY DEF IInv, Typed, BooksFine
<1>3. QED
  BY <1>1, <1>2 DEF IInv, Tenancy, InstanceStays, SameManifests, HasManifest, Readable, Genuine

LEMMA AllKept ==
  ASSUME IInv, Steady, SameManifests, TaskHands, RowHands, UNCHANGED <<twice, mixed, alive, ghosts>>
  PROVE  DeletesLeaveOne' /\ MakersAreAlone' /\ Tenancy' /\ (SomeInstance => SomeInstance')
<1>1. \A id \in Ids : HasManifest(id) => HasManifest(id)'
  BY DEF SameManifests, HasManifest
<1>2. DeletesLeaveOne' /\ MakersAreAlone' /\ (SomeInstance => SomeInstance')
  BY <1>1, DeletesKept, MakersKept DEF IInv, SomeInstance
<1>3. HeldIsGenuine'
  BY HeldKept
<1>4. QED
  BY <1>2, <1>3, StaysKept DEF Tenancy

LEMMA PickKeeps ==
  ASSUME IInv, NEW t \in Tasks, NEW op \in Creators, NEW src \in Ids, NEW skills \in SUBSET Skills,
         tasks[t] = Idle, Pick(t, op, src, skills)
  PROVE  DeletesLeaveOne' /\ MakersAreAlone' /\ Tenancy' /\ (SomeInstance => SomeInstance')
<1> DEFINE r(id) == [op |-> op, step |-> IF op = "clone" THEN "copy" ELSE "mkdir", id |-> id, src |-> src,
                     man |-> [life |-> lives + 1, skills |-> skills, torn |-> FALSE]]
<1>1. PICK id \in Ids :
        /\ ~Readable(id) /\ tasks' = [tasks EXCEPT ![t] = r(id)]
        /\ mixed' = IF (HasManifest(id) /\ ~Readable(id)) \/ \E u \in Tasks \ {t} : tasks[u].op \in Creators /\ tasks[u].id = id
                    THEN mixed \cup {id} ELSE mixed
  BY DEF Pick, unique_id, existing_ids, Listed, Creators
<1>2. UNCHANGED <<store, rows, alive, ghosts, twice>>
  BY DEF Pick
<1>3. mixed \subseteq mixed'
  BY <1>1
<1>4. \A u \in Tasks : u # t => tasks'[u] = tasks[u]
  BY <1>1 DEF IInv, Typed, TasksFine
<1>5. tasks'[t].op \in Creators /\ tasks'[t].id = id
  BY <1>1, TasksTyped DEF IInv, Typed
<1>6. Tenancy' /\ (SomeInstance => SomeInstance')
  <2>1. TaskHands /\ RowHands
    BY <1>2, <1>4, <1>5 DEF TaskHands, RowHands, Creators
  <2>2. HeldIsGenuine'
    BY <1>2, <2>1, HeldKept
  <2>3. OneTenant' /\ InstanceStays' /\ (SomeInstance => SomeInstance')
    BY <1>2, <1>3, StaysKept DEF SameManifests, SomeInstance, HasManifest
  <2>4. QED
    BY <2>2, <2>3 DEF Tenancy
<1>7. DeletesLeaveOne'
  BY <1>2, <1>4, <1>5 DEF IInv, DeletesLeaveOne, Removing, Task, Creators, HasManifest
<1>8. MakersAreAlone'
  <2>1. id \notin mixed' => /\ \A u \in Tasks \ {t} : ~(tasks'[u].op \in Creators /\ tasks'[u].id = id)
                            /\ \A a \in alive' : a[2] # id
    BY <1>1, <1>2, <1>3, <1>4 DEF IInv, Tenancy, InstanceStays
  <2>2. QED
    BY <1>2, <1>3, <1>4, <1>5, <2>1 DEF IInv, MakersAreAlone, Making
<1>9. QED
  BY <1>6, <1>7, <1>8

(* A save of what was read before puts back the instance that lives there, *)
(* or one that a delete overtook.                                          *)
LEMMA SaveKeeps ==
  ASSUME IInv, NEW id \in Ids, NEW man \in Manifest, Truncate(id, man) \/ Fill(id, man), Genuine(man.life, id),
         Steady, TaskHands, RowHands, UNCHANGED <<alive, ghosts, mixed, twice>>
  PROVE  DeletesLeaveOne' /\ MakersAreAlone' /\ Tenancy' /\ (SomeInstance => SomeInstance')
<1>1. /\ HasManifest(id)' /\ store'[id].manifest.life = man.life
      /\ \A i \in Ids \ {id} : store'[i].manifest = store[i].manifest
  BY OneSaved DEF IInv, Typed
<1>2. \A i \in Ids : HasManifest(i) => HasManifest(i)'
  BY <1>1 DEF HasManifest
<1>3. \A a \in alive : a[2] = id /\ id \notin mixed => a[1] = man.life \/ <<man.life, id>> \in ghosts
  <2>1. ASSUME NEW a \in alive, a[2] = id, id \notin mixed, <<man.life, id>> \in alive
        PROVE  a = <<man.life, id>>
    <3>1. PICK b \in alive : b = <<man.life, id>>
      BY <2>1
    <3>2. a = b
      BY <2>1, <3>1 DEF IInv, Tenancy, OneTenant
    <3>3. QED
      BY <3>1, <3>2
  <2>2. QED
    BY <2>1 DEF Genuine
<1>4. InstanceStays'
  <2>1. ASSUME NEW a \in alive, a[2] \notin mixed
        PROVE  /\ HasManifest(a[2])'
               /\ store'[a[2]].manifest.life = a[1] \/ <<store'[a[2]].manifest.life, a[2]>> \in ghosts
    <3>1. a[2] \in Ids
      BY DEF IInv, Typed, BooksFine
    <3>2. CASE a[2] = id
      BY <1>1, <1>3, <2>1, <3>2
    <3>3. CASE a[2] # id
      BY <1>1, <1>2, <2>1, <3>1, <3>3 DEF IInv, Tenancy, InstanceStays
    <3>4. QED
      BY <3>2, <3>3
  <2>2. ASSUME NEW i \in Ids, Readable(i)'
        PROVE  Genuine(store'[i].manifest.life, i)
    <3>1. CASE i = id
      BY <1>1, <3>1
    <3>2. CASE i # id
      <4>1. store'[i].manifest = store[i].manifest /\ Readable(i)
        BY <1>1, <2>2, <3>2 DEF Readable, HasManifest
      <4>2. QED
        BY <4>1 DEF IInv, Tenancy, InstanceStays
    <3>3. QED
      BY <3>1, <3>2
  <2>3. QED
    BY <2>1, <2>2 DEF InstanceStays, Genuine
<1>5. HeldIsGenuine' /\ OneTenant'
  BY HeldKept DEF IInv, Tenancy, OneTenant
<1>6. QED
  BY <1>2, <1>4, <1>5, DeletesKept, MakersKept DEF IInv, Tenancy, SomeInstance

(* A new instance comes to a directory where there is none.                *)
LEMMA MakerSaves ==
  ASSUME IInv, NEW t \in Tasks, Making(t), Steady, TaskHands, RowHands,
         BeginSave(t) \/ (EndSave(t) /\ ~Making(t)')
  PROVE  DeletesLeaveOne' /\ MakersAreAlone' /\ Tenancy' /\ (SomeInstance => SomeInstance')
<1>1. PICK id \in Ids, man \in Manifest : id = tasks[t].id /\ man = tasks[t].man /\ tasks[t].op \in Creators
  BY DEF Making, IInv, Typed, TasksFine, TaskFine, TaskRec
<1>2. Truncate(id, man) \/ Fill(id, man)
  BY <1>1 DEF BeginSave, EndSave
<1>3. /\ UNCHANGED <<mixed, twice, ghosts>>
      /\ \/ alive' = alive /\ Truncate(id, man)
         \/ alive' = alive \cup {<<man.life, id>>} /\ ~Making(t)'
  BY <1>1 DEF BeginSave, EndSave, Creators
<1>4. /\ HasManifest(id)' /\ store'[id].manifest.life = man.life
      /\ \A i \in Ids \ {id} : store'[i].manifest = store[i].manifest
  BY <1>1, <1>2, OneSaved DEF IInv, Typed
<1>5. \A i \in Ids : HasManifest(i) => HasManifest(i)'
  BY <1>1, <1>4 DEF HasManifest
<1>6. id \notin mixed => /\ \A a \in alive : a[2] # id
                         /\ \A u \in Tasks : tasks[u].op \in Creators /\ tasks[u].id = id => u = t
  BY <1>1 DEF IInv, MakersAreAlone
<1>7. InstanceStays'
  <2>1. ASSUME NEW a \in alive', a[2] \notin mixed'
        PROVE  /\ HasManifest(a[2])'
               /\ store'[a[2]].manifest.life = a[1] \/ <<store'[a[2]].manifest.life, a[2]>> \in ghosts'
    <3>1. a \in alive \/ a = <<man.life, id>>
      BY <1>3, <2>1
    <3>2. CASE a \in alive
      <4>1. /\ a[2] \in Ids \ {id} /\ HasManifest(a[2])
            /\ store[a[2]].manifest.life = a[1] \/ <<store[a[2]].manifest.life, a[2]>> \in ghosts
        BY <1>3, <1>6, <2>1, <3>2 DEF IInv, Typed, BooksFine, Tenancy, InstanceStays
      <4>2. QED
        BY <1>3, <1>4, <4>1 DEF HasManifest
    <3>3. QED
      BY <1>4, <3>1, <3>2
  <2>2. ASSUME NEW i \in Ids, Readable(i)'
        PROVE  <<store'[i].manifest.life, i>> \in alive' \cup ghosts'
    <3>1. CASE i # id
      <4>1. store'[i].manifest = store[i].manifest /\ Readable(i)
        BY <1>4, <2>2, <3>1 DEF Readable, HasManifest
      <4>2. <<store[i].manifest.life, i>> \in alive \cup ghosts
        BY <4>1 DEF IInv, Tenancy, InstanceStays, Genuine
      <4>3. QED
        BY <1>3, <4>1, <4>2
    <3>2. CASE i = id /\ Truncate(id, man)
      <4>1. store'[id].manifest.torn
        BY <3>2, SavedIs DEF IInv, Typed
      <4>2. QED
        BY <2>2, <3>2, <4>1 DEF Readable
    <3>3. CASE i = id /\ alive' = alive \cup {<<man.life, id>>}
      BY <1>4, <3>3
    <3>4. QED
      BY <1>3, <3>1, <3>2, <3>3
  <2>3. QED
    BY <2>1, <2>2 DEF InstanceStays, Genuine
<1>8. MakersAreAlone'
  <2>1. ASSUME NEW u \in Tasks, tasks'[u].op \in Creators, tasks'[u].id \notin mixed'
        PROVE  /\ \A w \in Tasks : tasks'[w].op \in Creators /\ tasks'[w].id = tasks'[u].id => w = u
               /\ Making(u)' => \A a \in alive' : a[2] # tasks'[u].id
    <3>1. tasks[u].op \in Creators /\ tasks'[u].id = tasks[u].id /\ (Making(u)' => Making(u)) /\ tasks[u].id \notin mixed
      BY <1>3, <2>1 DEF Steady
    <3>2. \A w \in Tasks : tasks'[w].op \in Creators => tasks[w].op \in Creators /\ tasks'[w].id = tasks[w].id
      BY DEF Steady
    <3>3. \A w \in Tasks : tasks[w].op \in Creators /\ tasks[w].id = tasks[u].id => w = u
      BY <3>1 DEF IInv, MakersAreAlone
    <3>4. Making(u)' => \A a \in alive : a[2] # tasks[u].id
      BY <3>1 DEF IInv, MakersAreAlone
    <3>5. Making(u)' => \A a \in alive' : a[2] # tasks[u].id
      BY <1>1, <1>3, <3>1, <3>3, <3>4
    <3>6. QED
      BY <3>1, <3>2, <3>3, <3>5
  <2>2. QED
    BY <2>1 DEF MakersAreAlone
<1>9. OneTenant'
  BY <1>3, <1>6 DEF IInv, Tenancy, OneTenant
<1>10. HeldIsGenuine'
  BY <1>3, HeldKept
<1>11. QED
  BY <1>3, <1>5, <1>7, <1>8, <1>9, <1>10, DeletesKept DEF IInv, Tenancy, SomeInstance

(* A delete begins only if there is another instance left.                 *)
LEMMA AnotherIsListed ==
  ASSUME Cardinality(Listed) > 1, NEW id \in Ids
  PROVE  \E other \in Ids : other # id /\ HasManifest(other)
<1>1. SUFFICES ASSUME Listed \subseteq {id}
               PROVE  FALSE
  BY DEF Listed, Readable
<1>2. IsFiniteSet({id}) /\ Cardinality({id}) = 1
  BY FS_Singleton
<1>3. Cardinality(Listed) <= 1 /\ Cardinality(Listed) \in Nat
  BY <1>1, <1>2, FS_Subset, FS_CardinalityType
<1>4. QED
  BY <1>3

LEMMA DeleteBegins ==
  ASSUME IInv, NEW t \in Tasks, NEW id \in Ids, delete_instance(t, id)
  PROVE  DeletesLeaveOne' /\ MakersAreAlone' /\ Tenancy' /\ (SomeInstance => SomeInstance')
<1>1. /\ tasks' = [tasks EXCEPT ![t] = [op |-> "delete", step |-> "remove", id |-> id, src |-> 1, man |-> Bare]]
      /\ twice' = (twice \/ \E u \in Tasks : Removing(u))
      /\ UNCHANGED <<store, rows, alive, ghosts, mixed>>
  BY DEF delete_instance, Removing
<1>2. \A u \in Tasks : u # t => tasks'[u] = tasks[u]
  BY <1>1 DEF IInv, Typed, TasksFine
<1>3. tasks'[t].op = "delete" /\ tasks'[t].id = id
  BY <1>1, TasksTyped DEF IInv, Typed
<1>4. \E other \in Ids : other # id /\ HasManifest(other)'
  BY <1>1, AnotherIsListed DEF delete_instance, HasManifest
<1>5. DeletesLeaveOne'
  BY <1>1, <1>2, <1>3, <1>4 DEF DeletesLeaveOne, Removing, Task
<1>6. MakersAreAlone'
  BY <1>1, <1>2, <1>3 DEF IInv, MakersAreAlone, Making, Creators
<1>7. HeldIsGenuine'
  <2>1. TaskHands /\ RowHands
    BY <1>1, <1>2, <1>3 DEF TaskHands, RowHands
  <2>2. QED
    BY <1>1, <2>1, HeldKept
<1>8. OneTenant' /\ InstanceStays'
  BY <1>1, StaysKept DEF SameManifests
<1>9. QED
  BY <1>1, <1>5, <1>6, <1>7, <1>8 DEF Tenancy, SomeInstance, HasManifest

LEMMA GenuineLives ==
  ASSUME IInv, NEW L, NEW id, Genuine(L, id)
  PROVE  L # Nobody
BY StoreAssumption DEF Genuine, IInv, Typed, BooksFine, Lives, Nobody

LEMMA RemovedFine ==
  ASSUME IInv, NEW t \in Tasks, RemoveDir(t)
  PROVE  StoreFine'
BY StepTyped DEF IInv, Typed, Next, Command

LEMMA DeleteRemoves ==
  ASSUME IInv, NEW t \in Tasks, RemoveDir(t)
  PROVE  DeletesLeaveOne' /\ MakersAreAlone' /\ Tenancy' /\ (SomeInstance => SomeInstance' \/ twice)
<1>1. PICK id \in Ids : id = tasks[t].id
  BY DEF IInv, Typed, TasksFine, TaskFine, TaskRec
<1>2. /\ Removing(t) /\ UNCHANGED <<rows, mixed, twice>>
      /\ alive' = {a \in alive : a[2] # id}
      /\ ghosts' = ghosts \cup {<<life, id>> : life \in (Held(id) \cup {store'[id].manifest.life}) \ {Nobody}}
      /\ \A i \in Ids \ {id} : store'[i].manifest = store[i].manifest
  <2>1. \A i \in Ids \ {id} : store'[i].manifest = store[i].manifest
    <3>1. CASE store' = [store EXCEPT ![id] = NoDir]
      BY <3>1 DEF IInv, Typed, StoreFine
    <3>2. ASSUME NEW man, NEW files, store' = [store EXCEPT ![id].manifest = man, ![id].workspace = files]
          PROVE  \A i \in Ids \ {id} : store'[i].manifest = store[i].manifest
      BY <3>2 DEF IInv, Typed, StoreFine
    <3>3. QED
      BY <1>1, <3>1, <3>2 DEF RemoveDir
  <2>2. QED
    BY <1>1, <2>1 DEF RemoveDir, Removing
<1>3. Steady /\ TaskHands /\ RowHands
  BY <1>2, GoSteady, EndSteady, TaskHandsGo, TaskHandsEnd, RowHandsStay DEF RemoveDir, IInv, Typed
<1>4. ~Removing(t)' /\ \A u \in Tasks : u # t => tasks'[u] = tasks[u]
  BY TasksTyped DEF RemoveDir, Removing, Task, Go, EndTask, Idle, IInv, Typed, TaskRec
<1>5. MakersAreAlone' /\ OneTenant'
  BY <1>2, <1>3, MakersKept DEF IInv, Tenancy, OneTenant
<1>6. ASSUME NEW L, NEW i, i # id, Genuine(L, i)
      PROVE  <<L, i>> \in alive' \cup ghosts'
  BY <1>2, <1>6 DEF Genuine
<1>7. HeldIsGenuine'
  <2>1. ASSUME NEW u \in Tasks, tasks'[u].op = "rename"
        PROVE  <<tasks'[u].man.life, tasks'[u].id>> \in alive' \cup ghosts'
    <3>1. u # t /\ tasks'[u] = tasks[u] /\ tasks[u].op = "rename" /\ tasks[u].man \in Manifest \cup {Bare}
      <4>1. tasks'[t].op # "rename"
        BY <1>2, TasksTyped DEF RemoveDir, Removing, Task, Go, EndTask, Idle, IInv, Typed, TaskRec
      <4>2. QED
        BY <1>4, <2>1, <4>1, TasksTyped DEF IInv, Typed, TaskRec
    <3>2. CASE tasks[u].id # id
      BY <1>6, <3>1, <3>2 DEF IInv, Tenancy, HeldIsGenuine
    <3>3. CASE tasks[u].id = id
      <4>1. tasks[u].man.life \in Held(id)
        BY <3>1, <3>3 DEF Held, InTask
      <4>2. tasks[u].man.life # Nobody
        BY <3>1, GenuineLives DEF IInv, Tenancy, HeldIsGenuine
      <4>3. QED
        BY <1>2, <3>1, <3>3, <4>1, <4>2
    <3>4. QED
      BY <3>2, <3>3
  <2>2. ASSUME NEW r \in DOMAIN rows, rows[r].status \in {"truncate", "write"}
        PROVE  <<rows[r].man.life, rows[r].id>> \in alive' \cup ghosts'
    <3>1. CASE rows[r].id # id
      BY <1>2, <1>6, <2>2, <3>1 DEF IInv, Tenancy, HeldIsGenuine
    <3>2. CASE rows[r].id = id
      <4>1. rows[r].man.life \in Held(id)
        BY <2>2, <3>2 DEF Held, InRow
      <4>2. rows[r].man.life # Nobody
        BY <2>2, GenuineLives DEF IInv, Tenancy, HeldIsGenuine
      <4>3. QED
        BY <1>2, <3>2, <4>1, <4>2
    <3>3. QED
      BY <3>1, <3>2
  <2>3. QED
    BY <1>2, <2>1, <2>2 DEF HeldIsGenuine, Genuine
<1>8. InstanceStays'
  <2>1. ASSUME NEW a \in alive', a[2] \notin mixed'
        PROVE  /\ HasManifest(a[2])'
               /\ store'[a[2]].manifest.life = a[1] \/ <<store'[a[2]].manifest.life, a[2]>> \in ghosts'
    <3>1. /\ a \in alive /\ a[2] \in Ids \ {id} /\ HasManifest(a[2])
          /\ store[a[2]].manifest.life = a[1] \/ <<store[a[2]].manifest.life, a[2]>> \in ghosts
      BY <1>2, <2>1 DEF IInv, Typed, BooksFine, Tenancy, InstanceStays
    <3>2. QED
      BY <1>2, <3>1 DEF HasManifest
  <2>2. ASSUME NEW i \in Ids, Readable(i)'
        PROVE  <<store'[i].manifest.life, i>> \in alive' \cup ghosts'
    <3>1. CASE i # id
      <4>1. store'[i].manifest = store[i].manifest /\ Readable(i)
        BY <1>2, <2>2, <3>1 DEF Readable, HasManifest
      <4>2. Genuine(store[i].manifest.life, i)
        BY <4>1 DEF IInv, Tenancy, InstanceStays
      <4>3. QED
        BY <1>6, <3>1, <4>1, <4>2
    <3>2. CASE i = id
      <4>1. store'[id].manifest.life # Nobody
        <5>1. store'[id].manifest \in Manifest
          BY <2>2, <3>2, RemovedFine DEF Readable, HasManifest, StoreFine, Dir
        <5>2. QED
          BY <5>1, StoreAssumption DEF Manifest, Lives, Nobody
      <4>2. QED
        BY <1>2, <3>2, <4>1
    <3>3. QED
      BY <3>1, <3>2
  <2>3. QED
    BY <2>1, <2>2 DEF InstanceStays, Genuine
<1>9. \/ twice
      \/ /\ \A u \in Tasks : Removing(u) => u = t
         /\ \E other \in Ids : other # id /\ HasManifest(other)
  BY <1>1, <1>2 DEF IInv, DeletesLeaveOne
<1>10. DeletesLeaveOne'
  BY <1>2, <1>4, <1>9 DEF DeletesLeaveOne, Removing, Task, HasManifest
<1>11. SomeInstance => SomeInstance' \/ twice
  BY <1>2, <1>9 DEF SomeInstance, HasManifest
<1>12. QED
  BY <1>5, <1>7, <1>8, <1>10, <1>11 DEF Tenancy

-----------------------------------------------------------------------------
LEMMA InitKept == Init => IInv
<1>1. Init => DeletesLeaveOne /\ MakersAreAlone /\ OneTenant /\ HeldIsGenuine
  BY DEF Init, DeletesLeaveOne, Removing, Task, MakersAreAlone, Creators, OneTenant, HeldIsGenuine, Idle
<1>2. Init => InstanceStays
  BY DEF Init, InstanceStays, Readable, HasManifest, NoDir
<1>3. QED
  BY <1>1, <1>2, InitTyped DEF IInv, Tenancy

LEMMA CommandKept ==
  ASSUME IInv, NEW t \in Tasks, Command(t)
  PROVE  DeletesLeaveOne' /\ MakersAreAlone' /\ Tenancy' /\ (SomeInstance => SomeInstance' \/ twice)
<1> USE DEF history
<1>0. /\ TaskFine(tasks[t]) /\ tasks[t] \in TaskRec /\ tasks[t].id \in Ids /\ TasksFine /\ StoreFine
  BY DEF IInv, Typed, TasksFine, TaskFine, TaskRec
<1>1. CASE create_instance(t)
  BY <1>1, StoreAssumption, PickKeeps DEF create_instance, Creators, Ids
<1>2. CASE enqueue_environment_import(t)
  BY <1>2, StoreAssumption, PickKeeps DEF enqueue_environment_import, Creators, Ids
<1>3. ASSUME NEW id \in Ids, clone_instance(t, id)
      PROVE  DeletesLeaveOne' /\ MakersAreAlone' /\ Tenancy' /\ (SomeInstance => SomeInstance')
  <2>1. store[id].manifest.skills \in SUBSET Skills
    BY <1>0, <1>3 DEF clone_instance, Readable, HasManifest, StoreFine, Dir, Manifest
  <2>2. QED
    BY <1>3, <2>1, PickKeeps DEF clone_instance, Creators
<1>4. CASE MakeWorkspace(t)
  BY <1>0, <1>4, GoSteady, FilesOnly, TaskHandsGo, RowHandsStay, AllKept DEF MakeWorkspace
<1>5. CASE copy_dir_recursive(t)
  <2>1. PICK copied \in SUBSET store[tasks[t].src].workspace : PutFiles(tasks[t].id, copied) /\ (Go(t, "truncate") \/ EndTask(t))
    BY <1>5 DEF copy_dir_recursive
  <2>2. Steady /\ SameManifests /\ TaskHands /\ RowHands
    BY <1>0, <1>5, <2>1, GoSteady, EndSteady, FilesOnly, TaskHandsGo, TaskHandsEnd, RowHandsStay DEF copy_dir_recursive
  <2>3. QED
    BY <1>5, <2>2, AllKept DEF copy_dir_recursive
<1>6. ASSUME NEW id \in Ids, rename_instance(t, id)
      PROVE  DeletesLeaveOne' /\ MakersAreAlone' /\ Tenancy' /\ (SomeInstance => SomeInstance')
  <2>1. Steady /\ SameManifests
    BY <1>0, <1>6, TasksTyped DEF rename_instance, Steady, Making, Removing, Task, Creators, SameManifests
  <2>2. TaskHands /\ RowHands
    BY <1>0, <1>6, TasksTyped DEF rename_instance, TaskHands, RowHands
  <2>3. QED
    BY <1>6, <2>1, <2>2, AllKept DEF rename_instance
<1>7. CASE BeginSave(t)
  <2>1. Steady /\ TaskHands /\ RowHands
    BY <1>0, <1>7, GoSteady, TaskHandsGo, RowHandsStay DEF BeginSave
  <2>2. CASE tasks[t].op \in Creators
    BY <1>7, <2>1, <2>2, MakerSaves DEF BeginSave, Making
  <2>3. CASE tasks[t].op = "rename"
    <3>1. Genuine(tasks[t].man.life, tasks[t].id) /\ tasks[t].man \in Manifest
      BY <1>0, <1>7, <2>3 DEF BeginSave, TaskFine, IInv, Tenancy, HeldIsGenuine
    <3>2. QED
      BY <1>0, <1>7, <2>1, <3>1, SaveKeeps DEF BeginSave
  <2>4. QED
    BY <1>0, <1>7, <2>2, <2>3 DEF BeginSave, TaskFine
<1>8. CASE EndSave(t)
  <2>0. TaskHands /\ RowHands
    BY <1>0, <1>8, TaskHandsGo, TaskHandsEnd, RowHandsStay DEF EndSave
  <2>1. Steady /\ ~Making(t)'
    BY <1>0, <1>8, GoSteady, EndSteady, TasksTyped DEF EndSave, Making, Go, EndTask, Idle, Creators, TaskRec
  <2>2. CASE tasks[t].op \in Creators
    BY <1>8, <2>0, <2>1, <2>2, MakerSaves DEF EndSave, Making
  <2>3. CASE tasks[t].op = "rename"
    <3>1. Genuine(tasks[t].man.life, tasks[t].id) /\ tasks[t].man \in Manifest
      BY <1>0, <1>8, <2>3 DEF EndSave, TaskFine, IInv, Tenancy, HeldIsGenuine
    <3>2. QED
      BY <1>0, <1>8, <2>0, <2>1, <2>3, <3>1, SaveKeeps DEF EndSave
  <2>4. QED
    BY <1>0, <1>8, <2>2, <2>3 DEF EndSave, TaskFine
<1>9. CASE EnqueueImport(t)
  <2>1. rows \in Seq(Row)
    BY DEF IInv, Typed, RowsFine
  <2>2. RowHands
    <3> DEFINE row == [id |-> tasks[t].id, life |-> tasks[t].man.life, items |-> package, todo |-> {},
                       failed |-> FALSE, status |-> "queued", skill |-> "-", man |-> Bare]
    <3>1. row.status = "queued"
      OBVIOUS
    <3> HIDE DEF row
    <3>2. CASE rows' = Append(rows, row)
      <4>1. \A r \in DOMAIN rows' : (r \in DOMAIN rows /\ rows'[r] = rows[r]) \/ rows'[r] = row
        BY <2>1, <3>2
      <4>2. QED
        BY <3>1, <4>1 DEF RowHands
    <3>3. CASE UNCHANGED rows
      BY <3>3, RowHandsStay
    <3>4. QED
      BY <1>9, <3>2, <3>3 DEF EnqueueImport, row
  <2>3. QED
    BY <1>0, <1>9, <2>2, EndSteady, TaskHandsEnd, AllKept DEF EnqueueImport, SameManifests
<1>10. ASSUME NEW id \in Ids, delete_instance(t, id)
       PROVE  DeletesLeaveOne' /\ MakersAreAlone' /\ Tenancy' /\ (SomeInstance => SomeInstance')
  BY <1>10, DeleteBegins
<1>11. CASE RemoveDir(t)
  BY <1>11, DeleteRemoves
<1>12. CASE MoveMarker(t)
  BY <1>0, <1>12, EndSteady, TaskHandsEnd, RowHandsStay, AllKept DEF MoveMarker, SameManifests
<1>13. QED
  BY <1>1, <1>2, <1>3, <1>4, <1>5, <1>6, <1>7, <1>8, <1>9, <1>10, <1>11, <1>12 DEF Command

LEMMA StepKept ==
  ASSUME IInv, [Next]_vars
  PROVE  IInv' /\ (SomeInstance => SomeInstance' \/ twice)
<1> USE DEF history
<1> DEFINE Good == DeletesLeaveOne' /\ MakersAreAlone' /\ Tenancy' /\ (SomeInstance => SomeInstance' \/ twice)
<1>1. ASSUME NEW t \in Tasks, Command(t)
      PROVE  Good
  BY <1>1, CommandKept
<1>2. ASSUME NEW r \in DOMAIN rows, Import(r)
      PROVE  Good
  <2>0. rows[r].id \in Ids /\ RowFine(rows[r]) /\ StoreFine
    BY RowsTyped DEF Row, IInv, Typed
  <2>1. CASE SaveRecord(r)
    <3>1. rows[r].man \in Manifest
      BY <2>0, <2>1 DEF SaveRecord, RowStep, RowFine
    <3>2. Genuine(rows[r].man.life, rows[r].id)
      BY <2>1 DEF SaveRecord, RowStep, IInv, Tenancy, HeldIsGenuine
    <3>3. RowHands
      <4>1. CASE RowStep(r, "truncate") /\ SetRow(r, "write")
        <5>1. rows'[r] = [rows[r] EXCEPT !.status = "write"] /\ DOMAIN rows' = DOMAIN rows
          BY <4>1 DEF SetRow
        <5>2. rows'[r].man = rows[r].man /\ rows'[r].id = rows[r].id
          BY <2>0, <5>1
        <5>3. QED
          BY <4>1, <5>1, <5>2 DEF SetRow, RowStep, RowHands
      <4>2. CASE rows' = [rows EXCEPT ![r].status = "item", ![r].man = Bare, ![r].skill = "-"]
        <5>1. rows'[r].status = "item" /\ DOMAIN rows' = DOMAIN rows
          BY <2>0, <4>2 DEF RowFine, Row
        <5>2. QED
          BY <4>2, <5>1 DEF RowHands
      <4>3. QED
        BY <2>1, <4>1, <4>2 DEF SaveRecord
    <3>4. QED
      BY <2>0, <2>1, <3>1, <3>2, <3>3, StaySteady, TaskHandsStay, SaveKeeps DEF SaveRecord
  <2>2. ASSUME NEW item \in Items, install_bundle_item(r, item)
        PROVE  Good
    <3>1. RowHands
      <4>1. rows'[r].status # "truncate" /\ rows'[r].status # "write" /\ DOMAIN rows' = DOMAIN rows
        BY <2>0, <2>2 DEF install_bundle_item, RowStep, RowFine, Row
      <4>2. QED
        BY <2>2, <4>1 DEF install_bundle_item, RowHands
    <3>2. QED
      BY <2>0, <2>2, <3>1, StaySteady, TaskHandsStay, FilesOnly, AllKept DEF install_bundle_item, SameManifests
  <2>3. CASE environment_import_job(r) \/ add_skill(r) \/ FinishImport(r) \/ jobs_retry(r)
    <3>1. UNCHANGED <<store, tasks, twice, mixed, alive, ghosts>>
      BY <2>3 DEF environment_import_job, add_skill, FinishImport, jobs_retry
    <3>2. RowHands
      <4>1. CASE add_skill(r)
        <5>1. CASE Readable(rows[r].id)
          <6> DEFINE man == [store[rows[r].id].manifest EXCEPT !.skills = @ \cup {rows[r].skill}]
          <6>1. rows' = [rows EXCEPT ![r] = [rows[r] EXCEPT !.man = man, !.status = "truncate"]]
            BY <4>1, <5>1 DEF add_skill
          <6>2. man.life = store[rows[r].id].manifest.life
            BY <2>0, <5>1 DEF Readable, HasManifest, StoreFine, Dir, Manifest
          <6> HIDE DEF man
          <6>3. rows'[r].man = man /\ rows'[r].id = rows[r].id /\ DOMAIN rows' = DOMAIN rows
            BY <2>0, <6>1 DEF RowFine, Row
          <6>4. QED
            BY <2>0, <5>1, <6>1, <6>2, <6>3 DEF RowHands
        <5>2. CASE ~Readable(rows[r].id)
          <6>1. rows' = [rows EXCEPT ![r] = [rows[r] EXCEPT !.failed = TRUE, !.status = "item"]]
            BY <4>1, <5>2 DEF add_skill
          <6>2. rows'[r].status = "item" /\ DOMAIN rows' = DOMAIN rows
            BY <2>0, <6>1 DEF RowFine, Row
          <6>3. QED
            BY <6>1, <6>2 DEF RowHands
        <5>3. QED
          BY <5>1, <5>2
      <4>2. CASE environment_import_job(r) \/ FinishImport(r) \/ jobs_retry(r)
        <5>1. /\ rows'[r].status \in {"failed", "item", "done", "queued"} /\ DOMAIN rows' = DOMAIN rows
              /\ \A q \in DOMAIN rows \ {r} : rows'[q] = rows[q]
          <6>1. CASE environment_import_job(r)
            BY <2>0, <6>1 DEF environment_import_job, SetRow, RowFine, Row
          <6>2. CASE FinishImport(r)
            <7>1. PICK status \in {"done", "failed"} : rows' = [rows EXCEPT ![r] = Over(rows[r], status)]
              BY <6>2 DEF FinishImport, Conclude
            <7>2. Over(rows[r], status).status = status
              BY <2>0 DEF Over, RowFine, Row
            <7>3. QED
              BY <7>1, <7>2
          <6>3. CASE jobs_retry(r)
            BY <2>0, <6>3 DEF jobs_retry, SetRow, RowFine, Row
          <6>4. QED
            BY <4>2, <6>1, <6>2, <6>3
        <5>2. QED
          BY <5>1 DEF RowHands
      <4>3. QED
        BY <2>3, <4>1, <4>2
    <3>3. QED
      BY <3>1, <3>2, StaySteady, TaskHandsStay, AllKept DEF SameManifests
  <2>4. QED
    BY <1>2, <2>1, <2>2, <2>3 DEF Import
<1>3. ASSUME NEW id \in Ids, switch_instance(id) \/ environment_export(id)
      PROVE  Good
  BY <1>3, StaySteady, TaskHandsStay, RowHandsStay, AllKept DEF switch_instance, environment_export, SameManifests
<1>4. ASSUME Crash
      PROVE  Good
  <2>1. Steady /\ SameManifests
    BY <1>4 DEF Crash, Steady, Idle, Creators, SameManifests
  <2>2. UNCHANGED <<twice, mixed, alive, ghosts>>
    BY <1>4 DEF Crash
  <2>3. TaskHands
    BY <1>4 DEF Crash, TaskHands, Idle
  <2>4. RowHands
    <3>1. \A r \in DOMAIN rows : Over(rows[r], "failed").status = "failed"
      BY RowsTyped DEF Over, Row, IInv, Typed
    <3>2. QED
      BY <1>4, <3>1 DEF Crash, RowHands
  <2>5. QED
    BY <2>1, <2>2, <2>3, <2>4, AllKept
<1>5. ASSUME UNCHANGED vars
      PROVE  Good
  <2>1. UNCHANGED <<store, tasks, rows, twice, mixed, alive, ghosts>>
    BY <1>5 DEF vars
  <2>2. QED
    BY <2>1, StaySteady, TaskHandsStay, RowHandsStay, AllKept DEF SameManifests
<1>6. Good
  BY <1>1, <1>2, <1>3, <1>4, <1>5 DEF Next
<1>7. QED
  BY <1>6, StepTyped DEF IInv

LEMMA Kept == Spec => []IInv
BY InitKept, StepKept, PTL DEF Spec

-----------------------------------------------------------------------------
(* An import that is done.  A directory is sound for an instance that      *)
(* lives in it alone, and that no rename has made older.                   *)
Sound(L, id) == <<L, id>> \in alive /\ id \notin mixed \cup stale

(* Lives are counted up, and no import was made for one that is still in   *)
(* the hands of its maker.                                                 *)
Numbered ==
  /\ \A t \in Tasks : tasks[t].op \in Creators => tasks[t].man.life <= lives
  /\ \A r \in DOMAIN rows : rows[r].life <= lives
MakersAreNew ==
  \A t \in Tasks : tasks[t].op \in Creators =>
     /\ \A r \in DOMAIN rows : rows[r].life # tasks[t].man.life
     /\ \A u \in Tasks \ {t} : tasks[u].op \in Creators => tasks[u].man.life # tasks[t].man.life

(* One import at a time works on an instance.                              *)
GateHeld == \A q, r \in DOMAIN rows : Active(q) /\ Active(r) /\ rows[q].id = rows[r].id => q = r

(* What an import has put in the workspace, and what it has recorded: all  *)
(* of its skills but the one in its hands.                                 *)
ActiveStatus == {"item", "read", "truncate", "write"}
Put(row) ==
  IF row.status = "done" THEN row.items
  ELSE IF row.status \in ActiveStatus /\ ~row.failed THEN row.items \ row.todo ELSE {}
InHand(row) == IF row.status \in {"read", "truncate", "write"} THEN {row.skill} ELSE {}
Recorded(row) == (Put(row) \ InHand(row)) \cap Skills

RowGood(row) ==
  Sound(row.life, row.id) =>
     Put(row) \subseteq store[row.id].workspace /\ Recorded(row) \subseteq store[row.id].manifest.skills
RowsGood == \A r \in DOMAIN rows : RowGood(rows[r])

(* The manifest an import has in its hands lists its own skill, and what   *)
(* any import has recorded there.                                          *)
HandGood(r) ==
  rows[r].status \in {"truncate", "write"} =>
     /\ rows[r].skill \in rows[r].man.skills
     /\ \A q \in DOMAIN rows : rows[q].id = rows[r].id /\ Sound(rows[q].life, rows[q].id)
                                  => Recorded(rows[q]) \subseteq rows[r].man.skills
HandsGood == \A r \in DOMAIN rows : HandGood(r)

Books == Numbered /\ MakersAreNew /\ GateHeld /\ RowsGood /\ HandsGood

LEMMA TypesOf ==
  ASSUME Typed
  PROVE  /\ lives \in Nat
         /\ \A t \in Tasks : tasks[t] \in TaskRec /\ tasks[t].id \in Ids /\ tasks[t].man.life \in Nat
         /\ \A r \in DOMAIN rows : rows[r] \in Row /\ rows[r].life \in Nat /\ rows[r].id \in Ids
         /\ \A a \in alive : a[1] \in Nat /\ a[2] \in Ids /\ a = <<a[1], a[2]>>
<1> USE StoreAssumption DEF Lives
<1>1. \A t \in Tasks : tasks[t] \in TaskRec /\ tasks[t].id \in Ids /\ tasks[t].man \in Manifest \cup {Bare}
  BY DEF Typed, TasksFine, TaskFine, TaskRec
<1>2. \A r \in DOMAIN rows : rows[r] \in Row /\ rows[r].life \in Nat /\ rows[r].id \in Ids
  BY RowsTyped DEF Typed, Row
<1>3. \A m \in Manifest \cup {Bare} : m.life \in Nat
  BY DEF Manifest, Bare
<1>4. lives \in Nat /\ \A a \in alive : a[1] \in Nat /\ a[2] \in Ids /\ a = <<a[1], a[2]>>
  BY DEF Typed, BooksFine
<1>5. QED
  BY <1>1, <1>2, <1>3, <1>4

(* What a step leaves of the makers: each keeps what it holds, or is none. *)
Calm ==
  \A u \in Tasks : tasks'[u].op \in Creators => tasks[u].op \in Creators /\ tasks'[u].man = tasks[u].man

LEMMA CalmGo ==
  ASSUME TasksFine, NEW t \in Tasks, NEW s, Go(t, s)
  PROVE  Calm
BY TasksTyped DEF Go, Calm, TaskRec

LEMMA CalmEnd ==
  ASSUME TasksFine, NEW t \in Tasks, EndTask(t)
  PROVE  Calm
BY TasksTyped DEF EndTask, Calm, Idle, Creators

LEMMA CalmBegin ==
  ASSUME TasksFine, NEW t \in Tasks, NEW task, task.op \notin Creators, tasks' = [tasks EXCEPT ![t] = task]
  PROVE  Calm
BY TasksTyped DEF Calm

LEMMA CalmStay ==
  ASSUME UNCHANGED tasks
  PROVE  Calm
BY DEF Calm

LEMMA LivesStay ==
  ASSUME Numbered, MakersAreNew, Calm, lives' = lives,
         \A r \in DOMAIN rows' : r \in DOMAIN rows /\ rows'[r].life = rows[r].life
  PROVE  Numbered' /\ MakersAreNew'
BY DEF Numbered, MakersAreNew, Calm

(* Steps that leave the rows alone, and take nothing from an instance that *)
(* an import was made for.                                                 *)
LEMMA RowsStay ==
  ASSUME IInv, Books, Numbered', MakersAreNew', UNCHANGED rows,
         \A r \in DOMAIN rows : Sound(rows[r].life, rows[r].id)' =>
            /\ Sound(rows[r].life, rows[r].id)
            /\ store[rows[r].id].workspace \subseteq store'[rows[r].id].workspace
            /\ store[rows[r].id].manifest.skills \subseteq store'[rows[r].id].manifest.skills
  PROVE  Books'
<1>1. GateHeld'
  BY DEF Books, GateHeld, Active
<1>2. ASSUME NEW r \in DOMAIN rows
      PROVE  RowGood(rows[r])'
  <2>1. PICK row : row = rows[r] /\ row = rows'[r]
    OBVIOUS
  <2>2. RowGood(row) => RowGood(row)'
    BY <1>2, <2>1 DEF RowGood, Put, Recorded, InHand
  <2>3. QED
    BY <1>2, <2>1, <2>2 DEF Books, RowsGood, RowGood, Put, Recorded, InHand
<1>3. ASSUME NEW r \in DOMAIN rows
      PROVE  HandGood(r)'
  BY <1>3 DEF Books, HandsGood, HandGood, Recorded, Put, InHand
<1>4. QED
  BY <1>1, <1>2, <1>3 DEF Books, RowsGood, HandsGood

LEMMA SoundWas ==
  ASSUME alive' \subseteq alive, mixed \subseteq mixed', stale \subseteq stale'
  PROVE  \A L, id : Sound(L, id)' => Sound(L, id)
BY DEF Sound

(* Commands that leave the manifests alone.                                *)
LEMMA QuietKeeps ==
  ASSUME IInv, Books, Calm, SameManifests, UNCHANGED <<rows, alive, mixed, stale, lives>>,
         \A id \in Ids : store[id].workspace \subseteq store'[id].workspace
  PROVE  Books'
<1>1. \A L, id : Sound(L, id)' => Sound(L, id)
  BY SoundWas
<1>2. \A id \in Ids : store'[id].manifest.skills = store[id].manifest.skills
  BY DEF SameManifests
<1>3. Numbered' /\ MakersAreNew'
  BY LivesStay DEF Books
<1>4. \A r \in DOMAIN rows : rows[r].id \in Ids
  BY TypesOf DEF IInv
<1>5. QED
  BY <1>1, <1>2, <1>3, <1>4, RowsStay

(* One row goes on; the instances and the commands are left alone.         *)
LEMMA RowKeeps ==
  ASSUME IInv, Books, UNCHANGED <<tasks, alive, mixed, stale, lives>>, SameManifests,
         \A id \in Ids : store[id].workspace \subseteq store'[id].workspace,
         NEW r \in DOMAIN rows, NEW row, rows' = [rows EXCEPT ![r] = row],
         row.life = rows[r].life, row.id = rows[r].id,
         row.status \in ActiveStatus => Active(r) \/ GateFree(rows[r].id),
         Sound(row.life, row.id) => Put(row) \subseteq store'[row.id].workspace /\ Recorded(row) \subseteq Recorded(rows[r]),
         row.status \in {"truncate", "write"} =>
            row.skill \in row.man.skills /\ store[row.id].manifest.skills \subseteq row.man.skills
  PROVE  Books'
<1>0. DOMAIN rows' = DOMAIN rows /\ rows'[r] = row /\ \A q \in DOMAIN rows \ {r} : rows'[q] = rows[q]
  OBVIOUS
<1>1. Numbered' /\ MakersAreNew'
  <2>1. \A q \in DOMAIN rows' : q \in DOMAIN rows /\ rows'[q].life = rows[q].life
    BY <1>0
  <2>2. QED
    BY <2>1, CalmStay, LivesStay DEF Books
<1>2. \A L, id : Sound(L, id)' <=> Sound(L, id)
  BY DEF Sound
<1>3. \A id \in Ids : store'[id].manifest.skills = store[id].manifest.skills
  BY DEF SameManifests
<1>4. GateHeld'
  BY <1>0 DEF Books, GateHeld, Active, ActiveStatus, GateFree
<1>5. ASSUME NEW q \in DOMAIN rows, Sound(rows[q].life, rows[q].id)
      PROVE  /\ rows'[q].id = rows[q].id /\ rows[q].id \in Ids /\ Recorded(rows'[q]) \subseteq Recorded(rows[q])
             /\ Put(rows'[q]) \subseteq store'[rows[q].id].workspace
             /\ Recorded(rows[q]) \subseteq store[rows[q].id].manifest.skills
  <2>1. rows[q].id \in Ids /\ RowGood(rows[q])
    BY TypesOf DEF IInv, Books, RowsGood
  <2>2. CASE q = r
    BY <1>0, <1>5, <2>1, <2>2 DEF RowGood
  <2>3. CASE q # r
    BY <1>0, <1>5, <2>1, <2>3 DEF RowGood
  <2>4. QED
    BY <2>2, <2>3
<1>6. ASSUME NEW q \in DOMAIN rows
      PROVE  RowGood(rows[q])'
  <2>1. rows'[q].life = rows[q].life /\ rows'[q].id = rows[q].id
    BY <1>0
  <2>2. PICK new : new = rows'[q]
    OBVIOUS
  <2>3. RowGood(new)'
    BY <1>2, <1>3, <1>5, <2>1, <2>2 DEF RowGood, Put, Recorded, InHand
  <2>4. QED
    BY <2>2, <2>3 DEF RowGood, Put, Recorded, InHand
<1>7. ASSUME NEW q \in DOMAIN rows, rows'[q].status \in {"truncate", "write"}
      PROVE  /\ rows'[q].skill \in rows'[q].man.skills
             /\ \A p \in DOMAIN rows : rows'[p].id = rows'[q].id /\ Sound(rows'[p].life, rows'[p].id)
                                          => Recorded(rows'[p]) \subseteq rows'[q].man.skills
  <2>1. \A p \in DOMAIN rows : rows'[p].life = rows[p].life /\ rows'[p].id = rows[p].id
    BY <1>0
  <2>2. CASE q = r
    BY <1>0, <1>5, <1>7, <2>1, <2>2
  <2>3. CASE q # r
    BY <1>0, <1>5, <1>7, <2>1, <2>3 DEF Books, HandsGood, HandGood
  <2>4. QED
    BY <2>2, <2>3
<1>8. HandsGood'
  BY <1>0, <1>2, <1>7 DEF HandsGood, HandGood, Recorded, Put, InHand
<1>9. QED
  BY <1>0, <1>1, <1>4, <1>6, <1>8 DEF Books, RowsGood

(* A new instance begins with a life of its own.                           *)
LEMMA PickBooks ==
  ASSUME IInv, Books, NEW t \in Tasks, NEW op \in Creators, NEW src \in Ids, NEW skills \in SUBSET Skills,
         Pick(t, op, src, skills)
  PROVE  Books'
<1>1. PICK id : tasks' = [tasks EXCEPT ![t] = [op |-> op, step |-> IF op = "clone" THEN "copy" ELSE "mkdir",
                                               id |-> id, src |-> src,
                                               man |-> [life |-> lives + 1, skills |-> skills, torn |-> FALSE]]]
  BY DEF Pick
<1>2. UNCHANGED <<store, rows, alive, stale>> /\ lives' = lives + 1 /\ mixed \subseteq mixed'
  BY DEF Pick
<1>3. /\ tasks'[t].op = op /\ tasks'[t].man.life = lives + 1
      /\ \A u \in Tasks \ {t} : tasks'[u] = tasks[u]
  BY <1>1, TasksTyped DEF IInv, Typed
<1>4. Numbered'
  BY <1>2, <1>3, TypesOf DEF IInv, Books, Numbered
<1>5. ASSUME NEW u \in Tasks, tasks'[u].op \in Creators
      PROVE  /\ \A r \in DOMAIN rows : rows[r].life # tasks'[u].man.life
             /\ \A w \in Tasks \ {u} : tasks'[w].op \in Creators => tasks'[w].man.life # tasks'[u].man.life
  <2>1. CASE u = t
    BY <1>3, <1>5, <2>1, TypesOf DEF IInv, Books, Numbered
  <2>2. CASE u # t
    BY <1>3, <1>5, <2>2, TypesOf DEF IInv, Books, Numbered, MakersAreNew
  <2>3. QED
    BY <2>1, <2>2
<1>6. MakersAreNew'
  BY <1>2, <1>5 DEF MakersAreNew
<1>7. \A L, i : Sound(L, i)' => Sound(L, i)
  BY <1>2, SoundWas
<1>8. QED
  BY <1>2, <1>4, <1>6, <1>7, RowsStay

(* A maker's save: nothing that an import was made for is there.           *)
LEMMA MakerBooks ==
  ASSUME IInv, Books, NEW t \in Tasks, Making(t), Calm, BeginSave(t) \/ EndSave(t)
  PROVE  Books'
<1>1. PICK id \in Ids, man \in Manifest : id = tasks[t].id /\ man = tasks[t].man /\ tasks[t].op \in Creators
  BY DEF Making, IInv, Typed, TasksFine, TaskFine, TaskRec
<1>2. PICK L : L = man.life
  OBVIOUS
<1>3. \A i \in Ids \ {id} : store'[i] = store[i]
  <2>1. Truncate(id, man) \/ Fill(id, man)
    BY <1>1 DEF BeginSave, EndSave
  <2>2. QED
    BY <2>1, SavedIs DEF IInv, Typed
<1>4. /\ mixed' = mixed /\ stale \subseteq stale' /\ UNCHANGED <<rows, lives>>
      /\ alive' \subseteq alive \cup {<<L, id>>}
  BY <1>1, <1>2 DEF BeginSave, EndSave, Creators
<1>5. Numbered' /\ MakersAreNew'
  BY <1>4, LivesStay DEF Books
<1>6. ASSUME NEW r \in DOMAIN rows, Sound(rows[r].life, rows[r].id)'
      PROVE  Sound(rows[r].life, rows[r].id) /\ rows[r].id \in Ids \ {id}
  <2>1. rows[r].life # L /\ rows[r].id \in Ids
    BY <1>1, <1>2, TypesOf DEF IInv, Books, MakersAreNew
  <2>2. Sound(rows[r].life, rows[r].id)
    BY <1>4, <1>6, <2>1 DEF Sound
  <2>3. rows[r].id # id
    BY <1>1, <2>2 DEF IInv, MakersAreAlone, Sound
  <2>4. QED
    BY <2>1, <2>2, <2>3
<1>7. QED
  BY <1>3, <1>4, <1>5, <1>6, RowsStay

(* A rename's save takes nothing from a manifest that it does not make     *)
(* older.                                                                  *)
LEMMA RenamerBooks ==
  ASSUME IInv, Books, NEW t \in Tasks, tasks[t].op = "rename", Calm, BeginSave(t) \/ EndSave(t)
  PROVE  Books'
<1>1. PICK id \in Ids, man \in Manifest : id = tasks[t].id /\ man = tasks[t].man
  BY DEF BeginSave, EndSave, IInv, Typed, TasksFine, TaskFine, TaskRec
<1>2. /\ store'[id].manifest.skills = man.skills
      /\ \A i \in Ids : store'[i].workspace = store[i].workspace
      /\ \A i \in Ids \ {id} : store'[i] = store[i]
  <2>1. Truncate(id, man) \/ Fill(id, man)
    BY <1>1 DEF BeginSave, EndSave
  <2>2. QED
    BY <2>1, SavedIs DEF IInv, Typed
<1>3. /\ UNCHANGED <<rows, lives, alive, mixed>> /\ stale \subseteq stale'
      /\ id \notin stale' => store[id].manifest.skills \subseteq man.skills
  BY <1>1 DEF BeginSave, EndSave, Older
<1>4. Numbered' /\ MakersAreNew'
  BY <1>3, LivesStay DEF Books
<1>5. ASSUME NEW r \in DOMAIN rows, Sound(rows[r].life, rows[r].id)'
      PROVE  /\ Sound(rows[r].life, rows[r].id)
             /\ store[rows[r].id].workspace \subseteq store'[rows[r].id].workspace
             /\ store[rows[r].id].manifest.skills \subseteq store'[rows[r].id].manifest.skills
  <2>1. Sound(rows[r].life, rows[r].id) /\ rows[r].id \in Ids /\ rows[r].id \notin stale'
    BY <1>3, <1>5, SoundWas, TypesOf DEF IInv, Sound
  <2>2. QED
    BY <1>2, <1>3, <2>1
<1>6. QED
  BY <1>3, <1>4, <1>5, RowsStay

(* The row of an import: nobody works on it yet.                           *)
LEMMA EnqueueBooks ==
  ASSUME IInv, Books, NEW t \in Tasks, EnqueueImport(t)
  PROVE  Books'
<1> DEFINE row == [id |-> tasks[t].id, life |-> tasks[t].man.life, items |-> package, todo |-> {},
                   failed |-> FALSE, status |-> "queued", skill |-> "-", man |-> Bare]
<1>1. /\ Calm /\ UNCHANGED <<store, lives, alive, mixed, stale>> /\ EndTask(t)
      /\ tasks[t].op \in Creators /\ tasks'[t].op \notin Creators
  BY CalmEnd, TasksTyped DEF EnqueueImport, history, IInv, Typed, EndTask, Idle, TasksFine, TaskFine, Creators
<1>2. SameManifests /\ \A id \in Ids : store[id].workspace \subseteq store'[id].workspace
  BY <1>1 DEF SameManifests
<1>3. CASE UNCHANGED rows
  BY <1>1, <1>2, <1>3, QuietKeeps
<1>4. CASE rows' = Append(rows, row)
  <2>1. row.life = tasks[t].man.life /\ row.status = "queued"
    OBVIOUS
  <2>2. /\ DOMAIN rows \subseteq DOMAIN rows' /\ \A r \in DOMAIN rows : rows'[r] = rows[r]
        /\ \A r \in DOMAIN rows' : r \in DOMAIN rows \/ rows'[r] = row
    <3> HIDE DEF row
    <3>1. rows \in Seq(Row)
      BY DEF IInv, Typed, RowsFine
    <3>2. QED
      BY <1>4, <3>1
  <2> HIDE DEF row
  <2>3. Numbered'
    BY <1>1, <2>1, <2>2 DEF Calm, Books, Numbered
  <2>4. MakersAreNew'
    <3>1. ASSUME NEW u \in Tasks, tasks'[u].op \in Creators
          PROVE  u # t /\ tasks[u].op \in Creators /\ tasks'[u].man = tasks[u].man /\ row.life # tasks[u].man.life
      BY <1>1, <2>1, <3>1 DEF Calm, Books, MakersAreNew
    <3>2. QED
      BY <2>2, <3>1 DEF Books, MakersAreNew
  <2>5. GateHeld'
    BY <2>1, <2>2 DEF Books, GateHeld, Active
  <2>6. Put(row) = {} /\ Recorded(row) = {}
    BY <2>1 DEF Put, Recorded, ActiveStatus
  <2>7. RowsGood'
    BY <1>1, <2>2, <2>6 DEF Books, RowsGood, RowGood, Sound, Put, Recorded, InHand
  <2>8. HandsGood'
    <3>1. ASSUME NEW q \in DOMAIN rows', rows'[q].status \in {"truncate", "write"}
          PROVE  /\ rows'[q].skill \in rows'[q].man.skills
                 /\ \A p \in DOMAIN rows' : rows'[p].id = rows'[q].id /\ Sound(rows'[p].life, rows'[p].id)
                                               => Recorded(rows'[p]) \subseteq rows'[q].man.skills
      BY <2>1, <2>2, <2>6, <3>1 DEF Books, HandsGood, HandGood
    <3>2. \A L, i : Sound(L, i)' <=> Sound(L, i)
      BY <1>1 DEF Sound
    <3>3. QED
      BY <3>1, <3>2 DEF HandsGood, HandGood, Recorded, Put, InHand
  <2>9. QED
    BY <2>3, <2>4, <2>5, <2>7, <2>8 DEF Books
<1>5. QED
  BY <1>3, <1>4 DEF EnqueueImport

(* A removal: whoever lived there is dead.                                 *)
LEMMA RemoveBooks ==
  ASSUME IInv, Books, NEW t \in Tasks, RemoveDir(t)
  PROVE  Books'
<1>1. PICK id \in Ids : id = tasks[t].id
  BY TypesOf DEF IInv
<1>2. UNCHANGED <<rows, lives, mixed, stale>> /\ alive' = {a \in alive : a[2] # id}
  BY <1>1 DEF RemoveDir
<1>3. \A i \in Ids \ {id} : store'[i] = store[i]
  BY <1>1 DEF RemoveDir, IInv, Typed, StoreFine
<1>4. Calm
  BY CalmGo, CalmEnd DEF RemoveDir, IInv, Typed
<1>5. Numbered' /\ MakersAreNew'
  BY <1>2, <1>4, LivesStay DEF Books
<1>6. ASSUME NEW r \in DOMAIN rows, Sound(rows[r].life, rows[r].id)'
      PROVE  Sound(rows[r].life, rows[r].id) /\ rows[r].id \in Ids \ {id}
  <2>1. <<rows[r].life, rows[r].id>> \in alive /\ rows[r].id # id
    BY <1>2, <1>6 DEF Sound
  <2>2. QED
    BY <1>2, <1>6, <2>1, TypesOf DEF IInv, Sound
<1>7. QED
  BY <1>2, <1>3, <1>5, <1>6, RowsStay

(* A record that is saved lists what was recorded, and one skill more.     *)
LEMMA RecordBooks ==
  ASSUME IInv, Books, NEW r \in DOMAIN rows, SaveRecord(r)
  PROVE  Books'
<1>1. PICK id \in Ids, man \in Manifest, row \in Row : id = row.id /\ man = row.man /\ row = rows[r] /\ row.status \in {"truncate", "write"}
  BY RowsTyped, TypesOf DEF SaveRecord, RowStep, IInv, Typed, RowFine
<1> DEFINE begun == [row EXCEPT !.status = "write"]
           ended == [row EXCEPT !.status = "item", !.man = Bare, !.skill = "-"]
<1>2. PICK new \in {begun, ended} : rows' = [rows EXCEPT ![r] = new]
  <2>1. rows' = [rows EXCEPT ![r].status = "write"] \/ rows' = [rows EXCEPT ![r].status = "item", ![r].man = Bare, ![r].skill = "-"]
    BY DEF SaveRecord, SetRow
  <2>2. [rows EXCEPT ![r].status = "write"] = [rows EXCEPT ![r] = begun]
    BY <1>1
  <2>3. [rows EXCEPT ![r].status = "item", ![r].man = Bare, ![r].skill = "-"] = [rows EXCEPT ![r] = ended]
    BY <1>1
  <2>4. QED
    BY <2>1, <2>2, <2>3
<1>3. /\ new.id = id /\ new.life = row.life /\ new.items = row.items /\ new.todo = row.todo /\ new.failed = row.failed
      /\ \/ new.status = "write" /\ new.man = man /\ new.skill = row.skill
         \/ new.status = "item" /\ new.man = Bare
  BY <1>1, <1>2 DEF Row
<1> HIDE DEF begun, ended
<1>4. /\ store'[id].manifest.skills = man.skills
      /\ \A i \in Ids : store'[i].workspace = store[i].workspace
      /\ \A i \in Ids \ {id} : store'[i] = store[i]
  <2>1. Truncate(id, man) \/ Fill(id, man)
    BY <1>1 DEF SaveRecord
  <2>2. QED
    BY <2>1, SavedIs DEF IInv, Typed
<1>5. UNCHANGED <<tasks, lives, alive, mixed, stale>> /\ \A L, i : Sound(L, i)' <=> Sound(L, i)
  BY DEF SaveRecord, history, Sound
<1>6. DOMAIN rows' = DOMAIN rows /\ rows'[r] = new /\ \A q \in DOMAIN rows \ {r} : rows'[q] = rows[q]
  BY <1>2
<1>7. Numbered' /\ MakersAreNew'
  <2>1. \A q \in DOMAIN rows' : q \in DOMAIN rows /\ rows'[q].life = rows[q].life
    BY <1>1, <1>3, <1>6
  <2>2. QED
    BY <1>5, <2>1, CalmStay, LivesStay DEF Books
<1>8. GateHeld'
  BY <1>1, <1>3, <1>6 DEF Books, GateHeld, Active
<1>9. /\ row.skill \in man.skills
      /\ \A q \in DOMAIN rows : rows[q].id = id /\ Sound(rows[q].life, id) => Recorded(rows[q]) \subseteq man.skills
  BY <1>1 DEF Books, HandsGood, HandGood
<1>10. Put(new) = Put(row) /\ Recorded(new) \subseteq Recorded(row) \cup {row.skill}
  <2>1. Put(new) = Put(row)
    BY <1>1, <1>3 DEF Put, ActiveStatus
  <2>2. QED
    BY <1>1, <2>1 DEF Recorded, InHand
<1>11. ASSUME NEW q \in DOMAIN rows, Sound(rows'[q].life, rows'[q].id)
       PROVE  /\ Put(rows'[q]) \subseteq store'[rows'[q].id].workspace
              /\ Recorded(rows'[q]) \subseteq store'[rows'[q].id].manifest.skills
  <2>1. rows[q].id \in Ids /\ RowGood(rows[q])
    BY TypesOf DEF IInv, Books, RowsGood
  <2>2. CASE q = r
    BY <1>1, <1>3, <1>4, <1>6, <1>9, <1>10, <1>11, <2>1, <2>2 DEF RowGood
  <2>3. CASE q # r
    <3>1. rows'[q] = rows[q]
      BY <1>6, <2>3
    <3>2. CASE rows[q].id = id
      BY <1>4, <1>9, <1>11, <2>1, <3>1, <3>2 DEF RowGood
    <3>3. CASE rows[q].id # id
      BY <1>4, <1>11, <2>1, <3>1, <3>3 DEF RowGood
    <3>4. QED
      BY <3>2, <3>3
  <2>4. QED
    BY <2>2, <2>3
<1>12. RowsGood'
  BY <1>5, <1>6, <1>11 DEF RowsGood, RowGood, Put, Recorded, InHand
<1>13. ASSUME NEW q \in DOMAIN rows, rows'[q].status \in {"truncate", "write"}
       PROVE  /\ rows'[q].skill \in rows'[q].man.skills
              /\ \A p \in DOMAIN rows : rows'[p].id = rows'[q].id /\ Sound(rows'[p].life, rows'[p].id)
                                           => Recorded(rows'[p]) \subseteq rows'[q].man.skills
  <2>1. CASE q # r
    <3>1. rows'[q] = rows[q] /\ rows[q].id # id
      BY <1>1, <1>6, <1>13, <2>1 DEF Books, GateHeld, Active
    <3>2. QED
      BY <1>3, <1>6, <1>13, <3>1 DEF Books, HandsGood, HandGood
  <2>2. CASE q = r
    <3>1. rows'[q] = new /\ new.status = "write" /\ new.man = man /\ new.skill = row.skill
      BY <1>3, <1>6, <1>13, <2>2
    <3>2. Recorded(new) = Recorded(row)
      BY <1>1, <1>3, <1>10, <3>1 DEF Recorded, InHand
    <3>3. QED
      BY <1>1, <1>3, <1>6, <1>9, <3>1, <3>2
  <2>3. QED
    BY <2>1, <2>2
<1>14. HandsGood'
  BY <1>5, <1>6, <1>13 DEF HandsGood, HandGood, Recorded, Put, InHand
<1>15. QED
  BY <1>7, <1>8, <1>12, <1>14 DEF Books

LEMMA CommandBooks ==
  ASSUME IInv, Books, NEW t \in Tasks, Command(t)
  PROVE  Books'
<1> USE DEF history
<1>0. /\ TaskFine(tasks[t]) /\ tasks[t] \in TaskRec /\ tasks[t].id \in Ids /\ TasksFine /\ StoreFine
  BY DEF IInv, Typed, TasksFine, TaskFine, TaskRec
<1>1. CASE create_instance(t)
  BY <1>1, StoreAssumption, PickBooks DEF create_instance, Creators, Ids
<1>2. CASE enqueue_environment_import(t)
  BY <1>2, StoreAssumption, PickBooks DEF enqueue_environment_import, Creators, Ids
<1>3. ASSUME NEW id \in Ids, clone_instance(t, id)
      PROVE  Books'
  <2>1. store[id].manifest.skills \in SUBSET Skills
    BY <1>0, <1>3 DEF clone_instance, Readable, HasManifest, StoreFine, Dir, Manifest
  <2>2. QED
    BY <1>3, <2>1, PickBooks DEF clone_instance, Creators
<1>4. CASE MakeWorkspace(t)
  BY <1>0, <1>4, CalmGo, FilesOnly, FilesGrow, QuietKeeps DEF MakeWorkspace
<1>5. CASE copy_dir_recursive(t)
  <2>1. PICK copied \in SUBSET store[tasks[t].src].workspace : PutFiles(tasks[t].id, copied) /\ (Go(t, "truncate") \/ EndTask(t))
    BY <1>5 DEF copy_dir_recursive
  <2>2. Calm /\ SameManifests /\ \A i \in Ids : store[i].workspace \subseteq store'[i].workspace
    BY <1>0, <1>5, <2>1, CalmGo, CalmEnd, FilesOnly, FilesGrow DEF copy_dir_recursive
  <2>3. QED
    BY <1>5, <2>2, QuietKeeps DEF copy_dir_recursive
<1>6. ASSUME NEW id \in Ids, rename_instance(t, id)
      PROVE  Books'
  <2>1. Calm
    BY <1>0, <1>6, TasksTyped DEF rename_instance, Calm, Creators
  <2>2. QED
    BY <1>6, <2>1, QuietKeeps DEF rename_instance, SameManifests
<1>7. CASE BeginSave(t) \/ EndSave(t)
  <2>1. Calm
    BY <1>0, <1>7, CalmGo, CalmEnd DEF BeginSave, EndSave
  <2>2. CASE tasks[t].op \in Creators
    BY <1>7, <2>1, <2>2, MakerBooks DEF BeginSave, EndSave, Making
  <2>3. CASE tasks[t].op = "rename"
    BY <1>7, <2>1, <2>3, RenamerBooks
  <2>4. QED
    BY <1>0, <1>7, <2>2, <2>3 DEF BeginSave, EndSave, TaskFine
<1>8. CASE EnqueueImport(t)
  BY <1>8, EnqueueBooks
<1>9. ASSUME NEW id \in Ids, delete_instance(t, id)
      PROVE  Books'
  <2>1. tasks' = [tasks EXCEPT ![t] = [op |-> "delete", step |-> "remove", id |-> id, src |-> 1, man |-> Bare]]
    BY <1>9 DEF delete_instance
  <2>2. Calm
    BY <1>0, <2>1, TasksTyped DEF Calm, Creators
  <2>3. QED
    BY <1>9, <2>2, QuietKeeps DEF delete_instance, SameManifests
<1>10. CASE RemoveDir(t)
  BY <1>10, RemoveBooks
<1>11. CASE MoveMarker(t)
  BY <1>0, <1>11, CalmEnd, QuietKeeps DEF MoveMarker, SameManifests
<1>12. QED
  BY <1>1, <1>2, <1>3, <1>4, <1>5, <1>6, <1>7, <1>8, <1>9, <1>10, <1>11 DEF Command

LEMMA CrashBooks ==
  ASSUME IInv, Books, Crash
  PROVE  Books'
<1>1. /\ UNCHANGED <<store, lives, alive, mixed, stale>> /\ tasks' = [t \in Tasks |-> Idle]
      /\ rows' = [r \in DOMAIN rows |-> IF Active(r) THEN Over(rows[r], "failed") ELSE rows[r]]
  BY DEF Crash, history
<1>2. /\ DOMAIN rows' = DOMAIN rows
      /\ \A r \in DOMAIN rows : /\ rows'[r].life = rows[r].life /\ rows'[r].id = rows[r].id
                                /\ rows'[r].status = "failed" \/ (~Active(r) /\ rows'[r] = rows[r])
  BY <1>1, TypesOf DEF IInv, Over, Row
<1>3. Calm
  BY <1>1 DEF Calm, Idle, Creators
<1>4. Numbered' /\ MakersAreNew'
  BY <1>1, <1>2, <1>3, LivesStay DEF Books
<1>5. GateHeld' /\ HandsGood'
  BY <1>2 DEF GateHeld, Active, HandsGood, HandGood
<1>6. ASSUME NEW r \in DOMAIN rows
      PROVE  RowGood(rows[r])'
  <2>1. CASE rows'[r].status = "failed"
    BY <2>1 DEF RowGood, Put, Recorded, ActiveStatus
  <2>2. CASE rows'[r] = rows[r]
    BY <1>1, <2>2 DEF Books, RowsGood, RowGood, Sound, Put, Recorded, InHand
  <2>3. QED
    BY <1>2, <2>1, <2>2
<1>7. QED
  BY <1>2, <1>4, <1>5, <1>6 DEF Books, RowsGood

LEMMA ImportBooks ==
  ASSUME IInv, Books, NEW r \in DOMAIN rows, Import(r)
  PROVE  Books'
<1> USE DEF history
<1>1. PICK old \in Row : old = rows[r] /\ old.id \in Ids /\ RowGood(old)
  BY TypesOf DEF IInv, Books, RowsGood
<1>2. StoreFine /\ (UNCHANGED store => SameManifests /\ \A i \in Ids : store[i].workspace \subseteq store'[i].workspace)
  BY DEF IInv, Typed, SameManifests
<1>3. CASE environment_import_job(r)
  <2>1. PICK new : /\ rows' = [rows EXCEPT ![r] = new] /\ new.life = old.life /\ new.id = old.id
                   /\ new.status = "failed" \/ (new.status = "item" /\ new.todo = new.items)
    <3>1. CASE SetRow(r, "failed")
      <4> DEFINE new == [old EXCEPT !.status = "failed"]
      <4>1. rows' = [rows EXCEPT ![r] = new]
        BY <1>1, <3>1 DEF SetRow
      <4>2. new.life = old.life /\ new.id = old.id /\ new.status = "failed"
        BY DEF Row
      <4> HIDE DEF new
      <4>3. QED
        BY <4>1, <4>2
    <3>2. CASE rows' = [rows EXCEPT ![r].status = "item", ![r].todo = rows[r].items, ![r].failed = FALSE]
      <4> DEFINE new == [old EXCEPT !.status = "item", !.todo = old.items, !.failed = FALSE]
      <4>1. rows' = [rows EXCEPT ![r] = new]
        BY <1>1, <3>2
      <4>2. new.life = old.life /\ new.id = old.id /\ new.status = "item" /\ new.todo = new.items
        BY DEF Row
      <4> HIDE DEF new
      <4>3. QED
        BY <4>1, <4>2
    <3>3. QED
      BY <1>3, <3>1, <3>2 DEF environment_import_job
  <2>2. Put(new) = {} /\ Recorded(new) = {}
    BY <2>1 DEF Put, Recorded, ActiveStatus
  <2>3. new.status \notin {"truncate", "write"}
    BY <2>1
  <2>4. UNCHANGED <<store, tasks, alive, mixed, stale, lives>> /\ GateFree(rows[r].id)
    BY <1>3 DEF environment_import_job
  <2>5. QED
    BY <1>1, <1>2, <2>1, <2>2, <2>3, <2>4, RowKeeps
<1>4. ASSUME NEW item \in Items, install_bundle_item(r, item)
      PROVE  Books'
  <2>0. UNCHANGED <<tasks, alive, mixed, stale, lives>> /\ old.status = "item" /\ Active(r)
    BY <1>1, <1>4 DEF install_bundle_item, RowStep, Active
  <2>1. CASE rows' = [rows EXCEPT ![r].todo = @ \ {item}, ![r].failed = TRUE] /\ UNCHANGED store
    <3> DEFINE new == [old EXCEPT !.todo = @ \ {item}, !.failed = TRUE]
    <3>1. rows' = [rows EXCEPT ![r] = new]
      BY <1>1, <2>1
    <3>2. new.life = old.life /\ new.id = old.id /\ new.status = "item" /\ new.failed = TRUE
      BY <2>0 DEF Row
    <3> HIDE DEF new
    <3>3. Put(new) = {} /\ Recorded(new) = {} /\ new.status \notin {"truncate", "write"}
      BY <3>2 DEF Put, Recorded
    <3>4. QED
      BY <1>1, <1>2, <2>0, <2>1, <3>1, <3>2, <3>3, RowKeeps
  <2>2. CASE /\ PutFiles(old.id, {item})
             /\ rows' = [rows EXCEPT ![r].todo = @ \ {item}, ![r].skill = IF item \in Skills THEN item ELSE "-",
                                     ![r].status = IF item \in Skills THEN "read" ELSE "item"]
    <3> DEFINE new == [old EXCEPT !.todo = @ \ {item}, !.skill = IF item \in Skills THEN item ELSE "-",
                                  !.status = IF item \in Skills THEN "read" ELSE "item"]
    <3>1. rows' = [rows EXCEPT ![r] = new]
      BY <1>1, <2>2
    <3>2. /\ new.life = old.life /\ new.id = old.id /\ new.items = old.items /\ new.failed = old.failed
          /\ new.todo = old.todo \ {item} /\ (item \in Skills => new.status = "read" /\ new.skill = item)
          /\ (item \notin Skills => new.status = "item")
      BY DEF Row
    <3> HIDE DEF new
    <3>3. SameManifests /\ (\A i \in Ids : store[i].workspace \subseteq store'[i].workspace) /\ item \in store'[old.id].workspace
      <4>1. item \in store'[old.id].workspace
        BY <1>1, <1>2, <2>2 DEF PutFiles, StoreFine, Dir
      <4>2. QED
        BY <1>1, <1>2, <2>2, <4>1, FilesOnly, FilesGrow
    <3>4. Put(new) \subseteq Put(old) \cup {item}
      BY <2>0, <3>2 DEF Put, ActiveStatus
    <3>5. Recorded(new) \subseteq Recorded(old)
      <4>1. InHand(old) = {}
        BY <2>0 DEF InHand
      <4>2. item \in Skills => InHand(new) = {item}
        BY <3>2 DEF InHand
      <4>3. QED
        BY <3>4, <4>1, <4>2 DEF Recorded
    <3>6. Sound(new.life, new.id) => Put(new) \subseteq store'[new.id].workspace
      BY <1>1, <3>2, <3>3, <3>4 DEF RowGood
    <3>7. new.status \notin {"truncate", "write"}
      BY <3>2
    <3>8. QED
      BY <1>1, <2>0, <3>1, <3>2, <3>3, <3>5, <3>6, <3>7, RowKeeps
  <2>3. QED
    BY <1>1, <1>4, <2>1, <2>2 DEF install_bundle_item
<1>5. CASE add_skill(r)
  <2>0. UNCHANGED <<store, tasks, alive, mixed, stale, lives>> /\ old.status = "read" /\ Active(r)
    BY <1>1, <1>5 DEF add_skill, RowStep, Active
  <2>1. CASE Readable(old.id)
    <3>1. PICK man, new : /\ man = [store[old.id].manifest EXCEPT !.skills = @ \cup {old.skill}]
                          /\ new = [old EXCEPT !.man = man, !.status = "truncate"]
      OBVIOUS
    <3>2. rows' = [rows EXCEPT ![r] = new]
      BY <1>1, <1>5, <2>1, <3>1 DEF add_skill
    <3>3. store[old.id].manifest \in Manifest
      BY <1>1, <1>2, <2>1 DEF Readable, HasManifest, StoreFine, Dir
    <3>4. /\ man.skills = store[old.id].manifest.skills \cup {old.skill}
          /\ new.life = old.life /\ new.id = old.id /\ new.man = man /\ new.items = old.items /\ new.failed = old.failed
          /\ new.todo = old.todo /\ new.skill = old.skill /\ new.status = "truncate"
      BY <3>1, <3>3 DEF Row, Manifest
    <3>5. Put(new) = Put(old) /\ Recorded(new) = Recorded(old)
      BY <2>0, <3>4 DEF Put, Recorded, InHand, ActiveStatus
    <3>6. QED
      BY <1>1, <1>2, <2>0, <3>2, <3>4, <3>5, RowKeeps DEF RowGood
  <2>2. CASE ~Readable(old.id)
    <3> DEFINE new == [old EXCEPT !.failed = TRUE, !.status = "item"]
    <3>1. rows' = [rows EXCEPT ![r] = new]
      BY <1>1, <1>5, <2>2 DEF add_skill
    <3>2. new.life = old.life /\ new.id = old.id /\ new.status = "item" /\ new.failed = TRUE
      BY DEF Row
    <3> HIDE DEF new
    <3>3. Put(new) = {} /\ Recorded(new) = {} /\ new.status \notin {"truncate", "write"}
      BY <3>2 DEF Put, Recorded
    <3>4. QED
      BY <1>1, <1>2, <2>0, <3>1, <3>2, <3>3, RowKeeps
  <2>3. QED
    BY <2>1, <2>2
<1>6. CASE SaveRecord(r)
  BY <1>6, RecordBooks
<1>7. CASE FinishImport(r)
  <2>1. PICK status \in {"done", "failed"} : rows' = [rows EXCEPT ![r] = Over(old, status)] /\ (status = "done" => ~old.failed)
    BY <1>1, <1>7 DEF FinishImport, Conclude
  <2> DEFINE new == Over(old, status)
  <2>2. new.life = old.life /\ new.id = old.id /\ new.items = old.items /\ new.status = status
    BY DEF Row, Over
  <2>3. UNCHANGED <<store, tasks, alive, mixed, stale, lives>> /\ old.status = "item" /\ old.todo = {} /\ rows' = [rows EXCEPT ![r] = new]
    BY <1>1, <1>7, <2>1 DEF FinishImport, RowStep
  <2> HIDE DEF new
  <2>4. Put(new) \subseteq Put(old)
    BY <2>1, <2>2, <2>3 DEF Put, ActiveStatus
  <2>5. Recorded(new) \subseteq Recorded(old)
    BY <2>3, <2>4 DEF Recorded, InHand
  <2>6. new.status \notin ActiveStatus
    BY <2>2 DEF ActiveStatus
  <2>7. new.status \notin {"truncate", "write"}
    BY <2>2
  <2>8. QED
    BY <1>1, <1>2, <2>2, <2>3, <2>4, <2>5, <2>6, <2>7, RowKeeps DEF RowGood
<1>8. CASE jobs_retry(r)
  <2> DEFINE new == [old EXCEPT !.status = "queued"]
  <2>1. rows' = [rows EXCEPT ![r] = new] /\ new.life = old.life /\ new.id = old.id /\ new.status = "queued"
    BY <1>1, <1>8 DEF jobs_retry, SetRow, Row
  <2> HIDE DEF new
  <2>2. Put(new) = {} /\ Recorded(new) = {} /\ new.status \notin ActiveStatus \cup {"truncate", "write"}
    BY <2>1 DEF Put, Recorded, ActiveStatus
  <2>3. UNCHANGED <<store, tasks, alive, mixed, stale, lives>>
    BY <1>8 DEF jobs_retry
  <2>4. QED
    BY <1>1, <1>2, <2>1, <2>2, <2>3, RowKeeps
<1>9. QED
  BY <1>3, <1>4, <1>5, <1>6, <1>7, <1>8 DEF Import

LEMMA BooksStep ==
  ASSUME IInv, Books, [Next]_vars
  PROVE  Books'
<1> USE DEF history, SameManifests
<1>1. ASSUME NEW id \in Ids, switch_instance(id) \/ environment_export(id)
      PROVE  Books'
  BY <1>1, CalmStay, QuietKeeps DEF switch_instance, environment_export
<1>2. CASE UNCHANGED vars
  <2>1. UNCHANGED <<store, tasks, rows, alive, mixed, stale, lives>>
    BY <1>2 DEF vars
  <2>2. QED
    BY <2>1, CalmStay, QuietKeeps
<1>3. QED
  BY <1>1, <1>2, CommandBooks, ImportBooks, CrashBooks DEF Next

LEMMA InitBooks == Init => Books
BY DEF Init, Books, Numbered, MakersAreNew, Creators, Idle, GateHeld, RowsGood, HandsGood

-----------------------------------------------------------------------------
(* ImportIsWhole: an import that is done has put every item of its package *)
(* in the instance made for it and recorded each skill, unless that one    *)
(* was deleted, its id was not its own or a rename saved an older manifest *)
(* over it (environment_import_job).                                       *)
THEOREM ImportsAreWhole == Spec => []ImportIsWhole
<1>1. Books => ImportIsWhole
  <2> SUFFICES ASSUME Books, NEW r \in DOMAIN rows, rows[r].status = "done", Sound(rows[r].life, rows[r].id)
               PROVE  /\ rows[r].items \subseteq store[rows[r].id].workspace
                      /\ rows[r].items \cap Skills \subseteq store[rows[r].id].manifest.skills
    BY DEF ImportIsWhole, Sound
  <2>1. Put(rows[r]) = rows[r].items /\ Recorded(rows[r]) = rows[r].items \cap Skills
    BY DEF Put, Recorded, InHand
  <2>2. QED
    BY <2>1 DEF Books, RowsGood, RowGood
<1>2. QED
  BY <1>1, Kept, InitBooks, BooksStep, PTL DEF Spec

-----------------------------------------------------------------------------
(* The bound on the imports counts those that are still being made, so it  *)
(* holds when they come to be rows.                                        *)
Importing == {t \in Tasks : tasks[t].op = "import"}
RowsBounded == IsFiniteSet(Importing) /\ Len(rows) + Cardinality(Importing) <= MaxRows

LEMMA FewerImports ==
  ASSUME RowsFine, RowsBounded, Len(rows') = Len(rows), Importing' \subseteq Importing
  PROVE  RowsBounded'
<1>1. IsFiniteSet(Importing') /\ Cardinality(Importing') <= Cardinality(Importing)
  BY FS_Subset DEF RowsBounded
<1>2. Len(rows) \in Nat /\ Cardinality(Importing) \in Nat /\ Cardinality(Importing') \in Nat
  BY <1>1, FS_CardinalityType DEF RowsFine, RowsBounded
<1>3. QED
  BY <1>1, <1>2, StoreAssumption DEF RowsBounded

LEMMA SteadyImports ==
  ASSUME Steady
  PROVE  Importing' \subseteq Importing
BY DEF Steady, Importing, Creators

(* A task that begins anything else is not importing.                      *)
LEMMA OtherBegins ==
  ASSUME TasksFine, NEW t \in Tasks, NEW task, tasks' = [tasks EXCEPT ![t] = task], task.op # "import"
  PROVE  Importing' \subseteq Importing
BY TasksTyped DEF Importing

LEMMA ImportBegins ==
  ASSUME IInv, RowsBounded, NEW t \in Tasks, enqueue_environment_import(t)
  PROVE  RowsBounded'
<1>1. PICK task : tasks' = [tasks EXCEPT ![t] = task] /\ task.op = "import"
  <2>1. Pick(t, "import", 1, {})
    BY DEF enqueue_environment_import
  <2>2. PICK id \in unique_id(existing_ids) :
           tasks' = [tasks EXCEPT ![t] = [op |-> "import", step |-> "mkdir", id |-> id, src |-> 1,
                                          man |-> [life |-> lives + 1, skills |-> {}, torn |-> FALSE]]]
    BY <2>1 DEF Pick
  <2> DEFINE new == [op |-> "import", step |-> "mkdir", id |-> id, src |-> 1,
                     man |-> [life |-> lives + 1, skills |-> {}, torn |-> FALSE]]
  <2>3. tasks' = [tasks EXCEPT ![t] = new] /\ new.op = "import"
    BY <2>2
  <2> HIDE DEF new
  <2>4. QED
    BY <2>3
<1>2. UNCHANGED rows /\ Len(rows) + Cardinality(Importing) < MaxRows
  BY DEF enqueue_environment_import, Pick, Importing
<1>3. Importing' = Importing \cup {t}
  <2>1. TasksFine
    BY DEF IInv, Typed
  <2>2. QED
    BY <1>1, <2>1, TasksTyped DEF Importing
<1>4. IsFiniteSet(Importing') /\ Cardinality(Importing') <= Cardinality(Importing) + 1
  <2>1. IsFiniteSet(Importing) /\ Cardinality(Importing) \in Nat
    BY FS_CardinalityType DEF RowsBounded
  <2>2. IsFiniteSet(Importing \cup {t})
    BY <2>1, FS_AddElement
  <2>3. Cardinality(Importing \cup {t}) \in {Cardinality(Importing), Cardinality(Importing) + 1}
    BY <2>1, FS_AddElement
  <2>4. QED
    BY <1>3, <2>1, <2>2, <2>3
<1>5. Len(rows) \in Nat /\ Cardinality(Importing) \in Nat /\ Cardinality(Importing') \in Nat
  BY <1>4, FS_CardinalityType DEF IInv, Typed, RowsFine, RowsBounded
<1>6. QED
  BY <1>2, <1>4, <1>5, StoreAssumption DEF RowsBounded

LEMMA ImportIsEnqueued ==
  ASSUME IInv, RowsBounded, NEW t \in Tasks, EnqueueImport(t)
  PROVE  RowsBounded'
<1>1. tasks[t].op = "import" /\ TasksFine /\ RowsFine
  BY DEF EnqueueImport, IInv, Typed, TasksFine, TaskFine
<1>2. Importing' = Importing \ {t} /\ t \in Importing
  BY <1>1, TasksTyped DEF EnqueueImport, EndTask, Idle, Importing
<1>3. IsFiniteSet(Importing') /\ Cardinality(Importing') = Cardinality(Importing) - 1
  BY <1>2, FS_RemoveElement DEF RowsBounded
<1>4. Len(rows) \in Nat /\ Len(rows') \in {Len(rows), Len(rows) + 1}
  BY <1>1 DEF EnqueueImport, RowsFine
<1>5. Cardinality(Importing) \in Nat
  BY FS_CardinalityType DEF RowsBounded
<1>6. QED
  BY <1>3, <1>4, <1>5, StoreAssumption DEF RowsBounded

LEMMA RowsStayBounded ==
  ASSUME IInv, RowsBounded, [Next]_vars
  PROVE  RowsBounded'
<1> USE DEF history
<1>0. TasksFine /\ RowsFine
  BY DEF IInv, Typed
<1>1. ASSUME NEW t \in Tasks, Command(t), ~enqueue_environment_import(t), ~EnqueueImport(t)
      PROVE  RowsBounded'
  <2>0. TaskFine(tasks[t])
    BY <1>0 DEF TasksFine
  <2>1. CASE create_instance(t)
    <3>1. PICK task : tasks' = [tasks EXCEPT ![t] = task] /\ task.op = "create" /\ UNCHANGED rows
      BY <2>1 DEF create_instance, Pick
    <3>2. QED
      BY <1>0, <3>1, OtherBegins, FewerImports
  <2>2. ASSUME NEW id \in Ids, clone_instance(t, id) \/ rename_instance(t, id) \/ delete_instance(t, id)
        PROVE  RowsBounded'
    <3>1. PICK task : tasks' = [tasks EXCEPT ![t] = task] /\ task.op \in {"clone", "rename", "delete"} /\ UNCHANGED rows
      BY <2>2 DEF clone_instance, Pick, rename_instance, delete_instance
    <3>2. QED
      BY <1>0, <3>1, OtherBegins, FewerImports
  <2>3. CASE MakeWorkspace(t) \/ copy_dir_recursive(t) \/ BeginSave(t) \/ EndSave(t) \/ RemoveDir(t) \/ MoveMarker(t)
    <3>1. UNCHANGED rows
      BY <2>3 DEF MakeWorkspace, copy_dir_recursive, BeginSave, EndSave, RemoveDir, MoveMarker
    <3>2. EndTask(t) \/ \E s \in {"truncate", "write", "enqueue", "settings"} : Go(t, s)
      BY <2>3 DEF MakeWorkspace, copy_dir_recursive, BeginSave, EndSave, RemoveDir, MoveMarker
    <3>3. Importing' \subseteq Importing
      BY <1>0, <3>2, TasksTyped DEF EndTask, Go, Idle, Importing, TaskRec
    <3>4. QED
      BY <1>0, <3>1, <3>3, FewerImports
  <2>4. QED
    BY <1>1, <2>1, <2>2, <2>3 DEF Command
<1>2. ASSUME NEW r \in DOMAIN rows, Import(r)
      PROVE  RowsBounded'
  <2>1. UNCHANGED tasks
    BY <1>2 DEF Import, environment_import_job, install_bundle_item, add_skill, SaveRecord, FinishImport, jobs_retry
  <2>2. DOMAIN rows' = DOMAIN rows /\ rows' \in Seq(Row)
    BY <1>0, <1>2, StepTyped DEF IInv, Typed, RowsFine, Next, Import, environment_import_job, install_bundle_item, add_skill,
       SaveRecord, FinishImport, jobs_retry, SetRow, Conclude
  <2>3. Len(rows') = Len(rows)
    BY <1>0, <2>2 DEF RowsFine
  <2>4. QED
    BY <1>0, <2>1, <2>3, FewerImports DEF Importing
<1>3. CASE Crash
  <2>1. rows' = [r \in DOMAIN rows |-> IF Active(r) THEN Over(rows[r], "failed") ELSE rows[r]] /\ tasks' = [t \in Tasks |-> Idle]
    BY <1>3 DEF Crash
  <2>2. rows' \in Seq(Row)
    BY <1>3, StepTyped DEF IInv, Typed, RowsFine, Next
  <2>3. Len(rows') = Len(rows)
    BY <1>0, <2>1, <2>2 DEF RowsFine
  <2>4. QED
    BY <1>0, <2>1, <2>3, FewerImports DEF Importing, Idle
<1>4. CASE UNCHANGED vars \/ \E id \in Ids : switch_instance(id) \/ environment_export(id)
  <2>1. UNCHANGED <<tasks, rows>>
    BY <1>4 DEF vars, switch_instance, environment_export
  <2>2. QED
    BY <1>0, <2>1, FewerImports DEF Importing
<1>5. QED
  BY <1>1, <1>2, <1>3, <1>4, ImportBegins, ImportIsEnqueued DEF Next

(* TypeOK: every directory, command and import keeps its type, and the     *)
(* imports their bound.                                                    *)
THEOREM StoreTypeCorrect == Spec => []TypeOK
<1>1. Init => RowsBounded
  <2> SUFFICES ASSUME Init
               PROVE  RowsBounded
    OBVIOUS
  <2>1. Importing = {}
    BY DEF Init, Importing, Idle
  <2>2. Len(rows) = 0
    BY DEF Init
  <2>3. IsFiniteSet(Importing) /\ Cardinality(Importing) = 0
    BY <2>1, FS_EmptySet
  <2>4. QED
    BY <2>2, <2>3, StoreAssumption DEF RowsBounded
<1>2. IInv /\ RowsBounded => TypeOK
  <2> SUFFICES ASSUME IInv, RowsBounded
               PROVE  TypeOK
    OBVIOUS
  <2>1. Len(rows) <= MaxRows
    <3>1. Cardinality(Importing) \in Nat /\ Len(rows) \in Nat
      BY FS_CardinalityType DEF RowsBounded, IInv, Typed, RowsFine
    <3>2. QED
      BY <3>1, StoreAssumption DEF RowsBounded
  <2>2. tasks \in [Tasks -> TaskRec]
    BY DEF IInv, Typed, TasksFine, TaskFine
  <2>3. QED
    BY <2>1, <2>2 DEF IInv, Typed, RowsFine, StoreFine, BooksFine, TaskRec, TypeOK
<1>3. QED
  BY <1>1, <1>2, Kept, RowsStayBounded, PTL DEF Spec

-----------------------------------------------------------------------------
(* InstanceStays: an instance keeps its directory and its manifest until   *)
(* it is deleted, but where two chose one id at once or a torn manifest    *)
(* hid it (unique_id), and a manifest that can be read is of no deleted    *)
(* instance, but one that a delete left or overtook in a save (delete).    *)
THEOREM InstancesStay == Spec => []InstanceStays
BY Kept, PTL DEF IInv, Tenancy

(* SomeInstanceRemains: no step takes the last instance away, unless a     *)
(* delete counted one that another delete was removing (delete).           *)
THEOREM TheLastInstanceStays == Spec => SomeInstanceRemains
<1>1. IInv /\ [Next]_vars => [SomeInstance => SomeInstance' \/ twice]_vars
  BY StepKept
<1>2. QED
  BY <1>1, Kept, PTL DEF Spec, SomeInstanceRemains
=============================================================================
