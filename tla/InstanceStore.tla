---------------------------- MODULE InstanceStore ----------------------------
(***************************************************************************)
(* The instances of one data root: launcher-core/src/instance.rs, the      *)
(* commands of commands/instance.rs and the environment packages of        *)
(* commands/environment.rs.  An instance is a directory with a manifest    *)
(* and a workspace; there is no index of them but the directories.         *)
(*                                                                         *)
(* Plain commands run one at a time on the main thread.  A delete, an      *)
(* import and the install of an import run beside them and beside each     *)
(* other, on the same files, and the launcher may die at any step.  All    *)
(* names reduce to one slug: instances of different slugs never meet.      *)
(***************************************************************************)
EXTENDS Naturals, Sequences, FiniteSets

CONSTANTS Tasks,            \* commands that can run at a time
          Plugins, Skills,  \* content: a plugin is known from the disk, a skill from its record
          Catalogue,        \* the skills the market lists
          Foreign,          \* the items of a package from elsewhere
          MaxIds,           \* bound: directories
          MaxCommands,      \* bound: commands
          MaxRows,          \* bound: imports
          MaxCrashes        \* bound: deaths of the launcher

ASSUME StoreAssumption ==
    /\ Plugins \cap Skills = {} /\ Catalogue \subseteq Skills
    /\ Foreign \subseteq Plugins \cup Skills /\ Foreign # {}
    /\ MaxIds \in Nat \ {0} /\ {MaxCommands, MaxRows, MaxCrashes} \subseteq Nat

VARIABLES
    store,    \* the directory of each id: its manifest and what its workspace holds
    last,     \* settings.last_instance
    tasks,    \* the commands that run
    rows,     \* the imports of the Install Center
    package,  \* the items of the package at hand
    lives,    \* instances ever created
    commands, crashes,   \* counted against the bounds
    alive,    \* history: the instances that were created and not deleted, with their ids
    ghosts,   \* history: instances that a failed delete left, or that a save held when a delete overtook it
    mixed,    \* history: ids chosen by two commands at once, or while a torn manifest hid one
    stale,    \* history: ids where a rename saved a manifest older than the one it replaced
    twice     \* history: one delete counted what another was deleting

history == <<alive, ghosts, mixed, stale, twice>>
counts == <<commands, crashes>>
vars == <<store, last, tasks, rows, package, lives, counts, history>>

Items == Plugins \cup Skills
Ids == 1..MaxIds       \* slug, slug-2, slug-3, ...
Lives == 1..MaxCommands
Nobody == 0
Bare == [life |-> 0, skills |-> {}, torn |-> FALSE]   \* no manifest
NoDir == [there |-> FALSE, manifest |-> Bare, workspace |-> {}]
Manifest == [life : Lives, skills : SUBSET Skills, torn : BOOLEAN]
Dir == [there : BOOLEAN, manifest : Manifest \cup {Bare}, workspace : SUBSET Items]
Idle == [op |-> "none", step |-> "none", id |-> 1, man |-> Bare, src |-> 1]
Sync == {"create", "rename", "clone"}
Row == [id : Ids, life : Lives, items : SUBSET Items, todo : SUBSET Items, failed : BOOLEAN,
        status : {"queued", "item", "read", "truncate", "write", "done", "failed"},
        skill : Items \cup {"-"}, man : Manifest \cup {Bare}]

TypeOK ==
    /\ store \in [Ids -> Dir]
    /\ last \in Ids \cup {Nobody}
    /\ tasks \in [Tasks -> [op : Sync \cup {"import", "delete", "none"}, id : Ids, src : Ids,
                            step : {"none", "mkdir", "copy", "truncate", "write", "enqueue", "remove", "settings"},
                            man : Manifest \cup {Bare}]]
    /\ rows \in Seq(Row) /\ Len(rows) <= MaxRows
    /\ package \subseteq Items /\ lives \in 0..MaxCommands /\ commands \in 0..MaxCommands /\ crashes \in 0..MaxCrashes
    /\ alive \cup ghosts \subseteq Lives \X Ids /\ mixed \subseteq Ids /\ stale \subseteq Ids /\ twice \in BOOLEAN

HasManifest(id) == store[id].manifest # Bare
Readable(id) == HasManifest(id) /\ ~store[id].manifest.torn

\* list: what cannot be read is skipped.
Listed == {id \in Ids : Readable(id)}
existing_ids == Listed

\* The instance the front end works on: the last one, else any.
active_instance == IF last \in Listed THEN {last} ELSE Listed

\* MUTANT: only the slug itself is looked for, -2 is taken as free.
UniqueOnce(existing) == {IF 1 \notin existing THEN 1 ELSE 2}

\* The first of slug, slug-2, ... that is not taken.
unique_id(existing) == {n \in Ids : n \notin existing /\ \A k \in 1..(n - 1) : k \in existing}

-----------------------------------------------------------------------------
\* Files.

PutManifest(id, man) == store' = [store EXCEPT ![id].there = TRUE, ![id].manifest = man]
PutFiles(id, files) == store' = [store EXCEPT ![id].there = TRUE, ![id].workspace = @ \cup files]

\* A write truncates the file, then fills it.  It makes the directory if need be.
Truncate(id, man) == PutManifest(id, [man EXCEPT !.torn = TRUE])
Fill(id, man) == PutManifest(id, man)

-----------------------------------------------------------------------------
\* Commands.

Counted == commands < MaxCommands /\ commands' = commands + 1 /\ UNCHANGED crashes
Task(t, op, step) == tasks[t].op = op /\ tasks[t].step = step
MainFree == \A t \in Tasks : tasks[t].op \notin Sync
Go(t, step) == tasks' = [tasks EXCEPT ![t].step = step]
EndTask(t) == tasks' = [tasks EXCEPT ![t] = Idle]

\* The new manifest and its id: what the directories say now.
Pick(t, op, src, skills) ==
    /\ Counted /\ lives' = lives + 1
    /\ \E id \in unique_id(existing_ids) :
           /\ tasks' = [tasks EXCEPT ![t] = [op |-> op, step |-> IF op = "clone" THEN "copy" ELSE "mkdir", id |-> id, src |-> src,
                                             man |-> [life |-> lives + 1, skills |-> skills, torn |-> FALSE]]]
           /\ mixed' = IF (HasManifest(id) /\ ~Readable(id)) \/ \E u \in Tasks \ {t} : tasks[u].op \in {"create", "clone", "import"} /\ tasks[u].id = id
                       THEN mixed \cup {id} ELSE mixed
    /\ UNCHANGED <<store, last, rows, package, alive, ghosts, stale, twice>>

create_instance(t) == tasks[t] = Idle /\ MainFree /\ Pick(t, "create", 1, {})
clone_instance(t, id) ==
    /\ tasks[t] = Idle /\ MainFree /\ Readable(id)
    /\ Pick(t, "clone", id, store[id].manifest.skills)

\* A package that was not changed since it was made, with an item at least.
validate_package == package # {}
enqueue_environment_import(t) ==
    /\ tasks[t] = Idle /\ validate_package
    /\ Len(rows) + Cardinality({u \in Tasks : tasks[u].op = "import"}) < MaxRows
    /\ Pick(t, "import", 1, {})

MakeWorkspace(t) ==
    /\ tasks[t].step = "mkdir" /\ Go(t, "truncate")
    /\ PutFiles(tasks[t].id, {})
    /\ UNCHANGED <<last, rows, package, lives, counts, history>>

\* Whatever the source holds by now is copied over what the directory holds; a copy
\* that fails leaves what it made.
copy_dir_recursive(t) ==
    /\ tasks[t].step = "copy"
    /\ \E copied \in SUBSET store[tasks[t].src].workspace :
          /\ PutFiles(tasks[t].id, copied)
          /\ \/ store[tasks[t].src].there /\ copied = store[tasks[t].src].workspace /\ Go(t, "truncate")
             \/ EndTask(t)
    /\ UNCHANGED <<last, rows, package, lives, counts, history>>

\* Rename reads the manifest and saves it with the new name.
rename_instance(t, id) ==
    /\ Counted /\ tasks[t] = Idle /\ MainFree /\ Readable(id)
    /\ tasks' = [tasks EXCEPT ![t] = [op |-> "rename", step |-> "truncate", id |-> id, src |-> 1, man |-> store[id].manifest]]
    /\ UNCHANGED <<store, last, rows, package, lives, history>>

\* What a rename saves lists less than the manifest it replaces.
Older(t) == {id \in {tasks[t].id} : tasks[t].op = "rename" /\ ~(store[id].manifest.skills \subseteq tasks[t].man.skills)}

BeginSave(t) ==
    /\ tasks[t].step = "truncate" /\ Go(t, "write")
    /\ Truncate(tasks[t].id, tasks[t].man)
    /\ stale' = stale \cup Older(t)
    /\ UNCHANGED <<last, rows, package, lives, counts, alive, ghosts, mixed, twice>>

\* A new instance is there once its manifest is; create makes it the last one if
\* there is none, an import goes on to its job.
EndSave(t) ==
    LET op == tasks[t].op
        id == tasks[t].id
    IN  /\ tasks[t].step = "write" /\ Fill(id, tasks[t].man)
        /\ stale' = stale \cup Older(t)
        /\ alive' = IF op = "rename" THEN alive ELSE alive \cup {<<tasks[t].man.life, id>>}
        /\ last' = IF op = "create" /\ last = Nobody THEN id ELSE last
        /\ IF op = "import" THEN Go(t, "enqueue") ELSE EndTask(t)
        /\ UNCHANGED <<rows, package, lives, counts, ghosts, mixed, twice>>

\* The Library of the new instance is written first; if that fails there is no job.
EnqueueImport(t) ==
    /\ tasks[t].step = "enqueue" /\ EndTask(t)
    /\ \/ rows' = Append(rows, [id |-> tasks[t].id, life |-> tasks[t].man.life, items |-> package, todo |-> {},
                                failed |-> FALSE, status |-> "queued", skill |-> "-", man |-> Bare])
       \/ UNCHANGED rows
    /\ UNCHANGED <<store, last, package, lives, counts, history>>

\* MUTANT: the last instance may go.
DeleteAny(t, id) ==
    /\ Counted /\ tasks[t] = Idle /\ Cardinality(Listed) >= 1 /\ store[id].there
    /\ tasks' = [tasks EXCEPT ![t] = [op |-> "delete", step |-> "remove", id |-> id, src |-> 1, man |-> Bare]]
    /\ twice' = (twice \/ \E u \in Tasks : Task(u, "delete", "remove"))
    /\ UNCHANGED <<store, last, rows, package, lives, alive, ghosts, mixed, stale>>

\* "Refuses to remove the last remaining instance"; one that runs is refused as well.
delete_instance(t, id) ==
    /\ Counted /\ tasks[t] = Idle /\ Cardinality(Listed) > 1 /\ store[id].there
    /\ tasks' = [tasks EXCEPT ![t] = [op |-> "delete", step |-> "remove", id |-> id, src |-> 1, man |-> Bare]]
    /\ twice' = (twice \/ \E u \in Tasks : Task(u, "delete", "remove"))
    /\ UNCHANGED <<store, last, rows, package, lives, alive, ghosts, mixed, stale>>

\* The manifests that a rename or the record of a skill has read and not saved yet.
InTask(t, id) == tasks[t].op = "rename" /\ tasks[t].id = id
InRow(r, id) == rows[r].status \in {"truncate", "write"} /\ rows[r].id = id
Held(id) == {tasks[t].man.life : t \in {u \in Tasks : InTask(u, id)}} \cup {rows[r].man.life : r \in {q \in DOMAIN rows : InRow(q, id)}}

\* A removal that fails leaves some of the files, the manifest or not.
RemoveDir(t) ==
    LET id == tasks[t].id
    IN  /\ Task(t, "delete", "remove")
        /\ \/ store' = [store EXCEPT ![id] = NoDir] /\ Go(t, "settings")
           \/ /\ store[id].there /\ EndTask(t)
              /\ \E man \in {Bare, store[id].manifest}, files \in SUBSET store[id].workspace :
                    store' = [store EXCEPT ![id].manifest = man, ![id].workspace = files]
        /\ alive' = {a \in alive : a[2] # id}
        /\ ghosts' = ghosts \cup {<<life, id>> : life \in (Held(id) \cup {store'[id].manifest.life}) \ {Nobody}}
        /\ UNCHANGED <<last, rows, package, lives, counts, mixed, stale, twice>>

\* The last instance becomes one of those left, in the order of their names.
MoveMarker(t) ==
    /\ Task(t, "delete", "settings") /\ EndTask(t)
    /\ last' \in IF last # tasks[t].id THEN {last} ELSE IF Listed = {} THEN {Nobody} ELSE Listed
    /\ UNCHANGED <<store, rows, package, lives, counts, history>>

switch_instance(id) ==
    /\ Counted /\ MainFree /\ Readable(id) /\ last # id /\ last' = id
    /\ UNCHANGED <<store, tasks, rows, package, lives, history>>

-----------------------------------------------------------------------------
\* Environment packages.

Active(r) == rows[r].status \in {"item", "read", "truncate", "write"}
GateFree(id) == \A r \in DOMAIN rows : rows[r].id = id => ~Active(r)

\* The instance the front end works on, under its gate, without a change to it.
\* A plugin without a catalogue entry goes by its npm name; a skill without one is left out.
find_by_key(skills) == skills \cap Catalogue
exported(id) == (store[id].workspace \cap Plugins) \cup find_by_key(store[id].manifest.skills)

environment_export(id) ==
    /\ Counted /\ id \in active_instance /\ GateFree(id) /\ exported(id) \notin {{}, package}
    /\ package' = exported(id)
    /\ UNCHANGED <<store, last, tasks, rows, lives, history>>

RowStep(r, status) == rows[r].status = status
SetRow(r, status) == rows' = [rows EXCEPT ![r].status = status]
Over(row, status) == [row EXCEPT !.status = status, !.todo = {}, !.failed = FALSE, !.man = Bare, !.skill = "-"]
Conclude(r, status) == rows' = [rows EXCEPT ![r] = Over(@, status)]

\* The queue runs the row, under the gate of its instance; not while the instance runs.
environment_import_job(r) ==
    /\ RowStep(r, "queued") /\ GateFree(rows[r].id)
    /\ \/ SetRow(r, "failed")
       \/ /\ Readable(rows[r].id)
          /\ rows' = [rows EXCEPT ![r].status = "item", ![r].todo = rows[r].items, ![r].failed = FALSE]
    /\ UNCHANGED <<store, last, tasks, package, lives, counts, history>>

\* A leaf fails, or is put in the workspace, which needs no manifest.
install_bundle_item(r, item) ==
    LET id == rows[r].id
    IN  /\ RowStep(r, "item") /\ item \in rows[r].todo
        /\ \/ /\ rows' = [rows EXCEPT ![r].todo = @ \ {item}, ![r].failed = TRUE] /\ UNCHANGED store
           \/ /\ item \in Plugins => store[id].there
              /\ PutFiles(id, {item})
              /\ rows' = [rows EXCEPT ![r].todo = @ \ {item}, ![r].skill = IF item \in Skills THEN item ELSE "-",
                                      ![r].status = IF item \in Skills THEN "read" ELSE "item"]
        /\ UNCHANGED <<last, tasks, package, lives, counts, history>>

\* The record of a skill is added to the manifest as it is read then.
add_skill(r) ==
    LET id == rows[r].id
    IN  /\ RowStep(r, "read")
        /\ rows' = [rows EXCEPT ![r] =
                       IF Readable(id)
                       THEN [@ EXCEPT !.man = [store[id].manifest EXCEPT !.skills = @ \cup {rows[r].skill}], !.status = "truncate"]
                       ELSE [@ EXCEPT !.failed = TRUE, !.status = "item"]]
        /\ UNCHANGED <<store, last, tasks, package, lives, counts, history>>

SaveRecord(r) ==
    LET id == rows[r].id
    IN  /\ \/ RowStep(r, "truncate") /\ SetRow(r, "write") /\ Truncate(id, rows[r].man)
           \/ /\ RowStep(r, "write") /\ Fill(id, rows[r].man)
              /\ rows' = [rows EXCEPT ![r].status = "item", ![r].man = Bare, ![r].skill = "-"]
        /\ UNCHANGED <<last, tasks, package, lives, counts, history>>

\* MUTANT: a package that came through with failures counts as done.
FinishAnyway(r) ==
    /\ RowStep(r, "item") /\ rows[r].todo = {}
    /\ Conclude(r, "done")
    /\ UNCHANGED <<store, last, tasks, package, lives, counts, history>>

\* "Any failed leaf fails the whole row", and so does the Library at the end.
FinishImport(r) ==
    /\ RowStep(r, "item") /\ rows[r].todo = {}
    /\ \/ ~rows[r].failed /\ Conclude(r, "done")
       \/ Conclude(r, "failed")
    /\ UNCHANGED <<store, last, tasks, package, lives, counts, history>>

jobs_retry(r) ==
    /\ RowStep(r, "failed") /\ SetRow(r, "queued")
    /\ UNCHANGED <<store, last, tasks, package, lives, counts, history>>

-----------------------------------------------------------------------------
\* The launcher dies.  Its rows are interrupted.
Crash ==
    /\ crashes < MaxCrashes /\ crashes' = crashes + 1
    /\ tasks' = [t \in Tasks |-> Idle]
    /\ rows' = [r \in DOMAIN rows |-> IF Active(r) THEN Over(rows[r], "failed") ELSE rows[r]]
    /\ UNCHANGED <<store, last, package, lives, commands, history>>

Init ==
    /\ store = [id \in Ids |-> NoDir] /\ last = Nobody
    /\ tasks = [t \in Tasks |-> Idle] /\ rows = <<>> /\ package = Foreign
    /\ lives = 0 /\ commands = 0 /\ crashes = 0
    /\ alive = {} /\ ghosts = {} /\ mixed = {} /\ stale = {} /\ twice = FALSE

Command(t) ==
    \/ create_instance(t) \/ enqueue_environment_import(t)
    \/ MakeWorkspace(t) \/ copy_dir_recursive(t) \/ BeginSave(t) \/ EndSave(t) \/ EnqueueImport(t)
    \/ RemoveDir(t) \/ MoveMarker(t)
    \/ \E id \in Ids : clone_instance(t, id) \/ rename_instance(t, id) \/ delete_instance(t, id)

Import(r) ==
    \/ environment_import_job(r) \/ add_skill(r) \/ SaveRecord(r) \/ FinishImport(r) \/ jobs_retry(r)
    \/ \E item \in Items : install_bundle_item(r, item)

Next ==
    \/ \E t \in Tasks : Command(t)
    \/ \E r \in DOMAIN rows : Import(r)
    \/ \E id \in Ids : switch_instance(id) \/ environment_export(id)
    \/ Crash

Spec == Init /\ [][Next]_vars

-----------------------------------------------------------------------------
\* An instance, once created, keeps its directory and its manifest until it is deleted:
\* no other create, clone or import takes its id, unless two commands chose that id at
\* once or a torn manifest hid it (unique_id), and no save puts another manifest in its
\* place.  And a manifest that can be read is of an instance that was not deleted.  The
\* exception to both is an instance that a failed delete left, or that was deleted while
\* a rename or the record of a skill held its manifest and saved it then (delete, save).
Genuine(life, id) == <<life, id>> \in alive \cup ghosts
InstanceStays ==
    /\ \A a \in alive : a[2] \in mixed \/ (HasManifest(a[2]) /\ LET life == store[a[2]].manifest.life
                                                              IN  life = a[1] \/ <<life, a[2]>> \in ghosts)
    /\ \A id \in Ids : Readable(id) => Genuine(store[id].manifest.life, id)

\* "The launcher always needs at least one": no step takes away the last instance there
\* is, unless a delete counted an instance that another delete was removing (delete).
SomeInstance == \E id \in Ids : HasManifest(id)
SomeInstanceRemains == [][SomeInstance => SomeInstance' \/ twice]_vars

\* An import that is done has every item of its package in the instance made for it,
\* and a record of each skill, unless that instance was deleted, a rename saved an older
\* manifest over it, or its id was not its own (environment_import_job).
ImportIsWhole ==
    \A r \in DOMAIN rows :
       LET id == rows[r].id
       IN  rows[r].status = "done" /\ <<rows[r].life, id>> \in alive /\ id \notin mixed \cup stale
              => rows[r].items \subseteq store[id].workspace /\ rows[r].items \cap Skills \subseteq store[id].manifest.skills

=============================================================================
