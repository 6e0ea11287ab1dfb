------------------------------ MODULE Runtimes ------------------------------
(***************************************************************************)
(* The managed runtimes of one data root (dsh-adapter/src/runtimes.rs,     *)
(* commands/runtimes.rs): a directory per version, filled by copying a     *)
(* DSH tree into it in place, and a pointer to the active one.  Imports    *)
(* and repairs run on blocking threads, beside each other and beside the   *)
(* commands of the main thread, without a lock; a launch looks for a       *)
(* runtime at any time, and the launcher may die at any step.              *)
(***************************************************************************)
EXTENDS Naturals, FiniteSets

CONSTANTS Versions,     \* numbers: the place of each in the order of the version strings
          Sources,      \* DSH trees to import
          Larger,       \* those with a file the others do not have
          Outside,      \* what else a launch may find: sets of entries
          Nodes,        \* the places where there is a Node
          Threads,      \* commands that can run at a time
          MaxCommands, MaxCrashes   \* bounds

ASSUME RuntimesAssumption ==
    /\ Versions \subseteq Nat \ {0} /\ Larger \subseteq Sources /\ "none" \notin Sources
    /\ MaxCommands \in Nat /\ MaxCrashes \in Nat

VARIABLES
    dir,      \* the directory of each version: where each of its files came from
    active,   \* runtimes/active
    threads,  \* the commands that run
    boot,     \* what the last launch runs
    commands, crashes,   \* counted against the bounds
    torn      \* history: versions whose files were changed since an import of its own last went through

counts == <<commands, crashes>>
vars == <<dir, active, threads, boot, counts, torn>>

Parts == {"bin", "extra", "links"}   \* links: pnpm's junctions, made in a pass of their own
Tree(source) == [part \in Parts |-> IF part = "extra" /\ source \notin Larger THEN "none" ELSE source]
Missing == [part \in Parts |-> "none"]
NoDir == [there |-> FALSE, files |-> Missing]
Idle == [op |-> "none", step |-> "none", version |-> 0, source |-> "none", left |-> {}, alone |-> TRUE]
Blocking == {"import", "repair"}
NoBoot == [from |-> "none", version |-> 0, whole |-> TRUE, torn |-> FALSE]

TypeOK ==
    /\ dir \in [Versions -> [there : BOOLEAN, files : [Parts -> Sources \cup {"none"}]]]
    /\ active \in Versions \cup {0}
    /\ threads \in [Threads -> [op : Blocking \cup {"remove", "none"}, version : Versions \cup {0},
                                step : {"none", "verify", "wipe", "check", "replace", "copy", "links", "done", "remove", "pointer"},
                                source : Sources \cup {"none"}, left : SUBSET Parts, alone : BOOLEAN]]
    /\ boot \in [from : {"none", "managed", "override", "bundled", "path"}, version : Versions \cup {0},
                 whole : BOOLEAN, torn : BOOLEAN]
    /\ commands \in 0..MaxCommands /\ crashes \in 0..MaxCrashes /\ torn \subseteq Versions

bin_path(v) == dir[v].files["bin"] # "none"
Whole(v) == \E source \in Sources : dir[v].files = Tree(source)

At(t, step) == threads[t].step = step
Go(t, step) == threads' = [threads EXCEPT ![t].step = step]
EndThread(t) == threads' = [threads EXCEPT ![t] = Idle]
On(v) == {t \in Threads : threads[t].version = v}

\* A command on a version, beside those that work on it already.
Start(t, op, v, source, step) ==
    /\ threads[t] = Idle /\ commands < MaxCommands /\ commands' = commands + 1
    /\ threads' = [u \in Threads |->
          IF u = t THEN [op |-> op, step |-> step, version |-> v, source |-> source, left |-> {}, alone |-> On(v) = {}]
          ELSE IF u \in On(v) THEN [threads[u] EXCEPT !.alone = FALSE] ELSE threads[u]]
    /\ UNCHANGED <<dir, active, boot, crashes, torn>>

Taint(v) == torn' = torn \cup {v}

\* remove_dir_all takes the directory away, or fails with some of the files left.
RemoveAll(v) == dir' = [dir EXCEPT ![v] = NoDir]
RemoveSome(v) ==
    /\ dir[v].there
    /\ \E kept \in SUBSET Parts : dir' = [dir EXCEPT ![v].files = [p \in Parts |-> IF p \in kept THEN @[p] ELSE "none"]]

-----------------------------------------------------------------------------
\* Imports and repairs.

runtime_install(t, v, source) == Start(t, "import", v, source, "check")
runtime_repair(t, v, source) == Start(t, "repair", v, source, "verify")

\* A repair leaves a runtime with its bin alone, and wipes any other before it looks at
\* the tree it was pointed at.
repair(t) ==
    LET v == threads[t].version
    IN  /\ At(t, "verify")
        /\ IF bin_path(v) \/ threads[t].source = "none" THEN EndThread(t) ELSE Go(t, "wipe")
        /\ UNCHANGED <<dir, active, boot, counts, torn>>

\* It does not matter whether the wipe succeeds.
Wipe(t) ==
    LET v == threads[t].version
    IN  /\ At(t, "wipe") /\ Go(t, "check")
        /\ RemoveAll(v) \/ RemoveSome(v)
        /\ Taint(v)
        /\ UNCHANGED <<active, boot, counts>>

\* MUTANT: a broken install is copied over, not replaced.
CopyOver(t) ==
    LET v == threads[t].version
    IN  /\ At(t, "check")
        /\ IF bin_path(v) THEN EndThread(t)
           ELSE threads' = [threads EXCEPT ![t].step = "copy", ![t].left = {p \in Parts : Tree(threads[t].source)[p] # "none"} \ {"links"}]
        /\ UNCHANGED <<dir, active, boot, counts, torn>>

StartCopy(t) == threads' = [threads EXCEPT ![t].step = "copy",
                                           ![t].left = {p \in Parts \ {"links"} : Tree(threads[t].source)[p] # "none"}]

\* A tree without a bin is refused, and so is a version that is installed; a directory
\* without a bin is replaced.
install_from_source(t) ==
    LET v == threads[t].version
    IN  /\ At(t, "check")
        /\ \/ EndThread(t)
           \/ ~dir[v].there /\ StartCopy(t)
           \/ dir[v].there /\ ~bin_path(v) /\ Go(t, "replace")
        /\ UNCHANGED <<dir, active, boot, counts, torn>>

Replace(t) ==
    LET v == threads[t].version
    IN  /\ At(t, "replace") /\ Taint(v)
        /\ \/ RemoveAll(v) /\ StartCopy(t)
           \/ RemoveSome(v) /\ EndThread(t)
        /\ UNCHANGED <<active, boot, counts>>

Put(v, part, source) == dir' = [dir EXCEPT ![v].there = TRUE, ![v].files[part] = source]

\* The files come in any order, straight into the directory of the version.
copy_tree(t) ==
    LET v == threads[t].version
    IN  /\ At(t, "copy") /\ Taint(v)
        /\ \E part \in threads[t].left :
              /\ Put(v, part, threads[t].source)
              /\ threads' = [threads EXCEPT ![t].left = @ \ {part}, ![t].step = IF threads[t].left = {part} THEN "links" ELSE "copy"]
        /\ UNCHANGED <<active, boot, counts>>

\* A link that exists cannot be made.
restore_junctions(t) ==
    LET v == threads[t].version
    IN  /\ At(t, "links") /\ Taint(v)
        /\ IF dir[v].files["links"] = "none" THEN Put(v, "links", threads[t].source) /\ Go(t, "done")
           ELSE EndThread(t) /\ UNCHANGED dir
        /\ UNCHANGED <<active, boot, counts>>

\* A copy that fails leaves what it copied; only a copy that went through without a bin
\* is rolled back.
CopyFails(t) ==
    /\ threads[t].step \in {"copy", "links"} /\ EndThread(t)
    /\ UNCHANGED <<dir, active, boot, counts, torn>>

FinishInstall(t) ==
    LET v == threads[t].version
    IN  /\ At(t, "done") /\ EndThread(t)
        /\ IF bin_path(v)
           THEN UNCHANGED dir /\ torn' = IF threads[t].alone THEN torn \ {v} ELSE torn
           ELSE (RemoveAll(v) \/ RemoveSome(v)) /\ Taint(v)
        /\ UNCHANGED <<active, boot, counts>>

-----------------------------------------------------------------------------
\* Commands of the main thread.

MainFree == \A t \in Threads : threads[t].op # "remove"

\* Any directory will do, also one that is being filled.
set_active(v) ==
    /\ MainFree /\ dir[v].there /\ active # v /\ active' = v
    /\ commands < MaxCommands /\ commands' = commands + 1
    /\ UNCHANGED <<dir, threads, boot, crashes, torn>>

runtime_remove(t, v) == MainFree /\ dir[v].there /\ Start(t, "remove", v, "none", "remove")

\* A runtime is removed whether it runs or not; files in use stay.
remove(t) ==
    LET v == threads[t].version
    IN  /\ At(t, "remove") /\ Taint(v)
        /\ \/ RemoveAll(v) /\ Go(t, "pointer")
           \/ RemoveSome(v) /\ EndThread(t)
        /\ UNCHANGED <<active, boot, counts>>

RemovePointer(t) ==
    /\ At(t, "pointer") /\ EndThread(t)
    /\ active' = IF active = threads[t].version THEN 0 ELSE active
    /\ UNCHANGED <<dir, boot, counts, torn>>

-----------------------------------------------------------------------------
\* Launches.

\* The active version if it has its bin, else the directory whose version string comes
\* last in their order, "newest" to the code, with a bin or not.
Listed == {v \in Versions : dir[v].there}
pick_default_version == {v \in Listed : \A w \in Listed : w <= v}
resolve_version ==
    IF active # 0 /\ bin_path(active) THEN {active} ELSE IF Listed = {} THEN {0} ELSE pick_default_version

\* An override and a bundled runtime come before the managed one, dsh on the PATH after it.
resolve_bin(outside, v) ==
    IF "override" \in outside THEN "override"
    ELSE IF "bundled" \in outside THEN "bundled"
    ELSE IF v # 0 /\ bin_path(v) THEN "managed"
    ELSE IF "path" \in outside THEN "path" ELSE "none"

\* The first Node of the settings, the bundle, the vendored copy, the runtimes, the PATH.
resolve_node == Nodes # {}

launch ==
    /\ resolve_node
    /\ \E outside \in Outside, newest \in resolve_version :
          LET from == resolve_bin(outside, newest)
              v == IF from = "managed" THEN newest ELSE 0
          IN  /\ from # "none"
              /\ boot' = [from |-> from, version |-> v, whole |-> v = 0 \/ Whole(v), torn |-> v \in torn]
    /\ UNCHANGED <<dir, active, threads, counts, torn>>

Crash ==
    /\ crashes < MaxCrashes /\ crashes' = crashes + 1
    /\ threads' = [t \in Threads |-> Idle] /\ boot' = NoBoot
    /\ UNCHANGED <<dir, active, commands, torn>>

Init ==
    /\ dir = [v \in Versions |-> NoDir] /\ active = 0 /\ threads = [t \in Threads |-> Idle]
    /\ boot = NoBoot /\ commands = 0 /\ crashes = 0 /\ torn = {}

ThreadStep(t) ==
    \/ repair(t) \/ Wipe(t) \/ install_from_source(t) \/ Replace(t) \/ copy_tree(t) \/ restore_junctions(t)
    \/ CopyFails(t) \/ FinishInstall(t) \/ remove(t) \/ RemovePointer(t)

Next ==
    \/ \E t \in Threads : ThreadStep(t)
    \/ \E t \in Threads, v \in Versions, source \in Sources : runtime_install(t, v, source)
    \/ \E t \in Threads, v \in Versions, source \in Sources \cup {"none"} : runtime_repair(t, v, source)
    \/ \E t \in Threads, v \in Versions : runtime_remove(t, v)
    \/ \E v \in Versions : set_active(v)
    \/ launch \/ Crash

Spec == Init /\ [][Next]_vars

-----------------------------------------------------------------------------
\* A managed runtime that a launch runs is a whole tree of one source, whatever was
\* there before, if the last import of its version went through with nobody else at it
\* and nothing touched it since ("the manager never advertises a broken dir").
BootsWholeRuntime == boot.torn \/ boot.whole

=============================================================================
