-------------------------- MODULE InstanceProfile ---------------------------
(***************************************************************************)
(* One instance's DSH profile and the three things the launcher keeps      *)
(* beside it: the rescue point (dsh-adapter/src/rescue.rs), the Library    *)
(* cache (commands/plugins.rs) and the scratch profile of safe mode        *)
(* (safe_boot.rs).  Jobs and launches take turns under the instance's      *)
(* gate, which JobGate models; a late boot is finalized and the rescue     *)
(* commands run outside of it.  The launcher may die at any step.          *)
(*                                                                         *)
(* Files that hold one fact each: package.json and node_modules are the    *)
(* set of packages; cordis.patch.yml the packages that have rows in it;    *)
(* pnpm-workspace.yaml the packages approved for build scripts.            *)
(***************************************************************************)
EXTENDS SafeProfile, LibraryCache, Naturals, Sequences

CONSTANTS Unbuilt,      \* client bundles whose built entry is missing
          MaxJobs,      \* bound: jobs and launches
          MaxCommands,  \* bound: rescue commands
          MaxCrashes    \* bound: deaths of the launcher

ASSUME ProfileAssumption ==
    /\ Skins \subseteq Pkgs /\ Renamed \subseteq Pkgs /\ FirstParty \subseteq Pkgs
    /\ Unbuilt \subseteq Pkgs \ Skins
    /\ {"absent", "-"} \cap Pkgs = {}
    /\ MaxJobs \in Nat /\ MaxCommands \in Nat /\ MaxCrashes \in Nat

VARIABLES
    live,    \* the profile's files
    point,   \* the copies of them in the rescue directory
    meta,    \* snapshot.json can be read: there is a rescue point
    cache,   \* library-inventory.json
    skins,   \* the manifest's skin records
    safe,    \* the scratch profile
    job,     \* what runs under the gate: its kind, step and package
    cmd,     \* the rescue command that runs
    left,    \* files a snapshot has yet to copy
    slot,    \* the child slot
    boot,    \* the last harness started: booted safely, what it loads
    late,    \* what the watcher of a late boot does
    jobs, cmds, crashes,   \* counted against the bounds
    good,    \* history: combinations of files that came up, or that the user marked
    known,   \* history: one of them was captured
    whole,   \* history: no file changed under a snapshot since the boot or mark it is of
    blurred, \* history: the rescue point is of a snapshot that failed or was disturbed
    owed     \* history: a command failed, was cut short or went past the gate since the last scan

profile == <<live, skins>>
books == <<jobs, cmds, crashes>>
history == <<good, known, whole, blurred, owed>>
vars == <<profile, point, meta, cache, safe, job, cmd, left, slot, boot, late, books, history>>

Absent == {"absent"}   \* a file that is not there
FileNames == {"package", "patch", "builds"}
Combo == [FileNames -> {Absent} \cup SUBSET Pkgs]
Writers == {"job", "cmd", "late"}
NoJob == [kind |-> "none", step |-> "none", pkg |-> "-"]
Cache == [rows : SUBSET InstalledPlugin, skins : SUBSET Pkgs]
NoCache == [rows |-> {}, skins |-> {}]   \* what a cache that cannot be read counts as
NoSafe == [tier |-> "none", bundles |-> {}, dropped |-> {}]
NoBoot == [safe |-> FALSE, loaded |-> {}]
Launches == {"launch", "safe"}
Kinds == Launches \cup {"install", "uninstall", "toggle", "allow", "sync"}
Steps == {"check", "reserve", "add", "land", "remove", "unrow", "flip", "approve", "refresh", "rebuild",
          "compose", "dump", "switch", "prepare", "spawn", "wait", "verdict", "copy"}

TypeOK ==
    /\ live \in Combo /\ point \in Combo /\ meta \in BOOLEAN
    /\ cache \in Cache /\ skins \subseteq Pkgs
    /\ safe \in {NoSafe} \cup [tier : {"plugins", "minimal"}, bundles : SUBSET (Pkgs \cup Minimal), dropped : SUBSET Pkgs]
    /\ job \in [kind : Kinds, step : Steps, pkg : Pkgs \cup {"-"}] \cup {NoJob}
    /\ cmd \in {"none", "mark", "restore"}
    /\ left \in [Writers -> Seq(FileNames \cup {"meta"})]
    /\ slot \in {"empty", "booting", "up", "over"}
    /\ boot \in [safe : BOOLEAN, loaded : SUBSET Pkgs]
    /\ late \in {"none", "watch", "verdict", "copy"}
    /\ jobs \in 0..MaxJobs /\ cmds \in 0..MaxCommands /\ crashes \in 0..MaxCrashes
    /\ good \subseteq Combo /\ known \in BOOLEAN /\ blurred \in BOOLEAN /\ owed \in BOOLEAN
    /\ whole \in [Writers -> BOOLEAN]

\* The files that are there, in the order they are copied.
IfPresent(files, f) == IF files[f] = Absent THEN <<>> ELSE <<f>>
Present(files) == IfPresent(files, "package") \o IfPresent(files, "patch") \o IfPresent(files, "builds")
Package == IF live["package"] = Absent THEN {} ELSE live["package"]
Patch == IF live["patch"] = Absent THEN {} ELSE live["patch"]

Started(kind) == job.kind = kind
InStep(step) == job.step = step
GoOn(step) == job' = [job EXCEPT !.step = step]
EndJob == job' = NoJob
SlotFree == late \in {"none", "watch"}   \* finalizing a late boot holds the slot's lock

\* No snapshot is being taken.
Settled == \A w \in Writers : left[w] = <<>> \/ (w = "cmd" /\ cmd = "restore")

\* A file that changes disturbs the snapshots that copy it, or will once the boot is up.
Disturb(new) == whole' = IF new = live THEN whole ELSE [w \in Writers |-> FALSE]

-----------------------------------------------------------------------------
\* Snapshots.

\* The copies of a snapshot, and its metadata at the end.
create_snapshot(w) == left' = [left EXCEPT ![w] = Present(live) \o <<"meta">>]

Reserved == GoOn(IF Started("allow") THEN "approve" ELSE "check")

\* What the one who takes a snapshot does next.
AfterSnapshot(w) ==
    CASE w = "cmd" -> cmd' = "none" /\ UNCHANGED <<job, slot, late>>
      [] w = "late" -> late' = "none" /\ slot' = "up" /\ UNCHANGED <<job, cmd>>
      [] w = "job" /\ InStep("copy") -> EndJob /\ slot' = "up" /\ UNCHANGED <<cmd, late>>
      [] OTHER -> Reserved /\ UNCHANGED <<cmd, slot, late>>

CopyFile(w) ==
    /\ left[w] # <<>> /\ Head(left[w]) # "meta" /\ ~(w = "cmd" /\ cmd = "restore")
    /\ point' = [point EXCEPT ![Head(left[w])] = live[Head(left[w])]]
    /\ left' = [left EXCEPT ![w] = Tail(@)]
    /\ UNCHANGED <<profile, meta, cache, safe, job, cmd, slot, boot, late, books, history>>

\* The metadata makes it a rescue point.  A reservation copies whatever is there; a
\* boot and a mark vouch for it.
write_meta(w) ==
    /\ left[w] = <<"meta">>
    /\ meta' = TRUE /\ left' = [left EXCEPT ![w] = <<>>]
    /\ IF w = "job" /\ InStep("reserve") THEN UNCHANGED <<known, blurred>>
       ELSE IF whole[w]
       THEN known' = TRUE /\ blurred' = (blurred /\ \E v \in Writers \ {w} : left[v] # <<>>)
       ELSE blurred' = TRUE /\ UNCHANGED known
    /\ AfterSnapshot(w)
    /\ UNCHANGED <<profile, point, cache, safe, boot, books, good, whole, owed>>

\* A copy that fails leaves those before it; nobody's job fails with it but a mark.
SnapshotFails(w) ==
    /\ left[w] # <<>> /\ ~(w = "cmd" /\ cmd = "restore")
    /\ left' = [left EXCEPT ![w] = <<>>] /\ blurred' = TRUE
    /\ AfterSnapshot(w)
    /\ UNCHANGED <<profile, point, meta, cache, safe, boot, books, good, known, whole, owed>>

snapshot_status == meta

\* MUTANT: the point is replaced before every change.
SnapshotAlways ==
    IF Present(live) = <<>> THEN Reserved /\ UNCHANGED left ELSE create_snapshot("job") /\ UNCHANGED job

\* A point is taken only when there is none, nor without files.
snapshot_if_absent ==
    IF snapshot_status \/ Present(live) = <<>> THEN Reserved /\ UNCHANGED left ELSE create_snapshot("job") /\ UNCHANGED job

\* Installs reserve a point before anything else, removals and toggles never do.
reserve_rescue_point ==
    /\ InStep("reserve") /\ left["job"] = <<>>
    /\ snapshot_if_absent
    /\ UNCHANGED <<profile, point, meta, cache, safe, cmd, slot, boot, late, books, history>>

\* The user's "mark the current state as good".  Marks and restores are not gated.
rescue_create ==
    /\ cmd = "none" /\ cmds < MaxCommands /\ cmds' = cmds + 1
    /\ Present(live) # <<>>
    /\ cmd' = "mark" /\ create_snapshot("cmd")
    /\ good' = good \cup {live} /\ whole' = [whole EXCEPT !["cmd"] = TRUE]
    /\ UNCHANGED <<profile, point, meta, cache, safe, job, slot, boot, late, jobs, crashes, known, blurred, owed>>

\* A restore copies back every file the point has, and deletes none; the skin records
\* and the Library stay as they are.
rescue_restore ==
    /\ cmd = "none" /\ cmds < MaxCommands /\ cmds' = cmds + 1
    /\ SlotFree /\ slot = "empty" /\ snapshot_status
    /\ cmd' = "restore" /\ left' = [left EXCEPT !["cmd"] = Present(point)]
    /\ UNCHANGED <<profile, point, meta, cache, safe, job, slot, boot, late, jobs, crashes, history>>

RestoreFile ==
    /\ cmd = "restore" /\ left["cmd"] # <<>>
    /\ LET file == Head(left["cmd"])
           new == [live EXCEPT ![file] = point[file]]
       IN  live' = new /\ Disturb(new) /\ owed' = (owed \/ new # live)
    /\ left' = [left EXCEPT !["cmd"] = Tail(@)]
    /\ UNCHANGED <<skins, point, meta, cache, safe, job, cmd, slot, boot, late, books, good, known, blurred>>

RestoreEnds ==
    /\ cmd = "restore"
    /\ cmd' = "none" /\ left' = [left EXCEPT !["cmd"] = <<>>]
    /\ UNCHANGED <<profile, point, meta, cache, safe, job, slot, boot, late, books, history>>

-----------------------------------------------------------------------------
\* Jobs.

First == [install |-> "reserve", uninstall |-> "check", toggle |-> "check", allow |-> "check",
          sync |-> "refresh", launch |-> "switch", safe |-> "compose"]

run_instance_job(kind, p) ==
    /\ job = NoJob /\ jobs < MaxJobs /\ jobs' = jobs + 1
    /\ job' = [kind |-> kind, step |-> First[kind], pkg |-> p]
    /\ UNCHANGED <<profile, point, meta, cache, safe, cmd, left, slot, boot, late, cmds, crashes, history>>

\* The user's commands and the queue's installs.
Begin ==
    \/ \E p \in Pkgs \ Package : run_instance_job("install", p)
    \/ \E p \in Package, kind \in {"uninstall", "toggle", "allow"} : run_instance_job(kind, p)
    \/ \E kind \in Launches : run_instance_job(kind, "-")

\* Some time after a boot was finalized the Library is brought up to date, whatever
\* has become of the harness by then.
InventorySync == boot # NoBoot /\ run_instance_job("sync", "-")

\* A job that fails is over; what it wrote stays, unseen by the Library.
JobFails ==
    /\ job.step \in {"check", "add", "land", "unrow"}
    /\ EndJob /\ owed' = (owed \/ job.step \in {"land", "unrow"})
    /\ UNCHANGED <<profile, point, meta, cache, safe, cmd, left, slot, boot, late, books, good, known, whole, blurred>>

\* A profile that is in use is left alone, and so is one whose child just died.
ensure_not_running ==
    /\ InStep("check") /\ SlotFree /\ slot = "empty"
    /\ GoOn(CASE Started("install") -> "add" [] Started("uninstall") -> "remove"
              [] Started("toggle") -> "flip" [] Started("allow") -> "reserve")
    /\ UNCHANGED <<profile, point, meta, cache, safe, cmd, left, slot, boot, late, books, history>>

\* A step of a job that writes profile files.
Change(from, new, to) ==
    /\ InStep(from) /\ live' = new /\ Disturb(new)
    /\ IF to = "none" THEN EndJob ELSE GoOn(to)
    /\ UNCHANGED <<point, meta, cache, safe, cmd, left, slot, boot, late, books, good, known, blurred, owed>>

PluginAdd ==
    /\ Change("add", [live EXCEPT !["package"] = Package \cup {job.pkg}, !["patch"] = Patch], "land")
    /\ UNCHANGED skins

\* Install is not enable; a bundle that was not built is refused here, and stays.
land_install_disabled ==
    /\ job.pkg \notin Unbuilt
    /\ Change("land", [live EXCEPT !["patch"] = IF job.pkg \in Skins THEN Patch \ {job.pkg} ELSE Patch \cup {job.pkg}],
              "refresh")
    /\ skins' = skins \cup ({job.pkg} \cap Skins)

PluginRemove ==
    /\ Change("remove", [live EXCEPT !["package"] = Package \ {job.pkg}], "unrow")
    /\ skins' = skins \ {job.pkg}

remove_patch_rows ==
    /\ Change("unrow", [live EXCEPT !["patch"] = Patch \ {job.pkg}], "refresh") /\ UNCHANGED skins

\* What was not built must not be armed again.
plugin_toggle ==
    /\ ~(job.pkg \in Unbuilt /\ job.pkg \in Patch)
    /\ Change("flip", [live EXCEPT !["patch"] = IF job.pkg \in Patch THEN Patch \ {job.pkg} ELSE Patch \cup {job.pkg}],
              "refresh")
    /\ UNCHANGED skins

insert_allow_build(builds, p) == IF builds = Absent THEN {p} ELSE builds \cup {p}
add_allow_build(files, p) == [files EXCEPT !["builds"] = insert_allow_build(@, p)]

\* No row of the Library depends on it.
plugin_allow_build == Change("approve", add_allow_build(live, job.pkg), "none") /\ UNCHANGED skins

\* Bundles without their entry are turned off, but for those that have no row to turn
\* off, or whose row cannot be written: they are passed over.
Quarantined(missed) ==
    LET off == (Package \cap Unbuilt) \ missed
    IN  IF off = {} THEN live ELSE [live EXCEPT !["patch"] = Patch \cup off]

\* A cache that could not be written is as it was, or torn.
CacheFails == cache' \in {cache, NoCache}

\* The live half of a reconcile, skipped unless the harness is up; its failure ends it.
running_port == slot = "up"
refresh_plugin_inventory_cache ==
    /\ InStep("refresh") /\ SlotFree
    /\ \/ ~running_port /\ GoOn("rebuild") /\ UNCHANGED <<cache, owed>>
       \/ /\ running_port /\ GoOn("rebuild") /\ UNCHANGED owed
          /\ cache' = [rows |-> Refreshed(cache.rows, boot.loaded), skins |-> skins]
       \/ running_port /\ EndJob /\ CacheFails /\ owed' = (owed \/ ~Started("sync") \/ cache' # cache)
    /\ UNCHANGED <<profile, point, meta, safe, cmd, left, slot, boot, late, books, good, known, whole, blurred>>

\* The disk half fails when the manifest cannot be read, or the cache written.
rebuild_library_inventory_cache_from_disk ==
    /\ InStep("rebuild") /\ EndJob
    /\ \E missed \in SUBSET Unbuilt :
          /\ live' = Quarantined(missed) /\ Disturb(Quarantined(missed))
          /\ \/ /\ cache' = [rows |-> Rebuilt(cache.rows, Package', Patch'), skins |-> skins]
                /\ owed' = FALSE
             \/ CacheFails /\ owed' = TRUE
    /\ UNCHANGED <<skins, point, meta, safe, cmd, left, slot, boot, late, books, good, known, blurred>>

-----------------------------------------------------------------------------
\* Launches.

\* Safe mode writes the scratch profile of a tier and lets dsh compose it; a refusal
\* leads to the next tier or to the end, and no answer to the end at once.
write_safe_profile ==
    /\ InStep("compose")
    /\ \E tier \in {"plugins", "minimal"} : safe' = plan_bundles(Package, tier)
    /\ GoOn("dump")
    /\ UNCHANGED <<profile, point, meta, cache, cmd, left, slot, boot, late, books, history>>

do_safe_launch ==
    /\ InStep("dump")
    /\ \E verdict \in prepare_safe_profile :
          \/ verdict = "composed" /\ GoOn("switch") /\ UNCHANGED safe
          \/ /\ verdict = "refused"
             /\ \E tier \in Narrower(safe.tier) : safe' = plan_bundles(Package, tier)
             /\ UNCHANGED job
          \/ /\ verdict = "error" \/ (verdict = "refused" /\ Narrower(safe.tier) = {})
             /\ EndJob /\ UNCHANGED safe
    /\ UNCHANGED <<profile, point, meta, cache, cmd, left, slot, boot, late, books, history>>

\* MUTANT: a safe boot quarantines as well.
SwitchToPrepare ==
    /\ InStep("switch") /\ SlotFree
    /\ IF slot \in {"booting", "up"} /\ Started("launch")
       THEN EndJob /\ UNCHANGED <<slot, late>>
       ELSE GoOn("prepare") /\ slot' = (IF slot = "over" THEN slot ELSE "empty") /\ late' = "none"
    /\ UNCHANGED <<profile, point, meta, cache, safe, cmd, left, boot, books, history>>

\* A harness that is up answers a normal launch, and makes way for a safe one.
Switch ==
    /\ InStep("switch") /\ SlotFree
    /\ IF slot \in {"booting", "up"} /\ Started("launch")
       THEN EndJob /\ UNCHANGED <<slot, late>>
       ELSE /\ GoOn(IF Started("launch") THEN "prepare" ELSE "spawn")
            /\ slot' = IF slot = "over" THEN slot ELSE "empty"
            /\ late' = "none"
    /\ UNCHANGED <<profile, point, meta, cache, safe, cmd, left, boot, books, history>>

remove_safe_profile == {NoSafe, safe}

\* A normal boot drops the scratch profile, if it can, and quarantines.
Prepare ==
    /\ InStep("prepare") /\ GoOn("spawn")
    /\ safe' \in remove_safe_profile
    /\ \E missed \in SUBSET Unbuilt :
          /\ live' = Quarantined(missed) /\ Disturb(Quarantined(missed))
          /\ owed' = (owed \/ Quarantined(missed) # live)
    /\ UNCHANGED <<skins, point, meta, cache, cmd, left, slot, boot, late, books, good, known, blurred>>

\* DSH makes the profile it is to load when there is none.
Materialized == IF live["package"] = Absent THEN [live EXCEPT !["package"] = {}, !["patch"] = {}] ELSE live

Spawn ==
    /\ InStep("spawn") /\ GoOn("wait")
    /\ boot' = [safe |-> Started("safe"), loaded |-> IF Started("safe") THEN {} ELSE {p \in Package : Enabled(p, Patch)}]
    /\ live' = IF Started("safe") THEN live ELSE Materialized
    /\ whole' = [w \in Writers |-> w # "cmd" \/ (whole[w] /\ live' = live)]
    /\ owed' = (owed \/ live' # live)
    /\ UNCHANGED <<skins, point, meta, cache, safe, cmd, left, slot, late, books, good, known, blurred>>

SpawnFails ==
    /\ InStep("spawn") /\ EndJob
    /\ UNCHANGED <<profile, point, meta, cache, safe, cmd, left, slot, boot, late, books, history>>

\* The URL is printed in time, or the child dies, or it is left to the watcher.
AwaitUrl ==
    /\ InStep("wait")
    /\ \/ GoOn("verdict") /\ UNCHANGED <<slot, late>>
       \/ EndJob /\ slot' = "over" /\ UNCHANGED late
       \/ EndJob /\ slot' = "booting" /\ late' = "watch"
    /\ UNCHANGED <<profile, point, meta, cache, safe, cmd, left, boot, books, history>>

\* A boot of the user's own profile whose URL is not refused refreshes the rescue
\* point; any other leaves it.
finalize_ready(w) ==
    \E verdict \in check_root :
       IF verdict = "refused" \/ boot.safe
       THEN /\ slot' = "up"
            /\ IF w = "job" THEN EndJob /\ UNCHANGED late ELSE late' = "none" /\ UNCHANGED job
            /\ UNCHANGED <<left, good>>
       ELSE /\ create_snapshot(w) /\ good' = IF whole[w] THEN good \cup {live} ELSE good
            /\ IF w = "job" THEN GoOn("copy") /\ UNCHANGED late ELSE late' = "copy" /\ UNCHANGED job
            /\ UNCHANGED slot

Verdict(w) ==
    /\ IF w = "job" THEN InStep("verdict") ELSE w = "late" /\ late = "verdict"
    /\ finalize_ready(w)
    /\ UNCHANGED <<profile, point, meta, cache, safe, cmd, boot, books, known, whole, blurred, owed>>

\* The late URL takes the slot's lock until the boot is finalized.
LateUrl ==
    /\ late = "watch" /\ late' = "verdict"
    /\ UNCHANGED <<profile, point, meta, cache, safe, job, cmd, left, slot, boot, books, history>>

\* The user stops the harness, it ends by itself, or the poll finds it over.
Stopped ==
    /\ SlotFree /\ slot # "empty" /\ slot' = "empty" /\ late' = "none"
    /\ UNCHANGED <<profile, point, meta, cache, safe, job, cmd, left, boot, books, history>>

\* The launcher dies.  A cache or a metadata file it was writing may be torn, and is
\* then read as if it were not there.
Crash ==
    /\ crashes < MaxCrashes /\ crashes' = crashes + 1
    /\ EndJob /\ cmd' = "none" /\ left' = [w \in Writers |-> <<>>] /\ slot' = "empty" /\ late' = "none"
    /\ cache' \in {cache} \cup IF InStep("refresh") \/ InStep("rebuild") THEN {NoCache} ELSE {}
    /\ meta' \in {meta} \cup IF \E w \in Writers : left[w] = <<"meta">> THEN {FALSE} ELSE {}
    /\ blurred' = (blurred \/ ~Settled)
    /\ owed' = (owed \/ job.step \in {"land", "unrow", "refresh", "rebuild"})
    /\ UNCHANGED <<profile, point, safe, boot, jobs, cmds, good, known, whole>>

Init ==
    /\ live = [f \in FileNames |-> Absent] /\ point = live /\ meta = FALSE
    /\ cache = NoCache /\ skins = {} /\ safe = NoSafe
    /\ job = NoJob /\ cmd = "none" /\ left = [w \in Writers |-> <<>>]
    /\ slot = "empty" /\ boot = NoBoot /\ late = "none"
    /\ jobs = 0 /\ cmds = 0 /\ crashes = 0
    /\ good = {} /\ known = FALSE /\ blurred = FALSE /\ owed = FALSE
    /\ whole = [w \in Writers |-> FALSE]

JobStep ==
    \/ ensure_not_running \/ reserve_rescue_point \/ PluginAdd \/ land_install_disabled \/ PluginRemove
    \/ remove_patch_rows \/ plugin_toggle \/ plugin_allow_build \/ JobFails
    \/ refresh_plugin_inventory_cache \/ rebuild_library_inventory_cache_from_disk

LaunchStep ==
    \/ write_safe_profile \/ do_safe_launch \/ Switch \/ Prepare \/ Spawn \/ SpawnFails
    \/ AwaitUrl \/ Verdict("job")

LateStep == LateUrl \/ Verdict("late")

Next ==
    \/ Begin \/ InventorySync
    \/ JobStep \/ LaunchStep \/ LateStep
    \/ rescue_create \/ rescue_restore \/ RestoreFile \/ RestoreEnds
    \/ \E w \in Writers : CopyFile(w) \/ write_meta(w) \/ SnapshotFails(w)
    \/ Stopped \/ Crash

Spec == Init /\ [][Next]_vars

-----------------------------------------------------------------------------
\* "A rescue point is only worth restoring if it holds a state that was known to boot"
\* (snapshot_if_absent): once a boot or a mark captured one, the point is a combination
\* of files that came up together or that the user marked, whatever is installed,
\* restored and launched since, but for a snapshot that failed or was disturbed.
KnownGoodKept == known /\ ~blurred /\ Settled => point \in good

\* The Library shows the packages of the profile, each once, with the state the next
\* boot gives it, and the skin records without a package: every change brings it up to
\* date, unless it failed, was cut short or went past the gate (rebuild_library_...).  A skin
\* whose package a restore took away has no state, or the one of the harness that still
\* had it loaded, if the live row bears the package's name (skin_inventory_plugin).
LibraryMatchesDisk ==
    job = NoJob /\ ~owed
       => \E loaded \in SUBSET ((skins \ Package) \ Renamed) :
             library_inventory_detail(cache.rows, cache.skins)
                = {[pkg |-> p, on |-> {Enabled(p, Patch)}] : p \in Package}
                  \cup {[pkg |-> p, on |-> {}] : p \in (skins \ Package) \ loaded}
                  \cup {[pkg |-> p, on |-> {TRUE}] : p \in loaded}

\* What a safe boot does from its first step until it is up, in time or late.
SafeBootStep ==
    \/ LaunchStep /\ Started("safe")
    \/ boot.safe /\ (LateStep \/ CopyFile("late") \/ (InStep("copy") /\ CopyFile("job")))

\* "The user's profile is never touched" (safe_boot.rs): until it is up, in time or
\* late, a safe boot writes no file of it, no rescue point and no Library.  The sync
\* that follows it is not bound by this: its quarantine does write the patch.
SafeBootLeavesProfile == [][SafeBootStep => UNCHANGED <<profile, point, meta, cache>>]_vars

=============================================================================
