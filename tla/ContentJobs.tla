---------------------------- MODULE ContentJobs -----------------------------
(***************************************************************************)
(* What the install, update, toggle and uninstall commands of one instance *)
(* do to its manifest, its profile patch, its package tree, its skill      *)
(* directories and the market metadata (commands/content.rs, plugins.rs).  *)
(*                                                                         *)
(* One command runs at a time: all of them hold the instance's heavy-job   *)
(* gate (module JobGate).  A command is a list of writes still to do; each *)
(* is a step, the launcher may exit before any of them, and what is on     *)
(* disk stays.  `dsh plugin` is external: it changes the package tree or   *)
(* exits with an error.                                                    *)
(***************************************************************************)
EXTENDS ProfilePatch, McpSource, McpProbe, Integers, Sequences

CONSTANTS Skills,      \* catalog skills
          Themes,      \* the packages the catalog lists as skins
          Bundles,     \* the packages that declare dsh.bundle
          Clients,     \* the packages that declare dsh.client
          RowIds,      \* RowIds[p][v]: the loader rows version v of a bundle inserts
          Catalog,     \* Catalog[m]: the catalog entry of a server
          NeedsToken,  \* servers whose record carries an unset credential
          Toolbox,     \* the tools on the machine
          Provider,    \* a provider key is configured
          Files,       \* FilesOf[v]: the files of version v of a skill, SKILL.md apart
          FilesOf,
          Root,        \* Root[p]: what the whole repository of skin p was installed as, if ever
          Alike,       \* Alike[p]: the skins whose key ends in something that p's name contains
          Pinned,      \* skills with a raw URL to fall back on when the clone fails
          Families,    \* each behaviour works on the items of one of these sets
          MaxJobs,     \* bound: commands per behaviour
          MaxCrashes   \* bound: exits of the launcher in the middle of one

Versions == 1..2
Items == Servers \cup Skills \cup Pkgs

ASSUME ContentAssumption ==
    /\ Themes \subseteq Pkgs /\ Bundles \subseteq Pkgs /\ Clients \subseteq Pkgs
    /\ NeedsToken \subseteq Servers /\ Pinned \subseteq Skills
    /\ Servers \cap Skills = {} /\ Servers \cap Pkgs = {} /\ Skills \cap Pkgs = {}
    /\ "SKILL.md" \notin Files
    /\ Families \subseteq SUBSET Items
    /\ RowIds \in [Pkgs -> [Versions -> SUBSET Ids]]
    /\ Catalog \in [Servers -> Entry]
    /\ FilesOf \in [Versions -> SUBSET Files]
    /\ Root \in [Pkgs -> SUBSET Pkgs] /\ Alike \in [Pkgs -> SUBSET Pkgs]
    /\ Toolbox \subseteq Tools /\ Provider \in BOOLEAN
    /\ MaxJobs \in Nat /\ MaxCrashes \in Nat

VARIABLES
    scope,     \* the items of this behaviour
    mcp,       \* manifest: a server's record is "absent", "on" or "off"
    skins,     \* manifest: a skin's record, likewise
    skills,    \* manifest: version of a skill's record; 0 is one without a hash, -1 none
    patch,     \* cordis.patch.yml
    nm,        \* node_modules: version of a package (0 absent), and whether its entry is built
    deps,      \* the packages dsh lists in the profile; a bundle among them is loaded
    cache,     \* clone of a package's repository: "none", "whole", or "broken" (cut off)
    linked,    \* packages in node_modules that are links into their clone
    build,     \* a source server's directory: "none", "clone" or "built"
    health,    \* runtime.json of each server
    meta,      \* the items with market metadata
    disk,      \* skill directories: the version of each file, 0 where there is none
    stray,     \* skill directories with a left-over temporary file
    upstream,  \* the version each skill's author serves
    running,   \* DSH runs on the profile
    job,       \* the command in progress
    last,      \* how the last one ended
    unsynced,  \* history: items whose record the command in progress has changed and not yet compiled
    cut,       \* history: items a command that failed or was cut off left so, and none has compiled since
    rewritten, \* history: skills whose directory is being changed, or was left so
    spared,    \* history: bundles with a row that the launch of the running DSH could not turn off
    jobs, crashes

manifest == <<mcp, skins, skills>>
trees == <<nm, deps, cache, linked, build, disk, stray>>
history == <<unsynced, cut, rewritten, spared>>
bounds == <<scope, jobs, crashes>>
vars == <<manifest, trees, patch, health, meta, upstream, running, job, last, history, bounds, probe>>

AllFiles == Files \cup {"SKILL.md"}
SkillRecord == Versions \cup {0, -1}
OnOff == {"absent", "on", "off"}

Starts == {"skill", "skillUpdate", "skillRemove", "mcp", "mcpRemove", "mcpOn", "mcpOff", "health",
           "import", "plugin", "rawPlugin", "pluginRemove", "pluginOn", "pluginOff", "pluginUpdate", "bundle"}
Ops == {"fetchSkill", "files", "rename", "prune", "recordSkill", "rmDir", "unrecordSkill",
        "fetch", "clone", "build", "record", "syncMcp", "probe", "unrecord", "rmMcpDir", "setMcp",
        "dropRoot", "resolve", "add", "gate", "dshRemove", "pruneNm", "land", "rowOff", "rowOn", "dropSkin", "rmRows",
        "syncSkin", "setSkin", "update", "meta", "unmeta", "reconcile", "next", "fail"}

\* A write still to do: what, to which item, and the file or the value it is about.
Op(o, x) == [op |-> o, of |-> x, at |-> "-"]
OpAt(o, x, a) == [op |-> o, of |-> x, at |-> a]
Targets == {"-", "dir", "name", "raw", "must", "try", "on", "off"}
OpSet == [op : Ops, of : Items, at : Targets \cup AllFiles]

\* The command in progress: the class, the version and files it
\* fetched, the rows and files it still has to write and the pre-existing flag are the code's own; `had` is what
\* really was recorded when the command began.
Job == [kind : Starts \cup {"none"}, item : Items \cup {"-"}, todo : Seq(OpSet),
        cls : {"-", "remote", "registry", "source"}, ver : 0..2, rows : SUBSET Ids,
        bundle : SUBSET Files, files : SUBSET Files, pre : BOOLEAN, had : SUBSET Items, failed : BOOLEAN]
End == [kind : Starts \cup {"none"}, item : Items \cup {"-"},
        res : {"-", "ok", "failed", "rolledBack"}, had : SUBSET Items]

NoJob == [kind |-> "none", item |-> "-", todo |-> <<>>, cls |-> "-", ver |-> 0, rows |-> {},
          bundle |-> {}, files |-> {}, pre |-> FALSE, had |-> {}, failed |-> FALSE]
NoEnd == [kind |-> "none", item |-> "-", res |-> "-", had |-> {}]

TypeOK ==
    /\ scope \in SUBSET Items
    /\ mcp \in [Servers -> OnOff] /\ skins \in [Pkgs -> OnOff] /\ skills \in [Skills -> SkillRecord]
    /\ patch \in Patch
    /\ nm \in [Pkgs -> [ver : 0..2, built : BOOLEAN]] /\ deps \in SUBSET Pkgs
    /\ cache \in [Pkgs -> {"none", "whole", "broken"}] /\ linked \in SUBSET Pkgs
    /\ build \in [Servers -> {"none", "clone", "built"}]
    /\ health \in [Servers -> States] /\ meta \in SUBSET Items
    /\ disk \in [Skills -> [AllFiles -> 0..2]] /\ stray \in SUBSET Skills
    /\ upstream \in [Skills -> Versions] /\ running \in BOOLEAN
    /\ job \in Job /\ last \in End
    /\ unsynced \in SUBSET Items /\ cut \in SUBSET Items
    /\ rewritten \in SUBSET Skills /\ spared \in SUBSET Pkgs
    /\ jobs \in Nat /\ crashes \in Nat
    /\ ProbeTypeOK

-----------------------------------------------------------------------------
\* What the launcher reads off the disk.

On(f) == {x \in DOMAIN f : f[x] = "on"}
Recorded == {m \in Servers : mcp[m] # "absent"} \cup {s \in Skills : skills[s] # -1}
            \cup deps \cup {p \in Pkgs : skins[p] # "absent"}

\* The rows a package's bundle patch inserts, if the package is there to be read.
parse_inserted_ids(p) == RowIds[p][nm[p].ver]
InsertedRows(p) == IF nm[p].ver = 0 \/ p \notin Bundles THEN {} ELSE parse_inserted_ids(p)

SkinHasBundle(p) == p \in Bundles /\ nm[p].ver # 0
MountsClient(p) == p \in Clients /\ nm[p].ver # 0
EntryExists(p) == nm[p].ver # 0 /\ nm[p].built
Loadable(p) == (SkinHasBundle(p) /\ ~MountsClient(p)) \/ EntryExists(p)

\* Bundles that mount a client whose entry is missing.
Unloadable == {p \in deps : SkinHasBundle(p) /\ MountsClient(p) /\ ~EntryExists(p)}

\* The rows that would break a boot, and those of them that are not off yet.
BreakingRows == UNION {InsertedRows(p) : p \in Unloadable}
LiveRows == BreakingRows \ Disables(patch)

\* MUTANT: only skins are looked at.
QuarantineSkins(f, missed) == DisableRows(f, UNION {InsertedRows(p) : p \in Unloadable \cap Themes} \ missed)

\* Best effort: a row that cannot be written is skipped.
Quarantine(f, missed) == DisableRows(f, BreakingRows \ missed)

\* The skins that are on and do not mount as a bundle.
SkinRows == {p \in On(skins) : ~SkinHasBundle(p)}

\* The loader rows DSH imports at a boot.
Mounted(p) == IF p \in deps THEN InsertedRows(p) \ Disables(patch) ELSE {}

\* The files beside SKILL.md a fetch can bring: all of them, or none when only the
\* raw SKILL.md could be had.
Offers(s, v) == {FilesOf[v]} \cup IF s \in Pinned THEN {{}} ELSE {}

\* A skill is there when its SKILL.md is; that the file is a valid one is not modelled.
skill_disk_state(s) == disk[s]["SKILL.md"] # 0

Holds(s, v, files) == disk[s] = [f \in AllFiles |-> IF f \in files \cup {"SKILL.md"} THEN v ELSE 0]
BundleMatchesDisk(s, v, files) == Holds(s, v, files) /\ s \notin stray

-----------------------------------------------------------------------------
\* A command's course.

Idle == job.kind = "none"
Now == Head(job.todo)
It == Now.of
At(o) == ~Idle /\ Now.op = o
Pending(o) == \E i \in DOMAIN job.todo : job.todo[i].op = o

Finish(j, r) ==
    /\ job' = NoJob
    /\ last' = [kind |-> j.kind, item |-> j.item, res |-> r, had |-> j.had]

Continue(j) ==
    IF j.todo = <<>>
    THEN Finish(j, IF j.failed THEN "failed" ELSE "ok")
    ELSE job' = j /\ UNCHANGED last

Advance == Continue([job EXCEPT !.todo = Tail(@)])
Instead(todo) == Continue([job EXCEPT !.todo = todo])

\* A failed item of a bundle is counted and the next one is tried; any other
\* failure ends the command where it is.
NextItem(i) == job.todo[i].op = "next" /\ \A j \in 1..(i - 1) : job.todo[j].op # "next"
Fail(r) ==
    \/ \E i \in DOMAIN job.todo :
          /\ NextItem(i)
          /\ Continue([job EXCEPT !.todo = SubSeq(@, i + 1, Len(@)), !.failed = TRUE])
    \/ ~Pending("next") /\ Finish(job, r)

Begin(k, x, todo, rows) ==
    /\ Idle /\ jobs < MaxJobs /\ x \in scope
    /\ job' = [NoJob EXCEPT !.kind = k, !.item = x, !.todo = todo, !.rows = rows, !.had = Recorded]
    /\ last' = NoEnd
    /\ jobs' = jobs + 1
    /\ UNCHANGED <<manifest, trees, patch, health, meta, upstream, running, history, scope,
                   crashes, probe>>

\* Every command but a health check refuses while DSH runs.
Enqueue(k, x, todo) == ~running /\ Begin(k, x, todo, {})
-----------------------------------------------------------------------------
\* The commands.

InstallSkill(s) == Enqueue("skill", s, <<Op("fetchSkill", s), Op("recordSkill", s), Op("meta", s),
                                         Op("reconcile", s)>>)

UpdateSkill(s) ==
    Enqueue("skillUpdate", s,
            IF skills[s] = -1 THEN <<Op("fail", s)>>
            ELSE <<Op("fetchSkill", s), Op("recordSkill", s), Op("reconcile", s)>>)

UninstallSkill(s) == Enqueue("skillRemove", s, <<Op("rmDir", s), Op("unrecordSkill", s),
                                                 Op("reconcile", s)>>)

InstallMcp(m) == Enqueue("mcp", m, <<Op("fetch", m), Op("record", m), Op("syncMcp", m),
                                     Op("meta", m), Op("reconcile", m), Op("probe", m)>>)

\* MUTANT: the patch is not compiled again, or the market metadata stays.
DiscardNoSync(m) == <<Op("unrecord", m), Op("rmMcpDir", m), Op("unmeta", m), Op("reconcile", m)>>
DiscardKeepsMeta(m) == <<Op("unrecord", m), Op("syncMcp", m), Op("rmMcpDir", m), Op("reconcile", m)>>

Discard(m) == <<Op("unrecord", m), Op("syncMcp", m), Op("rmMcpDir", m), Op("unmeta", m),
                Op("reconcile", m)>>

UninstallMcp(m) == Enqueue("mcpRemove", m, Discard(m))

\* A toggle that changes nothing ends at once, with no write.
ToggleMcp(m, v) ==
    LET kind == IF v = "on" THEN "mcpOn" ELSE "mcpOff"
    IN  Enqueue(kind, m,
                IF mcp[m] = "absent" THEN <<Op("fail", m)>>
                ELSE IF mcp[m] = v THEN <<Op("next", m)>>
                ELSE <<OpAt("setMcp", m, v), Op("syncMcp", m), Op("reconcile", m)>>)

HealthCheck(m) ==
    Begin("health", m, IF mcp[m] = "absent" THEN <<Op("fail", m)>> ELSE <<Op("probe", m)>>, {})

\* Every server of the file is recorded before the patch is compiled once.
mcp_import_job(m, n) == <<Op("record", m), Op("record", n), Op("syncMcp", n), Op("reconcile", n)>>

\* The chosen servers of a file of another program: no fewer than one.
ImportMcp(m, n) == n \in scope /\ Enqueue("import", m, mcp_import_job(m, n))

\* A package comes by name from the registry, or from a clone of its repository.
Fetched(p, at) == IF at = "dir" THEN <<Op("resolve", p)>> ELSE <<>>

\* MUTANT: an install that does not land the package off.
AddEnabled(p, at) == Fetched(p, at) \o <<OpAt("add", p, at), Op("meta", p)>>

Add(p, at) == Fetched(p, at) \o <<OpAt("add", p, at), Op("land", p), Op("meta", p)>>

\* A skin that lives in a directory of its repository replaces the whole repository.
InstallPlugin(p, at) ==
    LET root == IF p \in Themes /\ at = "dir" /\ Root[p] # {} THEN <<Op("dropRoot", p)>> ELSE <<>>
    IN  Enqueue("plugin", p, root \o Append(Add(p, at), Op("reconcile", p)))

\* A target typed in has no catalog entry: no metadata and no skin record, and
\* only a directory tells the package's name, to turn it off by.
InstallRaw(p, at) ==
    Enqueue("rawPlugin", p,
            Append(Fetched(p, at), OpAt("add", p, at)) \o (IF at = "dir" THEN <<OpAt("land", p, "raw")>> ELSE <<>>)
                                  \o <<Op("reconcile", p)>>)

UninstallPlugin(p) ==
    /\ ~running
    /\ Begin("pluginRemove", p,
             <<OpAt("dshRemove", p, "must"), Op("dropSkin", p), Op("rmRows", p), Op("syncSkin", p),
               Op("reconcile", p)>>, InsertedRows(p))

TogglePlugin(p, v) ==
    LET rowOp == IF v = "on" THEN "rowOn" ELSE "rowOff"
        refused == v = "on" /\ SkinHasBundle(p) /\ MountsClient(p) /\ ~EntryExists(p)
        rows == IF InsertedRows(p) = {} THEN Op("fail", p) ELSE Op(rowOp, p)
        todo == IF refused THEN <<Op("fail", p)>>
                ELSE IF skins[p] = "absent" THEN <<rows>>
                ELSE IF SkinHasBundle(p) THEN <<rows, OpAt("setSkin", p, v)>>
                ELSE <<OpAt("setSkin", p, v), Op("syncSkin", p)>>
    IN  /\ ~running
        /\ Begin(IF v = "on" THEN "pluginOn" ELSE "pluginOff", p,
                 Append(todo, Op("reconcile", p)), InsertedRows(p))

UpdatePlugin(p) == Enqueue("pluginUpdate", p, <<Op("update", p), Op("reconcile", p)>>)

BundleItem(x) ==
    Append(CASE x \in Skills -> <<Op("fetchSkill", x), Op("recordSkill", x), Op("meta", x)>>
             [] x \in Servers -> <<Op("record", x), Op("syncMcp", x), Op("meta", x)>>
             [] x \in Pkgs -> Add(x, "name"),
           Op("next", x))

ImportBundle(x, y) ==
    /\ y \in scope \ {x}
    /\ Enqueue("bundle", x, Append(BundleItem(x) \o BundleItem(y), Op("reconcile", x)))

Start ==
    \/ \E s \in Skills : InstallSkill(s) \/ UpdateSkill(s) \/ UninstallSkill(s)
    \/ \E m \in Servers : InstallMcp(m) \/ UninstallMcp(m) \/ HealthCheck(m)
    \/ \E m \in Servers, v \in {"on", "off"} : ToggleMcp(m, v)
    \/ \E m, n \in Servers : ImportMcp(m, n)
    \/ \E p \in Pkgs, at \in {"dir", "name"} : InstallPlugin(p, at) \/ InstallRaw(p, at)
    \/ \E p \in Pkgs : UninstallPlugin(p) \/ UpdatePlugin(p)
    \/ \E p \in Pkgs, v \in {"on", "off"} : TogglePlugin(p, v)
    \/ \E x, y \in Items : ImportBundle(x, y)

-----------------------------------------------------------------------------
\* Skill directories.

\* An update compares with the record's hash, or with the disk when there is none.
Current(s) == IF skills[s] = 0 THEN disk[s]["SKILL.md"] ELSE skills[s]
\* MUTANT: the hash alone decides.
SameHash(s, v, files) == job.kind = "skillUpdate" /\ Current(s) = v

UpToDate(s, v, files) ==
    job.kind = "skillUpdate" /\ Current(s) = v /\ BundleMatchesDisk(s, v, files)

FetchSkill ==
    /\ At("fetchSkill")
    /\ \/ Fail("failed") /\ UNCHANGED rewritten
       \/ LET s == It
              v == upstream[s]
          IN  \E files \in Offers(s, v) :
              IF UpToDate(s, v, files)
              THEN Instead(Tail(Tail(job.todo))) /\ UNCHANGED rewritten
              ELSE /\ job' = [job EXCEPT !.ver = v, !.bundle = files, !.files = files,
                                         !.todo = <<Op("files", s)>> \o Tail(@)]
                   /\ rewritten' = IF skill_disk_state(s) THEN rewritten \cup {s} ELSE rewritten
                   /\ UNCHANGED last
    /\ UNCHANGED <<manifest, trees, patch, health, meta, upstream, running, unsynced, cut, spared, bounds,
                   probe>>

\* MUTANT: SKILL.md may land before its siblings.
AnyFile == job.files \cup {"SKILL.md"}

\* SKILL.md is the last file to land.
NextFile == IF job.files = {} THEN {"SKILL.md"} ELSE job.files

\* A file is written to a temporary sibling, the old one is removed, then the
\* sibling is renamed.
ReplaceFile ==
    /\ At("files")
    /\ \E f \in NextFile :
          /\ disk' = [disk EXCEPT ![It][f] = 0]
          /\ job' = [job EXCEPT !.files = @ \ {f},
                        !.todo = IF f = "SKILL.md"
                                 THEN <<OpAt("rename", It, f), Op("prune", It)>> \o Tail(@)
                                 ELSE <<OpAt("rename", It, f)>> \o @]
    /\ UNCHANGED <<manifest, nm, deps, cache, linked, build, stray, patch, health, meta, upstream, running, last,
                   history, bounds, probe>>

RenameFile ==
    /\ At("rename")
    /\ disk' = [disk EXCEPT ![It][Now.at] = job.ver]
    /\ Advance
    /\ UNCHANGED <<manifest, nm, deps, cache, linked, build, stray, patch, health, meta, upstream, running,
                   history, bounds, probe>>

\* What the bundle does not carry goes, left-over temporary files with it.
PruneStale ==
    /\ At("prune")
    /\ disk' = [disk EXCEPT ![It] = [f \in AllFiles |->
                    IF f \in job.bundle \cup {"SKILL.md"} THEN @[f] ELSE 0]]
    /\ stray' = stray \ {It}
    /\ rewritten' = rewritten \ {It}
    /\ Advance
    /\ UNCHANGED <<manifest, nm, deps, cache, linked, build, patch, health, meta, upstream, running, unsynced,
                   cut, spared, bounds, probe>>

\* The directory goes file by file, and a file in use stops it.
RemoveSkillDir ==
    /\ At("rmDir")
    /\ LET s == It IN
       \/ /\ \E f \in AllFiles : disk[s][f] # 0 /\ disk' = [disk EXCEPT ![s][f] = 0]
          /\ rewritten' = IF skill_disk_state(s) THEN rewritten \cup {s} ELSE rewritten
          /\ UNCHANGED <<stray, job, last>>
       \/ /\ \A f \in AllFiles : disk[s][f] = 0
          /\ stray' = stray \ {s} /\ rewritten' = rewritten \ {s} /\ Advance
          /\ UNCHANGED disk
       \/ Fail("failed") /\ UNCHANGED <<disk, stray, rewritten>>
    /\ UNCHANGED <<manifest, nm, deps, cache, linked, build, patch, health, meta, upstream, running, unsynced,
                   cut, spared, bounds, probe>>

RecordSkill ==
    /\ \/ At("recordSkill") /\ skills' = [skills EXCEPT ![It] = job.ver]
       \/ At("unrecordSkill") /\ skills' = [skills EXCEPT ![It] = -1]
    /\ Advance
    /\ UNCHANGED <<mcp, skins, trees, patch, health, meta, upstream, running, history, bounds, probe>>

-----------------------------------------------------------------------------
\* Servers.

\* The route: a registry package is fetched into the cache, a repository is
\* cloned and built, and anything else is recorded as it is.
FetchMcp ==
    /\ At("fetch")
    /\ LET e == Catalog[It] IN
       \E plan \in EffectivePlans(e) :
          LET cls == ClassifyInstall(e, plan)
              next == [job EXCEPT !.cls = cls, !.todo = Tail(@)]
          IN  \/ cls = "registry" /\ "ok" \in Prefetch(Toolbox) /\ Continue(next)
              \/ cls = "registry" /\ "err" \in Prefetch(Toolbox) /\ Fail("failed")
              \/ cls = "remote" /\ Continue(next)
              \/ /\ cls = "source"
                 /\ Continue(IF e.github
                             THEN [next EXCEPT !.todo = <<Op("clone", It), Op("build", It)>> \o @]
                             ELSE next)
    /\ UNCHANGED <<manifest, trees, patch, health, meta, upstream, running, history, bounds, probe>>

\* An old clone is removed before git runs.
CloneMcp ==
    /\ At("clone")
    /\ \/ "git" \in Toolbox /\ build' = [build EXCEPT ![It] = "clone"] /\ Advance
       \/ build' = [build EXCEPT ![It] = "none"] /\ Fail("failed")
    /\ UNCHANGED <<manifest, nm, deps, cache, linked, disk, stray, patch, health, meta, upstream, running, history,
                   bounds, probe>>

BuildMcp ==
    /\ At("build")
    /\ \/ /\ "ok" \in InstallLocal(Catalog[It], Toolbox, Provider)
          /\ build' = [build EXCEPT ![It] = "built"] /\ Advance
       \/ /\ "err" \in InstallLocal(Catalog[It], Toolbox, Provider)
          /\ Fail("failed") /\ UNCHANGED build
    /\ UNCHANGED <<manifest, nm, deps, cache, linked, disk, stray, patch, health, meta, upstream, running, history,
                   bounds, probe>>

RecordMcp ==
    /\ \/ At("record") /\ mcp' = [mcp EXCEPT ![It] = "on"]
       \/ At("unrecord") /\ mcp' = [mcp EXCEPT ![It] = "absent"]
       \/ At("setMcp") /\ mcp' = [mcp EXCEPT ![It] = Now.at]
    /\ unsynced' = unsynced \cup {It}
    /\ Continue([job EXCEPT !.todo = Tail(@), !.pre = mcp[It] # "absent"])
    /\ UNCHANGED <<skins, skills, trees, patch, health, meta, upstream, running, cut, rewritten, spared,
                   bounds, probe>>

CompileMcp ==
    /\ At("syncMcp")
    /\ patch' = SyncMcpPatch(patch, On(mcp))
    /\ unsynced' = unsynced \ Servers /\ cut' = cut \ Servers
    /\ Advance
    /\ UNCHANGED <<manifest, trees, health, meta, upstream, running, rewritten, spared, bounds, probe>>

\* Best effort: files in use stay, and are only logged.
RemoveMcpDir ==
    /\ At("rmMcpDir")
    /\ build' = [build EXCEPT ![It] = "none"] \/ UNCHANGED build
    /\ health' = [health EXCEPT ![It] = "untested"] \/ UNCHANGED health
    /\ Advance
    /\ UNCHANGED <<manifest, nm, deps, cache, linked, disk, stray, patch, meta, upstream, running, history, bounds,
                   probe>>

Launchable(m) == \/ Catalog[m].cmd \/ build[m] = "built"
                 \/ "registry" \in EffectivePlans(Catalog[m])

ProbeMcp ==
    /\ At("probe")
    /\ IF probe.phase # "idle" THEN ProbeStep
       ELSE IF Catalog[It].http THEN ProbeHttp
       ELSE ProbeStart(Launchable(It))
    /\ UNCHANGED <<manifest, trees, patch, health, meta, upstream, running, job, last, history,
                   bounds>>

mcp_record_needs_token(m) == m \in NeedsToken

\* MUTANT: a re-install is rolled back like a first one.
FailureEvenIfPresent ==
    job.kind = "mcp" /\ probe.verdict = "error" /\ job.cls # "remote" /\ ~mcp_record_needs_token(It)

\* A server that never answered is a failed install, unless it is hosted
\* elsewhere, waits for a credential or was there before.
GenuineFailure ==
    /\ job.kind = "mcp" /\ probe.verdict = "error"
    /\ job.cls # "remote" /\ ~job.pre /\ ~mcp_record_needs_token(It)

\* The verdict is saved; an install goes on when that fails, a check does not.
ProbeVerdict ==
    /\ At("probe") /\ probe.phase = "done"
    /\ \/ /\ health' = [health EXCEPT ![It] = probe.verdict]
          /\ IF GenuineFailure THEN Instead(Append(Discard(It), Op("fail", It))) ELSE Advance
       \/ /\ UNCHANGED health
          /\ IF job.kind = "mcp" THEN Advance ELSE Fail("failed")
    /\ probe' = NoProbe
    /\ UNCHANGED <<manifest, trees, patch, meta, upstream, running, history, bounds>>

-----------------------------------------------------------------------------
\* Packages.

Absent == [ver |-> 0, built |-> FALSE]
Content(builds) == [ver : Versions, built : builds]

run_git == run_timed("git" \in Toolbox)

\* External: `dsh plugin add`, `update` and `remove`.
run_plugin_command == run_timed(TRUE)

\* A clone that was cut off is not updated but made again.
clone_cache_broken(p) == cache[p] = "broken"
Updatable(p) == cache[p] # "none" /\ ~clone_cache_broken(p)

\* Whether a clone has a package to install: at its root or one level down.
find_skin_subdir == BOOLEAN

\* A clone is updated in place, or wiped and made again when it is broken; a package
\* linked into it changes, or vanishes, with it.
ResolveTarget ==
    /\ At("resolve")
    /\ \E content \in Content(BOOLEAN) \cup (IF Updatable(It) THEN {nm[It]} ELSE {Absent}) :
          nm' = IF It \in linked THEN [nm EXCEPT ![It] = content] ELSE nm
    /\ \E end \in run_git :
       IF Done(end)
       THEN /\ cache' = [cache EXCEPT ![It] = "whole"]
            /\ \E found \in find_skin_subdir : IF found THEN Advance ELSE Fail("failed")
       ELSE /\ cache' \in {[cache EXCEPT ![It] = c] : c \in IF Updatable(It) THEN {cache[It], "broken"}
                                                                  ELSE {"none", "broken"}}
            /\ It \in linked /\ ~Updatable(It) => nm'[It] = Absent
            /\ Fail("failed")
    /\ UNCHANGED <<manifest, deps, linked, build, disk, stray, patch, health, meta, upstream, running,
                   history, bounds, probe>>

\* An add links a clone, built or not, or unpacks a built package of the registry; an
\* update replaces what is there.
Linked(p, builds, link) ==
    /\ \E content \in Content(builds) : nm' = [nm EXCEPT ![p] = content]
    /\ deps' = deps \cup {p}
    /\ linked' = IF link THEN linked \cup {p} ELSE linked \ {p}

\* An item of a bundle or of the market that the registry does not have is tried as a clone.
AddPackage ==
    /\ At("add")
    /\ LET dir == Now.at = "dir"
           builds == IF dir THEN BOOLEAN ELSE {TRUE}
           gate == IF dir THEN <<Op("gate", It)>> ELSE <<>>
       IN  \E end \in run_plugin_command :
           \/ Done(end) /\ Linked(It, builds, dir) /\ Instead(gate \o Tail(job.todo))
           \/ /\ ~Done(end)
              /\ (Spawned(end) /\ Linked(It, builds, dir)) \/ UNCHANGED <<nm, deps, linked>>
              /\ \/ Fail("failed")
                 \/ /\ Answered(end) /\ job.kind \in {"bundle", "plugin"} /\ ~dir
                    /\ Instead(Append(Fetched(It, "dir"), OpAt("add", It, "dir")) \o Tail(job.todo))
    /\ UNCHANGED <<manifest, cache, build, disk, stray, patch, health, meta, upstream, running,
                   history, bounds, probe>>

\* A package that cannot be loaded is taken out again before anything mounts it.
LoadGate ==
    /\ At("gate")
    /\ IF Loadable(It) THEN Advance
       ELSE Instead(<<OpAt("dshRemove", It, "try"), Op("pruneNm", It), Op("fail", It)>>
                      \o Tail(job.todo))
    /\ UNCHANGED <<manifest, trees, patch, health, meta, upstream, running, history, bounds, probe>>

\* A link is removed as a link; the clone stays.
Unlinked(p) == nm' = [nm EXCEPT ![p] = Absent] /\ linked' = linked \ {p}

\* It may leave the directory behind, and may have done its work though it failed.
RemovePackage ==
    /\ At("dshRemove")
    /\ \E end \in run_plugin_command :
          /\ \/ Spawned(end) /\ deps' = deps \ {It} /\ (Unlinked(It) \/ UNCHANGED <<nm, linked>>)
             \/ ~Done(end) /\ UNCHANGED <<deps, nm, linked>>
          /\ IF Done(end) \/ Now.at = "try" THEN Advance ELSE Fail("failed")
    /\ UNCHANGED <<manifest, cache, build, disk, stray, patch, health, meta, upstream, running,
                   history, bounds, probe>>

\* Best effort.  The root's package may go by the name of the one to be installed.
RemoveRoot ==
    /\ At("dropRoot")
    /\ \E end \in run_plugin_command :
          \/ /\ Spawned(end) /\ deps' = deps \ Root[It]
             /\ \/ /\ nm' = [p \in Pkgs |-> IF p \in Root[It] THEN Absent ELSE nm[p]]
                   /\ linked' = linked \ Root[It]
                \/ UNCHANGED <<nm, linked>>
          \/ ~Done(end) /\ UNCHANGED <<deps, nm, linked>>
    /\ Advance
    /\ UNCHANGED <<manifest, cache, build, disk, stray, patch, health, meta, upstream, running,
                   history, bounds, probe>>

PrunePackage ==
    /\ At("pruneNm")
    /\ Unlinked(It) \/ UNCHANGED <<nm, linked>>
    /\ Advance
    /\ UNCHANGED <<manifest, deps, cache, build, disk, stray, patch, health, meta, upstream, running,
                   history, bounds, probe>>

\* A new package stays off: a skin's record keeps an earlier choice, a bundle's
\* rows are disabled, and a plain skin gets no row.
LandDisabled ==
    /\ At("land")
    /\ LET skin == It \in Themes /\ Now.at # "raw" IN
       /\ skins' = IF skin /\ skins[It] = "absent" THEN [skins EXCEPT ![It] = "off"] ELSE skins
       /\ job' = [job EXCEPT !.rows = InsertedRows(It),
                     !.todo = (IF SkinHasBundle(It) THEN <<Op("rowOff", It)>>
                               ELSE IF skin THEN <<Op("syncSkin", It)>> ELSE <<>>) \o Tail(@)]
    /\ UNCHANGED <<mcp, skills, trees, patch, health, meta, upstream, running, last, history,
                   bounds, probe>>

\* One write of the file per loader row.
SetRow ==
    /\ At("rowOff") \/ At("rowOn")
    /\ \/ /\ job.rows = {} /\ Advance /\ UNCHANGED patch
       \/ \E i \in job.rows :
             /\ patch' = IF Now.op = "rowOn" THEN EnableRow(patch, i) ELSE DisableRows(patch, {i})
             /\ job' = [job EXCEPT !.rows = @ \ {i}] /\ UNCHANGED last
    /\ UNCHANGED <<manifest, trees, health, meta, upstream, running, history, bounds, probe>>

RemoveRows ==
    /\ At("rmRows")
    /\ patch' = RemoveRowBlocks(patch, job.rows)
    /\ Advance
    /\ UNCHANGED <<manifest, trees, health, meta, upstream, running, history, bounds, probe>>

\* A removed package drops the skin records that its name matches, each as best effort.
RecordSkin ==
    /\ \/ /\ At("dropSkin")
          /\ \E gone \in SUBSET (Alike[It] \ {p \in Pkgs : skins[p] = "absent"}) :
                /\ skins' = [p \in Pkgs |-> IF p \in gone THEN "absent" ELSE skins[p]]
                /\ unsynced' = unsynced \cup gone
       \/ /\ At("setSkin")
          /\ skins' = [skins EXCEPT ![It] = Now.at]
          /\ unsynced' = IF SkinHasBundle(It) THEN unsynced ELSE unsynced \cup {It}
    /\ Advance
    /\ UNCHANGED <<mcp, skills, trees, patch, health, meta, upstream, running, cut, rewritten, spared,
                   bounds, probe>>

\* After a removal it is skipped when the manifest cannot be read.
CompileSkins ==
    /\ At("syncSkin")
    /\ \/ /\ patch' = SyncSkinPatch(patch, SkinRows)
          /\ unsynced' = unsynced \ Pkgs /\ cut' = cut \ Pkgs
       \/ /\ job.kind = "pluginRemove" /\ UNCHANGED patch
          /\ unsynced' = {} /\ cut' = cut \cup unsynced
    /\ Advance
    /\ UNCHANGED <<manifest, trees, health, meta, upstream, running, rewritten, spared, bounds, probe>>

UpdatePackage ==
    /\ At("update")
    /\ \E end \in run_plugin_command :
          /\ \/ Spawned(end) /\ Linked(It, BOOLEAN, It \in linked)
             \/ ~Done(end) /\ UNCHANGED <<nm, deps, linked>>
          /\ IF Done(end) THEN Advance ELSE Fail("failed")
    /\ UNCHANGED <<manifest, cache, build, disk, stray, patch, health, meta, upstream, running,
                   history, bounds, probe>>

-----------------------------------------------------------------------------
\* Steps every kind of command has, and what happens around the commands.

SetMetadata ==
    /\ \/ At("meta") /\ meta' = meta \cup {It}
       \/ At("unmeta") /\ meta' = meta \ {It}
    /\ Advance
    /\ UNCHANGED <<manifest, trees, patch, health, upstream, running, history, bounds, probe>>

\* The disk is read again, after a quarantine; the manifest may not be readable, nor the
\* cache of the Library writable.
Reconcile ==
    /\ At("reconcile")
    /\ \E missed \in SUBSET LiveRows : patch' = Quarantine(patch, missed)
    /\ Advance \/ Fail("failed")
    /\ UNCHANGED <<manifest, trees, health, meta, upstream, running, history, bounds, probe>>

\* The writes whose failure ends the command, or the item of a bundle.  What was written
\* before stays, a temporary file of a skill with it.
Fallible == {"files", "rename", "prune", "recordSkill", "unrecordSkill", "record", "unrecord", "setMcp",
             "syncMcp", "land", "rowOff", "rowOn", "rmRows", "setSkin", "syncSkin", "meta", "unmeta"}

StepFails ==
    /\ ~Idle /\ Now.op \in Fallible
    /\ Fail("failed")
    /\ unsynced' = {} /\ cut' = cut \cup unsynced
    /\ stray' \in CASE Now.op = "rename" -> {stray \cup {It}}
                     [] Now.op = "files" -> {stray, stray \cup {It}}
                     [] OTHER -> {stray}
    /\ UNCHANGED <<manifest, nm, deps, cache, linked, build, disk, patch, health, meta, upstream, running,
                   rewritten, spared, bounds, probe>>

Conclusion ==
    /\ \/ At("next") /\ Advance
       \/ At("fail") /\ Fail(IF job.kind = "mcp" THEN "rolledBack" ELSE "failed")
    /\ UNCHANGED <<manifest, trees, patch, health, meta, upstream, running, history, bounds, probe>>

\* The rows of the bundles in the profile, and the ids of the patch that no bundle has.
KnownRows == UNION {InsertedRows(p) : p \in deps}
Orphans == {r.id : r \in patch.rows} \ KnownRows

\* Looking at the profile's diagnostics drops those, also while DSH runs.
profile_diagnostics ==
    /\ Idle /\ Orphans # {}
    /\ patch' = RemoveRowBlocks(patch, Orphans)
    /\ UNCHANGED <<manifest, trees, health, meta, upstream, running, job, last, history, bounds, probe>>

\* A launch turns off what would break the boot, as far as it can, and boots.
Launch ==
    /\ Idle /\ ~running
    /\ \E missed \in SUBSET LiveRows :
          /\ patch' = Quarantine(patch, missed)
          /\ spared' = {p \in Unloadable : InsertedRows(p) \cap missed # {}}
    /\ running' = TRUE
    /\ UNCHANGED <<manifest, trees, health, meta, upstream, job, last, unsynced, cut, rewritten, bounds,
                   probe>>

Stop ==
    /\ running /\ running' = FALSE /\ spared' = {}
    /\ UNCHANGED <<manifest, trees, patch, health, meta, upstream, job, last, unsynced, cut, rewritten,
                   bounds, probe>>

AuthorPublishes(s) ==
    /\ s \in scope /\ upstream[s] = 1
    /\ upstream' = [upstream EXCEPT ![s] = 2]
    /\ UNCHANGED <<manifest, trees, patch, health, meta, running, job, last, history, bounds, probe>>

\* The launcher exits in the middle of a command.  The temporary file it was writing,
\* or had not renamed, stays; so does a half-made or half-updated clone.
Crash ==
    /\ ~Idle /\ crashes < MaxCrashes
    /\ crashes' = crashes + 1
    /\ job' = NoJob /\ last' = NoEnd /\ probe' = NoProbe /\ running' = FALSE
    /\ unsynced' = {} /\ cut' = cut \cup unsynced /\ spared' = {}
    /\ stray' \in CASE Now.op = "rename" -> {stray \cup {It}}
                     [] Now.op = "files" -> {stray, stray \cup {It}}
                     [] OTHER -> {stray}
    /\ IF Now.op = "resolve"
       THEN /\ cache' \in {cache, [cache EXCEPT ![It] = "broken"]}
            /\ nm' = IF It \in linked /\ ~Updatable(It) THEN [nm EXCEPT ![It] = Absent] ELSE nm
       ELSE UNCHANGED <<cache, nm>>
    /\ UNCHANGED <<manifest, deps, linked, build, disk, patch, health, meta, upstream, rewritten, scope,
                   jobs>>

Init ==
    /\ scope \in Families
    /\ mcp = [m \in Servers |-> "absent"] /\ skins = [p \in Pkgs |-> "absent"]
    /\ \E legacy \in SUBSET (Skills \cap scope) :
          /\ skills = [s \in Skills |-> IF s \in legacy THEN 0 ELSE -1]
          /\ disk = [s \in Skills |-> [f \in AllFiles |->
                        IF s \in legacy /\ f \in FilesOf[1] \cup {"SKILL.md"} THEN 1 ELSE 0]]
    /\ \E user \in BOOLEAN :
          patch = [array |-> ~user, user |-> user, rows |-> {}, mcp |-> {}, skin |-> {}]
    /\ nm = [p \in Pkgs |-> Absent] /\ deps = {}
    /\ cache = [p \in Pkgs |-> "none"] /\ linked = {}
    /\ build = [m \in Servers |-> "none"] /\ health = [m \in Servers |-> "untested"]
    /\ meta = {} /\ stray = {} /\ upstream = [s \in Skills |-> 1] /\ running = FALSE
    /\ job = NoJob /\ last = NoEnd
    /\ unsynced = {} /\ cut = {} /\ rewritten = {} /\ spared = {}
    /\ jobs = 0 /\ crashes = 0 /\ probe = NoProbe

SkillStep == FetchSkill \/ ReplaceFile \/ RenameFile \/ PruneStale \/ RemoveSkillDir \/ RecordSkill
McpStep == FetchMcp \/ CloneMcp \/ BuildMcp \/ RecordMcp \/ CompileMcp \/ RemoveMcpDir
           \/ ProbeMcp \/ ProbeVerdict
PackageStep == ResolveTarget \/ AddPackage \/ LoadGate \/ RemovePackage \/ RemoveRoot \/ PrunePackage \/ LandDisabled \/ SetRow
               \/ RemoveRows \/ RecordSkin \/ CompileSkins \/ UpdatePackage
CommonStep == SetMetadata \/ Reconcile \/ StepFails \/ Conclusion

Next == Start \/ SkillStep \/ McpStep \/ PackageStep \/ CommonStep
        \/ profile_diagnostics \/ Launch \/ Stop \/ Crash \/ \E s \in Skills : AuthorPublishes(s)

Spec == Init /\ [][Next]_vars

-----------------------------------------------------------------------------
\* DSH can read the patch after every write and every exit of the launcher: the
\* five line editors of lib.rs and content.rs never leave `[]` next to an entry,
\* nor a file of comments only, whatever the order of the commands.
PatchIsArray == IsArray(patch)

\* While DSH runs it has imported no loader row of a client bundle whose entry is missing,
\* though an interrupted, failed or updated install may leave one in the profile, unless
\* the quarantine of that launch could not write one of the bundle's rows
\* (quarantine_unloadable_client_bundles): nothing turns such a row on before the next boot.
\* Of a bundle that has no row to turn off, which is passed over too, it says nothing.
BootMountsOnlyBuiltBundles == running => \A p \in Unloadable \ spared : Mounted(p) = {}

\* "the enabled records stay the source of truth" (content.rs, mcp_uninstall): the MCP
\* rows are the records that are on, whatever other editors do to the file, and at every
\* boot, unless a command failed or was cut off after it had changed a server's record and
\* before it compiled the rows, and none has compiled them since.
McpRowsAreRecords == cut \cap Servers = {} /\ ~Pending("syncMcp") => patch.mcp = On(mcp)

\* A server leaves the manifest only when its removal was asked for, or when its
\* own first install could not start it: never one that was there before, and
\* never by the commands of another item.
RemovedOnlyIfAsked ==
    [][\A m \in Servers :
          mcp[m] # "absent" /\ mcp'[m] = "absent"
             => /\ job.item = m
                /\ job.kind = "mcpRemove" \/ (job.kind = "mcp" /\ m \notin job.had)]_vars

\* "the install was rolled back and nothing was left installed" (mcp_install_job).
RollbackLeavesNothing ==
    last.res = "rolledBack" => /\ mcp[last.item] = "absent"
                               /\ last.item \notin patch.mcp
                               /\ last.item \notin meta

\* Install is not enable (land_install_disabled): after a first install that
\* succeeded no loader row of the package is live, and no row inserts it unless a removal
\* failed or was cut off between the skin's record and its row.
InstallLandsOff ==
    last.res = "ok" /\ last.kind = "plugin" /\ last.item \notin last.had
        => Mounted(last.item) = {} /\ (last.item \in patch.skin => last.item \in cut)

\* A directory with a SKILL.md reads as installed (skill_disk_state): it holds all
\* files that were fetched with it, unless it is being, or was left, rewritten.
FirstInstallIsWhole ==
    \A s \in Skills \ (rewritten \cup Pinned) :
        skill_disk_state(s) => \A f \in FilesOf[disk[s]["SKILL.md"]] : disk[s][f] = disk[s]["SKILL.md"]

\* An install or update that reports success leaves exactly what one fetch brings,
\* and the record, unless it predates hashes, names that version.
SuccessIsExact ==
    last.res = "ok" /\ last.kind \in {"skill", "skillUpdate"}
        => \E v \in Versions : \E files \in Offers(last.item, v) :
              /\ BundleMatchesDisk(last.item, v, files)
              /\ skills[last.item] \in {0, v}

=============================================================================
