----------------------------- MODULE McpSource ------------------------------
(***************************************************************************)
(* How an MCP server comes onto the machine: the runtime resolver          *)
(* (mcp_resolver.rs), the three-way route (mcp_prefetch.rs) and the local  *)
(* build of a cloned repository (mcp_local.rs).  The commands these run    *)
(* (npm, uv, git, go, cargo, the provider's model) may succeed or fail, so *)
(* an operator is the set of results its function can have.                *)
(*                                                                         *)
(* A catalog entry is a record:                                            *)
(*    http    its transport is streamable-http or it has a url             *)
(*    cmd     it names a launch command                                    *)
(*    plan    its precomputed install plan: "none", a "registry" package   *)
(*            npm or uv can fetch, or another "source" spec                *)
(*    github  its url is a github repository                               *)
(*    files   the manifests at the root of that repository                 *)
(*    named   the root manifests that name a package                       *)
(***************************************************************************)
EXTENDS FiniteSets, TimedRun

Manifests == {"go.mod", "Cargo.toml", "package.json", "pyproject.toml",
              "setup.py", "requirements.txt", "Dockerfile"}
Tools == {"git", "npm", "uv", "go", "cargo", "node"}

Entry == [http : BOOLEAN, cmd : BOOLEAN, plan : {"none", "registry", "source"},
          github : BOOLEAN, files : SUBSET Manifests, named : SUBSET Manifests]

Python == {"pyproject.toml", "setup.py"}

\* A quick look at the repository when the entry has neither plan nor command:
\* a package its manifests name, if the registry answers that it is published.
ProbeInstall(e) ==
    IF e.github /\ e.named \cap e.files \cap ({"package.json"} \cup Python) # {}
    THEN {"none", "registry"} ELSE {"none"}

EffectivePlans(e) ==
    IF e.plan = "none" /\ ~e.cmd THEN ProbeInstall(e) ELSE {e.plan}

\* The transport or a url alone make a server remote; a registry package is
\* fetched into the package manager's cache; everything else is built.
ClassifyInstall(e, plan) ==
    IF e.http THEN "remote" ELSE IF plan = "registry" THEN "registry" ELSE "source"

Prefetch(tools) == run_tool(tools \cap {"npm", "uv"} # {})

BuildGo(tools) == IF "go" \in tools THEN {"ok", "failed"} ELSE {"missing"}

BuildRust(tools) == IF "cargo" \in tools THEN {"ok", "failed", "ai"} ELSE {"missing"}

\* What package.json tells: whether it is the root of a workspace, has dependencies to
\* install, has a build script, and names an entry that is a file of the clone.
PkgInfo == [workspaces : BOOLEAN, deps : BOOLEAN, build : BOOLEAN, entry : BOOLEAN]

\* A workspace root is ambiguous whatever is installed; a missing entry may come with
\* the build, and is the model's to find when it does not.
BuildPackage(pkg) ==
    (IF pkg.deps \/ (pkg.build /\ ~pkg.entry) THEN {"failed"} ELSE {})
    \cup (IF pkg.entry THEN {"ok"} ELSE IF pkg.build THEN {"ok", "ai"} ELSE {"ai"})

BuildNode(tools) ==
    {"ai"} \cup IF "node" \in tools
                THEN UNION {BuildPackage(pkg) : pkg \in {i \in PkgInfo : ~i.workspaces}}
                ELSE {"missing"}

\* Only a console script is launched without asking.
BuildPython(tools) ==
    {"ai"} \cup IF "uv" \in tools THEN {"ok", "failed"} ELSE {"missing"}

\* The ladder: compiled languages first, then the scripted ones.
BuildLocal(files, tools) ==
    CASE "go.mod" \in files -> BuildGo(tools)
      [] "go.mod" \notin files /\ "Cargo.toml" \in files -> BuildRust(tools)
      [] files \cap {"go.mod", "Cargo.toml"} = {} /\ "package.json" \in files -> BuildNode(tools)
      [] files \cap {"go.mod", "Cargo.toml", "package.json"} = {}
           /\ files \cap (Python \cup {"requirements.txt"}) # {} -> BuildPython(tools)
      [] OTHER -> {"ai"}

\* The model's answer: anything, of which a runtime and an entry are read.
Suggestion == [kind : {"node", "python", "other"}, entry : {"none", "inside", "outside"}]

\* Only a node or a python entry inside the clone is run, with the launcher's own tools.
resolve_inside(s) == s.kind # "other" /\ s.entry = "inside"

Runs(s, files, tools) ==
    CASE s.kind = "node" -> "package.json" \in files /\ "node" \in tools
      [] s.kind = "python" -> "uv" \in tools

AiResolve(files, tools) ==
    {"err"} \cup {"ok" : s \in {x \in Suggestion : resolve_inside(x) /\ Runs(x, files, tools)}}

\* After the clone: the ladder's verdict, or the provider's when it was ambiguous.
InstallLocal(e, tools, provider) ==
    LET ladder == BuildLocal(e.files, tools)
    IN  (IF "ok" \in ladder THEN {"ok"} ELSE {})
        \cup (IF ladder \cap {"missing", "failed"} # {} THEN {"err"} ELSE {})
        \cup (IF "ai" \in ladder
              THEN IF provider THEN AiResolve(e.files, tools) ELSE {"err"}
              ELSE {})
=============================================================================
