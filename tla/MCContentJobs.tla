--------------------------- MODULE MCContentJobs ----------------------------
\* Small instances of ContentJobs: a skill of two versions, servers of the three
\* install classes, and a skin and two bundles whose second version adds a row.
EXTENDS ContentJobs

MCRowIds == [p \in Pkgs |-> [v \in Versions |->
    IF p \in Bundles THEN IF v = 1 THEN {"r1"} ELSE {"r1", "r2"} ELSE {}]]

MCCatalog == [m \in Servers |->
    CASE m = "remote" -> [http |-> TRUE, cmd |-> FALSE, plan |-> "none", github |-> FALSE,
                          files |-> {}, named |-> {}]
      [] m = "npm" -> [http |-> FALSE, cmd |-> FALSE, plan |-> "none", github |-> TRUE,
                       files |-> {"package.json"}, named |-> {"package.json"}]
      [] OTHER -> [http |-> FALSE, cmd |-> TRUE, plan |-> "source", github |-> TRUE,
                   files |-> {"pyproject.toml"}, named |-> {}]]

MCFilesOf == <<{"a"}, {"b"}>>
MCFamilies == {{"skill", "remote"}, {"pinned"}, {"client"}, {"npm"}, {"source"}, {"skin", "remote"}}
MCRoot == [p \in Pkgs |-> IF p = "skin" THEN {"skin"} ELSE {}]
MCAlike == [p \in Pkgs |-> {"skin"}]
=============================================================================
