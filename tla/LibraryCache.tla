---------------------------- MODULE LibraryCache ----------------------------
(***************************************************************************)
(* The inventory the Library shows (desktop commands/plugins.rs): a cache  *)
(* file of rows that come from a scan of the profile on disk ("profile")   *)
(* or from the harness that runs ("inventory").  A live row names a        *)
(* package by its short name, which for some packages is not the package's *)
(* name.  Rows have one name each, so a list of them is a set.  In the     *)
(* patch a package has rows of its own: a bundle's disable it, a skin's    *)
(* insert it.                                                              *)
(***************************************************************************)
CONSTANTS Pkgs,
          Skins,    \* client packages without a bundle of their own
          Renamed   \* packages whose live row has another name

InstalledPlugin == [pkg : Pkgs, short : BOOLEAN, on : BOOLEAN, source : {"profile", "inventory"}]

SameName(a, b) == a.pkg = b.pkg /\ a.short = b.short

\* A skin is on when an insert row names it, a bundle unless a row disables it.
Inserted(p, patch) == p \in Skins /\ p \in patch
Disabled(p, patch) == p \notin Skins /\ p \in patch
Enabled(p, patch) == Inserted(p, patch) \/ (p \notin Skins /\ ~Disabled(p, patch))

\* The disk scan: what the profile lists.
installed_plugins(package, patch) ==
    {[pkg |-> p, short |-> FALSE, on |-> Enabled(p, patch), source |-> "profile"] : p \in package}

\* The live scan: the loader entries of the harness.
inventory_short_name(p) == p \in Renamed
plugin_inventory(loaded) ==
    {[pkg |-> p, short |-> inventory_short_name(p), on |-> TRUE, source |-> "inventory"] : p \in loaded}

Shadows(item, row) == item.source = "profile" /\ row.source = "inventory" /\ SameName(item, row)

\* A disk row replaces the live row of its name; among rows of one source the
\* first argument's stays; what is not there yet is added.
merge_plugin_sources(inventory, profile) ==
    LET kept == {row \in inventory : ~\E item \in profile : Shadows(item, row)}
    IN  kept \cup {item \in profile : ~\E row \in kept : SameName(item, row)}

ProfileRows(rows) == {row \in rows : row.source = "profile"}

\* MUTANT: the rows of the last scan are not dropped first.
RebuiltOver(rows, package, patch) == merge_plugin_sources(rows, installed_plugins(package, patch))

\* What a refresh and a rebuild write.
Refreshed(rows, loaded) == merge_plugin_sources(plugin_inventory(loaded), rows)
Rebuilt(rows, package, patch) ==
    merge_plugin_sources(rows \ ProfileRows(rows), installed_plugins(package, patch))

\* What the Library shows of the disk scan: a row for each package, but a skin of the
\* catalogue has its row under its catalogue name, with the state of its package's row.
skin_inventory_plugin(skin, rows) == {row.on : row \in {x \in rows : x.pkg = skin /\ ~x.short}}
PackageRows(rows, skins) ==
    {[pkg |-> row.pkg, on |-> {row.on}] : row \in {x \in ProfileRows(rows) : x.pkg \notin skins}}
library_inventory_detail(rows, skins) ==
    PackageRows(rows, skins)
    \cup {[pkg |-> skin, on |-> skin_inventory_plugin(skin, rows)] : skin \in skins}
=============================================================================
