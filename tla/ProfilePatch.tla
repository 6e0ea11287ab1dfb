---------------------------- MODULE ProfilePatch ----------------------------
(***************************************************************************)
(* cordis.patch.yml, the file through which the launcher decides what DSH  *)
(* mounts, and the line editors that write it (dsh-adapter/src/lib.rs and  *)
(* content.rs).  No reader of the launcher looks at the order of the       *)
(* entries, so a file is a record of what it holds:                        *)
(*    array  the empty-list placeholder `[]` stands uncommented            *)
(*    user   it holds content the launcher never wrote                     *)
(*    rows   top-level `- id:` / `disabled:` pairs                         *)
(*    mcp    servers in the launcher's MCP insert block                    *)
(*    skin   packages in the launcher's skin insert block                  *)
(* A commented placeholder and no placeholder are the same to all readers. *)
(***************************************************************************)
CONSTANTS Ids, Servers, Pkgs

Row == [id : Ids, off : BOOLEAN]

Patch == [array : BOOLEAN, user : BOOLEAN, rows : SUBSET Row,
          mcp : SUBSET Servers, skin : SUBSET Pkgs]

\* A file holds an entry besides comments and the placeholder.
HasEntries(f) == f.user \/ f.rows # {} \/ f.mcp # {} \/ f.skin # {}

\* What DSH accepts: a top-level array, so the placeholder or entries, not both.
IsArray(f) == f.array # HasEntries(f)

\* MUTANT: the placeholder is left where it is.
AppendRaw(f, g) == [g EXCEPT !.array = f.array]

\* f with the entries of g appended: a lone placeholder is commented out first,
\* because `[]` followed by an entry is two documents.
AppendBlock(f, g) == [g EXCEPT !.array = f.array /\ HasEntries(f)]

\* The placeholder comes back when nothing but comments is left.
RestorePlaceholder(f) == [f EXCEPT !.array = @ \/ ~HasEntries(f)]

Disables(f) == {r.id : r \in {x \in f.rows : x.off}}
Forced(f) == {r.id : r \in {x \in f.rows : ~x.off}}

DisableRows(f, ids) ==
    IF ids \subseteq Disables(f) THEN f
    ELSE AppendBlock(f, [f EXCEPT !.rows = @ \cup {[id |-> i, off |-> TRUE] : i \in ids}])

\* Enabling removes the disabling pair, and forces the row only when there was none.
EnableRow(f, i) ==
    IF i \in Disables(f)
    THEN RestorePlaceholder([f EXCEPT !.rows = @ \ {[id |-> i, off |-> TRUE]}])
    ELSE IF i \in Forced(f) THEN f
         ELSE AppendBlock(f, [f EXCEPT !.rows = @ \cup {[id |-> i, off |-> FALSE]}])

RemoveRowBlocks(f, ids) ==
    IF \E r \in f.rows : r.id \in ids
    THEN RestorePlaceholder([f EXCEPT !.rows = {r \in @ : r.id \notin ids}])
    ELSE f

\* The MCP block is dropped and compiled again from the records that are on.
SyncMcpPatch(f, on) ==
    LET stripped == [f EXCEPT !.mcp = {}]
    IN  IF on = {} THEN RestorePlaceholder(stripped)
        ELSE AppendBlock(stripped, [stripped EXCEPT !.mcp = on])

\* The same for the skins that are on and are not mounted as a bundle.
SyncSkinPatch(f, on) ==
    LET stripped == [f EXCEPT !.skin = {}]
    IN  IF on = {} THEN RestorePlaceholder(stripped)
        ELSE AppendBlock(stripped, [stripped EXCEPT !.skin = on])
=============================================================================
