--------------------------- MODULE ProfileSchema ----------------------------
(***************************************************************************)
(* The four schema migrations of app/index/SqliteLibraryIndex.cpp, as what *)
(* decides whether a statement succeeds: the name it takes and the table   *)
(* it needs.  Columns are names too; the text of a definition is left out. *)
(***************************************************************************)
EXTENDS Naturals, Sequences

currentSchemaVersion == 4

Make(name) == [creates |-> name, needs |-> {}]
On(table, name) == [creates |-> name, needs |-> {table}]

migration1 ==
    << Make("library_roots"),
       Make("documents"),
       Make("document_locations"),
       On("document_locations", "document_locations_document_id") >>

migration2 ==
    << On("documents", "documents.is_favorite"),
       On("documents", "documents.last_opened_utc_ms"),
       On("documents", "documents_recent") >>

migration3 ==
    << Make("documents_fts"),
       On("documents", "documents_fts_insert"),
       On("documents", "documents_fts_delete"),
       On("documents", "documents_fts_update") >>

migration4 ==
    << On("library_roots", "library_roots.last_completed_scan_generation"),
       On("document_locations", "document_locations.filesystem_identity"),
       Make("reconciliation_proposals"),
       On("reconciliation_proposals", "reconciliation_proposals_state") >>

migrations == <<migration1, migration2, migration3, migration4>>

Migration == 1 .. currentSchemaVersion
Created(m) == {migrations[m][i].creates : i \in 1 .. Len(migrations[m])}
Name == UNION {Created(m) : m \in Migration}

(* What a schema holds under a name: nothing, what a migration made, or    *)
(* something else that was there before.                                   *)
Origin == {"none", "atlas", "other"}
Schema == [Name -> Origin]

Free(schema, name) == schema[name] = "none"

(* The names that the migrations up to a version have made.                *)
NamesAt(v) == UNION {Created(m) : m \in 1 .. v}

(* A schema with one whole migration applied.                              *)
Migrated(schema, m) ==
    [n \in Name |-> IF n \in Created(m) THEN "atlas" ELSE schema[n]]
=============================================================================
