----------------------------- MODULE SchemaDiff -----------------------------
(***************************************************************************)
(* The schema emitter, the differ, and the migration generator.            *)
(*                                                                         *)
(*   src/src/schema/sql.ts, src/src/schema/bucket.ts,                      *)
(*   src/src/migration/diff.ts, generator.ts, rollback.ts                  *)
(*                                                                         *)
(* A schema has tables, edges and buckets by name.  A field has a type, a  *)
(* target or element type (`of`), a flag `optional`, and the set of its    *)
(* other clauses; an index or an event is told from others by its name.    *)
(***************************************************************************)
EXTENDS SchemaCatalog

(* The concatenation of f's sequences, in the order of a Map's keys.       *)
Each(f) ==
    LET keys == SetToSeq(DOMAIN f)
        upTo[k \in 0 .. Len(keys)] ==
            IF k = 0 THEN <<>> ELSE upTo[k - 1] \o f[keys[k]]
    IN  upTo[Len(keys)]

---------------------------------------------------------------------------
FieldTypeToSql(f) ==
    [word     |-> f.type,
     of       |-> IF f.type \in {"record", "array"} THEN f.of ELSE None,
     optional |-> f.optional]

GenerateFieldSql(t, n, f) ==
    Define("fields", t, n, [type |-> FieldTypeToSql(f), clauses |-> f.clauses])

(* Mutant: only the table itself, as the differ once emitted it.           *)
GenerateBareTableSql(t, table) ==
    <<Define("tables", t, t, [mode |-> table.mode, rule |-> table.rule])>>

(* generateTableSql and generateEdgeSql: the table, then its columns,      *)
(* indexes and events.                                                     *)
GenerateTableSql(t, table) ==
    <<Define("tables", t, t, [mode |-> table.mode, rule |-> table.rule])>>
    \o Each([n \in DOMAIN table.fields |->
                <<GenerateFieldSql(t, n, table.fields[n])>>])
    \o Each([n \in DOMAIN table.indexes |->
                <<Define("indexes", t, n, table.indexes[n])>>])
    \o Each([n \in DOMAIN table.events |->
                <<Define("events", t, n, table.events[n])>>])

GenerateBucketSql(b, bucket) == <<Define("buckets", b, b, bucket)>>

GenerateSchemaSql(s) ==
    Each([t \in DOMAIN s.tables |-> GenerateTableSql(t, s.tables[t])])
    \o Each([e \in DOMAIN s.edges |-> GenerateTableSql(e, s.edges[e])])
    \o Each([b \in DOMAIN s.buckets |-> GenerateBucketSql(b, s.buckets[b])])

(* Permissions that the target cleared have no clause of their own.        *)
AlteredAttributes(current, target) ==
    {a \in {"backend", "readonly", "rule", "comment"} :
        current[a] # target[a] /\ ~(a = "rule" /\ target.rule = NoRule)}

---------------------------------------------------------------------------
(* A difference: its operation, the table (or bucket) and the field,       *)
(* index or event it is about, and its statements.  A comment is none.     *)
Difference(operation, table, name, sql) ==
    [operation |-> operation, table |-> table, name |-> name, sql |-> sql]

Added(current, target)   == DOMAIN target \ DOMAIN current

(* Mutant: the maps are swapped.                                           *)
DroppedOfTarget(current, target) == DOMAIN target \ DOMAIN current

Dropped(current, target) == DOMAIN current \ DOMAIN target
Kept(current, target)    == DOMAIN current \cap DOMAIN target

(* Mutant: the base types alone are compared, as they once were.           *)
RetypedBase(current, target) ==
    {n \in Kept(current, target) : current[n].type # target[n].type}

(* The fields whose rendered types differ.                                 *)
Retyped(current, target) ==
    {n \in Kept(current, target) :
        FieldTypeToSql(current[n]) # FieldTypeToSql(target[n])}

(* An added or modified field is defined by its type alone.                *)
DefineType(t, n, f) ==
    Define("fields", t, n, [type |-> FieldTypeToSql(f), clauses |-> {}])

DiffFields(t, current, target) ==
    Each([n \in Added(current, target) |->
            <<Difference("ADD_FIELD", t, n, <<DefineType(t, n, target[n])>>)>>])
    \o Each([n \in Dropped(current, target) |->
                <<Difference("DROP_FIELD", t, n, <<Drop("fields", t, n)>>)>>])
    \o Each([n \in Retyped(current, target) |->
                <<Difference("MODIFY_FIELD", t, n,
                             <<DefineType(t, n, target[n])>>)>>])

DiffIndexes(t, current, target) ==
    Each([n \in Added(current, target) |->
            <<Difference("ADD_INDEX", t, n,
                         <<Define("indexes", t, n, target[n])>>)>>])
    \o Each([n \in Dropped(current, target) |->
                <<Difference("DROP_INDEX", t, n, <<Drop("indexes", t, n)>>)>>])

(* A new event of a table that exists is left to be defined by hand.       *)
DiffEvents(t, current, target) ==
    Each([n \in Added(current, target) |->
            <<Difference("ADD_EVENT", t, n, <<>>)>>])
    \o Each([n \in Dropped(current, target) |->
                <<Difference("DROP_EVENT", t, n, <<Drop("events", t, n)>>)>>])

DiffColumns(t, current, target) ==
    DiffFields(t, current.fields, target.fields)
    \o DiffIndexes(t, current.indexes, target.indexes)
    \o DiffEvents(t, current.events, target.events)

DiffTables(current, target) ==
    Each([t \in Added(current, target) |->
            <<Difference("ADD_TABLE", t, t, GenerateTableSql(t, target[t]))>>])
    \o Each([t \in Dropped(current, target) |->
                <<Difference("DROP_TABLE", t, t, <<Drop("tables", t, t)>>)>>])
    \o Each([t \in Kept(current, target) |->
                DiffColumns(t, current[t], target[t])])

(* diffEdges of every edge that one of the schemas has.  Permissions that  *)
(* changed are a comment.                                                  *)
DiffEdges(current, target) ==
    Each([e \in Added(current, target) |->
            <<Difference("ADD_TABLE", e, e, GenerateTableSql(e, target[e]))>>])
    \o Each([e \in Dropped(current, target) |->
                <<Difference("DROP_TABLE", e, e, <<Drop("tables", e, e)>>)>>])
    \o Each([e \in Kept(current, target) |->
                DiffColumns(e, current[e], target[e])
                \o IF current[e].rule = target[e].rule THEN <<>>
                   ELSE <<Difference("MODIFY_PERMISSIONS", e, e, <<>>)>>])

AlterBucket(b, current, target) ==
    Alter("buckets", b, b,
          Restrict(target, AlteredAttributes(current, target)))

DiffBuckets(current, target) ==
    Each([b \in Added(current, target) |->
            <<Difference("ADD_BUCKET", b, b, GenerateBucketSql(b, target[b]))>>])
    \o Each([b \in Dropped(current, target) |->
                <<Difference("DROP_BUCKET", b, b, <<Drop("buckets", b, b)>>)>>])
    \o Each([b \in {k \in Kept(current, target) :
                        AlteredAttributes(current[k], target[k]) # {}} |->
                <<Difference("MODIFY_BUCKET", b, b,
                             <<AlterBucket(b, current[b], target[b])>>)>>])

(* The three differs, one after the other.                                 *)
DiffSchemas(current, target) ==
    DiffTables(current.tables, target.tables)
    \o DiffEdges(current.edges, target.edges)
    \o DiffBuckets(current.buckets, target.buckets)

---------------------------------------------------------------------------
(* generateMigrationFromDiffs.  What has no statement is a comment that    *)
(* asks for manual work.                                                   *)
Undo(d) ==
    CASE d.operation = "ADD_TABLE"  -> <<Drop("tables", d.table, d.table)>>
      [] d.operation = "ADD_FIELD"  -> <<Drop("fields", d.table, d.name)>>
      [] d.operation = "ADD_BUCKET" ->
            <<[Drop("buckets", d.table, d.table) EXCEPT !.ifExists = TRUE]>>
      [] OTHER -> <<>>

UpSql(diffs) == FlattenSeq([i \in DOMAIN diffs |-> diffs[i].sql])

DownSql(diffs) ==
    LET back == Reverse(diffs)
    IN  FlattenSeq([i \in DOMAIN back |-> Undo(back[i])])

(* Mutant: a drop is not looked for.                                       *)
AnalyzeWithoutDrops(diffs) ==
    IF \E i \in DOMAIN diffs :
        diffs[i].operation \in {"MODIFY_FIELD", "DROP_INDEX"}
    THEN "WARNING" ELSE "SAFE"

AnalyzeRollbackSafety(diffs) ==
    LET operations == {diffs[i].operation : i \in DOMAIN diffs}
    IN  IF operations \cap {"DROP_TABLE", "DROP_FIELD"} # {} THEN "UNSAFE"
        ELSE IF operations \cap {"MODIFY_FIELD", "DROP_INDEX"} # {}
        THEN "WARNING" ELSE "SAFE"
===========================================================================
