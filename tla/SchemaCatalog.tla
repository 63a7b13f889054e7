--------------------------- MODULE SchemaCatalog ---------------------------
(***************************************************************************)
(* What SurrealDB keeps of a schema, what a DDL statement does to it, and  *)
(* what the parser makes of the INFO responses that describe it.           *)
(*                                                                         *)
(*   src/src/schema/parser.ts, fields.ts, table.ts, edge.ts, bucket.ts     *)
(*                                                                         *)
(* The arrays of a definition are functions from names: the code turns     *)
(* each of them into a Map by name before it uses it.                      *)
(***************************************************************************)
EXTENDS Naturals, SequencesExt

None == "none"

(* A PERMISSIONS rule.  Code states it with its WHERE; the parser returns  *)
(* the expression behind it.                                               *)
NoRule == [where |-> FALSE, rule |-> None]
Where(rule) == [where |-> TRUE, rule |-> rule]

Nothing == [x \in {} |-> None]

(* f, and g where f has nothing.                                           *)
Over(f, g) ==
    [x \in DOMAIN f \cup DOMAIN g |-> IF x \in DOMAIN f THEN f[x] ELSE g[x]]

Put(f, x, y)  == Over([z \in {x} |-> y], f)
Without(f, x) == Restrict(f, DOMAIN f \ {x})

(* A statement defines, removes or alters the object `name` of a `kind`;   *)
(* `on` is the table of a field, an index or an event.                     *)
Statement(verb, kind, on, name, def) ==
    [verb |-> verb, kind |-> kind, on |-> on, name |-> name,
     def |-> def, ifExists |-> FALSE]

Define(kind, on, name, def) == Statement("DEFINE", kind, on, name, def)
Drop(kind, on, name)        == Statement("REMOVE", kind, on, name, Nothing)
Alter(kind, on, name, def)  == Statement("ALTER", kind, on, name, def)

---------------------------------------------------------------------------
(* The database.  A catalog has tables and buckets; an edge is a table     *)
(* whose mode is RELATION.                                                 *)
EmptyCatalog == [tables |-> Nothing, buckets |-> Nothing]

TableOf(mode, rule) ==
    [mode |-> mode, rule |-> rule,
     fields |-> Nothing, indexes |-> Nothing, events |-> Nothing]

TopLevel == {"tables", "buckets"}

Exists(s, c) ==
    IF s.kind \in TopLevel
    THEN s.name \in DOMAIN c[s.kind]
    ELSE s.on \in DOMAIN c.tables /\ s.name \in DOMAIN c.tables[s.on][s.kind]

(* A strict server refuses to define what exists; an older one replaces    *)
(* it.  Removing or altering what does not exist is refused by both.       *)
Refused(s, c, strict) ==
    IF s.verb = "DEFINE" THEN strict /\ Exists(s, c)
                         ELSE ~s.ifExists /\ ~Exists(s, c)

(* The columns that the server adds to a relation.                         *)
EndpointField == [type |-> [word |-> "record", of |-> None, optional |-> FALSE],
                  clauses |-> {}]

Endpoints(mode) ==
    [n \in IF mode = "RELATION" THEN {"in", "out"} ELSE {} |-> EndpointField]

(* A table is redefined without its columns, and comes into being when one *)
(* of them is defined first.                                               *)
Defined(s, c) ==
    CASE s.kind = "tables" ->
            LET old == IF Exists(s, c) THEN c.tables[s.name]
                       ELSE TableOf(s.def.mode, s.def.rule)
                new == [old EXCEPT !.mode = s.def.mode, !.rule = s.def.rule,
                                   !.fields = Over(Endpoints(s.def.mode), @)]
            IN  [c EXCEPT !.tables = Put(@, s.name, new)]
      [] s.kind = "buckets" ->
            [c EXCEPT !.buckets = Put(@, s.name, s.def)]
      [] OTHER ->
            LET tables == IF s.on \in DOMAIN c.tables THEN c.tables
                          ELSE Put(c.tables, s.on, TableOf("SCHEMALESS", NoRule))
            IN  [c EXCEPT !.tables =
                    [tables EXCEPT ![s.on][s.kind] = Put(@, s.name, s.def)]]

Removed(s, c) ==
    IF ~Exists(s, c) THEN c
    ELSE IF s.kind \in TopLevel THEN [c EXCEPT ![s.kind] = Without(@, s.name)]
    ELSE [c EXCEPT !.tables[s.on][s.kind] = Without(@, s.name)]

(* ALTER BUCKET sets the attributes that it names.                         *)
Altered(s, c) == [c EXCEPT !.buckets[s.name] = Over(s.def, @)]

Execute(s, c) ==
    CASE s.verb = "DEFINE" -> Defined(s, c)
      [] s.verb = "REMOVE" -> Removed(s, c)
      [] s.verb = "ALTER"  -> Altered(s, c)

(* The statements of a script, one after the other, without a transaction. *)
Step(s, c, strict) == IF Refused(s, c, strict) THEN c ELSE Execute(s, c)

Run(script, c, strict) ==
    LET after[k \in 0 .. Len(script)] ==
            IF k = 0 THEN c ELSE Step(script[k], after[k - 1], strict)
    IN  after[Len(script)]

---------------------------------------------------------------------------
(* The parser.  Each operator takes what the server has and yields the     *)
(* definition that the code's own builders would have made.                *)

(* The type words that fieldTypeFromWord lists; any other becomes `any`.   *)
KnownWords ==
    {"string", "int", "float", "bool", "datetime", "duration", "decimal",
     "number", "object", "array", "record", "geometry", "any"}

FieldTypeFromWord(word) == IF word \in KnownWords THEN word ELSE "any"

(* `none | T` and `option<T>` are optional; record<T> keeps its target and *)
(* array<T> its element's type word.                                       *)
ParseFieldType(sql) ==
    [type     |-> FieldTypeFromWord(sql.word),
     of       |-> IF sql.word = "array" /\ sql.of # None
                  THEN FieldTypeFromWord(sql.of) ELSE sql.of,
     optional |-> sql.optional]

(* parseField has no branch for the PERMISSIONS clause.                    *)
ParseField(f) ==
    LET type == ParseFieldType(f.type)
    IN  [type |-> type.type, of |-> type.of, optional |-> type.optional,
         clauses |-> f.clauses \ {"PERMISSIONS"}]

ParsePermissions(rule) == [rule EXCEPT !.where = FALSE]

(* Mutant: the columns of a relation's ends are kept.                      *)
ParseColumns(table) ==
    [n \in DOMAIN table.fields |-> ParseField(table.fields[n])]

(* parseTableInfo and parseEdgeInfo: an edge's own columns in and out are  *)
(* left out.  The entries `<field>[*]` and `<field>.*` that the server     *)
(* adds for an array's elements, and parseFields' skip of them, are not    *)
(* modelled: no column is taken to have such a name.  A declared one would *)
(* be skipped too, and differ for ever.                                    *)
ParseFields(table) ==
    [n \in DOMAIN table.fields \ DOMAIN Endpoints(table.mode) |->
        ParseField(table.fields[n])]

ParseTableInfo(table) ==
    [mode |-> table.mode, rule |-> ParsePermissions(table.rule),
     fields |-> ParseFields(table), indexes |-> table.indexes,
     events |-> table.events]

ParseBucket(bucket) == [bucket EXCEPT !.rule = ParsePermissions(@)]

Relations(c) == {t \in DOMAIN c.tables : c.tables[t].mode = "RELATION"}

(* parseDbInfo: the tables and edges by name, without their columns, and   *)
(* the buckets.                                                            *)
ParseDbInfo(c) ==
    LET Bare(names) ==
            [t \in names |-> TableOf(c.tables[t].mode,
                                     ParsePermissions(c.tables[t].rule))]
    IN  [tables  |-> Bare(DOMAIN c.tables \ Relations(c)),
         edges   |-> Bare(Relations(c)),
         buckets |-> [b \in DOMAIN c.buckets |-> ParseBucket(c.buckets[b])]]
===========================================================================
