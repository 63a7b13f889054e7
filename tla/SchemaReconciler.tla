-------------------------- MODULE SchemaReconciler --------------------------
(***************************************************************************)
(* Instances of an application that bring a database to the schema their   *)
(* code declares: each reads the live schema, compares it with the code's, *)
(* generates the migration and executes it.                                *)
(*                                                                         *)
(*   src/src/schema/parser.ts, src/src/migration/diff.ts, generator.ts,    *)
(*   executor.ts                                                           *)
(*                                                                         *)
(* The library offers the steps; the application calls them in this order  *)
(* (docs/migrations.md, parser.ts:22).  All instances run the same code.   *)
(* Each await is a point where other instances move, a request fails, or   *)
(* the instance dies.                                                      *)
(***************************************************************************)
EXTENDS SchemaDiff

CONSTANTS
    Instances,  \* the processes that reconcile
    Cases,      \* pairs of a schema the database has and one code declares
    MaxFaults   \* bound: failed requests and crashes in one behaviour

(* A schema as the differ and the parser tell its parts apart: an edge is  *)
(* a relation that leaves its two ends to the server, a table is none, and *)
(* no name is both.                                                        *)
Declarable(s) ==
    /\ IsFiniteSet(DOMAIN s.tables)
    /\ IsFiniteSet(DOMAIN s.edges)
    /\ IsFiniteSet(DOMAIN s.buckets)
    /\ DOMAIN s.tables \cap DOMAIN s.edges = {}
    /\ \A t \in DOMAIN s.tables : s.tables[t].mode # "RELATION"
    /\ \A e \in DOMAIN s.edges :
        /\ s.edges[e].mode = "RELATION"
        /\ DOMAIN s.edges[e].fields \cap {"in", "out"} = {}
    /\ \A d \in Range(s.tables) \cup Range(s.edges) :
        /\ IsFiniteSet(DOMAIN d.fields)
        /\ IsFiniteSet(DOMAIN d.indexes)
        /\ IsFiniteSet(DOMAIN d.events)
    /\ \A b \in Range(s.buckets) :
        DOMAIN b = {"backend", "readonly", "rule", "comment"}

(* A schema whose types the parser knows: what it reads back is what the   *)
(* emitter wrote.  Not file and bytes.                                     *)
Readable(s) ==
    \A d \in Range(s.tables) \cup Range(s.edges) : \A f \in Range(d.fields) :
        /\ f.type \in KnownWords
        /\ f.type = "array" => f.of \in KnownWords \cup {None}

(* A schema whose relations, or whose buckets, state no PERMISSIONS.       *)
OpenEdges(s) == \A e \in DOMAIN s.edges : s.edges[e].rule = NoRule

OpenBuckets(s) == \A b \in DOMAIN s.buckets : s.buckets[b].rule = NoRule

(* No table of the database becomes an edge of the code, or an edge one.   *)
ASSUME ReconcilerAssumption ==
    /\ MaxFaults \in Nat
    /\ \A c \in Cases :
        /\ Declarable(c[1])
        /\ Declarable(c[2])
        /\ DOMAIN c[1].tables \cap DOMAIN c[2].edges = {}
        /\ DOMAIN c[1].edges \cap DOMAIN c[2].tables = {}

VARIABLES
    catalog,    \* the database
    strict,     \* the server refuses to define what exists
    code,       \* the schema that the code declares
    wanted,     \* what the emitter's own script would make of it (history)
    pc,         \* pc[i]: where instance i stands
    seen,       \* seen[i]: the live schema as far as i has read it
    unread,     \* unread[i]: the tables i has yet to read
    todo,       \* todo[i]: what the server has yet to execute of i's script
    refused,    \* refused[i]: a statement of i's script has failed
    faults      \* failed requests and crashes so far

server   == <<catalog, strict, code, wanted>>
reading  == <<seen, unread>>
script   == <<todo, refused>>
vars     == <<server, pc, reading, script, faults>>

Resting   == {"idle", "settled", "applied", "failed"}
Locations == Resting \cup {"reading", "applying"}

SortOf(table) == IF table.mode = "RELATION" THEN "edge" ELSE "table"

(* What a schema consists of, as far as the differ compares: which tables  *)
(* and edges there are, their fields with their types, the names of their  *)
(* indexes and events, and the buckets with their attributes.              *)
TableElements(t, table) ==
    {<<SortOf(table), t>>}
    \cup {<<"field", t, n, table.fields[n].type>> : n \in DOMAIN table.fields}
    \cup {<<"index", t, n>> : n \in DOMAIN table.indexes}
    \cup {<<"event", t, n>> : n \in DOMAIN table.events}

BucketElements(b, bucket) ==
    {<<"bucket", b, a, bucket[a]>> : a \in {"backend", "readonly", "comment"}}

Elements(c) ==
    (UNION {TableElements(t, c.tables[t]) : t \in DOMAIN c.tables})
    \cup (UNION {BucketElements(b, c.buckets[b]) : b \in DOMAIN c.buckets})

NoSchema == [tables |-> Nothing, edges |-> Nothing, buckets |-> Nothing]

Init ==
    /\ strict \in BOOLEAN
    /\ \E c \in Cases :
        /\ catalog = Run(GenerateSchemaSql(c[1]), EmptyCatalog, strict)
        /\ code = c[2]
        /\ wanted = Elements(Run(GenerateSchemaSql(c[2]), EmptyCatalog, strict))
    /\ pc = [i \in Instances |-> "idle"]
    /\ seen = [i \in Instances |-> NoSchema]
    /\ unread = [i \in Instances |-> {}]
    /\ todo = [i \in Instances |-> <<>>]
    /\ refused = [i \in Instances |-> FALSE]
    /\ faults = 0

Goto(i, l) == pc' = [pc EXCEPT ![i] = l]

(* The live schema is local to the call that reads it.                     *)
Forget(i) ==
    /\ seen' = [seen EXCEPT ![i] = NoSchema]
    /\ unread' = [unread EXCEPT ![i] = {}]

Fault == faults < MaxFaults /\ faults' = faults + 1

---------------------------------------------------------------------------
(* fetchDbInfo: the names of the tables and edges, and the buckets.        *)
FetchDbInfo(i) ==
    /\ pc[i] \in {"idle", "failed"}
    /\ seen' = [seen EXCEPT ![i] = ParseDbInfo(catalog)]
    /\ unread' = [unread EXCEPT ![i] = DOMAIN catalog.tables]
    /\ Goto(i, "reading")
    /\ UNCHANGED <<server, script, faults>>

(* fetchTableInfo of one of them.  Its table may be gone by then.          *)
FetchTableInfo(i, t) ==
    /\ pc[i] = "reading"
    /\ t \in unread[i]
    /\ IF t \in DOMAIN catalog.tables
       THEN LET info == ParseTableInfo(catalog.tables[t]) IN
            /\ seen' = [seen EXCEPT ![i] =
                    IF t \in DOMAIN @.edges
                    THEN [@ EXCEPT !.edges[t] = info]
                    ELSE [@ EXCEPT !.tables[t] = info]]
            /\ unread' = [unread EXCEPT ![i] = @ \ {t}]
            /\ UNCHANGED pc
       ELSE /\ Goto(i, "failed")
            /\ Forget(i)
    /\ UNCHANGED <<server, script, faults>>

(* The comparison.  Without a difference there is nothing to generate;     *)
(* otherwise up() is sent as one query.                                    *)
Generate(i) ==
    /\ pc[i] = "reading"
    /\ unread[i] = {}
    /\ LET diffs == DiffSchemas(seen[i], code) IN
        /\ todo' = [todo EXCEPT ![i] = UpSql(diffs)]
        /\ Goto(i, IF diffs = <<>> THEN "settled" ELSE "applying")
    /\ Forget(i)
    /\ UNCHANGED <<server, refused, faults>>

(* The server executes a statement of the script.                          *)
ExecuteStatement(i) ==
    /\ pc[i] = "applying"
    /\ todo[i] # <<>>
    /\ LET s == Head(todo[i]) IN
        IF Refused(s, catalog, strict)
        THEN /\ refused' = [refused EXCEPT ![i] = TRUE]
             /\ UNCHANGED catalog
        ELSE /\ catalog' = Execute(s, catalog)
             /\ UNCHANGED refused
    /\ todo' = [todo EXCEPT ![i] = Tail(@)]
    /\ UNCHANGED <<strict, code, wanted, pc, reading, faults>>

(* Awaiting the query rejects when one of its statements failed.           *)
QueryReply(i) ==
    /\ pc[i] = "applying"
    /\ todo[i] = <<>>
    /\ Goto(i, IF refused[i] THEN "failed" ELSE "applied")
    /\ refused' = [refused EXCEPT ![i] = FALSE]
    /\ UNCHANGED <<server, reading, todo, faults>>

(* A request fails, or the process dies, and with it what the server has   *)
(* not executed yet.                                                       *)
Crash(i) ==
    /\ pc[i] \notin Resting
    /\ Fault
    /\ todo' = [todo EXCEPT ![i] = <<>>]
    /\ refused' = [refused EXCEPT ![i] = FALSE]
    /\ Goto(i, "failed")
    /\ Forget(i)
    /\ UNCHANGED server

Progress(i) ==
    \/ FetchDbInfo(i)
    \/ \E t \in unread[i] : FetchTableInfo(i, t)
    \/ Generate(i)
    \/ ExecuteStatement(i)
    \/ QueryReply(i)

Next ==
    \E i \in Instances :
        Progress(i) \/ Crash(i)

(* An instance that has failed is started again.                           *)
Fairness == \A i \in Instances : WF_vars(Progress(i))

Spec == Init /\ [][Next]_vars /\ Fairness

---------------------------------------------------------------------------
(* What an instance would read if nothing moved meanwhile.                 *)
Live ==
    LET names == ParseDbInfo(catalog)
        Info(tables) ==
            [t \in DOMAIN tables |-> ParseTableInfo(catalog.tables[t])]
    IN  [names EXCEPT !.tables = Info(@), !.edges = Info(@)]

Extra   == Elements(catalog) \ wanted
Missing == wanted \ Elements(catalog)

Events == {e \in Missing : e[1] = "event"}

(* No field changes its type.                                              *)
TypesStand ==
    \A e \in Extra, m \in Missing :
        ~(e[1] = "field" /\ m[1] = "field" /\ e[2] = m[2] /\ e[3] = m[3])
---------------------------------------------------------------------------
TypeOK ==
    /\ strict \in BOOLEAN
    /\ pc \in [Instances -> Locations]
    /\ DOMAIN catalog = {"tables", "buckets"}
    /\ \A t \in DOMAIN catalog.tables :
        DOMAIN catalog.tables[t] =
            {"mode", "rule", "fields", "indexes", "events"}
    /\ \A i \in Instances :
        /\ unread[i] \subseteq DOMAIN seen[i].tables \cup DOMAIN seen[i].edges
        /\ pc[i] # "applying" => todo[i] = <<>>
        /\ refused[i] \in BOOLEAN
    /\ faults \in 0 .. MaxFaults

(* An instance whose migration went through, or that found nothing to do,  *)
(* leaves the database with what its code declares and nothing else,       *)
(* whatever the other instances and the failures before were: the          *)
(* incremental path of diff.ts ends where the emitter's full script would. *)
(* New events of a table that already exists are excepted; diff.ts leaves  *)
(* them to be defined by hand.  The variables have their types.  (Not so   *)
(* for a column of type file that comes to be declared as any, which the   *)
(* differ does not tell apart: see Readable.)                              *)
ReconciledMeansDeclared ==
    /\ TypeOK
    /\ \A i \in Instances :
        pc[i] \in {"settled", "applied"} =>
            /\ Extra = {}
            /\ Missing = Events

(* No step of any instance, and no failure, takes the database further     *)
(* from what the code declares: nothing declared is ever removed, nothing  *)
(* undeclared ever defined.                                                *)
NeverStepsBack ==
    [][/\ Extra' \subseteq Extra
       /\ Missing' \subseteq Missing]_vars

(* A live schema that has all the code declares, and nothing else, yields  *)
(* no difference: what the parser reads back is what the emitter wrote.    *)
(* (Not so for the types that fieldTypeFromWord does not know, nor for     *)
(* PERMISSIONS of edges and buckets, which lose their WHERE: see Readable, *)
(* OpenEdges and OpenBuckets.)                                             *)
NoSpuriousDrift ==
    Elements(catalog) = wanted => DiffSchemas(Live, code) = <<>>

(* The DOWN section of a migration that analyzeRollbackSafety calls SAFE   *)
(* takes the database back to the tables and fields, with their types,     *)
(* that it had before the UP section.  Indexes, events and buckets are     *)
(* left out: the generator asks for manual work there.                     *)
SafeRollbackRestores ==
    \A i \in Instances :
        LET diffs == DiffSchemas(seen[i], code)
            after == Run(UpSql(diffs) \o DownSql(diffs), catalog, strict)
            Lasting(c) == {e \in Elements(c) : e[1] \in {"table", "edge", "field"}}
        IN  (/\ pc[i] = "reading"
             /\ unread[i] = {}
             /\ seen[i] = Live
             /\ AnalyzeRollbackSafety(diffs) = "SAFE")
            => Lasting(after) = Lasting(catalog)

(* Once instances that fail are started again, the database comes to have  *)
(* what the code declares and stays so, provided that no type has to       *)
(* change on a server that refuses to redefine a field.                    *)
Converges ==
    (strict => TypesStand) => <>[](Extra = {} /\ Missing = Events)
===========================================================================
