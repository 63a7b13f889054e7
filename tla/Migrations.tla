---------------------------- MODULE Migrations ----------------------------
(***************************************************************************)
(* The data a migration run works on: migration files, what the loader     *)
(* makes of them, what SurrealDB does with one statement, and the plan a   *)
(* command derives from the recorded history.                              *)
(*                                                                         *)
(*   src/src/migration/discovery.ts, executor.ts, rollback.ts              *)
(*                                                                         *)
(* A migration is identified with its version.  Versions are fixed-width   *)
(* digit strings, which localeCompare, `>` and `<=` all order as numbers.  *)
(* That no two files share a version is what validateMigrations checks.    *)
(***************************************************************************)
EXTENDS Naturals, Sequences, FiniteSets

CONSTANTS
    Versions,   \* the versions of the files in the migrations directory
    Objects,    \* the schema objects (tables, fields, indexes) they define
    Format,     \* Format[v]: "surql" or "ts", the extension of v's file
    Section     \* Section[v]: the author's UP and DOWN statements of v

Directions == {"UP", "DOWN"}

(* A statement defines or removes an object; `guarded` says that it is     *)
(* written IF NOT EXISTS / IF EXISTS.                                      *)
Statement == [op: {"DEFINE", "REMOVE"}, obj: Objects, guarded: BOOLEAN]

Script == Seq(Statement)

ASSUME VersionsAssumption ==
    /\ Versions \subseteq Nat \ {0}
    /\ IsFiniteSet(Versions)

ASSUME FilesAssumption ==
    /\ Format \in [Versions -> {"surql", "ts"}]
    /\ Section \in [Versions -> [up: Script, down: Script]]

---------------------------------------------------------------------------
(* loadMigration: a .surql file is handed over whole as up(), its DOWN     *)
(* section included, and down() is a comment; a .ts module exports both.   *)
LoadMigration(v) ==
    IF Format[v] = "surql"
    THEN [up |-> Section[v].up \o Section[v].down, down |-> <<>>]
    ELSE Section[v]

Sql(d, v) ==
    IF d = "UP" THEN LoadMigration(v).up ELSE LoadMigration(v).down

---------------------------------------------------------------------------
(* The database.  A bare DEFINE of an object that exists is refused, and   *)
(* so is a bare REMOVE of one that does not.  A refused statement changes  *)
(* nothing and does not stop the statements behind it: outside a           *)
(* transaction each commits on its own.                                    *)
Refused(s, schema) ==
    /\ ~s.guarded
    /\ (s.op = "DEFINE") <=> (s.obj \in schema)

Execute(s, schema) ==
    IF s.op = "DEFINE" THEN schema \cup {s.obj} ELSE schema \ {s.obj}

---------------------------------------------------------------------------
(* The order a command walks its plan in: ascending up, descending down.   *)
Precedes(d, v, w) == IF d = "UP" THEN v < w ELSE w < v

(* Mutant: the target itself left out.                                     *)
SelectedBelowTarget(d, recorded, target) ==
    IF d = "UP"
    THEN {v \in Versions \ recorded : target = 0 \/ v < target}
    ELSE {v \in Versions \cap recorded : target = 0 \/ v > target}

(* createMigrationPlan and the loops of migrateUp and migrateDown.  A      *)
(* target of 0 stands for the absent (falsy) targetVersion.                *)
Selected(d, recorded, target) ==
    IF d = "UP"
    THEN {v \in Versions \ recorded : target = 0 \/ v <= target}
    ELSE {v \in Versions \cap recorded : target = 0 \/ v > target}

(* Mutant: slice(-steps).                                                  *)
LastSteps(d, selected, steps) ==
    {v \in selected :
        Cardinality({w \in selected : Precedes(d, v, w)}) < steps}

(* plan.migrations.slice(0, steps) of the sorted selection.                *)
FirstSteps(d, selected, steps) ==
    {v \in selected :
        Cardinality({w \in selected : Precedes(d, w, v)}) < steps}

Plan(d, recorded, target, steps) ==
    FirstSteps(d, Selected(d, recorded, target), steps)

(* Mutant: an unsorted plan.                                               *)
AnyOf(d, v, remaining) == v \in remaining

(* The entry the loop takes next from what is left of the plan.            *)
Foremost(d, v, remaining) ==
    /\ v \in remaining
    /\ \A w \in remaining \ {v} : Precedes(d, v, w)

(* The objects a migration is about: those its UP section defines.         *)
Defines(v) ==
    {Section[v].up[i].obj : i \in DOMAIN Section[v].up}
===========================================================================
