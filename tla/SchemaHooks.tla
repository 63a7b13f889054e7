---------------------------- MODULE SchemaHooks -----------------------------
(***************************************************************************)
(* The pre-commit hook that compares the schema files with a snapshot.     *)
(*                                                                         *)
(*   src/src/migration/hooks.ts, versioning.ts                             *)
(*                                                                         *)
(* The check reads the snapshot, lists the files and reads them one after  *)
(* another, and all of it may be edited meanwhile.  It compares the names  *)
(* of tables and nothing else: the comments that say it compares contents, *)
(* by their SHA-256 (hooks.ts:10-13, 131-133), describe no code, and the   *)
(* snapshot holds neither text nor hash of a file.                         *)
(***************************************************************************)
EXTENDS Naturals, Sequences, FiniteSets

CONSTANTS
    MaxChanges  \* bound: files written and snapshots stored

HooksAssumption == MaxChanges \in Nat

VARIABLES
    declared,   \* declared[f]: whether f is there and the tables it names
    store,      \* the stored snapshot, if there is one
    check,      \* the check that is under way
    report,     \* what the last one reported
    changes,
    began,      \* history: the snapshot when the last check began
    since       \* history: since[f] is what f was, one time or another,
                \* from then on until the check ended

vars == <<declared, store, check, report, changes, began, since>>

---------------------------------------------------------------------------
Files == {"a.surql", "b.surql", "migrations/m.surql"}
Tables == {"t", "u"}
Snapshots == [stored: BOOLEAN, tables: SUBSET Tables, edges: SUBSET Tables]
NoSnapshot == [stored |-> FALSE, tables |-> {}, edges |-> {}]
Absent == [there |-> FALSE, tables |-> {}]
Contents == {Absent} \cup [there: {TRUE}, tables: SUBSET Tables]

(* defaultSchemaFilter                                                     *)
DefaultSchemaFilter(f) == f # "migrations/m.surql"

NotReported == [done |-> FALSE]
NotChecking == [at |-> "idle"]

Init ==
    /\ declared \in [Files -> {Absent, [there |-> TRUE, tables |-> {"t"}]}]
    /\ store \in {NoSnapshot, [NoSnapshot EXCEPT !.stored = TRUE, !.tables = {"t"}]}
    /\ check = NotChecking
    /\ report = NotReported
    /\ changes = 0
    /\ began = NoSnapshot
    /\ since = [f \in Files |-> {}]

Change ==
    /\ changes < MaxChanges
    /\ changes' = changes + 1

(* Somebody writes or removes a file.                                      *)
Edit ==
    /\ Change
    /\ \E f \in Files, d \in Contents :
        /\ declared' = [declared EXCEPT ![f] = d]
        /\ since' = IF check.at = "idle" THEN since
                    ELSE [since EXCEPT ![f] = @ \cup {d}]
    /\ UNCHANGED <<store, check, report, began>>

(* createSnapshot and storeSnapshot of a schema of tables and edges.       *)
StoreSnapshot ==
    /\ Change
    /\ \E tables, edges \in SUBSET Tables :
        /\ tables \cap edges = {}
        /\ store' = [stored |-> TRUE, tables |-> tables, edges |-> edges]
    /\ UNCHANGED <<declared, check, report, began, since>>

---------------------------------------------------------------------------
(* checkSchemaDrift: the snapshot is read first.                           *)
Begin(nonBlocking) ==
    /\ check.at = "idle"
    /\ check' = [at |-> IF store.stored THEN "listing" ELSE "passed",
                 expected |-> store.tables \cup store.edges,
                 nonBlocking |-> nonBlocking, files |-> {},
                 found |-> {}, extra |-> {}]
    /\ report' = NotReported
    /\ began' = store
    /\ since' = [f \in Files |-> {declared[f]}]
    /\ UNCHANGED <<declared, store, changes>>

SchemaFiles == {f \in Files : declared[f].there /\ DefaultSchemaFilter(f)}

(* collectSchemaFiles: without any the check passes.                       *)
Collect ==
    /\ check.at = "listing"
    /\ check' = [check EXCEPT !.at = IF SchemaFiles = {} THEN "passed" ELSE "reading",
                              !.files = SchemaFiles]
    /\ UNCHANGED <<declared, store, report, changes, began, since>>

(* Files are read in order; one that is gone by now makes the check throw. *)
(* extractDeclaredTables: every name that the text mentions.               *)
ReadFile ==
    LET f == IF "a.surql" \in check.files THEN "a.surql" ELSE "b.surql" IN
    /\ check.at = "reading" /\ check.files # {}
    /\ check' = IF declared[f].there
                THEN [check EXCEPT !.files = @ \ {f},
                         !.found = @ \cup declared[f].tables,
                         !.extra = @ \cup (declared[f].tables \ check.expected)]
                ELSE NotChecking
    /\ UNCHANGED <<declared, store, report, changes, began, since>>

(* The tables reported: declared and not expected, expected and not found. *)
Issues(c) == c.extra \cup (c.expected \ c.found)

Finish ==
    /\ check.at = "passed" \/ (check.at = "reading" /\ check.files = {})
    /\ LET issues == IF check.at = "passed" THEN {} ELSE Issues(check) IN
       report' = [done |-> TRUE, compared |-> check.at = "reading",
                  issues |-> issues, nonBlocking |-> check.nonBlocking,
                  passed |-> check.nonBlocking \/ issues = {}]
    /\ check' = NotChecking
    /\ UNCHANGED <<declared, store, changes, began, since>>

Next ==
    \/ Edit \/ StoreSnapshot
    \/ \E n \in BOOLEAN : Begin(n)
    \/ Collect \/ ReadFile \/ Finish

Spec == Init /\ [][Next]_vars

TypeOK ==
    /\ declared \in [Files -> Contents]
    /\ store \in Snapshots
    /\ check.at \in {"idle", "listing", "reading", "passed"}
    /\ report.done \in BOOLEAN
    /\ changes \in 0 .. MaxChanges
    /\ began \in Snapshots
    /\ since \in [Files -> SUBSET Contents]

---------------------------------------------------------------------------
Expected == began.tables \cup began.edges
Schema == {f \in Files : DefaultSchemaFilter(f)}

(* The names that schema files defined at one moment of the check or       *)
(* another, and the ones that some schema file defined all the time.       *)
Sometimes == {n \in Tables : \E f \in Schema : \E d \in since[f] : n \in d.tables}
Kept(f) == {n \in Tables : \A d \in since[f] : n \in d.tables}
AllTheTime == UNION {Kept(f) : f \in Schema}

(* A check, also one during which files are edited, reports each name that *)
(* only one side had all the time, the schema files or the snapshot that   *)
(* it read first, and none that both had all the time or neither had; it   *)
(* fails on such a name unless it must not block.  It compares nothing     *)
(* only when there was no snapshot, or no schema file at some moment.  So  *)
(* when nothing is edited it fails exactly when the names differ.          *)
NamesCompared ==
    report.done =>
        /\ report.compared =>
            /\ began.stored
            /\ \E f \in Schema : \E d \in since[f] : d.there
            /\ \A n \in report.issues :
                IF n \in Expected THEN n \notin AllTheTime ELSE n \in Sometimes
            /\ (AllTheTime \ Expected) \cup (Expected \ Sometimes)
                    \subseteq report.issues
        /\ ~report.compared =>
            /\ report.issues = {}
            /\ ~began.stored \/ \A f \in Schema : \E d \in since[f] : ~d.there
        /\ report.passed <=> report.nonBlocking \/ report.issues = {}

---------------------------------------------------------------------------
(* What it rests on: a check holds names that its files defined at some    *)
(* moment, and of each file that it has read, or that was not there to be  *)
(* listed, the names that were in it all the time.                         *)
Checking ==
    /\ DOMAIN check = {"at", "expected", "nonBlocking", "files", "found", "extra"}
    /\ check.nonBlocking \in BOOLEAN
    /\ check.expected = Expected
    /\ \A f \in Files : declared[f] \in since[f]
    /\ ~report.done

Listed ==
    /\ check.files \subseteq Schema
    /\ \E f \in Schema : \E d \in since[f] : d.there
    /\ check.found \subseteq Sometimes
    /\ \A f \in Schema \ check.files : Kept(f) \subseteq check.found
    /\ check.extra = check.found \ check.expected

HooksInv ==
    /\ check.at # "idle" => Checking
    /\ check.at \in {"listing", "reading"} => began.stored
    /\ check.at = "listing" => check.found = {} /\ check.extra = {}
    /\ check.at = "reading" => Listed
    /\ check.at = "passed" =>
            ~began.stored \/ \A f \in Schema : \E d \in since[f] : ~d.there
    /\ NamesCompared
=============================================================================
