------------------------------- MODULE Squash -------------------------------
(***************************************************************************)
(* Squashing: several migrations of a directory become one file.           *)
(*                                                                         *)
(*   src/src/migration/squash.ts                                           *)
(*                                                                         *)
(* The directory holds .surql files.  Statements define and remove a table *)
(* or an index on it; the server is one that refuses to define what is     *)
(* there.  How a file's statements are recorded one by one is the subject  *)
(* of MigrationRunner: here a migration is applied as a whole, up to the   *)
(* statement that is refused.                                              *)
(***************************************************************************)
EXTENDS Integers, Sequences, FiniteSets, SequencesExt

CONSTANT
    MaxSquashes     \* bound: files that squashing writes

SquashAssumption == MaxSquashes \in Nat

VARIABLES
    files,      \* the directory, a function from versions
    originals,  \* the directory as it was at the beginning
    schema,     \* what a database has that follows the directory
    applied,    \* the versions that it has applied
    failed,     \* the last call failed
    whole,      \* each squash reached to the newest file
    replaced    \* the database has applied no version whose squash it
                \* also saw

vars == <<files, originals, schema, applied, failed, whole, replaced>>

---------------------------------------------------------------------------
Define(object) == [define |-> TRUE, object |-> object]
Undefine(object) == [define |-> FALSE, object |-> object]

(* "ti" is an index on the table "t".                                      *)
Objects == {"t", "ti", "u"}
On(object) == IF object = "ti" THEN {"t"} ELSE {}
Under(object) == IF object = "t" THEN {"ti"} ELSE {}

(* A directory of up to three files: the ups are in order, and the DOWN    *)
(* sections, where there are any, take their own UP back, last things      *)
(* first, or name the things in the order in which UP does.                *)
Ups == {<<Define("t"), Define("ti")>>, <<Define("u")>>, <<Define("t")>>,
        <<Define("ti")>>, <<Undefine("t"), Define("u")>>}
Joined(texts) == FoldLeft(LAMBDA text, t : text \o t, <<>>, texts)
InUpOrder(up) == [i \in DOMAIN up |-> [up[i] EXCEPT !.define = ~@]]
Undo(up) == Reverse(InUpOrder(up))
File(up, down) == [up |-> up, down |-> down, from |-> {}]

---------------------------------------------------------------------------
(* The server: a statement is refused that defines what there is, or on a  *)
(* table that is not, or removes what is not.                              *)
Refuses(s, statement) ==
    IF statement.define
    THEN statement.object \in s \/ ~(On(statement.object) \subseteq s)
    ELSE statement.object \notin s

Effect(s, statement) ==
    IF statement.define THEN s \cup {statement.object}
    ELSE s \ ({statement.object} \cup Under(statement.object))

(* Statements one after the other, up to one that is refused.              *)
Run(s, statements) ==
    FoldLeft(LAMBDA r, statement :
                 IF r.refused \/ Refuses(r.schema, statement)
                 THEN [schema |-> r.schema, refused |-> TRUE]
                 ELSE [schema |-> Effect(r.schema, statement), refused |-> FALSE],
             [schema |-> s, refused |-> FALSE], statements)

(* loadMigration: up() of a .surql file is its whole text.                 *)
Text(file) == file.up \o file.down

Versions(dir) == SetToSortSeq(DOMAIN dir, <)

(* The files of a directory one after another, as migrateUp runs them.     *)
RunAll(s, dir, versions) ==
    FoldLeft(LAMBDA all, v :
                 IF all.refused THEN all
                 ELSE LET r == Run(all.schema, Text(dir[v])) IN
                      [schema |-> r.schema, refused |-> r.refused,
                       done |-> IF r.refused THEN all.done ELSE all.done \cup {v}],
             [schema |-> s, refused |-> FALSE, done |-> {}], versions)

(* The original directory as its UP sections alone.                        *)
UpsOnly ==
    [v \in DOMAIN originals |-> [originals[v] EXCEPT !.down = <<>>]]

Init ==
    /\ \E ups \in {<<a, b>> : a, b \in Ups} \cup {<<a, b, c>> : a, b, c \in Ups},
          sections \in {"none", "undo", "up order"} :
        files = [v \in DOMAIN ups |->
                    File(ups[v], CASE sections = "none" -> <<>>
                                   [] sections = "undo" -> Undo(ups[v])
                                   [] OTHER             -> InUpOrder(ups[v]))]
    /\ originals = files
    /\ ~RunAll({}, UpsOnly, Versions(originals)).refused
    /\ schema = {} /\ applied = {} /\ failed = FALSE
    /\ whole = TRUE /\ replaced = TRUE

---------------------------------------------------------------------------
(* Mutant: the upper bound is taken as exclusive.                          *)
FilterByRangeExclusive(from, to) ==
    SelectSeq(Versions(files), LAMBDA v : from <= v /\ v < to)

(* filterByRange, over what discoverMigrations found.                      *)
FilterByRange(from, to) ==
    SelectSeq(Versions(files), LAMBDA v : from <= v /\ v <= to)

(* extractSections, splitStatements and the merge of squashMigrations: the *)
(* UPs in order, the DOWNs in the reverse order of files, and each of them *)
(* in the reverse of its own order.                                        *)
MergedUps(matching) ==
    Joined([i \in DOMAIN matching |-> files[matching[i]].up])
MergedDowns(matching) ==
    Joined(Reverse([i \in DOMAIN matching |-> Reverse(files[matching[i]].down)]))

NewVersion == 1 + CHOOSE v \in DOMAIN files : \A w \in DOMAIN files : w <= v

(* squashMigrations: fewer than two matching files are an error.  What was *)
(* squashed stays in the directory until somebody removes it.              *)
SquashRange(from, to) ==
    LET matching == FilterByRange(from, to) IN
    /\ Cardinality({v \in DOMAIN files : files[v].from # {}}) < MaxSquashes
    /\ Len(matching) >= 2
    /\ files' = files @@ (NewVersion :>
           [up |-> MergedUps(matching), down |-> MergedDowns(matching),
            from |-> ToSet(matching)])
    /\ whole' = (whole /\ to + 1 >= NewVersion)
    /\ UNCHANGED <<originals, schema, applied, failed, replaced>>

(* Somebody removes the originals of a squashed file.                      *)
Sources == (UNION {files[v].from : v \in DOMAIN files}) \cap DOMAIN files
RemoveOriginals ==
    /\ Sources # {}
    /\ files' = [v \in DOMAIN files \ Sources |-> files[v]]
    /\ UNCHANGED <<originals, schema, applied, failed, whole, replaced>>

(* migrateUp on the database, with the directory as it is.                 *)
Up ==
    LET pending == SelectSeq(Versions(files), LAMBDA v : v \notin applied)
        r == RunAll(schema, files, pending)
    IN  /\ pending # <<>>
        /\ schema' = r.schema
        /\ applied' = applied \cup r.done
        /\ failed' = r.refused
        /\ replaced' = (replaced /\ Sources = {} /\
               \A v \in DOMAIN files : files[v].from \cap applied = {})
        /\ UNCHANGED <<files, originals, whole>>

Next ==
    \/ \E from, to \in 1 .. 5 : SquashRange(from, to)
    \/ RemoveOriginals
    \/ Up

Spec == Init /\ [][Next]_vars

TypeOK ==
    /\ DOMAIN files \subseteq Nat
    /\ schema \subseteq Objects
    /\ {failed, whole, replaced} \subseteq BOOLEAN

---------------------------------------------------------------------------
(* A database that never saw both an original and the file it was squashed *)
(* into, and that is up to date, has what the original directory makes,    *)
(* when no file has a DOWN section and every squash reached to the newest  *)
(* file: statements were neither lost nor taken in another order.  (With   *)
(* DOWN sections up() executes those too; a squash of older files gets a   *)
(* version above the newer ones, and runs after them.)                     *)
SquashKeepsEffect ==
    LET plain == \A v \in DOMAIN originals : originals[v].down = <<>> IN
    /\ plain /\ whole /\ replaced
    /\ applied # {} /\ DOMAIN files \subseteq applied
    => ~failed /\ schema = RunAll({}, originals, Versions(originals)).schema

(* What the original v was written for.                                    *)
Before(v) ==
    RunAll({}, UpsOnly, SelectSeq(Versions(originals), LAMBDA w : w < v)).schema

TakesBack(s, up, down) ==
    LET r == Run(s, up) IN
    ~r.refused /\ Run(r.schema, down) = [schema |-> s, refused |-> FALSE]

(* The DOWN section of a squashed file takes back what its UP section      *)
(* does, from the state that its first original was written for, when the  *)
(* DOWN section of each original, last statement first, takes back its own *)
(* UP.  (squash.ts:249 reverses each section.  One that is already in undo *)
(* order and whose statements depend on each other is turned around, and   *)
(* the squashed DOWN is refused.)                                          *)
SquashedDownUndoes ==
    \A v \in DOMAIN files :
        LET from == files[v].from IN
        /\ from # {} /\ from \subseteq DOMAIN originals
        /\ \A w \in from : TakesBack(Before(w), originals[w].up,
                                    Reverse(originals[w].down))
        => TakesBack(Before(Min(from)), files[v].up, files[v].down)
=============================================================================
