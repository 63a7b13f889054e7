------------------------- MODULE MCSchemaReconciler -------------------------
(* Small schemas for SchemaReconciler.                                     *)
EXTENDS SchemaReconciler

Field(type, of, optional) ==
    [type |-> type, of |-> of, optional |-> optional, clauses |-> {}]

Text   == Field("string", None, FALSE)
MaybeText == Field("string", None, TRUE)
Tags   == Field("array", "string", FALSE)
Author == Field("record", "user", FALSE)
Guarded == [Text EXCEPT !.clauses = {"ASSERT", "PERMISSIONS"}]
File   == Field("file", None, FALSE)

Table(mode, fields, indexes, events) ==
    [mode |-> mode, rule |-> NoRule, fields |-> fields,
     indexes |-> [n \in indexes |-> "UNIQUE"],
     events |-> [n \in events |-> "notify"]]

Schema(tables, edges, buckets) ==
    [tables |-> tables, edges |-> edges, buckets |-> buckets]

Bucket(backend, readonly, rule, comment) ==
    [backend |-> backend, readonly |-> readonly, rule |-> rule,
     comment |-> comment]

Assets == Bucket("memory", FALSE, NoRule, None)

(* A table that exists gains a field and an index, and loses others.       *)
Users1 == Schema("user" :> Table("SCHEMAFULL", "name" :> Text @@ "old" :> Text,
                                 {"byOld"}, {"audit"}), Nothing, Nothing)
Users2 == Schema("user" :> Table("SCHEMAFULL", "name" :> Text @@ "tags" :> Tags,
                                 {"byName"}, {}), Nothing, Nothing)
(* A type changes.                                                         *)
Users3 == Schema("user" :> Table("SCHEMAFULL", "name" :> MaybeText,
                                 {}, {"audit"}), Nothing, Nothing)
(* A table whose rows belong to someone.                                   *)
OwnUsers == [Table("SCHEMAFULL", "name" :> Guarded, {"byName"}, {"audit"})
                EXCEPT !.rule = Where("own")]

(* A table, an edge and a bucket from nothing.                             *)
Social == Schema("user" :> OwnUsers,
                 "likes" :> Table("RELATION", "by" :> Author, {}, {}),
                 "assets" :> Assets)
(* The edge goes, the bucket changes.                                      *)
Plain == Schema("user" :> OwnUsers, Nothing,
                "assets" :> Bucket("disk", TRUE, NoRule, "files"))

(* A field of a type that the parser does not know.                        *)
Files == Schema("doc" :> Table("SCHEMAFULL", "body" :> File, {}, {}),
                Nothing, Nothing)

Empty == Schema(Nothing, Nothing, Nothing)

MCCases == {<<Empty, Users1>>, <<Users1, Users2>>, <<Users1, Users3>>,
            <<Empty, Social>>, <<Social, Plain>>, <<Plain, Social>>,
            <<Users2, Users2>>, <<Social, Social>>, <<Plain, Empty>>}

(* These pairs are what the theorems about drift speak of.                 *)
ASSUME MCCasesReadBack ==
    \A c \in MCCases :
        /\ Readable(c[1]) /\ Readable(c[2])
        /\ OpenEdges(c[1]) /\ OpenEdges(c[2])
        /\ OpenBuckets(c[2])

MCFileCases == {<<Empty, Files>>}
============================================================================
