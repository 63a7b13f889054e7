----------------------------- MODULE SchemaEcho -----------------------------
(***************************************************************************)
(* Index definitions on their way to a database and back: the builders     *)
(* make one, the emitter states it, the engine stores it and echoes it     *)
(* with its own defaults, and the parser makes a definition of the echo.   *)
(*                                                                         *)
(*   src/src/schema/table.ts, sql.ts, parser.ts                            *)
(*                                                                         *)
(* A behaviour carries one index from database to database: what was       *)
(* pulled from one is applied to the next.  A column is known by the       *)
(* keywords in its name, since the parser looks for them in the whole text.*)
(***************************************************************************)
EXTENDS Naturals, Sequences

CONSTANT
    MaxDatabases    \* bound: databases that the index is applied to

EchoAssumption == MaxDatabases \in Nat

VARIABLES
    built,      \* the definition that a builder made
    definition, \* the definition at hand: the built one, or the last one pulled
    stored,     \* what each database echoes
    refused,    \* a database refused the statement
    phase

vars == <<built, definition, stored, refused, phase>>

---------------------------------------------------------------------------
None == "none"
Columns == {"plain", "research", "unique_id", "distance"}
Keywords(column) ==
    CASE column = "research" -> {"SEARCH"}
      [] column = "unique_id" -> {"UNIQUE"}
      [] OTHER -> {}

VectorTypes == {"F64", "F32", "F16", "I8"}
Distances == {"COSINE", "EUCLIDEAN"}

Plain(column, type) ==
    [column |-> column, type |-> type, analyzer |-> None, bm25 |-> FALSE,
     highlights |-> FALSE, distance |-> None, vector |-> None,
     capacity |-> None, efc |-> None, m |-> None, degree |-> None,
     lBuild |-> None, alpha |-> None, hashed |-> FALSE]
NoDefinition == Plain("plain", None)

Init ==
    /\ built = NoDefinition /\ definition = NoDefinition
    /\ stored = <<>>
    /\ refused = FALSE
    /\ phase = "new"

---------------------------------------------------------------------------
(* The builders.  An argument that is left out is None.                    *)
Either(given, default) == IF given = None THEN default ELSE given

Declare(d) ==
    /\ phase = "new"
    /\ built' = d /\ definition' = d
    /\ phase' = "defined"
    /\ UNCHANGED <<stored, refused>>

Index == \E c \in Columns : Declare(Plain(c, "INDEX"))
UniqueIndex == \E c \in Columns : Declare(Plain(c, "UNIQUE"))

Search(c, analyzer, bm25, highlights) ==
    [Plain(c, "SEARCH") EXCEPT
        !.analyzer = analyzer, !.bm25 = bm25, !.highlights = highlights]

SearchIndex ==
    \E c \in Columns, a \in {None, "ascii", "text_en"}, b, h \in BOOLEAN :
        Declare(Search(c, a, b, h))

(* MTREE_REFUSED_TYPES and DISKANN_ALLOWED_TYPES: other types throw.       *)
MtreeTakes(vector) == vector \notin {"F16", "I8"}
DiskannTakes(vector) == vector \in {"F32", "F16", "I8"}

Mtree(c, distance, vector, capacity) ==
    [Plain(c, "MTREE") EXCEPT
        !.distance = distance, !.vector = vector, !.capacity = capacity]

MtreeIndex ==
    \E c \in Columns, d \in Distances \cup {None},
       v \in VectorTypes \cup {None}, capacity \in {None, "80"} :
        /\ MtreeTakes(Either(v, "F64"))
        /\ Declare(Mtree(c, Either(d, "COSINE"), Either(v, "F64"), capacity))

Hnsw(c, distance, vector, efc, m) ==
    [Plain(c, "HNSW") EXCEPT
        !.distance = distance, !.vector = vector, !.efc = efc, !.m = m]

HnswIndex ==
    \E c \in Columns, d \in Distances \cup {None},
       v \in VectorTypes \cup {None}, efc \in {None, "500"}, m \in {None, "16"} :
        Declare(Hnsw(c, Either(d, "COSINE"), Either(v, "F32"), efc, m))

(* canonicalAlpha: a whole number has no fraction.                         *)
CanonicalAlpha(alpha) == IF alpha = "2.0" THEN "2" ELSE alpha

Diskann(c, distance, vector, degree, alpha, hashed) ==
    [Plain(c, "DISKANN") EXCEPT
        !.distance = distance, !.vector = vector, !.degree = degree,
        !.lBuild = "100", !.alpha = alpha, !.hashed = hashed]

DiskannIndex ==
    \E c \in Columns, d \in Distances \cup {None, "INNER_PRODUCT"},
       v \in VectorTypes \cup {None}, degree \in {None, "32"},
       alpha \in {None, "1.5", "2.0"}, hashed \in BOOLEAN :
        /\ DiskannTakes(Either(v, "F32"))
        /\ Declare(Diskann(c, Either(d, "EUCLIDEAN"), Either(v, "F32"),
                           Either(degree, "64"),
                           CanonicalAlpha(Either(alpha, "1.2")), hashed))

---------------------------------------------------------------------------
(* generateIndexSql: the clauses that the statement spells.                *)
GenerateIndexSql(i) ==
    CASE i.type = "SEARCH" -> [i EXCEPT !.analyzer = Either(@, "ascii")]
      [] i.type = "DISKANN" ->
           [i EXCEPT !.distance = Either(@, "EUCLIDEAN"),
                     !.vector = Either(@, "F32"), !.degree = Either(@, "64"),
                     !.lBuild = Either(@, "100"), !.alpha = Either(@, "1.2")]
      [] OTHER -> i

Refuses(s) ==
    \/ s.type = "MTREE" /\ s.vector \in {"F16", "I8"}
    \/ s.type = "DISKANN" /\ s.vector \notin {"F32", "F16", "I8"}

(* What INFO gives: the engine's defaults are filled in, and a fractional  *)
(* ALPHA is a float literal.                                               *)
Echo(s) ==
    CASE s.type = "MTREE" ->
           [s EXCEPT !.distance = Either(@, "EUCLIDEAN"),
                     !.vector = Either(@, "F64"), !.capacity = Either(@, "40")]
      [] s.type = "HNSW" ->
           [s EXCEPT !.distance = Either(@, "EUCLIDEAN"),
                     !.vector = Either(@, "F32"),
                     !.efc = Either(@, "150"), !.m = Either(@, "12")]
      [] s.type = "DISKANN" ->
           [s EXCEPT !.alpha =
                CASE @ = "1.2" -> "1.2f" [] @ = "1.5" -> "1.5f" [] OTHER -> @]
      [] OTHER -> s

Apply ==
    /\ phase = "defined" /\ ~refused /\ Len(stored) < MaxDatabases
    /\ LET s == GenerateIndexSql(definition)
       IN  /\ refused' = Refuses(s)
           /\ stored' = IF Refuses(s) THEN stored ELSE Append(stored, Echo(s))
    /\ phase' = "applied"
    /\ UNCHANGED <<built, definition>>

---------------------------------------------------------------------------
(* extractIndexType: the first keyword, in this order, that is anywhere in *)
(* the text.                                                               *)
ExtractIndexType(s) ==
    LET words == Keywords(s.column) \cup {s.type}
    IN  IF "UNIQUE" \in words THEN "UNIQUE"
        ELSE IF "SEARCH" \in words THEN "SEARCH"
        ELSE IF "HNSW" \in words THEN "HNSW"
        ELSE IF "MTREE" \in words THEN "MTREE"
        ELSE IF "DISKANN" \in words THEN "DISKANN" ELSE "INDEX"

(* COLUMNS_RE and FIELDS_RE stop at the first keyword after one character. *)
ExtractIndexColumns(s) == IF s.column = "research" THEN "re" ELSE s.column

(* A column named like the clause hides it, if another word follows.       *)
ExtractDistance(s) == IF s.column = "distance" THEN None ELSE s.distance

ExtractAnalyzer(s) == IF s.analyzer = "ascii" THEN None ELSE s.analyzer

ExtractAlpha(s) ==
    CASE s.alpha = "1.2f" -> "1.2" [] s.alpha = "1.5f" -> "1.5"
      [] OTHER -> s.alpha

(* Mutant: EFC and M are not read.                                         *)
ParseWithoutTuning(s) ==
    LET d == [Plain(ExtractIndexColumns(s), ExtractIndexType(s)) EXCEPT
                 !.distance = ExtractDistance(s), !.vector = s.vector]
    IN  IF d.type = "HNSW" THEN d ELSE
        [d EXCEPT !.analyzer = ExtractAnalyzer(s), !.bm25 = s.bm25,
                  !.highlights = s.highlights, !.degree = s.degree,
                  !.lBuild = s.lBuild, !.alpha = ExtractAlpha(s),
                  !.hashed = s.hashed]

(* parseIndex: the clauses that the type it found has.                     *)
ParseIndex(s) ==
    LET type == ExtractIndexType(s)
        d == Plain(ExtractIndexColumns(s), type)
        vector == [d EXCEPT !.distance = ExtractDistance(s), !.vector = s.vector]
    IN  CASE type = "SEARCH" ->
               [d EXCEPT !.analyzer = ExtractAnalyzer(s), !.bm25 = s.bm25,
                         !.highlights = s.highlights]
          [] type = "MTREE" -> vector
          [] type = "HNSW" -> [vector EXCEPT !.efc = s.efc, !.m = s.m]
          [] type = "DISKANN" ->
               [vector EXCEPT !.degree = s.degree, !.lBuild = s.lBuild,
                              !.alpha = ExtractAlpha(s), !.hashed = s.hashed]
          [] OTHER -> d

Pull ==
    /\ phase = "applied" /\ ~refused
    /\ definition' = ParseIndex(stored[Len(stored)])
    /\ phase' = "defined"
    /\ UNCHANGED <<built, stored, refused>>

Next ==
    \/ Index \/ UniqueIndex \/ SearchIndex
    \/ MtreeIndex \/ HnswIndex \/ DiskannIndex
    \/ Apply \/ Pull

Spec == Init /\ [][Next]_vars

---------------------------------------------------------------------------
(* What a builder has made is never refused: table.ts says that they throw *)
(* on a combination that the engine would reject.                          *)
BuiltIsAccepted == ~refused

(* An index that is pulled from one database and applied to the next is    *)
(* the same index there, whatever its kind and its tuning.  The capacity   *)
(* of an MTREE index is not parsed, and a column whose name holds a        *)
(* keyword is read as the keyword: these are left out.                     *)
CopiesAreEqual ==
    built.capacity = None /\ built.column = "plain" =>
        \A i \in DOMAIN stored : stored[i] = stored[1]

(* A definition that states its tuning compares equal to its own echo.     *)
EchoIsDeclared ==
    (/\ built.capacity = None /\ built.column = "plain"
     /\ built.analyzer # "ascii"
     /\ built.type = "HNSW" => None \notin {built.efc, built.m}) =>
        definition = built

(* What makes it so: the echo of a pulled definition is the echo that it   *)
(* was pulled from, so every database gives the same; and no definition    *)
(* becomes one whose vectors its index refuses.                            *)
Built(d) ==
    \/ \E c \in Columns, t \in {"INDEX", "UNIQUE"} : d = Plain(c, t)
    \/ \E c \in Columns, a \in {None, "ascii", "text_en"}, b, h \in BOOLEAN :
        d = Search(c, a, b, h)
    \/ \E c \in Columns, e \in Distances, v \in {"F64", "F32"},
         n \in {None, "80"} :
        d = Mtree(c, e, v, n)
    \/ \E c \in Columns, e \in Distances, v \in VectorTypes,
         f \in {None, "500"}, m \in {None, "16"} :
        d = Hnsw(c, e, v, f, m)
    \/ \E c \in Columns, e \in Distances \cup {"INNER_PRODUCT"},
         v \in {"F32", "F16", "I8"}, n \in {"32", "64"},
         a \in {"1.2", "1.5", "2"}, h \in BOOLEAN :
        d = Diskann(c, e, v, n, a, h)

Types == {None, "INDEX", "UNIQUE", "SEARCH", "MTREE", "HNSW", "DISKANN"}
Definitions ==
    [column: Columns \cup {"re"}, type: Types,
     analyzer: {None, "ascii", "text_en"}, bm25: BOOLEAN, highlights: BOOLEAN,
     distance: {None, "INNER_PRODUCT"} \cup Distances,
     vector: {None} \cup VectorTypes, capacity: {None, "40", "80"},
     efc: {None, "150", "500"}, m: {None, "12", "16"},
     degree: {None, "32", "64"}, lBuild: {None, "100"},
     alpha: {None, "1.2", "1.2f", "1.5", "1.5f", "2"}, hashed: BOOLEAN]

EchoInv ==
    /\ phase \in {"new", "defined", "applied"}
    /\ IF phase = "new" THEN built = NoDefinition /\ stored = <<>>
       ELSE Built(built)
    /\ definition \in Definitions /\ ~Refuses(definition)
    /\ stored \in Seq(Definitions)
    /\ \A i \in DOMAIN stored : ~Refuses(stored[i])
    /\ ~refused
    /\ phase = "applied" => stored # <<>>
    /\ built.column = "plain" /\ built.capacity = None =>
        LET echo == Echo(GenerateIndexSql(built))
        IN  /\ \A i \in DOMAIN stored : stored[i] = echo
            /\ definition # built =>
                phase # "new" /\ definition = ParseIndex(echo)
=============================================================================
