---------------------------- MODULE QueryBuilder ----------------------------
(***************************************************************************)
(* The immutable query builder: every call returns a new query, so that    *)
(* several queries are derived from one; toSurQL() renders the statement   *)
(* of its last operation, from what earlier calls have set.                *)
(*                                                                         *)
(*   src/src/query/builder.ts, src/src/types/operators.ts                  *)
(*                                                                         *)
(* Names, values and formats are abstract.  A row is the set of the        *)
(* conditions it meets.                                                    *)
(***************************************************************************)
EXTENDS Integers, Sequences, FiniteSets

CONSTANT
    MaxQueries  \* bound: queries derived from the first one

BuilderAssumption == MaxQueries \in Nat

VARIABLES
    queries     \* each with its state and the calls that made it

vars == <<queries>>

---------------------------------------------------------------------------
Null == "null"

(* A raw condition is a disjunction; or_() puts it in parentheses.         *)
Conditions ==
    {[atoms |-> <<"p">>, parens |-> FALSE],
     [atoms |-> <<"p", "q">>, parens |-> FALSE],
     [atoms |-> <<"q", "r">>, parens |-> TRUE]}
Bare(c) == ~c.parens /\ Len(c.atoms) > 1

Call(method, arg) == [method |-> method, arg |-> arg]
Condition(c) == [method |-> "where", arg |-> Null, condition |-> c]

Operations == {"select", "insert", "update", "delete", "upsert", "relate"}
Searches == {"vectorSearch", "vectorSearchIndexed", "fulltextSearch"}

(* defaultState                                                            *)
DefaultState ==
    [operation |-> "select", table |-> Null, fields |-> <<>>,
     conditions |-> <<>>, order |-> <<>>, group |-> <<>>, groupAll |-> FALSE,
     limit |-> Null, offset |-> Null, data |-> Null, edge |-> Null,
     returnFormat |-> Null, hints |-> <<>>, traversal |-> Null,
     vectorField |-> Null, vectorDistance |-> Null, vectorEf |-> Null,
     fulltext |-> Null]

---------------------------------------------------------------------------
(* What each call sets.                                                    *)
WithOperation(s, c) ==
    CASE c.method = "select" -> [s EXCEPT !.operation = "select",
                                          !.fields = <<c.arg>>]
      [] c.method \in {"insert", "update", "upsert"} ->
           [s EXCEPT !.operation = c.method, !.table = c.arg, !.data = c.arg]
      [] c.method = "delete" -> [s EXCEPT !.operation = "delete", !.table = c.arg]
      [] c.method = "relate" ->
           [s EXCEPT !.operation = "relate", !.edge = c.arg, !.data = Null]

(* Mutant: the indexed form of an earlier call stays armed.                *)
WithSearchKeepsEf(s, c) ==
    CASE c.method = "vectorSearch" ->
           [s EXCEPT !.vectorField = c.arg, !.vectorDistance = "COSINE"]
      [] c.method = "vectorSearchIndexed" ->
           [s EXCEPT !.vectorField = c.arg, !.vectorDistance = Null,
                     !.vectorEf = "ef"]
      [] c.method = "fulltextSearch" -> [s EXCEPT !.fulltext = c.arg]

WithSearch(s, c) ==
    CASE c.method = "vectorSearch" ->
           [s EXCEPT !.vectorField = c.arg, !.vectorDistance = "COSINE",
                     !.vectorEf = Null]
      [] c.method = "vectorSearchIndexed" ->
           [s EXCEPT !.vectorField = c.arg, !.vectorDistance = Null,
                     !.vectorEf = "ef"]
      [] c.method = "fulltextSearch" -> [s EXCEPT !.fulltext = c.arg]

(* searchScore appends a field, after a star when there was none.          *)
WithClause(s, c) ==
    CASE c.method = "fromTable" -> [s EXCEPT !.table = c.arg]
      [] c.method = "where" -> [s EXCEPT !.conditions = Append(@, c.condition)]
      [] c.method = "orderBy" -> [s EXCEPT !.order = Append(@, c.arg)]
      [] c.method = "groupBy" -> [s EXCEPT !.group = Append(@, c.arg)]
      [] c.method = "groupAll" -> [s EXCEPT !.groupAll = TRUE]
      [] c.method = "limit" -> [s EXCEPT !.limit = c.arg]
      [] c.method = "offset" -> [s EXCEPT !.offset = c.arg]
      [] c.method = "traverse" -> [s EXCEPT !.traversal = c.arg]
      [] c.method = "returnFormat" -> [s EXCEPT !.returnFormat = c.arg]
      [] c.method = "withHint" -> [s EXCEPT !.hints = Append(@, c.arg)]
      [] c.method = "searchScore" ->
           [s EXCEPT !.fields = (IF @ = <<>> THEN <<"*">> ELSE @) \o <<"score">>]

With(s, c) ==
    IF c.method \in Operations THEN WithOperation(s, c)
    ELSE IF c.method \in Searches THEN WithSearch(s, c)
    ELSE WithClause(s, c)

WithAll(cs) ==
    LET after[i \in 0 .. Len(cs)] ==
            IF i = 0 THEN DefaultState ELSE With(after[i - 1], cs[i])
    IN  after[Len(cs)]

---------------------------------------------------------------------------
(* toSurQL                                                                 *)
Throws == [op |-> "throws"]

(* The search of buildSelect: a number as second argument asks for the     *)
(* index.                                                                  *)
VectorForm(s) ==
    IF s.vectorField = Null THEN Null
    ELSE IF s.vectorEf # Null THEN "indexed" ELSE "exhaustive"

BuildSelect(s) ==
    [op |-> "select", fields |-> IF s.fields = <<>> THEN <<"*">> ELSE s.fields,
     table |-> s.table, traversal |-> s.traversal, vector |-> VectorForm(s),
     fulltext |-> s.fulltext, conditions |-> s.conditions,
     group |-> IF s.groupAll THEN <<"ALL">> ELSE s.group,
     order |-> s.order, limit |-> s.limit, start |-> s.offset, hints |-> s.hints]

Write(s, conditions) ==
    [op |-> s.operation, table |-> s.table, data |-> s.data,
     conditions |-> conditions, returnFormat |-> s.returnFormat,
     vector |-> Null, fulltext |-> Null]

BuildInsert(s) ==
    IF s.table = Null \/ s.data = Null THEN Throws ELSE Write(s, <<>>)

BuildUpdate(s) ==
    IF s.table = Null \/ s.data = Null THEN Throws ELSE Write(s, s.conditions)

BuildUpsert(s) ==
    IF s.table = Null \/ s.data = Null THEN Throws ELSE Write(s, s.conditions)

BuildDelete(s) ==
    IF s.table = Null THEN Throws
    ELSE [Write(s, s.conditions) EXCEPT !.data = Null]

BuildRelate(s) ==
    IF s.edge = Null THEN Throws ELSE [Write(s, <<>>) EXCEPT !.table = s.edge]

ToSurQL(s) ==
    CASE s.operation = "select" -> BuildSelect(s)
      [] s.operation = "insert" -> BuildInsert(s)
      [] s.operation = "update" -> BuildUpdate(s)
      [] s.operation = "delete" -> BuildDelete(s)
      [] s.operation = "upsert" -> BuildUpsert(s)
      [] s.operation = "relate" -> BuildRelate(s)

---------------------------------------------------------------------------
(* How the server reads WHERE a AND b OR c: AND binds tighter, and only    *)
(* parentheses keep a disjunction together.  A term begins a new           *)
(* alternative when an OR stands before it.                                *)
Term(atoms, or) == [atoms |-> atoms, or |-> or]
TermsOf(c) ==
    IF c.parens THEN <<Term(c.atoms, FALSE)>>
    ELSE [i \in DOMAIN c.atoms |-> Term(<<c.atoms[i]>>, i > 1)]

Where(statement) ==
    LET cs == statement.conditions
        terms[i \in 0 .. Len(cs)] ==
            IF i = 0 THEN <<>> ELSE terms[i - 1] \o TermsOf(cs[i])
    IN  (IF statement.vector = Null THEN <<>>
         ELSE <<Term(<<"near">>, FALSE)>>)
        \o (IF statement.fulltext = Null THEN <<>>
            ELSE <<Term(<<"text">>, FALSE)>>)
        \o terms[Len(cs)]

AtomsOf(term) == {term.atoms[i] : i \in DOMAIN term.atoms}
Meets(row, atoms) == atoms \cap row # {}

(* The alternatives of a WHERE, each of terms that stand before the next   *)
(* OR; and the rows that it lets through.                                  *)
Alternatives(terms) ==
    {{AtomsOf(terms[j]) : j \in {j \in i .. Len(terms) :
                                    \A k \in i + 1 .. j : ~terms[k].or}} :
        i \in {i \in DOMAIN terms : i = 1 \/ terms[i].or}}

Rows == SUBSET {"p", "q", "r", "near", "text"}
Selected(terms) ==
    LET alternatives == Alternatives(terms)
    IN  {row \in Rows :
            \/ terms = <<>>
            \/ \E a \in alternatives : \A atoms \in a : Meets(row, atoms)}

---------------------------------------------------------------------------
(* The factories: select, insert, updateQuery, deleteQuery, upsertQuery,   *)
(* relate, vectorSearchQuery (and similaritySearchQuery, the same) and     *)
(* fulltextSearchQuery.                                                    *)
Factories ==
    {<<Call(o, "a")>> : o \in Operations} \cup
    {<<Call("select", "x"), Call("fromTable", "a"), Call("vectorSearch", "v")>>,
     <<Call("select", "*"), Call("searchScore", Null), Call("fromTable", "a"),
       Call("fulltextSearch", "text")>>}

Calls ==
    {Call("select", "y"), Call("fromTable", "b"), Call("delete", "b"),
     Call("update", "b"), Call("relate", "b"), Call("limit", "1"),
     Call("vectorSearch", "v"), Call("vectorSearchIndexed", "w"),
     Call("fulltextSearch", "text"), Call("searchScore", Null)} \cup
    {Condition(c) : c \in Conditions}

(* Calls on the first query alone: nothing else depends on them.           *)
Rest ==
    {Call("groupBy", "g"), Call("orderBy", "g"), Call("groupAll", Null), Call("traverse", "path"),
     Call("returnFormat", "DIFF"), Call("withHint", "h"),
     Call("insert", "b"), Call("upsert", "b"), Call("offset", "1")}

Init ==
    \E f \in Factories :
        queries = <<[state |-> WithAll(f), calls |-> f]>>

(* with(): a method of the i-th query makes another.                       *)
Derive(i, c) ==
    LET q == queries[i] IN
    queries' = Append(queries, [state |-> With(q.state, c),
                                calls |-> Append(q.calls, c)])

Next ==
    /\ Len(queries) <= MaxQueries
    /\ \/ \E i \in DOMAIN queries, c \in Calls : Derive(i, c)
       \/ \E c \in Rest : Len(queries) = 1 /\ Derive(1, c)

Spec == Init /\ [][Next]_vars

TypeOK ==
    /\ Len(queries) \in 1 .. MaxQueries + 1
    /\ \A i \in DOMAIN queries :
        /\ queries[i].state.operation \in Operations
        /\ ToSurQL(queries[i].state).op \in Operations \cup {"throws"}

---------------------------------------------------------------------------
(* What a query was asked, read off its calls.                             *)
Last(calls, methods) ==
    LET hits == {i \in DOMAIN calls : calls[i].method \in methods} IN
    IF hits = {} THEN Call(Null, Null)
    ELSE calls[CHOOSE i \in hits : \A j \in hits : j <= i]

(* The places, in order, of the calls that a sequence of conditions is of. *)
InOrder(conditions, calls) ==
    \E place \in [DOMAIN conditions -> DOMAIN calls] :
        /\ {place[k] : k \in DOMAIN conditions} =
               {n \in DOMAIN calls : calls[n].method = "where"}
        /\ \A j, k \in DOMAIN conditions : j < k => place[j] < place[k]
        /\ \A k \in DOMAIN conditions :
               conditions[k] = calls[place[k]].condition

(* A query's statement says what the calls that made it asked, the last    *)
(* one of a kind, and nothing of what was called on another query derived  *)
(* from the same one: its operation and target; in a SELECT the one form   *)
(* of vector search, the window and the full text; and every condition.    *)
RendersItsCalls ==
    \A i \in DOMAIN queries :
        LET calls == queries[i].calls
            s == ToSurQL(queries[i].state)
            search == Last(calls, {"vectorSearch", "vectorSearchIndexed"}).method
        IN  s # Throws =>
            /\ s.op = Last(calls, Operations).method
            /\ s.op # "relate" =>
                s.table = Last(calls, {"fromTable"} \cup
                                      (Operations \ {"select", "relate"})).arg
            /\ s.op = "relate" => s.table = Last(calls, {"relate"}).arg
            /\ s.op = "select" =>
                /\ s.limit = Last(calls, {"limit"}).arg
                /\ s.start = Last(calls, {"offset"}).arg
                /\ s.fulltext = Last(calls, {"fulltextSearch"}).arg
                /\ s.vector = CASE search = Null -> Null
                                [] search = "vectorSearch" -> "exhaustive"
                                [] search = "vectorSearchIndexed" -> "indexed"
            /\ s.op \in {"select", "update", "delete", "upsert"} =>
                InOrder(s.conditions, calls)

(* SELECT, UPDATE and DELETE touch the rows that meet every condition and  *)
(* search of the query, and no others: as the server reads the text, with  *)
(* AND before OR.  A disjunction without parentheses must stand alone, and *)
(* searches belong to SELECT: the others leave them out.                   *)
TouchesWhatWasAsked ==
    \A i \in DOMAIN queries :
        LET calls == queries[i].calls
            s == ToSurQL(queries[i].state)
            asked == {calls[n].condition :
                          n \in {m \in DOMAIN calls : calls[m].method = "where"}}
            called == {calls[n].method : n \in DOMAIN calls} \cap Searches
            sought == {IF m = "fulltextSearch" THEN "text" ELSE "near" :
                           m \in called}
            searches == called # {}
            alone == Cardinality(asked) = 1 /\ ~searches
            conditions == {AtomsOf(c) : c \in asked}
        IN  /\ s.op \in {"select", "update", "delete"}
            /\ (\E c \in asked : Bare(c)) => alone
            /\ s.op # "select" => ~searches
            => Selected(Where(s)) =
                   {row \in Rows :
                       /\ \A atoms \in conditions : Meets(row, atoms)
                       /\ sought \subseteq row}

---------------------------------------------------------------------------
(* What these promises rest on: a query's state is what its calls have     *)
(* set, the last one of a kind.                                            *)
Targets == {"fromTable"} \cup (Operations \ {"select", "relate"})
Remembers(s, calls) ==
    LET last(methods) == Last(calls, methods)
        search == last({"vectorSearch", "vectorSearchIndexed"}).method
    IN  /\ DOMAIN s = DOMAIN DefaultState
        /\ (\E i \in DOMAIN calls : calls[i].method \in Operations)
            => s.operation = last(Operations).method
        /\ s.table = last(Targets).arg
        /\ s.edge = last({"relate"}).arg
        /\ s.limit = last({"limit"}).arg
        /\ s.offset = last({"offset"}).arg
        /\ s.fulltext = last({"fulltextSearch"}).arg
        /\ search = Null => s.vectorField = Null
        /\ search # Null => s.vectorField # Null
        /\ s.vectorEf # Null <=> search = "vectorSearchIndexed"
        /\ s.conditions \in Seq(Conditions)
        /\ InOrder(s.conditions, calls)

Callable ==
    Calls \cup Rest \cup {Call(o, "a") : o \in Operations} \cup
    {Call("select", "x"), Call("select", "*"), Call("fromTable", "a")}

QueriesInv ==
    /\ queries \in Seq({queries[i] : i \in DOMAIN queries})
    /\ Len(queries) \in 1 .. MaxQueries + 1
    /\ \A i \in DOMAIN queries :
        /\ DOMAIN queries[i] = {"state", "calls"}
        /\ queries[i].calls \in Seq(Callable)
        /\ \E n \in DOMAIN queries[i].calls :
               queries[i].calls[n].method \in Operations
        /\ Remembers(queries[i].state, queries[i].calls)
=============================================================================
