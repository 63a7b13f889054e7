---------------------------- MODULE CrudBuilders ----------------------------
(***************************************************************************)
(* The CRUD builders: one mutable object that collects what its methods    *)
(* are given, turns it into a statement with bound parameters when it is   *)
(* executed, and maps the server's answer.                                 *)
(*                                                                         *)
(*   src/src/crud/base.ts, read.ts, write.ts, merge.ts, patch.ts,          *)
(*   upsert.ts; src/src/client.ts, src/src/sessions/session.ts             *)
(*                                                                         *)
(* A behaviour is about one builder.  Several tasks may hold it: each      *)
(* execute() awaits a connection and an answer, and methods can be called  *)
(* on the builder in between.  Fields, values and record ids are abstract; *)
(* 0 stands for NONE and for undefined.                                    *)
(***************************************************************************)
EXTENDS Integers, Sequences, FiniteSets

CONSTANTS
    Tasks,      \* the holders of the builder; each executes it once
    Kinds,      \* the builders looked at
    MaxCalls,   \* bound: methods called
    MaxFaults   \* bound: connections and answers that are lost

AllKinds ==
    {"read", "create", "update", "merge", "patch", "upsert", "delete"}

BuildersAssumption ==
    /\ Kinds \subseteq AllKinds
    /\ {MaxCalls, MaxFaults} \subseteq Nat

VARIABLES
    builder,    \* the object
    asked,      \* what the read methods were called with
    rows,       \* the table, a function from the ids of its records
    requests,   \* requests[t]: the execution of t
    called, faults

vars == <<builder, asked, rows, requests, called, faults>>

---------------------------------------------------------------------------
Ids == 1 .. 3
Fields == {"f", "g"}
Row == [Fields -> 0 .. 2]
Partial == UNION {[F -> 1 .. 2] : F \in SUBSET Fields}
Empty == <<>>
None == -1      \* an undefined limit or offset

(* f with v for k, and f in front of g.                                    *)
With(f, k, v) == [x \in DOMAIN f \cup {k} |-> IF x = k THEN v ELSE f[x]]
Shadowing(f, g) == [x \in DOMAIN f \cup DOMAIN g |->
                        IF x \in DOMAIN f THEN f[x] ELSE g[x]]

Over(content, row) == [x \in Fields |-> IF x \in DOMAIN content
                                        THEN content[x] ELSE row[x]]
Blank == [x \in Fields |-> 0]

(* A parameter: "c" and "o" of the conditions, "h" of having, by place,    *)
(* and "data" and "conflict".                                              *)
Name(base, n) == <<base, n>>
Data == Name("data", 0)
Conflict == Name("conflict", 0)

(* A record id, as the caller writes it: with or without its table.        *)
Refs == [id: {1, 3}, full: BOOLEAN]
NoRef == [id |-> 0, full |-> FALSE]

(* What a statement may name instead of an id of the table.                *)
Anew == 0           \* no id: the server makes one
Malformed == 8      \* the table twice
Elsewhere == 9      \* a table called like the id

(* validateFieldName, which looks for what no name has.                    *)
Names == {"g", "a; b"}
ValidFieldName(name) == name \in Fields

(* validateInputValue, validateStringValue and validateLikePattern.        *)
Unsafe == 3
ValidInputValue(v) == v # Unsafe

(* validatePositiveInteger                                                 *)
Million == 1000000
PositiveInteger(n) == n \in 1 .. Million

(* validateOperation and validatePath: replace and test need a value.      *)
Operations == [op: {"replace", "test"}, field: {"f"}, value: 0 .. 1]
ValidOperation(o) == o.value # 0

(* The constructors, and the client's methods that call them.              *)
New(kind, strict, ref, data) ==
    [kind |-> kind, strict |-> strict, ref |-> ref, data |-> data,
     conditions |-> <<>>, whereObject |-> Empty, orderBy |-> <<>>,
     limit |-> None, offset |-> None, select |-> <<>>, groupBy |-> <<>>,
     having |-> <<>>, aggregations |-> <<>>, params |-> Empty,
     mapper |-> "none", mergeMode |-> TRUE, conflict |-> <<>>, ops |-> <<>>]

NoRequest == [at |-> "idle"]

(* create and upsert may find a record id in their data.  The strict       *)
(* option, warnings: 'error', means the same to every builder.             *)
Init ==
    /\ \E k \in Kinds, strict \in BOOLEAN, ref \in Refs \cup {NoRef},
          data \in {[f |-> 1], [f |-> 1, g |-> 2]} :
        /\ k = "read" => ref = NoRef
        /\ strict => k \in {"create", "upsert", "delete"}
        /\ k \in {"read", "delete", "patch"} => DOMAIN data = {"f"}
        /\ k \in {"update", "merge", "patch", "delete"} => ref # NoRef
        /\ builder = New(k, strict, ref, data)
    /\ asked = [wheres |-> {}, object |-> Empty, from |-> 0, size |-> None]
    /\ rows = <<[f |-> 1, g |-> 1], [f |-> 1, g |-> 2]>>
    /\ requests = [t \in Tasks |-> NoRequest]
    /\ called = 0 /\ faults = 0

---------------------------------------------------------------------------
(* Methods.  A call changes the builder; `a` is what a read was asked.     *)
Call(b, a) ==
    /\ called < MaxCalls
    /\ called' = called + 1
    /\ builder' = b
    /\ asked' = a
    /\ UNCHANGED <<rows, requests, faults>>

Set(b) == Call(b, asked)

(* map                                                                     *)
MapWith == \E m \in {"given", "throws"} : Set([builder EXCEPT !.mapper = m])

(* withParam, with a name that the builder uses itself.                    *)
WithParam ==
    \/ builder.kind = "read" /\ \E name \in {Name("c", 1), Name("h", 1)} :
        Set([builder EXCEPT !.params = With(@, name, 2)])
    \/ builder.kind = "upsert" /\
        Set([builder EXCEPT !.params = With(@, Conflict, 2)])
    \/ builder.kind \in {"create", "update", "merge", "upsert"} /\
        Set([builder EXCEPT !.params = With(@, Data, [g |-> 1])])

(* where(field, operator, value) passes over an undefined value;           *)
(* whereEquals and its kin refuse an unsafe name or value.                 *)
Where ==
    \E x \in Names, op \in {"=", ">="}, v \in {0, 1, 2, Unsafe} :
        /\ op = "=" <=> v # 2
        /\ ValidFieldName(x) /\ ValidInputValue(v)
        /\ IF v = 0 THEN Set(builder)
           ELSE Call([builder EXCEPT !.conditions =
                         Append(@, [field |-> x, op |-> op, value |-> v])],
                     [asked EXCEPT !.wheres = @ \cup {<<x, op, v>>}])

(* where({field: value}): a later value of a field replaces an earlier one.*)
WhereObject ==
    \E x \in Fields, v \in 1 .. 2 :
        Call([builder EXCEPT !.whereObject = With(@, x, v)],
             [asked EXCEPT !.object = With(@, x, v)])

OrderBy == \E d \in {"ASC", "DESC"} :
    Set([builder EXCEPT !.orderBy = Append(@, d)])
Limit ==
    Call([builder EXCEPT !.limit = 1], [asked EXCEPT !.size = 1])
Offset ==
    Call([builder EXCEPT !.offset = 1], [asked EXCEPT !.from = 1])

PageOf(n, size) ==
    Call([builder EXCEPT !.limit = size, !.offset = (n - 1) * size],
         [asked EXCEPT !.size = size, !.from = (n - 1) * size])
Page ==
    \E n, size \in 0 .. 2 :
        PositiveInteger(n) /\ PositiveInteger(size) /\ PageOf(n, size)

(* select replaces the projection; count, sum and their kin add to it.     *)
Select == Set([builder EXCEPT !.select = <<"f">>])
GroupBy == \E x \in Names :
    ValidFieldName(x) /\ Set([builder EXCEPT !.groupBy = Append(@, x)])
Aggregate == \E x \in Names \cup {"*"} :
    /\ x = "*" \/ ValidFieldName(x)
    /\ Set([builder EXCEPT !.aggregations = Append(@, x)])

(* having: a value is bound at once, to a parameter named for its place.   *)
Having ==
    LET name == Name("h", Len(builder.having) + 1) IN
    Set([builder EXCEPT !.params = With(@, name, 2), !.having = Append(@, name)])

(* withId of create and upsert, replace of update, onConflict of upsert,   *)
(* addOperation and addOperations of patch.                                *)
WithId == \E ref \in Refs : Set([builder EXCEPT !.ref = ref])
Replace == Set([builder EXCEPT !.mergeMode = FALSE])
OnConflict == \E x \in Names :
    ValidFieldName(x) /\ Set([builder EXCEPT !.conflict = <<x>>])
AddOperation == \E o \in Operations :
    ValidOperation(o) /\ Set([builder EXCEPT !.ops = Append(@, o)])

(* Each builder has the methods of its class.                              *)
Method ==
    \/ MapWith
    \/ WithParam
    \/ /\ builder.kind = "read"
       /\ \/ Where \/ WhereObject \/ OrderBy \/ Limit \/ Offset \/ Page
          \/ Select \/ GroupBy \/ Aggregate \/ Having
    \/ builder.kind \in {"create", "upsert"} /\ WithId
    \/ builder.kind = "update" /\ Replace
    \/ builder.kind = "upsert" /\ OnConflict
    \/ builder.kind = "patch" /\ AddOperation

---------------------------------------------------------------------------
(* Statements: what execute() makes of the builder.                        *)
(* The fields of the object, in an order.                                  *)
ObjectFields(b) ==
    (IF "f" \in DOMAIN b.whereObject THEN <<"f">> ELSE <<>>) \o
    (IF "g" \in DOMAIN b.whereObject THEN <<"g">> ELSE <<>>)

(* Each condition and each field of the object has the parameter of its    *)
(* place.                                                                  *)
Conditions(b) ==
    [i \in DOMAIN b.conditions |->
        [field |-> b.conditions[i].field, op |-> b.conditions[i].op,
         param |-> Name("c", i)]]
    \o [i \in DOMAIN ObjectFields(b) |->
           [field |-> ObjectFields(b)[i], op |-> "=", param |-> Name("o", i)]]

Bindings(b) ==
    Shadowing(
        [p \in {Name("c", i) : i \in DOMAIN b.conditions} |->
            b.conditions[p[2]].value],
        [p \in {Name("o", i) : i \in DOMAIN ObjectFields(b)} |->
            b.whereObject[ObjectFields(b)[p[2]]]])

Projection(b) ==
    IF b.aggregations # <<>> THEN b.groupBy \o b.aggregations
    ELSE IF b.select = <<>> THEN <<"*">> ELSE b.select

(* Mutant: what the caller bound wins.                                     *)
BuildQueryCallerWins(b) ==
    [op |-> "SELECT", fields |-> Projection(b), where |-> Conditions(b),
     params |-> Shadowing(b.params, Bindings(b)),
     groupBy |-> b.groupBy, having |-> b.having, orderBy |-> b.orderBy,
     limit |-> b.limit, start |-> IF b.limit = None THEN None ELSE b.offset]

(* buildQuery of ReadQL: its own parameters are bound over those of        *)
(* withParam and having, and START goes only with LIMIT.                   *)
BuildQuery(b) ==
    [op |-> "SELECT", fields |-> Projection(b), where |-> Conditions(b),
     params |-> Shadowing(Bindings(b), b.params),
     groupBy |-> b.groupBy, having |-> b.having, orderBy |-> b.orderBy,
     limit |-> b.limit, start |-> IF b.limit = None THEN None ELSE b.offset]

(* create and upsert put the table in front of the id, the others take it  *)
(* as it is.                                                               *)
Prefixed(ref) == IF ref.full THEN Malformed ELSE ref.id
Verbatim(ref) == IF ref.full THEN ref.id ELSE Elsewhere

Content(op, target, content) ==
    [op |-> op, target |-> target, content |-> content]
Overridden(b) == IF Data \in DOMAIN b.params THEN b.params[Data] ELSE b.data

(* execute of CreateQL and of UpdateQL: parameters of the caller are not   *)
(* sent.                                                                   *)
CreateStatement(b) ==
    Content("CREATE", IF b.ref = NoRef THEN Anew ELSE Prefixed(b.ref), b.data)

UpdateStatement(b) ==
    Content(IF b.mergeMode THEN "MERGE" ELSE "CONTENT", Verbatim(b.ref), b.data)

(* execute of MergeQL, DeleteQL and PatchQL, whose parameter is the        *)
(* builder's own array.                                                    *)
MergeStatement(b) == Content("MERGE", Verbatim(b.ref), Overridden(b))
DeleteStatement(b) == [op |-> "DELETE", target |-> Verbatim(b.ref)]
PatchStatement(b) == [op |-> "PATCH", target |-> Verbatim(b.ref), ops |-> b.ops]

(* execute of UpsertQL: by id, by the conflict fields, whose values are    *)
(* bound over the caller's, or plainly.                                    *)
UpsertStatement(b) ==
    IF b.ref # NoRef THEN Content("UPSERT", Prefixed(b.ref), Overridden(b))
    ELSE IF b.conflict = <<>> THEN Content("CREATE", Anew, Overridden(b))
    ELSE [op |-> "CONFLICT", target |-> Anew, content |-> Overridden(b),
          where |-> [i \in DOMAIN b.conflict |->
                        [field |-> b.conflict[i], op |-> "=",
                         param |-> Conflict]],
          params |-> With(b.params, Conflict, Over(b.data, Blank)[b.conflict[1]])]

Statement(b) ==
    CASE b.kind = "read" -> BuildQuery(b)
      [] b.kind = "create" -> CreateStatement(b)
      [] b.kind = "update" -> UpdateStatement(b)
      [] b.kind = "merge" -> MergeStatement(b)
      [] b.kind = "patch" -> PatchStatement(b)
      [] b.kind = "upsert" -> UpsertStatement(b)
      [] b.kind = "delete" -> DeleteStatement(b)

---------------------------------------------------------------------------
(* The server refuses a statement or carries it out as a whole, and        *)
(* answers the ids of the records it found or left.                        *)
Refuse == [refused |-> TRUE, after |-> rows, answer |-> <<>>]
Accept(table, answer) == [refused |-> FALSE, after |-> table, answer |-> answer]
Put(id, row) == Accept(With(rows, id, row), <<id>>)
NewId == CHOOSE id \in Ids \ DOMAIN rows : \A j \in Ids \ DOMAIN rows : id <= j

Holds(op, x, y) == IF op = "=" THEN x = y ELSE x >= y
Matches(where, params, row) ==
    \A i \in DOMAIN where :
        Holds(where[i].op, row[where[i].field], params[where[i].param])

(* A set of ids in ascending or descending order, and a part of it.        *)
Ordered(ids, orderBy) ==
    LET up == orderBy = <<>> \/ orderBy[1] = "ASC"
        rank(i) == Cardinality({j \in ids : IF up THEN j <= i ELSE i <= j})
    IN  [n \in 1 .. Cardinality(ids) |-> CHOOSE i \in ids : rank(i) = n]

Window(found, from, size) ==
    SubSeq(found, from + 1,
           IF size = None \/ from + size > Len(found) THEN Len(found)
           ELSE from + size)

(* One row of every group.                                                 *)
Grouped(ids, groupBy) ==
    {i \in ids : groupBy = <<>> \/
        \A j \in ids : (\A n \in DOMAIN groupBy :
                            rows[i][groupBy[n]] = rows[j][groupBy[n]]) => i <= j}

(* SurrealQL has no HAVING.                                                *)
ServeSelect(s) ==
    LET ids == {i \in DOMAIN rows : Matches(s.where, s.params, rows[i])} IN
    IF s.having # <<>> THEN Refuse
    ELSE Accept(rows, Window(Ordered(Grouped(ids, s.groupBy), s.orderBy),
                             IF s.start = None THEN 0 ELSE s.start, s.limit))

Patched(row, ops) ==
    LET set == {i \in DOMAIN ops : ops[i].op = "replace"} IN
    IF set = {} THEN row
    ELSE [row EXCEPT !["f"] = ops[CHOOSE i \in set : \A j \in set : j <= i].value]

TestFails(row, ops) ==
    \E i \in DOMAIN ops :
        ops[i].op = "test" /\ Patched(row, SubSeq(ops, 1, i - 1))["f"] # ops[i].value

(* The conflict upsert is LET and RETURN: the first result is LET's NONE.  *)
ServeConflict(s) ==
    LET hits == {i \in DOMAIN rows : Matches(s.where, s.params, rows[i])}
        hit == CHOOSE i \in hits : \A j \in hits : i <= j
    IN  Accept((IF hits = {} THEN Put(NewId, Over(s.content, Blank))
                ELSE Put(hit, Over(s.content, rows[hit]))).after, <<>>)

(* DELETE answers nothing; UPDATE of what is not there changes nothing.    *)
ServeExisting(s) ==
    IF s.target \notin DOMAIN rows THEN Accept(rows, <<>>)
    ELSE CASE s.op = "CONTENT" -> Put(s.target, Over(s.content, Blank))
           [] s.op = "MERGE" -> Put(s.target, Over(s.content, rows[s.target]))
           [] s.op = "PATCH" -> IF TestFails(rows[s.target], s.ops) THEN Refuse
                                ELSE Put(s.target, Patched(rows[s.target], s.ops))
           [] s.op = "DELETE" ->
                Accept([i \in DOMAIN rows \ {s.target} |-> rows[i]], <<>>)

Serve(s) ==
    IF s.op = "SELECT" THEN ServeSelect(s)
    ELSE IF s.op = "CONFLICT" THEN ServeConflict(s)
    ELSE IF s.target = Malformed THEN Refuse
    ELSE IF s.target = Elsewhere THEN Accept(rows, <<>>)
    ELSE IF s.op = "UPSERT" THEN Put(s.target, Over(s.content, Blank))
    ELSE IF s.op # "CREATE" THEN ServeExisting(s)
    ELSE IF s.target = Anew THEN Put(NewId, Over(s.content, Blank))
    ELSE IF s.target \in DOMAIN rows THEN Refuse
    ELSE Put(s.target, Over(s.content, Blank))

---------------------------------------------------------------------------
(* execute() and first(), up to the first await: the statement is made.  A *)
(* patch without operations is refused; first() leaves its limit behind.   *)
Execute(t, first) ==
    /\ requests[t].at = "idle"
    /\ first => builder.kind = "read"
    /\ builder.kind = "patch" => builder.ops # <<>>
    /\ builder' = IF first THEN [builder EXCEPT !.limit = 1] ELSE builder
    /\ asked' = IF first THEN [asked EXCEPT !.size = 1] ELSE asked
    /\ requests' = [requests EXCEPT ![t] =
           [at |-> "connecting", first |-> first, asked |-> asked',
            of |-> builder', statement |-> Statement(builder'),
            before |-> Empty, after |-> Empty, refused |-> FALSE,
            answer |-> <<>>, results |-> <<>>]]
    /\ UNCHANGED <<rows, called, faults>>

Advance(t, r) ==
    /\ requests' = [requests EXCEPT ![t] = r]
    /\ UNCHANGED <<builder, asked, called>>

(* executeQuery: getConnection() rejects.                                  *)
ConnectFails(t) ==
    /\ requests[t].at = "connecting" /\ faults < MaxFaults
    /\ faults' = faults + 1
    /\ Advance(t, [requests[t] EXCEPT !.at = "lost"])
    /\ UNCHANGED rows

(* The parameters are serialised, and with them the array of operations as *)
(* it is by now; the statement takes effect.                               *)
Send(t) ==
    LET s == IF requests[t].statement.op = "PATCH"
             THEN [requests[t].statement EXCEPT !.ops = builder.ops]
             ELSE requests[t].statement
    IN  /\ requests[t].at = "connecting" /\ DOMAIN rows # Ids
        /\ rows' = Serve(s).after
        /\ Advance(t, [requests[t] EXCEPT
                !.at = "sent", !.before = rows, !.after = Serve(s).after,
                !.refused = Serve(s).refused, !.answer = Serve(s).answer])
        /\ UNCHANGED faults

(* The answer does not come back.                                          *)
LoseAnswer(t) ==
    /\ requests[t].at = "sent" /\ faults < MaxFaults
    /\ faults' = faults + 1
    /\ Advance(t, [requests[t] EXCEPT !.at = "lost"])
    /\ UNCHANGED rows

(* validateMapper and mapResults, with the mapper the builder has by now.  *)
Mappable(answer) ==
    /\ builder.mapper = "none" => ~builder.strict
    /\ answer # <<>> => builder.mapper # "throws"

(* The rest of execute(): a read returns the records, first() and the      *)
(* writes the first of them; a write that was answered none throws.        *)
Answer(t) ==
    LET r == requests[t]
        single == r.first \/ builder.kind # "read"
        returns == /\ ~r.refused
                   /\ builder.kind # "read" => r.answer # <<>>
                   /\ Mappable(r.answer)
    IN  /\ r.at = "sent"
        /\ IF returns
           THEN Advance(t, [r EXCEPT !.at = "returned",
                    !.results = IF single THEN Window(r.answer, 0, 1)
                                ELSE r.answer])
           ELSE Advance(t, [r EXCEPT !.at = "failed"])
        /\ UNCHANGED <<rows, faults>>

Next ==
    \/ Method
    \/ \E t \in Tasks :
        \/ \E first \in BOOLEAN : Execute(t, first)
        \/ ConnectFails(t) \/ Send(t) \/ LoseAnswer(t) \/ Answer(t)

Spec == Init /\ [][Next]_vars

TypeOK ==
    /\ builder.kind \in Kinds /\ builder.data \in Partial
    /\ builder.ref \in Refs \cup {NoRef}
    /\ {builder.limit, builder.offset} \subseteq Nat \cup {None}
    /\ builder.mapper \in {"none", "given", "throws"}
    /\ DOMAIN rows \subseteq Ids /\ rows \in [DOMAIN rows -> Row]
    /\ \A t \in Tasks : requests[t].at \in
        {"idle", "connecting", "sent", "returned", "failed", "lost"}
    /\ called \in 0 .. MaxCalls /\ faults \in 0 .. MaxFaults

---------------------------------------------------------------------------
(* The records that meet what a read was asked.                            *)
Wanted(table, a) ==
    {i \in DOMAIN table :
        /\ \A w \in a.wheres : Holds(w[2], table[i][w[1]], w[3])
        /\ \A x \in DOMAIN a.object : table[i][x] = a.object[x]}

(* A read returns the records that meet every condition and every entry of *)
(* the object it was asked, and of those the part its limit, offset or     *)
(* page asked, whatever else the caller bound (withParam, having) and      *)
(* whatever was called on the builder after execute().  An offset without  *)
(* a limit is left out: the code drops it.  So are grouped reads.          *)
ReadAnswersTheCalls ==
    \A t \in Tasks :
        LET r == requests[t] IN
        /\ r.at = "returned" /\ r.of.kind = "read"
        /\ r.of.groupBy = <<>>
        /\ r.asked.size = None => r.asked.from = 0
        => r.results = Window(Ordered(Wanted(r.before, r.asked), r.of.orderBy),
                              r.asked.from, r.asked.size)

(* What a write does to the row it finds.                                  *)
Intended(b, row) ==
    CASE b.kind = "patch" -> Patched(row, b.ops)
      [] b.kind = "merge" \/ (b.kind = "update" /\ b.mergeMode) -> Over(b.data, row)
      [] OTHER -> Over(b.data, Blank)

(* A write that returned changed the one record it returns, and as it was  *)
(* asked when execute() was called, unless the caller bound the content's  *)
(* own parameter or went on adding operations to a patch.                  *)
WritesAsAsked ==
    \A t \in Tasks :
        LET r == requests[t] IN
        /\ r.at = "returned" /\ r.of.kind # "read"
        /\ Data \notin DOMAIN r.of.params
        /\ r.of.ops = builder.ops
        => LET id == r.results[1]
               row == IF id \in DOMAIN r.before THEN r.before[id] ELSE Blank
           IN  r.after = With(r.before, id, Intended(r.of, row))

(* A write whose answer came back and whose mapper takes every record      *)
(* throws only when nothing was written.                                   *)
AppliedMeansReturned ==
    \A t \in Tasks :
        LET r == requests[t] IN
        /\ r.at = "failed"
        /\ builder.mapper # "throws" /\ (builder.mapper = "none" => ~builder.strict)
        => r.after = r.before
---------------------------------------------------------------------------
(* What these promises rest on.  A builder is complete, and of the types   *)
(* that its methods check.                                                 *)
Goes(b) ==
    /\ DOMAIN b = DOMAIN New("read", FALSE, NoRef, Empty)
    /\ b.kind \in Kinds /\ b.ref \in Refs \cup {NoRef} /\ b.data \in Partial
    /\ b.conditions \in Seq([field: Fields, op: {"=", ">="}, value: 1 .. 2])
    /\ b.whereObject \in Partial
    /\ {b.limit, b.offset} \subseteq Nat \cup {None}
    /\ b.mapper \in {"none", "given", "throws"}
    /\ b.mergeMode \in BOOLEAN
    /\ b.ops \in Seq([op: {"replace", "test"}, field: {"f"}, value: {1}])
    /\ Data \in DOMAIN b.params => b.params[Data] = [g |-> 1]

(* What a read was asked is what its builder has collected.                *)
Mirrors(b, a) ==
    /\ DOMAIN a = {"wheres", "object", "from", "size"}
    /\ a.wheres = {<<b.conditions[i].field, b.conditions[i].op,
                     b.conditions[i].value>> : i \in DOMAIN b.conditions}
    /\ a.object = b.whereObject
    /\ a.size = b.limit
    /\ a.from = IF b.offset = None THEN 0 ELSE b.offset

(* What the server made of a request, as long as nothing was added to the  *)
(* operations `ops` of the builder.                                        *)
ReadServed(r) ==
    /\ r.of.kind = "read" /\ ~r.refused /\ r.of.groupBy = <<>>
    /\ r.asked.size = None => r.asked.from = 0
    => r.answer = Window(Ordered(Wanted(r.before, r.asked), r.of.orderBy),
                         r.asked.from, r.asked.size)

WriteServed(r, ops) ==
    /\ r.of.kind # "read" /\ ~r.refused /\ r.answer # <<>>
    /\ Data \notin DOMAIN r.of.params
    /\ r.of.ops = ops
    => \E id \in Ids :
        /\ r.answer = <<id>>
        /\ r.after = With(r.before, id, Intended(r.of,
                        IF id \in DOMAIN r.before THEN r.before[id] ELSE Blank))

Requested(r, b) ==
    /\ DOMAIN r = {"at", "first", "asked", "of", "statement", "before",
                   "after", "refused", "answer", "results"}
    /\ Goes(r.of) /\ Mirrors(r.of, r.asked)
    /\ r.of.kind = b.kind /\ Len(r.of.ops) <= Len(b.ops)
    /\ r.first \in BOOLEAN
    /\ r.first => r.of.kind = "read" /\ r.of.limit = 1
    /\ DOMAIN r.before \subseteq Ids
    /\ r.at = "connecting" => r.statement = Statement(r.of)
    /\ r.at \in {"sent", "returned"} => ReadServed(r) /\ WriteServed(r, b.ops)
    /\ r.at = "returned" =>
        /\ ~r.refused /\ (r.of.kind # "read" => r.answer # <<>>)
        /\ r.results = IF r.first \/ r.of.kind # "read"
                       THEN Window(r.answer, 0, 1) ELSE r.answer

CrudInv ==
    /\ Goes(builder) /\ Mirrors(builder, asked)
    /\ DOMAIN requests = Tasks
    /\ \A t \in Tasks :
        requests[t].at # "idle" => Requested(requests[t], builder)
=============================================================================
