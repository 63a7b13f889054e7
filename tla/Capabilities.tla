---------------------------- MODULE Capabilities ----------------------------
(***************************************************************************)
(* The capability mixins, which give a builder pages, HAVING, aggregations *)
(* and GROUP BY, with what was set kept in fields that can be cleared.     *)
(*                                                                         *)
(*   src/src/capabilities/pagination.ts, having.ts, aggregation.ts,        *)
(*   groupBy.ts                                                            *)
(*                                                                         *)
(* A behaviour calls the methods of one object.  Fields and values are     *)
(* abstract; numbers are near the bounds that the code checks.             *)
(***************************************************************************)
EXTENDS Integers, Sequences

CONSTANT
    MaxMethods  \* bound: methods called

CapabilitiesAssumption == MaxMethods \in Nat

VARIABLES
    limitValue, offsetValue,    \* None when undefined
    havingConditions,           \* each with its parameter, or none
    params,                     \* the parameters of the builder
    aggregations, groupByFields,
    page,                       \* what page() was last called with, if it
                                \* still stands
    methods

vars == <<limitValue, offsetValue, havingConditions, params, aggregations,
          groupByFields, page, methods>>

None == -1
NoPage == <<>>
Million == 1000000

(* validatePositiveInteger: assertPositiveNumber and assertNumberLessThan. *)
PositiveInteger(n) == n > 0 /\ n < Million

(* validateFieldName of the validators, and validateHavingCondition.       *)
Names == {"f", "a; b"}
ValidFieldName(name) == name = "f"

TypeOK ==
    /\ {limitValue, offsetValue} \subseteq Nat \cup {None}
    /\ \A i \in DOMAIN havingConditions :
        havingConditions[i].param \in {"h0", "h1", "h2", "none"}
    /\ methods \in 0 .. MaxMethods

Init ==
    /\ limitValue = None /\ offsetValue = None
    /\ havingConditions = <<>>
    /\ params = <<>>
    /\ aggregations = <<>> /\ groupByFields = <<>>
    /\ page = NoPage
    /\ methods = 0

Called == methods < MaxMethods /\ methods' = methods + 1

---------------------------------------------------------------------------
(* limit and offset: an offset of 0 is refused.                            *)
Limit ==
    /\ Called
    /\ \E n \in {0, 2, 3, Million} : PositiveInteger(n) /\ limitValue' = n
    /\ page' = NoPage
    /\ UNCHANGED <<offsetValue, havingConditions, params, aggregations,
                   groupByFields>>

Offset ==
    /\ Called
    /\ \E n \in {0, 2, 4, Million} : PositiveInteger(n) /\ offsetValue' = n
    /\ page' = NoPage
    /\ UNCHANGED <<limitValue, havingConditions, params, aggregations,
                   groupByFields>>

(* page(n, size)                                                           *)
Page ==
    /\ Called
    /\ \E n \in {0, 1, 2, 999999}, size \in {0, 2, 3, 999999} :
        /\ PositiveInteger(n) /\ PositiveInteger(size)
        /\ n = 999999 => size # 999999      \* TLC's integers have 32 bits
        /\ offsetValue' = (n - 1) * size
        /\ limitValue' = size
        /\ page' = <<n, size>>
    /\ UNCHANGED <<havingConditions, params, aggregations, groupByFields>>

ClearPagination ==
    /\ Called
    /\ limitValue' = None /\ offsetValue' = None
    /\ page' = NoPage
    /\ UNCHANGED <<havingConditions, params, aggregations, groupByFields>>

(* having(field, op, value) binds the value to the parameter of its place, *)
(* having(text) binds none.                                                *)
HavingParam(i) == CASE i = 0 -> "h0" [] i = 1 -> "h1" [] OTHER -> "h2"
WithParam(p, v) ==
    [q \in DOMAIN params \cup {p} |-> IF q = p THEN v ELSE params[q]]

Having ==
    /\ Called
    /\ Len(havingConditions) < 3
    /\ \/ \E name \in Names, v \in 1 .. 2 :
            LET p == HavingParam(Len(havingConditions)) IN
            /\ ValidFieldName(name)
            /\ params' = WithParam(p, v)
            /\ havingConditions' =
                Append(havingConditions, [param |-> p, value |-> v])
       \/ /\ havingConditions' =
                Append(havingConditions, [param |-> "none", value |-> 0])
          /\ UNCHANGED params
    /\ UNCHANGED <<limitValue, offsetValue, aggregations, groupByFields, page>>

(* clearHaving leaves the parameters.                                      *)
ClearHaving ==
    /\ Called
    /\ havingConditions' = <<>>
    /\ UNCHANGED <<limitValue, offsetValue, params, aggregations,
                   groupByFields, page>>

(* count, sum, avg, min and max; groupBy; and what clears them.            *)
Aggregate ==
    /\ Called
    /\ \E name \in Names \cup {"*"} :
        /\ name = "*" \/ ValidFieldName(name)
        /\ aggregations' = Append(aggregations, name)
    /\ UNCHANGED <<limitValue, offsetValue, havingConditions, params,
                   groupByFields, page>>

GroupBy ==
    /\ Called
    /\ \E name \in Names :
        ValidFieldName(name) /\ groupByFields' = Append(groupByFields, name)
    /\ UNCHANGED <<limitValue, offsetValue, havingConditions, params,
                   aggregations, page>>

ClearGroups ==
    /\ Called
    /\ \/ aggregations' = <<>> /\ UNCHANGED groupByFields
       \/ groupByFields' = <<>> /\ UNCHANGED aggregations
    /\ UNCHANGED <<limitValue, offsetValue, havingConditions, params, page>>

Next ==
    \/ Limit \/ Offset \/ Page \/ ClearPagination
    \/ Having \/ ClearHaving
    \/ Aggregate \/ GroupBy \/ ClearGroups

Spec == Init /\ [][Next]_vars

---------------------------------------------------------------------------
(* getCurrentPageInfo                                                      *)
NoInfo == [pageNumber |-> 0, pageSize |-> 0, offset |-> None]
PageInfo ==
    IF limitValue = None \/ offsetValue = None THEN NoInfo
    ELSE [pageNumber |-> offsetValue \div limitValue + 1,
          pageSize |-> limitValue, offset |-> offsetValue]

(* buildPaginationClauses: START, then LIMIT.                              *)
PaginationClauses ==
    (IF offsetValue = None THEN <<>> ELSE <<<<"START", offsetValue>>>>) \o
    (IF limitValue = None THEN <<>> ELSE <<<<"LIMIT", limitValue>>>>)

(* While what page() set stands, the page it was called with is the one    *)
(* that getCurrentPageInfo() tells and the clauses select, and a page that *)
(* was cleared or changed by limit() or offset() begins inside the one     *)
(* that is told.                                                           *)
PageInfoTrue ==
    /\ page # NoPage =>
        /\ PageInfo.pageNumber = page[1] /\ PageInfo.pageSize = page[2]
        /\ PaginationClauses = <<<<"START", (page[1] - 1) * page[2]>>,
                                 <<"LIMIT", page[2]>>>>
    /\ PageInfo # NoInfo =>
        /\ (PageInfo.pageNumber - 1) * PageInfo.pageSize <= PageInfo.offset
        /\ PageInfo.offset < PageInfo.pageNumber * PageInfo.pageSize

(* Each HAVING condition that was given a value has it bound, whatever was *)
(* cleared and added again: no condition has taken another's parameter.    *)
HavingBound ==
    \A i \in DOMAIN havingConditions :
        LET h == havingConditions[i] IN
        h.param # "none" => h.param \in DOMAIN params /\ params[h.param] = h.value

---------------------------------------------------------------------------
(* What they rest on: a condition has the parameter of its place, and a    *)
(* page that stands is what limit and offset are.                          *)
CapabilitiesInv ==
    /\ limitValue \in {2, 3, 999999, None}
    /\ page # NoPage =>
        \E n \in {1, 2, 999999}, size \in {2, 3, 999999} :
            /\ page = <<n, size>>
            /\ limitValue = size /\ offsetValue = (n - 1) * size
    /\ havingConditions \in Seq([param : {"h0", "h1", "h2", "none"}, value : 0 .. 2])
    /\ Len(havingConditions) <= 3
    /\ \A i \in DOMAIN havingConditions :
        havingConditions[i].param \in {HavingParam(i - 1), "none"}
    /\ HavingBound
=============================================================================
