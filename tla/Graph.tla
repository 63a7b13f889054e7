------------------------------- MODULE Graph --------------------------------
(***************************************************************************)
(* Relations between records, and the queries that walk them: the          *)
(* functions over a connection, and a GraphQuery that is built call by     *)
(* call, shared and executed several times.                                *)
(*                                                                         *)
(*   src/src/query/graph.ts, graphQuery.ts                                 *)
(*                                                                         *)
(* There is one edge table "e", and nodes of two tables.  A row is the     *)
(* walk that leads to its record: as many rows as walks.  Conditions are   *)
(* sets of the records that meet them.                                     *)
(***************************************************************************)
EXTENDS Naturals, Sequences, FiniteSets, SequencesExt

CONSTANTS
    Tasks,      \* the callers of the functions and of execute() and count()
    MaxMade,    \* bound: edges that are made
    MaxSteps,   \* bound: methods called on the GraphQuery
    MaxRuns     \* bound: calls that are started

GraphAssumption == {MaxMade, MaxSteps, MaxRuns} \subseteq Nat

VARIABLES
    made,       \* every edge that was ever made, and whether it is there
    query,      \* the GraphQuery
    steps,      \* the steps of its path, as they were called
    askers,     \* askers[c]: what caller c is doing
    removals,   \* the pairs of a removeRelation that took effect
    runs

vars == <<made, query, steps, askers, removals, runs>>

---------------------------------------------------------------------------
(* The graph, as SurrealDB walks it.  From a node an arrow leads to edges, *)
(* from an edge to the nodes at its ends, and to no further edge.          *)
Nodes == {"a", "b", "x"}
TableOf(n) == IF n = "x" THEN "other" ELSE "node"
MarkedNodes == {"b", "x"}
MarkedEdges == {1, 3}
NoLimit == 1000000

Edges(graph) == {i \in DOMAIN graph : graph[i].there}

Step(arrow, what) == [arrow |-> arrow, what |-> what]

EdgesOf(graph, n, arrow) ==
    {i \in Edges(graph) : \/ arrow # "<-" /\ graph[i].from = n
                          \/ arrow # "->" /\ graph[i].to = n}
EndsOf(edge, arrow) ==
    (IF arrow # "<-" THEN {edge.to} ELSE {}) \cup
    (IF arrow # "->" THEN {edge.from} ELSE {})

Reached(graph, r, onNode, step) ==
    IF onNode
    THEN IF step.what \in {"e", "?"} THEN EdgesOf(graph, r, step.arrow) ELSE {}
    ELSE {n \in EndsOf(graph[r], step.arrow) : step.what \in {"?", TableOf(n)}}

OnNode(walk) == Len(walk) % 2 = 1

WalkOn(graph, walks, step) ==
    UNION {{Append(w, r) : r \in Reached(graph, Last(w), OnNode(w), step)} :
              w \in walks}

Walks(graph, start, path) ==
    LET after[i \in 0 .. Len(path)] ==
            IF i = 0 THEN {<<start>>} ELSE WalkOn(graph, after[i - 1], path[i])
    IN  after[Len(path)]

Meets(walk, where) ==
    where # <<>> => IF OnNode(walk) THEN Last(walk) \in MarkedNodes
                                    ELSE Last(walk) \in MarkedEdges

---------------------------------------------------------------------------
(* GraphQuery                                                              *)
NewQuery ==
    [path |-> <<>>, where |-> <<>>, target |-> "none", limit |-> NoLimit,
     fetch |-> FALSE]

Repeat(path, n) ==
    [i \in 1 .. n * Len(path) |-> path[((i - 1) % Len(path)) + 1]]

(* Mutant: one hop too few.                                                *)
FormatEdgeStepShort(arrow, depth) ==
    IF depth = 1 THEN <<Step(arrow, "e")>>
    ELSE Repeat(<<Step(arrow, "e"), Step(arrow, "?")>>, depth - 1)

(* formatEdgeStep: a step of depth 1 stays on the edge.                    *)
FormatEdgeStep(arrow, depth) ==
    IF depth = 1 THEN <<Step(arrow, "e")>>
    ELSE Repeat(<<Step(arrow, "e"), Step(arrow, "?")>>, depth)

Builds == Len(steps) < MaxSteps /\ UNCHANGED <<made, askers, removals, runs>>

(* out, in_ and both; a depth below 1 throws and changes nothing.          *)
Traverse ==
    /\ Builds
    /\ \E arrow \in {"->", "<-", "<->"}, depth \in 1 .. 2 :
        /\ query' = [query EXCEPT !.path = @ \o FormatEdgeStep(arrow, depth)]
        /\ steps' = Append(steps, [arrow |-> arrow, depth |-> depth])

Other == [arrow |-> "none", depth |-> 0]

To ==
    /\ Builds
    /\ \E t \in {"node", "other"} : query' = [query EXCEPT !.target = t]
    /\ steps' = Append(steps, Other)

Where ==
    /\ Builds
    /\ query' = [query EXCEPT !.where = Append(@, "marked")]
    /\ steps' = Append(steps, Other)

Limit ==
    /\ Builds
    /\ \E n \in 0 .. 1 : query' = [query EXCEPT !.limit = n]
    /\ steps' = Append(steps, Other)

Fetch ==
    /\ Builds
    /\ query' = [query EXCEPT !.fetch = TRUE]
    /\ steps' = Append(steps, Other)

---------------------------------------------------------------------------
(* Requests.                                                               *)
Request(kind, from, path, where) ==
    [kind |-> kind, from |-> from, path |-> path, where |-> where,
     limit |-> NoLimit, fetch |-> FALSE, to |-> "none"]

(* The path ends in an arrow to the target, whatever the last step was.    *)
FullPath(q) ==
    q.path \o (IF q.target = "none" THEN <<>> ELSE <<Step("->", q.target)>>)

ToSurql(q) ==
    [Request("select", "a", FullPath(q), q.where)
        EXCEPT !.limit = q.limit, !.fetch = q.fetch]
Count(q) == Request("count", "a", FullPath(q), q.where)

Idle == [at |-> "idle", executed |-> FALSE, request |-> [kind |-> "none"]]
Answer(found, number) == [rows |-> found, count |-> number]

(* A call, with the query that it was made on if it was execute or count.  *)
Task(at, request, of, path) ==
    [at |-> at, request |-> request, executed |-> of # NewQuery,
     query |-> of, steps |-> path, answer |-> Answer({}, 0), seen |-> <<>>]
Sent(request) == Task("sent", request, NewQuery, <<>>)

Start(c, task) ==
    /\ runs < MaxRuns
    /\ askers[c].at \in {"idle", "returned"}
    /\ askers' = [askers EXCEPT ![c] = task]
    /\ runs' = runs + 1
    /\ UNCHANGED <<made, query, steps, removals>>

(* execute(), count() and exists(): the text is rendered before the        *)
(* connection is awaited, and none without a step.                         *)
Execute(c) ==
    /\ query.path # <<>>
    /\ \E request \in {ToSurql(query), Count(query)} :
        Start(c, Task("connecting", request, query, steps))

Connected(c) ==
    /\ askers[c].at = "connecting"
    /\ askers' = [askers EXCEPT ![c].at = "sent"]
    /\ UNCHANGED <<made, query, steps, removals, runs>>

(* The functions.                                                          *)
Wheres == {<<>>, <<"marked">>}

TraverseWithDepth(c) ==
    \E hops \in 1 .. 2, w \in Wheres :
        Start(c, Sent(Request("select", "b",
                              Repeat(<<Step("->", "e")>>, hops), w)))

GetEdges(c) ==
    \E arrow \in {"->", "<-"} :
        Start(c, Sent(Request("select", "b", <<Step(arrow, "e")>>, <<>>)))

CountRelated(c) ==
    \E arrow \in {"->", "<-"} :
        Start(c, Sent(Request("count", "b", <<Step(arrow, "e")>>, <<>>)))

Pairs == {<<"a", "b">>, <<"b", "x">>}

CreateRelation(c) ==
    \E p \in Pairs :
        Start(c, Sent([Request("relate", p[1], <<>>, <<>>)
                                EXCEPT !.to = p[2]]))

(* removeRelation: DELETE from->e WHERE out = to.                          *)
Removes(r, edge) == edge.from = r.from /\ edge.to = r.to

RemoveRelation(c) ==
    \E p \in Pairs :
        Start(c, Sent([Request("unrelate", p[1], <<>>, <<>>)
                                EXCEPT !.to = p[2]]))

---------------------------------------------------------------------------
(* What SurrealDB does with a request.                                     *)
Rows(graph, r) == {w \in Walks(graph, r.from, r.path) : Meets(w, r.where)}

(* A LIMIT behind a FETCH does not parse.                                  *)
Unparsable(r) == r.kind = "select" /\ r.fetch /\ r.limit # NoLimit

Answers(graph, r) ==
    LET rows == Rows(graph, r) IN
    IF r.kind = "count" THEN {Answer({}, Cardinality(rows))}
    ELSE IF r.limit = 0 \/ rows = {} THEN {Answer({}, 0)}
    ELSE IF r.limit = 1 THEN {Answer({w}, 0) : w \in rows}
    ELSE {Answer(rows, 0)}

(* Afterwards the caller has its answer, or the answer is lost.            *)
Told(c, answer) ==
    \/ askers' = [askers EXCEPT ![c].at = "returned", ![c].answer = answer,
                               ![c].seen = made]
    \/ askers' = [askers EXCEPT ![c] = Idle]

Read(c, r) ==
    /\ r.kind \in {"select", "count"}
    /\ \E answer \in Answers(made, r) : Told(c, answer)
    /\ UNCHANGED <<made, removals>>

Relate(c, r) ==
    /\ r.kind = "relate" /\ Len(made) < MaxMade
    /\ made' = Append(made, [from |-> r.from, to |-> r.to, there |-> TRUE])
    /\ Told(c, Answer({}, 0))
    /\ UNCHANGED removals

Unrelate(c, r) ==
    /\ r.kind = "unrelate"
    /\ made' = [i \in DOMAIN made |->
                  [made[i] EXCEPT !.there = @ /\ ~Removes(r, made[i])]]
    /\ removals' = removals \cup {<<r.from, r.to>>}
    /\ Told(c, Answer({}, 0))

Serve(c) ==
    LET r == askers[c].request
    IN  /\ askers[c].at = "sent" /\ ~Unparsable(r)
        /\ Read(c, r) \/ Relate(c, r) \/ Unrelate(c, r)
        /\ UNCHANGED <<query, steps, runs>>

(* The connection fails, or the request is lost or refused.                *)
Fail(c) ==
    /\ askers[c].at \in {"connecting", "sent"}
    /\ askers' = [askers EXCEPT ![c] = Idle]
    /\ UNCHANGED <<made, query, steps, removals, runs>>

Init ==
    /\ made \in {<<[from |-> "a", to |-> "b", there |-> TRUE],
                   [from |-> "b", to |-> "x", there |-> TRUE]>>,
                 <<[from |-> "a", to |-> "b", there |-> TRUE],
                   [from |-> "a", to |-> "b", there |-> TRUE],
                   [from |-> "b", to |-> "a", there |-> TRUE]>>}
    /\ query = NewQuery
    /\ steps = <<>>
    /\ askers = [c \in Tasks |-> Idle]
    /\ removals = {}
    /\ runs = 0

Next ==
    \/ Traverse \/ To \/ Where \/ Limit \/ Fetch
    \/ \E c \in Tasks :
        \/ Execute(c) \/ Connected(c)
        \/ TraverseWithDepth(c) \/ GetEdges(c) \/ CountRelated(c)
        \/ CreateRelation(c) \/ RemoveRelation(c)
        \/ Serve(c) \/ Fail(c)

Spec == Init /\ [][Next]_vars

---------------------------------------------------------------------------
(* The nodes at the other end of an edge of one of the nodes `from`.       *)
Near(graph, from, arrow) ==
    LET ends(i) ==
            (IF arrow # "<-" /\ graph[i].from \in from
             THEN {graph[i].to} ELSE {}) \cup
            (IF arrow # "->" /\ graph[i].to \in from
             THEN {graph[i].from} ELSE {}) \cup
            (IF arrow = "<->" /\ {graph[i].from, graph[i].to} \cap from # {}
             THEN {graph[i].from, graph[i].to} ELSE {})
    IN  UNION {ends(i) : i \in {j \in DOMAIN graph : graph[j].there}}

Hops(graph, from, step) ==
    IF step.depth # 2 THEN from
    ELSE Near(graph, Near(graph, from, step.arrow), step.arrow)

HopsFrom(graph, path) ==
    LET near[i \in 0 .. Len(path)] ==
            IF i = 0 THEN {"a"} ELSE Hops(graph, near[i - 1], path[i])
    IN  near[Len(path)]

Deep(a) ==
    /\ a.query.path # <<>> /\ a.query.target = "none"
    /\ \A i \in DOMAIN a.steps : a.steps[i].depth # 1

(* A query of steps that are two hops deep answers the nodes that are so   *)
(* many hops away, of these the ones that meet its condition and as many   *)
(* as its limit; what is called on the query meanwhile does not matter.    *)
HopsReached ==
    \A c \in Tasks :
        LET a == askers[c]
            found == {Last(w) : w \in a.answer.rows}
            asked == HopsFrom(a.seen, a.steps) \cap
                     (IF a.query.where = <<>> THEN Nodes ELSE MarkedNodes)
        IN  /\ a.at = "returned" /\ a.executed /\ a.request.kind = "select"
            /\ Deep(a)
            => IF a.query.limit = NoLimit THEN found = asked
               ELSE found \subseteq asked /\ Cardinality(a.answer.rows) <= a.query.limit

Unlimited(q) == [q EXCEPT !.limit = NoLimit, !.fetch = FALSE]

SameQuestion(n, r) ==
    IF n.executed \/ r.executed THEN Unlimited(n.query) = Unlimited(r.query)
    ELSE /\ n.request.from = r.request.from /\ n.request.path = r.request.path
         /\ n.request.where = r.request.where

(* A count, which ignores the limit as its comment says, tells how many    *)
(* rows the same query or function gives in the same graph without one.    *)
CountTellsRows ==
    \A c, d \in Tasks :
        LET n == askers[c] r == askers[d]
        IN  /\ n.at = "returned" /\ n.request.kind = "count"
            /\ r.at = "returned" /\ r.request.kind = "select"
            /\ n.seen = r.seen /\ SameQuestion(n, r)
            => Cardinality(r.answer.rows) =
                IF r.query.limit # NoLimit /\ r.query.limit < n.answer.count
                THEN r.query.limit ELSE n.answer.count

(* When removeRelation has returned, none of the relations between the two *)
(* is left, of however many were made; and no other one was ever removed.  *)
RemovedIsGone ==
    /\ \A i \in DOMAIN made :
        ~made[i].there => <<made[i].from, made[i].to>> \in removals
    /\ \A c \in Tasks :
        askers[c].at = "returned" /\ askers[c].request.kind = "unrelate" =>
            \A i \in DOMAIN askers[c].seen :
                Removes(askers[c].request, made[i]) => ~made[i].there

---------------------------------------------------------------------------
(* What these promises rest on.  The walks along a path of deep steps end  *)
(* on the nodes that the steps lead to, in any of the graphs.              *)
Relation == [from : Nodes, to : Nodes, there : BOOLEAN]
Built == [arrow : {"->", "<-", "<->"}, what : {"e", "?"}]
Called == [arrow : {"->", "<-", "<->", "none"}, depth : 0 .. 2]

Leads(q, path, graphs) ==
    /\ DOMAIN q = DOMAIN NewQuery
    /\ q.path \in Seq(Built) /\ q.target \in {"none", "node", "other"}
    /\ q.where \in Seq({"marked"}) /\ q.limit \in {0, 1, NoLimit}
    /\ path \in Seq(Called)
    /\ (\A i \in DOMAIN path : path[i].depth # 1) =>
        \A graph \in graphs :
            LET walks == Walks(graph, "a", q.path)
            IN  /\ \A w \in walks : OnNode(w)
                /\ {Last(w) : w \in walks} = HopsFrom(graph, path)

(* A call keeps the query as it was when it was made; its answer is one    *)
(* about the graph that the server saw, in which nothing has come back     *)
(* since.                                                                  *)
Asks(a) ==
    IF a.executed
    THEN a.query.path # <<>> /\ a.request \in {ToSurql(a.query), Count(a.query)}
    ELSE /\ a.query = NewQuery /\ a.request.limit = NoLimit
         /\ a.request.from \in Nodes /\ a.request.path \in Seq(Built)
         /\ a.request.kind = "relate" => a.request.to \in Nodes

Answered(a, graph) ==
    /\ a.seen \in Seq(Relation)
    /\ a.request.kind \in {"select", "count"} =>
        a.answer \in Answers(a.seen, a.request)
    /\ a.request.kind = "unrelate" =>
        \A i \in DOMAIN a.seen :
            /\ i \in DOMAIN graph
            /\ Removes(a.request, graph[i]) => ~graph[i].there

GraphInv(graphs) ==
    /\ made \in Seq(Relation)
    /\ \A i \in DOMAIN made :
        ~made[i].there => <<made[i].from, made[i].to>> \in removals
    /\ Leads(query, steps, graphs)
    /\ DOMAIN askers = Tasks
    /\ \A c \in Tasks :
        LET a == askers[c]
        IN  /\ a.at \in {"idle", "connecting", "sent", "returned"}
            /\ a.at # "idle" =>
                /\ DOMAIN a = DOMAIN Sent(ToSurql(query))
                /\ Leads(a.query, a.steps, graphs)
                /\ Asks(a)
            /\ a.at = "returned" => Answered(a, made)
=============================================================================
