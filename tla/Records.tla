------------------------------ MODULE Records -------------------------------
(***************************************************************************)
(* The record functions: loops of one request per item, batches of one     *)
(* request, single statements, and walks through a table page by page.     *)
(*                                                                         *)
(*   src/src/query/crud.ts, batch.ts, executor.ts, results.ts              *)
(*                                                                         *)
(* Each task calls one of them; the requests of different tasks interleave *)
(* at the server.  A record is its id and whether it is the one that the   *)
(* table began with.  Some item the server always refuses.                 *)
(***************************************************************************)
EXTENDS Integers, Sequences, FiniteSets

CONSTANTS
    Tasks,
    PageSize,   \* the pages of a walk
    MaxLost     \* bound: requests or replies that are lost

RecordsAssumption == PageSize \in Nat \ {0} /\ MaxLost \in Nat

VARIABLES
    table,      \* a function from the ids that are there
    jobs,       \* jobs[t]: the call of t
    lost

vars == <<table, jobs, lost>>

---------------------------------------------------------------------------
Ids == 1 .. 5
Bad == 4        \* breaks a constraint of the table

Creating == {"createRecords", "relateMany"}
Deleting == {"deleteRecords", "deleteMany"}
Loops == Creating \cup Deleting
Batches == {"insertMany", "upsertMany"}
Writes == {"createRecord", "updateRecord", "mergeRecord", "upsertRecord",
           "deleteRecord"}
Finds == {"getRecord", "exists"}
Reads == {"queryRecords", "countRecords", "first", "last",
          "queryRecordsWrapped"}
Operations == Loops \cup Batches \cup Writes \cup Finds \cup Reads \cup {"walk"}

(* An item of upsertMany whose id is not of the form table:id.             *)
NoTarget == 0

Items(op) ==
    CASE op \in Loops \cup Batches ->
           {<<>>, <<1, 2>>, <<2, 4>>, <<4, 2>>} \cup
           IF op = "upsertMany" THEN {<<1, NoTarget>>, <<NoTarget, 4>>} ELSE {}
      [] op \in Writes \cup Finds -> {<<1>>, <<2>>, <<4>>}
      [] OTHER -> {<<>>}

Job(op, items) ==
    [op |-> op, items |-> items, at |-> "sent",
     i |-> 1,                   \* the request that is under way
     log |-> <<>>,              \* the items that took effect
     reply |-> <<>>,            \* the rows of the last answer
     out |-> <<>>,              \* the rows collected
     total |-> -1,              \* what countRecords said
     undisturbed |-> TRUE]      \* the table is as it was at the start

Idle == [Job("none", <<>>) EXCEPT !.at = "idle"]

Init ==
    /\ table \in {[i \in I |-> "old"] : I \in {{}, {1, 3}, {1, 2, 3}}}
    /\ jobs = [t \in Tasks |-> Idle]
    /\ lost = 0

---------------------------------------------------------------------------
(* The call, up to its first request.  Without items nothing is sent.      *)
Start(t) ==
    /\ jobs[t].at = "idle"
    /\ \E op \in Operations : \E items \in Items(op) :
        jobs' = [jobs EXCEPT ![t] =
            IF op \in Loops \cup Batches /\ items = <<>>
            THEN [Job(op, items) EXCEPT !.at = "returned"]
            ELSE Job(op, items)]
    /\ UNCHANGED <<table, lost>>

---------------------------------------------------------------------------
(* The server's part: the table, the rows it answers, the items that took  *)
(* effect, and whether it refuses.                                         *)
With(ids) ==
    [i \in DOMAIN table \cup ids |-> IF i \in ids THEN "new" ELSE table[i]]

Done(new, rows, log) ==
    [table |-> new, rows |-> rows, log |-> log, refused |-> FALSE]
Refused(new, log) ==
    [table |-> new, rows |-> <<>>, log |-> log, refused |-> TRUE]

InOrder(ids) == [n \in 1 .. Cardinality(ids) |->
                    CHOOSE i \in ids : Cardinality({j \in ids : j <= i}) = n]
Part(rows, from, size) ==
    SubSeq(rows, from + 1, IF from + size < Len(rows) THEN from + size
                           ELSE Len(rows))

ServeCreate(id) ==
    IF id \in DOMAIN table \cup {Bad} THEN Refused(table, <<>>)
    ELSE Done(With({id}), <<id>>, <<id>>)

(* UPDATE of a record that is not there answers no rows.                   *)
ServeUpdate(id) ==
    IF id \notin DOMAIN table THEN Done(table, <<>>, <<>>)
    ELSE Done(With({id}), <<id>>, <<id>>)

(* DELETE answers no rows, whether or not there was a record.              *)
ServeDelete(id) ==
    Done([i \in DOMAIN table \ {id} |-> table[i]], <<>>, <<id>>)

(* UPSERT of the table without an id makes a record.                       *)
Fresh(ids) == CHOOSE i \in Ids : i \notin ids /\ i # Bad
ServeUpsertTable ==
    LET id == Fresh(DOMAIN table) IN
    Done(With({id}), <<id>>, <<id>>)

(* INSERT is one statement: all of its rows or none.                       *)
ServeInsert(items) ==
    LET ids == {items[i] : i \in DOMAIN items} IN
    IF ids \cap (DOMAIN table \cup {Bad}) # {} THEN Refused(table, <<>>)
    ELSE Done(With(ids), items, items)

(* The items that the server accepts.                                      *)
Good(items) ==
    LET at == {n \in DOMAIN items : items[n] # Bad} IN
    [n \in 1 .. Cardinality(at) |-> items[InOrder(at)[n]]]

(* A statement for every target, each on its own, in order; one that is    *)
(* refused makes the query reject.                                         *)
ServeUpserts(targets) ==
    LET good == Good(targets)
        log == [n \in DOMAIN good |->
                   IF good[n] # NoTarget THEN good[n]
                   ELSE Fresh(DOMAIN table \cup {good[m] : m \in 1 .. n})]
        new == With({log[n] : n \in DOMAIN log})
    IN  IF good = targets THEN Done(new, log, log) ELSE Refused(new, log)

ServeRead(rows) == Done(table, rows, <<>>)

Serving(job) ==
    LET id == job.items[job.i]
        all == InOrder(DOMAIN table)
    IN  CASE job.op \in Creating \cup {"createRecord"} -> ServeCreate(id)
          [] job.op \in {"updateRecord", "mergeRecord"} -> ServeUpdate(id)
          [] job.op \in Deleting \cup {"deleteRecord"} -> ServeDelete(id)
          [] job.op = "upsertRecord" -> ServeUpsertTable
          [] job.op = "insertMany" -> ServeInsert(job.items)
          [] job.op = "upsertMany" -> ServeUpserts(job.items)
          [] job.op \in Finds ->
               ServeRead(IF id \in DOMAIN table THEN <<id>> ELSE <<>>)
          [] job.op = "queryRecords" -> ServeRead(all)
          [] job.op = "countRecords" \/ (job.op = "walk" /\ job.total = -1) ->
               ServeRead(IF all = <<>> THEN <<>> ELSE <<Len(all)>>)
          [] job.op = "first" -> ServeRead(Part(all, 0, 1))
          [] job.op = "last" ->
               ServeRead(Part([n \in DOMAIN all |-> all[Len(all) - n + 1]], 0, 1))
          [] job.op = "queryRecordsWrapped" -> ServeRead(Part(all, 0, PageSize))
          [] job.op = "walk" /\ job.total # -1 ->
               ServeRead(Part(all, Len(job.out), PageSize))

(* Whoever walks through the table sees that it changed.                   *)
Disturb(new) ==
    [u \in Tasks |-> IF jobs[u].at = "idle" \/ new = table THEN jobs[u]
                     ELSE [jobs[u] EXCEPT !.undisturbed = FALSE]]

(* Bound: the table has room for two more records.                         *)
Full == Cardinality(DOMAIN table) >= 3
Serve(t) ==
    LET s == Serving(jobs[t]) IN
    /\ jobs[t].at = "sent"
    /\ Full => /\ jobs[t].op # "upsertRecord"
               /\ \A n \in DOMAIN jobs[t].items : jobs[t].items[n] # NoTarget
    /\ table' = s.table
    /\ jobs' = [Disturb(s.table) EXCEPT
           ![t].at = IF s.refused THEN "refused" ELSE "answered",
           ![t].reply = s.rows, ![t].log = @ \o s.log]
    /\ UNCHANGED lost

(* A request or its reply is lost, and db.query rejects.                   *)
Lose(t) ==
    /\ jobs[t].at \in {"sent", "answered", "refused"}
    /\ lost < MaxLost
    /\ lost' = lost + 1
    /\ jobs' = [jobs EXCEPT ![t].at = "lost"]
    /\ UNCHANGED table

---------------------------------------------------------------------------
(* The continuation: db.query has resolved.                                *)
Resume(t, job) ==
    /\ jobs[t].at = "answered"
    /\ jobs' = [jobs EXCEPT ![t] = job]
    /\ UNCHANGED <<table, lost>>

Collected(t) == jobs[t].out \o jobs[t].reply

(* Mutant: an item is skipped.                                             *)
NextItemSkips(t) ==
    /\ jobs[t].op \in Loops
    /\ Resume(t, IF jobs[t].i + 1 < Len(jobs[t].items)
                 THEN [jobs[t] EXCEPT !.out = Collected(t), !.i = @ + 2,
                                      !.at = "sent"]
                 ELSE [jobs[t] EXCEPT !.out = Collected(t), !.at = "returned"])

(* createRecords, relateMany, deleteRecords, deleteMany: the next item.    *)
NextItem(t) ==
    /\ jobs[t].op \in Loops
    /\ Resume(t, IF jobs[t].i < Len(jobs[t].items)
                 THEN [jobs[t] EXCEPT !.out = Collected(t), !.i = @ + 1,
                                      !.at = "sent"]
                 ELSE [jobs[t] EXCEPT !.out = Collected(t), !.at = "returned"])

(* Each function, once its request is answered.                            *)
Returns(t, op, out) ==
    /\ jobs[t].op = op
    /\ Resume(t, [jobs[t] EXCEPT !.out = out, !.at = "returned"])
Fails(t, op) ==
    /\ jobs[t].op = op
    /\ Resume(t, [jobs[t] EXCEPT !.at = "failed"])

Rows(t) == jobs[t].reply
FirstRow(t) == Part(Rows(t), 0, 1)      \* null is no row
NeedsRow(t, op) ==
    IF Rows(t) = <<>> THEN Fails(t, op) ELSE Returns(t, op, FirstRow(t))

CreateRecord(t) == NeedsRow(t, "createRecord")
UpdateRecord(t) == NeedsRow(t, "updateRecord")
MergeRecord(t) == NeedsRow(t, "mergeRecord")
UpsertRecord(t) == NeedsRow(t, "upsertRecord")
DeleteRecord(t) == Returns(t, "deleteRecord", <<>>)

GetRecord(t) == Returns(t, "getRecord", FirstRow(t))
Exists(t) == Returns(t, "exists", IF FirstRow(t) = <<>> THEN <<0>> ELSE <<1>>)
First(t) == Returns(t, "first", FirstRow(t))
Last(t) == Returns(t, "last", FirstRow(t))
QueryRecords(t) == Returns(t, "queryRecords", Rows(t))
QueryRecordsWrapped(t) == Returns(t, "queryRecordsWrapped", Rows(t))

Total(rows) == IF rows = <<>> THEN 0 ELSE rows[1]
CountRecords(t) == Returns(t, "countRecords", <<Total(Rows(t))>>)

InsertMany(t) == Returns(t, "insertMany", Rows(t))
UpsertMany(t) == Returns(t, "upsertMany", Rows(t))

(* records(items, {total, limit, offset})                                  *)
HasMore(offset, rows, total) == offset + Len(rows) < total

(* A caller counts and then fetches page after page while there is more.   *)
WalkOn(t) ==
    /\ jobs[t].op = "walk"
    /\ IF jobs[t].total = -1
       THEN Resume(t, [jobs[t] EXCEPT !.total = Total(jobs[t].reply), !.at = "sent"])
       ELSE Resume(t, [jobs[t] EXCEPT !.out = Collected(t), !.at =
                IF HasMore(Len(jobs[t].out), jobs[t].reply, jobs[t].total)
                   /\ jobs[t].reply # <<>>
                THEN "sent" ELSE "returned"])

(* db.query rejects, and so does the call.                                 *)
Throw(t) ==
    /\ jobs[t].at \in {"refused", "lost"}
    /\ jobs' = [jobs EXCEPT ![t].at = "failed"]
    /\ UNCHANGED <<table, lost>>

Next ==
    \E t \in Tasks :
        \/ Start(t) \/ Serve(t) \/ Lose(t) \/ Throw(t)
        \/ NextItem(t) \/ WalkOn(t)
        \/ CreateRecord(t) \/ UpdateRecord(t) \/ MergeRecord(t)
        \/ UpsertRecord(t) \/ DeleteRecord(t)
        \/ GetRecord(t) \/ Exists(t) \/ First(t) \/ Last(t)
        \/ QueryRecords(t) \/ QueryRecordsWrapped(t) \/ CountRecords(t)
        \/ InsertMany(t) \/ UpsertMany(t)

Spec == Init /\ [][Next]_vars

TypeOK ==
    /\ DOMAIN table \subseteq Ids
    /\ \A t \in Tasks :
        /\ jobs[t].at \in {"idle", "sent", "answered", "refused", "lost",
                           "returned", "failed"}
        /\ jobs[t].op \in Operations \cup {"none"}
    /\ lost \in 0 .. MaxLost
---------------------------------------------------------------------------
(* A loop over items has done them in order and each once, up to the one   *)
(* under way: all of them when it returns, with a row for each one that it *)
(* created, and those before the one it fails at when it throws, which may *)
(* be done too only if its answer was lost.                                *)
LoopsArePrefixes ==
    \A t \in Tasks :
        LET j == jobs[t] IN
        j.op \in Loops =>
            /\ j.log = SubSeq(j.items, 1, Len(j.log))
            /\ j.at = "returned" =>
                /\ j.log = j.items
                /\ j.op \in Creating => j.out = j.items
            /\ j.at \in {"refused", "lost", "failed"} => Len(j.log) \in {j.i - 1, j.i}
            /\ j.at = "failed" /\ lost = 0 => Len(j.log) = j.i - 1

(* insertMany is all or nothing; upsertMany, of one request too, is not:   *)
(* it throws and leaves every item that was not the one refused.           *)
AsTargeted(log, items) ==
    /\ Len(log) = Len(items)
    /\ \A n \in DOMAIN items : items[n] \in {log[n], NoTarget}
BatchesAccount ==
    \A t \in Tasks :
        LET j == jobs[t] IN
        /\ j.at = "returned" /\ j.op \in Batches =>
                /\ j.out = j.log
                /\ AsTargeted(j.log, j.items)
        /\ j.at = "failed" /\ lost = 0 /\ j.op = "insertMany" => j.log = <<>>
        /\ j.at = "failed" /\ lost = 0 /\ j.op = "upsertMany" =>
                AsTargeted(j.log, Good(j.items))

(* A single write that throws has written nothing unless its answer was    *)
(* lost; one that returns has, but for deleteRecord, which does not know.  *)
WritesAreTold ==
    \A t \in Tasks :
        LET j == jobs[t] IN
        j.op \in Writes =>
            /\ j.at = "failed" /\ lost = 0 => j.log = <<>>
            /\ j.at = "returned" => j.log # <<>>

(* Who counts the records and then fetches pages while hasMore is told     *)
(* reads every record once and in order, if nobody changes the table       *)
(* meanwhile.                                                              *)
PagesCoverTable ==
    \A t \in Tasks :
        LET j == jobs[t] IN
        j.at = "returned" /\ j.op = "walk" /\ j.undisturbed =>
            j.out = InOrder(DOMAIN table)

(* A read tells what is in the table, if nobody changes it meanwhile; the  *)
(* first record and the last one are those of the whole table.             *)
ReadsTell ==
    \A t \in Tasks :
        LET j == jobs[t]
            all == InOrder(DOMAIN table)
        IN  j.at = "returned" /\ j.undisturbed =>
                /\ j.op = "exists" => (j.out = <<1>>) = (j.items[1] \in DOMAIN table)
                /\ j.op = "countRecords" => j.out = <<Len(all)>>
                /\ j.op = "first" => j.out = Part(all, 0, 1)
                /\ j.op = "last" => j.out = IF all = <<>> THEN <<>> ELSE <<all[Len(all)]>>

---------------------------------------------------------------------------
(* What these promises rest on, of a job j while the table has the ids T   *)
(* and l requests or replies were lost.                                    *)
LoopGoes(j, l) ==
    LET done(n) == j.log = SubSeq(j.items, 1, n)
        made(n) == j.op \in Creating => j.out = SubSeq(j.items, 1, n)
    IN  j.op \in Loops =>
            /\ j.at # "returned" => j.i \in DOMAIN j.items
            /\ j.at \in {"sent", "answered", "refused"} => made(j.i - 1)
            /\ j.at \in {"sent", "refused"} => done(j.i - 1)
            /\ j.at = "answered" =>
                    /\ done(j.i)
                    /\ j.op \in Creating => j.reply = <<j.items[j.i]>>
            /\ j.at \in {"lost", "failed"} =>
                    done(j.i - 1) \/ (l > 0 /\ done(j.i))
            /\ j.at = "returned" =>
                    /\ j.log = j.items
                    /\ j.op \in Creating => j.out = j.items

BatchGoes(j, l) ==
    j.op \in Batches =>
        /\ j.at = "sent" => j.log = <<>>
        /\ j.at = "answered" => j.reply = j.log /\ AsTargeted(j.log, j.items)
        /\ j.at = "returned" => j.out = j.log /\ AsTargeted(j.log, j.items)
        /\ j.at = "refused" \/ (j.at = "failed" /\ l = 0) =>
                IF j.op = "insertMany" THEN j.log = <<>>
                ELSE AsTargeted(j.log, Good(j.items))

WriteGoes(j, l) ==
    j.op \in Writes =>
        /\ j.at \in {"sent", "refused"} => j.log = <<>>
        /\ j.at = "answered" /\ j.op # "deleteRecord" =>
                (j.reply = <<>>) = (j.log = <<>>)
        /\ j.at = "answered" /\ j.op = "deleteRecord" => j.log # <<>>
        /\ j.at = "failed" /\ l = 0 => j.log = <<>>
        /\ j.at = "returned" => j.log # <<>>

WalkGoes(j, T) ==
    LET all == InOrder(T) IN
    j.op = "walk" /\ j.undisturbed =>
        /\ j.total = -1 => j.out = <<>>
        /\ j.total # -1 /\ j.at # "failed" =>
                /\ j.total = Len(all)
                /\ Len(j.out) <= Len(all)
                /\ j.out = SubSeq(all, 1, Len(j.out))
        /\ j.at = "answered" =>
                IF j.total = -1 THEN Total(j.reply) = Len(all)
                ELSE j.reply = Part(all, Len(j.out), PageSize)
        /\ j.at = "returned" => j.out = all

ReadGoes(j, T) ==
    LET all == InOrder(T)
        last == IF all = <<>> THEN <<>> ELSE <<all[Len(all)]>>
        there == j.items[1] \in T
    IN  /\ j.undisturbed /\ j.at = "answered" =>
            /\ j.op = "exists" => j.reply = IF there THEN j.items ELSE <<>>
            /\ j.op = "countRecords" => Total(j.reply) = Len(all)
            /\ j.op = "first" => j.reply = Part(all, 0, 1)
            /\ j.op = "last" => j.reply = last
        /\ j.undisturbed /\ j.at = "returned" =>
            /\ j.op = "exists" => j.out = IF there THEN <<1>> ELSE <<0>>
            /\ j.op = "countRecords" => j.out = <<Len(all)>>
            /\ j.op = "first" => j.out = Part(all, 0, 1)
            /\ j.op = "last" => j.out = last

JobGoes(j, T, l) ==
    /\ DOMAIN j = DOMAIN Idle
    /\ IF j.at = "idle" THEN j.op = "none"
       ELSE j.op \in Operations /\ j.items \in Items(j.op)
    /\ j.at \in {"sent", "answered", "refused"} /\ j.op \notin Loops => j.i = 1
    /\ j.at = "lost" => l > 0
    /\ LoopGoes(j, l) /\ BatchGoes(j, l) /\ WriteGoes(j, l)
    /\ WalkGoes(j, T) /\ ReadGoes(j, T)

RecordsInv ==
    /\ DOMAIN jobs = Tasks
    /\ \A t \in Tasks : JobGoes(jobs[t], DOMAIN table, lost)
=============================================================================
