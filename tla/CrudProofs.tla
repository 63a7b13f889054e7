----------------------------- MODULE CrudProofs -----------------------------
(***************************************************************************)
(* Theorems about three of the parts of the toolkit: the functions over    *)
(* records, the CRUD builders and the queries derived from one another,    *)
(* for any tasks and every bound.                                          *)
(***************************************************************************)
EXTENDS ToolkitProofs

(* query/crud.ts and batch.ts: loops, batches, writes and walks            *)

LEMMA SameCount == \A S : Records!Cardinality(S) = Cardinality(S)
BY Zenon DEF Records!Cardinality, Cardinality, Records!IsFiniteSet, IsFiniteSet

(* A set of ids in order is a sequence as long as the set is large.        *)
LEMMA InOrderIs ==
    ASSUME NEW S, IsFiniteSet(S)
    PROVE  \E X : /\ Records!InOrder(S) \in Seq(X)
                  /\ Len(Records!InOrder(S)) = Cardinality(S)
<1>. DEFINE all == Records!InOrder(S)
            n == Cardinality(S)
            X == {all[i] : i \in 1 .. n}
<1>1. n \in Nat
  BY FS_CardinalityType
<1>. DEFINE c(k) == CHOOSE i \in S : Records!Cardinality({j \in S : j <= i}) = k
<1>2. all = [k \in 1 .. n |-> c(k)]
  BY Zenon, SameCount DEF Records!InOrder
<1>. HIDE DEF all, n, c
<1>3. all \in Seq(X) /\ Len(all) = n
  BY <1>1, <1>2
<1>. QED
  BY <1>3 DEF all, n

(* A page behind the pages that were read is the next part of the whole,   *)
(* and the last one when it is empty or reaches the total.                 *)
LEMMA PageFollows ==
    ASSUME NEW X, NEW all \in Seq(X), NEW n \in 0 .. Len(all),
           PageSize \in Nat \ {0}
    PROVE  LET out == SubSeq(all, 1, n)
               read == Records!Part(all, n, PageSize)
           IN  /\ Len(out \o read) \in Nat
               /\ Len(out \o read) <= Len(all)
               /\ out \o read = SubSeq(all, 1, Len(out \o read))
               /\ read = <<>> \/ ~(n + Len(read) < Len(all)) =>
                    out \o read = all
<1>. DEFINE m == IF n + PageSize < Len(all) THEN n + PageSize ELSE Len(all)
            out == SubSeq(all, 1, n)
            read == Records!Part(all, n, PageSize)
<1>1. read = SubSeq(all, n + 1, m)
  BY DEF Records!Part
<1>2. n \in Nat /\ m \in Nat /\ n <= m /\ m <= Len(all)
  BY LenProperties
<1>. HIDE DEF m, out, read
<1>3. /\ out \in Seq(X) /\ Len(out) = n
      /\ \A i \in 1 .. n : out[i] = all[i]
  <2>1. out = SubSeq(all, 1, n)
    BY DEF out
  <2>. QED
    BY <1>2, <2>1
<1>3a. /\ read \in Seq(X) /\ Len(read) = m - n
      /\ \A i \in 1 .. m - n : read[i] = all[n + i]
  BY <1>1, <1>2
<1>4. /\ out \o read \in Seq(X) /\ Len(out \o read) = m
      /\ \A i \in 1 .. m : (out \o read)[i] = all[i]
  <2>1. PICK o, r : o = out /\ r = read
    OBVIOUS
  <2>2. /\ o \o r \in Seq(X) /\ Len(o \o r) = m
        /\ \A i \in 1 .. m : (o \o r)[i] = all[i]
    BY <1>2, <1>3, <1>3a, <2>1
  <2>. QED
    BY <2>1, <2>2, Zenon
<1>5. /\ SubSeq(all, 1, m) \in Seq(X) /\ Len(SubSeq(all, 1, m)) = m
      /\ \A i \in 1 .. m : SubSeq(all, 1, m)[i] = all[i]
  BY <1>2
<1>6. out \o read = SubSeq(all, 1, m)
  BY <1>2, <1>4, <1>5, SeqEqual
<1>7. ASSUME read = <<>> \/ ~(n + Len(read) < Len(all))
      PROVE  m = Len(all)
  <2>1. read = <<>> => m = n
    BY <1>2, <1>3a, Len(<<>>) = 0
  <2>2. m # Len(all) => m = n + PageSize /\ m < Len(all)
    BY <1>2 DEF m
  <2>. QED
    BY <1>2, <1>3a, <1>7, <2>1, <2>2
<1>8. m = Len(all) => out \o read = all
  BY <1>4, SeqEqual
<1>. QED
  BY <1>2, <1>4, <1>6, <1>7, <1>8 DEF out, read

(* What a call may be given.                                               *)
LEMMA ItemsAre ==
    ASSUME NEW op, NEW items \in Records!Items(op), op \in Records!Operations
    PROVE  /\ items \in Seq(0 .. 5)
           /\ op \in Records!Loops =>
                items \in {<<>>, <<1, 2>>, <<2, 4>>, <<4, 2>>}
           /\ op \in Records!Writes \cup Records!Finds =>
                items \in {<<1>>, <<2>>, <<4>>}
           /\ op \in Records!Batches =>
                items \in {<<>>, <<1, 2>>, <<2, 4>>, <<4, 2>>, <<1, 0>>, <<0, 4>>}
           /\ op = "insertMany" => items \in {<<>>, <<1, 2>>, <<2, 4>>, <<4, 2>>}
<1>. DEFINE Pairs == {<<>>, <<1, 2>>, <<2, 4>>, <<4, 2>>}
            Halves == {<<1, 0>>, <<0, 4>>}
            Singles == {<<1>>, <<2>>, <<4>>}
<1>4. op \in Records!Loops => op # "upsertMany" /\ op \notin Records!Batches
  BY DEF Records!Loops, Records!Creating, Records!Deleting, Records!Batches
<1>5. op \in Records!Writes \cup Records!Finds =>
        op \notin Records!Loops \cup Records!Batches
  BY DEF Records!Loops, Records!Creating, Records!Deleting, Records!Batches,
     Records!Writes, Records!Finds
<1>1. op \in Records!Loops \cup Records!Batches =>
        items \in Pairs \cup IF op = "upsertMany" THEN Halves ELSE {}
  <2>. SUFFICES ASSUME op \in Records!Loops \cup Records!Batches
                PROVE  items \in Pairs \cup IF op = "upsertMany" THEN Halves ELSE {}
    OBVIOUS
  <2>1. Records!Items(op) = Pairs \cup IF op = "upsertMany" THEN Halves ELSE {}
    BY <1>5 DEF Records!Items, Records!NoTarget
  <2>. QED
    BY <2>1
<1>2. op \notin Records!Loops \cup Records!Batches
        /\ op \in Records!Writes \cup Records!Finds => items \in Singles
  BY DEF Records!Items
<1>3. op \notin Records!Loops \cup Records!Batches \cup Records!Writes
                    \cup Records!Finds => items = <<>>
  BY DEF Records!Items
<1>6. op = "insertMany" => op \in Records!Batches
  BY DEF Records!Batches
<1>7. Pairs \cup Halves \cup Singles \subseteq Seq(0 .. 5)
  OBVIOUS
<1>8. items \in Pairs \cup Halves \cup Singles
  BY <1>1, <1>2, <1>3
<1>. QED
  BY <1>1, <1>2, <1>4, <1>5, <1>6, <1>7, <1>8

(* Items of no table are upsertMany's.                                     *)
LEMMA SetsApart ==
    /\ \A op \in Records!Loops : op \notin Records!Batches \cup Records!Writes
            /\ op \notin {"walk", "exists", "countRecords", "first", "last", "none"}
            /\ op \in Records!Operations
    /\ \A op \in Records!Batches : op \notin Records!Writes
            /\ op \notin {"walk", "exists", "countRecords", "first", "last", "none"}
            /\ op \in Records!Operations
    /\ \A op \in Records!Writes :
            /\ op \notin {"walk", "exists", "countRecords", "first", "last", "none"}
            /\ op \in Records!Operations
    /\ "none" \notin Records!Operations
BY DEF Records!Operations, Records!Loops, Records!Creating,
   Records!Deleting, Records!Batches, Records!Writes, Records!Finds,
   Records!Reads

LEMMA PairInOrder ==
    ASSUME NEW S \in SUBSET {1, 2}
    PROVE  \A n \in 1 .. Records!Cardinality(S) : Records!InOrder(S)[n] \in S
<1>. DEFINE P(i, n) == Records!Cardinality({j \in S : j <= i}) = n
            c(n) == CHOOSE i \in S : P(i, n)
<1>1. \A n : (\E i \in S : P(i, n)) => c(n) \in S
  BY Zenon
<1>2. Records!InOrder(S) = [n \in 1 .. Records!Cardinality(S) |-> c(n)]
  BY Zenon DEF Records!InOrder
<1>3. /\ Cardinality({}) = 0 /\ Cardinality({1}) = 1 /\ Cardinality({2}) = 1
      /\ Cardinality({1, 2}) = 2
  <2>1. IsFiniteSet({1}) /\ Cardinality({1}) = 1 /\ Cardinality({2}) = 1
    BY FS_Singleton
  <2>2. {1, 2} = {1} \cup {2} /\ 2 \notin {1}
    OBVIOUS
  <2>3. Cardinality({1} \cup {2}) = 2
    BY <2>1, <2>2, FS_AddElement
  <2>. QED
    BY <2>1, <2>2, <2>3, FS_EmptySet
<1>4. S \in {{}, {1}, {2}, {1, 2}}
  OBVIOUS
<1>5. \A n \in 1 .. Records!Cardinality(S) : \E i \in S : P(i, n)
  <2>1. CASE S = {}
    BY <1>3, <2>1, SameCount
  <2>2. CASE S = {1}
    <3>1. {j \in S : j <= 1} = {1}
      BY <2>2
    <3>. QED
      BY <1>3, <2>2, <3>1, SameCount
  <2>3. CASE S = {2}
    <3>1. {j \in S : j <= 2} = {2}
      BY <2>3
    <3>. QED
      BY <1>3, <2>3, <3>1, SameCount
  <2>4. CASE S = {1, 2}
    <3>1. {j \in S : j <= 1} = {1} /\ {j \in S : j <= 2} = {1, 2}
      BY <2>4
    <3>. QED
      BY <1>3, <2>4, <3>1, SameCount
  <2>. QED
    BY <1>4, <2>1, <2>2, <2>3, <2>4
<1>. HIDE DEF c, P
<1>. QED
  BY <1>1, <1>2, <1>5

(* The items that the server accepts are items.                            *)
LEMMA GoodIs ==
    ASSUME NEW items \in Seq(0 .. 5), Len(items) \in 0 .. 2
    PROVE  /\ Records!Good(items) \in Seq(0 .. 5)
           /\ \A n \in DOMAIN Records!Good(items) :
                \E k \in DOMAIN items : items[k] = Records!Good(items)[n]
<1>. DEFINE at == {n \in DOMAIN items : items[n] # Records!Bad}
            c == Records!Cardinality(at)
<1>1. at \subseteq {1, 2}
  OBVIOUS
<1>2. c \in Nat
  <2>1. IsFiniteSet(1 .. 2)
    BY FS_Interval, 1 \in Int, 2 \in Int
  <2>2. at \subseteq 1 .. 2
    BY <1>1
  <2>. QED
    BY <2>1, <2>2, FS_Subset, FS_CardinalityType, SameCount
<1>3. \A n \in 1 .. c : Records!InOrder(at)[n] \in at
  BY <1>1, PairInOrder
<1>4. Records!Good(items) = [n \in 1 .. c |-> items[Records!InOrder(at)[n]]]
  BY DEF Records!Good
<1>5. \A n \in 1 .. c : items[Records!InOrder(at)[n]] \in 0 .. 5
  BY <1>3
<1>. HIDE DEF c
<1>6. Records!Good(items) \in Seq(0 .. 5)
  BY <1>2, <1>4, <1>5
<1>7. \A n \in 1 .. c : items[Records!InOrder(at)[n]] # Records!Bad
  BY <1>3
<1>. QED
  BY <1>2, <1>3, <1>4, <1>6

(* A job stays as it is when a table stays, and whoever it is told of a    *)
(* change may make anything of it.                                         *)
LEMMA JobStays ==
    ASSUME NEW j, NEW T, NEW l \in Nat, Records!JobGoes(j, T, l)
    PROVE  /\ \A m \in Nat : l <= m => Records!JobGoes(j, T, m)
           /\ \A U : Records!JobGoes([j EXCEPT !.undisturbed = FALSE], U, l)
<1>1. ASSUME NEW m \in Nat, l <= m
      PROVE  Records!JobGoes(j, T, m)
  <2>1. Records!LoopGoes(j, m)
    BY <1>1 DEF Records!JobGoes, Records!LoopGoes
  <2>2. Records!BatchGoes(j, m)
    BY <1>1 DEF Records!JobGoes, Records!BatchGoes
  <2>3. Records!WriteGoes(j, m)
    BY <1>1 DEF Records!JobGoes, Records!WriteGoes
  <2>. QED
    BY <1>1, <2>1, <2>2, <2>3 DEF Records!JobGoes
<1>2. ASSUME NEW U
      PROVE  Records!JobGoes([j EXCEPT !.undisturbed = FALSE], U, l)
  <2>. DEFINE k == [j EXCEPT !.undisturbed = FALSE]
  <2>1. DOMAIN j = {"op", "items", "at", "i", "log", "reply", "out", "total",
                    "undisturbed"}
    BY DEF Records!JobGoes, Records!Idle, Records!Job
  <2>2. /\ DOMAIN k = DOMAIN j
        /\ k.op = j.op /\ k.items = j.items /\ k.at = j.at /\ k.i = j.i
        /\ k.log = j.log /\ k.reply = j.reply /\ k.out = j.out
        /\ k.total = j.total /\ k.undisturbed = FALSE
    BY <2>1
  <2>. HIDE DEF k
  <2>3. Records!LoopGoes(k, l)
    BY <2>2 DEF Records!JobGoes, Records!LoopGoes
  <2>4. Records!BatchGoes(k, l)
    BY <2>2 DEF Records!JobGoes, Records!BatchGoes
  <2>5. Records!WriteGoes(k, l)
    BY <2>2 DEF Records!JobGoes, Records!WriteGoes
  <2>6. Records!WalkGoes(k, U) /\ Records!ReadGoes(k, U)
    BY <2>2 DEF Records!WalkGoes, Records!ReadGoes
  <2>7. Records!JobGoes(k, U, l)
    BY <2>2, <2>3, <2>4, <2>5, <2>6 DEF Records!JobGoes
  <2>. QED
    BY <2>7 DEF k
<1>. QED
  BY <1>1, <1>2

LEMMA JobMoves ==
    ASSUME Records!TypeOK, Records!RecordsInv, Records!RecordsAssumption,
           NEW t \in Tasks, NEW w, jobs' = [jobs EXCEPT ![t] = w],
           table' = table, lost' \in {lost, lost + 1}, lost' <= MaxLost,
           Records!JobGoes(w, DOMAIN table, lost'),
           w.at \in {"idle", "sent", "answered", "refused", "lost",
                     "returned", "failed"}
    PROVE  (Records!TypeOK /\ Records!RecordsInv)'
<1>1. lost \in Nat /\ lost' \in Nat /\ lost <= lost' /\ MaxLost \in Nat
  BY DEF Records!TypeOK, Records!RecordsAssumption
<1>2. /\ DOMAIN jobs = Tasks /\ DOMAIN jobs' = Tasks /\ jobs'[t] = w
      /\ \A u \in Tasks \ {t} : jobs'[u] = jobs[u]
  BY DEF Records!RecordsInv
<1>3. \A u \in Tasks : Records!JobGoes(jobs'[u], DOMAIN table, lost')
  BY <1>1, <1>2, JobStays DEF Records!RecordsInv
<1>4. Records!RecordsInv'
  BY <1>2, <1>3 DEF Records!RecordsInv
<1>5. w.op \in Records!Operations \cup {"none"}
  BY DEF Records!JobGoes
<1>6. Records!TypeOK'
  BY <1>1, <1>2, <1>5 DEF Records!TypeOK
<1>. QED
  BY <1>4, <1>6

(* What the server does for each call.                                     *)
LEMMA ServingIs ==
    ASSUME NEW j
    PROVE  LET id == j.items[j.i]
               all == Records!InOrder(DOMAIN table)
               Read(got) == Records!Serving(j) = Records!ServeRead(got)
           IN  /\ j.op \in Records!Creating \cup {"createRecord"} =>
                    Records!Serving(j) = Records!ServeCreate(id)
               /\ j.op \in {"updateRecord", "mergeRecord"} =>
                    Records!Serving(j) = Records!ServeUpdate(id)
               /\ j.op \in Records!Deleting \cup {"deleteRecord"} =>
                    Records!Serving(j) = Records!ServeDelete(id)
               /\ j.op = "upsertRecord" =>
                    Records!Serving(j) = Records!ServeUpsertTable
               /\ j.op = "insertMany" =>
                    Records!Serving(j) = Records!ServeInsert(j.items)
               /\ j.op = "upsertMany" =>
                    Records!Serving(j) = Records!ServeUpserts(j.items)
               /\ j.op \in Records!Finds =>
                    Read(IF id \in DOMAIN table THEN <<id>> ELSE <<>>)
               /\ j.op = "queryRecords" => Read(all)
               /\ j.op = "countRecords" \/ (j.op = "walk" /\ j.total = -1) =>
                    Read(IF all = <<>> THEN <<>> ELSE <<Len(all)>>)
               /\ j.op = "first" => Read(Records!Part(all, 0, 1))
               /\ j.op = "last" =>
                    Read(Records!Part([n \in DOMAIN all |->
                                          all[Len(all) - n + 1]], 0, 1))
               /\ j.op = "queryRecordsWrapped" =>
                    Read(Records!Part(all, 0, PageSize))
               /\ j.op = "walk" /\ j.total # -1 =>
                    Read(Records!Part(all, Len(j.out), PageSize))
<1>. DEFINE id == j.items[j.i]
            all == Records!InOrder(DOMAIN table)
<1>1. Records!Serving(j) =
        CASE j.op \in {"createRecords", "relateMany", "createRecord"} -> Records!ServeCreate(id)
          [] j.op \in {"updateRecord", "mergeRecord"} -> Records!ServeUpdate(id)
          [] j.op \in {"deleteRecords", "deleteMany", "deleteRecord"} -> Records!ServeDelete(id)
          [] j.op = "upsertRecord" -> Records!ServeUpsertTable
          [] j.op = "insertMany" -> Records!ServeInsert(j.items)
          [] j.op = "upsertMany" -> Records!ServeUpserts(j.items)
          [] j.op \in {"getRecord", "exists"} ->
               Records!ServeRead(IF id \in DOMAIN table THEN <<id>> ELSE <<>>)
          [] j.op = "queryRecords" -> Records!ServeRead(all)
          [] j.op = "countRecords" \/ (j.op = "walk" /\ j.total = -1) ->
               Records!ServeRead(IF all = <<>> THEN <<>> ELSE <<Len(all)>>)
          [] j.op = "first" -> Records!ServeRead(Records!Part(all, 0, 1))
          [] j.op = "last" ->
               Records!ServeRead(Records!Part([n \in DOMAIN all |-> all[Len(all) - n + 1]], 0, 1))
          [] j.op = "queryRecordsWrapped" -> Records!ServeRead(Records!Part(all, 0, PageSize))
          [] j.op = "walk" /\ j.total # -1 ->
               Records!ServeRead(Records!Part(all, Len(j.out), PageSize))
  BY DEF Records!Serving, Records!Creating, Records!Deleting, Records!Finds
<1>. QED
  BY <1>1 DEF Records!Creating, Records!Deleting, Records!Finds

(* What each of these answers.                                             *)
LEMMA Served ==
    /\ \A got : /\ Records!ServeRead(got).table = table
                  /\ Records!ServeRead(got).rows = got
                  /\ Records!ServeRead(got).log = <<>>
                  /\ ~Records!ServeRead(got).refused
    /\ \A id : LET s == Records!ServeCreate(id) IN
            IF id \in DOMAIN table \cup {Records!Bad}
            THEN s.refused /\ s.table = table /\ s.log = <<>>
            ELSE /\ ~s.refused /\ s.rows = <<id>> /\ s.log = <<id>>
                 /\ DOMAIN s.table = DOMAIN table \cup {id}
    /\ \A id : LET s == Records!ServeUpdate(id) IN
            /\ ~s.refused
            /\ IF id \in DOMAIN table THEN s.rows = <<id>> /\ s.log = <<id>>
               ELSE s.rows = <<>> /\ s.log = <<>>
            /\ DOMAIN s.table = DOMAIN table
    /\ \A id : LET s == Records!ServeDelete(id) IN
            /\ ~s.refused /\ s.log = <<id>>
            /\ DOMAIN s.table \subseteq DOMAIN table
<1>1. \A new, got, log :
        /\ Records!Done(new, got, log).table = new
        /\ Records!Done(new, got, log).rows = got
        /\ Records!Done(new, got, log).log = log
        /\ Records!Done(new, got, log).refused = FALSE
        /\ Records!Refused(new, log).table = new
        /\ Records!Refused(new, log).rows = <<>>
        /\ Records!Refused(new, log).log = log
        /\ Records!Refused(new, log).refused = TRUE
  BY DEF Records!Done, Records!Refused
<1>2. \A ids : DOMAIN Records!With(ids) = DOMAIN table \cup ids
  BY DEF Records!With
<1>3. ASSUME NEW got
      PROVE  LET s == Records!ServeRead(got) IN
             s.table = table /\ s.rows = got /\ s.log = <<>> /\ ~s.refused
  BY <1>1 DEF Records!ServeRead
<1>4. ASSUME NEW id
      PROVE  LET s == Records!ServeCreate(id) IN
            IF id \in DOMAIN table \cup {Records!Bad}
            THEN s.refused /\ s.table = table /\ s.log = <<>>
            ELSE /\ ~s.refused /\ s.rows = <<id>> /\ s.log = <<id>>
                 /\ DOMAIN s.table = DOMAIN table \cup {id}
  <2>1. CASE id \in DOMAIN table \cup {Records!Bad}
    <3>1. Records!ServeCreate(id) = Records!Refused(table, <<>>)
      BY <2>1 DEF Records!ServeCreate
    <3>. QED
      BY <1>1, <2>1, <3>1
  <2>2. CASE id \notin DOMAIN table \cup {Records!Bad}
    <3>1. Records!ServeCreate(id)
            = Records!Done(Records!With({id}), <<id>>, <<id>>)
      BY <2>2 DEF Records!ServeCreate
    <3>2. DOMAIN Records!With({id}) = DOMAIN table \cup {id}
      BY <1>2
    <3>3. LET s == Records!Done(Records!With({id}), <<id>>, <<id>>) IN
            /\ ~s.refused /\ s.rows = <<id>> /\ s.log = <<id>>
            /\ DOMAIN s.table = DOMAIN table \cup {id}
      BY <1>1, <3>2
    <3>. QED
      BY <2>2, <3>1, <3>3
  <2>. QED
    BY <2>1, <2>2
<1>5. ASSUME NEW id
      PROVE  LET s == Records!ServeUpdate(id) IN
            /\ ~s.refused
            /\ IF id \in DOMAIN table THEN s.rows = <<id>> /\ s.log = <<id>>
               ELSE s.rows = <<>> /\ s.log = <<>>
            /\ DOMAIN s.table = DOMAIN table
  <2>1. CASE id \notin DOMAIN table
    <3>1. Records!ServeUpdate(id) = Records!Done(table, <<>>, <<>>)
      BY <2>1 DEF Records!ServeUpdate
    <3>. QED
      BY <1>1, <2>1, <3>1
  <2>2. CASE id \in DOMAIN table
    <3>1. Records!ServeUpdate(id)
            = Records!Done(Records!With({id}), <<id>>, <<id>>)
      BY <2>2 DEF Records!ServeUpdate
    <3>2. DOMAIN Records!With({id}) = DOMAIN table
      BY <1>2, <2>2
    <3>. QED
      BY <1>1, <2>2, <3>1, <3>2
  <2>. QED
    BY <2>1, <2>2
<1>6. ASSUME NEW id
      PROVE  LET s == Records!ServeDelete(id) IN
            /\ ~s.refused /\ s.log = <<id>>
            /\ DOMAIN s.table \subseteq DOMAIN table
  BY <1>1 DEF Records!ServeDelete
<1>. QED
  BY <1>3, <1>4, <1>5, <1>6

(* A record without an id gets one that is free.                           *)
LEMMA FreshIs ==
    ASSUME NEW T \in SUBSET Records!Ids, ~({2, 3, 5} \subseteq T)
    PROVE  \A A \in SUBSET (T \cup {0, 1, 4}) :
                Records!Fresh(A) \in Records!Ids
<1>. SUFFICES ASSUME NEW A \in SUBSET (T \cup {0, 1, 4})
              PROVE  Records!Fresh(A) \in Records!Ids
  OBVIOUS
<1>1. \E i \in Records!Ids : i \notin A /\ i # Records!Bad
  BY DEF Records!Ids, Records!Bad
<1>. QED
  BY <1>1 DEF Records!Fresh

LEMMA NotFull ==
    ASSUME DOMAIN table \subseteq Records!Ids, ~Records!Full
    PROVE  ~({2, 3, 5} \subseteq DOMAIN table)
<1>. SUFFICES ASSUME {2, 3, 5} \subseteq DOMAIN table
              PROVE  FALSE
  OBVIOUS
<1>1. IsFiniteSet(1 .. 5)
  BY FS_Interval, 1 \in Int, 5 \in Int
<1>2. IsFiniteSet(DOMAIN table)
  BY <1>1, FS_Subset DEF Records!Ids
<1>. DEFINE A == {2}
            B == A \cup {3}
<1>3. IsFiniteSet(A) /\ Cardinality(A) = 1 /\ 3 \notin A
  <2>1. IsFiniteSet({2}) /\ Cardinality({2}) = 1
    BY FS_Singleton
  <2>2. 3 \notin {2}
    OBVIOUS
  <2>. QED
    BY <2>1, <2>2
<1>4. IsFiniteSet(B) /\ Cardinality(B) = 2 /\ 5 \notin B
  <2>1. 5 \notin B
    OBVIOUS
  <2>. HIDE DEF A
  <2>2. /\ IsFiniteSet(A \cup {3})
        /\ Cardinality(A \cup {3}) =
                IF 3 \in A THEN Cardinality(A) ELSE Cardinality(A) + 1
    BY <1>3, FS_AddElement
  <2>. QED
    BY <1>3, <2>1, <2>2
<1>5. Cardinality(({2} \cup {3}) \cup {5}) = 3
  <2>. HIDE DEF B
  <2>1. Cardinality(B \cup {5}) =
            IF 5 \in B THEN Cardinality(B) ELSE Cardinality(B) + 1
    BY <1>4, FS_AddElement
  <2>2. Cardinality(B \cup {5}) = 3
    BY <1>4, <2>1
  <2>. QED
    BY <2>2 DEF B
<1>6. ({2} \cup {3}) \cup {5} = {2, 3, 5}
  OBVIOUS
<1>7. 3 <= Cardinality(DOMAIN table) /\ Cardinality(DOMAIN table) \in Nat
  BY <1>2, <1>5, <1>6, FS_Subset, FS_CardinalityType
<1>. QED
  BY <1>7, SameCount DEF Records!Full

(* insertMany is all of its items or none, upsertMany the good ones.       *)
LEMMA BatchServed ==
    ASSUME DOMAIN table \subseteq Records!Ids,
           NEW items \in {<<>>, <<1, 2>>, <<2, 4>>, <<4, 2>>, <<1, 0>>, <<0, 4>>},
           Records!Full =>
                \A n \in DOMAIN items : items[n] # Records!NoTarget
    PROVE  /\ LET s == Records!ServeInsert(items) IN
              /\ IF s.refused THEN s.table = table /\ s.log = <<>>
                 ELSE s.rows = items /\ s.log = items
              /\ items \in {<<>>, <<1, 2>>, <<2, 4>>, <<4, 2>>} =>
                    DOMAIN s.table \subseteq Records!Ids
           /\ LET s == Records!ServeUpserts(items) IN
              /\ Records!AsTargeted(s.log, Records!Good(items))
              /\ ~s.refused => /\ s.rows = s.log
                               /\ Records!AsTargeted(s.log, items)
              /\ DOMAIN s.table \subseteq Records!Ids
              /\ s.log \in Seq(0 .. 5)
<1>0. items \in Seq(0 .. 5) /\ Len(items) \in 0 .. 2
  <2>1. CASE items = <<>>
    BY <2>1
  <2>2. CASE items \in {<<1, 2>>, <<2, 4>>, <<4, 2>>, <<1, 0>>, <<0, 4>>}
    <3>1. \A a, b \in 0 .. 5 : <<a, b>> \in Seq(0 .. 5) /\ Len(<<a, b>>) = 2
      OBVIOUS
    <3>2. PICK a \in 0 .. 5, b \in 0 .. 5 : items = <<a, b>>
      BY <2>2
    <3>. QED
      BY <3>1, <3>2
  <2>. QED
    BY <2>1, <2>2
<1>1. \A new, got, log :
        /\ Records!Done(new, got, log).table = new
        /\ Records!Done(new, got, log).rows = got
        /\ Records!Done(new, got, log).log = log
        /\ Records!Done(new, got, log).refused = FALSE
        /\ Records!Refused(new, log).table = new
        /\ Records!Refused(new, log).rows = <<>>
        /\ Records!Refused(new, log).log = log
        /\ Records!Refused(new, log).refused = TRUE
  BY DEF Records!Done, Records!Refused
<1>2. \A ids : DOMAIN Records!With(ids) = DOMAIN table \cup ids
  BY DEF Records!With
<1>3. LET s == Records!ServeInsert(items) IN
        /\ IF s.refused THEN s.table = table /\ s.log = <<>>
           ELSE s.rows = items /\ s.log = items
        /\ items \in {<<>>, <<1, 2>>, <<2, 4>>, <<4, 2>>} =>
                DOMAIN s.table \subseteq Records!Ids
  <2>. DEFINE ids == {items[i] : i \in DOMAIN items}
  <2>1. CASE ids \cap (DOMAIN table \cup {Records!Bad}) # {}
    BY <1>1, <2>1 DEF Records!ServeInsert
  <2>2. CASE ids \cap (DOMAIN table \cup {Records!Bad}) = {}
    <3>1. Records!ServeInsert(items) = Records!Done(Records!With(ids), items, items)
      BY <2>2 DEF Records!ServeInsert
    <3>2. items \in {<<>>, <<1, 2>>, <<2, 4>>, <<4, 2>>} =>
            ids \subseteq Records!Ids
      BY DEF Records!Ids
    <3>. HIDE DEF ids
    <3>3. DOMAIN Records!With(ids) = DOMAIN table \cup ids
      BY <1>2
    <3>4. LET s == Records!Done(Records!With(ids), items, items) IN
            ~s.refused /\ s.rows = items /\ s.log = items
                /\ DOMAIN s.table = DOMAIN table \cup ids
      BY <1>1, <3>3
    <3>. QED
      BY <3>1, <3>2, <3>4
  <2>. QED
    BY <2>1, <2>2
<1>. DEFINE good == Records!Good(items)
            log == [n \in DOMAIN good |->
                        IF good[n] # Records!NoTarget THEN good[n]
                        ELSE Records!Fresh(DOMAIN table \cup
                                           {good[m] : m \in 1 .. n})]
            new == Records!With({log[n] : n \in DOMAIN log})
            s == Records!ServeUpserts(items)
<1>4. /\ good \in Seq(0 .. 5)
      /\ \A n \in DOMAIN good : \E k \in DOMAIN items : items[k] = good[n]
  BY <1>0, GoodIs
<1>5. s = IF good = items THEN Records!Done(new, log, log)
          ELSE Records!Refused(new, log)
  BY DEF Records!ServeUpserts
<1>6. \A n \in DOMAIN good : log[n] \in Records!Ids
  <2>. SUFFICES ASSUME NEW n \in DOMAIN good
                PROVE  log[n] \in Records!Ids
    OBVIOUS
  <2>1. CASE good[n] # Records!NoTarget
    BY <1>4, <2>1 DEF Records!Ids, Records!NoTarget
  <2>2. CASE good[n] = Records!NoTarget
    <3>1. \E k \in DOMAIN items : items[k] = Records!NoTarget
      BY <1>4, <2>2
    <3>2. items \in {<<1, 0>>, <<0, 4>>} /\ ~Records!Full
      BY <3>1 DEF Records!NoTarget
    <3>3. \A k \in DOMAIN items : items[k] \in {0, 1, 4}
      BY <3>2
    <3>4. {good[m] : m \in 1 .. n} \subseteq {0, 1, 4}
      <4>1. 1 .. n \subseteq DOMAIN good
        BY <1>4
      <4>. QED
        BY <1>4, <3>3, <4>1
    <3>5. Records!Fresh(DOMAIN table \cup {good[m] : m \in 1 .. n})
            \in Records!Ids
      BY <3>2, <3>4, NotFull, FreshIs
    <3>. QED
      BY <2>2, <3>5
  <2>. QED
    BY <2>1, <2>2
<1>7. /\ DOMAIN log = DOMAIN good
      /\ \A n \in DOMAIN good : good[n] \in {log[n], Records!NoTarget}
  OBVIOUS
<1>13. log \in Seq(0 .. 5)
  <2>1. Len(good) \in Nat /\ DOMAIN good = 1 .. Len(good)
    BY <1>4
  <2>. HIDE DEF good
  <2>2. log = [n \in 1 .. Len(good) |-> log[n]]
    BY <2>1
  <2>. HIDE DEF log
  <2>3. \A n \in 1 .. Len(good) : log[n] \in 0 .. 5
    BY <1>6, <2>1 DEF Records!Ids
  <2>. QED
    BY <2>1, <2>2, <2>3
<1>. HIDE DEF good, log
<1>8. {log[n] : n \in DOMAIN log} \subseteq Records!Ids
  BY <1>6, <1>7
<1>9. DOMAIN new \subseteq Records!Ids
  BY <1>2, <1>8
<1>10. Len(log) = Len(good)
  BY <1>4, <1>7
<1>11. Records!AsTargeted(log, good)
  BY <1>7, <1>10 DEF Records!AsTargeted
<1>. HIDE DEF new, s
<1>12. /\ Records!AsTargeted(s.log, good)
       /\ ~s.refused => s.rows = s.log /\ Records!AsTargeted(s.log, items)
       /\ DOMAIN s.table \subseteq Records!Ids
       /\ s.log \in Seq(0 .. 5)
  BY <1>1, <1>5, <1>9, <1>11, <1>13
<1>. QED
  BY <1>3, <1>12 DEF good, s

(* The items done so far, and one more.                                    *)
LEMMA OneMore ==
    ASSUME NEW X, NEW items \in Seq(X), NEW i \in DOMAIN items
    PROVE  /\ SubSeq(items, 1, i - 1) \o <<items[i]>> = SubSeq(items, 1, i)
           /\ SubSeq(items, 1, 0) = <<>>
           /\ SubSeq(items, 1, Len(items)) = items
           /\ Len(SubSeq(items, 1, i)) = i
           /\ Len(SubSeq(items, 1, i - 1)) = i - 1
<1>1. i \in 1 .. Len(items) /\ items[i] \in X
  OBVIOUS
<1>2. /\ SubSeq(items, 1, i) \in Seq(X) /\ Len(SubSeq(items, 1, i)) = i
      /\ \A k \in 1 .. i : SubSeq(items, 1, i)[k] = items[k]
  BY <1>1
<1>3. /\ SubSeq(items, 1, i - 1) \in Seq(X)
      /\ Len(SubSeq(items, 1, i - 1)) = i - 1
      /\ \A k \in 1 .. i - 1 : SubSeq(items, 1, i - 1)[k] = items[k]
  BY <1>1
<1>. DEFINE a == SubSeq(items, 1, i - 1)
            b == SubSeq(items, 1, i)
<1>. HIDE DEF a, b
<1>4. /\ a \o <<items[i]>> \in Seq(X) /\ Len(a \o <<items[i]>>) = i
      /\ \A k \in 1 .. i : (a \o <<items[i]>>)[k] = items[k]
  BY <1>1, <1>3 DEF a
<1>5. a \o <<items[i]>> = b
  BY <1>2, <1>4, SeqEqual DEF b
<1>6. SubSeq(items, 1, Len(items)) = items
  BY SeqEqual
<1>. QED
  BY <1>2, <1>3, <1>5, <1>6 DEF a, b

(* The first row of an answer that has all the rows, or the first alone.   *)
LEMMA FirstOf ==
    ASSUME NEW X, NEW s \in Seq(X)
    PROVE  /\ Records!Part(s, 0, 1) = IF s = <<>> THEN <<>> ELSE <<s[1]>>
           /\ Records!Part(Records!Part(s, 0, 1), 0, 1)
                = Records!Part(s, 0, 1)
<1>1. Records!Part(<<>>, 0, 1) = <<>>
  BY DEF Records!Part
<1>2. ASSUME NEW x
      PROVE  Records!Part(<<x>>, 0, 1) = <<x>>
  <2>1. <<x>> \in Seq({x}) /\ Len(<<x>>) = 1
    OBVIOUS
  <2>2. Records!Part(<<x>>, 0, 1) = SubSeq(<<x>>, 1, Len(<<x>>))
    BY <2>1 DEF Records!Part
  <2>3. SubSeq(<<x>>, 1, Len(<<x>>)) = <<x>>
    BY <2>1, OneMore, 1 \in DOMAIN <<x>>
  <2>. QED
    BY <2>2, <2>3
<1>3. ASSUME s # <<>>
      PROVE  Records!Part(s, 0, 1) = <<s[1]>>
  <2>1. Len(s) \in Nat /\ Len(s) >= 1
    BY <1>3
  <2>2. Records!Part(s, 0, 1) = SubSeq(s, 1, 1)
    BY <2>1 DEF Records!Part
  <2>. QED
    BY <2>1, <2>2
<1>. QED
  BY <1>1, <1>2, <1>3

(* A request that is served leaves its job as it should be.                *)
LEMMA ServedJob ==
    ASSUME NEW j, NEW l \in Nat, DOMAIN table \subseteq Records!Ids,
           Records!JobGoes(j, DOMAIN table, l), j.at = "sent",
           Records!Full =>
                /\ j.op # "upsertRecord"
                /\ \A n \in DOMAIN j.items : j.items[n] # Records!NoTarget,
           NEW s, s = Records!Serving(j), PageSize \in Nat \ {0},
           NEW w, DOMAIN w = DOMAIN Records!Idle,
           w.op = j.op, w.items = j.items, w.i = j.i, w.out = j.out,
           w.total = j.total,
           w.at = IF s.refused THEN "refused" ELSE "answered",
           ~s.refused => w.reply = s.rows, w.log = j.log \o s.log,
           w.undisturbed => j.undisturbed /\ s.table = table
    PROVE  /\ Records!JobGoes(w, DOMAIN s.table, l)
           /\ DOMAIN s.table \subseteq Records!Ids
<1>. DEFINE id == j.items[j.i]
<1>0. /\ j.op \in Records!Operations /\ j.items \in Records!Items(j.op)
      /\ j.op \notin Records!Loops => j.i = 1
  BY DEF Records!JobGoes
<1>1. j.items \in Seq(0 .. 5)
  BY <1>0, ItemsAre
<1>2. ASSUME j.op \in Records!Loops
      PROVE  Records!JobGoes(w, DOMAIN s.table, l) /\ DOMAIN s.table \subseteq Records!Ids
  <2>1. /\ j.i \in DOMAIN j.items
        /\ j.log = SubSeq(j.items, 1, j.i - 1)
        /\ j.op \in Records!Creating => j.out = SubSeq(j.items, 1, j.i - 1)
    BY <1>2 DEF Records!JobGoes, Records!LoopGoes
  <2>2. id \in 1 .. 5
    <3>1. j.items \in {<<>>, <<1, 2>>, <<2, 4>>, <<4, 2>>}
      BY <1>0, <1>2, ItemsAre
    <3>2. j.items # <<>>
      BY <2>1
    <3>3. PICK a \in 1 .. 5, b \in 1 .. 5 : j.items = <<a, b>>
      BY <3>1, <3>2
    <3>4. j.i \in {1, 2}
      BY <2>1, <3>3
    <3>. QED
      BY <3>3, <3>4
  <2>3. /\ IF s.refused THEN s.table = table /\ s.log = <<>>
           ELSE /\ s.log = <<id>>
                /\ j.op \in Records!Creating => s.rows = <<id>>
        /\ DOMAIN s.table \subseteq DOMAIN table \cup {id}
    <3>1. CASE j.op \in Records!Creating
      <4>1. s = Records!ServeCreate(id)
        BY <3>1, ServingIs
      <4>. QED
        BY <4>1, Served
    <3>2. CASE j.op \in Records!Deleting
      <4>1. s = Records!ServeDelete(id)
        BY <3>2, ServingIs
      <4>2. j.op \notin Records!Creating
        BY <3>2 DEF Records!Creating, Records!Deleting
      <4>. QED
        BY <4>1, <4>2, Served
    <3>. QED
      BY <1>2, <3>1, <3>2 DEF Records!Loops
  <2>4. DOMAIN s.table \subseteq Records!Ids
    BY <2>2, <2>3 DEF Records!Ids
  <2>5. IF s.refused THEN w.log = SubSeq(j.items, 1, j.i - 1)
        ELSE w.log = SubSeq(j.items, 1, j.i)
    <3>1. SubSeq(j.items, 1, j.i - 1) \in Seq(0 .. 5)
      BY <1>1, <2>1
    <3>2. CASE s.refused
      <4>1. j.log \o <<>> = j.log
        BY <2>1, <3>1
      <4>. QED
        BY <2>1, <2>3, <3>2, <4>1
    <3>3. CASE ~s.refused
      <4>1. w.log = SubSeq(j.items, 1, j.i - 1) \o <<id>>
        BY <2>1, <2>3, <3>3
      <4>. QED
        BY <1>1, <2>1, <3>3, <4>1, OneMore
    <3>. QED
      BY <3>2, <3>3
  <2>6. Records!LoopGoes(w, l)
    BY <2>1, <2>3, <2>5 DEF Records!LoopGoes
  <2>7. /\ w.op \notin Records!Batches \cup Records!Writes
        /\ w.op \notin {"walk", "exists", "countRecords", "first", "last"}
    BY <1>2, SetsApart
  <2>8. /\ Records!BatchGoes(w, l) /\ Records!WriteGoes(w, l)
        /\ Records!WalkGoes(w, DOMAIN s.table)
        /\ Records!ReadGoes(w, DOMAIN s.table)
    BY <2>7 DEF Records!BatchGoes, Records!WriteGoes, Records!WalkGoes,
       Records!ReadGoes
  <2>. QED
    BY <1>0, <1>2, <2>4, <2>6, <2>8 DEF Records!JobGoes
<1>3. ASSUME j.op \in Records!Batches
      PROVE  Records!JobGoes(w, DOMAIN s.table, l) /\ DOMAIN s.table \subseteq Records!Ids
  <2>1. /\ j.items \in {<<>>, <<1, 2>>, <<2, 4>>, <<4, 2>>, <<1, 0>>, <<0, 4>>}
        /\ j.op = "insertMany" => j.items \in {<<>>, <<1, 2>>, <<2, 4>>, <<4, 2>>}
    BY <1>0, <1>3, ItemsAre
  <2>2. j.op \in {"insertMany", "upsertMany"}
    BY <1>3 DEF Records!Batches
  <2>3. j.log = <<>>
    BY <1>3 DEF Records!JobGoes, Records!BatchGoes
  <2>4. LET i == Records!ServeInsert(j.items)
            u == Records!ServeUpserts(j.items)
        IN  /\ IF i.refused THEN i.table = table /\ i.log = <<>>
               ELSE i.rows = j.items /\ i.log = j.items
            /\ j.items \in {<<>>, <<1, 2>>, <<2, 4>>, <<4, 2>>} =>
                    DOMAIN i.table \subseteq Records!Ids
            /\ Records!AsTargeted(u.log, Records!Good(j.items))
            /\ ~u.refused => /\ u.rows = u.log
                             /\ Records!AsTargeted(u.log, j.items)
            /\ DOMAIN u.table \subseteq Records!Ids
            /\ u.log \in Seq(0 .. 5)
    <3>. DEFINE items == j.items
    <3>1. items \in {<<>>, <<1, 2>>, <<2, 4>>, <<4, 2>>, <<1, 0>>, <<0, 4>>}
      BY <2>1
    <3>2. Records!Full => \A n \in DOMAIN items : items[n] # Records!NoTarget
      OBVIOUS
    <3>. HIDE DEF items
    <3>3. LET i == Records!ServeInsert(items)
              u == Records!ServeUpserts(items)
          IN  /\ IF i.refused THEN i.table = table /\ i.log = <<>>
                 ELSE i.rows = items /\ i.log = items
              /\ items \in {<<>>, <<1, 2>>, <<2, 4>>, <<4, 2>>} =>
                      DOMAIN i.table \subseteq Records!Ids
              /\ Records!AsTargeted(u.log, Records!Good(items))
              /\ ~u.refused => /\ u.rows = u.log
                               /\ Records!AsTargeted(u.log, items)
              /\ DOMAIN u.table \subseteq Records!Ids
              /\ u.log \in Seq(0 .. 5)
      BY <3>1, <3>2, BatchServed
    <3>. QED
      BY <3>3 DEF items
  <2>5. ASSUME j.op = "insertMany"
        PROVE  Records!BatchGoes(w, l) /\ DOMAIN s.table \subseteq Records!Ids
    <3>1. s = Records!ServeInsert(j.items)
      BY <2>5, ServingIs
    <3>2. /\ IF s.refused THEN s.table = table /\ s.log = <<>>
             ELSE s.rows = j.items /\ s.log = j.items
          /\ DOMAIN s.table \subseteq Records!Ids
      BY <2>1, <2>4, <2>5, <3>1
    <3>3. w.log = s.log
      <4>1. <<>> \o j.items = j.items /\ <<>> \o <<>> = <<>>
        BY <1>1
      <4>. QED
        BY <2>3, <3>2, <4>1
    <3>4. Records!AsTargeted(j.items, j.items)
      BY DEF Records!AsTargeted
    <3>5. Records!BatchGoes(w, l)
      BY <2>5, <3>2, <3>3, <3>4 DEF Records!BatchGoes
    <3>. QED
      BY <3>2, <3>5
  <2>6. ASSUME j.op = "upsertMany"
        PROVE  Records!BatchGoes(w, l) /\ DOMAIN s.table \subseteq Records!Ids
    <3>1. s = Records!ServeUpserts(j.items)
      BY <2>6, ServingIs
    <3>2. /\ Records!AsTargeted(s.log, Records!Good(j.items))
          /\ ~s.refused => s.rows = s.log /\ Records!AsTargeted(s.log, j.items)
          /\ DOMAIN s.table \subseteq Records!Ids
          /\ s.log \in Seq(0 .. 5)
      BY <2>4, <3>1
    <3>3. w.log = s.log
      <4>1. <<>> \o s.log = s.log
        BY <3>2
      <4>. QED
        BY <2>3, <4>1
    <3>5. Records!BatchGoes(w, l)
      BY <2>6, <3>2, <3>3 DEF Records!BatchGoes
    <3>. QED
      BY <3>2, <3>5
  <2>7. /\ w.op \notin Records!Loops \cup Records!Writes
        /\ w.op \notin {"walk", "exists", "countRecords", "first", "last"}
    BY <1>3, SetsApart
  <2>8. /\ Records!LoopGoes(w, l) /\ Records!WriteGoes(w, l)
        /\ Records!WalkGoes(w, DOMAIN s.table)
        /\ Records!ReadGoes(w, DOMAIN s.table)
    BY <2>7 DEF Records!LoopGoes, Records!WriteGoes, Records!WalkGoes,
       Records!ReadGoes
  <2>. QED
    BY <1>0, <2>2, <2>5, <2>6, <2>7, <2>8 DEF Records!JobGoes, Records!BatchGoes
<1>4. ASSUME j.op \in Records!Writes
      PROVE  Records!JobGoes(w, DOMAIN s.table, l) /\ DOMAIN s.table \subseteq Records!Ids
  <2>1. j.items \in {<<1>>, <<2>>, <<4>>} /\ j.i = 1
    BY <1>0, <1>4, ItemsAre, SetsApart
  <2>2. id \in 1 .. 5
    BY <2>1
  <2>3. j.log = <<>>
    BY <1>4 DEF Records!JobGoes, Records!WriteGoes
  <2>4. PICK x : /\ x \in Records!Ids
                 /\ s.log \in {<<>>, <<x>>}
                 /\ DOMAIN s.table \subseteq DOMAIN table \cup {x}
                 /\ s.refused => s.log = <<>>
                 /\ ~s.refused => IF j.op = "deleteRecord" THEN s.log = <<x>>
                                  ELSE s.rows = s.log
    <3>1. CASE j.op = "createRecord"
      <4>1. s = Records!ServeCreate(id)
        BY <3>1, ServingIs
      <4>2. /\ id \in Records!Ids
            /\ IF s.refused THEN s.table = table /\ s.log = <<>>
               ELSE /\ s.rows = <<id>> /\ s.log = <<id>>
                    /\ DOMAIN s.table = DOMAIN table \cup {id}
        BY <2>2, <4>1, Served DEF Records!Ids
      <4>. HIDE DEF id
      <4>. QED
        BY <3>1, <4>2
    <3>2. CASE j.op \in {"updateRecord", "mergeRecord"}
      <4>1. s = Records!ServeUpdate(id)
        BY <3>2, ServingIs
      <4>2. /\ id \in Records!Ids /\ ~s.refused
            /\ s.rows = s.log /\ s.log \in {<<>>, <<id>>}
            /\ DOMAIN s.table = DOMAIN table
        <5>1. id \in Records!Ids
          BY <2>2 DEF Records!Ids
        <5>. HIDE DEF id
        <5>2. /\ ~s.refused
              /\ IF id \in DOMAIN table THEN s.rows = <<id>> /\ s.log = <<id>>
                 ELSE s.rows = <<>> /\ s.log = <<>>
              /\ DOMAIN s.table = DOMAIN table
          BY <4>1, Served DEF id
        <5>. QED
          BY <5>1, <5>2
      <4>. HIDE DEF id
      <4>. QED
        BY <3>2, <4>2
    <3>3. CASE j.op = "deleteRecord"
      <4>1. s = Records!ServeDelete(id)
        BY <3>3, ServingIs
      <4>2. /\ id \in Records!Ids /\ ~s.refused /\ s.log = <<id>>
            /\ DOMAIN s.table \subseteq DOMAIN table
        BY <2>2, <4>1, Served DEF Records!Ids
      <4>. HIDE DEF id
      <4>. QED
        BY <3>3, <4>2
    <3>4. CASE j.op = "upsertRecord"
      <4>. DEFINE x == Records!Fresh(DOMAIN table)
      <4>1. s = Records!Done(Records!With({x}), <<x>>, <<x>>)
        BY <3>4, ServingIs DEF Records!ServeUpsertTable
      <4>2. x \in Records!Ids
        BY <3>4, NotFull, FreshIs
      <4>. HIDE DEF x
      <4>3. /\ s.table = Records!With({x}) /\ s.rows = <<x>> /\ s.log = <<x>>
            /\ ~s.refused
        BY <4>1 DEF Records!Done
      <4>4. DOMAIN s.table = DOMAIN table \cup {x}
        BY <4>3 DEF Records!With
      <4>. QED
        BY <3>4, <4>2, <4>3, <4>4
    <3>. QED
      BY <1>4, <3>1, <3>2, <3>3, <3>4 DEF Records!Writes
  <2>5. w.log = s.log
    <3>1. <<>> \o <<>> = <<>> /\ <<>> \o <<x>> = <<x>>
      OBVIOUS
    <3>. QED
      BY <2>3, <2>4, <3>1
  <2>6. <<x>> # <<>>
    OBVIOUS
  <2>7. Records!WriteGoes(w, l)
    BY <2>4, <2>5, <2>6 DEF Records!WriteGoes
  <2>8. /\ w.op \notin Records!Loops \cup Records!Batches
        /\ w.op \notin {"walk", "exists", "countRecords", "first", "last"}
    BY <1>4, SetsApart
  <2>9. /\ Records!LoopGoes(w, l) /\ Records!BatchGoes(w, l)
        /\ Records!WalkGoes(w, DOMAIN s.table)
        /\ Records!ReadGoes(w, DOMAIN s.table)
    BY <2>8 DEF Records!LoopGoes, Records!BatchGoes, Records!WalkGoes,
       Records!ReadGoes
  <2>. QED
    BY <1>0, <2>1, <2>4, <2>7, <2>8, <2>9 DEF Records!JobGoes
<1>5. ASSUME j.op \in Records!Finds \cup Records!Reads \cup {"walk"}
      PROVE  Records!JobGoes(w, DOMAIN s.table, l) /\ DOMAIN s.table \subseteq Records!Ids
  <2>. DEFINE all == Records!InOrder(DOMAIN table)
  <2>0. PICK X : all \in Seq(X)
    <3>1. IsFiniteSet(1 .. 5)
      BY FS_Interval, 1 \in Int, 5 \in Int
    <3>2. IsFiniteSet(DOMAIN table)
      BY <3>1, FS_Subset DEF Records!Ids
    <3>. QED
      BY <3>2, InOrderIs
  <2>. DEFINE got ==
        CASE j.op \in {"getRecord", "exists"} ->
               (IF id \in DOMAIN table THEN <<id>> ELSE <<>>)
          [] j.op = "queryRecords" -> all
          [] j.op = "countRecords" \/ (j.op = "walk" /\ j.total = -1) ->
               (IF all = <<>> THEN <<>> ELSE <<Len(all)>>)
          [] j.op = "first" -> Records!Part(all, 0, 1)
          [] j.op = "last" ->
               Records!Part([n \in DOMAIN all |-> all[Len(all) - n + 1]], 0, 1)
          [] j.op = "queryRecordsWrapped" -> Records!Part(all, 0, PageSize)
          [] j.op = "walk" /\ j.total # -1 -> Records!Part(all, Len(j.out), PageSize)
  <2>1. s = Records!ServeRead(got)
    <3>. HIDE DEF all, id
    <3>. QED
      BY <1>5, ServingIs DEF Records!Finds, Records!Reads, all, id
  <2>2. s.table = table /\ s.rows = got /\ s.log = <<>> /\ ~s.refused
    <3>. HIDE DEF got
    <3>. QED
      BY <2>1, Served
  <2>3. /\ w.op \notin Records!Loops \cup Records!Batches \cup Records!Writes
        /\ w.op # "none"
    BY <1>5 DEF Records!Finds, Records!Reads, Records!Loops, Records!Creating,
       Records!Deleting, Records!Batches, Records!Writes
  <2>4. Records!LoopGoes(w, l) /\ Records!BatchGoes(w, l) /\ Records!WriteGoes(w, l)
    BY <2>3 DEF Records!LoopGoes, Records!BatchGoes, Records!WriteGoes
  <2>5. Records!WalkGoes(w, DOMAIN table)
    <3>. SUFFICES ASSUME j.op = "walk", w.undisturbed
                  PROVE  Records!WalkGoes(w, DOMAIN table)
      BY DEF Records!WalkGoes
    <3>1. Records!WalkGoes(j, DOMAIN table) /\ j.undisturbed
      BY DEF Records!JobGoes
    <3>2. w.reply = got /\ w.at = "answered"
      BY <2>2
    <3>3. CASE j.total = -1
      <4>1. got = IF all = <<>> THEN <<>> ELSE <<Len(all)>>
        BY <3>3
      <4>2. Records!Total(got) = Len(all)
        BY <2>0, <4>1 DEF Records!Total
      <4>. QED
        BY <3>1, <3>2, <3>3, <4>2 DEF Records!WalkGoes
    <3>4. CASE j.total # -1
      <4>1. got = Records!Part(all, Len(j.out), PageSize)
        BY <3>4
      <4>. QED
        BY <3>1, <3>2, <3>4, <4>1 DEF Records!WalkGoes
    <3>. QED
      BY <3>3, <3>4
  <2>6. Records!ReadGoes(w, DOMAIN table)
    <3>. SUFFICES ASSUME w.undisturbed
                  PROVE  Records!ReadGoes(w, DOMAIN table)
      BY DEF Records!ReadGoes
    <3>1. w.reply = got /\ w.at = "answered"
      BY <2>2
    <3>2. ASSUME j.op = "exists"
          PROVE  w.reply = IF w.items[1] \in DOMAIN table THEN w.items ELSE <<>>
      <4>1. j.items \in {<<1>>, <<2>>, <<4>>} /\ j.i = 1
        BY <1>0, <3>2, ItemsAre, SetsApart DEF Records!Finds
      <4>2. got = IF id \in DOMAIN table THEN <<id>> ELSE <<>>
        BY <3>2
      <4>3. w.items = <<id>> /\ w.items[1] = id
        BY <4>1
      <4>. HIDE DEF id, got
      <4>. QED
        BY <3>1, <4>2, <4>3
    <3>3. ASSUME j.op = "countRecords"
          PROVE  Records!Total(w.reply) = Len(all)
      <4>1. got = IF all = <<>> THEN <<>> ELSE <<Len(all)>>
        BY <3>3
      <4>. HIDE DEF got
      <4>2. Records!Total(got) = Len(all)
        BY <2>0, <4>1 DEF Records!Total
      <4>. QED
        BY <3>1, <4>2
    <3>4. ASSUME j.op = "first"
          PROVE  w.reply = Records!Part(all, 0, 1)
      BY <3>1, <3>4
    <3>5. ASSUME j.op = "last"
          PROVE  w.reply = IF all = <<>> THEN <<>> ELSE <<all[Len(all)]>>
      <4>. DEFINE back == [n \in DOMAIN all |-> all[Len(all) - n + 1]]
      <4>1. got = Records!Part(back, 0, 1)
        BY <3>5
      <4>2. /\ back \in Seq(X)
            /\ back = <<>> <=> all = <<>>
            /\ all # <<>> => back[1] = all[Len(all)]
        <5>1. all = <<>> \/ (Len(all) \in Nat /\ Len(all) >= 1)
          BY <2>0
        <5>2. DOMAIN all = 1 .. Len(all) /\ Len(all) \in Nat
          BY <2>0
        <5>. HIDE DEF all
        <5>3. \A n \in 1 .. Len(all) : all[Len(all) - n + 1] \in X
          BY <2>0, <5>2
        <5>4. back \in Seq(X) /\ Len(back) = Len(all)
          BY <5>2, <5>3
        <5>. QED
          BY <2>0, <5>1, <5>2, <5>4
      <4>. HIDE DEF back
      <4>3. Records!Part(back, 0, 1) = IF back = <<>> THEN <<>> ELSE <<back[1]>>
        BY <4>2, FirstOf
      <4>. QED
        BY <3>1, <4>1, <4>2, <4>3
    <3>. HIDE DEF got
    <3>. QED
      BY <3>1, <3>2, <3>3, <3>4, <3>5 DEF Records!ReadGoes
  <2>. QED
    BY <1>0, <2>2, <2>3, <2>4, <2>5, <2>6 DEF Records!JobGoes
<1>. QED
  BY <1>0, <1>2, <1>3, <1>4, <1>5 DEF Records!Operations

(* No function has been called at first.                                   *)
LEMMA RecordsInitially ==
    ASSUME Records!Init, Records!RecordsAssumption
    PROVE  Records!TypeOK /\ Records!RecordsInv
<1>1. /\ DOMAIN Records!Idle = DOMAIN Records!Idle
      /\ Records!Idle.at = "idle" /\ Records!Idle.op = "none"
  BY DEF Records!Idle, Records!Job
<1>2. \A T, l : Records!JobGoes(Records!Idle, T, l)
  BY <1>1, SetsApart DEF Records!JobGoes, Records!LoopGoes, Records!BatchGoes,
     Records!WriteGoes, Records!WalkGoes, Records!ReadGoes
<1>3. DOMAIN jobs = Tasks /\ \A t \in Tasks : jobs[t] = Records!Idle
  BY DEF Records!Init
<1>4. Records!RecordsInv
  BY <1>2, <1>3 DEF Records!RecordsInv
<1>5. DOMAIN table \subseteq Records!Ids
  BY DEF Records!Init, Records!Ids
<1>6. Records!TypeOK
  BY <1>1, <1>3, <1>5 DEF Records!TypeOK, Records!Init, Records!RecordsAssumption
<1>. QED
  BY <1>4, <1>6

(* A call is made.                                                         *)
LEMMA StartStep ==
    ASSUME Records!TypeOK, Records!RecordsInv, Records!RecordsAssumption,
           NEW t \in Tasks, Records!Start(t)
    PROVE  (Records!TypeOK /\ Records!RecordsInv)'
<1>0. PICK op \in Records!Operations : \E items \in Records!Items(op) :
        jobs' = [jobs EXCEPT ![t] =
            IF op \in Records!Loops \cup Records!Batches /\ items = <<>>
            THEN [Records!Job(op, items) EXCEPT !.at = "returned"]
            ELSE Records!Job(op, items)]
  BY Zenon DEF Records!Start
<1>1. PICK items \in Records!Items(op) :
        jobs' = [jobs EXCEPT ![t] =
            IF op \in Records!Loops \cup Records!Batches /\ items = <<>>
            THEN [Records!Job(op, items) EXCEPT !.at = "returned"]
            ELSE Records!Job(op, items)]
  BY <1>0
<1>2. table' = table /\ lost' = lost
  BY DEF Records!Start
<1>. DEFINE w == IF op \in Records!Loops \cup Records!Batches /\ items = <<>>
                 THEN [Records!Job(op, items) EXCEPT !.at = "returned"]
                 ELSE Records!Job(op, items)
<1>3. /\ DOMAIN w = DOMAIN Records!Idle
      /\ w.op = op /\ w.items = items /\ w.i = 1 /\ w.log = <<>>
      /\ w.out = <<>> /\ w.total = -1
      /\ w.at = IF op \in Records!Loops \cup Records!Batches /\ items = <<>>
                THEN "returned" ELSE "sent"
  BY DEF Records!Job, Records!Idle
<1>4. jobs' = [jobs EXCEPT ![t] = w]
  BY <1>1
<1>. HIDE DEF w
<1>5. items \in Seq(0 .. 5)
  BY ItemsAre
<1>6. Records!LoopGoes(w, lost)
  <2>. SUFFICES ASSUME op \in Records!Loops PROVE Records!LoopGoes(w, lost)
    BY <1>3 DEF Records!LoopGoes
  <2>1. CASE items = <<>>
    BY <1>3, <2>1 DEF Records!LoopGoes
  <2>2. CASE items # <<>>
    <3>1. 1 \in DOMAIN items /\ SubSeq(items, 1, 0) = <<>>
      BY <1>5, <2>2
    <3>. QED
      BY <1>3, <2>2, <3>1 DEF Records!LoopGoes
  <2>. QED
    BY <2>1, <2>2
<1>7. Records!BatchGoes(w, lost)
  <2>1. items = <<>> => Records!AsTargeted(<<>>, items)
    BY DEF Records!AsTargeted
  <2>. QED
    BY <1>3, <2>1 DEF Records!BatchGoes
<1>8. Records!WriteGoes(w, lost)
  BY <1>3, SetsApart DEF Records!WriteGoes
<1>9. Records!WalkGoes(w, DOMAIN table)
  BY <1>3, SetsApart DEF Records!WalkGoes
<1>10. Records!ReadGoes(w, DOMAIN table)
  BY <1>3, SetsApart DEF Records!ReadGoes
<1>11. Records!JobGoes(w, DOMAIN table, lost)
  BY <1>3, <1>6, <1>7, <1>8, <1>9, <1>10 DEF Records!JobGoes
<1>12. lost \in 0 .. MaxLost
  BY DEF Records!TypeOK
<1>13. lost <= MaxLost
  BY <1>12 DEF Records!RecordsAssumption
<1>. QED
  BY <1>2, <1>3, <1>4, <1>11, <1>13, JobMoves

(* The server carries out a request.                                       *)
LEMMA ServeStep ==
    ASSUME Records!TypeOK, Records!RecordsInv, Records!RecordsAssumption,
           NEW t \in Tasks, Records!Serve(t)
    PROVE  (Records!TypeOK /\ Records!RecordsInv)'
<1>. DEFINE j == jobs[t]
            s == Records!Serving(j)
            d == Records!Disturb(s.table)
            w == jobs'[t]
<1>1. /\ j.at = "sent" /\ table' = s.table /\ lost' = lost
      /\ Records!Full =>
            /\ j.op # "upsertRecord"
            /\ \A n \in DOMAIN j.items : j.items[n] # Records!NoTarget
      /\ jobs' = [d EXCEPT
           ![t].at = IF s.refused THEN "refused" ELSE "answered",
           ![t].reply = s.rows, ![t].log = @ \o s.log]
  BY DEF Records!Serve
<1>2. /\ DOMAIN jobs = Tasks
      /\ \A u \in Tasks : Records!JobGoes(jobs[u], DOMAIN table, lost)
      /\ lost \in Nat /\ DOMAIN table \subseteq Records!Ids
  BY DEF Records!RecordsInv, Records!TypeOK, Records!RecordsAssumption
<1>3. /\ DOMAIN d = Tasks
      /\ \A u \in Tasks :
            d[u] = IF jobs[u].at = "idle" \/ s.table = table THEN jobs[u]
                   ELSE [jobs[u] EXCEPT !.undisturbed = FALSE]
  BY DEF Records!Disturb
<1>4. \A u \in Tasks : DOMAIN jobs[u] = {"op", "items", "at", "i", "log",
                                "reply", "out", "total", "undisturbed"}
  BY <1>2 DEF Records!JobGoes, Records!Idle, Records!Job
<1>5. /\ DOMAIN d[t] = DOMAIN j
      /\ d[t].op = j.op /\ d[t].items = j.items /\ d[t].i = j.i
      /\ d[t].out = j.out /\ d[t].total = j.total /\ d[t].log = j.log
      /\ d[t].undisturbed => j.undisturbed /\ s.table = table
  BY <1>1, <1>3, <1>4
<1>. HIDE DEF d, s
<1>6. /\ DOMAIN jobs' = Tasks
      /\ \A u \in Tasks \ {t} : jobs'[u] = d[u]
      /\ w = [[[d[t] EXCEPT !.at = IF s.refused THEN "refused" ELSE "answered"]
                    EXCEPT !.reply = s.rows] EXCEPT !.log = d[t].log \o s.log]
  BY <1>1, <1>3, <1>4, <1>5
<1>7. /\ DOMAIN w = DOMAIN Records!Idle
      /\ w.op = j.op /\ w.items = j.items /\ w.i = j.i /\ w.out = j.out
      /\ w.total = j.total
      /\ w.at = IF s.refused THEN "refused" ELSE "answered"
      /\ w.reply = s.rows /\ w.log = j.log \o s.log
      /\ w.undisturbed => j.undisturbed /\ s.table = table
  <2>. HIDE DEF w
  <2>1. DOMAIN d[t] = DOMAIN Records!Idle
    BY <1>2, <1>5 DEF Records!JobGoes
  <2>. QED
    BY <1>4, <1>5, <1>6, <2>1
<1>8. /\ Records!JobGoes(w, DOMAIN s.table, lost)
      /\ DOMAIN s.table \subseteq Records!Ids
  <2>. HIDE DEF w, j
  <2>. QED
    BY <1>1, <1>2, <1>7, ServedJob DEF s, j, Records!RecordsAssumption
<1>9. \A u \in Tasks \ {t} : Records!JobGoes(jobs'[u], DOMAIN s.table, lost)
  <2>. SUFFICES ASSUME NEW u \in Tasks \ {t}
                PROVE  Records!JobGoes(d[u], DOMAIN s.table, lost)
    BY <1>6
  <2>1. CASE s.table = table
    BY <1>2, <1>3, <2>1
  <2>2. CASE s.table # table /\ jobs[u].at # "idle"
    BY <1>2, <1>3, <2>2, JobStays
  <2>3. CASE jobs[u].at = "idle"
    <3>1. d[u] = jobs[u] /\ jobs[u].op = "none"
      BY <1>2, <1>3, <2>3 DEF Records!JobGoes
    <3>2. Records!JobGoes(jobs[u], DOMAIN table, lost)
      BY <1>2
    <3>. QED
      BY <2>3, <3>1, <3>2, SetsApart DEF Records!JobGoes, Records!LoopGoes,
         Records!BatchGoes, Records!WriteGoes, Records!WalkGoes,
         Records!ReadGoes
  <2>. QED
    BY <2>1, <2>2, <2>3
<1>10. Records!RecordsInv'
  <2>1. \A u \in Tasks : Records!JobGoes(jobs'[u], DOMAIN table', lost')
    BY <1>1, <1>8, <1>9
  <2>. QED
    BY <1>6, <2>1 DEF Records!RecordsInv
<1>11. ASSUME NEW u \in Tasks
       PROVE  /\ jobs'[u].at \in {"idle", "sent", "answered", "refused", "lost",
                                  "returned", "failed"}
              /\ jobs'[u].op \in Records!Operations \cup {"none"}
  <2>1. jobs[u].at \in {"idle", "sent", "answered", "refused", "lost",
                                  "returned", "failed"}
        /\ jobs[u].op \in Records!Operations \cup {"none"}
    BY DEF Records!TypeOK
  <2>2. CASE u = t
    <3>1. j.op \in Records!Operations \cup {"none"}
      BY <2>1, <2>2
    <3>. QED
      BY <1>7, <2>2, <3>1
  <2>3. CASE u # t
    <3>1. jobs'[u] = d[u]
      BY <1>6, <2>3
    <3>2. d[u].at = jobs[u].at /\ d[u].op = jobs[u].op
      BY <1>3, <1>4
    <3>. QED
      BY <2>1, <3>1, <3>2
  <2>. QED
    BY <2>2, <2>3
<1>12. Records!TypeOK'
  BY <1>1, <1>8, <1>11 DEF Records!TypeOK
<1>. QED
  BY <1>10, <1>12

(* A call whose request or answer is lost, and one that throws.            *)
LEMMA LostJob ==
    ASSUME NEW j, NEW T, NEW l \in Nat, Records!JobGoes(j, T, l),
           j.at \in {"sent", "answered", "refused"}
    PROVE  Records!JobGoes([j EXCEPT !.at = "lost"], T, l + 1)
<1>. DEFINE w == [j EXCEPT !.at = "lost"]
<1>1. DOMAIN j = {"op", "items", "at", "i", "log", "reply", "out", "total",
                  "undisturbed"}
  BY DEF Records!JobGoes, Records!Idle, Records!Job
<1>2. /\ DOMAIN w = DOMAIN j /\ w.at = "lost"
      /\ w.op = j.op /\ w.items = j.items /\ w.i = j.i
      /\ w.log = j.log /\ w.reply = j.reply /\ w.out = j.out
      /\ w.total = j.total /\ w.undisturbed = j.undisturbed
  BY <1>1
<1>. HIDE DEF w
<1>3. l + 1 > 0
  OBVIOUS
<1>4. Records!LoopGoes(w, l + 1)
  BY <1>2, <1>3 DEF Records!JobGoes, Records!LoopGoes
<1>5. Records!BatchGoes(w, l + 1) /\ Records!WriteGoes(w, l + 1)
  BY <1>2 DEF Records!BatchGoes, Records!WriteGoes
<1>6. Records!WalkGoes(w, T)
  BY <1>2 DEF Records!JobGoes, Records!WalkGoes
<1>7. Records!ReadGoes(w, T)
  BY <1>2 DEF Records!ReadGoes
<1>8. Records!JobGoes(w, T, l + 1)
  BY <1>2, <1>3, <1>4, <1>5, <1>6, <1>7 DEF Records!JobGoes
<1>. QED
  BY <1>8 DEF w

(* A call that throws.                                                     *)
LEMMA ThrownJob ==
    ASSUME NEW j, NEW T, NEW l \in Nat, Records!JobGoes(j, T, l),
           \/ j.at \in {"refused", "lost"}
           \/ /\ j.at = "answered" /\ j.op \in Records!Writes
              /\ j.op # "deleteRecord" /\ j.reply = <<>>
    PROVE  Records!JobGoes([j EXCEPT !.at = "failed"], T, l)
<1>. DEFINE w == [j EXCEPT !.at = "failed"]
<1>1. DOMAIN j = {"op", "items", "at", "i", "log", "reply", "out", "total",
                  "undisturbed"}
  BY DEF Records!JobGoes, Records!Idle, Records!Job
<1>2. /\ DOMAIN w = DOMAIN j /\ w.at = "failed"
      /\ w.op = j.op /\ w.items = j.items /\ w.i = j.i
      /\ w.log = j.log /\ w.reply = j.reply /\ w.out = j.out
      /\ w.total = j.total /\ w.undisturbed = j.undisturbed
  BY <1>1
<1>. HIDE DEF w
<1>3. Records!LoopGoes(w, l)
  BY <1>2, SetsApart DEF Records!JobGoes, Records!LoopGoes
<1>4. Records!BatchGoes(w, l)
  BY <1>2, SetsApart DEF Records!JobGoes, Records!BatchGoes
<1>5. Records!WriteGoes(w, l)
  BY <1>2 DEF Records!JobGoes, Records!WriteGoes
<1>6. Records!WalkGoes(w, T)
  BY <1>2 DEF Records!JobGoes, Records!WalkGoes
<1>7. Records!ReadGoes(w, T)
  BY <1>2 DEF Records!ReadGoes
<1>8. Records!JobGoes(w, T, l)
  BY <1>2, <1>3, <1>4, <1>5, <1>6, <1>7 DEF Records!JobGoes
<1>. QED
  BY <1>8 DEF w

(* A call that returns what it does of the rows of its one answer.         *)
LEMMA ReturnedJob ==
    ASSUME NEW j, NEW T, IsFiniteSet(T), NEW l \in Nat, Records!JobGoes(j, T, l),
           j.at = "answered", NEW out,
           j.op \notin Records!Loops \cup {"walk"},
           j.op \in Records!Batches => out = j.reply,
           j.op \in Records!Writes => j.op = "deleteRecord" \/ j.reply # <<>>,
           j.op = "exists" =>
                out = IF Records!Part(j.reply, 0, 1) = <<>>
                      THEN << 0 >> ELSE << 1 >>,
           j.op = "countRecords" => out = <<Records!Total(j.reply)>>,
           j.op \in {"first", "last"} => out = Records!Part(j.reply, 0, 1)
    PROVE  Records!JobGoes([j EXCEPT !.out = out, !.at = "returned"], T, l)
<1>. DEFINE w == [j EXCEPT !.out = out, !.at = "returned"]
            all == Records!InOrder(T)
            end == IF all = <<>> THEN <<>> ELSE <<all[Len(all)]>>
<1>1. DOMAIN j = {"op", "items", "at", "i", "log", "reply", "out", "total",
                  "undisturbed"}
  BY DEF Records!JobGoes, Records!Idle, Records!Job
<1>2. /\ DOMAIN w = DOMAIN j /\ w.at = "returned"
      /\ w.op = j.op /\ w.items = j.items /\ w.i = j.i
      /\ w.log = j.log /\ w.reply = j.reply /\ w.out = out
      /\ w.total = j.total /\ w.undisturbed = j.undisturbed
  BY <1>1
<1>. HIDE DEF w
<1>3. Records!LoopGoes(w, l)
  BY <1>2 DEF Records!LoopGoes
<1>4. Records!BatchGoes(w, l)
  BY <1>2 DEF Records!JobGoes, Records!BatchGoes
<1>5. Records!WriteGoes(w, l)
  BY <1>2 DEF Records!JobGoes, Records!WriteGoes
<1>6. Records!WalkGoes(w, T)
  BY <1>2 DEF Records!WalkGoes
<1>7. Records!ReadGoes(w, T)
  <2>1. PICK X : all \in Seq(X)
    BY InOrderIs
  <2>. SUFFICES ASSUME j.undisturbed PROVE Records!ReadGoes(w, T)
    BY <1>2 DEF Records!ReadGoes
  <2>2. /\ j.op = "exists" =>
                j.reply = IF j.items[1] \in T THEN j.items ELSE <<>>
        /\ j.op = "countRecords" => Records!Total(j.reply) = Len(all)
        /\ j.op = "first" => j.reply = Records!Part(all, 0, 1)
        /\ j.op = "last" => j.reply = end
    BY DEF Records!JobGoes, Records!ReadGoes
  <2>3. ASSUME j.op = "exists"
        PROVE  out = IF j.items[1] \in T THEN <<1>> ELSE <<0>>
    <3>1. j.items \in {<<1>>, <<2>>, <<4>>}
      <4>1. j.op \in Records!Finds
        BY <2>3 DEF Records!Finds
      <4>2. j.op \in Records!Operations /\ j.items \in Records!Items(j.op)
        BY DEF Records!JobGoes
      <4>. QED
        BY <4>1, <4>2, ItemsAre
    <3>2. /\ Records!Part(<<>>, 0, 1) = <<>>
          /\ Records!Part(j.items, 0, 1) # <<>>
      <4>1. <<>> \in Seq(Nat) /\ j.items \in Seq(Nat) /\ j.items # <<>>
        <5>1. /\ <<>> \in Seq(Nat)
              /\ <<1>> \in Seq(Nat) /\ <<1>> # <<>>
              /\ <<2>> \in Seq(Nat) /\ <<2>> # <<>>
              /\ <<4>> \in Seq(Nat) /\ <<4>> # <<>>
          OBVIOUS
        <5>. QED
          BY <3>1, <5>1
      <4>2. <<j.items[1]>> # <<>>
        OBVIOUS
      <4>. QED
        BY <4>1, <4>2, FirstOf
    <3>. QED
      BY <2>2, <2>3, <3>2
  <2>4. j.op = "countRecords" => out = <<Len(all)>>
    BY <2>2
  <2>5. j.op = "first" => out = Records!Part(all, 0, 1)
    BY <2>1, <2>2, FirstOf
  <2>6. ASSUME j.op = "last"
        PROVE  out = end
    <3>1. CASE all = <<>>
      <4>1. <<>> \in Seq(Nat)
        OBVIOUS
      <4>2. Records!Part(<<>>, 0, 1) = <<>>
        BY <4>1, FirstOf
      <4>. QED
        BY <2>2, <2>6, <3>1, <4>2
    <3>2. CASE all # <<>>
      <4>1. <<all[Len(all)]>> \in Seq(X) /\ <<all[Len(all)]>> # <<>>
            /\ <<all[Len(all)]>>[1] = all[Len(all)]
        BY <2>1, <3>2
      <4>2. Records!Part(<<all[Len(all)]>>, 0, 1) = <<all[Len(all)]>>
        BY <4>1, FirstOf
      <4>. QED
        BY <2>2, <2>6, <3>2, <4>2
    <3>. QED
      BY <3>1, <3>2
  <2>. HIDE DEF all, end
  <2>. QED
    BY <1>2, <2>3, <2>4, <2>5, <2>6 DEF Records!ReadGoes, all, end
<1>8. Records!JobGoes(w, T, l)
  <2>1. j.op \in Records!Operations /\ j.items \in Records!Items(j.op)
    BY DEF Records!JobGoes
  <2>. QED
    BY <1>2, <1>3, <1>4, <1>5, <1>6, <1>7, <2>1 DEF Records!JobGoes
<1>. QED
  BY <1>8 DEF w

(* A loop that goes on to its next item, or returns after the last one.    *)
LEMMA LoopedJob ==
    ASSUME NEW j, NEW T, NEW l \in Nat, Records!JobGoes(j, T, l),
           j.at = "answered", j.op \in Records!Loops,
           NEW w, w = IF j.i < Len(j.items)
                THEN [j EXCEPT !.out = j.out \o j.reply, !.i = @ + 1,
                               !.at = "sent"]
                ELSE [j EXCEPT !.out = j.out \o j.reply, !.at = "returned"]
    PROVE  Records!JobGoes(w, T, l) /\ w.at \in {"sent", "returned"}
<1>. DEFINE more == j.i < Len(j.items)
            out == j.out \o j.reply
<1>1. DOMAIN j = {"op", "items", "at", "i", "log", "reply", "out", "total",
                  "undisturbed"}
  BY DEF Records!JobGoes, Records!Idle, Records!Job
<1>2. /\ DOMAIN w = DOMAIN j /\ w.at = IF more THEN "sent" ELSE "returned"
      /\ w.op = j.op /\ w.items = j.items
      /\ w.i = IF more THEN j.i + 1 ELSE j.i
      /\ w.log = j.log /\ w.reply = j.reply /\ w.out = out
      /\ w.total = j.total /\ w.undisturbed = j.undisturbed
  <2>. HIDE DEF out
  <2>1. CASE more
    BY <1>1, <2>1 DEF out
  <2>2. CASE ~more
    BY <1>1, <2>2 DEF out
  <2>. QED
    BY <2>1, <2>2
<1>3. j.op \in Records!Operations /\ j.items \in Records!Items(j.op)
  BY DEF Records!JobGoes
<1>4. j.items \in Seq(0 .. 5)
  BY <1>3, ItemsAre
<1>5. /\ j.i \in DOMAIN j.items
      /\ j.log = SubSeq(j.items, 1, j.i)
      /\ j.op \in Records!Creating =>
            /\ j.out = SubSeq(j.items, 1, j.i - 1)
            /\ j.reply = <<j.items[j.i]>>
  BY DEF Records!JobGoes, Records!LoopGoes
<1>6. j.op \in Records!Creating => out = SubSeq(j.items, 1, j.i)
  <2>1. SubSeq(j.items, 1, j.i - 1) \o <<j.items[j.i]>>
            = SubSeq(j.items, 1, j.i)
    BY <1>4, <1>5, OneMore
  <2>. QED
    BY <1>5, <2>1
<1>. HIDE DEF out
<1>7. Records!LoopGoes(w, l)
  <2>1. CASE more
    <3>1. /\ w.i = j.i + 1 /\ w.i \in DOMAIN j.items /\ w.i - 1 = j.i
          /\ w.at = "sent"
      BY <1>2, <1>4, <1>5, <2>1
    <3>. QED
      BY <1>2, <1>5, <1>6, <3>1 DEF Records!LoopGoes
  <2>2. CASE ~more
    <3>1. j.i = Len(j.items) /\ w.at = "returned"
      BY <1>2, <1>4, <1>5, <2>2
    <3>2. SubSeq(j.items, 1, j.i) = j.items
      BY <1>4, <1>5, <3>1, OneMore
    <3>. QED
      BY <1>2, <1>5, <1>6, <3>1, <3>2 DEF Records!LoopGoes
  <2>. QED
    BY <2>1, <2>2
<1>8. w.op \notin Records!Batches \cup Records!Writes
      /\ w.op \notin {"walk", "exists", "countRecords", "first", "last"}
  BY <1>2, SetsApart
<1>9. /\ Records!BatchGoes(w, l) /\ Records!WriteGoes(w, l)
      /\ Records!WalkGoes(w, T) /\ Records!ReadGoes(w, T)
  BY <1>8 DEF Records!BatchGoes, Records!WriteGoes, Records!WalkGoes,
     Records!ReadGoes
<1>. QED
  BY <1>2, <1>3, <1>7, <1>9 DEF Records!JobGoes

(* A walk that has counted, or that has read another page.                 *)
LEMMA WalkedJob ==
    ASSUME NEW j, NEW T, IsFiniteSet(T), NEW l \in Nat, Records!JobGoes(j, T, l),
           PageSize \in Nat \ {0}, j.at = "answered", j.op = "walk",
           NEW w, w = IF j.total = -1
                THEN [j EXCEPT !.total = Records!Total(j.reply), !.at = "sent"]
                ELSE [j EXCEPT !.out = j.out \o j.reply, !.at =
                        IF Records!HasMore(Len(j.out), j.reply, j.total)
                           /\ j.reply # <<>>
                        THEN "sent" ELSE "returned"]
    PROVE  Records!JobGoes(w, T, l) /\ w.at \in {"sent", "returned"}
<1>. DEFINE all == Records!InOrder(T)
            more == Records!HasMore(Len(j.out), j.reply, j.total) /\ j.reply # <<>>
            out == j.out \o j.reply
<1>1. DOMAIN j = {"op", "items", "at", "i", "log", "reply", "out", "total",
                  "undisturbed"}
  BY DEF Records!JobGoes, Records!Idle, Records!Job
<1>2. /\ DOMAIN w = DOMAIN j /\ w.op = j.op /\ w.items = j.items /\ w.i = j.i
      /\ w.log = j.log /\ w.reply = j.reply /\ w.undisturbed = j.undisturbed
      /\ j.total = -1 => /\ w.total = Records!Total(j.reply) /\ w.out = j.out
                         /\ w.at = "sent"
      /\ j.total # -1 => /\ w.total = j.total /\ w.out = out
                         /\ w.at = IF more THEN "sent" ELSE "returned"
  <2>. HIDE DEF out, more
  <2>1. CASE j.total = -1
    BY <1>1, <2>1
  <2>2. CASE j.total # -1
    BY <1>1, <2>2 DEF out, more
  <2>. QED
    BY <2>1, <2>2
<1>3. j.op \in Records!Operations /\ j.items \in Records!Items(j.op)
      /\ (j.op \notin Records!Loops => j.i = 1)
  BY DEF Records!JobGoes
<1>4. PICK X : all \in Seq(X)
  BY InOrderIs
<1>. HIDE DEF out, all
<1>5. Records!WalkGoes(w, T)
  <2>. SUFFICES ASSUME j.undisturbed PROVE Records!WalkGoes(w, T)
    BY <1>2 DEF Records!WalkGoes
  <2>0. Records!WalkGoes(j, T)
    BY DEF Records!JobGoes
  <2>1. CASE j.total = -1
    <3>1. j.out = <<>> /\ Records!Total(j.reply) = Len(all)
      BY <2>0, <2>1 DEF Records!WalkGoes, all
    <3>2. /\ Len(<<>>) = 0 /\ Len(<<>>) <= Len(all) /\ SubSeq(all, 1, 0) = <<>>
      BY <1>4
    <3>. HIDE DEF more
    <3>. QED
      BY <1>2, <2>1, <3>1, <3>2 DEF Records!WalkGoes, all
  <2>2. CASE j.total # -1
    <3>1. /\ j.total = Len(all) /\ Len(j.out) <= Len(all)
          /\ j.out = SubSeq(all, 1, Len(j.out))
          /\ j.reply = Records!Part(all, Len(j.out), PageSize)
      BY <2>0, <2>2 DEF Records!WalkGoes, all
    <3>2. Len(j.out) \in Nat
      BY <1>4, <3>1
    <3>3. /\ Len(out) \in Nat /\ Len(out) <= Len(all)
          /\ out = SubSeq(all, 1, Len(out))
          /\ j.reply = <<>> \/ ~(Len(j.out) + Len(j.reply) < Len(all)) =>
                out = all
      <4>1. PICK n \in 0 .. Len(all) : n = Len(j.out)
        BY <1>4, <3>1, <3>2
      <4>2. LET o == SubSeq(all, 1, n)
                p == Records!Part(all, n, PageSize)
            IN  /\ Len(o \o p) \in Nat /\ Len(o \o p) <= Len(all)
                /\ o \o p = SubSeq(all, 1, Len(o \o p))
                /\ p = <<>> \/ ~(n + Len(p) < Len(all)) => o \o p = all
        BY <1>4, PageFollows, Zenon
      <4>3. SubSeq(all, 1, n) = j.out
            /\ Records!Part(all, n, PageSize) = j.reply
        BY <3>1, <4>1
      <4>. QED
        BY <4>1, <4>2, <4>3, Zenon DEF out
    <3>4. ~more => out = all
      BY <3>1, <3>3 DEF Records!HasMore
    <3>. HIDE DEF more
    <3>5. /\ w.total = Len(all) /\ w.total # -1 /\ w.out = out
          /\ w.at = IF more THEN "sent" ELSE "returned"
      BY <1>2, <2>2, <3>1, Zenon
    <3>6. w.at # "answered" /\ (w.at = "returned" => ~more)
      BY <3>5
    <3>. QED
      BY <3>3, <3>4, <3>5, <3>6 DEF Records!WalkGoes, all
  <2>. QED
    BY <2>1, <2>2
<1>. HIDE DEF more
<1>6. w.op \notin Records!Loops \cup Records!Batches \cup Records!Writes
  BY <1>2, SetsApart
<1>7. /\ Records!LoopGoes(w, l) /\ Records!BatchGoes(w, l)
      /\ Records!WriteGoes(w, l) /\ Records!ReadGoes(w, T)
  BY <1>2, <1>6 DEF Records!LoopGoes, Records!BatchGoes, Records!WriteGoes,
     Records!ReadGoes
<1>8. w.at \in {"sent", "returned"}
  BY <1>2
<1>. QED
  BY <1>2, <1>3, <1>5, <1>7, <1>8 DEF Records!JobGoes

(* Each step of a call.                                                    *)
LEMMA CallsOf ==
    ASSUME Records!TypeOK, Records!RecordsInv, Records!RecordsAssumption
    PROVE  /\ lost \in Nat /\ lost <= MaxLost /\ PageSize \in Nat \ {0}
           /\ DOMAIN table \subseteq Records!Ids /\ IsFiniteSet(DOMAIN table)
           /\ \A t \in Tasks :
                /\ Records!JobGoes(jobs[t], DOMAIN table, lost)
                /\ DOMAIN jobs[t] = {"op", "items", "at", "i", "log", "reply",
                                     "out", "total", "undisturbed"}
<1>1. lost \in Nat /\ lost <= MaxLost /\ PageSize \in Nat \ {0}
  BY DEF Records!TypeOK, Records!RecordsAssumption
<1>2. DOMAIN table \subseteq Records!Ids
  BY DEF Records!TypeOK
<1>3. IsFiniteSet(DOMAIN table)
  <2>1. IsFiniteSet(1 .. 5)
    BY FS_Interval, 1 \in Int, 5 \in Int
  <2>. QED
    BY <1>2, <2>1, FS_Subset DEF Records!Ids
<1>4. \A t \in Tasks : Records!JobGoes(jobs[t], DOMAIN table, lost)
  BY DEF Records!RecordsInv
<1>5. \A t \in Tasks :
        DOMAIN jobs[t] = {"op", "items", "at", "i", "log", "reply", "out",
                          "total", "undisturbed"}
  BY <1>4 DEF Records!JobGoes, Records!Idle, Records!Job
<1>. QED
  BY <1>1, <1>2, <1>3, <1>4, <1>5

(* A request or its answer is lost.                                        *)
LEMMA LoseStep ==
    ASSUME Records!TypeOK, Records!RecordsInv, Records!RecordsAssumption,
           NEW t \in Tasks, Records!Lose(t)
    PROVE  (Records!TypeOK /\ Records!RecordsInv)'
<1>. DEFINE w == [jobs[t] EXCEPT !.at = "lost"]
<1>1. /\ jobs[t].at \in {"sent", "answered", "refused"}
      /\ lost < MaxLost /\ lost' = lost + 1 /\ table' = table
      /\ jobs' = [jobs EXCEPT ![t] = w]
  BY DEF Records!Lose
<1>2. Records!JobGoes(w, DOMAIN table, lost + 1)
  BY <1>1, CallsOf, LostJob
<1>3. w.at = "lost"
  BY CallsOf
<1>4. lost' <= MaxLost
  BY <1>1, CallsOf DEF Records!RecordsAssumption
<1>. HIDE DEF w
<1>. QED
  BY <1>1, <1>2, <1>3, <1>4, JobMoves

(* What was refused or lost is thrown.                                     *)
LEMMA ThrowStep ==
    ASSUME Records!TypeOK, Records!RecordsInv, Records!RecordsAssumption,
           NEW t \in Tasks, Records!Throw(t)
    PROVE  (Records!TypeOK /\ Records!RecordsInv)'
<1>. DEFINE w == [jobs[t] EXCEPT !.at = "failed"]
<1>1. /\ jobs[t].at \in {"refused", "lost"}
      /\ lost' = lost /\ table' = table
      /\ jobs' = [jobs EXCEPT ![t] = w]
  BY DEF Records!Throw
<1>2. Records!JobGoes(w, DOMAIN table, lost)
  BY <1>1, CallsOf, ThrownJob
<1>3. w.at = "failed"
  BY CallsOf
<1>. HIDE DEF w
<1>. QED
  BY <1>1, <1>2, <1>3, CallsOf, JobMoves

(* A call goes on with its answer.                                         *)
LEMMA ResumeStep ==
    ASSUME Records!TypeOK, Records!RecordsInv, Records!RecordsAssumption,
           NEW t \in Tasks, NEW w, Records!Resume(t, w),
           Records!JobGoes(w, DOMAIN table, lost),
           w.at \in {"sent", "returned", "failed"}
    PROVE  (Records!TypeOK /\ Records!RecordsInv)'
<1>1. jobs' = [jobs EXCEPT ![t] = w] /\ table' = table /\ lost' = lost
  BY DEF Records!Resume
<1>. QED
  BY <1>1, CallsOf, JobMoves

(* A loop goes on to its next item.                                        *)
LEMMA NextItemStep ==
    ASSUME Records!TypeOK, Records!RecordsInv, Records!RecordsAssumption,
           NEW t \in Tasks, Records!NextItem(t)
    PROVE  (Records!TypeOK /\ Records!RecordsInv)'
<1>. DEFINE j == jobs[t]
            w == IF j.i < Len(j.items)
                 THEN [j EXCEPT !.out = j.out \o j.reply, !.i = @ + 1,
                                !.at = "sent"]
                 ELSE [j EXCEPT !.out = j.out \o j.reply, !.at = "returned"]
<1>1. j.op \in Records!Loops /\ Records!Resume(t, w) /\ j.at = "answered"
  BY DEF Records!NextItem, Records!Collected, Records!Resume
<1>2. Records!JobGoes(w, DOMAIN table, lost) /\ w.at \in {"sent", "returned"}
  <2>. HIDE DEF j
  <2>1. Records!JobGoes(j, DOMAIN table, lost) /\ lost \in Nat
    BY CallsOf DEF j
  <2>. QED
    BY <1>1, <2>1, LoopedJob
<1>. HIDE DEF w
<1>. QED
  BY <1>1, <1>2, ResumeStep

(* A walk goes on to its next page.                                        *)
LEMMA WalkOnStep ==
    ASSUME Records!TypeOK, Records!RecordsInv, Records!RecordsAssumption,
           NEW t \in Tasks, Records!WalkOn(t)
    PROVE  (Records!TypeOK /\ Records!RecordsInv)'
<1>. DEFINE j == jobs[t]
            w == IF j.total = -1
                 THEN [j EXCEPT !.total = Records!Total(j.reply), !.at = "sent"]
                 ELSE [j EXCEPT !.out = j.out \o j.reply, !.at =
                        IF Records!HasMore(Len(j.out), j.reply, j.total)
                           /\ j.reply # <<>>
                        THEN "sent" ELSE "returned"]
<1>1. j.op = "walk" /\ Records!Resume(t, w) /\ j.at = "answered"
  BY DEF Records!WalkOn, Records!Collected, Records!Resume
<1>2. Records!JobGoes(w, DOMAIN table, lost) /\ w.at \in {"sent", "returned"}
  <2>. HIDE DEF j
  <2>1. /\ Records!JobGoes(j, DOMAIN table, lost) /\ lost \in Nat
        /\ PageSize \in Nat \ {0} /\ IsFiniteSet(DOMAIN table)
    BY CallsOf DEF j
  <2>. QED
    BY <1>1, <2>1, WalkedJob
<1>. HIDE DEF w
<1>. QED
  BY <1>1, <1>2, ResumeStep

(* A function that makes something of its one answer.                      *)
LEMMA ReturnsStep ==
    ASSUME Records!TypeOK, Records!RecordsInv, Records!RecordsAssumption,
           NEW t \in Tasks, NEW op, NEW out, Records!Returns(t, op, out),
           op \notin Records!Loops \cup {"walk"},
           op \in Records!Batches => out = jobs[t].reply,
           op \in Records!Writes => op = "deleteRecord" \/ jobs[t].reply # <<>>,
           op = "exists" =>
                out = IF Records!Part(jobs[t].reply, 0, 1) = <<>>
                      THEN << 0 >> ELSE << 1 >>,
           op = "countRecords" => out = <<Records!Total(jobs[t].reply)>>,
           op \in {"first", "last"} => out = Records!Part(jobs[t].reply, 0, 1)
    PROVE  (Records!TypeOK /\ Records!RecordsInv)'
<1>. DEFINE j == jobs[t]
            w == [j EXCEPT !.out = out, !.at = "returned"]
<1>1. j.op = op /\ Records!Resume(t, w) /\ j.at = "answered"
  BY DEF Records!Returns, Records!Resume
<1>2. Records!JobGoes(w, DOMAIN table, lost)
  <2>1. Records!JobGoes(j, DOMAIN table, lost) /\ lost \in Nat
        /\ IsFiniteSet(DOMAIN table)
    BY CallsOf
  <2>. HIDE DEF j
  <2>2. /\ j.op \notin Records!Loops \cup {"walk"}
        /\ j.op \in Records!Batches => out = j.reply
        /\ j.op \in Records!Writes => j.op = "deleteRecord" \/ j.reply # <<>>
        /\ j.op = "exists" =>
             out = IF Records!Part(j.reply, 0, 1) = <<>> THEN <<0>> ELSE <<1>>
        /\ j.op = "countRecords" => out = <<Records!Total(j.reply)>>
        /\ j.op \in {"first", "last"} => out = Records!Part(j.reply, 0, 1)
    BY <1>1, Zenon DEF j
  <2>. QED
    BY <1>1, <2>1, <2>2, ReturnedJob
<1>3. w.at = "returned"
  BY CallsOf
<1>. HIDE DEF w
<1>. QED
  BY <1>1, <1>2, <1>3, ResumeStep

(* A write that expects a row of its answer.                               *)
LEMMA NeedsRowStep ==
    ASSUME Records!TypeOK, Records!RecordsInv, Records!RecordsAssumption,
           NEW t \in Tasks, NEW op, op \in Records!Writes, op # "deleteRecord",
           Records!NeedsRow(t, op)
    PROVE  (Records!TypeOK /\ Records!RecordsInv)'
<1>1. CASE jobs[t].reply = <<>>
  <2>. DEFINE j == jobs[t]
              w == [j EXCEPT !.at = "failed"]
  <2>1. j.op = op /\ Records!Resume(t, w) /\ j.at = "answered"
    BY <1>1 DEF Records!NeedsRow, Records!Rows, Records!Fails, Records!Resume
  <2>2. Records!JobGoes(w, DOMAIN table, lost)
    <3>1. Records!JobGoes(j, DOMAIN table, lost) /\ lost \in Nat
      BY CallsOf
    <3>. QED
      BY <1>1, <2>1, <3>1, ThrownJob
  <2>3. w.at = "failed"
    BY CallsOf
  <2>. HIDE DEF w
  <2>. QED
    BY <2>1, <2>2, <2>3, ResumeStep
<1>2. CASE jobs[t].reply # <<>>
  <2>1. PICK out : Records!Returns(t, op, out)
    BY <1>2 DEF Records!NeedsRow, Records!Rows
  <2>2. /\ op \notin Records!Loops \cup Records!Batches
        /\ op \notin {"walk", "exists", "countRecords", "first", "last"}
    BY SetsApart
  <2>. QED
    BY <1>2, <2>1, <2>2, ReturnsStep
<1>. QED
  BY <1>1, <1>2

(* Each step keeps the types and the invariant.                            *)
LEMMA RecordsStep ==
    ASSUME Records!TypeOK, Records!RecordsInv, Records!RecordsAssumption,
           Records!Next
    PROVE  (Records!TypeOK /\ Records!RecordsInv)'
<1>1. PICK t \in Tasks :
        \/ Records!Start(t) \/ Records!Serve(t) \/ Records!Lose(t)
        \/ Records!Throw(t) \/ Records!NextItem(t) \/ Records!WalkOn(t)
        \/ Records!CreateRecord(t) \/ Records!UpdateRecord(t)
        \/ Records!MergeRecord(t) \/ Records!UpsertRecord(t)
        \/ Records!DeleteRecord(t)
        \/ Records!GetRecord(t) \/ Records!Exists(t) \/ Records!First(t)
        \/ Records!Last(t) \/ Records!QueryRecords(t)
        \/ Records!QueryRecordsWrapped(t) \/ Records!CountRecords(t)
        \/ Records!InsertMany(t) \/ Records!UpsertMany(t)
  BY Zenon DEF Records!Next
<1>2. CASE Records!Start(t)
  BY <1>2, StartStep
<1>3. CASE Records!Serve(t)
  BY <1>3, ServeStep
<1>4. CASE Records!Lose(t)
  BY <1>4, LoseStep
<1>5. CASE Records!Throw(t)
  BY <1>5, ThrowStep
<1>6. CASE Records!NextItem(t)
  BY <1>6, NextItemStep
<1>7. CASE Records!WalkOn(t)
  BY <1>7, WalkOnStep
<1>8. ASSUME NEW op \in {"createRecord", "updateRecord", "mergeRecord",
                         "upsertRecord"}, Records!NeedsRow(t, op)
      PROVE  (Records!TypeOK /\ Records!RecordsInv)'
  <2>1. op \in Records!Writes /\ op # "deleteRecord"
    BY DEF Records!Writes
  <2>. QED
    BY <1>8, <2>1, NeedsRowStep
<1>9. CASE \/ Records!CreateRecord(t) \/ Records!UpdateRecord(t)
           \/ Records!MergeRecord(t) \/ Records!UpsertRecord(t)
  <2>1. \E op \in {"createRecord", "updateRecord", "mergeRecord",
                   "upsertRecord"} : Records!NeedsRow(t, op)
    BY <1>9, Zenon DEF Records!CreateRecord, Records!UpdateRecord,
       Records!MergeRecord, Records!UpsertRecord
  <2>. QED
    BY <1>8, <2>1
<1>10. /\ \A op \in {"getRecord", "exists", "first", "last", "queryRecords",
                     "queryRecordsWrapped", "countRecords"} :
            op \notin Records!Loops \cup Records!Batches \cup Records!Writes
                         \cup {"walk"}
       /\ "deleteRecord" \notin Records!Loops \cup Records!Batches \cup {"walk"}
       /\ \A op \in {"insertMany", "upsertMany"} :
            op \notin Records!Loops \cup Records!Writes \cup {"walk"}
  BY DEF Records!Loops, Records!Creating, Records!Deleting, Records!Batches,
     Records!Writes
<1>11. CASE Records!DeleteRecord(t)
  <2>1. Records!Returns(t, "deleteRecord", <<>>)
    BY <1>11, Zenon DEF Records!DeleteRecord
  <2>. QED
    BY <1>10, <2>1, ReturnsStep
<1>12. CASE \/ Records!GetRecord(t) \/ Records!QueryRecords(t)
            \/ Records!QueryRecordsWrapped(t)
  <2>1. PICK op \in {"getRecord", "queryRecords", "queryRecordsWrapped"} :
            \E out : Records!Returns(t, op, out)
    BY <1>12, Zenon DEF Records!GetRecord, Records!QueryRecords,
       Records!QueryRecordsWrapped
  <2>2. PICK out : Records!Returns(t, op, out)
    BY <2>1
  <2>3. /\ op \notin Records!Loops \cup Records!Batches \cup Records!Writes
        /\ op \notin {"walk", "exists", "countRecords", "first", "last"}
    BY <1>10
  <2>. QED
    BY <2>2, <2>3, ReturnsStep
<1>13. CASE Records!First(t) \/ Records!Last(t)
  <2>. DEFINE out == Records!Part(jobs[t].reply, 0, 1)
  <2>1. PICK op \in {"first", "last"} : Records!Returns(t, op, out)
    BY <1>13, Zenon DEF Records!First, Records!Last, Records!FirstRow,
       Records!Rows
  <2>2. /\ op \notin Records!Loops \cup Records!Batches \cup Records!Writes
        /\ op \notin {"walk", "exists", "countRecords"}
    BY <1>10
  <2>. HIDE DEF out
  <2>. QED
    BY <2>1, <2>2, ReturnsStep DEF out
<1>14. CASE Records!Exists(t)
  <2>1. Records!Returns(t, "exists",
            IF Records!Part(jobs[t].reply, 0, 1) = <<>> THEN <<0>> ELSE <<1>>)
    BY <1>14, Zenon DEF Records!Exists, Records!FirstRow, Records!Rows
  <2>. QED
    BY <1>10, <2>1, ReturnsStep
<1>15. CASE Records!CountRecords(t)
  <2>1. Records!Returns(t, "countRecords", <<Records!Total(jobs[t].reply)>>)
    BY <1>15, Zenon DEF Records!CountRecords, Records!Rows
  <2>. QED
    BY <1>10, <2>1, ReturnsStep
<1>16. CASE Records!InsertMany(t) \/ Records!UpsertMany(t)
  <2>1. PICK op \in {"insertMany", "upsertMany"} :
            Records!Returns(t, op, jobs[t].reply)
    BY <1>16, Zenon DEF Records!InsertMany, Records!UpsertMany, Records!Rows
  <2>. QED
    BY <1>10, <2>1, ReturnsStep
<1>. QED
  BY <1>1, <1>2, <1>3, <1>4, <1>5, <1>6, <1>7, <1>9, <1>11, <1>12, <1>13,
     <1>14, <1>15, <1>16

(* Each step of another part leaves the calls alone; each of their own     *)
(* keeps what the promises rest on (crud.ts, batch.ts, executor.ts).       *)
THEOREM RecordsInvariant ==
    Spec => [](Records!TypeOK /\ Records!RecordsInv)
<1>. USE PartsAssumption
<1>1. Init => Records!TypeOK /\ Records!RecordsInv
  BY RecordsInitially DEF Init
<1>2. Records!TypeOK /\ Records!RecordsInv /\ [Next]_vars
        => (Records!TypeOK /\ Records!RecordsInv)'
  <2>. SUFFICES ASSUME Records!TypeOK, Records!RecordsInv, [Next]_vars
                PROVE  (Records!TypeOK /\ Records!RecordsInv)'
    OBVIOUS
  <2>1. CASE Records!Next
    BY <2>1, RecordsStep
  <2>2. CASE UNCHANGED recordsVars
    <3>1. Records!TypeOK'
      BY <2>2, Zenon DEF recordsVars, Records!TypeOK
    <3>2. Records!RecordsInv'
      BY <2>2, Zenon DEF recordsVars, Records!RecordsInv
    <3>. QED
      BY <3>1, <3>2
  <2>. QED
    BY <2>1, <2>2, OnePartMoves
<1>. QED
  BY <1>1, <1>2, PTL DEF Spec

(* A loop has done its items in order and each once, up to where it        *)
(* stopped, or one more if an answer was lost.                             *)
LEMMA LoopsHold ==
    ASSUME Records!TypeOK, Records!RecordsInv
    PROVE  Records!LoopsArePrefixes
<1>. SUFFICES ASSUME NEW t \in Tasks, jobs[t].op \in Records!Loops
              PROVE
        LET j == jobs[t] IN
            /\ j.log = SubSeq(j.items, 1, Len(j.log))
            /\ j.at = "returned" =>
                /\ j.log = j.items
                /\ j.op \in Records!Creating => j.out = j.items
            /\ j.at \in {"refused", "lost", "failed"} =>
                Len(j.log) \in {j.i - 1, j.i}
            /\ j.at = "failed" /\ lost = 0 => Len(j.log) = j.i - 1
  BY Zenon DEF Records!LoopsArePrefixes
<1>. DEFINE j == jobs[t]
<1>1. /\ j.at \in {"idle", "sent", "answered", "refused", "lost", "returned",
                   "failed"}
      /\ j.at # "idle" /\ j.items \in Records!Items(j.op)
      /\ Records!LoopGoes(j, lost)
  BY SetsApart DEF Records!TypeOK, Records!RecordsInv, Records!JobGoes
<1>2. j.items \in Seq(0 .. 5)
  BY <1>1, ItemsAre, SetsApart
<1>. HIDE DEF j
<1>3. ASSUME j.at # "returned"
      PROVE  /\ Len(SubSeq(j.items, 1, j.i)) = j.i
             /\ Len(SubSeq(j.items, 1, j.i - 1)) = j.i - 1
             /\ j.i \in Nat \ {0}
  <2>1. j.i \in DOMAIN j.items
    BY <1>1, <1>3 DEF Records!LoopGoes, j
  <2>. QED
    BY <1>2, <2>1, OneMore
<1>4. SubSeq(j.items, 1, Len(j.items)) = j.items
  <2>1. /\ SubSeq(j.items, 1, Len(j.items)) \in Seq(0 .. 5)
        /\ Len(SubSeq(j.items, 1, Len(j.items))) = Len(j.items)
        /\ \A k \in 1 .. Len(j.items) :
                SubSeq(j.items, 1, Len(j.items))[k] = j.items[k]
    BY <1>2
  <2>. QED
    BY <1>2, <2>1, SeqEqual
<1>5. CASE j.at = "returned"
  BY <1>1, <1>4, <1>5 DEF Records!LoopGoes, j
<1>6. CASE j.at # "returned"
  <2>1. \/ j.log = SubSeq(j.items, 1, j.i - 1)
        \/ j.log = SubSeq(j.items, 1, j.i)
    BY <1>1, <1>6 DEF Records!LoopGoes, j
  <2>2. /\ j.log = SubSeq(j.items, 1, Len(j.log))
        /\ Len(j.log) \in {j.i - 1, j.i}
    BY <1>3, <1>6, <2>1
  <2>3. j.at = "failed" /\ lost = 0 => Len(j.log) = j.i - 1
    <3>. SUFFICES ASSUME j.at = "failed", lost = 0
                  PROVE  Len(j.log) = j.i - 1
      OBVIOUS
    <3>1. j.log = SubSeq(j.items, 1, j.i - 1)
      BY <1>1 DEF Records!LoopGoes, j
    <3>. QED
      BY <1>3, <1>6, <3>1
  <2>. QED
    BY <1>6, <2>2, <2>3 DEF j
<1>. QED
  BY <1>5, <1>6

(* What a loop, a batch or a write has done is told by how it ends, pages  *)
(* that are fetched while there is more cover the table, and a read tells  *)
(* what is there, whatever the other callers do and whichever requests or  *)
(* answers are lost (crud.ts, batch.ts, executor.ts, results.ts).          *)
THEOREM RecordsAreTold == Spec => []RecordsHold
<1>1. Records!TypeOK /\ Records!RecordsInv => RecordsHold
  <2>. SUFFICES ASSUME Records!TypeOK, Records!RecordsInv
                PROVE  RecordsHold
    OBVIOUS
  <2>1. Records!LoopsArePrefixes
    BY LoopsHold
  <2>2. \A t \in Tasks :
            /\ Records!BatchGoes(jobs[t], lost)
            /\ Records!WriteGoes(jobs[t], lost)
            /\ Records!WalkGoes(jobs[t], DOMAIN table)
            /\ Records!ReadGoes(jobs[t], DOMAIN table)
    BY DEF Records!RecordsInv, Records!JobGoes
  <2>3. Records!BatchesAccount
    BY <2>2 DEF Records!BatchesAccount, Records!BatchGoes, Records!Batches
  <2>4. Records!WritesAreTold
    BY <2>2 DEF Records!WritesAreTold, Records!WriteGoes
  <2>5. Records!PagesCoverTable
    BY <2>2 DEF Records!PagesCoverTable, Records!WalkGoes
  <2>6. Records!ReadsTell
    <3>1. <<0>> # <<1>>
      OBVIOUS
    <3>. QED
      BY <2>2, <3>1 DEF Records!ReadsTell, Records!ReadGoes
  <2>. QED
    BY <2>1, <2>3, <2>4, <2>5, <2>6 DEF RecordsHold
<1>. QED
  BY <1>1, RecordsInvariant, PTL

---------------------------------------------------------------------------
(* crud/*.ts: a builder and its executions                                 *)

(* The fields of the object that a read was given, each once.              *)
LEMMA ObjectFieldsAre ==
    ASSUME NEW b, b.whereObject \in Crud!Partial
    PROVE  LET F == Crud!ObjectFields(b)
           IN  /\ F \in Seq({"f", "g"})
               /\ Len(F) \in Nat /\ DOMAIN F = 1 .. Len(F)
               /\ \A x : x \in DOMAIN b.whereObject
                            <=> \E i \in DOMAIN F : F[i] = x
<1>. DEFINE O == DOMAIN b.whereObject
            F == Crud!ObjectFields(b)
<1>1. O \subseteq {"f", "g"}
  BY DEF Crud!Partial, Crud!Fields
<1>2. F = (IF "f" \in O THEN <<"f">> ELSE <<>>) \o
          (IF "g" \in O THEN <<"g">> ELSE <<>>)
  BY DEF Crud!ObjectFields
<1>. HIDE DEF O, F
<1>3. \/ O = {} /\ F = <<>>
      \/ O = {"f"} /\ F = <<"f">>
      \/ O = {"g"} /\ F = <<"g">>
      \/ O = {"f", "g"} /\ F = <<"f", "g">>
  <2>1. <<"f">> \in Seq({"f", "g"}) /\ <<"g">> \in Seq({"f", "g"})
        /\ <<>> \in Seq({"f", "g"})
    OBVIOUS
  <2>2. /\ <<>> \o <<>> = <<>> /\ <<"f">> \o <<>> = <<"f">>
        /\ <<>> \o <<"g">> = <<"g">>
    BY <2>1, ConcatEmptySeq
  <2>3. <<"f">> \o <<"g">> = <<"f", "g">>
    BY TwoParts
  <2>4. CASE "f" \in O /\ "g" \in O
    BY <1>1, <1>2, <2>3, <2>4
  <2>5. CASE "f" \in O /\ "g" \notin O
    BY <1>1, <1>2, <2>2, <2>5
  <2>6. CASE "f" \notin O /\ "g" \in O
    BY <1>1, <1>2, <2>2, <2>6
  <2>7. CASE "f" \notin O /\ "g" \notin O
    BY <1>1, <1>2, <2>2, <2>7
  <2>. QED
    BY <2>4, <2>5, <2>6, <2>7
<1>4. F \in Seq({"f", "g"}) /\ Len(F) \in Nat /\ DOMAIN F = 1 .. Len(F)
  <2>1. CASE F = <<>>
    BY <2>1
  <2>2. CASE F = <<"f">>
    BY <2>2
  <2>3. CASE F = <<"g">>
    BY <2>3
  <2>4. CASE F = <<"f", "g">>
    BY <2>4
  <2>. QED
    BY <1>3, <2>1, <2>2, <2>3, <2>4
<1>5. \A x : x \in O <=> \E i \in DOMAIN F : F[i] = x
  <2>1. CASE O = {} /\ F = <<>>
    BY <2>1
  <2>2. ASSUME NEW y, O = {y}, F = <<y>>
        PROVE  \A x : x \in O <=> \E i \in DOMAIN F : F[i] = x
    BY <2>2
  <2>3. CASE O = {"f", "g"} /\ F = <<"f", "g">>
    <3>1. DOMAIN F = {1, 2} /\ F[1] = "f" /\ F[2] = "g"
      BY <2>3
    <3>. QED
      BY <2>3, <3>1
  <2>. QED
    BY <1>3, <2>1, <2>2, <2>3
<1>. QED
  BY <1>4, <1>5 DEF O, F

(* The conditions as the server meets them, each with its own value        *)
(* whatever the caller bound.                                              *)
LEMMA ConditionsAreBound ==
    ASSUME NEW b, Crud!Goes(b)
    PROVE  LET where == Crud!Conditions(b)
               P == Crud!BuildQuery(b).params
               F == Crud!ObjectFields(b)
               n == Len(b.conditions)
               m == Len(F)
           IN  /\ n \in Nat /\ m \in Nat /\ DOMAIN where = 1 .. n + m
               /\ \A i \in 1 .. n :
                    /\ where[i].field = b.conditions[i].field
                    /\ where[i].op = b.conditions[i].op
                    /\ P[where[i].param] = b.conditions[i].value
               /\ \A j \in 1 .. m :
                    /\ where[n + j].field = F[j]
                    /\ where[n + j].op = "="
                    /\ P[where[n + j].param] = b.whereObject[F[j]]
<1>. DEFINE F == Crud!ObjectFields(b)
            n == Len(b.conditions)
            m == Len(F)
            s1 == [i \in DOMAIN b.conditions |->
                    [field |-> b.conditions[i].field, op |-> b.conditions[i].op,
                     param |-> <<"c", i>>]]
            s2 == [i \in DOMAIN F |->
                    [field |-> F[i], op |-> "=", param |-> <<"o", i>>]]
            p1 == [p \in {<<"c", i>> : i \in DOMAIN b.conditions} |->
                    b.conditions[p[2]].value]
            p2 == [p \in {<<"o", i>> : i \in DOMAIN F} |->
                    b.whereObject[F[p[2]]]]
            P == Crud!BuildQuery(b).params
            where == Crud!Conditions(b)
<1>1. /\ n \in Nat /\ DOMAIN b.conditions = 1 .. n
      /\ m \in Nat /\ DOMAIN F = 1 .. m
  <2>1. b.conditions \in
            Seq([field: Crud!Fields, op: {"=", ">="}, value: 1 .. 2])
        /\ b.whereObject \in Crud!Partial
    BY DEF Crud!Goes
  <2>2. m \in Nat /\ DOMAIN F = 1 .. m
    BY <2>1, ObjectFieldsAre
  <2>. QED
    BY <2>1, <2>2
<1>2. where = s1 \o s2
  BY DEF Crud!Conditions, Crud!Name
<1>3. P = Crud!Shadowing(Crud!Shadowing(p1, p2), b.params)
  BY DEF Crud!BuildQuery, Crud!Bindings, Crud!Name
<1>. HIDE DEF F, P, where
<1>4. /\ DOMAIN where = 1 .. n + m
      /\ \A i \in 1 .. n : where[i] = s1[i]
      /\ \A j \in 1 .. m : where[n + j] = s2[j]
  <2>. DEFINE X == {s1[i] : i \in 1 .. n} \cup {s2[i] : i \in 1 .. m}
  <2>1. DOMAIN s1 = 1 .. n /\ DOMAIN s2 = 1 .. m
    BY <1>1
  <2>. HIDE DEF s1, s2, m, n
  <2>2. s1 \in Seq(X) /\ s2 \in Seq(X) /\ Len(s1) = n /\ Len(s2) = m
    <3>1. \A i \in 1 .. n : s1[i] \in X
      BY DEF X
    <3>2. \A i \in 1 .. m : s2[i] \in X
      BY DEF X
    <3>. HIDE DEF X
    <3>3. s1 = [i \in 1 .. n |-> s1[i]] /\ s2 = [i \in 1 .. m |-> s2[i]]
      BY <2>1 DEF s1, s2
    <3>4. s1 \in [1 .. n -> X] /\ s2 \in [1 .. m -> X]
      BY <2>1, <3>1, <3>2, <3>3
    <3>. QED
      BY <1>1, <2>1, <3>4, IsASeq
  <2>3. /\ s1 \o s2 \in Seq(X) /\ Len(s1 \o s2) = n + m
        /\ \A i \in 1 .. n + m :
              (s1 \o s2)[i] = IF i <= n THEN s1[i] ELSE s2[i - n]
    BY <2>2, ConcatProperties
  <2>4. DOMAIN (s1 \o s2) = 1 .. n + m
    BY <2>3
  <2>5. ASSUME NEW i \in 1 .. n
        PROVE  where[i] = s1[i]
    BY <1>1, <1>2, <2>3
  <2>6. ASSUME NEW j \in 1 .. m
        PROVE  where[n + j] = s2[j]
    <3>1. PICK k \in 1 .. n + m : k = n + j
      BY <1>1
    <3>2. ~(k <= n)
      BY <1>1, <3>1
    <3>3. (s1 \o s2)[k] = s2[k - n]
      BY <2>3, <3>2
    <3>4. k - n = j
      BY <1>1, <3>1
    <3>. QED
      BY <1>2, <3>1, <3>3, <3>4
  <2>. QED
    BY <1>2, <2>4, <2>5, <2>6
<1>5. ASSUME NEW i \in 1 .. n
      PROVE  P[<<"c", i>>] = b.conditions[i].value
  <2>1. <<"c", i>> \in DOMAIN p1 /\ p1[<<"c", i>>] = b.conditions[i].value
    BY <1>1
  <2>. HIDE DEF p1, p2
  <2>. QED
    BY <1>3, <2>1 DEF Crud!Shadowing
<1>6. ASSUME NEW j \in 1 .. m
      PROVE  P[<<"o", j>>] = b.whereObject[F[j]]
  <2>1. <<"o", j>> \in DOMAIN p2 /\ p2[<<"o", j>>] = b.whereObject[F[j]]
    BY <1>1
  <2>2. <<"o", j>> \notin DOMAIN p1
    <3>1. \A i : <<"o", j>> # <<"c", i>>
      OBVIOUS
    <3>. QED
      BY <3>1
  <2>. HIDE DEF p1, p2
  <2>. QED
    BY <1>3, <2>1, <2>2 DEF Crud!Shadowing
<1>7. \A i \in 1 .. n : /\ s1[i].field = b.conditions[i].field
                        /\ s1[i].op = b.conditions[i].op
                        /\ s1[i].param = <<"c", i>>
  BY <1>1
<1>8. \A j \in 1 .. m : /\ s2[j].field = F[j] /\ s2[j].op = "="
                        /\ s2[j].param = <<"o", j>>
  BY <1>1
<1>. HIDE DEF s1, s2, n, m
<1>9. ASSUME NEW i \in 1 .. n
      PROVE  /\ where[i].field = b.conditions[i].field
             /\ where[i].op = b.conditions[i].op
             /\ P[where[i].param] = b.conditions[i].value
  <2>1. where[i] = s1[i]
    BY <1>4
  <2>. QED
    BY <1>5, <1>7, <2>1
<1>10. ASSUME NEW j \in 1 .. m
       PROVE  /\ where[n + j].field = F[j]
              /\ where[n + j].op = "="
              /\ P[where[n + j].param] = b.whereObject[F[j]]
  <2>1. where[n + j] = s2[j]
    BY <1>4
  <2>. QED
    BY <1>6, <1>8, <2>1
<1>. QED
  BY <1>1, <1>4, <1>9, <1>10 DEF F, P, where, n, m

(* The statement of a read finds the records that its calls asked for.     *)
LEMMA ReadFinds ==
    ASSUME NEW b, NEW a, Crud!Goes(b), Crud!Mirrors(b, a), NEW row
    PROVE  Crud!Matches(Crud!Conditions(b), Crud!BuildQuery(b).params, row)
             <=> /\ \A w \in a.wheres : Crud!Holds(w[2], row[w[1]], w[3])
                 /\ \A x \in DOMAIN a.object : row[x] = a.object[x]
<1>. DEFINE where == Crud!Conditions(b)
            P == Crud!BuildQuery(b).params
            F == Crud!ObjectFields(b)
            n == Len(b.conditions)
            m == Len(F)
            Meets(i) == Crud!Holds(where[i].op, row[where[i].field],
                                   P[where[i].param])
<1>1. /\ n \in Nat /\ m \in Nat /\ DOMAIN where = 1 .. n + m
      /\ \A i \in 1 .. n :
            /\ where[i].field = b.conditions[i].field
            /\ where[i].op = b.conditions[i].op
            /\ P[where[i].param] = b.conditions[i].value
      /\ \A j \in 1 .. m :
            /\ where[n + j].field = F[j]
            /\ where[n + j].op = "="
            /\ P[where[n + j].param] = b.whereObject[F[j]]
  BY ConditionsAreBound
<1>2. /\ DOMAIN F = 1 .. m
      /\ \A x : x \in DOMAIN b.whereObject <=> \E j \in DOMAIN F : F[j] = x
  BY ObjectFieldsAre DEF Crud!Goes
<1>3. DOMAIN b.conditions = 1 .. n
  <2>1. b.conditions \in
            Seq([field: Crud!Fields, op: {"=", ">="}, value: 1 .. 2])
    BY DEF Crud!Goes
  <2>. QED
    BY <2>1
<1>4. /\ a.wheres = {<<b.conditions[i].field, b.conditions[i].op,
                       b.conditions[i].value>> : i \in 1 .. n}
      /\ a.object = b.whereObject
  BY <1>3 DEF Crud!Mirrors
<1>5. Crud!Matches(where, P, row) <=> \A i \in 1 .. n + m : Meets(i)
  BY <1>1 DEF Crud!Matches
<1>6. \A i \in 1 .. n : Meets(i)
        <=> Crud!Holds(b.conditions[i].op, row[b.conditions[i].field],
                       b.conditions[i].value)
  BY <1>1
<1>7. \A j \in 1 .. m : Meets(n + j) <=> row[F[j]] = b.whereObject[F[j]]
  BY <1>1 DEF Crud!Holds
<1>8. (\A w \in a.wheres : Crud!Holds(w[2], row[w[1]], w[3]))
        <=> \A i \in 1 .. n :
              Crud!Holds(b.conditions[i].op, row[b.conditions[i].field],
                         b.conditions[i].value)
  <2>1. \A i \in 1 .. n :
          LET w == <<b.conditions[i].field, b.conditions[i].op,
                     b.conditions[i].value>>
          IN  /\ w \in a.wheres /\ w[1] = b.conditions[i].field
              /\ w[2] = b.conditions[i].op /\ w[3] = b.conditions[i].value
    BY <1>4
  <2>2. \A w \in a.wheres : \E i \in 1 .. n :
            /\ w[1] = b.conditions[i].field
            /\ w[2] = b.conditions[i].op /\ w[3] = b.conditions[i].value
    BY <1>4
  <2>. HIDE DEF n
  <2>. QED
    BY <2>1, <2>2
<1>9. (\A x \in DOMAIN a.object : row[x] = a.object[x])
        <=> \A j \in 1 .. m : row[F[j]] = b.whereObject[F[j]]
  BY <1>2, <1>4
<1>. HIDE DEF where, P, F, n, m, Meets
<1>10. (\A i \in 1 .. n + m : Meets(i))
        <=> (\A i \in 1 .. n : Meets(i)) /\ (\A j \in 1 .. m : Meets(n + j))
  <2>1. \A i \in 1 .. n + m : i \in 1 .. n \/ (i - n \in 1 .. m /\ n + (i - n) = i)
    BY <1>1
  <2>2. (\A i \in 1 .. n : i \in 1 .. n + m)
        /\ (\A j \in 1 .. m : n + j \in 1 .. n + m)
    BY <1>1
  <2>. QED
    BY <2>1, <2>2
<1>11. Crud!Matches(where, P, row)
        <=> /\ \A w \in a.wheres : Crud!Holds(w[2], row[w[1]], w[3])
            /\ \A x \in DOMAIN a.object : row[x] = a.object[x]
  BY <1>5, <1>6, <1>7, <1>8, <1>9, <1>10
<1>. QED
  BY <1>11 DEF where, P

(* The records in order are a sequence.                                    *)
LEMMA CrudCount == \A S : Crud!Cardinality(S) = Cardinality(S)
BY Zenon DEF Crud!Cardinality, Cardinality, Crud!IsFiniteSet, IsFiniteSet

(* Records in order are a sequence.                                        *)
LEMMA OrderedIs ==
    ASSUME NEW ids \in SUBSET (1 .. 3), NEW orderBy
    PROVE  \E X : Crud!Ordered(ids, orderBy) \in Seq(X)
<1>. DEFINE all == Crud!Ordered(ids, orderBy)
            n == Cardinality(ids)
            X == {all[i] : i \in 1 .. n}
<1>1. n \in Nat
  BY FS_Interval, FS_Subset, FS_CardinalityType, 1 \in Int, 3 \in Int
<1>. DEFINE up == orderBy = <<>> \/ orderBy[1] = "ASC"
            c(k) == CHOOSE i \in ids : Crud!Cardinality(
                      {j \in ids : IF up THEN j <= i ELSE i <= j}) = k
<1>2. all = [k \in 1 .. n |-> c(k)]
  BY Zenon, CrudCount DEF Crud!Ordered
<1>. HIDE DEF all, n, c
<1>3. all \in Seq(X)
  BY <1>1, <1>2
<1>. QED
  BY <1>3 DEF all, n

(* The first of a part of at most one is the part.                         *)
LEMMA WindowOnce ==
    ASSUME NEW X, NEW s \in Seq(X), NEW from \in Nat
    PROVE  Crud!Window(Crud!Window(s, from, 1), 0, 1) = Crud!Window(s, from, 1)
<1>. DEFINE t == Crud!Window(s, from, 1)
<1>0. 1 # Crud!None
  BY DEF Crud!None
<1>1. t = SubSeq(s, from + 1, IF from + 1 > Len(s) THEN Len(s) ELSE from + 1)
  BY <1>0 DEF Crud!Window
<1>2. t \in Seq(X) /\ Len(t) \in {0, 1}
  <2>1. CASE from + 1 > Len(s)
    <3>1. SubSeq(s, from + 1, Len(s)) \in Seq(X)
          /\ Len(SubSeq(s, from + 1, Len(s))) = 0
      BY <2>1
    <3>. QED
      BY <1>1, <2>1, <3>1
  <2>2. CASE ~(from + 1 > Len(s))
    <3>1. SubSeq(s, from + 1, from + 1) \in Seq(X)
          /\ Len(SubSeq(s, from + 1, from + 1)) = 1
      BY <2>2
    <3>. QED
      BY <1>1, <2>2, <3>1
  <2>. QED
    BY <2>1, <2>2
<1>. HIDE DEF t
<1>3. Crud!Window(t, 0, 1) = SubSeq(t, 1, Len(t))
  BY <1>0, <1>2 DEF Crud!Window
<1>4. /\ SubSeq(t, 1, Len(t)) \in Seq(X) /\ Len(SubSeq(t, 1, Len(t))) = Len(t)
      /\ \A i \in 1 .. Len(t) : SubSeq(t, 1, Len(t))[i] = t[i]
  BY <1>2
<1>5. SubSeq(t, 1, Len(t)) = t
  BY <1>2, <1>4, SeqEqual
<1>. QED
  BY <1>3, <1>5 DEF t

(* The first of one record.                                                *)
LEMMA FirstOfOne ==
    ASSUME NEW id
    PROVE  Crud!Window(<<id>>, 0, 1) = <<id>>
<1>0. 1 # Crud!None /\ <<id>> \in Seq({id}) /\ Len(<<id>>) = 1
  BY DEF Crud!None
<1>1. Crud!Window(<<id>>, 0, 1) = SubSeq(<<id>>, 1, 1)
  BY <1>0 DEF Crud!Window
<1>2. /\ SubSeq(<<id>>, 1, 1) \in Seq({id}) /\ Len(SubSeq(<<id>>, 1, 1)) = 1
      /\ \A i \in 1 .. 1 : SubSeq(<<id>>, 1, 1)[i] = <<id>>[i]
  BY <1>0
<1>. QED
  BY <1>0, <1>1, <1>2, SeqEqual

(* Of some places in a sequence one is the last.                           *)
LEMMA LastIsOne ==
    ASSUME NEW n \in Nat, NEW T \in SUBSET (1 .. n), T # {}
    PROVE  (CHOOSE i \in T : \A j \in T : j <= i) \in T
<1>. DEFINE U == {n - i : i \in T}
<1>1. U \in SUBSET Nat /\ U # {}
  <2>1. \A i \in T : n - i \in Nat
    OBVIOUS
  <2>. QED
    BY <2>1
<1>. HIDE DEF U
<1>2. PICK u \in U : \A m \in U : ~ (<<m, u>> \in OpToRel(<, Nat))
  BY <1>1, WFMin, NatLessThanWellFounded
<1>3. \A m \in U : ~(m < u)
  BY <1>1, <1>2 DEF OpToRel
<1>4. PICK i \in T : u = n - i
  BY DEF U
<1>5. ASSUME NEW j \in T
      PROVE  j <= i
  <2>1. n - j \in U
    BY DEF U
  <2>. QED
    BY <1>3, <1>4, <2>1
<1>. QED
  BY <1>4, <1>5, Zenon

(* What is written is a row.                                               *)
LEMMA Written ==
    /\ Crud!Blank \in Crud!Row
    /\ \A content \in Crud!Partial, row \in Crud!Row :
        Crud!Over(content, row) \in Crud!Row
<1>1. Crud!Blank \in Crud!Row
  BY DEF Crud!Blank, Crud!Row
<1>2. ASSUME NEW content \in Crud!Partial, NEW row \in Crud!Row
      PROVE  Crud!Over(content, row) \in Crud!Row
  <2>1. \A x \in DOMAIN content : content[x] \in 0 .. 2
    BY DEF Crud!Partial
  <2>2. \A x \in Crud!Fields : row[x] \in 0 .. 2
    BY DEF Crud!Row
  <2>. QED
    BY <2>1, <2>2 DEF Crud!Over, Crud!Row
<1>. QED
  BY <1>1, <1>2

(* A patched row is a row.                                                 *)
LEMMA PatchedIs ==
    ASSUME NEW row \in Crud!Row,
           NEW ops \in Seq([op: {"replace", "test"}, field: {"f"}, value: {1}])
    PROVE  Crud!Patched(row, ops) \in Crud!Row
<1>. DEFINE T == {i \in DOMAIN ops : ops[i].op = "replace"}
            last == CHOOSE i \in T : \A j \in T : j <= i
<1>1. CASE T = {}
  BY <1>1, Zenon DEF Crud!Patched
<1>2. CASE T # {}
  <2>0. Len(ops) \in Nat /\ DOMAIN ops = 1 .. Len(ops)
    OBVIOUS
  <2>1. last \in T
    BY <1>2, <2>0, LastIsOne
  <2>. HIDE DEF last
  <2>2. last \in DOMAIN ops
    BY <2>1
  <2>3. ops[last].value = 1
    <3>1. ops[last] \in [op: {"replace", "test"}, field: {"f"}, value: {1}]
      BY <2>0, <2>2, ElementOfSeq, Zenon
    <3>. QED
      BY <3>1
  <2>4. Crud!Patched(row, ops) = [row EXCEPT !["f"] = ops[last].value]
    BY <1>2, Zenon DEF Crud!Patched, last
  <2>. QED
    BY <2>3, <2>4 DEF Crud!Row, Crud!Fields
<1>. QED
  BY <1>1, <1>2

(* The fields of a builder, and those that no promise is about or that its *)
(* methods may set as they like.                                           *)
BuilderFields ==
    {"kind", "strict", "ref", "data", "conditions", "whereObject", "orderBy",
     "limit", "offset", "select", "groupBy", "having", "aggregations",
     "params", "mapper", "mergeMode", "conflict", "ops"}
Asides == {"orderBy", "select", "groupBy", "having", "aggregations",
           "conflict", "mapper", "mergeMode", "ref", "params", "ops"}

(* A builder has its fields, and no others.                                *)
LEMMA BuilderIs ==
    ASSUME NEW b, Crud!Goes(b)
    PROVE  DOMAIN b = BuilderFields
BY DEF Crud!Goes, Crud!New, BuilderFields

(* A builder and what was asked of it still go together when a method sets *)
(* another field.                                                          *)
LEMMA StillGoes ==
    ASSUME NEW b, NEW a, NEW w, Crud!Goes(b), Crud!Mirrors(b, a),
           DOMAIN w = BuilderFields,
           \A y \in BuilderFields \ Asides : w[y] = b[y],
           w.mapper \in {"none", "given", "throws"}, w.mergeMode \in BOOLEAN,
           w.ref \in Crud!Refs \cup {Crud!NoRef},
           w.ops \in Seq([op: {"replace", "test"}, field: {"f"}, value: {1}]),
           Crud!Data \in DOMAIN w.params => w.params[Crud!Data] = [g |-> 1]
    PROVE  Crud!Goes(w) /\ Crud!Mirrors(w, a) /\ w.kind = b.kind
<1>1. /\ w.kind = b.kind /\ w.data = b.data /\ w.conditions = b.conditions
      /\ w.whereObject = b.whereObject /\ w.limit = b.limit
      /\ w.offset = b.offset
  BY DEF BuilderFields, Asides
<1>2. DOMAIN w = DOMAIN b
  BY BuilderIs
<1>3. Crud!Goes(w)
  BY <1>1, <1>2, Zenon DEF Crud!Goes
<1>4. Crud!Mirrors(w, a)
  BY <1>1 DEF Crud!Mirrors
<1>. QED
  BY <1>1, <1>3, <1>4

(* What a method leaves alone.                                             *)
LEMMA FieldSet ==
    ASSUME NEW b, DOMAIN b = BuilderFields, NEW x \in BuilderFields, NEW v
    PROVE  LET w == [b EXCEPT ![x] = v]
           IN  /\ DOMAIN w = BuilderFields /\ w[x] = v
               /\ \A y \in BuilderFields \ {x} : w[y] = b[y]
OBVIOUS

(* One field of those is set.                                              *)
LEMMA OneFieldSet ==
    ASSUME NEW b, NEW a, Crud!Goes(b), Crud!Mirrors(b, a),
           NEW x \in Asides, NEW v,
           x = "mapper" => v \in {"none", "given", "throws"},
           x = "mergeMode" => v \in BOOLEAN,
           x = "ref" => v \in Crud!Refs \cup {Crud!NoRef},
           x = "params" =>
              (Crud!Data \in DOMAIN v => v[Crud!Data] = [g |-> 1]),
           x # "ops"
    PROVE  LET w == [b EXCEPT ![x] = v]
           IN  /\ Crud!Goes(w) /\ Crud!Mirrors(w, a)
               /\ w.kind = b.kind /\ w.ops = b.ops
<1>. DEFINE w == [b EXCEPT ![x] = v]
<1>1. x \in BuilderFields
  BY DEF Asides, BuilderFields
<1>2. /\ DOMAIN w = BuilderFields /\ w[x] = v
      /\ \A y \in BuilderFields \ {x} : w[y] = b[y]
  BY <1>1, FieldSet, BuilderIs
<1>. HIDE DEF w
<1>3. w.ops = b.ops
  BY <1>2 DEF BuilderFields
<1>4. b.ops \in Seq([op: {"replace", "test"}, field: {"f"}, value: {1}])
      /\ b.mapper \in {"none", "given", "throws"} /\ b.mergeMode \in BOOLEAN
      /\ b.ref \in Crud!Refs \cup {Crud!NoRef}
      /\ (Crud!Data \in DOMAIN b.params => b.params[Crud!Data] = [g |-> 1])
  BY Zenon DEF Crud!Goes
<1>5. w.mapper \in {"none", "given", "throws"}
  <2>1. w.mapper = b.mapper \/ (x = "mapper" /\ w.mapper = v)
    BY <1>2 DEF BuilderFields
  <2>. QED
    BY <1>4, <2>1
<1>6. w.mergeMode \in BOOLEAN
  <2>1. w.mergeMode = b.mergeMode \/ (x = "mergeMode" /\ w.mergeMode = v)
    BY <1>2 DEF BuilderFields
  <2>. QED
    BY <1>4, <2>1, Zenon
<1>7. w.ref \in Crud!Refs \cup {Crud!NoRef}
  <2>1. w.ref = b.ref \/ (x = "ref" /\ w.ref = v)
    BY <1>2 DEF BuilderFields
  <2>. QED
    BY <1>4, <2>1, Zenon
<1>8. Crud!Data \in DOMAIN w.params => w.params[Crud!Data] = [g |-> 1]
  <2>1. w.params = b.params \/ (x = "params" /\ w.params = v)
    BY <1>2 DEF BuilderFields
  <2>. QED
    BY <1>4, <2>1, Zenon
<1>9. \A y \in BuilderFields \ Asides : w[y] = b[y]
  BY <1>2
<1>10. Crud!Goes(w) /\ Crud!Mirrors(w, a) /\ w.kind = b.kind
  BY <1>2, <1>3, <1>4, <1>5, <1>6, <1>7, <1>8, <1>9, StillGoes
<1>. QED
  BY <1>3, <1>10 DEF w

(* What a method that sets the builder makes of it.                        *)
MethodKept ==
    /\ Crud!Goes(builder') /\ Crud!Mirrors(builder', asked')
    /\ builder'.kind = builder.kind
    /\ builder'.ops = builder.ops \/ Len(builder'.ops) > Len(builder.ops)

(* A method that sets one of those fields.                                 *)
LEMMA SetKeeps ==
    ASSUME Crud!Goes(builder), Crud!Mirrors(builder, asked),
           NEW x \in Asides, NEW v,
           x = "mapper" => v \in {"none", "given", "throws"},
           x = "mergeMode" => v \in BOOLEAN,
           x = "ref" => v \in Crud!Refs \cup {Crud!NoRef},
           x = "params" =>
              (Crud!Data \in DOMAIN v => v[Crud!Data] = [g |-> 1]),
           x # "ops", Crud!Set([builder EXCEPT ![x] = v])
    PROVE  MethodKept
<1>. DEFINE w == [builder EXCEPT ![x] = v]
<1>1. builder' = w /\ asked' = asked
  BY DEF Crud!Set, Crud!Call
<1>2. /\ Crud!Goes(w) /\ Crud!Mirrors(w, asked)
      /\ w.kind = builder.kind /\ w.ops = builder.ops
  BY OneFieldSet
<1>. HIDE DEF w
<1>. QED
  BY <1>1, <1>2, Zenon DEF MethodKept

(* The methods that no read's answer depends on.                           *)
LEMMA SimpleMethods ==
    ASSUME Crud!Goes(builder), Crud!Mirrors(builder, asked),
           \/ Crud!MapWith \/ Crud!WithParam \/ Crud!OrderBy \/ Crud!Select
           \/ Crud!GroupBy \/ Crud!Aggregate \/ Crud!WithId \/ Crud!Replace
           \/ Crud!OnConflict
    PROVE  MethodKept
<1>0. /\ "mapper" \in Asides /\ "params" \in Asides /\ "orderBy" \in Asides
      /\ "select" \in Asides /\ "groupBy" \in Asides /\ "ref" \in Asides
      /\ "aggregations" \in Asides /\ "mergeMode" \in Asides
      /\ "conflict" \in Asides
  BY DEF Asides
<1>1. CASE Crud!MapWith
  BY <1>0, <1>1, SetKeeps DEF Crud!MapWith
<1>2. CASE Crud!WithParam
  <2>1. PICK k, v : /\ Crud!Set([builder EXCEPT !.params =
                                    Crud!With(builder.params, k, v)])
                    /\ k = Crud!Data => v = [g |-> 1]
    <3>1. Crud!Name("c", 1) # Crud!Data /\ Crud!Name("h", 1) # Crud!Data
          /\ Crud!Conflict # Crud!Data
      BY DEF Crud!Name, Crud!Data, Crud!Conflict
    <3>. QED
      BY <1>2, <3>1, Zenon DEF Crud!WithParam
  <2>2. LET p == Crud!With(builder.params, k, v) IN
        Crud!Data \in DOMAIN p => p[Crud!Data] = [g |-> 1]
    BY <2>1, Zenon DEF Crud!With, Crud!Goes
  <2>. QED
    BY <1>0, <2>1, <2>2, SetKeeps
<1>3. CASE Crud!OrderBy
  BY <1>0, <1>3, SetKeeps DEF Crud!OrderBy
<1>4. CASE Crud!Select
  BY <1>0, <1>4, SetKeeps DEF Crud!Select
<1>5. CASE Crud!GroupBy
  BY <1>0, <1>5, SetKeeps DEF Crud!GroupBy
<1>6. CASE Crud!Aggregate
  BY <1>0, <1>6, SetKeeps DEF Crud!Aggregate
<1>7. CASE Crud!WithId
  BY <1>0, <1>7, SetKeeps DEF Crud!WithId
<1>8. CASE Crud!Replace
  BY <1>0, <1>8, SetKeeps DEF Crud!Replace
<1>9. CASE Crud!OnConflict
  BY <1>0, <1>9, SetKeeps DEF Crud!OnConflict
<1>. QED
  BY <1>1, <1>2, <1>3, <1>4, <1>5, <1>6, <1>7, <1>8, <1>9

(* The methods of a read that its answer depends on.                       *)
LEMMA WhereKeeps ==
    ASSUME Crud!Goes(builder), Crud!Mirrors(builder, asked), Crud!Where
    PROVE  MethodKept
<1>1. PICK x \in Crud!Fields, op \in {"=", ">="}, v \in {0, 1, 2} :
        IF v = 0 THEN Crud!Set(builder)
        ELSE Crud!Call([builder EXCEPT !.conditions =
                    Append(builder.conditions,
                           [field |-> x, op |-> op, value |-> v])],
                [asked EXCEPT !.wheres = @ \cup {<<x, op, v>>}])
  BY DEF Crud!Where, Crud!ValidFieldName, Crud!ValidInputValue, Crud!Unsafe
<1>2. CASE v = 0
  <2>1. builder' = builder /\ asked' = asked
    BY <1>1, <1>2 DEF Crud!Set, Crud!Call
  <2>. QED
    BY <2>1, Zenon DEF MethodKept
<1>3. CASE v # 0
  <2>. DEFINE S == [field: Crud!Fields, op: {"=", ">="}, value: 1 .. 2]
              s == builder.conditions
              c == [field |-> x, op |-> op, value |-> v]
              z == Append(s, c)
              a == [asked EXCEPT !.wheres = @ \cup {<<x, op, v>>}]
              b == [builder EXCEPT !.conditions = z]
  <2>1. builder' = b /\ asked' = a
    BY <1>1, <1>3 DEF Crud!Call
  <2>2. s \in Seq(S) /\ c \in S
    <3>1. s \in Seq(S)
      BY Zenon DEF Crud!Goes
    <3>. QED
      BY <1>3, <3>1
  <2>3. /\ z \in Seq(S) /\ DOMAIN z = 1 .. Len(s) + 1 /\ Len(s) \in Nat
        /\ DOMAIN s = 1 .. Len(s)
        /\ z[Len(s) + 1] = c /\ \A i \in 1 .. Len(s) : z[i] = s[i]
    <3>. HIDE DEF S, s, c
    <3>. QED
      BY <2>2, Appended
  <2>4. /\ DOMAIN b = BuilderFields /\ b.conditions = z
        /\ \A y \in BuilderFields \ {"conditions"} : b[y] = builder[y]
    <3>1. "conditions" \in BuilderFields
      BY DEF BuilderFields
    <3>. HIDE DEF z
    <3>. QED
      BY <3>1, FieldSet, BuilderIs
  <2>5. /\ b.kind = builder.kind /\ b.ref = builder.ref
        /\ b.data = builder.data /\ b.whereObject = builder.whereObject
        /\ b.limit = builder.limit /\ b.offset = builder.offset
        /\ b.mapper = builder.mapper /\ b.mergeMode = builder.mergeMode
        /\ b.ops = builder.ops /\ b.params = builder.params
    <3>. HIDE DEF b
    <3>. QED
      BY <2>4 DEF BuilderFields
  <2>6. /\ DOMAIN a = {"wheres", "object", "from", "size"}
        /\ a.wheres = asked.wheres \cup {<<x, op, v>>}
        /\ a.object = asked.object /\ a.from = asked.from
        /\ a.size = asked.size
    BY DEF Crud!Mirrors
  <2>7. asked.wheres = {<<s[i].field, s[i].op, s[i].value>> : i \in DOMAIN s}
    BY Zenon DEF Crud!Mirrors
  <2>8. c.field = x /\ c.op = op /\ c.value = v
    OBVIOUS
  <2>. HIDE DEF S, s, c, z, b, a
  <2>9. a.wheres = {<<z[i].field, z[i].op, z[i].value>> : i \in DOMAIN z}
    <3>1. \A i \in 1 .. Len(s) : i \in DOMAIN z /\ i \in DOMAIN s
      BY <2>3
    <3>2. \A i \in DOMAIN z : i \in 1 .. Len(s) \/ i = Len(s) + 1
      BY <2>3
    <3>3. Len(s) + 1 \in DOMAIN z
      BY <2>3
    <3>. QED
      BY <2>3, <2>6, <2>7, <2>8, <3>1, <3>2, <3>3
  <2>10. Crud!Goes(b)
    <3>1. DOMAIN b = DOMAIN builder
      BY <2>4, BuilderIs
    <3>2. b.conditions \in Seq(S)
      BY <2>3, <2>4
    <3>. QED
      BY <2>5, <3>1, <3>2, Zenon DEF Crud!Goes, S
  <2>11. Crud!Mirrors(b, a)
    BY <2>4, <2>5, <2>6, <2>9 DEF Crud!Mirrors
  <2>. QED
    BY <2>1, <2>5, <2>10, <2>11, Zenon DEF MethodKept
<1>. QED
  BY <1>2, <1>3

(* The entries of an object are added to those that were given.            *)
LEMMA WhereObjectKeeps ==
    ASSUME Crud!Goes(builder), Crud!Mirrors(builder, asked), Crud!WhereObject
    PROVE  MethodKept
<1>1. PICK x \in Crud!Fields, v \in 1 .. 2 :
        Crud!Call([builder EXCEPT !.whereObject =
                        Crud!With(builder.whereObject, x, v)],
                  [asked EXCEPT !.object = Crud!With(asked.object, x, v)])
  BY Zenon DEF Crud!WhereObject
<1>. DEFINE z == Crud!With(builder.whereObject, x, v)
            a == [asked EXCEPT !.object = Crud!With(asked.object, x, v)]
            b == [builder EXCEPT !.whereObject = z]
<1>2. builder' = b /\ asked' = a
  BY <1>1 DEF Crud!Call
<1>3. asked.object = builder.whereObject
  BY DEF Crud!Mirrors
<1>4. z \in Crud!Partial
  <2>1. builder.whereObject \in Crud!Partial
    BY DEF Crud!Goes
  <2>2. PICK F \in SUBSET Crud!Fields : builder.whereObject \in [F -> 1 .. 2]
    BY <2>1 DEF Crud!Partial
  <2>3. z \in [F \cup {x} -> 1 .. 2]
    BY <2>2 DEF Crud!With
  <2>4. F \cup {x} \in SUBSET Crud!Fields
    BY <2>2
  <2>. HIDE DEF z
  <2>. QED
    BY <2>3, <2>4 DEF Crud!Partial
<1>5. /\ DOMAIN b = BuilderFields /\ b.whereObject = z
      /\ \A y \in BuilderFields \ {"whereObject"} : b[y] = builder[y]
  <2>1. "whereObject" \in BuilderFields
    BY DEF BuilderFields
  <2>. HIDE DEF z
  <2>. QED
    BY <2>1, FieldSet, BuilderIs
<1>6. /\ b.kind = builder.kind /\ b.ref = builder.ref
      /\ b.data = builder.data /\ b.conditions = builder.conditions
      /\ b.limit = builder.limit /\ b.offset = builder.offset
      /\ b.mapper = builder.mapper /\ b.mergeMode = builder.mergeMode
      /\ b.ops = builder.ops /\ b.params = builder.params
  <2>. HIDE DEF b
  <2>. QED
    BY <1>5 DEF BuilderFields
<1>7. /\ DOMAIN a = {"wheres", "object", "from", "size"}
      /\ a.object = z /\ a.wheres = asked.wheres /\ a.from = asked.from
      /\ a.size = asked.size
  <2>. HIDE DEF z
  <2>1. a = [asked EXCEPT !.object = z]
    BY <1>3 DEF z
  <2>. QED
    BY <2>1 DEF Crud!Mirrors
<1>. HIDE DEF z, b, a
<1>8. Crud!Goes(b)
  <2>1. DOMAIN b = DOMAIN builder
    BY <1>5, BuilderIs
  <2>. QED
    BY <1>4, <1>5, <1>6, <2>1, Zenon DEF Crud!Goes
<1>9. Crud!Mirrors(b, a)
  BY <1>5, <1>6, <1>7 DEF Crud!Mirrors
<1>. QED
  BY <1>2, <1>6, <1>8, <1>9, Zenon DEF MethodKept

(* The limit, the offset or both are set as they are asked.                *)
LEMMA PartKept ==
    ASSUME NEW b, NEW a, Crud!Goes(b), Crud!Mirrors(b, a),
           NEW w, NEW z,
           DOMAIN w = BuilderFields, DOMAIN z = DOMAIN a,
           \A y \in BuilderFields \ {"limit", "offset"} : w[y] = b[y],
           z.wheres = a.wheres, z.object = a.object,
           w.limit \in Nat \cup {Crud!None}, w.offset \in Nat \cup {Crud!None},
           z.size = w.limit,
           z.from = IF w.offset = Crud!None THEN 0 ELSE w.offset
    PROVE  Crud!Goes(w) /\ Crud!Mirrors(w, z) /\ w.kind = b.kind
           /\ w.ops = b.ops
<1>1. /\ w.kind = b.kind /\ w.ref = b.ref
      /\ w.data = b.data /\ w.conditions = b.conditions
      /\ w.whereObject = b.whereObject
      /\ w.mapper = b.mapper /\ w.mergeMode = b.mergeMode
      /\ w.ops = b.ops /\ w.params = b.params
  BY DEF BuilderFields
<1>2. Crud!Goes(w)
  <2>1. DOMAIN w = DOMAIN b
    BY BuilderIs
  <2>2. {w.limit, w.offset} \subseteq Nat \cup {Crud!None}
    BY Zenon
  <2>. QED
    BY <1>1, <2>1, <2>2, Zenon DEF Crud!Goes
<1>3. Crud!Mirrors(w, z)
  BY <1>1 DEF Crud!Mirrors
<1>. QED
  BY <1>1, <1>2, <1>3

(* limit, and what first() does.                                           *)
LEMMA LimitSet ==
    ASSUME NEW b, NEW a, Crud!Goes(b), Crud!Mirrors(b, a)
    PROVE  LET w == [b EXCEPT !.limit = 1]
               z == [a EXCEPT !.size = 1]
           IN  /\ Crud!Goes(w) /\ Crud!Mirrors(w, z)
               /\ w.kind = b.kind /\ w.ops = b.ops /\ w.limit = 1
<1>. DEFINE w == [b EXCEPT !.limit = 1]
            z == [a EXCEPT !.size = 1]
<1>1. /\ DOMAIN w = BuilderFields /\ w.limit = 1 /\ w.offset = b.offset
      /\ \A y \in BuilderFields \ {"limit"} : w[y] = b[y]
  BY FieldSet, BuilderIs DEF BuilderFields
<1>2. /\ DOMAIN z = DOMAIN a /\ z.size = 1 /\ z.wheres = a.wheres
      /\ z.object = a.object /\ z.from = a.from
  BY DEF Crud!Mirrors
<1>3. /\ b.offset \in Nat \cup {Crud!None}
      /\ a.from = IF b.offset = Crud!None THEN 0 ELSE b.offset
  BY Zenon DEF Crud!Goes, Crud!Mirrors
<1>. HIDE DEF w, z
<1>4. w.limit \in Nat \cup {Crud!None}
  BY <1>1
<1>5. \A y \in BuilderFields \ {"limit", "offset"} : w[y] = b[y]
  BY <1>1
<1>6. Crud!Goes(w) /\ Crud!Mirrors(w, z) /\ w.kind = b.kind /\ w.ops = b.ops
  BY <1>1, <1>2, <1>3, <1>4, <1>5, PartKept
<1>. QED
  BY <1>1, <1>6 DEF w, z

(* limit, offset and page.                                                 *)
LEMMA PartKeeps ==
    ASSUME Crud!Goes(builder), Crud!Mirrors(builder, asked),
           Crud!Limit \/ Crud!Offset \/ Crud!Page
    PROVE  MethodKept
<1>1. CASE Crud!Limit
  <2>1. /\ builder' = [builder EXCEPT !.limit = 1]
        /\ asked' = [asked EXCEPT !.size = 1]
    BY <1>1 DEF Crud!Limit, Crud!Call
  <2>. QED
    BY <2>1, LimitSet, Zenon DEF MethodKept
<1>2. DOMAIN asked = {"wheres", "object", "from", "size"}
      /\ asked.size = builder.limit /\ builder.limit \in Nat \cup {Crud!None}
  <2>1. builder.limit \in Nat \cup {Crud!None}
    BY Zenon DEF Crud!Goes
  <2>. QED
    BY <2>1 DEF Crud!Mirrors
<1>3. CASE Crud!Offset
  <2>. DEFINE w == [builder EXCEPT !.offset = 1]
              z == [asked EXCEPT !.from = 1]
  <2>1. builder' = w /\ asked' = z
    BY <1>3 DEF Crud!Offset, Crud!Call
  <2>2. /\ DOMAIN w = BuilderFields /\ w.offset = 1 /\ w.limit = builder.limit
        /\ \A y \in BuilderFields \ {"offset"} : w[y] = builder[y]
    BY FieldSet, BuilderIs DEF BuilderFields
  <2>3. /\ DOMAIN z = DOMAIN asked /\ z.size = asked.size
        /\ z.wheres = asked.wheres /\ z.object = asked.object /\ z.from = 1
    BY <1>2
  <2>. HIDE DEF w, z
  <2>4. w.offset \in Nat \cup {Crud!None}
        /\ z.from = IF w.offset = Crud!None THEN 0 ELSE w.offset
    BY <2>2, <2>3 DEF Crud!None
  <2>5. \A y \in BuilderFields \ {"limit", "offset"} : w[y] = builder[y]
    BY <2>2
  <2>6. Crud!Goes(w) /\ Crud!Mirrors(w, z) /\ w.kind = builder.kind
        /\ w.ops = builder.ops
    BY <1>2, <2>2, <2>3, <2>4, <2>5, PartKept
  <2>. QED
    BY <2>1, <2>6, Zenon DEF MethodKept
<1>4. CASE Crud!Page
  <2>1. PICK n \in 1 .. 2, size \in 1 .. 2 : Crud!PageOf(n, size)
    <3>1. PICK n \in 0 .. 2, size \in 0 .. 2 :
            /\ Crud!PositiveInteger(n) /\ Crud!PositiveInteger(size)
            /\ Crud!PageOf(n, size)
      BY <1>4, Zenon DEF Crud!Page
    <3>2. n \in 1 .. 2 /\ size \in 1 .. 2
      BY <3>1, SMT DEF Crud!PositiveInteger
    <3>. QED
      BY <3>1, <3>2, Zenon
  <2>2. PICK k \in Nat : k = (n - 1) * size
    <3>1. CASE n = 1
      <4>1. (1 - 1) * size = 0
        OBVIOUS
      <4>. QED
        BY <3>1, <4>1
    <3>2. CASE n = 2
      <4>1. (2 - 1) * size = size
        OBVIOUS
      <4>. QED
        BY <3>2, <4>1
    <3>. QED
      BY <3>1, <3>2
  <2>. DEFINE b == [builder EXCEPT !.limit = size]
              w == [b EXCEPT !.offset = k]
              z == [asked EXCEPT !.size = size, !.from = k]
  <2>3. builder' = w /\ asked' = z
    BY <2>1, <2>2, SMT DEF Crud!PageOf, Crud!Call
  <2>4. /\ DOMAIN w = BuilderFields /\ w.offset = k /\ w.limit = size
        /\ \A y \in BuilderFields \ {"limit", "offset"} : w[y] = builder[y]
    <3>1. /\ DOMAIN b = BuilderFields /\ b.limit = size
          /\ \A y \in BuilderFields \ {"limit"} : b[y] = builder[y]
      BY FieldSet, BuilderIs, SMT DEF BuilderFields
    <3>. HIDE DEF b
    <3>2. /\ DOMAIN w = BuilderFields /\ w.offset = k
          /\ \A y \in BuilderFields \ {"offset"} : w[y] = b[y]
      BY <3>1, FieldSet, SMT DEF BuilderFields
    <3>. HIDE DEF w
    <3>3. w.limit = b.limit
      BY <3>2 DEF BuilderFields
    <3>4. \A y \in BuilderFields \ {"limit", "offset"} : w[y] = builder[y]
      BY <3>1, <3>2
    <3>. QED
      BY <3>1, <3>2, <3>3, <3>4
  <2>5. /\ DOMAIN z = DOMAIN asked /\ z.size = size
        /\ z.wheres = asked.wheres /\ z.object = asked.object /\ z.from = k
    BY <1>2, SMT
  <2>. HIDE DEF b, w, z
  <2>6. /\ w.offset \in Nat \cup {Crud!None}
        /\ w.limit \in Nat \cup {Crud!None}
        /\ z.from = IF w.offset = Crud!None THEN 0 ELSE w.offset
    BY <2>4, <2>5 DEF Crud!None
  <2>7. Crud!Goes(w) /\ Crud!Mirrors(w, z) /\ w.kind = builder.kind
        /\ w.ops = builder.ops
    BY <2>4, <2>5, <2>6, PartKept
  <2>. QED
    BY <2>3, <2>7, Zenon DEF MethodKept
<1>. QED
  BY <1>1, <1>3, <1>4

(* having binds its value as it is added.                                  *)
LEMMA HavingKeeps ==
    ASSUME Crud!Goes(builder), Crud!Mirrors(builder, asked), Crud!Having
    PROVE  MethodKept
<1>. DEFINE name == Crud!Name("h", Len(builder.having) + 1)
            p == Crud!With(builder.params, name, 2)
            h == Append(builder.having, name)
            b == [builder EXCEPT !.params = p]
            w == [b EXCEPT !.having = h]
<1>1. builder' = w /\ asked' = asked
  <2>1. w = [builder EXCEPT !.params = p, !.having = h]
    <3>. HIDE DEF p, h
    <3>. QED
      BY BuilderIs, SMT
  <2>. QED
    BY <2>1, SMT DEF Crud!Having, Crud!Set, Crud!Call
<1>2. Crud!Data \in DOMAIN p => p[Crud!Data] = [g |-> 1]
  <2>1. name # Crud!Data
    BY DEF Crud!Name, Crud!Data
  <2>2. Crud!Data \in DOMAIN builder.params
            => builder.params[Crud!Data] = [g |-> 1]
    BY Zenon DEF Crud!Goes
  <2>. HIDE DEF name
  <2>. QED
    BY <2>1, <2>2, Zenon DEF Crud!With
<1>. HIDE DEF p, h
<1>3. "params" \in Asides /\ "having" \in Asides
  BY DEF Asides
<1>4. /\ Crud!Goes(b) /\ Crud!Mirrors(b, asked)
      /\ b.kind = builder.kind /\ b.ops = builder.ops
  BY <1>2, <1>3, OneFieldSet
<1>. HIDE DEF b
<1>5. /\ Crud!Goes(w) /\ Crud!Mirrors(w, asked)
      /\ w.kind = b.kind /\ w.ops = b.ops
  BY <1>3, <1>4, OneFieldSet
<1>. QED
  BY <1>1, <1>4, <1>5, Zenon DEF MethodKept

(* An operation is added to the patch.                                     *)
LEMMA AddOperationKeeps ==
    ASSUME Crud!Goes(builder), Crud!Mirrors(builder, asked), Crud!AddOperation
    PROVE  MethodKept
<1>. DEFINE S == [op: {"replace", "test"}, field: {"f"}, value: {1}]
<1>1. PICK o \in S :
        Crud!Set([builder EXCEPT !.ops = Append(builder.ops, o)])
  <2>1. PICK o \in Crud!Operations : /\ Crud!ValidOperation(o)
            /\ Crud!Set([builder EXCEPT !.ops = Append(builder.ops, o)])
    BY Zenon DEF Crud!AddOperation
  <2>2. o \in S
    BY <2>1 DEF Crud!Operations, Crud!ValidOperation
  <2>. QED
    BY <2>1, <2>2
<1>2. builder.ops \in Seq(S)
  BY Zenon DEF Crud!Goes
<1>. DEFINE z == Append(builder.ops, o)
            w == [builder EXCEPT !.ops = z]
<1>. HIDE DEF S
<1>3. z \in Seq(S) /\ Len(z) > Len(builder.ops)
  BY <1>1, <1>2, Appended
<1>4. builder' = w /\ asked' = asked
  BY <1>1 DEF Crud!Set, Crud!Call
<1>. HIDE DEF z
<1>5. /\ DOMAIN w = BuilderFields /\ w.ops = z
      /\ \A y \in BuilderFields \ {"ops"} : w[y] = builder[y]
  BY FieldSet, BuilderIs DEF BuilderFields
<1>6. /\ w.mapper = builder.mapper /\ w.mergeMode = builder.mergeMode
      /\ w.ref = builder.ref /\ w.params = builder.params
      /\ \A y \in BuilderFields \ Asides : w[y] = builder[y]
  BY <1>5 DEF BuilderFields, Asides
<1>. HIDE DEF w
<1>7. /\ w.mapper \in {"none", "given", "throws"} /\ w.mergeMode \in BOOLEAN
      /\ w.ref \in Crud!Refs \cup {Crud!NoRef}
      /\ (Crud!Data \in DOMAIN w.params => w.params[Crud!Data] = [g |-> 1])
  BY <1>6, Zenon DEF Crud!Goes
<1>8. w.ops \in Seq([op: {"replace", "test"}, field: {"f"}, value: {1}])
  BY <1>3, <1>5 DEF S
<1>9. Crud!Goes(w) /\ Crud!Mirrors(w, asked) /\ w.kind = builder.kind
  BY <1>5, <1>6, <1>7, <1>8, StillGoes
<1>. QED
  BY <1>3, <1>4, <1>5, <1>9 DEF MethodKept

(* Each method keeps the builder and what was asked of it together.        *)
LEMMA MethodKeeps ==
    ASSUME Crud!Goes(builder), Crud!Mirrors(builder, asked), Crud!Method
    PROVE  MethodKept
BY SimpleMethods, WhereKeeps, WhereObjectKeeps, PartKeeps, HavingKeeps,
   AddOperationKeeps, Zenon DEF Crud!Method

(* A method changes nothing else.                                          *)
LEMMA MethodCalls ==
    ASSUME Crud!Method
    PROVE  /\ called < MaxCalls /\ called' = called + 1
           /\ UNCHANGED <<rows, requests, faults>>
<1>1. PICK b, a : Crud!Call(b, a)
  BY Zenon DEF Crud!Method, Crud!MapWith, Crud!WithParam, Crud!Where,
     Crud!WhereObject, Crud!OrderBy, Crud!Limit, Crud!Offset, Crud!Page,
     Crud!PageOf, Crud!Select, Crud!GroupBy, Crud!Aggregate, Crud!Having, Crud!WithId,
     Crud!Replace, Crud!OnConflict, Crud!AddOperation, Crud!Set
<1>. QED
  BY <1>1, Zenon DEF Crud!Call

(* The table, as the type invariant has it.                                *)
RowsAre(T) == DOMAIN T \subseteq Crud!Ids /\ T \in [DOMAIN T -> Crud!Row]

(* A table with a row put into it is a table.                              *)
LEMMA PutRows ==
    ASSUME NEW T, RowsAre(T), NEW id \in Crud!Ids, NEW row \in Crud!Row
    PROVE  RowsAre(Crud!With(T, id, row))
BY DEF RowsAre, Crud!With

(* Of some ids one is the first.                                           *)
LEMMA FirstOfThree ==
    ASSUME NEW T \in SUBSET (1 .. 3), T # {}
    PROVE  (CHOOSE i \in T : \A j \in T : i <= j) \in T
<1>1. \E i \in T : \A j \in T : i <= j
  <2>1. CASE 1 \in T
    BY <2>1
  <2>2. CASE 1 \notin T /\ 2 \in T
    BY <2>2
  <2>3. CASE 1 \notin T /\ 2 \notin T
    <3>1. \A j \in T : j = 3
      BY <2>3
    <3>2. 3 \in T
      BY <3>1
    <3>3. \A j \in T : 3 <= j
      BY <3>1
    <3>. QED
      BY <3>2, <3>3
  <2>. QED
    BY <2>1, <2>2, <2>3
<1>. QED
  BY <1>1, Zenon

(* The id that the server makes is a new one.                              *)
LEMMA NewIdIs ==
    ASSUME RowsAre(rows), DOMAIN rows # Crud!Ids
    PROVE  Crud!NewId \in Crud!Ids /\ Crud!NewId \notin DOMAIN rows
<1>. DEFINE T == Crud!Ids \ DOMAIN rows
<1>1. T \in SUBSET (1 .. 3) /\ T # {}
  BY DEF RowsAre, Crud!Ids
<1>2. Crud!NewId = CHOOSE i \in T : \A j \in T : i <= j
  BY Zenon DEF Crud!NewId
<1>. HIDE DEF T
<1>3. Crud!NewId \in T
  BY <1>1, <1>2, FirstOfThree
<1>. QED
  BY <1>3 DEF T

(* The three answers of the server.                                        *)
LEMMA AnswersAre ==
    /\ Crud!Refuse.refused /\ Crud!Refuse.after = rows
    /\ \A T, answer : /\ ~Crud!Accept(T, answer).refused
                      /\ Crud!Accept(T, answer).after = T
                      /\ Crud!Accept(T, answer).answer = answer
    /\ \A id, row : /\ ~Crud!Put(id, row).refused
                    /\ Crud!Put(id, row).after = Crud!With(rows, id, row)
                    /\ Crud!Put(id, row).answer = <<id>>
BY DEF Crud!Refuse, Crud!Accept, Crud!Put

(* What a write may come to: nothing, a removal, a row whose id is not     *)
(* answered, or a row at the id that is.                                   *)
Nothing(o) == o.after = rows /\ (o.refused \/ o.answer = <<>>)
Removed(o) == /\ o.answer = <<>>
              /\ \E id : o.after = [i \in DOMAIN rows \ {id} |-> rows[i]]
Unnamed(o) == /\ o.answer = <<>>
              /\ \E id \in Crud!Ids, row \in Crud!Row :
                    o.after = Crud!With(rows, id, row)
PutAt(o, id, row) ==
    /\ id \in Crud!Ids /\ row \in Crud!Row
    /\ o.answer = <<id>> /\ o.after = Crud!With(rows, id, row)

(* The row that a write finds.                                             *)
Found(id) == IF id \in DOMAIN rows THEN rows[id] ELSE Crud!Blank

(* A refusal, an empty answer and a removal are such.                      *)
LEMMA NothingIs ==
    /\ Nothing(Crud!Refuse) /\ Nothing(Crud!Accept(rows, <<>>))
    /\ \A id :
        Removed(Crud!Accept([i \in DOMAIN rows \ {id} |-> rows[i]], <<>>))
<1>1. Nothing(Crud!Refuse) /\ Nothing(Crud!Accept(rows, <<>>))
  BY AnswersAre DEF Nothing
<1>2. ASSUME NEW id
      PROVE  Removed(Crud!Accept([i \in DOMAIN rows \ {id} |-> rows[i]], <<>>))
  <2>. DEFINE T == [i \in DOMAIN rows \ {id} |-> rows[i]]
  <2>1. /\ Crud!Accept(T, <<>>).answer = <<>>
        /\ Crud!Accept(T, <<>>).after = T
    BY AnswersAre
  <2>. QED
    BY <2>1, Zenon DEF Removed
<1>. QED
  BY <1>1, <1>2

(* CREATE puts the content at a new id, or nothing.                        *)
LEMMA ServedCreate ==
    ASSUME RowsAre(rows), DOMAIN rows # Crud!Ids, NEW c \in Crud!Partial,
           NEW target \in Crud!Ids \cup {Crud!Anew, Crud!Malformed}
    PROVE  LET o == Crud!Serve(Crud!Content("CREATE", target, c))
           IN  Nothing(o) \/ \E id : PutAt(o, id, Crud!Over(c, Crud!Blank))
<1>. DEFINE s == Crud!Content("CREATE", target, c)
            o == Crud!Serve(s)
            row == Crud!Over(c, Crud!Blank)
<1>1. s.op = "CREATE" /\ s.target = target /\ s.content = c
  BY DEF Crud!Content
<1>2. target # Crud!Elsewhere /\ Crud!Anew # Crud!Malformed
  BY DEF Crud!Ids, Crud!Anew, Crud!Malformed, Crud!Elsewhere
<1>3. row \in Crud!Row
  BY Written
<1>. HIDE DEF s, row
<1>4. CASE target = Crud!Malformed
  <2>1. o = Crud!Refuse
    BY <1>1, <1>4 DEF Crud!Serve
  <2>2. Nothing(o)
    BY <2>1, NothingIs
  <2>. QED
    BY <2>2 DEF s
<1>5. CASE target = Crud!Anew
  <2>1. o = Crud!Put(Crud!NewId, row)
    BY <1>1, <1>2, <1>5 DEF Crud!Serve, row
  <2>2. PutAt(o, Crud!NewId, row)
    BY <1>3, <2>1, NewIdIs, AnswersAre DEF PutAt
  <2>. QED
    BY <2>2 DEF s, row
<1>6. CASE target \notin {Crud!Malformed, Crud!Anew}
  <2>1. target \in Crud!Ids
    BY <1>6
  <2>2. CASE target \in DOMAIN rows
    <3>1. o = Crud!Refuse
      BY <1>1, <1>2, <1>6, <2>2 DEF Crud!Serve
    <3>2. Nothing(o)
      BY <3>1, NothingIs
    <3>. QED
      BY <3>2 DEF s
  <2>3. CASE target \notin DOMAIN rows
    <3>1. o = Crud!Put(target, row)
      BY <1>1, <1>2, <1>6, <2>3 DEF Crud!Serve, row
    <3>2. PutAt(o, target, row)
      BY <1>3, <2>1, <3>1, AnswersAre DEF PutAt
    <3>. QED
      BY <3>2 DEF s, row
  <2>. QED
    BY <2>2, <2>3
<1>. QED
  BY <1>4, <1>5, <1>6

(* UPSERT puts the content at the id that is named.                        *)
LEMMA ServedUpsert ==
    ASSUME RowsAre(rows), NEW c \in Crud!Partial,
           NEW target \in Crud!Ids \cup {Crud!Malformed}
    PROVE  LET o == Crud!Serve(Crud!Content("UPSERT", target, c))
           IN  Nothing(o) \/ \E id : PutAt(o, id, Crud!Over(c, Crud!Blank))
<1>. DEFINE s == Crud!Content("UPSERT", target, c)
            o == Crud!Serve(s)
            row == Crud!Over(c, Crud!Blank)
<1>1. s.op = "UPSERT" /\ s.target = target /\ s.content = c
  BY DEF Crud!Content
<1>2. target # Crud!Elsewhere
  BY DEF Crud!Ids, Crud!Malformed, Crud!Elsewhere
<1>3. row \in Crud!Row
  BY Written
<1>. HIDE DEF s, row
<1>4. CASE target = Crud!Malformed
  <2>1. o = Crud!Refuse
    BY <1>1, <1>4 DEF Crud!Serve
  <2>2. Nothing(o)
    BY <2>1, NothingIs
  <2>. QED
    BY <2>2 DEF s
<1>5. CASE target # Crud!Malformed
  <2>1. o = Crud!Put(target, row)
    BY <1>1, <1>2, <1>5 DEF Crud!Serve, row
  <2>2. PutAt(o, target, row)
    BY <1>3, <1>5, <2>1, AnswersAre DEF PutAt
  <2>. QED
    BY <2>2 DEF s, row
<1>. QED
  BY <1>4, <1>5

(* MERGE and CONTENT put over what is there, or nothing.                   *)
LEMMA ServedUpdate ==
    ASSUME RowsAre(rows), NEW c \in Crud!Partial,
           NEW op \in {"CONTENT", "MERGE"},
           NEW target \in Crud!Ids \cup {Crud!Elsewhere}
    PROVE  LET o == Crud!Serve(Crud!Content(op, target, c))
           IN  \/ Nothing(o)
               \/ \E id : PutAt(o, id, Crud!Over(c,
                            IF op = "MERGE" THEN Found(id) ELSE Crud!Blank))
<1>. DEFINE s == Crud!Content(op, target, c)
            o == Crud!Serve(s)
            row == Crud!Over(c, IF op = "MERGE" THEN Found(target)
                                ELSE Crud!Blank)
<1>1. s.op = op /\ s.target = target /\ s.content = c
  BY DEF Crud!Content
<1>2. target # Crud!Malformed /\ op \notin {"SELECT", "CONFLICT", "UPSERT", "CREATE"}
  BY DEF Crud!Ids, Crud!Malformed, Crud!Elsewhere
<1>3. row \in Crud!Row
  BY Written DEF Found, RowsAre
<1>. HIDE DEF s, row
<1>4. target = Crud!Elsewhere => o = Crud!Accept(rows, <<>>)
  BY <1>1, <1>2 DEF Crud!Serve
<1>5. target # Crud!Elsewhere => o = Crud!ServeExisting(s)
  BY <1>1, <1>2 DEF Crud!Serve
<1>6. CASE target = Crud!Elsewhere \/ target \notin DOMAIN rows
  <2>1. o = Crud!Accept(rows, <<>>)
    BY <1>1, <1>4, <1>5, <1>6 DEF Crud!ServeExisting
  <2>2. Nothing(o)
    BY <2>1, NothingIs
  <2>. QED
    BY <2>2 DEF s
<1>7. CASE target # Crud!Elsewhere /\ target \in DOMAIN rows
  <2>1. o = Crud!Put(target, row)
    <3>1. Found(target) = rows[target]
      BY <1>7 DEF Found
    <3>. QED
      BY <1>1, <1>5, <1>7, <3>1 DEF Crud!ServeExisting, row
  <2>2. PutAt(o, target, row)
    BY <1>3, <1>7, <2>1, AnswersAre DEF PutAt
  <2>. QED
    BY <2>2 DEF s, row
<1>. QED
  BY <1>6, <1>7

(* DELETE removes what is there.                                           *)
LEMMA ServedDelete ==
    ASSUME NEW target \in Crud!Ids \cup {Crud!Elsewhere}
    PROVE  LET o == Crud!Serve([op |-> "DELETE", target |-> target])
           IN  Nothing(o) \/ Removed(o)
<1>. DEFINE s == [op |-> "DELETE", target |-> target]
            o == Crud!Serve(s)
<1>1. s.op = "DELETE" /\ s.target = target
  OBVIOUS
<1>2. target # Crud!Malformed
  BY DEF Crud!Ids, Crud!Malformed, Crud!Elsewhere
<1>. HIDE DEF s
<1>4. target = Crud!Elsewhere => o = Crud!Accept(rows, <<>>)
  BY <1>1, <1>2 DEF Crud!Serve
<1>5. target # Crud!Elsewhere => o = Crud!ServeExisting(s)
  BY <1>1, <1>2 DEF Crud!Serve
<1>6. CASE target = Crud!Elsewhere \/ target \notin DOMAIN rows
  <2>1. o = Crud!Accept(rows, <<>>)
    BY <1>1, <1>4, <1>5, <1>6 DEF Crud!ServeExisting
  <2>2. Nothing(o)
    BY <2>1, NothingIs
  <2>. QED
    BY <2>2 DEF s
<1>7. CASE target # Crud!Elsewhere /\ target \in DOMAIN rows
  <2>1. o = Crud!Accept([i \in DOMAIN rows \ {target} |-> rows[i]], <<>>)
    BY <1>1, <1>5, <1>7 DEF Crud!ServeExisting
  <2>2. Removed(o)
    BY <2>1, NothingIs
  <2>. QED
    BY <2>2 DEF s
<1>. QED
  BY <1>6, <1>7

(* PATCH puts the patched row, or nothing.                                 *)
LEMMA ServedPatch ==
    ASSUME RowsAre(rows),
           NEW ops \in Seq([op: {"replace", "test"}, field: {"f"}, value: {1}]),
           NEW target \in Crud!Ids \cup {Crud!Elsewhere}
    PROVE  LET o == Crud!Serve([op |-> "PATCH", target |-> target, ops |-> ops])
           IN  Nothing(o) \/ \E id : PutAt(o, id, Crud!Patched(Found(id), ops))
<1>. DEFINE s == [op |-> "PATCH", target |-> target, ops |-> ops]
            o == Crud!Serve(s)
            row == Crud!Patched(Found(target), ops)
<1>1. s.op = "PATCH" /\ s.target = target /\ s.ops = ops
  OBVIOUS
<1>2. target # Crud!Malformed
  BY DEF Crud!Ids, Crud!Malformed, Crud!Elsewhere
<1>3. row \in Crud!Row
  <2>1. Found(target) \in Crud!Row
    BY Written DEF Found, RowsAre
  <2>. QED
    BY <2>1, PatchedIs, Zenon
<1>. HIDE DEF s, row
<1>4. target = Crud!Elsewhere => o = Crud!Accept(rows, <<>>)
  BY <1>1, <1>2 DEF Crud!Serve
<1>5. target # Crud!Elsewhere => o = Crud!ServeExisting(s)
  BY <1>1, <1>2 DEF Crud!Serve
<1>6. CASE target = Crud!Elsewhere \/ target \notin DOMAIN rows
  <2>1. o = Crud!Accept(rows, <<>>)
    BY <1>1, <1>4, <1>5, <1>6 DEF Crud!ServeExisting
  <2>2. Nothing(o)
    BY <2>1, NothingIs
  <2>. QED
    BY <2>2 DEF s
<1>7. CASE target # Crud!Elsewhere /\ target \in DOMAIN rows
  <2>1. o = Crud!Put(target, row) \/ o = Crud!Refuse
    <3>1. Found(target) = rows[target]
      BY <1>7 DEF Found
    <3>. QED
      BY <1>1, <1>5, <1>7, <3>1 DEF Crud!ServeExisting, row
  <2>2. CASE o = Crud!Refuse
    <3>1. Nothing(o)
      BY <2>2, NothingIs
    <3>. QED
      BY <3>1 DEF s
  <2>3. CASE o = Crud!Put(target, row)
    <3>1. PutAt(o, target, row)
      BY <1>3, <1>7, <2>3, AnswersAre DEF PutAt
    <3>. QED
      BY <3>1 DEF s, row
  <2>. QED
    BY <2>1, <2>2, <2>3
<1>. QED
  BY <1>6, <1>7

(* The conflict upsert writes, and answers nothing.                        *)
LEMMA ServedConflict ==
    ASSUME RowsAre(rows), DOMAIN rows # Crud!Ids,
           NEW s, s.op = "CONFLICT", s.content \in Crud!Partial
    PROVE  Unnamed(Crud!Serve(s))
<1>. DEFINE o == Crud!Serve(s)
            hits == {i \in DOMAIN rows : Crud!Matches(s.where, s.params, rows[i])}
            hit == CHOOSE i \in hits : \A j \in hits : i <= j
            new == Crud!Put(Crud!NewId, Crud!Over(s.content, Crud!Blank))
            old == Crud!Put(hit, Crud!Over(s.content, rows[hit]))
<1>1. o = Crud!Accept((IF hits = {} THEN new ELSE old).after, <<>>)
  <2>1. o = Crud!ServeConflict(s)
    BY DEF Crud!Serve
  <2>. QED
    BY <2>1, Zenon DEF Crud!ServeConflict
<1>2. hits \subseteq DOMAIN rows
  OBVIOUS
<1>3. hits # {} => hit \in DOMAIN rows
  <2>1. hits \in SUBSET (1 .. 3)
    BY <1>2 DEF RowsAre, Crud!Ids
  <2>. HIDE DEF hits
  <2>2. hits # {} => hit \in hits
    BY <2>1, FirstOfThree
  <2>. QED
    BY <1>2, <2>2
<1>. HIDE DEF o, hits, hit
<1>4. CASE hits = {}
  <2>1. o.answer = <<>>
        /\ o.after = Crud!With(rows, Crud!NewId,
                               Crud!Over(s.content, Crud!Blank))
    BY <1>1, <1>4, AnswersAre
  <2>2. Crud!Over(s.content, Crud!Blank) \in Crud!Row
    BY Written
  <2>. QED
    BY <2>1, <2>2, NewIdIs, Zenon DEF Unnamed, o
<1>5. CASE hits # {}
  <2>1. o.answer = <<>>
        /\ o.after = Crud!With(rows, hit, Crud!Over(s.content, rows[hit]))
    BY <1>1, <1>5, AnswersAre
  <2>2. hit \in Crud!Ids /\ rows[hit] \in Crud!Row
    BY <1>3, <1>5 DEF RowsAre
  <2>3. Crud!Over(s.content, rows[hit]) \in Crud!Row
    BY <2>2, Written
  <2>. QED
    BY <2>1, <2>2, <2>3, Zenon DEF Unnamed, o
<1>. QED
  BY <1>4, <1>5

(* What a caller may put in the place of the data.                         *)
LEMMA OverriddenIs ==
    ASSUME NEW b, Crud!Goes(b)
    PROVE  /\ Crud!Overridden(b) \in Crud!Partial
           /\ Crud!Data \notin DOMAIN b.params => Crud!Overridden(b) = b.data
<1>1. b.data \in Crud!Partial
      /\ (Crud!Data \in DOMAIN b.params => b.params[Crud!Data] = [g |-> 1])
  BY Zenon DEF Crud!Goes
<1>2. [g |-> 1] \in Crud!Partial
  <2>1. [g |-> 1] \in [{"g"} -> 1 .. 2]
    OBVIOUS
  <2>2. {"g"} \in SUBSET Crud!Fields
    BY DEF Crud!Fields
  <2>. QED
    BY <2>1, <2>2 DEF Crud!Partial
<1>. QED
  BY <1>1, <1>2, Zenon DEF Crud!Overridden

(* What a statement makes of a record id.                                  *)
LEMMA TargetIs ==
    ASSUME NEW ref \in Crud!Refs \cup {Crud!NoRef}
    PROVE  /\ Crud!Verbatim(ref) \in Crud!Ids \cup {Crud!Elsewhere}
           /\ ref # Crud!NoRef =>
                Crud!Prefixed(ref) \in Crud!Ids \cup {Crud!Malformed}
BY DEF Crud!Refs, Crud!NoRef, Crud!Verbatim, Crud!Prefixed, Crud!Ids

(* What comes of a write.                                                  *)
Comes(o, b, ops) ==
    \/ Nothing(o) \/ Removed(o) \/ Unnamed(o)
    \/ \E id, row :
        /\ PutAt(o, id, row)
        /\ Crud!Data \notin DOMAIN b.params /\ b.ops = ops =>
             row = Crud!Intended(b, Found(id))

(* A write that comes to a row at an id, or to nothing.                    *)
LEMMA ComesPut ==
    ASSUME NEW o, NEW b, NEW ops, NEW row,
           Nothing(o) \/ \E id : PutAt(o, id, row),
           Crud!Data \notin DOMAIN b.params =>
                \A id : row = Crud!Intended(b, Found(id))
    PROVE  Comes(o, b, ops)
<1>1. CASE Nothing(o)
  BY <1>1, Zenon DEF Comes
<1>2. ASSUME NEW id, PutAt(o, id, row)
      PROVE  Comes(o, b, ops)
  <2>1. Crud!Data \notin DOMAIN b.params => row = Crud!Intended(b, Found(id))
    OBVIOUS
  <2>2. \E i, r : /\ PutAt(o, i, r)
                  /\ Crud!Data \notin DOMAIN b.params /\ b.ops = ops =>
                        r = Crud!Intended(b, Found(i))
    BY <1>2, <2>1
  <2>. QED
    BY <2>2 DEF Comes
<1>. QED
  BY <1>1, <1>2

(* What the server makes of each write.                                    *)
LEMMA WriteComes ==
    ASSUME RowsAre(rows), DOMAIN rows # Crud!Ids, Crud!BuildersAssumption,
           NEW b, Crud!Goes(b), b.kind # "read",
           NEW ops \in Seq([op: {"replace", "test"}, field: {"f"}, value: {1}]),
           NEW s, s = IF Crud!Statement(b).op = "PATCH"
                      THEN [Crud!Statement(b) EXCEPT !.ops = ops]
                      ELSE Crud!Statement(b)
    PROVE  Comes(Crud!Serve(s), b, ops)
<1>. DEFINE o == Crud!Serve(s)
<1>1. /\ b.kind \in Crud!AllKinds /\ b.data \in Crud!Partial
      /\ b.ref \in Crud!Refs \cup {Crud!NoRef} /\ b.mergeMode \in BOOLEAN
  <2>1. /\ b.kind \in Kinds /\ b.data \in Crud!Partial
        /\ b.ref \in Crud!Refs \cup {Crud!NoRef} /\ b.mergeMode \in BOOLEAN
    BY Zenon DEF Crud!Goes
  <2>. QED
    BY <2>1 DEF Crud!BuildersAssumption
<1>2. /\ Crud!Verbatim(b.ref) \in Crud!Ids \cup {Crud!Elsewhere}
      /\ b.ref # Crud!NoRef =>
            Crud!Prefixed(b.ref) \in Crud!Ids \cup {Crud!Malformed}
  BY <1>1, TargetIs
<1>3. \A op, target, c : Crud!Content(op, target, c).op = op
  BY DEF Crud!Content
<1>4. CASE b.kind = "create"
  <2>. DEFINE target == IF b.ref = Crud!NoRef THEN Crud!Anew
                        ELSE Crud!Prefixed(b.ref)
  <2>1. Crud!Statement(b) = Crud!Content("CREATE", target, b.data)
    BY <1>4 DEF Crud!Statement, Crud!CreateStatement
  <2>2. target \in Crud!Ids \cup {Crud!Anew, Crud!Malformed}
    BY <1>2
  <2>. HIDE DEF target
  <2>3. s = Crud!Content("CREATE", target, b.data)
    BY <1>3, <2>1
  <2>4. Nothing(o) \/ \E id : PutAt(o, id, Crud!Over(b.data, Crud!Blank))
    BY <1>1, <2>2, <2>3, ServedCreate, Zenon
  <2>5. \A id : Crud!Intended(b, Found(id)) = Crud!Over(b.data, Crud!Blank)
    BY <1>4 DEF Crud!Intended
  <2>6. \A id : Crud!Over(b.data, Crud!Blank) = Crud!Intended(b, Found(id))
    BY <2>5
  <2>. QED
    BY <2>4, <2>6, ComesPut, Zenon
<1>5. CASE b.kind = "update"
  <2>. DEFINE op == IF b.mergeMode THEN "MERGE" ELSE "CONTENT"
              target == Crud!Verbatim(b.ref)
  <2>1. Crud!Statement(b) = Crud!Content(op, target, b.data)
    BY <1>5, Zenon DEF Crud!Statement, Crud!UpdateStatement
  <2>2. op \in {"CONTENT", "MERGE"} /\ op # "PATCH"
    BY <1>1
  <2>3. \A id : Crud!Intended(b, Found(id)) =
            Crud!Over(b.data, IF op = "MERGE" THEN Found(id) ELSE Crud!Blank)
    BY <1>1, <1>5 DEF Crud!Intended
  <2>. HIDE DEF target, op
  <2>4. s = Crud!Content(op, target, b.data)
    BY <1>3, <2>1, <2>2
  <2>5. \/ Nothing(o)
        \/ \E id : PutAt(o, id, Crud!Over(b.data,
                            IF op = "MERGE" THEN Found(id) ELSE Crud!Blank))
    BY <1>1, <1>2, <2>2, <2>4, ServedUpdate, Zenon DEF target
  <2>. QED
    BY <2>3, <2>5 DEF Comes
<1>6. CASE b.kind = "merge"
  <2>. DEFINE c == Crud!Overridden(b)
              target == Crud!Verbatim(b.ref)
  <2>1. Crud!Statement(b) = Crud!Content("MERGE", target, c)
    BY <1>6 DEF Crud!Statement, Crud!MergeStatement
  <2>2. c \in Crud!Partial /\ (Crud!Data \notin DOMAIN b.params => c = b.data)
    BY OverriddenIs
  <2>3. \A id : Crud!Intended(b, Found(id)) = Crud!Over(b.data, Found(id))
    BY <1>6 DEF Crud!Intended
  <2>. HIDE DEF target, c
  <2>4. s = Crud!Content("MERGE", target, c)
    BY <1>3, <2>1
  <2>5. Nothing(o) \/ \E id : PutAt(o, id, Crud!Over(c, Found(id)))
    <3>1. "MERGE" \in {"CONTENT", "MERGE"}
      OBVIOUS
    <3>. QED
      BY <1>2, <2>2, <2>4, <3>1, ServedUpdate, Zenon DEF target
  <2>. QED
    BY <2>2, <2>3, <2>5, Zenon DEF Comes
<1>7. CASE b.kind = "patch"
  <2>. DEFINE target == Crud!Verbatim(b.ref)
  <2>1. Crud!Statement(b) = [op |-> "PATCH", target |-> target, ops |-> b.ops]
    BY <1>7 DEF Crud!Statement, Crud!PatchStatement
  <2>2. \A id : Crud!Intended(b, Found(id)) = Crud!Patched(Found(id), b.ops)
    BY <1>7 DEF Crud!Intended
  <2>. HIDE DEF target
  <2>3. s = [op |-> "PATCH", target |-> target, ops |-> ops]
    BY <2>1
  <2>4. Nothing(o) \/ \E id : PutAt(o, id, Crud!Patched(Found(id), ops))
    BY <1>2, <2>3, ServedPatch, Zenon DEF target
  <2>. QED
    BY <2>2, <2>4, Zenon DEF Comes
<1>8. CASE b.kind = "delete"
  <2>. DEFINE target == Crud!Verbatim(b.ref)
  <2>1. Crud!Statement(b) = [op |-> "DELETE", target |-> target]
    BY <1>8 DEF Crud!Statement, Crud!DeleteStatement
  <2>. HIDE DEF target
  <2>2. s = [op |-> "DELETE", target |-> target]
    BY <2>1
  <2>3. Nothing(o) \/ Removed(o)
    BY <1>2, <2>2, ServedDelete, Zenon DEF target
  <2>. QED
    BY <2>3, Zenon DEF Comes
<1>9. CASE b.kind = "upsert"
  <2>. DEFINE c == Crud!Overridden(b)
              target == Crud!Prefixed(b.ref)
              where == [i \in DOMAIN b.conflict |->
                        [field |-> b.conflict[i], op |-> "=",
                         param |-> Crud!Conflict]]
              params_ == Crud!With(b.params, Crud!Conflict,
                            Crud!Over(b.data, Crud!Blank)[b.conflict[1]])
              twice == [op |-> "CONFLICT", target |-> Crud!Anew,
                        content |-> c, where |-> where, params |-> params_]
  <2>1. Crud!Statement(b) =
            IF b.ref # Crud!NoRef THEN Crud!Content("UPSERT", target, c)
            ELSE IF b.conflict = <<>> THEN Crud!Content("CREATE", Crud!Anew, c)
            ELSE twice
    <3>1. Crud!Statement(b) = Crud!UpsertStatement(b)
      BY <1>9 DEF Crud!Statement
    <3>. QED
      BY <3>1, Zenon DEF Crud!UpsertStatement
  <2>2. c \in Crud!Partial /\ (Crud!Data \notin DOMAIN b.params => c = b.data)
    BY OverriddenIs
  <2>3. \A id : Crud!Intended(b, Found(id)) = Crud!Over(b.data, Crud!Blank)
    BY <1>9 DEF Crud!Intended
  <2>4. twice.op = "CONFLICT" /\ twice.content = c
    <3>. HIDE DEF where, params_, c
    <3>. QED
      OBVIOUS
  <2>. HIDE DEF target, c, twice
  <2>8. Crud!Data \notin DOMAIN b.params =>
            \A id : Crud!Over(c, Crud!Blank) = Crud!Intended(b, Found(id))
    BY <2>2, <2>3
  <2>5. CASE b.ref # Crud!NoRef
    <3>1. s = Crud!Content("UPSERT", target, c)
      BY <1>3, <2>1, <2>5
    <3>2. Nothing(o) \/ \E id : PutAt(o, id, Crud!Over(c, Crud!Blank))
      BY <1>2, <2>2, <2>5, <3>1, ServedUpsert, Zenon DEF target
    <3>. QED
      BY <2>8, <3>2, ComesPut, Zenon
  <2>6. CASE b.ref = Crud!NoRef /\ b.conflict = <<>>
    <3>1. s = Crud!Content("CREATE", Crud!Anew, c)
      BY <1>3, <2>1, <2>6
    <3>2. Crud!Anew \in Crud!Ids \cup {Crud!Anew, Crud!Malformed}
      OBVIOUS
    <3>3. Nothing(o) \/ \E id : PutAt(o, id, Crud!Over(c, Crud!Blank))
      BY <2>2, <3>1, <3>2, ServedCreate, Zenon
    <3>. QED
      BY <2>8, <3>3, ComesPut, Zenon
  <2>7. CASE b.ref = Crud!NoRef /\ b.conflict # <<>>
    <3>1. s = twice
      BY <2>1, <2>4, <2>7
    <3>2. Unnamed(o)
      BY <2>2, <2>4, <3>1, ServedConflict
    <3>. QED
      BY <3>2, Zenon DEF Comes
  <2>. QED
    BY <2>5, <2>6, <2>7
<1>. QED
  BY <1>1, <1>4, <1>5, <1>6, <1>7, <1>8, <1>9 DEF Crud!AllKinds

(* What comes of a write is a table, and as WriteServed has it.            *)
LEMMA ComesWell ==
    ASSUME RowsAre(rows), NEW b, NEW ops, NEW o, Comes(o, b, ops)
    PROVE  /\ RowsAre(o.after)
           /\ ~o.refused /\ o.answer # <<>>
              /\ Crud!Data \notin DOMAIN b.params /\ b.ops = ops =>
                \E id \in Crud!Ids :
                    /\ o.answer = <<id>>
                    /\ o.after = Crud!With(rows, id,
                                           Crud!Intended(b, Found(id)))
<1>1. CASE Nothing(o)
  BY <1>1, Zenon DEF Nothing
<1>2. CASE Removed(o)
  <2>1. PICK id : o.after = [i \in DOMAIN rows \ {id} |-> rows[i]]
    BY <1>2, Zenon DEF Removed
  <2>2. RowsAre(o.after)
    BY <2>1 DEF RowsAre
  <2>. QED
    BY <1>2, <2>2, Zenon DEF Removed
<1>3. CASE Unnamed(o)
  BY <1>3, PutRows, Zenon DEF Unnamed
<1>4. ASSUME NEW id, NEW row, PutAt(o, id, row),
             Crud!Data \notin DOMAIN b.params /\ b.ops = ops =>
                row = Crud!Intended(b, Found(id))
      PROVE  /\ RowsAre(o.after)
             /\ ~o.refused /\ o.answer # <<>>
                /\ Crud!Data \notin DOMAIN b.params /\ b.ops = ops =>
                  \E i \in Crud!Ids :
                    /\ o.answer = <<i>>
                    /\ o.after = Crud!With(rows, i,
                                           Crud!Intended(b, Found(i)))
  BY <1>4, PutRows, Zenon DEF PutAt
<1>. QED
  BY <1>1, <1>2, <1>3, <1>4, Zenon DEF Comes

(* A read leaves the table, and finds what it was asked.                   *)
LEMMA ReadComes ==
    ASSUME NEW b, NEW a, Crud!Goes(b), Crud!Mirrors(b, a), b.kind = "read"
    PROVE  LET s == Crud!Statement(b)
               o == Crud!Serve(s)
           IN  /\ s.op = "SELECT" /\ o.after = rows
               /\ ~o.refused /\ b.groupBy = <<>>
                  /\ (a.size = Crud!None => a.from = 0) =>
                    o.answer = Crud!Window(
                        Crud!Ordered(Crud!Wanted(rows, a), b.orderBy),
                        a.from, a.size)
<1>. DEFINE s == Crud!Statement(b)
            o == Crud!Serve(s)
            ids == {i \in DOMAIN rows :
                      Crud!Matches(s.where, s.params, rows[i])}
            found == Crud!Ordered(Crud!Grouped(ids, s.groupBy), s.orderBy)
            from == IF s.start = Crud!None THEN 0 ELSE s.start
<1>1. s = Crud!BuildQuery(b)
  BY DEF Crud!Statement
<1>2. /\ s.op = "SELECT" /\ s.where = Crud!Conditions(b)
      /\ s.groupBy = b.groupBy /\ s.orderBy = b.orderBy
      /\ s.limit = b.limit
      /\ s.start = IF b.limit = Crud!None THEN Crud!None ELSE b.offset
  BY <1>1 DEF Crud!BuildQuery
<1>3. s.params = Crud!BuildQuery(b).params
  BY <1>1
<1>4. ids = Crud!Wanted(rows, a)
  <2>. HIDE DEF s
  <2>1. \A i : Crud!Matches(s.where, s.params, rows[i])
          <=> /\ \A w \in a.wheres : Crud!Holds(w[2], rows[i][w[1]], w[3])
              /\ \A x \in DOMAIN a.object : rows[i][x] = a.object[x]
    BY <1>2, <1>3, ReadFinds
  <2>. QED
    BY <2>1, Zenon DEF Crud!Wanted
<1>. HIDE DEF s
<1>5. o = Crud!ServeSelect(s)
  BY <1>2, Zenon DEF Crud!Serve
<1>6. o = IF s.having # <<>> THEN Crud!Refuse
          ELSE Crud!Accept(rows, Crud!Window(found, from, s.limit))
  BY <1>5, Zenon DEF Crud!ServeSelect
<1>. HIDE DEF o, found, from
<1>7. /\ o.after = rows
      /\ ~o.refused => o.answer = Crud!Window(found, from, s.limit)
  <2>1. CASE s.having # <<>>
    BY <1>6, <2>1, AnswersAre
  <2>2. CASE ~(s.having # <<>>)
    BY <1>6, <2>2, AnswersAre
  <2>. QED
    BY <2>1, <2>2
<1>8. ASSUME b.groupBy = <<>>, a.size = Crud!None => a.from = 0
      PROVE  /\ found = Crud!Ordered(Crud!Wanted(rows, a), b.orderBy)
             /\ from = a.from /\ s.limit = a.size
  <2>1. Crud!Grouped(ids, s.groupBy) = ids
    BY <1>2, <1>8, Zenon DEF Crud!Grouped
  <2>2. found = Crud!Ordered(Crud!Wanted(rows, a), b.orderBy)
    BY <1>2, <1>4, <2>1, Zenon DEF found
  <2>3. /\ a.size = b.limit
        /\ a.from = IF b.offset = Crud!None THEN 0 ELSE b.offset
    BY DEF Crud!Mirrors
  <2>4. from = a.from
    BY <1>2, <1>8, <2>3 DEF from
  <2>. QED
    BY <1>2, <2>2, <2>3, <2>4
<1>. QED
  BY <1>2, <1>7, <1>8, Zenon DEF s, o

(* The states and the fields of an execution.                              *)
CrudPhases == {"idle", "connecting", "sent", "returned", "failed", "lost"}
RequestFields == {"at", "first", "asked", "of", "statement", "before",
                  "after", "refused", "answer", "results"}

(* The types and the invariant, put together.                              *)
CrudIs ==
    /\ Crud!Goes(builder) /\ Crud!Mirrors(builder, asked)
    /\ RowsAre(rows)
    /\ DOMAIN requests = Tasks
    /\ \A t \in Tasks :
        /\ requests[t].at \in CrudPhases
        /\ requests[t].at # "idle" => Crud!Requested(requests[t], builder)
    /\ called \in 0 .. MaxCalls /\ faults \in 0 .. MaxFaults

(* They are the same.                                                      *)
LEMMA CrudParts == Crud!TypeOK /\ Crud!CrudInv <=> CrudIs
<1>1. Crud!Goes(builder) =>
        /\ builder.kind \in Kinds /\ builder.data \in Crud!Partial
        /\ builder.ref \in Crud!Refs \cup {Crud!NoRef}
        /\ {builder.limit, builder.offset} \subseteq Nat \cup {Crud!None}
        /\ builder.mapper \in {"none", "given", "throws"}
  BY Zenon DEF Crud!Goes
<1>. QED
  BY <1>1, Zenon DEF Crud!TypeOK, Crud!CrudInv, CrudIs, RowsAre, CrudPhases

(* A new builder mirrors that nothing was asked.                           *)
LEMMA CrudInitially ==
    ASSUME Crud!BuildersAssumption, Crud!Init
    PROVE  Crud!TypeOK /\ Crud!CrudInv
<1>1. PICK k \in Kinds, strict \in BOOLEAN,
           ref \in Crud!Refs \cup {Crud!NoRef},
           data \in {[f |-> 1], [f |-> 1, g |-> 2]} :
        builder = Crud!New(k, strict, ref, data)
  BY Zenon DEF Crud!Init
<1>2. data \in Crud!Partial /\ <<>> \in Crud!Partial
  <2>1. /\ [f |-> 1] \in [{"f"} -> 1 .. 2]
        /\ [f |-> 1, g |-> 2] \in [{"f", "g"} -> 1 .. 2]
    OBVIOUS
  <2>2. <<>> \in [{} -> 1 .. 2]
    <3>1. <<>> = [x \in {} |-> 1]
      OBVIOUS
    <3>. QED
      BY <3>1
  <2>3. {} \in SUBSET Crud!Fields /\ {"f"} \in SUBSET Crud!Fields
        /\ {"f", "g"} \in SUBSET Crud!Fields
    BY DEF Crud!Fields
  <2>. QED
    BY <2>1, <2>2, <2>3 DEF Crud!Partial
<1>3. Crud!Goes(builder)
  <2>1. /\ builder.kind = k /\ builder.ref = ref /\ builder.data = data
        /\ builder.conditions = <<>> /\ builder.whereObject = <<>>
        /\ builder.limit = Crud!None /\ builder.offset = Crud!None
        /\ builder.mapper = "none" /\ builder.mergeMode = TRUE
        /\ builder.ops = <<>> /\ builder.params = <<>>
    BY <1>1 DEF Crud!New, Crud!Empty
  <2>2. DOMAIN builder = DOMAIN Crud!New("read", FALSE, Crud!NoRef, Crud!Empty)
    BY <1>1 DEF Crud!New
  <2>3. /\ <<>> \in Seq([field: Crud!Fields, op: {"=", ">="}, value: 1 .. 2])
        /\ <<>> \in Seq([op: {"replace", "test"}, field: {"f"}, value: {1}])
        /\ Crud!Data \notin DOMAIN <<>>
    OBVIOUS
  <2>. QED
    BY <1>2, <2>1, <2>2, <2>3, Zenon DEF Crud!Goes
<1>4. Crud!Mirrors(builder, asked)
  <2>1. asked = [wheres |-> {}, object |-> <<>>, from |-> 0,
                 size |-> Crud!None]
    BY DEF Crud!Init, Crud!Empty
  <2>2. /\ builder.conditions = <<>> /\ builder.whereObject = <<>>
        /\ builder.limit = Crud!None /\ builder.offset = Crud!None
    BY <1>1 DEF Crud!New, Crud!Empty
  <2>3. DOMAIN builder.conditions = {}
    BY <2>2
  <2>. QED
    BY <2>1, <2>2, <2>3 DEF Crud!Mirrors
<1>5. RowsAre(rows)
  <2>1. rows = <<[f |-> 1, g |-> 1], [f |-> 1, g |-> 2]>>
    BY Zenon DEF Crud!Init
  <2>2. [f |-> 1, g |-> 1] \in Crud!Row /\ [f |-> 1, g |-> 2] \in Crud!Row
    BY DEF Crud!Row, Crud!Fields
  <2>3. DOMAIN rows = 1 .. 2 /\ rows[1] \in Crud!Row /\ rows[2] \in Crud!Row
    BY <2>1, <2>2
  <2>4. rows = [i \in 1 .. 2 |-> rows[i]]
    BY <2>1
  <2>5. \A i \in 1 .. 2 : rows[i] \in Crud!Row
    BY <2>3
  <2>. QED
    BY <2>3, <2>4, <2>5 DEF RowsAre, Crud!Ids
<1>6. /\ DOMAIN requests = Tasks
      /\ \A t \in Tasks : requests[t].at = "idle"
      /\ called = 0 /\ faults = 0
  BY DEF Crud!Init, Crud!NoRequest
<1>7. called \in 0 .. MaxCalls /\ faults \in 0 .. MaxFaults
  BY <1>6 DEF Crud!BuildersAssumption
<1>. QED
  BY <1>3, <1>4, <1>5, <1>6, <1>7, CrudParts DEF CrudIs, CrudPhases

(* A request stays as it is while the builder is called.                   *)
LEMMA RequestStays ==
    ASSUME NEW r, NEW b, NEW w, Crud!Requested(r, b), Crud!Goes(b),
           Crud!Goes(w), w.kind = b.kind,
           w.ops = b.ops \/ Len(w.ops) > Len(b.ops)
    PROVE  Crud!Requested(r, w)
<1>1. /\ Len(b.ops) \in Nat /\ Len(w.ops) \in Nat /\ Len(r.of.ops) \in Nat
      /\ Len(r.of.ops) <= Len(b.ops)
  <2>1. /\ b.ops \in Seq([op: {"replace", "test"}, field: {"f"}, value: {1}])
        /\ w.ops \in Seq([op: {"replace", "test"}, field: {"f"}, value: {1}])
        /\ r.of.ops \in
                Seq([op: {"replace", "test"}, field: {"f"}, value: {1}])
        /\ Len(r.of.ops) <= Len(b.ops)
    BY Zenon DEF Crud!Goes, Crud!Requested
  <2>. QED
    BY <2>1, LenProperties
<1>2. Len(r.of.ops) <= Len(w.ops)
  BY <1>1
<1>3. r.of.ops = w.ops => r.of.ops = b.ops
  BY <1>1
<1>4. Crud!WriteServed(r, b.ops) => Crud!WriteServed(r, w.ops)
  BY <1>3, Zenon DEF Crud!WriteServed
<1>. QED
  BY <1>2, <1>4, Zenon DEF Crud!Requested

(* A step of one execution.                                                *)
LEMMA RequestMoves ==
    ASSUME Crud!TypeOK, Crud!CrudInv, NEW t \in Tasks, NEW r,
           requests' = [requests EXCEPT ![t] = r],
           Crud!Goes(builder'), Crud!Mirrors(builder', asked'),
           builder'.kind = builder.kind, builder'.ops = builder.ops,
           Crud!Requested(r, builder'), r.at \in CrudPhases \ {"idle"},
           RowsAre(rows'), called' = called, faults' \in 0 .. MaxFaults
    PROVE  (Crud!TypeOK /\ Crud!CrudInv)'
<1>1. /\ Crud!Goes(builder) /\ DOMAIN requests = Tasks
      /\ \A u \in Tasks :
            /\ requests[u].at \in CrudPhases
            /\ requests[u].at # "idle" => Crud!Requested(requests[u], builder)
      /\ called' \in 0 .. MaxCalls
  BY CrudParts DEF CrudIs
<1>2. /\ DOMAIN requests' = Tasks /\ requests'[t] = r
      /\ \A u \in Tasks \ {t} : requests'[u] = requests[u]
  BY <1>1
<1>3. \A u \in Tasks :
        /\ requests'[u].at \in CrudPhases
        /\ requests'[u].at # "idle" => Crud!Requested(requests'[u], builder')
  <2>. TAKE u \in Tasks
  <2>1. CASE u = t
    BY <1>2, <2>1
  <2>2. CASE u # t
    BY <1>1, <1>2, <2>2, RequestStays
  <2>. QED
    BY <2>1, <2>2
<1>4. CrudIs'
  BY <1>1, <1>2, <1>3 DEF CrudIs
<1>. QED
  BY <1>4, CrudParts, PTL

(* execute() and first(): the statement is made.                           *)
LEMMA ExecuteStep ==
    ASSUME Crud!TypeOK, Crud!CrudInv, NEW t \in Tasks, NEW first \in BOOLEAN,
           Crud!Execute(t, first)
    PROVE  (Crud!TypeOK /\ Crud!CrudInv)'
<1>. DEFINE r == [at |-> "connecting", first |-> first, asked |-> asked',
                  of |-> builder', statement |-> Crud!Statement(builder'),
                  before |-> Crud!Empty, after |-> Crud!Empty,
                  refused |-> FALSE, answer |-> <<>>, results |-> <<>>]
<1>1. /\ first => builder.kind = "read"
      /\ builder' = IF first THEN [builder EXCEPT !.limit = 1] ELSE builder
      /\ asked' = IF first THEN [asked EXCEPT !.size = 1] ELSE asked
      /\ requests' = [requests EXCEPT ![t] = r]
      /\ UNCHANGED <<rows, called, faults>>
  BY DEF Crud!Execute
<1>2. Crud!Goes(builder) /\ Crud!Mirrors(builder, asked) /\ RowsAre(rows)
      /\ faults \in 0 .. MaxFaults
  BY CrudParts DEF CrudIs
<1>3. /\ Crud!Goes(builder') /\ Crud!Mirrors(builder', asked')
      /\ builder'.kind = builder.kind /\ builder'.ops = builder.ops
      /\ first => builder'.limit = 1
  <2>1. CASE first
    <3>1. /\ builder' = [builder EXCEPT !.limit = 1]
          /\ asked' = [asked EXCEPT !.size = 1]
      BY <1>1, <2>1
    <3>. QED
      BY <1>2, <3>1, LimitSet, Zenon
  <2>2. CASE ~first
    <3>1. builder' = builder /\ asked' = asked
      BY <1>1, <2>2
    <3>. QED
      BY <1>2, <2>2, <3>1, Zenon
  <2>. QED
    BY <2>1, <2>2
<1>4. /\ DOMAIN r = RequestFields
      /\ r.at = "connecting" /\ r.first = first /\ r.asked = asked'
      /\ r.of = builder' /\ r.statement = Crud!Statement(builder')
      /\ r.before = <<>>
  BY DEF RequestFields, Crud!Empty
<1>. HIDE DEF r
<1>5. Crud!Requested(r, builder')
  <2>1. Len(builder'.ops) <= Len(builder'.ops)
    <3>1. builder'.ops \in
            Seq([op: {"replace", "test"}, field: {"f"}, value: {1}])
      BY <1>3, Zenon DEF Crud!Goes
    <3>2. Len(builder'.ops) \in Nat
      BY <3>1, LenProperties
    <3>. QED
      BY <3>2
  <2>2. DOMAIN r.before \subseteq Crud!Ids
    BY <1>4
  <2>3. r.at \notin {"sent", "returned"}
    BY <1>4
  <2>4. r.first => r.of.kind = "read" /\ r.of.limit = 1
    BY <1>1, <1>3, <1>4
  <2>. QED
    BY <1>3, <1>4, <2>1, <2>2, <2>3, <2>4
       DEF Crud!Requested, RequestFields
<1>6. r.at \in CrudPhases \ {"idle"}
  BY <1>4 DEF CrudPhases
<1>7. RowsAre(rows') /\ called' = called /\ faults' \in 0 .. MaxFaults
  BY <1>1, <1>2
<1>. QED
  BY <1>1, <1>3, <1>5, <1>6, <1>7, RequestMoves

(* A request that is lost or fails promises nothing more.                  *)
LEMMA RequestEnds ==
    ASSUME NEW r, NEW b, Crud!Requested(r, b), NEW at \in {"lost", "failed"}
    PROVE  Crud!Requested([r EXCEPT !.at = at], b)
<1>. DEFINE w == [r EXCEPT !.at = at]
<1>1. DOMAIN r = RequestFields
  BY Zenon DEF Crud!Requested, RequestFields
<1>2. /\ DOMAIN w = RequestFields /\ w.at = at /\ w.first = r.first
      /\ w.asked = r.asked /\ w.of = r.of /\ w.before = r.before
  BY <1>1 DEF RequestFields
<1>. HIDE DEF w
<1>3. w.at \notin {"connecting", "sent", "returned"}
  BY <1>2
<1>4. Crud!Requested(w, b)
  BY <1>2, <1>3 DEF Crud!Requested, RequestFields
<1>. QED
  BY <1>4 DEF w

(* An execution ends without an answer.                                    *)
LEMMA EndStep ==
    ASSUME Crud!TypeOK, Crud!CrudInv, NEW t \in Tasks,
           NEW at \in {"lost", "failed"}, requests[t].at # "idle",
           Crud!Advance(t, [requests[t] EXCEPT !.at = at]),
           rows' = rows, faults' \in 0 .. MaxFaults
    PROVE  (Crud!TypeOK /\ Crud!CrudInv)'
<1>. DEFINE r == [requests[t] EXCEPT !.at = at]
<1>1. /\ requests' = [requests EXCEPT ![t] = r]
      /\ UNCHANGED <<builder, asked, called>>
  BY Zenon DEF Crud!Advance
<1>2. /\ Crud!Goes(builder) /\ Crud!Mirrors(builder, asked) /\ RowsAre(rows)
      /\ Crud!Requested(requests[t], builder)
  BY CrudParts DEF CrudIs
<1>3. Crud!Requested(r, builder)
  BY <1>2, RequestEnds
<1>4. r.at \in CrudPhases \ {"idle"}
  <2>1. "at" \in DOMAIN requests[t]
    BY <1>2 DEF Crud!Requested
  <2>2. r.at = at
    BY <2>1
  <2>. QED
    BY <2>2 DEF CrudPhases
<1>. HIDE DEF r
<1>5. /\ Crud!Goes(builder') /\ Crud!Mirrors(builder', asked')
      /\ builder'.kind = builder.kind /\ builder'.ops = builder.ops
      /\ Crud!Requested(r, builder') /\ RowsAre(rows')
      /\ called' = called
  BY <1>1, <1>2, <1>3, Zenon
<1>. QED
  BY <1>1, <1>4, <1>5, RequestMoves

(* The statement takes effect.                                             *)
LEMMA SendStep ==
    ASSUME Crud!BuildersAssumption, Crud!TypeOK, Crud!CrudInv,
           NEW t \in Tasks, Crud!Send(t)
    PROVE  (Crud!TypeOK /\ Crud!CrudInv)'
<1>. DEFINE q == requests[t]
            s == IF q.statement.op = "PATCH"
                 THEN [q.statement EXCEPT !.ops = builder.ops]
                 ELSE q.statement
            o == Crud!Serve(s)
            r == [q EXCEPT !.at = "sent", !.before = rows, !.after = o.after,
                           !.refused = o.refused, !.answer = o.answer]
<1>1. /\ q.at = "connecting" /\ DOMAIN rows # Crud!Ids
      /\ rows' = o.after /\ requests' = [requests EXCEPT ![t] = r]
      /\ UNCHANGED <<builder, asked, called, faults>>
  BY SMT DEF Crud!Send, Crud!Advance
<1>2. /\ Crud!Goes(builder) /\ Crud!Mirrors(builder, asked) /\ RowsAre(rows)
      /\ Crud!Requested(q, builder) /\ faults \in 0 .. MaxFaults
  BY <1>1, CrudParts DEF CrudIs
<1>3. /\ q.statement = Crud!Statement(q.of)
      /\ Crud!Goes(q.of) /\ Crud!Mirrors(q.of, q.asked)
      /\ DOMAIN q = RequestFields
  BY <1>1, <1>2, Zenon DEF Crud!Requested, RequestFields
<1>4. /\ DOMAIN r = RequestFields /\ r.at = "sent" /\ r.before = rows
      /\ r.after = o.after /\ r.refused = o.refused /\ r.answer = o.answer
      /\ r.of = q.of /\ r.asked = q.asked /\ r.first = q.first
  <2>. HIDE DEF q, o
  <2>. QED
    BY <1>3, SMT DEF RequestFields
<1>. HIDE DEF r, o, q, s
<1>5. ASSUME q.of.kind = "read"
      PROVE  /\ Crud!ReadServed(r) /\ Crud!WriteServed(r, builder.ops)
             /\ RowsAre(o.after)
  <2>1. /\ Crud!Statement(q.of).op = "SELECT"
        /\ Crud!Serve(Crud!Statement(q.of)).after = rows
    BY <1>3, <1>5, ReadComes
  <2>2. s = Crud!Statement(q.of)
    BY <1>3, <2>1 DEF s
  <2>3. ~o.refused /\ q.of.groupBy = <<>>
          /\ (q.asked.size = Crud!None => q.asked.from = 0) =>
            o.answer = Crud!Window(
                Crud!Ordered(Crud!Wanted(rows, q.asked), q.of.orderBy),
                q.asked.from, q.asked.size)
    BY <1>3, <1>5, <2>2, ReadComes DEF o
  <2>4. Crud!ReadServed(r) /\ Crud!WriteServed(r, builder.ops)
    BY <1>4, <1>5, <2>3 DEF Crud!ReadServed, Crud!WriteServed
  <2>5. RowsAre(o.after)
    BY <1>2, <2>1, <2>2 DEF o
  <2>. QED
    BY <2>4, <2>5
<1>6. ASSUME q.of.kind # "read"
      PROVE  /\ Crud!ReadServed(r) /\ Crud!WriteServed(r, builder.ops)
             /\ RowsAre(o.after)
  <2>1. builder.ops \in Seq([op: {"replace", "test"}, field: {"f"}, value: {1}])
    BY <1>2, Zenon DEF Crud!Goes
  <2>2. s = IF Crud!Statement(q.of).op = "PATCH"
            THEN [Crud!Statement(q.of) EXCEPT !.ops = builder.ops]
            ELSE Crud!Statement(q.of)
    BY <1>3 DEF s
  <2>3. Comes(o, q.of, builder.ops)
    BY <1>1, <1>2, <1>3, <1>6, <2>1, <2>2, WriteComes DEF o
  <2>4. /\ RowsAre(o.after)
        /\ ~o.refused /\ o.answer # <<>>
           /\ Crud!Data \notin DOMAIN q.of.params /\ q.of.ops = builder.ops =>
             \E id \in Crud!Ids :
                 /\ o.answer = <<id>>
                 /\ o.after = Crud!With(rows, id,
                                        Crud!Intended(q.of, Found(id)))
    BY <1>2, <2>3, ComesWell
  <2>5. Crud!ReadServed(r) /\ Crud!WriteServed(r, builder.ops)
    BY <1>4, <1>6, <2>4 DEF Crud!ReadServed, Crud!WriteServed, Found
  <2>. QED
    BY <2>4, <2>5
<1>7. /\ Crud!ReadServed(r) /\ Crud!WriteServed(r, builder.ops)
      /\ RowsAre(o.after)
  BY <1>5, <1>6
<1>8. Crud!Requested(r, builder)
  <2>1. DOMAIN r.before \subseteq Crud!Ids
    BY <1>2, <1>4 DEF RowsAre
  <2>2. /\ q.of.kind = builder.kind /\ Len(q.of.ops) <= Len(builder.ops)
        /\ q.first \in BOOLEAN
        /\ q.first => q.of.kind = "read" /\ q.of.limit = 1
    BY <1>2, Zenon DEF Crud!Requested
  <2>. QED
    BY <1>3, <1>4, <1>7, <2>1, <2>2 DEF Crud!Requested, RequestFields
<1>9. r.at \in CrudPhases \ {"idle"}
  BY <1>4 DEF CrudPhases
<1>10. /\ Crud!Goes(builder') /\ Crud!Mirrors(builder', asked')
       /\ builder'.kind = builder.kind /\ builder'.ops = builder.ops
       /\ Crud!Requested(r, builder') /\ RowsAre(rows')
       /\ called' = called /\ faults' \in 0 .. MaxFaults
  BY <1>1, <1>2, <1>7, <1>8, Zenon
<1>. QED
  BY <1>1, <1>9, <1>10, RequestMoves

(* The answer comes back.                                                  *)
LEMMA AnswerStep ==
    ASSUME Crud!TypeOK, Crud!CrudInv, NEW t \in Tasks, Crud!Answer(t)
    PROVE  (Crud!TypeOK /\ Crud!CrudInv)'
<1>. DEFINE q == requests[t]
            single == q.first \/ builder.kind # "read"
            returns == /\ ~q.refused
                       /\ builder.kind # "read" => q.answer # <<>>
                       /\ Crud!Mappable(q.answer)
            out == IF single THEN Crud!Window(q.answer, 0, 1) ELSE q.answer
            r == [q EXCEPT !.at = "returned", !.results = out]
<1>1. /\ q.at = "sent"
      /\ IF returns THEN Crud!Advance(t, r)
         ELSE Crud!Advance(t, [q EXCEPT !.at = "failed"])
      /\ UNCHANGED <<rows, faults>>
  BY SMT DEF Crud!Answer
<1>2. /\ Crud!Goes(builder) /\ Crud!Mirrors(builder, asked) /\ RowsAre(rows)
      /\ Crud!Requested(q, builder) /\ faults \in 0 .. MaxFaults
  BY <1>1, CrudParts DEF CrudIs
<1>3. CASE ~returns
  <2>1. Crud!Advance(t, [q EXCEPT !.at = "failed"])
    BY <1>1, <1>3
  <2>2. q.at # "idle" /\ rows' = rows /\ faults' \in 0 .. MaxFaults
    BY <1>1, <1>2
  <2>3. "failed" \in {"lost", "failed"}
    OBVIOUS
  <2>. QED
    BY <2>1, <2>2, <2>3, EndStep
<1>4. CASE returns
  <2>1. /\ requests' = [requests EXCEPT ![t] = r]
        /\ UNCHANGED <<builder, asked, called>>
    <3>. HIDE DEF r, returns
    <3>. QED
      BY <1>1, <1>4, Zenon DEF Crud!Advance
  <2>2. DOMAIN q = RequestFields
    BY <1>2, Zenon DEF Crud!Requested, RequestFields
  <2>3. /\ DOMAIN r = RequestFields /\ r.at = "returned" /\ r.results = out
        /\ r.first = q.first /\ r.asked = q.asked /\ r.of = q.of
        /\ r.before = q.before /\ r.after = q.after /\ r.refused = q.refused
        /\ r.answer = q.answer
    <3>. HIDE DEF q, out
    <3>. QED
      BY <2>2, SMT DEF RequestFields
  <2>4. /\ Crud!Goes(q.of) /\ Crud!Mirrors(q.of, q.asked)
        /\ q.of.kind = builder.kind /\ Len(q.of.ops) <= Len(builder.ops)
        /\ q.first \in BOOLEAN
        /\ q.first => q.of.kind = "read" /\ q.of.limit = 1
        /\ DOMAIN q.before \subseteq Crud!Ids
    BY <1>2, Zenon DEF Crud!Requested
  <2>4a. Crud!ReadServed(q) /\ Crud!WriteServed(q, builder.ops)
    BY <1>1, <1>2 DEF Crud!Requested
  <2>. HIDE DEF r
  <2>5. Crud!ReadServed(r) /\ Crud!WriteServed(r, builder.ops)
    <3>. HIDE DEF q
    <3>. QED
      BY <2>3, <2>4a, Zenon DEF Crud!ReadServed, Crud!WriteServed
  <2>6. /\ ~r.refused /\ (r.of.kind # "read" => r.answer # <<>>)
        /\ r.results = IF r.first \/ r.of.kind # "read"
                       THEN Crud!Window(r.answer, 0, 1) ELSE r.answer
    BY <1>4, <2>3, <2>4
  <2>. HIDE DEF q
  <2>7. Crud!Requested(r, builder)
    BY <2>3, <2>4, <2>5, <2>6 DEF Crud!Requested, RequestFields
  <2>8. r.at \in CrudPhases \ {"idle"}
    BY <2>3 DEF CrudPhases
  <2>9. /\ Crud!Goes(builder') /\ Crud!Mirrors(builder', asked')
        /\ builder'.kind = builder.kind /\ builder'.ops = builder.ops
        /\ Crud!Requested(r, builder') /\ RowsAre(rows')
        /\ called' = called /\ faults' \in 0 .. MaxFaults
    BY <1>1, <1>2, <2>1, <2>7, Zenon
  <2>. QED
    BY <2>1, <2>8, <2>9, RequestMoves
<1>. QED
  BY <1>3, <1>4

(* Each step keeps the types and the invariant.                            *)
LEMMA CrudStep ==
    ASSUME Crud!BuildersAssumption, Crud!TypeOK, Crud!CrudInv, Crud!Next
    PROVE  (Crud!TypeOK /\ Crud!CrudInv)'
<1>0. CrudIs
  BY CrudParts
<1>1. CASE Crud!Method
  <2>1. MethodKept
    BY <1>0, <1>1, MethodKeeps DEF CrudIs
  <2>2. /\ called < MaxCalls /\ called' = called + 1
        /\ UNCHANGED <<rows, requests, faults>>
    BY <1>1, MethodCalls
  <2>3. called' \in 0 .. MaxCalls
    BY <1>0, <2>2 DEF CrudIs, Crud!BuildersAssumption
  <2>4. \A t \in Tasks : requests[t].at # "idle" =>
            Crud!Requested(requests[t], builder')
    BY <1>0, <2>1, RequestStays, Zenon DEF CrudIs, MethodKept
  <2>5. CrudIs'
    BY <1>0, <2>1, <2>2, <2>3, <2>4 DEF CrudIs, MethodKept
  <2>. QED
    BY <2>5, CrudParts, PTL
<1>2. ASSUME NEW t \in Tasks,
             \/ \E first \in BOOLEAN : Crud!Execute(t, first)
             \/ Crud!ConnectFails(t) \/ Crud!Send(t) \/ Crud!LoseAnswer(t)
             \/ Crud!Answer(t)
      PROVE  (Crud!TypeOK /\ Crud!CrudInv)'
  <2>1. CASE \E first \in BOOLEAN : Crud!Execute(t, first)
    BY <2>1, ExecuteStep
  <2>2. CASE Crud!ConnectFails(t) \/ Crud!LoseAnswer(t)
    <3>1. /\ requests[t].at # "idle" /\ rows' = rows
          /\ faults < MaxFaults /\ faults' = faults + 1
          /\ Crud!Advance(t, [requests[t] EXCEPT !.at = "lost"])
      BY <2>2, SMT DEF Crud!ConnectFails, Crud!LoseAnswer
    <3>2. faults' \in 0 .. MaxFaults
      BY <1>0, <3>1 DEF CrudIs, Crud!BuildersAssumption
    <3>3. "lost" \in {"lost", "failed"}
      OBVIOUS
    <3>. QED
      BY <3>1, <3>2, <3>3, EndStep
  <2>3. CASE Crud!Send(t)
    BY <2>3, SendStep
  <2>4. CASE Crud!Answer(t)
    BY <2>4, AnswerStep
  <2>. QED
    BY <1>2, <2>1, <2>2, <2>3, <2>4
<1>. QED
  BY <1>1, <1>2, Zenon DEF Crud!Next

(* A read that returned has what the server answered, and first() the      *)
(* first of it.                                                            *)
LEMMA ReadsAnswer ==
    ASSUME NEW r, NEW b, Crud!Requested(r, b), r.at = "returned",
           r.of.kind = "read", r.of.groupBy = <<>>,
           r.asked.size = Crud!None => r.asked.from = 0
    PROVE  r.results = Crud!Window(
                Crud!Ordered(Crud!Wanted(r.before, r.asked), r.of.orderBy),
                r.asked.from, r.asked.size)
<1>. DEFINE ids == Crud!Wanted(r.before, r.asked)
            all == Crud!Ordered(ids, r.of.orderBy)
            part == Crud!Window(all, r.asked.from, r.asked.size)
<1>1. /\ Crud!ReadServed(r) /\ ~r.refused
      /\ r.results = IF r.first \/ r.of.kind # "read"
                     THEN Crud!Window(r.answer, 0, 1) ELSE r.answer
      /\ Crud!Goes(r.of) /\ Crud!Mirrors(r.of, r.asked)
      /\ r.first => r.of.limit = 1
      /\ DOMAIN r.before \subseteq Crud!Ids
  BY DEF Crud!Requested
<1>2. r.answer = part
  BY <1>1, Zenon DEF Crud!ReadServed
<1>3. CASE ~r.first
  BY <1>1, <1>2, <1>3, Zenon
<1>4. CASE r.first
  <2>1. ids \in SUBSET (1 .. 3)
    BY <1>1 DEF Crud!Wanted, Crud!Ids
  <2>2. PICK X : all \in Seq(X)
    <3>. HIDE DEF ids
    <3>. QED
      BY <2>1, OrderedIs
  <2>3. r.asked.size = 1 /\ r.asked.from \in Nat
    <3>1. r.of.offset \in Nat \cup {Crud!None}
      BY <1>1, Zenon DEF Crud!Goes
    <3>. QED
      BY <1>1, <1>4, <3>1 DEF Crud!Mirrors
  <2>4. r.results = Crud!Window(r.answer, 0, 1)
    BY <1>1, <1>4, Zenon
  <2>. HIDE DEF all
  <2>5. Crud!Window(Crud!Window(all, r.asked.from, 1), 0, 1)
            = Crud!Window(all, r.asked.from, 1)
    BY <2>2, <2>3, WindowOnce
  <2>6. r.results = part
    BY <1>2, <2>3, <2>4, <2>5
  <2>. QED
    BY <2>6 DEF all
<1>. QED
  BY <1>3, <1>4

(* A write that returned has changed the record it returns.                *)
LEMMA WritesAnswer ==
    ASSUME NEW r, NEW b, Crud!Requested(r, b), r.at = "returned",
           r.of.kind # "read", Crud!Data \notin DOMAIN r.of.params,
           r.of.ops = b.ops
    PROVE  LET id == r.results[1]
               row == IF id \in DOMAIN r.before THEN r.before[id]
                      ELSE Crud!Blank
           IN  r.after = Crud!With(r.before, id, Crud!Intended(r.of, row))
<1>1. /\ Crud!WriteServed(r, b.ops) /\ ~r.refused /\ r.answer # <<>>
      /\ r.results = Crud!Window(r.answer, 0, 1)
  BY DEF Crud!Requested
<1>2. PICK id : /\ r.answer = <<id>>
                /\ r.after = Crud!With(r.before, id, Crud!Intended(r.of,
                        IF id \in DOMAIN r.before THEN r.before[id]
                        ELSE Crud!Blank))
  BY <1>1, Zenon DEF Crud!WriteServed
<1>3. r.results = <<id>>
  BY <1>1, <1>2, FirstOfOne
<1>4. r.results[1] = id
  BY <1>3
<1>. QED
  BY <1>2, <1>4, Zenon

(* A builder is what its methods made of it and mirrors what a read was    *)
(* asked; each execution has the statement of the builder as it was then,  *)
(* and what the server made of it is what was asked (crud/*.ts).           *)
THEOREM CrudInvariant == Spec => [](Crud!TypeOK /\ Crud!CrudInv)
<1>. USE PartsAssumption
<1>1. Init => Crud!TypeOK /\ Crud!CrudInv
  BY CrudInitially DEF Init
<1>2. Crud!TypeOK /\ Crud!CrudInv /\ [Next]_vars
        => (Crud!TypeOK /\ Crud!CrudInv)'
  <2>. SUFFICES ASSUME Crud!TypeOK, Crud!CrudInv, [Next]_vars
                PROVE  (Crud!TypeOK /\ Crud!CrudInv)'
    OBVIOUS
  <2>1. CASE Crud!Next
    BY <2>1, CrudStep
  <2>2. CASE UNCHANGED crudVars
    <3>1. CrudIs
      BY CrudParts
    <3>2. CrudIs'
      BY <2>2, <3>1, Zenon DEF crudVars, CrudIs, RowsAre
    <3>. QED
      BY <3>2, CrudParts, PTL
  <2>. QED
    BY <2>1, <2>2, OnePartMoves
<1>. QED
  BY <1>1, <1>2, PTL DEF Spec

(* A read answers what its builder was asked, whatever else the caller     *)
(* bound and whatever was called on the builder since; a write that        *)
(* returned has changed the one record that it returns, as it was asked,   *)
(* whichever other executions ran in between (crud/*.ts).                  *)
THEOREM BuildersAreAnswered == Spec => []CrudHolds
<1>1. Crud!TypeOK /\ Crud!CrudInv => CrudHolds
  <2>. SUFFICES ASSUME Crud!TypeOK, Crud!CrudInv
                PROVE  CrudHolds
    OBVIOUS
  <2>1. \A t \in Tasks : requests[t].at = "returned" =>
            Crud!Requested(requests[t], builder)
    BY DEF Crud!CrudInv
  <2>2. Crud!ReadAnswersTheCalls
    BY <2>1, ReadsAnswer, Zenon DEF Crud!ReadAnswersTheCalls
  <2>3. Crud!WritesAsAsked
    BY <2>1, WritesAnswer, Zenon DEF Crud!WritesAsAsked
  <2>. QED
    BY <2>2, <2>3 DEF CrudHolds
<1>. QED
  BY <1>1, CrudInvariant, PTL

---------------------------------------------------------------------------
(* query/builder.ts: queries derived from one another                      *)

(* The last call of a kind, if there is one, is a call behind which there  *)
(* is no other of that kind.                                               *)
LEMMA LastIs ==
    ASSUME NEW X, NEW hist \in Seq(X), NEW kinds,
           NEW n \in DOMAIN hist, hist[n].method \in kinds
    PROVE  \E i \in DOMAIN hist :
            /\ hist[i].method \in kinds
            /\ \A j \in DOMAIN hist : hist[j].method \in kinds => j <= i
            /\ Query!Last(hist, kinds) = hist[i]
<1>. DEFINE hits == {i \in DOMAIN hist : hist[i].method \in kinds}
            above == {k \in Nat : \A i \in hits : i <= k}
            greatest(i) == i \in hits /\ \A j \in hits : j <= i
<1>1. Len(hist) \in Nat /\ DOMAIN hist = 1 .. Len(hist)
  OBVIOUS
<1>2. hits # {} /\ \A i \in hits : i \in Nat \ {0} /\ i <= Len(hist)
  BY <1>1
<1>3. Len(hist) \in above
  BY <1>1, <1>2
<1>4. PICK k \in above : \A m \in above : k <= m
  <2>. above \in SUBSET Nat /\ above # {}
    BY <1>3
  <2>. QED
    BY LeastNat
<1>5. k \in hits
  <2>. SUFFICES ASSUME k \notin hits
                PROVE  FALSE
    OBVIOUS
  <2>1. k \in Nat /\ \A i \in hits : i <= k /\ i # k
    BY <1>4
  <2>2. k - 1 \in above
    BY <1>2, <2>1
  <2>. QED
    BY <1>4, <2>1, <2>2
<1>6. greatest(k)
  BY <1>4, <1>5
<1>. DEFINE i == CHOOSE i \in hits : \A j \in hits : j <= i
<1>7. i \in hits /\ \A j \in hits : j <= i
  BY <1>6
<1>8. Query!Last(hist, kinds) = hist[i]
  BY <1>2 DEF Query!Last
<1>. QED
  BY <1>7, <1>8

(* Where there is none of a kind, the last one is no call.                 *)
LEMMA LastOfNone ==
    ASSUME NEW hist, NEW kinds,
           \A n \in DOMAIN hist : hist[n].method \notin kinds
    PROVE  Query!Last(hist, kinds) = [method |-> "null", arg |-> "null"]
BY DEF Query!Last, Query!Call, Query!Null

(* Another call is the last of its kinds; of the others it is not.         *)
LEMMA LastAppends ==
    ASSUME NEW X, NEW hist \in Seq(X), NEW c \in X, NEW kinds
    PROVE  Query!Last(Append(hist, c), kinds) =
            IF c.method \in kinds THEN c ELSE Query!Last(hist, kinds)
<1>. DEFINE all == Append(hist, c)
            n == Len(hist) + 1
<1>1. /\ all \in Seq(X) /\ DOMAIN all = 1 .. n /\ all[n] = c /\ n \in Nat \ {0}
      /\ DOMAIN hist = 1 .. n - 1
      /\ \A i \in 1 .. n - 1 : all[i] = hist[i]
  BY AppendProperties
<1>. HIDE DEF all, n
<1>2. CASE c.method \in kinds
  <2>1. n \in DOMAIN all /\ all[n].method \in kinds
    BY <1>1, <1>2
  <2>2. PICK i \in DOMAIN all :
            /\ all[i].method \in kinds
            /\ \A j \in DOMAIN all : all[j].method \in kinds => j <= i
            /\ Query!Last(all, kinds) = all[i]
    BY <1>1, <2>1, LastIs
  <2>3. i = n
    BY <1>1, <2>1, <2>2
  <2>. QED
    BY <1>1, <1>2, <2>2, <2>3 DEF all
<1>3. CASE c.method \notin kinds
  <2>1. CASE \A i \in DOMAIN hist : hist[i].method \notin kinds
    <3>1. \A i \in DOMAIN all : all[i].method \notin kinds
      BY <1>1, <1>3, <2>1
    <3>. QED
      BY <1>3, <2>1, <3>1, LastOfNone DEF all
  <2>2. CASE \E i \in DOMAIN hist : hist[i].method \in kinds
    <3>1. PICK i \in DOMAIN hist :
            /\ hist[i].method \in kinds
            /\ \A j \in DOMAIN hist : hist[j].method \in kinds => j <= i
            /\ Query!Last(hist, kinds) = hist[i]
      BY <2>2, LastIs
    <3>2. i \in DOMAIN all /\ all[i].method \in kinds
      BY <1>1, <3>1
    <3>3. PICK k \in DOMAIN all :
            /\ all[k].method \in kinds
            /\ \A j \in DOMAIN all : all[j].method \in kinds => j <= k
            /\ Query!Last(all, kinds) = all[k]
      BY <1>1, <3>2, LastIs
    <3>4. k # n
      BY <1>1, <1>3, <3>3
    <3>5. k = i
      BY <1>1, <3>1, <3>2, <3>3, <3>4
    <3>. QED
      BY <1>1, <1>3, <3>1, <3>3, <3>5 DEF all
  <2>. QED
    BY <2>1, <2>2
<1>. QED
  BY <1>2, <1>3

(* Conditions in the order of their calls.                                 *)
LEMMA OrderAppends ==
    ASSUME NEW X, NEW Y, NEW hist \in Seq(X), NEW c \in X,
           NEW conditions \in Seq(Y), Query!InOrder(conditions, hist),
           c.method = "where" => c.condition \in Y
    PROVE  Query!InOrder(IF c.method = "where" THEN Append(conditions, c.condition)
                         ELSE conditions, Append(hist, c))
<1>. DEFINE all == Append(hist, c)
            n == Len(hist) + 1
            m == Len(conditions)
<1>1. /\ DOMAIN all = 1 .. n /\ all[n] = c /\ n \in Nat \ {0}
      /\ DOMAIN hist = 1 .. n - 1
      /\ \A i \in 1 .. n - 1 : all[i] = hist[i]
  BY AppendProperties
<1>2. m \in Nat /\ DOMAIN conditions = 1 .. m
  OBVIOUS
<1>3. PICK place \in [1 .. m -> 1 .. n - 1] :
        /\ {place[k] : k \in 1 .. m} =
               {i \in 1 .. n - 1 : hist[i].method = "where"}
        /\ \A j, k \in 1 .. m : j < k => place[j] < place[k]
        /\ \A k \in 1 .. m : conditions[k] = hist[place[k]].condition
  BY <1>1, <1>2 DEF Query!InOrder
<1>4. CASE c.method = "where"
  <2>. DEFINE more == Append(conditions, c.condition)
              at == [k \in 1 .. m + 1 |-> IF k = m + 1 THEN n ELSE place[k]]
  <2>1. /\ DOMAIN more = 1 .. m + 1 /\ more[m + 1] = c.condition
        /\ \A k \in 1 .. m : more[k] = conditions[k]
    BY <1>2, <1>4, AppendProperties
  <2>. HIDE DEF all, n, m, more
  <2>2. at \in [1 .. m + 1 -> 1 .. n]
    <3>1. \A k \in 1 .. m + 1 : k # m + 1 => k \in 1 .. m
      BY <1>2
    <3>2. \A k \in 1 .. m : place[k] \in 1 .. n
      BY <1>1, <1>3
    <3>3. n \in 1 .. n
      BY <1>1
    <3>. QED
      BY <3>1, <3>2, <3>3
  <2>2a. \A k \in 1 .. m : at[k] = place[k] /\ place[k] \in 1 .. n - 1
    BY <1>1, <1>2, <1>3
  <2>2b. at[m + 1] = n
    BY <1>2
  <2>. HIDE DEF at
  <2>3. {at[k] : k \in 1 .. m + 1} = {i \in 1 .. n : all[i].method = "where"}
    <3>1. \A k \in 1 .. m + 1 : at[k] \in 1 .. n /\ all[at[k]].method = "where"
      <4>1. \A k \in 1 .. m + 1 : k # m + 1 => k \in 1 .. m
        BY <1>2
      <4>2. \A k \in 1 .. m : hist[place[k]].method = "where"
        BY <1>3
      <4>3. \A k \in 1 .. m : all[at[k]].method = "where"
        BY <1>1, <2>2a, <4>2
      <4>4. all[at[m + 1]].method = "where"
        BY <1>1, <1>4, <2>2b
      <4>. QED
        BY <2>2, <4>1, <4>3, <4>4
    <3>2. ASSUME NEW i \in 1 .. n, all[i].method = "where"
          PROVE  \E k \in 1 .. m + 1 : at[k] = i
      <4>1. CASE i = n
        <5>1. m + 1 \in 1 .. m + 1 /\ at[m + 1] = i
          BY <1>2, <2>2b, <4>1
        <5>. QED
          BY <5>1
      <4>2. CASE i # n
        <5>1. i \in 1 .. n - 1 /\ hist[i].method = "where"
          BY <1>1, <3>2, <4>2
        <5>2. PICK k \in 1 .. m : place[k] = i
          BY <1>3, <5>1
        <5>3. k \in 1 .. m + 1 /\ at[k] = i
          BY <1>2, <2>2a, <5>2
        <5>. QED
          BY <5>3
      <4>. QED
        BY <4>1, <4>2
    <3>. QED
      BY <3>1, <3>2
  <2>4. \A j, k \in 1 .. m + 1 : j < k => at[j] < at[k]
    <3>. SUFFICES ASSUME NEW j \in 1 .. m + 1, NEW k \in 1 .. m + 1, j < k
                  PROVE  at[j] < at[k]
      OBVIOUS
    <3>1. j \in 1 .. m
      BY <1>2
    <3>2. CASE k = m + 1
      BY <1>1, <2>2a, <2>2b, <3>1, <3>2
    <3>3. CASE k # m + 1
      <4>1. k \in 1 .. m
        BY <1>2, <3>3
      <4>. QED
        BY <1>3, <2>2a, <3>1, <4>1
    <3>. QED
      BY <3>2, <3>3
  <2>5. \A k \in 1 .. m + 1 : more[k] = all[at[k]].condition
    <3>. SUFFICES ASSUME NEW k \in 1 .. m + 1
                  PROVE  more[k] = all[at[k]].condition
      OBVIOUS
    <3>1. CASE k = m + 1
      BY <1>1, <2>1, <2>2b, <3>1
    <3>2. CASE k # m + 1
      <4>1. k \in 1 .. m
        BY <1>2, <3>2
      <4>. QED
        BY <1>1, <1>3, <2>1, <2>2a, <4>1
    <3>. QED
      BY <3>1, <3>2
  <2>6. Query!InOrder(more, all)
    <3>1. DOMAIN all = 1 .. n
      BY <1>1
    <3>2. /\ at \in [DOMAIN more -> DOMAIN all]
          /\ {at[k] : k \in DOMAIN more} =
                 {i \in DOMAIN all : all[i].method = "where"}
          /\ \A j, k \in DOMAIN more : j < k => at[j] < at[k]
          /\ \A k \in DOMAIN more : more[k] = all[at[k]].condition
      BY <2>1, <2>2, <2>3, <2>4, <2>5, <3>1
    <3>. QED
      BY <3>2, Zenon DEF Query!InOrder
  <2>. QED
    BY <1>4, <2>6 DEF more, all
<1>5. CASE c.method # "where"
  <2>. HIDE DEF all, n, m
  <2>1. place \in [1 .. m -> 1 .. n]
    BY <1>1, <1>3
  <2>2. {place[k] : k \in 1 .. m} = {i \in 1 .. n : all[i].method = "where"}
    <3>1. \A i \in 1 .. n : all[i].method = "where" =>
            i \in 1 .. n - 1 /\ hist[i].method = "where"
      BY <1>1, <1>5
    <3>2. \A i \in 1 .. n - 1 : i \in 1 .. n /\ all[i] = hist[i]
      BY <1>1
    <3>3. {i \in 1 .. n : all[i].method = "where"} =
            {i \in 1 .. n - 1 : hist[i].method = "where"}
      BY <3>1, <3>2
    <3>. QED
      BY <1>3, <3>3
  <2>3. \A k \in 1 .. m : conditions[k] = all[place[k]].condition
    BY <1>1, <1>3
  <2>4. Query!InOrder(conditions, all)
    <3>1. DOMAIN all = 1 .. n
      BY <1>1
    <3>2. \A j, k \in 1 .. m : j < k => place[j] < place[k]
      BY <1>3
    <3>3. /\ place \in [DOMAIN conditions -> DOMAIN all]
          /\ {place[k] : k \in DOMAIN conditions} =
                 {i \in DOMAIN all : all[i].method = "where"}
          /\ \A j, k \in DOMAIN conditions : j < k => place[j] < place[k]
          /\ \A k \in DOMAIN conditions : conditions[k] = all[place[k]].condition
      BY <1>2, <2>1, <2>2, <2>3, <3>1, <3>2
    <3>. QED
      BY <3>3, Zenon DEF Query!InOrder
  <2>. QED
    BY <1>5, <2>4 DEF all
<1>. QED
  BY <1>4, <1>5

QueryMethods == Query!Operations \cup Query!Searches \cup
    {"fromTable", "where", "orderBy", "groupBy", "groupAll", "limit", "offset",
     "traverse", "returnFormat", "withHint", "searchScore"}

(* The calls that are made.                                                *)
LEMMA CallableIs ==
    ASSUME NEW c \in Query!Callable
    PROVE  /\ c.method \in QueryMethods
           /\ c.method \in Query!Searches => c.arg # Query!Null
           /\ c.method = "where" => c.condition \in Query!Conditions
<1>1. CASE c \in {Query!Condition(d) : d \in Query!Conditions}
  BY <1>1 DEF Query!Condition, Query!Conditions, QueryMethods, Query!Searches
<1>2. CASE c \in {Query!Call(o, "a") : o \in Query!Operations}
  BY <1>2 DEF Query!Call, Query!Operations, QueryMethods, Query!Searches
<1>3. CASE /\ c \notin {Query!Condition(d) : d \in Query!Conditions}
           /\ c \notin {Query!Call(o, "a") : o \in Query!Operations}
  <2>1. \E m \in QueryMethods \ {"where"}, a \in {"y", "b", "1", "v", "w", "text", "g",
            "path", "DIFF", "h", "x", "*", "a"} : c = Query!Call(m, a)
        \/ c \in {Query!Call("searchScore", Query!Null), Query!Call("groupAll", Query!Null)}
    BY <1>3 DEF Query!Callable, Query!Calls, Query!Rest, QueryMethods,
        Query!Searches, Query!Operations
  <2>. QED
    BY <2>1 DEF Query!Call, Query!Null, QueryMethods, Query!Searches, Query!Operations
<1>. QED
  BY <1>1, <1>2, <1>3

(* What a call sets of what the statement is rendered from.                *)
LEMMA WithSets ==
    ASSUME NEW s, DOMAIN s = DOMAIN Query!DefaultState,
           NEW c, c.method \in QueryMethods
    PROVE  LET t == Query!With(s, c) IN
           /\ DOMAIN t = DOMAIN Query!DefaultState
           /\ t.operation = IF c.method \in Query!Operations THEN c.method
                            ELSE s.operation
           /\ t.table = IF c.method \in Query!Targets THEN c.arg ELSE s.table
           /\ t.edge = IF c.method \in {"relate"} THEN c.arg ELSE s.edge
           /\ t.limit = IF c.method \in {"limit"} THEN c.arg ELSE s.limit
           /\ t.offset = IF c.method \in {"offset"} THEN c.arg ELSE s.offset
           /\ t.fulltext = IF c.method \in {"fulltextSearch"} THEN c.arg
                           ELSE s.fulltext
           /\ t.vectorField =
                IF c.method \in {"vectorSearch", "vectorSearchIndexed"} THEN c.arg
                ELSE s.vectorField
           /\ t.vectorEf = IF c.method = "vectorSearch" THEN Query!Null
                           ELSE IF c.method = "vectorSearchIndexed" THEN "ef"
                           ELSE s.vectorEf
           /\ t.conditions = IF c.method = "where"
                             THEN Append(s.conditions, c.condition)
                             ELSE s.conditions
<1>. DEFINE t == Query!With(s, c)
<1>. USE DEF Query!DefaultState, Query!With, Query!Operations, Query!Searches,
             Query!Targets, Query!Null
<1>1. CASE c.method = "select"
  BY <1>1 DEF Query!WithOperation
<1>2. CASE c.method \in {"insert", "update", "upsert"}
  BY <1>2 DEF Query!WithOperation
<1>3. CASE c.method = "delete"
  BY <1>3 DEF Query!WithOperation
<1>4. CASE c.method = "relate"
  BY <1>4 DEF Query!WithOperation
<1>5. CASE c.method = "vectorSearch"
  BY <1>5 DEF Query!WithSearch
<1>6. CASE c.method = "vectorSearchIndexed"
  BY <1>6 DEF Query!WithSearch
<1>7. CASE c.method = "fulltextSearch"
  BY <1>7 DEF Query!WithSearch
<1>8. CASE c.method = "fromTable"
  BY <1>8 DEF Query!WithClause
<1>9. CASE c.method = "where"
  BY <1>9 DEF Query!WithClause
<1>10. CASE c.method = "orderBy"
  BY <1>10 DEF Query!WithClause
<1>11. CASE c.method = "groupBy"
  BY <1>11 DEF Query!WithClause
<1>12. CASE c.method = "groupAll"
  BY <1>12 DEF Query!WithClause
<1>13. CASE c.method = "limit"
  BY <1>13 DEF Query!WithClause
<1>14. CASE c.method = "offset"
  BY <1>14 DEF Query!WithClause
<1>15. CASE c.method = "traverse"
  BY <1>15 DEF Query!WithClause
<1>16. CASE c.method = "returnFormat"
  BY <1>16 DEF Query!WithClause
<1>17. CASE c.method = "withHint"
  BY <1>17 DEF Query!WithClause
<1>18. CASE c.method = "searchScore"
  BY <1>18 DEF Query!WithClause
<1>. QED
  BY <1>1, <1>2, <1>3, <1>4, <1>5, <1>6, <1>7, <1>8, <1>9, <1>10, <1>11,
     <1>12, <1>13, <1>14, <1>15, <1>16, <1>17, <1>18 DEF QueryMethods

(* A call is remembered with those before it.                              *)
LEMMA CallRemembered ==
    ASSUME NEW hist \in Seq(Query!Callable), NEW s, Query!Remembers(s, hist),
           NEW c \in Query!Callable
    PROVE  Query!Remembers(Query!With(s, c), Append(hist, c))
<1>. DEFINE t == Query!With(s, c)
            all == Append(hist, c)
            vector == {"vectorSearch", "vectorSearchIndexed"}
            search(of) == Query!Last(of, vector).method
<1>1. /\ c.method \in QueryMethods
      /\ c.method \in Query!Searches => c.arg # Query!Null
      /\ c.method = "where" => c.condition \in Query!Conditions
  BY CallableIs
<1>2. /\ DOMAIN s = DOMAIN Query!DefaultState
      /\ (\E i \in DOMAIN hist : hist[i].method \in Query!Operations)
            => s.operation = Query!Last(hist, Query!Operations).method
      /\ s.table = Query!Last(hist, Query!Targets).arg
      /\ s.edge = Query!Last(hist, {"relate"}).arg
      /\ s.limit = Query!Last(hist, {"limit"}).arg
      /\ s.offset = Query!Last(hist, {"offset"}).arg
      /\ s.fulltext = Query!Last(hist, {"fulltextSearch"}).arg
      /\ search(hist) = Query!Null => s.vectorField = Query!Null
      /\ search(hist) # Query!Null => s.vectorField # Query!Null
      /\ s.vectorEf # Query!Null <=> search(hist) = "vectorSearchIndexed"
      /\ s.conditions \in Seq(Query!Conditions)
      /\ Query!InOrder(s.conditions, hist)
  BY DEF Query!Remembers
<1>3. \A kinds : Query!Last(all, kinds) =
            IF c.method \in kinds THEN c ELSE Query!Last(hist, kinds)
  BY LastAppends
<1>4. /\ DOMAIN t = DOMAIN Query!DefaultState
      /\ t.operation = IF c.method \in Query!Operations THEN c.method
                       ELSE s.operation
      /\ t.table = IF c.method \in Query!Targets THEN c.arg ELSE s.table
      /\ t.edge = IF c.method \in {"relate"} THEN c.arg ELSE s.edge
      /\ t.limit = IF c.method \in {"limit"} THEN c.arg ELSE s.limit
      /\ t.offset = IF c.method \in {"offset"} THEN c.arg ELSE s.offset
      /\ t.fulltext = IF c.method \in {"fulltextSearch"} THEN c.arg
                      ELSE s.fulltext
      /\ t.vectorField = IF c.method \in vector THEN c.arg ELSE s.vectorField
      /\ t.vectorEf = IF c.method = "vectorSearch" THEN Query!Null
                      ELSE IF c.method = "vectorSearchIndexed" THEN "ef"
                      ELSE s.vectorEf
      /\ t.conditions = IF c.method = "where"
                        THEN Append(s.conditions, c.condition)
                        ELSE s.conditions
  BY <1>1, <1>2, WithSets
<1>5. Query!InOrder(t.conditions, all)
  <2>1. Query!InOrder(IF c.method = "where" THEN Append(s.conditions, c.condition)
                      ELSE s.conditions, all)
    BY <1>1, <1>2, OrderAppends
  <2>. QED
    BY <1>4, <2>1
<1>6. t.conditions \in Seq(Query!Conditions)
  <2>. DEFINE Q == Query!Conditions
  <2>1. s.conditions \in Seq(Q) /\ (c.method = "where" => c.condition \in Q)
    BY <1>1, <1>2
  <2>. HIDE DEF Q
  <2>2. c.method = "where" => Append(s.conditions, c.condition) \in Seq(Q)
    BY <2>1
  <2>3. t.conditions \in Seq(Q)
    BY <1>4, <2>1, <2>2
  <2>. QED
    BY <2>3 DEF Q
<1>7. (\E i \in DOMAIN all : all[i].method \in Query!Operations)
        => t.operation = Query!Last(all, Query!Operations).method
  <2>1. CASE c.method \in Query!Operations
    BY <1>3, <1>4, <2>1
  <2>2. CASE c.method \notin Query!Operations
    <3>1. /\ DOMAIN all = 1 .. Len(hist) + 1 /\ all[Len(hist) + 1] = c
          /\ Len(hist) \in Nat /\ DOMAIN hist = 1 .. Len(hist)
          /\ \A i \in 1 .. Len(hist) : all[i] = hist[i]
      BY AppendProperties
    <3>. HIDE DEF all
    <3>2. (\E i \in DOMAIN all : all[i].method \in Query!Operations)
            => \E i \in DOMAIN hist : hist[i].method \in Query!Operations
      BY <2>2, <3>1
    <3>. QED
      BY <1>2, <1>3, <1>4, <2>2, <3>2
  <2>. QED
    BY <2>1, <2>2
<1>8. /\ search(all) = IF c.method \in vector THEN c.method ELSE search(hist)
      /\ t.table = Query!Last(all, Query!Targets).arg
      /\ t.edge = Query!Last(all, {"relate"}).arg
      /\ t.limit = Query!Last(all, {"limit"}).arg
      /\ t.offset = Query!Last(all, {"offset"}).arg
      /\ t.fulltext = Query!Last(all, {"fulltextSearch"}).arg
  BY <1>2, <1>3, <1>4
<1>9. /\ search(all) = Query!Null => t.vectorField = Query!Null
      /\ search(all) # Query!Null => t.vectorField # Query!Null
      /\ t.vectorEf # Query!Null <=> search(all) = "vectorSearchIndexed"
  <2>. HIDE DEF t, all, search
  <2>1. CASE c.method = "vectorSearch"
    BY <1>1, <1>4, <1>8, <2>1 DEF Query!Null, Query!Searches
  <2>2. CASE c.method = "vectorSearchIndexed"
    BY <1>1, <1>4, <1>8, <2>2 DEF Query!Null, Query!Searches
  <2>3. CASE c.method \notin vector
    BY <1>2, <1>4, <1>8, <2>3
  <2>. QED
    BY <2>1, <2>2, <2>3
<1>. HIDE DEF t, all
<1>. QED
  <2>1. Query!Remembers(t, all)
    BY <1>4, <1>5, <1>6, <1>7, <1>8, <1>9 DEF Query!Remembers
  <2>. QED
    BY <2>1 DEF t, all

(* Before the first call nothing is set.                                   *)
LEMMA NothingRemembered == Query!Remembers(Query!DefaultState, << >>)
<1>. DEFINE s == Query!DefaultState
            none == [method |-> "null", arg |-> "null"]
<1>1. DOMAIN << >> = {}
  OBVIOUS
<1>2. \A kinds : Query!Last(<< >>, kinds) = none
  BY <1>1, LastOfNone
<1>3. /\ s.table = "null" /\ s.edge = "null" /\ s.limit = "null"
      /\ s.offset = "null" /\ s.fulltext = "null" /\ s.vectorField = "null"
      /\ s.vectorEf = "null" /\ s.conditions = << >>
  BY DEF Query!DefaultState, Query!Null
<1>4. Query!InOrder(<< >>, << >>)
  <2>. DEFINE place == [k \in {} |-> k]
  <2>1. place \in [DOMAIN << >> -> DOMAIN << >>]
    BY <1>1
  <2>. QED
    BY <1>1, <2>1 DEF Query!InOrder
<1>. HIDE DEF s
<1>5. Query!Remembers(s, << >>)
  BY <1>1, <1>2, <1>3, <1>4, EmptySeq DEF Query!Remembers, Query!Null, s
<1>. QED
  BY <1>5 DEF s

(* A recursion over calls is a function.                                   *)
LEMMA StatesExist ==
    ASSUME NEW cs, NEW n \in Nat
    PROVE  \E F : F = [i \in 0 .. n |->
                IF i = 0 THEN Query!DefaultState ELSE Query!With(F[i - 1], cs[i])]
<1>. DEFINE D == Query!DefaultState
            W(s, c) == Query!With(s, c)
            S == {m \in Nat : \E F : F = [i \in 0 .. m |->
                        IF i = 0 THEN D ELSE W(F[i - 1], cs[i])]}
<1>. HIDE DEF D, W
<1>1. 0 \in S
  <2>. DEFINE F == [k \in 0 .. 0 |-> D]
  <2>1. F = [k \in 0 .. 0 |-> IF k = 0 THEN D ELSE W(F[k - 1], cs[k])]
    OBVIOUS
  <2>. QED
    BY <2>1
<1>2. ASSUME NEW m \in 1 .. n, m - 1 \in S
      PROVE  m \in S
  <2>1. PICK F : F = [k \in 0 .. (m - 1) |->
                        IF k = 0 THEN D ELSE W(F[k - 1], cs[k])]
    BY <1>2
  <2>. DEFINE G == [k \in 0 .. m |-> IF k = m THEN W(F[m - 1], cs[m]) ELSE F[k]]
  <2>2. \A k \in 0 .. m : G[k] = IF k = 0 THEN D ELSE W(G[k - 1], cs[k])
    <3>. SUFFICES ASSUME NEW k \in 0 .. m
                  PROVE  G[k] = IF k = 0 THEN D ELSE W(G[k - 1], cs[k])
      OBVIOUS
    <3>1. CASE k = m
      <4>1. m - 1 \in 0 .. m /\ m - 1 # m /\ k # 0
        BY <3>1
      <4>. QED
        BY <3>1, <4>1
    <3>2. CASE k # m
      <4>1. k \in 0 .. (m - 1) /\ G[k] = F[k]
        BY <3>2
      <4>2. F[k] = IF k = 0 THEN D ELSE W(F[k - 1], cs[k])
        BY <2>1, <4>1
      <4>3. k # 0 => k - 1 \in 0 .. m /\ k - 1 # m
        BY <4>1
      <4>4. k # 0 => G[k - 1] = F[k - 1]
        BY <4>3
      <4>. QED
        BY <4>1, <4>2, <4>4
    <3>. QED
      BY <3>1, <3>2
  <2>3. G = [k \in 0 .. m |-> G[k]]
    OBVIOUS
  <2>. HIDE DEF G
  <2>4. G = [k \in 0 .. m |-> IF k = 0 THEN D ELSE W(G[k - 1], cs[k])]
    BY <2>2, <2>3
  <2>. QED
    BY <2>4
<1>. HIDE DEF S
<1>3. n \in S
  BY <1>1, <1>2, Reaches
<1>. QED
  BY <1>3 DEF S, D, W

(* What a factory returns remembers the calls it is made by.               *)
LEMMA AllRemembered ==
    ASSUME NEW cs \in Seq(Query!Callable)
    PROVE  Query!Remembers(Query!WithAll(cs), cs)
<1>. DEFINE n == Len(cs)
            P(f) == f = [i \in 0 .. n |->
                IF i = 0 THEN Query!DefaultState ELSE Query!With(f[i - 1], cs[i])]
            F == CHOOSE f : P(f)
            C == Query!Callable
<1>1. n \in Nat
  OBVIOUS
<1>2. P(F)
  <2>1. \E f : P(f)
    BY <1>1, StatesExist
  <2>. QED
    BY <2>1
<1>3. Query!WithAll(cs) = F[n]
  BY DEF Query!WithAll
<1>. HIDE DEF F
<1>4. \A i \in 0 .. n : F[i] = IF i = 0 THEN Query!DefaultState
                               ELSE Query!With(F[i - 1], cs[i])
  BY <1>2
<1>. HIDE DEF P, n, C
<1>. DEFINE S == {i \in 0 .. n : Query!Remembers(F[i], SubSeq(cs, 1, i))}
<1>5. 0 \in S
  <2>1. SubSeq(cs, 1, 0) = << >>
    OBVIOUS
  <2>2. 0 \in 0 .. n
    BY <1>1
  <2>3. F[0] = Query!DefaultState
    BY <1>4, <2>2
  <2>4. Query!Remembers(F[0], << >>)
    BY <2>3, NothingRemembered, Zenon
  <2>5. Query!Remembers(F[0], SubSeq(cs, 1, 0))
    BY <2>1, <2>4, Zenon
  <2>. QED
    BY <2>2, <2>5
<1>6. ASSUME NEW i \in 1 .. n, i - 1 \in S
      PROVE  i \in S
  <2>1. /\ SubSeq(cs, 1, i - 1) \in Seq(C) /\ cs[i] \in C
        /\ SubSeq(cs, 1, i) = Append(SubSeq(cs, 1, i - 1), cs[i])
    BY DEF n, C
  <2>2. F[i] = Query!With(F[i - 1], cs[i]) /\ i \in 0 .. n
    BY <1>1, <1>4
  <2>3. Query!Remembers(F[i - 1], SubSeq(cs, 1, i - 1))
    BY <1>6
  <2>4. Query!Remembers(F[i], SubSeq(cs, 1, i))
    BY <2>1, <2>2, <2>3, CallRemembered DEF C
  <2>. QED
    BY <2>2, <2>4
<1>6a. \A i \in 1 .. n : i - 1 \in S => i \in S
  BY <1>6
<1>. HIDE DEF S
<1>7. n \in S
  <2>1. \A i \in 0 .. n : i \in S
    BY ONLY <1>1, <1>5, <1>6a, Reaches
  <2>. QED
    BY <1>1, <2>1
<1>8. SubSeq(cs, 1, n) = cs
  BY DEF n
<1>. QED
  BY <1>3, <1>7, <1>8 DEF S

(* A factory makes one operation and the calls that go with it.            *)
LEMMA FactoriesAre ==
    ASSUME NEW f \in Query!Factories
    PROVE  /\ f \in Seq(Query!Callable)
           /\ f # << >> /\ f[1].method \in Query!Operations
<1>. DEFINE C == Query!Callable
<1>0. /\ \A o \in Query!Operations : Query!Call(o, "a") \in C
      /\ Query!Call("select", "x") \in C /\ Query!Call("fromTable", "a") \in C
      /\ Query!Call("vectorSearch", "v") \in C /\ Query!Call("select", "*") \in C
      /\ Query!Call("searchScore", Query!Null) \in C
      /\ Query!Call("fulltextSearch", "text") \in C
  BY DEF Query!Callable, Query!Calls
<1>. HIDE DEF C
<1>1. CASE \E o \in Query!Operations : f = << Query!Call(o, "a") >>
  <2>1. PICK o \in Query!Operations : f = << Query!Call(o, "a") >>
    BY <1>1
  <2>2. f \in Seq(C) /\ f # << >> /\ f[1] = Query!Call(o, "a")
    BY <1>0, <2>1
  <2>. QED
    BY <2>2 DEF Query!Call, C
<1>2. CASE f = << Query!Call("select", "x"), Query!Call("fromTable", "a"),
                  Query!Call("vectorSearch", "v") >>
  <2>1. f \in Seq(C) /\ f # << >> /\ f[1] = Query!Call("select", "x")
    BY <1>0, <1>2
  <2>. QED
    BY <2>1 DEF Query!Call, Query!Operations, C
<1>3. CASE f = << Query!Call("select", "*"), Query!Call("searchScore", Query!Null),
                  Query!Call("fromTable", "a"), Query!Call("fulltextSearch", "text") >>
  <2>1. f \in Seq(C) /\ f # << >> /\ f[1] = Query!Call("select", "*")
    BY <1>0, <1>3
  <2>. QED
    BY <2>1 DEF Query!Call, Query!Operations, C
<1>. QED
  BY <1>1, <1>2, <1>3 DEF Query!Factories

(* A query and the calls that it remembers.                                *)
QueryKept(q) ==
    /\ DOMAIN q = {"state", "calls"}
    /\ q.calls \in Seq(Query!Callable)
    /\ \E n \in DOMAIN q.calls : q.calls[n].method \in Query!Operations
    /\ Query!Remembers(q.state, q.calls)

(* The invariant, query by query.                                          *)
LEMMA QueriesInvIs ==
    Query!QueriesInv <=> /\ queries \in Seq({queries[i] : i \in DOMAIN queries})
                         /\ Len(queries) \in 1 .. MaxQueries + 1
                         /\ \A i \in DOMAIN queries : QueryKept(queries[i])
BY DEF Query!QueriesInv, QueryKept

LEMMA QueriesInvIsNext ==
    Query!QueriesInv' <=> /\ queries' \in Seq({queries'[i] : i \in DOMAIN queries'})
                          /\ Len(queries') \in 1 .. MaxQueries + 1
                          /\ \A i \in DOMAIN queries' : QueryKept(queries'[i])
BY DEF Query!QueriesInv, QueryKept

(* A factory makes a query that remembers its calls.                       *)
LEMMA QueriesInitially ==
    ASSUME Query!Init, MaxQueries \in Nat
    PROVE  Query!QueriesInv
<1>1. PICK f \in Query!Factories :
        queries = << [state |-> Query!WithAll(f), calls |-> f] >>
  BY DEF Query!Init
<1>2. /\ f \in Seq(Query!Callable)
      /\ f # << >> /\ f[1].method \in Query!Operations
  BY FactoriesAre
<1>3. Query!Remembers(Query!WithAll(f), f)
  BY <1>2, AllRemembered
<1>4. 1 \in DOMAIN f
  <2>. DEFINE C == Query!Callable
  <2>. HIDE DEF C
  <2>1. f \in Seq(C) /\ f # << >>
    BY <1>2 DEF C
  <2>. QED
    BY <2>1, EmptySeq, LenProperties
<1>5. QueryKept([state |-> Query!WithAll(f), calls |-> f])
  BY <1>2, <1>3, <1>4 DEF QueryKept
<1>. HIDE DEF QueryKept
<1>6. Len(queries) = 1 /\ DOMAIN queries = {1} /\ QueryKept(queries[1])
  BY <1>1, <1>5
<1>7. queries \in Seq({queries[i] : i \in DOMAIN queries})
  BY <1>1
<1>. QED
  BY <1>6, <1>7, QueriesInvIs

(* What is derived remembers one call more; the rest stay.                 *)
LEMMA QueriesStep ==
    ASSUME Query!QueriesInv, Query!Next, MaxQueries \in Nat
    PROVE  Query!QueriesInv'
<1>1. Len(queries) \in 1 .. MaxQueries + 1 /\ Len(queries) <= MaxQueries
  BY DEF Query!QueriesInv, Query!Next
<1>2. PICK i \in DOMAIN queries, c \in Query!Callable : Query!Derive(i, c)
  <2>1. CASE \E i \in DOMAIN queries, c \in Query!Calls : Query!Derive(i, c)
    BY <2>1 DEF Query!Callable
  <2>2. CASE \E c \in Query!Rest : Len(queries) = 1 /\ Query!Derive(1, c)
    BY <1>1, <2>2 DEF Query!Callable
  <2>. QED
    BY <2>1, <2>2 DEF Query!Next
<1>. DEFINE q == queries[i]
            r == [state |-> Query!With(q.state, c), calls |-> Append(q.calls, c)]
<1>3. queries' = Append(queries, r)
  BY <1>2 DEF Query!Derive
<1>4. QueryKept(q)
  BY QueriesInvIs
<1>5. QueryKept(r)
  <2>. DEFINE C == Query!Callable
  <2>1. q.calls \in Seq(C) /\ Query!Remembers(q.state, q.calls)
    BY <1>4 DEF QueryKept
  <2>2. Query!Remembers(r.state, r.calls)
    BY <2>1, CallRemembered
  <2>. HIDE DEF C
  <2>3. PICK n \in DOMAIN q.calls : q.calls[n].method \in Query!Operations
    BY <1>4 DEF QueryKept
  <2>4. /\ r.calls \in Seq(C) /\ n \in DOMAIN r.calls
        /\ r.calls[n] = q.calls[n]
    <3>1. c \in C
      BY DEF C
    <3>. QED
      BY <2>1, <2>3, <3>1, AppendProperties
  <2>. QED
    BY <2>2, <2>3, <2>4 DEF QueryKept, C
<1>. HIDE DEF QueryKept, r
<1>. DEFINE Y == {queries[j] : j \in DOMAIN queries} \cup {r}
<1>6. queries \in Seq(Y) /\ r \in Y
  BY DEF Query!QueriesInv
<1>. HIDE DEF Y
<1>7. /\ Len(queries') = Len(queries) + 1
      /\ DOMAIN queries' = 1 .. Len(queries) + 1
      /\ queries'[Len(queries) + 1] = r
      /\ \A j \in 1 .. Len(queries) : queries'[j] = queries[j]
      /\ DOMAIN queries = 1 .. Len(queries)
  BY <1>3, <1>6, AppendProperties
<1>8. \A j \in DOMAIN queries' : QueryKept(queries'[j])
  <2>1. \A j \in 1 .. Len(queries) : QueryKept(queries[j])
    BY <1>7, QueriesInvIs
  <2>. QED
    BY <1>1, <1>5, <1>7, <2>1
<1>9. Len(queries') \in 1 .. MaxQueries + 1
  BY <1>1, <1>7
<1>10. queries' \in Seq({queries'[j] : j \in DOMAIN queries'})
  <2>1. queries' \in Seq(Y)
    BY <1>3, <1>6, AppendProperties
  <2>. QED
    BY <2>1
<1>. QED
  BY <1>8, <1>9, <1>10, QueriesInvIsNext

(* Each kind of statement says what its query remembers.                   *)
LEMMA Rendered ==
    ASSUME NEW s, NEW hist, Query!Remembers(s, hist),
           \E n \in DOMAIN hist : hist[n].method \in Query!Operations,
           Query!ToSurQL(s) # Query!Throws,
           s.operation \in Query!Operations
    PROVE  LET t == Query!ToSurQL(s) IN
            /\ t.op = s.operation
            /\ t.op # "relate" => t.table = s.table
            /\ t.op = "relate" => t.table = s.edge
            /\ t.op = "select" =>
                /\ t.limit = s.limit /\ t.start = s.offset
                /\ t.fulltext = s.fulltext /\ t.vector = Query!VectorForm(s)
            /\ t.op # "select" =>
                t.vector = Query!Null /\ t.fulltext = Query!Null
            /\ t.op \in {"select", "update", "delete", "upsert"} =>
                t.conditions = s.conditions
<1>1. CASE s.operation = "select"
  BY <1>1 DEF Query!ToSurQL, Query!BuildSelect
<1>2. CASE s.operation = "insert"
  BY <1>2 DEF Query!ToSurQL, Query!BuildInsert, Query!Write
<1>3. CASE s.operation = "update"
  BY <1>3 DEF Query!ToSurQL, Query!BuildUpdate, Query!Write
<1>4. CASE s.operation = "delete"
  BY <1>4 DEF Query!ToSurQL, Query!BuildDelete, Query!Write
<1>5. CASE s.operation = "upsert"
  BY <1>5 DEF Query!ToSurQL, Query!BuildUpsert, Query!Write
<1>6. CASE s.operation = "relate"
  BY <1>6 DEF Query!ToSurQL, Query!BuildRelate, Query!Write
<1>. QED
  BY <1>1, <1>2, <1>3, <1>4, <1>5, <1>6 DEF Query!Operations

(* A query does what its last operation is.                                *)
LEMMA OperationIs ==
    ASSUME NEW q, QueryKept(q)
    PROVE  /\ q.state.operation = Query!Last(q.calls, Query!Operations).method
           /\ q.state.operation \in Query!Operations
<1>1. PICK n \in DOMAIN q.calls : q.calls[n].method \in Query!Operations
  BY DEF QueryKept
<1>2. q.state.operation = Query!Last(q.calls, Query!Operations).method
  BY <1>1 DEF QueryKept, Query!Remembers
<1>3. \E i \in DOMAIN q.calls :
        /\ q.calls[i].method \in Query!Operations
        /\ Query!Last(q.calls, Query!Operations) = q.calls[i]
  <2>1. q.calls \in Seq(Query!Callable)
    BY DEF QueryKept
  <2>. QED
    BY <1>1, <2>1, LastIs
<1>. QED
  BY <1>2, <1>3

(* The form of a vector search is that of the last one called.             *)
LEMMA VectorIs ==
    ASSUME NEW q, QueryKept(q)
    PROVE  LET search == Query!Last(q.calls, {"vectorSearch",
                                              "vectorSearchIndexed"}).method
           IN  Query!VectorForm(q.state) =
                 CASE search = Query!Null -> Query!Null
                   [] search = "vectorSearch" -> "exhaustive"
                   [] search = "vectorSearchIndexed" -> "indexed"
<1>. DEFINE kinds == {"vectorSearch", "vectorSearchIndexed"}
            search == Query!Last(q.calls, kinds).method
<1>1. /\ search = Query!Null => q.state.vectorField = Query!Null
      /\ search # Query!Null => q.state.vectorField # Query!Null
      /\ q.state.vectorEf # Query!Null <=> search = "vectorSearchIndexed"
  BY DEF QueryKept, Query!Remembers
<1>2. search \in kinds \cup {Query!Null}
  <2>1. CASE \E n \in DOMAIN q.calls : q.calls[n].method \in kinds
    <3>1. q.calls \in Seq(Query!Callable)
      BY DEF QueryKept
    <3>. QED
      BY <2>1, <3>1, LastIs
  <2>2. CASE \A n \in DOMAIN q.calls : q.calls[n].method \notin kinds
    BY <2>2, LastOfNone DEF Query!Null
  <2>. QED
    BY <2>1, <2>2
<1>. HIDE DEF search
<1>3. Query!VectorForm(q.state) =
        CASE search = Query!Null -> Query!Null
          [] search = "vectorSearch" -> "exhaustive"
          [] search = "vectorSearchIndexed" -> "indexed"
  <2>1. CASE search = Query!Null
    BY <1>1, <2>1 DEF Query!VectorForm, Query!Null
  <2>2. CASE search = "vectorSearch"
    BY <1>1, <2>2 DEF Query!VectorForm, Query!Null
  <2>3. CASE search = "vectorSearchIndexed"
    BY <1>1, <2>3 DEF Query!VectorForm, Query!Null
  <2>. QED
    BY <1>2, <2>1, <2>2, <2>3
<1>. QED
  BY <1>3, Zenon DEF search

(* What queries remember, their statements say.                            *)
LEMMA QueriesRender ==
    ASSUME Query!QueriesInv
    PROVE  Query!RendersItsCalls
<1>. SUFFICES ASSUME NEW i \in DOMAIN queries,
                     Query!ToSurQL(queries[i].state) # Query!Throws
              PROVE  LET hist == queries[i].calls
                         s == Query!ToSurQL(queries[i].state)
                         search == Query!Last(hist, {"vectorSearch",
                                            "vectorSearchIndexed"}).method
                     IN /\ s.op = Query!Last(hist, Query!Operations).method
                        /\ s.op # "relate" =>
                            s.table = Query!Last(hist, {"fromTable"} \cup
                                (Query!Operations \ {"select", "relate"})).arg
                        /\ s.op = "relate" =>
                            s.table = Query!Last(hist, {"relate"}).arg
                        /\ s.op = "select" =>
                            /\ s.limit = Query!Last(hist, {"limit"}).arg
                            /\ s.start = Query!Last(hist, {"offset"}).arg
                            /\ s.fulltext =
                                Query!Last(hist, {"fulltextSearch"}).arg
                            /\ s.vector =
                                CASE search = Query!Null -> Query!Null
                                  [] search = "vectorSearch" -> "exhaustive"
                                  [] search = "vectorSearchIndexed" -> "indexed"
                        /\ s.op \in {"select", "update", "delete", "upsert"} =>
                            Query!InOrder(s.conditions, hist)
  BY Zenon DEF Query!RendersItsCalls
<1>. DEFINE q == queries[i]
            t == Query!ToSurQL(q.state)
<1>1. QueryKept(q)
  BY QueriesInvIs
<1>. HIDE DEF q
<1>2. /\ q.state.operation = Query!Last(q.calls, Query!Operations).method
      /\ q.state.operation \in Query!Operations
  BY <1>1, OperationIs
<1>3. /\ Query!Remembers(q.state, q.calls)
      /\ \E n \in DOMAIN q.calls : q.calls[n].method \in Query!Operations
      /\ t # Query!Throws
  BY <1>1 DEF QueryKept, q
<1>4. /\ t.op = q.state.operation
      /\ t.op # "relate" => t.table = q.state.table
      /\ t.op = "relate" => t.table = q.state.edge
      /\ t.op = "select" =>
            /\ t.limit = q.state.limit /\ t.start = q.state.offset
            /\ t.fulltext = q.state.fulltext
            /\ t.vector = Query!VectorForm(q.state)
      /\ t.op \in {"select", "update", "delete", "upsert"} =>
            t.conditions = q.state.conditions
  BY <1>2, <1>3, Rendered
<1>5. /\ q.state.table = Query!Last(q.calls, {"fromTable"} \cup
                                (Query!Operations \ {"select", "relate"})).arg
      /\ q.state.edge = Query!Last(q.calls, {"relate"}).arg
      /\ q.state.limit = Query!Last(q.calls, {"limit"}).arg
      /\ q.state.offset = Query!Last(q.calls, {"offset"}).arg
      /\ q.state.fulltext = Query!Last(q.calls, {"fulltextSearch"}).arg
      /\ Query!InOrder(q.state.conditions, q.calls)
  BY <1>3 DEF Query!Remembers, Query!Targets
<1>6. LET search == Query!Last(q.calls, {"vectorSearch",
                                         "vectorSearchIndexed"}).method
      IN  Query!VectorForm(q.state) =
            CASE search = Query!Null -> Query!Null
              [] search = "vectorSearch" -> "exhaustive"
              [] search = "vectorSearchIndexed" -> "indexed"
  BY <1>1, VectorIs
<1>7. /\ t.op = Query!Last(q.calls, Query!Operations).method
      /\ t.op # "relate" =>
            t.table = Query!Last(q.calls, {"fromTable"} \cup
                                (Query!Operations \ {"select", "relate"})).arg
      /\ t.op = "relate" => t.table = Query!Last(q.calls, {"relate"}).arg
      /\ t.op = "select" =>
            /\ t.limit = Query!Last(q.calls, {"limit"}).arg
            /\ t.start = Query!Last(q.calls, {"offset"}).arg
            /\ t.fulltext = Query!Last(q.calls, {"fulltextSearch"}).arg
  BY <1>2, <1>4, <1>5
<1>8. t.op \in {"select", "update", "delete", "upsert"} =>
        Query!InOrder(t.conditions, q.calls)
  <2>1. t.op \in {"select", "update", "delete", "upsert"} =>
            t.conditions = q.state.conditions
    BY <1>4
  <2>. QED
    BY <1>5, <2>1, Zenon
<1>9. t.op = "select" => t.vector = Query!VectorForm(q.state)
  BY <1>4
<1>. HIDE DEF t
<1>. QED
  BY <1>6, <1>7, <1>8, <1>9 DEF q, t

LEMMA QueriesTypes ==
    ASSUME Query!QueriesInv
    PROVE  Query!TypeOK
<1>1. Len(queries) \in 1 .. MaxQueries + 1
  BY DEF Query!QueriesInv
<1>2. ASSUME NEW i \in DOMAIN queries
      PROVE  /\ queries[i].state.operation \in Query!Operations
             /\ Query!ToSurQL(queries[i].state).op
                    \in Query!Operations \cup {"throws"}
  <2>. DEFINE q == queries[i]
  <2>1. QueryKept(q)
    BY QueriesInvIs
  <2>. HIDE DEF q
  <2>2. q.state.operation \in Query!Operations
    BY <2>1, OperationIs
  <2>3. CASE Query!ToSurQL(q.state) = Query!Throws
    BY <2>2, <2>3 DEF Query!Throws, q
  <2>4. CASE Query!ToSurQL(q.state) # Query!Throws
    <3>1. Query!ToSurQL(q.state).op = q.state.operation
      BY <2>1, <2>2, <2>4, Rendered DEF QueryKept
    <3>. QED
      BY <2>2, <3>1 DEF q
  <2>. QED
    BY <2>3, <2>4
<1>. QED
  BY <1>1, <1>2 DEF Query!TypeOK

(* Terms without an OR before them are one alternative.                    *)
LEMMA AllRequired ==
    ASSUME NEW X, NEW w \in Seq(X), \A j \in DOMAIN w : w[j].or = FALSE
    PROVE  Query!Selected(w) =
            {row \in Query!Rows :
                \A j \in DOMAIN w : Query!Meets(row, Query!AtomsOf(w[j]))}
<1>. DEFINE n == Len(w)
<1>1. n \in Nat /\ DOMAIN w = 1 .. n
  OBVIOUS
<1>2. CASE n = 0
  <2>1. w = << >> /\ DOMAIN w = {}
    BY <1>1, <1>2, EmptySeq
  <2>. QED
    BY <2>1 DEF Query!Selected
<1>3. CASE n # 0
  <2>. HIDE DEF n
  <2>0. 1 \in 1 .. n /\ w # << >>
    BY <1>1, <1>3
  <2>. DEFINE all == {Query!AtomsOf(w[j]) : j \in 1 .. n}
  <2>1. {i \in DOMAIN w : i = 1 \/ w[i].or} = {1}
    BY <1>1, <2>0
  <2>2. {j \in 1 .. n : \A k \in 2 .. j : ~w[k].or} = 1 .. n
    <3>1. \A j \in 1 .. n : \A k \in 2 .. j : k \in 1 .. n
      BY <1>1
    <3>. QED
      BY <1>1, <3>1
  <2>3. Query!Alternatives(w) =
            {{Query!AtomsOf(w[j]) : j \in {l \in i .. n :
                    \A k \in i + 1 .. l : ~w[k].or}} : i \in {1}}
    BY <2>1 DEF Query!Alternatives, n
  <2>4. Query!Alternatives(w) = {all}
    <3>1. Query!Alternatives(w) =
            {{Query!AtomsOf(w[j]) : j \in {l \in 1 .. n :
                    \A k \in 1 + 1 .. l : ~w[k].or}}}
      BY <2>3
    <3>2. 1 + 1 = 2
      OBVIOUS
    <3>. QED
      BY <2>2, <3>1, <3>2
  <2>5. Query!Selected(w) =
            {row \in Query!Rows : \A atoms \in all : Query!Meets(row, atoms)}
    BY <2>0, <2>4 DEF Query!Selected
  <2>. QED
    BY <1>1, <2>5
<1>. QED
  BY <1>2, <1>3

(* One disjunction without parentheses, however often: the rows that meet  *)
(* a part of it.                                                           *)
LEMMA EitherSuffices ==
    ASSUME NEW X, NEW w \in Seq(X), NEW p, NEW q, Len(w) >= 2,
           w[1] = [atoms |-> << p >>, or |-> FALSE],
           w[2] = [atoms |-> << q >>, or |-> TRUE],
           w[Len(w)] = w[2],
           \A j \in DOMAIN w : w[j] = w[1] \/ w[j] = w[2]
    PROVE  Query!Selected(w) = {row \in Query!Rows : p \in row \/ q \in row}
<1>. DEFINE n == Len(w)
<1>1. n \in Nat /\ n >= 2 /\ DOMAIN w = 1 .. n
  OBVIOUS
<1>2. /\ w[1].or = FALSE /\ w[2].or = TRUE /\ w[n].or = TRUE
      /\ Query!AtomsOf(w[1]) = {p} /\ Query!AtomsOf(w[2]) = {q}
      /\ Query!AtomsOf(w[n]) = {q}
  <2>1. \A x, b : Query!AtomsOf([atoms |-> << x >>, or |-> b]) = {x}
    <3>. SUFFICES ASSUME NEW x, NEW b
                  PROVE  Query!AtomsOf([atoms |-> << x >>, or |-> b]) = {x}
      OBVIOUS
    <3>1. DOMAIN << x >> = {1} /\ << x >>[1] = x
      OBVIOUS
    <3>2. Query!AtomsOf([atoms |-> << x >>, or |-> b]) =
            {<< x >>[i] : i \in DOMAIN << x >>}
      BY DEF Query!AtomsOf
    <3>. QED
      BY <3>1, <3>2
  <2>2. Query!AtomsOf(w[1]) = {p} /\ Query!AtomsOf(w[2]) = {q}
    BY <2>1
  <2>3. w[1].or = FALSE /\ w[2].or = TRUE
    <3>1. /\ w[1] = [atoms |-> << p >>, or |-> FALSE]
          /\ w[2] = [atoms |-> << q >>, or |-> TRUE]
      OBVIOUS
    <3>2. w[1].or = FALSE
      BY ONLY <3>1
    <3>3. w[2].or = TRUE
      BY ONLY <3>1
    <3>. QED
      BY <3>2, <3>3
  <2>4. w[n] = w[2]
    OBVIOUS
  <2>. QED
    BY <2>2, <2>3, <2>4, Zenon
<1>. DEFINE A == Query!Alternatives(w)
            part(i) == {Query!AtomsOf(w[j]) : j \in {l \in i .. n :
                            \A k \in i + 1 .. l : ~w[k].or}}
<1>3. A = {part(i) : i \in {i \in DOMAIN w : i = 1 \/ w[i].or}}
  BY DEF Query!Alternatives
<1>. HIDE DEF n, A
<1>4. {{p}} \in A /\ {{q}} \in A
  <2>1. part(1) = {{p}}
    <3>1. ASSUME NEW j \in 1 .. n
          PROVE  (\A k \in 1 + 1 .. j : ~w[k].or) <=> j = 1
      <4>1. CASE j = 1
        BY <4>1
      <4>2. CASE j # 1
        <5>1. 2 \in 1 + 1 .. j
          BY <1>1, <4>2
        <5>. QED
          BY <1>2, <4>2, <5>1
      <4>. QED
        BY <4>1, <4>2
    <3>2. 1 \in 1 .. n
      BY <1>1
    <3>3. {j \in 1 .. n : \A k \in 1 + 1 .. j : ~w[k].or} = {1}
      BY <3>1, <3>2
    <3>4. \A x : x \in part(1) <=> x = Query!AtomsOf(w[1])
      BY <3>3
    <3>. QED
      BY <1>2, <3>4
  <2>2. part(n) = {{q}}
    <3>1. {j \in n .. n : \A k \in n + 1 .. j : ~w[k].or} = {n}
      BY <1>1
    <3>2. \A x : x \in part(n) <=> x = Query!AtomsOf(w[n])
      BY <3>1
    <3>. QED
      BY <1>2, <3>2
  <2>3. 1 \in DOMAIN w /\ n \in DOMAIN w
    BY <1>1
  <2>4. part(1) \in A /\ part(n) \in A
    <3>. HIDE DEF part
    <3>. QED
      BY <1>2, <1>3, <2>3
  <2>. QED
    BY <2>1, <2>2, <2>4
<1>5. ASSUME NEW a \in A
      PROVE  {p} \in a \/ {q} \in a
  <2>1. PICK i \in DOMAIN w : (i = 1 \/ w[i].or) /\ a = part(i)
    <3>. HIDE DEF part
    <3>. QED
      BY <1>3
  <2>2. i \in i .. n /\ \A k \in i + 1 .. i : ~w[k].or
    BY <1>1
  <2>3. Query!AtomsOf(w[i]) \in a
    BY <2>1, <2>2
  <2>4. w[i] = w[1] \/ w[i] = w[2]
    BY <2>1
  <2>. QED
    BY <1>2, <2>3, <2>4
<1>6. ASSUME NEW row \in Query!Rows
      PROVE  (\E a \in A : \A atoms \in a : Query!Meets(row, atoms))
                <=> p \in row \/ q \in row
  <2>1. \A x : Query!Meets(row, {x}) <=> x \in row
    BY DEF Query!Meets
  <2>2. ASSUME NEW a \in A, \A atoms \in a : Query!Meets(row, atoms)
        PROVE  p \in row \/ q \in row
    BY <1>5, <2>1, <2>2
  <2>3. ASSUME p \in row \/ q \in row
        PROVE  \E a \in A : \A atoms \in a : Query!Meets(row, atoms)
    <3>1. CASE p \in row
      <4>1. \A atoms \in {{p}} : Query!Meets(row, atoms)
        BY <2>1, <3>1
      <4>. QED
        BY <1>4, <4>1
    <3>2. CASE q \in row
      <4>1. \A atoms \in {{q}} : Query!Meets(row, atoms)
        BY <2>1, <3>2
      <4>. QED
        BY <1>4, <4>1
    <3>. QED
      BY <2>3, <3>1, <3>2
  <2>. QED
    BY <2>2, <2>3
<1>7. w # << >>
  BY <1>1
<1>. QED
  BY <1>6, <1>7 DEF Query!Selected, A

(* F[k] is the concatenation of g[1], ..., g[k].                           *)
Concats(F, g, n) ==
    \A k \in 0 .. n : F[k] = IF k = 0 THEN << >> ELSE F[k - 1] \o g[k]

(* There is such an F.                                                     *)
LEMMA ConcatsExist ==
    ASSUME NEW n \in Nat, NEW g
    PROVE  \E F : F = [k \in 0 .. n |->
                        IF k = 0 THEN << >> ELSE F[k - 1] \o g[k]]
<1>. DEFINE S == {m \in Nat : \E F : F = [k \in 0 .. m |->
                        IF k = 0 THEN << >> ELSE F[k - 1] \o g[k]]}
<1>1. 0 \in S
  <2>. DEFINE F == [k \in 0 .. 0 |-> << >>]
  <2>1. F = [k \in 0 .. 0 |-> IF k = 0 THEN << >> ELSE F[k - 1] \o g[k]]
    OBVIOUS
  <2>. QED
    BY <2>1
<1>2. ASSUME NEW m \in 1 .. n, m - 1 \in S
      PROVE  m \in S
  <2>1. PICK F : F = [k \in 0 .. (m - 1) |->
                        IF k = 0 THEN << >> ELSE F[k - 1] \o g[k]]
    BY <1>2
  <2>. DEFINE G == [k \in 0 .. m |-> IF k = m THEN F[m - 1] \o g[m] ELSE F[k]]
  <2>2. \A k \in 0 .. m : G[k] = IF k = 0 THEN << >> ELSE G[k - 1] \o g[k]
    <3>. SUFFICES ASSUME NEW k \in 0 .. m
                  PROVE  G[k] = IF k = 0 THEN << >> ELSE G[k - 1] \o g[k]
      OBVIOUS
    <3>1. CASE k = m
      <4>1. m - 1 \in 0 .. m /\ m - 1 # m /\ k # 0
        BY <3>1
      <4>. QED
        BY <3>1, <4>1
    <3>2. CASE k # m
      <4>1. k \in 0 .. (m - 1) /\ G[k] = F[k]
        BY <3>2
      <4>2. F[k] = IF k = 0 THEN << >> ELSE F[k - 1] \o g[k]
        BY <2>1, <4>1
      <4>3. k # 0 => k - 1 \in 0 .. m /\ k - 1 # m
        BY <4>1
      <4>4. k # 0 => G[k - 1] = F[k - 1]
        BY <4>3
      <4>. QED
        BY <4>1, <4>2, <4>4
    <3>. QED
      BY <3>1, <3>2
  <2>3. G = [k \in 0 .. m |-> G[k]]
    OBVIOUS
  <2>. HIDE DEF G
  <2>4. G = [k \in 0 .. m |-> IF k = 0 THEN << >> ELSE G[k - 1] \o g[k]]
    BY <2>2, <2>3
  <2>. QED
    BY <2>4
<1>. HIDE DEF S
<1>3. n \in S
  BY <1>1, <1>2, Reaches
<1>. QED
  BY <1>3 DEF S

(* The terms that a WHERE begins with.                                     *)
Sought(statement) ==
    (IF statement.vector = Query!Null THEN << >>
     ELSE << Query!Term(<< "near" >>, FALSE) >>)
    \o (IF statement.fulltext = Query!Null THEN << >>
        ELSE << Query!Term(<< "text" >>, FALSE) >>)

(* A WHERE is what is sought and the terms of the conditions.              *)
LEMMA WhereUnfolds ==
    ASSUME NEW statement, Len(statement.conditions) \in Nat
    PROVE  \E F : \E g :
            /\ Concats(F, g, Len(statement.conditions))
            /\ \A k \in 1 .. Len(statement.conditions) :
                    g[k] = Query!TermsOf(statement.conditions[k])
            /\ Query!Where(statement) =
                    Sought(statement) \o F[Len(statement.conditions)]
<1>. DEFINE cs == statement.conditions
            n == Len(cs)
            g == [k \in 1 .. n |-> Query!TermsOf(cs[k])]
            P(F) == F = [k \in 0 .. n |-> IF k = 0 THEN << >>
                                    ELSE F[k - 1] \o Query!TermsOf(cs[k])]
            F == CHOOSE h : P(h)
<1>1. \E h : P(h)
  <2>1. PICK h : h = [k \in 0 .. n |->
                        IF k = 0 THEN << >> ELSE h[k - 1] \o g[k]]
    BY ConcatsExist
  <2>2. h = [k \in 0 .. n |-> IF k = 0 THEN << >>
                              ELSE h[k - 1] \o Query!TermsOf(cs[k])]
    <3>1. \A k \in 0 .. n : k # 0 => g[k] = Query!TermsOf(cs[k])
      OBVIOUS
    <3>. QED
      BY <2>1, <3>1
  <2>. QED
    BY <2>2
<1>2. P(F)
  BY <1>1
<1>3. Query!Where(statement) = Sought(statement) \o F[n]
  BY DEF Query!Where, Sought
<1>. HIDE DEF F
<1>4. Concats(F, g, n)
  BY <1>2 DEF Concats
<1>5. \A k \in 1 .. n : g[k] = Query!TermsOf(cs[k])
  OBVIOUS
<1>. HIDE DEF g
<1>. QED
  BY <1>3, <1>4, <1>5

(* A condition of one part, or in parentheses, is one term.                *)
LEMMA OneTerm ==
    ASSUME NEW c \in Query!Conditions, ~Query!Bare(c)
    PROVE  Query!TermsOf(c) = << [atoms |-> c.atoms, or |-> FALSE] >>
<1>. USE DEF Query!TermsOf, Query!Term
<1>1. CASE c = [atoms |-> << "p" >>, parens |-> FALSE]
  <2>1. c.atoms = << "p" >> /\ ~c.parens /\ DOMAIN c.atoms = 1 .. 1
    BY <1>1
  <2>2. Query!TermsOf(c) = [i \in 1 .. 1 |-> [atoms |-> << c.atoms[i] >>, or |-> i > 1]]
    BY <2>1
  <2>3. \A i \in 1 .. 1 : [atoms |-> << c.atoms[i] >>, or |-> i > 1]
                            = [atoms |-> c.atoms, or |-> FALSE]
    <3>1. << c.atoms[1] >> = c.atoms
      BY <2>1
    <3>2. (1 > 1) = FALSE
      OBVIOUS
    <3>3. [atoms |-> << c.atoms[1] >>, or |-> 1 > 1] = [atoms |-> c.atoms, or |-> FALSE]
      BY <3>1, <3>2, Zenon
    <3>4. \A i \in 1 .. 1 : i = 1
      OBVIOUS
    <3>. QED
      BY <3>3, <3>4, Zenon
  <2>. HIDE DEF Query!TermsOf, Query!Term
  <2>. DEFINE t == [atoms |-> c.atoms, or |-> FALSE]
  <2>. HIDE DEF t
  <2>4. Query!TermsOf(c) = [i \in 1 .. 1 |-> t]
    <3>1. \A i \in 1 .. 1 : [atoms |-> << c.atoms[i] >>, or |-> i > 1] = t
      BY <2>3 DEF t
    <3>. QED
      BY <2>2, <3>1, Zenon
  <2>5. [i \in 1 .. 1 |-> t] = << t >>
    OBVIOUS
  <2>. QED
    BY <2>4, <2>5 DEF t
<1>2. CASE c = [atoms |-> << "q", "r" >>, parens |-> TRUE]
  BY <1>2
<1>3. CASE c = [atoms |-> << "p", "q" >>, parens |-> FALSE]
  BY <1>3 DEF Query!Bare
<1>. QED
  BY <1>1, <1>2, <1>3 DEF Query!Conditions

(* A disjunction without parentheses is a term and an alternative.         *)
LEMMA BareTerms ==
    ASSUME NEW c \in Query!Conditions, Query!Bare(c)
    PROVE  /\ c.atoms = << "p", "q" >>
           /\ Query!TermsOf(c) = << [atoms |-> << "p" >>, or |-> FALSE],
                                   [atoms |-> << "q" >>, or |-> TRUE] >>
<1>1. c = [atoms |-> << "p", "q" >>, parens |-> FALSE]
  <2>1. CASE c = [atoms |-> << "p" >>, parens |-> FALSE]
    <3>1. Len(c.atoms) = 1
      BY <2>1
    <3>. QED
      BY <3>1 DEF Query!Bare
  <2>2. CASE c = [atoms |-> << "q", "r" >>, parens |-> TRUE]
    BY <2>2 DEF Query!Bare
  <2>. QED
    BY <2>1, <2>2 DEF Query!Conditions
<1>2. c.atoms = << "p", "q" >> /\ ~c.parens /\ DOMAIN c.atoms = 1 .. 2
  BY <1>1
<1>. DEFINE T(i) == [atoms |-> << c.atoms[i] >>, or |-> i > 1]
<1>3. Query!TermsOf(c) = [i \in 1 .. 2 |-> T(i)]
  BY <1>2 DEF Query!TermsOf, Query!Term
<1>4. T(1) = [atoms |-> << "p" >>, or |-> FALSE]
  <2>1. c.atoms[1] = "p"
    BY <1>2
  <2>2. (1 > 1) = FALSE
    OBVIOUS
  <2>. QED
    BY <2>1, <2>2, Zenon
<1>5. T(2) = [atoms |-> << "q" >>, or |-> TRUE]
  <2>1. c.atoms[2] = "q"
    BY <1>2
  <2>2. (2 > 1) = TRUE
    OBVIOUS
  <2>. QED
    BY <2>1, <2>2, Zenon
<1>. HIDE DEF T
<1>6. [i \in 1 .. 2 |-> T(i)] = << T(1), T(2) >>
  OBVIOUS
<1>. QED
  BY <1>2, <1>3, <1>4, <1>5, <1>6

(* Where no disjunction stands without parentheses, a condition is a term. *)
LEMMA RequiredTerms ==
    ASSUME NEW n \in Nat, NEW cs, NEW g, NEW F, Concats(F, g, n),
           \A k \in 1 .. n : cs[k] \in Query!Conditions /\ ~Query!Bare(cs[k]),
           \A k \in 1 .. n : g[k] = Query!TermsOf(cs[k])
    PROVE  F[n] = [k \in 1 .. n |-> [atoms |-> cs[k].atoms, or |-> FALSE]]
<1>. DEFINE T(k) == [atoms |-> cs[k].atoms, or |-> FALSE]
            S == {m \in 0 .. n : F[m] = [k \in 1 .. m |-> T(k)]}
<1>1. \A k \in 1 .. n : g[k] = << T(k) >>
  BY OneTerm
<1>. HIDE DEF T
<1>2. 0 \in S
  <2>1. 0 \in 0 .. n
    OBVIOUS
  <2>2. F[0] = << >>
    BY <2>1 DEF Concats
  <2>3. [k \in 1 .. 0 |-> T(k)] = << >>
    OBVIOUS
  <2>. QED
    BY <2>1, <2>2, <2>3
<1>3. ASSUME NEW m \in 1 .. n, m - 1 \in S
      PROVE  m \in S
  <2>1. m \in 0 .. n /\ m # 0
    OBVIOUS
  <2>2. F[m] = F[m - 1] \o g[m]
    BY ONLY <2>1, Concats(F, g, n) DEF Concats
  <2>3. F[m - 1] = [k \in 1 .. m - 1 |-> T(k)]
    BY <1>3
  <2>4. F[m] = [k \in 1 .. m - 1 |-> T(k)] \o << T(m) >>
    BY <1>1, <2>2, <2>3
  <2>. DEFINE a == [k \in 1 .. m - 1 |-> T(k)]
              X == {T(k) : k \in 1 .. m}
  <2>5. a \in Seq(X) /\ Len(a) = m - 1 /\ T(m) \in X
    <3>1. m - 1 \in Nat /\ \A k \in 1 .. m - 1 : k \in 1 .. m
      OBVIOUS
    <3>2. a \in [1 .. m - 1 -> X]
      BY <3>1
    <3>. QED
      BY <3>1, <3>2
  <2>6. \A k \in 1 .. m - 1 : a[k] = T(k)
    OBVIOUS
  <2>. HIDE DEF a, X
  <2>7. a \o << T(m) >> = [k \in 1 .. m |-> IF k = m THEN T(m) ELSE a[k]]
    BY <2>5
  <2>8. \A k \in 1 .. m : (IF k = m THEN T(m) ELSE a[k]) = T(k)
    BY <2>6
  <2>9. [k \in 1 .. m |-> IF k = m THEN T(m) ELSE a[k]] = [k \in 1 .. m |-> T(k)]
    BY <2>8
  <2>. QED
    BY <2>1, <2>4, <2>7, <2>9 DEF a
<1>3a. \A m \in 1 .. n : m - 1 \in S => m \in S
  BY <1>3
<1>. HIDE DEF S
<1>4. \A m \in 0 .. n : m \in S
  BY ONLY n \in Nat, <1>2, <1>3a, Reaches
<1>5. n \in S
  BY <1>4
<1>. QED
  BY <1>5 DEF S, T

(* The terms of one disjunction, so often as it stands there.              *)
LEMMA RepeatedTerms ==
    ASSUME NEW n \in Nat, NEW cs, NEW g, NEW F, Concats(F, g, n),
           \A k \in 1 .. n : cs[k] \in Query!Conditions /\ Query!Bare(cs[k]),
           \A k \in 1 .. n : g[k] = Query!TermsOf(cs[k]), n # 0
    PROVE  LET one == [atoms |-> << "p" >>, or |-> FALSE]
               other == [atoms |-> << "q" >>, or |-> TRUE]
           IN  /\ F[n] \in Seq({one, other}) /\ Len(F[n]) >= 2
               /\ F[n][1] = one /\ F[n][2] = other
               /\ F[n][Len(F[n])] = other
<1>. DEFINE one == [atoms |-> << "p" >>, or |-> FALSE]
            other == [atoms |-> << "q" >>, or |-> TRUE]
            X == {one, other}
            Good(w) == /\ w \in Seq(X) /\ Len(w) >= 2
                       /\ w[1] = one /\ w[2] = other /\ w[Len(w)] = other
            S == {m \in 0 .. n : IF m = 0 THEN F[m] = << >> ELSE Good(F[m])}
<1>1. \A k \in 1 .. n : g[k] = << one, other >>
  BY BareTerms
<1>. HIDE DEF one, other
<1>2. 0 \in S
  <2>1. 0 \in 0 .. n
    OBVIOUS
  <2>2. F[0] = << >>
    BY <2>1 DEF Concats
  <2>. QED
    BY <2>1, <2>2
<1>3. ASSUME NEW m \in 1 .. n, m - 1 \in S
      PROVE  m \in S
  <2>1. m \in 0 .. n /\ m # 0
    OBVIOUS
  <2>2. F[m] = F[m - 1] \o << one, other >>
    <3>1. F[m] = F[m - 1] \o g[m]
      BY ONLY <2>1, Concats(F, g, n) DEF Concats
    <3>. QED
      BY <1>1, <3>1
  <2>3. CASE m = 1
    <3>1. F[m] = << >> \o << one, other >>
      <4>1. m - 1 = 0 /\ 0 \in 0 .. n
        BY <2>3
      <4>2. F[0] = << >>
        BY <4>1 DEF Concats
      <4>. QED
        BY <2>2, <4>1, <4>2
    <3>2. F[m] = << one, other >>
      <4>1. << one, other >> \in Seq(X)
        OBVIOUS
      <4>. HIDE DEF X
      <4>. QED
        BY <3>1, <4>1, ConcatEmptySeq
    <3>3. Good(<< one, other >>)
      OBVIOUS
    <3>. QED
      BY <2>1, <3>2, <3>3
  <2>4. CASE m # 1
    <3>1. Good(F[m - 1])
      BY <1>3, <2>4
    <3>. DEFINE v == F[m - 1]
    <3>2. v \in Seq(X) /\ Len(v) >= 2 /\ v[1] = one /\ v[2] = other
      BY <3>1
    <3>. HIDE DEF v
    <3>3. << one, other >> \in Seq(X) /\ Len(<< one, other >>) = 2
          /\ << one, other >>[2] = other
      OBVIOUS
    <3>. DEFINE u == << one, other >>
    <3>. HIDE DEF u, X
    <3>4. /\ v \o u \in Seq(X) /\ Len(v \o u) = Len(v) + 2
          /\ \A i \in 1 .. Len(v) : (v \o u)[i] = v[i]
          /\ (v \o u)[Len(v) + 2] = u[2]
      <4>1. v \in Seq(X) /\ u \in Seq(X) /\ Len(u) = 2
        BY <3>2, <3>3 DEF u
      <4>2. /\ v \o u \in Seq(X) /\ Len(v \o u) = Len(v) + Len(u)
            /\ \A i \in 1 .. Len(v) + Len(u) :
                (v \o u)[i] = IF i <= Len(v) THEN v[i] ELSE u[i - Len(v)]
        BY <4>1, ConcatProperties
      <4>3. Len(v) \in Nat /\ Len(v) + 2 \in 1 .. Len(v) + 2
            /\ ~(Len(v) + 2 <= Len(v)) /\ Len(v) + 2 - Len(v) = 2
        BY <4>1
      <4>. QED
        BY <4>1, <4>2, <4>3
    <3>5. Good(v \o u)
      BY <3>2, <3>3, <3>4 DEF u
    <3>. QED
      BY <2>1, <2>2, <3>5 DEF u, v
  <2>. QED
    BY <2>3, <2>4
<1>3a. \A m \in 1 .. n : m - 1 \in S => m \in S
  BY <1>3
<1>. HIDE DEF S
<1>4. \A m \in 0 .. n : m \in S
  BY ONLY n \in Nat, <1>2, <1>3a, Reaches
<1>5. n \in S
  BY <1>4
<1>6. Good(F[n])
  BY <1>5 DEF S
<1>. QED
  BY <1>6 DEF one, other

(* Which searches a rendered statement has.                                *)
LEMMA Searched ==
    ASSUME NEW q, QueryKept(q),
           LET t == Query!ToSurQL(q.state) IN
            /\ t.op \in {"select", "update", "delete"}
            /\ t.op # "select" =>
                \A n \in DOMAIN q.calls : q.calls[n].method \notin Query!Searches
    PROVE  LET t == Query!ToSurQL(q.state) IN
            /\ t.conditions = q.state.conditions
            /\ t.vector # Query!Null <=>
                \E n \in DOMAIN q.calls :
                    q.calls[n].method \in {"vectorSearch", "vectorSearchIndexed"}
            /\ t.fulltext # Query!Null <=>
                \E n \in DOMAIN q.calls : q.calls[n].method = "fulltextSearch"
<1>. DEFINE t == Query!ToSurQL(q.state)
            kinds == {"vectorSearch", "vectorSearchIndexed"}
<1>1. /\ t.op \in {"select", "update", "delete"} /\ t # Query!Throws
      /\ t.op # "select" =>
            \A n \in DOMAIN q.calls : q.calls[n].method \notin Query!Searches
  BY DEF Query!Throws
<1>2. /\ q.state.operation \in Query!Operations
      /\ Query!Remembers(q.state, q.calls)
      /\ \E n \in DOMAIN q.calls : q.calls[n].method \in Query!Operations
      /\ q.calls \in Seq(Query!Callable)
  BY OperationIs DEF QueryKept
<1>3. /\ t.op = "select" => t.fulltext = q.state.fulltext
                            /\ t.vector = Query!VectorForm(q.state)
      /\ t.op # "select" => t.vector = Query!Null /\ t.fulltext = Query!Null
      /\ t.op \in {"select", "update", "delete", "upsert"} =>
            t.conditions = q.state.conditions
  BY <1>1, <1>2, Rendered
<1>4. t.conditions = q.state.conditions
  BY <1>1, <1>3
<1>5. CASE t.op # "select"
  <2>1. \A n \in DOMAIN q.calls : q.calls[n].method \notin kinds \cup {"fulltextSearch"}
    BY <1>1, <1>5 DEF Query!Searches
  <2>. QED
    BY <1>3, <1>4, <1>5, <2>1
<1>6. CASE t.op = "select"
  <2>. DEFINE last == Query!Last(q.calls, kinds).method
              form == Query!VectorForm(q.state)
              text == q.state.fulltext
  <2>1. form # Query!Null <=> \E n \in DOMAIN q.calls : q.calls[n].method \in kinds
    <3>1. CASE \E n \in DOMAIN q.calls : q.calls[n].method \in kinds
      <4>1. last \in kinds
        BY <1>2, <3>1, LastIs
      <4>2. last = "vectorSearch" \/ last = "vectorSearchIndexed"
        BY <4>1
      <4>3. form = CASE last = Query!Null -> Query!Null
                     [] last = "vectorSearch" -> "exhaustive"
                     [] last = "vectorSearchIndexed" -> "indexed"
        BY VectorIs, Zenon
      <4>. HIDE DEF last, form
      <4>4. form # Query!Null
        BY <4>2, <4>3 DEF Query!Null
      <4>. QED
        BY <3>1, <4>4
    <3>2. CASE \A n \in DOMAIN q.calls : q.calls[n].method \notin kinds
      <4>1. last = Query!Null
        BY <3>2, LastOfNone DEF Query!Null
      <4>2. form = Query!Null
        BY <1>2, <4>1 DEF Query!Remembers, Query!VectorForm
      <4>. QED
        BY <3>2, <4>2
    <3>. QED
      BY <3>1, <3>2
  <2>2. text # Query!Null <=>
            \E n \in DOMAIN q.calls : q.calls[n].method = "fulltextSearch"
    <3>0. text = Query!Last(q.calls, {"fulltextSearch"}).arg
      BY <1>2 DEF Query!Remembers
    <3>1. CASE \E n \in DOMAIN q.calls : q.calls[n].method = "fulltextSearch"
      <4>1. PICK i \in DOMAIN q.calls :
                /\ q.calls[i].method \in {"fulltextSearch"}
                /\ Query!Last(q.calls, {"fulltextSearch"}) = q.calls[i]
        BY <1>2, <3>1, LastIs
      <4>2. q.calls[i] \in Query!Callable
        BY <1>2, <4>1
      <4>3. q.calls[i].arg # Query!Null
        BY <4>1, <4>2, CallableIs DEF Query!Searches
      <4>. QED
        BY <3>0, <3>1, <4>1, <4>3
    <3>2. CASE \A n \in DOMAIN q.calls : q.calls[n].method # "fulltextSearch"
      <4>1. text = Query!Null
        BY <3>0, <3>2, LastOfNone DEF Query!Null
      <4>. QED
        BY <3>2, <4>1
    <3>. QED
      BY <3>1, <3>2
  <2>. QED
    BY <1>3, <1>4, <1>6, <2>1, <2>2
<1>. QED
  BY <1>5, <1>6

(* The conditions of a query are those that it was called with.            *)
AskedOf(hist) ==
    {hist[n].condition : n \in {m \in DOMAIN hist : hist[m].method = "where"}}

LEMMA ConditionsAsked ==
    ASSUME NEW conditions, NEW hist, Query!InOrder(conditions, hist)
    PROVE  {conditions[k] : k \in DOMAIN conditions} = AskedOf(hist)
<1>. DEFINE wheres == {n \in DOMAIN hist : hist[n].method = "where"}
<1>1. PICK place \in [DOMAIN conditions -> DOMAIN hist] :
        /\ {place[k] : k \in DOMAIN conditions} = wheres
        /\ \A k \in DOMAIN conditions : conditions[k] = hist[place[k]].condition
  BY DEF Query!InOrder
<1>. HIDE DEF wheres
<1>2. \A k \in DOMAIN conditions : place[k] \in wheres
  BY <1>1
<1>3. \A n \in wheres : \E k \in DOMAIN conditions : place[k] = n
  BY <1>1
<1>4. {conditions[k] : k \in DOMAIN conditions} = {hist[n].condition : n \in wheres}
  BY <1>1, <1>2, <1>3
<1>. QED
  BY <1>4 DEF wheres, AskedOf

(* What is sought is required.                                             *)
LEMMA SoughtIs ==
    ASSUME NEW t
    PROVE  /\ Sought(t) \in Seq(Range(Sought(t)))
           /\ \A j \in DOMAIN Sought(t) : Sought(t)[j].or = FALSE
           /\ \A row : (\A term \in Range(Sought(t)) :
                                Query!Meets(row, Query!AtomsOf(term)))
                <=> /\ t.vector # Query!Null => "near" \in row
                    /\ t.fulltext # Query!Null => "text" \in row
<1>. DEFINE near == [atoms |-> << "near" >>, or |-> FALSE]
            text == [atoms |-> << "text" >>, or |-> FALSE]
            a == IF t.vector = Query!Null THEN << >> ELSE << near >>
            b == IF t.fulltext = Query!Null THEN << >> ELSE << text >>
            X == {near, text}
<1>1. near.or = FALSE /\ text.or = FALSE
  OBVIOUS
<1>2. \A row : /\ Query!Meets(row, Query!AtomsOf(near)) <=> "near" \in row
               /\ Query!Meets(row, Query!AtomsOf(text)) <=> "text" \in row
  <2>1. Query!AtomsOf(near) = {"near"}
    <3>1. Query!AtomsOf(near) = {<< "near" >>[i] : i \in DOMAIN << "near" >>}
      BY DEF Query!AtomsOf
    <3>2. DOMAIN << "near" >> = {1} /\ << "near" >>[1] = "near"
      OBVIOUS
    <3>. QED
      BY <3>1, <3>2
  <2>2. Query!AtomsOf(text) = {"text"}
    <3>1. Query!AtomsOf(text) = {<< "text" >>[i] : i \in DOMAIN << "text" >>}
      BY DEF Query!AtomsOf
    <3>2. DOMAIN << "text" >> = {1} /\ << "text" >>[1] = "text"
      OBVIOUS
    <3>. QED
      BY <3>1, <3>2
  <2>. QED
    BY <2>1, <2>2 DEF Query!Meets
<1>. HIDE DEF near, text
<1>3. Sought(t) = a \o b
  BY Zenon DEF Sought, Query!Term, near, text
<1>4. a \in Seq(X) /\ b \in Seq(X)
  <2>1. << >> \in Seq(X) /\ << near >> \in Seq(X) /\ << text >> \in Seq(X)
    OBVIOUS
  <2>. QED
    BY <2>1
<1>5. /\ Range(a) = IF t.vector = Query!Null THEN {} ELSE {near}
      /\ Range(b) = IF t.fulltext = Query!Null THEN {} ELSE {text}
  BY DEF Range
<1>. HIDE DEF X
<1>. HIDE DEF a, b
<1>6. a \o b \in Seq(X) /\ Range(a \o b) = Range(a) \cup Range(b)
  <2>1. a \o b \in Seq(X)
    BY <1>4, ConcatProperties
  <2>2. Range(a \o b) = Range(a) \cup Range(b)
    BY <1>4, RangeConcatenation
  <2>. QED
    BY <2>1, <2>2
<1>7. a \o b \in Seq(Range(a \o b)) /\ Range(a \o b) \subseteq X
  BY <1>6, SeqOfRange, RangeOfSeq
<1>8. \A j \in DOMAIN (a \o b) : (a \o b)[j] \in X
  BY <1>6
<1>. QED
  BY <1>1, <1>2, <1>3, <1>5, <1>6, <1>7, <1>8 DEF X

(* All conditions and searches are met by what is selected.                *)
LEMMA RequiredSelects ==
    ASSUME NEW t, t.conditions \in Seq(Query!Conditions),
           \A k \in DOMAIN t.conditions : ~Query!Bare(t.conditions[k])
    PROVE  Query!Selected(Query!Where(t)) =
            {row \in Query!Rows :
                /\ t.vector # Query!Null => "near" \in row
                /\ t.fulltext # Query!Null => "text" \in row
                /\ \A k \in DOMAIN t.conditions :
                    Query!Meets(row, Query!AtomsOf(t.conditions[k]))}
<1>. DEFINE cs == t.conditions
            n == Len(cs)
            C == Query!Conditions
            w == Query!Where(t)
            a == Sought(t)
            terms == [k \in 1 .. n |-> [atoms |-> cs[k].atoms, or |-> FALSE]]
<1>1. n \in Nat /\ DOMAIN cs = 1 .. n /\ \A k \in 1 .. n : cs[k] \in C
  <2>. HIDE DEF C
  <2>. QED
    BY DEF C
<1>. HIDE DEF C
<1>2. w = a \o terms
  <2>1. PICK F, g : /\ Concats(F, g, n)
                    /\ \A k \in 1 .. n : g[k] = Query!TermsOf(cs[k])
                    /\ w = a \o F[n]
    BY <1>1, WhereUnfolds
  <2>2. \A k \in 1 .. n : cs[k] \in Query!Conditions /\ ~Query!Bare(cs[k])
    BY <1>1 DEF C
  <2>3. F[n] = terms
    <3>1. n \in Nat /\ Concats(F, g, n)
      BY <1>1, <2>1
    <3>2. \A k \in 1 .. n : g[k] = Query!TermsOf(cs[k])
      BY <2>1
    <3>. HIDE DEF n, cs
    <3>. QED
      BY ONLY <2>2, <3>1, <3>2, RequiredTerms
  <2>. QED
    BY <2>1, <2>3
<1>3. \A k \in 1 .. n : /\ terms[k].or = FALSE
                        /\ Query!AtomsOf(terms[k]) = Query!AtomsOf(cs[k])
  <2>. SUFFICES ASSUME NEW k \in 1 .. n
                PROVE  /\ terms[k].or = FALSE
                       /\ Query!AtomsOf(terms[k]) = Query!AtomsOf(cs[k])
    OBVIOUS
  <2>1. terms[k] = [atoms |-> cs[k].atoms, or |-> FALSE]
    OBVIOUS
  <2>2. terms[k].or = FALSE
    BY ONLY <2>1
  <2>3. terms[k].atoms = cs[k].atoms
    BY ONLY <2>1
  <2>. HIDE DEF terms
  <2>4. Query!AtomsOf(terms[k]) = Query!AtomsOf(cs[k])
    BY <2>3, Zenon DEF Query!AtomsOf
  <2>. QED
    BY <2>2, <2>4
<1>4. DOMAIN terms = 1 .. n /\ terms \in Seq(Range(terms))
  <2>1. DOMAIN terms = 1 .. n
    OBVIOUS
  <2>. DEFINE T(k) == [atoms |-> cs[k].atoms, or |-> FALSE]
  <2>. HIDE DEF T
  <2>2. [k \in 1 .. n |-> T(k)] \in Seq({T(k) : k \in 1 .. n})
    BY <1>1
  <2>3. terms = [k \in 1 .. n |-> T(k)]
    BY DEF T
  <2>4. terms \in Seq({T(k) : k \in 1 .. n})
    BY <2>2, <2>3
  <2>. HIDE DEF terms
  <2>. QED
    BY <2>1, <2>4, SeqOfRange
<1>. HIDE DEF terms, a, n
<1>. DEFINE X == Range(a) \cup Range(terms)
<1>5. /\ a \in Seq(X) /\ terms \in Seq(X)
      /\ \A j \in DOMAIN a : a[j].or = FALSE
      /\ \A row : (\A term \in Range(a) : Query!Meets(row, Query!AtomsOf(term)))
            <=> /\ t.vector # Query!Null => "near" \in row
                /\ t.fulltext # Query!Null => "text" \in row
  <2>1. a \in Seq(Range(a))
    BY SoughtIs DEF a
  <2>2. a \in Seq(X) /\ terms \in Seq(X)
    <3>1. \A A, B : A \subseteq B => Seq(A) \subseteq Seq(B)
      OBVIOUS
    <3>2. Range(a) \subseteq X /\ Range(terms) \subseteq X
      OBVIOUS
    <3>. HIDE DEF X
    <3>. QED
      BY <1>4, <2>1, <3>1, <3>2
  <2>. QED
    BY <2>2, SoughtIs DEF a
<1>. HIDE DEF X
<1>6. w \in Seq(X) /\ Range(w) = Range(a) \cup Range(terms)
  BY <1>2, <1>5, ConcatProperties, RangeConcatenation
<1>. HIDE DEF w
<1>7. \A term \in Range(w) : term.or = FALSE
  <2>1. \A term \in Range(a) : term.or = FALSE
    BY <1>5 DEF Range
  <2>2. \A term \in Range(terms) : term.or = FALSE
    BY <1>3, <1>4 DEF Range
  <2>. QED
    BY <1>6, <2>1, <2>2
<1>8. \A j \in DOMAIN w : w[j].or = FALSE
  BY <1>7 DEF Range
<1>9. Query!Selected(w) =
        {row \in Query!Rows :
            \A j \in DOMAIN w : Query!Meets(row, Query!AtomsOf(w[j]))}
  BY <1>6, <1>8, AllRequired
<1>10. ASSUME NEW row
       PROVE  (\A j \in DOMAIN w : Query!Meets(row, Query!AtomsOf(w[j])))
                <=> /\ t.vector # Query!Null => "near" \in row
                    /\ t.fulltext # Query!Null => "text" \in row
                    /\ \A k \in DOMAIN cs :
                        Query!Meets(row, Query!AtomsOf(cs[k]))
  <2>1. (\A j \in DOMAIN w : Query!Meets(row, Query!AtomsOf(w[j])))
            <=> \A term \in Range(w) : Query!Meets(row, Query!AtomsOf(term))
    BY Zenon DEF Range
  <2>2. (\A term \in Range(terms) : Query!Meets(row, Query!AtomsOf(term)))
            <=> \A k \in 1 .. n : Query!Meets(row, Query!AtomsOf(terms[k]))
    BY <1>4, Zenon DEF Range
  <2>3. \A k \in 1 .. n : Query!Meets(row, Query!AtomsOf(terms[k]))
            <=> Query!Meets(row, Query!AtomsOf(cs[k]))
    BY <1>3, Zenon
  <2>. QED
    BY <1>1, <1>5, <1>6, <2>1, <2>2, <2>3
<1>. QED
  BY <1>9, <1>10 DEF w

(* One disjunction, on its own, is met by what is selected.                *)
LEMMA RepeatedSelects ==
    ASSUME NEW t, t.conditions \in Seq(Query!Conditions), t.conditions # << >>,
           \A k \in DOMAIN t.conditions : Query!Bare(t.conditions[k]),
           t.vector = Query!Null, t.fulltext = Query!Null
    PROVE  Query!Selected(Query!Where(t)) =
            {row \in Query!Rows : "p" \in row \/ "q" \in row}
<1>. DEFINE cs == t.conditions
            n == Len(cs)
            C == Query!Conditions
            w == Query!Where(t)
            one == [atoms |-> << "p" >>, or |-> FALSE]
            other == [atoms |-> << "q" >>, or |-> TRUE]
<1>1. n \in Nat /\ n # 0 /\ DOMAIN cs = 1 .. n /\ \A k \in 1 .. n : cs[k] \in C
  <2>1. cs \in Seq(C) /\ cs # << >>
    OBVIOUS
  <2>. HIDE DEF C, cs
  <2>. QED
    BY <2>1, EmptySeq, LenProperties
<1>2. PICK F, g : /\ Concats(F, g, n)
                  /\ \A k \in 1 .. n : g[k] = Query!TermsOf(cs[k])
                  /\ w = Sought(t) \o F[n]
  BY <1>1, WhereUnfolds
<1>3. /\ F[n] \in Seq({one, other}) /\ Len(F[n]) >= 2
      /\ F[n][1] = one /\ F[n][2] = other /\ F[n][Len(F[n])] = other
  <2>1. n \in Nat /\ Concats(F, g, n) /\ n # 0
    BY <1>1, <1>2
  <2>2. \A k \in 1 .. n : g[k] = Query!TermsOf(cs[k])
    BY <1>2
  <2>3. \A k \in 1 .. n : cs[k] \in Query!Conditions /\ Query!Bare(cs[k])
    BY <1>1
  <2>. HIDE DEF n, cs
  <2>. QED
    BY ONLY <2>1, <2>2, <2>3, RepeatedTerms
<1>. HIDE DEF n
<1>4. w = F[n]
  <2>. DEFINE X == {one, other}
              v == F[n]
  <2>1. Sought(t) = << >> \o << >>
    BY Zenon DEF Sought
  <2>2. << >> \in Seq(X) /\ v \in Seq(X)
    BY <1>3
  <2>. HIDE DEF X, v
  <2>3. << >> \o << >> = << >> /\ << >> \o v = v
    BY <2>2, ConcatEmptySeq
  <2>4. w = (<< >> \o << >>) \o v
    BY <1>2, <2>1, Zenon DEF v
  <2>. QED
    BY <2>3, <2>4 DEF v
<1>. HIDE DEF w
<1>5. \A j \in DOMAIN w : w[j] = w[1] \/ w[j] = w[2]
  <2>. HIDE DEF one, other
  <2>1. w \in Seq({one, other}) /\ w[1] = one /\ w[2] = other
    BY <1>3, <1>4
  <2>2. \A j \in DOMAIN w : w[j] \in {one, other}
    BY <2>1
  <2>. QED
    BY <2>1, <2>2
<1>6. /\ w \in Seq({one, other}) /\ Len(w) >= 2
      /\ w[1] = [atoms |-> << "p" >>, or |-> FALSE]
      /\ w[2] = [atoms |-> << "q" >>, or |-> TRUE] /\ w[Len(w)] = w[2]
  BY <1>3, <1>4
<1>7. Query!Selected(w) = {row \in Query!Rows : "p" \in row \/ "q" \in row}
  <2>. DEFINE X == {one, other}
  <2>1. w \in Seq(X)
    BY <1>6
  <2>. HIDE DEF X
  <2>. QED
    BY <1>5, <1>6, <2>1, EitherSuffices
<1>. QED
  BY <1>7 DEF w

(* The cardinality that the instance means.                                *)
LEMMA SameCardinality == \A S : Query!Cardinality(S) = Cardinality(S)
BY Zenon DEF Query!Cardinality, Cardinality, Query!IsFiniteSet, IsFiniteSet

(* One condition, if it is one that was asked.                             *)
LEMMA ConditionsFinite ==
    ASSUME NEW S \in SUBSET Query!Conditions, Query!Cardinality(S) = 1
    PROVE  \E c : S = {c}
<1>1. IsFiniteSet(Query!Conditions)
  <2>. DEFINE a == [atoms |-> << "p" >>, parens |-> FALSE]
              b == [atoms |-> << "p", "q" >>, parens |-> FALSE]
              c == [atoms |-> << "q", "r" >>, parens |-> TRUE]
  <2>1. Query!Conditions = {a, b, c}
    BY DEF Query!Conditions
  <2>. HIDE DEF a, b, c
  <2>2. IsFiniteSet({a})
    BY FS_Singleton
  <2>3. IsFiniteSet({a} \cup {b})
    BY <2>2, FS_AddElement
  <2>4. IsFiniteSet(({a} \cup {b}) \cup {c})
    BY <2>3, FS_AddElement
  <2>5. ({a} \cup {b}) \cup {c} = {a, b, c}
    OBVIOUS
  <2>. QED
    BY <2>1, <2>4, <2>5
<1>2. IsFiniteSet(S)
  BY <1>1, FS_Subset
<1>3. Cardinality(S) = 1
  BY SameCardinality
<1>. QED
  BY <1>2, <1>3, FS_Singleton

(* A query selects what its calls mean.                                    *)
LEMMA QueryTouches ==
    ASSUME NEW q, QueryKept(q)
    PROVE  LET hist == q.calls
               s == Query!ToSurQL(q.state)
               wanted == {hist[n].condition :
                          n \in {m \in DOMAIN hist : hist[m].method = "where"}}
               searched == {hist[n].method : n \in DOMAIN hist} \cap Query!Searches
               sought == {IF m = "fulltextSearch" THEN "text" ELSE "near" :
                           m \in searched}
               searches == searched # {}
               alone == Query!Cardinality(wanted) = 1 /\ ~searches
               conditions == {Query!AtomsOf(c) : c \in wanted}
           IN  /\ s.op \in {"select", "update", "delete"}
               /\ (\E c \in wanted : Query!Bare(c)) => alone
               /\ s.op # "select" => ~searches
               => Query!Selected(Query!Where(s)) =
                   {row \in Query!Rows :
                       /\ \A atoms \in conditions : Query!Meets(row, atoms)
                       /\ sought \subseteq row}
<1>. DEFINE hist == q.calls
            s == Query!ToSurQL(q.state)
            wanted == {hist[n].condition :
                       n \in {m \in DOMAIN hist : hist[m].method = "where"}}
            searched == {hist[n].method : n \in DOMAIN hist} \cap Query!Searches
            sought == {IF m = "fulltextSearch" THEN "text" ELSE "near" :
                        m \in searched}
            searches == searched # {}
            alone == Query!Cardinality(wanted) = 1 /\ ~searches
            conditions == {Query!AtomsOf(c) : c \in wanted}
<1>. SUFFICES ASSUME s.op \in {"select", "update", "delete"},
                     (\E c \in wanted : Query!Bare(c)) => alone,
                     s.op # "select" => ~searches
              PROVE  Query!Selected(Query!Where(s)) =
                   {row \in Query!Rows :
                       /\ \A atoms \in conditions : Query!Meets(row, atoms)
                       /\ sought \subseteq row}
  OBVIOUS
<1>1. /\ s.conditions = q.state.conditions
      /\ s.vector # Query!Null <=>
            \E n \in DOMAIN hist :
                hist[n].method \in {"vectorSearch", "vectorSearchIndexed"}
      /\ s.fulltext # Query!Null <=>
            \E n \in DOMAIN hist : hist[n].method = "fulltextSearch"
  <2>1. s.op # "select" =>
            \A n \in DOMAIN hist : hist[n].method \notin Query!Searches
    OBVIOUS
  <2>. HIDE DEF searched
  <2>. QED
    BY <2>1, Searched
<1>2. /\ s.conditions \in Seq(Query!Conditions)
      /\ Query!InOrder(s.conditions, hist)
  BY <1>1 DEF QueryKept, Query!Remembers
<1>3. {s.conditions[k] : k \in DOMAIN s.conditions} = wanted
  <2>1. Query!InOrder(s.conditions, hist)
    BY <1>2
  <2>2. wanted = AskedOf(hist)
    BY Zenon DEF AskedOf
  <2>. HIDE DEF s, hist, wanted
  <2>3. {s.conditions[k] : k \in DOMAIN s.conditions} = AskedOf(hist)
    BY ONLY <2>1, ConditionsAsked
  <2>. QED
    BY <2>2, <2>3
<1>4. \A k \in DOMAIN s.conditions : s.conditions[k] \in Query!Conditions
  <2>. DEFINE C == Query!Conditions
  <2>1. s.conditions \in Seq(C)
    BY <1>2
  <2>. HIDE DEF C, s
  <2>. QED
    BY <2>1 DEF C
<1>5. /\ s.vector # Query!Null <=> "near" \in sought
      /\ s.fulltext # Query!Null <=> "text" \in sought
      /\ sought \subseteq {"near", "text"}
  <2>1. /\ s.vector # Query!Null <=>
            \E m \in searched : m \in {"vectorSearch", "vectorSearchIndexed"}
        /\ s.fulltext # Query!Null <=> "fulltextSearch" \in searched
    BY <1>1 DEF Query!Searches
  <2>2. searched \subseteq {"vectorSearch", "vectorSearchIndexed", "fulltextSearch"}
    BY DEF Query!Searches
  <2>. HIDE DEF searched, s
  <2>. QED
    BY <2>1, <2>2
<1>. HIDE DEF s, wanted, sought, searched
<1>6. CASE \A c \in wanted : ~Query!Bare(c)
  <2>1. \A k \in DOMAIN s.conditions : ~Query!Bare(s.conditions[k])
    BY <1>3, <1>6
  <2>2. Query!Selected(Query!Where(s)) =
            {row \in Query!Rows :
                /\ s.vector # Query!Null => "near" \in row
                /\ s.fulltext # Query!Null => "text" \in row
                /\ \A k \in DOMAIN s.conditions :
                    Query!Meets(row, Query!AtomsOf(s.conditions[k]))}
    BY <1>2, <2>1, RequiredSelects
  <2>3. \A row : (\A k \in DOMAIN s.conditions :
                    Query!Meets(row, Query!AtomsOf(s.conditions[k])))
                 <=> \A atoms \in conditions : Query!Meets(row, atoms)
    BY <1>3
  <2>4. \A row : sought \subseteq row
                    <=> /\ s.vector # Query!Null => "near" \in row
                        /\ s.fulltext # Query!Null => "text" \in row
    BY <1>5
  <2>. HIDE DEF conditions
  <2>. QED
    BY <2>2, <2>3, <2>4
<1>7. CASE \E c \in wanted : Query!Bare(c)
  <2>1. Query!Cardinality(wanted) = 1 /\ searched = {}
    BY <1>7
  <2>2. wanted \in SUBSET Query!Conditions
    BY <1>3, <1>4
  <2>3. PICK c : wanted = {c}
    BY <2>1, <2>2, ConditionsFinite
  <2>4. c \in Query!Conditions /\ Query!Bare(c)
    BY <1>7, <2>2, <2>3
  <2>5. sought = {}
    BY <2>1 DEF sought
  <2>6. s.vector = Query!Null /\ s.fulltext = Query!Null
    BY <1>5, <2>5
  <2>7. \A k \in DOMAIN s.conditions : Query!Bare(s.conditions[k])
    BY <1>3, <2>3, <2>4
  <2>8. s.conditions # << >>
    BY <1>3, <2>3
  <2>9. Query!Selected(Query!Where(s)) =
            {row \in Query!Rows : "p" \in row \/ "q" \in row}
    BY <1>2, <2>6, <2>7, <2>8, RepeatedSelects
  <2>10. Query!AtomsOf(c) = {"p", "q"}
    <3>1. c.atoms = << "p", "q" >>
      BY <2>4, BareTerms
    <3>2. DOMAIN << "p", "q" >> = {1, 2}
          /\ << "p", "q" >>[1] = "p" /\ << "p", "q" >>[2] = "q"
      OBVIOUS
    <3>. QED
      BY <3>1, <3>2 DEF Query!AtomsOf
  <2>11. conditions = {{"p", "q"}}
    BY <2>3, <2>10
  <2>12. \A row : Query!Meets(row, {"p", "q"}) <=> "p" \in row \/ "q" \in row
    BY DEF Query!Meets
  <2>. HIDE DEF conditions
  <2>. QED
    BY <2>5, <2>9, <2>11, <2>12
<1>. QED
  BY <1>6, <1>7

(* So does each of them.                                                   *)
LEMMA QueriesTouch ==
    ASSUME Query!QueriesInv
    PROVE  Query!TouchesWhatWasAsked
<1>1. \A i \in DOMAIN queries : QueryKept(queries[i])
  BY QueriesInvIs
<1>. QED
  BY <1>1, QueryTouches, Zenon DEF Query!TouchesWhatWasAsked

(* As long as queries are derived from one another, each has the calls     *)
(* that made it and is what the last of each kind has set, whatever was    *)
(* called on the others (builder.ts).                                      *)
THEOREM QueriesInvariant == Spec => []Query!QueriesInv
<1>. USE PartsAssumption
<1>0. MaxQueries \in Nat
  BY DEF Query!BuilderAssumption
<1>1. Init => Query!QueriesInv
  BY <1>0, QueriesInitially DEF Init
<1>2. Query!QueriesInv /\ [Next]_vars => Query!QueriesInv'
  <2>. SUFFICES ASSUME Query!QueriesInv, [Next]_vars
                PROVE  Query!QueriesInv'
    OBVIOUS
  <2>1. CASE Query!Next
    BY <1>0, <2>1, QueriesStep
  <2>2. CASE UNCHANGED queryVars
    <3>1. queries' = queries
      BY <2>2 DEF queryVars
    <3>. QED
      BY <3>1, QueriesInvIs, QueriesInvIsNext, SMT
  <2>. QED
    BY <2>1, <2>2, OnePartMoves
<1>. QED
  BY <1>1, <1>2, PTL DEF Spec

(* A query's statement says what its own calls asked, and the server       *)
(* selects or changes the rows that meet all of it, for any number of      *)
(* queries derived in any order; a page that stands is as it was told, and *)
(* every HAVING condition has its own value (builder.ts, capabilities).    *)
THEOREM QueriesAreRight == Spec => []QueriesHold
<1>1. Query!QueriesInv /\ (used = "capabilities" =>
                  /\ Capabilities!TypeOK
                  /\ Capabilities!PageInfoTrue
                  /\ Capabilities!HavingBound)
        => QueriesHold
  BY QueriesTypes, QueriesRender, QueriesTouch, Zenon DEF QueriesHold
<1>. QED
  BY <1>1, QueriesInvariant, CapabilitiesAreRight, PTL
=============================================================================
