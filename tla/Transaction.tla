---------------------------- MODULE Transaction ----------------------------
(***************************************************************************)
(* One Transaction object, the tasks that share it, and the server.        *)
(*                                                                         *)
(*   src/src/connection/transaction.ts, src/src/query/batch.ts             *)
(*                                                                         *)
(* Statements are buffered in the client; commit() sends BEGIN, the buffer *)
(* and COMMIT as one request.  commit() is the one method that really      *)
(* awaits, and the state stays ACTIVE while it does.                       *)
(***************************************************************************)
EXTENDS Naturals, Sequences, SequencesExt, FiniteSets

CONSTANTS
    Tasks,      \* the asynchronous tasks of the program
    Batches,    \* the batches upsertMany is called with; execute() is a
                \* batch of one
    Statements, \* the texts in them
    Width,      \* Width[s]: how many statements the server finds in text s
    MaxBuffer   \* bound: statements accepted in one behaviour

ASSUME TransactionAssumption ==
    /\ IsFiniteSet(Tasks)
    /\ Batches \subseteq Seq(Statements)
    /\ Width \in [Statements -> Nat \ {0}]
    /\ MaxBuffer \in Nat
    /\ {"BEGIN", "COMMIT"} \cap Statements = {}

VARIABLES
    holders,    \* the tasks that have a reference to the transaction
    state,      \* _state
    statements, \* the buffer
    pc,         \* pc[t]: where task t stands
    left,       \* left[t]: what t's upsertMany has still to queue
    sent,       \* sent[t]: the buffer as t's commit() sent it
    responses,  \* responses[t]: the per-statement envelope of its reply
    results,    \* results[t]: what t's commit() returned
    blamed,     \* blamed[t]: the text t's TransactionError names
    accepted,   \* history: every statement execute() accepted, in order
    applied     \* the server: the batches it committed, in order

memory == <<state, statements>>
task   == <<pc, left, sent, responses, results, blamed>>
vars   == <<holders, memory, task, accepted, applied>>

States == {"PENDING", "ACTIVE", "COMMITTED", "CANCELLED", "FAILED"}
Replies == [of: Statements \cup {"BEGIN", "COMMIT"},
            error: {"none", "NotExecuted", "cause"}]
Nobody == "nobody"

TypeOK ==
    /\ holders \subseteq Tasks
    /\ state \in States
    /\ statements \in Seq(Statements)
    /\ pc \in [Tasks -> {"idle", "queueing", "sent", "answered", "lost"}]
    /\ left \in [Tasks -> Seq(Statements)]
    /\ sent \in [Tasks -> Seq(Statements)]
    /\ responses \in [Tasks -> Seq(Replies)]
    /\ results \in [Tasks -> Seq(Statements \cup {"BEGIN", "COMMIT"})]
    /\ blamed \in [Tasks -> Statements \cup {"BEGIN", "COMMIT", Nobody}]
    /\ accepted \in Seq(Statements)
    /\ applied \in Seq(Seq(Statements))
    /\ \A t \in Tasks : pc[t] # "queueing" => left[t] = <<>>

(* It is used by one task, or handed to several.                           *)
Init ==
    /\ holders \in (SUBSET Tasks) \ {{}}
    /\ state = "PENDING"
    /\ statements = <<>>
    /\ pc = [t \in Tasks |-> "idle"]
    /\ left = [t \in Tasks |-> <<>>]
    /\ sent = [t \in Tasks |-> <<>>]
    /\ responses = [t \in Tasks |-> <<>>]
    /\ results = [t \in Tasks |-> <<>>]
    /\ blamed = [t \in Tasks |-> Nobody]
    /\ accepted = <<>>
    /\ applied = <<>>

---------------------------------------------------------------------------
(* inspectCommitResponses.                                                 *)

(* The statements of the server's batch, each under the text it came from. *)
Wire(batch) ==
    <<"BEGIN">>
    \o FlattenSeq([i \in DOMAIN batch |->
                     [j \in 1 .. Width[batch[i]] |-> batch[i]]])
    \o <<"COMMIT">>

(* A clean envelope, and one in which the i-th statement failed: a batch   *)
(* is rolled back as a whole and the others are flagged NotExecuted.       *)
Clean(batch) ==
    [k \in DOMAIN Wire(batch) |-> [of |-> Wire(batch)[k], error |-> "none"]]
RolledBack(batch, i) ==
    [k \in DOMAIN Wire(batch) |->
        [of |-> Wire(batch)[k],
         error |-> IF k = i THEN "cause" ELSE "NotExecuted"]]

(* Mutant: any reply counts as a commit.                                   *)
IsAnswered(reply) == reply # <<>>

IsCommitted(reply) == \A k \in DOMAIN reply : reply[k].error = "none"

(* Mutant: slice(0, userCount).                                            *)
ResultsFromBegin(reply, userCount) ==
    LET slice == SubSeq(reply, 1, IF userCount < Len(reply) THEN userCount
                                                            ELSE Len(reply))
    IN [k \in DOMAIN slice |-> slice[k].of]

(* responses.slice(1, 1 + userCount): positions, not texts.                *)
UserResults(reply, userCount) ==
    LET slice == SubSeq(reply, 2,
                        IF userCount < Len(reply) THEN 1 + userCount
                                                  ELSE Len(reply))
    IN [k \in DOMAIN slice |-> slice[k].of]

(* `statement <causeIndex> of <userCount>`, read against the buffer.       *)
Blame(reply, buffer) ==
    LET cause == SelectInSeq(reply, LAMBDA x : x.error = "cause")
        first == SelectInSeq(reply, LAMBDA x : x.error # "none")
        index == (IF cause # 0 THEN cause ELSE first) - 1
    IN CASE index = 0            -> "BEGIN"
         [] index \in DOMAIN buffer -> buffer[index]
         [] OTHER                -> "COMMIT"

---------------------------------------------------------------------------
Goto(t, l) == pc' = [pc EXCEPT ![t] = l]

(* begin(): throws unless PENDING.                                         *)
Begin(t) ==
    /\ pc[t] = "idle"
    /\ state = "PENDING"
    /\ state' = "ACTIVE"
    /\ UNCHANGED <<statements, task, accepted, applied>>

(* upsertMany(trx, ...), which builds its statements and then queues them  *)
(* one await at a time.                                                    *)
UpsertMany(t) ==
    /\ pc[t] = "idle"
    /\ \E b \in Batches :
        /\ Len(accepted) + Len(b) <= MaxBuffer
        /\ left' = [left EXCEPT ![t] = b]
    /\ Goto(t, "queueing")
    /\ UNCHANGED <<memory, sent, responses, results, blamed, accepted, applied>>

(* execute(): queues the statement, or throws unless ACTIVE, which ends    *)
(* the loop of upsertMany.                                                 *)
Execute(t) ==
    /\ pc[t] = "queueing"
    /\ left[t] # <<>>
    /\ IF state = "ACTIVE"
       THEN /\ statements' = Append(statements, Head(left[t]))
            /\ accepted' = Append(accepted, Head(left[t]))
            /\ left' = [left EXCEPT ![t] = Tail(@)]
            /\ UNCHANGED pc
       ELSE /\ left' = [left EXCEPT ![t] = <<>>]
            /\ Goto(t, "idle")
            /\ UNCHANGED <<statements, accepted>>
    /\ UNCHANGED <<state, sent, responses, results, blamed, applied>>

Queued(t) ==
    /\ pc[t] = "queueing"
    /\ left[t] = <<>>
    /\ Goto(t, "idle")
    /\ UNCHANGED <<memory, left, sent, responses, results, blamed,
                   accepted, applied>>

(* Mutant: an ended transaction commits again.                             *)
CommitAgain(t) ==
    /\ pc[t] = "idle"
    /\ state # "PENDING"
    /\ sent' = [sent EXCEPT ![t] = statements]
    /\ Goto(t, "sent")
    /\ UNCHANGED <<memory, left, responses, results, blamed, accepted, applied>>

(* commit(), up to its await.                                              *)
Commit(t) ==
    /\ pc[t] = "idle"
    /\ state = "ACTIVE"
    /\ sent' = [sent EXCEPT ![t] = statements]
    /\ Goto(t, "sent")
    /\ UNCHANGED <<memory, left, responses, results, blamed, accepted, applied>>

(* The server commits the batch, or rolls it back for one statement; its   *)
(* reply arrives, or the connection breaks first.                          *)
ServerCommits(t) ==
    /\ pc[t] = "sent"
    /\ applied' = Append(applied, sent[t])
    /\ responses' = [responses EXCEPT ![t] = Clean(sent[t])]
    /\ \E l \in {"answered", "lost"} : Goto(t, l)
    /\ UNCHANGED <<memory, left, sent, results, blamed, accepted>>

ServerRollsBack(t) ==
    /\ pc[t] = "sent"
    /\ \E i \in DOMAIN Wire(sent[t]) :
        responses' = [responses EXCEPT ![t] = RolledBack(sent[t], i)]
    /\ \E l \in {"answered", "lost"} : Goto(t, l)
    /\ UNCHANGED <<memory, left, sent, results, blamed, accepted, applied>>

(* commit() after its await.  userCount is the buffer's length now.        *)
CommitSucceeds(t) ==
    /\ pc[t] = "answered"
    /\ IsCommitted(responses[t])
    /\ state' = "COMMITTED"
    /\ results' = [results EXCEPT
                     ![t] = UserResults(responses[t], Len(statements))]
    /\ Goto(t, "idle")
    /\ UNCHANGED <<statements, left, sent, responses, blamed, accepted, applied>>

CommitFails(t) ==
    /\ pc[t] = "answered"
    /\ ~IsCommitted(responses[t])
    /\ state' = "FAILED"
    /\ blamed' = [blamed EXCEPT ![t] = Blame(responses[t], statements)]
    /\ Goto(t, "idle")
    /\ UNCHANGED <<statements, left, sent, responses, results, accepted, applied>>

CommitRejects(t) ==
    /\ pc[t] = "lost"
    /\ state' = "FAILED"
    /\ Goto(t, "idle")
    /\ UNCHANGED <<statements, left, sent, responses, results, blamed,
                   accepted, applied>>

(* Mutant: cancel() empties the buffer and leaves the state.               *)
CancelBuffer(t) ==
    /\ pc[t] = "idle"
    /\ state = "ACTIVE"
    /\ statements' = <<>>
    /\ UNCHANGED <<state, task, accepted, applied>>

(* cancel(), and asyncDispose of a transaction that is ACTIVE.             *)
Cancel(t) ==
    /\ pc[t] = "idle"
    /\ state = "ACTIVE"
    /\ statements' = <<>>
    /\ state' = "CANCELLED"
    /\ UNCHANGED <<task, accepted, applied>>

Step(t) ==
    \/ Begin(t)
    \/ UpsertMany(t)
    \/ Execute(t)
    \/ Queued(t)
    \/ Commit(t)
    \/ ServerCommits(t)
    \/ ServerRollsBack(t)
    \/ CommitSucceeds(t)
    \/ CommitFails(t)
    \/ CommitRejects(t)
    \/ Cancel(t)

Next == \E t \in holders : Step(t) /\ UNCHANGED holders

Spec == Init /\ [][Next]_vars

---------------------------------------------------------------------------
(* The inductive invariant of the proofs: the buffer is the queue until    *)
(* the transaction ends; what is on the wire, or was committed, is the     *)
(* queue as it was then; and a clean envelope is that of a batch which     *)
(* the server has committed.                                               *)
QueueType ==
    /\ holders \subseteq Tasks
    /\ state \in States
    /\ accepted \in Seq(Statements)
    /\ left \in [Tasks -> Seq(Statements)]
    /\ pc \in [Tasks -> {"idle", "queueing", "sent", "answered", "lost"}]
    /\ DOMAIN sent = Tasks
    /\ DOMAIN responses = Tasks
    /\ applied \in Seq(Seq(Statements))

BufferIsQueue == state \in {"PENDING", "ACTIVE"} => statements = accepted

SentIsPrefix ==
    \A t \in Tasks : pc[t] = "sent" =>
        sent[t] \in Seq(Statements) /\ IsPrefix(sent[t], accepted)

CleanIsApplied ==
    \A t \in Tasks :
        pc[t] = "answered" /\ IsCommitted(responses[t]) => applied # <<>>

(* One task alone: while its commit() is under way the transaction is      *)
(* ACTIVE and the queue is what was sent; and once the server has          *)
(* committed, commit() has still to take note, or the transaction ended.   *)
Ended == {"COMMITTED", "CANCELLED", "FAILED"}

OneCommit(t) ==
    /\ pc[t] \in {"sent", "answered", "lost"} => state = "ACTIVE"
    /\ pc[t] = "sent" => applied = <<>> /\ sent[t] = accepted
    /\ applied # <<>> => state \in Ended \/ pc[t] \in {"answered", "lost"}

AloneInv == \A t \in Tasks : holders = {t} => OneCommit(t)

(* One task alone, and no text of several statements: the reply is that of *)
(* the queue, and what commit() returned or blamed was read from it.       *)
SingleStatements == \A s \in Statements : Width[s] = 1

IsCause(reply, text) ==
    \E k \in DOMAIN reply : reply[k] = [of |-> text, error |-> "cause"]

OneReply(t) ==
    /\ pc[t] = "answered" =>
        \/ responses[t] = Clean(accepted)
        \/ \E i \in DOMAIN Wire(accepted) :
               responses[t] = RolledBack(accepted, i)
    /\ state = "COMMITTED" => results[t] = accepted
    /\ blamed[t] # Nobody =>
        state \in Ended /\ IsCause(responses[t], blamed[t])
    /\ \A u \in Tasks \ {t} : blamed[u] = Nobody

ReplyInv == \A t \in Tasks : holders = {t} => OneReply(t)

---------------------------------------------------------------------------
(* Properties.                                                             *)

Alone == Cardinality(holders) = 1

(* COMMITTED is never claimed of a transaction of which the server         *)
(* committed nothing: inspectCommitResponses lets no rolled-back envelope  *)
(* pass, whoever else commits or cancels meanwhile.                        *)
CommittedMeansApplied == state = "COMMITTED" => applied # <<>>

(* Whatever the server commits is what execute() accepted, in that order   *)
(* and from the first statement on: no statement is skipped, reordered or  *)
(* sent twice in one batch.                                                *)
BatchesArePrefixes ==
    \A i \in DOMAIN applied : IsPrefix(applied[i], accepted)

BatchInv ==
    /\ QueueType /\ BufferIsQueue /\ SentIsPrefix /\ CleanIsApplied
    /\ CommittedMeansApplied /\ BatchesArePrefixes

(* A transaction used by one task is an atomic batch: applied once, whole  *)
(* and in queue order, or not at all; a cancelled one never                *)
(* (docs/v3-patterns.md).  Shared by several, it still stays ended once it *)
(* has ended and accepts nothing more, even when a commit that was under   *)
(* way changes how it ended.                                               *)
Atomic == INSTANCE AtomicBatch WITH
    queued <- IF Alone THEN accepted ELSE <<>>,
    effect <- IF Alone THEN applied ELSE <<>>,
    outcome <- IF ~Alone THEN "open"
               ELSE IF applied # <<>> THEN "applied"
               ELSE IF state \in {"CANCELLED", "FAILED"} THEN "discarded"
               ELSE "open"

StaysEnded == state \in Ended => state' \in Ended /\ accepted' = accepted

IsAtomicBatch == Atomic!Spec /\ [][StaysEnded]_vars

(* commit() returns one result per execute(), in queue order               *)
(* (transaction.ts:38-40, 125-127), to the one task that uses it, and the  *)
(* error of one that was rolled back names the statement that failed.  The *)
(* variables have their types.                                             *)
ResultsMatchQueue ==
    /\ TypeOK
    /\ Alone =>
        /\ state = "COMMITTED" => \E t \in Tasks : results[t] = accepted
        /\ \A t \in Tasks :
            blamed[t] # Nobody => IsCause(responses[t], blamed[t])
===========================================================================
