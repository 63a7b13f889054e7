------------------------- MODULE TransactionProofs -------------------------
(***************************************************************************)
(* Theorems about Transaction, for any tasks, batches and widths of texts, *)
(* and any number of statements.                                           *)
(***************************************************************************)
EXTENDS Transaction, FiniteSetTheorems, SequenceTheorems, TLAPS

(* A queue is a prefix of itself, and what is a prefix of a queue is one   *)
(* of the queue with one more statement.                                   *)
LEMMA PrefixOfItself ==
    ASSUME NEW q \in Seq(Statements)
    PROVE  IsPrefix(q, q)
BY DEF IsPrefix

LEMMA PrefixGrows ==
    ASSUME NEW q \in Seq(Statements), NEW p \in Seq(Statements),
           NEW s \in Statements, IsPrefix(p, q)
    PROVE  IsPrefix(p, Append(q, s))
<1>1. Len(p) <= Len(Append(q, s))
  BY DEF IsPrefix
<1>2. SubSeq(q, 1, Len(p)) = SubSeq(Append(q, s), 1, Len(p))
  BY DEF IsPrefix
<1>. QED
  BY <1>1, <1>2 DEF IsPrefix

LEMMA InitBatch == Init => BatchInv
<1>. SUFFICES ASSUME Init PROVE BatchInv
  OBVIOUS
<1>1. QueueType
  BY DEF Init, QueueType, States
<1>2. BufferIsQueue
  BY DEF Init, BufferIsQueue
<1>3. SentIsPrefix /\ CleanIsApplied /\ CommittedMeansApplied /\ BatchesArePrefixes
  BY DEF Init, SentIsPrefix, CleanIsApplied, CommittedMeansApplied,
         BatchesArePrefixes
<1>. QED
  BY <1>1, <1>2, <1>3 DEF BatchInv

(* execute(): the queue grows at its end, and with it the buffer.          *)
LEMMA ExecuteStep ==
    ASSUME BatchInv, NEW t \in Tasks, Execute(t), UNCHANGED holders
    PROVE  BatchInv'
<1>. USE DEF BatchInv
<1>1. CASE state = "ACTIVE"
  <2>. DEFINE s == Head(left[t])
  <2>1. /\ left[t] \in Seq(Statements) /\ left[t] # <<>>
        /\ s \in Statements /\ Tail(left[t]) \in Seq(Statements)
    BY DEF Execute, QueueType
  <2>2. /\ statements' = Append(statements, s)
        /\ accepted' = Append(accepted, s)
        /\ left' = [left EXCEPT ![t] = Tail(@)]
        /\ UNCHANGED <<holders, state, pc, sent, responses, applied>>
    BY <1>1 DEF Execute
  <2>3. QueueType'
    <3>1. accepted' \in Seq(Statements)
      BY <2>1, <2>2 DEF QueueType
    <3>2. left' \in [Tasks -> Seq(Statements)]
      BY <2>1, <2>2 DEF QueueType
    <3>. QED
      BY <2>2, <3>1, <3>2 DEF QueueType
  <2>4. BufferIsQueue'
    BY <1>1, <2>2 DEF BufferIsQueue
  <2>5. SentIsPrefix'
    <3>. SUFFICES ASSUME NEW u \in Tasks, pc'[u] = "sent"
                  PROVE  sent'[u] \in Seq(Statements) /\ IsPrefix(sent'[u], accepted')
      BY DEF SentIsPrefix
    <3>1. sent[u] \in Seq(Statements) /\ IsPrefix(sent[u], accepted)
      BY <2>2 DEF SentIsPrefix
    <3>. QED
      BY <2>1, <2>2, <3>1, PrefixGrows DEF QueueType
  <2>6. BatchesArePrefixes'
    <3>. SUFFICES ASSUME NEW i \in DOMAIN applied
                  PROVE  IsPrefix(applied[i], accepted')
      BY <2>2 DEF BatchesArePrefixes
    <3>1. applied[i] \in Seq(Statements) /\ IsPrefix(applied[i], accepted)
      BY DEF QueueType, BatchesArePrefixes
    <3>. QED
      BY <2>1, <2>2, <3>1, PrefixGrows DEF QueueType
  <2>7. CleanIsApplied' /\ CommittedMeansApplied'
    BY <2>2 DEF CleanIsApplied, CommittedMeansApplied, IsCommitted
  <2>. QED
    BY <2>3, <2>4, <2>5, <2>6, <2>7
<1>2. CASE state # "ACTIVE"
  <2>1. /\ left' = [left EXCEPT ![t] = <<>>]
        /\ pc' = [pc EXCEPT ![t] = "idle"]
        /\ UNCHANGED <<holders, state, statements, accepted, sent, responses,
                       applied>>
    BY <1>2 DEF Execute, Goto
  <2>2. QueueType'
    BY <2>1 DEF QueueType
  <2>3. BufferIsQueue' /\ CommittedMeansApplied' /\ BatchesArePrefixes'
    BY <2>1 DEF BufferIsQueue, CommittedMeansApplied, BatchesArePrefixes
  <2>4. SentIsPrefix'
    BY <2>1 DEF SentIsPrefix, QueueType
  <2>5. CleanIsApplied'
    BY <2>1 DEF CleanIsApplied, IsCommitted, QueueType
  <2>. QED
    BY <2>2, <2>3, <2>4, <2>5
<1>. QED
  BY <1>1, <1>2

(* commit() sends the buffer, which is the queue as long as it is ACTIVE.  *)
LEMMA CommitStep ==
    ASSUME BatchInv, NEW t \in Tasks, Commit(t), UNCHANGED holders
    PROVE  BatchInv'
<1>. USE DEF BatchInv
<1>1. /\ state = "ACTIVE"
      /\ sent' = [sent EXCEPT ![t] = statements]
      /\ pc' = [pc EXCEPT ![t] = "sent"]
      /\ UNCHANGED <<holders, state, statements, left, accepted, responses,
                     applied>>
  BY DEF Commit, Goto, memory
<1>2. QueueType'
  BY <1>1 DEF QueueType
<1>3. BufferIsQueue' /\ CommittedMeansApplied' /\ BatchesArePrefixes'
  BY <1>1 DEF BufferIsQueue, CommittedMeansApplied, BatchesArePrefixes
<1>4. SentIsPrefix'
  <2>. SUFFICES ASSUME NEW u \in Tasks, pc'[u] = "sent"
                PROVE  sent'[u] \in Seq(Statements) /\ IsPrefix(sent'[u], accepted)
    BY <1>1 DEF SentIsPrefix
  <2>1. CASE u = t
    <3>1. sent'[u] = accepted
      BY <1>1, <2>1 DEF BufferIsQueue, QueueType
    <3>. QED
      BY <3>1, PrefixOfItself DEF QueueType
  <2>2. CASE u # t
    BY <1>1, <2>2 DEF SentIsPrefix, QueueType
  <2>. QED
    BY <2>1, <2>2
<1>5. CleanIsApplied'
  BY <1>1 DEF CleanIsApplied, IsCommitted, QueueType
<1>. QED
  BY <1>2, <1>3, <1>4, <1>5

(* The server commits what was sent, a prefix of the queue.                *)
LEMMA ServerCommitsStep ==
    ASSUME BatchInv, NEW t \in Tasks, ServerCommits(t), UNCHANGED holders
    PROVE  BatchInv'
<1>. USE DEF BatchInv
<1>1. PICK l \in {"answered", "lost"} : pc' = [pc EXCEPT ![t] = l]
  BY DEF ServerCommits, Goto
<1>2. /\ pc[t] = "sent"
      /\ applied' = Append(applied, sent[t])
      /\ DOMAIN responses' = DOMAIN responses
      /\ UNCHANGED <<holders, state, statements, left, accepted, sent>>
  BY DEF ServerCommits, memory
<1>3. sent[t] \in Seq(Statements) /\ IsPrefix(sent[t], accepted)
  BY <1>2 DEF SentIsPrefix
<1>4. applied' \in Seq(Seq(Statements)) /\ applied' # <<>>
  BY <1>2, <1>3 DEF QueueType
<1>5. QueueType'
  BY <1>1, <1>2, <1>4 DEF QueueType
<1>6. BufferIsQueue'
  BY <1>2 DEF BufferIsQueue
<1>7. SentIsPrefix'
  BY <1>1, <1>2 DEF SentIsPrefix, QueueType
<1>8. CleanIsApplied' /\ CommittedMeansApplied'
  BY <1>4 DEF CleanIsApplied, CommittedMeansApplied
<1>9. BatchesArePrefixes'
  <2>. SUFFICES ASSUME NEW i \in DOMAIN applied'
                PROVE  IsPrefix(applied'[i], accepted)
    BY <1>2 DEF BatchesArePrefixes
  <2>1. CASE i \in DOMAIN applied
    <3>1. applied'[i] = applied[i]
      BY <1>2, <1>3, <2>1 DEF QueueType
    <3>. QED
      BY <2>1, <3>1 DEF BatchesArePrefixes
  <2>2. CASE i \notin DOMAIN applied
    <3>1. applied'[i] = sent[t]
      BY <1>2, <1>3, <2>2 DEF QueueType
    <3>. QED
      BY <1>3, <3>1
  <2>. QED
    BY <2>1, <2>2
<1>. QED
  BY <1>5, <1>6, <1>7, <1>8, <1>9

(* A rolled-back envelope is not clean: one of its statements failed.      *)
LEMMA ServerRollsBackStep ==
    ASSUME BatchInv, NEW t \in Tasks, ServerRollsBack(t), UNCHANGED holders
    PROVE  BatchInv'
<1>. USE DEF BatchInv
<1>1. PICK l \in {"answered", "lost"} : pc' = [pc EXCEPT ![t] = l]
  BY DEF ServerRollsBack, Goto
<1>2. PICK i \in DOMAIN Wire(sent[t]) :
        responses' = [responses EXCEPT ![t] = RolledBack(sent[t], i)]
  BY DEF ServerRollsBack
<1>3. /\ pc[t] = "sent"
      /\ UNCHANGED <<holders, state, statements, left, accepted, sent, applied>>
  BY DEF ServerRollsBack, memory
<1>4. QueueType'
  BY <1>1, <1>2, <1>3 DEF QueueType
<1>5. BufferIsQueue' /\ CommittedMeansApplied' /\ BatchesArePrefixes'
  BY <1>3 DEF BufferIsQueue, CommittedMeansApplied, BatchesArePrefixes
<1>6. SentIsPrefix'
  BY <1>1, <1>3 DEF SentIsPrefix, QueueType
<1>7. ~IsCommitted(RolledBack(sent[t], i))
  <2>. DEFINE reply == RolledBack(sent[t], i)
  <2>1. i \in DOMAIN reply /\ reply[i].error = "cause"
    BY DEF RolledBack
  <2>. QED
    BY <2>1 DEF IsCommitted
<1>8. CleanIsApplied'
  <2>. SUFFICES ASSUME NEW u \in Tasks, pc'[u] = "answered",
                       IsCommitted(responses'[u])
                PROVE  applied # <<>>
    BY <1>3 DEF CleanIsApplied
  <2>1. u # t
    BY <1>2, <1>7 DEF QueueType
  <2>2. pc[u] = "answered" /\ responses'[u] = responses[u]
    BY <1>1, <1>2, <2>1 DEF QueueType
  <2>. QED
    BY <2>2 DEF CleanIsApplied
<1>. QED
  BY <1>4, <1>5, <1>6, <1>8

(* The continuation of commit(): COMMITTED is set for a clean reply only.  *)
LEMMA ContinueStep ==
    ASSUME BatchInv, NEW t \in Tasks, UNCHANGED holders,
           CommitSucceeds(t) \/ CommitFails(t) \/ CommitRejects(t)
    PROVE  BatchInv'
<1>. USE DEF BatchInv
<1>1. /\ pc' = [pc EXCEPT ![t] = "idle"]
      /\ state' \in {"COMMITTED", "FAILED"}
      /\ UNCHANGED <<holders, statements, left, accepted, sent, responses,
                     applied>>
  BY DEF CommitSucceeds, CommitFails, CommitRejects, Goto
<1>2. state' = "COMMITTED" => applied # <<>>
  BY DEF CommitSucceeds, CommitFails, CommitRejects, CleanIsApplied
<1>3. QueueType'
  BY <1>1 DEF QueueType, States
<1>4. BufferIsQueue' /\ CommittedMeansApplied' /\ BatchesArePrefixes'
  BY <1>1, <1>2 DEF BufferIsQueue, CommittedMeansApplied, BatchesArePrefixes
<1>5. SentIsPrefix'
  BY <1>1 DEF SentIsPrefix, QueueType
<1>6. CleanIsApplied'
  BY <1>1 DEF CleanIsApplied, IsCommitted, QueueType
<1>. QED
  BY <1>3, <1>4, <1>5, <1>6

(* The steps that touch neither the queue nor the wire; a cancelled        *)
(* transaction loses its buffer, and is no longer ACTIVE.                  *)
LEMMA QuietStep ==
    ASSUME BatchInv, NEW t \in Tasks, UNCHANGED holders,
           Begin(t) \/ UpsertMany(t) \/ Queued(t) \/ Cancel(t)
    PROVE  BatchInv'
<1>. USE DEF BatchInv
<1>1. UNCHANGED <<holders, accepted, sent, responses, applied>>
  BY DEF Begin, UpsertMany, Queued, Cancel, task
<1>2. /\ pc' \in [Tasks -> {"idle", "queueing", "sent", "answered", "lost"}]
      /\ \A u \in Tasks : pc'[u] \in {"sent", "answered"} => pc'[u] = pc[u]
  BY DEF Begin, UpsertMany, Queued, Cancel, task, Goto, QueueType
<1>3. left' \in [Tasks -> Seq(Statements)]
  BY TransactionAssumption
     DEF Begin, UpsertMany, Queued, Cancel, task, QueueType
<1>4. /\ state' \in States
      /\ state' # "COMMITTED" \/ state' = state
      /\ state' \in {"PENDING", "ACTIVE"} =>
            state \in {"PENDING", "ACTIVE"} /\ statements' = statements
  BY DEF Begin, UpsertMany, Queued, Cancel, memory, States, QueueType
<1>5. QueueType'
  BY <1>1, <1>2, <1>3, <1>4 DEF QueueType
<1>6. BufferIsQueue' /\ CommittedMeansApplied' /\ BatchesArePrefixes'
  BY <1>1, <1>4 DEF BufferIsQueue, CommittedMeansApplied, BatchesArePrefixes
<1>7. SentIsPrefix'
  BY <1>1, <1>2 DEF SentIsPrefix
<1>8. CleanIsApplied'
  BY <1>1, <1>2 DEF CleanIsApplied, IsCommitted
<1>. QED
  BY <1>5, <1>6, <1>7, <1>8

(* The inductive invariant of a transaction, however many tasks share it.  *)
THEOREM BatchInvariant == Spec => []BatchInv
<1>1. BatchInv /\ [Next]_vars => BatchInv'
  <2>. SUFFICES ASSUME BatchInv, [Next]_vars PROVE BatchInv'
    OBVIOUS
  <2>1. CASE UNCHANGED vars
    BY <2>1 DEF vars, memory, task, BatchInv, QueueType, BufferIsQueue,
                SentIsPrefix, CleanIsApplied, IsCommitted,
                CommittedMeansApplied, BatchesArePrefixes
  <2>2. CASE Next
    <3>1. PICK t \in holders : Step(t) /\ UNCHANGED holders
      BY <2>2 DEF Next
    <3>2. t \in Tasks
      BY DEF BatchInv, QueueType
    <3>. QED
      BY <3>1, <3>2, ExecuteStep, CommitStep, ServerCommitsStep,
         ServerRollsBackStep, ContinueStep, QuietStep DEF Step
  <2>. QED
    BY <2>1, <2>2
<1>. QED
  BY InitBatch, <1>1, PTL DEF Spec

(* Whatever the server commits is what execute() accepted, in that order   *)
(* and from the first statement on, for any number of tasks that queue,    *)
(* commit and cancel at once.                                              *)
THEOREM CommittedBatchesArePrefixes == Spec => []BatchesArePrefixes
<1>1. BatchInv => BatchesArePrefixes
  BY DEF BatchInv
<1>. QED
  BY <1>1, BatchInvariant, PTL

(* COMMITTED is never claimed when the server has committed nothing.       *)
THEOREM CommittedIsTrue == Spec => []CommittedMeansApplied
<1>1. BatchInv => CommittedMeansApplied
  BY DEF BatchInv
<1>. QED
  BY <1>1, BatchInvariant, PTL

(* What has ended stays ended, and accepts no statement any more.          *)
THEOREM EndedForGood == Spec => [][StaysEnded]_vars
<1>1. [Next]_vars => [StaysEnded]_vars
  <2>. SUFFICES ASSUME Next PROVE StaysEnded
    OBVIOUS
  <2>1. PICK t \in holders : Step(t)
    BY DEF Next
  <2>2. CASE Begin(t) \/ Cancel(t)
    BY <2>2 DEF Begin, Cancel, StaysEnded, Ended
  <2>3. CASE Execute(t)
    BY <2>3 DEF Execute, StaysEnded, Ended
  <2>4. CASE UpsertMany(t) \/ Queued(t) \/ Commit(t) \/ ServerCommits(t)
             \/ ServerRollsBack(t)
    BY <2>4 DEF UpsertMany, Queued, Commit, ServerCommits, ServerRollsBack,
                memory, StaysEnded
  <2>5. CASE CommitSucceeds(t) \/ CommitFails(t) \/ CommitRejects(t)
    BY <2>5 DEF CommitSucceeds, CommitFails, CommitRejects, StaysEnded, Ended
  <2>. QED
    BY <2>1, <2>2, <2>3, <2>4, <2>5 DEF Step
<1>. QED
  BY <1>1, PTL DEF Spec

---------------------------------------------------------------------------
(* One task alone.                                                         *)

LEMMA AloneStep ==
    ASSUME BatchInv, AloneInv, [Next]_vars
    PROVE  AloneInv'
<1>. SUFFICES ASSUME NEW t \in Tasks, holders' = {t} PROVE OneCommit(t)'
  BY DEF AloneInv
<1>1. holders = {t} /\ QueueType /\ BufferIsQueue
  BY DEF Next, vars, BatchInv
<1>2. OneCommit(t)
  BY <1>1 DEF AloneInv
<1>. USE <1>1, <1>2 DEF OneCommit, QueueType, Goto, memory, task, Ended
<1>3. CASE Begin(t) \/ Cancel(t)
  BY <1>3 DEF Begin, Cancel
<1>4. CASE UpsertMany(t) \/ Queued(t)
  BY <1>4 DEF UpsertMany, Queued
<1>5. CASE Execute(t)
  BY <1>5 DEF Execute
<1>6. CASE Commit(t)
  BY <1>6 DEF Commit, BufferIsQueue
<1>7. CASE ServerCommits(t)
  BY <1>7 DEF ServerCommits
<1>8. CASE ServerRollsBack(t)
  BY <1>8 DEF ServerRollsBack
<1>9. CASE CommitSucceeds(t) \/ CommitFails(t) \/ CommitRejects(t)
  BY <1>9 DEF CommitSucceeds, CommitFails, CommitRejects
<1>10. CASE UNCHANGED vars
  BY <1>10 DEF vars
<1>. QED
  BY <1>3, <1>4, <1>5, <1>6, <1>7, <1>8, <1>9, <1>10 DEF Next, Step

(* Of a task that has the object to itself: commit() finds it active once. *)
THEOREM AloneInvariant == Spec => []AloneInv
<1>1. Init => AloneInv
  BY DEF Init, AloneInv, OneCommit
<1>. QED
  BY <1>1, AloneStep, BatchInvariant, PTL DEF Spec

(* Every step of a transaction that one task uses is a step of the atomic  *)
(* batch, or a stutter: execute() queues, the server's commit applies, and *)
(* what ends without it discards.                                          *)
LEMMA AtomicStep ==
    ASSUME BatchInv, AloneInv, Alone, Next
    PROVE  Atomic!Next \/ UNCHANGED Atomic!vars
<1>1. QueueType /\ IsFiniteSet(holders) /\ Alone'
  BY TransactionAssumption, FS_Subset DEF BatchInv, QueueType, Next, Alone
<1>2. PICK t : holders = {t} /\ Step(t)
  BY <1>1, FS_Singleton DEF Alone, Next
<1>3. t \in Tasks /\ OneCommit(t)
  BY <1>1, <1>2 DEF QueueType, AloneInv
<1>. USE <1>1, <1>3 DEF OneCommit, Ended, Atomic!vars, memory, task
<1>4. CASE Begin(t) \/ UpsertMany(t) \/ Queued(t) \/ Commit(t)
           \/ ServerRollsBack(t)
  BY <1>4 DEF Begin, UpsertMany, Queued, Commit, ServerRollsBack
<1>5. CASE Execute(t)
  <2>1. CASE state = "ACTIVE"
    <3>1. /\ Head(left[t]) \in Statements
          /\ accepted' = Append(accepted, Head(left[t]))
          /\ applied = <<>> /\ UNCHANGED <<state, applied>>
      BY <1>5, <2>1 DEF Execute, QueueType
    <3>2. Atomic!Queue(Head(left[t]))
      BY <2>1, <3>1 DEF Atomic!Queue
    <3>. QED
      BY <3>1, <3>2 DEF Atomic!Next
  <2>2. CASE state # "ACTIVE"
    BY <1>5, <2>2 DEF Execute
  <2>. QED
    BY <2>1, <2>2
<1>6. CASE ServerCommits(t)
  <2>1. /\ state = "ACTIVE" /\ applied = <<>> /\ applied' = <<accepted>>
        /\ UNCHANGED <<state, accepted>>
    BY <1>6 DEF ServerCommits
  <2>2. Atomic!Apply
    BY <2>1 DEF Atomic!Apply
  <2>. QED
    BY <2>2 DEF Atomic!Next
<1>7. CASE CommitSucceeds(t)
  <2>1. applied # <<>> /\ UNCHANGED <<applied, accepted>>
    BY <1>7 DEF CommitSucceeds, BatchInv, CleanIsApplied
  <2>. QED
    BY <2>1
<1>8. CASE CommitFails(t) \/ CommitRejects(t) \/ Cancel(t)
  <2>1. /\ state = "ACTIVE" /\ state' \in {"CANCELLED", "FAILED"}
        /\ UNCHANGED <<applied, accepted>>
    BY <1>8 DEF CommitFails, CommitRejects, Cancel
  <2>2. CASE applied = <<>>
    <3>1. Atomic!Discard
      BY <2>1, <2>2 DEF Atomic!Discard
    <3>. QED
      BY <3>1 DEF Atomic!Next
  <2>3. CASE applied # <<>>
    BY <2>1, <2>3
  <2>. QED
    BY <2>2, <2>3
<1>. QED
  BY <1>2, <1>4, <1>5, <1>6, <1>7, <1>8 DEF Step

(* A transaction used by one task implements the atomic batch, and shared  *)
(* by any number of tasks it stays ended.                                  *)
THEOREM TransactionIsAtomic == Spec => IsAtomicBatch
<1>1. Init => Atomic!Init
  BY DEF Init, Atomic!Init
<1>2. BatchInv /\ AloneInv /\ [Next]_vars => [Atomic!Next]_(Atomic!vars)
  <2>. SUFFICES ASSUME BatchInv, AloneInv, [Next]_vars
                PROVE  Atomic!Next \/ UNCHANGED Atomic!vars
    OBVIOUS
  <2>1. CASE UNCHANGED vars
    BY <2>1 DEF vars, memory, task, Atomic!vars, Alone
  <2>2. CASE Next /\ Alone
    BY <2>2, AtomicStep
  <2>3. CASE Next /\ ~Alone
    BY <2>3 DEF Next, Alone, Atomic!vars
  <2>. QED
    BY <2>1, <2>2, <2>3
<1>. QED
  BY <1>1, <1>2, BatchInvariant, AloneInvariant, EndedForGood, PTL
     DEF Spec, IsAtomicBatch, Atomic!Spec

---------------------------------------------------------------------------
(* The replies, and what commit() makes of them.                           *)

(* Of some natural numbers one is the least: the induction that is had     *)
(* without an operator as a parameter.                                     *)
LEMMA LeastNat ==
    ASSUME NEW T \in SUBSET Nat, T # {}
    PROVE  \E n \in T : \A m \in T : n <= m
<1>1. PICK n \in T : \A m \in T : ~ (<<m, n>> \in OpToRel(<, Nat))
  BY WFMin, NatLessThanWellFounded
<1>2. \A m \in T : ~(m < n)
  BY <1>1 DEF OpToRel
<1>. QED
  BY <1>2

(* The concatenations of the first sequences of s, up to the k-th.         *)
Concatenations(f, s, k) ==
    /\ f \in [1 .. k -> Seq(Statements)]
    /\ f = [i \in 1 .. k |-> IF i = 1 THEN s[i] ELSE f[i - 1] \o s[i]]

(* They exist: each is the one before it, and one sequence more.           *)
LEMMA ConcatenationsExist ==
    ASSUME NEW s \in Seq(Seq(Statements)), NEW k \in 1 .. Len(s)
    PROVE  \E f : Concatenations(f, s, k)
<1>. DEFINE T == {j \in Nat : /\ j \in 1 .. Len(s)
                               /\ ~ \E f : Concatenations(f, s, j)}
<1>1. CASE T = {}
  BY <1>1
<1>2. CASE T # {}
  <2>1. PICK j \in T : \A m \in T : j <= m
    BY <1>2, LeastNat
  <2>2. CASE j = 1
    <3>. DEFINE g == [i \in 1 .. 1 |-> s[i]]
    <3>1. 1 .. 1 = {1} /\ s[1] \in Seq(Statements)
      BY <2>1, <2>2
    <3>2. g \in [1 .. 1 -> Seq(Statements)]
      BY <3>1
    <3>3. g = [i \in 1 .. 1 |-> IF i = 1 THEN s[i] ELSE g[i - 1] \o s[i]]
      BY <3>1
    <3>4. Concatenations(g, s, 1)
      BY <3>2, <3>3 DEF Concatenations
    <3>. QED
      BY <2>1, <2>2, <3>4
  <2>3. CASE j # 1
    <3>1. j - 1 \in 1 .. Len(s) /\ j - 1 \notin T /\ j \in Nat /\ j > 1
      <4>1. j \in 1 .. Len(s) /\ j \in Nat
        BY <2>1
      <4>2. j - 1 \in 1 .. Len(s) /\ j > 1 /\ j - 1 \in Nat /\ ~(j <= j - 1)
        BY <4>1, <2>3
      <4>. QED
        BY <4>1, <4>2, <2>1
    <3>2. PICK f : Concatenations(f, s, j - 1)
      BY <3>1
    <3>. DEFINE g == [i \in 1 .. j |-> IF i = j THEN f[j - 1] \o s[j]
                                                ELSE f[i]]
    <3>3. s[j] \in Seq(Statements) /\ f[j - 1] \in Seq(Statements)
      BY <2>1, <3>1, <3>2 DEF Concatenations
    <3>4. \A i \in 1 .. j : i # j => i \in 1 .. (j - 1)
      BY <3>1
    <3>5. g \in [1 .. j -> Seq(Statements)]
      <4>1. \A i \in 1 .. (j - 1) : f[i] \in Seq(Statements)
        BY <3>2 DEF Concatenations
      <4>2. f[j - 1] \o s[j] \in Seq(Statements)
        BY <3>3
      <4>. QED
        BY <3>4, <4>1, <4>2
    <3>6. \A i \in 1 .. j :
            g[i] = IF i = 1 THEN s[i] ELSE g[i - 1] \o s[i]
      <4>. SUFFICES ASSUME NEW i \in 1 .. j
                    PROVE  g[i] = IF i = 1 THEN s[i] ELSE g[i - 1] \o s[i]
        OBVIOUS
      <4>1. CASE i = j
        <5>1. g[i] = f[j - 1] \o s[j]
          BY <4>1
        <5>5. i # 1
          BY <4>1, <3>1
        <5>2. j - 1 \in 1 .. j /\ j - 1 # j
          BY <3>1
        <5>3. g[j - 1] = f[j - 1]
          BY <5>2
        <5>. QED
          BY <4>1, <5>1, <5>3, <5>5
      <4>2. CASE i # j
        <5>1. i \in 1 .. (j - 1) /\ g[i] = f[i]
          BY <4>2, <3>4
        <5>2. f[i] = IF i = 1 THEN s[i] ELSE f[i - 1] \o s[i]
          BY <5>1, <3>2 DEF Concatenations
        <5>3. i # 1 => i - 1 \in 1 .. j /\ i - 1 # j
          BY <5>1, <3>1
        <5>4. i # 1 => g[i - 1] = f[i - 1]
          BY <5>3
        <5>. QED
          BY <5>1, <5>2, <5>4
      <4>. QED
        BY <4>1, <4>2
    <3>7. Concatenations(g, s, j)
      <4>1. g = [i \in 1 .. j |-> g[i]]
        BY <3>5
      <4>. HIDE DEF g
      <4>. QED
        BY <3>5, <3>6, <4>1 DEF Concatenations
    <3>. QED
      BY <2>1, <3>7
  <2>. QED
    BY <2>2, <2>3
<1>. QED
  BY <1>1, <1>2

(* FlattenSeq is the last of the concatenations.                           *)
LEMMA FlattenUnfolds ==
    ASSUME NEW s \in Seq(Seq(Statements)), Len(s) # 0
    PROVE  \E f : /\ FlattenSeq(s) = f[Len(s)]
                  /\ f = [i \in 1 .. Len(s) |->
                            IF i = 1 THEN s[i] ELSE f[i - 1] \o s[i]]
<1>. DEFINE F(f) == f = [i \in 1 .. Len(s) |->
                            IF i = 1 THEN s[i] ELSE f[i - 1] \o s[i]]
            c == CHOOSE f : F(f)
<1>1. Len(s) \in 1 .. Len(s)
  OBVIOUS
<1>2. \E f : F(f)
  BY <1>1, ConcatenationsExist DEF Concatenations
<1>3. F(c)
  BY <1>2
<1>4. FlattenSeq(s) = c[Len(s)]
  BY DEF FlattenSeq
<1>. QED
  BY <1>3, <1>4

(* It is a sequence of what the sequences it flattens are made of.         *)
LEMMA FlattenType ==
    ASSUME NEW s \in Seq(Seq(Statements))
    PROVE  FlattenSeq(s) \in Seq(Statements)
<1>1. CASE Len(s) = 0
  <2>1. FlattenSeq(s) = <<>>
    BY <1>1 DEF FlattenSeq
  <2>. QED
    BY <2>1
<1>2. CASE Len(s) # 0
  <2>1. PICK f : /\ FlattenSeq(s) = f[Len(s)]
                 /\ f = [i \in 1 .. Len(s) |->
                            IF i = 1 THEN s[i] ELSE f[i - 1] \o s[i]]
    BY <1>2, FlattenUnfolds
  <2>. DEFINE T == {j \in Nat : /\ j \in 1 .. Len(s)
                                 /\ f[j] \notin Seq(Statements)}
  <2>2. CASE T # {}
    <3>1. PICK j \in T : \A m \in T : j <= m
      BY <2>2, LeastNat
    <3>2. j \in 1 .. Len(s) /\ j \in Nat /\ f[j] \notin Seq(Statements)
      BY <3>1
    <3>3. s[j] \in Seq(Statements)
      BY <3>2
    <3>4. f[j] = IF j = 1 THEN s[j] ELSE f[j - 1] \o s[j]
      BY <2>1, <3>2
    <3>5. j # 1
      BY <3>2, <3>3, <3>4
    <3>6. j - 1 \in 1 .. Len(s) /\ j - 1 \in Nat /\ ~(j <= j - 1)
      BY <3>2, <3>5
    <3>7. f[j - 1] \in Seq(Statements)
      BY <3>1, <3>6
    <3>. QED
      BY <3>2, <3>3, <3>4, <3>5, <3>7
  <2>3. CASE T = {}
    <3>1. Len(s) \in 1 .. Len(s) /\ Len(s) \in Nat
      BY <1>2
    <3>. QED
      BY <2>1, <2>3, <3>1
  <2>. QED
    BY <2>2, <2>3
<1>. QED
  BY <1>1, <1>2

(* Flattening one-element sequences yields their elements.                 *)
LEMMA FlattenSingletons ==
    ASSUME NEW b \in Seq(Statements), NEW s \in Seq(Seq(Statements)),
           Len(s) = Len(b), \A i \in 1 .. Len(b) : s[i] = <<b[i]>>
    PROVE  FlattenSeq(s) = b
<1>1. CASE Len(s) = 0
  <2>1. FlattenSeq(s) = s
    BY <1>1 DEF FlattenSeq
  <2>2. s = <<>> /\ b = <<>>
    BY <1>1, EmptySeq
  <2>. QED
    BY <2>1, <2>2
<1>2. CASE Len(s) # 0
  <2>1. PICK f : /\ FlattenSeq(s) = f[Len(s)]
                 /\ f = [i \in 1 .. Len(s) |->
                            IF i = 1 THEN s[i] ELSE f[i - 1] \o s[i]]
    BY <1>2, FlattenUnfolds
  <2>. DEFINE T == {j \in Nat : j \in 1 .. Len(s) /\ f[j] # SubSeq(b, 1, j)}
  <2>2. CASE T # {}
    <3>1. PICK j \in T : \A m \in T : j <= m
      BY <2>2, LeastNat
    <3>2. j \in 1 .. Len(b) /\ j \in Nat /\ f[j] # SubSeq(b, 1, j)
      BY <3>1
    <3>4. f[j] = IF j = 1 THEN <<b[j]>> ELSE f[j - 1] \o <<b[j]>>
      BY <2>1, <3>2
    <3>5. CASE j = 1
      <4>1. SubSeq(b, 1, 1) = <<b[1]>>
        <5>1. Len(b) >= 1 /\ Len(b) \in Nat
          BY <3>2, <3>5
        <5>2. SubSeq(b, 1, 1) = <<b[1]>> \o SubSeq(b, 2, 1)
          BY <5>1, SubSeqRecursiveFirst
        <5>3. SubSeq(b, 2, 1) = <<>>
          BY SubSeqEmpty
        <5>4. <<b[1]>> \in Seq(Statements)
          BY <5>1
        <5>. QED
          BY <5>2, <5>3, <5>4, ConcatEmptySeq
      <4>. QED
        BY <3>2, <3>4, <3>5, <4>1
    <3>6. CASE j # 1
      <4>1. j - 1 \in 1 .. Len(s) /\ j - 1 \in Nat /\ ~(j <= j - 1)
        BY <3>2, <3>6
      <4>2. f[j - 1] = SubSeq(b, 1, j - 1)
        BY <3>1, <4>1
      <4>3. SubSeq(b, 1, j) = SubSeq(b, 1, j - 1) \o <<b[j]>>
        BY <3>2, <3>6
      <4>. QED
        BY <3>2, <3>4, <3>6, <4>2, <4>3
    <3>. QED
      BY <3>5, <3>6
  <2>3. CASE T = {}
    <3>1. Len(s) \in 1 .. Len(s) /\ Len(s) \in Nat
      BY <1>2
    <3>2. f[Len(s)] = SubSeq(b, 1, Len(b))
      BY <2>3, <3>1
    <3>3. SubSeq(b, 1, Len(b)) = b
      OBVIOUS
    <3>. QED
      BY <2>1, <3>2, <3>3
  <2>. QED
    BY <2>2, <2>3
<1>. QED
  BY <1>1, <1>2

(* The server's batch is one of texts, BEGIN and COMMIT.                   *)
LEMMA WireType ==
    ASSUME NEW batch \in Seq(Statements)
    PROVE  Wire(batch) \in Seq(Statements \cup {"BEGIN", "COMMIT"})
<1>. DEFINE parts == [i \in DOMAIN batch |->
                        [j \in 1 .. Width[batch[i]] |-> batch[i]]]
<1>1. \A i \in DOMAIN batch : parts[i] \in Seq(Statements)
  <2>. SUFFICES ASSUME NEW i \in DOMAIN batch
                PROVE  parts[i] \in Seq(Statements)
    OBVIOUS
  <2>1. batch[i] \in Statements /\ Width[batch[i]] \in Nat
    BY TransactionAssumption
  <2>. QED
    BY <2>1
<1>2. parts \in Seq(Seq(Statements))
  <2>1. DOMAIN batch = 1 .. Len(batch) /\ Len(batch) \in Nat
    OBVIOUS
  <2>. HIDE DEF parts
  <2>2. DOMAIN parts = DOMAIN batch /\ parts = [i \in DOMAIN batch |-> parts[i]]
    BY DEF parts
  <2>. QED
    BY <1>1, <2>1, <2>2
<1>3. FlattenSeq(parts) \in Seq(Statements)
  BY <1>2, FlattenType
<1>. HIDE DEF parts
<1>4. FlattenSeq(parts) \in Seq(Statements \cup {"BEGIN", "COMMIT"})
  BY <1>3
<1>5. Wire(batch) = <<"BEGIN">> \o FlattenSeq(parts) \o <<"COMMIT">>
  BY DEF Wire, parts
<1>. QED
  BY <1>4, <1>5

(* When each text is one statement, it is the queue between the two.       *)
LEMMA WireOfSingles ==
    ASSUME SingleStatements, NEW batch \in Seq(Statements)
    PROVE  Wire(batch) = <<"BEGIN">> \o batch \o <<"COMMIT">>
<1>. DEFINE parts == [i \in DOMAIN batch |->
                        [j \in 1 .. Width[batch[i]] |-> batch[i]]]
<1>1. \A i \in DOMAIN batch : parts[i] = <<batch[i]>>
  <2>. SUFFICES ASSUME NEW i \in DOMAIN batch
                PROVE  parts[i] = <<batch[i]>>
    OBVIOUS
  <2>1. batch[i] \in Statements /\ Width[batch[i]] = 1
    BY DEF SingleStatements
  <2>. QED
    BY <2>1
<1>2. /\ parts \in Seq(Seq(Statements)) /\ Len(parts) = Len(batch)
      /\ \A i \in 1 .. Len(batch) : parts[i] = <<batch[i]>>
  <2>1. /\ DOMAIN batch = 1 .. Len(batch) /\ Len(batch) \in Nat
        /\ \A i \in DOMAIN batch : <<batch[i]>> \in Seq(Statements)
    OBVIOUS
  <2>. HIDE DEF parts
  <2>2. DOMAIN parts = DOMAIN batch /\ parts = [i \in DOMAIN batch |-> parts[i]]
    BY DEF parts
  <2>3. \A i \in DOMAIN batch : parts[i] \in Seq(Statements)
    BY <1>1, <2>1
  <2>4. parts \in Seq(Seq(Statements))
    BY <2>1, <2>2, <2>3
  <2>5. Len(parts) = Len(batch)
    BY <2>1, <2>2, <2>4
  <2>. QED
    BY <1>1, <2>1, <2>4, <2>5
<1>3. FlattenSeq(parts) = batch
  BY <1>2, FlattenSingletons
<1>. HIDE DEF parts
<1>4. Wire(batch) = <<"BEGIN">> \o FlattenSeq(parts) \o <<"COMMIT">>
  BY DEF Wire, parts
<1>. QED
  BY <1>3, <1>4

---------------------------------------------------------------------------
(* Envelopes are made of replies.                                          *)
LEMMA EnvelopeType ==
    ASSUME NEW batch \in Seq(Statements)
    PROVE  /\ Clean(batch) \in Seq(Replies)
           /\ \A i \in DOMAIN Wire(batch) :
                  RolledBack(batch, i) \in Seq(Replies)
<1>. DEFINE wire == Wire(batch)
<1>1. wire \in Seq(Statements \cup {"BEGIN", "COMMIT"})
  BY WireType
<1>. HIDE DEF wire
<1>2. /\ DOMAIN wire = 1 .. Len(wire) /\ Len(wire) \in Nat
      /\ \A k \in DOMAIN wire : wire[k] \in Statements \cup {"BEGIN", "COMMIT"}
  BY <1>1
<1>3. \A k \in DOMAIN wire, e \in {"none", "NotExecuted", "cause"} :
        [of |-> wire[k], error |-> e] \in Replies
  BY <1>2 DEF Replies
<1>. HIDE DEF Replies
<1>4. [k \in DOMAIN wire |-> [of |-> wire[k], error |-> "none"]]
        \in Seq(Replies)
  <2>1. [k \in DOMAIN wire |-> [of |-> wire[k], error |-> "none"]]
          \in [1 .. Len(wire) -> Replies]
    BY <1>2, <1>3, Zenon
  <2>. QED
    BY <1>2, <2>1, SeqDef, Zenon
<1>5. ASSUME NEW i \in DOMAIN wire
      PROVE  [k \in DOMAIN wire |->
                [of |-> wire[k],
                 error |-> IF k = i THEN "cause" ELSE "NotExecuted"]]
             \in Seq(Replies)
  <2>1. [k \in DOMAIN wire |->
           [of |-> wire[k],
            error |-> IF k = i THEN "cause" ELSE "NotExecuted"]]
          \in [1 .. Len(wire) -> Replies]
    BY <1>2, <1>3, Zenon
  <2>. QED
    BY <1>2, <2>1, SeqDef, Zenon
<1>. QED
  BY <1>4, <1>5 DEF Clean, RolledBack, wire

(* What commit() returns is made of texts, and so is what it blames.       *)
LEMMA ResultType ==
    ASSUME NEW reply \in Seq(Replies), NEW n \in Nat
    PROVE  UserResults(reply, n) \in Seq(Statements \cup {"BEGIN", "COMMIT"})
<1>. DEFINE last == IF n < Len(reply) THEN 1 + n ELSE Len(reply)
            slice == SubSeq(reply, 2, last)
            Texts == Statements \cup {"BEGIN", "COMMIT"}
<1>1. /\ last \in Int /\ 2 \in Int
      /\ \A i \in 2 .. last : i \in 1 .. Len(reply)
  OBVIOUS
<1>2. \A i \in 2 .. last : reply[i] \in Replies
  BY <1>1
<1>3. slice \in Seq(Replies)
  BY <1>1, <1>2, SubSeqProperties
<1>. HIDE DEF slice
<1>4. DOMAIN slice = 1 .. Len(slice) /\ Len(slice) \in Nat
  BY <1>3
<1>5. \A k \in DOMAIN slice : slice[k] \in Replies
  BY <1>3
<1>6. \A k \in DOMAIN slice : slice[k].of \in Texts
  BY <1>5 DEF Replies
<1>. HIDE DEF Texts
<1>7. [k \in DOMAIN slice |-> slice[k].of] \in Seq(Texts)
  BY <1>4, <1>6
<1>. QED
  BY <1>7 DEF UserResults, slice, Texts

LEMMA BlameType ==
    ASSUME NEW reply, NEW buffer \in Seq(Statements)
    PROVE  Blame(reply, buffer) \in Statements \cup {"BEGIN", "COMMIT"}
<1>. \A i \in DOMAIN buffer : buffer[i] \in Statements
  OBVIOUS
<1>. QED
  BY DEF Blame
(* Every variable keeps its type: one step per action.                     *)
LEMMA TypeStep ==
    ASSUME TypeOK, NEW t \in Tasks, Step(t), UNCHANGED holders
    PROVE  TypeOK'
<1>. DEFINE Texts == Statements \cup {"BEGIN", "COMMIT"}
<1>1. CASE Begin(t) \/ Cancel(t)
  <2>1. state' \in States /\ statements' \in Seq(Statements)
    BY <1>1 DEF Begin, Cancel, States, TypeOK
  <2>. QED
    BY <1>1, <2>1 DEF Begin, Cancel, task, TypeOK
<1>2. CASE UpsertMany(t)
  <2>1. PICK b \in Batches : left' = [left EXCEPT ![t] = b]
    BY <1>2 DEF UpsertMany
  <2>2. b \in Seq(Statements)
    BY TransactionAssumption
  <2>3. left' \in [Tasks -> Seq(Statements)]
    BY <2>1, <2>2 DEF TypeOK
  <2>4. /\ pc' = [pc EXCEPT ![t] = "queueing"]
        /\ UNCHANGED <<memory, sent, responses, results, blamed, accepted,
                       applied>>
    BY <1>2 DEF UpsertMany, Goto
  <2>. QED
    BY <2>1, <2>3, <2>4 DEF memory, TypeOK
<1>3. CASE Execute(t)
  <2>1. CASE state = "ACTIVE"
    <3>1. /\ statements' = Append(statements, Head(left[t]))
          /\ accepted' = Append(accepted, Head(left[t]))
          /\ left' = [left EXCEPT ![t] = Tail(@)]
          /\ pc[t] = "queueing" /\ left[t] # <<>>
          /\ UNCHANGED <<state, pc, sent, responses, results, blamed, applied>>
      BY <1>3, <2>1 DEF Execute
    <3>2. Head(left[t]) \in Statements /\ Tail(left[t]) \in Seq(Statements)
      BY <3>1 DEF TypeOK
    <3>3. /\ statements' \in Seq(Statements) /\ accepted' \in Seq(Statements)
          /\ left' \in [Tasks -> Seq(Statements)]
          /\ \A u \in Tasks : pc'[u] # "queueing" => left'[u] = <<>>
      BY <3>1, <3>2 DEF TypeOK
    <3>. QED
      BY <3>1, <3>3 DEF TypeOK
  <2>2. CASE state # "ACTIVE"
    <3>1. /\ left' = [left EXCEPT ![t] = <<>>]
          /\ pc' = [pc EXCEPT ![t] = "idle"]
          /\ UNCHANGED <<state, statements, accepted, sent, responses, results,
                         blamed, applied>>
      BY <1>3, <2>2 DEF Execute, Goto
    <3>2. left' \in [Tasks -> Seq(Statements)]
      BY <3>1, EmptySeq DEF TypeOK
    <3>. QED
      BY <3>1, <3>2 DEF TypeOK
  <2>. QED
    BY <2>1, <2>2
<1>4. CASE Queued(t)
  BY <1>4 DEF Queued, Goto, memory, TypeOK
<1>5. CASE Commit(t)
  <2>1. sent' \in [Tasks -> Seq(Statements)]
    BY <1>5 DEF Commit, TypeOK
  <2>. QED
    BY <1>5, <2>1 DEF Commit, Goto, memory, TypeOK
<1>6. CASE ServerCommits(t) \/ ServerRollsBack(t)
  <2>1. PICK l \in {"answered", "lost"} : pc' = [pc EXCEPT ![t] = l]
    BY <1>6 DEF ServerCommits, ServerRollsBack, Goto
  <2>2. sent[t] \in Seq(Statements) /\ pc[t] = "sent"
    BY <1>6 DEF TypeOK, ServerCommits, ServerRollsBack
  <2>3. PICK reply \in Seq(Replies) :
          responses' = [responses EXCEPT ![t] = reply]
    BY <1>6, <2>2, EnvelopeType DEF ServerCommits, ServerRollsBack
  <2>4. responses' \in [Tasks -> Seq(Replies)]
    BY <2>3 DEF TypeOK
  <2>5. applied' \in Seq(Seq(Statements))
    <3>1. applied \in Seq(Seq(Statements))
      BY DEF TypeOK
    <3>2. Append(applied, sent[t]) \in Seq(Seq(Statements))
      BY <2>2, <3>1, AppendProperties, Zenon
    <3>. QED
      BY <1>6, <3>1, <3>2 DEF ServerCommits, ServerRollsBack
  <2>6. UNCHANGED <<state, statements, left, sent, results, blamed, accepted>>
    BY <1>6 DEF ServerCommits, ServerRollsBack, memory
  <2>7. \A u \in Tasks : pc'[u] # "queueing" => left'[u] = <<>>
    BY <2>1, <2>2, <2>6 DEF TypeOK
  <2>. HIDE DEF Texts
  <2>. QED
    BY <2>1, <2>4, <2>5, <2>6, <2>7 DEF TypeOK
<1>7. CASE CommitSucceeds(t)
  <2>. DEFINE r == UserResults(responses[t], Len(statements))
  <2>1. r \in Seq(Texts)
    BY ResultType DEF TypeOK
  <2>. HIDE DEF r
  <2>2. /\ results' = [results EXCEPT ![t] = r] /\ pc[t] = "answered"
        /\ state' = "COMMITTED" /\ pc' = [pc EXCEPT ![t] = "idle"]
        /\ UNCHANGED <<statements, left, sent, responses, blamed, accepted,
                       applied>>
    BY <1>7 DEF CommitSucceeds, Goto, r
  <2>3. results' \in [Tasks -> Seq(Texts)]
    BY <2>1, <2>2 DEF TypeOK
  <2>. QED
    BY <2>2, <2>3 DEF TypeOK, States
<1>8. CASE CommitFails(t)
  <2>. DEFINE b == Blame(responses[t], statements)
  <2>1. b \in Texts
    BY BlameType DEF TypeOK
  <2>. HIDE DEF b
  <2>2. /\ blamed' = [blamed EXCEPT ![t] = b] /\ pc[t] = "answered"
        /\ state' = "FAILED" /\ pc' = [pc EXCEPT ![t] = "idle"]
        /\ UNCHANGED <<statements, left, sent, responses, results, accepted,
                       applied>>
    BY <1>8 DEF CommitFails, Goto, b
  <2>. QED
    BY <2>1, <2>2 DEF TypeOK, States
<1>9. CASE CommitRejects(t)
  BY <1>9 DEF CommitRejects, Goto, TypeOK, States
<1>. QED
  BY <1>1, <1>2, <1>3, <1>4, <1>5, <1>6, <1>7, <1>8, <1>9 DEF Step

(* The variables of a transaction have their types, shared or not.         *)
THEOREM TransactionTypes == Spec => []TypeOK
<1>1. Init => TypeOK
  <2>. SUFFICES ASSUME Init PROVE TypeOK
    OBVIOUS
  <2>1. /\ [t \in Tasks |-> <<>>] \in [Tasks -> Seq(Statements)]
        /\ [t \in Tasks |-> <<>>] \in [Tasks -> Seq(Replies)]
        /\ [t \in Tasks |-> <<>>]
             \in [Tasks -> Seq(Statements \cup {"BEGIN", "COMMIT"})]
        /\ <<>> \in Seq(Statements) /\ <<>> \in Seq(Seq(Statements))
    BY EmptySeq, Zenon
  <2>. QED
    BY <2>1 DEF Init, TypeOK, States
<1>2. TypeOK /\ [Next]_vars => TypeOK'
  <2>. SUFFICES ASSUME TypeOK, [Next]_vars PROVE TypeOK'
    OBVIOUS
  <2>1. CASE UNCHANGED vars
    BY <2>1 DEF vars, memory, task, TypeOK
  <2>2. CASE Next
    BY <2>2, TypeStep DEF Next, TypeOK
  <2>. QED
    BY <2>1, <2>2
<1>. QED
  BY <1>1, <1>2, PTL DEF Spec

---------------------------------------------------------------------------
(* A clean envelope yields the queue.                                      *)
LEMMA CleanYieldsQueue ==
    ASSUME SingleStatements, NEW q \in Seq(Statements)
    PROVE  UserResults(Clean(q), Len(q)) = q
<1>. DEFINE wire == Wire(q)
            reply == Clean(q)
            slice == SubSeq(reply, 2, 1 + Len(q))
<1>1. wire = <<"BEGIN">> \o q \o <<"COMMIT">>
  BY WireOfSingles
<1>2. Len(q) \in Nat /\ reply \in Seq(Replies)
  BY EnvelopeType
<1>3. /\ DOMAIN wire = 1 .. Len(q) + 2
      /\ \A k \in 1 .. Len(q) : wire[k + 1] = q[k]
  BY <1>1
<1>4. Len(reply) = Len(q) + 2
  BY <1>2, <1>3 DEF Clean
<1>5. \A k \in 1 .. Len(q) : reply[k + 1].of = q[k]
  BY <1>2, <1>3 DEF Clean
<1>. HIDE DEF wire, reply
<1>6. \A i \in 2 .. 1 + Len(q) : reply[i] \in Replies
  BY <1>2, <1>4
<1>7. /\ slice \in Seq(Replies) /\ Len(slice) = Len(q)
      /\ \A k \in 1 .. Len(q) : slice[k] = reply[k + 1]
  BY <1>2, <1>6, SubSeqProperties
<1>8. UserResults(reply, Len(q)) = [k \in DOMAIN slice |-> slice[k].of]
  BY <1>2, <1>4 DEF UserResults
<1>. HIDE DEF slice
<1>9. DOMAIN slice = 1 .. Len(q)
  BY <1>2, <1>7
<1>10. [k \in DOMAIN slice |-> slice[k].of] = [k \in 1 .. Len(q) |-> q[k]]
  BY <1>5, <1>7, <1>9
<1>. QED
  BY <1>8, <1>10 DEF reply

(* The cause of a rolled-back envelope is the text that is blamed.         *)
LEMMA CauseIsBlamed ==
    ASSUME SingleStatements, NEW q \in Seq(Statements),
           NEW i \in DOMAIN Wire(q)
    PROVE  IsCause(RolledBack(q, i), Blame(RolledBack(q, i), q))
<1>. DEFINE wire == Wire(q)
            reply == RolledBack(q, i)
            I == {k \in 1 .. Len(reply) : reply[k].error = "cause"}
<1>1. wire = <<"BEGIN">> \o q \o <<"COMMIT">>
  BY WireOfSingles
<1>2. Len(q) \in Nat /\ reply \in Seq(Replies)
  BY EnvelopeType
<1>3. /\ DOMAIN wire = 1 .. Len(q) + 2
      /\ wire[1] = "BEGIN" /\ wire[Len(q) + 2] = "COMMIT"
      /\ \A k \in 1 .. Len(q) : wire[k + 1] = q[k]
  BY <1>1
<1>4. /\ DOMAIN reply = DOMAIN wire
      /\ \A k \in DOMAIN reply : reply[k].error = "cause" <=> k = i
      /\ reply[i] = [of |-> wire[i], error |-> "cause"]
  BY DEF RolledBack
<1>5. i \in 1 .. Len(q) + 2 /\ Len(reply) = Len(q) + 2
  BY <1>2, <1>3, <1>4
<1>. HIDE DEF wire, reply
<1>6. I = {i}
  BY <1>3, <1>4, <1>5
<1>7. SelectInSeq(reply, LAMBDA x : x.error = "cause") = i
  <2>1. SelectInSeq(reply, LAMBDA x : x.error = "cause") = Min(I)
    BY <1>6 DEF SelectInSeq
  <2>2. Min({i}) = i
    BY <1>5 DEF Min
  <2>. QED
    BY <1>6, <2>1, <2>2
<1>8. Blame(reply, q) = CASE i - 1 = 0            -> "BEGIN"
                          [] i - 1 \in DOMAIN q -> q[i - 1]
                          [] OTHER                -> "COMMIT"
  BY <1>5, <1>7 DEF Blame
<1>9. Blame(reply, q) = wire[i]
  <2>1. DOMAIN q = 1 .. Len(q)
    OBVIOUS
  <2>2. CASE i = 1
    BY <1>3, <1>8, <2>2
  <2>3. CASE i = Len(q) + 2
    <3>1. i - 1 # 0 /\ i - 1 \notin DOMAIN q
      BY <1>2, <2>1, <2>3
    <3>. QED
      BY <1>3, <1>8, <2>3, <3>1
  <2>4. CASE i # 1 /\ i # Len(q) + 2
    <3>1. i - 1 # 0 /\ i - 1 \in 1 .. Len(q) /\ i = (i - 1) + 1
      BY <1>2, <1>5, <2>4
    <3>2. wire[i] = q[i - 1]
      BY <1>3, <3>1
    <3>. QED
      BY <1>8, <2>1, <3>1, <3>2
  <2>. QED
    BY <2>2, <2>3, <2>4
<1>. QED
  BY <1>3, <1>4, <1>5, <1>9 DEF IsCause, reply

(* Every step of the task that is alone keeps what its replies are.        *)
LEMMA ReplyStep ==
    ASSUME SingleStatements, TypeOK, BatchInv, AloneInv, ReplyInv, [Next]_vars
    PROVE  ReplyInv'
<1>. SUFFICES ASSUME NEW t \in Tasks, holders' = {t} PROVE OneReply(t)'
  BY DEF ReplyInv
<1>1. holders = {t} /\ BufferIsQueue
  BY DEF Next, vars, BatchInv
<1>2. OneCommit(t) /\ OneReply(t)
  BY <1>1 DEF AloneInv, ReplyInv
<1>3. CASE UNCHANGED vars
  BY <1>2, <1>3 DEF vars, memory, task, OneReply
<1>4. CASE Begin(t) \/ Cancel(t)
  BY <1>2, <1>4 DEF Begin, Cancel, task, OneReply, Ended
<1>5. CASE UpsertMany(t) \/ Queued(t)
  BY <1>2, <1>5 DEF UpsertMany, Queued, Goto, memory, OneReply, TypeOK
<1>6. CASE Execute(t)
  BY <1>2, <1>6 DEF Execute, Goto, OneReply, TypeOK
<1>7. CASE Commit(t)
  BY <1>2, <1>7 DEF Commit, Goto, memory, OneReply, TypeOK
<1>8. CASE ServerCommits(t) \/ ServerRollsBack(t)
  <2>1. /\ pc[t] = "sent" /\ state = "ACTIVE" /\ sent[t] = accepted
        /\ UNCHANGED <<state, accepted, blamed>>
    BY <1>2, <1>8 DEF ServerCommits, ServerRollsBack, OneCommit, memory
  <2>2. \/ responses'[t] = Clean(accepted)
        \/ \E i \in DOMAIN Wire(accepted) :
               responses'[t] = RolledBack(accepted, i)
    BY <1>8, <2>1 DEF ServerCommits, ServerRollsBack, TypeOK
  <2>. QED
    BY <1>2, <2>1, <2>2 DEF OneReply, Ended
<1>9. CASE CommitSucceeds(t)
  <2>1. /\ pc[t] = "answered" /\ IsCommitted(responses[t])
        /\ results'[t] = UserResults(responses[t], Len(statements))
        /\ pc'[t] = "idle" /\ state' = "COMMITTED"
        /\ UNCHANGED <<accepted, responses, blamed>>
    BY <1>9 DEF CommitSucceeds, Goto, TypeOK
  <2>2. state = "ACTIVE" /\ statements = accepted
    BY <1>1, <1>2, <2>1 DEF OneCommit, BufferIsQueue
  <2>3. responses[t] = Clean(accepted)
    <3>1. \A i \in DOMAIN Wire(accepted) :
             ~ IsCommitted(RolledBack(accepted, i))
      BY DEF IsCommitted, RolledBack
    <3>. QED
      BY <1>2, <2>1, <3>1 DEF OneReply
  <2>4. results'[t] = accepted
    BY <2>1, <2>2, <2>3, CleanYieldsQueue DEF TypeOK
  <2>. QED
    BY <1>2, <2>1, <2>2, <2>4 DEF OneReply, Ended
<1>10. CASE CommitFails(t)
  <2>1. /\ pc[t] = "answered" /\ ~IsCommitted(responses[t])
        /\ blamed' = [blamed EXCEPT ![t] = Blame(responses[t], statements)]
        /\ pc'[t] = "idle" /\ state' = "FAILED"
        /\ UNCHANGED <<accepted, responses, results>>
    BY <1>10 DEF CommitFails, Goto, TypeOK
  <2>2. statements = accepted
    BY <1>1, <1>2, <2>1 DEF OneCommit, BufferIsQueue
  <2>3. PICK i \in DOMAIN Wire(accepted) :
          responses[t] = RolledBack(accepted, i)
    <3>1. IsCommitted(Clean(accepted))
      BY DEF IsCommitted, Clean
    <3>. QED
      BY <1>2, <2>1, <3>1 DEF OneReply
  <2>4. IsCause(responses[t], blamed'[t])
    BY <2>1, <2>2, <2>3, CauseIsBlamed DEF TypeOK
  <2>. QED
    BY <1>2, <2>1, <2>4 DEF OneReply, Ended, TypeOK, IsCause
<1>11. CASE CommitRejects(t)
  BY <1>2, <1>11 DEF CommitRejects, Goto, OneReply, OneCommit, TypeOK, Ended
<1>. QED
  BY <1>1, <1>3, <1>4, <1>5, <1>6, <1>7, <1>8, <1>9, <1>10, <1>11
     DEF Next, Step

(* commit() returns one result per execute(), in queue order, and its      *)
(* error names the statement that failed, to the task that is alone, for   *)
(* any number of texts that are one statement each.                        *)
THEOREM ResultsAreTheQueues ==
    ASSUME SingleStatements
    PROVE  Spec => []ResultsMatchQueue
<1>1. Init => ReplyInv
  BY DEF Init, ReplyInv, OneReply
<1>2. TypeOK /\ ReplyInv => ResultsMatchQueue
  <2>. SUFFICES ASSUME TypeOK, ReplyInv, Alone
                PROVE  /\ state = "COMMITTED" =>
                            \E t \in Tasks : results[t] = accepted
                       /\ \A t \in Tasks : blamed[t] # Nobody =>
                            IsCause(responses[t], blamed[t])
    BY DEF ResultsMatchQueue
  <2>1. IsFiniteSet(holders)
    BY TransactionAssumption, FS_Subset DEF TypeOK
  <2>2. PICK t \in Tasks : holders = {t}
    BY <2>1, FS_Singleton DEF Alone, TypeOK
  <2>. QED
    BY <2>2 DEF ReplyInv, OneReply
<1>. QED
  BY <1>1, <1>2, ReplyStep, TransactionTypes, BatchInvariant, AloneInvariant,
     PTL DEF Spec
=============================================================================
