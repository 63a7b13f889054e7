------------------------------ MODULE Buckets -------------------------------
(***************************************************************************)
(* Files in a bucket, written and read by calls that are retried.          *)
(*                                                                         *)
(*   src/src/files/bucket.ts, src/src/utils/retry.ts                       *)
(*                                                                         *)
(* A call is retry(() => bucket.op(...)): every attempt is a statement of  *)
(* its own, which may be lost, refused, or done with its reply lost.       *)
(***************************************************************************)
EXTENDS Naturals, FiniteSets

CONSTANTS
    Tasks,
    MaxAttempts,    \* maxAttempts of the retry
    MaxUses         \* bound: calls that are made

BucketsAssumption == MaxAttempts \in Nat \ {0} /\ MaxUses \in Nat

VARIABLES
    objects,    \* objects[k]: the content of key k
    uses,       \* uses[t]: the call of task t
    started     \* how many calls were made

vars == <<objects, uses, started>>

---------------------------------------------------------------------------
Keys == {"j", "k"}
Absent == 0
Contents == 1 .. 2

(* The operations, by what their statement does.                           *)
Writes == {"put", "putIfNotExists"}
Moves == {"copy", "copyIfNotExists", "rename", "renameIfNotExists"}
Reads == {"get", "getText", "exists", "head", "list"}
Renames == {"rename", "renameIfNotExists"}
IfNotExists == {"putIfNotExists", "copyIfNotExists", "renameIfNotExists"}

Unused ==
    [at |-> "idle", op |-> "none", key |-> "k", target |-> "j", content |-> 1,
     attempts |-> 0, applied |-> 0, retryIf |-> TRUE, answer |-> Absent,
     before |-> [k \in Keys |-> Absent], alone |-> TRUE]

Init ==
    /\ objects \in [Keys -> {Absent, 1}]
    /\ uses = [t \in Tasks |-> Unused]
    /\ started = 0

Running(t) == uses[t].at \in {"calling", "sent", "failed", "waiting"}

(* A call that begins while another runs leaves neither of them alone.     *)
Begin(t, op, content) ==
    /\ started < MaxUses /\ ~Running(t)
    /\ started' = started + 1
    /\ uses' = [u \in Tasks |->
            IF u = t
            THEN [Unused EXCEPT !.at = "calling", !.op = op, !.content = content,
                                !.attempts = 1, !.before = objects,
                                !.alone = \A v \in Tasks : ~Running(v)]
            ELSE [uses[u] EXCEPT !.alone = FALSE]]
    /\ UNCHANGED objects

Put(t) == Begin(t, "put", 2)
PutIfNotExists(t) == Begin(t, "putIfNotExists", 2)
Delete(t) == Begin(t, "delete", Absent)
Copy(t) == Begin(t, "copy", Absent)
CopyIfNotExists(t) == Begin(t, "copyIfNotExists", Absent)
Rename(t) == Begin(t, "rename", Absent)
RenameIfNotExists(t) == Begin(t, "renameIfNotExists", Absent)
Get(t) == Begin(t, "get", Absent)
GetText(t) == Begin(t, "getText", Absent)
Exists(t) == Begin(t, "exists", Absent)
Head(t) == Begin(t, "head", Absent)
List(t) == Begin(t, "list", Absent)

---------------------------------------------------------------------------
Goto(t, at) == uses' = [uses EXCEPT ![t].at = at]

(* An attempt failed, with an error that retryIf may want retried or not.  *)
Fail(t) ==
    \E retry \in BOOLEAN :
        uses' = [uses EXCEPT ![t].at = "failed", ![t].retryIf = retry]

(* run(): the connection is resolved for every attempt.                    *)
Connect(t) ==
    /\ uses[t].at = "calling"
    /\ Goto(t, "sent") \/ Fail(t)
    /\ UNCHANGED <<objects, started>>

(* The bucket after a statement; one that is about a file that is not      *)
(* there is refused, or, if it is a deletion, may be.                      *)
Refusable(u) ==
    u.op \in Moves \cup {"delete"} /\ objects[u.key] = Absent
Accepted(u) == u.op \notin Moves \/ objects[u.key] # Absent

Destination(u) == IF u.op \in Moves THEN u.target ELSE u.key
Content(u) == IF u.op \in Moves THEN objects[u.key] ELSE u.content

Written(u) ==
    IF u.op \in IfNotExists /\ objects[Destination(u)] # Absent THEN objects
    ELSE [k \in Keys |->
            CASE k = Destination(u)                -> Content(u)
              [] k = u.key /\ u.op \in Renames      -> Absent
              [] OTHER                             -> objects[k]]

After(u) == IF u.op \in Reads THEN objects ELSE Written(u)

(* What a read makes of the first result: a missing value is undefined,    *)
(* and the list has every row that is a file.                              *)
Listed == Cardinality({k \in Keys : objects[k] # Absent})
Found(u) ==
    CASE u.op \in {"get", "getText"} -> objects[u.key]
      [] u.op \in {"exists", "head"} -> IF objects[u.key] = Absent THEN 0 ELSE 1
      [] u.op = "list" -> Listed
      [] OTHER -> Absent

(* The statement is done; its reply may be lost.                           *)
Serve(t) ==
    LET u == uses[t]
    IN  /\ u.at = "sent" /\ Accepted(u)
        /\ objects' = After(u)
        /\ \E at \in {"returned", "failed"}, retry \in BOOLEAN :
            /\ at = "returned" => retry
            /\ uses' = [uses EXCEPT ![t].at = at, ![t].applied = @ + 1,
                                    ![t].retryIf = retry,
                                    ![t].answer = Found(u)]
        /\ UNCHANGED started

Lose(t) ==
    /\ uses[t].at = "sent"
    /\ Fail(t)
    /\ UNCHANGED <<objects, started>>

Refuse(t) ==
    /\ uses[t].at = "sent" /\ Refusable(uses[t])
    /\ Fail(t)
    /\ UNCHANGED <<objects, started>>

---------------------------------------------------------------------------
(* retry                                                                   *)

LastAttempt(u) == u.attempts = MaxAttempts

(* retryIf says no to this error, or that was the last attempt.            *)
Throw(t) ==
    /\ uses[t].at = "failed"
    /\ ~uses[t].retryIf \/ LastAttempt(uses[t])
    /\ Goto(t, "threw")
    /\ UNCHANGED <<objects, started>>

(* Mutant: retryIf is not asked.                                           *)
WaitAlways(t) ==
    /\ uses[t].at = "failed" /\ ~LastAttempt(uses[t])
    /\ Goto(t, "waiting")
    /\ UNCHANGED <<objects, started>>

(* onRetry, and the delay.                                                 *)
Wait(t) ==
    /\ uses[t].at = "failed"
    /\ uses[t].retryIf /\ ~LastAttempt(uses[t])
    /\ Goto(t, "waiting")
    /\ UNCHANGED <<objects, started>>

Again(t) ==
    /\ uses[t].at = "waiting"
    /\ uses' = [uses EXCEPT ![t].at = "calling", ![t].attempts = @ + 1]
    /\ UNCHANGED <<objects, started>>

Next ==
    \E t \in Tasks :
        \/ Put(t) \/ PutIfNotExists(t) \/ Delete(t) \/ Copy(t)
        \/ CopyIfNotExists(t) \/ Rename(t) \/ RenameIfNotExists(t)
        \/ Get(t) \/ GetText(t) \/ Exists(t) \/ Head(t) \/ List(t)
        \/ Connect(t) \/ Serve(t) \/ Lose(t) \/ Refuse(t)
        \/ Throw(t) \/ Wait(t) \/ Again(t)

Spec == Init /\ [][Next]_vars

---------------------------------------------------------------------------
TypeOK ==
    /\ objects \in [Keys -> Contents \cup {Absent}]
    /\ \A t \in Tasks : uses[t].attempts \in 0 .. MaxAttempts
    /\ started \in 0 .. MaxUses

(* A call is done at most as often as it was attempted, and never again    *)
(* after an error that retryIf does not want retried; one that returns was *)
(* done at least once.                                                     *)
AttemptsAccount ==
    \A t \in Tasks :
        LET u == uses[t]
        IN  /\ u.applied <= u.attempts
            /\ ~u.retryIf => u.at \in {"failed", "threw"}
            /\ u.at = "returned" => u.applied >= 1
            /\ u.at = "threw" /\ u.retryIf => u.attempts = MaxAttempts

(* What a call means, whatever the number of its attempts.                 *)
Meant(u) ==
    LET taken == u.op \in IfNotExists /\
                 u.before[IF u.op \in Moves THEN u.target ELSE u.key] # Absent
    IN  IF u.op \in Reads \/ taken THEN u.before
        ELSE CASE u.op \in Writes \cup {"delete"} ->
                    [u.before EXCEPT ![u.key] = u.content]
               [] u.op \in {"copy", "copyIfNotExists"} ->
                    [u.before EXCEPT ![u.target] = u.before[u.key]]
               [] OTHER -> [u.before EXCEPT ![u.target] = u.before[u.key],
                                            ![u.key] = Absent]

(* A call that nobody else's ran beside leaves the bucket as it means to,  *)
(* done once or several times, or as it was if it was never done.  So the  *)
(* retry of a move whose reply was lost throws, since its file is gone,    *)
(* but loses nothing and does not overwrite the target again.              *)
RetriesDoOnce ==
    \A t \in Tasks :
        LET u == uses[t]
        IN  u.at \in {"returned", "threw"} /\ u.alone =>
               /\ u.applied > 0 => objects = Meant(u)
               /\ u.applied = 0 => objects = u.before
               /\ u.at = "returned" /\ u.op = "get" =>
                    u.answer = u.before[u.key]

(* What makes it so: an attempt is counted before its statement is done,   *)
(* and beside a call that is alone no other runs, so that the bucket is    *)
(* what the call found or what it means.                                   *)
Ops == Writes \cup Moves \cup Reads \cup {"delete", "none"}
Uses ==
    [at: {"idle", "calling", "sent", "failed", "waiting", "returned", "threw"},
     op: Ops, key: {"k"}, target: {"j"}, content: {Absent} \cup Contents,
     attempts: Nat, applied: Nat, retryIf: BOOLEAN, answer: Nat,
     before: [Keys -> Contents \cup {Absent}], alone: BOOLEAN]

Counted(u) ==
    /\ u.at \in {"calling", "sent"} => u.applied < u.attempts
    /\ u.applied <= u.attempts /\ u.attempts <= MaxAttempts
    /\ ~u.retryIf => u.at \in {"failed", "threw"}
    /\ u.at = "waiting" => u.attempts < MaxAttempts
    /\ u.at = "returned" => u.applied >= 1
    /\ u.at = "threw" /\ u.retryIf => u.attempts = MaxAttempts
    /\ u.at # "idle" => u.attempts >= 1 /\ u.op # "none"

AsFoundOrMeant(u) ==
    /\ u.applied > 0 => objects = Meant(u)
    /\ u.applied = 0 => objects = u.before
    /\ u.at = "returned" /\ u.op = "get" => u.answer = u.before[u.key]

BucketsInv ==
    /\ uses \in [Tasks -> Uses]
    /\ \A t \in Tasks :
        /\ Counted(uses[t])
        /\ uses[t].at # "idle" /\ uses[t].alone =>
            /\ \A v \in Tasks \ {t} : ~Running(v)
            /\ AsFoundOrMeant(uses[t])
=============================================================================
