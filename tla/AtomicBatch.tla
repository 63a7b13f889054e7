---------------------------- MODULE AtomicBatch ----------------------------
(***************************************************************************)
(* What a buffered transaction promises: statements are queued while it is *)
(* open, and it ends once, with all of them applied, in queue order and    *)
(* exactly once, or with none.                                             *)
(***************************************************************************)
EXTENDS Sequences

CONSTANT Statements

VARIABLES
    queued,     \* the statements queued, in order
    effect,     \* the batches the database has executed, in order
    outcome     \* "open", "applied" or "discarded"

vars == <<queued, effect, outcome>>

Init == queued = <<>> /\ effect = <<>> /\ outcome = "open"

Queue(s) ==
    /\ outcome = "open"
    /\ queued' = Append(queued, s)
    /\ UNCHANGED <<effect, outcome>>

Apply ==
    /\ outcome = "open"
    /\ outcome' = "applied"
    /\ effect' = <<queued>>
    /\ UNCHANGED queued

Discard ==
    /\ outcome = "open"
    /\ outcome' = "discarded"
    /\ UNCHANGED <<queued, effect>>

Next == Apply \/ Discard \/ \E s \in Statements : Queue(s)

Spec == Init /\ [][Next]_vars
===========================================================================
