--------------------------- MODULE SchemaLedger ---------------------------
(***************************************************************************)
(* What the migration engine promises of a database that one runner at a   *)
(* time works on: the schema is a stack of migrations and _migrations is   *)
(* its ledger.                                                             *)
(*                                                                         *)
(* Only the lowest unrecorded migration is ever being built, and it is     *)
(* recorded once it is complete; only the highest recorded one is ever     *)
(* being torn down, and its record goes once nothing of it is left.  A     *)
(* failure or a crash leaves that one migration half way, and no other.    *)
(***************************************************************************)
EXTENDS Naturals

CONSTANTS
    Versions,   \* the migrations, lowest first
    Parts       \* Parts[v]: the objects that migration v defines

VARIABLES
    recorded,   \* the versions in the ledger
    built       \* built[v]: the objects of v that exist

vars == <<recorded, built>>

Init ==
    /\ recorded = {}
    /\ built = [v \in Versions |-> {}]

LowestUnrecorded(v) ==
    /\ v \notin recorded
    /\ \A w \in Versions : w < v => w \in recorded

HighestRecorded(v) ==
    /\ v \in recorded
    /\ \A w \in recorded : w <= v

Build(v) ==
    /\ LowestUnrecorded(v)
    /\ \E p \in Parts[v] : built' = [built EXCEPT ![v] = @ \cup {p}]
    /\ UNCHANGED recorded

Record(v) ==
    /\ LowestUnrecorded(v)
    /\ built[v] = Parts[v]
    /\ recorded' = recorded \cup {v}
    /\ UNCHANGED built

TearDown(v) ==
    /\ HighestRecorded(v)
    /\ \E p \in Parts[v] : built' = [built EXCEPT ![v] = @ \ {p}]
    /\ UNCHANGED recorded

Forget(v) ==
    /\ HighestRecorded(v)
    /\ built[v] = {}
    /\ recorded' = recorded \ {v}
    /\ UNCHANGED built

Next == \E v \in Versions :
    Build(v) \/ Record(v) \/ TearDown(v) \/ Forget(v)

Spec == Init /\ [][Next]_vars
===========================================================================
