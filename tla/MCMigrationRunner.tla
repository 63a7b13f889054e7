------------------------ MODULE MCMigrationRunner ------------------------
(* Migrations of two statements each for model checking MigrationRunner.   *)
EXTENDS MigrationRunner

CONSTANTS r1, r2

Define(o, g) == [op |-> "DEFINE", obj |-> o, guarded |-> g]
Remove(o, g) == [op |-> "REMOVE", obj |-> o, guarded |-> g]

(* Version v defines the objects 10v+1 and 10v+2.                          *)
MCObjects == {10 * v + i : v \in 1 .. 3, i \in 1 .. 2}
Reversible(v, g) ==
    [up   |-> <<Define(10 * v + 1, g), Define(10 * v + 2, g)>>,
     down |-> <<Remove(10 * v + 2, g), Remove(10 * v + 1, g)>>]
OneWay(v, g) == [Reversible(v, g) EXCEPT !.down = <<>>]

TwoVersions == 1 .. 2
ThreeVersions == 1 .. 3
AllTs == [v \in Versions |-> "ts"]
AllSurql == [v \in Versions |-> "surql"]
Guarded == [v \in Versions |-> Reversible(v, TRUE)]
Bare == [v \in Versions |-> Reversible(v, FALSE)]
(* One migration in the style of the schema emitters' ifNotExists, one in  *)
(* the style of the differ, which writes bare statements.                  *)
MixedOneWay == [v \in Versions |-> OneWay(v, v = 1)]
Mixed == [v \in Versions |-> Reversible(v, v = 2)]
==========================================================================
