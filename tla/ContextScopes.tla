--------------------------- MODULE ContextScopes ---------------------------
(***************************************************************************)
(* The current client of the process, and the scopes that set and restore  *)
(* it.                                                                     *)
(*                                                                         *)
(*   src/src/connection/context.ts                                         *)
(*                                                                         *)
(* The current client is one variable for all tasks.  A scope keeps the    *)
(* client it found and puts it back when it is disposed of; between the    *)
(* two a connectionScope awaits its own client's close().                  *)
(***************************************************************************)
EXTENDS Naturals, Sequences

CONSTANTS
    MaxClients, \* bound: clients that are made
    MaxScopes   \* bound: scopes that are opened

ScopesAssumption == {MaxClients, MaxScopes} \subseteq Nat

VARIABLES
    current,    \* _currentClient, 0 for null
    clients,    \* how many clients were made
    scopes,     \* the scopes, in the order they were opened
    levels,     \* what was last made current at each level of nesting
    nested      \* every scope so far was disposed of inside its outer one

vars == <<current, clients, scopes, levels, nested>>

Phases == {"open", "closing", "disposed"}
Scopes == [client: 0 .. MaxClients, previous: 0 .. MaxClients,
           override: BOOLEAN, phase: Phases]

TypeOK ==
    /\ clients \in 0 .. MaxClients
    /\ current \in 0 .. clients
    /\ scopes \in Seq(Scopes) /\ Len(scopes) <= MaxScopes
    /\ levels \in Seq(0 .. clients) /\ levels # <<>>
    /\ nested \in BOOLEAN

Init ==
    /\ current = 0
    /\ clients = 0
    /\ scopes = <<>>
    /\ levels = <<0>>
    /\ nested = TRUE

---------------------------------------------------------------------------
Closing == \E i \in DOMAIN scopes : scopes[i].phase = "closing"

(* setDb(client) and clearDb(), as 0                                       *)
SetDb ==
    /\ \/ /\ clients < MaxClients
          /\ clients' = clients + 1
          /\ current' = clients + 1
       \/ clients' = clients /\ current' = 0
    /\ levels' = [levels EXCEPT ![Len(levels)] = current']
    /\ nested' = (nested /\ ~Closing)
    /\ UNCHANGED scopes

(* connectionScope makes a client of its own; connectionOverride is given  *)
(* one.                                                                    *)
Open(override) ==
    /\ Len(scopes) < MaxScopes
    /\ clients < MaxClients
    /\ clients' = clients + 1
    /\ scopes' = Append(scopes, [client |-> clients + 1, previous |-> current,
                                 override |-> override, phase |-> "open"])
    /\ current' = clients + 1
    /\ levels' = Append(levels, clients + 1)
    /\ nested' = (nested /\ ~Closing)

Innermost(i) ==
    \A j \in DOMAIN scopes : scopes[j].phase = "open" => j <= i

Pop == levels' = IF Len(levels) > 1 THEN SubSeq(levels, 1, Len(levels) - 1)
                 ELSE levels

(* asyncDispose of a connectionScope: it awaits close().                   *)
Dispose(i) ==
    /\ scopes[i].phase = "open" /\ ~scopes[i].override
    /\ scopes' = [scopes EXCEPT ![i].phase = "closing"]
    /\ nested' = (nested /\ Innermost(i) /\ ~Closing)
    /\ UNCHANGED <<current, clients, levels>>

(* Mutant: the context is cleared, as by clearDb().                        *)
ClosedClears(i) ==
    /\ scopes[i].phase = "closing"
    /\ scopes' = [scopes EXCEPT ![i].phase = "disposed"]
    /\ current' = 0
    /\ Pop
    /\ UNCHANGED <<clients, nested>>

(* close() resolves, and what the scope found is put back.                 *)
Closed(i) ==
    /\ scopes[i].phase = "closing"
    /\ scopes' = [scopes EXCEPT ![i].phase = "disposed"]
    /\ current' = scopes[i].previous
    /\ Pop
    /\ UNCHANGED <<clients, nested>>

(* close() rejects, and so does the disposal: the closed client stays.     *)
CloseFails(i) ==
    /\ scopes[i].phase = "closing"
    /\ scopes' = [scopes EXCEPT ![i].phase = "disposed"]
    /\ nested' = FALSE
    /\ UNCHANGED <<current, clients, levels>>

(* asyncDispose of a connectionOverride: nothing is awaited.               *)
Restore(i) ==
    /\ scopes[i].phase = "open" /\ scopes[i].override
    /\ scopes' = [scopes EXCEPT ![i].phase = "disposed"]
    /\ current' = scopes[i].previous
    /\ Pop
    /\ nested' = (nested /\ Innermost(i) /\ ~Closing)
    /\ UNCHANGED clients

Next ==
    \/ SetDb
    \/ \E o \in BOOLEAN : Open(o)
    \/ \E i \in DOMAIN scopes :
        Dispose(i) \/ Closed(i) \/ CloseFails(i) \/ Restore(i)

Spec == Init /\ [][Next]_vars

---------------------------------------------------------------------------
(* As long as scopes are disposed of one inside the other, none while the  *)
(* close() of another is awaited, getDb() gives what was last made current *)
(* at the level that is left, however deep the scopes were and whatever    *)
(* setDb() did inside them; it is not the client of a scope that is gone.  *)
ContextRestored ==
    nested /\ ~Closing =>
        /\ current = levels[Len(levels)]
        /\ \A i \in DOMAIN scopes :
            scopes[i].phase = "disposed" /\ ~scopes[i].override =>
                scopes[i].client # current

(* What makes it so: as long as they are disposed of one inside the other, *)
(* the scopes that are left stand one on each level but the last, in the   *)
(* order they were opened, and each has kept what that level had.  A       *)
(* scope's client is none of a level at or below it, so that no level has  *)
(* it once the scope is gone.                                              *)
Inside == {i \in DOMAIN scopes : scopes[i].phase # "disposed"}

Stacked(level) ==
    /\ \A d \in 1 .. Len(levels) - 1 : \E i \in Inside : level[i] = d
    /\ \A i, j \in Inside : i < j => level[i] < level[j]
    /\ \A i \in Inside :
        /\ scopes[i].previous = levels[level[i]]
        /\ \A d \in 1 .. level[i] : levels[d] # scopes[i].client

ScopesInv ==
    /\ \A i \in DOMAIN scopes :
        scopes[i].client \in 1 .. clients /\ scopes[i].previous \in 0 .. clients
    /\ nested =>
        /\ current = levels[Len(levels)]
        /\ \E level \in [Inside -> 1 .. Len(levels) - 1] : Stacked(level)
        /\ \A i \in DOMAIN scopes :
            scopes[i].phase = "disposed" =>
                \A d \in DOMAIN levels : levels[d] # scopes[i].client
        /\ \A i \in DOMAIN scopes :
            scopes[i].phase = "closing" => \A j \in Inside : j <= i
=============================================================================
