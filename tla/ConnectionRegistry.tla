------------------------ MODULE ConnectionRegistry ------------------------
(***************************************************************************)
(* The registry of named connections.                                      *)
(*                                                                         *)
(*   src/src/connection/registry.ts                                        *)
(*                                                                         *)
(* unregister and disconnectAll await the client's close(), and act on     *)
(* the Map and on the default name before and after.                       *)
(***************************************************************************)
EXTENDS Naturals, Sequences, SequencesExt

CONSTANTS
    Tasks,      \* the callers of the registry
    Names,      \* the names they use
    NoName,     \* null
    MaxClients  \* bound: clients made in one behaviour

NamesAssumption == NoName \notin Names /\ MaxClients \in Nat

VARIABLES
    callers,        \* the tasks that use the registry in this behaviour
    connections,    \* the Map, in its order: names and clients
    defaultName,
    made,           \* how many clients were made: they are 1 .. made
    closing,        \* the clients whose close() was called
    pc,             \* pc[t]: where t's call stands
    entry,          \* entry[t]: the entry it is closing
    rest            \* rest[t]: what is left of disconnectAll's entries

calls == <<pc, entry, rest>>
vars == <<callers, connections, defaultName, made, closing, calls>>

NoEntry == [name |-> NoName, client |-> 0]
Entries == [name: Names, client: 1 .. MaxClients]
NamesOf(es) == {es[i].name : i \in DOMAIN es}
ClientsOf(es) == {es[i].client : i \in DOMAIN es}

TypeOK ==
    /\ callers \subseteq Tasks
    /\ connections \in Seq(Entries)
    /\ \A i, j \in DOMAIN connections :
        connections[i].name = connections[j].name => i = j
    /\ defaultName \in Names \cup {NoName}
    /\ made \in 0 .. MaxClients
    /\ closing \subseteq 1 .. made
    /\ pc \in [Tasks -> {"idle", "unregister", "disconnectAll", "close",
                         "closed", "closeFailed"}]
    /\ entry \in [Tasks -> Entries \cup {NoEntry}]
    /\ rest \in [Tasks -> Seq(Entries)]

Init ==
    /\ callers \in SUBSET Tasks
    /\ connections = <<>>
    /\ defaultName = NoName
    /\ made = 0
    /\ closing = {}
    /\ pc = [t \in Tasks |-> "idle"]
    /\ entry = [t \in Tasks |-> NoEntry]
    /\ rest = [t \in Tasks |-> <<>>]

---------------------------------------------------------------------------
Goto(t, l) == pc' = [pc EXCEPT ![t] = l]
Forget(t) == entry' = [entry EXCEPT ![t] = NoEntry]

(* register; a name that is taken is refused.                              *)
Register(t) ==
    /\ pc[t] = "idle"
    /\ made < MaxClients
    /\ made' = made + 1
    /\ \E n \in Names \ NamesOf(connections) :
        /\ connections' =
               Append(connections, [name |-> n, client |-> made + 1])
        /\ defaultName' = IF connections = <<>> THEN n ELSE defaultName
    /\ UNCHANGED <<callers, closing, calls>>

(* setDefault; a name that is not registered is refused.                   *)
SetDefault(t) ==
    /\ pc[t] = "idle"
    /\ defaultName' \in NamesOf(connections)
    /\ UNCHANGED <<callers, connections, made, closing, calls>>

(* unregister looks the entry up and awaits its client's close().          *)
Unregister(t) ==
    /\ pc[t] = "idle"
    /\ \E i \in DOMAIN connections :
        /\ entry' = [entry EXCEPT ![t] = connections[i]]
        /\ closing' = closing \cup {connections[i].client}
    /\ Goto(t, "close")
    /\ UNCHANGED <<callers, connections, defaultName, made, rest>>

(* disconnectAll takes its entries once.                                   *)
DisconnectAll(t) ==
    /\ pc[t] = "idle"
    /\ connections # <<>>
    /\ rest' = [rest EXCEPT ![t] = connections]
    /\ Goto(t, "disconnectAll")
    /\ UNCHANGED <<callers, connections, defaultName, made, closing, entry>>

DisconnectNext(t) ==
    /\ pc[t] = "disconnectAll"
    /\ rest[t] # <<>>
    /\ entry' = [entry EXCEPT ![t] = Head(rest[t])]
    /\ closing' = closing \cup {Head(rest[t]).client}
    /\ Goto(t, "close")
    /\ UNCHANGED <<callers, connections, defaultName, made, rest>>

(* close() settles, one way or the other.                                  *)
Close(t) ==
    /\ pc[t] = "close"
    /\ \E l \in {"closed", "closeFailed"} : Goto(t, l)
    /\ UNCHANGED <<callers, connections, defaultName, made, closing, entry,
                   rest>>

Without(n) == RemoveFirstMatch(connections, LAMBDA e : e.name = n)

(* unregister goes on: the name goes, whatever it stands for by now, and   *)
(* with it the default, which passes to the first name that is left.       *)
Unregistered(t) ==
    /\ pc[t] = "closed"
    /\ rest[t] = <<>>
    /\ connections' = Without(entry[t].name)
    /\ defaultName' =
           IF defaultName # entry[t].name THEN defaultName
           ELSE IF connections' = <<>> THEN NoName
           ELSE connections'[1].name
    /\ Goto(t, "idle") /\ Forget(t)
    /\ UNCHANGED <<callers, made, closing, rest>>

(* close() threw, and so does unregister: the name stays.                  *)
UnregisterFails(t) ==
    /\ pc[t] = "closeFailed"
    /\ rest[t] = <<>>
    /\ Goto(t, "idle") /\ Forget(t)
    /\ UNCHANGED <<callers, connections, defaultName, made, closing, rest>>

(* Mutant: a failure ends the loop, and the Map is emptied.                *)
DisconnectedOrCleared(t) ==
    /\ pc[t] \in {"closed", "closeFailed"}
    /\ rest[t] # <<>>
    /\ connections' = IF pc[t] = "closed" THEN Without(entry[t].name) ELSE <<>>
    /\ rest' = [rest EXCEPT ![t] = IF pc[t] = "closed" THEN Tail(@) ELSE <<>>]
    /\ Goto(t, "disconnectAll") /\ Forget(t)
    /\ UNCHANGED <<callers, defaultName, made, closing>>

(* disconnectAll goes on, in any case.                                     *)
Disconnected(t) ==
    /\ pc[t] \in {"closed", "closeFailed"}
    /\ rest[t] # <<>>
    /\ connections' = Without(entry[t].name)
    /\ rest' = [rest EXCEPT ![t] = Tail(@)]
    /\ Goto(t, "disconnectAll") /\ Forget(t)
    /\ UNCHANGED <<callers, defaultName, made, closing>>

DisconnectAllReturns(t) ==
    /\ pc[t] = "disconnectAll"
    /\ rest[t] = <<>>
    /\ defaultName' = NoName
    /\ Goto(t, "idle")
    /\ UNCHANGED <<callers, connections, made, closing, entry, rest>>

Step(t) ==
    \/ Register(t)
    \/ SetDefault(t)
    \/ Unregister(t)
    \/ DisconnectAll(t)
    \/ DisconnectNext(t)
    \/ Close(t)
    \/ Unregistered(t)
    \/ UnregisterFails(t)
    \/ Disconnected(t)
    \/ DisconnectAllReturns(t)

Next == \E t \in callers : Step(t)

Spec == Init /\ [][Next]_vars

---------------------------------------------------------------------------
(* Properties, of a registry whose calls do not overlap.                   *)
Alone == \A t, u \in callers : t = u

(* Every client that register() made can be got from the registry, or its  *)
(* close() was called: none is dropped while it is open.                   *)
NoneDropped ==
    Alone => 1 .. made \subseteq ClientsOf(connections) \cup closing

(* What it rests on: a call alone closes the client of an entry that is    *)
(* still there, and disconnectAll has what is left of the Map to go.       *)
Closing(t) == pc[t] \in {"close", "closed", "closeFailed"}

AloneInv ==
    Alone => \A t \in callers :
        /\ pc[t] = "idle" => rest[t] = <<>>
        /\ rest[t] # <<>> \/ pc[t] = "disconnectAll" => rest[t] = connections
        /\ Closing(t) =>
            /\ \E i \in DOMAIN connections : entry[t] = connections[i]
            /\ entry[t].client \in closing
            /\ rest[t] # <<>> => entry[t] = Head(rest[t])

RegistryInv ==
    /\ AloneInv /\ NoneDropped
    /\ ClientsOf(connections) \subseteq 1 .. made
    /\ \A t \in Tasks : ClientsOf(rest[t]) \subseteq 1 .. made
===========================================================================
