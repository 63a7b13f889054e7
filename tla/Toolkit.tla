------------------------------ MODULE Toolkit -------------------------------
(***************************************************************************)
(* The parts of the toolkit that need no connection of their own: the      *)
(* settings, the current client and the sessions, the builders of          *)
(* statements, the functions on records, relations and files, the index    *)
(* definitions, and the tools that work on migration and schema files.     *)
(*                                                                         *)
(* They share nothing but the event loop, so a behaviour uses one of them, *)
(* as in ClientObjects.                                                    *)
(***************************************************************************)
EXTENDS Integers, Sequences

CONSTANTS
    Tasks,
    MaxLoads, MaxEdits, MaxClears,
    MaxClients, MaxScopes,
    Kinds, MaxCalls, MaxFaults,
    MaxQueries, MaxMethods,
    PageSize, MaxLost,
    MaxSquashes, MaxChanges,
    MaxDatabases,
    MaxMade, MaxSteps, MaxRuns,
    MaxAttempts, MaxUses,
    MaxOpened, MaxAsked

VARIABLES
    used,       \* the part that this behaviour is about
    kind, env, dotenv, config, edits, clears, loads, cached, promise, calls,
    raced,
    current, clients, scopes, levels, nested,
    builder, asked, rows, requests, called, faults,
    queries,
    limitValue, offsetValue, havingConditions, params, aggregations,
    groupByFields, page, methods,
    table, jobs, lost,
    files, originals, schema, applied, failed, whole, replaced,
    declared, store, check, report, changes, began, since,
    built, definition, stored, refused, phase,
    made, query, steps, askers, removals, runs,
    objects, uses, started,
    websocket, sessions, own, token, authType, asking, apart, asks

Parts == {"settings", "scopes", "crud", "query", "capabilities", "records",
          "squash", "hooks", "echo", "graph", "buckets", "sessions"}

Settings == INSTANCE Settings
Scopes == INSTANCE ContextScopes
Crud == INSTANCE CrudBuilders
Query == INSTANCE QueryBuilder
Capabilities == INSTANCE Capabilities
Records == INSTANCE Records
Squash == INSTANCE Squash
Hooks == INSTANCE SchemaHooks
Echo == INSTANCE SchemaEcho
Graph == INSTANCE Graph
Buckets == INSTANCE Buckets
Sessions == INSTANCE Sessions

(* What each part requires of its constants.                               *)
ASSUME PartsAssumption ==
    /\ Settings!SettingsAssumption
    /\ Scopes!ScopesAssumption
    /\ Crud!BuildersAssumption
    /\ Query!BuilderAssumption
    /\ Capabilities!CapabilitiesAssumption
    /\ Records!RecordsAssumption
    /\ Squash!SquashAssumption
    /\ Hooks!HooksAssumption
    /\ Echo!EchoAssumption
    /\ Graph!GraphAssumption
    /\ Buckets!BucketsAssumption
    /\ Sessions!SessionsAssumption

settingsVars ==
    <<kind, env, dotenv, config, edits, clears, loads, cached, promise, calls,
      raced>>
scopesVars == <<current, clients, scopes, levels, nested>>
crudVars == <<builder, asked, rows, requests, called, faults>>
queryVars == <<queries>>
capabilitiesVars ==
    <<limitValue, offsetValue, havingConditions, params, aggregations,
      groupByFields, page, methods>>
recordsVars == <<table, jobs, lost>>
squashVars == <<files, originals, schema, applied, failed, whole, replaced>>
hooksVars == <<declared, store, check, report, changes, began, since>>
echoVars == <<built, definition, stored, refused, phase>>
graphVars == <<made, query, steps, askers, removals, runs>>
bucketsVars == <<objects, uses, started>>
sessionsVars ==
    <<websocket, sessions, own, token, authType, asking, apart, asks>>
vars == <<used, settingsVars, scopesVars, crudVars, queryVars,
          capabilitiesVars, recordsVars, squashVars, hooksVars, echoVars,
          graphVars, bucketsVars, sessionsVars>>

(* A part that is not used begins in one of its initial states, any one.   *)
Init ==
    /\ used \in Parts
    /\ Settings!Init
    /\ used # "settings" =>
        /\ kind = "string" /\ env = "unset"
        /\ config[1] = Settings!Missing
    /\ Scopes!Init
    /\ Crud!Init
    /\ used # "crud" => builder = Crud!New("read", FALSE, Crud!NoRef, builder.data)
    /\ Query!Init
    /\ used # "query" => queries[1].calls = <<Query!Call("select", "a")>>
    /\ Capabilities!Init
    /\ Records!Init
    /\ used # "records" => DOMAIN table = {}
    /\ Squash!Init
    /\ used # "squash" =>
        originals = <<Squash!File(<<Squash!Define("u")>>, <<>>),
                      Squash!File(<<Squash!Define("t")>>, <<>>)>>
    /\ Hooks!Init
    /\ used # "hooks" =>
        ~store.stored /\ \A f \in Hooks!Files : ~declared[f].there
    /\ Echo!Init
    /\ Graph!Init
    /\ used # "graph" => Len(made) = 2
    /\ Buckets!Init
    /\ used # "buckets" => \A k \in Buckets!Keys : objects[k] = Buckets!Absent
    /\ Sessions!Init
    /\ used # "sessions" => websocket

Aside(part, partVars) == IF used = part THEN TRUE ELSE UNCHANGED partVars

Next ==
    /\ UNCHANGED used
    /\ Aside("settings", settingsVars)
    /\ Aside("scopes", scopesVars)
    /\ Aside("crud", crudVars)
    /\ Aside("query", queryVars)
    /\ Aside("capabilities", capabilitiesVars)
    /\ Aside("records", recordsVars)
    /\ Aside("squash", squashVars)
    /\ Aside("hooks", hooksVars)
    /\ Aside("echo", echoVars)
    /\ Aside("graph", graphVars)
    /\ Aside("buckets", bucketsVars)
    /\ Aside("sessions", sessionsVars)
    /\ \/ used = "settings" /\ Settings!Next
       \/ used = "scopes" /\ Scopes!Next
       \/ used = "crud" /\ Crud!Next
       \/ used = "query" /\ Query!Next
       \/ used = "capabilities" /\ Capabilities!Next
       \/ used = "records" /\ Records!Next
       \/ used = "squash" /\ Squash!Next
       \/ used = "hooks" /\ Hooks!Next
       \/ used = "echo" /\ Echo!Next
       \/ used = "graph" /\ Graph!Next
       \/ used = "buckets" /\ Buckets!Next
       \/ used = "sessions" /\ Sessions!Next

Spec == Init /\ [][Next]_vars

---------------------------------------------------------------------------
(* What each part promises when it is used; that its variables have their  *)
(* types is a part of that.                                                *)

(* settings.ts: a cleared cache is read again, and the first source that   *)
(* sets a setting wins.                                                    *)
SettingsHold ==
    used = "settings" =>
        Settings!TypeOK /\ Settings!ClearedIsReread /\ Settings!FirstWins

(* context.ts, session.ts and connection/auth.ts: scopes disposed of one   *)
(* inside the other put back what was current; sessions do not touch each  *)
(* other, and the manager's token is the connection's.                     *)
ClientsHold ==
    /\ used = "scopes" => Scopes!TypeOK /\ Scopes!ContextRestored
    /\ used = "sessions" =>
        Sessions!SessionsApart /\ Sessions!TokenIsConnections

(* crud/*.ts: a read answers what its builder was asked, whatever was      *)
(* called on the builder since, and a write that returns has changed the   *)
(* one record, as asked.                                                   *)
CrudHolds ==
    used = "crud" =>
        Crud!TypeOK /\ Crud!ReadAnswersTheCalls /\ Crud!WritesAsAsked

(* query/builder.ts and capabilities/*.ts: each of several queries derived *)
(* from one renders its own calls, and the server reads the text as they   *)
(* meant it; pages are told as they were asked, and every HAVING condition *)
(* has its own value.                                                      *)
QueriesHold ==
    /\ used = "query" =>
        Query!TypeOK /\ Query!RendersItsCalls /\ Query!TouchesWhatWasAsked
    /\ used = "capabilities" =>
        /\ Capabilities!TypeOK
        /\ Capabilities!PageInfoTrue
        /\ Capabilities!HavingBound

(* query/crud.ts and batch.ts: what a loop, a batch or a write has done    *)
(* when it returns or throws, what a read tells, and that counted pages    *)
(* cover the table.                                                        *)
RecordsHold ==
    used = "records" =>
        /\ Records!TypeOK
        /\ Records!LoopsArePrefixes
        /\ Records!BatchesAccount
        /\ Records!WritesAreTold
        /\ Records!PagesCoverTable
        /\ Records!ReadsTell

(* graph.ts and graphQuery.ts: a query walks as many hops as its steps     *)
(* say, a count counts its rows, and a removed relation is gone.           *)
GraphHolds ==
    used = "graph" =>
        Graph!HopsReached /\ Graph!CountTellsRows /\ Graph!RemovedIsGone

(* bucket.ts under retry.ts: done once or several times, a call leaves the *)
(* bucket as it means to, and it is attempted as often as it may be.       *)
BucketsHold ==
    used = "buckets" =>
        Buckets!TypeOK /\ Buckets!AttemptsAccount /\ Buckets!RetriesDoOnce

(* table.ts, sql.ts and parser.ts: an index survives its way to a database *)
(* and back.                                                               *)
EchoHolds ==
    used = "echo" =>
        /\ Echo!BuiltIsAccepted
        /\ Echo!CopiesAreEqual
        /\ Echo!EchoIsDeclared

(* squash.ts and hooks.ts: a squashed directory makes the schema of the    *)
(* original one and a squashed file's DOWN takes its UP back; a check      *)
(* reports the tables whose names only the files or the snapshot have.     *)
FilesHold ==
    /\ used = "squash" =>
        /\ Squash!TypeOK
        /\ Squash!SquashKeepsEffect
        /\ Squash!SquashedDownUndoes
    /\ used = "hooks" => Hooks!TypeOK /\ Hooks!NamesCompared
=============================================================================
