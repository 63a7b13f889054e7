# Verification of surql

surql is a TypeScript library and command line tool for SurrealDB. It connects
and signs in, builds and runs queries, buffers transactions, follows live
queries, caches results, and evolves schemas with versioned migrations, in one
database or in several. This directory holds TLA+ models of the parts of it that
keep state across an `await`, that talk to a server which may fail, or that
several tasks or processes share; TLC checks them on small instances, and TLAPS
proves the central facts about the migration engine, transactions, the
connection manager, orchestration, the cache, live queries, the registry,
scopes, sessions, settings, buckets, indexes, record functions, builders,
queries, graphs and the schema reconciler for instances of every size.

Paths below are relative to `src/src/` unless they begin with `docs/`.
`PROJECT.json` maps every definition to the lines it models.

## The system

| Component | State it keeps | Operations | What is hard | What makes it correct |
|---|---|---|---|---|
| Migration runner: `migration/executor.ts`, `history.ts`, `rollback.ts`, `cli/migrate.ts` | the schema and the table `_migrations` in the database; the plan of a call in memory | up, down, to a target or so many steps; rollback | every statement and every record is a request of its own: failures and crashes between them, several processes, a lost reply, a prompt that waits | what is recorded is in effect; no version is skipped; reports are truthful; a repeated call finishes the work |
| Migration files: `migration/discovery.ts`, `models.ts` | a directory | discover, load, validate | `.surql` and `.ts` files behave differently | `down()` takes back what `up()` did |
| Diff and generation: `migration/diff.ts`, `generator.ts`, `rollback.ts` | none | compare two schemas, render the migration both ways, judge its rollback | what the server reads back is not what was sent; several instances do it at once; a script is cut off | the incremental path ends where the full script does; no spurious difference; what is called safe to roll back is |
| Schema: `schema/*.ts` | declarations, a registry | declare, render, parse, validate | as above; the engine fills in defaults of its own | as above; what is pulled from one database is the same in the next |
| Squash, versioning, drift hooks: `migration/squash.ts`, `versioning.ts`, `hooks.ts` | snapshots | squash, snapshot, compare, check | order and dependencies of statements | a squashed migration has the effect of its parts |
| Schema watcher: `migration/watcher.ts` | a debounce timer, a flag | start, stop, react to file events | events during a check, overlapping checks | every change is followed by a check that saw it |
| Transaction: `connection/transaction.ts`, `query/batch.ts` | a buffer and a state | begin, execute, commit, cancel | calls during the `await` in `commit()`, lost replies, the envelope's offsets | atomic: the batch whole and once, or not at all |
| Connection manager: `auth/connection.ts` | the current handle, the promise of an attempt, tokens and session | getConnection, connect, signin, authenticate, invalidate, close | single flight, reconnection on expiry, `close()` racing a connection | one attempt at a time; nobody waits for ever; a handle is given out when usable |
| Registry, contexts: `connection/registry.ts`, `context.ts` | named clients, a default | register, unregister, disconnectAll, scopes | `close()` failing or slow in the middle of a loop | no open client is forgotten |
| Live queries: `connection/streaming.ts` | a map of handles with their subscribers | live, subscribe, kill, killAll | `KILL` failing, `killAll` overlapping `live`, two handles under one key | nothing runs on the server unlisted; events reach their subscribers |
| Cache: `cache/*.ts` | a Map with expiry and LRU order | get, set, getOrSet, invalidate, clear | `getOrSet` awaits between its read and its write | what was invalidated stays gone |
| Orchestration: `orchestration/*.ts`, `cli/orchestrate.ts` | the results of a deployment | deploy by four strategies, health checks | environments in parallel, one of them failing, deploying again | stops at the first failure, accounts for all it did |
| Settings: `settings.ts` | the cache and the promise of a load | load, get, clear | a load under way when the cache is cleared; four sources; files that cannot be read | the first source that sets a setting wins; after a clear everything is read again |
| Client, sessions, auth manager: `client.ts`, `sessions/`, `connection/auth.ts` | the server's sessions, a token and its type | newSession, use, signin, fork, close; signup, authenticate, invalidate | answers that are lost or come in another order | the token is the connection's; sessions do not touch each other |
| CRUD: `crud/` | a builder's fields and its live arrays | build one statement, send it, map the answer | the builder is changed while it executes, and executed again; the answer is lost, empty or unmappable | a read answers what it was asked; a write that returns was applied once |
| Query builder, records: `query/builder.ts`, `crud.ts`, `batch.ts`, `executor.ts`, `results.ts` | immutable queries; none | derive and render; create, update, page through and batch records | queries derived from each other; loops and batches cut short | each query renders its own calls; a loop leaves a prefix; pages cover the table |
| Graph: `query/graph.ts`, `graphQuery.ts` | a query's path | relate, traverse, count | a shared, growing query | a depth is so many hops; `count()` tells of `execute()`'s rows |
| Capabilities: `capabilities/` | limit, offset, conditions, parameters | page, having, aggregate, group | calls in any order | page information is true; conditions keep their values |
| Files: `files/bucket.ts`, `utils/retry.ts` | the bucket's objects; the attempts of a call | put, get, copy, rename, list, retried | a retry of what was already done | done once or several times comes to the same; attempts are counted |
| Types, utilities, CLI | none to speak of | text, coercion, prompts | | |

They interact by calls: the client owns a connection manager; transactions, live
queries, CRUD and the migration runner take the handle it gives out; the
orchestrator makes a client for each environment and runs the migration runner
in it; the command line wraps the runner and the orchestrator; the watcher and
the reconciling application call the parser and the differ. What processes share
is the database alone.

## The models

A JavaScript program runs each stretch between two awaits without interruption,
so an action is such a stretch, and the actions of different tasks interleave.
What the server does with a request is an action of its own, apart from the
continuation that receives the answer: replies can thus be late or lost. The
server, the clock and the user are external.

**Migrations, MigrationRunner** (`MigrationRunner` is the core). `Migrations`
has what the files contain: a migration's two sections as sequences of guarded
(`IF NOT EXISTS`) or bare statements, what `loadMigration` makes of them
depending on the format, and the plan by history, target and steps. A runner is
a process: `Invoke` (a command with its target and steps),
`EnsureMigrationTable`, `GetAppliedVersions`, `Confirm` or `Decline` (the
prompt), then for each migration `ExecuteMigration`, `ExecuteStatement` once per
statement (the server commits them one by one), `QueryReply`, and
`RecordMigration` or `RecordRefused` (the unique index on `version`); `Return`
in the end. `StatementFault`, `RecordReplyLost`, `RequestFault` and `Crash` may
come in at every request. `schema` and `history` are the database; everything
else is the memory of a call and is lost with it.

**SchemaLedger** is what the runner promises: a ledger of versions that are
added above and taken from the top, where only the version next to the top may
be half built. `KeepsLedger` says that `MigrationRunner` implements it, under
the mapping `recorded <- history`, `built <-` the objects of each version that
exist.

**Transaction, AtomicBatch.** One object shared by tasks. `Begin`, `Execute`,
`UpsertMany` (the loop of `query/batch.ts`, one `execute()` after the other),
`Commit` in four steps (send, server, and the three ways to come back),
`Cancel`. The per-statement envelope and `inspectCommitResponses` with its
offsets are operators. `AtomicBatch` is the promise: a queue that takes effect
whole and once, or not at all. `IsAtomicBatch` is the refinement, for a
transaction of one task.

**ConnectionManager.** `getConnection` and its shared promise, the stages of an
attempt (open, sign in, use), `signin`, `invalidate`, `close`, token expiry.
Handles are numbered, so that one that was replaced stays visible. `signup` and
`authenticate` are signins as a user: they set the same fields. What a call does
after its handle is given out is one request.

**Orchestration.** The four strategies over the positions of a plan, each of
which drives one database up through its versions: connect, read the history,
apply, close. The coordinator's verification and the command line's call again
are in it. Each environment keeps an instance of `SchemaLedger` too.

**ClientObjects** composes `Cache`, `LiveQueries`, `ConnectionRegistry` and
`SchemaWatcher`: four objects without shared state, so a behaviour uses one of
them (variable `used`) and the others rest. A behaviour of their free
interleaving projects onto such behaviours, because no action of one reads what
another writes and every property is about one object. What the SDK's `live()` answers is
a choice of each behaviour of `LiveQueries` (`named`): `String()` of it
(`connection/streaming.ts:116`) is the id of the query, as the tests mock it, or
the same text for every query, as it is understood to be with the release that
`deno.lock` pins. The SDK is not in this repository.

**SchemaCatalog, SchemaDiff, SchemaReconciler.** `SchemaCatalog` has what the
server keeps and what a DDL statement does to it, on a server that refuses to
define what exists (`strict`, as SurrealDB from 2.0 on does) and on one that
replaces it, together with what the parser makes of `INFO`; `SchemaDiff` the
emitter, the differ, the generated UP and DOWN and the judgement of a rollback.
Text is abstracted to records, the arrays of a definition to functions from
names, as the code does with its Maps. `SchemaReconciler` runs them as instances
of an application do, which start against one database at the same time: read
the names, read each table, compare, send the script, statement by statement.
The library has the steps and not this loop, so its order is external.

**Toolkit** composes twelve parts in the same way as `ClientObjects`; they share
the event loop and nothing else.

* `Settings`: tasks call `getSettings()`, each load reads the environment, the
  `.env` file and the candidates of a config file in turn, with awaits between;
  the environment and the files are edited, the cache is cleared. One setting
  stands for all of a kind (`pickString`, `pickBoolean`, ...), a value for how
  `parseEnvValue` reads it.
* `ContextScopes`: `setDb`, `connectionScope` and `connectionOverride` opened
  and disposed of inside one another, with an await in `Closed` and a failing
  close.
* `Sessions`: the sessions of one connection and the `AuthManager` on it; a call
  is served, then answered, perhaps in another order or never.
* `CrudBuilders`: one builder of each kind, called on while two executions of it
  run. A statement is a record of what its text says; the table, the server's
  reading of the statement, lost answers and mappers are in it.
* `QueryBuilder`: queries derived from each other, what each renders, and which
  rows the server then selects or changes (AND binds tighter than OR).
* `Capabilities`: the four capability builders of one query.
* `Records`: the functions of `query/crud.ts` and `batch.ts` over a table, with
  requests and replies that are lost, and items that the server refuses.
* `Graph`: a graph of two node tables and one edge table, walked as SurrealDB
  walks it: from a node to edges, from an edge to nodes.
* `Buckets`: the operations on files inside `retry()`, each attempt a statement.
* `SchemaEcho`: an index definition from its builder through `generateIndexSql`,
  the engine's defaults and `parseIndex`, and into the next database.
* `Squash`: a directory of migrations, ranges of it squashed, databases that
  have run some of it. The DOWN sections are in undo order or in UP's.
* `SchemaHooks`: the drift check reading files that are edited meanwhile. What
  each file was since the check began is a history variable.

## The runs

`tlc -config X.cfg M` in this directory. Unless said otherwise a deadlock is an
error.

| Run | Module, cfg | Shows |
|---|---|---|
| `migration_up` | MCMigrationRunner, MigrationUp | two processes that go up at once, over a guarded and a bare migration, with two faults of any kind: `RecordedInEffect`, `ReportsSound`, and the inductive invariant `UpInv` (with `NoGaps`) |
| `migration_serial` | MCMigrationRunner, MigrationSerial | one process, up and down, to every target and cut short, three versions and three faults: `NoGaps`, `ReturnedMeansDone`, the ledger, `EveryCallEnds`, `RetriesConverge` |
| `migration_surql_down` | MCMigrationRunner, MigrationSurqlDown | violation, see below |
| `transaction` | MCTransaction, Transaction | one and two tasks, batches of one and two statements: the atomic batch, and what holds without exclusivity |
| `connection` | MCConnectionManager, ConnectionManager | two tasks, three handles, a fault and an expiry: single flight, every call settles, the first handle given out is usable, `isAuthenticated()` is true of the connection until a token expires |
| `orchestration` | MCOrchestration, Orchestration | seven plans over three environments: a repeated environment, a smaller last batch, a batch size of 0, a canary alone, no environment at all; two faults; deployed again until done |
| `client_objects` | MCClientObjects, ClientObjects | two tasks on each of the four objects |
| `toolkit` | MCToolkit, Toolkit | two tasks on each of the twelve parts, one at a time: one property for each group of parts |
| `delete_answers` | CrudBuilders, DeleteAnswers | violation |
| `live_events` | LiveQueries, LiveEvents | violation |
| `schema` | MCSchemaReconciler, SchemaReconciler | two instances, nine pairs of a live and a declared schema, both kinds of server, a crash |
| `schema_drift` | MCSchemaReconciler, SchemaDrift | violation |

Bounds, and why they are enough. Two runners suffice for the races: each rule of
the code concerns one call against what some other one did between two of its
awaits. Three versions let a plan have a first, a middle and a last entry, and a
target strictly inside; two statements a version let a script be cut in the
middle. Two or three faults let a failure hit the call that repairs an earlier
failure. A cache of two entries and three keys evicts; three clients under two
names let a name be reused; three watcher changes come before, during and after
a check. Three handles let one be replaced twice. In the schema run, a table
gains, loses and keeps columns; a type changes; tables, edges and buckets come
and go; two pairs differ in nothing. `MaxFaults`, `MaxHandles`, `MaxExpiries`,
`MaxQueries`, `MaxClients`, `MaxChanges`, `MaxErrors`, `MaxTime`, `MaxVersion`
and `MaxBuffer` bound counters that the code leaves open and limit nothing else.

In the toolkit, two loads with one edit and one clear (`MaxLoads`, `MaxEdits`,
`MaxClears`) put a clear before, into and after a load. Three scopes over four
clients (`MaxScopes`, `MaxClients`) nest a scope in an override in a scope. Two
calls on a builder (`MaxCalls`), of which any may come between the two steps of
either execution, and one lost answer (`MaxFaults`). Three queries
(two are derived, `MaxQueries`) are a base and two siblings, or a chain of
three. Four calls on the capabilities (`MaxMethods`) set, page, clear and set
again. Pages of two
records (`PageSize`) over at most three make a full page and a partial one; one
request or reply is lost (`MaxLost`). Two squashes (`MaxSquashes`) squash a
squashed file; two edits (`MaxChanges`) come before and after the reading of one
file. Three databases (`MaxDatabases`) copy a copy. Three edges (`MaxMade`), two
calls on a graph query (`MaxSteps`) and two requests (`MaxRuns`) let an edge be
added or removed between two readings and a depth of two be reached. Two
attempts (`MaxAttempts`) have a first and a last, two uses of a bucket
(`MaxUses`) overlap or follow one another. Two sessions beside the connection's
own (`MaxOpened`) are a session and its fork, and four calls (`MaxAsked`) open,
fork, sign in and close. The tasks of the toolkit are interchangeable
(`SYMMETRY`).

`CHECK_DEADLOCK FALSE` stands where the modelled life ends: a transaction that
is over, a connection out of handles, an object whose clients, queries or
changes are used up, a part of the toolkit that has made its calls, instances
that have reconciled.

Fairness is weak fairness of what the runtime does by itself: a continuation
that is ready is run, the server answers (or a failure is the answer), a timer
fires, the prompt of `down` is answered, and in `SchemaReconciler` an instance
that failed is started again, as a supervisor does. Nothing is assumed of users,
faults, crashes, file events or new calls. `RetriesConverge` and
`RedeploysConverge` state as hypotheses that somebody keeps calling.

## What the properties say

*Migrations.* `RecordedInEffect` relates the history to the schema: the record
is written only after the last statement, whatever fails. `NoGaps` needs the
loop to stop at its first failure, the plan to be sorted, and targets and steps
to take a lower part of it. `ReportsSound`: of two processes that execute one
migration, only one may claim it. `ReturnedMeansDone` is about calls without a
step limit. `RetriesConverge`: whatever half-built state earlier calls left,
going up again repairs it, when statements are guarded.

*Transactions.* `CommittedMeansApplied` and `BatchesArePrefixes` hold for two
tasks too; `ResultsMatchQueue` and `IsAtomicBatch` for one.

*Connection.* `SingleFlight`, `CallsSettle`; `HandedOutUsable` and
`AuthenticatedUntilExpiry` carry the conditions under which the code keeps them.

*Orchestration.* `SuccessMeansMigrated`, `StopsAtFailure`, `ResultsAccount`
relate results, databases and the order of positions; `KeepsLedgers` lifts the
runner's refinement to every environment.

*Objects.* `InvalidatedIsGone`, `NoneDropped`, `EveryChangeReported`.
`NothingRunsUnlisted`: with handles that are named by ids, a query that runs and
that `killAll()` would not find is one whose own request or reply was lost, not
one that another call's failure has unlisted; with handles of one name, every
query ever created runs, and one of them at the most is listed.

*Schema.* `ReconciledMeansDeclared` compares the path of the differ with the
full script of the emitter, element by element; `NeverStepsBack` that no
interleaving of two instances removes what is declared or defines what is not;
`NoSpuriousDrift` is the round trip of emitter, server and parser;
`SafeRollbackRestores` executes UP and DOWN of what `analyzeRollbackSafety`
calls SAFE; `Converges` that a crashed or beaten instance finishes when started
again.

*Toolkit.* Each property joins what its parts promise, under the name the part
gives it. `SettingsHold`: `ClearedIsReread`, a load that nobody's clear
overlapped returns what the sources were after the last clear; `FirstWins`.
`ClientsHold`: `ContextRestored`, nested scopes put back what was current,
through failing closes and `setDb` inside; `SessionsApart` and
`TokenIsConnections`. `CrudHolds`: `ReadAnswersTheCalls`, a read answers the
calls made before its execution, whatever came after; `WritesAsAsked`, what
returns has changed one record, as asked. `QueriesHold`: `RendersItsCalls`, a
derived query leaks nothing into its siblings; `TouchesWhatWasAsked`, the server
selects what was meant; `PageInfoTrue` and `HavingBound`. `RecordsHold`: loops
leave prefixes, batches all or what the code admits, pages walked on `hasMore`
cover the table. `GraphHolds`: `HopsReached`, `CountTellsRows`, `RemovedIsGone`.
`BucketsHold`: `AttemptsAccount`, `RetriesDoOnce`. `EchoHolds`:
`BuiltIsAccepted`, `CopiesAreEqual`, `EchoIsDeclared`. `FilesHold`:
`SquashKeepsEffect`, a squashed directory makes what the original one makes;
`SquashedDownUndoes`, a squashed DOWN takes its UP back, when the DOWN section
of each part does so from its last statement to its first; `NamesCompared`, the
drift check reports the tables whose names only the files or only the snapshot
had all the time, and none that both or neither had, while files are edited
under it. That is a comparison of names. `migration/hooks.ts:10-13` and
`:131-133` say that it is one of contents, by SHA-256; it is not, see below.

## What is proved

`MigrationRunnerProofs`, for any set of runners, any finite set of versions, and
any number of statements and faults:

* `TypeCorrect`: `Spec => []TypeOK`.
* `UpInvariant`: `Spec => []UpInv`, under `UpOnly` (the commands given go up)
  and `Additive` (no `up()` removes anything). From it `RecordedStaysInEffect`,
  `HistoryHasNoGaps`, `ReportsAreSound` and `MigrateUpCompletes`.

`RecordedInEffect` is not inductive: that the record may be written depends on
what was executed so far (`ExecutedInEffect`: every statement before `at` is in
effect unless one was refused, and in the record phase all are). `NoGaps` is not
inductive either: it depends on the plans that runners hold in memory, some of
them stale (`PlanHasNoGaps`: what lies below an entry of a plan is in the plan
or recorded, and the migration under way is the lowest one left).
`PlanIsComplete` does the same for what a call was asked. The proof has one
lemma for each action that disturbs the invariant (`GetAppliedVersionsStep`,
`ExecuteMigrationStep`, `ExecuteStatementStep`, `StatementFaultStep`,
`InvokeStep`, `WriteRecordStep`), one for the steps that only move `pc`
(`PcStep`), and lemmas about plans (`PlanSkipsNothing`, `PlanLeavesNothing`) and
files (`UpDefines`). `Additive` is needed: a later migration that removes an
earlier one's object leaves a recorded version out of effect, rightly so.

The same module, for one runner that goes up and down (`Serial`), any finite set of
versions and any number of faults and crashes between them, with migrations whose `down()` undoes their `up()` (`Invertible`: the UP sections
only define, the DOWN sections remove the same, no two migrations define the
same object). The run `migration_serial` is such a case:

* `RunnerKeepsLedger`: the runner implements `SchemaLedger`. Every step, a
  failing one and a crash among them, is one of the ledger or a stutter: only
  the lowest unrecorded and the highest recorded migration are ever in parts.
* `SerialHistoryHasNoGaps`, `SerialCallsComplete` and `SerialDownReverts`.

They rest on `SerialInv`. A plan continues the history, from the lowest version
not recorded up or from the highest one down (`PlanContinues`), and has what
the call was asked (`PlanSuffices`); what was executed of the query is there,
or gone (`ExecutedTookEffect`). The hypotheses are what the properties speak of
and not the prover's wishes: two runners, one of them going down, do make gaps,
since their plans are stale and nothing locks the ledger (`executor.ts:60`); and
a `.surql` file is not invertible, its `down()` being a comment, which the run
`migration_surql_down` shows to violate `DownReverts`. What the author of a
migration writes in it is not the library's to guarantee.

`TransactionProofs`, for any finite set of tasks, any batches and widths, and
any number of statements and faults:

* `CommittedIsTrue`, `CommittedBatchesArePrefixes` and `EndedForGood`, for tasks
  that call one object in any order. They follow from `BatchInv`: the buffer is
  what was accepted, in order (`BufferIsQueue`); a request under way holds a
  prefix of it, since `execute()` may append during the `await`
  (`SentIsPrefix`); what the server answered without a refusal was applied
  (`CleanIsApplied`). Without the last two, nothing would relate what the server
  has to what the object says.
* `TransactionIsAtomic`: the object implements `AtomicBatch`. The mapping is of
  interest while one task holds the object (`Alone`): with several, `commit()`
  may send twice, and the mapping then gives up. `AloneInv` adds that a task
  that has the object to itself commits once (`OneCommit`).
* `TransactionTypes`: the types of all variables, what envelopes and their
  results are among them. The results are flattened with a fold of the
  community modules, which has a unique solution (`ConcatenationsExist`,
  `FlattenUnfolds`) and so a type (`FlattenType`).
* `ResultsAreTheQueues`: `commit()` returns one result per `execute()`, in
  order, and its error names the statement that failed. `SingleStatements` says
  that each text is one statement; where one is several, the offsets shift, as
  the code's own comment says (`transaction.ts:38`). The envelope of such a
  batch is the queue between BEGIN and COMMIT (`WireOfSingles`), so a clean one
  yields the queue (`CleanYieldsQueue`) and the cause of a failed one is found
  at its place (`CauseIsBlamed`). `ReplyInv` says of the one task that holds
  the object what the reply under way is the reply to.

`ConnectionManagerProofs`, for any finite set of tasks and any number of users,
handles and faults, from `ManagerInv`:

* `OneAttemptAtATime`: `connectionPromise` and the attempt are one.
* `HandlesAreUsable` needs that a handle of an attempt is as far as the
  attempt's stage says (`HandlesAsStaged`), and that a settled connection is one
  whose attempt has finished (`ConnectedMeansDone`).
* `AuthenticatedIsTrue` is about a client that one task uses: `SoloInv` says
  what the single outstanding request can change.

`OrchestrationProofs`, for any environments, any finite set of versions, any
plans (repeated names, empty lists and batch sizes of 0 among them) and any
number of faults:

* `ReportedIsMigrated`, from `DeployInv`: what a plan of migrateUp lacks is
  recorded (`PlansCover`), and an environment that is through has everything or
  has thrown (`ThroughMeansMigrated`).
* `DeploymentsKeepLedgers`: each environment's history implements
  `SchemaLedger`, whichever deployments overlap, fail or die: every step is one
  of the ledger or a stutter.
* `FailureStops` and `AllAccountedFor`, from `RunInv`: a batch is the run of
  positions right behind the results, and nothing behind it was touched
  (`InOrder`); each result is that of its position (`ResultsInPlace`); while the
  loop goes on nothing has failed, and a rolling batch starts at a multiple of
  its size (`LoopInv`). The arithmetic of batches is in lemmas of its own
  (`BatchesAreOrdered`, `BatchHasOneNumber`, `RollingBatchIsFull`).

`ClientObjectsProofs`, for any finite sets of tasks, keys, names and queries and
every bound. Each object has its variables' types and its invariant proved
together, and the composition only adds which object a behaviour is about:

* `InvalidatedStaysGone`, from `CacheInv`: what a task holds between its read
  of the database and its `set()` is as new as the key's last removal, no
  removal being counted while somebody computes that key. The Map is a sequence
  of entries with distinct keys in the order of their last use; what removing
  one of them leaves (`RemovedAt`, `ShiftedIsOneToOne`, `CacheWithout`) is
  proved of the sequence itself.
* `RunningIsListed`, from `LiveInv`, which holds for live, kill and killAll
  that overlap and fail in any way: a query that was answered and not entered
  yet is nobody else's (`Unshared`, `NewInFlight`); one that runs, and that no
  lost request was about, is listed and active or on its way, and one whose
  `KILL` was answered does not run (`RunningKept`). Where handles are not named
  by ids none is ever stopped (`NoneStopped`).
* `RegistryDropsNone`, from `RegistryInv`: a call that is alone closes the
  client of an entry that is still in the Map, and `disconnectAll` has still to
  go through exactly what is left of it. With overlapping calls clients are
  lost, see below, so `Alone` is part of the property.

`ToolkitProofs`, for any tasks and every bound, one part after the other:

* `ClientsAreKept`. For scopes (`ScopesInv`): the scopes that are left stand one
  on each level, in the order they were opened, each keeping what its level had,
  and the client of a scope is none of a level at or below its own; so popping
  the innermost one uncovers no client that is gone (`InnermostGoes`). For
  sessions and the token (`SessionsInv`): each session is what its own calls
  made of it; while calls of the auth manager do not overlap there is one such
  call, and once it is served it carries what the token is to become.
* `SettingsAreRight`, from `SettingsInv`: during a load that saw no edit the
  accumulator is what the sources that were read so far merge to
  (`MergedSoFar`), which is the first one's that sets the setting
  (`MergedIsFirst`); the promise that is kept was made after the last clear, and
  unless a load was under way at a clear so was what is cached (`CacheInv`).
* `BucketsAreRight`, from `BucketsInv`: attempts are counted before they are
  made, none follows an error that `retryIf` declines, and while a call is alone
  the bucket is what the call found or what it means. That doing it again comes
  to the same is `DoneAgain`, operation by operation: a rename whose file is gone
  is refused and changes nothing.
* `EchoesAreRight`, from `EchoInv`: every database holds the echo of the index
  the builder made, and what is parsed from an echo is emitted as the text of
  that echo. This is a fact about the emitter, the server and the parser for
  each kind of index (`PlainIsKept`, `SearchIsKept`, `MtreeIsKept`,
  `HnswIsKept`, `DiskannIsKept`).
* `NamesAreCompared`, from `HooksInv`, for any number of edits: what a check has
  found was in its files at some moment since it began, and what a file that it
  has read, or that was not there to be listed, had all the time is among it
  (`Listed`).
* `CapabilitiesAreRight`, from `CapabilitiesInv`: a HAVING condition has the
  parameter of its place (`HavingBound` alone would not tell that the next one's
  is free), and a page that stands is what limit and offset are.
* `GraphIsRight`, from `GraphInv`: the path of a query of deep steps leads, in
  every graph of relations, to the nodes that its steps are hops away (`Leads`),
  and what a call was told is the answer in a graph that it saw (`Answered`). A
  deep step is four steps of the path, an edge and a node twice (`DeepPath`,
  `TwoHops`); the walks along a path are a recursion over it, which is taken as
  a function of how much of the path was walked (`WalksUnfold`); and they are
  finitely many (`WalksAre`), so that they can be counted. Relations are
  numbered as they are made, so one that was removed does not come back
  (`Later`).

`CrudProofs`, for any tasks, any number of calls and losses, and any page size,
the functions over records, the builders of one statement and the queries
derived from one another:

* `RecordsAreTold`, from `RecordsInv`, which says of each call where it is. A
  loop's log is its items up to the one it is at, or to the next if that one's
  answer was lost (`LoopGoes`); a batch has written all or none, `upsertMany`
  what the server took (`BatchGoes`); a walk has the first so many of the rows
  there are, and its next reply is the page behind them (`WalkGoes`). A walk and
  a read are told apart from the table by `undisturbed`, which any write of
  another call ends. That the pages add up is `PageFollows`.
* `BuildersAreAnswered`, from `CrudInv`. A builder is the caller's for as long
  as it is kept, an execution is over a copy: the invariant is that the builder
  is at every moment what its calls have asked (`Mirrors`), and that a request
  holds the statement of the builder as it was when it was made, not as it is
  (`Requested`). From there it is a fact about the server for each kind of
  statement: what it answers to a rendered SELECT is the wanted records, ordered
  and cut (`ReadServed`), and what a write leaves is the table with one record
  as intended (`WriteServed`). A PATCH is the exception: its operations are an
  array that the builder and its executions share, so what was asked is told
  only as long as none was added.
* `QueriesAreRight`, from `QueriesInv` and `CapabilitiesAreRight`: a query's
  state is what the last call of each kind has set, and its conditions are those
  of its own `where` calls, in their order (`Remembers`; `RendersItsCalls` says
  nothing of a query that cannot be rendered yet, or of the field of a search
  that a later call disarms, and both matter to the queries derived from it).
  What the server makes of the text is two facts about its grammar. Terms that
  no OR stands before are one alternative (`AllRequired`), and each condition is
  such a term unless it is a disjunction without parentheses; that one, on its
  own and however often, lets through what meets a part of it
  (`EitherSuffices`). The joining of terms is a recursion again.

`ReconcilerProofs`, for any set of instances, any schemas, tables, columns and
buckets in any number, both kinds of server and any number of faults. A schema
is `Declarable`: finite, its names as the code's Maps have them, an edge's ends
left to the server; no table becomes an edge of the same name or the reverse
(`ReconcilerAssumption`; what happens otherwise is below).

* `GeneratedSchema`: the emitter's script, run on an empty database, defines
  what the schema declares, element by element.
* `AlwaysConsistent`, `TypeCorrect` and `NeverStepsBackHolds`, from `IInv`.
  `NeverStepsBack` is not inductive: what an instance has read, compared or sent
  is old by the time the server executes it. A statement `Fits` a schema if it
  defines a part of it or removes what is none; a fitting statement takes any
  database `Nearer` to the schema, whatever else was executed since. The
  invariant is that every statement on its way fits the code's schema, that what
  an instance has read so far, of any moment, yields none that does not
  (`Sane`), and that a column's table is there or is defined before it
  (`Placed`).
* `AlwaysEffective` and `MigratedIsDeclared`. To fit is not to suffice: the
  second half of the invariant is that what an instance has read shows every
  difference there is still (`Shows`: what others did since only took
  differences away), that its script has a statement against each, unless one
  was refused (`Settles`), and that an instance that is through left none. It
  holds of schemas whose types the parser knows (`Readable`). `file` and `bytes`
  are read as `any`: the run `schema_drift` shows what comes of it, and a `file`
  column that is declared as `any` is not seen to differ.
* `NoSpuriousDriftHolds`: a database that has what the code declares, nothing
  more, yields no difference, for the same schemas when no relation and no
  declared bucket states PERMISSIONS (`OpenEdges`, `OpenBuckets`), which are
  read back without their WHERE.
* `SafeRollbackRestoresHolds`, without these hypotheses: of the migration that
  is called SAFE the UP section fits the declared schema and the DOWN section
  the one before it, and both spare the tables and fields there were
  (`SafeIsRevertible`, `RunSpares`); so in the end exactly those are left,
  whichever statements the server refuses on the way (`RollbackRestores`).

Half of this proof is about sequences. The differ's list is a recursive
function over an enumeration that is chosen from a set (`Each`); that a run of
its statements preserves something is shown of the least position at which it
fails (`Reaches`, from the well-foundedness of the naturals, `WFMin`), since the
induction theorems cannot be instantiated here. TLC evaluates the hypotheses on
the schemas of the run (`ReconcilerAssumption`, `MCCasesReadBack`).

Each of these invariants was checked by TLC, in the instance of its module's
run, before it was proved (of the reconciler the first half, `IInv`; the others
quantify over all values, and the runs check what follows from them).

Only model-checked:

* Liveness (`EveryCallEnds`, `RetriesConverge`, `CallsSettle`,
  `RedeploysConverge`, `EveryChangeReported`, `Converges`), which TLAPS cannot
  do.
* Of the toolkit, the half of `FilesHold` about squashing: a squash is a fold
  over files and their statements, which needs lemmas about it as the differ's
  list did.
* What `commit()` returns for texts of several statements, and a runner that
  goes down beside another: the properties do not hold there.

## What does not hold

Each of these has a run with a counterexample.

* `migration_surql_down`: rolling back a `.surql` migration removes its record
  and nothing else, `down()` being a comment (`migration/discovery.ts:103`),
  while docs/migrations.md:87 says it reverts.
* `delete_answers`: a record that is deleted is reported as a failure, because
  `DELETE` answers with no records (`crud/write.ts:253`, comment at 247).
* `live_events`: nothing calls `notify()`; a subscriber's callback is never
  called (`connection/streaming.ts:114`).
* `schema_drift`: a field of type `file` or `bytes` is read back as `any`, and
  reported as modified ever after (`schema/parser.ts:256`, comment at 22).

These were met while modelling. The models have the behaviour (where one is
named below), and the properties say under which condition they hold.

* *Migrations.* The template that `migrate create` writes has its DOWN section
  executed by `up()` (`discovery.ts:97`). Two processes going up execute a
  recorded version's statements once more (`executor.ts:60`); the index keeps
  the record single. The differ's bare `DEFINE`s wedge a migration that was
  interrupted, on a strict server. A version added below recorded ones leaves a
  gap by design. `getAppliedMigrations` reads `appliedAt` where `applied_at` is
  stored (`history.ts:92`), on which `cli/migrate.ts:176` throws.
* *Transaction.* `commit()` called twice at once applies the batch twice
  (`transaction.ts:139`). A text of several statements shifts the results of
  what follows (`:55` against the comment at 38); `cancel()` during `commit()`
  succeeds and the batch is committed afterwards (`:183`,
  docs/v3-patterns.md:29).
* *Connection.* During a reconnection a call gets the new handle before `db.use`
  (`auth/connection.ts:156`), and after a `db.use` that failed, ever after.
  Sockets of replaced or half-made connections stay open (`:176`). `close()`
  racing `connect()` orphans a handle (`:511`). After an expiry the reconnection
  acts as the configured user while `isAuthenticated()` tells of the one who
  signed in (`:237`).
* *Orchestration.* An unhealthy canary is reported ROLLED_BACK with nothing
  rolled back, and the command line counts only FAILED (`strategy.ts:147`,
  `cli/orchestrate.ts:126`). A batch size of 0 or less never returns
  (`strategy.ts:100`; `RedeploysConverge` excludes it). An error of `close()`
  turns a successful environment into a failed one.
* *Registry, contexts.* A client registered while `disconnectAll` runs is left
  without a default; a name unregistered twice and registered in between loses
  its new client (`registry.ts:113`). Scopes disposed in another order than
  last-in-first-out restore a stale client (`context.ts:82`).
* *Live queries.* `live()` keeps the text of what the SDK answers
  (`connection/streaming.ts:116`). With the pinned release (2.0.2 in
  `deno.lock`), which is understood to answer a subscription object, that is one
  text for all: each handle takes the entry of the one before, `KILL '<text>'`
  (`:79`) is refused, and `killAll()` empties the Map while every query runs on.
  The tests answer an id instead (`test/streaming.test.ts:170`). Both are in the
  model. A `KILL` that fails leaves a dead handle in the Map (`:133`), or with
  `killAll()` a running query out of it.
* *Cache.* A key that is set again keeps its place in the LRU order
  (`backends.ts:63`). `getOrSet` is not single-flight, and a late fill undoes an
  invalidation that came while it computed.
* *Watcher.* Overlapping checks report out of order, and one may report after
  `stop()`.
* *Settings.* A load that failed is remembered (`settings.ts:512`), and a load
  under way when the cache is cleared fills it again. A text that reads as a
  boolean or a number is no string setting, so the lower source wins (`:95`,
  `:359`).
* *CRUD.* `onConflict` sends `LET` and `RETURN` and takes the first result, so
  it throws although it was applied (`upsert.ts:148`). The mapper runs after the
  write (`base.ts:171`), although `read.ts:454` says that it is validated
  before. `{_id, ...rest}` keeps `id` in the content (`write.ts:57`). PatchQL
  hands out its live array (`patch.ts:121`). `first()` leaves a limit of 1
  (`read.ts:480`); an offset without a limit is dropped (`read.ts:427`); a
  selection with aggregations is ignored; a parameter named `data` replaces the
  content.
* *Query builder.* Statements other than SELECT drop limits and searches without
  a word; a raw `a OR b` is joined with AND unparenthesised, which is why
  `TouchesWhatWasAsked` excepts it. Page information is wrong when the offset is
  no multiple of the limit, and `offset(0)` is refused.
* *Records.* `queryRecordsWrapped` passes no total, so `hasMore` is never true
  (`crud.ts:411`, `results.ts:116`). `upsertMany` outside a transaction goes on
  behind an item that failed; an item whose `id` has no colon creates a record
  of another id (`batch.ts:52` against `:94`). `upsertRecord` without an id
  always creates.
* *Graph.* An edge step of depth 1 stays on the edge while depth 2 reaches nodes
  (`graphQuery.ts:53`), and `traverseWithDepth` of two hops, like `out().out()`,
  goes from edge to edge, which reaches nothing (`graph.ts:55`).
  `getRelatedRecords` gives edges; `findMutualConnections` compares edges with
  nodes. `FETCH` is rendered before `LIMIT` (`graphQuery.ts:186`), which does
  not parse. A relation whose reply was lost and that is created again exists
  twice.
* *Files and retry.* A move that was done and whose reply was lost throws when
  retried, its file being gone. `maxAttempts` of 0 throws `undefined`. The
  caller of `putIfNotExists` cannot know who won.
* *Auth manager.* `authenticate` leaves the type as it was; overlapping sign-ins
  or a lost answer leave a token that is not the connection's
  (`connection/auth.ts:72`).
* *Indexes.* A column whose name holds a keyword (`research`, `unique_id`) is
  read as the keyword and cut there (`parser.ts:124`, `:447`); one named
  `distance` hides the metric; the capacity of an MTREE index is not read. An
  HNSW index whose EFC and M are unstated differs from its echo.
* *Squash, hooks.* A `.ts` file's whole text becomes UP statements; a squash
  that does not reach the newest version runs after newer ones; the originals
  stay, and the squashed file is pending where they were applied. Each DOWN
  section is reversed (`squash.ts:249`): one that is already in undo order, and
  whose statements depend on each other, is turned around and refused.
  `hooks.ts:10-13` says that the drift check "treats any schema file whose
  content differs from the snapshot as drifted", and `:131-133` that "the
  comparison is content-based (SHA-256 of UTF-8 bytes)". No line computes a
  hash, and a snapshot holds no text: names of tables are compared
  (`hooks.ts:164-208`), so a changed field, index or permission passes. The
  check also passes without a snapshot, and finds names in comments.
* *Schema.* A declared column named `<field>[*]` or `<field>.*` is skipped on
  the way back, as are the entries the server adds under such names
  (`schema/parser.ts:410-421`), and differs ever after; the model leaves both
  out. A new event on an existing table is only a comment, so it is also
  lost for good after a crash between the table's DEFINE and the event's. A
  modified field is redefined without `OVERWRITE`, which a strict server
  refuses. Fields added to existing tables lose their ASSERT, DEFAULT, READONLY
  and PERMISSIONS (`migration/diff.ts:80`). Changes of clauses, of an index's
  kind, of modes, of table permissions and of an edge's ends are not seen.
  ADD_INDEX and bucket changes count as SAFE and are not undone; a dropped
  bucket counts as SAFE. Permissions of buckets and edges are read back without
  the `WHERE` they were declared with, a difference ever after, and a bucket's
  cleared ones are never altered; the schema run therefore declares permissions
  on a table only, where they are not compared. `ifNotExists` covers `DEFINE
  TABLE` and not its columns (docs/v3-patterns.md:33). A table that becomes an
  edge of the same name is dropped and defined, by two instances in turns.
  `SafeRollbackRestores` is about definitions: a rolled-back ADD_TABLE takes the
  table's rows with it.

## Not modelled

* Text: argument parsing, printing, prompts and file listing of the CLI (`cli/`,
  but for the migration and deployment commands, which are actions of the runner
  and the orchestrator), visualisation and themes, expressions, hints, typed
  wrappers, function wrappers, coercion, reserved words. They keep no state
  between calls, and a model of them would spell out strings.
* `schema/validator.ts` and `registry.ts`, accesses and analyzers in emitter and
  parser, `compareSnapshots`, `aggregateRecords`: pure comparisons of records,
  in reach of an operator each.
* `shortestPath` calls a function that the database must have;
  `findMutualConnections` is described above.
* Caches: `set()` by the caller, statistics and key making. Connection: embedded
  engines and `info()`. Live queries over a reconnection. The server's own
  concurrency control is outside the code.

## Plan

Done, in this order: the migration engine with its first proofs; transactions;
the connection manager; orchestration over the ledger; the client objects; the
schema reconciler; the toolkit (settings, scopes, sessions, builders, records,
graphs, files, index definitions, squash, hooks).

1. Compose: a client that reconnects while a transaction, a live query or a
   migration holds its old handle.
2. Extend: the validator and the registry over the records of `SchemaCatalog`;
   accesses and analyzers in `SchemaEcho`; set() in `Cache`.
3. Prove that a squash has the effect of its parts. Each invariant is checked by
   TLC in the run of its module before it is proved.
