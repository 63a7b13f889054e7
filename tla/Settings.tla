------------------------------ MODULE Settings ------------------------------
(***************************************************************************)
(* The settings loader and its process-wide cache.                         *)
(*                                                                         *)
(*   src/src/settings.ts                                                   *)
(*                                                                         *)
(* Each setting is resolved by itself, so a behaviour follows one of them, *)
(* whose kind says which values are accepted for it.  A load reads the     *)
(* environment at once and then awaits one file after another, while they  *)
(* may be edited.                                                          *)
(***************************************************************************)
EXTENDS Naturals, Sequences

CONSTANTS
    Tasks,      \* the callers of getSettings()
    MaxLoads,   \* bound: loads started
    MaxEdits,   \* bound: changes of the sources
    MaxClears   \* bound: calls of clearSettingsCache()

SettingsAssumption == {MaxLoads, MaxEdits, MaxClears} \subseteq Nat

VARIABLES
    kind,       \* the kind of the setting
    env,        \* its text in the environment
    dotenv,     \* its text in .env, or that the file cannot be read
    config,     \* config[i]: surql.yaml, surql.yml, surql.toml
    edits, clears,
    loads,      \* the loads, in the order they were started
    cached,     \* _cached: the load whose settings are kept, or 0
    promise,    \* _cachedPromise: the load it is the promise of, or 0
    calls,      \* calls[t]: the call of t
    raced       \* the cache was cleared while a load was under way

vars == <<kind, env, dotenv, config, edits, clears, loads, cached, promise,
          calls, raced>>

---------------------------------------------------------------------------
(* A source gives a value of some type; texts are told apart by what the   *)
(* accessors ask of them: "yes" reads as a boolean, "INFO" names a level.  *)
Texts == {"yes", "INFO", "other"}
Raw == [type: {"string", "boolean"}, text: Texts] \cup
       {[type |-> "number", text |-> "other"]}
Unset == [type |-> "undefined", text |-> "other"]
Default == [type |-> "default", text |-> "other"]

SettingKinds == {"string", "boolean", "level"}
Boolean(text) == text = "yes"

(* parseEnvValue                                                           *)
ParseEnvValue(text) ==
    [type |-> IF Boolean(text) THEN "boolean" ELSE "string", text |-> text]

(* pickString, pickBoolean, pickLogLevel, pickEnvironment and what         *)
(* pickDatabase does to each of its fields.                                *)
Pick(raw) ==
    LET accepted ==
            CASE kind = "string" -> raw.type = "string"
              [] kind = "boolean" ->
                   \/ raw.type = "boolean"
                   \/ raw.type = "string" /\ Boolean(raw.text)
              [] kind = "level" -> raw.type = "string" /\ raw.text = "INFO"
    IN  IF accepted THEN raw ELSE Unset

(* Mutant: the later source wins.                                          *)
OverrideSource(accum, source) == IF Pick(source) # Unset THEN Pick(source) ELSE accum

(* mergeSource: what the accumulator has is kept.                          *)
MergeSource(accum, source) == IF accum # Unset THEN accum ELSE Pick(source)

(* finalise                                                                *)
Finalise(accum) == IF accum = Unset THEN Default ELSE accum

(* .env and config files: a document that gives a value or none, and what  *)
(* else a read may come to.                                                *)
Unreadable == [type |-> "unreadable", text |-> "other"]
Missing == [type |-> "missing", text |-> "other"]
Malformed == [type |-> "malformed", text |-> "other"]
EmptyFile == [type |-> "empty", text |-> "other"]
Candidates == 1 .. 3

(* collectEnv, and collectDotenv of a file that can be read                *)
CollectEnv(texts) == IF texts \in Texts THEN ParseEnvValue(texts) ELSE Unset

Idle == [at |-> "idle", load |-> 0, clears |-> 0]

Init ==
    /\ kind \in SettingKinds
    /\ env \in Texts \cup {"unset"}
    /\ dotenv = "missing"
    /\ \E file \in {Missing, EmptyFile, Malformed} :
        config = [i \in Candidates |-> IF i = 1 THEN file ELSE Missing]
    /\ edits = 0 /\ clears = 0
    /\ loads = <<>>
    /\ cached = 0 /\ promise = 0
    /\ calls = [t \in Tasks |-> Idle]
    /\ raced = FALSE

TypeOK ==
    /\ kind \in SettingKinds
    /\ env \in Texts \cup {"unset"}
    /\ dotenv \in Texts \cup {"missing", "unreadable"}
    /\ config \in
         [Candidates -> Raw \cup {Unset, Unreadable, Missing, Malformed,
                                  EmptyFile}]
    /\ Len(loads) <= MaxLoads
    /\ \A i \in DOMAIN loads :
        /\ loads[i].at \in {"dotenv", "config", "done", "failed"}
        /\ loads[i].accum \in Raw \cup {Unset, Default}
        /\ loads[i].candidate \in 1 .. 4
    /\ {cached, promise} \subseteq 0 .. Len(loads)
    /\ \A t \in Tasks :
        /\ calls[t].at \in {"idle", "waiting", "returned", "failed"}
        /\ calls[t].load \in 0 .. Len(loads)

---------------------------------------------------------------------------
(* getSettings: the cached settings, else the promise that is kept, else a *)
(* new load, which reads the environment at once.                          *)
GetSettings(t) ==
    /\ calls[t].at = "idle"
    /\ LET id == IF promise # 0 THEN promise ELSE Len(loads) + 1
           load == [at |-> "dotenv", accum |-> MergeSource(Unset, CollectEnv(env)),
                    candidate |-> 1, edits |-> edits, clears |-> clears]
       IN  /\ calls' = [calls EXCEPT ![t] =
                           [at |-> IF cached # 0 THEN "returned" ELSE "waiting",
                            load |-> IF cached # 0 THEN cached ELSE id,
                            clears |-> clears]]
           /\ IF cached # 0 \/ promise # 0
              THEN UNCHANGED <<loads, promise>>
              ELSE /\ Len(loads) < MaxLoads
                   /\ loads' = Append(loads, load)
                   /\ promise' = id
    /\ UNCHANGED <<kind, env, dotenv, config, edits, clears, cached, raced>>

Advance(i, load) == loads' = [loads EXCEPT ![i] = load]

(* collectDotenv: a missing file is no source, any other error is thrown.  *)
ReadDotenv(i) ==
    /\ loads[i].at = "dotenv"
    /\ Advance(i, IF dotenv = "unreadable" THEN [loads[i] EXCEPT !.at = "failed"]
                  ELSE [loads[i] EXCEPT
                          !.accum = MergeSource(@, CollectEnv(dotenv)),
                          !.at = "config"])
    /\ UNCHANGED <<kind, env, dotenv, config, edits, clears, cached, promise,
                   calls, raced>>

Resolved(load, source) ==
    [load EXCEPT !.accum = Finalise(MergeSource(@, source)), !.at = "done"]

(* collectFileConfig reads the next candidate: a missing one, and one that *)
(* is no document, are passed over; a malformed one ends the search.       *)
ReadConfig(i) ==
    /\ loads[i].at = "config"
    /\ loads[i].candidate \in Candidates
    /\ LET file == config[loads[i].candidate] IN
        Advance(i, CASE file = Unreadable -> [loads[i] EXCEPT !.at = "failed"]
                     [] file \in {Missing, EmptyFile} ->
                          [loads[i] EXCEPT !.candidate = @ + 1]
                     [] file = Malformed -> Resolved(loads[i], Unset)
                     [] OTHER -> Resolved(loads[i], file))
    /\ UNCHANGED <<kind, env, dotenv, config, edits, clears, cached, promise,
                   calls, raced>>

NoConfig(i) ==
    /\ loads[i].at = "config"
    /\ loads[i].candidate \notin Candidates
    /\ Advance(i, Resolved(loads[i], Unset))
    /\ UNCHANGED <<kind, env, dotenv, config, edits, clears, cached, promise,
                   calls, raced>>

(* The load's then(): its settings are kept, whatever was cleared since;   *)
(* those who await it get them.  A rejected load stays the kept promise.   *)
Settle(i) ==
    /\ loads[i].at \in {"done", "failed"}
    /\ \E t \in Tasks : calls[t].at = "waiting" /\ calls[t].load = i
    /\ calls' = [t \in Tasks |->
                    IF calls[t].at = "waiting" /\ calls[t].load = i
                    THEN [calls[t] EXCEPT !.at = IF loads[i].at = "done"
                                                 THEN "returned" ELSE "failed"]
                    ELSE calls[t]]
    /\ cached' = IF loads[i].at = "done" THEN i ELSE cached
    /\ UNCHANGED <<kind, env, dotenv, config, edits, clears, loads, promise,
                   raced>>

(* The caller is done with its settings.                                   *)
Use(t) ==
    /\ calls[t].at \in {"returned", "failed"}
    /\ calls' = [calls EXCEPT ![t] = Idle]
    /\ UNCHANGED <<kind, env, dotenv, config, edits, clears, loads, cached,
                   promise, raced>>

UnderWay == \E t \in Tasks : calls[t].at = "waiting"

(* clearSettingsCache                                                      *)
ClearSettingsCache ==
    /\ clears < MaxClears
    /\ clears' = clears + 1
    /\ cached' = 0 /\ promise' = 0
    /\ raced' = (raced \/ UnderWay)
    /\ UNCHANGED <<kind, env, dotenv, config, edits, loads, calls>>

(* Somebody edits a source.                                                *)
Edit ==
    /\ edits < MaxEdits
    /\ edits' = edits + 1
    /\ \/ /\ env' \in (Texts \cup {"unset"}) \ {env}
          /\ UNCHANGED <<dotenv, config>>
       \/ /\ dotenv' \in {"INFO", "missing", "unreadable"} \ {dotenv}
          /\ UNCHANGED <<env, config>>
       \/ /\ \E i \in Candidates,
                file \in {[type |-> "boolean", text |-> "yes"],
                          [type |-> "string", text |-> "INFO"],
                          Unset, Unreadable} :
              config' = [config EXCEPT ![i] = file]
          /\ UNCHANGED <<env, dotenv>>
    /\ UNCHANGED <<kind, clears, loads, cached, promise, calls, raced>>

Next ==
    \/ \E t \in Tasks : GetSettings(t) \/ Use(t)
    \/ \E i \in DOMAIN loads :
        ReadDotenv(i) \/ ReadConfig(i) \/ NoConfig(i) \/ Settle(i)
    \/ ClearSettingsCache
    \/ Edit

Spec == Init /\ [][Next]_vars

---------------------------------------------------------------------------
(* After clearSettingsCache() nobody is given settings that were read      *)
(* before it, unless a load was under way at that moment.                  *)
ClearedIsReread ==
    ~raced => \A t \in Tasks :
        calls[t].at = "returned" => loads[calls[t].load].clears >= calls[t].clears

(* The first source that sets the setting wins, as settings.ts says: in a  *)
(* load during which nothing was edited, a value that was given to it in   *)
(* the environment is the one it has, else the one in .env, else the one   *)
(* in the first config file that is a document, else the default.  Of a    *)
(* text that the loader cannot take for the setting this is not said: see  *)
(* the README.                                                             *)
Documents == {i \in Candidates : config[i] \notin {Missing, EmptyFile}}
FirstDocument ==
    IF Documents = {} THEN Missing
    ELSE config[CHOOSE i \in Documents : \A j \in Documents : i <= j]
FirstWins ==
    \A i \in DOMAIN loads :
        loads[i].at = "done" /\ loads[i].edits = edits =>
            LET sources == {p \in {<<1, CollectEnv(env)>>, <<2, CollectEnv(dotenv)>>,
                                   <<3, FirstDocument>>} : Pick(p[2]) # Unset}
            IN  IF sources = {} THEN loads[i].accum = Default
                ELSE \E p \in sources :
                        /\ \A q \in sources : p[1] <= q[1]
                        /\ loads[i].accum = p[2]

(* What makes it so.  In a load during which nothing was edited the        *)
(* accumulator has what the sources that were read give, one merged over   *)
(* the other; the promise that is kept was made after the last clear, and  *)
(* unless a load was under way at a clear, what is cached and what the     *)
(* callers wait for is as new.                                             *)
FileStates == Raw \cup {Unset, Unreadable, Missing, Malformed, EmptyFile}
Loads == [at: {"dotenv", "config", "done", "failed"},
          accum: Raw \cup {Unset, Default}, candidate: 1 .. 4,
          edits: Nat, clears: Nat]
Calls == [at: {"idle", "waiting", "returned", "failed"}, load: Nat,
          clears: Nat]

AfterEnv == MergeSource(Unset, CollectEnv(env))
AfterDotenv == MergeSource(AfterEnv, CollectEnv(dotenv))
AfterConfig == Finalise(MergeSource(AfterDotenv, FirstDocument))

MergedSoFar(load) ==
    CASE load.at = "dotenv" -> load.accum = AfterEnv /\ load.candidate = 1
      [] load.at = "config" ->
           /\ load.accum = AfterDotenv
           /\ \A c \in Candidates :
                c < load.candidate => config[c] \in {Missing, EmptyFile}
      [] load.at = "done" -> load.accum = AfterConfig
      [] OTHER -> TRUE

AsNew(id) == loads[id].clears = clears

CacheInv ==
    /\ promise # 0 => AsNew(promise)
    /\ ~raced =>
        /\ cached # 0 => AsNew(cached)
        /\ \A t \in Tasks :
            calls[t].at = "waiting" =>
                calls[t].clears = clears /\ AsNew(calls[t].load)
        /\ ClearedIsReread

SettingsInv ==
    /\ loads \in Seq(Loads)
    /\ calls \in [Tasks -> Calls]
    /\ \A t \in Tasks :
        calls[t].at \in {"waiting", "returned"} =>
            calls[t].load \in DOMAIN loads
    /\ {edits, clears} \subseteq Nat /\ raced \in BOOLEAN
    /\ \A i \in DOMAIN loads :
        /\ loads[i].edits <= edits
        /\ loads[i].edits = edits => MergedSoFar(loads[i])
    /\ CacheInv
=============================================================================
