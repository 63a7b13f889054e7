--------------------------- MODULE SchemaWatcher ---------------------------
(***************************************************************************)
(* The filesystem watcher of schema files, and the drift checks it starts. *)
(*                                                                         *)
(*   src/src/migration/watcher.ts                                          *)
(*                                                                         *)
(* The state of the schema files is the number of changes made to them.    *)
(* A check reads the files some time after it has been started; nothing    *)
(* keeps a second check from being started before the first has reported.  *)
(***************************************************************************)
EXTENDS Naturals

CONSTANTS
    MaxChanges, \* bound: changes to schema files in one behaviour
    MaxErrors   \* bound: checks and callbacks that throw

WatcherAssumption == MaxChanges \in Nat /\ MaxErrors \in Nat

VARIABLES
    files,      \* how often the schema files have changed
    events,     \* events of the filesystem that the loop has not seen
    timer,      \* the debounce timer is set
    started,    \* how many checks were started: they are 1 .. started
    check,      \* check[c]: where check c stands
    seen,       \* seen[c]: the state of the files that check c read
    reports,    \* the states of the files that the callback was told of
    stopped,
    loop,       \* the for-await loop: "running" or "ended"
    errors      \* checks and callbacks that threw

checks == <<started, check, seen>>
vars == <<files, events, timer, checks, reports, stopped, loop, errors>>

Checks == 1 .. MaxChanges

TypeOK ==
    /\ files \in 0 .. MaxChanges
    /\ events \in 0 .. MaxChanges
    /\ timer \in BOOLEAN
    /\ started \in 0 .. MaxChanges
    /\ check \in [Checks -> {"none", "reading", "read", "ended"}]
    /\ seen \in [Checks -> 0 .. MaxChanges]
    /\ reports \subseteq 0 .. MaxChanges
    /\ stopped \in BOOLEAN
    /\ loop \in {"running", "ended"}
    /\ errors \in 0 .. MaxErrors

Init ==
    /\ files = 0
    /\ events = 0
    /\ timer = FALSE
    /\ started = 0
    /\ check = [c \in Checks |-> "none"]
    /\ seen = [c \in Checks |-> 0]
    /\ reports = {}
    /\ stopped = FALSE
    /\ loop = "running"
    /\ errors = 0

---------------------------------------------------------------------------
(* A schema file changes, and the filesystem says so.                      *)
Change ==
    /\ files < MaxChanges
    /\ files' = files + 1
    /\ events' = events + 1
    /\ UNCHANGED <<timer, checks, reports, stopped, loop, errors>>

(* Mutant: an event that comes during a check starts none.                 *)
ScheduleUnlessBusy ==
    /\ loop = "running" /\ ~stopped
    /\ events > 0
    /\ events' = events - 1
    /\ timer' = (timer \/ \A c \in Checks : check[c] \in {"none", "ended"})
    /\ UNCHANGED <<files, checks, reports, stopped, loop, errors>>

(* The loop takes an event; the timer is set anew.                         *)
Schedule ==
    /\ loop = "running" /\ ~stopped
    /\ events > 0
    /\ events' = events - 1
    /\ timer' = TRUE
    /\ UNCHANGED <<files, checks, reports, stopped, loop, errors>>

(* No event came for debounceMs: triggerCallback starts a check.           *)
Trigger ==
    /\ timer
    /\ timer' = FALSE
    /\ started' = started + 1
    /\ check' = [check EXCEPT ![started + 1] = "reading"]
    /\ UNCHANGED <<files, events, seen, reports, stopped, loop, errors>>

(* checkSchemaDrift reads the files.                                       *)
Read(c) ==
    /\ check[c] = "reading"
    /\ check' = [check EXCEPT ![c] = "read"]
    /\ seen' = [seen EXCEPT ![c] = files]
    /\ UNCHANGED <<files, events, timer, started, reports, stopped, loop,
                   errors>>

(* The callback is called; `stopped` is not looked at again.               *)
Report(c) ==
    /\ check[c] = "read"
    /\ check' = [check EXCEPT ![c] = "ended"]
    /\ reports' = reports \cup {seen[c]}
    /\ UNCHANGED <<files, events, timer, started, seen, stopped, loop, errors>>

(* The check throws, and onError is told.                                  *)
CheckFails(c) ==
    /\ check[c] \in {"reading", "read"}
    /\ errors < MaxErrors
    /\ errors' = errors + 1
    /\ check' = [check EXCEPT ![c] = "ended"]
    /\ UNCHANGED <<files, events, timer, started, seen, reports, stopped, loop>>

---------------------------------------------------------------------------
(* stop: the timer is cleared and the watcher closed.                      *)
Stop ==
    /\ ~stopped
    /\ stopped' = TRUE
    /\ timer' = FALSE
    /\ UNCHANGED <<files, events, checks, reports, loop, errors>>

(* The closed watcher ends the loop, which stop awaits.                    *)
LoopEnds ==
    /\ stopped
    /\ loop = "running"
    /\ loop' = "ended"
    /\ UNCHANGED <<files, events, timer, checks, reports, stopped, errors>>

Progress ==
    \/ Schedule
    \/ Trigger
    \/ \E c \in Checks : Read(c) \/ Report(c)
    \/ LoopEnds

Next ==
    \/ Change
    \/ Progress
    \/ \E c \in Checks : CheckFails(c)
    \/ Stop

Spec == Init /\ [][Next]_vars

(* Events are delivered, the timer fires once changes cease, files are     *)
(* read.                                                                   *)
FairSpec == Spec /\ WF_vars(Progress)

---------------------------------------------------------------------------
(* Properties.                                                             *)

(* Every change is reported by a check that read the files after it: none  *)
(* is lost to the debounce or to a check under way, unless the watcher is  *)
(* stopped or a check throws ("invoke callback ... whenever activity       *)
(* settles", watcher.ts:72).                                               *)
EveryChangeReported ==
    \A n \in 1 .. MaxChanges :
        files = n ~> (\E m \in reports : n <= m) \/ stopped \/ errors > 0
===========================================================================
