------------------------------ MODULE Watchdog ------------------------------
(***************************************************************************)
(* The watchdog with its circuit breakers and restart managers.  Two loops *)
(* of its own, its callers and Stop share one mutex; what is done under it *)
(* is a step, except that monitorComponents goes from component to         *)
(* component and Stop keeps the mutex while it waits for the loops.  The   *)
(* detector's findings are an input: DetectDeadlocks is not in the code.   *)
(* The usage of a component is one number, its thresholds another.  The    *)
(* watchdog never asks AllowOperation, so the time an open breaker waits   *)
(* does not matter here.                                                   *)
(***************************************************************************)
EXTENDS Naturals, FiniteSets, CircuitBreaker

CONSTANTS
  Comps,              \* components
  Restartables,       \* those that implement Restartable, with restarts enabled ...
  Degradables,        \* ... and Degradable
  DegradationLevels,  \* the largest degradation level
  MaxUsage,           \* usage and thresholds are 0..MaxUsage
  DefaultThreshold,
  IncidentLimit,      \* incidents monitorComponents keeps (10 in the code)
  MaxRestartAttempts, BackoffInitial, BackoffMax, BackoffFactor,
  BreakerConfig,      \* configuration of every breaker
  MaxStarted,         \* bound: starts of a component by the watchdog, and RestartCount
  MaxDetected         \* bound: deadlocks reported

ASSUME WatchdogAssumption ==
  /\ Restartables \cup Degradables \subseteq Comps
  /\ BreakerConfig \in CircuitBreakerConfig
  /\ {DegradationLevels, IncidentLimit, MaxRestartAttempts, BackoffInitial, BackoffFactor}
       \subseteq Nat \ {0}
  /\ {MaxUsage, DefaultThreshold, BackoffMax, MaxStarted, MaxDetected} \subseteq Nat
  /\ BackoffInitial <= BackoffMax

VARIABLES
  registered,    \* components
  thresholds,    \* componentConfigs[c].Thresholds
  breakers,      \* circuitBreakers
  managers,      \* restartManagers
  statuses,      \* componentStatuses
  running,       \* IsRunning of each component (its own state) ...
  level,         \* ... and its degradation level
  started,       \* how often the watchdog started each component
  rejoined,      \* components registered again after they were unregistered
  watching,      \* the field running
  done,          \* is monitorContext done?
  mutex,         \* who holds it: "free", "monitor", "stop"
  todo,          \* components monitorComponents has still to look at
  monitor,       \* monitorLoop: "none", "select", "lock", "check"
  detector,      \* deadlockDetectionLoop: "none", "select", "lock"
  detected       \* deadlocks reported so far

perComp == <<registered, thresholds, breakers, managers, statuses>>
own == <<running, level, started, rejoined>>
loops == <<watching, done, mutex, todo, monitor, detector>>
watchdogVars == <<perComp, own, loops, detected>>

ComponentStatus ==
  [CircuitState : CircuitState, RestartCount : Nat, Incidents : Nat,
   DegradationLevel : 0..DegradationLevels]

RestartManager ==
  [restartAttempts : 0..MaxRestartAttempts, waiting : BOOLEAN,
   currentBackoff : BackoffInitial..BackoffMax]

NewStatus ==
  [CircuitState |-> "closed", RestartCount |-> 0, Incidents |-> 0, DegradationLevel |-> 0]

NewRestartManager ==
  [restartAttempts |-> 0, waiting |-> FALSE, currentBackoff |-> BackoffInitial]

WatchdogInit ==
  /\ registered = {}
  /\ thresholds = [c \in Comps |-> DefaultThreshold]
  /\ breakers = [c \in Comps |-> NewCircuitBreaker]
  /\ managers = [c \in Comps |-> NewRestartManager]
  /\ statuses = [c \in Comps |-> NewStatus]
  /\ running = [c \in Comps |-> TRUE] /\ level = [c \in Comps |-> 0]
  /\ started = [c \in Comps |-> 0] /\ rejoined = {}
  /\ watching = FALSE /\ done = FALSE /\ mutex = "free" /\ todo = {}
  /\ monitor = "none" /\ detector = "none" /\ detected = 0

-----------------------------------------------------------------------------
(* Start, Stop and the callers                                              *)

StartWatchdog ==
  /\ mutex = "free" /\ ~watching
  /\ watching' = TRUE /\ done' = FALSE
  /\ monitor' = "select" /\ detector' = "select"
  /\ UNCHANGED <<perComp, own, mutex, todo, detected>>

\* Stop cancels the context and waits for the loops, with the mutex ...
StopWatchdog ==
  /\ mutex = "free" /\ watching
  /\ mutex' = "stop" /\ done' = TRUE
  /\ UNCHANGED <<perComp, own, watching, todo, monitor, detector, detected>>

LoopsGone == monitor = "none" /\ detector = "none"

\* ... until both are gone.
StopWatchdogReturns ==
  /\ mutex = "stop" /\ LoopsGone
  /\ mutex' = "free" /\ watching' = FALSE
  /\ UNCHANGED <<perComp, own, done, todo, monitor, detector, detected>>

RegisterComponent(c) ==
  /\ mutex = "free" /\ c \notin registered
  /\ registered' = registered \cup {c}
  /\ thresholds' = [thresholds EXCEPT ![c] = DefaultThreshold]
  /\ breakers' = [breakers EXCEPT ![c] = NewCircuitBreaker]
  /\ managers' = [managers EXCEPT ![c] = NewRestartManager]
  /\ statuses' = [statuses EXCEPT ![c] = NewStatus]
  /\ UNCHANGED <<own, loops, detected>>

UnregisterComponent(c) ==
  /\ mutex = "free" /\ c \in registered
  /\ registered' = registered \ {c} /\ rejoined' = rejoined \cup {c}
  /\ UNCHANGED <<thresholds, breakers, managers, statuses, running, level, started, loops,
                 detected>>

SetThresholds(c, t) ==
  /\ mutex = "free" /\ c \in registered
  /\ thresholds' = [thresholds EXCEPT ![c] = t]
  /\ UNCHANGED <<registered, breakers, managers, statuses, own, loops, detected>>

\* The component stops or starts by itself.
ComponentChanges(c) ==
  /\ running' = [running EXCEPT ![c] = ~@]
  /\ UNCHANGED <<perComp, level, started, rejoined, loops, detected>>

-----------------------------------------------------------------------------
(* monitorLoop                                                              *)

MonitorTick ==
  /\ monitor = "select" /\ monitor' = "lock"
  /\ UNCHANGED <<perComp, own, watching, done, mutex, todo, detector, detected>>

MonitorEnds ==
  /\ monitor = "select" /\ done /\ monitor' = "none"
  /\ UNCHANGED <<perComp, own, watching, done, mutex, todo, detector, detected>>

MonitorLocks ==
  /\ monitor = "lock" /\ mutex = "free"
  /\ monitor' = "check" /\ mutex' = "monitor" /\ todo' = registered
  /\ UNCHANGED <<perComp, own, watching, done, detector, detected>>

MonitorUnlocks ==
  /\ monitor = "check" /\ todo = {}
  /\ monitor' = "select" /\ mutex' = "free"
  /\ UNCHANGED <<perComp, own, watching, done, todo, detector, detected>>

checkThresholds(c, usage) == usage > thresholds[c]

Limited(n) == IF n > IncidentLimit THEN IncidentLimit ELSE n

\* The number of incidents after createResourceIncident.
WithIncident(n) == Limited(n + 1)

Smaller(a, b) == IF a < b THEN a ELSE b

\* The level handleDegradation asks for.
NewLevel(health, l) ==
  CASE health = "critical" -> DegradationLevels
    [] health = "degraded" -> Smaller(l + 1, DegradationLevels)
    [] OTHER -> l

Backoff(m) == Smaller(m.currentBackoff * BackoffFactor, BackoffMax)

StatusLevel(old, new, accepted) == IF accepted THEN new ELSE old

\* Does AttemptRestart, unless it has given up, come to Start?
Starts(c) == ~running[c] /\ ~managers[c].waiting

\* Mutant: the attempts go on after the last one.
MutGivenUp(c) == FALSE

GivenUp(c) == managers[c].restartAttempts >= MaxRestartAttempts

\* AttemptRestart: a Start that succeeds (ok) or fails.
AttemptRestart(c, ok) ==
  IF ~GivenUp(c) /\ Starts(c)
    THEN /\ started[c] < MaxStarted
         /\ started' = [started EXCEPT ![c] = @ + 1]
         /\ running' = [running EXCEPT ![c] = ok]
         /\ managers' = [managers EXCEPT ![c] =
              IF ok THEN [NewRestartManager EXCEPT !.waiting = TRUE]
              ELSE [restartAttempts |-> @.restartAttempts + 1, waiting |-> TRUE,
                    currentBackoff |-> Backoff(@)]]
    ELSE UNCHANGED <<started, running, managers>>

\* What it returns: a component that runs counts as restarted.
Restarted(c, ok) == ~GivenUp(c) /\ (running[c] \/ (Starts(c) /\ ok))

\* A component above its thresholds; degradable and restartable ones are acted
\* upon.  set and ok are the results of SetDegradationLevel and Start.
MonitorExceeded(c, usage, health, set, ok) ==
  LET b == RecordFailure(BreakerConfig, breakers[c])
      old == statuses[c].DegradationLevel
      new == NewLevel(health, old)
      changed == c \in Degradables /\ set /\ new # old
      opened == c \in Restartables /\ b.state = "open"
      again == opened /\ Restarted(c, ok)
  IN  /\ monitor = "check" /\ c \in todo /\ checkThresholds(c, usage)
      /\ again => statuses[c].RestartCount < MaxStarted
      /\ breakers' = [breakers EXCEPT ![c] = b]
      /\ level' = [level EXCEPT ![c] = IF changed THEN new ELSE @]
      /\ IF opened THEN AttemptRestart(c, ok) ELSE UNCHANGED <<started, running, managers>>
      /\ statuses' = [statuses EXCEPT ![c] =
           [CircuitState |-> b.state,
            DegradationLevel |-> StatusLevel(old, new, changed),
            RestartCount |-> @.RestartCount + IF again THEN 1 ELSE 0,
            Incidents |-> WithIncident(@.Incidents) + IF opened /\ ~again THEN 1 ELSE 0]]
      /\ todo' = todo \ {c}
      /\ UNCHANGED <<registered, thresholds, rejoined, watching, done, mutex, monitor, detector,
                     detected>>

\* One within them: a closed circuit ends the degradation.
MonitorWithin(c, usage, set) ==
  LET b == RecordSuccess(BreakerConfig, breakers[c])
      ends == b.state = "closed" /\ c \in Degradables /\ set /\ statuses[c].DegradationLevel > 0
  IN  /\ monitor = "check" /\ c \in todo /\ ~checkThresholds(c, usage)
      /\ breakers' = [breakers EXCEPT ![c] = b]
      /\ level' = [level EXCEPT ![c] = IF ends THEN 0 ELSE @]
      /\ statuses' = [statuses EXCEPT ![c] =
           [statuses[c] EXCEPT !.CircuitState = b.state, !.DegradationLevel = StatusLevel(@, 0, ends)]]
      /\ todo' = todo \ {c}
      /\ UNCHANGED <<registered, thresholds, managers, running, started, rejoined, watching, done,
                     mutex, monitor, detector, detected>>

-----------------------------------------------------------------------------
(* deadlockDetectionLoop                                                    *)

DetectorTick ==
  /\ detector = "select" /\ detector' = "lock"
  /\ UNCHANGED <<perComp, own, watching, done, mutex, todo, monitor, detected>>

DetectorEnds ==
  /\ detector = "select" /\ done /\ detector' = "none"
  /\ UNCHANGED <<perComp, own, watching, done, mutex, todo, monitor, detected>>

\* Mutant: the status is not told about the breaker.
MutDeadlocked(c) == [statuses[c] EXCEPT !.Incidents = @ + 1]

Deadlocked(c) ==
  [statuses[c] EXCEPT !.Incidents = @ + 1,
                      !.CircuitState = RecordFailure(BreakerConfig, breakers[c]).state]

\* The deadlocks found are those of the registered components in found.
DetectDeadlocks(found) ==
  /\ detector = "lock" /\ mutex = "free"
  /\ detected + Cardinality(found) <= MaxDetected
  /\ detector' = "select"
  /\ breakers' = [c \in Comps |-> IF c \in found THEN RecordFailure(BreakerConfig, breakers[c])
                                                 ELSE breakers[c]]
  /\ statuses' = [c \in Comps |-> IF c \in found THEN Deadlocked(c) ELSE statuses[c]]
  /\ detected' = detected + Cardinality(found)
  /\ UNCHANGED <<registered, thresholds, managers, own, watching, done, mutex, todo, monitor>>

-----------------------------------------------------------------------------
(* Time                                                                     *)

BackoffPasses(c) ==
  /\ managers[c].waiting
  /\ managers' = [managers EXCEPT ![c].waiting = FALSE]
  /\ UNCHANGED <<registered, thresholds, breakers, statuses, own, loops, detected>>

Monitoring ==
  \/ MonitorEnds \/ MonitorLocks \/ MonitorUnlocks
  \/ \E c \in Comps, usage \in 0..MaxUsage, h \in {"ok", "degraded", "critical"},
       set, ok \in BOOLEAN :
       \/ MonitorExceeded(c, usage, h, set, ok)
       \/ MonitorWithin(c, usage, set)

Detecting == DetectorEnds \/ \E found \in SUBSET registered : DetectDeadlocks(found)

WatchdogNext ==
  \/ StartWatchdog \/ StopWatchdog \/ StopWatchdogReturns
  \/ \E c \in Comps :
       \/ RegisterComponent(c) \/ UnregisterComponent(c) \/ ComponentChanges(c)
       \/ \E t \in 0..MaxUsage : SetThresholds(c, t)
       \/ BackoffPasses(c)
  \/ MonitorTick \/ Monitoring
  \/ DetectorTick \/ Detecting

WatchdogSpec == WatchdogInit /\ [][WatchdogNext]_watchdogVars

-----------------------------------------------------------------------------
(* Properties                                                               *)

\* What GetComponentStatus reports of the circuit is what the breaker has, after
\* every report of the monitor and of the deadlock detector.
StatusFollowsBreaker == \A c \in registered : statuses[c].CircuitState = breakers[c].state

\* A component whose restarts failed MaxRestartAttempts times in a row is not
\* started again, until it is registered anew.
GivesUp ==
  [][\A c \in registered \cap registered' :
       managers[c].restartAttempts = MaxRestartAttempts
         => started'[c] = started[c] /\ managers'[c].restartAttempts = MaxRestartAttempts
    ]_watchdogVars

=============================================================================
