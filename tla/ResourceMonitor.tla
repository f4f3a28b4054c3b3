--------------------------- MODULE ResourceMonitor ---------------------------
(***************************************************************************)
(* The resource monitor of the watchdog (monitor.go): the last readings    *)
(* and the degradation level of each component, kept by a loop that Start  *)
(* begins and Stop ends for good, since the context is made once.  A       *)
(* reading is the CPU and the memory of a component.  Handlers of          *)
(* threshold events run in goroutines of their own; what is kept of an     *)
(* event is that a level was reported.                                     *)
(***************************************************************************)
EXTENDS Naturals, Sequences

CONSTANTS
  MonComps,        \* components
  MaxReading,      \* CPU and memory are 0..MaxReading
  HistoryMaxLen,   \* readings kept (20 in the code)
  MaxReadings      \* bound: readings of one component

ASSUME MonitorAssumption == {HistoryMaxLen, MaxReadings} \subseteq Nat \ {0}

\* Two degradation levels with the thresholds they need; Validate asks for
\* positive thresholds and for no order among them.
DegradationLevel == [cpu : 1..MaxReading, mem : 1..MaxReading]

VARIABLES
  levels,            \* config.ComponentConfigs[c].DegradationLevels, a pair
  components,        \* names of the components added
  usageHistory,
  degradationState,  \* index of the current level, 0 for ""
  readings,          \* everything read since the component was added
  ended,             \* is ctx done?
  loop,              \* "none", "select"; "late": its first select finds ctx done
  halted             \* Stop has returned

monitorVars == <<levels, components, usageHistory, degradationState, readings, ended, loop, halted>>

ResourceUsage == [cpu : 0..MaxReading, mem : 0..MaxReading]

NewResourceMonitor ==
  /\ levels \in DegradationLevel \X DegradationLevel
  /\ components = {}
  /\ usageHistory = [c \in MonComps |-> <<>>] /\ readings = [c \in MonComps |-> <<>>]
  /\ degradationState = [c \in MonComps |-> 0]
  /\ ended = FALSE /\ loop = "none" /\ halted = FALSE

\* AddComponent replaces what is known of the component.
AddComponent(c) ==
  /\ components' = components \cup {c}
  /\ usageHistory' = [usageHistory EXCEPT ![c] = <<>>]
  /\ readings' = [readings EXCEPT ![c] = <<>>]
  /\ degradationState' = [degradationState EXCEPT ![c] = 0]
  /\ UNCHANGED <<levels, ended, loop, halted>>

RemoveComponent(c) ==
  /\ components' = components \ {c}
  /\ usageHistory' = [usageHistory EXCEPT ![c] = <<>>]
  /\ readings' = [readings EXCEPT ![c] = <<>>]
  /\ degradationState' = [degradationState EXCEPT ![c] = 0]
  /\ UNCHANGED <<levels, ended, loop, halted>>

StartMonitor ==
  /\ loop = "none" /\ loop' = IF ended THEN "late" ELSE "select"
  /\ UNCHANGED <<levels, components, usageHistory, degradationState, readings, ended, halted>>

StopMonitor ==
  /\ ended' = TRUE
  /\ halted' = (loop = "none")
  /\ UNCHANGED <<levels, components, usageHistory, degradationState, readings, loop>>

\* The loop ends, and with it the Wait of Stop.
LoopEnds ==
  /\ loop # "none" /\ ended
  /\ loop' = "none" /\ halted' = TRUE
  /\ UNCHANGED <<levels, components, usageHistory, degradationState, readings, ended>>

Recorded(h, u) == IF Len(h) >= HistoryMaxLen THEN Append(Tail(h), u) ELSE Append(h, u)

Applies(i, u) == u.cpu >= levels[i].cpu \/ u.mem >= levels[i].mem

\* Mutant: the first level that applies.
MutCheckDegradationLevels(u) ==
  IF Applies(1, u) THEN 1 ELSE IF Applies(2, u) THEN 2 ELSE 0

\* The last level that applies.
checkDegradationLevels(u) ==
  IF Applies(2, u) THEN 2 ELSE IF Applies(1, u) THEN 1 ELSE 0

\* One round of the loop, under the lock; u gives the readings.
checkResources(u) ==
  /\ loop = "select"
  /\ \A c \in components : Len(readings[c]) < MaxReadings
  /\ usageHistory' = [c \in MonComps |-> IF c \in components THEN Recorded(usageHistory[c], u[c])
                                                            ELSE usageHistory[c]]
  /\ readings' = [c \in MonComps |-> IF c \in components THEN Append(readings[c], u[c])
                                                        ELSE readings[c]]
  /\ degradationState' = [c \in MonComps |-> IF c \in components THEN checkDegradationLevels(u[c])
                                                                ELSE degradationState[c]]
  /\ UNCHANGED <<levels, components, ended, loop, halted>>

MonitorNext ==
  \/ \E c \in MonComps : AddComponent(c) \/ RemoveComponent(c)
  \/ StartMonitor \/ StopMonitor \/ LoopEnds
  \/ \E u \in [MonComps -> ResourceUsage] : checkResources(u)

MonitorSpec == NewResourceMonitor /\ [][MonitorNext]_monitorVars

-----------------------------------------------------------------------------
(* Properties                                                               *)

\* The level of a component is the highest (the last of the list, whatever its
\* thresholds) that its last reading reaches, after every round, removal and addition
\* (monitor.go: "Find the highest applicable degradation level").
HighestLevel ==
  \A c \in components : readings[c] # <<>> =>
    LET u == readings[c][Len(readings[c])] IN
    \A i \in 1..2 : degradationState[c] = i <=> Applies(i, u) /\ \A j \in (i+1)..2 : ~Applies(j, u)

=============================================================================
