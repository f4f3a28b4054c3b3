---------------------------- MODULE UsageMonitor ----------------------------
(***************************************************************************)
(* ComponentMonitor of the watchdog: the current usage of a component, the *)
(* samples before it, and since when each threshold is violated.  Times    *)
(* are the ticks of one clock, which also stamps the usages; a threshold   *)
(* is violated or not, so a usage is the set of resources above theirs     *)
(* together with the amount the average is computed from.                  *)
(***************************************************************************)
EXTENDS Integers, Sequences, Sums

CONSTANTS
  Resources,     \* ResourceCPU and ResourceMemory
  MaxAmount,     \* usages are 0..MaxAmount
  HistoryLen,    \* samples kept (60 in the code)
  MaxTime        \* bound of the clock

ASSUME UsageAssumption == HistoryLen \in Nat \ {0} /\ MaxAmount \in Nat /\ MaxTime \in Nat

VARIABLES
  now,
  current,       \* CurrentUsage: amount, resources above, Timestamp (0: none yet)
  history,       \* UsageHistory: amount, Timestamp, Duration
  lastViolation, violationDuration,   \* by resource, -1 for no entry
  streak,        \* when the resource was first above its threshold without break
  trace          \* the amount in force during each tick so far

usageVars == <<now, current, history, lastViolation, violationDuration, streak, trace>>

NewComponentMonitor ==
  /\ now = 1
  /\ current = [amount |-> 0, above |-> {}, Timestamp |-> 0]
  /\ history = <<>>
  /\ lastViolation = [r \in Resources |-> -1]
  /\ violationDuration = [r \in Resources |-> -1]
  /\ streak = [r \in Resources |-> -1]
  /\ trace = <<>>

Clock ==
  /\ now < MaxTime /\ now' = now + 1
  /\ trace' = Append(trace, current.amount)
  /\ UNCHANGED <<current, history, lastViolation, violationDuration, streak>>

StartOf(r, above) ==
  IF r \notin above THEN -1 ELSE IF lastViolation[r] = -1 THEN now ELSE lastViolation[r]

\* checkThresholds, one case per resource.
checkUsage(above) ==
  /\ lastViolation' = [r \in Resources |-> StartOf(r, above)]
  /\ violationDuration' = [r \in Resources |->
       IF r \notin above THEN -1
       ELSE IF lastViolation[r] = -1 THEN 0 ELSE now - lastViolation[r]]

Kept(h) == IF Len(h) > HistoryLen THEN Tail(h) ELSE h

Sample == [amount |-> current.amount, Timestamp |-> current.Timestamp,
           Duration |-> now - current.Timestamp]

UpdateResourceUsage(amount, above) ==
  /\ history' = IF current.Timestamp > 0 THEN Kept(Append(history, Sample)) ELSE history
  /\ current' = [amount |-> amount, above |-> above, Timestamp |-> now]
  /\ checkUsage(above)
  /\ streak' = [r \in Resources |-> IF r \notin above THEN -1
                                    ELSE IF streak[r] = -1 THEN now ELSE streak[r]]
  /\ UNCHANGED <<now, trace>>

UsageNext ==
  \/ Clock
  \/ \E a \in 0..MaxAmount, above \in SUBSET Resources : UpdateResourceUsage(a, above)

UsageSpec == NewComponentMonitor /\ [][UsageNext]_usageVars

-----------------------------------------------------------------------------
(* GetAverageUsage over the last d ticks                                    *)

\* The part of the window the current usage takes.
CurrentDuration(d) == IF now - current.Timestamp > d THEN d ELSE now - current.Timestamp

\* Mutant: samples that began before the window count too.
MutOldest(d) ==
  CHOOSE k \in 1..(Len(history) + 1) :
    /\ \A j \in k..Len(history) : history[j].Timestamp + history[j].Duration > now - d
    /\ k > 1 => history[k - 1].Timestamp + history[k - 1].Duration <= now - d

\* The loop goes back from the newest sample and ends at the first that began
\* before the window: the oldest sample it adds.
Oldest(d) ==
  CHOOSE k \in 1..(Len(history) + 1) :
    /\ \A j \in k..Len(history) : history[j].Timestamp >= now - d
    /\ k > 1 => history[k - 1].Timestamp < now - d

Durations == [k \in DOMAIN history |-> history[k].Duration]
Amounts == [k \in DOMAIN history |-> history[k].amount * history[k].Duration]

TotalDuration(d) == CurrentDuration(d) + Total(Durations, Oldest(d), Len(history))

\* The sum it builds, times d: the result is this over TotalDuration(d) when
\* that is less than d, and over d otherwise.  The current usage comes in
\* without its weight.
GetAverageUsage(d) == current.amount * d + Total(Amounts, Oldest(d), Len(history))

-----------------------------------------------------------------------------
(* Properties                                                               *)

\* The samples GetAverageUsage adds up are what was really used in the part of
\* the window they cover, and never more than the window; the current usage is
\* counted as if it had lasted the whole window.
AverageOfWindow ==
  \A d \in 1..MaxTime :
    history # <<>> =>
      /\ TotalDuration(d) <= d
      /\ GetAverageUsage(d) =
           Total(trace, now - TotalDuration(d), now - 1)
             + current.amount * (d - CurrentDuration(d))
=============================================================================
