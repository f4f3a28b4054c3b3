--------------------------- MODULE ServicesProofs ---------------------------
(* Proofs about services that keep state of their own: the resource monitor, *)
(* the process scanner, the watchdog, and the supervisor of the log          *)
(* forwarder, which leaves one process at most, built from the files, the    *)
(* identity and the host name of now.                                        *)
EXTENDS ResourceMonitor, ProcessScanner, Watchdog, LogSupervisor, FiniteSetTheorems, TLAPS

USE Zenon

-----------------------------------------------------------------------------
(* The resource monitor                                                      *)

MonitorTypeOK ==
  /\ components \subseteq MonComps
  /\ usageHistory \in [MonComps -> Seq(ResourceUsage)]
  /\ readings \in [MonComps -> Seq(ResourceUsage)]
  /\ degradationState \in [MonComps -> 0..2]
  /\ ended \in BOOLEAN /\ loop \in {"none", "select", "late"} /\ halted \in BOOLEAN

\* What the last round made of each component.
LevelsOfReadings ==
  \A c \in components : readings[c] # <<>> =>
    degradationState[c] = checkDegradationLevels(readings[c][Len(readings[c])])

\* The history forgets the oldest readings.
HistoryBounded == \A c \in MonComps : Len(usageHistory[c]) <= HistoryMaxLen

MonitorInv == MonitorTypeOK /\ LevelsOfReadings /\ HistoryBounded

LEMMA MonitorInvInit == NewResourceMonitor => MonitorInv
<1> SUFFICES ASSUME NewResourceMonitor PROVE MonitorInv
  OBVIOUS
<1>1. <<>> \in Seq(ResourceUsage) /\ 0 \in 0..2 /\ Len(<<>>) <= HistoryMaxLen
  BY MonitorAssumption, SMT
<1>2. \A c \in MonComps : usageHistory[c] = <<>>
  BY DEF NewResourceMonitor
<1>3. HistoryBounded
  BY <1>1, <1>2 DEF HistoryBounded
<1> QED
  BY <1>1, <1>3 DEF NewResourceMonitor, MonitorInv, MonitorTypeOK, LevelsOfReadings

LEMMA RecordedBounded ==
  ASSUME NEW h \in Seq(ResourceUsage), NEW u \in ResourceUsage, Len(h) <= HistoryMaxLen
  PROVE  Recorded(h, u) \in Seq(ResourceUsage) /\ Len(Recorded(h, u)) <= HistoryMaxLen
<1>1. HistoryMaxLen \in Nat \ {0}
  BY MonitorAssumption
<1>2. CASE Len(h) >= HistoryMaxLen
  <2>1. h # <<>> /\ Recorded(h, u) = Append(Tail(h), u)
    BY <1>1, <1>2, SMT DEF Recorded
  <2> QED
    BY <1>1, <2>1, SMT
<1>3. CASE ~(Len(h) >= HistoryMaxLen)
  BY <1>1, <1>3, SMT DEF Recorded
<1> QED
  BY <1>2, <1>3

LEMMA MonitorInvStep == MonitorInv /\ [MonitorNext]_monitorVars => MonitorInv'
<1> SUFFICES ASSUME MonitorInv, [MonitorNext]_monitorVars PROVE MonitorInv'
  OBVIOUS
<1> USE DEF MonitorInv, MonitorTypeOK
<1>1. ASSUME NEW c \in MonComps, AddComponent(c) \/ RemoveComponent(c) PROVE MonitorInv'
  <2>1. /\ usageHistory' = [usageHistory EXCEPT ![c] = <<>>] /\ readings' = [readings EXCEPT ![c] = <<>>]
        /\ degradationState' = [degradationState EXCEPT ![c] = 0]
        /\ components' \subseteq components \cup {c}
        /\ UNCHANGED <<levels, ended, loop, halted>>
    BY <1>1 DEF AddComponent, RemoveComponent
  <2>2. <<>> \in Seq(ResourceUsage) /\ 0 \in 0..2 /\ Len(<<>>) <= HistoryMaxLen
    BY MonitorAssumption, SMT
  <2>3. HistoryBounded'
    BY <2>1, <2>2 DEF HistoryBounded
  <2>4. ASSUME NEW d \in components', readings'[d] # <<>>
        PROVE  degradationState'[d] = checkDegradationLevels(readings'[d][Len(readings'[d])])
    <3>1. d # c /\ d \in components
      BY <2>1, <2>4
    <3>2. readings'[d] = readings[d] /\ degradationState'[d] = degradationState[d]
      BY <2>1, <3>1
    <3> QED
      BY <2>4, <3>1, <3>2 DEF LevelsOfReadings
  <2>5. LevelsOfReadings'
    BY <2>1, <2>4 DEF LevelsOfReadings, checkDegradationLevels, Applies
  <2> QED
    BY <2>1, <2>2, <2>3, <2>5
<1>2. CASE StartMonitor \/ StopMonitor \/ LoopEnds \/ UNCHANGED monitorVars
  <2>1. UNCHANGED <<levels, components, usageHistory, degradationState, readings>>
    BY <1>2 DEF StartMonitor, StopMonitor, LoopEnds, monitorVars
  <2>2. ended' \in BOOLEAN /\ loop' \in {"none", "select", "late"} /\ halted' \in BOOLEAN
    BY <1>2 DEF StartMonitor, StopMonitor, LoopEnds, monitorVars
  <2> QED
    BY <2>1, <2>2 DEF LevelsOfReadings, HistoryBounded, checkDegradationLevels, Applies
<1>3. ASSUME NEW u \in [MonComps -> ResourceUsage], checkResources(u) PROVE MonitorInv'
  <2>1. /\ DOMAIN usageHistory' = MonComps /\ DOMAIN readings' = MonComps
        /\ DOMAIN degradationState' = MonComps
        /\ usageHistory' = [c \in MonComps |-> usageHistory'[c]]
        /\ readings' = [c \in MonComps |-> readings'[c]]
        /\ degradationState' = [c \in MonComps |-> degradationState'[c]]
        /\ UNCHANGED <<levels, components, ended, loop, halted>>
    BY <1>3 DEF checkResources
  <2>2. ASSUME NEW c \in MonComps
        PROVE  /\ usageHistory'[c] \in Seq(ResourceUsage) /\ Len(usageHistory'[c]) <= HistoryMaxLen
               /\ readings'[c] \in Seq(ResourceUsage)
               /\ degradationState'[c] \in 0..2
               /\ c \in components => degradationState'[c] = checkDegradationLevels(readings'[c][Len(readings'[c])])
    <3>1. CASE c \in components
      <4>1. /\ usageHistory'[c] = Recorded(usageHistory[c], u[c]) /\ readings'[c] = Append(readings[c], u[c])
            /\ degradationState'[c] = checkDegradationLevels(u[c])
        BY <1>3, <3>1 DEF checkResources
      <4>2. u[c] \in ResourceUsage
        OBVIOUS
      <4>3. /\ Append(readings[c], u[c]) \in Seq(ResourceUsage)
            /\ Append(readings[c], u[c])[Len(Append(readings[c], u[c]))] = u[c]
        BY <4>2, SMT
      <4>4. checkDegradationLevels(u[c]) \in 0..2
        BY SMT DEF checkDegradationLevels
      <4> QED
        BY <4>1, <4>2, <4>3, <4>4, RecordedBounded DEF HistoryBounded
    <3>2. CASE c \notin components
      BY <1>3, <3>2 DEF checkResources, HistoryBounded
    <3> QED
      BY <3>1, <3>2
  <2>3. LevelsOfReadings'
    BY <2>1, <2>2 DEF LevelsOfReadings, checkDegradationLevels, Applies
  <2>4. HistoryBounded'
    BY <2>2 DEF HistoryBounded
  <2> QED
    BY <2>1, <2>2, <2>3, <2>4
<1> QED
  BY <1>1, <1>2, <1>3 DEF MonitorNext

\* checkResources (monitor.go) leaves each component at the last level that its newest
\* reading reaches, and never keeps more than HistoryMaxLen readings.
THEOREM LevelsFollowReadings == MonitorSpec => [](MonitorTypeOK /\ HistoryBounded /\ HighestLevel)
<1>1. MonitorInv => HighestLevel
  <2> SUFFICES ASSUME MonitorInv, NEW c \in components, readings[c] # <<>>, NEW u,
                      u = readings[c][Len(readings[c])], NEW i \in 1..2
               PROVE  degradationState[c] = i <=> Applies(i, u) /\ \A j \in (i+1)..2 : ~Applies(j, u)
    BY ZenonT(40) DEF HighestLevel
  <2>1. degradationState[c] = IF Applies(2, u) THEN 2 ELSE IF Applies(1, u) THEN 1 ELSE 0
    BY DEF MonitorInv, LevelsOfReadings, checkDegradationLevels
  <2>2. i = 1 \/ i = 2
    BY SMT
  <2>3. (1+1)..2 = {2} /\ (2+1)..2 = {} /\ 0 # 1 /\ 0 # 2 /\ 1 # 2
    BY SMT
  <2> QED
    BY <2>1, <2>2, <2>3
<1> QED
  BY <1>1, MonitorInvInit, MonitorInvStep, PTL DEF MonitorSpec, MonitorInv

-----------------------------------------------------------------------------
(* The process scanner                                                       *)

Processes == [PIDs -> Infos \cup {NoProcess}]

Event == [type : {"created", "updated", "terminated"}, pid : PIDs, info : Infos \cup {NoProcess}]

ScannerTypeOK ==
  /\ system \in Processes
  /\ scanned \in [{"loop", "force"} -> Processes]
  /\ processCache \in Processes
  /\ eventChannel \in Seq(Event) /\ Len(eventChannel) <= EventChannelSize
  /\ view \in [ProcessConsumers -> Processes]
  /\ synced \subseteq registry /\ registry \subseteq ProcessConsumers

ScannerInv == ScannerTypeOK /\ ConsumersFollow

LEMMA NoProcessesType == NoProcesses \in Processes
BY DEF NoProcesses, Processes

LEMMA ScannerInvInit == NewProcessScanner => ScannerInv
<1> SUFFICES ASSUME NewProcessScanner PROVE ScannerInv
  OBVIOUS
<1>1. eventChannel \in Seq(Event) /\ Len(eventChannel) <= EventChannelSize
  BY ScannerAssumption, SMT DEF NewProcessScanner
<1> QED
  BY <1>1, NoProcessesType DEF NewProcessScanner, ScannerInv, ScannerTypeOK, ConsumersFollow

\* Steps that neither merge nor hand out events.
LEMMA ChannelSame ==
  ASSUME ScannerInv, UNCHANGED <<eventChannel, processCache, view, synced, registry, dropped>>,
         system' \in Processes, scanned' \in [{"loop", "force"} -> Processes]
  PROVE  ScannerInv'
<1>1. ScannerTypeOK'
  BY DEF ScannerInv, ScannerTypeOK
<1>2. \A k, p : LastEvent(k, p)' <=> LastEvent(k, p)
  BY DEF LastEvent
<1>3. /\ eventChannel' = eventChannel /\ processCache' = processCache /\ view' = view
      /\ synced' = synced /\ (dropped' <=> dropped)
  OBVIOUS
<1>4. ASSUME ~dropped, NEW c \in synced, NEW p \in PIDs
      PROVE  \/ \E k \in DOMAIN eventChannel' : LastEvent(k, p)' /\ eventChannel'[k].info = processCache'[p]
             \/ /\ \A k \in DOMAIN eventChannel' : eventChannel'[k].pid # p
                /\ view'[c][p] = processCache'[p]
  <2>1. \/ \E k \in DOMAIN eventChannel : LastEvent(k, p) /\ eventChannel[k].info = processCache[p]
        \/ /\ \A k \in DOMAIN eventChannel : eventChannel[k].pid # p
           /\ view[c][p] = processCache[p]
    BY <1>4 DEF ScannerInv, ConsumersFollow
  <2> QED
    BY <1>2, <1>3, <2>1
<1>5. ConsumersFollow'
  BY <1>3, <1>4 DEF ConsumersFollow
<1> QED
  BY <1>1, <1>5 DEF ScannerInv

LEMMA FilterType == ASSUME NEW f \in Processes PROVE filterProcesses(f) \in Processes
BY DEF Processes, filterProcesses

\* One event of a merge.
LEMMA MergeKeeps ==
  ASSUME ScannerInv, NEW t \in {"loop", "force"}, NEW q \in PIDs, MergeProcess(t, q)
  PROVE  ScannerInv'
<1> DEFINE new == scanned[t]
           y == IF new[q] = NoProcess THEN "terminated"
                ELSE IF processCache[q] = NoProcess THEN "created" ELSE "updated"
           e == [type |-> y, pid |-> q, info |-> new[q]]
<1>1. /\ processCache' = [processCache EXCEPT ![q] = new[q]] /\ queueEvent(e)
      /\ UNCHANGED <<system, scanned, view, synced, registry>>
  BY DEF MergeProcess, EventOf, machine, scans, clients
<1>2. new \in Processes /\ new[q] \in Infos \cup {NoProcess}
  BY DEF ScannerInv, ScannerTypeOK, Processes
<1>3. processCache' \in Processes /\ processCache'[q] = new[q]
        /\ \A p \in PIDs \ {q} : processCache'[p] = processCache[p]
  BY <1>1, <1>2 DEF ScannerInv, ScannerTypeOK, Processes
<1>4. y \in {"created", "updated", "terminated"}
  OBVIOUS
<1> HIDE DEF new, y
<1>5. e \in Event /\ e.pid = q /\ e.info = new[q]
  BY <1>2, <1>4 DEF Event
<1> HIDE DEF e
<1>6. eventChannel \in Seq(Event) /\ EventChannelSize \in Nat \ {0}
  BY ScannerAssumption DEF ScannerInv, ScannerTypeOK
<1>7. CASE Len(eventChannel) < EventChannelSize /\ eventChannel' = Append(eventChannel, e) /\ dropped' = dropped
  <2>1. PICK n :
          /\ eventChannel' \in Seq(Event) /\ Len(eventChannel') <= EventChannelSize
          /\ DOMAIN eventChannel' = DOMAIN eventChannel \cup {n} /\ n \notin DOMAIN eventChannel
          /\ eventChannel'[n] = e
          /\ \A k \in DOMAIN eventChannel : eventChannel'[k] = eventChannel[k] /\ ~(k > n)
          /\ ~(n > n)
    <3> DEFINE n == Len(eventChannel) + 1
    <3>1. /\ eventChannel' \in Seq(Event) /\ Len(eventChannel') <= EventChannelSize
          /\ DOMAIN eventChannel' = DOMAIN eventChannel \cup {n} /\ n \notin DOMAIN eventChannel
          /\ eventChannel'[n] = e
          /\ \A k \in DOMAIN eventChannel : eventChannel'[k] = eventChannel[k] /\ ~(k > n)
          /\ ~(n > n)
      BY <1>5, <1>6, <1>7, SMT
    <3> QED
      BY <3>1
  <2>2. ASSUME ~dropped, NEW c \in synced, NEW p \in PIDs
        PROVE  \/ \E k \in DOMAIN eventChannel' : LastEvent(k, p)' /\ eventChannel'[k].info = processCache'[p]
               \/ /\ \A k \in DOMAIN eventChannel' : eventChannel'[k].pid # p
                  /\ view'[c][p] = processCache'[p]
    <3>1. CASE p = q
      <4>1. LastEvent(n, p)' /\ eventChannel'[n].info = processCache'[p]
        BY <1>3, <1>5, <2>1, <3>1 DEF LastEvent
      <4> QED
        BY <2>1, <4>1
    <3>2. CASE p # q
      <4>1. \/ \E k \in DOMAIN eventChannel : LastEvent(k, p) /\ eventChannel[k].info = processCache[p]
            \/ /\ \A k \in DOMAIN eventChannel : eventChannel[k].pid # p
               /\ view[c][p] = processCache[p]
        BY <2>2 DEF ScannerInv, ConsumersFollow
      <4>2. processCache'[p] = processCache[p] /\ view'[c][p] = view[c][p]
        BY <1>1, <1>3, <3>2
      <4>3. ASSUME NEW k \in DOMAIN eventChannel, LastEvent(k, p) PROVE LastEvent(k, p)'
        BY <1>5, <2>1, <3>2, <4>3 DEF LastEvent
      <4> QED
        BY <1>5, <2>1, <3>2, <4>1, <4>2, <4>3, ZenonT(40)
    <3> QED
      BY <3>1, <3>2
  <2>3. ConsumersFollow'
    BY <1>1, <1>7, <2>2 DEF ConsumersFollow
  <2> QED
    BY <1>1, <1>3, <2>1, <2>3 DEF ScannerInv, ScannerTypeOK
<1>8. CASE dropped' /\ eventChannel' = eventChannel
  BY <1>1, <1>3, <1>8 DEF ScannerInv, ScannerTypeOK, ConsumersFollow
<1> QED
  BY <1>1, <1>7, <1>8 DEF queueEvent

\* The first event of the channel goes to every registered consumer.
LEMMA NotifyKeeps ==
  ASSUME ScannerInv, NotifyAll
  PROVE  ScannerInv'
<1> DEFINE e == Head(eventChannel)
<1>1. /\ eventChannel # <<>> /\ eventChannel' = Tail(eventChannel)
      /\ view' = [c \in ProcessConsumers |-> IF c \in registry THEN [view[c] EXCEPT ![e.pid] = e.info] ELSE view[c]]
      /\ UNCHANGED <<system, scanned, processCache, synced, registry, dropped>>
  BY DEF NotifyAll, machine, scans, cache
<1>2. eventChannel \in Seq(Event) /\ Len(eventChannel) <= EventChannelSize /\ EventChannelSize \in Nat
  BY ScannerAssumption DEF ScannerInv, ScannerTypeOK
<1>3. /\ e \in Event /\ eventChannel' \in Seq(Event) /\ Len(eventChannel') <= EventChannelSize
      /\ \A k \in DOMAIN eventChannel' : k + 1 \in DOMAIN eventChannel /\ eventChannel'[k] = eventChannel[k + 1]
                                           /\ k + 1 > 1
      /\ \A k \in DOMAIN eventChannel :
            k # 1 => k - 1 \in DOMAIN eventChannel' /\ eventChannel'[k - 1] = eventChannel[k]
      /\ \A k \in DOMAIN eventChannel, j \in DOMAIN eventChannel' : j > k - 1 => j + 1 > k
      /\ 1 \in DOMAIN eventChannel /\ eventChannel[1] = e
  BY <1>1, <1>2, SMT
<1>4. e.pid \in PIDs /\ e.info \in Infos \cup {NoProcess}
  BY <1>3 DEF Event
<1> HIDE DEF e
<1>5. view \in [ProcessConsumers -> Processes] /\ synced \subseteq registry /\ registry \subseteq ProcessConsumers
  BY DEF ScannerInv, ScannerTypeOK
<1>6. ASSUME NEW c \in ProcessConsumers
      PROVE  /\ view'[c] \in Processes
             /\ c \in registry => /\ view'[c][e.pid] = e.info
                                  /\ \A p \in PIDs \ {e.pid} : view'[c][p] = view[c][p]
  <2>1. view[c] \in Processes /\ view'[c] = IF c \in registry THEN [view[c] EXCEPT ![e.pid] = e.info] ELSE view[c]
    BY <1>1, <1>5
  <2> QED
    BY <1>4, <2>1 DEF Processes
<1>7. view' \in [ProcessConsumers -> Processes]
  BY <1>1, <1>6
<1>8. ASSUME ~dropped, NEW c \in synced, NEW p \in PIDs
      PROVE  \/ \E k \in DOMAIN eventChannel' : LastEvent(k, p)' /\ eventChannel'[k].info = processCache'[p]
             \/ /\ \A k \in DOMAIN eventChannel' : eventChannel'[k].pid # p
                /\ view'[c][p] = processCache'[p]
  <2>1. /\ c \in registry /\ c \in ProcessConsumers /\ processCache'[p] = processCache[p]
        /\ \/ \E k \in DOMAIN eventChannel : LastEvent(k, p) /\ eventChannel[k].info = processCache[p]
           \/ /\ \A k \in DOMAIN eventChannel : eventChannel[k].pid # p
              /\ view[c][p] = processCache[p]
    BY <1>1, <1>5, <1>8 DEF ScannerInv, ConsumersFollow
  <2>2. ASSUME NEW k \in DOMAIN eventChannel, LastEvent(k, p), eventChannel[k].info = processCache[p], k = 1
        PROVE  /\ \A j \in DOMAIN eventChannel' : eventChannel'[j].pid # p
               /\ view'[c][p] = processCache'[p]
    <3>1. e.pid = p /\ e.info = processCache[p]
      BY <1>3, <2>2 DEF LastEvent
    <3>2. ASSUME NEW j \in DOMAIN eventChannel' PROVE eventChannel'[j].pid # p
      <4>1. j + 1 \in DOMAIN eventChannel /\ j + 1 > 1 /\ eventChannel'[j] = eventChannel[j + 1]
        BY <1>3
      <4> QED
        BY <2>2, <4>1 DEF LastEvent
    <3> QED
      BY <1>6, <2>1, <3>1, <3>2
  <2>3. ASSUME NEW k \in DOMAIN eventChannel, LastEvent(k, p), eventChannel[k].info = processCache[p], k # 1
        PROVE  \E j \in DOMAIN eventChannel' : LastEvent(j, p)' /\ eventChannel'[j].info = processCache'[p]
    <3>1. PICK j : j = k - 1
      OBVIOUS
    <3>2. j \in DOMAIN eventChannel' /\ eventChannel'[j] = eventChannel[k]
      BY <1>3, <2>3, <3>1
    <3>3. ASSUME NEW i \in DOMAIN eventChannel', i > j PROVE eventChannel'[i].pid # p
      <4>1. i + 1 \in DOMAIN eventChannel /\ i + 1 > k /\ eventChannel'[i] = eventChannel[i + 1]
        BY <1>3, <3>1, <3>3
      <4> QED
        BY <2>3, <4>1 DEF LastEvent
    <3>4. LastEvent(j, p)'
      BY <2>3, <3>2, <3>3 DEF LastEvent
    <3> QED
      BY <2>1, <2>3, <3>2, <3>4
  <2>4. ASSUME \A k \in DOMAIN eventChannel : eventChannel[k].pid # p, view[c][p] = processCache[p]
        PROVE  /\ \A k \in DOMAIN eventChannel' : eventChannel'[k].pid # p
               /\ view'[c][p] = processCache'[p]
    <3>1. e.pid # p
      BY <1>3, <2>4
    <3>2. \A k \in DOMAIN eventChannel' : eventChannel'[k].pid # p
      BY <1>3, <2>4
    <3> QED
      BY <1>6, <2>1, <2>4, <3>1, <3>2
  <2> QED
    BY <2>1, <2>2, <2>3, <2>4
<1>9. ConsumersFollow'
  BY <1>1, <1>8 DEF ConsumersFollow
<1> QED
  BY <1>1, <1>3, <1>7, <1>9 DEF ScannerInv, ScannerTypeOK

LEMMA ConsumersKeep ==
  ASSUME ScannerInv, NEW c \in ProcessConsumers, RegisterConsumer(c) \/ UnregisterConsumer(c)
  PROVE  ScannerInv'
<1>1. /\ UNCHANGED <<system, scanned, processCache, eventChannel, dropped>>
      /\ view' = [view EXCEPT ![c] = NoProcesses]
      /\ registry' \subseteq ProcessConsumers /\ synced' \subseteq registry'
      /\ \A d \in synced' : \/ d \in synced /\ d # c
                            \/ processCache = NoProcesses /\ eventChannel = <<>> /\ d = c
  <2> USE DEF machine, scans, cache, chan
  <2>1. synced \subseteq registry /\ registry \subseteq ProcessConsumers
    BY DEF ScannerInv, ScannerTypeOK
  <2>2. CASE RegisterConsumer(c)
    BY <2>1, <2>2 DEF RegisterConsumer
  <2>3. CASE UnregisterConsumer(c)
    BY <2>1, <2>3 DEF UnregisterConsumer
  <2> QED
    BY <2>2, <2>3
<1>2. view \in [ProcessConsumers -> Processes] /\ synced \subseteq ProcessConsumers
  BY DEF ScannerInv, ScannerTypeOK
<1>3. /\ view' \in [ProcessConsumers -> Processes] /\ view'[c] = NoProcesses
      /\ \A d \in ProcessConsumers \ {c} : view'[d] = view[d]
  BY <1>1, <1>2, NoProcessesType
<1>4. \A k, p : LastEvent(k, p)' <=> LastEvent(k, p)
  BY <1>1 DEF LastEvent
<1>5. ASSUME ~dropped, NEW d \in synced', NEW p \in PIDs
      PROVE  \/ \E k \in DOMAIN eventChannel' : LastEvent(k, p)' /\ eventChannel'[k].info = processCache'[p]
             \/ /\ \A k \in DOMAIN eventChannel' : eventChannel'[k].pid # p
                /\ view'[d][p] = processCache'[p]
  <2>1. CASE d \in synced /\ d # c
    <3>1. view'[d] = view[d]
      BY <1>2, <1>3, <2>1
    <3>2. \/ \E k \in DOMAIN eventChannel : LastEvent(k, p) /\ eventChannel[k].info = processCache[p]
          \/ /\ \A k \in DOMAIN eventChannel : eventChannel[k].pid # p
             /\ view[d][p] = processCache[p]
      BY <1>5, <2>1 DEF ScannerInv, ConsumersFollow
    <3> QED
      BY <1>1, <1>4, <3>1, <3>2
  <2>2. CASE processCache = NoProcesses /\ eventChannel = <<>> /\ d = c
    <3>1. DOMAIN eventChannel = {}
      BY <2>2, SMT
    <3> QED
      BY <1>1, <1>3, <2>2, <3>1
  <2> QED
    BY <1>1, <2>1, <2>2
<1>6. ConsumersFollow'
  BY <1>1, <1>5 DEF ConsumersFollow
<1> QED
  BY <1>1, <1>3, <1>6 DEF ScannerInv, ScannerTypeOK

LEMMA ScannerInvStep == ScannerInv /\ [ScannerNext]_scannerVars => ScannerInv'
<1> SUFFICES ASSUME ScannerInv, [ScannerNext]_scannerVars PROVE ScannerInv'
  OBVIOUS
<1> USE DEF machine, scanControl, cache, chan, scans, clients
<1>1. system \in Processes /\ scanned \in [{"loop", "force"} -> Processes]
  BY DEF ScannerInv, ScannerTypeOK
<1>2. CASE UNCHANGED scannerVars
  BY <1>1, <1>2, ChannelSame DEF scannerVars
<1>3. ASSUME NEW p \in PIDs, NEW info \in Infos \cup {NoProcess}, SystemChanges(p, info) PROVE ScannerInv'
  <2>1. system' \in Processes
    BY <1>1, <1>3 DEF SystemChanges, Processes
  <2> QED
    BY <1>1, <1>3, <2>1, ChannelSame DEF SystemChanges
<1>4. CASE \/ ScannerStart \/ (\E then \in {"stop", "shutdown"} : ScannerStop(then)) \/ ScannerStopped
           \/ ShutdownStopped \/ CollectorShutdownFails \/ ForceScan \/ LoopTick \/ LoopEndsScan \/ EventsEnd
  BY <1>1, <1>4, ChannelSame DEF ScannerStart, ScannerStop, ScannerStopped, ShutdownStopped,
     CollectorShutdownFails, ForceScan, LoopTick, LoopEndsScan, EventsEnd
<1>5. CASE ClearCache
  <2>1. processCache' = NoProcesses /\ synced' = {} /\ UNCHANGED <<eventChannel, view, registry, dropped, system, scanned>>
    BY <1>5 DEF ClearCache
  <2> QED
    BY <2>1, NoProcessesType DEF ScannerInv, ScannerTypeOK, ConsumersFollow
<1>6. ASSUME NEW t \in {"loop", "force"}, ScanStep(t) PROVE ScannerInv'
  <2>1. ASSUME NEW err \in BOOLEAN, GetProcesses(t, err) PROVE ScannerInv'
    <3>1. filterProcesses(system) \in Processes
      BY <1>1, FilterType
    <3>2. scanned' \in [{"loop", "force"} -> Processes]
      BY <1>1, <2>1, <3>1, NoProcessesType DEF GetProcesses
    <3> QED
      BY <1>1, <2>1, <3>2, ChannelSame DEF GetProcesses
  <2>2. CASE MergeDone(t)
    <3>1. scanned' \in [{"loop", "force"} -> Processes]
      BY <1>1, <2>2, NoProcessesType DEF MergeDone
    <3> QED
      BY <1>1, <2>2, <3>1, ChannelSame DEF MergeDone
  <2>3. CASE LockCache(t)
    BY <1>1, <2>3, ChannelSame DEF LockCache
  <2>4. ASSUME NEW over \in BOOLEAN, SelfUsage(t, over) PROVE ScannerInv'
    BY <1>1, <2>4, ChannelSame DEF SelfUsage
  <2>5. ASSUME NEW percent, adjustScanInterval(t, percent) PROVE ScannerInv'
    BY <1>1, <2>5, ChannelSame DEF adjustScanInterval
  <2> QED
    BY <1>6, <2>1, <2>2, <2>3, <2>4, <2>5, MergeKeeps DEF ScanStep
<1> QED
  BY <1>2, <1>3, <1>4, <1>5, <1>6, NotifyKeeps, ConsumersKeep DEF ScannerNext

\* queueEvent, processNewScan and processEvents (scanner.go): as long as no event was
\* dropped for want of room, the events in the channel bring every consumer that was
\* registered in time to exactly the cached processes, for any number of processes,
\* consumers and scans at a time.
THEOREM EventsSuffice == ScannerSpec => [](ScannerTypeOK /\ ConsumersFollow)
BY ScannerInvInit, ScannerInvStep, PTL DEF ScannerSpec, ScannerInv

-----------------------------------------------------------------------------
(* Circuit breakers                                                          *)

\* A closed breaker is below its failure threshold, a half-open one below the
\* successes that would close it.
BreakerOK(cfg, b) ==
  /\ b \in CircuitBreakers
  /\ b.state = "closed" => b.failures < cfg.FailureThreshold
  /\ b.state = "half-open" => b.successesInHalfOpen < cfg.HalfOpenSuccessThreshold

LEMMA ConfigFields ==
  ASSUME NEW cfg \in CircuitBreakerConfig
  PROVE  /\ cfg.FailureThreshold \in 1..MaxThreshold /\ cfg.HalfOpenSuccessThreshold \in 1..MaxThreshold
         /\ MaxThreshold \in Nat /\ 0 \in 0..MaxThreshold
         /\ 0 < cfg.FailureThreshold /\ 0 < cfg.HalfOpenSuccessThreshold
<1>1. cfg.FailureThreshold \in 1..MaxThreshold /\ cfg.HalfOpenSuccessThreshold \in 1..MaxThreshold
  BY DEF CircuitBreakerConfig
<1> QED
  BY <1>1, ThresholdAssumption, SMT

LEMMA NewBreakerOK ==
  ASSUME NEW cfg \in CircuitBreakerConfig
  PROVE  BreakerOK(cfg, NewCircuitBreaker)
<1>1. NewCircuitBreaker \in CircuitBreakers /\ NewCircuitBreaker.state = "closed" /\ NewCircuitBreaker.failures = 0
  BY ConfigFields DEF NewCircuitBreaker, CircuitBreakers, CircuitState
<1> QED
  BY <1>1, ConfigFields DEF BreakerOK

LEMMA RecordFailureOK ==
  ASSUME NEW cfg \in CircuitBreakerConfig, NEW b, BreakerOK(cfg, b)
  PROVE  BreakerOK(cfg, RecordFailure(cfg, b))
<1> DEFINE n == b.failures + 1
           c == [b EXCEPT !.failures = n]
<1>1. b \in CircuitBreakers /\ b.failures \in 0..MaxThreshold
  BY DEF BreakerOK, CircuitBreakers
<1>2. CASE cfg.Enabled /\ b.state = "closed"
  <2>1. n \in 0..MaxThreshold
    BY <1>1, <1>2, ConfigFields, SMT DEF BreakerOK
  <2>2. c \in CircuitBreakers /\ c.state = "closed" /\ c.failures = n
    BY <1>1, <1>2, <2>1 DEF CircuitBreakers
  <2>3. RecordFailure(cfg, b) = IF n >= cfg.FailureThreshold THEN toOpen(c) ELSE c
    BY <1>2 DEF RecordFailure
  <2>4. n >= cfg.FailureThreshold \/ n < cfg.FailureThreshold
    BY <2>1, ConfigFields, SMT
  <2>5. ASSUME NEW x \in CircuitBreakers PROVE BreakerOK(cfg, toOpen(x))
    BY ConfigFields DEF BreakerOK, toOpen, CircuitBreakers, CircuitState
  <2> HIDE DEF n, c
  <2> QED
    BY <2>2, <2>3, <2>4, <2>5 DEF BreakerOK
<1>3. CASE cfg.Enabled /\ b.state = "half-open"
  <2>1. RecordFailure(cfg, b) = toOpen(b)
    BY <1>3 DEF RecordFailure
  <2>2. toOpen(b) \in CircuitBreakers /\ toOpen(b).state = "open"
    BY <1>1 DEF toOpen, CircuitBreakers, CircuitState
  <2> QED
    BY <2>1, <2>2 DEF BreakerOK
<1>4. CASE ~(cfg.Enabled /\ b.state = "closed") /\ ~(cfg.Enabled /\ b.state = "half-open")
  BY <1>4 DEF RecordFailure
<1> QED
  BY <1>2, <1>3, <1>4

LEMMA RecordSuccessOK ==
  ASSUME NEW cfg \in CircuitBreakerConfig, NEW b, BreakerOK(cfg, b)
  PROVE  BreakerOK(cfg, RecordSuccess(cfg, b))
<1> DEFINE n == b.successesInHalfOpen + 1
           c == [b EXCEPT !.successesInHalfOpen = n]
<1>1. b \in CircuitBreakers /\ b.successesInHalfOpen \in 0..MaxThreshold
  BY DEF BreakerOK, CircuitBreakers
<1>2. CASE cfg.Enabled /\ b.state = "closed"
  <2> DEFINE x == [b EXCEPT !.failures = 0]
  <2>1. RecordSuccess(cfg, b) = x
    BY <1>2 DEF RecordSuccess
  <2>2. x \in CircuitBreakers /\ x.state = "closed" /\ x.failures = 0
    BY <1>1, <1>2, ConfigFields DEF CircuitBreakers
  <2> QED
    BY <2>1, <2>2, ConfigFields DEF BreakerOK
<1>3. CASE cfg.Enabled /\ b.state = "half-open"
  <2>1. n \in 0..MaxThreshold
    BY <1>1, <1>3, ConfigFields, SMT DEF BreakerOK
  <2>2. c \in CircuitBreakers /\ c.state = "half-open" /\ c.successesInHalfOpen = n
    BY <1>1, <1>3, <2>1 DEF CircuitBreakers
  <2>3. RecordSuccess(cfg, b) = IF n >= cfg.HalfOpenSuccessThreshold THEN toClosed(c) ELSE c
    BY <1>3 DEF RecordSuccess
  <2>4. n >= cfg.HalfOpenSuccessThreshold \/ n < cfg.HalfOpenSuccessThreshold
    BY <2>1, ConfigFields, SMT
  <2>5. ASSUME NEW x \in CircuitBreakers, x.state # "closed" PROVE BreakerOK(cfg, toClosed(x))
    <3>1. toClosed(x) \in CircuitBreakers /\ toClosed(x).state = "closed" /\ toClosed(x).failures = 0
      BY <2>5, ConfigFields DEF toClosed, CircuitBreakers, CircuitState
    <3> QED
      BY <3>1, ConfigFields DEF BreakerOK
  <2> HIDE DEF n, c
  <2> QED
    BY <2>2, <2>3, <2>4, <2>5 DEF BreakerOK
<1>4. CASE ~(cfg.Enabled /\ b.state = "closed") /\ ~(cfg.Enabled /\ b.state = "half-open")
  BY <1>4 DEF RecordSuccess
<1> QED
  BY <1>2, <1>3, <1>4

-----------------------------------------------------------------------------
(* The watchdog                                                              *)

WatchdogTypeOK ==
  /\ registered \subseteq Comps /\ rejoined \subseteq Comps /\ todo \subseteq Comps
  /\ thresholds \in [Comps -> Nat] /\ level \in [Comps -> 0..DegradationLevels]
  /\ breakers \in [Comps -> CircuitBreakers] /\ managers \in [Comps -> RestartManager]
  /\ statuses \in [Comps -> ComponentStatus]
  /\ running \in [Comps -> BOOLEAN] /\ started \in [Comps -> Nat]
  /\ watching \in BOOLEAN /\ done \in BOOLEAN /\ mutex \in {"free", "monitor", "stop"}
  /\ monitor \in {"none", "select", "lock", "check"} /\ detector \in {"none", "select", "lock"}

\* The mutex is with the monitor while it checks; the loops go on only between Start and
\* the end of Stop, so that there are never two of a kind; what the monitor has still
\* to look at is registered.
LoopsOK ==
  /\ monitor = "check" <=> mutex = "monitor"
  /\ monitor = "check" => todo \subseteq registered
  /\ mutex = "stop" => watching /\ done
  /\ ~watching => LoopsGone

BreakersOK == \A c \in Comps : BreakerOK(BreakerConfig, breakers[c])

WatchdogInv == WatchdogTypeOK /\ LoopsOK /\ BreakersOK /\ StatusFollowsBreaker

LEMMA WatchdogConstants ==
  /\ BreakerConfig \in CircuitBreakerConfig /\ DefaultThreshold \in Nat
  /\ DegradationLevels \in Nat /\ 0 \in 0..DegradationLevels /\ 0 \in 0..MaxRestartAttempts
  /\ BackoffInitial \in BackoffInitial..BackoffMax /\ 0 \in Nat
BY WatchdogAssumption, SMT

LEMMA NewComponentOK ==
  /\ NewStatus \in ComponentStatus /\ NewStatus.CircuitState = NewCircuitBreaker.state
  /\ NewRestartManager \in RestartManager
  /\ NewCircuitBreaker \in CircuitBreakers /\ BreakerOK(BreakerConfig, NewCircuitBreaker)
<1>1. NewStatus \in ComponentStatus /\ NewStatus.CircuitState = NewCircuitBreaker.state
  BY WatchdogConstants DEF NewStatus, ComponentStatus, CircuitState, NewCircuitBreaker
<1>2. NewRestartManager \in RestartManager
  BY WatchdogConstants DEF NewRestartManager, RestartManager
<1> QED
  BY <1>1, <1>2, WatchdogConstants, NewBreakerOK DEF BreakerOK

LEMMA WatchdogInvInit == WatchdogInit => WatchdogInv
<1> SUFFICES ASSUME WatchdogInit PROVE WatchdogInv
  OBVIOUS
<1>1. WatchdogTypeOK
  BY WatchdogConstants, NewComponentOK DEF WatchdogInit, WatchdogTypeOK
<1>2. LoopsOK /\ StatusFollowsBreaker
  BY DEF WatchdogInit, LoopsOK, LoopsGone, StatusFollowsBreaker
<1>3. BreakersOK
  BY NewComponentOK DEF WatchdogInit, BreakersOK
<1> QED
  BY <1>1, <1>2, <1>3 DEF WatchdogInv

\* A component gets a breaker and a status of the same state.
LEMMA ComponentKeeps ==
  ASSUME WatchdogInv, NEW c \in Comps, NEW b, BreakerOK(BreakerConfig, b),
         NEW x \in ComponentStatus, x.CircuitState = b.state,
         breakers' = [breakers EXCEPT ![c] = b], statuses' = [statuses EXCEPT ![c] = x],
         registered' \subseteq registered \cup {c}
  PROVE  /\ breakers' \in [Comps -> CircuitBreakers] /\ statuses' \in [Comps -> ComponentStatus]
         /\ BreakersOK' /\ StatusFollowsBreaker'
<1>1. /\ breakers \in [Comps -> CircuitBreakers] /\ statuses \in [Comps -> ComponentStatus]
      /\ registered \subseteq Comps /\ b \in CircuitBreakers
  BY DEF WatchdogInv, WatchdogTypeOK, BreakerOK
<1>2. /\ breakers' \in [Comps -> CircuitBreakers] /\ statuses' \in [Comps -> ComponentStatus]
      /\ breakers'[c] = b /\ statuses'[c] = x
      /\ \A d \in Comps \ {c} : breakers'[d] = breakers[d] /\ statuses'[d] = statuses[d]
  BY <1>1
<1>3. BreakersOK'
  <2>1. ASSUME NEW d \in Comps PROVE BreakerOK(BreakerConfig, breakers'[d])
    <3>1. CASE d = c
      BY <1>2, <3>1
    <3>2. CASE d # c
      BY <1>2, <3>2 DEF WatchdogInv, BreakersOK
    <3> QED
      BY <3>1, <3>2
  <2> QED
    BY <2>1 DEF BreakersOK
<1>4. StatusFollowsBreaker'
  <2>1. ASSUME NEW d \in registered' PROVE statuses'[d].CircuitState = breakers'[d].state
    <3>1. CASE d = c
      BY <1>2, <3>1
    <3>2. CASE d # c
      BY <1>1, <1>2, <3>2 DEF WatchdogInv, StatusFollowsBreaker
    <3> QED
      BY <3>1, <3>2
  <2> QED
    BY <2>1 DEF StatusFollowsBreaker
<1> QED
  BY <1>2, <1>3, <1>4

\* Start, Stop, the ticks of the loops and their locks.
LEMMA LoopsKeep ==
  ASSUME WatchdogInv,
         \/ StartWatchdog \/ StopWatchdog \/ StopWatchdogReturns
         \/ MonitorTick \/ MonitorEnds \/ MonitorLocks \/ MonitorUnlocks
         \/ DetectorTick \/ DetectorEnds
  PROVE  WatchdogInv'
<1>1. UNCHANGED <<perComp, own, detected>>
  BY DEF StartWatchdog, StopWatchdog, StopWatchdogReturns, MonitorTick, MonitorEnds, MonitorLocks,
         MonitorUnlocks, DetectorTick, DetectorEnds
<1>2. BreakersOK' /\ StatusFollowsBreaker'
  BY <1>1 DEF perComp, WatchdogInv, BreakersOK, StatusFollowsBreaker
<1>3. /\ watching \in BOOLEAN /\ done \in BOOLEAN /\ mutex \in {"free", "monitor", "stop"}
      /\ monitor \in {"none", "select", "lock", "check"} /\ detector \in {"none", "select", "lock"}
      /\ todo \subseteq Comps /\ registered \subseteq Comps
  BY DEF WatchdogInv, WatchdogTypeOK
<1>4. /\ watching' \in BOOLEAN /\ done' \in BOOLEAN /\ mutex' \in {"free", "monitor", "stop"}
      /\ monitor' \in {"none", "select", "lock", "check"} /\ detector' \in {"none", "select", "lock"}
      /\ todo' \subseteq Comps
  BY <1>3 DEF StartWatchdog, StopWatchdog, StopWatchdogReturns, MonitorTick, MonitorEnds, MonitorLocks,
         MonitorUnlocks, DetectorTick, DetectorEnds
<1>5. WatchdogTypeOK'
  BY <1>1, <1>4 DEF perComp, own, WatchdogInv, WatchdogTypeOK
<1>6. LoopsOK'
  <2> USE DEF WatchdogInv, LoopsOK, LoopsGone
  <2>1. registered' = registered
    BY <1>1 DEF perComp
  <2>2. CASE StartWatchdog
    BY <2>1, <2>2 DEF StartWatchdog
  <2>3. CASE StopWatchdog
    BY <2>1, <2>3 DEF StopWatchdog
  <2>4. CASE StopWatchdogReturns
    BY <2>1, <2>4 DEF StopWatchdogReturns
  <2>5. CASE MonitorTick \/ MonitorEnds
    BY <2>1, <2>5 DEF MonitorTick, MonitorEnds
  <2>6. CASE MonitorLocks \/ MonitorUnlocks
    BY <2>1, <2>6 DEF MonitorLocks, MonitorUnlocks
  <2>7. CASE DetectorTick \/ DetectorEnds
    BY <2>1, <2>7 DEF DetectorTick, DetectorEnds
  <2> QED
    BY <2>2, <2>3, <2>4, <2>5, <2>6, <2>7
<1> QED
  BY <1>2, <1>5, <1>6 DEF WatchdogInv

\* The callers of the watchdog, the components themselves, and time.
LEMMA CallersKeep ==
  ASSUME WatchdogInv, NEW c \in Comps,
         \/ RegisterComponent(c) \/ UnregisterComponent(c) \/ ComponentChanges(c)
         \/ \E t \in 0..MaxUsage : SetThresholds(c, t)
         \/ BackoffPasses(c)
  PROVE  WatchdogInv'
<1> USE DEF perComp, own, loops
<1>1. CASE RegisterComponent(c)
  <2>1. /\ breakers' \in [Comps -> CircuitBreakers] /\ statuses' \in [Comps -> ComponentStatus]
        /\ BreakersOK' /\ StatusFollowsBreaker'
    BY <1>1, NewComponentOK, ComponentKeeps DEF RegisterComponent
  <2>2. /\ registered' \subseteq Comps /\ thresholds' \in [Comps -> Nat]
        /\ managers' \in [Comps -> RestartManager] /\ UNCHANGED <<own, loops, detected>>
    BY <1>1, NewComponentOK, WatchdogConstants DEF RegisterComponent, WatchdogInv, WatchdogTypeOK
  <2>3. LoopsOK'
    <3>1. mutex = "free" /\ UNCHANGED <<watching, done, mutex, todo, monitor, detector>>
      BY <1>1 DEF RegisterComponent
    <3> QED
      BY <3>1 DEF WatchdogInv, LoopsOK, LoopsGone
  <2> QED
    BY <2>1, <2>2, <2>3 DEF WatchdogInv, WatchdogTypeOK
<1>2. CASE UnregisterComponent(c)
  <2>1. /\ registered' \subseteq registered /\ rejoined' \subseteq Comps /\ mutex = "free"
        /\ UNCHANGED <<thresholds, breakers, managers, statuses, running, level, started, loops, detected>>
    BY <1>2 DEF UnregisterComponent, WatchdogInv, WatchdogTypeOK
  <2>2. WatchdogTypeOK' /\ BreakersOK' /\ StatusFollowsBreaker'
    BY <2>1 DEF WatchdogInv, WatchdogTypeOK, BreakersOK, StatusFollowsBreaker
  <2>3. LoopsOK'
    BY <2>1 DEF WatchdogInv, LoopsOK, LoopsGone
  <2> QED
    BY <2>2, <2>3 DEF WatchdogInv
<1>3. ASSUME running' \in [Comps -> BOOLEAN], thresholds' \in [Comps -> Nat], managers' \in [Comps -> RestartManager],
             UNCHANGED <<registered, breakers, statuses, level, started, rejoined, loops, detected>>
      PROVE  WatchdogInv'
  <2>1. WatchdogTypeOK' /\ BreakersOK' /\ StatusFollowsBreaker'
    BY <1>3 DEF WatchdogInv, WatchdogTypeOK, BreakersOK, StatusFollowsBreaker
  <2>2. LoopsOK'
    BY <1>3 DEF WatchdogInv, LoopsOK, LoopsGone
  <2> QED
    BY <2>1, <2>2 DEF WatchdogInv
<1>4. CASE ComponentChanges(c)
  BY <1>3, <1>4 DEF ComponentChanges, WatchdogInv, WatchdogTypeOK
<1>5. ASSUME NEW t \in 0..MaxUsage, SetThresholds(c, t) PROVE WatchdogInv'
  <2>1. t \in Nat
    BY WatchdogAssumption, SMT
  <2> QED
    BY <1>3, <1>5, <2>1 DEF SetThresholds, WatchdogInv, WatchdogTypeOK
<1>6. CASE BackoffPasses(c)
  <2>1. managers[c] \in RestartManager
    BY DEF WatchdogInv, WatchdogTypeOK
  <2>2. [managers[c] EXCEPT !.waiting = FALSE] \in RestartManager
    BY <2>1 DEF RestartManager
  <2> QED
    BY <1>3, <1>6, <2>2 DEF BackoffPasses, WatchdogInv, WatchdogTypeOK
<1> QED
  BY <1>1, <1>2, <1>4, <1>5, <1>6

LEMMA LevelOK ==
  ASSUME NEW h, NEW l \in 0..DegradationLevels
  PROVE  NewLevel(h, l) \in 0..DegradationLevels
<1>1. DegradationLevels \in 0..DegradationLevels /\ Smaller(l + 1, DegradationLevels) \in 0..DegradationLevels
  BY WatchdogConstants, SMT DEF Smaller
<1> QED
  BY <1>1 DEF NewLevel

LEMMA BackoffOK ==
  ASSUME NEW m \in RestartManager
  PROVE  Backoff(m) \in BackoffInitial..BackoffMax
<1>1. m.currentBackoff \in BackoffInitial..BackoffMax
  BY DEF RestartManager
<1> DEFINE k == m.currentBackoff
<1>2. k * BackoffFactor \in Nat /\ k * BackoffFactor >= k
  <2> HIDE DEF k
  <2>1. k \in Nat /\ BackoffFactor \in Nat /\ BackoffFactor >= 1
    BY <1>1, WatchdogAssumption, SMT DEF k
  <2> QED
    BY <2>1, SMT
<1> QED
  BY <1>1, <1>2, WatchdogAssumption, SMT DEF Backoff, Smaller

\* AttemptRestart, whatever Start returns.
LEMMA AttemptKeeps ==
  ASSUME WatchdogInv, NEW c \in Comps, NEW ok \in BOOLEAN, AttemptRestart(c, ok)
  PROVE  /\ running' \in [Comps -> BOOLEAN] /\ started' \in [Comps -> Nat]
         /\ managers' \in [Comps -> RestartManager]
         /\ \A d \in Comps :
              managers[d].restartAttempts = MaxRestartAttempts
                => started'[d] = started[d] /\ managers'[d].restartAttempts = MaxRestartAttempts
<1>1. /\ running \in [Comps -> BOOLEAN] /\ started \in [Comps -> Nat]
      /\ managers \in [Comps -> RestartManager] /\ managers[c] \in RestartManager
  BY DEF WatchdogInv, WatchdogTypeOK
<1>2. CASE ~(~GivenUp(c) /\ Starts(c))
  BY <1>1, <1>2 DEF AttemptRestart
<1>3. CASE ~GivenUp(c) /\ Starts(c)
  <2> DEFINE m == managers[c]
             failed == [restartAttempts |-> m.restartAttempts + 1, waiting |-> TRUE, currentBackoff |-> Backoff(m)]
             good == [NewRestartManager EXCEPT !.waiting = TRUE]
             new == IF ok THEN good ELSE failed
  <2>1. m.restartAttempts \in 0..MaxRestartAttempts
    BY <1>1 DEF RestartManager
  <2>2. m.restartAttempts + 1 \in 0..MaxRestartAttempts /\ m.restartAttempts # MaxRestartAttempts
    BY <1>3, <2>1, WatchdogAssumption, SMT DEF GivenUp
  <2>3. failed \in RestartManager
    BY <1>1, <2>2, BackoffOK DEF RestartManager
  <2>4. good \in RestartManager
    BY NewComponentOK DEF RestartManager
  <2>5. /\ started' = [started EXCEPT ![c] = @ + 1] /\ running' = [running EXCEPT ![c] = ok]
        /\ managers' = [managers EXCEPT ![c] = new]
    BY <1>3 DEF AttemptRestart
  <2>6. started[c] + 1 \in Nat
    BY <1>1, SMT
  <2>7. new \in RestartManager
    BY <2>3, <2>4
  <2> HIDE DEF new, good, failed
  <2>8. /\ running' \in [Comps -> BOOLEAN] /\ started' \in [Comps -> Nat]
        /\ managers' \in [Comps -> RestartManager]
        /\ \A d \in Comps \ {c} : managers'[d] = managers[d] /\ started'[d] = started[d]
    BY <1>1, <2>5, <2>6, <2>7
  <2>9. ASSUME NEW d \in Comps, managers[d].restartAttempts = MaxRestartAttempts
        PROVE  started'[d] = started[d] /\ managers'[d].restartAttempts = MaxRestartAttempts
    BY <2>2, <2>8, <2>9
  <2> QED
    BY <2>8, <2>9
<1> QED
  BY <1>2, <1>3

\* One component looked at, the rest of the report left to the next steps.
LEMMA ReportKeeps ==
  ASSUME WatchdogInv, NEW c \in Comps, NEW b, BreakerOK(BreakerConfig, b),
         NEW x \in ComponentStatus, x.CircuitState = b.state, NEW l \in 0..DegradationLevels,
         breakers' = [breakers EXCEPT ![c] = b], statuses' = [statuses EXCEPT ![c] = x],
         level' = [level EXCEPT ![c] = l], todo' = todo \ {c},
         running' \in [Comps -> BOOLEAN], started' \in [Comps -> Nat],
         managers' \in [Comps -> RestartManager],
         UNCHANGED <<registered, thresholds, rejoined, watching, done, mutex, monitor, detector, detected>>
  PROVE  WatchdogInv'
<1>1. /\ breakers' \in [Comps -> CircuitBreakers] /\ statuses' \in [Comps -> ComponentStatus]
      /\ BreakersOK' /\ StatusFollowsBreaker'
  BY ComponentKeeps
<1>2. level' \in [Comps -> 0..DegradationLevels] /\ todo' \subseteq todo
  BY DEF WatchdogInv, WatchdogTypeOK
<1>3. WatchdogTypeOK'
  BY <1>1, <1>2 DEF WatchdogInv, WatchdogTypeOK
<1>4. LoopsOK'
  BY <1>2 DEF WatchdogInv, LoopsOK, LoopsGone
<1> QED
  BY <1>1, <1>3, <1>4 DEF WatchdogInv

\* A component above its thresholds.
LEMMA ExceededKeeps ==
  ASSUME WatchdogInv, NEW c \in Comps, NEW usage, NEW h, NEW set \in BOOLEAN, NEW ok \in BOOLEAN,
         MonitorExceeded(c, usage, h, set, ok)
  PROVE  /\ WatchdogInv'
         /\ \A d \in Comps :
              managers[d].restartAttempts = MaxRestartAttempts
                => started'[d] = started[d] /\ managers'[d].restartAttempts = MaxRestartAttempts
<1> DEFINE b == RecordFailure(BreakerConfig, breakers[c])
           old == statuses[c].DegradationLevel
           new == NewLevel(h, old)
           changed == c \in Degradables /\ set /\ new # old
           opened == c \in Restartables /\ b.state = "open"
           again == opened /\ Restarted(c, ok)
           l == IF changed THEN new ELSE level[c]
           x == [CircuitState |-> b.state,
                 DegradationLevel |-> StatusLevel(old, new, changed),
                 RestartCount |-> statuses[c].RestartCount + IF again THEN 1 ELSE 0,
                 Incidents |-> WithIncident(statuses[c].Incidents) + IF opened /\ ~again THEN 1 ELSE 0]
<1>1. /\ breakers' = [breakers EXCEPT ![c] = b] /\ statuses' = [statuses EXCEPT ![c] = x]
      /\ level' = [level EXCEPT ![c] = l] /\ todo' = todo \ {c}
      /\ UNCHANGED <<registered, thresholds, rejoined, watching, done, mutex, monitor, detector, detected>>
      /\ AttemptRestart(c, ok) \/ UNCHANGED <<started, running, managers>>
  BY DEF MonitorExceeded
<1>2. BreakerOK(BreakerConfig, b) /\ b.state \in CircuitState
  <2>1. BreakerOK(BreakerConfig, b)
    BY WatchdogConstants, RecordFailureOK DEF WatchdogInv, BreakersOK
  <2> QED
    BY <2>1 DEF BreakerOK, CircuitBreakers
<1>3. /\ statuses[c].RestartCount \in Nat /\ statuses[c].Incidents \in Nat
      /\ old \in 0..DegradationLevels /\ level[c] \in 0..DegradationLevels
  BY DEF WatchdogInv, WatchdogTypeOK, ComponentStatus
<1>4. new \in 0..DegradationLevels
  BY <1>3, LevelOK
<1>5. x \in ComponentStatus /\ x.CircuitState = b.state /\ l \in 0..DegradationLevels
  <2>1. StatusLevel(old, new, changed) \in 0..DegradationLevels /\ l \in 0..DegradationLevels
    BY <1>3, <1>4 DEF StatusLevel
  <2>2. statuses[c].RestartCount + (IF again THEN 1 ELSE 0) \in Nat
    <3> HIDE DEF again
    <3> QED
      BY <1>3, SMT
  <2>3. WithIncident(statuses[c].Incidents) + (IF opened /\ ~again THEN 1 ELSE 0) \in Nat
    <3> HIDE DEF again, opened
    <3> QED
      BY <1>3, WatchdogAssumption, SMT DEF WithIncident, Limited
  <2> HIDE DEF b, old, new, changed, opened, again
  <2> QED
    BY <1>2, <2>1, <2>2, <2>3 DEF ComponentStatus
<1>6. /\ running' \in [Comps -> BOOLEAN] /\ started' \in [Comps -> Nat]
      /\ managers' \in [Comps -> RestartManager]
      /\ \A d \in Comps :
           managers[d].restartAttempts = MaxRestartAttempts
             => started'[d] = started[d] /\ managers'[d].restartAttempts = MaxRestartAttempts
  <2>1. CASE AttemptRestart(c, ok)
    BY <2>1, AttemptKeeps
  <2>2. CASE UNCHANGED <<started, running, managers>>
    BY <2>2 DEF WatchdogInv, WatchdogTypeOK
  <2> QED
    BY <1>1, <2>1, <2>2
<1> HIDE DEF b, old, new, changed, opened, again, l, x
<1> QED
  BY <1>1, <1>2, <1>5, <1>6, ReportKeeps

\* A component within them.
LEMMA WithinKeeps ==
  ASSUME WatchdogInv, NEW c \in Comps, NEW usage, NEW set \in BOOLEAN, MonitorWithin(c, usage, set)
  PROVE  WatchdogInv' /\ UNCHANGED <<started, managers>>
<1> DEFINE b == RecordSuccess(BreakerConfig, breakers[c])
           ends == b.state = "closed" /\ c \in Degradables /\ set /\ statuses[c].DegradationLevel > 0
           l == IF ends THEN 0 ELSE level[c]
           x == [statuses[c] EXCEPT !.CircuitState = b.state, !.DegradationLevel = StatusLevel(@, 0, ends)]
<1>1. /\ breakers' = [breakers EXCEPT ![c] = b] /\ level' = [level EXCEPT ![c] = l] /\ todo' = todo \ {c}
      /\ UNCHANGED <<registered, thresholds, rejoined, watching, done, mutex, monitor, detector, detected>>
      /\ UNCHANGED <<started, running, managers>>
  BY DEF MonitorWithin
<1>2. BreakerOK(BreakerConfig, b) /\ b.state \in CircuitState
  <2>1. BreakerOK(BreakerConfig, b)
    BY WatchdogConstants, RecordSuccessOK DEF WatchdogInv, BreakersOK
  <2> QED
    BY <2>1 DEF BreakerOK, CircuitBreakers
<1>3. /\ statuses \in [Comps -> ComponentStatus] /\ statuses[c] \in ComponentStatus
      /\ statuses[c].DegradationLevel \in 0..DegradationLevels /\ level[c] \in 0..DegradationLevels
  BY DEF WatchdogInv, WatchdogTypeOK, ComponentStatus
<1>4. StatusLevel(statuses[c].DegradationLevel, 0, ends) \in 0..DegradationLevels /\ l \in 0..DegradationLevels
  BY <1>3, WatchdogConstants DEF StatusLevel
<1>5. x \in ComponentStatus /\ x.CircuitState = b.state
  <2> HIDE DEF b, ends
  <2> QED
    BY <1>2, <1>3, <1>4 DEF ComponentStatus
<1>6. statuses' = [statuses EXCEPT ![c] = x]
  BY DEF MonitorWithin
<1>7. /\ running' \in [Comps -> BOOLEAN] /\ started' \in [Comps -> Nat]
      /\ managers' \in [Comps -> RestartManager]
  BY <1>1 DEF WatchdogInv, WatchdogTypeOK
<1> HIDE DEF b, ends, l, x
<1> QED
  BY <1>1, <1>2, <1>4, <1>5, <1>6, <1>7, ReportKeeps

\* Any number of deadlocks at once.
LEMMA DetectKeeps ==
  ASSUME WatchdogInv, NEW found \in SUBSET registered, DetectDeadlocks(found)
  PROVE  WatchdogInv' /\ UNCHANGED <<started, managers>>
<1>1. /\ breakers' = [c \in Comps |-> IF c \in found THEN RecordFailure(BreakerConfig, breakers[c]) ELSE breakers[c]]
      /\ statuses' = [c \in Comps |-> IF c \in found THEN Deadlocked(c) ELSE statuses[c]]
      /\ UNCHANGED <<registered, thresholds, managers, running, level, started, rejoined, watching, done, mutex,
                     todo, monitor>>
      /\ detector = "lock" /\ mutex = "free" /\ detector' = "select"
  BY DEF DetectDeadlocks, own
<1>2. registered \subseteq Comps
  BY DEF WatchdogInv, WatchdogTypeOK
<1>3. ASSUME NEW c \in Comps
      PROVE  /\ BreakerOK(BreakerConfig, breakers'[c]) /\ breakers'[c] \in CircuitBreakers
             /\ statuses'[c] \in ComponentStatus
             /\ c \in registered => statuses'[c].CircuitState = breakers'[c].state
  <2>1. /\ statuses[c] \in ComponentStatus /\ statuses[c].Incidents \in Nat
        /\ BreakerOK(BreakerConfig, breakers[c]) /\ breakers[c] \in CircuitBreakers
    BY DEF WatchdogInv, WatchdogTypeOK, ComponentStatus, BreakersOK
  <2>2. CASE c \notin found
    BY <1>1, <2>1, <2>2 DEF WatchdogInv, StatusFollowsBreaker
  <2>3. CASE c \in found
    <3> DEFINE b == RecordFailure(BreakerConfig, breakers[c])
    <3>1. BreakerOK(BreakerConfig, b)
      BY <2>1, WatchdogConstants, RecordFailureOK
    <3>2. b \in CircuitBreakers /\ b.state \in CircuitState
      BY <3>1 DEF BreakerOK, CircuitBreakers
    <3>3. statuses[c].Incidents + 1 \in Nat
      BY <2>1, SMT
    <3>4. Deadlocked(c) \in ComponentStatus /\ Deadlocked(c).CircuitState = b.state
      BY <2>1, <3>2, <3>3 DEF Deadlocked, ComponentStatus
    <3> QED
      BY <1>1, <2>3, <3>1, <3>2, <3>4
  <2> QED
    BY <2>2, <2>3
<1>4. BreakersOK' /\ StatusFollowsBreaker'
  BY <1>1, <1>2, <1>3 DEF BreakersOK, StatusFollowsBreaker
<1>5. breakers' \in [Comps -> CircuitBreakers] /\ statuses' \in [Comps -> ComponentStatus]
  <2>1. breakers' = [c \in Comps |-> breakers'[c]] /\ statuses' = [c \in Comps |-> statuses'[c]]
    BY <1>1
  <2> QED
    BY <1>3, <2>1
<1>6. WatchdogTypeOK'
  BY <1>1, <1>5 DEF WatchdogInv, WatchdogTypeOK
<1>7. LoopsOK'
  BY <1>1 DEF WatchdogInv, LoopsOK, LoopsGone
<1> QED
  BY <1>1, <1>4, <1>6, <1>7 DEF WatchdogInv

LEMMA WatchdogInvStep == WatchdogInv /\ [WatchdogNext]_watchdogVars => WatchdogInv'
<1> SUFFICES ASSUME WatchdogInv, [WatchdogNext]_watchdogVars PROVE WatchdogInv'
  OBVIOUS
<1>1. CASE UNCHANGED watchdogVars
  BY <1>1 DEF watchdogVars, perComp, own, loops, WatchdogInv, WatchdogTypeOK, LoopsOK, LoopsGone, BreakersOK,
              StatusFollowsBreaker
<1>2. CASE Monitoring
  BY <1>2, LoopsKeep, ExceededKeeps, WithinKeeps DEF Monitoring
<1>3. CASE Detecting
  BY <1>3, LoopsKeep, DetectKeeps DEF Detecting
<1> QED
  BY <1>1, <1>2, <1>3, LoopsKeep, CallersKeep DEF WatchdogNext

\* monitorComponents, detectDeadlocks and RegisterComponent (watchdog.go): the circuit
\* state GetComponentStatus reports is the breaker's, for any set of components,
\* thresholds and breaker configuration, whatever the loops and the callers interleave.
THEOREM StatusIsBreakers == WatchdogSpec => [](WatchdogTypeOK /\ LoopsOK /\ StatusFollowsBreaker)
BY WatchdogInvInit, WatchdogInvStep, PTL DEF WatchdogSpec, WatchdogInv

\* AttemptRestart (restart.go): after MaxRestartAttempts failed starts in a row neither the
\* monitor nor anybody else starts the component, as long as it stays registered.
THEOREM RestartsGiveUp == WatchdogSpec => GivesUp
<1> DEFINE Kept == \A c \in registered \cap registered' :
                     managers[c].restartAttempts = MaxRestartAttempts
                       => started'[c] = started[c] /\ managers'[c].restartAttempts = MaxRestartAttempts
<1>1. ASSUME WatchdogInv, [WatchdogNext]_watchdogVars PROVE [Kept]_watchdogVars
  <2> SUFFICES ASSUME WatchdogNext PROVE Kept
    BY <1>1
  <2>1. registered \subseteq Comps /\ managers \in [Comps -> RestartManager]
    BY <1>1 DEF WatchdogInv, WatchdogTypeOK
  <2>2. ASSUME UNCHANGED <<started, managers>> PROVE Kept
    BY <2>2
  <2>3. CASE \/ StartWatchdog \/ StopWatchdog \/ StopWatchdogReturns \/ MonitorTick \/ DetectorTick
             \/ MonitorEnds \/ MonitorLocks \/ MonitorUnlocks \/ DetectorEnds
    BY <2>2, <2>3 DEF StartWatchdog, StopWatchdog, StopWatchdogReturns, MonitorTick, DetectorTick, MonitorEnds,
                      MonitorLocks, MonitorUnlocks, DetectorEnds, perComp, own
  <2>4. ASSUME NEW c \in Comps, UnregisterComponent(c) \/ ComponentChanges(c) \/ \E t \in 0..MaxUsage : SetThresholds(c, t)
        PROVE  Kept
    BY <2>2, <2>4 DEF UnregisterComponent, ComponentChanges, SetThresholds, perComp, own
  <2>5. ASSUME NEW c \in Comps, RegisterComponent(c) PROVE Kept
    BY <2>1, <2>5 DEF RegisterComponent, own
  <2>6. ASSUME NEW c \in Comps, BackoffPasses(c) PROVE Kept
    <3>1. \A d \in Comps : managers'[d].restartAttempts = managers[d].restartAttempts
      <4>1. managers' = [managers EXCEPT ![c].waiting = FALSE]
        BY <2>6 DEF BackoffPasses
      <4>2. \A d \in Comps : d # c => managers'[d] = managers[d]
        BY <2>1, <4>1
      <4>3. managers'[c] = [managers[c] EXCEPT !.waiting = FALSE] /\ managers[c] \in RestartManager
        BY <2>1, <4>1
      <4>4. managers'[c].restartAttempts = managers[c].restartAttempts
        BY <4>3 DEF RestartManager
      <4> QED
        BY <4>2, <4>4
    <3>2. started' = started
      BY <2>6 DEF BackoffPasses, own
    <3> QED
      BY <2>1, <3>1, <3>2
  <2>7. CASE Monitoring
    <3>1. ASSUME NEW c \in Comps, NEW usage, NEW h, NEW set \in BOOLEAN, NEW ok \in BOOLEAN,
                 MonitorExceeded(c, usage, h, set, ok)
          PROVE  Kept
      BY <1>1, <2>1, <3>1, ExceededKeeps
    <3>2. ASSUME NEW c \in Comps, NEW usage, NEW set \in BOOLEAN, MonitorWithin(c, usage, set) PROVE Kept
      BY <1>1, <2>2, <3>2, WithinKeeps
    <3> QED
      BY <2>3, <2>7, <3>1, <3>2 DEF Monitoring
  <2>8. CASE Detecting
    BY <1>1, <2>2, <2>3, <2>8, DetectKeeps DEF Detecting
  <2> HIDE DEF Kept
  <2> QED
    BY <2>3, <2>4, <2>5, <2>6, <2>7, <2>8 DEF WatchdogNext
<1>2. WatchdogSpec => []WatchdogInv
  BY WatchdogInvInit, WatchdogInvStep, PTL DEF WatchdogSpec
<1> QED
  BY <1>1, <1>2, PTL DEF WatchdogSpec, GivesUp

-----------------------------------------------------------------------------
(* The supervisor of the log forwarder                                       *)

Resolver ==
  [short : ShortAnswers, full : FullAnswers, channel : {<<>>, <<"Short">>, <<"ShortAndFull">>}]

Sources ==
  [files : Nat, valid : BOOLEAN, id : Nat, event : BOOLEAN,
   names : [short : ShortAnswers, full : FullAnswers, internal : FullAnswers], changes : Nat]

Built == Nat \X Nat \X ShortAnswers

Supervisor ==
  [pc : {"build", "names", "save", "blocked", "select", "exit", "backoff", "ended"},
   restart : BOOLEAN, built : Built, temps : SUBSET Nat, failed : BOOLEAN, stopped : BOOLEAN]

Forwarder ==
  [from : Built, ctx : {"live", "done"}, process : {"runs", "ended"}, status : {"none", "sent", "read"}]

SupervisorTypeOK ==
  /\ resolver \in Resolver
  /\ sources \in Sources
  /\ supervisor \in Supervisor
  /\ forwarders \in Seq(Forwarder)

\* The files are numbered like the processes they were written for.
TempsOfForwarders ==
  /\ supervisor.temps \subseteq 1..Current
  /\ supervisor.pc = "select" => Current \in supervisor.temps
  /\ supervisor.pc \in {"select", "exit"} => Current # 0

\* A forwarder that runs and is not told to end.
Alive(p) == forwarders[p].process = "runs" /\ forwarders[p].ctx = "live"

\* A forwarder that is alive has sent no status and is the one the select waits for.
Watched ==
  \A p \in DOMAIN forwarders :
    Alive(p) => forwarders[p].status = "none" /\ supervisor.pc = "select" /\ p = Current

\* What is built, or runs, is of now unless a notification is under way.
BuiltOfNow ==
  /\ supervisor.pc \in {"names", "save"} /\ ~sources.event /\ ~supervisor.restart
       => supervisor.built[1] = sources.files
  /\ supervisor.pc = "save" /\ ~supervisor.restart => supervisor.built[2] = sources.id
  /\ supervisor.pc = "save" /\ resolver.channel = <<>> => supervisor.built[3] = resolver.short
  /\ supervisor.pc = "blocked" /\ ~sources.event /\ ~supervisor.restart
       => ~sources.valid \/ supervisor.failed

RunsOfNow ==
  supervisor.pc = "select" =>
    /\ ~sources.event /\ ~supervisor.restart => forwarders[Current].from[1] = sources.files
    /\ ~supervisor.restart => forwarders[Current].from[2] = sources.id
    /\ resolver.channel = <<>> => forwarders[Current].from[3] = resolver.short

SupervisorInv == SupervisorTypeOK /\ TempsOfForwarders /\ Watched /\ BuiltOfNow /\ RunsOfNow

LEMMA SupervisorInvInit == SupervisorInit => SupervisorInv
<1> SUFFICES ASSUME SupervisorInit PROVE SupervisorInv
  OBVIOUS
<1>1. PICK n \in Answers :
        sources = [files |-> 1, valid |-> TRUE, id |-> 1, event |-> FALSE, names |-> n, changes |-> 0]
  BY DEF SupervisorInit
<1>2. n \in [short : ShortAnswers, full : FullAnswers, internal : FullAnswers]
  BY SupervisorAssumption
<1>3. sources \in Sources
  <2>1. 0 \in Nat /\ 1 \in Nat
    BY SMT
  <2> QED
    BY <1>1, <1>2, <2>1 DEF Sources
<1>4. resolver \in Resolver
  BY DEF SupervisorInit, ResolverInit, Resolver, ShortAnswers, FullAnswers
<1>5. <<0, 0, NoName>> \in Built
  BY SMT DEF Built, ShortAnswers
<1>6. supervisor \in Supervisor /\ supervisor.pc = "build" /\ supervisor.temps = {}
  BY <1>5 DEF SupervisorInit, Supervisor
<1>7. forwarders \in Seq(Forwarder) /\ DOMAIN forwarders = {}
  BY SMT DEF SupervisorInit
<1> QED
  BY <1>3, <1>4, <1>6, <1>7
  DEF SupervisorInv, SupervisorTypeOK, TempsOfForwarders, Watched, BuiltOfNow, RunsOfNow

\* A query keeps the short name unless it leaves a notification.
LEMMA QueryNotifies ==
  ASSUME SupervisorTypeOK, QueryNow
  PROVE  /\ resolver' \in Resolver
         /\ resolver'.channel = <<>> => resolver.channel = <<>> /\ resolver'.short = resolver.short
<1> DEFINE short == sources.names.short
           full == QueriedFull(short, sources.names.full, sources.names.internal)
           newShort == short # NoName /\ short # resolver.short
           newFull == full # NoName /\ full # resolver.full
           s == IF newShort THEN short ELSE resolver.short
           f == IF newFull THEN full ELSE resolver.full
           c == IF (newShort \/ newFull) /\ resolver.channel = <<>>
                  THEN <<What(short, full)>> ELSE resolver.channel
<1>1. resolver' = [short |-> s, full |-> f, channel |-> c]
  BY DEF QueryNow, Query, Update
<1>2. /\ short \in ShortAnswers /\ sources.names.full \in FullAnswers
      /\ sources.names.internal \in FullAnswers
      /\ resolver.short \in ShortAnswers /\ resolver.full \in FullAnswers
      /\ resolver.channel \in {<<>>, <<"Short">>, <<"ShortAndFull">>}
  BY DEF SupervisorTypeOK, Sources, Resolver
<1>3. full \in FullAnswers
  BY <1>2, HostnameAssumption DEF QueriedFull, FullAnswers
<1>4. <<What(short, full)>> \in {<<"Short">>, <<"ShortAndFull">>}
  BY DEF What
<1>5. <<What(short, full)>> # <<>>
  BY <1>4, SMT
<1> HIDE DEF short, full
<1>6. s \in ShortAnswers /\ f \in FullAnswers /\ c \in {<<>>, <<"Short">>, <<"ShortAndFull">>}
  BY <1>2, <1>3, <1>4
<1>7. c = <<>> => resolver.channel = <<>> /\ s = resolver.short
  BY <1>5
<1> HIDE DEF s, f, c
<1> QED
  BY <1>1, <1>6, <1>7 DEF Resolver

\* The forwarders go on: none starts, none comes back.
ForwardersGo ==
  /\ forwarders' \in Seq(Forwarder) /\ DOMAIN forwarders' = DOMAIN forwarders /\ Current' = Current
  /\ \A p \in DOMAIN forwarders :
       /\ forwarders'[p].from = forwarders[p].from
       /\ Alive(p)' => Alive(p) /\ forwarders'[p].status = "none"

\* One forwarder goes on.
LEMMA ForwarderGoes ==
  ASSUME SupervisorInv, NEW p \in DOMAIN forwarders, NEW x \in Forwarder,
         forwarders' = [forwarders EXCEPT ![p] = x], x.from = forwarders[p].from,
         x.process = "runs" /\ x.ctx = "live" => Alive(p) /\ x.status = "none"
  PROVE  ForwardersGo /\ forwarders'[p] = x
<1>1. forwarders \in Seq(Forwarder)
  BY DEF SupervisorInv, SupervisorTypeOK
<1>2. /\ forwarders' \in Seq(Forwarder) /\ DOMAIN forwarders' = DOMAIN forwarders
      /\ Len(forwarders') = Len(forwarders)
      /\ forwarders'[p] = x /\ \A q \in DOMAIN forwarders \ {p} : forwarders'[q] = forwarders[q]
  BY <1>1, SMT
<1>3. \A q \in DOMAIN forwarders : Alive(q) => forwarders[q].status = "none"
  BY DEF SupervisorInv, Watched
<1> QED
  BY <1>2, <1>3 DEF ForwardersGo, Alive, Current

LEMMA ForwardersSame ==
  ASSUME SupervisorInv, forwarders' = forwarders
  PROVE  ForwardersGo
<1>1. \A q \in DOMAIN forwarders : Alive(q) => forwarders[q].status = "none"
  BY DEF SupervisorInv, Watched
<1> QED
  BY <1>1 DEF ForwardersGo, Alive, Current, SupervisorInv, SupervisorTypeOK

\* The supervisor stays where it is, and what changes is notified.
LEMMA SupervisorStays ==
  ASSUME SupervisorInv, SupervisorTypeOK', ForwardersGo,
         supervisor'.pc = supervisor.pc, supervisor'.built = supervisor.built,
         supervisor'.temps = supervisor.temps, supervisor'.failed = supervisor.failed,
         ~sources'.event /\ ~supervisor'.restart =>
           ~sources.event /\ ~supervisor.restart
             /\ sources'.files = sources.files /\ sources'.valid = sources.valid,
         ~supervisor'.restart => ~supervisor.restart /\ sources'.id = sources.id,
         resolver'.channel = <<>> => resolver.channel = <<>> /\ resolver'.short = resolver.short
  PROVE  SupervisorInv'
<1>1. TempsOfForwarders'
  BY DEF SupervisorInv, TempsOfForwarders, ForwardersGo
<1>2. Watched'
  <2>1. \A p \in DOMAIN forwarders : Alive(p) => supervisor.pc = "select" /\ p = Current
    BY DEF SupervisorInv, Watched
  <2>2. \A p \in DOMAIN forwarders' :
          Alive(p)' => forwarders'[p].status = "none" /\ supervisor'.pc = "select" /\ p = Current'
    BY <2>1 DEF ForwardersGo
  <2> QED
    BY <2>2 DEF Watched
<1>3. BuiltOfNow'
  BY DEF SupervisorInv, BuiltOfNow
<1>4. RunsOfNow'
  <2> SUFFICES ASSUME supervisor.pc = "select"
               PROVE  /\ ~sources'.event /\ ~supervisor'.restart => forwarders'[Current'].from[1] = sources'.files
                      /\ ~supervisor'.restart => forwarders'[Current'].from[2] = sources'.id
                      /\ resolver'.channel = <<>> => forwarders'[Current'].from[3] = resolver'.short
    BY DEF RunsOfNow
  <2>1. Current \in DOMAIN forwarders
    <3>1. Current # 0 /\ forwarders \in Seq(Forwarder)
      BY DEF SupervisorInv, TempsOfForwarders, SupervisorTypeOK
    <3> QED
      BY <3>1, SMT DEF Current
  <2>2. forwarders'[Current'].from = forwarders[Current].from
    BY <2>1 DEF ForwardersGo
  <2> QED
    BY <2>2 DEF SupervisorInv, RunsOfNow
<1> QED
  BY <1>1, <1>2, <1>3, <1>4 DEF SupervisorInv

\* The supervisor goes where no forwarder is left alive.
LEMMA SupervisorLeaves ==
  ASSUME SupervisorInv, SupervisorTypeOK', ForwardersGo,
         supervisor'.pc \in {"build", "exit", "backoff", "ended"}, supervisor'.temps = supervisor.temps,
         supervisor'.pc = "exit" => Current # 0, \A p \in DOMAIN forwarders : ~Alive(p)'
  PROVE  SupervisorInv'
<1>1. TempsOfForwarders'
  BY DEF SupervisorInv, TempsOfForwarders, ForwardersGo
<1>2. Watched'
  <2>1. \A p \in DOMAIN forwarders' : ~Alive(p)'
    BY DEF ForwardersGo
  <2> QED
    BY <2>1 DEF Watched
<1>3. BuiltOfNow' /\ RunsOfNow'
  BY DEF BuiltOfNow, RunsOfNow
<1> QED
  BY <1>1, <1>2, <1>3 DEF SupervisorInv

LEMMA SupervisorFields ==
  ASSUME SupervisorTypeOK
  PROVE  /\ supervisor.temps \subseteq Nat /\ supervisor.built \in Built
         /\ sources.files \in Nat /\ sources.id \in Nat /\ sources.changes \in Nat
         /\ sources.files + 1 \in Nat /\ sources.id + 1 \in Nat /\ sources.changes + 1 \in Nat
         /\ resolver.short \in ShortAnswers
<1>1. /\ supervisor.temps \subseteq Nat /\ supervisor.built \in Built
      /\ sources.files \in Nat /\ sources.id \in Nat /\ sources.changes \in Nat
      /\ resolver.short \in ShortAnswers
  BY DEF SupervisorTypeOK, Supervisor, Sources, Resolver
<1> QED
  BY <1>1, SMT

LEMMA SourcesKeep ==
  ASSUME SupervisorInv,
         \/ \E valid \in BOOLEAN : ChangeFiles(valid)
         \/ SignalReload \/ ReconnectAgent \/ RestartForFlag
         \/ \E n \in Answers : ChangeNames(n)
         \/ QueryNames
  PROVE  SupervisorInv'
<1>1. ASSUME NEW valid \in BOOLEAN, ChangeFiles(valid) PROVE SupervisorInv'
  <2>1. sources' \in Sources /\ sources'.event /\ sources'.id = sources.id
    BY <1>1, SupervisorFields DEF ChangeFiles, SupervisorInv, SupervisorTypeOK, Sources
  <2>2. UNCHANGED <<resolver, supervisor, forwarders>>
    BY <1>1 DEF ChangeFiles
  <2> QED
    BY <2>1, <2>2, ForwardersSame, SupervisorStays DEF SupervisorInv, SupervisorTypeOK
<1>2. ASSUME sources' \in Sources, SignalRestart, UNCHANGED <<resolver, forwarders>> PROVE SupervisorInv'
  <2>1. /\ supervisor' \in Supervisor /\ supervisor'.pc = supervisor.pc /\ supervisor'.built = supervisor.built
        /\ supervisor'.temps = supervisor.temps /\ supervisor'.failed = supervisor.failed
        /\ supervisor'.restart
    BY <1>2 DEF SignalRestart, SupervisorInv, SupervisorTypeOK, Supervisor
  <2> QED
    BY <1>2, <2>1, ForwardersSame, SupervisorStays DEF SupervisorInv, SupervisorTypeOK
<1>3. CASE SignalReload
  <2>1. sources' \in Sources
    BY <1>3 DEF SignalReload, SupervisorInv, SupervisorTypeOK, Sources
  <2> QED
    BY <1>2, <1>3, <2>1 DEF SignalReload
<1>4. CASE ReconnectAgent
  <2>1. sources' \in Sources
    BY <1>4, SupervisorFields DEF ReconnectAgent, SupervisorInv, SupervisorTypeOK, Sources
  <2> QED
    BY <1>2, <1>4, <2>1 DEF ReconnectAgent
<1>5. CASE RestartForFlag
  <2>1. sources' \in Sources
    BY <1>5, SupervisorFields DEF RestartForFlag, SupervisorInv, SupervisorTypeOK, Sources
  <2> QED
    BY <1>2, <1>5, <2>1 DEF RestartForFlag
<1>6. ASSUME NEW n \in Answers, ChangeNames(n) PROVE SupervisorInv'
  <2>1. /\ sources' \in Sources /\ sources'.event = sources.event /\ sources'.files = sources.files
        /\ sources'.valid = sources.valid /\ sources'.id = sources.id
    BY <1>6, SupervisorFields, SupervisorAssumption DEF ChangeNames, SupervisorInv, SupervisorTypeOK, Sources
  <2>2. UNCHANGED <<resolver, supervisor, forwarders>>
    BY <1>6 DEF ChangeNames
  <2> QED
    BY <2>1, <2>2, ForwardersSame, SupervisorStays DEF SupervisorInv, SupervisorTypeOK
<1>7. CASE QueryNames
  <2>1. QueryNow /\ UNCHANGED <<sources, supervisor, forwarders>>
    BY <1>7 DEF QueryNames
  <2> QED
    BY <2>1, QueryNotifies, ForwardersSame, SupervisorStays DEF SupervisorInv, SupervisorTypeOK
<1> QED
  BY <1>1, <1>3, <1>4, <1>5, <1>6, <1>7

\* The newest file is not among the n oldest when fewer than all are removed.
LEMMA NewestKept ==
  ASSUME NEW N \in Nat, NEW temps \in SUBSET (1..N), NEW spare \in Int,
         spare < Cardinality(temps \cup {N + 1})
  PROVE  N + 1 \notin Oldest(temps \cup {N + 1}, spare)
<1> DEFINE all == temps \cup {N + 1}
<1>1. IsFiniteSet(temps) /\ N + 1 \notin temps
  <2>1. IsFiniteSet(1..N)
    BY FS_Interval, SMT
  <2>2. IsFiniteSet(temps)
    BY <2>1, FS_Subset
  <2>3. N + 1 \notin temps
    BY SMT
  <2> QED
    BY <2>2, <2>3
<1>2. Cardinality(all) = Cardinality(temps) + 1 /\ Cardinality(temps) \in Nat
  BY <1>1, FS_AddElement, FS_CardinalityType
<1>3. {j \in all : j < N + 1} = temps
  <2>1. \A j \in temps : j < N + 1
    BY SMT
  <2>2. ~(N + 1 < N + 1)
    BY SMT
  <2> QED
    BY <2>1, <2>2
<1>4. Cardinality({j \in all : j < N + 1}) = Cardinality(temps)
  BY <1>3
<1>5. ~(Cardinality(temps) < spare)
  BY <1>2, SMT
<1> QED
  BY <1>4, <1>5 DEF Oldest

LEMMA BuildKeeps ==
  ASSUME SupervisorInv, LoadFolder \/ LoadNames \/ SaveFails \/ BuildAgain
  PROVE  SupervisorInv'
<1>1. forwarders' = forwarders /\ sources' = sources
  BY DEF LoadFolder, LoadNames, SaveFails, BuildAgain
<1>2. supervisor.pc # "select" /\ \A p \in DOMAIN forwarders : ~Alive(p)
  BY DEF LoadFolder, LoadNames, SaveFails, BuildAgain, SupervisorInv, Watched
<1>3. ASSUME resolver' \in Resolver, supervisor' \in Supervisor, supervisor'.pc \notin {"select", "exit"},
             supervisor'.temps = supervisor.temps, BuiltOfNow'
      PROVE  SupervisorInv'
  <2>1. SupervisorTypeOK'
    BY <1>1, <1>3 DEF SupervisorInv, SupervisorTypeOK
  <2>2. TempsOfForwarders' /\ Watched' /\ RunsOfNow'
    BY <1>1, <1>2, <1>3 DEF SupervisorInv, TempsOfForwarders, Watched, Alive, RunsOfNow, Current
  <2> QED
    BY <1>3, <2>1, <2>2 DEF SupervisorInv
<1>4. CASE LoadFolder
  <2> DEFINE p == IF sources.valid THEN "names" ELSE "blocked"
             b == <<sources.files, 0, NoName>>
  <2>1. b \in Built /\ b[1] = sources.files
    BY SupervisorFields, SMT DEF SupervisorInv, Built, ShortAnswers
  <2>2. p \in {"names", "blocked"} /\ (p = "blocked" => ~sources.valid)
    OBVIOUS
  <2>3. supervisor' = [supervisor EXCEPT !.pc = p, !.built = b, !.failed = FALSE] /\ resolver' = resolver
    BY <1>4 DEF LoadFolder
  <2> HIDE DEF p, b
  <2>4. supervisor' \in Supervisor /\ supervisor'.pc = p /\ supervisor'.built = b
          /\ supervisor'.temps = supervisor.temps
    BY <2>1, <2>2, <2>3 DEF SupervisorInv, SupervisorTypeOK, Supervisor
  <2>5. BuiltOfNow'
    BY <1>1, <2>1, <2>2, <2>4 DEF BuiltOfNow
  <2> QED
    BY <1>3, <2>2, <2>3, <2>4, <2>5 DEF SupervisorInv, SupervisorTypeOK
<1>5. CASE LoadNames
  <2> DEFINE b == <<supervisor.built[1], sources.id, resolver'.short>>
  <2>1. resolver' \in Resolver /\ supervisor.pc = "names"
    BY <1>5, QueryNotifies DEF LoadNames, SupervisorInv
  <2>2. resolver'.short \in ShortAnswers
    BY <2>1 DEF Resolver
  <2>3. b \in Built /\ b[1] = supervisor.built[1] /\ b[2] = sources.id /\ b[3] = resolver'.short
    BY <2>2, SupervisorFields, SMT DEF SupervisorInv, Built
  <2>4. supervisor' = [supervisor EXCEPT !.pc = "save", !.built = b]
    BY <1>5 DEF LoadNames, SupervisorInv, SupervisorTypeOK, Supervisor
  <2> HIDE DEF b
  <2>5. /\ supervisor' \in Supervisor /\ supervisor'.pc = "save" /\ supervisor'.built = b
        /\ supervisor'.temps = supervisor.temps /\ supervisor'.restart = supervisor.restart
    BY <2>3, <2>4 DEF SupervisorInv, SupervisorTypeOK, Supervisor
  <2>6. BuiltOfNow'
    BY <1>1, <2>1, <2>3, <2>5 DEF SupervisorInv, BuiltOfNow
  <2> QED
    BY <1>3, <2>1, <2>5, <2>6
<1>6. CASE SaveFails
  <2>1. resolver' = resolver /\ supervisor' \in Supervisor /\ supervisor'.pc = "blocked" /\ supervisor'.failed
          /\ supervisor'.temps = supervisor.temps
    BY <1>6 DEF SaveFails, SupervisorInv, SupervisorTypeOK, Supervisor
  <2>2. BuiltOfNow'
    BY <2>1 DEF BuiltOfNow
  <2> QED
    BY <1>3, <2>1, <2>2 DEF SupervisorInv, SupervisorTypeOK
<1>7. CASE BuildAgain
  <2>1. resolver' = resolver /\ supervisor' \in Supervisor /\ supervisor'.pc = "build"
          /\ supervisor'.temps = supervisor.temps
    BY <1>7 DEF BuildAgain, SupervisorInv, SupervisorTypeOK, Supervisor
  <2>2. BuiltOfNow'
    BY <2>1 DEF BuiltOfNow
  <2> QED
    BY <1>3, <2>1, <2>2 DEF SupervisorInv, SupervisorTypeOK
<1> QED
  BY <1>4, <1>5, <1>6, <1>7

LEMMA StartKeeps ==
  ASSUME SupervisorInv, StartForwarder
  PROVE  SupervisorInv'
<1> DEFINE n == Current + 1
           temps == supervisor.temps \cup {n}
           spare == Cardinality(temps) - MaxTempFiles
           left == IF spare > 0 THEN temps \ Oldest(temps, spare) ELSE temps
           c == IF supervisor.stopped THEN "done" ELSE "live"
           x == [from |-> supervisor.built, ctx |-> c, process |-> "runs", status |-> "none"]
<1>1. /\ supervisor.pc = "save" /\ supervisor' = [supervisor EXCEPT !.pc = "select", !.temps = left]
      /\ forwarders' = Append(forwarders, x) /\ UNCHANGED <<resolver, sources>>
  BY DEF StartForwarder
<1>2. forwarders \in Seq(Forwarder) /\ Current \in Nat /\ n \in Nat
  BY SMT DEF SupervisorInv, SupervisorTypeOK, Current
<1>3. supervisor.temps \subseteq 1..Current
  BY DEF SupervisorInv, TempsOfForwarders
<1>4. left \subseteq temps /\ n \in left
  <2>1. left \subseteq temps
    BY DEF Oldest
  <2>2. IsFiniteSet(temps)
    <3>1. IsFiniteSet(1..Current)
      BY <1>2, FS_Interval, SMT
    <3>2. IsFiniteSet(supervisor.temps)
      BY <1>3, <3>1, FS_Subset
    <3> QED
      BY <3>2, FS_AddElement
  <2>3. spare \in Int /\ spare < Cardinality(temps)
    BY <2>2, FS_CardinalityType, SupervisorAssumption, SMT
  <2>4. n \notin Oldest(temps, spare)
    BY <1>2, <1>3, <2>3, NewestKept
  <2> QED
    BY <2>1, <2>4
<1>5. temps \subseteq 1..n
  BY <1>2, <1>3, SMT
<1>6. c \in {"live", "done"}
  OBVIOUS
<1> HIDE DEF left, temps, c
<1>7. /\ supervisor' \in Supervisor /\ supervisor'.pc = "select" /\ supervisor'.temps = left
      /\ supervisor'.restart = supervisor.restart
  <2>1. left \subseteq Nat
    BY <1>2, <1>4, <1>5, SMT
  <2> QED
    BY <1>1, <2>1 DEF SupervisorInv, SupervisorTypeOK, Supervisor
<1>8. x \in Forwarder /\ x.from = supervisor.built /\ x.status = "none"
  BY <1>6, SupervisorFields DEF SupervisorInv, Forwarder
<1> HIDE DEF x
<1>9. /\ forwarders' \in Seq(Forwarder) /\ DOMAIN forwarders' = DOMAIN forwarders \cup {n}
      /\ Current' = n /\ n # 0 /\ forwarders'[n] = x
      /\ \A p \in DOMAIN forwarders : forwarders'[p] = forwarders[p]
  BY <1>1, <1>2, <1>8, SMT DEF Current
<1>10. TempsOfForwarders'
  BY <1>4, <1>5, <1>7, <1>9 DEF TempsOfForwarders
<1>11. Watched'
  <2>1. \A p \in DOMAIN forwarders : ~Alive(p)'
    BY <1>1, <1>9 DEF SupervisorInv, Watched, Alive
  <2> QED
    BY <1>7, <1>8, <1>9, <2>1 DEF Watched
<1>12. BuiltOfNow'
  BY <1>7 DEF BuiltOfNow
<1>13. RunsOfNow'
  <2>1. forwarders'[Current'].from = supervisor.built
    BY <1>8, <1>9
  <2>2. /\ ~sources.event /\ ~supervisor.restart => supervisor.built[1] = sources.files
        /\ ~supervisor.restart => supervisor.built[2] = sources.id
        /\ resolver.channel = <<>> => supervisor.built[3] = resolver.short
    BY <1>1 DEF SupervisorInv, BuiltOfNow
  <2> QED
    BY <1>1, <1>7, <2>1, <2>2 DEF RunsOfNow
<1> QED
  BY <1>1, <1>7, <1>9, <1>10, <1>11, <1>12, <1>13 DEF SupervisorInv, SupervisorTypeOK

LEMMA ForwarderFields ==
  ASSUME SupervisorTypeOK, NEW p \in DOMAIN forwarders
  PROVE  /\ forwarders[p] \in Forwarder
         /\ LET x == [forwarders[p] EXCEPT !.ctx = "done"] IN
            x \in Forwarder /\ x.from = forwarders[p].from /\ x.ctx = "done"
         /\ LET x == [forwarders[p] EXCEPT !.process = "ended"] IN
            x \in Forwarder /\ x.from = forwarders[p].from /\ x.process = "ended"
         /\ \A t \in {"sent", "read"} : LET x == [forwarders[p] EXCEPT !.status = t] IN
            /\ x \in Forwarder /\ x.from = forwarders[p].from /\ x.status = t
            /\ x.process = forwarders[p].process /\ x.ctx = forwarders[p].ctx
<1>1. forwarders[p] \in Forwarder
  BY SMT DEF SupervisorTypeOK
<1> QED
  BY <1>1 DEF Forwarder

\* Once the current forwarder is told to end, or its status is read, none is alive.
LEMMA CurrentEnds ==
  ASSUME SupervisorInv, supervisor.pc \in {"select", "exit"},
         \/ CancelForwarder
         \/ /\ forwarders[Current].status = "sent"
            /\ forwarders' = [forwarders EXCEPT ![Current].status = "read"]
  PROVE  ForwardersGo /\ \A p \in DOMAIN forwarders : ~Alive(p)'
<1> DEFINE f == forwarders[Current]
           cancelled == [f EXCEPT !.ctx = "done"]
           read == [f EXCEPT !.status = "read"]
<1>1. Current \in DOMAIN forwarders
  <2>1. Current # 0 /\ forwarders \in Seq(Forwarder)
    BY DEF SupervisorInv, TempsOfForwarders, SupervisorTypeOK
  <2> QED
    BY <2>1, SMT DEF Current
<1>2. \A p \in DOMAIN forwarders : Alive(p) => p = Current /\ forwarders[p].status = "none"
  BY DEF SupervisorInv, Watched
<1>3. /\ cancelled \in Forwarder /\ cancelled.from = f.from /\ cancelled.ctx = "done"
      /\ read \in Forwarder /\ read.from = f.from /\ read.process = f.process /\ read.ctx = f.ctx
  BY <1>1, ForwarderFields DEF SupervisorInv
<1>4. CASE CancelForwarder
  <2>1. forwarders' = [forwarders EXCEPT ![Current] = cancelled]
    BY <1>4 DEF CancelForwarder
  <2> HIDE DEF cancelled
  <2>2. ForwardersGo /\ forwarders'[Current] = cancelled
    BY <1>1, <1>3, <2>1, ForwarderGoes
  <2>3. ~Alive(Current)'
    BY <1>3, <2>2 DEF Alive, ForwardersGo
  <2> QED
    BY <1>2, <2>2, <2>3 DEF ForwardersGo
<1>5. CASE f.status = "sent" /\ forwarders' = [forwarders EXCEPT ![Current].status = "read"]
  <2>1. forwarders' = [forwarders EXCEPT ![Current] = read]
    BY <1>5
  <2>2. ~Alive(Current)
    BY <1>1, <1>2, <1>5
  <2>3. ~(read.process = "runs" /\ read.ctx = "live")
    BY <1>3, <2>2 DEF Alive
  <2> HIDE DEF read
  <2>4. ForwardersGo
    BY <1>1, <1>3, <2>1, <2>3, ForwarderGoes
  <2> QED
    BY <1>2, <2>2, <2>4 DEF ForwardersGo
<1> QED
  BY <1>4, <1>5

LEMMA SelectEnds ==
  ASSUME SupervisorInv,
         RestartRequested \/ HostnameChanged \/ ForwarderEnded \/ BackOffEnds \/ StatusRead \/ RunReturns
  PROVE  SupervisorInv'
<1>1. ASSUME NEW p \in {"build", "exit", "backoff", "ended"}, NEW r \in BOOLEAN,
             supervisor' = [supervisor EXCEPT !.pc = p, !.restart = r],
             p = "exit" => supervisor.pc = "select",
             resolver' \in Resolver, sources' = sources,
             ForwardersGo, \A q \in DOMAIN forwarders : ~Alive(q)'
      PROVE  SupervisorInv'
  <2>1. supervisor' \in Supervisor /\ supervisor'.pc = p /\ supervisor'.temps = supervisor.temps
    BY <1>1 DEF SupervisorInv, SupervisorTypeOK, Supervisor
  <2>2. p = "exit" => Current # 0
    BY <1>1 DEF SupervisorInv, TempsOfForwarders
  <2>3. SupervisorTypeOK'
    BY <1>1, <2>1 DEF SupervisorInv, SupervisorTypeOK, ForwardersGo
  <2> QED
    BY <1>1, <2>1, <2>2, <2>3, SupervisorLeaves
<1>2. ASSUME NEW p, Proceed(p)
      PROVE  \E r \in BOOLEAN : supervisor' = [supervisor EXCEPT !.pc = p, !.restart = r]
  <2>1. supervisor \in Supervisor /\ supervisor.restart \in BOOLEAN
    BY DEF SupervisorInv, SupervisorTypeOK, Supervisor
  <2>2. supervisor' = [supervisor EXCEPT !.pc = p, !.restart = supervisor.restart]
    BY <1>2, <2>1 DEF Proceed, Supervisor
  <2> QED
    BY <2>1, <2>2
<1>3. resolver \in Resolver /\ resolver.channel \in {<<>>, <<"Short">>, <<"ShortAndFull">>}
  BY DEF SupervisorInv, SupervisorTypeOK, Resolver
<1>4. CASE RestartRequested
  BY <1>1, <1>3, <1>4, CurrentEnds DEF RestartRequested
<1>5. CASE HostnameChanged
  <2>1. resolver' \in Resolver
    BY <1>5 DEF HostnameChanged, Resolver, SupervisorInv, SupervisorTypeOK
  <2>2. Head(resolver.channel) \in {"Short", "ShortAndFull"}
    BY <1>3, <1>5, SMT DEF HostnameChanged
  <2>3. supervisor.pc = "select" /\ CancelForwarder /\ Proceed("exit") /\ sources' = sources
    BY <1>5, <2>2 DEF HostnameChanged
  <2> QED
    BY <1>1, <1>2, <2>1, <2>3, CurrentEnds
<1>6. CASE ForwarderEnded
  <2>1. PICK p \in {"build", "backoff", "ended"} : Proceed(p)
    BY <1>6 DEF ForwarderEnded
  <2> QED
    BY <1>1, <1>2, <1>3, <1>6, <2>1, CurrentEnds, ZenonT(40) DEF ForwarderEnded
<1>7. CASE StatusRead
  BY <1>1, <1>2, <1>3, <1>7, CurrentEnds DEF StatusRead
<1>8. CASE BackOffEnds \/ RunReturns
  <2>1. \A q \in DOMAIN forwarders : ~Alive(q)'
    BY <1>8 DEF BackOffEnds, RunReturns, SupervisorInv, Watched, Alive
  <2>2. PICK p \in {"build", "ended"} : Proceed(p)
    BY <1>8 DEF BackOffEnds, RunReturns
  <2> QED
    BY <1>1, <1>2, <1>3, <1>8, <2>1, <2>2, ForwardersSame DEF BackOffEnds, RunReturns
<1> QED
  BY <1>4, <1>5, <1>6, <1>7, <1>8

\* What the processes and the end of the agent do.
LEMMA ProcessesKeep ==
  ASSUME SupervisorInv, StopAgent \/ \E p \in DOMAIN forwarders : ForwarderExits(p) \/ SendStatus(p)
  PROVE  SupervisorInv'
<1>1. CASE StopAgent
  <2>1. /\ supervisor' \in Supervisor /\ supervisor'.pc = supervisor.pc /\ supervisor'.built = supervisor.built
        /\ supervisor'.temps = supervisor.temps /\ supervisor'.failed = supervisor.failed
        /\ supervisor'.restart = supervisor.restart
    BY <1>1 DEF StopAgent, SupervisorInv, SupervisorTypeOK, Supervisor
  <2>2. /\ sources' \in Sources /\ sources'.event = sources.event /\ sources'.files = sources.files
        /\ sources'.valid = sources.valid /\ sources'.id = sources.id
    BY <1>1, SupervisorAssumption DEF StopAgent, SupervisorInv, SupervisorTypeOK, Sources
  <2>3. \A p \in DOMAIN forwarders : LET x == [forwarders[p] EXCEPT !.ctx = "done"] IN
          x \in Forwarder /\ x.from = forwarders[p].from /\ x.ctx = "done"
    BY ForwarderFields DEF SupervisorInv
  <2>4. /\ DOMAIN forwarders' = DOMAIN forwarders
        /\ \A p \in DOMAIN forwarders : forwarders'[p] = [forwarders[p] EXCEPT !.ctx = "done"]
    BY <1>1 DEF StopAgent
  <2>5. \A p \in DOMAIN forwarders : /\ forwarders'[p] \in Forwarder
                                     /\ forwarders'[p].from = forwarders[p].from
                                     /\ forwarders'[p].ctx = "done"
    BY <2>3, <2>4
  <2>6. forwarders' \in Seq(Forwarder) /\ Current' = Current
    <3>1. forwarders \in Seq(Forwarder) /\ forwarders' = [p \in DOMAIN forwarders |-> forwarders'[p]]
      BY <1>1 DEF StopAgent, SupervisorInv, SupervisorTypeOK
    <3> QED
      BY <2>4, <2>5, <3>1, SMT DEF Current
  <2>7. ForwardersGo
    BY <2>4, <2>5, <2>6 DEF ForwardersGo, Alive
  <2>8. resolver' = resolver
    BY <1>1 DEF StopAgent
  <2> QED
    BY <2>1, <2>2, <2>6, <2>7, <2>8, SupervisorStays DEF SupervisorInv, SupervisorTypeOK
<1>2. ASSUME ForwardersGo, UNCHANGED <<resolver, sources, supervisor>> PROVE SupervisorInv'
  BY <1>2, SupervisorStays DEF SupervisorInv, SupervisorTypeOK, ForwardersGo
<1>3. ASSUME NEW p \in DOMAIN forwarders, ForwarderExits(p) PROVE SupervisorInv'
  <2> DEFINE x == [forwarders[p] EXCEPT !.process = "ended"]
  <2>1. x \in Forwarder /\ x.from = forwarders[p].from /\ x.process = "ended"
    BY ForwarderFields DEF SupervisorInv
  <2>2. forwarders' = [forwarders EXCEPT ![p] = x] /\ UNCHANGED <<resolver, sources, supervisor>>
    BY <1>3 DEF ForwarderExits
  <2> HIDE DEF x
  <2> QED
    BY <1>2, <2>1, <2>2, ForwarderGoes
<1>4. ASSUME NEW p \in DOMAIN forwarders, SendStatus(p) PROVE SupervisorInv'
  <2> DEFINE x == [forwarders[p] EXCEPT !.status = "sent"]
  <2>1. /\ x \in Forwarder /\ x.from = forwarders[p].from
        /\ x.process = forwarders[p].process /\ x.ctx = forwarders[p].ctx
    BY ForwarderFields DEF SupervisorInv
  <2>2. /\ forwarders' = [forwarders EXCEPT ![p] = x] /\ UNCHANGED <<resolver, sources, supervisor>>
        /\ forwarders[p].process = "ended" \/ forwarders[p].ctx = "done"
    BY <1>4 DEF SendStatus
  <2> HIDE DEF x
  <2> QED
    BY <1>2, <2>1, <2>2, ForwarderGoes
<1> QED
  BY <1>1, <1>3, <1>4

LEMMA SupervisorInvStep == SupervisorInv /\ [SupervisorNext]_supervisorVars => SupervisorInv'
<1> SUFFICES ASSUME SupervisorInv, [SupervisorNext]_supervisorVars PROVE SupervisorInv'
  OBVIOUS
<1>1. CASE UNCHANGED supervisorVars
  BY <1>1 DEF supervisorVars, SupervisorInv, SupervisorTypeOK, TempsOfForwarders, Watched, Alive,
              BuiltOfNow, RunsOfNow, Current
<1>2. CASE SupervisorNext
  BY <1>2, SourcesKeep, BuildKeeps, StartKeeps, SelectEnds, ProcessesKeep DEF SupervisorNext
<1> QED
  BY <1>1, <1>2

LEMMA SupervisorInvHolds == SupervisorSpec => []SupervisorInv
BY SupervisorInvInit, SupervisorInvStep, PTL DEF SupervisorSpec

\* The supervisor (supervisor.go, Run) leaves no forwarder behind: the one process that
\* is not told to end is the last it started, and its configuration file is kept.
THEOREM NoForwarderLeft == SupervisorSpec => []OneForwarder
<1>1. SupervisorInv => OneForwarder
  BY DEF SupervisorInv, TempsOfForwarders, Watched, Alive, OneForwarder
<1> QED
  BY <1>1, SupervisorInvHolds, PTL

\* The channels of one element of supervisor.go and hostname.go suffice: a signal that
\* is dropped because one waits, and a change that comes in the middle of a build, lose
\* no change of the files, of the identity or of the host name.
THEOREM NoChangeMissed == SupervisorSpec => []LogsFollow
<1>1. SupervisorInv => LogsFollow
  <2> SUFFICES ASSUME SupervisorInv, ~sources.event, ~supervisor.restart, resolver.channel = <<>>
               PROVE  /\ supervisor.pc = "select" =>
                           forwarders[Current].from = <<sources.files, sources.id, resolver.short>>
                      /\ supervisor.pc = "blocked" => ~sources.valid \/ supervisor.failed
    BY DEF LogsFollow
  <2>1. supervisor.pc = "blocked" => ~sources.valid \/ supervisor.failed
    BY DEF SupervisorInv, BuiltOfNow
  <2>2. ASSUME supervisor.pc = "select"
        PROVE  forwarders[Current].from = <<sources.files, sources.id, resolver.short>>
    <3>1. Current \in DOMAIN forwarders
      <4>1. Current # 0 /\ forwarders \in Seq(Forwarder)
        BY <2>2 DEF SupervisorInv, TempsOfForwarders, SupervisorTypeOK
      <4> QED
        BY <4>1, SMT DEF Current
    <3>2. forwarders[Current].from \in Built
      BY <3>1, ForwarderFields DEF SupervisorInv, Forwarder
    <3>3. /\ forwarders[Current].from[1] = sources.files /\ forwarders[Current].from[2] = sources.id
          /\ forwarders[Current].from[3] = resolver.short
      BY <2>2 DEF SupervisorInv, RunsOfNow
    <3> QED
      BY <3>2, <3>3, SMT DEF Built
  <2> QED
    BY <2>1, <2>2
<1> QED
  BY <1>1, SupervisorInvHolds, PTL
=============================================================================
