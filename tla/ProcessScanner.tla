--------------------------- MODULE ProcessScanner ---------------------------
(***************************************************************************)
(* The process scanner of the collector: the scan loop, a scan forced by   *)
(* ForceScan in a goroutine nobody waits for, the goroutine that hands     *)
(* events to the consumers, and Start, Stop and Shutdown.  A process is    *)
(* what its ProcessInfo says (Equal compares all of it), one of a few      *)
(* values; platform.ProcessCollector lists the processes of the machine.   *)
(* Init has succeeded: its context is made once and a Stop ends it.        *)
(***************************************************************************)
EXTENDS Integers, Sequences, FiniteSets

CONSTANTS
  PIDs, Infos,
  Excluded,          \* infos the exclude and include patterns leave out
  NoProcess,
  ProcessConsumers,
  EventChannelSize,
  MaxScans,          \* bound: scans
  MaxSystem,         \* bound: changes of the machine
  MaxRegistrations   \* bound: calls of RegisterConsumer

ASSUME ScannerAssumption ==
  /\ EventChannelSize \in Nat \ {0}
  /\ Excluded \subseteq Infos /\ NoProcess \notin Infos

VARIABLES
  system,            \* the processes of the machine
  scanStatus,        \* "initialized", "running", "stopped"
  scanDone,          \* is the context cancelled?
  stopPc,            \* Stop or Shutdown: "none", "stop", "shutdown" (they wait), "clear"
  scannerLocked,     \* Stop holds scannerMutex while it waits
  cacheMutex,        \* the scan that holds it, or "free"
  processCache,
  eventChannel,
  scanPc,            \* "loop", "force": "none", "scan", "lock", "merge", "usage",
                     \* "adjust" and, the loop, "select"
  scanned,           \* what GetProcesses gave each of them, filtered
  eventsPc,          \* processEvents: "none", "select"
  scanInterval,      \* tenths of a second
  registry,          \* registered consumers
  view,              \* what a consumer knows from its events since it registered
  synced,            \* consumers that were registered before anything was cached
  dropped,           \* an event was dropped
  lastScan,          \* what the last merged scan found
  nScans, nSystem, nRegistered

machine == <<system, nSystem>>
scanControl == <<scanStatus, scanDone, stopPc, scannerLocked>>
cache == <<cacheMutex, processCache, lastScan>>
chan == <<eventChannel, dropped>>
scans == <<scanPc, scanned, nScans>>
clients == <<registry, view, synced, nRegistered>>
scannerVars == <<machine, scanControl, cache, chan, scans, eventsPc, scanInterval, clients>>

NoProcesses == [p \in PIDs |-> NoProcess]

NewProcessScanner ==
  /\ system = NoProcesses
  /\ scanStatus = "initialized" /\ scanDone = FALSE /\ stopPc = "none"
  /\ scannerLocked = FALSE /\ cacheMutex = "free"
  /\ processCache = NoProcesses /\ eventChannel = <<>>
  /\ scanPc = [t \in {"loop", "force"} |-> "none"]
  /\ scanned = [t \in {"loop", "force"} |-> NoProcesses]
  /\ eventsPc = "none" /\ scanInterval = 100
  /\ registry = {} /\ view = [c \in ProcessConsumers |-> NoProcesses] /\ synced = {}
  /\ dropped = FALSE /\ lastScan = NoProcesses
  /\ nScans = 0 /\ nSystem = 0 /\ nRegistered = 0

\* A process starts, changes or ends.
SystemChanges(p, info) ==
  /\ nSystem < MaxSystem /\ info # system[p]
  /\ system' = [system EXCEPT ![p] = info] /\ nSystem' = nSystem + 1
  /\ UNCHANGED <<scanControl, cache, chan, scans, eventsPc, scanInterval, clients>>

-----------------------------------------------------------------------------
(* Start, Stop, Shutdown and ForceScan                                      *)

ScannerStart ==
  /\ ~scannerLocked /\ scanStatus # "running"
  /\ scanStatus' = "running" /\ eventsPc' = "select"
  /\ scanPc' = [scanPc EXCEPT !["loop"] = "scan"]
  /\ UNCHANGED <<machine, scanDone, stopPc, scannerLocked, cache, chan, scanned,
                 scanInterval, clients, nScans>>

\* Stop and, with then = "shutdown", the Stop at the beginning of Shutdown.
ScannerStop(then) ==
  /\ ~scannerLocked /\ stopPc = "none" /\ scanStatus = "running"
  /\ stopPc' = then /\ scannerLocked' = TRUE /\ scanDone' = TRUE
  /\ UNCHANGED <<machine, scanStatus, cache, chan, scans, eventsPc, scanInterval, clients>>

LoopsDone == eventsPc = "none" /\ scanPc["loop"] = "none"

ScannerStopped ==
  /\ stopPc \in {"stop", "shutdown"} /\ LoopsDone
  /\ scanStatus' = "stopped" /\ scannerLocked' = FALSE
  /\ stopPc' = IF stopPc = "stop" THEN "none" ELSE "clear"
  /\ UNCHANGED <<machine, scanDone, cache, chan, scans, eventsPc, scanInterval, clients>>

\* Shutdown of a scanner that is stopped goes on at once.
ShutdownStopped ==
  /\ ~scannerLocked /\ stopPc = "none" /\ scanStatus = "stopped"
  /\ stopPc' = "clear"
  /\ UNCHANGED <<machine, scanStatus, scanDone, scannerLocked, cache, chan, scans, eventsPc,
                 scanInterval, clients>>

\* The platform collector fails to shut down: the cache is kept.
CollectorShutdownFails ==
  /\ stopPc = "clear" /\ stopPc' = "none"
  /\ UNCHANGED <<machine, scanStatus, scanDone, scannerLocked, cache, chan, scans, eventsPc,
                 scanInterval, clients>>

ClearCache ==
  /\ stopPc = "clear" /\ cacheMutex = "free"
  /\ stopPc' = "none" /\ processCache' = NoProcesses /\ lastScan' = NoProcesses
  /\ synced' = {}
  /\ UNCHANGED <<machine, scanStatus, scanDone, scannerLocked, cacheMutex, chan, scans,
                 eventsPc, scanInterval, registry, view, nRegistered>>

ForceScan ==
  /\ scanStatus = "running" /\ scanPc["force"] = "none"
  /\ scanPc' = [scanPc EXCEPT !["force"] = "scan"]
  /\ UNCHANGED <<machine, scanControl, cache, chan, scanned, eventsPc, scanInterval, clients,
                 nScans>>

-----------------------------------------------------------------------------
(* scanLoop and performScan                                                 *)

\* Where a scan goes when it ends.
AfterScan(t) == IF t = "loop" THEN "select" ELSE "none"

LoopTick ==
  /\ scanPc["loop"] = "select" /\ scanPc' = [scanPc EXCEPT !["loop"] = "scan"]
  /\ UNCHANGED <<machine, scanControl, cache, chan, scanned, eventsPc, scanInterval, clients,
                 nScans>>

LoopEndsScan ==
  /\ scanPc["loop"] = "select" /\ scanDone /\ scanPc' = [scanPc EXCEPT !["loop"] = "none"]
  /\ UNCHANGED <<machine, scanControl, cache, chan, scanned, eventsPc, scanInterval, clients,
                 nScans>>

filterProcesses(s) == [p \in PIDs |-> IF s[p] \in Excluded THEN NoProcess ELSE s[p]]

\* GetProcesses, then the filters; an error ends the scan.
GetProcesses(t, err) ==
  /\ scanPc[t] = "scan" /\ nScans < MaxScans /\ nScans' = nScans + 1
  /\ scanPc' = [scanPc EXCEPT ![t] = IF err THEN AfterScan(t) ELSE "lock"]
  /\ scanned' = [scanned EXCEPT ![t] = IF err THEN NoProcesses ELSE filterProcesses(system)]
  /\ UNCHANGED <<machine, scanControl, cache, chan, eventsPc, scanInterval, clients>>

LockCache(t) ==
  /\ scanPc[t] = "lock" /\ cacheMutex = "free"
  /\ cacheMutex' = t /\ scanPc' = [scanPc EXCEPT ![t] = "merge"]
  /\ UNCHANGED <<machine, scanControl, processCache, chan, scanned, eventsPc, scanInterval,
                 clients, lastScan, nScans>>

Terminated(new) == {p \in PIDs : processCache[p] # NoProcess /\ new[p] = NoProcess}

Changed(new) == {p \in PIDs : new[p] # NoProcess /\ processCache[p] # new[p]}

EventOf(p, new) ==
  [type |-> IF new[p] = NoProcess THEN "terminated"
            ELSE IF processCache[p] = NoProcess THEN "created" ELSE "updated",
   pid |-> p, info |-> new[p]]

\* Mutant: the event of a full channel replaces the last one in it.
MutQueueEvent(e) ==
  IF Len(eventChannel) < EventChannelSize
    THEN eventChannel' = Append(eventChannel, e) /\ UNCHANGED dropped
    ELSE eventChannel' = [eventChannel EXCEPT ![Len(eventChannel)] = e] /\ UNCHANGED dropped

\* queueEvent: a full channel costs the event when 100 ms pass without room.
queueEvent(e) ==
  \/ Len(eventChannel) < EventChannelSize /\ eventChannel' = Append(eventChannel, e)
     /\ UNCHANGED dropped
  \/ Len(eventChannel) = EventChannelSize /\ dropped' = TRUE /\ UNCHANGED eventChannel

\* One event of processNewScan: the terminated processes first.
MergeProcess(t, p) ==
  LET new == scanned[t] IN
  /\ scanPc[t] = "merge"
  /\ p \in IF Terminated(new) # {} THEN Terminated(new) ELSE Changed(new)
  /\ processCache' = [processCache EXCEPT ![p] = new[p]]
  /\ queueEvent(EventOf(p, new))
  /\ UNCHANGED <<machine, scanControl, cacheMutex, scans, eventsPc, scanInterval, clients,
                 lastScan>>

MergeDone(t) ==
  /\ scanPc[t] = "merge" /\ Terminated(scanned[t]) = {} /\ Changed(scanned[t]) = {}
  /\ cacheMutex' = "free" /\ lastScan' = scanned[t]
  /\ scanPc' = [scanPc EXCEPT ![t] = "usage"]
  /\ scanned' = [scanned EXCEPT ![t] = NoProcesses]
  /\ UNCHANGED <<machine, scanControl, processCache, chan, eventsPc, scanInterval, clients,
                 nScans>>

\* GetSelfUsage: over is whether the CPU limit is exceeded.
SelfUsage(t, over) ==
  /\ scanPc[t] = "usage"
  /\ scanPc' = [scanPc EXCEPT ![t] = IF over THEN "adjust" ELSE AfterScan(t)]
  /\ UNCHANGED <<machine, scanControl, cache, chan, scanned, eventsPc, scanInterval, clients,
                 nScans>>

\* The interval for a CPU usage of so many percent of the limit.
NewInterval(cur, percent) ==
  IF percent > 120
    THEN LET n == (cur * percent * 12) \div 1000 IN IF n > 600 THEN 600 ELSE n
    ELSE IF percent < 50 /\ cur > 100
    THEN LET n == (cur * 8) \div 10 IN IF n < 100 THEN 100 ELSE n
    ELSE cur

\* adjustScanInterval needs scannerMutex; it is called above the limit only.
adjustScanInterval(t, percent) ==
  /\ scanPc[t] = "adjust" /\ ~scannerLocked /\ percent > 100
  /\ scanInterval' = NewInterval(scanInterval, percent)
  /\ scanPc' = [scanPc EXCEPT ![t] = AfterScan(t)]
  /\ UNCHANGED <<machine, scanControl, cache, chan, scanned, eventsPc, clients, nScans>>

-----------------------------------------------------------------------------
(* processEvents and the consumers                                          *)

\* NotifyAll hands the event to every registered consumer.
NotifyAll ==
  /\ eventsPc = "select" /\ eventChannel # <<>>
  /\ eventChannel' = Tail(eventChannel)
  /\ view' = [c \in ProcessConsumers |-> IF c \in registry
                THEN [view[c] EXCEPT ![Head(eventChannel).pid] = Head(eventChannel).info]
                ELSE view[c]]
  /\ UNCHANGED <<machine, scanControl, cache, scans, eventsPc, scanInterval, registry, synced,
                 dropped, nRegistered>>

EventsEnd ==
  /\ eventsPc = "select" /\ scanDone /\ eventsPc' = "none"
  /\ UNCHANGED <<machine, scanControl, cache, chan, scans, scanInterval, clients>>

RegisterConsumer(c) ==
  /\ c \notin registry /\ nRegistered < MaxRegistrations /\ nRegistered' = nRegistered + 1
  /\ registry' = registry \cup {c} /\ view' = [view EXCEPT ![c] = NoProcesses]
  /\ synced' = IF processCache = NoProcesses /\ eventChannel = <<>> THEN synced \cup {c} ELSE synced
  /\ UNCHANGED <<machine, scanControl, cache, chan, scans, eventsPc, scanInterval>>

UnregisterConsumer(c) ==
  /\ c \in registry /\ registry' = registry \ {c} /\ synced' = synced \ {c}
  /\ view' = [view EXCEPT ![c] = NoProcesses]
  /\ UNCHANGED <<machine, scanControl, cache, chan, scans, eventsPc, scanInterval, nRegistered>>

ScanStep(t) ==
  \/ \E err \in BOOLEAN : GetProcesses(t, err)
  \/ LockCache(t) \/ MergeDone(t)
  \/ \E p \in PIDs : MergeProcess(t, p)
  \/ \E over \in BOOLEAN : SelfUsage(t, over)
  \/ \E percent \in {110, 400} : adjustScanInterval(t, percent)

ScannerNext ==
  \/ \E p \in PIDs, info \in Infos \cup {NoProcess} : SystemChanges(p, info)
  \/ ScannerStart \/ \E then \in {"stop", "shutdown"} : ScannerStop(then)
  \/ ScannerStopped \/ ShutdownStopped \/ CollectorShutdownFails \/ ClearCache \/ ForceScan
  \/ LoopTick \/ LoopEndsScan \/ ScanStep("loop") \/ ScanStep("force")
  \/ NotifyAll \/ EventsEnd
  \/ \E c \in ProcessConsumers : RegisterConsumer(c) \/ UnregisterConsumer(c)

ScannerSpec == NewProcessScanner /\ [][ScannerNext]_scannerVars

-----------------------------------------------------------------------------
(* Properties                                                               *)

\* The event of a process that comes last in the channel.
LastEvent(k, p) ==
  eventChannel[k].pid = p /\ \A j \in DOMAIN eventChannel : j > k => eventChannel[j].pid # p

\* A consumer that was there from the beginning ends up with exactly the cached
\* processes when it has seen the events in the channel, in whatever order the
\* loop and a forced scan merge: no event is lost but for a full channel.
ConsumersFollow ==
  ~dropped => \A c \in synced, p \in PIDs :
    \/ \E k \in DOMAIN eventChannel : LastEvent(k, p) /\ eventChannel[k].info = processCache[p]
    \/ /\ \A k \in DOMAIN eventChannel : eventChannel[k].pid # p
       /\ view[c][p] = processCache[p]

=============================================================================
