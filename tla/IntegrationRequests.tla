------------------------- MODULE IntegrationRequests -------------------------
(***************************************************************************)
(* Runs of integrations that are asked for while the agent works: by an    *)
(* integration that prints a configuration of other integrations (the      *)
(* config protocol) and by run_integration and stop_integration of the     *)
(* command channel.  Handlers put definitions in the queues of the         *)
(* manager, whose goroutine (handleRequestsQueue) starts the runs, and the *)
(* tracker knows how to cancel them by hash.  The hashes of the two kinds  *)
(* of requests differ in form.  Processes are external.                    *)
(***************************************************************************)
EXTENDS Integers, Sequences

CONSTANTS
  Hashes,        \* definitions that a configuration may hold
  ParentConfigs,       \* configurations: sequences of Hashes and Invalid
  Invalid,       \* an entry without template or executable
  Commands,      \* hashes of command channel requests
  QueueLen,      \* (100)
  MaxConfigs,    \* bound: configurations printed
  MaxHandled,  \* bound: run and stop requests
  MaxRuns        \* bound: runs

ASSUME RequestsAssumption ==
  /\ Hashes \cap Commands = {} /\ Invalid \notin Hashes
  /\ ParentConfigs \subseteq Seq(Hashes \cup {Invalid})
  /\ {QueueLen, MaxConfigs, MaxHandled, MaxRuns} \subseteq Nat

VARIABLES
  parent,     \* the runner that prints configurations, and its cache
  requests,   \* the goroutines of command channel handlers
  queues,     \* definitionQueue, configEntryQueue, terminateDefinitionQueue
  tracker,    \* hash2Ctx: the run of a hash, 0 for none
  runs,       \* the goroutines of the runs
  disorder    \* ghost: hashes whose requests came late or twice, failed or overtook

requestVars == <<parent, requests, queues, tracker, runs, disorder>>

AllHashes == Hashes \cup Commands

\* handler is the goroutine of handleLines, killer the one of Run.
RequestsInit ==
  /\ parent = [handler |-> "idle", todo |-> <<>>, added |-> {}, removed |-> {}, printed |-> 0,
               hashes |-> {}, killer |-> "runs", toKill |-> {}]
  /\ requests = <<>>
  /\ queues = [definition |-> <<>>, entry |-> <<>>, terminate |-> <<>>, no |-> 0]
  /\ tracker = [h \in AllHashes |-> 0]
  /\ runs = <<>>
  /\ disorder = {}

\* A send to a queue blocks while it is full; no numbers the sends.
Put(q, h) ==
  /\ Len(queues[q]) < QueueLen
  /\ queues' = [queues EXCEPT ![q] = Append(@, [hash |-> h, no |-> queues.no]), !.no = @ + 1]

-----------------------------------------------------------------------------
(* The config protocol: configrequest.NewHandleFn and the cache             *)

\* TakeConfig: a line with a configuration.  The map of the cache is handed out.
TakeConfig(c) ==
  /\ parent.handler = "idle" /\ parent.printed < MaxConfigs
  /\ parent' = [parent EXCEPT !.handler = "add", !.todo = c, !.added = {}, !.printed = @ + 1]
  /\ disorder' = IF parent.killer = "runs" THEN disorder ELSE disorder \cup Hashes
  /\ UNCHANGED <<requests, queues, tracker, runs>>

\* An entry that cannot be loaded ends the handler; the entries before it are queued.
InvalidEntry ==
  /\ parent.handler = "add" /\ parent.todo # <<>> /\ Head(parent.todo) = Invalid
  /\ parent' = [parent EXCEPT !.handler = "idle", !.todo = <<>>]
  /\ disorder' = disorder \cup (parent.added \ parent.hashes)
  /\ UNCHANGED <<requests, queues, tracker, runs>>

\* Mutant: a definition is compared with the ones of this configuration.
MutIsNew(h) == h \notin parent.added

\* ConfigDefinitions.Add: the definition is not among the current ones.
IsNew(h) == h \notin parent.hashes

\* An entry that a configuration lists twice is new both times.
AddDefinition ==
  /\ parent.handler = "add" /\ parent.todo # <<>>
  /\ LET h == Head(parent.todo) IN
     /\ h # Invalid
     /\ parent' = [parent EXCEPT !.todo = Tail(@), !.added = @ \cup {h}]
     /\ IF IsNew(h) THEN Put("entry", h) ELSE UNCHANGED queues
     /\ disorder' = IF IsNew(h) /\ h \in parent.added THEN disorder \cup {h} ELSE disorder
  /\ UNCHANGED <<requests, tracker, runs>>

\* cache.ApplyConfig: the cache holds the added definitions; the others are removed, in
\* the order of a range over a map.
ApplyConfig ==
  /\ parent.handler = "add" /\ parent.todo = <<>>
  /\ parent' = [parent EXCEPT !.handler = "terminate", !.hashes = parent.added,
                               !.removed = parent.hashes \ parent.added]
  /\ UNCHANGED <<requests, queues, tracker, runs, disorder>>

TerminateRemoved ==
  /\ parent.handler = "terminate"
  /\ IF parent.removed = {}
       THEN parent' = [parent EXCEPT !.handler = "idle"] /\ UNCHANGED queues
       ELSE \E h \in parent.removed :
              /\ Put("terminate", h)
              /\ parent' = [parent EXCEPT !.removed = @ \ {h}]
  /\ UNCHANGED <<requests, tracker, runs, disorder>>

\* The runner of the parent ends: killChildren lists the cache.  A handler of its
\* last execution may still be at work, and late lines may come.
ListChildren ==
  /\ parent.killer = "runs"
  /\ parent' = [parent EXCEPT !.killer = "kills", !.toKill = parent.hashes]
  /\ disorder' = IF parent.handler = "idle" THEN disorder ELSE disorder \cup Hashes
  /\ UNCHANGED <<requests, queues, tracker, runs>>

KillChild ==
  /\ parent.killer = "kills"
  /\ IF parent.toKill = {}
       THEN parent' = [parent EXCEPT !.killer = "ended"] /\ UNCHANGED queues
       ELSE \E h \in parent.toKill :
              /\ Put("terminate", h)
              /\ parent' = [parent EXCEPT !.toKill = @ \ {h}]
  /\ UNCHANGED <<requests, tracker, runs, disorder>>

-----------------------------------------------------------------------------
(* handleRequestsQueue and the tracker                                      *)

\* A run as it starts: its context, its process, its goroutine, and whether its pid
\* is in the channel.
NewRun(h) == [hash |-> h, ctx |-> "live", process |-> "none", goroutine |-> "run", pid |-> FALSE]

\* Tracker.Track replaces the entry of a hash.
Track(h) ==
  /\ Len(runs) < MaxRuns
  /\ runs' = Append(runs, NewRun(h))
  /\ tracker' = [tracker EXCEPT ![h] = Len(runs) + 1]

\* Mutant: the cancel function is forgotten without being called.
MutKill(h) == tracker' = [tracker EXCEPT ![h] = 0] /\ UNCHANGED runs

\* Tracker.Kill
Kill(h) ==
  IF tracker[h] = 0 THEN UNCHANGED <<tracker, runs>>
  ELSE /\ runs' = [runs EXCEPT ![tracker[h]].ctx = "done"]
       /\ tracker' = [tracker EXCEPT ![h] = 0]

\* The select takes from any queue: the oldest request of a hash may not be first.
Overtakes(item, q) == \E i \in DOMAIN queues[q] :
  queues[q][i].hash = item.hash /\ queues[q][i].no < item.no

TakeEntry ==
  /\ queues.entry # <<>>
  /\ LET item == Head(queues.entry) IN
     /\ Track(item.hash)
     /\ disorder' = IF Overtakes(item, "terminate") THEN disorder \cup {item.hash} ELSE disorder
  /\ queues' = [queues EXCEPT !.entry = Tail(@)]
  /\ UNCHANGED <<parent, requests>>

TakeTerminate ==
  /\ queues.terminate # <<>>
  /\ LET item == Head(queues.terminate) IN
     /\ Kill(item.hash)
     /\ disorder' = IF Overtakes(item, "entry") THEN disorder \cup {item.hash} ELSE disorder
  /\ queues' = [queues EXCEPT !.terminate = Tail(@)]
  /\ UNCHANGED <<parent, requests>>

\* A hash that is run again before its run ended: the entry of the first run is
\* replaced, and the end of the first run removes the entry of the second.
TakeDefinition ==
  /\ queues.definition # <<>>
  /\ LET h == Head(queues.definition).hash IN
     /\ Track(h)
     /\ disorder' = IF \E r \in DOMAIN runs : runs[r].hash = h /\ runs[r].goroutine = "run"
                      THEN disorder \cup {h} ELSE disorder
  /\ queues' = [queues EXCEPT !.definition = Tail(@)]
  /\ UNCHANGED <<parent, requests>>

-----------------------------------------------------------------------------
(* The runs                                                                 *)

\* The process starts and its pid is sent (single runs have room for it), or the
\* context is done and it does not.
RunStarts(r) ==
  /\ runs[r].goroutine = "run" /\ runs[r].process = "none"
  /\ runs' = [runs EXCEPT ![r].process = IF runs[r].ctx = "live" THEN "runs" ELSE "ended",
                          ![r].pid = runs[r].ctx = "live"]
  /\ UNCHANGED <<parent, requests, queues, tracker, disorder>>

\* The process (external) of a single run ends; that of a child is run again at
\* intervals, until its context is done.
ProcessExits(r) ==
  /\ runs[r].process = "runs" /\ (runs[r].hash \in Commands \/ runs[r].ctx = "done")
  /\ runs' = [runs EXCEPT ![r].process = "ended"]
  /\ UNCHANGED <<parent, requests, queues, tracker, disorder>>

\* A child ends; a command channel run notifies its exit and is untracked: by hash,
\* whatever the entry is by then.
RunEndsUntracks(r) ==
  /\ runs[r].goroutine = "run" /\ runs[r].process = "ended"
  /\ runs' = [runs EXCEPT ![r].goroutine = "done"]
  /\ tracker' = IF runs[r].hash \in Commands THEN [tracker EXCEPT ![runs[r].hash] = 0] ELSE tracker
  /\ UNCHANGED <<parent, requests, queues, disorder>>

-----------------------------------------------------------------------------
(* The command channel: run_integration and stop_integration                *)

\* The handler of run_integration, in a goroutine of its own.
RunIntegration(h) ==
  /\ Len(requests) < MaxHandled
  /\ Put("definition", h)
  /\ requests' = Append(requests, [hash |-> h, run |-> 0, pc |-> "done"])
  /\ UNCHANGED <<parent, tracker, runs, disorder>>

\* The handler of stop_integration: PIDReadChan.  A hash that is not tracked is
\* not stopped.
StopIntegration(h) ==
  /\ Len(requests) < MaxHandled
  /\ requests' = Append(requests, [hash |-> h, run |-> tracker[h],
                                   pc |-> IF tracker[h] = 0 THEN "done" ELSE "pid"])
  /\ UNCHANGED <<parent, queues, tracker, runs, disorder>>

\* The pid is read (once: a second handler would wait for ever), SIGTERM is sent
\* and the grace period begins.  A process that is gone is not found.
ReadPID(i) ==
  LET r == requests[i].run IN
  /\ requests[i].pc = "pid" /\ runs[r].pid
  /\ requests' = [requests EXCEPT ![i].pc = IF runs[r].process = "runs" THEN "grace" ELSE "done"]
  /\ runs' = [runs EXCEPT ![r].pid = FALSE]
  /\ UNCHANGED <<parent, queues, tracker, disorder>>

\* IsRunningWithContext after the grace period.
ForceQuit(r) == runs[r].process = "runs"

StopEndsWith(i) ==
  /\ requests[i].pc = "grace"
  /\ requests' = [requests EXCEPT ![i].pc = "done"]
  /\ IF ForceQuit(requests[i].run) THEN Kill(requests[i].hash) ELSE UNCHANGED <<tracker, runs>>
  /\ UNCHANGED <<parent, queues, disorder>>

-----------------------------------------------------------------------------

ConfigNext ==
  \/ \E c \in ParentConfigs : TakeConfig(c)
  \/ InvalidEntry \/ AddDefinition \/ ApplyConfig \/ TerminateRemoved
  \/ ListChildren \/ KillChild
  \/ TakeEntry \/ TakeTerminate

CommandNext ==
  \/ \E h \in Commands : RunIntegration(h) \/ StopIntegration(h)
  \/ \E i \in DOMAIN requests : ReadPID(i) \/ StopEndsWith(i)
  \/ TakeDefinition

RunNext == \E r \in DOMAIN runs : RunStarts(r) \/ ProcessExits(r) \/ RunEndsUntracks(r)

RequestsNext == ConfigNext \/ CommandNext \/ RunNext

RequestsSpec == RequestsInit /\ [][RequestsNext]_requestVars

-----------------------------------------------------------------------------
(* Properties                                                               *)

LiveRuns(h) == {r \in DOMAIN runs : runs[r].hash = h /\ runs[r].ctx = "live"}

\* Once the handlers are idle and the queues empty, the children that run are the
\* ones of the configuration printed last, one run each, and none after the parent
\* ended; each can be cancelled by its hash.  The select may take the requests of a
\* hash out of order, a configuration may fail half way or list an entry twice: these
\* hashes are not spoken of.
ChildrenFollow ==
  parent.handler = "idle" /\ parent.killer # "kills"
    /\ queues.entry = <<>> /\ queues.terminate = <<>>
  => \A h \in Hashes \ disorder :
       LiveRuns(h) = IF h \in parent.hashes /\ parent.killer = "runs" THEN {tracker[h]} ELSE {}

\* A stop_integration that read the pid of a run ends the run: its process is gone,
\* or its context cancelled, unless the same integration was started twice at a time.
StopStops ==
  \A i \in DOMAIN requests :
    requests[i].pc = "done" /\ requests[i].run # 0 /\ requests[i].hash \notin disorder
    => runs[requests[i].run].process = "ended" \/ runs[requests[i].run].ctx = "done"

=============================================================================
