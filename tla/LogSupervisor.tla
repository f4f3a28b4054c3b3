---------------------------- MODULE LogSupervisor ----------------------------
(***************************************************************************)
(* The supervisor of the log forwarder (Fluent Bit): it builds a           *)
(* configuration from the files of a folder, the agent's identity and the  *)
(* short name of the host, runs the process, and starts it again when one  *)
(* of these changes or when the process ends.  The process and the files   *)
(* are external.                                                           *)
(***************************************************************************)
EXTENDS Integers, HostnameResolver, FiniteSets

CONSTANTS
  Answers,        \* what the system and the DNS say of the names of the host
  MaxChanges,     \* bound: changes of files, identity and names, and calls of Restart
  MaxForwarders,  \* bound: processes started
  MaxTempFiles    \* MaxNumberOfFbConfigTempFiles (50)

ASSUME SupervisorAssumption ==
  /\ Answers \subseteq [short : ShortAnswers, full : FullAnswers, internal : FullAnswers]
  /\ {MaxChanges, MaxForwarders, MaxTempFiles} \subseteq Nat \ {0}

VARIABLES
  sources,      \* external: the folder of configurations, the agent's identity, and
                \* what the system and the DNS say of the names of the host
  supervisor,   \* the goroutine of Run, with its channels
  forwarders    \* the processes, in the order of their starts

supervisorVars == <<resolver, sources, supervisor, forwarders>>

\* The watcher is set before the first configuration is built.
SupervisorInit ==
  /\ ResolverInit
  /\ \E n \in Answers :
       sources = [files |-> 1, valid |-> TRUE, id |-> 1, event |-> FALSE, names |-> n, changes |-> 0]
  /\ supervisor = [pc |-> "build", restart |-> FALSE, built |-> <<0, 0, NoName>>,
                   temps |-> {}, failed |-> FALSE, stopped |-> FALSE]
  /\ forwarders = <<>>

QueryNow == Query(sources.names.short, sources.names.full, sources.names.internal)

Current == Len(forwarders)

Proceed(p) == supervisor' = [supervisor EXCEPT !.pc = p]

-----------------------------------------------------------------------------
(* What the configuration is built from                                     *)

\* A file of the folder is written or removed (external).
ChangeFiles(valid) ==
  /\ sources.changes < MaxChanges
  /\ sources' = [sources EXCEPT !.files = @ + 1, !.valid = valid, !.event = TRUE, !.changes = @ + 1]
  /\ UNCHANGED <<resolver, supervisor, forwarders>>

\* Mutant: restartCh has no buffer, and a signal that nobody waits for is lost.
MutSignalRestart ==
  supervisor' = [supervisor EXCEPT !.restart = @ \/ supervisor.pc \in {"select", "blocked"}]

\* A send to restartCh, which holds one, that does not wait.
SignalRestart == supervisor' = [supervisor EXCEPT !.restart = TRUE]

\* ConfigChangesWatcher.handleFileEvent
SignalReload ==
  /\ sources.event
  /\ sources' = [sources EXCEPT !.event = FALSE]
  /\ SignalRestart
  /\ UNCHANGED <<resolver, forwarders>>

\* SetAgentIdentity after a reconnection notifies its listeners.
ReconnectAgent ==
  /\ sources.changes < MaxChanges
  /\ sources' = [sources EXCEPT !.id = @ + 1, !.changes = @ + 1]
  /\ SignalRestart
  /\ UNCHANGED <<resolver, forwarders>>

\* Restart, called by the handler of a feature flag, waits for room.
RestartForFlag ==
  /\ ~supervisor.restart /\ sources.changes < MaxChanges
  /\ sources' = [sources EXCEPT !.changes = @ + 1]
  /\ SignalRestart
  /\ UNCHANGED <<resolver, forwarders>>

\* The system or the DNS gives other answers (external).
ChangeNames(answers) ==
  /\ sources.changes < MaxChanges /\ answers # sources.names
  /\ sources' = [sources EXCEPT !.names = answers, !.changes = @ + 1]
  /\ UNCHANGED <<resolver, supervisor, forwarders>>

\* Any part of the agent asks for the names.
QueryNames ==
  /\ QueryNow
  /\ UNCHANGED <<sources, supervisor, forwarders>>

-----------------------------------------------------------------------------
(* buildExecutor                                                            *)

\* LoadAll: the files are read; one that is not valid ends the build.
LoadFolder ==
  /\ supervisor.pc = "build"
  /\ supervisor' = [supervisor EXCEPT !.pc = IF sources.valid THEN "names" ELSE "blocked",
                                      !.built = <<sources.files, 0, NoName>>, !.failed = FALSE]
  /\ UNCHANGED <<resolver, sources, forwarders>>

\* The identity, which is known by now, and the names.
LoadNames ==
  /\ supervisor.pc = "names"
  /\ QueryNow
  /\ supervisor' = [supervisor EXCEPT !.pc = "save", !.built = <<@[1], sources.id, resolver'.short>>]
  /\ UNCHANGED <<sources, forwarders>>

\* The n oldest files: the first n of the sorted list.
Oldest(files, n) == {i \in files : Cardinality({j \in files : j < i}) < n}

\* saveToTempFile and removeFbConfigTempFiles; then startBackgroundProcess, whose
\* context is done when the agent has stopped.
StartForwarder ==
  LET n == Current + 1
      temps == supervisor.temps \cup {n}
      spare == Cardinality(temps) - MaxTempFiles
  IN  /\ supervisor.pc = "save" /\ n <= MaxForwarders
      /\ supervisor' = [supervisor EXCEPT !.pc = "select",
                          !.temps = IF spare > 0 THEN temps \ Oldest(temps, spare) ELSE temps]
      /\ forwarders' = Append(forwarders,
           [from |-> supervisor.built, ctx |-> IF supervisor.stopped THEN "done" ELSE "live",
            process |-> "runs", status |-> "none"])
      /\ UNCHANGED <<resolver, sources>>

\* The temporary file cannot be written: like any error of the build, it is not
\* tried again before the next request to restart.
SaveFails ==
  /\ supervisor.pc = "save"
  /\ supervisor' = [supervisor EXCEPT !.pc = "blocked", !.failed = TRUE]
  /\ UNCHANGED <<resolver, sources, forwarders>>

BuildAgain ==
  /\ supervisor.pc = "blocked" /\ supervisor.restart
  /\ supervisor' = [supervisor EXCEPT !.pc = "build", !.restart = FALSE]
  /\ UNCHANGED <<resolver, sources, forwarders>>

-----------------------------------------------------------------------------
(* Run: the select                                                          *)

CancelForwarder == forwarders' = [forwarders EXCEPT ![Current].ctx = "done"]

RestartRequested ==
  /\ supervisor.pc = "select" /\ supervisor.restart
  /\ supervisor' = [supervisor EXCEPT !.pc = "exit", !.restart = FALSE]
  /\ CancelForwarder
  /\ UNCHANGED <<resolver, sources>>

\* A change that does not include the short name leaves the process alone, and starts
\* another one.
HostnameChanged ==
  /\ supervisor.pc = "select" /\ resolver.channel # <<>>
  /\ resolver' = [resolver EXCEPT !.channel = <<>>]
  /\ IF Head(resolver.channel) \in {"Short", "ShortAndFull"}
       THEN CancelForwarder /\ Proceed("exit")
       ELSE UNCHANGED forwarders /\ Proceed("build")
  /\ UNCHANGED sources

\* The process ended: at once again, or after a while if it failed.
ForwarderEnded ==
  /\ supervisor.pc = "select" /\ forwarders[Current].status = "sent"
  /\ \E next \in IF supervisor.stopped THEN {"ended"} ELSE {"build", "backoff"} : Proceed(next)
  /\ forwarders' = [forwarders EXCEPT ![Current].status = "read"]
  /\ UNCHANGED <<resolver, sources>>

BackOffEnds ==
  /\ supervisor.pc = "backoff" /\ Proceed("build")
  /\ UNCHANGED <<resolver, sources, forwarders>>

\* <-exitStatus
StatusRead ==
  /\ supervisor.pc = "exit" /\ forwarders[Current].status = "sent"
  /\ Proceed("build")
  /\ forwarders' = [forwarders EXCEPT ![Current].status = "read"]
  /\ UNCHANGED <<resolver, sources>>

\* The context of the agent ends (bound: what the configuration is built from does not
\* change any more).
StopAgent ==
  /\ ~supervisor.stopped
  /\ supervisor' = [supervisor EXCEPT !.stopped = TRUE]
  /\ sources' = [sources EXCEPT !.changes = MaxChanges]
  /\ forwarders' = [p \in DOMAIN forwarders |-> [forwarders[p] EXCEPT !.ctx = "done"]]
  /\ UNCHANGED resolver

\* The end of Run while no process is watched.  A build goes on to start a process
\* whose context is done.
RunReturns ==
  /\ supervisor.stopped /\ supervisor.pc = "blocked"
  /\ Proceed("ended")
  /\ UNCHANGED <<resolver, sources, forwarders>>

-----------------------------------------------------------------------------
(* startBackgroundProcess                                                   *)

\* The process (external) ends by itself, or is killed.
ForwarderExits(p) ==
  /\ forwarders[p].process = "runs"
  /\ forwarders' = [forwarders EXCEPT ![p].process = "ended"]
  /\ UNCHANGED <<resolver, sources, supervisor>>

\* handleErrors returns when the process has ended, and at once when the context is
\* done.
SendStatus(p) ==
  /\ forwarders[p].status = "none"
  /\ forwarders[p].process = "ended" \/ forwarders[p].ctx = "done"
  /\ forwarders' = [forwarders EXCEPT ![p].status = "sent"]
  /\ UNCHANGED <<resolver, sources, supervisor>>

-----------------------------------------------------------------------------

SupervisorNext ==
  \/ \E valid \in BOOLEAN : ChangeFiles(valid)
  \/ SignalReload \/ ReconnectAgent \/ RestartForFlag
  \/ \E n \in Answers : ChangeNames(n)
  \/ QueryNames \/ LoadFolder \/ LoadNames \/ StartForwarder \/ SaveFails \/ BuildAgain
  \/ RestartRequested \/ HostnameChanged \/ ForwarderEnded \/ BackOffEnds \/ StatusRead
  \/ StopAgent \/ RunReturns
  \/ \E p \in DOMAIN forwarders : ForwarderExits(p) \/ SendStatus(p)

SupervisorSpec == SupervisorInit /\ [][SupervisorNext]_supervisorVars

-----------------------------------------------------------------------------
(* Properties                                                               *)

\* At most one forwarder is left running, and the file of its configuration is not
\* removed with the old ones: whatever requests, changes of names and ends of
\* processes come together, no process is forgotten.
OneForwarder ==
  \A p \in DOMAIN forwarders :
    forwarders[p].ctx = "live" /\ forwarders[p].process = "runs" => p = Current /\ p \in supervisor.temps

\* No change is missed: when no notification is left, the forwarder was built from the
\* files, the identity and the short name of now, or the files are not valid (or the
\* build failed otherwise, and waits for a request to restart).
LogsFollow ==
  ~sources.event /\ ~supervisor.restart /\ resolver.channel = <<>> /\ ~supervisor.stopped =>
    /\ supervisor.pc = "select" =>
         forwarders[Current].from = <<sources.files, sources.id, resolver.short>>
    /\ supervisor.pc = "blocked" => ~sources.valid \/ supervisor.failed

=============================================================================
