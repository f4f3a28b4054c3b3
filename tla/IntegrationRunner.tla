-------------------------- MODULE IntegrationRunner --------------------------
(***************************************************************************)
(* One runner of an integration: it executes the command at intervals,     *)
(* each time under a context of its own that ends when no heartbeat comes  *)
(* in time.  An execution has the process, the goroutine of the executor,  *)
(* one that forwards the lines of the pipe to a channel, one that handles  *)
(* the lines of the channel (handleLines) and one that removes the         *)
(* configuration file.  The three streams of an execution are alike: the   *)
(* standard output stands for them.  Processes and the os/exec package are *)
(* external.                                                               *)
(***************************************************************************)
EXTENDS Integers

CONSTANTS
  Definitions,       \* the definitions of integrations
  MaxExecutions,     \* bound: executions
  MaxLines,          \* bound: lines that a process writes
  ChannelsCapacity   \* (10)

ASSUME RunnerAssumption ==
  /\ Definitions \subseteq [single : BOOLEAN, timeout : BOOLEAN, template : BOOLEAN]
  /\ {MaxExecutions, MaxLines, ChannelsCapacity} \subseteq Nat \ {0}

VARIABLES
  definition,   \* integration.Definition: what the steps depend on
  runner,       \* the goroutine of Run
  execs         \* the executions

runnerVars == <<definition, runner, execs>>

Ids == 1..MaxExecutions

\* An execution that has not begun.
NoExecution ==
  [ctx |-> "live", timer |-> "off",
   process |-> "none", written |-> 0, pipe |-> 0, reads |-> TRUE,
   executor |-> "none", interrupted |-> FALSE,
   forwarder |-> "none", channel |-> 0, handler |-> "none", handled |-> 0,
   file |-> FALSE, remover |-> "none"]

\* The group that started the runner cancels its context with stopped.
NewRunner ==
  /\ definition \in Definitions
  /\ runner = [pc |-> "top", now |-> 0, heartBeat |-> 0, stopped |-> FALSE]
  /\ execs = [e \in Ids |-> NoExecution]

Set(e, ex) == execs' = [execs EXCEPT ![e] = ex]

-----------------------------------------------------------------------------
(* The runner                                                               *)

\* No discovery, or conditions that are not met, or an instance that does not
\* start (its context ends at once).
SkipExecution ==
  /\ runner.pc = "top" /\ runner' = [runner EXCEPT !.pc = "after"]
  /\ UNCHANGED <<definition, execs>>

\* A goroutine in heartBeat holds the lock that setHeartBeat waits for.
Beating == \E e \in Ids : execs[e].handler = "beat"

\* Definition.Run: the file and the process with its goroutines; a process that
\* does not start leaves closed pipes.
Launched(err) ==
  [NoExecution EXCEPT
     !.process = IF err THEN "none" ELSE "runs",
     !.executor = "select", !.forwarder = "reads", !.handler = "reads",
     !.file = definition.template, !.remover = IF definition.template THEN "waits" ELSE "none"]

\* execute: the context with its timer, then the instances.
Execute(err) ==
  LET e == runner.now + 1 IN
  /\ runner.pc = "top" /\ e \in Ids /\ (definition.timeout => ~Beating)
  /\ runner' = [runner EXCEPT !.pc = "execute", !.now = e,
                              !.heartBeat = IF definition.timeout THEN e ELSE @]
  /\ Set(e, [Launched(err) EXCEPT
       !.ctx = IF runner.stopped THEN "done" ELSE "live",
       !.timer = IF definition.timeout THEN "armed" ELSE "off"])
  /\ UNCHANGED definition

\* The instances have finished: the channels are closed and empty.
Finished(e) == execs[e].handler = "done"

\* Actuator.HeartBeatStop
HeartBeatStop(ex) == [ex EXCEPT !.timer = IF @ = "armed" THEN "stopped" ELSE @, !.ctx = "done"]

\* The heartbeats of this execution share the lock of HeartBeatStop.
ExecuteReturns ==
  LET e == runner.now IN
  /\ runner.pc = "execute" /\ (execs[e].ctx = "done" \/ Finished(e))
  /\ definition.timeout => ~(runner.heartBeat = e /\ Beating)
  /\ runner' = [runner EXCEPT !.pc = "after"]
  /\ Set(e, IF definition.timeout THEN HeartBeatStop(execs[e]) ELSE execs[e])
  /\ UNCHANGED definition

\* A single run ends, or a cancelled one; killChildren follows.
RunEnds ==
  /\ runner.pc = "after" /\ (definition.single \/ runner.stopped)
  /\ runner' = [runner EXCEPT !.pc = "ended"]
  /\ UNCHANGED <<definition, execs>>

NextInterval ==
  /\ runner.pc = "after" /\ ~definition.single
  /\ runner' = [runner EXCEPT !.pc = "top"]
  /\ UNCHANGED <<definition, execs>>

\* groupContext.stop: the contexts of the executions end with it.
StopRunner ==
  /\ ~runner.stopped /\ runner' = [runner EXCEPT !.stopped = TRUE]
  /\ execs' = [e \in Ids |-> IF execs[e].executor = "none" THEN execs[e]
                             ELSE [execs[e] EXCEPT !.ctx = "done"]]
  /\ UNCHANGED definition

-----------------------------------------------------------------------------
(* The context with heartbeats                                              *)

\* No heartbeat came in time: the function of the timer starts ...
TimerFires(e) ==
  /\ execs[e].timer = "armed" /\ Set(e, [execs[e] EXCEPT !.timer = "fired"])
  /\ UNCHANGED <<definition, runner>>

\* ... and cancels the context.
TimerCancels(e) ==
  /\ execs[e].timer = "fired" /\ execs[e].ctx = "live"
  /\ Set(e, [execs[e] EXCEPT !.ctx = "done"])
  /\ UNCHANGED <<definition, runner>>

-----------------------------------------------------------------------------
(* The executor                                                             *)

\* The process (external): it writes, ends, and is killed when the context is done.
ProcessWrites(e) ==
  /\ execs[e].process = "runs" /\ execs[e].written < MaxLines
  /\ Set(e, [execs[e] EXCEPT !.written = @ + 1, !.pipe = @ + 1])
  /\ UNCHANGED <<definition, runner>>

ProcessEnds(e) ==
  /\ execs[e].process = "runs" /\ Set(e, [execs[e] EXCEPT !.process = "ended"])
  /\ UNCHANGED <<definition, runner>>

ProcessKilled(e) ==
  /\ execs[e].process = "runs" /\ execs[e].ctx = "done"
  /\ Set(e, [execs[e] EXCEPT !.process = "ended"])
  /\ UNCHANGED <<definition, runner>>

\* forwardCmdOutput: lines go from the pipe to the channel until the end of the
\* pipe, or until Wait has closed it.
Forward(e) ==
  /\ execs[e].forwarder = "reads" /\ execs[e].reads /\ execs[e].pipe > 0
  /\ execs[e].channel < ChannelsCapacity
  /\ Set(e, [execs[e] EXCEPT !.pipe = @ - 1, !.channel = @ + 1])
  /\ UNCHANGED <<definition, runner>>

\* Mutant: a pipe that Wait closed is not taken for its end.
MutEndOfPipe(e) == execs[e].pipe = 0 /\ execs[e].process # "runs"

EndOfPipe(e) ==
  \/ ~execs[e].reads
  \/ execs[e].pipe = 0 /\ execs[e].process # "runs"

ForwardEnds(e) ==
  /\ execs[e].forwarder = "reads" /\ EndOfPipe(e)
  /\ Set(e, [execs[e] EXCEPT !.forwarder = "done"])
  /\ UNCHANGED <<definition, runner>>

\* Mutant: the executor does not wait for the output.
MutAllForwarded(e) == TRUE

\* closedPipes
AllForwarded(e) == execs[e].forwarder = "done"

\* The select that waits for the context or for the end of the output.
SelectDone(e) ==
  /\ execs[e].executor = "select" /\ (execs[e].ctx = "done" \/ AllForwarded(e))
  /\ Set(e, [execs[e] EXCEPT !.executor = "wait", !.interrupted = execs[e].ctx = "done"])
  /\ UNCHANGED <<definition, runner>>

\* cmd.Wait (external) returns after the process, and closes the pipes.
Wait(e) ==
  /\ execs[e].executor = "wait" /\ execs[e].process # "runs"
  /\ Set(e, [execs[e] EXCEPT !.executor = "forwarded", !.reads = FALSE])
  /\ UNCHANGED <<definition, runner>>

\* out.Close
CloseOutput(e) ==
  /\ execs[e].executor = "forwarded" /\ execs[e].forwarder = "done"
  /\ Set(e, [execs[e] EXCEPT !.executor = "closed"])
  /\ UNCHANGED <<definition, runner>>

\* removeTempFile, after Done.  The name of the file is the hash of its content:
\* the executions of one definition share it.
RemoveTempFile(e) ==
  /\ execs[e].remover = "waits" /\ execs[e].executor = "closed"
  /\ execs' = [f \in Ids |-> [execs[f] EXCEPT !.file = FALSE,
                                !.remover = IF f = e THEN "done" ELSE @]]
  /\ UNCHANGED <<definition, runner>>

-----------------------------------------------------------------------------
(* handleLines                                                              *)

\* A line; beats says whether it extends the life of the execution whose heartbeat
\* is set: an empty object, or a payload that the emitter took.
HandleLine(e, beats) ==
  LET h == runner.heartBeat
      late == beats /\ h # 0 /\ execs[h].timer \in {"fired", "stopped"} /\ execs[h].ctx = "live"
  IN  /\ execs[e].handler = "reads" /\ execs[e].channel > 0
      /\ Set(e, [execs[e] EXCEPT !.channel = @ - 1, !.handled = @ + 1,
                                 !.handler = IF late THEN "beat" ELSE @])
      /\ UNCHANGED <<definition, runner>>

\* A heartbeat that came too late waits for the end of the context.
LateBeatReturns(e) ==
  /\ execs[e].handler = "beat" /\ execs[runner.heartBeat].ctx = "done"
  /\ Set(e, [execs[e] EXCEPT !.handler = "reads"])
  /\ UNCHANGED <<definition, runner>>

HandleLinesEnds(e) ==
  /\ execs[e].handler = "reads" /\ execs[e].channel = 0 /\ execs[e].executor = "closed"
  /\ Set(e, [execs[e] EXCEPT !.handler = "done"])
  /\ UNCHANGED <<definition, runner>>

-----------------------------------------------------------------------------

\* The steps of the goroutines of an execution.
ExecutionStep(e) ==
  \/ TimerCancels(e)
  \/ ProcessKilled(e)
  \/ Forward(e) \/ ForwardEnds(e)
  \/ SelectDone(e) \/ Wait(e) \/ CloseOutput(e) \/ RemoveTempFile(e)
  \/ \E beats \in BOOLEAN : HandleLine(e, beats)
  \/ LateBeatReturns(e) \/ HandleLinesEnds(e)

RunnerStep == ExecuteReturns \/ RunEnds

RunnerNext ==
  \/ SkipExecution \/ RunnerStep \/ NextInterval \/ StopRunner
  \/ \E err \in BOOLEAN : Execute(err)
  \/ \E e \in Ids : TimerFires(e) \/ ProcessWrites(e) \/ ProcessEnds(e) \/ ExecutionStep(e)

RunnerSpec == NewRunner /\ [][RunnerNext]_runnerVars

-----------------------------------------------------------------------------
(* Properties                                                               *)

\* Every line that a process wrote reaches the handler before the output is
\* closed and the next execution may begin, unless the execution was interrupted:
\* the order of the end of the pipes, Wait and Close loses none.
LinesHandled ==
  \A e \in Ids : execs[e].handler = "done" /\ ~execs[e].interrupted
                   => execs[e].handled = execs[e].written

\* The goroutines of an execution that timed out or was stopped end: no channel,
\* lock or late heartbeat holds them for ever.
ExecutionsEnd ==
  \A e \in Ids : (execs[e].ctx = "done") ~> (execs[e].handler = "done" /\ execs[e].remover # "waits")

=============================================================================
