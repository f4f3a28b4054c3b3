------------------------- MODULE IntegrationsProofs -------------------------
(***************************************************************************)
(* Proofs about the runner of an integration, the command channel, and the *)
(* requests to run and to stop integrations: stops of the command channel  *)
(* end the run they found, and the children of an integration are the ones *)
(* of its last configuration.                                              *)
(***************************************************************************)
EXTENDS IntegrationRunner, CommandChannel, IntegrationRequests, TLAPS

USE Zenon

-----------------------------------------------------------------------------
(* The lines of an execution                                                *)

Execution ==
  [ctx : {"live", "done"}, timer : {"off", "armed", "fired", "stopped"},
   process : {"none", "runs", "ended"}, written : Nat, pipe : Nat, reads : BOOLEAN,
   executor : {"none", "select", "wait", "forwarded", "closed"}, interrupted : BOOLEAN,
   forwarder : {"none", "reads", "done"}, channel : Nat,
   handler : {"none", "reads", "beat", "done"}, handled : Nat,
   file : BOOLEAN, remover : {"none", "waits", "done"}]

\* The lines written are in the pipe, in the channel or handled.  The forwarder ends
\* with the output, or once Wait has closed the pipes; the executor goes past its
\* select with all of the output, or interrupted; and the handler ends when the
\* channel is closed and empty.
Lines(x) ==
  /\ x.handled + x.channel + x.pipe = x.written
  /\ x.executor \in {"none", "select"} => ~x.interrupted /\ x.reads
  /\ x.executor = "wait" => x.reads
  /\ x.executor \in {"wait", "forwarded", "closed"} /\ ~x.interrupted => x.forwarder = "done"
  /\ x.executor = "closed" => x.forwarder = "done"
  /\ x.forwarder = "done" /\ ~x.interrupted => x.pipe = 0 /\ x.process # "runs"
  /\ x.handler = "done" => x.channel = 0 /\ x.executor = "closed"

RunnerInv ==
  /\ definition \in Definitions
  /\ execs \in [Ids -> Execution]
  /\ \A e \in Ids : Lines(execs[e])

LEMMA SetKeeps ==
  ASSUME RunnerInv, NEW e \in Ids, NEW x \in Execution, Lines(x), Set(e, x), UNCHANGED definition
  PROVE  RunnerInv'
<1>1. execs' = [execs EXCEPT ![e] = x]
  BY DEF Set
<1>2. execs' \in [Ids -> Execution]
  BY <1>1 DEF RunnerInv
<1>3. \A f \in Ids : execs'[f] = IF f = e THEN x ELSE execs[f]
  BY <1>1 DEF RunnerInv
<1>4. \A f \in Ids : Lines(execs'[f])
  BY <1>3 DEF RunnerInv
<1> QED
  BY <1>2, <1>4 DEF RunnerInv, Lines

LEMMA Fields ==
  ASSUME NEW x \in Execution
  PROVE  /\ x.written \in Nat /\ x.pipe \in Nat /\ x.channel \in Nat /\ x.handled \in Nat
         /\ x.executor \in {"none", "select", "wait", "forwarded", "closed"}
BY DEF Execution

(* What each step that changes one execution makes of it.                   *)

LEMMA ContextKeeps ==
  ASSUME NEW x \in Execution, Lines(x), NEW ctx \in {"live", "done"},
         NEW y, y = [x EXCEPT !.ctx = ctx]
  PROVE  y \in Execution /\ Lines(y)
<1>1. /\ y \in Execution
      /\ y.process = x.process /\ y.written = x.written /\ y.pipe = x.pipe /\ y.reads = x.reads
      /\ y.executor = x.executor /\ y.interrupted = x.interrupted /\ y.forwarder = x.forwarder
      /\ y.channel = x.channel /\ y.handler = x.handler /\ y.handled = x.handled
  BY Fields DEF Execution
<1> QED
  BY <1>1, Fields, SMT DEF Lines

LEMMA TimerKeeps ==
  ASSUME NEW x \in Execution, Lines(x), NEW timer \in {"off", "armed", "fired", "stopped"},
         NEW y, y = [x EXCEPT !.timer = timer]
  PROVE  y \in Execution /\ Lines(y)
<1>1. /\ y \in Execution
      /\ y.process = x.process /\ y.written = x.written /\ y.pipe = x.pipe /\ y.reads = x.reads
      /\ y.executor = x.executor /\ y.interrupted = x.interrupted /\ y.forwarder = x.forwarder
      /\ y.channel = x.channel /\ y.handler = x.handler /\ y.handled = x.handled
  BY Fields DEF Execution
<1> QED
  BY <1>1, Fields, SMT DEF Lines

LEMMA WriteKeeps ==
  ASSUME NEW x \in Execution, Lines(x), x.process = "runs",
         NEW y, y = [x EXCEPT !.written = @ + 1, !.pipe = @ + 1]
  PROVE  y \in Execution /\ Lines(y)
<1>1. x.written + 1 \in Nat /\ x.pipe + 1 \in Nat
  BY Fields, SMT
<1>2. /\ y \in Execution
      /\ y.process = x.process /\ y.written = x.written + 1 /\ y.pipe = x.pipe + 1
      /\ y.reads = x.reads /\ y.executor = x.executor /\ y.interrupted = x.interrupted
      /\ y.forwarder = x.forwarder /\ y.channel = x.channel /\ y.handler = x.handler
      /\ y.handled = x.handled
  BY <1>1 DEF Execution
<1> QED
  BY <1>2, Fields, SMT DEF Lines

LEMMA EndKeeps ==
  ASSUME NEW x \in Execution, Lines(x), x.process = "runs",
         NEW y, y = [x EXCEPT !.process = "ended"]
  PROVE  y \in Execution /\ Lines(y)
<1>1. /\ y \in Execution
      /\ y.process = "ended" /\ y.written = x.written /\ y.pipe = x.pipe /\ y.reads = x.reads
      /\ y.executor = x.executor /\ y.interrupted = x.interrupted /\ y.forwarder = x.forwarder
      /\ y.channel = x.channel /\ y.handler = x.handler /\ y.handled = x.handled
  BY Fields DEF Execution
<1> QED
  BY <1>1, Fields, SMT DEF Lines

LEMMA ForwardKeeps ==
  ASSUME NEW x \in Execution, Lines(x), x.forwarder = "reads", x.pipe > 0,
         NEW y, y = [x EXCEPT !.pipe = @ - 1, !.channel = @ + 1]
  PROVE  y \in Execution /\ Lines(y)
<1>1. x.pipe - 1 \in Nat /\ x.channel + 1 \in Nat
  BY Fields, SMT
<1>2. /\ y \in Execution
      /\ y.process = x.process /\ y.written = x.written /\ y.pipe = x.pipe - 1
      /\ y.reads = x.reads /\ y.executor = x.executor /\ y.interrupted = x.interrupted
      /\ y.forwarder = x.forwarder /\ y.channel = x.channel + 1 /\ y.handler = x.handler
      /\ y.handled = x.handled
  BY <1>1 DEF Execution
<1> QED
  BY <1>2, Fields, SMT DEF Lines

LEMMA ForwardEndKeeps ==
  ASSUME NEW x \in Execution, Lines(x), x.forwarder = "reads",
         ~x.reads \/ (x.pipe = 0 /\ x.process # "runs"),
         NEW y, y = [x EXCEPT !.forwarder = "done"]
  PROVE  y \in Execution /\ Lines(y)
<1>1. /\ y \in Execution
      /\ y.process = x.process /\ y.written = x.written /\ y.pipe = x.pipe /\ y.reads = x.reads
      /\ y.executor = x.executor /\ y.interrupted = x.interrupted /\ y.forwarder = "done"
      /\ y.channel = x.channel /\ y.handler = x.handler /\ y.handled = x.handled
  BY Fields DEF Execution
<1> QED
  BY <1>1, Fields, SMT DEF Lines

LEMMA SelectKeeps ==
  ASSUME NEW x \in Execution, Lines(x), x.executor = "select", x.ctx = "done" \/ x.forwarder = "done",
         NEW y, y = [x EXCEPT !.executor = "wait", !.interrupted = x.ctx = "done"]
  PROVE  y \in Execution /\ Lines(y)
<1>1. /\ y \in Execution
      /\ y.process = x.process /\ y.written = x.written /\ y.pipe = x.pipe /\ y.reads = x.reads
      /\ y.executor = "wait" /\ (y.interrupted <=> x.ctx = "done") /\ y.forwarder = x.forwarder
      /\ y.channel = x.channel /\ y.handler = x.handler /\ y.handled = x.handled
  BY Fields DEF Execution
<1> QED
  BY <1>1, Fields, SMT DEF Lines

LEMMA WaitKeeps ==
  ASSUME NEW x \in Execution, Lines(x), x.executor = "wait", x.process # "runs",
         NEW y, y = [x EXCEPT !.executor = "forwarded", !.reads = FALSE]
  PROVE  y \in Execution /\ Lines(y)
<1>1. /\ y \in Execution
      /\ y.process = x.process /\ y.written = x.written /\ y.pipe = x.pipe /\ y.reads = FALSE
      /\ y.executor = "forwarded" /\ y.interrupted = x.interrupted /\ y.forwarder = x.forwarder
      /\ y.channel = x.channel /\ y.handler = x.handler /\ y.handled = x.handled
  BY Fields DEF Execution
<1> QED
  BY <1>1, Fields, SMT DEF Lines

LEMMA CloseKeeps ==
  ASSUME NEW x \in Execution, Lines(x), x.executor = "forwarded", x.forwarder = "done",
         NEW y, y = [x EXCEPT !.executor = "closed"]
  PROVE  y \in Execution /\ Lines(y)
<1>1. /\ y \in Execution
      /\ y.process = x.process /\ y.written = x.written /\ y.pipe = x.pipe /\ y.reads = x.reads
      /\ y.executor = "closed" /\ y.interrupted = x.interrupted /\ y.forwarder = x.forwarder
      /\ y.channel = x.channel /\ y.handler = x.handler /\ y.handled = x.handled
  BY Fields DEF Execution
<1> QED
  BY <1>1, Fields, SMT DEF Lines

LEMMA RemoveKeeps ==
  ASSUME NEW x \in Execution, Lines(x), NEW remover \in {"none", "waits", "done"},
         NEW y, y = [x EXCEPT !.file = FALSE, !.remover = remover]
  PROVE  y \in Execution /\ Lines(y)
<1>1. /\ y \in Execution
      /\ y.process = x.process /\ y.written = x.written /\ y.pipe = x.pipe /\ y.reads = x.reads
      /\ y.executor = x.executor /\ y.interrupted = x.interrupted /\ y.forwarder = x.forwarder
      /\ y.channel = x.channel /\ y.handler = x.handler /\ y.handled = x.handled
  BY Fields DEF Execution
<1> QED
  BY <1>1, Fields, SMT DEF Lines

LEMMA HandleKeeps ==
  ASSUME NEW x \in Execution, Lines(x), x.handler = "reads", x.channel > 0, NEW handler \in {"reads", "beat"},
         NEW y, y = [x EXCEPT !.channel = @ - 1, !.handled = @ + 1, !.handler = handler]
  PROVE  y \in Execution /\ Lines(y)
<1>1. x.channel - 1 \in Nat /\ x.handled + 1 \in Nat
  BY Fields, SMT
<1>2. /\ y \in Execution
      /\ y.process = x.process /\ y.written = x.written /\ y.pipe = x.pipe /\ y.reads = x.reads
      /\ y.executor = x.executor /\ y.interrupted = x.interrupted /\ y.forwarder = x.forwarder
      /\ y.channel = x.channel - 1 /\ y.handler = handler /\ y.handled = x.handled + 1
  BY <1>1 DEF Execution
<1> QED
  BY <1>2, Fields, SMT DEF Lines

LEMMA BeatKeeps ==
  ASSUME NEW x \in Execution, Lines(x), x.handler = "beat",
         NEW y, y = [x EXCEPT !.handler = "reads"]
  PROVE  y \in Execution /\ Lines(y)
<1>1. /\ y \in Execution
      /\ y.process = x.process /\ y.written = x.written /\ y.pipe = x.pipe /\ y.reads = x.reads
      /\ y.executor = x.executor /\ y.interrupted = x.interrupted /\ y.forwarder = x.forwarder
      /\ y.channel = x.channel /\ y.handler = "reads" /\ y.handled = x.handled
  BY Fields DEF Execution
<1> QED
  BY <1>1, Fields, SMT DEF Lines

LEMMA HandlerEndKeeps ==
  ASSUME NEW x \in Execution, Lines(x), x.handler = "reads", x.channel = 0, x.executor = "closed",
         NEW y, y = [x EXCEPT !.handler = "done"]
  PROVE  y \in Execution /\ Lines(y)
<1>1. /\ y \in Execution
      /\ y.process = x.process /\ y.written = x.written /\ y.pipe = x.pipe /\ y.reads = x.reads
      /\ y.executor = x.executor /\ y.interrupted = x.interrupted /\ y.forwarder = x.forwarder
      /\ y.channel = x.channel /\ y.handler = "done" /\ y.handled = x.handled
  BY Fields DEF Execution
<1> QED
  BY <1>1, Fields, SMT DEF Lines

LEMMA LaunchKeeps ==
  ASSUME RunnerInv, NEW err \in BOOLEAN, NEW ctx \in {"live", "done"}, NEW timer \in {"armed", "off"},
         NEW y, y = [Launched(err) EXCEPT !.ctx = ctx, !.timer = timer]
  PROVE  y \in Execution /\ Lines(y)
<1> DEFINE proc == IF err THEN "none" ELSE "runs"
           remover == IF definition.template THEN "waits" ELSE "none"
           x == [NoExecution EXCEPT !.process = proc, !.executor = "select", !.forwarder = "reads",
                   !.handler = "reads", !.file = definition.template, !.remover = remover]
<1>1. definition.template \in BOOLEAN
  BY RunnerAssumption, SMT DEF RunnerInv
<1>2. proc \in {"none", "runs", "ended"} /\ remover \in {"none", "waits", "done"}
  BY <1>1
<1>3. x = Launched(err)
  BY DEF Launched
<1> HIDE DEF proc, remover
<1>4. NoExecution \in Execution
  BY SMT DEF NoExecution, Execution
<1>5. x \in Execution
  BY <1>1, <1>2, <1>4, ZenonT(40) DEF Execution
<1>6. /\ x.written = 0 /\ x.pipe = 0 /\ x.channel = 0 /\ x.handled = 0 /\ x.handler = "reads"
      /\ x.reads = TRUE /\ x.executor = "select" /\ x.interrupted = FALSE /\ x.forwarder = "reads"
  BY DEF NoExecution
<1> HIDE DEF x
<1>7. Lines(x)
  BY <1>6, SMT DEF Lines
<1>8. [x EXCEPT !.ctx = ctx] \in Execution /\ Lines([x EXCEPT !.ctx = ctx])
  BY <1>5, <1>7, ContextKeeps
<1> QED
  BY <1>3, <1>8, TimerKeeps

LEMMA RunnerInvInit == NewRunner => RunnerInv
<1> SUFFICES ASSUME NewRunner PROVE RunnerInv
  OBVIOUS
<1>1. NoExecution \in Execution
  BY SMT DEF NoExecution, Execution
<1>2. Lines(NoExecution)
  BY SMT DEF NoExecution, Lines
<1> QED
  BY <1>1, <1>2 DEF NewRunner, RunnerInv

LEMMA RunnerInvStep == RunnerInv /\ [RunnerNext]_runnerVars => RunnerInv'
<1> SUFFICES ASSUME RunnerInv, [RunnerNext]_runnerVars PROVE RunnerInv'
  OBVIOUS
<1> USE DEF RunnerInv
<1>1. CASE UNCHANGED <<definition, execs>>
  BY <1>1 DEF Lines
<1>2. ASSUME NEW err \in BOOLEAN, Execute(err) PROVE RunnerInv'
  BY <1>2, LaunchKeeps, SetKeeps DEF Execute
<1>3. CASE ExecuteReturns
  <2> DEFINE e == runner.now
  <2>1. CASE e \in Ids /\ definition.timeout
    <3> DEFINE x == execs[e]
               t == IF x.timer = "armed" THEN "stopped" ELSE x.timer
               y == [x EXCEPT !.timer = t]
    <3>1. x \in Execution /\ Lines(x)
      BY <2>1
    <3>2. t \in {"off", "armed", "fired", "stopped"}
      BY <3>1 DEF Execution
    <3>3. y \in Execution /\ Lines(y)
      BY <3>1, <3>2, TimerKeeps
    <3>4. HeartBeatStop(x) = [y EXCEPT !.ctx = "done"]
      BY DEF HeartBeatStop
    <3>5. HeartBeatStop(x) \in Execution /\ Lines(HeartBeatStop(x))
      BY <3>3, <3>4, ContextKeeps
    <3> QED
      BY <1>3, <2>1, <3>5, SetKeeps DEF ExecuteReturns
  <2>2. CASE e \notin Ids \/ ~definition.timeout
    BY <1>3, <2>2 DEF ExecuteReturns, Set
  <2> QED
    BY <2>1, <2>2
<1>4. CASE StopRunner
  <2>1. ASSUME NEW e \in Ids
        PROVE  LET y == [execs[e] EXCEPT !.ctx = "done"] IN y \in Execution /\ Lines(y)
    BY ContextKeeps
  <2> QED
    BY <1>4, <2>1 DEF StopRunner
<1> DEFINE Sets(e, y) == y \in Execution /\ Lines(y) /\ Set(e, y) /\ UNCHANGED definition
<1>5. ASSUME NEW e \in Ids, TimerFires(e) \/ TimerCancels(e) PROVE \E y : Sets(e, y)
  <2>1. CASE TimerFires(e)
    BY <2>1, TimerKeeps DEF TimerFires
  <2>2. CASE TimerCancels(e)
    BY <2>2, ContextKeeps DEF TimerCancels
  <2> QED
    BY <1>5, <2>1, <2>2
<1>6. ASSUME NEW e \in Ids, ProcessWrites(e) \/ ProcessEnds(e) \/ ProcessKilled(e)
      PROVE \E y : Sets(e, y)
  BY <1>6, WriteKeeps, EndKeeps DEF ProcessWrites, ProcessEnds, ProcessKilled
<1>7. ASSUME NEW e \in Ids, Forward(e) \/ ForwardEnds(e) PROVE \E y : Sets(e, y)
  BY <1>7, ForwardKeeps, ForwardEndKeeps DEF Forward, ForwardEnds, EndOfPipe
<1>8. ASSUME NEW e \in Ids, SelectDone(e) \/ Wait(e) \/ CloseOutput(e) PROVE \E y : Sets(e, y)
  <2>1. CASE SelectDone(e)
    BY <2>1, SelectKeeps DEF SelectDone, AllForwarded
  <2>2. CASE Wait(e)
    BY <2>2, WaitKeeps DEF Wait
  <2>3. CASE CloseOutput(e)
    BY <2>3, CloseKeeps DEF CloseOutput
  <2> QED
    BY <1>8, <2>1, <2>2, <2>3
<1>9. ASSUME NEW e \in Ids, \/ \E beats \in BOOLEAN : HandleLine(e, beats)
                            \/ LateBeatReturns(e) \/ HandleLinesEnds(e)
      PROVE \E y : Sets(e, y)
  <2>1. ASSUME NEW beats \in BOOLEAN, HandleLine(e, beats) PROVE \E y : Sets(e, y)
    BY <2>1, HandleKeeps DEF HandleLine
  <2>2. CASE LateBeatReturns(e)
    BY <2>2, BeatKeeps DEF LateBeatReturns
  <2>3. CASE HandleLinesEnds(e)
    BY <2>3, HandlerEndKeeps DEF HandleLinesEnds
  <2> QED
    BY <1>9, <2>1, <2>2, <2>3
<1>10. ASSUME NEW e \in Ids, RemoveTempFile(e) PROVE RunnerInv'
  <2>1. ASSUME NEW f \in Ids
        PROVE  LET r == IF f = e THEN "done" ELSE execs[f].remover
                   y == [execs[f] EXCEPT !.file = FALSE, !.remover = r]
               IN  y \in Execution /\ Lines(y)
    <3>1. execs[f] \in Execution /\ Lines(execs[f])
      OBVIOUS
    <3>2. (IF f = e THEN "done" ELSE execs[f].remover) \in {"none", "waits", "done"}
      BY <3>1 DEF Execution
    <3> QED
      BY <3>1, <3>2, RemoveKeeps
  <2> QED
    BY <1>10, <2>1 DEF RemoveTempFile
<1>11. ASSUME NEW e \in Ids, NEW y, Sets(e, y) PROVE RunnerInv'
  BY <1>11, SetKeeps
<1> QED
  BY <1>1, <1>2, <1>3, <1>4, <1>5, <1>6, <1>7, <1>8, <1>9, <1>10, <1>11
  DEF RunnerNext, runnerVars, SkipExecution, RunnerStep, RunEnds, NextInterval, ExecutionStep

\* Definition.Run and its executor lose no line: whenever a handler has ended, in every
\* interleaving of the goroutines of the executions, and for every capacity of the
\* channel, it has handled all that the process wrote, unless the execution was
\* interrupted.
THEOREM NoLineLost == RunnerSpec => []LinesHandled
<1>1. RunnerInv => LinesHandled
  <2> SUFFICES ASSUME RunnerInv, NEW e \in Ids, execs[e].handler = "done", ~execs[e].interrupted
               PROVE  execs[e].handled = execs[e].written
    BY DEF LinesHandled
  <2>1. execs[e] \in Execution /\ Lines(execs[e])
    BY DEF RunnerInv
  <2> QED
    BY <2>1, Fields, SMT DEF Lines
<1> QED
  BY <1>1, RunnerInvInit, RunnerInvStep, PTL DEF RunnerSpec

-----------------------------------------------------------------------------
(* The command channel                                                      *)

Cmds ==
  [kind : {"flag"}, of : Flags, enabled : BOOLEAN] \cup [kind : {"request"}, of : Requests]
    \cup [kind : {"backoff"}, of : Delays]

Backend ==
  [flags : [Flags -> BOOLEAN], requests : SUBSET Requests, acked : SUBSET Requests,
   toggles : Nat, failures : Nat]

Service ==
  [pc : {"start", "handle", "settle", "wait", "poll"}, initial : BOOLEAN, id : BOOLEAN,
   todo : SUBSET Cmds, acks : SUBSET Requests, delay : Int]

Process ==
  [cfg : [RestartFlags -> BOOLEAN], features : UNION {[F -> BOOLEAN] : F \in SUBSET BasicFlags},
   spawned : SUBSET Requests, backoff : Seq(Int), senders : Seq(Int)]

Counts == [handled : [Requests -> Nat], again : [Requests -> Nat]]

ChannelTypeOK ==
  /\ backend \in Backend
  /\ service \in Service
  /\ process \in Process
  /\ count \in Counts

\* A request that was acknowledged has been handled once more than it failed to be
\* acknowledged, one that was not at most as often.
AckedOnce ==
  \A r \in Requests : count.handled[r] <= count.again[r] + IF r \in service.acks THEN 1 ELSE 0

ChannelInv == ChannelTypeOK /\ AckedOnce

LEMMA NewProcessType == NewProcess \in Process /\ NewService \in Service /\ NoCount \in Counts
<1>1. NewProcess \in Process
  <2>1. UserFeatures \in UNION {[F -> BOOLEAN] : F \in SUBSET BasicFlags}
    BY ChannelAssumption
  <2>2. <<>> \in Seq(Int)
    BY SMT
  <2> QED
    BY <2>1, <2>2 DEF NewProcess, Process
<1>2. NewService \in Service
  BY ChannelAssumption DEF NewService, Service
<1>3. NoCount \in Counts
  BY SMT DEF NoCount, Counts
<1> QED
  BY <1>1, <1>2, <1>3

LEMMA ChannelInvInit == ChannelInit => ChannelInv
<1> SUFFICES ASSUME ChannelInit PROVE ChannelInv
  OBVIOUS
<1>1. backend \in Backend
  <2>1. 0 \in Nat
    BY SMT
  <2> QED
    BY <2>1 DEF ChannelInit, Backend
<1>2. \A r \in Requests : NoCount.handled[r] = 0 /\ NoCount.again[r] = 0 /\ r \notin NewService.acks
  BY DEF NoCount, NewService
<1>3. AckedOnce
  BY <1>2, SMT DEF AckedOnce, ChannelInit
<1> QED
  BY <1>1, <1>3, NewProcessType DEF ChannelInit, ChannelInv, ChannelTypeOK

LEMMA ResponsesType == ASSUME ChannelTypeOK, NEW cmds \in Responses PROVE cmds \subseteq Cmds
<1>1. PICK again \in SUBSET backend.acked,
           delay \in {{}} \cup {{d} : d \in {e \in Delays : process.senders = <<>>}} :
        cmds = Offer(again, delay)
  BY SMTT(20) DEF Responses
<1>2. delay \subseteq Delays
  OBVIOUS
<1>3. /\ backend.flags \in [Flags -> BOOLEAN]
      /\ backend.requests \subseteq Requests /\ backend.acked \subseteq Requests
  BY DEF ChannelTypeOK, Backend
<1>4. ASSUME NEW f \in Flags PROVE [kind |-> "flag", of |-> f, enabled |-> backend.flags[f]] \in Cmds
  <2>1. backend.flags[f] \in BOOLEAN
    BY <1>3
  <2> QED
    BY <2>1 DEF Cmds
<1>5. ASSUME NEW r \in Requests PROVE [kind |-> "request", of |-> r] \in Cmds
  BY DEF Cmds
<1>6. ASSUME NEW d \in Delays PROVE [kind |-> "backoff", of |-> d] \in Cmds
  BY DEF Cmds
<1> QED
  BY <1>1, <1>2, <1>3, <1>4, <1>5, <1>6 DEF Offer

\* A step that leaves the counts and the acknowledged requests alone.
LEMMA AcksKept ==
  ASSUME AckedOnce, count' = count, service'.acks = service.acks
  PROVE  AckedOnce'
BY DEF AckedOnce

LEMMA RestartsKeep == ASSUME Restarts, backend' = backend, ChannelInv PROVE ChannelInv'
<1>1. ChannelTypeOK'
  BY NewProcessType DEF Restarts, ChannelInv, ChannelTypeOK
<1>2. \A r \in Requests : NoCount.handled[r] = 0 /\ NoCount.again[r] = 0 /\ r \notin NewService.acks
  BY DEF NoCount, NewService
<1>3. AckedOnce'
  BY <1>2, SMT DEF AckedOnce, Restarts
<1> QED
  BY <1>1, <1>3 DEF ChannelInv

LEMMA ServiceFields ==
  ASSUME ChannelTypeOK
  PROVE  /\ service.todo \subseteq Cmds /\ service.acks \subseteq Requests
         /\ service.id \in BOOLEAN /\ service.initial \in BOOLEAN /\ service.delay \in Int
         /\ process.backoff \in Seq(Int) /\ process.senders \in Seq(Int)
         /\ process.spawned \subseteq Requests
         /\ backend.toggles \in Nat /\ backend.failures \in Nat
BY DEF ChannelTypeOK, Service, Process, Backend

LEMMA HandleRequestKeeps ==
  ASSUME ChannelInv, NEW c \in service.todo, NEW ok \in BOOLEAN, HandleRequest(c, ok)
  PROVE  ChannelInv'
<1> DEFINE r == c.of
           handled == service.id /\ r \notin NoHandler
           acks == IF ok /\ service.id THEN service.acks \cup {r} ELSE service.acks
<1>1. r \in Requests
  BY ServiceFields DEF ChannelInv, HandleRequest, Cmds
<1>2. /\ service' = [service EXCEPT !.todo = @ \ {c}, !.acks = acks]
      /\ count' = [count EXCEPT !.handled[r] = IF handled THEN @ + 1 ELSE @,
                                !.again[r] = IF ok THEN @ ELSE @ + 1]
      /\ r \notin service.acks /\ (ok \/ service.id)
  BY DEF HandleRequest, WasACKed
<1>3. acks \subseteq Requests /\ service.todo \ {c} \subseteq Cmds
  BY <1>1, ServiceFields DEF ChannelInv
<1>4. service' \in Service /\ service'.acks = acks
  BY <1>2, <1>3 DEF ChannelInv, ChannelTypeOK, Service
<1> DEFINE h == [count.handled EXCEPT ![r] = IF handled THEN @ + 1 ELSE @]
           a == [count.again EXCEPT ![r] = IF ok THEN @ ELSE @ + 1]
<1>9. count' = [handled |-> h, again |-> a] /\ count.handled \in [Requests -> Nat]
        /\ count.again \in [Requests -> Nat]
  BY <1>2 DEF ChannelInv, ChannelTypeOK, Counts
<1>10. h \in [Requests -> Nat] /\ a \in [Requests -> Nat]
  BY <1>1, <1>9, SMT
<1>5. /\ count' \in Counts
      /\ \A s \in Requests : s # r => count'.handled[s] = count.handled[s] /\ count'.again[s] = count.again[s]
      /\ count'.handled[r] = IF handled THEN count.handled[r] + 1 ELSE count.handled[r]
      /\ count'.again[r] = IF ok THEN count.again[r] ELSE count.again[r] + 1
      /\ \A s \in Requests : count.handled[s] \in Nat /\ count.again[s] \in Nat
  BY <1>1, <1>9, <1>10 DEF Counts
<1>6. AckedOnce'
  <2> SUFFICES ASSUME NEW s \in Requests
               PROVE  count'.handled[s] <= count'.again[s] + IF s \in service'.acks THEN 1 ELSE 0
    BY DEF AckedOnce
  <2>1. count.handled[s] <= count.again[s] + IF s \in service.acks THEN 1 ELSE 0
    BY DEF ChannelInv, AckedOnce
  <2>2. CASE s # r
    <3>1. s \in service'.acks <=> s \in service.acks
      BY <1>4, <2>2
    <3> QED
      BY <1>5, <2>1, <2>2, <3>1, SMT
  <2>3. CASE s = r
    <3>1. s \notin service.acks /\ (s \in service'.acks <=> ok /\ service.id)
      <4>1. CASE ok /\ service.id
        <5>1. service'.acks = service.acks \cup {r}
          BY <1>4, <4>1
        <5> QED
          BY <1>2, <2>3, <4>1, <5>1
      <4>2. CASE ~(ok /\ service.id)
        BY <1>2, <1>4, <2>3, <4>2
      <4> QED
        BY <4>1, <4>2
    <3> QED
      BY <1>1, <1>2, <1>5, <2>1, <2>3, <3>1, SMT
  <2> QED
    BY <2>2, <2>3
<1>7. backend' \in Backend
  <2>1. backend.failures + 1 \in Nat
    BY ServiceFields, SMT DEF ChannelInv
  <2> QED
    BY <1>1, <2>1 DEF HandleRequest, ChannelInv, ChannelTypeOK, Backend
<1>8. process' \in Process
  BY <1>1 DEF HandleRequest, ChannelInv, ChannelTypeOK, Process
<1> QED
  BY <1>4, <1>5, <1>6, <1>7, <1>8 DEF ChannelInv, ChannelTypeOK

LEMMA HandleFlagKeeps ==
  ASSUME ChannelInv, NEW c \in service.todo, HandleFlag(c)
  PROVE  ChannelInv'
<1>1. CASE Restarts
  BY <1>1, RestartsKeep DEF HandleFlag
<1>2. CASE Done(c) /\ process' \in Process /\ UNCHANGED <<backend, count>>
  <2>1. service' \in Service /\ service'.acks = service.acks
    BY <1>2 DEF ChannelInv, ChannelTypeOK, Service, Done
  <2> QED
    BY <1>2, <2>1, AcksKept DEF ChannelInv, ChannelTypeOK
<1>3. c.of \in Flags /\ c.enabled \in BOOLEAN
  BY ServiceFields DEF ChannelInv, HandleFlag, Cmds
<1>4. CASE c.of \in RestartFlags
  <2>1. [process EXCEPT !.cfg[c.of] = c.enabled] \in Process
    BY <1>3, <1>4 DEF ChannelInv, ChannelTypeOK, Process
  <2> QED
    BY <1>1, <1>2, <1>4, <2>1 DEF HandleFlag, HandleRestartFlag, ChannelInv, ChannelTypeOK
<1>5. CASE c.of \notin RestartFlags
  <2> DEFINE fs == process.features
             gs == [f \in DOMAIN fs \cup {c.of} |-> IF f = c.of THEN c.enabled ELSE fs[f]]
  <2>1. PICK F \in SUBSET BasicFlags : fs \in [F -> BOOLEAN]
    BY DEF ChannelInv, ChannelTypeOK, Process
  <2>2. c.of \in BasicFlags
    BY <1>3, <1>5 DEF Flags
  <2>3. gs \in [F \cup {c.of} -> BOOLEAN] /\ F \cup {c.of} \in SUBSET BasicFlags
    BY <1>3, <2>1, <2>2
  <2>4. [process EXCEPT !.features = gs] \in Process
    BY <2>3, ZenonT(40) DEF ChannelInv, ChannelTypeOK, Process
  <2>5. HandleBasicFlag(c) /\ UNCHANGED backend
    BY <1>5 DEF HandleFlag
  <2>6. process' \in Process
    BY <2>4, <2>5 DEF HandleBasicFlag, ChannelInv, ChannelTypeOK
  <2> QED
    BY <1>2, <2>5, <2>6 DEF HandleBasicFlag
<1> QED
  BY <1>4, <1>5

LEMMA ChannelInvStep == ChannelInv /\ [ChannelNext]_channelVars => ChannelInv'
<1> SUFFICES ASSUME ChannelInv, [ChannelNext]_channelVars PROVE ChannelInv'
  OBVIOUS
<1> USE DEF ChannelInv, ChannelTypeOK
<1>1. CASE UNCHANGED channelVars
  BY <1>1, AcksKept DEF channelVars
<1>2. ASSUME backend' \in Backend, UNCHANGED <<service, process, count>> PROVE ChannelInv'
  BY <1>2, AcksKept
<1>3. ASSUME NEW f \in Flags, ToggleFlag(f) PROVE ChannelInv'
  <2>1. backend.toggles + 1 \in Nat /\ backend.flags \in [Flags -> BOOLEAN]
    BY ServiceFields, SMT DEF Backend
  <2>2. [backend.flags EXCEPT ![f] = ~@] \in [Flags -> BOOLEAN]
    BY <2>1
  <2>3. backend' = [backend EXCEPT !.flags = [backend.flags EXCEPT ![f] = ~@], !.toggles = @ + 1]
    BY <1>3 DEF ToggleFlag
  <2>4. backend' \in Backend
    BY <2>1, <2>2, <2>3 DEF Backend
  <2> QED
    BY <1>2, <1>3, <2>4 DEF ToggleFlag
<1>4. ASSUME NEW r \in Requests, IssueRequest(r) PROVE ChannelInv'
  BY <1>2, <1>4 DEF IssueRequest, Backend
<1>5. ASSUME NEW r \in Requests, HandlerRuns(r) PROVE ChannelInv'
  BY <1>5, AcksKept DEF HandlerRuns, Process
<1>6. CASE PollFails
  <2>1. backend.failures + 1 \in Nat
    BY ServiceFields, SMT
  <2>2. backend' \in Backend
    BY <1>6, <2>1 DEF PollFails, Backend
  <2>3. service' \in Service /\ service'.acks = service.acks
    BY <1>6 DEF PollFails, Service
  <2> QED
    BY <1>6, <2>2, <2>3, AcksKept DEF PollFails
<1>7. ASSUME process.backoff # <<>> PROVE Head(process.backoff) \in Int
  BY <1>7, ServiceFields, SMT
<1>8. <<>> \in Seq(Int)
  BY SMT
<1>9. CASE TakeDelay
  <2>1. service' \in Service /\ service'.acks = service.acks
    BY <1>7, <1>9 DEF TakeDelay, Service
  <2>2. process' \in Process
    BY <1>8, <1>9 DEF TakeDelay, Process
  <2> QED
    BY <1>9, <2>1, <2>2, AcksKept DEF TakeDelay
<1>10. CASE SendDelay
  <2>1. <<Head(process.senders)>> \in Seq(Int) /\ Tail(process.senders) \in Seq(Int)
    BY <1>10, ServiceFields, SMT DEF SendDelay
  <2>2. process' \in Process
    BY <1>10, <2>1 DEF SendDelay, Process
  <2> QED
    BY <1>10, <2>2, AcksKept DEF SendDelay
<1>11. ASSUME NEW cmds \in Responses, GetCommands(cmds) PROVE ChannelInv'
  <2>1. service' \in Service /\ service'.acks = service.acks
    BY <1>11, ResponsesType DEF GetCommands, Service
  <2> QED
    BY <1>11, <2>1, AcksKept DEF GetCommands
<1>12. CASE ListHandled
  <2>1. service' \in Service /\ service'.acks = service.acks
    BY <1>12 DEF ListHandled, Service
  <2> QED
    BY <1>12, <2>1, AcksKept DEF ListHandled
<1>13. CASE InitialFetchEnds
  <2>1. service' \in Service /\ service'.acks = service.acks
    <3>1. CASE service' = [service EXCEPT !.pc = "wait", !.initial = FALSE]
      BY <3>1 DEF Service
    <3>2. CASE process.backoff # <<>>
               /\ service' = [service EXCEPT !.pc = "wait", !.initial = FALSE,
                                             !.delay = Head(process.backoff)]
      BY <1>7, <3>2 DEF Service
    <3> QED
      BY <1>13, <3>1, <3>2 DEF InitialFetchEnds
  <2>2. process' \in Process
    BY <1>8, <1>13 DEF InitialFetchEnds, Process
  <2> QED
    BY <1>13, <2>1, <2>2, AcksKept DEF InitialFetchEnds
<1>14. ASSUME NEW id \in BOOLEAN, Tick(id) PROVE ChannelInv'
  <2>1. Interval(service.delay) \in Int
    BY ServiceFields, SMT DEF Interval
  <2>2. service' \in Service /\ service'.acks = service.acks
    BY <1>14, <2>1 DEF Tick, Service
  <2> QED
    BY <1>14, <2>2, AcksKept DEF Tick
<1>15. ASSUME NEW c \in service.todo, HandleBackoff(c) PROVE ChannelInv'
  <2>1. c.of \in Int
    BY <1>15, ServiceFields, ChannelAssumption DEF HandleBackoff, Cmds
  <2>2. Append(process.senders, c.of) \in Seq(Int)
    BY <2>1, ServiceFields, SMT
  <2>3. process' \in Process
    BY <1>15, <2>2 DEF HandleBackoff, Process
  <2>4. service' \in Service /\ service'.acks = service.acks
    BY <1>15 DEF HandleBackoff, Done, Service
  <2> QED
    BY <1>15, <2>3, <2>4, AcksKept DEF HandleBackoff
<1>16. ASSUME NEW c \in service.todo, SkipACKed(c) PROVE ChannelInv'
  <2>1. service' \in Service /\ service'.acks = service.acks
    BY <1>16 DEF SkipACKed, Done, Service
  <2> QED
    BY <1>16, <2>1, AcksKept DEF SkipACKed
<1> QED
  BY <1>1, <1>3, <1>4, <1>5, <1>6, <1>9, <1>10, <1>11, <1>12, <1>13, <1>14, <1>15, <1>16,
     HandleFlagKeeps, HandleRequestKeeps
  DEF ChannelNext, ServiceStep, PollStep, HandleStep

\* Service.Run and its handlers: whatever the backend offers at every poll, however the
\* polls, acknowledgements and restarts go, a process handles a request again only
\* after an acknowledgement of it that failed.
THEOREM HandledOnce == ChannelSpec => [](ChannelTypeOK /\ RequestsOnce)
<1>1. ChannelInv => RequestsOnce
  <2> SUFFICES ASSUME ChannelInv, NEW r \in Requests
               PROVE  count.handled[r] <= 1 + count.again[r]
    BY DEF RequestsOnce
  <2>1. count.handled[r] \in Nat /\ count.again[r] \in Nat
    BY DEF ChannelInv, ChannelTypeOK, Counts
  <2> QED
    BY <2>1, SMT DEF ChannelInv, AckedOnce
<1> QED
  BY <1>1, ChannelInvInit, ChannelInvStep, PTL DEF ChannelSpec, ChannelInv

Parent ==
  [handler : {"idle", "add", "terminate"}, todo : Seq(Hashes \cup {Invalid}),
   added : SUBSET Hashes, removed : SUBSET Hashes, printed : Nat, hashes : SUBSET Hashes,
   killer : {"runs", "kills", "ended"}, toKill : SUBSET Hashes]

Handling == [hash : Commands, run : Nat, pc : {"pid", "grace", "done"}]

Item(H) == [hash : H, no : Nat]

Queues ==
  [definition : Seq(Item(Commands)), entry : Seq(Item(Hashes)), terminate : Seq(Item(Hashes)),
   no : Nat]

Run ==
  [hash : AllHashes, ctx : {"live", "done"}, process : {"none", "runs", "ended"},
   goroutine : {"run", "done"}, pid : BOOLEAN]

RequestsTypeOK ==
  /\ parent \in Parent
  /\ requests \in Seq(Handling)
  /\ queues \in Queues
  /\ tracker \in [AllHashes -> Nat]
  /\ runs \in Seq(Run)
  /\ disorder \subseteq AllHashes

\* The entry of a hash is one of its runs.  A command that was not started twice at a
\* time has one run at most, which is tracked or cancelled.
TrackedRuns ==
  /\ \A h \in AllHashes :
       tracker[h] # 0 => tracker[h] \in DOMAIN runs /\ runs[tracker[h]].hash = h
  /\ \A r \in DOMAIN runs : runs[r].hash \in Commands \ disorder /\ runs[r].goroutine = "run"
       => /\ tracker[runs[r].hash] = r \/ runs[r].ctx = "done"
          /\ \A s \in DOMAIN runs : runs[s].hash = runs[r].hash /\ runs[s].goroutine = "run" => r = s

RunsEnd ==
  \A r \in DOMAIN runs :
    /\ runs[r].goroutine = "done" => runs[r].process = "ended"
    /\ runs[r].pid => runs[r].process # "none"

\* A handler of stop_integration that goes on has found a run of its hash.
StopsOfRuns ==
  \A i \in DOMAIN requests :
    /\ requests[i].pc \in {"pid", "grace"} => requests[i].run # 0
    /\ requests[i].run # 0 => /\ requests[i].run \in DOMAIN runs
                              /\ runs[requests[i].run].hash = requests[i].hash
    /\ requests[i].pc = "grace" => runs[requests[i].run].process # "none"

RequestsInv == RequestsTypeOK /\ TrackedRuns /\ RunsEnd /\ StopsOfRuns /\ StopStops

LEMMA RequestsInvInit == RequestsInit => RequestsInv
<1> SUFFICES ASSUME RequestsInit PROVE RequestsInv
  OBVIOUS
<1>1. parent \in Parent
  BY SMT DEF RequestsInit, Parent
<1>2. queues \in Queues
  BY SMT DEF RequestsInit, Queues
<1>3. requests \in Seq(Handling) /\ runs \in Seq(Run) /\ DOMAIN runs = {} /\ DOMAIN requests = {}
  BY SMT DEF RequestsInit
<1>4. tracker \in [AllHashes -> Nat] /\ \A h \in AllHashes : tracker[h] = 0
  BY SMT DEF RequestsInit
<1>5. disorder = {}
  BY DEF RequestsInit
<1> QED
  BY <1>1, <1>2, <1>3, <1>4, <1>5
  DEF RequestsInv, RequestsTypeOK, TrackedRuns, RunsEnd, StopsOfRuns, StopStops

\* A step that changes neither runs, tracker nor requests, and forgets no disorder.
LEMMA RunsKept ==
  ASSUME RequestsInv, RequestsTypeOK', UNCHANGED <<requests, tracker, runs>>, disorder \subseteq disorder'
  PROVE  RequestsInv'
BY DEF RequestsInv, TrackedRuns, RunsEnd, StopsOfRuns, StopStops

\* What a send to a queue leaves.
LEMMA PutKeeps ==
  ASSUME RequestsTypeOK, NEW H, NEW q, NEW h \in H, Put(q, h),
         \/ q = "definition" /\ H = Commands
         \/ q \in {"entry", "terminate"} /\ H = Hashes
  PROVE  queues' \in Queues
<1> DEFINE item == [hash |-> h, no |-> queues.no]
<1>1. queues.no \in Nat /\ queues[q] \in Seq(Item(H))
  BY DEF RequestsTypeOK, Queues
<1>2. queues.no + 1 \in Nat
  BY <1>1, SMT
<1>3. item \in Item(H)
  BY <1>1 DEF Item
<1>4. Append(queues[q], item) \in Seq(Item(H))
  BY <1>1, <1>3, SMT
<1>5. queues' = [queues EXCEPT ![q] = Append(queues[q], item), !.no = queues.no + 1]
  BY <1>1 DEF Put, RequestsTypeOK, Queues
<1> HIDE DEF item
<1> QED
  BY <1>2, <1>4, <1>5 DEF RequestsTypeOK, Queues

LEMMA ParentFields ==
  ASSUME RequestsTypeOK
  PROVE  /\ parent.todo \in Seq(Hashes \cup {Invalid}) /\ parent.printed \in Nat
         /\ parent.added \subseteq Hashes /\ parent.removed \subseteq Hashes
         /\ parent.hashes \subseteq Hashes /\ parent.toKill \subseteq Hashes
BY DEF RequestsTypeOK, Parent

LEMMA ConfigKeeps ==
  ASSUME RequestsInv,
         \/ \E c \in ParentConfigs : TakeConfig(c)
         \/ InvalidEntry \/ AddDefinition \/ ApplyConfig \/ TerminateRemoved
         \/ ListChildren \/ KillChild
  PROVE  RequestsInv'
<1> USE DEF RequestsInv, RequestsTypeOK
<1>1. ASSUME parent' \in Parent, queues' \in Queues, UNCHANGED <<requests, tracker, runs>>,
             disorder \subseteq disorder', disorder' \subseteq AllHashes
      PROVE  RequestsInv'
  BY <1>1, RunsKept
<1>2. <<>> \in Seq(Hashes \cup {Invalid}) /\ parent.printed + 1 \in Nat
  BY ParentFields, SMT
<1>3. ASSUME NEW c \in ParentConfigs, TakeConfig(c) PROVE RequestsInv'
  <2>1. c \in Seq(Hashes \cup {Invalid})
    BY RequestsAssumption
  <2>2. parent' \in Parent
    BY <1>2, <1>3, <2>1 DEF TakeConfig, Parent
  <2> QED
    BY <1>1, <1>3, <2>2 DEF TakeConfig, AllHashes
<1>4. CASE InvalidEntry
  <2>1. parent' \in Parent
    BY <1>2, <1>4 DEF InvalidEntry, Parent
  <2> QED
    BY <1>1, <1>4, <2>1, ParentFields DEF InvalidEntry, AllHashes
<1>5. CASE AddDefinition
  <2> DEFINE h == Head(parent.todo)
  <2>1. h \in Hashes \cup {Invalid} /\ Tail(parent.todo) \in Seq(Hashes \cup {Invalid})
    BY <1>5, ParentFields, SMT DEF AddDefinition
  <2>2. h \in Hashes
    BY <1>5, <2>1 DEF AddDefinition
  <2>3. parent' \in Parent
    BY <1>5, <2>1, <2>2 DEF AddDefinition, Parent
  <2>4. queues' \in Queues
    BY <1>5, <2>2, PutKeeps DEF AddDefinition
  <2>5. disorder \subseteq disorder' /\ disorder' \subseteq AllHashes
    BY <1>5, <2>2 DEF AddDefinition, AllHashes
  <2> QED
    BY <1>1, <1>5, <2>3, <2>4, <2>5 DEF AddDefinition
<1>6. CASE ApplyConfig
  <2>1. parent' \in Parent
    BY <1>6, ParentFields DEF ApplyConfig, Parent
  <2> QED
    BY <1>1, <1>6, <2>1 DEF ApplyConfig
<1>7. CASE TerminateRemoved
  <2>1. CASE parent.removed = {}
    <3>1. parent' \in Parent
      BY <1>7, <2>1 DEF TerminateRemoved, Parent
    <3> QED
      BY <1>1, <1>7, <2>1, <3>1 DEF TerminateRemoved
  <2>2. CASE parent.removed # {}
    <3>1. PICK h \in parent.removed : Put("terminate", h) /\ parent' = [parent EXCEPT !.removed = @ \ {h}]
      BY <1>7, <2>2 DEF TerminateRemoved
    <3>2. parent' \in Parent
      BY <3>1, ParentFields DEF Parent
    <3>3. queues' \in Queues
      BY <3>1, ParentFields, PutKeeps
    <3> QED
      BY <1>1, <1>7, <3>2, <3>3 DEF TerminateRemoved
  <2> QED
    BY <2>1, <2>2
<1>8. CASE ListChildren
  <2>1. parent' \in Parent
    BY <1>8, ParentFields DEF ListChildren, Parent
  <2> QED
    BY <1>1, <1>8, <2>1 DEF ListChildren, AllHashes
<1>9. CASE KillChild
  <2>1. CASE parent.toKill = {}
    <3>1. parent' \in Parent
      BY <1>9, <2>1 DEF KillChild, Parent
    <3> QED
      BY <1>1, <1>9, <2>1, <3>1 DEF KillChild
  <2>2. CASE parent.toKill # {}
    <3>1. PICK h \in parent.toKill : Put("terminate", h) /\ parent' = [parent EXCEPT !.toKill = @ \ {h}]
      BY <1>9, <2>2 DEF KillChild
    <3>2. parent' \in Parent
      BY <3>1, ParentFields DEF Parent
    <3>3. queues' \in Queues
      BY <3>1, ParentFields, PutKeeps
    <3> QED
      BY <1>1, <1>9, <3>2, <3>3 DEF KillChild
  <2> QED
    BY <2>1, <2>2
<1> QED
  BY <1>3, <1>4, <1>5, <1>6, <1>7, <1>8, <1>9

\* Tracker.Track adds a run at the end; all others stay as they are.
LEMMA TrackAdds ==
  ASSUME RequestsInv, NEW h \in AllHashes, Track(h)
  PROVE  \E n \in Nat \ {0} :
         /\ runs' \in Seq(Run) /\ tracker' \in [AllHashes -> Nat]
         /\ n \notin DOMAIN runs /\ DOMAIN runs' = DOMAIN runs \cup {n}
         /\ \A r \in DOMAIN runs : runs'[r] = runs[r]
         /\ runs'[n] = NewRun(h)
         /\ tracker'[h] = n /\ \A g \in AllHashes \ {h} : tracker'[g] = tracker[g]
<1> DEFINE n == Len(runs) + 1
<1>1. NewRun(h) \in Run
  BY DEF NewRun, Run
<1>2. runs' = Append(runs, NewRun(h)) /\ runs \in Seq(Run) /\ tracker \in [AllHashes -> Nat]
        /\ tracker' = [tracker EXCEPT ![h] = n]
  BY DEF Track, RequestsInv, RequestsTypeOK
<1>3. /\ runs' \in Seq(Run) /\ n \in Nat \ {0} /\ n \notin DOMAIN runs
      /\ DOMAIN runs' = DOMAIN runs \cup {n}
      /\ \A r \in DOMAIN runs : runs'[r] = runs[r]
      /\ runs'[n] = NewRun(h)
  BY <1>1, <1>2, SMT
<1> QED
  BY <1>2, <1>3

\* A run keeps its hash; its end and its cancellation are final.
Goes(r) ==
  /\ r \in DOMAIN runs'
  /\ runs'[r].hash = runs[r].hash
  /\ runs[r].ctx = "done" => runs'[r].ctx = "done"
  /\ runs[r].process = "ended" => runs'[r].process = "ended"
  /\ runs[r].process # "none" => runs'[r].process # "none"

LEMMA StopsKept ==
  ASSUME StopsOfRuns, StopStops, requests' = requests, disorder \subseteq disorder',
         \A r \in DOMAIN runs : Goes(r)
  PROVE  StopsOfRuns' /\ StopStops'
<1> SUFFICES ASSUME NEW i \in DOMAIN requests
             PROVE  /\ requests[i].pc \in {"pid", "grace"} => requests[i].run # 0
                    /\ requests[i].run # 0 => /\ requests[i].run \in DOMAIN runs'
                                              /\ runs'[requests[i].run].hash = requests[i].hash
                    /\ requests[i].pc = "grace" => runs'[requests[i].run].process # "none"
                    /\ requests[i].pc = "done" /\ requests[i].run # 0 /\ requests[i].hash \notin disorder'
                       => \/ runs'[requests[i].run].process = "ended"
                          \/ runs'[requests[i].run].ctx = "done"
  BY DEF StopsOfRuns, StopStops
<1> QED
  BY DEF StopsOfRuns, StopStops, Goes

LEMMA TrackKeeps ==
  ASSUME RequestsInv, NEW h \in AllHashes, Track(h), UNCHANGED <<parent, requests>>,
         queues' \in Queues, disorder \subseteq disorder', disorder' \subseteq AllHashes,
         h \in Commands \ disorder' =>
           \A r \in DOMAIN runs : ~(runs[r].hash = h /\ runs[r].goroutine = "run")
  PROVE  RequestsInv'
<1>1. PICK n \in Nat \ {0} :
        /\ runs' \in Seq(Run) /\ tracker' \in [AllHashes -> Nat]
        /\ n \notin DOMAIN runs /\ DOMAIN runs' = DOMAIN runs \cup {n}
        /\ \A r \in DOMAIN runs : runs'[r] = runs[r]
        /\ runs'[n] = NewRun(h)
        /\ tracker'[h] = n /\ \A g \in AllHashes \ {h} : tracker'[g] = tracker[g]
  BY TrackAdds
<1>2. /\ runs'[n].hash = h /\ runs'[n].ctx = "live" /\ runs'[n].process = "none"
      /\ runs'[n].goroutine = "run" /\ ~runs'[n].pid
  <2>1. /\ NewRun(h).hash = h /\ NewRun(h).ctx = "live" /\ NewRun(h).process = "none"
        /\ NewRun(h).goroutine = "run" /\ ~NewRun(h).pid
    BY DEF NewRun
  <2> QED
    BY <1>1, <2>1
<1>3. RequestsTypeOK'
  BY <1>1 DEF RequestsInv, RequestsTypeOK
<1>4. TrackedRuns'
  <2>1. ASSUME NEW g \in AllHashes, tracker'[g] # 0
        PROVE  tracker'[g] \in DOMAIN runs' /\ runs'[tracker'[g]].hash = g
    <3>1. CASE g = h
      BY <1>1, <1>2, <3>1
    <3>2. CASE g # h
      <4>1. tracker[g] # 0 /\ tracker'[g] = tracker[g]
        BY <1>1, <2>1, <3>2
      <4>2. tracker[g] \in DOMAIN runs /\ runs[tracker[g]].hash = g
        BY <4>1 DEF RequestsInv, TrackedRuns
      <4> QED
        BY <1>1, <4>1, <4>2
    <3> QED
      BY <3>1, <3>2
  <2>2. ASSUME NEW r \in DOMAIN runs', runs'[r].hash \in Commands \ disorder',
               runs'[r].goroutine = "run"
        PROVE  /\ tracker'[runs'[r].hash] = r \/ runs'[r].ctx = "done"
               /\ \A q \in DOMAIN runs' : runs'[q].hash = runs'[r].hash /\ runs'[q].goroutine = "run" => r = q
    <3>1. CASE r = n
      BY <1>1, <1>2, <2>2, <3>1
    <3>2. CASE r # n
      <4>1. r \in DOMAIN runs /\ runs'[r] = runs[r]
        BY <1>1, <3>2
      <4>2. runs[r].hash # h
        BY <2>2, <4>1
      <4>3. runs[r].hash \in AllHashes
        BY <2>2, <4>1 DEF AllHashes
      <4> QED
        <5>1. /\ tracker[runs[r].hash] = r \/ runs[r].ctx = "done"
              /\ \A q \in DOMAIN runs : runs[q].hash = runs[r].hash /\ runs[q].goroutine = "run" => r = q
          BY <2>2, <4>1 DEF RequestsInv, TrackedRuns
        <5>2. tracker'[runs'[r].hash] = tracker[runs[r].hash]
          BY <1>1, <4>1, <4>2, <4>3
        <5>3. \A q \in DOMAIN runs' : runs'[q].hash = runs'[r].hash => q \in DOMAIN runs /\ runs'[q] = runs[q]
          BY <1>1, <1>2, <4>1, <4>2
        <5> QED
          BY <4>1, <5>1, <5>2, <5>3
    <3> QED
      BY <3>1, <3>2
  <2> QED
    BY <2>1, <2>2 DEF TrackedRuns
<1>5. RunsEnd'
  <2> SUFFICES ASSUME NEW r \in DOMAIN runs'
               PROVE  /\ runs'[r].goroutine = "done" => runs'[r].process = "ended"
                      /\ runs'[r].pid => runs'[r].process # "none"
    BY DEF RunsEnd
  <2>1. CASE r = n
    BY <1>2, <2>1
  <2>2. CASE r # n
    BY <1>1, <2>2 DEF RequestsInv, RunsEnd
  <2> QED
    BY <2>1, <2>2
<1>6. \A r \in DOMAIN runs : Goes(r)
  BY <1>1 DEF Goes
<1> QED
  BY <1>3, <1>4, <1>5, <1>6, StopsKept DEF RequestsInv

\* Tracker.Kill cancels the run of the entry, if there is one.
LEMMA KillCancels ==
  ASSUME RequestsInv, NEW h \in AllHashes, Kill(h)
  PROVE  /\ runs' \in Seq(Run) /\ tracker' \in [AllHashes -> Nat] /\ DOMAIN runs' = DOMAIN runs
         /\ \A g \in AllHashes : tracker'[g] = IF g = h THEN 0 ELSE tracker[g]
         /\ \A r \in DOMAIN runs :
              /\ runs'[r].hash = runs[r].hash /\ runs'[r].process = runs[r].process
              /\ runs'[r].goroutine = runs[r].goroutine /\ runs'[r].pid = runs[r].pid
              /\ runs'[r].ctx = IF r = tracker[h] THEN "done" ELSE runs[r].ctx
<1> USE DEF RequestsInv, RequestsTypeOK
<1>1. CASE tracker[h] = 0
  <2>1. tracker[h] \notin DOMAIN runs
    BY <1>1, SMT
  <2> QED
    BY <1>1, <2>1 DEF Kill
<1>2. CASE tracker[h] # 0
  <2> DEFINE t == tracker[h]
  <2>1. t \in DOMAIN runs /\ runs[t] \in Run
    BY <1>2, SMT DEF TrackedRuns
  <2>2. [runs[t] EXCEPT !.ctx = "done"] \in Run
    BY <2>1 DEF Run
  <2>3. runs' = [runs EXCEPT ![t] = [runs[t] EXCEPT !.ctx = "done"]] /\ tracker' = [tracker EXCEPT ![h] = 0]
    BY <1>2 DEF Kill
  <2>4. runs' \in Seq(Run) /\ DOMAIN runs' = DOMAIN runs
    BY <2>1, <2>2, <2>3, SMT
  <2>5. \A r \in DOMAIN runs : runs'[r] = IF r = t THEN [runs[t] EXCEPT !.ctx = "done"] ELSE runs[r]
    BY <2>3
  <2>6. /\ tracker' \in [AllHashes -> Nat]
        /\ \A g \in AllHashes : tracker'[g] = IF g = h THEN 0 ELSE tracker[g]
    BY <2>3, SMT
  <2>7. ASSUME NEW r \in DOMAIN runs
        PROVE  /\ runs'[r].hash = runs[r].hash /\ runs'[r].process = runs[r].process
               /\ runs'[r].goroutine = runs[r].goroutine /\ runs'[r].pid = runs[r].pid
               /\ runs'[r].ctx = IF r = t THEN "done" ELSE runs[r].ctx
    <3>1. CASE r = t
      BY <2>1, <2>5, <3>1 DEF Run
    <3>2. CASE r # t
      BY <2>5, <3>2
    <3> QED
      BY <3>1, <3>2
  <2> QED
    BY <2>4, <2>6, <2>7
<1> QED
  BY <1>1, <1>2

LEMMA KillKeepsRuns ==
  ASSUME RequestsInv, NEW h \in AllHashes, Kill(h), disorder \subseteq disorder'
  PROVE  /\ TrackedRuns' /\ RunsEnd'
         /\ \A r \in DOMAIN runs : Goes(r)
<1>1. /\ DOMAIN runs' = DOMAIN runs
      /\ \A g \in AllHashes : tracker'[g] = IF g = h THEN 0 ELSE tracker[g]
      /\ \A r \in DOMAIN runs :
              /\ runs'[r].hash = runs[r].hash /\ runs'[r].process = runs[r].process
              /\ runs'[r].goroutine = runs[r].goroutine /\ runs'[r].pid = runs[r].pid
              /\ runs'[r].ctx = IF r = tracker[h] THEN "done" ELSE runs[r].ctx
  BY KillCancels
<1>2. TrackedRuns'
  <2>1. ASSUME NEW g \in AllHashes, tracker'[g] # 0
        PROVE  tracker'[g] \in DOMAIN runs' /\ runs'[tracker'[g]].hash = g
    <3>1. tracker'[g] = tracker[g]
      BY <1>1, <2>1
    <3>2. tracker[g] \in DOMAIN runs /\ runs[tracker[g]].hash = g
      BY <2>1, <3>1 DEF RequestsInv, TrackedRuns
    <3> QED
      BY <1>1, <3>1, <3>2, ZenonT(40)
  <2>2. ASSUME NEW r \in DOMAIN runs', runs'[r].hash \in Commands \ disorder',
               runs'[r].goroutine = "run"
        PROVE  /\ tracker'[runs'[r].hash] = r \/ runs'[r].ctx = "done"
               /\ \A q \in DOMAIN runs' : runs'[q].hash = runs'[r].hash /\ runs'[q].goroutine = "run" => r = q
    <3>1. /\ r \in DOMAIN runs /\ runs[r].hash \in Commands \ disorder /\ runs[r].goroutine = "run"
          /\ runs'[r].hash = runs[r].hash
      BY <1>1, <2>2
    <3>2. /\ tracker[runs[r].hash] = r \/ runs[r].ctx = "done"
          /\ \A q \in DOMAIN runs : runs[q].hash = runs[r].hash /\ runs[q].goroutine = "run" => r = q
      BY <3>1 DEF RequestsInv, TrackedRuns
    <3>3. runs[r].hash \in AllHashes
      BY <3>1 DEF AllHashes
    <3>4. CASE runs[r].hash = h
      <4>1. runs'[r].ctx = "done"
        BY <1>1, <3>1, <3>2, <3>4
      <4> QED
        BY <1>1, <3>1, <3>2, <4>1
    <3>5. CASE runs[r].hash # h
      <4>1. tracker'[runs[r].hash] = tracker[runs[r].hash]
        BY <1>1, <3>3, <3>5
      <4>2. runs[r].ctx = "done" => runs'[r].ctx = "done"
        BY <1>1, <3>1
      <4> QED
        BY <1>1, <3>1, <3>2, <4>1, <4>2
    <3> QED
      BY <3>4, <3>5
  <2> QED
    BY <2>1, <2>2 DEF TrackedRuns
<1>3. RunsEnd'
  <2>1. ASSUME NEW r \in DOMAIN runs
        PROVE  /\ runs'[r].goroutine = "done" => runs'[r].process = "ended"
               /\ runs'[r].pid => runs'[r].process # "none"
    BY <1>1, ZenonT(40) DEF RequestsInv, RunsEnd
  <2> QED
    BY <1>1, <2>1 DEF RunsEnd
<1>4. \A r \in DOMAIN runs : Goes(r)
  BY <1>1 DEF Goes
<1> QED
  BY <1>2, <1>3, <1>4

\* The queues after one of their heads was taken.
LEMMA TakeKeeps ==
  ASSUME RequestsTypeOK
  PROVE  /\ queues.entry # <<>> => /\ Head(queues.entry).hash \in Hashes
                                   /\ [queues EXCEPT !.entry = Tail(@)] \in Queues
         /\ queues.terminate # <<>> => /\ Head(queues.terminate).hash \in Hashes
                                       /\ [queues EXCEPT !.terminate = Tail(@)] \in Queues
         /\ queues.definition # <<>> => /\ Head(queues.definition).hash \in Commands
                                        /\ [queues EXCEPT !.definition = Tail(@)] \in Queues
<1>1. ASSUME NEW H, NEW q \in Seq(Item(H)), q # <<>>
      PROVE  Head(q).hash \in H /\ Tail(q) \in Seq(Item(H))
  <2>1. Head(q) \in Item(H) /\ Tail(q) \in Seq(Item(H))
    BY <1>1, SMT
  <2> QED
    BY <2>1 DEF Item
<1> QED
  BY <1>1 DEF RequestsTypeOK, Queues

LEMMA TakeRequestKeeps ==
  ASSUME RequestsInv, TakeEntry \/ TakeTerminate \/ TakeDefinition
  PROVE  RequestsInv'
<1> USE DEF RequestsInv, RequestsTypeOK
<1>1. CASE TakeEntry
  <2> DEFINE h == Head(queues.entry).hash
  <2>1. h \in Hashes /\ queues' \in Queues
    BY <1>1, TakeKeeps DEF TakeEntry
  <2>2. h \in AllHashes /\ h \notin Commands
    BY <2>1, RequestsAssumption DEF AllHashes
  <2> QED
    BY <1>1, <2>1, <2>2, TrackKeeps DEF TakeEntry
<1>2. CASE TakeDefinition
  <2> DEFINE h == Head(queues.definition).hash
  <2>1. h \in Commands /\ queues' \in Queues
    BY <1>2, TakeKeeps DEF TakeDefinition
  <2>2. h \in AllHashes
    BY <2>1 DEF AllHashes
  <2> QED
    BY <1>2, <2>1, <2>2, TrackKeeps DEF TakeDefinition
<1>3. CASE TakeTerminate
  <2> DEFINE h == Head(queues.terminate).hash
  <2>1. h \in Hashes /\ queues' \in Queues
    BY <1>3, TakeKeeps DEF TakeTerminate
  <2>2. h \in AllHashes
    BY <2>1 DEF AllHashes
  <2>3. Kill(h) /\ UNCHANGED <<parent, requests>> /\ disorder \subseteq disorder' /\ disorder' \subseteq AllHashes
    BY <1>3, <2>2 DEF TakeTerminate
  <2> QED
    BY <2>1, <2>2, <2>3, KillKeepsRuns, KillCancels, StopsKept
<1> QED
  BY <1>1, <1>2, <1>3

\* A step of run r alone: an EXCEPT of its record.
LEMMA RunFields ==
  ASSUME RequestsTypeOK, NEW r \in DOMAIN runs, NEW x \in Run, runs' = [runs EXCEPT ![r] = x]
  PROVE  /\ runs' \in Seq(Run) /\ DOMAIN runs' = DOMAIN runs
         /\ runs'[r] = x /\ \A q \in DOMAIN runs \ {r} : runs'[q] = runs[q]
<1>1. runs \in Seq(Run)
  BY DEF RequestsTypeOK
<1> QED
  BY <1>1, SMT

\* A run whose process goes on: the tracker and the requests stay.
LEMMA RunKeeps ==
  ASSUME RequestsInv, NEW r \in DOMAIN runs, NEW x \in Run, runs' = [runs EXCEPT ![r] = x],
         x.hash = runs[r].hash, x.ctx = runs[r].ctx, x.goroutine = runs[r].goroutine,
         runs[r].process = "ended" => x.process = "ended",
         runs[r].process # "none" => x.process # "none",
         x.goroutine = "done" => x.process = "ended",
         x.pid => x.process # "none",
         UNCHANGED <<parent, queues, tracker, disorder>>
  PROVE  /\ RequestsTypeOK' \/ requests' \notin Seq(Handling)
         /\ TrackedRuns' /\ RunsEnd'
         /\ \A q \in DOMAIN runs : Goes(q)
<1>1. /\ runs' \in Seq(Run) /\ DOMAIN runs' = DOMAIN runs
      /\ runs'[r] = x /\ \A q \in DOMAIN runs \ {r} : runs'[q] = runs[q]
  BY RunFields DEF RequestsInv
<1>2. \A q \in DOMAIN runs : /\ runs'[q].hash = runs[q].hash /\ runs'[q].ctx = runs[q].ctx
                             /\ runs'[q].goroutine = runs[q].goroutine
                             /\ runs[q].process = "ended" => runs'[q].process = "ended"
                             /\ runs[q].process # "none" => runs'[q].process # "none"
  BY <1>1
<1>3. RequestsTypeOK' \/ requests' \notin Seq(Handling)
  BY <1>1 DEF RequestsInv, RequestsTypeOK
<1>4. TrackedRuns'
  <2>1. ASSUME NEW h \in AllHashes, tracker'[h] # 0
        PROVE  tracker'[h] \in DOMAIN runs' /\ runs'[tracker'[h]].hash = h
    <3>1. tracker'[h] = tracker[h] /\ tracker[h] \in DOMAIN runs /\ runs[tracker[h]].hash = h
      BY <2>1 DEF RequestsInv, TrackedRuns
    <3> QED
      BY <1>1, <1>2, <3>1
  <2>2. ASSUME NEW p \in DOMAIN runs', runs'[p].hash \in Commands \ disorder',
               runs'[p].goroutine = "run"
        PROVE  /\ tracker'[runs'[p].hash] = p \/ runs'[p].ctx = "done"
               /\ \A q \in DOMAIN runs' : runs'[q].hash = runs'[p].hash /\ runs'[q].goroutine = "run" => p = q
    <3>1. /\ p \in DOMAIN runs /\ runs[p].hash \in Commands \ disorder /\ runs[p].goroutine = "run"
          /\ runs'[p].hash = runs[p].hash /\ runs'[p].ctx = runs[p].ctx
      BY <1>1, <1>2, <2>2
    <3>2. /\ tracker[runs[p].hash] = p \/ runs[p].ctx = "done"
          /\ \A q \in DOMAIN runs : runs[q].hash = runs[p].hash /\ runs[q].goroutine = "run" => p = q
      BY <3>1 DEF RequestsInv, TrackedRuns
    <3>3. tracker'[runs'[p].hash] = tracker[runs[p].hash]
      BY <3>1
    <3>4. \A q \in DOMAIN runs' : /\ q \in DOMAIN runs
                                  /\ runs'[q].hash = runs[q].hash /\ runs'[q].goroutine = runs[q].goroutine
      BY <1>1, <1>2
    <3> QED
      BY <3>1, <3>2, <3>3, <3>4, ZenonT(40)
  <2> QED
    BY <2>1, <2>2 DEF TrackedRuns
<1>5. RunsEnd'
  <2>1. ASSUME NEW q \in DOMAIN runs
        PROVE  /\ runs'[q].goroutine = "done" => runs'[q].process = "ended"
               /\ runs'[q].pid => runs'[q].process # "none"
    <3>1. CASE q = r
      BY <1>1, <3>1
    <3>2. CASE q # r
      BY <1>1, <3>2 DEF RequestsInv, RunsEnd
    <3> QED
      BY <3>1, <3>2
  <2> QED
    BY <1>1, <2>1 DEF RunsEnd
<1>6. \A q \in DOMAIN runs : Goes(q)
  BY <1>1, <1>2 DEF Goes
<1> QED
  BY <1>3, <1>4, <1>5, <1>6

LEMMA ProcessKeeps ==
  ASSUME RequestsInv, NEW r \in DOMAIN runs, RunStarts(r) \/ ProcessExits(r)
  PROVE  RequestsInv'
<1>1. runs[r] \in Run
  BY SMT DEF RequestsInv, RequestsTypeOK
<1>2. CASE RunStarts(r)
  <2> DEFINE p == IF runs[r].ctx = "live" THEN "runs" ELSE "ended"
             x == [runs[r] EXCEPT !.process = p, !.pid = runs[r].ctx = "live"]
  <2>1. x \in Run /\ x.hash = runs[r].hash /\ x.ctx = runs[r].ctx /\ x.goroutine = "run"
          /\ runs[r].goroutine = "run" /\ runs[r].process = "none" /\ x.process \in {"runs", "ended"}
    BY <1>1, <1>2 DEF RunStarts, Run
  <2>2. runs' = [runs EXCEPT ![r] = x]
    BY <1>2 DEF RunStarts, RequestsInv, RequestsTypeOK
  <2>3. UNCHANGED <<parent, requests, queues, tracker, disorder>>
    BY <1>2 DEF RunStarts
  <2> HIDE DEF x
  <2> QED
    BY <2>1, <2>2, <2>3, RunKeeps, StopsKept DEF RequestsInv, RequestsTypeOK
<1>3. CASE ProcessExits(r)
  <2> DEFINE x == [runs[r] EXCEPT !.process = "ended"]
  <2>1. x \in Run /\ x.hash = runs[r].hash /\ x.ctx = runs[r].ctx /\ x.goroutine = runs[r].goroutine
          /\ x.process = "ended"
    BY <1>1, <1>3 DEF ProcessExits, Run
  <2>2. runs' = [runs EXCEPT ![r] = x]
    BY <1>3, SMT DEF ProcessExits, RequestsInv, RequestsTypeOK
  <2>3. UNCHANGED <<parent, requests, queues, tracker, disorder>>
    BY <1>3 DEF ProcessExits
  <2> HIDE DEF x
  <2> QED
    BY <2>1, <2>2, <2>3, RunKeeps, StopsKept DEF RequestsInv, RequestsTypeOK
<1> QED
  BY <1>2, <1>3

\* The end of a run forgets no other run of a command that was not started twice.
LEMMA UntrackKeeps ==
  ASSUME RequestsInv, NEW r \in DOMAIN runs, RunEndsUntracks(r)
  PROVE  RequestsInv'
<1> DEFINE x == [runs[r] EXCEPT !.goroutine = "done"]
           g == runs[r].hash
<1>1. runs[r] \in Run
  BY SMT DEF RequestsInv, RequestsTypeOK
<1>2. /\ x \in Run /\ x.hash = g /\ x.ctx = runs[r].ctx /\ x.process = runs[r].process
      /\ x.pid = runs[r].pid /\ x.goroutine = "done" /\ g \in AllHashes
  BY <1>1 DEF Run
<1>3. /\ runs' = [runs EXCEPT ![r] = x] /\ runs[r].goroutine = "run" /\ runs[r].process = "ended"
      /\ tracker' = IF g \in Commands THEN [tracker EXCEPT ![g] = 0] ELSE tracker
      /\ UNCHANGED <<parent, requests, queues, disorder>>
  BY DEF RunEndsUntracks
<1>4. tracker \in [AllHashes -> Nat] /\ 0 \in Nat
  BY SMT DEF RequestsInv, RequestsTypeOK
<1> HIDE DEF x, g
<1>5. /\ runs' \in Seq(Run) /\ DOMAIN runs' = DOMAIN runs
      /\ runs'[r] = x /\ \A q \in DOMAIN runs \ {r} : runs'[q] = runs[q]
  BY <1>2, <1>3, RunFields DEF RequestsInv
<1>6. /\ tracker' \in [AllHashes -> Nat]
      /\ \A h \in AllHashes : tracker'[h] = tracker[h] \/ (h = g /\ tracker'[h] = 0)
  BY <1>2, <1>3, <1>4
<1>7. \A q \in DOMAIN runs : /\ runs'[q].hash = runs[q].hash /\ runs'[q].ctx = runs[q].ctx
                             /\ runs'[q].process = runs[q].process /\ runs'[q].pid = runs[q].pid
  BY <1>2, <1>5 DEF g
<1>8. TrackedRuns'
  <2>1. ASSUME NEW h \in AllHashes, tracker'[h] # 0
        PROVE  tracker'[h] \in DOMAIN runs' /\ runs'[tracker'[h]].hash = h
    <3>1. tracker'[h] = tracker[h] /\ tracker[h] \in DOMAIN runs /\ runs[tracker[h]].hash = h
      BY <1>6, <2>1 DEF RequestsInv, TrackedRuns
    <3> QED
      BY <1>5, <1>7, <3>1
  <2>2. ASSUME NEW p \in DOMAIN runs', runs'[p].hash \in Commands \ disorder',
               runs'[p].goroutine = "run"
        PROVE  /\ tracker'[runs'[p].hash] = p \/ runs'[p].ctx = "done"
               /\ \A q \in DOMAIN runs' : runs'[q].hash = runs'[p].hash /\ runs'[q].goroutine = "run" => p = q
    <3>1. /\ p \in DOMAIN runs /\ p # r /\ runs'[p] = runs[p]
          /\ runs[p].hash \in Commands \ disorder /\ runs[p].goroutine = "run"
      BY <1>2, <1>3, <1>5, <2>2
    <3>2. /\ tracker[runs[p].hash] = p \/ runs[p].ctx = "done"
          /\ \A q \in DOMAIN runs : runs[q].hash = runs[p].hash /\ runs[q].goroutine = "run" => p = q
      BY <3>1 DEF RequestsInv, TrackedRuns
    <3>3. runs[p].hash # g /\ runs[p].hash \in AllHashes
      BY <1>3, <3>1, <3>2 DEF g, AllHashes
    <3>4. tracker'[runs'[p].hash] = tracker[runs[p].hash]
      BY <1>6, <3>1, <3>3
    <3>5. ASSUME NEW q \in DOMAIN runs', runs'[q].hash = runs'[p].hash, runs'[q].goroutine = "run"
          PROVE  p = q
      <4>1. q # r
        BY <1>2, <1>5, <3>5
      <4> QED
        BY <1>5, <3>1, <3>2, <3>5, <4>1
    <3> QED
      BY <3>1, <3>2, <3>4, <3>5
  <2> QED
    BY <2>1, <2>2 DEF TrackedRuns
<1>9. RunsEnd'
  <2>1. ASSUME NEW q \in DOMAIN runs
        PROVE  /\ runs'[q].goroutine = "done" => runs'[q].process = "ended"
               /\ runs'[q].pid => runs'[q].process # "none"
    <3>1. CASE q = r
      BY <1>3, <1>7, <3>1
    <3>2. CASE q # r
      BY <1>5, <3>2 DEF RequestsInv, RunsEnd
    <3> QED
      BY <3>1, <3>2
  <2> QED
    BY <1>5, <2>1 DEF RunsEnd
<1>10. \A q \in DOMAIN runs : Goes(q)
  BY <1>5, <1>7 DEF Goes
<1> QED
  BY <1>3, <1>5, <1>6, <1>8, <1>9, <1>10, StopsKept DEF RequestsInv, RequestsTypeOK

\* What StopsOfRuns and StopStops say of one handler.
Stops(x) ==
  /\ x.pc \in {"pid", "grace"} => x.run # 0
  /\ x.run # 0 => x.run \in DOMAIN runs /\ runs[x.run].hash = x.hash
  /\ x.pc = "grace" => runs[x.run].process # "none"
  /\ x.pc = "done" /\ x.run # 0 /\ x.hash \notin disorder
     => runs[x.run].process = "ended" \/ runs[x.run].ctx = "done"

LEMMA StopsOfAll == StopsOfRuns /\ StopStops <=> \A i \in DOMAIN requests : Stops(requests[i])
BY DEF StopsOfRuns, StopStops, Stops

\* A handler that goes on to pc p, while the runs go on.
LEMMA HandlerKeeps ==
  ASSUME RequestsInv, NEW i \in DOMAIN requests, NEW p \in {"grace", "done"},
         requests[i].pc # "done", requests' = [requests EXCEPT ![i].pc = p],
         disorder' = disorder, \A r \in DOMAIN runs : Goes(r),
         p = "grace" => runs'[requests[i].run].process # "none",
         p = "done" /\ requests[i].hash \notin disorder
           => \/ runs'[requests[i].run].process = "ended"
              \/ runs'[requests[i].run].ctx = "done"
  PROVE  requests' \in Seq(Handling) /\ StopsOfRuns' /\ StopStops'
<1> DEFINE x == [requests[i] EXCEPT !.pc = p]
<1>1. requests \in Seq(Handling) /\ requests[i] \in Handling
  BY SMT DEF RequestsInv, RequestsTypeOK
<1>2. x \in Handling /\ x.hash = requests[i].hash /\ x.run = requests[i].run /\ x.pc = p
        /\ requests[i].pc \in {"pid", "grace"}
  BY <1>1 DEF Handling
<1>3. requests' = [requests EXCEPT ![i] = x]
  OBVIOUS
<1> HIDE DEF x
<1>4. /\ requests' \in Seq(Handling) /\ DOMAIN requests' = DOMAIN requests /\ requests'[i] = x
      /\ \A j \in DOMAIN requests \ {i} : requests'[j] = requests[j]
  BY <1>1, <1>2, <1>3, SMT
<1>5. ASSUME NEW j \in DOMAIN requests PROVE Stops(requests[j])'
  <2>1. Stops(requests[j])
    BY StopsOfAll DEF RequestsInv
  <2>2. CASE j = i
    <3>1. requests[i].run # 0 /\ requests[i].run \in DOMAIN runs /\ runs[requests[i].run].hash = x.hash
      BY <1>2, <2>1, <2>2 DEF Stops
    <3>2. requests[i].run \in DOMAIN runs' /\ runs'[requests[i].run].hash = x.hash
      BY <3>1 DEF Goes
    <3>3. requests'[j].run = requests[i].run /\ requests'[j].hash = x.hash /\ requests'[j].pc = p
      BY <1>2, <1>4, <2>2
    <3>4. x.hash \notin disorder' => requests[i].hash \notin disorder
      BY <1>2
    <3> QED
      BY <3>1, <3>2, <3>3, <3>4 DEF Stops
  <2>3. CASE j # i
    <3>1. requests'[j] = requests[j]
      BY <1>4, <2>3
    <3>2. CASE requests[j].run = 0
      BY <2>1, <3>1, <3>2 DEF Stops
    <3>3. CASE requests[j].run # 0
      <4>1. Goes(requests[j].run)
        BY <2>1, <3>3 DEF Stops
      <4> QED
        BY <2>1, <3>1, <3>3, <4>1, ZenonT(40) DEF Stops, Goes
    <3> QED
      BY <3>2, <3>3
  <2> QED
    BY <2>2, <2>3
<1>6. StopsOfRuns' /\ StopStops'
  BY <1>4, <1>5 DEF StopsOfRuns, StopStops, Stops
<1> QED
  BY <1>4, <1>6

\* A new handler.
LEMMA NewHandlerKeeps ==
  ASSUME RequestsInv, NEW x \in Handling, requests' = Append(requests, x), Stops(x),
         UNCHANGED <<parent, tracker, runs, disorder>>, queues' \in Queues
  PROVE  RequestsInv'
<1>1. /\ requests' \in Seq(Handling) /\ DOMAIN requests' = DOMAIN requests \cup {Len(requests) + 1}
      /\ \A i \in DOMAIN requests : requests'[i] = requests[i]
      /\ requests'[Len(requests) + 1] = x
  BY SMT DEF RequestsInv, RequestsTypeOK
<1>2. \A i \in DOMAIN requests' : Stops(requests'[i])
  BY <1>1, StopsOfAll DEF RequestsInv
<1>3. \A i \in DOMAIN requests' : Stops(requests[i])'
  BY <1>2 DEF Stops
<1>4. StopsOfRuns' /\ StopStops'
  BY <1>3 DEF StopsOfRuns, StopStops, Stops
<1> QED
  BY <1>1, <1>4 DEF RequestsInv, RequestsTypeOK, TrackedRuns, RunsEnd

LEMMA CommandsKeep ==
  ASSUME RequestsInv, NEW h \in Commands, RunIntegration(h) \/ StopIntegration(h)
  PROVE  RequestsInv'
<1>1. CASE RunIntegration(h)
  <2> DEFINE x == [hash |-> h, run |-> 0, pc |-> "done"]
  <2>1. x \in Handling /\ Stops(x)
    BY SMT DEF Handling, Stops
  <2>2. queues' \in Queues
    BY <1>1, PutKeeps DEF RunIntegration, RequestsInv
  <2> QED
    BY <1>1, <2>1, <2>2, NewHandlerKeeps DEF RunIntegration
<1>2. CASE StopIntegration(h)
  <2> DEFINE p == IF tracker[h] = 0 THEN "done" ELSE "pid"
             x == [hash |-> h, run |-> tracker[h], pc |-> p]
  <2>1. h \in AllHashes /\ tracker[h] \in Nat
    BY DEF AllHashes, RequestsInv, RequestsTypeOK
  <2>2. p \in {"done", "pid"} /\ (p = "pid" <=> tracker[h] # 0)
    OBVIOUS
  <2>3. x.hash = h /\ x.run = tracker[h] /\ x.pc = p
    OBVIOUS
  <2>4. x \in Handling
    BY <2>1, <2>2 DEF Handling
  <2>5. Stops(x)
    BY <2>1, <2>2, <2>3 DEF Stops, RequestsInv, TrackedRuns
  <2>6. requests' = Append(requests, x) /\ UNCHANGED <<parent, queues, tracker, runs, disorder>>
    BY <1>2 DEF StopIntegration
  <2> QED
    BY <2>4, <2>5, <2>6, NewHandlerKeeps DEF RequestsInv, RequestsTypeOK
<1> QED
  BY <1>1, <1>2

LEMMA ReadPIDKeeps ==
  ASSUME RequestsInv, NEW i \in DOMAIN requests, ReadPID(i)
  PROVE  RequestsInv'
<1> DEFINE r == requests[i].run
           x == [runs[r] EXCEPT !.pid = FALSE]
           p == IF runs[r].process = "runs" THEN "grace" ELSE "done"
<1>1. requests[i].pc = "pid" /\ runs[r].pid /\ requests' = [requests EXCEPT ![i].pc = p]
        /\ runs' = [runs EXCEPT ![r] = x] /\ UNCHANGED <<parent, queues, tracker, disorder>>
  BY DEF ReadPID
<1>2. r \in DOMAIN runs
  BY <1>1 DEF RequestsInv, StopsOfRuns
<1>3. runs[r] \in Run
  BY <1>2, SMT DEF RequestsInv, RequestsTypeOK
<1>4. /\ x \in Run /\ x.hash = runs[r].hash /\ x.ctx = runs[r].ctx /\ x.goroutine = runs[r].goroutine
      /\ x.process = runs[r].process /\ ~x.pid
  BY <1>3 DEF Run
<1>5. runs[r].process # "none" /\ runs[r].process \in {"none", "runs", "ended"}
        /\ (runs[r].goroutine = "done" => runs[r].process = "ended")
  BY <1>1, <1>2, <1>3 DEF RequestsInv, RunsEnd, Run
<1>6. p \in {"grace", "done"} /\ (p = "done" => runs[r].process = "ended")
  BY <1>5
<1> HIDE DEF x, p
<1>7. runs'[r] = x
  BY <1>1, <1>2, <1>4, RunFields DEF RequestsInv
<1> HIDE DEF r
<1>8. /\ RequestsTypeOK' \/ requests' \notin Seq(Handling)
      /\ TrackedRuns' /\ RunsEnd' /\ \A q \in DOMAIN runs : Goes(q)
  BY <1>1, <1>2, <1>4, <1>5, RunKeeps
<1>9. requests' \in Seq(Handling) /\ StopsOfRuns' /\ StopStops'
  <2>1. p = "grace" => runs'[r].process # "none"
    BY <1>4, <1>5, <1>7
  <2>2. p = "done" => runs'[r].process = "ended"
    BY <1>4, <1>6, <1>7
  <2> QED
    BY <1>1, <1>6, <1>8, <2>1, <2>2, HandlerKeeps DEF r
<1> QED
  BY <1>8, <1>9 DEF RequestsInv

\* The kill after the grace period reaches the run whose pid was read: its goroutine
\* has not ended, so that it is the tracked run of the hash, or cancelled already.
LEMMA StopEndsKeeps ==
  ASSUME RequestsInv, NEW i \in DOMAIN requests, StopEndsWith(i)
  PROVE  RequestsInv'
<1> DEFINE r == requests[i].run
           h == requests[i].hash
<1>1. requests[i].pc = "grace" /\ requests' = [requests EXCEPT ![i].pc = "done"]
        /\ UNCHANGED <<parent, queues, disorder>>
  BY DEF StopEndsWith
<1>2. r \in DOMAIN runs /\ runs[r].hash = h /\ runs[r].process # "none"
  BY <1>1 DEF RequestsInv, StopsOfRuns
<1>3. requests[i] \in Handling /\ runs[r] \in Run
  BY <1>2, SMT DEF RequestsInv, RequestsTypeOK
<1>4. h \in Commands /\ h \in AllHashes /\ runs[r].process \in {"none", "runs", "ended"}
        /\ runs[r].goroutine \in {"run", "done"}
  BY <1>3 DEF Handling, Run, AllHashes
<1>5. CASE ForceQuit(r)
  <2>1. Kill(h)
    BY <1>5 DEF StopEndsWith
  <2>2. runs[r].process = "runs"
    BY <1>5 DEF ForceQuit
  <2>3. runs[r].goroutine = "run"
    BY <1>2, <1>4, <2>2 DEF RequestsInv, RunsEnd
  <2>4. h \notin disorder => tracker[h] = r \/ runs[r].ctx = "done"
    BY <1>2, <1>4, <2>3 DEF RequestsInv, TrackedRuns
  <2>5. /\ tracker' \in [AllHashes -> Nat] /\ runs' \in Seq(Run)
        /\ runs'[r].ctx = IF r = tracker[h] THEN "done" ELSE runs[r].ctx
    BY <1>2, <1>4, <2>1, KillCancels, ZenonT(40)
  <2>6. TrackedRuns' /\ RunsEnd' /\ \A q \in DOMAIN runs : Goes(q)
    BY <1>1, <1>4, <2>1, KillKeepsRuns
  <2>7. h \notin disorder => runs'[r].ctx = "done"
    BY <2>4, <2>5
  <2>8. requests' \in Seq(Handling) /\ StopsOfRuns' /\ StopStops'
    BY <1>1, <2>6, <2>7, HandlerKeeps
  <2> QED
    BY <1>1, <2>5, <2>6, <2>8 DEF RequestsInv, RequestsTypeOK
<1>6. CASE ~ForceQuit(r)
  <2>1. UNCHANGED <<tracker, runs>>
    BY <1>6 DEF StopEndsWith
  <2>2. runs'[r].process = "ended"
    BY <1>2, <1>4, <1>6, <2>1 DEF ForceQuit
  <2>3. \A q \in DOMAIN runs : Goes(q)
    BY <2>1 DEF Goes
  <2>4. requests' \in Seq(Handling) /\ StopsOfRuns' /\ StopStops'
    BY <1>1, <2>2, <2>3, HandlerKeeps
  <2> QED
    BY <1>1, <2>1, <2>4 DEF RequestsInv, RequestsTypeOK, TrackedRuns, RunsEnd
<1> QED
  BY <1>5, <1>6

LEMMA RequestsInvStep == RequestsInv /\ [RequestsNext]_requestVars => RequestsInv'
<1> SUFFICES ASSUME RequestsInv, [RequestsNext]_requestVars PROVE RequestsInv'
  OBVIOUS
<1>1. CASE UNCHANGED requestVars
  BY <1>1 DEF requestVars, RequestsInv, RequestsTypeOK, TrackedRuns, RunsEnd, StopsOfRuns, StopStops
<1>2. CASE ConfigNext
  BY <1>2, ConfigKeeps, TakeRequestKeeps DEF ConfigNext
<1>3. CASE CommandNext
  BY <1>3, CommandsKeep, ReadPIDKeeps, StopEndsKeeps, TakeRequestKeeps DEF CommandNext
<1>4. CASE RunNext
  BY <1>4, ProcessKeeps, UntrackKeeps DEF RunNext
<1> QED
  BY <1>1, <1>2, <1>3, <1>4 DEF RequestsNext

\* A stop_integration that read the pid of a run leaves it ended or cancelled
\* (stopintegration.go), however its steps and those of other requests, of the queue
\* of the manager and of the runs interleave.
THEOREM StopsEndRuns == RequestsSpec => [](RequestsTypeOK /\ StopStops)
BY RequestsInvInit, RequestsInvStep, PTL DEF RequestsSpec, RequestsInv

-----------------------------------------------------------------------------
(* The children of an integration                                           *)

\* The numbers of the requests of s that are about h.
NumbersOf(s, h) == {s[i].no : i \in {k \in DOMAIN s : s[k].hash = h}}

Numbers(q, h) == NumbersOf(queues[q], h)

\* Whether h runs when the requests on their way are handled: what the handler and the
\* killer have not asked to end.
Wanted(h) ==
  \/ parent.killer = "runs" /\ \/ h \in parent.hashes
                               \/ parent.handler = "add" /\ h \in parent.added
                               \/ parent.handler = "terminate" /\ h \in parent.removed
  \/ parent.killer # "runs" /\ h \in parent.toKill

\* Starts E and ends T follow each other, from the state now to the state at last.
Alternating(E, T, now, last) ==
  /\ \A a, b \in E : a < b => \E c \in T : a < c /\ c < b
  /\ \A a, b \in T : a < b => \E c \in E : a < c /\ c < b
  /\ IF now THEN \A e \in E : \E t \in T : t < e ELSE \A t \in T : \E e \in E : e < t
  /\ IF last THEN \A t \in T : \E e \in E : t < e ELSE \A e \in E : \E t \in T : e < t
  /\ E = {} /\ T = {} => (now <=> last)

\* The requests of a queue were numbered from 0 to n - 1, in their order.
NumberedBelow(s, n) ==
  /\ \A i \in DOMAIN s : s[i].no < n
  /\ \A i, j \in DOMAIN s : i < j => s[i].no < s[j].no

Numbered(q) == NumberedBelow(queues[q], queues.no)

\* The requests about a child on their way, and its run.
Pending(h) ==
  Alternating(Numbers("entry", h), Numbers("terminate", h), tracker[h] # 0, Wanted(h))

OneRun(h) == LiveRuns(h) = IF tracker[h] = 0 THEN {} ELSE {tracker[h]}

ParentInv ==
  /\ parent.killer = "ended" => parent.toKill = {}
  /\ parent.handler = "terminate" => parent.removed \cap parent.hashes = {}
  /\ parent.killer # "runs" /\ parent.handler # "idle" => Hashes \subseteq disorder

ChildrenInv ==
  /\ ParentInv /\ Numbered("entry") /\ Numbered("terminate")
  /\ \A h \in Hashes \ disorder : Pending(h) /\ OneRun(h)

LEMMA AlternatingEnds ==
  ASSUME NEW E, NEW T, NEW now \in BOOLEAN, NEW last \in BOOLEAN, Alternating(E, T, now, last)
  PROVE  Alternating(T, E, ~now, ~last)
BY DEF Alternating

\* A start is asked for.
LEMMA AlternatingStart ==
  ASSUME NEW E \in SUBSET Nat, NEW T \in SUBSET Nat, NEW n \in Nat, NEW now \in BOOLEAN,
         \A e \in E : e < n, \A t \in T : t < n, Alternating(E, T, now, FALSE)
  PROVE  Alternating(E \cup {n}, T, now, TRUE)
<1>1. \A a, b \in E \cup {n} : a < b => \E c \in T : a < c /\ c < b
  <2> SUFFICES ASSUME NEW a \in E \cup {n}, NEW b \in E \cup {n}, a < b
               PROVE  \E c \in T : a < c /\ c < b
    OBVIOUS
  <2>1. a # n
    BY SMT
  <2>2. CASE b = n
    BY <2>1, <2>2 DEF Alternating
  <2>3. CASE b # n
    BY <2>1, <2>3 DEF Alternating
  <2> QED
    BY <2>2, <2>3
<1>2. \A a, b \in T : a < b => \E c \in E \cup {n} : a < c /\ c < b
  BY DEF Alternating
<1>3. IF now THEN \A e \in E \cup {n} : \E t \in T : t < e ELSE \A t \in T : \E e \in E \cup {n} : e < t
  <2>1. CASE now
    <3>1. PICK t \in T : TRUE
      BY <2>1 DEF Alternating
    <3> QED
      BY <2>1, <3>1 DEF Alternating
  <2>2. CASE ~now
    BY <2>2 DEF Alternating
  <2> QED
    BY <2>1, <2>2
<1>4. \A t \in T : \E e \in E \cup {n} : t < e
  OBVIOUS
<1> QED
  BY <1>1, <1>2, <1>3, <1>4 DEF Alternating

\* The first start is handled: nothing runs before it, something afterwards.
LEMMA AlternatingTaken ==
  ASSUME NEW E \in SUBSET Nat, NEW T \in SUBSET Nat, NEW m \in E, NEW now \in BOOLEAN,
         NEW last \in BOOLEAN, \A e \in E : m <= e, \A t \in T : ~(t < m),
         Alternating(E, T, now, last)
  PROVE  ~now /\ Alternating(E \ {m}, T, TRUE, last)
<1>1. ~now
  BY DEF Alternating
<1>2. \A a, b \in T : a < b => \E c \in E \ {m} : a < c /\ c < b
  <2> SUFFICES ASSUME NEW a \in T, NEW b \in T, a < b PROVE \E c \in E \ {m} : a < c /\ c < b
    OBVIOUS
  <2>1. PICK c \in E : a < c /\ c < b
    BY DEF Alternating
  <2>2. c # m
    BY <2>1
  <2> QED
    BY <2>1, <2>2
<1>3. \A e \in E \ {m} : \E t \in T : t < e
  <2> SUFFICES ASSUME NEW e \in E \ {m} PROVE \E t \in T : t < e
    OBVIOUS
  <2>1. m < e
    BY SMT
  <2> QED
    BY <2>1 DEF Alternating
<1>4. IF last THEN \A t \in T : \E e \in E \ {m} : t < e ELSE \A e \in E \ {m} : \E t \in T : e < t
  <2>1. CASE last
    <3> SUFFICES ASSUME NEW t \in T PROVE \E e \in E \ {m} : t < e
      BY <2>1
    <3>1. PICK e \in E : t < e
      BY <2>1 DEF Alternating
    <3>2. e # m
      BY <3>1
    <3> QED
      BY <3>1, <3>2
  <2>2. CASE ~last
    BY <2>2 DEF Alternating
  <2> QED
    BY <2>1, <2>2
<1>5. T = {} => last
  BY DEF Alternating
<1> QED
  BY <1>1, <1>2, <1>3, <1>4, <1>5 DEF Alternating

LEMMA NumbersBelow ==
  ASSUME NEW H, NEW s \in Seq(Item(H)), NEW n \in Nat, NumberedBelow(s, n), NEW h
  PROVE  NumbersOf(s, h) \subseteq Nat /\ \A k \in NumbersOf(s, h) : k < n
<1>1. \A i \in DOMAIN s : s[i] \in Item(H)
  BY SMT
<1> QED
  BY <1>1 DEF NumbersOf, NumberedBelow, Item

NumbersWith(s, x, h) == IF h = x.hash THEN NumbersOf(s, h) \cup {x.no} ELSE NumbersOf(s, h)

LEMMA AppendNumbers ==
  ASSUME NEW H, NEW s \in Seq(Item(H)), NEW x \in Item(H), NumberedBelow(s, x.no)
  PROVE  /\ NumberedBelow(Append(s, x), x.no + 1)
         /\ \A h : NumbersOf(Append(s, x), h) = NumbersWith(s, x, h)
<1> DEFINE t == Append(s, x)
           l == Len(s) + 1
           n == x.no
<1>0. n \in Nat
  BY DEF Item
<1>1. /\ DOMAIN t = DOMAIN s \cup {l} /\ l \notin DOMAIN s /\ t[l] = x /\ \A i \in DOMAIN s : t[i] = s[i]
      /\ \A i \in DOMAIN s : i < l /\ ~(l < i)
      /\ ~(l < l)
  BY SMT
<1>2. \A i \in DOMAIN s : s[i] \in Item(H)
  BY SMT
<1>3. \A i \in DOMAIN s : s[i].no \in Nat
  BY <1>2 DEF Item
<1> HIDE DEF t, l
<1>4. \A i \in DOMAIN s : s[i].no < n + 1
  BY <1>0, <1>3, SMT DEF NumberedBelow
<1>5. n < n + 1
  BY <1>0, SMT
<1>6. NumberedBelow(t, n + 1)
  BY <1>1, <1>4, <1>5 DEF NumberedBelow
<1>7. ASSUME NEW h
      PROVE  NumbersOf(t, h) = NumbersWith(s, x, h)
  BY <1>1 DEF NumbersOf, NumbersWith
<1> QED
  BY <1>6, <1>7 DEF t

LEMMA TailNumbers ==
  ASSUME NEW H, NEW s \in Seq(Item(H)), NEW n \in Nat, NumberedBelow(s, n), s # <<>>
  PROVE  /\ NumberedBelow(Tail(s), n)
         /\ Head(s).no \in NumbersOf(s, Head(s).hash)
         /\ \A k \in NumbersOf(s, Head(s).hash) : Head(s).no <= k
         /\ \A h : NumbersOf(Tail(s), h)
                     = IF h = Head(s).hash THEN NumbersOf(s, h) \ {Head(s).no} ELSE NumbersOf(s, h)
<1> DEFINE t == Tail(s)
<1>1. /\ Head(s) = s[1] /\ 1 \in DOMAIN s
      /\ \A i \in DOMAIN t : i + 1 \in DOMAIN s /\ t[i] = s[i + 1] /\ 1 < i + 1
      /\ \A i \in DOMAIN s \ {1} : i - 1 \in DOMAIN t /\ t[i - 1] = s[i] /\ 1 < i
      /\ \A i, j \in DOMAIN t : i < j => i + 1 < j + 1
  BY SMT
<1>2. \A i \in DOMAIN s : s[i] \in Item(H)
  BY SMT
<1>3. \A i \in DOMAIN s : s[i].no \in Nat
  BY <1>2 DEF Item
<1> HIDE DEF t
<1>4. NumberedBelow(t, n)
  BY <1>1 DEF NumberedBelow
<1>5. ASSUME NEW i \in DOMAIN s \ {1} PROVE s[1].no < s[i].no /\ s[1].no <= s[i].no /\ s[1].no # s[i].no
  <2>1. s[1].no < s[i].no
    BY <1>1 DEF NumberedBelow
  <2> QED
    BY <1>1, <1>3, <2>1, SMT
<1>6. s[1].no <= s[1].no
  BY <1>1, <1>3, SMT
<1>7. \A h : NumbersOf(t, h) = IF h = s[1].hash THEN NumbersOf(s, h) \ {s[1].no} ELSE NumbersOf(s, h)
  <2> TAKE h
  <2>1. NumbersOf(t, h) = {s[i].no : i \in {k \in DOMAIN s \ {1} : s[k].hash = h}}
    BY <1>1, SMT DEF NumbersOf
  <2>2. CASE h = s[1].hash
    BY <1>1, <1>5, <2>1, <2>2, SMT DEF NumbersOf
  <2>3. CASE h # s[1].hash
    BY <1>1, <2>1, <2>3 DEF NumbersOf
  <2> QED
    BY <2>2, <2>3
<1>8. s[1].no \in NumbersOf(s, s[1].hash) /\ \A k \in NumbersOf(s, s[1].hash) : s[1].no <= k
  BY <1>1, <1>5, <1>6, ZenonT(40) DEF NumbersOf
<1> QED
  BY <1>1, <1>4, <1>7, <1>8 DEF t

\* The numbers on their way after a send of h to a queue.
SentNumbers(q, h) ==
  /\ Numbered("entry")' /\ Numbered("terminate")'
  /\ \A p \in {"entry", "terminate"}, g \in Hashes :
       Numbers(p, g)' = IF p = q /\ g = h THEN Numbers(p, g) \cup {queues.no} ELSE Numbers(p, g)

LEMMA PutNumbers ==
  ASSUME RequestsTypeOK, Numbered("entry"), Numbered("terminate"), NEW H, NEW q, NEW h \in H, Put(q, h),
         \/ q = "definition" /\ H = Commands
         \/ q \in {"entry", "terminate"} /\ H = Hashes
  PROVE  SentNumbers(q, h)
<1> DEFINE item == [hash |-> h, no |-> queues.no]
<1>1. /\ queues.no \in Nat /\ queues[q] \in Seq(Item(H))
      /\ \A p \in {"entry", "terminate"} : queues[p] \in Seq(Item(Hashes))
  BY DEF RequestsTypeOK, Queues
<1>2. item \in Item(H) /\ item.no = queues.no /\ item.hash = h
  BY <1>1 DEF Item
<1>3. queues' = [queues EXCEPT ![q] = Append(queues[q], item), !.no = queues.no + 1]
  BY <1>1 DEF Put, RequestsTypeOK, Queues
<1> HIDE DEF item
<1>4. /\ queues'.no = queues.no + 1 /\ queues'[q] = Append(queues[q], item)
      /\ \A p \in {"entry", "terminate"} : p # q => queues'[p] = queues[p]
  BY <1>3 DEF RequestsTypeOK, Queues
<1>5. ASSUME NEW p \in {"entry", "terminate"}
      PROVE  /\ NumberedBelow(queues'[p], queues.no + 1)
             /\ \A g \in Hashes : NumbersOf(queues'[p], g) =
                  IF p = q /\ g = h THEN NumbersOf(queues[p], g) \cup {queues.no} ELSE NumbersOf(queues[p], g)
  <2>1. CASE p = q
    <3>1. NumberedBelow(queues[q], queues.no)
      BY <1>5, <2>1 DEF Numbered
    <3> QED
      <4>1. /\ NumberedBelow(Append(queues[q], item), item.no + 1)
            /\ \A g : NumbersOf(Append(queues[q], item), g) = NumbersWith(queues[q], item, g)
        BY <1>1, <1>2, <3>1, AppendNumbers
      <4> QED
        BY <1>2, <1>4, <2>1, <4>1 DEF NumbersWith
  <2>2. CASE p # q
    <3>1. NumberedBelow(queues[p], queues.no)
      BY <1>5 DEF Numbered
    <3>2. \A i \in DOMAIN queues[p] : queues[p][i] \in Item(Hashes)
      BY <1>1, SMT
    <3>3. \A i \in DOMAIN queues[p] : queues[p][i].no \in Nat
      BY <3>2 DEF Item
    <3>4. \A i \in DOMAIN queues[p] : queues[p][i].no < queues.no + 1
      BY <1>1, <3>1, <3>3, SMT DEF NumberedBelow
    <3> QED
      BY <1>4, <2>2, <3>1, <3>4 DEF NumberedBelow
  <2> QED
    BY <2>1, <2>2
<1> QED
  BY <1>4, <1>5 DEF Numbered, Numbers, SentNumbers

\* What is pending and running of one child after a step.
LEMMA ChildKept ==
  ASSUME NEW h, Pending(h), OneRun(h), Numbers("entry", h)' = Numbers("entry", h),
         Numbers("terminate", h)' = Numbers("terminate", h), tracker'[h] = tracker[h],
         Wanted(h)' <=> Wanted(h), LiveRuns(h)' = LiveRuns(h)
  PROVE  Pending(h)' /\ OneRun(h)'
BY DEF Pending, OneRun, Alternating

LEMMA StartAsked ==
  ASSUME RequestsTypeOK, Numbered("entry"), Numbered("terminate"), NEW h \in Hashes, Pending(h),
         Numbers("entry", h)' = Numbers("entry", h) \cup {queues.no},
         Numbers("terminate", h)' = Numbers("terminate", h),
         tracker' = tracker, ~Wanted(h), Wanted(h)'
  PROVE  Pending(h)'
<1> DEFINE E == Numbers("entry", h)
           T == Numbers("terminate", h)
           now == tracker[h] # 0
<1>1. queues.no \in Nat /\ queues["entry"] \in Seq(Item(Hashes)) /\ queues["terminate"] \in Seq(Item(Hashes))
  BY DEF RequestsTypeOK, Queues
<1>2. /\ E \in SUBSET Nat /\ \A e \in E : e < queues.no
      /\ T \in SUBSET Nat /\ \A t \in T : t < queues.no
  BY <1>1, NumbersBelow DEF Numbers, Numbered
<1>3. Alternating(E, T, now, FALSE)
  BY DEF Pending, Alternating
<1> HIDE DEF E, T, now
<1>4. now \in BOOLEAN
  BY DEF now
<1>5. Alternating(E \cup {queues.no}, T, now, TRUE)
  BY <1>1, <1>2, <1>3, <1>4, AlternatingStart
<1> QED
  BY <1>5, SMT DEF Pending, Alternating, E, T, now

LEMMA EndAsked ==
  ASSUME RequestsTypeOK, Numbered("entry"), Numbered("terminate"), NEW h \in Hashes, Pending(h),
         Numbers("terminate", h)' = Numbers("terminate", h) \cup {queues.no},
         Numbers("entry", h)' = Numbers("entry", h),
         tracker' = tracker, Wanted(h), ~Wanted(h)'
  PROVE  Pending(h)'
<1> DEFINE E == Numbers("entry", h)
           T == Numbers("terminate", h)
           now == tracker[h] # 0
<1>1. queues.no \in Nat /\ queues["entry"] \in Seq(Item(Hashes)) /\ queues["terminate"] \in Seq(Item(Hashes))
  BY DEF RequestsTypeOK, Queues
<1>2. /\ E \in SUBSET Nat /\ \A e \in E : e < queues.no
      /\ T \in SUBSET Nat /\ \A t \in T : t < queues.no
  BY <1>1, NumbersBelow DEF Numbers, Numbered
<1>3. Alternating(E, T, now, TRUE)
  BY DEF Pending, Alternating
<1> HIDE DEF E, T, now
<1>4. now \in BOOLEAN /\ (~now) \in BOOLEAN
  BY DEF now
<1>5. Alternating(T, E, ~now, FALSE)
  BY <1>3, <1>4, AlternatingEnds DEF Alternating
<1>6. Alternating(T \cup {queues.no}, E, ~now, TRUE)
  BY <1>1, <1>2, <1>4, <1>5, AlternatingStart
<1>7. Alternating(E, T \cup {queues.no}, now, FALSE)
  BY <1>4, <1>6 DEF Alternating
<1>8. Wanted(h)' = FALSE /\ (tracker'[h] # 0) = now
  BY SMT DEF now, Wanted
<1> QED
  BY <1>7, <1>8 DEF Pending, E, T

\* A step of the handler or of the killer that asks for nothing.
LEMMA NothingAsked ==
  ASSUME ChildrenInv, UNCHANGED <<queues, tracker, runs>>, disorder \subseteq disorder', ParentInv',
         \A h \in Hashes \ disorder' : Wanted(h)' <=> Wanted(h)
  PROVE  ChildrenInv'
<1>1. Numbered("entry")' /\ Numbered("terminate")'
  BY DEF ChildrenInv, Numbered
<1>2. ASSUME NEW h \in Hashes \ disorder' PROVE Pending(h)' /\ OneRun(h)'
  <2>1. /\ Numbers("entry", h)' = Numbers("entry", h)
        /\ Numbers("terminate", h)' = Numbers("terminate", h)
        /\ tracker'[h] = tracker[h] /\ LiveRuns(h)' = LiveRuns(h)
    BY DEF Numbers, LiveRuns
  <2>2. Pending(h) /\ OneRun(h) /\ (Wanted(h)' <=> Wanted(h))
    BY DEF ChildrenInv
  <2> QED
    BY <2>1, <2>2, ChildKept
<1> QED
  BY <1>1, <1>2 DEF ChildrenInv

\* A request asks for what was not so, and now is.
Turned(q, h) == \/ q = "entry" /\ ~Wanted(h) /\ Wanted(h)'
                \/ q = "terminate" /\ Wanted(h) /\ ~Wanted(h)'

\* A step that asks for the start or the end of h.
LEMMA OneAsked ==
  ASSUME RequestsInv, ChildrenInv, UNCHANGED <<tracker, runs>>, disorder \subseteq disorder', ParentInv',
         NEW q \in {"entry", "terminate"}, NEW h \in Hashes, Put(q, h),
         h \in disorder' \/ Turned(q, h),
         \A g \in Hashes \ disorder' : g # h => (Wanted(g)' <=> Wanted(g))
  PROVE  ChildrenInv'
<1>1. SentNumbers(q, h)
  <2>1. RequestsTypeOK /\ Numbered("entry") /\ Numbered("terminate")
    BY DEF RequestsInv, ChildrenInv
  <2> QED
    BY <2>1, PutNumbers
<1>2. ASSUME NEW g \in Hashes \ disorder', g # h PROVE Pending(g)' /\ OneRun(g)'
  <2>1. /\ Numbers("entry", g)' = Numbers("entry", g)
        /\ Numbers("terminate", g)' = Numbers("terminate", g)
    BY <1>1, <1>2 DEF SentNumbers
  <2>2. tracker'[g] = tracker[g] /\ LiveRuns(g)' = LiveRuns(g)
    BY DEF LiveRuns
  <2>3. Pending(g) /\ OneRun(g) /\ (Wanted(g)' <=> Wanted(g))
    BY <1>2 DEF ChildrenInv
  <2> QED
    BY <2>1, <2>2, <2>3, ChildKept
<1>3. ASSUME h \notin disorder' PROVE Pending(h)' /\ OneRun(h)'
  <2>1. Pending(h) /\ OneRun(h)
    BY <1>3 DEF ChildrenInv
  <2>2. OneRun(h)'
    BY <2>1 DEF OneRun, LiveRuns
  <2>3. CASE q = "entry"
    <3>1. /\ Numbers("entry", h)' = Numbers("entry", h) \cup {queues.no}
          /\ Numbers("terminate", h)' = Numbers("terminate", h)
      BY <1>1, <2>3 DEF SentNumbers
    <3>2. ~Wanted(h) /\ Wanted(h)'
      BY <1>3, <2>3 DEF Turned
    <3> QED
      BY <2>1, <2>2, <3>1, <3>2, StartAsked DEF RequestsInv, ChildrenInv
  <2>4. CASE q = "terminate"
    <3>1. /\ Numbers("terminate", h)' = Numbers("terminate", h) \cup {queues.no}
          /\ Numbers("entry", h)' = Numbers("entry", h)
      BY <1>1, <2>4 DEF SentNumbers
    <3>2. Wanted(h) /\ ~Wanted(h)'
      BY <1>3, <2>4 DEF Turned
    <3> QED
      BY <2>1, <2>2, <3>1, <3>2, EndAsked DEF RequestsInv, ChildrenInv
  <2> QED
    BY <2>3, <2>4
<1> QED
  BY <1>1, <1>2, <1>3 DEF ChildrenInv, SentNumbers

LEMMA HandlerChildren ==
  ASSUME RequestsInv, ChildrenInv, (\E c \in ParentConfigs : TakeConfig(c)) \/ InvalidEntry \/ ApplyConfig
  PROVE  ChildrenInv'
<1>1. parent \in Parent /\ ParentInv
  BY DEF RequestsInv, RequestsTypeOK, ChildrenInv
<1>2. ASSUME NEW c \in ParentConfigs, TakeConfig(c) PROVE ChildrenInv'
  <2>1. /\ parent.handler = "idle" /\ parent'.handler = "add" /\ parent'.added = {}
        /\ parent'.hashes = parent.hashes /\ parent'.killer = parent.killer /\ parent'.toKill = parent.toKill
    BY <1>1, <1>2 DEF TakeConfig, Parent
  <2>2. /\ UNCHANGED <<queues, tracker, runs>> /\ disorder \subseteq disorder'
        /\ parent.killer # "runs" => Hashes \subseteq disorder'
    BY <1>2 DEF TakeConfig
  <2>3. ParentInv'
    BY <1>1, <2>1, <2>2 DEF ParentInv
  <2>4. \A h \in Hashes \ disorder' : Wanted(h)' <=> Wanted(h)
    BY <2>1, <2>2 DEF Wanted
  <2> QED
    BY <2>2, <2>3, <2>4, NothingAsked
<1>3. CASE InvalidEntry
  <2>1. /\ parent.handler = "add" /\ parent'.handler = "idle" /\ parent'.added = parent.added
        /\ parent'.hashes = parent.hashes /\ parent'.killer = parent.killer /\ parent'.toKill = parent.toKill
    BY <1>1, <1>3 DEF InvalidEntry, Parent
  <2>2. /\ UNCHANGED <<queues, tracker, runs>> /\ disorder' = disorder \cup (parent.added \ parent.hashes)
    BY <1>3 DEF InvalidEntry
  <2>3. ParentInv'
    BY <1>1, <2>1, <2>2 DEF ParentInv
  <2>4. \A h \in Hashes \ disorder' : Wanted(h)' <=> Wanted(h)
    BY <2>1, <2>2 DEF Wanted
  <2> QED
    BY <2>2, <2>3, <2>4, NothingAsked
<1>4. CASE ApplyConfig
  <2>1. /\ parent.handler = "add" /\ parent'.handler = "terminate" /\ parent'.hashes = parent.added
        /\ parent'.removed = parent.hashes \ parent.added
        /\ parent'.killer = parent.killer /\ parent'.toKill = parent.toKill
    BY <1>1, <1>4 DEF ApplyConfig, Parent
  <2>2. UNCHANGED <<queues, tracker, runs, disorder>>
    BY <1>4 DEF ApplyConfig
  <2>3. ParentInv'
    BY <1>1, <2>1, <2>2 DEF ParentInv
  <2>4. \A h \in Hashes \ disorder' : Wanted(h)' <=> Wanted(h)
    BY <2>1, <2>2 DEF Wanted
  <2> QED
    BY <2>2, <2>3, <2>4, NothingAsked
<1> QED
  BY <1>2, <1>3, <1>4

LEMMA AddChild ==
  ASSUME RequestsInv, ChildrenInv, AddDefinition
  PROVE  ChildrenInv'
<1>1. parent \in Parent /\ ParentInv
  BY DEF RequestsInv, RequestsTypeOK, ChildrenInv
<1>2. PICK h \in Hashes : h = Head(parent.todo)
  <2>1. Head(parent.todo) \in Hashes \cup {Invalid}
    BY ParentFields, SMT DEF AddDefinition, RequestsInv
  <2> QED
    BY <2>1 DEF AddDefinition
<1>3. /\ parent.handler = "add" /\ parent'.handler = "add" /\ parent'.added = parent.added \cup {h}
      /\ parent'.hashes = parent.hashes /\ parent'.killer = parent.killer /\ parent'.toKill = parent.toKill
  BY <1>1, <1>2 DEF AddDefinition, Parent
<1>4. /\ UNCHANGED <<tracker, runs>> /\ disorder \subseteq disorder'
      /\ h \notin parent.hashes /\ h \in parent.added => h \in disorder'
      /\ IF h \notin parent.hashes THEN Put("entry", h) ELSE UNCHANGED queues
  BY <1>2 DEF AddDefinition, IsNew
<1>5. ParentInv'
  BY <1>1, <1>3, <1>4 DEF ParentInv
<1>6. CASE h \in parent.hashes
  <2>1. \A g \in Hashes \ disorder' : Wanted(g)' <=> Wanted(g)
    BY <1>3, <1>6 DEF Wanted
  <2> QED
    BY <1>4, <1>5, <1>6, <2>1, NothingAsked
<1>7. CASE h \notin parent.hashes
  <2>1. \A g \in Hashes \ disorder' : g # h => (Wanted(g)' <=> Wanted(g))
    BY <1>3 DEF Wanted
  <2>2. ASSUME h \notin disorder' PROVE Turned("entry", h)
    <3>1. h \notin disorder /\ h \notin parent.added
      BY <1>4, <1>7, <2>2
    <3>2. parent.killer = "runs"
      BY <1>1, <1>2, <1>3, <3>1 DEF ParentInv
    <3>3. h \in parent'.added
      BY <1>3
    <3>4. ~Wanted(h)
      BY <1>3, <1>7, <3>1, <3>2 DEF Wanted
    <3>5. Wanted(h)'
      BY <1>3, <3>2, <3>3 DEF Wanted
    <3> QED
      BY <3>4, <3>5 DEF Turned
  <2> QED
    BY <1>2, <1>4, <1>5, <1>7, <2>1, <2>2, OneAsked
<1> QED
  BY <1>6, <1>7

LEMMA TerminateChild ==
  ASSUME RequestsInv, ChildrenInv, TerminateRemoved
  PROVE  ChildrenInv'
<1>1. parent \in Parent /\ ParentInv /\ parent.removed \subseteq Hashes
  BY ParentFields DEF RequestsInv, RequestsTypeOK, ChildrenInv
<1>2. parent.handler = "terminate" /\ UNCHANGED <<tracker, runs, disorder>>
  BY DEF TerminateRemoved
<1>3. CASE parent.removed = {}
  <2>1. /\ parent'.handler = "idle" /\ parent'.hashes = parent.hashes
        /\ parent'.killer = parent.killer /\ parent'.toKill = parent.toKill
    BY <1>1, <1>3 DEF TerminateRemoved, Parent
  <2>2. UNCHANGED queues
    BY <1>3 DEF TerminateRemoved
  <2>3. ParentInv'
    BY <1>1, <1>2, <2>1 DEF ParentInv
  <2>4. \A g \in Hashes \ disorder' : Wanted(g)' <=> Wanted(g)
    BY <1>2, <1>3, <2>1 DEF Wanted
  <2> QED
    BY <1>2, <2>2, <2>3, <2>4, NothingAsked
<1>4. CASE parent.removed # {}
  <2>1. PICK h \in parent.removed : /\ Put("terminate", h)
                                   /\ parent' = [parent EXCEPT !.removed = @ \ {h}]
    BY <1>4 DEF TerminateRemoved
  <2>2. /\ parent'.handler = "terminate" /\ parent'.hashes = parent.hashes
        /\ parent'.removed = parent.removed \ {h}
        /\ parent'.killer = parent.killer /\ parent'.toKill = parent.toKill
    BY <1>1, <1>2, <2>1 DEF Parent
  <2>3. ParentInv'
    BY <1>1, <1>2, <2>2 DEF ParentInv
  <2>4. \A g \in Hashes \ disorder' : g # h => (Wanted(g)' <=> Wanted(g))
    BY <1>2, <2>2 DEF Wanted
  <2>5. ASSUME h \notin disorder' PROVE Turned("terminate", h)
    <3>1. parent.killer = "runs" /\ h \notin parent.hashes
      BY <1>1, <1>2, <2>1, <2>5 DEF ParentInv
    <3>2. Wanted(h)
      BY <1>2, <2>1, <3>1 DEF Wanted
    <3>3. ~Wanted(h)'
      BY <2>2, <3>1 DEF Wanted
    <3> QED
      BY <3>2, <3>3 DEF Turned
  <2>6. h \in Hashes
    BY <1>1, <2>1
  <2> QED
    BY <1>2, <2>1, <2>3, <2>4, <2>5, <2>6, OneAsked
<1> QED
  BY <1>3, <1>4

LEMMA KillerChildren ==
  ASSUME RequestsInv, ChildrenInv, ListChildren \/ KillChild
  PROVE  ChildrenInv'
<1>1. parent \in Parent /\ ParentInv /\ parent.toKill \subseteq Hashes
  BY ParentFields DEF RequestsInv, RequestsTypeOK, ChildrenInv
<1>2. CASE ListChildren
  <2>1. /\ parent.killer = "runs" /\ parent'.killer = "kills" /\ parent'.toKill = parent.hashes
        /\ parent'.handler = parent.handler /\ parent'.removed = parent.removed
        /\ parent'.hashes = parent.hashes
    BY <1>1, <1>2 DEF ListChildren, Parent
  <2>2. /\ UNCHANGED <<queues, tracker, runs>> /\ disorder \subseteq disorder'
        /\ parent.handler # "idle" => Hashes \subseteq disorder'
    BY <1>2 DEF ListChildren
  <2>3. ParentInv'
    BY <1>1, <2>1, <2>2 DEF ParentInv
  <2>4. \A h \in Hashes \ disorder' : Wanted(h)' <=> Wanted(h)
    BY <2>1, <2>2 DEF Wanted
  <2> QED
    BY <2>2, <2>3, <2>4, NothingAsked
<1>3. CASE KillChild /\ parent.toKill = {}
  <2>1. /\ parent.killer = "kills" /\ parent'.killer = "ended" /\ parent'.toKill = parent.toKill
        /\ parent'.handler = parent.handler /\ parent'.removed = parent.removed
        /\ parent'.hashes = parent.hashes
    BY <1>1, <1>3 DEF KillChild, Parent
  <2>2. UNCHANGED <<queues, tracker, runs, disorder>>
    BY <1>3 DEF KillChild
  <2>3. ParentInv'
    BY <1>1, <1>3, <2>1, <2>2 DEF ParentInv
  <2>4. \A h \in Hashes \ disorder' : Wanted(h)' <=> Wanted(h)
    BY <2>1, <2>2 DEF Wanted
  <2> QED
    BY <2>2, <2>3, <2>4, NothingAsked
<1>4. CASE KillChild /\ parent.toKill # {}
  <2>1. PICK h \in parent.toKill : /\ Put("terminate", h)
                                  /\ parent' = [parent EXCEPT !.toKill = @ \ {h}]
    BY <1>4 DEF KillChild
  <2>2. /\ parent.killer = "kills" /\ parent'.killer = "kills" /\ parent'.toKill = parent.toKill \ {h}
        /\ parent'.handler = parent.handler /\ parent'.removed = parent.removed
        /\ parent'.hashes = parent.hashes
    BY <1>1, <1>4, <2>1 DEF KillChild, Parent
  <2>3. UNCHANGED <<tracker, runs, disorder>>
    BY <1>4 DEF KillChild
  <2>4. ParentInv'
    BY <1>1, <2>2, <2>3 DEF ParentInv
  <2>5. \A g \in Hashes \ disorder' : g # h => (Wanted(g)' <=> Wanted(g))
    BY <2>2 DEF Wanted
  <2>6. Turned("terminate", h)
    BY <2>1, <2>2 DEF Turned, Wanted
  <2>7. h \in Hashes
    BY <1>1, <2>1
  <2> QED
    BY <2>1, <2>3, <2>4, <2>5, <2>6, <2>7, OneAsked
<1> QED
  BY <1>2, <1>3, <1>4

\* What Track and Kill do to the runs that are not cancelled.
TracksAnother(h) == \A g \in AllHashes : g # h => tracker'[g] = tracker[g] /\ LiveRuns(g)' = LiveRuns(g)

LEMMA TrackLives ==
  ASSUME RequestsInv, NEW h \in AllHashes, Track(h)
  PROVE  /\ tracker'[h] # 0 /\ LiveRuns(h)' = LiveRuns(h) \cup {tracker'[h]}
         /\ TracksAnother(h)
<1>1. PICK n \in Nat \ {0} :
        /\ runs' \in Seq(Run) /\ tracker' \in [AllHashes -> Nat]
        /\ n \notin DOMAIN runs /\ DOMAIN runs' = DOMAIN runs \cup {n}
        /\ \A r \in DOMAIN runs : runs'[r] = runs[r]
        /\ runs'[n] = NewRun(h)
        /\ tracker'[h] = n /\ \A g \in AllHashes \ {h} : tracker'[g] = tracker[g]
  BY TrackAdds
<1>2. runs'[n].hash = h /\ runs'[n].ctx = "live"
  <2>1. NewRun(h).hash = h /\ NewRun(h).ctx = "live"
    BY DEF NewRun
  <2> QED
    BY <1>1, <2>1
<1>3. LiveRuns(h)' = LiveRuns(h) \cup {n}
  BY <1>1, <1>2 DEF LiveRuns
<1>4. \A g \in AllHashes : g # h => LiveRuns(g)' = LiveRuns(g)
  BY <1>1, <1>2 DEF LiveRuns
<1> QED
  BY <1>1, <1>3, <1>4 DEF TracksAnother

LEMMA KillLives ==
  ASSUME RequestsInv, NEW h \in AllHashes, Kill(h)
  PROVE  /\ tracker'[h] = 0 /\ LiveRuns(h)' = LiveRuns(h) \ {tracker[h]}
         /\ TracksAnother(h)
<1>1. /\ DOMAIN runs' = DOMAIN runs
      /\ \A g \in AllHashes : tracker'[g] = IF g = h THEN 0 ELSE tracker[g]
      /\ \A r \in DOMAIN runs : /\ runs'[r].hash = runs[r].hash
                                /\ runs'[r].ctx = IF r = tracker[h] THEN "done" ELSE runs[r].ctx
  BY KillCancels, ZenonT(40)
<1>2. LiveRuns(h)' = LiveRuns(h) \ {tracker[h]}
  BY <1>1, ZenonT(40) DEF LiveRuns
<1>3. ASSUME NEW g \in AllHashes, g # h PROVE LiveRuns(g)' = LiveRuns(g)
  <2>1. \A r \in DOMAIN runs : runs[r].hash = g => r # tracker[h]
    <3>1. 0 \notin DOMAIN runs
      BY SMT DEF RequestsInv, RequestsTypeOK
    <3>2. tracker[h] # 0 => runs[tracker[h]].hash = h
      BY DEF RequestsInv, TrackedRuns
    <3> QED
      BY <1>3, <3>1, <3>2
  <2> QED
    BY <1>1, <2>1, ZenonT(40) DEF LiveRuns
<1> QED
  BY <1>1, <1>2, <1>3 DEF TracksAnother

\* The numbers on their way after m, the first of q, which is about h, was taken.
TakenNumbers(q, h, m) ==
  /\ Numbered("entry")' /\ Numbered("terminate")'
  /\ m \in Numbers(q, h) /\ \A k \in Numbers(q, h) : m <= k
  /\ \A p \in {"entry", "terminate"}, g \in Hashes :
       Numbers(p, g)' = IF p = q /\ g = h THEN Numbers(p, g) \ {m} ELSE Numbers(p, g)

LEMMA TakeNumbers ==
  ASSUME RequestsTypeOK, Numbered("entry"), Numbered("terminate"), NEW q \in {"entry", "terminate"},
         queues[q] # <<>>, queues' = [queues EXCEPT ![q] = Tail(queues[q])],
         NEW x, x = Head(queues[q])
  PROVE  x.hash \in Hashes /\ x.no \in Nat /\ TakenNumbers(q, x.hash, x.no)
<1>1. queues.no \in Nat /\ \A p \in {"entry", "terminate"} : queues[p] \in Seq(Item(Hashes))
  BY DEF RequestsTypeOK, Queues
<1>2. x \in Item(Hashes)
  BY <1>1, SMT
<1>3. /\ queues'.no = queues.no /\ queues'[q] = Tail(queues[q])
      /\ \A p \in {"entry", "terminate"} : p # q => queues'[p] = queues[p]
  BY DEF RequestsTypeOK, Queues
<1>4. NumberedBelow(queues[q], queues.no)
  BY DEF Numbered
<1>5. /\ NumberedBelow(Tail(queues[q]), queues.no)
      /\ x.no \in NumbersOf(queues[q], x.hash) /\ \A k \in NumbersOf(queues[q], x.hash) : x.no <= k
      /\ \A h : NumbersOf(Tail(queues[q]), h)
                  = IF h = x.hash THEN NumbersOf(queues[q], h) \ {x.no} ELSE NumbersOf(queues[q], h)
  BY <1>1, <1>4, TailNumbers
<1>6. Numbered("entry")' /\ Numbered("terminate")'
  BY <1>3, <1>5 DEF Numbered
<1>7. ASSUME NEW p \in {"entry", "terminate"}, NEW g \in Hashes
      PROVE  Numbers(p, g)' = IF p = q /\ g = x.hash THEN Numbers(p, g) \ {x.no} ELSE Numbers(p, g)
  <2>1. CASE p = q
    <3>1. NumbersOf(Tail(queues[q]), g)
            = IF g = x.hash THEN NumbersOf(queues[q], g) \ {x.no} ELSE NumbersOf(queues[q], g)
      BY <1>5
    <3>2. NumbersOf(queues'[q], g)
            = IF g = x.hash THEN NumbersOf(queues[q], g) \ {x.no} ELSE NumbersOf(queues[q], g)
      BY <1>3, <3>1
    <3> QED
      BY <2>1, <3>2 DEF Numbers
  <2>2. CASE p # q
    <3>1. queues'[p] = queues[p]
      BY <1>3, <2>2
    <3>2. NumbersOf(queues'[p], g) = NumbersOf(queues[p], g)
      BY <3>1
    <3> QED
      BY <2>2, <3>2 DEF Numbers
  <2> QED
    BY <2>1, <2>2
<1>8. x.no \in Numbers(q, x.hash) /\ \A k \in Numbers(q, x.hash) : x.no <= k
  BY <1>5 DEF Numbers
<1> QED
  BY <1>2, <1>6, <1>7, <1>8 DEF TakenNumbers, Item

LEMMA WantedBoolean == ASSUME NEW h PROVE Wanted(h) \in BOOLEAN
BY DEF Wanted

\* The first request about h, of all that are on their way, is taken.
LEMMA FirstTaken ==
  ASSUME RequestsTypeOK, Numbered("entry"), Numbered("terminate"), NEW h \in Hashes, Pending(h),
         NEW q \in {"entry", "terminate"}, NEW m \in Nat, TakenNumbers(q, h, m),
         q = "entry" => (\A t \in Numbers("terminate", h) : ~(t < m)) /\ tracker'[h] # 0,
         q = "terminate" => (\A t \in Numbers("entry", h) : ~(t < m)) /\ tracker'[h] = 0,
         parent' = parent
  PROVE  Pending(h)' /\ (q = "entry" => tracker[h] = 0)
<1> DEFINE E == Numbers("entry", h)
           T == Numbers("terminate", h)
           now == tracker[h] # 0
           last == Wanted(h)
<1>1. E \in SUBSET Nat /\ T \in SUBSET Nat
  <2>1. queues.no \in Nat /\ queues["entry"] \in Seq(Item(Hashes)) /\ queues["terminate"] \in Seq(Item(Hashes))
    BY DEF RequestsTypeOK, Queues
  <2> QED
    BY <2>1, NumbersBelow DEF Numbered, Numbers
<1>2. now \in BOOLEAN /\ last \in BOOLEAN /\ Alternating(E, T, now, last)
  <2>1. now \in BOOLEAN
    OBVIOUS
  <2>2. last \in BOOLEAN
    BY WantedBoolean
  <2> QED
    BY <2>1, <2>2 DEF Pending
<1>3. Wanted(h)' = Wanted(h)
  BY DEF Wanted
<1>4. CASE q = "entry"
  <2>1. Numbers("entry", h)' = E \ {m} /\ Numbers("terminate", h)' = T /\ m \in E /\ \A e \in E : m <= e
    BY <1>4 DEF TakenNumbers
  <2>2. (\A t \in T : ~(t < m)) /\ tracker'[h] # 0
    BY <1>4
  <2> HIDE DEF E, T, now, last
  <2>3. ~now /\ Alternating(E \ {m}, T, TRUE, last)
    <3>1. /\ E \in SUBSET Nat /\ T \in SUBSET Nat /\ m \in E /\ now \in BOOLEAN /\ last \in BOOLEAN
          /\ \A e \in E : m <= e
      BY <1>1, <1>2, <2>1
    <3>2. \A t \in T : ~(t < m)
      BY <2>2
    <3>3. Alternating(E, T, now, last)
      BY <1>2
    <3> QED
      BY <3>1, <3>2, <3>3, AlternatingTaken
  <2>4. Alternating(E \ {m}, T, tracker'[h] # 0, Wanted(h)')
    <3>1. (tracker'[h] # 0) = TRUE
      BY <2>2
    <3> QED
      BY <1>3, <2>3, <3>1 DEF last
  <2> QED
    BY <2>1, <2>3, <2>4 DEF Pending, now
<1>5. CASE q = "terminate"
  <2>1. Numbers("entry", h)' = E /\ Numbers("terminate", h)' = T \ {m} /\ m \in T /\ \A t \in T : m <= t
    BY <1>5 DEF TakenNumbers
  <2>2. (\A e \in E : ~(e < m)) /\ tracker'[h] = 0
    BY <1>5
  <2> HIDE DEF E, T, now, last
  <2>3. (~now) \in BOOLEAN /\ (~last) \in BOOLEAN /\ Alternating(T, E, ~now, ~last)
    BY <1>2, AlternatingEnds
  <2>4. Alternating(T \ {m}, E, TRUE, ~last)
    BY <1>1, <2>1, <2>2, <2>3, AlternatingTaken
  <2>5. Alternating(E, T \ {m}, tracker'[h] # 0, Wanted(h)')
    <3>1. (tracker'[h] # 0) = FALSE
      BY <2>2
    <3>2. Alternating(E, T \ {m}, FALSE, last)
      BY <1>2, <2>4 DEF Alternating
    <3> QED
      BY <1>3, <3>1, <3>2 DEF last
  <2> QED
    BY <1>5, <2>1, <2>5 DEF Pending
<1> QED
  BY <1>4, <1>5

LEMMA TakeChildren ==
  ASSUME RequestsInv, ChildrenInv, TakeEntry \/ TakeTerminate
  PROVE  ChildrenInv'
<1>1. PICK q \in {"entry", "terminate"} : (q = "entry" /\ TakeEntry) \/ (q = "terminate" /\ TakeTerminate)
  OBVIOUS
<1>2. PICK x : x = Head(queues[q])
  OBVIOUS
<1>3. /\ parent' = parent /\ queues[q] # <<>> /\ queues' = [queues EXCEPT ![q] = Tail(queues[q])]
      /\ disorder \subseteq disorder'
  BY <1>1 DEF TakeEntry, TakeTerminate
<1>4. RequestsTypeOK /\ Numbered("entry") /\ Numbered("terminate") /\ ParentInv
  BY DEF RequestsInv, ChildrenInv
<1>5. x.hash \in Hashes /\ x.no \in Nat /\ TakenNumbers(q, x.hash, x.no)
  BY <1>2, <1>3, <1>4, TakeNumbers
<1>6. PICK h \in Hashes, m \in Nat : h = x.hash /\ m = x.no
  BY <1>5
<1>7. TakenNumbers(q, h, m) /\ h \in AllHashes
  BY <1>5, <1>6 DEF AllHashes
<1>8. TracksAnother(h) /\ (q = "entry" => tracker'[h] # 0 /\ LiveRuns(h)' = LiveRuns(h) \cup {tracker'[h]})
                       /\ (q = "terminate" => tracker'[h] = 0 /\ LiveRuns(h)' = LiveRuns(h) \ {tracker[h]})
  <2>1. CASE q = "entry"
    <3>1. Track(h)
      BY <1>1, <1>2, <1>6, <2>1 DEF TakeEntry
    <3> QED
      BY <1>7, <2>1, <3>1, TrackLives
  <2>2. CASE q = "terminate"
    <3>1. Kill(h)
      BY <1>1, <1>2, <1>6, <2>2 DEF TakeTerminate
    <3> QED
      BY <1>7, <2>2, <3>1, KillLives
  <2> QED
    BY <2>1, <2>2
<1>9. ASSUME NEW g \in Hashes \ disorder', g # h PROVE Pending(g)' /\ OneRun(g)'
  <2>1. Pending(g) /\ OneRun(g) /\ g \in AllHashes
    BY <1>3, <1>9 DEF ChildrenInv, AllHashes
  <2>2. Numbers("entry", g)' = Numbers("entry", g) /\ Numbers("terminate", g)' = Numbers("terminate", g)
    BY <1>7, <1>9 DEF TakenNumbers
  <2>3. tracker'[g] = tracker[g] /\ LiveRuns(g)' = LiveRuns(g)
    BY <1>8, <1>9, <2>1 DEF TracksAnother
  <2>4. Wanted(g)' <=> Wanted(g)
    BY <1>3 DEF Wanted
  <2> QED
    BY <2>1, <2>2, <2>3, <2>4, ChildKept
<1>10. ASSUME h \notin disorder' PROVE Pending(h)' /\ OneRun(h)'
  <2>1. Pending(h) /\ OneRun(h)
    BY <1>3, <1>10 DEF ChildrenInv
  <2>2. q = "entry" => \A t \in Numbers("terminate", h) : ~(t < m)
    <3>1. q = "entry" => ~Overtakes(x, "terminate")
      BY <1>1, <1>2, <1>6, <1>10 DEF TakeEntry
    <3> QED
      BY <1>6, <3>1 DEF Overtakes, Numbers, NumbersOf
  <2>3. q = "terminate" => \A t \in Numbers("entry", h) : ~(t < m)
    <3>1. q = "terminate" => ~Overtakes(x, "entry")
      BY <1>1, <1>2, <1>6, <1>10 DEF TakeTerminate
    <3> QED
      BY <1>6, <3>1 DEF Overtakes, Numbers, NumbersOf
  <2>4. Pending(h)' /\ (q = "entry" => tracker[h] = 0)
    BY <1>3, <1>4, <1>7, <1>8, <2>1, <2>2, <2>3, FirstTaken
  <2> QED
    BY <1>8, <2>1, <2>4 DEF OneRun
<1>11. ParentInv'
  BY <1>3, <1>4 DEF ParentInv
<1> QED
  BY <1>7, <1>9, <1>10, <1>11 DEF ChildrenInv, TakenNumbers

\* A step of a command or of a run: nothing about a child changes.
LEMMA ChildrenLeft ==
  ASSUME ChildrenInv, parent' = parent, disorder \subseteq disorder', Numbered("entry")', Numbered("terminate")',
         \A h \in Hashes : /\ Numbers("entry", h)' = Numbers("entry", h)
                           /\ Numbers("terminate", h)' = Numbers("terminate", h)
                           /\ tracker'[h] = tracker[h] /\ LiveRuns(h)' = LiveRuns(h)
  PROVE  ChildrenInv'
<1>1. \A h \in Hashes : Wanted(h)' <=> Wanted(h)
  BY DEF Wanted
<1>2. ASSUME NEW h \in Hashes \ disorder' PROVE Pending(h)' /\ OneRun(h)'
  <2>1. Pending(h) /\ OneRun(h)
    BY DEF ChildrenInv
  <2>2. /\ Numbers("entry", h)' = Numbers("entry", h) /\ Numbers("terminate", h)' = Numbers("terminate", h)
        /\ tracker'[h] = tracker[h] /\ LiveRuns(h)' = LiveRuns(h)
    OBVIOUS
  <2> QED
    BY <1>1, <2>1, <2>2, ChildKept
<1>3. ParentInv'
  BY DEF ChildrenInv, ParentInv
<1> QED
  BY <1>2, <1>3 DEF ChildrenInv

LEMMA HashesDiffer == \A h \in Hashes, c \in Commands : h # c
BY RequestsAssumption

\* Starts and stops of the command channel.
LEMMA CommandChildren ==
  ASSUME RequestsInv, ChildrenInv, CommandNext
  PROVE  ChildrenInv'
<1>0. RequestsTypeOK /\ Numbered("entry") /\ Numbered("terminate")
  BY DEF RequestsInv, ChildrenInv
<1>1. ASSUME NEW c \in Commands, RunIntegration(c) PROVE ChildrenInv'
  <2>1. SentNumbers("definition", c)
    BY <1>0, <1>1, PutNumbers DEF RunIntegration
  <2>2. /\ Numbered("entry")' /\ Numbered("terminate")'
        /\ \A h \in Hashes : /\ Numbers("entry", h)' = Numbers("entry", h)
                             /\ Numbers("terminate", h)' = Numbers("terminate", h)
    BY <2>1 DEF SentNumbers
  <2> QED
    BY <1>1, <2>2, ChildrenLeft DEF RunIntegration, LiveRuns
<1>2. ASSUME UNCHANGED <<parent, queues, disorder>>,
             \A h \in Hashes : tracker'[h] = tracker[h] /\ LiveRuns(h)' = LiveRuns(h)
      PROVE  ChildrenInv'
  BY <1>0, <1>2, ChildrenLeft DEF Numbers, Numbered
<1>3. ASSUME NEW c \in Commands, StopIntegration(c) PROVE ChildrenInv'
  BY <1>2, <1>3 DEF StopIntegration, LiveRuns
<1>4. ASSUME NEW i \in DOMAIN requests, ReadPID(i) PROVE ChildrenInv'
  <2>1. PICK r : r = requests[i].run
    OBVIOUS
  <2>2. runs' = [runs EXCEPT ![r].pid = FALSE] /\ UNCHANGED <<parent, queues, disorder, tracker>>
    BY <1>4, <2>1 DEF ReadPID
  <2>3. DOMAIN runs' = DOMAIN runs /\ \A s \in DOMAIN runs : runs'[s].hash = runs[s].hash /\ runs'[s].ctx = runs[s].ctx
    <3>1. \A s \in DOMAIN runs : runs[s] \in Run
      BY <1>0, SMT DEF RequestsTypeOK
    <3>2. runs \in [DOMAIN runs -> Run]
      BY <1>0, SMT DEF RequestsTypeOK
    <3> QED
      BY <2>2, <3>1, <3>2 DEF Run
  <2>4. \A h \in Hashes : LiveRuns(h)' = LiveRuns(h)
    BY <2>3 DEF LiveRuns
  <2> QED
    BY <1>2, <2>2, <2>4
<1>5. ASSUME NEW i \in DOMAIN requests, StopEndsWith(i) PROVE ChildrenInv'
  <2>1. UNCHANGED <<parent, queues, disorder>>
    BY <1>5 DEF StopEndsWith
  <2>2. PICK c \in Commands : c = requests[i].hash
    <3>1. requests[i] \in Handling
      BY <1>0, SMT DEF RequestsTypeOK
    <3> QED
      BY <3>1 DEF Handling
  <2>3. CASE Kill(c)
    <3>1. c \in AllHashes
      BY DEF AllHashes
    <3>2. TracksAnother(c)
      BY <2>3, <3>1, KillLives
    <3>3. \A h \in Hashes : tracker'[h] = tracker[h] /\ LiveRuns(h)' = LiveRuns(h)
      BY <3>2, HashesDiffer DEF TracksAnother, AllHashes
    <3> QED
      BY <1>2, <2>1, <3>3
  <2>4. CASE UNCHANGED <<tracker, runs>>
    BY <1>2, <2>1, <2>4 DEF LiveRuns
  <2> QED
    BY <1>5, <2>2, <2>3, <2>4 DEF StopEndsWith
<1>6. CASE TakeDefinition
  <2>1. /\ queues.definition # <<>> /\ queues' = [queues EXCEPT !.definition = Tail(queues.definition)]
        /\ disorder \subseteq disorder' /\ parent' = parent
    BY <1>6 DEF TakeDefinition
  <2>2. PICK c \in Commands : c = Head(queues.definition).hash
    <3>1. queues.definition \in Seq(Item(Commands))
      BY <1>0 DEF RequestsTypeOK, Queues
    <3>2. Head(queues.definition) \in Item(Commands)
      BY <2>1, <3>1, SMT
    <3> QED
      BY <3>2 DEF Item
  <2>3. Track(c) /\ c \in AllHashes
    BY <1>6, <2>2 DEF TakeDefinition, AllHashes
  <2>4. TracksAnother(c)
    BY <2>3, TrackLives
  <2>5. \A h \in Hashes : tracker'[h] = tracker[h] /\ LiveRuns(h)' = LiveRuns(h)
    BY <2>4, HashesDiffer DEF TracksAnother, AllHashes
  <2>6. queues'["entry"] = queues["entry"] /\ queues'["terminate"] = queues["terminate"] /\ queues'.no = queues.no
    BY <1>0, <2>1 DEF RequestsTypeOK, Queues
  <2>7. /\ Numbered("entry")' /\ Numbered("terminate")'
        /\ \A h \in Hashes : /\ Numbers("entry", h)' = Numbers("entry", h)
                             /\ Numbers("terminate", h)' = Numbers("terminate", h)
    BY <1>0, <2>6 DEF Numbered, Numbers
  <2> QED
    BY <2>1, <2>5, <2>7, ChildrenLeft
<1> QED
  BY <1>1, <1>3, <1>4, <1>5, <1>6 DEF CommandNext

\* Steps of the runs: contexts and hashes stay, and only commands are untracked.
LEMMA RunChildren ==
  ASSUME RequestsInv, ChildrenInv, RunNext
  PROVE  ChildrenInv'
<1>0. RequestsTypeOK /\ Numbered("entry") /\ Numbered("terminate")
  BY DEF RequestsInv, ChildrenInv
<1>1. UNCHANGED <<parent, queues, disorder>>
  BY DEF RunNext, RunStarts, ProcessExits, RunEndsUntracks
<1>2. PICK r \in DOMAIN runs : RunStarts(r) \/ ProcessExits(r) \/ RunEndsUntracks(r)
  BY DEF RunNext
<1>3. /\ runs \in [DOMAIN runs -> Run] /\ tracker \in [AllHashes -> Nat]
      /\ runs[r] \in Run
  BY <1>0, SMT DEF RequestsTypeOK
<1>4. \E x \in Run : /\ runs' = [runs EXCEPT ![r] = x] /\ x.hash = runs[r].hash /\ x.ctx = runs[r].ctx
  <2>1. CASE RunStarts(r)
    <3> DEFINE p == IF runs[r].ctx = "live" THEN "runs" ELSE "ended"
               x == [[runs[r] EXCEPT !.process = p] EXCEPT !.pid = (runs[r].ctx = "live")]
    <3>1. runs' = [runs EXCEPT ![r] = x]
      BY <1>3, <2>1 DEF RunStarts
    <3>2. x \in Run /\ x.hash = runs[r].hash /\ x.ctx = runs[r].ctx
      BY <1>3 DEF Run
    <3> QED
      BY <3>1, <3>2
  <2>2. CASE ProcessExits(r)
    <3> DEFINE x == [runs[r] EXCEPT !.process = "ended"]
    <3>1. runs' = [runs EXCEPT ![r] = x]
      BY <1>3, <2>2 DEF ProcessExits
    <3>2. x \in Run /\ x.hash = runs[r].hash /\ x.ctx = runs[r].ctx
      BY <1>3 DEF Run
    <3> QED
      BY <3>1, <3>2
  <2>3. CASE RunEndsUntracks(r)
    <3> DEFINE x == [runs[r] EXCEPT !.goroutine = "done"]
    <3>1. runs' = [runs EXCEPT ![r] = x]
      BY <1>3, <2>3 DEF RunEndsUntracks
    <3>2. x \in Run /\ x.hash = runs[r].hash /\ x.ctx = runs[r].ctx
      BY <1>3 DEF Run
    <3> QED
      BY <3>1, <3>2
  <2> QED
    BY <1>2, <2>1, <2>2, <2>3
<1>5. DOMAIN runs' = DOMAIN runs /\ \A s \in DOMAIN runs : runs'[s].hash = runs[s].hash /\ runs'[s].ctx = runs[s].ctx
  BY <1>3, <1>4
<1>6. \A h \in Hashes : LiveRuns(h)' = LiveRuns(h)
  BY <1>5 DEF LiveRuns
<1>7. \A h \in Hashes : tracker'[h] = tracker[h]
  <2>1. CASE tracker' = tracker
    BY <2>1
  <2>2. CASE runs[r].hash \in Commands /\ tracker' = [tracker EXCEPT ![runs[r].hash] = 0]
    BY <1>3, <2>2, HashesDiffer DEF AllHashes
  <2> QED
    BY <1>2, <2>1, <2>2 DEF RunStarts, ProcessExits, RunEndsUntracks
<1> QED
  BY <1>0, <1>1, <1>6, <1>7, ChildrenLeft DEF Numbers, Numbered

LEMMA ChildrenInvInit == RequestsInit => ChildrenInv
<1> SUFFICES ASSUME RequestsInit PROVE ChildrenInv
  OBVIOUS
<1>1. /\ parent.handler = "idle" /\ parent.killer = "runs" /\ parent.hashes = {} /\ parent.toKill = {}
      /\ queues["entry"] = <<>> /\ queues["terminate"] = <<>>
  BY DEF RequestsInit
<1>2. DOMAIN queues["entry"] = {} /\ DOMAIN queues["terminate"] = {} /\ DOMAIN runs = {}
  BY <1>1, SMT DEF RequestsInit
<1>3. \A h \in Hashes : tracker[h] = 0
  BY DEF RequestsInit, AllHashes
<1>4. ParentInv /\ Numbered("entry") /\ Numbered("terminate")
  BY <1>1, <1>2 DEF ParentInv, Numbered, NumberedBelow
<1>5. ASSUME NEW h \in Hashes PROVE Pending(h) /\ OneRun(h)
  <2>1. Numbers("entry", h) = {} /\ Numbers("terminate", h) = {} /\ LiveRuns(h) = {}
    BY <1>2 DEF Numbers, NumbersOf, LiveRuns
  <2>2. ~Wanted(h)
    BY <1>1 DEF Wanted
  <2> QED
    BY <1>3, <2>1, <2>2 DEF Pending, OneRun, Alternating
<1> QED
  BY <1>4, <1>5 DEF ChildrenInv

LEMMA ChildrenInvStep == RequestsInv /\ ChildrenInv /\ [RequestsNext]_requestVars => ChildrenInv'
<1> SUFFICES ASSUME RequestsInv, ChildrenInv, [RequestsNext]_requestVars PROVE ChildrenInv'
  OBVIOUS
<1>1. CASE ConfigNext
  BY <1>1, HandlerChildren, AddChild, TerminateChild, KillerChildren, TakeChildren DEF ConfigNext
<1>2. CASE CommandNext
  BY <1>2, CommandChildren
<1>3. CASE RunNext
  BY <1>3, RunChildren
<1>4. CASE UNCHANGED requestVars
  <2>1. /\ UNCHANGED <<parent, disorder, queues>>
        /\ \A h \in Hashes : tracker'[h] = tracker[h] /\ LiveRuns(h)' = LiveRuns(h)
    BY <1>4 DEF requestVars, LiveRuns
  <2> QED
    BY <2>1, ChildrenLeft DEF Numbers, Numbered, ChildrenInv
<1> QED
  BY <1>1, <1>2, <1>3, <1>4 DEF RequestsNext

\* No request is on its way, and nothing is being asked for: what runs is what is wanted.
LEMMA ChildrenAtRest == RequestsInv /\ ChildrenInv => ChildrenFollow
<1> SUFFICES ASSUME RequestsInv, ChildrenInv, parent.handler = "idle", parent.killer # "kills",
                    queues.entry = <<>>, queues.terminate = <<>>, NEW h \in Hashes \ disorder
             PROVE  LiveRuns(h) = IF h \in parent.hashes /\ parent.killer = "runs" THEN {tracker[h]} ELSE {}
  BY DEF ChildrenFollow
<1>1. DOMAIN queues["entry"] = {} /\ DOMAIN queues["terminate"] = {}
  BY SMT
<1>2. Numbers("entry", h) = {} /\ Numbers("terminate", h) = {}
  BY <1>1 DEF Numbers, NumbersOf
<1>3. Pending(h) /\ OneRun(h) /\ ParentInv
  BY DEF ChildrenInv
<1>4. tracker[h] # 0 <=> Wanted(h)
  BY <1>2, <1>3 DEF Pending, Alternating
<1>5. Wanted(h) <=> h \in parent.hashes /\ parent.killer = "runs"
  <2>1. CASE parent.killer = "runs"
    BY <2>1 DEF Wanted
  <2>2. CASE parent.killer # "runs"
    <3>1. parent.killer = "ended"
      BY <2>2 DEF RequestsInv, RequestsTypeOK, Parent
    <3>2. parent.toKill = {}
      BY <1>3, <3>1 DEF ParentInv
    <3> QED
      BY <2>2, <3>2 DEF Wanted
  <2> QED
    BY <2>1, <2>2
<1> QED
  BY <1>3, <1>4, <1>5 DEF OneRun

\* At rest the children of an integration that run are the ones of the configuration it
\* printed last (configrequest.NewHandleFn, cache.ApplyConfig, killChildren), one run
\* each, which is tracked, for every set of definitions, every configuration and every
\* length of the queues; hashes whose requests overtook each other, failed or came twice
\* are left out.
THEOREM ChildrenAreConfigured == RequestsSpec => []ChildrenFollow
<1>1. RequestsInit => RequestsInv /\ ChildrenInv
  BY RequestsInvInit, ChildrenInvInit
<1>2. (RequestsInv /\ ChildrenInv) /\ [RequestsNext]_requestVars => (RequestsInv /\ ChildrenInv)'
  BY RequestsInvStep, ChildrenInvStep
<1>3. RequestsInv /\ ChildrenInv => ChildrenFollow
  BY ChildrenAtRest
<1> QED
  BY <1>1, <1>2, <1>3, PTL DEF RequestsSpec

=============================================================================
