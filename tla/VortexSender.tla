---------------------------- MODULE VortexSender ----------------------------
(***************************************************************************)
(* vortexEventSender: events of the agent go through one channel, those of *)
(* remote entities to register workers that are to find their IDs.         *)
(* accumulateBatches both fills and drains the channel of the events with  *)
(* ID.  Every Start begins a new accumulator, sender and set of workers,   *)
(* named by its number; Stop waits for the goroutines that have entered    *)
(* the wait group.  A select evaluates the field stopChannel once, when it *)
(* is entered: each goroutine remembers the channel it waits on.           *)
(*                                                                         *)
(* localEntityMap is left out: it starts empty, only flushRegister adds to *)
(* it, and flushRegister always returns before (see the workers).  The     *)
(* wait for the agent's ID is left out too: the agent calls Stop once its  *)
(* context ended, which ends that wait.                                    *)
(***************************************************************************)
EXTENDS Stages, EntityKeys

CONSTANTS
  Workers,            \* registerWorkers of one Start
  VEvents,            \* events are 1..VEvents, in the order they are queued
  MaxStarts,          \* calls of Start
  QueueCap,           \* capacity of the three event channels
  VBatchCap,          \* capacity of batchQueue
  VCount              \* events in a batch

VortexEvents == 1..VEvents
VStarts == 1..MaxStarts
WorkerIDs == VStarts \X Workers

ASSUME VortexBoundsAssumption ==
  {VEvents, MaxStarts, QueueCap, VBatchCap, VCount} \subseteq Nat \ {0}

VARIABLES
  vNext, owner,          \* next event; the entity of each event queued
  vQueue, eventsWithoutID, eventsWithID, vBatches,
  starts,                \* number of the last Start
  stopChannel, closed,   \* number of the channel in the field, 0 for nil; is
                         \* the channel of the last Start closed?
  vMain,                 \* "stopped", "running", "stopping"
  vAcc, vSnd, worker,    \* what each goroutine does ...
  accStop, sndStop, workerStop,  \* ... and the channel its select waits on
  cancelled,             \* Starts whose accumulator cancelled its workers
  vBatch, vHeld, vPosting, event,  \* the events each goroutine holds
  vDelivered, lost

input == <<vNext, owner>>
control == <<starts, stopChannel, closed, vMain>>
accumulator == <<vAcc, accStop, vBatch, vHeld>>
sender == <<vSnd, sndStop, vPosting, vDelivered>>
workers == <<worker, workerStop, event>>
vortexVars == <<input, vQueue, eventsWithoutID, eventsWithID, vBatches, control,
                accumulator, sender, workers, cancelled, lost>>

VortexInit ==
  /\ vNext = 1 /\ owner = [e \in VortexEvents |-> Agent]
  /\ vQueue = <<>> /\ eventsWithoutID = <<>> /\ eventsWithID = <<>> /\ vBatches = <<>>
  /\ starts = 0 /\ stopChannel = 0 /\ closed = FALSE /\ vMain = "stopped"
  /\ vAcc = [i \in VStarts |-> "none"] /\ vSnd = [i \in VStarts |-> "none"]
  /\ worker = [w \in WorkerIDs |-> "none"]
  /\ accStop = [i \in VStarts |-> 0] /\ sndStop = [i \in VStarts |-> 0]
  /\ workerStop = [w \in WorkerIDs |-> 0]
  /\ cancelled = {}
  /\ vBatch = [i \in VStarts |-> <<>>] /\ vHeld = [i \in VStarts |-> <<>>]
  /\ vPosting = [i \in VStarts |-> <<>>] /\ event = [w \in WorkerIDs |-> <<>>]
  /\ vDelivered = <<>> /\ lost = {}

\* Can <-c proceed?  Stop closes the channel of the last Start.
Closed(c) == c # 0 /\ (c < starts \/ closed)

-----------------------------------------------------------------------------
(* Start and Stop                                                           *)

VortexStart ==
  /\ stopChannel = 0 /\ starts < MaxStarts
  /\ starts' = starts + 1
  /\ stopChannel' = starts'
  /\ closed' = FALSE
  /\ vMain' = "running"
  /\ vAcc' = [vAcc EXCEPT ![starts'] = "spawned"]
  /\ vSnd' = [vSnd EXCEPT ![starts'] = "spawned"]
  /\ UNCHANGED <<input, vQueue, eventsWithoutID, eventsWithID, vBatches, accStop, vBatch,
                 vHeld, sndStop, vPosting, vDelivered, workers, cancelled, lost>>

\* The goroutines enter the wait group when they run.  The accumulator also
\* starts the workers, which are not in the group.
EnterAccumulator(i) ==
  /\ vAcc[i] = "spawned"
  /\ vAcc' = [vAcc EXCEPT ![i] = "select"]
  /\ accStop' = [accStop EXCEPT ![i] = stopChannel]
  /\ worker' = [w \in WorkerIDs |-> IF w[1] = i THEN "select" ELSE worker[w]]
  /\ UNCHANGED <<input, vQueue, eventsWithoutID, eventsWithID, vBatches, control, vBatch,
                 vHeld, sender, workerStop, event, cancelled, lost>>

EnterSender(i) ==
  /\ vSnd[i] = "spawned"
  /\ vSnd' = [vSnd EXCEPT ![i] = "select"]
  /\ sndStop' = [sndStop EXCEPT ![i] = stopChannel]
  /\ UNCHANGED <<input, vQueue, eventsWithoutID, eventsWithID, vBatches, control,
                 accumulator, vPosting, vDelivered, workers, cancelled, lost>>

VortexStop ==
  /\ vMain = "running"
  /\ vMain' = "stopping"
  /\ closed' = TRUE
  /\ UNCHANGED <<input, vQueue, eventsWithoutID, eventsWithID, vBatches, starts,
                 stopChannel, accumulator, sender, workers, cancelled, lost>>

\* internalRoutineWaits is zero.
GroupEmpty == \A i \in VStarts : {vAcc[i], vSnd[i]} \subseteq {"none", "spawned", "done"}

VortexStopReturns ==
  /\ vMain = "stopping"
  /\ GroupEmpty
  /\ vMain' = "stopped"
  /\ stopChannel' = 0
  /\ UNCHANGED <<input, vQueue, eventsWithoutID, eventsWithID, vBatches, starts, closed,
                 accumulator, sender, workers, cancelled, lost>>

-----------------------------------------------------------------------------
Room == Len(vQueue) < QueueCap

\* Without blocking; an event too large for any batch is refused like one that
\* finds the queue full.
VortexQueueEvent(e) ==
  /\ vNext \in VortexEvents
  /\ vNext' = vNext + 1
  /\ owner' = [owner EXCEPT ![vNext] = e]
  /\ \/ Room /\ vQueue' = Append(vQueue, vNext) /\ UNCHANGED lost
     \/ lost' = lost \cup {vNext} /\ UNCHANGED vQueue
  /\ UNCHANGED <<eventsWithoutID, eventsWithID, vBatches, control, accumulator, sender,
                 workers, cancelled>>

-----------------------------------------------------------------------------
(* accumulateBatches of Start i                                             *)

\* The accumulator enters its next select.
Enter(i, state) ==
  /\ vAcc' = [vAcc EXCEPT ![i] = state]
  /\ accStop' = [accStop EXCEPT ![i] = stopChannel]

Route(e) == IF owner[e] = Agent THEN "giveID" ELSE "giveNoID"

VTakeEvent(i) ==
  /\ vAcc[i] = "select" /\ vQueue # <<>>
  /\ vQueue' = Tail(vQueue)
  /\ vHeld' = [vHeld EXCEPT ![i] = <<Head(vQueue)>>]
  /\ Enter(i, Route(Head(vQueue)))
  /\ UNCHANGED <<input, eventsWithoutID, eventsWithID, vBatches, control, vBatch, sender,
                 workers, cancelled, lost>>

GiveID(i) ==
  /\ vAcc[i] = "giveID" /\ Len(eventsWithID) < QueueCap
  /\ eventsWithID' = eventsWithID \o vHeld[i]
  /\ vHeld' = [vHeld EXCEPT ![i] = <<>>]
  /\ Enter(i, "select")
  /\ UNCHANGED <<input, vQueue, eventsWithoutID, vBatches, control, vBatch, sender,
                 workers, cancelled, lost>>

GiveNoID(i) ==
  /\ vAcc[i] = "giveNoID" /\ Len(eventsWithoutID) < QueueCap
  /\ eventsWithoutID' = eventsWithoutID \o vHeld[i]
  /\ vHeld' = [vHeld EXCEPT ![i] = <<>>]
  /\ Enter(i, "select")
  /\ UNCHANGED <<input, vQueue, eventsWithID, vBatches, control, vBatch, sender, workers,
                 cancelled, lost>>

\* An event with ID joins the batch; ...
TakeWithID(i) ==
  /\ vAcc[i] = "select" /\ eventsWithID # <<>>
  /\ Len(vBatch[i]) < VCount
  /\ eventsWithID' = Tail(eventsWithID)
  /\ vBatch' = [vBatch EXCEPT ![i] = Append(@, Head(eventsWithID))]
  /\ Enter(i, "select")
  /\ UNCHANGED <<input, vQueue, eventsWithoutID, vBatches, control, vHeld, sender,
                 workers, cancelled, lost>>

\* ... a batch that is full, or too large for the event, is queued first.
TakeWithIDFull(i) ==
  /\ vAcc[i] = "select" /\ eventsWithID # <<>>
  /\ vBatch[i] # <<>>
  /\ eventsWithID' = Tail(eventsWithID)
  /\ vHeld' = [vHeld EXCEPT ![i] = <<Head(eventsWithID)>>]
  /\ Enter(i, "push")
  /\ UNCHANGED <<input, vQueue, eventsWithoutID, vBatches, control, vBatch, sender,
                 workers, cancelled, lost>>

VBatchTimer(i) ==
  /\ vAcc[i] = "select"
  /\ Enter(i, IF vBatch[i] = <<>> THEN "select" ELSE "push")
  /\ UNCHANGED <<input, vQueue, eventsWithoutID, eventsWithID, vBatches, control, vBatch,
                 vHeld, sender, workers, cancelled, lost>>

\* Mutant: the batch is kept after it was queued.
MutVPushBatch(i) ==
  /\ vAcc[i] = "push" /\ Len(vBatches) < VBatchCap
  /\ vBatches' = Append(vBatches, vBatch[i])
  /\ vBatch' = [vBatch EXCEPT ![i] = @ \o vHeld[i]]
  /\ vHeld' = [vHeld EXCEPT ![i] = <<>>]
  /\ Enter(i, "select")
  /\ UNCHANGED <<input, vQueue, eventsWithoutID, eventsWithID, control, sender, workers,
                 cancelled, lost>>

VPushBatch(i) ==
  /\ vAcc[i] = "push" /\ Len(vBatches) < VBatchCap
  /\ vBatches' = Append(vBatches, vBatch[i])
  /\ vBatch' = [vBatch EXCEPT ![i] = vHeld[i]]
  /\ vHeld' = [vHeld EXCEPT ![i] = <<>>]
  /\ Enter(i, "select")
  /\ UNCHANGED <<input, vQueue, eventsWithoutID, eventsWithID, control, sender, workers,
                 cancelled, lost>>

Stopped(i) == vAcc[i] \in {"select", "giveID", "giveNoID", "push"} /\ Closed(accStop[i])

\* The events it holds are gone.  Only the select of the loop cancels the workers.
VAccumulatorStops(i) ==
  /\ Stopped(i)
  /\ vAcc' = [vAcc EXCEPT ![i] = "done"]
  /\ cancelled' = IF vAcc[i] = "select" THEN cancelled \cup {i} ELSE cancelled
  /\ lost' = lost \cup Range(vBatch[i]) \cup Range(vHeld[i])
  /\ vBatch' = [vBatch EXCEPT ![i] = <<>>]
  /\ vHeld' = [vHeld EXCEPT ![i] = <<>>]
  /\ UNCHANGED <<input, vQueue, eventsWithoutID, eventsWithID, vBatches, control,
                 accStop, sender, workers>>

-----------------------------------------------------------------------------
(* entityIDResolverWorker.  Its slice starts with registerBatchSize empty   *)
(* elements: the first event already makes it full, and the worker offers   *)
(* it on a channel that only the worker itself reads.  The ticker and the   *)
(* end of the context flush a slice of empty elements, on which             *)
(* flushRegister returns at once.                                           *)

WorkerTakes(w) ==
  /\ worker[w] = "select" /\ eventsWithoutID # <<>>
  /\ event' = [event EXCEPT ![w] = <<Head(eventsWithoutID)>>]
  /\ eventsWithoutID' = Tail(eventsWithoutID)
  /\ worker' = [worker EXCEPT ![w] = "offer"]
  /\ workerStop' = [workerStop EXCEPT ![w] = stopChannel]
  /\ UNCHANGED <<input, vQueue, eventsWithID, vBatches, control, accumulator, sender,
                 cancelled, lost>>

WorkerCancelled(w) ==
  /\ worker[w] = "select" /\ w[1] \in cancelled
  /\ worker' = [worker EXCEPT ![w] = "gone"]
  /\ UNCHANGED <<input, vQueue, eventsWithoutID, eventsWithID, vBatches, control,
                 accumulator, sender, workerStop, event, cancelled, lost>>

WorkerStops(w) ==
  /\ worker[w] = "offer" /\ Closed(workerStop[w])
  /\ worker' = [worker EXCEPT ![w] = "gone"]
  /\ lost' = lost \cup Range(event[w])
  /\ event' = [event EXCEPT ![w] = <<>>]
  /\ UNCHANGED <<input, vQueue, eventsWithoutID, eventsWithID, vBatches, control,
                 accumulator, sender, workerStop, cancelled>>

-----------------------------------------------------------------------------
(* sendBatches of Start i                                                   *)

VTakeBatch(i) ==
  /\ vSnd[i] = "select" /\ vBatches # <<>>
  /\ vPosting' = [vPosting EXCEPT ![i] = Head(vBatches)]
  /\ vBatches' = Tail(vBatches)
  /\ vSnd' = [vSnd EXCEPT ![i] = "post"]
  /\ UNCHANGED <<input, vQueue, eventsWithoutID, eventsWithID, control, accumulator,
                 sndStop, vDelivered, workers, cancelled, lost>>

\* The post ends; the next select is the one of the loop or of backoff.
VPostSucceeds(i) ==
  /\ vSnd[i] = "post"
  /\ vDelivered' = vDelivered \o vPosting[i]
  /\ vPosting' = [vPosting EXCEPT ![i] = <<>>]
  /\ vSnd' = [vSnd EXCEPT ![i] = "select"]
  /\ sndStop' = [sndStop EXCEPT ![i] = stopChannel]
  /\ UNCHANGED <<input, vQueue, eventsWithoutID, eventsWithID, vBatches, control,
                 accumulator, workers, cancelled, lost>>

VPostFails(i) ==
  /\ vSnd[i] = "post"
  /\ lost' = lost \cup Range(vPosting[i])
  /\ vPosting' = [vPosting EXCEPT ![i] = <<>>]
  /\ \E state \in {"select", "backoff"} : vSnd' = [vSnd EXCEPT ![i] = state]
  /\ sndStop' = [sndStop EXCEPT ![i] = stopChannel]
  /\ UNCHANGED <<input, vQueue, eventsWithoutID, eventsWithID, vBatches, control,
                 accumulator, vDelivered, workers, cancelled>>

\* Ended by the timer or by the stop channel.
VBackoffEnds(i) ==
  /\ vSnd[i] = "backoff"
  /\ vSnd' = [vSnd EXCEPT ![i] = "select"]
  /\ sndStop' = [sndStop EXCEPT ![i] = stopChannel]
  /\ UNCHANGED <<input, vQueue, eventsWithoutID, eventsWithID, vBatches, control,
                 accumulator, vPosting, vDelivered, workers, cancelled, lost>>

VSenderStops(i) ==
  /\ vSnd[i] = "select" /\ Closed(sndStop[i])
  /\ vSnd' = [vSnd EXCEPT ![i] = "done"]
  /\ UNCHANGED <<input, vQueue, eventsWithoutID, eventsWithID, vBatches, control,
                 accumulator, sndStop, vPosting, vDelivered, workers, cancelled, lost>>

-----------------------------------------------------------------------------
Accumulating(i) ==
  \/ VTakeEvent(i) \/ GiveID(i) \/ GiveNoID(i)
  \/ TakeWithID(i) \/ TakeWithIDFull(i) \/ VBatchTimer(i) \/ VPushBatch(i)
Posting(i) == VTakeBatch(i) \/ VPostSucceeds(i) \/ VPostFails(i) \/ VBackoffEnds(i)
Working(w) == WorkerTakes(w) \/ WorkerCancelled(w) \/ WorkerStops(w)

VortexNext ==
  \/ VortexStart \/ VortexStop \/ VortexStopReturns
  \/ \E e \in Entities : VortexQueueEvent(e)
  \/ \E i \in VStarts :
       \/ EnterAccumulator(i) \/ EnterSender(i)
       \/ Accumulating(i) \/ VAccumulatorStops(i)
       \/ Posting(i) \/ VSenderStops(i)
  \/ \E w \in WorkerIDs : Working(w)

VortexSpec == VortexInit /\ [][VortexNext]_vortexVars

-----------------------------------------------------------------------------
(* Properties                                                               *)

\* Where the events are.
At ==
  [queue |-> Range(vQueue), withoutID |-> Range(eventsWithoutID), withID |-> Range(eventsWithID),
   held |-> AllOf(vHeld), batch |-> AllOf(vBatch), batches |-> AllOf(vBatches),
   posting |-> AllOf(vPosting), worker |-> AllOf(event), delivered |-> Range(vDelivered),
   lost |-> lost]

\* The sets at[n] are disjoint and make up S.
Partition(at, S) ==
  /\ UNION Range(at) = S
  /\ \A m, n \in DOMAIN at : m = n \/ at[m] \cap at[n] = {}

\* An event is in exactly one place: in a channel, in the hands of one
\* goroutine, delivered or lost, whatever goroutines an early Stop left behind.
VortexEventOnce ==
  /\ \A s \in {vQueue, eventsWithoutID, eventsWithID, vDelivered} : IsInjective(s)
  /\ Apart(vHeld) /\ Apart(vBatch) /\ Apart(vBatches) /\ Apart(vPosting) /\ Apart(event)
  /\ Partition(At, 1..(vNext - 1))

=============================================================================
