---------------------------- MODULE EventSender ----------------------------
(***************************************************************************)
(* metricsIngestSender: samplers queue events without blocking, one        *)
(* goroutine packs them into batches bounded in bytes and in number,       *)
(* another posts the batches one after the other.  The sender may be       *)
(* stopped at any moment and started again.  The wait for the agent's ID   *)
(* is left out: the agent calls Stop once its context ended, which ends    *)
(* that wait.                                                              *)
(***************************************************************************)
EXTENDS Stages

CONSTANTS
  MaxEvents,     \* events are 1..MaxEvents, in the order they are queued
  Size,          \* bytes of each event
  MaxBytes,      \* maxMetricsBatchSizeBytes
  MaxCount,      \* MAX_EVENT_BATCH_COUNT
  EventCap,      \* capacity of eventQueue
  BatchCap       \* capacity of batchQueue

Events == 1..MaxEvents

ASSUME SizeAssumption == Size \in [Events -> Nat \ {0}]
ASSUME BoundsAssumption == {MaxBytes, MaxCount, EventCap, BatchCap} \subseteq Nat \ {0}

VARIABLES
  next,          \* the next event a sampler produces
  eventQueue,    \* events waiting to be put into a batch
  batch, held,   \* locals of accumulateBatches: the batch, and the event that
                 \* waits until the full batch before it is queued
  batchQueue,    \* batches ready to be sent
  posting,       \* the batch of the request in progress
  main,          \* the agent: "stopped", "running", "stopping"
  acc, snd, rep, \* what the goroutines do
  delivered,     \* events the backend accepted, in order
  refused,       \* events QueueEvent returned an error for
  failed,        \* events of batches whose post failed
  dropped        \* events in the hands of the accumulator when it stopped

queues == <<eventQueue, batchQueue>>
ledger == <<delivered, refused, failed, dropped>>
vars == <<next, eventQueue, batch, held, batchQueue, posting, main, acc, snd, rep,
          ledger>>

Bytes(b) == FoldFunction(LAMBDA e, n : Size[e] + n, 0, b)

Init ==
  /\ next = 1
  /\ eventQueue = <<>>
  /\ batch = <<>>
  /\ held = <<>>
  /\ batchQueue = <<>>
  /\ posting = <<>>
  /\ main = "stopped"
  /\ acc = "done" /\ snd = "done" /\ rep = "done"
  /\ delivered = <<>>
  /\ refused = {} /\ failed = {} /\ dropped = {}

-----------------------------------------------------------------------------
(* The agent starts and stops the sender                                    *)

Start ==
  /\ main = "stopped"
  /\ main' = "running"
  /\ acc' = "select" /\ snd' = "select" /\ rep' = "select"
  /\ batch' = <<>>
  /\ UNCHANGED <<next, queues, held, posting, ledger>>

\* Stop closes the channel, ...
Stop ==
  /\ main = "running"
  /\ main' = "stopping"
  /\ UNCHANGED <<next, queues, batch, held, posting, acc, snd, rep, ledger>>

\* ... waits for the three goroutines and returns.
StopReturns ==
  /\ main = "stopping"
  /\ acc = "done" /\ snd = "done" /\ rep = "done"
  /\ main' = "stopped"
  /\ UNCHANGED <<next, queues, batch, held, posting, acc, snd, rep, ledger>>

ReporterStops ==
  /\ main = "stopping" /\ rep = "select"
  /\ rep' = "done"
  /\ UNCHANGED <<next, queues, batch, held, posting, main, acc, snd, ledger>>

-----------------------------------------------------------------------------
(* QueueEvent never blocks: it refuses an event that is too large or finds  *)
(* the queue full.                                                          *)

Fits(e) == Size[e] <= MaxBytes /\ Len(eventQueue) < EventCap

QueueEvent ==
  /\ next \in Events
  /\ next' = next + 1
  /\ IF Fits(next)
       THEN eventQueue' = Append(eventQueue, next) /\ UNCHANGED refused
       ELSE refused' = refused \cup {next} /\ UNCHANGED eventQueue
  /\ UNCHANGED <<batch, held, batchQueue, posting, main, acc, snd, rep, delivered, failed,
                 dropped>>

-----------------------------------------------------------------------------
(* accumulateBatches                                                        *)

BatchFull(e) == Bytes(batch) + Size[e] > MaxBytes \/ Len(batch) = MaxCount

TakeEvent ==
  LET e == Head(eventQueue) IN
  /\ acc = "select" /\ eventQueue # <<>>
  /\ eventQueue' = Tail(eventQueue)
  /\ IF BatchFull(e)
       THEN acc' = "push" /\ held' = <<e>> /\ UNCHANGED batch
       ELSE batch' = Append(batch, e) /\ UNCHANGED <<acc, held>>
  /\ UNCHANGED <<next, batchQueue, posting, main, snd, rep, ledger>>

\* Mutant: the timer only serves a full batch.
MutBatchTimer ==
  /\ acc = "select" /\ Len(batch) = MaxCount
  /\ acc' = "push"
  /\ UNCHANGED <<next, queues, batch, held, posting, main, snd, rep, ledger>>

\* The timer fires with events in the batch.
BatchTimer ==
  /\ acc = "select" /\ batch # <<>>
  /\ acc' = "push"
  /\ UNCHANGED <<next, queues, batch, held, posting, main, snd, rep, ledger>>

\* Mutant: the event that did not fit is forgotten.
MutPushBatch ==
  /\ acc = "push" /\ Len(batchQueue) < BatchCap
  /\ batchQueue' = Append(batchQueue, batch)
  /\ batch' = <<>>
  /\ held' = <<>>
  /\ acc' = "select"
  /\ UNCHANGED <<next, eventQueue, posting, main, snd, rep, ledger>>

PushBatch ==
  /\ acc = "push" /\ Len(batchQueue) < BatchCap
  /\ batchQueue' = Append(batchQueue, batch)
  /\ batch' = held
  /\ held' = <<>>
  /\ acc' = "select"
  /\ UNCHANGED <<next, eventQueue, posting, main, snd, rep, ledger>>

\* Mutant: a break instead of the return, which only leaves the select.
MutAccumulatorStops ==
  /\ main = "stopping" /\ acc \in {"select", "push"}
  /\ acc' = "select"
  /\ batch' = batch \o held
  /\ held' = <<>>
  /\ UNCHANGED <<next, queues, posting, main, snd, rep, ledger>>

\* The batch is a local variable: what is in it is gone.
AccumulatorStops ==
  /\ main = "stopping" /\ acc \in {"select", "push"}
  /\ acc' = "done"
  /\ dropped' = dropped \cup Range(batch) \cup Range(held)
  /\ batch' = <<>>
  /\ held' = <<>>
  /\ UNCHANGED <<next, queues, posting, main, snd, rep, delivered, refused, failed>>

-----------------------------------------------------------------------------
(* sendBatches                                                              *)

TakeBatch ==
  /\ snd = "select" /\ batchQueue # <<>>
  /\ posting' = Head(batchQueue)
  /\ batchQueue' = Tail(batchQueue)
  /\ snd' = "post"
  /\ UNCHANGED <<next, eventQueue, batch, held, main, acc, rep, ledger>>

PostSucceeds ==
  /\ snd = "post"
  /\ delivered' = delivered \o posting
  /\ posting' = <<>>
  /\ snd' = "select"
  /\ UNCHANGED <<next, queues, batch, held, main, acc, rep, refused, failed, dropped>>

\* Mutant: the events of a batch that failed are queued again.
MutPostFails(wait) ==
  /\ snd = "post" /\ Len(eventQueue) + Len(posting) <= EventCap
  /\ eventQueue' = eventQueue \o posting
  /\ posting' = <<>>
  /\ snd' = IF wait THEN "backoff" ELSE "select"
  /\ UNCHANGED <<next, batchQueue, batch, held, main, acc, rep, ledger>>

\* The batch is given up, with or without a wait before the next one.
PostFails(wait) ==
  /\ snd = "post"
  /\ failed' = failed \cup Range(posting)
  /\ posting' = <<>>
  /\ snd' = IF wait THEN "backoff" ELSE "select"
  /\ UNCHANGED <<next, queues, batch, held, main, acc, rep, delivered, refused, dropped>>

\* Ended by the timer or by the stop channel.
BackoffEnds ==
  /\ snd = "backoff"
  /\ snd' = "select"
  /\ UNCHANGED <<next, queues, batch, held, posting, main, acc, rep, ledger>>

SenderStops ==
  /\ main = "stopping" /\ snd = "select"
  /\ snd' = "done"
  /\ UNCHANGED <<next, queues, batch, held, posting, main, acc, rep, ledger>>

-----------------------------------------------------------------------------
Accumulator == TakeEvent \/ BatchTimer \/ PushBatch \/ AccumulatorStops
Sender ==
  \/ TakeBatch
  \/ PostSucceeds
  \/ \E wait \in BOOLEAN : PostFails(wait)
  \/ BackoffEnds
  \/ SenderStops

Next ==
  \/ Start \/ Stop \/ StopReturns \/ ReporterStops
  \/ QueueEvent
  \/ Accumulator
  \/ Sender

Spec == Init /\ [][Next]_vars

-----------------------------------------------------------------------------
(* Properties                                                               *)

Accumulated == Range(batch) \cup Range(held) \cup Range(eventQueue)
OnTheWay == Range(posting) \cup AllOf(batchQueue) \cup Accumulated
GivenUp == refused \cup failed \cup dropped

\* The sender keeps the promise of Delivery.
Promise == INSTANCE Delivery WITH
  MaxArrival <- MaxCount, offered <- next - 1, pending <- OnTheWay, arrived <- delivered,
  gone <- GivenUp

\* Whatever samplers, the goroutines, failed posts, Stop and Start do, accepted events
\* arrive at most once, in order and in requests of at most MaxCount, or are given up.
KeepsPromise == Promise!DeliverySpec

\* Along the way of the events each is behind all that were queued before it.
OldestFirst ==
  /\ \A s \in {eventQueue, held, batch, posting, delivered} \cup Range(batchQueue) : Increasing(s)
  /\ \A k, l \in DOMAIN batchQueue : k < l => Before(Range(batchQueue[k]), Range(batchQueue[l]))
  /\ Before(Range(delivered), OnTheWay)
  /\ Before(Range(posting), AllOf(batchQueue) \cup Accumulated)
  /\ Before(AllOf(batchQueue), Accumulated)
  /\ Before(Range(batch), Range(held) \cup Range(eventQueue))
  /\ Before(Range(held), Range(eventQueue))

\* An event that QueueEvent accepted is in exactly one place: on its way,
\* delivered, in a post that failed or in the batch of a stopped accumulator.
\* It never overtakes another one.
EveryEventOnce ==
  /\ OldestFirst
  /\ (Range(delivered) \cup OnTheWay) \cap GivenUp = {}
  /\ 1..(next - 1) = Range(delivered) \cup OnTheWay \cup GivenUp

\* Stop returns, also with a full batch queue and a sender that waits.
StopEnds == main = "stopping" ~> main = "stopped"

\* While the sender runs, an accepted event is delivered or its post fails.
EventsSettle ==
  \A e \in Events :
    e \in Range(eventQueue) ~> (e \in Range(delivered) \cup failed \/ main # "running")
=============================================================================
