------------------------------ MODULE Exporter ------------------------------
(***************************************************************************)
(* The OTLP exporter: callers of Export, the ticker goroutine of the batch *)
(* processor and Shutdown, with the exporter's copy of the circuit         *)
(* breaker.  An item is a number and a kind; the processor gets a batch,   *)
(* converts what it can and answers with an error or none.  A caller       *)
(* reads the state without the lock, asks the breaker, adds to the batch   *)
(* and reports to the breaker in separate steps.                           *)
(***************************************************************************)
EXTENDS Stages, FiniteSets, CircuitBreaker

CONSTANTS
  Exporters,        \* goroutines that call Export
  BatchSize,        \* config.Batch.Size
  CircuitConfig,    \* config.CircuitBreaker
  MaxItems,         \* bound: items exported
  MaxErrors         \* bound: results of the processor that are errors

ASSUME ExporterAssumption ==
  /\ {BatchSize, MaxItems} \subseteq Nat \ {0}
  /\ CircuitConfig \in CircuitBreakerConfig
  /\ IsFiniteSet(Exporters)

VARIABLES
  exporterState,    \* "running", "shutting down", "stopped"
  exportBreaker,
  currentBatch,     \* Items of the current batch
  exportPc,         \* per caller: "idle", "allow", "add", "process", "failed", "ok"
  exportItem,       \* per caller: the item it exports
  inHand,           \* per caller, "ticker" and "shutdown": the batch it processes
  tickerPc,         \* "select", "process", "gone"
  shutdownPc,       \* "none", "closed", "flush", "process", "returned", "panic"
  processed,        \* batches the processor has seen, in the order they were taken
  totals,           \* totalExports and totalErrors
  nItems, nErrors

exporterVars == <<exporterState, exportBreaker, currentBatch, exportPc, exportItem, inHand,
                  tickerPc, shutdownPc, processed, totals, nItems, nErrors>>

ExporterState == {"running", "shutting down", "stopped"}
Processors == Exporters \cup {"ticker", "shutdown"}

NewBaseExporter ==
  /\ exporterState = "running"
  /\ exportBreaker = NewCircuitBreaker
  /\ currentBatch = <<>>
  /\ exportPc = [c \in Exporters |-> "idle"] /\ exportItem = [c \in Exporters |-> 0]
  /\ inHand = [p \in Processors |-> <<>>]
  /\ tickerPc = "select" /\ shutdownPc = "none"
  /\ processed = <<>>
  /\ totals = [exports |-> 0, errors |-> 0]
  /\ nItems = 0 /\ nErrors = 0

-----------------------------------------------------------------------------
(* The breaker of the exporter                                              *)

AllowRequest(b) == AllowOperation(CircuitConfig, b)
ExportSucceeded(b) == RecordSuccess(CircuitConfig, b)
ExportFailed(b) == RecordFailure(CircuitConfig, b)

-----------------------------------------------------------------------------
(* Export                                                                   *)

Goto(c, to) == exportPc' = [exportPc EXCEPT ![c] = to]

\* An exporter that does not run refuses the item; otherwise ...
Export(c) ==
  /\ exportPc[c] = "idle" /\ nItems < MaxItems
  /\ nItems' = nItems + 1 /\ exportItem' = [exportItem EXCEPT ![c] = nItems + 1]
  /\ Goto(c, IF exporterState = "running" THEN "allow" ELSE "idle")
  /\ UNCHANGED <<exporterState, exportBreaker, currentBatch, inHand, tickerPc, shutdownPc,
                 processed, totals, nErrors>>

\* ... the breaker is asked, ...
ExportAllowed(c) ==
  /\ exportPc[c] = "allow"
  /\ exportBreaker' = AfterAllow(CircuitConfig, exportBreaker)
  /\ IF AllowRequest(exportBreaker)
       THEN Goto(c, "add") /\ UNCHANGED totals
       ELSE Goto(c, "idle") /\ totals' = [totals EXCEPT !.errors = @ + 1]
  /\ UNCHANGED <<exporterState, currentBatch, exportItem, inHand, tickerPc, shutdownPc,
                 processed, nItems, nErrors>>

IsFull(items) == Len(items) >= BatchSize

\* Mutant: the batch that was taken stays the current one.
MutTake(p, items) ==
  /\ inHand' = [inHand EXCEPT ![p] = items] /\ currentBatch' = items
  /\ processed' = Append(processed, items)

\* The batch is replaced under the lock; from now on p alone has it.
Take(p, items) ==
  /\ inHand' = [inHand EXCEPT ![p] = items] /\ currentBatch' = <<>>
  /\ processed' = Append(processed, items)

\* ... the item is added; whoever fills the batch processes it, ...
AddItem(c) ==
  LET items == Append(currentBatch, exportItem[c]) IN
  /\ exportPc[c] = "add"
  /\ IF IsFull(items)
       THEN Take(c, items) /\ Goto(c, "process")
       ELSE currentBatch' = items /\ Goto(c, "ok") /\ UNCHANGED <<inHand, processed>>
  /\ UNCHANGED <<exporterState, exportBreaker, exportItem, tickerPc, shutdownPc, totals,
                 nItems, nErrors>>

\* The processor returns to p with an error or without.
Processor(p, err) ==
  /\ err => nErrors < MaxErrors
  /\ nErrors' = IF err THEN nErrors + 1 ELSE nErrors
  /\ inHand' = [inHand EXCEPT ![p] = <<>>]

AddReturns(c, err) ==
  /\ exportPc[c] = "process"
  /\ Processor(c, err)
  /\ Goto(c, IF err THEN "failed" ELSE "ok")
  /\ UNCHANGED <<exporterState, exportBreaker, currentBatch, exportItem, tickerPc, shutdownPc,
                 processed, totals, nItems>>

\* ... and the result goes to the counters and to the breaker.
RecordExport(c) ==
  /\ exportPc[c] \in {"ok", "failed"}
  /\ Goto(c, "idle")
  /\ IF exportPc[c] = "ok"
       THEN /\ totals' = [totals EXCEPT !.exports = @ + 1]
            /\ exportBreaker' = ExportSucceeded(exportBreaker)
       ELSE /\ totals' = [totals EXCEPT !.errors = @ + 1]
            /\ exportBreaker' = ExportFailed(exportBreaker)
  /\ UNCHANGED <<exporterState, currentBatch, exportItem, inHand, tickerPc, shutdownPc,
                 processed, nItems, nErrors>>

\* The reset timeout of an open breaker passes.
ResetTimeoutPasses ==
  /\ exportBreaker.state = "open" /\ ~exportBreaker.expired
  /\ exportBreaker' = Expire(exportBreaker)
  /\ UNCHANGED <<exporterState, currentBatch, exportPc, exportItem, inHand, tickerPc,
                 shutdownPc, processed, totals, nItems, nErrors>>

-----------------------------------------------------------------------------
(* The batch processor                                                      *)

\* Flush leaves an empty batch alone.
Flush(p, then) == currentBatch # <<>> /\ Take(p, currentBatch) /\ then

\* processBatchesByTime: the ticker fires, ...
TickerFlush ==
  /\ tickerPc = "select" /\ Flush("ticker", tickerPc' = "process")
  /\ UNCHANGED <<exporterState, exportBreaker, exportPc, exportItem, shutdownPc, totals,
                 nItems, nErrors>>

\* ... an error of the processor is ignored, ...
TickerReturns(err) ==
  /\ tickerPc = "process" /\ tickerPc' = "select"
  /\ Processor("ticker", err)
  /\ UNCHANGED <<exporterState, exportBreaker, currentBatch, exportPc, exportItem, shutdownPc,
                 processed, totals, nItems>>

\* ... and a closed done ends the goroutine.
TickerEnds ==
  /\ tickerPc = "select" /\ shutdownPc = "closed" /\ tickerPc' = "gone"
  /\ UNCHANGED <<exporterState, exportBreaker, currentBatch, exportPc, exportItem, inHand,
                 shutdownPc, processed, totals, nItems, nErrors>>

\* Shutdown closes done, ...
Shutdown ==
  /\ shutdownPc = "none" /\ shutdownPc' = "closed"
  /\ exporterState' = "shutting down"
  /\ UNCHANGED <<exportBreaker, currentBatch, exportPc, exportItem, inHand, tickerPc, processed,
                 totals, nItems, nErrors>>

\* (a second Shutdown, at any time, closes it again: a panic, which ends the process)
ShutdownTwice ==
  /\ shutdownPc # "none" /\ shutdownPc' = "panic"
  /\ UNCHANGED <<exporterState, exportBreaker, currentBatch, exportPc, exportItem, inHand,
                 tickerPc, processed, totals, nItems, nErrors>>

\* The wg.Wait of Shutdown.
TickerGone == shutdownPc = "closed" /\ tickerPc = "gone"

\* ... waits for the ticker goroutine, flushes ...
ShutdownFlush ==
  /\ TickerGone
  /\ IF currentBatch = <<>>
       THEN /\ shutdownPc' = "returned" /\ exporterState' = "stopped"
            /\ UNCHANGED <<currentBatch, inHand, processed>>
       ELSE Flush("shutdown", shutdownPc' = "process") /\ UNCHANGED exporterState
  /\ UNCHANGED <<exportBreaker, exportPc, exportItem, tickerPc, totals, nItems, nErrors>>

\* ... and returns what the processor says.
ShutdownReturns(err) ==
  /\ shutdownPc = "process" /\ shutdownPc' = "returned"
  /\ Processor("shutdown", err) /\ exporterState' = "stopped"
  /\ UNCHANGED <<exportBreaker, currentBatch, exportPc, exportItem, tickerPc, processed, totals,
                 nItems>>

ExporterNext ==
  /\ shutdownPc # "panic"
  /\ \/ \E c \in Exporters :
          \/ Export(c) \/ ExportAllowed(c) \/ AddItem(c) \/ RecordExport(c)
          \/ \E err \in BOOLEAN : AddReturns(c, err)
     \/ ResetTimeoutPasses
     \/ TickerFlush \/ TickerEnds
     \/ \E err \in BOOLEAN : TickerReturns(err) \/ ShutdownReturns(err)
     \/ Shutdown \/ ShutdownTwice \/ ShutdownFlush

ExporterSpec == NewBaseExporter /\ [][ExporterNext]_exporterVars

-----------------------------------------------------------------------------
(* Properties                                                               *)

Batched == AllOf(processed) \cup Range(currentBatch)

\* An item is in one batch at most, and there once, whoever takes the batch (the
\* ticker, a caller, Shutdown); no more exports are counted than items are in batches.
ItemsOnce ==
  /\ Apart(processed) /\ IsInjective(currentBatch)
  /\ AllOf(processed) \cap Range(currentBatch) = {}
  /\ totals.exports <= Cardinality(Batched)

=============================================================================
