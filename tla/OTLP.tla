-------------------------------- MODULE OTLP --------------------------------
(***************************************************************************)
(* What the exporter computes: the validation of its configuration, the    *)
(* conversion of a batch to OTLP, the backoff of the retrier and what the  *)
(* retrier makes of the results of the calls.  One step takes an input;    *)
(* the items of a batch are then converted one by one.                     *)
(***************************************************************************)
EXTENDS Integers, Sequences, Stages

CONSTANTS
  DurationBits,     \* width of a time.Duration (64 in the code)
  MaxBatch,         \* bound of the items in a batch
  MaxInterval,      \* bound of the intervals
  MaxAttempt        \* bound of the attempts

VARIABLE otlp       \* the input at hand

-----------------------------------------------------------------------------
(* Configuration                                                            *)

\* Of the configuration what Validate looks at; 0 stands for any value that is
\* not positive, a multiplier of 1 for any that is not above 1.
Config ==
  [Enabled : BOOLEAN, Endpoints : 0..1, Protocol : {"grpc", "http", "other"},
   Size : 0..1, Timeout : 0..1,
   Retry : [Enabled : BOOLEAN, MaxAttempts : 0..1, Multiplier : 1..2],
   CircuitBreaker : [Enabled : BOOLEAN, FailureThreshold : 0..1, ResetTimeout : 0..1,
                     HalfOpenSuccessThreshold : 0..1]]

Validate(c) ==
  c.Enabled =>
    /\ c.Endpoints > 0 /\ c.Protocol \in {"grpc", "http"}
    /\ c.Size > 0 /\ c.Timeout > 0
    /\ c.Retry.Enabled => c.Retry.MaxAttempts > 0 /\ c.Retry.Multiplier > 1
    /\ c.CircuitBreaker.Enabled =>
         /\ c.CircuitBreaker.FailureThreshold > 0 /\ c.CircuitBreaker.ResetTimeout > 0
         /\ c.CircuitBreaker.HalfOpenSuccessThreshold > 0

\* Create: NewTicker panics unless the timeout is positive, whether the exporter
\* is enabled or not.
Create(c) ==
  CASE ~Validate(c) -> "error"
    [] c.Timeout <= 0 -> "panic"
    [] OTHER -> "exporter"

-----------------------------------------------------------------------------
(* Conversion                                                               *)

Kinds == {"gauge", "counter", "histogram", "summary", "bad metric", "log", "span", "unknown"}

MetricTypes == [gauge |-> "gauge", counter |-> "sum", histogram |-> "histogram",
                summary |-> "summary"]

\* The type of the converted metric; an unsupported one is an error.
ConvertMetric(kind) == IF kind \in DOMAIN MetricTypes THEN MetricTypes[kind] ELSE "error"

\* The lists of converted items, each item by its place in the batch.
NoItems == [metrics |-> <<>>, logs |-> <<>>, spans |-> <<>>]

\* The n-th item goes to the list of its kind; one that cannot be converted, or
\* is of no known type, is left out.
Converted(out, n, kind) ==
  CASE kind = "log" -> [out EXCEPT !.logs = Append(@, n)]
    [] kind = "span" -> [out EXCEPT !.spans = Append(@, n)]
    [] kind \notin {"log", "span", "unknown"} /\ ConvertMetric(kind) # "error" ->
         [out EXCEPT !.metrics = Append(@, n)]
    [] OTHER -> out

\* Mutant: an item that cannot be converted ends the batch.
MutProcessItem ==
  LET kind == otlp.items[otlp.next] IN
  /\ otlp.op = "batch" /\ otlp.next <= Len(otlp.items)
  /\ otlp' = [otlp EXCEPT !.out = Converted(@, otlp.next, kind),
                          !.next = IF kind = "bad metric" THEN Len(otlp.items) + 1 ELSE @ + 1]

\* One turn of the loop of processGRPCBatch and of processHTTPBatch.
ProcessItem ==
  /\ otlp.op = "batch" /\ otlp.next <= Len(otlp.items)
  /\ otlp' = [otlp EXCEPT !.out = Converted(@, otlp.next, otlp.items[otlp.next]),
                          !.next = @ + 1]

-----------------------------------------------------------------------------
(* Backoff                                                                  *)

\* n as a signed number of DurationBits.
Wrap(n) ==
  LET m == n % 2^DurationBits IN IF m >= 2^(DurationBits - 1) THEN m - 2^DurationBits ELSE m

\* The interval of nextBackoff before jitter; the multiplier is num / den and its
\* power is cut to an integer.
Interval(c, attempt) ==
  IF attempt <= 0 THEN 0
  ELSE LET b == Wrap(c.InitialInterval * ((c.num ^ (attempt - 1)) \div (c.den ^ (attempt - 1))))
       IN  IF b > c.MaxInterval THEN c.MaxInterval ELSE b

\* nextBackoff with a jitter of 80 to 120 percent.
nextBackoff(c, attempt, percent) == (Interval(c, attempt) * percent) \div 100

\* What Do makes of the results of fn (TRUE: no error) when the context is
\* cancelled in the wait after attempt cancel (0: never): the number of calls of
\* fn and what Do returns.
Do(enabled, results, cancel) ==
  LET good == {k \in DOMAIN results : results[k]}
      last == IF good = {} THEN Len(results) ELSE CHOOSE k \in good : \A j \in good : k <= j
  IN  IF ~enabled THEN [calls |-> 1, ret |-> IF results[1] THEN "nil" ELSE "err"]
      ELSE IF cancel \in 1..(last - 1) THEN [calls |-> cancel, ret |-> "cancelled"]
      ELSE [calls |-> last, ret |-> IF good # {} THEN "nil" ELSE "err"]

-----------------------------------------------------------------------------

RetryConfig ==
  {c \in [InitialInterval : 1..MaxInterval, MaxInterval : 1..MaxInterval, num : 3..4, den : 2..3] :
     c.num > c.den}

OTLPInit == otlp = [op |-> "none"]

OTLPInput ==
  /\ otlp.op = "none"
  /\ \/ \E c \in Config : otlp' = [op |-> "create", c |-> c]
     \/ \E n \in 0..MaxBatch : \E items \in [1..n -> Kinds] :
          otlp' = [op |-> "batch", items |-> items, next |-> 1, out |-> NoItems]
     \/ \E c \in RetryConfig, a \in 0..MaxAttempt : otlp' = [op |-> "backoff", c |-> c, attempt |-> a]
     \/ \E n \in 1..3 : \E e \in BOOLEAN, r \in [1..n -> BOOLEAN], cancel \in 0..3 :
          otlp' = [op |-> "do", enabled |-> e, results |-> r, cancel |-> cancel]

OTLPNext == OTLPInput \/ ProcessItem

OTLPSpec == OTLPInit /\ [][OTLPNext]_otlp

-----------------------------------------------------------------------------
(* Properties                                                               *)

\* The list has exactly the items of these kinds, once each and in the order in
\* which they came.
Exactly(list, items, kinds) ==
  Increasing(list) /\ Range(list) = {n \in DOMAIN items : items[n] \in kinds}

\* One bad item costs nothing but itself: when the loop is through the batch every
\* other item is in the list of its kind, once and in order.
OnlyBadDropped ==
  otlp.op = "batch" /\ otlp.next > Len(otlp.items) =>
    /\ Exactly(otlp.out.metrics, otlp.items, {"gauge", "counter", "histogram", "summary"})
    /\ Exactly(otlp.out.logs, otlp.items, {"log"})
    /\ Exactly(otlp.out.spans, otlp.items, {"span"})

=============================================================================
