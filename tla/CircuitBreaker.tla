--------------------------- MODULE CircuitBreaker ---------------------------
(***************************************************************************)
(* The circuit breaker of the watchdog, of which the exporter has a copy:  *)
(* what each method makes of a breaker b with configuration cfg.  Every    *)
(* method runs under the breaker's lock.  Of the times only one fact is    *)
(* kept: is openUntil over?  Listeners are told in goroutines of their own *)
(* and cannot act on the breaker; they are left out.                       *)
(***************************************************************************)
EXTENDS Naturals

CONSTANT MaxThreshold     \* bound of the two thresholds

ASSUME ThresholdAssumption == MaxThreshold \in Nat \ {0}

CircuitState == {"closed", "open", "half-open"}

\* Validate requires positive thresholds of an enabled breaker.
CircuitBreakerConfig ==
  [Enabled : BOOLEAN, FailureThreshold : 1..MaxThreshold,
   HalfOpenSuccessThreshold : 1..MaxThreshold]

CircuitBreakers ==
  [state : CircuitState, failures : 0..MaxThreshold,
   successesInHalfOpen : 0..MaxThreshold, expired : BOOLEAN]

NewCircuitBreaker ==
  [state |-> "closed", failures |-> 0, successesInHalfOpen |-> 0, expired |-> FALSE]

toOpen(b) ==
  IF b.state # "open" THEN [b EXCEPT !.state = "open", !.expired = FALSE] ELSE b

toHalfOpen(b) ==
  IF b.state # "half-open"
    THEN [b EXCEPT !.state = "half-open", !.successesInHalfOpen = 0]
    ELSE b

toClosed(b) ==
  IF b.state # "closed"
    THEN [b EXCEPT !.state = "closed", !.failures = 0, !.successesInHalfOpen = 0]
    ELSE b

\* Does AllowOperation let an operation pass ...
AllowOperation(cfg, b) ==
  \/ ~cfg.Enabled
  \/ b.state = "closed"
  \/ b.state = "open" /\ b.expired
  \/ b.state = "half-open" /\ b.successesInHalfOpen = 0

\* ... and what it leaves behind.
AfterAllow(cfg, b) ==
  IF cfg.Enabled /\ b.state = "open" /\ b.expired THEN toHalfOpen(b) ELSE b

RecordSuccess(cfg, b) ==
  CASE cfg.Enabled /\ b.state = "closed" -> [b EXCEPT !.failures = 0]
    [] cfg.Enabled /\ b.state = "half-open" ->
         LET n == b.successesInHalfOpen + 1
             c == [b EXCEPT !.successesInHalfOpen = n]
         IN  IF n >= cfg.HalfOpenSuccessThreshold THEN toClosed(c) ELSE c
    [] OTHER -> b

RecordFailure(cfg, b) ==
  CASE cfg.Enabled /\ b.state = "closed" ->
         LET n == b.failures + 1
             c == [b EXCEPT !.failures = n]
         IN  IF n >= cfg.FailureThreshold THEN toOpen(c) ELSE c
    [] cfg.Enabled /\ b.state = "half-open" -> toOpen(b)
    [] OTHER -> b

Reset(b) == toClosed(b)

\* The reset timeout passes.
Expire(b) == [b EXCEPT !.expired = b.state = "open"]

=============================================================================
