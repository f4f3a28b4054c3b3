------------------------------ MODULE MCEvents ------------------------------
(* The event sender and the agent's identity on small instances; part is the *)
(* one that moves.                                                           *)
EXTENDS EventSender, AgentID

VARIABLE part

mcvars == <<part, vars, idVars>>

\* Events of one or two bytes, the last of which is larger than a batch.
Sizes == [e \in Events |-> IF e = MaxEvents THEN 4 ELSE 1 + (e % 2)]

MCInit == part \in {"events", "identity"} /\ Init /\ IDInit

Of(p, A) == part = p /\ A /\ UNCHANGED part
OfEvents(A) == Of("events", A) /\ UNCHANGED idVars
OfIdentity(A) == Of("identity", A) /\ UNCHANGED vars

MCNext == OfEvents(Next) \/ OfIdentity(IDNext)

\* Every goroutine keeps running, the timer of a batch fires, requests end, and
\* a select does not ignore a ready case for ever; a call of SetAgentIdentity
\* goes on to its end.
MCFairSpec ==
  /\ MCInit /\ [][MCNext]_mcvars
  /\ WF_mcvars(OfEvents(StopReturns))
  /\ WF_mcvars(OfEvents(ReporterStops))
  /\ WF_mcvars(OfEvents(TakeEvent \/ PushBatch))
  /\ SF_mcvars(OfEvents(BatchTimer))
  /\ WF_mcvars(OfEvents(Sender))
  /\ SF_mcvars(OfEvents(AccumulatorStops))
  /\ SF_mcvars(OfEvents(SenderStops))
  /\ \A c \in Callers : WF_mcvars(OfIdentity(Caller(c)))
  /\ WF_mcvars(OfIdentity(Setter))
=============================================================================
