------------------------------ MODULE MCParts ------------------------------
(***************************************************************************)
(* Parts of the agent that share nothing: the conversion to OTLP with its  *)
(* retries, the heap of the sampler, the sketches, and the supervisor of   *)
(* the log forwarder.  Each behaviour moves one of them.                   *)
(***************************************************************************)
EXTENDS OTLP, TopNSampler, DDSketch, LogSupervisor

CONSTANTS p1, p2, p3, hostA, hostB, hostLong

VARIABLE part    \* the one that moves

mcvars == <<part, otlp, topnVars, sketchVars, supervisorVars>>

mcPIDs == {p1, p2, p3}
mcSymmetry == Permutations(mcPIDs)

\* With these a second equal update is not enough to track the top.
mcUsages == {<<1, 1>>, <<0, 2>>}

\* Of the names of the host: all known; localhost for the full name; and another
\* short name without a full one.
mcAnswers ==
  {[short |-> hostA, full |-> hostLong, internal |-> hostLong],
   [short |-> hostA, full |-> Localhost, internal |-> hostLong],
   [short |-> hostB, full |-> NoName, internal |-> Localhost]}

\* What an initial state leaves open is chosen where it matters.
mcSupervisorInit ==
  SupervisorInit /\ (part = "logs" \/ sources.names = CHOOSE n \in mcAnswers : TRUE)

mcInit ==
  /\ part \in {"otlp", "topn", "sketch", "logs"}
  /\ OTLPInit /\ NewTopNSampler /\ SketchInit /\ mcSupervisorInit

mcNext ==
  /\ UNCHANGED part
  /\ \/ part = "otlp" /\ OTLPNext /\ UNCHANGED <<topnVars, sketchVars, supervisorVars>>
     \/ part = "topn" /\ TopNNext /\ UNCHANGED <<otlp, sketchVars, supervisorVars>>
     \/ part = "sketch" /\ SketchNext /\ UNCHANGED <<otlp, topnVars, supervisorVars>>
     \/ part = "logs" /\ SupervisorNext /\ UNCHANGED <<otlp, topnVars, sketchVars>>

mcSpec == mcInit /\ [][mcNext]_mcvars
=============================================================================
