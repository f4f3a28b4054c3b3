--------------------------- MODULE MCIntegrations ---------------------------
(***************************************************************************)
(* What runs integrations: the manager of the configuration files, the     *)
(* executions of a runner, the requests of the configuration protocol and  *)
(* of the command channel, and the channel itself.  Each behaviour moves   *)
(* one of them.                                                            *)
(***************************************************************************)
EXTENDS IntegrationManager, IntegrationRunner, IntegrationRequests, CommandChannel

CONSTANTS g, u, x, y, bad

VARIABLE part    \* the one that moves

mcvars == <<part, managerVars, runnerVars, requestVars, channelVars>>

mcAgentFeatures == [f \in {g} |-> FALSE]
mcUserFeatures == [f \in {u} |-> TRUE]
mcParentConfigs == {<<>>, <<x>>, <<y, y>>, <<y, bad>>}

mcDefinitions ==
  {[single |-> FALSE, timeout |-> TRUE, template |-> FALSE],
   [single |-> FALSE, timeout |-> FALSE, template |-> TRUE],
   [single |-> TRUE, timeout |-> TRUE, template |-> TRUE]}

\* The values that an initial state leaves open are chosen where they matter.
mcManagerInit ==
  ManagerInit /\ (part = "manager" \/ cfgFiles = [p \in Paths |-> Absent])
mcRunnerInit ==
  NewRunner /\ (part = "runner" \/ definition = CHOOSE d \in mcDefinitions : TRUE)

mcInit ==
  /\ part \in {"manager", "runner", "config", "command", "channel"}
  /\ mcManagerInit /\ mcRunnerInit /\ RequestsInit /\ ChannelInit

Runner(A) ==
  /\ part = "runner" /\ A
  /\ UNCHANGED <<part, managerVars, requestVars, channelVars>>
Channel(A) ==
  /\ part = "channel" /\ A
  /\ UNCHANGED <<part, managerVars, runnerVars, requestVars>>

mcNext ==
  \/ /\ part = "manager" /\ ManagerNext
     /\ UNCHANGED <<part, runnerVars, requestVars, channelVars>>
  \/ Runner(RunnerNext)
  \/ /\ \/ part = "config" /\ (ConfigNext \/ RunNext)
        \/ part = "command" /\ (CommandNext \/ RunNext)
     /\ UNCHANGED <<part, managerVars, runnerVars, channelVars>>
  \/ Channel(ChannelNext)

\* The goroutines of an execution, of its runner and of the command channel go on.
mcSpec ==
  /\ mcInit /\ [][mcNext]_mcvars
  /\ \A e \in Ids : WF_mcvars(Runner(ExecutionStep(e)))
  /\ WF_mcvars(Runner(RunnerStep))
  /\ WF_mcvars(Channel(ServiceStep))
=============================================================================
