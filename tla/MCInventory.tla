----------------------------- MODULE MCInventory -----------------------------
(* The two inventory pipelines on small instances: the asynchronous handler  *)
(* with its patcher, and the loop of the agent.  part says which of them     *)
(* runs; "cleaning" is the patcher whose removal period ends, "restarts" the *)
(* loop of an agent that is started again.                                   *)
EXTENDS EntityPatcher, InventoryLoop, TLC

CONSTANTS MaxOutputs, MaxFaults, MaxLoopFaults, r1, localFolder, agentFolder, f1

VARIABLES part, faults

mcvars == <<vars, loopVars, part, faults>>

\* The sanitized keys.
Sanitize == (Agent :> agentFolder) @@ (r1 :> f1)

MCInit == Init /\ LoopInit /\ faults = 0 /\ part \in {"patcher", "cleaning", "loop", "restarts"}

Step(p, A) == part = p /\ A /\ UNCHANGED <<part, faults>>
Fault(p, A) ==
  /\ part = p /\ A /\ faults' = faults + 1 /\ UNCHANGED part
  /\ faults < IF p \in {"patcher", "cleaning"} THEN MaxFaults ELSE MaxLoopFaults

Patchers == {"patcher", "cleaning"}

Patcher ==
  /\ \E p \in Patchers :
       \/ Step(p, Output /\ last < MaxOutputs)
       \/ Step(p, Listener)
       \/ Step(p, Reap)
       \/ Step(p, Sending)
       \/ Fault(p, Failure)
  /\ UNCHANGED loopVars

Cleaning == Step("cleaning", PeriodEnds) /\ UNCHANGED loopVars

Loops == {"loop", "restarts"}

Loop ==
  /\ \E p \in Loops :
       \/ Step(p, LoopOutput /\ newest < MaxOutputs)
       \/ Step(p, Silent)
       \/ Step(p, Active)
       \/ Step(p, LoopReap)
       \/ Step(p, InitialReapTimeout)
       \/ Step(p, SendInventory)
       \/ Fault(p, SendFails)
  /\ UNCHANGED vars

LoopFault ==
  /\ \/ Fault("loop", StoreFails)
     \/ Fault("loop", Removal)
     \/ Fault("restarts", LoopRestart)
  /\ UNCHANGED vars

MCNext == Patcher \/ Cleaning \/ Loop \/ LoopFault

MCSpec == MCInit /\ [][MCNext]_mcvars

\* The select of each goroutine serves every channel and ticker again and again;
\* a reap of the patcher is possible only between two sends.
Fairness ==
  /\ \A p \in Patchers :
       /\ WF_mcvars(Step(p, Listener) /\ UNCHANGED loopVars)
       /\ SF_mcvars(Step(p, Reap) /\ UNCHANGED loopVars)
       /\ WF_mcvars(Step(p, Sending) /\ UNCHANGED loopVars)
  /\ WF_mcvars(Cleaning)
  /\ \A p \in Loops :
       /\ WF_mcvars(Step(p, LoopReap) /\ UNCHANGED vars)
       /\ WF_mcvars(Step(p, InitialReapTimeout) /\ UNCHANGED vars)
       /\ WF_mcvars(Step(p, SendInventory) /\ UNCHANGED vars)

FairSpec == MCSpec /\ Fairness

-----------------------------------------------------------------------------
(* Properties                                                               *)

\* Until the first removal, the backend gets the newest saved document of a
\* registered entity, unless the agent restarts without registering the entity.
SavedIsSent ==
  \A e \in Entities :
    (part = "patcher" /\ e \in Registered /\ sent[e] < src[EntityFolder(e)])
      ~> (sent[e] >= src[EntityFolder(e)] \/ e \notin Registered)

\* A folder that belongs to no registered entity, left by an earlier execution
\* or by a removal that failed, is deleted by a later removal.
OrphansGo ==
  \A f \in Folders :
    (part = "cleaning" /\ f \in OnDisk /\ \A e \in Registered : EntityFolder(e) # f)
      ~> (f \notin OnDisk \/ \E e \in Registered : EntityFolder(e) = f)

\* Deltas of the local entity that were reaped but not sent before a restart
\* are sent after it, without new plugin output (handleInventory).
LeftoversSent ==
  (part = "restarts" /\ submitted[Agent] < copies[Agent]) ~> (submitted[Agent] >= copies[Agent])

\* A stored document is sent even when some plugin never reports, unless it is
\* removed (readyToReap, removeOutdatedEntities).
StoredIsSent ==
  \A e \in Entities :
    (part = "loop" /\ e \in Inventoried /\ inventories[e].needsReaping /\ submitted[e] < documents[e])
      ~> (submitted[e] >= documents[e])
=============================================================================
