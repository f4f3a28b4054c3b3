---------------------------- MODULE InventoryLoop ----------------------------
(***************************************************************************)
(* The inventory goroutine of an agent without the asynchronous handler:   *)
(* one select loop that stores plugin output, reaps once the plugins have  *)
(* reported or the initial wait is over, sends, and removes the entities   *)
(* that were not active in the last period.  Every case of the select runs *)
(* to its end before the next one.                                         *)
(***************************************************************************)
EXTENDS Naturals, FiniteSets, EntityKeys

CONSTANTS
  Plugins,      \* plugins registered with the agent (distinctPlugins)
  Integrations, \* other sources of inventory that share the channel
  LoopFaults    \* what may happen: see AllLoopFaults

ASSUME SourcesAssumption == Plugins \cap Integrations = {}
ASSUME PluginsAssumption == IsFiniteSet(Plugins \cup Integrations)

\* store: a document is not written; process: a submission fails; remove: the
\* removal period ends; undeleted: a folder is not deleted; restart: the agent
\* starts again.
AllLoopFaults == {"store", "process", "remove", "undeleted", "restart"}

ASSUME LoopFaultsAssumption == LoopFaults \subseteq AllLoopFaults

VARIABLES
  inventories,    \* registered entities: needsReaping, needsCleanup
  reported,       \* reportedEntities of the current period
  idsReporting,   \* sources that have reported
  readyToReap, waited,   \* is reaping allowed; has the initial wait ended?
  documents, copies,     \* version of the documents and of the cached copies of
                  \* each entity, 0 when there are none
  submitted,      \* version the backend holds
  newest          \* version of the newest plugin output

loopVars == <<inventories, reported, idsReporting, readyToReap, waited, documents, copies,
              submitted, newest>>

Inventoried == DOMAIN inventories
NewInventory == [needsReaping |-> FALSE, needsCleanup |-> FALSE]

\* Mutant: nothing is registered before the first plugin output.
MutStartLoop(inv) == inv = [e \in {} |-> NewInventory]

\* The local entity is registered before the loop begins.
StartLoop(inv) == inv = [e \in {Agent} |-> NewInventory]

LoopInit ==
  /\ StartLoop(inventories)
  /\ reported = {}
  /\ idsReporting = {}
  /\ readyToReap = FALSE
  /\ waited = FALSE
  /\ documents = [e \in Entities |-> 0]
  /\ copies = [e \in Entities |-> 0]
  /\ submitted = [e \in Entities |-> 0]
  /\ newest = 0

-----------------------------------------------------------------------------
ActiveEntity(e) ==
  /\ reported' = reported \cup {e}
  /\ UNCHANGED <<inventories, idsReporting, readyToReap, waited, documents, copies, submitted, newest>>

NotApplicable(id) ==
  /\ idsReporting' = idsReporting \cup {id}
  /\ UNCHANGED <<inventories, reported, readyToReap, waited, documents, copies, submitted, newest>>

Marked(e) ==
  [(IF e \in Inventoried THEN inventories[e] ELSE NewInventory) EXCEPT !.needsReaping = TRUE]

\* Registers the entity when it is new, stores the document, marks it.
HandleOutput(id, e) ==
  /\ idsReporting' = idsReporting \cup {id}
  /\ newest' = newest + 1
  /\ documents' = [documents EXCEPT ![e] = newest']
  /\ inventories' =
       [x \in Inventoried \cup {e} |-> IF x = e THEN Marked(e) ELSE inventories[x]]
  /\ UNCHANGED <<reported, readyToReap, waited, copies, submitted>>

\* The error is logged; the entity is marked all the same.
OutputNotStored(id, e) ==
  /\ "store" \in LoopFaults
  /\ idsReporting' = idsReporting \cup {id}
  /\ inventories' =
       [x \in Inventoried \cup {e} |-> IF x = e THEN Marked(e) ELSE inventories[x]]
  /\ UNCHANGED <<reported, readyToReap, waited, documents, copies, submitted, newest>>

\* The number of sources that reported is compared with that of the plugins.
PluginsReported == Cardinality(Plugins) <= Cardinality(idsReporting)

Reaps(e, ready) == ready /\ inventories[e].needsReaping

\* first is the entity the loop over the map happens to visit first.
ReapTimer(first) ==
  LET ready == readyToReap \/ PluginsReported IN
  /\ first \in Inventoried
  /\ readyToReap' = ready
  /\ copies' = [e \in Entities |->
       IF e \in Inventoried /\ Reaps(e, ready) /\ documents[e] # 0 THEN documents[e] ELSE copies[e]]
  /\ inventories' = [e \in Inventoried |->
       IF Reaps(e, ready) THEN NewInventory
       ELSE [inventories[e] EXCEPT !.needsCleanup = @ \/ (ready /\ ~readyToReap /\ e = first)]]
  /\ UNCHANGED <<reported, idsReporting, waited, documents, submitted, newest>>

\* Mutant: the timer fires without effect.
MutInitialReapTimeout ==
  /\ ~waited
  /\ waited' = TRUE
  /\ UNCHANGED <<inventories, reported, idsReporting, readyToReap, documents, copies, submitted, newest>>

InitialReapTimeout ==
  /\ ~waited
  /\ waited' = TRUE
  /\ readyToReap' = TRUE
  /\ inventories' = [e \in Inventoried |->
       [inventories[e] EXCEPT !.needsCleanup = @ \/ ~readyToReap]]
  /\ UNCHANGED <<reported, idsReporting, documents, copies, submitted, newest>>

Submit(S) ==
  submitted' = [e \in Entities |-> IF e \in S /\ copies[e] # 0 THEN copies[e] ELSE submitted[e]]

SendInventory ==
  /\ Submit(Inventoried)
  /\ UNCHANGED <<inventories, reported, idsReporting, readyToReap, waited, documents, copies, newest>>

\* The first error ends the round; S was sent before it.
SendInventoryFails(S) ==
  /\ "process" \in LoopFaults
  /\ S \in SUBSET Inventoried \ {Inventoried}
  /\ Submit(S)
  /\ UNCHANGED <<inventories, reported, idsReporting, readyToReap, waited, documents, copies, newest>>

Inactive == Inventoried \ ({Agent} \cup reported)

\* Folders without a registered entity go too.  The folder of the agent is not
\* named after its key, so that it is one of them.  Errors are logged: what could
\* not be deleted stays, without its registration.
RemoveOutdatedEntities(undeletedSrc, undeletedCache) ==
  LET kept == Inventoried \ ({Agent} \cup Inactive) IN
  /\ "remove" \in LoopFaults
  /\ reported' = {}
  /\ inventories' = [e \in Inventoried \ Inactive |-> inventories[e]]
  /\ documents' = [e \in Entities |-> IF e \in kept \cup undeletedSrc THEN documents[e] ELSE 0]
  /\ copies' =
       [e \in Entities |-> IF e \in kept \cup undeletedCache THEN copies[e] ELSE 0]
  /\ UNCHANGED <<idsReporting, readyToReap, waited, submitted, newest>>

LoopRestart ==
  /\ "restart" \in LoopFaults
  /\ StartLoop(inventories')
  /\ reported' = {}
  /\ idsReporting' = {}
  /\ readyToReap' = FALSE
  /\ waited' = FALSE
  /\ UNCHANGED <<documents, copies, submitted, newest>>

-----------------------------------------------------------------------------
LoopOutput == \E id \in Plugins \cup Integrations, e \in Entities : HandleOutput(id, e)
StoreFails == \E id \in Plugins \cup Integrations, e \in Entities : OutputNotStored(id, e)
Silent == \E id \in Plugins \cup Integrations : NotApplicable(id)
Active == \E e \in Entities : ActiveEntity(e)
LoopReap == \E e \in Entities : ReapTimer(e)
Undeleted == IF "undeleted" \in LoopFaults THEN SUBSET Entities ELSE {{}}
Removal == \E s, c \in Undeleted : RemoveOutdatedEntities(s, c)
SendFails == \E S \in SUBSET Entities : SendInventoryFails(S)

LoopNext ==
  \/ LoopOutput \/ Silent \/ Active
  \/ LoopReap \/ InitialReapTimeout \/ SendInventory
  \/ StoreFails \/ SendFails \/ Removal \/ LoopRestart

LoopSpec == LoopInit /\ [][LoopNext]_loopVars

-----------------------------------------------------------------------------
(* Properties                                                               *)

=============================================================================
