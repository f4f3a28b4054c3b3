--------------------------- MODULE EntityPatcher ---------------------------
(***************************************************************************)
(* The inventory handler and its patcher.  Plugins queue their output; one *)
(* goroutine takes it from the queue and saves it; another one reaps the   *)
(* registered entities, sends their deltas and, once per period, removes   *)
(* the entities that are out of date.  A mutex makes Save, Reap, the       *)
(* removal and the snapshot of the senders atomic.                         *)
(***************************************************************************)
EXTENDS Naturals, Sequences, EntityKeys

CONSTANTS
  Local,        \* the folder of the agent's entity, "__nria_localentity"
  Sanitized,    \* SanitizeFileName of every entity key
  QueueLen,     \* capacity of dataCh
  Faults        \* what may fail: see AllFaults

Folders == {Local} \cup {Sanitized[e] : e \in Entities}

ASSUME NamesAssumption == Agent \notin Remotes /\ DOMAIN Sanitized = Entities
ASSUME QueueAssumption == QueueLen \in Nat \ {0}

\* register: no sender for an entity; save: a source file is not written;
\* remove: a folder is not deleted; process: a submission fails; period: the
\* removal period goes by; restart: the agent starts again.
AllFaults == {"register", "save", "remove", "process", "period", "restart"}

ASSUME FaultsAssumption == Faults \subseteq AllFaults

VARIABLES
  queue,        \* dataCh: outputs [entity, version, applicable]
  entities,     \* registered entities, each with its needsReaping flag
  seen,         \* seenEntities
  src, cache,   \* version of the documents under the data and the cache
                \* directory of each folder, 0 when there is none
  sent,         \* version the backend holds for each entity
  pc, senders,  \* what the processing goroutine does, senders left to call
  due,          \* the removal period is over
  last          \* version of the newest plugin output

vars == <<queue, entities, seen, src, cache, sent, pc, senders, due, last>>

Registered == DOMAIN entities

\* EntityFolder: the default entity has a folder name of its own.
EntityFolder(e) == IF e = Agent THEN Local ELSE Sanitized[e]

OnDisk == {f \in Folders : src[f] # 0 \/ cache[f] # 0}

Init ==
  /\ queue = <<>>
  /\ entities = [e \in {Agent} |-> TRUE]
  /\ seen = {}
  /\ src = [f \in Folders |-> 0]
  /\ cache = [f \in Folders |-> 0]
  /\ sent = [e \in Entities |-> 0]
  /\ pc = "idle"
  /\ senders = {}
  /\ due = FALSE
  /\ last = 0

-----------------------------------------------------------------------------
(* Plugin output                                                            *)

\* Handle blocks while the queue is full.
Handle(e, applicable) ==
  /\ Len(queue) < QueueLen
  /\ last' = last + 1
  /\ queue' = Append(queue, [entity |-> e, version |-> last', applicable |-> applicable])
  /\ UNCHANGED <<entities, seen, src, cache, sent, pc, senders, due>>

RegisterEntity(e) ==
  entities' = [x \in Registered \cup {e} |-> IF x \in Registered THEN entities[x] ELSE TRUE]

\* Mutant: the flag is cleared for good.
MutCleared(flag) == FALSE

\* needsReaping after Reap clears it: that is done to a copy of the map's value,
\* and the map keeps the old one (so does Save when it sets the flag).
Cleared(flag) == flag

\* listenForData takes one output and saves it.
Save ==
  LET d == Head(queue) IN
  /\ queue # <<>> /\ d.applicable
  /\ queue' = Tail(queue)
  /\ RegisterEntity(d.entity)
  /\ src' = [src EXCEPT ![EntityFolder(d.entity)] = d.version]
  /\ seen' = seen \cup {d.entity}
  /\ UNCHANGED <<cache, sent, pc, senders, due, last>>

SaveNotApplicable ==
  /\ queue # <<>> /\ ~Head(queue).applicable
  /\ queue' = Tail(queue)
  /\ UNCHANGED <<entities, seen, src, cache, sent, pc, senders, due, last>>

\* The error is logged and the output is gone.
SaveFails ==
  LET d == Head(queue) IN
  /\ queue # <<>> /\ d.applicable
  /\ queue' = Tail(queue)
  /\ \/ /\ "register" \in Faults /\ d.entity \notin Registered
        /\ UNCHANGED entities
     \/ "save" \in Faults /\ RegisterEntity(d.entity)
  /\ UNCHANGED <<seen, src, cache, sent, pc, senders, due, last>>

-----------------------------------------------------------------------------
(* doProcess                                                                *)

NeedsReaping(f) == \E e \in Registered : EntityFolder(e) = f /\ entities[e]

Reap ==
  /\ pc = "idle"
  /\ cache' = [f \in Folders |-> IF NeedsReaping(f) /\ src[f] # 0 THEN src[f] ELSE cache[f]]
  /\ entities' = [e \in Registered |-> Cleared(entities[e])]
  /\ UNCHANGED <<queue, seen, src, sent, pc, senders, due, last>>

\* Registered entities that go: seenEntities is emptied before it is looked at.
Outdated(reported) == Registered \ ({Agent} \cup reported)

\* Mutant: only the folders of the entities just unregistered are removed.
MutFoldersToRemove(out) == {EntityFolder(e) : e \in out}

FoldersToRemove(out) ==
  {EntityFolder(e) : e \in out}
    \cup (OnDisk \ {Sanitized[e] : e \in Registered \ out})

\* The folders are deleted under the data and then the cache directory.
RemoveEntityFolders(dataDir, cacheDir) ==
  /\ src' = [f \in Folders |-> IF f \in dataDir THEN 0 ELSE src[f]]
  /\ cache' = [f \in Folders |-> IF f \in cacheDir THEN 0 ELSE cache[f]]

\* keptData and keptCache are the folders that could not be deleted.
CleanOutdatedEntities(keptData, keptCache) ==
  LET S == FoldersToRemove(Outdated({})) IN
  /\ seen' = {}
  /\ entities' = [e \in Registered \ Outdated({}) |-> entities[e]]
  /\ RemoveEntityFolders(S \ keptData, S \ keptCache)

\* Mutant: the removal runs beside the sends.
MutSendCleaning ==
  /\ due
  /\ CleanOutdatedEntities({}, {})
  /\ due' = FALSE
  /\ UNCHANGED <<queue, sent, pc, senders, last>>

SendCleaning ==
  /\ pc = "idle" /\ due
  /\ CleanOutdatedEntities({}, {})
  /\ due' = FALSE
  /\ pc' = "senders"
  /\ UNCHANGED <<queue, sent, senders, last>>

\* Errors of a removal are logged; the entities are unregistered all the same.
SendCleaningFails ==
  /\ "remove" \in Faults
  /\ pc = "idle" /\ due
  /\ \E keptData, keptCache \in SUBSET OnDisk : CleanOutdatedEntities(keptData, keptCache)
  /\ due' = FALSE
  /\ pc' = "senders"
  /\ UNCHANGED <<queue, sent, senders, last>>

SendDirectly ==
  /\ pc = "idle" /\ ~due
  /\ pc' = "senders"
  /\ UNCHANGED <<queue, entities, seen, src, cache, sent, senders, due, last>>

SnapshotSenders ==
  /\ pc = "senders"
  /\ senders' = Registered
  /\ pc' = "send"
  /\ UNCHANGED <<queue, entities, seen, src, cache, sent, due, last>>

Process(e) ==
  LET f == EntityFolder(e) IN
  /\ pc = "send" /\ e \in senders
  /\ sent' = [sent EXCEPT ![e] = IF cache[f] # 0 THEN cache[f] ELSE @]
  /\ senders' = senders \ {e}
  /\ UNCHANGED <<queue, entities, seen, src, cache, pc, due, last>>

\* The first error ends the round.
ProcessFails ==
  /\ "process" \in Faults
  /\ pc = "send" /\ senders # {}
  /\ senders' = {}
  /\ pc' = "idle"
  /\ UNCHANGED <<queue, entities, seen, src, cache, sent, due, last>>

FinishSend ==
  /\ pc = "send" /\ senders = {}
  /\ pc' = "idle"
  /\ UNCHANGED <<queue, entities, seen, src, cache, sent, senders, due, last>>

-----------------------------------------------------------------------------
PeriodEnds ==
  /\ "period" \in Faults
  /\ ~due
  /\ due' = TRUE
  /\ UNCHANGED <<queue, entities, seen, src, cache, sent, pc, senders, last>>

\* NewEntityPatcher: only the agent's entity is registered.
Restart ==
  /\ "restart" \in Faults
  /\ queue' = <<>>
  /\ entities' = [e \in {Agent} |-> TRUE]
  /\ seen' = {}
  /\ pc' = "idle"
  /\ senders' = {}
  /\ due' = FALSE
  /\ UNCHANGED <<src, cache, sent, last>>

Output == \E e \in Entities, a \in BOOLEAN : Handle(e, a)
Listener == Save \/ SaveNotApplicable
Sending ==
  \/ SendCleaning
  \/ SendDirectly
  \/ SnapshotSenders
  \/ \E e \in Entities : Process(e)
  \/ FinishSend
Failure == SaveFails \/ SendCleaningFails \/ ProcessFails \/ Restart

Next == Output \/ Listener \/ Reap \/ Sending \/ PeriodEnds \/ Failure

Spec == Init /\ [][Next]_vars

-----------------------------------------------------------------------------
(* Properties                                                               *)

PluginOutput == [entity: Entities, version: Nat, applicable: BOOLEAN]

\* Every variable has the type of the state it models; the agent's entity stays
\* registered.
TypeOK ==
  /\ queue \in Seq(PluginOutput) /\ Len(queue) <= QueueLen
  /\ Agent \in Registered /\ Registered \subseteq Entities
  /\ \A e \in Registered : entities[e] \in BOOLEAN
  /\ seen \subseteq Entities /\ senders \subseteq Entities
  /\ src \in [Folders -> Nat] /\ cache \in [Folders -> Nat]
  /\ sent \in [Entities -> Nat]
  /\ pc \in {"idle", "senders", "send"} /\ due \in BOOLEAN /\ last \in Nat

\* A sender called after the mutex was released belongs to an entity that is
\* still registered: nothing unregisters one in the middle of Send.
SendersRegistered == senders \subseteq Registered

\* The periodic removal takes no entity that a plugin reported for since the
\* last one (cleanOutdatedEntities).
ActiveEntitiesStay ==
  [][SendCleaning => seen \subseteq DOMAIN entities']_vars
=============================================================================
