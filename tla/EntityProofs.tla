---------------------------- MODULE EntityProofs ----------------------------
(* The patcher of the entities' inventories and the sender of their events,  *)
(* for any entities, folder names, queues, workers and faults.               *)
EXTENDS EntityPatcher, VortexSender, SequenceTheorems, StagesProofs

-----------------------------------------------------------------------------
(* The patcher                                                               *)

\* Store.EntityFolder names a folder of the model.
LEMMA FolderType == \A e \in Entities : EntityFolder(e) \in Folders
  BY DEF EntityFolder, Folders

\* registerEntity keeps every entity that is registered, and the types.
LEMMA RegisterType ==
  ASSUME TypeOK, NEW e \in Entities, RegisterEntity(e)
  PROVE  /\ Agent \in DOMAIN entities' /\ DOMAIN entities' \subseteq Entities
         /\ \A x \in DOMAIN entities' : entities'[x] \in BOOLEAN
         /\ Registered \subseteq DOMAIN entities'
  BY DEF TypeOK, RegisterEntity, Registered

\* cleanOutdatedEntities keeps the types, and the agent's entity registered.
LEMMA CleanType ==
  ASSUME TypeOK, NEW K, NEW L, CleanOutdatedEntities(K, L)
  PROVE  /\ Agent \in DOMAIN entities' /\ DOMAIN entities' \subseteq Entities
         /\ \A x \in DOMAIN entities' : entities'[x] \in BOOLEAN
         /\ seen' \subseteq Entities
         /\ src' \in [Folders -> Nat] /\ cache' \in [Folders -> Nat]
<1>1. entities' = [e \in Registered \ Outdated({}) |-> entities[e]]
  BY DEF CleanOutdatedEntities
<1>2. Agent \notin Outdated({})
  BY DEF Outdated
<1>3. src' \in [Folders -> Nat] /\ cache' \in [Folders -> Nat]
  BY DEF CleanOutdatedEntities, RemoveEntityFolders, TypeOK
<1> QED
  BY <1>1, <1>2, <1>3 DEF CleanOutdatedEntities, TypeOK, Registered

\* What listenForData takes from the queue is a plugin output.
LEMMA HeadType ==
  ASSUME TypeOK, queue # <<>>
  PROVE  Head(queue) \in PluginOutput /\ Tail(queue) \in Seq(PluginOutput)
           /\ Len(Tail(queue)) <= QueueLen
  BY QueueAssumption, HeadTailProperties DEF TypeOK

\* Every step of the handler and the patcher keeps the type invariant.
LEMMA PatcherTypeStep == TypeOK /\ [Next]_vars => TypeOK'
<1> SUFFICES ASSUME TypeOK, [Next]_vars PROVE TypeOK'
  OBVIOUS
<1>1. ASSUME NEW e \in Entities, NEW a \in BOOLEAN, Handle(e, a) PROVE TypeOK'
  <2>1. last' \in Nat
    BY <1>1 DEF Handle, TypeOK
  <2>2. [entity |-> e, version |-> last', applicable |-> a] \in PluginOutput
    BY <2>1 DEF PluginOutput
  <2>3. queue' \in Seq(PluginOutput) /\ Len(queue') = Len(queue) + 1
    BY <1>1, <2>2, AppendProperties DEF Handle, TypeOK
  <2>4. Len(queue') <= QueueLen
    BY <1>1, <2>3, QueueAssumption, LenProperties DEF Handle, TypeOK
  <2> QED
    BY <1>1, <2>1, <2>3, <2>4 DEF Handle, TypeOK, Registered
<1>2. CASE Save
  <2>1. queue # <<>> /\ Head(queue).entity \in Entities /\ Head(queue).version \in Nat
    BY <1>2, HeadType DEF Save, PluginOutput
  <2>2. RegisterEntity(Head(queue).entity)
    BY <1>2 DEF Save
  <2>3. src' \in [Folders -> Nat]
    BY <1>2, <2>1, FolderType DEF Save, TypeOK
  <2>4. seen' \subseteq Entities
    BY <1>2, <2>1 DEF Save, TypeOK
  <2> QED
    BY <1>2, <2>1, <2>2, <2>3, <2>4, HeadType, RegisterType, SMTT(20) DEF Save, TypeOK, Registered
<1>3. CASE SaveNotApplicable
  BY <1>3, HeadType DEF SaveNotApplicable, TypeOK, Registered
<1>4. CASE SaveFails
  <2>1. queue # <<>> /\ Head(queue).entity \in Entities
    BY <1>4, HeadType DEF SaveFails, PluginOutput
  <2>2. CASE UNCHANGED entities
    BY <1>4, <2>1, <2>2, HeadType DEF SaveFails, TypeOK, Registered
  <2>3. CASE RegisterEntity(Head(queue).entity)
    BY <1>4, <2>1, <2>3, HeadType, RegisterType DEF SaveFails, TypeOK, Registered
  <2> QED
    BY <1>4, <2>2, <2>3 DEF SaveFails
<1>5. CASE Reap
  <2>1. cache' \in [Folders -> Nat]
    BY <1>5 DEF Reap, TypeOK
  <2>2. DOMAIN entities' = Registered /\ \A e \in Registered : entities'[e] = entities[e]
    BY <1>5 DEF Reap, Cleared
  <2> QED
    BY <1>5, <2>1, <2>2 DEF Reap, TypeOK, Registered
<1>6. CASE SendCleaning
  <2>1. CleanOutdatedEntities({}, {})
    BY <1>6 DEF SendCleaning
  <2> QED
    BY <1>6, <2>1, CleanType DEF SendCleaning, TypeOK, Registered
<1>7. CASE SendCleaningFails
  <2>1. PICK K \in SUBSET OnDisk, L \in SUBSET OnDisk : CleanOutdatedEntities(K, L)
    BY <1>7 DEF SendCleaningFails
  <2> QED
    BY <1>7, <2>1, CleanType DEF SendCleaningFails, TypeOK, Registered
<1>8. CASE SendDirectly
  BY <1>8 DEF SendDirectly, TypeOK, Registered
<1>9. CASE SnapshotSenders
  BY <1>9 DEF SnapshotSenders, TypeOK, Registered
<1>10. ASSUME NEW e \in Entities, Process(e) PROVE TypeOK'
  BY <1>10, FolderType DEF Process, TypeOK, Registered
<1>11. CASE ProcessFails
  BY <1>11 DEF ProcessFails, TypeOK, Registered
<1>12. CASE FinishSend
  BY <1>12 DEF FinishSend, TypeOK, Registered
<1>13. CASE PeriodEnds
  BY <1>13 DEF PeriodEnds, TypeOK, Registered
<1>14. CASE Restart
  <2>1. queue' \in Seq(PluginOutput) /\ Len(queue') <= QueueLen
    BY <1>14, QueueAssumption DEF Restart
  <2>2. due' \in BOOLEAN /\ \A e \in DOMAIN entities' : entities'[e] \in BOOLEAN
    BY <1>14 DEF Restart
  <2> QED
    BY <1>14, <2>1, <2>2 DEF Restart, TypeOK, Registered, Entities
<1>15. CASE UNCHANGED vars
  BY <1>15 DEF vars, TypeOK, Registered
<1> QED
  BY <1>1, <1>2, <1>3, <1>4, <1>5, <1>6, <1>7, <1>8, <1>9, <1>10, <1>11, <1>12, <1>13, <1>14,
     <1>15
  DEF Next, Output, Listener, Sending, Failure

\* Every reachable state of the patcher has the types of TypeOK; in particular
\* the agent's own entity is never unregistered (cleanOutdatedEntities).
THEOREM PatcherTypeCorrect == Spec => []TypeOK
<1>1. ASSUME Init PROVE TypeOK
  <2>1. queue \in Seq(PluginOutput) /\ Len(queue) <= QueueLen
    BY <1>1, QueueAssumption DEF Init
  <2>2. due \in BOOLEAN /\ \A e \in Registered : entities[e] \in BOOLEAN
    BY <1>1 DEF Init, Registered
  <2>3. Agent \in Registered /\ Registered \subseteq Entities
    BY <1>1 DEF Init, Registered, Entities
  <2> QED
    BY <1>1, <2>1, <2>2, <2>3 DEF Init, TypeOK
<1> QED
  BY <1>1, PatcherTypeStep, PTL DEF Spec

-----------------------------------------------------------------------------
\* Outside the loop over the senders there are none.
SendersInv == SendersRegistered /\ (pc # "send" => senders = {})

\* Every step keeps the senders registered: the removal runs before the
\* snapshot, in the same goroutine.
LEMMA SendersStep == TypeOK /\ SendersInv /\ [Next]_vars => SendersInv'
<1> SUFFICES ASSUME TypeOK, SendersInv, [Next]_vars PROVE SendersInv'
  OBVIOUS
<1> USE DEF SendersInv, SendersRegistered
<1>1. ASSUME NEW e \in Entities, NEW a \in BOOLEAN, Handle(e, a) PROVE SendersInv'
  BY <1>1 DEF Handle, Registered
<1>2. CASE Save
  <2>1. RegisterEntity(Head(queue).entity) /\ Head(queue).entity \in Entities
    BY <1>2, HeadType DEF Save, PluginOutput
  <2> QED
    BY <1>2, <2>1, RegisterType DEF Save, Registered
<1>3. CASE SaveNotApplicable
  BY <1>3 DEF SaveNotApplicable, Registered
<1>4. CASE SaveFails
  <2>1. Head(queue).entity \in Entities
    BY <1>4, HeadType DEF SaveFails, PluginOutput
  <2> QED
    BY <1>4, <2>1, RegisterType DEF SaveFails, Registered
<1>5. CASE Reap
  BY <1>5 DEF Reap, Registered
<1>6. CASE SendCleaning
  BY <1>6 DEF SendCleaning
<1>7. CASE SendCleaningFails
  BY <1>7 DEF SendCleaningFails
<1>8. CASE SendDirectly
  BY <1>8 DEF SendDirectly, Registered
<1>9. CASE SnapshotSenders
  BY <1>9 DEF SnapshotSenders, Registered
<1>10. ASSUME NEW e \in Entities, Process(e) PROVE SendersInv'
  BY <1>10 DEF Process, Registered
<1>11. CASE ProcessFails
  BY <1>11 DEF ProcessFails
<1>12. CASE FinishSend
  BY <1>12 DEF FinishSend
<1>13. CASE PeriodEnds
  BY <1>13 DEF PeriodEnds, Registered
<1>14. CASE Restart
  BY <1>14 DEF Restart
<1>15. CASE UNCHANGED vars
  BY <1>15 DEF vars, Registered
<1> QED
  BY <1>1, <1>2, <1>3, <1>4, <1>5, <1>6, <1>7, <1>8, <1>9, <1>10, <1>11, <1>12, <1>13, <1>14,
     <1>15
  DEF Next, Output, Listener, Sending, Failure

\* The senders that Send calls after it released the mutex belong to registered
\* entities, whatever Save does meanwhile.
THEOREM SendersStayRegistered == Spec => []SendersRegistered
<1>1. Init => SendersInv
  BY DEF Init, SendersInv, SendersRegistered
<1>2. SendersInv => SendersRegistered
  BY DEF SendersInv
<1> QED
  BY <1>1, <1>2, SendersStep, PatcherTypeCorrect, PTL DEF Spec

USE Zenon

-----------------------------------------------------------------------------
(* The vortex sender                                                         *)

VortexTypeOK ==
  /\ vQueue \in Seq(Nat) /\ eventsWithoutID \in Seq(Nat) /\ eventsWithID \in Seq(Nat)
  /\ vDelivered \in Seq(Nat) /\ vBatches \in Seq(Seq(Nat))
  /\ vHeld \in [VStarts -> Seq(Nat)] /\ vBatch \in [VStarts -> Seq(Nat)]
  /\ vPosting \in [VStarts -> Seq(Nat)] /\ event \in [WorkerIDs -> Seq(Nat)]
  /\ vNext \in Nat \ {0} /\ starts \in 0..MaxStarts
  /\ vAcc \in [VStarts -> {"none", "spawned", "select", "giveID", "giveNoID", "push", "done"}]
  /\ vSnd \in [VStarts -> {"none", "spawned", "select", "post", "backoff", "done"}]
  /\ worker \in [WorkerIDs -> {"none", "select", "offer", "gone"}]

\* Only a goroutine that is in the midst of something holds an event, and a Start
\* finds none of its goroutines there.
HoldsOK ==
  /\ \A i \in VStarts : vAcc[i] \notin {"giveID", "giveNoID", "push", "done"} => vHeld[i] = <<>>
  /\ \A i \in VStarts : vSnd[i] # "post" => vPosting[i] = <<>>
  /\ \A w \in WorkerIDs : worker[w] # "offer" => event[w] = <<>>
  /\ \A i \in VStarts : starts < i => vAcc[i] = "none" /\ vSnd[i] = "none"
  /\ \A w \in WorkerIDs : vAcc[w[1]] \in {"none", "spawned"} => worker[w] = "none"

NoneTwice ==
  /\ IsInjective(vQueue) /\ IsInjective(eventsWithoutID) /\ IsInjective(eventsWithID) /\ IsInjective(vDelivered)
  /\ Apart(vHeld) /\ Apart(vBatch) /\ Apart(vBatches) /\ Apart(vPosting) /\ Apart(event)

VortexInv == VortexTypeOK /\ HoldsOK /\ NoneTwice /\ Partition(At, 1..(vNext - 1))

\* Partition, element by element.
Parts(at, S) ==
  /\ \A x : x \in S <=> \E n \in DOMAIN at : x \in at[n]
  /\ \A m, n \in DOMAIN at : m = n \/ at[m] \cap at[n] = {}

LEMMA PartitionIs == ASSUME NEW at, NEW S PROVE Partition(at, S) <=> Parts(at, S)
<1> DEFINE U == UNION Range(at)
<1>1. \A x : x \in U <=> \E n \in DOMAIN at : x \in at[n]
  BY DEF Range
<1> HIDE DEF U
<1>2. U = S <=> \A x : x \in S <=> \E n \in DOMAIN at : x \in at[n]
  BY <1>1
<1> QED
  BY <1>2 DEF Partition, Parts, U

\* What X goes from p to q.
Moved(at, bt, p, q, X) ==
  /\ p \in DOMAIN at /\ q \in DOMAIN at /\ p # q /\ X \subseteq at[p]
  /\ DOMAIN bt = DOMAIN at /\ bt[p] = at[p] \ X /\ bt[q] = at[q] \cup X
  /\ \A n \in DOMAIN at : n # p /\ n # q => bt[n] = at[n]

LEMMA Move ==
  ASSUME NEW at, NEW bt, NEW p, NEW q, NEW X, NEW S, Partition(at, S), Moved(at, bt, p, q, X)
  PROVE  Partition(bt, S)
<1> USE DEF Moved
<1>1. Parts(at, S)
  BY PartitionIs
<1>2. ASSUME NEW m \in DOMAIN bt, NEW n \in DOMAIN bt, m # n PROVE bt[m] \cap bt[n] = {}
  <2>1. /\ at[m] \cap at[n] = {}
        /\ m # p => at[m] \cap at[p] = {}
        /\ n # p => at[n] \cap at[p] = {}
        /\ m # q => at[m] \cap at[q] = {}
        /\ n # q => at[n] \cap at[q] = {}
    BY <1>1, <1>2 DEF Parts
  <2>2. CASE m = p
    BY <1>2, <2>1, <2>2
  <2>3. CASE m = q
    BY <1>2, <2>1, <2>3
  <2>4. CASE m # p /\ m # q
    BY <1>2, <2>1, <2>4
  <2> QED
    BY <2>2, <2>3, <2>4
<1>3. ASSUME NEW x PROVE x \in S <=> \E n \in DOMAIN bt : x \in bt[n]
  <2>1. ASSUME NEW n \in DOMAIN bt, x \in bt[n] PROVE \E m \in DOMAIN at : x \in at[m]
    BY <2>1
  <2>2. ASSUME NEW n \in DOMAIN at, x \in at[n] PROVE \E m \in DOMAIN bt : x \in bt[m]
    BY <2>2
  <2> QED
    BY <1>1, <2>1, <2>2 DEF Parts
<1>4. Parts(bt, S)
  BY <1>2, <1>3 DEF Parts
<1> QED
  BY <1>4, PartitionIs

\* Something new comes to q.
Entered(at, bt, q, x) ==
  /\ q \in DOMAIN at /\ DOMAIN bt = DOMAIN at /\ bt[q] = at[q] \cup {x}
  /\ \A n \in DOMAIN at : n # q => bt[n] = at[n]

LEMMA Enters ==
  ASSUME NEW at, NEW bt, NEW q, NEW x, NEW S, Partition(at, S), Entered(at, bt, q, x), x \notin S
  PROVE  Partition(bt, S \cup {x})
<1> USE DEF Entered
<1>1. Parts(at, S)
  BY PartitionIs
<1>2. \A n \in DOMAIN at : x \notin at[n]
  BY <1>1 DEF Parts
<1>3. ASSUME NEW m \in DOMAIN bt, NEW n \in DOMAIN bt, m # n PROVE bt[m] \cap bt[n] = {}
  <2>1. at[m] \cap at[n] = {}
    BY <1>1, <1>3 DEF Parts
  <2> QED
    BY <1>2, <1>3, <2>1
<1>4. ASSUME NEW y PROVE y \in S \cup {x} <=> \E n \in DOMAIN bt : y \in bt[n]
  <2>1. ASSUME NEW n \in DOMAIN bt, y \in bt[n] PROVE y = x \/ \E m \in DOMAIN at : y \in at[m]
    BY <2>1
  <2>2. ASSUME NEW n \in DOMAIN at, y \in at[n] PROVE \E m \in DOMAIN bt : y \in bt[m]
    BY <2>2
  <2>3. x \in bt[q] /\ q \in DOMAIN bt
    OBVIOUS
  <2>4. y \in S <=> \E n \in DOMAIN at : y \in at[n]
    BY <1>1 DEF Parts
  <2> QED
    BY <2>1, <2>2, <2>3, <2>4
<1>5. Parts(bt, S \cup {x})
  BY <1>3, <1>4 DEF Parts
<1> QED
  BY <1>5, PartitionIs

LEMMA AtPlaces ==
  /\ DOMAIN At = {"queue", "withoutID", "withID", "held", "batch", "batches", "posting", "worker", "delivered", "lost"}
  /\ At["queue"] = Range(vQueue) /\ At["withoutID"] = Range(eventsWithoutID) /\ At["withID"] = Range(eventsWithID)
  /\ At["held"] = AllOf(vHeld) /\ At["batch"] = AllOf(vBatch) /\ At["batches"] = AllOf(vBatches)
  /\ At["posting"] = AllOf(vPosting) /\ At["worker"] = AllOf(event) /\ At["delivered"] = Range(vDelivered)
  /\ At["lost"] = lost
BY DEF At

LEMMA VortexOnce == ASSUME VortexInv PROVE VortexEventOnce
BY DEF VortexInv, NoneTwice, VortexEventOnce

LEMMA AtApart ==
  ASSUME VortexInv, NEW p \in DOMAIN At, NEW q \in DOMAIN At, p # q
  PROVE  At[p] \cap At[q] = {}
<1>1. Parts(At, 1..(vNext - 1))
  BY PartitionIs DEF VortexInv
<1> QED
  BY <1>1 DEF Parts

LEMMA AtMove ==
  ASSUME VortexInv, NEW p, NEW q, NEW X, Moved(At, At', p, q, X), vNext' = vNext
  PROVE  Partition(At', 1..(vNext' - 1))
<1>1. Partition(At, 1..(vNext - 1))
  BY DEF VortexInv
<1>2. Partition(At', 1..(vNext - 1))
  BY <1>1, Move
<1> QED
  BY <1>2

LEMMA AccHolds ==
  ASSUME VortexInv, NEW i \in VStarts, NEW to \in {"select", "giveID", "giveNoID", "push", "done"}, NEW s \in Seq(Nat),
         vAcc[i] \in {"select", "giveID", "giveNoID", "push"}, to = "select" => s = <<>>,
         vAcc' = [vAcc EXCEPT ![i] = to], vHeld' = [vHeld EXCEPT ![i] = s],
         UNCHANGED <<vSnd, vPosting, worker, event, starts>>
  PROVE  /\ HoldsOK' /\ vHeld' \in [VStarts -> Seq(Nat)]
         /\ vAcc' \in [VStarts -> {"none", "spawned", "select", "giveID", "giveNoID", "push", "done"}]
<1>1. /\ vHeld \in [VStarts -> Seq(Nat)] /\ HoldsOK
      /\ vAcc \in [VStarts -> {"none", "spawned", "select", "giveID", "giveNoID", "push", "done"}]
  BY DEF VortexInv, VortexTypeOK
<1>2. /\ vAcc'[i] = to /\ vHeld'[i] = s
      /\ \A j \in VStarts : j # i => vAcc'[j] = vAcc[j] /\ vHeld'[j] = vHeld[j]
  BY <1>1
<1>3. vHeld' \in [VStarts -> Seq(Nat)]
  BY <1>1
<1>4. vAcc' \in [VStarts -> {"none", "spawned", "select", "giveID", "giveNoID", "push", "done"}]
  BY <1>1
<1>5. ASSUME NEW j \in VStarts, vAcc'[j] \notin {"giveID", "giveNoID", "push", "done"} PROVE vHeld'[j] = <<>>
  BY <1>1, <1>2, <1>5 DEF HoldsOK
<1>6. ASSUME NEW j \in VStarts, starts' < j PROVE vAcc'[j] = "none" /\ vSnd'[j] = "none"
  BY <1>1, <1>2, <1>6 DEF HoldsOK
<1>7. ASSUME NEW w \in WorkerIDs, vAcc'[w[1]] \in {"none", "spawned"} PROVE worker'[w] = "none"
  <2>1. w[1] \in VStarts
    BY DEF WorkerIDs
  <2> QED
    BY <1>1, <1>2, <1>7, <2>1 DEF HoldsOK
<1>8. HoldsOK'
  BY <1>1, <1>5, <1>6, <1>7 DEF HoldsOK
<1> QED
  BY <1>3, <1>4, <1>8

LEMMA SndHolds ==
  ASSUME VortexInv, NEW i \in VStarts, NEW to \in {"select", "post", "backoff", "done"}, NEW s \in Seq(Nat),
         vSnd[i] \in {"select", "post", "backoff"}, to # "post" => s = <<>>,
         vSnd' = [vSnd EXCEPT ![i] = to], vPosting' = [vPosting EXCEPT ![i] = s],
         UNCHANGED <<vAcc, vHeld, worker, event, starts>>
  PROVE  /\ HoldsOK' /\ vPosting' \in [VStarts -> Seq(Nat)]
         /\ vSnd' \in [VStarts -> {"none", "spawned", "select", "post", "backoff", "done"}]
<1>1. /\ vPosting \in [VStarts -> Seq(Nat)] /\ HoldsOK
      /\ vSnd \in [VStarts -> {"none", "spawned", "select", "post", "backoff", "done"}]
  BY DEF VortexInv, VortexTypeOK
<1>2. /\ vSnd'[i] = to /\ vPosting'[i] = s
      /\ \A j \in VStarts : j # i => vSnd'[j] = vSnd[j] /\ vPosting'[j] = vPosting[j]
  BY <1>1
<1>3. vPosting' \in [VStarts -> Seq(Nat)]
  BY <1>1
<1>4. vSnd' \in [VStarts -> {"none", "spawned", "select", "post", "backoff", "done"}]
  BY <1>1
<1>5. ASSUME NEW j \in VStarts, vSnd'[j] # "post" PROVE vPosting'[j] = <<>>
  BY <1>1, <1>2, <1>5 DEF HoldsOK
<1>6. ASSUME NEW j \in VStarts, starts' < j PROVE vAcc'[j] = "none" /\ vSnd'[j] = "none"
  BY <1>1, <1>2, <1>6 DEF HoldsOK
<1>7. HoldsOK'
  BY <1>1, <1>5, <1>6 DEF HoldsOK
<1> QED
  BY <1>3, <1>4, <1>7

LEMMA WorkerHolds ==
  ASSUME VortexInv, NEW w \in WorkerIDs, NEW to \in {"offer", "gone"}, NEW s \in Seq(Nat),
         worker[w] \in {"select", "offer"}, to # "offer" => s = <<>>,
         worker' = [worker EXCEPT ![w] = to], event' = [event EXCEPT ![w] = s],
         UNCHANGED <<vAcc, vHeld, vSnd, vPosting, starts>>
  PROVE  /\ HoldsOK' /\ event' \in [WorkerIDs -> Seq(Nat)]
         /\ worker' \in [WorkerIDs -> {"none", "select", "offer", "gone"}]
<1>1. /\ event \in [WorkerIDs -> Seq(Nat)] /\ HoldsOK
      /\ worker \in [WorkerIDs -> {"none", "select", "offer", "gone"}]
  BY DEF VortexInv, VortexTypeOK
<1>2. /\ worker'[w] = to /\ event'[w] = s
      /\ \A v \in WorkerIDs : v # w => worker'[v] = worker[v] /\ event'[v] = event[v]
  BY <1>1
<1>3. event' \in [WorkerIDs -> Seq(Nat)]
  BY <1>1
<1>4. worker' \in [WorkerIDs -> {"none", "select", "offer", "gone"}]
  BY <1>1
<1>5. ASSUME NEW v \in WorkerIDs, worker'[v] # "offer" PROVE event'[v] = <<>>
  BY <1>1, <1>2, <1>5 DEF HoldsOK
<1>6. ASSUME NEW v \in WorkerIDs, vAcc'[v[1]] \in {"none", "spawned"} PROVE worker'[v] = "none"
  BY <1>1, <1>2, <1>6 DEF HoldsOK
<1>7. HoldsOK'
  BY <1>1, <1>5, <1>6 DEF HoldsOK
<1> QED
  BY <1>3, <1>4, <1>7

LEMMA NothingMoves ==
  ASSUME VortexInv, UNCHANGED <<vNext, vQueue, eventsWithoutID, eventsWithID, vHeld, vBatch, vBatches, vPosting, event,
                               vDelivered, lost>>
  PROVE  NoneTwice' /\ Partition(At', 1..(vNext' - 1))
<1>1. At' = At
  BY DEF At
<1>2. Partition(At', 1..(vNext' - 1))
  BY <1>1 DEF VortexInv
<1>3. NoneTwice'
  BY DEF VortexInv, NoneTwice
<1> QED
  BY <1>2, <1>3

\* One lemma for each action of the vortex sender.
LEMMA VTakeEventKeeps == ASSUME VortexInv, NEW i \in VStarts, VTakeEvent(i) PROVE VortexInv'
<1> DEFINE h == Head(vQueue)
           to == Route(h)
<1>1. /\ vAcc[i] = "select" /\ vQueue # <<>> /\ vQueue' = Tail(vQueue)
      /\ vHeld' = [vHeld EXCEPT ![i] = <<h>>] /\ vAcc' = [vAcc EXCEPT ![i] = to]
      /\ UNCHANGED <<vNext, eventsWithoutID, eventsWithID, vBatch, vBatches, vPosting, event, vDelivered, lost, starts, vSnd, worker>>
  BY DEF VTakeEvent, Enter, input, control, accumulator, sender, workers
<1>2. to \in {"giveID", "giveNoID"}
  BY DEF Route
<1>3. vQueue \in Seq(Nat) /\ vHeld \in [VStarts -> Seq(Nat)] /\ IsInjective(vQueue) /\ Apart(vHeld) /\ vHeld[i] = <<>>
  BY <1>1 DEF VortexInv, VortexTypeOK, NoneTwice, HoldsOK
<1>4. /\ h \in Nat /\ vQueue' \in Seq(Nat) /\ Range(vQueue) = {h} \cup Range(vQueue')
      /\ IsInjective(vQueue') /\ h \notin Range(vQueue')
  <2>1. Shifted(vQueue, vQueue')
    BY <1>1, <1>3 DEF Shifted
  <2> QED
    BY <2>1, ShiftedIs DEF Shorter
<1> HIDE DEF h, to
<1>5. Range(<<h>>) = {h} /\ <<h>> \in Seq(Nat) /\ IsInjective(<<h>>)
  BY <1>4, OneElement, OneInjective
<1>6. h \notin AllOf(vHeld)
  <2>1. Range(vQueue) \cap AllOf(vHeld) = {}
    BY AtPlaces, AtApart
  <2> QED
    BY <1>4, <2>1
<1>7. Apart(vHeld') /\ AllOf(vHeld') = AllOf(vHeld) \cup {h}
  <2>1. Filled(vHeld, vHeld', i, <<h>>, VStarts)
    BY <1>1, <1>3, <1>5, <1>6 DEF Filled
  <2>2. NowHas(vHeld, vHeld', i, <<h>>, VStarts)
    BY <2>1, FilledIs
  <2> QED
    BY <1>5, <2>2 DEF NowHas
<1>8. Partition(At', 1..(vNext' - 1))
  <2>0. UNCHANGED <<eventsWithoutID, eventsWithID, vBatch, vBatches, vPosting, event, vDelivered, lost>>
    BY <1>1
  <2>1. At' = [At EXCEPT !["queue"] = Range(vQueue'), !["held"] = AllOf(vHeld')]
    BY <2>0, SMTT(60) DEF At
  <2>2. Range(vQueue') = At["queue"] \ {h} /\ AllOf(vHeld') = At["held"] \cup {h} /\ {h} \subseteq At["queue"]
    <3>1. At["queue"] = Range(vQueue) /\ At["held"] = AllOf(vHeld)
      BY AtPlaces
    <3> QED
      BY <1>4, <1>7, <3>1
  <2>3. Moved(At, At', "queue", "held", {h})
    BY <2>1, <2>2, AtPlaces DEF Moved
  <2> QED
    BY <1>1, <2>3, AtMove
<1>9. HoldsOK' /\ vHeld' \in [VStarts -> Seq(Nat)] /\ vAcc' \in [VStarts -> {"none", "spawned", "select", "giveID", "giveNoID", "push", "done"}]
  BY <1>1, <1>2, <1>5, AccHolds
<1>10. VortexTypeOK'
  BY <1>1, <1>4, <1>9 DEF VortexInv, VortexTypeOK
<1>11. NoneTwice'
  BY <1>1, <1>4, <1>7 DEF VortexInv, NoneTwice
<1> QED
  BY <1>8, <1>9, <1>10, <1>11 DEF VortexInv

LEMMA TakeWithIDFullKeeps == ASSUME VortexInv, NEW i \in VStarts, TakeWithIDFull(i) PROVE VortexInv'
<1> DEFINE h == Head(eventsWithID)
           to == "push"
<1>1. /\ vAcc[i] = "select" /\ eventsWithID # <<>> /\ eventsWithID' = Tail(eventsWithID)
      /\ vHeld' = [vHeld EXCEPT ![i] = <<h>>] /\ vAcc' = [vAcc EXCEPT ![i] = to]
      /\ UNCHANGED <<vNext, vQueue, eventsWithoutID, vBatch, vBatches, vPosting, event, vDelivered, lost, starts, vSnd, worker>>
  BY DEF TakeWithIDFull, Enter, input, control, accumulator, sender, workers
<1>2. to \in {"push"}
  BY DEF Route
<1>3. eventsWithID \in Seq(Nat) /\ vHeld \in [VStarts -> Seq(Nat)] /\ IsInjective(eventsWithID) /\ Apart(vHeld) /\ vHeld[i] = <<>>
  BY <1>1 DEF VortexInv, VortexTypeOK, NoneTwice, HoldsOK
<1>4. /\ h \in Nat /\ eventsWithID' \in Seq(Nat) /\ Range(eventsWithID) = {h} \cup Range(eventsWithID')
      /\ IsInjective(eventsWithID') /\ h \notin Range(eventsWithID')
  <2>1. Shifted(eventsWithID, eventsWithID')
    BY <1>1, <1>3 DEF Shifted
  <2> QED
    BY <2>1, ShiftedIs DEF Shorter
<1> HIDE DEF h, to
<1>5. Range(<<h>>) = {h} /\ <<h>> \in Seq(Nat) /\ IsInjective(<<h>>)
  BY <1>4, OneElement, OneInjective
<1>6. h \notin AllOf(vHeld)
  <2>1. Range(eventsWithID) \cap AllOf(vHeld) = {}
    BY AtPlaces, AtApart
  <2> QED
    BY <1>4, <2>1
<1>7. Apart(vHeld') /\ AllOf(vHeld') = AllOf(vHeld) \cup {h}
  <2>1. Filled(vHeld, vHeld', i, <<h>>, VStarts)
    BY <1>1, <1>3, <1>5, <1>6 DEF Filled
  <2>2. NowHas(vHeld, vHeld', i, <<h>>, VStarts)
    BY <2>1, FilledIs
  <2> QED
    BY <1>5, <2>2 DEF NowHas
<1>8. Partition(At', 1..(vNext' - 1))
  <2>0. UNCHANGED <<vQueue, eventsWithoutID, vBatch, vBatches, vPosting, event, vDelivered, lost>>
    BY <1>1
  <2>1. At' = [At EXCEPT !["withID"] = Range(eventsWithID'), !["held"] = AllOf(vHeld')]
    BY <2>0, SMTT(60) DEF At
  <2>2. Range(eventsWithID') = At["withID"] \ {h} /\ AllOf(vHeld') = At["held"] \cup {h} /\ {h} \subseteq At["withID"]
    <3>1. At["withID"] = Range(eventsWithID) /\ At["held"] = AllOf(vHeld)
      BY AtPlaces
    <3> QED
      BY <1>4, <1>7, <3>1
  <2>3. Moved(At, At', "withID", "held", {h})
    BY <2>1, <2>2, AtPlaces DEF Moved
  <2> QED
    BY <1>1, <2>3, AtMove
<1>9. HoldsOK' /\ vHeld' \in [VStarts -> Seq(Nat)] /\ vAcc' \in [VStarts -> {"none", "spawned", "select", "giveID", "giveNoID", "push", "done"}]
  BY <1>1, <1>2, <1>5, AccHolds
<1>10. VortexTypeOK'
  BY <1>1, <1>4, <1>9 DEF VortexInv, VortexTypeOK
<1>11. NoneTwice'
  BY <1>1, <1>4, <1>7 DEF VortexInv, NoneTwice
<1> QED
  BY <1>8, <1>9, <1>10, <1>11 DEF VortexInv

LEMMA WorkerTakesKeeps == ASSUME VortexInv, NEW w \in WorkerIDs, WorkerTakes(w) PROVE VortexInv'
<1> DEFINE h == Head(eventsWithoutID)
           to == "offer"
<1>1. /\ worker[w] = "select" /\ eventsWithoutID # <<>> /\ eventsWithoutID' = Tail(eventsWithoutID)
      /\ event' = [event EXCEPT ![w] = <<h>>] /\ worker' = [worker EXCEPT ![w] = to]
      /\ UNCHANGED <<vNext, vQueue, eventsWithID, vHeld, vBatch, vBatches, vPosting, vDelivered, lost, starts, vAcc, vSnd>>
  BY DEF WorkerTakes, input, control, accumulator, sender, workers
<1>2. to \in {"offer"}
  BY DEF Route
<1>3. eventsWithoutID \in Seq(Nat) /\ event \in [WorkerIDs -> Seq(Nat)] /\ IsInjective(eventsWithoutID) /\ Apart(event) /\ event[w] = <<>>
  BY <1>1 DEF VortexInv, VortexTypeOK, NoneTwice, HoldsOK
<1>4. /\ h \in Nat /\ eventsWithoutID' \in Seq(Nat) /\ Range(eventsWithoutID) = {h} \cup Range(eventsWithoutID')
      /\ IsInjective(eventsWithoutID') /\ h \notin Range(eventsWithoutID')
  <2>1. Shifted(eventsWithoutID, eventsWithoutID')
    BY <1>1, <1>3 DEF Shifted
  <2> QED
    BY <2>1, ShiftedIs DEF Shorter
<1> HIDE DEF h, to
<1>5. Range(<<h>>) = {h} /\ <<h>> \in Seq(Nat) /\ IsInjective(<<h>>)
  BY <1>4, OneElement, OneInjective
<1>6. h \notin AllOf(event)
  <2>1. Range(eventsWithoutID) \cap AllOf(event) = {}
    BY AtPlaces, AtApart
  <2> QED
    BY <1>4, <2>1
<1>7. Apart(event') /\ AllOf(event') = AllOf(event) \cup {h}
  <2>1. Filled(event, event', w, <<h>>, WorkerIDs)
    BY <1>1, <1>3, <1>5, <1>6 DEF Filled
  <2>2. NowHas(event, event', w, <<h>>, WorkerIDs)
    BY <2>1, FilledIs
  <2> QED
    BY <1>5, <2>2 DEF NowHas
<1>8. Partition(At', 1..(vNext' - 1))
  <2>0. UNCHANGED <<vQueue, eventsWithID, vHeld, vBatch, vBatches, vPosting, vDelivered, lost>>
    BY <1>1
  <2>1. At' = [At EXCEPT !["withoutID"] = Range(eventsWithoutID'), !["worker"] = AllOf(event')]
    BY <2>0, SMTT(60) DEF At
  <2>2. Range(eventsWithoutID') = At["withoutID"] \ {h} /\ AllOf(event') = At["worker"] \cup {h} /\ {h} \subseteq At["withoutID"]
    <3>1. At["withoutID"] = Range(eventsWithoutID) /\ At["worker"] = AllOf(event)
      BY AtPlaces
    <3> QED
      BY <1>4, <1>7, <3>1
  <2>3. Moved(At, At', "withoutID", "worker", {h})
    BY <2>1, <2>2, AtPlaces DEF Moved
  <2> QED
    BY <1>1, <2>3, AtMove
<1>9. HoldsOK' /\ event' \in [WorkerIDs -> Seq(Nat)] /\ worker' \in [WorkerIDs -> {"none", "select", "offer", "gone"}]
  BY <1>1, <1>2, <1>5, WorkerHolds
<1>10. VortexTypeOK'
  BY <1>1, <1>4, <1>9 DEF VortexInv, VortexTypeOK
<1>11. NoneTwice'
  BY <1>1, <1>4, <1>7 DEF VortexInv, NoneTwice
<1> QED
  BY <1>8, <1>9, <1>10, <1>11 DEF VortexInv

LEMMA GiveIDKeeps == ASSUME VortexInv, NEW i \in VStarts, GiveID(i) PROVE VortexInv'
<1> DEFINE X == Range(vHeld[i])
<1>1. /\ vAcc[i] = "giveID" /\ eventsWithID' = eventsWithID \o vHeld[i]
      /\ vHeld' = [vHeld EXCEPT ![i] = <<>>] /\ vAcc' = [vAcc EXCEPT ![i] = "select"]
      /\ UNCHANGED <<vNext, vQueue, eventsWithoutID, vBatch, vBatches, vPosting, event, vDelivered, lost, starts, vSnd, worker>>
  BY DEF GiveID, Enter, input, control, accumulator, sender, workers
<1>2. eventsWithID \in Seq(Nat) /\ vHeld \in [VStarts -> Seq(Nat)] /\ IsInjective(eventsWithID) /\ Apart(vHeld)
  BY DEF VortexInv, VortexTypeOK, NoneTwice
<1>3. /\ Apart(vHeld') /\ AllOf(vHeld') = AllOf(vHeld) \ X
      /\ vHeld[i] \in Seq(Nat) /\ IsInjective(vHeld[i]) /\ X \subseteq AllOf(vHeld)
  <2>1. Emptied(vHeld, vHeld', i, VStarts)
    BY <1>1, <1>2 DEF Emptied
  <2> QED
    BY <2>1, EmptiedIs DEF NowEmpty
<1>4. eventsWithID' \in Seq(Nat) /\ IsInjective(eventsWithID') /\ Range(eventsWithID') = Range(eventsWithID) \cup X
  <2>1. Range(eventsWithID) \cap AllOf(vHeld) = {}
    BY AtPlaces, AtApart
  <2>2. Joined(eventsWithID, eventsWithID', vHeld[i])
    BY <1>1, <1>2, <1>3, <2>1 DEF Joined
  <2> QED
    BY <2>2, JoinedIs DEF Longer
<1> HIDE DEF X
<1>5. Partition(At', 1..(vNext' - 1))
  <2>0. UNCHANGED <<vQueue, eventsWithoutID, vBatch, vBatches, vPosting, event, vDelivered, lost>>
    BY <1>1
  <2>1. At' = [At EXCEPT !["held"] = AllOf(vHeld'), !["withID"] = Range(eventsWithID')]
    BY <2>0, SMTT(60) DEF At
  <2>2. AllOf(vHeld') = At["held"] \ X /\ Range(eventsWithID') = At["withID"] \cup X /\ X \subseteq At["held"]
    <3>1. At["held"] = AllOf(vHeld) /\ At["withID"] = Range(eventsWithID)
      BY AtPlaces
    <3> QED
      BY <1>3, <1>4, <3>1
  <2>3. Moved(At, At', "held", "withID", X)
    BY <2>1, <2>2, AtPlaces DEF Moved
  <2> QED
    BY <1>1, <2>3, AtMove
<1>6. HoldsOK' /\ vHeld' \in [VStarts -> Seq(Nat)] /\ vAcc' \in [VStarts -> {"none", "spawned", "select", "giveID", "giveNoID", "push", "done"}]
  BY <1>1, EmptySequence, AccHolds
<1>7. VortexTypeOK'
  BY <1>1, <1>4, <1>6 DEF VortexInv, VortexTypeOK
<1>8. NoneTwice'
  BY <1>1, <1>3, <1>4 DEF VortexInv, NoneTwice
<1> QED
  BY <1>5, <1>6, <1>7, <1>8 DEF VortexInv

LEMMA GiveNoIDKeeps == ASSUME VortexInv, NEW i \in VStarts, GiveNoID(i) PROVE VortexInv'
<1> DEFINE X == Range(vHeld[i])
<1>1. /\ vAcc[i] = "giveNoID" /\ eventsWithoutID' = eventsWithoutID \o vHeld[i]
      /\ vHeld' = [vHeld EXCEPT ![i] = <<>>] /\ vAcc' = [vAcc EXCEPT ![i] = "select"]
      /\ UNCHANGED <<vNext, vQueue, eventsWithID, vBatch, vBatches, vPosting, event, vDelivered, lost, starts, vSnd, worker>>
  BY DEF GiveNoID, Enter, input, control, accumulator, sender, workers
<1>2. eventsWithoutID \in Seq(Nat) /\ vHeld \in [VStarts -> Seq(Nat)] /\ IsInjective(eventsWithoutID) /\ Apart(vHeld)
  BY DEF VortexInv, VortexTypeOK, NoneTwice
<1>3. /\ Apart(vHeld') /\ AllOf(vHeld') = AllOf(vHeld) \ X
      /\ vHeld[i] \in Seq(Nat) /\ IsInjective(vHeld[i]) /\ X \subseteq AllOf(vHeld)
  <2>1. Emptied(vHeld, vHeld', i, VStarts)
    BY <1>1, <1>2 DEF Emptied
  <2> QED
    BY <2>1, EmptiedIs DEF NowEmpty
<1>4. eventsWithoutID' \in Seq(Nat) /\ IsInjective(eventsWithoutID') /\ Range(eventsWithoutID') = Range(eventsWithoutID) \cup X
  <2>1. Range(eventsWithoutID) \cap AllOf(vHeld) = {}
    BY AtPlaces, AtApart
  <2>2. Joined(eventsWithoutID, eventsWithoutID', vHeld[i])
    BY <1>1, <1>2, <1>3, <2>1 DEF Joined
  <2> QED
    BY <2>2, JoinedIs DEF Longer
<1> HIDE DEF X
<1>5. Partition(At', 1..(vNext' - 1))
  <2>0. UNCHANGED <<vQueue, eventsWithID, vBatch, vBatches, vPosting, event, vDelivered, lost>>
    BY <1>1
  <2>1. At' = [At EXCEPT !["held"] = AllOf(vHeld'), !["withoutID"] = Range(eventsWithoutID')]
    BY <2>0, SMTT(60) DEF At
  <2>2. AllOf(vHeld') = At["held"] \ X /\ Range(eventsWithoutID') = At["withoutID"] \cup X /\ X \subseteq At["held"]
    <3>1. At["held"] = AllOf(vHeld) /\ At["withoutID"] = Range(eventsWithoutID)
      BY AtPlaces
    <3> QED
      BY <1>3, <1>4, <3>1
  <2>3. Moved(At, At', "held", "withoutID", X)
    BY <2>1, <2>2, AtPlaces DEF Moved
  <2> QED
    BY <1>1, <2>3, AtMove
<1>6. HoldsOK' /\ vHeld' \in [VStarts -> Seq(Nat)] /\ vAcc' \in [VStarts -> {"none", "spawned", "select", "giveID", "giveNoID", "push", "done"}]
  BY <1>1, EmptySequence, AccHolds
<1>7. VortexTypeOK'
  BY <1>1, <1>4, <1>6 DEF VortexInv, VortexTypeOK
<1>8. NoneTwice'
  BY <1>1, <1>3, <1>4 DEF VortexInv, NoneTwice
<1> QED
  BY <1>5, <1>6, <1>7, <1>8 DEF VortexInv

LEMMA VPostSucceedsKeeps == ASSUME VortexInv, NEW i \in VStarts, VPostSucceeds(i) PROVE VortexInv'
<1> DEFINE X == Range(vPosting[i])
<1>1. /\ vSnd[i] = "post" /\ vDelivered' = vDelivered \o vPosting[i]
      /\ vPosting' = [vPosting EXCEPT ![i] = <<>>] /\ vSnd' = [vSnd EXCEPT ![i] = "select"]
      /\ UNCHANGED <<vNext, vQueue, eventsWithoutID, eventsWithID, vHeld, vBatch, vBatches, event, lost, starts, vAcc, worker>>
  BY DEF VPostSucceeds, input, control, accumulator, sender, workers
<1>2. vDelivered \in Seq(Nat) /\ vPosting \in [VStarts -> Seq(Nat)] /\ IsInjective(vDelivered) /\ Apart(vPosting)
  BY DEF VortexInv, VortexTypeOK, NoneTwice
<1>3. /\ Apart(vPosting') /\ AllOf(vPosting') = AllOf(vPosting) \ X
      /\ vPosting[i] \in Seq(Nat) /\ IsInjective(vPosting[i]) /\ X \subseteq AllOf(vPosting)
  <2>1. Emptied(vPosting, vPosting', i, VStarts)
    BY <1>1, <1>2 DEF Emptied
  <2> QED
    BY <2>1, EmptiedIs DEF NowEmpty
<1>4. vDelivered' \in Seq(Nat) /\ IsInjective(vDelivered') /\ Range(vDelivered') = Range(vDelivered) \cup X
  <2>1. Range(vDelivered) \cap AllOf(vPosting) = {}
    BY AtPlaces, AtApart
  <2>2. Joined(vDelivered, vDelivered', vPosting[i])
    BY <1>1, <1>2, <1>3, <2>1 DEF Joined
  <2> QED
    BY <2>2, JoinedIs DEF Longer
<1> HIDE DEF X
<1>5. Partition(At', 1..(vNext' - 1))
  <2>0. UNCHANGED <<vQueue, eventsWithoutID, eventsWithID, vHeld, vBatch, vBatches, event, lost>>
    BY <1>1
  <2>1. At' = [At EXCEPT !["posting"] = AllOf(vPosting'), !["delivered"] = Range(vDelivered')]
    BY <2>0, SMTT(60) DEF At
  <2>2. AllOf(vPosting') = At["posting"] \ X /\ Range(vDelivered') = At["delivered"] \cup X /\ X \subseteq At["posting"]
    <3>1. At["posting"] = AllOf(vPosting) /\ At["delivered"] = Range(vDelivered)
      BY AtPlaces
    <3> QED
      BY <1>3, <1>4, <3>1
  <2>3. Moved(At, At', "posting", "delivered", X)
    BY <2>1, <2>2, AtPlaces DEF Moved
  <2> QED
    BY <1>1, <2>3, AtMove
<1>6. HoldsOK' /\ vPosting' \in [VStarts -> Seq(Nat)] /\ vSnd' \in [VStarts -> {"none", "spawned", "select", "post", "backoff", "done"}]
  BY <1>1, EmptySequence, SndHolds
<1>7. VortexTypeOK'
  BY <1>1, <1>4, <1>6 DEF VortexInv, VortexTypeOK
<1>8. NoneTwice'
  BY <1>1, <1>3, <1>4 DEF VortexInv, NoneTwice
<1> QED
  BY <1>5, <1>6, <1>7, <1>8 DEF VortexInv

LEMMA WorkerStopsKeeps == ASSUME VortexInv, NEW w \in WorkerIDs, WorkerStops(w) PROVE VortexInv'
<1> DEFINE X == Range(event[w])
<1>1. PICK to \in {"gone"} :
        /\ worker[w] = "offer" /\ lost' = lost \cup X
        /\ event' = [event EXCEPT ![w] = <<>>] /\ worker' = [worker EXCEPT ![w] = to]
        /\ UNCHANGED <<vNext, vQueue, eventsWithoutID, eventsWithID, vHeld, vBatch, vBatches, vPosting, vDelivered, starts, vAcc, vSnd>>
  BY DEF WorkerStops, input, control, accumulator, sender, workers
<1>2. event \in [WorkerIDs -> Seq(Nat)] /\ Apart(event)
  BY DEF VortexInv, VortexTypeOK, NoneTwice
<1>3. Apart(event') /\ AllOf(event') = AllOf(event) \ X /\ X \subseteq AllOf(event)
  <2>1. Emptied(event, event', w, WorkerIDs)
    BY <1>1, <1>2 DEF Emptied
  <2> QED
    BY <2>1, EmptiedIs DEF NowEmpty
<1> HIDE DEF X
<1>4. Partition(At', 1..(vNext' - 1))
  <2>0. UNCHANGED <<vNext, vQueue, eventsWithoutID, eventsWithID, vHeld, vBatch, vBatches, vPosting, vDelivered, starts, vAcc, vSnd>>
    BY <1>1
  <2>1. At' = [At EXCEPT !["worker"] = AllOf(event'), !["lost"] = lost']
    BY <2>0, SMTT(60) DEF At
  <2>2. AllOf(event') = At["worker"] \ X /\ lost' = At["lost"] \cup X /\ X \subseteq At["worker"]
    <3>1. At["worker"] = AllOf(event) /\ At["lost"] = lost
      BY AtPlaces
    <3> QED
      BY <1>1, <1>3, <3>1
  <2>3. Moved(At, At', "worker", "lost", X)
    BY <2>1, <2>2, AtPlaces DEF Moved
  <2> QED
    BY <1>1, <2>3, AtMove
<1>5. HoldsOK' /\ event' \in [WorkerIDs -> Seq(Nat)] /\ worker' \in [WorkerIDs -> {"none", "select", "offer", "gone"}]
  BY <1>1, EmptySequence, WorkerHolds
<1>6. VortexTypeOK'
  BY <1>1, <1>5 DEF VortexInv, VortexTypeOK
<1>7. NoneTwice'
  BY <1>1, <1>3 DEF VortexInv, NoneTwice
<1> QED
  BY <1>4, <1>5, <1>6, <1>7 DEF VortexInv

LEMMA VPostFailsKeeps == ASSUME VortexInv, NEW i \in VStarts, VPostFails(i) PROVE VortexInv'
<1> DEFINE X == Range(vPosting[i])
<1>1. PICK to \in {"select", "backoff"} :
        /\ vSnd[i] = "post" /\ lost' = lost \cup X
        /\ vPosting' = [vPosting EXCEPT ![i] = <<>>] /\ vSnd' = [vSnd EXCEPT ![i] = to]
        /\ UNCHANGED <<vNext, vQueue, eventsWithoutID, eventsWithID, vHeld, vBatch, vBatches, event, vDelivered, starts, vAcc, worker>>
  BY DEF VPostFails, input, control, accumulator, sender, workers
<1>2. vPosting \in [VStarts -> Seq(Nat)] /\ Apart(vPosting)
  BY DEF VortexInv, VortexTypeOK, NoneTwice
<1>3. Apart(vPosting') /\ AllOf(vPosting') = AllOf(vPosting) \ X /\ X \subseteq AllOf(vPosting)
  <2>1. Emptied(vPosting, vPosting', i, VStarts)
    BY <1>1, <1>2 DEF Emptied
  <2> QED
    BY <2>1, EmptiedIs DEF NowEmpty
<1> HIDE DEF X
<1>4. Partition(At', 1..(vNext' - 1))
  <2>0. UNCHANGED <<vNext, vQueue, eventsWithoutID, eventsWithID, vHeld, vBatch, vBatches, event, vDelivered, starts, vAcc, worker>>
    BY <1>1
  <2>1. At' = [At EXCEPT !["posting"] = AllOf(vPosting'), !["lost"] = lost']
    BY <2>0, SMTT(60) DEF At
  <2>2. AllOf(vPosting') = At["posting"] \ X /\ lost' = At["lost"] \cup X /\ X \subseteq At["posting"]
    <3>1. At["posting"] = AllOf(vPosting) /\ At["lost"] = lost
      BY AtPlaces
    <3> QED
      BY <1>1, <1>3, <3>1
  <2>3. Moved(At, At', "posting", "lost", X)
    BY <2>1, <2>2, AtPlaces DEF Moved
  <2> QED
    BY <1>1, <2>3, AtMove
<1>5. HoldsOK' /\ vPosting' \in [VStarts -> Seq(Nat)] /\ vSnd' \in [VStarts -> {"none", "spawned", "select", "post", "backoff", "done"}]
  BY <1>1, EmptySequence, SndHolds
<1>6. VortexTypeOK'
  BY <1>1, <1>5 DEF VortexInv, VortexTypeOK
<1>7. NoneTwice'
  BY <1>1, <1>3 DEF VortexInv, NoneTwice
<1> QED
  BY <1>4, <1>5, <1>6, <1>7 DEF VortexInv

LEMMA VBatchTimerKeeps == ASSUME VortexInv, NEW i \in VStarts, VBatchTimer(i) PROVE VortexInv'
<1>1. PICK to \in {"select", "push"} :
        /\ vAcc[i] = "select" /\ vAcc' = [vAcc EXCEPT ![i] = to]
        /\ UNCHANGED <<vNext, vQueue, eventsWithoutID, eventsWithID, vHeld, vBatch, vBatches, vPosting, event, vDelivered, lost, starts, vSnd, worker>>
  BY DEF VBatchTimer, Enter, input, control, accumulator, sender, workers
<1>2. vHeld[i] = <<>> /\ vHeld \in [VStarts -> Seq(Nat)]
  BY <1>1 DEF VortexInv, VortexTypeOK, HoldsOK
<1>3. vHeld' = [vHeld EXCEPT ![i] = <<>>]
  BY <1>1, <1>2
<1>4. HoldsOK' /\ vAcc' \in [VStarts -> {"none", "spawned", "select", "giveID", "giveNoID", "push", "done"}]
  BY <1>1, <1>3, EmptySequence, AccHolds
<1>5. VortexTypeOK'
  BY <1>1, <1>4 DEF VortexInv, VortexTypeOK
<1>6. NoneTwice' /\ Partition(At', 1..(vNext' - 1))
  BY <1>1, NothingMoves
<1> QED
  BY <1>4, <1>5, <1>6 DEF VortexInv

LEMMA WorkerCancelledKeeps == ASSUME VortexInv, NEW w \in WorkerIDs, WorkerCancelled(w) PROVE VortexInv'
<1>1. PICK to \in {"gone"} :
        /\ worker[w] = "select" /\ worker' = [worker EXCEPT ![w] = to]
        /\ UNCHANGED <<vNext, vQueue, eventsWithoutID, eventsWithID, vHeld, vBatch, vBatches, vPosting, event, vDelivered, lost, starts, vAcc, vSnd>>
  BY DEF WorkerCancelled, input, control, accumulator, sender, workers
<1>2. event[w] = <<>> /\ event \in [WorkerIDs -> Seq(Nat)]
  BY <1>1 DEF VortexInv, VortexTypeOK, HoldsOK
<1>3. event' = [event EXCEPT ![w] = <<>>]
  BY <1>1, <1>2
<1>4. HoldsOK' /\ worker' \in [WorkerIDs -> {"none", "select", "offer", "gone"}]
  BY <1>1, <1>3, EmptySequence, WorkerHolds
<1>5. VortexTypeOK'
  BY <1>1, <1>4 DEF VortexInv, VortexTypeOK
<1>6. NoneTwice' /\ Partition(At', 1..(vNext' - 1))
  BY <1>1, NothingMoves
<1> QED
  BY <1>4, <1>5, <1>6 DEF VortexInv

LEMMA VBackoffEndsKeeps == ASSUME VortexInv, NEW i \in VStarts, VBackoffEnds(i) PROVE VortexInv'
<1>1. PICK to \in {"select"} :
        /\ vSnd[i] = "backoff" /\ vSnd' = [vSnd EXCEPT ![i] = to]
        /\ UNCHANGED <<vNext, vQueue, eventsWithoutID, eventsWithID, vHeld, vBatch, vBatches, vPosting, event, vDelivered, lost, starts, vAcc, worker>>
  BY DEF VBackoffEnds, input, control, accumulator, sender, workers
<1>2. vPosting[i] = <<>> /\ vPosting \in [VStarts -> Seq(Nat)]
  BY <1>1 DEF VortexInv, VortexTypeOK, HoldsOK
<1>3. vPosting' = [vPosting EXCEPT ![i] = <<>>]
  BY <1>1, <1>2
<1>4. HoldsOK' /\ vSnd' \in [VStarts -> {"none", "spawned", "select", "post", "backoff", "done"}]
  BY <1>1, <1>3, EmptySequence, SndHolds
<1>5. VortexTypeOK'
  BY <1>1, <1>4 DEF VortexInv, VortexTypeOK
<1>6. NoneTwice' /\ Partition(At', 1..(vNext' - 1))
  BY <1>1, NothingMoves
<1> QED
  BY <1>4, <1>5, <1>6 DEF VortexInv

LEMMA VSenderStopsKeeps == ASSUME VortexInv, NEW i \in VStarts, VSenderStops(i) PROVE VortexInv'
<1>1. PICK to \in {"done"} :
        /\ vSnd[i] = "select" /\ vSnd' = [vSnd EXCEPT ![i] = to]
        /\ UNCHANGED <<vNext, vQueue, eventsWithoutID, eventsWithID, vHeld, vBatch, vBatches, vPosting, event, vDelivered, lost, starts, vAcc, worker>>
  BY DEF VSenderStops, input, control, accumulator, sender, workers
<1>2. vPosting[i] = <<>> /\ vPosting \in [VStarts -> Seq(Nat)]
  BY <1>1 DEF VortexInv, VortexTypeOK, HoldsOK
<1>3. vPosting' = [vPosting EXCEPT ![i] = <<>>]
  BY <1>1, <1>2
<1>4. HoldsOK' /\ vSnd' \in [VStarts -> {"none", "spawned", "select", "post", "backoff", "done"}]
  BY <1>1, <1>3, EmptySequence, SndHolds
<1>5. VortexTypeOK'
  BY <1>1, <1>4 DEF VortexInv, VortexTypeOK
<1>6. NoneTwice' /\ Partition(At', 1..(vNext' - 1))
  BY <1>1, NothingMoves
<1> QED
  BY <1>4, <1>5, <1>6 DEF VortexInv

LEMMA TakeWithIDKeeps == ASSUME VortexInv, NEW i \in VStarts, TakeWithID(i) PROVE VortexInv'
<1> DEFINE h == Head(eventsWithID)
           b == Append(vBatch[i], h)
<1>1. /\ vAcc[i] = "select" /\ eventsWithID # <<>> /\ eventsWithID' = Tail(eventsWithID)
      /\ vBatch' = [vBatch EXCEPT ![i] = b] /\ vAcc' = [vAcc EXCEPT ![i] = "select"]
      /\ UNCHANGED <<vNext, vQueue, eventsWithoutID, vHeld, vBatches, vPosting, event, vDelivered, lost, starts, vSnd, worker>>
  BY DEF TakeWithID, Enter, input, control, accumulator, sender, workers
<1>2. /\ eventsWithID \in Seq(Nat) /\ IsInjective(eventsWithID) /\ vBatch \in [VStarts -> Seq(Nat)] /\ Apart(vBatch)
      /\ vHeld \in [VStarts -> Seq(Nat)] /\ vHeld[i] = <<>>
  BY <1>1 DEF VortexInv, VortexTypeOK, NoneTwice, HoldsOK
<1>3. /\ h \in Nat /\ eventsWithID' \in Seq(Nat) /\ Range(eventsWithID) = {h} \cup Range(eventsWithID')
      /\ IsInjective(eventsWithID') /\ h \notin Range(eventsWithID')
  <2>1. Shifted(eventsWithID, eventsWithID')
    BY <1>1, <1>2 DEF Shifted
  <2> QED
    BY <2>1, ShiftedIs DEF Shorter
<1> HIDE DEF h
<1>4. h \notin AllOf(vBatch) /\ Range(vBatch[i]) \subseteq AllOf(vBatch) /\ vBatch[i] \in Seq(Nat) /\ IsInjective(vBatch[i])
  <2>1. Range(eventsWithID) \cap AllOf(vBatch) = {}
    BY AtPlaces, AtApart
  <2>2. i \in DOMAIN vBatch
    BY <1>2
  <2> QED
    BY <1>2, <1>3, <2>1, <2>2, AllIn DEF Apart
<1>5. b \in Seq(Nat) /\ Range(b) = Range(vBatch[i]) \cup {h} /\ IsInjective(b)
  <2>1. b \in Seq(Nat)
    BY <1>3, <1>4, SMT
  <2> QED
    BY <1>4, <2>1, RangeAppend, InjectiveAppend
<1> HIDE DEF b
<1>6. Apart(vBatch') /\ AllOf(vBatch') = AllOf(vBatch) \cup {h}
  <2>1. Replaced(vBatch, vBatch', i, b)
    BY <1>1, <1>2, <1>4, <1>5 DEF Replaced
  <2>2. StillApart(vBatch, vBatch', i, b)
    BY <2>1, ApartExcept
  <2> QED
    BY <1>4, <1>5, <2>2 DEF StillApart
<1>7. Partition(At', 1..(vNext' - 1))
  <2>0. UNCHANGED <<vQueue, eventsWithoutID, vHeld, vBatches, vPosting, event, vDelivered, lost>>
    BY <1>1
  <2>1. At' = [At EXCEPT !["withID"] = Range(eventsWithID'), !["batch"] = AllOf(vBatch')]
    BY <2>0, SMTT(60) DEF At
  <2>2. Range(eventsWithID') = At["withID"] \ {h} /\ AllOf(vBatch') = At["batch"] \cup {h} /\ {h} \subseteq At["withID"]
    <3>1. At["withID"] = Range(eventsWithID) /\ At["batch"] = AllOf(vBatch)
      BY AtPlaces
    <3> QED
      BY <1>3, <1>6, <3>1
  <2>3. Moved(At, At', "withID", "batch", {h})
    BY <2>1, <2>2, AtPlaces DEF Moved
  <2> QED
    BY <1>1, <2>3, AtMove
<1>8. HoldsOK' /\ vAcc' \in [VStarts -> {"none", "spawned", "select", "giveID", "giveNoID", "push", "done"}]
  <2>1. vHeld' = [vHeld EXCEPT ![i] = <<>>]
    BY <1>1, <1>2
  <2> QED
    BY <1>1, <2>1, EmptySequence, AccHolds
<1>9. VortexTypeOK'
  <2>1. vBatch' \in [VStarts -> Seq(Nat)]
    BY <1>1, <1>2, <1>5
  <2> QED
    BY <1>1, <1>3, <1>8, <2>1 DEF VortexInv, VortexTypeOK
<1>10. NoneTwice'
  BY <1>1, <1>3, <1>6 DEF VortexInv, NoneTwice
<1> QED
  BY <1>7, <1>8, <1>9, <1>10 DEF VortexInv

LEMMA VPushBatchKeeps == ASSUME VortexInv, NEW i \in VStarts, VPushBatch(i) PROVE VortexInv'
<1> DEFINE b == vBatch[i]
           s == vHeld[i]
           X == Range(b)
           Y == Range(s)
<1>1. /\ vAcc[i] = "push" /\ vBatches' = Append(vBatches, b) /\ vBatch' = [vBatch EXCEPT ![i] = s]
      /\ vHeld' = [vHeld EXCEPT ![i] = <<>>] /\ vAcc' = [vAcc EXCEPT ![i] = "select"]
      /\ UNCHANGED <<vNext, vQueue, eventsWithoutID, eventsWithID, vPosting, event, vDelivered, lost, starts, vSnd, worker>>
  BY DEF VPushBatch, Enter, input, control, accumulator, sender, workers
<1>2. /\ vBatches \in Seq(Seq(Nat)) /\ Apart(vBatches) /\ vBatch \in [VStarts -> Seq(Nat)] /\ Apart(vBatch)
      /\ vHeld \in [VStarts -> Seq(Nat)] /\ Apart(vHeld)
  BY DEF VortexInv, VortexTypeOK, NoneTwice
<1>3. /\ Apart(vHeld') /\ AllOf(vHeld') = AllOf(vHeld) \ Y /\ s \in Seq(Nat) /\ IsInjective(s) /\ Y \subseteq AllOf(vHeld)
  <2>1. Emptied(vHeld, vHeld', i, VStarts)
    BY <1>1, <1>2 DEF Emptied
  <2> QED
    BY <2>1, EmptiedIs DEF NowEmpty
<1>4. b \in Seq(Nat) /\ IsInjective(b) /\ X \subseteq AllOf(vBatch) /\ i \in DOMAIN vBatch
  BY <1>2, AllIn DEF Apart
<1> HIDE DEF b, s
<1>5. AllOf(vBatches) \cap X = {} /\ Y \cap AllOf(vBatch) = {}
  <2>1. AllOf(vBatches) \cap AllOf(vBatch) = {} /\ AllOf(vHeld) \cap AllOf(vBatch) = {}
    BY AtPlaces, AtApart
  <2> QED
    BY <1>3, <1>4, <2>1
<1>6. Apart(vBatches') /\ AllOf(vBatches') = AllOf(vBatches) \cup X /\ vBatches' \in Seq(Seq(Nat))
  <2>1. Append(vBatches, b) \in Seq(Seq(Nat))
    BY <1>2, <1>4, SMT
  <2> QED
    BY <1>1, <1>2, <1>4, <1>5, <2>1, ApartAppend, AllAppend
<1>7. Apart(vBatch') /\ AllOf(vBatch') = (AllOf(vBatch) \ X) \cup Y
  <2>1. Replaced(vBatch, vBatch', i, s)
    BY <1>1, <1>2, <1>3, <1>4, <1>5 DEF Replaced
  <2>2. StillApart(vBatch, vBatch', i, s)
    BY <2>1, ApartExcept
  <2> QED
    BY <2>2 DEF StillApart, b
<1> HIDE DEF X, Y
<1>8. Partition(At', 1..(vNext' - 1))
  <2> DEFINE mid == [At EXCEPT !["batch"] = AllOf(vBatch) \ X, !["batches"] = AllOf(vBatches')]
  <2>0. UNCHANGED <<vQueue, eventsWithoutID, eventsWithID, vPosting, event, vDelivered, lost>>
    BY <1>1
  <2>1. At' = [At EXCEPT !["batch"] = AllOf(vBatch'), !["batches"] = AllOf(vBatches'), !["held"] = AllOf(vHeld')]
    BY <2>0, SMTT(60) DEF At
  <2>2. /\ DOMAIN mid = DOMAIN At /\ mid["batch"] = At["batch"] \ X /\ mid["batches"] = At["batches"] \cup X
        /\ \A n \in DOMAIN At : n # "batch" /\ n # "batches" => mid[n] = At[n]
    BY <1>6, AtPlaces
  <2>3. /\ DOMAIN At' = DOMAIN mid /\ At'["held"] = mid["held"] \ Y /\ At'["batch"] = mid["batch"] \cup Y
        /\ \A n \in DOMAIN mid : n # "held" /\ n # "batch" => At'[n] = mid[n]
    BY <1>3, <1>7, <2>1, AtPlaces
  <2>4. /\ "batch" \in DOMAIN At /\ "batches" \in DOMAIN At /\ "held" \in DOMAIN At
        /\ X \subseteq At["batch"] /\ Y \subseteq mid["held"]
    BY <1>3, <1>4, <2>2, AtPlaces
  <2> HIDE DEF mid
  <2>5. Moved(At, mid, "batch", "batches", X)
    BY <2>2, <2>4 DEF Moved
  <2>6. Moved(mid, At', "held", "batch", Y)
    BY <2>2, <2>3, <2>4 DEF Moved
  <2>7. Partition(mid, 1..(vNext - 1))
    BY <2>5, Move DEF VortexInv
  <2>8. Partition(At', 1..(vNext - 1))
    BY <2>6, <2>7, Move
  <2> QED
    BY <1>1, <2>8
<1>9. HoldsOK' /\ vHeld' \in [VStarts -> Seq(Nat)] /\ vAcc' \in [VStarts -> {"none", "spawned", "select", "giveID", "giveNoID", "push", "done"}]
  BY <1>1, EmptySequence, AccHolds
<1>10. VortexTypeOK'
  <2>1. vBatch' \in [VStarts -> Seq(Nat)]
    BY <1>1, <1>2, <1>3
  <2> QED
    BY <1>1, <1>6, <1>9, <2>1 DEF VortexInv, VortexTypeOK
<1>11. NoneTwice'
  BY <1>1, <1>3, <1>6, <1>7 DEF VortexInv, NoneTwice
<1> QED
  BY <1>8, <1>9, <1>10, <1>11 DEF VortexInv

LEMMA VAccumulatorStopsKeeps == ASSUME VortexInv, NEW i \in VStarts, VAccumulatorStops(i) PROVE VortexInv'
<1> DEFINE X == Range(vBatch[i])
           Y == Range(vHeld[i])
<1>1. /\ vAcc[i] \in {"select", "giveID", "giveNoID", "push"} /\ lost' = (lost \cup X) \cup Y
      /\ vBatch' = [vBatch EXCEPT ![i] = <<>>] /\ vHeld' = [vHeld EXCEPT ![i] = <<>>]
      /\ vAcc' = [vAcc EXCEPT ![i] = "done"]
      /\ UNCHANGED <<vNext, vQueue, eventsWithoutID, eventsWithID, vBatches, vPosting, event, vDelivered, starts, vSnd, worker>>
  BY DEF VAccumulatorStops, Stopped, input, control, accumulator, sender, workers
<1>2. /\ vBatch \in [VStarts -> Seq(Nat)] /\ Apart(vBatch) /\ vHeld \in [VStarts -> Seq(Nat)] /\ Apart(vHeld)
  BY DEF VortexInv, VortexTypeOK, NoneTwice
<1>3. Apart(vHeld') /\ AllOf(vHeld') = AllOf(vHeld) \ Y /\ Y \subseteq AllOf(vHeld)
  <2>1. Emptied(vHeld, vHeld', i, VStarts)
    BY <1>1, <1>2 DEF Emptied
  <2> QED
    BY <2>1, EmptiedIs DEF NowEmpty
<1>4. /\ Apart(vBatch') /\ AllOf(vBatch') = AllOf(vBatch) \ X /\ X \subseteq AllOf(vBatch)
      /\ vBatch' \in [VStarts -> Seq(Nat)]
  <2>1. Emptied(vBatch, vBatch', i, VStarts)
    BY <1>1, <1>2 DEF Emptied
  <2> QED
    BY <2>1, EmptiedIs DEF NowEmpty
<1> HIDE DEF X, Y
<1>5. Partition(At', 1..(vNext' - 1))
  <2> DEFINE mid == [At EXCEPT !["batch"] = AllOf(vBatch'), !["lost"] = lost \cup X]
  <2>0. UNCHANGED <<vNext, vQueue, eventsWithoutID, eventsWithID, vBatches, vPosting, event, vDelivered, starts, vSnd, worker>>
    BY <1>1
  <2>1. At' = [At EXCEPT !["batch"] = AllOf(vBatch'), !["lost"] = lost', !["held"] = AllOf(vHeld')]
    BY <2>0, SMTT(60) DEF At
  <2>2. /\ DOMAIN mid = DOMAIN At /\ mid["batch"] = At["batch"] \ X /\ mid["lost"] = At["lost"] \cup X
        /\ \A n \in DOMAIN At : n # "batch" /\ n # "lost" => mid[n] = At[n]
    BY <1>4, AtPlaces
  <2>3. /\ DOMAIN At' = DOMAIN mid /\ At'["held"] = mid["held"] \ Y /\ At'["lost"] = mid["lost"] \cup Y
        /\ \A n \in DOMAIN mid : n # "held" /\ n # "lost" => At'[n] = mid[n]
    BY <1>1, <1>3, <2>1, AtPlaces
  <2>4. /\ "batch" \in DOMAIN At /\ "lost" \in DOMAIN At /\ "held" \in DOMAIN At
        /\ X \subseteq At["batch"] /\ Y \subseteq mid["held"]
    BY <1>3, <1>4, <2>2, AtPlaces, ZenonT(40)
  <2> HIDE DEF mid
  <2>5. Moved(At, mid, "batch", "lost", X)
    BY <2>2, <2>4 DEF Moved
  <2>6. Moved(mid, At', "held", "lost", Y)
    BY <2>2, <2>3, <2>4 DEF Moved
  <2>7. Partition(mid, 1..(vNext - 1))
    BY <2>5, Move DEF VortexInv
  <2>8. Partition(At', 1..(vNext - 1))
    BY <2>6, <2>7, Move
  <2> QED
    BY <1>1, <2>8
<1>6. HoldsOK' /\ vHeld' \in [VStarts -> Seq(Nat)] /\ vAcc' \in [VStarts -> {"none", "spawned", "select", "giveID", "giveNoID", "push", "done"}]
  BY <1>1, EmptySequence, AccHolds
<1>7. VortexTypeOK'
  BY <1>1, <1>4, <1>6 DEF VortexInv, VortexTypeOK
<1>8. NoneTwice'
  BY <1>1, <1>3, <1>4 DEF VortexInv, NoneTwice
<1> QED
  BY <1>5, <1>6, <1>7, <1>8 DEF VortexInv

LEMMA VTakeBatchKeeps == ASSUME VortexInv, NEW i \in VStarts, VTakeBatch(i) PROVE VortexInv'
<1> DEFINE b == Head(vBatches)
           X == Range(b)
<1>1. /\ vSnd[i] = "select" /\ vBatches # <<>> /\ vBatches' = Tail(vBatches)
      /\ vPosting' = [vPosting EXCEPT ![i] = b] /\ vSnd' = [vSnd EXCEPT ![i] = "post"]
      /\ UNCHANGED <<vNext, vQueue, eventsWithoutID, eventsWithID, vHeld, vBatch, event, vDelivered, lost, starts, vAcc, worker>>
  BY DEF VTakeBatch, input, control, accumulator, sender, workers
<1>2. /\ vBatches \in Seq(Seq(Nat)) /\ Apart(vBatches) /\ vPosting \in [VStarts -> Seq(Nat)] /\ Apart(vPosting)
      /\ vPosting[i] = <<>>
  BY <1>1 DEF VortexInv, VortexTypeOK, NoneTwice, HoldsOK
<1>3. b \in Seq(Nat) /\ vBatches' \in Seq(Seq(Nat)) /\ IsInjective(b) /\ Apart(vBatches')
  BY <1>1, <1>2, RangeTail, ApartTail
<1>4. X \subseteq AllOf(vBatches) /\ AllOf(vBatches') = AllOf(vBatches) \ X
  <2>1. AllOf(vBatches) = X \cup AllOf(vBatches')
    BY <1>1, <1>2, AllTail
  <2>2. X \cap AllOf(vBatches') = {}
    BY <1>1, <1>2, ApartTail
  <2> HIDE DEF X
  <2> QED
    BY <2>1, <2>2
<1> HIDE DEF b
<1>5. Apart(vPosting') /\ AllOf(vPosting') = AllOf(vPosting) \cup X
  <2>1. AllOf(vBatches) \cap AllOf(vPosting) = {}
    BY AtPlaces, AtApart
  <2>2. Filled(vPosting, vPosting', i, b, VStarts)
    BY <1>1, <1>2, <1>3, <1>4, <2>1 DEF Filled
  <2>3. NowHas(vPosting, vPosting', i, b, VStarts)
    BY <2>2, FilledIs
  <2> QED
    BY <2>3 DEF NowHas
<1> HIDE DEF X
<1>6. Partition(At', 1..(vNext' - 1))
  <2>0. UNCHANGED <<vQueue, eventsWithoutID, eventsWithID, vHeld, vBatch, event, vDelivered, lost>>
    BY <1>1
  <2>1. At' = [At EXCEPT !["batches"] = AllOf(vBatches'), !["posting"] = AllOf(vPosting')]
    BY <2>0, SMTT(60) DEF At
  <2>2. AllOf(vBatches') = At["batches"] \ X /\ AllOf(vPosting') = At["posting"] \cup X /\ X \subseteq At["batches"]
    <3>1. At["batches"] = AllOf(vBatches) /\ At["posting"] = AllOf(vPosting)
      BY AtPlaces
    <3> QED
      BY <1>4, <1>5, <3>1
  <2>3. Moved(At, At', "batches", "posting", X)
    BY <2>1, <2>2, AtPlaces DEF Moved
  <2> QED
    BY <1>1, <2>3, AtMove
<1>7. HoldsOK' /\ vPosting' \in [VStarts -> Seq(Nat)] /\ vSnd' \in [VStarts -> {"none", "spawned", "select", "post", "backoff", "done"}]
  BY <1>1, <1>3, SndHolds
<1>8. VortexTypeOK'
  BY <1>1, <1>3, <1>7 DEF VortexInv, VortexTypeOK
<1>9. NoneTwice'
  BY <1>1, <1>3, <1>5 DEF VortexInv, NoneTwice
<1> QED
  BY <1>6, <1>7, <1>8, <1>9 DEF VortexInv

LEMMA VortexQueueEventKeeps == ASSUME VortexInv, NEW e \in Entities, VortexQueueEvent(e) PROVE VortexInv'
<1> DEFINE S == 1..(vNext - 1)
<1>1. /\ vNext' = vNext + 1 /\ UNCHANGED <<eventsWithoutID, eventsWithID, vHeld, vBatch, vBatches, vPosting, event, vDelivered, starts, vAcc, vSnd, worker>>
      /\ \/ vQueue' = Append(vQueue, vNext) /\ lost' = lost
         \/ lost' = lost \cup {vNext} /\ vQueue' = vQueue
  BY DEF VortexQueueEvent, input, control, accumulator, sender, workers
<1>2. vNext \in Nat \ {0} /\ vQueue \in Seq(Nat) /\ IsInjective(vQueue) /\ Partition(At, S)
  BY DEF VortexInv, VortexTypeOK, NoneTwice
<1>3. vNext \notin S /\ vNext + 1 \in Nat \ {0} /\ 1..((vNext + 1) - 1) = S \cup {vNext}
  BY <1>2, SMT
<1> HIDE DEF S
<1>4. \A n \in DOMAIN At : vNext \notin At[n]
  <2>1. Parts(At, S)
    BY <1>2, PartitionIs
  <2> QED
    BY <1>3, <2>1 DEF Parts
<1>5. /\ vQueue' \in Seq(Nat) /\ IsInjective(vQueue')
      /\ \/ Range(vQueue') = Range(vQueue) \cup {vNext} /\ lost' = lost
         \/ lost' = lost \cup {vNext} /\ vQueue' = vQueue
  <2>1. Append(vQueue, vNext) \in Seq(Nat)
    BY <1>2, SMT
  <2>2. vNext \notin Range(vQueue)
    BY <1>4, AtPlaces
  <2>3. Range(Append(vQueue, vNext)) = Range(vQueue) \cup {vNext} /\ IsInjective(Append(vQueue, vNext))
    BY <1>2, <2>2, RangeAppend, InjectiveAppend
  <2> QED
    BY <1>1, <1>2, <2>1, <2>3
<1>6. Partition(At', S \cup {vNext})
  <2>0. UNCHANGED <<eventsWithoutID, eventsWithID, vHeld, vBatch, vBatches, vPosting, event, vDelivered, starts, vAcc, vSnd, worker>>
    BY <1>1
  <2>1. CASE Range(vQueue') = Range(vQueue) \cup {vNext} /\ lost' = lost
    <3>1. lost' = lost
      BY <2>1
    <3>2. At' = [At EXCEPT !["queue"] = Range(vQueue')]
      BY <2>0, <3>1, SMTT(60) DEF At
    <3>3. Entered(At, At', "queue", vNext)
      BY <2>1, <3>2, AtPlaces DEF Entered
    <3> QED
      BY <1>2, <1>3, <3>3, Enters
  <2>2. CASE lost' = lost \cup {vNext} /\ vQueue' = vQueue
    <3>1. vQueue' = vQueue
      BY <2>2
    <3>2. At' = [At EXCEPT !["lost"] = lost']
      BY <2>0, <3>1, SMTT(60) DEF At
    <3>3. Entered(At, At', "lost", vNext)
      BY <2>2, <3>2, AtPlaces DEF Entered
    <3> QED
      BY <1>2, <1>3, <3>3, Enters
  <2> QED
    BY <1>5, <2>1, <2>2
<1>7. Partition(At', 1..(vNext' - 1))
  BY <1>1, <1>3, <1>6
<1>8. VortexTypeOK'
  BY <1>1, <1>3, <1>5 DEF VortexInv, VortexTypeOK
<1>9. NoneTwice'
  BY <1>1, <1>5 DEF VortexInv, NoneTwice
<1>10. HoldsOK'
  BY <1>1 DEF VortexInv, HoldsOK
<1> QED
  BY <1>7, <1>8, <1>9, <1>10 DEF VortexInv

LEMMA VortexStartKeeps == ASSUME VortexInv, VortexStart PROVE VortexInv'
<1> DEFINE k == starts + 1
<1>1. /\ starts < MaxStarts /\ starts' = k /\ UNCHANGED <<vNext, vQueue, eventsWithoutID, eventsWithID, vHeld, vBatch, vBatches, vPosting, event, vDelivered, lost, worker>>
      /\ vAcc' = [vAcc EXCEPT ![k] = "spawned"] /\ vSnd' = [vSnd EXCEPT ![k] = "spawned"]
  BY DEF VortexStart, input, control, accumulator, sender, workers
<1>2. /\ starts \in 0..MaxStarts /\ HoldsOK
      /\ vAcc \in [VStarts -> {"none", "spawned", "select", "giveID", "giveNoID", "push", "done"}]
      /\ vSnd \in [VStarts -> {"none", "spawned", "select", "post", "backoff", "done"}]
  BY DEF VortexInv, VortexTypeOK
<1>3. k \in VStarts /\ k \in 0..MaxStarts /\ starts < k /\ \A j \in VStarts : k < j => starts < j /\ j # k
  BY <1>1, <1>2, VortexBoundsAssumption, SMT DEF VStarts
<1> HIDE DEF k
<1>4. vAcc[k] = "none" /\ vSnd[k] = "none"
  BY <1>2, <1>3 DEF HoldsOK
<1>5. /\ vAcc'[k] = "spawned" /\ vSnd'[k] = "spawned"
      /\ \A j \in VStarts : j # k => vAcc'[j] = vAcc[j] /\ vSnd'[j] = vSnd[j]
  BY <1>1, <1>2, <1>3
<1>6. vAcc' \in [VStarts -> {"none", "spawned", "select", "giveID", "giveNoID", "push", "done"}] /\ vSnd' \in [VStarts -> {"none", "spawned", "select", "post", "backoff", "done"}]
  BY <1>1, <1>2
<1>7. VortexTypeOK'
  BY <1>1, <1>3, <1>6 DEF VortexInv, VortexTypeOK
<1>8. HoldsOK'
  <2>1. ASSUME NEW j \in VStarts, vAcc'[j] \notin {"giveID", "giveNoID", "push", "done"} PROVE vHeld'[j] = <<>>
    BY <1>1, <1>2, <1>4, <1>5, <2>1 DEF HoldsOK
  <2>2. ASSUME NEW j \in VStarts, vSnd'[j] # "post" PROVE vPosting'[j] = <<>>
    BY <1>1, <1>2, <1>4, <1>5, <2>2 DEF HoldsOK
  <2>3. ASSUME NEW j \in VStarts, starts' < j PROVE vAcc'[j] = "none" /\ vSnd'[j] = "none"
    BY <1>1, <1>2, <1>3, <1>5, <2>3, ZenonT(40) DEF HoldsOK
  <2>4. ASSUME NEW w \in WorkerIDs, vAcc'[w[1]] \in {"none", "spawned"} PROVE worker'[w] = "none"
    <3>1. w[1] \in VStarts
      BY DEF WorkerIDs
    <3> QED
      BY <1>1, <1>2, <1>4, <1>5, <2>4, <3>1 DEF HoldsOK
  <2>5. \A w \in WorkerIDs : worker'[w] # "offer" => event'[w] = <<>>
    BY <1>1, <1>2 DEF HoldsOK
  <2> QED
    BY <2>1, <2>2, <2>3, <2>4, <2>5 DEF HoldsOK
<1>9. NoneTwice' /\ Partition(At', 1..(vNext' - 1))
  BY <1>1, NothingMoves
<1> QED
  BY <1>7, <1>8, <1>9 DEF VortexInv

LEMMA EnterAccumulatorKeeps == ASSUME VortexInv, NEW i \in VStarts, EnterAccumulator(i) PROVE VortexInv'
<1>1. /\ vAcc[i] = "spawned" /\ vAcc' = [vAcc EXCEPT ![i] = "select"]
      /\ worker' = [w \in WorkerIDs |-> IF w[1] = i THEN "select" ELSE worker[w]]
      /\ UNCHANGED <<vNext, vQueue, eventsWithoutID, eventsWithID, vHeld, vBatch, vBatches, vPosting, event, vDelivered, lost, starts, vSnd>>
  BY DEF EnterAccumulator, input, control, accumulator, sender, workers
<1>2. /\ HoldsOK /\ worker \in [WorkerIDs -> {"none", "select", "offer", "gone"}]
      /\ vAcc \in [VStarts -> {"none", "spawned", "select", "giveID", "giveNoID", "push", "done"}]
  BY DEF VortexInv, VortexTypeOK
<1>3. vAcc'[i] = "select" /\ \A j \in VStarts : j # i => vAcc'[j] = vAcc[j]
  BY <1>1, <1>2
<1>4. /\ \A w \in WorkerIDs : w[1] = i => worker'[w] = "select" /\ worker[w] = "none"
      /\ \A w \in WorkerIDs : w[1] # i => worker'[w] = worker[w]
  BY <1>1, <1>2 DEF HoldsOK
<1>5. vAcc' \in [VStarts -> {"none", "spawned", "select", "giveID", "giveNoID", "push", "done"}] /\ worker' \in [WorkerIDs -> {"none", "select", "offer", "gone"}]
  BY <1>1, <1>2
<1>6. VortexTypeOK'
  BY <1>1, <1>5 DEF VortexInv, VortexTypeOK
<1>7. HoldsOK'
  <2>1. ASSUME NEW j \in VStarts, vAcc'[j] \notin {"giveID", "giveNoID", "push", "done"} PROVE vHeld'[j] = <<>>
    BY <1>1, <1>2, <1>3, <2>1 DEF HoldsOK
  <2>2. ASSUME NEW j \in VStarts, starts' < j PROVE vAcc'[j] = "none" /\ vSnd'[j] = "none"
    BY <1>1, <1>2, <1>3, <2>2 DEF HoldsOK
  <2>3. ASSUME NEW w \in WorkerIDs, vAcc'[w[1]] \in {"none", "spawned"} PROVE worker'[w] = "none"
    <3>1. w[1] \in VStarts
      BY DEF WorkerIDs
    <3>2. w[1] # i
      BY <1>3, <2>3
    <3>3. worker'[w] = worker[w] /\ vAcc'[w[1]] = vAcc[w[1]]
      BY <1>3, <1>4, <3>1, <3>2
    <3> QED
      BY <1>2, <2>3, <3>3 DEF HoldsOK
  <2>4. ASSUME NEW w \in WorkerIDs, worker'[w] # "offer" PROVE event'[w] = <<>>
    BY <1>1, <1>2, <1>4, <2>4 DEF HoldsOK
  <2>5. \A j \in VStarts : vSnd'[j] # "post" => vPosting'[j] = <<>>
    BY <1>1, <1>2 DEF HoldsOK
  <2> QED
    BY <2>1, <2>2, <2>3, <2>4, <2>5 DEF HoldsOK
<1>8. NoneTwice' /\ Partition(At', 1..(vNext' - 1))
  BY <1>1, NothingMoves
<1> QED
  BY <1>6, <1>7, <1>8 DEF VortexInv

LEMMA EnterSenderKeeps == ASSUME VortexInv, NEW i \in VStarts, EnterSender(i) PROVE VortexInv'
<1>1. vSnd[i] = "spawned" /\ vSnd' = [vSnd EXCEPT ![i] = "select"] /\ UNCHANGED <<vNext, vQueue, eventsWithoutID, eventsWithID, vHeld, vBatch, vBatches, vPosting, event, vDelivered, lost, starts, vAcc, worker>>
  BY DEF EnterSender, input, control, accumulator, sender, workers
<1>2. HoldsOK /\ vSnd \in [VStarts -> {"none", "spawned", "select", "post", "backoff", "done"}]
  BY DEF VortexInv, VortexTypeOK
<1>3. vSnd'[i] = "select" /\ (\A j \in VStarts : j # i => vSnd'[j] = vSnd[j]) /\ vSnd' \in [VStarts -> {"none", "spawned", "select", "post", "backoff", "done"}]
  BY <1>1, <1>2
<1>4. VortexTypeOK'
  BY <1>1, <1>3 DEF VortexInv, VortexTypeOK
<1>5. HoldsOK'
  <2>1. ASSUME NEW j \in VStarts, vSnd'[j] # "post" PROVE vPosting'[j] = <<>>
    BY <1>1, <1>2, <1>3, <2>1 DEF HoldsOK
  <2>2. ASSUME NEW j \in VStarts, starts' < j PROVE vAcc'[j] = "none" /\ vSnd'[j] = "none"
    BY <1>1, <1>2, <1>3, <2>2 DEF HoldsOK
  <2> QED
    BY <1>1, <1>2, <2>1, <2>2 DEF HoldsOK
<1>6. NoneTwice' /\ Partition(At', 1..(vNext' - 1))
  BY <1>1, NothingMoves
<1> QED
  BY <1>4, <1>5, <1>6 DEF VortexInv

LEMMA GoroutinesSame ==
  ASSUME VortexInv, UNCHANGED <<vNext, vQueue, eventsWithoutID, eventsWithID, vHeld, vBatch, vBatches, vPosting, event, vDelivered, lost, starts, vAcc, vSnd, worker>>
  PROVE  VortexInv'
<1>1. NoneTwice' /\ Partition(At', 1..(vNext' - 1))
  BY NothingMoves
<1>2. VortexTypeOK'
  BY DEF VortexInv, VortexTypeOK
<1>3. HoldsOK'
  BY DEF VortexInv, HoldsOK
<1> QED
  BY <1>1, <1>2, <1>3 DEF VortexInv

LEMMA VortexInvInit == VortexInit => VortexInv
<1> SUFFICES ASSUME VortexInit PROVE VortexInv
  OBVIOUS
<1>1. /\ Apart(vHeld) /\ AllOf(vHeld) = {} /\ vHeld \in [VStarts -> Seq(Nat)] /\ \A i \in VStarts : vHeld[i] = <<>>
      /\ Apart(vBatch) /\ AllOf(vBatch) = {} /\ vBatch \in [VStarts -> Seq(Nat)]
      /\ Apart(vPosting) /\ AllOf(vPosting) = {} /\ vPosting \in [VStarts -> Seq(Nat)]
      /\ \A i \in VStarts : vPosting[i] = <<>>
      /\ Apart(event) /\ AllOf(event) = {} /\ event \in [WorkerIDs -> Seq(Nat)] /\ \A w \in WorkerIDs : event[w] = <<>>
  BY AllEmpty DEF VortexInit
<1>2. /\ vQueue = <<>> /\ eventsWithoutID = <<>> /\ eventsWithID = <<>> /\ vBatches = <<>> /\ vDelivered = <<>>
      /\ vNext = 1 /\ starts = 0 /\ lost = {}
  BY DEF VortexInit
<1>3. VortexTypeOK
  <2>1. vNext \in Nat \ {0} /\ starts \in 0..MaxStarts /\ vBatches \in Seq(Seq(Nat))
    BY <1>2, VortexBoundsAssumption, SMT
  <2>2. /\ vAcc \in [VStarts -> {"none", "spawned", "select", "giveID", "giveNoID", "push", "done"}]
        /\ vSnd \in [VStarts -> {"none", "spawned", "select", "post", "backoff", "done"}]
        /\ worker \in [WorkerIDs -> {"none", "select", "offer", "gone"}]
    BY DEF VortexInit
  <2> QED
    BY <1>1, <1>2, <2>1, <2>2, EmptySequence DEF VortexTypeOK
<1>4. HoldsOK
  BY <1>1 DEF HoldsOK, VortexInit
<1>5. NoneTwice
  BY <1>1, <1>2, InjectiveEmpty DEF NoneTwice
<1>6. Partition(At, 1..(vNext - 1))
  <2>1. /\ Range(vQueue) = {} /\ Range(eventsWithoutID) = {} /\ Range(eventsWithID) = {} /\ AllOf(vBatches) = {}
        /\ Range(vDelivered) = {}
    BY <1>2, EmptySequence
  <2>2. \A n \in DOMAIN At : At[n] = {}
    BY <1>1, <1>2, <2>1, AtPlaces
  <2>3. 1..(vNext - 1) = {}
    BY <1>2, SMT
  <2>4. Parts(At, {})
    BY <2>2 DEF Parts
  <2> QED
    BY <2>3, <2>4, PartitionIs
<1> QED
  BY <1>3, <1>4, <1>5, <1>6 DEF VortexInv

LEMMA VortexInvStep == VortexInv /\ [VortexNext]_vortexVars => VortexInv'
<1> SUFFICES ASSUME VortexInv, [VortexNext]_vortexVars PROVE VortexInv'
  OBVIOUS
<1>1. CASE VortexStart
  BY <1>1, VortexStartKeeps
<1>2. CASE VortexStop
  BY <1>2, GoroutinesSame DEF VortexStop, input, control, accumulator, sender, workers
<1>3. CASE VortexStopReturns
  BY <1>3, GoroutinesSame DEF VortexStopReturns, input, control, accumulator, sender, workers
<1>4. ASSUME NEW e \in Entities, VortexQueueEvent(e) PROVE VortexInv'
  BY <1>4, VortexQueueEventKeeps
<1>5. ASSUME NEW i \in VStarts, EnterAccumulator(i) PROVE VortexInv'
  BY <1>5, EnterAccumulatorKeeps
<1>6. ASSUME NEW i \in VStarts, EnterSender(i) PROVE VortexInv'
  BY <1>6, EnterSenderKeeps
<1>7. ASSUME NEW i \in VStarts, Accumulating(i) PROVE VortexInv'
  BY <1>7, VTakeEventKeeps, GiveIDKeeps, GiveNoIDKeeps, TakeWithIDKeeps, TakeWithIDFullKeeps, VBatchTimerKeeps,
     VPushBatchKeeps DEF Accumulating
<1>8. ASSUME NEW i \in VStarts, VAccumulatorStops(i) PROVE VortexInv'
  BY <1>8, VAccumulatorStopsKeeps
<1>9. ASSUME NEW i \in VStarts, Posting(i) PROVE VortexInv'
  BY <1>9, VTakeBatchKeeps, VPostSucceedsKeeps, VPostFailsKeeps, VBackoffEndsKeeps DEF Posting
<1>10. ASSUME NEW i \in VStarts, VSenderStops(i) PROVE VortexInv'
  BY <1>10, VSenderStopsKeeps
<1>11. ASSUME NEW w \in WorkerIDs, Working(w) PROVE VortexInv'
  BY <1>11, WorkerTakesKeeps, WorkerCancelledKeeps, WorkerStopsKeeps DEF Working
<1>12. CASE UNCHANGED vortexVars
  BY <1>12, GoroutinesSame DEF vortexVars, input, control, accumulator, sender, workers
<1> QED
  BY <1>1, <1>2, <1>3, <1>4, <1>5, <1>6, <1>7, <1>8, <1>9, <1>10, <1>11, <1>12 DEF VortexNext

\* vortexEventSender: whatever goroutines of earlier Starts an early Stop left behind,
\* for any number of Starts, workers and events and any capacities, an event that was
\* queued is in exactly one place.
THEOREM VortexEventsOnce == VortexSpec => [](VortexTypeOK /\ VortexEventOnce)
<1>1. VortexInv => VortexTypeOK /\ VortexEventOnce
  BY VortexOnce DEF VortexInv
<1> QED
  BY <1>1, VortexInvInit, VortexInvStep, PTL DEF VortexSpec

=============================================================================
