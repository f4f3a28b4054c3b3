---------------------------- MODULE MCDeltaStore ----------------------------
(* DeltaStore on small instances: delta ids up to MaxID, journals of at most *)
(* MaxPending entries, at most MaxFaults disturbances and crashes.           *)
EXTENDS DeltaStoreInv, FiniteSets, TLC

CONSTANTS MaxID, MaxPending, MaxFaults, MaxSaves, MaxActive

VARIABLES
  hard,        \* journals may be cut or not open
  active,      \* the slots plugins report for, at most MaxActive
  faults,      \* disturbances and crashes so far
  saves        \* documents saved by plugins so far, when MaxSaves bounds them

mcvars == <<vars, hard, active, faults, saves>>

\* One slot, or slots of one entity, or slots of one plugin.
Shapes ==
  {S \in SUBSET Slots :
     /\ Cardinality(S) \in 1..MaxActive
     /\ \A s, t \in S : s[1] = t[1] \/ s[2] = t[2]}

Bounded == \A s \in Slots : ids'[s].mru <= MaxID /\ wr'[s] <= MaxPending

MCInit ==
  /\ Init
  /\ hard \in IF {"post", "open"} \subseteq Faults THEN BOOLEAN ELSE {TRUE}
  /\ active \in Shapes
  /\ faults = 0 /\ saves = 0

Working == Reap \/ Process \/ Backend
Failing == Disturbance \/ Crashes

\* MaxSaves = 0 leaves the number of saved documents unbounded.
MCSave ==
  /\ \E s \in active, c \in Content : SavePluginSource(s, c)
  /\ saves < MaxSaves \/ MaxSaves = 0
  /\ saves' = IF MaxSaves = 0 THEN 0 ELSE saves + 1
  /\ UNCHANGED faults

JournalFails ==
  \E p \in Plugins : StoreDeltaFails(p) \/ CrashInAppend(p) \/ CrashInArchive(p)

\* A second slot costs a fault.
FaultsLeft == faults + Cardinality(active) <= MaxFaults

MCNext ==
  /\ \/ MCSave
     \/ Working /\ UNCHANGED <<faults, saves>>
     \/ Failing /\ FaultsLeft /\ faults' = faults + 1 /\ UNCHANGED saves
  /\ Bounded
  /\ hard \/ ~JournalFails
  /\ UNCHANGED <<hard, active>>

MCSpec == MCInit /\ [][MCNext]_mcvars

\* A round of the inventory goroutine, once begun, runs to its end.
Round ==
  \/ pc # "idle" /\ (Reap \/ Process)
  \/ \E p \in Plugins : \E d \in posted[p] : BackendStores(p, d) \/ BackendRefuses(p, d)

Step(A) == A /\ UNCHANGED <<hard, active, faults, saves>>

\* The select of the inventory loop serves every ticker again and again, and the
\* backend does not put off the same delta for ever.
Fairness ==
  /\ WF_mcvars(Step(Round))
  /\ \A e \in Entities :
       /\ SF_mcvars(Step(UpdatePluginsInventoryCache(e)))
       /\ SF_mcvars(Step(CleanPluginDeltas(e) \/ RemoveEntityData(e)))
       /\ SF_mcvars(Step(SendDeltas(e, Readable(e))))
  /\ \A p \in Plugins :
       SF_mcvars(Step(\E d \in posted[p] : BackendStores(p, d) \/ BackendRefuses(p, d)))

FairSpec == MCSpec /\ Fairness

Symmetry == Permutations(Keys) \cup Permutations(Plugins) \cup Permutations(Entities)

-----------------------------------------------------------------------------
(* Liveness                                                                 *)

\* Once plugins and faults are quiet the backend holds the documents the plugins
\* saved last, unless a journal was lost; an empty document without a cached copy
\* is never sent.
Converges ==
  hard \/ <>[](\A s \in Slots : src[s] \in Content \ {EmptyContent} => bk[s].inv = src[s])

\* No journal of a plugin in the id map is posted for ever: it is emptied again
\* and again, also after it was corrupted.
JournalsDrain ==
  \A s \in Slots : []<>((pend[s] = {} /\ ~torn[s]) \/ s[1] \notin known \/ cache[s] = NoFile)
=============================================================================
