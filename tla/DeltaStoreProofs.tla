-------------------------- MODULE DeltaStoreProofs --------------------------
(* Proofs about DeltaStore, for any plugins, entities, keys and values: its  *)
(* types, facts about journals of deltas that no step of the store is needed *)
(* for (appending to one, storing its head, keeping what was not             *)
(* acknowledged), and, resting on them, that the delta ids fence off lost    *)
(* and repeated deltas for any number of crashes between file operations,    *)
(* failed requests and losses on the backend's side: the steps of the agent  *)
(* (saving, reaping, compacting, sending, applying the answer of the         *)
(* backend) keep the chain of deltas intact.                                 *)
EXTENDS DeltaStoreInv, WellFoundedInduction, TLAPS

USE Zenon

\* The step keeps the shape of the state.
Shaped == TypeOK => TypeOK'

LEMMA SlotInSlots ==
  ASSUME TypeOK, NEW p \in Plugins
  PROVE  Slot(p) \in Slots
BY DEF TypeOK, Slot, Slots

\* What truncating journals and clearing a plugin's files does to the types.
LEMMA ClearTypes ==
  ASSUME TypeOK, NEW S, ClearPluginDeltaStore(S)
  PROVE  /\ cache' \in [Slots -> File]
         /\ pend' \in [Slots -> SUBSET Entry]
         /\ torn' \in [Slots -> BOOLEAN]
         /\ wr' \in [Slots -> Nat]
BY DEF TypeOK, ClearPluginDeltaStore, Truncate, File

LEMMA TruncateTypes ==
  ASSUME TypeOK, NEW S, Truncate(S)
  PROVE  /\ pend' \in [Slots -> SUBSET Entry]
         /\ torn' \in [Slots -> BOOLEAN]
         /\ wr' \in [Slots -> Nat]
BY DEF TypeOK, Truncate

LEMMA NoRequestTypes ==
  ASSUME NoRequest
  PROVE  /\ block' \in SUBSET Plugins
         /\ posted' \in [Plugins -> SUBSET Entry]
         /\ unacked' \in [Plugins -> SUBSET Entry]
         /\ verdict' \in [Plugins -> {"ok", "refused", "deferred"}]
         /\ hint' \in [Plugins -> Hint]
BY SMT DEF NoRequest, NoHint, Hint

LEMMA FreshTypes ==
  /\ NoIDs \in [Slots -> PIEntity]
  /\ Fresh \in [known: SUBSET Plugins, ids: [Slots -> PIEntity]]
<1>1. NoIDs \in [Slots -> PIEntity]
  BY SMT DEF NoIDs, PIEntity
<1> QED
  BY <1>1 DEF Fresh

LEMMA NewStoreTypes ==
  ASSUME NewStore,
         src' \in [Slots -> File], cache' \in [Slots -> File],
         pend' \in [Slots -> SUBSET Entry], torn' \in [Slots -> BOOLEAN],
         wr' \in [Slots -> Nat],
         saved' = saved
  PROVE  Shaped
<1> SUFFICES ASSUME TypeOK PROVE TypeOK'
  BY DEF Shaped
<1>1. NoRequest
  BY DEF NewStore
<1> QED
  BY <1>1, NoRequestTypes DEF TypeOK, NewStore

LEMMA NewEntryType ==
  ASSUME TypeOK, NEW s \in Slots, HasDelta(s)
  PROVE  NewEntry(s) \in Entry
BY SMT, AbsentAssumption DEF TypeOK, HasDelta, NewEntry, Entry, EmptyContent, Content, File, PIEntity

LEMMA TypeReap ==
  ASSUME Reap
  PROVE  Shaped
<1> SUFFICES ASSUME TypeOK PROVE TypeOK'
  BY DEF Shaped
<1> USE DEF files, mem, ctl, request, clock
<1>1. ASSUME NEW e \in Entities, UpdatePluginsInventoryCache(e) PROVE TypeOK'
  BY <1>1 DEF UpdatePluginsInventoryCache, TypeOK
<1>2. ASSUME NEW p \in Plugins, DropCorruptPlugin(p) PROVE TypeOK'
  BY <1>2, ClearTypes, SlotInSlots DEF DropCorruptPlugin, TypeOK, File
<1>3. ASSUME NEW p \in Plugins, SkipUnchanged(p) PROVE TypeOK'
  BY <1>3 DEF SkipUnchanged, TypeOK
<1>4. ASSUME NEW p \in Plugins, StoreDelta(p) PROVE TypeOK'
  <2>1. Slot(p) \in Slots /\ NewEntry(Slot(p)) \in Entry
    BY <1>4, SlotInSlots, NewEntryType DEF StoreDelta
  <2>2. ids' \in [Slots -> PIEntity]
    <3>1. ids[Slot(p)] \in PIEntity /\ ids \in [Slots -> PIEntity]
      BY <2>1 DEF TypeOK
    <3>2. [ids[Slot(p)] EXCEPT !.mru = ids[Slot(p)].mru + 1] \in PIEntity
      BY SMT, <3>1 DEF PIEntity
    <3>3. ids' = [ids EXCEPT ![Slot(p)] =
                    [ids[Slot(p)] EXCEPT !.mru = ids[Slot(p)].mru + 1]]
      BY <1>4 DEF StoreDelta
    <3> QED
      BY <2>1, <3>1, <3>2, <3>3
  <2>3. pend' \in [Slots -> SUBSET Entry] /\ wr' \in [Slots -> Nat]
    BY SMT, <1>4, <2>1 DEF StoreDelta, TypeOK
  <2> QED
    BY <1>4, <2>2, <2>3 DEF StoreDelta, TypeOK
<1>5. ASSUME NEW p \in Plugins, StoreDeltaFails(p) PROVE TypeOK'
  BY <1>5 DEF StoreDeltaFails, TypeOK
<1>6. ASSUME ReplacePluginCacheFileWithSource PROVE TypeOK'
  BY <1>6, SlotInSlots DEF ReplacePluginCacheFileWithSource, TypeOK
<1>7. ASSUME FinishReap PROVE TypeOK'
  BY SMT, <1>7 DEF FinishReap, SaveState, TypeOK
<1> QED
  BY <1>1, <1>2, <1>3, <1>4, <1>5, <1>6, <1>7 DEF Reap

LEMMA PostTypes ==
  ASSUME TypeOK, NEW e \in Entities, NEW B \in SUBSET Plugins, Post(e, B)
  PROVE  /\ block' \in SUBSET Plugins
         /\ posted' \in [Plugins -> SUBSET Entry]
         /\ unacked' \in [Plugins -> SUBSET Entry]
         /\ verdict' \in [Plugins -> {"ok", "refused", "deferred"}]
         /\ hint' \in [Plugins -> Hint]
         /\ pc' = "post"
BY SMT DEF TypeOK, Post, NoHint, Hint, Slots

LEMMA AfterHintType ==
  ASSUME NEW pi \in PIEntity, NEW h \in Hint, NEW id \in Nat
  PROVE  AfterHint(pi, h, id) \in PIEntity
BY SMT DEF AfterHint, PIEntity, Hint

LEMMA TypeProcess ==
  ASSUME Process
  PROVE  Shaped
<1> SUFFICES ASSUME TypeOK PROVE TypeOK'
  BY DEF Shaped
<1> USE DEF files, mem, ctl, request, clock
<1>1. ASSUME NEW e \in Entities, CleanPluginDeltas(e) PROVE TypeOK'
  BY <1>1, TruncateTypes DEF CleanPluginDeltas, TypeOK
<1>2. ASSUME NEW e \in Entities, RemoveEntityData(e) PROVE TypeOK'
  BY <1>2 DEF RemoveEntityData, TypeOK, File
<1>3. ASSUME RemoveEntityCache PROVE TypeOK'
  BY <1>3, ClearTypes DEF RemoveEntityCache, TypeOK
<1>4. ASSUME NEW e \in Entities, NEW B \in SUBSET Plugins, SendDeltas(e, B)
      PROVE  TypeOK'
  BY <1>4, PostTypes DEF SendDeltas, Readable, Reaped, TypeOK
<1>5. ASSUME NEW B \in SUBSET Plugins, SendNextBlock(B) PROVE TypeOK'
  <2>1. ent \in Entities /\ Post(ent, B)
    BY <1>5 DEF SendNextBlock, TypeOK
  <2> QED
    BY <1>5, <2>1, PostTypes DEF SendNextBlock, TypeOK
<1>6. ASSUME NEW N \in SUBSET block, PostSucceeds(N) PROVE TypeOK'
  BY SMT, <1>6 DEF PostSucceeds, TypeOK, NoHint, Hint
<1>7. ASSUME NEW p \in Plugins, NEW d \in unacked[p], UpdateLastDeltaSent(p, d)
      PROVE  TypeOK'
  <2>1. d \in Entry /\ d.id \in Nat /\ Slot(p) \in Slots
    BY SMT, SlotInSlots DEF TypeOK, Entry
  <2>2. AfterHint(ids[Slot(p)], hint[p], d.id) \in PIEntity
    BY <2>1, AfterHintType DEF TypeOK
  <2>3. /\ cache' \in [Slots -> File] /\ pend' \in [Slots -> SUBSET Entry]
        /\ torn' \in [Slots -> BOOLEAN] /\ wr' \in [Slots -> Nat]
        /\ ids' \in [Slots -> PIEntity]
    <3>1. CASE p \in known
      <4>1. ids' = [ids EXCEPT ![Slot(p)] = AfterHint(ids[Slot(p)], hint[p], d.id)]
        BY <1>7, <3>1 DEF UpdateLastDeltaSent
      <4>2. ids' \in [Slots -> PIEntity]
        BY <2>2, <4>1 DEF TypeOK
      <4>3. ClearPluginDeltaStore(IF Clears(hint[p], d.id) THEN {Slot(p)} ELSE {})
        BY <1>7, <3>1 DEF UpdateLastDeltaSent
      <4> QED
        BY <4>2, <4>3, ClearTypes
    <3>2. CASE p \notin known
      BY <1>7, <3>2 DEF UpdateLastDeltaSent, TypeOK
    <3> QED
      BY <3>1, <3>2
  <2>4. unacked' \in [Plugins -> SUBSET Entry]
    BY <1>7 DEF UpdateLastDeltaSent, TypeOK
  <2> QED
    BY <1>7, <2>3, <2>4 DEF UpdateLastDeltaSent, TypeOK
<1>8. ASSUME NEW p \in Plugins, ArchivePlugin(p) PROVE TypeOK'
  BY <1>8, SlotInSlots DEF ArchivePlugin, KeepDeltas, TypeOK
<1>9. ASSUME FinishBlocks PROVE TypeOK'
  BY <1>9, NoRequestTypes DEF FinishBlocks, TypeOK
<1>10. ASSUME StartReset PROVE TypeOK'
  BY <1>10 DEF StartReset, TypeOK
<1>11. ASSUME NEW p \in Plugins, ResetAllDeltas(p) PROVE TypeOK'
  BY <1>11, ClearTypes DEF ResetAllDeltas, TypeOK
<1>12. ASSUME FinishReset PROVE TypeOK'
  BY <1>12 DEF FinishReset, SaveState, TypeOK
<1>13. ASSUME CompactStorage PROVE TypeOK'
  BY SMT, <1>13, ClearTypes DEF CompactStorage, TypeOK, NoIDs, PIEntity
<1>14. ASSUME SaveCompacted PROVE TypeOK'
  BY <1>14 DEF SaveCompacted, SaveState, TypeOK
<1>15. ASSUME SkipCompaction PROVE TypeOK'
  BY <1>15 DEF SkipCompaction, TypeOK
<1> QED
  BY <1>1, <1>2, <1>3, <1>4, <1>5, <1>6, <1>7, <1>8, <1>9, <1>10, <1>11, <1>12,
     <1>13, <1>14, <1>15 DEF Process

LEMMA TypeBackend ==
  ASSUME Backend
  PROVE  Shaped
<1> SUFFICES ASSUME TypeOK PROVE TypeOK'
  BY DEF Shaped
<1> USE DEF files, mem, ctl, request, clock
<1>1. ASSUME NEW p \in Plugins, NEW d \in posted[p], BackendStores(p, d)
      PROVE  TypeOK'
  <2>1. Slot(p) \in Slots /\ d \in Entry
    BY SlotInSlots DEF TypeOK
  <2>2. Stored(bk[Slot(p)], d) \in [has: BOOLEAN, last: Nat, inv: Content]
    BY SMT, <2>1 DEF TypeOK, Stored, MergePatch, Entry, Content
  <2>3. [reset |-> FALSE, next |-> d.id + 1, stored |-> d.id] \in Hint
    BY SMT, <2>1 DEF Entry, Hint
  <2> QED
    BY <1>1, <2>1, <2>2, <2>3 DEF BackendStores, TypeOK
<1>2. ASSUME NEW p \in Plugins, NEW d \in posted[p], BackendRefuses(p, d)
      PROVE  TypeOK'
  <2>1. Slot(p) \in Slots
    BY SlotInSlots
  <2>2. {[reset |-> TRUE, next |-> bk[Slot(p)].last + 1, stored |-> bk[Slot(p)].last],
         [reset |-> FALSE, next |-> 0, stored |-> 0]} \subseteq Hint
    BY SMT, <2>1 DEF TypeOK, Hint
  <2>3. PICK h \in Hint : hint' = [hint EXCEPT ![p] = h]
    BY <1>2, <2>2 DEF BackendRefuses
  <2>4. hint' \in [Plugins -> Hint] /\ posted' \in [Plugins -> SUBSET Entry]
    BY <1>2, <2>3 DEF BackendRefuses, TypeOK
  <2>5. verdict' \in [Plugins -> {"ok", "refused", "deferred"}]
    BY <1>2 DEF BackendRefuses, TypeOK
  <2> QED
    BY <1>2, <2>4, <2>5 DEF BackendRefuses, TypeOK
<1>3. ASSUME NEW p \in Plugins, NEW d \in posted[p], BackendDefers(p, d)
      PROVE  TypeOK'
  <2>1. Slot(p) \in Slots /\ d \in Entry
    BY SlotInSlots DEF TypeOK
  <2>2. [reset |-> FALSE, next |-> d.id, stored |-> bk[Slot(p)].last] \in Hint
    BY SMT, <2>1 DEF TypeOK, Entry, Hint
  <2> QED
    BY <1>3, <2>2 DEF BackendDefers, TypeOK
<1> QED
  BY <1>1, <1>2, <1>3 DEF Backend

LEMMA TypeDisturbance ==
  ASSUME Disturbance
  PROVE  Shaped
<1> SUFFICES ASSUME TypeOK PROVE TypeOK'
  BY DEF Shaped
<1> USE DEF files, mem, ctl, request, clock
<1>0. Forgotten \in [has: BOOLEAN, last: Nat, inv: Content]
  BY AbsentAssumption DEF Forgotten, EmptyContent, Content
<1>1. ASSUME PostFails PROVE TypeOK'
  BY <1>1, NoRequestTypes DEF PostFails, TypeOK
<1>2. ASSUME PostAnswersResetAll PROVE TypeOK'
  BY <1>2, NoRequestTypes DEF PostAnswersResetAll, TypeOK
<1>3. ASSUME NEW s \in Slots, BackendForgets(s) PROVE TypeOK'
  BY <1>3, <1>0 DEF BackendForgets, TypeOK
<1>4. ASSUME AgentIDChanges PROVE TypeOK'
  BY <1>4, <1>0 DEF AgentIDChanges, TypeOK
<1>5. ASSUME LongDisconnection PROVE TypeOK'
  BY <1>5 DEF LongDisconnection, TypeOK
<1> QED
  BY <1>1, <1>2, <1>3, <1>4, <1>5 DEF Disturbance

LEMMA TypeCrashes ==
  ASSUME Crashes
  PROVE  Shaped
<1> SUFFICES ASSUME TypeOK PROVE TypeOK'
  BY DEF Shaped
<1> USE DEF files
<1>1. ASSUME Crash PROVE TypeOK'
  BY <1>1, NewStoreTypes DEF Shaped, Crash, TypeOK
<1>2. ASSUME CrashInCopy PROVE TypeOK'
  <2>1. cache' \in [Slots -> File]
    BY <1>2 DEF CrashInCopy, TypeOK, File
  <2> QED
    BY <1>2, <2>1, NewStoreTypes DEF Shaped, CrashInCopy, TypeOK
<1>3. ASSUME NEW p \in Plugins, CrashInClear(p) PROVE TypeOK'
  <2>1. cache' \in [Slots -> File]
    BY <1>3 DEF CrashInClear, TypeOK, File
  <2> QED
    BY <1>3, <2>1, NewStoreTypes DEF Shaped, CrashInClear, TypeOK
<1>4. ASSUME NEW s \in Slots, CrashInSource(s) PROVE TypeOK'
  <2>1. src' \in [Slots -> File]
    BY <1>4 DEF CrashInSource, TypeOK, File
  <2> QED
    BY <1>4, <2>1, NewStoreTypes DEF Shaped, CrashInSource, TypeOK
<1>5. ASSUME NEW p \in Plugins, CrashInAppend(p) PROVE TypeOK'
  <2>1. torn' \in [Slots -> BOOLEAN]
    BY <1>5 DEF CrashInAppend, TypeOK
  <2> QED
    BY <1>5, <2>1, NewStoreTypes DEF Shaped, CrashInAppend, TypeOK
<1>6. ASSUME NEW p \in Plugins, CrashInArchive(p) PROVE TypeOK'
  BY <1>6, TruncateTypes, NewStoreTypes DEF Shaped, CrashInArchive, TypeOK
<1>7. ASSUME CrashInSaveState PROVE TypeOK'
  BY <1>7, NoRequestTypes, FreshTypes DEF CrashInSaveState, TypeOK
<1> QED
  BY <1>1, <1>2, <1>3, <1>4, <1>5, <1>6, <1>7 DEF Crashes

\* The state of the store, of the request in flight and of the backend keeps its
\* shape through every operation, fault and crash.
THEOREM TypeCorrect == Spec => []TypeOK
<1>1. Init => TypeOK
  <2>1. EmptyContent \in Content /\ NoHint \in Hint
    BY SMT, AbsentAssumption DEF EmptyContent, Content, NoHint, Hint
  <2>2. Init => bk \in [Slots -> [has: BOOLEAN, last: Nat, inv: Content]]
    BY SMT, <2>1 DEF Init
  <2>3. Init => /\ posted \in [Plugins -> SUBSET Entry]
                /\ unacked \in [Plugins -> SUBSET Entry]
                /\ verdict \in [Plugins -> {"ok", "refused", "deferred"}]
                /\ hint \in [Plugins -> Hint]
    BY SMT, <2>1 DEF Init
  <2>4. Init => /\ src \in [Slots -> File] /\ cache \in [Slots -> File]
                /\ pend \in [Slots -> SUBSET Entry] /\ torn \in [Slots -> BOOLEAN]
                /\ wr \in [Slots -> Nat]
    BY SMT DEF Init, File
  <2>5. Init => /\ ids \in [Slots -> PIEntity]
                /\ saved \in [known: SUBSET Plugins, ids: [Slots -> PIEntity]]
    BY FreshTypes DEF Init
  <2>6. Init => /\ dirty \in BOOLEAN /\ wipe \in BOOLEAN
                /\ known \in SUBSET Plugins /\ todo \in SUBSET Plugins
                /\ block \in SUBSET Plugins /\ ent \in Entities /\ cur \in Plugins
                /\ offline \in SUBSET Entities /\ removable \in SUBSET Entities
                /\ renamed \in SUBSET Entities /\ pc = "idle"
    BY DEF Init
  <2> QED
    BY <2>2, <2>3, <2>4, <2>5, <2>6 DEF TypeOK
<1>2. ASSUME TypeOK, [Next]_vars PROVE TypeOK'
  <2>1. ASSUME Save PROVE TypeOK'
    BY SMT, <1>2, <2>1 DEF Save, SavePluginSource, TypeOK, File, mem, ctl, request, clock
  <2>2. ASSUME UNCHANGED vars PROVE TypeOK'
    BY <1>2, <2>2 DEF TypeOK, vars, files, mem, ctl, request, clock
  <2> QED
    BY <1>2, <2>1, <2>2, TypeReap, TypeProcess, TypeBackend, TypeDisturbance,
       TypeCrashes DEF Shaped, Next
<1> QED
  BY <1>1, <1>2, PTL DEF Spec

-----------------------------------------------------------------------------
(* Journals                                                                 *)

LEMMA NatMin ==
  ASSUME NEW T \in SUBSET Nat, T # {}
  PROVE  \E x \in T : \A y \in T : x <= y
<1>1. \E x \in T : \A y \in T : ~ (<<y, x>> \in OpToRel(<, Nat))
  BY NatLessThanWellFounded, WFMin
<1>2. PICK x \in T : \A y \in T : ~ (<<y, x>> \in OpToRel(<, Nat))
  BY <1>1
<1>3. ASSUME NEW y \in T PROVE x <= y
  <2>1. ~ (y < x)
    BY <1>2, <1>3 DEF OpToRel
  <2> QED
    BY SMT, <2>1
<1> QED
  BY <1>2, <1>3

LEMMA LastExists ==
  ASSUME NEW J \in SUBSET Entry, J # {}, NEW w \in Nat, \A x \in J : x.at <= w
  PROVE  \E x \in J : IsLast(x, J)
<1> DEFINE T == {w - x.at : x \in J}
<1>1. T \in SUBSET Nat /\ T # {}
  BY SMT DEF Entry
<1>2. PICK t \in T : \A y \in T : t <= y
  BY <1>1, NatMin
<1>3. PICK x \in J : t = w - x.at
  BY <1>2
<1>4. ASSUME NEW y \in J PROVE y.at <= x.at
  <2>1. w - y.at \in T /\ x.at \in Nat /\ y.at \in Nat
    BY DEF Entry
  <2>2. w - x.at <= w - y.at
    BY <1>2, <1>3, <2>1
  <2> QED
    BY SMT, <2>1, <2>2
<1> QED
  BY <1>3, <1>4 DEF IsLast

\* A journal has one last entry.
LEMMA LastUnique ==
  ASSUME NEW J \in SUBSET Entry, NEW w, Positions(J, w),
         NEW x, IsLast(x, J), NEW z, IsLast(z, J)
  PROVE  z = x
<1>1. x \in J /\ z \in J /\ z.at <= x.at /\ x.at <= z.at
  BY DEF IsLast
<1>2. x.at \in Nat /\ z.at \in Nat
  BY <1>1 DEF Entry
<1>3. z.at = x.at
  BY SMT, <1>1, <1>2
<1> QED
  BY <1>1, <1>3 DEF Positions

\* An entry written behind all others is the last one.
LEMMA AppendLast ==
  ASSUME NEW J \in SUBSET Entry, NEW w \in Nat, Positions(J, w),
         NEW y \in Entry, y.at = w + 1
  PROVE  /\ y \notin J
         /\ \A x \in J : x.at < y.at
         /\ Positions(J \cup {y}, w + 1)
         /\ IsLast(y, J \cup {y})
         /\ \A x : IsLast(x, J \cup {y}) => x = y
<1>1. \A x \in J : x.at \in Nat /\ x.at <= w
  BY DEF Positions, Entry
<1>2. \A x \in J : x.at < y.at
  BY SMT, <1>1
<1>3. y \notin J
  BY SMT, <1>2
<1>4. Positions(J \cup {y}, w + 1)
  BY SMT, <1>1, <1>2 DEF Positions
<1>5. IsLast(y, J \cup {y})
  BY SMT, <1>1, <1>2 DEF IsLast
<1>6. ASSUME NEW x, IsLast(x, J \cup {y}) PROVE x = y
  BY SMT, <1>1, <1>2, <1>6 DEF IsLast
<1> QED
  BY <1>2, <1>3, <1>4, <1>5, <1>6

\* storeDelta keeps the chain of a journal: n is the id in memory, k the one on
\* disk, c the cached file the new entry y was computed from.
LEMMA AppendChain ==
  ASSUME NEW J \in SUBSET Entry, NEW w \in Nat, Positions(J, w),
         NEW y \in Entry, y.at = w + 1,
         NEW n \in Nat, NEW k \in Nat, y.id = n + 1, NEW c,
         NeverBack(J, {n, k}), Links(J), NotAhead(J, {n, k}), NextLink(J, c, n),
         n = k \/ (J = {} /\ y.full),
         ~y.full => c \in Content /\ y.base = c,
         y.full => c \notin Content
  PROVE  /\ NeverBack(J \cup {y}, {n + 1, k})
         /\ Links(J \cup {y})
         /\ NotAhead(J \cup {y}, {n + 1, k})
         /\ NextLink(J \cup {y}, c, k)
<1>0. /\ \A x \in J : x.at \in Nat /\ x.id \in Nat /\ x.full \in BOOLEAN
      /\ y.full \in BOOLEAN
  BY DEF Entry
<1>1. /\ \A x \in J : x.at < y.at
      /\ \A x : IsLast(x, J \cup {y}) => x = y
      /\ y \notin J
  BY AppendLast
<1>2. NeverBack(J \cup {y}, {n + 1, k})
  <2>1. ASSUME NEW x \in J \cup {y}, ~x.full, NEW m \in {n + 1, k}
        PROVE  x.id <= m + 1
    BY SMT, <1>0, <2>1 DEF NeverBack
  <2>2. ASSUME NEW x \in J \cup {y}, ~x.full, NEW z \in J \cup {y}, x.at < z.at
        PROVE  x.id <= z.id
    BY SMT, <1>0, <1>1, <2>2 DEF NeverBack
  <2> QED
    BY <2>1, <2>2 DEF NeverBack
<1>3. Links(J \cup {y})
  <2>1. ASSUME NEW x \in J \cup {y}, NEW z \in J \cup {y},
               x.at < z.at, ~z.full, z.id = x.id + 1,
               \A v \in J \cup {y} : v.at <= x.at \/ z.at <= v.at
        PROVE  z.base = x.target
    <3>1. x \in J
      BY SMT, <1>0, <1>1, <2>1
    <3>2. CASE z \in J
      BY <2>1, <3>1, <3>2 DEF Links
    <3>3. CASE z = y
      <4>1. IsLast(x, J)
        BY SMT, <1>0, <1>1, <2>1, <3>1, <3>3 DEF IsLast
      <4>2. n = x.id
        BY SMT, <1>0, <2>1, <3>1, <3>3
      <4> QED
        BY <2>1, <3>1, <3>3, <4>1, <4>2 DEF NextLink
    <3> QED
      BY <3>2, <3>3
  <2> QED
    BY <2>1 DEF Links
<1>4. NotAhead(J \cup {y}, {n + 1, k})
  <2>1. ASSUME NEW x \in J \cup {y}, NEW z \in J \cup {y},
               x.at < z.at, IsLast(z, J \cup {y}), NEW m \in {n + 1, k}
        PROVE  m <= z.id
    <3>1. z = y /\ x \in J
      BY SMT, <1>0, <1>1, <2>1
    <3> QED
      BY SMT, <2>1, <3>1
  <2> QED
    BY <2>1 DEF NotAhead
<1>5. NextLink(J \cup {y}, c, k)
  BY SMT, <1>1 DEF NextLink
<1> QED
  BY <1>2, <1>3, <1>4, <1>5

\* The first entry of the longer journal fits as the first one did before.
LEMMA AppendFirst ==
  ASSUME NEW J \in SUBSET Entry, NEW w \in Nat, Positions(J, w),
         NEW y \in Entry, y.at = w + 1,
         NEW n \in Nat, NEW k \in Nat, y.id = n + 1, NEW c, NEW b,
         b.last \in Nat,
         FirstFits(J, b), NextFits(J, c, {n, k}, b),
         ~y.full => c \in Content /\ y.base = c
  PROVE  FirstFits(J \cup {y}, b)
<1>1. \A x \in J : x.at < y.at /\ x.at \in Nat
  BY AppendLast DEF Entry
<1>2. ASSUME NEW x \in J \cup {y}, IsFirst(x, J \cup {y}), ~x.full, b.has,
             x.id = b.last + 1
      PROVE  b.inv = x.base
  <2>1. CASE x \in J
    BY <1>2, <2>1 DEF FirstFits, IsFirst
  <2>2. CASE x = y
    <3>1. J = {}
      BY SMT, <1>1, <1>2, <2>2 DEF IsFirst, Entry
    <3>2. b.last = n
      BY SMT, <1>2, <2>2
    <3> QED
      BY <1>2, <2>2, <3>1, <3>2 DEF NextFits
  <2> QED
    BY <2>1, <2>2
<1> QED
  BY <1>2 DEF FirstFits

-----------------------------------------------------------------------------
(* The backend goes through a journal J of which P is still to be looked at  *)

LEMMA MergeOnBase ==
  ASSUME NEW base \in Content, NEW target \in Content
  PROVE  MergePatch(base, base, target) = target
BY DEF MergePatch, Content

\* The backend b looks at d, the head of P, and d has the id it waits for.
AtHead(J, w, P, d, h, b) ==
  /\ J \in SUBSET Entry /\ w \in Nat /\ Positions(J, w) /\ Links(J)
  /\ Suffix(P, J) /\ IsFirst(d, P)
  /\ b.last \in Nat /\ b.has /\ d.id = b.last + 1
  /\ FirstFits(J, b) /\ Ok(J, P, h, b)

\* A partial delta the backend would accept now starts from what it holds.
LEMMA HeadFits ==
  ASSUME NEW J, NEW w, NEW P, NEW d, NEW h, NEW b, AtHead(J, w, P, d, h, b), ~d.full
  PROVE  b.inv = d.base
<1> USE DEF AtHead
<1>0. /\ P \subseteq J /\ d \in P
      /\ \A x \in J : x.at \in Nat /\ x.id \in Nat
  BY DEF Suffix, IsFirst, Entry
<1>1. CASE J \ P = {}
  <2>1. IsFirst(d, J)
    BY <1>0, <1>1 DEF IsFirst
  <2> QED
    BY <1>0, <2>1 DEF FirstFits
<1>2. CASE J \ P # {}
  <2>1. PICK x \in J \ P : IsLast(x, J \ P)
    <3>1. \A y \in J \ P : y.at <= w
      BY DEF Positions
    <3> QED
      BY <1>2, <3>1, LastExists
  <2>2. b.last = x.id /\ b.inv = x.target
    BY <2>1 DEF Ok
  <2>3. x.at < d.at
    <3>1. x.at # d.at
      BY <1>0, <2>1 DEF Positions
    <3>2. ~(d.at < x.at)
      BY <1>0, <2>1 DEF Suffix
    <3> QED
      BY SMT, <1>0, <3>1, <3>2
  <2>4. ASSUME NEW z \in J PROVE z.at <= x.at \/ d.at <= z.at
    BY <1>0, <2>1, <2>4 DEF IsLast, IsFirst
  <2>5. d.base = x.target
    BY SMT, <1>0, <2>1, <2>2, <2>3, <2>4 DEF Links
  <2> QED
    BY <2>2, <2>5
<1> QED
  BY <1>1, <1>2

\* The head d of P was stored.
LEMMA StoredStep ==
  ASSUME NEW J \in SUBSET Entry, NEW w \in Nat, Positions(J, w),
         NEW M, NeverBack(J, M),
         NEW P, Suffix(P, J), NEW d, IsFirst(d, P),
         NEW b, b.last = d.id, b.inv = d.target
  PROVE  /\ Suffix(P \ {d}, J)
         /\ Ok(J, P \ {d}, [reset |-> FALSE, next |-> d.id + 1, stored |-> d.id], b)
         /\ FirstFits(J, b)
<1>0. /\ P \subseteq J /\ d \in P /\ d \in J
      /\ \A x \in J : x.at \in Nat /\ x.id \in Nat /\ x.full \in BOOLEAN
  BY DEF Suffix, IsFirst, Entry
<1>1. Suffix(P \ {d}, J)
  <2>1. ASSUME NEW x \in P \ {d}, NEW y \in J, x.at < y.at PROVE y \in P \ {d}
    BY SMT, <1>0, <2>1 DEF Suffix, IsFirst
  <2> QED
    BY <1>0, <2>1 DEF Suffix
<1>2. ASSUME NEW x \in J, IsLast(x, J \ (P \ {d})) PROVE x = d
  <2>1. d.at <= x.at /\ x \in J /\ x \notin P \ {d}
    BY <1>0, <1>2 DEF IsLast
  <2>2. CASE x \in P
    BY <2>1, <2>2
  <2>3. CASE x \notin P
    <3>1. ~(d.at < x.at)
      BY <1>0, <2>1, <2>3 DEF Suffix
    <3>2. x.at = d.at
      BY SMT, <1>0, <2>1, <3>1
    <3> QED
      BY <1>0, <2>1, <3>2 DEF Positions
  <2> QED
    BY <2>2, <2>3
<1>3. Ok(J, P \ {d}, [reset |-> FALSE, next |-> d.id + 1, stored |-> d.id], b)
  BY <1>2 DEF Ok
<1>4. ASSUME NEW x \in J, IsFirst(x, J), ~x.full, x.id = b.last + 1 PROVE FALSE
  <2>1. x.at <= d.at
    BY <1>0, <1>4 DEF IsFirst
  <2>2. CASE x.at = d.at
    <3>1. x = d
      BY <1>0, <2>2 DEF Positions
    <3> QED
      BY SMT, <1>0, <1>4, <3>1
  <2>3. CASE x.at < d.at
    <3>1. x.id <= d.id
      BY <1>0, <1>4, <2>3 DEF NeverBack
    <3> QED
      BY SMT, <1>0, <1>4, <3>1
  <2> QED
    BY SMT, <1>0, <2>1, <2>2, <2>3
<1>5. FirstFits(J, b)
  BY <1>4 DEF FirstFits
<1> QED
  BY <1>1, <1>3, <1>5

\* The head d of P, the very next delta, is put off.
LEMMA DeferredStep ==
  ASSUME NEW J, NEW w, NEW P, NEW d, NEW h, NEW b, AtHead(J, w, P, d, h, b),
         NEW M, NeverBack(J, M)
  PROVE  Deferred(J, [reset |-> FALSE, next |-> d.id, stored |-> b.last], b)
<1> USE DEF AtHead
<1>0. /\ P \subseteq J /\ d \in P /\ d \in J
      /\ \A x \in J : x.at \in Nat /\ x.id \in Nat /\ x.full \in BOOLEAN
  BY DEF Suffix, IsFirst, Entry
<1>1. ASSUME NEW x \in J, ~x.full, x.id = d.id, \A y \in J : y.id = x.id => x.at <= y.at
      PROVE  b.inv = x.base
  <2>1. x.at <= d.at
    BY <1>0, <1>1
  <2>2. CASE x.at = d.at
    <3>1. x = d
      BY <1>0, <2>2 DEF Positions
    <3> HIDE DEF AtHead
    <3> QED
      BY <1>1, <3>1, HeadFits, Zenon
  <2>3. CASE x.at < d.at
    <3>1. x \in J \ P
      BY SMT, <1>0, <2>3 DEF IsFirst
    <3>2. \A y \in J \ P : y.at <= w
      BY DEF Positions
    <3>3. PICK l \in J \ P : IsLast(l, J \ P)
      BY <3>1, <3>2, LastExists
    <3>4. b.last = l.id
      BY <3>3 DEF Ok
    <3>5. x.at <= l.at
      BY <3>1, <3>3 DEF IsLast
    <3>6. x.id <= l.id
      <4>1. CASE x.at = l.at
        <5>1. x = l
          BY <3>3, <4>1 DEF Positions
        <5> QED
          BY SMT, <1>0, <5>1
      <4>2. CASE x.at < l.at
        BY <1>1, <3>3, <4>2 DEF NeverBack
      <4> QED
        BY SMT, <1>0, <3>3, <3>5, <4>1, <4>2
    <3> QED
      BY SMT, <1>0, <1>1, <3>3, <3>4, <3>6
  <2> QED
    BY SMT, <1>0, <2>1, <2>2, <2>3
<1> QED
  BY SMT, <1>0, <1>1 DEF Deferred

-----------------------------------------------------------------------------
(* archivePlugin: of a journal J the deltas after the last acknowledged one  *)
(* are kept                                                                  *)

\* A journal J with its last position, the ids in use and the cached file; its ids
\* lie around N; what is kept of it from N on.
Numbered(J, w, M, c) ==
  /\ J \in SUBSET Entry /\ w \in Nat /\ M \in SUBSET Nat
  /\ Positions(J, w) /\ NeverBack(J, M) /\ NotAhead(J, M)
  /\ \A n \in M : NextLink(J, c, n)
Around(J, N) == N \in Int /\ \A x \in J : x.id = N - 1 \/ x.id = N
From(J, N) == {x \in J : x.id > N - 1}

\* All of J was stored: an id in use that is the backend's goes with its document.
LEMMA AllStored ==
  ASSUME NEW J, NEW w, NEW M, NEW c, Numbered(J, w, M, c), J # {},
         NEW h, NEW b, Ok(J, {}, h, b)
  PROVE  NextFits({}, c, M, b)
<1> USE DEF Numbered
<1>1. PICK x \in J : IsLast(x, J)
  BY LastExists DEF Positions
<1>2. b.has => b.last = x.id /\ b.inv = x.target
  <2>1. J \ {} = J
    OBVIOUS
  <2> QED
    BY <1>1, <2>1 DEF Ok
<1>3. ASSUME c \in Content, b.has, b.last \in M PROVE b.inv = c
  BY <1>1, <1>2, <1>3 DEF NextLink
<1> QED
  BY <1>3 DEF NextFits

\* The ids of J are N - 1 and N, and the entries numbered N are kept.
LEMMA KeepChain ==
  ASSUME NEW J, NEW w, NEW M, NEW c, Numbered(J, w, M, c),
         NEW N, Around(J, N), NEW K, K = From(J, N)
  PROVE  Numbered(K, w, M, c) /\ Links(K)
<1> USE DEF Numbered, Around, From
<1>0. /\ K \subseteq J /\ \A x \in J : x.id \in Nat /\ x.at \in Nat
      /\ \A x \in K : x.id = N
      /\ \A x \in J : x.id = N => x \in K
  BY SMT DEF Entry
<1>1. Positions(K, w)
  BY <1>0 DEF Positions
<1>2. NeverBack(K, M)
  BY <1>0 DEF NeverBack
<1>3. Links(K)
  BY SMT, <1>0 DEF Links
<1>4. NotAhead(K, M)
  <2>1. ASSUME NEW x \in K, NEW y \in K, x.at < y.at, NEW n \in M
        PROVE  n <= y.id
    <3>1. PICK l \in J : IsLast(l, J)
      BY <1>0, <2>1, LastExists DEF Positions
    <3>2. x.at < l.at
      BY SMT, <1>0, <2>1, <3>1 DEF IsLast
    <3>3. n <= l.id
      BY <1>0, <2>1, <3>1, <3>2 DEF NotAhead
    <3> QED
      BY SMT, <1>0, <2>1, <3>1, <3>3
  <2> QED
    BY <2>1 DEF NotAhead
<1>5. ASSUME NEW n \in M, NEW x \in K, IsLast(x, K), c \in Content, n = x.id
      PROVE  x.target = c
  <2>1. PICK l \in J : IsLast(l, J)
    BY <1>0, <1>5, LastExists DEF Positions
  <2>2. x.at <= l.at
    BY <1>0, <1>5, <2>1 DEF IsLast
  <2>3. CASE x.at < l.at
    <3>1. n <= l.id
      BY <1>0, <1>5, <2>1, <2>3 DEF NotAhead
    <3>2. l \in K
      BY SMT, <1>0, <1>5, <2>1, <3>1
    <3> QED
      BY SMT, <1>0, <1>5, <2>1, <2>3, <3>2 DEF IsLast
  <2>4. CASE x.at = l.at
    <3>1. x = l
      BY <1>0, <1>5, <2>1, <2>4 DEF Positions
    <3> QED
      BY <1>5, <2>1, <3>1 DEF NextLink
  <2> QED
    BY SMT, <1>0, <2>2, <2>3, <2>4
<1>6. \A n \in M : NextLink(K, c, n)
  BY <1>5 DEF NextLink
<1>7. K \in SUBSET Entry /\ w \in Nat /\ M \in SUBSET Nat
  BY <1>0
<1> QED
  BY <1>1, <1>2, <1>3, <1>4, <1>6, <1>7, Zenon

\* All of J was stored; what is kept of it are full deltas of an earlier numbering.
LEMMA KeepOk ==
  ASSUME NEW J, NEW w, NEW M, NEW c, Numbered(J, w, M, c), J # {},
         NEW h, NEW b, Ok(J, {}, h, b), h # NoHint, NEW K, K = From(J, h.next)
  PROVE  NextFits(K, c, M, b) /\ FirstFits(K, b)
<1> USE DEF Numbered, From
<1>0. K \subseteq J /\ \A x \in J : x.id \in Nat /\ x.at \in Nat /\ x.full \in BOOLEAN
  BY DEF Entry
<1>1. PICK l \in J : IsLast(l, J)
  BY LastExists DEF Positions
<1>2. h.next = l.id + 1
  <2>1. J \ {} = J
    OBVIOUS
  <2> QED
    BY SMT, <1>1, <2>1 DEF Ok
<1>3. ASSUME NEW x \in K, ~x.full PROVE FALSE
  <2>1. x.id > l.id
    BY SMT, <1>0, <1>1, <1>2, <1>3
  <2>2. x.at <= l.at /\ x \in J
    BY <1>0, <1>1, <1>3 DEF IsLast
  <2>3. CASE x.at = l.at
    <3>1. x = l
      BY <1>1, <2>2, <2>3 DEF Positions
    <3> QED
      BY SMT, <1>0, <1>1, <2>1, <3>1
  <2>4. CASE x.at < l.at
    BY SMT, <1>0, <1>1, <1>3, <2>1, <2>2, <2>4 DEF NeverBack
  <2> QED
    BY SMT, <1>0, <1>1, <2>2, <2>3, <2>4
<1>4. FirstFits(K, b)
  BY <1>3 DEF FirstFits
<1>5. NextFits(K, c, M, b)
  <2> HIDE DEF Numbered
  <2>1. NextFits({}, c, M, b)
    BY AllStored, Zenon
  <2> QED
    BY <2>1 DEF NextFits
<1> QED
  BY <1>4, <1>5

\* The first of the entries kept is the one that was put off.
LEMMA KeepDeferred ==
  ASSUME NEW J, NEW w, NEW M, NEW c, Numbered(J, w, M, c),
         NEW h, NEW b, Deferred(J, h, b), Around(J, h.next), NEW K, K = From(J, h.next)
  PROVE  NextFits(K, c, M, b) /\ FirstFits(K, b)
<1> USE DEF Numbered, Around, From
<1>0. /\ K \subseteq J /\ \A x \in J : x.id \in Nat /\ x.at \in Nat
      /\ h.next \in Int
      /\ \A x \in K : x.id = h.next
      /\ \A x \in J : x.id = h.next => x \in K
  BY SMT DEF Entry
<1>1. K # {}
  BY <1>0 DEF Deferred
<1>2. ASSUME NEW x \in K, IsFirst(x, K), ~x.full, b.has PROVE b.inv = x.base
  <2>1. \A y \in J : y.id = x.id => x.at <= y.at
    BY <1>0, <1>2 DEF IsFirst
  <2> QED
    BY <1>0, <1>2, <2>1 DEF Deferred
<1> QED
  BY <1>1, <1>2 DEF NextFits, FirstFits

-----------------------------------------------------------------------------
(* Steps that leave journals, ids and backend alone                          *)

LEMMA Files ==
  NoFile \notin Content /\ Torn \notin Content /\ NoFile # Torn
BY FileAssumption DEF Content

LEMMA NoHarm ==
  ASSUME Faults \subseteq SoftFaults
  PROVE  Faults \cap {"source", "copy", "journal", "map", "open", "rename", "offline"} = {}
BY DEF SoftFaults

\* The step keeps the chain of every slot, the whole of ChainInv.
KeepsSlots ==
  TypeOK /\ ChainInv => \A s \in Slots : WholeFiles(s)' /\ Chain(s)' /\ Latest(s)'
Keeps == TypeOK /\ ChainInv => ChainInv'

LEMMA QuietSlots ==
  ASSUME pc \notin {"reap", "replace"}, pc' # "replace",
         UNCHANGED <<cache, pend, torn, wr, bk, saved>>,
         \A s \in Slots : ids'[s].mru = ids[s].mru,
         \A s \in Slots : src'[s] = src[s] \/ src'[s] \in Content
  PROVE  KeepsSlots
<1> SUFFICES ASSUME TypeOK, ChainInv, NEW s \in Slots
             PROVE  WholeFiles(s)' /\ Chain(s)' /\ Latest(s)'
  BY DEF KeepsSlots
<1>1. WholeFiles(s) /\ Chain(s) /\ Latest(s)
  BY DEF ChainInv
<1>2. WholeFiles(s)'
  BY <1>1, Files DEF WholeFiles
<1>3. Mru(s)' = Mru(s)
  BY DEF Mru
<1>4. Chain(s)'
  BY <1>1, <1>3 DEF Chain
<1>5. ids[s].mru = saved.ids[s].mru \/ Cleared(s)
  BY <1>1 DEF Latest, Unsaved
<1>6. NextLink(pend[s], cache[s], ids[s].mru)
  BY <1>1 DEF Latest, ReplacingAt
<1>7. NextLink(pend[s], cache[s], ids[s].mru)'
  BY <1>6
<1>8. Latest(s)'
  BY <1>5, <1>7 DEF Latest, Cleared
<1> QED
  BY <1>2, <1>4, <1>8

-----------------------------------------------------------------------------
(* The backend                                                               *)

LEMMA BackendSlots ==
  ASSUME UNCHANGED <<files, ids, saved, ctl>>,
         \A t \in Slots : /\ NextFits(pend[t], cache[t], Mru(t), bk'[t])
                          /\ FirstFits(pend[t], bk'[t])
  PROVE  KeepsSlots
<1> USE DEF files, ctl
<1> SUFFICES ASSUME TypeOK, ChainInv, NEW t \in Slots
             PROVE  WholeFiles(t)' /\ Chain(t)' /\ Latest(t)'
  BY DEF KeepsSlots
<1>1. WholeFiles(t) /\ Chain(t) /\ Latest(t)
  BY DEF ChainInv
<1>2. Mru(t)' = Mru(t)
  BY DEF Mru
<1>3. Chain(t)'
  BY <1>1, <1>2 DEF Chain
<1>4. WholeFiles(t)'
  BY <1>1 DEF WholeFiles
<1>5. Cleared(t)' = Cleared(t) /\ ReplacingAt(t)' = ReplacingAt(t) /\ Unsaved(t)' = Unsaved(t)
  BY DEF Cleared, ReplacingAt, Unsaved, Slot
<1>6. Latest(t)'
  BY <1>1, <1>5 DEF Latest
<1> QED
  BY <1>3, <1>4, <1>6

\* The request, when the backend has looked at a delta of p only.
LEMMA AnswerOne ==
  ASSUME pc = "post", NEW p \in block,
         UNCHANGED <<files, mem, saved, ctl, block, unacked, clock>>,
         \A q \in block \ {p} :
            /\ posted'[q] = posted[q] /\ hint'[q] = hint[q] /\ verdict'[q] = verdict[q],
         \A t \in Slots \ {Slot(p)} : bk'[t] = bk[t],
         NextFits(pend[Slot(p)], cache[Slot(p)], Mru(Slot(p)), bk'[Slot(p)]),
         FirstFits(pend[Slot(p)], bk'[Slot(p)]),
         InFlight(p)'
  PROVE  Keeps
<1> SUFFICES ASSUME TypeOK, ChainInv PROVE ChainInv'
  BY DEF Keeps
<1>0. \A t \in Slots : /\ NextFits(pend[t], cache[t], Mru(t), bk'[t])
                       /\ FirstFits(pend[t], bk'[t])
  BY DEF ChainInv, Chain
<1>1. \A t \in Slots : WholeFiles(t)' /\ Chain(t)' /\ Latest(t)'
  BY <1>0, BackendSlots DEF KeepsSlots, mem
<1>2. ASSUME NEW q \in block
      PROVE  (unacked[q] = pend[Slot(q)])' /\ InFlight(q)'
  <2>1. q \in Plugins /\ p \in Plugins /\ unacked[q] = pend[Slot(q)] /\ InFlight(q)
    BY <1>2 DEF ChainInv, Request, TypeOK
  <2>2. (unacked[q] = pend[Slot(q)])'
    BY <2>1 DEF files, ctl, Slot
  <2>3. CASE q # p
    BY <1>2, <2>1, <2>2, <2>3, SlotInSlots DEF Slot, InFlight, files, mem, ctl
  <2> QED
    BY <2>2, <2>3
<1>3. Request'
  BY <1>2 DEF Request, ctl
<1> QED
  BY <1>1, <1>3 DEF ChainInv, Settled, Replacing, ctl, clock

\* The delta at the head of the journal of p, when it is looked at.
LEMMA Head ==
  ASSUME TypeOK, ChainInv, pc = "post", NEW p \in block, NEW d, IsFirst(d, posted[p])
  PROVE  /\ p \in Plugins /\ Slot(p) \in Slots /\ d \in posted[p] /\ d \in pend[Slot(p)]
         /\ d \in Entry /\ unacked[p] = pend[Slot(p)]
         /\ pend[Slot(p)] \in SUBSET Entry /\ wr[Slot(p)] \in Nat /\ bk[Slot(p)].last \in Nat
         /\ Suffix(posted[p], pend[Slot(p)])
         /\ verdict[p] = "ok" /\ Ok(pend[Slot(p)], posted[p], hint[p], bk[Slot(p)])
         /\ Chain(Slot(p))
<1>1. p \in Plugins /\ Slot(p) \in Slots /\ unacked[p] = pend[Slot(p)] /\ InFlight(p)
  BY SlotInSlots DEF ChainInv, Request, TypeOK
<1>2. d \in posted[p] /\ Suffix(posted[p], pend[Slot(p)])
  BY <1>1 DEF IsFirst, InFlight
<1>3. pend[Slot(p)] \in SUBSET Entry /\ wr[Slot(p)] \in Nat /\ bk[Slot(p)].last \in Nat
  BY <1>1 DEF TypeOK
<1>4. verdict[p] \in {"ok", "refused", "deferred"}
  BY <1>1 DEF TypeOK
<1>5. verdict[p] = "ok"
  BY <1>1, <1>2, <1>4 DEF InFlight
<1> QED
  BY <1>1, <1>2, <1>3, <1>5 DEF InFlight, Suffix, ChainInv

\* A delta the backend stores is stored on the document it was computed from.
LEMMA StoredFits ==
  ASSUME TypeOK, ChainInv, NEW p \in Plugins, NEW d, BackendStores(p, d), ~d.full
  PROVE  bk[Slot(p)].inv = d.base
<1>1. /\ pc = "post" /\ p \in block /\ IsFirst(d, posted[p])
      /\ bk[Slot(p)].has /\ d.id = bk[Slot(p)].last + 1
  BY DEF BackendStores, Acceptable
<1>2. /\ pend[Slot(p)] \in SUBSET Entry /\ wr[Slot(p)] \in Nat /\ bk[Slot(p)].last \in Nat
      /\ Suffix(posted[p], pend[Slot(p)])
      /\ Ok(pend[Slot(p)], posted[p], hint[p], bk[Slot(p)])
      /\ Chain(Slot(p))
  BY <1>1, Head, Zenon
<1>3. /\ Positions(pend[Slot(p)], wr[Slot(p)]) /\ Links(pend[Slot(p)])
      /\ FirstFits(pend[Slot(p)], bk[Slot(p)])
  BY <1>2 DEF Chain
<1>4. AtHead(pend[Slot(p)], wr[Slot(p)], posted[p], d, hint[p], bk[Slot(p)])
  BY <1>1, <1>2, <1>3, Zenon DEF AtHead
<1> QED
  BY SMT, <1>4, HeadFits

LEMMA FenceStores ==
  ASSUME NEW p \in Plugins, NEW d \in posted[p], BackendStores(p, d)
  PROVE  Keeps
<1> SUFFICES ASSUME TypeOK, ChainInv PROVE ChainInv'
  BY DEF Keeps
<1> SUFFICES ASSUME NEW s \in Slots, s = Slot(p) PROVE ChainInv'
  BY SlotInSlots
<1> DEFINE J == pend[s]
           P == posted[p]
           b == Stored(bk[s], d)
           h == [reset |-> FALSE, next |-> d.id + 1, stored |-> d.id]
<1>1. /\ pc = "post" /\ p \in block /\ IsFirst(d, P)
      /\ UNCHANGED <<files, mem, saved, ctl, block, unacked, verdict, clock>>
  BY DEF BackendStores
<1>2. /\ J \in SUBSET Entry /\ wr[s] \in Nat /\ d \in J /\ d \in Entry
      /\ Suffix(P, J) /\ Chain(s) /\ unacked[p] = J /\ verdict[p] = "ok"
  BY <1>1, Head
<1>3. /\ bk'[s] = b /\ posted'[p] = P \ {d} /\ hint'[p] = h
      /\ \A q \in Plugins \ {p} : posted'[q] = posted[q] /\ hint'[q] = hint[q]
      /\ \A t \in Slots \ {s} : bk'[t] = bk[t]
  BY DEF BackendStores, TypeOK
<1>4. b.last = d.id /\ b.inv = d.target
  BY <1>2, StoredFits, MergeOnBase DEF Stored, Entry
<1>5. Suffix(P \ {d}, J) /\ Ok(J, P \ {d}, h, b) /\ FirstFits(J, b)
  <2>1. Positions(J, wr[s]) /\ NeverBack(J, Mru(s))
    BY <1>2 DEF Chain
  <2> HIDE DEF J, P, b
  <2> QED
    BY <1>1, <1>2, <1>4, <2>1, StoredStep
<1>6. NextFits(J, cache[s], Mru(s), b)
  BY <1>2 DEF NextFits
<1>7. InFlight(p)'
  BY <1>1, <1>2, <1>3, <1>5 DEF files, Slot, ctl, InFlight
<1>8. block \subseteq Plugins
  BY DEF TypeOK
<1> QED
  BY <1>1, <1>3, <1>5, <1>6, <1>7, <1>8, AnswerOne DEF Keeps

LEMMA FenceRefuses ==
  ASSUME NEW p \in Plugins, NEW d \in posted[p], BackendRefuses(p, d)
  PROVE  Keeps
<1> SUFFICES ASSUME TypeOK, ChainInv PROVE ChainInv'
  BY DEF Keeps
<1> SUFFICES ASSUME NEW s \in Slots, s = Slot(p) PROVE ChainInv'
  BY SlotInSlots
<1>1. /\ pc = "post" /\ p \in block /\ IsFirst(d, posted[p]) /\ bk' = bk
      /\ UNCHANGED <<files, mem, saved, ctl, block, unacked, clock>>
  BY DEF BackendRefuses
<1>2. /\ pend[s] \in SUBSET Entry /\ bk[s].last \in Nat /\ Chain(s) /\ unacked[p] = pend[s]
  BY <1>1, Head
<1>3. /\ posted'[p] = {} /\ verdict'[p] = "refused"
      /\ \A q \in Plugins \ {p} : posted'[q] = posted[q] /\ verdict'[q] = verdict[q]
  BY DEF BackendRefuses, TypeOK
<1>4. Refused(hint'[p]) /\ \A q \in Plugins \ {p} : hint'[q] = hint[q]
  BY SMT, <1>2 DEF BackendRefuses, Refused, TypeOK
<1>5. InFlight(p)'
  BY <1>1, <1>2, <1>3, <1>4 DEF Suffix, Slot, ctl, files, InFlight
<1>6. NextFits(pend[s], cache[s], Mru(s), bk'[s]) /\ FirstFits(pend[s], bk'[s])
  BY <1>1, <1>2 DEF Chain
<1>7. block \subseteq Plugins
  BY DEF TypeOK
<1> QED
  BY <1>1, <1>3, <1>4, <1>5, <1>6, <1>7, AnswerOne DEF Keeps

LEMMA FenceDefers ==
  ASSUME NEW p \in Plugins, NEW d \in posted[p], BackendDefers(p, d)
  PROVE  Keeps
<1> SUFFICES ASSUME TypeOK, ChainInv PROVE ChainInv'
  BY DEF Keeps
<1> SUFFICES ASSUME NEW s \in Slots, s = Slot(p) PROVE ChainInv'
  BY SlotInSlots
<1> DEFINE J == pend[s]
           P == posted[p]
           b == bk[s]
           h == [reset |-> FALSE, next |-> d.id, stored |-> b.last]
<1>1. /\ pc = "post" /\ p \in block /\ IsFirst(d, P) /\ bk' = bk
      /\ UNCHANGED <<files, mem, saved, ctl, block, unacked, clock>>
      /\ b.has /\ d.id = b.last + 1
  BY DEF BackendDefers
<1>2. /\ J \in SUBSET Entry /\ wr[s] \in Nat /\ b.last \in Nat /\ Chain(s)
      /\ unacked[p] = J /\ Suffix(P, J) /\ Ok(J, P, hint[p], b)
  BY <1>1, Head
<1>3. /\ posted'[p] = {} /\ verdict'[p] = "deferred" /\ hint'[p] = h
      /\ \A q \in Plugins \ {p} : /\ posted'[q] = posted[q] /\ verdict'[q] = verdict[q]
                                  /\ hint'[q] = hint[q]
  BY DEF BackendDefers, TypeOK
<1>4. Deferred(J, h, b)
  BY <1>1, <1>2, DeferredStep DEF Chain, AtHead
<1>5. InFlight(p)'
  <2>1. Suffix({}, J)
    BY DEF Suffix
  <2>2. Slot(p)' = s /\ pend' = pend /\ unacked' = unacked
    BY <1>1 DEF Slot, ctl, files
  <2> QED
    BY <1>1, <1>2, <1>3, <1>4, <2>1, <2>2 DEF InFlight
<1>6. NextFits(J, cache[s], Mru(s), bk'[s]) /\ FirstFits(J, bk'[s])
  BY <1>1, <1>2 DEF Chain
<1>7. block \subseteq Plugins
  BY DEF TypeOK
<1> QED
  BY <1>1, <1>3, <1>5, <1>6, <1>7, AnswerOne DEF Keeps

\* A backend without the plugin accepts no partial delta, whatever its id.
LEMMA FenceForgets ==
  ASSUME NEW s \in Slots, BackendForgets(s)
  PROVE  Keeps
<1> SUFFICES ASSUME TypeOK, ChainInv PROVE ChainInv'
  BY DEF Keeps
<1> USE DEF BackendForgets, ctl, request, clock
<1>1. bk'[s].has = FALSE /\ \A t \in Slots \ {s} : bk'[t] = bk[t]
  BY DEF TypeOK, Forgotten
<1>2. \A t \in Slots : WholeFiles(t)' /\ Chain(t)' /\ Latest(t)'
  <2>1. ASSUME NEW t \in Slots
        PROVE  /\ NextFits(pend[t], cache[t], Mru(t), bk'[t])
               /\ FirstFits(pend[t], bk'[t])
    <3>1. CASE t = s
      BY <1>1, <3>1 DEF NextFits, FirstFits
    <3>2. CASE t # s
      BY <1>1, <2>1, <3>2 DEF ChainInv, Chain
    <3> QED
      BY <3>1, <3>2
  <2> QED
    BY <2>1, BackendSlots DEF KeepsSlots, mem
<1>3. ASSUME NEW q \in Plugins, InFlight(q) PROVE InFlight(q)'
  <2>1. CASE Slot(q) # s
    BY <1>1, <1>3, <2>1, SlotInSlots DEF InFlight, files, mem, Slot
  <2>2. CASE Slot(q) = s
    <3>1. \A J, P, h : Ok(J, P, h, bk[s]) => Ok(J, P, h, bk'[s])
      BY <1>1 DEF Ok
    <3>2. \A J, h : Deferred(J, h, bk[s]) => Deferred(J, h, bk'[s])
      BY <1>1 DEF Deferred
    <3>3. Slot(q)' = s
      BY <2>2 DEF Slot
    <3> QED
      BY <1>3, <2>2, <3>1, <3>2, <3>3 DEF InFlight, files, mem
  <2> QED
    BY <2>1, <2>2
<1>4. block \subseteq Plugins
  BY DEF TypeOK
<1>5. \A q \in Plugins : Slot(q)' = Slot(q) /\ (Cleared(Slot(q)) => Cleared(Slot(q))')
  BY DEF Slot, Cleared, files
<1>6. Request'
  BY <1>3, <1>4, <1>5 DEF ChainInv, Request, files
<1> QED
  BY <1>2, <1>6 DEF ChainInv, Settled, Replacing, Slot, files, mem

-----------------------------------------------------------------------------
(* The fence                                                                *)

LEMMA FenceSave ==
  ASSUME NEW s \in Slots, NEW c \in Content, SavePluginSource(s, c)
  PROVE  Keeps
<1> SUFFICES ASSUME TypeOK, ChainInv PROVE ChainInv'
  BY DEF Keeps
<1> USE DEF SavePluginSource, mem, ctl, request, clock
<1>0. src'[s] = c /\ \A t \in Slots \ {s} : src'[t] = src[t]
  BY DEF TypeOK
<1>1. \A t \in Slots : WholeFiles(t)' /\ Chain(t)' /\ Latest(t)'
  BY <1>0, QuietSlots DEF KeepsSlots
<1>2. Settled' /\ Replacing'
  BY DEF ChainInv, Settled, Replacing
<1>3. Request'
  BY DEF ChainInv, Request, InFlight, Cleared, Slot
<1> QED
  BY <1>1, <1>2, <1>3 DEF ChainInv

LEMMA FenceStartReap ==
  ASSUME NEW e \in Entities, UpdatePluginsInventoryCache(e)
  PROVE  Keeps
<1> SUFFICES ASSUME TypeOK, ChainInv PROVE ChainInv'
  BY DEF Keeps
<1> USE DEF UpdatePluginsInventoryCache, files, mem, request, clock
<1>1. \A t \in Slots : WholeFiles(t)' /\ Chain(t)' /\ Latest(t)'
  BY QuietSlots DEF KeepsSlots
<1> QED
  BY <1>1 DEF ChainInv, Settled, Replacing, Request

\* A request is prepared: nothing of it has been looked at.
LEMMA FencePost ==
  ASSUME pc \notin {"reap", "replace"}, NEW e \in Entities,
         NEW B \in SUBSET Plugins, Post(e, B), ent' = e,
         UNCHANGED <<files, mem, saved, clock, bk>>
  PROVE  Keeps
<1> SUFFICES ASSUME TypeOK, ChainInv PROVE ChainInv'
  BY DEF Keeps
<1> USE DEF Post, files, mem, clock
<1>1. \A t \in Slots : WholeFiles(t)' /\ Chain(t)' /\ Latest(t)'
  BY QuietSlots DEF KeepsSlots
<1>2. ASSUME NEW p \in B
      PROVE  unacked'[p] = pend'[Slot(p)'] /\ InFlight(p)'
  <2> DEFINE J == pend[<<p, e>>]
  <2>1. /\ posted'[p] = J /\ unacked'[p] = J /\ pend'[Slot(p)'] = J
        /\ verdict'[p] = "ok" /\ hint'[p] = NoHint
    BY DEF Slot
  <2>2. Suffix(J, J)
    BY DEF Suffix
  <2>3. Ok(J, J, NoHint, bk'[Slot(p)'])
    BY DEF Ok, IsLast
  <2> QED
    BY <2>1, <2>2, <2>3 DEF InFlight
<1>3. Request'
  BY <1>2 DEF Request
<1> QED
  BY <1>1, <1>3 DEF ChainInv, Settled, Replacing

LEMMA FenceSend ==
  ASSUME \/ \E e \in Entities, B \in SUBSET Plugins : SendDeltas(e, B)
         \/ \E B \in SUBSET Plugins : SendNextBlock(B)
  PROVE  Keeps
<1> SUFFICES ASSUME TypeOK, ChainInv PROVE ChainInv'
  BY DEF Keeps
<1>1. ASSUME NEW e \in Entities, NEW B \in SUBSET Plugins, SendDeltas(e, B)
      PROVE  ChainInv'
  BY <1>1, FencePost DEF Keeps, SendDeltas
<1>2. ASSUME NEW B \in SUBSET Plugins, SendNextBlock(B) PROVE ChainInv'
  <2>1. ent \in Entities
    BY DEF TypeOK
  <2> QED
    BY <1>2, <2>1, FencePost DEF Keeps, SendNextBlock, BlockDone
<1> QED
  BY <1>1, <1>2

\* Steps of the sender after which no request is open.
LEMMA FenceNoRequest ==
  ASSUME pc \in {"post", "update", "sent"},
         pc' \in {"sent", "update", "reset", "compacted", "idle"},
         pc' = "update" => block' = {},
         offline' = {}, renamed' = renamed,
         UNCHANGED <<files, ids, saved, bk>>
  PROVE  Keeps
<1> SUFFICES ASSUME TypeOK, ChainInv PROVE ChainInv'
  BY DEF Keeps
<1>1. \A t \in Slots : WholeFiles(t)' /\ Chain(t)' /\ Latest(t)'
  BY QuietSlots DEF KeepsSlots, files
<1> QED
  BY <1>1 DEF ChainInv, Settled, Replacing, Request

-----------------------------------------------------------------------------
(* Reaping                                                                   *)

LEMMA FenceStoreDelta ==
  ASSUME NEW p \in Plugins, StoreDelta(p)
  PROVE  Keeps
<1> SUFFICES ASSUME TypeOK, ChainInv PROVE ChainInv'
  BY DEF Keeps
<1> USE DEF StoreDelta, request, clock
<1> SUFFICES ASSUME NEW s \in Slots, s = Slot(p) PROVE ChainInv'
  BY SlotInSlots
<1> DEFINE J == pend[s]
           y == NewEntry(s)
           n == ids[s].mru
           k == saved.ids[s].mru
           c == cache[s]
<1>1. s \in Slots /\ y \in Entry /\ HasDelta(s)
  BY NewEntryType
<1>2. /\ J \in SUBSET Entry /\ wr[s] \in Nat /\ n \in Nat /\ k \in Nat
      /\ bk[s].last \in Nat /\ c \in File
  BY <1>1 DEF TypeOK, PIEntity
<1>3. /\ y.at = wr[s] + 1 /\ y.id = n + 1 /\ y.target = src[s]
      /\ y.full = (c = NoFile)
      /\ ~y.full => c \in Content /\ y.base = c
      /\ y.full => c \notin Content
  BY <1>1, <1>2, Files DEF NewEntry, HasDelta, File
<1>4. WholeFiles(s) /\ Chain(s) /\ Latest(s)
  BY <1>1 DEF ChainInv
<1>5. n = k \/ (J = {} /\ y.full)
  BY <1>1, <1>3, <1>4 DEF Latest, Unsaved, ReplacingAt, Cleared, Slot
<1>6. NextLink(J, c, n)
  BY <1>4 DEF Latest, ReplacingAt
<1>7. Mru(s) = {n, k} /\ Mru(s)' = {n + 1, k}
  BY SMT, <1>1, <1>2 DEF Mru, TypeOK, PIEntity
<1>7a. Positions(J, wr[s])
  BY <1>4 DEF Chain
<1>7b. Positions(J \cup {y}, wr[s] + 1) /\ IsLast(y, J \cup {y})
  <2> HIDE DEF J, y
  <2> QED
    BY <1>1, <1>2, <1>3, <1>7a, AppendLast
<1>8. /\ pend'[s] = J \cup {y} /\ wr'[s] = wr[s] + 1 /\ ids'[s].mru = n + 1
      /\ UNCHANGED <<src, cache, torn, saved, bk, ent>>
  BY <1>1 DEF TypeOK, PIEntity
<1>9. WholeFiles(s)'
  BY <1>4, <1>8 DEF WholeFiles
<1>10. Chain(s)'
  <2>0. /\ NeverBack(J, {n, k}) /\ Links(J) /\ NotAhead(J, {n, k})
    BY <1>4, <1>7 DEF Chain
  <2>1. /\ NeverBack(J \cup {y}, {n + 1, k}) /\ Links(J \cup {y})
        /\ NotAhead(J \cup {y}, {n + 1, k}) /\ NextLink(J \cup {y}, c, k)
    <3> HIDE DEF J, y, n, k, c
    <3> QED
      BY <1>1, <1>2, <1>3, <1>5, <1>6, <1>7a, <2>0, AppendChain
  <2>2. FirstFits(J \cup {y}, bk[s])
    BY SMT, <1>1, <1>2, <1>3, <1>4, <1>7, AppendFirst DEF Chain
  <2>3. NextFits(J \cup {y}, c, {n + 1, k}, bk[s])
    BY DEF NextFits
  <2> QED
    BY <1>7, <1>7b, <1>8, <2>1, <2>2, <2>3 DEF Chain
<1>11. ReplacingAt(s)' /\ Unsaved(s)'
  BY <1>1 DEF ReplacingAt, Unsaved, Slot
<1>12. Latest(s)'
  BY <1>11 DEF Latest
<1>13. ASSUME NEW t \in Slots, t # s
       PROVE  WholeFiles(t)' /\ Chain(t)' /\ Latest(t)'
  <2>1. /\ pend'[t] = pend[t] /\ wr'[t] = wr[t] /\ ids'[t] = ids[t]
        /\ WholeFiles(t) /\ Chain(t) /\ Latest(t)
    BY <1>1, <1>13 DEF TypeOK, ChainInv
  <2>2. WholeFiles(t)'
    BY <1>8, <2>1 DEF WholeFiles
  <2>3. Chain(t)'
    BY <1>8, <2>1 DEF Chain, Mru
  <2>4. NextLink(pend[t], cache[t], ids[t].mru)
    BY <2>1 DEF Latest, ReplacingAt
  <2>5. ids[t].mru = saved.ids[t].mru \/ Cleared(t) \/ Unsaved(t)'
    BY <2>1 DEF Latest, Unsaved, ReplacingAt, Slot
  <2>6. Latest(t)'
    BY <1>8, <2>1, <2>4, <2>5 DEF Latest, Cleared
  <2> QED
    BY <2>2, <2>3, <2>6
<1>14. Replacing'
  <2>1. IsLast(y, pend'[s])
    BY <1>7b, <1>8
  <2>2. src[s] \in Content
    BY <1>1 DEF HasDelta
  <2> QED
    BY <1>3, <1>8, <2>1, <2>2 DEF Replacing, Slot
<1>15. Settled' /\ Request'
  BY DEF ChainInv, Settled, Request
<1> QED
  BY <1>9, <1>10, <1>12, <1>13, <1>14, <1>15 DEF ChainInv

LEMMA FenceReplace ==
  ASSUME ReplacePluginCacheFileWithSource
  PROVE  Keeps
<1> SUFFICES ASSUME TypeOK, ChainInv PROVE ChainInv'
  BY DEF Keeps
<1> USE DEF ReplacePluginCacheFileWithSource, mem, request, clock
<1> SUFFICES ASSUME NEW s \in Slots, s = Slot(cur) PROVE ChainInv'
  BY SlotInSlots DEF TypeOK
<1>1. s \in Slots
  OBVIOUS
<1>2. WholeFiles(s) /\ Chain(s)
  BY <1>1 DEF ChainInv
<1>3. /\ cache'[s] = src[s] /\ src[s] \in Content
      /\ \A t \in Slots : t # s => cache'[t] = cache[t]
  BY <1>1 DEF TypeOK, ChainInv, Replacing
<1>4. PICK x \in pend[s] : IsLast(x, pend[s]) /\ x.target = src[s] /\ x.id = ids[s].mru
  BY DEF ChainInv, Replacing
<1>5. ASSUME NEW z, IsLast(z, pend[s]) PROVE z = x
  <2>1. pend[s] \in SUBSET Entry
    BY <1>1 DEF TypeOK
  <2>2. Positions(pend[s], wr[s])
    BY <1>2 DEF Chain
  <2> HIDE DEF ReplacePluginCacheFileWithSource
  <2> QED
    BY <1>4, <1>5, <2>1, <2>2, LastUnique
<1>6. \A m : NextLink(pend[s], src[s], m)
  BY <1>4, <1>5 DEF NextLink
<1>7. WholeFiles(s)'
  BY <1>2, <1>3, Files DEF WholeFiles
<1>8. Chain(s)'
  BY <1>2, <1>3, <1>4, <1>6 DEF NextFits, Chain, Mru
<1>9. Latest(s)'
  BY <1>1, <1>3, <1>6 DEF Unsaved, Slot, Latest
<1>10. ASSUME NEW t \in Slots, t # s
       PROVE  WholeFiles(t)' /\ Chain(t)' /\ Latest(t)'
  <2>1. WholeFiles(t) /\ Chain(t) /\ Latest(t) /\ cache'[t] = cache[t]
    BY <1>3, <1>10 DEF ChainInv
  <2>2. WholeFiles(t)' /\ Chain(t)'
    BY <2>1 DEF WholeFiles, Chain, Mru
  <2>3. NextLink(pend[t], cache[t], ids[t].mru)
    BY <1>10, <2>1 DEF Latest, ReplacingAt
  <2>4. ids[t].mru = saved.ids[t].mru \/ Cleared(t) \/ Unsaved(t)'
    BY <1>10, <2>1 DEF Latest, Unsaved, ReplacingAt
  <2> QED
    BY <2>1, <2>2, <2>3, <2>4 DEF Latest, Cleared
<1> QED
  BY <1>7, <1>8, <1>9, <1>10 DEF ChainInv, Settled, Replacing, Request

LEMMA FenceSkip ==
  ASSUME NEW p \in Plugins, SkipUnchanged(p)
  PROVE  Keeps
<1> SUFFICES ASSUME TypeOK, ChainInv PROVE ChainInv'
  BY DEF Keeps
<1> USE DEF SkipUnchanged, files, mem, request, clock
<1>1. ASSUME NEW t \in Slots
      PROVE  WholeFiles(t)' /\ Chain(t)' /\ Latest(t)'
  <2>1. WholeFiles(t) /\ Chain(t) /\ Latest(t)
    BY <1>1 DEF ChainInv
  <2>2. WholeFiles(t)' /\ Chain(t)'
    BY <2>1 DEF WholeFiles, Chain, Mru
  <2>3. NextLink(pend[t], cache[t], ids[t].mru)
    BY <2>1 DEF Latest, ReplacingAt
  <2>4. ids[t].mru = saved.ids[t].mru \/ Cleared(t) \/ Unsaved(t)'
    BY <2>1 DEF Latest, Unsaved, ReplacingAt
  <2> QED
    BY <2>2, <2>3, <2>4 DEF Latest, Cleared
<1> QED
  BY <1>1 DEF ChainInv, Settled, Replacing, Request

\* Writing the id map: what is in use in memory and on disk is the same again.
LEMMA SavedSlots ==
  ASSUME pc # "replace", pc' # "replace", SaveState,
         UNCHANGED <<files, mem, bk>>
  PROVE  KeepsSlots
<1> USE DEF files, mem
<1> SUFFICES ASSUME TypeOK, ChainInv, NEW s \in Slots
             PROVE  WholeFiles(s)' /\ Chain(s)' /\ Latest(s)'
  BY DEF KeepsSlots
<1>1. WholeFiles(s) /\ Chain(s) /\ Latest(s)
  BY DEF ChainInv
<1>2. saved'.ids[s] = ids[s]
  BY DEF SaveState
<1>3. Mru(s)' = {ids[s].mru} /\ Mru(s)' \subseteq Mru(s)
  BY <1>2 DEF Mru
<1>4. NextLink(pend[s], cache[s], ids[s].mru)
  BY <1>1 DEF Latest, ReplacingAt
<1>5. /\ NeverBack(pend[s], Mru(s)') /\ NotAhead(pend[s], Mru(s)')
      /\ NextFits(pend[s], cache[s], Mru(s)', bk[s])
  BY <1>1, <1>3 DEF Chain, NeverBack, NotAhead, NextFits
<1>6. Chain(s)'
  BY <1>1, <1>2, <1>4, <1>5 DEF Chain
<1>7. WholeFiles(s)' /\ Latest(s)'
  BY <1>1, <1>2, <1>4 DEF WholeFiles, Latest
<1> QED
  BY <1>6, <1>7

LEMMA FenceFinishReap ==
  ASSUME FinishReap
  PROVE  Keeps
<1> SUFFICES ASSUME TypeOK, ChainInv PROVE ChainInv'
  BY DEF Keeps
<1> USE DEF FinishReap, request, clock
<1>1. \A t \in Slots : WholeFiles(t)' /\ Chain(t)' /\ Latest(t)'
  <2>1. CASE dirty
    BY <2>1, SavedSlots DEF KeepsSlots
  <2>2. CASE ~dirty
    <3>1. ASSUME NEW t \in Slots
          PROVE  WholeFiles(t)' /\ Chain(t)' /\ Latest(t)'
      <4>1. WholeFiles(t) /\ Chain(t) /\ Latest(t)
        BY <3>1 DEF ChainInv
      <4>2. WholeFiles(t)' /\ Chain(t)'
        BY <2>2, <4>1 DEF WholeFiles, Chain, Mru, files, mem
      <4>3. NextLink(pend[t], cache[t], ids[t].mru)
        BY <4>1 DEF Latest, ReplacingAt
      <4>4. ids[t].mru = saved.ids[t].mru \/ Cleared(t)
        BY <2>2, <4>1 DEF Latest, Unsaved, ReplacingAt
      <4> QED
        BY <2>2, <4>2, <4>3, <4>4 DEF Latest, Cleared, files, mem
    <3> QED
      BY <3>1
  <2> QED
    BY <2>1, <2>2 DEF TypeOK
<1> QED
  BY <1>1 DEF ChainInv, Settled, Replacing, Request

LEMMA FenceReap ==
  ASSUME Faults \subseteq SoftFaults, Reap
  PROVE  Keeps
<1> SUFFICES ASSUME TypeOK, ChainInv PROVE ChainInv'
  BY DEF Keeps
<1>1. ASSUME NEW p \in Plugins, DropCorruptPlugin(p) PROVE FALSE
  BY <1>1, SlotInSlots DEF DropCorruptPlugin, ChainInv, WholeFiles
<1>2. ASSUME NEW p \in Plugins, StoreDeltaFails(p) PROVE FALSE
  BY <1>2, SlotInSlots, NoHarm DEF StoreDeltaFails, ChainInv, WholeFiles
<1> QED
  BY <1>1, <1>2, FenceStartReap, FenceSkip, FenceStoreDelta, FenceReplace, FenceFinishReap
  DEF Keeps, Reap

-----------------------------------------------------------------------------
(* Sending                                                                   *)

LEMMA FenceFinishReset ==
  ASSUME FinishReset \/ SaveCompacted
  PROVE  Keeps
<1> SUFFICES ASSUME TypeOK, ChainInv PROVE ChainInv'
  BY DEF Keeps
<1> USE DEF FinishReset, SaveCompacted, request, clock
<1>1. \A t \in Slots : WholeFiles(t)' /\ Chain(t)' /\ Latest(t)'
  BY SavedSlots DEF KeepsSlots
<1> QED
  BY <1>1 DEF ChainInv, Settled, Replacing, Request

\* With whole files no plugin that was reaped is without its source.
LEMMA FenceCompact ==
  ASSUME CompactStorage
  PROVE  Keeps
<1> SUFFICES ASSUME TypeOK, ChainInv PROVE ChainInv'
  BY DEF Keeps
<1> DEFINE gone == {p \in Plugins : cache[Slot(p)] # NoFile /\ src[Slot(p)] = NoFile}
<1>1. gone = {}
  BY SlotInSlots DEF ChainInv, WholeFiles
<1>2. gone \X {ent} = {}
  BY <1>1
<1>3. /\ pc = "sent" /\ pc' = "compacted" /\ UNCHANGED <<src, saved, ent, request, clock, bk>>
      /\ ClearPluginDeltaStore(gone \X {ent})
      /\ ids' = [s \in Slots |-> IF s[1] \in gone THEN NoIDs[s] ELSE ids[s]]
  BY DEF CompactStorage
<1>4. ids' = ids
  BY <1>1, <1>3 DEF TypeOK
<1>5. UNCHANGED <<cache, pend, torn, wr>>
  <2>1. /\ cache' = [s \in Slots |-> cache[s]] /\ pend' = [s \in Slots |-> pend[s]]
        /\ torn' = [s \in Slots |-> torn[s]] /\ wr' = [s \in Slots |-> wr[s]]
    BY <1>2, <1>3 DEF ClearPluginDeltaStore, Truncate
  <2> QED
    BY <2>1 DEF TypeOK
<1>6. offline = {}
  BY DEF ChainInv, Settled
<1> QED
  BY <1>3, <1>4, <1>5, <1>6, FenceNoRequest DEF Keeps, clock, files

LEMMA FenceSent ==
  ASSUME \/ PostFails \/ PostAnswersResetAll \/ FinishBlocks
         \/ StartReset \/ SkipCompaction
  PROVE  Keeps
<1> SUFFICES ASSUME TypeOK, ChainInv PROVE ChainInv'
  BY DEF Keeps
<1>1. offline = {} /\ renamed = {}
  BY DEF ChainInv, Settled
<1>2. CASE PostFails \/ PostAnswersResetAll
  BY <1>1, <1>2, FenceNoRequest
  DEF Keeps, PostFails, PostAnswersResetAll, NoRequest, files, mem, clock
<1>3. CASE FinishBlocks \/ StartReset \/ SkipCompaction
  BY <1>1, <1>3, FenceNoRequest
  DEF Keeps, FinishBlocks, BlockDone, StartReset, SkipCompaction, files, mem, clock
<1> QED
  BY <1>2, <1>3

LEMMA FencePostSucceeds ==
  ASSUME NEW N \in SUBSET block, PostSucceeds(N)
  PROVE  Keeps
<1> SUFFICES ASSUME TypeOK, ChainInv PROVE ChainInv'
  BY DEF Keeps
<1> USE DEF PostSucceeds, files, mem
<1>1. \A t \in Slots : WholeFiles(t)' /\ Chain(t)' /\ Latest(t)'
  BY QuietSlots DEF KeepsSlots
<1>2. ASSUME NEW q \in block
      PROVE  posted[q] = {} /\ InFlight(q)'
  <2>1. /\ q \in Plugins /\ posted[q] = {} /\ unacked[q] = pend[Slot(q)] /\ InFlight(q)
    BY <1>2 DEF ChainInv, Request, TypeOK
  <2>2. hint'[q] = IF q \in N THEN NoHint ELSE hint[q]
    BY <2>1
  <2>3. pend[Slot(q)] \ unacked[q] = {}
    BY <2>1
  <2>4. CASE q \in N
    BY <2>1, <2>2, <2>3, <2>4 DEF InFlight, Ok, Slot
  <2>5. CASE q \notin N
    BY <2>1, <2>2, <2>3, <2>5 DEF InFlight, Slot
  <2> QED
    BY <2>1, <2>4, <2>5
<1>3. Request'
  BY <1>2 DEF Request
<1> QED
  BY <1>1, <1>3 DEF ChainInv, Settled, Replacing

-----------------------------------------------------------------------------
(* The answer                                                                *)

\* The slots of S lose their cached file and their journal, others keep theirs.
LEMMA ClearedSlots ==
  ASSUME pc \notin {"reap", "replace"}, pc' # "replace",
         NEW S \in SUBSET Slots, ClearPluginDeltaStore(S),
         \A t \in Slots \ S : ids'[t].mru = ids[t].mru,
         UNCHANGED <<src, saved, bk>>
  PROVE  /\ KeepsSlots
         /\ \A t \in S : Cleared(t)'
         /\ \A t \in Slots \ S : pend'[t] = pend[t] /\ cache'[t] = cache[t]
<1> USE DEF ClearPluginDeltaStore, Truncate
<1>1. ASSUME TypeOK, ChainInv, NEW t \in S
      PROVE  WholeFiles(t)' /\ Chain(t)' /\ Latest(t)'
  <2>1. /\ cache'[t] = NoFile /\ pend'[t] = {} /\ torn'[t] = FALSE /\ t \in Slots
    BY <1>1
  <2>2. WholeFiles(t)'
    BY <1>1, <2>1, Files DEF ChainInv, WholeFiles
  <2>3. Chain(t)'
    BY <2>1, Files
    DEF Chain, Positions, NeverBack, Links, NotAhead, NextLink, NextFits, FirstFits
  <2>4. Latest(t)'
    BY <2>1 DEF Latest, NextLink, Cleared
  <2> QED
    BY <2>2, <2>3, <2>4
<1>2. ASSUME TypeOK, ChainInv, NEW t \in Slots \ S
      PROVE  WholeFiles(t)' /\ Chain(t)' /\ Latest(t)'
  <2>1. WholeFiles(t) /\ Chain(t) /\ Latest(t)
    BY <1>2 DEF ChainInv
  <2>2. /\ pend'[t] = pend[t] /\ cache'[t] = cache[t] /\ torn'[t] = torn[t]
        /\ wr'[t] = wr[t] /\ ids'[t].mru = ids[t].mru
    BY <1>2
  <2>3. WholeFiles(t)' /\ Chain(t)'
    BY <2>1, <2>2 DEF WholeFiles, Chain, Mru
  <2>4. NextLink(pend[t], cache[t], ids[t].mru)
    BY <2>1 DEF Latest, ReplacingAt
  <2>5. ids[t].mru = saved.ids[t].mru \/ Cleared(t)
    BY <2>1 DEF Latest, Unsaved
  <2>6. Latest(t)'
    BY <2>2, <2>4, <2>5 DEF Latest, Cleared
  <2> QED
    BY <2>2, <2>3, <2>6
<1>3. /\ \A t \in S : Cleared(t)'
      /\ \A t \in Slots \ S : pend'[t] = pend[t] /\ cache'[t] = cache[t]
  BY DEF Cleared
<1> QED
  BY <1>1, <1>2, <1>3 DEF KeepsSlots

LEMMA FenceReset ==
  ASSUME NEW p \in Plugins, ResetAllDeltas(p)
  PROVE  Keeps
<1> SUFFICES ASSUME TypeOK, ChainInv PROVE ChainInv'
  BY DEF Keeps
<1> USE DEF ResetAllDeltas, mem, request, clock
<1>1. {Slot(p)} \in SUBSET Slots
  BY SlotInSlots
<1>2. \A t \in Slots : WholeFiles(t)' /\ Chain(t)' /\ Latest(t)'
  BY <1>1, ClearedSlots DEF KeepsSlots
<1> QED
  BY <1>2 DEF ChainInv, Settled, Replacing, Request

\* Ids are compared along the journal.
LEMMA LeqTransitive ==
  ASSUME NEW a \in Int, NEW b \in Int, NEW c \in Int, a <= b, b <= c
  PROVE  a <= c
BY SMT

\* updateLastDeltaSent without a reconciliation moves only lastDeltaSent, to the
\* delta before the one the backend waits for.
Moves(pi, h, id, new) ==
  /\ new.mru = pi.mru /\ new.sent \in Int
  /\ h = NoHint => pi.sent <= new.sent /\ id <= new.sent
  /\ h # NoHint => new.sent = h.next - 1

LEMMA AfterAck ==
  ASSUME NEW pi \in PIEntity, NEW h \in Hint, NEW id \in Nat, ~Clears(h, id)
  PROVE  Moves(pi, h, id, AfterHint(pi, h, id))
BY SMT DEF Moves, AfterHint, Clears, Reconciles, PIEntity, Hint

LEMMA FenceUpdate ==
  ASSUME NEW p \in Plugins, NEW d \in unacked[p], UpdateLastDeltaSent(p, d)
  PROVE  Keeps
<1> SUFFICES ASSUME TypeOK, ChainInv PROVE ChainInv'
  BY DEF Keeps
<1> USE DEF UpdateLastDeltaSent, ctl, clock
<1> SUFFICES ASSUME NEW s \in Slots, s = Slot(p) PROVE ChainInv'
  BY SlotInSlots
<1>1. /\ d \in Entry /\ d.id \in Nat /\ hint[p] \in Hint /\ ids[s] \in PIEntity
      /\ ids[s].sent \in Int
  BY SMT DEF TypeOK, Entry, PIEntity
<1>2. unacked'[p] = unacked[p] \ {d} /\ \A q \in Plugins \ {p} : unacked'[q] = unacked[q]
  BY DEF TypeOK
<1>3. \A q \in block : q \in Plugins /\ posted[q] = {} /\ (Cleared(Slot(q)) \/ InFlight(q))
  BY DEF ChainInv, Request, TypeOK
<1>4. \A q \in Plugins \ {p} : Slot(q) # s /\ Slot(q) \in Slots
  BY SlotInSlots DEF Slot
<1>5. CASE p \notin known
  <2>1. UNCHANGED <<ids, cache, pend, torn, wr>>
    BY <1>5
  <2>2. \A t \in Slots : WholeFiles(t)' /\ Chain(t)' /\ Latest(t)'
    BY <2>1, QuietSlots DEF KeepsSlots
  <2>3. ASSUME NEW q \in block PROVE Cleared(Slot(q))' \/ InFlight(q)'
    BY <1>2, <1>3, <1>5, <2>1, <2>3 DEF Cleared, Slot, InFlight
  <2> QED
    BY <1>3, <2>2, <2>3 DEF ChainInv, Settled, Replacing, Request
<1>6. CASE p \in known /\ Clears(hint[p], d.id)
  <2>1. /\ ClearPluginDeltaStore({s}) /\ ids' = [ids EXCEPT ![s] = AfterHint(@, hint[p], d.id)]
    BY <1>6
  <2>2. \A t \in Slots \ {s} : ids'[t] = ids[t]
    BY <2>1 DEF TypeOK
  <2>3. /\ \A t \in Slots : WholeFiles(t)' /\ Chain(t)' /\ Latest(t)'
        /\ Cleared(s)'
        /\ \A t \in Slots \ {s} : pend'[t] = pend[t] /\ cache'[t] = cache[t]
    BY <2>1, <2>2, ClearedSlots DEF KeepsSlots
  <2>4. ASSUME NEW q \in block PROVE Cleared(Slot(q))' \/ InFlight(q)'
    <3>1. CASE q = p
      BY <2>3, <3>1 DEF Cleared, Slot
    <3>2. CASE q # p
      <4>1. /\ Slot(q) \in Slots \ {s} /\ Slot(q)' = Slot(q) /\ unacked'[q] = unacked[q]
            /\ (Cleared(Slot(q)) \/ InFlight(q))
        BY <1>2, <1>3, <1>4, <2>4, <3>2 DEF Slot
      <4>2. /\ pend'[Slot(q)] = pend[Slot(q)] /\ cache'[Slot(q)] = cache[Slot(q)]
            /\ ids'[Slot(q)] = ids[Slot(q)]
        BY <2>2, <2>3, <4>1
      <4>3. CASE Cleared(Slot(q))
        BY <4>1, <4>2, <4>3 DEF Cleared
      <4>4. CASE InFlight(q)
        BY <4>1, <4>2, <4>4 DEF InFlight
      <4> QED
        BY <4>1, <4>3, <4>4
    <3> QED
      BY <3>1, <3>2
  <2> QED
    BY <1>3, <2>3, <2>4 DEF ChainInv, Settled, Replacing, Request
<1>7. CASE p \in known /\ ~Clears(hint[p], d.id)
  <2>1. /\ ClearPluginDeltaStore({}) /\ ids' = [ids EXCEPT ![s] = AfterHint(@, hint[p], d.id)]
    BY <1>7
  <2>2. UNCHANGED <<cache, pend, torn, wr>>
    BY <2>1 DEF ClearPluginDeltaStore, Truncate, TypeOK
  <2>3. ids'[s] = AfterHint(ids[s], hint[p], d.id) /\ \A t \in Slots \ {s} : ids'[t] = ids[t]
    BY <2>1 DEF TypeOK
  <2>4. /\ ids'[s].mru = ids[s].mru /\ ids'[s].sent \in Int
        /\ hint[p] = NoHint => ids[s].sent <= ids'[s].sent /\ d.id <= ids'[s].sent
        /\ hint[p] # NoHint => ids'[s].sent = hint[p].next - 1
    <3>1. Moves(ids[s], hint[p], d.id, AfterHint(ids[s], hint[p], d.id))
      BY <1>1, <1>7, AfterAck
    <3> QED
      BY <2>3, <3>1 DEF Moves
  <2>5. \A t \in Slots : WholeFiles(t)' /\ Chain(t)' /\ Latest(t)'
    BY <2>2, <2>3, <2>4, QuietSlots DEF KeepsSlots
  <2>6. ASSUME NEW q \in block PROVE Cleared(Slot(q))' \/ InFlight(q)'
    <3>1. CASE Cleared(Slot(q))
      BY <2>2, <3>1 DEF Cleared, Slot
    <3>2. CASE q # p /\ InFlight(q)
      BY <1>2, <1>3, <1>4, <2>2, <2>3, <2>6, <3>2 DEF InFlight, Slot
    <3>3. CASE q = p /\ InFlight(p)
      <4>1. \A x \in pend[s] \ unacked[p] : Acked(hint[p], ids[s].sent, x)
        BY <1>7, <3>3 DEF InFlight
      <4>2. ASSUME NEW x \in pend[s] \ unacked'[p] PROVE Acked(hint[p], ids'[s].sent, x)
        <5>1. CASE x = d
          BY <1>7, <2>4, <5>1 DEF Acked
        <5>2. CASE x # d
          <6>1. Acked(hint[p], ids[s].sent, x) /\ x.id \in Nat
            BY <1>2, <4>1, <4>2, <5>2, SMTT(20) DEF TypeOK, Entry
          <6> HIDE DEF UpdateLastDeltaSent
          <6>2. hint[p] = NoHint => x.id <= ids'[s].sent
            BY SMT, <1>1, <2>4, <6>1, LeqTransitive DEF Acked
          <6> QED
            BY <2>4, <6>1, <6>2, ZenonT(40) DEF Acked
        <5> QED
          BY <5>1, <5>2
      <4> QED
        BY <1>2, <2>2, <3>3, <4>2 DEF InFlight, Slot
    <3> QED
      BY <1>3, <2>6, <3>1, <3>2, <3>3
  <2> QED
    BY <1>3, <2>5, <2>6 DEF ChainInv, Settled, Replacing, Request
<1> QED
  BY <1>5, <1>6, <1>7

LEMMA EmptyChain ==
  ASSUME NEW M, NEW c, NEW b
  PROVE  /\ \A w : Positions({}, w)
         /\ NeverBack({}, M) /\ Links({}) /\ NotAhead({}, M)
         /\ \A n : NextLink({}, c, n)
         /\ FirstFits({}, b)
BY DEF Positions, NeverBack, Links, NotAhead, NextLink, FirstFits

\* The answer to a request for a journal J; what must hold of the rest K.
Answered(J, h, sent, b) ==
  /\ \A x \in J : Acked(h, sent, x)
  /\ Ok(J, {}, h, b) \/ Deferred(J, h, b) \/ Refused(h)
Chained(K, w, M, c, b) ==
  /\ Numbered(K, w, M, c) /\ Links(K)
  /\ NextFits(K, c, M, b) /\ FirstFits(K, b)

\* What archivePlugin keeps of an acknowledged journal J is again a chain.
LEMMA KeptChain ==
  ASSUME NEW J, NEW w, NEW M, NEW c, Numbered(J, w, M, c), J # {},
         NEW h \in Hint, NEW sent \in Int, NEW b, Answered(J, h, sent, b)
  PROVE  Chained(From(J, sent + 1), w, M, c, b)
<1>0. /\ w \in Nat /\ M \in SUBSET Nat
      /\ \A x \in J : x.id \in Nat
  BY DEF Numbered, Entry
<1>1. \A x \in J : Acked(h, sent, x)
  BY DEF Answered
<1>2. Ok(J, {}, h, b) \/ Deferred(J, h, b) \/ Refused(h)
  BY DEF Answered
<1>3. CASE h = NoHint
  <2>1. From(J, sent + 1) = {}
    BY SMT, <1>0, <1>1, <1>3 DEF Acked, From
  <2>2. ~(h.next >= 0)
    BY SMT, <1>3 DEF NoHint
  <2>3. ~Deferred(J, h, b) /\ ~Refused(h)
    BY <2>2 DEF Deferred, Refused
  <2>4. NextFits({}, c, M, b)
    BY <1>2, <2>3, AllStored, Zenon
  <2>5. Numbered({}, w, M, c) /\ Links({}) /\ FirstFits({}, b)
    BY <1>0, EmptyChain DEF Numbered
  <2> QED
    BY <2>1, <2>4, <2>5 DEF Chained
<1>4. CASE h # NoHint
  BY SMT, <1>0, <1>1, <1>2, <1>4, KeepChain, KeepOk, KeepDeferred
  DEF Acked, Hint, Clears, Reconciles, Around, Chained, Refused
<1> QED
  BY <1>3, <1>4

LEMMA FenceArchive ==
  ASSUME NEW p \in Plugins, ArchivePlugin(p)
  PROVE  Keeps
<1> SUFFICES ASSUME TypeOK, ChainInv PROVE ChainInv'
  BY DEF Keeps
<1> USE DEF ArchivePlugin, mem, ctl, clock
<1> SUFFICES ASSUME NEW s \in Slots, s = Slot(p) PROVE ChainInv'
  BY SlotInSlots
<1> DEFINE J == pend[s]
           K == KeepDeltas(p)
<1>1. /\ pend'[s] = K /\ wr'[s] = IF K = {} THEN 0 ELSE wr[s]
      /\ \A t \in Slots \ {s} : pend'[t] = pend[t] /\ wr'[t] = wr[t]
  BY DEF TypeOK
<1>2. /\ J \in SUBSET Entry /\ wr[s] \in Nat /\ Mru(s) \in SUBSET Nat
      /\ hint[p] \in Hint /\ ids[s].sent \in Int
      /\ verdict[p] \in {"ok", "refused", "deferred"} /\ unacked[p] = {}
  BY SMT DEF TypeOK, PIEntity, Mru
<1>3. /\ WholeFiles(s) /\ Chain(s) /\ Latest(s)
      /\ ids[s].mru = saved.ids[s].mru \/ Cleared(s)
  BY DEF ChainInv, Latest, Unsaved
<1>4. \A n \in Mru(s) : NextLink(J, cache[s], n)
  BY <1>3 DEF Latest, ReplacingAt, Chain, Mru
<1>5. K \subseteq J
  BY DEF KeepDeltas
<1>6. /\ Positions(K, wr[s]) /\ NeverBack(K, Mru(s)) /\ Links(K) /\ NotAhead(K, Mru(s))
      /\ \A n \in Mru(s) : NextLink(K, cache[s], n)
      /\ NextFits(K, cache[s], Mru(s), bk[s]) /\ FirstFits(K, bk[s])
  <2>1. CASE J = {} \/ p \notin known
    <3>1. K = J
      BY <1>5, <2>1 DEF KeepDeltas
    <3> QED
      BY <1>3, <1>4, <3>1 DEF Chain
  <2>2. CASE J # {} /\ p \in known
    <3>1. posted[p] = {} /\ InFlight(p)
      BY <2>2 DEF ChainInv, Request, Cleared
    <3>2. Answered(J, hint[p], ids[s].sent, bk[s])
      BY <1>2, <2>2, <3>1 DEF InFlight, Answered
    <3>3. K = From(J, ids[s].sent + 1)
      BY SMT, <1>2, <2>2 DEF KeepDeltas, From
    <3>4. Numbered(J, wr[s], Mru(s), cache[s])
      BY <1>2, <1>3, <1>4 DEF Chain, Numbered
    <3>5. Chained(K, wr[s], Mru(s), cache[s], bk[s])
      <4> HIDE DEF J, K
      <4>1. Chained(From(J, ids[s].sent + 1), wr[s], Mru(s), cache[s], bk[s])
        BY <1>2, <2>2, <3>2, <3>4, KeptChain, Zenon
      <4> QED
        BY <3>3, <4>1
    <3> QED
      BY <3>5 DEF Chained, Numbered
  <2> QED
    BY <2>1, <2>2
<1>7. WholeFiles(s)' /\ Chain(s)' /\ Latest(s)'
  <2> HIDE DEF J, K
  <2>1. Positions(K, wr'[s])
    BY <1>1, <1>6 DEF Positions
  <2>2. Mru(s)' = Mru(s) /\ ids[s].mru \in Mru(s) /\ saved.ids[s].mru \in Mru(s)
    BY DEF Mru
  <2>3. Chain(s)'
    BY <1>1, <1>6, <2>1, <2>2 DEF Chain
  <2>4. Cleared(s) => Cleared(s)'
    BY <1>1, <1>5 DEF Cleared, J
  <2>5. Latest(s)'
    BY <1>1, <1>3, <1>6, <2>2, <2>4 DEF Latest
  <2>6. WholeFiles(s)'
    BY <1>3 DEF WholeFiles
  <2> QED
    BY <2>3, <2>5, <2>6
<1>8. ASSUME NEW t \in Slots \ {s}
      PROVE  WholeFiles(t)' /\ Chain(t)' /\ Latest(t)'
  <2>1. WholeFiles(t) /\ Chain(t) /\ Latest(t) /\ pend'[t] = pend[t] /\ wr'[t] = wr[t]
    BY <1>1, <1>8 DEF ChainInv
  <2> QED
    BY <2>1 DEF WholeFiles, Chain, Mru, Latest, Cleared, ReplacingAt, Unsaved
<1>9. ASSUME NEW q \in block \ {p}
      PROVE  posted[q] = {} /\ (Cleared(Slot(q))' \/ InFlight(q)')
  <2>1. /\ q \in Plugins /\ posted[q] = {} /\ (Cleared(Slot(q)) \/ InFlight(q))
        /\ Slot(q) \in Slots \ {s}
    BY <1>9, SlotInSlots DEF ChainInv, Request, TypeOK, Slot
  <2>2. pend'[Slot(q)] = pend[Slot(q)]
    BY <1>1, <2>1
  <2> QED
    BY <2>1, <2>2 DEF InFlight, Cleared, Slot
<1> QED
  BY <1>7, <1>8, <1>9 DEF ChainInv, Settled, Replacing, Request

-----------------------------------------------------------------------------

LEMMA FenceProcess ==
  ASSUME Process
  PROVE  Keeps
<1> SUFFICES ASSUME TypeOK, ChainInv PROVE ChainInv'
  BY DEF Keeps
<1>1. ASSUME NEW e \in Entities, CleanPluginDeltas(e) PROVE FALSE
  BY <1>1 DEF CleanPluginDeltas, Corrupt, Reaped, Slots, ChainInv, WholeFiles
<1>2. ASSUME NEW e \in Entities, RemoveEntityData(e) PROVE FALSE
  BY <1>2 DEF RemoveEntityData, MustRemove, ChainInv, Settled
<1>3. ASSUME RemoveEntityCache PROVE FALSE
  BY <1>3 DEF RemoveEntityCache, ChainInv, Settled
<1>4. ASSUME NEW N \in SUBSET block, PostSucceeds(N) PROVE ChainInv'
  BY <1>4, FencePostSucceeds DEF Keeps
<1>5. ASSUME NEW p \in Plugins, NEW d \in unacked[p], UpdateLastDeltaSent(p, d)
      PROVE  ChainInv'
  BY <1>5, FenceUpdate DEF Keeps
<1> QED
  BY <1>1, <1>2, <1>3, <1>4, <1>5, FenceSend, FenceArchive, FenceSent, FenceReset,
     FenceFinishReset, FenceCompact
  DEF Keeps, Process

LEMMA FenceDisturbance ==
  ASSUME Faults \subseteq SoftFaults, Disturbance
  PROVE  Keeps
<1> SUFFICES ASSUME TypeOK, ChainInv PROVE ChainInv'
  BY DEF Keeps
<1>1. ~AgentIDChanges /\ ~LongDisconnection
  BY NoHarm DEF AgentIDChanges, LongDisconnection
<1> QED
  BY <1>1, FenceSent, FenceForgets DEF Keeps, Disturbance

-----------------------------------------------------------------------------
(* Crashes                                                                   *)

\* The ids on disk come back, and cached files may be missing.
LEMMA RestartSlots ==
  ASSUME NewStore, UNCHANGED <<src, pend, torn, wr, saved>>,
         \A t \in Slots : cache'[t] \in {cache[t], NoFile}
  PROVE  Keeps
<1> SUFFICES ASSUME TypeOK, ChainInv PROVE ChainInv'
  BY DEF Keeps
<1> USE DEF NewStore
<1>1. ASSUME NEW t \in Slots
      PROVE  WholeFiles(t)' /\ Chain(t)' /\ Latest(t)'
  <2>1. WholeFiles(t) /\ Chain(t) /\ cache'[t] \in {cache[t], NoFile}
    BY <1>1 DEF ChainInv
  <2>2. Mru(t)' = {saved.ids[t].mru} /\ \A n \in Mru(t)' : n \in Mru(t)
    BY DEF Mru
  <2>3. WholeFiles(t)'
    BY <2>1, Files DEF WholeFiles
  <2>4. /\ NeverBack(pend[t], Mru(t)') /\ NotAhead(pend[t], Mru(t)')
        /\ NextFits(pend[t], cache'[t], Mru(t)', bk[t])
        /\ NextLink(pend[t], cache'[t], saved.ids[t].mru)
    BY <2>1, <2>2, Files DEF Chain, NeverBack, NotAhead, NextFits, NextLink
  <2>5. Chain(t)'
    BY <2>1, <2>4 DEF Chain
  <2>6. Latest(t)'
    BY <2>4 DEF Latest
  <2> QED
    BY <2>3, <2>5, <2>6
<1> QED
  BY <1>1 DEF ChainInv, Settled, Replacing, Request

LEMMA FenceCrashes ==
  ASSUME Faults \subseteq SoftFaults, Crashes
  PROVE  Keeps
<1> SUFFICES ASSUME TypeOK, ChainInv PROVE ChainInv'
  BY DEF Keeps
<1>1. CASE Crash
  BY <1>1, RestartSlots DEF Keeps, Crash, files
<1>2. CASE CrashInCopy
  <2>1. PICK f \in {NoFile} : cache' = [cache EXCEPT ![Slot(cur)] = f]
    BY <1>2, NoHarm DEF CrashInCopy
  <2>2. \A t \in Slots : cache'[t] \in {cache[t], NoFile}
    BY <2>1 DEF TypeOK
  <2> QED
    BY <1>2, <2>2, RestartSlots DEF Keeps, CrashInCopy
<1>3. ASSUME NEW p \in Plugins, CrashInClear(p) PROVE ChainInv'
  <2>1. \A t \in Slots : cache'[t] \in {cache[t], NoFile}
    BY <1>3 DEF CrashInClear, TypeOK
  <2> QED
    BY <1>3, <2>1, RestartSlots DEF Keeps, CrashInClear
<1>4. /\ \A s \in Slots : ~CrashInSource(s)
      /\ \A p \in Plugins : ~CrashInAppend(p) /\ ~CrashInArchive(p)
      /\ ~CrashInSaveState
  BY NoHarm DEF CrashInSource, CrashInAppend, CrashInArchive, CrashInSaveState
<1> QED
  BY <1>1, <1>2, <1>3, <1>4 DEF Crashes

-----------------------------------------------------------------------------
(* Theorems                                                                  *)

LEMMA FenceInit ==
  ASSUME Init
  PROVE  ChainInv
<1> USE DEF Init
<1>1. ASSUME NEW s \in Slots PROVE WholeFiles(s) /\ Chain(s) /\ Latest(s)
  <2>1. /\ src[s] = NoFile /\ cache[s] = NoFile /\ pend[s] = {} /\ torn[s] = FALSE
        /\ ids[s].mru = 0 /\ saved.ids[s].mru = 0
    BY <1>1 DEF Fresh, NoIDs
  <2>2. WholeFiles(s)
    BY <2>1, Files DEF WholeFiles
  <2>3. Chain(s)
    BY <2>1, Files, EmptyChain DEF Chain, NextFits
  <2>4. Latest(s)
    BY <2>1 DEF Latest, NextLink
  <2> QED
    BY <2>2, <2>3, <2>4
<1> QED
  BY <1>1 DEF ChainInv, Settled, Replacing, Request

LEMMA FenceNext ==
  ASSUME Faults \subseteq SoftFaults, [Next]_vars
  PROVE  Keeps
<1> SUFFICES ASSUME TypeOK, ChainInv PROVE ChainInv'
  BY DEF Keeps
<1>1. ASSUME Save PROVE ChainInv'
  BY <1>1, FenceSave DEF Keeps, Save
<1>2. ASSUME Backend PROVE ChainInv'
  BY <1>2, FenceStores, FenceRefuses, FenceDefers DEF Keeps, Backend
<1>3. ASSUME UNCHANGED vars PROVE ChainInv'
  <2> USE DEF vars, files, mem, ctl, request, clock
  <2>0. \A t \in Slots : /\ NextFits(pend[t], cache[t], Mru(t), bk'[t])
                         /\ FirstFits(pend[t], bk'[t])
    BY <1>3 DEF ChainInv, Chain
  <2>1. \A s \in Slots : WholeFiles(s)' /\ Chain(s)' /\ Latest(s)'
    BY <1>3, <2>0, BackendSlots DEF KeepsSlots
  <2>2. Settled' /\ Replacing'
    BY <1>3 DEF ChainInv, Settled, Replacing, Slot
  <2>3. Request'
    BY <1>3, ZenonT(40) DEF ChainInv, Request, InFlight, Cleared, Slot
  <2> QED
    BY <2>1, <2>2, <2>3 DEF ChainInv
<1> QED
  BY <1>1, <1>2, <1>3, FenceReap, FenceProcess, FenceDisturbance, FenceCrashes DEF Keeps, Next

\* As long as only crashes between file operations, failed requests and losses of
\* the backend disturb it, the pipeline keeps ChainInv.
THEOREM ChainHolds ==
  ASSUME Faults \subseteq SoftFaults
  PROVE  Spec => []ChainInv
<1>1. TypeOK /\ ChainInv /\ [Next]_vars => ChainInv'
  BY FenceNext DEF Keeps
<1>2. Init => ChainInv
  BY FenceInit
<1> QED
  BY <1>1, <1>2, TypeCorrect, PTL DEF Spec

\* The next partial delta the backend waits for is computed from what it holds.
THEOREM Fence ==
  ASSUME Faults \subseteq SoftFaults
  PROVE  Spec => []IDFence
<1>1. ChainInv => IDFence
  BY DEF ChainInv, Chain, NextFits, Mru, IDFence
<1> QED
  BY <1>1, ChainHolds, PTL

\* The backend merges a partial delta only into the document it was computed from.
THEOREM Fits ==
  ASSUME Faults \subseteq SoftFaults
  PROVE  Spec => PatchFits
<1>1. TypeOK /\ ChainInv /\ [Next]_vars =>
        [\A p \in Plugins : \A d \in posted[p] :
           BackendStores(p, d) /\ ~d.full => bk[Slot(p)].inv = d.base]_vars
  BY StoredFits
<1> QED
  BY <1>1, TypeCorrect, ChainHolds, PTL DEF Spec, PatchFits

-----------------------------------------------------------------------------
(* No delta is dropped                                                       *)

\* The delta d may leave the journal of s.
MayLeave(s, d) ==
  \/ cache'[s] = NoFile
  \/ /\ pc = "update" /\ s[2] = ent
     /\ verdict[s[1]] = "ok" \/ d.id <= hint[s[1]].stored

LEMMA ArchiveKeeps ==
  ASSUME TypeOK, ChainInv, NEW p \in Plugins, ArchivePlugin(p),
         NEW s \in Slots, NEW d \in pend[s] \ pend'[s]
  PROVE  MayLeave(s, d)
<1>1. s = Slot(p)
  BY SlotInSlots DEF ArchivePlugin, TypeOK
<1>2. d \in pend[s] /\ d \notin KeepDeltas(p)
  BY <1>1 DEF ArchivePlugin, TypeOK
<1>3. p \in known /\ ~(d.id > ids[s].sent)
  BY <1>1, <1>2 DEF KeepDeltas
<1>4. /\ pc = "update" /\ p \in block /\ unacked[p] = {} /\ s[1] = p /\ s[2] = ent
  BY <1>1 DEF ArchivePlugin, Slot
<1>5. InFlight(p)
  BY <1>1, <1>2, <1>4 DEF ChainInv, Request, Cleared
<1>6. Acked(hint[p], ids[s].sent, d)
  BY <1>1, <1>2, <1>3, <1>4, <1>5 DEF InFlight
<1>7. /\ d.id \in Nat /\ hint[p] \in Hint /\ hint[p].next \in Int /\ hint[p].stored \in Nat
      /\ ids[s].sent \in Int /\ verdict[p] \in {"ok", "refused", "deferred"}
  <2>1. d \in Entry /\ ids[s] \in PIEntity
    BY <1>2 DEF TypeOK
  <2>2. hint[p] \in Hint /\ verdict[p] \in {"ok", "refused", "deferred"}
    BY DEF TypeOK
  <2>3. d.id \in Nat /\ ids[s].sent \in Int
    BY <2>1 DEF Entry, PIEntity
  <2>4. hint[p].next \in Int /\ hint[p].stored \in Nat
    BY <2>2 DEF Hint
  <2> QED
    BY <2>2, <2>3, <2>4
<1>8. CASE verdict[p] = "ok"
  BY <1>4, <1>8 DEF MayLeave
<1>9. CASE verdict[p] = "deferred"
  <2>1. hint[p].next >= 0 /\ hint[p].stored = hint[p].next - 1
    BY <1>5, <1>9 DEF InFlight, Deferred
  <2>2. hint[p] # NoHint
    BY SMT, <2>1 DEF NoHint
  <2>3. ids[s].sent = hint[p].next - 1
    BY <1>6, <2>2 DEF Acked
  <2>4. d.id <= hint[p].stored
    BY SMT, <1>3, <1>7, <2>1, <2>3
  <2> QED
    BY <1>4, <2>4 DEF MayLeave
<1>10. CASE verdict[p] = "refused"
  <2>1. hint[p].next >= 0 /\ (hint[p].reset \/ hint[p].next = 0)
    BY <1>5, <1>10 DEF InFlight, Refused
  <2>2. hint[p] # NoHint
    BY SMT, <2>1 DEF NoHint
  <2> QED
    BY <1>6, <2>1, <2>2 DEF Acked, Clears, Reconciles
<1> QED
  BY <1>7, <1>8, <1>9, <1>10

\* Every other step leaves the journal of s as it is, adds to it, or removes it
\* together with the cached file.
LEMMA OthersKeep ==
  ASSUME Faults \subseteq SoftFaults, TypeOK, ChainInv, [Next]_vars,
         ~ \E p \in Plugins : ArchivePlugin(p),
         NEW s \in Slots
  PROVE  pend[s] \subseteq pend'[s] \/ cache'[s] = NoFile
<1>1. ASSUME NEW S, ClearPluginDeltaStore(S)
      PROVE  pend[s] \subseteq pend'[s] \/ cache'[s] = NoFile
  BY <1>1 DEF ClearPluginDeltaStore, Truncate
<1>2. CASE pend' = pend
  BY <1>2
<1>3. CASE Save \/ Backend \/ UNCHANGED vars
  <2>1. pend' = pend
    BY <1>3 DEF Save, SavePluginSource, Backend, BackendStores, BackendRefuses, BackendDefers,
                vars, files
  <2> QED
    BY <2>1
<1>4. CASE Reap
  <2>1. ASSUME NEW p \in Plugins, DropCorruptPlugin(p)
        PROVE  pend[s] \subseteq pend'[s] \/ cache'[s] = NoFile
    BY <1>1, <2>1 DEF DropCorruptPlugin
  <2>2. ASSUME NEW p \in Plugins, StoreDelta(p)
        PROVE  pend[s] \subseteq pend'[s]
    BY <2>2, SlotInSlots DEF StoreDelta, TypeOK
  <2>3. \/ pend' = pend
        \/ \E p \in Plugins : DropCorruptPlugin(p) \/ StoreDelta(p)
    BY <1>4 DEF Reap, UpdatePluginsInventoryCache, SkipUnchanged, StoreDeltaFails,
                ReplacePluginCacheFileWithSource, FinishReap, files
  <2> QED
    BY <1>2, <2>1, <2>2, <2>3
<1>5. CASE Process
  <2>1. ASSUME NEW e \in Entities, CleanPluginDeltas(e) \/ RemoveEntityData(e) PROVE FALSE
    <3>1. ~RemoveEntityData(e)
      BY DEF RemoveEntityData, MustRemove, ChainInv, Settled
    <3>2. ASSUME CleanPluginDeltas(e) PROVE FALSE
      <4>1. PICK p \in Plugins : torn[<<p, e>>]
        BY <3>2 DEF CleanPluginDeltas, Corrupt, Reaped
      <4>2. <<p, e>> \in Slots
        BY <2>1 DEF Slots
      <4> QED
        BY <4>1, <4>2 DEF ChainInv, WholeFiles
    <3> QED
      BY <2>1, <3>1, <3>2
  <2>2. ASSUME NEW p \in Plugins, NEW d \in unacked[p], UpdateLastDeltaSent(p, d)
        PROVE  pend[s] \subseteq pend'[s] \/ cache'[s] = NoFile
    BY <1>1, <2>2 DEF UpdateLastDeltaSent
  <2>3. ASSUME RemoveEntityCache \/ CompactStorage \/ \E p \in Plugins : ResetAllDeltas(p)
        PROVE  pend[s] \subseteq pend'[s] \/ cache'[s] = NoFile
    BY <1>1, <2>3 DEF RemoveEntityCache, CompactStorage, ResetAllDeltas
  <2>4. ASSUME \/ \E e \in Entities, B \in SUBSET Plugins : SendDeltas(e, B)
               \/ \E B \in SUBSET Plugins : SendNextBlock(B)
               \/ \E N \in SUBSET block : PostSucceeds(N)
               \/ FinishBlocks \/ StartReset \/ FinishReset \/ SaveCompacted \/ SkipCompaction
        PROVE  pend' = pend
    BY <2>4 DEF SendDeltas, SendNextBlock, PostSucceeds, FinishBlocks, StartReset, FinishReset,
                SaveCompacted, SkipCompaction, files
  <2> QED
    BY <1>2, <1>5, <2>1, <2>2, <2>3, <2>4 DEF Process
<1>6. CASE Disturbance
  <2>1. pend' = pend
    BY <1>6 DEF Disturbance, PostFails, PostAnswersResetAll, BackendForgets, AgentIDChanges,
                LongDisconnection, files
  <2> QED
    BY <2>1
<1>7. CASE Crashes
  <2>1. pend' = pend
    BY <1>7, NoHarm DEF Crashes, Crash, CrashInCopy, CrashInClear, CrashInSource, CrashInAppend,
                CrashInArchive, CrashInSaveState, files
  <2> QED
    BY <2>1
<1> QED
  BY <1>3, <1>4, <1>5, <1>6, <1>7 DEF Next

\* A delta leaves its journal only with its cached file or when it was stored.
THEOREM Survive ==
  ASSUME Faults \subseteq SoftFaults
  PROVE  Spec => ReapedDeltasSurvive
<1>1. ASSUME TypeOK, ChainInv, [Next]_vars, NEW s \in Slots, NEW d \in pend[s] \ pend'[s]
      PROVE  MayLeave(s, d)
  <2>1. CASE \E p \in Plugins : ArchivePlugin(p)
    BY <1>1, <2>1, ArchiveKeeps
  <2>2. CASE ~ \E p \in Plugins : ArchivePlugin(p)
    BY <1>1, <2>2, OthersKeep DEF MayLeave
  <2> QED
    BY <2>1, <2>2
<1>2. TypeOK /\ ChainInv /\ [Next]_vars =>
        [\A s \in Slots : \A d \in pend[s] \ pend'[s] :
           \/ cache'[s] = NoFile
           \/ /\ pc = "update" /\ s[2] = ent
              /\ verdict[s[1]] = "ok" \/ d.id <= hint[s[1]].stored]_vars
  BY <1>1 DEF MayLeave
<1> QED
  BY <1>2, TypeCorrect, ChainHolds, PTL DEF Spec, ReapedDeltasSurvive

-----------------------------------------------------------------------------
(* The cached files                                                          *)

CacheStays(s) == cache'[s] = cache[s] \/ cache'[s] \notin Content

LEMMA NoDocument == NoFile \notin Content /\ Torn \notin Content
BY FileAssumption DEF Content

\* Only the replacement by the source brings a new document into the cache.
LEMMA CacheStep ==
  ASSUME TypeOK, [Next]_vars, ~ReplacePluginCacheFileWithSource, NEW s \in Slots
  PROVE  CacheStays(s)
<1>1. ASSUME NEW S, ClearPluginDeltaStore(S) PROVE CacheStays(s)
  BY <1>1, NoDocument DEF ClearPluginDeltaStore, CacheStays
<1>2. CASE cache' = cache
  BY <1>2 DEF CacheStays
<1>3. ASSUME NEW t \in Slots, NEW f \in {NoFile, Torn}, cache' = [cache EXCEPT ![t] = f] PROVE CacheStays(s)
  <2>1. cache'[s] = cache[s] \/ cache'[s] = f
    BY <1>3 DEF TypeOK
  <2> QED
    BY <2>1, NoDocument DEF CacheStays
<1>4. CASE Save \/ Backend \/ Disturbance \/ UNCHANGED vars
  <2>1. cache' = cache
    BY <1>4 DEF Save, SavePluginSource, Backend, BackendStores, BackendRefuses, BackendDefers, Disturbance, PostFails,
                PostAnswersResetAll, BackendForgets, AgentIDChanges, LongDisconnection, vars, files
  <2> QED
    BY <1>2, <2>1
<1>5. CASE Reap
  <2>1. \/ cache' = cache
        \/ \E p \in Plugins : DropCorruptPlugin(p)
    BY <1>5 DEF Reap, UpdatePluginsInventoryCache, SkipUnchanged, StoreDelta, StoreDeltaFails, FinishReap, files
  <2> QED
    BY <1>1, <1>2, <2>1 DEF DropCorruptPlugin
<1>6. CASE Process
  <2>1. ASSUME \/ RemoveEntityCache \/ CompactStorage
               \/ \E p \in Plugins : ResetAllDeltas(p)
               \/ \E e \in Entities : RemoveEntityData(e)
               \/ \E p \in Plugins : \E d \in unacked[p] : UpdateLastDeltaSent(p, d)
        PROVE  CacheStays(s)
    BY <1>1, <1>2, <2>1 DEF RemoveEntityCache, CompactStorage, ResetAllDeltas, RemoveEntityData, UpdateLastDeltaSent, files
  <2>2. ASSUME \/ \E e \in Entities, B \in SUBSET Plugins : SendDeltas(e, B)
               \/ \E B \in SUBSET Plugins : SendNextBlock(B)
               \/ \E N \in SUBSET block : PostSucceeds(N)
               \/ \E p \in Plugins : ArchivePlugin(p)
               \/ \E e \in Entities : CleanPluginDeltas(e)
               \/ FinishBlocks \/ StartReset \/ FinishReset \/ SaveCompacted \/ SkipCompaction
        PROVE  cache' = cache
    BY <2>2 DEF SendDeltas, SendNextBlock, PostSucceeds, ArchivePlugin, CleanPluginDeltas, FinishBlocks, StartReset,
                FinishReset, SaveCompacted, SkipCompaction, files
  <2> QED
    BY <1>2, <1>6, <2>1, <2>2 DEF Process
<1>7. CASE Crashes
  <2>1. ASSUME CrashInCopy PROVE CacheStays(s)
    BY <1>3, <2>1, SlotInSlots DEF CrashInCopy, TypeOK
  <2>2. ASSUME NEW p \in Plugins, CrashInClear(p) PROVE CacheStays(s)
    BY <1>3, <2>2, SlotInSlots DEF CrashInClear, TypeOK
  <2>3. \/ cache' = cache \/ CrashInCopy
        \/ \E p \in Plugins : CrashInClear(p)
    BY <1>7 DEF Crashes, Crash, CrashInSource, CrashInAppend, CrashInArchive, CrashInSaveState, files
  <2> QED
    BY <1>2, <2>1, <2>2, <2>3
<1> QED
  BY <1>4, <1>5, <1>6, <1>7 DEF Next

\* updatePluginInventoryCache stores a delta before it replaces the cached file: a new
\* document is in the cache only when the journal has the delta that leads to it,
\* crashes at any point, failed posts and a backend that forgets included.
THEOREM CacheIsJournalled ==
  ASSUME Faults \subseteq SoftFaults
  PROVE  Spec => CacheFollowsJournal
<1>1. ASSUME TypeOK, ChainInv, [Next]_vars, NEW s \in Slots, cache'[s] \in Content \ {cache[s]}
      PROVE  \E d \in pend[s] : d.target = cache'[s]
  <2>1. CASE ReplacePluginCacheFileWithSource
    <3>1. pc = "replace" /\ cache' = [cache EXCEPT ![Slot(cur)] = src[Slot(cur)]]
      BY <2>1 DEF ReplacePluginCacheFileWithSource
    <3>2. PICK x \in pend[Slot(cur)] : x.target = src[Slot(cur)]
      BY <1>1, <3>1 DEF ChainInv, Replacing
    <3>3. s = Slot(cur) /\ cache'[s] = src[Slot(cur)]
      BY <1>1, <3>1 DEF TypeOK
    <3> QED
      BY <3>2, <3>3
  <2>2. CASE ~ReplacePluginCacheFileWithSource
    BY <1>1, <2>2, CacheStep DEF CacheStays
  <2> QED
    BY <2>1, <2>2
<1>2. TypeOK /\ ChainInv /\ [Next]_vars =>
        [\A s \in Slots : cache'[s] \in Content \ {cache[s]} => \E d \in pend[s] : d.target = cache'[s]]_vars
  BY <1>1
<1> QED
  BY <1>2, TypeCorrect, ChainHolds, PTL DEF Spec, CacheFollowsJournal

=============================================================================
