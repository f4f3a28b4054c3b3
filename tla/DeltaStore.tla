----------------------------- MODULE DeltaStore -----------------------------
(***************************************************************************)
(* The inventory pipeline of the agent: plugins save their inventory as    *)
(* source files, the reaper turns the difference with the cached copy into *)
(* numbered deltas appended to a journal, and the patch sender posts the   *)
(* journals to the backend and applies the hints of its answer.            *)
(*                                                                         *)
(* One goroutine reaps and sends; plugin output is saved by another one    *)
(* that is excluded while a reap runs.  The process may crash between any  *)
(* two file operations, and restarts from what is on disk.                 *)
(***************************************************************************)
EXTENDS Integers

CONSTANTS
  Plugins,     \* plugin sources, "category/term"
  Entities,    \* entity keys whose inventory this agent reports
  Keys,        \* keys of an inventory document
  Values,      \* values of a key
  Absent,      \* the value of a key the document does not have
  NoFile,      \* the content of a file that does not exist
  Torn,        \* the content of a half-written file
  Faults       \* what may go wrong: see AllFaults

ASSUME AbsentAssumption == Absent \in Values

\* crash: the process stops between two file operations; source, copy, journal,
\* map: or while it writes a source file, a cached file, a journal, the id map;
\* open: a journal does not open; post: a request fails; forget: the backend
\* drops what it holds; rename: the agent gets another entity ID; offline: too
\* long without a submission.
AllFaults == {"crash", "source", "copy", "journal", "map", "open", "post", "forget",
              "rename", "offline"}

ASSUME FaultsAssumption == Faults \subseteq AllFaults
ASSUME FileAssumption == NoFile # Torn /\ {NoFile, Torn} \cap [Keys -> Values] = {}

Slots == Plugins \X Entities

Content == [Keys -> Values]
EmptyContent == [k \in Keys |-> Absent]
File == Content \cup {NoFile, Torn}

\* A journal entry; at orders the entries of one journal, base and target are
\* the cached and the new content whose merge patch the entry carries.
Entry == [at: Nat, id: Nat, full: BOOLEAN, base: Content, target: Content]

PIEntity == [mru: Nat, sent: Int]
NoIDs == [s \in Slots |-> [mru |-> 0, sent |-> 0]]

\* The backend's answer about one plugin.
Hint == [reset: BOOLEAN, next: Int, stored: Nat]
NoHint == [reset |-> FALSE, next |-> -1, stored |-> 0]

VARIABLES
  src, cache,      \* source and cached inventory files
  pend, torn,      \* the .pending journal, and whether it holds a cut entry
  wr,              \* position of the last entry of each journal
  known, ids,      \* Store.plugins: the plugins it has, their PIEntity records
  saved,           \* delta_id_cache.json
  pc, ent, todo,   \* what the inventory goroutine does, for whom, plugins left
  cur, dirty,      \* plugin being reaped; is there something to save?
  block, posted, unacked, verdict, hint, wipe,   \* the request in progress
  offline, removable, renamed,   \* entities past the offline limit, since the
                                 \* last removal, with a stale stored agent ID
  bk               \* what the backend holds for each slot

files == <<src, cache, pend, torn, wr>>
mem == <<known, ids>>
ctl == <<pc, ent, todo, cur, dirty>>
request == <<block, posted, unacked, verdict, hint, wipe>>
clock == <<offline, removable, renamed>>
vars == <<files, mem, saved, ctl, request, clock, bk>>

Fresh == [known |-> {}, ids |-> NoIDs]

Init ==
  /\ src = [s \in Slots |-> NoFile]
  /\ cache = [s \in Slots |-> NoFile]
  /\ pend = [s \in Slots |-> {}]
  /\ torn = [s \in Slots |-> FALSE]
  /\ wr = [s \in Slots |-> 0]
  /\ known = {}
  /\ ids = NoIDs
  /\ saved = Fresh
  /\ pc = "idle"
  /\ ent \in Entities
  /\ todo = {}
  /\ cur \in Plugins
  /\ dirty = FALSE
  /\ block = {}
  /\ posted = [p \in Plugins |-> {}]
  /\ unacked = [p \in Plugins |-> {}]
  /\ verdict = [p \in Plugins |-> "ok"]
  /\ hint = [p \in Plugins |-> NoHint]
  /\ wipe = FALSE
  /\ offline = {}
  /\ removable = Entities
  /\ renamed = {}
  /\ bk = [s \in Slots |-> [has |-> FALSE, last |-> 0, inv |-> EmptyContent]]

-----------------------------------------------------------------------------
(* Files and the id map                                                     *)

Slot(p) == <<p, ent>>

\* The journals of S become empty.
Truncate(S) ==
  /\ pend' = [s \in Slots |-> IF s \in S THEN {} ELSE pend[s]]
  /\ torn' = [s \in Slots |-> IF s \in S THEN FALSE ELSE torn[s]]
  /\ wr' = [s \in Slots |-> IF s \in S THEN 0 ELSE wr[s]]

\* Mutant: the cached files stay.
MutClearPluginDeltaStore(S) == Truncate(S) /\ UNCHANGED cache

\* Cached files, journals and archives of S are removed.
ClearPluginDeltaStore(S) ==
  /\ cache' = [s \in Slots |-> IF s \in S THEN NoFile ELSE cache[s]]
  /\ Truncate(S)

SaveState == saved' = [known |-> known, ids |-> ids]

NoRequest ==
  /\ block' = {}
  /\ posted' = [p \in Plugins |-> {}]
  /\ unacked' = [p \in Plugins |-> {}]
  /\ verdict' = [p \in Plugins |-> "ok"]
  /\ hint' = [p \in Plugins |-> NoHint]

\* What the process loads when it starts again.
NewStore ==
  /\ known' = saved.known
  /\ ids' = saved.ids
  /\ pc' = "idle"
  /\ todo' = {}
  /\ dirty' = FALSE
  /\ NoRequest
  /\ wipe' = FALSE
  /\ removable' = Entities
  /\ UNCHANGED <<ent, cur, offline, renamed, bk>>

-----------------------------------------------------------------------------
(* Saving plugin output and reaping it                                      *)

SavePluginSource(s, c) ==
  /\ pc \notin {"reap", "replace"}
  /\ src' = [src EXCEPT ![s] = c]
  /\ UNCHANGED <<cache, pend, torn, wr, mem, saved, ctl, request, clock, bk>>

UpdatePluginsInventoryCache(e) ==
  /\ pc = "idle"
  /\ pc' = "reap"
  /\ ent' = e
  /\ todo' = {p \in Plugins : src[<<p, e>>] # NoFile}
  /\ dirty' = FALSE
  /\ UNCHANGED <<files, mem, saved, cur, request, clock, bk>>

\* The merge patch cannot be computed: the plugin's files are dropped.
DropCorruptPlugin(p) ==
  /\ pc = "reap" /\ p \in todo
  /\ cache[Slot(p)] # NoFile
  /\ Torn \in {src[Slot(p)], cache[Slot(p)]}
  /\ src' = [src EXCEPT ![Slot(p)] = NoFile]
  /\ ClearPluginDeltaStore({Slot(p)})
  /\ todo' = todo \ {p}
  /\ dirty' = TRUE
  /\ UNCHANGED <<mem, saved, pc, ent, cur, request, clock, bk>>

\* The delta is "{}": nothing changed, or an empty document without a cache.
EmptyDelta(s) == src[s] = IF cache[s] = NoFile THEN EmptyContent ELSE cache[s]

SkipUnchanged(p) ==
  /\ pc = "reap" /\ p \in todo
  /\ EmptyDelta(Slot(p))
  /\ todo' = todo \ {p}
  /\ UNCHANGED <<files, mem, saved, pc, ent, cur, dirty, request, clock, bk>>

HasDelta(s) ==
  /\ src[s] \in Content
  /\ cache[s] # Torn
  /\ ~EmptyDelta(s)

\* Mutant: the documents are handed over in the wrong order.
MutNewEntry(s) ==
  [at |-> wr[s] + 1, id |-> ids[s].mru + 1, full |-> cache[s] = NoFile,
   base |-> src[s], target |-> IF cache[s] = NoFile THEN EmptyContent ELSE cache[s]]

NewEntry(s) ==
  [at |-> wr[s] + 1, id |-> ids[s].mru + 1, full |-> cache[s] = NoFile,
   base |-> IF cache[s] = NoFile THEN EmptyContent ELSE cache[s],
   target |-> src[s]]

StoreDelta(p) ==
  /\ pc = "reap" /\ p \in todo
  /\ HasDelta(Slot(p))
  /\ pend' = [pend EXCEPT ![Slot(p)] = @ \cup {NewEntry(Slot(p))}]
  /\ wr' = [wr EXCEPT ![Slot(p)] = @ + 1]
  /\ known' = known \cup {p}
  /\ ids' = [ids EXCEPT ![Slot(p)].mru = @ + 1]
  /\ pc' = "replace"
  /\ cur' = p
  /\ UNCHANGED <<src, cache, torn, saved, ent, todo, dirty, request, clock, bk>>

\* storeDelta fails (unparsable source, journal that does not open); its error
\* is only logged and the cached file is replaced all the same.
StoreDeltaFails(p) ==
  /\ pc = "reap" /\ p \in todo
  /\ \/ src[Slot(p)] = Torn /\ cache[Slot(p)] = NoFile
     \/ HasDelta(Slot(p)) /\ "open" \in Faults
  /\ pc' = "replace"
  /\ cur' = p
  /\ UNCHANGED <<files, mem, saved, ent, todo, dirty, request, clock, bk>>

ReplacePluginCacheFileWithSource ==
  /\ pc = "replace"
  /\ cache' = [cache EXCEPT ![Slot(cur)] = src[Slot(cur)]]
  /\ pc' = "reap"
  /\ todo' = todo \ {cur}
  /\ dirty' = TRUE
  /\ UNCHANGED <<src, pend, torn, wr, mem, saved, ent, cur, request, clock, bk>>

FinishReap ==
  /\ pc = "reap" /\ todo = {}
  /\ IF dirty THEN SaveState ELSE UNCHANGED saved
  /\ pc' = "idle"
  /\ UNCHANGED <<files, mem, ent, todo, cur, dirty, request, clock, bk>>

-----------------------------------------------------------------------------
(* patchSenderIngest.Process: reading the journals, or dropping the store   *)

\* Journals are looked up through the cached *.json files of the entity.
Reaped(e) == {p \in Plugins : cache[<<p, e>>] # NoFile}
Readable(e) == {p \in Reaped(e) : pend[<<p, e>>] # {} \/ torn[<<p, e>>]}
Corrupt(e) == \E p \in Reaped(e) : torn[<<p, e>>]

\* ReadDeltas cannot parse the block.  A journal ends in a comma, so that none
\* of them parses as one delta and cleanPluginDeltas truncates them all.
CleanPluginDeltas(e) ==
  /\ pc = "idle"
  /\ Corrupt(e)
  /\ Truncate(Reaped(e) \X {e})
  /\ UNCHANGED <<src, cache, mem, saved, ctl, request, clock, bk>>

MustRemove(e) == e \in renamed \/ e \in offline \cap removable

\* RemoveEntityFolders deletes the source files first, ...
RemoveEntityData(e) ==
  /\ pc = "idle"
  /\ ~Corrupt(e)
  /\ MustRemove(e)
  /\ src' = [s \in Slots |-> IF s[2] = e THEN NoFile ELSE src[s]]
  /\ pc' = "remove"
  /\ ent' = e
  /\ UNCHANGED <<cache, pend, torn, wr, mem, saved, todo, cur, dirty, request,
                 clock, bk>>

\* ... then everything of the entity in the cache directory.
RemoveEntityCache ==
  /\ pc = "remove"
  /\ ClearPluginDeltaStore(Plugins \X {ent})
  /\ removable' = removable \ {ent}
  /\ renamed' = renamed \ {ent}
  /\ pc' = "idle"
  /\ UNCHANGED <<src, mem, saved, ent, todo, cur, dirty, request, offline,
                 bk>>

-----------------------------------------------------------------------------
(* sendAllDeltas: one request per block of plugins                          *)

\* The journals of the plugins in B go into one request.
Post(e, B) ==
  /\ block' = B
  /\ posted' = [p \in Plugins |-> IF p \in B THEN pend[<<p, e>>] ELSE {}]
  /\ unacked' = posted'
  /\ verdict' = [p \in Plugins |-> "ok"]
  /\ hint' = [p \in Plugins |-> NoHint]
  /\ pc' = "post"

SendDeltas(e, B) ==
  /\ pc = "idle"
  /\ ~Corrupt(e) /\ ~MustRemove(e)
  /\ B # {} /\ B \subseteq Readable(e)
  /\ Post(e, B)
  /\ todo' = Readable(e) \ B
  /\ ent' = e
  /\ UNCHANGED <<files, mem, saved, cur, dirty, wipe, clock, bk>>

BlockDone == pc = "update" /\ block = {}

SendNextBlock(B) ==
  /\ BlockDone
  /\ B # {} /\ B \subseteq todo
  /\ Post(ent, B)
  /\ todo' = todo \ B
  /\ UNCHANGED <<files, mem, saved, ent, cur, dirty, wipe, clock, bk>>

PostFails ==
  /\ "post" \in Faults
  /\ pc = "post"
  /\ pc' = "sent"
  /\ todo' = {}
  /\ NoRequest
  /\ UNCHANGED <<files, mem, saved, ent, cur, dirty, wipe, clock, bk>>

\* NoHints are the plugins the answer says nothing about.
PostSucceeds(NoHints) ==
  /\ pc = "post"
  /\ \A p \in block : posted[p] = {}
  /\ \A p \in NoHints : verdict[p] = "ok"
  /\ hint' = [p \in Plugins |-> IF p \in NoHints THEN NoHint ELSE hint[p]]
  /\ offline' = offline \ {ent}
  /\ pc' = "update"
  /\ UNCHANGED <<files, mem, saved, ent, todo, cur, dirty, block, posted, unacked,
                 verdict, wipe, removable, renamed, bk>>

\* The answer is Reset == ResetAll: UpdateState is not called.
PostAnswersResetAll ==
  /\ "forget" \in Faults
  /\ pc = "post"
  /\ wipe' = TRUE
  /\ offline' = offline \ {ent}
  /\ NoRequest
  /\ pc' = "update"
  /\ UNCHANGED <<files, mem, saved, ent, todo, cur, dirty, removable, renamed, bk>>

-----------------------------------------------------------------------------
(* UpdateState                                                              *)

IsFirst(d, S) == d \in S /\ \A x \in S : d.at <= x.at

\* Mutant: without the NeedsReset case.
MutReconciles(h, id) == h.next \notin {id + 1, 0, id}

Reconciles(h, id) == h.reset \/ h.next \notin {id + 1, 0, id}
Clears(h, id) == h # NoHint /\ (Reconciles(h, id) \/ h.next = 0)

\* The PIEntity of a plugin after updateLastDeltaSent.
AfterHint(pi, h, id) ==
  IF h = NoHint THEN [pi EXCEPT !.sent = IF id > @ THEN id ELSE @]
  ELSE IF Reconciles(h, id) THEN [mru |-> h.stored, sent |-> h.next - 1]
  ELSE IF h.next = id + 1 THEN [pi EXCEPT !.sent = id]
  ELSE IF h.next = 0 THEN pi
  ELSE [pi EXCEPT !.sent = id - 1]

UpdateLastDeltaSent(p, d) ==
  /\ pc = "update" /\ p \in block
  /\ IsFirst(d, unacked[p])
  /\ unacked' = [unacked EXCEPT ![p] = @ \ {d}]
  /\ IF p \in known
       THEN /\ ids' = [ids EXCEPT ![Slot(p)] = AfterHint(@, hint[p], d.id)]
            /\ ClearPluginDeltaStore(IF Clears(hint[p], d.id) THEN {Slot(p)} ELSE {})
       ELSE UNCHANGED <<ids, cache, pend, torn, wr>>
  /\ UNCHANGED <<src, known, saved, ctl, block, posted, verdict, hint, wipe,
                 clock, bk>>

\* Mutants: every entry is archived; the last one sent is kept.
MutKeepDeltas(p) == {}
MutKeepSent(p) == {d \in pend[Slot(p)] : p \in known => d.id >= ids[Slot(p)].sent}

KeepDeltas(p) == {d \in pend[Slot(p)] : p \in known => d.id > ids[Slot(p)].sent}

\* The acknowledged entries leave the journal, the others are written back.
ArchivePlugin(p) ==
  /\ pc = "update" /\ p \in block
  /\ \A q \in block : unacked[q] = {}
  /\ pend' = [pend EXCEPT ![Slot(p)] = KeepDeltas(p)]
  /\ wr' = [wr EXCEPT ![Slot(p)] = IF KeepDeltas(p) = {} THEN 0 ELSE @]
  /\ block' = block \ {p}
  /\ UNCHANGED <<src, cache, torn, mem, saved, ctl, posted, unacked, verdict,
                 hint, wipe, clock, bk>>

FinishBlocks ==
  /\ BlockDone /\ todo = {}
  /\ pc' = "sent"
  /\ NoRequest
  /\ UNCHANGED <<files, mem, saved, ent, todo, cur, dirty, wipe, clock, bk>>

-----------------------------------------------------------------------------
(* After the last block: reset and compaction                               *)

StartReset ==
  /\ pc = "sent" /\ wipe
  /\ pc' = "reset"
  /\ todo' = known
  /\ UNCHANGED <<files, mem, saved, ent, cur, dirty, request, clock, bk>>

ResetAllDeltas(p) ==
  /\ pc = "reset" /\ p \in todo
  /\ ClearPluginDeltaStore({Slot(p)})
  /\ todo' = todo \ {p}
  /\ UNCHANGED <<src, mem, saved, pc, ent, cur, dirty, request, clock, bk>>

FinishReset ==
  /\ pc = "reset" /\ todo = {}
  /\ SaveState
  /\ wipe' = FALSE
  /\ pc' = "sent"
  /\ UNCHANGED <<files, mem, ent, todo, cur, dirty, block, posted, unacked, verdict,
                 hint, clock, bk>>

\* compactCacheStorage forgets the plugins without a source file, whatever
\* other entities they have.
CompactStorage ==
  LET gone == {p \in Plugins : cache[Slot(p)] # NoFile /\ src[Slot(p)] = NoFile} IN
  /\ pc = "sent" /\ ~wipe
  /\ ClearPluginDeltaStore(gone \X {ent})
  /\ known' = known \ gone
  /\ ids' = [s \in Slots |-> IF s[1] \in gone THEN NoIDs[s] ELSE ids[s]]
  /\ pc' = "compacted"
  /\ UNCHANGED <<src, saved, ent, todo, cur, dirty, request, clock, bk>>

SaveCompacted ==
  /\ pc = "compacted"
  /\ SaveState
  /\ pc' = "idle"
  /\ UNCHANGED <<files, mem, ent, todo, cur, dirty, request, clock, bk>>

SkipCompaction ==
  /\ pc = "sent" /\ ~wipe
  /\ pc' = "idle"
  /\ UNCHANGED <<files, mem, saved, ent, todo, cur, dirty, request, clock, bk>>

-----------------------------------------------------------------------------
(* The backend.  It stores a full delta under any id, a partial one only on *)
(* top of the delta before it, and says so when it refused one.             *)

Acceptable(b, d) == d.full \/ (b.has /\ d.id = b.last + 1)

\* The merge patch from base to target applied to inv.
MergePatch(inv, base, target) ==
  [k \in Keys |-> IF base[k] = target[k] THEN inv[k] ELSE target[k]]

Stored(b, d) ==
  [has |-> TRUE, last |-> d.id,
   inv |-> IF d.full THEN d.target ELSE MergePatch(b.inv, d.base, d.target)]

BackendStores(p, d) ==
  /\ pc = "post" /\ p \in block /\ IsFirst(d, posted[p])
  /\ Acceptable(bk[Slot(p)], d)
  /\ bk' = [bk EXCEPT ![Slot(p)] = Stored(@, d)]
  /\ posted' = [posted EXCEPT ![p] = @ \ {d}]
  /\ hint' = [hint EXCEPT ![p] = [reset |-> FALSE, next |-> d.id + 1, stored |-> d.id]]
  /\ UNCHANGED <<files, mem, saved, ctl, block, unacked, verdict, wipe, clock>>

\* A refusal, with the ids the backend wants or asking for the original (0).
BackendRefuses(p, d) ==
  /\ pc = "post" /\ p \in block /\ IsFirst(d, posted[p])
  /\ ~Acceptable(bk[Slot(p)], d)
  /\ posted' = [posted EXCEPT ![p] = {}]
  /\ verdict' = [verdict EXCEPT ![p] = "refused"]
  /\ \E h \in {[reset |-> TRUE, next |-> bk[Slot(p)].last + 1,
                stored |-> bk[Slot(p)].last],
               [reset |-> FALSE, next |-> 0, stored |-> 0]} :
       hint' = [hint EXCEPT ![p] = h]
  /\ UNCHANGED <<files, mem, saved, ctl, block, unacked, wipe, clock, bk>>

\* The delta is not stored now and is asked for again.
BackendDefers(p, d) ==
  /\ pc = "post" /\ p \in block /\ IsFirst(d, posted[p])
  /\ bk[Slot(p)].has /\ d.id = bk[Slot(p)].last + 1
  /\ posted' = [posted EXCEPT ![p] = {}]
  /\ verdict' = [verdict EXCEPT ![p] = "deferred"]
  /\ hint' = [hint EXCEPT ![p] = [reset |-> FALSE, next |-> d.id,
                                  stored |-> bk[Slot(p)].last]]
  /\ UNCHANGED <<files, mem, saved, ctl, block, unacked, wipe, clock, bk>>

Forgotten == [has |-> FALSE, last |-> 0, inv |-> EmptyContent]

BackendForgets(s) ==
  /\ "forget" \in Faults
  /\ bk[s].has
  /\ bk' = [bk EXCEPT ![s] = Forgotten]
  /\ UNCHANGED <<files, mem, saved, ctl, request, clock>>

\* The agent is given another entity ID, under which nothing is stored yet.
AgentIDChanges ==
  /\ "rename" \in Faults
  /\ renamed' = Entities
  /\ bk' = [s \in Slots |-> Forgotten]
  /\ UNCHANGED <<files, mem, saved, ctl, request, offline, removable>>

\* More than offline_time_to_reset goes by without a submission.
LongDisconnection ==
  /\ "offline" \in Faults
  /\ offline' = Entities
  /\ removable' = Entities
  /\ UNCHANGED <<files, mem, saved, ctl, request, renamed, bk>>

-----------------------------------------------------------------------------
(* Crashes.  A crash inside an operation leaves part of its effect on disk. *)

Crash ==
  /\ "crash" \in Faults
  /\ NewStore
  /\ UNCHANGED <<files, saved>>

\* CopyFile removes the cached file before it writes the new one.
CrashInCopy ==
  /\ "crash" \in Faults
  /\ pc = "replace"
  /\ NewStore
  /\ \E f \in {NoFile} \cup (IF "copy" \in Faults THEN {Torn} ELSE {}) :
       cache' = [cache EXCEPT ![Slot(cur)] = f]
  /\ UNCHANGED <<src, pend, torn, wr, saved>>

\* The cached file is removed, its journal is still there.
CrashInClear(p) ==
  /\ "crash" \in Faults
  /\ \/ pc = "reset" /\ p \in todo
     \/ /\ pc = "update" /\ p \in block \cap known
        /\ \E d \in unacked[p] : IsFirst(d, unacked[p]) /\ Clears(hint[p], d.id)
  /\ NewStore
  /\ cache' = [cache EXCEPT ![Slot(p)] = NoFile]
  /\ UNCHANGED <<src, pend, torn, wr, saved>>

CrashInSource(s) ==
  /\ "source" \in Faults
  /\ pc \notin {"reap", "replace"}
  /\ NewStore
  /\ src' = [src EXCEPT ![s] = Torn]
  /\ UNCHANGED <<cache, pend, torn, wr, saved>>

CrashInAppend(p) ==
  /\ "journal" \in Faults
  /\ pc = "reap" /\ p \in todo
  /\ HasDelta(Slot(p))
  /\ NewStore
  /\ torn' = [torn EXCEPT ![Slot(p)] = TRUE]
  /\ UNCHANGED <<src, cache, pend, wr, saved>>

\* The journal is truncated before the entries to keep are written back.
CrashInArchive(p) ==
  /\ "journal" \in Faults
  /\ pc = "update" /\ p \in block \cap known
  /\ \A q \in block : unacked[q] = {}
  /\ pend[Slot(p)] # {}
  /\ NewStore
  /\ Truncate({Slot(p)})
  /\ UNCHANGED <<src, cache, saved>>

\* A cut id map is removed by the next start, which begins without ids.
CrashInSaveState ==
  /\ "map" \in Faults
  /\ \/ pc = "reap" /\ todo = {} /\ dirty
     \/ pc = "reset" /\ todo = {}
     \/ pc = "compacted"
  /\ saved' = Fresh
  /\ known' = {} /\ ids' = NoIDs
  /\ pc' = "idle" /\ todo' = {} /\ dirty' = FALSE
  /\ NoRequest
  /\ wipe' = FALSE
  /\ removable' = Entities
  /\ UNCHANGED <<files, ent, cur, offline, renamed, bk>>

-----------------------------------------------------------------------------
Reap ==
  \/ \E e \in Entities : UpdatePluginsInventoryCache(e)
  \/ \E p \in Plugins : DropCorruptPlugin(p)
  \/ \E p \in Plugins : SkipUnchanged(p)
  \/ \E p \in Plugins : StoreDelta(p)
  \/ \E p \in Plugins : StoreDeltaFails(p)
  \/ ReplacePluginCacheFileWithSource
  \/ FinishReap

Process ==
  \/ \E e \in Entities : CleanPluginDeltas(e)
  \/ \E e \in Entities : RemoveEntityData(e)
  \/ RemoveEntityCache
  \/ \E e \in Entities, B \in SUBSET Plugins : SendDeltas(e, B)
  \/ \E B \in SUBSET Plugins : SendNextBlock(B)
  \/ \E N \in SUBSET block : PostSucceeds(N)
  \/ \E p \in Plugins : \E d \in unacked[p] : UpdateLastDeltaSent(p, d)
  \/ \E p \in Plugins : ArchivePlugin(p)
  \/ FinishBlocks
  \/ StartReset
  \/ \E p \in Plugins : ResetAllDeltas(p)
  \/ FinishReset
  \/ CompactStorage
  \/ SaveCompacted
  \/ SkipCompaction

Backend ==
  \/ \E p \in Plugins : \E d \in posted[p] : BackendStores(p, d)
  \/ \E p \in Plugins : \E d \in posted[p] : BackendRefuses(p, d)
  \/ \E p \in Plugins : \E d \in posted[p] : BackendDefers(p, d)

Disturbance ==
  \/ PostFails
  \/ PostAnswersResetAll
  \/ \E s \in Slots : BackendForgets(s)
  \/ AgentIDChanges
  \/ LongDisconnection

Crashes ==
  \/ Crash
  \/ CrashInCopy
  \/ \E p \in Plugins : CrashInClear(p)
  \/ \E s \in Slots : CrashInSource(s)
  \/ \E p \in Plugins : CrashInAppend(p)
  \/ \E p \in Plugins : CrashInArchive(p)
  \/ CrashInSaveState

Save == \E s \in Slots, c \in Content : SavePluginSource(s, c)

Next == Save \/ Reap \/ Process \/ Backend \/ Disturbance \/ Crashes

Spec == Init /\ [][Next]_vars

-----------------------------------------------------------------------------
(* Properties                                                               *)

\* Every variable has the shape of the state it models, and the id map holds
\* no ids for a plugin it does not know (storeDelta, compactCacheStorage).
TypeOK ==
  /\ src \in [Slots -> File] /\ cache \in [Slots -> File]
  /\ pend \in [Slots -> SUBSET Entry] /\ torn \in [Slots -> BOOLEAN]
  /\ wr \in [Slots -> Nat]
  /\ known \in SUBSET Plugins /\ ids \in [Slots -> PIEntity]
  /\ saved \in [known: SUBSET Plugins, ids: [Slots -> PIEntity]]
  /\ pc \in {"idle", "reap", "replace", "remove", "post", "update", "sent", "reset",
             "compacted"}
  /\ ent \in Entities /\ todo \in SUBSET Plugins /\ cur \in Plugins /\ dirty \in BOOLEAN
  /\ block \in SUBSET Plugins
  /\ posted \in [Plugins -> SUBSET Entry] /\ unacked \in [Plugins -> SUBSET Entry]
  /\ verdict \in [Plugins -> {"ok", "refused", "deferred"}]
  /\ hint \in [Plugins -> Hint]
  /\ wipe \in BOOLEAN
  /\ offline \in SUBSET Entities /\ removable \in SUBSET Entities
  /\ renamed \in SUBSET Entities
  /\ bk \in [Slots -> [has: BOOLEAN, last: Nat, inv: Content]]

\* The ids fence off lost and repeated deltas: when the journal of a plugin is
\* empty and the id of its next partial delta is the one the backend waits for,
\* the backend holds exactly the document that delta will be computed from.
IDFence ==
  \A s \in Slots :
    (/\ cache[s] \in Content /\ pend[s] = {}
     /\ bk[s].has /\ bk[s].last = ids[s].mru)
       => bk[s].inv = cache[s]

\* The backend merges a partial delta only into the very document it was
\* computed from, whatever was lost, repeated or reordered on the way to it.
PatchFits ==
  [][\A p \in Plugins : \A d \in posted[p] :
       BackendStores(p, d) /\ ~d.full => bk[Slot(p)].inv = d.base]_vars

\* A delta leaves its journal only with the cached file it was computed for, so
\* that the next reap sends the whole document, or when the backend stored it.
ReapedDeltasSurvive ==
  [][\A s \in Slots : \A d \in pend[s] \ pend'[s] :
       \/ cache'[s] = NoFile
       \/ /\ pc = "update" /\ s[2] = ent
          /\ verdict[s[1]] = "ok" \/ d.id <= hint[s[1]].stored]_vars

\* Cleaning up after one corrupt journal leaves the deltas of the other
\* plugins in theirs (cleanPluginDeltas).
HealthyJournalsSurvive ==
  [][\A e \in Entities : CleanPluginDeltas(e) =>
       \A s \in Slots : ~torn[s] => pend'[s] = pend[s]]_vars

\* The cached file of a plugin is replaced by a new document only when the
\* delta that leads to it is in the journal (updatePluginInventoryCache).
CacheFollowsJournal ==
  [][\A s \in Slots : cache'[s] \in Content \ {cache[s]} =>
       \E d \in pend[s] : d.target = cache'[s]]_vars
=============================================================================
