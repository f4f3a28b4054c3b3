------------------------- MODULE IntegrationManager -------------------------
(***************************************************************************)
(* The manager of the integrations: one group of integrations per          *)
(* configuration file, reloaded when the file changes (a goroutine that    *)
(* handles file events) and enabled or disabled with a feature flag of the *)
(* command channel (another goroutine).  The map of groups and each group  *)
(* have a lock of their own; nothing is held from one access to the next,  *)
(* so each access is a step.  A group is known by its index in groups.     *)
(***************************************************************************)
EXTENDS Integers, Sequences, FiniteSets

CONSTANTS
  Paths, Features,
  Plain,             \* the feature of an integration that has none
  Configs,           \* the configurations: the features of the integrations of a file
  AgentFeatures,     \* the features of the agent configuration: name -> BOOLEAN
  Absent, Broken,    \* no file; a file that does not load, or gives no group
  MaxFileChanges, MaxRequests   \* bounds

ASSUME ManagerAssumption ==
  /\ IsFiniteSet(Paths)
  /\ Configs \subseteq SUBSET (Features \cup {Plain}) /\ {} \notin Configs
  /\ Plain \notin Features /\ DOMAIN AgentFeatures \subseteq Features
  /\ {MaxFileChanges, MaxRequests} \subseteq Nat

VARIABLES
  cfgFiles,          \* what each file holds: the features of its integrations
  fileEvents,        \* watcher.Events
  groups,            \* every groupContext made
  runners,           \* rgsPerPath: the group of each path, 0 when there is none
  featuresCache,     \* the path of each feature, 0 when it is not known
  threads,           \* the file watcher and the command channel
  watching,          \* whether the watcher was added to the files
  ghost              \* what the properties exclude, and the counters

managerVars == <<cfgFiles, fileEvents, groups, runners, featuresCache, threads, watching, ghost>>

Contents == Configs \cup {Absent, Broken}

NoCmdFF == "none"

Idle == [at |-> "idle", op |-> "none", path |-> 0, group |-> 0, cmdFF |-> NoCmdFF, list |-> {}]

\* NewManager loads the files before it watches them.
ManagerInit ==
  /\ cfgFiles \in [Paths -> Contents] /\ fileEvents = <<>> /\ groups = <<>>
  /\ runners = [p \in Paths |-> 0] /\ featuresCache = [f \in Features |-> 0]
  /\ threads = [watch |-> [Idle EXCEPT !.at = "new"], cc |-> Idle]
  /\ watching = [p \in Paths |-> FALSE]
  /\ ghost = [overlap |-> {}, missed |-> {}, disabled |-> {}, changes |-> 0, requests |-> 0]

-----------------------------------------------------------------------------
(* Which integrations run                                                   *)

\* Features.IsOHIExecutable
IsOHIExecutable(feature, cmdFF) ==
  CASE feature = Plain -> TRUE
    [] feature \in DOMAIN AgentFeatures -> AgentFeatures[feature]
    [] OTHER -> cmdFF = feature

\* NewLoadFn and newGroupContext: the integrations of the group.
NewGroup(path, cmdFF) ==
  [path |-> path, ohis |-> {f \in cfgFiles[path] : IsOHIExecutable(f, cmdFF)},
   live |-> FALSE, cancel |-> FALSE, lost |-> FALSE]

Loads(path) == cfgFiles[path] \notin {Absent, Broken}

\* FeaturesCache.Update
UpdateCache(path) ==
  featuresCache' = [f \in Features |-> IF f \in cfgFiles[path] THEN path ELSE featuresCache[f]]

\* groupContext.start: the context of an earlier start is out of reach.
StartGroup(g) ==
  groups' = [groups EXCEPT ![g].lost = @ \/ groups[g].live, ![g].live = groups[g].ohis # {},
                           ![g].cancel = @ \/ groups[g].ohis # {}]

\* groupContext.stop of a group that isRunning
StopGroup(g) == groups' = [groups EXCEPT ![g].live = FALSE]

isGroupRunning(path) == runners[path] # 0 /\ groups[runners[path]].cancel

-----------------------------------------------------------------------------
(* NewManager and Start                                                     *)

\* configLoader.Load, then watcher.Add: a change in between is not seen.
LoadConfigs ==
  /\ threads.watch.at = "new"
  /\ LET todo == {p \in Paths : Loads(p)} IN
     /\ threads' = [threads EXCEPT !.watch.at = "watch"]
     /\ ghost' = [ghost EXCEPT !.missed = Paths]
     /\ \E order \in [1..Cardinality(todo) -> todo] :
          /\ \A i, j \in DOMAIN order : i # j => order[i] # order[j]
          /\ \A p \in todo : \E i \in DOMAIN order : order[i] = p
          /\ groups' = [i \in DOMAIN order |-> NewGroup(order[i], NoCmdFF)]
          /\ featuresCache' = [f \in Features |->
               LET ks == {i \in DOMAIN order : f \in cfgFiles[order[i]]} IN
               IF ks = {} THEN 0 ELSE order[CHOOSE i \in ks : \A k \in ks : k <= i]]
          /\ runners' = [p \in Paths |->
               IF p \in todo THEN CHOOSE i \in DOMAIN order : order[i] = p ELSE 0]
  /\ UNCHANGED <<cfgFiles, fileEvents, watching>>

\* The folder is watched, and with it every file; a file that did not change
\* since it was loaded is up to date.
WatchConfigs ==
  /\ threads.watch.at = "watch" /\ watching' = [p \in Paths |-> TRUE]
  /\ threads' = [threads EXCEPT !.watch.at = "start", !.watch.list = DOMAIN groups]
  /\ ghost' = [ghost EXCEPT !.missed = {p \in Paths :
       IF runners[p] = 0 THEN Loads(p)
       ELSE ~Loads(p) \/ NewGroup(p, NoCmdFF) # groups[runners[p]]}]
  /\ UNCHANGED <<cfgFiles, fileEvents, groups, runners, featuresCache>>

\* Start: the groups of the list are started one after the other ...
StartManager(g) ==
  /\ threads.watch.at = "start" /\ g \in threads.watch.list
  /\ StartGroup(g)
  /\ threads' = [threads EXCEPT !.watch.list = @ \ {g}]
  /\ UNCHANGED <<cfgFiles, fileEvents, runners, featuresCache, watching, ghost>>

\* ... and then the file events are handled.
WatchForFSChanges ==
  /\ threads.watch.at = "start" /\ threads.watch.list = {}
  /\ threads' = [threads EXCEPT !.watch = Idle]
  /\ UNCHANGED <<cfgFiles, fileEvents, groups, runners, featuresCache, watching, ghost>>

-----------------------------------------------------------------------------
(* Files                                                                    *)

\* Someone writes, creates or deletes a file; replaced says that a file was put
\* in the place of another, which the watch of the old file reports as a removal.
FileChanges(p, content, replaced) ==
  /\ ghost.changes < MaxFileChanges /\ content # cfgFiles[p]
  /\ replaced => content # Absent /\ cfgFiles[p] # Absent
  /\ cfgFiles' = [cfgFiles EXCEPT ![p] = content]
  /\ fileEvents' =
       IF ~watching[p] THEN fileEvents
       ELSE Append(fileEvents, [path |-> p,
              op |-> IF replaced \/ content = Absent THEN "remove"
                     ELSE IF cfgFiles[p] = Absent THEN "create" ELSE "write"])
  /\ ghost' = [ghost EXCEPT !.changes = @ + 1]
  /\ UNCHANGED <<groups, runners, featuresCache, threads, watching>>

-----------------------------------------------------------------------------
(* The steps that both goroutines take                                      *)

Others(t) == DOMAIN threads \ {t}

\* Two goroutines that work on one path at a time.
Overlapping(t, path) ==
  \E u \in Others(t) : threads[u].path = path \/ threads[u].at \in {"new", "watch", "start"}

Noted(t, path) == IF Overlapping(t, path) THEN ghost.overlap \cup {path} ELSE ghost.overlap

\* Mutant: a removal is believed without a look at the file.
MutStillThere(path) == FALSE

\* The file of a removal may be there all the same.
StillThere(path) == cfgFiles[path] # Absent

\* What follows stopRunnerGroup: the file is loaded.
AfterStop(thread) ==
  IF thread.op = "disable" \/ (thread.op = "remove" /\ ~StillThere(thread.path)) THEN Idle
  ELSE [thread EXCEPT !.at = "load"]

\* stopRunnerGroup: the cancellation ...
StopRunnerGroup(t, thread) ==
  IF isGroupRunning(thread.path)
    THEN StopGroup(runners[thread.path]) /\ threads' = [threads EXCEPT ![t] = [thread EXCEPT !.at = "remove"]]
    ELSE UNCHANGED groups /\ threads' = [threads EXCEPT ![t] = AfterStop(thread)]

\* ... and the removal, of whatever group the path has by then.
RemoveRunner(t) ==
  /\ threads[t].at = "remove"
  /\ runners' = [runners EXCEPT ![threads[t].path] = 0]
  /\ threads' = [threads EXCEPT ![t] = AfterStop(threads[t])]
  /\ UNCHANGED <<cfgFiles, fileEvents, groups, featuresCache, watching, ghost>>

\* runIntegrationFromPath: LoadFile and loadRunnerGroup
LoadRunnerGroup(t) ==
  /\ threads[t].at = "load"
  /\ LET path == threads[t].path IN
     IF Loads(path)
       THEN /\ groups' = Append(groups, NewGroup(path, threads[t].cmdFF))
            /\ UpdateCache(path)
            /\ threads' = [threads EXCEPT ![t].at = "set", ![t].group = Len(groups) + 1]
       ELSE threads' = [threads EXCEPT ![t] = Idle] /\ UNCHANGED <<groups, featuresCache>>
  /\ UNCHANGED <<cfgFiles, fileEvents, runners, watching, ghost>>

SetRunner(t) ==
  /\ threads[t].at = "set"
  /\ runners' = [runners EXCEPT ![threads[t].path] = threads[t].group]
  /\ threads' = [threads EXCEPT ![t].at = "run"]
  /\ UNCHANGED <<cfgFiles, fileEvents, groups, featuresCache, watching, ghost>>

StartRunner(t) ==
  /\ threads[t].at = "run" /\ StartGroup(threads[t].group)
  /\ threads' = [threads EXCEPT ![t] = Idle]
  /\ UNCHANGED <<cfgFiles, fileEvents, runners, featuresCache, watching, ghost>>

-----------------------------------------------------------------------------
(* File events and feature flags                                            *)

\* handleFileEvent, up to the cancellation of the group; a file that is not
\* there is valid only for a removal.
HandleFileEvent ==
  /\ threads.watch.at = "idle" /\ fileEvents # <<>>
  /\ fileEvents' = Tail(fileEvents)
  /\ LET e == Head(fileEvents) IN
     IF e.op # "remove" /\ cfgFiles[e.path] = Absent
       THEN UNCHANGED <<groups, threads, ghost>>
       ELSE /\ StopRunnerGroup("watch", [Idle EXCEPT !.op = e.op, !.path = e.path])
            /\ ghost' = [ghost EXCEPT !.overlap = Noted("watch", e.path),
                                      !.missed = @ \ {e.path}, !.disabled = @ \ {e.path}]
  /\ UNCHANGED <<cfgFiles, runners, featuresCache, watching>>

\* handleEnableOHI: the agent configuration takes precedence; the manager is known
\* to the handler when it starts.
Handles(f) ==
  /\ threads.cc.at = "idle" /\ threads.watch.at \notin {"new", "watch"}
  /\ f \notin DOMAIN AgentFeatures /\ featuresCache[f] # 0
  /\ ghost.requests < MaxRequests

\* EnableOHIFromFF
EnableOHIFromFF(f) ==
  /\ Handles(f)
  /\ LET path == featuresCache[f] IN
     /\ ~isGroupRunning(path)
     /\ threads' = [threads EXCEPT !.cc =
          [Idle EXCEPT !.at = "load", !.op = "enable", !.path = path, !.cmdFF = f]]
     /\ ghost' = [ghost EXCEPT !.requests = @ + 1, !.disabled = @ \ {path},
                               !.overlap = Noted("cc", path)]
  /\ UNCHANGED <<cfgFiles, fileEvents, groups, runners, featuresCache, watching>>

\* DisableOHIFromFF stops every integration of the file.
DisableOHIFromFF(f) ==
  /\ Handles(f)
  /\ LET path == featuresCache[f] IN
     /\ isGroupRunning(path)
     /\ StopRunnerGroup("cc", [Idle EXCEPT !.op = "disable", !.path = path])
     /\ ghost' = [ghost EXCEPT !.requests = @ + 1, !.disabled = @ \cup {path},
                               !.overlap = Noted("cc", path)]
  /\ UNCHANGED <<cfgFiles, fileEvents, runners, featuresCache, watching>>

-----------------------------------------------------------------------------

ManagerNext ==
  \/ LoadConfigs
  \/ WatchConfigs
  \/ \E g \in DOMAIN groups : StartManager(g)
  \/ WatchForFSChanges
  \/ \E p \in Paths, c \in Contents, replaced \in BOOLEAN : FileChanges(p, c, replaced)
  \/ HandleFileEvent
  \/ \E t \in DOMAIN threads : RemoveRunner(t) \/ LoadRunnerGroup(t) \/ SetRunner(t) \/ StartRunner(t)
  \/ \E f \in Features : EnableOHIFromFF(f) \/ DisableOHIFromFF(f)

ManagerSpec == ManagerInit /\ [][ManagerNext]_managerVars

-----------------------------------------------------------------------------
(* Properties                                                               *)

AtRest == \A t \in DOMAIN threads : threads[t].at = "idle"

LiveGroups(p) == {g \in DOMAIN groups : groups[g].path = p /\ (groups[g].live \/ groups[g].lost)}

\* The integrations that a file starts: its own, and those of one feature that
\* the command channel enabled.
Started(p) == {{f \in cfgFiles[p] : IsOHIExecutable(f, c)} : c \in Features \cup {NoCmdFF}}

\* When every event is handled, at most one group of a file runs, the one the
\* manager can stop, and it runs what the file says; it runs nothing only when
\* there is nothing to run or a flag stopped it.  Excluded are the files that
\* changed between their loading and the watch, and those that a file event and
\* a flag worked on at the same time.
FilesFollowed ==
  (AtRest /\ fileEvents = <<>>) =>
    \A p \in Paths \ (ghost.overlap \cup ghost.missed) :
      /\ \A g \in LiveGroups(p) : g = runners[p] /\ ~groups[g].lost /\ Loads(p)
                                  /\ groups[g].ohis \in Started(p)
      /\ LiveGroups(p) = {} /\ Loads(p) /\ p \notin ghost.disabled => {} \in Started(p)

=============================================================================
