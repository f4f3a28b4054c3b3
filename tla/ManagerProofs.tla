---------------------------- MODULE ManagerProofs ----------------------------
(***************************************************************************)
(* Proofs about the manager of the integrations: what runs is what the     *)
(* configuration files say.                                                *)
(***************************************************************************)
EXTENDS IntegrationManager, FiniteSetTheorems, WellFoundedInduction, TLAPS

USE Zenon

Operation == {"none", "remove", "create", "write", "enable", "disable"}

Event == [path : Paths, op : {"remove", "create", "write"}]

Group == [path : Paths, ohis : SUBSET (Features \cup {Plain}),
          live : BOOLEAN, cancel : BOOLEAN, lost : BOOLEAN]

Thread == [at : {"new", "watch", "start", "idle", "remove", "load", "set", "run"}, op : Operation,
           path : Paths \cup {0}, group : Nat, cmdFF : Features \cup {NoCmdFF}, list : SUBSET Nat]

ManagerTypeOK ==
  /\ cfgFiles \in [Paths -> Contents]
  /\ fileEvents \in Seq(Event)
  /\ groups \in Seq(Group)
  /\ runners \in [Paths -> Nat]
  /\ featuresCache \in [Features -> Paths \cup {0}]
  /\ threads \in [watch : Thread, cc : Thread]
  /\ watching \in [Paths -> BOOLEAN]
  /\ ghost \in [overlap : SUBSET Paths, missed : SUBSET Paths, disabled : SUBSET Paths,
                changes : Nat, requests : Nat]

Goroutines == {"watch", "cc"}
Starting == {"new", "watch", "start"}
Working == {"remove", "load", "set", "run"}

\* Before the files are watched no event comes and no flag is handled.
Phases ==
  /\ threads.cc.at \notin Starting
  /\ threads.watch.at \in {"new", "watch"} =>
       fileEvents = <<>> /\ threads.cc.at = "idle" /\ \A p \in Paths : ~watching[p]
  /\ threads.watch.at = "new" => groups = <<>>
  /\ threads.watch.at \notin {"new", "watch"} => \A p \in Paths : watching[p]
  /\ threads.watch.at = "watch" => ghost.missed = Paths
  /\ threads.watch.at = "start" => threads.watch.list \subseteq DOMAIN groups

\* Goroutines and the map of groups speak of groups of their path.
OwnGroups ==
  /\ \A p \in Paths : runners[p] # 0 => runners[p] \in DOMAIN groups /\ groups[runners[p]].path = p
  /\ \A t \in Goroutines :
       /\ threads[t].at \in Working => threads[t].path \in Paths
       /\ threads[t].at \in {"set", "run"} =>
            threads[t].group \in DOMAIN groups /\ groups[threads[t].group].path = threads[t].path

Busy(t, p) == threads[t].at \in Working /\ threads[t].path = p

\* A file that is gone: its removal is the last of its events.
RemovalLast(p) ==
  cfgFiles[p] = Absent =>
    \A i \in DOMAIN fileEvents : fileEvents[i].path = p /\ fileEvents[i].op # "remove"
      => \E j \in DOMAIN fileEvents : i < j /\ fileEvents[j].path = p /\ fileEvents[j].op = "remove"

GroupsOf(p) == {g \in DOMAIN groups : groups[g].path = p}

Stopped(p) == \A g \in GroupsOf(p) : ~groups[g].live

\* No other goroutine works on p.
Alone(p) ==
  /\ ~(Busy("watch", p) /\ Busy("cc", p))
  /\ threads.watch.at \in Starting => ~Busy("cc", p)

\* What runs can be stopped.
OneLive(p) ==
  \A g \in GroupsOf(p) : ~groups[g].lost /\ (groups[g].live => g = runners[p] /\ groups[g].cancel)

\* A goroutine that works on p has stopped what ran.
WorkStopped(p) ==
  \A t \in Goroutines : Busy(t, p) =>
    /\ Stopped(p)
    /\ threads[t].at = "run" => runners[p] = threads[t].group
    /\ threads[t].op = "disable" => threads[t].at = "remove" /\ p \in ghost.disabled

\* At first each file has the group that was loaded; the ones of the list are to start.
FirstGroups(p) ==
  /\ threads.watch.at \in {"watch", "start"} => \A g \in GroupsOf(p) : g = runners[p]
  /\ threads.watch.at = "watch" => Stopped(p)
  /\ threads.watch.at = "start" => \A g \in GroupsOf(p) :
       groups[g].live <=> g \notin threads.watch.list /\ groups[g].ohis # {}

InHand(p) == Alone(p) /\ OneLive(p) /\ WorkStopped(p) /\ FirstGroups(p)

Due(p) == \E i \in DOMAIN fileEvents : fileEvents[i].path = p

Fits(p, g) == Loads(p) /\ groups[g].ohis \in Started(p)

\* What runs, what is about to run, and what is to be started is what the file says.
LiveFits(p) == \A g \in GroupsOf(p) : groups[g].live => Fits(p, g)

NextFits(p) ==
  \A t \in Goroutines : Busy(t, p) /\ threads[t].at \in {"set", "run"} => Fits(p, threads[t].group)

FirstFits(p) == threads.watch.at = "start" => IF runners[p] = 0 THEN ~Loads(p) ELSE Fits(p, runners[p])

AtWork(p) == threads.watch.at = "start" \/ Busy("watch", p) \/ Busy("cc", p)

\* A file of which nothing runs has nothing to run, or was disabled.
RestFits(p) == ~AtWork(p) /\ Stopped(p) /\ Loads(p) /\ p \notin ghost.disabled => {} \in Started(p)

\* An event of p is due, or everything is as the file says.
UpToDate(p) == Due(p) \/ (LiveFits(p) /\ NextFits(p) /\ FirstFits(p) /\ RestFits(p))

ManagerInv ==
  /\ ManagerTypeOK /\ Phases /\ OwnGroups
  /\ \A p \in Paths : RemovalLast(p)
  /\ \A p \in Paths \ ghost.overlap : InHand(p)
  /\ threads.watch.at \notin {"new", "watch"} =>
       \A p \in Paths \ (ghost.overlap \cup ghost.missed) : UpToDate(p)

-----------------------------------------------------------------------------
(* What the operators of the model do                                       *)

LEMMA ThreadFields ==
  ASSUME ManagerTypeOK
  PROVE  /\ threads.watch \in Thread /\ threads.cc \in Thread /\ DOMAIN threads = Goroutines
         /\ \A t \in Goroutines : threads[t] \in Thread
BY DEF ManagerTypeOK, Goroutines

LEMMA GroupFields ==
  ASSUME ManagerTypeOK
  PROVE  /\ groups \in [DOMAIN groups -> Group] /\ \A g \in DOMAIN groups : groups[g] \in Group
         /\ 0 \notin DOMAIN groups
BY SMT DEF ManagerTypeOK

LEMMA IdleType == Idle \in Thread /\ Idle.at = "idle" /\ Idle.path = 0 /\ Idle.op = "none"
BY DEF Idle, Thread, NoCmdFF, Operation

\* groupContext.start
LEMMA StartGroupDoes ==
  ASSUME ManagerTypeOK, NEW g \in DOMAIN groups, StartGroup(g)
  PROVE  /\ groups' \in Seq(Group) /\ DOMAIN groups' = DOMAIN groups
         /\ \A h \in DOMAIN groups : h # g => groups'[h] = groups[h]
         /\ groups'[g].path = groups[g].path /\ groups'[g].ohis = groups[g].ohis
         /\ groups'[g].live <=> groups[g].ohis # {}
         /\ groups'[g].lost <=> groups[g].lost \/ groups[g].live
         /\ groups'[g].cancel <=> groups[g].cancel \/ groups[g].ohis # {}
<1> DEFINE starts == groups[g].ohis # {}
           x == [[[groups[g] EXCEPT !.lost = (groups[g].lost \/ groups[g].live)]
                    EXCEPT !.live = starts] EXCEPT !.cancel = (groups[g].cancel \/ starts)]
<1>1. groups[g] \in Group /\ groups \in [DOMAIN groups -> Group]
  BY GroupFields
<1>2. groups' = [groups EXCEPT ![g] = x]
  BY <1>1 DEF StartGroup, Group
<1>3. x \in Group
  BY <1>1 DEF Group
<1>4. /\ x.path = groups[g].path /\ x.ohis = groups[g].ohis /\ (x.live <=> starts)
      /\ (x.lost <=> groups[g].lost \/ groups[g].live) /\ (x.cancel <=> groups[g].cancel \/ starts)
  BY <1>1 DEF Group
<1> HIDE DEF x, starts
<1>5. groups' \in Seq(Group)
  BY <1>2, <1>3, SMT DEF ManagerTypeOK
<1>6. DOMAIN groups' = DOMAIN groups /\ groups'[g] = x /\ \A h \in DOMAIN groups : h # g => groups'[h] = groups[h]
  BY <1>1, <1>2
<1> QED
  BY <1>4, <1>5, <1>6 DEF starts

\* groupContext.stop
LEMMA StopGroupDoes ==
  ASSUME ManagerTypeOK, NEW g \in DOMAIN groups, StopGroup(g)
  PROVE  /\ groups' \in Seq(Group) /\ DOMAIN groups' = DOMAIN groups
         /\ \A h \in DOMAIN groups : h # g => groups'[h] = groups[h]
         /\ groups'[g].path = groups[g].path /\ groups'[g].ohis = groups[g].ohis
         /\ ~groups'[g].live /\ groups'[g].lost = groups[g].lost
<1> DEFINE x == [groups[g] EXCEPT !.live = FALSE]
<1>1. groups[g] \in Group /\ groups \in [DOMAIN groups -> Group]
  BY GroupFields
<1>2. groups' = [groups EXCEPT ![g] = x]
  BY <1>1 DEF StopGroup, Group
<1>3. x \in Group
  BY <1>1 DEF Group
<1>4. x.path = groups[g].path /\ x.ohis = groups[g].ohis /\ ~x.live /\ x.lost = groups[g].lost
  BY <1>1 DEF Group
<1> HIDE DEF x
<1>5. groups' \in Seq(Group)
  BY <1>2, <1>3, SMT DEF ManagerTypeOK
<1>6. DOMAIN groups' = DOMAIN groups /\ groups'[g] = x /\ \A h \in DOMAIN groups : h # g => groups'[h] = groups[h]
  BY <1>1, <1>2
<1> QED
  BY <1>4, <1>5, <1>6

\* NewLoadFn: the integrations of a file that loads.
LEMMA NewGroupType ==
  ASSUME ManagerTypeOK, NEW p \in Paths, Loads(p), NEW c
  PROVE  /\ NewGroup(p, c) \in Group
         /\ ~NewGroup(p, c).live /\ ~NewGroup(p, c).lost /\ ~NewGroup(p, c).cancel
         /\ NewGroup(p, c).path = p
         /\ NewGroup(p, c).ohis = {f \in cfgFiles[p] : IsOHIExecutable(f, c)}
         /\ cfgFiles[p] \subseteq Features \cup {Plain}
<1>1. cfgFiles[p] \in Configs
  BY DEF ManagerTypeOK, Contents, Loads
<1>2. cfgFiles[p] \subseteq Features \cup {Plain}
  BY <1>1, ManagerAssumption
<1> QED
  BY <1>2 DEF NewGroup, Group

-----------------------------------------------------------------------------
(* A step concerns one path                                                 *)

\* The groups, the goroutines and the entry of q are as they were.
SameWork(q) ==
  \A t \in Goroutines : (Busy(t, q)' <=> Busy(t, q)) /\ (Busy(t, q) => threads'[t] = threads[t])

SamePhase(q) ==
  threads'.watch.at \in Starting \/ threads.watch.at \in Starting =>
    /\ threads'.watch.at = threads.watch.at
    /\ \A g \in GroupsOf(q) : g \in threads'.watch.list <=> g \in threads.watch.list

SameGroups(q) ==
  /\ GroupsOf(q)' = GroupsOf(q) /\ \A g \in GroupsOf(q) : groups'[g] = groups[g]
  /\ runners'[q] = runners[q]

Untouched(q) ==
  SameWork(q) /\ SamePhase(q) /\ SameGroups(q) /\ (q \in ghost'.disabled <=> q \in ghost.disabled)

LEMMA UntouchedInHand ==
  ASSUME NEW q \in Paths, Untouched(q), InHand(q)
  PROVE  InHand(q)'
<1>1. SameWork(q) /\ SamePhase(q) /\ SameGroups(q) /\ (q \in ghost'.disabled <=> q \in ghost.disabled)
  BY DEF Untouched
<1>2. Alone(q) /\ OneLive(q) /\ WorkStopped(q) /\ FirstGroups(q)
  BY DEF InHand
<1>3. Alone(q)'
  BY <1>1, <1>2 DEF SameWork, SamePhase, Alone, Goroutines
<1>4. OneLive(q)'
  BY <1>1, <1>2 DEF SameGroups, OneLive
<1>5. Stopped(q)' <=> Stopped(q)
  BY <1>1 DEF SameGroups, Stopped
<1>6. WorkStopped(q)'
  <2> SUFFICES ASSUME NEW t \in Goroutines, Busy(t, q)'
               PROVE  /\ Stopped(q)'
                      /\ threads'[t].at = "run" => runners'[q] = threads'[t].group
                      /\ threads'[t].op = "disable" => threads'[t].at = "remove" /\ q \in ghost'.disabled
    BY DEF WorkStopped
  <2>1. Busy(t, q) /\ threads'[t] = threads[t] /\ runners'[q] = runners[q]
    BY <1>1 DEF SameWork, SameGroups
  <2> QED
    BY <1>1, <1>2, <1>5, <2>1 DEF WorkStopped
<1>7. FirstGroups(q)'
  <2>1. CASE threads'.watch.at \in {"watch", "start"}
    <3>1. /\ threads'.watch.at = threads.watch.at
          /\ \A g \in GroupsOf(q) : g \in threads'.watch.list <=> g \in threads.watch.list
      BY <1>1, <2>1 DEF SamePhase, Starting
    <3>2. \A g \in GroupsOf(q)' : g = runners'[q]
      BY <1>1, <1>2, <2>1, <3>1 DEF FirstGroups, SameGroups
    <3>3. threads'.watch.at = "watch" => Stopped(q)'
      BY <1>2, <1>5, <3>1 DEF FirstGroups
    <3>4. ASSUME threads'.watch.at = "start", NEW g \in GroupsOf(q)'
          PROVE  groups'[g].live <=> g \notin threads'.watch.list /\ groups'[g].ohis # {}
      <4>1. g \in GroupsOf(q) /\ groups'[g] = groups[g]
        BY <1>1 DEF SameGroups
      <4>2. groups[g].live <=> g \notin threads.watch.list /\ groups[g].ohis # {}
        BY <1>2, <3>1, <3>4, <4>1 DEF FirstGroups
      <4> QED
        BY <3>1, <4>1, <4>2
    <3> QED
      BY <3>2, <3>3, <3>4 DEF FirstGroups
  <2>2. CASE threads'.watch.at \notin {"watch", "start"}
    BY <2>2 DEF FirstGroups
  <2> QED
    BY <2>1, <2>2
<1> QED
  BY <1>3, <1>4, <1>6, <1>7 DEF InHand

LEMMA UntouchedUpToDate ==
  ASSUME ManagerTypeOK, OwnGroups, NEW q \in Paths, Untouched(q), cfgFiles'[q] = cfgFiles[q],
         Due(q) => Due(q)', UpToDate(q)
  PROVE  UpToDate(q)'
<1>1. CASE Due(q)
  BY <1>1 DEF UpToDate
<1>2. CASE ~Due(q)
  <2>1. SameWork(q) /\ SamePhase(q) /\ SameGroups(q) /\ (q \in ghost'.disabled <=> q \in ghost.disabled)
    BY DEF Untouched
  <2>2. LiveFits(q) /\ NextFits(q) /\ FirstFits(q) /\ RestFits(q)
    BY <1>2 DEF UpToDate
  <2>3. Loads(q)' = Loads(q) /\ Started(q)' = Started(q)
    BY DEF Loads, Started
  <2>4. ASSUME NEW g, g \in GroupsOf(q), Fits(q, g) PROVE Fits(q, g)'
    <3>1. groups'[g] = groups[g]
      BY <2>1, <2>4 DEF SameGroups
    <3> QED
      BY <2>3, <2>4, <3>1 DEF Fits
  <2>5. LiveFits(q)'
    BY <2>1, <2>2, <2>4 DEF LiveFits, SameGroups
  <2>6. NextFits(q)'
    <3> SUFFICES ASSUME NEW t \in Goroutines, Busy(t, q)', threads'[t].at \in {"set", "run"}
                 PROVE  Fits(q, threads[t].group)'
      BY DEF NextFits
    <3>1. Busy(t, q) /\ threads'[t] = threads[t]
      BY <2>1 DEF SameWork
    <3>2. threads[t].group \in GroupsOf(q)
      BY <3>1 DEF OwnGroups, GroupsOf, Busy
    <3>3. Fits(q, threads[t].group)
      BY <2>2, <3>1 DEF NextFits
    <3>4. PICK g \in GroupsOf(q) : g = threads[t].group
      BY <3>2
    <3>5. Fits(q, g)'
      BY <2>4, <3>3, <3>4
    <3> QED
      BY <3>1, <3>4, <3>5
  <2>7. FirstFits(q)'
    <3> SUFFICES ASSUME threads'.watch.at = "start"
                 PROVE  (IF runners[q] = 0 THEN ~Loads(q) ELSE Fits(q, runners[q]))'
      BY DEF FirstFits
    <3>1. threads.watch.at = "start" /\ runners'[q] = runners[q]
      BY <2>1 DEF SamePhase, SameGroups, Starting
    <3>2. CASE runners[q] = 0
      BY <2>2, <2>3, <3>1, <3>2 DEF FirstFits
    <3>3. CASE runners[q] # 0
      <4>1. PICK g \in GroupsOf(q) : g = runners[q]
        BY <3>3 DEF OwnGroups, GroupsOf
      <4>2. Fits(q, g)
        BY <2>2, <3>1, <3>3, <4>1 DEF FirstFits
      <4>3. Fits(q, g)'
        BY <2>4, <4>2
      <4> QED
        BY <3>1, <3>3, <4>1, <4>3
    <3> QED
      BY <3>2, <3>3
  <2>8. RestFits(q)'
    <3>1. AtWork(q)' <=> AtWork(q)
      <4>1. threads'.watch.at = "start" <=> threads.watch.at = "start"
        BY <2>1 DEF SamePhase, Starting
      <4>2. (Busy("watch", q)' <=> Busy("watch", q)) /\ (Busy("cc", q)' <=> Busy("cc", q))
        BY <2>1 DEF SameWork, Goroutines
      <4> QED
        BY <4>1, <4>2 DEF AtWork
    <3>2. Stopped(q)' <=> Stopped(q)
      BY <2>1 DEF Stopped, SameGroups
    <3> QED
      BY <2>1, <2>2, <2>3, <3>1, <3>2 DEF RestFits
  <2> QED
    BY <2>5, <2>6, <2>7, <2>8 DEF UpToDate
<1> QED
  BY <1>1, <1>2

\* What a step of goroutine t on path p leaves alone.
OnlyOf(p) ==
  /\ \A q \in Paths \ {p} : SameGroups(q)
  /\ DOMAIN groups \subseteq DOMAIN groups' /\ \A g \in DOMAIN groups : groups'[g].path = groups[g].path
  /\ UNCHANGED <<cfgFiles, watching>>
  /\ \A q \in Paths : Due(q) => q = p \/ Due(q)'
  /\ ghost.overlap \subseteq ghost'.overlap
  /\ \A q \in Paths \ {p} : /\ q \in ghost.missed => q \in ghost'.missed
                            /\ q \in ghost'.disabled <=> q \in ghost.disabled

\* A goroutine that is done or goes on with p.
GoesOn(x, p) ==
  \/ x = Idle
  \/ /\ x.at \in Working /\ x.path = p
     /\ x.at \in {"set", "run"} => x.group \in DOMAIN groups' /\ groups'[x.group].path = p

LEMMA PathStep ==
  ASSUME ManagerInv, ManagerTypeOK', NEW t \in Goroutines, NEW p \in Paths, NEW x,
         threads.watch.at \notin {"new", "watch"},
         threads[t].at = "idle" \/ Busy(t, p), threads' = [threads EXCEPT ![t] = x], GoesOn(x, p), OnlyOf(p),
         runners'[p] # 0 => runners'[p] \in DOMAIN groups' /\ groups'[runners'[p]].path = p,
         \A q \in Paths : RemovalLast(q)',
         p \notin ghost'.overlap => InHand(p)', p \notin ghost'.overlap \cup ghost'.missed => UpToDate(p)'
  PROVE  ManagerInv'
<1>1. /\ DOMAIN threads = Goroutines /\ DOMAIN threads' = Goroutines /\ threads'[t] = x
      /\ \A u \in Goroutines : u # t => threads'[u] = threads[u]
  BY ThreadFields DEF ManagerInv
<1>2. ManagerTypeOK /\ Phases /\ OwnGroups
  BY DEF ManagerInv
<1>3. x.at \in Working \cup {"idle"} /\ threads[t].at \in Working \cup {"idle"}
  BY IdleType DEF GoesOn, Busy
<1>4. \A s \in Working \cup {"idle"} : s \notin Starting
  BY DEF Working, Starting
<1>5. threads'["watch"].at \in Starting \/ threads["watch"].at \in Starting => threads'["watch"] = threads["watch"]
  BY <1>1, <1>3, <1>4 DEF Goroutines
<1>6. Phases'
  <2>1. threads'["cc"].at \notin Starting
    BY <1>1, <1>2, <1>3, <1>4 DEF Phases, Goroutines
  <2>2. threads'["watch"].at \notin {"new", "watch"}
    BY <1>1, <1>5 DEF Starting
  <2>3. \A q \in Paths : watching'[q]
    BY <1>2 DEF OnlyOf, Phases
  <2>4. threads'["watch"].at = "start" => threads'["watch"].list \subseteq DOMAIN groups'
    BY <1>2, <1>5 DEF Phases, OnlyOf, Starting
  <2> QED
    BY <2>1, <2>2, <2>3, <2>4 DEF Phases
<1>7. OwnGroups'
  <2>1. ASSUME NEW q \in Paths, runners'[q] # 0
        PROVE  runners'[q] \in DOMAIN groups' /\ groups'[runners'[q]].path = q
    <3>1. CASE q = p
      BY <2>1, <3>1
    <3>2. CASE q # p
      <4>1. runners'[q] = runners[q]
        BY <3>2 DEF OnlyOf, SameGroups
      <4>2. runners[q] \in DOMAIN groups /\ groups[runners[q]].path = q
        BY <1>2, <2>1, <4>1 DEF OwnGroups
      <4>3. DOMAIN groups \subseteq DOMAIN groups' /\ \A g \in DOMAIN groups : groups'[g].path = groups[g].path
        BY DEF OnlyOf
      <4> QED
        BY <4>1, <4>2, <4>3
    <3> QED
      BY <3>1, <3>2
  <2>2. ASSUME NEW u \in Goroutines
        PROVE  /\ threads'[u].at \in Working => threads'[u].path \in Paths
               /\ threads'[u].at \in {"set", "run"} =>
                    threads'[u].group \in DOMAIN groups' /\ groups'[threads'[u].group].path = threads'[u].path
    <3>1. CASE u = t
      <4>1. CASE x = Idle
        BY <1>1, <3>1, <4>1, IdleType DEF Working
      <4>2. CASE x # Idle
        BY <1>1, <3>1, <4>2 DEF GoesOn
      <4> QED
        BY <4>1, <4>2
    <3>2. CASE u # t
      BY <1>1, <1>2, <3>2 DEF OwnGroups, OnlyOf
    <3> QED
      BY <3>1, <3>2
  <2> QED
    BY <2>1, <2>2 DEF OwnGroups
<1>8. ASSUME NEW q \in Paths \ {p} PROVE Untouched(q)
  <2>1. SameWork(q)
    <3> SUFFICES ASSUME NEW u \in Goroutines
                 PROVE  (Busy(u, q)' <=> Busy(u, q)) /\ (Busy(u, q) => threads'[u] = threads[u])
      BY DEF SameWork
    <3>1. CASE u = t
      <4>1. ~Busy(t, q)
        BY DEF Busy, Working
      <4>2. ~Busy(t, q)'
        BY <1>1, IdleType DEF Busy, Working, GoesOn
      <4> QED
        BY <3>1, <4>1, <4>2
    <3>2. CASE u # t
      BY <1>1, <3>2 DEF Busy
    <3> QED
      BY <3>1, <3>2
  <2>2. SamePhase(q)
    BY <1>5 DEF SamePhase
  <2>3. SameGroups(q) /\ (q \in ghost'.disabled <=> q \in ghost.disabled)
    BY DEF OnlyOf
  <2> QED
    BY <2>1, <2>2, <2>3 DEF Untouched
<1>9. ASSUME NEW q \in Paths \ ghost'.overlap PROVE InHand(q)'
  <2>1. CASE q = p
    BY <2>1
  <2>2. CASE q # p
    <3>1. InHand(q)
      BY DEF ManagerInv, OnlyOf
    <3> QED
      BY <1>8, <2>2, <3>1, UntouchedInHand
  <2> QED
    BY <2>1, <2>2
<1>10. ASSUME NEW q \in Paths \ (ghost'.overlap \cup ghost'.missed) PROVE UpToDate(q)'
  <2>1. CASE q = p
    BY <2>1
  <2>2. CASE q # p
    <3>1. UpToDate(q)
      BY <2>2 DEF ManagerInv, OnlyOf
    <3>2. cfgFiles'[q] = cfgFiles[q] /\ (Due(q) => Due(q)') /\ Untouched(q)
      BY <1>8, <2>2 DEF OnlyOf
    <3> QED
      BY <1>2, <3>1, <3>2, UntouchedUpToDate
  <2> QED
    BY <2>1, <2>2
<1> QED
  BY <1>6, <1>7, <1>9, <1>10 DEF ManagerInv

\* Goroutine t is the only one that works, or has worked, on p.
Became(t, x, p) ==
  /\ DOMAIN threads = Goroutines /\ threads' = [threads EXCEPT ![t] = x]
  /\ threads'.watch.at \notin Starting
  /\ \A u \in Goroutines \ {t} : ~Busy(u, p)

LEMMA InHandAfter ==
  ASSUME NEW p, NEW t \in Goroutines, NEW x, Became(t, x, p), OneLive(p)',
         x.at \in Working /\ x.path = p =>
           /\ Stopped(p)'
           /\ x.at = "run" => runners'[p] = x.group
           /\ x.op = "disable" => x.at = "remove" /\ p \in ghost'.disabled
  PROVE  InHand(p)'
<1>1. threads'[t] = x /\ \A u \in Goroutines \ {t} : threads'[u] = threads[u]
  BY DEF Became
<1>2. \A u \in Goroutines \ {t} : ~Busy(u, p)'
  BY <1>1 DEF Became, Busy
<1>3. Alone(p)'
  BY <1>2 DEF Alone, Became, Goroutines
<1>4. WorkStopped(p)'
  <2> SUFFICES ASSUME NEW u \in Goroutines, Busy(u, p)'
               PROVE  /\ Stopped(p)'
                      /\ threads'[u].at = "run" => runners'[p] = threads'[u].group
                      /\ threads'[u].op = "disable" => threads'[u].at = "remove" /\ p \in ghost'.disabled
    BY DEF WorkStopped
  <2>1. u = t
    BY <1>2
  <2>2. x.at \in Working /\ x.path = p
    BY <1>1, <2>1 DEF Busy
  <2> QED
    BY <1>1, <2>1, <2>2
<1>5. FirstGroups(p)'
  BY DEF FirstGroups, Became, Starting
<1> QED
  BY <1>3, <1>4, <1>5 DEF InHand

LEMMA UpToDateAfter ==
  ASSUME NEW p, NEW t \in Goroutines, NEW x, Became(t, x, p), LiveFits(p)',
         x.at \in {"set", "run"} /\ x.path = p => Fits(p, x.group)',
         ~(x.at \in Working /\ x.path = p) /\ Stopped(p)' /\ Loads(p)' /\ p \notin ghost'.disabled
           => {} \in Started(p)'
  PROVE  UpToDate(p)'
<1>1. threads'[t] = x /\ \A u \in Goroutines \ {t} : threads'[u] = threads[u]
  BY DEF Became
<1>2. \A u \in Goroutines \ {t} : ~Busy(u, p)'
  BY <1>1 DEF Became, Busy
<1>3. NextFits(p)'
  <2> SUFFICES ASSUME NEW u \in Goroutines, Busy(u, p)', threads'[u].at \in {"set", "run"}
               PROVE  Fits(p, threads[u].group)'
    BY DEF NextFits
  <2>1. u = t
    BY <1>2
  <2>2. x.at \in {"set", "run"} /\ x.path = p
    BY <1>1, <2>1 DEF Busy
  <2> QED
    BY <1>1, <2>1, <2>2
<1>4. FirstFits(p)'
  BY DEF FirstFits, Became, Starting
<1>5. RestFits(p)'
  <2> SUFFICES ASSUME ~AtWork(p)', Stopped(p)', Loads(p)', p \notin ghost'.disabled PROVE {} \in Started(p)'
    BY DEF RestFits
  <2>1. ~Busy(t, p)'
    BY DEF AtWork, Goroutines
  <2>2. ~(x.at \in Working /\ x.path = p)
    BY <1>1, <2>1 DEF Busy
  <2> QED
    BY <2>2
<1> QED
  BY <1>3, <1>4, <1>5 DEF UpToDate

\* A goroutine that works on p alone.
LEMMA WorksAlone ==
  ASSUME ManagerInv, NEW p \in Paths \ ghost.overlap, NEW t \in Goroutines, Busy(t, p)
  PROVE  /\ Stopped(p) /\ OneLive(p)
         /\ threads.watch.at \notin Starting
         /\ \A u \in Goroutines \ {t} : ~Busy(u, p)
         /\ threads[t].at = "run" => runners[p] = threads[t].group
         /\ threads[t].op = "disable" => threads[t].at = "remove" /\ p \in ghost.disabled
         /\ threads[t].at \in {"set", "run"} /\ p \notin ghost.missed => Due(p) \/ Fits(p, threads[t].group)
<1>1. Alone(p) /\ OneLive(p) /\ WorkStopped(p)
  BY DEF ManagerInv, InHand
<1>2. threads.watch.at \notin Starting
  <2>1. CASE t = "cc"
    BY <1>1, <2>1 DEF Alone
  <2>2. CASE t = "watch"
    BY <2>2 DEF Busy, Working, Starting
  <2> QED
    BY <2>1, <2>2 DEF Goroutines
<1>3. \A u \in Goroutines \ {t} : ~Busy(u, p)
  <2>1. CASE t = "cc"
    BY <1>1, <2>1 DEF Alone, Goroutines
  <2>2. CASE t = "watch"
    BY <1>1, <2>2 DEF Alone, Goroutines
  <2> QED
    BY <2>1, <2>2 DEF Goroutines
<1>4. /\ Stopped(p) /\ (threads[t].at = "run" => runners[p] = threads[t].group)
      /\ threads[t].op = "disable" => threads[t].at = "remove" /\ p \in ghost.disabled
  BY <1>1 DEF WorkStopped
<1>5. ASSUME threads[t].at \in {"set", "run"}, p \notin ghost.missed PROVE Due(p) \/ Fits(p, threads[t].group)
  <2>1. UpToDate(p)
    BY <1>2, <1>5 DEF ManagerInv, Starting
  <2> QED
    BY <1>5, <2>1 DEF UpToDate, NextFits
<1> QED
  BY <1>1, <1>2, <1>3, <1>4, <1>5

LEMMA AfterStopDoes ==
  ASSUME NEW thread \in Thread
  PROVE  /\ AfterStop(thread) \in Thread
         /\ \/ /\ AfterStop(thread) = Idle
               /\ thread.op = "disable" \/ (thread.op = "remove" /\ cfgFiles[thread.path] = Absent)
            \/ /\ AfterStop(thread).at = "load" /\ AfterStop(thread).path = thread.path
               /\ AfterStop(thread).op # "disable"
<1>1. CASE thread.op = "disable" \/ (thread.op = "remove" /\ ~StillThere(thread.path))
  BY <1>1, IdleType DEF AfterStop, StillThere
<1>2. CASE ~(thread.op = "disable" \/ (thread.op = "remove" /\ ~StillThere(thread.path)))
  <2>1. AfterStop(thread) = [thread EXCEPT !.at = "load"]
    BY <1>2 DEF AfterStop
  <2> QED
    BY <1>2, <2>1 DEF Thread
<1> QED
  BY <1>1, <1>2

LEMMA EventsKept ==
  ASSUME ManagerInv, UNCHANGED <<cfgFiles, fileEvents>>
  PROVE  /\ \A q \in Paths : RemovalLast(q)'
         /\ \A q \in Paths : (Due(q)' <=> Due(q)) /\ (Loads(q)' <=> Loads(q)) /\ Started(q)' = Started(q)
BY ZenonT(40) DEF ManagerInv, RemovalLast, Due, Loads, Started

-----------------------------------------------------------------------------
(* The steps of the goroutines                                              *)

\* What the four steps of a goroutine that works on a path have in common.
LEMMA Worker ==
  ASSUME ManagerInv, NEW t \in Goroutines, threads[t].at \in Working
  PROVE  /\ threads[t] \in Thread /\ threads[t].path \in Paths /\ Busy(t, threads[t].path)
         /\ threads.watch.at \notin {"new", "watch"}
         /\ threads[t].at \in {"set", "run"} =>
              threads[t].group \in DOMAIN groups /\ groups[threads[t].group].path = threads[t].path
<1>1. ManagerTypeOK /\ Phases /\ OwnGroups
  BY DEF ManagerInv
<1>2. threads.watch.at \notin {"new", "watch"}
  <2>1. CASE t = "cc"
    BY <1>1, <2>1 DEF Phases, Working
  <2>2. CASE t = "watch"
    BY <2>2 DEF Working
  <2> QED
    BY <2>1, <2>2 DEF Goroutines
<1> QED
  BY <1>1, <1>2, ThreadFields DEF OwnGroups, Busy

LEMMA ThreadsType ==
  ASSUME ManagerTypeOK, NEW t \in Goroutines, NEW x \in Thread, threads' = [threads EXCEPT ![t] = x]
  PROVE  threads' \in [watch : Thread, cc : Thread]
BY DEF ManagerTypeOK, Goroutines

LEMMA BecameAlone ==
  ASSUME ManagerInv, NEW p \in Paths \ ghost.overlap, NEW t \in Goroutines, Busy(t, p), NEW x,
         x.at \in Working \cup {"idle"}, threads' = [threads EXCEPT ![t] = x]
  PROVE  Became(t, x, p)
<1>1. threads.watch.at \notin Starting /\ \A u \in Goroutines \ {t} : ~Busy(u, p)
  BY WorksAlone
<1>2. DOMAIN threads = Goroutines
  BY ThreadFields DEF ManagerInv
<1>3. threads'["watch"].at \notin Starting
  <2>1. CASE t = "watch"
    BY <1>2, <2>1 DEF Goroutines, Working, Starting
  <2>2. CASE t # "watch"
    BY <1>1, <1>2, <2>2 DEF Goroutines
  <2> QED
    BY <2>1, <2>2
<1> QED
  BY <1>1, <1>2, <1>3 DEF Became

LEMMA RemoveRunnerKeeps ==
  ASSUME ManagerInv, NEW t \in Goroutines, RemoveRunner(t)
  PROVE  ManagerInv'
<1>1. threads[t].at = "remove" /\ UNCHANGED <<cfgFiles, fileEvents, groups, featuresCache, watching, ghost>>
  BY DEF RemoveRunner
<1>2. threads[t] \in Thread /\ threads[t].path \in Paths /\ threads.watch.at \notin {"new", "watch"}
  BY <1>1, Worker DEF Working
<1>3. PICK p \in Paths : p = threads[t].path
  BY <1>2
<1>4. PICK x : x = AfterStop(threads[t])
  OBVIOUS
<1>5. threads' = [threads EXCEPT ![t] = x] /\ runners' = [runners EXCEPT ![p] = 0] /\ Busy(t, p)
  BY <1>1, <1>3, <1>4 DEF RemoveRunner, Busy, Working
<1>6. /\ x \in Thread
      /\ \/ x = Idle /\ (threads[t].op = "disable" \/ (threads[t].op = "remove" /\ cfgFiles[p] = Absent))
         \/ x.at = "load" /\ x.path = p /\ x.op # "disable"
  BY <1>2, <1>3, <1>4, AfterStopDoes
<1>7. ManagerTypeOK /\ runners'[p] = 0 /\ \A q \in Paths : q # p => runners'[q] = runners[q]
  BY <1>5 DEF ManagerInv, ManagerTypeOK
<1>8. ManagerTypeOK'
  <2>1. threads' \in [watch : Thread, cc : Thread]
    BY <1>5, <1>6, <1>7, ThreadsType
  <2>2. 0 \in Nat
    BY SMT
  <2>3. runners' \in [Paths -> Nat]
    BY <1>5, <1>7, <2>2 DEF ManagerTypeOK
  <2> QED
    BY <1>1, <1>7, <2>1, <2>3 DEF ManagerTypeOK
<1>9. x.at \in Working \cup {"idle"} /\ GoesOn(x, p)
  BY <1>6, IdleType DEF GoesOn, Working
<1>10. /\ \A q \in Paths : RemovalLast(q)'
       /\ \A q \in Paths : (Due(q)' <=> Due(q)) /\ (Loads(q)' <=> Loads(q)) /\ Started(q)' = Started(q)
  BY <1>1, EventsKept
<1>11. GroupsOf(p)' = GroupsOf(p) /\ (Stopped(p)' <=> Stopped(p))
  BY <1>1 DEF GroupsOf, Stopped
<1>12. OnlyOf(p)
  <2>1. \A q \in Paths \ {p} : SameGroups(q)
    BY <1>1, <1>7 DEF SameGroups, GroupsOf
  <2> QED
    BY <1>1, <1>10, <2>1 DEF OnlyOf
<1>13. ASSUME p \notin ghost'.overlap PROVE InHand(p)' /\ UpToDate(p)'
  <2>1. p \in Paths \ ghost.overlap
    BY <1>1, <1>13
  <2>2. Became(t, x, p)
    BY <1>5, <1>9, <2>1, BecameAlone
  <2>3. Stopped(p) /\ OneLive(p) /\ (threads[t].op = "disable" => p \in ghost.disabled)
    BY <1>5, <2>1, WorksAlone
  <2>4. OneLive(p)' /\ LiveFits(p)' /\ Stopped(p)'
    BY <1>1, <1>11, <2>3 DEF OneLive, LiveFits, Stopped
  <2>5. InHand(p)'
    BY <1>6, <2>2, <2>4, IdleType, InHandAfter DEF Working
  <2>6. x = Idle => p \in ghost'.disabled \/ ~Loads(p)'
    BY <1>1, <1>6, <1>10, <2>3, IdleType DEF Loads
  <2>7. UpToDate(p)'
    BY <1>6, <2>2, <2>4, <2>6, IdleType, UpToDateAfter DEF Working
  <2> QED
    BY <2>5, <2>7
<1> QED
  BY <1>2, <1>5, <1>7, <1>8, <1>9, <1>10, <1>12, <1>13, PathStep

LEMMA SetRunnerKeeps ==
  ASSUME ManagerInv, NEW t \in Goroutines, SetRunner(t)
  PROVE  ManagerInv'
<1>1. threads[t].at = "set" /\ UNCHANGED <<cfgFiles, fileEvents, groups, featuresCache, watching, ghost>>
  BY DEF SetRunner
<1>2. /\ threads[t] \in Thread /\ threads[t].path \in Paths /\ threads.watch.at \notin {"new", "watch"}
      /\ threads[t].group \in DOMAIN groups /\ groups[threads[t].group].path = threads[t].path
  BY <1>1, Worker DEF Working
<1>3. PICK p \in Paths : p = threads[t].path
  BY <1>2
<1>4. PICK x : x = [threads[t] EXCEPT !.at = "run"]
  OBVIOUS
<1>5. /\ x \in Thread /\ x.at = "run" /\ x.path = p /\ x.group = threads[t].group /\ x.op = threads[t].op
  BY <1>2, <1>3, <1>4 DEF Thread
<1>6. threads' = [threads EXCEPT ![t] = x] /\ runners' = [runners EXCEPT ![p] = x.group] /\ Busy(t, p)
  BY <1>1, <1>3, <1>4, <1>5 DEF SetRunner, Busy, Working
<1>7. ManagerTypeOK /\ runners'[p] = x.group /\ \A q \in Paths : q # p => runners'[q] = runners[q]
  BY <1>6 DEF ManagerInv, ManagerTypeOK
<1>8. ManagerTypeOK'
  <2>1. threads' \in [watch : Thread, cc : Thread]
    BY <1>5, <1>6, <1>7, ThreadsType
  <2>2. x.group \in Nat
    BY <1>5 DEF Thread
  <2>3. runners' \in [Paths -> Nat]
    BY <1>6, <1>7, <2>2 DEF ManagerTypeOK
  <2> QED
    BY <1>1, <1>7, <2>1, <2>3 DEF ManagerTypeOK
<1>9. x.at \in Working \cup {"idle"} /\ GoesOn(x, p)
  BY <1>1, <1>2, <1>3, <1>5 DEF GoesOn, Working
<1>10. /\ \A q \in Paths : RemovalLast(q)'
       /\ \A q \in Paths : (Due(q)' <=> Due(q)) /\ (Loads(q)' <=> Loads(q)) /\ Started(q)' = Started(q)
  BY <1>1, EventsKept
<1>11. GroupsOf(p)' = GroupsOf(p) /\ (Stopped(p)' <=> Stopped(p))
  BY <1>1 DEF GroupsOf, Stopped
<1>12. OnlyOf(p)
  <2>1. \A q \in Paths \ {p} : SameGroups(q)
    BY <1>1, <1>7 DEF SameGroups, GroupsOf
  <2> QED
    BY <1>1, <1>10, <2>1 DEF OnlyOf
<1>13. ASSUME p \notin ghost'.overlap PROVE InHand(p)' /\ (p \notin ghost'.missed => UpToDate(p)')
  <2>1. p \in Paths \ ghost.overlap
    BY <1>1, <1>13
  <2>2. Became(t, x, p)
    BY <1>6, <1>9, <2>1, BecameAlone
  <2>3. /\ Stopped(p) /\ OneLive(p) /\ threads[t].op # "disable"
        /\ p \notin ghost.missed => Due(p) \/ Fits(p, threads[t].group)
    BY <1>1, <1>6, <2>1, WorksAlone
  <2>4. OneLive(p)' /\ LiveFits(p)' /\ Stopped(p)'
    BY <1>1, <1>11, <2>3 DEF OneLive, LiveFits, Stopped
  <2>5. InHand(p)'
    BY <1>5, <1>7, <2>2, <2>3, <2>4, InHandAfter
  <2>6. ASSUME p \notin ghost'.missed PROVE UpToDate(p)'
    <3>1. CASE Due(p)
      BY <1>10, <3>1 DEF UpToDate
    <3>2. CASE Fits(p, threads[t].group)
      <4>1. Fits(p, x.group)'
        BY <1>1, <1>5, <1>10, <3>2 DEF Fits
      <4> QED
        BY <1>5, <1>9, <2>2, <2>4, <4>1, UpToDateAfter DEF Working
    <3> QED
      BY <1>1, <2>3, <2>6, <3>1, <3>2
  <2> QED
    BY <2>5, <2>6
<1>14. runners'[p] # 0 => runners'[p] \in DOMAIN groups' /\ groups'[runners'[p]].path = p
  BY <1>1, <1>2, <1>3, <1>5, <1>7
<1> QED
  BY <1>2, <1>6, <1>8, <1>9, <1>10, <1>12, <1>13, <1>14, PathStep

LEMMA StartRunnerKeeps ==
  ASSUME ManagerInv, NEW t \in Goroutines, StartRunner(t)
  PROVE  ManagerInv'
<1>1. threads[t].at = "run" /\ UNCHANGED <<cfgFiles, fileEvents, runners, featuresCache, watching, ghost>>
  BY DEF StartRunner
<1>2. /\ threads[t] \in Thread /\ threads[t].path \in Paths /\ threads.watch.at \notin {"new", "watch"}
      /\ threads[t].group \in DOMAIN groups /\ groups[threads[t].group].path = threads[t].path
  BY <1>1, Worker DEF Working
<1>3. PICK p \in Paths : p = threads[t].path
  BY <1>2
<1>4. PICK g \in DOMAIN groups : g = threads[t].group
  BY <1>2
<1>5. threads' = [threads EXCEPT ![t] = Idle] /\ StartGroup(g) /\ Busy(t, p)
  BY <1>1, <1>3, <1>4 DEF StartRunner, Busy, Working
<1>6. ManagerTypeOK /\ OwnGroups
  BY DEF ManagerInv
<1>7. /\ groups' \in Seq(Group) /\ DOMAIN groups' = DOMAIN groups
      /\ \A h \in DOMAIN groups : h # g => groups'[h] = groups[h]
      /\ groups'[g].path = p /\ groups[g].path = p /\ groups'[g].ohis = groups[g].ohis
      /\ groups'[g].live <=> groups[g].ohis # {}
      /\ groups'[g].lost <=> groups[g].lost \/ groups[g].live
      /\ groups'[g].cancel <=> groups[g].cancel \/ groups[g].ohis # {}
  BY <1>2, <1>3, <1>4, <1>5, <1>6, StartGroupDoes
<1>8. ManagerTypeOK'
  <2>1. threads' \in [watch : Thread, cc : Thread]
    BY <1>5, <1>6, IdleType, ThreadsType
  <2> QED
    BY <1>1, <1>6, <1>7, <2>1 DEF ManagerTypeOK
<1>9. Idle.at \in Working \cup {"idle"} /\ GoesOn(Idle, p)
  BY IdleType DEF GoesOn
<1>10. /\ \A q \in Paths : RemovalLast(q)'
       /\ \A q \in Paths : (Due(q)' <=> Due(q)) /\ (Loads(q)' <=> Loads(q)) /\ Started(q)' = Started(q)
  BY <1>1, EventsKept
<1>11. \A h \in DOMAIN groups : groups'[h].path = groups[h].path
  BY <1>7
<1>12. \A q \in Paths : GroupsOf(q)' = GroupsOf(q)
  BY <1>7, <1>11 DEF GroupsOf
<1>13. OnlyOf(p)
  <2>1. ASSUME NEW q \in Paths \ {p} PROVE SameGroups(q)
    <3>1. \A h \in GroupsOf(q) : groups'[h] = groups[h]
      BY <1>7 DEF GroupsOf
    <3> QED
      BY <1>1, <1>12, <3>1 DEF SameGroups
  <2> QED
    BY <1>1, <1>7, <1>10, <1>11, <2>1 DEF OnlyOf
<1>14. ASSUME p \notin ghost'.overlap PROVE InHand(p)' /\ (p \notin ghost'.missed => UpToDate(p)')
  <2>1. p \in Paths \ ghost.overlap
    BY <1>1, <1>14
  <2>2. Became(t, Idle, p)
    BY <1>5, <1>9, <2>1, BecameAlone
  <2>3. /\ Stopped(p) /\ OneLive(p) /\ runners[p] = g
        /\ p \notin ghost.missed => Due(p) \/ Fits(p, g)
    BY <1>1, <1>4, <1>5, <2>1, WorksAlone
  <2>4. g \in GroupsOf(p) /\ ~groups[g].live /\ ~groups[g].lost
    BY <1>7, <2>3 DEF GroupsOf, Stopped, OneLive
  <2>5. \A h \in GroupsOf(p) : h # g => ~groups'[h].live /\ ~groups'[h].lost
    BY <1>7, <2>3 DEF GroupsOf, Stopped, OneLive
  <2>6. OneLive(p)'
    <3> SUFFICES ASSUME NEW h \in GroupsOf(p)
                 PROVE  ~groups'[h].lost /\ (groups'[h].live => h = runners'[p] /\ groups'[h].cancel)
      BY <1>12 DEF OneLive
    <3>1. CASE h = g
      BY <1>1, <1>7, <2>3, <2>4, <3>1
    <3>2. CASE h # g
      BY <2>5, <3>2
    <3> QED
      BY <3>1, <3>2
  <2>7. InHand(p)'
    BY <2>2, <2>6, IdleType, InHandAfter DEF Working
  <2>8. ASSUME p \notin ghost'.missed PROVE UpToDate(p)'
    <3>1. CASE Due(p)
      BY <1>10, <3>1 DEF UpToDate
    <3>2. CASE Fits(p, g)
      <4>1. Fits(p, g)'
        BY <1>7, <1>10, <3>2 DEF Fits
      <4>2. LiveFits(p)'
        BY <1>12, <2>5, <4>1 DEF LiveFits
      <4>3. Stopped(p)' => {} \in Started(p)'
        <5>1. Stopped(p)' => ~groups'[g].live
          BY <1>12, <2>4 DEF Stopped
        <5>2. Stopped(p)' => groups'[g].ohis = {}
          BY <1>7, <5>1
        <5> QED
          BY <4>1, <5>2 DEF Fits
      <4> QED
        BY <2>2, <4>2, <4>3, IdleType, UpToDateAfter
    <3> QED
      BY <1>1, <2>3, <2>8, <3>1, <3>2
  <2> QED
    BY <2>7, <2>8
<1>15. runners'[p] # 0 => runners'[p] \in DOMAIN groups' /\ groups'[runners'[p]].path = p
  BY <1>1, <1>6, <1>7, <1>11, ZenonT(40) DEF OwnGroups
<1> QED
  BY <1>2, <1>5, <1>8, <1>9, <1>10, <1>13, <1>14, <1>15, PathStep

\* The file does not load: the goroutine is done.
LEMMA LoadFails ==
  ASSUME ManagerInv, NEW t \in Goroutines, LoadRunnerGroup(t), ~Loads(threads[t].path)
  PROVE  ManagerInv'
<1>1. /\ threads[t].at = "load" /\ threads' = [threads EXCEPT ![t] = Idle]
      /\ UNCHANGED <<cfgFiles, fileEvents, runners, groups, featuresCache, watching, ghost>>
  BY DEF LoadRunnerGroup
<1>2. threads[t].path \in Paths /\ threads.watch.at \notin {"new", "watch"}
  BY <1>1, Worker DEF Working
<1>3. PICK p \in Paths : p = threads[t].path
  BY <1>2
<1>4. Busy(t, p) /\ ManagerTypeOK /\ OwnGroups
  BY <1>1, <1>3 DEF Busy, Working, ManagerInv
<1>5. ManagerTypeOK'
  <2>1. threads' \in [watch : Thread, cc : Thread]
    BY <1>1, <1>4, IdleType, ThreadsType
  <2> QED
    BY <1>1, <1>4, <2>1 DEF ManagerTypeOK
<1>6. Idle.at \in Working \cup {"idle"} /\ GoesOn(Idle, p)
  BY IdleType DEF GoesOn
<1>7. /\ \A q \in Paths : RemovalLast(q)'
      /\ \A q \in Paths : (Due(q)' <=> Due(q)) /\ (Loads(q)' <=> Loads(q)) /\ Started(q)' = Started(q)
  BY <1>1, EventsKept
<1>8. OnlyOf(p)
  BY <1>1, <1>7 DEF OnlyOf, SameGroups, GroupsOf
<1>9. ASSUME p \notin ghost'.overlap PROVE InHand(p)' /\ UpToDate(p)'
  <2>1. p \in Paths \ ghost.overlap
    BY <1>1, <1>9
  <2>2. Became(t, Idle, p)
    BY <1>1, <1>4, <1>6, <2>1, BecameAlone
  <2>3. Stopped(p) /\ OneLive(p)
    BY <1>4, <2>1, WorksAlone
  <2>4. OneLive(p)' /\ LiveFits(p)'
    BY <1>1, <2>3 DEF OneLive, LiveFits, Stopped, GroupsOf
  <2>5. ~Loads(p)'
    BY <1>3, <1>7
  <2> QED
    BY <2>2, <2>4, <2>5, IdleType, InHandAfter, UpToDateAfter DEF Working
<1>10. runners'[p] # 0 => runners'[p] \in DOMAIN groups' /\ groups'[runners'[p]].path = p
  BY <1>1, <1>4 DEF OwnGroups
<1> QED
  BY <1>1, <1>2, <1>4, <1>5, <1>6, <1>7, <1>8, <1>9, <1>10, PathStep

LEMMA LoadMakes ==
  ASSUME ManagerInv, NEW t \in Goroutines, LoadRunnerGroup(t), Loads(threads[t].path)
  PROVE  ManagerInv'
<1>1. /\ threads[t].at = "load"
      /\ threads' = [threads EXCEPT ![t].at = "set", ![t].group = Len(groups) + 1]
      /\ groups' = Append(groups, NewGroup(threads[t].path, threads[t].cmdFF))
      /\ UpdateCache(threads[t].path)
      /\ UNCHANGED <<cfgFiles, fileEvents, runners, watching, ghost>>
  BY DEF LoadRunnerGroup
<1>2. threads[t] \in Thread /\ threads[t].path \in Paths /\ threads.watch.at \notin {"new", "watch"}
  BY <1>1, Worker DEF Working
<1>3. PICK p \in Paths : p = threads[t].path
  BY <1>2
<1>4. Busy(t, p) /\ ManagerTypeOK /\ OwnGroups /\ Loads(p)
  BY <1>1, <1>3 DEF Busy, Working, ManagerInv
<1>5. PICK c \in Features \cup {NoCmdFF} : c = threads[t].cmdFF
  BY <1>2 DEF Thread
<1>6. PICK y \in Group : y = NewGroup(p, c)
  BY <1>4, NewGroupType
<1>7. ~y.live /\ ~y.lost /\ y.path = p /\ y.ohis \in Started(p)
  BY <1>4, <1>6, NewGroupType, ZenonT(40) DEF Started
<1>8. PICK g \in Nat : /\ g = Len(groups) + 1 /\ g \notin DOMAIN groups /\ DOMAIN groups' = DOMAIN groups \cup {g}
                       /\ groups' \in Seq(Group) /\ groups'[g] = y
                       /\ \A h \in DOMAIN groups : groups'[h] = groups[h]
  <2>1. groups \in Seq(Group) /\ groups' = Append(groups, y)
    BY <1>1, <1>3, <1>4, <1>5, <1>6 DEF ManagerTypeOK
  <2> QED
    BY <2>1, SMT
<1>9. PICK x : x = [[threads[t] EXCEPT !.at = "set"] EXCEPT !.group = g]
  OBVIOUS
<1>10. x \in Thread /\ x.at = "set" /\ x.path = p /\ x.group = g /\ x.op = threads[t].op
  BY <1>2, <1>3, <1>9 DEF Thread
<1>11. threads' = [threads EXCEPT ![t] = x]
  <2>1. DOMAIN threads = Goroutines
    BY <1>4, ThreadFields
  <2> QED
    BY <1>1, <1>2, <1>8, <1>9, <2>1 DEF Thread
<1>12. ManagerTypeOK'
  <2>1. threads' \in [watch : Thread, cc : Thread]
    BY <1>4, <1>10, <1>11, ThreadsType
  <2>2. featuresCache' \in [Features -> Paths \cup {0}]
    BY <1>1, <1>3, <1>4 DEF UpdateCache, ManagerTypeOK
  <2> QED
    BY <1>1, <1>4, <1>8, <2>1, <2>2 DEF ManagerTypeOK
<1>13. x.at \in Working \cup {"idle"} /\ GoesOn(x, p)
  BY <1>7, <1>8, <1>10 DEF GoesOn, Working
<1>14. /\ \A q \in Paths : RemovalLast(q)'
       /\ \A q \in Paths : (Due(q)' <=> Due(q)) /\ (Loads(q)' <=> Loads(q)) /\ Started(q)' = Started(q)
  BY <1>1, EventsKept
<1>15. \A q \in Paths : GroupsOf(q)' = IF q = p THEN GroupsOf(q) \cup {g} ELSE GroupsOf(q)
  BY <1>7, <1>8 DEF GroupsOf
<1>16. OnlyOf(p)
  <2>1. ASSUME NEW q \in Paths \ {p} PROVE SameGroups(q)
    <3>1. \A h \in GroupsOf(q) : groups'[h] = groups[h]
      BY <1>8 DEF GroupsOf
    <3> QED
      BY <1>1, <1>15, <3>1 DEF SameGroups
  <2> QED
    BY <1>1, <1>8, <1>14, <2>1 DEF OnlyOf
<1>17. ASSUME p \notin ghost'.overlap PROVE InHand(p)' /\ UpToDate(p)'
  <2>1. p \in Paths \ ghost.overlap
    BY <1>1, <1>17
  <2>2. Became(t, x, p)
    BY <1>4, <1>11, <1>13, <2>1, BecameAlone
  <2>3. Stopped(p) /\ OneLive(p) /\ threads[t].op # "disable"
    BY <1>1, <1>4, <2>1, WorksAlone
  <2>4. \A h \in GroupsOf(p)' : ~groups'[h].live /\ ~groups'[h].lost
    <3>1. \A h \in GroupsOf(p) : ~groups'[h].live /\ ~groups'[h].lost
      BY <1>8, <2>3 DEF GroupsOf, Stopped, OneLive
    <3> QED
      BY <1>7, <1>8, <1>15, <3>1
  <2>5. OneLive(p)' /\ LiveFits(p)' /\ Stopped(p)'
    BY <2>4 DEF OneLive, LiveFits, Stopped
  <2>6. InHand(p)'
    BY <1>10, <2>2, <2>3, <2>5, InHandAfter
  <2>7. Fits(p, x.group)'
    BY <1>4, <1>7, <1>8, <1>10, <1>14 DEF Fits
  <2>8. UpToDate(p)'
    BY <1>10, <2>2, <2>5, <2>7, UpToDateAfter DEF Working
  <2> QED
    BY <2>6, <2>8
<1>18. runners'[p] # 0 => runners'[p] \in DOMAIN groups' /\ groups'[runners'[p]].path = p
  BY <1>1, <1>4, <1>8 DEF OwnGroups
<1> QED
  BY <1>2, <1>4, <1>11, <1>12, <1>13, <1>14, <1>16, <1>17, <1>18, PathStep

-----------------------------------------------------------------------------
(* File events and feature flags                                            *)

\* A goroutine that begins to work on p meets no other.
LEMMA BeginsAlone ==
  ASSUME ManagerInv, NEW t \in Goroutines, threads[t].at = "idle", NEW p \in Paths, ~Overlapping(t, p),
         NEW x, x.at \in Working \cup {"idle"}, threads' = [threads EXCEPT ![t] = x]
  PROVE  Became(t, x, p)
<1>1. DOMAIN threads = Goroutines
  BY ThreadFields DEF ManagerInv
<1>2. \A u \in Goroutines \ {t} : threads[u].path # p /\ threads[u].at \notin Starting
  BY <1>1 DEF Overlapping, Others, Starting
<1>3. threads'["watch"].at \notin Starting
  <2>1. CASE t = "watch"
    BY <1>1, <2>1 DEF Goroutines, Working, Starting
  <2>2. CASE t # "watch"
    BY <1>1, <1>2, <2>2 DEF Goroutines
  <2> QED
    BY <2>1, <2>2
<1> QED
  BY <1>1, <1>2, <1>3 DEF Became, Busy

\* A path whose group does not run has nothing that runs.
LEMMA NotRunning ==
  ASSUME ManagerInv, NEW p \in Paths \ ghost.overlap, ~isGroupRunning(p)
  PROVE  Stopped(p) /\ OneLive(p)
<1>1. OneLive(p) /\ 0 \notin DOMAIN groups
  BY GroupFields DEF ManagerInv, InHand
<1>2. ASSUME NEW g \in GroupsOf(p), groups[g].live PROVE FALSE
  <2>1. g = runners[p] /\ groups[g].cancel /\ g \in DOMAIN groups
    BY <1>1, <1>2 DEF OneLive, GroupsOf
  <2> QED
    BY <1>1, <2>1 DEF isGroupRunning
<1> QED
  BY <1>1, <1>2 DEF Stopped

\* The cancellation of stopRunnerGroup, for a file event or a flag.
Begins(t, p) ==
  /\ ghost.overlap \subseteq ghost'.overlap /\ (p \notin ghost'.overlap => ~Overlapping(t, p))
  /\ ghost' \in [overlap : SUBSET Paths, missed : SUBSET Paths, disabled : SUBSET Paths,
                 changes : Nat, requests : Nat]
  /\ \A q \in Paths \ {p} : /\ q \in ghost.missed => q \in ghost'.missed
                            /\ q \in ghost'.disabled <=> q \in ghost.disabled
  /\ fileEvents' \in Seq(Event)
  /\ \A q \in Paths : Due(q) => q = p \/ Due(q)'

LEMMA StopKeeps ==
  ASSUME ManagerInv, NEW t \in Goroutines, threads[t].at = "idle", threads.watch.at \notin {"new", "watch"},
         NEW p \in Paths, NEW y \in Thread, y.path = p, StopRunnerGroup(t, y), Begins(t, p),
         UNCHANGED <<cfgFiles, runners, featuresCache, watching>>,
         \A q \in Paths : RemovalLast(q)', y.op = "disable" => p \in ghost'.disabled
  PROVE  ManagerInv'
<1>1. ManagerTypeOK /\ OwnGroups
  BY DEF ManagerInv
<1>2. /\ groups' \in Seq(Group) /\ DOMAIN groups' = DOMAIN groups
      /\ \A h \in DOMAIN groups : groups'[h].path = groups[h].path
      /\ \A h \in DOMAIN groups : groups[h].path # p => groups'[h] = groups[h]
      /\ p \notin ghost.overlap => \A h \in GroupsOf(p) : ~groups'[h].live /\ ~groups'[h].lost
  <2>1. CASE isGroupRunning(p)
    <3>1. PICK g \in DOMAIN groups : g = runners[p] /\ groups[g].path = p
      BY <1>1, <2>1 DEF isGroupRunning, OwnGroups
    <3>2. StopGroup(g)
      BY <2>1, <3>1 DEF StopRunnerGroup
    <3>3. /\ groups' \in Seq(Group) /\ DOMAIN groups' = DOMAIN groups
          /\ \A h \in DOMAIN groups : h # g => groups'[h] = groups[h]
          /\ groups'[g].path = groups[g].path /\ ~groups'[g].live /\ groups'[g].lost = groups[g].lost
      BY <1>1, <3>2, StopGroupDoes
    <3>4. ASSUME p \notin ghost.overlap, NEW h \in GroupsOf(p) PROVE ~groups'[h].live /\ ~groups'[h].lost
      <4>1. OneLive(p)
        BY <3>4 DEF ManagerInv, InHand
      <4>2. CASE h = g
        BY <3>3, <4>1, <4>2 DEF OneLive
      <4>3. CASE h # g
        BY <3>1, <3>3, <4>1, <4>3 DEF OneLive, GroupsOf
      <4> QED
        BY <4>2, <4>3
    <3> QED
      BY <3>1, <3>3, <3>4
  <2>2. CASE ~isGroupRunning(p)
    <3>1. groups' = groups
      BY <2>2 DEF StopRunnerGroup
    <3>2. p \notin ghost.overlap => Stopped(p) /\ OneLive(p)
      BY <2>2, NotRunning
    <3> QED
      BY <1>1, <3>1, <3>2 DEF ManagerTypeOK, Stopped, OneLive
  <2> QED
    BY <2>1, <2>2
<1>3. \E x \in Thread :
        /\ threads' = [threads EXCEPT ![t] = x]
        /\ \/ x = Idle /\ (y.op = "disable" \/ (y.op = "remove" /\ cfgFiles[p] = Absent))
           \/ x.at = "load" /\ x.path = p /\ x.op # "disable"
           \/ x.at = "remove" /\ x.path = p /\ x.op = y.op
  <2>1. CASE isGroupRunning(p)
    <3> DEFINE x == [y EXCEPT !.at = "remove"]
    <3>1. threads' = [threads EXCEPT ![t] = x]
      BY <2>1 DEF StopRunnerGroup
    <3>2. x \in Thread /\ x.at = "remove" /\ x.path = p /\ x.op = y.op
      BY DEF Thread
    <3> QED
      BY <3>1, <3>2
  <2>2. CASE ~isGroupRunning(p)
    <3>1. threads' = [threads EXCEPT ![t] = AfterStop(y)]
      BY <2>2 DEF StopRunnerGroup
    <3> QED
      BY <3>1, AfterStopDoes
  <2> QED
    BY <2>1, <2>2
<1>4. PICK x \in Thread :
        /\ threads' = [threads EXCEPT ![t] = x]
        /\ \/ x = Idle /\ (y.op = "disable" \/ (y.op = "remove" /\ cfgFiles[p] = Absent))
           \/ x.at = "load" /\ x.path = p /\ x.op # "disable"
           \/ x.at = "remove" /\ x.path = p /\ x.op = y.op
  BY <1>3
<1>5. ManagerTypeOK'
  <2>1. threads' \in [watch : Thread, cc : Thread]
    BY <1>1, <1>4, ThreadsType
  <2> QED
    BY <1>1, <1>2, <2>1 DEF ManagerTypeOK, Begins
<1>6. x.at \in Working \cup {"idle"} /\ GoesOn(x, p)
  BY <1>4, IdleType DEF GoesOn, Working
<1>7. \A q \in Paths : GroupsOf(q)' = GroupsOf(q)
  BY <1>2 DEF GroupsOf
<1>8. OnlyOf(p)
  <2>1. ASSUME NEW q \in Paths \ {p} PROVE SameGroups(q)
    <3>1. \A h \in GroupsOf(q) : groups'[h] = groups[h]
      BY <1>2 DEF GroupsOf
    <3> QED
      BY <1>7, <3>1 DEF SameGroups
  <2> QED
    BY <1>2, <2>1 DEF OnlyOf, Begins
<1>9. ASSUME p \notin ghost'.overlap PROVE InHand(p)' /\ UpToDate(p)'
  <2>1. p \notin ghost.overlap /\ ~Overlapping(t, p)
    BY <1>9 DEF Begins
  <2>2. Became(t, x, p)
    BY <1>4, <1>6, <2>1, BeginsAlone
  <2>3. OneLive(p)' /\ LiveFits(p)' /\ Stopped(p)'
    BY <1>2, <1>7, <2>1 DEF OneLive, LiveFits, Stopped
  <2>4. InHand(p)'
    BY <1>4, <2>2, <2>3, IdleType, InHandAfter DEF Working
  <2>5. x = Idle => p \in ghost'.disabled \/ ~Loads(p)'
    BY <1>4, IdleType DEF Loads
  <2>6. UpToDate(p)'
    BY <1>4, <2>2, <2>3, <2>5, IdleType, UpToDateAfter DEF Working
  <2> QED
    BY <2>4, <2>6
<1>10. runners'[p] # 0 => runners'[p] \in DOMAIN groups' /\ groups'[runners'[p]].path = p
  BY <1>1, <1>2 DEF OwnGroups
<1> QED
  BY <1>4, <1>5, <1>6, <1>8, <1>9, <1>10, PathStep

\* A step of the files and their events only.
LEMMA EventStep ==
  ASSUME ManagerInv, ManagerTypeOK', UNCHANGED <<groups, runners, threads, watching>>,
         ghost'.overlap = ghost.overlap, ghost'.missed = ghost.missed, ghost'.disabled = ghost.disabled,
         \A q \in Paths : RemovalLast(q)', threads.watch.at \in {"new", "watch"} => fileEvents' = <<>>,
         threads.watch.at \notin {"new", "watch"} =>
           \A q \in Paths : Due(q)' \/ (~Due(q) /\ cfgFiles'[q] = cfgFiles[q])
  PROVE  ManagerInv'
<1>1. ManagerTypeOK /\ Phases /\ OwnGroups
  BY DEF ManagerInv
<1>2. Phases' /\ OwnGroups'
  BY <1>1 DEF Phases, OwnGroups
<1>3. ASSUME NEW q \in Paths PROVE Untouched(q)
  BY DEF Untouched, SameWork, SamePhase, SameGroups, Busy, GroupsOf
<1>4. ASSUME NEW q \in Paths \ ghost'.overlap PROVE InHand(q)'
  BY <1>3, UntouchedInHand DEF ManagerInv
<1>5. ASSUME threads'.watch.at \notin {"new", "watch"}, NEW q \in Paths \ (ghost'.overlap \cup ghost'.missed)
      PROVE  UpToDate(q)'
  <2>1. CASE Due(q)'
    BY <2>1 DEF UpToDate
  <2>2. CASE ~Due(q)'
    <3>1. cfgFiles'[q] = cfgFiles[q] /\ ~Due(q)
      BY <1>5, <2>2
    <3>2. UpToDate(q) /\ Untouched(q)
      BY <1>3, <1>5 DEF ManagerInv
    <3> QED
      BY <1>1, <3>1, <3>2, UntouchedUpToDate
  <2> QED
    BY <2>1, <2>2
<1> QED
  BY <1>2, <1>4, <1>5 DEF ManagerInv

LEMMA FileChangesKeeps ==
  ASSUME ManagerInv, NEW p \in Paths, NEW content \in Contents, NEW replaced \in BOOLEAN,
         FileChanges(p, content, replaced)
  PROVE  ManagerInv'
<1>1. /\ cfgFiles' = [cfgFiles EXCEPT ![p] = content] /\ UNCHANGED <<groups, runners, featuresCache, threads, watching>>
      /\ ghost' = [ghost EXCEPT !.changes = @ + 1] /\ (replaced => content # Absent)
  BY DEF FileChanges
<1>2. ManagerTypeOK /\ Phases
  BY DEF ManagerInv
<1>3. /\ ghost'.overlap = ghost.overlap /\ ghost'.missed = ghost.missed /\ ghost'.disabled = ghost.disabled
      /\ ghost' \in [overlap : SUBSET Paths, missed : SUBSET Paths, disabled : SUBSET Paths,
                     changes : Nat, requests : Nat]
  <2>1. ghost.changes \in Nat /\ ghost.changes + 1 \in Nat
    BY <1>2, SMT DEF ManagerTypeOK
  <2>2. ghost' = [ghost EXCEPT !.changes = ghost.changes + 1]
    BY <1>1
  <2> QED
    BY <1>2, <2>1, <2>2 DEF ManagerTypeOK
<1>4. cfgFiles' \in [Paths -> Contents] /\ cfgFiles'[p] = content /\ \A q \in Paths \ {p} : cfgFiles'[q] = cfgFiles[q]
  BY <1>1, <1>2 DEF ManagerTypeOK
<1>5. CASE ~watching[p]
  <2>1. fileEvents' = fileEvents /\ threads.watch.at \in {"new", "watch"} /\ fileEvents = <<>>
    BY <1>2, <1>5 DEF FileChanges, Phases
  <2>2. ManagerTypeOK'
    BY <1>1, <1>2, <1>3, <1>4, <2>1 DEF ManagerTypeOK
  <2>3. DOMAIN fileEvents' = {}
    BY <2>1, SMT
  <2>4. \A q \in Paths : RemovalLast(q)'
    BY <2>3 DEF RemovalLast
  <2> QED
    BY <1>1, <1>3, <2>1, <2>2, <2>4, EventStep
<1>6. CASE watching[p]
  <2> DEFINE o == IF replaced \/ content = Absent THEN "remove"
                  ELSE IF cfgFiles[p] = Absent THEN "create" ELSE "write"
             e == [path |-> p, op |-> o]
             n == Len(fileEvents) + 1
  <2>1. fileEvents' = Append(fileEvents, e)
    BY <1>6 DEF FileChanges
  <2>2. e \in Event /\ e.path = p /\ (content = Absent => e.op = "remove")
    BY DEF Event
  <2> HIDE DEF e, o
  <2>3. /\ fileEvents' \in Seq(Event) /\ DOMAIN fileEvents' = DOMAIN fileEvents \cup {n}
        /\ fileEvents'[n] = e /\ (\A i \in DOMAIN fileEvents : fileEvents'[i] = fileEvents[i] /\ i < n)
    BY <1>2, <2>1, <2>2, SMT DEF ManagerTypeOK
  <2> HIDE DEF n
  <2>4. ManagerTypeOK'
    BY <1>1, <1>2, <1>3, <1>4, <2>3 DEF ManagerTypeOK
  <2>5. threads.watch.at \notin {"new", "watch"}
    BY <1>2, <1>6 DEF Phases
  <2>6. Due(p)' /\ \A q \in Paths : Due(q) => Due(q)'
    BY <2>2, <2>3 DEF Due
  <2>7. ASSUME NEW q \in Paths PROVE RemovalLast(q)'
    <3> SUFFICES ASSUME cfgFiles'[q] = Absent, NEW i \in DOMAIN fileEvents',
                        fileEvents'[i].path = q, fileEvents'[i].op # "remove"
                 PROVE  \E j \in DOMAIN fileEvents' :
                          i < j /\ fileEvents'[j].path = q /\ fileEvents'[j].op = "remove"
      BY DEF RemovalLast
    <3>1. CASE q = p
      <4>1. e.op = "remove"
        BY <1>4, <2>2, <3>1
      <4>2. i \in DOMAIN fileEvents
        BY <2>3, <4>1
      <4> QED
        BY <2>2, <2>3, <3>1, <4>1, <4>2
    <3>2. CASE q # p
      <4>1. i \in DOMAIN fileEvents /\ fileEvents'[i] = fileEvents[i] /\ cfgFiles[q] = Absent
        BY <1>4, <2>2, <2>3, <3>2
      <4>2. RemovalLast(q)
        BY DEF ManagerInv
      <4>3. PICK j \in DOMAIN fileEvents : i < j /\ fileEvents[j].path = q /\ fileEvents[j].op = "remove"
        BY <4>1, <4>2 DEF RemovalLast
      <4> QED
        BY <2>3, <4>3
    <3> QED
      BY <3>1, <3>2
  <2>8. \A q \in Paths : Due(q)' \/ (~Due(q) /\ cfgFiles'[q] = cfgFiles[q])
    BY <1>4, <2>6
  <2> QED
    BY <1>1, <1>3, <2>4, <2>5, <2>7, <2>8, EventStep
<1> QED
  BY <1>5, <1>6

\* The first event is taken.
LEMMA TailEvents ==
  ASSUME ManagerInv, fileEvents # <<>>, fileEvents' = Tail(fileEvents), cfgFiles' = cfgFiles,
         NEW e, e = Head(fileEvents)
  PROVE  /\ e \in Event /\ fileEvents' \in Seq(Event)
         /\ \A q \in Paths : Due(q) => q = e.path \/ Due(q)'
         /\ \A q \in Paths : RemovalLast(q)'
         /\ e.op # "remove" /\ cfgFiles[e.path] = Absent => Due(e.path)'
<1> DEFINE s == Tail(fileEvents)
<1>1. fileEvents \in Seq(Event)
  BY DEF ManagerInv, ManagerTypeOK
<1>2. /\ e = fileEvents[1] /\ e \in Event /\ 1 \in DOMAIN fileEvents /\ s \in Seq(Event)
      /\ \A i \in DOMAIN s : i + 1 \in DOMAIN fileEvents /\ s[i] = fileEvents[i + 1]
      /\ \A i \in DOMAIN fileEvents \ {1} : i - 1 \in DOMAIN s /\ s[i - 1] = fileEvents[i]
      /\ \A i \in DOMAIN s : \A j \in DOMAIN fileEvents : i + 1 < j => j # 1 /\ i < j - 1
      /\ \A j \in DOMAIN fileEvents : 1 < j => j # 1
  BY <1>1, SMT
<1>3. fileEvents' = s
  OBVIOUS
<1> HIDE DEF s
<1>4. ASSUME NEW q \in Paths, Due(q), q # e.path PROVE Due(q)'
  <2>1. PICK i \in DOMAIN fileEvents : fileEvents[i].path = q
    BY <1>4 DEF Due
  <2>2. i # 1
    BY <1>2, <1>4, <2>1
  <2>3. i - 1 \in DOMAIN s /\ s[i - 1].path = q
    BY <1>2, <2>1, <2>2
  <2> QED
    BY <1>3, <2>3 DEF Due
<1>5. ASSUME NEW q \in Paths PROVE RemovalLast(q)'
  <2> SUFFICES ASSUME cfgFiles[q] = Absent, NEW i \in DOMAIN s, s[i].path = q, s[i].op # "remove"
               PROVE  \E j \in DOMAIN s : i < j /\ s[j].path = q /\ s[j].op = "remove"
    BY <1>3 DEF RemovalLast
  <2>1. RemovalLast(q)
    BY DEF ManagerInv
  <2>2. i + 1 \in DOMAIN fileEvents /\ fileEvents[i + 1] = s[i]
    BY <1>2
  <2>3. PICK j \in DOMAIN fileEvents : i + 1 < j /\ fileEvents[j].path = q /\ fileEvents[j].op = "remove"
    BY <2>1, <2>2 DEF RemovalLast
  <2>4. j # 1 /\ i < j - 1 /\ j - 1 \in DOMAIN s /\ s[j - 1] = fileEvents[j]
    BY <1>2, <2>3
  <2> QED
    BY <2>3, <2>4
<1>6. ASSUME e.op # "remove", cfgFiles[e.path] = Absent PROVE Due(e.path)'
  <2>1. PICK q \in Paths : q = e.path
    BY <1>2 DEF Event
  <2>2. RemovalLast(q)
    BY DEF ManagerInv
  <2>3. PICK j \in DOMAIN fileEvents : 1 < j /\ fileEvents[j].path = q /\ fileEvents[j].op = "remove"
    BY <1>2, <1>6, <2>1, <2>2 DEF RemovalLast
  <2>4. j - 1 \in DOMAIN s /\ s[j - 1] = fileEvents[j]
    BY <1>2, <2>3
  <2> QED
    BY <1>3, <2>1, <2>3, <2>4 DEF Due
<1> QED
  BY <1>2, <1>3, <1>4, <1>5, <1>6

LEMMA HandleFileEventKeeps ==
  ASSUME ManagerInv, HandleFileEvent
  PROVE  ManagerInv'
<1>1. /\ threads.watch.at = "idle" /\ fileEvents # <<>> /\ fileEvents' = Tail(fileEvents)
      /\ UNCHANGED <<cfgFiles, runners, featuresCache, watching>>
  BY DEF HandleFileEvent
<1>2. PICK e : e = Head(fileEvents)
  OBVIOUS
<1>3. /\ e \in Event /\ fileEvents' \in Seq(Event)
      /\ \A q \in Paths : Due(q) => q = e.path \/ Due(q)'
      /\ \A q \in Paths : RemovalLast(q)'
      /\ e.op # "remove" /\ cfgFiles[e.path] = Absent => Due(e.path)'
  BY <1>1, <1>2, TailEvents
<1>4. ManagerTypeOK
  BY DEF ManagerInv
<1>5. CASE e.op # "remove" /\ cfgFiles[e.path] = Absent
  <2>1. UNCHANGED <<groups, threads, ghost>>
    BY <1>2, <1>5 DEF HandleFileEvent
  <2>2. ManagerTypeOK'
    BY <1>1, <1>3, <1>4, <2>1 DEF ManagerTypeOK
  <2>3. \A q \in Paths : Due(q)' \/ (~Due(q) /\ cfgFiles'[q] = cfgFiles[q])
    BY <1>1, <1>3, <1>5
  <2> QED
    BY <1>1, <1>3, <2>1, <2>2, <2>3, EventStep
<1>6. CASE ~(e.op # "remove" /\ cfgFiles[e.path] = Absent)
  <2>1. PICK p \in Paths : p = e.path
    BY <1>3 DEF Event
  <2>2. PICK y : y = [[Idle EXCEPT !.op = e.op] EXCEPT !.path = p]
    OBVIOUS
  <2>3. y \in Thread /\ y.path = p /\ y.op = e.op
    BY <1>3, <2>2, IdleType DEF Thread, Event, Operation
  <2>4. /\ StopRunnerGroup("watch", y)
        /\ ghost' = [ghost EXCEPT !.overlap = Noted("watch", p), !.missed = ghost.missed \ {p},
                                  !.disabled = ghost.disabled \ {p}]
    BY <1>2, <1>4, <1>6, <2>1, <2>2 DEF HandleFileEvent, ManagerTypeOK, Idle
  <2>5. /\ ghost'.overlap = Noted("watch", p) /\ ghost'.missed = ghost.missed \ {p}
        /\ ghost'.disabled = ghost.disabled \ {p}
        /\ ghost'.changes = ghost.changes /\ ghost'.requests = ghost.requests
    BY <1>4, <2>4 DEF ManagerTypeOK
  <2>6. /\ ghost.overlap \subseteq ghost'.overlap /\ ghost'.overlap \subseteq Paths
        /\ p \notin ghost'.overlap => ~Overlapping("watch", p)
    BY <1>4, <2>5 DEF Noted, ManagerTypeOK
  <2>7. ghost' \in [overlap : SUBSET Paths, missed : SUBSET Paths, disabled : SUBSET Paths,
                    changes : Nat, requests : Nat]
    BY <1>4, <2>4, <2>5, <2>6 DEF ManagerTypeOK
  <2>8. Begins("watch", p)
    BY <1>3, <2>1, <2>5, <2>6, <2>7 DEF Begins
  <2>9. y.op # "disable"
    BY <1>3, <2>3 DEF Event
  <2>10. "watch" \in Goroutines
    BY DEF Goroutines
  <2> QED
    BY <1>1, <1>3, <2>3, <2>4, <2>8, <2>9, <2>10, StopKeeps
<1> QED
  BY <1>5, <1>6

\* A flag is for a path that is known.
LEMMA HandlesPath ==
  ASSUME ManagerInv, NEW f \in Features, Handles(f)
  PROVE  /\ threads["cc"].at = "idle" /\ threads.watch.at \notin {"new", "watch"} /\ featuresCache[f] \in Paths
         /\ ghost.requests + 1 \in Nat /\ "cc" \in Goroutines
<1>1. featuresCache[f] \in Paths \cup {0} /\ ghost.requests \in Nat
  BY DEF ManagerInv, ManagerTypeOK
<1>2. ghost.requests + 1 \in Nat
  BY <1>1, SMT
<1> QED
  BY <1>1, <1>2 DEF Handles, Goroutines

LEMMA DisableKeeps ==
  ASSUME ManagerInv, NEW f \in Features, DisableOHIFromFF(f)
  PROVE  ManagerInv'
<1>1. /\ threads["cc"].at = "idle" /\ threads.watch.at \notin {"new", "watch"} /\ featuresCache[f] \in Paths
      /\ ghost.requests + 1 \in Nat /\ "cc" \in Goroutines
      /\ UNCHANGED <<cfgFiles, fileEvents, runners, featuresCache, watching>>
  BY HandlesPath DEF DisableOHIFromFF
<1>2. PICK p \in Paths : p = featuresCache[f]
  BY <1>1
<1>3. PICK y : y = [[Idle EXCEPT !.op = "disable"] EXCEPT !.path = p]
  OBVIOUS
<1>4. y \in Thread /\ y.path = p /\ y.op = "disable"
  BY <1>3, IdleType DEF Thread, Operation
<1>5. ManagerTypeOK
  BY DEF ManagerInv
<1>6. /\ StopRunnerGroup("cc", y)
      /\ ghost' = [ghost EXCEPT !.requests = ghost.requests + 1, !.disabled = ghost.disabled \cup {p},
                                !.overlap = Noted("cc", p)]
  BY <1>2, <1>3, <1>5 DEF DisableOHIFromFF, ManagerTypeOK, Idle
<1>7. /\ ghost'.overlap = Noted("cc", p) /\ ghost'.missed = ghost.missed
      /\ ghost'.disabled = ghost.disabled \cup {p}
      /\ ghost'.changes = ghost.changes /\ ghost'.requests = ghost.requests + 1
  BY <1>5, <1>6 DEF ManagerTypeOK
<1>8. /\ ghost.overlap \subseteq ghost'.overlap /\ ghost'.overlap \subseteq Paths
      /\ p \notin ghost'.overlap => ~Overlapping("cc", p)
  BY <1>5, <1>7 DEF Noted, ManagerTypeOK
<1>9. ghost' \in [overlap : SUBSET Paths, missed : SUBSET Paths, disabled : SUBSET Paths,
                  changes : Nat, requests : Nat]
  BY <1>1, <1>5, <1>6, <1>7, <1>8 DEF ManagerTypeOK
<1>10. (\A q \in Paths : RemovalLast(q)') /\ (\A q \in Paths : Due(q)' <=> Due(q))
  BY <1>1, EventsKept
<1>11. Begins("cc", p)
  BY <1>1, <1>5, <1>7, <1>8, <1>9, <1>10 DEF Begins, ManagerTypeOK
<1>12. p \in ghost'.disabled
  BY <1>7
<1> QED
  BY <1>1, <1>4, <1>6, <1>10, <1>11, <1>12, StopKeeps

LEMMA EnableKeeps ==
  ASSUME ManagerInv, NEW f \in Features, EnableOHIFromFF(f)
  PROVE  ManagerInv'
<1>1. /\ threads["cc"].at = "idle" /\ threads.watch.at \notin {"new", "watch"} /\ featuresCache[f] \in Paths
      /\ ghost.requests + 1 \in Nat /\ "cc" \in Goroutines
      /\ UNCHANGED <<cfgFiles, fileEvents, groups, runners, featuresCache, watching>>
  BY HandlesPath DEF EnableOHIFromFF
<1>2. PICK p \in Paths : p = featuresCache[f]
  BY <1>1
<1>3. PICK x : x = [[[[Idle EXCEPT !.at = "load"] EXCEPT !.op = "enable"] EXCEPT !.path = p] EXCEPT !.cmdFF = f]
  OBVIOUS
<1>4. x \in Thread /\ x.at = "load" /\ x.path = p /\ x.op = "enable"
  BY <1>3, IdleType DEF Thread, Operation
<1>5. ManagerTypeOK /\ OwnGroups
  BY DEF ManagerInv
<1>6. /\ ~isGroupRunning(p) /\ threads' = [threads EXCEPT !["cc"] = x]
      /\ ghost' = [ghost EXCEPT !.requests = ghost.requests + 1, !.disabled = ghost.disabled \ {p},
                                !.overlap = Noted("cc", p)]
  BY <1>2, <1>3, <1>5 DEF EnableOHIFromFF, ManagerTypeOK, Idle
<1>7. /\ ghost'.overlap = Noted("cc", p) /\ ghost'.missed = ghost.missed
      /\ ghost'.disabled = ghost.disabled \ {p}
      /\ ghost'.changes = ghost.changes /\ ghost'.requests = ghost.requests + 1
  BY <1>5, <1>6 DEF ManagerTypeOK
<1>8. /\ ghost.overlap \subseteq ghost'.overlap /\ ghost'.overlap \subseteq Paths
      /\ p \notin ghost'.overlap => ~Overlapping("cc", p)
  BY <1>5, <1>7 DEF Noted, ManagerTypeOK
<1>9. ManagerTypeOK'
  <2>1. ghost' \in [overlap : SUBSET Paths, missed : SUBSET Paths, disabled : SUBSET Paths,
                    changes : Nat, requests : Nat]
    BY <1>1, <1>5, <1>6, <1>7, <1>8 DEF ManagerTypeOK
  <2>2. threads' \in [watch : Thread, cc : Thread]
    BY <1>1, <1>4, <1>5, <1>6, ThreadsType
  <2> QED
    BY <1>1, <1>5, <2>1, <2>2 DEF ManagerTypeOK
<1>10. /\ \A q \in Paths : RemovalLast(q)'
       /\ \A q \in Paths : Due(q)' <=> Due(q)
  BY <1>1, EventsKept
<1>11. x.at \in Working \cup {"idle"} /\ GoesOn(x, p)
  BY <1>4 DEF GoesOn, Working
<1>12. \A q \in Paths : GroupsOf(q)' = GroupsOf(q)
  BY <1>1 DEF GroupsOf
<1>13. OnlyOf(p)
  BY <1>1, <1>7, <1>8, <1>10, <1>12 DEF OnlyOf, SameGroups
<1>14. ASSUME p \notin ghost'.overlap PROVE InHand(p)' /\ UpToDate(p)'
  <2>1. p \in Paths \ ghost.overlap /\ ~Overlapping("cc", p)
    BY <1>8, <1>14
  <2>2. Became("cc", x, p)
    BY <1>1, <1>6, <1>11, <2>1, BeginsAlone
  <2>3. Stopped(p) /\ OneLive(p)
    BY <1>6, <2>1, NotRunning
  <2>4. OneLive(p)' /\ LiveFits(p)' /\ Stopped(p)'
    BY <1>1, <1>12, <2>3 DEF OneLive, LiveFits, Stopped
  <2>5. InHand(p)'
    BY <1>1, <1>4, <2>2, <2>4, InHandAfter
  <2>6. UpToDate(p)'
    BY <1>1, <1>4, <2>2, <2>4, UpToDateAfter DEF Working
  <2> QED
    BY <2>5, <2>6
<1>15. runners'[p] # 0 => runners'[p] \in DOMAIN groups' /\ groups'[runners'[p]].path = p
  BY <1>1, <1>5 DEF OwnGroups
<1> QED
  BY <1>1, <1>6, <1>9, <1>10, <1>11, <1>13, <1>14, <1>15, PathStep

-----------------------------------------------------------------------------
(* NewManager and Start                                                     *)

LEMMA WatchForFSChangesKeeps ==
  ASSUME ManagerInv, WatchForFSChanges
  PROVE  ManagerInv'
<1>1. /\ threads.watch.at = "start" /\ threads.watch.list = {} /\ threads' = [threads EXCEPT !["watch"] = Idle]
      /\ UNCHANGED <<cfgFiles, fileEvents, groups, runners, featuresCache, watching, ghost>>
  BY DEF WatchForFSChanges
<1>2. ManagerTypeOK /\ Phases /\ OwnGroups
  BY DEF ManagerInv
<1>3. /\ DOMAIN threads = Goroutines /\ Idle \in Thread /\ Idle.at = "idle" /\ "watch" \in Goroutines
      /\ "cc" \in Goroutines /\ \A t \in Goroutines : t = "watch" \/ t = "cc"
  BY <1>2, ThreadFields, IdleType DEF Goroutines
<1>4. threads'["watch"] = Idle /\ threads'["cc"] = threads["cc"]
  BY <1>1, <1>3
<1>5. ManagerTypeOK'
  <2>1. threads' \in [watch : Thread, cc : Thread]
    BY <1>1, <1>2, <1>3, ThreadsType
  <2> QED
    BY <1>1, <1>2, <2>1 DEF ManagerTypeOK
<1>6. Phases'
  BY <1>1, <1>2, <1>3, <1>4 DEF Phases
<1>7. OwnGroups'
  <2>1. threads'["watch"].at \notin Working
    BY <1>3, <1>4 DEF Working
  <2>2. threads'["watch"].at \notin {"set", "run"}
    BY <2>1 DEF Working
  <2> QED
    BY <1>1, <1>2, <1>3, <1>4, <2>1, <2>2 DEF OwnGroups
<1>8. \A q \in Paths : RemovalLast(q)'
  BY <1>1, EventsKept
<1>9. \A q \in Paths : ~Busy("watch", q)' /\ (Busy("cc", q)' <=> Busy("cc", q))
  BY <1>3, <1>4 DEF Busy, Working
<1>10. \A q \in Paths : GroupsOf(q)' = GroupsOf(q) /\ (Stopped(q)' <=> Stopped(q))
  BY <1>1 DEF GroupsOf, Stopped
<1>11. ASSUME NEW q \in Paths \ ghost.overlap PROVE InHand(q)'
  <2>1. Alone(q) /\ OneLive(q) /\ WorkStopped(q) /\ FirstGroups(q)
    BY DEF ManagerInv, InHand
  <2>2. Alone(q)'
    BY <1>3, <1>4, <1>9 DEF Alone, Starting
  <2>3. OneLive(q)'
    BY <1>1, <1>10, <2>1 DEF OneLive
  <2>4. WorkStopped(q)'
    BY <1>1, <1>3, <1>4, <1>9, <1>10, <2>1 DEF WorkStopped
  <2>5. FirstGroups(q)'
    BY <1>3, <1>4 DEF FirstGroups
  <2> QED
    BY <2>2, <2>3, <2>4, <2>5 DEF InHand
<1>12. ASSUME NEW q \in Paths \ (ghost.overlap \cup ghost.missed) PROVE UpToDate(q)'
  <2>1. UpToDate(q) /\ FirstGroups(q)
    BY <1>1 DEF ManagerInv, InHand
  <2>2. (Due(q)' <=> Due(q)) /\ (Loads(q)' <=> Loads(q)) /\ Started(q)' = Started(q)
    BY <1>1, EventsKept
  <2>3. ASSUME ~Due(q) PROVE LiveFits(q)' /\ NextFits(q)' /\ FirstFits(q)' /\ RestFits(q)'
    <3>1. LiveFits(q) /\ NextFits(q) /\ FirstFits(q)
      BY <2>1, <2>3 DEF UpToDate
    <3>2. \A g : Fits(q, g)' <=> Fits(q, g)
      BY <1>1, <2>2 DEF Fits
    <3>3. LiveFits(q)'
      BY <1>1, <1>10, <3>1, <3>2 DEF LiveFits
    <3>4. NextFits(q)'
      BY <1>3, <1>4, <1>9, <3>1, <3>2 DEF NextFits
    <3>5. FirstFits(q)'
      BY <1>3, <1>4 DEF FirstFits
    <3>6. ASSUME Stopped(q), Loads(q) PROVE {} \in Started(q)
      <4>1. runners[q] # 0 /\ Fits(q, runners[q])
        BY <1>1, <3>1, <3>6 DEF FirstFits
      <4>2. runners[q] \in GroupsOf(q)
        BY <1>2, <4>1 DEF OwnGroups, GroupsOf
      <4>3. groups[runners[q]].ohis = {}
        BY <1>1, <2>1, <3>6, <4>2 DEF FirstGroups, Stopped
      <4> QED
        BY <4>1, <4>3 DEF Fits
    <3>7. RestFits(q)'
      BY <1>10, <2>2, <3>6 DEF RestFits
    <3> QED
      BY <3>3, <3>4, <3>5, <3>7
  <2> QED
    BY <2>2, <2>3 DEF UpToDate
<1> QED
  BY <1>1, <1>5, <1>6, <1>7, <1>8, <1>11, <1>12 DEF ManagerInv

LEMMA WatchConfigsKeeps ==
  ASSUME ManagerInv, WatchConfigs
  PROVE  ManagerInv'
<1> DEFINE x == [[threads["watch"] EXCEPT !.at = "start"] EXCEPT !.list = DOMAIN groups]
           news == {p \in Paths : IF runners[p] = 0 THEN Loads(p)
                                  ELSE ~Loads(p) \/ NewGroup(p, NoCmdFF) # groups[runners[p]]}
<1>1. threads.watch.at = "watch" /\ watching' = [p \in Paths |-> TRUE]
      /\ UNCHANGED <<cfgFiles, fileEvents, groups, runners, featuresCache>>
  BY DEF WatchConfigs
<1>2. ManagerTypeOK /\ Phases /\ OwnGroups
  BY DEF ManagerInv
<1>3. /\ DOMAIN threads = Goroutines /\ "watch" \in Goroutines /\ "cc" \in Goroutines
      /\ \A t \in Goroutines : t = "watch" \/ t = "cc"
      /\ threads["watch"] \in Thread
  BY <1>2, ThreadFields DEF Goroutines
<1>4. threads' = [threads EXCEPT !["watch"] = x]
  BY <1>2, <1>3 DEF WatchConfigs, ManagerTypeOK, Thread
<1>5. /\ ghost' = [ghost EXCEPT !.missed = news]
  BY DEF WatchConfigs
<1>6. x \in Thread /\ x.at = "start" /\ x.list = DOMAIN groups
  <2>1. DOMAIN groups \subseteq Nat
    BY <1>2, SMT DEF ManagerTypeOK
  <2>2. DOMAIN groups \in SUBSET Nat
    BY <2>1
  <2> QED
    BY <1>3, <2>2 DEF Thread
<1>7. /\ ghost'.missed = news /\ ghost'.overlap = ghost.overlap /\ news \subseteq Paths
      /\ ghost' \in [overlap : SUBSET Paths, missed : SUBSET Paths, disabled : SUBSET Paths,
                     changes : Nat, requests : Nat]
  BY <1>2, <1>5 DEF ManagerTypeOK
<1>8. \A p \in Paths : p \notin news => IF runners[p] = 0 THEN ~Loads(p)
                                       ELSE Loads(p) /\ NewGroup(p, NoCmdFF) = groups[runners[p]]
  OBVIOUS
<1> HIDE DEF x, news
<1>9. threads'["watch"] = x /\ threads'["cc"] = threads["cc"] /\ threads["cc"].at = "idle"
  BY <1>1, <1>2, <1>3, <1>4 DEF Phases
<1>10. ManagerTypeOK'
  <2>1. threads' \in [watch : Thread, cc : Thread]
    BY <1>2, <1>3, <1>4, <1>6, ThreadsType
  <2>2. watching' \in [Paths -> BOOLEAN]
    BY <1>1
  <2> QED
    BY <1>1, <1>2, <1>7, <2>1, <2>2 DEF ManagerTypeOK
<1>11. Phases'
  BY <1>1, <1>2, <1>6, <1>9 DEF Phases, Starting
<1>12. \A t \in Goroutines : threads'[t].at \notin Working /\ threads'[t].at \notin {"set", "run"}
  BY <1>3, <1>6, <1>9 DEF Working
<1>13. OwnGroups'
  BY <1>1, <1>2, <1>12 DEF OwnGroups
<1>14. \A q \in Paths : RemovalLast(q)'
  BY <1>1, EventsKept
<1>15. \A q \in Paths, t \in Goroutines : ~Busy(t, q)'
  BY <1>12 DEF Busy
<1>16. ASSUME NEW q \in Paths \ ghost.overlap PROVE InHand(q)' /\ Stopped(q)'
  <2>1. OneLive(q) /\ FirstGroups(q)
    BY DEF ManagerInv, InHand
  <2>2. Alone(q)' /\ WorkStopped(q)'
    BY <1>3, <1>15 DEF Alone, WorkStopped
  <2>3. GroupsOf(q)' = GroupsOf(q)
    BY <1>1 DEF GroupsOf
  <2>4. OneLive(q)'
    BY <1>1, <2>1, <2>3 DEF OneLive
  <2>5. Stopped(q)' /\ \A g \in GroupsOf(q) : g = runners[q] /\ g \in DOMAIN groups
    BY <1>1, <2>1, <2>3 DEF FirstGroups, Stopped, GroupsOf
  <2>6. \A g \in GroupsOf(q)' : ~groups'[g].live /\ g \in threads'["watch"].list
    BY <1>1, <1>6, <1>9, <2>3, <2>5 DEF Stopped
  <2>7. FirstGroups(q)'
    BY <1>1, <1>6, <1>9, <2>3, <2>5, <2>6 DEF FirstGroups
  <2> QED
    BY <2>2, <2>4, <2>5, <2>7 DEF InHand
<1>17. ASSUME NEW q \in Paths \ (ghost'.overlap \cup ghost'.missed) PROVE UpToDate(q)'
  <2>1. q \in Paths \ ghost.overlap /\ q \notin news
    BY <1>7
  <2>2. IF runners[q] = 0 THEN ~Loads(q) ELSE Loads(q) /\ NewGroup(q, NoCmdFF) = groups[runners[q]]
    BY <1>8, <2>1
  <2>3. (Loads(q)' <=> Loads(q)) /\ Started(q)' = Started(q)
    BY <1>1, EventsKept
  <2>4. LiveFits(q)' /\ NextFits(q)'
    BY <1>15, <1>16, <2>1 DEF LiveFits, NextFits, Stopped
  <2>5. RestFits(q)'
    BY <1>6, <1>9 DEF RestFits, AtWork
  <2>6. ASSUME runners[q] # 0 PROVE Fits(q, runners[q])'
    <3>1. groups[runners[q]].ohis = {f \in cfgFiles[q] : IsOHIExecutable(f, NoCmdFF)}
      <4>1. Loads(q) /\ NewGroup(q, NoCmdFF) = groups[runners[q]]
        BY <2>2, <2>6
      <4>2. NewGroup(q, NoCmdFF).ohis = {f \in cfgFiles[q] : IsOHIExecutable(f, NoCmdFF)}
        BY DEF NewGroup
      <4> QED
        BY <4>1, <4>2
    <3>2. groups[runners[q]].ohis \in Started(q)
      BY <3>1 DEF Started
    <3> QED
      BY <1>1, <2>2, <2>3, <2>6, <3>2 DEF Fits
  <2>7. FirstFits(q)'
    BY <1>1, <2>2, <2>3, <2>6 DEF FirstFits
  <2> QED
    BY <2>4, <2>5, <2>7 DEF UpToDate
<1>18. \A q \in Paths \ ghost'.overlap : InHand(q)'
  BY <1>7, <1>16
<1> QED
  BY <1>10, <1>11, <1>13, <1>14, <1>17, <1>18 DEF ManagerInv

LEMMA StartManagerKeeps ==
  ASSUME ManagerInv, NEW g \in DOMAIN groups, StartManager(g)
  PROVE  ManagerInv'
<1> DEFINE x == [threads["watch"] EXCEPT !.list = threads["watch"].list \ {g}]
<1>1. /\ threads.watch.at = "start" /\ g \in threads.watch.list /\ StartGroup(g)
      /\ UNCHANGED <<cfgFiles, fileEvents, runners, featuresCache, watching, ghost>>
  BY DEF StartManager
<1>2. ManagerTypeOK /\ Phases /\ OwnGroups
  BY DEF ManagerInv
<1>3. /\ DOMAIN threads = Goroutines /\ "watch" \in Goroutines /\ "cc" \in Goroutines
      /\ \A t \in Goroutines : t = "watch" \/ t = "cc"
      /\ threads["watch"] \in Thread
  BY <1>2, ThreadFields DEF Goroutines
<1>4. threads' = [threads EXCEPT !["watch"] = x]
  BY <1>2, <1>3 DEF StartManager, ManagerTypeOK, Thread
<1>5. x \in Thread /\ x.at = "start" /\ x.list = threads["watch"].list \ {g}
  BY <1>1, <1>3 DEF Thread
<1> HIDE DEF x
<1>6. threads'["watch"] = x /\ threads'["cc"] = threads["cc"]
  BY <1>3, <1>4
<1>7. /\ groups' \in Seq(Group) /\ DOMAIN groups' = DOMAIN groups
      /\ \A h \in DOMAIN groups : h # g => groups'[h] = groups[h]
      /\ groups'[g].path = groups[g].path /\ groups'[g].ohis = groups[g].ohis
      /\ groups'[g].live <=> groups[g].ohis # {}
      /\ groups'[g].lost <=> groups[g].lost \/ groups[g].live
      /\ groups'[g].cancel <=> groups[g].cancel \/ groups[g].ohis # {}
  BY <1>1, <1>2, StartGroupDoes
<1>8. \A h \in DOMAIN groups : groups'[h].path = groups[h].path
  BY <1>7
<1>9. ManagerTypeOK'
  <2>1. threads' \in [watch : Thread, cc : Thread]
    BY <1>2, <1>3, <1>4, <1>5, ThreadsType
  <2> QED
    BY <1>1, <1>2, <1>7, <2>1 DEF ManagerTypeOK
<1>10. Phases'
  BY <1>1, <1>2, <1>5, <1>6, <1>7 DEF Phases
<1>11. threads'["watch"].at \notin Working /\ threads'["watch"].at \notin {"set", "run"}
  BY <1>5, <1>6 DEF Working
<1>12. OwnGroups'
  <2>1. \A p \in Paths : runners'[p] # 0 => runners'[p] \in DOMAIN groups' /\ groups'[runners'[p]].path = p
    <3> SUFFICES ASSUME NEW p \in Paths, runners[p] # 0
                 PROVE  runners[p] \in DOMAIN groups' /\ groups'[runners[p]].path = p
      BY <1>1
    <3>1. runners[p] \in DOMAIN groups /\ groups[runners[p]].path = p
      BY <1>2 DEF OwnGroups
    <3> QED
      BY <1>7, <1>8, <3>1
  <2>2. /\ threads'["cc"].at \in Working => threads'["cc"].path \in Paths
        /\ threads'["cc"].at \in {"set", "run"} =>
             threads'["cc"].group \in DOMAIN groups' /\ groups'[threads'["cc"].group].path = threads'["cc"].path
    <3>1. /\ threads["cc"].at \in Working => threads["cc"].path \in Paths
          /\ threads["cc"].at \in {"set", "run"} =>
               threads["cc"].group \in DOMAIN groups /\ groups[threads["cc"].group].path = threads["cc"].path
      BY <1>2, <1>3 DEF OwnGroups
    <3> QED
      BY <1>6, <1>7, <1>8, <3>1
  <2> QED
    BY <1>3, <1>11, <2>1, <2>2 DEF OwnGroups
<1>13. \A q \in Paths : RemovalLast(q)'
  BY <1>1, EventsKept
<1>14. \A q \in Paths : GroupsOf(q)' = GroupsOf(q)
  BY <1>7, <1>8 DEF GroupsOf
<1>15. \A q \in Paths : ~Busy("watch", q)' /\ ~Busy("watch", q) /\ (Busy("cc", q)' <=> Busy("cc", q))
  BY <1>1, <1>6, <1>11 DEF Busy, Working
<1>16. ASSUME NEW q \in Paths, q # groups[g].path PROVE Untouched(q)
  <2>1. SameWork(q)
    BY <1>3, <1>6, <1>15 DEF SameWork
  <2>2. g \notin GroupsOf(q)
    BY <1>16 DEF GroupsOf
  <2>3. SamePhase(q)
    BY <1>1, <1>5, <1>6, <2>2 DEF SamePhase
  <2>4. SameGroups(q)
    <3>1. \A h \in GroupsOf(q) : groups'[h] = groups[h]
      BY <1>7, <2>2 DEF GroupsOf
    <3> QED
      BY <1>1, <1>14, <3>1 DEF SameGroups
  <2> QED
    BY <1>1, <2>1, <2>3, <2>4 DEF Untouched
<1>17. PICK p \in Paths : p = groups[g].path
  BY <1>2, GroupFields DEF Group
<1>18. ASSUME p \notin ghost.overlap
       PROVE  /\ runners[p] = g /\ (\A h \in GroupsOf(p) : h = g) /\ g \in GroupsOf(p)
              /\ ~groups[g].live /\ ~groups[g].lost /\ ~Busy("cc", p)
  <2>1. Alone(p) /\ OneLive(p) /\ FirstGroups(p)
    BY <1>18 DEF ManagerInv, InHand
  <2>2. g \in GroupsOf(p)
    BY <1>17 DEF GroupsOf
  <2>3. runners[p] = g /\ (\A h \in GroupsOf(p) : h = g) /\ ~groups[g].live
    BY <1>1, <2>1, <2>2 DEF FirstGroups
  <2>4. ~groups[g].lost
    BY <2>1, <2>2 DEF OneLive
  <2>5. ~Busy("cc", p)
    BY <1>1, <2>1 DEF Alone, Starting
  <2> QED
    BY <2>2, <2>3, <2>4, <2>5
<1>19. ASSUME p \notin ghost.overlap PROVE InHand(p)'
  <2>1. Alone(p)' /\ WorkStopped(p)'
    BY <1>3, <1>15, <1>18, <1>19 DEF Alone, WorkStopped
  <2>2. OneLive(p)'
    BY <1>1, <1>7, <1>14, <1>18, <1>19 DEF OneLive
  <2>3. FirstGroups(p)'
    <3>1. \A h \in GroupsOf(p)' : h = runners'[p] /\ h = g
      BY <1>1, <1>14, <1>18, <1>19
    <3>2. groups'[g].live <=> g \notin threads'["watch"].list /\ groups'[g].ohis # {}
      BY <1>5, <1>6, <1>7
    <3> QED
      BY <1>5, <1>6, <3>1, <3>2 DEF FirstGroups
  <2> QED
    BY <2>1, <2>2, <2>3 DEF InHand
<1>20. ASSUME p \notin ghost.overlap \cup ghost.missed PROVE UpToDate(p)'
  <2>1. UpToDate(p) /\ p \notin ghost.overlap
    BY <1>1, <1>20 DEF ManagerInv
  <2>2. (Due(p)' <=> Due(p)) /\ (Loads(p)' <=> Loads(p)) /\ Started(p)' = Started(p)
    BY <1>1, EventsKept
  <2>3. ASSUME ~Due(p) PROVE LiveFits(p)' /\ NextFits(p)' /\ FirstFits(p)' /\ RestFits(p)'
    <3>1. FirstFits(p) /\ runners[p] = g /\ (\A h \in GroupsOf(p) : h = g) /\ ~Busy("cc", p)
      BY <1>18, <2>1, <2>3 DEF UpToDate
    <3>2. g # 0
      BY <1>2, GroupFields
    <3>3. Fits(p, g)
      BY <1>1, <3>1, <3>2 DEF FirstFits
    <3>4. Fits(p, g)'
      BY <1>7, <2>2, <3>3 DEF Fits
    <3>5. LiveFits(p)'
      BY <1>14, <3>1, <3>4 DEF LiveFits
    <3>6. NextFits(p)'
      BY <1>3, <1>15, <3>1 DEF NextFits
    <3>7. FirstFits(p)'
      BY <1>1, <3>1, <3>2, <3>4 DEF FirstFits
    <3>8. RestFits(p)'
      BY <1>5, <1>6 DEF RestFits, AtWork
    <3> QED
      BY <3>5, <3>6, <3>7, <3>8
  <2> QED
    BY <2>2, <2>3 DEF UpToDate
<1>21. ASSUME NEW q \in Paths \ ghost'.overlap PROVE InHand(q)'
  <2>1. InHand(q) /\ q \notin ghost.overlap
    BY <1>1 DEF ManagerInv
  <2> QED
    BY <1>16, <1>17, <1>19, <2>1, UntouchedInHand
<1>22. ASSUME NEW q \in Paths \ (ghost'.overlap \cup ghost'.missed) PROVE UpToDate(q)'
  <2>1. UpToDate(q) /\ q \notin ghost.overlap \cup ghost.missed
    BY <1>1 DEF ManagerInv
  <2>2. CASE q = p
    BY <1>20, <2>1, <2>2
  <2>3. CASE q # p
    <3>1. Untouched(q)
      BY <1>16, <1>17, <2>3
    <3>2. cfgFiles'[q] = cfgFiles[q] /\ (Due(q) => Due(q)')
      BY <1>1 DEF Due
    <3> QED
      BY <1>2, <2>1, <3>1, <3>2, UntouchedUpToDate
  <2> QED
    BY <2>2, <2>3
<1> QED
  BY <1>9, <1>10, <1>12, <1>13, <1>21, <1>22 DEF ManagerInv

\* The files that load, in the order in which they are loaded.
ToLoad == {p \in Paths : Loads(p)}

Latest(order, f) ==
  LET ks == {i \in DOMAIN order : f \in cfgFiles[order[i]]} IN
  IF ks = {} THEN 0 ELSE order[CHOOSE i \in ks : \A k \in ks : k <= i]

LoadOrder(order) ==
  /\ order \in [1..Cardinality(ToLoad) -> ToLoad]
  /\ \A i, j \in DOMAIN order : i # j => order[i] # order[j]
  /\ \A p \in ToLoad : \E i \in DOMAIN order : order[i] = p
  /\ groups' = [i \in DOMAIN order |-> NewGroup(order[i], NoCmdFF)]
  /\ featuresCache' = [f \in Features |-> Latest(order, f)]
  /\ runners' = [p \in Paths |-> IF p \in ToLoad THEN CHOOSE i \in DOMAIN order : order[i] = p ELSE 0]

LEMMA LoadOrderDoes ==
  ASSUME ManagerTypeOK, LoadConfigs
  PROVE  \E order : LoadOrder(order)
<1>1. PICK order \in [1..Cardinality(ToLoad) -> ToLoad] :
        /\ \A i, j \in DOMAIN order : i # j => order[i] # order[j]
        /\ \A p \in ToLoad : \E i \in DOMAIN order : order[i] = p
        /\ groups' = [i \in DOMAIN order |-> NewGroup(order[i], NoCmdFF)]
        /\ featuresCache' = [f \in Features |-> Latest(order, f)]
        /\ runners' = [p \in Paths |-> IF p \in ToLoad THEN CHOOSE i \in DOMAIN order : order[i] = p ELSE 0]
  BY DEF LoadConfigs, ToLoad, Latest
<1>2. LoadOrder(order)
  BY <1>1 DEF LoadOrder
<1> QED
  BY <1>2

LEMMA LastIndex ==
  ASSUME NEW n \in Nat, NEW ks \in SUBSET (1..n), ks # {}
  PROVE  \E i \in ks : \A k \in ks : k <= i
<1> DEFINE T == {n - k : k \in ks}
<1>1. T \in SUBSET Nat /\ T # {}
  <2>1. \A k \in 1..n : n - k \in Nat
    BY SMT
  <2> QED
    BY <2>1
<1>2. PICK x \in T : \A y \in T : ~ (<<y, x>> \in OpToRel(<, Nat))
  BY <1>1, NatLessThanWellFounded, WFMin
<1>3. PICK i \in ks : x = n - i
  BY <1>2
<1>4. ASSUME NEW k \in ks PROVE k <= i
  <2>1. n - k \in T /\ n - k \in Nat /\ x \in Nat
    BY <1>1
  <2>2. ~ (n - k < x)
    BY <1>2, <2>1 DEF OpToRel
  <2> QED
    BY SMT, <1>3, <2>1, <2>2
<1> QED
  BY <1>3, <1>4

\* Of the files that have a feature there is a last one.
LEMMA LatestType ==
  ASSUME NEW n \in Nat, NEW order \in [1..n -> ToLoad], NEW f
  PROVE  Latest(order, f) \in Paths \cup {0}
<1> DEFINE ks == {i \in DOMAIN order : f \in cfgFiles[order[i]]}
<1>1. CASE ks = {}
  BY <1>1 DEF Latest
<1>2. CASE ks # {}
  <2>1. ks \in SUBSET (1..n)
    OBVIOUS
  <2> HIDE DEF ks
  <2>3. \E i \in ks : \A k \in ks : k <= i
    BY <1>2, <2>1, LastIndex
  <2>4. (CHOOSE i \in ks : \A k \in ks : k <= i) \in ks
    BY <2>3
  <2>5. order[CHOOSE i \in ks : \A k \in ks : k <= i] \in ToLoad
    BY <2>1, <2>4
  <2> QED
    BY <1>2, <2>5 DEF Latest, ks, ToLoad
<1> QED
  BY <1>1, <1>2

LEMMA LoadedGroups ==
  ASSUME ManagerTypeOK, NEW order, LoadOrder(order)
  PROVE  /\ groups' \in Seq(Group) /\ runners' \in [Paths -> Nat] /\ featuresCache' \in [Features -> Paths \cup {0}]
         /\ \A g \in DOMAIN groups' : groups'[g].path \in Paths /\ runners'[groups'[g].path] = g
                                      /\ ~groups'[g].live /\ ~groups'[g].lost
         /\ \A p \in Paths : runners'[p] # 0 => runners'[p] \in DOMAIN groups' /\ groups'[runners'[p]].path = p
<1>1. PICK n : n = Cardinality(ToLoad)
  OBVIOUS
<1>2. n \in Nat
  BY <1>1, ManagerAssumption, FS_Subset, FS_CardinalityType DEF ToLoad
<1>3. order \in [1..n -> ToLoad] /\ DOMAIN order = 1..n
  BY <1>1 DEF LoadOrder
<1>4. \A i \in 1..n : order[i] \in Paths /\ Loads(order[i])
  BY <1>3 DEF ToLoad
<1>5. groups' = [i \in 1..n |-> NewGroup(order[i], NoCmdFF)]
  BY <1>3 DEF LoadOrder
<1>6. ASSUME NEW i \in 1..n
      PROVE  groups'[i] \in Group /\ groups'[i].path = order[i] /\ ~groups'[i].live /\ ~groups'[i].lost
  <2>1. groups'[i] = NewGroup(order[i], NoCmdFF)
    BY <1>5
  <2>2. order[i] \in Paths /\ Loads(order[i])
    BY <1>4
  <2>3. NewGroup(order[i], NoCmdFF) \in Group
    BY <2>2, NewGroupType
  <2>4. /\ NewGroup(order[i], NoCmdFF).path = order[i] /\ ~NewGroup(order[i], NoCmdFF).live
        /\ ~NewGroup(order[i], NoCmdFF).lost
    BY DEF NewGroup
  <2> QED
    BY <2>1, <2>3, <2>4
<1>7. DOMAIN groups' = 1..n
  BY <1>5
<1>8. groups' \in Seq(Group)
  <2>1. groups' \in [1..n -> Group]
    BY <1>5, <1>6
  <2> QED
    BY <1>2, <2>1, SMT
<1>9. ASSUME NEW p \in Paths
      PROVE  (p \notin ToLoad /\ runners'[p] = 0) \/ (p \in ToLoad /\ runners'[p] \in 1..n /\ order[runners'[p]] = p)
  <2>1. runners'[p] = IF p \in ToLoad THEN CHOOSE i \in DOMAIN order : order[i] = p ELSE 0
    BY DEF LoadOrder
  <2>2. p \in ToLoad => \E i \in DOMAIN order : order[i] = p
    BY DEF LoadOrder
  <2> QED
    BY <1>3, <2>1, <2>2
<1>10. runners' \in [Paths -> Nat]
  <2>1. ASSUME NEW p \in Paths PROVE runners'[p] \in Nat
    <3>1. runners'[p] = 0 \/ runners'[p] \in 1..n
      BY <1>9
    <3> QED
      BY <1>2, <3>1, SMT
  <2>2. PICK G : G = [p \in Paths |-> IF p \in ToLoad THEN CHOOSE i \in DOMAIN order : order[i] = p ELSE 0]
    OBVIOUS
  <2>3. runners' = G
    BY <2>2 DEF LoadOrder
  <2>4. G = [p \in Paths |-> G[p]]
    BY <2>2, SMT
  <2> QED
    BY <2>1, <2>3, <2>4
<1>11. featuresCache' \in [Features -> Paths \cup {0}]
  <2>1. \A f \in Features : Latest(order, f) \in Paths \cup {0}
    BY <1>2, <1>3, LatestType
  <2> QED
    BY <2>1 DEF LoadOrder
<1>12. \A g \in DOMAIN groups' : groups'[g].path \in Paths /\ runners'[groups'[g].path] = g
                                 /\ ~groups'[g].live /\ ~groups'[g].lost
  <2> SUFFICES ASSUME NEW g \in 1..n
               PROVE  order[g] \in Paths /\ runners'[order[g]] = g
    BY <1>6, <1>7
  <2>1. order[g] \in Paths /\ order[g] \in ToLoad
    BY <1>3, <1>4
  <2>2. runners'[order[g]] \in 1..n /\ order[runners'[order[g]]] = order[g]
    BY <1>9, <2>1
  <2>3. runners'[order[g]] = g
    BY <1>3, <2>2 DEF LoadOrder
  <2> QED
    BY <2>1, <2>3
<1>13. \A p \in Paths : runners'[p] # 0 => runners'[p] \in DOMAIN groups' /\ groups'[runners'[p]].path = p
  BY <1>6, <1>7, <1>9
<1> QED
  BY <1>8, <1>10, <1>11, <1>12, <1>13

LEMMA LoadConfigsKeeps ==
  ASSUME ManagerInv, LoadConfigs
  PROVE  ManagerInv'
<1> DEFINE x == [threads["watch"] EXCEPT !.at = "watch"]
<1>1. threads.watch.at = "new" /\ UNCHANGED <<cfgFiles, fileEvents, watching>>
  BY DEF LoadConfigs
<1>2. ManagerTypeOK /\ Phases
  BY DEF ManagerInv
<1>3. /\ DOMAIN threads = Goroutines /\ "watch" \in Goroutines /\ "cc" \in Goroutines
      /\ \A t \in Goroutines : t = "watch" \/ t = "cc"
      /\ threads["watch"] \in Thread
  BY <1>2, ThreadFields DEF Goroutines
<1>4. threads' = [threads EXCEPT !["watch"] = x]
  BY <1>2, <1>3 DEF LoadConfigs, ManagerTypeOK, Thread
<1>5. x \in Thread /\ x.at = "watch"
  BY <1>3 DEF Thread
<1> HIDE DEF x
<1>6. ghost' = [ghost EXCEPT !.missed = Paths]
  BY DEF LoadConfigs
<1>7. /\ ghost'.missed = Paths /\ ghost'.overlap = ghost.overlap
      /\ ghost' \in [overlap : SUBSET Paths, missed : SUBSET Paths, disabled : SUBSET Paths,
                     changes : Nat, requests : Nat]
  BY <1>2, <1>6 DEF ManagerTypeOK
<1>8. threads'["watch"] = x /\ threads'["cc"] = threads["cc"] /\ threads["cc"].at = "idle"
  BY <1>1, <1>2, <1>3, <1>4 DEF Phases
<1>9. PICK order : LoadOrder(order)
  BY <1>2, LoadOrderDoes
<1>10. /\ groups' \in Seq(Group) /\ runners' \in [Paths -> Nat] /\ featuresCache' \in [Features -> Paths \cup {0}]
       /\ \A g \in DOMAIN groups' : groups'[g].path \in Paths /\ runners'[groups'[g].path] = g
                                    /\ ~groups'[g].live /\ ~groups'[g].lost
       /\ \A p \in Paths : runners'[p] # 0 => runners'[p] \in DOMAIN groups' /\ groups'[runners'[p]].path = p
  BY <1>2, <1>9, LoadedGroups
<1>11. ManagerTypeOK'
  <2>1. threads' \in [watch : Thread, cc : Thread]
    BY <1>2, <1>3, <1>4, <1>5, ThreadsType
  <2> QED
    BY <1>1, <1>2, <1>7, <1>10, <2>1 DEF ManagerTypeOK
<1>12. Phases'
  BY <1>1, <1>2, <1>5, <1>7, <1>8 DEF Phases, Starting
<1>13. \A t \in Goroutines : threads'[t].at \notin Working /\ threads'[t].at \notin {"set", "run"}
  BY <1>3, <1>5, <1>8 DEF Working
<1>14. OwnGroups'
  BY <1>10, <1>13 DEF OwnGroups
<1>15. \A q \in Paths : RemovalLast(q)'
  BY <1>1, EventsKept
<1>16. \A q \in Paths, t \in Goroutines : ~Busy(t, q)'
  BY <1>13 DEF Busy
<1>17. ASSUME NEW q \in Paths PROVE InHand(q)'
  <2>1. Alone(q)' /\ WorkStopped(q)'
    BY <1>3, <1>16 DEF Alone, WorkStopped
  <2>2. \A g \in GroupsOf(q)' : ~groups'[g].live /\ ~groups'[g].lost /\ g = runners'[q]
    BY <1>10 DEF GroupsOf
  <2>3. OneLive(q)' /\ Stopped(q)'
    BY <2>2 DEF OneLive, Stopped
  <2>4. FirstGroups(q)'
    BY <1>5, <1>8, <2>2, <2>3 DEF FirstGroups
  <2> QED
    BY <2>1, <2>3, <2>4 DEF InHand
<1> QED
  BY <1>5, <1>8, <1>11, <1>12, <1>14, <1>15, <1>17 DEF ManagerInv

-----------------------------------------------------------------------------
(* Every step                                                               *)

LEMMA ManagerInvInit == ManagerInit => ManagerInv
<1> SUFFICES ASSUME ManagerInit PROVE ManagerInv
  OBVIOUS
<1>1. /\ threads.watch = [Idle EXCEPT !.at = "new"] /\ threads.cc = Idle /\ groups = <<>> /\ fileEvents = <<>>
      /\ DOMAIN groups = {} /\ DOMAIN fileEvents = {} /\ runners = [p \in Paths |-> 0]
      /\ watching = [p \in Paths |-> FALSE]
  BY SMT DEF ManagerInit
<1>2. threads.watch \in Thread /\ threads.watch.at = "new" /\ threads.cc \in Thread /\ threads.cc.at = "idle"
  BY <1>1, IdleType DEF Thread
<1>3. \A t \in Goroutines : threads[t].at \notin Working /\ threads[t].at \notin {"set", "run"}
  BY <1>2 DEF Goroutines, Working
<1>4. ManagerTypeOK
  <2>1. threads \in [watch : Thread, cc : Thread]
    BY <1>1, <1>2 DEF ManagerInit
  <2>2. fileEvents \in Seq(Event) /\ groups \in Seq(Group)
    BY <1>1, SMT
  <2>3. ghost \in [overlap : SUBSET Paths, missed : SUBSET Paths, disabled : SUBSET Paths,
                   changes : Nat, requests : Nat]
    BY DEF ManagerInit
  <2>4. runners \in [Paths -> Nat] /\ featuresCache \in [Features -> Paths \cup {0}] /\ watching \in [Paths -> BOOLEAN]
    BY DEF ManagerInit
  <2> QED
    BY <2>1, <2>2, <2>3, <2>4 DEF ManagerInit, ManagerTypeOK
<1>5. Phases
  BY <1>1, <1>2 DEF Phases, Starting
<1>6. OwnGroups
  BY <1>1, <1>3 DEF OwnGroups
<1>7. \A p \in Paths : RemovalLast(p)
  BY <1>1 DEF RemovalLast
<1>8. ASSUME NEW p \in Paths PROVE InHand(p)
  <2>1. GroupsOf(p) = {}
    BY <1>1 DEF GroupsOf
  <2>2. \A t \in Goroutines : ~Busy(t, p)
    BY <1>3 DEF Busy
  <2> QED
    BY <1>2, <2>1, <2>2 DEF InHand, Alone, OneLive, WorkStopped, FirstGroups, Goroutines
<1> QED
  BY <1>2, <1>4, <1>5, <1>6, <1>7, <1>8 DEF ManagerInv

LEMMA ManagerStutters ==
  ASSUME ManagerInv, UNCHANGED managerVars
  PROVE  ManagerInv'
<1>1. UNCHANGED <<cfgFiles, fileEvents, groups, runners, featuresCache, threads, watching, ghost>>
  BY DEF managerVars
<1>2. ManagerTypeOK'
  BY <1>1 DEF ManagerInv, ManagerTypeOK
<1>3. \A q \in Paths : RemovalLast(q)' /\ (Due(q)' <=> Due(q))
  BY <1>1, EventsKept
<1>4. threads.watch.at \in {"new", "watch"} => fileEvents' = <<>>
  BY <1>1 DEF ManagerInv, Phases
<1>5. \A q \in Paths : Due(q)' \/ (~Due(q) /\ cfgFiles'[q] = cfgFiles[q])
  BY <1>1, <1>3
<1> QED
  BY <1>1, <1>2, <1>3, <1>4, <1>5, EventStep

LEMMA LoadRunnerGroupKeeps ==
  ASSUME ManagerInv, NEW t \in Goroutines, LoadRunnerGroup(t)
  PROVE  ManagerInv'
BY LoadFails, LoadMakes

LEMMA ManagerInvStep == ManagerInv /\ [ManagerNext]_managerVars => ManagerInv'
<1> SUFFICES ASSUME ManagerInv, [ManagerNext]_managerVars PROVE ManagerInv'
  OBVIOUS
<1>1. DOMAIN threads = Goroutines
  BY ThreadFields DEF ManagerInv
<1>2. ASSUME NEW t \in DOMAIN threads, RemoveRunner(t) \/ LoadRunnerGroup(t) \/ SetRunner(t) \/ StartRunner(t)
      PROVE  ManagerInv'
  BY <1>1, <1>2, RemoveRunnerKeeps, LoadRunnerGroupKeeps, SetRunnerKeeps, StartRunnerKeeps
<1>3. ASSUME NEW f \in Features, EnableOHIFromFF(f) \/ DisableOHIFromFF(f) PROVE ManagerInv'
  BY <1>3, EnableKeeps, DisableKeeps
<1>4. ASSUME NEW p \in Paths, NEW c \in Contents, NEW replaced \in BOOLEAN, FileChanges(p, c, replaced)
      PROVE  ManagerInv'
  BY <1>4, FileChangesKeeps
<1> QED
  BY <1>2, <1>3, <1>4, LoadConfigsKeeps, WatchConfigsKeeps, StartManagerKeeps, WatchForFSChangesKeeps,
     HandleFileEventKeeps, ManagerStutters DEF ManagerNext

\* At rest no goroutine works and no event is due.
LEMMA FollowedAtRest == ManagerInv => FilesFollowed
<1> SUFFICES ASSUME ManagerInv, AtRest, fileEvents = <<>>, NEW p \in Paths \ (ghost.overlap \cup ghost.missed)
             PROVE  /\ \A g \in LiveGroups(p) : g = runners[p] /\ ~groups[g].lost /\ Loads(p)
                                                 /\ groups[g].ohis \in Started(p)
                    /\ LiveGroups(p) = {} /\ Loads(p) /\ p \notin ghost.disabled => {} \in Started(p)
  BY DEF FilesFollowed
<1>1. threads.watch.at = "idle" /\ threads.cc.at = "idle"
  <2>1. DOMAIN threads = Goroutines
    BY ThreadFields DEF ManagerInv
  <2> QED
    BY <2>1 DEF AtRest, Goroutines
<1>2. UpToDate(p) /\ OneLive(p)
  BY <1>1 DEF ManagerInv, InHand
<1>3. ~Due(p)
  <2>1. DOMAIN fileEvents = {}
    BY SMT
  <2> QED
    BY <2>1 DEF Due
<1>4. ~AtWork(p)
  BY <1>1 DEF AtWork, Busy, Working
<1>5. LiveFits(p) /\ RestFits(p)
  BY <1>2, <1>3 DEF UpToDate
<1>6. LiveGroups(p) = {g \in GroupsOf(p) : groups[g].live}
  BY <1>2 DEF LiveGroups, GroupsOf, OneLive
<1>7. \A g \in LiveGroups(p) : g = runners[p] /\ ~groups[g].lost /\ Fits(p, g)
  BY <1>2, <1>5, <1>6 DEF OneLive, LiveFits
<1>8. LiveGroups(p) = {} => Stopped(p)
  BY <1>6 DEF Stopped
<1> QED
  BY <1>4, <1>5, <1>7, <1>8 DEF Fits, RestFits

\* For any files, contents and feature flags, and any number of changes and
\* requests: when every file event is handled, at most one group of a file runs,
\* it is the one in the manager's map, which can be stopped, and it runs what the
\* file says; nothing runs only when there is nothing to run or a flag disabled it.
\* Excluded are the files that changed between Load and watcher.Add, and those that
\* handleFileEvent and a flag handler worked on at one time.
THEOREM FilesAreFollowed == ManagerSpec => []FilesFollowed
<1>1. ManagerInit => ManagerInv
  BY ManagerInvInit
<1>2. ManagerInv /\ [ManagerNext]_managerVars => ManagerInv'
  BY ManagerInvStep
<1>3. ManagerInv => FilesFollowed
  BY FollowedAtRest
<1> QED
  BY <1>1, <1>2, <1>3, PTL DEF ManagerSpec

=============================================================================
