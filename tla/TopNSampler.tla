---------------------------- MODULE TopNSampler ----------------------------
(***************************************************************************)
(* The sampler that tracks the MaxProcesses processes with the highest     *)
(* scores in a min-heap, and the heap itself.  up, down, Push, Pop, Fix    *)
(* and Remove of container/heap are external; indices start at 1.          *)
(* container/heap calls ProcessHeap.Len, which takes the read lock that    *)
(* ProcessHeap.Update and Remove already hold for writing, and so waits    *)
(* for itself.  This module shows what the methods do when Len returns.    *)
(* Scores are whole numbers: a score is multiplied by Scale, a multiple of *)
(* every total of the RSS.  Each update brings new ProcessInfo values.     *)
(***************************************************************************)
EXTENDS Integers, Sequences, SequencesExt

CONSTANTS
  PIDs, Usages,              \* processes, and the pairs of CPU and RSS they may have
  MaxProcesses, CPUWeight, RSSWeight, MinScore,
  SampleMin,                 \* processes handled at least when the breaker is open (10)
  Scale,
  Steady                     \* bound: equal updates counted

ASSUME SamplerAssumption ==
  {MaxProcesses, SampleMin, Scale, Steady} \subseteq Nat \ {0} /\ {CPUWeight, RSSWeight, MinScore} \subseteq Nat

VARIABLES
  heap,          \* ProcessHeap: processes and pidMap
  sampler,       \* the other fields of TopNSampler that its steps depend on
  last,          \* the processes of the last update
  steady         \* how many updates in a row handled all of the same processes

topnVars == <<heap, sampler, last, steady>>

Levels == 0..2   \* below 0.7 of the limit, up to the limit, above it

NewProcessHeap == [processes |-> <<>>, pidMap |-> <<>>]

NewTopNSampler ==
  /\ heap = NewProcessHeap
  /\ sampler = [circuitOpen |-> FALSE, churn |-> 0, load |-> 0, totalRSS |-> 0, pidHistory |-> {}]
  /\ last = {} /\ steady = 0

-----------------------------------------------------------------------------
(* The heap                                                                 *)

HeapLess(h, i, j) == h.processes[i].score < h.processes[j].score

HeapSwap(h, i, j) ==
  [processes |-> [h.processes EXCEPT ![i] = h.processes[j], ![j] = h.processes[i]],
   pidMap |-> [h.pidMap EXCEPT ![h.processes[j].pid] = i, ![h.processes[i].pid] = j]]

HeapPush(h, p) ==
  [processes |-> Append(h.processes, p),
   pidMap |-> [q \in DOMAIN h.pidMap \cup {p.pid} |->
                 IF q = p.pid THEN Len(h.processes) + 1 ELSE h.pidMap[q]]]

HeapPop(h) ==
  [processes |-> Front(h.processes),
   pidMap |-> [q \in DOMAIN h.pidMap \ {Last(h.processes).pid} |-> h.pidMap[q]]]

\* container/heap: move an element towards the root, or away from it among the
\* first n elements.
RECURSIVE up(_, _)
up(h, j) ==
  IF j > 1 /\ HeapLess(h, j, j \div 2) THEN up(HeapSwap(h, j \div 2, j), j \div 2) ELSE h

RECURSIVE down(_, _, _)
down(h, i, n) ==
  LET l == 2 * i
      j == IF l + 1 <= n /\ HeapLess(h, l + 1, l) THEN l + 1 ELSE l
  IN  IF l > n \/ ~HeapLess(h, j, i) THEN h ELSE down(HeapSwap(h, i, j), j, n)

\* up only changes what down left in its place.
Settle(h, i, n) == LET d == down(h, i, n) IN IF d = h THEN up(h, i) ELSE d

heapPush(h, p) == LET g == HeapPush(h, p) IN up(g, Len(g.processes))
heapPop(h) == LET n == Len(h.processes) IN HeapPop(down(HeapSwap(h, 1, n), 1, n - 1))
heapRemove(h, i) ==
  LET n == Len(h.processes) IN
  HeapPop(IF i = n THEN h ELSE Settle(HeapSwap(h, i, n), i, n - 1))

\* Mutant: a full heap takes no process.
MutHeapUpdate(h, p) ==
  CASE p.pid \in DOMAIN h.pidMap ->
         Settle([h EXCEPT !.processes[h.pidMap[p.pid]] = p], h.pidMap[p.pid], Len(h.processes))
    [] p.pid \notin DOMAIN h.pidMap /\ Len(h.processes) < MaxProcesses -> heapPush(h, p)
    [] OTHER -> h

\* ProcessHeap.Update
HeapUpdate(h, p) ==
  CASE p.pid \in DOMAIN h.pidMap ->
         Settle([h EXCEPT !.processes[h.pidMap[p.pid]] = p], h.pidMap[p.pid], Len(h.processes))
    [] p.pid \notin DOMAIN h.pidMap /\ Len(h.processes) < MaxProcesses -> heapPush(h, p)
    [] p.pid \notin DOMAIN h.pidMap /\ Len(h.processes) >= MaxProcesses
         /\ p.score > h.processes[1].score -> heapPush(heapPop(h), p)
    [] OTHER -> h

\* ProcessHeap.Remove
HeapRemove(h, pid) == IF pid \in DOMAIN h.pidMap THEN heapRemove(h, h.pidMap[pid]) ELSE h

\* processScoreSort: Less puts the higher score first ...
SortSwap(s, i, j) == [s EXCEPT ![i] = s[j], ![j] = s[i]]

\* ... and heapify brings the element that is first of three to the top.
RECURSIVE heapify(_, _, _)
heapify(s, n, i) ==
  LET a == IF 2 * i <= n /\ s[2 * i].score > s[i].score THEN 2 * i ELSE i
      b == IF 2 * i + 1 <= n /\ s[2 * i + 1].score > s[a].score THEN 2 * i + 1 ELSE a
  IN  IF b = i THEN s ELSE heapify(SortSwap(s, i, b), n, b)

Sort(s) ==
  LET n == Len(s)
      build[i \in 0..n] == IF i = 0 THEN s ELSE heapify(build[i - 1], n, n + 1 - i)
      take[i \in 0..n] ==
        IF i = 0 THEN build[n] ELSE heapify(SortSwap(take[i - 1], 1, n + 1 - i), n - i, 1)
  IN  take[n]

TopN(h, n) == SubSeq(Sort(h.processes), 1, IF n > Len(h.processes) THEN Len(h.processes) ELSE n)

-----------------------------------------------------------------------------
(* The sampler                                                              *)

calculateScore(p) ==
  LET normalizedRSS == IF sampler.totalRSS > 0 THEN (p.rss * Scale) \div sampler.totalRSS ELSE 0
      score == CPUWeight * p.cpu * Scale + RSSWeight * normalizedRSS
  IN  IF score < MinScore THEN 0 ELSE score

\* Whether the breaker is open after the check, which sees the time the previous
\* update took.
checkCircuitBreaker(churn) ==
  IF ~sampler.circuitOpen THEN sampler.load = 2 \/ churn = 2
  ELSE ~(sampler.load = 0 /\ churn = 0)

\* The rate of new processes goes up only with a process that is new.
Churns(pids) == IF pids \subseteq sampler.pidHistory THEN 0..sampler.churn ELSE Levels

\* The processes of the update before that this one does not have.
Gone(pids) == sampler.pidHistory \ pids

Pids(list) == {list[i].pid : i \in DOMAIN list}

SampleSize(n) == LET t == n \div 10 IN IF SampleMin > t THEN SampleMin ELSE t

\* Update: score and place each process, then remove those that are gone.
SamplerUpdate(processes, churn) ==
  LET open == checkCircuitBreaker(churn)
      list == IF open /\ SampleSize(Len(processes)) < Len(processes)
                THEN SubSeq(processes, 1, SampleSize(Len(processes))) ELSE processes
      put == FoldLeft(LAMBDA h, p : HeapUpdate(h, p @@ [score |-> calculateScore(p)]), heap, list)
  IN  /\ churn \in Churns(Pids(processes))
      /\ \E gone \in SetToSeqs(Gone(Pids(processes))) : heap' = FoldLeft(HeapRemove, put, gone)
      /\ last' = Range(processes)
      /\ steady' = CASE list # processes -> 0
                     [] list = processes /\ last = Range(processes) /\ steady > 0 ->
                          IF steady < Steady THEN steady + 1 ELSE steady
                     [] OTHER -> 1
      /\ LET totalRSS == FoldLeft(LAMBDA t, p : t + p.rss, 0, list) IN
         \E load \in Levels :
           sampler' = [circuitOpen |-> open, churn |-> churn, load |-> load,
                       totalRSS |-> totalRSS, pidHistory |-> Pids(processes)]

\* The lists of different processes.
Lists ==
  UNION {{[i \in 1..Len(q) |-> [pid |-> q[i], cpu |-> f[q[i]][1], rss |-> f[q[i]][2]]] :
            f \in [Range(q) -> Usages]} : q \in UNION {SetToSeqs(P) : P \in SUBSET PIDs}}

\* The level between the two thresholds is left to the load.
TopNNext == \E list \in Lists, churn \in {0, 2} : SamplerUpdate(list, churn)

TopNSpec == NewTopNSampler /\ [][TopNNext]_topnVars

-----------------------------------------------------------------------------
(* Properties                                                               *)

\* Update refuses a process by the scores that others had before and removes what
\* is gone only afterwards, and scores depend on the total of the update before:
\* the third update in a row that handles the same processes tracks the top.
SteadyTracksTop ==
  steady >= 3 =>
    \A p \in last : p.pid \notin Pids(heap.processes) =>
      /\ Len(heap.processes) = MaxProcesses
      /\ \A i \in DOMAIN heap.processes : heap.processes[i].score >= calculateScore(p)

\* heap.go: "TopN returns the top N processes with highest scores".
TopNHighest ==
  \A n \in 1..Len(heap.processes) :
    LET top == TopN(heap, n) IN
    \A i \in DOMAIN heap.processes : heap.processes[i].pid \notin Pids(top) =>
      \A j \in DOMAIN top : top[j].score >= heap.processes[i].score
=============================================================================
