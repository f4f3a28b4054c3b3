---------------------------- MODULE SenderProofs ----------------------------
(* What sends the agent's data: the ID that every request needs; the event   *)
(* sender, which keeps the promise of Delivery for any callers, queue,       *)
(* batches and faults; the exporter of telemetry, which sends every item     *)
(* once, and the batch it sends.                                             *)
EXTENDS AgentID, EventSender, Exporter, OTLP, FiniteSetTheorems, StagesProofs

-----------------------------------------------------------------------------
(* The agent's ID                                                            *)

\* A helper is woken only by a Broadcast, which follows the first identity or
\* the end of the context; a returned empty ID needs the latter.
Woken ==
  /\ setter = "stored" => identity # Empty
  /\ \A c \in Callers :
       /\ helper[c] \in {"woken", "closed"} /\ call[c] = "wait" => identity # Empty \/ cancelled
       /\ call[c] = "done" /\ result[c] = Empty => cancelled

\* A listener for both kinds that has nothing to read and has not seen the
\* identity is still to be told, by the call of SetAgentIdentity in progress.
Pending ==
  /\ setter = "idle" => told = {}
  /\ \A l \in Listeners :
       mode[l] = Modes /\ inbox[l] = 0 /\ seen[l] # identity =>
         setter = "stored" \/ (setter = "notify" /\ l \in told)

\* Every step of the callers, the setter and the listeners keeps the types.
LEMMA TypeStep == IDTypeOK /\ [IDNext]_idVars => IDTypeOK'
<1> SUFFICES ASSUME IDTypeOK, [IDNext]_idVars PROVE IDTypeOK'
  OBVIOUS
<1> USE DEF IDTypeOK
<1>1. ASSUME NEW c \in Callers, AgentIDKnown(c) PROVE IDTypeOK'
  BY <1>1 DEF AgentIDKnown
<1>2. ASSUME NEW c \in Callers, AgentIDBlocks(c) PROVE IDTypeOK'
  BY <1>2 DEF AgentIDBlocks
<1>3. ASSUME NEW c \in Callers, HelperWaits(c) PROVE IDTypeOK'
  BY <1>3 DEF HelperWaits
<1>4. ASSUME NEW c \in Callers, HelperCloses(c) PROVE IDTypeOK'
  BY <1>4 DEF HelperCloses
<1>5. ASSUME NEW c \in Callers, AgentIDWakes(c) PROVE IDTypeOK'
  BY <1>5 DEF AgentIDWakes
<1>6. ASSUME NEW c \in Callers, AgentIDCancelled(c) PROVE IDTypeOK'
  BY <1>6 DEF AgentIDCancelled, Broadcast
<1>7. ASSUME NEW id \in Identities, SetFirst(id) PROVE IDTypeOK'
  BY <1>7 DEF SetFirst
<1>8. ASSUME NEW id \in Identities, SetAgain(id) PROVE IDTypeOK'
  BY <1>8 DEF SetAgain, Changes, Interested
<1>9. CASE SetBroadcasts
  BY <1>9 DEF SetBroadcasts, Broadcast, Interested
<1>10. ASSUME NEW l \in Listeners, NotifyListener(l) PROVE IDTypeOK'
  BY <1>10, CapAssumption DEF NotifyListener, Sent
<1>11. CASE SetReturns
  BY <1>11 DEF SetReturns
<1>12. ASSUME NEW l \in Listeners, Receive(l) PROVE IDTypeOK'
  BY <1>12, CapAssumption DEF Receive
<1>13. CASE Cancel
  BY <1>13 DEF Cancel
<1>14. CASE UNCHANGED idVars
  BY <1>14 DEF idVars
<1> QED
  BY <1>1, <1>2, <1>3, <1>4, <1>5, <1>6, <1>7, <1>8, <1>9, <1>10, <1>11, <1>12, <1>13, <1>14
  DEF IDNext, Caller, Setter

\* Every reachable state has the types of IDTypeOK, for any constants.
THEOREM AgentIDTypeCorrect == IDSpec => []IDTypeOK
<1>1. ASSUME IDInit PROVE IDTypeOK
  <2>1. cancelled \in BOOLEAN /\ told \subseteq Listeners
    BY <1>1 DEF IDInit
  <2>2. mode \in [Listeners -> SUBSET Modes]
    BY <1>1 DEF IDInit
  <2>3. inbox \in [Listeners -> 0..ListenerCap]
    BY <1>1, CapAssumption DEF IDInit
  <2>4. /\ identity \in Identities \cup {Empty}
        /\ result \in [Callers -> Identities \cup {Empty}]
        /\ seen \in [Listeners -> Identities \cup {Empty}]
    BY <1>1 DEF IDInit
  <2>5. /\ call \in [Callers -> {"idle", "wait", "done"}]
        /\ helper \in [Callers -> {"none", "started", "parked", "woken", "closed"}]
        /\ setter \in {"idle", "stored", "notify"}
    BY <1>1 DEF IDInit
  <2> QED
    BY <2>1, <2>2, <2>3, <2>4, <2>5 DEF IDTypeOK
<1> QED
  BY <1>1, TypeStep, PTL DEF IDSpec

-----------------------------------------------------------------------------
\* Every step keeps Woken: a Broadcast comes with a reason to return.
LEMMA WokenStep == IDTypeOK /\ Woken /\ [IDNext]_idVars => Woken'
<1> SUFFICES ASSUME IDTypeOK, Woken, [IDNext]_idVars PROVE Woken'
  OBVIOUS
<1> USE EmptyAssumption DEF IDTypeOK, Woken
<1>1. ASSUME NEW c \in Callers, AgentIDKnown(c) PROVE Woken'
  BY <1>1 DEF AgentIDKnown
<1>2. ASSUME NEW c \in Callers, AgentIDBlocks(c) PROVE Woken'
  BY <1>2 DEF AgentIDBlocks
<1>3. ASSUME NEW c \in Callers, HelperWaits(c) PROVE Woken'
  BY <1>3 DEF HelperWaits
<1>4. ASSUME NEW c \in Callers, HelperCloses(c) PROVE Woken'
  BY <1>4 DEF HelperCloses
<1>5. ASSUME NEW c \in Callers, AgentIDWakes(c) PROVE Woken'
  BY <1>5 DEF AgentIDWakes
<1>6. ASSUME NEW c \in Callers, AgentIDCancelled(c) PROVE Woken'
  BY <1>6 DEF AgentIDCancelled, Broadcast
<1>7. ASSUME NEW id \in Identities, SetFirst(id) PROVE Woken'
  BY <1>7 DEF SetFirst
<1>8. ASSUME NEW id \in Identities, SetAgain(id) PROVE Woken'
  BY <1>8 DEF SetAgain
<1>9. CASE SetBroadcasts
  BY <1>9 DEF SetBroadcasts, Broadcast
<1>10. ASSUME NEW l \in Listeners, NotifyListener(l) PROVE Woken'
  BY <1>10 DEF NotifyListener
<1>11. CASE SetReturns
  BY <1>11 DEF SetReturns
<1>12. ASSUME NEW l \in Listeners, Receive(l) PROVE Woken'
  BY <1>12 DEF Receive
<1>13. CASE Cancel
  BY <1>13 DEF Cancel
<1>14. CASE UNCHANGED idVars
  BY <1>14 DEF idVars
<1> QED
  BY <1>1, <1>2, <1>3, <1>4, <1>5, <1>6, <1>7, <1>8, <1>9, <1>10, <1>11, <1>12, <1>13, <1>14
  DEF IDNext, Caller, Setter

\* AgentID gives a caller the empty ID only when the context ended, however the
\* callers, their helpers and SetAgentIdentity interleave.
THEOREM EmptyOnlyWhenCancelled == IDSpec => []NonEmptyResult
<1>1. IDInit => Woken
  BY DEF IDInit, Woken
<1>2. Woken => NonEmptyResult
  BY DEF Woken, NonEmptyResult
<1> QED
  BY <1>1, <1>2, WokenStep, AgentIDTypeCorrect, PTL DEF IDSpec

-----------------------------------------------------------------------------
\* Every step keeps Pending: a dropped notification finds another one waiting.
LEMMA PendingStep == IDTypeOK /\ Pending /\ [IDNext]_idVars => Pending'
<1> SUFFICES ASSUME IDTypeOK, Pending, [IDNext]_idVars PROVE Pending'
  OBVIOUS
<1> USE DEF IDTypeOK, Pending
<1>1. ASSUME NEW c \in Callers, AgentIDKnown(c) \/ AgentIDBlocks(c) \/ Caller(c) PROVE Pending'
  BY <1>1 DEF AgentIDKnown, AgentIDBlocks, Caller, HelperWaits, HelperCloses, AgentIDWakes,
              AgentIDCancelled
<1>2. ASSUME NEW id \in Identities, SetFirst(id) PROVE Pending'
  BY <1>2 DEF SetFirst
<1>3. ASSUME NEW id \in Identities, SetAgain(id) PROVE Pending'
  BY <1>3 DEF SetAgain, Changes, Interested, Modes
<1>4. CASE SetBroadcasts
  BY <1>4 DEF SetBroadcasts, Interested, Modes
<1>5. ASSUME NEW l \in Listeners, NotifyListener(l) PROVE Pending'
  BY <1>5, CapAssumption DEF NotifyListener, Sent
<1>6. CASE SetReturns
  BY <1>6 DEF SetReturns
<1>7. ASSUME NEW l \in Listeners, Receive(l) PROVE Pending'
  BY <1>7 DEF Receive
<1>8. CASE Cancel
  BY <1>8 DEF Cancel
<1>9. CASE UNCHANGED idVars
  BY <1>9 DEF idVars
<1> QED
  BY <1>1, <1>2, <1>3, <1>4, <1>5, <1>6, <1>7, <1>8, <1>9 DEF IDNext, Setter

\* No notification is lost, although SetAgentIdentity drops the ones that find a
\* full channel: between two of its calls a listener for both kinds has one
\* waiting or has read the current identity.
THEOREM NotificationsSuffice == IDSpec => []ListenersCatchUp
<1>1. IDInit => Pending
  BY DEF IDInit, Pending
<1>2. Pending => ListenersCatchUp
  BY DEF Pending, ListenersCatchUp
<1> QED
  BY <1>1, <1>2, PendingStep, AgentIDTypeCorrect, PTL DEF IDSpec

USE Zenon

-----------------------------------------------------------------------------
(* The way of the events                                                     *)

\* Sets of events, the oldest first.
Chain(D, P, B, C, H, Q) ==
  /\ Before(D, P \cup B \cup C \cup H \cup Q) /\ Before(P, B \cup C \cup H \cup Q)
  /\ Before(B, C \cup H \cup Q) /\ Before(C, H \cup Q) /\ Before(H, Q)

\* The batches of a queue, the oldest first.
QueueOrder(q) == \A k, l \in DOMAIN q : k < l => Before(Range(q[k]), Range(q[l]))

LEMMA QueueOrderAppend ==
  ASSUME NEW S, NEW q \in Seq(S), NEW b, QueueOrder(q), Before(AllOf(q), Range(b))
  PROVE  QueueOrder(Append(q, b))
<1>1. /\ DOMAIN Append(q, b) = 1..(Len(q) + 1) /\ DOMAIN q = 1..Len(q) /\ Len(q) \in Nat
      /\ Append(q, b)[Len(q) + 1] = b /\ \A i \in 1..Len(q) : Append(q, b)[i] = q[i]
  BY SMT
<1>2. \A i, j \in 1..(Len(q) + 1) : i < j => i \in 1..Len(q) /\ (j \in 1..Len(q) \/ j = Len(q) + 1)
  BY <1>1, SMT
<1>3. \A i \in 1..Len(q) : Before(Range(q[i]), Range(b))
  BY <1>1, AllIn DEF Before
<1> SUFFICES ASSUME NEW i \in 1..(Len(q) + 1), NEW j \in 1..(Len(q) + 1), i < j
             PROVE  Before(Range(Append(q, b)[i]), Range(Append(q, b)[j]))
  BY <1>1 DEF QueueOrder
<1>4. CASE j = Len(q) + 1
  BY <1>1, <1>2, <1>3, <1>4
<1>5. CASE j \in 1..Len(q)
  BY <1>1, <1>2, <1>5 DEF QueueOrder
<1> QED
  BY <1>2, <1>4, <1>5

LEMMA QueueOrderTail ==
  ASSUME NEW S, NEW q \in Seq(S), q # <<>>, QueueOrder(q)
  PROVE  QueueOrder(Tail(q)) /\ Before(Range(Head(q)), AllOf(Tail(q)))
<1>1. /\ DOMAIN Tail(q) = 1..(Len(q) - 1) /\ DOMAIN q = 1..Len(q) /\ Len(q) \in Nat /\ Len(q) >= 1
      /\ Head(q) = q[1] /\ \A i \in 1..(Len(q) - 1) : Tail(q)[i] = q[i + 1]
  BY SMT
<1>2. /\ 1 \in 1..Len(q) /\ \A i \in 1..(Len(q) - 1) : i + 1 \in 1..Len(q) /\ 1 < i + 1
      /\ \A i, j \in 1..(Len(q) - 1) : i < j => i + 1 < j + 1
  BY <1>1, SMT
<1>3. \A i \in 1..(Len(q) - 1) : Before(Range(Head(q)), Range(Tail(q)[i]))
  BY <1>1, <1>2 DEF QueueOrder
<1>4. \A i, j \in 1..(Len(q) - 1) : i < j => Before(Range(Tail(q)[i]), Range(Tail(q)[j]))
  BY <1>1, <1>2 DEF QueueOrder
<1>5. ASSUME NEW x \in Range(Head(q)), NEW y \in AllOf(Tail(q)) PROVE x < y
  <2>1. PICK i \in 1..(Len(q) - 1) : y \in Range(Tail(q)[i])
    BY <1>1, <1>5, AllIn
  <2> QED
    BY <1>3, <1>5, <2>1 DEF Before
<1> QED
  BY <1>1, <1>4, <1>5 DEF QueueOrder, Before

\* EveryEventOnce of queues, batches, the next event and the events given up.
Once(q, h, b, bq, p, d, n, g) ==
  /\ Increasing(q) /\ Increasing(h) /\ Increasing(b) /\ Increasing(p) /\ Increasing(d)
  /\ \A c \in Range(bq) : Increasing(c)
  /\ QueueOrder(bq)
  /\ Chain(Range(d), Range(p), AllOf(bq), Range(b), Range(h), Range(q))
  /\ (Range(d) \cup Range(p) \cup AllOf(bq) \cup Range(b) \cup Range(h) \cup Range(q)) \cap g = {}
  /\ 1..(n - 1) = Range(d) \cup Range(p) \cup AllOf(bq) \cup Range(b) \cup Range(h) \cup Range(q) \cup g

Way(q, h, b, bq, p) == Range(p) \cup AllOf(bq) \cup Range(b) \cup Range(h) \cup Range(q)

LEMMA QueueOrderEmpty == QueueOrder(<<>>)
<1>1. DOMAIN <<>> = {}
  BY SMT
<1> QED
  BY <1>1 DEF QueueOrder

\* QueueEvent: the event is new.
LEMMA OnceQueue ==
  ASSUME NEW q \in Seq(Nat), NEW h, NEW b, NEW bq, NEW p, NEW d, NEW n \in Nat \ {0}, NEW g,
         Once(q, h, b, bq, p, d, n, g)
  PROVE  Once(Append(q, n), h, b, bq, p, d, n + 1, g) /\ Once(q, h, b, bq, p, d, n + 1, g \cup {n})
<1> DEFINE all == Range(d) \cup Range(p) \cup AllOf(bq) \cup Range(b) \cup Range(h) \cup Range(q)
<1>1. 1..((n + 1) - 1) = 1..(n - 1) \cup {n} /\ \A x \in 1..(n - 1) : x < n
  BY SMT
<1>2. ~(n < n)
  BY SMT
<1>3. all \cup g = 1..(n - 1)
  BY DEF Once
<1>4. Before(all, {n}) /\ n \notin all /\ n \notin g
  BY <1>1, <1>2, <1>3 DEF Before
<1>5. Range(Append(q, n)) = Range(q) \cup {n}
  BY RangeAppend
<1>6. Increasing(Append(q, n))
  <2>1. Before(Range(q), {n})
    BY <1>4 DEF Before
  <2> QED
    BY <2>1, IncreasingAppend DEF Once
<1>7. Chain(Range(d), Range(p), AllOf(bq), Range(b), Range(h), Range(q) \cup {n})
  <2>1. Chain(Range(d), Range(p), AllOf(bq), Range(b), Range(h), Range(q))
    BY DEF Once
  <2> QED
    BY <1>4, <2>1, ZenonT(40) DEF Chain, Before
<1>8. Once(Append(q, n), h, b, bq, p, d, n + 1, g)
  <2>1. Range(d) \cup Range(p) \cup AllOf(bq) \cup Range(b) \cup Range(h) \cup Range(Append(q, n)) = all \cup {n}
    BY <1>5
  <2>2. all \cap g = {}
    BY DEF Once
  <2>3. (all \cup {n}) \cap g = {} /\ 1..((n + 1) - 1) = (all \cup {n}) \cup g
    BY <1>1, <1>3, <1>4, <2>2
  <2> HIDE DEF all
  <2> QED
    BY <1>5, <1>6, <1>7, <2>1, <2>3 DEF Once
<1>9. Once(q, h, b, bq, p, d, n + 1, g \cup {n})
  BY <1>1, <1>3, <1>4 DEF Once
<1> QED
  BY <1>8, <1>9

\* accumulateBatches takes an event, into the batch or to be held.
LEMMA OnceTake ==
  ASSUME NEW q \in Seq(Nat), NEW h, NEW b \in Seq(Nat), NEW bq, NEW p, NEW d, NEW n, NEW g,
         h = <<>>, q # <<>>, Once(q, h, b, bq, p, d, n, g)
  PROVE  Once(Tail(q), <<Head(q)>>, b, bq, p, d, n, g) /\ Once(Tail(q), h, Append(b, Head(q)), bq, p, d, n, g)
<1> DEFINE e == Head(q)
           r == Tail(q)
<1>1. e \in Nat /\ r \in Seq(Nat) /\ Range(q) = {e} \cup Range(r) /\ Range(h) = {}
  BY RangeTail, EmptySequence
<1>2. Increasing(r) /\ Before({e}, Range(r))
  BY IncreasingTail DEF Once
<1>3. Range(<<e>>) = {e} /\ Increasing(<<e>>)
  BY <1>1, OneElement
<1>4. Range(Append(b, e)) = Range(b) \cup {e}
  BY RangeAppend
<1> HIDE DEF e, r
<1>5. Chain(Range(d), Range(p), AllOf(bq), Range(b), {}, {e} \cup Range(r))
  BY <1>1 DEF Once
<1>6. /\ Chain(Range(d), Range(p), AllOf(bq), Range(b), {e}, Range(r))
      /\ Chain(Range(d), Range(p), AllOf(bq), Range(b) \cup {e}, {}, Range(r))
  BY <1>2, <1>5 DEF Chain, Before
<1>7. Increasing(Append(b, e))
  <2>1. Before(Range(b), {e})
    BY <1>5 DEF Chain, Before
  <2> QED
    BY <2>1, IncreasingAppend DEF Once
<1>8. Once(r, <<e>>, b, bq, p, d, n, g)
  BY <1>1, <1>2, <1>3, <1>6 DEF Once
<1>9. Once(r, h, Append(b, e), bq, p, d, n, g)
  BY <1>1, <1>2, <1>4, <1>6, <1>7 DEF Once
<1> QED
  BY <1>8, <1>9 DEF e, r

\* The batch goes to the queue, the held event begins the next one.
LEMMA OncePush ==
  ASSUME NEW q, NEW h, NEW b, NEW bq \in Seq(Seq(Nat)), NEW p, NEW d, NEW n, NEW g, Once(q, h, b, bq, p, d, n, g)
  PROVE  Once(q, <<>>, h, Append(bq, b), p, d, n, g)
<1>1. AllOf(Append(bq, b)) = AllOf(bq) \cup Range(b) /\ Range(Append(bq, b)) = Range(bq) \cup {b}
  BY AllAppend, RangeAppend
<1>2. Chain(Range(d), Range(p), AllOf(bq), Range(b), Range(h), Range(q))
  BY DEF Once
<1>3. Chain(Range(d), Range(p), AllOf(bq) \cup Range(b), Range(h), {}, Range(q))
  BY <1>2 DEF Chain, Before
<1>4. QueueOrder(Append(bq, b))
  <2>1. Before(AllOf(bq), Range(b))
    BY <1>2 DEF Chain, Before
  <2> QED
    BY <2>1, QueueOrderAppend DEF Once
<1> QED
  BY <1>1, <1>3, <1>4, EmptySequence, QueueOrderEmpty DEF Once

\* The accumulator stops with a batch in its hands.
LEMMA OnceDrop ==
  ASSUME NEW q, NEW h, NEW b, NEW bq, NEW p, NEW d, NEW n \in Nat, NEW g, Once(q, h, b, bq, p, d, n, g)
  PROVE  /\ Once(q, <<>>, <<>>, bq, p, d, n, g \cup Range(b) \cup Range(h))
         /\ Way(q, <<>>, <<>>, bq, p) = Way(q, h, b, bq, p) \ (Range(b) \cup Range(h))
         /\ Range(b) \cup Range(h) \subseteq Way(q, h, b, bq, p)
<1>1. Chain(Range(d), Range(p), AllOf(bq), Range(b), Range(h), Range(q))
  BY DEF Once
<1>2. Range(d) \cup Range(p) \cup AllOf(bq) \cup Range(b) \cup Range(h) \subseteq Nat
  <2>1. 1..(n - 1) \subseteq Nat
    BY SMT
  <2> QED
    BY <2>1 DEF Once
<1>3. /\ Range(d) \cap (Range(b) \cup Range(h)) = {} /\ Range(p) \cap (Range(b) \cup Range(h)) = {}
      /\ AllOf(bq) \cap (Range(b) \cup Range(h)) = {} /\ (Range(b) \cup Range(h)) \cap Range(q) = {}
  <2>1. /\ Before(Range(d), Range(b) \cup Range(h)) /\ Before(Range(p), Range(b) \cup Range(h))
        /\ Before(AllOf(bq), Range(b) \cup Range(h)) /\ Before(Range(b) \cup Range(h), Range(q))
    BY <1>1 DEF Chain, Before
  <2>2. /\ Range(d) \subseteq Nat /\ Range(p) \subseteq Nat /\ AllOf(bq) \subseteq Nat
        /\ Range(b) \cup Range(h) \subseteq Nat
    BY <1>2
  <2>3. Range(d) \cap (Range(b) \cup Range(h)) = {} /\ Range(p) \cap (Range(b) \cup Range(h)) = {}
    BY <2>1, <2>2, BeforeApart
  <2>4. AllOf(bq) \cap (Range(b) \cup Range(h)) = {} /\ (Range(b) \cup Range(h)) \cap Range(q) = {}
    BY <2>1, <2>2, BeforeApart
  <2> QED
    BY <2>3, <2>4
<1>4. Chain(Range(d), Range(p), AllOf(bq), {}, {}, Range(q))
  BY <1>1 DEF Chain, Before
<1>5. Once(q, <<>>, <<>>, bq, p, d, n, g \cup Range(b) \cup Range(h))
  <2> DEFINE left == Range(d) \cup Range(p) \cup AllOf(bq) \cup Range(q)
             held2 == Range(b) \cup Range(h)
  <2>1. Range(d) \cup Range(p) \cup AllOf(bq) \cup Range(<<>>) \cup Range(<<>>) \cup Range(q) = left
    BY EmptySequence
  <2>2. Range(d) \cup Range(p) \cup AllOf(bq) \cup Range(b) \cup Range(h) \cup Range(q) = left \cup held2
    OBVIOUS
  <2>3. left \cap held2 = {} /\ g \cup Range(b) \cup Range(h) = g \cup held2
    BY <1>3
  <2>4. (left \cup held2) \cap g = {} /\ 1..(n - 1) = (left \cup held2) \cup g
    BY <2>2 DEF Once
  <2> HIDE DEF left, held2
  <2>5. left \cap (g \cup held2) = {} /\ 1..(n - 1) = left \cup (g \cup held2)
    BY <2>3, <2>4
  <2> QED
    BY <1>4, <2>1, <2>3, <2>5, EmptySequence, QueueOrderEmpty DEF Once
<1> QED
  BY <1>3, <1>5, EmptySequence DEF Way

\* sendBatches takes the oldest batch.
LEMMA OnceTakeBatch ==
  ASSUME NEW q, NEW h, NEW b, NEW bq \in Seq(Seq(Nat)), NEW p, NEW d, NEW n, NEW g,
         p = <<>>, bq # <<>>, Once(q, h, b, bq, p, d, n, g)
  PROVE  /\ Once(q, h, b, Tail(bq), Head(bq), d, n, g)
         /\ Way(q, h, b, Tail(bq), Head(bq)) = Way(q, h, b, bq, p)
<1>1. /\ AllOf(bq) = Range(Head(bq)) \cup AllOf(Tail(bq)) /\ Range(bq) = {Head(bq)} \cup Range(Tail(bq))
      /\ Range(p) = {}
  BY AllTail, RangeTail, EmptySequence
<1>2. QueueOrder(Tail(bq)) /\ Before(Range(Head(bq)), AllOf(Tail(bq)))
  BY QueueOrderTail DEF Once
<1>3. Chain(Range(d), {}, Range(Head(bq)) \cup AllOf(Tail(bq)), Range(b), Range(h), Range(q))
  BY <1>1 DEF Once
<1>4. Chain(Range(d), Range(Head(bq)), AllOf(Tail(bq)), Range(b), Range(h), Range(q))
  BY <1>2, <1>3 DEF Chain, Before
<1>5. Once(q, h, b, Tail(bq), Head(bq), d, n, g)
  BY <1>1, <1>2, <1>4 DEF Once
<1> QED
  BY <1>1, <1>5 DEF Way

\* The post ends: its events arrived or are given up.
LEMMA OncePost ==
  ASSUME NEW q, NEW h, NEW b, NEW bq, NEW p \in Seq(Nat), NEW d \in Seq(Nat), NEW n \in Nat, NEW g,
         Once(q, h, b, bq, p, d, n, g)
  PROVE  /\ Once(q, h, b, bq, <<>>, d \o p, n, g) /\ Once(q, h, b, bq, <<>>, d, n, g \cup Range(p))
         /\ Way(q, h, b, bq, <<>>) = Way(q, h, b, bq, p) \ Range(p) /\ Range(p) \subseteq Way(q, h, b, bq, p)
         /\ Increasing(p) /\ Before(Range(p), Way(q, h, b, bq, p) \ Range(p))
<1> DEFINE rest == AllOf(bq) \cup Range(b) \cup Range(h) \cup Range(q)
<1>1. Chain(Range(d), Range(p), AllOf(bq), Range(b), Range(h), Range(q))
  BY DEF Once
<1>2. Before(Range(d), Range(p)) /\ Before(Range(p), rest)
  BY <1>1 DEF Chain, Before
<1>3. Range(d) \cap Range(p) = {} /\ Range(p) \cap rest = {}
  <2>1. 1..(n - 1) \subseteq Nat
    BY SMT
  <2>2. Range(d) \subseteq Nat /\ Range(p) \subseteq Nat
    BY <2>1 DEF Once
  <2> QED
    BY <1>2, <2>2, BeforeApart
<1>4. Range(d \o p) = Range(d) \cup Range(p) /\ Increasing(d \o p)
  <2>1. Range(d \o p) = Range(d) \cup Range(p)
    BY RangeConcat, SMT
  <2>2. Increasing(d) /\ Increasing(p)
    BY DEF Once
  <2>3. Increasing(d \o p)
    BY <1>2, <2>2, IncreasingConcat
  <2> QED
    BY <2>1, <2>3
<1>5. /\ Chain(Range(d) \cup Range(p), {}, AllOf(bq), Range(b), Range(h), Range(q))
      /\ Chain(Range(d), {}, AllOf(bq), Range(b), Range(h), Range(q))
  BY <1>1 DEF Chain, Before
<1>6. Once(q, h, b, bq, <<>>, d \o p, n, g)
  BY <1>3, <1>4, <1>5, EmptySequence, QueueOrderEmpty DEF Once
<1>7. Once(q, h, b, bq, <<>>, d, n, g \cup Range(p))
  BY <1>3, <1>5, EmptySequence, QueueOrderEmpty DEF Once
<1>8. Way(q, h, b, bq, p) = Range(p) \cup rest /\ Way(q, h, b, bq, <<>>) = rest
  BY EmptySequence DEF Way
<1>9. Way(q, h, b, bq, p) \ Range(p) = rest
  BY <1>3, <1>8
<1> QED
  BY <1>2, <1>6, <1>7, <1>8, <1>9 DEF Once

-----------------------------------------------------------------------------
(* The event sender                                                          *)

SenderTypeOK ==
  /\ next \in Nat \ {0}
  /\ eventQueue \in Seq(Nat) /\ batch \in Seq(Nat) /\ held \in Seq(Nat) /\ posting \in Seq(Nat)
  /\ batchQueue \in Seq(Seq(Nat)) /\ delivered \in Seq(Nat)
  /\ main \in {"stopped", "running", "stopping"}
  /\ acc \in {"done", "select", "push"} /\ snd \in {"done", "select", "post", "backoff"}
  /\ rep \in {"done", "select"}

\* The goroutines hold events only where they say so, and there are none of them once the
\* sender stopped.
HandsEmpty ==
  /\ main = "stopped" => acc = "done" /\ snd = "done" /\ rep = "done"
  /\ acc = "done" => batch = <<>>
  /\ acc # "push" => held = <<>>
  /\ snd # "post" => posting = <<>>

\* No batch has more than MaxCount events.
BatchesBounded ==
  /\ Len(held) <= 1 /\ Len(batch) <= MaxCount /\ Len(posting) <= MaxCount
  /\ \A b \in Range(batchQueue) : Len(b) <= MaxCount

SenderInv == SenderTypeOK /\ HandsEmpty /\ BatchesBounded /\ EveryEventOnce

LEMMA OnceIsOnce ==
  /\ EveryEventOnce <=> Once(eventQueue, held, batch, batchQueue, posting, delivered, next, GivenUp)
  /\ EveryEventOnce' <=> Once(eventQueue', held', batch', batchQueue', posting', delivered', next', GivenUp')
  /\ OnTheWay = Way(eventQueue, held, batch, batchQueue, posting)
  /\ OnTheWay' = Way(eventQueue', held', batch', batchQueue', posting')
<1>1. /\ OnTheWay = Way(eventQueue, held, batch, batchQueue, posting)
      /\ OnTheWay' = Way(eventQueue', held', batch', batchQueue', posting')
  BY DEF OnTheWay, Way, Accumulated
<1>2. /\ Range(delivered) \cup OnTheWay = Range(delivered) \cup Range(posting) \cup AllOf(batchQueue)
                                      \cup Range(batch) \cup Range(held) \cup Range(eventQueue)
      /\ AllOf(batchQueue) \cup Accumulated = AllOf(batchQueue) \cup Range(batch) \cup Range(held) \cup Range(eventQueue)
      /\ Accumulated = Range(batch) \cup Range(held) \cup Range(eventQueue)
      /\ Range(delivered)' \cup OnTheWay' = Range(delivered') \cup Range(posting') \cup AllOf(batchQueue')
                                      \cup Range(batch') \cup Range(held') \cup Range(eventQueue')
      /\ AllOf(batchQueue') \cup Accumulated' = AllOf(batchQueue') \cup Range(batch') \cup Range(held') \cup Range(eventQueue')
      /\ Accumulated' = Range(batch') \cup Range(held') \cup Range(eventQueue')
  BY DEF OnTheWay, Accumulated
<1>3. EveryEventOnce <=> Once(eventQueue, held, batch, batchQueue, posting, delivered, next, GivenUp)
  <2>1. OldestFirst <=>
          /\ Increasing(eventQueue) /\ Increasing(held) /\ Increasing(batch) /\ Increasing(posting) /\ Increasing(delivered)
          /\ \A c \in Range(batchQueue) : Increasing(c)
          /\ QueueOrder(batchQueue)
          /\ Chain(Range(delivered), Range(posting), AllOf(batchQueue), Range(batch), Range(held), Range(eventQueue))
    BY <1>1, <1>2 DEF OldestFirst, QueueOrder, Chain, Way
  <2> QED
    BY <1>2, <2>1 DEF EveryEventOnce, Once
<1>4. EveryEventOnce' <=> Once(eventQueue', held', batch', batchQueue', posting', delivered', next', GivenUp')
  <2>1. OldestFirst' <=>
          /\ Increasing(eventQueue') /\ Increasing(held') /\ Increasing(batch') /\ Increasing(posting') /\ Increasing(delivered')
          /\ \A c \in Range(batchQueue') : Increasing(c)
          /\ QueueOrder(batchQueue')
          /\ Chain(Range(delivered'), Range(posting'), AllOf(batchQueue'), Range(batch'), Range(held'), Range(eventQueue'))
    BY <1>1, <1>2 DEF OldestFirst, QueueOrder, Chain, Way
  <2> QED
    BY <1>2, <2>1 DEF EveryEventOnce, Once
<1> QED
  BY <1>1, <1>3, <1>4

LEMMA OnceNext ==
  ASSUME NEW q, NEW h, NEW b, NEW bq, NEW p, NEW d, NEW n, NEW g,
         eventQueue' = q, held' = h, batch' = b, batchQueue' = bq, posting' = p, delivered' = d, next' = n, GivenUp' = g,
         Once(q, h, b, bq, p, d, n, g)
  PROVE  EveryEventOnce' /\ OnTheWay' = Way(q, h, b, bq, p)
BY OnceIsOnce

LEMMA SenderInvInit == Init => SenderInv /\ Promise!DeliveryInit
<1> SUFFICES ASSUME Init PROVE SenderInv /\ Promise!DeliveryInit
  OBVIOUS
<1>1. <<>> \in Seq(Seq(Nat)) /\ 1 \in Nat \ {0} /\ 1 - 1 = 0 /\ 1..0 = {} /\ MaxCount \in Nat /\ 0 <= 1 /\ 0 <= MaxCount
  BY BoundsAssumption, SMT
<1>2. SenderTypeOK /\ HandsEmpty
  BY <1>1, EmptySequence DEF Init, SenderTypeOK, HandsEmpty
<1>3. BatchesBounded
  BY <1>1, EmptySequence DEF Init, BatchesBounded
<1>4. OnTheWay = {} /\ GivenUp = {}
  BY EmptySequence DEF Init, OnTheWay, Accumulated, GivenUp
<1>5. Once(eventQueue, held, batch, batchQueue, posting, delivered, next, GivenUp)
  BY <1>1, <1>4, EmptySequence, QueueOrderEmpty DEF Init, Once, Chain, Before
<1> QED
  BY <1>1, <1>2, <1>3, <1>4, <1>5, OnceIsOnce DEF SenderInv, Promise!DeliveryInit, Init

-----------------------------------------------------------------------------
(* Every step of the sender is one of Delivery or changes nothing there      *)

LEMMA StepSame ==
  ASSUME UNCHANGED <<next, OnTheWay, delivered, GivenUp>>
  PROVE  [Promise!DeliveryNext]_(Promise!deliveryVars)
BY DEF Promise!deliveryVars

LEMMA StepOffer ==
  ASSUME next \in Nat, next' = next + 1, delivered' = delivered,
         \/ OnTheWay' = OnTheWay \cup {next} /\ GivenUp' = GivenUp
         \/ OnTheWay' = OnTheWay /\ GivenUp' = GivenUp \cup {next}
  PROVE  [Promise!DeliveryNext]_(Promise!deliveryVars)
<1>1. next' - 1 = (next - 1) + 1 /\ (next - 1) + 1 = next
  BY SMT
<1> QED
  BY <1>1 DEF Promise!DeliveryNext, Promise!Accept, Promise!Refuse

LEMMA StepGiveUp ==
  ASSUME NEW S, S \subseteq OnTheWay, next' = next, delivered' = delivered,
         OnTheWay' = OnTheWay \ S, GivenUp' = GivenUp \cup S
  PROVE  [Promise!DeliveryNext]_(Promise!deliveryVars)
<1>1. Promise!GiveUp(S)
  BY DEF Promise!GiveUp
<1> QED
  BY <1>1 DEF Promise!DeliveryNext

LEMMA StepArrive ==
  ASSUME NEW s \in Seq(Nat), Range(s) \subseteq OnTheWay, Len(s) <= MaxCount,
         Increasing(s), Before(Range(s), OnTheWay \ Range(s)),
         next' = next, delivered \in Seq(Nat), delivered' = delivered \o s,
         OnTheWay' = OnTheWay \ Range(s), GivenUp' = GivenUp
  PROVE  [Promise!DeliveryNext]_(Promise!deliveryVars)
<1>1. CASE s = <<>>
  <2>1. delivered' = delivered
    BY <1>1, SMT
  <2> QED
    BY <1>1, <2>1, EmptySequence, StepSame
<1>2. CASE s # <<>>
  <2>1. Len(s) \in 1..MaxCount /\ DOMAIN s = 1..Len(s) /\ s = [i \in 1..Len(s) |-> s[i]]
    BY <1>2, BoundsAssumption, SMT
  <2>2. s \in [1..Len(s) -> OnTheWay]
    BY <2>1 DEF Range
  <2>3. Promise!Arrive(s)
    BY DEF Promise!Arrive, Promise!Increasing, Promise!Before, Promise!Range, Increasing, Before, Range
  <2> QED
    BY <2>1, <2>2, <2>3 DEF Promise!DeliveryNext
<1> QED
  BY <1>1, <1>2

\* What an action has to show.
Kept == SenderInv' /\ [Promise!DeliveryNext]_(Promise!deliveryVars)

LEMMA SenderFacts ==
  ASSUME SenderInv
  PROVE  /\ Once(eventQueue, held, batch, batchQueue, posting, delivered, next, GivenUp)
         /\ OnTheWay = Way(eventQueue, held, batch, batchQueue, posting)
         /\ next \in Nat \ {0} /\ next \in Nat /\ MaxCount \in Nat /\ 1 <= MaxCount
         /\ eventQueue \in Seq(Nat) /\ batch \in Seq(Nat) /\ held \in Seq(Nat) /\ posting \in Seq(Nat)
         /\ batchQueue \in Seq(Seq(Nat)) /\ delivered \in Seq(Nat)
         /\ Len(batch) \in Nat
<1>1. MaxCount \in Nat /\ 1 <= MaxCount
  BY BoundsAssumption, SMT
<1>2. batch \in Seq(Nat)
  BY DEF SenderInv, SenderTypeOK
<1>3. Len(batch) \in Nat
  BY <1>2, SMT
<1> QED
  BY <1>1, <1>2, <1>3, OnceIsOnce DEF SenderInv, SenderTypeOK

\* The agent, the reporter and the timers move no event.
LEMMA ControlKeeps ==
  ASSUME SenderInv, Start \/ Stop \/ StopReturns \/ ReporterStops \/ BatchTimer \/ BackoffEnds \/ SenderStops
  PROVE  Kept
<1>1. UNCHANGED <<next, eventQueue, batch, held, batchQueue, posting, delivered, refused, failed, dropped>>
  BY DEF Start, Stop, StopReturns, ReporterStops, BatchTimer, BackoffEnds, SenderStops, queues, ledger,
         SenderInv, HandsEmpty
<1>2. /\ main' \in {"stopped", "running", "stopping"} /\ acc' \in {"done", "select", "push"}
      /\ snd' \in {"done", "select", "post", "backoff"} /\ rep' \in {"done", "select"}
  BY DEF Start, Stop, StopReturns, ReporterStops, BatchTimer, BackoffEnds, SenderStops, SenderInv, SenderTypeOK
<1>3. SenderTypeOK' /\ BatchesBounded'
  BY <1>1, <1>2 DEF SenderInv, SenderTypeOK, BatchesBounded
<1>4. HandsEmpty'
  <2>1. CASE Start
    BY <1>1, <2>1 DEF Start, SenderInv, HandsEmpty
  <2>2. CASE Stop \/ StopReturns \/ ReporterStops
    BY <1>1, <2>2 DEF Stop, StopReturns, ReporterStops, SenderInv, HandsEmpty
  <2>3. CASE BatchTimer \/ BackoffEnds \/ SenderStops
    BY <1>1, <2>3 DEF BatchTimer, BackoffEnds, SenderStops, SenderInv, HandsEmpty
  <2> QED
    BY <2>1, <2>2, <2>3
<1>5. GivenUp' = GivenUp /\ OnTheWay' = OnTheWay
  BY <1>1 DEF GivenUp, OnTheWay, Accumulated
<1>6. EveryEventOnce'
  BY <1>1, <1>5, SenderFacts, OnceIsOnce
<1> QED
  BY <1>1, <1>3, <1>4, <1>5, <1>6, StepSame DEF Kept, SenderInv

LEMMA QueueKeeps == ASSUME SenderInv, QueueEvent PROVE Kept
<1>1. /\ next' = next + 1
      /\ UNCHANGED <<batch, held, batchQueue, posting, main, acc, snd, rep, delivered, failed, dropped>>
      /\ \/ eventQueue' = Append(eventQueue, next) /\ refused' = refused
         \/ eventQueue' = eventQueue /\ refused' = refused \cup {next}
  BY DEF QueueEvent
<1>2. next + 1 \in Nat \ {0} /\ Append(eventQueue, next) \in Seq(Nat)
  BY SenderFacts, SMT
<1>3. SenderTypeOK' /\ HandsEmpty' /\ BatchesBounded'
  BY <1>1, <1>2 DEF SenderInv, SenderTypeOK, HandsEmpty, BatchesBounded
<1>4. CASE eventQueue' = Append(eventQueue, next) /\ refused' = refused
  <2>1. GivenUp' = GivenUp
    BY <1>1, <1>4 DEF GivenUp
  <2>2. EveryEventOnce' /\ OnTheWay' = OnTheWay \cup {next}
    <3>1. /\ Once(eventQueue, held, batch, batchQueue, posting, delivered, next, GivenUp)
          /\ eventQueue \in Seq(Nat) /\ next \in Nat \ {0}
      BY SenderFacts
    <3>2. Once(Append(eventQueue, next), held, batch, batchQueue, posting, delivered, next + 1, GivenUp)
      BY <3>1, OnceQueue
    <3>3. Way(Append(eventQueue, next), held, batch, batchQueue, posting)
            = Way(eventQueue, held, batch, batchQueue, posting) \cup {next}
      <4>1. Range(Append(eventQueue, next)) = Range(eventQueue) \cup {next}
        BY <3>1, RangeAppend
      <4> QED
        BY <4>1 DEF Way
    <3>8. EveryEventOnce' /\ OnTheWay' = Way(Append(eventQueue, next), held, batch, batchQueue, posting)
      <4>1. /\ eventQueue' = Append(eventQueue, next) /\ held' = held /\ batch' = batch /\ next' = next + 1
            /\ batchQueue' = batchQueue /\ posting' = posting /\ delivered' = delivered
        BY <1>1, <1>4
      <4> QED
        BY <2>1, <3>2, <4>1, OnceNext
    <3>9. OnTheWay = Way(eventQueue, held, batch, batchQueue, posting)
      BY OnceIsOnce
    <3> QED
      BY <3>3, <3>8, <3>9
  <2> QED
    BY <1>1, <1>3, <2>1, <2>2, SenderFacts, StepOffer DEF Kept, SenderInv
<1>5. CASE eventQueue' = eventQueue /\ refused' = refused \cup {next}
  <2>1. GivenUp' = GivenUp \cup {next}
    BY <1>1, <1>5 DEF GivenUp
  <2>2. EveryEventOnce' /\ OnTheWay' = OnTheWay
    <3>1. Once(eventQueue, held, batch, batchQueue, posting, delivered, next + 1, GivenUp \cup {next})
      BY SenderFacts, OnceQueue
    <3> QED
      BY <1>1, <1>5, <2>1, <3>1, OnceIsOnce
  <2> QED
    BY <1>1, <1>3, <2>1, <2>2, SenderFacts, StepOffer DEF Kept, SenderInv
<1> QED
  BY <1>1, <1>4, <1>5

LEMMA TakeKeeps == ASSUME SenderInv, TakeEvent PROVE Kept
<1>1. /\ acc = "select" /\ eventQueue # <<>> /\ eventQueue' = Tail(eventQueue) /\ held = <<>>
      /\ UNCHANGED <<next, batchQueue, posting, main, snd, rep, delivered, refused, failed, dropped>>
      /\ \/ acc' = "push" /\ held' = <<Head(eventQueue)>> /\ batch' = batch
         \/ /\ ~BatchFull(Head(eventQueue))
            /\ batch' = Append(batch, Head(eventQueue)) /\ acc' = acc /\ held' = held
  BY DEF TakeEvent, ledger, SenderInv, HandsEmpty
<1>2. Head(eventQueue) \in Nat /\ Tail(eventQueue) \in Seq(Nat)
  BY <1>1, SenderFacts, RangeTail
<1>3. GivenUp' = GivenUp
  BY <1>1 DEF GivenUp
<1>6. /\ Once(eventQueue, held, batch, batchQueue, posting, delivered, next, GivenUp)
      /\ eventQueue \in Seq(Nat) /\ batch \in Seq(Nat)
  BY SenderFacts
<1>7. Range(eventQueue) = {Head(eventQueue)} \cup Range(Tail(eventQueue)) /\ Range(held) = {}
  BY <1>1, <1>6, RangeTail, EmptySequence
<1>4. CASE acc' = "push" /\ held' = <<Head(eventQueue)>> /\ batch' = batch
  <2>1. held' \in Seq(Nat) /\ Len(held') <= 1
    BY <1>2, <1>4, OneElement, SMT
  <2>2. SenderTypeOK' /\ HandsEmpty' /\ BatchesBounded'
    BY <1>1, <1>2, <1>4, <2>1 DEF SenderInv, SenderTypeOK, HandsEmpty, BatchesBounded
  <2>3. EveryEventOnce' /\ OnTheWay' = OnTheWay
    <3>1. Once(Tail(eventQueue), <<Head(eventQueue)>>, batch, batchQueue, posting, delivered, next, GivenUp)
      BY <1>1, <1>6, OnceTake
    <3>2. Way(Tail(eventQueue), <<Head(eventQueue)>>, batch, batchQueue, posting)
            = Way(eventQueue, held, batch, batchQueue, posting)
      <4>1. Range(<<Head(eventQueue)>>) = {Head(eventQueue)}
        BY <1>2, OneElement
      <4> QED
        BY <1>7, <4>1 DEF Way
    <3>8. EveryEventOnce' /\ OnTheWay' = Way(Tail(eventQueue), <<Head(eventQueue)>>, batch, batchQueue, posting)
      <4>1. /\ eventQueue' = Tail(eventQueue) /\ held' = <<Head(eventQueue)>> /\ batch' = batch
            /\ batchQueue' = batchQueue /\ posting' = posting /\ delivered' = delivered /\ next' = next
        BY <1>1, <1>4
      <4> QED
        BY <1>3, <3>1, <4>1, OnceNext
    <3>9. OnTheWay = Way(eventQueue, held, batch, batchQueue, posting)
      BY OnceIsOnce
    <3> QED
      BY <3>2, <3>8, <3>9
  <2> QED
    BY <1>1, <1>3, <2>2, <2>3, StepSame DEF Kept, SenderInv
<1>5. CASE /\ ~BatchFull(Head(eventQueue))
           /\ batch' = Append(batch, Head(eventQueue)) /\ acc' = acc /\ held' = held
  <2>1. Len(batch) # MaxCount /\ Len(batch) <= MaxCount
    BY <1>5 DEF BatchFull, SenderInv, BatchesBounded
  <2>2. batch' \in Seq(Nat) /\ Len(batch') <= MaxCount
    BY <1>2, <1>5, <2>1, SenderFacts, SMT
  <2>3. SenderTypeOK' /\ HandsEmpty' /\ BatchesBounded'
    BY <1>1, <1>2, <1>5, <2>2 DEF SenderInv, SenderTypeOK, HandsEmpty, BatchesBounded
  <2>4. EveryEventOnce' /\ OnTheWay' = OnTheWay
    <3>1. Once(Tail(eventQueue), held, Append(batch, Head(eventQueue)), batchQueue, posting, delivered, next, GivenUp)
      BY <1>1, <1>6, OnceTake
    <3>2. Way(Tail(eventQueue), held, Append(batch, Head(eventQueue)), batchQueue, posting)
            = Way(eventQueue, held, batch, batchQueue, posting)
      <4>1. Range(Append(batch, Head(eventQueue))) = Range(batch) \cup {Head(eventQueue)}
        BY <1>6, RangeAppend
      <4> QED
        BY <1>7, <4>1 DEF Way
    <3>8. EveryEventOnce' /\ OnTheWay' = Way(Tail(eventQueue), held, Append(batch, Head(eventQueue)), batchQueue, posting)
      <4>1. /\ eventQueue' = Tail(eventQueue) /\ held' = held /\ batch' = Append(batch, Head(eventQueue))
            /\ batchQueue' = batchQueue /\ posting' = posting /\ delivered' = delivered /\ next' = next
        BY <1>1, <1>5
      <4> QED
        BY <1>3, <3>1, <4>1, OnceNext
    <3>9. OnTheWay = Way(eventQueue, held, batch, batchQueue, posting)
      BY OnceIsOnce
    <3> QED
      BY <3>2, <3>8, <3>9
  <2> QED
    BY <1>1, <1>3, <2>3, <2>4, StepSame DEF Kept, SenderInv
<1> QED
  BY <1>1, <1>4, <1>5

LEMMA PushKeeps == ASSUME SenderInv, PushBatch PROVE Kept
<1>1. /\ acc = "push" /\ acc' = "select" /\ batchQueue' = Append(batchQueue, batch) /\ batch' = held /\ held' = <<>>
      /\ UNCHANGED <<next, eventQueue, posting, main, snd, rep, delivered, refused, failed, dropped>>
  BY DEF PushBatch, ledger
<1>2. batchQueue' \in Seq(Seq(Nat))
  BY <1>1, SenderFacts, SMT
<1>3. SenderTypeOK' /\ HandsEmpty'
  BY <1>1, <1>2, EmptySequence DEF SenderInv, SenderTypeOK, HandsEmpty
<1>4. BatchesBounded'
  <2>1. Len(held) <= MaxCount /\ 0 <= 1
    <3>1. Len(held) <= 1 /\ held \in Seq(Nat)
      BY DEF SenderInv, SenderTypeOK, BatchesBounded
    <3> QED
      BY <3>1, SenderFacts, SMT
  <2>2. Range(batchQueue') = Range(batchQueue) \cup {batch}
    BY <1>1, SenderFacts, RangeAppend
  <2> QED
    BY <1>1, <2>1, <2>2, EmptySequence DEF SenderInv, BatchesBounded
<1>5. GivenUp' = GivenUp
  BY <1>1 DEF GivenUp
<1>6. EveryEventOnce' /\ OnTheWay' = OnTheWay
  <2>1. /\ Once(eventQueue, held, batch, batchQueue, posting, delivered, next, GivenUp)
        /\ batchQueue \in Seq(Seq(Nat))
    BY SenderFacts
  <2>2. Once(eventQueue, <<>>, held, Append(batchQueue, batch), posting, delivered, next, GivenUp)
    BY <2>1, OncePush
  <2>3. Way(eventQueue, <<>>, held, Append(batchQueue, batch), posting)
          = Way(eventQueue, held, batch, batchQueue, posting)
    <3>1. AllOf(Append(batchQueue, batch)) = AllOf(batchQueue) \cup Range(batch) /\ Range(<<>>) = {}
      BY <2>1, AllAppend, EmptySequence
    <3> QED
      BY <3>1 DEF Way
  <2>8. EveryEventOnce' /\ OnTheWay' = Way(eventQueue, <<>>, held, Append(batchQueue, batch), posting)
    <3>1. /\ eventQueue' = eventQueue /\ held' = <<>> /\ batch' = held /\ next' = next
          /\ batchQueue' = Append(batchQueue, batch) /\ posting' = posting /\ delivered' = delivered
      BY <1>1
    <3> QED
      BY <1>5, <2>2, <3>1, OnceNext
  <2>9. OnTheWay = Way(eventQueue, held, batch, batchQueue, posting)
    BY OnceIsOnce
  <2> QED
    BY <2>3, <2>8, <2>9
<1> QED
  BY <1>1, <1>3, <1>4, <1>5, <1>6, StepSame DEF Kept, SenderInv

LEMMA DropKeeps == ASSUME SenderInv, AccumulatorStops PROVE Kept
<1>1. /\ main = "stopping" /\ acc' = "done" /\ batch' = <<>> /\ held' = <<>>
      /\ dropped' = dropped \cup Range(batch) \cup Range(held)
      /\ UNCHANGED <<next, eventQueue, batchQueue, posting, main, snd, rep, delivered, refused, failed>>
  BY DEF AccumulatorStops, queues
<1>2. SenderTypeOK' /\ HandsEmpty'
  BY <1>1, EmptySequence DEF SenderInv, SenderTypeOK, HandsEmpty
<1>3. BatchesBounded'
  <2>1. 0 <= 1 /\ 0 <= MaxCount
    BY SenderFacts, SMT
  <2> QED
    BY <1>1, <2>1, EmptySequence DEF SenderInv, BatchesBounded
<1>4. GivenUp' = GivenUp \cup Range(batch) \cup Range(held)
  BY <1>1 DEF GivenUp
<1>5. /\ EveryEventOnce' /\ OnTheWay' = OnTheWay \ (Range(batch) \cup Range(held))
      /\ Range(batch) \cup Range(held) \subseteq OnTheWay
  <2>1. Once(eventQueue, held, batch, batchQueue, posting, delivered, next, GivenUp) /\ next \in Nat
    BY SenderFacts
  <2>2. Once(eventQueue, <<>>, <<>>, batchQueue, posting, delivered, next, GivenUp \cup Range(batch) \cup Range(held))
    BY <2>1, OnceDrop
  <2>3. /\ Way(eventQueue, <<>>, <<>>, batchQueue, posting)
             = Way(eventQueue, held, batch, batchQueue, posting) \ (Range(batch) \cup Range(held))
        /\ Range(batch) \cup Range(held) \subseteq Way(eventQueue, held, batch, batchQueue, posting)
    BY <2>1, OnceDrop
  <2> QED
    BY <1>1, <1>4, <2>2, <2>3, OnceIsOnce
<1> QED
  BY <1>1, <1>2, <1>3, <1>4, <1>5, StepGiveUp DEF Kept, SenderInv

LEMMA TakeBatchKeeps == ASSUME SenderInv, TakeBatch PROVE Kept
<1>1. /\ snd = "select" /\ batchQueue # <<>> /\ posting = <<>> /\ snd' = "post"
      /\ posting' = Head(batchQueue) /\ batchQueue' = Tail(batchQueue)
      /\ UNCHANGED <<next, eventQueue, batch, held, main, acc, rep, delivered, refused, failed, dropped>>
  BY DEF TakeBatch, ledger, SenderInv, HandsEmpty
<1>2. /\ Head(batchQueue) \in Seq(Nat) /\ Tail(batchQueue) \in Seq(Seq(Nat))
      /\ Range(batchQueue) = {Head(batchQueue)} \cup Range(Tail(batchQueue))
  BY <1>1, SenderFacts, RangeTail
<1>3. SenderTypeOK' /\ HandsEmpty' /\ BatchesBounded'
  BY <1>1, <1>2 DEF SenderInv, SenderTypeOK, HandsEmpty, BatchesBounded
<1>4. GivenUp' = GivenUp
  BY <1>1 DEF GivenUp
<1>5. EveryEventOnce' /\ OnTheWay' = OnTheWay
  <2>1. /\ Once(eventQueue, held, batch, batchQueue, posting, delivered, next, GivenUp)
        /\ batchQueue \in Seq(Seq(Nat))
    BY SenderFacts
  <2>2. Once(eventQueue, held, batch, Tail(batchQueue), Head(batchQueue), delivered, next, GivenUp)
    BY <1>1, <2>1, OnceTakeBatch
  <2>3. Way(eventQueue, held, batch, Tail(batchQueue), Head(batchQueue))
          = Way(eventQueue, held, batch, batchQueue, posting)
    BY <1>1, <2>1, OnceTakeBatch
  <2> QED
    BY <1>1, <1>4, <2>2, <2>3, OnceIsOnce
<1> QED
  BY <1>1, <1>3, <1>4, <1>5, StepSame DEF Kept, SenderInv

LEMMA PostKeeps == ASSUME SenderInv, PostSucceeds \/ \E wait \in BOOLEAN : PostFails(wait) PROVE Kept
<1>1. /\ snd = "post" /\ snd' \in {"select", "backoff"} /\ posting' = <<>>
      /\ UNCHANGED <<next, eventQueue, batchQueue, batch, held, main, acc, rep, refused, dropped>>
      /\ \/ delivered' = delivered \o posting /\ failed' = failed
         \/ delivered' = delivered /\ failed' = failed \cup Range(posting)
  BY DEF PostSucceeds, PostFails, queues
<1>2. 0 <= MaxCount /\ delivered \o posting \in Seq(Nat) /\ Len(posting) <= MaxCount
  <2>1. delivered \o posting \in Seq(Nat) /\ 0 <= MaxCount
    BY SenderFacts, SMT
  <2> QED
    BY <2>1 DEF SenderInv, BatchesBounded
<1>3. SenderTypeOK' /\ HandsEmpty' /\ BatchesBounded'
  BY <1>1, <1>2, EmptySequence DEF SenderInv, SenderTypeOK, HandsEmpty, BatchesBounded
<1>4. /\ Once(eventQueue, held, batch, batchQueue, <<>>, delivered \o posting, next, GivenUp)
      /\ Once(eventQueue, held, batch, batchQueue, <<>>, delivered, next, GivenUp \cup Range(posting))
      /\ Way(eventQueue, held, batch, batchQueue, <<>>) = OnTheWay \ Range(posting)
      /\ Range(posting) \subseteq OnTheWay
      /\ Increasing(posting) /\ Before(Range(posting), OnTheWay \ Range(posting))
  <2>1. /\ Once(eventQueue, held, batch, batchQueue, posting, delivered, next, GivenUp)
        /\ posting \in Seq(Nat) /\ delivered \in Seq(Nat) /\ next \in Nat
    BY SenderFacts
  <2>2. OnTheWay = Way(eventQueue, held, batch, batchQueue, posting)
    BY OnceIsOnce
  <2>3. /\ Once(eventQueue, held, batch, batchQueue, <<>>, delivered \o posting, next, GivenUp)
        /\ Once(eventQueue, held, batch, batchQueue, <<>>, delivered, next, GivenUp \cup Range(posting))
    BY <2>1, OncePost
  <2>4. /\ Way(eventQueue, held, batch, batchQueue, <<>>) = OnTheWay \ Range(posting)
        /\ Range(posting) \subseteq OnTheWay
        /\ Increasing(posting) /\ Before(Range(posting), OnTheWay \ Range(posting))
    BY <2>1, <2>2, OncePost
  <2> QED
    BY <2>3, <2>4
<1>5. OnTheWay' = OnTheWay \ Range(posting)
  BY <1>1, <1>4, OnceIsOnce
<1>6. CASE delivered' = delivered \o posting /\ failed' = failed
  <2>1. GivenUp' = GivenUp
    BY <1>1, <1>6 DEF GivenUp
  <2>2. EveryEventOnce'
    BY <1>1, <1>4, <1>6, <2>1, OnceIsOnce
  <2>3. [Promise!DeliveryNext]_(Promise!deliveryVars)
    BY <1>1, <1>2, <1>4, <1>5, <1>6, <2>1, SenderFacts, StepArrive
  <2> QED
    BY <1>3, <2>2, <2>3 DEF Kept, SenderInv
<1>7. CASE delivered' = delivered /\ failed' = failed \cup Range(posting)
  <2>1. GivenUp' = GivenUp \cup Range(posting)
    BY <1>1, <1>7 DEF GivenUp
  <2>2. EveryEventOnce'
    BY <1>1, <1>4, <1>7, <2>1, OnceIsOnce
  <2>3. [Promise!DeliveryNext]_(Promise!deliveryVars)
    BY <1>1, <1>4, <1>5, <1>7, <2>1, StepGiveUp
  <2> QED
    BY <1>3, <2>2, <2>3 DEF Kept, SenderInv
<1> QED
  BY <1>1, <1>6, <1>7

LEMMA SenderInvStep == SenderInv /\ [Next]_vars => Kept
<1> SUFFICES ASSUME SenderInv, [Next]_vars PROVE Kept
  OBVIOUS
<1>1. CASE UNCHANGED vars
  <2>1. UNCHANGED <<next, eventQueue, batch, held, batchQueue, posting, main, acc, snd, rep,
                    delivered, refused, failed, dropped>>
    BY <1>1 DEF vars, ledger
  <2>2. SenderTypeOK' /\ HandsEmpty' /\ BatchesBounded' /\ GivenUp' = GivenUp /\ OnTheWay' = OnTheWay
    BY <2>1 DEF SenderInv, SenderTypeOK, HandsEmpty, BatchesBounded, GivenUp, OnTheWay, Accumulated
  <2>3. EveryEventOnce'
    BY <2>1, <2>2, SenderFacts, OnceIsOnce
  <2> QED
    BY <2>1, <2>2, <2>3, StepSame DEF Kept, SenderInv
<1>2. CASE Next
  BY <1>2, ControlKeeps, QueueKeeps, TakeKeeps, PushKeeps, DropKeeps, TakeBatchKeeps, PostKeeps
     DEF Next, Accumulator, Sender
<1> QED
  BY <1>1, <1>2

\* metricsIngestSender: every accepted event is in exactly one place, behind the ones
\* queued before it, for any number and size of events and any capacity of the queues,
\* also across failed posts, Stop and Start.
THEOREM EventsOnceInOrder == Spec => [](SenderTypeOK /\ BatchesBounded /\ EveryEventOnce)
<1>1. SenderInv /\ [Next]_vars => SenderInv'
  BY SenderInvStep DEF Kept
<1>2. Init => SenderInv
  BY SenderInvInit
<1> QED
  BY <1>1, <1>2, PTL DEF Spec, SenderInv

\* QueueEvent, accumulateBatches and sendBatches implement the promise of Delivery: what
\* was accepted arrives once and in order, in posts of at most MaxCount events, or is
\* given up.
THEOREM SenderKeepsPromise == Spec => KeepsPromise
<1>1. SenderInv /\ [Next]_vars => SenderInv' /\ [Promise!DeliveryNext]_(Promise!deliveryVars)
  BY SenderInvStep DEF Kept
<1>2. Init => SenderInv /\ Promise!DeliveryInit
  BY SenderInvInit
<1> QED
  BY <1>1, <1>2, PTL DEF Spec, KeepsPromise, Promise!DeliverySpec

-----------------------------------------------------------------------------
(* The batch of an export                                                    *)

Metrics == {"gauge", "counter", "histogram", "summary"}

\* The list has the items of these kinds among the first n - 1.
SoFar(list, n, items, kinds) ==
  /\ list \in Seq(Nat) /\ Increasing(list)
  /\ Range(list) = {k \in 1..(n - 1) : items[k] \in kinds}

BatchInv ==
  otlp.op = "batch" =>
    /\ otlp.items \in Seq(Kinds) /\ otlp.next \in 1..(Len(otlp.items) + 1)
    /\ otlp = [op |-> "batch", items |-> otlp.items, next |-> otlp.next, out |-> otlp.out]
    /\ otlp.out = [metrics |-> otlp.out.metrics, logs |-> otlp.out.logs, spans |-> otlp.out.spans]
    /\ SoFar(otlp.out.metrics, otlp.next, otlp.items, Metrics)
    /\ SoFar(otlp.out.logs, otlp.next, otlp.items, {"log"})
    /\ SoFar(otlp.out.spans, otlp.next, otlp.items, {"span"})

\* A list that gets the next item, and one that does not.
LEMMA SoFarTaken ==
  ASSUME NEW list, NEW n \in Nat \ {0}, NEW items, NEW kinds, SoFar(list, n, items, kinds), items[n] \in kinds
  PROVE  SoFar(Append(list, n), n + 1, items, kinds)
<1>1. list \in Seq(Nat) /\ Increasing(list) /\ n \in Nat
  BY DEF SoFar
<1>2. (n + 1) - 1 = n /\ \A k : k \in 1..n <=> k = n \/ k \in 1..(n - 1)
  BY SMT
<1>3. Range(Append(list, n)) = Range(list) \cup {n}
  BY <1>1, RangeAppend
<1>4. Range(Append(list, n)) = {k \in 1..((n + 1) - 1) : items[k] \in kinds}
  <2>1. Range(list) = {k \in 1..(n - 1) : items[k] \in kinds}
    BY DEF SoFar
  <2> QED
    BY <1>2, <1>3, <2>1
<1>5. Before(Range(list), {n})
  <2>1. \A k \in 1..(n - 1) : k < n
    BY SMT
  <2> QED
    BY <2>1 DEF SoFar, Before
<1>6. Append(list, n) \in Seq(Nat)
  BY <1>1, SMT
<1>7. Increasing(Append(list, n))
  BY <1>1, <1>5, IncreasingAppend
<1> QED
  BY <1>4, <1>6, <1>7 DEF SoFar

LEMMA SoFarLeft ==
  ASSUME NEW list, NEW n \in Nat \ {0}, NEW items, NEW kinds, SoFar(list, n, items, kinds), items[n] \notin kinds
  PROVE  SoFar(list, n + 1, items, kinds)
<1>1. (n + 1) - 1 = n /\ \A k : k \in 1..n <=> k = n \/ k \in 1..(n - 1)
  BY SMT
<1> QED
  BY <1>1 DEF SoFar

LEMMA BatchInvStep == BatchInv /\ [OTLPNext]_otlp => BatchInv'
<1> SUFFICES ASSUME BatchInv, [OTLPNext]_otlp PROVE BatchInv'
  OBVIOUS
<1>1. ASSUME OTLPInput PROVE BatchInv'
  <2>1. ASSUME NEW n \in 0..MaxBatch, NEW items \in [1..n -> Kinds],
               otlp' = [op |-> "batch", items |-> items, next |-> 1, out |-> NoItems]
        PROVE  BatchInv'
    <3>1. n \in Nat
      BY SMT
    <3>2. items \in Seq(Kinds) /\ 1 \in 1..(Len(items) + 1)
      BY <3>1, SMT
    <3>3. ASSUME NEW kinds PROVE SoFar(<<>>, 1, items, kinds)
      <4>1. <<>> \in Seq(Nat) /\ Increasing(<<>>) /\ \A k : k \notin 1..(1 - 1)
        BY SMT DEF Increasing
      <4> QED
        BY <4>1, RangeEmpty DEF SoFar
    <3>4. /\ otlp'.items = items /\ otlp'.next = 1 /\ otlp'.out = NoItems
          /\ otlp' = [op |-> "batch", items |-> otlp'.items, next |-> otlp'.next, out |-> otlp'.out]
      BY <2>1
    <3>5. /\ NoItems.metrics = <<>> /\ NoItems.logs = <<>> /\ NoItems.spans = <<>>
          /\ NoItems = [metrics |-> NoItems.metrics, logs |-> NoItems.logs, spans |-> NoItems.spans]
      BY DEF NoItems
    <3> QED
      BY <3>2, <3>3, <3>4, <3>5 DEF BatchInv
  <2>2. \/ otlp'.op # "batch"
        \/ \E n \in 0..MaxBatch : \E items \in [1..n -> Kinds] :
             otlp' = [op |-> "batch", items |-> items, next |-> 1, out |-> NoItems]
    BY <1>1, SMT DEF OTLPInput
  <2> QED
    BY <2>1, <2>2 DEF BatchInv
<1>2. ASSUME ProcessItem PROVE BatchInv'
  <2>1. otlp.op = "batch" /\ otlp.next <= Len(otlp.items)
    BY <1>2 DEF ProcessItem
  <2>2. PICK items, n, out : items = otlp.items /\ n = otlp.next /\ out = otlp.out
    OBVIOUS
  <2>3. PICK m, l, s : m = out.metrics /\ l = out.logs /\ s = out.spans
    OBVIOUS
  <2>4. /\ items \in Seq(Kinds) /\ n \in 1..(Len(items) + 1) /\ n <= Len(items)
        /\ otlp = [op |-> "batch", items |-> items, next |-> n, out |-> out]
        /\ out = [metrics |-> m, logs |-> l, spans |-> s]
        /\ SoFar(m, n, items, Metrics) /\ SoFar(l, n, items, {"log"}) /\ SoFar(s, n, items, {"span"})
    BY <2>1, <2>2, <2>3 DEF BatchInv
  <2>5. n \in Nat \ {0} /\ n + 1 \in 1..(Len(items) + 1) /\ items[n] \in Kinds
    BY <2>4, SMT
  <2>6. PICK kind : kind = items[n]
    OBVIOUS
  <2>7. otlp' = [op |-> "batch", items |-> items, next |-> n + 1, out |-> Converted(out, n, kind)]
    BY <1>2, <2>2, <2>4, <2>6 DEF ProcessItem
  <2>8. ASSUME NEW m1, NEW l1, NEW s1, Converted(out, n, kind) = [metrics |-> m1, logs |-> l1, spans |-> s1],
               SoFar(m1, n + 1, items, Metrics), SoFar(l1, n + 1, items, {"log"}), SoFar(s1, n + 1, items, {"span"})
        PROVE  BatchInv'
    <3>1. PICK o1 : o1 = Converted(out, n, kind)
      OBVIOUS
    <3>2. o1.metrics = m1 /\ o1.logs = l1 /\ o1.spans = s1 /\ o1 = [metrics |-> o1.metrics, logs |-> o1.logs, spans |-> o1.spans]
      BY <2>8, <3>1, SMT
    <3>3. otlp'.items = items /\ otlp'.next = n + 1 /\ otlp'.out = o1
          /\ otlp' = [op |-> "batch", items |-> otlp'.items, next |-> otlp'.next, out |-> otlp'.out]
      BY <2>7, <3>1
    <3> QED
      BY <2>4, <2>5, <2>8, <3>2, <3>3 DEF BatchInv
  <2>9. CASE kind = "log"
    <3>1. Converted(out, n, kind) = [metrics |-> m, logs |-> Append(l, n), spans |-> s]
      BY <2>4, <2>9 DEF Converted
    <3>2. SoFar(Append(l, n), n + 1, items, {"log"})
      BY <2>4, <2>5, <2>6, <2>9, SoFarTaken
    <3>3. SoFar(m, n + 1, items, Metrics) /\ SoFar(s, n + 1, items, {"span"})
      BY <2>4, <2>5, <2>6, <2>9, SoFarLeft DEF Metrics
    <3> QED
      BY <2>8, <3>1, <3>2, <3>3
  <2>10. CASE kind = "span"
    <3>1. Converted(out, n, kind) = [metrics |-> m, logs |-> l, spans |-> Append(s, n)]
      BY <2>4, <2>10 DEF Converted
    <3>2. SoFar(Append(s, n), n + 1, items, {"span"})
      BY <2>4, <2>5, <2>6, <2>10, SoFarTaken
    <3>3. SoFar(m, n + 1, items, Metrics) /\ SoFar(l, n + 1, items, {"log"})
      BY <2>4, <2>5, <2>6, <2>10, SoFarLeft DEF Metrics
    <3> QED
      BY <2>8, <3>1, <3>2, <3>3
  <2>11. CASE kind \in Metrics
    <3>0. kind \notin {"log", "span", "unknown"} /\ ConvertMetric(kind) # "error"
      BY <2>11, SMT DEF Metrics, ConvertMetric, MetricTypes
    <3>1. Converted(out, n, kind) = [metrics |-> Append(m, n), logs |-> l, spans |-> s]
      BY <2>4, <3>0 DEF Converted
    <3>2. SoFar(Append(m, n), n + 1, items, Metrics)
      BY <2>4, <2>5, <2>6, <2>11, SoFarTaken
    <3>3. items[n] \notin {"log"} /\ items[n] \notin {"span"}
      BY <2>6, <3>0
    <3>4. SoFar(l, n + 1, items, {"log"}) /\ SoFar(s, n + 1, items, {"span"})
      BY <2>4, <2>5, <3>3, SoFarLeft
    <3> QED
      BY <2>8, <3>1, <3>2, <3>4
  <2>12. CASE kind \in {"bad metric", "unknown"}
    <3>0. kind = "unknown" \/ ConvertMetric(kind) = "error"
      BY <2>12 DEF ConvertMetric, MetricTypes
    <3>1. Converted(out, n, kind) = [metrics |-> m, logs |-> l, spans |-> s]
      BY <2>4, <2>12, <3>0 DEF Converted
    <3>2. items[n] \notin Metrics /\ items[n] \notin {"log"} /\ items[n] \notin {"span"}
      BY <2>6, <2>12 DEF Metrics
    <3>3. SoFar(m, n + 1, items, Metrics) /\ SoFar(l, n + 1, items, {"log"}) /\ SoFar(s, n + 1, items, {"span"})
      BY <2>4, <2>5, <3>2, SoFarLeft
    <3> QED
      BY <2>8, <3>1, <3>3
  <2> QED
    BY <2>5, <2>6, <2>9, <2>10, <2>11, <2>12 DEF Kinds, Metrics
<1>3. CASE UNCHANGED otlp
  BY <1>3 DEF BatchInv
<1> QED
  BY <1>1, <1>2, <1>3 DEF OTLPNext

\* The loop of processGRPCBatch and processHTTPBatch, for batches of any length: an
\* item that cannot be converted is all that is missing, and no list is reordered.
THEOREM BatchKeepsTheRest == OTLPSpec => []OnlyBadDropped
<1>1. OTLPInit => BatchInv
  BY SMT DEF OTLPInit, BatchInv
<1>2. BatchInv => OnlyBadDropped
  <2> SUFFICES ASSUME BatchInv, otlp.op = "batch", otlp.next > Len(otlp.items) PROVE OnlyBadDropped
    BY DEF OnlyBadDropped
  <2>1. PICK items, n : items = otlp.items /\ n = otlp.next
    OBVIOUS
  <2>2. items \in Seq(Kinds) /\ n \in 1..(Len(items) + 1) /\ n > Len(items)
    BY <2>1 DEF BatchInv
  <2>3. DOMAIN items = 1..(n - 1)
    BY <2>2, SMT
  <2>4. ASSUME NEW list, NEW kinds, SoFar(list, n, items, kinds) PROVE Exactly(list, items, kinds)
    BY <2>3, <2>4 DEF SoFar, Exactly
  <2> QED
    BY <2>1, <2>4 DEF BatchInv, OnlyBadDropped, Metrics
<1> QED
  BY <1>1, <1>2, BatchInvStep, PTL DEF OTLPSpec

-----------------------------------------------------------------------------
(* The exporter                                                              *)

ExporterTypeOK ==
  /\ currentBatch \in Seq(Nat) /\ processed \in Seq(Seq(Nat)) /\ nItems \in Nat
  /\ exportPc \in [Exporters -> {"idle", "allow", "add", "process", "failed", "ok"}]
  /\ exportItem \in [Exporters -> Nat] /\ totals \in [exports : Nat, errors : Nat]

\* The items of the callers that have not yet added theirs are their own.
Waiting == {c \in Exporters : exportPc[c] \in {"allow", "add"}}
OwnItems ==
  /\ Batched \subseteq 1..nItems
  /\ \A c \in Waiting : exportItem[c] \in (1..nItems) \ Batched
  /\ \A c, d \in Waiting : c # d => exportItem[c] # exportItem[d]

\* The callers that have added theirs and have not yet been counted.
Returning == {c \in Exporters : exportPc[c] \in {"process", "ok", "failed"}}
ItemsCounted == totals.exports + Cardinality(Returning) <= Cardinality(Batched)

ExporterInv ==
  /\ ExporterTypeOK /\ OwnItems /\ ItemsCounted
  /\ Apart(processed) /\ IsInjective(currentBatch) /\ AllOf(processed) \cap Range(currentBatch) = {}

LEMMA ExportersFinite ==
  ASSUME NEW S, S \subseteq Exporters
  PROVE  IsFiniteSet(S) /\ Cardinality(S) \in Nat
BY ExporterAssumption, FS_Subset, FS_CardinalityType

LEMMA ItemsFinite ==
  ASSUME NEW n \in Nat, NEW S, S \subseteq 1..n
  PROVE  IsFiniteSet(S) /\ Cardinality(S) \in Nat
<1>1. IsFiniteSet(1..n)
  BY FS_Interval, SMT
<1> QED
  BY <1>1, FS_Subset, FS_CardinalityType

LEMMA ExporterInvInit == NewBaseExporter => ExporterInv
<1> SUFFICES ASSUME NewBaseExporter PROVE ExporterInv
  OBVIOUS
<1>1. <<>> \in Seq(Seq(Nat)) /\ 0 \in Nat /\ 0 + 0 <= 0
  BY SMT
<1>2. ExporterTypeOK
  BY <1>1, EmptySequence DEF NewBaseExporter, ExporterTypeOK
<1>3. Batched = {} /\ Waiting = {} /\ Returning = {}
  BY EmptySequence DEF NewBaseExporter, Batched, Waiting, Returning
<1>4. OwnItems
  BY <1>3 DEF OwnItems
<1>5. ItemsCounted
  <2>1. totals.exports = 0 /\ Cardinality({}) = 0
    BY FS_EmptySet DEF NewBaseExporter
  <2> QED
    BY <1>1, <1>3, <2>1 DEF ItemsCounted
<1> QED
  BY <1>2, <1>4, <1>5, EmptySequence, InjectiveEmpty DEF ExporterInv, NewBaseExporter

\* A caller goes on.
LEMMA GotoSets ==
  ASSUME ExporterInv, NEW c \in Exporters, NEW to, Goto(c, to),
         to \in {"idle", "allow", "add", "process", "failed", "ok"}
  PROVE  /\ exportPc' \in [Exporters -> {"idle", "allow", "add", "process", "failed", "ok"}]
         /\ to \in {"process", "ok", "failed"} => Returning' = Returning \cup {c}
         /\ to \notin {"process", "ok", "failed"} => Returning' = Returning \ {c}
         /\ Waiting' \subseteq Waiting \cup {c}
         /\ to \notin {"allow", "add"} => Waiting' = Waiting \ {c}
<1>1. /\ exportPc \in [Exporters -> {"idle", "allow", "add", "process", "failed", "ok"}]
      /\ exportPc' = [exportPc EXCEPT ![c] = to]
  BY DEF ExporterInv, ExporterTypeOK, Goto
<1>2. /\ exportPc' \in [Exporters -> {"idle", "allow", "add", "process", "failed", "ok"}]
      /\ exportPc'[c] = to /\ \A d \in Exporters : d # c => exportPc'[d] = exportPc[d]
  BY <1>1
<1>3. ASSUME to \in {"process", "ok", "failed"} PROVE Returning' = Returning \cup {c}
  BY <1>2, <1>3 DEF Returning
<1>4. ASSUME to \notin {"process", "ok", "failed"} PROVE Returning' = Returning \ {c}
  BY <1>2, <1>4 DEF Returning
<1>5. Waiting' \subseteq Waiting \cup {c}
  BY <1>2 DEF Waiting
<1>6. ASSUME to \notin {"allow", "add"} PROVE Waiting' = Waiting \ {c}
  BY <1>2, <1>6 DEF Waiting
<1> QED
  BY <1>2, <1>3, <1>4, <1>5, <1>6

\* Steps that leave the batches alone.
LEMMA BatchesSame ==
  ASSUME ExporterInv, UNCHANGED <<processed, currentBatch, nItems, exportItem>>,
         exportPc' \in [Exporters -> {"idle", "allow", "add", "process", "failed", "ok"}],
         totals' \in [exports : Nat, errors : Nat], Waiting' \subseteq Waiting,
         totals'.exports + Cardinality(Returning') <= totals.exports + Cardinality(Returning)
  PROVE  ExporterInv'
<1>1. ExporterTypeOK'
  BY DEF ExporterInv, ExporterTypeOK
<1>2. Batched' = Batched
  BY DEF Batched
<1>3. OwnItems'
  BY <1>2 DEF ExporterInv, OwnItems
<1>4. ItemsCounted'
  <2>1. /\ Cardinality(Returning) \in Nat /\ Cardinality(Returning') \in Nat /\ Cardinality(Batched) \in Nat
        /\ totals.exports \in Nat /\ totals'.exports \in Nat
    <3>1. Returning \subseteq Exporters /\ Returning' \subseteq Exporters
      BY DEF Returning
    <3>2. Cardinality(Returning) \in Nat /\ Cardinality(Returning') \in Nat
      BY <3>1, ExportersFinite
    <3>3. Cardinality(Batched) \in Nat
      BY ItemsFinite DEF ExporterInv, OwnItems, ExporterTypeOK
    <3> QED
      BY <3>2, <3>3 DEF ExporterInv, ExporterTypeOK
  <2>2. totals.exports + Cardinality(Returning) <= Cardinality(Batched)
    BY DEF ExporterInv, ItemsCounted
  <2>3. totals'.exports + Cardinality(Returning') <= Cardinality(Batched)
    BY <2>1, <2>2, SMT
  <2> QED
    BY <1>2, <2>3 DEF ItemsCounted
<1> QED
  BY <1>1, <1>3, <1>4 DEF ExporterInv

LEMMA CallersSame ==
  ASSUME ExporterInv, UNCHANGED <<processed, currentBatch, nItems, exportItem, exportPc, totals>>
  PROVE  ExporterInv'
<1>1. Returning' = Returning /\ Waiting' = Waiting
  BY DEF Returning, Waiting
<1>2. /\ exportPc' \in [Exporters -> {"idle", "allow", "add", "process", "failed", "ok"}]
      /\ totals' \in [exports : Nat, errors : Nat] /\ totals.exports \in Nat
  BY DEF ExporterInv, ExporterTypeOK
<1>3. Cardinality(Returning) \in Nat
  BY ExportersFinite DEF Returning
<1>4. totals.exports + Cardinality(Returning) <= totals.exports + Cardinality(Returning)
  BY <1>2, <1>3, SMT
<1> QED
  BY <1>1, <1>2, <1>4, BatchesSame

LEMMA ExportKeeps == ASSUME ExporterInv, NEW c \in Exporters, Export(c) PROVE ExporterInv'
<1> DEFINE n == nItems + 1
           to == IF exporterState = "running" THEN "allow" ELSE "idle"
<1>1. /\ exportPc[c] = "idle" /\ nItems' = n /\ exportItem' = [exportItem EXCEPT ![c] = n] /\ Goto(c, to)
      /\ UNCHANGED <<currentBatch, processed, totals>>
  BY DEF Export
<1>2. /\ exportPc' \in [Exporters -> {"idle", "allow", "add", "process", "failed", "ok"}]
      /\ Returning' = Returning \ {c} /\ Waiting' \subseteq Waiting \cup {c}
  <2>1. to \in {"allow", "idle"}
    OBVIOUS
  <2> HIDE DEF n, to
  <2>2. to \in {"idle", "allow", "add", "process", "failed", "ok"} /\ to \notin {"process", "ok", "failed"}
    BY <2>1
  <2> QED
    BY <1>1, <2>2, GotoSets
<1>3. Returning' = Returning /\ Waiting \subseteq Exporters \ {c}
  BY <1>1, <1>2 DEF Returning, Waiting
<1>4. /\ nItems \in Nat /\ n \in Nat /\ 1..nItems \subseteq 1..n /\ n \in 1..n /\ n \notin 1..nItems
  <2>1. nItems \in Nat
    BY DEF ExporterInv, ExporterTypeOK
  <2> QED
    BY <2>1, SMT
<1> HIDE DEF n, to
<1>5. exportItem'[c] = n /\ exportItem' \in [Exporters -> Nat] /\ \A d \in Exporters : d # c => exportItem'[d] = exportItem[d]
  BY <1>1, <1>4 DEF ExporterInv, ExporterTypeOK
<1>6. ExporterTypeOK'
  BY <1>1, <1>2, <1>4, <1>5 DEF ExporterInv, ExporterTypeOK
<1>7. Batched' = Batched /\ Batched \subseteq 1..nItems
  BY <1>1 DEF Batched, ExporterInv, OwnItems
<1>8. OwnItems'
  <2>1. \A d \in Waiting' : d = c \/ (d \in Waiting /\ d # c)
    BY <1>2, <1>3
  <2>2. \A d \in Waiting : d # c /\ d \in Exporters /\ exportItem'[d] = exportItem[d] /\ exportItem[d] \in (1..nItems) \ Batched
    BY <1>3, <1>5 DEF ExporterInv, OwnItems
  <2>3. Batched' \subseteq 1..nItems'
    BY <1>1, <1>4, <1>7
  <2>4. ASSUME NEW d \in Waiting' PROVE exportItem'[d] \in (1..nItems') \ Batched'
    BY <1>1, <1>4, <1>5, <1>7, <2>1, <2>2, ZenonT(40)
  <2>5. ASSUME NEW d \in Waiting', NEW e \in Waiting', d # e PROVE exportItem'[d] # exportItem'[e]
    <3>1. CASE d = c
      BY <1>4, <1>5, <2>1, <2>2, <2>5, <3>1
    <3>2. CASE e = c
      BY <1>4, <1>5, <2>1, <2>2, <2>5, <3>2
    <3>3. CASE d # c /\ e # c
      BY <2>1, <2>2, <2>5, <3>3 DEF ExporterInv, OwnItems
    <3> QED
      BY <3>1, <3>2, <3>3
  <2> QED
    BY <2>3, <2>4, <2>5 DEF OwnItems
<1>9. ItemsCounted'
  BY <1>1, <1>3, <1>7 DEF ExporterInv, ItemsCounted
<1> QED
  BY <1>1, <1>6, <1>8, <1>9 DEF ExporterInv

\* The item of c is put into the batches.
LEMMA BatchGrows ==
  ASSUME ExporterInv, NEW c \in Waiting, UNCHANGED <<exportItem, nItems, totals>>,
         exportPc' \in [Exporters -> {"idle", "allow", "add", "process", "failed", "ok"}],
         Waiting' = Waiting \ {c}, Returning' = Returning \cup {c},
         currentBatch' \in Seq(Nat), processed' \in Seq(Seq(Nat)),
         Apart(processed'), IsInjective(currentBatch'), AllOf(processed') \cap Range(currentBatch') = {},
         Batched' = Batched \cup {exportItem[c]}
  PROVE  ExporterInv'
<1>1. ExporterTypeOK'
  BY DEF ExporterInv, ExporterTypeOK
<1>2. Batched \subseteq 1..nItems /\ exportItem[c] \in 1..nItems /\ exportItem[c] \notin Batched
  BY DEF ExporterInv, OwnItems
<1>3. OwnItems'
  BY <1>2 DEF ExporterInv, OwnItems
<1>4. ItemsCounted'
  <2>1. Returning \subseteq Exporters /\ c \notin Returning
    BY DEF Returning, Waiting
  <2>2. nItems \in Nat /\ totals.exports \in Nat /\ totals.exports + Cardinality(Returning) <= Cardinality(Batched)
    BY DEF ExporterInv, ExporterTypeOK, ItemsCounted
  <2>3. IsFiniteSet(Returning) /\ Cardinality(Returning) \in Nat
    BY <2>1, ExportersFinite
  <2>4. IsFiniteSet(Batched) /\ Cardinality(Batched) \in Nat
    BY <1>2, <2>2, ItemsFinite
  <2>5. Cardinality(Returning') = Cardinality(Returning) + 1
    BY <2>1, <2>3, FS_AddElement
  <2>6. Cardinality(Batched') = Cardinality(Batched) + 1
    BY <1>2, <2>4, FS_AddElement
  <2>7. totals.exports + (Cardinality(Returning) + 1) <= Cardinality(Batched) + 1
    BY <2>2, <2>3, <2>4, SMT
  <2> QED
    BY <2>5, <2>6, <2>7 DEF ItemsCounted
<1> QED
  BY <1>1, <1>3, <1>4 DEF ExporterInv

LEMMA AddItemKeeps == ASSUME ExporterInv, NEW c \in Exporters, AddItem(c) PROVE ExporterInv'
<1> DEFINE x == exportItem[c]
           items == Append(currentBatch, x)
<1>1. /\ c \in Waiting /\ UNCHANGED <<exportItem, nItems, totals>>
      /\ \/ currentBatch' = <<>> /\ processed' = Append(processed, items) /\ Goto(c, "process")
         \/ currentBatch' = items /\ processed' = processed /\ Goto(c, "ok")
  BY DEF AddItem, Waiting, Take
<1>2. /\ currentBatch \in Seq(Nat) /\ processed \in Seq(Seq(Nat)) /\ x \in Nat
      /\ Apart(processed) /\ IsInjective(currentBatch) /\ AllOf(processed) \cap Range(currentBatch) = {}
  BY DEF ExporterInv, ExporterTypeOK
<1>3. x \notin AllOf(processed) /\ x \notin Range(currentBatch)
  BY <1>1 DEF ExporterInv, OwnItems, Batched
<1>4. items \in Seq(Nat) /\ Append(processed, items) \in Seq(Seq(Nat))
  BY <1>2, SMT
<1>5. Range(items) = Range(currentBatch) \cup {x}
  BY <1>2, RangeAppend
<1>6. IsInjective(items)
  BY <1>2, <1>3, InjectiveAppend
<1> HIDE DEF x, items
<1>7. AllOf(processed) \cap Range(items) = {}
  BY <1>2, <1>3, <1>5
<1>8. Apart(Append(processed, items))
  BY <1>2, <1>6, <1>7, ApartAppend
<1>9. AllOf(Append(processed, items)) = AllOf(processed) \cup Range(items)
  BY <1>2, AllAppend
<1>10. /\ exportPc' \in [Exporters -> {"idle", "allow", "add", "process", "failed", "ok"}]
       /\ Waiting' = Waiting \ {c} /\ Returning' = Returning \cup {c}
  <2>1. CASE Goto(c, "process")
    BY <2>1, GotoSets
  <2>2. CASE Goto(c, "ok")
    BY <2>2, GotoSets
  <2> QED
    BY <1>1, <2>1, <2>2
<1>11. /\ currentBatch' \in Seq(Nat) /\ processed' \in Seq(Seq(Nat))
       /\ Apart(processed') /\ IsInjective(currentBatch') /\ AllOf(processed') \cap Range(currentBatch') = {}
       /\ Batched' = Batched \cup {x}
  <2>1. CASE currentBatch' = <<>> /\ processed' = Append(processed, items)
    <3>1. Range(currentBatch') = {} /\ AllOf(processed') = AllOf(processed) \cup Range(items)
      BY <1>9, <2>1, EmptySequence
    <3>2. Batched' = Batched \cup {x}
      BY <1>5, <3>1 DEF Batched
    <3> QED
      BY <1>4, <1>8, <2>1, <3>1, <3>2, EmptySequence, InjectiveEmpty
  <2>2. CASE currentBatch' = items /\ processed' = processed
    <3>1. Batched' = Batched \cup {x}
      BY <1>5, <2>2 DEF Batched
    <3> QED
      BY <1>2, <1>4, <1>6, <1>7, <2>2, <3>1
  <2> QED
    BY <1>1, <2>1, <2>2
<1> QED
  BY <1>1, <1>10, <1>11, BatchGrows DEF x

LEMMA FlushKeeps ==
  ASSUME ExporterInv, NEW p, Take(p, currentBatch), UNCHANGED <<exportPc, exportItem, nItems, totals>>
  PROVE  ExporterInv'
<1>1. /\ currentBatch' = <<>> /\ processed' = Append(processed, currentBatch)
      /\ currentBatch \in Seq(Nat) /\ processed \in Seq(Seq(Nat))
      /\ Apart(processed) /\ IsInjective(currentBatch) /\ AllOf(processed) \cap Range(currentBatch) = {}
  BY DEF Take, ExporterInv, ExporterTypeOK
<1>2. Append(processed, currentBatch) \in Seq(Seq(Nat))
  BY <1>1, SMT
<1>3. Apart(processed')
  BY <1>1, ApartAppend
<1>4. AllOf(processed') = AllOf(processed) \cup Range(currentBatch) /\ Range(currentBatch') = {}
  BY <1>1, AllAppend, EmptySequence
<1>5. Batched' = Batched
  BY <1>4 DEF Batched
<1>6. ExporterTypeOK'
  BY <1>1, <1>2, EmptySequence DEF ExporterInv, ExporterTypeOK
<1>7. OwnItems'
  <2>1. Waiting' = Waiting
    BY DEF Waiting
  <2> QED
    BY <1>5, <2>1 DEF ExporterInv, OwnItems
<1>8. ItemsCounted'
  <2>1. Returning' = Returning
    BY DEF Returning
  <2> QED
    BY <1>5, <2>1 DEF ExporterInv, ItemsCounted
<1> QED
  BY <1>1, <1>3, <1>4, <1>6, <1>7, <1>8, InjectiveEmpty DEF ExporterInv

LEMMA ReturningCounts ==
  ASSUME ExporterInv
  PROVE  /\ IsFiniteSet(Returning) /\ Cardinality(Returning) \in Nat
         /\ totals.exports \in Nat /\ totals.errors \in Nat
         /\ totals.exports + Cardinality(Returning) <= totals.exports + Cardinality(Returning)
<1>1. IsFiniteSet(Returning) /\ Cardinality(Returning) \in Nat
  BY ExportersFinite DEF Returning
<1>2. totals.exports \in Nat /\ totals.errors \in Nat
  BY DEF ExporterInv, ExporterTypeOK
<1>3. totals.exports + Cardinality(Returning) <= totals.exports + Cardinality(Returning)
  BY <1>1, <1>2, SMT
<1> QED
  BY <1>1, <1>2, <1>3

LEMMA ExportAllowedKeeps == ASSUME ExporterInv, NEW c \in Exporters, ExportAllowed(c) PROVE ExporterInv'
<1> DEFINE denied == [totals EXCEPT !.errors = @ + 1]
<1>1. /\ exportPc[c] = "allow" /\ UNCHANGED <<processed, currentBatch, nItems, exportItem>>
      /\ \/ Goto(c, "add") /\ totals' = totals
         \/ Goto(c, "idle") /\ totals' = denied
  BY DEF ExportAllowed
<1>2. c \in Waiting /\ c \notin Returning
  BY <1>1 DEF Waiting, Returning
<1>3. /\ exportPc' \in [Exporters -> {"idle", "allow", "add", "process", "failed", "ok"}]
      /\ Returning' = Returning \ {c} /\ Waiting' \subseteq Waiting \cup {c}
  <2>0. /\ {"add", "idle"} \subseteq {"idle", "allow", "add", "process", "failed", "ok"}
        /\ "add" \notin {"process", "ok", "failed"} /\ "idle" \notin {"process", "ok", "failed"}
    OBVIOUS
  <2>1. CASE Goto(c, "add")
    BY <2>0, <2>1, GotoSets
  <2>2. CASE Goto(c, "idle")
    BY <2>0, <2>2, GotoSets
  <2> QED
    BY <1>1, <2>1, <2>2
<1>4. Returning' = Returning /\ Waiting' \subseteq Waiting
  BY <1>2, <1>3
<1>5. totals \in [exports : Nat, errors : Nat]
  BY DEF ExporterInv, ExporterTypeOK
<1>6. denied \in [exports : Nat, errors : Nat] /\ denied.exports = totals.exports
  BY <1>5, SMT
<1> HIDE DEF denied
<1>7. totals' \in [exports : Nat, errors : Nat] /\ totals'.exports = totals.exports
  BY <1>1, <1>5, <1>6
<1> QED
  BY <1>1, <1>3, <1>4, <1>7, ReturningCounts, BatchesSame

LEMMA AddReturnsKeeps ==
  ASSUME ExporterInv, NEW c \in Exporters, NEW err \in BOOLEAN, AddReturns(c, err)
  PROVE  ExporterInv'
<1> DEFINE to == IF err THEN "failed" ELSE "ok"
<1>1. exportPc[c] = "process" /\ UNCHANGED <<processed, currentBatch, nItems, exportItem, totals>> /\ Goto(c, to)
  BY DEF AddReturns
<1>2. to \in {"failed", "ok"}
  OBVIOUS
<1> HIDE DEF to
<1>3. /\ to \in {"idle", "allow", "add", "process", "failed", "ok"}
      /\ to \in {"process", "ok", "failed"} /\ to \notin {"allow", "add"}
  BY <1>2
<1>4. /\ exportPc' \in [Exporters -> {"idle", "allow", "add", "process", "failed", "ok"}]
      /\ Returning' = Returning \cup {c} /\ Waiting' = Waiting \ {c}
  BY <1>1, <1>3, GotoSets
<1>5. Returning' = Returning /\ Waiting' \subseteq Waiting
  BY <1>1, <1>4 DEF Returning
<1>6. totals' \in [exports : Nat, errors : Nat] /\ totals'.exports = totals.exports
  BY <1>1 DEF ExporterInv, ExporterTypeOK
<1> QED
  BY <1>1, <1>4, <1>5, <1>6, ReturningCounts, BatchesSame

LEMMA RecordExportKeeps == ASSUME ExporterInv, NEW c \in Exporters, RecordExport(c) PROVE ExporterInv'
<1> DEFINE good == [totals EXCEPT !.exports = @ + 1]
           bad == [totals EXCEPT !.errors = @ + 1]
<1>1. /\ exportPc[c] \in {"ok", "failed"} /\ UNCHANGED <<processed, currentBatch, nItems, exportItem>>
      /\ Goto(c, "idle") /\ (totals' = good \/ totals' = bad)
  BY DEF RecordExport
<1>2. /\ exportPc' \in [Exporters -> {"idle", "allow", "add", "process", "failed", "ok"}]
      /\ Returning' = Returning \ {c} /\ Waiting' = Waiting \ {c}
  <2>1. /\ "idle" \in {"idle", "allow", "add", "process", "failed", "ok"}
        /\ "idle" \notin {"process", "ok", "failed"} /\ "idle" \notin {"allow", "add"}
    OBVIOUS
  <2> QED
    BY <1>1, <2>1, GotoSets
<1>3. c \in Returning /\ Waiting' \subseteq Waiting
  BY <1>1, <1>2 DEF Returning
<1>4. totals \in [exports : Nat, errors : Nat]
  BY DEF ExporterInv, ExporterTypeOK
<1>5. /\ good \in [exports : Nat, errors : Nat] /\ good.exports = totals.exports + 1
      /\ bad \in [exports : Nat, errors : Nat] /\ bad.exports = totals.exports
  BY <1>4, SMT
<1> HIDE DEF good, bad
<1>6. /\ totals' \in [exports : Nat, errors : Nat]
      /\ totals'.exports = totals.exports + 1 \/ totals'.exports = totals.exports
  BY <1>1, <1>5
<1>7. Cardinality(Returning') = Cardinality(Returning) - 1
  BY <1>2, <1>3, ReturningCounts, FS_RemoveElement
<1>8. totals'.exports + Cardinality(Returning') <= totals.exports + Cardinality(Returning)
  <2>1. totals.exports \in Nat /\ Cardinality(Returning) \in Nat
    BY ReturningCounts
  <2> QED
    BY <1>6, <1>7, <2>1, SMT
<1> QED
  BY <1>1, <1>2, <1>3, <1>6, <1>8, BatchesSame

LEMMA ExporterInvStep == ExporterInv /\ [ExporterNext]_exporterVars => ExporterInv'
<1> SUFFICES ASSUME ExporterInv, [ExporterNext]_exporterVars PROVE ExporterInv'
  OBVIOUS
<1>1. ASSUME NEW c \in Exporters, Export(c) PROVE ExporterInv'
  BY <1>1, ExportKeeps
<1>2. ASSUME NEW c \in Exporters, ExportAllowed(c) PROVE ExporterInv'
  BY <1>2, ExportAllowedKeeps
<1>3. ASSUME NEW c \in Exporters, AddItem(c) PROVE ExporterInv'
  BY <1>3, AddItemKeeps
<1>4. ASSUME NEW c \in Exporters, RecordExport(c) PROVE ExporterInv'
  BY <1>4, RecordExportKeeps
<1>5. ASSUME NEW c \in Exporters, NEW err \in BOOLEAN, AddReturns(c, err) PROVE ExporterInv'
  BY <1>5, AddReturnsKeeps
<1>6. CASE ResetTimeoutPasses
  BY <1>6, CallersSame DEF ResetTimeoutPasses
<1>7. CASE TickerFlush
  BY <1>7, FlushKeeps DEF TickerFlush, Flush
<1>8. CASE TickerEnds
  BY <1>8, CallersSame DEF TickerEnds
<1>9. ASSUME NEW err \in BOOLEAN, TickerReturns(err) PROVE ExporterInv'
  BY <1>9, CallersSame DEF TickerReturns
<1>10. ASSUME NEW err \in BOOLEAN, ShutdownReturns(err) PROVE ExporterInv'
  BY <1>10, CallersSame DEF ShutdownReturns
<1>11. CASE Shutdown
  BY <1>11, CallersSame DEF Shutdown
<1>12. CASE ShutdownTwice
  BY <1>12, CallersSame DEF ShutdownTwice
<1>13. CASE ShutdownFlush
  <2>1. CASE currentBatch = <<>>
    BY <1>13, <2>1, CallersSame DEF ShutdownFlush
  <2>2. CASE currentBatch # <<>>
    BY <1>13, <2>2, FlushKeeps DEF ShutdownFlush, Flush
  <2> QED
    BY <2>1, <2>2
<1>14. CASE UNCHANGED exporterVars
  BY <1>14, CallersSame DEF exporterVars
<1> QED
  BY <1>1, <1>2, <1>3, <1>4, <1>5, <1>6, <1>7, <1>8, <1>9, <1>10, <1>11, <1>12, <1>13, <1>14, ZenonT(40)
  DEF ExporterNext

LEMMA ExporterInvOnce == ASSUME ExporterInv PROVE ItemsOnce
<1>1. Cardinality(Batched) \in Nat
  BY ItemsFinite DEF ExporterInv, OwnItems, ExporterTypeOK
<1>2. totals.exports + Cardinality(Returning) <= Cardinality(Batched)
  BY DEF ExporterInv, ItemsCounted
<1>3. totals.exports \in Nat /\ Cardinality(Returning) \in Nat
  BY ReturningCounts
<1>4. totals.exports <= Cardinality(Batched)
  BY <1>1, <1>2, <1>3, SMT
<1> QED
  BY <1>4 DEF ItemsOnce, ExporterInv

\* Export, the ticker goroutine and Shutdown of the OTLP exporter: however their steps
\* interleave, an item is in one batch at most and there once, and totalExports never
\* exceeds the number of items that were put into batches.
THEOREM ItemsExportedOnce == ExporterSpec => [](ExporterTypeOK /\ ItemsOnce)
<1>1. ExporterInv => ExporterTypeOK /\ ItemsOnce
  BY ExporterInvOnce DEF ExporterInv
<1> QED
  BY <1>1, ExporterInvInit, ExporterInvStep, PTL DEF ExporterSpec

=============================================================================
