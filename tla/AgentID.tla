------------------------------- MODULE AgentID -------------------------------
(***************************************************************************)
(* The agent's identity as the rest of the agent shares it: readers that   *)
(* take it as it is, callers that block until it is there, the connect     *)
(* service that sets it, and listeners told about changes.  A blocked      *)
(* caller waits for its own helper goroutine, which waits on a condition   *)
(* variable whose Broadcast is made without its lock.  One goroutine sets  *)
(* the identity, to one with an ID.  A caller that returned because the    *)
(* context ended may leave its helper behind; its next call is that of     *)
(* another member of Callers.                                              *)
(***************************************************************************)
EXTENDS Naturals, FiniteSets

CONSTANTS
  Callers,       \* goroutines that call AgentID
  Identities,    \* identities with an ID
  Empty,         \* the identity without one
  Listeners,     \* channels registered with Notify
  ListenerCap    \* their capacity

ASSUME EmptyAssumption == Empty \notin Identities
ASSUME CapAssumption == ListenerCap \in Nat \ {0}

VARIABLES
  identity,      \* agentIdentity
  cancelled,     \* the context is done
  call,          \* what each caller does: "idle", "wait", "done"
  helper,        \* its helper: "none", "started", "parked", "woken", "closed"
  result,        \* what AgentID returned to it
  mode,          \* what each listener wants: a subset of the two kinds
  inbox,         \* number of notifications in its channel
  seen,          \* the identity it read after its last notification
  setter,        \* what SetAgentIdentity does: "idle", "stored", "notify"
  told           \* listeners still to be notified

idVars == <<identity, cancelled, call, helper, result, mode, inbox, seen, setter, told>>

Modes == {"connect", "reconnect"}

IDInit ==
  /\ identity = Empty
  /\ cancelled = FALSE
  /\ call = [c \in Callers |-> "idle"]
  /\ helper = [c \in Callers |-> "none"]
  /\ result = [c \in Callers |-> Empty]
  /\ mode \in [Listeners -> SUBSET Modes]
  /\ inbox = [l \in Listeners |-> 0]
  /\ seen = [l \in Listeners |-> Empty]
  /\ setter = "idle"
  /\ told = {}

-----------------------------------------------------------------------------
(* AgentID                                                                  *)

AgentIDKnown(c) ==
  /\ call[c] \in {"idle", "done"} /\ helper[c] \in {"none", "closed"}
  /\ identity # Empty
  /\ call' = [call EXCEPT ![c] = "done"]
  /\ result' = [result EXCEPT ![c] = identity]
  /\ UNCHANGED <<identity, cancelled, helper, mode, inbox, seen, setter, told>>

\* Nothing there yet: the helper is started.
AgentIDBlocks(c) ==
  /\ call[c] \in {"idle", "done"} /\ helper[c] \in {"none", "closed"}
  /\ identity = Empty
  /\ call' = [call EXCEPT ![c] = "wait"]
  /\ helper' = [helper EXCEPT ![c] = "started"]
  /\ UNCHANGED <<identity, cancelled, result, mode, inbox, seen, setter, told>>

\* sem.Wait: from now on a Broadcast reaches the helper.
HelperWaits(c) ==
  /\ helper[c] = "started"
  /\ helper' = [helper EXCEPT ![c] = "parked"]
  /\ UNCHANGED <<identity, cancelled, call, result, mode, inbox, seen, setter, told>>

HelperCloses(c) ==
  /\ helper[c] = "woken"
  /\ helper' = [helper EXCEPT ![c] = "closed"]
  /\ UNCHANGED <<identity, cancelled, call, result, mode, inbox, seen, setter, told>>

\* Mutant: only one waiting helper is woken.
MutBroadcast ==
  IF \E c \in Callers : helper[c] = "parked"
    THEN \E c \in Callers : helper[c] = "parked" /\ helper' = [helper EXCEPT ![c] = "woken"]
    ELSE UNCHANGED helper

Broadcast == helper' = [c \in Callers |-> IF helper[c] = "parked" THEN "woken" ELSE helper[c]]

\* Mutant: what was read before the wait is returned.
MutAgentIDWakes(c) ==
  /\ call[c] = "wait" /\ helper[c] = "closed"
  /\ call' = [call EXCEPT ![c] = "done"]
  /\ result' = [result EXCEPT ![c] = Empty]
  /\ UNCHANGED <<identity, cancelled, helper, mode, inbox, seen, setter, told>>

AgentIDWakes(c) ==
  /\ call[c] = "wait" /\ helper[c] = "closed"
  /\ call' = [call EXCEPT ![c] = "done"]
  /\ result' = [result EXCEPT ![c] = identity]
  /\ UNCHANGED <<identity, cancelled, helper, mode, inbox, seen, setter, told>>

\* The context ends: the caller broadcasts and returns what there is.
AgentIDCancelled(c) ==
  /\ call[c] = "wait" /\ cancelled
  /\ call' = [call EXCEPT ![c] = "done"]
  /\ result' = [result EXCEPT ![c] = identity]
  /\ Broadcast
  /\ UNCHANGED <<identity, cancelled, mode, inbox, seen, setter, told>>

Cancel ==
  /\ ~cancelled
  /\ cancelled' = TRUE
  /\ UNCHANGED <<identity, call, helper, result, mode, inbox, seen, setter, told>>

-----------------------------------------------------------------------------
(* SetAgentIdentity, called by the connect service                          *)

Interested(kind) == {l \in Listeners : kind \in mode[l]}

\* First connection: store, ...
SetFirst(id) ==
  /\ setter = "idle"
  /\ identity = Empty
  /\ identity' = id
  /\ setter' = "stored"
  /\ UNCHANGED <<cancelled, call, helper, result, mode, inbox, seen, told>>

\* ... wake up the callers, ...
SetBroadcasts ==
  /\ setter = "stored"
  /\ Broadcast
  /\ setter' = "notify"
  /\ told' = Interested("connect")
  /\ UNCHANGED <<identity, cancelled, call, result, mode, inbox, seen>>

\* Mutant: only a first connection is told.
MutChanges(id) == {}

Changes(id) == IF id # identity THEN Interested("reconnect") ELSE {}

\* A later one: store and remember whether it differs.
SetAgain(id) ==
  /\ setter = "idle"
  /\ identity # Empty
  /\ identity' = id
  /\ setter' = "notify"
  /\ told' = Changes(id)
  /\ UNCHANGED <<cancelled, call, helper, result, mode, inbox, seen>>

\* A notification is dropped when the channel is full.
Sent(n) == IF n < ListenerCap THEN n + 1 ELSE n

\* ... tell the listeners, without blocking on a full channel.
NotifyListener(l) ==
  /\ setter = "notify" /\ l \in told
  /\ inbox' = [inbox EXCEPT ![l] = Sent(@)]
  /\ told' = told \ {l}
  /\ UNCHANGED <<identity, cancelled, call, helper, result, mode, seen, setter>>

SetReturns ==
  /\ setter = "notify" /\ told = {}
  /\ setter' = "idle"
  /\ UNCHANGED <<identity, cancelled, call, helper, result, mode, inbox, seen, told>>

\* A listener takes the notification and looks at the identity.
Receive(l) ==
  /\ inbox[l] > 0
  /\ inbox' = [inbox EXCEPT ![l] = @ - 1]
  /\ seen' = [seen EXCEPT ![l] = identity]
  /\ UNCHANGED <<identity, cancelled, call, helper, result, mode, setter, told>>

-----------------------------------------------------------------------------
Caller(c) ==
  \/ HelperWaits(c)
  \/ HelperCloses(c)
  \/ AgentIDWakes(c)
  \/ AgentIDCancelled(c)

Setter ==
  \/ SetBroadcasts
  \/ \E l \in Listeners : NotifyListener(l)
  \/ SetReturns

IDNext ==
  \/ \E c \in Callers : AgentIDKnown(c) \/ AgentIDBlocks(c) \/ Caller(c)
  \/ \E id \in Identities : SetFirst(id) \/ SetAgain(id)
  \/ Setter
  \/ \E l \in Listeners : Receive(l)
  \/ Cancel

IDSpec == IDInit /\ [][IDNext]_idVars

-----------------------------------------------------------------------------
(* Properties                                                               *)

\* Every variable has the type of the state it models.
IDTypeOK ==
  /\ identity \in Identities \cup {Empty}
  /\ cancelled \in BOOLEAN
  /\ call \in [Callers -> {"idle", "wait", "done"}]
  /\ helper \in [Callers -> {"none", "started", "parked", "woken", "closed"}]
  /\ result \in [Callers -> Identities \cup {Empty}]
  /\ mode \in [Listeners -> SUBSET Modes] /\ inbox \in [Listeners -> 0..ListenerCap]
  /\ seen \in [Listeners -> Identities \cup {Empty}]
  /\ setter \in {"idle", "stored", "notify"}
  /\ told \subseteq Listeners

\* A caller gets an empty ID only when the context ended while it waited.
NonEmptyResult ==
  \A c \in Callers : call[c] = "done" /\ result[c] = Empty => cancelled

\* Notifications may be merged but not lost: between two calls of
\* SetAgentIdentity a listener for both kinds either has one waiting or has read
\* the current identity.
ListenersCatchUp ==
  \A l \in Listeners :
    mode[l] = Modes /\ setter = "idle" /\ inbox[l] = 0 => seen[l] = identity

\* A caller whose helper waits on the condition variable returns once an
\* identity is set.
ParkedCallersReturn ==
  \A c \in Callers :
    (helper[c] = "parked" /\ call[c] = "wait" /\ setter = "stored") ~> call[c] = "done"
=============================================================================
