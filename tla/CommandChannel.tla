---------------------------- MODULE CommandChannel ----------------------------
(***************************************************************************)
(* The command channel: the service polls the backend for commands, first  *)
(* once before the agent is initialised (InitialFetch, without agent id)   *)
(* and then at intervals (Run), acknowledges the commands that have a hash *)
(* and calls the handlers: feature flags in the goroutine that polls, the  *)
(* others in goroutines of their own.  A flag that changes the             *)
(* configuration after the first fetch ends the process with a code that   *)
(* asks for a restart.  The backend and the restart are external.          *)
(***************************************************************************)
EXTENDS Integers, Sequences

CONSTANTS
  RestartFlags,    \* register_enabled, parallelize_inventory_enabled, async_inventory_handler_enabled
  BasicFlags,      \* flags that are only set, fluent_bit_19_win among them
  UserFeatures,    \* the flags of the agent's configuration file: user values
  Requests,        \* hashes of the other commands, which have an id
  NoHandler,       \* the ones of these that no handler is registered for
  Delays,          \* delays of backoff_command_channel
  PollDelay,       \* CommandChannelIntervalSec
  MaxToggles,      \* bound: flags that change in the backend
  MaxFailures      \* bound: polls and acknowledgements that fail

ASSUME ChannelAssumption ==
  /\ RestartFlags \cap BasicFlags = {} /\ DOMAIN UserFeatures \subseteq BasicFlags
  /\ UserFeatures \in [DOMAIN UserFeatures -> BOOLEAN]
  /\ NoHandler \subseteq Requests /\ Delays \cup {PollDelay} \subseteq Int
  /\ {MaxToggles, MaxFailures} \subseteq Nat

Flags == RestartFlags \cup BasicFlags

VARIABLES
  backend,    \* external: what the backend offers
  service,    \* srv and the goroutine of InitialFetch and Run
  process,    \* the configuration, the features and the handlers of this process
  count       \* ghost: requests handled by this process, and failed acknowledgements

channelVars == <<backend, service, process, count>>

\* The options as they are read at a start, before any flag: all off.
NewService ==
  [pc |-> "start", initial |-> TRUE, id |-> FALSE, todo |-> {}, acks |-> {}, delay |-> PollDelay]

\* backoff is the channel of one delay; senders are handlers that wait for room.
NewProcess ==
  [cfg |-> [f \in RestartFlags |-> FALSE], features |-> UserFeatures,
   spawned |-> {}, backoff |-> <<>>, senders |-> <<>>]

NoCount == [handled |-> [r \in Requests |-> 0], again |-> [r \in Requests |-> 0]]

ChannelInit ==
  /\ backend = [flags |-> [f \in Flags |-> FALSE], requests |-> {}, acked |-> {},
                toggles |-> 0, failures |-> 0]
  /\ service = NewService
  /\ process = NewProcess
  /\ count = NoCount

-----------------------------------------------------------------------------
(* The backend (external)                                                   *)

ToggleFlag(f) ==
  /\ backend.toggles < MaxToggles
  /\ backend' = [backend EXCEPT !.flags[f] = ~@, !.toggles = @ + 1]
  /\ UNCHANGED <<service, process, count>>

IssueRequest(r) ==
  /\ r \notin backend.requests
  /\ backend' = [backend EXCEPT !.requests = @ \cup {r}]
  /\ UNCHANGED <<service, process, count>>

\* A response has the flags, the requests that are not acknowledged, some that are,
\* and perhaps a delay (bound: none while a handler waits to send one).
Offer(again, delay) ==
  {[kind |-> "flag", of |-> f, enabled |-> backend.flags[f]] : f \in Flags}
    \cup {[kind |-> "request", of |-> r] : r \in (backend.requests \ backend.acked) \cup again}
    \cup {[kind |-> "backoff", of |-> d] : d \in delay}

Responses == {Offer(again, delay) : again \in SUBSET backend.acked,
                                    delay \in {{}} \cup {{d} : d \in {e \in Delays : process.senders = <<>>}}}

-----------------------------------------------------------------------------
(* InitialFetch and Run                                                     *)

\* The answer to a poll; the list is handled in the order that the backend chose.
GetCommands(cmds) ==
  /\ service.pc \in {"start", "poll"}
  /\ service' = [service EXCEPT !.pc = "handle", !.todo = cmds]
  /\ UNCHANGED <<backend, process, count>>

\* A poll that fails is not repeated: Run waits for its next tick.
PollFails ==
  /\ service.pc \in {"start", "poll"} /\ backend.failures < MaxFailures
  /\ backend' = [backend EXCEPT !.failures = @ + 1]
  /\ service' = [service EXCEPT !.pc = "wait", !.initial = FALSE]
  /\ UNCHANGED <<process, count>>

\* The list is done: the first fetch waits for a delay for a moment.
ListHandled ==
  /\ service.pc = "handle" /\ service.todo = {}
  /\ service' = [service EXCEPT !.pc = IF service.initial THEN "settle" ELSE "wait"]
  /\ UNCHANGED <<backend, process, count>>

InitialFetchEnds ==
  /\ service.pc = "settle"
  /\ \/ /\ process.backoff # <<>>
        /\ service' = [service EXCEPT !.pc = "wait", !.initial = FALSE, !.delay = Head(process.backoff)]
        /\ process' = [process EXCEPT !.backoff = <<>>]
     \/ /\ service' = [service EXCEPT !.pc = "wait", !.initial = FALSE]
        /\ UNCHANGED process
  /\ UNCHANGED <<backend, count>>

\* nextPollInterval: at least a second.
Interval(d) == IF d <= 0 THEN 1 ELSE d

\* A tick; the agent id is known or not, and stays known.
Tick(id) ==
  /\ service.pc = "wait" /\ (service.id => id)
  /\ service' = [service EXCEPT !.pc = "poll", !.id = id, !.delay = Interval(@)]
  /\ UNCHANGED <<backend, process, count>>

\* A delay takes effect with the ticker that the next poll starts.
TakeDelay ==
  /\ service.pc = "wait" /\ process.backoff # <<>>
  /\ service' = [service EXCEPT !.delay = Head(process.backoff)]
  /\ process' = [process EXCEPT !.backoff = <<>>]
  /\ UNCHANGED <<backend, count>>

-----------------------------------------------------------------------------
(* handle                                                                   *)

Done(c) == service' = [service EXCEPT !.todo = @ \ {c}]

\* os.Exit with the code for a restart: a new process, which fetches first.  The
\* requests whose goroutines have not run are lost.
Restarts ==
  /\ service' = NewService
  /\ process' = NewProcess
  /\ count' = NoCount

\* Mutant: the first fetch restarts the agent as well.
MutMayRestart == TRUE

\* isInitialFetch
MayRestart == ~service.initial

\* handleRegister, handleParallelizeInventory, handleAsyncInventoryHandlerEnabled.
HandleRestartFlag(c) ==
  IF process.cfg[c.of] = c.enabled THEN Done(c) /\ UNCHANGED <<process, count>>
  ELSE IF MayRestart THEN Restarts
  ELSE /\ Done(c)
       /\ process' = [process EXCEPT !.cfg[c.of] = c.enabled]
       /\ UNCHANGED count

\* SetFeatureFlag: the user's value prevails.
HandleBasicFlag(c) ==
  /\ Done(c)
  /\ process' = IF c.of \in DOMAIN UserFeatures THEN process
                ELSE [process EXCEPT !.features =
                        [f \in DOMAIN @ \cup {c.of} |-> IF f = c.of THEN c.enabled ELSE @[f]]]
  /\ UNCHANGED count

\* Flags have neither hash nor id: they are handled at once, and at the first fetch.
HandleFlag(c) ==
  /\ service.pc = "handle" /\ c \in service.todo /\ c.kind = "flag"
  /\ IF c.of \in RestartFlags THEN HandleRestartFlag(c) ELSE HandleBasicFlag(c)
  /\ UNCHANGED backend

\* The goroutine of the handler of backoff_command_channel starts ...
HandleBackoff(c) ==
  /\ service.pc = "handle" /\ c \in service.todo /\ c.kind = "backoff"
  /\ Done(c)
  /\ process' = [process EXCEPT !.senders = Append(@, c.of)]
  /\ UNCHANGED <<backend, count>>

\* ... and sends the delay when the channel has room.
SendDelay ==
  /\ process.senders # <<>> /\ process.backoff = <<>>
  /\ process' = [process EXCEPT !.backoff = <<Head(process.senders)>>, !.senders = Tail(@)]
  /\ UNCHANGED <<backend, service, count>>

\* Mutant: acknowledged commands are not remembered.
MutWasACKed(r) == FALSE

WasACKed(r) == r \in service.acks

\* A request is acknowledged (ok) or not, and handled all the same; without agent id
\* it is neither.
HandleRequest(c, ok) ==
  LET r == c.of
      handled == service.id /\ r \notin NoHandler
  IN  /\ service.pc = "handle" /\ c \in service.todo /\ c.kind = "request"
      /\ ~WasACKed(r)
      /\ ok \/ (backend.failures < MaxFailures /\ service.id)
      /\ service' = [service EXCEPT !.todo = @ \ {c},
                                    !.acks = IF ok /\ service.id THEN @ \cup {r} ELSE @]
      /\ backend' = IF ~ok THEN [backend EXCEPT !.failures = @ + 1]
                    ELSE IF service.id THEN [backend EXCEPT !.acked = @ \cup {r}]
                    ELSE backend
      /\ process' = IF handled THEN [process EXCEPT !.spawned = @ \cup {r}] ELSE process
      /\ count' = [count EXCEPT !.handled[r] = IF handled THEN @ + 1 ELSE @,
                                !.again[r] = IF ok THEN @ ELSE @ + 1]

SkipACKed(c) ==
  /\ service.pc = "handle" /\ c \in service.todo /\ c.kind = "request" /\ WasACKed(c.of)
  /\ Done(c)
  /\ UNCHANGED <<backend, process, count>>

\* The handler of a request runs.
HandlerRuns(r) ==
  /\ r \in process.spawned
  /\ process' = [process EXCEPT !.spawned = @ \ {r}]
  /\ UNCHANGED <<backend, service, count>>

-----------------------------------------------------------------------------

HandleStep ==
  \E c \in service.todo :
    \/ HandleFlag(c) \/ HandleBackoff(c) \/ SkipACKed(c)
    \/ \E ok \in BOOLEAN : HandleRequest(c, ok)

PollStep ==
  \/ \E cmds \in Responses : GetCommands(cmds)
  \/ ListHandled \/ InitialFetchEnds

ServiceStep == HandleStep \/ PollStep \/ \E id \in BOOLEAN : Tick(id)

ChannelNext ==
  \/ \E f \in Flags : ToggleFlag(f)
  \/ \E r \in Requests : IssueRequest(r) \/ HandlerRuns(r)
  \/ PollFails \/ TakeDelay \/ SendDelay
  \/ ServiceStep

ChannelSpec == ChannelInit /\ [][ChannelNext]_channelVars

-----------------------------------------------------------------------------
(* Properties                                                               *)

\* A process handles a request once, and again only after an acknowledgement that
\* failed, although the backend may offer it at every poll.
RequestsOnce == \A r \in Requests : count.handled[r] <= 1 + count.again[r]

\* The value a feature has when it is not set.
FeatureValue(f) == IF f \in DOMAIN process.features THEN process.features[f] ELSE FALSE

\* The flags of the backend take effect, through restarts where they are needed,
\* and the restarts come to an end: a process that fetched the flags first does not
\* restart for them again.
FlagsSettle ==
  <>[](/\ \A f \in RestartFlags : process.cfg[f] = backend.flags[f]
       /\ \A f \in BasicFlags \ DOMAIN UserFeatures : FeatureValue(f) = backend.flags[f])

=============================================================================
