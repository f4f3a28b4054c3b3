------------------------------ MODULE Delivery ------------------------------
(***************************************************************************)
(* What a sender of events promises: an event is accepted or refused when  *)
(* it is offered; an accepted event arrives once or is given up, never     *)
(* both; the events of one request arrive together, in the order in which  *)
(* they were offered and before everything still on its way.               *)
(***************************************************************************)
EXTENDS Stages

CONSTANT MaxArrival   \* events of one request

VARIABLES
  offered,            \* number of events offered so far, which are 1..offered
  pending,            \* accepted events on their way
  arrived,            \* events the backend has, in the order of arrival
  gone                \* events refused or given up

deliveryVars == <<offered, pending, arrived, gone>>

DeliveryInit == offered = 0 /\ pending = {} /\ arrived = <<>> /\ gone = {}

Accept ==
  /\ offered' = offered + 1
  /\ pending' = pending \cup {offered + 1}
  /\ UNCHANGED <<arrived, gone>>

Refuse ==
  /\ offered' = offered + 1
  /\ gone' = gone \cup {offered + 1}
  /\ UNCHANGED <<pending, arrived>>

Arrive(s) ==
  /\ Increasing(s) /\ Before(Range(s), pending \ Range(s))
  /\ arrived' = arrived \o s
  /\ pending' = pending \ Range(s)
  /\ UNCHANGED <<offered, gone>>

GiveUp(S) ==
  /\ pending' = pending \ S
  /\ gone' = gone \cup S
  /\ UNCHANGED <<offered, arrived>>

DeliveryNext ==
  \/ Accept \/ Refuse
  \/ \E n \in 1..MaxArrival : \E s \in [1..n -> pending] : Arrive(s)
  \/ \E S \in SUBSET pending : GiveUp(S)

DeliverySpec == DeliveryInit /\ [][DeliveryNext]_deliveryVars

=============================================================================
