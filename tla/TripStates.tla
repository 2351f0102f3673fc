------------------------------ MODULE TripStates ------------------------------
(***************************************************************************)
(* The states of a trip and the transitions that Trip.transition_to        *)
(* accepts (services/simulation/src/trip.py).  Constant-level: shared by   *)
(* every module that moves a trip.                                         *)
(***************************************************************************)

TripState == {"requested", "offer_sent", "offer_expired", "offer_rejected",
              "driver_assigned", "en_route_pickup", "at_pickup", "in_transit",
              "completed", "cancelled"}

Terminal == {"completed", "cancelled"}

\* A driver is committed to the trip.
Engaged == {"driver_assigned", "en_route_pickup", "at_pickup", "in_transit"}

\* Between two offers: the states from which a (further) offer may be sent.
Offerable == {"requested", "offer_expired", "offer_rejected"}

\* VALID_TRANSITIONS: may a trip in state s move to state n?
CanTransition(s, n) ==
  \/ s \in Offerable           /\ n \in {"offer_sent", "cancelled"}
  \/ s = "offer_sent"          /\ n \in {"offer_expired", "offer_rejected",
                                         "driver_assigned", "cancelled"}
  \/ s = "driver_assigned"     /\ n \in {"en_route_pickup", "cancelled"}
  \/ s = "en_route_pickup"     /\ n \in {"at_pickup", "cancelled"}
  \/ s = "at_pickup"           /\ n \in {"in_transit", "cancelled"}
  \/ s = "in_transit"          /\ n \in {"completed", "cancelled"}
================================================================================
