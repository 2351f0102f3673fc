---------------------------- MODULE TripLifecycle -----------------------------
(***************************************************************************)
(* What the rest of the platform may rely on when it follows a trip: an    *)
(* abstract specification of the Trip class (services/simulation/src/      *)
(* trip.py).  A trip comes into being as "requested", moves only along the *)
(* declared transitions, counts its offers, and never leaves a terminal    *)
(* state.  It says nothing of who moves it or when.                        *)
(***************************************************************************)
EXTENDS Naturals, TripStates

CONSTANT Trips

VARIABLES
  state,   \* state[t]: Trip.state, or "none" before request_match creates it
  seq      \* seq[t]: Trip.offer_sequence

vars == <<state, seq>>

Init ==
  /\ state = [t \in Trips |-> "none"]
  /\ seq = [t \in Trips |-> 0]

Create(t) ==
  /\ state[t] = "none"
  /\ state' = [state EXCEPT ![t] = "requested"]
  /\ UNCHANGED seq

\* Trip.transition_to: validated, and a new offer takes the next number.
Transition(t, n) ==
  /\ state[t] # "none"
  /\ CanTransition(state[t], n)
  /\ state' = [state EXCEPT ![t] = n]
  /\ seq' = [seq EXCEPT ![t] = IF n = "offer_sent" THEN @ + 1 ELSE @]

Next == \E t \in Trips : Create(t) \/ \E n \in TripState : Transition(t, n)

Spec == Init /\ [][Next]_vars
================================================================================
