------------------------------- MODULE LiveView -------------------------------
(***************************************************************************)
(* What the pages of the control panel show of a rider and the rider's     *)
(* rides: from the engine's memory, through the stream processor's window  *)
(* and Redis, the server's fan-out to its WebSockets (services/simulation/ *)
(* src/api: redis_subscriber.py, websocket.py, snapshots.py), to the       *)
(* page's state (control-panel/src/hooks: useWebSocket.ts,                 *)
(* useSimulationState.ts).                                                 *)
(*                                                                         *)
(* The engine runs on a thread of its own and changes while the server's   *)
(* event loop reads a snapshot; the loop does nothing else meanwhile.  A   *)
(* broadcast waits between two sends, and anything may happen there.       *)
(*                                                                         *)
(* One autonomous rider, who takes one ride after the other; the events of *)
(* a ride keep their order (they share a Kafka partition).                 *)
(***************************************************************************)
EXTENDS Naturals, Sequences, FiniteSets

CONSTANTS
    Clients,
    MaxRides, MaxWire, MaxFaults,   \* bounds
    Races   \* which of the following may happen:
            \*   "early_ping"       the rider sends a ping after boarding, before
            \*                      the drive's first interval
            \*   "quick_return"     the rider asks again while pings of the last
            \*                      ride are on their way
            \*   "profile_update"   the weekly rider.updated event during a ride
            \*   "reset_overtakes"  a reset while events are on their way

ASSUME LiveAssumption ==
    /\ IsFiniteSet(Clients)
    /\ {MaxRides, MaxWire, MaxFaults} \subseteq Nat
    /\ Races \subseteq {"early_ping", "quick_return", "profile_update", "reset_overtakes"}

VARIABLES
    ride, phase, alive,         \* the engine: the rider's last ride, how far it is,
                                \* whether the rider exists
    wire,                       \* published in Redis, not yet handled by the subscriber
    cast,                       \* the broadcast under way
    resetting,                  \* a reset is still to be broadcast
    conn, readRider,            \* the clients' connections; the rider as a snapshot read it
    ghosts,                     \* dead sockets still in active_connections
    shown, rider, buf,          \* a page: its rides, its rider's trip_state, gpsBufferRef
    missed,                     \* clients that were not sent a message (history)
    seen,                       \* rides a page was told the end of (history)
    faults                      \* broken links and lost subscriptions so far

engineVars == <<ride, phase, alive>>
serverVars == <<cast, resetting, conn, readRider, ghosts>>
pageVars   == <<shown, rider, buf, seen>>
liveVars == <<engineVars, wire, serverVars, pageVars, missed, faults>>

Rides  == 1..MaxRides
(* A trip is "lapsed" after an offer was rejected or expired with nobody else to
   ask; "requested" stands for the other states before the rider boards. *)
Phases == {"requested", "lapsed", "in_transit"}
Message == [kind : {"trip", "ping", "profile", "reset", "snapshot"}, id : 0..MaxRides,
            st : Phases \cup {"idle", "ended", "absent"}]
Ping(st) == [kind |-> "ping", id |-> 0, st |-> st]
NoCast   == [on |-> FALSE, msg |-> Ping("idle"), todo |-> {}, size |-> 0]

(* Every variable holds what its declaration says; at most one snapshot is
   being read. *)
LiveTypeOK ==
    /\ ride \in 0..MaxRides /\ phase \in Phases \cup {"idle"}
    /\ alive \in BOOLEAN /\ resetting \in BOOLEAN
    /\ wire \in Seq(Message) /\ Len(wire) <= MaxWire
    /\ cast \in [on : BOOLEAN, msg : Message, todo : SUBSET Clients, size : Nat]
    /\ conn \in [Clients -> {"down", "reading", "up"}]
    /\ \A c, d \in Clients : conn[c] = "reading" /\ conn[d] = "reading" => c = d
    /\ readRider \in Phases \cup {"idle", "absent"}
    /\ ghosts \in 0..MaxFaults /\ faults \in 0..MaxFaults
    /\ shown \in [Clients -> SUBSET Rides] /\ seen \in [Clients -> SUBSET Rides]
    /\ rider \in [Clients -> Phases \cup {"idle", "absent"}]
    /\ buf \in [Clients -> Phases \cup {"none"}]
    /\ missed \subseteq Clients

LiveInit ==
    /\ ride = 0 /\ phase = "idle" /\ alive = TRUE
    /\ wire = <<>>
    /\ cast = NoCast /\ resetting = FALSE
    /\ conn = [c \in Clients |-> "down"] /\ readRider = "absent"
    /\ ghosts = 0
    /\ shown = [c \in Clients |-> {}] /\ seen = [c \in Clients |-> {}]
    /\ rider = [c \in Clients |-> "absent"]
    /\ buf = [c \in Clients |-> "none"]
    /\ missed = {} /\ faults = 0

-----------------------------------------------------------------------------
(* The engine and the stream processor *)

Emit(kind, id, st) == /\ Len(wire) < MaxWire
                      /\ wire' = Append(wire, [kind |-> kind, id |-> id, st |-> st])

OnWire(kind) == \E n \in 1..Len(wire) : wire[n].kind = kind

(* No ping is on its way to a page. *)
NoPings ==
    /\ ~OnWire("ping") /\ ~(cast.on /\ cast.msg.kind = "ping")
    /\ \A c \in Clients : buf[c] = "none"

(* Trip events pass through the stream processor at once. *)
Request ==
    /\ alive /\ phase = "idle" /\ ride < MaxRides
    /\ "quick_return" \in Races \/ NoPings
    /\ ride' = ride + 1 /\ phase' = "requested"
    /\ Emit("trip", ride + 1, "requested")
    /\ UNCHANGED <<alive, serverVars, pageVars, missed, faults>>

(* No candidate is left; the trip waits for a later search to offer it again. *)
Lapse ==
    /\ phase = "requested" /\ phase' = "lapsed"
    /\ Emit("trip", ride, "lapsed")
    /\ UNCHANGED <<ride, alive, serverVars, pageVars, missed, faults>>

OfferAgain ==
    /\ phase = "lapsed" /\ phase' = "requested"
    /\ Emit("trip", ride, "requested")
    /\ UNCHANGED <<ride, alive, serverVars, pageVars, missed, faults>>

Board ==
    /\ phase = "requested" /\ phase' = "in_transit"
    /\ Emit("trip", ride, "in_transit")
    /\ UNCHANGED <<ride, alive, serverVars, pageVars, missed, faults>>

(* Completed, or cancelled in any phase. *)
End ==
    /\ phase # "idle" /\ phase' = "idle"
    /\ Emit("trip", ride, "ended")
    /\ UNCHANGED <<ride, alive, serverVars, pageVars, missed, faults>>

(* A rider on a trip sends its position with the trip state it was last told
   (update_trip_state, in every interval of the drive).  The stream processor
   lets the latest one through in every window; that trip events overtake it
   there adds nothing to the page's own buffer, where they do so as well. *)
SendPing ==
    /\ phase = "in_transit" /\ ~OnWire("ping")
    /\ \E st \in {"in_transit"} \cup {e \in {"requested"} : "early_ping" \in Races} :
         Emit("ping", 0, st)
    /\ UNCHANGED <<engineVars, serverVars, pageVars, missed, faults>>

(* rider.updated, once in a simulated week (one on its way is enough) *)
UpdateProfile ==
    /\ alive /\ ~OnWire("profile") /\ ("profile_update" \in Races \/ phase = "idle")
    /\ Emit("profile", 0, "idle")
    /\ UNCHANGED <<engineVars, serverVars, pageVars, missed, faults>>

(* POST /simulation/reset clears the engine at once and leaves the broadcast
   to a background task. *)
Reset ==
    /\ alive /\ ride > 0
    /\ "reset_overtakes" \in Races \/ (wire = <<>> /\ ~cast.on)
    /\ alive' = FALSE /\ phase' = "idle" /\ resetting' = TRUE
    /\ UNCHANGED <<ride, wire, cast, conn, readRider, ghosts, pageVars,
                   missed, faults>>

-----------------------------------------------------------------------------
(* The page *)

(* handleUpdate and handleSnapshot: the rides a message leaves on the map *)
Bug_RidesAfter(S, m) ==
    CASE m.kind = "trip"     -> S \cup {m.id}
      [] m.kind = "snapshot" -> {m.id} \ {0}
      [] m.kind = "reset"    -> {}
      [] OTHER               -> S
RidesAfter(S, m) ==
    CASE m.kind = "trip"     -> IF m.st = "ended" THEN S \ {m.id} ELSE S \cup {m.id}
      [] m.kind = "snapshot" -> {m.id} \ {0}
      [] m.kind = "reset"    -> {}
      [] OTHER               -> S

(* ... and the rider's trip_state.  The server's message for a profile event
   always says "idle". *)
Bug_RiderAfter(st, m) ==
    CASE m.kind = "trip" /\ st # "absent" -> m.st
      [] m.kind \in {"snapshot", "reset", "profile"} -> m.st
      [] OTHER                              -> st
RiderAfter(st, m) ==
    CASE m.kind = "trip" /\ st # "absent" -> IF m.st = "ended" THEN "idle" ELSE m.st
      [] m.kind \in {"snapshot", "reset", "profile"} -> m.st
      [] OTHER                              -> st

(* handleMessage: positions only go into the buffer *)
Handle(c, m) ==
    /\ shown' = [shown EXCEPT ![c] = RidesAfter(@, m)]
    /\ rider' = [rider EXCEPT ![c] = RiderAfter(@, m)]
    /\ buf' = IF m.kind = "ping" THEN [buf EXCEPT ![c] = m.st] ELSE buf
    /\ seen' = IF m.st = "ended" THEN [seen EXCEPT ![c] = @ \cup {m.id}] ELSE seen

(* flushGPSBuffer: a late ping does not take an idle rider back in transit *)
Bug_Pinged(st, p) == IF st = "absent" THEN st ELSE p
Pinged(st, p) == IF st = "absent" \/ (st = "idle" /\ p = "in_transit") THEN st ELSE p

FlushBuffer(c) ==
    /\ buf[c] # "none" /\ buf' = [buf EXCEPT ![c] = "none"]
    /\ rider' = [rider EXCEPT ![c] = Pinged(@, buf[c])]
    /\ UNCHANGED <<engineVars, wire, serverVars, shown, seen, missed, faults>>

-----------------------------------------------------------------------------
(* The server's event loop *)

Connected == {c \in Clients : conn[c] # "down"}
Sockets   == Cardinality(Connected) + ghosts        \* len(active_connections)
LoopFree  == \A c \in Clients : conn[c] # "reading"

(* websocket_endpoint: accepted, added, and the snapshot begun.  What the
   engine does from now on reaches the page as an event. *)
Join(c) ==
    /\ conn[c] = "down" /\ LoopFree
    /\ conn' = [conn EXCEPT ![c] = "reading"]
    /\ readRider' = IF alive THEN phase ELSE "absent"
    /\ missed' = missed \ {c}
    /\ UNCHANGED <<engineVars, wire, cast, resetting, ghosts, pageVars, faults>>

(* get_active_trips, filtered by ACTIVE_TRIP_STATES: a lapsed trip is not sent *)
Bug_ActiveRide == ride
ActiveRide == IF phase \in {"idle", "lapsed"} THEN 0 ELSE ride

(* The snapshot reads the riders first and the trips later. *)
SendSnapshot(c) ==
    /\ conn[c] = "reading" /\ conn' = [conn EXCEPT ![c] = "up"]
    /\ Handle(c, [kind |-> "snapshot", id |-> ActiveRide, st |-> readRider])
    /\ readRider' = "absent"
    /\ UNCHANGED <<engineVars, wire, cast, resetting, ghosts, missed, faults>>

(* ConnectionManager.broadcast goes through the set in any order and waits
   after every send; it gets to the first socket at once. *)
Broadcast(m) ==
    /\ LoopFree /\ ~cast.on
    /\ \/ Sockets = 0 /\ UNCHANGED <<cast, pageVars>>
       \/ \E c \in Connected :
            /\ cast' = [on |-> TRUE, msg |-> m, todo |-> Connected \ {c}, size |-> Sockets]
            /\ Handle(c, m)
       \/ /\ ghosts > 0 /\ UNCHANGED pageVars      \* the first one is dead
          /\ cast' = [on |-> TRUE, msg |-> m, todo |-> Connected, size |-> Sockets]
    /\ UNCHANGED <<engineVars, conn, readRider, ghosts, missed, faults>>

FanOut == /\ wire # <<>> /\ Broadcast(Head(wire))
          /\ wire' = Tail(wire) /\ UNCHANGED resetting

FanOutReset == /\ resetting /\ Broadcast([kind |-> "reset", id |-> 0, st |-> "absent"])
               /\ resetting' = FALSE /\ UNCHANGED wire

(* The iteration over the set goes on only while its size stays the same.  A
   page that receives late, or not at all because its link breaks, is here one
   that is sent the message late or not at all. *)
Send(c) ==
    /\ LoopFree /\ cast.on /\ c \in cast.todo /\ Sockets = cast.size
    /\ cast' = [cast EXCEPT !.todo = @ \ {c}]
    /\ Handle(c, cast.msg)
    /\ UNCHANGED <<engineVars, wire, resetting, conn, readRider, ghosts, missed, faults>>

(* Every socket has been sent the message; or the set changed its size, or a
   dead socket's send raised: the rest is not sent anything. *)
EndCast ==
    /\ LoopFree /\ cast.on
    /\ cast.todo = {} \/ Sockets # cast.size \/ ghosts > 0
    /\ cast' = NoCast /\ missed' = missed \cup cast.todo
    /\ UNCHANGED <<engineVars, wire, resetting, conn, readRider, ghosts, pageVars,
                   faults>>

(* A link breaks: the page is told, the server's socket stays in the set
   until the endpoint notices. *)
Drop(c) ==
    /\ conn[c] = "up" /\ faults < MaxFaults
    /\ conn' = [conn EXCEPT ![c] = "down"]
    /\ cast' = [cast EXCEPT !.todo = @ \ {c}]
    /\ ghosts' = ghosts + 1 /\ faults' = faults + 1
    /\ UNCHANGED <<engineVars, wire, resetting, readRider, pageVars, missed>>

NoticeDrop ==
    /\ LoopFree /\ ghosts > 0 /\ ghosts' = ghosts - 1
    /\ UNCHANGED <<engineVars, wire, cast, resetting, conn, readRider, pageVars,
                   missed, faults>>

(* The Redis connection fails; what was published before the subscription is
   renewed is lost. *)
LoseSubscription ==
    /\ LoopFree /\ ~cast.on /\ wire # <<>> /\ faults < MaxFaults
    /\ wire' = <<>> /\ faults' = faults + 1 /\ missed' = missed \cup Connected
    /\ UNCHANGED <<engineVars, serverVars, pageVars>>

-----------------------------------------------------------------------------
Engine == Request \/ Lapse \/ OfferAgain \/ Board \/ End \/ SendPing \/ UpdateProfile \/ Reset
Server == \/ FanOut \/ FanOutReset \/ EndCast \/ NoticeDrop
          \/ \E c \in Clients : SendSnapshot(c) \/ Send(c)
Fault == LoseSubscription \/ \E c \in Clients : Drop(c)

LiveNext == Engine \/ Server \/ Fault \/ \E c \in Clients : Join(c) \/ FlushBuffer(c)

(* The server's loop and the pages' timers keep going, and a page that lost its
   connection tries again (every 3 s).  Nothing is asked of the engine. *)
LiveFairness == /\ WF_liveVars(Server)
                /\ \A c \in Clients : WF_liveVars(FlushBuffer(c)) /\ WF_liveVars(Join(c))
LiveSpec == LiveInit /\ [][LiveNext]_liveVars /\ LiveFairness

-----------------------------------------------------------------------------
(* Properties *)

(* Nothing that concerns page c is on its way, and c was sent everything
   since its snapshot. *)
Settled(c) ==
    /\ conn[c] = "up" /\ c \notin missed /\ buf[c] = "none"
    /\ wire = <<>> /\ ~cast.on /\ ~resetting

CurrentRide == IF phase = "idle" THEN 0 ELSE ride

(* When events stop, a page that was sent everything shows what is: the
   rider's ride if there is one and no other (a lapsed one only if the page was
   there before), and the rider in its state - whatever the snapshot mixed
   (riders read before trips, older events arriving after it), whatever pings
   came late, after reconnections and resets alike. *)
SettledView ==
    \A c \in Clients : Settled(c) =>
        /\ {ActiveRide} \ {0} \subseteq shown[c]
        /\ shown[c] \subseteq {CurrentRide} \ {0}
        /\ rider[c] = IF alive THEN phase ELSE "absent"

(* A page that was told the end of a ride does not show that ride again: no
   snapshot, no reconnection and no event on its way brings it back. *)
EndedStaysEnded ==
    [][\A c \in Clients : shown'[c] \cap seen[c] = {}]_liveVars

(* Rides that ended do not stay on a page that is connected and was sent
   everything: time and again it shows no ride but the current one. *)
EndedDisappears ==
    \A c \in Clients :
        []<>(conn[c] # "up" \/ c \in missed \/ shown[c] \subseteq {CurrentRide})

(* "Broadcasts to all connected clients", "Handles client disconnect during
   send gracefully": a broadcast ends when every client that is connected was
   sent the message, whoever else comes or goes meanwhile. *)
OthersUnharmed == [][cast.on /\ ~cast'.on => cast.todo = {}]_liveVars
=============================================================================
