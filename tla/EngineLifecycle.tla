---------------------------- MODULE EngineLifecycle ----------------------------
(***************************************************************************)
(* The simulation engine (services/simulation/src/engine/__init__.py): its *)
(* start, two-phase pause, resume, stop and reset, called by the routes of *)
(* api/routes/simulation.py from FastAPI's worker threads, against the     *)
(* thread of main.py's SimulationRunner that steps SimPy, and against the  *)
(* asyncio loop that serves the riders' match requests.  Nothing locks the *)
(* engine: the ThreadCoordinator is not used.                              *)
(*                                                                         *)
(* A handler is a sequence of actions cut where it reads or writes what    *)
(* another thread writes: between the check of the state and the           *)
(* assignment after it, between a registry and the queue, between a        *)
(* drain's last look and PAUSED.  A loop over one registry is one action,  *)
(* which a change of that registry may break off.  A trip is abstracted to *)
(* what a drain sees of it (Matching.tla has the rest), time to the polls  *)
(* of the drain and the chunks of a step.                                  *)
(***************************************************************************)
EXTENDS Naturals, FiniteSets

CONSTANTS
  Callers,      \* worker threads of the API
  Drivers, Riders,
  Puppets,      \* the agents that act on API calls only
  Trips,
  ApiAsks,      \* the API requests trips too, without asking the engine
  StepLength,   \* chunks of one step(10)
  Overshoot,    \* bound: chunks of a step in flight when the clock is reset
  MaxPolls,     \* polls of a drain before it times out (7200 s / 5 s)
  MaxPauses, MaxLaunches, MaxResets   \* bounds

Agents == Drivers \cup Riders

ASSUME EngineAssumption ==
  /\ Drivers \cap Riders = {} /\ Puppets \subseteq Agents
  /\ ApiAsks \in BOOLEAN
  /\ StepLength \in Nat \ {0} /\ Overshoot \in Nat /\ StepLength <= Overshoot
  /\ MaxPolls \in Nat \ {0} /\ MaxPauses \in Nat /\ MaxLaunches \in Nat /\ MaxResets \in Nat

VARIABLES
  state,       \* _state
  env,         \* which SimPy environment _env is: the number of resets
  registered,  \* _active_drivers and _active_riders
  joining,     \* agents in a registry, or wiped from it, that are still to be queued
  pending,     \* _pending_agents
  started,     \* agents with a run() process in env, one or more
  periodic,    \* environments in which the periodic processes live
  drains,      \* drain processes alive, each in its environment; "done": has looked
               \* for the last time
  trips,       \* trips[t]: "active" and "cancelled" ones are in _active_trips
  homing,      \* drivers that are driving_closer_to_home
  pc,          \* pc[c]: where the request served by thread c is
  sim,         \* where the SimPy thread is
  runEnv,      \* the environment whose run() it is in
  ghosts,      \* reset() replaced that environment under a rider
  left,        \* chunks left of its step
  pauses, launches,   \* how many there were
  overtaken,   \* history: agents that a launch or a reset met half-way, since started
  untidy,      \* history: a request cut in on DRAINING, and its drain lives on
  crashed      \* history: DRAINING has lost its drain to an exception

world   == <<registered, joining, pending, started, overtaken>>
traffic == <<trips, homing>>
step    == <<runEnv, ghosts, left>>
runner  == <<sim, step>>
counts  == <<pauses, launches>>
flags   == <<untidy, crashed>>
vars    == <<state, env, world, periodic, drains, traffic, pc, runner, counts, flags>>

InFlight == {t \in Trips : trips[t] \in {"active", "cancelled"}}

Init ==
  /\ state = "stopped"
  /\ env = 0
  /\ registered = {} /\ joining = {} /\ pending = {} /\ overtaken = {}
  /\ started = {}
  /\ periodic = {} /\ drains = {}
  /\ trips = [t \in Trips |-> "none"] /\ homing = {}
  /\ pc = [c \in Callers |-> "free"]
  /\ sim = "idle" /\ runEnv = 0 /\ ghosts = FALSE /\ left = 0
  /\ pauses = 0 /\ launches = 0
  /\ untidy = FALSE /\ crashed = FALSE

Goto(c, label) == pc' = [pc EXCEPT ![c] = label]

--------------------------------------------------------------------------------
(* The routes and what they call.  What a route checks and what the engine     *)
(* checks again are one look at the state; other threads may change it before *)
(* the engine assigns it.  A refused request changes nothing.                 *)

(* the route of start() asks whether the simulation runs, start() itself does not *)
Start(c)  == pc[c] = "free" /\ state # "running"
Resume(c) == pc[c] = "free" /\ state = "paused"

CallLaunch(c) ==
  /\ Start(c) \/ Resume(c)
  /\ launches < MaxLaunches
  /\ launches' = launches + 1
  /\ Goto(c, "launch")
  /\ UNCHANGED <<state, env, world, periodic, drains, traffic, runner, pauses, flags>>

Assign(new, cutsIn) ==
  /\ state' = new
  /\ untidy' = (untidy \/ cutsIn)
  /\ crashed' = FALSE

Launch(c) ==
  /\ pc[c] = "launch"
  /\ Assign("running", state = "draining")
  /\ Goto(c, "drivers")
  /\ UNCHANGED <<env, world, periodic, drains, traffic, runner, counts>>

(* _start_agent_processes: the drivers, the riders, then the queue *)
Launched(S) == started' = started \cup S /\ overtaken' = overtaken \ S

LaunchLoop(c) ==
  /\ \/ pc[c] = "drivers" /\ Launched(registered \cap Drivers) /\ Goto(c, "riders")
     \/ pc[c] = "riders"  /\ Launched(registered \cap Riders)  /\ Goto(c, "clear")
  /\ UNCHANGED <<state, env, registered, joining, pending, periodic, drains, traffic, runner,
                 counts, flags>>

Bug_ClearPending(c) ==
  /\ pc[c] = "clear"
  /\ pending' = pending
  /\ periodic' = periodic \cup {env}
  /\ Goto(c, "free")
  /\ UNCHANGED <<state, env, registered, joining, started, overtaken, drains, traffic, runner,
                 counts, flags>>

(* and then _start_periodic_processes *)
ClearPending(c) ==
  /\ pc[c] = "clear"
  /\ pending' = {}
  /\ periodic' = periodic \cup {env}
  /\ Goto(c, "free")
  /\ UNCHANGED <<state, env, registered, joining, started, overtaken, drains, traffic, runner,
                 counts, flags>>

(* pause(), then its drain process *)
CallPause(c) ==
  /\ pc[c] = "free" /\ state = "running" /\ pauses < MaxPauses
  /\ pauses' = pauses + 1
  /\ Goto(c, "pausing")
  /\ UNCHANGED <<state, env, world, periodic, drains, traffic, runner, launches, flags>>

Pause(c) ==
  /\ pc[c] = "pausing"
  /\ Assign("draining", \E b \in Callers \ {c} : pc[b] = "pausing")
  /\ Goto(c, "drain")
  /\ UNCHANGED <<env, world, periodic, drains, traffic, runner, counts>>

StartDrain(c) ==
  /\ pc[c] = "drain"
  /\ \E i \in 1..pauses :
       /\ \A d \in drains : d.id # i
       /\ \A j \in 1..(i - 1) : \E d \in drains : d.id = j
       /\ drains' = drains \cup {[id |-> i, env |-> env, polls |-> 0, done |-> FALSE]}
  /\ Goto(c, "free")
  /\ UNCHANGED <<state, env, world, periodic, traffic, runner, counts, flags>>

(* stop() through transition_state() *)
CallStop(c) ==
  /\ pc[c] = "free" /\ state = "running"
  /\ Goto(c, "stopping")
  /\ UNCHANGED <<state, env, world, periodic, drains, traffic, runner, counts, flags>>

Stop(c) ==
  /\ pc[c] = "stopping"
  /\ Assign("stopped", state = "draining")
  /\ Goto(c, "free")
  /\ UNCHANGED <<env, world, periodic, drains, traffic, runner, counts>>

(* reset(): the state, the registries, the queue, the environment and the
   matching server *)
Reset(c) ==
  /\ pc[c] = "free" /\ env < MaxResets
  /\ Assign("stopped", state = "draining")
  /\ Goto(c, "wipe")
  /\ UNCHANGED <<env, world, periodic, drains, traffic, runner, counts>>

(* A registry that changes its size throws the launches that are in a loop over it
   out of it (RuntimeError): the callers C.  Of the agents in these loops some, S,
   have been started by then; what is queued stays so. *)
KindOf(a) == IF a \in Drivers THEN "drivers" ELSE "riders"

Throws(C, S, kinds) ==
  /\ C \subseteq {c \in Callers : pc[c] \in kinds}
  /\ S \subseteq {b \in registered : KindOf(b) \in kinds}
  /\ C = {} => S = {}
  /\ started' = started \cup S

(* The agents that are queued although they have been started. *)
Left(C) == IF C = {} THEN {} ELSE pending \cap started'

Wipe(c) ==
  /\ pc[c] = "wipe"
  /\ registered' = {} /\ homing' = {}
  /\ \E C \in SUBSET Callers, S \in SUBSET registered :
       /\ Throws(C, S, {KindOf(a) : a \in registered})
       /\ pc' = [b \in Callers |-> IF b \in C THEN "free" ELSE IF b = c THEN "empty" ELSE pc[b]]
  /\ overtaken' = {}
  /\ UNCHANGED <<state, env, joining, pending, periodic, drains, trips, runner, counts, flags>>

Empty(c) ==
  /\ pc[c] = "empty"
  /\ pending' = {}
  /\ Goto(c, "renew")
  /\ UNCHANGED <<state, env, registered, joining, started, overtaken, periodic, drains, traffic,
                 runner, counts, flags>>

LiveRiders == (Riders \cap started) \ Puppets

InChunk == sim \in {"chunk", "enlisting", "spawned", "pausing"}

(* a step in flight now counts from zero to its old target *)
Renew(c) ==
  /\ pc[c] = "renew" /\ env < MaxResets
  /\ env' = env + 1
  /\ started' = {}
  /\ overtaken' = overtaken \cup (registered \cap started)
  /\ left' \in IF sim = "between" \/ InChunk THEN left..Overshoot ELSE {left}
  /\ trips' = [t \in Trips |-> IF t \in InFlight THEN "over" ELSE trips[t]]
  /\ Goto(c, "free")
  /\ ghosts' = (InChunk /\ LiveRiders # {})
  /\ UNCHANGED <<state, registered, joining, pending, periodic, drains, homing, sim, runEnv,
                 counts, flags>>

--------------------------------------------------------------------------------
(* register_driver and register_rider, by the puppet routes or the spawners:  *)
(* first the registry, then the queue.                                        *)

(* The places where the registry of a has been gone through, and the queue is still
   to be cleared. *)
PastLoop(a) == {"clear", "empty"} \cup IF a \in Drivers THEN {"riders"} ELSE {}
Passed(a)   == \E c \in Callers : pc[c] \in PastLoop(a)

Unknown(a) == a \notin registered \cup joining \cup pending \cup started

Registers(a) ==
  /\ Unknown(a)
  /\ registered' = registered \cup {a}
  /\ joining' = joining \cup {a}
  /\ \E C \in SUBSET Callers, S \in SUBSET registered :
       /\ Throws(C, S, {KindOf(a)})
       /\ pc' = [c \in Callers |-> IF c \in C THEN "free" ELSE pc[c]]
       /\ overtaken' = (overtaken \ S) \cup Left(C) \cup {b \in {a} : Passed(b)}
  /\ UNCHANGED <<state, env, pending, periodic, drains, traffic, step, counts, flags>>

Bug_Enqueues(a) ==
  /\ a \in joining
  /\ joining' = joining \ {a}
  /\ overtaken' = overtaken \cup {b \in {a} \cap started : ~Passed(b)}
  /\ UNCHANGED <<state, env, registered, pending, started, periodic, drains, traffic, pc, step,
                 counts, flags>>

(* a launch may have started it meanwhile *)
Enqueues(a) ==
  /\ a \in joining
  /\ joining' = joining \ {a}
  /\ pending' = pending \cup {a}
  /\ overtaken' = overtaken \cup {b \in {a} \cap started : ~Passed(b)}
  /\ UNCHANGED <<state, env, registered, started, periodic, drains, traffic, pc, step, counts,
                 flags>>

CreatePuppet(a)  == a \in Puppets /\ Registers(a) /\ UNCHANGED sim
EnqueuePuppet(a) == a \in Puppets /\ Enqueues(a) /\ UNCHANGED sim

--------------------------------------------------------------------------------
(* The SimPy thread: SimulationRunner._run_loop and step() *)

Bug_BeginStep ==
  /\ sim = "idle" /\ state = "running"
  /\ sim' = "starting"
  /\ UNCHANGED <<state, env, world, periodic, drains, traffic, pc, step, counts, flags>>

BeginStep ==
  /\ sim = "idle" /\ state \in {"running", "draining"}
  /\ sim' = "starting"
  /\ UNCHANGED <<state, env, world, periodic, drains, traffic, pc, step, counts, flags>>

(* _start_pending_agents, at the start of a step and after a spawn *)
StartPending(a) ==
  /\ sim \in {"starting", "spawned"} /\ a \in pending
  /\ pending' = pending \ {a}
  /\ Launched({a})
  /\ UNCHANGED <<state, env, registered, joining, periodic, drains, traffic, pc, runner, counts,
                 flags>>

Bug_PendingStarted ==
  /\ sim \in {"starting", "spawned"}
  /\ IF sim = "starting"
     THEN sim' = "between" /\ left' = StepLength /\ periodic' = periodic
     ELSE sim' = "chunk" /\ left' = left /\ periodic' = periodic \cup {env}
  /\ UNCHANGED <<state, env, world, drains, traffic, pc, runEnv, ghosts, counts, flags>>

(* The spawner then waits in the environment that is the engine's now. *)
PendingStarted ==
  /\ sim \in {"starting", "spawned"} /\ pending = {}
  /\ IF sim = "starting"
     THEN sim' = "between" /\ left' = StepLength /\ periodic' = periodic
     ELSE sim' = "chunk" /\ left' = left /\ periodic' = periodic \cup {env}
  /\ UNCHANGED <<state, env, world, drains, traffic, pc, runEnv, ghosts, counts, flags>>

(* env.run(until=...): a chunk, during which the processes of runEnv act *)
BeginChunk ==
  /\ sim = "between" /\ left > 0
  /\ sim' = "chunk" /\ runEnv' = env /\ periodic' = periodic \cap {env}
  /\ UNCHANGED <<state, env, world, drains, traffic, pc, ghosts, left, counts, flags>>

EndChunk ==
  /\ sim = "chunk"
  /\ sim' = "between"
  /\ left' = (IF runEnv = env THEN left - 1 ELSE left) /\ ghosts' = FALSE
  /\ UNCHANGED <<state, env, world, periodic, drains, traffic, pc, runEnv, counts, flags>>

Bug_EndStep ==
  /\ sim = "between" /\ left = 0
  /\ sim' = "starting"
  /\ UNCHANGED <<state, env, world, periodic, drains, traffic, pc, step, counts, flags>>

EndStep ==
  /\ sim = "between" /\ left = 0
  /\ sim' = "idle"
  /\ UNCHANGED <<state, env, world, periodic, drains, traffic, pc, step, counts, flags>>

(* a process raises, and the loop recovers from the failed step *)
StepRaises ==
  /\ sim = "chunk"
  /\ sim' = "idle" /\ left' = 0 /\ ghosts' = FALSE
  /\ UNCHANGED <<state, env, world, periodic, drains, traffic, pc, runEnv, counts, flags>>

(* a spawner: it looks at the state and makes an agent that it registers, queues
   and starts *)
Spawn(a) ==
  /\ sim = "chunk" /\ runEnv \in periodic /\ state = "running"
  /\ a \notin Puppets /\ Registers(a)
  /\ sim' = "enlisting"

EnqueueSpawned(a) ==
  sim = "enlisting" /\ a \notin Puppets /\ Enqueues(a) /\ sim' = "spawned"

--------------------------------------------------------------------------------
(* Trips.  A rider's request is checked by the engine on the asyncio loop and *)
(* then waits for its route before the trip is registered; it may end at any  *)
(* time, and its driver may drive home.                                       *)

RequestTrip(t) ==
  /\ sim = "chunk"
  /\ IF runEnv = env THEN LiveRiders # {} ELSE ghosts
  /\ trips[t] = "none"
  /\ trips' = [trips EXCEPT ![t] = "scheduled"]
  /\ UNCHANGED <<state, env, world, periodic, drains, homing, pc, runner, counts, flags>>

Bug_AdmitRequest(t) ==
  /\ trips[t] = "scheduled"
  /\ trips' = [trips EXCEPT ![t] = IF state = "draining" THEN "over" ELSE "admitted"]
  /\ UNCHANGED <<state, env, world, periodic, drains, homing, pc, runner, counts, flags>>

AdmitRequest(t) ==
  /\ trips[t] = "scheduled"
  /\ trips' = [trips EXCEPT ![t] = IF state \in {"draining", "paused"} THEN "over"
                                                                       ELSE "admitted"]
  /\ UNCHANGED <<state, env, world, periodic, drains, homing, pc, runner, counts, flags>>

ApiRequest(t) ==
  /\ ApiAsks /\ trips[t] = "none" /\ Riders \cap registered # {}
  /\ trips' = [trips EXCEPT ![t] = "admitted"]
  /\ UNCHANGED <<state, env, world, periodic, drains, homing, pc, runner, counts, flags>>

RegisterTrip(t) ==
  /\ trips[t] = "admitted"
  /\ trips' = [trips EXCEPT ![t] = "active"]
  /\ UNCHANGED <<state, env, world, periodic, drains, homing, pc, runner, counts, flags>>

EndTrip(t) ==
  /\ t \in InFlight
  /\ trips' = [trips EXCEPT ![t] = "over"]
  /\ \/ homing' = homing
     \/ /\ sim = "chunk" /\ trips[t] = "active"
        /\ \E d \in (Drivers \cap registered) \ Puppets : homing' = homing \cup {d}
  /\ UNCHANGED <<state, env, world, periodic, drains, pc, runner, counts, flags>>

ReachHome(d) ==
  /\ d \in homing
  /\ homing' = homing \ {d}
  /\ UNCHANGED <<state, env, world, periodic, drains, trips, pc, runner, counts, flags>>

--------------------------------------------------------------------------------
(* _run_drain_process: a poll, which waits next in the engine's environment; *)
(* there the clock starts over.  After its last look the drain assigns        *)
(* PAUSED, whatever the state is then.                                        *)

(* until no drain is left or on its way *)
StillUntidy == untidy /\ (drains' # {} \/ \E c \in Callers : pc[c] \in {"pausing", "drain"})

Polls(d) == sim = "chunk" /\ runEnv = d.env
Quiet    == InFlight = {} /\ homing = {}
Looked(d) ==
  /\ drains' = (drains \ {d}) \cup {[d EXCEPT !.done = TRUE]}
  /\ sim' = "pausing"

DrainQuiesces(d) ==
  /\ Polls(d) /\ Quiet
  /\ Looked(d)
  /\ UNCHANGED <<state, env, world, periodic, traffic, pc, step, counts, flags>>

DrainWaits(d) ==
  /\ Polls(d) /\ ~Quiet /\ d.polls < MaxPolls
  /\ LET polls == IF env = d.env THEN d.polls + 1 ELSE 0
     IN  drains' = (drains \ {d}) \cup {[d EXCEPT !.env = env, !.polls = polls]}
  /\ UNCHANGED <<state, env, world, periodic, traffic, pc, runner, counts, flags>>

Cancelled(S) == trips' = [t \in Trips |-> IF t \in S THEN "cancelled" ELSE trips[t]]

(* _force_cancel_trips leaves the trips in _active_trips *)
DrainTimesOut(d) ==
  /\ Polls(d) /\ ~Quiet /\ d.polls = MaxPolls
  /\ Cancelled(InFlight)
  /\ homing' = {}
  /\ Looked(d)
  /\ UNCHANGED <<state, env, world, periodic, pc, step, counts, flags>>

Bug_TransitionToPaused(d) ==
  /\ sim = "pausing" /\ d.done
  /\ state' = "paused" /\ drains' = (drains \ {d}) \cup {[d EXCEPT !.done = FALSE]}
  /\ sim' = "chunk"
  /\ untidy' = StillUntidy
  /\ UNCHANGED <<env, world, periodic, traffic, pc, step, counts, crashed>>

TransitionToPaused(d) ==
  /\ sim = "pausing" /\ d.done
  /\ state' = "paused" /\ drains' = drains \ {d}
  /\ sim' = "chunk"
  /\ untidy' = StillUntidy
  /\ UNCHANGED <<env, world, periodic, traffic, pc, step, counts, crashed>>

(* the database fails, or a trip has ended, between two of the trips, and the
   exception ends the step *)
DrainRaises(d) ==
  /\ Polls(d) /\ ~Quiet /\ d.polls = MaxPolls
  /\ \E S \in SUBSET InFlight : Cancelled(S)
  /\ drains' = drains \ {d}
  /\ sim' = "idle" /\ left' = 0 /\ ghosts' = FALSE
  /\ crashed' = TRUE /\ untidy' = StillUntidy
  /\ UNCHANGED <<state, env, world, periodic, homing, pc, runEnv, counts>>

--------------------------------------------------------------------------------
Request(c) ==
  \/ CallLaunch(c) \/ Launch(c) \/ LaunchLoop(c) \/ ClearPending(c)
  \/ CallPause(c) \/ Pause(c) \/ StartDrain(c) \/ CallStop(c) \/ Stop(c)
  \/ Reset(c) \/ Wipe(c) \/ Empty(c) \/ Renew(c)

Loop ==
  \/ BeginStep \/ PendingStarted \/ BeginChunk \/ EndChunk \/ EndStep
  \/ \E a \in Agents : StartPending(a) \/ EnqueueSpawned(a)
  \/ \E d \in drains : TransitionToPaused(d)

Poll(d) == DrainQuiesces(d) \/ DrainWaits(d) \/ DrainTimesOut(d) \/ DrainRaises(d)

Traffic ==
  \/ \E t \in Trips :
       RequestTrip(t) \/ AdmitRequest(t) \/ ApiRequest(t) \/ RegisterTrip(t) \/ EndTrip(t)
  \/ \E d \in Drivers : ReachHome(d)

Next ==
  \/ \E c \in Callers : Request(c)
  \/ \E a \in Agents : CreatePuppet(a) \/ EnqueuePuppet(a) \/ Spawn(a)
  \/ Loop \/ StepRaises
  \/ Traffic
  \/ \E d \in drains : Poll(d)

Spec == Init /\ [][Next]_vars

(* The SimPy thread runs on, env.run() comes to every event that is due, and *)
(* a request that was let into the engine is served to its end.              *)
Fairness ==
  /\ WF_vars(Loop)
  /\ SF_vars(\E d \in drains : Poll(d))
  /\ WF_vars((\E c \in Callers : StartDrain(c)) \/ (\E a \in Agents : EnqueuePuppet(a)))

FairSpec == Spec /\ Fairness

--------------------------------------------------------------------------------
Labels == {"free", "launch", "drivers", "riders", "clear", "pausing", "drain", "stopping",
           "wipe", "empty", "renew"}

TypeOK ==
  /\ state \in {"stopped", "running", "draining", "paused"}
  /\ env \in 0..MaxResets /\ runEnv \in 0..MaxResets
  /\ registered \subseteq Agents /\ joining \subseteq Agents /\ pending \subseteq Agents
  /\ started \subseteq Agents /\ overtaken \subseteq Agents
  /\ periodic \subseteq 0..MaxResets
  /\ drains \subseteq [id : 1..MaxPauses, env : 0..MaxResets, polls : 0..MaxPolls, done : BOOLEAN]
  /\ trips \in [Trips -> {"none", "scheduled", "admitted", "active", "cancelled", "over"}]
  /\ homing \subseteq Drivers
  /\ pc \in [Callers -> Labels]
  /\ sim \in {"idle", "starting", "between", "chunk", "enlisting", "spawned", "pausing"}
  /\ left \in 0..Overshoot /\ ghosts \in BOOLEAN
  /\ pauses \in 0..MaxPauses /\ launches \in 0..MaxLaunches
  /\ untidy \in BOOLEAN /\ crashed \in BOOLEAN

(* A registered agent runs, is queued to run or about to be queued: the SimPy *)
(* thread, the launches of start and resume, and reset share the registries   *)
(* and the queue without losing one, except an agent that is registered while *)
(* a launch or a reset is between the registry and the clearing of the queue, *)
(* or in the middle of a reset (engine/__init__.py, register_driver,          *)
(* _start_agent_processes, _start_pending_agents, reset).                     *)
NoAgentForgotten ==
  registered \subseteq joining \cup pending \cup started \cup overtaken

(* An agent that waits in the queue has no process yet, so that the SimPy    *)
(* thread starts none twice, unless a whole launch went by between its       *)
(* registration and its queueing, or a launch was thrown out before it       *)
(* cleared the queue or is about to clear it (register_driver,               *)
(* _start_agent_processes, _start_pending_agents).                           *)
PendingIsUnstarted ==
  \A a \in (pending \cap started) \ overtaken : Passed(a)

(* The registered agents start while the simulation runs, whatever launches, *)
(* pauses and resets go on around them, but for those that were overtaken    *)
(* (_run_loop, step, _start_pending_agents).                                 *)
Stepping == state \in {"running", "draining"}
Idle     == registered \ (started \cup overtaken)

AgentsAreStarted == Idle # {} /\ Stepping ~> Idle = {} \/ ~Stepping

(* The drain ends with DRAINING: a simulation that is stopped, runs or is    *)
(* paused carries none that would pause it later, unless a start, a reset or *)
(* a stop cut in while it was DRAINING, or two pauses went past the check at *)
(* once (pause, start, stop, reset, _run_drain_process).                     *)
DrainEndsWithPause ==
  state # "draining" /\ ~untidy => drains = {}

(* Once it is paused and no request is under way it stays so, although the   *)
(* step in flight goes on and riders still ask for trips; only the API's own *)
(* requests do not ask the engine (request_match, step).                     *)
Still == homing = {} /\ \A t \in Trips : trips[t] \notin {"admitted", "active"}

PauseHolds ==
  [][state = "paused" /\ state' = "paused" /\ Still
       => Still' \/ \E t \in Trips : ApiRequest(t)]_vars

(* A pause ends: trips end, or time out, while the SimPy thread steps on     *)
(* (SimulationRunner._run_loop, _run_drain_process), unless the database     *)
(* fails as they time out.                                                   *)
DrainEnds == state = "draining" ~> state # "draining" \/ crashed

(* After a stop, a reset or a pause the SimPy thread comes to rest, also     *)
(* when a reset put the clock back under its step (step, _run_loop).         *)
Halted == state \in {"stopped", "paused"}

StopHalts == Halted ~> sim = "idle" \/ ~Halted
================================================================================
