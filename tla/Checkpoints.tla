------------------------------ MODULE Checkpoints ------------------------------
(***************************************************************************)
(* Saving the simulated world and restoring it after a restart:            *)
(* save_from_engine and restore_to_engine of db/checkpoint.py (SQLite) and *)
(* db/s3_checkpoint.py, with their callers in engine/__init__.py and       *)
(* main.py.  A checkpoint is saved by the SimPy thread, periodically and   *)
(* when a pause has come, and by the main thread on SIGTERM; it is         *)
(* restored when the process starts.                                       *)
(*                                                                         *)
(* The save reads the registries one after the other while other threads   *)
(* go on.  The world is abstracted to what a checkpoint shows of it: the   *)
(* status and the trip of each agent, the reservations, and the live trips *)
(* that only the memory of the process has (Matching has the details).     *)
(* What a checkpoint hides from its reader is noted as its "flaws".        *)
(***************************************************************************)
EXTENDS Naturals

CONSTANTS
  Drivers, Riders,
  NoDriver, NoRider, NoCheckpoint,
  Storage,                  \* checkpoint_storage_type: "sqlite" or "s3"
  MaxRestarts, MaxResets, MaxSaves, MaxRequests   \* bounds

ASSUME CheckpointAssumption ==
  /\ NoDriver \notin Drivers /\ NoRider \notin Riders
  /\ Storage \in {"sqlite", "s3"}
  /\ MaxRestarts \in Nat /\ MaxResets \in Nat /\ MaxSaves \in Nat
  /\ MaxRequests \in Nat

VARIABLES
  up,          \* the process: "up", "stopping" after SIGTERM, or "down"
  stepping,    \* the SimPy thread is still in a step while it is stopping
  state,       \* the engine's _state; "cancelling" is DRAINING, on its way to PAUSED
  driver,      \* status and active trip of each driver (a trip by its rider)
  rider,       \* status of each rider; it has a trip unless it is idle
  trip,        \* the live trip of each rider, and the driver offered to or matched
  reserved,    \* _reserved_drivers
  asking,      \* riders whose run() is in the request it made
  onShift,     \* drivers whose run() is in a shift
  heading,     \* drivers with a _drive_toward_home process
  save,        \* what each saver has read so far
  saved,       \* the checkpoint in the store
  restored,    \* history: the checkpoint this world came from
  resets, restarts, saves, requests,   \* how many there were
  overlapped   \* history: a reset came while a checkpoint was being saved

agents == <<driver, rider>>
work   == <<trip, reserved, asking, onShift, heading>>
world  == <<agents, work, requests>>
history == <<resets, restarts, overlapped>>
store  == <<saved, restored, history, saves>>
vars   == <<up, stepping, state, world, save, store>>

Savers == {"sim", "main"}

DriverStatus == {"absent", "offline", "available", "busy", "homing"}
RiderStatus == {"absent", "idle", "requesting", "awaiting_pickup", "on_trip"}
Phases == {"none", "sent", "admitted", "open", "offered", "matched", "riding", "void", "cancelled"}
Triggers == {"none", "periodic", "quiescence_achieved", "drain_timeout", "shutdown"}
FlawNames == {"unseen", "forced", "stuck", "torn"}

Absent == [status |-> "absent", trip |-> NoRider]
NoTrip == [phase |-> "none", driver |-> NoDriver]
NoAgents == [drivers |-> [d \in Drivers |-> Absent], riders |-> [r \in Riders |-> "absent"]]

NothingRead ==
  [at |-> "idle", trigger |-> "none", drivers |-> NoAgents.drivers, riders |-> NoAgents.riders,
   kind |-> "graceful", flaws |-> {}, epoch |-> 0]

\* _active_trips: a trip is registered after its first wait, and stays until its
\* end has been handled.
Active == {r \in Riders : trip[r].phase \in {"open", "offered", "matched", "riding", "cancelled"}}

Homing == {d \in Drivers : driver[d].status = "homing"}

\* Who waits for something that only a process that died could have brought.
Drives(d, r) == trip[r].driver = d /\ trip[r].phase \in {"matched", "riding", "cancelled"}

StuckDrivers == {d \in Drivers : driver[d].trip # NoRider /\ ~Drives(d, driver[d].trip)}

StuckRiders == {r \in Riders : rider[r] \notin {"absent", "idle"} /\ r \notin asking}

StuckReservations == {d \in reserved : \A r \in Riders : trip[r].driver # d}

NobodyStuck == StuckDrivers = {} /\ StuckRiders = {} /\ StuckReservations = {}

Init ==
  /\ up = "up" /\ stepping = FALSE /\ state = "stopped"
  /\ driver = NoAgents.drivers /\ rider = NoAgents.riders
  /\ trip = [r \in Riders |-> NoTrip]
  /\ reserved = {} /\ asking = {} /\ onShift = {} /\ heading = {}
  /\ save = [s \in Savers |-> NothingRead]
  /\ saved = NoCheckpoint /\ restored = NoCheckpoint
  /\ resets = 0 /\ restarts = 0 /\ saves = 0 /\ requests = 0 /\ overlapped = FALSE

--------------------------------------------------------------------------------
(* The simulated world, as far as a checkpoint sees it: what the SimPy thread *)
(* does.  SimPyStep below adds when it does it.                               *)

SpawnDriver(d) ==
  /\ driver[d].status = "absent"
  /\ driver' = [driver EXCEPT ![d].status = "offline"]
  /\ UNCHANGED <<rider, work>>

SpawnRider(r) ==
  /\ rider[r] = "absent"
  /\ rider' = [rider EXCEPT ![r] = "idle"]
  /\ UNCHANGED <<driver, work>>

\* DriverAgent.run: a shift begins, whatever the driver was restored with.
GoOnline(d) ==
  /\ driver[d].status # "absent" /\ d \notin onShift
  /\ driver' = [driver EXCEPT ![d].status = "available"]
  /\ onShift' = onShift \cup {d}
  /\ UNCHANGED <<rider, trip, reserved, asking, heading>>

GoOffline(d) ==
  /\ d \in onShift /\ driver[d].trip = NoRider
  /\ driver' = [driver EXCEPT ![d].status = "offline"]
  /\ onShift' = onShift \ {d} /\ heading' = heading \ {d}
  /\ UNCHANGED <<rider, trip, reserved, asking>>

\* The end of _drive_toward_home.
ArriveHome(d) ==
  /\ d \in heading
  /\ driver' = [driver EXCEPT ![d].status = "available"]
  /\ heading' = heading \ {d}
  /\ UNCHANGED <<rider, trip, reserved, asking, onShift>>

\* RiderAgent.run; the request reaches request_match only while there is an event
\* loop to run it.
Request(r) ==
  /\ rider[r] = "idle" /\ trip[r] = NoTrip
  /\ requests < MaxRequests /\ requests' = requests + 1
  /\ rider' = [rider EXCEPT ![r] = "requesting"]
  /\ asking' = asking \cup {r}
  /\ trip' = [trip EXCEPT ![r].phase = IF up = "up" THEN "sent" ELSE "none"]
  /\ UNCHANGED <<driver, reserved, onShift, heading>>

\* The driver answers no, or too late, or the rider is gone.
OfferEnds(r) ==
  /\ trip[r].phase \in {"offered", "void"}
  /\ reserved' = reserved \ {trip[r].driver}
  /\ trip' = [trip EXCEPT ![r] = IF @.phase = "void" THEN NoTrip
                                 ELSE [phase |-> "open", driver |-> NoDriver]]
  /\ UNCHANGED <<agents, asking, onShift, heading>>

\* accept_trip, and the executor reports the driver en route.  A drive home that
\* is under way is not interrupted, and will set the driver available.
Accept(r) ==
  /\ trip[r].phase = "offered"
  /\ LET d == trip[r].driver IN
       /\ driver' = [driver EXCEPT ![d] = [status |-> "busy", trip |-> r]]
       /\ reserved' = reserved \ {d}
  /\ rider' = [rider EXCEPT ![r] = "awaiting_pickup"]
  /\ trip' = [trip EXCEPT ![r].phase = "matched"]
  /\ UNCHANGED <<asking, onShift, heading>>

PickUp(r) ==
  /\ trip[r].phase = "matched"
  /\ rider' = [rider EXCEPT ![r] = "on_trip"]
  /\ trip' = [trip EXCEPT ![r].phase = "riding"]
  /\ UNCHANGED <<driver, reserved, asking, onShift, heading>>

\* The trip is over, completed or cancelled (the executor finds out about a forced
\* cancellation); its driver may head for home.
TripEnds(r) ==
  /\ trip[r].phase \in {"matched", "riding", "cancelled"}
  /\ rider' = [rider EXCEPT ![r] = "idle"]
  /\ trip' = [trip EXCEPT ![r] = NoTrip]
  /\ asking' = asking \ {r}
  /\ LET d == trip[r].driver IN
       IF d = NoDriver THEN UNCHANGED <<driver, reserved, heading>>
       ELSE /\ reserved' = reserved \ {d}
            /\ IF driver[d].trip # r THEN UNCHANGED <<driver, heading>>
               ELSE \E home \in BOOLEAN :
                      /\ driver' = [driver EXCEPT ![d] =
                           [status |-> IF home THEN "homing" ELSE "available", trip |-> NoRider]]
                      /\ heading' \in IF home THEN {heading \cup {d}} ELSE {heading, heading \ {d}}
  /\ UNCHANGED onShift

\* The rider's patience ends; an offer that is out keeps its reservation.
GiveUp(r) ==
  /\ r \in asking /\ rider[r] = "requesting" /\ trip[r].phase # "cancelled"
  /\ rider' = [rider EXCEPT ![r] = "idle"]
  /\ asking' = asking \ {r}
  /\ trip' = [trip EXCEPT ![r] = IF @.phase = "offered" THEN [@ EXCEPT !.phase = "void"]
                                 ELSE NoTrip]
  /\ UNCHANGED <<driver, reserved, onShift, heading>>

World ==
  \/ \E d \in Drivers : SpawnDriver(d) \/ GoOnline(d) \/ GoOffline(d) \/ ArriveHome(d)
  \/ \E r \in Riders : SpawnRider(r) \/ OfferEnds(r) \/ Accept(r) \/ PickUp(r) \/ TripEnds(r) \/ GiveUp(r)

--------------------------------------------------------------------------------
(* The event loop: the coroutine request_match, up to the first offer         *)

\* The engine refuses while it drains or is paused, and never asks again.
AdmitRequest(r) ==
  /\ trip[r].phase = "sent"
  /\ trip' = [trip EXCEPT ![r].phase =
       IF state \in {"draining", "cancelling", "paused"} THEN "none" ELSE "admitted"]
  /\ UNCHANGED <<reserved, asking, onShift, heading>>

RegisterTrip(r) ==
  /\ trip[r].phase = "admitted"
  /\ trip' = [trip EXCEPT ![r].phase = "open"]
  /\ UNCHANGED <<reserved, asking, onShift, heading>>

SendOffer(r) == \E d \in Drivers \ reserved :
  /\ trip[r].phase = "open"
  /\ driver[d].status \in {"available", "homing"} /\ driver[d].trip = NoRider
  /\ reserved' = reserved \cup {d}
  /\ trip' = [trip EXCEPT ![r] = [phase |-> "offered", driver |-> d]]
  /\ UNCHANGED <<asking, onShift, heading>>

EventLoop ==
  /\ up = "up"
  /\ \E r \in Riders : AdmitRequest(r) \/ RegisterTrip(r) \/ SendOffer(r)
  /\ UNCHANGED <<up, stepping, state, agents, requests, save, store>>

--------------------------------------------------------------------------------
(* Saving: save_from_engine.  Each step reads one registry; what makes the     *)
(* checkpoint say less than it seems to is noted as a flaw:                    *)
(*   "unseen"  a request that is not registered, or an offer without its trip, *)
(*   "forced"  a trip that was cancelled by force and not cleaned up yet,      *)
(*   "stuck"   an agent that an earlier restart left stuck,                    *)
(*   "torn"    the world moved on while it was read.                           *)

Unseen == {r \in Riders : \/ rider[r] = "requesting" /\ r \notin Active
                         \/ trip[r].phase \in {"sent", "admitted", "void"}}

Forced == {r \in Riders : trip[r].phase = "cancelled"}

Flaws == (IF Unseen = {} THEN {} ELSE {"unseen"}) \cup (IF Forced = {} THEN {} ELSE {"forced"})
         \cup (IF NobodyStuck THEN {} ELSE {"stuck"})

BeginSave(s, why) ==
  /\ saves < MaxSaves /\ saves' = saves + 1
  /\ save' = [save EXCEPT ![s] = [NothingRead EXCEPT
    !.at = "riders", !.trigger = why, !.drivers = driver, !.flaws = Flaws, !.epoch = resets]]

ReadRiders(s) ==
  /\ save[s].at = "riders"
  /\ save' = [save EXCEPT ![s].at = "count", ![s].riders = rider, ![s].flaws = @ \cup Flaws]

\* Mutant: a trip whose driver is on its way does not count.
Bug_InFlight == {r \in Active : trip[r].phase \notin {"matched", "cancelled"}}

\* The trips that are counted: those the force-cancellation ended are not.
InFlight == {r \in Active : trip[r].phase # "cancelled"}

ReadCount(s) ==
  /\ save[s].at = "count"
  /\ save' = [save EXCEPT ![s].at = "write", ![s].flaws = @ \cup Flaws,
                          ![s].kind = IF InFlight = {} THEN "graceful" ELSE "crash"]

NoDrivers(A) == \A d \in Drivers : A[d].status = "absent"
NoRiders(A) == \A r \in Riders : A[r] = "absent"

\* An empty list of drivers (riders) leaves those in the tables of SQLite.
Stored(s) ==
  LET old == IF Storage = "s3" \/ saved = NoCheckpoint THEN NothingRead ELSE saved IN
  [trigger |-> save[s].trigger, kind |-> save[s].kind,
   flaws |-> save[s].flaws \cup
     IF NoDrivers(save[s].drivers) \/ NoRiders(save[s].riders) THEN old.flaws ELSE {},
   epoch |-> save[s].epoch, reserved |-> reserved,
   drivers |-> IF NoDrivers(save[s].drivers) THEN old.drivers ELSE save[s].drivers,
   riders |-> IF NoRiders(save[s].riders) THEN old.riders ELSE save[s].riders]

\* One transaction, or one put: all or nothing.  An exception is logged.
Written(s) ==
  /\ save[s].at = "write"
  /\ saved' \in {Stored(s), saved}

Saving(s) == ReadRiders(s) \/ ReadCount(s)

--------------------------------------------------------------------------------
(* The SimPy thread                                                           *)

SimPyRuns ==
  /\ save["sim"].at = "idle"
  /\ \/ up = "up" /\ state \in {"running", "draining"}
     \/ up = "stopping" /\ stepping

\* What is being read is torn by what another thread does now.
Tear == save' = [s \in Savers |-> IF save[s].at = "idle" THEN save[s]
                                  ELSE [save[s] EXCEPT !.flaws = @ \cup {"torn"}]]

SimPyStep ==
  /\ SimPyRuns
  /\ \/ World /\ UNCHANGED requests
     \/ \E r \in Riders : Request(r)
  /\ Tear
  /\ UNCHANGED <<up, stepping, state, store>>

\* _checkpoint_process
Periodic ==
  /\ SimPyRuns
  /\ BeginSave("sim", "periodic")
  /\ UNCHANGED <<up, stepping, state, world, saved, restored, history>>

\* Mutant: the drain does not wait for those on their way home.
Bug_Quiet == Active = {}

Quiet == Active = {} /\ Homing = {}

\* _run_drain_process and _transition_to_paused, which saves.
Paused(why) ==
  /\ SimPyRuns /\ state = "draining"
  /\ state' = "paused"
  /\ BeginSave("sim", why)

Quiesce ==
  /\ Quiet
  /\ Paused("quiescence_achieved")
  /\ UNCHANGED <<up, stepping, world, saved, restored, history>>

\* After two hours trips are cancelled by force, and reposition processes stopped;
\* the agents of the trips learn of it when the simulation runs again.
DrainTimesOut ==
  /\ ~Quiet
  /\ SimPyRuns /\ state = "draining"
  /\ trip' = [r \in Riders |-> IF r \in Active THEN [trip[r] EXCEPT !.phase = "cancelled"]
                               ELSE trip[r]]
  /\ driver' = [d \in Drivers |-> IF d \in Homing THEN [driver[d] EXCEPT !.status = "available"]
                                  ELSE driver[d]]
  /\ heading' = heading \ Homing
  /\ Tear
  /\ state' = "cancelling"
  /\ UNCHANGED <<up, stepping, rider, reserved, asking, onShift, requests, store>>

PauseAfterTimeout ==
  /\ state = "cancelling"
  /\ state' = "paused"
  /\ BeginSave("sim", "drain_timeout")
  /\ UNCHANGED <<up, stepping, world, saved, restored, history>>

SimPySaves ==
  \/ Saving("sim") /\ UNCHANGED <<up, stepping, state, world, store>>
  \/ /\ Written("sim")
     /\ save' = [save EXCEPT !["sim"] = NothingRead]
     /\ UNCHANGED <<up, stepping, state, world, restored, history, saves>>

SimPy ==
  /\ up # "down"
  /\ SimPyStep \/ Periodic \/ Quiesce \/ DrainTimesOut \/ PauseAfterTimeout \/ SimPySaves

--------------------------------------------------------------------------------
(* The API: start, pause, resume, stop, reset (EngineLifecycle has their races) *)

Control ==
  /\ up = "up"
  /\ \/ state = "stopped" /\ state' = "running"
     \/ state = "running" /\ state' \in {"draining", "stopped"}
     \/ state = "paused" /\ state' = "running"
  /\ UNCHANGED <<up, stepping, world, save, store>>

\* Mutant: the tables are left as they are.
Bug_Cleared == saved

\* _clear_database; nothing deletes the object in S3.
Cleared == IF Storage = "sqlite" THEN NoCheckpoint ELSE saved

Emptied ==
  /\ state' = "stopped" /\ restored' = NoCheckpoint
  /\ driver' = NoAgents.drivers /\ rider' = NoAgents.riders
  /\ trip' = [r \in Riders |-> NoTrip]
  /\ reserved' = {} /\ asking' = {} /\ onShift' = {} /\ heading' = {}

Reset ==
  /\ up = "up" /\ resets < MaxResets
  /\ Emptied
  /\ saved' = Cleared
  /\ resets' = resets + 1
  /\ overlapped' = (overlapped \/ save["sim"].at # "idle")
  /\ Tear
  /\ UNCHANGED <<up, stepping, requests, restarts, saves>>

--------------------------------------------------------------------------------
(* The process                                                                *)

\* SIGTERM, once uvicorn has closed the event loop: SimulationRunner.stop waits
\* five seconds for a step that may take ten.
Terminate ==
  /\ up = "up"
  /\ up' = "stopping"
  /\ stepping' \in {b \in BOOLEAN :
       /\ save["sim"].at # "idle" \/ state = "cancelling" => b
       /\ b => save["sim"].at # "idle" \/ state \in {"running", "draining", "cancelling"}}
  /\ UNCHANGED <<state, world, save, store>>

StepEnds ==
  /\ stepping /\ save["sim"].at = "idle" /\ state # "cancelling"
  /\ stepping' = FALSE
  /\ UNCHANGED <<up, state, world, save, store>>

\* Nothing is left but the store.
Dies ==
  /\ up' = "down" /\ stepping' = FALSE
  /\ Emptied
  /\ save' = [s \in Savers |-> NothingRead]

\* shutdown_handler: save, then sys.exit.
ShutdownSave ==
  /\ up = "stopping"
  /\ \/ /\ save["main"].at = "idle" /\ BeginSave("main", "shutdown")
        /\ UNCHANGED <<up, stepping, state, world, saved, restored>>
     \/ Saving("main") /\ UNCHANGED <<up, stepping, state, world, saved, restored, saves>>
     \/ Written("main") /\ Dies /\ UNCHANGED <<requests, saves>>
  /\ UNCHANGED history

Crash ==
  /\ up # "down"
  /\ Dies
  /\ UNCHANGED <<requests, saved, history, saves>>

\* Rows of the Trip table whose trip is in flight.  _load_all_trips reads them, and
\* nothing in the service inserts any; S3 stores no trips at all.
StoredTrips == {}

\* restore_to_engine, with its cleanup after a "crash" checkpoint: each trip it
\* loaded is cancelled, which frees its driver and its rider.
Cancelled(c) == IF c.kind = "crash" THEN StoredTrips ELSE {}

Restore(c) ==
  /\ driver' = [d \in Drivers |-> IF c.drivers[d].trip \in Cancelled(c)
                                  THEN [status |-> "available", trip |-> NoRider]
                                  ELSE c.drivers[d]]
  /\ rider' = [r \in Riders |-> IF r \in Cancelled(c) THEN "idle" ELSE c.riders[r]]
  /\ reserved' = c.reserved \ {d \in Drivers : c.drivers[d].trip \in Cancelled(c)}
  \* immediate_online, for those only who are available and free
  /\ onShift' = {d \in Drivers : c.drivers[d] = [status |-> "available", trip |-> NoRider]}

\* The next process, restored if there is a checkpoint, waits to be started.
Restart ==
  /\ up = "down" /\ restarts < MaxRestarts
  /\ up' = "up"
  /\ restarts' = restarts + 1 /\ UNCHANGED saves
  /\ restored' = IF saved = NoCheckpoint THEN NoCheckpoint
                 ELSE [kind |-> saved.kind, flaws |-> saved.flaws]
  /\ IF saved = NoCheckpoint
       THEN UNCHANGED <<driver, rider, reserved, onShift>>
       ELSE Restore(saved)
  /\ UNCHANGED <<stepping, state, trip, requests, asking, heading, save, saved, resets, overlapped>>

Process == Terminate \/ StepEnds \/ ShutdownSave \/ Crash \/ Restart

Next == EventLoop \/ SimPy \/ Control \/ Reset \/ Process

Spec == Init /\ [][Next]_vars

--------------------------------------------------------------------------------
(* Properties *)

Agents == {A \in [Drivers -> [status : DriverStatus, trip : Riders \cup {NoRider}]] :
             \A d \in Drivers : A[d].status = "absent" => A[d].trip = NoRider}
Statuses == [Riders -> RiderStatus]

Checkpoint == [trigger : Triggers, kind : {"graceful", "crash"}, flaws : SUBSET FlawNames,
               epoch : 0..MaxResets, reserved : SUBSET Drivers, drivers : Agents, riders : Statuses]

TypeOK ==
  /\ up \in {"up", "stopping", "down"} /\ stepping \in BOOLEAN
  /\ state \in {"stopped", "running", "draining", "cancelling", "paused"}
  /\ driver \in Agents /\ rider \in Statuses
  /\ trip \in [Riders -> [phase : Phases, driver : Drivers \cup {NoDriver}]]
  /\ reserved \subseteq Drivers /\ asking \subseteq Riders
  /\ onShift \subseteq Drivers /\ heading \subseteq Drivers
  /\ save \in [Savers -> [at : {"idle", "riders", "count", "write"}, trigger : Triggers,
                         drivers : Agents, riders : Statuses, kind : {"graceful", "crash"},
                         flaws : SUBSET FlawNames, epoch : 0..MaxResets]]
  /\ saved \in Checkpoint \cup {NoCheckpoint}
  /\ restored \in [kind : {"graceful", "crash"}, flaws : SUBSET FlawNames] \cup {NoCheckpoint}
  /\ resets \in 0..MaxResets /\ restarts \in 0..MaxRestarts /\ saves \in 0..MaxSaves
  /\ requests \in 0..MaxRequests /\ overlapped \in BOOLEAN

\* A world restored from a graceful checkpoint is whole: every driver can be
\* matched again and every rider can ask again, unless the checkpoint is flawed.
GracefulRestoresAll ==
  restored # NoCheckpoint =>
    (restored.kind = "graceful" /\ restored.flaws = {} => NobodyStuck)

\* A pause that comes by itself leaves a checkpoint that is graceful and has no
\* trip, no reservation and nobody on the way home: pausing and restarting loses
\* nothing.
PauseRestoresAll ==
  saved # NoCheckpoint =>
    (saved.trigger = "quiescence_achieved" /\ saved.flaws = {} =>
       /\ saved.kind = "graceful" /\ saved.reserved = {}
       /\ \A d \in Drivers : /\ saved.drivers[d].trip = NoRider
                             /\ saved.drivers[d].status # "homing"
       /\ \A r \in Riders : saved.riders[r] \in {"absent", "idle"})

\* No restart brings back a world that was reset.
ResetIsForgotten ==
  saved # NoCheckpoint /\ Storage = "sqlite" /\ ~overlapped => saved.epoch = resets

\* The cleanup after a crash leaves nobody with a trip of the world before.
RecoveryIsClean ==
  restored # NoCheckpoint =>
    (restored.kind = "crash" /\ restored.flaws = {} => NobodyStuck)
================================================================================
