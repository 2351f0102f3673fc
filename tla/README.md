# Verification of the rideshare simulation platform

This directory holds TLA+ models of the parts of the platform where an
interleaving, a crash or a late message can break a promise, TLC configurations
that check them on small instances, and proofs, checked by TLAPS, that hold for
every instance. `PROJECT.json` maps every definition to the lines it models and
lists runs, mutants, findings, hazards and theorems. Paths below are relative to
`src/services/` unless they say otherwise.

- [1 Inventory](#1-inventory)
- [2 Modules and how they correspond to the code](#2-modules-and-how-they-correspond-to-the-code)
- [3 Runs: what is checked and what it shows](#3-runs-what-is-checked-and-what-it-shows)
- [4 Fairness](#4-fairness)
- [5 Proofs](#5-proofs)
- [6 What the checks found](#6-what-the-checks-found)
- [7 What is not modelled, and why](#7-what-is-not-modelled-and-why)
- [8 Plan](#8-plan)

## 1 Inventory

### The system

A discrete-event simulator (`simulation/`) plays drivers and riders of a city.
It publishes what happens to Kafka. Two consumers read it: `stream-processor/`
brings it to Redis channels and so to the browsers, `bronze-ingestion/` appends
it to the lakehouse. `performance-controller/` watches the lag and sets the
speed of the simulation. The rest is a control panel, dbt and Airflow jobs,
dashboards and deployment.

The simulator runs on **two threads**. The SimPy thread steps the simulated
processes: agents, timers, trip executors. The asyncio event loop serves the API
and runs the coroutines that have to wait for the routing engine OSRM. They share
the objects of the matching engine with few locks, so a coroutine finds changed
state after each `await`, and a SimPy handler may find the event loop in between
two of its statements. The routes that start, pause, resume, stop and reset the
simulation run on FastAPI's **worker threads** and call the engine directly, and
so do the calls that move puppet agents, whose drives are threads of their own.
The repository has a `ThreadCoordinator` for such calls, but nothing creates one.

What happens reaches the browser through the stream processor, Redis, the server's
WebSockets and the page's own buffers. The engine saves itself to SQLite or S3 and
restores itself when the process starts.

The deployed platform exists by the hour only: the **auth-deploy** Lambda keeps a
session document and a one-time schedule, starts and ends GitHub workflows that
create and destroy everything else, and gives visitors their accounts. Its
executions overlap, and nothing locks what they share.

### Components

| Component | State it keeps | Operations | Interacts with |
|---|---|---|---|
| Trip (`simulation/src/trip.py`) | state, offer sequence, driver | `transition_to`, `cancel` | moved by matching engine, executor, rider |
| Matching engine (`matching/matching_server.py`) | active trips, reserved drivers, candidates, retry queue, queue of deferred offers | `request_match`, `find_nearby_drivers`, `send_offer(_cycle)`, `_deferred_offer_response`, `process_accept/reject`, `_handle_offer_expired`, `retry_pending_matches`, `cancel_trip`, `complete_trip` | event loop and SimPy thread; driver, rider, index, surge, timers, executor |
| Offer timers (`matching/offer_timeout.py`) | one pending offer per trip, one SimPy process per offer | `start_offer_timeout`, `clear_offer`, `_timeout_process` | calls back into the engine |
| Trip executor (`trips/trip_executor.py`) | phase of one trip | `execute` and its phases, cancellations | OSRM, driver, rider, engine |
| Driver agent (`agents/driver_agent.py`) | status, `active_trip`, location, shift | `accept_trip`, `complete_trip`, `go_online/offline`, repositioning | index, registries, executor |
| Rider agent (`agents/rider_agent.py`) | status, current trip | `run`: request, patience, give up | engine, surge |
| Geospatial index (`matching/driver_geospatial_index.py`) | cell and status of each driver | add, update, remove, search | written by drivers and engine |
| Surge (`matching/surge_pricing.py`) | pending requests and multiplier by zone | increment, decrement, recalculation loop | engine, riders |
| Registries (`matching/agent_registry_manager.py`, `driver_registry.py`) | status counters | denormalised updates | drivers |
| Engine (`engine/__init__.py`, `main.py`) | STOPPED, RUNNING, DRAINING, PAUSED; SimPy environment; registries of agents and queue of those without a process; drain process | start, pause (drain), resume, stop, reset, step, spawners | API worker threads, SimPy thread, event loop |
| Thread coordinator (`engine/thread_coordinator.py`) | command queue, response events | `send_command`, `process_pending_commands`, shutdown | its tests only |
| Puppets (`puppet/drive_controller.py`, `api/routes/puppet.py`) | agents driven by the API, pending offers, drive threads | go online and offline, request, accept, reject, time out, drive, arrive, start, complete, cancel | matching engine, driver, rider |
| Checkpoints (`db/checkpoint.py`, `db/s3_checkpoint.py`, `main.py`) | snapshot of agents and reservations | save (periodic, on pause, on SIGTERM), restore, clear | engine, SimPy thread, main thread |
| Stream processor (`stream-processor/src/`) | consumer position, GPS window, pending commits; marks in Redis | poll loop, flush, three commits, shutdown | Kafka, Redis |
| Live API (`simulation/src/api/websocket.py`, `redis_subscriber.py`, `snapshots.py`) | set of sockets | join with snapshot, broadcast, fan-out, reset broadcast | engine's memory, Redis, pages |
| Live view (`control-panel/src/hooks/`) | rides and riders on the map, GPS buffer | snapshot, update, buffered positions, reconnection | Live API |
| Bronze ingestion (`bronze-ingestion/src/`) | batches by topic, consumer position | poll loop, write, dead letters, commit | Kafka, Delta tables |
| Deploy session (`auth-deploy/handler.py`, two workflows in `src/.github/workflows/`) | session document, schedule, workflow runs | deploy, status polls, extend, shrink, ensure, auto-teardown, the workflows' callbacks | parameter store, EventBridge, GitHub |
| Visitor accounts (`auth-deploy/handler.py`, `provision_*.py`) | visitors table, accounts in four services | provision, re-provision, login | DynamoDB, mailer, the services |
| Performance controller (`performance-controller/src/`) | mode, speed, PID terms | control loop, mode switch | Prometheus, simulation API |
| AI chat, other pages, dbt, Airflow, Grafana, Terraform | none of the simulation's | user interface, SQL, configuration | the above |

### What is hard

- **Interleaving.** A trip request suspends twice for OSRM; meanwhile the rider
  may give up, drivers may be offered other trips, trips may end. A retry resumes
  with the trip object it took before its wait.
- **Late answers.** A driver's answer, the timer of its offer, the next offer of
  the same trip and that one's timer overlap; the code asks what state the trip is
  in, never which offer an answer belongs to.
- **Partial failure.** A route request that fails in the executor; a Redis or
  Delta write that fails in the middle of a batch.
- **Crash and restart.** Both consumers commit a *position*, not a message; what
  waits in memory, in a window or in a batch, must not be committed unless it was
  written, or must be replayed without being shown twice.
- **Control calls.** Start, pause, resume and reset change the registries, the
  queue of new agents and the environment while the SimPy thread is in the middle
  of a step, a spawner registers an agent, or another call does the same.
- **Documents nobody locks.** Two Lambda executions read the session, ask GitHub,
  and each writes the whole of it back; a visitor registers while another execution
  goes through the table.
- **Views that converge.** A snapshot reads riders before trips while both change,
  and events older than it arrive after it; a page holds positions back.
- **Torn snapshots.** A checkpoint reads the registries one after the other, and
  says "graceful" of what it did not see.
- **Progress.** A trip between two offers is kept alive by nothing but an entry in
  a set or a process that somebody started; the commit of a topic of GPS pings is
  kept alive by a timer alone.

`PROJECT.json` lists these hazards line by line, each with the properties that
would catch it.

### What makes each component correct

- *Trip*: moves only along its table, numbers its offers, ends for good.
- *Matching engine and executor*: nobody is forgotten (an unfinished trip has a
  search, a retry, an unanswered offer or an executor; a reserved driver has an
  unanswered offer); nobody is left with a ghost (a driver's `active_trip` is its
  and runs); a match is for good; offers resolve and matched trips end.
- *Driver, rider, index, surge*: agree with the trips they stand for; the surge
  input counts no request that nobody waits on.
- *Stream processor*: no event that has an `event_id` twice on a channel, no entity
  moved back to one, none lost without a fault, lag that vanishes.
- *Bronze ingestion*: at least once, without gaps, never again once committed.
- *Engine*: every registered agent runs, or is queued to run, and none is in both;
  it is started as long as the engine steps; a pause comes, and once all is quiet it
  stays quiet; a halt takes effect; no drain outlives its pause.
- *Puppets*: driver, rider, trip and index tell one story between calls; a driver is
  reserved exactly while an offer waits for it; a trip can always be moved on.
- *Live API and view*: when events stop, a page that was sent everything shows what
  is; a ride that ended stays ended.
- *Checkpoints*: a graceful one restores a world in which nobody is stuck; an orderly
  pause leaves nothing unfinished; a reset is forgotten for good.
- *Deploy session*: the teardown is never further away than allowed, a platform that is
  up has one scheduled, and in the end it is down.
- *Visitor accounts*: the mailed password is good, and nobody is forgotten.

## 2 Modules and how they correspond to the code

| Module | Models | Extends |
|---|---|---|
| `TripStates` | the states of a trip and `VALID_TRANSITIONS` | |
| `TripLifecycle` | abstract specification of a trip: what a consumer of trip events may rely on | `TripStates` |
| `Matching` | matching engine, offer timers, executor, and the parts of driver, rider, index and surge that call into them | `TripStates`; instantiates `TripLifecycle` |
| `MatchingProofs` | theorems about `Matching`, its demand counter and reservations included | `Matching` |
| `MCMatching` | symmetry sets for TLC | `Matching` |
| `PuppetTrips` | puppets: calls of several clients, drive threads, the retry search | `TripStates` |
| `MCPuppet` | symmetry for TLC | `PuppetTrips` |
| `PuppetProofs` | theorems about `PuppetTrips` | `PuppetTrips` |
| `EngineLifecycle` | the engine's states, its control calls, the SimPy loop, the drain | |
| `EngineProofs` | theorems about `EngineLifecycle` | `EngineLifecycle` |
| `Checkpoints` | save, restore, reset, SIGTERM, crash and restart, over an abstracted world | |
| `CheckpointProofs` | theorems about `Checkpoints` | `Checkpoints` |
| `StreamProcessor` | Kafka to Redis | |
| `StreamProofs` | theorems about `StreamProcessor` | `StreamProcessor` |
| `MCStream` | a log for TLC | `StreamProcessor` |
| `LiveView` | Redis to the pages: subscriber, sockets, snapshots, the pages' state | |
| `MCLive` | clients for TLC | `LiveView` |
| `BronzeIngestion` | Kafka to the Delta tables | |
| `SinkProofs` | theorems about `BronzeIngestion` and about `LiveView` | `BronzeIngestion`, `LiveView` |
| `DeploySession` | the session document, the schedule, the Lambda's executions, the workflows | |
| `DeployProofs` | theorems about `DeploySession` | `DeploySession` |
| `MCDeploy` | executions that overlap, for TLC | `DeploySession` |
| `VisitorAccounts` | registrations, re-provisioning, the services' accounts | |
| `MCVisitors` | visitors, executions and services for TLC | `VisitorAccounts` |
| `VisitorProofs` | theorems about `VisitorAccounts` | `VisitorAccounts` |

Three modules look at the same trips from three sides. `Matching` has the autonomous
agents, `PuppetTrips` those the API moves; both take `TripStates` for the transitions,
and `Matching` is shown to implement `TripLifecycle`. `EngineLifecycle` and
`Checkpoints` reduce a trip to what a drain, or a checkpoint, sees of it.

### Matching

*Variables* carry the names of the attributes they stand for where that is
possible (`reserved` is `_reserved_drivers`, `cand` is
`_pending_offer_candidates`, `entry` is `OfferTimeoutManager.pending_offers`).
Three record where a thread is: `match[t]` (the coroutine `request_match` of a
trip), `retrying` (the one trip that `retry_pending_matches` is searching for; the
flag `_retry_in_progress` allows one) and `simpy` (what is left of the SimPy
handler that is half way through). `exec[t]` is the position in
`TripExecutor.execute`.

*Atomicity.* The event loop yields at its awaits only, and each stretch between
two awaits is one action: `RequestTrip` schedules the coroutine, `RegisterTrip`
is the code after the first wait, `OfferFirst` the code after the second.
The SimPy thread may be overtaken by the event loop anywhere. Where that can
matter the handler is cut in two: between the end of a trip and
`MatchingServer.complete_trip` (`EndTrip`, `FinishTrip`), and between a rejection
or expiry and the rest of the offer cycle (`Reject` or `TimerFires`,
`ContinueCycle`). Elsewhere a handler is one action; in particular one pass of
`send_offer_cycle` over its candidates is.

*Time.* A think time, an offer timer, a phase of a trip, the rider's patience may
end at any moment. `SlowDrivers` are the drivers whose think time may exceed the
offer timeout; the others answer before their timer fires.
A due time of the retry queue is "now or later", so a queued trip may be taken up
at any moment, and the snapshot of due trips that `retry_pending_matches` takes
is the queue itself.

*Data left out.* Places and distances: a search finds the eligible drivers of the
moment it starts, and after the wait returns any part of them in any order (OSRM
may fail for any of them). Prices, ratings, GPS, events, statistics. A driver on
its way home (`driving_closer_to_home`) is matchable and counts as available.
The status of a driver is the one the index shows. One rider makes one trip.

*Two facts the guards rely on.* `AwaitsAnswer` asks for the trip's state only,
where the code also looks it up in `_active_trips`; `NoStrandedTrip` (checked
and proved) says that a trip under offer is active. `SendOffer` to a trip that
was cancelled during the wait raises in `transition_to`, after the reservation was
made: the branch without transition.

### EngineLifecycle

Three kinds of threads. A worker thread `c` of the API is at `pc[c]` in the
request it serves: `CallLaunch` (a start or a resume is let in), `Launch`,
`LaunchLoop` (the two loops of `_start_agent_processes`), `ClearPending`; `CallPause`,
`Pause`, `StartDrain`; `CallStop`, `Stop`; `Reset`, `Wipe`, `Empty`, `Renew`. The
SimPy thread is at `sim` in `SimulationRunner._run_loop` and `step`: `BeginStep`,
`StartPending`, `PendingStarted`, `BeginChunk`, `EndChunk`, `EndStep`, `StepRaises`.
While it is inside `env.run()` (`chunk`), the processes of the environment that it
runs act: spawners (`Spawn`, `EnqueueSpawned`), riders (`RequestTrip`) and the drain
(`DrainQuiesces`, `DrainWaits`, `DrainTimesOut`, `DrainRaises`, `TransitionToPaused`).
The event loop admits and registers trips (`AdmitRequest`, `RegisterTrip`,
`ApiRequest`); puppets are registered by other threads of the API (`CreatePuppet`,
`EnqueuePuppet`).

*Atomicity.* Nothing locks the engine, so a request is cut where it reads or writes
what another thread uses: between its check of the state, the assignment of the state,
the loop over the drivers, the loop over the riders, and the clearing of the queue; a
registration between the registry and the queue; a reset between the state, the
registries, the queue and the environment; the end of a drain between its last look and
PAUSED. One action each are: what a route checks together with what the engine checks
again, a loop over one registry, the two registries a reset clears, the taking of an
agent out of the queue with the creation of its process, the start of the periodic
processes with the clearing of the queue before it, a spawner's look at the state with
the entry in the registry, and the forced cancellation of all trips. A registry that
changes its size under a loop over it throws that launch out, with any part of
the agents launched (`Throws`), as Python's `RuntimeError` does.

*Environments.* A reset gives the engine a new SimPy environment while a step, the
spawners and a drain may be in the old one. `env` numbers them; `runEnv` is the one
the SimPy thread is running. A process that waits with `self._env.timeout` after
the reset waits in the new one and so moves over: `periodic` and a drain's `env` do.
The step itself reads `self._env` again for every chunk and goes on until the new
clock has reached the old target, `left` chunks.

*Abstractions.* A trip is what the drain sees of it (`Matching` has the rest): asked
for, let in, in `_active_trips`, cancelled by the drain and still there, over. Time
is polls of the drain and chunks of a step. `started` says that an agent has a
`run()` process, not how many: `resume` starts one more for each. `joining` are the
agents that a registration under way is still to queue. Three history variables name
what the properties except: `overtaken` (agents that have not been started since a
launch or a reset met them half way: registered behind its loop, started between
registry and queue, or left in the queue when the launch was thrown out), `untidy` (a
start, a stop or a reset cut in on DRAINING, or a second pause had passed its check;
until no drain is left or on its way), `crashed` (an exception ended a drain).

### PuppetTrips

A client `c` is at `call[c]`: a call is cut where it waits for OSRM (`Request` then
`RequestSearch` and `RequestOffer`; `DriveTo`, `Route`, `Launch`), for a drive it
stops (`Cancel` then `CancelTrip`, `Complete` then `CompleteTrip`), or between two
updates another thread may come between (`Accept` then `Assign`). `GoOnline`,
`GoOffline`, `Arrive`, `Start` and `Decline` (reject and the two forced timeouts) are
whole. `DriveOn`, `DriveArrives` and `DriveCompletes` are the thread of a drive;
`Search` and `SearchEnds` the retry search of the event loop. `pending`, `cand`,
`retry` and `index` are `_pending_offers`, `_pending_offer_candidates`,
`_retry_queue` and the geospatial index.

A call that stops a drive waits in the model until the thread has ended; the code waits
at most 2 s (`drive_controller.py:98-102`) and goes on while the thread may still sleep.
A thread that is stopped in its sleep returns when it wakes and signals nothing, so
agents, offers and trips are the same; one in its last interval signals its end whether
it is waited for or not (`late_cancel`).

`Races` names three overlaps of calls. With it empty, which is the instance that
is checked, calls about one driver or one trip do not overlap; section 6 says what
each breaks.

### Checkpoints

A driver is its status and its trip, a rider its status, a trip the phase it is in:
asked for, let in, registered (`open`), offered, matched, riding, given up while
offered (`void`), cancelled by force. `asking`, `onShift` and `heading` are the
agents whose process waits in a request, in a shift, on the way home: they are what
a restart loses. `World` is what the SimPy thread does, `EventLoop` the coroutine
`request_match`, `Control` the API.

A save is `BeginSave` (drivers), `ReadRiders`, `ReadCount` and `Written`, on the SimPy
thread or, after SIGTERM, on the main thread (`ShutdownSave`). `Written` is all or
nothing: one transaction or one put. `Stored` keeps rows of SQLite that an empty list
does not replace. `Restore` is `restore_to_engine` with its cleanup. `StoredTrips`
is empty because `save_from_engine` writes no trips and nothing else inserts any.

The history in `flaws` names what makes a checkpoint claim more than it holds:
*unseen* (a request on its way to registration, or an offer whose rider gave up, is
not counted), *forced* (trips that a drain's timeout cancelled are not counted,
while their agents still have them), *stuck* (agents an earlier restart left stuck
are saved again, without a trip to count), *torn* (the world moved while it was read:
`SimulationRunner.stop` waits 5 s for a step that takes 10 s at speed 1; or a reset
came). `overlapped` says that a reset came during a save.

*Simplified.* A request whose rider gives up before it is registered is dropped
(`Matching` has what becomes of it); a reset drops the coroutines of the old world
(`EngineLifecycle` has those); the second `run()` process that a resume starts, and
agents that fail to restore one by one, are left out.

### StreamProcessor

One loop, one action per step of it: `Take` (poll, deduplicate, handle),
`Publish`, `PublishFails`, `BatchCommit`, `MaybeFlush`, `FlushPing`, `Flushed`,
`TimedCommit`, `NoTimedCommit`, `PollNothing`; `Stop` and `DedupFails` lead through
the flush to `LastCommit`. The mark in Redis (`seen`) is set *before* the event is
published, as in the code. Commits are asynchronous and may come to nothing.
They take the position of every topic this process has polled.
`faulty` is a history variable: something has failed that no code handles
(a crash, or a Redis error after the retries).

`LossNeedsFault` speaks of events a process has marked. What is produced while
no process runs and the group has committed nothing is skipped by design
(`auto_offset_reset` is `latest`).

A message is identified by topic and offset, and so is its `event_id`, if it has
one: the producer gives corrupted copies an id of their own, which is no UUID, so that
they fail their schema after they were marked. One kind of copy passes: the corruption
that removes a required field may remove the `event_id` itself
(`data_corruption.py:35,161`), the schema then makes up a fresh one
(`events/schemas.py:12,49`), and the event is handled but never marked
(`processor.py:301`). These are the messages in `Unmarked`. A message of kind `Poison`
is JSON that is no object (`event_data.get` raises `AttributeError`) or bytes that are
no text (`UnicodeDecodeError`): neither is caught at `processor.py:303`, so `Take`
leaves the loop for `_shutdown` and the container restarts. The repository's own
producer makes none, whoever else writes to the topic may. Whether the last commit of
such a process passes the poison message depends on whether published events were
pending. `published` counts never, once, and more than once, since an event without a
mark may be replayed for ever; `reached` is a history variable, the largest offset an
entity's channel has seen. Polling errors, and signals during the warm-up of the
consumer, leave the modelled state as it is.

### BronzeIngestion

One loop: `Take` (poll and validate), `BatchIntervalElapses`, `BeginFlush`,
`WriteTopic` (one append per topic), `BronzeWritten`, `WriteDLQ`, `DLQDone`,
`Commit`. `WriteFails` is an exception in an append or a commit, which ends the
process; a crash at any other point is the same action. `Restart` reads on from the
committed offsets. Rejected messages end the iteration before the
interval is looked at, as in `main.py`.

### LiveView

One rider takes one ride after the other and sends pings; `wire` is what was published
in Redis and not yet handled. The server's event loop is free except while a snapshot
reads the riders and then the trips (`Join`, `SendSnapshot`); a broadcast
(`FanOut`, `FanOutReset`, then `Send`, `EndCast`) waits after each socket, and ends
early when the set of sockets changes or a dead one (`ghosts`) raises. A page puts
rides on the map and takes them off (`RidesAfter`), follows the rider (`RiderAfter`),
and holds positions back until the next flush (`FlushBuffer`, `Pinged`). `missed`
and `seen` are history: the clients that were not sent a message, the rides a page was
told the end of. `Races` names what the checked instance leaves out (section 6). The
names `LiveInit`, `LiveNext`, `LiveSpec`, ... have their prefix because `SinkProofs`
extends this module together with `BronzeIngestion`.

### DeploySession

An element of `Lambdas` is an execution; each of its calls to AWS or GitHub is a step
(`Read`, `Github`, `Reread`, `Put`, `Upsert`, `Unset`, `Unsched`, `DispatchDeploy`,
`DispatchTeardown`, `Fallback`) and each may fail. What an execution decides is
computed from what it has read: one operator per action (`ReadExtend`, `ReadShrink`,
`ReadEnsure`, `ReadAuto`, ...), and it writes the whole document back. The workflows go
through phases and call the Lambda back (`DeployCalls`, `TeardownCalls`). The clock
counts quarters of an hour and moves when no execution runs, since one ends within
seconds.

### VisitorAccounts

An execution of `provision-visitor` stores the record, mails the password, creates the
accounts service by service, and lists the services; `reprovision-visitors` scans the
table page by page and then does the same for each visitor it read. Four
operators, one per service, say what becomes of the password of a user who exists:
Grafana keeps the old one, Airflow patches it, MinIO and the simulation API overwrite
it. `Order` has Grafana and Airflow: one service that keeps and one that replaces.
`Call` is what both handlers do with a service. It fails if the service is not up, and may
fail at a running one, with or without its effect (an error status, a timeout);
`_provision_visitor` catches every exception and goes on. Re-provisioning reports the
failure (207), a registration does not (200). `swallowed` remembers the calls to a running
service that came to nothing.

## 3 Runs: what is checked and what it shows

| Run | Instance | States | Shows |
|---|---|---|---|
| `matching_core` | 2 trips, 2 drivers, both riders impatient, both drivers slow; symmetric | 1.0 M | `NoGhostTrip`; `NoStrandedTrip`; `NoPhantomDemand`; `AssignedOnce`; `TripsFollowLifecycle` (`Matching` refines `TripLifecycle`) |
| `matching_patient` | 2 trips, 2 slow drivers, one of them on shifts; fair | 102,856 | `NoLeakedReservation`; `ReservationEnds`; `OfferResolves`; `MatchedTripEnds` |
| `matching_double` | patient riders, slow drivers | until found | violation of `NoDoubleBooking` |
| `puppet` | 2 trips, 3 drivers, 2 riders, 2 clients; symmetric | 144,734 | types; `AgentsFollowTrip`; `ReservedIffOffered`; `TripHasNextStep` |
| `engine` | 1 API thread; a driver, a rider and a puppet rider that may appear at any moment; 1 trip; 1 pause, 2 launches, 1 reset; fair | 670,506 | `NoAgentForgotten`; `PendingIsUnstarted`; `DrainEndsWithPause`; `AgentsAreStarted`; `PauseHolds`; `DrainEnds`; `StopHalts` |
| `checkpoint` | 1 driver, 1 rider, 1 request, SQLite; 2 saves, 1 reset, 1 restart | 1.7 M | `GracefulRestoresAll`; `PauseRestoresAll`; `ResetIsForgotten` |
| `checkpoint_stuck` | the same | until found | violation of `RecoveryIsClean` |
| `stream` | 3 pings of one driver, 2 plain events, 1 malformed and 1 poison message, one ping and one event without `event_id`, batch size 2, 2 failures; fair | 957,072 | `PublishedOnce`; `LossNeedsFault`; `ShownInOrder`; `LagVanishes` |
| `live` | 2 pages, 2 rides, 2 messages on the wire, 1 broken link or lost subscription; fair | 1.0 M | `SettledView`; `EndedStaysEnded`; `EndedDisappears` |
| `bronze` | 2 topics of 2 messages, each good or malformed, 2 failures; fair | 391,106 | `CommittedIsStored`; `NoGaps`; `CommittedOnce`; `EventuallyStored` |
| `deploy` | 2 executions, 1 deploy run, 3 calls or kinds of failure until 4 quarters of an hour have passed, the clock to 10; fair | 471,172 | `RemainingBounded`; `Watched`; `EndsDown` |
| `visitors` | 2 visitors, 2 executions, 2 services, 3 registrations, 2 starts, 1 failure; symmetric | 1.8 M | `MailedLogsIn`; `NobodyForgotten`; `AccountsMatch` |

Each module has one `TypeOK` (`LiveTypeOK` in `LiveView`). All are proved, so that only
`puppet` repeats one.

Every property of a passing run has a mutant: an operator `Bug_...`, next to the
definition it would replace, that changes it as a plausible mistake in the code
would (a reservation not released, a retry not queued, a window not flushed). TLC
finds the property violated under each.

### Why the bounds are enough

*Matching.* Two trips and two drivers are the least with which an offer can pass from
one driver to another, a driver can be wanted by two trips, and a late answer can meet
the next offer; `MaxAttempts = 2` lets an offer cycle go on after a rejection.
`MaxOffers` bounds retries: no retry starts once so many offers were sent, while offers
of a cycle that has begun go on; with 2, a trip can be rejected, retried and offered
again while the other trip's offers run. `matching_patient`, which checks liveness,
uses 1.

*Puppets.* With three drivers an offer moves on twice, and a driver is offered the
second trip while a call about the first is half way; two clients are the least that
overlap.

*Engine.* A launch can follow a launch or a pause, a reset can fall into every point of
a step and of a drain, a registration into every point of a launch and of a reset. One
API thread still interleaves with the SimPy thread, the event loop and the
registrations; several threads at a time are the theorems' part. The safety properties
also hold when a second pause can meet the remains of the first (1,115,263 states), and
`EInv`, with everything it contains, on two API threads that serve two launches, a pause
and a reset, with a driver and a rider or with two riders (560,155 and 624,105 states),
before it was proved for all.

*Checkpoints.* Two saves let a second process save what the first restored, or a
shutdown save overtake a periodic one; the reset may fall between them or into one. The
properties speak of each agent by itself, so one of each kind shows what can happen to
it. With two requests instead of one the run takes three minutes, and passes as well
(7,810,026 states).

*Stream and lakehouse.* Two offsets per topic let a crash fall before, between and
after them. In the stream the first message of a topic is always behind the first
commit (`latest`), so that pings with and without a mark come after it, and the poison
message comes when published events may be pending or not; the restarts it causes
are not bounded. Two failures let a second process die as well.

*Live view.* Two rides, because the end of one and the request of the next are what a
page can confuse; two messages on the wire, because a snapshot can fall between them;
two pages, because a broadcast to one can be ended by the other.

*Deploy session.* Two executions are the least that overlap. The clock runs until every
deadline that the last call can set has passed. `LastCallApart` keeps the operations on
the deadline from overlapping `complete-deploy-workflow` (section 6 says what happens
if they do). `RemainingTheorem` has no such restriction; `WatchTheorem` has it, and
needs it.

*Visitors.* Two visitors, so that one registers while the scan or the loop is at the
other; three registrations, so that one visitor registers twice; two starts, so that
accounts are lost and made again. One service keeps old passwords (Grafana) and one
replaces them.

What the bounds leave open (more drivers, more retries, longer logs) the theorems
cover where there are theorems.

*Deadlock.* `bronze`, `stream` and `puppet` check for deadlock. In the other runs a
behaviour may really end, because a bounded supply ends: riders make one trip, launches,
pauses, saves and restarts are counted, a page may have seen all rides, the clock stops,
registrations are used up. They say `CHECK_DEADLOCK FALSE`.

*Symmetry* is used where all trips, all drivers or all visitors have the same habits, and
only in runs without liveness.

## 4 Fairness

- `Matching`: weak fairness of every SimPy process and of every resumption of a
  coroutine. SimPy pops every scheduled event as long as the simulation runs;
  every process waits for a timeout, never for another process; OSRM calls have a
  timeout, so coroutines resume. Not assumed: that a rider gives up, that anybody
  cancels, that a route fails, that a shift ends, that a retry is taken up.
- `EngineLifecycle`: weak fairness of the SimPy loop (one thread that never blocks:
  `time.sleep`, `env.run`); strong fairness of a drain's poll, which is enabled
  only inside `env.run()` of its environment: SimPy comes to every event that is
  due, though each chunk ends; weak fairness of `StartDrain`, the statement after
  the assignment of DRAINING, and of `EnqueuePuppet`, the statement after the entry in
  the registry. Not assumed: that a trip ends, that a driver gets
  home, that anybody resumes. `DrainEnds` therefore rests on the timeout. It is checked with
  one API thread; with two, a reset that overlaps a start and a pause of the other
  can leave the engine DRAINING with its drain in an environment nobody runs.
- `StreamProcessor`: weak fairness of the loop and of the restart
  (`restart: unless-stopped` in `src/infrastructure/docker/compose.yml`), strong
  fairness of `Take` for each topic (the broker serves every partition in the end
  although flushes come in between) and of `TimedCommit` (the interval elapses
  again and again, and not every commit request fails).
- `BronzeIngestion`: the same, with weak fairness of the commit; failures are
  finitely many by the bound `MaxCrashes`.
- `LiveView`: weak fairness of the server's event loop, of each page's flush timer, and
  of reconnection (every 3 s). Nothing is asked of the engine: rides may last for ever.
- `DeploySession`: weak fairness of each execution (a Lambda call returns or times out),
  of EventBridge, of the two workflows (GitHub runs what it has queued, and their
  `timeout-minutes` end them) and of the clock. Not assumed: that clients call.
- `PuppetTrips`, `VisitorAccounts` and `Checkpoints` state safety only: a client, a
  visitor or an operator need not do anything.

## 5 Proofs

All theorems hold for every set of trips, drivers, topics, messages, executions,
visitors and agents and every bound; they assume only what the `ASSUME`s of the modules
say ("nothing" values distinct from the rest, bounds that are natural numbers, at least
one service to provision), and what is said below. Where a theorem has a hypothesis on a
constant, it excludes a race that the code has; TLC finds the property violated without
it, and section 6 lists the race.

**Matching** (`MatchingProofs`). `TypeCorrect`, then the inductive invariant
`IInv == TypeOK /\ Consistent` (`Invariance`), from which `GhostFree`,
`NothingStranded`, `MatchedForGood` and `ImplementsLifecycle` follow.
`NoGhostTrip` and `NoStrandedTrip` are not inductive alone. That a driver's trip is
running needs the executor to be in step with its trip (`ExecutorInStep`), and
that only a match names a driver (`DriverFromMatch`); that nobody is stranded
needs that a trip nobody has registered is nowhere (`RegisteredFirst`), and that
a trip stays active until it is matched (`ActiveUntilMatched`). The steps on which
the argument turns are the late ones: an acceptance of an expired offer is applied
to the next offer of the trip, and still leaves exactly one driver with the trip,
because the state moves out of OFFER_SENT with it. The lemmas on `OfferCycle` say
once what an offer cycle does to the trip whoever runs it.

**Demand and reservations** (`MatchingProofs`). `DemandIsReal` counts: on top of
`IInv`, every step that takes a rider out of the set of those who wait takes one from
the counter, unless it is zero (`OneStopsWaiting`), and every other step leaves both or
only adds to both (`NobodyStopsWaiting`, `OneMoreWaits`). Cardinalities of finite sets
come from the library's theorems. `ReservationsAreAnswered` assumes that no rider is
impatient (`Impatient = {}`), without which the code leaks reservations; it needs
`OneSearch`: a trip that is still searched for, by its request or by the retry, has no
offer out, so that an offer cycle reserves a driver only together with an offer to it.

**Stream processor** (`StreamProofs`). `StreamInvariance` proves `SInv`. Two groups carry
it, both about events that have an `event_id`. A plain event in hand is marked and
unpublished (`OneInHand`) and only marked events were published (`MarkedFirst`), so a
replay, which meets the mark, publishes nothing: `ShownOnce`. For pings, what the
channel has ever gone past, or the window of an entity holds, and a process will read
yet or again is marked (`NoneBehind`); that needs that the loop marks every ping it
polls (`PolledIsMarked`, up to the shutdown) and that nothing was shown that was not
produced, nor is in the window that was not polled (`Produced`). So a new ping with a
mark is ahead of all the channel has seen, though replayed pings without one may have
moved the entity back since: `NeverBack`; and since a process only moves its window on
and flushes it before the last commit (`WindowAhead`, `FlushedLast`), `NothingLost`. The
proof covers both values of `auto_offset_reset`, any set of events without an
`event_id`, poison messages anywhere, topics that mix pings with plain events, and any
batch size, which the TLC instance does not.

**Bronze ingestion** (`SinkProofs`). `BInv` adds to the properties: what was
polled and accepted is stored or in the batch (`InHand`), the batch holds what lies
between committed offset and position (`Uncommitted`), and a flush that has left a
topic has stored its batch (`Flushed`). So when `Commit` takes the position, all
below it is stored. `AtLeastOnce`, `TablesHaveNoGaps` and `NeverTwiceOnceCommitted`
follow.

**Live view** (`SinkProofs`). The theorems hold for any number of clients, rides,
messages in flight, broken links and lost subscriptions. `EndedForGood` has no
hypothesis: it follows from the order of the messages alone (`EndInv`). The end of a
ride is the last that the wire and the broadcast under way say of it (`WireOK`,
`CastOK`), so a page that was told the end has nothing more to hear of the ride
(`Told`), and a snapshot names only a ride that goes on.

`SettledView` speaks of pages with nothing on its way, so its invariant must say what
the messages on the wire, the broadcast and the buffer will together make of a page
(`ViewInv`). What a page shows is right, or a message that the page will be sent puts it
right (`PageOK`). The last message to speak of a ride or of the rider is true
(`EndsFollow`, `NewsAreTrue`), so a later one never undoes that. Pings are on their way
only while the rider rides or is idle, where a page ignores them (`PingInv`). After a
reset nothing else is said (`ResetInv`). The server's steps are two lemmas: a page
that waits for true news is right when it has handled them (`ViewHandle`) and may wait
while it is owed them (`ViewOwes`).

`ViewSettles` assumes `Races = {}`, since TLC finds `SettledView` violated under each race.
`RidesSettle` says what remains with the races allowed, except `reset_overtakes`: the
rides on the map are right and the rider is there if it exists; only its `trip_state` may be
stale. This held on the instance of `live` with the other three races (12.2 M states) before
it was proved.

**Engine** (`EngineProofs`). `EngineInvariance` proves `EInv`, for any number of API
threads. `NoAgentForgotten` is not inductive: clearing the queue forgets whoever
waits in it, unless the loop before has started all of them. `PassedIsStarted` says
so of every launch that is past its loop, whichever thread it is on.
`PendingIsUnstarted` is inductive with its exceptions: whoever starts a queued agent
without taking it out of the queue is a launch that will clear it, and a launch that is
thrown out before, or that went by between an agent's registration and its queueing,
marks the agent as overtaken. `DrainEndsWithPause` needs `DrainIsAlone`: unless it is
untidy, there is at most one drain, alive or about to be, the engine is DRAINING, and
nobody is between the check and the assignment of a second pause. That two pauses can be
there at once is the code's race, which `untidy` records; the theorem says that it and the
requests that cut in on DRAINING are the only ways to keep a drain. `PauseStaysQuiet` is
about single steps and rests on types alone.

**Checkpoints** (`CheckpointProofs`). `CheckpointTypes` for both kinds of storage, then
`ResetForgotten`. That the stored checkpoint is not older than the last reset is not
inductive: a saver that began before the reset would still write. `Epochs` adds that
every saver under way began after the last reset unless `overlapped`; a reset clears
the store, and a save that begins takes the current number.

`GracefulRestores` and `PauseRestores` rest on `CInv`, which follows a fact from the
world into a saver, from there into the store, and from the store into the next
process. In the world: the trips are in order (`TripsInOrder`), from which
`WholeStays` shows that no step leaves anybody stuck whom the step before did not. In
a saver: what was read and not torn is still so (`ReadIsCurrent`), and a save without
a flaw so far knows that nobody is stuck, and, the further it got, that nothing goes
on (`CleanSave`; `FreeWorld` turns this into agents that are all free). In the store:
`CleanStore`. SQLite keeps the old rows when a registry is empty, so the proof also
needs that agents do not vanish while their checkpoint is kept (`StoreIsPopulated`).
In the next process: nothing but the store outlived the last one (`MemoryIsLost`),
and what was restored whole stays whole (`CleanWorld`).

**Puppets** (`PuppetProofs`). Two layers. `PuppetTypes` needs only that nobody cancels
a trip during a search or the last interval of its drive (`"late_cancel"` is not in
`Races`): `TypeInv` adds to `TypeOK` where a client's call can be (`CallShape`), that no
two calls are about one trip or one driver (`OneCallEach`), and that a trip that is queued
or searched for has had no driver yet (`QueueInv`). `AgentsFollow`, `ReservedForOffers`
and `TripsMoveOn` assume that no calls race (`Races = {}`) and rest on `PInv`, which says
of every trip, offer, driver, drive and call how far it may be from the others. None of
the three properties is inductive: they speak of trips and drivers that no call is about,
and a call makes its changes one by one. So `CallOK` says, for every place in a call, which
of the agents have been moved; `DriveOK` says it for a drive thread, which is the only
other one to move them; `OnIt` names the three ways in which the driver of a trip under
way can be on it: it is on the trip, a call is closing the trip, or its drive is at its
end. `OwnerOK` and `OfferOK` keep a driver to one trip and one offer. When a call returns
or a drive ends, they give back the properties.
`MovesDeclared` takes each step from `PInv`: a trip goes only where `VALID_TRANSITIONS`
lets it go. It is not a property of a run but matters, since `Trip.cancel` sets its state
without asking: only `CallOK` says that the trip a call is about to cancel has not ended,
and with `late_cancel` a drive that ends between the two halves of a cancellation has
completed it.

**Deploy session** (`DeployProofs`). `RemainingTheorem`: what an execution is about to
write is bounded when it is computed and stays so, because time moves only between
executions (`Executions`); the document is bounded when it is stored, and a stored
deadline only comes nearer (`Stored`); the workflows' callbacks compute none
(`Workflows`). Any number of executions may overlap.

`WatchTheorem`: as long as no failure occurs that the code does not survive, a platform
that is up while no execution and no workflow runs has a scheduled teardown. The invariant, `WatchInv`,
divides a behaviour into two ages at the first dispatch of a teardown. Before it
(`Fresh`), the session document, every execution and the deploy run are in step: what an
execution has read of the document is still true where it matters (`ExecOK`), a session
that is deploying has a run that will call back, an active one has its schedule
(`SessionOK`, `Guard`, `Ensured`). Afterwards (`Doomed`) there is only one thing left to
know: the platform is down, or a teardown waits or runs. The theorem is about one deploy
(`OneDeploy`): at most one run, which does not take longer than the time after which a
session counts as stale, and operations on the deadline do not overlap the run's last
call. Each hypothesis is needed: with two runs, a run longer than `DeployingTimeout`, or
`Apart <- AllOverlap`, TLC finds `Watched` violated.

**Visitors** (`VisitorProofs`). `VisitorTypes` has no hypothesis. `MailLogsIn` assumes
that no two registrations of one visitor overlap (`~SelfOverlap`): then what an execution
has stored and mailed is still what is stored and mailed (`StoredIsCurrent`), and a record
can be read back as what it was made of, or not at all (`RecordsAgree`).
`NobodyIsForgotten` and `AccountsAreMailed` assume also that nobody registers again during
`reprovision-visitors` (`~WhileReprovision`). Their invariant, `AccountInv`, is that of a
debt (`NothingLost`). A start finds services that may have lost every account. From then
on, unless a re-provisioning call fails, every service has what a registration stored, or
has swallowed a call for it (`Swallowed`), or is owed it: by the registration, which has not come to that service, or by `reprovision-visitors`, which
has not read the record, or has read it and not come to the service. When it is done it
owes nothing, and all services are up (`HealthyIsUp`). `RegistrationPays` and
`ReprovisioningPays` are the two lemmas about a payment.

**Only model-checked**: liveness (`OfferResolves`, `MatchedTripEnds`,
`ReservationEnds`, `LagVanishes`, `EventuallyStored`, `DrainEnds`, `StopHalts`,
`EndedDisappears`, `EndsDown`), which is out of the prover's reach. Every invariant and
every action property of a passing run is a theorem.

## 6 What the checks found

Two runs expect a violation; `PROJECT.json` has the finding of each, with the sentence of
the repository it contradicts.

1. *A driver is booked twice* (`matching_double`). Reservations are kept by driver, not
   by offer: an expiry releases a driver who is still to answer (`:1017`), the driver is
   offered a second trip, and the late acceptance of the first is applied because that
   trip has another offer out (`matching_server.py:567`).
2. *The cleanup after a crash cancels nothing* (`checkpoint_stuck`). It cancels the trips
   it restored, and none are ever stored, so agents and reservations of lost trips stay
   stuck (`checkpoint.py:528`).

### Known deviations

What else the code does otherwise than one would expect. The properties except these
cases, by a history variable, a constant or a named exception; where a constant is named,
setting it shows the behaviour.

*Matching.*
- A late answer is applied to the next offer of its trip: `_deferred_offer_response` asks
  whether the trip is in OFFER_SENT, not which offer is out (`matching_server.py:567`).
- A reservation leaks when a rider gives up while `find_nearby_drivers` waits:
  `send_offer` reserves, and then raises (`:840`). With `Impatient` nonempty in
  `Matching_patient.cfg`, `NoLeakedReservation` fails.
- A rider who gives up during the first wait of `request_match` leaves a trip that is
  registered afterwards and retried with nobody waiting (`:311`).
- `accept_trip` does not interrupt the drive home, which then sets a driver on a trip
  available (`driver_agent.py:535`; `Checkpoints` has the step, `ArriveHome`).

*Puppets* (`Races`).
- `late_cancel`: a cancellation in the last interval of a drive, or during a search,
  loses a reservation and leaves a trip with no next step (`ReservedIffOffered` and
  `TripHasNextStep` fail), and can cancel a trip that is completed.
- `early_start`: start-trip before the arrival moves driver and rider before
  `transition_to` refuses (`AgentsFollowTrip`, `ReservedIffOffered`).
- `hand_over`: an offer reaches a driver between two updates of a step that takes or ends
  its trip (`AgentsFollowTrip`, `ReservedIffOffered`).

*Engine.*
- `request_match` asks for the state before it waits for the route, and not again: a trip
  may be registered in a paused simulation (`engine/__init__.py:495`; `PauseHolds`
  excepts a request let in before the pause).
- Between the drain's last look (`:751`) and PAUSED (`:817`) the event loop may register
  a trip, which stays active in the pause, and a reset may come, after which the state is
  PAUSED, not STOPPED (`TransitionToPaused` assigns it whatever the state is).
- An agent registered between the loop and the clearing of the queue is forgotten; one
  whose registration a whole launch goes by between registry and queue (`:269`, `:271`) is
  started twice; a registry that grows under the loop throws the launch out, which leaves
  agents in the queue that it has started (all `overtaken`).
- Two pauses that pass the check (`:377`) at once start two drains, and a stop that passed
  it before a pause assigned DRAINING stops the engine and leaves the drain; a start while
  draining keeps the drain, which later pauses the running simulation (all `untidy`).
- A database failure in the forced cancellation leaves the engine DRAINING (`crashed`).

*Checkpoints.* The flaws of section 2; a reset during a save is undone by it
(`overlapped`); nothing deletes the object in S3, so a reset world comes back; with no
drivers (riders) the rows of the last ones stay in SQLite (`checkpoint.py:321`). Seen in
the code only: restored agents are never puppets; a driver restored on the way home has no
process that brings it home, so that the next drain waits for its timeout; timers and
surge keep the environment from before the restore.

*Stream and lakehouse.*
- An event that was not published is committed by the timed commit (`processor.py:357`).
- An event without an `event_id` is never marked (`processor.py:301`): a replay publishes
  it again, and a ping of this kind moves its entity back. `PublishedOnce` and
  `ShownInOrder` except them.
- A message that is JSON but no object, or no text, ends the process instead of being
  passed over (`processor.py:303`, against the comment on the next line). It is read again
  after each restart unless published events happened to be pending: `LagVanishes`
  excepts it (`PoisonWaits`).
- A rejected message is lost when its dead-letter write fails (bronze `main.py:58`).

*Live view.*
- A socket that dies or joins during a broadcast ends it: the clients not yet reached
  never get the message (`websocket.py:73`). `OthersUnharmed` says they should and is
  violated; `SettledView` asks nothing of a page that `missed` a message.
- `Races`: a ping right after boarding (`early_ping`), a new request while pings of the
  last ride are on their way (`quick_return`), the weekly profile event during a ride
  (`profile_update`) and a reset that overtakes events (`reset_overtakes`) each leave a
  page with a stale state until the next event.
- A page that joins while a trip has neither offer nor driver does not show it, an older
  page does (`snapshots.py:17-24`). The page's cache of event ids never hits: the server
  drops `event_id`.

*Deploy session.*
- A shrink or extend that overlaps `complete-deploy-workflow` loses its flag. After an
  hour a status poll then clears session and schedule as "stale deploying", and the
  platform is up with nothing to take it down: with `Apart <- AllOverlap`, `Watched`
  fails.
- A failed dispatch or a failed workflow may strand a platform (`Tolerated` lists the
  failures the code survives).
- Two deploys at once dispatch two runs (`handler.py:1294`).
- `auto-teardown` is among the actions that need no key (`handler.py:98`). The repository's
  own callers are the schedule and the handler itself, and those are modelled; a client
  that calls it is not.
- `ensure` renews a session that its docstring says it leaves alone (`:1871` against
  `:1893`); `session-status` may take an earlier, completed teardown for the present one
  (`:1430`).

*Visitors.*
- A call that fails at a running service is swallowed: the registration goes on to the
  next service and is answered 200 with `"failures": []` (`handler.py:2590-2624`,
  `:2743`), only `services_provisioned` lacks the service. A visitor who registers after
  the scan then has no account, or an old password, although the re-provisioning was
  clean; the docstring's remedy (`:2646-2647`) comes with the next start only.
  `NobodyForgotten` and `AccountsMatch` except these visitors and services.
- A second registration on a live platform mails a password that Grafana does not take
  (`provision_grafana_viewer.py:116`): `MailedEverywhere` is violated.
- A visitor who registers again while re-provisioning holds the old record
  (`WhileReprovision`), or twice at once (`SelfOverlap`), may be left with the old
  password: `AccountsMatch` fails.

*AI chat* (not modelled). `handler.py` calls neither `budget.update_budget` nor
`starter_cache.load_cache`: the daily budget that `budget.py` describes is never spent.

## 7 What is not modelled, and why

- Agent behaviour (DNA, ratings, destinations), geometry, prices, the surge
  multiplier, the PID controller: arithmetic on floating-point numbers without
  concurrency.
- Metrics routes, tracing, rate limits, authentication: I/O around the operations that
  are modelled.
- Most of the control panel's pages, AI chat, dbt, Airflow, Terraform: no protocol of
  their own, or declarative. The vendored `dateutil` and `six` of `rds-reset` are
  third-party code.
- In the stream processor: the one-hour lifetime of the marks (a replay older than
  that would be shown again), the mode with automatic commits and the strategy
  `sample` (neither is configured), the copies a retry inside `RedisSink.publish`
  may make, rebalances between several consumers.
- In bronze ingestion: several consumers, and changes of a table's schema.
- In matching: `clear()` on a reset, several trips of one rider.
- In the engine: speed and real-time ratio, control events, how many processes an agent
  has.
- In the live view: drivers, surge and positions on the map, ratings, puppets, the
  periodic status broadcast.
- In the deploy session: `reset-data`, health, cost and progress figures, the start of the
  simulation; two deploy runs at a time, which exceed the time a run has.
- `ThreadCoordinator`: no production code creates one. Registries and notification
  dispatch: counters and a router without decisions of their own.
- Performance controller: planned, see below.

## 8 Plan

| | Module | Question | Theorems |
|---|---|---|---|
| done | `TripStates`, `TripLifecycle`, `Matching` | does every request end well, whatever interleaves? | `Invariance` and its corollaries, refinement, `DemandIsReal`, `ReservationsAreAnswered` |
| done | `BronzeIngestion` | is every message stored? | `AtLeastOnce` |
| done | `StreamProcessor` | is every event shown once? | `ShownOnce` |
| done | `EngineLifecycle` | is every agent run, does a pause come, does it hold? | `EngineInvariance` and its corollaries |
| done | `PuppetTrips` | do calls of clients, drives and searches keep agents and trips together? | `PuppetTypes`, `AgentsFollow`, `ReservedForOffers`, `TripsMoveOn`, `MovesDeclared` |
| done | `Checkpoints` | does a restart lose anything, or bring back too much? | `ResetForgotten`, `GracefulRestores`, `PauseRestores` |
| done | `LiveView` | does every page converge to what is? | `EndedForGood`, `ViewSettles`, `RidesSettle` |
| done | `DeploySession` | is the platform taken down in time? | `RemainingTheorem`, `WatchTheorem` |
| done | `VisitorAccounts` | does everybody get the accounts that were mailed? | `MailLogsIn`, `NobodyIsForgotten`, `AccountsAreMailed` |
| next | `Matching`, extended | several trips of one rider, `clear()` on a reset, the status of a driver whose drive home goes on during a trip | the invariant for riders with several trips |
| then | `DriverAgent`: registries, index | do the counters agree with the drivers counted? | counters equal the drivers counted |
| last | `PerformanceController` | the mode switch against the control loop | |

`TripLifecycle` is the abstract specification that ties the trip modules together;
`Matching` implements it. `PuppetTrips` counts no offers, and a declined offer is rejected
and sent on in one of its steps, so `MovesDeclared` says step by step what the abstract
specification says of states.
