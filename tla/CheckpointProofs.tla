---------------------------- MODULE CheckpointProofs ----------------------------
(***************************************************************************)
(* For any number of drivers, riders, saves, resets and restarts: every    *)
(* variable keeps its type, a reset is forgotten by the store, and what a  *)
(* graceful checkpoint without a flaw restores is whole.                   *)
(***************************************************************************)
EXTENDS Checkpoints, TLAPS

\* The store is of this epoch, and so is what is on its way there.
Epochs ==
  /\ up # "stopping" => save["main"].at = "idle"
  /\ Storage = "sqlite" /\ ~overlapped =>
       /\ saved # NoCheckpoint => saved.epoch = resets
       /\ \A s \in Savers : save[s].at # "idle" => save[s].epoch = resets

--------------------------------------------------------------------------------
(* Types *)

SaveType == [at : {"idle", "riders", "count", "write"}, trigger : Triggers,
             drivers : Agents, riders : Statuses, kind : {"graceful", "crash"},
             flaws : SUBSET FlawNames, epoch : 0..MaxResets]

WorldType ==
  /\ driver \in Agents /\ rider \in Statuses
  /\ trip \in [Riders -> [phase : Phases, driver : Drivers \cup {NoDriver}]]
  /\ reserved \subseteq Drivers /\ asking \subseteq Riders
  /\ onShift \subseteq Drivers /\ heading \subseteq Drivers

\* Only agents that exist change.
LEMMA DriverTypes ==
  ASSUME NEW A \in Agents, NEW d \in Drivers, NEW s \in DriverStatus \ {"absent"},
         NEW t \in Riders \cup {NoRider}
  PROVE  /\ [A EXCEPT ![d].status = s] \in Agents
         /\ [A EXCEPT ![d] = [status |-> s, trip |-> t]] \in Agents
  BY DEF Agents

LEMMA NobodyTypes ==
  /\ NoAgents.drivers \in Agents /\ NoAgents.riders \in Statuses
  /\ NothingRead \in SaveType
<1>1. NoAgents.drivers \in Agents /\ NoAgents.riders \in Statuses
  BY DEF NoAgents, Absent, Agents, Statuses, DriverStatus, RiderStatus
<1>2. QED
  BY <1>1, CheckpointAssumption DEF NothingRead, SaveType, Triggers

\* What the SimPy thread does to the world.
LEMMA WorldTypes ==
  ASSUME WorldType, World \/ \E r \in Riders : Request(r)
  PROVE  WorldType'
<1>1. ASSUME NEW d \in Drivers, SpawnDriver(d) \/ GoOnline(d) \/ GoOffline(d) \/ ArriveHome(d)
      PROVE  WorldType'
  <2>1. PICK s \in DriverStatus \ {"absent"} : driver' = [driver EXCEPT ![d].status = s]
    BY <1>1 DEF SpawnDriver, GoOnline, GoOffline, ArriveHome, DriverStatus
  <2>2. driver' \in Agents
    BY <2>1, DriverTypes DEF WorldType
  <2>3. /\ rider' = rider /\ trip' = trip /\ reserved' = reserved /\ asking' = asking
        /\ onShift' \subseteq Drivers /\ heading' \subseteq Drivers
    BY <1>1 DEF WorldType, SpawnDriver, GoOnline, GoOffline, ArriveHome, work
  <2>4. QED
    BY <2>2, <2>3 DEF WorldType
<1>2. ASSUME NEW r \in Riders, SpawnRider(r) \/ Request(r) \/ GiveUp(r) \/ OfferEnds(r) \/ PickUp(r)
      PROVE  WorldType'
  BY <1>2 DEF WorldType, SpawnRider, Request, GiveUp, OfferEnds, PickUp, Statuses, RiderStatus,
              Phases, NoTrip, work, agents
<1>3. ASSUME NEW r \in Riders, Accept(r)
      PROVE  WorldType'
  <2>1. CASE trip[r].driver \in Drivers
    BY <1>3, <2>1, DriverTypes DEF WorldType, Accept, Statuses, RiderStatus, Phases, DriverStatus
  <2>2. CASE trip[r].driver \notin Drivers
    <3>1. driver' = driver
      BY <1>3, <2>2 DEF WorldType, Accept, Agents
    <3>2. QED
      BY <1>3, <2>2, <3>1 DEF WorldType, Accept, Statuses, RiderStatus, Phases
  <2>3. QED
    BY <2>1, <2>2
<1>4. ASSUME NEW r \in Riders, TripEnds(r)
      PROVE  WorldType'
  <2>1. /\ rider' \in Statuses
        /\ trip' \in [Riders -> [phase : Phases, driver : Drivers \cup {NoDriver}]]
        /\ asking' \subseteq Riders /\ onShift' \subseteq Drivers
    BY <1>4 DEF WorldType, TripEnds, Statuses, RiderStatus, Phases, NoTrip
  <2>2. driver' \in Agents /\ reserved' \subseteq Drivers /\ heading' \subseteq Drivers
    <3>1. trip[r].driver \in Drivers \cup {NoDriver}
      BY DEF WorldType
    <3>2. CASE trip[r].driver = NoDriver
      BY <1>4, <3>2 DEF WorldType, TripEnds
    <3>3. CASE trip[r].driver \in Drivers /\ trip[r].driver # NoDriver
      <4>1. reserved' \subseteq Drivers /\ heading' \subseteq Drivers
        BY <1>4, <3>3 DEF WorldType, TripEnds
      <4>2. CASE driver[trip[r].driver].trip # r
        BY <1>4, <3>3, <4>1, <4>2 DEF WorldType, TripEnds
      <4>3. CASE driver[trip[r].driver].trip = r
        <5>1. PICK s \in {"homing", "available"} :
                driver' = [driver EXCEPT ![trip[r].driver] = [status |-> s, trip |-> NoRider]]
          BY <1>4, <3>3, <4>3 DEF TripEnds
        <5>2. QED
          BY <3>3, <4>1, <5>1, DriverTypes DEF WorldType, DriverStatus
      <4>4. QED
        BY <4>2, <4>3
    <3>4. QED
      BY <3>1, <3>2, <3>3
  <2>3. QED
    BY <2>1, <2>2 DEF WorldType
<1>5. QED
  BY <1>1, <1>2, <1>3, <1>4 DEF World

LEMMA OtherTypes ==
  ASSUME WorldType
  PROVE  /\ EventLoop => WorldType'
         /\ DrainTimesOut => WorldType'
         /\ Emptied => WorldType'
<1>1. ASSUME EventLoop PROVE WorldType'
  BY <1>1 DEF EventLoop, AdmitRequest, RegisterTrip, SendOffer, WorldType, Phases, agents
<1>2. ASSUME DrainTimesOut PROVE WorldType'
  BY <1>2 DEF DrainTimesOut, WorldType, Phases, Agents, Homing, DriverStatus
<1>3. ASSUME Emptied PROVE WorldType'
  BY <1>3, NobodyTypes DEF Emptied, WorldType, NoTrip, Phases
<1>4. QED
  BY <1>1, <1>2, <1>3

\* What the savers have read, and the store.
SavingType ==
  /\ save \in [Savers -> SaveType]
  /\ saved \in Checkpoint \cup {NoCheckpoint}
  /\ restored \in [kind : {"graceful", "crash"}, flaws : SUBSET FlawNames] \cup {NoCheckpoint}
  /\ resets \in 0..MaxResets /\ restarts \in 0..MaxRestarts /\ saves \in 0..MaxSaves
  /\ requests \in 0..MaxRequests /\ overlapped \in BOOLEAN

ControlType ==
  /\ up \in {"up", "stopping", "down"} /\ stepping \in BOOLEAN
  /\ state \in {"stopped", "running", "draining", "cancelling", "paused"}

LEMMA TypeSplit ==
  /\ TypeOK <=> WorldType /\ SavingType /\ ControlType
  /\ TypeOK' <=> WorldType' /\ SavingType' /\ ControlType'
  BY DEF TypeOK, WorldType, SavingType, ControlType, SaveType

LEMMA FlawTypes == Flaws \in SUBSET FlawNames
  BY DEF Flaws, FlawNames

LEMMA SaveTypes ==
  ASSUME WorldType, SavingType, NEW s \in Savers
  PROVE  /\ \A why \in Triggers : BeginSave(s, why) => save' \in [Savers -> SaveType]
         /\ Saving(s) => save' \in [Savers -> SaveType]
         /\ Tear => save' \in [Savers -> SaveType]
         /\ Written(s) => saved' \in Checkpoint \cup {NoCheckpoint}
<1>1. ASSUME NEW why \in Triggers, BeginSave(s, why) PROVE save' \in [Savers -> SaveType]
  <2>1. [NothingRead EXCEPT !.at = "riders", !.trigger = why, !.drivers = driver,
                            !.flaws = Flaws, !.epoch = resets] \in SaveType
    BY NobodyTypes, FlawTypes DEF SaveType, WorldType, SavingType
  <2>2. QED
    BY <1>1, <2>1 DEF BeginSave, SavingType
<1>2. ASSUME Saving(s) PROVE save' \in [Savers -> SaveType]
  BY <1>2, FlawTypes DEF Saving, ReadRiders, ReadCount, SavingType, SaveType, WorldType
<1>3. ASSUME Tear PROVE save' \in [Savers -> SaveType]
  BY <1>3 DEF Tear, SavingType, SaveType, FlawNames
<1>4. ASSUME Written(s) PROVE saved' \in Checkpoint \cup {NoCheckpoint}
  <2>1. save[s] \in SaveType
    BY DEF SavingType
  <2>2. CASE Storage = "s3" \/ saved = NoCheckpoint
    <3>1. Stored(s) \in Checkpoint
      BY <2>1, <2>2, NobodyTypes DEF Stored, Checkpoint, SaveType, WorldType
    <3>2. QED
      BY <1>4, <3>1 DEF Written, SavingType
  <2>3. CASE ~(Storage = "s3" \/ saved = NoCheckpoint)
    <3>1. saved \in Checkpoint
      BY <2>3 DEF SavingType
    <3>2. Stored(s) \in Checkpoint
      BY <2>1, <2>3, <3>1 DEF Stored, Checkpoint, SaveType, WorldType
    <3>3. QED
      BY <1>4, <3>2 DEF Written, SavingType
  <2>4. QED
    BY <2>2, <2>3
<1>5. QED
  BY <1>1, <1>2, <1>3, <1>4

LEMMA StepCounts ==
  ASSUME SavingType
  PROVE  /\ \A s \in Savers, why \in Triggers : BeginSave(s, why) => saves' \in 0..MaxSaves
         /\ \A r \in Riders : Request(r) => requests' \in 0..MaxRequests
<1>1. /\ saves \in Nat /\ saves <= MaxSaves /\ requests \in Nat /\ requests <= MaxRequests
      /\ MaxSaves \in Nat /\ MaxRequests \in Nat
  BY CheckpointAssumption DEF SavingType
<1>2. ASSUME NEW s \in Savers, NEW why \in Triggers, BeginSave(s, why)
      PROVE  saves' \in 0..MaxSaves
  <2>1. saves < MaxSaves /\ saves' = saves + 1
    BY <1>2 DEF BeginSave
  <2>2. QED
    BY <1>1, <2>1
<1>3. ASSUME NEW r \in Riders, Request(r)
      PROVE  requests' \in 0..MaxRequests
  <2>1. requests < MaxRequests /\ requests' = requests + 1
    BY <1>3 DEF Request
  <2>2. QED
    BY <1>1, <2>1
<1>4. QED
  BY <1>2, <1>3

\* Restored agents are those of the checkpoint, or freed by the cleanup.
LEMMA RestartTypes ==
  ASSUME TypeOK, Restart
  PROVE  TypeOK'
<1>0. WorldType /\ SavingType /\ ControlType
  BY TypeSplit
<1>1. ControlType'
  BY <1>0 DEF Restart, ControlType
<1>2. SavingType'
  <2>1. restored' \in [kind : {"graceful", "crash"}, flaws : SUBSET FlawNames] \cup {NoCheckpoint}
    BY <1>0 DEF Restart, Checkpoint, SavingType
  <2>2. restarts' \in 0..MaxRestarts
    BY <1>0, CheckpointAssumption DEF Restart, SavingType
  <2>3. QED
    BY <1>0, <2>1, <2>2 DEF Restart, SavingType
<1>3. WorldType'
  <2>1. CASE saved = NoCheckpoint
    BY <1>0, <2>1 DEF Restart, WorldType
  <2>2. CASE saved # NoCheckpoint
    <3>1. saved \in Checkpoint
      BY <1>0, <2>2 DEF SavingType
    <3>2. Restore(saved)
      BY <2>2 DEF Restart
    <3>3. driver' = saved.drivers /\ rider' = saved.riders
      <4>1. Cancelled(saved) = {}
        BY DEF Cancelled, StoredTrips
      <4>2. /\ driver' = [d \in Drivers |-> saved.drivers[d]]
            /\ rider' = [r \in Riders |-> saved.riders[r]]
        BY <3>2, <4>1 DEF Restore
      <4>3. QED
        BY <3>1, <4>2 DEF Checkpoint, Agents, Statuses
    <3>4. driver' \in Agents /\ rider' \in Statuses
      BY <3>1, <3>3 DEF Checkpoint
    <3>5. reserved' \subseteq Drivers /\ onShift' \subseteq Drivers
      BY <3>1, <3>2 DEF Restore, Checkpoint
    <3>6. QED
      BY <1>0, <3>4, <3>5 DEF Restart, WorldType
  <2>3. QED
    BY <2>1, <2>2
<1>4. QED
  BY <1>1, <1>2, <1>3, TypeSplit

LEMMA TypeStep ==
  ASSUME TypeOK, [Next]_vars
  PROVE  TypeOK'
<1>0. WorldType /\ SavingType /\ ControlType
  BY TypeSplit
<1>1. CASE EventLoop
  <2>1. WorldType'
    BY <1>0, <1>1, OtherTypes
  <2>2. SavingType' /\ ControlType'
    BY <1>0, <1>1 DEF EventLoop, SavingType, ControlType, store, history
  <2>3. QED
    BY <2>1, <2>2, TypeSplit
<1>2. CASE SimPyStep
  <2>1. WorldType'
    BY <1>0, <1>2, WorldTypes DEF SimPyStep
  <2>2. save' \in [Savers -> SaveType]
    BY <1>0, <1>2, SaveTypes DEF SimPyStep, Savers
  <2>3. requests' \in 0..MaxRequests
    BY <1>0, <1>2, StepCounts DEF SimPyStep, SavingType
  <2>4. SavingType' /\ ControlType'
    BY <1>0, <1>2, <2>2, <2>3 DEF SimPyStep, SavingType, ControlType, store, history
  <2>5. QED
    BY <2>1, <2>4, TypeSplit
<1>3. CASE Periodic \/ Quiesce \/ PauseAfterTimeout
  <2>1. PICK why \in Triggers : BeginSave("sim", why)
    BY <1>3 DEF Periodic, Quiesce, PauseAfterTimeout, Paused, Triggers
  <2>2. save' \in [Savers -> SaveType] /\ saves' \in 0..MaxSaves
    BY <1>0, <2>1, SaveTypes, StepCounts DEF Savers
  <2>3. /\ UNCHANGED <<up, stepping, world, saved, restored, history>>
        /\ state' \in {state, "paused"}
    BY <1>3 DEF Periodic, Quiesce, PauseAfterTimeout, Paused
  <2>4. WorldType' /\ SavingType' /\ ControlType'
    BY <1>0, <2>2, <2>3 DEF WorldType, SavingType, ControlType, world, agents, work, history
  <2>5. QED
    BY <2>4, TypeSplit
<1>4. CASE DrainTimesOut
  <2>1. WorldType'
    BY <1>0, <1>4, OtherTypes
  <2>2. save' \in [Savers -> SaveType]
    BY <1>0, <1>4, SaveTypes DEF DrainTimesOut, Savers
  <2>3. SavingType' /\ ControlType'
    BY <1>0, <1>4, <2>2 DEF DrainTimesOut, SavingType, ControlType, store, history
  <2>4. QED
    BY <2>1, <2>3, TypeSplit
<1>5. CASE SimPySaves
  <2>1. save' \in [Savers -> SaveType] /\ saved' \in Checkpoint \cup {NoCheckpoint}
    <3>1. CASE Saving("sim") /\ UNCHANGED store
      BY <1>0, <3>1, SaveTypes DEF Savers, store, SavingType
    <3>2. CASE Written("sim") /\ save' = [save EXCEPT !["sim"] = NothingRead]
      BY <1>0, <3>2, SaveTypes, NobodyTypes DEF Savers, SavingType
    <3>3. QED
      BY <1>5, <3>1, <3>2 DEF SimPySaves
  <2>2. /\ UNCHANGED <<up, stepping, state, world>>
        /\ UNCHANGED <<restored, history, saves>>
    BY <1>5 DEF SimPySaves, store
  <2>3. WorldType' /\ SavingType' /\ ControlType'
    BY <1>0, <2>1, <2>2 DEF WorldType, SavingType, ControlType, world, agents, work, history
  <2>4. QED
    BY <2>3, TypeSplit
<1>6. CASE Control
  <2>1. state' \in {"running", "draining", "stopped"}
    BY <1>6 DEF Control
  <2>2. WorldType' /\ SavingType' /\ ControlType'
    BY <1>0, <1>6, <2>1 DEF Control, WorldType, SavingType, ControlType, world, agents, work, store, history
  <2>3. QED
    BY <2>2, TypeSplit
<1>7. CASE Reset
  <2>1. WorldType'
    BY <1>0, <1>7, OtherTypes DEF Reset
  <2>2. save' \in [Savers -> SaveType]
    BY <1>0, <1>7, SaveTypes DEF Reset, Savers
  <2>3. resets' \in 0..MaxResets
    <3>1. resets < MaxResets /\ resets' = resets + 1 /\ MaxResets \in Nat /\ resets \in Nat
      BY <1>0, <1>7, CheckpointAssumption DEF Reset, SavingType
    <3>2. QED
      BY <3>1
  <2>4. overlapped' \in BOOLEAN
    BY <1>0, <1>7 DEF Reset, SavingType
  <2>5. SavingType' /\ ControlType'
    BY <1>0, <1>7, <2>2, <2>3, <2>4 DEF Reset, Emptied, Cleared, SavingType, ControlType
  <2>6. QED
    BY <2>1, <2>5, TypeSplit
<1>8. CASE Terminate \/ StepEnds
  <2>1. stepping' \in BOOLEAN /\ up' \in {up, "stopping"}
    BY <1>8 DEF Terminate, StepEnds
  <2>2. UNCHANGED <<state, world, save, store>>
    BY <1>8 DEF Terminate, StepEnds
  <2>3. WorldType' /\ SavingType' /\ ControlType'
    BY <1>0, <2>1, <2>2 DEF WorldType, SavingType, ControlType, world, agents, work, store, history
  <2>4. QED
    BY <2>3, TypeSplit
<1>9. CASE ShutdownSave
  <2>1. CASE BeginSave("main", "shutdown") /\ UNCHANGED <<up, stepping, state, world, saved, restored>>
    <3>1. save' \in [Savers -> SaveType] /\ saves' \in 0..MaxSaves
      BY <1>0, <2>1, SaveTypes, StepCounts DEF Savers, Triggers
    <3>2. WorldType' /\ SavingType' /\ ControlType'
      BY <1>0, <1>9, <2>1, <3>1 DEF ShutdownSave, WorldType, SavingType, ControlType, world, agents, work, history
    <3>3. QED
      BY <3>2, TypeSplit
  <2>2. CASE Saving("main") /\ UNCHANGED <<up, stepping, state, world, saved, restored, saves>>
    <3>1. save' \in [Savers -> SaveType]
      BY <1>0, <2>2, SaveTypes DEF Savers
    <3>2. WorldType' /\ SavingType' /\ ControlType'
      BY <1>0, <1>9, <2>2, <3>1 DEF ShutdownSave, WorldType, SavingType, ControlType, world, agents, work, history
    <3>3. QED
      BY <3>2, TypeSplit
  <2>3. CASE Written("main") /\ Dies /\ UNCHANGED <<requests, saves>>
    <3>1. saved' \in Checkpoint \cup {NoCheckpoint}
      BY <1>0, <2>3, SaveTypes DEF Savers
    <3>2. WorldType'
      BY <1>0, <2>3, OtherTypes DEF Dies
    <3>3. SavingType' /\ ControlType'
      BY <1>0, <1>9, <2>3, <3>1, NobodyTypes DEF ShutdownSave, Dies, Emptied, SavingType, ControlType, history
    <3>4. QED
      BY <3>2, <3>3, TypeSplit
  <2>4. QED
    BY <1>9, <2>1, <2>2, <2>3 DEF ShutdownSave
<1>10. CASE Crash
  <2>1. WorldType'
    BY <1>0, <1>10, OtherTypes DEF Crash, Dies
  <2>2. SavingType' /\ ControlType'
    BY <1>0, <1>10, NobodyTypes DEF Crash, Dies, Emptied, SavingType, ControlType, history
  <2>3. QED
    BY <2>1, <2>2, TypeSplit
<1>11. CASE Restart
  BY <1>11, RestartTypes
<1>12. CASE UNCHANGED vars
  <2>1. WorldType' /\ SavingType' /\ ControlType'
    BY <1>0, <1>12 DEF vars, WorldType, SavingType, ControlType, world, agents, work, store, history
  <2>2. QED
    BY <2>1, TypeSplit
<1>13. QED
  BY <1>1, <1>2, <1>3, <1>4, <1>5, <1>6, <1>7, <1>8, <1>9, <1>10, <1>11, <1>12
  DEF Next, SimPy, Process

LEMMA TypeInit == Init => TypeOK
<1> SUFFICES ASSUME Init PROVE TypeOK
  OBVIOUS
<1>1. WorldType
  BY NobodyTypes DEF Init, WorldType, NoTrip, Phases
<1>2. SavingType
  <2>1. resets = 0 /\ restarts = 0 /\ saves = 0 /\ requests = 0 /\ overlapped = FALSE
    BY DEF Init
  <2>2. save \in [Savers -> SaveType] /\ saved = NoCheckpoint /\ restored = NoCheckpoint
    BY NobodyTypes DEF Init
  <2>3. 0 \in 0..MaxResets /\ 0 \in 0..MaxRestarts /\ 0 \in 0..MaxSaves /\ 0 \in 0..MaxRequests
    BY CheckpointAssumption
  <2>4. QED
    BY <2>1, <2>2, <2>3 DEF SavingType
<1>3. ControlType
  BY DEF Init, ControlType
<1>4. QED
  BY <1>1, <1>2, <1>3, TypeSplit

\* Every variable keeps its type; an agent that does not exist has no trip.
THEOREM CheckpointTypes == Spec => []TypeOK
<1>1. QED
  BY TypeInit, TypeStep, PTL DEF Spec

--------------------------------------------------------------------------------
(* A reset is forgotten: what is saved, or being saved, is of this epoch *)

SameEpochs ==
  \A s \in Savers : save'[s].epoch = save[s].epoch /\ (save'[s].at = "idle" <=> save[s].at = "idle")

OthersSave(s) == \A t \in Savers \ {s} : save'[t] = save[t]

\* A save begins with the number of resets there were.
LEMMA SaveEpochs ==
  ASSUME SavingType, NEW s \in Savers
  PROVE  /\ \A why \in Triggers : BeginSave(s, why) => save'[s].epoch = resets /\ OthersSave(s)
         /\ Saving(s) => SameEpochs /\ OthersSave(s)
         /\ Tear => SameEpochs
<1>1. save \in [Savers -> SaveType]
  BY DEF SavingType
<1>2. ASSUME NEW why \in Triggers, BeginSave(s, why)
      PROVE  save'[s].epoch = resets /\ OthersSave(s)
  BY <1>1, <1>2 DEF BeginSave, NothingRead, OthersSave
<1>3. ASSUME Saving(s)
      PROVE  SameEpochs /\ OthersSave(s)
  <2>1. CASE ReadRiders(s)
    BY <1>1, <2>1 DEF ReadRiders, SaveType, SameEpochs, OthersSave
  <2>2. CASE ReadCount(s)
    BY <1>1, <2>2 DEF ReadCount, SaveType, SameEpochs, OthersSave
  <2>3. QED
    BY <1>3, <2>1, <2>2 DEF Saving
<1>4. ASSUME Tear
      PROVE  SameEpochs
  BY <1>1, <1>4 DEF Tear, SaveType, SameEpochs
<1>5. QED
  BY <1>2, <1>3, <1>4

LEMMA EpochStep ==
  ASSUME TypeOK, Epochs, [Next]_vars
  PROVE  Epochs'
<1>0. SavingType
  BY TypeSplit
<1>1. CASE EventLoop \/ Control \/ Terminate \/ StepEnds \/ UNCHANGED vars
  BY <1>1 DEF EventLoop, Control, Terminate, StepEnds, vars, Epochs, store, history
<1>2. CASE SimPyStep \/ DrainTimesOut
  <2>1. /\ Tear
        /\ UNCHANGED <<up, store>>
    BY <1>2 DEF SimPyStep, DrainTimesOut
  <2>2. SameEpochs
    BY <1>0, <2>1, SaveEpochs DEF Savers
  <2>3. QED
    BY <2>1, <2>2 DEF SameEpochs, Epochs, store, history, Savers
<1>3. CASE Periodic \/ Quiesce \/ PauseAfterTimeout
  <2>1. PICK why \in Triggers : BeginSave("sim", why)
    BY <1>3 DEF Periodic, Quiesce, PauseAfterTimeout, Paused, Triggers
  <2>2. UNCHANGED <<up, saved, resets, overlapped>>
    BY <1>3 DEF Periodic, Quiesce, PauseAfterTimeout, Paused, history
  <2>3. QED
    BY <1>0, <2>1, <2>2, SaveEpochs DEF SameEpochs, OthersSave, Epochs, Savers
<1>4. CASE SimPySaves
  <2>1. CASE Saving("sim") /\ UNCHANGED <<up, store>>
    <3>1. SameEpochs /\ OthersSave("sim")
      BY <1>0, <2>1, SaveEpochs DEF Savers
    <3>2. QED
      BY <2>1, <3>1 DEF SameEpochs, OthersSave, Epochs, store, history, Savers
  <2>2. CASE /\ Written("sim") /\ save' = [save EXCEPT !["sim"] = NothingRead]
             /\ UNCHANGED <<up, resets, overlapped>>
    BY <1>0, <2>2 DEF Epochs, Savers, Written, Stored, NothingRead, SavingType
  <2>3. QED
    BY <1>4, <2>1, <2>2 DEF SimPySaves, history
<1>5. CASE Reset
  <2>1. up' = up /\ Tear /\ overlapped' = (overlapped \/ save["sim"].at # "idle") /\ up = "up"
    BY <1>5 DEF Reset
  <2>2. Storage = "sqlite" => saved' = NoCheckpoint
    BY <1>5 DEF Reset, Cleared
  <2>3. ~overlapped' => \A s \in Savers : save'[s].at = "idle"
    BY <1>0, <2>1, SaveEpochs DEF SameEpochs, OthersSave, Epochs, Savers
  <2>4. QED
    BY <1>0, <2>1, <2>2, <2>3, SaveEpochs DEF SameEpochs, OthersSave, Epochs, Savers
<1>6. CASE ShutdownSave
  <2>1. up = "stopping" /\ UNCHANGED <<resets, overlapped>>
    BY <1>6 DEF ShutdownSave, history
  <2>2. CASE BeginSave("main", "shutdown") /\ UNCHANGED <<up, saved>>
    BY <1>0, <2>1, <2>2, SaveEpochs DEF SameEpochs, OthersSave, Epochs, Savers, Triggers
  <2>3. CASE Saving("main") /\ UNCHANGED <<up, saved>>
    <3>1. SameEpochs
      BY <1>0, <2>3, SaveEpochs DEF Savers
    <3>2. QED
      BY <2>1, <2>3, <3>1 DEF SameEpochs, Epochs
  <2>4. CASE Written("main") /\ Dies
    BY <1>0, <2>1, <2>4 DEF Epochs, Savers, Written, Dies, Stored, NothingRead
  <2>5. QED
    BY <1>6, <2>2, <2>3, <2>4 DEF ShutdownSave
<1>7. CASE Crash
  BY <1>7 DEF Crash, Dies, Epochs, NothingRead, Savers, history
<1>8. CASE Restart
  <2>1. up = "down" /\ UNCHANGED <<save, saved, resets, overlapped>>
    BY <1>8 DEF Restart
  <2>2. QED
    BY <1>8, <2>1 DEF Epochs
<1>9. QED
  BY <1>1, <1>2, <1>3, <1>4, <1>5, <1>6, <1>7, <1>8 DEF Next, SimPy, Process

\* No restart brings back a world that was reset: the tables are emptied by the
\* reset, and no save that began before writes after it.
THEOREM ResetForgotten == Spec => []ResetIsForgotten
<1>1. Init => Epochs
  BY DEF Init, Epochs, NothingRead, Savers
<1>2. TypeOK /\ Epochs /\ [Next]_vars => Epochs'
  BY EpochStep
<1>3. Epochs => ResetIsForgotten
  BY DEF Epochs, ResetIsForgotten
<1>4. QED
  BY <1>1, <1>2, <1>3, CheckpointTypes, PTL DEF Spec

--------------------------------------------------------------------------------
(* A world that nobody is stuck in stays so: what a restart brings back whole *)
(* remains whole, until the process ends                                      *)

Running == {"sent", "admitted", "open", "offered", "matched", "riding", "cancelled"}

\* A live trip has its rider's process waiting for it, and its driver.
TripInOrder(r) ==
  /\ trip[r].phase \in Running => r \in asking
  /\ trip[r].phase = "void" => r \notin asking
  /\ trip[r].phase \in {"matched", "riding"} => rider[r] \in {"awaiting_pickup", "on_trip"}
  /\ trip[r].phase \in {"none", "sent", "admitted", "open"} => trip[r].driver = NoDriver
  /\ trip[r].phase \in {"offered", "void", "matched", "riding"} => trip[r].driver \in Drivers
  /\ r \in asking => \/ rider[r] = "requesting"
                     \/ trip[r].phase \in {"matched", "riding", "cancelled"}

TripsInOrder == \A r \in Riders : TripInOrder(r)

\* Nothing of the world outlives the process.
MemoryIsLost ==
  up = "down" => /\ \A r \in Riders : trip[r] = NoTrip
                 /\ asking = {}
                 /\ \A s \in Savers : save[s].at = "idle"

\* No trip is alive and nobody waits for one.
NothingGoesOn == \A r \in Riders : trip[r].phase = "none" /\ rider[r] # "requesting"

\* What was read and not torn is still so.
ReadIsCurrent ==
  \A s \in Savers : save[s].at # "idle" /\ "torn" \notin save[s].flaws =>
    /\ save[s].drivers = driver
    /\ save[s].at \in {"count", "write"} => save[s].riders = rider

\* A save in which nothing was found amiss, the longer the more is known.
CleanSave ==
  \A s \in Savers : save[s].at # "idle" /\ save[s].flaws = {} =>
    /\ NobodyStuck
    /\ save[s].trigger = "quiescence_achieved" =>
         /\ NothingGoesOn /\ Homing = {}
         /\ save[s].at = "write" => save[s].kind = "graceful"
    /\ save[s].at = "write" /\ save[s].kind = "graceful" => NothingGoesOn

Whole(c) ==
  /\ \A d \in Drivers : c.drivers[d].trip = NoRider
  /\ \A r \in Riders : c.riders[r] \in {"absent", "idle"}
  /\ c.reserved = {}

CleanStore ==
  saved # NoCheckpoint /\ saved.flaws = {} =>
    /\ saved.kind = "graceful" => Whole(saved)
    /\ saved.trigger = "quiescence_achieved" =>
         /\ saved.kind = "graceful"
         /\ \A d \in Drivers : saved.drivers[d].status # "homing"

\* Agents do not vanish while a checkpoint that has some is kept.
StoreIsPopulated ==
  Storage = "sqlite" /\ saved # NoCheckpoint /\ up # "down" /\ "torn" \notin saved.flaws =>
    /\ NoDrivers(driver) => NoDrivers(saved.drivers)
    /\ NoRiders(rider) => NoRiders(saved.riders)

CleanWorld ==
  restored # NoCheckpoint /\ restored.kind = "graceful" /\ restored.flaws = {} => NobodyStuck

CInv ==
  /\ TripsInOrder /\ MemoryIsLost
  /\ ReadIsCurrent /\ CleanSave
  /\ CleanStore /\ StoreIsPopulated /\ CleanWorld

\* Each step of the world is about one rider's trip, if any.
Untouched(r) == trip'[r] = trip[r] /\ rider'[r] = rider[r] /\ (r \in asking' <=> r \in asking)

LEMMA OthersUntouched ==
  ASSUME WorldType, NEW r \in Riders,
         \/ SpawnRider(r) \/ Request(r) \/ OfferEnds(r) \/ Accept(r) \/ PickUp(r)
         \/ TripEnds(r) \/ GiveUp(r)
         \/ AdmitRequest(r) /\ UNCHANGED agents
         \/ RegisterTrip(r) /\ UNCHANGED agents
         \/ SendOffer(r) /\ UNCHANGED agents
  PROVE  \A q \in Riders \ {r} : Untouched(q)
  BY DEF WorldType, Statuses, Untouched, SpawnRider, Request, OfferEnds, Accept, PickUp, TripEnds,
         GiveUp, AdmitRequest, RegisterTrip, SendOffer, agents, work

LEMMA OrderOfOne ==
  ASSUME WorldType, NEW r \in Riders, TripInOrder(r),
         \/ SpawnRider(r) \/ Request(r) \/ OfferEnds(r) \/ Accept(r) \/ PickUp(r)
         \/ TripEnds(r) \/ GiveUp(r)
         \/ AdmitRequest(r) /\ UNCHANGED agents
         \/ RegisterTrip(r) /\ UNCHANGED agents
         \/ SendOffer(r) /\ UNCHANGED agents
  PROVE  TripInOrder(r)'
<1> USE DEF TripInOrder, WorldType, Statuses, RiderStatus, Phases, Running
<1>1. ASSUME SpawnRider(r) \/ Request(r) PROVE TripInOrder(r)'
  BY <1>1, CheckpointAssumption DEF SpawnRider, Request, NoTrip, work
<1>2. ASSUME OfferEnds(r) PROVE TripInOrder(r)'
  BY <1>2, CheckpointAssumption DEF OfferEnds, NoTrip, agents
<1>3. ASSUME Accept(r) \/ PickUp(r) PROVE TripInOrder(r)'
  BY <1>3, CheckpointAssumption DEF Accept, PickUp
<1>4. ASSUME TripEnds(r) PROVE TripInOrder(r)'
  BY <1>4, CheckpointAssumption DEF TripEnds, NoTrip
<1>5. ASSUME GiveUp(r) PROVE TripInOrder(r)'
  BY <1>5, CheckpointAssumption DEF GiveUp, NoTrip
<1>6. ASSUME AdmitRequest(r) \/ RegisterTrip(r) \/ SendOffer(r), UNCHANGED agents
      PROVE  TripInOrder(r)'
  BY <1>6, CheckpointAssumption DEF AdmitRequest, RegisterTrip, SendOffer, agents
<1>7. QED
  BY <1>1, <1>2, <1>3, <1>4, <1>5, <1>6

LEMMA OrderStays ==
  ASSUME WorldType, TripsInOrder, (World \/ \E r \in Riders : Request(r)) \/ EventLoop \/ DrainTimesOut
  PROVE  TripsInOrder'
<1>1. ASSUME NEW d \in Drivers, SpawnDriver(d) \/ GoOnline(d) \/ GoOffline(d) \/ ArriveHome(d)
      PROVE  TripsInOrder'
  BY <1>1 DEF SpawnDriver, GoOnline, GoOffline, ArriveHome, TripsInOrder, TripInOrder, work
<1>2. ASSUME NEW r \in Riders,
             \/ SpawnRider(r) \/ Request(r) \/ OfferEnds(r) \/ Accept(r) \/ PickUp(r)
             \/ TripEnds(r) \/ GiveUp(r)
             \/ AdmitRequest(r) /\ UNCHANGED agents
             \/ RegisterTrip(r) /\ UNCHANGED agents
             \/ SendOffer(r) /\ UNCHANGED agents
      PROVE  TripsInOrder'
  <2>1. TripInOrder(r)'
    BY <1>2, OrderOfOne DEF TripsInOrder
  <2>2. ASSUME NEW q \in Riders \ {r} PROVE TripInOrder(q)'
    <3>1. Untouched(q)
      BY <1>2, OthersUntouched
    <3>2. QED
      BY <3>1 DEF TripsInOrder, TripInOrder, Untouched
  <2>3. QED
    BY <2>1, <2>2 DEF TripsInOrder
<1>3. CASE DrainTimesOut
  BY <1>3 DEF DrainTimesOut, Active, TripsInOrder, TripInOrder, WorldType, Running
<1>4. QED
  BY <1>1, <1>2, <1>3 DEF World, EventLoop

\* Nobody stuck, agent by agent.
DriversDrive == \A d \in Drivers : driver[d].trip # NoRider => Drives(d, driver[d].trip)
RidersAsk == \A r \in Riders : rider[r] \notin {"absent", "idle"} => r \in asking
OffersReserve == \A d \in reserved : \E r \in Riders : trip[r].driver = d

LEMMA StuckMeans ==
  /\ NobodyStuck <=> DriversDrive /\ RidersAsk /\ OffersReserve
  /\ NobodyStuck' <=> DriversDrive' /\ RidersAsk' /\ OffersReserve'
<1>1. NobodyStuck <=> DriversDrive /\ RidersAsk /\ OffersReserve
  BY DEF NobodyStuck, StuckDrivers, StuckRiders, StuckReservations, DriversDrive, RidersAsk, OffersReserve
<1>2. NobodyStuck' <=> DriversDrive' /\ RidersAsk' /\ OffersReserve'
  BY DEF NobodyStuck, StuckDrivers, StuckRiders, StuckReservations, DriversDrive, RidersAsk, OffersReserve
<1>3. QED
  BY <1>1, <1>2

LEMMA WholeStays ==
  ASSUME WorldType, TripsInOrder, NobodyStuck,
         (World \/ \E r \in Riders : Request(r)) \/ EventLoop \/ DrainTimesOut
  PROVE  NobodyStuck'
<1>0. DriversDrive /\ RidersAsk /\ OffersReserve
  BY StuckMeans
<1>a. \A d \in Drivers : driver[d].trip \in Riders \cup {NoRider}
  BY DEF WorldType, Agents
<1> USE DEF DriversDrive, RidersAsk, OffersReserve, Drives, WorldType, Agents, Statuses
<1>1. ASSUME NEW d \in Drivers, SpawnDriver(d) \/ GoOnline(d) \/ GoOffline(d) \/ ArriveHome(d)
      PROVE  NobodyStuck'
  <2>1. \A e \in Drivers : driver'[e].trip = driver[e].trip
    BY <1>1 DEF SpawnDriver, GoOnline, GoOffline, ArriveHome
  <2>2. UNCHANGED <<rider, trip, reserved, asking>>
    BY <1>1 DEF SpawnDriver, GoOnline, GoOffline, ArriveHome, work
  <2>3. QED
    BY <1>0, <2>1, <2>2, StuckMeans
<1>2. ASSUME NEW r \in Riders, SpawnRider(r) \/ Request(r) \/ PickUp(r)
      PROVE  NobodyStuck'
  <2>0. PickUp(r) => r \in asking
    BY DEF PickUp, TripsInOrder, TripInOrder, Running
  <2>1. CASE SpawnRider(r)
    <3>1. DriversDrive' /\ RidersAsk' /\ OffersReserve'
      BY <1>0, <2>1 DEF SpawnRider, work
    <3>2. QED
      BY <3>1, StuckMeans
  <2>2. CASE Request(r)
    <3>1. DriversDrive'
      BY <1>0, <2>2 DEF Request, NoTrip
    <3>2. RidersAsk'
      BY <1>0, <2>2 DEF Request
    <3>3. OffersReserve'
      BY <1>0, <2>2 DEF Request, NoTrip
    <3>4. QED
      BY <3>1, <3>2, <3>3, StuckMeans
  <2>3. CASE PickUp(r)
    <3>1. DriversDrive' /\ RidersAsk' /\ OffersReserve'
      BY <1>0, <2>0, <2>3 DEF PickUp
    <3>2. QED
      BY <3>1, StuckMeans
  <2>4. QED
    BY <1>2, <2>1, <2>2, <2>3
<1>3. ASSUME NEW r \in Riders, OfferEnds(r)
      PROVE  NobodyStuck'
  <2>1. DriversDrive' /\ RidersAsk' /\ OffersReserve'
    BY <1>0, <1>3 DEF OfferEnds, agents
  <2>2. QED
    BY <2>1, StuckMeans
<1>4. ASSUME NEW r \in Riders, Accept(r)
      PROVE  NobodyStuck'
  <2>0. trip[r].driver \in Drivers /\ r \in asking
    BY <1>4 DEF Accept, TripsInOrder, TripInOrder, Running
  <2>1. DriversDrive'
    BY <1>0, <1>4, <2>0 DEF Accept
  <2>2. RidersAsk' /\ OffersReserve'
    BY <1>0, <1>4, <2>0 DEF Accept
  <2>3. QED
    BY <2>1, <2>2, StuckMeans
<1>5. ASSUME NEW r \in Riders, TripEnds(r)
      PROVE  NobodyStuck'
  <2>1. DriversDrive'
    <3>1. CASE trip[r].driver = NoDriver
      <4>1. driver' = driver /\ \A d \in Drivers : driver[d].trip # r
        BY <1>0, <1>5, <3>1, CheckpointAssumption DEF TripEnds
      <4>2. \A q \in Riders \ {r} : trip'[q] = trip[q]
        BY <1>5 DEF TripEnds
      <4>3. QED
        BY <1>0, <4>1, <4>2
    <3>2. CASE trip[r].driver \in Drivers /\ trip[r].driver # NoDriver
      <4>1. CASE driver[trip[r].driver].trip # r
        <5>1. driver' = driver
          BY <1>5, <3>2, <4>1 DEF TripEnds
        <5>2. \A d \in Drivers : driver[d].trip # r
          BY <1>0, <1>a, <4>1, CheckpointAssumption
        <5>3. \A q \in Riders \ {r} : trip'[q] = trip[q]
          BY <1>5 DEF TripEnds
        <5>4. QED
          BY <1>0, <1>a, <5>1, <5>2, <5>3
      <4>2. CASE driver[trip[r].driver].trip = r
        <5>0. PICK s \in {"homing", "available"} :
                driver' = [driver EXCEPT ![trip[r].driver] = [status |-> s, trip |-> NoRider]]
          BY <1>5, <3>2, <4>2 DEF TripEnds
        <5>1. /\ \A d \in Drivers \ {trip[r].driver} : driver'[d] = driver[d]
              /\ driver'[trip[r].driver].trip = NoRider
          BY <5>0, <3>2
        <5>2. \A q \in Riders \ {r} : trip'[q] = trip[q]
          BY <1>5 DEF TripEnds
        <5>3. ASSUME NEW d \in Drivers \ {trip[r].driver}, driver[d].trip = r PROVE FALSE
          <6>1. r # NoRider
            BY CheckpointAssumption
          <6>2. Drives(d, r)
            BY <1>0, <5>3, <6>1
          <6>3. QED
            BY <6>2
        <5>4. ASSUME NEW d \in Drivers, driver'[d].trip # NoRider
              PROVE  driver[d].trip \in Riders \ {r} /\ driver'[d] = driver[d]
          BY <1>a, <5>1, <5>3, <5>4
        <5>5. QED
          BY <1>0, <5>2, <5>4
      <4>3. QED
        BY <4>1, <4>2
    <3>3. QED
      BY <3>1, <3>2
  <2>2. RidersAsk' /\ OffersReserve'
    BY <1>0, <1>5, CheckpointAssumption DEF TripEnds, NoTrip
  <2>3. QED
    BY <2>1, <2>2, StuckMeans
<1>6. ASSUME NEW r \in Riders, GiveUp(r)
      PROVE  NobodyStuck'
  <2>0. /\ trip[r].phase \in {"none", "sent", "admitted", "open", "offered"}
        /\ trip[r].phase # "offered" => trip[r].driver = NoDriver
    BY <1>6 DEF GiveUp, TripsInOrder, TripInOrder, Running, Phases
  <2>1. \A q \in Riders \ {r} : trip'[q] = trip[q] /\ rider'[q] = rider[q]
    BY <1>6 DEF GiveUp
  <2>2. trip'[r].driver = trip[r].driver
    BY <1>6, <2>0 DEF GiveUp, NoTrip
  <2>3. DriversDrive'
    BY <1>0, <1>6, <2>0, <2>1, <2>2 DEF GiveUp
  <2>4. RidersAsk' /\ OffersReserve'
    BY <1>0, <1>6, <2>1, <2>2 DEF GiveUp
  <2>5. QED
    BY <2>3, <2>4, StuckMeans
<1>7. ASSUME NEW r \in Riders, AdmitRequest(r) \/ RegisterTrip(r) \/ SendOffer(r), UNCHANGED agents
      PROVE  NobodyStuck'
  <2>1. trip[r].phase \in {"sent", "admitted", "open"} /\ trip[r].driver = NoDriver
    BY <1>7 DEF AdmitRequest, RegisterTrip, SendOffer, TripsInOrder, TripInOrder
  <2>2. \A q \in Riders \ {r} : trip'[q] = trip[q]
    BY <1>7 DEF AdmitRequest, RegisterTrip, SendOffer
  <2>3. DriversDrive' /\ RidersAsk'
    <3>1. UNCHANGED <<driver, rider, asking>>
      BY <1>7 DEF AdmitRequest, RegisterTrip, SendOffer, agents
    <3>2. ASSUME NEW d \in Drivers, driver[d].trip = r PROVE FALSE
      <4>1. r # NoRider
        BY CheckpointAssumption
      <4>2. Drives(d, r)
        BY <1>0, <3>2, <4>1
      <4>3. QED
        BY <2>1, <4>2, CheckpointAssumption
    <3>3. QED
      BY <1>0, <1>a, <2>2, <3>1, <3>2
  <2>4. OffersReserve'
    <3>1. ASSUME NEW d \in reserved PROVE \E q \in Riders \ {r} : trip[q].driver = d
      <4>1. PICK q \in Riders : trip[q].driver = d
        BY <1>0
      <4>2. q # r
        BY <2>1, <4>1, CheckpointAssumption
      <4>3. QED
        BY <4>1, <4>2
    <3>2. \A d \in reserved' \ reserved : trip'[r].driver = d
      BY <1>7 DEF AdmitRequest, RegisterTrip, SendOffer
    <3>3. QED
      BY <2>2, <3>1, <3>2
  <2>5. QED
    BY <2>3, <2>4, StuckMeans
<1>8. CASE DrainTimesOut
  <2>1. DriversDrive' /\ RidersAsk' /\ OffersReserve'
    BY <1>0, <1>8 DEF DrainTimesOut, Active
  <2>2. QED
    BY <2>1, StuckMeans
<1>9. QED
  BY <1>1, <1>2, <1>3, <1>4, <1>5, <1>6, <1>7, <1>8 DEF World, EventLoop

\* A process that begins, or a world that was reset, has nobody in it.
LEMMA EmptyIsWhole ==
  ASSUME Emptied
  PROVE  /\ TripsInOrder' /\ NobodyStuck'
         /\ \A r \in Riders : trip'[r] = NoTrip
         /\ asking' = {}
<1>1. /\ \A r \in Riders : trip'[r] = NoTrip /\ rider'[r] = "absent"
      /\ \A d \in Drivers : driver'[d].trip = NoRider
      /\ asking' = {} /\ reserved' = {}
  BY DEF Emptied, NoAgents, Absent
<1>2. TripsInOrder'
  BY <1>1 DEF TripsInOrder, TripInOrder, NoTrip, Running
<1>3. DriversDrive' /\ RidersAsk' /\ OffersReserve'
  BY <1>1 DEF DriversDrive, RidersAsk, OffersReserve
<1>4. QED
  BY <1>1, <1>2, <1>3, StuckMeans

\* Agents do not vanish.
LEMMA AgentsStay ==
  ASSUME WorldType, (World \/ \E r \in Riders : Request(r)) \/ EventLoop \/ DrainTimesOut
  PROVE  /\ NoDrivers(driver') => NoDrivers(driver)
         /\ NoRiders(rider') => NoRiders(rider)
<1> USE DEF NoDrivers, NoRiders
<1>a. \A A \in Agents, d \in Drivers :
        /\ A = [e \in Drivers |-> A[e]]
        /\ A[d] = [status |-> A[d].status, trip |-> A[d].trip]
  BY DEF Agents
<1>1. ASSUME NEW d \in Drivers, SpawnDriver(d) \/ GoOnline(d) \/ GoOffline(d) \/ ArriveHome(d)
      PROVE  ~NoDrivers(driver') /\ rider' = rider
  <2>1. PICK s \in {"offline", "available"} : driver' = [driver EXCEPT ![d].status = s]
    BY <1>1 DEF SpawnDriver, GoOnline, GoOffline, ArriveHome
  <2>2. driver'[d].status = s
    <3>1. driver \in [Drivers -> [status : DriverStatus, trip : Riders \cup {NoRider}]]
      BY DEF WorldType, Agents
    <3>2. QED
      BY <2>1, <3>1
  <2>3. QED
    BY <1>1, <2>2 DEF SpawnDriver, GoOnline, GoOffline, ArriveHome
<1>2. ASSUME NEW r \in Riders, SpawnRider(r) \/ Request(r) \/ PickUp(r) \/ GiveUp(r)
      PROVE  ~NoRiders(rider') /\ driver' = driver
  BY <1>2 DEF SpawnRider, Request, PickUp, GiveUp, WorldType, Statuses
<1>3. ASSUME NEW r \in Riders, OfferEnds(r) \/ AdmitRequest(r) \/ RegisterTrip(r) \/ SendOffer(r),
             UNCHANGED agents
      PROVE  rider' = rider /\ driver' = driver
  BY <1>3 DEF agents
<1>4. ASSUME NEW r \in Riders, Accept(r)
      PROVE  ~NoRiders(rider') /\ (NoDrivers(driver') => NoDrivers(driver))
  <2>1. ~NoRiders(rider')
    BY <1>4 DEF Accept, WorldType, Statuses
  <2>2. driver' = [driver EXCEPT ![trip[r].driver] = [status |-> "busy", trip |-> r]]
    BY <1>4 DEF Accept
  <2>3. NoDrivers(driver') => NoDrivers(driver)
    <3>1. CASE trip[r].driver \in Drivers
      BY <2>2, <3>1, <1>a DEF WorldType
    <3>2. CASE trip[r].driver \notin Drivers
      BY <2>2, <3>2, <1>a DEF WorldType
    <3>3. QED
      BY <3>1, <3>2
  <2>4. QED
    BY <2>1, <2>3
<1>5. ASSUME NEW r \in Riders, TripEnds(r)
      PROVE  ~NoRiders(rider') /\ (NoDrivers(driver') => NoDrivers(driver))
  <2>1. ~NoRiders(rider')
    BY <1>5 DEF TripEnds, WorldType, Statuses
  <2>2. \/ driver' = driver
        \/ \E s \in {"homing", "available"} :
              driver' = [driver EXCEPT ![trip[r].driver] = [status |-> s, trip |-> NoRider]]
    BY <1>5 DEF TripEnds
  <2>3. NoDrivers(driver') => NoDrivers(driver)
    <3>1. CASE driver' = driver
      BY <3>1
    <3>2. ASSUME NEW s \in {"homing", "available"},
                 driver' = [driver EXCEPT ![trip[r].driver] = [status |-> s, trip |-> NoRider]]
          PROVE  NoDrivers(driver') => NoDrivers(driver)
      <4>1. CASE trip[r].driver \in Drivers
        BY <3>2, <4>1, <1>a DEF WorldType
      <4>2. CASE trip[r].driver \notin Drivers
        BY <3>2, <4>2, <1>a DEF WorldType
      <4>3. QED
        BY <4>1, <4>2
    <3>3. QED
      BY <2>2, <3>1, <3>2
  <2>4. QED
    BY <2>1, <2>3
<1>6. ASSUME DrainTimesOut
      PROVE  rider' = rider /\ (NoDrivers(driver') => NoDrivers(driver))
  <2>1. rider' = rider
    BY <1>6 DEF DrainTimesOut
  <2>2. ASSUME NEW d \in Drivers, driver'[d].status = "absent" PROVE driver[d].status = "absent"
    <3>1. CASE d \in Homing
      <4>1. driver'[d] = [driver[d] EXCEPT !.status = "available"]
        BY <1>6, <3>1 DEF DrainTimesOut
      <4>2. driver'[d].status = "available"
        BY <4>1, <1>a DEF WorldType
      <4>3. QED
        BY <2>2, <4>2
    <3>2. CASE d \notin Homing
      BY <1>6, <2>2, <3>2 DEF DrainTimesOut
    <3>3. QED
      BY <3>1, <3>2
  <2>3. QED
    BY <2>1, <2>2
<1>7. QED
  <2>1. CASE World
    <3>1. CASE \E d \in Drivers : SpawnDriver(d) \/ GoOnline(d) \/ GoOffline(d) \/ ArriveHome(d)
      BY <1>1, <3>1
    <3>2. CASE \E r \in Riders : SpawnRider(r) \/ OfferEnds(r) \/ Accept(r) \/ PickUp(r) \/ TripEnds(r) \/ GiveUp(r)
      BY <1>2, <1>3, <1>4, <1>5, <3>2 DEF OfferEnds
    <3>3. QED
      BY <2>1, <3>1, <3>2 DEF World
  <2>2. CASE EventLoop
    BY <1>3, <2>2 DEF EventLoop
  <2>3. QED
    BY <1>2, <1>6, <2>1, <2>2

\* Without a trip or a request the event loop has nothing to do.
LEMMA NothingToDo == NothingGoesOn => ~EventLoop
  BY DEF NothingGoesOn, EventLoop, AdmitRequest, RegisterTrip, SendOffer

\* A pause that comes by itself, with nothing unseen: nothing goes on.
LEMMA QuietMeans ==
  ASSUME WorldType, Unseen = {}, Active = {} \/ (InFlight = {} /\ Forced = {})
  PROVE  NothingGoesOn
<1>1. Active = {}
  BY DEF InFlight, Forced, Active
<1>2. ASSUME NEW r \in Riders
      PROVE  trip[r].phase = "none" /\ rider[r] # "requesting"
  <2>1. /\ r \notin Active /\ rider[r] # "requesting"
        /\ trip[r].phase \notin {"sent", "admitted", "void"}
    BY <1>1 DEF Unseen
  <2>2. trip[r].phase \in Phases
    BY DEF WorldType
  <2>3. QED
    BY <2>1, <2>2 DEF Active, Phases
<1>3. QED
  BY <1>2 DEF NothingGoesOn

LEMMA NoFlaws ==
  ASSUME Flaws = {}
  PROVE  Unseen = {} /\ Forced = {} /\ NobodyStuck
  BY DEF Flaws

\* In a world where nothing goes on and nobody is stuck, all are free.
LEMMA FreeWorld ==
  ASSUME WorldType, TripsInOrder, NobodyStuck, NothingGoesOn
  PROVE  /\ \A d \in Drivers : driver[d].trip = NoRider
         /\ \A r \in Riders : rider[r] \in {"absent", "idle"}
         /\ reserved = {}
<1>1. DriversDrive /\ RidersAsk /\ OffersReserve
  BY StuckMeans
<1>2. ASSUME NEW d \in Drivers PROVE driver[d].trip = NoRider
  <2>1. driver[d].trip \in Riders \cup {NoRider}
    BY DEF WorldType, Agents
  <2>2. QED
    BY <1>1, <2>1 DEF DriversDrive, Drives, NothingGoesOn
<1>3. ASSUME NEW r \in Riders PROVE rider[r] \in {"absent", "idle"}
  BY <1>1 DEF RidersAsk, TripsInOrder, TripInOrder, NothingGoesOn
<1>4. ASSUME NEW d \in reserved PROVE FALSE
  <2>1. PICK r \in Riders : trip[r].driver = d
    BY <1>1 DEF OffersReserve
  <2>2. QED
    BY <2>1, CheckpointAssumption DEF TripsInOrder, TripInOrder, NothingGoesOn, WorldType
<1>5. QED
  BY <1>2, <1>3, <1>4

--------------------------------------------------------------------------------
(* What a save knows, step by step *)

\* What another thread changes tears every save that is under way.
LEMMA TornSaves ==
  ASSUME SavingType, Tear
  PROVE  \A s \in Savers : \/ save'[s].at = "idle"
                           \/ "torn" \in save'[s].flaws
  BY DEF SavingType, Tear, SaveType

LEMMA SaveBegins ==
  ASSUME TypeOK, CInv, NEW s \in Savers, NEW why \in Triggers, BeginSave(s, why),
         why = "quiescence_achieved" => Quiet,
         UNCHANGED <<driver, rider, trip, reserved, asking>>
  PROVE  ReadIsCurrent' /\ CleanSave'
<1>1. /\ save'[s].at = "riders" /\ save'[s].trigger = why /\ save'[s].drivers = driver
      /\ save'[s].flaws = Flaws
      /\ \A t \in Savers \ {s} : save'[t] = save[t]
  <2>1. save \in [Savers -> SaveType]
    BY DEF TypeOK, SaveType
  <2>2. QED
    BY <2>1 DEF BeginSave, NothingRead
<1>2. ReadIsCurrent'
  BY <1>1 DEF CInv, ReadIsCurrent
<1>3. Flaws = {} => NobodyStuck /\ (why = "quiescence_achieved" => NothingGoesOn /\ Homing = {})
  BY NoFlaws, QuietMeans, TypeSplit DEF Quiet
<1>4. (NobodyStuck <=> NobodyStuck') /\ (NothingGoesOn <=> NothingGoesOn') /\ Homing' = Homing
  BY DEF NobodyStuck, StuckDrivers, StuckRiders, StuckReservations, Drives, NothingGoesOn, Homing
<1>5. CleanSave'
  BY <1>1, <1>3, <1>4 DEF CInv, CleanSave
<1>6. QED
  BY <1>2, <1>5

LEMMA SaveReads ==
  ASSUME TypeOK, CInv, NEW s \in Savers, Saving(s),
         UNCHANGED <<driver, rider, trip, reserved, asking>>
  PROVE  ReadIsCurrent' /\ CleanSave'
<1>0. save \in [Savers -> SaveType]
  BY DEF TypeOK, SaveType
<1>1. (NobodyStuck <=> NobodyStuck') /\ (NothingGoesOn <=> NothingGoesOn') /\ Homing' = Homing
  BY DEF NobodyStuck, StuckDrivers, StuckRiders, StuckReservations, Drives, NothingGoesOn, Homing
<1>2. CASE ReadRiders(s)
  <2>1. /\ save[s].at = "riders" /\ save'[s].at = "count" /\ save'[s].riders = rider
        /\ save'[s].drivers = save[s].drivers /\ save'[s].trigger = save[s].trigger
        /\ save'[s].flaws = save[s].flaws \cup Flaws
        /\ \A t \in Savers \ {s} : save'[t] = save[t]
    BY <1>0, <1>2 DEF ReadRiders, SaveType
  <2>2. QED
    BY <1>1, <2>1 DEF CInv, ReadIsCurrent, CleanSave
<1>3. CASE ReadCount(s)
  <2>1. /\ save[s].at = "count" /\ save'[s].at = "write"
        /\ save'[s].kind = IF InFlight = {} THEN "graceful" ELSE "crash"
        /\ save'[s].drivers = save[s].drivers /\ save'[s].trigger = save[s].trigger
        /\ save'[s].riders = save[s].riders
        /\ save'[s].flaws = save[s].flaws \cup Flaws
        /\ \A t \in Savers \ {s} : save'[t] = save[t]
    BY <1>0, <1>3 DEF ReadCount, SaveType
  <2>2. ReadIsCurrent'
    BY <2>1 DEF CInv, ReadIsCurrent
  <2>3. Flaws = {} /\ InFlight = {} => NothingGoesOn
    BY NoFlaws, QuietMeans, TypeSplit
  <2>4. NothingGoesOn => InFlight = {}
    BY DEF NothingGoesOn, InFlight, Active
  <2>5. CleanSave'
    BY <1>1, <2>1, <2>3, <2>4 DEF CInv, CleanSave
  <2>6. QED
    BY <2>2, <2>5
<1>4. QED
  BY <1>2, <1>3 DEF Saving

\* What is written tells the truth of the world it was read from.
LEMMA WrittenIsTrue ==
  ASSUME TypeOK, CInv, NEW s \in Savers, Written(s), up # "down"
  PROVE  /\ CleanStore'
         /\ UNCHANGED <<up, driver, rider>> => StoreIsPopulated'
<1>0. save[s] \in SaveType /\ save[s].at = "write"
  BY DEF TypeOK, SaveType, Written
<1>1. CASE saved' = saved
  BY <1>1 DEF CInv, CleanStore, StoreIsPopulated, NoDrivers, NoRiders, Whole
<1>2. CASE saved' = Stored(s)
  <2> DEFINE old == IF Storage = "s3" \/ saved = NoCheckpoint THEN NothingRead ELSE saved
  <2>1. /\ saved'.trigger = save[s].trigger /\ saved'.kind = save[s].kind
        /\ saved'.reserved = reserved
        /\ save[s].flaws \subseteq saved'.flaws
        /\ NoDrivers(save[s].drivers) \/ NoRiders(save[s].riders) => old.flaws \subseteq saved'.flaws
        /\ saved'.drivers = IF NoDrivers(save[s].drivers) THEN old.drivers ELSE save[s].drivers
        /\ saved'.riders = IF NoRiders(save[s].riders) THEN old.riders ELSE save[s].riders
    BY <1>2 DEF Stored
  <2>2. "torn" \notin save[s].flaws => save[s].drivers = driver /\ save[s].riders = rider
    BY <1>0 DEF CInv, ReadIsCurrent
  <2>3. "torn" \notin old.flaws => /\ NoDrivers(driver) => NoDrivers(old.drivers)
                                   /\ NoRiders(rider) => NoRiders(old.riders)
    <3>1. CASE Storage = "s3" \/ saved = NoCheckpoint
      BY <3>1 DEF NothingRead, NoAgents, Absent, NoDrivers, NoRiders
    <3>2. CASE ~(Storage = "s3" \/ saved = NoCheckpoint)
      <4>1. Storage = "sqlite"
        BY <3>2, CheckpointAssumption
      <4>2. QED
        BY <3>2, <4>1 DEF CInv, StoreIsPopulated
    <3>3. QED
      BY <3>1, <3>2
  <2>4. "torn" \notin saved'.flaws => /\ NoDrivers(driver) => NoDrivers(saved'.drivers)
                                      /\ NoRiders(rider) => NoRiders(saved'.riders)
    BY <2>1, <2>2, <2>3
  <2>5. UNCHANGED <<up, driver, rider>> => StoreIsPopulated'
    <3>1. ASSUME UNCHANGED <<driver, rider>>, "torn" \notin saved'.flaws
          PROVE  /\ NoDrivers(driver)' => NoDrivers(saved.drivers)'
                 /\ NoRiders(rider)' => NoRiders(saved.riders)'
      BY <2>4, <3>1 DEF NoDrivers, NoRiders
    <3>2. QED
      BY <3>1 DEF StoreIsPopulated
  <2>6. ASSUME saved'.flaws = {}
        PROVE  /\ saved'.kind = "graceful" => Whole(saved')
               /\ saved'.trigger = "quiescence_achieved" =>
                    /\ saved'.kind = "graceful"
                    /\ \A d \in Drivers : saved'.drivers[d].status # "homing"
    <3>1. save[s].flaws = {} /\ save[s].drivers = driver /\ save[s].riders = rider
      BY <2>1, <2>2, <2>6
    <3>2. /\ NobodyStuck
          /\ save[s].trigger = "quiescence_achieved" => Homing = {} /\ save[s].kind = "graceful"
          /\ save[s].kind = "graceful" => NothingGoesOn
      BY <1>0, <3>1 DEF CInv, CleanSave
    <3>3. /\ NoDrivers(driver) => NoDrivers(saved'.drivers)
          /\ NoRiders(rider) => NoRiders(saved'.riders)
          /\ ~NoDrivers(driver) => saved'.drivers = driver
          /\ ~NoRiders(rider) => saved'.riders = rider
      <4>1. "torn" \notin saved'.flaws
        BY <2>6
      <4>2. /\ NoDrivers(driver) => NoDrivers(saved'.drivers)
            /\ NoRiders(rider) => NoRiders(saved'.riders)
        BY <2>4, <4>1
      <4>3. ~NoDrivers(driver) => saved'.drivers = driver
        BY <2>1, <3>1
      <4>4. ~NoRiders(rider) => saved'.riders = rider
        BY <2>1, <3>1
      <4>5. QED
        BY <4>2, <4>3, <4>4
    <3>4. saved'.drivers \in Agents
      <4>1. old.drivers \in Agents
        BY NobodyTypes DEF TypeOK, Checkpoint, SaveType
      <4>2. QED
        BY <1>0, <2>1, <4>1 DEF SaveType
    <3>5. NoDrivers(saved'.drivers) => \A d \in Drivers : /\ saved'.drivers[d].trip = NoRider
                                                         /\ saved'.drivers[d].status # "homing"
      BY <3>4 DEF Agents, NoDrivers
    <3>6. ASSUME saved'.kind = "graceful" PROVE Whole(saved')
      <4>1. /\ \A d \in Drivers : driver[d].trip = NoRider
            /\ \A r \in Riders : rider[r] \in {"absent", "idle"}
            /\ reserved = {}
        BY <2>1, <3>2, <3>6, FreeWorld, TypeSplit DEF CInv
      <4>2. \A d \in Drivers : saved'.drivers[d].trip = NoRider
        BY <3>3, <3>5, <4>1
      <4>3. \A r \in Riders : saved'.riders[r] \in {"absent", "idle"}
        BY <3>3, <4>1 DEF NoRiders
      <4>4. QED
        BY <2>1, <4>1, <4>2, <4>3 DEF Whole
    <3>7. ASSUME saved'.trigger = "quiescence_achieved"
          PROVE  /\ saved'.kind = "graceful"
                 /\ \A d \in Drivers : saved'.drivers[d].status # "homing"
      BY <2>1, <3>2, <3>3, <3>5, <3>7 DEF Homing
    <3>8. QED
      BY <3>6, <3>7
  <2>7. CleanStore'
    BY <2>6 DEF CleanStore
  <2>8. QED
    BY <2>5, <2>7
<1>3. QED
  BY <1>1, <1>2 DEF Written

--------------------------------------------------------------------------------
(* The invariant, step by step *)

\* A step of the world, by the SimPy thread or the event loop.
LEMMA WorldKeeps ==
  ASSUME TypeOK, CInv, up # "down",
         (World \/ \E r \in Riders : Request(r)) \/ EventLoop \/ DrainTimesOut,
         Tear \/ (EventLoop /\ save' = save),
         UNCHANGED <<up, saved, restored>>
  PROVE  CInv'
<1>0. WorldType /\ SavingType /\ CInv
  BY TypeSplit
<1>1. TripsInOrder' /\ MemoryIsLost'
  BY <1>0, OrderStays DEF CInv, MemoryIsLost
<1>2. NobodyStuck => NobodyStuck'
  BY <1>0, WholeStays DEF CInv
<1>3. CleanStore' /\ CleanWorld'
  BY <1>2 DEF CInv, CleanStore, CleanWorld, Whole
<1>4. StoreIsPopulated'
  <2>1. /\ NoDrivers(driver') => NoDrivers(driver)
        /\ NoRiders(rider') => NoRiders(rider)
    BY <1>0, AgentsStay
  <2>2. /\ NoDrivers(driver)' => NoDrivers(driver)
        /\ NoRiders(rider)' => NoRiders(rider)
    BY <2>1 DEF NoDrivers, NoRiders
  <2>3. QED
    BY <2>2 DEF CInv, StoreIsPopulated, NoDrivers, NoRiders
<1>5. ReadIsCurrent' /\ CleanSave'
  <2>1. CASE Tear
    <3>1. \A s \in Savers : save'[s].at = "idle" \/ "torn" \in save'[s].flaws
      BY <1>0, <2>1, TornSaves
    <3>2. QED
      BY <3>1 DEF ReadIsCurrent, CleanSave
  <2>2. CASE EventLoop /\ save' = save
    <3>1. UNCHANGED <<driver, rider>> /\ ~NothingGoesOn
      BY <2>2, NothingToDo DEF EventLoop, agents
    <3>2. Homing' = Homing
      BY <3>1 DEF Homing
    <3>3. QED
      BY <1>2, <2>2, <3>1, <3>2 DEF CInv, ReadIsCurrent, CleanSave
  <2>3. QED
    BY <2>1, <2>2
<1>6. QED
  BY <1>1, <1>3, <1>4, <1>5 DEF CInv

\* A step that leaves the world alone, and what is stored.
LEMMA WorldUntouched ==
  ASSUME UNCHANGED <<world, saved, restored>>, CInv
  PROVE  /\ NobodyStuck' <=> NobodyStuck
         /\ TripsInOrder' /\ CleanStore' /\ CleanWorld'
         /\ up # "down" => StoreIsPopulated'
         /\ UNCHANGED save => ReadIsCurrent' /\ CleanSave'
<1>1. UNCHANGED <<driver, rider, trip, reserved, asking>>
  BY DEF world, agents, work
<1>2. (NobodyStuck' <=> NobodyStuck) /\ (NothingGoesOn' <=> NothingGoesOn) /\ Homing' = Homing
  BY <1>1 DEF NobodyStuck, StuckDrivers, StuckRiders, StuckReservations, Drives, NothingGoesOn, Homing
<1>3. TripsInOrder' /\ CleanStore' /\ CleanWorld'
  BY <1>1, <1>2 DEF CInv, TripsInOrder, TripInOrder, CleanStore, CleanWorld, Whole
<1>4. up # "down" => StoreIsPopulated'
  BY <1>1 DEF CInv, StoreIsPopulated, NoDrivers, NoRiders
<1>5. UNCHANGED save => ReadIsCurrent' /\ CleanSave'
  BY <1>1, <1>2 DEF CInv, ReadIsCurrent, CleanSave
<1>6. QED
  BY <1>2, <1>3, <1>4, <1>5

\* The world of the next process is the one in the store.
LEMMA RestartKeeps ==
  ASSUME TypeOK, CInv, Restart
  PROVE  CInv'
<1>1. /\ up = "down" /\ up' = "up"
      /\ \A r \in Riders : trip'[r] = NoTrip
      /\ asking' = {}
      /\ \A s \in Savers : save'[s].at = "idle"
      /\ saved' = saved
  BY DEF Restart, CInv, MemoryIsLost
<1>2. TripsInOrder' /\ MemoryIsLost' /\ ReadIsCurrent' /\ CleanSave'
  BY <1>1 DEF TripsInOrder, TripInOrder, MemoryIsLost, ReadIsCurrent, CleanSave, NoTrip, Running
<1>3. CleanStore'
  BY <1>1 DEF CInv, CleanStore, Whole
<1>4. CASE saved = NoCheckpoint
  <2>1. restored' = NoCheckpoint
    BY <1>4 DEF Restart
  <2>2. QED
    BY <1>1, <1>2, <1>3, <1>4, <2>1 DEF CInv, StoreIsPopulated, CleanWorld
<1>5. CASE saved # NoCheckpoint
  <2>1. /\ restored' = [kind |-> saved.kind, flaws |-> saved.flaws]
        /\ Restore(saved)
    BY <1>5 DEF Restart
  <2>2. Cancelled(saved) = {}
    BY DEF Cancelled, StoredTrips
  <2>3. /\ \A d \in Drivers : driver'[d] = saved.drivers[d]
        /\ \A r \in Riders : rider'[r] = saved.riders[r]
        /\ reserved' = saved.reserved
    BY <2>1, <2>2 DEF Restore
  <2>4. StoreIsPopulated'
    BY <1>1, <2>3 DEF StoreIsPopulated, NoDrivers, NoRiders
  <2>5. ASSUME Whole(saved) PROVE NobodyStuck'
    <3>1. DriversDrive' /\ RidersAsk' /\ OffersReserve'
      BY <2>3, <2>5 DEF DriversDrive, RidersAsk, OffersReserve, Whole
    <3>2. QED
      BY <3>1, StuckMeans
  <2>6. CleanWorld'
    BY <1>5, <2>1, <2>5 DEF CInv, CleanStore, CleanWorld
  <2>7. QED
    BY <1>2, <1>3, <2>4, <2>6 DEF CInv
<1>6. QED
  BY <1>4, <1>5

\* The process ends: the world is gone, and only the store matters.
LEMMA DeathKeeps ==
  ASSUME Dies, CleanStore'
  PROVE  CInv'
<1>1. /\ up' = "down" /\ restored' = NoCheckpoint /\ Emptied
      /\ \A s \in Savers : save'[s].at = "idle"
  BY DEF Dies, Emptied, NothingRead
<1>2. TripsInOrder' /\ MemoryIsLost'
  BY <1>1, EmptyIsWhole DEF MemoryIsLost
<1>3. QED
  BY <1>1, <1>2 DEF CInv, ReadIsCurrent, CleanSave, StoreIsPopulated, CleanWorld

LEMMA CInvStep ==
  ASSUME TypeOK, CInv, [Next]_vars
  PROVE  CInv'
<1>0. WorldType /\ SavingType
  BY TypeSplit
<1>1. CASE EventLoop
  BY <1>1, WorldKeeps DEF EventLoop, store
<1>2. CASE SimPy
  <2>0. up # "down"
    BY <1>2 DEF SimPy
  <2>1. CASE SimPyStep
    BY <2>0, <2>1, WorldKeeps DEF SimPyStep, store
  <2>2. CASE DrainTimesOut
    BY <2>0, <2>2, WorldKeeps DEF DrainTimesOut, store
  <2>3. CASE Periodic \/ Quiesce \/ PauseAfterTimeout
    <3>1. PICK why \in Triggers : /\ BeginSave("sim", why)
                                  /\ why = "quiescence_achieved" => Quiet
      BY <2>3 DEF Periodic, Quiesce, PauseAfterTimeout, Paused, Triggers
    <3>2. UNCHANGED <<up, world, saved, restored>>
      BY <2>3 DEF Periodic, Quiesce, PauseAfterTimeout, Paused
    <3>3. TripsInOrder' /\ CleanStore' /\ CleanWorld' /\ StoreIsPopulated' /\ MemoryIsLost'
      BY <2>0, <3>2, WorldUntouched DEF MemoryIsLost
    <3>4. ReadIsCurrent' /\ CleanSave'
      BY <3>1, <3>2, SaveBegins DEF Savers, world, agents, work
    <3>5. QED
      BY <3>3, <3>4 DEF CInv
  <2>4. CASE SimPySaves
    <3>1. CASE Saving("sim") /\ UNCHANGED <<up, world, store>>
      <4>1. TripsInOrder' /\ CleanStore' /\ CleanWorld' /\ StoreIsPopulated' /\ MemoryIsLost'
        BY <2>0, <3>1, WorldUntouched DEF MemoryIsLost, store
      <4>2. ReadIsCurrent' /\ CleanSave'
        BY <3>1, SaveReads DEF Savers, world, agents, work
      <4>3. QED
        BY <4>1, <4>2 DEF CInv
    <3>2. CASE /\ Written("sim") /\ save' = [save EXCEPT !["sim"] = NothingRead]
               /\ UNCHANGED <<up, world, restored>>
      <4>1. UNCHANGED <<driver, rider, trip, reserved, asking>>
        BY <3>2 DEF world, agents, work
      <4>2. CleanStore' /\ StoreIsPopulated'
        BY <2>0, <3>2, <4>1, WrittenIsTrue DEF Savers
      <4>3. /\ NobodyStuck' <=> NobodyStuck
            /\ NothingGoesOn' <=> NothingGoesOn
            /\ Homing' = Homing
        BY <4>1 DEF NobodyStuck, StuckDrivers, StuckRiders, StuckReservations, Drives, NothingGoesOn, Homing
      <4>4. \A s \in Savers : save'[s].at = "idle" \/ save'[s] = save[s]
        BY <1>0, <3>2 DEF SavingType, NothingRead
      <4>5. ReadIsCurrent' /\ CleanSave'
        BY <4>1, <4>3, <4>4 DEF CInv, ReadIsCurrent, CleanSave
      <4>6. TripsInOrder' /\ MemoryIsLost' /\ CleanWorld'
        BY <2>0, <3>2, <4>1, <4>3 DEF CInv, TripsInOrder, TripInOrder, MemoryIsLost, CleanWorld
      <4>7. QED
        BY <4>2, <4>5, <4>6 DEF CInv
    <3>3. QED
      BY <2>4, <3>1, <3>2 DEF SimPySaves
  <2>5. QED
    BY <1>2, <2>1, <2>2, <2>3, <2>4 DEF SimPy
<1>3. CASE Control \/ Terminate \/ StepEnds \/ UNCHANGED vars
  <2>1. UNCHANGED <<world, saved, restored, save>> /\ (up' = "down" <=> up = "down")
    BY <1>3 DEF Control, Terminate, StepEnds, vars, store
  <2>2. MemoryIsLost' /\ (up = "down" => StoreIsPopulated')
    BY <2>1 DEF CInv, MemoryIsLost, StoreIsPopulated, world, work
  <2>3. QED
    BY <2>1, <2>2, WorldUntouched DEF CInv
<1>4. CASE Reset
  <2>1. up = "up" /\ up' = up /\ Tear /\ Emptied /\ restored' = NoCheckpoint
    BY <1>4 DEF Reset, Emptied
  <2>2. saved' = NoCheckpoint \/ (Storage # "sqlite" /\ saved' = saved)
    BY <1>4 DEF Reset, Cleared
  <2>3. TripsInOrder' /\ MemoryIsLost' /\ CleanWorld'
    BY <2>1, EmptyIsWhole DEF MemoryIsLost, CleanWorld
  <2>4. ReadIsCurrent' /\ CleanSave'
    <3>1. \A s \in Savers : save'[s].at = "idle" \/ "torn" \in save'[s].flaws
      BY <1>0, <2>1, TornSaves
    <3>2. QED
      BY <3>1 DEF ReadIsCurrent, CleanSave
  <2>5. CleanStore' /\ StoreIsPopulated'
    BY <2>2 DEF CInv, CleanStore, StoreIsPopulated, Whole
  <2>6. QED
    BY <2>3, <2>4, <2>5 DEF CInv
<1>5. CASE ShutdownSave
  <2>0. up = "stopping"
    BY <1>5 DEF ShutdownSave
  <2>1. CASE BeginSave("main", "shutdown") /\ UNCHANGED <<up, world, saved, restored>>
    <3>1. TripsInOrder' /\ CleanStore' /\ CleanWorld' /\ StoreIsPopulated' /\ MemoryIsLost'
      BY <2>0, <2>1, WorldUntouched DEF MemoryIsLost
    <3>2. ReadIsCurrent' /\ CleanSave'
      BY <2>1, SaveBegins DEF Savers, Triggers, world, agents, work
    <3>3. QED
      BY <3>1, <3>2 DEF CInv
  <2>2. CASE Saving("main") /\ UNCHANGED <<up, world, saved, restored>>
    <3>1. TripsInOrder' /\ CleanStore' /\ CleanWorld' /\ StoreIsPopulated' /\ MemoryIsLost'
      BY <2>0, <2>2, WorldUntouched DEF MemoryIsLost
    <3>2. ReadIsCurrent' /\ CleanSave'
      BY <2>2, SaveReads DEF Savers, world, agents, work
    <3>3. QED
      BY <3>1, <3>2 DEF CInv
  <2>3. CASE Written("main") /\ Dies
    BY <2>0, <2>3, WrittenIsTrue, DeathKeeps DEF Savers
  <2>4. QED
    BY <1>5, <2>1, <2>2, <2>3 DEF ShutdownSave
<1>6. CASE Crash
  <2>1. Dies /\ CleanStore'
    BY <1>6 DEF Crash, CInv, CleanStore, Whole
  <2>2. QED
    BY <2>1, DeathKeeps
<1>7. CASE Restart
  BY <1>7, RestartKeeps
<1>8. QED
  BY <1>1, <1>2, <1>3, <1>4, <1>5, <1>6, <1>7 DEF Next, Process

LEMMA CInvInit == Init => CInv
<1> SUFFICES ASSUME Init PROVE CInv
  OBVIOUS
<1>1. /\ \A r \in Riders : trip[r] = NoTrip /\ rider[r] = "absent"
      /\ asking = {} /\ up = "up"
      /\ \A s \in Savers : save[s].at = "idle"
      /\ saved = NoCheckpoint /\ restored = NoCheckpoint
  BY DEF Init, NoAgents, NothingRead
<1>2. TripsInOrder /\ MemoryIsLost
  BY <1>1 DEF TripsInOrder, TripInOrder, MemoryIsLost, NoTrip, Running
<1>3. QED
  BY <1>1, <1>2 DEF CInv, ReadIsCurrent, CleanSave, CleanStore, StoreIsPopulated, CleanWorld

LEMMA CInvAlways == Spec => []CInv
<1>1. QED
  BY CInvInit, CInvStep, CheckpointTypes, PTL DEF Spec

\* A world that came from a graceful checkpoint in which nothing was amiss has
\* nobody who waits for what died with the process before: not when it is
\* restored, and not later.
THEOREM GracefulRestores == Spec => []GracefulRestoresAll
<1>1. CInv => GracefulRestoresAll
  BY DEF CInv, CleanWorld, GracefulRestoresAll
<1>2. QED
  BY <1>1, CInvAlways, PTL

\* A pause that comes by itself leaves a checkpoint that loses nothing.
THEOREM PauseRestores == Spec => []PauseRestoresAll
<1>1. CInv => PauseRestoresAll
  BY DEF CInv, CleanStore, Whole, PauseRestoresAll
<1>2. QED
  BY <1>1, CInvAlways, PTL
================================================================================
