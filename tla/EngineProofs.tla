----------------------------- MODULE EngineProofs ------------------------------
(***************************************************************************)
(* The start, pause, resume, stop and reset of EngineLifecycle lose no     *)
(* agent, start none twice and leave no drain behind, for any number of    *)
(* API threads, agents and trips, but for what overtaken and untidy record. *)
(* The argument: an agent that the loop of a launch has gone past is       *)
(* started or overtaken (PassedIsStarted), a request that overtakes another *)
(* marks what it left in the queue, and whoever draws up a drain is alone  *)
(* and holds the engine in DRAINING, which no other request is about to    *)
(* enter (DrainIsAlone).                                                   *)
(***************************************************************************)
EXTENDS EngineLifecycle, TLAPS

\* A step has chunks left while it is in one.
StepUnderWay == InChunk => left > 0

\* A launch that is past its loop over the registry has started the agents in it,
\* but for those that were registered since.
PassedIsStarted ==
  \A c \in Callers : \A a \in registered :
    pc[c] \in PastLoop(a) => a \in started \cup overtaken

\* There is at most one drain, alive or about to be, and only while DRAINING; then no
\* request is about to draw up another.
DrainIsAlone ==
  ~untidy =>
    /\ drains # {} => state = "draining"
    /\ \A c \in Callers : pc[c] = "drain" => state = "draining" /\ drains = {}
    /\ \A d, e \in drains : d = e
    /\ \A b, c \in Callers : pc[b] = "drain" /\ pc[c] = "drain" => b = c
    /\ \A c \in Callers : pc[c] = "pausing" => state # "draining"

EInv ==
  /\ TypeOK /\ StepUnderWay
  /\ PassedIsStarted /\ NoAgentForgotten
  /\ PendingIsUnstarted
  /\ DrainIsAlone

\* Groups of steps that the proofs treat alike: the looks at the state and the
\* assignments of it, and the SimPy thread's way through a step.
Looks(c)   == CallLaunch(c) \/ CallPause(c) \/ CallStop(c)
Assigns(c) == Launch(c) \/ Pause(c) \/ Stop(c) \/ Reset(c)
Stride     == BeginStep \/ PendingStarted \/ BeginChunk \/ EndChunk \/ EndStep \/ StepRaises

--------------------------------------------------------------------------------
(* Types *)

\* Any step of a request to its next place keeps the places typed.
LEMMA GotoType ==
  ASSUME TypeOK, NEW c \in Callers, NEW label \in Labels, Goto(c, label)
  PROVE  pc' \in [Callers -> Labels]
  BY DEF TypeOK, Goto

\* Registration, by whomever, keeps types.
LEMMA RegistersType ==
  ASSUME TypeOK, NEW a \in Agents, Registers(a)
  PROVE  /\ registered' \subseteq Agents /\ joining' \subseteq Agents
         /\ started' \subseteq Agents /\ overtaken' \subseteq Agents
         /\ pc' \in [Callers -> Labels]
<1>1. registered' \subseteq Agents /\ joining' \subseteq Agents
  BY DEF Registers, TypeOK
<1>2. PICK C \in SUBSET Callers, S \in SUBSET registered :
        /\ Throws(C, S, {KindOf(a)})
        /\ pc' = [c \in Callers |-> IF c \in C THEN "free" ELSE pc[c]]
        /\ overtaken' = (overtaken \ S) \cup Left(C) \cup {b \in {a} : Passed(b)}
  BY DEF Registers
<1>3. started' \subseteq Agents
  BY <1>2 DEF Throws, TypeOK
<1>4. overtaken' \subseteq Agents
  BY <1>2, <1>3 DEF Left, TypeOK
<1>5. pc' \in [Callers -> Labels]
  BY <1>2 DEF TypeOK, Labels
<1> QED
  BY <1>1, <1>3, <1>4, <1>5

\* Every step of every thread keeps types, and a step that has begun has chunks left.
LEMMA TypeStep == TypeOK /\ StepUnderWay /\ [Next]_vars => TypeOK' /\ StepUnderWay'
<1> SUFFICES ASSUME TypeOK, StepUnderWay, [Next]_vars PROVE TypeOK' /\ StepUnderWay'
  OBVIOUS
<1> USE EngineAssumption DEF EngineAssumption
<1> DEFINE Drain == [id : 1..MaxPauses, env : 0..MaxResets, polls : 0..MaxPolls, done : BOOLEAN]
           Trip  == {"none", "scheduled", "admitted", "active", "cancelled", "over"}
           Sim   == {"idle", "starting", "between", "chunk", "enlisting", "spawned", "pausing"}
<1>1. ASSUME NEW c \in Callers, Looks(c) PROVE TypeOK' /\ StepUnderWay'
  <2>1. \E label \in Labels : Goto(c, label)
    BY <1>1 DEF Looks, CallLaunch, CallPause, CallStop, Labels
  <2>2. pc' \in [Callers -> Labels]
    BY <2>1, GotoType
  <2>3. launches' \in 0..MaxLaunches /\ pauses' \in 0..MaxPauses
    BY <1>1 DEF Looks, CallLaunch, CallPause, CallStop, counts, TypeOK
  <2>4. UNCHANGED <<state, env, world, periodic, drains, traffic, runner, flags>>
    BY <1>1 DEF Looks, CallLaunch, CallPause, CallStop
  <2> QED
    BY <2>2, <2>3, <2>4 DEF TypeOK, StepUnderWay, InChunk, world, traffic, runner, step, flags
<1>2. ASSUME NEW c \in Callers, Assigns(c) PROVE TypeOK' /\ StepUnderWay'
  <2>1. \E label \in Labels : Goto(c, label)
    BY <1>2 DEF Assigns, Launch, Pause, Stop, Reset, Labels
  <2>2. pc' \in [Callers -> Labels]
    BY <2>1, GotoType
  <2>3. state' \in {"running", "draining", "stopped"} /\ untidy' \in BOOLEAN /\ crashed' \in BOOLEAN
    <3>1. CASE Launch(c)
      BY <3>1 DEF Launch, Assign, TypeOK
    <3>2. CASE Pause(c)
      BY <3>2 DEF Pause, Assign, TypeOK
    <3>3. CASE Stop(c) \/ Reset(c)
      BY <3>3 DEF Stop, Reset, Assign, TypeOK
    <3> QED
      BY <1>2, <3>1, <3>2, <3>3 DEF Assigns
  <2>4. UNCHANGED <<env, world, periodic, drains, traffic, runner, counts>>
    BY <1>2 DEF Assigns, Launch, Pause, Stop, Reset
  <2> QED
    BY <2>2, <2>3, <2>4 DEF TypeOK, StepUnderWay, InChunk, world, traffic, runner, step, counts
<1>3. ASSUME NEW c \in Callers, LaunchLoop(c) PROVE TypeOK' /\ StepUnderWay'
  <2>1. started' \subseteq Agents /\ overtaken' \subseteq Agents /\ \E label \in Labels : Goto(c, label)
    BY <1>3 DEF LaunchLoop, Launched, TypeOK, Labels
  <2>2. pc' \in [Callers -> Labels]
    BY <2>1, GotoType
  <2> QED
    BY <1>3, <2>1, <2>2 DEF LaunchLoop, TypeOK, StepUnderWay, InChunk, traffic, runner, step, counts, flags
<1>4. ASSUME NEW c \in Callers, ClearPending(c) \/ Empty(c) PROVE TypeOK' /\ StepUnderWay'
  <2>1. pc' \in [Callers -> Labels]
    BY <1>4, GotoType DEF ClearPending, Empty, Labels
  <2>2. pending' = {} /\ periodic' \subseteq 0..MaxResets
    BY <1>4 DEF ClearPending, Empty, TypeOK
  <2>3. UNCHANGED <<state, env, registered, joining, started, overtaken, drains, traffic, runner, counts, flags>>
    BY <1>4 DEF ClearPending, Empty
  <2> QED
    BY <2>1, <2>2, <2>3 DEF TypeOK, StepUnderWay, InChunk, traffic, runner, step, counts, flags
<1>5. ASSUME NEW c \in Callers, StartDrain(c) PROVE TypeOK' /\ StepUnderWay'
  <2>1. PICK i \in 1..pauses :
          drains' = drains \cup {[id |-> i, env |-> env, polls |-> 0, done |-> FALSE]}
    BY <1>5 DEF StartDrain
  <2>2. [id |-> i, env |-> env, polls |-> 0, done |-> FALSE] \in Drain
    BY <2>1 DEF TypeOK
  <2>3. drains' \subseteq Drain
    BY <2>1, <2>2 DEF TypeOK
  <2>4. pc' \in [Callers -> Labels]
    BY <1>5, GotoType DEF StartDrain, Labels
  <2> QED
    BY <1>5, <2>3, <2>4 DEF StartDrain, TypeOK, StepUnderWay, InChunk, world, traffic, runner, step, counts, flags
<1>6. ASSUME NEW c \in Callers, Wipe(c) PROVE TypeOK' /\ StepUnderWay'
  <2>1. PICK C \in SUBSET Callers, S \in SUBSET registered :
          /\ Throws(C, S, {KindOf(a) : a \in registered})
          /\ pc' = [b \in Callers |-> IF b \in C THEN "free" ELSE IF b = c THEN "empty" ELSE pc[b]]
    BY <1>6 DEF Wipe
  <2>2. started' \subseteq Agents /\ pc' \in [Callers -> Labels]
    BY <2>1 DEF Throws, TypeOK, Labels
  <2>3. registered' = {} /\ homing' = {} /\ overtaken' = {}
    BY <1>6 DEF Wipe
  <2> QED
    BY <1>6, <2>2, <2>3 DEF Wipe, TypeOK, StepUnderWay, InChunk, runner, step, counts, flags
<1>7. ASSUME NEW c \in Callers, Renew(c) PROVE TypeOK' /\ StepUnderWay'
  <2>1. pc' \in [Callers -> Labels]
    BY <1>7, GotoType DEF Renew, Labels
  <2>2. trips' \in [Trips -> Trip]
    BY <1>7 DEF Renew, TypeOK
  <2>3. left' \in left..Overshoot
    BY <1>7 DEF Renew, TypeOK
  <2>4. left' \in 0..Overshoot /\ StepUnderWay'
    BY <1>7, <2>3 DEF Renew, TypeOK, StepUnderWay, InChunk
  <2>5. overtaken' \subseteq Agents /\ ghosts' \in BOOLEAN /\ env' \in 0..MaxResets
    BY <1>7 DEF Renew, TypeOK
  <2> QED
    BY <1>7, <2>1, <2>2, <2>4, <2>5 DEF Renew, TypeOK, counts, flags
<1>8. ASSUME NEW a \in Agents, Registers(a), sim' = sim \/ (sim = "chunk" /\ sim' = "enlisting")
      PROVE  TypeOK' /\ StepUnderWay'
  <2>1. UNCHANGED <<state, env, pending, periodic, drains, traffic, step, counts, flags>>
    BY <1>8 DEF Registers
  <2> QED
    BY <1>8, <2>1, RegistersType DEF TypeOK, StepUnderWay, InChunk, traffic, step, counts, flags
<1>9. ASSUME NEW a \in Agents, Enqueues(a), sim' = sim \/ (sim = "enlisting" /\ sim' = "spawned")
      PROVE  TypeOK' /\ StepUnderWay'
  <2>1. joining' \subseteq Agents /\ pending' \subseteq Agents /\ overtaken' \subseteq Agents
    BY <1>9 DEF Enqueues, TypeOK
  <2> QED
    BY <1>9, <2>1 DEF Enqueues, TypeOK, StepUnderWay, InChunk, traffic, step, counts, flags
<1>10. ASSUME NEW a \in Agents, StartPending(a) PROVE TypeOK' /\ StepUnderWay'
  BY <1>10 DEF StartPending, Launched, TypeOK, StepUnderWay, InChunk, traffic, runner, step, counts, flags
<1>11. ASSUME Stride PROVE TypeOK' /\ StepUnderWay'
  <2>1. sim' \in Sim
    BY <1>11 DEF Stride, BeginStep, PendingStarted, BeginChunk, EndChunk, EndStep, StepRaises
  <2>2. left' \in 0..Overshoot
    BY <1>11 DEF Stride, BeginStep, PendingStarted, BeginChunk, EndChunk, EndStep, StepRaises,
                 step, TypeOK, StepUnderWay, InChunk
  <2>3. StepUnderWay'
    BY <1>11 DEF Stride, BeginStep, PendingStarted, BeginChunk, EndChunk, EndStep, StepRaises,
                 step, TypeOK, StepUnderWay, InChunk
  <2>4. runEnv' \in 0..MaxResets /\ ghosts' \in BOOLEAN /\ periodic' \subseteq 0..MaxResets
    BY <1>11 DEF Stride, BeginStep, PendingStarted, BeginChunk, EndChunk, EndStep, StepRaises,
                 step, TypeOK
  <2>5. UNCHANGED <<state, env, world, drains, traffic, pc, counts, flags>>
    BY <1>11 DEF Stride, BeginStep, PendingStarted, BeginChunk, EndChunk, EndStep, StepRaises
  <2> QED
    BY <2>1, <2>2, <2>3, <2>4, <2>5 DEF TypeOK, world, traffic, counts, flags
<1>12. ASSUME Traffic PROVE TypeOK' /\ StepUnderWay'
  <2>1. trips' \in [Trips -> Trip]
    BY <1>12 DEF Traffic, RequestTrip, AdmitRequest, ApiRequest, RegisterTrip, EndTrip, ReachHome, TypeOK
  <2>2. homing' \subseteq Drivers
    BY <1>12 DEF Traffic, RequestTrip, AdmitRequest, ApiRequest, RegisterTrip, EndTrip, ReachHome, TypeOK
  <2>3. UNCHANGED <<state, env, world, periodic, drains, pc, runner, counts, flags>>
    BY <1>12 DEF Traffic, RequestTrip, AdmitRequest, ApiRequest, RegisterTrip, EndTrip, ReachHome
  <2> QED
    BY <2>1, <2>2, <2>3 DEF TypeOK, StepUnderWay, InChunk, world, runner, step, counts, flags
<1>13. ASSUME NEW d \in drains, Poll(d) \/ TransitionToPaused(d) PROVE TypeOK' /\ StepUnderWay'
  <2>1. trips' \in [Trips -> Trip]
    BY <1>13 DEF Poll, DrainQuiesces, DrainWaits, DrainTimesOut, DrainRaises, TransitionToPaused,
                 Cancelled, traffic, TypeOK
  <2>2. drains' \subseteq Drain
    <3>1. CASE DrainWaits(d)
      <4>1. d \in Drain
        BY DEF TypeOK
      <4>2. PICK polls \in 0..MaxPolls : drains' = (drains \ {d}) \cup {[d EXCEPT !.env = env, !.polls = polls]}
        <5>1. d.polls \in Nat /\ d.polls < MaxPolls
          BY <3>1, <4>1 DEF DrainWaits
        <5>2. (IF env = d.env THEN d.polls + 1 ELSE 0) \in 0..MaxPolls
          BY <5>1
        <5> QED
          BY <3>1, <5>2 DEF DrainWaits
      <4>3. [d EXCEPT !.env = env, !.polls = polls] \in Drain
        BY <4>1, <4>2 DEF TypeOK
      <4> QED
        BY <4>2, <4>3 DEF TypeOK
    <3>2. CASE Looked(d)
      <4>1. [d EXCEPT !.done = TRUE] \in Drain
        BY DEF TypeOK
      <4> QED
        BY <3>2, <4>1 DEF Looked, TypeOK
    <3>3. CASE drains' = drains \ {d}
      BY <3>3 DEF TypeOK
    <3> QED
      BY <1>13, <3>1, <3>2, <3>3
         DEF Poll, DrainQuiesces, DrainTimesOut, DrainRaises, TransitionToPaused
  <2>3. state' \in {state, "paused"} /\ homing' \subseteq homing
    BY <1>13 DEF Poll, DrainQuiesces, DrainWaits, DrainTimesOut, DrainRaises, TransitionToPaused, traffic
  <2>4. \/ left' = left /\ InChunk /\ sim' \in {sim, "pausing", "chunk"}
        \/ sim' = "idle" /\ left' = 0
    BY <1>13 DEF Poll, DrainQuiesces, DrainWaits, DrainTimesOut, DrainRaises, TransitionToPaused, Looked,
                 Polls, InChunk, runner, step
  <2>5. untidy' \in BOOLEAN /\ crashed' \in BOOLEAN
    BY <1>13 DEF Poll, DrainQuiesces, DrainWaits, DrainTimesOut, DrainRaises, TransitionToPaused,
                 StillUntidy, flags, TypeOK
  <2>6. UNCHANGED <<env, world, periodic, pc, runEnv, counts>> /\ ghosts' \in BOOLEAN
    BY <1>13 DEF Poll, DrainQuiesces, DrainWaits, DrainTimesOut, DrainRaises, TransitionToPaused,
                 runner, step, TypeOK
  <2> QED
    BY <2>1, <2>2, <2>3, <2>4, <2>5, <2>6 DEF TypeOK, StepUnderWay, InChunk, world, counts
<1>14. ASSUME UNCHANGED vars PROVE TypeOK' /\ StepUnderWay'
  BY <1>14 DEF vars, TypeOK, StepUnderWay, InChunk, world, traffic, runner, step, counts, flags
<1> QED
  BY <1>1, <1>2, <1>3, <1>4, <1>5, <1>6, <1>7, <1>8, <1>9, <1>10, <1>11, <1>12, <1>13, <1>14
     DEF Next, Request, Loop, Looks, Assigns, Stride, CreatePuppet, EnqueuePuppet, Spawn,
         EnqueueSpawned

--------------------------------------------------------------------------------
(* The registries and the queue *)

\* The places past the loop over one registry or over both.
PastOne == {"riders", "clear", "empty"}

\* The steps that leave the registries and the queue alone.
Elsewhere ==
  /\ UNCHANGED world
  /\ \/ pc' = pc
     \/ \E c \in Callers, label \in Labels \ PastOne : pc[c] \notin PastOne /\ Goto(c, label)

\* They change nothing that the invariants speak of.
LEMMA ElsewhereKeeps ==
  ASSUME TypeOK, Elsewhere
  PROVE  /\ UNCHANGED <<registered, joining, pending, started, overtaken>>
         /\ \A a \in Agents, c \in Callers : pc'[c] \in PastLoop(a) <=> pc[c] \in PastLoop(a)
<1>1. CASE pc' = pc
  BY <1>1 DEF Elsewhere, world
<1>2. ASSUME NEW c \in Callers, NEW label \in Labels \ PastOne, pc[c] \notin PastOne, Goto(c, label)
      PROVE  \A a \in Agents, b \in Callers : pc'[b] \in PastLoop(a) <=> pc[b] \in PastLoop(a)
  BY <1>2 DEF Goto, TypeOK, PastLoop, PastOne
<1> QED
  BY <1>1, <1>2 DEF Elsewhere, world

\* Which steps those are.
LEMMA ElsewhereSteps ==
  ASSUME TypeOK, [Next]_vars
  PROVE  \/ Elsewhere
         \/ \E c \in Callers : LaunchLoop(c) \/ ClearPending(c) \/ Wipe(c) \/ Empty(c) \/ Renew(c)
         \/ \E a \in Agents : Registers(a) \/ Enqueues(a) \/ StartPending(a)
<1>1. ASSUME NEW c \in Callers, Looks(c) \/ Assigns(c) \/ StartDrain(c) PROVE Elsewhere
  <2>1. \E label \in Labels \ PastOne : Goto(c, label)
    BY <1>1 DEF Looks, Assigns, CallLaunch, CallPause, CallStop, Launch, Pause, Stop, Reset, StartDrain,
                Labels, PastOne
  <2>2. pc[c] \notin PastOne /\ UNCHANGED world
    BY <1>1 DEF Looks, Assigns, CallLaunch, Start, Resume, CallPause, CallStop, Launch, Pause, Stop, Reset,
                StartDrain, PastOne
  <2> QED
    BY <2>1, <2>2 DEF Elsewhere
<1>2. ASSUME Stride PROVE Elsewhere
  BY <1>2 DEF Stride, BeginStep, PendingStarted, BeginChunk, EndChunk, EndStep, StepRaises, Elsewhere
<1>3. ASSUME Traffic PROVE Elsewhere
  BY <1>3 DEF Traffic, RequestTrip, AdmitRequest, ApiRequest, RegisterTrip, EndTrip, ReachHome, Elsewhere
<1>4. ASSUME NEW d \in drains, Poll(d) \/ TransitionToPaused(d) PROVE Elsewhere
  BY <1>4 DEF Poll, DrainQuiesces, DrainWaits, DrainTimesOut, DrainRaises, TransitionToPaused, Elsewhere
<1>5. ASSUME UNCHANGED vars PROVE Elsewhere
  BY <1>5 DEF vars, Elsewhere
<1> QED
  BY <1>1, <1>2, <1>3, <1>4, <1>5
     DEF Next, Request, Loop, Looks, Assigns, Stride, CreatePuppet, EnqueuePuppet, Spawn,
         EnqueueSpawned

\* What a registration does to the launches: nothing, or some are thrown out of their
\* loops, and then whoever is queued although started is among the overtaken.
LEMMA RegistersMoves ==
  ASSUME TypeOK, NEW a \in Agents, Registers(a)
  PROVE  /\ \A b \in Agents, c \in Callers : pc'[c] \in PastLoop(b) => pc[c] \in PastLoop(b)
         /\ started \subseteq started'
         /\ started \cup overtaken \subseteq started' \cup overtaken'
         /\ \A c \in Callers : pc[c] \in PastLoop(a) => a \in overtaken'
         /\ \/ UNCHANGED <<pc, started>> /\ overtaken \subseteq overtaken'
            \/ pending \cap started' \subseteq overtaken'
<1>1. PICK C \in SUBSET Callers, S \in SUBSET registered :
        /\ Throws(C, S, {KindOf(a)})
        /\ pc' = [c \in Callers |-> IF c \in C THEN "free" ELSE pc[c]]
        /\ overtaken' = (overtaken \ S) \cup Left(C) \cup {b \in {a} : Passed(b)}
  BY DEF Registers
<1>2. started' = started \cup S /\ (C = {} => S = {})
  BY <1>1 DEF Throws
<1>3. \A b \in Agents, c \in Callers : pc'[c] \in PastLoop(b) => pc[c] \in PastLoop(b)
  BY <1>1 DEF PastLoop
<1>4. \A c \in Callers : pc[c] \in PastLoop(a) => a \in overtaken'
  BY <1>1 DEF Passed
<1>5. CASE C = {}
  <2>1. pc' = pc
    BY <1>1, <1>5 DEF TypeOK
  <2> QED
    BY <1>1, <1>2, <1>3, <1>4, <1>5, <2>1
<1>6. CASE C # {}
  <2>1. pending \cap started' \subseteq overtaken'
    BY <1>1, <1>6 DEF Left
  <2> QED
    BY <1>1, <1>2, <1>3, <1>4, <2>1
<1> QED
  BY <1>5, <1>6

\* No agent is lost between the registries, the queue and the processes: a launch is
\* past its loop only over agents that it started or that overtook it.
LEMMA RegistryStep ==
  TypeOK /\ PassedIsStarted /\ NoAgentForgotten /\ [Next]_vars
    => PassedIsStarted' /\ NoAgentForgotten'
<1> SUFFICES ASSUME TypeOK, PassedIsStarted, NoAgentForgotten, [Next]_vars
             PROVE  PassedIsStarted' /\ NoAgentForgotten'
  OBVIOUS
<1>1. CASE Elsewhere
  BY <1>1, ElsewhereKeeps DEF PassedIsStarted, NoAgentForgotten, TypeOK
<1>2. ASSUME NEW c \in Callers, LaunchLoop(c) PROVE PassedIsStarted' /\ NoAgentForgotten'
  <2>1. /\ UNCHANGED <<registered, joining, pending>>
        /\ started \cup overtaken \subseteq started' \cup overtaken'
    BY <1>2 DEF LaunchLoop, Launched
  <2>2. ASSUME NEW b \in Callers, NEW a \in registered, pc'[b] \in PastLoop(a)
        PROVE  a \in started' \cup overtaken'
    <3>1. CASE pc[b] \in PastLoop(a)
      BY <2>1, <3>1 DEF PassedIsStarted
    <3>2. CASE pc[b] \notin PastLoop(a)
      <4>1. b = c
        BY <1>2, <2>2, <3>2 DEF LaunchLoop, Goto, TypeOK
      <4>2. CASE pc[c] = "drivers" /\ Launched(registered \cap Drivers) /\ Goto(c, "riders")
        BY <2>2, <4>1, <4>2 DEF Launched, Goto, PastLoop, TypeOK
      <4>3. CASE pc[c] = "riders" /\ Launched(registered \cap Riders) /\ Goto(c, "clear")
        BY <2>2, <3>2, <4>1, <4>3 DEF Launched, Goto, PastLoop, TypeOK, Agents
      <4> QED
        BY <1>2, <4>2, <4>3 DEF LaunchLoop
    <3> QED
      BY <3>1, <3>2
  <2> QED
    BY <2>1, <2>2 DEF PassedIsStarted, NoAgentForgotten
<1>3. ASSUME NEW c \in Callers, ClearPending(c) \/ Empty(c) PROVE PassedIsStarted' /\ NoAgentForgotten'
  <2>1. /\ UNCHANGED <<registered, started, overtaken>> /\ pc[c] \in {"clear", "empty"}
        /\ Goto(c, "free") \/ Goto(c, "renew")
    BY <1>3 DEF ClearPending, Empty
  <2>2. \A a \in registered : pc[c] \in PastLoop(a)
    BY <2>1 DEF PastLoop
  <2>3. registered \subseteq started \cup overtaken
    BY <2>2 DEF PassedIsStarted
  <2> QED
    BY <2>1, <2>3 DEF PassedIsStarted, NoAgentForgotten
<1>4. ASSUME NEW c \in Callers, Wipe(c) PROVE PassedIsStarted' /\ NoAgentForgotten'
  BY <1>4 DEF Wipe, PassedIsStarted, NoAgentForgotten
<1>5. ASSUME NEW c \in Callers, Renew(c) PROVE PassedIsStarted' /\ NoAgentForgotten'
  <2>1. UNCHANGED <<registered, joining, pending>> /\ Goto(c, "free")
    BY <1>5 DEF Renew
  <2>2. overtaken' = overtaken \cup (registered \cap started)
    BY <1>5 DEF Renew
  <2>3. \A b \in Callers, a \in registered : pc'[b] \in PastLoop(a) => pc[b] \in PastLoop(a)
    BY <2>1 DEF Goto, PastLoop, TypeOK
  <2> QED
    BY <2>1, <2>2, <2>3 DEF PassedIsStarted, NoAgentForgotten
<1>6. ASSUME NEW a \in Agents, Registers(a) PROVE PassedIsStarted' /\ NoAgentForgotten'
  <2>1. registered' = registered \cup {a} /\ joining' = joining \cup {a} /\ pending' = pending
    BY <1>6 DEF Registers
  <2>2. started \cup overtaken \subseteq started' \cup overtaken'
    BY <1>6, RegistersMoves
  <2>3. \A c \in Callers : pc[c] \in PastLoop(a) => a \in overtaken'
    BY <1>6, RegistersMoves
  <2>4. \A c \in Callers, b \in registered' : pc'[c] \in PastLoop(b) => pc[c] \in PastLoop(b)
    BY <1>6, <2>1, RegistersMoves DEF TypeOK
  <2> QED
    BY <2>1, <2>2, <2>3, <2>4 DEF PassedIsStarted, NoAgentForgotten
<1>7. ASSUME NEW a \in Agents, Enqueues(a) PROVE PassedIsStarted' /\ NoAgentForgotten'
  BY <1>7 DEF Enqueues, PassedIsStarted, NoAgentForgotten
<1>8. ASSUME NEW a \in Agents, StartPending(a) PROVE PassedIsStarted' /\ NoAgentForgotten'
  BY <1>8 DEF StartPending, Launched, PassedIsStarted, NoAgentForgotten
<1> QED
  BY <1>1, <1>2, <1>3, <1>4, <1>5, <1>6, <1>7, <1>8, ElsewhereSteps

\* No agent is started that waits in the queue, but for a launch about to clear it and
\* for the overtaken.
LEMMA QueueStep ==
  TypeOK /\ PendingIsUnstarted /\ [Next]_vars => PendingIsUnstarted'
<1> SUFFICES ASSUME TypeOK, PendingIsUnstarted, [Next]_vars,
                    NEW a \in (pending' \cap started') \ overtaken'
             PROVE  \E c \in Callers : pc'[c] \in PastLoop(a)
  BY DEF PendingIsUnstarted, Passed, PastLoop
<1> USE DEF Passed
<1>1. CASE Elsewhere
  <2>1. a \in (pending \cap started) \ overtaken /\ a \in Agents
    BY <1>1, ElsewhereKeeps DEF TypeOK
  <2> QED
    BY <1>1, <2>1, ElsewhereKeeps DEF PendingIsUnstarted
<1>2. ASSUME NEW c \in Callers, LaunchLoop(c) PROVE \E b \in Callers : pc'[b] \in PastLoop(a)
  <2>1. pending' = pending /\ a \in Agents
    BY <1>2 DEF LaunchLoop, TypeOK
  <2>2. CASE a \in started /\ a \notin overtaken
    <3>1. PICK b \in Callers : pc[b] \in PastLoop(a)
      BY <2>1, <2>2 DEF PendingIsUnstarted
    <3>2. pc'[b] \in PastLoop(a)
      BY <1>2, <3>1 DEF LaunchLoop, Goto, PastLoop, TypeOK
    <3> QED
      BY <3>2
  <2>3. CASE a \notin started \/ a \in overtaken
    <3>1. CASE pc[c] = "drivers" /\ Launched(registered \cap Drivers) /\ Goto(c, "riders")
      BY <2>3, <3>1 DEF Launched, Goto, PastLoop, TypeOK
    <3>2. CASE pc[c] = "riders" /\ Launched(registered \cap Riders) /\ Goto(c, "clear")
      BY <2>3, <3>2 DEF Launched, Goto, PastLoop, TypeOK
    <3> QED
      BY <1>2, <3>1, <3>2 DEF LaunchLoop
  <2> QED
    BY <2>2, <2>3
<1>3. ASSUME NEW c \in Callers, ClearPending(c) \/ Empty(c) \/ Renew(c) PROVE FALSE
  BY <1>3 DEF ClearPending, Empty, Renew
<1>4. ASSUME NEW c \in Callers, Wipe(c) PROVE \E b \in Callers : pc'[b] \in PastLoop(a)
  <2>1. pc[c] = "wipe" /\ \E C \in SUBSET Callers, S \in SUBSET registered :
          /\ Throws(C, S, {KindOf(b) : b \in registered})
          /\ pc' = [b \in Callers |-> IF b \in C THEN "free" ELSE IF b = c THEN "empty" ELSE pc[b]]
    BY <1>4 DEF Wipe
  <2>2. PICK C \in SUBSET Callers, S \in SUBSET registered :
          /\ Throws(C, S, {KindOf(b) : b \in registered})
          /\ pc' = [b \in Callers |-> IF b \in C THEN "free" ELSE IF b = c THEN "empty" ELSE pc[b]]
    BY <2>1
  <2>3. c \notin C
    BY <2>1, <2>2 DEF Throws, KindOf
  <2>4. pc'[c] = "empty"
    BY <2>2, <2>3
  <2> QED
    BY <2>4 DEF PastLoop
<1>5. ASSUME NEW b \in Agents, Registers(b) PROVE \E c \in Callers : pc'[c] \in PastLoop(a)
  <2>1. pending' = pending
    BY <1>5 DEF Registers
  <2>2. UNCHANGED <<pc, started>> /\ overtaken \subseteq overtaken'
    BY <1>5, <2>1, RegistersMoves
  <2> QED
    BY <2>1, <2>2 DEF PendingIsUnstarted
<1>6. ASSUME NEW b \in Agents, Enqueues(b) PROVE \E c \in Callers : pc'[c] \in PastLoop(a)
  <2>1. CASE a = b
    BY <1>6, <2>1 DEF Enqueues
  <2>2. CASE a # b
    BY <1>6, <2>2 DEF Enqueues, PendingIsUnstarted
  <2> QED
    BY <2>1, <2>2
<1>7. ASSUME NEW b \in Agents, StartPending(b) PROVE \E c \in Callers : pc'[c] \in PastLoop(a)
  BY <1>7 DEF StartPending, Launched, PendingIsUnstarted
<1> QED
  BY <1>1, <1>2, <1>3, <1>4, <1>5, <1>6, <1>7, ElsewhereSteps

--------------------------------------------------------------------------------
(* The drain *)

\* A step that neither starts, ends nor draws up a drain, and neither begins nor ends
\* DRAINING.
LEMMA DrainUntouched ==
  ASSUME TypeOK, DrainIsAlone, UNCHANGED <<state, drains, untidy>>,
         \A c \in Callers : pc'[c] \in {"drain", "pausing"} => pc'[c] = pc[c]
  PROVE  DrainIsAlone'
  BY DEF DrainIsAlone

\* At most one drain is alive or about to be, and only while the engine is DRAINING.
LEMMA DrainStep == TypeOK /\ DrainIsAlone /\ [Next]_vars => DrainIsAlone'
<1> SUFFICES ASSUME TypeOK, DrainIsAlone, [Next]_vars PROVE DrainIsAlone'
  OBVIOUS
<1>1. ASSUME NEW c \in Callers,
             CallLaunch(c) \/ CallStop(c) \/ LaunchLoop(c) \/ ClearPending(c) \/ Empty(c) \/ Renew(c)
      PROVE  DrainIsAlone'
  <2>1. \E label \in Labels \ {"drain", "pausing"} : Goto(c, label)
    BY <1>1 DEF CallLaunch, CallStop, LaunchLoop, ClearPending, Empty, Renew, Labels
  <2>2. \A b \in Callers : pc'[b] \in {"drain", "pausing"} => pc'[b] = pc[b]
    BY <2>1 DEF Goto, TypeOK
  <2>3. UNCHANGED <<state, drains, untidy>>
    BY <1>1 DEF CallLaunch, CallStop, LaunchLoop, ClearPending, Empty, Renew, flags
  <2> QED
    BY <2>2, <2>3, DrainUntouched
<1>2. ASSUME NEW c \in Callers, CallPause(c) PROVE DrainIsAlone'
  <2>1. state = "running" /\ Goto(c, "pausing") /\ UNCHANGED <<state, drains, untidy>>
    BY <1>2 DEF CallPause, flags
  <2>2. \A b \in Callers : pc'[b] = "drain" => pc[b] = "drain"
    BY <2>1 DEF Goto, TypeOK
  <2> QED
    BY <2>1, <2>2 DEF DrainIsAlone
<1>3. ASSUME NEW c \in Callers, Launch(c) \/ Stop(c) \/ Reset(c) PROVE DrainIsAlone'
  <2>1. untidy' = (untidy \/ state = "draining") /\ UNCHANGED drains /\ state' # "draining"
    BY <1>3 DEF Launch, Stop, Reset, Assign
  <2>2. \A b \in Callers : pc'[b] = "drain" => pc[b] = "drain"
    BY <1>3 DEF Launch, Stop, Reset, Goto, TypeOK
  <2> QED
    BY <2>1, <2>2 DEF DrainIsAlone
<1>4. ASSUME NEW c \in Callers, Pause(c) PROVE DrainIsAlone'
  <2>1. /\ pc[c] = "pausing" /\ state' = "draining" /\ Goto(c, "drain") /\ UNCHANGED drains
        /\ untidy' = (untidy \/ \E b \in Callers \ {c} : pc[b] = "pausing")
    BY <1>4 DEF Pause, Assign
  <2>2. \A b \in Callers : b # c => pc'[b] = pc[b]
    BY <2>1 DEF Goto, TypeOK
  <2>3. pc'[c] = "drain"
    BY <2>1 DEF Goto, TypeOK
  <2> QED
    BY <2>1, <2>2, <2>3 DEF DrainIsAlone
<1>5. ASSUME NEW c \in Callers, StartDrain(c) PROVE DrainIsAlone'
  <2>1. pc[c] = "drain" /\ Goto(c, "free") /\ UNCHANGED <<state, untidy>>
    BY <1>5 DEF StartDrain, flags
  <2>2. PICK d : drains' = drains \cup {d}
    BY <1>5 DEF StartDrain
  <2>3. \A b \in Callers : pc'[b] \in {"drain", "pausing"} => b # c /\ pc[b] = pc'[b]
    BY <2>1 DEF Goto, TypeOK
  <2> QED
    BY <2>1, <2>2, <2>3 DEF DrainIsAlone
<1>6. ASSUME NEW c \in Callers, Wipe(c) PROVE DrainIsAlone'
  <2>1. UNCHANGED <<state, drains, untidy>>
    BY <1>6 DEF Wipe, flags
  <2>2. \E C \in SUBSET Callers :
          pc' = [b \in Callers |-> IF b \in C THEN "free" ELSE IF b = c THEN "empty" ELSE pc[b]]
    BY <1>6 DEF Wipe
  <2>3. \A b \in Callers : pc'[b] \in {"drain", "pausing"} => pc'[b] = pc[b]
    BY <2>2
  <2> QED
    BY <2>1, <2>3, DrainUntouched
<1>7. ASSUME NEW a \in Agents, Registers(a) PROVE DrainIsAlone'
  <2>1. UNCHANGED <<state, drains, untidy>>
    BY <1>7 DEF Registers, flags
  <2>2. \E C \in SUBSET Callers : pc' = [c \in Callers |-> IF c \in C THEN "free" ELSE pc[c]]
    BY <1>7 DEF Registers
  <2>3. \A b \in Callers : pc'[b] \in {"drain", "pausing"} => pc'[b] = pc[b]
    BY <2>2
  <2> QED
    BY <2>1, <2>3, DrainUntouched
<1>8. ASSUME NEW a \in Agents, Enqueues(a) \/ StartPending(a) PROVE DrainIsAlone'
  <2>1. UNCHANGED <<state, drains, untidy, pc>>
    BY <1>8 DEF Enqueues, StartPending, flags
  <2> QED
    BY <2>1, DrainUntouched
<1>9. ASSUME Stride PROVE DrainIsAlone'
  <2>1. UNCHANGED <<state, drains, pc, untidy>>
    BY <1>9 DEF Stride, BeginStep, PendingStarted, BeginChunk, EndChunk, EndStep, StepRaises, flags
  <2> QED
    BY <2>1, DrainUntouched
<1>10. ASSUME Traffic PROVE DrainIsAlone'
  <2>1. UNCHANGED <<state, drains, pc, untidy>>
    BY <1>10 DEF Traffic, RequestTrip, AdmitRequest, ApiRequest, RegisterTrip, EndTrip, ReachHome, flags
  <2> QED
    BY <2>1, DrainUntouched
<1>11. ASSUME NEW d \in drains, DrainQuiesces(d) \/ DrainWaits(d) \/ DrainTimesOut(d) PROVE DrainIsAlone'
  <2>1. UNCHANGED <<state, pc, untidy>> /\ \E e : drains' = (drains \ {d}) \cup {e}
    BY <1>11 DEF DrainQuiesces, DrainWaits, DrainTimesOut, Looked, flags
  <2>2. ~untidy => drains = {d} /\ \A c \in Callers : pc[c] # "drain"
    BY DEF DrainIsAlone
  <2> QED
    BY <2>1, <2>2 DEF DrainIsAlone
<1>12. ASSUME NEW d \in drains, DrainRaises(d) \/ TransitionToPaused(d) PROVE DrainIsAlone'
  <2>1. UNCHANGED pc /\ drains' = drains \ {d} /\ state' \in {state, "paused"} /\ untidy' = StillUntidy
    BY <1>12 DEF DrainRaises, TransitionToPaused
  <2>2. ~untidy => drains = {d} /\ \A c \in Callers : pc[c] # "drain"
    BY DEF DrainIsAlone
  <2>3. CASE ~untidy
    BY <2>1, <2>2, <2>3 DEF DrainIsAlone
  <2>4. CASE untidy
    BY <2>1, <2>4 DEF DrainIsAlone, StillUntidy
  <2> QED
    BY <2>3, <2>4
<1>13. ASSUME UNCHANGED vars PROVE DrainIsAlone'
  BY <1>13 DEF vars, flags, DrainIsAlone
<1> QED
  BY <1>1, <1>2, <1>3, <1>4, <1>5, <1>6, <1>7, <1>8, <1>9, <1>10, <1>11, <1>12, <1>13
     DEF Next, Request, Loop, Poll, Stride, CreatePuppet, EnqueuePuppet, Spawn, EnqueueSpawned

--------------------------------------------------------------------------------
(* The theorems *)

LEMMA EngineInit == Init => EInv
<1> SUFFICES ASSUME Init PROVE EInv
  OBVIOUS
<1>1. 0 \in 0..MaxResets /\ 0 \in 0..Overshoot /\ 0 \in 0..MaxPauses /\ 0 \in 0..MaxLaunches
  BY EngineAssumption DEF EngineAssumption
<1>2. TypeOK
  BY <1>1 DEF Init, TypeOK, Labels
<1>3. StepUnderWay /\ PassedIsStarted /\ NoAgentForgotten /\ PendingIsUnstarted /\ DrainIsAlone
  BY DEF Init, StepUnderWay, InChunk, PassedIsStarted, NoAgentForgotten, PendingIsUnstarted, DrainIsAlone
<1> QED
  BY <1>2, <1>3 DEF EInv

\* EInv is inductive: no agent is lost or queued twice and a drain is alone, whatever
\* requests, steps, registrations and trips do in between, but for the agents marked as
\* overtaken and the drains of an untidy spell.
THEOREM EngineInvariance == Spec => []EInv
<1>1. Init => EInv
  BY EngineInit
<1>2. EInv /\ [Next]_vars => EInv'
  BY TypeStep, RegistryStep, QueueStep, DrainStep DEF EInv
<1> QED
  BY <1>1, <1>2, PTL DEF Spec

\* Every step of the API's threads, the SimPy thread and the event loop keeps every
\* variable in its type.
THEOREM EngineTypeCorrect == Spec => []TypeOK
<1>1. EInv => TypeOK
  BY DEF EInv
<1> QED
  BY <1>1, EngineInvariance, PTL

\* A registered agent runs, is queued or about to be, or was registered behind the back
\* of a launch or a reset: register_driver, register_rider, _start_agent_processes,
\* _start_pending_agents and reset lose no other, for any number of requests at a time.
THEOREM NobodyForgotten == Spec => []NoAgentForgotten
<1>1. EInv => NoAgentForgotten
  BY DEF EInv
<1> QED
  BY <1>1, EngineInvariance, PTL

\* What waits in the queue has no process yet, unless a launch is about to clear the
\* queue, was thrown out before it did, or started the agent between its registration
\* and its queueing.
THEOREM NobodyQueuedTwice == Spec => []PendingIsUnstarted
<1>1. EInv => PendingIsUnstarted
  BY DEF EInv
<1> QED
  BY <1>1, EngineInvariance, PTL

\* A pause leaves no drain behind when DRAINING ends, unless a start, a reset or a stop
\* cut in while it drained, or a second pause had passed the check before the first one
\* assigned the state.
THEOREM NoDrainLeftBehind == Spec => []DrainEndsWithPause
<1>1. EInv => DrainEndsWithPause
  BY DEF EInv, DrainIsAlone, DrainEndsWithPause
<1> QED
  BY <1>1, EngineInvariance, PTL

\* While it is paused and still, only a request of the API's own brings a trip in.
THEOREM PauseStaysQuiet == Spec => PauseHolds
<1>1. ASSUME TypeOK, [Next]_vars, state = "paused", state' = "paused", Still
      PROVE  Still' \/ \E t \in Trips : ApiRequest(t)
  <2>1. CASE UNCHANGED traffic
    BY <1>1, <2>1 DEF Still, traffic
  <2>2. CASE Traffic
    <3>1. CASE \E t \in Trips : RequestTrip(t) \/ AdmitRequest(t) \/ RegisterTrip(t) \/ EndTrip(t)
      BY <1>1, <3>1 DEF RequestTrip, AdmitRequest, RegisterTrip, EndTrip, Still, TypeOK
    <3>2. CASE \E d \in Drivers : ReachHome(d)
      BY <1>1, <3>2 DEF ReachHome, Still
    <3> QED
      BY <2>2, <3>1, <3>2 DEF Traffic
  <2>3. ASSUME NEW c \in Callers, Wipe(c) \/ Renew(c) PROVE Still'
    BY <1>1, <2>3 DEF Wipe, Renew, Still, traffic, TypeOK
  <2>4. ASSUME NEW d \in drains, DrainTimesOut(d) \/ DrainRaises(d) PROVE Still'
    BY <1>1, <2>4 DEF DrainTimesOut, DrainRaises, Cancelled, Still, traffic, TypeOK
  <2>5. ASSUME NEW c \in Callers, Looks(c) \/ Assigns(c) \/ LaunchLoop(c) \/ ClearPending(c) \/ StartDrain(c)
                 \/ Empty(c)
        PROVE  UNCHANGED traffic
    BY <2>5 DEF Looks, Assigns, CallLaunch, CallPause, CallStop, Launch, Pause, Stop, Reset, LaunchLoop,
                ClearPending, StartDrain, Empty
  <2>6. ASSUME NEW a \in Agents, Registers(a) \/ Enqueues(a) \/ StartPending(a) PROVE UNCHANGED traffic
    BY <2>6 DEF Registers, Enqueues, StartPending
  <2>7. ASSUME Stride PROVE UNCHANGED traffic
    BY <2>7 DEF Stride, BeginStep, PendingStarted, BeginChunk, EndChunk, EndStep, StepRaises
  <2>8. ASSUME NEW d \in drains, DrainQuiesces(d) \/ DrainWaits(d) \/ TransitionToPaused(d)
        PROVE  UNCHANGED traffic
    BY <2>8 DEF DrainQuiesces, DrainWaits, TransitionToPaused
  <2> QED
    BY <1>1, <2>1, <2>2, <2>3, <2>4, <2>5, <2>6, <2>7, <2>8
       DEF Next, vars, Request, Loop, Poll, Looks, Assigns, Stride, CreatePuppet, EnqueuePuppet,
           Spawn, EnqueueSpawned
<1>2. TypeOK /\ [Next]_vars
        => (state = "paused" /\ state' = "paused" /\ Still
                 => Still' \/ \E t \in Trips : ApiRequest(t))
  BY <1>1
<1> QED
  BY <1>2, EngineTypeCorrect, PTL DEF Spec, PauseHolds
================================================================================
