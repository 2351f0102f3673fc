------------------------------ MODULE SinkProofs ------------------------------
(***************************************************************************)
(* Theorems about the two ends of the events' way: the tables              *)
(* (BronzeIngestion) and the pages of the control panel (LiveView).  The   *)
(* two share no state; a name without a prefix (Spec, TypeOK) is           *)
(* BronzeIngestion's.                                                      *)
(*                                                                         *)
(* BronzeIngestion delivers at least once, for any topics, any messages    *)
(* and any number of failed writes and crashes: what is committed is       *)
(* stored, tables have no gaps, and what is committed is never stored      *)
(* again.  The argument: between a poll and the commit that covers it, a   *)
(* message is in the table or in the batch in memory (InHand), and a flush *)
(* commits only after the batches of all topics were written (Flushed).    *)
(*                                                                         *)
(* LiveView brings every page that is sent everything to show what is, for *)
(* any clients, rides, messages in flight and faults.  The argument: what  *)
(* a page shows is right, or a message that it is still to be sent will    *)
(* put it right (PageOK), and the last message to speak of a ride or the   *)
(* rider tells the truth (EndsFollow, NewsAreTrue).  That a ride never     *)
(* comes back after its end needs only the order of the messages (EndInv). *)
(***************************************************************************)
EXTENDS BronzeIngestion, LiveView, TLAPS, FiniteSetTheorems

-----------------------------------------------------------------------------
(* The tables *)

\* What was polled and accepted is stored or waits in the batch, as long as the
\* process lives.
InHand ==
  pc # "down" => \A t \in Topics, o \in Offsets :
                    o <= position[t] /\ Accepted(t, o) => Stored(t, o) \/ o \in batch[t]

\* The batch holds messages between the committed offset and the position.
Uncommitted ==
  \A t \in Topics : /\ committed[t] <= position[t]
                    /\ \A o \in batch[t] : committed[t] < o /\ o <= position[t]

\* A flush that has left a topic behind has stored its batch.
Flushed ==
  \A t \in Topics :
    \/ pc \in {"dlq", "commit"}
    \/ pc = "bronze" /\ t \notin unwritten
    => \A o \in batch[t] : Stored(t, o)

BInv == /\ TypeOK /\ InHand /\ Uncommitted /\ Flushed
        /\ CommittedIsStored /\ NoGaps

\* Types are kept.
THEOREM BronzeTypeCorrect == Spec => []TypeOK
<1>1. Init => TypeOK
  <2> SUFFICES ASSUME Init PROVE TypeOK
    OBVIOUS
  <2>1. bronze \in [Topics -> [Offsets -> Nat]]
    BY DEF Init
  <2>2. committed \in [Topics -> 0..MaxOffset] /\ position \in [Topics -> 0..MaxOffset]
    BY BronzeAssumption DEF Init
  <2>3. Nothing \in [Topics -> SUBSET Offsets]
    BY DEF Nothing
  <2>4. crashes \in 0..MaxCrashes
    BY BronzeAssumption DEF Init
  <2>5. QED
    BY <2>1, <2>2, <2>3, <2>4 DEF Init, TypeOK
<1>2. TypeOK /\ [Next]_vars => TypeOK'
  <2> SUFFICES ASSUME TypeOK, [Next]_vars PROVE TypeOK'
    OBVIOUS
  <2> USE BronzeAssumption DEF TypeOK, Offsets
  <2>1. ASSUME NEW t \in Topics, Take(t) PROVE TypeOK'
    <3>1. position[t] + 1 \in Offsets /\ position' \in [Topics -> 0..MaxOffset]
      BY <2>1 DEF Take
    <3>2. batch' \in [Topics -> SUBSET Offsets] /\ dlqBatch' \in [Topics -> SUBSET Offsets]
      <4> DEFINE o == position[t] + 1
      <4>1. \/ batch' = [batch EXCEPT ![t] = @ \cup {o}] /\ dlqBatch' = dlqBatch
            \/ dlqBatch' = [dlqBatch EXCEPT ![t] = @ \cup {o}] /\ batch' = batch
        BY <2>1 DEF Take
      <4>2. o \in Offsets
        BY <3>1
      <4> HIDE DEF o, Offsets
      <4>3. batch[t] \cup {o} \in SUBSET Offsets /\ dlqBatch[t] \cup {o} \in SUBSET Offsets
        BY <4>2
      <4>4. CASE batch' = [batch EXCEPT ![t] = @ \cup {o}] /\ dlqBatch' = dlqBatch
        BY <4>3, <4>4
      <4>5. CASE dlqBatch' = [dlqBatch EXCEPT ![t] = @ \cup {o}] /\ batch' = batch
        BY <4>3, <4>5
      <4>6. QED
        BY <4>1, <4>4, <4>5
    <3>3. pc' \in {"poll", "bronze"} /\ unwritten' \subseteq Topics
      BY <2>1 DEF Take, BeginFlush, Pending
    <3>4. QED
      BY <2>1, <3>1, <3>2, <3>3 DEF Take
  <2>2. ASSUME NEW t \in Topics, WriteTopic(t) PROVE TypeOK'
    <3>1. bronze' \in [Topics -> [Offsets -> Nat]]
      BY <2>2 DEF WriteTopic
    <3>2. QED
      BY <2>2, <3>1 DEF WriteTopic
  <2>3. ASSUME Die PROVE TypeOK'
    BY <2>3 DEF Die, Nothing
  <2>4. ASSUME NEW t \in Topics, WriteDLQ(t) PROVE TypeOK'
    BY <2>4 DEF WriteDLQ
  <2>5. ASSUME BatchIntervalElapses \/ PollNothing \/ Stop PROVE TypeOK'
    BY <2>5 DEF BatchIntervalElapses, PollNothing, Stop, BeginFlush, Pending
  <2>6. ASSUME BronzeWritten \/ DLQDone PROVE TypeOK'
    BY <2>6 DEF BronzeWritten, DLQDone, Pending
  <2>7. ASSUME Commit \/ Restart PROVE TypeOK'
    BY <2>7 DEF Commit, Restart, Nothing
  <2>8. CASE UNCHANGED vars
    BY <2>8 DEF vars
  <2>9. QED
    BY <2>1, <2>2, <2>3, <2>4, <2>5, <2>6, <2>7, <2>8 DEF Next, WriteFails, Crash
<1>3. QED
  BY <1>1, <1>2, PTL DEF Spec

\* Every step keeps the inductive invariant.
LEMMA BronzeStep == BInv /\ TypeOK' /\ [Next]_vars => BInv'
<1> SUFFICES ASSUME BInv, TypeOK', [Next]_vars PROVE BInv'
  OBVIOUS
<1> USE DEF BInv, TypeOK, InHand, Uncommitted, Flushed, CommittedIsStored, NoGaps,
            Offsets, Accepted, Stored
<1>1. ASSUME NEW t \in Topics, Take(t) PROVE BInv'
  <2> DEFINE o == position[t] + 1
  <2>1. /\ pc = "poll" /\ o \in Offsets
        /\ position' = [position EXCEPT ![t] = o]
        /\ UNCHANGED <<kind, committed, bronze>>
        /\ pc' # "dlq" /\ pc' # "commit"
    BY <1>1 DEF Take, BeginFlush
  <2>2. /\ batch' = IF Accepted(t, o) THEN [batch EXCEPT ![t] = @ \cup {o}] ELSE batch
        /\ pc' = "bronze" => \A u \in Topics \ unwritten' : batch'[u] = {}
    BY <1>1 DEF Take, BeginFlush, Pending
  <2> HIDE DEF o
  <2>3. InHand'
    BY <2>1, <2>2 DEF o
  <2>4. Uncommitted'
    BY <2>1, <2>2 DEF o
  <2>5. Flushed'
    BY <2>1, <2>2
  <2>6. QED
    BY <2>1, <2>3, <2>4, <2>5
<1>2. ASSUME NEW t \in Topics, WriteTopic(t) PROVE BInv'
  <2>1. /\ pc = "bronze" /\ pc' = pc /\ unwritten' = unwritten \ {t}
        /\ UNCHANGED <<kind, committed, position, batch>>
    BY <1>2 DEF WriteTopic
  <2>2. \A u \in Topics, o \in Offsets :
           Stored(u, o)' <=> Stored(u, o) \/ (u = t /\ o \in batch[t])
    <3> HIDE DEF Offsets
    <3>1. \A u \in Topics, o \in Offsets :
             bronze'[u][o] = IF u = t /\ o \in batch[t] THEN bronze[u][o] + 1
                                                        ELSE bronze[u][o]
      BY <1>2 DEF WriteTopic
    <3>2. \A u \in Topics, o \in Offsets : bronze[u][o] \in Nat
      OBVIOUS
    <3>3. QED
      BY <3>1, <3>2
  <2>3. InHand' /\ Uncommitted' /\ CommittedIsStored'
    BY <2>1, <2>2
  <2>4. Flushed'
    BY <2>1, <2>2
  <2>5. NoGaps'
    <3>1. \A u \in Topics, o, p \in Offsets :
             Stored(u, o)' /\ p <= o /\ Accepted(u, p) => Stored(u, p)'
      <4>1. ASSUME NEW u \in Topics, NEW o \in Offsets, NEW p \in Offsets,
                   Stored(u, o)', p <= o, Accepted(u, p)
            PROVE  Stored(u, p)'
        <5> HIDE DEF Stored, Accepted
        <5>1. CASE Stored(u, o)
          <6>1. Stored(u, p)
            BY <4>1, <5>1
          <6>2. QED
            BY <2>2, <6>1
        <5>2. CASE u = t /\ o \in batch[t]
          <6>1. o <= position[t]
            BY <5>2
          <6>2. p <= position[t] /\ p \in Offsets
            BY <4>1, <6>1, BronzeAssumption
          <6>3. Stored(u, p) \/ p \in batch[t]
            BY <2>1, <4>1, <5>2, <6>2
          <6>4. QED
            BY <2>2, <5>2, <6>3
        <5>3. QED
          BY <2>2, <4>1, <5>1, <5>2
      <4>2. QED
        BY <4>1
    <3>2. \A u \in Topics, p \in Offsets : Accepted(u, p)' <=> Accepted(u, p)
      BY <2>1
    <3>3. \A o \in Offsets : 1..o \subseteq Offsets /\ \A p \in 1..o : p <= o
      BY BronzeAssumption
    <3> HIDE DEF Offsets, Stored, Accepted
    <3>4. QED
      BY <3>1, <3>2, <3>3
  <2>6. QED
    BY <2>3, <2>4, <2>5
<1>3. ASSUME Die PROVE BInv'
  BY <1>3 DEF Die, Nothing
<1>4. ASSUME NEW t \in Topics, WriteDLQ(t) PROVE BInv'
  BY <1>4 DEF WriteDLQ
<1>5. ASSUME BatchIntervalElapses PROVE BInv'
  BY <1>5 DEF BatchIntervalElapses
<1>6. ASSUME PollNothing PROVE BInv'
  BY <1>6 DEF PollNothing, BeginFlush, Pending
<1>7. ASSUME Stop PROVE BInv'
  BY <1>7 DEF Stop, BeginFlush, Pending
<1>8. ASSUME BronzeWritten PROVE BInv'
  BY <1>8 DEF BronzeWritten
<1>9. ASSUME DLQDone PROVE BInv'
  BY <1>9 DEF DLQDone
<1>10. ASSUME Commit PROVE BInv'
  BY <1>10 DEF Commit, Nothing
<1>11. ASSUME Restart PROVE BInv'
  BY <1>11 DEF Restart, Nothing
<1>12. CASE UNCHANGED vars
  BY <1>12 DEF vars
<1>13. QED
  BY <1>1, <1>2, <1>3, <1>4, <1>5, <1>6, <1>7, <1>8, <1>9, <1>10, <1>11, <1>12
     DEF Next, WriteFails, Crash

\* The inductive invariant holds throughout.
THEOREM BronzeInvariance == Spec => []BInv
<1>1. Init => InHand /\ Uncommitted /\ Flushed /\ CommittedIsStored /\ NoGaps
  BY BronzeAssumption DEF Init, InHand, Uncommitted, Flushed, CommittedIsStored, NoGaps,
     Offsets, Nothing, Stored
<1>2. QED
  BY <1>1, BronzeStep, BronzeTypeCorrect, PTL DEF Spec, BInv

\* A committed message that passed validation is in its table, whichever write
\* failed and wherever the process died.
THEOREM AtLeastOnce == Spec => []CommittedIsStored
BY BronzeInvariance, PTL DEF BInv

\* A table is, but for rejected messages, a prefix of its topic.
THEOREM TablesHaveNoGaps == Spec => []NoGaps
BY BronzeInvariance, PTL DEF BInv

\* A step never appends a committed message again.
THEOREM NeverTwiceOnceCommitted == Spec => CommittedOnce
<1>1. ASSUME BInv, Next
      PROVE  \A t \in Topics, o \in Offsets :
                o <= committed[t] => bronze'[t][o] = bronze[t][o]
  <2>1. CASE bronze' = bronze
    BY <2>1
  <2>2. CASE \E t \in Topics : WriteTopic(t)
    <3>1. PICK t \in Topics : WriteTopic(t)
      BY <2>2
    <3>2. \A u \in Topics, o \in Offsets :
             bronze'[u][o] = IF u = t /\ o \in batch[t] THEN bronze[u][o] + 1
                                                        ELSE bronze[u][o]
      BY <1>1, <3>1 DEF WriteTopic, BInv, TypeOK
    <3>3. \A o \in batch[t] : ~(o <= committed[t])
      BY <1>1, BronzeAssumption DEF BInv, Uncommitted, TypeOK, Offsets
    <3>4. QED
      BY <3>2, <3>3
  <2>3. QED
    BY <1>1, <2>1, <2>2
       DEF Next, Take, WriteFails, WriteDLQ, BatchIntervalElapses, PollNothing, Stop,
           BronzeWritten, DLQDone, Commit, Crash, Restart, Die
<1>2. BInv /\ [Next]_vars =>
        [\A t \in Topics, o \in Offsets :
            o <= committed[t] => bronze'[t][o] = bronze[t][o]]_<<bronze, committed>>
  BY <1>1 DEF vars
<1>3. QED
  BY <1>2, BronzeInvariance, PTL DEF Spec, CommittedOnce

-----------------------------------------------------------------------------
(* The pages: what is said of a ride *)

\* The positions of the messages in flight
Sent == 1..Len(wire)
IsEnd(m)  == m.kind = "trip" /\ m.st = "ended"
Places(m) == m.kind = "trip" /\ m.st # "ended"

\* Ride r has ended.
Over(r) == r < ride \/ (r = ride /\ phase = "idle")

MessageOK(m) ==
    /\ m.kind = "trip" => m.id \in 1..ride /\ m.st \in Phases \cup {"ended"}
    /\ m.kind # "trip" => m.st # "ended"
    /\ IsEnd(m) => Over(m.id)

\* The end of a ride is the last that is said of it.
WireOK ==
    /\ \A n \in Sent : MessageOK(wire[n]) /\ wire[n].kind \in {"trip", "ping", "profile"}
    /\ \A i, j \in Sent : i < j /\ IsEnd(wire[i]) /\ wire[j].kind = "trip" =>
                             wire[i].id < wire[j].id
CastOK ==
    cast.on => /\ MessageOK(cast.msg) /\ cast.msg.kind # "snapshot"
               /\ \A n \in Sent : IsEnd(cast.msg) /\ wire[n].kind = "trip" =>
                                     cast.msg.id < wire[n].id

\* Client c is still to be sent the message under way.
Owed(c) == cast.on /\ c \in cast.todo

\* What page c was told the end of is over, and nobody will mention it to c again.
Told(c) ==
    \A r \in seen[c] :
        /\ Over(r) /\ r \notin shown[c]
        /\ \A n \in Sent : wire[n].kind = "trip" => wire[n].id # r
        /\ Owed(c) /\ cast.msg.kind = "trip" => cast.msg.id # r

\* The inductive invariant of ended rides
EndInv == WireOK /\ CastOK /\ \A c \in Clients : Told(c)

-----------------------------------------------------------------------------
(* Types *)

\* A message a page may be sent: its state is one a page can show.
Sendable(m) ==
    /\ m \in Message /\ (m.kind = "ping" => m.st \in Phases)
    /\ m.kind = "profile" => m.st = "idle"
    /\ m.kind = "trip" => m.id # 0 /\ m.st \in Phases \cup {"ended"}
    /\ m.kind # "trip" => m.st # "ended"

\* The types, and what they need
TypeInv ==
    /\ LiveTypeOK /\ ghosts <= faults
    /\ phase # "idle" => ride # 0
    /\ \A n \in Sent : Sendable(wire[n])
    /\ cast.on => Sendable(cast.msg)

\* Page c handles message m, or nothing.
Handles(c, m) ==
    /\ shown'[c] = RidesAfter(shown[c], m) /\ rider'[c] = RiderAfter(rider[c], m)
    /\ buf'[c] = IF m.kind = "ping" THEN m.st ELSE buf[c]
    /\ seen'[c] = IF m.st = "ended" THEN seen[c] \cup {m.id} ELSE seen[c]
Keeps(c) ==
    /\ shown'[c] = shown[c] /\ rider'[c] = rider[c]
    /\ buf'[c] = buf[c] /\ seen'[c] = seen[c]

\* A page that handles a message, and the pages that do not
LEMMA HandleIs ==
  ASSUME LiveTypeOK, NEW c \in Clients, NEW m, Handle(c, m)
  PROVE  Handles(c, m) /\ \A d \in Clients : d # c => Keeps(d)
  BY DEF LiveTypeOK, Handle, Handles, Keeps

LEMMA KeptIs == UNCHANGED pageVars => \A d \in Clients : Keeps(d)
  BY DEF pageVars, Keeps

Pages ==
    /\ shown \in [Clients -> SUBSET Rides] /\ seen \in [Clients -> SUBSET Rides]
    /\ rider \in [Clients -> Phases \cup {"idle", "absent"}]
    /\ buf \in [Clients -> Phases \cup {"none"}]

\* The pages' types after one has handled a message
LEMMA HandleTypes ==
  ASSUME LiveTypeOK, NEW c \in Clients, NEW m, Sendable(m), Handle(c, m)
  PROVE  Pages'
<1>1. RidesAfter(shown[c], m) \in SUBSET Rides
  BY DEF RidesAfter, Sendable, Message, LiveTypeOK, Rides
<1>2. RiderAfter(rider[c], m) \in Phases \cup {"idle", "absent"}
  BY DEF RiderAfter, Sendable, Message, LiveTypeOK
<1>3. m.st = "ended" => m.id \in Rides
  BY DEF Sendable, Message, Rides
<1> QED
  BY <1>1, <1>2, <1>3 DEF Handle, Pages, LiveTypeOK, Sendable

\* What publishing does to the wire
LEMMA EmitIs ==
  ASSUME LiveTypeOK, NEW k, NEW id, NEW st, [kind |-> k, id |-> id, st |-> st] \in Message,
         Emit(k, id, st)
  PROVE  /\ wire' \in Seq(Message) /\ Len(wire') <= MaxWire
         /\ Len(wire) \in Nat /\ Len(wire') = Len(wire) + 1
         /\ wire'[Len(wire) + 1] = [kind |-> k, id |-> id, st |-> st]
         /\ \A n \in Sent : wire'[n] = wire[n]
  BY LiveAssumption DEF LiveAssumption, LiveTypeOK, Emit, Sent

\* What taking the first message does to the wire
LEMMA PopIs ==
  ASSUME LiveTypeOK, wire # <<>>, wire' = Tail(wire)
  PROVE  /\ wire' \in Seq(Message) /\ Len(wire') <= MaxWire
         /\ Len(wire) \in Nat \ {0} /\ Len(wire') = Len(wire) - 1
         /\ Head(wire) = wire[1] /\ wire[1] \in Message
         /\ \A n \in 1..Len(wire') : wire'[n] = wire[n + 1] /\ n + 1 \in Sent
  BY LiveAssumption DEF LiveAssumption, LiveTypeOK, Sent

-----------------------------------------------------------------------------
(* The functions of a message, case by case *)

LEMMA RidesAfterIs ==
  ASSUME NEW S, NEW m
  PROVE  /\ Places(m) => RidesAfter(S, m) = S \cup {m.id}
         /\ IsEnd(m) => RidesAfter(S, m) = S \ {m.id}
         /\ m.kind = "snapshot" => RidesAfter(S, m) = {m.id} \ {0}
         /\ m.kind = "reset" => RidesAfter(S, m) = {}
         /\ m.kind \notin {"trip", "snapshot", "reset"} => RidesAfter(S, m) = S
  BY DEF RidesAfter, Places, IsEnd

LEMMA RiderAfterIs ==
  ASSUME NEW s, NEW m
  PROVE  /\ Places(m) /\ s # "absent" => RiderAfter(s, m) = m.st
         /\ IsEnd(m) /\ s # "absent" => RiderAfter(s, m) = "idle"
         /\ m.kind \in {"snapshot", "reset", "profile"} => RiderAfter(s, m) = m.st
         /\ m.kind = "trip" /\ s = "absent" => RiderAfter(s, m) = s
         /\ m.kind = "ping" => RiderAfter(s, m) = s
  BY DEF RiderAfter, Places, IsEnd

-----------------------------------------------------------------------------
(* Steps by their effect *)

(* Page c is handed message m now, or is owed it. *)
GoesOut(m) ==
    \/ /\ cast' = cast /\ Connected = {} /\ UNCHANGED pageVars
    \/ /\ cast'.on /\ cast'.msg = m /\ cast'.todo \subseteq Connected
       /\ \A c \in Connected \ cast'.todo : Handles(c, m)
       /\ \A c \in Clients : c \notin Connected \ cast'.todo => Keeps(c)

\* A set of sockets of size 0 holds no client.
LEMMA SocketsAre == Sockets = 0 /\ LiveTypeOK => Connected = {} /\ ghosts = 0
<1> SUFFICES ASSUME Sockets = 0, LiveTypeOK  PROVE Connected = {} /\ ghosts = 0
  OBVIOUS
<1>1. IsFiniteSet(Connected)
  BY LiveAssumption, FS_Subset DEF LiveAssumption, Connected
<1>2. Cardinality(Connected) \in Nat /\ (Cardinality(Connected) = 0 <=> Connected = {})
  BY <1>1, FS_CardinalityType, FS_EmptySet
<1>3. ghosts \in Nat
  BY LiveAssumption DEF LiveAssumption, LiveTypeOK
<1> QED  BY <1>2, <1>3 DEF Sockets

LEMMA SocketsType == LiveTypeOK => Sockets \in Nat
<1>1. IsFiniteSet(Connected)
  BY LiveAssumption, FS_Subset DEF LiveAssumption, Connected
<1> QED  BY <1>1, FS_CardinalityType, LiveAssumption DEF LiveAssumption, Sockets, LiveTypeOK

\* A broadcast by its effect
LEMMA BroadcastIs ==
  ASSUME LiveTypeOK, NEW m, Broadcast(m)
  PROVE  /\ GoesOut(m) /\ LoopFree /\ ~cast.on
         /\ UNCHANGED <<engineVars, conn, readRider, ghosts, missed, faults>>
<1>1. ASSUME Sockets = 0, UNCHANGED <<cast, pageVars>>  PROVE GoesOut(m)
  BY <1>1, SocketsAre DEF GoesOut
<1>2. ASSUME NEW c \in Connected, Handle(c, m),
             cast' = [on |-> TRUE, msg |-> m, todo |-> Connected \ {c}, size |-> Sockets]
      PROVE  GoesOut(m)
  <2>1. c \in Clients /\ Connected \ cast'.todo = {c}
    BY <1>2 DEF Connected
  <2> QED  BY <1>2, <2>1, HandleIs DEF GoesOut
<1>3. ASSUME UNCHANGED pageVars,
             cast' = [on |-> TRUE, msg |-> m, todo |-> Connected, size |-> Sockets]
      PROVE  GoesOut(m)
  BY <1>3, KeptIs DEF GoesOut
<1> QED  BY <1>1, <1>2, <1>3 DEF Broadcast

(* An event of the engine, m, is published. *)
Published(m) ==
    /\ wire' \in Seq(Message) /\ Len(wire) \in Nat /\ Len(wire') = Len(wire) + 1
    /\ wire'[Len(wire) + 1] = m /\ \A n \in Sent : wire'[n] = wire[n]
    /\ UNCHANGED <<serverVars, pageVars, missed, faults>>
    /\ alive' = alive

(* What the engine says of ride r when it goes from one phase to another *)
RideEvent(m) ==
    \/ /\ alive /\ phase = "idle" /\ ride' = ride + 1 /\ phase' = "requested"
       /\ m = [kind |-> "trip", id |-> ride + 1, st |-> "requested"]
       /\ "quick_return" \in Races \/ NoPings
    \/ /\ phase # "idle" /\ ride' = ride /\ phase' \in Phases /\ ride \in Rides
       /\ m = [kind |-> "trip", id |-> ride, st |-> phase']
       /\ phase # "requested" => phase' = "requested" /\ phase = "lapsed"
    \/ /\ phase # "idle" /\ ride' = ride /\ phase' = "idle" /\ ride \in Rides
       /\ m = [kind |-> "trip", id |-> ride, st |-> "ended"]
OtherEvent(m) ==
    /\ UNCHANGED engineVars
    /\ \/ /\ phase = "in_transit" /\ m.kind = "ping"
          /\ m.st \in {"in_transit"} \cup {e \in {"requested"} : "early_ping" \in Races}
       \/ /\ m = [kind |-> "profile", id |-> 0, st |-> "idle"]
          /\ alive /\ ("profile_update" \in Races \/ phase = "idle")

(* The engine's steps but for a reset *)
Events == Request \/ Lapse \/ OfferAgain \/ Board \/ End \/ SendPing \/ UpdateProfile

\* What the engine's steps say, and of what
LEMMA EventIs ==
  ASSUME TypeInv, Events
  PROVE  /\ \E m \in Message : Published(m) /\ (RideEvent(m) \/ OtherEvent(m))
         /\ ride' \in 0..MaxRides /\ phase' \in Phases \cup {"idle"} /\ alive' = alive
         /\ Len(wire') <= MaxWire
<1> USE LiveAssumption DEF LiveAssumption, TypeInv
<1> DEFINE M(k, id, st) == [kind |-> k, id |-> id, st |-> st]
<1>0. ASSUME NEW k, NEW id, NEW st, M(k, id, st) \in Message, Emit(k, id, st),
             UNCHANGED <<alive, serverVars, pageVars, missed, faults>>
      PROVE  Published(M(k, id, st)) /\ Len(wire') <= MaxWire
  BY <1>0, EmitIs DEF Published
<1>1. ride \in 0..MaxRides /\ phase \in Phases \cup {"idle"} /\ ride \in Nat
  BY DEF LiveTypeOK
<1>2. ASSUME NEW r \in 1..MaxRides, NEW st \in Phases \cup {"ended"}, Emit("trip", r, st),
             UNCHANGED <<alive, serverVars, pageVars, missed, faults>>,
             ride' \in 0..MaxRides, phase' \in Phases \cup {"idle"}, RideEvent(M("trip", r, st))
      PROVE  /\ \E m \in Message : Published(m) /\ (RideEvent(m) \/ OtherEvent(m))
             /\ ride' \in 0..MaxRides /\ phase' \in Phases \cup {"idle"} /\ alive' = alive
             /\ Len(wire') <= MaxWire
  <2>1. M("trip", r, st) \in Message
    BY DEF Message
  <2> HIDE DEF M
  <2>2. Published(M("trip", r, st)) /\ Len(wire') <= MaxWire
    BY <1>0, <1>2, <2>1 DEF M
  <2> QED  BY <1>2, <2>1, <2>2
<1>3. ASSUME NEW k \in {"ping", "profile"}, NEW st \in Phases \cup {"idle"},
             Emit(k, 0, st), OtherEvent(M(k, 0, st)),
             UNCHANGED <<engineVars, serverVars, pageVars, missed, faults>>
      PROVE  /\ \E m \in Message : Published(m) /\ (RideEvent(m) \/ OtherEvent(m))
             /\ ride' \in 0..MaxRides /\ phase' \in Phases \cup {"idle"} /\ alive' = alive
             /\ Len(wire') <= MaxWire
  <2>1. M(k, 0, st) \in Message
    BY DEF Message
  <2>2. ride' = ride /\ phase' = phase /\ alive' = alive
    BY <1>3 DEF engineVars
  <2> HIDE DEF M
  <2>3. Published(M(k, 0, st)) /\ Len(wire') <= MaxWire
    BY <1>0, <1>3, <2>1, <2>2 DEF M
  <2> QED  BY <1>1, <1>3, <2>1, <2>2, <2>3
<1> DEFINE G == /\ \E m \in Message : Published(m) /\ (RideEvent(m) \/ OtherEvent(m))
                /\ ride' \in 0..MaxRides /\ phase' \in Phases \cup {"idle"} /\ alive' = alive
                /\ Len(wire') <= MaxWire
<1>4. CASE Request
  <2>1. RideEvent(M("trip", ride + 1, "requested"))
    BY <1>4 DEF Request, RideEvent
  <2>2. ride + 1 \in 1..MaxRides /\ ride' = ride + 1 /\ phase' = "requested"
        /\ Emit("trip", ride + 1, "requested")
        /\ UNCHANGED <<alive, serverVars, pageVars, missed, faults>>
    BY <1>1, <1>4 DEF Request
  <2> HIDE DEF M
  <2> QED  BY <1>1, <1>2, <2>1, <2>2 DEF Phases
<1>5. CASE Lapse \/ OfferAgain \/ Board
  <2>1. /\ phase # "idle" /\ ride' = ride /\ phase' \in Phases
        /\ phase # "requested" => phase' = "requested" /\ phase = "lapsed"
        /\ Emit("trip", ride, phase')
        /\ UNCHANGED <<alive, serverVars, pageVars, missed, faults>>
    BY <1>5 DEF Lapse, OfferAgain, Board, Phases
  <2>2. ride \in Rides /\ RideEvent(M("trip", ride, phase'))
    BY <1>1, <2>1 DEF RideEvent, Rides
  <2> HIDE DEF M
  <2> QED  BY <1>1, <1>2, <2>1, <2>2 DEF Rides
<1>6. CASE End
  <2>1. /\ phase # "idle" /\ ride' = ride /\ phase' = "idle" /\ Emit("trip", ride, "ended")
        /\ UNCHANGED <<alive, serverVars, pageVars, missed, faults>>
    BY <1>6 DEF End
  <2>2. ride \in Rides /\ RideEvent(M("trip", ride, "ended"))
    BY <1>1, <2>1 DEF RideEvent, Rides
  <2> HIDE DEF M
  <2> QED  BY <1>1, <1>2, <2>1, <2>2 DEF Rides
<1>7. CASE SendPing
  <2>1. PICK st \in {"in_transit"} \cup {e \in {"requested"} : "early_ping" \in Races} :
           Emit("ping", 0, st)
    BY <1>7 DEF SendPing
  <2>2. OtherEvent(M("ping", 0, st)) /\ st \in Phases \cup {"idle"}
    BY <1>7, <2>1 DEF SendPing, OtherEvent, Phases
  <2> HIDE DEF M
  <2> QED  BY <1>3, <1>7, <2>1, <2>2 DEF SendPing
<1>8. CASE UpdateProfile
  <2>1. OtherEvent(M("profile", 0, "idle"))
    BY <1>8 DEF UpdateProfile, OtherEvent
  <2> HIDE DEF M
  <2> QED  BY <1>3, <1>8, <2>1 DEF UpdateProfile
<1> QED  BY <1>4, <1>5, <1>6, <1>7, <1>8 DEF Events

LEMMA EventTypes ==
  ASSUME TypeInv, Events
  PROVE  TypeInv'
<1>1. PICK m \in Message : Published(m) /\ (RideEvent(m) \/ OtherEvent(m))
  BY EventIs
<1>2. /\ ride' \in 0..MaxRides /\ phase' \in Phases \cup {"idle"} /\ alive' = alive
      /\ Len(wire') <= MaxWire /\ wire' \in Seq(Message)
  BY <1>1, EventIs DEF Published
<1>3. /\ cast' = cast /\ conn' = conn /\ resetting' = resetting /\ readRider' = readRider
      /\ ghosts' = ghosts /\ faults' = faults /\ missed' = missed
      /\ shown' = shown /\ seen' = seen /\ rider' = rider /\ buf' = buf
  BY <1>1 DEF Published, serverVars, pageVars
<1>4. LiveTypeOK'
  BY <1>2, <1>3 DEF TypeInv, LiveTypeOK
<1>5. phase' # "idle" => ride' # 0
  BY <1>1 DEF RideEvent, OtherEvent, engineVars, TypeInv, LiveTypeOK, Rides
<1>6. Sendable(m)
  BY <1>1, <1>2 DEF RideEvent, OtherEvent, Sendable, Phases, Message, Rides, TypeInv, LiveTypeOK
<1>7. \A n \in Sent' : Sendable(wire'[n])
  BY <1>1, <1>6 DEF Published, Sent, TypeInv
<1> QED
  BY <1>3, <1>4, <1>5, <1>7 DEF TypeInv, Sendable

\* Pages' and cast's types after a message has gone out
LEMMA BroadcastTypes ==
  ASSUME TypeInv, NEW m, Sendable(m), Broadcast(m)
  PROVE  /\ Pages' /\ cast' \in [on : BOOLEAN, msg : Message, todo : SUBSET Clients, size : Nat]
         /\ cast'.on => Sendable(cast'.msg)
<1>1. Sockets \in Nat /\ m \in Message
  BY SocketsType DEF TypeInv, Sendable
<1>2. CASE UNCHANGED <<cast, pageVars>>
  BY <1>2 DEF TypeInv, LiveTypeOK, Pages, pageVars, Sendable
<1>3. ASSUME NEW c \in Connected, Handle(c, m),
             cast' = [on |-> TRUE, msg |-> m, todo |-> Connected \ {c}, size |-> Sockets]
      PROVE  /\ Pages' /\ cast' \in [on : BOOLEAN, msg : Message, todo : SUBSET Clients, size : Nat]
             /\ cast'.on => Sendable(cast'.msg)
  BY <1>1, <1>3, HandleTypes DEF TypeInv, Connected, Sendable
<1>4. ASSUME UNCHANGED pageVars,
             cast' = [on |-> TRUE, msg |-> m, todo |-> Connected, size |-> Sockets]
      PROVE  /\ Pages' /\ cast' \in [on : BOOLEAN, msg : Message, todo : SUBSET Clients, size : Nat]
             /\ cast'.on => Sendable(cast'.msg)
  BY <1>1, <1>4 DEF TypeInv, LiveTypeOK, Pages, pageVars, Connected, Sendable
<1> QED  BY <1>2, <1>3, <1>4 DEF Broadcast

ResetMessage == [kind |-> "reset", id |-> 0, st |-> "absent"]
SnapshotMessage == [kind |-> "snapshot", id |-> ActiveRide, st |-> readRider]

LEMMA MessagesAreSendable ==
  ASSUME TypeInv
  PROVE  /\ Sendable(ResetMessage)
         /\ Sendable(SnapshotMessage)
         /\ wire # <<>> => Sendable(Head(wire))
  BY LiveAssumption DEF LiveAssumption, TypeInv, LiveTypeOK, Sendable, Message, Phases, ActiveRide,
     Sent, ResetMessage, SnapshotMessage

\* Every step keeps the types.
LEMMA TypeStep == TypeInv /\ [LiveNext]_liveVars => TypeInv'
<1> SUFFICES ASSUME TypeInv, [LiveNext]_liveVars  PROVE TypeInv'
  OBVIOUS
<1> USE LiveAssumption DEF LiveAssumption
<1>1. CASE Events
  BY <1>1, EventTypes
<1>2. CASE Reset
  BY <1>2 DEF Reset, TypeInv, LiveTypeOK, pageVars, Sent, Sendable
<1>3. ASSUME NEW c \in Clients, FlushBuffer(c)  PROVE TypeInv'
  <2>1. Pinged(rider[c], buf[c]) \in Phases \cup {"idle", "absent"}
    BY <1>3 DEF FlushBuffer, Pinged, TypeInv, LiveTypeOK
  <2>2. /\ rider' \in [Clients -> Phases \cup {"idle", "absent"}]
        /\ buf' \in [Clients -> Phases \cup {"none"}]
    BY <1>3, <2>1 DEF FlushBuffer, TypeInv, LiveTypeOK
  <2> QED
    BY <1>3, <2>2
    DEF FlushBuffer, TypeInv, LiveTypeOK, engineVars, serverVars, Sent, Sendable
<1>4. ASSUME NEW c \in Clients, Join(c)  PROVE TypeInv'
  BY <1>4 DEF Join, LoopFree, TypeInv, LiveTypeOK, engineVars, pageVars, Sent, Sendable
<1>5. ASSUME NEW c \in Clients, SendSnapshot(c)  PROVE TypeInv'
  <2>1. Pages'
    BY <1>5, MessagesAreSendable, HandleTypes DEF SendSnapshot, SnapshotMessage, TypeInv
  <2>2. /\ conn[c] = "reading" /\ conn' = [conn EXCEPT ![c] = "up"] /\ readRider' = "absent"
        /\ UNCHANGED <<ride, phase, alive, wire, cast, resetting, ghosts, missed, faults>>
    BY <1>5 DEF SendSnapshot, engineVars
  <2>3. LiveTypeOK'
    BY <2>1, <2>2 DEF Pages, TypeInv, LiveTypeOK
  <2> QED  BY <2>2, <2>3 DEF TypeInv, Sent, Sendable
<1>6. CASE FanOut
  <2>1. Broadcast(Head(wire)) /\ wire # <<>> /\ wire' = Tail(wire) /\ resetting' = resetting
    BY <1>6 DEF FanOut
  <2>2. /\ Pages' /\ cast' \in [on : BOOLEAN, msg : Message, todo : SUBSET Clients, size : Nat]
        /\ cast'.on => Sendable(cast'.msg)
    BY <2>1, BroadcastTypes, MessagesAreSendable
  <2>3. UNCHANGED <<engineVars, conn, readRider, ghosts, missed, faults>>
    BY <2>1, BroadcastIs DEF TypeInv
  <2>4. wire' \in Seq(Message) /\ Len(wire') <= MaxWire /\ \A n \in Sent' : Sendable(wire'[n])
    BY <2>1, PopIs DEF TypeInv, Sent
  <2> QED  BY <2>1, <2>2, <2>3, <2>4 DEF Pages, TypeInv, LiveTypeOK, engineVars, Sendable
<1>7. CASE FanOutReset
  <2>1. Broadcast(ResetMessage) /\ wire' = wire /\ resetting' = FALSE
    BY <1>7 DEF FanOutReset, ResetMessage
  <2>2. /\ Pages' /\ cast' \in [on : BOOLEAN, msg : Message, todo : SUBSET Clients, size : Nat]
        /\ cast'.on => Sendable(cast'.msg)
    BY <2>1, BroadcastTypes, MessagesAreSendable
  <2>3. UNCHANGED <<engineVars, conn, readRider, ghosts, missed, faults>>
    BY <2>1, BroadcastIs DEF TypeInv
  <2> QED  BY <2>1, <2>2, <2>3 DEF Pages, TypeInv, LiveTypeOK, engineVars, Sendable, Sent
<1>8. ASSUME NEW c \in Clients, Send(c)  PROVE TypeInv'
  <2>1. Pages'
    BY <1>8, HandleTypes DEF Send, TypeInv
  <2> QED  BY <1>8, <2>1 DEF Send, Pages, TypeInv, LiveTypeOK, engineVars, Sent, Sendable
<1>9. CASE EndCast
  BY <1>9
  DEF EndCast, NoCast, Ping, Message, TypeInv, LiveTypeOK, engineVars, pageVars, Sent, Sendable
<1>10. ASSUME NEW c \in Clients, Drop(c)  PROVE TypeInv'
  <2>1. ghosts' \in 0..MaxFaults /\ faults' \in 0..MaxFaults /\ ghosts' <= faults'
    BY <1>10 DEF Drop, TypeInv, LiveTypeOK
  <2>2. /\ cast' \in [on : BOOLEAN, msg : Message, todo : SUBSET Clients, size : Nat]
        /\ cast'.on = cast.on /\ cast'.msg = cast.msg
    BY <1>10 DEF Drop, TypeInv, LiveTypeOK
  <2>3. /\ conn' \in [Clients -> {"down", "reading", "up"}]
        /\ \A d \in Clients : conn'[d] = "reading" => conn[d] = "reading"
    BY <1>10 DEF Drop, TypeInv, LiveTypeOK
  <2> QED
    BY <1>10, <2>1, <2>2, <2>3 DEF Drop, TypeInv, LiveTypeOK, engineVars, pageVars, Sent, Sendable
<1>11. CASE NoticeDrop
  BY <1>11 DEF NoticeDrop, TypeInv, LiveTypeOK, engineVars, pageVars, Sent, Sendable
<1>12. CASE LoseSubscription
  BY <1>12
  DEF LoseSubscription, Connected, TypeInv, LiveTypeOK, engineVars, serverVars, pageVars,
      Sent, Sendable
<1>13. CASE UNCHANGED liveVars
  BY <1>13 DEF liveVars, TypeInv, LiveTypeOK, engineVars, serverVars, pageVars, Sent, Sendable
<1> QED
  BY <1>1, <1>2, <1>3, <1>4, <1>5, <1>6, <1>7, <1>8, <1>9, <1>10, <1>11, <1>12, <1>13
  DEF LiveNext, Engine, Server, Fault, Events

LEMMA TypeStart == LiveInit => TypeInv
<1> SUFFICES ASSUME LiveInit  PROVE TypeInv
  OBVIOUS
<1> USE LiveAssumption DEF LiveAssumption
<1>1. NoCast \in [on : BOOLEAN, msg : Message, todo : SUBSET Clients, size : Nat] /\ ~NoCast.on
  BY DEF NoCast, Ping, Message
<1>2. wire \in Seq(Message) /\ Len(wire) = 0
  BY DEF LiveInit
<1>3. LiveTypeOK
  <2>1. MaxRides \in Nat /\ MaxWire \in Nat /\ MaxFaults \in Nat
    OBVIOUS
  <2>2. /\ ride \in 0..MaxRides /\ ghosts \in 0..MaxFaults /\ faults \in 0..MaxFaults
        /\ Len(wire) <= MaxWire
    BY <1>2, <2>1 DEF LiveInit
  <2>3. /\ conn \in [Clients -> {"down", "reading", "up"}]
        /\ \A c, d \in Clients : conn[c] = "reading" /\ conn[d] = "reading" => c = d
        /\ shown \in [Clients -> SUBSET Rides] /\ seen \in [Clients -> SUBSET Rides]
        /\ rider \in [Clients -> Phases \cup {"idle", "absent"}]
        /\ buf \in [Clients -> Phases \cup {"none"}]
    BY DEF LiveInit
  <2> QED  BY <1>1, <1>2, <2>2, <2>3 DEF LiveInit, LiveTypeOK
<1>4. ghosts <= faults /\ phase = "idle" /\ ~cast.on /\ Sent = {}
  BY <1>1, <1>2 DEF LiveInit, Sent
<1> QED  BY <1>3, <1>4 DEF TypeInv

\* LiveTypeOK holds for any clients, rides and faults, whatever races.
THEOREM LiveTypes == LiveSpec => []LiveTypeOK
<1>1. TypeInv => LiveTypeOK  BY DEF TypeInv
<1> QED  BY <1>1, TypeStart, TypeStep, PTL DEF LiveSpec

-----------------------------------------------------------------------------
(* A ride that ended stays ended *)

\* The engine says nothing of an ended ride.
LEMMA EndEvent ==
  ASSUME TypeInv, EndInv, Events
  PROVE  EndInv'
<1>1. PICK m \in Message : Published(m) /\ (RideEvent(m) \/ OtherEvent(m))
  BY EventIs
<1>2. ride \in Nat /\ Len(wire) \in Nat
  BY LiveAssumption DEF LiveAssumption, TypeInv, LiveTypeOK
<1>3. /\ ride' \in Nat /\ ride <= ride' /\ \A r \in Nat : Over(r) => Over(r)'
      /\ m.kind = "trip" => /\ m.id \in 1..ride' /\ m.st \in Phases \cup {"ended"}
                            /\ \A r \in Nat : Over(r) => r < m.id
                            /\ m.st = "ended" => Over(m.id)'
      /\ m.kind # "trip" => m.st # "ended"
      /\ m.kind \in {"trip", "ping", "profile"}
  <2>1. CASE RideEvent(m)
    <3>1. ride' \in Nat /\ ride <= ride' /\ \A r \in Nat : Over(r) => Over(r)'
      BY <1>2, <2>1 DEF RideEvent, Over
    <3>2. /\ m.kind = "trip" /\ m.id \in 1..ride' /\ m.st \in Phases \cup {"ended"}
          /\ m.st = "ended" => m.id = ride /\ ride' = ride /\ phase' = "idle"
          /\ (m.id = ride /\ phase # "idle") \/ m.id = ride + 1
      BY <1>2, <2>1 DEF RideEvent, Phases, Rides
    <3>3. \A r \in Nat : Over(r) => r < m.id
      BY <1>2, <3>2 DEF Over
    <3>4. m.st = "ended" => Over(m.id)'
      BY <3>2 DEF Over
    <3> QED  BY <1>2, <3>1, <3>2, <3>3, <3>4
  <2>2. CASE OtherEvent(m)
    BY <1>2, <2>2 DEF OtherEvent, Over, engineVars
  <2> QED  BY <1>1, <2>1, <2>2
<1>4. cast' = cast /\ shown' = shown /\ seen' = seen
  BY <1>1 DEF Published, serverVars, pageVars
<1>5. \A n \in Sent' : \/ n \in Sent /\ wire'[n] = wire[n]
                       \/ n = Len(wire) + 1 /\ wire'[n] = m
  <2>1. Sent' = 1..(Len(wire) + 1) /\ Sent = 1..Len(wire)
    BY <1>1 DEF Published, Sent
  <2>2. /\ wire'[Len(wire) + 1] = m /\ \A n \in Sent : wire'[n] = wire[n]
    BY <1>1 DEF Published
  <2> QED  BY <1>2, <2>1, <2>2
<1>6. \A n \in Sent : wire[n].kind = "trip" => wire[n].id \in Nat
  BY <1>2 DEF EndInv, WireOK, MessageOK
<1>7. WireOK'
  <2>1. \A n \in Sent' : MessageOK(wire[n])' /\ wire'[n].kind \in {"trip", "ping", "profile"}
    BY <1>2, <1>3, <1>5 DEF EndInv, WireOK, MessageOK, IsEnd
  <2>2. ASSUME NEW i \in Sent', NEW j \in Sent', i < j, IsEnd(wire'[i]), wire'[j].kind = "trip"
        PROVE  wire'[i].id < wire'[j].id
    <3>1. i \in Sent /\ wire'[i] = wire[i]
      <4>1. j <= Len(wire) + 1 /\ i \in Nat /\ j \in Nat
        BY <1>1, <1>2, <2>2 DEF Published, Sent
      <4> QED  BY <1>2, <1>5, <2>2, <4>1
    <3>2. CASE j \in Sent /\ wire'[j] = wire[j]
      BY <2>2, <3>1, <3>2 DEF EndInv, WireOK
    <3>3. CASE wire'[j] = m
      <4>1. MessageOK(wire[i]) /\ IsEnd(wire[i]) /\ wire[i].id \in Nat
        BY <1>6, <2>2, <3>1 DEF EndInv, WireOK, IsEnd
      <4> QED  BY <1>3, <2>2, <3>1, <3>3, <4>1 DEF MessageOK
    <3> QED  BY <1>5, <3>2, <3>3
  <2> QED  BY <2>1, <2>2 DEF WireOK, IsEnd
<1>8. CastOK'
  BY <1>2, <1>3, <1>4, <1>5 DEF EndInv, CastOK, MessageOK, IsEnd
<1>9. ASSUME NEW c \in Clients  PROVE Told(c)'
  <2>1. \A r \in seen[c] : r \in Nat
    BY LiveAssumption DEF LiveAssumption, TypeInv, LiveTypeOK, Rides
  <2> QED  BY <1>3, <1>4, <1>5, <2>1 DEF EndInv, Told, Owed
<1> QED  BY <1>7, <1>8, <1>9 DEF EndInv

\* Nothing is sent, and perhaps all messages on the wire are lost.
LEMMA EndCalm ==
  ASSUME TypeInv, EndInv, UNCHANGED <<shown, seen, ride>>, phase' \in {phase, "idle"},
         wire' \in {wire, <<>>},
         cast'.on => cast.on /\ cast'.msg = cast.msg /\ cast'.todo \subseteq cast.todo
  PROVE  EndInv'
<1>1. \A r : Over(r) => Over(r)'
  BY DEF Over
<1>2. \A n \in Sent' : n \in Sent /\ wire'[n] = wire[n]
  BY DEF Sent
<1>3. WireOK'
  BY <1>1, <1>2 DEF EndInv, WireOK, MessageOK, IsEnd
<1>4. CastOK'
  BY <1>1, <1>2 DEF EndInv, CastOK, MessageOK, IsEnd
<1>5. \A c \in Clients : Told(c)'
  BY <1>1, <1>2 DEF EndInv, Told, Owed
<1> QED  BY <1>3, <1>4, <1>5 DEF EndInv

\* What page c knows of ended rides after a message that speaks of none of them
LEMMA TellingIs ==
  ASSUME NEW c \in Clients, NEW m, Handles(c, m), MessageOK(m),
         \A r \in seen[c] : r \notin shown[c], UNCHANGED <<ride, phase>>,
         \A r \in seen[c] : Over(r),
         m.kind \in {"trip", "snapshot"} => m.id \notin seen[c]
  PROVE  /\ \A r \in seen'[c] : Over(r)' /\ r \notin shown'[c]
         /\ \A r \in seen'[c] : r \in seen[c] \/ (IsEnd(m) /\ r = m.id)
<1>1. \A r : Over(r)' = Over(r)
  BY DEF Over
<1>2. \A r \in seen'[c] : r \in seen[c] \/ (IsEnd(m) /\ r = m.id)
  BY DEF Handles, MessageOK, IsEnd
<1>3. \A r \in seen'[c] : r \notin shown'[c]
  BY <1>2, RidesAfterIs DEF Handles, Places, IsEnd
<1> QED  BY <1>1, <1>2, <1>3 DEF MessageOK

\* A message goes from the wire to the pages.
LEMMA EndFanOut ==
  ASSUME TypeInv, EndInv, FanOut
  PROVE  EndInv'
<1> DEFINE m == wire[1]
<1>1. Broadcast(m) /\ wire # <<>> /\ wire' = Tail(wire)
  BY PopIs DEF FanOut, TypeInv
<1>2. GoesOut(m) /\ ~cast.on /\ ride' = ride /\ phase' = phase
  BY <1>1, BroadcastIs DEF TypeInv, engineVars
<1>3. 1 \in Sent /\ \A n \in Sent' : n + 1 \in Sent /\ wire'[n] = wire[n + 1] /\ 1 < n + 1
  BY <1>1, PopIs DEF Sent, TypeInv
<1>4. \A r : Over(r)' = Over(r)
  BY <1>2 DEF Over
<1>5. WireOK'
  <2>1. \A n \in Sent' : MessageOK(wire[n])' /\ wire'[n].kind \in {"trip", "ping", "profile"}
    BY <1>2, <1>3, <1>4 DEF EndInv, WireOK, MessageOK, IsEnd
  <2>2. \A i, j \in Sent' : i < j => i + 1 < j + 1
    BY DEF Sent
  <2> QED  BY <1>3, <2>1, <2>2 DEF EndInv, WireOK, IsEnd
<1>6. CastOK'
  BY <1>2, <1>3, <1>4 DEF EndInv, WireOK, CastOK, MessageOK, IsEnd, GoesOut
<1>7. ASSUME NEW c \in Clients  PROVE Told(c)'
  <2>1. CASE Handles(c, m) /\ ~Owed(c)'
    <3>1. MessageOK(m) /\ m.kind \in {"trip", "ping", "profile"}
      BY <1>3 DEF EndInv, WireOK
    <3>2. /\ \A r \in seen'[c] : Over(r)' /\ r \notin shown'[c]
          /\ \A r \in seen'[c] : r \in seen[c] \/ (IsEnd(m) /\ r = m.id)
      BY <1>2, <1>3, <2>1, <3>1, TellingIs DEF EndInv, Told
    <3>3. \A n \in Sent', r \in seen'[c] : wire'[n].kind = "trip" => wire'[n].id # r
      <4> SUFFICES ASSUME NEW n \in Sent', NEW r \in seen'[c], wire'[n].kind = "trip",
                          wire'[n].id = r
                   PROVE  FALSE
        OBVIOUS
      <4>1. r \notin seen[c]
        BY <1>3 DEF EndInv, Told
      <4>2. IsEnd(m) /\ m.id = wire[n + 1].id /\ m.id < wire[n + 1].id
        BY <1>3, <3>2, <4>1 DEF EndInv, WireOK
      <4>3. m.id \in 1..ride /\ ride \in Nat
        BY <3>1, <4>2 DEF MessageOK, IsEnd, TypeInv, LiveTypeOK
      <4> QED  BY <4>2, <4>3
    <3> QED  BY <2>1, <3>2, <3>3 DEF Told
  <2>2. CASE Keeps(c) /\ (Owed(c)' => cast'.msg = m)
    BY <1>3, <1>4, <2>2 DEF EndInv, Told, Keeps
  <2>3. (Handles(c, m) /\ ~Owed(c)') \/ (Keeps(c) /\ (Owed(c)' => cast'.msg = m))
    BY <1>2, KeptIs DEF GoesOut, Owed
  <2> QED  BY <2>1, <2>2, <2>3
<1> QED  BY <1>5, <1>6, <1>7 DEF EndInv

\* The news of a reset speaks of no ride.
LEMMA EndReset ==
  ASSUME TypeInv, EndInv, FanOutReset
  PROVE  EndInv'
<1>1. Broadcast(ResetMessage) /\ wire' = wire
  BY DEF FanOutReset, ResetMessage
<1>2. GoesOut(ResetMessage) /\ ~cast.on /\ ride' = ride /\ phase' = phase
  BY <1>1, BroadcastIs DEF TypeInv, engineVars
<1>3. /\ MessageOK(ResetMessage) /\ ResetMessage.kind = "reset"
      /\ \A r : Over(r)' = Over(r)
  BY <1>2 DEF MessageOK, ResetMessage, IsEnd, Over
<1> HIDE DEF ResetMessage
<1>4. WireOK'
  BY <1>1, <1>2, <1>3 DEF EndInv, WireOK, MessageOK, IsEnd, Sent
<1>5. CastOK'
  BY <1>2, <1>3 DEF CastOK, MessageOK, IsEnd, GoesOut
<1>6. ASSUME NEW c \in Clients  PROVE Told(c)'
  <2>1. CASE Handles(c, ResetMessage) /\ ~Owed(c)'
    <3>1. /\ \A r \in seen'[c] : Over(r)' /\ r \notin shown'[c]
          /\ \A r \in seen'[c] : r \in seen[c]
      BY <1>2, <1>3, <2>1, TellingIs DEF EndInv, Told, IsEnd
    <3> QED  BY <1>1, <2>1, <3>1 DEF EndInv, Told, Sent
  <2>2. CASE Keeps(c) /\ (Owed(c)' => cast'.msg = ResetMessage)
    BY <1>1, <1>3, <2>2 DEF EndInv, Told, Keeps, Sent
  <2>3. \/ Handles(c, ResetMessage) /\ ~Owed(c)'
        \/ Keeps(c) /\ (Owed(c)' => cast'.msg = ResetMessage)
    BY <1>2, KeptIs DEF GoesOut, Owed
  <2> QED  BY <2>1, <2>2, <2>3
<1> QED  BY <1>4, <1>5, <1>6 DEF EndInv

\* Page c is sent m, which comes from nowhere else than the broadcast or a snapshot.
LEMMA EndHandle ==
  ASSUME TypeInv, EndInv, NEW c \in Clients, NEW m, Handle(c, m), MessageOK(m),
         m.kind \in {"trip", "snapshot"} => m.id \notin seen[c],
         IsEnd(m) => \A n \in Sent : wire[n].kind = "trip" => m.id < wire[n].id,
         UNCHANGED <<ride, phase, wire>>,
         cast'.on = cast.on, cast'.msg = cast.msg, cast'.todo \subseteq cast.todo,
         IsEnd(m) => ~Owed(c)'
  PROVE  EndInv'
<1>1. \A r : Over(r)' = Over(r)
  BY DEF Over
<1>2. WireOK'
  BY <1>1 DEF EndInv, WireOK, MessageOK, IsEnd, Sent
<1>3. CastOK'
  BY <1>1 DEF EndInv, CastOK, MessageOK, IsEnd, Sent
<1>4. Handles(c, m) /\ \A d \in Clients : d # c => Keeps(d)
  BY HandleIs DEF TypeInv
<1>5. Told(c)'
  <2>1. /\ \A r \in seen'[c] : Over(r)' /\ r \notin shown'[c]
        /\ \A r \in seen'[c] : r \in seen[c] \/ (IsEnd(m) /\ r = m.id)
    BY <1>4, TellingIs DEF EndInv, Told
  <2>2. IsEnd(m) => \A n \in Sent : wire[n].kind = "trip" => wire[n].id # m.id
    BY DEF MessageOK, IsEnd, TypeInv, LiveTypeOK
  <2> QED  BY <2>1, <2>2 DEF EndInv, Told, Sent, Owed
<1>6. ASSUME NEW d \in Clients, d # c  PROVE Told(d)'
  BY <1>1, <1>4, <1>6 DEF EndInv, Told, Keeps, Sent, Owed
<1> QED  BY <1>2, <1>3, <1>5, <1>6 DEF EndInv

\* No step speaks of an ended ride to a page that knows.
LEMMA EndStep == TypeInv /\ EndInv /\ [LiveNext]_liveVars => EndInv'
<1> SUFFICES ASSUME TypeInv, EndInv, [LiveNext]_liveVars  PROVE EndInv'
  OBVIOUS
<1>1. CASE Events
  BY <1>1, EndEvent
<1>2. CASE FanOut
  BY <1>2, EndFanOut
<1>3. CASE FanOutReset
  BY <1>3, EndReset
<1>4. ASSUME NEW c \in Clients, Send(c)  PROVE EndInv'
  <2>1. /\ Handle(c, cast.msg) /\ Owed(c) /\ UNCHANGED <<ride, phase, wire>>
        /\ cast'.on = cast.on /\ cast'.msg = cast.msg /\ cast'.todo = cast.todo \ {c}
    BY <1>4 DEF Send, Owed, engineVars, TypeInv, LiveTypeOK
  <2>2. /\ MessageOK(cast.msg) /\ cast.msg.kind # "snapshot"
        /\ IsEnd(cast.msg) => \A n \in Sent : wire[n].kind = "trip" => cast.msg.id < wire[n].id
        /\ cast.msg.kind = "trip" => cast.msg.id \notin seen[c]
    BY <2>1 DEF EndInv, CastOK, Told, Owed
  <2>3. ~Owed(c)'
    BY <2>1 DEF Owed
  <2> QED  BY <2>1, <2>2, <2>3, EndHandle
<1>5. ASSUME NEW c \in Clients, SendSnapshot(c)  PROVE EndInv'
  <2>1. Handle(c, SnapshotMessage) /\ UNCHANGED <<ride, phase, wire, cast>>
    BY <1>5 DEF SendSnapshot, SnapshotMessage, engineVars
  <2>2. /\ SnapshotMessage.kind = "snapshot" /\ SnapshotMessage.st # "ended"
        /\ SnapshotMessage.id \notin seen[c]
    <3>1. ActiveRide = 0 \/ (phase # "idle" /\ ActiveRide = ride /\ ride \in Nat)
      BY DEF ActiveRide, TypeInv, LiveTypeOK
    <3>2. \A r \in seen[c] : r # 0 /\ Over(r)
      BY DEF TypeInv, LiveTypeOK, Rides, EndInv, Told
    <3> QED  BY <3>1, <3>2 DEF SnapshotMessage, Over, TypeInv, LiveTypeOK, Phases
  <2>3. MessageOK(SnapshotMessage) /\ ~IsEnd(SnapshotMessage)
    BY <2>2 DEF MessageOK, IsEnd
  <2> QED  BY <2>1, <2>2, <2>3, EndHandle
<1>6. CASE Reset
  BY <1>6, EndCalm DEF Reset, pageVars
<1>7. ASSUME NEW c \in Clients, FlushBuffer(c) \/ Join(c)  PROVE EndInv'
  BY <1>7, EndCalm DEF FlushBuffer, Join, engineVars, serverVars, pageVars
<1>8. ASSUME NEW c \in Clients, Drop(c)  PROVE EndInv'
  <2>1. cast'.on = cast.on /\ cast'.msg = cast.msg /\ cast'.todo = cast.todo \ {c}
    BY <1>8 DEF Drop, TypeInv, LiveTypeOK
  <2> QED  BY <1>8, <2>1, EndCalm DEF Drop, engineVars, pageVars
<1>9. CASE EndCast
  BY <1>9, EndCalm DEF EndCast, NoCast, engineVars, pageVars
<1>10. CASE NoticeDrop \/ LoseSubscription \/ UNCHANGED liveVars
  BY <1>10, EndCalm DEF NoticeDrop, LoseSubscription, liveVars, engineVars, serverVars, pageVars
<1> QED
  BY <1>1, <1>2, <1>3, <1>4, <1>5, <1>6, <1>7, <1>8, <1>9, <1>10
  DEF LiveNext, Engine, Server, Fault, Events

\* EndedStaysEnded, whatever races: of a ride that a page was told the end of, nobody
\* speaks to that page again.
THEOREM EndedForGood == LiveSpec => EndedStaysEnded
<1>1. LiveInit => EndInv
  BY DEF LiveInit, EndInv, WireOK, CastOK, Told, Sent, NoCast
<1>2. EndInv /\ EndInv' /\ TypeInv /\ [LiveNext]_liveVars =>
        [\A c \in Clients : shown'[c] \cap seen[c] = {}]_liveVars
  <2> SUFFICES ASSUME EndInv, EndInv', TypeInv, LiveNext, NEW c \in Clients
               PROVE  shown'[c] \cap seen[c] = {}
    OBVIOUS
  <2>1. seen[c] \subseteq seen'[c]
    <3>1. CASE seen' = seen
      BY <3>1
    <3>2. ASSUME NEW d \in Clients, NEW m, Handle(d, m)  PROVE seen[c] \subseteq seen'[c]
      BY <3>2, HandleIs DEF TypeInv, Handles, Keeps
    <3> QED
      BY <3>1, <3>2
      DEF LiveNext, Engine, Server, Fault, Request, Lapse, OfferAgain, Board, End, SendPing,
          UpdateProfile, Reset, FlushBuffer, Join, SendSnapshot, FanOut, FanOutReset, Send,
          EndCast, Drop, NoticeDrop, LoseSubscription, Broadcast, Connected, pageVars
  <2> QED  BY <2>1 DEF EndInv, Told
<1> QED  BY <1>1, <1>2, TypeStart, TypeStep, EndStep, PTL DEF LiveSpec, EndedStaysEnded

-----------------------------------------------------------------------------
(* What the messages in flight will make of a page *)

\* What is said of the rider, and the phase it says the rider is in
Determines(m) == m.kind \in {"trip", "profile"}
StateOf(m) == IF m.st = "ended" THEN "idle" ELSE m.st

\* Nothing is said of the rider after position n of the wire.
Last(n) == \A k \in Sent : k > n => ~Determines(wire[k])
NoNews  == Last(0)

\* The end of ride r is on the wire after position n.
EndFollows(r, n) == \E k \in Sent : k > n /\ IsEnd(wire[k]) /\ wire[k].id = r

\* A ride that is placed and is not the current one is taken away later.
EndsFollow ==
    /\ \A n \in Sent : Places(wire[n]) => wire[n].id = CurrentRide \/ EndFollows(wire[n].id, n)
    /\ cast.on /\ Places(cast.msg) => cast.msg.id = CurrentRide \/ EndFollows(cast.msg.id, 0)

\* The last that is said of the rider is true, if nothing races.
NewsAreTrue ==
  Races = {} =>
    /\ \A n \in Sent : Determines(wire[n]) /\ Last(n) => StateOf(wire[n]) = phase
    /\ cast.on /\ Determines(cast.msg) /\ NoNews => StateOf(cast.msg) = phase

\* Pings say that the rider is on the way, and none is left when a ride begins, if
\* nothing races.
PingInv ==
  Races = {} =>
    /\ \A n \in Sent : wire[n].kind = "ping" => wire[n].st = "in_transit"
    /\ cast.on /\ cast.msg.kind = "ping" => cast.msg.st = "in_transit"
    /\ \A c \in Clients : buf[c] \in {"none", "in_transit"}
    /\ NoPings \/ phase \in {"in_transit", "idle"}

\* After a reset nothing is said any more but that.
ResetInv ==
    /\ ~alive => wire = <<>> /\ phase = "idle" /\ (cast.on => cast.msg.kind = "reset")
    /\ resetting => ~alive /\ ~cast.on
    /\ cast.on /\ cast.msg.kind = "reset" => ~alive /\ cast.msg.st = "absent"

\* A broadcast goes to pages that have their snapshot.
TodoInv == cast.on => \A c \in cast.todo : c \in Clients /\ conn[c] = "up"

\* What page c shows is right, or will be put right by a message it will be sent.
RidesOK(c) ==
    /\ \A r \in shown[c] :
         \/ r = CurrentRide \/ EndFollows(r, 0) \/ resetting
         \/ Owed(c) /\ (cast.msg.kind = "reset" \/ (IsEnd(cast.msg) /\ cast.msg.id = r))
    /\ ActiveRide # 0 => \/ ActiveRide \in shown[c]
                         \/ \E n \in Sent : Places(wire[n]) /\ wire[n].id = ActiveRide
                         \/ Owed(c) /\ Places(cast.msg) /\ cast.msg.id = ActiveRide
RiderOK(c, st) ==
    /\ alive => /\ st # "absent"
                /\ Races = {} /\ NoNews /\ ~(Owed(c) /\ Determines(cast.msg)) => st = phase
    /\ ~alive => resetting \/ Owed(c) \/ st = "absent"

PageOK(c) ==
    c \notin missed => /\ conn[c] = "up" => RidesOK(c) /\ RiderOK(c, rider[c])
                       /\ conn[c] = "reading" => RiderOK(c, readRider)

ViewInv == /\ EndsFollow /\ NewsAreTrue /\ PingInv /\ ResetInv /\ TodoInv
           /\ \A c \in Clients : PageOK(c)

-----------------------------------------------------------------------------
(* The engine says something *)

LEMMA ViewEvent ==
  ASSUME TypeInv, EndInv, ViewInv, Events, "reset_overtakes" \notin Races
  PROVE  ViewInv'
<1>1. PICK m \in Message : Published(m) /\ (RideEvent(m) \/ OtherEvent(m))
  BY EventIs
<1>2. /\ ride \in Nat /\ Len(wire) \in Nat /\ Len(wire) + 1 \in Sent'
      /\ \A n \in Sent : n \in Sent' /\ n < Len(wire) + 1
  BY <1>1, LiveAssumption DEF LiveAssumption, TypeInv, LiveTypeOK, Published, Sent
<1>3. /\ cast' = cast /\ resetting' = resetting /\ conn' = conn /\ readRider' = readRider
      /\ missed' = missed /\ shown' = shown /\ rider' = rider /\ buf' = buf /\ alive' = alive
  BY <1>1 DEF Published, serverVars, pageVars
<1>4. \A n \in Sent' : \/ n \in Sent /\ wire'[n] = wire[n]
                       \/ n = Len(wire) + 1 /\ wire'[n] = m
  <2>1. Sent' = 1..(Len(wire) + 1) /\ Sent = 1..Len(wire)
    BY <1>1 DEF Published, Sent
  <2>2. /\ wire'[Len(wire) + 1] = m /\ \A n \in Sent : wire'[n] = wire[n]
    BY <1>1 DEF Published
  <2> QED  BY <1>2, <2>1, <2>2
<1>5. wire'[Len(wire) + 1] = m /\ \A n \in Sent : wire'[n] = wire[n]
  BY <1>1 DEF Published
<1>6. alive
  BY <1>1 DEF ViewInv, ResetInv, RideEvent, OtherEvent
<1>7. \A r, n : EndFollows(r, n) => EndFollows(r, n)'
  BY <1>2, <1>5 DEF EndFollows, IsEnd
<1>8. \A n \in Sent : Last(n)' => Last(n)
  BY <1>2, <1>5 DEF Last, Determines
<1>9. NoNews' => NoNews /\ ~Determines(m)
  BY <1>2, <1>5 DEF NoNews, Last, Determines
<1>10. \A n \in Sent : Last(n)' => ~Determines(m)
  BY <1>2, <1>5 DEF Last, Determines
\* What becomes of the current ride
<1> DEFINE Turn ==
       /\ Places(m) => m.id = CurrentRide'
       /\ \/ CurrentRide' = CurrentRide
          \/ CurrentRide = 0
          \/ IsEnd(m) /\ m.id = CurrentRide
       /\ Races = {} /\ Determines(m) => StateOf(m) = phase'
       /\ ~Determines(m) => phase' = phase
       /\ \/ ActiveRide' = 0 \/ ActiveRide' = ActiveRide
          \/ Places(m) /\ m.id = ActiveRide'
<1>11. Turn
  <2>1. ASSUME phase = "idle", ride' = ride + 1, phase' = "requested",
               m = [kind |-> "trip", id |-> ride + 1, st |-> "requested"]
        PROVE  Turn
    BY <2>1 DEF CurrentRide, ActiveRide, Places, IsEnd, Determines, StateOf
  <2>2. ASSUME phase # "idle", ride' = ride, phase' \in Phases,
               m = [kind |-> "trip", id |-> ride, st |-> phase']
        PROVE  Turn
    BY <2>2 DEF CurrentRide, ActiveRide, Places, IsEnd, Determines, StateOf, Phases
  <2>3. ASSUME phase # "idle", ride' = ride, phase' = "idle",
               m = [kind |-> "trip", id |-> ride, st |-> "ended"]
        PROVE  Turn
    BY <2>3 DEF CurrentRide, ActiveRide, Places, IsEnd, Determines, StateOf
  <2>4. ASSUME UNCHANGED engineVars, m.kind = "ping"
        PROVE  Turn
    BY <2>4 DEF CurrentRide, ActiveRide, Places, IsEnd, Determines, StateOf, engineVars
  <2>5. ASSUME UNCHANGED engineVars, m = [kind |-> "profile", id |-> 0, st |-> "idle"],
               Races = {} => phase = "idle"
        PROVE  Turn
    BY <2>5 DEF CurrentRide, ActiveRide, Places, IsEnd, Determines, StateOf, engineVars
  <2> QED  BY <1>1, <2>1, <2>2, <2>3, <2>4, <2>5 DEF RideEvent, OtherEvent
<1> HIDE DEF Turn
<1>12. \A r, n : IsEnd(m) /\ m.id = r /\ (n \in Sent \/ n = 0) => EndFollows(r, n)'
  BY <1>2, <1>5 DEF EndFollows, IsEnd
<1>13. EndsFollow'
  <2>0. \A r, n : (r = CurrentRide \/ EndFollows(r, n)) /\ r # 0 /\ (n \in Sent \/ n = 0) =>
            r = CurrentRide' \/ EndFollows(r, n)'
    BY <1>7, <1>11, <1>12 DEF Turn
  <2>1. \A n \in Sent : Places(wire[n]) => wire[n].id # 0
    BY DEF TypeInv, Sendable, Places
  <2>2. cast.on /\ Places(cast.msg) => cast.msg.id # 0
    BY DEF TypeInv, Sendable, Places
  <2>3. ASSUME NEW n \in Sent', Places(wire'[n]), NEW r, r = wire'[n].id
        PROVE  r = CurrentRide' \/ EndFollows(r, n)'
    <3>1. CASE n \in Sent /\ wire'[n] = wire[n]
      <4>1. Places(wire[n]) /\ r = wire[n].id
        BY <2>3, <3>1
      <4>2. (r = CurrentRide \/ EndFollows(r, n)) /\ r # 0
        BY <2>1, <3>1, <4>1 DEF ViewInv, EndsFollow
      <4> QED  BY <2>0, <3>1, <4>2
    <3> QED  BY <1>4, <1>11, <2>3, <3>1 DEF Turn
  <2>4. ASSUME cast.on, Places(cast.msg), NEW r, r = cast.msg.id
        PROVE  r = CurrentRide' \/ EndFollows(r, 0)'
    BY <2>0, <2>2, <2>4 DEF ViewInv, EndsFollow
  <2> QED  BY <1>3, <2>3, <2>4 DEF EndsFollow, Places, EndFollows
<1>14. NewsAreTrue'
  <2> SUFFICES ASSUME Races = {}  PROVE NewsAreTrue'
    BY DEF NewsAreTrue
  <2>1. \A n \in Sent' : Determines(wire'[n]) /\ Last(n)' => StateOf(wire'[n]) = phase'
    BY <1>4, <1>8, <1>10, <1>11 DEF Turn, ViewInv, NewsAreTrue
  <2>2. cast.on /\ Determines(cast.msg) /\ NoNews' => StateOf(cast.msg) = phase'
    BY <1>9, <1>11 DEF Turn, ViewInv, NewsAreTrue
  <2> QED  BY <1>3, <2>1, <2>2 DEF NewsAreTrue, Determines, StateOf
<1>15. PingInv'
  <2> SUFFICES ASSUME Races = {}  PROVE PingInv'
    BY DEF PingInv
  <2>1. m.kind = "ping" => m.st = "in_transit" /\ phase' = "in_transit"
    BY <1>1 DEF RideEvent, OtherEvent, engineVars
  <2>2. NoPings /\ m.kind # "ping" => NoPings'
    BY <1>3, <1>4 DEF NoPings, OnWire, Sent
  <2>3. phase \in {"in_transit", "idle"} /\ ~NoPings => phase' \in {"in_transit", "idle"}
    BY <1>1 DEF RideEvent, OtherEvent, engineVars
  <2> QED  BY <1>3, <1>4, <2>1, <2>2, <2>3 DEF ViewInv, PingInv
<1>16. ResetInv' /\ TodoInv'
  BY <1>3, <1>6 DEF ViewInv, ResetInv, TodoInv
<1>17. ASSUME NEW c \in Clients  PROVE PageOK(c)'
  <2>1. \A st : RiderOK(c, st) => RiderOK(c, st)'
    BY <1>3, <1>9, <1>11 DEF Turn, RiderOK, Owed, Determines
  <2>2. RidesOK(c) => RidesOK(c)'
    <3>1. \A r \in shown[c] : r # 0
      BY LiveAssumption DEF LiveAssumption, TypeInv, LiveTypeOK, Rides
    <3>2. RidesOK(c) => \A r \in shown[c] :
            \/ r = CurrentRide' \/ EndFollows(r, 0)' \/ resetting
            \/ Owed(c) /\ (cast.msg.kind = "reset" \/ (IsEnd(cast.msg) /\ cast.msg.id = r))
      BY <1>7, <1>11, <1>12, <3>1 DEF Turn, RidesOK
    <3>3. RidesOK(c) /\ ActiveRide' # 0 =>
            \/ ActiveRide' \in shown[c]
            \/ \E n \in Sent' : Places(wire'[n]) /\ wire'[n].id = ActiveRide'
            \/ Owed(c) /\ Places(cast.msg) /\ cast.msg.id = ActiveRide'
      BY <1>2, <1>5, <1>11 DEF Turn, RidesOK
    <3> QED  BY <1>3, <3>2, <3>3 DEF RidesOK, Owed, Places, IsEnd, EndFollows
  <2> QED  BY <1>3, <2>1, <2>2 DEF ViewInv, PageOK
<1> QED  BY <1>13, <1>14, <1>15, <1>16, <1>17 DEF ViewInv

-----------------------------------------------------------------------------
(* A page and a message *)

\* What page c shows will be right once it has handled m and what is on the wire then.
Awaits(c, m) ==
    /\ \A r \in shown[c] : \/ r = CurrentRide \/ EndFollows(r, 0)'
                           \/ m.kind = "reset" \/ (IsEnd(m) /\ m.id = r)
    /\ ActiveRide # 0 => \/ ActiveRide \in shown[c]
                         \/ \E n \in Sent' : Places(wire'[n]) /\ wire'[n].id = ActiveRide
                         \/ Places(m) /\ m.id = ActiveRide
    /\ alive => /\ rider[c] # "absent"
                /\ Races = {} /\ NoNews' /\ ~Determines(m) => rider[c] = phase

\* m is true, and what is on the wire after the step goes on from it.
TrueNews(m) ==
    /\ Places(m) => m.id = CurrentRide \/ EndFollows(m.id, 0)'
    /\ IsEnd(m) => Over(m.id)
    /\ Races = {} /\ Determines(m) /\ NoNews' => StateOf(m) = phase
    /\ IF alive THEN m.kind \in {"trip", "ping", "profile"}
                ELSE m.kind = "reset" /\ m.st = "absent" /\ phase = "idle"

\* A page that has handled true news it awaited is all right.
LEMMA ViewHandle ==
  ASSUME TypeInv, NEW c \in Clients, NEW m \in Message, Sendable(m), Handles(c, m),
         UNCHANGED engineVars, ~Owed(c)', Awaits(c, m), TrueNews(m)
  PROVE  RidesOK(c)' /\ RiderOK(c, rider[c])'
<1>1. /\ ride' = ride /\ phase' = phase /\ alive' = alive
      /\ CurrentRide' = CurrentRide /\ ActiveRide' = ActiveRide
  BY DEF engineVars, CurrentRide, ActiveRide
<1>2. ride \in Nat /\ (ActiveRide # 0 => ActiveRide = ride /\ phase # "idle")
  BY LiveAssumption DEF LiveAssumption, TypeInv, LiveTypeOK, ActiveRide
<1>3. RidesOK(c)'
  <2>1. CASE Places(m)
    <3>1. shown'[c] = shown[c] \cup {m.id}
      BY <2>1, RidesAfterIs DEF Handles
    <3>2. \A r \in shown'[c] : r = CurrentRide \/ EndFollows(r, 0)'
      <4> SUFFICES ASSUME NEW r \in shown'[c]  PROVE r = CurrentRide \/ EndFollows(r, 0)'
        OBVIOUS
      <4>1. CASE r \in shown[c]
        BY <2>1, <4>1 DEF Awaits, Places, IsEnd
      <4>2. CASE r = m.id
        BY <2>1, <4>2 DEF TrueNews
      <4> QED  BY <3>1, <4>1, <4>2
    <3>3. ActiveRide # 0 => \/ ActiveRide \in shown'[c]
                            \/ \E n \in Sent' : Places(wire'[n]) /\ wire'[n].id = ActiveRide
      BY <3>1 DEF Awaits
    <3> QED  BY <1>1, <3>2, <3>3 DEF RidesOK, Places
  <2>2. CASE IsEnd(m)
    <3>1. shown'[c] = shown[c] \ {m.id}
      BY <2>2, RidesAfterIs DEF Handles
    <3>2. \A r \in shown'[c] : r = CurrentRide \/ EndFollows(r, 0)'
      BY <2>2, <3>1 DEF Awaits, IsEnd
    <3>3. m.id # ActiveRide \/ ActiveRide = 0
      BY <1>2, <2>2 DEF TrueNews, Over
    <3>4. ActiveRide # 0 => \/ ActiveRide \in shown'[c]
                            \/ \E n \in Sent' : Places(wire'[n]) /\ wire'[n].id = ActiveRide
      BY <2>2, <3>1, <3>3 DEF Awaits, IsEnd, Places
    <3> QED  BY <1>1, <3>2, <3>4 DEF RidesOK, Places
  <2>3. CASE m.kind = "reset"
    <3>1. shown'[c] = {} /\ ActiveRide = 0
      BY <2>3, RidesAfterIs DEF Handles, TrueNews, ActiveRide
    <3> QED  BY <1>1, <3>1 DEF RidesOK
  <2>4. CASE m.kind \in {"ping", "profile"}
    <3>1. shown'[c] = shown[c]
      BY <2>4, RidesAfterIs DEF Handles
    <3>2. \A r \in shown'[c] : r = CurrentRide \/ EndFollows(r, 0)'
      BY <2>4, <3>1 DEF Awaits, IsEnd
    <3>3. ActiveRide # 0 => \/ ActiveRide \in shown'[c]
                            \/ \E n \in Sent' : Places(wire'[n]) /\ wire'[n].id = ActiveRide
      BY <2>4, <3>1 DEF Awaits, Places
    <3> QED  BY <1>1, <3>2, <3>3 DEF RidesOK, Places
  <2> QED  BY <2>1, <2>2, <2>3, <2>4 DEF TrueNews, Places, IsEnd
<1>4. RiderOK(c, rider[c])'
  <2>1. CASE alive
    <3>1. CASE Determines(m)
      <4>1. rider'[c] = StateOf(m) /\ StateOf(m) # "absent"
        BY <2>1, <3>1 DEF Handles, RiderAfter, Determines, StateOf, Awaits, Sendable, Phases
      <4> QED  BY <1>1, <2>1, <3>1, <4>1 DEF RiderOK, TrueNews
    <3>2. CASE m.kind = "ping"
      <4>1. rider'[c] = rider[c]
        BY <3>2, RiderAfterIs DEF Handles
      <4> QED  BY <1>1, <2>1, <3>2, <4>1 DEF RiderOK, Awaits, Determines
    <3> QED  BY <2>1, <3>1, <3>2 DEF TrueNews, Determines
  <2>2. CASE ~alive
    <3>1. rider'[c] = "absent"
      BY <2>2, RiderAfterIs DEF Handles, TrueNews
    <3> QED  BY <1>1, <2>2, <3>1 DEF RiderOK
  <2> QED  BY <2>1, <2>2
<1> QED  BY <1>3, <1>4

\* So is one that is owed them.
LEMMA ViewOwes ==
  ASSUME TypeInv, NEW c \in Clients, NEW m \in Message, Keeps(c),
         UNCHANGED engineVars, Owed(c)', cast'.msg = m, Awaits(c, m), TrueNews(m)
  PROVE  RidesOK(c)' /\ RiderOK(c, rider[c])'
<1>1. /\ ride' = ride /\ phase' = phase /\ alive' = alive
      /\ CurrentRide' = CurrentRide /\ ActiveRide' = ActiveRide
      /\ shown'[c] = shown[c] /\ rider'[c] = rider[c]
  BY DEF engineVars, CurrentRide, ActiveRide, Keeps
<1>2. RidesOK(c)'
  <2>1. \A r \in shown'[c] : \/ r = CurrentRide \/ EndFollows(r, 0)'
                             \/ m.kind = "reset" \/ (IsEnd(m) /\ m.id = r)
    BY <1>1 DEF Awaits
  <2>2. ActiveRide # 0 => \/ ActiveRide \in shown'[c]
                          \/ \E n \in Sent' : Places(wire'[n]) /\ wire'[n].id = ActiveRide
                          \/ Places(m) /\ m.id = ActiveRide
    BY <1>1 DEF Awaits
  <2> QED  BY <1>1, <2>1, <2>2 DEF RidesOK, Places, IsEnd
<1>3. RiderOK(c, rider[c])'
  BY <1>1 DEF RiderOK, Awaits, Determines
<1> QED  BY <1>2, <1>3

-----------------------------------------------------------------------------
(* The steps, one by one *)

\* Nothing is said in the step, and at most the buffers take the ping under way.
Quiet ==
    /\ UNCHANGED <<engineVars, wire, resetting>>
    /\ cast'.on => /\ cast.on /\ cast'.msg = cast.msg /\ cast'.todo \subseteq cast.todo
                   /\ \A c \in cast'.todo : conn'[c] = conn[c]
    /\ \A c \in Clients : \/ buf'[c] \in {"none", buf[c]}
                          \/ cast.on /\ cast.msg.kind = "ping" /\ buf'[c] = cast.msg.st

\* Nothing said, nothing changed.
LEMMA ViewQuiet ==
  ASSUME TypeInv, ViewInv, Quiet
  PROVE  EndsFollow' /\ NewsAreTrue' /\ PingInv' /\ ResetInv' /\ TodoInv'
<1>1. /\ ride' = ride /\ phase' = phase /\ alive' = alive /\ wire' = wire
      /\ resetting' = resetting /\ CurrentRide' = CurrentRide /\ Sent' = Sent
  BY DEF Quiet, engineVars, CurrentRide, Sent
<1>2. EndsFollow'
  BY <1>1 DEF Quiet, ViewInv, EndsFollow, EndFollows, Places, IsEnd
<1>3. NewsAreTrue'
  BY <1>1 DEF Quiet, ViewInv, NewsAreTrue, Last, NoNews, Determines, StateOf
<1>4. PingInv'
  <2>1. NoPings => NoPings'
    BY <1>1 DEF Quiet, NoPings, OnWire
  <2> QED  BY <1>1, <2>1 DEF Quiet, ViewInv, PingInv
<1>5. ResetInv' /\ TodoInv'
  BY <1>1 DEF Quiet, ViewInv, ResetInv, TodoInv
<1> QED  BY <1>2, <1>3, <1>4, <1>5

\* The step does not concern page c.
Bystander(c) ==
    /\ shown'[c] = shown[c] /\ rider'[c] = rider[c]
    /\ conn'[c] = "up" => conn[c] = "up"
    /\ conn'[c] = "reading" => conn[c] = "reading" /\ readRider' = readRider
    /\ c \notin missed' => /\ c \notin missed /\ Owed(c)' = Owed(c)
                           /\ Owed(c) => cast'.msg = cast.msg

LEMMA ViewBystander ==
  ASSUME ViewInv, UNCHANGED <<engineVars, wire, resetting>>, NEW c \in Clients, Bystander(c)
  PROVE  PageOK(c)'
<1>1. /\ ride' = ride /\ phase' = phase /\ alive' = alive /\ wire' = wire
      /\ resetting' = resetting /\ CurrentRide' = CurrentRide /\ ActiveRide' = ActiveRide
      /\ Sent' = Sent /\ NoNews' = NoNews /\ \A r : EndFollows(r, 0)' = EndFollows(r, 0)
  BY DEF engineVars, CurrentRide, ActiveRide, Sent, NoNews, Last, EndFollows
<1> SUFFICES ASSUME c \notin missed'  PROVE PageOK(c)'
  BY DEF PageOK
<1>2. c \notin missed /\ Owed(c)' = Owed(c) /\ (Owed(c) => cast'.msg = cast.msg)
  BY DEF Bystander
<1>3. ASSUME conn'[c] = "up"  PROVE RidesOK(c)' /\ RiderOK(c, rider[c])'
  <2>1. RidesOK(c) /\ RiderOK(c, rider[c]) /\ shown'[c] = shown[c] /\ rider'[c] = rider[c]
    BY <1>2, <1>3 DEF Bystander, ViewInv, PageOK
  <2> QED  BY <1>1, <1>2, <2>1 DEF RidesOK, RiderOK, Determines, Places, IsEnd
<1>4. ASSUME conn'[c] = "reading"  PROVE RiderOK(c, readRider)'
  <2>1. RiderOK(c, readRider) /\ readRider' = readRider
    BY <1>2, <1>4 DEF Bystander, ViewInv, PageOK
  <2> QED  BY <1>1, <1>2, <2>1 DEF RiderOK, Determines
<1> QED  BY <1>3, <1>4 DEF PageOK

LEMMA ViewReset ==
  ASSUME TypeInv, EndInv, ViewInv, Reset, "reset_overtakes" \notin Races
  PROVE  ViewInv'
<1>1. /\ wire = <<>> /\ ~cast.on /\ wire' = wire /\ cast' = cast /\ resetting'
      /\ ~alive' /\ phase' = "idle" /\ buf' = buf /\ Sent' = {}
  BY DEF Reset, pageVars, Sent
<1>2. EndsFollow' /\ NewsAreTrue' /\ ResetInv' /\ TodoInv'
  BY <1>1 DEF EndsFollow, NewsAreTrue, ResetInv, TodoInv
<1>3. PingInv'
  BY <1>1 DEF ViewInv, PingInv
<1>4. ASSUME NEW c \in Clients  PROVE PageOK(c)'
  BY <1>1 DEF PageOK, RidesOK, RiderOK, ActiveRide
<1> QED  BY <1>2, <1>3, <1>4 DEF ViewInv

LEMMA ViewFlush ==
  ASSUME TypeInv, ViewInv, NEW c \in Clients, FlushBuffer(c)
  PROVE  ViewInv'
<1>1. /\ UNCHANGED <<engineVars, wire, serverVars, shown, missed>>
      /\ rider'[c] = Pinged(rider[c], buf[c]) /\ \A d \in Clients : d # c => rider'[d] = rider[d]
      /\ buf[c] # "absent" /\ \A d \in Clients : buf'[d] \in {"none", buf[d]}
      /\ Races = {} => buf[c] = "in_transit" /\ phase \in {"in_transit", "idle"}
  BY DEF FlushBuffer, TypeInv, LiveTypeOK, ViewInv, PingInv, NoPings, Phases
<1>2. cast' = cast /\ resetting' = resetting /\ conn' = conn /\ readRider' = readRider
  BY <1>1 DEF serverVars
<1>3. EndsFollow' /\ NewsAreTrue' /\ PingInv' /\ ResetInv' /\ TodoInv'
  BY <1>1, <1>2, ViewQuiet DEF Quiet
<1>4. ASSUME NEW d \in Clients, d # c  PROVE PageOK(d)'
  BY <1>1, <1>2, <1>4, ViewBystander DEF Bystander, Owed
<1>5. PageOK(c)'
  <2>1. /\ ride' = ride /\ phase' = phase /\ alive' = alive /\ CurrentRide' = CurrentRide
        /\ ActiveRide' = ActiveRide /\ wire' = wire /\ missed' = missed
        /\ shown' = shown /\ Sent' = Sent /\ NoNews' = NoNews
        /\ \A r : EndFollows(r, 0)' = EndFollows(r, 0)
    BY <1>1 DEF engineVars, CurrentRide, ActiveRide, Sent, NoNews, Last, EndFollows
  <2>2. RidesOK(c) => RidesOK(c)'
    BY <1>2, <2>1 DEF RidesOK, Owed, Places, IsEnd
  <2>3. RiderOK(c, rider[c]) => RiderOK(c, rider[c])'
    BY <1>1, <1>2, <2>1 DEF RiderOK, Owed, Determines, Pinged
  <2>4. RiderOK(c, readRider) => RiderOK(c, readRider)'
    BY <1>2, <2>1 DEF RiderOK, Owed, Determines
  <2> QED  BY <1>2, <2>1, <2>2, <2>3, <2>4 DEF ViewInv, PageOK
<1> QED  BY <1>3, <1>4, <1>5 DEF ViewInv

LEMMA ViewJoin ==
  ASSUME TypeInv, ViewInv, NEW c \in Clients, Join(c)
  PROVE  ViewInv'
<1>1. /\ UNCHANGED <<engineVars, wire, resetting, cast, shown, rider, buf>>
      /\ conn[c] = "down" /\ conn'[c] = "reading"
      /\ \A d \in Clients : d # c => conn'[d] = conn[d] /\ conn[d] # "reading"
                                     /\ (d \in missed' <=> d \in missed)
      /\ readRider' = IF alive THEN phase ELSE "absent"
  BY DEF Join, LoopFree, TypeInv, LiveTypeOK, pageVars
<1>2. ~Owed(c) /\ (cast.on => c \notin cast.todo)
  BY <1>1 DEF ViewInv, TodoInv, Owed
<1>3. EndsFollow' /\ NewsAreTrue' /\ PingInv' /\ ResetInv' /\ TodoInv'
  <2>1. cast.on => \A d \in cast.todo : d \in Clients /\ d # c
    BY <1>2 DEF ViewInv, TodoInv
  <2> QED  BY <1>1, <2>1, ViewQuiet DEF Quiet
<1>4. ASSUME NEW d \in Clients, d # c  PROVE PageOK(d)'
  BY <1>1, <1>4, ViewBystander DEF Bystander, Owed
<1>5. PageOK(c)'
  <2>1. phase' = phase /\ alive' = alive /\ phase # "absent"
    BY <1>1 DEF engineVars, TypeInv, LiveTypeOK, Phases
  <2> QED  BY <1>1, <2>1 DEF PageOK, RiderOK
<1> QED  BY <1>3, <1>4, <1>5 DEF ViewInv

\* Riders were read before trips; what is on the wire makes up for it.
LEMMA ViewSnapshot ==
  ASSUME TypeInv, ViewInv, NEW c \in Clients, SendSnapshot(c)
  PROVE  ViewInv'
<1>1. /\ UNCHANGED <<engineVars, wire, resetting, cast, missed>>
      /\ Handle(c, SnapshotMessage)
      /\ conn[c] = "reading" /\ conn'[c] = "up"
      /\ \A d \in Clients : d # c => conn'[d] = conn[d] /\ conn[d] # "reading"
  BY DEF SendSnapshot, SnapshotMessage, TypeInv, LiveTypeOK
<1>2. Handles(c, SnapshotMessage) /\ \A d \in Clients : d # c => Keeps(d)
  BY <1>1, HandleIs DEF TypeInv
<1>3. shown'[c] = {ActiveRide} \ {0} /\ rider'[c] = readRider /\ buf'[c] = buf[c]
  BY <1>2, RidesAfterIs, RiderAfterIs DEF Handles, SnapshotMessage
<1>4. EndsFollow' /\ NewsAreTrue' /\ PingInv' /\ ResetInv' /\ TodoInv'
  <2>1. \A d \in Clients : buf'[d] = buf[d]
    BY <1>2, <1>3 DEF Keeps
  <2>2. cast.on => \A d \in cast.todo : d \in Clients /\ d # c
    BY <1>1 DEF ViewInv, TodoInv
  <2> QED  BY <1>1, <2>1, <2>2, ViewQuiet DEF Quiet
<1>5. ASSUME NEW d \in Clients, d # c  PROVE PageOK(d)'
  BY <1>1, <1>2, <1>5, ViewBystander DEF Bystander, Owed, Keeps
<1>6. PageOK(c)'
  <2>1. /\ ride' = ride /\ phase' = phase /\ alive' = alive /\ CurrentRide' = CurrentRide
        /\ ActiveRide' = ActiveRide /\ NoNews' = NoNews
    BY <1>1 DEF engineVars, CurrentRide, ActiveRide, NoNews, Last, Sent
  <2>2. ActiveRide # 0 => ActiveRide = CurrentRide
    BY DEF ActiveRide, CurrentRide
  <2>3. RidesOK(c)'
    BY <1>3, <2>1, <2>2 DEF RidesOK
  <2>4. RiderOK(c, readRider) => RiderOK(c, rider[c])'
    BY <1>1, <1>3, <2>1 DEF RiderOK, Owed, Determines
  <2> QED  BY <1>1, <2>3, <2>4 DEF ViewInv, PageOK
<1> QED  BY <1>4, <1>5, <1>6 DEF ViewInv

LEMMA ViewSend ==
  ASSUME TypeInv, EndInv, ViewInv, NEW c \in Clients, Send(c)
  PROVE  ViewInv'
<1>0. PICK m \in Message : m = cast.msg
  BY DEF TypeInv, LiveTypeOK
<1>1. /\ UNCHANGED <<engineVars, wire, resetting, conn, readRider, missed>>
      /\ Handle(c, m) /\ cast.on /\ c \in cast.todo
      /\ cast'.on /\ cast'.msg = m /\ cast'.todo = cast.todo \ {c}
  BY <1>0 DEF Send, TypeInv, LiveTypeOK
<1>2. Handles(c, m) /\ \A d \in Clients : d # c => Keeps(d)
  BY <1>1, HandleIs DEF TypeInv
<1>3. EndsFollow' /\ NewsAreTrue' /\ PingInv' /\ ResetInv' /\ TodoInv'
  <2>1. \A d \in Clients : \/ buf'[d] \in {"none", buf[d]}
                           \/ cast.on /\ cast.msg.kind = "ping" /\ buf'[d] = cast.msg.st
    BY <1>0, <1>1, <1>2 DEF Keeps, Handles
  <2> QED  BY <1>0, <1>1, <2>1, ViewQuiet DEF Quiet
<1>4. ASSUME NEW d \in Clients, d # c  PROVE PageOK(d)'
  BY <1>0, <1>1, <1>2, <1>4, ViewBystander DEF Bystander, Owed, Keeps
<1>5. Sendable(m) /\ m \in Message /\ ~Owed(c)' /\ Owed(c) /\ ~resetting /\ conn[c] = "up"
  BY <1>0, <1>1 DEF TypeInv, Sendable, Owed, ViewInv, ResetInv, TodoInv
<1>6. /\ Sent' = Sent /\ NoNews' = NoNews /\ \A r : EndFollows(r, 0)' = EndFollows(r, 0)
  BY <1>1 DEF Sent, NoNews, Last, EndFollows
<1>7. TrueNews(m)
  <2>1. /\ Places(m) => m.id = CurrentRide \/ EndFollows(m.id, 0)
        /\ Races = {} /\ Determines(m) /\ NoNews => StateOf(m) = phase
    BY <1>0, <1>1 DEF ViewInv, EndsFollow, NewsAreTrue
  <2>2. ASSUME NEW r, r = m.id, Places(m)  PROVE r = CurrentRide \/ EndFollows(r, 0)'
    BY <1>6, <2>1, <2>2
  <2>3. Places(m) => m.id = CurrentRide \/ EndFollows(m.id, 0)'
    BY <2>2
  <2>4. IsEnd(m) => Over(m.id)
    BY <1>0, <1>1 DEF EndInv, CastOK, MessageOK
  <2>5. IF alive THEN m.kind \in {"trip", "ping", "profile"}
                 ELSE m.kind = "reset" /\ m.st = "absent" /\ phase = "idle"
    BY <1>0, <1>1, <1>5 DEF ViewInv, ResetInv, EndInv, CastOK, Message
  <2> QED  BY <1>6, <2>1, <2>3, <2>4, <2>5 DEF TrueNews
<1>8. PageOK(c)'
  <2>1. CASE c \in missed
    BY <1>1, <2>1 DEF PageOK
  <2>2. CASE c \notin missed
    <3>1. RidesOK(c) /\ RiderOK(c, rider[c])
      BY <1>5, <2>2 DEF ViewInv, PageOK
    <3>2. Awaits(c, m)
      BY <1>0, <1>1, <1>5, <1>6, <3>1 DEF Awaits, RidesOK, RiderOK, Owed
    <3>3. RidesOK(c)' /\ RiderOK(c, rider[c])'
      BY <1>1, <1>2, <1>5, <1>7, <3>2, ViewHandle
    <3> QED  BY <1>1, <1>5, <3>3 DEF PageOK
  <2> QED  BY <2>1, <2>2
<1> QED  BY <1>3, <1>4, <1>8 DEF ViewInv

\* Page c after a broadcast has begun
LEMMA ViewGoesOut ==
  ASSUME TypeInv, NEW m \in Message, Sendable(m), GoesOut(m), UNCHANGED <<engineVars, conn>>,
         LoopFree, NEW c \in Clients, TrueNews(m), conn[c] = "up" => Awaits(c, m)
  PROVE  PageOK(c)'
<1> SUFFICES ASSUME conn[c] = "up"  PROVE PageOK(c)'
  BY DEF PageOK, LoopFree
<1>1. /\ c \in Connected /\ cast'.on /\ cast'.msg = m
      /\ (Handles(c, m) /\ ~Owed(c)') \/ (Keeps(c) /\ Owed(c)')
  BY DEF Connected, GoesOut, Owed
<1>2. RidesOK(c)' /\ RiderOK(c, rider[c])'
  BY <1>1, ViewHandle, ViewOwes
<1> QED  BY <1>2 DEF PageOK

\* The first message leaves the wire for the pages.
LEMMA ViewFanOut ==
  ASSUME TypeInv, EndInv, ViewInv, FanOut
  PROVE  ViewInv'
<1>0. PICK m \in Message : m = wire[1]
  BY PopIs DEF FanOut, TypeInv
<1>1. /\ wire # <<>> /\ wire' = Tail(wire) /\ resetting' = resetting /\ Broadcast(Head(wire))
  BY DEF FanOut
<1>2. /\ Len(wire) \in Nat \ {0} /\ Len(wire') = Len(wire) - 1 /\ Head(wire) = m /\ m \in Message
      /\ 1 \in Sent /\ Sent = 1..Len(wire) /\ Sent' = 1..(Len(wire) - 1)
      /\ \A n \in Sent' : wire'[n] = wire[n + 1] /\ n + 1 \in Sent
  BY <1>0, <1>1, PopIs DEF TypeInv, Sent
<1>3. /\ GoesOut(m) /\ LoopFree /\ ~cast.on
      /\ UNCHANGED <<engineVars, conn, readRider, missed>>
  BY <1>1, <1>2, BroadcastIs DEF TypeInv
<1>4. alive /\ ~resetting /\ m.kind \in {"trip", "ping", "profile"} /\ Sendable(m) /\ MessageOK(m)
  BY <1>0, <1>1, <1>2 DEF ViewInv, ResetInv, EndInv, WireOK, TypeInv
<1>5. /\ ride' = ride /\ phase' = phase /\ alive' = alive
      /\ CurrentRide' = CurrentRide /\ ActiveRide' = ActiveRide
  BY <1>3 DEF engineVars, CurrentRide, ActiveRide
<1>6. \A k \in Sent : k = 1 \/ (k - 1 \in Sent' /\ wire'[k - 1] = wire[k])
  BY <1>2
<1>7. \A r : /\ EndFollows(r, 0) => (IsEnd(m) /\ m.id = r) \/ EndFollows(r, 0)'
             /\ EndFollows(r, 1) => EndFollows(r, 0)'
             /\ \A n \in Sent' : EndFollows(r, n + 1) => EndFollows(r, n)'
  <2> SUFFICES ASSUME NEW r, NEW k \in Sent, IsEnd(wire[k]), wire[k].id = r
               PROVE  /\ (IsEnd(m) /\ m.id = r) \/ EndFollows(r, 0)'
                      /\ k > 1 => EndFollows(r, 0)'
                      /\ \A n \in Sent' : k > n + 1 => EndFollows(r, n)'
    BY DEF EndFollows
  <2>1. CASE k = 1
    BY <1>2, <2>1, <1>0
  <2>2. CASE k - 1 \in Sent' /\ wire'[k - 1] = wire[k]
    <3>1. IsEnd(wire'[k - 1]) /\ wire'[k - 1].id = r /\ k - 1 > 0
      BY <1>2, <2>2
    <3>2. \A n \in Sent' : k > n + 1 => k - 1 > n
      BY <1>2
    <3> QED  BY <2>2, <3>1, <3>2 DEF EndFollows, IsEnd
  <2> QED  BY <1>6, <2>1, <2>2
<1>8. \A n \in Sent' : Last(n)' => Last(n + 1)
  <2> SUFFICES ASSUME NEW n \in Sent', Last(n)', NEW k \in Sent, k > n + 1
               PROVE  ~Determines(wire[k])
    BY DEF Last
  <2>1. k - 1 \in Sent' /\ wire'[k - 1] = wire[k] /\ k - 1 > n
    BY <1>2, <1>6
  <2> QED  BY <2>1 DEF Last, Determines
<1>9. NoNews' => Last(1) /\ (~Determines(m) => NoNews)
  <2> SUFFICES ASSUME NoNews', NEW k \in Sent
               PROVE  (k > 1 => ~Determines(wire[k])) /\ (~Determines(m) => ~Determines(wire[k]))
    BY DEF NoNews, Last
  <2>1. CASE k = 1
    BY <2>1, <1>0
  <2>2. CASE k - 1 \in Sent' /\ wire'[k - 1] = wire[k]
    BY <1>2, <2>2 DEF NoNews, Last, Determines
  <2> QED  BY <1>6, <2>1, <2>2
<1>10. TrueNews(m)
  <2>1. ASSUME NEW r, r = m.id, Places(m)  PROVE r = CurrentRide \/ EndFollows(r, 0)'
    BY <1>0, <1>2, <1>7, <2>1 DEF ViewInv, EndsFollow
  <2>2. Places(m) => m.id = CurrentRide \/ EndFollows(m.id, 0)'
    BY <2>1
  <2>3. Races = {} /\ Determines(m) /\ NoNews' => StateOf(m) = phase
    BY <1>0, <1>2, <1>9 DEF ViewInv, NewsAreTrue
  <2> QED  BY <1>4, <2>2, <2>3 DEF TrueNews, MessageOK
<1>11. EndsFollow' /\ NewsAreTrue'
  <2>1. ASSUME NEW n \in Sent', Places(wire'[n]), NEW r, r = wire'[n].id
        PROVE  r = CurrentRide \/ EndFollows(r, n)'
    BY <1>2, <1>7, <2>1 DEF ViewInv, EndsFollow
  <2>2. ASSUME cast'.on, Places(cast'.msg), NEW r, r = cast'.msg.id
        PROVE  r = CurrentRide \/ EndFollows(r, 0)'
    BY <1>0, <1>2, <1>3, <1>7, <2>2 DEF ViewInv, EndsFollow, GoesOut
  <2>3. EndsFollow'
    BY <1>5, <2>1, <2>2 DEF EndsFollow, Places, EndFollows
  <2>4. Races = {} => \A n \in Sent' : Determines(wire'[n]) /\ Last(n)' =>
                                          StateOf(wire'[n]) = phase
    BY <1>2, <1>8 DEF ViewInv, NewsAreTrue
  <2>5. Races = {} /\ cast'.on /\ Determines(cast'.msg) /\ NoNews' => StateOf(cast'.msg) = phase
    BY <1>0, <1>2, <1>3, <1>9 DEF ViewInv, NewsAreTrue, GoesOut
  <2> QED  BY <1>5, <2>3, <2>4, <2>5 DEF NewsAreTrue, Determines, StateOf
<1>12. PingInv'
  <2> SUFFICES ASSUME Races = {}  PROVE PingInv'
    BY DEF PingInv
  <2>1. m.kind = "ping" => m.st = "in_transit"
    BY <1>0, <1>2 DEF ViewInv, PingInv
  <2>2. \A n \in Sent' : wire'[n].kind = "ping" => wire'[n].st = "in_transit"
    BY <1>2 DEF ViewInv, PingInv
  <2>3. cast'.on => cast'.msg = m
    BY <1>3 DEF GoesOut
  <2>4. \A c \in Clients : buf'[c] = buf[c] \/ (m.kind = "ping" /\ buf'[c] = m.st)
    BY <1>3, KeptIs DEF GoesOut, Handles, Keeps
  <2>5. NoPings => NoPings'
    <3> SUFFICES ASSUME NoPings  PROVE NoPings'
      OBVIOUS
    <3>1. \A n \in Sent : wire[n].kind # "ping"
      BY DEF NoPings, OnWire, Sent
    <3>2. m.kind # "ping" /\ \A n \in Sent' : wire'[n].kind # "ping"
      BY <1>0, <1>2, <3>1
    <3> QED  BY <2>3, <2>4, <3>2 DEF NoPings, OnWire, Sent
  <2> QED  BY <1>5, <2>1, <2>2, <2>3, <2>4, <2>5 DEF ViewInv, PingInv
<1>13. ResetInv' /\ TodoInv'
  BY <1>1, <1>3, <1>4, <1>5 DEF ResetInv, TodoInv, GoesOut, Connected, LoopFree, TypeInv, LiveTypeOK
<1>14. ASSUME NEW c \in Clients  PROVE PageOK(c)'
  <2>1. CASE c \in missed
    BY <1>3, <2>1 DEF PageOK
  <2>2. CASE c \notin missed
    <3>1. ASSUME conn[c] = "up"  PROVE Awaits(c, m)
      <4>1. RidesOK(c) /\ RiderOK(c, rider[c]) /\ ~Owed(c)
        BY <1>3, <2>2, <3>1 DEF ViewInv, PageOK, Owed
      <4>2. \A r \in shown[c] : r = CurrentRide \/ EndFollows(r, 0)' \/ (IsEnd(m) /\ m.id = r)
        BY <1>4, <1>7, <4>1 DEF RidesOK
      <4>3. ActiveRide # 0 => \/ ActiveRide \in shown[c]
                              \/ \E n \in Sent' : Places(wire'[n]) /\ wire'[n].id = ActiveRide
                              \/ Places(m) /\ m.id = ActiveRide
        <5>1. ActiveRide # 0 /\ ActiveRide \notin shown[c] =>
                \E k \in Sent : Places(wire[k]) /\ wire[k].id = ActiveRide
          BY <4>1 DEF RidesOK
        <5> QED  BY <1>0, <1>6, <5>1
      <4>4. alive => /\ rider[c] # "absent"
                     /\ Races = {} /\ NoNews' /\ ~Determines(m) => rider[c] = phase
        BY <1>9, <4>1 DEF RiderOK
      <4> QED  BY <4>2, <4>3, <4>4 DEF Awaits
    <3> QED  BY <1>3, <1>4, <1>10, <3>1, ViewGoesOut
  <2> QED  BY <2>1, <2>2
<1> QED  BY <1>11, <1>12, <1>13, <1>14 DEF ViewInv

LEMMA ViewFanOutReset ==
  ASSUME TypeInv, EndInv, ViewInv, FanOutReset
  PROVE  ViewInv'
<1>0. PICK m \in Message : m = ResetMessage /\ Sendable(m)
  BY MessagesAreSendable DEF Sendable
<1>1. resetting /\ ~resetting' /\ wire' = wire /\ Broadcast(m)
  BY <1>0 DEF FanOutReset, ResetMessage, TypeInv, LiveTypeOK
<1>2. /\ GoesOut(m) /\ LoopFree /\ ~cast.on
      /\ UNCHANGED <<engineVars, conn, readRider, missed>>
  BY <1>1, BroadcastIs DEF TypeInv
<1>3. ~alive /\ ~alive' /\ phase = "idle" /\ phase' = "idle" /\ wire' = <<>> /\ Sent' = {}
  BY <1>1, <1>2 DEF ViewInv, ResetInv, engineVars, Sent
<1>4. m.kind = "reset" /\ m.st = "absent" /\ (cast'.on => cast'.msg = m)
  BY <1>0, <1>2 DEF ResetMessage, GoesOut
<1>5. EndsFollow' /\ NewsAreTrue'
  BY <1>3, <1>4 DEF EndsFollow, NewsAreTrue, Places, Determines
<1>6. PingInv'
  <2>1. \A c \in Clients : buf'[c] = buf[c]
    BY <1>2, <1>4, KeptIs DEF GoesOut, Handles, Keeps
  <2> QED  BY <1>3, <1>4, <2>1 DEF ViewInv, PingInv
<1>7. ResetInv' /\ TodoInv'
  BY <1>1, <1>2, <1>3, <1>4
  DEF ResetInv, TodoInv, GoesOut, Connected, LoopFree, TypeInv, LiveTypeOK
<1>8. ASSUME NEW c \in Clients  PROVE PageOK(c)'
  <2>1. TrueNews(m) /\ Awaits(c, m)
    BY <1>3, <1>4 DEF TrueNews, Awaits, Places, IsEnd, Determines, ActiveRide
  <2> QED  BY <1>0, <1>2, <2>1, ViewGoesOut
<1> QED  BY <1>5, <1>6, <1>7, <1>8 DEF ViewInv

\* Every step keeps what the pages can count on.
LEMMA ViewStep ==
  /\ TypeInv /\ EndInv /\ ViewInv /\ [LiveNext]_liveVars
  /\ "reset_overtakes" \notin Races
  => ViewInv'
<1> SUFFICES ASSUME TypeInv, EndInv, ViewInv, [LiveNext]_liveVars,
                    "reset_overtakes" \notin Races
             PROVE  ViewInv'
  OBVIOUS
<1>1. CASE Events \/ Reset
  BY <1>1, ViewEvent, ViewReset
<1>2. ASSUME NEW c \in Clients, Join(c) \/ FlushBuffer(c) \/ SendSnapshot(c) \/ Send(c)
      PROVE  ViewInv'
  BY <1>2, ViewJoin, ViewFlush, ViewSnapshot, ViewSend
<1>3. CASE FanOut \/ FanOutReset
  BY <1>3, ViewFanOut, ViewFanOutReset
<1>4. ASSUME Quiet, \A c \in Clients : Bystander(c)  PROVE ViewInv'
  BY <1>4, ViewQuiet, ViewBystander DEF ViewInv, Quiet
<1>5. CASE EndCast
  <2>1. /\ UNCHANGED <<engineVars, wire, resetting, conn, readRider, pageVars>>
        /\ ~cast'.on /\ cast.on /\ missed' = missed \cup cast.todo
    BY <1>5 DEF EndCast, NoCast
  <2> QED  BY <1>4, <2>1 DEF Quiet, Bystander, Owed, pageVars
<1>6. ASSUME NEW c \in Clients, Drop(c)  PROVE ViewInv'
  <2>1. /\ UNCHANGED <<engineVars, wire, resetting, readRider, pageVars, missed>>
        /\ cast'.on = cast.on /\ cast'.msg = cast.msg /\ cast'.todo = cast.todo \ {c}
        /\ conn'[c] = "down" /\ \A d \in Clients : d # c => conn'[d] = conn[d]
    BY <1>6 DEF Drop, TypeInv, LiveTypeOK
  <2>2. Quiet
    BY <2>1 DEF Quiet, pageVars, ViewInv, TodoInv
  <2>3. ASSUME NEW d \in Clients, d # c  PROVE PageOK(d)'
    BY <2>1, <2>3, ViewBystander DEF Bystander, Owed, pageVars
  <2>4. PageOK(c)'
    BY <2>1 DEF PageOK
  <2> QED  BY <2>2, <2>3, <2>4, ViewQuiet DEF ViewInv
<1>7. CASE NoticeDrop \/ UNCHANGED liveVars
  <2>1. UNCHANGED <<engineVars, wire, resetting, cast, conn, readRider, pageVars, missed>>
    BY <1>7 DEF NoticeDrop, liveVars, serverVars
  <2> QED  BY <1>4, <2>1 DEF Quiet, Bystander, Owed, pageVars
<1>8. CASE LoseSubscription
  <2>1. /\ ~cast'.on /\ wire' = <<>> /\ Sent' = {} /\ missed' = missed \cup Connected
        /\ UNCHANGED <<engineVars, resetting, cast, conn, pageVars>>
    BY <1>8 DEF LoseSubscription, serverVars, Sent
  <2>2. EndsFollow' /\ NewsAreTrue' /\ TodoInv'
    BY <2>1 DEF EndsFollow, NewsAreTrue, TodoInv
  <2>3. PingInv' /\ ResetInv'
    BY <2>1 DEF ViewInv, PingInv, ResetInv, NoPings, OnWire, engineVars, pageVars
  <2>4. ASSUME NEW c \in Clients  PROVE PageOK(c)'
    BY <2>1 DEF PageOK, Connected
  <2> QED  BY <2>2, <2>3, <2>4 DEF ViewInv
<1> QED
  BY <1>1, <1>2, <1>3, <1>5, <1>6, <1>7, <1>8 DEF LiveNext, Engine, Server, Fault, Events

\* Where it begins
LEMMA ViewStart == LiveInit => EndInv /\ ViewInv
<1> SUFFICES ASSUME LiveInit  PROVE EndInv /\ ViewInv
  OBVIOUS
<1>1. /\ Sent = {} /\ wire = <<>> /\ ~cast.on /\ alive /\ ~resetting
      /\ \A c \in Clients : conn[c] = "down" /\ buf[c] = "none" /\ seen[c] = {}
  BY DEF LiveInit, Sent, NoCast
<1>2. EndInv
  BY <1>1 DEF EndInv, WireOK, CastOK, Told
<1>3. EndsFollow /\ NewsAreTrue /\ ResetInv /\ TodoInv
  BY <1>1 DEF EndsFollow, NewsAreTrue, ResetInv, TodoInv
<1>4. PingInv
  BY <1>1 DEF PingInv, NoPings, OnWire, Sent
<1>5. \A c \in Clients : PageOK(c)
  BY <1>1 DEF PageOK
<1> QED  BY <1>2, <1>3, <1>4, <1>5 DEF ViewInv

\* What is right without a message on its way
LEMMA SettledIs ==
  ASSUME TypeInv, ViewInv, NEW c \in Clients, Settled(c)
  PROVE  /\ {ActiveRide} \ {0} \subseteq shown[c]
         /\ shown[c] \subseteq {CurrentRide} \ {0}
         /\ rider[c] = "absent" <=> ~alive
         /\ Races = {} /\ alive => rider[c] = phase
<1>1. Sent = {} /\ NoNews /\ ~Owed(c) /\ ~resetting
  BY DEF Settled, Sent, NoNews, Last, Owed
<1>2. RidesOK(c) /\ RiderOK(c, rider[c])
  BY DEF Settled, ViewInv, PageOK
<1>3. \A r \in shown[c] : r # 0
  BY LiveAssumption DEF LiveAssumption, TypeInv, LiveTypeOK, Rides
<1> QED  BY <1>1, <1>2, <1>3 DEF RidesOK, RiderOK, EndFollows

\* A page that settled shows the rides that are, and the rider if it exists.
SettledRides ==
    \A c \in Clients : Settled(c) =>
        /\ {ActiveRide} \ {0} \subseteq shown[c]
        /\ shown[c] \subseteq {CurrentRide} \ {0}
        /\ rider[c] = "absent" <=> ~alive

\* The rides' half of SettledView, though pings and profile updates race as they like:
\* only a reset that overtakes events leaves a ride on a page.
THEOREM RidesSettle == "reset_overtakes" \notin Races /\ LiveSpec => []SettledRides
<1>1. TypeInv /\ ViewInv => SettledRides
  BY SettledIs DEF SettledRides
<1>2. CASE "reset_overtakes" \notin Races
  BY <1>1, <1>2, ViewStart, TypeStart, TypeStep, EndStep, ViewStep, PTL DEF LiveSpec
<1> QED  BY <1>2

\* SettledView: a page that was sent everything shows what is.
THEOREM ViewSettles == Races = {} /\ LiveSpec => []SettledView
<1>1. CASE Races = {}
  <2>1. TypeInv /\ ViewInv => SettledView
    BY <1>1, SettledIs DEF SettledView
  <2>2. "reset_overtakes" \notin Races
    BY <1>1
  <2> QED  BY <2>1, <2>2, ViewStart, TypeStart, TypeStep, EndStep, ViewStep, PTL DEF LiveSpec
<1> QED  BY <1>1
===============================================================================
