---------------------------- MODULE StreamProcessor ----------------------------
(***************************************************************************)
(* The bridge from Kafka to the Redis channels that feed the WebSocket     *)
(* clients (services/stream-processor/src: processor.py, deduplication.py, *)
(* sinks/redis_sink.py, handlers/gps_handler.py).  One loop polls Kafka,   *)
(* drops events it has already marked in Redis, publishes plain events at  *)
(* once and the latest GPS ping of each entity at the end of a window, and *)
(* commits its position after a number of published events or after a time.*)
(*                                                                         *)
(* A message is its topic and offset; its event_id, if it has one, is its  *)
(* own.  All pings of an entity are on one topic (they are keyed by        *)
(* entity).  Windows and commit intervals may elapse at any moment; the    *)
(* one-hour TTL of the marks does not run out.                             *)
(***************************************************************************)
EXTENDS Naturals, FiniteSets

CONSTANTS
  Topics,
  MaxOffset,    \* bound: messages per topic ...
  Length,       \* ... and of each topic
  Entities,     \* drivers and riders that send GPS pings
  Log,          \* Log[t][o]: Plain, Garbage, Poison, or the entity that sends a ping
  Plain,        \* a valid event of a pass-through handler
  Garbage,      \* a message that is no event: not JSON, or it fails its schema
  Poison,       \* JSON that is no object, or bytes that are no text
  Unmarked,     \* messages without an event_id: the schemas give them a fresh one
  NoOffset,     \* nothing was committed yet
  FromEarliest, \* auto_offset_reset is "earliest"
  BatchSize,    \* batch_commit_size
  MaxRestarts   \* bound: signals, crashes and exceptions that end the process

Offsets == 1..MaxOffset
Messages == Topics \X Offsets

ASSUME StreamAssumption ==
  /\ MaxOffset \in Nat /\ Length \in [Topics -> 0..MaxOffset]
  /\ Log \in [Topics -> [Offsets -> Entities \cup {Plain, Garbage, Poison}]]
  /\ {Plain, Garbage, Poison} \cap Entities = {}
  /\ Plain # Garbage /\ Plain # Poison /\ Garbage # Poison
  /\ Unmarked \subseteq Messages
  /\ \A t, u \in Topics, o, p \in Offsets : Log[t][o] \in Entities /\ Log[u][p] = Log[t][o] => t = u
  /\ NoOffset \notin Nat
  /\ FromEarliest \in BOOLEAN
  /\ BatchSize \in Nat \ {0}
  /\ MaxRestarts \in Nat

VARIABLES
  end,        \* end[t]: messages produced so far
  committed,  \* committed offset of the consumer group
  position,   \* last message polled
  polled,     \* topics this process has polled a message of
  seen,       \* messages marked in Redis (event:processed:<event_id>)
  handling,   \* the plain message being published, or none: a set
  published,  \* published[m]: plain message m went to its channel never, once, or more: 2
  window,     \* window_state: offset of the latest ping of an entity, 0: none
  shown,      \* offset of the ping of an entity that its channel saw last
  reached,    \* history: largest offset its channel has seen
  pending,    \* _pending_commits
  pc,         \* where the loop is
  stopping,   \* _shutdown has begun
  faulty,     \* history: something has failed
  restarts

kafka == <<end, committed, position, polled>>
redis == <<seen, published, shown, reached>>
vars  == <<kafka, redis, handling, window, pending, pc, stopping, faulty, restarts>>

NoPings == [e \in Entities |-> 0]

IsPing(m)  == Log[m[1]][m[2]] \in Entities
IsPlain(m) == Log[m[1]][m[2]] = Plain

Init ==
  /\ end = [t \in Topics |-> 0]
  /\ committed = [t \in Topics |-> NoOffset]
  /\ position = [t \in Topics |-> 0]
  /\ polled = {} /\ seen = {} /\ handling = {}
  /\ published = [m \in Messages |-> 0]
  /\ window = NoPings /\ shown = NoPings /\ reached = NoPings
  /\ pending = 0
  /\ pc = "down"
  /\ stopping = FALSE /\ faulty = FALSE
  /\ restarts = 0

--------------------------------------------------------------------------------
(* Kafka and Docker *)

Produce(t) ==
  /\ end[t] < Length[t]
  /\ end' = [end EXCEPT ![t] = @ + 1]
  /\ UNCHANGED <<committed, position, polled, redis, handling, window, pending, pc,
                 stopping, faulty, restarts>>

\* A new process subscribes.  Without a committed offset it starts at the end of
\* the topic, unless auto_offset_reset says otherwise.
Restart ==
  /\ pc = "down"
  /\ pc' = "poll"
  /\ position' = [t \in Topics |-> IF committed[t] # NoOffset THEN committed[t]
                                   ELSE IF FromEarliest THEN 0 ELSE end[t]]
  /\ polled' = {} /\ handling' = {} /\ window' = NoPings /\ pending' = 0
  /\ stopping' = FALSE
  /\ UNCHANGED <<end, committed, redis, faulty, restarts>>

Crash ==
  /\ pc # "down" /\ restarts < MaxRestarts
  /\ pc' = "down"
  /\ handling' = {} /\ window' = NoPings /\ pending' = 0
  /\ faulty' = TRUE
  /\ restarts' = restarts + 1
  /\ UNCHANGED <<kafka, redis, stopping>>

--------------------------------------------------------------------------------
(* A message *)

\* Mutant: the mark in Redis is written but not looked at.
Bug_IsDuplicate(m) == FALSE

\* SET NX finds the mark already there.
IsDuplicate(m) == m \in seen

Advance(t) ==
  /\ position[t] < end[t]
  /\ position' = [position EXCEPT ![t] = @ + 1]
  /\ polled' = polled \cup {t}
  /\ UNCHANGED <<end, committed>>

\* One more publication of a plain message.
OnceMore(n) == IF n = 0 THEN 1 ELSE 2

\* _process_message up to the publication: a message that is marked, or that cannot
\* be handled (marked if its JSON has an event_id), is passed over; one without an
\* event_id is handled and not marked; a ping replaces its entity's in the window.
\* The exception of a poison message is neither of the two that are caught: it leaves
\* the loop, and _shutdown runs.
Take(t) ==
  /\ pc = "poll"
  /\ Advance(t)
  /\ LET m == <<t, position[t] + 1>>
         k == Log[t][position[t] + 1]
     IN  \/ /\ k = Garbage \/ (k # Poison /\ IsDuplicate(m))
            /\ pc' = "windows"
            /\ UNCHANGED <<seen, handling, window, stopping>>
         \/ /\ k \in Entities /\ ~IsDuplicate(m)
            /\ seen' = seen \cup ({m} \ Unmarked)
            /\ window' = [window EXCEPT ![k] = m[2]]
            /\ pc' = "windows"
            /\ UNCHANGED <<handling, stopping>>
         \/ /\ k = Plain /\ ~IsDuplicate(m)
            /\ seen' = seen \cup ({m} \ Unmarked)
            /\ handling' = {m}
            /\ pc' = "publish"
            /\ UNCHANGED <<window, stopping>>
         \/ /\ k = Poison
            /\ stopping' = TRUE
            /\ pc' = "flush"
            /\ UNCHANGED <<seen, handling, window>>
  /\ UNCHANGED <<published, shown, reached, pending, faulty, restarts>>

\* Redis does not answer is_duplicate, though the mark may have been made: the
\* exception leaves the loop, and _shutdown runs.
DedupFails(t) ==
  /\ pc = "poll" /\ restarts < MaxRestarts
  /\ Advance(t)
  /\ <<t, position[t] + 1>> \notin Unmarked
  /\ Log[t][position[t] + 1] # Poison
  /\ seen' \in {seen, seen \cup {<<t, position[t] + 1>>}}
  /\ pc' = "flush"
  /\ stopping' = TRUE /\ faulty' = TRUE
  /\ restarts' = restarts + 1
  /\ UNCHANGED <<published, shown, reached, handling, window, pending>>

\* RedisSink.publish_batch succeeds; every BatchSize-th time offsets are committed.
Publish(m) ==
  /\ pc = "publish" /\ m \in handling
  /\ published' = [published EXCEPT ![m] = OnceMore(@)]
  /\ handling' = {}
  /\ pending' = pending + 1
  /\ pc' = IF pending + 1 >= BatchSize THEN "batch_commit" ELSE "windows"
  /\ UNCHANGED <<kafka, seen, window, shown, reached, stopping, faulty, restarts>>

\* All retries of RedisSink.publish fail, though one may have gone through; the
\* processor goes on with the next message.
PublishFails(m) ==
  /\ pc = "publish" /\ m \in handling
  /\ published' \in {published, [published EXCEPT ![m] = OnceMore(@)]}
  /\ handling' = {}
  /\ faulty' = TRUE
  /\ pc' = "windows"
  /\ UNCHANGED <<kafka, seen, window, shown, reached, pending, stopping, restarts>>

--------------------------------------------------------------------------------
(* Commits: asynchronous, always of the consumer's position *)

\* Where a commit takes the committed offsets.
CommitPosition ==
  committed' = [t \in Topics |-> IF t \in polled THEN position[t] ELSE committed[t]]

\* _commit_offsets after a published event; the request may come to nothing.
BatchCommit ==
  /\ pc = "batch_commit"
  /\ CommitPosition \/ UNCHANGED committed
  /\ pending' = 0
  /\ pc' = "windows"
  /\ UNCHANGED <<end, position, polled, redis, handling, window, stopping, faulty,
                 restarts>>

\* Mutant: only when published events are pending.
Bug_TimedCommit ==
  /\ pc = "timer" /\ pending > 0
  /\ CommitPosition
  /\ pending' = 0
  /\ pc' = "poll"
  /\ UNCHANGED <<end, position, polled, redis, handling, window, stopping, faulty,
                 restarts>>

\* _maybe_commit_offsets when the interval has elapsed, whatever was published.
TimedCommit ==
  /\ pc = "timer"
  /\ CommitPosition
  /\ pending' = 0
  /\ pc' = "poll"
  /\ UNCHANGED <<end, position, polled, redis, handling, window, stopping, faulty,
                 restarts>>

\* ... when it has not, or when the request comes to nothing.
NoTimedCommit ==
  /\ pc = "timer"
  /\ pending' \in {pending, 0}
  /\ pc' = "poll"
  /\ UNCHANGED <<kafka, redis, handling, window, stopping, faulty, restarts>>

--------------------------------------------------------------------------------
(* Windows and shutdown *)

\* poll returns nothing.
PollNothing ==
  /\ pc = "poll"
  /\ pc' = "windows"
  /\ UNCHANGED <<kafka, redis, handling, window, pending, stopping, faulty, restarts>>

\* _maybe_flush_windows: the window has elapsed or not.
MaybeFlush ==
  /\ pc = "windows"
  /\ pc' \in {"flush", "timer"}
  /\ UNCHANGED <<kafka, redis, handling, window, pending, stopping, faulty, restarts>>

\* The channel of an entity sees the ping of its window.
ShowPing(e) ==
  /\ shown' = [shown EXCEPT ![e] = window[e]]
  /\ reached' = [reached EXCEPT ![e] = IF @ < window[e] THEN window[e] ELSE @]

\* _flush_all_windows publishes the ping of one entity after the other; a failed
\* publication is not made up for.
FlushPing(e) ==
  /\ pc = "flush" /\ window[e] # 0
  /\ window' = [window EXCEPT ![e] = 0]
  /\ \/ /\ ShowPing(e)
        /\ UNCHANGED faulty
     \/ /\ faulty' = TRUE
        /\ ShowPing(e) \/ UNCHANGED <<shown, reached>>
  /\ UNCHANGED <<kafka, seen, published, handling, pending, pc, stopping, restarts>>

Flushed ==
  /\ pc = "flush" /\ window = NoPings
  /\ pc' = IF stopping THEN "last_commit" ELSE "timer"
  /\ UNCHANGED <<kafka, redis, handling, window, pending, stopping, faulty, restarts>>

\* Mutant: the shutdown does not flush the windows.
Bug_Stop ==
  /\ pc = "poll" /\ restarts < MaxRestarts
  /\ stopping' = TRUE
  /\ pc' = "last_commit"
  /\ restarts' = restarts + 1
  /\ UNCHANGED <<kafka, redis, handling, window, pending, faulty>>

\* A signal ends the loop, and _shutdown flushes the windows ...
Stop ==
  /\ pc = "poll" /\ restarts < MaxRestarts
  /\ stopping' = TRUE
  /\ pc' = "flush"
  /\ restarts' = restarts + 1
  /\ UNCHANGED <<kafka, redis, handling, window, pending, faulty>>

\* ... and commits if published events are pending.
LastCommit ==
  /\ pc = "last_commit"
  /\ \/ pending > 0 /\ CommitPosition
     \/ UNCHANGED committed
  /\ pending' = 0
  /\ pc' = "down"
  /\ UNCHANGED <<end, position, polled, redis, handling, window, stopping, faulty, restarts>>

Next ==
  \/ \E t \in Topics : Produce(t) \/ Take(t) \/ DedupFails(t)
  \/ \E m \in Messages : Publish(m) \/ PublishFails(m)
  \/ BatchCommit \/ TimedCommit \/ NoTimedCommit
  \/ PollNothing \/ MaybeFlush \/ Flushed \/ Stop \/ LastCommit
  \/ \E e \in Entities : FlushPing(e)
  \/ Restart \/ Crash

Spec == Init /\ [][Next]_vars

--------------------------------------------------------------------------------
(* Safety *)

TypeOK ==
  /\ end \in [Topics -> 0..MaxOffset]
  /\ committed \in [Topics -> 0..MaxOffset \cup {NoOffset}]
  /\ position \in [Topics -> 0..MaxOffset]
  /\ polled \subseteq Topics
  /\ seen \subseteq Messages /\ handling \subseteq Messages
  /\ published \in [Messages -> 0..2]
  /\ window \in [Entities -> 0..MaxOffset] /\ shown \in [Entities -> 0..MaxOffset]
  /\ reached \in [Entities -> 0..MaxOffset]
  /\ pending \in 0..BatchSize
  /\ pc \in {"poll", "publish", "batch_commit", "windows", "flush", "timer",
             "last_commit", "down"}
  /\ stopping \in BOOLEAN /\ faulty \in BOOLEAN
  /\ restarts \in 0..MaxRestarts

\* No replay of an event that has an event_id is published again, wherever the process
\* died and whichever commit was lost.  (A retry inside RedisSink.publish counts as
\* one publication.)
PublishedOnce == \A m \in Messages \ Unmarked : published[m] <= 1

\* What was marked gets to its channel, or is superseded by a later ping, as long as
\* nothing has failed: graceful restarts, poison messages and lost commits lose nothing.
LossNeedsFault ==
  ~faulty => \A m \in seen :
    /\ IsPing(m) => LET e == Log[m[1]][m[2]] IN m[2] <= reached[e] \/ m[2] <= window[e]
    /\ IsPlain(m) => published[m] = 1 \/ m \in handling

\* What a step may never do: move an entity back on the map, to a ping that has an
\* event_id.
ShownInOrder ==
  [][\A m \in Messages \ Unmarked : IsPing(m) =>
       LET e == Log[m[1]][m[2]] IN shown'[e] = m[2] => shown[e] <= m[2]]_shown

--------------------------------------------------------------------------------
(* Liveness *)

\* The loop runs on and Docker restarts the process; the broker serves every topic
\* and accepts a commit now and then.
Fairness ==
  /\ \A t \in Topics : SF_vars(Take(t))
  /\ WF_vars(\E m \in Messages : Publish(m) \/ PublishFails(m))
  /\ WF_vars(BatchCommit) /\ SF_vars(TimedCommit)
  /\ WF_vars(PollNothing) /\ WF_vars(MaybeFlush)
  /\ \A e \in Entities : WF_vars(FlushPing(e))
  /\ WF_vars(Flushed) /\ WF_vars(LastCommit) /\ WF_vars(Restart)

FairSpec == Spec /\ Fairness

\* A poison message was produced, and a new process would read it (again).
PoisonWaits ==
  \E t \in Topics : \E o \in 1..end[t] :
    /\ Log[t][o] = Poison
    /\ IF committed[t] = NoOffset THEN FromEarliest ELSE committed[t] < o

\* The lag of the consumer group vanishes, unless a poison message stops one process
\* after the other: pings, garbage and events that could not be published are committed
\* in the end too.
LagVanishes ==
  \/ \A t \in Topics : <>[](position[t] = end[t] /\ (t \in polled => committed[t] = end[t]))
  \/ <>[]PoisonWaits
================================================================================
