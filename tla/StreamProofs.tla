----------------------------- MODULE StreamProofs -----------------------------
(***************************************************************************)
(* StreamProcessor shows every event that has an event_id at most once,    *)
(* moves no entity back to one, and loses none unless something fails, for *)
(* any topics, entities, batch size and number of restarts, and whichever  *)
(* events have no event_id or stop the process.  The argument: an event is *)
(* marked before anything is done with it, and what a restart reads again  *)
(* and a channel has already gone past is marked (NoneBehind).             *)
(***************************************************************************)
EXTENDS StreamProcessor, TLAPS

\* The counter of published events is full only on the way to its commit.
Counted == pending = BatchSize => pc = "batch_commit"

\* A ping that is marked when it is taken up.
HasMark(t, o) == IsPing(<<t, o>>) /\ <<t, o>> \notin Unmarked

\* At most one plain event is in hand; if it has an event_id, it is marked and not yet
\* published.
OneInHand ==
  /\ pc # "publish" => handling = {}
  /\ \A m, n \in handling : m = n
  /\ \A m \in handling : IsPlain(m) /\ (m \notin Unmarked => m \in seen /\ published[m] = 0)

\* Of the events that have an event_id, only marked ones were published.
MarkedFirst == \A m \in Messages \ Unmarked : published[m] > 0 => m \in seen

\* Marks are of messages that have an event_id.
SeenHaveIds == seen \cap Unmarked = {}

\* A restart would read message o of t again.
Replayed(t, o) == IF committed[t] = NoOffset THEN FromEarliest ELSE committed[t] < o

\* The loop has marked every ping it has polled since the last commit.
PolledIsMarked ==
  ~stopping => \A t \in Topics, o \in Offsets :
    HasMark(t, o) /\ o <= position[t] /\ Replayed(t, o) => <<t, o>> \in seen

\* A ping that its entity's channel or window has gone past, and that will be read
\* yet or again, is marked.
NoneBehind ==
  \A t \in Topics, o \in Offsets :
    /\ HasMark(t, o)
    /\ o <= reached[Log[t][o]] \/ o <= window[Log[t][o]]
    /\ position[t] < o \/ Replayed(t, o)
    => <<t, o>> \in seen

\* What was polled, committed or shown had been produced, and what is in the window was
\* polled.
Produced ==
  \A t \in Topics :
    /\ position[t] <= end[t]
    /\ committed[t] # NoOffset => committed[t] <= end[t]
    /\ \A o \in Offsets : IsPing(<<t, o>>) =>
         reached[Log[t][o]] <= end[t] /\ window[Log[t][o]] <= position[t]

\* A window that holds a ping with an event_id is ahead of all its channel has seen.
WindowAhead ==
  /\ \A e \in Entities : shown[e] <= reached[e]
  /\ \A t \in Topics, o \in Offsets :
       HasMark(t, o) /\ window[Log[t][o]] = o => reached[Log[t][o]] <= o

\* Shutting down, nothing is polled, and the window is flushed before the last commit.
FlushedLast ==
  /\ stopping => pc \in {"flush", "last_commit", "down"}
  /\ pc \in {"last_commit", "down"} => window = NoPings

Ordered == PolledIsMarked /\ NoneBehind /\ Produced /\ WindowAhead /\ FlushedLast

SInv ==
  /\ TypeOK /\ Counted
  /\ OneInHand /\ MarkedFirst /\ SeenHaveIds /\ PublishedOnce
  /\ Ordered
  /\ LossNeedsFault

--------------------------------------------------------------------------------
(* Types *)

\* A message of the log is a message, and reading it keeps positions in range.
LEMMA AdvanceType ==
  ASSUME TypeOK, NEW t \in Topics, Advance(t)
  PROVE  /\ position[t] + 1 \in Offsets
         /\ <<t, position[t] + 1>> \in Messages
         /\ position' \in [Topics -> 0..MaxOffset]
         /\ polled' \subseteq Topics
         /\ UNCHANGED <<end, committed>>
  BY StreamAssumption DEF TypeOK, Advance, Offsets, Messages

\* A commit takes the committed offsets to offsets.
LEMMA CommitType ==
  ASSUME TypeOK, CommitPosition
  PROVE  committed' \in [Topics -> 0..MaxOffset \cup {NoOffset}]
  BY DEF TypeOK, CommitPosition

\* Every step of the loop keeps types, and the counter of pending commits below the
\* batch size.
LEMMA TypeStep == TypeOK /\ Counted /\ [Next]_vars => TypeOK' /\ Counted'
<1> SUFFICES ASSUME TypeOK, Counted, [Next]_vars PROVE TypeOK' /\ Counted'
  OBVIOUS
<1> USE StreamAssumption DEF Counted
<1>1. ASSUME NEW t \in Topics, Produce(t) PROVE TypeOK' /\ Counted'
  BY <1>1 DEF Produce, TypeOK, redis
<1>2. ASSUME NEW t \in Topics, Take(t) PROVE TypeOK' /\ Counted'
  <2>1. Advance(t)
    BY <1>2 DEF Take
  <2> DEFINE m == <<t, position[t] + 1>>
             k == Log[t][position[t] + 1]
  <2>2. m \in Messages /\ position[t] + 1 \in 0..MaxOffset
    BY <2>1, AdvanceType DEF Offsets
  <2>3. /\ seen' \in {seen, seen \cup ({m} \ Unmarked)}
        /\ pc' \in {"windows", "publish", "flush"} /\ stopping' \in {stopping, TRUE}
        /\ \/ UNCHANGED <<handling, window>>
           \/ k \in Entities /\ window' = [window EXCEPT ![k] = m[2]] /\ UNCHANGED handling
           \/ handling' = {m} /\ UNCHANGED window
    BY <1>2 DEF Take
  <2>4. seen' \subseteq Messages /\ handling' \subseteq Messages
    BY <2>2, <2>3 DEF TypeOK
  <2>5. window' \in [Entities -> 0..MaxOffset]
    BY <2>2, <2>3 DEF TypeOK
  <2>6. UNCHANGED <<published, shown, reached, pending, faulty, restarts>> /\ pc = "poll"
    BY <1>2 DEF Take
  <2> QED
    BY <2>1, <2>3, <2>4, <2>5, <2>6, AdvanceType DEF TypeOK
<1>3. ASSUME NEW t \in Topics, DedupFails(t) PROVE TypeOK' /\ Counted'
  <2>1. Advance(t) /\ seen' \in {seen, seen \cup {<<t, position[t] + 1>>}}
    BY <1>3 DEF DedupFails
  <2>2. seen' \subseteq Messages
    BY <2>1, AdvanceType DEF TypeOK
  <2>3. restarts' \in 0..MaxRestarts
    BY <1>3 DEF DedupFails, TypeOK
  <2> QED
    BY <1>3, <2>1, <2>2, <2>3, AdvanceType DEF DedupFails, TypeOK
<1>4. ASSUME NEW m \in Messages, Publish(m) PROVE TypeOK' /\ Counted'
  <2>1. published' \in [Messages -> 0..2]
    BY <1>4 DEF Publish, TypeOK, OnceMore
  <2>2. pending < BatchSize
    BY <1>4 DEF Publish, TypeOK
  <2>3. pending' \in 0..BatchSize /\ pc' \in {"batch_commit", "windows"} /\ Counted'
    BY <1>4, <2>2 DEF Publish, TypeOK
  <2> QED
    BY <1>4, <2>1, <2>3 DEF Publish, TypeOK, kafka
<1>5. ASSUME NEW m \in Messages, PublishFails(m) PROVE TypeOK' /\ Counted'
  <2>1. published' \in [Messages -> 0..2]
    BY <1>5 DEF PublishFails, TypeOK, OnceMore
  <2> QED
    BY <1>5, <2>1 DEF PublishFails, TypeOK, kafka
<1>6. ASSUME BatchCommit \/ TimedCommit \/ LastCommit PROVE TypeOK' /\ Counted'
  <2>1. CommitPosition \/ UNCHANGED committed
    BY <1>6 DEF BatchCommit, TimedCommit, LastCommit
  <2>2. committed' \in [Topics -> 0..MaxOffset \cup {NoOffset}]
    BY <2>1, CommitType DEF TypeOK
  <2>3. pending' = 0 /\ pc' \in {"windows", "poll", "down"}
    BY <1>6 DEF BatchCommit, TimedCommit, LastCommit
  <2>4. UNCHANGED <<end, position, polled, redis, handling, window, stopping, faulty, restarts>>
    BY <1>6 DEF BatchCommit, TimedCommit, LastCommit
  <2> QED
    BY <2>2, <2>3, <2>4 DEF TypeOK, redis
<1>7. ASSUME NoTimedCommit \/ PollNothing \/ MaybeFlush \/ Flushed PROVE TypeOK' /\ Counted'
  BY <1>7 DEF NoTimedCommit, PollNothing, MaybeFlush, Flushed, TypeOK, kafka, redis
<1>8. ASSUME Stop \/ Crash PROVE TypeOK' /\ Counted'
  <2>1. restarts' \in 0..MaxRestarts
    BY <1>8 DEF Stop, Crash, TypeOK
  <2>2. NoPings \in [Entities -> 0..MaxOffset]
    BY DEF NoPings
  <2>3. CASE Stop
    BY <2>1, <2>3 DEF Stop, TypeOK, kafka, redis
  <2>4. CASE Crash
    BY <2>1, <2>2, <2>4 DEF Crash, TypeOK, kafka, redis
  <2> QED
    BY <1>8, <2>3, <2>4
<1>9. ASSUME NEW e \in Entities, FlushPing(e) PROVE TypeOK' /\ Counted'
  <2>1. window[e] \in 0..MaxOffset
    BY DEF TypeOK
  <2>2. (ShowPing(e) \/ UNCHANGED <<shown, reached>>) /\ faulty' \in {faulty, TRUE}
    BY <1>9 DEF FlushPing
  <2>3. shown' \in [Entities -> 0..MaxOffset] /\ reached' \in [Entities -> 0..MaxOffset]
    BY <2>1, <2>2 DEF TypeOK, ShowPing
  <2>4. window' \in [Entities -> 0..MaxOffset]
    BY <1>9 DEF FlushPing, TypeOK
  <2> QED
    BY <1>9, <2>2, <2>3, <2>4 DEF FlushPing, TypeOK, kafka
<1>10. ASSUME Restart PROVE TypeOK' /\ Counted'
  <2>1. position' \in [Topics -> 0..MaxOffset]
    BY <1>10 DEF Restart, TypeOK
  <2>2. NoPings \in [Entities -> 0..MaxOffset]
    BY DEF NoPings
  <2>3. pending' \in 0..BatchSize /\ Counted'
    BY <1>10 DEF Restart
  <2>4. UNCHANGED <<end, committed, seen, published, shown, reached, faulty, restarts>>
    BY <1>10 DEF Restart, redis
  <2>5. /\ polled' = {} /\ handling' = {} /\ window' = NoPings
        /\ stopping' = FALSE /\ pc' = "poll"
    BY <1>10 DEF Restart
  <2> HIDE DEF Counted
  <2> QED
    BY <2>1, <2>2, <2>3, <2>4, <2>5 DEF TypeOK
<1>11. ASSUME UNCHANGED vars PROVE TypeOK' /\ Counted'
  BY <1>11 DEF vars, TypeOK, kafka, redis
<1> QED
  BY <1>1, <1>2, <1>3, <1>4, <1>5, <1>6, <1>7, <1>8, <1>9, <1>10, <1>11 DEF Next

--------------------------------------------------------------------------------
(* Marked first, published once *)

\* A plain event is published only while it is in hand, which it is once if it has an
\* event_id.
LEMMA OnceStep ==
  TypeOK /\ OneInHand /\ MarkedFirst /\ SeenHaveIds /\ PublishedOnce /\ [Next]_vars
    => OneInHand' /\ MarkedFirst' /\ SeenHaveIds' /\ PublishedOnce'
<1> DEFINE Goal == OneInHand' /\ MarkedFirst' /\ SeenHaveIds' /\ PublishedOnce'
<1> SUFFICES ASSUME TypeOK, OneInHand, MarkedFirst, SeenHaveIds, PublishedOnce, [Next]_vars
             PROVE  Goal
  OBVIOUS
<1>1. ASSUME UNCHANGED <<seen, published>>,
             handling' = {} \/ (UNCHANGED handling /\ pc # "publish") \/ UNCHANGED <<handling, pc>>
      PROVE  Goal
  BY <1>1 DEF OneInHand, MarkedFirst, SeenHaveIds, PublishedOnce, IsPlain
<1>2. ASSUME NEW t \in Topics, Take(t) PROVE Goal
  <2> DEFINE m == <<t, position[t] + 1>>
  <2>1. m \in Messages
    BY <1>2, AdvanceType DEF Take
  <2>2. UNCHANGED published /\ handling = {} /\ seen' \in {seen, seen \cup ({m} \ Unmarked)}
    BY <1>2 DEF Take, OneInHand
  <2>3. MarkedFirst' /\ SeenHaveIds' /\ PublishedOnce'
    BY <2>2 DEF MarkedFirst, SeenHaveIds, PublishedOnce
  <2>4. CASE UNCHANGED handling
    BY <2>2, <2>3, <2>4 DEF OneInHand
  <2>5. CASE /\ Log[t][position[t] + 1] = Plain /\ ~IsDuplicate(m)
             /\ seen' = seen \cup ({m} \ Unmarked) /\ handling' = {m} /\ pc' = "publish"
    <3>1. m \notin Unmarked => published[m] = 0
      BY <2>1, <2>5 DEF MarkedFirst, IsDuplicate, TypeOK
    <3>2. IsPlain(m)
      BY <2>5 DEF IsPlain
    <3> QED
      BY <2>2, <2>3, <2>5, <3>1, <3>2 DEF OneInHand, IsPlain
  <2> QED
    BY <1>2, <2>4, <2>5 DEF Take
<1>3. ASSUME NEW t \in Topics, DedupFails(t) PROVE Goal
  <2>1. /\ UNCHANGED <<published, handling>> /\ handling = {}
        /\ seen \subseteq seen' /\ SeenHaveIds'
    BY <1>3 DEF DedupFails, OneInHand, SeenHaveIds
  <2> QED
    BY <2>1 DEF OneInHand, MarkedFirst, PublishedOnce
<1>4. ASSUME NEW m \in Messages, Publish(m) \/ PublishFails(m) PROVE Goal
  <2>1. m \notin Unmarked => m \in seen /\ published[m] = 0
    BY <1>4 DEF Publish, PublishFails, OneInHand
  <2>2. UNCHANGED seen /\ handling' = {} /\ pc' # "publish"
    BY <1>4 DEF Publish, PublishFails
  <2>3. published' = published \/ published' = [published EXCEPT ![m] = OnceMore(@)]
    BY <1>4 DEF Publish, PublishFails
  <2>4. MarkedFirst' /\ SeenHaveIds' /\ PublishedOnce'
    BY <2>1, <2>2, <2>3 DEF MarkedFirst, SeenHaveIds, PublishedOnce, TypeOK, OnceMore
  <2> QED
    BY <2>2, <2>4 DEF OneInHand
<1>5. ASSUME NEW t \in Topics, Produce(t) PROVE Goal
  BY <1>1, <1>5 DEF Produce, redis
<1>6. CASE BatchCommit \/ TimedCommit \/ NoTimedCommit \/ LastCommit
  <2>1. UNCHANGED <<seen, published, handling>> /\ pc # "publish"
    BY <1>6 DEF BatchCommit, TimedCommit, NoTimedCommit, LastCommit, redis
  <2> QED
    BY <1>1, <2>1
<1>7. CASE PollNothing \/ MaybeFlush \/ Flushed \/ Stop
  <2>1. UNCHANGED <<seen, published, handling>> /\ pc # "publish"
    BY <1>7 DEF PollNothing, MaybeFlush, Flushed, Stop, redis
  <2> QED
    BY <1>1, <2>1
<1>8. ASSUME NEW e \in Entities, FlushPing(e) PROVE Goal
  BY <1>1, <1>8 DEF FlushPing
<1>9. CASE Restart \/ Crash
  <2>1. UNCHANGED <<seen, published>> /\ handling' = {}
    BY <1>9 DEF Restart, Crash, redis
  <2> QED
    BY <1>1, <2>1
<1>10. CASE UNCHANGED vars
  BY <1>1, <1>10 DEF vars, redis
<1> HIDE DEF Goal
<1> QED
  BY <1>2, <1>3, <1>4, <1>5, <1>6, <1>7, <1>8, <1>9, <1>10 DEF Next

--------------------------------------------------------------------------------
(* The order of pings *)

\* No ping that has an event_id moves its entity back.
NoneMovesBack ==
  \A t \in Topics, o \in Offsets :
    HasMark(t, o) /\ shown'[Log[t][o]] = o => shown[Log[t][o]] <= o

\* A new ping that has an event_id is ahead of its entity's channel.
LEMMA NewPingAhead ==
  ASSUME TypeOK, NoneBehind, NEW t \in Topics, position[t] + 1 \in Offsets,
         HasMark(t, position[t] + 1), <<t, position[t] + 1>> \notin seen
  PROVE  reached[Log[t][position[t] + 1]] <= position[t]
<1> DEFINE o == position[t] + 1
           e == Log[t][o]
<1>1. e \in Entities /\ position[t] \in Nat /\ reached[e] \in Nat
  BY DEF HasMark, IsPing, TypeOK
<1>2. ~(o <= reached[e])
  BY <1>1 DEF NoneBehind
<1> QED
  BY <1>1, <1>2

\* Taking up a message keeps the pings in order.
LEMMA TakeOrdered ==
  ASSUME TypeOK, Ordered, NEW t \in Topics, Take(t)
  PROVE  Ordered'
<1> USE DEF Ordered
<1> DEFINE o == position[t] + 1
           k == Log[t][o]
           m == <<t, o>>
<1>1. /\ o \in Offsets /\ m \in Messages
      /\ position' = [position EXCEPT ![t] = o] /\ position[t] < end[t]
      /\ UNCHANGED <<end, committed, shown, reached>>
      /\ pc = "poll" /\ ~stopping /\ seen \subseteq seen'
      /\ pc' \in {"windows", "publish", "flush"} /\ (stopping' => pc' = "flush")
  <2>1. Advance(t) /\ pc = "poll" /\ UNCHANGED <<shown, reached>>
    BY DEF Take
  <2>2. /\ seen \subseteq seen' /\ pc' \in {"windows", "publish", "flush"}
        /\ UNCHANGED stopping \/ (stopping' /\ pc' = "flush")
    BY DEF Take
  <2>3. ~stopping
    BY <2>1 DEF FlushedLast
  <2>4. stopping' => pc' = "flush"
    BY <2>2, <2>3
  <2>5. o \in Offsets /\ m \in Messages /\ UNCHANGED <<end, committed>>
    BY <2>1, AdvanceType
  <2>6. position' = [position EXCEPT ![t] = o] /\ position[t] < end[t]
    BY <2>1 DEF Advance
  <2> QED
    BY <2>1, <2>2, <2>3, <2>4, <2>5, <2>6
<1>2. HasMark(t, o) => m \in seen'
  BY StreamAssumption DEF Take, HasMark, IsPing, IsDuplicate
<1>3. \A u \in Topics : position'[u] = IF u = t THEN o ELSE position[u]
  BY <1>1 DEF TypeOK
<1>4. \A u \in Topics : position[u] \in Nat /\ end[u] \in Nat
  BY DEF TypeOK
<1>5. \A u \in Topics, p \in Offsets : p \in Nat /\ (Replayed(u, p)' <=> Replayed(u, p))
  BY <1>1 DEF Offsets, Replayed
<1>6. PolledIsMarked'
  <2> SUFFICES ASSUME NEW u \in Topics, NEW p \in Offsets, HasMark(u, p),
                      p <= position'[u], Replayed(u, p)
               PROVE  <<u, p>> \in seen'
    BY <1>5 DEF PolledIsMarked, HasMark, IsPing
  <2>1. CASE u = t /\ p = o
    BY <1>2, <2>1
  <2>2. CASE ~(u = t /\ p = o)
    <3>1. p <= position[u]
      BY <1>3, <1>4, <1>5, <2>2
    <3> QED
      BY <1>1, <3>1 DEF PolledIsMarked
  <2> QED
    BY <2>1, <2>2
<1>7. FlushedLast'
  BY <1>1 DEF FlushedLast
<1>10. \A e \in Entities : window[e] \in Nat
  BY DEF TypeOK
<1>8. CASE UNCHANGED window
  <2>1. NoneBehind'
    <3> SUFFICES ASSUME NEW u \in Topics, NEW p \in Offsets, HasMark(u, p),
                        p <= reached[Log[u][p]] \/ p <= window[Log[u][p]],
                        position'[u] < p \/ Replayed(u, p)
                 PROVE  <<u, p>> \in seen'
      BY <1>1, <1>5, <1>8 DEF NoneBehind, HasMark, IsPing
    <3>1. position[u] < p \/ Replayed(u, p)
      BY <1>3, <1>4, <1>5
    <3> QED
      BY <1>1, <3>1 DEF NoneBehind
  <2>2. Produced'
    <3> SUFFICES ASSUME NEW u \in Topics
                 PROVE  /\ position'[u] <= end[u]
                        /\ \A p \in Offsets : IsPing(<<u, p>>) =>
                             window[Log[u][p]] <= position'[u]
      BY <1>1, <1>8 DEF Produced, IsPing
    <3> QED
      BY <1>1, <1>3, <1>4, <1>10 DEF Produced, IsPing
  <2>3. WindowAhead'
    BY <1>1, <1>8 DEF WindowAhead, HasMark, IsPing
  <2> QED
    BY <1>6, <1>7, <2>1, <2>2, <2>3
<1>9. CASE k \in Entities /\ ~IsDuplicate(m) /\ window' = [window EXCEPT ![k] = m[2]]
  <2>1. \A e \in Entities : window'[e] = IF e = k THEN o ELSE window[e]
    BY <1>9 DEF TypeOK
  <2>2. HasMark(t, o) => reached[k] <= position[t]
    BY <1>1, <1>9, NewPingAhead DEF IsDuplicate
  <2>3. \A e \in Entities : reached[e] \in Nat /\ window[e] \in Nat
    BY DEF TypeOK
  <2>4. \A u \in Topics, p \in Offsets : Log[u][p] = k => u = t
    BY <1>1, <1>9, StreamAssumption
  <2>5. NoneBehind'
    <3> SUFFICES ASSUME NEW u \in Topics, NEW p \in Offsets, HasMark(u, p),
                        p <= reached[Log[u][p]] \/ p <= window'[Log[u][p]],
                        position'[u] < p \/ Replayed(u, p)
                 PROVE  <<u, p>> \in seen'
      BY <1>1, <1>5 DEF NoneBehind, HasMark, IsPing
    <3>1. position[u] < p \/ Replayed(u, p)
      BY <1>3, <1>4, <1>5
    <3>2. CASE p <= reached[Log[u][p]] \/ p <= window[Log[u][p]]
      BY <1>1, <3>1, <3>2 DEF NoneBehind
    <3>3. CASE Log[u][p] = k /\ p <= o
      <4>1. u = t
        BY <2>4, <3>3
      <4>2. Replayed(u, p)
        BY <1>3, <1>4, <1>5, <3>3, <4>1
      <4>3. CASE p = o
        BY <1>2, <4>1, <4>3
      <4>4. CASE p # o
        <5>1. p <= position[t]
          BY <1>4, <1>5, <3>3, <4>4
        <5> QED
          BY <1>1, <4>1, <4>2, <5>1 DEF PolledIsMarked
      <4> QED
        BY <4>3, <4>4
    <3> QED
      BY <2>1, <3>2, <3>3 DEF HasMark, IsPing
  <2>6. Produced'
    <3> SUFFICES ASSUME NEW u \in Topics
                 PROVE  /\ position'[u] <= end[u]
                        /\ \A p \in Offsets : IsPing(<<u, p>>) =>
                             window'[Log[u][p]] <= position'[u]
      BY <1>1 DEF Produced, IsPing
    <3>1. position'[u] <= end[u]
      BY <1>1, <1>3, <1>4 DEF Produced
    <3>2. ASSUME NEW p \in Offsets, IsPing(<<u, p>>)
          PROVE  window'[Log[u][p]] <= position'[u]
      BY <1>1, <1>3, <1>4, <2>1, <2>3, <2>4, <3>2 DEF Produced, IsPing
    <3> QED
      BY <3>1, <3>2
  <2>7. WindowAhead'
    <3> SUFFICES ASSUME NEW u \in Topics, NEW p \in Offsets, HasMark(u, p),
                        window'[Log[u][p]] = p
                 PROVE  reached[Log[u][p]] <= p
      BY <1>1 DEF WindowAhead, HasMark, IsPing
    <3>1. CASE Log[u][p] # k
      BY <2>1, <3>1 DEF WindowAhead, HasMark, IsPing
    <3>2. CASE Log[u][p] = k
      BY <1>4, <1>9, <2>1, <2>2, <2>3, <2>4, <3>2
    <3> QED
      BY <3>1, <3>2
  <2> QED
    BY <1>6, <1>7, <2>5, <2>6, <2>7
<1> QED
  BY <1>8, <1>9 DEF Take

\* So does a commit, however far it takes the committed offsets.
LEMMA CommitOrdered ==
  ASSUME TypeOK, Ordered, CommitPosition \/ UNCHANGED committed,
         UNCHANGED <<end, position, seen, shown, reached, window, stopping>>, FlushedLast'
  PROVE  Ordered'
<1> USE DEF Ordered
<1>1. \A t \in Topics : committed'[t] = committed[t] \/ committed'[t] = position[t]
  BY DEF CommitPosition, TypeOK
<1>2. \A t \in Topics, o \in Offsets : o \in Nat /\ position[t] \in Nat
  BY DEF Offsets, TypeOK
<1>3. \A t \in Topics : position[t] # NoOffset
  BY <1>2, StreamAssumption DEF TypeOK
<1>4. \A t \in Topics, o \in Offsets : Replayed(t, o)' => Replayed(t, o) \/ position[t] < o
  BY <1>1, <1>2, <1>3 DEF Replayed
<1>5. PolledIsMarked'
  BY <1>2, <1>4 DEF PolledIsMarked, HasMark, IsPing
<1>6. NoneBehind'
  BY <1>4 DEF NoneBehind, HasMark, IsPing
<1>7. Produced' /\ WindowAhead'
  BY <1>1 DEF Produced, WindowAhead, HasMark, IsPing
<1> QED
  BY <1>5, <1>6, <1>7

\* Publishing a ping of the window moves its entity on, or back to an event without an
\* event_id.
LEMMA FlushOrdered ==
  ASSUME TypeOK, Ordered, NEW e \in Entities, FlushPing(e)
  PROVE  Ordered' /\ NoneMovesBack
<1> USE DEF Ordered
<1>1. /\ UNCHANGED <<end, committed, position, seen, stopping, pc>> /\ pc = "flush"
      /\ window[e] # 0 /\ window' = [window EXCEPT ![e] = 0]
      /\ ShowPing(e) \/ UNCHANGED <<shown, reached>>
  BY DEF FlushPing, kafka
<1>2. \A d \in Entities :
        /\ window[d] \in Nat /\ shown[d] \in Nat /\ reached[d] \in Nat /\ shown[d] <= reached[d]
        /\ window'[d] = IF d = e THEN 0 ELSE window[d]
        /\ \/ shown'[d] = shown[d] /\ reached'[d] = reached[d]
           \/ /\ d = e /\ shown'[d] = window[e]
              /\ reached'[d] = IF reached[e] < window[e] THEN window[e] ELSE reached[e]
  BY <1>1 DEF TypeOK, ShowPing, WindowAhead
<1>3. NoneMovesBack
  <2> SUFFICES ASSUME NEW t \in Topics, NEW o \in Offsets, HasMark(t, o),
                      shown'[Log[t][o]] = o
               PROVE  shown[Log[t][o]] <= o
    BY DEF NoneMovesBack
  <2>1. Log[t][o] \in Entities
    BY DEF HasMark, IsPing
  <2>2. window[Log[t][o]] = o => reached[Log[t][o]] <= o
    BY DEF WindowAhead
  <2>3. o \in Nat
    BY DEF Offsets
  <2> QED
    BY <1>2, <2>1, <2>2, <2>3
<1>4. \A t \in Topics, o \in Offsets : o \in Nat /\ o > 0 /\ (Replayed(t, o)' <=> Replayed(t, o))
  BY <1>1 DEF Offsets, Replayed
<1>5. PolledIsMarked' /\ FlushedLast'
  BY <1>1, <1>4 DEF PolledIsMarked, FlushedLast, HasMark, IsPing
<1>6. NoneBehind'
  <2> SUFFICES ASSUME NEW t \in Topics, NEW o \in Offsets, HasMark(t, o),
                      o <= reached'[Log[t][o]] \/ o <= window'[Log[t][o]],
                      position[t] < o \/ Replayed(t, o)
               PROVE  <<t, o>> \in seen
    BY <1>1, <1>4 DEF NoneBehind, HasMark, IsPing
  <2>1. o <= reached[Log[t][o]] \/ o <= window[Log[t][o]]
    BY <1>2, <1>4 DEF HasMark, IsPing
  <2> QED
    BY <2>1 DEF NoneBehind
<1>7. Produced'
  <2> SUFFICES ASSUME NEW t \in Topics, NEW o \in Offsets, IsPing(<<t, o>>)
               PROVE  reached'[Log[t][o]] <= end[t] /\ window'[Log[t][o]] <= position[t]
    BY <1>1 DEF Produced, IsPing
  <2>1. /\ end[t] \in Nat /\ position[t] \in Nat /\ position[t] <= end[t]
        /\ reached[Log[t][o]] <= end[t] /\ window[Log[t][o]] <= position[t]
    BY DEF TypeOK, Produced
  <2> QED
    BY <1>2, <2>1 DEF IsPing
<1>8. WindowAhead'
  <2>1. \A d \in Entities : shown'[d] <= reached'[d]
    BY <1>2
  <2>2. ASSUME NEW t \in Topics, NEW o \in Offsets, HasMark(t, o), window'[Log[t][o]] = o
        PROVE  reached'[Log[t][o]] <= o
    BY <1>2, <1>4, <2>2 DEF WindowAhead, HasMark, IsPing
  <2> QED
    BY <2>1, <2>2 DEF WindowAhead, HasMark, IsPing
<1> QED
  BY <1>3, <1>5, <1>6, <1>7, <1>8

\* A new process reads again only what is marked or was not shown.
LEMMA RestartOrdered ==
  ASSUME TypeOK, Ordered, Restart
  PROVE  Ordered'
<1> USE DEF Ordered
<1>1. /\ UNCHANGED <<end, committed, seen, shown, reached>>
      /\ window = NoPings /\ window' = NoPings /\ pc' = "poll" /\ stopping' = FALSE
  BY DEF Restart, redis, FlushedLast
<1>2. \A t \in Topics :
        position'[t] = IF committed[t] # NoOffset THEN committed[t]
                       ELSE IF FromEarliest THEN 0 ELSE end[t]
  BY DEF Restart
<1>3. \A t \in Topics, o \in Offsets : o \in Nat /\ o > 0 /\ (Replayed(t, o)' <=> Replayed(t, o))
  BY <1>1 DEF Offsets, Replayed
<1>4. \A t \in Topics : end[t] \in Nat /\ (committed[t] # NoOffset => committed[t] \in Nat)
  BY DEF TypeOK
<1>5. \A e \in Entities : reached[e] \in Nat /\ window[e] = 0 /\ window'[e] = 0
  BY <1>1 DEF TypeOK, NoPings
<1>6. \A t \in Topics, o \in Offsets :
        IsPing(<<t, o>>) /\ position'[t] < o => Replayed(t, o) \/ reached[Log[t][o]] < o
  <2> SUFFICES ASSUME NEW t \in Topics, NEW o \in Offsets, IsPing(<<t, o>>),
                      position'[t] < o, ~Replayed(t, o)
               PROVE  reached[Log[t][o]] < o
    OBVIOUS
  <2>1. position'[t] = end[t]
    BY <1>2, <1>3 DEF Replayed
  <2>2. reached[Log[t][o]] <= end[t]
    BY DEF Produced
  <2> QED
    BY <1>3, <1>4, <1>5, <2>1, <2>2 DEF IsPing
<1>7. NoneBehind'
  <2> SUFFICES ASSUME NEW t \in Topics, NEW o \in Offsets, HasMark(t, o),
                      o <= reached[Log[t][o]] \/ o <= window'[Log[t][o]],
                      position'[t] < o \/ Replayed(t, o)
               PROVE  <<t, o>> \in seen
    BY <1>1, <1>3 DEF NoneBehind, HasMark, IsPing
  <2>1. o <= reached[Log[t][o]]
    BY <1>3, <1>5 DEF HasMark, IsPing
  <2>2. Replayed(t, o)
    BY <1>3, <1>5, <1>6, <2>1 DEF HasMark, IsPing
  <2> QED
    BY <2>1, <2>2 DEF NoneBehind
<1>8. PolledIsMarked'
  <2> SUFFICES ASSUME NEW t \in Topics, NEW o \in Offsets, o <= position'[t], Replayed(t, o)
               PROVE  FALSE
    BY <1>1, <1>3 DEF PolledIsMarked, HasMark, IsPing
  <2> QED
    BY <1>2, <1>3, <1>4 DEF Replayed
<1>9. Produced'
  <2>1. \A t \in Topics : position'[t] <= end[t]
    <3> SUFFICES ASSUME NEW t \in Topics PROVE position'[t] <= end[t]
      OBVIOUS
    <3>1. committed[t] # NoOffset => committed[t] <= end[t]
      BY DEF Produced
    <3> QED
      BY <1>2, <1>4, <3>1
  <2>2. \A t \in Topics : position'[t] \in Nat
    BY <1>2, <1>4
  <2>3. \A t \in Topics, o \in Offsets : IsPing(<<t, o>>) => window'[Log[t][o]] <= position'[t]
    BY <1>5, <2>2 DEF IsPing
  <2> QED
    BY <1>1, <2>1, <2>3 DEF Produced, IsPing
<1>10. WindowAhead' /\ FlushedLast'
  BY <1>1, <1>3, <1>5 DEF WindowAhead, FlushedLast, HasMark, IsPing
<1> QED
  BY <1>7, <1>8, <1>9, <1>10

\* Every step keeps the pings in order, and none that has an event_id moves its entity
\* back.
LEMMA OrderStep ==
  TypeOK /\ Ordered /\ [Next]_vars
    => Ordered' /\ NoneMovesBack
<1> DEFINE Goal == Ordered' /\ NoneMovesBack
<1> SUFFICES ASSUME TypeOK, Ordered, [Next]_vars PROVE Goal
  OBVIOUS
<1>1. UNCHANGED shown => NoneMovesBack
  BY DEF NoneMovesBack, TypeOK, Offsets
<1>2. ASSUME UNCHANGED <<end, committed, position, seen, shown, reached, window, stopping>>, FlushedLast'
      PROVE  Goal
  BY <1>1, <1>2, CommitOrdered
<1>3. ASSUME NEW t \in Topics, Produce(t) PROVE Goal
  <2>1. /\ UNCHANGED <<committed, position, seen, shown, reached, window, stopping, pc>>
        /\ end' = [end EXCEPT ![t] = @ + 1]
    BY <1>3 DEF Produce, redis
  <2>2. \A u \in Topics : end[u] \in Nat /\ end'[u] \in Nat /\ end[u] <= end'[u]
    BY <2>1 DEF TypeOK
  <2>3. \A u \in Topics : position[u] \in Nat /\ (committed[u] # NoOffset => committed[u] \in Nat)
    BY DEF TypeOK
  <2>4. \A e \in Entities : reached[e] \in Nat /\ window[e] \in Nat
    BY DEF TypeOK
  <2>5. Produced'
    BY <2>1, <2>2, <2>3, <2>4 DEF Ordered, Produced, IsPing
  <2>6. PolledIsMarked' /\ NoneBehind' /\ WindowAhead' /\ FlushedLast'
    BY <2>1 DEF Ordered, PolledIsMarked, NoneBehind, WindowAhead, FlushedLast, Replayed, HasMark, IsPing
  <2> QED
    BY <1>1, <2>1, <2>5, <2>6 DEF Ordered
<1>4. ASSUME NEW t \in Topics, Take(t) PROVE Goal
  BY <1>1, <1>4, TakeOrdered DEF Take
<1>5. ASSUME NEW t \in Topics, DedupFails(t) PROVE Goal
  <2>1. /\ UNCHANGED <<end, committed, shown, reached, window>> /\ seen \subseteq seen'
        /\ position' = [position EXCEPT ![t] = @ + 1] /\ position[t] < end[t]
        /\ stopping' = TRUE /\ pc' = "flush"
    BY <1>5 DEF DedupFails, Advance
  <2>2. \A u \in Topics : position[u] \in Nat /\ end[u] \in Nat
    BY DEF TypeOK
  <2>3. \A u \in Topics : position'[u] = IF u = t THEN position[u] + 1 ELSE position[u]
    BY <2>1 DEF TypeOK
  <2>4. \A u \in Topics, o \in Offsets : position'[u] < o => position[u] < o
    BY <2>2, <2>3 DEF Offsets
  <2>5. NoneBehind'
    BY <2>1, <2>4 DEF Ordered, NoneBehind, Replayed, HasMark, IsPing
  <2>6. Produced'
    <3>1. \A u \in Topics : position[u] <= position'[u] /\ position'[u] <= end[u]
      BY <2>1, <2>2, <2>3 DEF Ordered, Produced
    <3>2. \A e \in Entities : window[e] \in Nat
      BY DEF TypeOK
    <3>3. ASSUME NEW u \in Topics, NEW o \in Offsets, IsPing(<<u, o>>)
          PROVE  window[Log[u][o]] <= position'[u]
      BY <2>2, <2>3, <3>1, <3>2, <3>3 DEF Ordered, Produced, IsPing
    <3> QED
      BY <2>1, <3>1, <3>3 DEF Ordered, Produced, IsPing
  <2>7. PolledIsMarked' /\ WindowAhead' /\ FlushedLast'
    BY <2>1 DEF Ordered, PolledIsMarked, WindowAhead, FlushedLast, HasMark, IsPing
  <2> QED
    BY <1>1, <2>1, <2>5, <2>6, <2>7 DEF Ordered
<1>6. ASSUME NEW m \in Messages, Publish(m) \/ PublishFails(m) PROVE Goal
  <2>1. /\ UNCHANGED <<end, committed, position, seen, shown, reached, window, stopping>>
        /\ pc = "publish" /\ pc' \in {"batch_commit", "windows"}
    BY <1>6 DEF Publish, PublishFails, kafka
  <2> QED
    BY <1>2, <2>1 DEF Ordered, FlushedLast
<1>7. CASE BatchCommit \/ TimedCommit
  <2>1. /\ CommitPosition \/ UNCHANGED committed
        /\ UNCHANGED <<end, position, seen, shown, reached, window, stopping>>
        /\ pc \in {"batch_commit", "timer"} /\ pc' \in {"windows", "poll"}
    BY <1>7 DEF BatchCommit, TimedCommit, redis
  <2>2. FlushedLast'
    BY <2>1 DEF Ordered, FlushedLast
  <2> QED
    BY <1>1, <2>1, <2>2, CommitOrdered
<1>8. CASE LastCommit
  <2>1. /\ CommitPosition \/ UNCHANGED committed
        /\ UNCHANGED <<end, position, seen, shown, reached, window, stopping>>
        /\ pc = "last_commit" /\ pc' = "down"
    BY <1>8 DEF LastCommit, redis
  <2>2. FlushedLast'
    BY <2>1 DEF Ordered, FlushedLast, NoPings
  <2> QED
    BY <1>1, <2>1, <2>2, CommitOrdered
<1>9. CASE NoTimedCommit \/ PollNothing \/ MaybeFlush
  <2>1. /\ UNCHANGED <<end, committed, position, seen, shown, reached, window, stopping>>
        /\ pc \in {"timer", "poll", "windows"} /\ pc' \in {"poll", "windows", "flush", "timer"}
    BY <1>9 DEF NoTimedCommit, PollNothing, MaybeFlush, kafka, redis
  <2> QED
    BY <1>2, <2>1 DEF Ordered, FlushedLast
<1>10. CASE Flushed
  <2>1. /\ UNCHANGED <<end, committed, position, seen, shown, reached, window, stopping>>
        /\ window = NoPings /\ pc' = IF stopping THEN "last_commit" ELSE "timer"
    BY <1>10 DEF Flushed, kafka, redis
  <2>2. FlushedLast'
    BY <2>1 DEF FlushedLast, NoPings
  <2> QED
    BY <1>2, <2>1, <2>2
<1>11. CASE Stop
  <2>1. /\ UNCHANGED <<end, committed, position, seen, shown, reached, window>>
        /\ stopping' = TRUE /\ pc' = "flush"
    BY <1>11 DEF Stop, kafka, redis
  <2>2. PolledIsMarked' /\ WindowAhead' /\ FlushedLast'
    BY <2>1 DEF Ordered, PolledIsMarked, WindowAhead, FlushedLast, HasMark, IsPing
  <2>3. NoneBehind' /\ Produced'
    BY <2>1 DEF Ordered, NoneBehind, Produced, Replayed, HasMark, IsPing
  <2> QED
    BY <1>1, <2>1, <2>2, <2>3 DEF Ordered
<1>12. ASSUME NEW e \in Entities, FlushPing(e) PROVE Goal
  BY <1>12, FlushOrdered
<1>13. CASE Restart
  BY <1>1, <1>13, RestartOrdered DEF Restart, redis
<1>14. CASE Crash
  <2>1. /\ UNCHANGED <<end, committed, position, seen, shown, reached, stopping>>
        /\ window' = NoPings /\ pc' = "down"
    BY <1>14 DEF Crash, kafka, redis
  <2>2. \A e \in Entities : window'[e] = 0 /\ reached[e] \in Nat /\ window[e] \in Nat
    BY <2>1 DEF NoPings, TypeOK
  <2>3. \A t \in Topics, o \in Offsets : o \in Nat /\ o > 0 /\ end[t] \in Nat
    BY DEF Offsets, TypeOK
  <2>6. \A t \in Topics : position[t] \in Nat
    BY DEF TypeOK
  <2>4. NoneBehind' /\ Produced'
    <3>1. NoneBehind'
      BY <2>1, <2>2, <2>3 DEF Ordered, NoneBehind, Replayed, HasMark, IsPing
    <3>2. Produced'
      BY <2>1, <2>2, <2>6 DEF Ordered, Produced, IsPing
    <3> QED
      BY <3>1, <3>2
  <2>5. PolledIsMarked' /\ WindowAhead' /\ FlushedLast'
    BY <2>1, <2>2, <2>3 DEF Ordered, PolledIsMarked, WindowAhead, FlushedLast, Replayed, HasMark, IsPing, NoPings
  <2> QED
    BY <1>1, <2>1, <2>4, <2>5 DEF Ordered
<1>15. CASE UNCHANGED vars
  <2>1. UNCHANGED <<end, committed, position, seen, shown, reached, window, stopping, pc>>
    BY <1>15 DEF vars, kafka, redis
  <2> QED
    BY <1>2, <2>1 DEF Ordered, FlushedLast, NoPings
<1> HIDE DEF Goal
<1> QED
  BY <1>3, <1>4, <1>5, <1>6, <1>7, <1>8, <1>9, <1>10, <1>11, <1>12, <1>13, <1>14, <1>15 DEF Next

--------------------------------------------------------------------------------
(* Nothing is lost unless something fails *)

\* Where a message that was taken up is kept, as long as nothing has failed.
Kept(m) ==
  /\ IsPing(m) => m[2] <= reached[Log[m[1]][m[2]]] \/ m[2] <= window[Log[m[1]][m[2]]]
  /\ IsPlain(m) => published[m] = 1 \/ m \in handling

\* A message that was taken up stays in hand until it is on its channel.
LEMMA LossStep == SInv /\ TypeOK' /\ [Next]_vars => LossNeedsFault'
<1> SUFFICES ASSUME SInv, TypeOK', [Next]_vars, ~faulty', NEW m \in seen' PROVE Kept(m)'
  BY DEF LossNeedsFault, Kept, IsPing, IsPlain
<1> USE DEF SInv
<1>0. m \in Messages /\ m[1] \in Topics /\ m[2] \in Nat
  BY DEF TypeOK, Messages, Offsets
<1>1. \A e \in Entities : /\ reached[e] \in Nat /\ window[e] \in Nat
                          /\ reached'[e] \in Nat /\ window'[e] \in Nat
  BY DEF TypeOK
<1>2. ~faulty /\ m \in seen => Kept(m)
  BY DEF LossNeedsFault, Kept
<1>3. ASSUME UNCHANGED <<seen, published, handling, reached, window, faulty>> PROVE Kept(m)'
  BY <1>2, <1>3 DEF Kept, IsPing, IsPlain
<1>4. ASSUME NEW t \in Topics, Take(t) PROVE Kept(m)'
  <2> DEFINE o == position[t] + 1
             k == Log[t][o]
  <2>1. /\ o \in Offsets /\ UNCHANGED <<published, reached, faulty>>
        /\ handling = {} /\ position[t] \in Nat
    BY <1>4, AdvanceType DEF Take, OneInHand, TypeOK
  <2>2. CASE UNCHANGED <<seen, handling, window>>
    BY <1>2, <2>1, <2>2, StreamAssumption DEF Kept, IsPing, IsPlain
  <2>3. CASE /\ k \in Entities /\ ~IsDuplicate(<<t, o>>)
             /\ seen' = seen \cup ({<<t, o>>} \ Unmarked) /\ window' = [window EXCEPT ![k] = o]
             /\ UNCHANGED handling
    <3>1. window[k] <= o
      <4>1. window[k] <= position[t]
        BY <2>1, <2>3 DEF Ordered, Produced, IsPing
      <4> QED
        BY <1>1, <2>1, <2>3, <4>1
    <3>2. \A e \in Entities : window'[e] = IF e = k THEN o ELSE window[e]
      BY <2>3 DEF TypeOK
    <3>3. CASE m = <<t, o>>
      BY <2>1, <2>3, <3>2, <3>3, StreamAssumption DEF Kept, IsPing, IsPlain
    <3>4. CASE m \in seen
      <4>1. Kept(m)
        BY <1>2, <2>1, <3>4
      <4>2. IsPlain(m) => published'[m] = 1 \/ m \in handling'
        BY <2>1, <2>3, <4>1 DEF Kept
      <4>3. ASSUME IsPing(m) PROVE m[2] <= reached'[Log[m[1]][m[2]]] \/ m[2] <= window'[Log[m[1]][m[2]]]
        BY <1>0, <1>1, <2>1, <3>1, <3>2, <4>1, <4>3 DEF Kept, IsPing
      <4> QED
        BY <4>2, <4>3 DEF Kept, IsPing, IsPlain
    <3> QED
      BY <2>3, <3>3, <3>4
  <2>4. CASE /\ k = Plain /\ seen' = seen \cup ({<<t, o>>} \ Unmarked) /\ handling' = {<<t, o>>}
             /\ UNCHANGED window
    BY <1>2, <2>1, <2>4, StreamAssumption DEF Kept, IsPing, IsPlain
  <2> QED
    BY <1>4, <2>2, <2>3, <2>4 DEF Take, IsDuplicate
<1>5. ASSUME NEW n \in Messages, Publish(n) PROVE Kept(m)'
  <2>1. /\ UNCHANGED <<seen, reached, window, faulty>>
        /\ n \in handling /\ handling' = {} /\ published' = [published EXCEPT ![n] = OnceMore(@)]
    BY <1>5 DEF Publish
  <2>2. handling = {n} /\ (n \notin Unmarked => published[n] = 0)
    BY <2>1 DEF OneInHand
  <2>3. /\ n \notin Unmarked => published'[n] = 1
        /\ \A p \in Messages : p # n => published'[p] = published[p]
    BY <2>1, <2>2 DEF TypeOK, OnceMore
  <2>4. m \notin Unmarked
    BY <2>1 DEF SeenHaveIds
  <2> QED
    BY <1>0, <1>2, <2>1, <2>2, <2>3, <2>4 DEF Kept, IsPing, IsPlain
<1>6. ASSUME NEW e \in Entities, FlushPing(e) PROVE Kept(m)'
  <2>1. /\ UNCHANGED <<seen, published, handling, faulty>>
        /\ window' = [window EXCEPT ![e] = 0] /\ ShowPing(e)
    BY <1>6 DEF FlushPing
  <2>2. \A d \in Entities :
          /\ reached[d] <= reached'[d]
          /\ d = e => window[e] <= reached'[d]
          /\ d # e => window'[d] = window[d]
    BY <1>1, <2>1 DEF TypeOK, ShowPing
  <2>3. Kept(m)
    BY <1>2, <2>1
  <2>4. ASSUME IsPing(m)
        PROVE  m[2] <= reached'[Log[m[1]][m[2]]] \/ m[2] <= window'[Log[m[1]][m[2]]]
    BY <1>0, <1>1, <2>2, <2>3, <2>4 DEF Kept, IsPing
  <2> QED
    BY <2>1, <2>3, <2>4 DEF Kept, IsPing, IsPlain
<1>7. CASE Restart
  <2>1. /\ UNCHANGED <<seen, published, reached, faulty>>
        /\ handling = {} /\ handling' = {} /\ window = NoPings /\ window' = NoPings
    BY <1>7 DEF Restart, redis, Ordered, FlushedLast, OneInHand
  <2> QED
    BY <1>3, <2>1
<1>8. ASSUME NEW t \in Topics, Produce(t) PROVE Kept(m)'
  BY <1>3, <1>8 DEF Produce, redis
<1>9. CASE BatchCommit \/ TimedCommit \/ NoTimedCommit \/ LastCommit
  BY <1>3, <1>9 DEF BatchCommit, TimedCommit, NoTimedCommit, LastCommit, redis
<1>10. CASE PollNothing \/ MaybeFlush \/ Flushed \/ Stop
  BY <1>3, <1>10 DEF PollNothing, MaybeFlush, Flushed, Stop, redis
<1>11. ASSUME NEW t \in Topics, DedupFails(t) PROVE FALSE
  BY <1>11 DEF DedupFails
<1>12. ASSUME NEW n \in Messages, PublishFails(n) PROVE FALSE
  BY <1>12 DEF PublishFails
<1>13. CASE Crash
  BY <1>13 DEF Crash
<1>14. CASE UNCHANGED vars
  BY <1>3, <1>14 DEF vars, redis
<1> QED
  BY <1>4, <1>5, <1>6, <1>7, <1>8, <1>9, <1>10, <1>11, <1>12, <1>13, <1>14 DEF Next

--------------------------------------------------------------------------------
(* Theorems *)

\* The inductive invariant: every process, of any number, leaves marks, channels and
\* commits in order.
THEOREM StreamInvariance == Spec => []SInv
<1>1. Init => SInv
  <2> SUFFICES ASSUME Init PROVE SInv
    OBVIOUS
  <2>1. TypeOK
    <3>1. NoPings \in [Entities -> 0..MaxOffset]
      BY StreamAssumption DEF NoPings
    <3>2. published \in [Messages -> 0..2]
      BY DEF Init
    <3>3. /\ end \in [Topics -> 0..MaxOffset] /\ position \in [Topics -> 0..MaxOffset]
          /\ committed \in [Topics -> 0..MaxOffset \cup {NoOffset}]
      BY StreamAssumption DEF Init
    <3>4. pending \in 0..BatchSize /\ restarts \in 0..MaxRestarts
      BY StreamAssumption DEF Init
    <3> QED
      BY <3>1, <3>2, <3>3, <3>4 DEF Init, TypeOK
  <2>2. Counted /\ OneInHand /\ MarkedFirst /\ SeenHaveIds /\ PublishedOnce /\ LossNeedsFault
    BY StreamAssumption
       DEF Init, Counted, OneInHand, MarkedFirst, SeenHaveIds, PublishedOnce, LossNeedsFault
  <2>3. \A t \in Topics, o \in Offsets : o > 0 /\ position[t] = 0 /\ end[t] = 0
    BY DEF Init, Offsets
  <2>4. \A e \in Entities : window[e] = 0 /\ shown[e] = 0 /\ reached[e] = 0
    BY DEF Init, NoPings
  <2>5. PolledIsMarked /\ NoneBehind
    BY <2>3, <2>4 DEF PolledIsMarked, NoneBehind, HasMark, IsPing, Offsets
  <2>6. Produced
    BY <2>3, <2>4 DEF Produced, IsPing, Init
  <2>7. WindowAhead /\ FlushedLast
    BY <2>3, <2>4 DEF WindowAhead, FlushedLast, HasMark, IsPing, Init
  <2> QED
    BY <2>1, <2>2, <2>5, <2>6, <2>7 DEF SInv, Ordered
<1>2. SInv /\ [Next]_vars => SInv'
  <2> SUFFICES ASSUME SInv, [Next]_vars PROVE SInv'
    OBVIOUS
  <2>1. TypeOK' /\ Counted'
    BY TypeStep DEF SInv
  <2>2. OneInHand' /\ MarkedFirst' /\ SeenHaveIds' /\ PublishedOnce'
    BY OnceStep DEF SInv
  <2>3. Ordered'
    BY OrderStep DEF SInv
  <2>4. LossNeedsFault'
    BY <2>1, LossStep
  <2> QED
    BY <2>1, <2>2, <2>3, <2>4 DEF SInv
<1> QED
  BY <1>1, <1>2, PTL DEF Spec

\* TypeOK holds for any instance.
THEOREM StreamTypeCorrect == Spec => []TypeOK
<1>1. SInv => TypeOK
  BY DEF SInv
<1> QED
  BY <1>1, StreamInvariance, PTL

\* PublishedOnce: no replay after a crash, a lost commit, a poison message or a restart
\* takes an event that has an event_id to its channel again.
THEOREM ShownOnce == Spec => []PublishedOnce
<1>1. SInv => PublishedOnce
  BY DEF SInv
<1> QED
  BY <1>1, StreamInvariance, PTL

\* LossNeedsFault: graceful restarts, poison messages and lost commits lose nothing that
\* was marked.
THEOREM NothingLost == Spec => []LossNeedsFault
<1>1. SInv => LossNeedsFault
  BY DEF SInv
<1> QED
  BY <1>1, StreamInvariance, PTL

\* ShownInOrder: no step moves an entity back to a ping that has an event_id.
THEOREM NeverBack == Spec => ShownInOrder
<1> DEFINE InOrder == \A m \in Messages \ Unmarked : IsPing(m) =>
                        LET e == Log[m[1]][m[2]] IN shown'[e] = m[2] => shown[e] <= m[2]
<1>1. SInv /\ [Next]_vars => [InOrder]_shown
  <2>1. NoneMovesBack => InOrder
    BY DEF NoneMovesBack, HasMark, Messages
  <2> QED
    BY <2>1, OrderStep DEF SInv
<1> QED
  BY <1>1, StreamInvariance, PTL DEF Spec, ShownInOrder
================================================================================
