---------------------------- MODULE BronzeIngestion ----------------------------
(***************************************************************************)
(* The ingestion service (services/bronze-ingestion/src: main.py,          *)
(* consumer.py, writer.py, dlq_writer.py): a loop that polls Kafka,        *)
(* collects the messages of each topic in memory, and every batch interval *)
(* appends them to the topic's Delta table and then commits the consumer's *)
(* position.  Messages that fail validation go to dead-letter tables.      *)
(*                                                                         *)
(* The process may die at any point (an exception of a Delta write or of a *)
(* commit ends it too) and is restarted by Docker; it then reads on from   *)
(* the committed offsets.  A topic stands for one partition: its messages  *)
(* are numbered from 1.  A Delta append is atomic.                         *)
(***************************************************************************)
EXTENDS Naturals

CONSTANTS
  Topics,
  MaxOffset,     \* bound: messages per topic
  Kinds,         \* kinds of messages that occur
  DLQEnabled,    \* DLQ_ENABLED
  ValidateJson,  \* DLQ_VALIDATE_JSON or DLQ_VALIDATE_SCHEMA
  MaxCrashes     \* bound: failed writes and crashes

ASSUME BronzeAssumption ==
  /\ MaxOffset \in Nat
  /\ Kinds \subseteq {"good", "malformed", "undecodable"}
  /\ DLQEnabled \in BOOLEAN /\ ValidateJson \in BOOLEAN
  /\ MaxCrashes \in Nat

Offsets == 1..MaxOffset

VARIABLES
  kind,        \* kind[t][o]: what Kafka holds at offset o of topic t
  committed,   \* committed offset of the consumer group: last message done
  position,    \* last message polled
  batch,       \* message_batches
  dlqBatch,    \* dlq_batch, by topic
  bronze,      \* bronze[t][o]: copies of the message in the topic's table
  dlq,         \* messages in the topic's dead-letter table
  unwritten,   \* topics the current flush has still to write
  pc,          \* where the loop is
  due,         \* the batch interval has elapsed
  closing,     \* a signal has ended the loop
  crashes

vars == <<kind, committed, position, batch, dlqBatch, bronze, dlq, unwritten,
          pc, due, closing, crashes>>

--------------------------------------------------------------------------------
\* validate_message: undecodable values always fail, malformed ones if asked.
Rejects(k) == DLQEnabled /\ (k = "undecodable" \/ (ValidateJson /\ k = "malformed"))

Accepted(t, o) == ~Rejects(kind[t][o])

Nothing == [t \in Topics |-> {}]

Pending(b) == {t \in Topics : b[t] # {}}

Init ==
  /\ kind \in [Topics -> [Offsets -> Kinds]]
  /\ committed = [t \in Topics |-> 0]
  /\ position = [t \in Topics |-> 0]
  /\ batch = Nothing /\ dlqBatch = Nothing
  /\ bronze = [t \in Topics |-> [o \in Offsets |-> 0]]
  /\ dlq = Nothing
  /\ unwritten = {}
  /\ pc = "poll"
  /\ due = FALSE
  /\ closing = FALSE
  /\ crashes = 0

--------------------------------------------------------------------------------
(* The loop *)

BatchIntervalElapses ==
  /\ pc # "down" /\ ~due
  /\ due' = TRUE
  /\ UNCHANGED <<kind, committed, position, batch, dlqBatch, bronze, dlq, unwritten,
                 pc, closing, crashes>>

\* _process_batch begins: the topics with messages in b are to be written.
BeginFlush(b) ==
  /\ pc' = "bronze"
  /\ unwritten' = Pending(b)

\* poll returns a message.  A rejected one ends the iteration at once: the timer
\* is not looked at.
Take(t) ==
  /\ pc = "poll"
  /\ position[t] < MaxOffset
  /\ LET o == position[t] + 1
     IN  /\ position' = [position EXCEPT ![t] = o]
         /\ \/ /\ ~Accepted(t, o)
               /\ dlqBatch' = [dlqBatch EXCEPT ![t] = @ \cup {o}]
               /\ UNCHANGED <<batch, unwritten, pc>>
            \/ /\ Accepted(t, o)
               /\ batch' = [batch EXCEPT ![t] = @ \cup {o}]
               /\ IF due THEN BeginFlush(batch') ELSE UNCHANGED <<unwritten, pc>>
               /\ UNCHANGED dlqBatch
  /\ UNCHANGED <<kind, committed, bronze, dlq, due, closing, crashes>>

\* Mutant: the timer is looked at only when a message came.
Bug_PollNothing ==
  /\ pc = "poll" /\ due
  /\ UNCHANGED vars

\* poll returns nothing; only the timer is looked at.
PollNothing ==
  /\ pc = "poll" /\ due
  /\ BeginFlush(batch)
  /\ UNCHANGED <<kind, committed, position, batch, dlqBatch, bronze, dlq, due, closing,
                 crashes>>

\* SIGTERM or SIGINT: the loop ends and flushes what it has.
Stop ==
  /\ pc = "poll"
  /\ closing' = TRUE
  /\ IF Pending(batch) = {} /\ Pending(dlqBatch) = {}
       THEN pc' = "down" /\ UNCHANGED unwritten
       ELSE BeginFlush(batch)
  /\ UNCHANGED <<kind, committed, position, batch, dlqBatch, bronze, dlq, due, crashes>>

--------------------------------------------------------------------------------
(* A flush *)

\* DeltaWriter.write_batch; an undecodable value makes add_metadata raise.
WriteTopic(t) ==
  /\ pc = "bronze" /\ t \in unwritten
  /\ \A o \in batch[t] : kind[t][o] # "undecodable"
  /\ bronze' = [bronze EXCEPT ![t] =
                  [o \in Offsets |-> IF o \in batch[t] THEN @[o] + 1 ELSE @[o]]]
  /\ unwritten' = unwritten \ {t}
  /\ UNCHANGED <<kind, committed, position, batch, dlqBatch, dlq, pc, due, closing,
                 crashes>>

\* The process ends; what it held in memory is gone.
Die ==
  /\ crashes < MaxCrashes
  /\ crashes' = crashes + 1
  /\ pc' = "down"
  /\ batch' = Nothing /\ dlqBatch' = Nothing /\ unwritten' = {}
  /\ UNCHANGED <<kind, committed, position, bronze, dlq, due, closing>>

\* Mutant: the failed write of a topic is logged and the flush goes on.
Bug_WriteFails(t) ==
  /\ pc = "bronze" /\ t \in unwritten
  /\ crashes < MaxCrashes
  /\ crashes' = crashes + 1
  /\ unwritten' = unwritten \ {t}
  /\ UNCHANGED <<kind, committed, position, batch, dlqBatch, bronze, dlq, pc, due, closing>>

\* A failed write is raised again and ends the process.
WriteFails(t) ==
  /\ pc = "bronze" /\ t \in unwritten
  /\ Die

\* All tables are written; the dead-letter records come next.
BronzeWritten ==
  /\ pc = "bronze" /\ unwritten = {}
  /\ pc' = "dlq"
  /\ unwritten' = Pending(dlqBatch)
  /\ UNCHANGED <<kind, committed, position, batch, dlqBatch, bronze, dlq, due, closing,
                 crashes>>

\* DLQWriter.write_batch, one dead-letter table after the other.
WriteDLQ(t) ==
  /\ pc = "dlq" /\ t \in unwritten
  /\ dlq' = [dlq EXCEPT ![t] = @ \cup dlqBatch[t]]
  /\ unwritten' = unwritten \ {t}
  /\ UNCHANGED <<kind, committed, position, batch, dlqBatch, bronze, pc, due, closing,
                 crashes>>

\* The dead-letter records are written, or their write has failed, which is only
\* logged: the rest of them is dropped.
DLQDone ==
  /\ pc = "dlq"
  /\ pc' = "commit"
  /\ unwritten' = {}
  /\ UNCHANGED <<kind, committed, position, batch, dlqBatch, bronze, dlq, due, closing,
                 crashes>>

\* Mutant: the batches are not cleared after the flush.
Bug_CommitKeeps ==
  /\ pc = "commit"
  /\ committed' = position
  /\ due' = FALSE
  /\ pc' = IF closing THEN "down" ELSE "poll"
  /\ UNCHANGED <<kind, position, batch, dlqBatch, bronze, dlq, unwritten, closing, crashes>>

\* KafkaConsumer.commit: the position of the consumer, whatever messages it is
\* given; nothing at all was polled if there is nothing to commit.
Commit ==
  /\ pc = "commit"
  /\ committed' = position
  /\ batch' = Nothing /\ dlqBatch' = Nothing
  /\ due' = FALSE
  /\ pc' = IF closing THEN "down" ELSE "poll"
  /\ UNCHANGED <<kind, position, bronze, dlq, unwritten, closing, crashes>>

Crash == pc # "down" /\ Die

\* Mutant: the new process reads on where the old one was (offsets committed on
\* poll).
Bug_Restart ==
  /\ pc = "down"
  /\ pc' = "poll"
  /\ due' = FALSE /\ closing' = FALSE
  /\ batch' = Nothing /\ dlqBatch' = Nothing /\ unwritten' = {}
  /\ UNCHANGED <<kind, position, committed, bronze, dlq, crashes>>

\* A new process subscribes and reads on from the committed offsets.
Restart ==
  /\ pc = "down"
  /\ pc' = "poll"
  /\ position' = committed
  /\ due' = FALSE /\ closing' = FALSE
  /\ batch' = Nothing /\ dlqBatch' = Nothing /\ unwritten' = {}
  /\ UNCHANGED <<kind, committed, bronze, dlq, crashes>>

Next ==
  \/ \E t \in Topics : Take(t) \/ WriteTopic(t) \/ WriteFails(t) \/ WriteDLQ(t)
  \/ BatchIntervalElapses \/ PollNothing \/ Stop
  \/ BronzeWritten \/ DLQDone \/ Commit
  \/ Crash \/ Restart

Spec == Init /\ [][Next]_vars

--------------------------------------------------------------------------------
(* Safety *)

TypeOK ==
  /\ kind \in [Topics -> [Offsets -> Kinds]]
  /\ committed \in [Topics -> 0..MaxOffset]
  /\ position \in [Topics -> 0..MaxOffset]
  /\ batch \in [Topics -> SUBSET Offsets]
  /\ dlqBatch \in [Topics -> SUBSET Offsets]
  /\ bronze \in [Topics -> [Offsets -> Nat]]
  /\ dlq \in [Topics -> SUBSET Offsets]
  /\ unwritten \subseteq Topics
  /\ pc \in {"poll", "bronze", "dlq", "commit", "down"}
  /\ due \in BOOLEAN /\ closing \in BOOLEAN
  /\ crashes \in 0..MaxCrashes

Stored(t, o) == bronze[t][o] > 0

\* At least once: a message whose offset is committed is in its table, whichever
\* write failed and wherever the process died; unless it was rejected.
CommittedIsStored ==
  \A t \in Topics, o \in Offsets :
    o <= committed[t] /\ Accepted(t, o) => Stored(t, o)

\* A table never has a gap: with a message it has every accepted one before it.
NoGaps ==
  \A t \in Topics, o \in Offsets : Stored(t, o) =>
    \A p \in 1..o : Accepted(t, p) => Stored(t, p)

\* What a step may never do: append a message again whose offset is committed.
\* Duplicates come only from a crash between a write and its commit.
CommittedOnce ==
  [][\A t \in Topics, o \in Offsets :
        o <= committed[t] => bronze'[t][o] = bronze[t][o]]_<<bronze, committed>>

--------------------------------------------------------------------------------
(* Liveness *)

\* The loop runs on; the broker serves every topic that has messages, however
\* often flushes come in between; time passes; Docker restarts the process.
\* That writes and commits do not fail for ever is the bound MaxCrashes.
Fairness ==
  /\ \A t \in Topics : SF_vars(Take(t)) /\ WF_vars(WriteTopic(t))
  /\ WF_vars(BatchIntervalElapses) /\ WF_vars(PollNothing)
  /\ WF_vars(BronzeWritten) /\ WF_vars(DLQDone) /\ WF_vars(Commit)
  /\ WF_vars(Restart)

FairSpec == Spec /\ Fairness

\* Every message that passes validation is stored in the end.
EventuallyStored ==
  \A t \in Topics, o \in Offsets : Accepted(t, o) ~> Stored(t, o)
================================================================================
