------------------------ MODULE EventProcessorProofs ------------------------
(***************************************************************************)
(* Type correctness of EventProcessor, and that no event is counted twice, *)
(* for every number of replicas, events, matches, messages and faults.     *)
(***************************************************************************)
EXTENDS EventProcessor, TLAPS

TypedHand == TypeOK /\ HandOK

\* The initial state is typed and has nothing in hand.
LEMMA InitTyped == Init => TypedHand
<1> SUFFICES ASSUME Init PROVE TypedHand
  OBVIOUS
<1> USE BoundsAssumption DEF Init, Empty
<1>1. KafkaOK /\ ReaderOK /\ OutOK
  BY DEF KafkaOK, ReaderOK, OutOK, Offsets
<1>2. RedisOK /\ ReplicaOK /\ HistoryOK
  BY DEF RedisOK, ReplicaOK, HistoryOK, Labels, maxDLQAttempts
<1>3. HandOK
  BY DEF HandOK, InHand
<1>4. QED
  BY <1>1, <1>2, <1>3 DEF TypedHand, TypeOK

\* A replica between the reservation and the commit holds an event, and the
\* snapshot it would persist is a history.
LEMMA InHandTyped ==
    ASSUME TypedHand, NEW c \in Consumers,
           pc[c] \in {"apply", "mark", "setStats", "setLatest", "addActive",
                      "publish"}
    PROVE  /\ Msg(c) \in Event
           /\ Msg(c).id \in EventIds \cup {NoId}
           /\ Msg(c).match \in Matches
           /\ Snapshot(c) \in Seq(Event)
<1>1. Msg(c) \in Event
  BY DEF TypedHand, HandOK
<1>2. QED
  BY <1>1 DEF Event, Snapshot, TypedHand, TypeOK, ReplicaOK

LEMMA ProduceTyped ==
    ASSUME TypedHand, NEW msg \in Messages, Produce(msg) PROVE TypedHand'
<1> USE DEF TypedHand, TypeOK
<1>1. /\ topic' \in Seq(Event \cup {Malformed})
      /\ Len(topic') = Len(topic) + 1
      /\ \A i \in 1 .. Len(topic) : topic'[i] = topic[i]
  BY MessagesAssumption DEF KafkaOK, Produce
<1>2. Offsets \subseteq Offsets'
  BY <1>1 DEF KafkaOK, Offsets
<1>3. KafkaOK' /\ ReaderOK' /\ OutOK'
  BY <1>1, <1>2 DEF KafkaOK, ReaderOK, OutOK, Produce, outVars, readerVars
<1>4. RedisOK' /\ ReplicaOK' /\ HistoryOK'
  BY DEF RedisOK, ReplicaOK, HistoryOK, Produce, redisVars, historyVars
<1>5. HandOK'
  BY <1>1 DEF KafkaOK, ReaderOK, HandOK, Msg, InHand, Offsets, Produce,
     readerVars
<1>6. QED
  BY <1>3, <1>4, <1>5

LEMMA StartTyped == ASSUME TypedHand, NEW c \in Consumers, Start(c) PROVE TypedHand'
<1> USE DEF TypedHand, TypeOK, Start, Goto
<1>1. KafkaOK' /\ RedisOK' /\ OutOK' /\ ReaderOK'
  BY DEF KafkaOK, RedisOK, OutOK, ReaderOK, Offsets, kafkaVars, redisVars,
     outVars, readerVars, historyVars
<1>2. ReplicaOK'
  BY DEF ReplicaOK, Labels, RedisOK, kafkaVars
<1>3. HistoryOK'
  BY DEF HistoryOK, FaultKinds, Spend, historyVars, kafkaVars
<1>4. HandOK'
  BY DEF HandOK, Msg, InHand, KafkaOK, ReaderOK, ReplicaOK, kafkaVars,
     readerVars
<1>5. QED
  BY <1>1, <1>2, <1>3, <1>4

LEMMA LoadMatchTyped == ASSUME TypedHand, NEW c \in Consumers, LoadMatch(c) PROVE TypedHand'
<1> USE DEF TypedHand, TypeOK, LoadMatch, Restored
<1>1. KafkaOK' /\ RedisOK' /\ OutOK' /\ ReaderOK'
  BY DEF KafkaOK, RedisOK, OutOK, ReaderOK, Offsets, kafkaVars, redisVars,
     outVars, readerVars, historyVars
<1>2. ReplicaOK'
  <2>1. PICK m \in toLoad[c] :
           /\ toLoad' = [toLoad EXCEPT ![c] = @ \ {m}]
           /\ mem' = mem \/ mem' = [mem EXCEPT ![c][m] = stats[m]]
    OBVIOUS
  <2>2. m \in Matches /\ stats[m] \in Seq(Event)
    BY DEF ReplicaOK, RedisOK
  <2>3. [mem[c] EXCEPT ![m] = stats[m]] \in [Matches -> Seq(Event)]
    BY <2>2 DEF ReplicaOK
  <2>4. mem' \in [Consumers -> [Matches -> Seq(Event)]]
    BY <2>1, <2>3 DEF ReplicaOK
  <2>5. QED
    BY <2>1, <2>4 DEF ReplicaOK
<1>3. HistoryOK'
  BY DEF HistoryOK, FaultKinds, Spend, historyVars, kafkaVars
<1>4. HandOK'
  BY DEF HandOK, Msg, InHand, KafkaOK, ReaderOK, ReplicaOK, kafkaVars,
     readerVars
<1>5. QED
  BY <1>1, <1>2, <1>3, <1>4

LEMMA StartReadingTyped == ASSUME TypedHand, NEW c \in Consumers, StartReading(c) PROVE TypedHand'
<1> USE DEF TypedHand, TypeOK, StartReading, Goto
<1>1. KafkaOK' /\ RedisOK' /\ OutOK' /\ ReaderOK' /\ HistoryOK'
  BY DEF KafkaOK, RedisOK, OutOK, ReaderOK, HistoryOK, Offsets, kafkaVars,
     redisVars, outVars, readerVars, historyVars
<1>2. ReplicaOK'
  BY DEF ReplicaOK, Labels, kafkaVars
<1>3. HandOK'
  BY DEF HandOK, Msg, InHand, KafkaOK, ReaderOK, ReplicaOK, kafkaVars,
     readerVars
<1>4. QED
  BY <1>1, <1>2, <1>3

LEMMA JoinTyped == ASSUME TypedHand, NEW c \in Consumers, Join(c) PROVE TypedHand'
<1> USE DEF TypedHand, TypeOK, Join, NewGeneration
<1>1. RedisOK' /\ OutOK' /\ ReplicaOK' /\ HistoryOK'
  BY DEF RedisOK, OutOK, ReplicaOK, HistoryOK, Offsets, kafkaVars, redisVars,
     outVars, readerVars, historyVars
<1>2. KafkaOK'
  BY DEF KafkaOK, Offsets, kafkaVars
<1>3. ReaderOK'
  BY DEF ReaderOK, KafkaOK, Offsets, readerVars, kafkaVars
<1>4. HandOK'
  BY DEF HandOK, Msg, InHand, KafkaOK, ReaderOK, ReplicaOK, kafkaVars,
     readerVars
<1>5. QED
  BY <1>1, <1>2, <1>3, <1>4

LEMMA RebalanceTyped == ASSUME TypedHand, NEW c \in Consumers, Rebalance(c) PROVE TypedHand'
<1> USE DEF TypedHand, TypeOK, Rebalance, NewGeneration
<1>1. RedisOK' /\ OutOK' /\ ReplicaOK'
  BY DEF RedisOK, OutOK, ReplicaOK, Offsets, kafkaVars, redisVars, outVars,
     readerVars, historyVars
<1>2. KafkaOK'
  BY DEF KafkaOK, Offsets, kafkaVars
<1>3. ReaderOK'
  BY DEF ReaderOK, KafkaOK, Offsets, readerVars, kafkaVars
<1>4. HistoryOK'
  BY DEF HistoryOK, FaultKinds, Spend, historyVars, kafkaVars
<1>5. HandOK'
  BY DEF HandOK, Msg, InHand, KafkaOK, ReaderOK, ReplicaOK, kafkaVars,
     readerVars
<1>6. QED
  BY <1>1, <1>2, <1>3, <1>4, <1>5

LEMMA FlushCommitTyped == ASSUME TypedHand, NEW c \in Consumers, FlushCommit(c) PROVE TypedHand'
<1> USE DEF TypedHand, TypeOK, FlushCommit
<1>1. RedisOK' /\ OutOK' /\ ReplicaOK' /\ HistoryOK'
  BY DEF RedisOK, OutOK, ReplicaOK, HistoryOK, Offsets, kafkaVars, redisVars,
     outVars, readerVars, historyVars
<1>2. KafkaOK'
  BY DEF KafkaOK, ReaderOK, Offsets, kafkaVars
<1>3. ReaderOK'
  BY DEF ReaderOK, KafkaOK, Offsets, readerVars, kafkaVars
<1>4. HandOK'
  BY DEF HandOK, Msg, InHand, KafkaOK, ReaderOK, ReplicaOK, kafkaVars,
     readerVars
<1>5. QED
  BY <1>1, <1>2, <1>3, <1>4

LEMMA FetchMessageTyped == ASSUME TypedHand, NEW c \in Consumers, FetchMessage(c) PROVE TypedHand'
<1> USE DEF TypedHand, TypeOK, FetchMessage, FetchWith, Goto
<1>1. KafkaOK' /\ RedisOK' /\ OutOK' /\ HistoryOK'
  BY DEF KafkaOK, RedisOK, OutOK, HistoryOK, Offsets, kafkaVars, redisVars,
     outVars, readerVars, historyVars
<1>2. ReaderOK'
  BY DEF ReaderOK, KafkaOK, Offsets, readerVars, kafkaVars
<1>3. ReplicaOK'
  BY DEF ReplicaOK, Dispatch, Labels, InHand, maxDLQAttempts, kafkaVars
<1>4. HandOK'
  BY SMTT(30) DEF HandOK, Msg, InHand, KafkaOK, ReaderOK, ReplicaOK, kafkaVars,
     readerVars, Dispatch, Event, Offsets
<1>5. QED
  BY <1>1, <1>2, <1>3, <1>4

LEMMA ReserveTyped == ASSUME TypedHand, NEW c \in Consumers, Reserve(c) PROVE TypedHand'
<1> USE DEF TypedHand, TypeOK, Reserve, Goto, FailOpen
<1>1. KafkaOK' /\ OutOK' /\ ReaderOK'
  BY DEF KafkaOK, OutOK, ReaderOK, Offsets, kafkaVars, redisVars, outVars,
     readerVars, historyVars
<1>2. RedisOK'
  BY DEF RedisOK, HandOK, SetNX, Claim, redisVars, kafkaVars
<1>3. ReplicaOK'
  BY DEF ReplicaOK, Labels, InHand, OnReserveError, OnReservation, kafkaVars
<1>4. HistoryOK'
  BY DEF HistoryOK, HandOK, FaultKinds, Spend, historyVars, kafkaVars
<1>5. HandOK'
  BY DEF HandOK, Msg, InHand, KafkaOK, ReaderOK, ReplicaOK, kafkaVars,
     readerVars, OnReserveError, OnReservation
<1>6. QED
  BY <1>1, <1>2, <1>3, <1>4, <1>5

LEMMA InspectTyped == ASSUME TypedHand, NEW c \in Consumers, Inspect(c) PROVE TypedHand'
<1> USE DEF TypedHand, TypeOK, Inspect, Goto, FailOpen
<1>1. KafkaOK' /\ RedisOK' /\ OutOK' /\ ReaderOK'
  BY DEF KafkaOK, RedisOK, OutOK, ReaderOK, Offsets, kafkaVars, redisVars,
     outVars, readerVars, historyVars
<1>2. ReplicaOK'
  BY DEF ReplicaOK, OnReservation, ReservationOf, Labels, InHand, OnReserveError, kafkaVars
<1>3. HistoryOK'
  BY DEF HistoryOK, HandOK, FaultKinds, Spend, historyVars, kafkaVars
<1>4. HandOK'
  BY DEF HandOK, Msg, InHand, KafkaOK, ReaderOK, ReplicaOK, kafkaVars,
     readerVars, OnReservation, ReservationOf, OnReserveError
<1>5. QED
  BY <1>1, <1>2, <1>3, <1>4

LEMMA ApplyTyped == ASSUME TypedHand, NEW c \in Consumers, Apply(c) PROVE TypedHand'
<1> USE DEF TypedHand, TypeOK, Apply, Goto
<1>1. KafkaOK' /\ RedisOK' /\ OutOK' /\ ReaderOK' /\ HistoryOK'
  BY DEF KafkaOK, RedisOK, OutOK, ReaderOK, HistoryOK, Offsets, kafkaVars,
     redisVars, outVars, readerVars, historyVars
<1>2. ReplicaOK'
  <2>1. Msg(c) \in Event /\ Msg(c).match \in Matches
    BY InHandTyped
  <2>2. mem' \in [Consumers -> [Matches -> Seq(Event)]]
    BY <2>1 DEF ReplicaOK
  <2>3. QED
    BY <2>2 DEF ReplicaOK, PersistOrder, Labels, InHand
<1>3. HandOK'
  BY DEF HandOK, Msg, InHand, KafkaOK, ReaderOK, ReplicaOK, kafkaVars,
     readerVars, PersistOrder, Event
<1>4. QED
  BY <1>1, <1>2, <1>3

LEMMA MarkTyped == ASSUME TypedHand, NEW c \in Consumers, Mark(c) PROVE TypedHand'
<1> USE DEF TypedHand, TypeOK, Mark, RedisWrite, Goto
<1>1. KafkaOK' /\ OutOK' /\ ReaderOK'
  BY DEF KafkaOK, OutOK, ReaderOK, Offsets, kafkaVars, redisVars, outVars,
     readerVars, historyVars
<1>2. RedisOK'
  BY DEF RedisOK, HandOK, redisVars, kafkaVars
<1>3. ReplicaOK'
  BY DEF ReplicaOK, PersistOrder, Labels, InHand, kafkaVars
<1>4. HistoryOK'
  BY DEF HistoryOK, FaultKinds, Spend, historyVars, kafkaVars
<1>5. HandOK'
  BY DEF HandOK, Msg, InHand, KafkaOK, ReaderOK, ReplicaOK, kafkaVars,
     readerVars, PersistOrder
<1>6. QED
  BY <1>1, <1>2, <1>3, <1>4, <1>5

LEMMA SetStatsTyped == ASSUME TypedHand, NEW c \in Consumers, SetStats(c) PROVE TypedHand'
<1> USE DEF TypedHand, TypeOK, SetStats, RedisWrite, Goto
<1>1. KafkaOK' /\ OutOK' /\ ReaderOK'
  BY DEF KafkaOK, OutOK, ReaderOK, Offsets, kafkaVars, redisVars, outVars,
     readerVars, historyVars
<1>2. RedisOK'
  <2>1. Msg(c).match \in Matches /\ Snapshot(c) \in Seq(Event)
    BY InHandTyped
  <2>2. QED
    BY <2>1 DEF RedisOK
<1>3. ReplicaOK'
  BY DEF ReplicaOK, PersistOrder, Labels, InHand, kafkaVars
<1>4. HistoryOK'
  BY DEF HistoryOK, FaultKinds, Spend, historyVars, kafkaVars
<1>5. HandOK'
  BY DEF HandOK, Msg, InHand, KafkaOK, ReaderOK, ReplicaOK, kafkaVars,
     readerVars, PersistOrder
<1>6. QED
  BY <1>1, <1>2, <1>3, <1>4, <1>5

LEMMA SetLatestTyped == ASSUME TypedHand, NEW c \in Consumers, SetLatest(c) PROVE TypedHand'
<1> USE DEF TypedHand, TypeOK, SetLatest, RedisWrite, Goto
<1>1. KafkaOK' /\ OutOK' /\ ReaderOK'
  BY DEF KafkaOK, OutOK, ReaderOK, Offsets, kafkaVars, redisVars, outVars,
     readerVars, historyVars
<1>2. RedisOK'
  <2>1. Msg(c).match \in Matches /\ Snapshot(c) \in Seq(Event)
    BY InHandTyped
  <2>2. QED
    BY <2>1 DEF RedisOK
<1>3. ReplicaOK'
  BY DEF ReplicaOK, PersistOrder, Labels, InHand, kafkaVars
<1>4. HistoryOK'
  BY DEF HistoryOK, FaultKinds, Spend, historyVars, kafkaVars
<1>5. HandOK'
  BY DEF HandOK, Msg, InHand, KafkaOK, ReaderOK, ReplicaOK, kafkaVars,
     readerVars, PersistOrder
<1>6. QED
  BY <1>1, <1>2, <1>3, <1>4, <1>5

LEMMA AddActiveMatchTyped == ASSUME TypedHand, NEW c \in Consumers, AddActiveMatch(c) PROVE TypedHand'
<1> USE DEF TypedHand, TypeOK, AddActiveMatch, RedisWrite, Goto
<1>1. KafkaOK' /\ OutOK' /\ ReaderOK'
  BY DEF KafkaOK, OutOK, ReaderOK, Offsets, kafkaVars, redisVars, outVars,
     readerVars, historyVars
<1>2. RedisOK'
  BY InHandTyped DEF RedisOK, HandOK, Event, redisVars, kafkaVars
<1>3. ReplicaOK'
  BY DEF ReplicaOK, PersistOrder, Labels, InHand, kafkaVars
<1>4. HistoryOK'
  BY DEF HistoryOK, FaultKinds, Spend, historyVars, kafkaVars
<1>5. HandOK'
  BY DEF HandOK, Msg, InHand, KafkaOK, ReaderOK, ReplicaOK, kafkaVars,
     readerVars, PersistOrder
<1>6. QED
  BY <1>1, <1>2, <1>3, <1>4, <1>5

LEMMA PublishTyped == ASSUME TypedHand, NEW c \in Consumers, Publish(c) PROVE TypedHand'
<1> USE DEF TypedHand, TypeOK, Publish, Goto
<1>1. KafkaOK' /\ RedisOK' /\ ReaderOK'
  BY DEF KafkaOK, RedisOK, ReaderOK, Offsets, kafkaVars, redisVars, outVars,
     readerVars, historyVars
<1>2. OutOK'
  <2>1. Msg(c).match \in Matches /\ Snapshot(c) \in Seq(Event)
    BY InHandTyped
  <2>2. Append(published, [match |-> Msg(c).match, events |-> Snapshot(c)])
          \in Seq([match : Matches, events : Seq(Event)])
    BY <2>1 DEF OutOK
  <2>3. published' \in Seq([match : Matches, events : Seq(Event)])
    BY <2>2 DEF OutOK
  <2>4. QED
    BY <2>3 DEF OutOK, Offsets, kafkaVars
<1>3. ReplicaOK'
  BY DEF ReplicaOK, PersistOrder, Labels, InHand, kafkaVars
<1>4. HistoryOK'
  BY DEF HistoryOK, FaultKinds, Spend, historyVars, kafkaVars
<1>5. HandOK'
  BY DEF HandOK, Msg, InHand, KafkaOK, ReaderOK, ReplicaOK, kafkaVars,
     readerVars, PersistOrder
<1>6. QED
  BY <1>1, <1>2, <1>3, <1>4, <1>5

LEMMA RouteToDLQTyped == ASSUME TypedHand, NEW c \in Consumers, RouteToDLQ(c) PROVE TypedHand'
<1> USE DEF TypedHand, TypeOK, RouteToDLQ, Goto
<1>1. KafkaOK' /\ RedisOK' /\ ReaderOK'
  BY DEF KafkaOK, RedisOK, ReaderOK, Offsets, kafkaVars, redisVars, outVars,
     readerVars, historyVars
<1>2. OutOK'
  <2>1. DLQRecord(c) \in [offset : Offsets, attempts : 0 .. maxDLQAttempts]
    BY DEF DLQRecord, ReaderOK, ReplicaOK
  <2>2. cur[c] \in Offsets
    BY DEF ReaderOK
  <2>3. QED
    BY <2>1, <2>2 DEF OutOK, Offsets, outVars, kafkaVars
<1>3. ReplicaOK'
  <2>1. \A a \in 0 .. 3 : ~(a >= 3) => a + 1 \in 0 .. 3
    OBVIOUS
  <2>2. attempt[c] \in 0 .. 3 /\ (GiveUpAt(c) <=> attempt[c] >= 3)
    BY DEF ReplicaOK, GiveUpAt, maxDLQAttempts
  <2>3. attempt' \in [Consumers -> 0 .. maxDLQAttempts]
    BY <2>1, <2>2 DEF ReplicaOK, maxDLQAttempts
  <2>4. QED
    BY <2>3 DEF ReplicaOK, Labels, InHand
<1>4. HistoryOK'
  BY DEF HistoryOK, FaultKinds, Spend, historyVars, kafkaVars
<1>5. HandOK'
  BY DEF HandOK, Msg, InHand, KafkaOK, ReaderOK, ReplicaOK, kafkaVars,
     readerVars
<1>6. QED
  BY <1>1, <1>2, <1>3, <1>4, <1>5

LEMMA CommitMessagesTyped == ASSUME TypedHand, NEW c \in Consumers, CommitMessages(c) PROVE TypedHand'
<1> USE DEF TypedHand, TypeOK, CommitMessages, CommitOffset, Goto
<1>1. KafkaOK' /\ RedisOK' /\ OutOK' /\ HistoryOK'
  BY DEF KafkaOK, RedisOK, OutOK, HistoryOK, Offsets, kafkaVars, redisVars,
     outVars, readerVars, historyVars
<1>2. ReaderOK'
  BY DEF ReaderOK, Offsets, readerVars, kafkaVars
<1>3. ReplicaOK'
  BY DEF ReplicaOK, Labels, kafkaVars
<1>4. HandOK'
  BY DEF HandOK, Msg, InHand, KafkaOK, ReaderOK, ReplicaOK, kafkaVars,
     readerVars
<1>5. QED
  BY <1>1, <1>2, <1>3, <1>4

LEMMA CrashTyped == ASSUME TypedHand, NEW c \in Consumers, Crash(c) PROVE TypedHand'
<1> USE DEF TypedHand, TypeOK, Crash, Goto
<1>1. RedisOK' /\ OutOK'
  BY DEF RedisOK, OutOK, Offsets, kafkaVars, redisVars, outVars, readerVars,
     historyVars
<1>2. KafkaOK'
  BY DEF KafkaOK, Offsets, kafkaVars
<1>3. ReaderOK'
  BY DEF ReaderOK, KafkaOK, Offsets, readerVars, kafkaVars
<1>4. ReplicaOK'
  BY DEF ReplicaOK, Empty, Labels, maxDLQAttempts, kafkaVars
<1>5. HistoryOK'
  BY DEF DiesWith, HistoryOK, FaultKinds, Spend
<1>6. HandOK'
  BY DEF HandOK, Msg, InHand, KafkaOK, ReaderOK, ReplicaOK, kafkaVars,
     readerVars
<1>7. QED
  BY <1>1, <1>2, <1>3, <1>4, <1>5, <1>6

LEMMA ExpireTyped == ASSUME TypedHand, NEW id \in EventIds, Expire(id) PROVE TypedHand'
<1> USE DEF TypedHand, TypeOK, Expire
<1>1. KafkaOK' /\ OutOK' /\ ReaderOK' /\ ReplicaOK'
  BY DEF KafkaOK, OutOK, ReaderOK, ReplicaOK, Offsets, kafkaVars, redisVars,
     outVars, readerVars, historyVars
<1>2. RedisOK'
  BY DEF RedisOK, redisVars, kafkaVars
<1>3. HistoryOK'
  BY DEF HistoryOK, FaultKinds, Spend, historyVars, kafkaVars
<1>4. HandOK'
  BY DEF HandOK, Msg, InHand, KafkaOK, ReaderOK, ReplicaOK, kafkaVars,
     readerVars
<1>5. QED
  BY <1>1, <1>2, <1>3, <1>4

\* Every step preserves the types, and what a replica may have in hand.
LEMMA NextTyped == TypedHand /\ [Next]_vars => TypedHand'
<1> SUFFICES ASSUME TypedHand, [Next]_vars PROVE TypedHand'
  OBVIOUS
<1>1. ASSUME NEW msg \in Messages, Produce(msg) PROVE TypedHand'
  BY <1>1, ProduceTyped
<1>2. ASSUME NEW c \in Consumers, Start(c) PROVE TypedHand'
  BY <1>2, StartTyped
<1>3. ASSUME NEW c \in Consumers, LoadMatch(c) PROVE TypedHand'
  BY <1>3, LoadMatchTyped
<1>4. ASSUME NEW c \in Consumers, StartReading(c) PROVE TypedHand'
  BY <1>4, StartReadingTyped
<1>5. ASSUME NEW c \in Consumers, FetchMessage(c) PROVE TypedHand'
  BY <1>5, FetchMessageTyped
<1>6. ASSUME NEW c \in Consumers, Reserve(c) PROVE TypedHand'
  BY <1>6, ReserveTyped
<1>7. ASSUME NEW c \in Consumers, Inspect(c) PROVE TypedHand'
  BY <1>7, InspectTyped
<1>8. ASSUME NEW c \in Consumers, Apply(c) PROVE TypedHand'
  BY <1>8, ApplyTyped
<1>9. ASSUME NEW c \in Consumers, Mark(c) PROVE TypedHand'
  BY <1>9, MarkTyped
<1>10. ASSUME NEW c \in Consumers, SetStats(c) PROVE TypedHand'
  BY <1>10, SetStatsTyped
<1>11. ASSUME NEW c \in Consumers, SetLatest(c) PROVE TypedHand'
  BY <1>11, SetLatestTyped
<1>12. ASSUME NEW c \in Consumers, AddActiveMatch(c) PROVE TypedHand'
  BY <1>12, AddActiveMatchTyped
<1>13. ASSUME NEW c \in Consumers, Publish(c) PROVE TypedHand'
  BY <1>13, PublishTyped
<1>14. ASSUME NEW c \in Consumers, RouteToDLQ(c) PROVE TypedHand'
  BY <1>14, RouteToDLQTyped
<1>15. ASSUME NEW c \in Consumers, CommitMessages(c) PROVE TypedHand'
  BY <1>15, CommitMessagesTyped
<1>16. ASSUME NEW c \in Consumers, Join(c) PROVE TypedHand'
  BY <1>16, JoinTyped
<1>17. ASSUME NEW c \in Consumers, Rebalance(c) PROVE TypedHand'
  BY <1>17, RebalanceTyped
<1>18. ASSUME NEW c \in Consumers, FlushCommit(c) PROVE TypedHand'
  BY <1>18, FlushCommitTyped
<1>19. ASSUME NEW c \in Consumers, Crash(c) PROVE TypedHand'
  BY <1>19, CrashTyped
<1>20. ASSUME NEW id \in EventIds, Expire(id) PROVE TypedHand'
  BY <1>20, ExpireTyped
<1>21. CASE UNCHANGED vars
  BY <1>21 DEF TypedHand, TypeOK, HandOK, KafkaOK, RedisOK, OutOK, ReaderOK,
     ReplicaOK, HistoryOK, Offsets, Msg, vars, kafkaVars, redisVars, outVars,
     readerVars, historyVars
<1>22. QED
  BY <1>1, <1>2, <1>3, <1>4, <1>5, <1>6, <1>7, <1>8, <1>9, <1>10, <1>11, <1>12, <1>13, <1>14, <1>15, <1>16, <1>17, <1>18, <1>19, <1>20, <1>21 DEF Next, Step

\* In every reachable state every variable has its type, and no replica reads,
\* holds or asks to commit an offset beyond the end of the topic.
THEOREM TypeCorrect == Spec => []TypeOK
<1>1. TypedHand => TypeOK
  BY DEF TypedHand
<1>2. QED
  BY InitTyped, NextTyped, <1>1, PTL DEF Spec

-----------------------------------------------------------------------------
(* Deduplication.  All steps but two are quiet: they copy histories or drop *)
(* them, release no reservation of an event that is not excused and bring   *)
(* no replica to the point of applying one.  The two others are the SETNX   *)
(* that wins and the update of the aggregate.                               *)

Quiet ==
    /\ Copies' \subseteq Copies \cup {<<>>}
    /\ Excused \subseteq Excused'
    /\ \A id \in EventIds \ Excused' : dedupe[id] # "none" => dedupe'[id] # "none"
    /\ \A c \in Consumers : \A id \in EventIds \ Excused' :
          Applies(c, id)' => Applies(c, id)

DedupeFacts == TypedHand /\ DedupeInv

\* A quiet step preserves the invariant.
LEMMA QuietStep ==
    ASSUME DedupeFacts, TypedHand', Quiet PROVE DedupeInv'
<1> USE DEF DedupeFacts, DedupeInv
<1>1. HandOK'
  BY DEF TypedHand
<1>2. \A id : OnceIn(<<>>, id) /\ ~Holds(<<>>, id)
  BY DEF OnceIn, Holds
<1>3. CountedOnce'
  BY <1>2 DEF Quiet, CountedOnce
<1>4. HeldIsClaimed'
  <2> SUFFICES ASSUME NEW id \in EventIds \ Excused', NEW h \in Copies',
                      Holds(h, id)
               PROVE  dedupe'[id] # "none"
    BY DEF HeldIsClaimed
  <2>1. h \in Copies /\ id \in EventIds \ Excused
    BY <1>2 DEF Quiet
  <2>2. QED
    BY <2>1 DEF HeldIsClaimed, Quiet
<1>5. ClaimIsExclusive'
  <2> SUFFICES ASSUME NEW c \in Consumers, NEW id \in EventIds \ Excused',
                      Applies(c, id)'
               PROVE  /\ dedupe'[id] # "none"
                      /\ \A h \in Copies' : ~Holds(h, id)
                      /\ \A d \in Consumers : Applies(d, id)' => d = c
    BY DEF ClaimIsExclusive
  <2>1. Applies(c, id) /\ id \in EventIds \ Excused
    BY DEF Quiet
  <2>2. QED
    BY <2>1, <1>2 DEF ClaimIsExclusive, Quiet
<1>6. QED
  BY <1>1, <1>3, <1>4, <1>5

\* A step that touches no copy leaves the set of copies as it is.
LEMMA SameCopies ==
    ASSUME UNCHANGED <<stats, latest, mem, published>> PROVE Copies' = Copies
  BY DEF Copies

LEMMA ProduceQuiet ==
    ASSUME DedupeFacts, NEW msg \in Messages, Produce(msg) PROVE Quiet
<1> USE DEF DedupeFacts, TypedHand, TypeOK, kafkaVars, redisVars, outVars, readerVars, historyVars
<1>1. Copies' \subseteq Copies \cup {<<>>}
  BY SameCopies DEF Produce
<1>2. Excused \subseteq Excused'
  BY DEF Produce, Excused
<1>3. \A id \in EventIds \ Excused' : dedupe[id] # "none" => dedupe'[id] # "none"
  BY DEF Produce
<1>4. \A d \in Consumers : \A id \in EventIds \ Excused' :
        Applies(d, id)' => Applies(d, id)
  <2>1. \A i \in 1 .. Len(topic) : topic'[i] = topic[i]
    BY MessagesAssumption DEF KafkaOK, Produce
  <2>2. QED
    BY <2>1 DEF Produce, Applies, Msg, HandOK, InHand, ReaderOK, Offsets
<1>5. QED
  BY <1>1, <1>2, <1>3, <1>4 DEF Quiet

LEMMA StartQuiet ==
    ASSUME DedupeFacts, NEW c \in Consumers, Start(c) PROVE Quiet
<1> USE DEF DedupeFacts, TypedHand, TypeOK, kafkaVars, redisVars, outVars, readerVars, historyVars
<1>1. Copies' \subseteq Copies \cup {<<>>}
  BY SameCopies DEF Start, Goto
<1>2. Excused \subseteq Excused'
  BY DEF Start, Goto, Excused
<1>3. \A id \in EventIds \ Excused' : dedupe[id] # "none" => dedupe'[id] # "none"
  BY DEF Start, Goto
<1>4. \A d \in Consumers : \A id \in EventIds \ Excused' :
        Applies(d, id)' => Applies(d, id)
  BY DEF Start, Goto, Applies, Msg, ReplicaOK
<1>5. QED
  BY <1>1, <1>2, <1>3, <1>4 DEF Quiet

LEMMA StartReadingQuiet ==
    ASSUME DedupeFacts, NEW c \in Consumers, StartReading(c) PROVE Quiet
<1> USE DEF DedupeFacts, TypedHand, TypeOK, kafkaVars, redisVars, outVars, readerVars, historyVars
<1>1. Copies' \subseteq Copies \cup {<<>>}
  BY SameCopies DEF StartReading, Goto
<1>2. Excused \subseteq Excused'
  BY DEF StartReading, Goto, Excused
<1>3. \A id \in EventIds \ Excused' : dedupe[id] # "none" => dedupe'[id] # "none"
  BY DEF StartReading, Goto
<1>4. \A d \in Consumers : \A id \in EventIds \ Excused' :
        Applies(d, id)' => Applies(d, id)
  BY DEF StartReading, Goto, Applies, Msg, ReplicaOK
<1>5. QED
  BY <1>1, <1>2, <1>3, <1>4 DEF Quiet

LEMMA JoinQuiet ==
    ASSUME DedupeFacts, NEW c \in Consumers, Join(c) PROVE Quiet
<1> USE DEF DedupeFacts, TypedHand, TypeOK, kafkaVars, redisVars, outVars, readerVars, historyVars
<1>1. Copies' \subseteq Copies \cup {<<>>}
  BY SameCopies DEF Join, NewGeneration
<1>2. Excused \subseteq Excused'
  BY DEF Join, NewGeneration, Excused
<1>3. \A id \in EventIds \ Excused' : dedupe[id] # "none" => dedupe'[id] # "none"
  BY DEF Join, NewGeneration
<1>4. \A d \in Consumers : \A id \in EventIds \ Excused' :
        Applies(d, id)' => Applies(d, id)
  BY DEF Join, NewGeneration, Applies, Msg, ReplicaOK
<1>5. QED
  BY <1>1, <1>2, <1>3, <1>4 DEF Quiet

LEMMA RebalanceQuiet ==
    ASSUME DedupeFacts, NEW c \in Consumers, Rebalance(c) PROVE Quiet
<1> USE DEF DedupeFacts, TypedHand, TypeOK, kafkaVars, redisVars, outVars, readerVars, historyVars
<1>1. Copies' \subseteq Copies \cup {<<>>}
  BY SameCopies DEF Rebalance, NewGeneration
<1>2. Excused \subseteq Excused'
  BY DEF Rebalance, NewGeneration, Excused
<1>3. \A id \in EventIds \ Excused' : dedupe[id] # "none" => dedupe'[id] # "none"
  BY DEF Rebalance, NewGeneration
<1>4. \A d \in Consumers : \A id \in EventIds \ Excused' :
        Applies(d, id)' => Applies(d, id)
  BY DEF Rebalance, NewGeneration, Applies, Msg, ReplicaOK
<1>5. QED
  BY <1>1, <1>2, <1>3, <1>4 DEF Quiet

LEMMA FlushCommitQuiet ==
    ASSUME DedupeFacts, NEW c \in Consumers, FlushCommit(c) PROVE Quiet
<1> USE DEF DedupeFacts, TypedHand, TypeOK, kafkaVars, redisVars, outVars, readerVars, historyVars
<1>1. Copies' \subseteq Copies \cup {<<>>}
  BY SameCopies DEF FlushCommit
<1>2. Excused \subseteq Excused'
  BY DEF FlushCommit, Excused
<1>3. \A id \in EventIds \ Excused' : dedupe[id] # "none" => dedupe'[id] # "none"
  BY DEF FlushCommit
<1>4. \A d \in Consumers : \A id \in EventIds \ Excused' :
        Applies(d, id)' => Applies(d, id)
  BY DEF FlushCommit, Applies, Msg, ReplicaOK
<1>5. QED
  BY <1>1, <1>2, <1>3, <1>4 DEF Quiet

LEMMA RouteToDLQQuiet ==
    ASSUME DedupeFacts, NEW c \in Consumers, RouteToDLQ(c) PROVE Quiet
<1> USE DEF DedupeFacts, TypedHand, TypeOK, kafkaVars, redisVars, outVars, readerVars, historyVars
<1>1. Copies' \subseteq Copies \cup {<<>>}
  BY SameCopies DEF RouteToDLQ, Goto
<1>2. Excused \subseteq Excused'
  BY DEF RouteToDLQ, Goto, Excused
<1>3. \A id \in EventIds \ Excused' : dedupe[id] # "none" => dedupe'[id] # "none"
  BY DEF RouteToDLQ, Goto
<1>4. \A d \in Consumers : \A id \in EventIds \ Excused' :
        Applies(d, id)' => Applies(d, id)
  BY DEF RouteToDLQ, Goto, Applies, Msg, ReplicaOK
<1>5. QED
  BY <1>1, <1>2, <1>3, <1>4 DEF Quiet

LEMMA CommitMessagesQuiet ==
    ASSUME DedupeFacts, NEW c \in Consumers, CommitMessages(c) PROVE Quiet
<1> USE DEF DedupeFacts, TypedHand, TypeOK, kafkaVars, redisVars, outVars, readerVars, historyVars
<1>1. Copies' \subseteq Copies \cup {<<>>}
  BY SameCopies DEF CommitMessages, Goto
<1>2. Excused \subseteq Excused'
  BY DEF CommitMessages, Goto, Excused
<1>3. \A id \in EventIds \ Excused' : dedupe[id] # "none" => dedupe'[id] # "none"
  BY DEF CommitMessages, Goto
<1>4. \A d \in Consumers : \A id \in EventIds \ Excused' :
        Applies(d, id)' => Applies(d, id)
  BY DEF CommitMessages, Goto, Applies, Msg, ReplicaOK
<1>5. QED
  BY <1>1, <1>2, <1>3, <1>4 DEF Quiet

LEMMA LoadMatchQuiet ==
    ASSUME DedupeFacts, NEW c \in Consumers, LoadMatch(c) PROVE Quiet
<1> USE DEF DedupeFacts, TypedHand, TypeOK, kafkaVars, redisVars, outVars, readerVars, historyVars
<1>1. Copies' \subseteq Copies \cup {<<>>}
  <2>1. PICK m \in Matches : mem' = mem \/ mem' = [mem EXCEPT ![c][m] = stats[m]]
    BY DEF LoadMatch, Restored, ReplicaOK
  <2>2. \A b \in Consumers, n \in Matches : mem'[b][n] \in {mem[b][n], stats[m]}
    <3>1. CASE mem' = mem
      BY <3>1
    <3>2. CASE mem' = [mem EXCEPT ![c][m] = stats[m]]
      BY <3>2, Zenon DEF ReplicaOK
    <3>3. QED
      BY <2>1, <3>1, <3>2
  <2>3. QED
    BY <2>2 DEF Copies, LoadMatch
<1>2. Excused \subseteq Excused'
  BY DEF LoadMatch, Restored, Excused
<1>3. \A id \in EventIds \ Excused' : dedupe[id] # "none" => dedupe'[id] # "none"
  BY DEF LoadMatch, Restored
<1>4. \A d \in Consumers : \A id \in EventIds \ Excused' :
        Applies(d, id)' => Applies(d, id)
  BY DEF LoadMatch, Restored, Applies, Msg, ReplicaOK
<1>5. QED
  BY <1>1, <1>2, <1>3, <1>4 DEF Quiet

LEMMA FetchMessageQuiet ==
    ASSUME DedupeFacts, NEW c \in Consumers, FetchMessage(c) PROVE Quiet
<1> USE DEF DedupeFacts, TypedHand, TypeOK, kafkaVars, redisVars, outVars, readerVars, historyVars
<1>1. Copies' \subseteq Copies \cup {<<>>}
  BY SameCopies DEF FetchMessage, FetchWith, Goto
<1>2. Excused \subseteq Excused'
  BY DEF FetchMessage, FetchWith, Goto, Excused
<1>3. \A id \in EventIds \ Excused' : dedupe[id] # "none" => dedupe'[id] # "none"
  BY DEF FetchMessage, FetchWith, Goto
<1>4. \A d \in Consumers : \A id \in EventIds \ Excused' :
        Applies(d, id)' => Applies(d, id)
  <2> SUFFICES ASSUME NEW b \in Consumers, NEW id \in EventIds, Applies(b, id)'
               PROVE  Applies(b, id)
    OBVIOUS
  <2>1. CASE b = c
    BY <2>1, IdsAssumption
       DEF FetchMessage, FetchWith, Goto, Dispatch, Applies, Msg, ReplicaOK, ReaderOK
  <2>2. CASE b # c
    BY <2>2 DEF FetchMessage, FetchWith, Goto, Applies, Msg, ReplicaOK, ReaderOK
  <2>3. QED
    BY <2>1, <2>2
<1>5. QED
  BY <1>1, <1>2, <1>3, <1>4 DEF Quiet

LEMMA InspectQuiet ==
    ASSUME DedupeFacts, NEW c \in Consumers, Inspect(c) PROVE Quiet
<1> USE DEF DedupeFacts, TypedHand, TypeOK, kafkaVars, redisVars, outVars, readerVars, historyVars
<1>1. Copies' \subseteq Copies \cup {<<>>}
  BY SameCopies DEF Inspect, Goto, FailOpen
<1>2. Excused \subseteq Excused'
  BY DEF Inspect, Goto, FailOpen, Excused
<1>3. \A id \in EventIds \ Excused' : dedupe[id] # "none" => dedupe'[id] # "none"
  BY DEF Inspect, Goto, FailOpen
<1>4. \A d \in Consumers : \A id \in EventIds \ Excused' :
        Applies(d, id)' => Applies(d, id)
  BY DEF Inspect, OnReservation, ReservationOf, FailOpen, Goto, Excused, Applies, Msg, ReplicaOK
<1>5. QED
  BY <1>1, <1>2, <1>3, <1>4 DEF Quiet

LEMMA MarkQuiet ==
    ASSUME DedupeFacts, NEW c \in Consumers, Mark(c) PROVE Quiet
<1> USE DEF DedupeFacts, TypedHand, TypeOK, kafkaVars, redisVars, outVars, readerVars, historyVars
<1>1. Copies' \subseteq Copies \cup {<<>>}
  BY SameCopies DEF Mark, RedisWrite, Goto
<1>2. Excused \subseteq Excused'
  BY DEF Mark, RedisWrite, Goto, Excused
<1>3. \A id \in EventIds \ Excused' : dedupe[id] # "none" => dedupe'[id] # "none"
  BY DEF Mark, RedisWrite, RedisOK
<1>4. \A d \in Consumers : \A id \in EventIds \ Excused' :
        Applies(d, id)' => Applies(d, id)
  BY DEF Mark, RedisWrite, Goto, PersistOrder, Applies, Msg, ReplicaOK
<1>5. QED
  BY <1>1, <1>2, <1>3, <1>4 DEF Quiet

LEMMA SetStatsQuiet ==
    ASSUME DedupeFacts, NEW c \in Consumers, SetStats(c) PROVE Quiet
<1> USE DEF DedupeFacts, TypedHand, TypeOK, kafkaVars, redisVars, outVars, readerVars, historyVars
<1>1. Copies' \subseteq Copies \cup {<<>>}
  <2>1. Msg(c).match \in Matches
    BY InHandTyped DEF SetStats
  <2>2. \A m \in Matches : stats'[m] = stats[m] \/ stats'[m] = mem[c][m]
    BY <2>1 DEF SetStats, RedisWrite, Snapshot, RedisOK
  <2>3. QED
    BY <2>2 DEF Copies, SetStats
<1>2. Excused \subseteq Excused'
  BY DEF SetStats, RedisWrite, Goto, Excused
<1>3. \A id \in EventIds \ Excused' : dedupe[id] # "none" => dedupe'[id] # "none"
  BY DEF SetStats, RedisWrite, Goto
<1>4. \A d \in Consumers : \A id \in EventIds \ Excused' :
        Applies(d, id)' => Applies(d, id)
  BY DEF SetStats, RedisWrite, Goto, PersistOrder, Applies, Msg, ReplicaOK
<1>5. QED
  BY <1>1, <1>2, <1>3, <1>4 DEF Quiet

LEMMA SetLatestQuiet ==
    ASSUME DedupeFacts, NEW c \in Consumers, SetLatest(c) PROVE Quiet
<1> USE DEF DedupeFacts, TypedHand, TypeOK, kafkaVars, redisVars, outVars, readerVars, historyVars
<1>1. Copies' \subseteq Copies \cup {<<>>}
  <2>1. Msg(c).match \in Matches
    BY InHandTyped DEF SetLatest
  <2>2. \A m \in Matches : latest'[m] = latest[m] \/ latest'[m] = mem[c][m]
    BY <2>1 DEF SetLatest, RedisWrite, Snapshot, RedisOK
  <2>3. QED
    BY <2>2 DEF Copies, SetLatest
<1>2. Excused \subseteq Excused'
  BY DEF SetLatest, RedisWrite, Goto, Excused
<1>3. \A id \in EventIds \ Excused' : dedupe[id] # "none" => dedupe'[id] # "none"
  BY DEF SetLatest, RedisWrite, Goto
<1>4. \A d \in Consumers : \A id \in EventIds \ Excused' :
        Applies(d, id)' => Applies(d, id)
  BY DEF SetLatest, RedisWrite, Goto, PersistOrder, Applies, Msg, ReplicaOK
<1>5. QED
  BY <1>1, <1>2, <1>3, <1>4 DEF Quiet

LEMMA AddActiveMatchQuiet ==
    ASSUME DedupeFacts, NEW c \in Consumers, AddActiveMatch(c) PROVE Quiet
<1> USE DEF DedupeFacts, TypedHand, TypeOK, kafkaVars, redisVars, outVars, readerVars, historyVars
<1>1. Copies' \subseteq Copies \cup {<<>>}
  BY SameCopies DEF AddActiveMatch, RedisWrite, Goto
<1>2. Excused \subseteq Excused'
  BY DEF AddActiveMatch, RedisWrite, Goto, Excused
<1>3. \A id \in EventIds \ Excused' : dedupe[id] # "none" => dedupe'[id] # "none"
  BY DEF AddActiveMatch, RedisWrite, Goto
<1>4. \A d \in Consumers : \A id \in EventIds \ Excused' :
        Applies(d, id)' => Applies(d, id)
  BY DEF AddActiveMatch, RedisWrite, Goto, PersistOrder, Applies, Msg, ReplicaOK
<1>5. QED
  BY <1>1, <1>2, <1>3, <1>4 DEF Quiet

LEMMA PublishQuiet ==
    ASSUME DedupeFacts, NEW c \in Consumers, Publish(c) PROVE Quiet
<1> USE DEF DedupeFacts, TypedHand, TypeOK, kafkaVars, redisVars, outVars, readerVars, historyVars
<1>1. Copies' \subseteq Copies \cup {<<>>}
  <2>1. Msg(c).match \in Matches
    BY InHandTyped DEF Publish
  <2>2. \A i \in DOMAIN published' : \/ /\ i \in DOMAIN published
                                         /\ published'[i] = published[i]
                                      \/ published'[i].events = mem[c][Msg(c).match]
    <3> DEFINE rec == [match |-> Msg(c).match, events |-> Snapshot(c)]
    <3>1. published' = published \/ published' = Append(published, rec)
      BY DEF Publish
    <3>2. rec.events = mem[c][Msg(c).match]
      BY DEF Snapshot
    <3>3. published \in Seq([match : Matches, events : Seq(Event)])
      BY DEF OutOK
    <3>4. \A r : \A i \in DOMAIN Append(published, r) :
             \/ i \in DOMAIN published /\ Append(published, r)[i] = published[i]
             \/ Append(published, r)[i] = r
      BY <3>3
    <3> HIDE DEF rec
    <3>5. QED
      BY <3>1, <3>2, <3>4
  <2>3. QED
    BY <2>1, <2>2 DEF Copies, Publish
<1>2. Excused \subseteq Excused'
  BY DEF Publish, Goto, Excused
<1>3. \A id \in EventIds \ Excused' : dedupe[id] # "none" => dedupe'[id] # "none"
  BY DEF Publish, Goto
<1>4. \A d \in Consumers : \A id \in EventIds \ Excused' :
        Applies(d, id)' => Applies(d, id)
  BY DEF Publish, Goto, PersistOrder, Applies, Msg, ReplicaOK
<1>5. QED
  BY <1>1, <1>2, <1>3, <1>4 DEF Quiet

LEMMA CrashQuiet ==
    ASSUME DedupeFacts, NEW c \in Consumers, Crash(c) PROVE Quiet
<1> USE DEF DedupeFacts, TypedHand, TypeOK, kafkaVars, redisVars, outVars, readerVars, historyVars
<1>1. Copies' \subseteq Copies \cup {<<>>}
  <2>1. \A b \in Consumers, m \in Matches : mem'[b][m] \in {mem[b][m], <<>>}
    BY DEF Crash, Empty, ReplicaOK
  <2>2. QED
    BY <2>1 DEF Copies, Crash
<1>2. Excused \subseteq Excused'
  BY DEF Crash, Goto, Excused
<1>3. \A id \in EventIds \ Excused' : dedupe[id] # "none" => dedupe'[id] # "none"
  BY DEF Crash, Goto
<1>4. \A d \in Consumers : \A id \in EventIds \ Excused' :
        Applies(d, id)' => Applies(d, id)
  BY DEF Crash, Goto, Applies, Msg, ReplicaOK, ReaderOK
<1>5. QED
  BY <1>1, <1>2, <1>3, <1>4 DEF Quiet

LEMMA ExpireQuiet ==
    ASSUME DedupeFacts, NEW e \in EventIds, Expire(e) PROVE Quiet
<1> USE DEF DedupeFacts, TypedHand, TypeOK, kafkaVars, redisVars, outVars, readerVars, historyVars
<1>1. Copies' \subseteq Copies \cup {<<>>}
  BY SameCopies DEF Expire
<1>2. Excused \subseteq Excused'
  BY DEF Expire, Excused
<1>3. \A id \in EventIds \ Excused' : dedupe[id] # "none" => dedupe'[id] # "none"
  BY DEF Expire, Excused, RedisOK
<1>4. \A d \in Consumers : \A id \in EventIds \ Excused' :
        Applies(d, id)' => Applies(d, id)
  BY DEF Expire, Applies, Msg, ReplicaOK
<1>5. QED
  BY <1>1, <1>2, <1>3, <1>4 DEF Quiet

\* The SETNX that wins: no copy held the event, since its key did not exist,
\* and no other replica can be applying it.  Every other outcome is quiet.
LEMMA ReserveDedupe ==
    ASSUME DedupeFacts, NEW c \in Consumers, Reserve(c) PROVE DedupeInv'
<1> USE DEF DedupeFacts, DedupeInv, TypedHand, TypeOK
<1> DEFINE me == Msg(c).id
<1>1. TypedHand'
  BY ReserveTyped
<1>2. me \in EventIds /\ pc[c] = "reserve"
  BY DEF HandOK, Reserve
<1>3. /\ Copies' = Copies
      /\ Excused \subseteq Excused'
      /\ \A id \in EventIds : dedupe[id] # "none" => dedupe'[id] # "none"
      /\ UNCHANGED <<topic, cur>>
  <2>1. UNCHANGED <<stats, latest, mem, published, topic, cur, expired>>
    BY DEF Reserve, kafkaVars, outVars, readerVars
  <2>2. failedOpen \subseteq failedOpen'
    BY DEF Reserve, FailOpen
  <2>3. \A id \in EventIds : dedupe[id] # "none" => dedupe'[id] # "none"
    BY DEF Reserve, SetNX, Claim, RedisOK
  <2>4. QED
    BY <2>1, <2>2, <2>3, SameCopies DEF Excused
<1>4. CASE /\ dedupe[me] = "none"
           /\ dedupe' = SetNX(me)
           /\ Goto(c, OnReservation("acquired"))
           /\ UNCHANGED <<failedOpen, abandoned, faults>>
  <2>1. Excused' = Excused
    BY <1>4 DEF Reserve, Excused
  <2>2. dedupe'[me] # "none"
    BY <1>2, <1>4 DEF SetNX, Claim, RedisOK
  <2>3. \A d \in Consumers, id \in EventIds :
           Applies(d, id)' => (d = c /\ id = me) \/ Applies(d, id)
    BY <1>3, <1>4 DEF Applies, Msg, Goto, OnReservation, ReplicaOK
  <2>4. \A d \in Consumers, id \in EventIds \ Excused :
           Applies(d, id) => id # me /\ d # c
    BY <1>2, <1>4 DEF ClaimIsExclusive, Applies
  <2>5. me \notin Excused => \A h \in Copies : ~Holds(h, me)
    BY <1>2, <1>4 DEF HeldIsClaimed
  <2>6. CountedOnce'
    BY <1>3, <2>1 DEF CountedOnce
  <2>7. HeldIsClaimed'
    BY <1>3, <2>1 DEF HeldIsClaimed
  <2>8. ClaimIsExclusive'
    <3> SUFFICES ASSUME NEW d \in Consumers, NEW id \in EventIds \ Excused,
                        Applies(d, id)'
                 PROVE  /\ dedupe'[id] # "none"
                        /\ \A h \in Copies : ~Holds(h, id)
                        /\ \A b \in Consumers : Applies(b, id)' => b = d
      BY <1>3, <2>1 DEF ClaimIsExclusive
    <3>1. CASE id = me
      BY <3>1, <2>2, <2>3, <2>4, <2>5
    <3>2. CASE id # me
      <4>1. Applies(d, id)
        BY <3>2, <2>3
      <4>2. QED
        BY <4>1, <3>2, <1>3, <2>3 DEF ClaimIsExclusive
    <3>3. QED
      BY <3>1, <3>2
  <2>9. QED
    BY <1>1, <2>6, <2>7, <2>8
<1>5. ASSUME me \in Excused' \/ pc'[c] = "inspect",
             \A d \in Consumers : d # c => pc'[d] = pc[d]
      PROVE  DedupeInv'
  <2>1. \A d \in Consumers : \A id \in EventIds \ Excused' :
           Applies(d, id)' => Applies(d, id)
    BY <1>3, <1>5 DEF Applies, Msg
  <2>2. Quiet
    BY <1>3, <2>1 DEF Quiet
  <2>3. QED
    BY <1>1, <2>2, QuietStep
<1>6. CASE /\ dedupe[me] # "none"
           /\ Goto(c, "inspect")
           /\ UNCHANGED <<dedupe, failedOpen, abandoned, faults>>
  BY <1>5, <1>6 DEF Goto, ReplicaOK
<1>7. CASE /\ Spend("redis")
           /\ dedupe' \in {dedupe, SetNX(me)}
           /\ FailOpen(c)
           /\ UNCHANGED abandoned
  BY <1>5, <1>7 DEF FailOpen, Excused, Goto, ReplicaOK
<1>8. CASE /\ Spend("retry")
           /\ dedupe[me] = "none"
           /\ dedupe' = SetNX(me)
           /\ Goto(c, "inspect")
           /\ abandoned' = abandoned \cup {me}
           /\ UNCHANGED failedOpen
  BY <1>5, <1>8 DEF Goto, ReplicaOK
<1>9. QED
  BY <1>4, <1>6, <1>7, <1>8 DEF Reserve

\* What appending one event does to a history.
LEMMA AppendEvent ==
    ASSUME NEW h \in Seq(Event), NEW e \in Event, NEW id
    PROVE  /\ Holds(Append(h, e), id) <=> Holds(h, id) \/ e.id = id
           /\ OnceIn(h, id) /\ ~(Holds(h, id) /\ e.id = id)
                => OnceIn(Append(h, e), id)
<1>1. /\ DOMAIN h = 1 .. Len(h)
      /\ DOMAIN Append(h, e) = 1 .. Len(h) + 1
      /\ \A i \in 1 .. Len(h) : Append(h, e)[i] = h[i]
      /\ Append(h, e)[Len(h) + 1] = e
      /\ Len(h) \in Nat
  OBVIOUS
<1>2. \A i \in 1 .. Len(h) + 1 : i \in 1 .. Len(h) \/ i = Len(h) + 1
  BY <1>1
<1>3. \A i \in 1 .. Len(h) : i \in 1 .. Len(h) + 1
  BY <1>1
<1>4. Len(h) + 1 \in 1 .. Len(h) + 1
  BY <1>1
<1>5. Holds(Append(h, e), id) <=> Holds(h, id) \/ e.id = id
  BY <1>1, <1>2, <1>3, <1>4 DEF Holds
<1>6. OnceIn(h, id) /\ ~(Holds(h, id) /\ e.id = id) => OnceIn(Append(h, e), id)
  BY <1>1, <1>2 DEF Holds, OnceIn
<1>7. QED
  BY <1>5, <1>6

\* The update of the aggregate: one copy grows by the event, which no copy
\* held, and the replica no longer applies it.
LEMMA ApplyDedupe ==
    ASSUME DedupeFacts, NEW c \in Consumers, Apply(c) PROVE DedupeInv'
<1> USE DEF DedupeFacts, DedupeInv, TypedHand, TypeOK
<1> DEFINE ev  == Msg(c)
           old == mem[c][ev.match]
<1>1. TypedHand'
  BY ApplyTyped
<1>2. ev \in Event /\ ev.match \in Matches /\ old \in Seq(Event)
  BY InHandTyped DEF Apply, Snapshot
<1>3. old \in Copies
  BY <1>2 DEF Copies
<1>4. Copies' \subseteq Copies \cup {Append(old, ev)}
  <2>1. \A b \in Consumers, m \in Matches :
           mem'[b][m] = mem[b][m] \/ mem'[b][m] = Append(old, ev)
    BY <1>2 DEF Apply, ReplicaOK
  <2>2. UNCHANGED <<stats, latest, published>>
    BY DEF Apply, redisVars, outVars
  <2>3. QED
    BY <2>1, <2>2 DEF Copies
<1>5. Excused' = Excused /\ dedupe' = dedupe
  BY DEF Apply, Excused, redisVars, historyVars
<1>6. Applies(c, ev.id)
  BY DEF Apply, Applies
<1>7. \A d \in Consumers, id \in EventIds : Applies(d, id)' => Applies(d, id) /\ d # c
  BY DEF Apply, Goto, PersistOrder, Applies, Msg, ReplicaOK, kafkaVars,
     readerVars
<1>8. ASSUME ev.id \in EventIds \ Excused
      PROVE  /\ dedupe[ev.id] # "none"
             /\ \A h \in Copies : ~Holds(h, ev.id)
             /\ \A d \in Consumers : Applies(d, ev.id) => d = c
  BY <1>6, <1>8 DEF ClaimIsExclusive
<1> HIDE DEF ev, old
<1>9. CountedOnce'
  <2> SUFFICES ASSUME NEW id \in EventIds \ Excused, NEW h \in Copies'
               PROVE  OnceIn(h, id)
    BY <1>5 DEF CountedOnce
  <2>1. CASE h \in Copies
    BY <2>1 DEF CountedOnce
  <2>2. CASE h = Append(old, ev)
    <3>1. OnceIn(old, id)
      BY <1>3 DEF CountedOnce
    <3>2. ~(Holds(old, id) /\ ev.id = id)
      BY <1>3, <1>8
    <3>3. QED
      BY <1>2, <2>2, <3>1, <3>2, AppendEvent
  <2>3. QED
    BY <1>4, <2>1, <2>2
<1>10. HeldIsClaimed'
  <2> SUFFICES ASSUME NEW id \in EventIds \ Excused, NEW h \in Copies', Holds(h, id)
               PROVE  dedupe[id] # "none"
    BY <1>5 DEF HeldIsClaimed
  <2>1. CASE h \in Copies
    BY <2>1 DEF HeldIsClaimed
  <2>2. CASE h = Append(old, ev)
    <3>1. Holds(old, id) \/ ev.id = id
      BY <1>2, <2>2, AppendEvent
    <3>2. QED
      BY <3>1, <1>3, <1>8 DEF HeldIsClaimed
  <2>3. QED
    BY <1>4, <2>1, <2>2
<1>11. ClaimIsExclusive'
  <2> SUFFICES ASSUME NEW d \in Consumers, NEW id \in EventIds \ Excused,
                      Applies(d, id)'
               PROVE  /\ dedupe[id] # "none"
                      /\ \A h \in Copies' : ~Holds(h, id)
                      /\ \A b \in Consumers : Applies(b, id)' => b = d
    BY <1>5 DEF ClaimIsExclusive
  <2>1. Applies(d, id) /\ d # c
    BY <1>7
  <2>2. /\ dedupe[id] # "none"
        /\ \A h \in Copies : ~Holds(h, id)
        /\ \A b \in Consumers : Applies(b, id) => b = d
    BY <2>1 DEF ClaimIsExclusive
  <2>3. id # ev.id
    BY <1>8, <2>1
  <2>4. ~Holds(Append(old, ev), id)
    BY <1>2, <1>3, <2>2, <2>3, AppendEvent
  <2>5. QED
    BY <1>4, <1>7, <2>2, <2>4
<1>12. QED
  BY <1>1, <1>9, <1>10, <1>11

-----------------------------------------------------------------------------

LEMMA InitDedupe == Init => DedupeInv
<1> SUFFICES ASSUME Init PROVE DedupeInv
  OBVIOUS
<1>1. HandOK
  BY InitTyped DEF TypedHand
<1>2. Copies \subseteq {<<>>}
  BY DEF Init, Empty, Copies
<1>3. \A h \in Copies : \A id : OnceIn(h, id) /\ ~Holds(h, id)
  BY <1>2 DEF OnceIn, Holds
<1>4. \A c \in Consumers : \A id : ~Applies(c, id)
  BY DEF Init, Applies
<1>5. QED
  BY <1>1, <1>3, <1>4 DEF DedupeInv, CountedOnce, HeldIsClaimed, ClaimIsExclusive

\* Every step preserves the invariant.
LEMMA NextDedupe == DedupeFacts /\ [Next]_vars => DedupeInv'
<1> SUFFICES ASSUME DedupeFacts, [Next]_vars PROVE DedupeInv'
  OBVIOUS
<1>1. TypedHand'
  BY NextTyped DEF DedupeFacts
<1>2. ASSUME NEW msg \in Messages, Produce(msg) PROVE DedupeInv'
  BY <1>1, <1>2, ProduceQuiet, QuietStep
<1>3. ASSUME NEW c \in Consumers, Start(c) PROVE DedupeInv'
  BY <1>1, <1>3, StartQuiet, QuietStep
<1>4. ASSUME NEW c \in Consumers, LoadMatch(c) PROVE DedupeInv'
  BY <1>1, <1>4, LoadMatchQuiet, QuietStep
<1>5. ASSUME NEW c \in Consumers, StartReading(c) PROVE DedupeInv'
  BY <1>1, <1>5, StartReadingQuiet, QuietStep
<1>6. ASSUME NEW c \in Consumers, FetchMessage(c) PROVE DedupeInv'
  BY <1>1, <1>6, FetchMessageQuiet, QuietStep
<1>7. ASSUME NEW c \in Consumers, Inspect(c) PROVE DedupeInv'
  BY <1>1, <1>7, InspectQuiet, QuietStep
<1>8. ASSUME NEW c \in Consumers, Mark(c) PROVE DedupeInv'
  BY <1>1, <1>8, MarkQuiet, QuietStep
<1>9. ASSUME NEW c \in Consumers, SetStats(c) PROVE DedupeInv'
  BY <1>1, <1>9, SetStatsQuiet, QuietStep
<1>10. ASSUME NEW c \in Consumers, SetLatest(c) PROVE DedupeInv'
  BY <1>1, <1>10, SetLatestQuiet, QuietStep
<1>11. ASSUME NEW c \in Consumers, AddActiveMatch(c) PROVE DedupeInv'
  BY <1>1, <1>11, AddActiveMatchQuiet, QuietStep
<1>12. ASSUME NEW c \in Consumers, Publish(c) PROVE DedupeInv'
  BY <1>1, <1>12, PublishQuiet, QuietStep
<1>13. ASSUME NEW c \in Consumers, RouteToDLQ(c) PROVE DedupeInv'
  BY <1>1, <1>13, RouteToDLQQuiet, QuietStep
<1>14. ASSUME NEW c \in Consumers, CommitMessages(c) PROVE DedupeInv'
  BY <1>1, <1>14, CommitMessagesQuiet, QuietStep
<1>15. ASSUME NEW c \in Consumers, Join(c) PROVE DedupeInv'
  BY <1>1, <1>15, JoinQuiet, QuietStep
<1>16. ASSUME NEW c \in Consumers, Rebalance(c) PROVE DedupeInv'
  BY <1>1, <1>16, RebalanceQuiet, QuietStep
<1>17. ASSUME NEW c \in Consumers, FlushCommit(c) PROVE DedupeInv'
  BY <1>1, <1>17, FlushCommitQuiet, QuietStep
<1>18. ASSUME NEW c \in Consumers, Crash(c) PROVE DedupeInv'
  BY <1>1, <1>18, CrashQuiet, QuietStep
<1>19. ASSUME NEW c \in Consumers, Reserve(c) PROVE DedupeInv'
  BY <1>19, ReserveDedupe
<1>20. ASSUME NEW c \in Consumers, Apply(c) PROVE DedupeInv'
  BY <1>20, ApplyDedupe
<1>21. ASSUME NEW id \in EventIds, Expire(id) PROVE DedupeInv'
  BY <1>1, <1>21, ExpireQuiet, QuietStep
<1>22. CASE UNCHANGED vars
  <2>1. Copies' = Copies
    BY <1>22, SameCopies DEF vars, redisVars, outVars
  <2>2. Quiet
    BY <1>22, <2>1
       DEF Quiet, Excused, Applies, Msg, vars, kafkaVars, redisVars, readerVars, historyVars
  <2>3. QED
    BY <1>1, <2>2, QuietStep
<1>23. QED
  BY <1>2, <1>3, <1>4, <1>5, <1>6, <1>7, <1>8, <1>9, <1>10, <1>11, <1>12, <1>13, <1>14, <1>15, <1>16, <1>17, <1>18, <1>19, <1>20, <1>21, <1>22 DEF Next, Step

\* The inductive invariant holds in every reachable state: among the rest, the
\* reservation is a lock on the application of an event.
THEOREM DedupeInvariant == Spec => []DedupeInv
<1>1. Init => DedupeFacts
  BY InitTyped, InitDedupe DEF DedupeFacts
<1>2. DedupeFacts /\ [Next]_vars => DedupeFacts'
  BY NextTyped, NextDedupe DEF DedupeFacts
<1>3. DedupeFacts => DedupeInv
  BY DEF DedupeFacts
<1>4. QED
  BY <1>1, <1>2, <1>3, PTL DEF Spec

\* No event is counted twice, in any copy of the statistics, unless its
\* reservation call failed or its dedupe key expired.
THEOREM EventsCountedOnce == Spec => []CountedOnce
<1>1. DedupeInv => CountedOnce
  BY DEF DedupeInv
<1>2. QED
  BY DedupeInvariant, <1>1, PTL
=============================================================================
