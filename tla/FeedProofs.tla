----------------------------- MODULE FeedProofs -----------------------------
(***************************************************************************)
(* A single replica whose calls to Redis succeed implements MatchFeed, for *)
(* every number of events, matches, messages and remaining faults: crashes *)
(* at any point, redeliveries, duplicates, failed publications and         *)
(* rebalances change nothing in what readers see.                          *)
(***************************************************************************)
EXTENDS EventProcessorProofs

\* One replica at most, and no call to Redis fails.
Reliable ==
    /\ \A c, d \in Consumers : c = d
    /\ MaxFaults["redis"] = 0
    /\ MaxFaults["restore"] = 0

NoRedisFault == faults["redis"] = 0 /\ faults["restore"] = 0

FeedFacts == DedupeFacts /\ FeedInv /\ NoRedisFault

\* The step that a step of the replica shows to a reader.
FeedStep == Feed!Next \/ UNCHANGED Feed!vars

\* What readers see of a match, and that it is a history.
LEMMA ListedTyped ==
    ASSUME TypedHand
    PROVE  /\ Listed \in [Matches -> Seq(Event)]
           /\ \A m \in active : Listed[m] = stats[m]
           /\ \A m \in Matches \ active : Listed[m] = <<>>
<1>1. RedisOK
  BY DEF TypedHand, TypeOK
<1>2. QED
  BY <1>1 DEF RedisOK, Listed

\* The budget of faults only shrinks: what is spent stays spent.
LEMMA BudgetStep ==
    ASSUME TypedHand, [Next]_vars, NEW kind \in FaultKinds, faults[kind] = 0
    PROVE  faults'[kind] = 0 /\ ~Spend(kind)
<1>1. faults \in [FaultKinds -> Nat]
  BY DEF TypedHand, TypeOK, HistoryOK
<1>2. UNCHANGED faults \/ \E k \in FaultKinds : Spend(k)
  BY ZenonT(60) DEF FaultKinds, Next, Step, Produce, Start, LoadMatch, StartReading, FetchMessage,
     FetchWith, Reserve, Inspect, Apply, Mark, SetStats, SetLatest,
     AddActiveMatch, RedisWrite, Publish, RouteToDLQ, CommitMessages, Join,
     Rebalance, FlushCommit, Crash, Expire, vars
<1>3. ASSUME NEW k \in FaultKinds, Spend(k) PROVE faults'[kind] = 0
  BY <1>1, <1>3 DEF Spend
<1>4. QED
  BY <1>2, <1>3 DEF Spend

LEMMA NoRedisFaultStep ==
    ASSUME TypedHand, NoRedisFault, [Next]_vars PROVE NoRedisFault'
<1>1. "redis" \in FaultKinds /\ "restore" \in FaultKinds
  BY DEF FaultKinds
<1>2. QED
  BY <1>1, BudgetStep DEF NoRedisFault

LEMMA SameListed ==
    ASSUME UNCHANGED <<stats, active>> PROVE Listed' = Listed
  BY DEF Listed

\* A replica that a step leaves alone, in what it remembers and what it does,
\* stays in step, as long as readers see the same.
LEMMA StaysInStep ==
    ASSUME NEW c \in Consumers, InStep(c), UNCHANGED <<stats, active>>,
           Excused \subseteq Excused',
           mem'[c] = mem[c], toLoad'[c] = toLoad[c], pc'[c] = pc[c],
           pc[c] \in InHand => Msg(c)' = Msg(c)
    PROVE  InStep(c)'
<1>1. Listed' = Listed
  BY SameListed
<1>2. \A m : Synced(c, m)' <=> Synced(c, m)
  BY <1>1 DEF Synced
<1>3. CASE pc[c] \in {"mark", "setStats"}
  <2>1. Msg(c)' = Msg(c)
    BY <1>3 DEF InHand
  <2>2. OthersSynced(c)' <=> OthersSynced(c)
    BY <1>2, <2>1 DEF OthersSynced
  <2>3. Feed!MayFold(Msg(c)) => Feed!MayFold(Msg(c))'
    BY <1>1, <2>1 DEF Feed!MayFold
  <2>4. QED
    BY <1>1, <1>3, <2>1, <2>2, <2>3 DEF InStep
<1>4. CASE pc[c] \in {"setLatest", "addActive"}
  <2>1. Msg(c)' = Msg(c)
    BY <1>4 DEF InHand
  <2>2. OthersSynced(c)' <=> OthersSynced(c)
    BY <1>2, <2>1 DEF OthersSynced
  <2>3. QED
    BY <1>4, <2>1, <2>2 DEF InStep
<1>5. CASE pc[c] \notin {"mark", "setStats", "setLatest", "addActive"}
  BY <1>2, <1>5 DEF InStep
<1>6. QED
  BY <1>3, <1>4, <1>5

\* The group moves the partition, or a commit reaches the broker.
LEMMA GroupFeed ==
    ASSUME FeedFacts, NEW c \in Consumers,
           Join(c) \/ Rebalance(c) \/ FlushCommit(c)
    PROVE  FeedInv' /\ FeedStep
<1>1. UNCHANGED <<topic, stats, active, published, failedOpen, expired, mem,
                  toLoad, pc, cur>>
  BY DEF Join, Rebalance, NewGeneration, FlushCommit, redisVars, outVars,
     historyVars
<1>2. Listed' = Listed /\ Excused' = Excused
  BY <1>1, SameListed DEF Excused
<1>3. FeedInv'
  BY <1>1, <1>2, StaysInStep DEF FeedFacts, FeedInv, Msg
<1>4. FeedStep
  BY <1>1, <1>2 DEF FeedStep, Feed!vars
<1>5. QED
  BY <1>3, <1>4

\* A message arrives.
LEMMA ProduceFeed ==
    ASSUME FeedFacts, NEW msg \in Messages, Produce(msg)
    PROVE  FeedInv' /\ FeedStep
<1>1. UNCHANGED <<stats, active, published, failedOpen, expired, mem, toLoad,
                  pc, cur>>
  BY DEF Produce, redisVars, outVars, readerVars, historyVars
<1>2. Listed' = Listed /\ Excused' = Excused
  BY <1>1, SameListed DEF Excused
<1>3. \A c \in Consumers : pc[c] \in InHand => Msg(c)' = Msg(c)
  <2>1. \A i \in 1 .. Len(topic) : topic'[i] = topic[i]
    BY MessagesAssumption DEF FeedFacts, DedupeFacts, TypedHand, TypeOK, KafkaOK, Produce
  <2>2. QED
    BY <1>1, <2>1 DEF FeedFacts, DedupeFacts, TypedHand, TypeOK, HandOK, ReaderOK, Offsets, Msg
<1>4. FeedInv'
  BY <1>1, <1>2, <1>3, StaysInStep DEF FeedFacts, FeedInv
<1>5. Feed!Arrive(msg)
  BY <1>1, <1>2 DEF Produce, Feed!Arrive
<1>6. QED
  BY <1>4, <1>5 DEF FeedStep, Feed!Next

\* A dedupe key expires: the event may be folded once more.
LEMMA ExpireFeed ==
    ASSUME FeedFacts, NEW id \in EventIds, Expire(id)
    PROVE  FeedInv' /\ FeedStep
<1>1. UNCHANGED <<topic, stats, active, published, failedOpen, mem, toLoad,
                  pc, cur>>
  BY DEF Expire, kafkaVars, outVars, readerVars
<1>2. Listed' = Listed /\ Excused' = Excused \cup {id}
  BY <1>1, SameListed DEF Excused, Expire
<1>3. FeedInv'
  BY <1>1, <1>2, StaysInStep DEF FeedFacts, FeedInv, Msg
<1>4. Feed!Forget(id)
  BY <1>1, <1>2 DEF Feed!Forget
<1>5. QED
  BY <1>3, <1>4 DEF FeedStep, Feed!Next

InSync == {"fetch", "reserve", "inspect", "apply", "publish", "dlq", "commit"}

\* The steps between which the replica's memory is what readers see.
LEMMA SyncedFeed ==
    ASSUME FeedFacts, Reliable, NEW c \in Consumers,
           \/ FetchMessage(c) \/ Reserve(c) \/ Inspect(c) \/ RouteToDLQ(c)
           \/ CommitMessages(c)
    PROVE  FeedInv' /\ FeedStep
<1> USE DEF FeedFacts, DedupeFacts, TypedHand, TypeOK
<1>1. UNCHANGED <<topic, stats, active, published, expired, mem, toLoad>>
  BY DEF FetchMessage, FetchWith, Reserve, Inspect, RouteToDLQ, CommitMessages,
     kafkaVars, redisVars, outVars, historyVars
<1>2. ~Spend("redis")
  BY DEF NoRedisFault, Spend
<1>3. failedOpen' = failedOpen
  BY <1>2 DEF FetchMessage, FetchWith, Reserve, Inspect, RouteToDLQ,
     CommitMessages, historyVars
<1>4. pc[c] \in InSync /\ pc'[c] \in InSync
  BY <1>2 DEF FetchMessage, FetchWith, Reserve, Inspect, RouteToDLQ,
     CommitMessages, Dispatch, OnReservation, ReservationOf, Goto, InSync,
     ReplicaOK
<1>5. Listed' = Listed /\ Excused' = Excused
  BY <1>1, <1>3, SameListed DEF Excused
<1>6. InStep(c)'
  BY <1>1, <1>4, <1>5 DEF FeedInv, InStep, InSync, Synced
<1>7. FeedInv'
  BY <1>6 DEF Reliable, FeedInv
<1>8. FeedStep
  BY <1>1, <1>5 DEF FeedStep, Feed!vars
<1>9. QED
  BY <1>7, <1>8

\* A restart: nothing is shown, and what is restored is what readers see.
LEMMA RestartFeed ==
    ASSUME FeedFacts, Reliable, NEW c \in Consumers,
           Start(c) \/ LoadMatch(c) \/ StartReading(c) \/ Crash(c)
    PROVE  FeedInv' /\ FeedStep
<1> USE DEF FeedFacts, DedupeFacts, TypedHand, TypeOK
<1>1. UNCHANGED <<topic, stats, active, published, failedOpen, expired>>
  BY DEF Start, LoadMatch, StartReading, Crash, kafkaVars, redisVars, outVars,
     historyVars
<1>2. ~Spend("restore")
  BY DEF NoRedisFault, Spend
<1>3. Listed' = Listed /\ Excused' = Excused
  BY <1>1, SameListed DEF Excused
<1>4. FeedStep
  BY <1>1, <1>3 DEF FeedStep, Feed!vars
<1>5. CASE Start(c)
  <2>1. /\ pc'[c] = "load" /\ toLoad'[c] = active
        /\ mem'[c] = Empty
    BY <1>2, <1>5 DEF Start, Goto, ReplicaOK, FeedInv, InStep
  <2>2. \A m \in Matches \ active : Listed[m] = <<>>
    BY DEF Listed
  <2>3. InStep(c)'
    BY <1>1, <1>3, <2>1, <2>2 DEF InStep, Synced, Empty
  <2>4. QED
    BY <1>4, <2>3 DEF Reliable, FeedInv
<1>6. CASE LoadMatch(c)
  <2>1. PICK m \in toLoad[c] : /\ toLoad' = [toLoad EXCEPT ![c] = @ \ {m}]
                               /\ mem' = [mem EXCEPT ![c][m] = stats[m]]
    BY <1>2, <1>6 DEF LoadMatch, Restored
  <2>2. pc[c] = "load" /\ pc'[c] = "load"
    BY <1>6 DEF LoadMatch
  <2>3. m \in Matches /\ m \in active /\ toLoad[c] \subseteq active
    BY <2>1, <2>2 DEF ReplicaOK, FeedInv, InStep
  <2>4. /\ toLoad'[c] = toLoad[c] \ {m}
        /\ mem'[c][m] = stats[m]
        /\ \A n \in Matches \ {m} : mem'[c][n] = mem[c][n]
    BY <2>1, <2>3 DEF ReplicaOK
  <2>5. \A n \in Matches \ toLoad[c] : Synced(c, n)
    BY <2>2 DEF FeedInv, InStep
  <2>6. Listed[m] = stats[m]
    BY <2>3 DEF Listed
  <2>7. \A n \in Matches \ toLoad'[c] : Synced(c, n)'
    BY <1>3, <2>4, <2>5, <2>6 DEF Synced
  <2>8. InStep(c)'
    BY <1>1, <2>2, <2>3, <2>4, <2>7 DEF InStep
  <2>9. QED
    BY <1>4, <2>8 DEF Reliable, FeedInv
<1>7. CASE StartReading(c)
  <2>1. pc[c] = "load" /\ toLoad[c] = {} /\ pc'[c] = "fetch" /\ mem' = mem
    BY <1>7 DEF StartReading, Goto, ReplicaOK
  <2>2. InStep(c)'
    BY <1>3, <2>1 DEF FeedInv, InStep, Synced
  <2>3. QED
    BY <1>4, <2>2 DEF Reliable, FeedInv
<1>8. CASE Crash(c)
  <2>1. pc'[c] = "down" /\ mem'[c] = Empty
    BY <1>8 DEF Crash, Goto, ReplicaOK
  <2>2. InStep(c)'
    BY <2>1 DEF InStep
  <2>3. QED
    BY <1>4, <2>2 DEF Reliable, FeedInv
<1>9. QED
  BY <1>5, <1>6, <1>7, <1>8

\* The event in hand moves the replica one event ahead of what readers see,
\* and it is one they may see: it has no id, a forgotten one, or was claimed.
LEMMA ApplyFeed ==
    ASSUME FeedFacts, Reliable, NEW c \in Consumers, Apply(c)
    PROVE  FeedInv' /\ FeedStep
<1> USE DEF FeedFacts, DedupeFacts, TypedHand, TypeOK
<1>1. UNCHANGED <<topic, stats, active, published, failedOpen, expired, cur>>
  BY DEF Apply, kafkaVars, redisVars, outVars, readerVars, historyVars
<1>2. Listed' = Listed /\ Excused' = Excused /\ Msg(c)' = Msg(c)
  BY <1>1, SameListed DEF Excused, Msg
<1>3. /\ pc[c] = "apply" /\ pc'[c] \in {"mark", "setStats"}
      /\ mem' = [mem EXCEPT ![c][Msg(c).match] = Append(@, Msg(c))]
  BY DEF Apply, Goto, PersistOrder, ReplicaOK
<1>4. /\ Msg(c) \in Event /\ Msg(c).match \in Matches
      /\ Msg(c).id \in EventIds \cup {NoId}
  BY <1>3, InHandTyped
<1>5. \A m \in Matches : mem[c][m] = Listed[m]
  BY <1>3 DEF FeedInv, InStep, Synced
<1>6. /\ mem'[c][Msg(c).match] = Append(mem[c][Msg(c).match], Msg(c))
      /\ \A m \in Matches \ {Msg(c).match} : mem'[c][m] = mem[c][m]
  BY <1>3, <1>4 DEF ReplicaOK
<1>7. Feed!MayFold(Msg(c))
  <2> SUFFICES ASSUME Msg(c).id # NoId, Msg(c).id \notin Excused
               PROVE  ~Holds(Listed[Msg(c).match], Msg(c).id)
    BY DEF Feed!MayFold, Holds
  <2>1. Applies(c, Msg(c).id)
    BY <1>3 DEF Applies
  <2>2. mem[c][Msg(c).match] \in Copies
    BY <1>4 DEF Copies
  <2>3. QED
    BY <1>4, <1>5, <2>1, <2>2 DEF DedupeInv, ClaimIsExclusive
<1>8. Feed!MayFold(Msg(c))'
  BY <1>2, <1>7 DEF Feed!MayFold
<1>9. InStep(c)'
  BY <1>2, <1>3, <1>5, <1>6, <1>8, <1>4 DEF InStep, OthersSynced, Synced
<1>10. FeedInv'
  BY <1>9 DEF Reliable, FeedInv
<1>11. FeedStep
  BY <1>1, <1>2 DEF FeedStep, Feed!vars
<1>12. QED
  BY <1>10, <1>11

\* A call to Redis takes effect.
LEMMA RedisWriteReliable ==
    ASSUME NoRedisFault, NEW var, NEW varNext, NEW newValue,
           \/ varNext = newValue /\ UNCHANGED faults
           \/ varNext \in {var, newValue} /\ Spend("redis")
    PROVE  varNext = newValue
  BY DEF NoRedisFault, Spend

LEMMA MarkFeed ==
    ASSUME FeedFacts, Reliable, NEW c \in Consumers, Mark(c)
    PROVE  FeedInv' /\ FeedStep
<1> USE DEF FeedFacts, DedupeFacts, TypedHand, TypeOK
<1>1. UNCHANGED <<topic, stats, active, published, failedOpen, expired, cur, mem>>
  BY DEF Mark, kafkaVars, redisVars, outVars, readerVars, historyVars
<1>2. Listed' = Listed /\ Excused' = Excused /\ Msg(c)' = Msg(c)
  BY <1>1, SameListed DEF Excused, Msg
<1>3. pc[c] = "mark" /\ pc'[c] = "setStats"
  BY DEF Mark, Goto, PersistOrder, ReplicaOK
<1>4. Feed!MayFold(Msg(c)) => Feed!MayFold(Msg(c))'
  BY <1>2 DEF Feed!MayFold
<1>5. InStep(c)'
  BY <1>1, <1>2, <1>3, <1>4 DEF FeedInv, InStep, OthersSynced, Synced
<1>6. QED
  BY <1>1, <1>2, <1>5 DEF Reliable, FeedInv, FeedStep, Feed!vars

\* The snapshot is written: a listed match grows by the event in hand.
LEMMA SetStatsFeed ==
    ASSUME FeedFacts, Reliable, NEW c \in Consumers, SetStats(c)
    PROVE  FeedInv' /\ FeedStep
<1> USE DEF FeedFacts, DedupeFacts, TypedHand, TypeOK
<1> DEFINE ev == Msg(c)
<1>1. UNCHANGED <<topic, active, published, failedOpen, expired, cur, mem>>
  BY DEF SetStats, kafkaVars, redisVars, outVars, readerVars, historyVars
<1>2. Excused' = Excused /\ Msg(c)' = Msg(c)
  BY <1>1 DEF Excused, Msg
<1>3. /\ pc[c] = "setStats" /\ pc'[c] = "setLatest"
      /\ stats' = [stats EXCEPT ![ev.match] = mem[c][ev.match]]
  BY DEF SetStats, RedisWrite, Snapshot, Goto, PersistOrder, ReplicaOK,
     NoRedisFault, Spend
<1>4. /\ ev \in Event /\ ev.match \in Matches
      /\ cur[c] \in 1 .. Len(topic)
  BY <1>3, InHandTyped DEF HandOK, InHand, ReaderOK, Offsets, KafkaOK
<1>5. /\ OthersSynced(c) /\ Feed!MayFold(ev)
      /\ mem[c][ev.match] = Append(Listed[ev.match], ev)
  BY <1>3 DEF FeedInv, InStep
<1>6. /\ stats'[ev.match] = mem[c][ev.match]
      /\ \A m \in Matches \ {ev.match} : stats'[m] = stats[m]
  BY <1>3, <1>4 DEF RedisOK
<1>7. \A m \in Matches \ {ev.match} : Listed'[m] = Listed[m]
  BY <1>1, <1>6 DEF Listed
<1>8. ev.match \notin active => stats'[ev.match] = <<ev>>
  <2>1. ev.match \notin active => Listed[ev.match] = <<>>
    BY <1>4 DEF Listed
  <2>2. Append(<<>>, ev) = <<ev>>
    OBVIOUS
  <2>3. QED
    BY <1>5, <1>6, <2>1, <2>2
<1>9. OthersSynced(c)'
  BY <1>1, <1>2, <1>5, <1>7 DEF OthersSynced, Synced
<1>10. InStep(c)'
  BY <1>1, <1>2, <1>3, <1>6, <1>8, <1>9 DEF InStep
<1>11. ASSUME ev.match \in active PROVE FeedStep
  <2>1. Listed' = [Listed EXCEPT ![ev.match] = Append(@, ev)]
    BY <1>1, <1>4, <1>5, <1>6, <1>11 DEF Listed
  <2>2. topic[cur[c]] = ev /\ cur[c] \in DOMAIN topic
    BY <1>4 DEF Msg, KafkaOK
  <2>3. Feed!Fold(ev)
    BY <1>1, <1>2, <1>5, <2>1, <2>2 DEF Feed!Fold
  <2>4. QED
    BY <1>4, <2>3 DEF FeedStep, Feed!Next
<1>12. ASSUME ev.match \notin active PROVE FeedStep
  <2>1. Listed' = Listed
    BY <1>1, <1>6, <1>12 DEF Listed
  <2>2. QED
    BY <1>1, <1>2, <2>1 DEF FeedStep, Feed!vars
<1>13. QED
  BY <1>10, <1>11, <1>12 DEF Reliable, FeedInv

LEMMA SetLatestFeed ==
    ASSUME FeedFacts, Reliable, NEW c \in Consumers, SetLatest(c)
    PROVE  FeedInv' /\ FeedStep
<1> USE DEF FeedFacts, DedupeFacts, TypedHand, TypeOK
<1>1. UNCHANGED <<topic, stats, active, published, failedOpen, expired, cur, mem>>
  BY DEF SetLatest, kafkaVars, redisVars, outVars, readerVars, historyVars
<1>2. Listed' = Listed /\ Excused' = Excused /\ Msg(c)' = Msg(c)
  BY <1>1, SameListed DEF Excused, Msg
<1>3. pc[c] = "setLatest" /\ pc'[c] = "addActive"
  BY DEF SetLatest, Goto, PersistOrder, ReplicaOK
<1>4. InStep(c)'
  BY <1>1, <1>2, <1>3 DEF FeedInv, InStep, OthersSynced, Synced
<1>5. QED
  BY <1>1, <1>2, <1>4 DEF Reliable, FeedInv, FeedStep, Feed!vars

\* The match is listed: if it was not, its first event shows.
LEMMA AddActiveFeed ==
    ASSUME FeedFacts, Reliable, NEW c \in Consumers, AddActiveMatch(c)
    PROVE  FeedInv' /\ FeedStep
<1> USE DEF FeedFacts, DedupeFacts, TypedHand, TypeOK
<1> DEFINE ev == Msg(c)
<1>1. UNCHANGED <<topic, stats, published, failedOpen, expired, cur, mem>>
  BY DEF AddActiveMatch, kafkaVars, outVars, readerVars, historyVars
<1>2. Excused' = Excused
  BY <1>1 DEF Excused
<1>3. /\ pc[c] = "addActive" /\ pc'[c] = "publish"
      /\ active' = active \cup {ev.match}
  BY DEF AddActiveMatch, RedisWrite, Goto, PersistOrder, ReplicaOK,
     NoRedisFault, Spend
<1>4. /\ ev \in Event /\ ev.match \in Matches
      /\ cur[c] \in 1 .. Len(topic)
  BY <1>3, InHandTyped DEF HandOK, InHand, ReaderOK, Offsets, KafkaOK
<1>5. /\ OthersSynced(c)
      /\ mem[c][ev.match] = stats[ev.match]
      /\ ev.match \notin active => stats[ev.match] = <<ev>>
  BY <1>3 DEF FeedInv, InStep
<1>6. /\ Listed'[ev.match] = stats[ev.match]
      /\ \A m \in Matches \ {ev.match} : Listed'[m] = Listed[m]
  BY <1>1, <1>3, <1>4 DEF Listed
<1>7. InStep(c)'
  BY <1>1, <1>3, <1>5, <1>6 DEF InStep, OthersSynced, Synced
<1>8. ASSUME ev.match \in active PROVE FeedStep
  <2>1. active' = active
    BY <1>3, <1>8
  <2>2. QED
    BY <1>1, <1>2, <2>1, SameListed DEF FeedStep, Feed!vars
<1>9. ASSUME ev.match \notin active PROVE FeedStep
  <2>1. Listed[ev.match] = <<>> /\ Append(<<>>, ev) = <<ev>>
    BY <1>4, <1>9 DEF Listed
  <2>2. /\ Listed' = [m \in Matches |-> Listed'[m]]
        /\ Listed'[ev.match] = Append(Listed[ev.match], ev)
    <3>1. Listed' = [m \in Matches |-> Listed'[m]]
      BY DEF Listed
    <3>2. Listed'[ev.match] = Append(Listed[ev.match], ev)
      BY <1>5, <1>6, <1>9, <2>1
    <3>3. QED
      BY <3>1, <3>2
  <2>3. Listed' = [Listed EXCEPT ![ev.match] = Append(@, ev)]
    BY <1>4, <1>6, <2>2, ListedTyped
  <2>4. Feed!MayFold(ev)
    BY <2>1 DEF Feed!MayFold
  <2>5. topic[cur[c]] = ev /\ cur[c] \in DOMAIN topic
    BY <1>4 DEF Msg, KafkaOK
  <2>6. Feed!Fold(ev)
    BY <1>1, <1>2, <2>3, <2>4, <2>5 DEF Feed!Fold
  <2>7. QED
    BY <1>4, <2>6 DEF FeedStep, Feed!Next
<1>10. QED
  BY <1>7, <1>8, <1>9 DEF Reliable, FeedInv

\* What is announced is what readers see.
LEMMA PublishFeed ==
    ASSUME FeedFacts, Reliable, NEW c \in Consumers, Publish(c)
    PROVE  FeedInv' /\ FeedStep
<1> USE DEF FeedFacts, DedupeFacts, TypedHand, TypeOK
<1> DEFINE ev == Msg(c)
<1>1. UNCHANGED <<topic, stats, active, failedOpen, expired, mem>>
  BY DEF Publish, kafkaVars, redisVars, historyVars
<1>2. Listed' = Listed /\ Excused' = Excused
  BY <1>1, SameListed DEF Excused
<1>3. pc[c] = "publish" /\ pc'[c] = "commit"
  BY DEF Publish, Goto, PersistOrder, ReplicaOK
<1>4. ev.match \in Matches /\ Snapshot(c) = Listed[ev.match]
  BY <1>3, InHandTyped DEF FeedInv, InStep, Synced, Snapshot
<1>5. InStep(c)'
  BY <1>1, <1>2, <1>3 DEF FeedInv, InStep, Synced
<1>6. \/ published' = published
      \/ published' = Append(published, [match |-> ev.match,
                                         events |-> Listed[ev.match]])
  BY <1>4 DEF Publish
<1>7. FeedStep
  BY <1>1, <1>2, <1>4, <1>6 DEF FeedStep, Feed!Next, Feed!Announce, Feed!vars
<1>8. QED
  BY <1>5, <1>7 DEF Reliable, FeedInv

-----------------------------------------------------------------------------

\* Every step keeps the replica in step, and shows readers a step of MatchFeed
\* or nothing.
LEMMA NextFeed ==
    ASSUME FeedFacts, Reliable, [Next]_vars
    PROVE  FeedFacts' /\ FeedStep
<1>1. DedupeFacts' /\ NoRedisFault'
  BY NextTyped, NextDedupe, NoRedisFaultStep DEF FeedFacts, DedupeFacts
<1>2. CASE UNCHANGED vars
  <2>1. UNCHANGED <<topic, stats, active, published, failedOpen, expired, mem,
                    toLoad, pc, cur>>
    BY <1>2 DEF vars, kafkaVars, redisVars, outVars, readerVars, historyVars
  <2>2. Listed' = Listed /\ Excused' = Excused
    BY <2>1, SameListed DEF Excused
  <2>3. FeedInv'
    BY <2>1, <2>2, StaysInStep DEF FeedFacts, FeedInv, Msg
  <2>4. QED
    BY <1>1, <2>1, <2>2, <2>3 DEF FeedFacts, FeedStep, Feed!vars
<1>3. CASE Next
  <2>1. FeedInv' /\ FeedStep
    BY <1>3, ProduceFeed, RestartFeed, SyncedFeed, ApplyFeed, MarkFeed,
       SetStatsFeed, SetLatestFeed, AddActiveFeed, PublishFeed, GroupFeed,
       ExpireFeed DEF Next, Step
  <2>2. QED
    BY <1>1, <2>1 DEF FeedFacts
<1>4. QED
  BY <1>2, <1>3

LEMMA InitFeed == ASSUME Init, Reliable PROVE FeedFacts /\ Feed!Init
<1>1. DedupeFacts
  BY InitTyped, InitDedupe DEF DedupeFacts
<1>2. FeedInv
  BY DEF Init, FeedInv, InStep
<1>3. NoRedisFault
  BY DEF Init, Reliable, NoRedisFault
<1>4. Feed!Init
  BY DEF Init, Feed!Init, Listed, Excused
<1>5. QED
  BY <1>1, <1>2, <1>3, <1>4 DEF FeedFacts

\* A single replica that reaches Redis is in step with what readers see.
THEOREM ReplicaIsInStep == ASSUME Reliable PROVE Spec => []FeedInv
<1>1. Init => FeedFacts
  BY InitFeed
<1>2. FeedFacts /\ [Next]_vars => FeedFacts'
  BY NextFeed
<1>3. FeedFacts => FeedInv
  BY DEF FeedFacts
<1>4. QED
  BY <1>1, <1>2, <1>3, PTL DEF Spec

\* A single replica that reaches Redis implements MatchFeed, whatever crashes,
\* redeliveries, duplicates, failed publications and rebalances there are.
THEOREM ImplementsFeed == ASSUME Reliable PROVE Spec => FeedSpec
<1>1. Init => FeedFacts /\ Feed!Init
  BY InitFeed
<1>2. FeedFacts /\ [Next]_vars => FeedFacts' /\ [Feed!Next]_Feed!vars
  BY NextFeed DEF FeedStep
<1>3. QED
  BY <1>1, <1>2, PTL DEF Spec, FeedSpec, Feed!Spec

-----------------------------------------------------------------------------
(* What readers of an implementation of MatchFeed can rely on. *)

\* A prefix, item by item.
LEMMA PrefixItems ==
    ASSUME NEW S, NEW s \in Seq(S), NEW t \in Seq(S)
    PROVE  IsPrefix(s, t) <=> /\ Len(s) <= Len(t)
                              /\ \A i \in 1 .. Len(s) : s[i] = t[i]
<1>1. ASSUME Len(s) <= Len(t)
      PROVE  /\ SubSeq(t, 1, Len(s)) \in Seq(S)
             /\ Len(SubSeq(t, 1, Len(s))) = Len(s)
             /\ \A i \in 1 .. Len(s) : SubSeq(t, 1, Len(s))[i] = t[i]
  BY <1>1
<1>2. QED
  BY <1>1 DEF IsPrefix

LEMMA PrefixOfAppend ==
    ASSUME NEW S, NEW s \in Seq(S), NEW e \in S
    PROVE  IsPrefix(s, s) /\ IsPrefix(s, Append(s, e))
<1>1. /\ Append(s, e) \in Seq(S) /\ Len(s) <= Len(Append(s, e))
      /\ \A i \in 1 .. Len(s) : Append(s, e)[i] = s[i]
      /\ Len(s) <= Len(s)
  OBVIOUS
<1>2. QED
  BY <1>1, PrefixItems

\* Prefixes of prefixes are prefixes.
LEMMA PrefixTrans ==
    ASSUME NEW S, NEW r \in Seq(S), NEW s \in Seq(S), NEW t \in Seq(S),
           IsPrefix(r, s), IsPrefix(s, t)
    PROVE  IsPrefix(r, t)
<1>1. /\ Len(r) <= Len(s) /\ Len(s) <= Len(t)
      /\ \A i \in 1 .. Len(r) : r[i] = s[i]
      /\ \A i \in 1 .. Len(s) : s[i] = t[i]
  BY PrefixItems
<1>2. Len(r) <= Len(t) /\ \A i \in 1 .. Len(r) : r[i] = t[i]
  BY <1>1
<1> QED
  BY <1>2, PrefixItems

\* Readers never see a history lose an event.
LEMMA ListedGrows ==
    ASSUME TypedHand, TypedHand', FeedStep, NEW m \in Matches
    PROVE  /\ Listed[m] \in Seq(Event) /\ Listed'[m] \in Seq(Event)
           /\ IsPrefix(Listed[m], Listed'[m])
<1>1. Listed \in [Matches -> Seq(Event)] /\ Listed[m] \in Seq(Event)
  BY ListedTyped
<1>2. Listed'[m] \in Seq(Event)
  BY DEF TypedHand, TypeOK, RedisOK, Listed
<1>3. ASSUME Listed'[m] = Listed[m] PROVE IsPrefix(Listed[m], Listed'[m])
  <2>1. Len(Listed[m]) <= Len(Listed[m])
    BY <1>1
  <2>2. QED
    BY <1>1, <1>3, <2>1, PrefixItems
<1>4. ASSUME NEW ev \in Event, Feed!Fold(ev)
      PROVE  IsPrefix(Listed[m], Listed'[m])
  <2>1. Listed'[m] = Listed[m] \/ Listed'[m] = Append(Listed[m], ev)
    BY <1>1, <1>4 DEF Feed!Fold
  <2>2. IsPrefix(Listed[m], Append(Listed[m], ev))
    BY <1>1, PrefixOfAppend
  <2>3. QED
    BY <1>3, <2>1, <2>2
<1>5. QED
  BY <1>1, <1>2, <1>3, <1>4 DEF FeedStep, Feed!Next, Feed!vars, Feed!Arrive,
     Feed!Announce, Feed!Forget

\* What was announced is still part of what readers see, and what is announced
\* of one match only grows.
Announced ==
    /\ \A i \in DOMAIN published :
          IsPrefix(published[i].events, Listed[published[i].match])
    /\ PublishedNeverShrinks

LEMMA AnnouncedStep ==
    ASSUME TypedHand, TypedHand', FeedStep, Announced PROVE Announced'
<1>1. /\ published \in Seq([match : Matches, events : Seq(Event)])
      /\ \A m \in Matches : /\ Listed[m] \in Seq(Event) /\ Listed'[m] \in Seq(Event)
                            /\ IsPrefix(Listed[m], Listed'[m])
  BY ListedGrows DEF TypedHand, TypeOK, OutOK
<1>2. \A i \in DOMAIN published :
         /\ published[i].match \in Matches /\ published[i].events \in Seq(Event)
         /\ IsPrefix(published[i].events, Listed'[published[i].match])
  <2> SUFFICES ASSUME NEW i \in DOMAIN published
               PROVE  /\ published[i].match \in Matches
                      /\ published[i].events \in Seq(Event)
                      /\ IsPrefix(published[i].events, Listed'[published[i].match])
    OBVIOUS
  <2>1. published[i].match \in Matches /\ published[i].events \in Seq(Event)
    <3>1. \A S : \A q \in Seq(S) : \A k \in DOMAIN q : q[k] \in S
      OBVIOUS
    <3>2. published[i] \in [match : Matches, events : Seq(Event)]
      BY <1>1, <3>1, Zenon
    <3>3. QED
      BY <3>2
  <2> DEFINE p == published[i].events
             a == Listed[published[i].match]
             b == Listed'[published[i].match]
  <2>2. /\ p \in Seq(Event) /\ a \in Seq(Event) /\ b \in Seq(Event)
        /\ IsPrefix(p, a) /\ IsPrefix(a, b)
    BY <1>1, <2>1 DEF Announced
  <2> HIDE DEF p, a, b
  <2>3. IsPrefix(p, b)
    BY <2>2, PrefixTrans, Zenon
  <2>4. QED
    BY <2>1, <2>3 DEF p, b
<1>3. CASE published' = published
  BY <1>2, <1>3 DEF Announced, PublishedNeverShrinks
<1>4. ASSUME NEW m \in Matches, Feed!Announce(m) PROVE Announced'
  <2> DEFINE rec == [match |-> m, events |-> Listed[m]]
  <2>1. published' = Append(published, rec) /\ Listed' = Listed
    BY <1>4 DEF Feed!Announce
  <2>2. /\ rec.match = m /\ rec.events = Listed[m]
        /\ IsPrefix(Listed[m], Listed[m])
    BY <1>1, <2>1
  <2>3. /\ DOMAIN published = 1 .. Len(published)
        /\ DOMAIN published' = 1 .. Len(published) + 1
        /\ \A i \in 1 .. Len(published) : published'[i] = published[i]
        /\ published'[Len(published) + 1] = rec
        /\ Len(published) \in Nat
    BY <1>1, <2>1
  <2> HIDE DEF rec
  <2>4. \A i \in DOMAIN published' :
           IsPrefix(published'[i].events, Listed'[published'[i].match])
    BY <1>2, <2>1, <2>2, <2>3
  <2>5. PublishedNeverShrinks'
    <3> SUFFICES ASSUME NEW i \in DOMAIN published', NEW j \in DOMAIN published',
                        i < j, published'[i].match = published'[j].match
                 PROVE  IsPrefix(published'[i].events, published'[j].events)
      BY DEF PublishedNeverShrinks
    <3>1. i \in DOMAIN published /\ published'[i] = published[i]
      BY <2>3
    <3>2. CASE j \in DOMAIN published
      <4>1. published'[j] = published[j]
        BY <2>3, <3>2
      <4>2. QED
        BY <3>1, <3>2, <4>1 DEF Announced, PublishedNeverShrinks
    <3>3. CASE j = Len(published) + 1
      BY <1>2, <2>1, <2>2, <2>3, <3>1, <3>3
    <3>4. QED
      BY <2>3, <3>2, <3>3
  <2>6. QED
    BY <2>4, <2>5 DEF Announced
<1>5. QED
  BY <1>3, <1>4 DEF FeedStep, Feed!Next, Feed!vars, Feed!Arrive, Feed!Fold,
     Feed!Forget

\* With one replica that reaches Redis, what subscribers of match-stats see of
\* a match only grows.
THEOREM FeedNeverShrinks == ASSUME Reliable PROVE Spec => []PublishedNeverShrinks
<1>1. Init => FeedFacts /\ Announced
  <2>1. Init => Announced
    BY DEF Init, Announced, PublishedNeverShrinks
  <2>2. QED
    BY <2>1, InitFeed
<1>2. FeedFacts /\ Announced /\ [Next]_vars => FeedFacts' /\ Announced'
  BY NextFeed, AnnouncedStep DEF FeedFacts, DedupeFacts
<1>3. Announced => PublishedNeverShrinks
  BY DEF Announced
<1>4. QED
  BY <1>1, <1>2, <1>3, PTL DEF Spec
=============================================================================
