---------------------------- MODULE CommitProofs ----------------------------
(***************************************************************************)
(* What a commit covers, for every number of replicas, messages and        *)
(* faults: offsets move back and forth between replicas, but none of them  *)
(* ever passes a message whose redelivery would do harm.                   *)
(***************************************************************************)
EXTENDS EventProcessorProofs

\* What makes a settled message stay settled: the topic, the DLQ and the
\* excuses only grow, and a reservation goes only with an excuse.
Lasting ==
    /\ Len(topic) <= Len(topic')
    /\ \A i \in 1 .. Len(topic) : topic'[i] = topic[i]
    /\ deadLetters \subseteq deadLetters'
    /\ dropped \subseteq dropped'
    /\ Excused \subseteq Excused'
    /\ \A id \in EventIds \ Excused' : dedupe[id] # "none" => dedupe'[id] # "none"

\* A settled message stays settled.
LEMMA SettledLasts ==
    ASSUME TypedHand, Lasting, NEW o \in 1 .. Len(topic), Settled(o)
    PROVE  Settled(o)'
<1>1. topic'[o] = topic[o]
  BY DEF Lasting
<1>2. AccountedFor(o) => AccountedFor(o)'
  BY DEF AccountedFor, Lasting
<1>3. CASE topic[o] = Malformed
  BY <1>1, <1>2, <1>3 DEF Settled
<1>4. CASE topic[o] # Malformed
  <2>1. topic[o].id \in EventIds \cup {NoId}
    BY <1>4 DEF TypedHand, TypeOK, KafkaOK, Event
  <2>2. QED
    BY <1>1, <1>4, <2>1 DEF Settled, Lasting
<1>5. QED
  BY <1>3, <1>4

LEMMA SettledToLasts ==
    ASSUME TypedHand, Lasting, NEW n \in Int, n <= Len(topic), SettledTo(n)
    PROVE  SettledTo(n)'
<1> SUFFICES ASSUME NEW o \in 1 .. n PROVE Settled(o)'
  BY DEF SettledTo
<1>1. o \in 1 .. Len(topic)
  BY DEF TypedHand, TypeOK, KafkaOK
<1>2. QED
  BY <1>1, SettledLasts DEF SettledTo

\* Every step is lasting.
LEMMA NextLasting == ASSUME TypedHand, [Next]_vars PROVE Lasting
<1> USE DEF TypedHand, TypeOK, kafkaVars, redisVars, outVars, readerVars,
            historyVars
<1>1. ASSUME NEW msg \in Messages, Produce(msg) PROVE Lasting
  <2>1. \A i \in 1 .. Len(topic) : topic'[i] = topic[i]
    BY <1>1, MessagesAssumption DEF KafkaOK, Produce
  <2>2. Len(topic) <= Len(topic')
    BY <1>1, MessagesAssumption DEF KafkaOK, Produce
  <2>3. QED
    BY <1>1, <2>1, <2>2 DEF Lasting, Excused, Produce
<1>2. ASSUME NEW c \in Consumers,
             \/ Start(c) \/ LoadMatch(c) \/ StartReading(c) \/ FetchMessage(c)
             \/ Apply(c) \/ CommitMessages(c)
             \/ Join(c) \/ Rebalance(c) \/ FlushCommit(c) \/ Crash(c)
      PROVE  Lasting
  <2>1. UNCHANGED <<topic, deadLetters, dropped, failedOpen, expired, dedupe>>
    BY <1>2 DEF Start, LoadMatch, StartReading, FetchMessage, FetchWith, Apply,
       CommitMessages, Join, Rebalance, NewGeneration, FlushCommit, Crash
  <2>2. QED
    BY <2>1 DEF Lasting, Excused, KafkaOK
<1>3. ASSUME NEW c \in Consumers,
             \/ SetStats(c) \/ SetLatest(c) \/ AddActiveMatch(c) \/ Publish(c)
      PROVE  Lasting
  <2>1. UNCHANGED <<topic, deadLetters, dropped, failedOpen, expired, dedupe>>
    BY <1>3 DEF SetStats, SetLatest, AddActiveMatch, Publish
  <2>2. QED
    BY <2>1 DEF Lasting, Excused, KafkaOK
<1>4. ASSUME NEW c \in Consumers, Reserve(c) PROVE Lasting
  <2>1. UNCHANGED <<topic, deadLetters, dropped, expired>>
    BY <1>4 DEF Reserve
  <2>2. failedOpen \subseteq failedOpen'
    BY <1>4 DEF Reserve, FailOpen
  <2>3. \A id \in EventIds : dedupe[id] # "none" => dedupe'[id] # "none"
    BY <1>4 DEF Reserve, SetNX, Claim, RedisOK
  <2>4. QED
    BY <2>1, <2>2, <2>3 DEF Lasting, Excused, KafkaOK
<1>5. ASSUME NEW c \in Consumers, Inspect(c) PROVE Lasting
  <2>1. UNCHANGED <<topic, deadLetters, dropped, expired, dedupe>>
    BY <1>5 DEF Inspect
  <2>2. failedOpen \subseteq failedOpen'
    BY <1>5 DEF Inspect, FailOpen
  <2>3. QED
    BY <2>1, <2>2 DEF Lasting, Excused, KafkaOK
<1>6. ASSUME NEW c \in Consumers, Mark(c) PROVE Lasting
  <2>1. UNCHANGED <<topic, deadLetters, dropped, failedOpen, expired>>
    BY <1>6 DEF Mark
  <2>2. \A id \in EventIds : dedupe[id] # "none" => dedupe'[id] # "none"
    BY <1>6 DEF Mark, RedisWrite, RedisOK
  <2>3. QED
    BY <2>1, <2>2 DEF Lasting, Excused, KafkaOK
<1>7. ASSUME NEW c \in Consumers, RouteToDLQ(c) PROVE Lasting
  <2>1. UNCHANGED <<topic, failedOpen, expired, dedupe>>
    BY <1>7 DEF RouteToDLQ
  <2>2. deadLetters \subseteq deadLetters' /\ dropped \subseteq dropped'
    BY <1>7 DEF RouteToDLQ
  <2>3. QED
    BY <2>1, <2>2 DEF Lasting, Excused, KafkaOK
<1>8. ASSUME NEW id \in EventIds, Expire(id) PROVE Lasting
  <2>1. UNCHANGED <<topic, deadLetters, dropped, failedOpen>>
    BY <1>8 DEF Expire
  <2>2. /\ expired' = expired \cup {id}
        /\ \A e \in EventIds : e # id => dedupe'[e] = dedupe[e]
    BY <1>8 DEF Expire, RedisOK
  <2>3. QED
    BY <2>1, <2>2 DEF Lasting, Excused, KafkaOK
<1>9. CASE UNCHANGED vars
  BY <1>9 DEF vars, Lasting, Excused, KafkaOK
<1>10. QED
  BY <1>1, <1>2, <1>3, <1>4, <1>5, <1>6, <1>7, <1>8, <1>9 DEF Next, Step

-----------------------------------------------------------------------------

\* CommitInv, for one replica.
Covered(c) ==
    /\ SettledTo(commitReq[c])
    /\ pc[c] \in InHand =>
         /\ SettledTo(cur[c] - 1)
         /\ pc[c] \notin {"reserve", "dlq"} => Settled(cur[c])
    /\ SettledTo(pos[c]) \/ (pc[c] \in InHand /\ pos[c] = cur[c])

CommitFacts == TypedHand /\ CommitInv

LEMMA CommitInvIsCovered ==
    CommitInv <=> SettledTo(committed) /\ \A c \in Consumers : Covered(c)
  BY DEF CommitInv, Covered

\* The step leaves the reader of the replica alone, and moves on with the
\* message in hand only when it is settled.
Keeps(c) ==
    /\ pos'[c] = pos[c] /\ cur'[c] = cur[c] /\ commitReq'[c] = commitReq[c]
    /\ \/ pc'[c] = pc[c]
       \/ /\ pc[c] \in InHand /\ pc'[c] \in InHand
          /\ pc'[c] \notin {"reserve", "dlq"} => Settled(cur[c])'
       \/ pc[c] \notin InHand /\ pc'[c] \notin InHand

LEMMA KeepsCovered ==
    ASSUME TypedHand, Lasting, NEW c \in Consumers, Covered(c), Keeps(c)
    PROVE  Covered(c)'
<1>1. /\ commitReq[c] \in 0 .. Len(topic) /\ pos[c] \in 0 .. Len(topic)
      /\ cur[c] \in 0 .. Len(topic) /\ Len(topic) \in Nat
      /\ pc[c] \in InHand => cur[c] > 0
  BY DEF TypedHand, TypeOK, HandOK, KafkaOK, ReaderOK, Offsets
<1>2. /\ SettledTo(commitReq[c]) => SettledTo(commitReq[c])'
      /\ SettledTo(pos[c]) => SettledTo(pos[c])'
      /\ SettledTo(cur[c] - 1) => SettledTo(cur[c] - 1)'
  <2>1. \A n \in -1 .. Len(topic) : n \in Int /\ n <= Len(topic)
    BY <1>1
  <2>2. ASSUME NEW n \in -1 .. Len(topic), SettledTo(n) PROVE SettledTo(n)'
    BY <2>1, <2>2, SettledToLasts
  <2>3. cur[c] - 1 \in -1 .. Len(topic)
    BY <1>1
  <2>4. QED
    BY <1>1, <2>2, <2>3 DEF Keeps
<1>3. SettledTo(commitReq[c])'
  BY <1>2 DEF Covered
<1>4. (SettledTo(pos[c]) \/ (pc[c] \in InHand /\ pos[c] = cur[c]))'
  <2>1. (pc[c] \in InHand /\ pos[c] = cur[c]) => (pc[c] \in InHand /\ pos[c] = cur[c])'
    BY DEF Keeps
  <2>2. QED
    BY <1>2, <2>1 DEF Covered
<1>5. ASSUME pc'[c] \in InHand
      PROVE  (SettledTo(cur[c] - 1) /\ (pc[c] \notin {"reserve", "dlq"} => Settled(cur[c])))'
  <2>1. pc[c] \in InHand
    BY <1>5 DEF Keeps
  <2>2. SettledTo(cur[c] - 1)'
    BY <1>2, <2>1 DEF Covered
  <2>3. cur[c] \in 1 .. Len(topic)
    BY <1>1, <2>1
  <2>4. Settled(cur[c]) => Settled(cur[c])'
    BY <2>3, SettledLasts DEF Keeps
  <2>5. pc'[c] \notin {"reserve", "dlq"} => Settled(cur[c])'
    BY <2>1, <2>4 DEF Keeps, Covered
  <2>6. QED
    BY <2>2, <2>5
<1>6. QED
  BY <1>3, <1>4, <1>5 DEF Covered

\* A step that no reader takes part in and that leaves the group's offset
\* alone preserves the invariant when it keeps every replica covered.
LEMMA KeepsCommitInv ==
    ASSUME CommitFacts, Lasting, committed' = committed,
           \A c \in Consumers : Keeps(c)
    PROVE  CommitInv'
<1>1. SettledTo(committed)'
  <2>1. committed \in Int /\ committed <= Len(topic)
    BY DEF CommitFacts, TypedHand, TypeOK, KafkaOK, Offsets
  <2>2. QED
    BY <2>1, SettledToLasts DEF CommitFacts, CommitInv
<1>2. ASSUME NEW c \in Consumers PROVE Covered(c)'
  BY <1>2, KeepsCovered, CommitInvIsCovered DEF CommitFacts
<1>3. QED
  BY <1>1, <1>2 DEF CommitInv, Covered

\* The steps with a message in hand, the DLQ and the reservation among them:
\* they let go of it only once it is settled.
LEMMA HandStepKeeps ==
    ASSUME CommitFacts, Lasting, NEW c \in Consumers,
           \/ Reserve(c) \/ Inspect(c) \/ Apply(c) \/ Mark(c) \/ SetStats(c)
           \/ SetLatest(c) \/ AddActiveMatch(c) \/ Publish(c) \/ RouteToDLQ(c)
    PROVE  CommitInv'
<1> USE DEF CommitFacts, TypedHand, TypeOK
<1>1. UNCHANGED <<committed, pos, cur, commitReq, topic>>
  BY DEF Reserve, Inspect, Apply, Mark, SetStats, SetLatest, AddActiveMatch,
     Publish, RouteToDLQ, kafkaVars, readerVars
<1>2. \A d \in Consumers : d # c => pc'[d] = pc[d]
  BY DEF Reserve, Inspect, Apply, Mark, SetStats, SetLatest, AddActiveMatch,
     Publish, RouteToDLQ, Goto, FailOpen, ReplicaOK
<1>3. pc[c] \in InHand /\ pc'[c] \in InHand
  BY DEF Reserve, Inspect, Apply, Mark, SetStats, SetLatest, AddActiveMatch,
     Publish, RouteToDLQ, Goto, FailOpen, ReplicaOK, InHand, OnReservation,
     OnReserveError, PersistOrder
<1>4. cur[c] \in 1 .. Len(topic) /\ topic'[cur[c]] = Msg(c)
  BY <1>1, <1>3 DEF HandOK, ReaderOK, Offsets, KafkaOK, Msg
<1>5. CASE RouteToDLQ(c)
  <2>1. Msg(c) = Malformed
    BY <1>5 DEF HandOK, RouteToDLQ
  <2>2. pc'[c] # "dlq" => AccountedFor(cur[c])'
    <3>1. \/ pc' = pc \/ cur[c] \in dropped' \/ DLQRecord(c) \in deadLetters'
      BY <1>5 DEF RouteToDLQ
    <3>2. DLQRecord(c).offset = cur[c] /\ pc[c] = "dlq"
      BY <1>5 DEF DLQRecord, RouteToDLQ
    <3>3. QED
      BY <1>1, <3>1, <3>2 DEF AccountedFor
  <2>3. pc'[c] \notin {"reserve", "dlq"} => Settled(cur[c])'
    BY <1>1, <1>4, <2>1, <2>2 DEF Settled, AccountedFor
  <2>4. QED
    BY <1>1, <1>2, <1>3, <2>3, KeepsCommitInv DEF Keeps
<1>6. CASE Reserve(c)
  <2>1. Msg(c) \in Event /\ Msg(c).id \in EventIds
    BY <1>6 DEF HandOK, Reserve
  <2>2. dedupe'[Msg(c).id] # "none" \/ Msg(c).id \in failedOpen'
    BY <1>6, <2>1 DEF Reserve, SetNX, Claim, FailOpen, RedisOK
  <2>3. Settled(cur[c])'
    BY <1>1, <1>4, <2>1, <2>2, MessagesAssumption DEF Settled, Excused
  <2>4. QED
    BY <1>1, <1>2, <1>3, <2>3, KeepsCommitInv DEF Keeps
<1>7. CASE ~RouteToDLQ(c) /\ ~Reserve(c)
  <2>1. pc[c] \notin {"reserve", "dlq"}
    BY <1>7 DEF Inspect, Apply, Mark, SetStats, SetLatest, AddActiveMatch,
       Publish
  <2>2. Settled(cur[c])
    BY <1>3, <2>1 DEF CommitInv
  <2>3. Settled(cur[c])'
    BY <1>1, <1>4, <2>2, SettledLasts
  <2>4. QED
    BY <1>1, <1>2, <1>3, <2>3, KeepsCommitInv DEF Keeps
<1>8. QED
  BY <1>5, <1>6, <1>7

\* The steps that touch neither a reader nor a message in hand.
LEMMA QuietStepKeeps ==
    ASSUME CommitFacts, Lasting,
           \/ \E msg \in Messages : Produce(msg)
           \/ \E c \in Consumers : Start(c) \/ LoadMatch(c) \/ StartReading(c)
           \/ \E id \in EventIds : Expire(id)
           \/ UNCHANGED vars
    PROVE  CommitInv'
<1> USE DEF CommitFacts, TypedHand, TypeOK
<1>1. UNCHANGED <<committed, pos, cur, commitReq>>
  BY DEF Produce, Start, LoadMatch, StartReading, Expire, vars, kafkaVars,
     readerVars
<1>2. \A d \in Consumers : pc'[d] = pc[d] \/ {pc[d], pc'[d]} \cap InHand = {}
  BY DEF Produce, Start, LoadMatch, StartReading, Expire, vars, Goto,
     ReplicaOK, InHand
<1>3. QED
  BY <1>1, <1>2, KeepsCommitInv DEF Keeps

\* The next message comes after the reader's position, which is settled.
LEMMA FetchKeeps ==
    ASSUME CommitFacts, Lasting, NEW c \in Consumers, FetchMessage(c)
    PROVE  CommitInv'
<1> USE DEF CommitFacts, TypedHand, TypeOK
<1>1. /\ UNCHANGED <<committed, commitReq, topic, dedupe, failedOpen, expired,
                     deadLetters, dropped>>
      /\ pc[c] = "fetch"
      /\ cur' = [cur EXCEPT ![c] = pos[c] + 1]
      /\ pos' = [pos EXCEPT ![c] = pos[c] + 1]
      /\ pc' = [pc EXCEPT ![c] = Dispatch(topic[pos[c] + 1])]
      /\ pos[c] \in 0 .. Len(topic) - 1
  BY DEF FetchMessage, FetchWith, Goto, kafkaVars, redisVars, outVars,
     historyVars, ReaderOK, Offsets, KafkaOK
<1>2. \A n \in Int : SettledTo(n) => SettledTo(n)'
  BY <1>1 DEF SettledTo, Settled, AccountedFor, Excused
<1>3. \A o : Settled(o) => Settled(o)'
  BY <1>1 DEF Settled, AccountedFor, Excused
<1>4. ASSUME NEW d \in Consumers, d # c PROVE Covered(d)'
  <2>1. /\ pc'[d] = pc[d] /\ cur'[d] = cur[d] /\ pos'[d] = pos[d]
        /\ commitReq'[d] = commitReq[d]
    BY <1>1, <1>4 DEF ReplicaOK, ReaderOK
  <2>2. Keeps(d)
    BY <2>1 DEF Keeps
  <2>3. QED
    BY <2>2, KeepsCovered, CommitInvIsCovered
<1>5. Covered(c)'
  <2>1. SettledTo(pos[c])
    BY <1>1 DEF CommitInv, InHand
  <2>2. cur'[c] = pos[c] + 1 /\ pos'[c] = pos[c] + 1
    BY <1>1 DEF ReaderOK
  <2>3. SettledTo(cur[c] - 1)'
    <3>1. cur'[c] - 1 = pos[c] /\ pos[c] \in Int
      BY <1>1, <2>2
    <3>2. SettledTo(pos[c]) => SettledTo(cur[c] - 1)'
      BY <1>2, <3>1 DEF SettledTo, Settled, AccountedFor, Excused
    <3>3. QED
      BY <2>1, <3>2
  <2>4. pc'[c] = Dispatch(topic[cur'[c]]) /\ topic' = topic
    BY <1>1, <2>2 DEF ReplicaOK
  <2>5. pc'[c] \notin {"reserve", "dlq"} => Settled(cur[c])'
    BY <2>4 DEF Dispatch, Settled
  <2>6. pc'[c] \in InHand
    BY <2>4 DEF Dispatch, InHand
  <2>7. SettledTo(commitReq[c])'
    BY <1>1, <1>2 DEF CommitInv, ReaderOK, Offsets, SettledTo, Settled,
       AccountedFor, Excused
  <2>8. QED
    BY <2>2, <2>3, <2>5, <2>6, <2>7 DEF Covered
<1>6. SettledTo(committed)'
  BY <1>1 DEF CommitInv, SettledTo, Settled, AccountedFor, Excused
<1>7. QED
  BY <1>4, <1>5, <1>6 DEF CommitInv, Covered

\* The message asked for is settled, and so is everything before it.
LEMMA CommitMessagesKeeps ==
    ASSUME CommitFacts, Lasting, NEW c \in Consumers, CommitMessages(c)
    PROVE  CommitInv'
<1> USE DEF CommitFacts, TypedHand, TypeOK
<1>1. /\ UNCHANGED <<committed, pos, cur, topic, dedupe, failedOpen, expired,
                     deadLetters, dropped>>
      /\ pc[c] = "commit"
      /\ pc' = [pc EXCEPT ![c] = "fetch"]
      /\ commitReq'[c] \in {commitReq[c], cur[c]}
      /\ \A d \in Consumers : d # c => commitReq'[d] = commitReq[d]
  BY DEF CommitMessages, CommitOffset, Goto, kafkaVars, redisVars, outVars,
     historyVars, ReaderOK
<1>2. SettledTo(cur[c])
  <2>1. SettledTo(cur[c] - 1) /\ Settled(cur[c])
    BY <1>1 DEF CommitInv, InHand
  <2>2. cur[c] \in Int
    BY DEF ReaderOK, Offsets
  <2>3. \A o \in 1 .. cur[c] : o \in 1 .. cur[c] - 1 \/ o = cur[c]
    BY <2>2
  <2>4. QED
    BY <2>1, <2>3 DEF SettledTo
<1>3. \A n \in Int : SettledTo(n) => SettledTo(n)'
  BY <1>1 DEF SettledTo, Settled, AccountedFor, Excused
<1>4. ASSUME NEW d \in Consumers, d # c PROVE Covered(d)'
  <2>1. Keeps(d)
    BY <1>1, <1>4 DEF Keeps, ReplicaOK
  <2>2. QED
    BY <2>1, KeepsCovered, CommitInvIsCovered
<1>5. Covered(c)'
  <2>1. SettledTo(pos[c]) \/ pos[c] = cur[c]
    BY DEF CommitInv
  <2>2. /\ pos[c] \in Int /\ cur[c] \in Int /\ commitReq[c] \in Int
        /\ SettledTo(commitReq[c])
    BY DEF CommitInv, ReaderOK, Offsets
  <2>3. SettledTo(pos[c])' /\ SettledTo(commitReq[c])'
    <3>1. SettledTo(pos[c])
      BY <1>2, <2>1
    <3>2. SettledTo(pos[c])'
      BY <1>1, <3>1 DEF SettledTo, Settled, AccountedFor, Excused
    <3>3. CASE commitReq'[c] = commitReq[c]
      BY <1>1, <2>2, <3>2, <3>3 DEF SettledTo, Settled, AccountedFor, Excused
    <3>4. CASE commitReq'[c] = cur[c]
      BY <1>1, <1>2, <3>2, <3>4 DEF SettledTo, Settled, AccountedFor, Excused
    <3>5. QED
      BY <1>1, <3>3, <3>4
  <2>4. pc'[c] \notin InHand
    BY <1>1 DEF InHand, ReplicaOK
  <2>5. QED
    BY <2>3, <2>4 DEF Covered
<1>6. SettledTo(committed)'
  BY <1>1 DEF CommitInv, SettledTo, Settled, AccountedFor, Excused
<1>7. QED
  BY <1>4, <1>5, <1>6 DEF CommitInv, Covered

\* A generation starts where the group's offset stands, a crash at nothing, a
\* flush hands over an offset that was settled when it was asked for: none of
\* them goes beyond what is settled.
LEMMA GroupStepKeeps ==
    ASSUME CommitFacts, Lasting, NEW c \in Consumers,
           Join(c) \/ Rebalance(c) \/ FlushCommit(c) \/ Crash(c)
    PROVE  CommitInv'
<1> USE DEF CommitFacts, TypedHand, TypeOK
<1>1. UNCHANGED <<topic, dedupe, failedOpen, expired, deadLetters, dropped>>
  BY DEF Join, Rebalance, NewGeneration, FlushCommit, Crash, kafkaVars,
     redisVars, outVars, historyVars
<1>2. /\ committed' = committed \/ committed' = commitReq[c]
      /\ \A d \in Consumers :
           /\ pos'[d] \in {pos[d], committed, 0}
           /\ commitReq'[d] \in {commitReq[d], 0}
           /\ \/ pc'[d] = pc[d] /\ cur'[d] = cur[d]
              \/ pc'[d] = "down" /\ pos'[d] = 0
  <2>1. CASE NewGeneration(c)
    BY <2>1 DEF NewGeneration, ReaderOK
  <2>2. CASE FlushCommit(c)
    BY <2>2 DEF FlushCommit, ReaderOK
  <2>3. CASE Crash(c)
    BY <2>3 DEF Crash, Goto, ReaderOK, ReplicaOK
  <2>4. QED
    BY <2>1, <2>2, <2>3 DEF Join, Rebalance
<1>3. \A n \in Int : SettledTo(n) => SettledTo(n)'
  BY <1>1 DEF SettledTo, Settled, AccountedFor, Excused
<1>4. SettledTo(committed) /\ SettledTo(0)
      /\ \A d \in Consumers : SettledTo(commitReq[d])
  BY DEF CommitInv, SettledTo
<1>5. SettledTo(committed)'
  BY <1>1, <1>2, <1>4 DEF SettledTo, Settled, AccountedFor, Excused
<1>6. ASSUME NEW d \in Consumers PROVE Covered(d)'
  <2>1. SettledTo(commitReq[d])'
    BY <1>1, <1>2, <1>4 DEF SettledTo, Settled, AccountedFor, Excused
  <2>2. CASE pc'[d] = pc[d] /\ cur'[d] = cur[d]
    <3>1. ASSUME pc[d] \in InHand
          PROVE  (SettledTo(cur[d] - 1) /\ (pc[d] \notin {"reserve", "dlq"} => Settled(cur[d])))'
      BY <1>1, <2>2, <3>1 DEF CommitInv, SettledTo, Settled, AccountedFor, Excused
    <3>2. CASE pos'[d] = pos[d]
      BY <1>1, <2>1, <2>2, <3>1, <3>2 DEF CommitInv, Covered, SettledTo, Settled, AccountedFor, Excused
    <3>3. CASE pos'[d] \in {committed, 0}
      <4>1. SettledTo(pos[d])'
        BY <1>1, <1>4, <3>3 DEF SettledTo, Settled, AccountedFor, Excused
      <4>2. QED
        BY <2>1, <2>2, <3>1, <4>1 DEF Covered
    <3>4. QED
      BY <1>2, <3>2, <3>3
  <2>3. CASE pc'[d] = "down" /\ pos'[d] = 0
    BY <1>4, <2>1, <2>3 DEF Covered, InHand, SettledTo
  <2>4. QED
    BY <1>2, <2>2, <2>3
<1>7. QED
  BY <1>5, <1>6 DEF CommitInv, Covered

-----------------------------------------------------------------------------

LEMMA InitCommit == Init => CommitFacts
<1> SUFFICES ASSUME Init PROVE CommitInv
  BY InitTyped DEF CommitFacts
<1>1. QED
  BY DEF Init, CommitInv, SettledTo, InHand

\* Every step preserves the invariant.
LEMMA NextCommit == CommitFacts /\ [Next]_vars => CommitFacts' /\ Lasting
<1> SUFFICES ASSUME CommitFacts, [Next]_vars PROVE CommitFacts' /\ Lasting
  OBVIOUS
<1>1. TypedHand'
  BY NextTyped DEF CommitFacts
<1>2. Lasting
  BY NextLasting DEF CommitFacts
<1>3. CommitInv'
  BY <1>2, QuietStepKeeps, FetchKeeps, HandStepKeeps, CommitMessagesKeeps,
     GroupStepKeeps DEF Next, Step
<1>4. QED
  BY <1>1, <1>2, <1>3 DEF CommitFacts

\* The invariant holds in every reachable state.
THEOREM CommitInvariant == Spec => []CommitInv
<1>1. CommitFacts => CommitInv
  BY DEF CommitFacts
<1>2. QED
  BY InitCommit, NextCommit, <1>1, PTL DEF Spec

\* Whatever the commits of several replicas overtake, every committed message
\* is settled.
THEOREM CommitsAreSettled == Spec => []CommittedIsSettled
<1>1. CommitInv => CommittedIsSettled
  BY DEF CommitInv, SettledTo, CommittedIsSettled
<1>2. QED
  BY CommitInvariant, <1>1, PTL

\* A malformed message is never skipped silently.
THEOREM NoMalformedSkipped == Spec => []MalformedAccountedFor
<1>1. CommitInv => MalformedAccountedFor
  BY DEF CommitInv, SettledTo, Settled, MalformedAccountedFor
<1>2. QED
  BY CommitInvariant, <1>1, PTL
=============================================================================
