----------------------------- MODULE MLPredictor -----------------------------
(***************************************************************************)
(* services/ml-predictor: the consumer thread that turns each match-stats  *)
(* message into a prediction stored in Redis, and the running xG totals    *)
(* kept inside that prediction.                                            *)
(*                                                                         *)
(* kafka_consumer_loop iterates over a KafkaConsumer with automatic        *)
(* commits.  The client fetches a batch, hands it out record by record,    *)
(* and talks to the group coordinator (commits, rebalances) only between   *)
(* two batches, in the same thread.  Offsets are 1-based, as in            *)
(* EventProcessor.  An xG value is represented by the offset of its shot,  *)
(* a total by the sequence of the shots added up.                          *)
(***************************************************************************)
EXTENDS Integers, Sequences, FiniteSets, Functions, FiniteSetsExt

CONSTANTS
    Predictors,      \* replicas of the ml-predictor
    NoOwner,         \* the partition is assigned to no replica
    Matches,         \* values of match_id
    Messages,        \* what the event-processor publishes
    ConnectAttempts, \* how often the thread tries to connect (30 in the code)
    MaxTopic,        \* bound: messages published
    MaxFaults        \* bound: how often each kind of fault happens

\* "timeout": the group gives a replica up although it is alive.
FaultKinds == {"connect", "redis", "rebalance", "timeout", "crash"}

\* The message's last event: a shot or goal of either side, or anything else.
Kinds   == {"homeShot", "awayShot", "other"}
Message == [match : Matches, kind : Kinds]

ASSUME ReplicasAssumption == NoOwner \notin Predictors
ASSUME MessagesAssumption == Messages \subseteq Message
ASSUME BoundsAssumption   == /\ ConnectAttempts \in Nat \ {0}
                             /\ MaxTopic \in Nat
                             /\ MaxFaults \in [FaultKinds -> Nat]

VARIABLES
    \* Kafka
    topic,      \* match-stats
    committed,  \* the group's committed offset, -1 if there is none
    owner,      \* the replica the partition is assigned to
    \* Redis
    stored,     \* match:<id>:predictions
    \* each replica
    pc,         \* where its consumer thread is
    connects,   \* failed attempts to connect, 0 once connected
    pos,        \* position: offset of the last record handed out
    batchEnd,   \* offset of the last record fetched
    totals,     \* home_xg and away_xg of the prediction being built, if any
    \* history, for the properties
    handled,    \* offsets handled to the end
    times,      \* how often each offset was handled
    skipped,    \* offsets a group without a committed offset started behind
    faults      \* faults that may still happen

kafkaVars   == <<topic, committed, owner>>
threadVars  == <<pc, connects, pos, batchEnd, totals>>
historyVars == <<handled, times, skipped>>
vars == <<kafkaVars, stored, threadVars, historyVars, faults>>

NoTotals     == [home |-> <<>>, away |-> <<>>]
NoPrediction == [offset |-> 0, xg |-> NoTotals]

Init ==
    /\ topic = <<>> /\ committed = -1 /\ owner = NoOwner
    /\ stored = [m \in Matches |-> NoPrediction]
    /\ pc = [c \in Predictors |-> "down"]
    /\ connects = [c \in Predictors |-> 0]
    /\ pos = [c \in Predictors |-> 0]
    /\ batchEnd = [c \in Predictors |-> 0]
    /\ totals = [c \in Predictors |-> NoTotals]
    /\ handled = {} /\ skipped = {}
    /\ times = [o \in 1 .. MaxTopic |-> 0]
    /\ faults = MaxFaults

Goto(c, label) == pc' = [pc EXCEPT ![c] = label]

Spend(k) == /\ faults[k] > 0
            /\ faults' = [faults EXCEPT ![k] = @ - 1]

Spent(k) == MaxFaults[k] - faults[k]

\* The message in hand.
Msg(c) == topic[pos[c]]

BetweenBatches(c) == pc[c] = "iterate" /\ pos[c] = batchEnd[c]

-----------------------------------------------------------------------------
(* The event-processor *)

Publish(msg) ==
    /\ Len(topic) < MaxTopic
    /\ topic' = Append(topic, msg)
    /\ UNCHANGED <<committed, owner, stored, threadVars, historyVars, faults>>

-----------------------------------------------------------------------------
(* Life of the consumer thread *)

\* lifespan starts the thread.
Start(c) ==
    /\ pc[c] = "down"
    /\ Goto(c, "connect")
    /\ UNCHANGED <<kafkaVars, stored, connects, pos, batchEnd, totals,
                   historyVars, faults>>

GiveUpOneEarly(n) == n + 1 >= ConnectAttempts - 1
LastConnect(n) == n + 1 >= ConnectAttempts

\* The constructor of KafkaConsumer; after the last failed attempt the thread
\* returns and nothing starts it again.
Connect(c) ==
    /\ pc[c] = "connect"
    /\ \/ /\ Goto(c, "iterate")
          /\ connects' = [connects EXCEPT ![c] = 0]
          /\ UNCHANGED faults
       \/ /\ Spend("connect")
          /\ connects' = [connects EXCEPT ![c] = @ + 1]
          /\ IF LastConnect(connects[c]) THEN Goto(c, "gaveUp") ELSE UNCHANGED pc
    /\ UNCHANGED <<kafkaVars, stored, pos, batchEnd, totals, historyVars>>

\* The process ends, on a failure or on a SIGTERM: the thread is a daemon and
\* nothing closes its consumer, so that even a container replaced in a rolling
\* update goes without a last commit.  The group forgets it.
Crash(c) ==
    /\ pc[c] # "down"
    /\ Spend("crash")
    /\ Goto(c, "down")
    /\ connects' = [connects EXCEPT ![c] = 0]
    /\ pos' = [pos EXCEPT ![c] = 0]
    /\ batchEnd' = [batchEnd EXCEPT ![c] = 0]
    /\ totals' = [totals EXCEPT ![c] = NoTotals]
    /\ owner' = IF owner = c THEN NoOwner ELSE owner
    /\ UNCHANGED <<topic, committed, stored, historyVars>>

-----------------------------------------------------------------------------
(* The consumer group, as KafkaConsumer uses it *)

\* Where an assignment starts: at the committed offset, or without one at the
\* end of the topic (auto_offset_reset="latest").
StartOffset == IF committed = -1 THEN Len(topic) ELSE committed

Join(c) ==
    /\ owner = NoOwner
    /\ BetweenBatches(c)
    /\ owner' = c
    /\ pos' = [pos EXCEPT ![c] = StartOffset]
    /\ batchEnd' = [batchEnd EXCEPT ![c] = StartOffset]
    /\ skipped' = IF committed = -1 THEN skipped \cup (1 .. Len(topic)) ELSE skipped
    /\ UNCHANGED <<topic, committed, stored, pc, connects, totals, handled,
                   times, faults>>

\* When the client may commit: only from the thread that iterates.
InBackground(c) == pc[c] # "down"
MayCommit(c) == BetweenBatches(c)

\* The automatic commit, on its interval.
AutoCommit(c) ==
    /\ owner = c
    /\ MayCommit(c)
    /\ committed' = pos[c]
    /\ UNCHANGED <<topic, owner, stored, threadVars, historyVars, faults>>

\* What the client commits before it gives the partition back.
CommitNext(c) == pos[c] + 1
CommitNothing(c) == committed
LastCommit(c) == pos[c]

\* A rebalance because another replica joined, or is gone: the owner, which is
\* alive, commits before it gives the partition back.
HandOver(c) ==
    /\ owner = c
    /\ BetweenBatches(c)
    /\ Spend("rebalance")
    /\ committed' = LastCommit(c)
    /\ owner' = NoOwner
    /\ UNCHANGED <<topic, stored, threadVars, historyVars>>

\* The replica keeps the rest of its batch and does not know.
SessionTimeout(c) ==
    /\ owner = c
    /\ Spend("timeout")
    /\ owner' = NoOwner
    /\ UNCHANGED <<topic, committed, stored, threadVars, historyVars>>

\* Poll fetches a batch.
Poll(c) ==
    /\ owner = c
    /\ BetweenBatches(c)
    /\ \E n \in pos[c] + 1 .. Len(topic) : batchEnd' = [batchEnd EXCEPT ![c] = n]
    /\ UNCHANGED <<kafkaVars, stored, pc, connects, pos, totals, historyVars,
                   faults>>

-----------------------------------------------------------------------------
(* One message *)

\* The iterator moves its position and hands the record out.
NextRecord(c) ==
    /\ pc[c] = "iterate"
    /\ pos[c] < batchEnd[c]
    /\ pos' = [pos EXCEPT ![c] = @ + 1]
    /\ Goto(c, IF topic[pos[c] + 1].kind = "other" THEN "store" ELSE "xg")
    /\ UNCHANGED <<kafkaVars, stored, connects, batchEnd, totals, historyVars,
                   faults>>

\* The totals of the stored prediction and this shot.
Accumulated(c) ==
    LET before == stored[Msg(c).match].xg
    IN  IF Msg(c).kind = "homeShot"
        THEN [before EXCEPT !.home = Append(@, pos[c])]
        ELSE [before EXCEPT !.away = Append(@, pos[c])]

\* predict_xg and the GET; on an error (a missing model has the same effect) the prediction carries no totals.
PredictXg(c) ==
    /\ pc[c] = "xg"
    /\ \/ totals' = [totals EXCEPT ![c] = Accumulated(c)] /\ UNCHANGED faults
       \/ UNCHANGED totals /\ Spend("redis")
    /\ Goto(c, "store")
    /\ UNCHANGED <<kafkaVars, stored, connects, pos, batchEnd, historyVars>>

\* The prediction replaces the stored one, whatever it contains.
StoreShotsOnly(c) ==
    IF Msg(c).kind = "other" THEN stored
    ELSE [stored EXCEPT ![Msg(c).match] = [offset |-> pos[c], xg |-> totals[c]]]
Prediction(c) ==
    [stored EXCEPT ![Msg(c).match] = [offset |-> pos[c], xg |-> totals[c]]]

\* The SET, which may fail before or after it took effect; the loop goes on.
Store(c) ==
    /\ pc[c] = "store"
    /\ \/ stored' = Prediction(c) /\ UNCHANGED faults
       \/ stored' \in {stored, Prediction(c)} /\ Spend("redis")
    /\ handled' = handled \cup {pos[c]}
    /\ times' = [times EXCEPT ![pos[c]] = @ + 1]
    /\ totals' = [totals EXCEPT ![c] = NoTotals]
    /\ Goto(c, "iterate")
    /\ UNCHANGED <<kafkaVars, connects, pos, batchEnd, skipped>>

-----------------------------------------------------------------------------

Step(c) == Connect(c) \/ Poll(c) \/ NextRecord(c) \/ PredictXg(c) \/ Store(c)

Next ==
    \/ \E msg \in Messages : Publish(msg)
    \/ \E c \in Predictors : \/ Start(c) \/ Step(c) \/ Join(c) \/ AutoCommit(c)
                             \/ HandOver(c) \/ SessionTimeout(c) \/ Crash(c)

Spec == Init /\ [][Next]_vars

\* A stopped container is restarted, the thread runs, the coordinator assigns
\* a partition nobody owns.  Nothing forces a commit, a message or a fault.
FairSpec == /\ Spec
            /\ \A c \in Predictors : /\ WF_vars(Start(c)) /\ WF_vars(Step(c))
                                     /\ WF_vars(Join(c))

-----------------------------------------------------------------------------
(* Properties *)

Offsets == 0 .. Len(topic)
Xg      == [home : Seq(Offsets), away : Seq(Offsets)]

\* Every variable has its type.
TypeOK ==
    /\ topic \in Seq(Message)
    /\ committed \in Offsets \cup {-1}
    /\ owner \in Predictors \cup {NoOwner}
    /\ stored \in [Matches -> [offset : Offsets, xg : Xg]]
    /\ pc \in [Predictors -> {"down", "connect", "gaveUp", "iterate", "xg", "store"}]
    /\ connects \in [Predictors -> 0 .. ConnectAttempts]
    /\ pos \in [Predictors -> Offsets]
    /\ batchEnd \in [Predictors -> Offsets]
    /\ \A c \in Predictors : pos[c] <= batchEnd[c]
    /\ totals \in [Predictors -> Xg]
    /\ handled \cup skipped \subseteq Offsets
    /\ times \in [1 .. MaxTopic -> Nat]
    /\ faults \in [FaultKinds -> Nat]

\* Automatic commits lose nothing: whatever is committed was handled to the
\* end, or published before the group first committed an offset.
CommittedIsHandled == 1 .. committed \subseteq handled \cup skipped

\* Replicas that ended or lost their session.
Stops == Spent("crash") + Spent("timeout")

\* What at-least-once costs: a message is handled once, and once more at most
\* for each replica that ended (a rolling update ends every one of them) or
\* lost its session, whose shots are then added to the totals again.  Replicas
\* that join repeat nothing, however often the partition moves.
RepeatsBounded == \A o \in 1 .. MaxTopic : times[o] <= 1 + Stops

\* Nobody has a record in hand or in a batch, and nothing is left to read.
Settled ==
    /\ \A c \in Predictors : pc[c] = "down" \/ pc[c] = "connect" \/ BetweenBatches(c)
    /\ \E c \in Predictors : owner = c /\ pos[c] = Len(topic)

\* Once everything is handled, a reader of the query-api gets the prediction of
\* the last message handled for the match, restarts and redeliveries
\* notwithstanding; a failed Redis call and a replica that lost its session without
\* knowing are the exceptions.
SettledIsNewest ==
    Settled /\ Spent("redis") + Spent("timeout") = 0 =>
        \A m \in Matches :
            LET seen == {o \in handled : topic[o].match = m}
            IN  seen # {} => stored[m].offset = Max(seen)

\* The running total of a match contains every shot handled (docs/ml-pipeline.md,
\* "accumulate a running home/away xG total in Redis").
RunningTotalComplete ==
    \A o \in handled :
        topic[o].kind # "other" =>
            LET xg == stored[topic[o].match].xg
            IN  o \in Range(xg.home) \cup Range(xg.away)

\* The thread does not starve: every message is handled, unless it was
\* published before the group first committed, or every replica used up its
\* attempts to connect (after which its health check still answers "ok").
EventuallyHandled ==
    \A o \in 1 .. MaxTopic : 
        Len(topic) >= o ~> \/ o \in handled \cup skipped
                           \/ \A c \in Predictors : connects[c] = ConnectAttempts
=============================================================================
