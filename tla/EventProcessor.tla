--------------------------- MODULE EventProcessor ---------------------------
(***************************************************************************)
(* services/event-processor: the consumer of the match-events topic.  It   *)
(* folds each event into the statistics of its match, deduplicates         *)
(* redeliveries through a reservation in Redis, persists a snapshot to     *)
(* Redis and publishes it to match-stats, and only then asks Kafka to      *)
(* commit the offset.                                                      *)
(*                                                                         *)
(* One process per replica (Deployment replicas: 1, but a rolling update   *)
(* runs the old and the new pod side by side).  The topic has one          *)
(* partition.  A match's statistics are represented by the history of the  *)
(* events folded into them (the Events field); module MatchStats shows     *)
(* what the counters are as a function of that history.                    *)
(*                                                                         *)
(* Offsets are 1-based: `committed` is the number of messages committed,   *)
(* the offset of the last one.                                             *)
(***************************************************************************)
EXTENDS Integers, Sequences, SequencesExt

CONSTANTS
    Consumers,   \* replicas of the event-processor
    NoOwner,     \* the partition is assigned to no replica
    EventIds,    \* values of MatchEvent.EventID
    NoId,        \* the empty EventID
    Matches,     \* values of MatchEvent.MatchID
    Malformed,   \* a payload json.Unmarshal rejects
    Messages,    \* what producers put on the topic
    MaxTopic,    \* bound: messages produced
    MaxFaults    \* bound: how often each kind of fault happens

FaultKinds == {"redis", "restore", "retry", "publish", "crash", "expire",
               "rebalance"}

Event == [id : EventIds \cup {NoId}, match : Matches]

\* maxDLQAttempts
maxDLQAttempts == 3

ASSUME ConsumersAssumption == NoOwner \notin Consumers
ASSUME IdsAssumption       == NoId \notin EventIds
ASSUME MessagesAssumption  == /\ Malformed \notin Event
                              /\ Messages \subseteq Event \cup {Malformed}
ASSUME BoundsAssumption    == /\ MaxTopic \in Nat
                              /\ MaxFaults \in [FaultKinds -> Nat]

VARIABLES
    \* Kafka
    topic,       \* match-events: every message ever produced, in offset order
    committed,   \* the group's committed offset
    owner,       \* the replica the partition is assigned to
    \* Redis
    dedupe,      \* event:<id>:dedupe
    stats,       \* match:<id>:stats  (<<>> when the key does not exist)
    latest,      \* match:<id>:latest (<<>> when the key does not exist)
    active,      \* the set matches:active
    \* what the replicas sent to Kafka
    published,   \* match-stats: the snapshots, oldest first
    deadLetters, \* match-events-dlq: the records stored
    dropped,     \* offsets whose record routeToDLQ gave up on, or the broker
                 \* lost without having been asked to acknowledge it
    \* each replica
    pc,          \* where its consumer goroutine is
    toLoad,      \* active matches it has still to restore
    mem,         \* the stats map
    pos,         \* the reader's position
    cur,         \* offset of the message in hand
    attempt,     \* routeToDLQ's attempt
    commitReq,   \* the reader's offset stash, 0 when empty
    \* history, for the properties
    failedOpen,  \* ids processed although the reservation call failed
    expired,     \* ids whose dedupe key reached its TTL
    abandoned,   \* ids that died with a replica, or whose claim nobody got
    faults       \* faults that may still happen

kafkaVars   == <<topic, committed, owner>>
redisVars   == <<dedupe, stats, latest, active>>
outVars     == <<published, deadLetters, dropped>>
readerVars  == <<pos, cur, commitReq>>
historyVars == <<failedOpen, expired, abandoned>>
vars == <<kafkaVars, redisVars, outVars, readerVars, pc, toLoad, mem, attempt,
          historyVars, faults>>

Empty == [m \in Matches |-> <<>>]

Init ==
    /\ topic = <<>> /\ committed = 0 /\ owner = NoOwner
    /\ dedupe = [e \in EventIds |-> "none"]
    /\ stats = Empty /\ latest = Empty /\ active = {}
    /\ published = <<>> /\ deadLetters = {} /\ dropped = {}
    /\ pc = [c \in Consumers |-> "down"]
    /\ toLoad = [c \in Consumers |-> {}]
    /\ mem = [c \in Consumers |-> Empty]
    /\ pos = [c \in Consumers |-> 0]
    /\ cur = [c \in Consumers |-> 0]
    /\ attempt = [c \in Consumers |-> 0]
    /\ commitReq = [c \in Consumers |-> 0]
    /\ failedOpen = {} /\ expired = {} /\ abandoned = {}
    /\ faults = MaxFaults

-----------------------------------------------------------------------------
(* Shorthands *)

Goto(c, label) == pc' = [pc EXCEPT ![c] = label]

\* A fault of kind k happens, if the bound still allows one.
Spend(k) == /\ faults[k] > 0
            /\ faults' = [faults EXCEPT ![k] = @ - 1]

Msg(c) == topic[cur[c]]

Running(c) == pc[c] \notin {"down", "load"}

\* The order of the persistence steps that follow the update of the
\* aggregate; each one's failure is logged and the next is tried.
PublishFirst(step) ==
    CASE step = "applied"   -> "setStats"
      [] step = "setStats"  -> "setLatest"
      [] step = "setLatest" -> "publish"
      [] step = "publish"   -> "addActive"
      [] step = "addActive" -> "commit"

ActiveFirst(step) ==
    CASE step = "applied"   -> "addActive"
      [] step = "addActive" -> "setStats"
      [] step = "setStats"  -> "setLatest"
      [] step = "setLatest" -> "publish"
      [] step = "publish"   -> "commit"

PersistOrder(step) ==
    CASE step = "applied"   -> "setStats"
      [] step = "setStats"  -> "setLatest"
      [] step = "setLatest" -> "addActive"
      [] step = "addActive" -> "publish"
      [] step = "publish"   -> "commit"

Holds(history, id) == \E i \in DOMAIN history : history[i].id = id

-----------------------------------------------------------------------------
(* Producers: the event-api, one append per accepted request.  A client    *)
(* that retries produces the same event twice.                             *)

Produce(msg) ==
    /\ Len(topic) < MaxTopic
    /\ topic' = Append(topic, msg)
    /\ UNCHANGED <<committed, owner, redisVars, outVars, readerVars, pc,
                   toLoad, mem, attempt, historyVars, faults>>

-----------------------------------------------------------------------------
(* Start-up: main and loadActiveMatchesFromRedis, before the reader exists *)

\* Ping and SMembers succeed; or one fails and nothing is restored.
Start(c) ==
    /\ pc[c] = "down"
    /\ Goto(c, "load")
    /\ \/ toLoad' = [toLoad EXCEPT ![c] = active] /\ UNCHANGED faults
       \/ toLoad' = [toLoad EXCEPT ![c] = {}] /\ Spend("restore")
    /\ UNCHANGED <<kafkaVars, redisVars, outVars, readerVars, mem, attempt,
                   historyVars>>

RestoredEmpty(m) == <<>>

\* The aggregate a match resumes from.
Restored(m) == stats[m]

\* GET match:<id>:stats; on an error the match is skipped.
LoadMatch(c) ==
    /\ pc[c] = "load"
    /\ \E m \in toLoad[c] :
         /\ toLoad' = [toLoad EXCEPT ![c] = @ \ {m}]
         /\ \/ mem' = [mem EXCEPT ![c][m] = Restored(m)] /\ UNCHANGED faults
            \/ UNCHANGED mem /\ Spend("restore")
    /\ UNCHANGED <<kafkaVars, redisVars, outVars, readerVars, pc, attempt,
                   historyVars>>

\* kafka.NewReader and the consumer goroutine.
StartReading(c) ==
    /\ pc[c] = "load"
    /\ toLoad[c] = {}
    /\ Goto(c, "fetch")
    /\ UNCHANGED <<kafkaVars, redisVars, outVars, readerVars, toLoad, mem,
                   attempt, historyVars, faults>>

-----------------------------------------------------------------------------
(* The consumer group, as kafka.Reader uses it.  A new generation starts   *)
(* at the committed offset and the stash of requested commits does not     *)
(* survive it; a message already in hand stays in hand.                    *)

NewGeneration(c) ==
    /\ owner' = c
    /\ pos' = [pos EXCEPT ![c] = committed]
    /\ commitReq' = [d \in Consumers |-> 0]
    /\ UNCHANGED <<topic, committed, redisVars, outVars, cur, pc, toLoad, mem,
                   attempt, historyVars>>

Join(c) ==
    /\ Running(c)
    /\ owner = NoOwner
    /\ NewGeneration(c)
    /\ UNCHANGED faults

\* The coordinator reassigns the partition, to another replica or (a missed
\* heartbeat) to the same one, whatever the consumer goroutine is doing.
Rebalance(c) ==
    /\ Running(c)
    /\ owner # NoOwner
    /\ Spend("rebalance")
    /\ NewGeneration(c)

\* The reader's commit loop (CommitInterval) sends the stashed offset.  The
\* broker takes what it is sent, a lower offset than the current one included.
FlushCommit(c) ==
    /\ commitReq[c] > 0
    /\ committed' = commitReq[c]
    /\ commitReq' = [commitReq EXCEPT ![c] = 0]
    /\ UNCHANGED <<topic, owner, redisVars, outVars, pos, cur, pc, toLoad, mem,
                   attempt, historyVars, faults>>

-----------------------------------------------------------------------------
(* One message: FetchMessage, handleMessage, CommitMessages *)

DispatchUnchecked(msg) == IF msg = Malformed THEN "dlq" ELSE "apply"

\* Which branch of handleMessage and reserveForProcessing a message takes.
Dispatch(msg) ==
    IF msg = Malformed THEN "dlq"
    ELSE IF msg.id = NoId THEN "apply" ELSE "reserve"

FetchWith(c, stash) ==
    /\ pc[c] = "fetch"
    /\ owner = c
    /\ pos[c] < Len(topic)
    /\ cur' = [cur EXCEPT ![c] = pos[c] + 1]
    /\ pos' = [pos EXCEPT ![c] = pos[c] + 1]
    /\ attempt' = [attempt EXCEPT ![c] = 1]
    /\ commitReq' = stash
    /\ Goto(c, Dispatch(topic[pos[c] + 1]))
    /\ UNCHANGED <<kafkaVars, redisVars, outVars, toLoad, mem, historyVars,
                   faults>>

\* ReadMessage, which commits what it returns.
ReadMessage(c) == FetchWith(c, [commitReq EXCEPT ![c] = pos[c] + 1])

FetchMessage(c) == FetchWith(c, commitReq)

\* The value SETNX stores.
ClaimProcessed == "processed"
Claim == "processing"

SetNX(id) == IF dedupe[id] = "none" THEN [dedupe EXCEPT ![id] = Claim]
                                    ELSE dedupe

\* common.ReservationState
ReservationState == {"acquired", "already_processed", "in_flight"}

\* The state ReserveEvent reports for the value it found; a key that expired
\* since the SETNX counts as in flight.
ReservationOf(found) ==
    IF found = "processed" THEN "already_processed" ELSE "in_flight"

\* What reserveForProcessing makes of the state: only an acquired event is
\* processed.
TakeOver(state) == IF state = "already_processed" THEN "commit" ELSE "apply"
WaitForHolder(state) ==
    IF state = "in_flight" THEN "reserve"
    ELSE IF state = "acquired" THEN "apply" ELSE "commit"
OnReservation(state) == IF state = "acquired" THEN "apply" ELSE "commit"

\* Fail-open: the error is logged and the event is processed.
FailClosed == "commit"
OnReserveError == "apply"

FailOpen(c) ==
    /\ failedOpen' = failedOpen \cup {Msg(c).id}
    /\ Goto(c, OnReserveError)

\* ReserveEvent, the SETNX.  The call may fail before or after it took
\* effect.  The client library retries a call whose answer was lost: the
\* retry of a SETNX that had succeeded finds the key it set.
Reserve(c) ==
    /\ pc[c] = "reserve"
    /\ LET id == Msg(c).id IN
         \/ /\ dedupe[id] = "none"
            /\ dedupe' = SetNX(id)
            /\ Goto(c, OnReservation("acquired"))
            /\ UNCHANGED <<failedOpen, abandoned, faults>>
         \/ /\ dedupe[id] # "none"
            /\ Goto(c, "inspect")
            /\ UNCHANGED <<dedupe, failedOpen, abandoned, faults>>
         \/ /\ Spend("redis")
            /\ dedupe' \in {dedupe, SetNX(id)}
            /\ FailOpen(c)
            /\ UNCHANGED abandoned
         \/ /\ Spend("retry")
            /\ dedupe[id] = "none"
            /\ dedupe' = SetNX(id)
            /\ Goto(c, "inspect")
            /\ abandoned' = abandoned \cup {id}
            /\ UNCHANGED failedOpen
    /\ UNCHANGED <<kafkaVars, stats, latest, active, outVars, readerVars,
                   toLoad, mem, attempt, expired>>

\* ReserveEvent, the GET.
Inspect(c) ==
    /\ pc[c] = "inspect"
    /\ \/ /\ Goto(c, OnReservation(ReservationOf(dedupe[Msg(c).id])))
          /\ UNCHANGED <<failedOpen, faults>>
       \/ Spend("redis") /\ FailOpen(c)
    /\ UNCHANGED <<kafkaVars, redisVars, outVars, readerVars, toLoad, mem,
                   attempt, expired, abandoned>>

\* applyEvent under statsMu; an event without an id has nothing to mark.
Apply(c) ==
    /\ pc[c] = "apply"
    /\ mem' = [mem EXCEPT ![c][Msg(c).match] = Append(@, Msg(c))]
    /\ Goto(c, IF Msg(c).id = NoId THEN PersistOrder("applied") ELSE "mark")
    /\ UNCHANGED <<kafkaVars, redisVars, outVars, readerVars, toLoad, attempt,
                   historyVars, faults>>

\* A Redis write that either succeeds or fails, before or after it took
\* effect; the caller goes on in every case.
RedisWrite(var, newValue) ==
    \/ var' = newValue /\ UNCHANGED faults
    \/ var' \in {var, newValue} /\ Spend("redis")

\* markProcessed
Mark(c) ==
    /\ pc[c] = "mark"
    /\ RedisWrite(dedupe, [dedupe EXCEPT ![Msg(c).id] = "processed"])
    /\ Goto(c, PersistOrder("applied"))
    /\ UNCHANGED <<kafkaVars, stats, latest, active, outVars, readerVars,
                   toLoad, mem, attempt, historyVars>>

\* The snapshot of processEvent.  The goroutine is the only writer of the
\* stats map, so until it takes the next message the map still holds it.
Snapshot(c) == mem[c][Msg(c).match]

SetStats(c) ==
    /\ pc[c] = "setStats"
    /\ RedisWrite(stats, [stats EXCEPT ![Msg(c).match] = Snapshot(c)])
    /\ Goto(c, PersistOrder("setStats"))
    /\ UNCHANGED <<kafkaVars, dedupe, latest, active, outVars, readerVars,
                   toLoad, mem, attempt, historyVars>>

SetLatest(c) ==
    /\ pc[c] = "setLatest"
    /\ RedisWrite(latest, [latest EXCEPT ![Msg(c).match] = Snapshot(c)])
    /\ Goto(c, PersistOrder("setLatest"))
    /\ UNCHANGED <<kafkaVars, dedupe, stats, active, outVars, readerVars,
                   toLoad, mem, attempt, historyVars>>

AddActiveMatch(c) ==
    /\ pc[c] = "addActive"
    /\ RedisWrite(active, active \cup {Msg(c).match})
    /\ Goto(c, PersistOrder("addActive"))
    /\ UNCHANGED <<kafkaVars, dedupe, stats, latest, outVars, readerVars,
                   toLoad, mem, attempt, historyVars>>

\* A write to Kafka may fail before or after the broker stored the record.
Publish(c) ==
    /\ pc[c] = "publish"
    /\ LET sent == Append(published, [match |-> Msg(c).match,
                                      events |-> Snapshot(c)])
       IN  \/ published' = sent /\ UNCHANGED faults
           \/ published' \in {published, sent} /\ Spend("publish")
    /\ Goto(c, PersistOrder("publish"))
    /\ UNCHANGED <<kafkaVars, redisVars, deadLetters, dropped, readerVars,
                   toLoad, mem, attempt, historyVars>>

\* Which message a record is about and the attempt that stored it.
DLQRecord(c) == [offset |-> cur[c], attempts |-> attempt[c]]

\* What routeToDLQ does after a failed attempt.
GiveUpAt(c) == attempt[c] >= maxDLQAttempts

\* routeToDLQ, one attempt: the record is stored; or the writer reports no
\* error for a record the broker loses; or it reports an error, before or
\* after the record was stored.
RouteToDLQ(c) ==
    /\ pc[c] = "dlq"
    /\ LET sent == deadLetters \cup {DLQRecord(c)} IN
         \/ /\ deadLetters' = sent
            /\ Goto(c, "commit")
            /\ UNCHANGED <<dropped, attempt, faults>>
         \/ /\ Spend("publish")
            /\ dropped' = dropped \cup {cur[c]}
            /\ Goto(c, "commit")
            /\ UNCHANGED <<deadLetters, attempt>>
         \/ /\ Spend("publish")
            /\ ~GiveUpAt(c)
            /\ deadLetters' \in {deadLetters, sent}
            /\ attempt' = [attempt EXCEPT ![c] = @ + 1]
            /\ UNCHANGED <<dropped, pc>>
         \/ /\ Spend("publish")
            /\ GiveUpAt(c)
            /\ deadLetters' \in {deadLetters, sent}
            /\ dropped' = dropped \cup {cur[c]}
            /\ Goto(c, "commit")
            /\ UNCHANGED attempt
    /\ UNCHANGED <<kafkaVars, redisVars, published, readerVars, toLoad, mem,
                   historyVars>>

\* CommitMessages hands the offset to the commit loop, which keeps the
\* highest one.
CommitOffsetPlusOne(c) == cur[c] + 1
CommitOffset(c) == cur[c]

CommitMessages(c) ==
    /\ pc[c] = "commit"
    /\ commitReq' = [commitReq EXCEPT
                       ![c] = IF @ > CommitOffset(c) THEN @ ELSE CommitOffset(c)]
    /\ Goto(c, "fetch")
    /\ UNCHANGED <<kafkaVars, redisVars, outVars, pos, cur, toLoad, mem,
                   attempt, historyVars, faults>>

-----------------------------------------------------------------------------
(* The environment *)

\* Events nobody finds again when the replica dies: the one it has claimed
\* and not applied, and those its memory holds and no snapshot that a restart
\* would restore.
DiesWith(c) ==
    {id \in EventIds \cup {NoId} :
        \/ pc[c] = "apply" /\ Msg(c).id = id
        \/ \E m \in Matches : /\ Holds(mem[c][m], id)
                              /\ ~(m \in active /\ Holds(stats[m], id))}

\* The process dies or is killed (main returns on SIGTERM without waiting
\* for the goroutine); the group forgets it.
Crash(c) ==
    /\ pc[c] # "down"
    /\ Spend("crash")
    /\ abandoned' = abandoned \cup DiesWith(c)
    /\ Goto(c, "down")
    /\ toLoad' = [toLoad EXCEPT ![c] = {}]
    /\ mem' = [mem EXCEPT ![c] = Empty]
    /\ pos' = [pos EXCEPT ![c] = 0]
    /\ cur' = [cur EXCEPT ![c] = 0]
    /\ attempt' = [attempt EXCEPT ![c] = 0]
    /\ commitReq' = [commitReq EXCEPT ![c] = 0]
    /\ owner' = IF owner = c THEN NoOwner ELSE owner
    /\ UNCHANGED <<topic, committed, redisVars, outVars, failedOpen, expired>>

\* A dedupe key reaches dedupeTTL.
Expire(id) ==
    /\ dedupe[id] # "none"
    /\ Spend("expire")
    /\ dedupe' = [dedupe EXCEPT ![id] = "none"]
    /\ expired' = expired \cup {id}
    /\ UNCHANGED <<kafkaVars, stats, latest, active, outVars, readerVars, pc,
                   toLoad, mem, attempt, failedOpen, abandoned>>

-----------------------------------------------------------------------------

\* The goroutine of main, one step.
Step(c) ==
    \/ LoadMatch(c) \/ StartReading(c)
    \/ FetchMessage(c) \/ Reserve(c) \/ Inspect(c)
    \/ Apply(c) \/ Mark(c) \/ SetStats(c) \/ SetLatest(c) \/ AddActiveMatch(c)
    \/ Publish(c) \/ RouteToDLQ(c) \/ CommitMessages(c)

Next ==
    \/ \E msg \in Messages : Produce(msg)
    \/ \E c \in Consumers : \/ Start(c) \/ Step(c)
                            \/ Join(c) \/ Rebalance(c) \/ FlushCommit(c)
                            \/ Crash(c)
    \/ \E id \in EventIds : Expire(id)

Spec == Init /\ [][Next]_vars

\* Kubernetes restarts a container that stopped, the coordinator assigns a
\* partition nobody owns, the commit loop ticks, and the goroutine runs.
\* Nothing forces a producer, a fault or an expiry.
Fairness ==
    \A c \in Consumers : /\ WF_vars(Start(c)) /\ WF_vars(Step(c))
                         /\ WF_vars(Join(c)) /\ WF_vars(FlushCommit(c))

FairSpec == Spec /\ Fairness

-----------------------------------------------------------------------------
(* Properties *)

InHand == {"reserve", "inspect", "apply", "mark", "setStats", "setLatest",
           "addActive", "publish", "dlq", "commit"}

Labels == {"down", "load", "fetch"} \cup InHand

Offsets == 0 .. Len(topic)

KafkaOK ==
    /\ topic \in Seq(Event \cup {Malformed})
    /\ committed \in Offsets
    /\ owner \in Consumers \cup {NoOwner}

RedisOK ==
    /\ dedupe \in [EventIds -> {"none", "processing", "processed"}]
    /\ stats \in [Matches -> Seq(Event)]
    /\ latest \in [Matches -> Seq(Event)]
    /\ active \subseteq Matches

OutOK ==
    /\ published \in Seq([match : Matches, events : Seq(Event)])
    /\ deadLetters \subseteq [offset : Offsets, attempts : 0 .. maxDLQAttempts]
    /\ dropped \subseteq Offsets

ReaderOK ==
    /\ pos \in [Consumers -> Offsets]
    /\ cur \in [Consumers -> Offsets]
    /\ commitReq \in [Consumers -> Offsets]

ReplicaOK ==
    /\ pc \in [Consumers -> Labels]
    /\ toLoad \in [Consumers -> SUBSET Matches]
    /\ mem \in [Consumers -> [Matches -> Seq(Event)]]
    /\ attempt \in [Consumers -> 0 .. maxDLQAttempts]

HistoryOK ==
    /\ failedOpen \subseteq EventIds
    /\ expired \subseteq EventIds
    /\ abandoned \subseteq EventIds \cup {NoId}
    /\ faults \in [FaultKinds -> Nat]

\* Every variable has its type, and no offset that a replica reads, holds or
\* asks to commit lies beyond the end of the topic.
TypeOK == KafkaOK /\ RedisOK /\ OutOK /\ ReaderOK /\ ReplicaOK /\ HistoryOK

OnceIn(history, id) ==
    \A i, j \in DOMAIN history :
        history[i].id = id /\ history[j].id = id => i = j

\* The two ways deduplication is documented to let an event through twice.
Excused == failedOpen \cup expired

\* Every copy of a match's history there is: the snapshots in Redis, the map
\* of each replica, the snapshots published.
Copies == {stats[m] : m \in Matches} \cup {latest[m] : m \in Matches}
          \cup {mem[c][m] : c \in Consumers, m \in Matches}
          \cup {published[i].events : i \in DOMAIN published}

\* No event is counted twice, in the memory of any replica, in either Redis
\* snapshot or in any snapshot published: not across redeliveries, duplicate
\* publications, rebalances, restarts or two replicas running side by side.
\* Exempt are events whose reservation call failed (fail-open) and events
\* whose dedupe key expired.
CountedOnce ==
    \A id \in EventIds \ Excused : \A h \in Copies : OnceIn(h, id)

\* What replicas hold in hand has passed the earlier branches: it parsed or
\* is on its way to the DLQ, and it has an id where the code relies on one.
HandOK ==
    \A c \in Consumers :
        /\ pc[c] \in InHand => cur[c] > 0
        /\ pc[c] \in {"apply", "setStats", "setLatest", "addActive", "publish"}
             => Msg(c) \in Event
        /\ pc[c] \in {"reserve", "inspect", "mark"}
             => Msg(c) \in Event /\ Msg(c).id \in EventIds
        /\ pc[c] = "dlq" => Msg(c) = Malformed

\* No event is in any copy without a dedupe key that stops a redelivery.
HeldIsClaimed ==
    \A id \in EventIds \ Excused :
        (\E h \in Copies : Holds(h, id)) => dedupe[id] # "none"

Applies(c, id) == pc[c] = "apply" /\ Msg(c).id = id

\* The reservation is a lock: the replica about to apply an event is the only
\* one, holds the key, and nobody has applied the event before.
ClaimIsExclusive ==
    \A c \in Consumers : \A id \in EventIds \ Excused :
        Applies(c, id) =>
            /\ dedupe[id] # "none"
            /\ \A h \in Copies : ~Holds(h, id)
            /\ \A d \in Consumers : Applies(d, id) => d = c

\* CountedOnce, strengthened to be inductive.
DedupeInv == HandOK /\ CountedOnce /\ HeldIsClaimed /\ ClaimIsExclusive

\* The event is in the aggregate a replica holds or in the one in Redis.
Aggregated(ev) ==
    \/ Holds(stats[ev.match], ev.id)
    \/ \E c \in Consumers : Holds(mem[c][ev.match], ev.id)

CommittedEvents ==
    {topic[o] : o \in {p \in 1 .. committed : /\ topic[p] # Malformed
                                              /\ topic[p].id # NoId}}

\* Fail-open loses nothing: once an event's offset is committed, the event
\* is in the aggregate, whatever Redis calls failed on the way.
CommittedIsCounted == \A ev \in CommittedEvents : Aggregated(ev)

\* Whatever fails, a committed event that is in no aggregate either died with
\* a replica, alone in its memory or claimed and not yet applied, or was
\* claimed by a call whose retry found its own claim.  A failed Redis call, a
\* redelivery, an expiry or a rebalance alone loses nothing.
LossWindow ==
    \A ev \in CommittedEvents : Aggregated(ev) \/ ev.id \in abandoned

\* An event whose dedupe key says "processed" has been folded into an
\* aggregate (dedupe.go's meaning of the processed state), and is still there
\* unless it died with a replica.
ProcessedIsCounted ==
    \A id \in EventIds \ abandoned :
        dedupe[id] = "processed" =>
            \E m \in Matches : \/ Holds(stats[m], id)
                               \/ \E c \in Consumers : Holds(mem[c][m], id)

\* The snapshot holds an event that died with a replica: written before its
\* match was listed, it stays in Redis and no restart restores it.
Orphaned(m) == \E i \in DOMAIN stats[m] : stats[m][i].id \in abandoned

\* A failed write to Redis is repaired by the next one that succeeds: what
\* Redis holds of a listed match is a prefix of what the replica holds.
MemoryIsAhead ==
    \A c \in Consumers : Running(c) =>
        \A m \in active : IsPrefix(stats[m], mem[c][m]) \/ Orphaned(m)

\* When no message is in hand, every processed event is in the snapshot the
\* query-api reads.
QuiescentSnapshotComplete ==
    (\A c \in Consumers : pc[c] \in {"down", "fetch"}) =>
        \A id \in EventIds :
            dedupe[id] = "processed" => \E m \in Matches : Holds(stats[m], id)

\* The DLQ holds a record of the message, or its loss is one of the two that
\* are known.
AccountedFor(o) == o \in dropped \/ \E r \in deadLetters : r.offset = o

\* A malformed message is never skipped silently: when its offset is
\* committed its record is on the DLQ, or routeToDLQ gave up on it after its
\* last attempt, or the broker lost a record nobody asked it to acknowledge.
MalformedAccountedFor ==
    \A o \in 1 .. committed : topic[o] = Malformed => AccountedFor(o)

\* Delivering the message once more is what the documentation allows for: a
\* malformed one has its record and an event with an id meets a reservation.  An
\* event without an id is settled by definition, although it is counted again.
Settled(o) ==
    IF topic[o] = Malformed THEN AccountedFor(o)
    ELSE \/ topic[o].id \in Excused \cup {NoId}
         \/ dedupe[topic[o].id] # "none"

\* A commit is cumulative and asynchronous, and every message it covers is
\* settled, the ones before the message it was asked for included.  So is what
\* a replica that lost the partition exposes again by committing an offset
\* lower than its successor's.
CommittedIsSettled == \A o \in 1 .. committed : Settled(o)

SettledTo(n) == \A o \in 1 .. n : Settled(o)

\* CommittedIsSettled, strengthened to be inductive: everything before the
\* message in hand is settled, and the message itself before it is committed.
CommitInv ==
    /\ SettledTo(committed)
    /\ \A c \in Consumers :
         /\ SettledTo(commitReq[c])
         /\ pc[c] \in InHand =>
              /\ SettledTo(cur[c] - 1)
              /\ pc[c] \notin {"reserve", "dlq"} => Settled(cur[c])
         /\ SettledTo(pos[c]) \/ (pc[c] \in InHand /\ pos[c] = cur[c])

\* What the subscribers of match-stats see of one match only grows: each
\* snapshot extends the one before, across crashes and restarts.
PublishedNeverShrinks ==
    \A i, j \in DOMAIN published :
        /\ i < j
        /\ published[i].match = published[j].match
        => IsPrefix(published[i].events, published[j].events)

\* A crash may have taken one of the events, or deduplication let one through
\* twice, so that only one of its copies may have died.
Unsafe(history) ==
    \E i \in DOMAIN history : history[i].id \in abandoned \cup Excused \cup {NoId}

\* What subscribers may rely on while calls to Redis fail: a snapshot lacks an
\* event of one published before only if that one held an event that died with
\* a replica or that deduplication could not know.  However many writes failed, what was published is in the memory of
\* the replica, and what a restart does not find is given up by name.
FeedLosesOnlyTheDead ==
    \A i, j \in DOMAIN published :
        /\ i < j
        /\ published[i].match = published[j].match
        => \/ IsPrefix(published[i].events, published[j].events)
           \/ Unsafe(published[i].events)

\* A restart does not reset a running match: a step never removes an event
\* from the snapshot of a match listed in matches:active, but for one that
\* holds an event no restart could restore.
ListedSnapshotNeverShrinks ==
    [][\A m \in active : IsPrefix(stats[m], stats'[m]) \/ Orphaned(m)]_vars

\* No message blocks the partition: whatever fails, every message is
\* eventually committed.
EventuallyCommitted ==
    \A o \in 1 .. MaxTopic : Len(topic) >= o ~> committed >= o

-----------------------------------------------------------------------------
(* The abstract promise *)

\* What a reader who goes by matches:active sees.
Listed == [m \in Matches |-> IF m \in active THEN stats[m] ELSE <<>>]

Feed == INSTANCE MatchFeed WITH
    Events <- Event, Ids <- EventIds, arrived <- topic, history <- Listed,
    feed <- published, forgotten <- Excused

\* Crashes, redeliveries, duplicates, failed publications and rebalances do
\* not show: a single replica whose Redis calls succeed implements MatchFeed.
FeedSpec == Feed!Spec

\* The replica's memory of a match is what a reader sees of it.
Synced(c, m) == mem[c][m] = Listed[m]

OthersSynced(c) == \A m \in Matches \ {Msg(c).match} : Synced(c, m)

\* Where a replica's memory stands against what readers see.  A dead replica
\* remembers nothing, one that restores is in step on the matches it has read,
\* and one that runs is in step but for the message in hand: it is one event
\* ahead until the snapshot is written, and a first event shows only when the
\* match is listed.
InStep(c) ==
    /\ pc[c] = "down" => mem[c] = Empty
    /\ pc[c] = "load" => /\ toLoad[c] \subseteq active
                         /\ \A m \in Matches \ toLoad[c] : Synced(c, m)
    /\ pc[c] \in {"mark", "setStats"} =>
         /\ OthersSynced(c)
         /\ mem[c][Msg(c).match] = Append(Listed[Msg(c).match], Msg(c))
         /\ Feed!MayFold(Msg(c))
    /\ pc[c] \in {"setLatest", "addActive"} =>
         /\ OthersSynced(c)
         /\ mem[c][Msg(c).match] = stats[Msg(c).match]
         /\ Msg(c).match \notin active => stats[Msg(c).match] = <<Msg(c)>>
    /\ pc[c] \in {"fetch", "reserve", "inspect", "apply", "publish", "dlq",
                  "commit"} => \A m \in Matches : Synced(c, m)

\* Why a single replica implements MatchFeed.
FeedInv == \A c \in Consumers : InStep(c)
=============================================================================
