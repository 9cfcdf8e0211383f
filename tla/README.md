# MatchSense: specifications, model checking and proofs

TLA+ specifications of the MatchSense services, TLC configurations that check
them on small instances, and proofs checked by TLAPS. Paths below are relative
to the repository.

## 1. The system

```
match-simulator --HTTP--> event-api --> [match-events] --> event-processor --> [match-stats] --> ml-predictor
 other clients ---------^                                   |  ^      |                             |
                                                            v  |      +--> [match-events-dlq]       v
                                                         Redis (dedupe keys, snapshots, matches:active, predictions)
                                                                              ^
                                                          query-api ----------+
```

| component | state it keeps | operations | what is hard | what makes it correct |
|---|---|---|---|---|
| **event-processor**, consumption (`services/event-processor/main.go`, `services/common/dedupe.go`) | stats map in memory; dedupe keys, two snapshots per match and `matches:active` in Redis; reader position and stash of requested commits | restore at start-up, fetch, reserve (SETNX, GET), apply, mark, three Redis writes, publish, DLQ, commit | at-least-once delivery, asynchronous commits, rebalances, a rolling update with two replicas, a crash between any two writes, failing Redis and Kafka calls, TTL expiry | no event counted twice; none lost; the snapshots only grow; nothing blocks the partition; malformed messages are accounted for |
| **event-processor**, `applyEvent` | `MatchStats`: teams, counters per side, minute, history | fold one event in | events without a team, order of arrival, the teams are learned on the way | the counters are the tally of the history |
| **event-api** (`services/event-api/main.go`, `services/common/event.go`) | none; the Kafka writer's round-robin counter | validate, assign an id, publish, answer | a handler outlives its client; a write may fail after it took effect | accepted means published; no more ids for an event than its sender caused |
| **match-simulator** (`services/match-simulator/main.go`) | the minute, the events of the minute, the event and the attempt it is at | draw the events of a minute, send each with bounded retries, stop | a timed-out attempt lands late; an event of a chain (shot, goal) is given up or lost | order kept, copies bounded, the match ends, no goal without its shot but for what was lost or counted twice |
| **ml-predictor** (`services/ml-predictor/app.py`) | consumer position (auto-commit); predictions and running xG in Redis | predict per `match-stats` message, serve `/predict/xg` | auto-commit against processing, a read-modify-write on a key another write replaces, retries at connect | each committed message was predicted; the running total is the sum |
| **query-api** (`services/query-api/main.go`) | none | read Redis keys | reads of several keys around the processor's writes; a prediction older or newer than the snapshot beside it | what is listed can be read; what was shown stays |
| env and tracing helpers, training scripts, deployment | - | - | - | not modelled, see section 8 |

Interactions: the simulator and other clients call the event-api over HTTP; the
services hand events on through Kafka topics; event-processor, ml-predictor and
query-api share Redis. Nothing is transactional across two of these.

## 2. Modules

| module | models | lines it is checked against |
|---|---|---|
| `EventProcessor` | the event-processor's goroutine, its Redis keys, its consumer group | `PROJECT.json`, "map" |
| `MatchFeed` | abstract: what the event-processor promises its readers | |
| `QueryApi` | query-api's handlers | "map" |
| `ReadPath` | composition of `EventProcessor` and `QueryApi`, joined by the predictions | "map" |
| `MatchStats` | `applyEvent` and the statistics it keeps | "map" |
| `MatchSimulator` | the simulator's generator and minute loop, composed with `MatchStats` | "map" |
| `Ingestion` | the simulator's sending and the event-api, up to the topic | "map" |
| `MLPredictor` | ml-predictor's consumer thread | "map" |
| `MCEventProcessor`, `MCReadPath`, `MCMatchStats`, `MCIngestion`, `MCMLPredictor` | instances for TLC | |
| `EventProcessorProofs`, `CommitProofs`, `FeedProofs`, `LossProofs`, `ReadPathProofs`, `MatchStatsProofs`, `IngestionProofs`, `MLPredictorProofs` | theorems (section 6) | |

How they compose: `MatchSimulator` extends `MatchStats` and feeds it the events
of a simulated match; between the two it lets happen what
`Ingestion` and `EventProcessor` show can happen to an event, 202 or not: it is
folded in at once, later, never or once more. `ReadPath` extends `EventProcessor` and runs the
query-api, and a writer of predictions, beside it. `EventProcessor` implements
`MatchFeed`. The proof modules extend what they are about; `LossProofs` builds on
`CommitProofs` and `FeedProofs`, and `ReadPathProofs` on `LossProofs`.

### EventProcessor

One process per replica. `pc[c]` is where its goroutine is; an action is one
call that another process or a crash can come between.

| code (`main.go`) | action |
|---|---|
| 302-309, Ping and `loadActiveMatchesFromRedis` | `Start`, one `LoadMatch` per match, `StartReading` |
| 360-379, `FetchMessage` | `FetchMessage`; `Dispatch` is the branch the message takes |
| 124-153, `ReserveEvent` | `Reserve` (SETNX) and, when the key exists, `Inspect` (GET) |
| 485-511, `reserveForProcessing` | the label `Reserve` and `Inspect` go to: fail open, or skip |
| 615-626, the update under `statsMu` | `Apply` |
| 520-531, `markProcessed` | `Mark` |
| 642-654, persistence | `SetStats`, `SetLatest`, `AddActiveMatch`, each may fail and the next runs all the same |
| 657-671, publication | `Publish` |
| 549-580, `routeToDLQ` | `RouteToDLQ`, one attempt each |
| 381, `CommitMessages` | `CommitMessages` fills the stash, `FlushCommit` is the reader's commit loop |
| 390-392, SIGTERM | `Crash`: `main` returns without waiting for the goroutine, so a shutdown is a kill |

The representation. A match's statistics are the sequence of the events folded
into them (the `Events` field); the counters are a function of it, which is
what `MatchStats` is about. `Snapshot` reads the map when a write is made rather
than copying it before: the goroutine is the only writer of the map, so it has
not changed in between. A new consumer-group generation starts at the committed
offset and forgets the stash, but not the message in hand: that is how
`kafka.Reader` behaves, and how two replicas come to hold one message.
`committed` may go down, as the broker lets it.

The faults are counted down in `faults`, one budget per kind:
`redis` (a Redis call for an event fails, before or after it took effect),
`restore` (a GET or the SMEMBERS at start-up fails), `retry` (the client library
repeats a SETNX whose answer was lost), `publish` (a Kafka write fails, before or
after it took effect, or is reported as done and lost, since the writers ask for
no acknowledgement), `crash`, `expire` (a dedupe key reaches its TTL),
`rebalance`. SIGTERM closes the writers and returns from `main` while the
goroutine runs: that is publications that fail, then a crash, and both are in
the model. Duplicates come from producers (`Produce` may append the same event
any number of times up to `MaxTopic`) and from redelivery.

History variables record what the documentation exempts or the properties
compare with: `failedOpen` and `expired` are ids that deduplication is documented
to let through twice, `abandoned` are ids claimed by a replica that died, or by a
call whose retry met its own claim, before the event reached a snapshot a
restart would find. `Orphaned` (a snapshot whose match never got listed) is the
one case in which a restart starts a match from nothing.

### MatchFeed, QueryApi, ReadPath

`MatchFeed` has no replicas, caches, offsets or failures: messages arrive, an
event is folded into the history of its match at most once while its id is
remembered, histories are announced. `EventProcessor!FeedSpec` is its
specification under the refinement mapping of the state to it: the topic is what
arrived, what readers see of a listed match (its snapshot key) is the history, the
published snapshots are the announcements, expired and failed-open ids are the
forgotten ones.

`QueryApi` has one action per Redis call of a handler, since /matches reads the
set and then one key per match. `ReadPath` adds `Predict`: a prediction made from
any published snapshot is stored, in any order, which is what the replays and
handovers of `MLPredictor` amount to for a reader. A client remembers the
longest history it was `shown` of each match.

### MatchStats and MatchSimulator

`ApplyEvent` is `applyEvent`: teams are learned before the side is chosen, a
team-less event counts for the away side, the minute is overwritten.

`MatchSimulator` is `run` and `generateMinuteEvents`: every outcome of every draw
is possible, so probabilities, players and coordinates are left out. An event whose
`sendWithRetry` returned nil (`Deliver`) is folded in, or goes astray
(`GoAstray`): a 202 promises no more, since the broker may lose the event
unacknowledged and the event-processor skips it after a crash. One that was given
up (`GiveUp`) goes astray too. What is astray is dropped or lands late
(`LandLate`, after later events). A restart of the event-processor from an older
snapshot leaves the aggregate that never folding the later events in would have
left, so it needs no action of its own. `Recount` folds a second copy in, which
deduplication let through. `Stop` is SIGTERM at each place `run` notices
it. Other clients may post events of the same match (`PostOther`).

### Ingestion

The simulator's `run` and `sendWithRetry` (`Post`, `Unreachable`, `Answer`,
`Timeout`, `Cancel`), the `eventsHandler` (`Reject`, `Publish`), the
event-api's death (`CrashApi`) and another client (`ClientPost`). A request is
a record that outlives its sender's interest in it, since the handler publishes
under `context.Background()`: a timed-out attempt can land on the topic after
its retry or after the next event. `Write` is the Kafka writer with the
library's defaults, which the code does not change: it repeats a failed batch,
and it asks for no acknowledgement, so a write may store an event twice or lose
it without an error. The simulator's events always carry an id of their own and
pass validation. Another client may post its event under an id of its own, under
one used for another event (the handler keeps whatever id it is given), under
none, or under one that is refused, and may change its mind from one attempt to
the next. Two ids that `NewEventID` draws are taken to differ.

### MLPredictor

One process per replica of `kafka_consumer_loop`: `Connect` (bounded
attempts), `NextRecord`, `PredictXg` (the model and the read of the old
totals), `Store`. The client's side is external: it fetches a batch (`Poll`),
moves its position before it hands a record out, and speaks to the coordinator
only between two batches in the same thread. That is where it commits
(`AutoCommit`, and `HandOver` before a rebalance) and joins (`Join`; without a
committed offset at the end of the topic). A replica whose session timed out
finishes its batch without knowing (`SessionTimeout`). The thread is a daemon and
nothing closes its consumer (`app.py:266-271`), so SIGTERM is a `Crash`, and a
rolling update ends every old replica with one; `HandOver` is what the owner does
when the group is rebalanced while it lives. Numbers are abstracted:
an xG value is the offset of its shot, a total the sequence of shots added up, a
missing total the empty one, which is how the code reads it.

## 3. Properties

`EventProcessor`:

- `CountedOnce`: no event is counted twice in any replica's memory, either
  Redis snapshot or any published snapshot. The only exemptions are the two the
  documentation makes, `failedOpen` and `expired`.
- `DedupeInv`: `CountedOnce` made inductive: what is in hand passed the earlier
  branches (`HandOK`), an event in any copy has a dedupe key (`HeldIsClaimed`),
  and the reservation is an exclusive lock on the application
  (`ClaimIsExclusive`).
- `CommittedIsSettled`: a message that a (cumulative) commit covers has its dedupe
  key or its DLQ record; so whatever a late commit of the other replica takes
  back is settled as well. An event without an id is settled by definition: nothing
  recognises it, and each redelivery counts it again. `CommitInv` is the
  inductive invariant behind the property.
- `CommittedIsCounted`: a committed event is in an aggregate. It does not survive
  a crash; `LossWindow` says precisely what one can lose.
- `ProcessedIsCounted`: the processed mark never precedes the update.
- `MemoryIsAhead`: whatever Redis writes failed, the memory has every event of
  both snapshots, so the next event of the match repairs them.
- `PublishedNeverShrinks`, `ListedSnapshotNeverShrinks`: subscribers and
  restarts see histories that only grow. `FeedLosesOnlyTheDead` is what is left
  of the first while calls to Redis fail and replicas die: a snapshot extends
  the ones published before, unless one of these held an event that died with a
  replica or that deduplication could not know (no id, fail-open, expired).
- `FeedSpec`: a single replica implements `MatchFeed`; `FeedInv` is the inductive
  invariant behind it (the replica is in step with what readers see, but for
  the event in hand).
- `MalformedAccountedFor`, `EventuallyCommitted`: nothing is skipped silently
  and nothing blocks the partition.
- `QuiescentSnapshotComplete`: with nothing in hand, Redis has every processed
  event (violated by a rolling update).

`ReadPath`: `ShownStays` (what a client was shown of a match, by the list, the
detail or a prediction, it finds again later, extended at most) and
`ListedIsReadable` (a match is missing from a list only if a call failed).

`MatchStats`: `CountersMatchHistory`, `TeamsFromHistory`, and
`OrderIrrelevantForCounters`: any one event coming last instead changes no
counter as long as the same team is home. `MatchSimulator`:
`ConsequencesHaveCauses`: a side shows more goals than shots on target, or more
yellow cards than fouls, by no more than the shots or fouls that were sent and are
not folded in, and the goals or cards folded in twice.

`Ingestion`: `AcceptedIsOnTopic`, `CopiesBounded`, `FreshIdsBounded` (what
deduplication has to go by: an event is on the topic under the ids its sender
gave it, plus at most one for each request that named none), `SentInOrder`, `SimulationEnds`, and
`OnePartitionPerMatch`, which does not hold.

`MLPredictor`: `CommittedIsHandled` (automatic commits lose nothing),
`RepeatsBounded` (nothing deduplicates shots here, so this bounds how often one
is added: once, and once more for each replica that ended or lost its session; a
rebalance because replicas join repeats nothing), `SettledIsNewest` (what readers end up with),
`EventuallyHandled`, and `RunningTotalComplete`, which does not hold.

Each module has one type invariant. In `EventProcessor` it includes that no
offset read, held, requested or committed lies beyond the topic.

## 4. Runs

Runs that pass:

| run | instance | question |
|---|---|---|
| `counted_once` | 2 replicas, 2 events of one match, 2 messages; one failed Redis call, one crash, one expiry, one rebalance | is an event ever counted twice, and is whatever the commits of both replicas cover settled? |
| `crash` | 1 replica, 2 events with an id and one without; 2 crashes, 2 failed Redis calls, a SETNX retry, an expiry, a rebalance | what may be lost, is a failed write repaired, does a restart ever shorten what was listed or published? |
| `read_path` | 1 replica, 3 events of one match, one of which has no id, a client and the predictions; a SETNX retry, a faulty publication, a crash, a rebalance | does the replica implement `MatchFeed`, and what may its readers rely on? |
| `live` | fair scheduling, an event and a malformed payload; a failed Redis call, a failed restore, 3 faulty publications, a crash, a rebalance | does every message get committed, and is every malformed one accounted for? |
| `history` | a simulated match of 2 minutes and at most 3 events with one astray and one counted again, together with up to 3 events of other clients, of every kind and with or without a team | are the counters the tally of the history, in whatever order, and has every goal its shot and every card its foul, but for what was lost or counted twice? |
| `ingestion` | 2 simulator events, another client posting one event under any id or none; 2 timeouts, a faulty Kafka write, a crash, a signal | is what is accepted on the topic, once per attempt, under one id, in order? |
| `predictor` | 2 replicas, 2 messages; 2 failed connections, a failed Redis call, a rebalance, a lost session, a crash or SIGTERM | is a message lost, repeated more often than replicas stopped, overwritten by an older one, or never handled? |

Runs that end in a counterexample, each against a sentence of the repository's
documentation (PROJECT.json, "findings"):

| run | what it shows |
|---|---|
| `lost_on_crash` | A crash between the SETNX and the update loses the event: the redelivery comes within seconds, finds a reservation in flight, is skipped *and committed*, so there is no later redelivery for which the expired key would matter. |
| `failed_restore` | One failed GET at start-up: the match restarts from zero, and its next event overwrites the complete snapshot. |
| `handover` | A rolling update with no failure: the new replica restores before it joins the group, misses what the old one still counts, and then overwrites the snapshot without it. |
| `xg_reset` | A shot, then anything else: the next prediction carries no totals and replaces the one that did. The running xG is the xG of the last uninterrupted run of shots. |
| `partitions` | The balancer is round robin; the key does not decide the partition. |

`LossWindow` passes because `abandoned` covers two further gaps that have no run
of their own: a crash between `MarkProcessed` (`main.go:631`) and `SetStats`
(643) leaves an event that is marked processed and in no aggregate, and a crash
between the first `SetStats` (643) and `AddActiveMatch` (651) leaves a match that
no restart restores. Nothing else is lost: that is what the run establishes.

Bounds, all named: `MaxTopic` messages, `MaxFaults` of each kind, `MaxEvents`,
`NumEvents`, `MaxTries`, `Partitions`, `matchMinutes`, `MaxPerMinute`,
`MaxPosted`, `MaxAstray`, `MaxRecounted`. Two replicas are the most a rolling update
of `replicas: 1` runs, and a race for a key needs no third. Two messages
(also in `predictor`) suffice for a duplicate, for a successor that overwrites a predecessor's
snapshot and for a commit that jumps over a message. Two crashes let a redelivery
be hit as well; three failed publications exhaust `maxDLQAttempts`. Two
timeouts and one faulty write are what it takes to store all three attempts of
`maxSendAttempts`. Three events are enough for the team rules (a first, a
second, one without a team); the proofs of section 6 cover any length. Two
minutes with the half-time break after the first take every branch of `run`, and
one event astray is what it takes to part a consequence from its cause, one more
counted again shows that the two excesses add up. The other client of `ingestion`
posts once, which keeps the run small: it is the simulator that retries there. The
theorem `FreshIdsAreBounded` is about clients that repeat themselves as well.
`SYMMETRY` over event ids and replicas is used in runs without liveness only;
the properties treat both alike.

Deadlock is not checked: each run stops legitimately when the bounded topic has
been consumed and the faults are spent, when the simulator has ended, or when
every consumer thread has given up connecting. That the system does not stop
*early* is what `EventuallyCommitted`, `SimulationEnds` and `EventuallyHandled`
say.

## 5. Fairness

`EventProcessor!FairSpec`: weak fairness of each replica's start (Kubernetes
restarts a container that stopped), of its goroutine (`Step`; every call it
makes returns or fails), of `Join` (the coordinator assigns a partition nobody
owns) and of `FlushCommit` (the reader's commit ticker). Producing, faults,
expiries and rebalances are not forced, and are bounded. A read error and its
exponential back-off change nothing and are stuttering steps.

`Ingestion!FairSpec`: weak fairness of the simulator and of the handlers.
Nothing forces a client, a fault or a signal.

`MLPredictor!FairSpec`: weak fairness of each replica's start, of its thread and
of `Join`. Commits are not forced: the properties do not need them.

## 6. Proofs

`EventProcessorProofs`, for every set of replicas, ids, matches and messages,
any topic length and any fault budget, from the four named assumptions of
`EventProcessor` (the special values are not members of the sets they stand
beside, and the bounds are naturals):

- `TypeCorrect`: `Spec => []TypeOK`. `TypeOK` alone is not inductive, because a
  snapshot's type depends on the message in hand being an event. `TypedHand ==
  TypeOK /\ HandOK` is; one lemma per action, then `NextTyped`.
- `DedupeInvariant`: `Spec => []DedupeInv`. `CountedOnce` is not inductive: from
  a state that satisfies it, a replica could apply an event another copy
  holds already. `ClaimIsExclusive` excludes that for the replica that applies,
  and `HeldIsClaimed` is what makes a successful SETNX imply that no copy holds
  the event. Most actions add no history and no claim: `QuietStep` shows once
  that such a step preserves the invariant, and one lemma per action shows it
  is such a step. The two that matter have proofs of their own: `ReserveDedupe`
  (the claim is taken when no copy holds the event) and `ApplyDedupe` (the copy
  grows by an event no copy held).
- `EventsCountedOnce`: `Spec => []CountedOnce`, the property of the
  `counted_once` run, follows.

- `CommitProofs`, for any number of replicas and any budget: `CommitInvariant`
  (`CommitInv`), and from it `CommitsAreSettled` and `NoMalformedSkipped`. The argument: a replica reads from the committed
  offset on, so it suffices that everything below the message in hand is
  settled, and the message itself by the time its commit is asked for. Settled is
  a property of the store and of history variables that only grow, but for
  expiry, which is exempt by name; so commits may overtake each other and go
  back.
- `FeedProofs`: `ReplicaIsInStep` (`FeedInv`), `ImplementsFeed` (the refinement:
  initial states map to initial states and every action to a step of `MatchFeed`
  or a stutter) and `FeedNeverShrinks` (`PublishedNeverShrinks`), for every set
  of matches and messages and any number of crashes, rebalances and faulty
  publications, under `Reliable`: at most one replica, and no failing Redis calls
  while processing or restoring. The runs `failed_restore` and `handover` show
  that the assumption is needed.
- `LossProofs`, under `Restoring` (at most one replica, whose restores succeed; any
  other fault may happen any number of times): `MemoryRepairsRedis`
  (`MemoryIsAhead`), `ListedNeverShrinks` (`ListedSnapshotNeverShrinks`), and with
  `UniqueIds` (an id names one event: an assumption about clients, which the
  event-api does not check and `docs/architecture.md:167` asks of producers)
  `OnlyCrashesLose` (`LossWindow`) and
  `ProcessedAreCounted` (`ProcessedIsCounted`). The argument:
  memory covers Redis (`MemInv`), so no snapshot is overwritten by one that lacks
  an event, and what an aggregate keeps stays kept or is `abandoned`; it then
  suffices that offsets and dedupe keys follow what is kept (`LossInv`). Only
  `SetStats` writes a snapshot, and writes the memory that covers it, so a listed
  snapshot never loses an event, whatever writes failed before. The runs
  `failed_restore` and `handover` show what happens without `Restoring`.

  `FeedLosesNothingElse` (`FeedLosesOnlyTheDead`) is what subscribers of
  `match-stats` may rely on while calls to Redis fail and replicas die, any number
  of times. `RememberInv` is its invariant: what was published of a match is a
  prefix of what its next snapshot will be taken from, which is the memory of a
  running replica and the listed snapshot while none runs, unless it holds an event
  no longer vouched for. A crash is the step that matters: the memory covers Redis, so
  all that the restart will not find is put into `abandoned` by it.

  Two claims of the documentation that runs refute are proved where those runs
  do not reach. Without a crash or a repeated SETNX (`NothingDies`) nothing is ever
  `abandoned`, which gives `CountedUnlessACrash` (`CommittedIsCounted`, refuted by
  one crash in `lost_on_crash`) and, together with `FeedInv` and so under
  `Reliable`, `QuietSnapshotIsComplete` (`QuiescentSnapshotComplete`, refuted by a
  second replica in `handover`).
- `ReadPathProofs`, for any number of clients: `ReadTypeCorrect` (`ReadTypeOK`);
  `ListIsReadable` (`ListedIsReadable`), for any number of replicas and any
  faults but failing Redis calls (`MaxFaults["redis"] = 0`; a `SET` that fails
  before the `SADD` lists a match without a snapshot); `ShownIsFoundAgain`
  (`ShownStays`) and `ReadPathImplementsFeed`, both under `Reliable`. For the
  first it suffices that the message in hand has been written before its match
  is listed (`Written`). `ShownStays` needs more: a client collects a snapshot,
  is shown it later, and a prediction may carry one that was published long
  ago, so the invariant says of all three that they are found again
  (`ShownInv`), of what is published that it is behind the snapshot
  (`Announced`), and of a match not yet listed that its snapshot holds at most
  the event in hand or one given up (`UnlistedInv`): that one may be
  overwritten after a crash, and is why the exemption is needed.
- `MatchStatsProofs`: `TypeCorrect`, `TeamsInvariant` (`TeamsFromHistory`) and
  `CountersInvariant` (`CountersMatchHistory`), for histories of any length. The
  heart is that learning the away team leaves earlier events on their sides,
  because no earlier event named it. `OrderDoesNotCount` adds that two
  aggregates with such counters, the same home team and the same events in any
  two orders agree on every counter, and `CountersIgnoreOrder`
  (`OrderIrrelevantForCounters`) follows: the property folds the history in
  another order, and `FoldFolds` shows that such a fold has the teams and
  counters that receiving its events one by one has. `FoldLeft` is defined by
  the `CHOOSE` of a function with its recursion equation, so the function is
  first shown to exist (`FoldExists`), one position at a time. Both are
  inductions over the length of the history. The library's induction rule takes
  an operator, so `InductionOverNat` says it of a set instead, from the
  well-foundedness of the naturals.

  For the simulated match: `SimulatedAggregate` (the same three properties of
  `SimSpec`) and `CausesCounted` (`ConsequencesHaveCauses`), for matches of any
  length. The property compares a goal with its shot on one *side*, and the
  sides are fixed only when the teams are known, so the invariant (`CauseInv`)
  counts for every *set of teams*: what was sent, whether folded in, on its way or
  lost and whatever was folded in twice counted once, has no more consequences than
  causes (`Balanced`), and in what is still to be sent a
  consequence follows its cause at once (`Chained`). Its lemmas count the
  events with a property in a sequence that is extended, joined or loses an
  element (`OccursAppend`, `OccursConcat`, `OccursRemove`).
- `IngestionProofs`: `TypeCorrect`; `NothingAcceptedIsMissing`
  (`AcceptedIsOnTopic`); `FreshIdsAreBounded` (`FreshIdsBounded`); and
  `NothingSentIsOvertaken` (`SentInOrder`), the last under `Partitions = 1`, the
  assumption the run `partitions` shows to be needed. All for any number of
  events, clients and faults. `FreshIdsAreBounded` counts ids against
  requests (`FreshInv`): a handler publishes once, under the id its request names or
  under one drawn for it, so a step that puts a fresh id on the topic uses up a
  request that named none. `NothingSentIsOvertaken` rests on `OrderInv`: the events on the topic
  and in flight are at most the one being sent, and what is settled was
  preceded by everything before it. `RetriesAreBounded` (`CopiesBounded`) counts
  the attempts of an event that may still land together with the copies that
  have (`CopiesInv`): a timed-out attempt moves from the one to the other, so
  their sum, unlike either, is bounded by the attempts made.
- `MLPredictorProofs`: `TypeCorrect` and `CommitsAreHandled`
  (`CommittedIsHandled`), for any number of replicas, rebalances, lost sessions
  and crashes. The position moves before a record is handled, so the invariant is
  that everything behind the record in hand is handled, together with the fact
  that a commit is made only with no record in hand.
- `MLPredictorProofs` also has `RepeatsAreBounded` (`RepeatsBounded`) and
  `StoredIsNewest` (`SettledIsNewest`). The first counts, for each offset, how often
  it was handled, the replicas that still have it in a batch although the
  partition is no longer theirs (`Stale`), and once more if the next reader of the
  partition has it ahead (`Horizon`): only a replica that ends or loses its session
  adds to the sum, by one (`HandleInv`). The second rests on `OwnerInv` (unless a
  session was lost, only the owner of the partition has a record in hand or left in
  its batch) and adds that of what is behind the next reader the newest of each
  match is stored (`NewestInv`); a crash may set that reader back, and what it reads
  again then overtakes nothing.

The inductive invariants of `ReadPathProofs`, `NewestInv`, `CopiesInv` and
`CauseInv` were model-checked on instances like those of section 4 before they were
proved; so were the two theorems under `NothingDies`.

Only model-checked: the liveness properties (`EventuallyCommitted`,
`SimulationEnds`, `EventuallyHandled`); the prover has no rule for `ENABLED` under
fairness. Every other property of a passing run is a theorem, some under the
assumptions named above.

## 7. Other observations

- The comment at `main.go:398-402` says there is no idempotency guarantee; the
  reservation below it provides one.
- The Kafka writers leave `RequiredAcks` at the library's default, no
  acknowledgement. `deadLetters` and the answer 202 mean "the writer reported no
  error"; the models have the loss as a fault.
- The counters of `applyEvent` are per side, and the home team is the team of the
  first event seen (`main.go:407-413`). `docs/architecture.md:211` calls them
  commutative; `OrderIrrelevantForCounters` holds only under the premise that
  both orders name the same team first. Two orders of the same goals that start
  with different teams exchange the sides.
- `auto_offset_reset="latest"` means that what is published before the
  ml-predictor's group first commits is never predicted (`skipped`), and that a
  crash before the first commit adds to it.
- After its last failed attempt to connect the ml-predictor's thread returns;
  `/health` goes on answering "ok", so nothing restarts it. `EventuallyHandled`
  exempts that state by name.
- `ReleaseReservation` in `dedupe.go` has no caller in the repository.
- The simulator mirrors the away side's shots to x <= 25 (`match-simulator/main.go:102-103`),
  while the predictor measures every shot's distance to x = 100 (`app.py:81`).
  The models carry no coordinates, so no run is about it.

## 8. Not modelled

- Probabilities and waits of the simulator, players and coordinates, tracing,
  metrics and logging: no property depends on them. `UpdatedAt` and `LastEvent`
  (the last element of the history) are left out of `MatchStats`.
- The health handlers and the environment helpers (`env.go`, `otel.go`): they keep
  no state and decide nothing.
- Kafka and Redis themselves are external: one partition (what auto-creation
  yields) in `EventProcessor`, one writer process in `Ingestion`. Redis losing
  its data is not modelled yet.
- Training scripts (offline numerics) and deployment manifests (declarative;
  what they decide about replicas and restarts is in the assumptions).

## 9. Plan

1. *Done*: the services and their composition (section 2), the runs (section 4),
   the refinement of `MatchFeed`, the proofs of section 6.
2. *Done*: every safety and action property of a passing run is a theorem, what
   subscribers may rely on while Redis calls fail (`FeedLosesOnlyTheDead`) among them.
   `ShownStays` is not part of it: after a failed write a prediction can be ahead
   of the snapshot until the next write repairs it (`MemoryIsAhead`).
3. A Redis that loses its data (restart without persistence), and the predictor's
   deserializer, if the topic is ever written by another producer.
4. One composition from the simulator's request to the counter. Its parts are
   checked and proved apart; together they are beyond TLC at useful bounds.
