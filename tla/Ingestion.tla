------------------------------ MODULE Ingestion ------------------------------
(***************************************************************************)
(* How events reach the match-events topic: the match-simulator sends the  *)
(* events of one match one after the other, retrying each a bounded number *)
(* of times; other clients post events of their own; the event-api         *)
(* validates a request, gives the event an id if it has none, and writes   *)
(* it to Kafka before it answers.                                          *)
(*                                                                         *)
(* A request outlives the client's interest in it: the handler publishes   *)
(* under its own context, so an attempt that timed out may still land on   *)
(* the topic later, after the retry or even after the next event.          *)
(***************************************************************************)
EXTENDS Integers, Sequences, FiniteSets

CONSTANTS
    NumEvents,    \* bound: events the simulator generates
    ClientEvents, \* events other clients post
    MaxTries,     \* bound: how often a client posts its event
    Partitions,   \* number of partitions of match-events
    MaxFaults     \* bound: how often each kind of fault happens

\* "write": the Kafka writer reports an error, repeats a batch that had been
\* stored, or loses one it asked no acknowledgement for.
FaultKinds == {"timeout", "write", "crash", "cancel"}

\* The simulator's events, in the order it generates them.
SimEvents == 1 .. NumEvents
AllEvents == SimEvents \cup ClientEvents

\* The ids a sender names its events by, and those NewEventID makes up, which
\* are random: no two are the same.
EventIds == {"given"} \X AllEvents \cup {"generated"} \X Nat
NoId     == <<"none">>     \* the body names no id
Refused  == <<"refused">>  \* the body is not acceptable, its id or the rest

\* maxSendAttempts
maxSendAttempts == 3

ASSUME BoundsAssumption ==
    /\ NumEvents \in Nat /\ MaxTries \in Nat
    /\ Partitions \in Nat \ {0}
    /\ MaxFaults \in [FaultKinds -> Nat]
ASSUME ClientAssumption == ClientEvents \cap SimEvents = {}

VARIABLES
    \* the simulator
    pc,        \* "send", "wait", "done", or "stopped" by a signal
    idx,       \* the event it is sending
    attempt,   \* sendWithRetry's attempt
    outcome,   \* what sendWithRetry returned for each event
    \* the other clients
    tries,     \* how often each event was posted
    \* the event-api
    requests,  \* POST /events requests and how far each one is
    generated, \* ids NewEventID has returned
    \* Kafka
    log,       \* the partitions of match-events
    rr,        \* the writer's round-robin counter
    lost,      \* history: events a batch of which was lost unacknowledged
    repeated,  \* history: batches the writer stored twice
    faults     \* faults that may still happen

simVars == <<pc, idx, attempt, outcome>>
apiVars == <<requests, generated>>
kafkaVars == <<log, rr, lost, repeated>>
vars == <<simVars, tries, apiVars, kafkaVars, faults>>

Spend(k) == /\ faults[k] > 0
            /\ faults' = [faults EXCEPT ![k] = @ - 1]

Init ==
    /\ pc = "send" /\ idx = 1 /\ attempt = 1
    /\ outcome = [e \in SimEvents |-> "pending"]
    /\ tries = [e \in ClientEvents |-> 0]
    /\ requests = {} /\ generated = 0
    /\ log = [p \in 1 .. Partitions |-> <<>>] /\ rr = 0 /\ lost = {} /\ repeated = 0
    /\ faults = MaxFaults

Request(ev, n, id) == [ev |-> ev, try |-> n, id |-> id, stage |-> "received"]

Advance(r, stage) ==
    requests' = (requests \ {r}) \cup {[r EXCEPT !.stage = stage]}

-----------------------------------------------------------------------------
(* event-api: eventsHandler *)

\* Required fields and ValidateEventID.
Valid(r) == r.id # Refused

HasId(r) == r.id # NoId

\* The id the event carries to Kafka: the one the request names, whoever used
\* it before, else a fresh one.
AlwaysFresh(r) == <<"generated", generated + 1>>
EventId(r) == IF HasId(r) THEN r.id ELSE <<"generated", generated + 1>>

Reject(r) ==
    /\ r.stage = "received"
    /\ ~Valid(r)
    /\ Advance(r, "400")
    /\ UNCHANGED <<simVars, tries, generated, kafkaVars, faults>>

\* RoundRobin.Balance: the message key plays no part.
NextPartition == 1 + (rr % Partitions)

\* The log once the event has been stored n times.
Written(r, n) ==
    [log EXCEPT ![NextPartition] =
        @ \o [i \in 1 .. n |-> [ev |-> r.ev, id |-> EventId(r)]]]

\* The status the handler answers when the writer reports an error.
SwallowedError == "202"
OnPublishError == "500"

\* What the writer may do with the event: store it, store it twice, lose it
\* and see no error, or report an error before or after the broker stored it.
Write(r) ==
    \/ /\ log' = Written(r, 1) /\ Advance(r, "202")
       /\ UNCHANGED <<lost, repeated, faults>>
    \/ /\ Spend("write")
       /\ log' = Written(r, 2) /\ Advance(r, "202")
       /\ repeated' = repeated + 1
       /\ UNCHANGED lost
    \/ /\ Spend("write")
       /\ lost' = lost \cup {r.ev} /\ Advance(r, "202")
       /\ UNCHANGED <<log, repeated>>
    \/ /\ Spend("write")
       /\ \E n \in 0 .. 1 : log' = Written(r, n)
       /\ Advance(r, OnPublishError)
       /\ UNCHANGED <<lost, repeated>>

\* Publish, which returns once the batch is written or given up.
Publish(r) ==
    /\ r.stage = "received"
    /\ Valid(r)
    /\ Write(r)
    /\ rr' = (rr + 1) % Partitions
    /\ generated' = IF HasId(r) THEN generated ELSE generated + 1
    /\ UNCHANGED <<simVars, tries>>

\* The request whose answer the simulator is waiting for.
Awaited == {r \in requests : pc = "wait" /\ r.ev = idx /\ r.try = attempt}

\* The process dies: the requests it is serving get no answer, and neither does
\* an awaited one whose answer was still in its buffers.
CrashApi ==
    /\ Spend("crash")
    /\ \E late \in SUBSET Awaited :
          LET cut == {r \in requests : r.stage = "received"} \cup late
          IN  requests' = (requests \ cut) \cup {[r EXCEPT !.stage = "died"] : r \in cut}
    /\ rr' = 0
    /\ UNCHANGED <<simVars, tries, generated, log, lost, repeated>>

-----------------------------------------------------------------------------
(* match-simulator: run and sendWithRetry *)

\* The event run turns to once it has given up on one.
SameEvent(i) == i
AfterGivingUp(i) == i + 1

\* sendWithRetry returned for the current event and run goes on to the next.
Finish(result, next) ==
    /\ outcome' = [outcome EXCEPT ![idx] = result]
    /\ idx' = next
    /\ attempt' = 1
    /\ pc' = IF next > NumEvents THEN "done" ELSE "send"

LastAttemptPlusOne(n) == n > maxSendAttempts
LastAttempt(n) == n >= maxSendAttempts

\* Send returned an error.
SendFailed ==
    IF LastAttempt(attempt)
    THEN Finish("givenUp", AfterGivingUp(idx))
    ELSE pc' = "send" /\ attempt' = attempt + 1 /\ UNCHANGED <<idx, outcome>>

\* Send: the request reaches the event-api.
Post ==
    /\ pc = "send" /\ idx <= NumEvents
    /\ pc' = "wait"
    /\ requests' = requests \cup {Request(idx, attempt, <<"given", idx>>)}
    /\ UNCHANGED <<idx, attempt, outcome, tries, generated, kafkaVars, faults>>

\* Send: it does not (connection refused).
Unreachable ==
    /\ pc = "send" /\ idx <= NumEvents
    /\ SendFailed
    /\ UNCHANGED <<tries, apiVars, kafkaVars, faults>>

\* The answer arrives: anything below 400 is success, 5xx and a broken
\* connection are retried.  A 4xx is permanent: sendWithRetry returns at once.
Answer(r) ==
    /\ r \in Awaited
    /\ \/ r.stage = "202" /\ Finish("sent", idx + 1)
       \/ r.stage \in {"500", "died"} /\ SendFailed
    /\ requests' = requests \ {r}
    /\ UNCHANGED <<tries, generated, kafkaVars, faults>>

\* The client's timeout: the attempt failed, the request lives on.
AssumeSent == Finish("sent", idx + 1)
OnTimeout == SendFailed

Timeout ==
    /\ pc = "wait"
    /\ Spend("timeout")
    /\ OnTimeout
    /\ UNCHANGED <<tries, apiVars, kafkaVars>>

\* SIGTERM cancels the context: the request and the backoff are abandoned.
Cancel ==
    /\ pc \in {"send", "wait"}
    /\ Spend("cancel")
    /\ pc' = "stopped"
    /\ UNCHANGED <<idx, attempt, outcome, tries, apiVars, kafkaVars>>

-----------------------------------------------------------------------------
(* Other clients, posting and posting again as they like *)

\* What a client may name: its own event, another event, an id that was
\* generated for one, none, or something that is refused.
Named == {"given"} \X AllEvents \cup {"generated"} \X (1 .. generated) \cup {NoId, Refused}

ClientPost(ev, id) ==
    /\ tries[ev] < MaxTries
    /\ tries' = [tries EXCEPT ![ev] = @ + 1]
    /\ requests' = requests \cup {Request(ev, tries[ev] + 1, id)}
    /\ UNCHANGED <<simVars, generated, kafkaVars, faults>>

-----------------------------------------------------------------------------

Simulate == Post \/ Unreachable \/ (\E r \in requests : Answer(r)) \/ Timeout

Handle(r) == Reject(r) \/ Publish(r)

Next ==
    \/ Simulate \/ Cancel
    \/ \E r \in requests : Handle(r)
    \/ CrashApi
    \/ \E ev \in ClientEvents, id \in Named : ClientPost(ev, id)

Spec == Init /\ [][Next]_vars

\* The simulator's goroutine and the handlers run; nothing forces a client, a
\* fault or a signal.
FairSpec == /\ Spec
            /\ WF_vars(Simulate)
            /\ WF_vars(\E r \in requests : Handle(r))

-----------------------------------------------------------------------------
(* Properties *)

Entry == [ev : AllEvents, id : EventIds]

\* Every variable has its type; no request was tried more often than its
\* sender may.
TypeOK ==
    /\ pc \in {"send", "wait", "done", "stopped"}
    /\ idx \in 1 .. NumEvents + 1
    /\ attempt \in 1 .. maxSendAttempts
    /\ outcome \in [SimEvents -> {"pending", "sent", "givenUp"}]
    /\ tries \in [ClientEvents -> 0 .. MaxTries]
    /\ \A r \in requests :
          /\ r.ev \in AllEvents
          /\ r.try \in 1 .. (IF r.ev \in SimEvents THEN maxSendAttempts ELSE MaxTries)
          /\ r.id \in EventIds \cup {NoId, Refused}
          /\ r.stage \in {"received", "202", "400", "500", "died"}
    /\ generated \in Nat
    /\ log \in [1 .. Partitions -> Seq(Entry)]
    /\ rr \in 0 .. Partitions - 1
    /\ lost \subseteq AllEvents /\ repeated \in Nat
    /\ faults \in [FaultKinds -> Nat]

OnTopic(ev) == \E p \in 1 .. Partitions : \E i \in DOMAIN log[p] : log[p][i].ev = ev

\* Nothing accepted is missing: an event the simulator takes as sent, and any
\* event whose request was answered 202, is on the topic, unless the broker
\* lost a batch nobody asked it to acknowledge.
AcceptedIsOnTopic ==
    /\ \A e \in SimEvents \ lost : outcome[e] = "sent" => OnTopic(e)
    /\ \A r \in requests : r.stage = "202" /\ r.ev \notin lost => OnTopic(r.ev)

Copies(ev) ==
    UNION {{<<p, i>> : i \in {j \in DOMAIN log[p] : log[p][j].ev = ev}} :
              p \in 1 .. Partitions}

\* Retrying is bounded: apart from the batches the Kafka writer repeats, an
\* event of the simulator is on the topic at most maxSendAttempts times, late
\* and repeated attempts included.
CopiesBounded ==
    \A e \in SimEvents : Cardinality(Copies(e)) <= maxSendAttempts + repeated

\* The ids an event is on the topic under, those its sender named, and the
\* requests that left it to event-api to name it.
IdsOf(ev) == {log[c[1]][c[2]].id : c \in Copies(ev)}

NamedFor(ev) ==
    IF ev \in SimEvents THEN {<<"given", ev>>}
    ELSE {r.id : r \in {q \in requests : q.ev = ev}}

Unnamed(ev) == {r \in requests : r.ev = ev /\ r.id = NoId /\ r.stage # "received"}

\* What deduplication has to go by: however often an event is retried, served
\* late or stored twice, it is on the topic under the ids its sender named, and
\* under no more fresh ones than there were requests that named none.  An event
\* of the simulator is there under one id; a client that names none and retries
\* has its event counted again for each fresh id, and no more often.
FreshIdsBounded ==
    \A ev \in AllEvents :
        Cardinality(IdsOf(ev) \ NamedFor(ev)) <= Cardinality(Unnamed(ev))

\* With one partition, an event the simulator takes as sent is first on the
\* topic before any copy of a later event, whatever timed out and landed late
\* (unless it was lost unacknowledged).
SentInOrder ==
    \A p \in 1 .. Partitions : \A j \in DOMAIN log[p] :
        \A e \in SimEvents \ lost :
            /\ log[p][j].ev \in SimEvents
            /\ e < log[p][j].ev
            /\ outcome[e] = "sent"
            => \E i \in 1 .. j - 1 : log[p][i].ev = e

\* All events of the simulated match land on one partition.
OnePartitionPerMatch ==
    Cardinality({p \in 1 .. Partitions :
        \E i \in DOMAIN log[p] : log[p][i].ev \in SimEvents}) <= 1

\* The simulation ends: no undeliverable event holds it up.
SimulationEnds == <>(pc \in {"done", "stopped"})
=============================================================================
