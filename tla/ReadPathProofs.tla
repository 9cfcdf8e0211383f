--------------------------- MODULE ReadPathProofs ---------------------------
(***************************************************************************)
(* What the clients of the query-api may rely on, for every set of         *)
(* clients, matches and messages: a listed match can be read whatever else *)
(* fails (for any number of replicas), and what was shown once is found    *)
(* again (for one replica that reaches Redis).                             *)
(***************************************************************************)
EXTENDS ReadPath, LossProofs

readPathVars == <<vars, readVars>>

\* The event-processor takes a step of its own, or none.
LEMMA ReplicaStep == [ReadNext]_readPathVars => [Next]_vars
  BY DEF ReadNext, Predict, readPathVars

-----------------------------------------------------------------------------
(* Types *)

ReadTypes == TypedHand /\ ReadTypeOK

LEMMA InitReadTypes == ReadInit => ReadTypes
<1> SUFFICES ASSUME ReadInit PROVE ReadTypes
  OBVIOUS
<1>1. TypedHand
  BY InitTyped DEF ReadInit
<1>2. <<>> \in Seq(Event)
  OBVIOUS
<1> QED
  BY <1>1, <1>2 DEF ReadInit, Q!Init, Q!Nothing, Empty, ReadTypes, ReadTypeOK

\* A published snapshot is a history of one of the matches.
LEMMA PublishedTyped ==
    ASSUME TypedHand, NEW i \in DOMAIN published
    PROVE  published[i].match \in Matches /\ published[i].events \in Seq(Event)
<1>1. published \in Seq([match : Matches, events : Seq(Event)])
  BY DEF TypedHand, TypeOK, OutOK
<1>2. \A S : \A q \in Seq(S) : \A k \in DOMAIN q : q[k] \in S
  OBVIOUS
<1>3. published[i] \in [match : Matches, events : Seq(Event)]
  BY <1>1, <1>2, Zenon
<1> QED
  BY <1>3

\* The longer history replaces the shorter one.
LEMMA ShowTyped ==
    ASSUME ReadTypes, NEW k \in Clients, NEW h \in [Matches -> Seq(Event)],
           Q!Show(k, h)
    PROVE  /\ shown' \in [Clients -> [Matches -> Seq(Event)]]
           /\ \A m \in Matches : shown'[k][m] \in {h[m], shown[k][m]}
           /\ \A j \in Clients \ {k} : shown'[j] = shown[j]
<1> DEFINE longer == [m \in Matches |-> IF Len(h[m]) >= Len(shown[k][m]) THEN h[m]
                                                                       ELSE shown[k][m]]
<1>1. shown \in [Clients -> [Matches -> Seq(Event)]]
  BY DEF ReadTypes, ReadTypeOK
<1>2. shown' = [shown EXCEPT ![k] = longer]
  BY DEF Q!Show
<1>3. longer \in [Matches -> Seq(Event)]
  BY <1>1
<1>4. \A m \in Matches : longer[m] \in {h[m], shown[k][m]}
  OBVIOUS
<1> HIDE DEF longer
<1>5. shown'[k] = longer /\ \A j \in Clients \ {k} : shown'[j] = shown[j]
  BY <1>1, <1>2
<1> QED
  BY <1>1, <1>2, <1>3, <1>4, <1>5

\* The step of a client, as far as the properties go: it starts to read the
\* matches that are listed now, or leaves one out, or collects a snapshot, or
\* is shown what it collected, a snapshot or a prediction.
LEMMA ServeSteps ==
    ASSUME ReadTypes, NEW k \in Clients, Q!Serve(k)
    PROVE  /\ reply' \in [Clients -> {"none", "pending", "ok", "error"}]
           /\ todo' \in [Clients -> SUBSET Matches]
           /\ body' \in [Clients -> [Matches -> Seq(Event)]]
           /\ shown' \in [Clients -> [Matches -> Seq(Event)]]
           /\ todo'[k] \subseteq active \/ todo'[k] \subseteq todo[k]
           /\ \A m \in Matches :
                /\ body'[k][m] \in {body[k][m], stats[m], <<>>}
                /\ shown'[k][m] \in {shown[k][m], body[k][m], stats[m],
                                     predictions[m], <<>>}
           /\ \A j \in Clients \ {k} : /\ todo'[j] = todo[j]
                                       /\ body'[j] = body[j]
                                       /\ shown'[j] = shown[j]
<1> USE DEF ReadTypes, ReadTypeOK
<1>0. /\ stats \in [Matches -> Seq(Event)] /\ active \subseteq Matches
      /\ predictions \in [Matches -> Seq(Event)] /\ <<>> \in Seq(Event)
  BY DEF TypedHand, TypeOK, RedisOK
<1>1. CASE Q!List(k)
  BY <1>0, <1>1 DEF Q!List, Q!Answer
<1>2. CASE Q!Get(k)
  <2>1. PICK m \in todo[k] :
          /\ todo' = [todo EXCEPT ![k] = @ \ {m}]
          /\ body' \in {body, [body EXCEPT ![k][m] = stats[m]]}
    BY <1>2 DEF Q!Get
  <2>2. m \in Matches /\ UNCHANGED <<reply, shown>>
    BY <1>2 DEF Q!Get
  <2>3. /\ todo' \in [Clients -> SUBSET Matches] /\ todo'[k] \subseteq todo[k]
        /\ \A j \in Clients \ {k} : todo'[j] = todo[j]
    BY <2>1
  <2>4. /\ body' \in [Clients -> [Matches -> Seq(Event)]]
        /\ \A n \in Matches : body'[k][n] \in {body[k][n], stats[n]}
        /\ \A j \in Clients \ {k} : body'[j] = body[j]
    <3> DEFINE row == [body[k] EXCEPT ![m] = stats[m]]
    <3>1. row \in [Matches -> Seq(Event)] /\ \A n \in Matches : row[n] \in {body[k][n], stats[n]}
      BY <1>0, <2>2
    <3>2. body' = body \/ body' = [body EXCEPT ![k] = row]
      BY <2>1
    <3> HIDE DEF row
    <3> QED
      BY <3>1, <3>2
  <2> QED
    BY <2>2, <2>3, <2>4
<1>3. CASE Q!Reply(k)
  <2>1. /\ Q!Show(k, body[k]) /\ body[k] \in [Matches -> Seq(Event)]
        /\ body' = [body EXCEPT ![k] = Q!Nothing] /\ todo' = todo
        /\ reply' = [reply EXCEPT ![k] = "ok"]
    BY <1>3 DEF Q!Reply, Q!Answer
  <2>2. Q!Nothing \in [Matches -> Seq(Event)] /\ \A m \in Matches : Q!Nothing[m] = <<>>
    BY <1>0 DEF Q!Nothing
  <2> QED
    BY <2>1, <2>2, ShowTyped
<1>4. ASSUME NEW key \in [Matches -> Seq(Event)], key = stats \/ key = predictions,
             Q!GetOne(k, key)
      PROVE  /\ reply' \in [Clients -> {"none", "pending", "ok", "error"}]
             /\ UNCHANGED <<todo, body>>
             /\ shown' \in [Clients -> [Matches -> Seq(Event)]]
             /\ \A m \in Matches : shown'[k][m] \in {shown[k][m], key[m], <<>>}
             /\ \A j \in Clients \ {k} : shown'[j] = shown[j]
  <2>1. reply' \in [Clients -> {"none", "pending", "ok", "error"}]
    BY <1>4 DEF Q!GetOne, Q!Answer
  <2>2. ASSUME NEW m \in Matches, Q!Show(k, [Q!Nothing EXCEPT ![m] = key[m]])
        PROVE  /\ shown' \in [Clients -> [Matches -> Seq(Event)]]
               /\ \A n \in Matches : shown'[k][n] \in {shown[k][n], key[n], <<>>}
               /\ \A j \in Clients \ {k} : shown'[j] = shown[j]
    <3> DEFINE h == [Q!Nothing EXCEPT ![m] = key[m]]
    <3>1. h \in [Matches -> Seq(Event)] /\ \A n \in Matches : h[n] \in {key[n], <<>>}
      BY <1>0 DEF Q!Nothing
    <3> HIDE DEF h
    <3>2. Q!Show(k, h)
      BY <2>2 DEF h
    <3> QED
      BY <3>1, <3>2, ShowTyped
  <2> QED
    BY <1>4, <2>1, <2>2 DEF Q!GetOne
<1>5. CASE Q!Detail(k) \/ Q!Predictions(k)
  BY <1>0, <1>4, <1>5 DEF Q!Detail, Q!Predictions
<1> QED
  BY <1>1, <1>2, <1>3, <1>5 DEF Q!Serve

LEMMA NextReadTypes == ReadTypes /\ [ReadNext]_readPathVars => ReadTypes'
<1> SUFFICES ASSUME ReadTypes, [ReadNext]_readPathVars PROVE ReadTypes'
  OBVIOUS
<1>1. TypedHand'
  BY ReplicaStep, NextTyped DEF ReadTypes
<1>2. CASE UNCHANGED readVars
  BY <1>1, <1>2 DEF ReadTypes, ReadTypeOK, readVars, queryVars
<1>3. CASE Predict
  <2>1. PICK i \in DOMAIN published :
          predictions' = [predictions EXCEPT ![published[i].match] = published[i].events]
    BY <1>3 DEF Predict, MadeFrom
  <2>2. published[i].match \in Matches /\ published[i].events \in Seq(Event)
    BY PublishedTyped DEF ReadTypes
  <2> QED
    BY <1>1, <1>3, <2>1, <2>2 DEF Predict, ReadTypes, ReadTypeOK, queryVars
<1>4. ASSUME NEW k \in Clients, Q!Serve(k), UNCHANGED predictions PROVE ReadTypes'
  BY <1>1, <1>4, ServeSteps DEF ReadTypes, ReadTypeOK
<1> QED
  BY <1>2, <1>3, <1>4 DEF ReadNext, readPathVars

LEMMA ReadTypesHold == ReadSpec => []ReadTypes
<1> QED
  BY InitReadTypes, NextReadTypes, PTL DEF ReadSpec, readPathVars

\* The predictions, the requests of every client and what each was shown keep
\* their types, with any number of clients, matches and replicas.
THEOREM ReadTypeCorrect == ReadSpec => []ReadTypeOK
<1>1. ReadTypes => ReadTypeOK
  BY DEF ReadTypes
<1> QED
  BY ReadTypesHold, <1>1, PTL

-----------------------------------------------------------------------------
(* What is listed can be read. *)

\* A step either is the replica's own or leaves it where it is.
LEMMA OwnStep ==
    ASSUME TypedHand, [Next]_vars, NEW d \in Consumers
    PROVE  \/ Start(d) \/ Step(d) \/ Crash(d)
           \/ pc'[d] = pc[d] /\ cur'[d] = cur[d] /\ mem'[d] = mem[d]
<1>0. /\ pc \in [Consumers -> Labels] /\ cur \in [Consumers -> Offsets]
      /\ mem \in [Consumers -> [Matches -> Seq(Event)]]
  BY DEF TypedHand, TypeOK, ReplicaOK, ReaderOK
<1>1. ASSUME NEW c \in Consumers, c # d, Start(c) \/ Step(c) \/ Crash(c)
      PROVE  pc'[d] = pc[d] /\ cur'[d] = cur[d] /\ mem'[d] = mem[d]
  BY <1>0, <1>1 DEF Step, Start, LoadMatch, StartReading, FetchMessage, FetchWith,
     Reserve, Inspect, FailOpen, Apply, Mark, SetStats, SetLatest, AddActiveMatch,
     Publish, RouteToDLQ, CommitMessages, Crash, Goto, readerVars
<1>2. ASSUME NEW c \in Consumers, Join(c) \/ Rebalance(c) \/ FlushCommit(c)
      PROVE  UNCHANGED <<pc, cur, mem>>
  BY <1>2 DEF Join, Rebalance, NewGeneration, FlushCommit
<1>3. ASSUME \/ \E msg \in Messages : Produce(msg)
             \/ \E id \in EventIds : Expire(id)
             \/ UNCHANGED vars
      PROVE  UNCHANGED <<pc, cur, mem>>
  BY <1>3 DEF Produce, Expire, vars, readerVars
<1> QED
  BY <1>1, <1>2, <1>3 DEF Next

\* The message in hand stays the same.
LEMMA HandStays ==
    ASSUME TypedHand, [Next]_vars, NEW c \in Consumers, pc[c] \in InHand,
           cur'[c] = cur[c]
    PROVE  Msg(c)' = Msg(c)
<1>1. cur[c] \in 1 .. Len(topic)
  BY DEF TypedHand, TypeOK, HandOK, ReaderOK, Offsets, KafkaOK
<1> QED
  BY <1>1, NextLasting DEF Lasting, Msg

\* What is about to be written, or listed, is there.
Written(c) ==
    /\ pc[c] \in {"mark", "setStats"} => mem[c][Msg(c).match] # <<>>
    /\ pc[c] \in {"setLatest", "addActive"} => stats[Msg(c).match] # <<>>

ListedInv == ListedIsReadable /\ \A c \in Consumers : Written(c)

ListedFacts == ReadTypes /\ faults["redis"] = 0 /\ ListedInv

\* A snapshot once written is never empty again.
LEMMA SnapshotStays ==
    ASSUME TypedHand, \A c \in Consumers : Written(c), [Next]_vars,
           NEW m \in Matches, stats[m] # <<>>
    PROVE  stats'[m] # <<>>
<1>1. CASE UNCHANGED stats
  BY <1>1
<1>2. ASSUME NEW c \in Consumers, SetStats(c) PROVE stats'[m] # <<>>
  <2>1. /\ pc[c] = "setStats" /\ stats \in [Matches -> Seq(Event)]
        /\ stats' \in {stats, [stats EXCEPT ![Msg(c).match] = mem[c][Msg(c).match]]}
    BY <1>2 DEF SetStats, RedisWrite, Snapshot, TypedHand, TypeOK, RedisOK
  <2>2. mem[c][Msg(c).match] # <<>>
    BY <2>1 DEF Written
  <2> QED
    BY <2>1, <2>2
<1>3. UNCHANGED stats \/ \E c \in Consumers : SetStats(c)
  BY ZenonT(60) DEF Next, Step, Produce, Start, LoadMatch, StartReading, FetchMessage, FetchWith,
     Reserve, Inspect, Apply, Mark, SetLatest, AddActiveMatch, Publish, RouteToDLQ,
     CommitMessages, Join, Rebalance, NewGeneration, FlushCommit, Crash, Expire,
     vars, redisVars
<1> QED
  BY <1>1, <1>2, <1>3

LEMMA AppendIsNotEmpty ==
    ASSUME NEW S, NEW s \in Seq(S), NEW e \in S PROVE Append(s, e) # <<>>
<1>1. Len(Append(s, e)) = Len(s) + 1 /\ Len(<<>>) = 0 /\ Len(s) \in Nat
  OBVIOUS
<1> QED
  BY <1>1

\* Every replica, on its way from the update to the listing, leaves what the
\* next step needs.
LEMMA WrittenStep ==
    ASSUME TypedHand, TypedHand', faults["redis"] = 0,
           \A c \in Consumers : Written(c), [Next]_vars, NEW d \in Consumers
    PROVE  Written(d)'
<1> DEFINE m == Msg(d).match
<1>0. /\ pc \in [Consumers -> Labels] /\ cur \in [Consumers -> Offsets]
      /\ mem \in [Consumers -> [Matches -> Seq(Event)]]
      /\ stats \in [Matches -> Seq(Event)]
  BY DEF TypedHand, TypeOK, ReplicaOK, ReaderOK, RedisOK
<1>1. CASE pc'[d] = pc[d] /\ cur'[d] = cur[d] /\ mem'[d] = mem[d]
  <2>1. pc[d] \in InHand => Msg(d)' = Msg(d)
    BY <1>1, HandStays
  <2>2. pc[d] \in {"setLatest", "addActive"} => Msg(d).match \in Matches
    BY InHandTyped
  <2> QED
    BY <1>1, <2>1, <2>2, SnapshotStays DEF Written, InHand
<1>2. CASE Apply(d)
  <2>1. /\ pc[d] = "apply" /\ pc'[d] \in {"mark", "setStats"} /\ cur' = cur
        /\ mem' = [mem EXCEPT ![d][m] = Append(@, Msg(d))]
    BY <1>0, <1>2 DEF Apply, Goto, PersistOrder, readerVars
  <2>2. Msg(d)' = Msg(d) /\ m \in Matches /\ Msg(d) \in Event
    BY <2>1, HandStays, InHandTyped DEF InHand
  <2>3. mem'[d][m] = Append(mem[d][m], Msg(d)) /\ mem[d][m] \in Seq(Event)
    BY <1>0, <2>1, <2>2
  <2>4. mem'[d][m] # <<>>
    BY <2>2, <2>3, AppendIsNotEmpty
  <2> QED
    BY <2>1, <2>2, <2>4 DEF Written
<1>3. CASE Mark(d)
  <2>1. /\ pc[d] = "mark" /\ pc'[d] = "setStats" /\ cur' = cur /\ mem' = mem
    BY <1>0, <1>3 DEF Mark, Goto, PersistOrder, readerVars
  <2>2. Msg(d)' = Msg(d)
    BY <2>1, HandStays DEF InHand
  <2> QED
    BY <2>1, <2>2 DEF Written
<1>4. CASE SetStats(d)
  <2>1. /\ pc[d] = "setStats" /\ pc'[d] = "setLatest" /\ cur' = cur
        /\ stats' = [stats EXCEPT ![m] = mem[d][m]]
    BY <1>0, <1>4 DEF SetStats, RedisWrite, Spend, Snapshot, Goto, PersistOrder, readerVars
  <2>2. Msg(d)' = Msg(d) /\ m \in Matches /\ mem[d][m] # <<>>
    BY <2>1, HandStays, InHandTyped DEF InHand, Written
  <2>3. stats'[m] # <<>>
    BY <1>0, <2>1, <2>2
  <2> QED
    BY <2>1, <2>2, <2>3 DEF Written
<1>5. CASE SetLatest(d)
  <2>1. /\ pc[d] = "setLatest" /\ pc'[d] = "addActive" /\ cur' = cur
        /\ stats' = stats
    BY <1>0, <1>5 DEF SetLatest, Goto, PersistOrder, readerVars
  <2>2. Msg(d)' = Msg(d)
    BY <2>1, HandStays DEF InHand
  <2> QED
    BY <2>1, <2>2 DEF Written
<1>6. ASSUME \/ Start(d) \/ LoadMatch(d) \/ StartReading(d) \/ FetchMessage(d)
             \/ Reserve(d) \/ Inspect(d) \/ AddActiveMatch(d) \/ Publish(d)
             \/ RouteToDLQ(d) \/ CommitMessages(d) \/ Crash(d)
      PROVE  pc'[d] \notin {"mark", "setStats", "setLatest", "addActive"}
  BY <1>0, <1>6 DEF Start, LoadMatch, StartReading, FetchMessage, FetchWith, Dispatch,
     Reserve, Inspect, FailOpen, OnReservation, OnReserveError, AddActiveMatch,
     Publish, PersistOrder, RouteToDLQ, CommitMessages, Crash, Goto
<1> QED
  BY <1>1, <1>2, <1>3, <1>4, <1>5, <1>6, OwnStep DEF Step, Written

\* A match gets listed after its snapshot was written.
LEMMA ListedStep ==
    ASSUME TypedHand, faults["redis"] = 0, \A c \in Consumers : Written(c),
           [Next]_vars, NEW m \in active'
    PROVE  m \in active \/ stats'[m] # <<>>
<1>1. ASSUME NEW c \in Consumers, AddActiveMatch(c)
      PROVE  m \in active \/ stats'[m] # <<>>
  <2>1. /\ pc[c] = "addActive" /\ stats' = stats
        /\ active' = active \cup {Msg(c).match}
    BY <1>1 DEF AddActiveMatch, RedisWrite, Spend
  <2> QED
    BY <2>1 DEF Written
<1>2. active' = active \/ \E c \in Consumers : AddActiveMatch(c)
  BY ZenonT(60) DEF Next, Step, Produce, Start, LoadMatch, StartReading, FetchMessage, FetchWith,
     Reserve, Inspect, Apply, Mark, SetStats, SetLatest, Publish, RouteToDLQ,
     CommitMessages, Join, Rebalance, NewGeneration, FlushCommit, Crash, Expire,
     vars, redisVars
<1> QED
  BY <1>1, <1>2

LEMMA NextListed == ListedFacts /\ [ReadNext]_readPathVars => ListedFacts'
<1> SUFFICES ASSUME ListedFacts, [ReadNext]_readPathVars PROVE ListedFacts'
  OBVIOUS
<1>1. /\ ReadTypes' /\ faults'["redis"] = 0 /\ [Next]_vars
      /\ TypedHand /\ TypedHand' /\ faults["redis"] = 0
      /\ \A c \in Consumers : Written(c)
  BY NextReadTypes, ReplicaStep, BudgetStep
  DEF ListedFacts, ListedInv, ReadTypes, FaultKinds
<1>2. /\ \A c \in Consumers : Written(c)'
      /\ \A m \in Matches : stats[m] # <<>> => stats'[m] # <<>>
  BY <1>1, WrittenStep, SnapshotStays
<1>3. /\ \A m \in active : m \in Matches /\ stats[m] # <<>>
      /\ \A k \in Clients : \A m \in todo[k] : m \in Matches /\ stats[m] # <<>>
  BY DEF ListedFacts, ListedInv, ListedIsReadable, ReadTypes, ReadTypeOK,
     TypedHand, TypeOK, RedisOK
<1>4. \A m \in active' : stats'[m] # <<>>
  BY <1>1, <1>2, <1>3, ListedStep
<1>5. \A k \in Clients : todo'[k] \subseteq active \/ todo'[k] \subseteq todo[k]
  <2>1. CASE UNCHANGED todo
    BY <2>1
  <2>2. ASSUME NEW k \in Clients, Q!Serve(k)
        PROVE  \A j \in Clients : todo'[j] \subseteq active \/ todo'[j] \subseteq todo[j]
    <3>1. \/ todo'[k] \subseteq active \/ todo'[k] \subseteq todo[k]
      BY <2>2, ServeSteps DEF ListedFacts
    <3>2. \A j \in Clients \ {k} : todo'[j] = todo[j]
      BY <2>2, ServeSteps DEF ListedFacts
    <3> QED
      BY <3>1, <3>2
  <2> QED
    BY <2>1, <2>2 DEF ReadNext, Predict, readPathVars, readVars, queryVars
<1>6. ListedIsReadable'
  BY <1>2, <1>3, <1>4, <1>5 DEF ListedIsReadable
<1> QED
  BY <1>1, <1>2, <1>6 DEF ListedFacts, ListedInv

\* Every match in matches:active, and every match a /matches request is about
\* to read, has a snapshot: for any number of replicas, and whatever crashes,
\* failed restores, redeliveries and rebalances there are, as long as the
\* writes to Redis succeed.
THEOREM ListIsReadable ==
    ASSUME MaxFaults["redis"] = 0 PROVE ReadSpec => []ListedIsReadable
<1>1. ReadInit => ListedFacts
  BY InitReadTypes DEF ReadInit, Init, Q!Init, ListedFacts, ListedInv, Written,
     ListedIsReadable
<1>2. ListedFacts => ListedIsReadable
  BY DEF ListedFacts, ListedInv
<1> QED
  BY <1>1, <1>2, NextListed, PTL DEF ReadSpec, readPathVars

-----------------------------------------------------------------------------
(* What was shown is found again. *)

\* A replica is about to list the match whose snapshot it has written.
Listing(c, m) == pc[c] \in {"setLatest", "addActive"} /\ Msg(c).match = m

\* A match that is not listed has at most one event in its snapshot, in the
\* hand of the replica about to list it or lost with one that died before.
UnlistedInv ==
    \A m \in Matches \ active :
        stats[m] # <<>> =>
            /\ Len(stats[m]) = 1
            /\ \/ stats[m][1].id \in abandoned
               \/ \E c \in Consumers : Listing(c, m)

\* Whoever saw this history of a match finds it again.
Found(h, m) ==
    \/ IsPrefix(h, stats[m])
    \/ \E i \in DOMAIN h : h[i].id \in abandoned

\* Whatever was predicted, collected or shown is found again.
ShownInv ==
    \A m \in Matches :
        /\ Found(predictions[m], m)
        /\ \A k \in Clients : Found(body[k][m], m) /\ Found(shown[k][m], m)

ShownFacts == ReadTypes /\ FeedFacts /\ Announced /\ UnlistedInv /\ ShownInv

\* A step writes the snapshot of one match at most, lists one at most.
LEMMA StoreSteps ==
    ASSUME TypedHand, [Next]_vars
    PROVE  /\ UNCHANGED stats \/ \E c \in Consumers : SetStats(c)
           /\ UNCHANGED active \/ \E c \in Consumers : AddActiveMatch(c)
           /\ active \subseteq active'
<1>1. /\ UNCHANGED stats \/ \E c \in Consumers : SetStats(c)
      /\ UNCHANGED active \/ \E c \in Consumers : AddActiveMatch(c)
  BY ZenonT(60) DEF Next, Step, Produce, Start, LoadMatch, StartReading, FetchMessage, FetchWith,
     Reserve, Inspect, Apply, Mark, SetLatest, Publish, RouteToDLQ,
     CommitMessages, Join, Rebalance, NewGeneration, FlushCommit, Crash, Expire,
     SetStats, AddActiveMatch, vars, redisVars
<1>2. ASSUME NEW c \in Consumers, AddActiveMatch(c) PROVE active \subseteq active'
  BY <1>2 DEF AddActiveMatch, RedisWrite
<1> QED
  BY <1>1, <1>2

\* A replica writes a snapshot: what it replaces was listed and is extended, or
\* died with a replica.
LEMMA SetStatsStep ==
    ASSUME FeedFacts, Reliable, UnlistedInv, NEW c \in Consumers, SetStats(c)
    PROVE  LET m == Msg(c).match IN
           /\ m \in Matches /\ pc[c] = "setStats" /\ pc'[c] = "setLatest"
           /\ cur' = cur /\ active' = active /\ Msg(c)' = Msg(c)
           /\ \A n \in Matches \ {m} : stats'[n] = stats[n]
           /\ m \notin active /\ stats[m] # <<>> =>
                Len(stats[m]) = 1 /\ stats[m][1].id \in abandoned
<1> USE DEF FeedFacts, DedupeFacts, TypedHand, TypeOK
<1> DEFINE m == Msg(c).match
<1>1. /\ pc[c] = "setStats" /\ pc'[c] = "setLatest" /\ cur' = cur /\ active' = active
      /\ topic' = topic /\ stats' = [stats EXCEPT ![m] = mem[c][m]]
  BY DEF SetStats, RedisWrite, NoRedisFault, Spend, Snapshot, Goto, PersistOrder,
     ReplicaOK, readerVars, kafkaVars
<1>2. m \in Matches /\ Msg(c)' = Msg(c)
  BY <1>1, InHandTyped DEF Msg
<1>3. \A n \in Matches \ {m} : stats'[n] = stats[n]
  BY <1>1, <1>2 DEF RedisOK
<1>4. \A d \in Consumers : ~Listing(d, m)
  BY <1>1 DEF Listing, Reliable
<1>5. m \notin active /\ stats[m] # <<>> =>
        Len(stats[m]) = 1 /\ stats[m][1].id \in abandoned
  BY <1>2, <1>4 DEF UnlistedInv
<1> QED
  BY <1>1, <1>2, <1>3, <1>5

\* A snapshot is extended, unless it holds one event that died with a replica.
LEMMA SnapshotExtended ==
    ASSUME FeedFacts, Reliable, UnlistedInv, [Next]_vars, NEW m \in Matches
    PROVE  \/ IsPrefix(stats[m], stats'[m])
           \/ Len(stats[m]) = 1 /\ stats[m][1].id \in abandoned
<1>1. /\ stats[m] \in Seq(Event) /\ stats'[m] \in Seq(Event)
      /\ TypedHand /\ TypedHand' /\ FeedStep /\ active \subseteq active'
  BY NextFeed, StoreSteps DEF FeedFacts, DedupeFacts, TypedHand, TypeOK, RedisOK
<1>2. CASE m \in active
  <2>1. Listed[m] = stats[m] /\ Listed'[m] = stats'[m]
    BY <1>1, <1>2 DEF Listed
  <2> QED
    BY <1>1, <2>1, ListedGrows
<1>3. CASE stats'[m] = stats[m]
  <2>1. Len(stats[m]) <= Len(stats[m])
    BY <1>1
  <2> QED
    BY <1>1, <1>3, <2>1, PrefixItems
<1>4. CASE stats[m] = <<>>
  BY <1>1, <1>4, EmptyIsPrefix
<1>5. ASSUME NEW c \in Consumers, SetStats(c), m \notin active, stats[m] # <<>>
      PROVE  \/ stats'[m] = stats[m]
             \/ Len(stats[m]) = 1 /\ stats[m][1].id \in abandoned
  BY <1>5, SetStatsStep
<1> QED
  BY <1>1, <1>2, <1>3, <1>4, <1>5, StoreSteps

\* So what was found is found again.
LEMMA FoundStays ==
    ASSUME FeedFacts, Reliable, UnlistedInv, [Next]_vars, NEW m \in Matches,
           NEW h \in Seq(Event), Found(h, m)
    PROVE  Found(h, m)'
<1>1. abandoned \subseteq abandoned'
  BY AbandonedGrows
<1>2. stats[m] \in Seq(Event) /\ stats'[m] \in Seq(Event)
  BY NextFeed DEF FeedFacts, DedupeFacts, TypedHand, TypeOK, RedisOK
<1>3. CASE \E i \in DOMAIN h : h[i].id \in abandoned
  BY <1>1, <1>3 DEF Found
<1>4. CASE IsPrefix(h, stats[m])
  <2>1. Len(h) <= Len(stats[m]) /\ \A i \in 1 .. Len(h) : h[i] = stats[m][i]
    BY <1>2, <1>4, PrefixItems
  <2>2. CASE IsPrefix(stats[m], stats'[m])
    <3>1. /\ Len(stats[m]) <= Len(stats'[m])
          /\ \A i \in 1 .. Len(stats[m]) : stats[m][i] = stats'[m][i]
      BY <1>2, <2>2, PrefixItems
    <3>2. Len(h) <= Len(stats'[m]) /\ \A i \in 1 .. Len(h) : h[i] = stats'[m][i]
      BY <1>2, <2>1, <3>1
    <3> QED
      BY <1>2, <3>2, PrefixItems DEF Found
  <2>3. CASE Len(stats[m]) = 1 /\ stats[m][1].id \in abandoned
    <3>1. CASE h = <<>>
      BY <1>2, <3>1, EmptyIsPrefix DEF Found
    <3>2. CASE h # <<>>
      <4>1. DOMAIN h = 1 .. Len(h) /\ Len(h) \in Nat /\ Len(h) # 0
        BY <3>2
      <4>2. 1 \in DOMAIN h /\ h[1] = stats[m][1]
        BY <2>1, <2>3, <4>1
      <4> QED
        BY <1>1, <2>3, <4>2 DEF Found
    <3> QED
      BY <3>1, <3>2
  <2> QED
    BY <2>2, <2>3, SnapshotExtended
<1> QED
  BY <1>3, <1>4 DEF Found

\* An unlisted match whose snapshot is not touched.
LEMMA UnlistedStays ==
    ASSUME UnlistedInv, NEW m \in Matches \ active, stats'[m] = stats[m],
           abandoned \subseteq abandoned',
           \A c \in Consumers :
              Listing(c, m) => Listing(c, m)' \/ stats[m][1].id \in abandoned'
    PROVE  stats'[m] # <<>> =>
              /\ Len(stats'[m]) = 1
              /\ \/ stats'[m][1].id \in abandoned'
                 \/ \E c \in Consumers : Listing(c, m)'
  BY DEF UnlistedInv

\* A replica about to list a match goes on to do so, or dies and the event
\* with it.
LEMMA ListingStays ==
    ASSUME FeedFacts, Reliable, UnlistedInv, [Next]_vars, NEW c \in Consumers,
           NEW m \in Matches \ active', Listing(c, m)
    PROVE  Listing(c, m)' \/ stats[m][1].id \in abandoned'
<1> USE DEF FeedFacts, DedupeFacts
<1>0. /\ pc \in [Consumers -> Labels] /\ mem \in [Consumers -> [Matches -> Seq(Event)]]
      /\ pc[c] \in {"setLatest", "addActive"} /\ Msg(c).match = m /\ Msg(c) \in Event
  BY InHandTyped DEF TypedHand, TypeOK, ReplicaOK, Listing
<1>1. CASE pc'[c] = pc[c] /\ cur'[c] = cur[c] /\ mem'[c] = mem[c]
  <2>1. Msg(c)' = Msg(c)
    BY <1>0, <1>1, HandStays DEF InHand
  <2> QED
    BY <1>0, <1>1, <2>1 DEF Listing
<1>2. CASE SetLatest(c)
  <2>1. pc'[c] = "addActive" /\ cur'[c] = cur[c]
    BY <1>0, <1>2 DEF SetLatest, Goto, PersistOrder, readerVars
  <2>2. Msg(c)' = Msg(c)
    BY <1>0, <2>1, HandStays DEF InHand
  <2> QED
    BY <1>0, <2>1, <2>2 DEF Listing
<1>3. ~AddActiveMatch(c)
  BY <1>0 DEF AddActiveMatch, RedisWrite, NoRedisFault, Spend
<1>4. CASE Crash(c)
  <2>1. /\ mem[c][m] = stats[m] /\ (m \notin active => stats[m] = <<Msg(c)>>)
    BY <1>0 DEF FeedInv, InStep
  <2>2. m \notin active
    BY StoreSteps
  <2>3. stats[m][1] = Msg(c) /\ 1 \in DOMAIN mem[c][m] /\ Msg(c).id \in EventIds \cup {NoId}
    BY <1>0, <2>1, <2>2 DEF Event
  <2>4. Holds(mem[c][m], Msg(c).id)
    BY <2>1, <2>3 DEF Holds
  <2>5. Msg(c).id \in DiesWith(c)
    BY <2>2, <2>3, <2>4 DEF DiesWith
  <2> QED
    BY <1>4, <2>3, <2>5 DEF Crash
<1> QED
  BY <1>0, <1>1, <1>2, <1>3, <1>4, OwnStep
  DEF Step, Start, LoadMatch, StartReading, FetchMessage, FetchWith, Reserve, Inspect,
      Apply, Mark, SetStats, Publish, RouteToDLQ, CommitMessages

LEMMA UnlistedStep ==
    ASSUME FeedFacts, Reliable, UnlistedInv, [Next]_vars PROVE UnlistedInv'
<1> SUFFICES ASSUME NEW m \in Matches \ active'
             PROVE  stats'[m] # <<>> =>
                      /\ Len(stats'[m]) = 1
                      /\ \/ stats'[m][1].id \in abandoned'
                         \/ \E c \in Consumers : Listing(c, m)'
  BY DEF UnlistedInv
<1>0. m \in Matches \ active /\ abandoned \subseteq abandoned'
  BY StoreSteps, AbandonedGrows DEF FeedFacts, DedupeFacts
<1>1. CASE stats'[m] = stats[m]
  BY <1>0, <1>1, UnlistedStays, ListingStays
<1>2. ASSUME NEW c \in Consumers, SetStats(c), Msg(c).match = m
      PROVE  Len(stats'[m]) = 1 /\ Listing(c, m)'
  <2>1. /\ pc'[c] = "setLatest" /\ Msg(c)' = Msg(c) /\ active' = active
    BY <1>2, SetStatsStep
  <2>2. InStep(c)'
    BY NextFeed DEF FeedFacts, FeedInv
  <2>3. stats'[m] = <<Msg(c)>>
    BY <1>0, <1>2, <2>1, <2>2 DEF InStep
  <2> QED
    BY <1>2, <2>1, <2>3 DEF Listing
<1>3. ASSUME NEW c \in Consumers, SetStats(c), Msg(c).match # m
      PROVE  stats'[m] = stats[m]
  BY <1>3, SetStatsStep
<1> QED
  BY <1>1, <1>2, <1>3, StoreSteps DEF FeedFacts, DedupeFacts

\* What is found of a match includes nothing at all, the snapshot itself, and
\* whatever was announced of it.
LEMMA FoundNow ==
    ASSUME TypedHand, Announced
    PROVE  /\ \A m \in Matches : Found(<<>>, m) /\ Found(stats[m], m)
           /\ \A i \in DOMAIN published : Found(published[i].events, published[i].match)
<1>1. \A m \in Matches : stats[m] \in Seq(Event)
  BY DEF TypedHand, TypeOK, RedisOK
<1>2. ASSUME NEW m \in Matches PROVE Found(<<>>, m) /\ Found(stats[m], m)
  <2>1. IsPrefix(<<>>, stats[m])
    BY <1>1, EmptyIsPrefix
  <2>2. IsPrefix(stats[m], stats[m])
    <3>1. Len(stats[m]) <= Len(stats[m])
      BY <1>1
    <3> QED
      BY <1>1, <3>1, PrefixItems
  <2> QED
    BY <2>1, <2>2 DEF Found
<1>3. ASSUME NEW i \in DOMAIN published
      PROVE  Found(published[i].events, published[i].match)
  <2> DEFINE h == published[i].events
             m == published[i].match
  <2>1. m \in Matches /\ h \in Seq(Event) /\ IsPrefix(h, Listed[m])
    BY PublishedTyped DEF Announced
  <2>2. CASE m \in active
    BY <2>1, <2>2 DEF Listed, Found
  <2>3. CASE m \notin active
    <3>1. IsPrefix(h, <<>>)
      BY <2>1, <2>3 DEF Listed
    <3>2. <<>> \in Seq(Event) /\ Len(<<>>) = 0
      OBVIOUS
    <3>3. Len(h) <= Len(<<>>)
      <4> HIDE DEF h
      <4> QED
        BY <2>1, <3>1, <3>2, PrefixItems
    <3>4. h = <<>>
      <4> HIDE DEF h
      <4> QED
        BY <2>1, <3>2, <3>3
    <3> QED
      BY <1>2, <2>1, <3>4
  <2> QED
    BY <2>2, <2>3
<1> QED
  BY <1>2, <1>3

LEMMA NextShown ==
    ASSUME ShownFacts, Reliable, [ReadNext]_readPathVars PROVE ShownFacts'
<1> DEFINE FoundLater(h, m) == \/ IsPrefix(h, stats'[m])
                               \/ \E i \in DOMAIN h : h[i].id \in abandoned'
<1>0. /\ FeedFacts /\ UnlistedInv /\ [Next]_vars /\ ReadTypes
  BY ReplicaStep DEF ShownFacts
<1>1. ReadTypes' /\ FeedFacts' /\ Announced' /\ UnlistedInv'
  BY <1>0, NextReadTypes, NextFeed, AnnouncedStep, UnlistedStep
  DEF ShownFacts, FeedFacts, DedupeFacts
<1>2. ASSUME NEW m \in Matches, NEW h \in Seq(Event), Found(h, m) PROVE FoundLater(h, m)
  <2>1. Found(h, m)'
    BY <1>0, <1>2, FoundStays
  <2> QED
    BY <2>1 DEF Found
<1>3. /\ \A m \in Matches : Found(<<>>, m) /\ Found(stats[m], m)
      /\ \A i \in DOMAIN published : Found(published[i].events, published[i].match)
  BY <1>0, FoundNow DEF ShownFacts, FeedFacts, DedupeFacts
<1>4. \A m \in Matches :
         /\ predictions[m] \in Seq(Event) /\ Found(predictions[m], m)
         /\ stats[m] \in Seq(Event) /\ <<>> \in Seq(Event)
         /\ \A k \in Clients : /\ body[k][m] \in Seq(Event) /\ Found(body[k][m], m)
                               /\ shown[k][m] \in Seq(Event) /\ Found(shown[k][m], m)
  BY <1>0 DEF ShownFacts, ShownInv, ReadTypes, ReadTypeOK, TypedHand, TypeOK, RedisOK
<1>5. /\ \A i \in DOMAIN published :
            /\ published[i].match \in Matches
            /\ FoundLater(published[i].events, published[i].match)
      /\ \A m \in Matches :
            \A h \in {stats[m], predictions[m], <<>>} : FoundLater(h, m)
      /\ \A m \in Matches : \A k \in Clients :
            FoundLater(body[k][m], m) /\ FoundLater(shown[k][m], m)
  <2> HIDE DEF FoundLater
  <2>1. \A i \in DOMAIN published :
           published[i].match \in Matches /\ published[i].events \in Seq(Event)
    BY <1>0, PublishedTyped DEF ReadTypes
  <2> QED
    BY <1>2, <1>3, <1>4, <2>1
<1>6. /\ \A m \in Matches : FoundLater(predictions'[m], m)
      /\ \A m \in Matches : \A k \in Clients :
            FoundLater(body'[k][m], m) /\ FoundLater(shown'[k][m], m)
  <2> HIDE DEF FoundLater
  <2>1. CASE UNCHANGED <<predictions, body, shown>>
    BY <1>5, <2>1
  <2>2. CASE Predict
    <3>1. PICK i \in DOMAIN published :
            predictions' = [predictions EXCEPT ![published[i].match] = published[i].events]
      BY <2>2 DEF Predict, MadeFrom
    <3>2. UNCHANGED <<body, shown>>
      BY <2>2 DEF Predict, queryVars
    <3> QED
      BY <1>0, <1>5, <3>1, <3>2 DEF ReadTypes, ReadTypeOK
  <2>3. ASSUME NEW k \in Clients, Q!Serve(k), UNCHANGED <<vars, predictions>>
        PROVE  /\ \A m \in Matches : FoundLater(predictions'[m], m)
               /\ \A m \in Matches : \A j \in Clients :
                     FoundLater(body'[j][m], m) /\ FoundLater(shown'[j][m], m)
    <3>1. \A m \in Matches :
            /\ body'[k][m] \in {body[k][m], stats[m], <<>>}
            /\ shown'[k][m] \in {shown[k][m], body[k][m], stats[m], predictions[m], <<>>}
      BY <1>0, <2>3, ServeSteps
    <3>2. \A j \in Clients \ {k} : body'[j] = body[j] /\ shown'[j] = shown[j]
      BY <1>0, <2>3, ServeSteps
    <3>3. \A m \in Matches : FoundLater(body'[k][m], m) /\ FoundLater(shown'[k][m], m)
      BY <1>5, <3>1
    <3> QED
      BY <1>5, <2>3, <3>2, <3>3
  <2> QED
    BY <2>1, <2>2, <2>3 DEF ReadNext, readPathVars, readVars, queryVars
<1>7. ShownInv'
  BY <1>6 DEF ShownInv, Found
<1> QED
  BY <1>1, <1>7 DEF ShownFacts

LEMMA InitShown == ASSUME Reliable, ReadInit PROVE ShownFacts
<1>1. ReadTypes /\ FeedFacts /\ TypedHand
  BY InitReadTypes, InitFeed DEF ReadInit, ReadTypes
<1>2. Announced /\ UnlistedInv
  BY DEF ReadInit, Init, Empty, Announced, PublishedNeverShrinks, UnlistedInv
<1>3. \A m \in Matches : Found(<<>>, m)
  BY <1>1, <1>2, FoundNow
<1>4. ShownInv
  BY <1>3 DEF ReadInit, Q!Init, Q!Nothing, Empty, ShownInv
<1> QED
  BY <1>1, <1>2, <1>4 DEF ShownFacts

LEMMA ShownFactsHold == ASSUME Reliable PROVE ReadSpec => []ShownFacts
<1>1. ReadInit => ShownFacts
  BY InitShown
<1>2. ShownFacts /\ [ReadNext]_readPathVars => ShownFacts'
  BY NextShown
<1> QED
  BY <1>1, <1>2, PTL DEF ReadSpec, readPathVars

\* What a client was shown of a match it finds again later, extended at most,
\* by whichever of the three endpoints and however the requests interleave
\* with the writes, the predictions and any number of crashes: unless a crash
\* took the event back before its match was listed.  For one replica that
\* reaches Redis; the runs failed_restore and handover show why.
THEOREM ShownIsFoundAgain == ASSUME Reliable PROVE ReadSpec => []ShownStays
<1>1. ShownFacts => ShownStays
  BY DEF ShownFacts, ShownInv, ShownStays, Found
<1> QED
  BY ShownFactsHold, <1>1, PTL

\* The clients and the predictions beside it take nothing from what the
\* event-processor promises: the composition implements MatchFeed.
THEOREM ReadPathImplementsFeed == ASSUME Reliable PROVE ReadSpec => FeedSpec
<1>1. ReadSpec => Spec
  BY ReplicaStep, PTL DEF ReadSpec, ReadInit, Spec, readPathVars
<1> QED
  BY <1>1, ImplementsFeed
=============================================================================
