-------------------------- MODULE IngestionProofs ---------------------------
(***************************************************************************)
(* What holds of the way to the topic for any number of events, clients,   *)
(* partitions and faults: its type, that nothing accepted is missing, that *)
(* an event gets no more fresh ids than requests named none, that retrying *)
(* stores a bounded number of copies, and, with one partition, that        *)
(* nothing sent is overtaken by a later event.                             *)
(***************************************************************************)
EXTENDS Ingestion, FiniteSetTheorems, TLAPS

-----------------------------------------------------------------------------
(* Types *)

Stages == {"received", "202", "400", "500", "died"}

Requests == [ev : AllEvents, try : Nat, id : EventIds \cup {NoId, Refused}, stage : Stages]

SimTypes ==
    /\ pc \in {"send", "wait", "done", "stopped"}
    /\ idx \in 1 .. NumEvents + 1
    /\ pc = "wait" => idx \in SimEvents
    /\ attempt \in 1 .. maxSendAttempts
    /\ outcome \in [SimEvents -> {"pending", "sent", "givenUp"}]

FaultTypes == faults \in [FaultKinds -> Nat]
TriesTypes == tries \in [ClientEvents -> 0 .. MaxTries]

\* A request of the simulator names its event, one that it has come to.
RequestOK(r) ==
    /\ r \in Requests
    /\ r.try \in 1 .. (IF r.ev \in SimEvents THEN maxSendAttempts ELSE MaxTries)
    /\ r.ev \in SimEvents => r.ev <= idx /\ r.id = <<"given", r.ev>>

ApiTypes == generated \in Nat /\ \A r \in requests : RequestOK(r)

KafkaTypes ==
    /\ log \in [1 .. Partitions -> Seq(Entry)]
    /\ rr \in 0 .. Partitions - 1
    /\ lost \subseteq AllEvents /\ repeated \in Nat

TypeInv == SimTypes /\ FaultTypes /\ TriesTypes /\ ApiTypes /\ KafkaTypes

LEMMA TypeInvImpliesTypeOK == TypeInv => TypeOK
  BY DEF TypeInv, SimTypes, FaultTypes, TriesTypes, ApiTypes, KafkaTypes,
         TypeOK, RequestOK, Requests, Stages

LEMMA InitTypeInv == Init => TypeInv
<1> SUFFICES ASSUME Init PROVE TypeInv
  OBVIOUS
<1>1. SimTypes
  BY BoundsAssumption DEF Init, SimTypes, SimEvents, maxSendAttempts
<1>2. FaultTypes /\ TriesTypes /\ ApiTypes
  BY BoundsAssumption DEF Init, FaultTypes, TriesTypes, ApiTypes
<1>3. KafkaTypes
  <2>1. <<>> \in Seq(Entry)
    OBVIOUS
  <2> QED
    BY BoundsAssumption, <2>1 DEF Init, KafkaTypes
<1> QED
  BY <1>1, <1>2, <1>3 DEF TypeInv

LEMMA SpendTypes ==
    ASSUME FaultTypes, NEW k \in FaultKinds, Spend(k)
    PROVE  FaultTypes'
  BY DEF FaultTypes, Spend

-----------------------------------------------------------------------------
(* The simulator's steps *)

\* sendWithRetry returns: the simulator moves on by one event and settles the
\* outcome of this one alone.
LEMMA Finished ==
    ASSUME SimTypes, idx \in SimEvents, NEW result \in {"sent", "givenUp"},
           Finish(result, idx + 1)
    PROVE  /\ SimTypes'
           /\ idx' = idx + 1
           /\ outcome' = [outcome EXCEPT ![idx] = result]
<1>1. NumEvents \in Nat
  BY BoundsAssumption
<1>2. idx' = idx + 1 /\ idx + 1 \in 1 .. NumEvents + 1
  BY <1>1 DEF Finish, SimEvents
<1>3. outcome' = [outcome EXCEPT ![idx] = result]
      /\ outcome' \in [SimEvents -> {"pending", "sent", "givenUp"}]
  BY DEF Finish, SimTypes
<1>4. pc' \in {"done", "send"} /\ attempt' = 1
  BY DEF Finish
<1> QED
  BY <1>2, <1>3, <1>4 DEF SimTypes, maxSendAttempts

LEMMA Failed ==
    ASSUME SimTypes, idx \in SimEvents, SendFailed
    PROVE  /\ SimTypes'
           /\ idx' \in {idx, idx + 1}
           /\ \A e \in SimEvents : outcome'[e] = "sent" => outcome[e] = "sent"
<1>1. CASE LastAttempt(attempt)
  <2>1. Finish("givenUp", idx + 1)
    BY <1>1 DEF SendFailed, AfterGivingUp
  <2>2. SimTypes' /\ idx' = idx + 1 /\ outcome' = [outcome EXCEPT ![idx] = "givenUp"]
    BY <2>1, Finished
  <2> QED
    BY <2>2 DEF SimTypes
<1>2. CASE ~LastAttempt(attempt)
  <2>1. pc' = "send" /\ attempt' = attempt + 1 /\ UNCHANGED <<idx, outcome>>
    BY <1>2 DEF SendFailed
  <2> QED
    BY <1>2, <2>1 DEF SimTypes, LastAttempt, maxSendAttempts
<1> QED
  BY <1>1, <1>2

\* The requests stay in order when they are dropped or advanced.
LEMMA RequestsKept ==
    ASSUME ApiTypes, SimTypes, idx' \in {idx, idx + 1}, generated' \in Nat,
           \A q \in requests' : \E r \in requests, s \in Stages :
               q = r \/ q = [r EXCEPT !.stage = s]
    PROVE  ApiTypes'
<1> SUFFICES ASSUME NEW q \in requests' PROVE RequestOK(q)'
  BY DEF ApiTypes
<1>1. PICK r \in requests, s \in Stages : q = r \/ q = [r EXCEPT !.stage = s]
  OBVIOUS
<1>2. RequestOK(r)
  BY DEF ApiTypes
<1>3. /\ q \in Requests
      /\ q.ev = r.ev /\ q.try = r.try /\ q.id = r.id
  BY <1>1, <1>2 DEF RequestOK, Requests
<1>4. r.ev \in SimEvents => r.ev <= idx'
  BY <1>2, BoundsAssumption DEF RequestOK, SimTypes, SimEvents
<1> QED
  BY <1>2, <1>3, <1>4 DEF RequestOK

-----------------------------------------------------------------------------
(* The step that writes to the topic *)

NewEntry(r) == [ev |-> r.ev, id |-> EventId(r)]

LEMMA NewEntryType ==
    ASSUME TypeInv, NEW r \in requests, Valid(r)
    PROVE  NewEntry(r) \in Entry
<1>1. /\ r.ev \in AllEvents /\ generated + 1 \in Nat
      /\ HasId(r) => r.id \in EventIds
  BY DEF TypeInv, ApiTypes, RequestOK, Requests, Valid, HasId
<1>2. <<"generated", generated + 1>> \in EventIds
  BY <1>1 DEF EventIds
<1>3. EventId(r) \in EventIds
  BY <1>1, <1>2 DEF EventId
<1> QED
  BY <1>1, <1>3 DEF NewEntry, Entry

\* Storing an event appends copies of it to one partition.
LEMMA WrittenLog ==
    ASSUME TypeInv, NEW r \in requests, Valid(r), NEW n \in 0 .. 2, log' = Written(r, n)
    PROVE  /\ log' \in [1 .. Partitions -> Seq(Entry)]
           /\ \A p \in 1 .. Partitions :
                /\ Len(log'[p]) >= Len(log[p])
                /\ \A i \in 1 .. Len(log[p]) : log'[p][i] = log[p][i]
                /\ \A i \in 1 .. Len(log'[p]) :
                      i > Len(log[p]) => log'[p][i] = NewEntry(r)
           /\ n > 0 => OnTopic(r.ev)'
<1> DEFINE q == NextPartition
           copies == [i \in 1 .. n |-> NewEntry(r)]
<1>1. q \in 1 .. Partitions
  <2>1. Partitions \in Nat \ {0} /\ rr \in 0 .. Partitions - 1
    BY BoundsAssumption DEF TypeInv, KafkaTypes
  <2>2. rr % Partitions \in 0 .. Partitions - 1
    BY <2>1
  <2> QED
    BY <2>1, <2>2 DEF NextPartition
<1>2. copies \in Seq(Entry) /\ Len(copies) = n
      /\ \A i \in 1 .. n : copies[i] = NewEntry(r)
  BY NewEntryType
<1>3. log \in [1 .. Partitions -> Seq(Entry)]
  BY DEF TypeInv, KafkaTypes
<1>4. log' = [log EXCEPT ![q] = log[q] \o copies]
  BY DEF Written, NewEntry
<1> HIDE DEF q, copies
<1>5. log[q] \in Seq(Entry)
  BY <1>1, <1>3
<1> DEFINE cat == log[q] \o copies
<1>6. /\ cat \in Seq(Entry)
      /\ Len(cat) = Len(log[q]) + n
      /\ \A i \in 1 .. Len(log[q]) : cat[i] = log[q][i]
      /\ \A i \in 1 .. Len(log[q]) + n :
            i > Len(log[q]) => cat[i] = NewEntry(r)
      /\ Len(log[q]) \in Nat
  BY <1>2, <1>5
<1> HIDE DEF cat
<1>7. log' \in [1 .. Partitions -> Seq(Entry)]
      /\ \A p \in 1 .. Partitions :
            log'[p] = IF p = q THEN cat ELSE log[p]
  BY <1>1, <1>3, <1>4, <1>6 DEF cat
<1>8. ASSUME NEW p \in 1 .. Partitions
      PROVE  /\ Len(log'[p]) >= Len(log[p])
             /\ \A i \in 1 .. Len(log[p]) : log'[p][i] = log[p][i]
             /\ \A i \in 1 .. Len(log'[p]) :
                   i > Len(log[p]) => log'[p][i] = NewEntry(r)
  <2>0. log[p] \in Seq(Entry)
    BY <1>3
  <2>1. CASE p = q
    <3>1. log'[p] = cat /\ log[p] = log[q]
      BY <1>7, <2>1
    <3> QED
      BY <1>6, <3>1
  <2>2. CASE p # q
    BY <1>7, <2>0, <2>2
  <2> QED
    BY <2>1, <2>2
<1>9. ASSUME n > 0 PROVE OnTopic(r.ev)'
  <2>0. log'[q] = cat /\ cat \in Seq(Entry)
    BY <1>1, <1>6, <1>7
  <2>1. Len(log[q]) + 1 \in 1 .. Len(cat)
    BY <1>6, <1>9
  <2>2. log'[q][Len(log[q]) + 1] = NewEntry(r)
    BY <1>6, <2>0, <2>1
  <2>3. Len(log[q]) + 1 \in DOMAIN log'[q]
    BY <2>0, <2>1
  <2>4. (NewEntry(r)).ev = r.ev
    BY DEF NewEntry
  <2> QED
    BY <1>1, <2>2, <2>3, <2>4 DEF OnTopic
<1> QED
  BY <1>7, <1>8, <1>9

\* Publishing answers 202 only for what is on the topic or lost
\* unacknowledged, and never takes an entry back.
LEMMA Published ==
    ASSUME TypeInv, NEW r \in requests, Publish(r)
    PROVE  /\ log' \in [1 .. Partitions -> Seq(Entry)]
           /\ \A p \in 1 .. Partitions :
                /\ Len(log'[p]) >= Len(log[p])
                /\ \A i \in 1 .. Len(log[p]) : log'[p][i] = log[p][i]
                /\ \A i \in 1 .. Len(log'[p]) :
                      i > Len(log[p]) => log'[p][i] = NewEntry(r)
           /\ \E s \in {"202", "500"} :
                /\ Advance(r, s)
                /\ s = "202" => OnTopic(r.ev)' \/ r.ev \in lost'
           /\ lost \subseteq lost' /\ lost' \subseteq AllEvents
           /\ repeated' \in Nat /\ FaultTypes'
<1> USE DEF OnPublishError, FaultKinds
<1>0. Write(r) /\ Valid(r) /\ r.ev \in AllEvents
  BY DEF Publish, TypeInv, ApiTypes, RequestOK, Requests
<1>1. CASE /\ log' = Written(r, 1) /\ Advance(r, "202")
           /\ UNCHANGED <<lost, repeated, faults>>
  BY <1>0, <1>1, WrittenLog, SMTT(30) DEF TypeInv, KafkaTypes, FaultTypes
<1>2. CASE /\ Spend("write") /\ log' = Written(r, 2) /\ Advance(r, "202")
           /\ repeated' = repeated + 1 /\ UNCHANGED lost
  BY <1>0, <1>2, WrittenLog, SpendTypes DEF TypeInv, KafkaTypes
<1>3. CASE /\ Spend("write") /\ lost' = lost \cup {r.ev} /\ Advance(r, "202")
           /\ UNCHANGED <<log, repeated>>
  <2>1. log' \in [1 .. Partitions -> Seq(Entry)]
    BY <1>3 DEF TypeInv, KafkaTypes
  <2>2. \A p \in 1 .. Partitions : log'[p] = log[p] /\ Len(log[p]) \in Nat
    BY <1>3, <2>1
  <2> QED
    BY <1>0, <1>3, <2>1, <2>2, SpendTypes DEF TypeInv, KafkaTypes
<1>4. CASE /\ Spend("write") /\ \E n \in 0 .. 1 : log' = Written(r, n)
           /\ Advance(r, "500") /\ UNCHANGED <<lost, repeated>>
  <2>1. PICK n \in 0 .. 1 : log' = Written(r, n)
    BY <1>4
  <2>2. n \in 0 .. 2
    OBVIOUS
  <2> QED
    BY <1>0, <1>4, <2>1, <2>2, WrittenLog, SpendTypes DEF TypeInv, KafkaTypes
<1> QED
  BY <1>0, <1>1, <1>2, <1>3, <1>4 DEF Write

-----------------------------------------------------------------------------
(* Type correctness *)

LEMMA AnswerTypes ==
    ASSUME TypeInv, NEW r \in requests, Answer(r)
    PROVE  TypeInv'
<1>1. r \in Awaited /\ idx \in SimEvents /\ requests' = requests \ {r}
  BY DEF Answer, Awaited, TypeInv, SimTypes
<1>2. SimTypes' /\ idx' \in {idx, idx + 1}
  <2>1. CASE Finish("sent", idx + 1)
    BY <1>1, <2>1, Finished DEF TypeInv
  <2>2. CASE SendFailed
    BY <1>1, <2>2, Failed DEF TypeInv
  <2> QED
    BY <2>1, <2>2 DEF Answer
<1>3. ApiTypes'
  <2>1. \A q \in requests' : q \in requests
    BY <1>1
  <2>2. generated' \in Nat
    BY DEF Answer, TypeInv, ApiTypes
  <2> QED
    BY <1>2, <2>1, <2>2, RequestsKept DEF TypeInv, Stages
<1> QED
  BY <1>2, <1>3 DEF Answer, TypeInv, FaultTypes, TriesTypes, KafkaTypes, kafkaVars

LEMMA HandleTypes ==
    ASSUME TypeInv, NEW r \in requests, Handle(r)
    PROVE  TypeInv'
<1>1. CASE Reject(r)
  <2>1. ApiTypes'
    <3>1. \A q \in requests' : q \in requests \/ q = [r EXCEPT !.stage = "400"]
      BY <1>1 DEF Reject, Advance
    <3>2. idx' = idx /\ generated' \in Nat
      BY <1>1 DEF Reject, simVars, TypeInv, ApiTypes
    <3> QED
      BY <3>1, <3>2, RequestsKept DEF TypeInv, Stages
  <2> QED
    BY <1>1, <2>1 DEF Reject, TypeInv, SimTypes, FaultTypes, TriesTypes,
                      KafkaTypes, simVars, kafkaVars
<1>2. CASE Publish(r)
  <2>1. ApiTypes'
    <3>1. PICK s \in {"202", "500"} : Advance(r, s)
      BY <1>2, Published
    <3>2. \A q \in requests' : q \in requests \/ q = [r EXCEPT !.stage = s]
      BY <3>1 DEF Advance
    <3>3. idx' = idx /\ generated' \in Nat
      BY <1>2 DEF Publish, simVars, TypeInv, ApiTypes
    <3> QED
      BY <3>2, <3>3, RequestsKept DEF TypeInv, Stages
  <2>2. KafkaTypes' /\ FaultTypes'
    <3>1. rr' \in 0 .. Partitions - 1
      <4>1. Partitions \in Nat \ {0} /\ rr + 1 \in Nat
        BY BoundsAssumption DEF TypeInv, KafkaTypes
      <4> QED
        BY <1>2, <4>1 DEF Publish
    <3> QED
      BY <1>2, <3>1, Published DEF KafkaTypes
  <2> QED
    BY <1>2, <2>1, <2>2 DEF Publish, TypeInv, SimTypes, TriesTypes, simVars
<1> QED
  BY <1>1, <1>2 DEF Handle

LEMMA OtherTypes ==
    ASSUME TypeInv,
           \/ Post \/ Unreachable \/ Timeout \/ Cancel \/ CrashApi
           \/ \E ev \in ClientEvents, id \in Named : ClientPost(ev, id)
    PROVE  TypeInv'
<1>a. NumEvents \in Nat /\ idx \in Nat /\ (idx <= NumEvents => idx \in SimEvents)
  BY BoundsAssumption DEF TypeInv, SimTypes, SimEvents
\* A new request beside the old ones.
<1>b. ASSUME NEW new, requests' = requests \cup {new}, RequestOK(new),
             UNCHANGED <<idx, generated>>
      PROVE  ApiTypes'
  <2> SUFFICES ASSUME NEW q \in requests' PROVE RequestOK(q)'
    BY <1>b DEF TypeInv, ApiTypes
  <2>1. RequestOK(q)
    BY <1>b DEF TypeInv, ApiTypes
  <2> QED
    BY <1>b, <2>1 DEF RequestOK
<1>1. CASE Post
  <2>1. idx \in SimEvents
    BY <1>1, <1>a DEF Post
  <2>2. SimTypes'
    BY <1>1, <2>1 DEF Post, TypeInv, SimTypes
  <2>3. RequestOK(Request(idx, attempt, <<"given", idx>>))
    <3>1. <<"given", idx>> \in EventIds
      BY <2>1 DEF EventIds, AllEvents
    <3> QED
      BY <1>a, <2>1, <3>1 DEF RequestOK, Request, Requests, AllEvents, Stages,
                              TypeInv, SimTypes, maxSendAttempts
  <2> QED
    BY <1>1, <1>b, <2>2, <2>3 DEF Post, TypeInv, FaultTypes, TriesTypes,
                                  KafkaTypes, kafkaVars
<1>2. CASE Unreachable \/ Timeout
  <2>1. idx \in SimEvents /\ SendFailed
    BY <1>2, <1>a DEF Unreachable, Timeout, OnTimeout, TypeInv, SimTypes
  <2>2. SimTypes' /\ idx' \in {idx, idx + 1}
    BY <2>1, Failed DEF TypeInv
  <2>3. UNCHANGED <<tries, apiVars, kafkaVars>> /\ FaultTypes'
    BY <1>2, SpendTypes DEF Unreachable, Timeout, FaultKinds, FaultTypes, TypeInv
  <2>4. ApiTypes'
    <3>1. (\A q \in requests' : q \in requests) /\ generated' \in Nat
      BY <2>3 DEF apiVars, TypeInv, ApiTypes
    <3> QED
      BY <2>2, <3>1, RequestsKept DEF TypeInv, Stages
  <2> QED
    BY <2>2, <2>3, <2>4 DEF TypeInv, TriesTypes, KafkaTypes, kafkaVars
<1>3. CASE Cancel
  <2>1. FaultTypes'
    BY <1>3, SpendTypes DEF Cancel, FaultKinds, TypeInv
  <2>2. SimTypes' /\ UNCHANGED <<idx, tries, apiVars, kafkaVars>>
    BY <1>3 DEF Cancel, TypeInv, SimTypes
  <2> QED
    BY <2>1, <2>2 DEF TypeInv, TriesTypes, ApiTypes, RequestOK, KafkaTypes,
                      apiVars, kafkaVars
<1>4. CASE CrashApi
  <2>1. FaultTypes'
    BY <1>4, SpendTypes DEF CrashApi, FaultKinds, TypeInv
  <2>2. ApiTypes'
    <3>1. PICK late \in SUBSET Awaited :
            LET cut == {r \in requests : r.stage = "received"} \cup late
            IN  requests' = (requests \ cut) \cup {[r EXCEPT !.stage = "died"] : r \in cut}
      BY <1>4 DEF CrashApi
    <3>2. Awaited \subseteq requests
      BY DEF Awaited
    <3>3. \A q \in requests' : \E r \in requests :
             q = r \/ q = [r EXCEPT !.stage = "died"]
      BY <3>1, <3>2
    <3>4. idx' = idx /\ generated' \in Nat
      BY <1>4 DEF CrashApi, simVars, TypeInv, ApiTypes
    <3> QED
      BY <3>3, <3>4, RequestsKept DEF TypeInv, Stages
  <2>3. KafkaTypes'
    BY <1>4, BoundsAssumption DEF CrashApi, TypeInv, KafkaTypes
  <2> QED
    BY <1>4, <2>1, <2>2, <2>3 DEF CrashApi, TypeInv, SimTypes, TriesTypes, simVars
<1>5. CASE \E ev \in ClientEvents, id \in Named : ClientPost(ev, id)
  <2>1. PICK ev \in ClientEvents, id \in Named : ClientPost(ev, id)
    BY <1>5
  <2>2. tries[ev] \in Nat /\ tries[ev] + 1 \in 1 .. MaxTries /\ TriesTypes'
    BY <2>1, BoundsAssumption DEF ClientPost, TypeInv, TriesTypes
  <2>3. id \in EventIds \cup {NoId, Refused}
    BY DEF Named, EventIds, TypeInv, ApiTypes
  <2>4. RequestOK(Request(ev, tries[ev] + 1, id))
    BY <2>2, <2>3, ClientAssumption DEF RequestOK, Request, Requests, AllEvents, Stages
  <2> QED
    BY <1>b, <2>1, <2>2, <2>4 DEF ClientPost, TypeInv, SimTypes, FaultTypes,
                                  KafkaTypes, simVars, kafkaVars
<1> QED
  BY <1>1, <1>2, <1>3, <1>4, <1>5

LEMMA NextTypes == TypeInv /\ [Next]_vars => TypeInv'
<1> SUFFICES ASSUME TypeInv, [Next]_vars PROVE TypeInv'
  OBVIOUS
<1>1. CASE UNCHANGED vars
  BY <1>1 DEF vars, simVars, apiVars, kafkaVars, TypeInv, SimTypes, FaultTypes,
              TriesTypes, ApiTypes, RequestOK, KafkaTypes
<1>2. CASE Next
  BY <1>2, AnswerTypes, HandleTypes, OtherTypes DEF Next, Simulate
<1> QED
  BY <1>1, <1>2

LEMMA TypeInvariant == Spec => []TypeInv
  BY InitTypeInv, NextTypes, PTL DEF Spec

\* Every variable keeps its type; attempts stay within their bounds, the
\* position never passes the last event, and no request is tried more often
\* than its sender may.
THEOREM TypeCorrect == Spec => []TypeOK
  BY TypeInvariant, TypeInvImpliesTypeOK, PTL

-----------------------------------------------------------------------------
(* What a step may do to the topic, the answers and the outcomes *)

\* A step other than Publish leaves the topic alone and answers no request
\* with 202, and an outcome becomes "sent" only by such an answer.
LEMMA QuietStep ==
    ASSUME TypeInv, [Next]_vars, ~\E r \in requests : Publish(r)
    PROVE  /\ log' = log /\ lost' = lost /\ generated' = generated
           /\ idx' \in {idx, idx + 1}
           /\ \A q \in requests' : q.stage = "202" =>
                 q \in requests
           /\ \A e \in SimEvents : outcome'[e] = "sent" =>
                 \/ outcome[e] = "sent"
                 \/ e = idx /\ idx' = idx + 1
                    /\ \E r \in requests : r.ev = e /\ r.stage = "202"
<1> DEFINE Goal ==
           /\ log' = log /\ lost' = lost /\ generated' = generated
           /\ idx' \in {idx, idx + 1}
           /\ \A q \in requests' : q.stage = "202" =>
                 q \in requests
           /\ \A e \in SimEvents : outcome'[e] = "sent" =>
                 \/ outcome[e] = "sent"
                 \/ e = idx /\ idx' = idx + 1
                    /\ \E r \in requests : r.ev = e /\ r.stage = "202"
<1>1. CASE UNCHANGED vars
  BY <1>1 DEF vars, simVars, apiVars, kafkaVars
<1>2. ASSUME NEW r \in requests, Answer(r) PROVE Goal
  <2>1. /\ r.ev = idx /\ idx \in SimEvents
        /\ requests' = requests \ {r} /\ UNCHANGED <<generated, kafkaVars>>
    BY <1>2 DEF Answer, Awaited, TypeInv, SimTypes
  <2>2. CASE r.stage = "202" /\ Finish("sent", idx + 1)
    <3>1. idx' = idx + 1 /\ outcome' = [outcome EXCEPT ![idx] = "sent"]
      BY <2>1, <2>2, Finished DEF TypeInv
    <3>2. \A e \in SimEvents : outcome'[e] = "sent" => outcome[e] = "sent" \/ e = idx
      BY <3>1 DEF TypeInv, SimTypes
    <3> QED
      BY <2>1, <2>2, <3>1, <3>2 DEF kafkaVars
  <2>3. CASE SendFailed
    <3>1. /\ idx' \in {idx, idx + 1}
          /\ \A e \in SimEvents : outcome'[e] = "sent" => outcome[e] = "sent"
      BY <2>1, <2>3, Failed DEF TypeInv
    <3> QED
      BY <2>1, <3>1 DEF kafkaVars
  <2> QED
    BY <1>2, <2>2, <2>3 DEF Answer
<1>3. ASSUME NEW r \in requests, Reject(r) PROVE Goal
  <2>1. \A q \in requests' : q \in requests \/ q = [r EXCEPT !.stage = "400"]
    BY <1>3 DEF Reject, Advance
  <2>2. [r EXCEPT !.stage = "400"].stage = "400"
    BY DEF TypeInv, ApiTypes, RequestOK, Requests
  <2> QED
    BY <1>3, <2>1, <2>2 DEF Reject, simVars, kafkaVars
<1>4. CASE Unreachable \/ Timeout
  <2>1. idx \in SimEvents /\ SendFailed
    BY <1>4, BoundsAssumption
       DEF Unreachable, Timeout, OnTimeout, TypeInv, SimTypes, SimEvents
  <2>2. /\ idx' \in {idx, idx + 1}
        /\ \A e \in SimEvents : outcome'[e] = "sent" => outcome[e] = "sent"
    BY <2>1, Failed DEF TypeInv
  <2> QED
    BY <1>4, <2>2 DEF Unreachable, Timeout, apiVars, kafkaVars
<1>5. CASE Post
  <2>1. \A q \in requests' : q \in requests \/ q.stage = "received"
    BY <1>5 DEF Post, Request
  <2> QED
    BY <1>5, <2>1 DEF Post, kafkaVars
<1>6. CASE Cancel
  BY <1>6 DEF Cancel, apiVars, kafkaVars
<1>7. CASE CrashApi
  <2>1. PICK late \in SUBSET Awaited :
          LET cut == {r \in requests : r.stage = "received"} \cup late
          IN  requests' = (requests \ cut) \cup {[r EXCEPT !.stage = "died"] : r \in cut}
    BY <1>7 DEF CrashApi
  <2>2. Awaited \subseteq requests
    BY DEF Awaited
  <2>3. \A r \in requests : [r EXCEPT !.stage = "died"].stage = "died"
    BY DEF TypeInv, ApiTypes, RequestOK, Requests
  <2>4. \A q \in requests' : q \in requests \/ q.stage = "died"
    BY <2>1, <2>2, <2>3
  <2> QED
    BY <1>7, <2>4 DEF CrashApi, simVars
<1>8. CASE \E ev \in ClientEvents, id \in Named : ClientPost(ev, id)
  <2>1. PICK ev \in ClientEvents, id \in Named : ClientPost(ev, id)
    BY <1>8
  <2>2. \A q \in requests' : q \in requests \/ q.stage = "received"
    BY <2>1 DEF ClientPost, Request
  <2> QED
    BY <2>1, <2>2 DEF ClientPost, simVars, kafkaVars
<1> QED
  BY <1>1, <1>2, <1>3, <1>4, <1>5, <1>6, <1>7, <1>8
     DEF Next, Simulate, Handle

\* A published request is the only one whose answer changes.
LEMMA PublishStep ==
    ASSUME TypeInv, NEW r \in requests, Publish(r)
    PROVE  /\ UNCHANGED <<idx, outcome>>
           /\ \A q \in requests' : q.stage = "202" =>
                 q \in requests \/ (q.ev = r.ev /\ (OnTopic(r.ev)' \/ r.ev \in lost'))
<1>1. PICK s \in {"202", "500"} :
        Advance(r, s) /\ (s = "202" => OnTopic(r.ev)' \/ r.ev \in lost')
  BY Published
<1>2. \A q \in requests' : q \in requests \/ q = [r EXCEPT !.stage = s]
  BY <1>1 DEF Advance
<1>3. [r EXCEPT !.stage = s].ev = r.ev /\ [r EXCEPT !.stage = s].stage = s
  BY DEF TypeInv, ApiTypes, RequestOK, Requests
<1> QED
  BY <1>1, <1>2, <1>3 DEF Publish, simVars

-----------------------------------------------------------------------------
(* Nothing accepted is missing *)

\* What is on the topic stays on it.
LEMMA StaysOnTopic ==
    ASSUME TypeInv, NEW r \in requests, Publish(r), NEW e, OnTopic(e)
    PROVE  OnTopic(e)'
<1>0. PICK p \in 1 .. Partitions : \E i \in DOMAIN log[p] : log[p][i].ev = e
  BY DEF OnTopic
<1>1. PICK i \in DOMAIN log[p] : log[p][i].ev = e
  BY <1>0
<1>2. log[p] \in Seq(Entry)
  BY DEF TypeInv, KafkaTypes
<1>3. /\ log'[p] \in Seq(Entry)
      /\ Len(log'[p]) >= Len(log[p]) /\ log'[p][i] = log[p][i]
  <2>1. log' \in [1 .. Partitions -> Seq(Entry)]
        /\ \A k \in 1 .. Len(log[p]) : log'[p][k] = log[p][k]
        /\ Len(log'[p]) >= Len(log[p])
    BY Published
  <2>2. i \in 1 .. Len(log[p])
    BY <1>2
  <2> QED
    BY <2>1, <2>2
<1>4. i \in DOMAIN log'[p]
  BY <1>2, <1>3
<1> QED
  BY <1>1, <1>3, <1>4 DEF OnTopic

LEMMA AcceptedStep ==
    ASSUME TypeInv, AcceptedIsOnTopic, [Next]_vars
    PROVE  AcceptedIsOnTopic'
<1>1. ASSUME NEW r \in requests, Publish(r) PROVE AcceptedIsOnTopic'
  <2>1. lost \subseteq lost'
    BY <1>1, Published
  <2>2. \A e : OnTopic(e) => OnTopic(e)'
    BY <1>1, StaysOnTopic
  <2>3. ASSUME NEW e \in SimEvents \ lost', outcome'[e] = "sent"
        PROVE  OnTopic(e)'
    BY <1>1, <2>1, <2>2, <2>3, PublishStep DEF AcceptedIsOnTopic
  <2>4. ASSUME NEW q \in requests', q.stage = "202", q.ev \notin lost'
        PROVE  OnTopic(q.ev)'
    BY <1>1, <2>1, <2>2, <2>4, PublishStep DEF AcceptedIsOnTopic
  <2> QED
    BY <2>3, <2>4 DEF AcceptedIsOnTopic, OnTopic
<1>2. ASSUME ~\E r \in requests : Publish(r) PROVE AcceptedIsOnTopic'
  <2>1. \A e : OnTopic(e)' <=> OnTopic(e)
    BY <1>2, QuietStep DEF OnTopic
  <2>2. ASSUME NEW e \in SimEvents \ lost', outcome'[e] = "sent"
        PROVE  OnTopic(e)'
    BY <1>2, <2>1, <2>2, QuietStep DEF AcceptedIsOnTopic
  <2>3. ASSUME NEW q \in requests', q.stage = "202", q.ev \notin lost'
        PROVE  OnTopic(q.ev)'
    BY <1>2, <2>1, <2>3, QuietStep DEF AcceptedIsOnTopic
  <2> QED
    BY <2>2, <2>3 DEF AcceptedIsOnTopic, OnTopic
<1> QED
  BY <1>1, <1>2

LEMMA InitAccepted == Init => AcceptedIsOnTopic
  BY DEF Init, AcceptedIsOnTopic, SimEvents

\* Whatever times out, fails, is repeated or dies, an event the simulator
\* takes as sent and every request answered 202 is on the topic, unless the
\* broker lost a batch nobody asked it to acknowledge.
THEOREM NothingAcceptedIsMissing == Spec => []AcceptedIsOnTopic
  BY InitAccepted, AcceptedStep, TypeInvariant, PTL DEF Spec

-----------------------------------------------------------------------------
(* Ids *)

\* A client's requests are told apart by their numbers.
OneEach ==
    /\ IsFiniteSet(requests)
    /\ \A r \in requests : r.ev \in ClientEvents => r.try <= tries[r.ev]
    /\ \A r, q \in requests :
          r.ev \in ClientEvents /\ r.ev = q.ev /\ r.try = q.try => r = q

\* What is held in favour of a client stays so.
Lasting ==
    \A ev \in ClientEvents : /\ NamedFor(ev) \subseteq NamedFor(ev)'
                             /\ Unnamed(ev) \subseteq Unnamed(ev)'

\* Some requests are answered, or die.
LEMMA Moved ==
    ASSUME TypeInv, OneEach, tries' = tries,
           NEW cut \in SUBSET requests, NEW s \in Stages,
           \A r \in cut : r.ev \in ClientEvents => r.stage = "received",
           requests' = (requests \ cut) \cup {[r EXCEPT !.stage = s] : r \in cut}
    PROVE  OneEach' /\ Lasting
<1> DEFINE Now(r) == [r EXCEPT !.stage = s]
<1>1. ASSUME NEW r \in requests
      PROVE  /\ r \in Requests /\ Now(r) \in Requests
             /\ Now(r).ev = r.ev /\ Now(r).try = r.try /\ Now(r).id = r.id
  BY DEF TypeInv, ApiTypes, RequestOK, Requests
<1> HIDE DEF Now
<1>2. requests' = (requests \ cut) \cup {Now(r) : r \in cut}
  BY DEF Now
<1>3. IsFiniteSet(requests')
  <2>1. IsFiniteSet(cut) /\ IsFiniteSet(requests \ cut)
    BY FS_Subset, FS_Difference DEF OneEach
  <2> DEFINE moved == {Now(r) : r \in cut}
             f     == [r \in cut |-> Now(r)]
             kept  == requests \ cut
  <2>2. f \in Surjection(cut, moved)
    BY DEF Surjection
  <2> HIDE DEF f
  <2>3. IsFiniteSet(moved)
    BY <2>1, <2>2, FS_Surjection
  <2>4. requests' = kept \cup moved
    BY <1>2
  <2> HIDE DEF kept, moved
  <2>5. IsFiniteSet(kept \cup moved)
    BY <2>1, <2>3, FS_Union DEF kept
  <2> QED
    BY <2>4, <2>5
\* What a request was before.
<1>4. ASSUME NEW q \in requests'
      PROVE  \E r \in requests : /\ q.ev = r.ev /\ q.try = r.try
                                 /\ q = IF r \in cut THEN Now(r) ELSE r
  BY <1>1, <1>2
<1>5. OneEach'
  <2>1. ASSUME NEW q \in requests', q.ev \in ClientEvents PROVE q.try <= tries'[q.ev]
    BY <1>4, <2>1 DEF OneEach
  <2>2. ASSUME NEW p \in requests', NEW q \in requests',
               p.ev \in ClientEvents, p.ev = q.ev, p.try = q.try
        PROVE  p = q
    <3>1. PICK a \in requests : /\ p.ev = a.ev /\ p.try = a.try
                                /\ p = IF a \in cut THEN Now(a) ELSE a
      BY <1>4
    <3>2. PICK b \in requests : /\ q.ev = b.ev /\ q.try = b.try
                                /\ q = IF b \in cut THEN Now(b) ELSE b
      BY <1>4
    <3>3. a = b
      BY <2>2, <3>1, <3>2 DEF OneEach
    <3> QED
      BY <3>1, <3>2, <3>3
  <2> QED
    BY <1>3, <2>1, <2>2 DEF OneEach
<1>6. ASSUME NEW ev \in ClientEvents
      PROVE  NamedFor(ev) \subseteq NamedFor(ev)' /\ Unnamed(ev) \subseteq Unnamed(ev)'
  <2>1. ev \notin SimEvents
    BY ClientAssumption
  <2>2. ASSUME NEW r \in requests, r.ev = ev
        PROVE  \E q \in requests' : q.ev = ev /\ q.id = r.id
    BY <1>1, <1>2, <2>2
  <2>3. ASSUME NEW r \in Unnamed(ev) PROVE r \in Unnamed(ev)'
    BY <1>2, <2>3 DEF Unnamed
  <2> QED
    BY <2>1, <2>2, <2>3 DEF NamedFor
<1> QED
  BY <1>5, <1>6 DEF Lasting

LEMMA RequestsLast ==
    ASSUME TypeInv, OneEach, [Next]_vars
    PROVE  OneEach' /\ Lasting
<1>0. idx \in Nat /\ NumEvents \in Nat /\ (idx <= NumEvents => idx \in SimEvents)
      /\ (pc = "wait" => idx \in SimEvents)
  BY BoundsAssumption DEF TypeInv, SimTypes, SimEvents
<1>1. CASE UNCHANGED <<requests, tries>>
  BY <1>1 DEF OneEach, Lasting, NamedFor, Unnamed
<1>2. ASSUME NEW r \in requests, NEW s \in Stages, r.stage = "received",
             Advance(r, s), tries' = tries
      PROVE  OneEach' /\ Lasting
  <2>1. {r} \in SUBSET requests
        /\ requests' = (requests \ {r}) \cup {[q EXCEPT !.stage = s] : q \in {r}}
    BY <1>2 DEF Advance
  <2> QED
    BY <1>2, <2>1, Moved
<1>3. CASE CrashApi
  <2>1. PICK late \in SUBSET Awaited :
          LET cut == {r \in requests : r.stage = "received"} \cup late
          IN  requests' = (requests \ cut) \cup {[r EXCEPT !.stage = "died"] : r \in cut}
    BY <1>3 DEF CrashApi
  <2> DEFINE cut == {r \in requests : r.stage = "received"} \cup late
  <2>2. cut \in SUBSET requests /\ "died" \in Stages
        /\ \A r \in cut : r.ev \in ClientEvents => r.stage = "received"
    BY <1>0, ClientAssumption DEF Awaited, Stages
  <2>3. requests' = (requests \ cut) \cup {[r EXCEPT !.stage = "died"] : r \in cut}
        /\ tries' = tries
    BY <1>3, <2>1 DEF CrashApi
  <2> HIDE DEF cut
  <2> QED
    BY <2>2, <2>3, Moved
<1>4. ASSUME NEW r \in requests, Answer(r) PROVE OneEach' /\ Lasting
  <2>1. requests' = requests \ {r} /\ tries' = tries /\ r.ev \notin ClientEvents
    BY <1>0, <1>4, ClientAssumption DEF Answer, Awaited
  <2>2. IsFiniteSet(requests')
    BY <2>1, FS_RemoveElement DEF OneEach
  <2> QED
    BY <2>1, <2>2, ClientAssumption DEF OneEach, Lasting, NamedFor, Unnamed
<1>5. ASSUME NEW new, requests' = requests \cup {new}, new.stage = "received",
             new.ev \in ClientEvents => new.try = tries[new.ev] + 1 /\ new.try <= tries'[new.ev],
             \A ev \in ClientEvents : /\ tries[ev] \in Nat /\ tries'[ev] \in Nat
                                      /\ tries[ev] <= tries'[ev]
      PROVE  OneEach' /\ Lasting
  <2>1. IsFiniteSet(requests')
    BY <1>5, FS_AddElement DEF OneEach
  <2>2. \A r \in requests : r.try \in Nat
    BY DEF TypeInv, ApiTypes, RequestOK, Requests
  <2>3. \A r \in requests : r.ev \in ClientEvents => r.try <= tries[r.ev]
    BY DEF OneEach
  <2>4. \A r \in requests' : r.ev \in ClientEvents => r.try <= tries'[r.ev]
    BY <1>5, <2>2, <2>3
  <2>5. \A r, q \in requests' :
           r.ev \in ClientEvents /\ r.ev = q.ev /\ r.try = q.try => r = q
    BY <1>5, <2>2, <2>3 DEF OneEach
  <2>6. Lasting
    BY <1>5, ClientAssumption DEF Lasting, NamedFor, Unnamed
  <2> QED
    BY <2>1, <2>4, <2>5, <2>6 DEF OneEach
<1>6. \A ev \in ClientEvents : tries[ev] \in Nat
  BY BoundsAssumption DEF TypeInv, TriesTypes
<1>7. CASE Post
  <2>1. PICK new : new = Request(idx, attempt, <<"given", idx>>)
    OBVIOUS
  <2>2. requests' = requests \cup {new} /\ tries' = tries /\ idx \in SimEvents
    BY <1>0, <1>7, <2>1 DEF Post
  <2>3. new.ev \notin ClientEvents /\ new.stage = "received"
    BY <2>1, <2>2, ClientAssumption DEF Request
  <2> QED
    BY <1>5, <1>6, <2>2, <2>3
<1>8. CASE \E ev \in ClientEvents, id \in Named : ClientPost(ev, id)
  <2>1. PICK ev \in ClientEvents, id \in Named : ClientPost(ev, id)
    BY <1>8
  <2>2. PICK new : new = Request(ev, tries[ev] + 1, id)
    OBVIOUS
  <2>3. requests' = requests \cup {new} /\ tries' = [tries EXCEPT ![ev] = @ + 1]
    BY <2>1, <2>2 DEF ClientPost
  <2>4. new.ev = ev /\ new.try = tries[ev] + 1 /\ new.stage = "received"
    BY <2>2 DEF Request
  <2>5. tries \in [ClientEvents -> 0 .. MaxTries]
    BY DEF TypeInv, TriesTypes
  <2> QED
    BY <1>5, <1>6, <2>3, <2>4, <2>5
<1>9. ASSUME NEW r \in requests, Handle(r) PROVE OneEach' /\ Lasting
  <2>1. CASE Reject(r)
    BY <1>2, <2>1 DEF Reject, Stages
  <2>2. CASE Publish(r)
    <3>1. PICK s \in {"202", "500"} : Advance(r, s)
      BY <2>2, Published
    <3> QED
      BY <1>2, <2>2, <3>1 DEF Publish, Stages
  <2> QED
    BY <1>9, <2>1, <2>2 DEF Handle
<1>10. CASE Unreachable \/ Timeout \/ Cancel \/ UNCHANGED vars
  BY <1>1, <1>10 DEF Unreachable, Timeout, Cancel, apiVars, vars
<1> QED
  BY <1>3, <1>4, <1>7, <1>8, <1>9, <1>10 DEF Next, Simulate

\* An id of the event is the id of one of its entries.
LEMMA IdsPositions ==
    ASSUME NEW ev, NEW id
    PROVE  /\ id \in IdsOf(ev) <=>
                \E p \in 1 .. Partitions : \E i \in DOMAIN log[p] :
                    log[p][i].ev = ev /\ log[p][i].id = id
           /\ id \in IdsOf(ev)' <=>
                \E p \in 1 .. Partitions : \E i \in DOMAIN log'[p] :
                    log'[p][i].ev = ev /\ log'[p][i].id = id
<1>1. ASSUME NEW lg,
             NEW places, places = UNION {{<<p, i>> : i \in {j \in DOMAIN lg[p] : lg[p][j].ev = ev}} :
                                            p \in 1 .. Partitions}
      PROVE  id \in {lg[c[1]][c[2]].id : c \in places} <=>
                \E p \in 1 .. Partitions : \E i \in DOMAIN lg[p] :
                    lg[p][i].ev = ev /\ lg[p][i].id = id
  <2>1. ASSUME NEW c \in places, lg[c[1]][c[2]].id = id
        PROVE  \E p \in 1 .. Partitions : \E i \in DOMAIN lg[p] :
                   lg[p][i].ev = ev /\ lg[p][i].id = id
    <3>1. PICK p \in 1 .. Partitions :
            c \in {<<p, i>> : i \in {j \in DOMAIN lg[p] : lg[p][j].ev = ev}}
      BY <1>1
    <3>2. PICK i \in DOMAIN lg[p] : lg[p][i].ev = ev /\ c = <<p, i>>
      BY <3>1
    <3>3. c[1] = p /\ c[2] = i
      BY <3>2
    <3> QED
      BY <2>1, <3>2, <3>3
  <2>2. ASSUME NEW p \in 1 .. Partitions, NEW i \in DOMAIN lg[p],
               lg[p][i].ev = ev, lg[p][i].id = id
        PROVE  \E c \in places : lg[c[1]][c[2]].id = id
    <3>1. <<p, i>> \in places
      BY <1>1, <2>2
    <3>2. <<p, i>>[1] = p /\ <<p, i>>[2] = i
      OBVIOUS
    <3> QED
      BY <2>2, <3>1, <3>2
  <2> QED
    BY <2>1, <2>2
<1>2. id \in IdsOf(ev) <=>
        \E p \in 1 .. Partitions : \E i \in DOMAIN log[p] :
            log[p][i].ev = ev /\ log[p][i].id = id
  BY <1>1 DEF IdsOf, Copies
<1>3. id \in IdsOf(ev)' <=>
        \E p \in 1 .. Partitions : \E i \in DOMAIN log'[p] :
            log'[p][i].ev = ev /\ log'[p][i].id = id
  BY <1>1 DEF IdsOf, Copies
<1> QED
  BY <1>2, <1>3

\* Publishing puts an event on the topic under its id, and no other event under
\* any.
LEMMA IdsWritten ==
    ASSUME TypeInv, NEW r \in requests, Publish(r), NEW ev, NEW id, id \in IdsOf(ev)'
    PROVE  id \in IdsOf(ev) \/ (ev = r.ev /\ id = EventId(r))
<1>0. PICK p \in 1 .. Partitions :
        \E i \in DOMAIN log'[p] : log'[p][i].ev = ev /\ log'[p][i].id = id
  BY IdsPositions
<1>1. PICK i \in DOMAIN log'[p] : log'[p][i].ev = ev /\ log'[p][i].id = id
  BY <1>0
<1>2. log[p] \in Seq(Entry) /\ log'[p] \in Seq(Entry)
  <2>1. log' \in [1 .. Partitions -> Seq(Entry)]
    BY Published
  <2> QED
    BY <2>1 DEF TypeInv, KafkaTypes
<1>3. i \in 1 .. Len(log'[p]) /\ Len(log[p]) \in Nat /\ DOMAIN log[p] = 1 .. Len(log[p])
  BY <1>2
<1>4. CASE i > Len(log[p])
  <2>1. log'[p][i] = NewEntry(r)
    BY <1>3, <1>4, Published
  <2> QED
    BY <1>1, <2>1 DEF NewEntry
<1>5. CASE ~(i > Len(log[p]))
  <2>1. i \in DOMAIN log[p] /\ log'[p][i] = log[p][i]
    BY <1>3, <1>5, Published
  <2> QED
    BY <1>1, <2>1, IdsPositions
<1> QED
  BY <1>4, <1>5

FreshInv ==
    /\ OneEach
    /\ \A ev \in AllEvents :
          /\ IsFiniteSet(IdsOf(ev))
          /\ Cardinality(IdsOf(ev) \ NamedFor(ev)) <= Cardinality(Unnamed(ev))

LEMMA FreshStep ==
    ASSUME TypeInv, FreshInv, [Next]_vars
    PROVE  FreshInv'
<1>0. OneEach /\ OneEach' /\ Lasting
  BY RequestsLast DEF FreshInv
<1> SUFFICES ASSUME NEW ev \in AllEvents
             PROVE  /\ IsFiniteSet(IdsOf(ev)')
                    /\ Cardinality(IdsOf(ev)' \ NamedFor(ev)') <= Cardinality(Unnamed(ev)')
  BY <1>0 DEF FreshInv
<1> DEFINE Fresh == IdsOf(ev) \ NamedFor(ev)
           FreshNow == IdsOf(ev)' \ NamedFor(ev)'
<1>1. /\ IsFiniteSet(IdsOf(ev)) /\ IsFiniteSet(Fresh) /\ Cardinality(Fresh) \in Nat
      /\ Cardinality(Fresh) <= Cardinality(Unnamed(ev))
  <2>1. IsFiniteSet(IdsOf(ev)) /\ Fresh \in SUBSET IdsOf(ev)
    BY DEF FreshInv
  <2>2. IsFiniteSet(Fresh)
    BY <2>1, FS_Subset
  <2> QED
    BY <2>1, <2>2, FS_CardinalityType DEF FreshInv
<1>2. /\ NamedFor(ev) \subseteq NamedFor(ev)'
      /\ Unnamed(ev) \in SUBSET Unnamed(ev)'
  <2>1. CASE ev \in ClientEvents
    BY <1>0, <2>1 DEF Lasting
  <2>2. CASE ev \in SimEvents
    <3>1. \A r \in requests : r.ev = ev => r.id # NoId
      BY <2>2 DEF TypeInv, ApiTypes, RequestOK, NoId
    <3> QED
      BY <2>2, <3>1 DEF NamedFor, Unnamed
  <2> QED
    BY <2>1, <2>2 DEF AllEvents
<1>3. /\ IsFiniteSet(Unnamed(ev)) /\ IsFiniteSet(Unnamed(ev)')
      /\ Cardinality(Unnamed(ev)) \in Nat /\ Cardinality(Unnamed(ev)') \in Nat
      /\ Cardinality(Unnamed(ev)) <= Cardinality(Unnamed(ev)')
  <2>1. IsFiniteSet(requests') /\ Unnamed(ev)' \in SUBSET requests'
    BY <1>0 DEF OneEach, Unnamed
  <2>2. IsFiniteSet(Unnamed(ev)')
    BY <2>1, FS_Subset
  <2>3. IsFiniteSet(Unnamed(ev)) /\ Cardinality(Unnamed(ev)) <= Cardinality(Unnamed(ev)')
    BY <1>2, <2>2, FS_Subset
  <2> QED
    BY <2>2, <2>3, FS_CardinalityType
<1> HIDE DEF Fresh, FreshNow
\* No id is new.
<1>4. ASSUME IdsOf(ev)' \in SUBSET IdsOf(ev) \cup NamedFor(ev)', IsFiniteSet(IdsOf(ev)')
      PROVE  Cardinality(FreshNow) <= Cardinality(Unnamed(ev)')
  <2>1. FreshNow \in SUBSET Fresh
    BY <1>2, <1>4 DEF Fresh, FreshNow
  <2>2. IsFiniteSet(FreshNow) /\ Cardinality(FreshNow) <= Cardinality(Fresh)
    BY <1>1, <2>1, FS_Subset
  <2>3. Cardinality(FreshNow) \in Nat
    BY <2>2, FS_CardinalityType
  <2> QED
    BY <1>1, <1>3, <2>2, <2>3
<1>5. CASE ~\E r \in requests : Publish(r)
  <2>1. IdsOf(ev)' = IdsOf(ev)
    BY <1>5, QuietStep DEF IdsOf, Copies
  <2> QED
    BY <1>1, <1>4, <2>1 DEF FreshNow
<1>6. ASSUME NEW r \in requests, Publish(r)
      PROVE  /\ IsFiniteSet(IdsOf(ev)')
             /\ Cardinality(FreshNow) <= Cardinality(Unnamed(ev)')
  <2>1. IdsOf(ev)' \in SUBSET (IdsOf(ev) \cup {EventId(r)})
    BY <1>6, IdsWritten
  <2>2. IsFiniteSet(IdsOf(ev)')
    <3>1. IsFiniteSet(IdsOf(ev) \cup {EventId(r)})
      BY <1>1, FS_AddElement
    <3> QED
      BY <2>1, <3>1, FS_Subset
  <2>3. CASE r.ev # ev
    <3>1. IdsOf(ev)' \in SUBSET IdsOf(ev)
      BY <1>6, <2>3, IdsWritten
    <3> QED
      BY <1>4, <2>2, <3>1
  <2>4. CASE r.ev = ev /\ HasId(r)
    <3>1. EventId(r) \in NamedFor(ev)
      BY <2>4 DEF EventId, NamedFor, TypeInv, ApiTypes, RequestOK
    <3> QED
      BY <1>2, <1>4, <2>1, <2>2, <3>1
  <2>5. CASE r.ev = ev /\ ~HasId(r)
    <3>1. ev \in ClientEvents /\ r.id = NoId /\ r.stage = "received"
      BY <1>6, <2>5
      DEF HasId, Publish, TypeInv, ApiTypes, RequestOK, AllEvents, NoId
    <3>2. PICK s \in {"202", "500"} : Advance(r, s)
      BY <1>6, Published
    <3>3. PICK done : done = [r EXCEPT !.stage = s]
      OBVIOUS
    <3>4. /\ done.ev = r.ev /\ done.try = r.try /\ done.id = NoId /\ done.stage = s
          /\ done \in requests'
      BY <3>1, <3>2, <3>3 DEF Advance, TypeInv, ApiTypes, RequestOK, Requests
    <3>5. done \in Unnamed(ev)' /\ done \notin Unnamed(ev)
      BY <1>0, <2>5, <3>1, <3>4 DEF Unnamed, OneEach
    <3>6. Cardinality(Unnamed(ev)) + 1 <= Cardinality(Unnamed(ev)')
      <4> DEFINE more == Unnamed(ev) \cup {done}
      <4>1. IsFiniteSet(more) /\ Cardinality(more) = Cardinality(Unnamed(ev)) + 1
        BY <1>3, <3>5, FS_AddElement
      <4>2. more \in SUBSET Unnamed(ev)'
        BY <1>2, <3>5
      <4>3. Cardinality(more) <= Cardinality(Unnamed(ev)')
        BY <1>3, <4>2, FS_Subset
      <4> QED
        BY <4>1, <4>3
    <3>7. /\ IsFiniteSet(FreshNow) /\ Cardinality(FreshNow) \in Nat
          /\ Cardinality(FreshNow) <= Cardinality(Fresh) + 1
      <4> DEFINE more == Fresh \cup {EventId(r)}
      <4>1. FreshNow \in SUBSET more
        BY <1>2, <2>1 DEF Fresh, FreshNow
      <4>2. /\ IsFiniteSet(more)
            /\ Cardinality(more) = IF EventId(r) \in Fresh THEN Cardinality(Fresh)
                                   ELSE Cardinality(Fresh) + 1
        BY <1>1, FS_AddElement
      <4> HIDE DEF more
      <4>3. IsFiniteSet(FreshNow) /\ Cardinality(FreshNow) <= Cardinality(more)
        BY <4>1, <4>2, FS_Subset
      <4>4. Cardinality(FreshNow) \in Nat
        BY <4>3, FS_CardinalityType
      <4> QED
        BY <1>1, <4>2, <4>3, <4>4
    <3> QED
      BY <1>1, <1>3, <2>2, <3>6, <3>7
  <2> QED
    BY <2>2, <2>3, <2>4, <2>5
<1> QED
  BY <1>5, <1>6 DEF FreshNow

LEMMA InitFresh == Init => FreshInv
<1> SUFFICES ASSUME Init PROVE FreshInv
  OBVIOUS
<1>1. OneEach
  BY FS_EmptySet DEF Init, OneEach
<1>2. ASSUME NEW ev \in AllEvents
      PROVE  IdsOf(ev) = {} /\ IdsOf(ev) \ NamedFor(ev) = {} /\ Unnamed(ev) = {}
  <2>1. Copies(ev) = {}
    BY DEF Init, Copies
  <2> QED
    BY <2>1 DEF IdsOf, Unnamed, Init
<1> QED
  BY <1>1, <1>2, FS_EmptySet DEF FreshInv

\* What deduplication has to go by, for any number of events, clients,
\* partitions and faults, and whatever ids the clients choose: an event is on
\* the topic under ids its sender named and no more fresh ones than there were
\* requests that named none.  The simulator's events, which all name one, are
\* each there under one id.
THEOREM FreshIdsAreBounded == Spec => []FreshIdsBounded
<1>1. FreshInv => FreshIdsBounded
  BY DEF FreshInv, FreshIdsBounded
<1> QED
  BY InitFresh, FreshStep, <1>1, TypeInvariant, PTL DEF Spec

-----------------------------------------------------------------------------
(* Order *)

\* No event is on the topic before the simulator came to it.
NoneAhead ==
    \A p \in 1 .. Partitions : \A j \in DOMAIN log[p] :
        log[p][j].ev \in SimEvents => log[p][j].ev <= idx

OrderInv == NoneAhead /\ SentInOrder

LEMMA OrderStep ==
    ASSUME Partitions = 1, TypeInv, AcceptedIsOnTopic, OrderInv, [Next]_vars
    PROVE  OrderInv'
<1>0. idx \in Nat
  BY DEF TypeInv, SimTypes
<1>1. ASSUME NEW r \in requests, Publish(r) PROVE OrderInv'
  <2>1. /\ log[1] \in Seq(Entry) /\ log'[1] \in Seq(Entry)
        /\ Len(log'[1]) >= Len(log[1])
        /\ \A i \in 1 .. Len(log[1]) : log'[1][i] = log[1][i]
        /\ \A i \in 1 .. Len(log'[1]) :
              i > Len(log[1]) => log'[1][i].ev = r.ev
        /\ lost \subseteq lost'
    <3>1. NewEntry(r).ev = r.ev
      BY DEF NewEntry
    <3>2. log \in [1 .. Partitions -> Seq(Entry)] /\ 1 \in 1 .. Partitions
      BY DEF TypeInv, KafkaTypes
    <3>3. /\ log' \in [1 .. Partitions -> Seq(Entry)]
          /\ Len(log'[1]) >= Len(log[1])
          /\ \A i \in 1 .. Len(log[1]) : log'[1][i] = log[1][i]
          /\ \A i \in 1 .. Len(log'[1]) :
                i > Len(log[1]) => log'[1][i] = NewEntry(r)
          /\ lost \subseteq lost'
      BY <1>1, <3>2, Published
    <3> QED
      BY <3>1, <3>2, <3>3
  <2>2. idx' = idx /\ outcome' = outcome /\ (r.ev \in SimEvents => r.ev <= idx)
    BY <1>1, PublishStep DEF TypeInv, ApiTypes, RequestOK
  <2>3. ASSUME NEW j \in DOMAIN log'[1]
        PROVE  /\ j \in 1 .. Len(log'[1])
               /\ \/ j \in DOMAIN log[1] /\ log'[1][j] = log[1][j]
                  \/ j > Len(log[1]) /\ log'[1][j].ev = r.ev
    BY <2>1
  <2>4. NoneAhead'
    <3> SUFFICES ASSUME NEW j \in DOMAIN log'[1], log'[1][j].ev \in SimEvents
                 PROVE  log'[1][j].ev <= idx'
      BY DEF NoneAhead
    <3> QED
      BY <2>2, <2>3 DEF OrderInv, NoneAhead
  <2>5. SentInOrder'
    <3> SUFFICES ASSUME NEW j \in DOMAIN log'[1], NEW e \in SimEvents \ lost',
                        log'[1][j].ev \in SimEvents, e < log'[1][j].ev,
                        outcome'[e] = "sent"
                 PROVE  \E i \in 1 .. j - 1 : log'[1][i].ev = e
      BY DEF SentInOrder
    <3>1. CASE j \in DOMAIN log[1] /\ log'[1][j] = log[1][j]
      <4>1. PICK i \in 1 .. j - 1 : log[1][i].ev = e
        BY <2>1, <2>2, <3>1 DEF OrderInv, SentInOrder
      <4>2. i \in 1 .. Len(log[1])
        BY <2>1, <3>1
      <4> QED
        BY <2>1, <4>1, <4>2
    <3>2. CASE j > Len(log[1])
      <4>1. OnTopic(e)
        BY <2>1, <2>2 DEF AcceptedIsOnTopic
      <4>2. PICK i \in DOMAIN log[1] : log[1][i].ev = e
        BY <4>1 DEF OnTopic
      <4>3. i \in 1 .. Len(log[1]) /\ i \in 1 .. j - 1
        BY <2>1, <2>3, <3>2
      <4> QED
        BY <2>1, <4>2, <4>3
    <3> QED
      BY <2>3, <3>1, <3>2
  <2> QED
    BY <2>4, <2>5 DEF OrderInv
<1>2. ASSUME ~\E r \in requests : Publish(r) PROVE OrderInv'
  <2>1. /\ log' = log /\ lost' = lost /\ idx' \in {idx, idx + 1}
        /\ \A e \in SimEvents : outcome'[e] = "sent" =>
              outcome[e] = "sent" \/ e = idx
    BY <1>2, QuietStep
  <2>2. NoneAhead'
    <3> SUFFICES ASSUME NEW p \in 1 .. Partitions, NEW j \in DOMAIN log[p],
                        log[p][j].ev \in SimEvents
                 PROVE  log[p][j].ev <= idx'
      BY <2>1 DEF NoneAhead
    <3>1. log[p][j].ev <= idx /\ log[p][j].ev \in Nat
      BY DEF OrderInv, NoneAhead, SimEvents
    <3> QED
      BY <1>0, <2>1, <3>1
  <2>3. SentInOrder'
    <3> SUFFICES ASSUME NEW p \in 1 .. Partitions, NEW j \in DOMAIN log[p],
                        NEW e \in SimEvents \ lost,
                        log[p][j].ev \in SimEvents, e < log[p][j].ev,
                        outcome'[e] = "sent"
                 PROVE  \E i \in 1 .. j - 1 : log[p][i].ev = e
      BY <2>1 DEF SentInOrder
    <3>1. e # idx
      BY <1>0 DEF OrderInv, NoneAhead, SimEvents
    <3> QED
      BY <2>1, <3>1 DEF OrderInv, SentInOrder
  <2> QED
    BY <2>2, <2>3 DEF OrderInv
<1> QED
  BY <1>1, <1>2

LEMMA InitOrder == Init => OrderInv
  BY DEF Init, OrderInv, NoneAhead, SentInOrder

\* With one partition, whatever times out and lands late, an event the
\* simulator takes as sent is on the topic before any copy of a later one,
\* unless it was lost unacknowledged.
THEOREM NothingSentIsOvertaken ==
    ASSUME Partitions = 1
    PROVE  Spec => []SentInOrder
<1>1. TypeInv /\ AcceptedIsOnTopic /\ OrderInv /\ [Next]_vars => OrderInv'
  BY OrderStep
<1>2. OrderInv => SentInOrder
  BY DEF OrderInv
<1> QED
  BY <1>1, <1>2, InitOrder, TypeInvariant, NothingAcceptedIsMissing, PTL DEF Spec

-----------------------------------------------------------------------------
(* Copies *)

\* The attempts to send an event whose request is still to be served, each of
\* which may land on the topic.
Open(e) == {r \in requests : r.ev = e /\ r.stage = "received"}

\* How many attempts to send an event there were, the ones that did not reach
\* the event-api included.
Attempted(e) ==
    IF idx > e THEN maxSendAttempts
    ELSE IF idx < e THEN 0
    ELSE IF pc = "send" THEN attempt - 1 ELSE attempt

\* An attempt is open or has left its copy, and no more is on the topic
\* than that and what the writer repeated.
CopiesInv ==
    \A e \in SimEvents :
        /\ IsFiniteSet(Open(e)) /\ IsFiniteSet(Copies(e))
        /\ Cardinality(Copies(e)) + Cardinality(Open(e)) <= Attempted(e) + repeated

\* Two places more hold at most two elements more.
LEMMA TwoMore ==
    ASSUME NEW S, IsFiniteSet(S), NEW T, NEW x, NEW y, NEW n \in 0 .. 2,
           n = 0 => T \subseteq S,
           n = 1 => T \subseteq S \cup {x},
           n = 2 => T \subseteq (S \cup {x}) \cup {y}
    PROVE  IsFiniteSet(T) /\ Cardinality(T) <= Cardinality(S) + n
<1> DEFINE U == S \cup {x}
           V == U \cup {y}
<1>1. IsFiniteSet(U) /\ Cardinality(U) <= Cardinality(S) + 1
      /\ Cardinality(S) \in Nat /\ Cardinality(U) \in Nat
  BY FS_AddElement, FS_CardinalityType
<1>2. IsFiniteSet(V) /\ Cardinality(V) <= Cardinality(U) + 1 /\ Cardinality(V) \in Nat
  <2>1. IsFiniteSet(V) /\ Cardinality(V) =
          IF y \in U THEN Cardinality(U) ELSE Cardinality(U) + 1
    BY <1>1, FS_AddElement
  <2> QED
    BY <1>1, <2>1
<1>3. \/ n = 0 /\ T \in SUBSET S
      \/ n = 1 /\ T \in SUBSET U
      \/ n = 2 /\ T \in SUBSET V
  OBVIOUS
<1> HIDE DEF U, V
<1>4. CASE n = 0 /\ T \in SUBSET S
  BY <1>1, <1>4, FS_Subset
<1>5. CASE n = 1 /\ T \in SUBSET U
  <2>1. IsFiniteSet(T) /\ Cardinality(T) <= Cardinality(U) /\ Cardinality(T) \in Nat
    BY <1>1, <1>5, FS_Subset, FS_CardinalityType
  <2> QED
    BY <1>1, <1>5, <2>1
<1>6. CASE n = 2 /\ T \in SUBSET V
  <2>1. IsFiniteSet(T) /\ Cardinality(T) <= Cardinality(V) /\ Cardinality(T) \in Nat
    BY <1>2, <1>6, FS_Subset, FS_CardinalityType
  <2> QED
    BY <1>1, <1>2, <1>6, <2>1
<1> QED
  BY <1>3, <1>4, <1>5, <1>6

\* An event written n times has n copies more, at most, and another event none.
LEMMA CopiesWritten ==
    ASSUME TypeInv, NEW r \in requests, Valid(r), NEW n \in 0 .. 2, log' = Written(r, n),
           NEW e, IsFiniteSet(Copies(e))
    PROVE  /\ IsFiniteSet(Copies(e))'
           /\ Cardinality(Copies(e))' <= Cardinality(Copies(e)) + n
           /\ r.ev # e => Cardinality(Copies(e))' <= Cardinality(Copies(e))
<1> DEFINE q == NextPartition
           len == Len(log[q])
           copies == [i \in 1 .. n |-> NewEntry(r)]
<1>1. q \in 1 .. Partitions
  <2>1. Partitions \in Nat \ {0} /\ rr \in 0 .. Partitions - 1
    BY BoundsAssumption DEF TypeInv, KafkaTypes
  <2>2. rr % Partitions \in 0 .. Partitions - 1
    BY <2>1
  <2> QED
    BY <2>1, <2>2 DEF NextPartition
<1>2. copies \in Seq(Entry) /\ Len(copies) = n /\ \A i \in 1 .. n : copies[i] = NewEntry(r)
  BY NewEntryType
<1>3. log \in [1 .. Partitions -> Seq(Entry)] /\ log[q] \in Seq(Entry) /\ len \in Nat
  BY <1>1 DEF TypeInv, KafkaTypes
<1>4. log' = [log EXCEPT ![q] = log[q] \o copies]
  BY DEF Written, NewEntry
<1>5. NewEntry(r).ev = r.ev
  BY DEF NewEntry
<1> HIDE DEF q, copies
\* Every copy is an old one, or in one of the n places written.
<1>6. ASSUME NEW p \in 1 .. Partitions, NEW i \in DOMAIN log'[p], log'[p][i].ev = e
      PROVE  \/ <<p, i>> \in Copies(e)
             \/ r.ev = e /\ n >= 1 /\ <<p, i>> = <<q, len + 1>>
             \/ r.ev = e /\ n = 2 /\ <<p, i>> = <<q, len + 2>>
  <2>1. CASE p # q
    <3>1. log'[p] = log[p]
      BY <1>3, <1>4, <2>1
    <3> QED
      BY <1>6, <3>1 DEF Copies
  <2>2. CASE p = q
    <3> DEFINE cat == log[q] \o copies
    <3>1. log'[p] = cat
      BY <1>1, <1>3, <1>4, <2>2
    <3>a. log[q] \in Seq(Entry) /\ len \in Nat /\ n \in Nat /\ DOMAIN log[q] = 1 .. len
      BY <1>1, <1>3
    <3>b. DOMAIN cat = 1 .. len + n /\ \A k \in 1 .. len : cat[k] = log[q][k]
      BY <1>2, <3>a
    <3>c. \A k \in 1 .. len + n : k > len => k - len \in 1 .. n /\ cat[k] = copies[k - len]
      BY <1>2, <3>a
    <3>2. /\ DOMAIN cat = 1 .. len + n
          /\ \A k \in 1 .. len : cat[k] = log[q][k]
          /\ \A k \in 1 .. len + n : k > len => cat[k] = NewEntry(r)
          /\ DOMAIN log[q] = 1 .. len
      <4> HIDE DEF cat, len
      <4> QED
        BY <1>2, <3>a, <3>b, <3>c
    <3> HIDE DEF cat, len
    <3>3. CASE i \in 1 .. len
      <4>1. i \in DOMAIN log[p] /\ log[p][i].ev = e
        BY <1>6, <2>2, <3>1, <3>2, <3>3
      <4> QED
        BY <4>1 DEF Copies
    <3>4. CASE i \notin 1 .. len
      <4>1. i \in 1 .. len + n /\ i > len
        BY <1>3, <3>1, <3>2, <3>4
      <4>2. r.ev = e
        BY <1>5, <1>6, <3>1, <3>2, <4>1
      <4>3. \/ n >= 1 /\ i = len + 1
            \/ n = 2 /\ i = len + 2
        BY <1>3, <4>1
      <4> QED
        BY <2>2, <4>2, <4>3
    <3> QED
      BY <3>3, <3>4
  <2> QED
    BY <2>1, <2>2
<1> DEFINE S == Copies(e)
           T == Copies(e)'
<1>7. \A c \in T : \/ c \in S
                   \/ r.ev = e /\ n >= 1 /\ c = <<q, len + 1>>
                   \/ r.ev = e /\ n = 2 /\ c = <<q, len + 2>>
  <2> SUFFICES ASSUME NEW p \in 1 .. Partitions, NEW i \in DOMAIN log'[p],
                      log'[p][i].ev = e
               PROVE  \/ <<p, i>> \in S
                      \/ r.ev = e /\ n >= 1 /\ <<p, i>> = <<q, len + 1>>
                      \/ r.ev = e /\ n = 2 /\ <<p, i>> = <<q, len + 2>>
    BY DEF Copies
  <2> QED
    BY <1>6
<1> HIDE DEF S, T, len
<1>8. IsFiniteSet(T) /\ Cardinality(T) <= Cardinality(S) + n
  <2>1. /\ n = 0 => T \subseteq S
        /\ n = 1 => T \subseteq S \cup {<<q, len + 1>>}
        /\ n = 2 => T \subseteq (S \cup {<<q, len + 1>>}) \cup {<<q, len + 2>>}
    BY <1>7
  <2> QED
    BY <2>1, TwoMore DEF S
<1>9. r.ev # e => T \in SUBSET S
  BY <1>7
<1>10. r.ev # e => Cardinality(T) <= Cardinality(S)
  BY <1>9, FS_Subset DEF S
<1> QED
  BY <1>8, <1>10 DEF S, T

\* sendWithRetry never goes back on an attempt.
LEMMA FinishAttempts ==
    ASSUME SimTypes, idx \in SimEvents, NEW result, Finish(result, idx + 1),
           NEW e \in SimEvents
    PROVE  Attempted(e) <= Attempted(e)'
<1>1. /\ idx' = idx + 1 /\ attempt' = 1
      /\ pc' = IF idx + 1 > NumEvents THEN "done" ELSE "send"
  BY DEF Finish
<1>2. /\ idx \in Nat /\ e \in Nat /\ e <= NumEvents /\ NumEvents \in Nat
      /\ attempt \in 1 .. maxSendAttempts
  BY BoundsAssumption DEF SimTypes, SimEvents
<1> QED
  BY <1>1, <1>2 DEF Attempted, maxSendAttempts

LEMMA FailedAttempts ==
    ASSUME SimTypes, idx \in SimEvents, SendFailed, NEW e \in SimEvents
    PROVE  Attempted(e) <= Attempted(e)'
<1>1. CASE LastAttempt(attempt)
  BY <1>1, FinishAttempts DEF SendFailed, AfterGivingUp
<1>2. CASE ~LastAttempt(attempt)
  BY <1>2, BoundsAssumption
  DEF SendFailed, Attempted, SimTypes, SimEvents, maxSendAttempts
<1> QED
  BY <1>1, <1>2

\* Every step but Post and Publish opens no attempt and leaves the topic alone.
LEMMA NoAttempt ==
    ASSUME TypeInv, [Next]_vars, ~Post, ~\E r \in requests : Publish(r),
           NEW e \in SimEvents
    PROVE  /\ UNCHANGED <<log, repeated>> /\ Open(e)' \subseteq Open(e)
           /\ Attempted(e) <= Attempted(e)'
<1>0. /\ idx \in Nat /\ NumEvents \in Nat /\ (idx <= NumEvents => idx \in SimEvents)
      /\ SimTypes /\ Attempted(e) \in Int
  BY BoundsAssumption DEF TypeInv, SimTypes, SimEvents, Attempted, maxSendAttempts
<1>1. CASE UNCHANGED vars
  BY <1>0, <1>1 DEF vars, simVars, apiVars, kafkaVars, Open, Attempted
<1>2. CASE Unreachable \/ Timeout
  <2>1. idx \in SimEvents /\ SendFailed
    BY <1>0, <1>2 DEF Unreachable, Timeout, OnTimeout, SimTypes
  <2> QED
    BY <1>0, <1>2, <2>1, FailedAttempts DEF Unreachable, Timeout, apiVars, kafkaVars, Open
<1>3. ASSUME NEW r \in requests, Answer(r)
      PROVE  /\ UNCHANGED <<log, repeated>> /\ Open(e)' \subseteq Open(e)
             /\ Attempted(e) <= Attempted(e)'
  <2>1. idx \in SimEvents /\ (Finish("sent", idx + 1) \/ SendFailed)
    BY <1>0, <1>3 DEF Answer, Awaited, SimTypes
  <2>2. Attempted(e) <= Attempted(e)'
    BY <1>0, <2>1, FinishAttempts, FailedAttempts
  <2> QED
    BY <1>3, <2>2 DEF Answer, kafkaVars, Open
<1>4. CASE Cancel
  BY <1>0, <1>4
  DEF Cancel, apiVars, kafkaVars, Open, Attempted, SimTypes, maxSendAttempts
<1>5. ASSUME NEW r \in requests, Reject(r)
      PROVE  /\ UNCHANGED <<log, repeated>> /\ Open(e)' \subseteq Open(e)
             /\ Attempted(e) <= Attempted(e)'
  <2>1. \A x \in requests' : x \in requests \/ x = [r EXCEPT !.stage = "400"]
    BY <1>5 DEF Reject, Advance
  <2>2. [r EXCEPT !.stage = "400"].stage = "400"
    BY DEF TypeInv, ApiTypes, RequestOK, Requests
  <2>3. Open(e)' \subseteq Open(e)
    BY <2>1, <2>2 DEF Open
  <2> QED
    BY <1>0, <1>5, <2>3 DEF Reject, simVars, kafkaVars, Attempted
<1>6. CASE CrashApi
  <2>1. PICK late \in SUBSET Awaited :
          LET cut == {r \in requests : r.stage = "received"} \cup late
          IN  requests' = (requests \ cut) \cup {[r EXCEPT !.stage = "died"] : r \in cut}
    BY <1>6 DEF CrashApi
  <2>2. Awaited \subseteq requests
    BY DEF Awaited
  <2>3. \A r \in requests : [r EXCEPT !.stage = "died"].stage = "died"
    BY DEF TypeInv, ApiTypes, RequestOK, Requests
  <2>4. \A x \in requests' : x \in requests \/ x.stage = "died"
    BY <2>1, <2>2, <2>3
  <2>5. Open(e)' \subseteq Open(e)
    BY <2>4 DEF Open
  <2> QED
    BY <1>0, <1>6, <2>5 DEF CrashApi, simVars, Attempted
<1>7. ASSUME NEW ev \in ClientEvents, NEW id \in Named, ClientPost(ev, id)
      PROVE  /\ UNCHANGED <<log, repeated>> /\ Open(e)' \subseteq Open(e)
             /\ Attempted(e) <= Attempted(e)'
  <2>1. \A x \in requests' : x \in requests \/ x.ev = ev
    BY <1>7 DEF ClientPost, Request
  <2>2. ev # e
    BY ClientAssumption
  <2>3. Open(e)' \subseteq Open(e)
    BY <2>1, <2>2 DEF Open
  <2> QED
    BY <1>0, <1>7, <2>3 DEF ClientPost, simVars, kafkaVars, Attempted
<1> QED
  BY <1>1, <1>2, <1>3, <1>4, <1>5, <1>6, <1>7 DEF Next, Simulate, Handle

LEMMA CopiesStep ==
    ASSUME TypeInv, CopiesInv, [Next]_vars
    PROVE  CopiesInv'
<1> SUFFICES ASSUME NEW e \in SimEvents
             PROVE  /\ IsFiniteSet(Open(e))' /\ IsFiniteSet(Copies(e))'
                    /\ Cardinality(Copies(e))' + Cardinality(Open(e))'
                         <= Attempted(e)' + repeated'
  BY DEF CopiesInv
<1>1. /\ IsFiniteSet(Open(e)) /\ IsFiniteSet(Copies(e)) /\ TypeInv'
      /\ Cardinality(Copies(e)) + Cardinality(Open(e)) <= Attempted(e) + repeated
  BY NextTypes DEF CopiesInv
<1>2. /\ Cardinality(Open(e)) \in Nat /\ Cardinality(Copies(e)) \in Nat
      /\ Attempted(e) \in Int /\ repeated \in Nat
  BY <1>1, FS_CardinalityType, BoundsAssumption
  DEF Attempted, TypeInv, SimTypes, KafkaTypes, maxSendAttempts
<1>3. Attempted(e)' \in Int /\ repeated' \in Nat
  BY <1>1, BoundsAssumption DEF Attempted, TypeInv, SimTypes, KafkaTypes, maxSendAttempts
<1>4. CASE ~Post /\ ~\E r \in requests : Publish(r)
  <2>1. /\ UNCHANGED <<log, repeated>> /\ Open(e)' \in SUBSET Open(e)
        /\ Attempted(e) <= Attempted(e)'
    BY <1>4, NoAttempt
  <2>2. Copies(e)' = Copies(e)
    BY <2>1 DEF Copies
  <2>3. IsFiniteSet(Open(e)') /\ Cardinality(Open(e)') <= Cardinality(Open(e))
    BY <1>1, <2>1, FS_Subset
  <2>4. Cardinality(Open(e)') \in Nat
    BY <2>3, FS_CardinalityType
  <2> QED
    BY <1>1, <1>2, <1>3, <2>1, <2>2, <2>3, <2>4
<1>5. CASE Post
  <2> DEFINE new == Request(idx, attempt, <<"given", idx>>)
  <2>1. /\ requests' = requests \cup {new} /\ UNCHANGED <<log, repeated, idx, attempt>>
        /\ pc = "send" /\ pc' = "wait"
    BY <1>5 DEF Post, kafkaVars
  <2>2. Copies(e)' = Copies(e)
    BY <2>1 DEF Copies
  <2>3. CASE e = idx
    <3>1. Open(e)' \in SUBSET (Open(e) \cup {new})
      BY <2>1 DEF Open
    <3>2. /\ IsFiniteSet(Open(e) \cup {new})
          /\ Cardinality(Open(e) \cup {new}) <= Cardinality(Open(e)) + 1
          /\ Cardinality(Open(e) \cup {new}) \in Nat
      <4>1. /\ IsFiniteSet(Open(e) \cup {new})
            /\ Cardinality(Open(e) \cup {new}) =
                 IF new \in Open(e) THEN Cardinality(Open(e))
                 ELSE Cardinality(Open(e)) + 1
        BY <1>1, FS_AddElement
      <4> QED
        BY <1>2, <4>1
    <3>3. IsFiniteSet(Open(e)') /\ Cardinality(Open(e)') <= Cardinality(Open(e)) + 1
          /\ Cardinality(Open(e)') \in Nat
      <4>1. IsFiniteSet(Open(e)')
            /\ Cardinality(Open(e)') <= Cardinality(Open(e) \cup {new})
        BY <3>1, <3>2, FS_Subset
      <4>2. Cardinality(Open(e)') \in Nat
        BY <4>1, FS_CardinalityType
      <4> QED
        BY <1>2, <3>2, <4>1, <4>2
    <3>4. Attempted(e)' = Attempted(e) + 1
      BY <2>1, <2>3 DEF Attempted, TypeInv, SimTypes
    <3> QED
      BY <1>1, <1>2, <1>3, <2>1, <2>2, <3>3, <3>4
  <2>4. CASE e # idx
    <3>1. new.ev = idx
      BY DEF Request
    <3>2. Open(e)' = Open(e)
      BY <2>1, <2>4, <3>1 DEF Open
    <3>3. Attempted(e)' = Attempted(e)
      BY <2>1, <2>4, BoundsAssumption DEF Attempted, TypeInv, SimTypes, SimEvents
    <3> QED
      BY <1>1, <2>1, <2>2, <3>2, <3>3
  <2> QED
    BY <2>3, <2>4
<1>6. ASSUME NEW r \in requests, Publish(r)
      PROVE  /\ IsFiniteSet(Open(e))' /\ IsFiniteSet(Copies(e))'
             /\ Cardinality(Copies(e))' + Cardinality(Open(e))'
                  <= Attempted(e)' + repeated'
  <2>1. PICK n \in 0 .. 2, s \in {"202", "500"} :
          /\ log' = Written(r, n) \/ (n = 0 /\ log' = log)
          /\ Advance(r, s)
          /\ repeated' = IF n = 2 THEN repeated + 1 ELSE repeated
    <3>1. Write(r)
      BY <1>6 DEF Publish
    <3>2. 0 \in 0 .. 2 /\ 1 \in 0 .. 2 /\ 2 \in 0 .. 2 /\ 0 # 2 /\ 1 # 2 /\ 0 .. 1 = {0, 1}
      OBVIOUS
    <3> QED
      BY <3>1, <3>2 DEF Write, OnPublishError
  <2>2. /\ IsFiniteSet(Copies(e)')
        /\ Cardinality(Copies(e)') <= Cardinality(Copies(e)) + n
        /\ r.ev # e => Cardinality(Copies(e)') <= Cardinality(Copies(e))
    <3>1. CASE log' = Written(r, n)
      BY <1>1, <1>6, <3>1, CopiesWritten DEF Publish
    <3>2. CASE n = 0 /\ log' = log
      BY <1>1, <1>2, <3>2 DEF Copies
    <3> QED
      BY <2>1, <3>1, <3>2
  <2>3. Cardinality(Copies(e)') \in Nat
    BY <2>2, FS_CardinalityType
  <2>4. Attempted(e)' = Attempted(e)
    BY <1>6 DEF Publish, simVars, Attempted
  <2>5. [r EXCEPT !.stage = s].stage = s
    BY DEF TypeInv, ApiTypes, RequestOK, Requests
  <2>6. Open(e)' = Open(e) \ {r}
    BY <2>1, <2>5 DEF Advance, Open
  <2>7. /\ IsFiniteSet(Open(e)')
        /\ Cardinality(Open(e)') =
             IF r \in Open(e) THEN Cardinality(Open(e)) - 1 ELSE Cardinality(Open(e))
    BY <1>1, <2>6, FS_RemoveElement
  <2>8. r.ev = e => r \in Open(e)
    BY <1>6 DEF Publish, Open
  <2>9. Cardinality(Copies(e)') + Cardinality(Open(e)')
          <= Cardinality(Copies(e)) + Cardinality(Open(e)) + (IF n = 2 THEN 1 ELSE 0)
    <3>1. CASE r.ev = e
      BY <1>2, <2>2, <2>3, <2>7, <2>8, <3>1
    <3>2. CASE r.ev # e
      <4>1. r \notin Open(e)
        BY <3>2 DEF Open
      <4> QED
        BY <1>2, <2>2, <2>3, <2>7, <3>2, <4>1
    <3> QED
      BY <3>1, <3>2
  <2>10. Cardinality(Open(e)') \in Nat
    BY <2>7, FS_CardinalityType
  <2> QED
    BY <1>1, <1>2, <1>3, <2>1, <2>2, <2>3, <2>4, <2>7, <2>9, <2>10
<1> QED
  BY <1>4, <1>5, <1>6

LEMMA InitCopies == Init => CopiesInv
<1> SUFFICES ASSUME Init, NEW e \in SimEvents
             PROVE  /\ IsFiniteSet(Open(e)) /\ IsFiniteSet(Copies(e))
                    /\ Cardinality(Copies(e)) + Cardinality(Open(e))
                         <= Attempted(e) + repeated
  BY DEF CopiesInv
<1>1. Open(e) = {} /\ Copies(e) = {}
  BY DEF Init, Open, Copies
<1>2. Attempted(e) = 0 /\ repeated = 0
  BY BoundsAssumption DEF Init, Attempted, SimEvents
<1> QED
  BY <1>1, <1>2, FS_EmptySet

\* Retries that time out and land late, crashes of the event-api and answers
\* that are lost put an event of the simulator on the topic at most
\* maxSendAttempts times, plus once for every batch the Kafka writer stored
\* twice: for any number of events, clients and partitions.
THEOREM RetriesAreBounded == Spec => []CopiesBounded
<1>1. CopiesInv /\ TypeInv => CopiesBounded
  <2> SUFFICES ASSUME CopiesInv, TypeInv, NEW e \in SimEvents
               PROVE  Cardinality(Copies(e)) <= maxSendAttempts + repeated
    BY DEF CopiesBounded
  <2>1. /\ Cardinality(Copies(e)) + Cardinality(Open(e)) <= Attempted(e) + repeated
        /\ Cardinality(Open(e)) \in Nat /\ Cardinality(Copies(e)) \in Nat
    BY FS_CardinalityType DEF CopiesInv
  <2>2. Attempted(e) \in 0 .. maxSendAttempts /\ maxSendAttempts \in Nat /\ repeated \in Nat
    BY DEF Attempted, TypeInv, SimTypes, KafkaTypes, maxSendAttempts
  <2> QED
    BY <2>1, <2>2
<1> QED
  BY InitCopies, CopiesStep, <1>1, TypeInvariant, PTL DEF Spec
=============================================================================
