-------------------------- MODULE MLPredictorProofs --------------------------
(***************************************************************************)
(* What holds of the ml-predictor's consumer thread for every number of    *)
(* replicas, every stream of messages and every fault budget: the types,   *)
(* that automatic commits lose nothing, how often a message is handled at  *)
(* most, and that the prediction stored in the end is the newest one.      *)
(***************************************************************************)
EXTENDS MLPredictor, FiniteSetTheorems, TLAPS

(***************************************************************************)
(* Types.  TypeOK is not inductive by itself: a record is in hand only     *)
(* after the position moved past it, and a thread still connecting has     *)
(* attempts left.                                                          *)
(***************************************************************************)

RecordInHand == \A c \in Predictors : pc[c] \in {"xg", "store"} => pos[c] >= 1

AttemptsLeft ==
    \A c \in Predictors : pc[c] \in {"down", "connect"} => connects[c] < ConnectAttempts

TypeInv == TypeOK /\ RecordInHand /\ AttemptsLeft

\* Nothing is published or committed, and no thread runs, at the start.
LEMMA InitTypes == Init => TypeInv
<1> SUFFICES ASSUME Init PROVE TypeInv
  OBVIOUS
<1>1. NoTotals \in Xg /\ NoPrediction \in [offset : Offsets, xg : Xg]
  BY DEF NoTotals, NoPrediction, Xg, Offsets, Init
<1>2. TypeOK
  <2>1. stored \in [Matches -> [offset : Offsets, xg : Xg]]
    BY <1>1 DEF Init
  <2>2. totals \in [Predictors -> Xg]
    BY <1>1 DEF Init
  <2>3. connects \in [Predictors -> 0 .. ConnectAttempts]
    BY BoundsAssumption DEF Init
  <2> QED
    BY <2>1, <2>2, <2>3, BoundsAssumption DEF Init, TypeOK, Offsets
<1> QED
  BY <1>2, BoundsAssumption DEF Init, TypeInv, RecordInHand, AttemptsLeft

\* A message published leaves every offset and every total in range.
LEMMA PublishTypes ==
    ASSUME TypeInv, NEW msg \in Messages, Publish(msg) PROVE TypeInv'
<1>1. topic' \in Seq(Message) /\ Len(topic') = Len(topic) + 1
  BY MessagesAssumption DEF TypeInv, TypeOK, Publish
<1>2. Offsets \subseteq Offsets' /\ Len(topic) \in Nat
  BY <1>1 DEF Offsets, TypeInv, TypeOK
<1>3. Xg \subseteq Xg'
  <2>1. Seq(Offsets) \subseteq Seq(Offsets')
    BY <1>2
  <2> QED
    BY <2>1 DEF Xg
<1>4. stored' \in [Matches -> [offset : Offsets', xg : Xg']]
  BY <1>2, <1>3 DEF TypeInv, TypeOK, Publish
<1>5. totals' \in [Predictors -> Xg']
  BY <1>3 DEF TypeInv, TypeOK, Publish, threadVars
<1>6. TypeOK'
  BY <1>1, <1>2, <1>4, <1>5
  DEF TypeInv, TypeOK, Publish, threadVars, historyVars
<1> QED
  BY <1>6 DEF TypeInv, RecordInHand, AttemptsLeft, Publish, threadVars

\* A fault is spent only while there is one left.
LEMMA SpendTypes ==
    ASSUME faults \in [FaultKinds -> Nat], NEW k \in FaultKinds, Spend(k)
    PROVE  faults' \in [FaultKinds -> Nat]
  BY DEF Spend

\* The totals of a prediction stay sequences of offsets.
LEMMA AccumulatedType ==
    ASSUME TypeInv, NEW c \in Predictors, pc[c] \in {"xg", "store"}
    PROVE  Accumulated(c) \in Xg /\ Msg(c).match \in Matches /\ pos[c] \in Offsets
<1>1. pos[c] \in 1 .. Len(topic) /\ Len(topic) \in Nat
  BY DEF TypeInv, TypeOK, RecordInHand, Offsets
<1>2. Msg(c) \in Message
  BY <1>1 DEF Msg, TypeInv, TypeOK
<1>3. stored[Msg(c).match].xg \in Xg /\ pos[c] \in Offsets
  BY <1>1, <1>2 DEF TypeInv, TypeOK, Message, Offsets
<1> DEFINE before == stored[Msg(c).match].xg
<1>4. Append(before.home, pos[c]) \in Seq(Offsets) /\ Append(before.away, pos[c]) \in Seq(Offsets)
  BY <1>3 DEF Xg
<1>5. Accumulated(c) \in Xg
  BY <1>3, <1>4 DEF Accumulated, Xg
<1> QED
  BY <1>2, <1>3, <1>5 DEF Message

\* Every step of a replica keeps the types; the topic stays as it is.
LEMMA ReplicaTypes ==
    ASSUME TypeInv, NEW c \in Predictors,
           \/ Start(c) \/ Step(c) \/ Join(c) \/ AutoCommit(c)
           \/ HandOver(c) \/ SessionTimeout(c) \/ Crash(c)
    PROVE  TypeInv'
<1>0. Len(topic) \in Nat /\ pos[c] \in Offsets /\ batchEnd[c] \in Offsets
      /\ NoTotals \in Xg
  BY DEF TypeInv, TypeOK, Offsets, NoTotals, Xg
<1>1. CASE Start(c)
  BY <1>1 DEF Start, Goto, TypeInv, TypeOK, Offsets, Xg, RecordInHand, AttemptsLeft,
              kafkaVars, historyVars
<1>2. CASE Connect(c)
  <2> DEFINE n == connects[c]
  <2>1. n \in Nat /\ n < ConnectAttempts /\ ConnectAttempts \in Nat
    BY <1>2, BoundsAssumption DEF Connect, TypeInv, TypeOK, AttemptsLeft
  <2>a. \/ /\ pc' = [pc EXCEPT ![c] = "iterate"]
           /\ connects' = [connects EXCEPT ![c] = 0]
        \/ /\ n + 1 >= ConnectAttempts
           /\ pc' = [pc EXCEPT ![c] = "gaveUp"]
           /\ connects' = [connects EXCEPT ![c] = n + 1]
        \/ /\ n + 1 < ConnectAttempts
           /\ pc' = pc
           /\ connects' = [connects EXCEPT ![c] = n + 1]
    BY <1>2, <2>1 DEF Connect, Goto, LastConnect
  <2>b. 0 \in 0 .. ConnectAttempts /\ n + 1 \in 0 .. ConnectAttempts
    BY <2>1
  <2> HIDE DEF n
  <2>2. connects' \in [Predictors -> 0 .. ConnectAttempts]
    BY <2>a, <2>b DEF TypeInv, TypeOK
  <2>3. pc' \in [Predictors -> {"down", "connect", "gaveUp", "iterate", "xg", "store"}]
    BY <1>2 DEF Connect, Goto, TypeInv, TypeOK
  <2>4. faults' \in [FaultKinds -> Nat]
    BY <1>2, SpendTypes DEF Connect, TypeInv, TypeOK, FaultKinds
  <2>5. TypeOK'
    BY <1>2, <2>2, <2>3, <2>4
    DEF Connect, TypeInv, TypeOK, Offsets, Xg, kafkaVars, historyVars
  <2>6. RecordInHand'
    BY <1>2 DEF Connect, Goto, TypeInv, TypeOK, RecordInHand
  <2>7. AttemptsLeft'
    <3> SUFFICES ASSUME NEW d \in Predictors, pc'[d] \in {"down", "connect"}
                 PROVE  connects'[d] < ConnectAttempts
      BY DEF AttemptsLeft
    <3>1. CASE d = c
      BY <2>1, <2>a, <3>1 DEF TypeInv, TypeOK
    <3>2. CASE d # c
      BY <2>a, <3>2 DEF TypeInv, TypeOK, AttemptsLeft
    <3> QED
      BY <3>1, <3>2
  <2> QED
    BY <2>5, <2>6, <2>7 DEF TypeInv
<1>3. CASE Poll(c)
  <2>1. PICK n \in pos[c] + 1 .. Len(topic) : batchEnd' = [batchEnd EXCEPT ![c] = n]
    BY <1>3 DEF Poll
  <2>2. n \in Offsets /\ pos[c] <= n
    BY <1>0, <2>1 DEF Offsets
  <2>3. batchEnd' \in [Predictors -> Offsets] /\ \A d \in Predictors : pos[d] <= batchEnd'[d]
    BY <2>1, <2>2 DEF TypeInv, TypeOK
  <2> QED
    BY <1>3, <2>3 DEF Poll, TypeInv, TypeOK, Offsets, Xg, RecordInHand, AttemptsLeft,
                      kafkaVars, historyVars
<1>4. CASE NextRecord(c)
  <2>1. pos[c] + 1 \in Offsets /\ pos[c] + 1 <= batchEnd[c] /\ pos[c] + 1 >= 1
    BY <1>0, <1>4 DEF NextRecord, Offsets
  <2>2. pos' \in [Predictors -> Offsets] /\ \A d \in Predictors : pos'[d] <= batchEnd[d]
    BY <1>4, <2>1 DEF NextRecord, TypeInv, TypeOK
  <2>3. pc' \in [Predictors -> {"down", "connect", "gaveUp", "iterate", "xg", "store"}]
    BY <1>4 DEF NextRecord, Goto, TypeInv, TypeOK
  <2>4. TypeOK'
    BY <1>4, <2>2, <2>3
    DEF NextRecord, TypeInv, TypeOK, Offsets, Xg, kafkaVars, historyVars
  <2>5. RecordInHand' /\ AttemptsLeft'
    BY <1>4, <2>1 DEF NextRecord, Goto, TypeInv, TypeOK, RecordInHand, AttemptsLeft
  <2> QED
    BY <2>4, <2>5 DEF TypeInv
<1>5. CASE PredictXg(c)
  <2>1. totals' \in [Predictors -> Xg]
    BY <1>5, AccumulatedType DEF PredictXg, TypeInv, TypeOK
  <2>2. pc' \in [Predictors -> {"down", "connect", "gaveUp", "iterate", "xg", "store"}]
    BY <1>5 DEF PredictXg, Goto, TypeInv, TypeOK
  <2>3. faults' \in [FaultKinds -> Nat]
    BY <1>5, SpendTypes DEF PredictXg, TypeInv, TypeOK, FaultKinds
  <2>4. TypeOK'
    BY <1>5, <2>1, <2>2, <2>3
    DEF PredictXg, TypeInv, TypeOK, Offsets, Xg, kafkaVars, historyVars
  <2>5. RecordInHand' /\ AttemptsLeft'
    BY <1>5 DEF PredictXg, Goto, TypeInv, TypeOK, RecordInHand, AttemptsLeft
  <2> QED
    BY <2>4, <2>5 DEF TypeInv
<1>6. CASE Store(c)
  <2>1. Msg(c).match \in Matches /\ pos[c] \in Offsets /\ totals[c] \in Xg
    BY <1>6, AccumulatedType DEF Store, TypeInv, TypeOK
  <2>2. Prediction(c) \in [Matches -> [offset : Offsets, xg : Xg]]
    BY <2>1 DEF Prediction, TypeInv, TypeOK
  <2>3. stored' \in [Matches -> [offset : Offsets, xg : Xg]]
    BY <1>6, <2>2 DEF Store, TypeInv, TypeOK
  <2>4. totals' \in [Predictors -> Xg]
    BY <1>0, <1>6 DEF Store, TypeInv, TypeOK
  <2>5. handled' \cup skipped' \subseteq Offsets /\ times' \in [1 .. MaxTopic -> Nat]
    <3>1. times \in [1 .. MaxTopic -> Nat] /\ times' = [times EXCEPT ![pos[c]] = times[pos[c]] + 1]
      BY <1>6 DEF Store, TypeInv, TypeOK
    <3>a. times' = [k \in 1 .. MaxTopic |-> IF k = pos[c] THEN times[k] + 1 ELSE times[k]]
      BY <3>1
    <3>b. \A k \in 1 .. MaxTopic : times[k] \in Nat /\ times[k] + 1 \in Nat
      BY <3>1
    <3>2. times' \in [1 .. MaxTopic -> Nat]
      BY <3>a, <3>b
    <3> QED
      BY <1>6, <2>1, <3>2 DEF Store, TypeInv, TypeOK
  <2>6. pc' \in [Predictors -> {"down", "connect", "gaveUp", "iterate", "xg", "store"}]
    BY <1>6 DEF Store, Goto, TypeInv, TypeOK
  <2>7. faults' \in [FaultKinds -> Nat]
    BY <1>6, SpendTypes DEF Store, TypeInv, TypeOK, FaultKinds
  <2>8. TypeOK'
    BY <1>6, <2>3, <2>4, <2>5, <2>6, <2>7
    DEF Store, TypeInv, TypeOK, Offsets, Xg, kafkaVars
  <2>9. RecordInHand' /\ AttemptsLeft'
    BY <1>6 DEF Store, Goto, TypeInv, TypeOK, RecordInHand, AttemptsLeft
  <2> QED
    BY <2>8, <2>9 DEF TypeInv
<1>7. CASE Join(c)
  <2>1. StartOffset \in Offsets /\ 1 .. Len(topic) \subseteq Offsets
    BY <1>0 DEF StartOffset, Offsets, TypeInv, TypeOK
  <2>2. /\ pos' \in [Predictors -> Offsets] /\ batchEnd' \in [Predictors -> Offsets]
        /\ \A d \in Predictors : pos'[d] <= batchEnd'[d]
    BY <1>7, <2>1 DEF Join, TypeInv, TypeOK, Offsets
  <2>3. handled' \cup skipped' \subseteq Offsets
    BY <1>7, <2>1 DEF Join, TypeInv, TypeOK
  <2>4. TypeOK'
    BY <1>7, <2>2, <2>3 DEF Join, TypeInv, TypeOK, Offsets, Xg
  <2>5. RecordInHand' /\ AttemptsLeft'
    BY <1>7 DEF Join, BetweenBatches, TypeInv, TypeOK, RecordInHand, AttemptsLeft
  <2> QED
    BY <2>4, <2>5 DEF TypeInv
<1>8. CASE AutoCommit(c)
  BY <1>0, <1>8 DEF AutoCommit, TypeInv, TypeOK, Offsets, Xg, RecordInHand, AttemptsLeft,
                    threadVars, historyVars
<1>9. CASE HandOver(c)
  <2>1. faults' \in [FaultKinds -> Nat]
    BY <1>9, SpendTypes DEF HandOver, TypeInv, TypeOK, FaultKinds
  <2> QED
    BY <1>0, <1>9, <2>1 DEF HandOver, LastCommit, TypeInv, TypeOK, Offsets, Xg,
                            RecordInHand, AttemptsLeft, threadVars, historyVars
<1>10. CASE SessionTimeout(c)
  <2>1. faults' \in [FaultKinds -> Nat]
    BY <1>10, SpendTypes DEF SessionTimeout, TypeInv, TypeOK, FaultKinds
  <2> QED
    BY <1>10, <2>1 DEF SessionTimeout, TypeInv, TypeOK, Offsets, Xg,
                       RecordInHand, AttemptsLeft, threadVars, historyVars
<1>11. CASE Crash(c)
  <2>1. /\ pos' \in [Predictors -> Offsets] /\ batchEnd' \in [Predictors -> Offsets]
        /\ \A d \in Predictors : pos'[d] <= batchEnd'[d]
    BY <1>0, <1>11 DEF Crash, TypeInv, TypeOK, Offsets
  <2>2. totals' \in [Predictors -> Xg]
    BY <1>0, <1>11 DEF Crash, TypeInv, TypeOK
  <2>3. /\ connects' \in [Predictors -> 0 .. ConnectAttempts]
        /\ pc' \in [Predictors -> {"down", "connect", "gaveUp", "iterate", "xg", "store"}]
        /\ owner' \in Predictors \cup {NoOwner}
    BY <1>11, BoundsAssumption DEF Crash, Goto, TypeInv, TypeOK
  <2>4. faults' \in [FaultKinds -> Nat]
    BY <1>11, SpendTypes DEF Crash, TypeInv, TypeOK, FaultKinds
  <2>5. TypeOK'
    BY <1>11, <2>1, <2>2, <2>3, <2>4 DEF Crash, TypeInv, TypeOK, Offsets, Xg, historyVars
  <2>6. RecordInHand' /\ AttemptsLeft'
    BY <1>11, BoundsAssumption
    DEF Crash, Goto, TypeInv, TypeOK, RecordInHand, AttemptsLeft
  <2> QED
    BY <2>5, <2>6 DEF TypeInv
<1> QED
  BY <1>1, <1>2, <1>3, <1>4, <1>5, <1>6, <1>7, <1>8, <1>9, <1>10, <1>11 DEF Step

\* A step that changes nothing keeps the types.
LEMMA StutterTypes == TypeInv /\ UNCHANGED vars => TypeInv'
  BY DEF TypeInv, TypeOK, RecordInHand, AttemptsLeft, Offsets, Xg,
         vars, kafkaVars, threadVars, historyVars

\* The strengthened type invariant holds throughout.
LEMMA TypeInvariant == Spec => []TypeInv
<1>1. TypeInv /\ [Next]_vars => TypeInv'
  BY PublishTypes, ReplicaTypes, StutterTypes DEF Next
<1> QED
  BY InitTypes, <1>1, PTL DEF Spec

\* The consumer threads, the group and the predictions keep their types, and no
\* position, batch or commit lies beyond the end of match-stats.
THEOREM TypeCorrect == Spec => []TypeOK
<1>1. TypeInv => TypeOK
  BY DEF TypeInv
<1> QED
  BY TypeInvariant, <1>1, PTL

(***************************************************************************)
(* Automatic commits.  The client commits its position, which moves before *)
(* a record is handled, so the invariant has to follow the record in hand. *)
(***************************************************************************)

Done == handled \cup skipped

\* The last offset the thread has behind it.
Behind(c) == IF pc[c] \in {"xg", "store"} THEN pos[c] - 1 ELSE pos[c]

CommitInv ==
    /\ CommittedIsHandled
    /\ \A c \in Predictors : 1 .. Behind(c) \subseteq Done

\* A step that handles nothing and moves no offset forward keeps what is
\* committed and what is behind each thread handled.
LEMMA QuietStep ==
    ASSUME CommitInv, Done \subseteq Done', UNCHANGED committed,
           \A d \in Predictors : Behind(d)' = Behind(d)
    PROVE  CommitInv'
  BY DEF CommitInv, CommittedIsHandled, Done

\* Every step keeps it: a commit is made between two records, when the record
\* before was handled.
LEMMA CommitStep == TypeInv /\ CommitInv /\ [Next]_vars => CommitInv'
<1> SUFFICES ASSUME TypeInv, CommitInv, [Next]_vars PROVE CommitInv'
  OBVIOUS
<1>1. CASE UNCHANGED vars
  BY <1>1, QuietStep DEF vars, kafkaVars, threadVars, historyVars, Done, Behind
<1>2. ASSUME NEW msg \in Messages, Publish(msg) PROVE CommitInv'
  BY <1>2, QuietStep DEF Publish, threadVars, historyVars, Done, Behind
<1>3. ASSUME NEW c \in Predictors,
             \/ Start(c) \/ Step(c) \/ Join(c) \/ AutoCommit(c)
             \/ HandOver(c) \/ SessionTimeout(c) \/ Crash(c)
      PROVE  CommitInv'
  <2>0. \A d \in Predictors : pos[d] \in Nat
    BY DEF TypeInv, TypeOK, Offsets
  <2>1. CASE Start(c)
    BY <2>1, QuietStep
    DEF Start, Goto, TypeInv, TypeOK, kafkaVars, historyVars, Done, Behind
  <2>2. CASE Connect(c)
    BY <2>2, QuietStep
    DEF Connect, Goto, TypeInv, TypeOK, kafkaVars, historyVars, Done, Behind
  <2>3. CASE Poll(c)
    BY <2>3, QuietStep DEF Poll, kafkaVars, historyVars, Done, Behind
  <2>4. CASE NextRecord(c)
    <3>1. \A d \in Predictors : Behind(d)' = Behind(d)
      BY <2>0, <2>4 DEF NextRecord, Goto, TypeInv, TypeOK, Behind
    <3> QED
      BY <2>4, <3>1, QuietStep DEF NextRecord, kafkaVars, historyVars, Done
  <2>5. CASE PredictXg(c)
    BY <2>5, QuietStep
    DEF PredictXg, Goto, TypeInv, TypeOK, kafkaVars, historyVars, Done, Behind
  <2>6. CASE Store(c)
    <3>1. Done' = Done \cup {pos[c]}
      BY <2>6 DEF Store, Done
    <3>2. 1 .. Behind(c)' \subseteq Done'
      <4>1. Behind(c) = pos[c] - 1 /\ Behind(c)' = pos[c]
        BY <2>6 DEF Store, Goto, TypeInv, TypeOK, Behind
      <4>2. 1 .. pos[c] - 1 \subseteq Done
        BY <4>1 DEF CommitInv
      <4> QED
        BY <2>0, <3>1, <4>1, <4>2
    <3>3. \A d \in Predictors \ {c} : Behind(d)' = Behind(d)
      BY <2>6 DEF Store, Goto, TypeInv, TypeOK, Behind
    <3> QED
      BY <2>6, <3>1, <3>2, <3>3
      DEF Store, kafkaVars, CommitInv, CommittedIsHandled, Done
  <2>7. CASE Join(c)
    <3>1. Done \subseteq Done' /\ UNCHANGED committed
      BY <2>7 DEF Join, Done
    <3>2. 1 .. StartOffset \subseteq Done'
      <4>1. CASE committed = -1
        BY <2>7, <4>1 DEF Join, StartOffset, Done
      <4>2. CASE committed # -1
        BY <3>1, <4>2 DEF StartOffset, CommitInv, CommittedIsHandled, Done
      <4> QED
        BY <4>1, <4>2
    <3>3. Behind(c)' = StartOffset /\ \A d \in Predictors \ {c} : Behind(d)' = Behind(d)
      BY <2>7 DEF Join, BetweenBatches, TypeInv, TypeOK, Behind
    <3> QED
      BY <3>1, <3>2, <3>3 DEF CommitInv, CommittedIsHandled, Done
  <2>8. ASSUME BetweenBatches(c), committed' = pos[c], UNCHANGED <<threadVars, historyVars>>
        PROVE  CommitInv'
    <3>1. 1 .. pos[c] \subseteq Done
      BY <2>8 DEF BetweenBatches, Behind, CommitInv
    <3> QED
      BY <2>8, <3>1
      DEF CommitInv, CommittedIsHandled, Done, Behind, threadVars, historyVars
  <2>9. CASE AutoCommit(c)
    BY <2>8, <2>9 DEF AutoCommit, MayCommit
  <2>10. CASE HandOver(c)
    BY <2>8, <2>10 DEF HandOver, LastCommit
  <2>11. CASE SessionTimeout(c)
    BY <2>11, QuietStep DEF SessionTimeout, threadVars, historyVars, Done, Behind
  <2>12. CASE Crash(c)
    <3>1. Behind(c)' = 0 /\ \A d \in Predictors \ {c} : Behind(d)' = Behind(d)
      BY <2>12 DEF Crash, Goto, TypeInv, TypeOK, Behind
    <3>2. Done' = Done /\ UNCHANGED committed
      BY <2>12 DEF Crash, historyVars, Done
    <3> QED
      BY <3>1, <3>2 DEF CommitInv, CommittedIsHandled, Done
  <2> QED
    BY <1>3, <2>1, <2>2, <2>3, <2>4, <2>5, <2>6, <2>7, <2>9, <2>10, <2>11, <2>12 DEF Step
<1> QED
  BY <1>1, <1>2, <1>3 DEF Next

\* What the group has committed was handled to the end, or published before the
\* group first committed: no crash, rebalance or lost session makes it skip a
\* message, although the client moves its position before a record is handled.
THEOREM CommitsAreHandled == Spec => []CommittedIsHandled
<1>1. Init => CommitInv
  BY DEF Init, CommitInv, CommittedIsHandled, Behind, Done
<1>2. CommitInv => CommittedIsHandled
  BY DEF CommitInv
<1> QED
  BY TypeInvariant, CommitStep, <1>1, <1>2, PTL DEF Spec

(***************************************************************************)
(* Who may handle a record.  While no session was lost, the record in hand *)
(* and the rest of a batch belong to the owner of the partition, so that a *)
(* step on a record moves what is handled forward along the topic.         *)
(***************************************************************************)

FaultsLeft == \A k \in FaultKinds : faults[k] <= MaxFaults[k]

Idle(c) == pc[c] \notin {"xg", "store"} /\ pos[c] = batchEnd[c]

OnlyTheOwner == Spent("timeout") = 0 => \A c \in Predictors \ {owner} : Idle(c)

\* What was handled has been published.
HandledPublished == handled \subseteq 1 .. Len(topic)

OwnerInv == TypeInv /\ FaultsLeft /\ OnlyTheOwner /\ HandledPublished

\* How far the partition is behind whoever reads it next.
Horizon == IF owner \in Predictors THEN Behind(owner) ELSE StartOffset

\* How often a fault happened is a number.
LEMMA SpentIsNat ==
    ASSUME TypeInv, FaultsLeft, NEW k \in FaultKinds PROVE Spent(k) \in Nat
  BY BoundsAssumption DEF TypeInv, TypeOK, FaultsLeft, Spent

\* A fault that happens is counted, and no other is.
LEMMA SpendCounts ==
    ASSUME TypeInv, FaultsLeft, NEW k \in FaultKinds, Spend(k)
    PROVE  /\ FaultsLeft' /\ Spent(k)' = Spent(k) + 1 /\ Spent(k)' > 0
           /\ \A j \in FaultKinds \ {k} : Spent(j)' = Spent(j)
<1>1. /\ faults' \in [FaultKinds -> Nat] /\ faults'[k] = faults[k] - 1
      /\ \A j \in FaultKinds \ {k} : faults'[j] = faults[j]
  BY DEF TypeInv, TypeOK, Spend
<1>2. MaxFaults \in [FaultKinds -> Nat] /\ \A j \in FaultKinds : faults[j] \in Nat
  BY BoundsAssumption DEF TypeInv, TypeOK
<1> QED
  BY <1>1, <1>2 DEF FaultsLeft, Spent

\* The steps on the partition itself, of which there are five kinds; every other
\* step leaves what is committed, handled and behind each thread alone.
LEMMA PartitionSteps ==
    ASSUME OwnerInv, [Next]_vars
    PROVE  \/ /\ UNCHANGED <<committed, owner, stored, handled, times>>
              /\ \A d \in Predictors : Behind(d)' = Behind(d)
              /\ \A d \in Predictors \ {owner} : batchEnd'[d] = batchEnd[d]
           \/ \E c \in Predictors : \/ Store(c) \/ Join(c) \/ AutoCommit(c)
                                    \/ HandOver(c) \/ SessionTimeout(c) \/ Crash(c)
<1>0. /\ pc \in [Predictors -> {"down", "connect", "gaveUp", "iterate", "xg", "store"}]
      /\ pos \in [Predictors -> Offsets] /\ \A d \in Predictors : pos[d] \in Nat
      /\ batchEnd \in [Predictors -> Offsets]
  BY DEF OwnerInv, TypeInv, TypeOK, Offsets
<1>1. CASE UNCHANGED vars
  BY <1>1 DEF vars, kafkaVars, threadVars, historyVars, Behind
<1>2. CASE \E msg \in Messages : Publish(msg)
  BY <1>2 DEF Publish, threadVars, historyVars, Behind
<1>3. ASSUME NEW c \in Predictors, Start(c) \/ Connect(c) \/ Poll(c) \/ PredictXg(c)
      PROVE  /\ UNCHANGED <<committed, owner, stored, handled, times>>
             /\ \A d \in Predictors : Behind(d)' = Behind(d)
             /\ \A d \in Predictors \ {owner} : batchEnd'[d] = batchEnd[d]
  BY <1>0, <1>3
  DEF Start, Connect, Poll, PredictXg, Goto, Behind, kafkaVars, historyVars
<1>4. ASSUME NEW c \in Predictors, NextRecord(c)
      PROVE  /\ UNCHANGED <<committed, owner, stored, handled, times>>
             /\ \A d \in Predictors : Behind(d)' = Behind(d)
             /\ \A d \in Predictors \ {owner} : batchEnd'[d] = batchEnd[d]
  BY <1>0, <1>4 DEF NextRecord, Goto, Behind, kafkaVars, historyVars
<1> QED
  BY <1>1, <1>2, <1>3, <1>4 DEF Next, Step

\* Faults are spent one at a time and never come back.
LEMMA SpentGrows ==
    ASSUME TypeInv, FaultsLeft, [Next]_vars
    PROVE  FaultsLeft' /\ \A k \in FaultKinds : Spent(k) <= Spent(k)'
<1>0. \A k \in FaultKinds : Spent(k) \in Nat
  BY SpentIsNat
<1>1. CASE UNCHANGED faults
  BY <1>0, <1>1 DEF FaultsLeft, Spent
<1>2. ASSUME NEW k \in FaultKinds, Spend(k)
      PROVE  FaultsLeft' /\ \A j \in FaultKinds : Spent(j) <= Spent(j)'
  BY <1>0, <1>2, SpendCounts
<1> QED
  BY <1>1, <1>2
  DEF Next, Step, vars, Publish, Start, Connect, Poll, NextRecord, PredictXg, Store,
      Join, AutoCommit, HandOver, SessionTimeout, Crash, FaultKinds

\* The counts after a step, which are no smaller than before it.
LEMMA SpentStep ==
    ASSUME TypeInv, FaultsLeft, [Next]_vars, TypeInv', NEW k \in FaultKinds
    PROVE  Spent(k) \in Nat /\ Spent(k)' \in Nat /\ Spent(k) <= Spent(k)'
<1>1. faults' \in [FaultKinds -> Nat]
  BY DEF TypeInv, TypeOK
<1>2. faults'[k] <= MaxFaults[k] /\ faults'[k] \in Nat /\ MaxFaults[k] \in Nat
  BY <1>1, SpentGrows, BoundsAssumption DEF FaultsLeft
<1>3. Spent(k)' \in Nat
  BY <1>2 DEF Spent
<1> QED
  BY <1>3, SpentIsNat, SpentGrows

\* Nothing published is taken back.
LEMMA TopicGrows ==
    ASSUME TypeInv, [Next]_vars PROVE Len(topic') \in Nat /\ Len(topic) <= Len(topic')
<1>1. topic' = topic \/ (topic \in Seq(Message) /\ \E msg : topic' = Append(topic, msg))
  BY DEF Next, Step, vars, Publish, Start, Connect, Poll, NextRecord, PredictXg, Store,
         Join, AutoCommit, HandOver, SessionTimeout, Crash, kafkaVars, TypeInv, TypeOK
<1>2. Len(topic) \in Nat
  BY DEF TypeInv, TypeOK
<1> QED
  BY <1>1, <1>2

\* A thread that is idle and not assigned the partition stays idle, and a
\* thread that gives the partition up is idle, unless its session was lost.
LEMMA OwnerStep == OwnerInv /\ [Next]_vars => OwnerInv'
<1> SUFFICES ASSUME OwnerInv, [Next]_vars PROVE OwnerInv'
  OBVIOUS
<1> USE DEF OwnerInv
<1>0. /\ pc \in [Predictors -> {"down", "connect", "gaveUp", "iterate", "xg", "store"}]
      /\ pos \in [Predictors -> Offsets] /\ batchEnd \in [Predictors -> Offsets]
      /\ Len(topic) \in Nat /\ NoOwner \notin Predictors
  BY ReplicasAssumption DEF TypeInv, TypeOK
<1>1. TypeInv'
  BY PublishTypes, ReplicaTypes, StutterTypes DEF Next
<1>2. FaultsLeft' /\ \A k \in FaultKinds : Spent(k) <= Spent(k)'
  BY SpentGrows
<1>3. OnlyTheOwner'
  <2> SUFFICES ASSUME Spent("timeout")' = 0, NEW d \in Predictors, d # owner'
               PROVE  Idle(d)'
    BY DEF OnlyTheOwner
  <2>1. Spent("timeout") = 0
    BY <1>2, SpentIsNat DEF FaultKinds
  <2>2. d # owner => Idle(d)
    BY <2>1 DEF OnlyTheOwner
  <2>3. CASE UNCHANGED vars
    BY <2>2, <2>3 DEF vars, kafkaVars, threadVars, Idle
  <2>4. CASE \E msg \in Messages : Publish(msg)
    BY <2>2, <2>4 DEF Publish, threadVars, Idle
  <2>5. ASSUME NEW c \in Predictors,
               \/ Start(c) \/ Step(c) \/ Join(c) \/ AutoCommit(c)
               \/ HandOver(c) \/ SessionTimeout(c) \/ Crash(c)
        PROVE  Idle(d)'
    <3>1. ~SessionTimeout(c)
      BY SpendCounts DEF SessionTimeout, FaultKinds
    <3>2. CASE c = d
      <4>1. CASE Start(c) \/ Connect(c) \/ Join(c) \/ AutoCommit(c)
        BY <1>0, <2>2, <3>2, <4>1
        DEF Idle, Start, Connect, Join, AutoCommit, Goto, kafkaVars, threadVars
      <4>2. CASE Poll(c) \/ NextRecord(c) \/ PredictXg(c) \/ Store(c)
        BY <1>0, <2>2, <3>2, <4>2
        DEF Idle, Poll, NextRecord, PredictXg, Store, kafkaVars, Offsets
      <4>3. CASE HandOver(c)
        BY <3>2, <4>3 DEF Idle, HandOver, BetweenBatches, threadVars
      <4>4. CASE Crash(c)
        BY <1>0, <3>2, <4>4 DEF Idle, Crash, Goto
      <4> QED
        BY <2>5, <3>1, <4>1, <4>2, <4>3, <4>4 DEF Step
    <3>3. CASE c # d
      BY <1>0, <2>2, <2>5, <3>1, <3>3
      DEF Idle, Step, Start, Connect, Poll, NextRecord, PredictXg, Store, Join,
          AutoCommit, HandOver, Crash, Goto, kafkaVars, threadVars
    <3> QED
      BY <3>2, <3>3
  <2> QED
    BY <2>3, <2>4, <2>5 DEF Next
<1>4. HandledPublished'
  <2>2. Len(topic) <= Len(topic') /\ Len(topic') \in Nat
    BY TopicGrows
  <2>3. ASSUME NEW c \in Predictors, Store(c) PROVE handled' \subseteq 1 .. Len(topic')
    <3>1. pos[c] \in 1 .. Len(topic)
      BY <1>0, <2>3 DEF Store, TypeInv, RecordInHand, Offsets
    <3>2. 1 .. Len(topic) \subseteq 1 .. Len(topic')
      BY <1>0, <2>2
    <3> QED
      BY <2>3, <3>1, <3>2 DEF Store, HandledPublished
  <2>4. CASE UNCHANGED handled
    BY <1>0, <2>2, <2>4 DEF HandledPublished
  <2> QED
    BY <2>3, <2>4, PartitionSteps
    DEF Join, AutoCommit, HandOver, SessionTimeout, Crash, historyVars, HandledPublished
<1> QED
  BY <1>1, <1>2, <1>3, <1>4

LEMMA InitOwner == Init => OwnerInv
<1>1. Init => FaultsLeft /\ OnlyTheOwner /\ HandledPublished
  BY BoundsAssumption DEF Init, FaultsLeft, OnlyTheOwner, Idle, HandledPublished
<1> QED
  BY <1>1, InitTypes DEF OwnerInv

(***************************************************************************)
(* How often a message is handled.  What was not handled yet lies ahead of *)
(* the partition, or in the batch of a replica that lost its session; only *)
(* a replica that ends or loses its session puts an offset that was        *)
(* handled back ahead, and only a lost session leaves one in two places.   *)
(***************************************************************************)

\* The replicas that will handle an offset although it is not theirs to read.
Stale(o) == {c \in Predictors \ {owner} : Behind(c) < o /\ o <= batchEnd[c]}

Ahead(o) == IF Horizon < o THEN 1 ELSE 0

\* How often an offset was handled, and still may be.
Handlings(o) == times[o] + Cardinality(Stale(o)) + Ahead(o)

HandleInv ==
    \A o \in 1 .. MaxTopic : IsFiniteSet(Stale(o)) /\ Handlings(o) <= 1 + Stops

LEMMA HandleStep == OwnerInv /\ HandleInv /\ [Next]_vars => HandleInv'
<1> SUFFICES ASSUME OwnerInv, HandleInv, [Next]_vars, NEW o \in 1 .. MaxTopic
             PROVE  IsFiniteSet(Stale(o)') /\ Handlings(o)' <= 1 + Stops'
  BY DEF HandleInv
<1> USE DEF OwnerInv
<1>0. /\ pc \in [Predictors -> {"down", "connect", "gaveUp", "iterate", "xg", "store"}]
      /\ pos \in [Predictors -> Offsets] /\ \A d \in Predictors : pos[d] \in Nat
      /\ batchEnd \in [Predictors -> Offsets] /\ \A d \in Predictors : batchEnd[d] \in Nat
      /\ \A d \in Predictors : pos[d] <= batchEnd[d]
      /\ Len(topic) \in Nat /\ NoOwner \notin Predictors
      /\ committed \in Nat \cup {-1} /\ owner \in Predictors \cup {NoOwner}
      /\ times \in [1 .. MaxTopic -> Nat] /\ times[o] \in Nat /\ o \in Nat \ {0}
      /\ "crash" \in FaultKinds /\ "timeout" \in FaultKinds
  BY ReplicasAssumption, BoundsAssumption, SMTT(30) DEF TypeInv, TypeOK, Offsets, FaultKinds
<1>1. /\ FaultsLeft' /\ TypeInv' /\ Stops \in Nat /\ Stops' \in Nat /\ Stops <= Stops'
  <2>1. FaultsLeft' /\ TypeInv'
    BY OwnerStep
  <2> QED
    BY <1>0, <2>1, SpentStep DEF Stops
<1>2. \A d \in Predictors : Behind(d) \in Int /\ Behind(d) <= batchEnd[d]
  BY <1>0 DEF Behind
<1>3. /\ IsFiniteSet(Stale(o)) /\ Cardinality(Stale(o)) \in Nat
      /\ times[o] + Cardinality(Stale(o)) + Ahead(o) <= 1 + Stops
  <2>1. IsFiniteSet(Stale(o)) /\ Handlings(o) <= 1 + Stops
    BY DEF HandleInv
  <2> QED
    BY <2>1, FS_CardinalityType DEF Handlings
<1>4. Ahead(o) \in 0 .. 1 /\ Ahead(o)' \in 0 .. 1
  BY DEF Ahead
\* What has to be shown of a step: no replica more, and nothing more ahead.
<1>5. ASSUME Stale(o)' \subseteq Stale(o), times'[o] = times[o],
             Ahead(o)' <= Ahead(o) \/ Stops' >= Stops + 1
      PROVE  IsFiniteSet(Stale(o)') /\ Handlings(o)' <= 1 + Stops'
  <2>1. IsFiniteSet(Stale(o)') /\ Cardinality(Stale(o)') <= Cardinality(Stale(o))
    BY <1>3, <1>5, FS_Subset
  <2>2. Cardinality(Stale(o)') \in Nat
    BY <2>1, FS_CardinalityType
  <2> HIDE DEF OwnerInv
  <2> QED
    BY <1>0, <1>1, <1>3, <1>4, <1>5, <2>1, <2>2 DEF Handlings
<1>6. CASE /\ UNCHANGED <<committed, owner, stored, handled, times>>
           /\ \A d \in Predictors : Behind(d)' = Behind(d)
           /\ \A d \in Predictors \ {owner} : batchEnd'[d] = batchEnd[d]
  <2>1. Len(topic') \in Nat /\ Len(topic) <= Len(topic')
    BY TopicGrows
  <2>2. Ahead(o)' <= Ahead(o)
    BY <1>0, <1>2, <1>6, <2>1 DEF Ahead, Horizon, StartOffset
  <2>3. Stale(o)' \subseteq Stale(o)
    BY <1>6 DEF Stale
  <2> QED
    BY <1>5, <1>6, <2>2, <2>3
<1>7. ASSUME NEW c \in Predictors, Store(c)
      PROVE  IsFiniteSet(Stale(o)') /\ Handlings(o)' <= 1 + Stops'
  <2>1. /\ Behind(c) = pos[c] - 1 /\ Behind(c)' = pos[c]
        /\ \A d \in Predictors \ {c} : Behind(d)' = Behind(d)
    BY <1>0, <1>7 DEF Behind, Store, Goto
  <2>2. /\ UNCHANGED <<topic, committed, owner, batchEnd>>
        /\ times' = [times EXCEPT ![pos[c]] = times[pos[c]] + 1]
    BY <1>7 DEF Store, kafkaVars
  <2>3. CASE o # pos[c]
    <3>1. times'[o] = times[o] /\ Stale(o)' \subseteq Stale(o)
      BY <1>0, <2>1, <2>2, <2>3 DEF Stale
    <3>2. Ahead(o)' <= Ahead(o)
      BY <1>0, <1>2, <2>1, <2>2, <2>3 DEF Ahead, Horizon, StartOffset
    <3> HIDE DEF OwnerInv
    <3> QED
      BY <1>5, <3>1, <3>2
  <2>4. CASE o = pos[c] /\ owner = c
    <3>1. times'[o] = times[o] + 1 /\ Stale(o)' = Stale(o)
      BY <1>0, <2>1, <2>2, <2>4 DEF Stale
    <3>2. Ahead(o) = 1 /\ Ahead(o)' = 0
      BY <1>0, <2>1, <2>2, <2>4 DEF Ahead, Horizon
    <3> HIDE DEF OwnerInv
    <3> QED
      BY <1>0, <1>1, <1>3, <3>1, <3>2 DEF Handlings
  <2>5. CASE o = pos[c] /\ owner # c
    <3>1. times'[o] = times[o] + 1 /\ Stale(o)' = Stale(o) \ {c} /\ c \in Stale(o)
      BY <1>0, <2>1, <2>2, <2>5 DEF Stale
    <3>2. /\ IsFiniteSet(Stale(o)') /\ Cardinality(Stale(o)') = Cardinality(Stale(o)) - 1
          /\ Cardinality(Stale(o)') \in Nat
      BY <1>3, <3>1, FS_RemoveElement, FS_CardinalityType
    <3>3. Ahead(o)' = Ahead(o)
      BY <1>0, <2>1, <2>2, <2>5 DEF Ahead, Horizon, StartOffset
    <3> HIDE DEF OwnerInv
    <3> QED
      BY <1>0, <1>1, <1>3, <1>4, <3>1, <3>2, <3>3, SMTT(30) DEF Handlings
  <2> QED
    BY <2>3, <2>4, <2>5
<1>8. ASSUME NEW c \in Predictors, Join(c)
      PROVE  IsFiniteSet(Stale(o)') /\ Handlings(o)' <= 1 + Stops'
  <2>1. /\ owner = NoOwner /\ owner' = c /\ times' = times
        /\ Behind(c)' = StartOffset /\ BetweenBatches(c)
        /\ \A d \in Predictors \ {c} : Behind(d)' = Behind(d) /\ batchEnd'[d] = batchEnd[d]
    BY <1>0, <1>8 DEF Join, BetweenBatches, Behind
  <2>2. Stale(o)' \subseteq Stale(o)
    BY <1>0, <2>1 DEF Stale
  <2>3. Ahead(o)' = Ahead(o)
    BY <1>0, <2>1 DEF Ahead, Horizon
  <2> QED
    BY <1>4, <1>5, <2>1, <2>2, <2>3
<1>9. ASSUME NEW c \in Predictors, AutoCommit(c) \/ HandOver(c)
      PROVE  IsFiniteSet(Stale(o)') /\ Handlings(o)' <= 1 + Stops'
  <2>1. /\ owner = c /\ BetweenBatches(c) /\ committed' = pos[c]
        /\ owner' \in {c, NoOwner} /\ UNCHANGED <<topic, pc, pos, batchEnd, times>>
    BY <1>9 DEF AutoCommit, HandOver, MayCommit, LastCommit, threadVars, historyVars
  <2>2. Behind(c) = pos[c] /\ \A d \in Predictors : Behind(d)' = Behind(d)
    BY <2>1 DEF Behind, BetweenBatches
  <2>3. Stale(o)' \subseteq Stale(o)
    BY <1>0, <2>1, <2>2 DEF Stale, BetweenBatches
  <2>4. Ahead(o)' = Ahead(o)
    BY <1>0, <2>1, <2>2 DEF Ahead, Horizon, StartOffset
  <2> QED
    BY <1>4, <1>5, <2>1, <2>3, <2>4
<1>10. ASSUME NEW c \in Predictors, SessionTimeout(c)
       PROVE  IsFiniteSet(Stale(o)') /\ Handlings(o)' <= 1 + Stops'
  <2>1. /\ owner = c /\ owner' = NoOwner /\ UNCHANGED <<pc, pos, batchEnd, times>>
        /\ \A d \in Predictors : Behind(d)' = Behind(d)
    BY <1>10 DEF SessionTimeout, threadVars, historyVars, Behind
  <2>2. Stops' = Stops + 1
    <3>1. Spent("timeout")' = Spent("timeout") + 1 /\ Spent("crash")' = Spent("crash")
      BY <1>10, SpendCounts DEF SessionTimeout, FaultKinds
    <3> QED
      BY <1>0, <3>1, SpentIsNat DEF Stops
  <2>3. CASE Behind(c) < o /\ o <= batchEnd[c]
    <3>1. Stale(o)' = Stale(o) \cup {c} /\ c \notin Stale(o)
      BY <1>0, <2>1, <2>3 DEF Stale
    <3>2. /\ IsFiniteSet(Stale(o)') /\ Cardinality(Stale(o)') = Cardinality(Stale(o)) + 1
          /\ Cardinality(Stale(o)') \in Nat
      BY <1>3, <3>1, FS_AddElement, FS_CardinalityType
    <3>3. Ahead(o) = 1
      BY <1>0, <1>2, <2>1, <2>3 DEF Ahead, Horizon
    <3> HIDE DEF OwnerInv
    <3> QED
      BY <1>0, <1>1, <1>3, <1>4, <2>1, <2>2, <3>2, <3>3 DEF Handlings
  <2>4. CASE ~(Behind(c) < o /\ o <= batchEnd[c])
    <3>1. Stale(o)' \subseteq Stale(o)
      BY <1>0, <2>1, <2>4 DEF Stale
    <3> QED
      BY <1>1, <1>5, <2>1, <2>2, <3>1
  <2> QED
    BY <2>3, <2>4
<1>11. ASSUME NEW c \in Predictors, Crash(c)
       PROVE  IsFiniteSet(Stale(o)') /\ Handlings(o)' <= 1 + Stops'
  <2>1. /\ batchEnd'[c] = 0 /\ times' = times
        /\ owner' = IF owner = c THEN NoOwner ELSE owner
        /\ \A d \in Predictors \ {c} : Behind(d)' = Behind(d) /\ batchEnd'[d] = batchEnd[d]
    BY <1>0, <1>11 DEF Crash, Goto, Behind, historyVars
  <2>2. Stale(o)' \subseteq Stale(o)
    BY <1>0, <2>1 DEF Stale
  <2>3. Stops' = Stops + 1
    <3>1. Spent("crash")' = Spent("crash") + 1 /\ Spent("timeout")' = Spent("timeout")
      BY <1>11, SpendCounts DEF Crash, FaultKinds
    <3> QED
      BY <1>0, <3>1, SpentIsNat DEF Stops
  <2> QED
    BY <1>1, <1>5, <2>1, <2>2, <2>3
<1> QED
  BY <1>6, <1>7, <1>8, <1>9, <1>10, <1>11, PartitionSteps

\* A message is handled once, and its shot added to the totals once, except for
\* one more time for each replica that ended or lost its session: commits are
\* late, but by no more than that, and a partition that moves because replicas
\* join repeats nothing.
THEOREM RepeatsAreBounded == Spec => []RepeatsBounded
<1>1. Init => HandleInv
  <2> SUFFICES ASSUME Init, NEW o \in 1 .. MaxTopic
               PROVE  IsFiniteSet(Stale(o)) /\ Handlings(o) <= 1 + Stops
    BY DEF HandleInv
  <2>1. Stale(o) = {} /\ times[o] = 0 /\ Ahead(o) \in 0 .. 1
    BY DEF Init, Stale, Behind, Ahead
  <2>2. Stops = 0
    BY BoundsAssumption DEF Init, Stops, Spent, FaultKinds
  <2>3. IsFiniteSet(Stale(o)) /\ Cardinality(Stale(o)) = 0
    BY <2>1, FS_EmptySet
  <2> QED
    BY <2>1, <2>2, <2>3 DEF Handlings
<1>2. OwnerInv /\ HandleInv => RepeatsBounded
  <2> SUFFICES ASSUME OwnerInv, HandleInv, NEW o \in 1 .. MaxTopic
               PROVE  times[o] <= 1 + Stops
    BY DEF RepeatsBounded
  <2>1. times[o] \in Nat /\ Ahead(o) \in 0 .. 1 /\ Stops \in Nat
    BY SpentIsNat, SMTT(30) DEF OwnerInv, TypeInv, TypeOK, Ahead, Stops, FaultKinds
  <2>2. Cardinality(Stale(o)) \in Nat /\ Handlings(o) <= 1 + Stops
    BY FS_CardinalityType DEF HandleInv
  <2> QED
    BY <2>1, <2>2 DEF Handlings
<1> QED
  BY InitOwner, OwnerStep, HandleStep, <1>1, <1>2, PTL DEF Spec

(***************************************************************************)
(* What a reader gets once everything is handled.  After a crash the next  *)
(* owner starts over at the committed offset and stores older predictions  *)
(* again, so that the stored one is the newest only among the offsets the  *)
(* partition has behind it.                                                *)
(***************************************************************************)

Undisturbed == Spent("redis") + Spent("timeout") = 0

\* Without a committed offset every owner starts at the end of the topic, past
\* all that was ever handled; with one, the owner is past it.
OwnerIsAhead ==
    owner \in Predictors =>
        /\ committed <= Behind(owner)
        /\ committed = -1 => \A o \in handled : o <= Behind(owner)

NewestBehind ==
    \A o \in handled : o <= Horizon => o <= stored[topic[o].match].offset

\* A stored prediction was made from a message of its match.
StoredWasHandled ==
    \A m \in Matches : LET o == stored[m].offset
                       IN  o # 0 => o \in handled /\ topic[o].match = m

NewestInv == Undisturbed => OwnerIsAhead /\ NewestBehind /\ StoredWasHandled

LEMMA NewestStep == OwnerInv /\ NewestInv /\ [Next]_vars => NewestInv'
<1> SUFFICES ASSUME OwnerInv, NewestInv, [Next]_vars, Undisturbed'
             PROVE  OwnerIsAhead' /\ NewestBehind' /\ StoredWasHandled'
  BY DEF NewestInv
<1> USE DEF OwnerInv
<1>0. /\ pc \in [Predictors -> {"down", "connect", "gaveUp", "iterate", "xg", "store"}]
      /\ pos \in [Predictors -> Offsets] /\ \A d \in Predictors : pos[d] \in Nat
      /\ Len(topic) \in Nat /\ topic \in Seq(Message) /\ NoOwner \notin Predictors
      /\ committed \in Nat \cup {-1} /\ owner \in Predictors \cup {NoOwner}
      /\ handled \subseteq 1 .. Len(topic) /\ "redis" \in FaultKinds
      /\ "timeout" \in FaultKinds
      /\ \A m \in Matches : stored[m].offset \in Nat
  BY ReplicasAssumption DEF TypeInv, TypeOK, HandledPublished, Offsets, FaultKinds
<1>1. FaultsLeft' /\ TypeInv'
  BY OwnerStep
<1>2. Spent("redis")' = 0 /\ Spent("timeout")' = 0
  <2>1. Spent("redis")' \in Nat /\ Spent("timeout")' \in Nat
    BY <1>0, <1>1, SpentStep
  <2> QED
    BY <2>1 DEF Undisturbed
<1>3. Spent("redis") = 0 /\ Spent("timeout") = 0
  BY <1>0, <1>1, <1>2, SpentStep
<1>4. OwnerIsAhead /\ NewestBehind /\ StoredWasHandled
  BY <1>3 DEF NewestInv, Undisturbed
<1>5. \A o \in handled : topic[o].match \in Matches
  <2>1. \A o \in handled : topic[o] \in Message
    BY <1>0
  <2> QED
    BY <2>1 DEF Message
<1>6. \/ topic' = topic
      \/ /\ topic' \in Seq(Message) /\ Len(topic') = Len(topic) + 1
         /\ \A o \in 1 .. Len(topic) : topic'[o] = topic[o]
  <2>1. ASSUME NEW msg \in Messages, Publish(msg)
        PROVE  /\ topic' \in Seq(Message) /\ Len(topic') = Len(topic) + 1
               /\ \A o \in 1 .. Len(topic) : topic'[o] = topic[o]
    <3>1. msg \in Message /\ topic' = Append(topic, msg)
      BY <2>1, MessagesAssumption DEF Publish
    <3> QED
      BY <1>0, <3>1
  <2> QED
    BY <2>1
    DEF Next, Step, vars, Start, Connect, Poll, NextRecord, PredictXg, Store,
        Join, AutoCommit, HandOver, SessionTimeout, Crash, kafkaVars
<1>7. /\ \A o \in 1 .. Len(topic) : topic'[o] = topic[o]
      /\ Len(topic) <= Len(topic') /\ Len(topic') \in Nat
  BY <1>0, <1>6
<1>8. \A d \in Predictors : Behind(d) \in Int
  BY <1>0 DEF Behind
<1>9. \A o \in handled : owner \notin Predictors /\ committed = -1 => o <= Horizon
  BY <1>0 DEF Horizon, StartOffset
<1>10. CASE /\ UNCHANGED <<committed, owner, stored, handled, times>>
            /\ \A d \in Predictors : Behind(d)' = Behind(d)
  <2>1. OwnerIsAhead'
    BY <1>4, <1>10 DEF OwnerIsAhead
  <2>2. \A o \in handled : o <= Horizon' => o <= Horizon
    BY <1>0, <1>9, <1>10 DEF Horizon, StartOffset
  <2>3. NewestBehind'
    BY <1>0, <1>4, <1>7, <1>10, <2>2 DEF NewestBehind
  <2>4. StoredWasHandled'
    BY <1>0, <1>4, <1>7, <1>10 DEF StoredWasHandled
  <2> QED
    BY <2>1, <2>3, <2>4
<1>11. ASSUME NEW c \in Predictors, Store(c)
       PROVE  OwnerIsAhead' /\ NewestBehind' /\ StoredWasHandled'
  <2> DEFINE match == topic[pos[c]].match
  <2>1. owner = c /\ owner' = c
    BY <1>3, <1>11 DEF OnlyTheOwner, Idle, Store, kafkaVars
  <2>2. Behind(c) = pos[c] - 1 /\ Behind(c)' = pos[c]
    BY <1>0, <1>11 DEF Behind, Store, Goto
  <2>3. stored' = [stored EXCEPT ![match] = [offset |-> pos[c], xg |-> totals[c]]]
    <3>1. ~Spend("redis")
      BY <1>0, <1>2, SpendCounts
    <3>2. stored' = Prediction(c)
      BY <1>11, <3>1 DEF Store
    <3> QED
      BY <3>2 DEF Prediction, Msg
  <2>4. pos[c] \in 1 .. Len(topic) /\ match \in Matches
    <3>1. pos[c] \in 1 .. Len(topic)
      BY <1>0, <1>11 DEF Store, TypeInv, RecordInHand, Offsets
    <3>2. topic[pos[c]] \in Message
      BY <1>0, <3>1
    <3> QED
      BY <3>1, <3>2 DEF Message
  <2>5. handled' = handled \cup {pos[c]} /\ topic' = topic /\ committed' = committed
    BY <1>11 DEF Store, kafkaVars
  <2>6. Horizon = pos[c] - 1 /\ Horizon' = pos[c]
    BY <2>1, <2>2 DEF Horizon
  <2>7. /\ \A m \in Matches \ {match} : stored'[m] = stored[m]
        /\ stored'[match].offset = pos[c]
    BY <2>3, <2>4 DEF TypeInv, TypeOK
  <2>8. OwnerIsAhead'
    BY <1>0, <1>4, <2>1, <2>2, <2>5 DEF OwnerIsAhead
  <2>9. NewestBehind'
    <3> SUFFICES ASSUME NEW o \in handled', o <= pos[c]
                 PROVE  o <= stored'[topic[o].match].offset
      BY <2>5, <2>6 DEF NewestBehind
    <3>1. CASE topic[o].match = match
      BY <2>7, <3>1
    <3>2. CASE topic[o].match # match
      <4>1. o # pos[c] /\ o \in handled
        BY <2>5, <3>2
      <4>2. o <= Horizon
        BY <1>0, <2>6, <4>1
      <4>3. o <= stored[topic[o].match].offset
        BY <1>4, <4>1, <4>2 DEF NewestBehind
      <4> QED
        BY <1>5, <2>7, <3>2, <4>1, <4>3
    <3> QED
      BY <3>1, <3>2
  <2>10. StoredWasHandled'
    BY <1>4, <2>4, <2>5, <2>7 DEF StoredWasHandled
  <2> QED
    BY <2>8, <2>9, <2>10
<1>12. ASSUME NEW c \in Predictors, Join(c)
       PROVE  OwnerIsAhead' /\ NewestBehind' /\ StoredWasHandled'
  <2>1. /\ owner = NoOwner /\ owner' = c
        /\ UNCHANGED <<topic, committed, stored, handled>>
    BY <1>12 DEF Join
  <2>2. Behind(c)' = StartOffset
    BY <1>0, <1>12 DEF Join, BetweenBatches, Behind
  <2>3. Horizon' = Horizon
    BY <1>0, <2>1, <2>2 DEF Horizon
  <2>4. OwnerIsAhead'
    BY <1>0, <2>1, <2>2 DEF OwnerIsAhead, StartOffset
  <2> QED
    BY <1>4, <2>1, <2>3, <2>4 DEF NewestBehind, StoredWasHandled
<1>13. ASSUME NEW c \in Predictors, AutoCommit(c) \/ HandOver(c)
       PROVE  OwnerIsAhead' /\ NewestBehind' /\ StoredWasHandled'
  <2>1. /\ owner = c /\ pc[c] = "iterate" /\ committed' = pos[c]
        /\ owner' \in {c, NoOwner} /\ UNCHANGED <<topic, pc, pos, stored, handled>>
    BY <1>13 DEF AutoCommit, HandOver, MayCommit, LastCommit, BetweenBatches, threadVars,
                 historyVars
  <2>2. Behind(c) = pos[c] /\ Behind(c)' = pos[c] /\ pos[c] # -1
    BY <1>0, <2>1 DEF Behind
  <2>3. Horizon' = Horizon
    BY <1>0, <2>1, <2>2 DEF Horizon, StartOffset
  <2>4. OwnerIsAhead'
    BY <1>0, <2>1, <2>2 DEF OwnerIsAhead
  <2> QED
    BY <1>4, <2>1, <2>3, <2>4 DEF NewestBehind, StoredWasHandled
<1>14. ASSUME NEW c \in Predictors, Crash(c)
       PROVE  OwnerIsAhead' /\ NewestBehind' /\ StoredWasHandled'
  <2>1. /\ UNCHANGED <<topic, committed, stored, handled>>
        /\ owner' = IF owner = c THEN NoOwner ELSE owner
    BY <1>14 DEF Crash, historyVars
  <2>2. \A d \in Predictors \ {c} : Behind(d)' = Behind(d)
    BY <1>0, <1>14 DEF Crash, Goto, Behind
  <2>3. CASE owner # c
    BY <1>0, <1>4, <2>1, <2>2, <2>3
    DEF OwnerIsAhead, NewestBehind, StoredWasHandled, Horizon, StartOffset
  <2>4. CASE owner = c
    <3>1. \A o \in handled : o <= Horizon' => o <= Horizon
      BY <1>0, <1>4, <1>8, <2>1, <2>4 DEF OwnerIsAhead, Horizon, StartOffset
    <3> QED
      BY <1>0, <1>4, <2>1, <2>4, <3>1 DEF OwnerIsAhead, NewestBehind, StoredWasHandled
  <2> QED
    BY <2>3, <2>4
<1>15. ASSUME NEW c \in Predictors PROVE ~SessionTimeout(c)
  BY <1>0, <1>2, SpendCounts DEF SessionTimeout
<1> QED
  BY <1>10, <1>11, <1>12, <1>13, <1>14, <1>15, PartitionSteps

\* Once an owner has everything behind it, the stored prediction of each match
\* is the one made from the last message handled of it, whatever crashes and
\* rebalances came before: unless a Redis call failed or a session was lost.
THEOREM StoredIsNewest == Spec => []SettledIsNewest
<1>1. Init => NewestInv
  BY ReplicasAssumption
  DEF Init, NewestInv, OwnerIsAhead, NewestBehind, StoredWasHandled, NoPrediction
<1>2. OwnerInv /\ NewestInv => SettledIsNewest
  <2> SUFFICES ASSUME OwnerInv, NewestInv, Settled,
                      Spent("redis") + Spent("timeout") = 0, NEW m \in Matches
               PROVE  LET seen == {o \in handled : topic[o].match = m}
                      IN  seen # {} => stored[m].offset = Max(seen)
    BY DEF SettledIsNewest
  <2> DEFINE seen == {o \in handled : topic[o].match = m}
             last == stored[m].offset
  <2>1. OwnerIsAhead /\ NewestBehind /\ StoredWasHandled
    BY DEF NewestInv, Undisturbed
  <2>2. handled \subseteq 1 .. Len(topic) /\ Len(topic) \in Nat /\ last \in Nat
    BY DEF OwnerInv, HandledPublished, TypeInv, TypeOK, Offsets
  <2>3. Horizon = Len(topic)
    BY DEF Settled, BetweenBatches, Horizon, Behind, OwnerInv, TypeInv, RecordInHand
  <2>4. \A o \in seen : o <= last /\ o \in 1 .. Len(topic)
    BY <2>1, <2>2, <2>3 DEF NewestBehind
  <2>5. seen # {} => last \in seen
    <3> SUFFICES ASSUME NEW o \in seen PROVE last \in seen
      OBVIOUS
    <3>1. last # 0
      BY <2>2, <2>4
    <3> QED
      BY <2>1, <3>1 DEF StoredWasHandled
  <2>6. ASSUME NEW o \in seen, \A k \in seen : o >= k PROVE o = last
    BY <2>2, <2>4, <2>5, <2>6
  <2>7. seen # {} => last \in seen /\ \A k \in seen : last >= k
    BY <2>2, <2>4, <2>5
  <2> HIDE DEF seen, last
  <2>8. seen # {} => last = Max(seen)
    BY <2>6, <2>7, Zenon DEF Max
  <2> QED
    BY <2>8 DEF seen, last
<1> QED
  BY InitOwner, OwnerStep, NewestStep, <1>1, <1>2, PTL DEF Spec
=============================================================================
