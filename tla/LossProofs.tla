----------------------------- MODULE LossProofs -----------------------------
(***************************************************************************)
(* What a crash can lose, and nothing else can: for a single replica whose *)
(* restore does not fail, whatever the number of crashes, failed writes,   *)
(* expiries, duplicates and rebalances.                                    *)
(*                                                                         *)
(* The argument has two parts.  Memory covers Redis (MemInv): so a         *)
(* snapshot is never overwritten by one that lacks an event.  Then an      *)
(* event once kept stays kept, and it suffices that the offsets and the    *)
(* dedupe keys follow what is kept (LossInv).  Where nothing dies, nothing *)
(* is given up: what the documentation says without exemption holds.       *)
(***************************************************************************)
EXTENDS CommitProofs, FeedProofs

\* One replica at most, whose restore does not fail.
Restoring ==
    /\ \A c, d \in Consumers : c = d
    /\ MaxFaults["restore"] = 0

\* All that Redis holds of the match died with a replica.
AllDead(m) == \A i \in DOMAIN stats[m] : stats[m][i].id \in abandoned

\* What Redis holds of a match will not be lost when the replica writes its
\* own: it holds the same events, unless they are given up already.
Covers(c, m) ==
    /\ IsPrefix(stats[m], mem[c][m]) \/ AllDead(m)
    /\ \A id \in EventIds :
          Holds(stats[m], id) => Holds(mem[c][m], id) \/ id \in abandoned

\* A replica that runs has restored every match; one that does not will, as
\* far as the match is listed.
MemInv ==
    \A c \in Consumers :
        /\ pc[c] = "down" =>
             /\ mem[c] = Empty
             /\ \A m \in Matches \ active : Covers(c, m)
        /\ pc[c] = "load" =>
             /\ toLoad[c] \subseteq active
             /\ \A m \in Matches : IF m \in toLoad[c] THEN mem[c][m] = <<>>
                                                      ELSE Covers(c, m)
        /\ Running(c) => \A m \in Matches : Covers(c, m)

\* The event is in an aggregate of the match, or given up.
Kept(id, m) ==
    \/ Holds(stats[m], id)
    \/ \E c \in Consumers : Holds(mem[c][m], id)
    \/ id \in abandoned

\* An id belongs to one event.
UniqueIds ==
    \A a, b \in Messages \ {Malformed} : a.id = b.id /\ a.id # NoId => a = b

\* A claimed event is kept or about to be; a processed one is kept.
ClaimsKept ==
    /\ \A ev \in Messages \ {Malformed} :
          ev.id # NoId /\ dedupe[ev.id] # "none" =>
              Kept(ev.id, ev.match) \/ \E c \in Consumers : Applies(c, ev.id)
    /\ \A id \in EventIds :
          dedupe[id] = "processed" => \E m \in Matches : Kept(id, m)

KeptAt(o) ==
    topic[o] # Malformed /\ topic[o].id # NoId => Kept(topic[o].id, topic[o].match)

KeptTo(n) == \A o \in 1 .. n : KeptAt(o)

\* Nothing before the message in hand is missing, nor the message itself once
\* it is applied or skipped.
KeptBehind(c) ==
    /\ KeptTo(commitReq[c])
    /\ pc[c] \in InHand =>
         /\ KeptTo(cur[c] - 1)
         /\ pc[c] \notin {"reserve", "apply", "dlq"} => KeptAt(cur[c])
    /\ KeptTo(pos[c]) \/ (pc[c] \in InHand /\ pos[c] = cur[c])

Produced == \A i \in 1 .. Len(topic) : topic[i] \in Messages

LossInv ==
    /\ Produced
    /\ ClaimsKept
    /\ KeptTo(committed)
    /\ \A c \in Consumers : KeptBehind(c)

LossFacts == TypedHand /\ faults["restore"] = 0 /\ MemInv /\ LossInv

-----------------------------------------------------------------------------
(* Memory covers Redis *)

\* A new match has an empty history.
LEMMA EmptyIsPrefix == ASSUME NEW S, NEW t \in Seq(S) PROVE IsPrefix(<<>>, t)
<1>1. <<>> \in Seq(S) /\ Len(<<>>) = 0 /\ Len(t) \in Nat /\ 1 .. 0 = {}
  OBVIOUS
<1>2. Len(<<>>) <= Len(t) /\ \A i \in 1 .. Len(<<>>) : <<>>[i] = t[i]
  BY <1>1
<1> QED
  BY <1>1, <1>2, PrefixItems

LEMMA CoversStays ==
    ASSUME NEW c \in Consumers, NEW m \in Matches, Covers(c, m),
           stats'[m] = stats[m], mem'[c][m] = mem[c][m], abandoned \subseteq abandoned'
    PROVE  Covers(c, m)'
  BY DEF Covers, AllDead

\* Covering compares two histories.
LEMMA CoversItems ==
    ASSUME TypedHand, NEW c \in Consumers, NEW m \in Matches
    PROVE  IsPrefix(stats[m], mem[c][m]) <=>
              /\ Len(stats[m]) <= Len(mem[c][m])
              /\ \A i \in 1 .. Len(stats[m]) : stats[m][i] = mem[c][m][i]
<1> DEFINE s == stats[m]
           t == mem[c][m]
<1>1. s \in Seq(Event) /\ t \in Seq(Event)
  BY DEF TypedHand, TypeOK, RedisOK, ReplicaOK
<1> HIDE DEF s, t
<1>2. IsPrefix(s, t) <=> Len(s) <= Len(t) /\ \A i \in 1 .. Len(s) : s[i] = t[i]
  BY <1>1, PrefixItems
<1> QED
  BY <1>2 DEF s, t

\* A step that writes neither the snapshots nor a memory.
LEMMA QuietMem ==
    ASSUME TypedHand, MemInv, UNCHANGED <<stats, mem, toLoad>>,
           active \subseteq active', abandoned \subseteq abandoned',
           \A c \in Consumers : pc'[c] = pc[c] \/ (Running(c) /\ Running(c)')
    PROVE  MemInv'
<1> SUFFICES ASSUME NEW c \in Consumers
             PROVE  /\ pc'[c] = "down" =>
                         /\ mem'[c] = Empty'
                         /\ \A m \in Matches \ active' : Covers(c, m)'
                    /\ pc'[c] = "load" =>
                         /\ toLoad'[c] \subseteq active'
                         /\ \A m \in Matches : IF m \in toLoad'[c]
                                               THEN mem'[c][m] = <<>>
                                               ELSE Covers(c, m)'
                    /\ Running(c)' => \A m \in Matches : Covers(c, m)'
  BY DEF MemInv
<1>1. \A m \in Matches : Covers(c, m) => Covers(c, m)'
  BY CoversStays
<1>2. CASE pc'[c] = pc[c]
  <2>1. Running(c)' <=> Running(c)
    BY <1>2 DEF Running
  <2> QED
    BY <1>1, <1>2, <2>1 DEF MemInv, Empty
<1>3. CASE Running(c) /\ Running(c)'
  BY <1>1, <1>3 DEF MemInv, Running
<1> QED
  BY <1>2, <1>3

LEMMA QuietMemSteps ==
    ASSUME TypedHand, MemInv,
           \/ \E msg \in Messages : Produce(msg)
           \/ \E id \in EventIds : Expire(id)
           \/ \E c \in Consumers :
                \/ FetchMessage(c) \/ Reserve(c) \/ Inspect(c) \/ Mark(c)
                \/ SetLatest(c) \/ AddActiveMatch(c) \/ Publish(c)
                \/ RouteToDLQ(c) \/ CommitMessages(c)
                \/ Join(c) \/ Rebalance(c) \/ FlushCommit(c)
           \/ UNCHANGED vars
    PROVE  MemInv'
<1>1. /\ UNCHANGED <<stats, mem, toLoad>> /\ active \subseteq active'
      /\ abandoned \subseteq abandoned'
  BY ZenonT(60) DEF Produce, Expire, FetchMessage, FetchWith, Reserve, Inspect, Mark,
     SetLatest, AddActiveMatch, RedisWrite, Publish, RouteToDLQ, CommitMessages,
     Join, Rebalance, NewGeneration, FlushCommit, vars, redisVars, historyVars
<1>2. \A c \in Consumers : pc'[c] = pc[c] \/ (Running(c) /\ Running(c)')
  <2>1. CASE UNCHANGED pc
    BY <2>1
  <2>2. ASSUME NEW c \in Consumers,
               \/ FetchMessage(c) \/ Reserve(c) \/ Inspect(c) \/ Mark(c)
               \/ SetLatest(c) \/ AddActiveMatch(c) \/ Publish(c)
               \/ RouteToDLQ(c) \/ CommitMessages(c)
        PROVE  /\ \A d \in Consumers : d # c => pc'[d] = pc[d]
               /\ pc[c] \in InHand \cup {"fetch"} /\ pc'[c] \in InHand \cup {"fetch"}
    <3>1. pc \in [Consumers -> Labels]
      BY DEF TypedHand, TypeOK, ReplicaOK
    <3> QED
      BY <2>2, <3>1 DEF FetchMessage, FetchWith, Reserve, Inspect, Mark, SetLatest,
         AddActiveMatch, Publish, RouteToDLQ, CommitMessages, Goto, FailOpen,
         Dispatch, OnReservation, OnReserveError, PersistOrder, InHand
  <2>3. \A label \in InHand \cup {"fetch"} : label \notin {"down", "load"}
    BY DEF InHand
  <2>4. UNCHANGED pc \/ \E c \in Consumers :
             \/ FetchMessage(c) \/ Reserve(c) \/ Inspect(c) \/ Mark(c)
             \/ SetLatest(c) \/ AddActiveMatch(c) \/ Publish(c)
             \/ RouteToDLQ(c) \/ CommitMessages(c)
    BY DEF Produce, Expire, Join, Rebalance, NewGeneration, FlushCommit, vars
  <2> QED
    BY <2>1, <2>2, <2>3, <2>4 DEF Running
<1> QED
  BY <1>1, <1>2, QuietMem

\* Start-up: the listed matches are to be restored, one after the other.
LEMMA StartMem ==
    ASSUME TypedHand, MemInv, faults["restore"] = 0, \A d, e \in Consumers : d = e,
           NEW c \in Consumers, Start(c) \/ LoadMatch(c) \/ StartReading(c)
    PROVE  MemInv'
<1>0. pc \in [Consumers -> Labels] /\ mem \in [Consumers -> [Matches -> Seq(Event)]]
      /\ toLoad \in [Consumers -> SUBSET Matches] /\ stats \in [Matches -> Seq(Event)]
      /\ active \subseteq Matches
  BY DEF TypedHand, TypeOK, ReplicaOK, RedisOK
<1>1. CASE Start(c)
  <2>1. /\ pc[c] = "down" /\ pc' = [pc EXCEPT ![c] = "load"]
        /\ toLoad' = [toLoad EXCEPT ![c] = active]
        /\ UNCHANGED <<stats, active, mem, abandoned>>
    BY <1>1 DEF Start, Goto, Spend, redisVars, historyVars
  <2>2. mem[c] = Empty /\ \A m \in Matches \ active : Covers(c, m)
    BY <2>1 DEF MemInv
  <2>3. \A m \in Matches \ active : Covers(c, m)'
    BY <2>1, <2>2, CoversStays
  <2>4. pc'[c] = "load" /\ toLoad'[c] = active /\ \A m \in Matches : mem'[c][m] = <<>>
    BY <1>0, <2>1, <2>2 DEF Empty
  <2> QED
    BY <2>1, <2>3, <2>4 DEF MemInv, Running
<1>2. CASE LoadMatch(c)
  <2>1. PICK n \in toLoad[c] : /\ toLoad' = [toLoad EXCEPT ![c] = @ \ {n}]
                               /\ mem' = [mem EXCEPT ![c][n] = stats[n]]
    <3>1. ~Spend("restore")
      BY DEF Spend
    <3> QED
      BY <1>2, <3>1 DEF LoadMatch, Restored
  <2>2. pc[c] = "load" /\ UNCHANGED <<pc, stats, active, abandoned>> /\ n \in Matches
    BY <1>0, <1>2, <2>1 DEF LoadMatch, redisVars, historyVars
  <2>3. toLoad[c] \subseteq active /\ \A m \in Matches :
            IF m \in toLoad[c] THEN mem[c][m] = <<>> ELSE Covers(c, m)
    BY <2>2 DEF MemInv
  <2>4. mem'[c][n] = stats'[n] /\ \A m \in Matches : m # n => mem'[c][m] = mem[c][m]
    BY <1>0, <2>1, <2>2
  <2>5. Covers(c, n)'
    <3>1. IsPrefix(stats'[n], mem'[c][n])
      BY <1>0, <2>2, <2>4, PrefixItems
    <3> QED
      BY <2>4, <3>1 DEF Covers
  <2>6. \A m \in Matches : m \notin toLoad[c] => Covers(c, m)'
    BY <2>2, <2>3, <2>4, <2>5, CoversStays
  <2>7. toLoad'[c] = toLoad[c] \ {n}
    BY <1>0, <2>1
  <2> QED
    BY <2>2, <2>3, <2>4, <2>5, <2>6, <2>7 DEF MemInv, Running
<1>3. CASE StartReading(c)
  <2>1. /\ pc[c] = "load" /\ toLoad[c] = {} /\ pc'[c] = "fetch"
        /\ UNCHANGED <<stats, active, mem, abandoned>>
    BY <1>0, <1>3 DEF StartReading, Goto, redisVars, historyVars
  <2>2. \A m \in Matches : Covers(c, m)'
    BY <2>1, CoversStays DEF MemInv
  <2> QED
    BY <2>1, <2>2 DEF MemInv, Running
<1> QED
  BY <1>1, <1>2, <1>3

\* The event goes into the memory first, and then the memory into Redis.
LEMMA WriteMem ==
    ASSUME TypedHand, MemInv, \A d, e \in Consumers : d = e,
           NEW c \in Consumers, Apply(c) \/ SetStats(c)
    PROVE  MemInv'
<1>n. Msg(c).match \in Matches
  BY InHandTyped DEF Apply, SetStats, Event
<1> PICK n \in Matches : n = Msg(c).match
  BY <1>n
<1>0. /\ pc \in [Consumers -> Labels] /\ mem \in [Consumers -> [Matches -> Seq(Event)]]
      /\ stats \in [Matches -> Seq(Event)]
      /\ Msg(c) \in Event
  BY InHandTyped DEF TypedHand, TypeOK, ReplicaOK, RedisOK, Apply, SetStats, Event
<1>1. pc[c] \in {"apply", "setStats"} /\ pc'[c] \in InHand \ {"apply"}
  BY <1>0 DEF Apply, SetStats, Goto, PersistOrder, InHand
<1>2. Running(c) /\ Running(c)' /\ pc'[c] \notin {"down", "load"}
  BY <1>1 DEF Running, InHand
<1>3. \A m \in Matches : Covers(c, m)
  BY <1>2 DEF MemInv
<1>4. CASE Apply(c)
  <2>1. /\ mem' = [mem EXCEPT ![c][n] = Append(@, Msg(c))]
        /\ UNCHANGED <<stats, active, abandoned>>
    BY <1>4 DEF Apply, redisVars, historyVars
  <2>2. mem'[c][n] = Append(mem[c][n], Msg(c))
        /\ \A m \in Matches : m # n => mem'[c][m] = mem[c][m]
    BY <1>0, <2>1
  <2>3. Covers(c, n)'
    <3>1. /\ mem'[c][n] \in Seq(Event) /\ Len(mem'[c][n]) = Len(mem[c][n]) + 1
          /\ \A i \in 1 .. Len(mem[c][n]) : mem'[c][n][i] = mem[c][n][i]
          /\ Len(mem[c][n]) \in Nat /\ Len(stats[n]) \in Nat
      BY <1>0, <2>2
    <3>2. \A id : Holds(mem[c][n], id) => Holds(mem'[c][n], id)
      <4>1. DOMAIN mem[c][n] = 1 .. Len(mem[c][n])
            /\ DOMAIN mem'[c][n] = 1 .. Len(mem'[c][n])
        BY <1>0, <3>1
      <4> QED
        BY <3>1, <4>1, SMTT(30) DEF Holds
    <3>3. ASSUME IsPrefix(stats[n], mem[c][n]) PROVE IsPrefix(stats[n], mem'[c][n])
      <4>1. /\ Len(stats[n]) <= Len(mem[c][n])
            /\ \A i \in 1 .. Len(stats[n]) : stats[n][i] = mem[c][n][i]
        BY <1>0, <3>3, CoversItems
      <4>2. Len(stats[n]) <= Len(mem'[c][n])
            /\ \A i \in 1 .. Len(stats[n]) : stats[n][i] = mem'[c][n][i]
        BY <3>1, <4>1
      <4> QED
        BY <1>0, <3>1, <4>2, PrefixItems
    <3> QED
      BY <1>0, <1>3, <2>1, <3>2, <3>3 DEF Covers, AllDead
  <2>4. \A m \in Matches : Covers(c, m)'
    BY <1>3, <2>1, <2>2, <2>3, CoversStays
  <2> QED
    BY <1>2, <2>4 DEF MemInv
<1>5. CASE SetStats(c)
  <2>1. UNCHANGED <<mem, active, abandoned>>
        /\ (stats' = stats \/ stats' = [stats EXCEPT ![n] = mem[c][n]])
    BY <1>5 DEF SetStats, RedisWrite, Snapshot, historyVars
  <2>2. CASE stats' = stats
    BY <1>2, <1>3, <2>1, <2>2, CoversStays DEF MemInv
  <2>3. CASE stats' = [stats EXCEPT ![n] = mem[c][n]]
    <3>1. stats'[n] = mem'[c][n] /\ \A m \in Matches : m # n => stats'[m] = stats[m]
      BY <1>0, <2>1, <2>3
    <3>2. IsPrefix(stats'[n], mem'[c][n])
      <4>1. mem[c][n] \in Seq(Event) /\ stats'[n] = mem[c][n] /\ mem' = mem
        BY <1>0, <2>1, <3>1
      <4> QED
        BY <4>1, PrefixItems
    <3>3. Covers(c, n)'
      BY <3>1, <3>2 DEF Covers
    <3>4. \A m \in Matches : Covers(c, m)'
      BY <1>3, <2>1, <3>1, <3>3, CoversStays
    <3> QED
      BY <1>2, <3>4 DEF MemInv
  <2> QED
    BY <2>1, <2>2, <2>3
<1> QED
  BY <1>4, <1>5

\* What dies with the replica and is not restored is given up.
LEMMA CrashMem ==
    ASSUME TypedHand, MemInv, \A d, e \in Consumers : d = e,
           NEW c \in Consumers, Crash(c)
    PROVE  MemInv'
<1>0. pc \in [Consumers -> Labels] /\ mem \in [Consumers -> [Matches -> Seq(Event)]]
      /\ stats \in [Matches -> Seq(Event)]
  BY DEF TypedHand, TypeOK, ReplicaOK, RedisOK
<1>1. /\ pc[c] # "down" /\ pc'[c] = "down" /\ mem'[c] = Empty
      /\ UNCHANGED <<stats, active>> /\ abandoned' = abandoned \cup DiesWith(c)
  BY <1>0 DEF Crash, Goto, redisVars
<1>2. ASSUME NEW m \in Matches \ active PROVE Covers(c, m)'
  <2>1. Covers(c, m)
    BY <1>1, <1>2 DEF MemInv, Running
  <2>2. \A id \in EventIds \cup {NoId} : Holds(mem[c][m], id) => id \in abandoned'
    BY <1>1, <1>2 DEF DiesWith
  <2>3. mem'[c][m] = <<>>
    BY <1>1, <1>2 DEF Empty
  <2>4. AllDead(m) => AllDead(m)'
    BY <1>1 DEF AllDead
  <2>5. IsPrefix(stats[m], mem[c][m]) => AllDead(m)'
    <3> SUFFICES ASSUME IsPrefix(stats[m], mem[c][m]), NEW i \in DOMAIN stats[m]
                 PROVE  stats[m][i].id \in abandoned'
      BY <1>1 DEF AllDead
    <3>1. /\ stats[m] \in Seq(Event) /\ mem[c][m] \in Seq(Event)
          /\ i \in 1 .. Len(stats[m])
      BY <1>0, <1>2
    <3>2. stats[m][i] = mem[c][m][i] /\ i \in DOMAIN mem[c][m]
      BY <1>2, <3>1, CoversItems
    <3>3. stats[m][i] \in Event /\ Holds(mem[c][m], stats[m][i].id)
      BY <3>1, <3>2 DEF Holds
    <3> QED
      BY <2>2, <3>3 DEF Event
  <2> QED
    BY <1>1, <2>1, <2>2, <2>3, <2>4, <2>5 DEF Covers
<1> QED
  BY <1>1, <1>2 DEF MemInv, Running

LEMMA InitMem == Init => MemInv
<1> SUFFICES ASSUME Init PROVE MemInv
  OBVIOUS
<1>1. \A c \in Consumers, m \in Matches : Covers(c, m)
  <2>1. IsPrefix(<<>>, <<>>)
    <3>1. <<>> \in Seq(Event)
      OBVIOUS
    <3> QED
      BY <3>1, EmptyIsPrefix
  <2> QED
    BY <2>1 DEF Init, Empty, Covers, Holds
<1> QED
  BY <1>1 DEF Init, MemInv, Running

\* Every step keeps the memory ahead of Redis.
LEMMA NextMem ==
    ASSUME TypedHand, MemInv, faults["restore"] = 0, \A d, e \in Consumers : d = e,
           [Next]_vars
    PROVE  MemInv'
  BY QuietMemSteps, StartMem, WriteMem, CrashMem DEF Next, Step

-----------------------------------------------------------------------------
(* What is kept stays kept *)

\* The events given up only become more.
LEMMA AbandonedGrows == [Next]_vars => abandoned \subseteq abandoned'
  BY ZenonT(60) DEF Next, Step, Produce, Start, LoadMatch, StartReading, FetchMessage, FetchWith,
     Reserve, Inspect, Apply, Mark, SetStats, SetLatest, AddActiveMatch, Publish,
     RouteToDLQ, CommitMessages, Join, Rebalance, NewGeneration, FlushCommit, Crash,
     Expire, vars, historyVars

\* A step that overwrites an aggregate loses none of its events.
LEMMA KeptStays ==
    ASSUME LossFacts, \A d, e \in Consumers : d = e, [Next]_vars,
           NEW id \in EventIds, NEW m \in Matches, Kept(id, m)
    PROVE  Kept(id, m)'
<1> USE DEF LossFacts
<1>0. /\ pc \in [Consumers -> Labels] /\ mem \in [Consumers -> [Matches -> Seq(Event)]]
      /\ stats \in [Matches -> Seq(Event)]
  BY DEF TypedHand, TypeOK, ReplicaOK, RedisOK
<1>1. abandoned \subseteq abandoned'
  BY AbandonedGrows
<1>2. CASE UNCHANGED <<stats, mem>>
  BY <1>1, <1>2 DEF Kept
<1>3. ASSUME NEW c \in Consumers, LoadMatch(c) PROVE Kept(id, m)'
  <2>1. PICK n \in toLoad[c] : UNCHANGED mem \/ mem' = [mem EXCEPT ![c][n] = stats[n]]
    BY <1>3 DEF LoadMatch, Restored
  <2>2. pc[c] = "load" /\ UNCHANGED stats /\ n \in Matches
    BY <1>3, <2>1 DEF LoadMatch, redisVars, TypedHand, TypeOK, ReplicaOK
  <2>3. mem[c][n] = <<>>
    BY <2>1, <2>2 DEF MemInv
  <2>4. \A d \in Consumers : Holds(mem[d][m], id) => m # n
    BY <2>3 DEF Holds
  <2>5. \A d \in Consumers : m # n => mem'[d][m] = mem[d][m]
    BY <1>0, <2>1, <2>2
  <2> QED
    BY <1>1, <2>2, <2>4, <2>5 DEF Kept
<1>4. ASSUME NEW c \in Consumers, Apply(c) PROVE Kept(id, m)'
  <2>1. Msg(c) \in Event /\ Msg(c).match \in Matches
    BY <1>4, InHandTyped DEF Apply, Event
  <2>2. /\ mem' = [mem EXCEPT ![c][Msg(c).match] = Append(@, Msg(c))]
        /\ UNCHANGED stats
    BY <1>4 DEF Apply, redisVars
  <2>3. ASSUME NEW d \in Consumers, Holds(mem[d][m], id) PROVE Holds(mem'[d][m], id)
    <3>1. mem[d][m] \in Seq(Event)
          /\ (mem'[d][m] = mem[d][m] \/ mem'[d][m] = Append(mem[d][m], Msg(c)))
      BY <1>0, <2>1, <2>2
    <3>2. /\ DOMAIN mem[d][m] \subseteq DOMAIN mem'[d][m]
          /\ \A i \in DOMAIN mem[d][m] : mem'[d][m][i] = mem[d][m][i]
      BY <2>1, <3>1
    <3> QED
      BY <2>3, <3>2 DEF Holds
  <2> QED
    BY <1>1, <2>2, <2>3 DEF Kept
<1>5. ASSUME NEW c \in Consumers, SetStats(c) PROVE Kept(id, m)'
  <2>1. /\ UNCHANGED mem
        /\ stats' = stats \/ stats' = [stats EXCEPT ![Msg(c).match] = mem[c][Msg(c).match]]
    BY <1>5 DEF SetStats, RedisWrite, Snapshot
  <2>2. Covers(c, m)
    BY <1>5 DEF SetStats, MemInv, Running
  <2>3. stats'[m] = stats[m] \/ stats'[m] = mem[c][m]
    BY <1>0, <2>1
  <2>4. Holds(stats[m], id) => Holds(stats[m], id)' \/ Holds(mem'[c][m], id) \/ id \in abandoned
    BY <2>1, <2>2 DEF Covers
  <2> QED
    BY <1>1, <2>1, <2>2, <2>3, <2>4 DEF Kept, Covers
<1>6. ASSUME NEW c \in Consumers, Crash(c) PROVE Kept(id, m)'
  <2>1. UNCHANGED stats /\ abandoned' = abandoned \cup DiesWith(c)
    BY <1>6 DEF Crash, redisVars
  <2>2. Holds(mem[c][m], id) => Holds(stats[m], id) \/ id \in abandoned'
    BY <2>1 DEF DiesWith
  <2> QED
    BY <1>1, <2>1, <2>2 DEF Kept
<1>7. \/ UNCHANGED <<stats, mem>>
      \/ \E c \in Consumers : LoadMatch(c) \/ Apply(c) \/ SetStats(c) \/ Crash(c)
  BY ZenonT(60) DEF Next, Step, Produce, Start, StartReading, FetchMessage, FetchWith, Reserve,
     Inspect, Mark, SetLatest, AddActiveMatch, Publish, RouteToDLQ, CommitMessages,
     Join, Rebalance, NewGeneration, FlushCommit, Expire, vars, redisVars
<1> QED
  BY <1>2, <1>3, <1>4, <1>5, <1>6, <1>7

\* What a proof about one step may use.
StepFacts ==
    /\ LossFacts
    /\ \A c, d \in Consumers : c = d
    /\ UniqueIds
    /\ [Next]_vars

\* The message at an offset that is kept stays there and kept.
LEMMA KeptToStays ==
    ASSUME StepFacts
    PROVE  /\ \A o \in 1 .. Len(topic) : KeptAt(o) => KeptAt(o)'
           /\ \A n \in Int : n <= Len(topic) /\ KeptTo(n) => KeptTo(n)'
           /\ Len(topic) <= Len(topic')
           /\ \A i \in 1 .. Len(topic) : topic'[i] = topic[i]
<1>1. TypedHand /\ Lasting
  BY NextLasting DEF StepFacts, LossFacts
<1>2. ASSUME NEW o \in 1 .. Len(topic), KeptAt(o) PROVE KeptAt(o)'
  <2>1. topic'[o] = topic[o]
    BY <1>1 DEF Lasting
  <2>2. CASE topic[o] # Malformed /\ topic[o].id # NoId
    <3>1. topic[o].id \in EventIds /\ topic[o].match \in Matches
      BY <1>1, <2>2 DEF TypedHand, TypeOK, KafkaOK, Event
    <3>2. Kept(topic[o].id, topic[o].match)
      BY <1>2, <2>2 DEF KeptAt
    <3> DEFINE id == topic[o].id
               m == topic[o].match
    <3>3. PICK e \in EventIds, n \in Matches : e = id /\ n = m
      BY <3>1
    <3>4. Kept(e, n)'
      BY <3>2, <3>3, KeptStays DEF StepFacts
    <3> QED
      BY <2>1, <3>3, <3>4 DEF KeptAt, Kept
  <2> QED
    BY <2>1, <2>2 DEF KeptAt
<1>3. ASSUME NEW n \in Int, n <= Len(topic), KeptTo(n) PROVE KeptTo(n)'
  <2>1. \A o \in 1 .. n : o \in 1 .. Len(topic)
    BY <1>1, <1>3 DEF TypedHand, TypeOK, KafkaOK
  <2> QED
    BY <1>2, <1>3, <2>1 DEF KeptTo
<1> QED
  BY <1>1, <1>2, <1>3 DEF Lasting

\* The events on the topic are those producers send.
LEMMA ProducedStays == ASSUME StepFacts PROVE Produced'
<1>1. Produced /\ topic \in Seq(Event \cup {Malformed})
  BY DEF StepFacts, LossFacts, LossInv, TypedHand, TypeOK, KafkaOK
<1>2. UNCHANGED topic \/ \E msg \in Messages : topic' = Append(topic, msg)
  BY ZenonT(60) DEF StepFacts, Next, Step, Produce, Start, LoadMatch, StartReading, FetchMessage,
     FetchWith, Reserve, Inspect, Apply, Mark, SetStats, SetLatest, AddActiveMatch,
     Publish, RouteToDLQ, CommitMessages, Join, Rebalance, NewGeneration,
     FlushCommit, Crash, Expire, vars, kafkaVars
<1>3. ASSUME NEW msg \in Messages, topic' = Append(topic, msg) PROVE Produced'
  <2>1. /\ Len(topic') = Len(topic) + 1 /\ topic'[Len(topic) + 1] = msg
        /\ \A i \in 1 .. Len(topic) : topic'[i] = topic[i]
        /\ Len(topic) \in Nat
    BY <1>1, <1>3
  <2> QED
    BY <1>1, <2>1 DEF Produced
<1> QED
  BY <1>1, <1>2, <1>3 DEF Produced

\* The message in hand is one that producers send.
LEMMA InHandProduced ==
    ASSUME LossFacts, NEW c \in Consumers, pc[c] \in InHand
    PROVE  cur[c] \in 1 .. Len(topic) /\ Msg(c) \in Messages
<1>1. cur[c] \in 1 .. Len(topic)
  BY DEF LossFacts, TypedHand, TypeOK, HandOK, ReaderOK, Offsets, KafkaOK
<1> QED
  BY <1>1 DEF LossFacts, LossInv, Produced, Msg

-----------------------------------------------------------------------------
(* Claims *)

\* A replica on its way to apply an event applies it, or it is given up.
LEMMA AppliesOrKept ==
    ASSUME StepFacts, NEW ev \in Messages \ {Malformed}, ev.id # NoId,
           NEW c \in Consumers, Applies(c, ev.id)
    PROVE  Kept(ev.id, ev.match)' \/ Applies(c, ev.id)'
<1>0. /\ LossFacts /\ TypedHand /\ pc[c] = "apply" /\ Msg(c).id = ev.id
      /\ ev \in Event /\ ev.id \in EventIds /\ ev.match \in Matches
      /\ pc \in [Consumers -> Labels] /\ cur \in [Consumers -> Offsets]
      /\ mem \in [Consumers -> [Matches -> Seq(Event)]]
  BY MessagesAssumption DEF StepFacts, LossFacts, Applies, Event, TypedHand, TypeOK,
                            ReplicaOK, ReaderOK
<1>1. cur[c] \in 1 .. Len(topic) /\ Msg(c) \in Messages \ {Malformed}
  BY <1>0, InHandProduced, MessagesAssumption DEF InHand, TypedHand, HandOK
<1>2. Msg(c) = ev
  BY <1>0, <1>1 DEF StepFacts, UniqueIds
<1>3. topic'[cur[c]] = topic[cur[c]]
  BY <1>1, KeptToStays
<1>4. CASE pc'[c] = "apply" /\ cur'[c] = cur[c]
  BY <1>0, <1>3, <1>4 DEF Applies, Msg
<1>5. CASE Apply(c)
  <2>1. mem'[c][ev.match] = Append(mem[c][ev.match], ev)
    BY <1>0, <1>2, <1>5 DEF Apply, Event
  <2>2. mem[c][ev.match] \in Seq(Event)
    BY <1>0
  <2>3. Holds(mem'[c][ev.match], ev.id)
    <3>1. /\ Len(mem'[c][ev.match]) \in DOMAIN mem'[c][ev.match]
          /\ mem'[c][ev.match][Len(mem'[c][ev.match])] = ev
      BY <1>0, <2>1, <2>2
    <3> QED
      BY <3>1 DEF Holds
  <2> QED
    BY <2>3 DEF Kept
<1>6. CASE Crash(c)
  BY <1>0, <1>6 DEF Crash, DiesWith, Kept
<1>7. \A d \in Consumers : d = c
  BY DEF StepFacts
<1>8. \/ Apply(c) \/ Crash(c)
      \/ pc'[c] = pc[c] /\ cur'[c] = cur[c]
  BY <1>0, <1>7, ZenonT(60)
  DEF StepFacts, Next, Step, Produce, Start, LoadMatch, StartReading, FetchMessage,
     FetchWith, Reserve, Inspect, Mark, SetStats, SetLatest, AddActiveMatch, Publish,
     RouteToDLQ, CommitMessages, Join, Rebalance, NewGeneration, FlushCommit,
     Expire, vars, readerVars
<1> QED
  BY <1>0, <1>4, <1>5, <1>6, <1>8

\* A key is set by a replica that goes on to apply the event, or gives it up; it
\* says processed once the event is applied.
LEMMA ClaimStep ==
    ASSUME StepFacts, NEW id \in EventIds, dedupe'[id] # dedupe[id],
           dedupe'[id] # "none"
    PROVE  \E c \in Consumers :
              /\ pc[c] \in {"reserve", "mark"} /\ Msg(c).id = id
              /\ \/ pc[c] = "mark" /\ KeptAt(cur[c])
                 \/ dedupe'[id] = "processing" /\ id \in abandoned'
                 \/ dedupe'[id] = "processing" /\ Applies(c, id)'
<1>0. /\ LossFacts /\ TypedHand /\ pc \in [Consumers -> Labels]
      /\ dedupe \in [EventIds -> {"none", "processing", "processed"}]
  BY DEF StepFacts, LossFacts, TypedHand, TypeOK, RedisOK, ReplicaOK
<1>1. \E c \in Consumers : Reserve(c) \/ Mark(c)
  <2>1. UNCHANGED dedupe \/ (\E c \in Consumers : Reserve(c) \/ Mark(c))
                         \/ (\E e \in EventIds : Expire(e))
    BY ZenonT(60) DEF StepFacts, Next, Step, Produce, Start, LoadMatch, StartReading,
       FetchMessage, FetchWith, Inspect, Apply, SetStats, SetLatest, AddActiveMatch,
       Publish, RouteToDLQ, CommitMessages, Join, Rebalance, NewGeneration,
       FlushCommit, Crash, vars, redisVars
  <2>2. ASSUME NEW e \in EventIds, Expire(e) PROVE FALSE
    BY <1>0, <2>2 DEF Expire
  <2> QED
    BY <2>1, <2>2
<1>2. ASSUME NEW c \in Consumers, Reserve(c)
      PROVE  /\ pc[c] = "reserve" /\ Msg(c).id = id /\ dedupe'[id] = "processing"
             /\ id \in abandoned' \/ Applies(c, id)'
  <2>1. pc[c] = "reserve" /\ Msg(c).id \in EventIds /\ UNCHANGED <<topic, cur>>
    BY <1>0, <1>2 DEF Reserve, TypedHand, HandOK, kafkaVars, readerVars
  <2>2. dedupe' = dedupe \/ dedupe' = SetNX(Msg(c).id)
    BY <1>2 DEF Reserve
  <2>3. Msg(c).id = id /\ dedupe'[id] = "processing" /\ dedupe' # dedupe
    BY <1>0, <2>1, <2>2 DEF SetNX, Claim
  <2>4. id \in abandoned' \/ pc'[c] = "apply"
    BY <1>0, <1>2, <2>3 DEF Reserve, Goto, OnReservation, FailOpen, OnReserveError
  <2> QED
    BY <2>1, <2>3, <2>4 DEF Applies, Msg
<1>3. ASSUME NEW c \in Consumers, Mark(c)
      PROVE  pc[c] = "mark" /\ Msg(c).id = id /\ KeptAt(cur[c])
  <2>1. pc[c] = "mark" /\ KeptAt(cur[c])
    BY <1>0, <1>3 DEF Mark, LossFacts, LossInv, KeptBehind, InHand
  <2> QED
    BY <1>0, <1>3, <2>1 DEF Mark, RedisWrite
<1> QED
  BY <1>1, <1>2, <1>3

LEMMA ClaimsStay == ASSUME StepFacts PROVE ClaimsKept'
<1>0. LossFacts /\ TypedHand /\ ClaimsKept
  BY DEF StepFacts, LossFacts, LossInv
<1>1. ASSUME NEW ev \in Messages \ {Malformed}, ev.id # NoId, dedupe'[ev.id] # "none"
      PROVE  Kept(ev.id, ev.match)' \/ \E c \in Consumers : Applies(c, ev.id)'
  <2>1. ev.id \in EventIds /\ ev.match \in Matches
    BY <1>1, MessagesAssumption DEF Event
  <2>2. ASSUME Kept(ev.id, ev.match) PROVE Kept(ev.id, ev.match)'
    BY <2>1, <2>2, KeptStays DEF StepFacts
  <2>3. CASE dedupe[ev.id] # "none"
    BY <1>0, <1>1, <2>2, <2>3, AppliesOrKept DEF ClaimsKept
  <2>4. CASE dedupe[ev.id] = "none"
    <3>1. PICK c \in Consumers :
              /\ pc[c] \in {"reserve", "mark"} /\ Msg(c).id = ev.id
              /\ \/ pc[c] = "mark" /\ KeptAt(cur[c])
                 \/ ev.id \in abandoned'
                 \/ Applies(c, ev.id)'
      BY <1>1, <2>1, <2>4, ClaimStep
    <3>2. CASE pc[c] = "mark" /\ KeptAt(cur[c])
      <4>1. Msg(c) \in Messages \ {Malformed}
        BY <1>0, <3>2, InHandProduced, MessagesAssumption DEF InHand, TypedHand, HandOK
      <4>2. Msg(c) = ev
        BY <1>1, <3>1, <4>1 DEF StepFacts, UniqueIds
      <4>3. Kept(ev.id, ev.match)
        BY <1>1, <3>2, <4>1, <4>2 DEF KeptAt, Msg
      <4> QED
        BY <2>2, <4>3
    <3>3. CASE ev.id \in abandoned'
      BY <3>3 DEF Kept
    <3> QED
      BY <3>1, <3>2, <3>3
  <2> QED
    BY <2>3, <2>4
<1>2. ASSUME NEW id \in EventIds, dedupe'[id] = "processed"
      PROVE  \E m \in Matches : Kept(id, m)'
  <2>1. \E m \in Matches : Kept(id, m)
    <3>1. CASE dedupe[id] = "processed"
      BY <1>0, <3>1 DEF ClaimsKept
    <3>2. CASE dedupe[id] # "processed"
      <4>1. PICK c \in Consumers : pc[c] = "mark" /\ Msg(c).id = id /\ KeptAt(cur[c])
        BY <1>2, <3>2, ClaimStep
      <4>2. Msg(c) # Malformed /\ Msg(c).id # NoId /\ Msg(c).match \in Matches
        BY <1>0, <4>1, MessagesAssumption, IdsAssumption DEF TypedHand, HandOK, Event
      <4> QED
        BY <4>1, <4>2 DEF KeptAt, Msg
    <3> QED
      BY <3>1, <3>2
  <2> QED
    BY <2>1, KeptStays, <1>0 DEF StepFacts
<1> QED
  BY <1>1, <1>2 DEF ClaimsKept

-----------------------------------------------------------------------------
(* Offsets *)

\* The step leaves the reader of the replica alone, and moves on with the
\* message in hand only when it is kept.
MovesOn(c) ==
    /\ pos'[c] = pos[c] /\ cur'[c] = cur[c] /\ commitReq'[c] = commitReq[c]
    /\ \/ pc'[c] = pc[c]
       \/ /\ pc[c] \in InHand /\ pc'[c] \in InHand
          /\ pc'[c] \notin {"reserve", "apply", "dlq"} => KeptAt(cur[c])'
       \/ pc[c] \notin InHand /\ pc'[c] \notin InHand

LEMMA MovesOnKept ==
    ASSUME StepFacts, NEW c \in Consumers, MovesOn(c) PROVE KeptBehind(c)'
<1>1. /\ commitReq[c] \in Int /\ commitReq[c] <= Len(topic)
      /\ pos[c] \in Int /\ pos[c] <= Len(topic)
      /\ cur[c] - 1 \in Int /\ cur[c] - 1 <= Len(topic)
      /\ pc[c] \in InHand => cur[c] \in 1 .. Len(topic)
  BY DEF StepFacts, LossFacts, TypedHand, TypeOK, HandOK, KafkaOK, ReaderOK, Offsets
<1>2. KeptBehind(c)
  BY DEF StepFacts, LossFacts, LossInv
<1>3. /\ KeptTo(commitReq[c])'
      /\ KeptTo(pos[c]) => KeptTo(pos[c])'
      /\ KeptTo(cur[c] - 1) => KeptTo(cur[c] - 1)'
      /\ pc[c] \in InHand /\ KeptAt(cur[c]) => KeptAt(cur[c])'
  <2>1. \A n \in Int : n <= Len(topic) /\ KeptTo(n) => KeptTo(n)'
    BY KeptToStays
  <2>2. \A o \in 1 .. Len(topic) : KeptAt(o) => KeptAt(o)'
    BY KeptToStays
  <2>3. KeptTo(commitReq[c])
    BY <1>2 DEF KeptBehind
  <2> QED
    BY <1>1, <2>1, <2>2, <2>3 DEF MovesOn
<1>4. (KeptTo(pos[c]) \/ (pc[c] \in InHand /\ pos[c] = cur[c]))'
  BY <1>2, <1>3 DEF MovesOn, KeptBehind
<1>5. ASSUME pc'[c] \in InHand
      PROVE  (KeptTo(cur[c] - 1) /\ (pc[c] \notin {"reserve", "apply", "dlq"} => KeptAt(cur[c])))'
  <2>1. pc[c] \in InHand
    BY <1>5 DEF MovesOn
  <2>2. KeptTo(cur[c] - 1)'
    BY <1>2, <1>3, <2>1 DEF KeptBehind
  <2>3. pc'[c] \notin {"reserve", "apply", "dlq"} => KeptAt(cur[c])'
    BY <1>2, <1>3, <2>1 DEF MovesOn, KeptBehind
  <2> QED
    BY <2>2, <2>3
<1> QED
  BY <1>3, <1>4, <1>5 DEF KeptBehind

\* The offsets, after a step.
OffsetsKept == KeptTo(committed) /\ \A c \in Consumers : KeptBehind(c)

LEMMA MovesOnOffsets ==
    ASSUME StepFacts, committed' = committed, \A c \in Consumers : MovesOn(c)
    PROVE  OffsetsKept'
<1>1. KeptTo(committed)'
  <2>1. committed \in Int /\ committed <= Len(topic) /\ KeptTo(committed)
    BY DEF StepFacts, LossFacts, LossInv, TypedHand, TypeOK, KafkaOK, Offsets
  <2> QED
    BY <2>1, KeptToStays
<1> QED
  BY <1>1, MovesOnKept DEF OffsetsKept

\* A replica lets go of an event when it is applied, or when another claim
\* shows that it is kept.
LEMMA HandStepOffsets ==
    ASSUME StepFacts, NEW c \in Consumers,
           \/ Reserve(c) \/ Inspect(c) \/ Apply(c) \/ Mark(c) \/ SetStats(c)
           \/ SetLatest(c) \/ AddActiveMatch(c) \/ Publish(c) \/ RouteToDLQ(c)
    PROVE  OffsetsKept'
<1>0. /\ LossFacts /\ TypedHand /\ \A d \in Consumers : d = c
      /\ pc \in [Consumers -> Labels]
      /\ mem \in [Consumers -> [Matches -> Seq(Event)]]
  BY DEF StepFacts, LossFacts, TypedHand, TypeOK, ReplicaOK
<1>1. UNCHANGED <<committed, pos, cur, commitReq, topic>>
  BY DEF Reserve, Inspect, Apply, Mark, SetStats, SetLatest, AddActiveMatch,
     Publish, RouteToDLQ, kafkaVars, readerVars
<1>2. pc[c] \in InHand /\ pc'[c] \in InHand
  BY <1>0 DEF Reserve, Inspect, Apply, Mark, SetStats, SetLatest, AddActiveMatch,
     Publish, RouteToDLQ, Goto, FailOpen, InHand, OnReservation, OnReserveError,
     PersistOrder
<1>3. cur[c] \in 1 .. Len(topic) /\ Msg(c) \in Messages /\ Msg(c)' = Msg(c)
      /\ topic[cur[c]] = Msg(c)
  BY <1>0, <1>1, <1>2, InHandProduced DEF Msg
<1>4. ASSUME pc'[c] \notin {"reserve", "apply", "dlq"} PROVE KeptAt(cur[c])'
  <2>1. KeptAt(cur[c]) => KeptAt(cur[c])'
    BY <1>1, <1>3, KeptToStays
  <2>2. CASE Reserve(c)
    <3>1. /\ pc[c] = "reserve" /\ Msg(c) \in Messages \ {Malformed}
          /\ Msg(c).id \in EventIds /\ Msg(c).id # NoId
      BY <1>0, <1>3, <2>2, MessagesAssumption, IdsAssumption
      DEF Reserve, TypedHand, HandOK
    <3>2. dedupe[Msg(c).id] # "none" \/ Msg(c).id \in abandoned'
      BY <1>0, <1>4, <2>2 DEF Reserve, Goto, FailOpen, OnReservation, OnReserveError
    <3>3. CASE dedupe[Msg(c).id] # "none"
      <4>1. Kept(Msg(c).id, Msg(c).match) \/ \E d \in Consumers : Applies(d, Msg(c).id)
        BY <1>0, <3>1, <3>3 DEF LossFacts, LossInv, ClaimsKept
      <4>2. Kept(Msg(c).id, Msg(c).match)
        BY <1>0, <3>1, <4>1 DEF Applies
      <4> QED
        BY <1>3, <2>1, <4>2 DEF KeptAt
    <3>4. CASE Msg(c).id \in abandoned'
      BY <1>1, <1>3, <3>4 DEF KeptAt, Kept
    <3> QED
      BY <3>2, <3>3, <3>4
  <2>3. CASE Apply(c)
    <3>1. Msg(c) \in Event /\ Msg(c).match \in Matches
      BY <2>3, <1>0, InHandTyped DEF Apply, Event
    <3>2. /\ mem'[c][Msg(c).match] = Append(mem[c][Msg(c).match], Msg(c))
          /\ mem[c][Msg(c).match] \in Seq(Event)
      BY <1>0, <2>3, <3>1 DEF Apply
    <3>3. /\ Len(mem'[c][Msg(c).match]) \in DOMAIN mem'[c][Msg(c).match]
          /\ mem'[c][Msg(c).match][Len(mem'[c][Msg(c).match])] = Msg(c)
      BY <3>1, <3>2
    <3>4. Holds(mem'[c][Msg(c).match], Msg(c).id)
      BY <3>3 DEF Holds
    <3> QED
      BY <1>1, <1>3, <3>4 DEF KeptAt, Kept
  <2>4. CASE RouteToDLQ(c)
    <3>1. topic'[cur'[c]] = Malformed
      BY <1>0, <1>1, <1>3, <2>4 DEF RouteToDLQ, TypedHand, HandOK
    <3> QED
      BY <3>1 DEF KeptAt
  <2>5. CASE \/ Inspect(c) \/ Mark(c) \/ SetStats(c) \/ SetLatest(c)
             \/ AddActiveMatch(c) \/ Publish(c)
    <3>1. pc[c] \notin {"reserve", "apply", "dlq"}
      BY <2>5 DEF Inspect, Mark, SetStats, SetLatest, AddActiveMatch, Publish
    <3>2. KeptAt(cur[c])
      BY <1>0, <1>2, <3>1 DEF LossFacts, LossInv, KeptBehind
    <3> QED
      BY <2>1, <3>2
  <2> QED
    BY <2>2, <2>3, <2>4, <2>5
<1>5. MovesOn(c)
  BY <1>1, <1>2, <1>4 DEF MovesOn
<1> QED
  BY <1>0, <1>1, <1>5, MovesOnOffsets

\* The steps that touch neither a reader nor a message in hand.
LEMMA QuietStepOffsets ==
    ASSUME StepFacts,
           \/ \E msg \in Messages : Produce(msg)
           \/ \E c \in Consumers : Start(c) \/ LoadMatch(c) \/ StartReading(c)
           \/ \E id \in EventIds : Expire(id)
           \/ UNCHANGED vars
    PROVE  OffsetsKept'
<1>1. UNCHANGED <<committed, pos, cur, commitReq>>
  BY DEF Produce, Start, LoadMatch, StartReading, Expire, vars, kafkaVars,
     readerVars
<1>2. \A d \in Consumers : pc'[d] = pc[d] \/ {pc[d], pc'[d]} \cap InHand = {}
  BY DEF Produce, Start, LoadMatch, StartReading, Expire, vars, Goto, InHand,
     StepFacts, LossFacts, TypedHand, TypeOK, ReplicaOK
<1> QED
  BY <1>1, <1>2, MovesOnOffsets DEF MovesOn

\* What a replica may rely on before it fetches, commits or joins.
LEMMA OffsetFacts ==
    ASSUME StepFacts, NEW c \in Consumers
    PROVE  /\ KeptTo(committed)' \/ committed' # committed
           /\ KeptTo(commitReq[c]) /\ commitReq[c] \in 0 .. Len(topic)
           /\ committed \in 0 .. Len(topic) /\ KeptTo(committed)
           /\ pos[c] \in 0 .. Len(topic) /\ cur[c] \in 0 .. Len(topic)
           /\ Len(topic) \in Nat
           /\ \A n \in 0 .. Len(topic) : KeptTo(n) => KeptTo(n)'
           /\ \A n \in 0 .. Len(topic) : KeptTo(n - 1) /\ KeptAt(n) => KeptTo(n)
           /\ \A d \in Consumers : d = c
<1>1. /\ commitReq[c] \in 0 .. Len(topic) /\ committed \in 0 .. Len(topic)
      /\ pos[c] \in 0 .. Len(topic) /\ cur[c] \in 0 .. Len(topic)
      /\ Len(topic) \in Nat
  BY DEF StepFacts, LossFacts, TypedHand, TypeOK, KafkaOK, ReaderOK, Offsets
<1>2. KeptTo(committed) /\ KeptTo(commitReq[c])
  BY DEF StepFacts, LossFacts, LossInv, KeptBehind
<1>3. \A n \in 0 .. Len(topic) : KeptTo(n) => KeptTo(n)'
  <2>1. \A n \in 0 .. Len(topic) : n \in Int /\ n <= Len(topic)
    BY <1>1
  <2> QED
    BY <2>1, KeptToStays
<1>4. ASSUME NEW n \in 0 .. Len(topic), KeptTo(n - 1), KeptAt(n) PROVE KeptTo(n)
  <2>1. \A o \in 1 .. n : o \in 1 .. n - 1 \/ o = n
    BY <1>1
  <2> QED
    BY <1>4, <2>1 DEF KeptTo
<1>5. KeptTo(committed)' \/ committed' # committed
  BY <1>1, <1>2, <1>3
<1> QED
  BY <1>1, <1>2, <1>3, <1>4, <1>5 DEF StepFacts

\* The next message comes after the reader's position; a commit is asked for a
\* message that is kept.
LEMMA ReaderOffsets ==
    ASSUME StepFacts, NEW c \in Consumers, FetchMessage(c) \/ CommitMessages(c)
    PROVE  OffsetsKept'
<1> USE OffsetFacts
<1>0. /\ pc \in [Consumers -> Labels] /\ cur \in [Consumers -> Offsets]
      /\ pos \in [Consumers -> Offsets] /\ commitReq \in [Consumers -> Offsets]
      /\ KeptBehind(c)
  BY DEF StepFacts, LossFacts, LossInv, TypedHand, TypeOK, ReplicaOK, ReaderOK
<1>1. UNCHANGED <<topic, committed>>
  BY DEF FetchMessage, FetchWith, CommitMessages, kafkaVars
<1>2. CASE FetchMessage(c)
  <2>1. /\ pc[c] = "fetch" /\ pc'[c] = Dispatch(topic[pos[c] + 1])
        /\ cur'[c] = pos[c] + 1 /\ pos'[c] = pos[c] + 1
        /\ commitReq'[c] = commitReq[c]
    BY <1>0, <1>2 DEF FetchMessage, FetchWith, Goto
  <2>3. cur'[c] - 1 = pos[c]
    BY <2>1
  <2>4. KeptTo(cur[c] - 1)'
    <3>1. PICK n \in Int : n = pos[c]
      BY <2>1
    <3>2. KeptTo(n) /\ n \in 0 .. Len(topic)
      BY <1>0, <2>1, <3>1 DEF KeptBehind, InHand
    <3> QED
      BY <2>3, <3>1, <3>2
  <2>5. KeptTo(commitReq[c])'
    <3>1. PICK n \in Int : n = commitReq[c]
      OBVIOUS
    <3> QED
      BY <2>1, <3>1
  <2>6. pc'[c] \in {"reserve", "apply", "dlq"}
    BY <2>1 DEF Dispatch
  <2>7. KeptBehind(c)'
    BY <2>1, <2>4, <2>5, <2>6 DEF KeptBehind, InHand
  <2> QED
    BY <1>1, <2>7 DEF OffsetsKept
<1>3. CASE CommitMessages(c)
  <2>1. /\ pc[c] = "commit" /\ pc'[c] = "fetch"
        /\ cur'[c] = cur[c] /\ pos'[c] = pos[c]
        /\ commitReq'[c] \in {commitReq[c], cur[c]}
    BY <1>0, <1>3 DEF CommitMessages, CommitOffset, Goto
  <2>2. KeptTo(cur[c])
    BY <1>0, <2>1 DEF KeptBehind, InHand
  <2>3. KeptTo(pos[c])
    BY <1>0, <2>2 DEF KeptBehind
  <2>4. KeptTo(commitReq[c])'
    <3>1. PICK n \in 0 .. Len(topic) : n = commitReq'[c] /\ KeptTo(n)
      BY <2>1, <2>2
    <3> QED
      BY <3>1
  <2>5. KeptTo(pos[c])'
    <3>1. PICK n \in 0 .. Len(topic) : n = pos[c]
      OBVIOUS
    <3> QED
      BY <2>1, <2>3, <3>1
  <2>6. KeptBehind(c)'
    BY <2>1, <2>4, <2>5 DEF KeptBehind, InHand
  <2> QED
    BY <1>1, <2>6 DEF OffsetsKept
<1> QED
  BY <1>2, <1>3

\* A generation starts at the committed offset, a crash forgets the reader, and
\* a flush hands over an offset that was kept when it was asked for.
LEMMA GroupOffsets ==
    ASSUME StepFacts, NEW c \in Consumers,
           Join(c) \/ Rebalance(c) \/ FlushCommit(c) \/ Crash(c)
    PROVE  OffsetsKept'
<1> USE OffsetFacts
<1>0. /\ pc \in [Consumers -> Labels] /\ cur \in [Consumers -> Offsets]
      /\ pos \in [Consumers -> Offsets] /\ commitReq \in [Consumers -> Offsets]
      /\ KeptBehind(c) /\ TypedHand
  BY DEF StepFacts, LossFacts, LossInv, TypedHand, TypeOK, ReplicaOK, ReaderOK
<1>1. /\ committed' \in {committed, commitReq[c]}
      /\ commitReq'[c] \in {commitReq[c], 0}
      /\ pos'[c] \in {pos[c], committed, 0}
      /\ \/ pc'[c] = pc[c] /\ cur'[c] = cur[c]
         \/ pc'[c] = "down" /\ pos'[c] = 0
  <2>1. CASE NewGeneration(c)
    BY <1>0, <2>1 DEF NewGeneration
  <2>2. CASE FlushCommit(c)
    BY <1>0, <2>2 DEF FlushCommit
  <2>3. CASE Crash(c)
    BY <1>0, <2>3 DEF Crash, Goto
  <2> QED
    BY <2>1, <2>2, <2>3 DEF Join, Rebalance
<1>2. KeptTo(0) /\ KeptTo(0)'
  BY DEF KeptTo
<1>3. KeptTo(committed)'
  <2>1. PICK n \in 0 .. Len(topic) : n = committed' /\ KeptTo(n)
    BY <1>1
  <2> QED
    BY <2>1
<1>4. KeptTo(commitReq[c])'
  <2>1. PICK n \in 0 .. Len(topic) : n = commitReq'[c] /\ KeptTo(n)
    BY <1>1, <1>2
  <2> QED
    BY <2>1
<1>5. ASSUME pc'[c] = "down", pos'[c] = 0
      PROVE  KeptBehind(c)'
  BY <1>2, <1>4, <1>5 DEF KeptBehind, InHand
<1>6. ASSUME pc'[c] = pc[c], cur'[c] = cur[c]
      PROVE  KeptBehind(c)'
  <2>1. ASSUME pc[c] \in InHand
        PROVE  (KeptTo(cur[c] - 1) /\ (pc[c] \notin {"reserve", "apply", "dlq"} => KeptAt(cur[c])))'
    <3>1. PICK o \in 1 .. Len(topic) : o = cur[c]
      BY <1>0, <2>1 DEF TypedHand, HandOK
    <3>2. KeptTo(o - 1) /\ o - 1 \in 0 .. Len(topic)
      BY <1>0, <2>1, <3>1 DEF KeptBehind
    <3>3. KeptTo(o - 1)'
      BY <3>2
    <3>4. pc[c] \notin {"reserve", "apply", "dlq"} => KeptAt(o)
      BY <1>0, <2>1, <3>1 DEF KeptBehind
    <3>5. KeptAt(o) => KeptAt(o)'
      BY KeptToStays
    <3> QED
      BY <1>6, <3>1, <3>3, <3>4, <3>5
  <2>2. (KeptTo(pos[c]) \/ (pc[c] \in InHand /\ pos[c] = cur[c]))'
    <3>1. CASE pos'[c] = pos[c]
      <4>1. PICK n \in 0 .. Len(topic) : n = pos[c]
        OBVIOUS
      <4> QED
        BY <1>0, <1>6, <3>1, <4>1 DEF KeptBehind
    <3>2. CASE pos'[c] \in {committed, 0}
      <4>1. PICK n \in 0 .. Len(topic) : n = pos'[c] /\ KeptTo(n)
        BY <1>2, <3>2
      <4> QED
        BY <4>1
    <3> QED
      BY <1>1, <3>1, <3>2
  <2> QED
    BY <1>4, <1>6, <2>1, <2>2 DEF KeptBehind
<1>7. KeptBehind(c)'
  BY <1>1, <1>5, <1>6
<1> QED
  BY <1>3, <1>7 DEF OffsetsKept

LEMMA NextLoss == ASSUME StepFacts PROVE LossInv'
<1>1. OffsetsKept'
  BY QuietStepOffsets, ReaderOffsets, HandStepOffsets, GroupOffsets
  DEF StepFacts, Next, Step
<1> QED
  BY <1>1, ProducedStays, ClaimsStay DEF LossInv, OffsetsKept

-----------------------------------------------------------------------------
(* The theorems *)

LEMMA InitLoss == Init => LossInv
<1> SUFFICES ASSUME Init PROVE LossInv
  OBVIOUS
<1>1. ClaimsKept
  BY MessagesAssumption DEF Init, ClaimsKept, Event
<1> QED
  BY <1>1 DEF Init, LossInv, Produced, KeptTo, KeptBehind, InHand

\* No restore ever fails.
LEMMA NoRestoreFault ==
    ASSUME TypedHand, faults["restore"] = 0, [Next]_vars PROVE faults'["restore"] = 0
<1>1. "restore" \in FaultKinds
  BY DEF FaultKinds
<1> QED
  BY <1>1, BudgetStep

\* A snapshot all of which is given up has an event that is, or nothing to lose.
LEMMA CoversExempt ==
    ASSUME TypedHand, NEW c \in Consumers, NEW m \in Matches, Covers(c, m)
    PROVE  IsPrefix(stats[m], mem[c][m]) \/ Orphaned(m)
<1>1. stats[m] \in Seq(Event) /\ mem[c][m] \in Seq(Event)
  BY DEF TypedHand, TypeOK, RedisOK, ReplicaOK
<1>2. CASE stats[m] = <<>>
  BY <1>1, <1>2, EmptyIsPrefix
<1>3. CASE stats[m] # <<>> /\ AllDead(m)
  <2>1. 1 \in DOMAIN stats[m]
    BY <1>1, <1>3
  <2> QED
    BY <1>3, <2>1 DEF AllDead, Orphaned
<1> QED
  BY <1>2, <1>3 DEF Covers

\* The memory's part, which needs nothing of the ids.
MemFacts == TypedHand /\ faults["restore"] = 0 /\ MemInv

LEMMA MemFactsHold == ASSUME Restoring PROVE Spec => []MemFacts
<1>1. Init => MemFacts
  BY InitTyped, InitMem DEF Restoring, MemFacts, Init
<1>2. MemFacts /\ [Next]_vars => MemFacts'
  BY NextTyped, NextMem, NoRestoreFault DEF Restoring, MemFacts
<1> QED
  BY <1>1, <1>2, PTL DEF Spec

\* Whatever writes to Redis failed, a running replica holds every event of a
\* listed match that Redis holds, in the same order, so its next write repairs
\* the snapshot.
THEOREM MemoryRepairsRedis == ASSUME Restoring PROVE Spec => []MemoryIsAhead
<1>1. MemFacts => MemoryIsAhead
  <2> SUFFICES ASSUME MemFacts, NEW c \in Consumers, Running(c), NEW m \in active
               PROVE  IsPrefix(stats[m], mem[c][m]) \/ Orphaned(m)
    BY DEF MemoryIsAhead
  <2>1. m \in Matches
    BY DEF MemFacts, TypedHand, TypeOK, RedisOK
  <2> QED
    BY <2>1, CoversExempt DEF MemFacts, MemInv
<1> QED
  BY MemFactsHold, <1>1, PTL

\* Of all the steps, only SetStats writes the snapshots, and writes what the
\* replica in it remembers.
LEMMA SnapshotWritten ==
    ASSUME TypedHand, [Next]_vars
    PROVE  \/ stats' = stats
           \/ \E c \in Consumers :
                /\ Running(c) /\ Msg(c).match \in Matches
                /\ stats' = [stats EXCEPT ![Msg(c).match] = mem[c][Msg(c).match]]
<1>1. ASSUME NEW c \in Consumers, SetStats(c)
      PROVE  /\ Running(c) /\ Msg(c).match \in Matches
             /\ \/ stats' = stats
                \/ stats' = [stats EXCEPT ![Msg(c).match] = mem[c][Msg(c).match]]
  <2>1. pc[c] = "setStats"
    BY <1>1 DEF SetStats
  <2>2. Running(c) /\ Msg(c).match \in Matches
    BY <2>1, InHandTyped DEF Running
  <2> QED
    BY <1>1, <2>2 DEF SetStats, RedisWrite, Snapshot
<1>2. ASSUME NEW c \in Consumers, Step(c), ~SetStats(c) PROVE stats' = stats
  <2>1. CASE LoadMatch(c) \/ StartReading(c) \/ FetchMessage(c) \/ Apply(c)
    BY <2>1 DEF LoadMatch, StartReading, FetchMessage, FetchWith, Apply, redisVars
  <2>2. CASE Reserve(c)
    BY <2>2 DEF Reserve
  <2>4. CASE Inspect(c) \/ Mark(c)
    BY <2>4 DEF Inspect, Mark, redisVars
  <2>5. CASE SetLatest(c) \/ AddActiveMatch(c)
    BY <2>5 DEF SetLatest, AddActiveMatch
  <2>3. CASE Publish(c) \/ RouteToDLQ(c) \/ CommitMessages(c)
    BY <2>3 DEF Publish, RouteToDLQ, CommitMessages, redisVars
  <2> QED
    BY <1>2, <2>1, <2>2, <2>3, <2>4, <2>5 DEF Step
<1>3. ASSUME NEW c \in Consumers,
             Start(c) \/ Join(c) \/ Rebalance(c) \/ FlushCommit(c) \/ Crash(c)
      PROVE  stats' = stats
  BY <1>3 DEF Start, Join, Rebalance, NewGeneration, FlushCommit, Crash, redisVars
<1>4. ASSUME NEW msg \in Messages, Produce(msg) PROVE stats' = stats
  BY <1>4 DEF Produce, redisVars
<1>5. ASSUME NEW id \in EventIds, Expire(id) PROVE stats' = stats
  BY <1>5 DEF Expire
<1> QED
  BY <1>1, <1>2, <1>3, <1>4, <1>5 DEF Next, vars, redisVars

\* No step, a restart or a failed write included, takes an event from a listed
\* snapshot: the snapshot that setStats overwrites is a prefix of the new one,
\* but where an event in it died in a crash.
THEOREM ListedNeverShrinks == ASSUME Restoring PROVE Spec => ListedSnapshotNeverShrinks
<1>1. MemFacts /\ [Next]_vars
        => [\A m \in active : IsPrefix(stats[m], stats'[m]) \/ Orphaned(m)]_vars
  <2> SUFFICES ASSUME MemFacts, [Next]_vars, NEW m \in active
               PROVE  IsPrefix(stats[m], stats'[m]) \/ Orphaned(m)
    OBVIOUS
  <2>1. /\ TypedHand /\ MemInv /\ m \in Matches
        /\ stats \in [Matches -> Seq(Event)]
    BY DEF MemFacts, TypedHand, TypeOK, RedisOK
  <2>2. CASE stats'[m] = stats[m]
    <3>1. stats[m] \in Seq(Event)
      BY <2>1
    <3>2. IsPrefix(stats[m], stats[m])
      <4> HIDE DEF MemFacts
      <4> QED
        BY <3>1, PrefixItems
    <3> QED
      BY <2>2, <3>2
  <2>3. ASSUME NEW c \in Consumers, Running(c), Msg(c).match \in Matches,
               stats' = [stats EXCEPT ![Msg(c).match] = mem[c][Msg(c).match]]
        PROVE  IsPrefix(stats[m], stats'[m]) \/ Orphaned(m)
    <3>1. Covers(c, m)
      BY <2>1, <2>3 DEF MemInv
    <3>2. stats'[m] = stats[m] \/ stats'[m] = mem[c][m]
      BY <2>1, <2>3
    <3> QED
      BY <2>1, <2>2, <3>1, <3>2, CoversExempt
  <2> QED
    BY <2>1, <2>2, <2>3, SnapshotWritten
<1> QED
  BY MemFactsHold, <1>1, PTL DEF Spec, ListedSnapshotNeverShrinks

LEMMA LossFactsHold == ASSUME Restoring, UniqueIds PROVE Spec => []LossFacts
<1>1. Init => LossFacts
  BY InitTyped, InitMem, InitLoss DEF Restoring, LossFacts, Init
<1>2. LossFacts /\ [Next]_vars => LossFacts'
  <2> SUFFICES ASSUME LossFacts, [Next]_vars PROVE LossFacts'
    OBVIOUS
  <2>1. StepFacts
    BY DEF StepFacts, Restoring
  <2> QED
    BY <2>1, NextTyped, NextMem, NextLoss, NoRestoreFault DEF LossFacts, StepFacts
<1> QED
  BY <1>1, <1>2, PTL DEF Spec

\* An event whose offset is committed and that is in no aggregate died with a
\* replica, or its claim met its own retry: failed calls, redeliveries, expiries
\* and rebalances lose nothing.
THEOREM OnlyCrashesLose == ASSUME Restoring, UniqueIds PROVE Spec => []LossWindow
<1>1. LossFacts => LossWindow
  <2> SUFFICES ASSUME LossFacts, NEW o \in 1 .. committed,
                      topic[o] # Malformed, topic[o].id # NoId
               PROVE  Aggregated(topic[o]) \/ topic[o].id \in abandoned
    BY DEF LossWindow, CommittedEvents
  <2>1. KeptAt(o)
    BY DEF LossFacts, LossInv, KeptTo
  <2> QED
    BY <2>1 DEF KeptAt, Kept, Aggregated
<1> QED
  BY LossFactsHold, <1>1, PTL

\* An event marked processed is in an aggregate, unless it died with a replica.
THEOREM ProcessedAreCounted ==
    ASSUME Restoring, UniqueIds PROVE Spec => []ProcessedIsCounted
<1>1. LossFacts => ProcessedIsCounted
  BY DEF LossFacts, LossInv, ClaimsKept, ProcessedIsCounted, Kept
<1> QED
  BY LossFactsHold, <1>1, PTL

-----------------------------------------------------------------------------
(* What is published *)

\* What the next snapshot of the match is made from: the memory, or what is
\* still to be restored.
Resumes(c, m) ==
    IF Running(c) \/ (pc[c] = "load" /\ m \notin toLoad[c]) THEN mem[c][m]
    ELSE Listed[m]

\* Every published snapshot is part of what the next one is made from, unless
\* one of its events may have died.
RememberInv ==
    \A c \in Consumers, m \in Matches : \A i \in DOMAIN published :
        published[i].match = m => \/ IsPrefix(published[i].events, Resumes(c, m))
                                  \/ Unsafe(published[i].events)

LEMMA ResumesTyped ==
    ASSUME TypedHand, NEW c \in Consumers, NEW m \in Matches
    PROVE  Resumes(c, m) \in Seq(Event)
  BY ListedTyped DEF Resumes, TypedHand, TypeOK, ReplicaOK

LEMMA UnsafeStays ==
    ASSUME TypedHand, [Next]_vars, NEW p, Unsafe(p) PROVE Unsafe(p)'
<1>1. abandoned \subseteq abandoned' /\ Excused \subseteq Excused'
  BY AbandonedGrows, NextLasting DEF Lasting
<1> QED
  BY <1>1 DEF Unsafe

\* A crash takes the memory: what a restart finds of it is a part of what was
\* published, or an event of that is given up, or was there twice.
LEMMA CrashResumes ==
    ASSUME TypedHand, CountedOnce, NEW c \in Consumers, NEW m \in Matches,
           Crash(c), Covers(c, m),
           NEW p \in Seq(Event), IsPrefix(p, mem[c][m])
    PROVE  IsPrefix(p, Listed[m]) \/ Unsafe(p)'
<1>0. /\ stats[m] \in Seq(Event) /\ mem[c][m] \in Seq(Event)
      /\ abandoned' = abandoned \cup DiesWith(c) /\ Excused' = Excused
  BY DEF TypedHand, TypeOK, RedisOK, ReplicaOK, Crash, Excused
<1>1. /\ Len(p) <= Len(mem[c][m]) /\ Len(p) \in Nat /\ Len(mem[c][m]) \in Nat
      /\ DOMAIN p = 1 .. Len(p) /\ DOMAIN mem[c][m] = 1 .. Len(mem[c][m])
      /\ \A i \in 1 .. Len(p) : p[i] = mem[c][m][i] /\ p[i] \in Event
  BY <1>0, PrefixItems
\* An event of p that no restart finds died.
<1>2. ASSUME NEW i \in 1 .. Len(p), ~(m \in active /\ Holds(stats[m], p[i].id))
      PROVE  Unsafe(p)'
  <2>1. Holds(mem[c][m], p[i].id) /\ p[i].id \in EventIds \cup {NoId}
    BY <1>1 DEF Holds, Event
  <2>2. p[i].id \in abandoned'
    BY <1>0, <1>2, <2>1 DEF DiesWith
  <2> QED
    BY <1>1, <2>2 DEF Unsafe
<1>3. CASE p = <<>>
  BY <1>3, EmptyIsPrefix, ListedTyped
<1>4. CASE p # <<>> /\ m \notin active
  BY <1>1, <1>2, <1>4
<1>5. CASE p # <<>> /\ m \in active /\ AllDead(m)
  <2>1. 1 \in 1 .. Len(p)
    BY <1>1, <1>5
  <2>2. ASSUME Holds(stats[m], p[1].id) PROVE Unsafe(p)'
    <3>1. p[1].id \in abandoned'
      BY <1>0, <1>5, <2>2 DEF Holds, AllDead
    <3> QED
      BY <1>1, <2>1, <3>1 DEF Unsafe
  <2> QED
    BY <1>2, <2>1, <2>2
<1>6. CASE m \in active /\ IsPrefix(stats[m], mem[c][m])
  <2>0. Listed[m] = stats[m]
    BY <1>6, ListedTyped
  <2>1. /\ Len(stats[m]) <= Len(mem[c][m]) /\ Len(stats[m]) \in Nat
        /\ DOMAIN stats[m] = 1 .. Len(stats[m])
        /\ \A i \in 1 .. Len(stats[m]) : stats[m][i] = mem[c][m][i]
    BY <1>0, <1>6, PrefixItems
  <2>2. CASE Len(p) <= Len(stats[m])
    <3>1. \A i \in 1 .. Len(p) : p[i] = stats[m][i]
      BY <1>1, <2>1, <2>2
    <3>2. IsPrefix(p, stats[m])
      BY <1>0, <2>2, <3>1, PrefixItems
    <3> QED
      BY <2>0, <3>2
  <2>3. CASE ~(Len(p) <= Len(stats[m]))
    <3> DEFINE k == Len(stats[m]) + 1
    <3>1. k \in 1 .. Len(p) /\ k \in 1 .. Len(mem[c][m])
      BY <1>1, <2>1, <2>3
    <3>2. CASE ~Holds(stats[m], p[k].id)
      BY <1>2, <3>1, <3>2
    <3>3. CASE Holds(stats[m], p[k].id)
      <4>1. PICK j \in 1 .. Len(stats[m]) : stats[m][j].id = p[k].id
        BY <2>1, <3>3 DEF Holds
      <4>2. j \in DOMAIN mem[c][m] /\ k \in DOMAIN mem[c][m] /\ j # k
        BY <1>1, <2>1, <3>1
      <4>3. mem[c][m][j].id = p[k].id /\ mem[c][m][k].id = p[k].id
        BY <1>1, <2>1, <3>1, <4>1
      <4>4. mem[c][m] \in Copies
        BY DEF Copies
      <4>5. ~OnceIn(mem[c][m], p[k].id)
        BY <4>2, <4>3 DEF OnceIn
      <4>6. p[k].id \in Excused \cup {NoId}
        <5>1. p[k].id \in EventIds \cup {NoId}
          BY <1>1, <3>1 DEF Event
        <5> QED
          BY <4>4, <4>5, <5>1 DEF CountedOnce
      <4> QED
        BY <1>0, <1>1, <3>1, <4>6 DEF Unsafe
    <3> QED
      BY <3>2, <3>3
  <2> QED
    BY <2>2, <2>3
<1> QED
  BY <1>3, <1>4, <1>5, <1>6 DEF Covers

\* The record of a snapshot on match-stats.
Announcement(c) == [match |-> Msg(c).match, events |-> mem[c][Msg(c).match]]

\* A replica that runs keeps running without a crash, and each of its steps
\* adds an event to its memory, or publishes what is in it, or does neither.
LEMMA RunningStep ==
    ASSUME TypedHand, [Next]_vars, NEW c \in Consumers, ~Crash(c),
           \A d \in Consumers : d = c, Running(c)
    PROVE  /\ Running(c)'
           /\ \/ UNCHANGED <<mem, published>>
              \/ /\ Msg(c) \in Event /\ Msg(c).match \in Matches
                 /\ mem' = [mem EXCEPT ![c][Msg(c).match] = Append(@, Msg(c))]
                 /\ published' = published
              \/ /\ Msg(c) \in Event /\ Msg(c).match \in Matches
                 /\ mem' = mem
                 /\ published' = Append(published, Announcement(c))
<1>0. pc \in [Consumers -> Labels] /\ pc[c] \notin {"down", "load"}
  BY DEF TypedHand, TypeOK, ReplicaOK, Running
<1>1. CASE UNCHANGED <<pc, mem, published>>
  BY <1>1 DEF Running
<1>2. CASE Apply(c)
  <2>1. Msg(c) \in Event /\ Msg(c).match \in Matches
    BY <1>2, InHandTyped DEF Apply
  <2>2. Running(c)'
    BY <1>0, <1>2 DEF Apply, Goto, PersistOrder, Running
  <2> QED
    BY <1>2, <2>1, <2>2 DEF Apply, outVars
<1>3. CASE Publish(c)
  <2>1. Msg(c) \in Event /\ Msg(c).match \in Matches
    BY <1>3, InHandTyped DEF Publish
  <2>2. Running(c)'
    BY <1>0, <1>3 DEF Publish, Goto, PersistOrder, Running
  <2>3. mem' = mem /\ published' \in {published, Append(published, Announcement(c))}
    BY <1>3 DEF Publish, Snapshot, Announcement
  <2> QED
    BY <2>1, <2>2, <2>3
<1>4. CASE \/ FetchMessage(c) \/ Reserve(c) \/ Inspect(c) \/ RouteToDLQ(c)
           \/ CommitMessages(c)
  <2>1. Running(c)'
    BY <1>0, <1>4 DEF FetchMessage, FetchWith, Reserve, Inspect, RouteToDLQ,
       CommitMessages, Goto, FailOpen, Dispatch, OnReservation, OnReserveError, Running
  <2>2. UNCHANGED <<mem, published>>
    BY <1>4 DEF FetchMessage, FetchWith, Reserve, Inspect, RouteToDLQ,
       CommitMessages, outVars
  <2> QED
    BY <2>1, <2>2
<1>5. CASE Mark(c) \/ SetStats(c) \/ SetLatest(c) \/ AddActiveMatch(c)
  <2>1. Running(c)'
    BY <1>0, <1>5 DEF Mark, SetStats, SetLatest, AddActiveMatch, Goto, PersistOrder,
       Running
  <2>2. UNCHANGED <<mem, published>>
    BY <1>5 DEF Mark, SetStats, SetLatest, AddActiveMatch, outVars
  <2> QED
    BY <2>1, <2>2
<1>6. CASE \/ \E msg \in Messages : Produce(msg)
           \/ \E id \in EventIds : Expire(id)
           \/ Join(c) \/ Rebalance(c) \/ FlushCommit(c)
           \/ UNCHANGED vars
  <2>1. UNCHANGED <<pc, mem, published>>
    BY <1>6 DEF Produce, Expire, Join, Rebalance, NewGeneration, FlushCommit, vars,
       outVars
  <2> QED
    BY <1>1, <2>1
<1>7. ~Start(c) /\ ~LoadMatch(c) /\ ~StartReading(c)
  BY <1>0 DEF Start, LoadMatch, StartReading
<1>8. \/ Apply(c) \/ Publish(c)
      \/ FetchMessage(c) \/ Reserve(c) \/ Inspect(c) \/ RouteToDLQ(c)
      \/ CommitMessages(c)
      \/ Mark(c) \/ SetStats(c) \/ SetLatest(c) \/ AddActiveMatch(c)
      \/ \E msg \in Messages : Produce(msg)
      \/ \E id \in EventIds : Expire(id)
      \/ Join(c) \/ Rebalance(c) \/ FlushCommit(c)
      \/ UNCHANGED vars
  BY <1>7 DEF Next, Step
<1> QED
  BY <1>2, <1>3, <1>4, <1>5, <1>6, <1>8

\* A replica that does not run publishes nothing, and restores what readers
\* find.
LEMMA IdleStep ==
    ASSUME TypedHand, MemInv, faults["restore"] = 0, [Next]_vars,
           NEW c \in Consumers, ~Crash(c), \A d \in Consumers : d = c, ~Running(c)
    PROVE  /\ published' = published
           /\ \A m \in Matches : Resumes(c, m)' = Resumes(c, m)
<1>0. /\ pc \in [Consumers -> Labels] /\ mem \in [Consumers -> [Matches -> Seq(Event)]]
      /\ toLoad \in [Consumers -> SUBSET Matches] /\ stats \in [Matches -> Seq(Event)]
      /\ active \subseteq Matches /\ pc[c] \in {"down", "load"}
  BY DEF TypedHand, TypeOK, ReplicaOK, RedisOK, Running
<1>1. CASE Start(c)
  <2>1. /\ pc[c] = "down" /\ pc'[c] = "load" /\ toLoad'[c] = active
        /\ UNCHANGED <<stats, active, mem, published>>
    BY <1>0, <1>1 DEF Start, Goto, Spend, redisVars, outVars
  <2>2. \A m \in Matches : mem[c][m] = <<>>
    BY <2>1 DEF MemInv, Empty
  <2> QED
    BY <2>1, <2>2 DEF Resumes, Running, Listed
<1>2. CASE LoadMatch(c)
  <2>1. PICK n \in toLoad[c] : /\ toLoad' = [toLoad EXCEPT ![c] = @ \ {n}]
                               /\ mem' = [mem EXCEPT ![c][n] = stats[n]]
    <3>1. ~Spend("restore")
      BY DEF Spend
    <3> QED
      BY <1>2, <3>1 DEF LoadMatch, Restored
  <2>2. pc[c] = "load" /\ UNCHANGED <<pc, stats, active, published>> /\ n \in active
    BY <1>0, <1>2, <2>1 DEF LoadMatch, redisVars, outVars, MemInv
  <2>3. /\ toLoad'[c] = toLoad[c] \ {n} /\ n \in Matches /\ mem'[c][n] = stats[n]
        /\ \A m \in Matches : m # n => mem'[c][m] = mem[c][m]
    BY <1>0, <2>1, <2>2
  <2> QED
    BY <2>1, <2>2, <2>3 DEF Resumes, Running, Listed
<1>3. CASE StartReading(c)
  <2>1. /\ pc[c] = "load" /\ toLoad[c] = {} /\ pc'[c] = "fetch"
        /\ UNCHANGED <<stats, active, mem, published>>
    BY <1>0, <1>3 DEF StartReading, Goto, redisVars, outVars
  <2> QED
    BY <2>1 DEF Resumes, Running
<1>4. CASE \/ \E msg \in Messages : Produce(msg)
           \/ \E id \in EventIds : Expire(id)
           \/ FlushCommit(c)
           \/ UNCHANGED vars
  <2>1. UNCHANGED <<pc, mem, toLoad, stats, active, published>>
    BY <1>4 DEF Produce, Expire, FlushCommit, vars, redisVars, outVars
  <2> QED
    BY <2>1 DEF Resumes, Running, Listed
<1>5. ~Join(c) /\ ~Rebalance(c) /\ \A d \in Consumers : d = c
  BY DEF Join, Rebalance
<1>6. Step(c) => LoadMatch(c) \/ StartReading(c)
  BY <1>0 DEF Step, FetchMessage, FetchWith, Reserve, Inspect, Apply, Mark, SetStats,
     SetLatest, AddActiveMatch, Publish, RouteToDLQ, CommitMessages
<1> QED
  BY <1>1, <1>2, <1>3, <1>4, <1>5, <1>6 DEF Next

\* The aggregate that a running replica has of a match only grows.
LEMMA MemoryGrows ==
    ASSUME TypedHand, NEW c \in Consumers, NEW m \in Matches,
           \/ mem' = mem
           \/ /\ Msg(c) \in Event /\ Msg(c).match \in Matches
              /\ mem' = [mem EXCEPT ![c][Msg(c).match] = Append(@, Msg(c))]
    PROVE  IsPrefix(mem[c][m], mem'[c][m])
<1>1. mem \in [Consumers -> [Matches -> Seq(Event)]] /\ mem[c][m] \in Seq(Event)
  BY DEF TypedHand, TypeOK, ReplicaOK
<1>2. IsPrefix(mem[c][m], mem[c][m])
  BY <1>1, PrefixItems
<1>3. CASE mem' = mem
  BY <1>2, <1>3
<1>4. CASE /\ Msg(c) \in Event /\ Msg(c).match \in Matches
           /\ mem' = [mem EXCEPT ![c][Msg(c).match] = Append(@, Msg(c))]
  <2>1. IsPrefix(mem[c][m], Append(mem[c][m], Msg(c)))
    BY <1>1, <1>4, PrefixOfAppend
  <2>2. mem'[c][m] \in {mem[c][m], Append(mem[c][m], Msg(c))}
    <3>1. CASE m = Msg(c).match
      BY <1>1, <1>4, <3>1
    <3>2. CASE m # Msg(c).match
      BY <1>1, <1>4, <3>2
    <3> QED
      BY <3>1, <3>2
  <2> QED
    BY <1>2, <2>1, <2>2
<1> QED
  BY <1>3, <1>4

\* Whatever the step, what was part of what the next snapshot is made from
\* stays part of it, or may have died.
LEMMA StaysRemembered ==
    ASSUME TypedHand, TypedHand', MemInv, CountedOnce, faults["restore"] = 0,
           [Next]_vars, NEW c \in Consumers, \A d \in Consumers : d = c,
           NEW m \in Matches, NEW p \in Seq(Event), IsPrefix(p, Resumes(c, m))
    PROVE  IsPrefix(p, Resumes(c, m)') \/ Unsafe(p)'
<1>1. CASE Crash(c)
  <2>1. Resumes(c, m)' = Listed[m]
    BY <1>1 DEF Crash, Goto, Resumes, Running, Listed, redisVars, TypedHand, TypeOK,
       ReplicaOK
  <2>2. CASE Running(c) \/ (pc[c] = "load" /\ m \notin toLoad[c])
    <3>1. Covers(c, m) /\ IsPrefix(p, mem[c][m])
      BY <2>2 DEF MemInv, Resumes
    <3> QED
      BY <1>1, <2>1, <3>1, CrashResumes
  <2>3. CASE ~(Running(c) \/ (pc[c] = "load" /\ m \notin toLoad[c]))
    BY <2>1, <2>3 DEF Resumes
  <2> QED
    BY <2>2, <2>3
<1>2. CASE ~Crash(c) /\ ~Running(c)
  BY <1>2, IdleStep
<1>3. CASE ~Crash(c) /\ Running(c)
  <2>1. Running(c)' /\ IsPrefix(mem[c][m], mem'[c][m])
    BY <1>3, RunningStep, MemoryGrows
  <2>2. Resumes(c, m) = mem[c][m] /\ Resumes(c, m)' = mem'[c][m]
    BY <1>3, <2>1 DEF Resumes
  <2>3. Resumes(c, m) \in Seq(Event) /\ Resumes(c, m)' \in Seq(Event)
    BY <2>2, ResumesTyped DEF TypedHand, TypeOK, ReplicaOK
  <2> QED
    BY <2>1, <2>2, <2>3, PrefixTrans
<1> QED
  BY <1>1, <1>2, <1>3

\* A step publishes nothing, or what the replica remembers.
LEMMA PublishedStep ==
    ASSUME TypedHand, MemInv, faults["restore"] = 0, [Next]_vars,
           NEW c \in Consumers, \A d \in Consumers : d = c
    PROVE  \/ published' = published
           \/ \E m \in Matches :
                /\ published' = Append(published, [match |-> m, events |-> mem[c][m]])
                /\ Resumes(c, m) = mem[c][m] /\ Resumes(c, m)' = mem[c][m]
<1>1. CASE Crash(c)
  BY <1>1 DEF Crash, outVars
<1>2. CASE ~Crash(c) /\ ~Running(c)
  BY <1>2, IdleStep
<1>3. CASE ~Crash(c) /\ Running(c)
  <2>1. PICK m : m = Msg(c).match
    OBVIOUS
  <2>2. /\ Running(c)'
        /\ \/ published' = published
           \/ /\ m \in Matches /\ mem' = mem
              /\ published' = Append(published, [match |-> m, events |-> mem[c][m]])
    BY <1>3, <2>1, RunningStep DEF Announcement
  <2> QED
    BY <1>3, <2>2 DEF Resumes
<1> QED
  BY <1>1, <1>2, <1>3

LEMMA RememberStep ==
    ASSUME TypedHand, TypedHand', MemInv, CountedOnce, faults["restore"] = 0,
           [Next]_vars, \A c, d \in Consumers : c = d,
           RememberInv, FeedLosesOnlyTheDead
    PROVE  RememberInv' /\ FeedLosesOnlyTheDead'
<1>0. published \in Seq([match : Matches, events : Seq(Event)])
  BY DEF TypedHand, TypeOK, OutOK
<1>a. \A i \in DOMAIN published :
        published[i].match \in Matches /\ published[i].events \in Seq(Event)
  <2>1. \A S : \A q \in Seq(S) : \A k \in DOMAIN q : q[k] \in S
    OBVIOUS
  <2>2. \A i \in DOMAIN published : published[i] \in [match : Matches, events : Seq(Event)]
    BY <1>0, <2>1, Zenon
  <2> QED
    BY <2>2
\* What is exempt stays exempt.
<1>b. ASSUME NEW i \in DOMAIN published, published'[i] = published[i],
             Unsafe(published[i].events)
      PROVE  Unsafe(published[i].events)'
  <2>1. PICK p : p = published[i].events
    OBVIOUS
  <2>2. Unsafe(p)'
    BY <1>b, <2>1, UnsafeStays
  <2> QED
    BY <1>b, <2>1, <2>2 DEF Unsafe
\* What was remembered is remembered.
<1>c. ASSUME NEW c \in Consumers, NEW i \in DOMAIN published, published'[i] = published[i]
      PROVE  \A m \in Matches : published[i].match = m =>
                \/ IsPrefix(published[i].events, Resumes(c, m)')
                \/ Unsafe(published[i].events)'
  <2> SUFFICES ASSUME NEW m \in Matches, published[i].match = m,
                      ~Unsafe(published[i].events)'
               PROVE  IsPrefix(published[i].events, Resumes(c, m)')
    OBVIOUS
  <2>1. PICK p \in Seq(Event) : p = published[i].events
    BY <1>a
  <2>2. IsPrefix(p, Resumes(c, m))
    BY <1>b, <1>c, <2>1 DEF RememberInv
  <2>3. ~Unsafe(p)'
    BY <1>c, <2>1 DEF Unsafe
  <2> QED
    BY <2>1, <2>2, <2>3, StaysRemembered
<1>1. CASE published' = published
  <2>1. RememberInv'
    BY <1>1, <1>c DEF RememberInv
  <2>2. FeedLosesOnlyTheDead'
    BY <1>1, <1>b DEF FeedLosesOnlyTheDead
  <2> QED
    BY <2>1, <2>2
<1>2. ASSUME NEW c \in Consumers, NEW m \in Matches,
             published' = Append(published, [match |-> m, events |-> mem[c][m]]),
             Resumes(c, m) = mem[c][m], Resumes(c, m)' = mem[c][m]
      PROVE  RememberInv' /\ FeedLosesOnlyTheDead'
  <2> DEFINE rec == [match |-> m, events |-> mem[c][m]]
             last == Len(published) + 1
  <2>1. /\ rec.match = m /\ rec.events = mem[c][m] /\ mem[c][m] \in Seq(Event)
        /\ published' = Append(published, rec)
    BY <1>2 DEF TypedHand, TypeOK, ReplicaOK
  <2> HIDE DEF rec
  <2>2. /\ DOMAIN published' = DOMAIN published \cup {last}
        /\ last \notin DOMAIN published
        /\ \A i \in DOMAIN published : published'[i] = published[i] /\ i \in Nat /\ i < last
        /\ published'[last] = rec /\ last \in Nat
    BY <1>0, <2>1
  <2> HIDE DEF last
  <2>3. IsPrefix(mem[c][m], mem[c][m])
    BY <2>1, PrefixItems
  <2>4. RememberInv'
    <3> SUFFICES ASSUME NEW d \in Consumers, NEW n \in Matches,
                        NEW i \in DOMAIN published', published'[i].match = n
                 PROVE  \/ IsPrefix(published'[i].events, Resumes(d, n)')
                        \/ Unsafe(published[i].events)'
      BY DEF RememberInv
    <3>1. CASE i \in DOMAIN published
      BY <1>c, <2>2, <3>1
    <3>2. CASE i = last
      <4>1. d = c /\ n = m
        BY <2>1, <2>2, <3>2
      <4> QED
        BY <1>2, <2>1, <2>2, <2>3, <3>2, <4>1
    <3> QED
      BY <2>2, <3>1, <3>2
  <2>5. FeedLosesOnlyTheDead'
    <3> SUFFICES ASSUME NEW i \in DOMAIN published', NEW j \in DOMAIN published', i < j,
                        published'[i].match = published'[j].match
                 PROVE  \/ IsPrefix(published'[i].events, published'[j].events)
                        \/ Unsafe(published[i].events)'
      BY DEF FeedLosesOnlyTheDead
    <3>1. i \in DOMAIN published /\ published'[i] = published[i]
      BY <2>2
    <3>2. CASE j \in DOMAIN published
      BY <1>b, <2>2, <3>1, <3>2 DEF FeedLosesOnlyTheDead
    <3>3. CASE j = last
      BY <1>2, <1>c, <2>1, <2>2, <3>1, <3>3
    <3> QED
      BY <2>2, <3>2, <3>3
  <2> QED
    BY <2>4, <2>5
<1>3. CASE Consumers = {}
  <2>1. published' = published
    BY <1>3 DEF Next, Produce, Expire, vars, outVars
  <2> QED
    BY <1>1, <2>1
<1> QED
  BY <1>1, <1>2, <1>3, PublishedStep

\* What subscribers of match-stats may rely on while calls to Redis fail and
\* replicas die, any number of times: a snapshot lacks an event of an earlier
\* one only if that one held an event that died with a replica or that
\* deduplication could not know.  A write that failed is not enough, nor a
\* restart: the first is in the memory, and what the second does not find is
\* given up by name.
THEOREM FeedLosesNothingElse ==
    ASSUME Restoring PROVE Spec => []FeedLosesOnlyTheDead
<1> DEFINE Facts == MemFacts /\ DedupeInv
           Inv == RememberInv /\ FeedLosesOnlyTheDead
<1>1. Init => Inv
  <2>1. Init => DOMAIN published = {}
    BY DEF Init
  <2> QED
    BY <2>1 DEF RememberInv, FeedLosesOnlyTheDead
<1>2. Facts /\ Facts' /\ Inv /\ [Next]_vars => Inv'
  BY RememberStep DEF MemFacts, DedupeInv, Restoring
<1>3. Spec => []Facts
  BY MemFactsHold, DedupeInvariant, PTL
<1> QED
  BY <1>1, <1>2, <1>3, PTL DEF Spec

\* No replica dies, and no reservation is repeated by the client library.
\* Everything else may fail as before.
NothingDies == MaxFaults["crash"] = 0 /\ MaxFaults["retry"] = 0

NoneAbandoned == abandoned = {} /\ faults["crash"] = 0 /\ faults["retry"] = 0

LEMMA NoneAbandonedStep ==
    ASSUME TypedHand, NoneAbandoned, [Next]_vars PROVE NoneAbandoned'
<1>1. "crash" \in FaultKinds /\ "retry" \in FaultKinds
  BY DEF FaultKinds
<1>2. faults'["crash"] = 0 /\ faults'["retry"] = 0
  BY <1>1, BudgetStep DEF NoneAbandoned
<1>3. ~Spend("crash") /\ ~Spend("retry")
  BY <1>1, BudgetStep DEF NoneAbandoned
<1>4. ASSUME NEW c \in Consumers, Step(c) PROVE UNCHANGED abandoned
  <2>1. CASE Reserve(c)
    BY <2>1, <1>3 DEF Reserve
  <2>2. CASE Inspect(c)
    BY <2>2 DEF Inspect
  <2>3. CASE LoadMatch(c) \/ StartReading(c) \/ FetchMessage(c) \/ Apply(c)
    BY <2>3 DEF LoadMatch, StartReading, FetchMessage, FetchWith, Apply, historyVars
  <2>4. CASE Mark(c) \/ SetStats(c) \/ SetLatest(c) \/ AddActiveMatch(c)
    BY <2>4 DEF Mark, SetStats, SetLatest, AddActiveMatch, historyVars
  <2>5. CASE Publish(c) \/ RouteToDLQ(c) \/ CommitMessages(c)
    BY <2>5 DEF Publish, RouteToDLQ, CommitMessages, historyVars
  <2> QED
    BY <1>4, <2>1, <2>2, <2>3, <2>4, <2>5 DEF Step
<1>5. ASSUME NEW c \in Consumers,
             Start(c) \/ Join(c) \/ Rebalance(c) \/ FlushCommit(c) \/ Crash(c)
      PROVE  UNCHANGED abandoned
  BY <1>3, <1>5 DEF Start, Join, Rebalance, NewGeneration, FlushCommit, Crash, historyVars
<1>6. ASSUME NEW msg \in Messages, Produce(msg) PROVE UNCHANGED abandoned
  BY <1>6 DEF Produce, historyVars
<1>7. ASSUME NEW id \in EventIds, Expire(id) PROVE UNCHANGED abandoned
  BY <1>7 DEF Expire
<1>8. UNCHANGED abandoned
  BY <1>4, <1>5, <1>6, <1>7 DEF Next, vars, historyVars
<1> QED
  BY <1>2, <1>8 DEF NoneAbandoned

LEMMA NoneAbandonedHolds ==
    ASSUME NothingDies PROVE Spec => [](TypedHand /\ NoneAbandoned)
<1>1. Init => TypedHand /\ NoneAbandoned
  BY InitTyped DEF Init, NoneAbandoned, NothingDies
<1>2. TypedHand /\ NoneAbandoned /\ [Next]_vars => (TypedHand /\ NoneAbandoned)'
  BY NextTyped, NoneAbandonedStep
<1> QED
  BY <1>1, <1>2, PTL DEF Spec

\* A committed event is in an aggregate, as docs/architecture.md has it, as long
\* as nothing dies: the crash of the run lost_on_crash is all that it takes to
\* lose one, and failed calls, expiries and rebalances are not enough.
THEOREM CountedUnlessACrash ==
    ASSUME Restoring, UniqueIds, NothingDies PROVE Spec => []CommittedIsCounted
<1>1. LossWindow /\ NoneAbandoned => CommittedIsCounted
  BY DEF LossWindow, NoneAbandoned, CommittedIsCounted
<1> QED
  BY OnlyCrashesLose, NoneAbandonedHolds, <1>1, PTL

\* With nothing in hand, what a reader finds of the listed matches has every
\* processed event, when one replica reaches Redis and nothing dies: it takes
\* the second replica of the run handover to leave one out.
THEOREM QuietSnapshotIsComplete ==
    ASSUME Reliable, UniqueIds, NothingDies
    PROVE  Spec => []QuiescentSnapshotComplete
<1>1. Restoring
  BY DEF Restoring, Reliable
<1>2. TypedHand /\ NoneAbandoned /\ FeedInv /\ ProcessedIsCounted
        => QuiescentSnapshotComplete
  <2> SUFFICES ASSUME TypedHand, NoneAbandoned, FeedInv, ProcessedIsCounted,
                      \A c \in Consumers : pc[c] \in {"down", "fetch"},
                      NEW id \in EventIds, dedupe[id] = "processed"
               PROVE  \E m \in Matches : Holds(stats[m], id)
    BY DEF QuiescentSnapshotComplete
  <2>1. PICK m \in Matches : \/ Holds(stats[m], id)
                            \/ \E c \in Consumers : Holds(mem[c][m], id)
    BY DEF ProcessedIsCounted, NoneAbandoned
  <2>2. ASSUME NEW c \in Consumers, Holds(mem[c][m], id)
        PROVE  Holds(stats[m], id)
    <3>1. InStep(c) /\ pc[c] \in {"down", "fetch"}
      BY DEF FeedInv
    <3>2. ~Holds(<<>>, id)
      BY DEF Holds
    <3>3. pc[c] # "down"
      BY <2>2, <3>1, <3>2 DEF InStep, Empty
    <3>4. mem[c][m] = Listed[m]
      BY <3>1, <3>3 DEF InStep, Synced
    <3> QED
      BY <2>2, <3>2, <3>4, ListedTyped
  <2> QED
    BY <2>1, <2>2
<1> QED
  BY <1>1, <1>2, ProcessedAreCounted, ReplicaIsInStep, NoneAbandonedHolds, PTL
=============================================================================
