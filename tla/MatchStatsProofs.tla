-------------------------- MODULE MatchStatsProofs --------------------------
(***************************************************************************)
(* What holds of the aggregate for every set of teams and events and       *)
(* matches of any length: its type, where its teams come from, and that    *)
(* every counter is the tally of its history, whatever the order of the    *)
(* events; and, when they are those of a simulated match, how far the      *)
(* counters of consequences can exceed those of their causes.              *)
(***************************************************************************)
EXTENDS MatchSimulator, FiniteSetTheorems, FunctionTheorems,
        WellFoundedInduction, TLAPS

\* The aggregate that an event makes of another.
LEMMA Applied ==
    ASSUME NEW a \in Stats, NEW ev \in MatchEvent, NEW b, b = ApplyEvent(a, ev)
    PROVE  LET t == LearnTeams(a, ev) IN
           /\ t \in Stats
           /\ t.events = a.events /\ t.count = a.count
           /\ b \in Stats
           /\ b.home = t.home /\ b.away = t.away
           /\ b.events = Append(a.events, ev)
           /\ \A s \in Sides, k \in Counters :
                 b.count[s][k] =
                    IF s = Side(ev, t.home) /\ k \in Bumped(ev)
                    THEN a.count[s][k] + 1 ELSE a.count[s][k]
<1> DEFINE t == LearnTeams(a, ev)
           side == Side(ev, t.home)
           bumped == [k \in Counters |->
                        t.count[side][k] + IF k \in Bumped(ev) THEN 1 ELSE 0]
<1>1. t \in Stats /\ t.events = a.events /\ t.count = a.count
  BY TeamsAssumption DEF Stats, LearnTeams, MatchEvent
<1>2. side \in Sides
  BY DEF Side, Sides
<1>3. b = [t EXCEPT !.count[side] = bumped,
                      !.minute = ev.minute,
                      !.events = Append(@, ev)]
  BY DEF ApplyEvent
<1> HIDE DEF t, side
<1>4. bumped \in [Counters -> Nat]
  BY <1>1, <1>2 DEF Stats
<1>5. Append(t.events, ev) \in Seq(MatchEvent) /\ ev.minute \in Nat
  BY <1>1 DEF Stats, MatchEvent
<1> DEFINE counts == [t.count EXCEPT ![side] = bumped]
<1>c. counts \in [Sides -> [Counters -> Nat]]
  <2> HIDE DEF bumped
  <2> QED
    BY <1>1, <1>2, <1>4 DEF Stats
<1>d. b = [home |-> t.home, away |-> t.away, minute |-> ev.minute,
             count |-> counts, events |-> Append(t.events, ev)]
  <2> HIDE DEF bumped
  <2> QED
    BY <1>1, <1>2, <1>3 DEF Stats
<1>6. b \in Stats /\ b.home = t.home /\ b.away = t.away
      /\ b.events = Append(t.events, ev)
      /\ b.count = counts
  <2> HIDE DEF counts, bumped
  <2>1. t.home \in Teams \cup {NoTeam} /\ t.away \in Teams \cup {NoTeam}
    BY <1>1 DEF Stats
  <2> QED
    BY <1>c, <1>d, <1>5, <2>1 DEF Stats
<1>7. ASSUME NEW s \in Sides, NEW k \in Counters
      PROVE  b.count[s][k] = IF s = side /\ k \in Bumped(ev)
                               THEN a.count[s][k] + 1 ELSE a.count[s][k]
  <2>1. t.count[side][k] \in Nat /\ t.count = a.count
    BY <1>1, <1>2 DEF Stats
  <2>2. counts[s][k] = IF s = side THEN bumped[k] ELSE t.count[s][k]
    BY <1>1, <1>2, <1>4 DEF Stats
  <2> QED
    BY <1>6, <2>1, <2>2
<1> QED
  BY <1>1, <1>6, <1>7 DEF t, side

\* The aggregate keeps its type, whatever is folded in.
THEOREM TypeCorrect == Spec => []TypeOK
<1>1. Init => TypeOK
  <2> SUFFICES ASSUME Init PROVE ms \in Stats
    BY DEF TypeOK
  <2>1. <<>> \in Seq(MatchEvent)
    OBVIOUS
  <2> QED
    BY <2>1 DEF Init, NewStats, Stats
<1>2. TypeOK /\ [Next]_vars => TypeOK'
  <2> SUFFICES ASSUME TypeOK, [Next]_vars PROVE TypeOK'
    OBVIOUS
  <2>1. CASE Next
    <3>1. PICK ev \in Events : Receive(ev)
      BY <2>1 DEF Next
    <3> QED
      BY <3>1, Applied, EventsAssumption DEF Receive, TypeOK
  <2>2. CASE UNCHANGED vars
    BY <2>2 DEF vars, TypeOK
  <2> QED
    BY <2>1, <2>2
<1> QED
  BY <1>1, <1>2, PTL DEF Spec

-----------------------------------------------------------------------------
(* Teams *)

\* TeamsFromHistory of any aggregate.
LearnedOf(s) ==
    LET Named(i) == s.events[i].team
        n == Len(s.events)
    IN  /\ s.home # NoTeam =>
             \E i \in 1 .. n : /\ Named(i) = s.home
                              /\ \A j \in 1 .. i - 1 : Named(j) = NoTeam
        /\ s.home = NoTeam => \A i \in 1 .. n : Named(i) = NoTeam
        /\ s.away # NoTeam =>
             \E i \in 1 .. n : /\ Named(i) = s.away /\ s.away # s.home
                              /\ \A j \in 1 .. i - 1 : Named(j) \in {NoTeam, s.home}
        /\ s.away = NoTeam => \A i \in 1 .. n : Named(i) \in {NoTeam, s.home}

LEMMA InitTeams == Init => TeamsFromHistory
  BY DEF Init, NewStats, TeamsFromHistory

\* An event teaches the first unknown team and never changes a known one.
LEMMA AppliedTeams ==
    ASSUME NEW a \in Stats, LearnedOf(a),
           NEW ev \in MatchEvent, NEW b, b = ApplyEvent(a, ev)
    PROVE  LearnedOf(b)
<1> DEFINE n == Len(a.events)
           t == LearnTeams(a, ev)
<1>1. /\ t \in Stats
      /\ b.home = t.home /\ b.away = t.away
      /\ b.events = Append(a.events, ev)
  BY Applied
<1>2. a \in Stats /\ n \in Nat
  BY DEF Stats
<1>3. /\ Len(b.events) = n + 1
      /\ \A i \in 1 .. n : b.events[i] = a.events[i]
      /\ b.events[n + 1] = ev
  BY <1>1, <1>2 DEF Stats
<1>4. ev.team \in Teams \cup {NoTeam}
  BY DEF MatchEvent
<1> DEFINE First(events, m, team, before) ==
             \E i \in 1 .. m : /\ events[i].team = team
                              /\ \A j \in 1 .. i - 1 : events[j].team \in before
           Only(events, m, teams) == \A i \in 1 .. m : events[i].team \in teams
           Good(s, m) ==
             /\ s.home # NoTeam => First(s.events, m, s.home, {NoTeam})
             /\ s.home = NoTeam => Only(s.events, m, {NoTeam})
             /\ s.away # NoTeam => /\ First(s.events, m, s.away, {NoTeam, s.home})
                                   /\ s.away # s.home
             /\ s.away = NoTeam => Only(s.events, m, {NoTeam, s.home})
\* What the history shows of its first events stays as it grows.
<1>a. ASSUME NEW team, NEW before, First(a.events, n, team, before)
      PROVE  First(b.events, n + 1, team, before)
  <2>1. PICK i \in 1 .. n : /\ a.events[i].team = team
                           /\ \A j \in 1 .. i - 1 : a.events[j].team \in before
    BY <1>a
  <2>2. i \in 1 .. n + 1 /\ \A j \in 1 .. i - 1 : j \in 1 .. n
    BY <1>2
  <2> HIDE DEF n
  <2> QED
    BY <1>3, <2>1, <2>2
\* Only known teams, and the new event is the first of its own.
<1>b. ASSUME NEW before, Only(a.events, n, before)
      PROVE  First(b.events, n + 1, ev.team, before)
  <2>1. n + 1 \in 1 .. n + 1 /\ (n + 1) - 1 = n
    BY <1>2
  <2> HIDE DEF n
  <2> QED
    BY <1>3, <1>b, <2>1
<1>c. ASSUME NEW before, Only(a.events, n, before), ev.team \in before
      PROVE  Only(b.events, n + 1, before)
  <2>1. \A i \in 1 .. n + 1 : i \in 1 .. n \/ i = n + 1
    BY <1>2
  <2> HIDE DEF n
  <2> QED
    BY <1>3, <1>c, <2>1
<1>g. Good(a, n)
  BY DEF LearnedOf
<1> HIDE DEF First, Only
<1>5. ASSUME ev.team = NoTeam PROVE Good(b, n + 1)
  <2>1. b.home = a.home /\ b.away = a.away
    BY <1>1, <1>5 DEF LearnTeams
  <2> QED
    BY <1>5, <2>1, <1>a, <1>c, <1>g
<1>6. ASSUME ev.team # NoTeam, a.home = NoTeam
      PROVE  Good(b, n + 1)
  <2>1. b.home = ev.team /\ b.away = a.away
    BY <1>1, <1>2, <1>6 DEF LearnTeams, Stats
  <2>2. a.away = NoTeam
    BY <1>6, <1>g DEF First, Only
  <2>3. First(b.events, n + 1, ev.team, {NoTeam})
    BY <1>6, <1>b, <1>g
  <2>4. Only(a.events, n, {NoTeam, ev.team})
    BY <1>6, <1>g DEF Only
  <2>5. Only(b.events, n + 1, {NoTeam, ev.team})
    BY <1>c, <2>4
  <2> QED
    BY <1>6, <2>1, <2>2, <2>3, <2>5
<1>7. ASSUME ev.team # NoTeam, a.home # NoTeam, a.away = NoTeam,
             ev.team # a.home
      PROVE  Good(b, n + 1)
  <2>1. b.home = a.home /\ b.away = ev.team
    BY <1>1, <1>2, <1>7 DEF LearnTeams, Stats
  <2> QED
    BY <1>7, <2>1, <1>a, <1>b, <1>g
<1>8. ASSUME ev.team # NoTeam, a.home # NoTeam,
             ~(a.away = NoTeam /\ ev.team # a.home)
      PROVE  Good(b, n + 1)
  <2>1. b.home = a.home /\ b.away = a.away
    BY <1>1, <1>8 DEF LearnTeams
  <2>2. CASE a.away = NoTeam
    <3>1. ev.team \in {NoTeam, a.home}
      BY <1>8, <2>2
    <3>2. Only(b.events, n + 1, {NoTeam, a.home})
      BY <1>c, <1>g, <2>2, <3>1
    <3> QED
      BY <1>8, <2>1, <2>2, <3>2, <1>a, <1>g
  <2>3. CASE a.away # NoTeam
    BY <1>8, <2>1, <2>3, <1>a, <1>g
  <2> QED
    BY <2>2, <2>3
<1>9. Good(b, n + 1)
  BY <1>5, <1>6, <1>7, <1>8
<1> QED
  <2> HIDE DEF n
  <2> QED
    BY <1>3, <1>9 DEF LearnedOf, First, Only

LEMMA ReceiveTeams ==
    ASSUME TypeOK, TeamsFromHistory,
           NEW ev \in MatchEvent, ms' = ApplyEvent(ms, ev)
    PROVE  TeamsFromHistory'
<1>1. ms \in Stats /\ LearnedOf(ms)
  BY DEF TypeOK, LearnedOf, TeamsFromHistory
<1>2. LearnedOf(ms')
  BY <1>1, AppliedTeams
<1> QED
  BY <1>2 DEF LearnedOf, TeamsFromHistory

\* Home is the first team named and away the first other one, for matches of
\* any length and events from any teams or none.
THEOREM TeamsInvariant == Spec => []TeamsFromHistory
<1>1. TypeOK /\ TeamsFromHistory /\ [Next]_vars => TeamsFromHistory'
  <2> SUFFICES ASSUME TypeOK, TeamsFromHistory, [Next]_vars
               PROVE  TeamsFromHistory'
    OBVIOUS
  <2>1. CASE Next
    <3>1. PICK ev \in Events : Receive(ev)
      BY <2>1 DEF Next
    <3> QED
      BY <3>1, ReceiveTeams, EventsAssumption DEF Receive
  <2>2. CASE UNCHANGED vars
    BY <2>2 DEF vars, TeamsFromHistory
  <2> QED
    BY <2>1, <2>2
<1> QED
  BY <1>1, InitTeams, TypeCorrect, PTL DEF Spec

-----------------------------------------------------------------------------
(* Counters *)

\* The positions of the history that count for the side.
Counted(s, side, k) ==
    {i \in DOMAIN s.events : /\ k \in Bumped(s.events[i])
                             /\ Side(s.events[i], s.home) = side}

\* CountersMatchHistory of any aggregate: its counters are the tally of its history.
Tallied(s) == \A side \in Sides : \A k \in Counters : s.count[side][k] = Tally(s, side, k)

LEMMA InitCounters == Init => CountersMatchHistory
<1> SUFFICES ASSUME Init, NEW side \in Sides, NEW k \in Counters
             PROVE  ms.count[side][k] = Tally(ms, side, k)
  BY DEF CountersMatchHistory
<1>1. ms.count[side][k] = 0 /\ ms.events = <<>>
  BY DEF Init, NewStats
<1>2. {i \in DOMAIN ms.events : /\ k \in Bumped(ms.events[i])
                                /\ Side(ms.events[i], ms.home) = side} = {}
  BY <1>1
<1> QED
  BY <1>1, <1>2, FS_EmptySet DEF Tally

\* An event is counted for the side it would be counted for later, and those
\* before it stay where they were counted: a team learned now was not named
\* before.
LEMMA AppliedCounters ==
    ASSUME NEW a \in Stats, LearnedOf(a), Tallied(a),
           NEW ev \in MatchEvent, NEW b, b = ApplyEvent(a, ev)
    PROVE  Tallied(b)
<1> SUFFICES ASSUME NEW side \in Sides, NEW k \in Counters
             PROVE  b.count[side][k] = Tally(b, side, k)
  BY DEF Tallied, Tally
<1> DEFINE n == Len(a.events)
           t == LearnTeams(a, ev)
           hit == side = Side(ev, t.home) /\ k \in Bumped(ev)
           old == Counted(a, side, k)
           new == Counted(b, side, k)
<1>1. /\ b.home = t.home
      /\ b.events = Append(a.events, ev)
      /\ b.count[side][k] = IF hit THEN a.count[side][k] + 1 ELSE a.count[side][k]
  BY Applied
<1>2. a \in Stats /\ n \in Nat /\ DOMAIN a.events = 1 .. n
  BY DEF Stats
<1>3. /\ DOMAIN b.events = 1 .. n + 1
      /\ \A i \in 1 .. n : b.events[i] = a.events[i]
      /\ b.events[n + 1] = ev
  BY <1>1, <1>2 DEF Stats
<1>4. \A i \in 1 .. n : Side(a.events[i], b.home) = Side(a.events[i], a.home)
  <2>1. CASE a.home = NoTeam
    BY <1>2, <2>1 DEF LearnedOf, Side
  <2>2. CASE a.home # NoTeam
    <3>1. b.home = a.home
      BY <1>1, <2>2 DEF LearnTeams
    <3> QED
      BY <3>1
  <2> QED
    BY <2>1, <2>2
<1>5. new = IF hit THEN old \cup {n + 1} ELSE old
  <2> HIDE DEF n, t
  <2>1. \A i \in 1 .. n : i \in new <=> i \in old
    BY <1>2, <1>3, <1>4 DEF Counted
  <2>2. n + 1 \in new <=> hit
    BY <1>1, <1>2, <1>3 DEF Counted
  <2>3. new \subseteq 1 .. n + 1 /\ old \subseteq 1 .. n
    BY <1>2, <1>3 DEF Counted
  <2>4. \A i \in 1 .. n + 1 : i \in 1 .. n \/ i = n + 1
    BY <1>2
  <2>5. n + 1 \notin 1 .. n
    BY <1>2
  <2>6. CASE hit
    <3>1. new = old \cup {n + 1}
      <4> HIDE DEF hit, old, new
      <4> QED
        BY <2>1, <2>2, <2>3, <2>4, <2>6
    <3> QED
      BY <2>6, <3>1
  <2>7. CASE ~hit
    <3>1. new = old
      <4> HIDE DEF hit, old, new
      <4> QED
        BY <2>1, <2>2, <2>3, <2>4, <2>5, <2>7
    <3> QED
      BY <2>7, <3>1
  <2> QED
    BY <2>6, <2>7
<1>6. IsFiniteSet(old) /\ n + 1 \notin old
  <2>1. old \subseteq 1 .. n
    BY <1>2 DEF Counted
  <2> HIDE DEF old, n
  <2>2. IsFiniteSet(1 .. n)
    <3>1. 1 \in Int /\ n \in Int
      BY <1>2
    <3> QED
      BY <3>1, FS_Interval
  <2>3. IsFiniteSet(old)
    BY <2>1, <2>2, FS_Subset
  <2>4. n + 1 \notin 1 .. n
    BY <1>2
  <2> QED
    BY <2>1, <2>3, <2>4
<1>7. a.count[side][k] = Cardinality(old)
  BY DEF Tallied, Tally, Counted
<1>8. Cardinality(new) = IF hit THEN Cardinality(old) + 1 ELSE Cardinality(old)
  <2> HIDE DEF hit, old, new, n
  <2> QED
    BY <1>5, <1>6, FS_AddElement
<1> QED
  BY <1>1, <1>7, <1>8 DEF Tally, Counted

LEMMA ReceiveCounters ==
    ASSUME TypeOK, TeamsFromHistory, CountersMatchHistory,
           NEW ev \in MatchEvent, ms' = ApplyEvent(ms, ev)
    PROVE  CountersMatchHistory'
<1>1. ms \in Stats /\ LearnedOf(ms) /\ Tallied(ms)
  BY DEF TypeOK, LearnedOf, TeamsFromHistory, Tallied, CountersMatchHistory
<1>2. Tallied(ms')
  BY <1>1, AppliedCounters
<1> QED
  BY <1>2 DEF Tallied, CountersMatchHistory, Tally

\* Every counter is the tally of the history, for every sequence of events:
\* no event is ever attributed to a side that a later lesson about the teams
\* contradicts.
THEOREM CountersInvariant == Spec => []CountersMatchHistory
<1>1. TypeOK /\ TeamsFromHistory /\ CountersMatchHistory /\ [Next]_vars
        => CountersMatchHistory'
  <2> SUFFICES ASSUME TypeOK, TeamsFromHistory, CountersMatchHistory,
                      [Next]_vars
               PROVE  CountersMatchHistory'
    OBVIOUS
  <2>1. CASE Next
    <3>1. PICK ev \in Events : Receive(ev)
      BY <2>1 DEF Next
    <3> QED
      BY <3>1, ReceiveCounters, EventsAssumption DEF Receive
  <2>2. CASE UNCHANGED vars
    BY <2>2 DEF vars, CountersMatchHistory, Tally
  <2> QED
    BY <2>1, <2>2
<1> QED
  BY <1>1, InitCounters, TypeCorrect, TeamsInvariant, PTL DEF Spec

\* b holds the events of a in the order p gives them.
Reordered(a, b, p) ==
    /\ p \in Bijection(DOMAIN a.events, DOMAIN b.events)
    /\ \A i \in DOMAIN a.events : b.events[p[i]] = a.events[i]

\* Two aggregates that CountersInvariant speaks of, reached by whatever steps,
\* agree on every counter when they hold the same events in any two orders and
\* have learned the same home team: what applyEvent counts does not depend on
\* the order in which a late request or a second partition delivers it.
THEOREM OrderDoesNotCount ==
    ASSUME NEW a \in Stats, NEW b \in Stats, Tallied(a), Tallied(b),
           a.home = b.home, NEW p, Reordered(a, b, p)
    PROVE  a.count = b.count
<1>1. ASSUME NEW side \in Sides, NEW k \in Counters
      PROVE  a.count[side][k] = b.count[side][k]
  <2> DEFINE S == {i \in DOMAIN a.events : /\ k \in Bumped(a.events[i])
                                           /\ Side(a.events[i], a.home) = side}
             T == {i \in DOMAIN b.events : /\ k \in Bumped(b.events[i])
                                           /\ Side(b.events[i], b.home) = side}
             f == [i \in S |-> p[i]]
  <2>1. /\ p \in [DOMAIN a.events -> DOMAIN b.events]
        /\ \A i, j \in DOMAIN a.events : p[i] = p[j] => i = j
        /\ \A j \in DOMAIN b.events : \E i \in DOMAIN a.events : p[i] = j
    BY Fun_BijectionProperties DEF Reordered
  <2>2. \A i \in DOMAIN a.events : b.events[p[i]] = a.events[i]
    BY DEF Reordered
  <2>3. S \subseteq DOMAIN a.events /\ T \subseteq DOMAIN b.events
    OBVIOUS
  <2>4. \A i \in DOMAIN a.events : i \in S <=> p[i] \in T
    BY <2>1, <2>2
  <2>5. IsFiniteSet(S)
    <3>1. DOMAIN a.events = 1 .. Len(a.events) /\ Len(a.events) \in Int /\ 1 \in Int
      BY DEF Stats
    <3> HIDE DEF S
    <3>2. IsFiniteSet(DOMAIN a.events)
      BY <3>1, FS_Interval
    <3> QED
      BY <2>3, <3>2, FS_Subset
  <2>6. f \in Bijection(S, T)
    <3> HIDE DEF S, T
    <3>1. f \in [S -> T] /\ \A i, j \in S : f[i] = f[j] => i = j
      BY <2>1, <2>3, <2>4
    <3>2. \A j \in T : \E i \in S : f[i] = j
      BY <2>1, <2>3, <2>4
    <3> HIDE DEF f
    <3> QED
      BY <3>1, <3>2, Fun_IsBij
  <2>7. Cardinality(S) = Cardinality(T)
    <3> HIDE DEF S, T, f
    <3> QED
      BY <2>5, <2>6, FS_Bijection DEF ExistsBijection
  <2>8. Tally(a, side, k) = Cardinality(S) /\ Tally(b, side, k) = Cardinality(T)
    BY DEF Tally
  <2> QED
    BY <2>7, <2>8 DEF Tallied
<1>2. a.count \in [Sides -> [Counters -> Nat]] /\ b.count \in [Sides -> [Counters -> Nat]]
  BY DEF Stats
<1>3. \A side \in Sides : a.count[side] = b.count[side]
  BY <1>1, <1>2
<1> QED
  BY <1>2, <1>3

-----------------------------------------------------------------------------
(* Folding a history *)

\* Induction, over a set instead of an operator: the least number that is not
\* in the set would follow one that is.
LEMMA InductionOverNat ==
    ASSUME NEW T, 0 \in T, \A n \in Nat : n \in T => n + 1 \in T
    PROVE  \A n \in Nat : n \in T
<1> DEFINE Less == OpToRel(<, Nat)
           Out == Nat \ T
<1> SUFFICES ASSUME Out # {} PROVE FALSE
  OBVIOUS
<1>1. PICK x \in Out : \A y \in Out : <<y, x>> \notin Less
  <2>1. IsWellFoundedOn(Less, Nat) /\ Out \subseteq Nat
    BY NatLessThanWellFounded
  <2> HIDE DEF Less, Out
  <2> QED
    BY <2>1, WFMin
<1>2. x \in Nat /\ x # 0 /\ x \notin T
  BY <1>1
<1>3. x - 1 \in Nat /\ x - 1 < x /\ (x - 1) + 1 = x
  BY <1>2
<1>4. <<x - 1, x>> \in Less
  BY <1>2, <1>3 DEF OpToRel
<1>5. x - 1 \in T
  <2> HIDE DEF Less
  <2> QED
    BY <1>1, <1>3, <1>4
<1> QED
  BY <1>2, <1>3, <1>5

\* One step of the fold: the events at the positions in S, the last one last.
FoldStep(g, t, S) ==
    IF S = {} THEN NewStats ELSE ApplyEvent(g[S \ {Max(S)}], t[Max(S)])

\* g folds the events of t at any positions in D.
Folds(g, t, D) == g = [S \in SUBSET D |-> FoldStep(g, t, S)]

\* FoldLeft is the value at all positions of a function that does so, if any.
LEMMA FoldLeftIs ==
    ASSUME NEW t
    PROVE  FoldLeft(ApplyEvent, NewStats, t) = (CHOOSE g : Folds(g, t, DOMAIN t))[DOMAIN t]
  BY DEF FoldLeft, MapThenFoldSet, Folds, FoldStep

LEMMA LastPosition ==
    ASSUME NEW n \in Nat, NEW S \in SUBSET (1 .. n + 1), n + 1 \in S
    PROVE  Max(S) = n + 1
<1>1. \A y \in S : n + 1 >= y
  OBVIOUS
<1>2. \A x \in S : (\A y \in S : x >= y) => x = n + 1
  OBVIOUS
<1>3. \E x \in S : \A y \in S : x >= y
  BY <1>1
<1> QED
  BY <1>2, <1>3 DEF Max

\* Such a function exists: from one for n positions, one for n + 1 is made.
LEMMA FoldExists ==
    ASSUME NEW t, NEW n \in Nat PROVE \E g : Folds(g, t, 1 .. n)
<1> DEFINE T == {k \in Nat : \E g : Folds(g, t, 1 .. k)}
<1>1. 0 \in T
  <2> DEFINE g == [S \in SUBSET (1 .. 0) |-> NewStats]
  <2>1. \A S \in SUBSET (1 .. 0) : S = {}
    OBVIOUS
  <2>2. \A S \in SUBSET (1 .. 0) : FoldStep(g, t, S) = NewStats
    BY <2>1 DEF FoldStep
  <2>3. g = [S \in SUBSET (1 .. 0) |-> FoldStep(g, t, S)]
    BY <2>2, Zenon
  <2> QED
    BY <2>3 DEF Folds
<1>2. ASSUME NEW k \in Nat, k \in T PROVE k + 1 \in T
  <2>1. PICK g : Folds(g, t, 1 .. k)
    BY <1>2
  <2> DEFINE h == [S \in SUBSET (1 .. k + 1) |->
                     IF k + 1 \in S THEN ApplyEvent(g[S \ {k + 1}], t[k + 1]) ELSE g[S]]
  <2>2. ASSUME NEW S \in SUBSET (1 .. k + 1) PROVE h[S] = FoldStep(h, t, S)
    <3>1. CASE k + 1 \in S
      <4>1. Max(S) = k + 1 /\ S # {}
        BY <3>1, LastPosition
      <4>2. S \ {k + 1} \in SUBSET (1 .. k + 1) /\ k + 1 \notin S \ {k + 1}
        OBVIOUS
      <4>3. h[S \ {k + 1}] = g[S \ {k + 1}]
        BY <4>2
      <4>4. h[S] = ApplyEvent(g[S \ {k + 1}], t[k + 1])
        BY <3>1
      <4> HIDE DEF h
      <4> QED
        BY <4>1, <4>3, <4>4 DEF FoldStep
    <3>2. CASE k + 1 \notin S
      <4>0. \A m : S \ {m} \in SUBSET (1 .. k + 1) /\ k + 1 \notin S \ {m}
        BY <3>2
      <4>1. S \in SUBSET (1 .. k) /\ S \ {Max(S)} \in SUBSET (1 .. k + 1)
            /\ k + 1 \notin S \ {Max(S)}
        <5>1. \A j \in 1 .. k + 1 : j # k + 1 => j \in 1 .. k
          OBVIOUS
        <5>2. S \in SUBSET (1 .. k)
          BY <3>2, <5>1, Zenon
        <5> QED
          BY <4>0, <5>2, Zenon
      <4>2. h[S] = g[S] /\ h[S \ {Max(S)}] = g[S \ {Max(S)}]
        BY <3>2, <4>1
      <4>3. g[S] = FoldStep(g, t, S)
        BY <2>1, <4>1, Zenon DEF Folds
      <4> HIDE DEF h
      <4> QED
        BY <4>2, <4>3 DEF FoldStep
    <3> QED
      BY <3>1, <3>2
  <2>3. h = [S \in SUBSET (1 .. k + 1) |-> h[S]]
    BY Zenon
  <2> HIDE DEF h
  <2>4. h = [S \in SUBSET (1 .. k + 1) |-> FoldStep(h, t, S)]
    BY <2>2, <2>3, Zenon
  <2> QED
    BY <2>4 DEF Folds
<1> HIDE DEF T
<1>3. n \in T
  BY <1>1, <1>2, InductionOverNat
<1> QED
  BY <1>3 DEF T

\* What CountersInvariant and TeamsInvariant say of the aggregate, said of the
\* aggregate of a given history.
Folded(s, history) ==
    s \in Stats /\ LearnedOf(s) /\ Tallied(s) /\ s.events = history

\* Folding a history from nothing yields what receiving its events one by one
\* does.
LEMMA FoldFolds ==
    ASSUME NEW t \in Seq(MatchEvent)
    PROVE  Folded(FoldLeft(ApplyEvent, NewStats, t), t)
<1> DEFINE n == Len(t)
           g == CHOOSE f : Folds(f, t, 1 .. n)
           T == {k \in Nat : k <= n => Folded(g[1 .. k], SubSeq(t, 1, k))}
<1>0. n \in Nat /\ DOMAIN t = 1 .. n
  OBVIOUS
<1>1. Folds(g, t, 1 .. n)
  <2>1. \E f : Folds(f, t, 1 .. n)
    BY <1>0, FoldExists
  <2> HIDE DEF n
  <2> QED
    BY <2>1, Zenon
<1> HIDE DEF g
<1>2. \A S \in SUBSET (1 .. n) : g[S] = FoldStep(g, t, S)
  <2> HIDE DEF n
  <2> QED
    BY <1>1, Zenon DEF Folds
<1>3. 0 \in T
  <2>1. g[1 .. 0] = NewStats
    <3>1. 1 .. 0 = {} /\ 1 .. 0 \in SUBSET (1 .. n)
      OBVIOUS
    <3> QED
      BY <1>2, <3>1 DEF FoldStep
  <2>2. SubSeq(t, 1, 0) = <<>> /\ <<>> \in Seq(MatchEvent)
    OBVIOUS
  <2>3. NewStats \in Stats /\ NewStats.events = <<>>
    BY <2>2 DEF NewStats, Stats
  <2>4. LearnedOf(NewStats)
    BY DEF NewStats, LearnedOf
  <2>5. Tallied(NewStats)
    <3> SUFFICES ASSUME NEW side \in Sides, NEW k \in Counters
                 PROVE  NewStats.count[side][k] = Tally(NewStats, side, k)
      BY DEF Tallied
    <3>1. NewStats.count[side][k] = 0
      BY DEF NewStats
    <3>2. {i \in DOMAIN NewStats.events : /\ k \in Bumped(NewStats.events[i])
                                          /\ Side(NewStats.events[i], NewStats.home) = side} = {}
      BY <2>3
    <3> QED
      BY <3>1, <3>2, FS_EmptySet DEF Tally
  <2>6. Folded(NewStats, <<>>)
    BY <2>3, <2>4, <2>5 DEF Folded
  <2> QED
    BY <2>1, <2>2, <2>6
<1>4. ASSUME NEW k \in Nat, k \in T PROVE k + 1 \in T
  <2> SUFFICES ASSUME k + 1 <= n
               PROVE  Folded(g[1 .. k + 1], SubSeq(t, 1, k + 1))
    OBVIOUS
  <2>1. Folded(g[1 .. k], SubSeq(t, 1, k))
    BY <1>0, <1>4
  <2>2. /\ t[k + 1] \in MatchEvent /\ SubSeq(t, 1, k) \in Seq(MatchEvent)
        /\ SubSeq(t, 1, k + 1) = Append(SubSeq(t, 1, k), t[k + 1])
    BY <1>0
  <2>3. g[1 .. k + 1] = ApplyEvent(g[1 .. k], t[k + 1])
    <3> DEFINE S == 1 .. k + 1
    <3>1. /\ S \in SUBSET (1 .. n) /\ S \in SUBSET (1 .. k + 1) /\ k + 1 \in S
          /\ S \ {k + 1} = 1 .. k
      BY <1>0
    <3> HIDE DEF S, n
    <3>2. Max(S) = k + 1 /\ S # {}
      BY <3>1, LastPosition
    <3>3. g[S] = FoldStep(g, t, S)
      BY <1>2, <3>1, Zenon
    <3> QED
      BY <3>1, <3>2, <3>3 DEF FoldStep, S
  <2> DEFINE a == g[1 .. k]
             b == g[1 .. k + 1]
  <2>4. a \in Stats /\ LearnedOf(a) /\ Tallied(a) /\ a.events = SubSeq(t, 1, k)
    BY <2>1 DEF Folded
  <2>5. b = ApplyEvent(a, t[k + 1])
    BY <2>3
  <2> DEFINE ev == t[k + 1]
  <2> HIDE DEF a, b, ev, n
  <2>6. b \in Stats /\ b.events = Append(a.events, ev)
    <3>1. a \in Stats /\ ev \in MatchEvent /\ b = ApplyEvent(a, ev)
      BY <2>2, <2>4, <2>5 DEF ev
    <3> QED
      BY <3>1, Applied, ZenonT(60)
  <2>7. LearnedOf(b) /\ Tallied(b)
    BY <2>2, <2>4, <2>5, AppliedTeams, AppliedCounters DEF ev
  <2>8. Folded(b, SubSeq(t, 1, k + 1))
    BY <2>2, <2>4, <2>6, <2>7 DEF Folded, ev
  <2> QED
    BY <2>8 DEF b
<1>5. n \in T
  <2> HIDE DEF T
  <2> QED
    BY <1>0, <1>3, <1>4, InductionOverNat
<1>6. Folded(g[1 .. n], t)
  <2>1. SubSeq(t, 1, n) = t /\ n <= n
    BY <1>0
  <2> HIDE DEF n
  <2> QED
    BY <1>5, <2>1
<1>7. FoldLeft(ApplyEvent, NewStats, t) = g[1 .. n]
  <2> HIDE DEF n
  <2> QED
    BY <1>0, FoldLeftIs DEF g
<1> QED
  BY <1>6, <1>7

\* A history with one event moved to its end is the same in another order.
LEMMA MovedLast ==
    ASSUME NEW s \in Seq(MatchEvent), NEW i \in DOMAIN s
    PROVE  LET u == Append(RemoveAt(s, i), s[i])
               n == Len(s)
               p == [j \in 1 .. n |-> IF j < i THEN j ELSE IF j = i THEN n ELSE j - 1]
           IN  /\ u \in Seq(MatchEvent) /\ DOMAIN u = 1 .. n
               /\ p \in Bijection(1 .. n, 1 .. n)
               /\ \A j \in 1 .. n : u[p[j]] = s[j]
<1> DEFINE n == Len(s)
           r == RemoveAt(s, i)
           u == Append(r, s[i])
           p == [j \in 1 .. n |-> IF j < i THEN j ELSE IF j = i THEN n ELSE j - 1]
<1>1. n \in Nat /\ i \in 1 .. n /\ s[i] \in MatchEvent
  OBVIOUS
<1>2. /\ r \in Seq(MatchEvent) /\ Len(r) = n - 1
      /\ \A j \in 1 .. n - 1 : r[j] = IF j < i THEN s[j] ELSE s[j + 1]
  <2> DEFINE x == SubSeq(s, 1, i - 1)
             y == SubSeq(s, i + 1, n)
  <2>1. /\ x \in Seq(MatchEvent) /\ Len(x) = i - 1
        /\ \A j \in 1 .. i - 1 : x[j] = s[j]
    BY <1>1
  <2>2. /\ y \in Seq(MatchEvent) /\ Len(y) = n - i
        /\ \A j \in 1 .. n - i : y[j] = s[i + j]
    BY <1>1
  <2>3. r = x \o y
    BY DEF RemoveAt
  <2> HIDE DEF x, y, n, r
  <2>4. i \in Nat /\ n \in Nat /\ 1 <= i /\ i <= n
    BY <1>1
  <2>5. /\ r \in Seq(MatchEvent) /\ Len(r) = (i - 1) + (n - i)
        /\ \A j \in 1 .. (i - 1) + (n - i) :
              r[j] = IF j <= i - 1 THEN x[j] ELSE y[j - (i - 1)]
    BY <2>1, <2>2, <2>3
  <2>6. ASSUME NEW j \in 1 .. n - 1
        PROVE  r[j] = IF j < i THEN s[j] ELSE s[j + 1]
    <3>1. CASE j < i
      BY <2>1, <2>4, <2>5, <3>1
    <3>2. CASE ~(j < i)
      <4>1. r[j] = y[j - (i - 1)]
        BY <2>4, <2>5, <3>2
      <4>2. j - (i - 1) \in 1 .. n - i /\ i + (j - (i - 1)) = j + 1
        BY <2>4, <3>2
      <4> QED
        BY <2>2, <3>2, <4>1, <4>2
    <3> QED
      BY <3>1, <3>2
  <2> QED
    BY <2>4, <2>5, <2>6
<1> HIDE DEF r
<1>3. /\ u \in Seq(MatchEvent) /\ DOMAIN u = 1 .. n /\ u[n] = s[i]
      /\ \A j \in 1 .. n - 1 : u[j] = r[j]
  BY <1>1, <1>2
<1>4. p \in Bijection(1 .. n, 1 .. n)
  <2>1. p \in [1 .. n -> 1 .. n]
    BY <1>1
  <2>2. \A j, k \in 1 .. n : p[j] = p[k] => j = k
    BY <1>1
  <2>3. ASSUME NEW k \in 1 .. n PROVE \E j \in 1 .. n : p[j] = k
    <3>1. CASE k < i
      BY <1>1, <3>1
    <3>2. CASE k >= i /\ k < n
      <4>1. k + 1 \in 1 .. n /\ p[k + 1] = k
        BY <1>1, <3>2
      <4> QED
        BY <4>1
    <3>3. CASE k = n
      <4>1. p[i] = n
        BY <1>1
      <4> QED
        BY <1>1, <3>3, <4>1
    <3> QED
      BY <1>1, <3>1, <3>2, <3>3
  <2> HIDE DEF p, n
  <2> QED
    BY <2>1, <2>2, <2>3, Fun_IsBij
<1>5. ASSUME NEW j \in 1 .. n PROVE u[p[j]] = s[j]
  <2> HIDE DEF u
  <2>1. CASE j < i
    BY <1>1, <1>2, <1>3, <2>1
  <2>2. CASE j = i
    BY <1>1, <1>3, <2>2
  <2>3. CASE j > i
    BY <1>1, <1>2, <1>3, <2>3
  <2> QED
    BY <1>1, <2>1, <2>2, <2>3
<1> QED
  BY <1>3, <1>4, <1>5 DEF r

\* Had any one of the events come last, as a late request or a second partition
\* makes it, an aggregate that learned the same home team would agree on every
\* counter: for matches of any length and events from any teams or none.
THEOREM CountersIgnoreOrder == Spec => []OrderIrrelevantForCounters
<1>1. TypeOK /\ CountersMatchHistory => OrderIrrelevantForCounters
  <2> SUFFICES ASSUME TypeOK, CountersMatchHistory, NEW i \in DOMAIN ms.events
               PROVE  LET other == FoldLeft(ApplyEvent, NewStats,
                                            Append(RemoveAt(ms.events, i), ms.events[i]))
                      IN  other.home = ms.home => other.count = ms.count
    BY DEF OrderIrrelevantForCounters
  <2> DEFINE s == ms.events
             n == Len(s)
             u == Append(RemoveAt(s, i), s[i])
             p == [j \in 1 .. n |-> IF j < i THEN j ELSE IF j = i THEN n ELSE j - 1]
             other == FoldLeft(ApplyEvent, NewStats, u)
  <2>1. ms \in Stats /\ Tallied(ms) /\ s \in Seq(MatchEvent)
    BY DEF TypeOK, CountersMatchHistory, Tallied, Stats
  <2>2. /\ u \in Seq(MatchEvent) /\ DOMAIN u = 1 .. n
        /\ p \in Bijection(1 .. n, 1 .. n)
        /\ \A j \in 1 .. n : u[p[j]] = s[j]
    BY <2>1, MovedLast
  <2>3. Folded(other, u)
    BY <2>2, FoldFolds
  <2> HIDE DEF u, p, other
  <2>4. DOMAIN s = 1 .. n
    BY <2>1
  <2>5. Reordered(ms, other, p)
    BY <2>2, <2>3, <2>4 DEF Reordered, Folded
  <2>6. other.home = ms.home => other.count = ms.count
    BY <2>1, <2>3, <2>5, OrderDoesNotCount DEF Folded
  <2> QED
    BY <2>6 DEF other, u
<1> QED
  BY <1>1, TypeCorrect, CountersInvariant, PTL

-----------------------------------------------------------------------------
(* Counting events in sequences *)

Hit(ev, teams, k) == k \in Bumped(ev) /\ ev.team \in teams

\* How many events of these teams bump the counter.
Occurs(s, teams, k) == Cardinality({i \in DOMAIN s : Hit(s[i], teams, k)})

LEMMA OccursFinite ==
    ASSUME NEW s \in Seq(MatchEvent), NEW teams, NEW k
    PROVE  /\ IsFiniteSet({i \in DOMAIN s : Hit(s[i], teams, k)})
           /\ Occurs(s, teams, k) \in Nat
<1> DEFINE S == {i \in DOMAIN s : Hit(s[i], teams, k)}
<1>1. S \in SUBSET (1 .. Len(s)) /\ 1 \in Int /\ Len(s) \in Int
  OBVIOUS
<1>2. IsFiniteSet(1 .. Len(s))
  BY <1>1, FS_Interval
<1> HIDE DEF S
<1>3. IsFiniteSet(S)
  BY <1>1, <1>2, FS_Subset
<1>4. Cardinality(S) \in Nat
  BY <1>3, FS_CardinalityType
<1> QED
  BY <1>3, <1>4 DEF S, Occurs

\* Of two sequences put together, the occurrences add up.
LEMMA OccursConcat ==
    ASSUME NEW s \in Seq(MatchEvent), NEW t \in Seq(MatchEvent), NEW teams, NEW k
    PROVE  Occurs(s \o t, teams, k) = Occurs(s, teams, k) + Occurs(t, teams, k)
<1> DEFINE n == Len(s)
           S == {i \in DOMAIN s : Hit(s[i], teams, k)}
           T == {i \in DOMAIN t : Hit(t[i], teams, k)}
           U == {i \in DOMAIN (s \o t) : Hit((s \o t)[i], teams, k)}
           shifted == {i \in n + 1 .. n + Len(t) : i - n \in T}
           f == [i \in T |-> i + n]
<1>1. /\ n \in Nat /\ Len(t) \in Nat /\ DOMAIN s = 1 .. n /\ DOMAIN t = 1 .. Len(t)
      /\ DOMAIN (s \o t) = 1 .. n + Len(t)
      /\ \A i \in 1 .. n : (s \o t)[i] = s[i]
      /\ \A i \in n + 1 .. n + Len(t) : (s \o t)[i] = t[i - n] /\ i - n \in 1 .. Len(t)
  OBVIOUS
<1>2. IsFiniteSet(S) /\ IsFiniteSet(T)
  BY OccursFinite
<1>3. T \subseteq 1 .. Len(t) /\ S \subseteq 1 .. n
  BY <1>1
<1>4. U = S \cup shifted
  <2>1. ASSUME NEW i \in U PROVE i \in S \cup shifted
    <3> HIDE DEF n
    <3> QED
      BY <1>1
  <2>2. ASSUME NEW i \in S PROVE i \in U
    <3> HIDE DEF n
    <3> QED
      BY <1>1
  <2>3. ASSUME NEW i \in shifted PROVE i \in U
    <3> HIDE DEF n
    <3> QED
      BY <1>1
  <2> QED
    BY <2>1, <2>2, <2>3
<1> HIDE DEF n, S, T, U
<1>5. f \in Bijection(T, shifted)
  <2>1. \A i \in T : i \in Nat /\ i + n \in shifted
    BY <1>1, <1>3
  <2>2. \A j \in shifted : j - n \in T /\ (j - n) + n = j
    BY <1>1
  <2>3. f \in [T -> shifted] /\ \A i \in T : f[i] = i + n
    BY <2>1
  <2>4. \A i, j \in T : f[i] = f[j] => i = j
    BY <1>1, <2>1, <2>3
  <2>5. \A j \in shifted : \E i \in T : f[i] = j
    BY <2>2, <2>3
  <2> HIDE DEF f, shifted
  <2> QED
    BY <2>3, <2>4, <2>5 DEF Bijection, Injection, Surjection, IsInjective
<1>6. IsFiniteSet(shifted) /\ Cardinality(shifted) = Cardinality(T)
  <2>1. ExistsBijection(T, shifted)
    BY <1>5 DEF ExistsBijection
  <2> QED
    BY <1>2, <2>1, FS_Bijection
<1>7. S \cap shifted = {}
  BY <1>1, <1>3
<1> HIDE DEF shifted
<1>8. Cardinality(U) = Cardinality(S) + Cardinality(T)
  <2>1. Cardinality(S \cup shifted) = Cardinality(S) + Cardinality(shifted) - Cardinality({})
    BY <1>2, <1>6, <1>7, FS_Union
  <2>2. Cardinality({}) = 0 /\ Cardinality(S) \in Nat /\ Cardinality(T) \in Nat
    BY <1>2, FS_EmptySet, FS_CardinalityType
  <2> QED
    BY <1>4, <1>6, <2>1, <2>2
<1> QED
  BY <1>8 DEF Occurs, S, T, U

Once(ev, teams, k) == IF Hit(ev, teams, k) THEN 1 ELSE 0

LEMMA OccursSingle ==
    ASSUME NEW ev \in MatchEvent, NEW teams, NEW k
    PROVE  Occurs(<<ev>>, teams, k) = Once(ev, teams, k)
<1> DEFINE S == {i \in DOMAIN <<ev>> : Hit(<<ev>>[i], teams, k)}
<1>1. S = IF Hit(ev, teams, k) THEN {1} ELSE {}
  OBVIOUS
<1>2. Cardinality({1}) = 1 /\ Cardinality({}) = 0
  BY FS_Singleton, FS_EmptySet
<1> HIDE DEF S
<1> QED
  BY <1>1, <1>2 DEF Occurs, Once, S

LEMMA OccursAppend ==
    ASSUME NEW s \in Seq(MatchEvent), NEW ev \in MatchEvent, NEW teams, NEW k
    PROVE  Occurs(Append(s, ev), teams, k) = Occurs(s, teams, k) + Once(ev, teams, k)
<1> DEFINE one == <<ev>>
<1>1. Append(s, ev) = s \o one /\ one \in Seq(MatchEvent)
  OBVIOUS
<1>2. Occurs(one, teams, k) = Once(ev, teams, k)
  BY OccursSingle
<1> HIDE DEF one
<1>3. Occurs(s \o one, teams, k) = Occurs(s, teams, k) + Occurs(one, teams, k)
  BY <1>1, OccursConcat
<1> QED
  BY <1>1, <1>2, <1>3

\* An event taken out of a sequence is counted there once less.
LEMMA OccursRemove ==
    ASSUME NEW s \in Seq(MatchEvent), NEW i \in DOMAIN s, NEW teams, NEW k
    PROVE  /\ RemoveAt(s, i) \in Seq(MatchEvent) /\ s[i] \in MatchEvent
           /\ Occurs(s, teams, k) = Occurs(RemoveAt(s, i), teams, k) + Once(s[i], teams, k)
<1> DEFINE before == SubSeq(s, 1, i - 1)
           after  == SubSeq(s, i + 1, Len(s))
<1>1. i \in 1 .. Len(s) /\ Len(s) \in Nat /\ s[i] \in MatchEvent
  OBVIOUS
<1>2. /\ before \in Seq(MatchEvent) /\ after \in Seq(MatchEvent)
      /\ Append(before, s[i]) \in Seq(MatchEvent)
  BY <1>1
<1>3. s = Append(before, s[i]) \o after
  <2>1. Len(before) = i - 1 /\ \A j \in 1 .. i - 1 : before[j] = s[j]
    BY <1>1
  <2>2. Len(after) = Len(s) - i /\ \A j \in 1 .. Len(s) - i : after[j] = s[j + i]
    BY <1>1
  <2> DEFINE w == Append(before, s[i]) \o after
  <2> HIDE DEF before, after
  <2>3. w \in Seq(MatchEvent) /\ Len(w) = Len(s)
    BY <1>1, <1>2, <2>1, <2>2
  <2>4. ASSUME NEW j \in 1 .. Len(s) PROVE w[j] = s[j]
    <3>1. CASE j < i
      BY <1>1, <1>2, <2>1, <3>1
    <3>2. CASE j = i
      BY <1>1, <1>2, <2>1, <3>2
    <3>3. CASE j > i
      <4>1. j - i \in 1 .. Len(s) - i /\ w[j] = after[j - i]
        BY <1>1, <1>2, <2>1, <2>2, <3>3, SMTT(30)
      <4>2. (j - i) + i = j
        BY <1>1
      <4> HIDE DEF w
      <4>3. after[j - i] = s[(j - i) + i]
        BY <2>2, <4>1, Zenon
      <4> QED
        BY <4>1, <4>2, <4>3
    <3>4. j < i \/ j = i \/ j > i
      BY <1>1
    <3> QED
      BY <3>1, <3>2, <3>3, <3>4
  <2> HIDE DEF w
  <2>5. w = s
    BY <2>3, <2>4
  <2> QED
    BY <2>5 DEF w
<1> HIDE DEF before, after
<1>4. Occurs(s, teams, k) =
        (Occurs(before, teams, k) + Once(s[i], teams, k)) + Occurs(after, teams, k)
  <2> DEFINE upTo == Append(before, s[i])
  <2>1. Occurs(upTo, teams, k) = Occurs(before, teams, k) + Once(s[i], teams, k)
    BY <1>1, <1>2, OccursAppend
  <2>2. upTo \in Seq(MatchEvent) /\ s = upTo \o after
    BY <1>2, <1>3
  <2> HIDE DEF upTo
  <2>3. Occurs(upTo \o after, teams, k) = Occurs(upTo, teams, k) + Occurs(after, teams, k)
    BY <1>2, <2>2, OccursConcat
  <2>4. Occurs(s, teams, k) = Occurs(upTo \o after, teams, k)
    BY <2>2, Zenon
  <2> QED
    BY <2>1, <2>3, <2>4, Zenon
<1>5. /\ before \o after \in Seq(MatchEvent)
      /\ Occurs(before \o after, teams, k) = Occurs(before, teams, k) + Occurs(after, teams, k)
  BY <1>2, OccursConcat
<1>6. /\ Occurs(before, teams, k) \in Nat /\ Occurs(after, teams, k) \in Nat
      /\ Once(s[i], teams, k) \in Nat
  BY <1>2, OccursFinite DEF Once
<1> QED
  BY <1>1, <1>4, <1>5, <1>6, SMTT(30) DEF before, after, RemoveAt

-----------------------------------------------------------------------------
(* The simulated match *)

SimTypes ==
    /\ minute \in Nat /\ posted \in Nat
    /\ pending \in Seq(MatchEvent)
    /\ stray \in Seq(MatchEvent) /\ dropped \in Seq(MatchEvent)
    /\ recounted \in Seq(MatchEvent)

SimFacts == TypeOK /\ TeamsFromHistory /\ CountersMatchHistory /\ SimTypes

\* What an event may follow from: a goal from a shot on target and a yellow
\* card from a foul.
Links == {<<"goals", "shotsOT">>, <<"yellow", "fouls">>}

CausedBy(a, b, link) == link[2] \in Bumped(a) /\ a.team = b.team

\* Every consequence but one at the start comes right after its cause.
Chained(s, link) ==
    \A i \in 2 .. Len(s) : link[1] \in Bumped(s[i]) => CausedBy(s[i - 1], s[i], link)

\* No consequence at the start.
StartsFresh(s, link) == s # <<>> => link[1] \notin Bumped(s[1])

WellMade(s) ==
    /\ s \in Seq(MatchEvent)
    /\ \A link \in Links : Chained(s, link) /\ StartsFresh(s, link)

LEMMA WellMadeConcat ==
    ASSUME NEW s, NEW t, WellMade(s), WellMade(t) PROVE WellMade(s \o t)
<1> DEFINE n == Len(s)
           w == s \o t
<1>1. /\ s \in Seq(MatchEvent) /\ t \in Seq(MatchEvent) /\ w \in Seq(MatchEvent)
      /\ n \in Nat /\ Len(t) \in Nat /\ Len(w) = n + Len(t)
      /\ \A i \in 1 .. n : w[i] = s[i]
      /\ \A i \in n + 1 .. n + Len(t) : w[i] = t[i - n]
      /\ (n = 0 => s = <<>>) /\ (Len(t) = 0 => t = <<>>) /\ (w # <<>> => Len(w) > 0)
  BY DEF WellMade
<1> HIDE DEF w, n
<1>2. ASSUME NEW link \in Links PROVE Chained(w, link) /\ StartsFresh(w, link)
  <2>0. /\ Chained(s, link) /\ StartsFresh(s, link)
        /\ Chained(t, link) /\ StartsFresh(t, link)
    BY DEF WellMade
  <2>1. ASSUME NEW i \in 2 .. Len(w), link[1] \in Bumped(w[i])
        PROVE  CausedBy(w[i - 1], w[i], link)
    <3>1. CASE i <= n
      <4>1. i \in 2 .. n /\ i - 1 \in 1 .. n /\ i \in 1 .. n
        BY <1>1, <3>1
      <4> QED
        BY <1>1, <2>0, <2>1, <4>1 DEF Chained, n
    <3>2. CASE i > n
      <4>1. i \in n + 1 .. n + Len(t) /\ i - n \in 1 .. Len(t) /\ w[i] = t[i - n]
        BY <1>1, <3>2
      <4>2. i - n # 1
        <5> SUFFICES ASSUME i - n = 1 PROVE FALSE
          OBVIOUS
        <5>1. t # <<>> /\ w[i] = t[1]
          BY <1>1, <4>1
        <5> QED
          BY <2>0, <2>1, <5>1 DEF StartsFresh
      <4>3. i - n \in 2 .. Len(t) /\ i - 1 \in n + 1 .. n + Len(t) /\ (i - 1) - n = (i - n) - 1
        BY <1>1, <4>1, <4>2
      <4>4. w[i - 1] = t[(i - n) - 1]
        BY <1>1, <4>3
      <4> QED
        BY <2>0, <2>1, <4>1, <4>3, <4>4 DEF Chained
    <3> QED
      BY <1>1, <3>1, <3>2
  <2>2. StartsFresh(w, link)
    <3> SUFFICES ASSUME w # <<>> PROVE link[1] \notin Bumped(w[1])
      BY DEF StartsFresh
    <3>1. CASE n = 0
      <4>1. t # <<>> /\ 1 \in n + 1 .. n + Len(t) /\ 1 - n = 1
        BY <1>1, <3>1
      <4> QED
        BY <1>1, <2>0, <4>1 DEF StartsFresh
    <3>2. CASE n # 0
      <4>1. s # <<>> /\ 1 \in 1 .. n
        BY <1>1, <3>2 DEF n
      <4> QED
        BY <1>1, <2>0, <4>1 DEF StartsFresh
    <3> QED
      BY <3>1, <3>2
  <2> QED
    BY <2>1, <2>2 DEF Chained
<1> QED
  BY <1>1, <1>2 DEF WellMade, w

\* What the drawing of a minute's events may put first, alone or second.
LEMMA WellMadeEmpty == WellMade(<<>>)
  BY DEF WellMade, Chained, StartsFresh

LEMMA WellMadeOne ==
    ASSUME NEW a \in MatchEvent, \A link \in Links : link[1] \notin Bumped(a)
    PROVE  WellMade(<<a>>)
  BY DEF WellMade, Chained, StartsFresh

LEMMA WellMadeTwo ==
    ASSUME NEW a \in MatchEvent, NEW b \in MatchEvent,
           \A link \in Links : link[1] \notin Bumped(a),
           \A link \in Links : link[1] \in Bumped(b) => CausedBy(a, b, link)
    PROVE  WellMade(<<a, b>>)
<1>1. <<a, b>> \in Seq(MatchEvent) /\ Len(<<a, b>>) = 2
  OBVIOUS
<1>2. \A i \in 2 .. 2 : i = 2 /\ i - 1 = 1
  OBVIOUS
<1> QED
  BY <1>1, <1>2 DEF WellMade, Chained, StartsFresh

\* Every minute the simulator draws is well made.
LEMMA MinuteWellMade ==
    ASSUME NEW m \in Nat, NEW evs \in GenerateMinuteEvents(m)
    PROVE  WellMade(evs)
<1>0. PickTeam \subseteq Teams
  BY SimulatorAssumption DEF PickTeam
<1>1. ASSUME NEW t \in PickTeam
      PROVE  /\ WellMade(<<NewEvent(m, "shot", t, "none")>>)
             /\ WellMade(<<NewEvent(m, "shot", t, "on_target")>>)
             /\ WellMade(<<NewEvent(m, "shot", t, "on_target"), NewEvent(m, "goal", t, "none")>>)
             /\ WellMade(<<NewEvent(m, "foul", t, "none")>>)
             /\ WellMade(<<NewEvent(m, "foul", t, "none"), NewEvent(m, "card", t, "yellow")>>)
             /\ WellMade(<<NewEvent(m, "corner", t, "none")>>)
  <2> DEFINE miss   == NewEvent(m, "shot", t, "none")
             target == NewEvent(m, "shot", t, "on_target")
             goal   == NewEvent(m, "goal", t, "none")
             foul   == NewEvent(m, "foul", t, "none")
             card   == NewEvent(m, "card", t, "yellow")
             corner == NewEvent(m, "corner", t, "none")
  <2>1. /\ miss \in MatchEvent /\ target \in MatchEvent /\ goal \in MatchEvent
        /\ foul \in MatchEvent /\ card \in MatchEvent /\ corner \in MatchEvent
    BY <1>0 DEF NewEvent, MatchEvent, Types, Details
  <2>2. /\ Bumped(miss) = {"shots"} /\ Bumped(target) = {"shots", "shotsOT"}
        /\ Bumped(goal) = {"goals"} /\ Bumped(foul) = {"fouls"}
        /\ Bumped(card) = {"yellow"} /\ Bumped(corner) = {"corners"}
        /\ target.team = t /\ goal.team = t /\ foul.team = t /\ card.team = t
    BY DEF Bumped, NewEvent
  <2> HIDE DEF miss, target, goal, foul, card, corner
  <2>3. \A link \in Links : /\ link[1] \in {"goals", "yellow"}
                            /\ link[1] = "goals" => link[2] = "shotsOT"
                            /\ link[1] = "yellow" => link[2] = "fouls"
    BY DEF Links
  <2>4. /\ \A link \in Links : link[1] \notin Bumped(miss)
        /\ \A link \in Links : link[1] \notin Bumped(target)
        /\ \A link \in Links : link[1] \notin Bumped(foul)
        /\ \A link \in Links : link[1] \notin Bumped(corner)
        /\ \A link \in Links : link[1] \in Bumped(goal) => CausedBy(target, goal, link)
        /\ \A link \in Links : link[1] \in Bumped(card) => CausedBy(foul, card, link)
    BY <2>2, <2>3 DEF CausedBy
  <2>5. /\ WellMade(<<miss>>) /\ WellMade(<<target>>) /\ WellMade(<<foul>>)
        /\ WellMade(<<corner>>)
    BY <2>1, <2>4, WellMadeOne
  <2>6. WellMade(<<target, goal>>) /\ WellMade(<<foul, card>>)
    BY <2>1, <2>4, WellMadeTwo
  <2> QED
    BY <2>5, <2>6 DEF miss, target, goal, foul, card, corner
<1>2. \A s \in Shots(m) : WellMade(s)
  BY <1>1, WellMadeEmpty DEF Shots
<1>3. \A s \in Fouls(m) : WellMade(s)
  BY <1>1, WellMadeEmpty DEF Fouls
<1>4. \A s \in Corners(m) : WellMade(s)
  BY <1>1, WellMadeEmpty DEF Corners
<1>5. PICK shot \in Shots(m), foul \in Fouls(m), corner \in Corners(m) :
        evs = shot \o foul \o corner
  BY DEF GenerateMinuteEvents
<1>6. WellMade(shot \o foul)
  BY <1>2, <1>3, WellMadeConcat
<1>7. WellMade((shot \o foul) \o corner)
  BY <1>4, <1>6, WellMadeConcat
<1> QED
  BY <1>5, <1>7

\* The events of these teams that bump the counter and have left the
\* simulator, each counted once: in the aggregate, on their way to it or lost.
Settled(teams, k) ==
    Occurs(ms.events, teams, k) + Occurs(stray, teams, k) + Occurs(dropped, teams, k)
        - Occurs(recounted, teams, k)

\* For every set of teams there are no more consequences than causes, and one
\* cause to spare if a consequence is sent next.  Sets of teams, for which
\* team is the home side may not be known yet.
Balanced(link) ==
    \A teams \in SUBSET (Teams \cup {NoTeam}) :
        /\ Settled(teams, link[1]) <= Settled(teams, link[2])
        /\ pending # <<>> /\ Hit(pending[1], teams, link[1]) =>
              Settled(teams, link[1]) < Settled(teams, link[2])

CauseInv == posted = 0 => \A link \in Links : Chained(pending, link) /\ Balanced(link)

\* What Settled is made of.
LEMMA SettledParts ==
    ASSUME SimFacts, NEW teams, NEW k
    PROVE  /\ Occurs(ms.events, teams, k) \in Nat /\ Occurs(stray, teams, k) \in Nat
           /\ Occurs(dropped, teams, k) \in Nat /\ Occurs(recounted, teams, k) \in Nat
           /\ Settled(teams, k) \in Int
<1>1. /\ ms.events \in Seq(MatchEvent) /\ stray \in Seq(MatchEvent)
      /\ dropped \in Seq(MatchEvent) /\ recounted \in Seq(MatchEvent)
  BY DEF SimFacts, TypeOK, Stats, SimTypes
<1>2. /\ Occurs(ms.events, teams, k) \in Nat /\ Occurs(stray, teams, k) \in Nat
      /\ Occurs(dropped, teams, k) \in Nat /\ Occurs(recounted, teams, k) \in Nat
  BY <1>1, OccursFinite
<1> QED
  BY <1>2 DEF Settled

LEMMA InitSim == SimInit => SimFacts /\ CauseInv
<1> SUFFICES ASSUME SimInit PROVE SimFacts /\ CauseInv
  OBVIOUS
<1>1. TypeOK
  <2>1. <<>> \in Seq(MatchEvent)
    OBVIOUS
  <2> QED
    BY <2>1 DEF SimInit, Init, NewStats, Stats, TypeOK
<1>2. SimTypes
  BY DEF SimInit, SimTypes
<1>3. SimFacts
  BY <1>1, <1>2, InitTeams, InitCounters DEF SimInit, SimFacts
<1>4. /\ ms.events = <<>> /\ stray = <<>> /\ dropped = <<>> /\ recounted = <<>>
      /\ pending = <<>>
  BY DEF SimInit, Init, NewStats
<1>5. \A teams, k : Occurs(<<>>, teams, k) = 0
  <2>1. \A teams, k : {i \in DOMAIN <<>> : Hit(<<>>[i], teams, k)} = {}
    OBVIOUS
  <2> QED
    BY <2>1, FS_EmptySet DEF Occurs
<1>6. \A teams, k : Settled(teams, k) = 0
  BY <1>4, <1>5 DEF Settled
<1> QED
  BY <1>3, <1>4, <1>6 DEF CauseInv, Chained, Balanced

\* Folding an event in keeps what holds of the aggregate.
LEMMA ReceiveFacts ==
    ASSUME SimFacts, NEW ev \in MatchEvent, Receive(ev)
    PROVE  /\ TypeOK' /\ TeamsFromHistory' /\ CountersMatchHistory'
           /\ ms'.events = Append(ms.events, ev)
           /\ \A teams, k : Occurs(ms'.events, teams, k)
                              = Occurs(ms.events, teams, k) + Once(ev, teams, k)
<1>1. ms' = ApplyEvent(ms, ev)
  BY DEF Receive
<1>2. TypeOK' /\ ms'.events = Append(ms.events, ev)
  BY <1>1, Applied DEF SimFacts, TypeOK
<1>3. TeamsFromHistory' /\ CountersMatchHistory'
  BY <1>1, ReceiveTeams, ReceiveCounters DEF SimFacts
<1>4. ms.events \in Seq(MatchEvent)
  BY DEF SimFacts, TypeOK, Stats
<1> QED
  BY <1>2, <1>3, <1>4, OccursAppend

\* The aggregate stays as it is.
LEMMA KeptFacts ==
    ASSUME SimFacts, UNCHANGED ms PROVE TypeOK' /\ TeamsFromHistory' /\ CountersMatchHistory'
  BY DEF SimFacts, TypeOK, TeamsFromHistory, CountersMatchHistory, Tally

\* What is left once the first event is sent, and what that event was.
LEMMA SentFirst ==
    ASSUME SimTypes, pending # <<>>
    PROVE  /\ Head(pending) = pending[1] /\ pending[1] \in MatchEvent
           /\ Tail(pending) \in Seq(MatchEvent)
           /\ \A link : Chained(pending, link) =>
                 /\ Chained(Tail(pending), link)
                 /\ Tail(pending) # <<>> /\ link[1] \in Bumped(Tail(pending)[1]) =>
                       CausedBy(pending[1], Tail(pending)[1], link)
<1> DEFINE n == Len(pending)
           rest == Tail(pending)
<1>1. /\ pending \in Seq(MatchEvent) /\ n \in Nat /\ n >= 1
      /\ rest \in Seq(MatchEvent) /\ Len(rest) = n - 1
      /\ \A i \in 1 .. n - 1 : rest[i] = pending[i + 1]
      /\ Head(pending) = pending[1] /\ pending[1] \in MatchEvent
      /\ rest # <<>> => Len(rest) >= 1
  BY DEF SimTypes
<1> HIDE DEF rest
<1>2. ASSUME NEW link, Chained(pending, link)
      PROVE  /\ Chained(rest, link)
             /\ rest # <<>> /\ link[1] \in Bumped(rest[1]) =>
                   CausedBy(pending[1], rest[1], link)
  <2>1. ASSUME NEW i \in 2 .. n - 1, link[1] \in Bumped(rest[i])
        PROVE  CausedBy(rest[i - 1], rest[i], link)
    <3>1. /\ i \in 1 .. n - 1 /\ i - 1 \in 1 .. n - 1 /\ i + 1 \in 2 .. n
          /\ (i - 1) + 1 = i /\ (i + 1) - 1 = i
      BY <1>1
    <3>2. rest[i] = pending[i + 1] /\ rest[i - 1] = pending[(i + 1) - 1]
      BY <1>1, <3>1
    <3> QED
      BY <1>2, <2>1, <3>1, <3>2 DEF Chained
  <2>2. ASSUME rest # <<>>, link[1] \in Bumped(rest[1])
        PROVE  CausedBy(pending[1], rest[1], link)
    <3>1. 1 \in 1 .. n - 1 /\ 2 \in 2 .. n /\ 2 - 1 = 1 /\ 1 + 1 = 2
      BY <1>1, <2>2
    <3>2. rest[1] = pending[2]
      BY <1>1, <3>1
    <3> QED
      BY <1>2, <2>2, <3>1, <3>2 DEF Chained
  <2> QED
    BY <1>1, <2>1, <2>2 DEF Chained
<1> QED
  BY <1>1, <1>2 DEF rest

\* The first event leaves the simulator, and the rest of the minute is still to
\* be sent or abandoned.
LEMMA HeadLeaves ==
    ASSUME SimFacts, CauseInv, pending # <<>>, posted' = 0, posted = 0,
           pending' = Tail(pending) \/ pending' = <<>>,
           \A teams, k : Settled(teams, k)' = Settled(teams, k) + Once(pending[1], teams, k)
    PROVE  CauseInv'
<1> SUFFICES ASSUME NEW link \in Links
             PROVE  Chained(pending', link) /\ Balanced(link)'
  BY DEF CauseInv
<1>1. Chained(pending, link) /\ Balanced(link)
  BY DEF CauseInv
<1>2. /\ pending[1] \in MatchEvent /\ Chained(Tail(pending), link)
      /\ Tail(pending) # <<>> /\ link[1] \in Bumped(Tail(pending)[1]) =>
            CausedBy(pending[1], Tail(pending)[1], link)
  BY <1>1, SentFirst DEF SimFacts
<1>3. Chained(<<>>, link)
  BY DEF Chained
<1>4. ASSUME NEW teams \in SUBSET (Teams \cup {NoTeam})
      PROVE  /\ Settled(teams, link[1])' <= Settled(teams, link[2])'
             /\ pending' # <<>> /\ Hit(pending'[1], teams, link[1]) =>
                   Settled(teams, link[1])' < Settled(teams, link[2])'
  <2> DEFINE a == Settled(teams, link[1])
             b == Settled(teams, link[2])
             x == Once(pending[1], teams, link[1])
             y == Once(pending[1], teams, link[2])
  <2>1. /\ a \in Int /\ b \in Int /\ x \in {0, 1} /\ y \in {0, 1}
    BY SettledParts DEF Once
  <2>2. a <= b /\ (x = 1 => a < b)
    BY <1>1 DEF Balanced, Once
  <2>3. Settled(teams, link[1])' = a + x /\ Settled(teams, link[2])' = b + y
    OBVIOUS
  <2>4. pending' # <<>> /\ Hit(pending'[1], teams, link[1]) => y = 1
    BY <1>2 DEF CausedBy, Hit, Once
  <2> HIDE DEF a, b, x, y
  <2> QED
    BY <2>1, <2>2, <2>3, <2>4
<1>5. Balanced(link)'
  BY <1>4 DEF Balanced
<1> QED
  BY <1>2, <1>3, <1>5

\* Nothing more leaves the simulator, and what is pending is abandoned, kept,
\* or a minute newly drawn.
LEMMA NoneLeaves ==
    ASSUME SimFacts, CauseInv, posted' = 0, posted = 0,
           pending' = pending \/ WellMade(pending'),
           \A teams, k : Settled(teams, k)' = Settled(teams, k)
    PROVE  CauseInv'
<1> SUFFICES ASSUME NEW link \in Links
             PROVE  Chained(pending', link) /\ Balanced(link)'
  BY DEF CauseInv
<1>1. Chained(pending, link) /\ Balanced(link)
  BY DEF CauseInv
<1>2. CASE pending' = pending
  BY <1>1, <1>2 DEF Balanced
<1>3. CASE WellMade(pending')
  <2>1. Chained(pending', link) /\ StartsFresh(pending', link)
    BY <1>3 DEF WellMade
  <2> QED
    BY <1>1, <2>1 DEF Balanced, StartsFresh, Hit
<1> QED
  BY <1>2, <1>3

\* An event that goes astray is on its way or lost.
LEMMA AstraySettled ==
    ASSUME SimFacts, NEW ev \in MatchEvent, GoAstray(ev)
    PROVE  /\ stray' \in Seq(MatchEvent) /\ dropped' \in Seq(MatchEvent)
           /\ UNCHANGED <<ms, recounted>>
           /\ \A teams, k : Settled(teams, k)' = Settled(teams, k) + Once(ev, teams, k)
<1>1. stray \in Seq(MatchEvent) /\ dropped \in Seq(MatchEvent)
  BY DEF SimFacts, SimTypes
<1>2. /\ \/ stray' = Append(stray, ev) /\ dropped' = dropped
         \/ dropped' = Append(dropped, ev) /\ stray' = stray
      /\ UNCHANGED <<ms, recounted>>
  BY DEF GoAstray, vars
<1>3. ASSUME NEW teams, NEW k
      PROVE  Settled(teams, k)' = Settled(teams, k) + Once(ev, teams, k)
  <2>1. /\ Occurs(Append(stray, ev), teams, k) = Occurs(stray, teams, k) + Once(ev, teams, k)
        /\ Occurs(Append(dropped, ev), teams, k) = Occurs(dropped, teams, k) + Once(ev, teams, k)
    BY <1>1, OccursAppend
  <2>2. /\ Occurs(stray, teams, k) \in Nat /\ Occurs(dropped, teams, k) \in Nat
        /\ Occurs(ms.events, teams, k) \in Nat /\ Occurs(recounted, teams, k) \in Nat
        /\ Once(ev, teams, k) \in Nat
    BY SettledParts DEF Once
  <2>3. Settled(teams, k)' =
          Occurs(ms.events, teams, k) + Occurs(stray', teams, k) + Occurs(dropped', teams, k)
            - Occurs(recounted, teams, k)
    BY <1>2 DEF Settled
  <2>4. \/ /\ Occurs(stray', teams, k) = Occurs(stray, teams, k) + Once(ev, teams, k)
           /\ Occurs(dropped', teams, k) = Occurs(dropped, teams, k)
        \/ /\ Occurs(dropped', teams, k) = Occurs(dropped, teams, k) + Once(ev, teams, k)
           /\ Occurs(stray', teams, k) = Occurs(stray, teams, k)
    BY <1>2, <2>1, Zenon
  <2> QED
    BY <2>2, <2>3, <2>4 DEF Settled
<1>4. stray' \in Seq(MatchEvent) /\ dropped' \in Seq(MatchEvent)
  <2>1. Append(stray, ev) \in Seq(MatchEvent) /\ Append(dropped, ev) \in Seq(MatchEvent)
    BY <1>1
  <2> QED
    BY <1>1, <1>2, <2>1, Zenon
<1> QED
  BY <1>2, <1>3, <1>4

LEMMA SimTypesStep == SimFacts /\ [SimNext]_matchVars => SimFacts'
<1> SUFFICES ASSUME SimFacts, [SimNext]_matchVars PROVE SimFacts'
  OBVIOUS
<1> USE DEF SimFacts
<1>1. CASE UNCHANGED matchVars
  BY <1>1, KeptFacts DEF matchVars, vars, simVars, astrayVars, SimTypes
<1>2. CASE Generate
  <2>1. PICK evs \in GenerateMinuteEvents(minute) : pending' = evs
    BY <1>2 DEF Generate
  <2>2. pending' \in Seq(MatchEvent)
    BY <2>1, MinuteWellMade DEF SimTypes, WellMade
  <2> QED
    BY <1>2, <2>2, KeptFacts DEF Generate, vars, astrayVars, SimTypes
<1>3. CASE Deliver
  <2>0. pending # <<>> /\ pending' = Tail(pending) /\ UNCHANGED <<minute, posted>>
    BY <1>3 DEF Deliver
  <2>1. CASE Receive(Head(pending)) /\ UNCHANGED astrayVars
    BY <2>0, <2>1, SentFirst, ReceiveFacts DEF SimTypes, astrayVars
  <2>2. CASE GoAstray(Head(pending))
    BY <2>0, <2>2, SentFirst, AstraySettled, KeptFacts DEF SimTypes
  <2> QED
    BY <1>3, <2>1, <2>2 DEF Deliver
<1>4. CASE GiveUp
  BY <1>4, SentFirst, AstraySettled, KeptFacts DEF GiveUp, SimTypes
<1>5. CASE MinuteSent \/ HalfTimeOver \/ NextMinute \/ FullTime
  BY <1>5, KeptFacts DEF MinuteSent, HalfTimeOver, NextMinute, FullTime, vars, astrayVars,
     SimTypes
<1>6. CASE Stop
  <2>1. /\ stray' \in Seq(MatchEvent) /\ dropped' \in Seq(MatchEvent)
        /\ UNCHANGED <<ms, recounted>>
    BY <1>6, SentFirst, AstraySettled DEF Stop, vars, astrayVars, SimTypes
  <2> QED
    BY <1>6, <2>1, KeptFacts DEF Stop, SimTypes
<1>7. CASE LandLate
  <2>1. PICK i \in DOMAIN stray : Receive(stray[i]) /\ stray' = RemoveAt(stray, i)
    BY <1>7 DEF LandLate
  <2>2. stray[i] \in MatchEvent /\ stray' \in Seq(MatchEvent)
    BY <2>1, OccursRemove DEF SimTypes
  <2> QED
    BY <1>7, <2>1, <2>2, ReceiveFacts DEF LandLate, SimTypes
<1>8. CASE PostOther
  <2>1. PICK ev \in Events : Receive(ev)
    BY <1>8 DEF PostOther
  <2> QED
    BY <1>8, <2>1, EventsAssumption, ReceiveFacts DEF PostOther, astrayVars, SimTypes
<1>9. CASE Recount
  <2>1. PICK i \in DOMAIN ms.events : /\ Receive(ms.events[i])
                                     /\ recounted' = Append(recounted, ms.events[i])
    BY <1>9 DEF Recount
  <2>2. ms.events[i] \in MatchEvent
    BY DEF TypeOK, Stats
  <2> QED
    BY <1>9, <2>1, <2>2, ReceiveFacts DEF Recount, SimTypes
<1> QED
  BY <1>1, <1>2, <1>3, <1>4, <1>5, <1>6, <1>7, <1>8, <1>9 DEF SimNext, SimStep

\* Every step keeps the balance: causes are sent before their consequences,
\* and an event that goes astray moves without being forgotten.
LEMMA CauseStep == SimFacts /\ CauseInv /\ [SimNext]_matchVars => CauseInv'
<1> SUFFICES ASSUME SimFacts, CauseInv, [SimNext]_matchVars, posted' = 0 PROVE CauseInv'
  BY DEF CauseInv
<1>0. posted = 0 /\ ~PostOther
  BY DEF SimNext, SimStep, matchVars, simVars, Generate, Deliver, GiveUp, MinuteSent,
         HalfTimeOver, NextMinute, FullTime, Stop, LandLate, Recount, PostOther, SimFacts,
         SimTypes
<1>1. ASSUME UNCHANGED <<ms, astrayVars>>
      PROVE  \A teams, k : Settled(teams, k)' = Settled(teams, k)
  BY <1>1 DEF Settled, astrayVars
<1>2. CASE UNCHANGED <<ms, astrayVars, pending>>
  BY <1>0, <1>1, <1>2, NoneLeaves
<1>3. CASE Generate
  <2>1. PICK evs \in GenerateMinuteEvents(minute) : pending' = evs
    BY <1>3 DEF Generate
  <2>2. WellMade(pending')
    BY <2>1, MinuteWellMade DEF SimFacts, SimTypes
  <2> QED
    BY <1>0, <1>1, <1>3, <2>2, NoneLeaves DEF Generate, vars
<1>4. ASSUME pending # <<>>, Receive(Head(pending)), UNCHANGED astrayVars,
             pending' = Tail(pending)
      PROVE  CauseInv'
  <2>1. pending[1] \in MatchEvent /\ Receive(pending[1])
    BY <1>4, SentFirst DEF SimFacts
  <2>2. ASSUME NEW teams, NEW k
        PROVE  Settled(teams, k)' = Settled(teams, k) + Once(pending[1], teams, k)
    <3>1. Occurs(ms'.events, teams, k) = Occurs(ms.events, teams, k) + Once(pending[1], teams, k)
      BY <2>1, ReceiveFacts
    <3>2. /\ Occurs(ms.events, teams, k) \in Nat /\ Occurs(stray, teams, k) \in Nat
          /\ Occurs(dropped, teams, k) \in Nat /\ Occurs(recounted, teams, k) \in Nat
          /\ Once(pending[1], teams, k) \in Nat
      BY SettledParts DEF Once
    <3> QED
      BY <1>4, <3>1, <3>2 DEF Settled, astrayVars
  <2> QED
    BY <1>0, <1>4, <2>2, HeadLeaves
<1>5. ASSUME pending # <<>>, GoAstray(Head(pending)),
             pending' = Tail(pending) \/ pending' = <<>>
      PROVE  CauseInv'
  <2>1. Head(pending) = pending[1] /\ pending[1] \in MatchEvent
    BY <1>5, SentFirst DEF SimFacts
  <2>2. \A teams, k : Settled(teams, k)' = Settled(teams, k) + Once(pending[1], teams, k)
    BY <1>5, <2>1, AstraySettled
  <2> QED
    BY <1>0, <1>5, <2>2, HeadLeaves
<1>6. CASE Deliver \/ GiveUp
  BY <1>4, <1>5, <1>6 DEF Deliver, GiveUp
<1>7. CASE Stop
  <2>1. CASE UNCHANGED <<vars, astrayVars>>
    BY <1>0, <1>1, <1>7, <2>1, NoneLeaves, WellMadeEmpty DEF Stop, vars
  <2> QED
    BY <1>5, <1>7, <2>1 DEF Stop
<1>8. CASE LandLate
  <2>1. PICK i \in DOMAIN stray : Receive(stray[i]) /\ stray' = RemoveAt(stray, i)
    BY <1>8 DEF LandLate
  <2>2. UNCHANGED <<dropped, recounted, pending>>
    BY <1>8 DEF LandLate
  <2>3. stray \in Seq(MatchEvent) /\ stray[i] \in MatchEvent /\ stray' \in Seq(MatchEvent)
    BY <2>1, OccursRemove DEF SimFacts, SimTypes
  <2>4. ASSUME NEW teams, NEW k PROVE Settled(teams, k)' = Settled(teams, k)
    <3> DEFINE x == Once(stray[i], teams, k)
    <3>1. Occurs(ms'.events, teams, k) = Occurs(ms.events, teams, k) + x
      BY <2>1, <2>3, ReceiveFacts
    <3>2. Occurs(stray, teams, k) = Occurs(stray', teams, k) + x
      BY <2>1, <2>3, OccursRemove
    <3>3. /\ Occurs(ms.events, teams, k) \in Nat /\ Occurs(stray', teams, k) \in Nat
          /\ Occurs(dropped, teams, k) \in Nat /\ Occurs(recounted, teams, k) \in Nat
          /\ x \in Nat
      BY <2>3, OccursFinite, SettledParts DEF Once
    <3>4. Settled(teams, k)' =
            Occurs(ms'.events, teams, k) + Occurs(stray', teams, k) + Occurs(dropped, teams, k)
              - Occurs(recounted, teams, k)
      BY <2>2 DEF Settled
    <3> HIDE DEF x
    <3> QED
      BY <3>1, <3>2, <3>3, <3>4 DEF Settled
  <2> QED
    BY <1>0, <2>2, <2>4, NoneLeaves
<1>9. CASE Recount
  <2>1. PICK i \in DOMAIN ms.events : /\ Receive(ms.events[i])
                                     /\ recounted' = Append(recounted, ms.events[i])
    BY <1>9 DEF Recount
  <2>2. UNCHANGED <<stray, dropped, pending>>
    BY <1>9 DEF Recount
  <2>3. ms.events[i] \in MatchEvent /\ recounted \in Seq(MatchEvent)
    BY DEF SimFacts, SimTypes, TypeOK, Stats
  <2>4. ASSUME NEW teams, NEW k PROVE Settled(teams, k)' = Settled(teams, k)
    <3> DEFINE x == Once(ms.events[i], teams, k)
    <3>1. /\ Occurs(ms'.events, teams, k) = Occurs(ms.events, teams, k) + x
          /\ Occurs(recounted', teams, k) = Occurs(recounted, teams, k) + x
      BY <2>1, <2>3, ReceiveFacts, OccursAppend
    <3>2. /\ Occurs(ms.events, teams, k) \in Nat /\ Occurs(stray, teams, k) \in Nat
          /\ Occurs(dropped, teams, k) \in Nat /\ Occurs(recounted, teams, k) \in Nat
          /\ x \in Nat
      BY SettledParts DEF Once
    <3>3. Settled(teams, k)' =
            Occurs(ms'.events, teams, k) + Occurs(stray, teams, k) + Occurs(dropped, teams, k)
              - Occurs(recounted', teams, k)
      BY <2>2 DEF Settled
    <3> HIDE DEF x
    <3> QED
      BY <3>1, <3>2, <3>3 DEF Settled
  <2> QED
    BY <1>0, <2>2, <2>4, NoneLeaves
<1> QED
  BY <1>0, <1>2, <1>3, <1>6, <1>7, <1>8, <1>9
  DEF SimNext, SimStep, MinuteSent, HalfTimeOver, NextMinute, FullTime, matchVars, simVars, vars

LEMMA SimInvariant == SimSpec => [](SimFacts /\ CauseInv)
<1>1. SimFacts /\ CauseInv /\ [SimNext]_matchVars => (SimFacts /\ CauseInv)'
  BY SimTypesStep, CauseStep
<1> QED
  BY InitSim, <1>1, PTL DEF SimSpec

\* The aggregate of a simulated match, events lost, late, folded in twice and
\* posted by other clients included, keeps its type, its teams and its counters.
THEOREM SimulatedAggregate ==
    SimSpec => [](TypeOK /\ TeamsFromHistory /\ CountersMatchHistory)
<1>1. SimFacts => TypeOK /\ TeamsFromHistory /\ CountersMatchHistory
  BY DEF SimFacts
<1> QED
  BY SimInvariant, <1>1, PTL

\* The teams that count for a side.
TeamsOf(side, home) ==
    {team \in Teams \cup {NoTeam} :
        (IF team # NoTeam /\ team = home THEN "home" ELSE "away") = side}

\* Whatever becomes of the events on the way to the aggregate, a side of a
\* simulated match has more goals than shots on target, or more yellow cards
\* than fouls, by no more than the causes that are not folded in and the
\* consequences folded in twice: whatever the length of the match and
\* whichever side each team was learned as.
THEOREM CausesCounted == SimSpec => []ConsequencesHaveCauses
<1>1. SimFacts /\ CauseInv => ConsequencesHaveCauses
  <2> SUFFICES ASSUME SimFacts, CauseInv, posted = 0, NEW side \in Sides
               PROVE  /\ ms.count[side]["goals"] <=
                            ms.count[side]["shotsOT"] + CountedFor(Missing, side, "shotsOT")
                                                      + CountedFor(recounted, side, "goals")
                      /\ ms.count[side]["yellow"] <=
                            ms.count[side]["fouls"] + CountedFor(Missing, side, "fouls")
                                                    + CountedFor(recounted, side, "yellow")
    BY DEF ConsequencesHaveCauses
  <2> DEFINE teams == TeamsOf(side, ms.home)
  <2>1. /\ ms.events \in Seq(MatchEvent) /\ stray \in Seq(MatchEvent)
        /\ dropped \in Seq(MatchEvent) /\ recounted \in Seq(MatchEvent)
        /\ Missing \in Seq(MatchEvent)
    BY DEF SimFacts, SimTypes, TypeOK, Stats, Missing
  <2>2. teams \in SUBSET (Teams \cup {NoTeam})
        /\ \A ev \in MatchEvent : ev.team \in teams <=> Side(ev, ms.home) = side
    BY DEF TeamsOf, Side, MatchEvent
  <2> HIDE DEF teams
  \* The counters and the histories, counted by team.
  <2>3. ASSUME NEW s \in Seq(MatchEvent), NEW k
        PROVE  CountedFor(s, side, k) = Occurs(s, teams, k)
    <3>1. \A i \in DOMAIN s : s[i].team \in teams <=> Side(s[i], ms.home) = side
      BY <2>2
    <3>2. {i \in DOMAIN s : k \in Bumped(s[i]) /\ Side(s[i], ms.home) = side}
            = {i \in DOMAIN s : Hit(s[i], teams, k)}
      BY <3>1 DEF Hit
    <3> QED
      BY <3>2 DEF Occurs, CountedFor
  <2>4. \A k \in Counters : ms.count[side][k] = Occurs(ms.events, teams, k)
    BY <2>1, <2>3 DEF SimFacts, CountersMatchHistory, Tally, CountedFor
  <2>5. ASSUME NEW link \in Links, link[1] \in Counters, link[2] \in Counters
        PROVE  ms.count[side][link[1]] <=
                 ms.count[side][link[2]] + CountedFor(Missing, side, link[2])
                                         + CountedFor(recounted, side, link[1])
    <3>1. Settled(teams, link[1]) <= Settled(teams, link[2])
      BY <2>2 DEF CauseInv, Balanced
    <3>2. Occurs(Missing, teams, link[2])
            = Occurs(stray, teams, link[2]) + Occurs(dropped, teams, link[2])
      BY <2>1, OccursConcat DEF Missing
    <3>3. \A k : /\ Occurs(ms.events, teams, k) \in Nat /\ Occurs(stray, teams, k) \in Nat
                 /\ Occurs(dropped, teams, k) \in Nat /\ Occurs(recounted, teams, k) \in Nat
      BY SettledParts
    <3>4. Occurs(ms.events, teams, link[1]) <=
            Occurs(ms.events, teams, link[2]) + Occurs(Missing, teams, link[2])
                                              + Occurs(recounted, teams, link[1])
      BY <3>1, <3>2, <3>3 DEF Settled
    <3>5. /\ CountedFor(Missing, side, link[2]) = Occurs(Missing, teams, link[2])
          /\ CountedFor(recounted, side, link[1]) = Occurs(recounted, teams, link[1])
      BY <2>1, <2>3
    <3> QED
      BY <2>4, <2>5, <3>4, <3>5
  <2>6. /\ <<"goals", "shotsOT">> \in Links /\ <<"yellow", "fouls">> \in Links
        /\ {"goals", "shotsOT", "yellow", "fouls"} \subseteq Counters
    BY DEF Links, Counters
  <2> QED
    BY <2>5, <2>6
<1> QED
  BY SimInvariant, <1>1, PTL
=============================================================================
