----------------------------- MODULE MatchStats -----------------------------
(***************************************************************************)
(* The statistics of one match as event-processor keeps them: MatchStats   *)
(* and the pure function applyEvent that folds one event into it.          *)
(*                                                                         *)
(* Nothing is assumed of the order of the events: a second partition or a  *)
(* late request may deliver any of them at any time.                       *)
(***************************************************************************)
EXTENDS Naturals, Sequences, FiniteSets, SequencesExt

CONSTANTS
    Teams,      \* values of MatchEvent.Team
    NoTeam,     \* the empty Team
    Events,     \* events a producer may send
    MaxEvents   \* bound: length of a match

Types   == {"goal", "shot", "foul", "corner", "card", "other"}
Details == {"none", "on_target", "yellow", "red"}
Sides   == {"home", "away"}

\* The per-side counters of MatchStats.
Counters == {"goals", "shots", "shotsOT", "fouls", "corners", "yellow", "red"}

MatchEvent == [team : Teams \cup {NoTeam}, type : Types, detail : Details,
               minute : Nat]

ASSUME TeamsAssumption  == NoTeam \notin Teams
ASSUME EventsAssumption == Events \subseteq MatchEvent
ASSUME BoundAssumption  == MaxEvents \in Nat

VARIABLE ms  \* the aggregate

vars == <<ms>>

\* &MatchStats{MatchID: ..., Events: []MatchEvent{}}
NewStats ==
    [home |-> NoTeam, away |-> NoTeam, minute |-> 0,
     count |-> [s \in Sides |-> [k \in Counters |-> 0]],
     events |-> <<>>]

-----------------------------------------------------------------------------
(* applyEvent *)

\* Home is the first team seen, away the first other one; an event without
\* a team teaches nothing.
AwayMayBeHome(s, ev) ==
    IF ev.team = NoTeam THEN s
    ELSE IF s.home = NoTeam THEN [s EXCEPT !.home = ev.team]
    ELSE IF s.away = NoTeam THEN [s EXCEPT !.away = ev.team]
    ELSE s

LearnTeams(s, ev) ==
    IF ev.team = NoTeam THEN s
    ELSE IF s.home = NoTeam THEN [s EXCEPT !.home = ev.team]
    ELSE IF s.away = NoTeam /\ ev.team # s.home THEN [s EXCEPT !.away = ev.team]
    ELSE s

\* isHome; everything else counts for the away side, an event without a
\* team included.
Side(ev, home) ==
    IF ev.team # NoTeam /\ ev.team = home THEN "home" ELSE "away"

\* The counters an event bumps; an unknown type bumps none.
Bumped(ev) ==
    CASE ev.type = "goal"   -> {"goals"}
      [] ev.type = "shot"   -> {"shots"} \cup
                               (IF ev.detail = "on_target" THEN {"shotsOT"} ELSE {})
      [] ev.type = "foul"   -> {"fouls"}
      [] ev.type = "corner" -> {"corners"}
      [] ev.type = "card"   -> {ev.detail} \cap {"yellow", "red"}
      [] OTHER              -> {}

\* The side is decided before the event's own team is learned.
CountThenLearn(s, ev) ==
    LET side == Side(ev, s.home)
    IN  [LearnTeams(s, ev) EXCEPT
           !.count[side] = [k \in Counters |-> @[k] + IF k \in Bumped(ev) THEN 1 ELSE 0],
           !.minute = ev.minute,
           !.events = Append(@, ev)]

\* Minutes taken for 0-based.
MinuteOffByOne(s, ev) ==
    LET t    == LearnTeams(s, ev)
        side == Side(ev, t.home)
    IN  [t EXCEPT
           !.count[side] = [k \in Counters |-> @[k] + IF k \in Bumped(ev) THEN 1 ELSE 0],
           !.minute = ev.minute - 1,
           !.events = Append(@, ev)]

ApplyEvent(s, ev) ==
    LET t    == LearnTeams(s, ev)
        side == Side(ev, t.home)
    IN  [t EXCEPT
           !.count[side] = [k \in Counters |-> @[k] + IF k \in Bumped(ev) THEN 1 ELSE 0],
           !.minute = ev.minute,
           !.events = Append(@, ev)]

-----------------------------------------------------------------------------

Init == ms = NewStats

\* The processor folds an event in.
Receive(ev) ==
    /\ Len(ms.events) < MaxEvents
    /\ ms' = ApplyEvent(ms, ev)

Next == \E ev \in Events : Receive(ev)

Spec == Init /\ [][Next]_vars

-----------------------------------------------------------------------------
(* Properties *)

Stats == [home : Teams \cup {NoTeam}, away : Teams \cup {NoTeam}, minute : Nat,
          count : [Sides -> [Counters -> Nat]], events : Seq(MatchEvent)]

\* The aggregate has its type.
TypeOK == ms \in Stats

\* How often the history bumps counter k for the given side.
Tally(s, side, k) ==
    Cardinality({i \in DOMAIN s.events : /\ k \in Bumped(s.events[i])
                                         /\ Side(s.events[i], s.home) = side})

\* Every counter is the number of events in the history that count for that
\* side, with home as it is known now: no event was attributed to a side
\* that a later lesson about the teams contradicts.
CountersMatchHistory ==
    \A side \in Sides : \A k \in Counters : ms.count[side][k] = Tally(ms, side, k)

\* Home is the first team named in the history and away the first different
\* one, however many events without a team surround them.
TeamsFromHistory ==
    LET Named(i) == ms.events[i].team
        n == Len(ms.events)
    IN  /\ ms.home # NoTeam =>
             \E i \in 1 .. n : /\ Named(i) = ms.home
                              /\ \A j \in 1 .. i - 1 : Named(j) = NoTeam
        /\ ms.home = NoTeam => \A i \in 1 .. n : Named(i) = NoTeam
        /\ ms.away # NoTeam =>
             \E i \in 1 .. n : /\ Named(i) = ms.away /\ ms.away # ms.home
                              /\ \A j \in 1 .. i - 1 : Named(j) \in {NoTeam, ms.home}
        /\ ms.away = NoTeam => \A i \in 1 .. n : Named(i) \in {NoTeam, ms.home}

\* Had any one of the events come last instead, as a late request or a second
\* partition makes it, an aggregate that learned the same home team would
\* agree on every counter.
OrderIrrelevantForCounters ==
    \A i \in DOMAIN ms.events :
        LET other == FoldLeft(ApplyEvent, NewStats,
                              Append(RemoveAt(ms.events, i), ms.events[i]))
        IN  other.home = ms.home => other.count = ms.count
=============================================================================
