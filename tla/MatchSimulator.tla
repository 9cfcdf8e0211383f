--------------------------- MODULE MatchSimulator ---------------------------
(***************************************************************************)
(* The match-simulator's run: minute by minute it draws a list of events   *)
(* and sends them one after the other, and the aggregate of the match is   *)
(* folded from what arrives.  Everything between the two ends, event-api,  *)
(* Kafka and event-processor's deduplication (Ingestion and EventProcessor *)
(* model them), is what may become of an event that was sent: folded in at *)
(* once, later or never, and perhaps once more, whether sendWithRetry got  *)
(* its 202 or gave up.  Other clients may post events of the same match.   *)
(***************************************************************************)
EXTENDS MatchStats

CONSTANTS
    homeTeam, awayTeam, \* the simulator's teams
    matchMinutes,       \* 90 in the code
    halfTimeMinute,     \* 45 in the code
    MaxPerMinute,       \* bound: events generated in one minute
    MaxPosted,          \* bound: events other clients post
    MaxAstray,          \* bound: events not folded in when they are sent
    MaxRecounted        \* bound: events folded in once more

ASSUME SimulatorAssumption ==
    /\ {homeTeam, awayTeam} \subseteq Teams
    /\ matchMinutes \in Nat /\ halfTimeMinute \in Nat
    /\ MaxPerMinute \in Nat /\ MaxPosted \in Nat
    /\ MaxAstray \in Nat /\ MaxRecounted \in Nat

VARIABLES
    pc,        \* "minute", "send", "halfTime", "sleep", "fullTime", "stopped"
    minute,
    pending,   \* the events of this minute not sent yet
    stray,     \* events sent that may still be folded in
    dropped,   \* history: events sent that will not be
    recounted, \* history: events folded in once more
    posted     \* events of other clients

astrayVars == <<stray, dropped, recounted>>
simVars == <<pc, minute, pending, astrayVars, posted>>
matchVars == <<vars, simVars>>

SimInit ==
    /\ Init
    /\ pc = "minute" /\ minute = 1 /\ pending = <<>>
    /\ stray = <<>> /\ dropped = <<>> /\ recounted = <<>> /\ posted = 0

-----------------------------------------------------------------------------
(* generateMinuteEvents *)

NewEvent(m, type, team, detail) ==
    [team |-> team, type |-> type, detail |-> detail, minute |-> m]

\* pickTeamAndPlayer; players and coordinates are left out.
PickTeam == {homeTeam, awayTeam}

\* The scorer's team drawn anew.
ScorerDrawnAnew(m) ==
    UNION {{<<>>,
            <<NewEvent(m, "shot", t, "none")>>,
            <<NewEvent(m, "shot", t, "on_target"), NewEvent(m, "goal", u, "none")>>}
           : t, u \in PickTeam}

\* A shot; one on target may be a goal, scored by the team that shot.
Shots(m) ==
    UNION {{<<>>,
            <<NewEvent(m, "shot", t, "none")>>,
            <<NewEvent(m, "shot", t, "on_target")>>,
            <<NewEvent(m, "shot", t, "on_target"), NewEvent(m, "goal", t, "none")>>}
           : t \in PickTeam}

\* A foul, which may draw a yellow card for the team that committed it.
Fouls(m) ==
    UNION {{<<>>,
            <<NewEvent(m, "foul", t, "none")>>,
            <<NewEvent(m, "foul", t, "none"), NewEvent(m, "card", t, "yellow")>>}
           : t \in PickTeam}

Corners(m) == {<<>>} \cup {<<NewEvent(m, "corner", t, "none")>> : t \in PickTeam}

GenerateMinuteEvents(m) ==
    {shot \o foul \o corner :
        shot \in Shots(m), foul \in Fouls(m), corner \in Corners(m)}

-----------------------------------------------------------------------------
(* run *)

Generate ==
    /\ pc = "minute" /\ minute <= matchMinutes
    /\ \E evs \in GenerateMinuteEvents(minute) :
          /\ Len(evs) <= MaxPerMinute
          /\ Len(ms.events) + Len(evs) <= MaxEvents
          /\ pending' = evs
    /\ pc' = "send"
    /\ UNCHANGED <<vars, minute, astrayVars, posted>>

\* An event that is not folded in when it is sent is on its way or lost: its
\* attempts failed, the broker lost it after event-api's 202 (nobody waits for
\* an acknowledgement), or event-processor skips it after a crash.  A restart
\* from an older snapshot amounts to this too: it leaves the aggregate that
\* never folding the later events in would have left.
GoAstray(ev) ==
    /\ Len(stray) + Len(dropped) < MaxAstray
    /\ \/ stray' = Append(stray, ev) /\ UNCHANGED dropped
       \/ dropped' = Append(dropped, ev) /\ UNCHANGED stray
    /\ UNCHANGED <<vars, recounted>>

\* sendWithRetry returned nil, which promises no more than the 202.
Deliver ==
    /\ pc = "send" /\ pending # <<>>
    /\ \/ Receive(Head(pending)) /\ UNCHANGED astrayVars
       \/ GoAstray(Head(pending))
    /\ pending' = Tail(pending)
    /\ UNCHANGED <<pc, minute, posted>>

\* sendWithRetry returned an error and the context lives: one undeliverable
\* event does not abort the match.
GiveUp ==
    /\ pc = "send" /\ pending # <<>>
    /\ GoAstray(Head(pending))
    /\ pending' = Tail(pending)
    /\ UNCHANGED <<pc, minute, posted>>

MinuteSent ==
    /\ pc = "send" /\ pending = <<>>
    /\ pc' = IF minute = halfTimeMinute THEN "halfTime" ELSE "sleep"
    /\ UNCHANGED <<vars, minute, pending, astrayVars, posted>>

HalfTimeOver ==
    /\ pc = "halfTime"
    /\ pc' = "sleep"
    /\ UNCHANGED <<vars, minute, pending, astrayVars, posted>>

NextMinute ==
    /\ pc = "sleep"
    /\ minute' = minute + 1
    /\ pc' = "minute"
    /\ UNCHANGED <<vars, pending, astrayVars, posted>>

\* The loop ends.
FullTime ==
    /\ pc = "minute" /\ minute > matchMinutes
    /\ pc' = "fullTime"
    /\ UNCHANGED <<vars, minute, pending, astrayVars, posted>>

\* SIGTERM cancels the context.  run notices it at the top of a minute, when
\* the send in hand fails (the event may have got through all the same), or
\* in a sleep.
Stop ==
    /\ \/ /\ \/ pc = "minute" /\ minute <= matchMinutes
             \/ pc \in {"halfTime", "sleep"}
          /\ UNCHANGED <<vars, astrayVars>>
       \/ pc = "send" /\ pending # <<>> /\ GoAstray(Head(pending))
    /\ pc' = "stopped"
    /\ pending' = <<>>
    /\ UNCHANGED <<minute, posted>>

-----------------------------------------------------------------------------
(* Around the simulator *)

\* An event that was on its way is folded in.
LandLate ==
    \E i \in DOMAIN stray :
        /\ Receive(stray[i])
        /\ stray' = RemoveAt(stray, i)
        /\ UNCHANGED <<pc, minute, pending, dropped, recounted, posted>>

\* A second copy (a retry's, or a redelivery) gets past the deduplication,
\* which failed open or has forgotten the event.
Recount ==
    /\ Len(recounted) < MaxRecounted
    /\ \E i \in DOMAIN ms.events :
          /\ Receive(ms.events[i])
          /\ recounted' = Append(recounted, ms.events[i])
    /\ UNCHANGED <<pc, minute, pending, stray, dropped, posted>>

\* Another client's event of the same match.
PostOther ==
    /\ posted < MaxPosted
    /\ \E ev \in Events : Receive(ev)
    /\ posted' = posted + 1
    /\ UNCHANGED <<pc, minute, pending, astrayVars>>

SimStep ==
    \/ Generate \/ Deliver \/ GiveUp \/ MinuteSent
    \/ HalfTimeOver \/ NextMinute \/ FullTime

SimNext == SimStep \/ Stop \/ LandLate \/ Recount \/ PostOther

SimSpec == SimInit /\ [][SimNext]_matchVars

-----------------------------------------------------------------------------
(* Properties *)

\* The events sent that are not in the aggregate.
Missing == stray \o dropped

\* How many of these events bump the counter for the side, with home as it is
\* known now.
CountedFor(evs, side, k) ==
    Cardinality({i \in DOMAIN evs : /\ k \in Bumped(evs[i])
                                    /\ Side(evs[i], ms.home) = side})

\* How far the counters of a simulated match can contradict each other,
\* whichever side each team was learned as: a side has more goals than shots
\* on target, or more yellow cards than fouls, by no more than the shots or
\* fouls that were sent and are not folded in (given up, on their way, lost
\* after their 202, skipped after a crash) and the goals or cards that were
\* folded in twice.
ConsequencesHaveCauses ==
    posted = 0 =>
        \A side \in Sides :
            LET Bounded(consequence, cause) ==
                    ms.count[side][consequence] <=
                        ms.count[side][cause] + CountedFor(Missing, side, cause)
                                              + CountedFor(recounted, side, consequence)
            IN  Bounded("goals", "shotsOT") /\ Bounded("yellow", "fouls")
=============================================================================
