------------------------------ MODULE MatchFeed ------------------------------
(***************************************************************************)
(* What the event-processor promises to those who read match statistics,   *)
(* without replicas, caches, offsets or failures: events arrive, possibly  *)
(* more than once; each is folded into the history of its match, in some   *)
(* order and at most once as long as its id is remembered; and the feed    *)
(* announces nothing but histories a reader of the store can see.          *)
(*                                                                         *)
(* A step changes one match by one event: readers never see a history lose *)
(* an event, or gain two at a time.                                        *)
(***************************************************************************)
EXTENDS Naturals, Sequences

CONSTANTS
    Matches,   \* the matches
    Events,    \* the events, records with an id and a match
    Ids,       \* the ids events carry
    NoId,      \* the id of an event that carries none
    Messages   \* what may arrive, events and payloads that are not

VARIABLES
    arrived,    \* everything that arrived
    history,    \* the events of each match, as readers see them
    feed,       \* the histories announced
    forgotten   \* ids no longer remembered

vars == <<arrived, history, feed, forgotten>>

Init ==
    /\ arrived = <<>>
    /\ history = [m \in Matches |-> <<>>]
    /\ feed = <<>>
    /\ forgotten = {}

Arrive(msg) ==
    /\ arrived' = Append(arrived, msg)
    /\ UNCHANGED <<history, feed, forgotten>>

\* The event has no id, or a forgotten one, or is new to the match.
MayFold(ev) ==
    \/ ev.id = NoId
    \/ ev.id \in forgotten
    \/ \A i \in DOMAIN history[ev.match] : history[ev.match][i].id # ev.id

Fold(ev) ==
    /\ \E i \in DOMAIN arrived : arrived[i] = ev
    /\ MayFold(ev)
    /\ history' = [history EXCEPT ![ev.match] = Append(@, ev)]
    /\ UNCHANGED <<arrived, feed, forgotten>>

Announce(m) ==
    /\ feed' = Append(feed, [match |-> m, events |-> history[m]])
    /\ UNCHANGED <<arrived, history, forgotten>>

Forget(id) ==
    /\ forgotten' = forgotten \cup {id}
    /\ UNCHANGED <<arrived, history, feed>>

Next ==
    \/ \E msg \in Messages : Arrive(msg)
    \/ \E ev \in Events : Fold(ev)
    \/ \E m \in Matches : Announce(m)
    \/ \E id \in Ids : Forget(id)

Spec == Init /\ [][Next]_vars
=============================================================================
