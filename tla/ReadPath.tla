------------------------------ MODULE ReadPath ------------------------------
(***************************************************************************)
(* The event-processor and those who read what it writes: the query-api    *)
(* reads the Redis keys while they are written, and the predictions it     *)
(* serves were made from the snapshots published on match-stats.           *)
(***************************************************************************)
EXTENDS EventProcessor

CONSTANTS Clients   \* clients of the query-api

VARIABLES predictions, reply, todo, body, shown

Q == INSTANCE QueryApi

queryVars == <<reply, todo, body, shown>>
readVars  == <<predictions, queryVars>>

\* What a prediction was made from.
MadeFrom(snapshot) == snapshot.events

\* The ml-predictor stores a prediction made from a published snapshot; which
\* one is left open, as replays and handovers reorder them.
Predict ==
    /\ \E i \in DOMAIN published :
         predictions' = [predictions EXCEPT
                           ![published[i].match] = MadeFrom(published[i])]
    /\ UNCHANGED <<vars, queryVars>>

ReadInit == Init /\ Q!Init /\ predictions = Empty

ReadNext ==
    \/ Next /\ UNCHANGED readVars
    \/ Predict
    \/ \E k \in Clients : Q!Serve(k) /\ UNCHANGED <<vars, predictions>>

ReadSpec == ReadInit /\ [][ReadNext]_<<vars, readVars>>

-----------------------------------------------------------------------------
(* Properties *)

\* Every variable of the read path has its type.
ReadTypeOK ==
    /\ predictions \in [Matches -> Seq(Event)]
    /\ reply \in [Clients -> {"none", "pending", "ok", "error"}]
    /\ todo \in [Clients -> SUBSET Matches]
    /\ body \in [Clients -> [Matches -> Seq(Event)]]
    /\ shown \in [Clients -> [Matches -> Seq(Event)]]

\* What a client was shown of a match, by the list, the detail or a
\* prediction, it finds again whenever it asks for the match later, extended
\* at most: unless a crash took an event back that was shown before its match
\* was listed.
ShownStays ==
    \A k \in Clients, m \in Matches :
        \/ IsPrefix(shown[k][m], stats[m])
        \/ \E i \in DOMAIN shown[k][m] : shown[k][m][i].id \in abandoned

\* A list leaves a running match out only if a call to Redis failed: every
\* match it is about to read, and every match listed, has a snapshot.
ListedIsReadable ==
    /\ \A m \in active : stats[m] # <<>>
    /\ \A k \in Clients : \A m \in todo[k] : stats[m] # <<>>
=============================================================================
