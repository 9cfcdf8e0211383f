------------------------------ MODULE QueryApi ------------------------------
(***************************************************************************)
(* services/query-api: the handlers that answer from Redis.  It keeps no   *)
(* state; /matches reads the set of active matches and then one key per    *)
(* match, so a request interleaves with whatever writes these keys.        *)
(*                                                                         *)
(* A client has one request at a time.  A call to Redis may fail at any    *)
(* time; nothing bounds how often, as a failure leaves nothing behind.     *)
(***************************************************************************)
EXTENDS Naturals, Sequences

CONSTANTS
    Clients,   \* clients of the query-api
    Matches    \* values of MatchEvent.MatchID

VARIABLES
    \* Redis, read only: <<>> when the key does not exist
    stats,        \* match:<id>:stats
    active,       \* matches:active
    predictions,  \* match:<id>:predictions, as the history it was made from
    \* the request of each client
    reply,        \* "pending" while /matches is served, else the last answer
    todo,         \* matches it has still to read
    body,         \* the snapshots it has collected
    \* history
    shown         \* the longest history of each match the client was shown

\* Without a place for a match that is answered before it is listed.
NothingOfTheListed == [m \in active |-> <<>>]

Nothing == [m \in Matches |-> <<>>]

Init ==
    /\ reply = [k \in Clients |-> "none"]
    /\ todo = [k \in Clients |-> {}]
    /\ body = [k \in Clients |-> Nothing]
    /\ shown = [k \in Clients |-> Nothing]

Answer(k, what) == reply' = [reply EXCEPT ![k] = what]

\* The client has seen these histories, <<>> where it saw none.
Show(k, histories) ==
    shown' = [shown EXCEPT ![k] =
        [m \in Matches |-> IF Len(histories[m]) >= Len(@[m]) THEN histories[m]
                                                             ELSE @[m]]]

-----------------------------------------------------------------------------
(* matchesHandler *)

\* ActiveMatchIDs: the matches to read, or a 500.
List(k) ==
    /\ reply[k] # "pending"
    /\ \/ Answer(k, "pending") /\ todo' = [todo EXCEPT ![k] = active]
       \/ Answer(k, "error") /\ UNCHANGED todo
    /\ UNCHANGED <<body, shown>>

\* Get of one match: one that fails or finds no key is skipped.
Get(k) ==
    /\ \E m \in todo[k] :
         /\ todo' = [todo EXCEPT ![k] = @ \ {m}]
         /\ body' \in {body, [body EXCEPT ![k][m] = stats[m]]}
    /\ UNCHANGED <<reply, shown>>

Reply(k) ==
    /\ reply[k] = "pending" /\ todo[k] = {}
    /\ Answer(k, "ok")
    /\ Show(k, body[k])
    /\ body' = [body EXCEPT ![k] = Nothing]
    /\ UNCHANGED todo

-----------------------------------------------------------------------------
(* matchDetailHandler *)

\* One GET: what the key of the match holds; or no answer with data, because
\* the key is not there (404, no predictions yet), the call failed (500) or
\* the path names no match (400).
GetOne(k, key) ==
    /\ reply[k] # "pending"
    /\ \/ \E m \in Matches : /\ key[m] # <<>>
                             /\ Answer(k, "ok")
                             /\ Show(k, [Nothing EXCEPT ![m] = key[m]])
       \/ Answer(k, "error") /\ UNCHANGED shown
    /\ UNCHANGED <<todo, body>>

Detail(k)      == GetOne(k, stats)
Predictions(k) == GetOne(k, predictions)

Serve(k) == List(k) \/ Get(k) \/ Reply(k) \/ Detail(k) \/ Predictions(k)
=============================================================================
