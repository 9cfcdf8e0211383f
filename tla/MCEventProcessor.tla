-------------------------- MODULE MCEventProcessor --------------------------
(***************************************************************************)
(* Instances of EventProcessor for TLC: one or two replicas, two events    *)
(* with an id and one without, a malformed payload, and a fault budget per *)
(* run.                                                                    *)
(***************************************************************************)
EXTENDS EventProcessor, FiniteSets, TLC

CONSTANTS e1, e2, m1, m2

E(id, match) == [id |-> id, match |-> match]

\* Two events of one match: they share every snapshot.
TwoOfAMatch == {E(e1, m1), E(e2, m1)}

\* With a legacy event that carries no id.
WithLegacy == TwoOfAMatch \cup {E(NoId, m1)}

\* An event of its own match and a payload that does not parse.
WithMalformed == {E(e1, m1), Malformed}

Budget(redis, restore, retry, publish, crash, expire, rebalance) ==
    [k \in FaultKinds |->
        CASE k = "redis"     -> redis
          [] k = "restore"   -> restore
          [] k = "retry"     -> retry
          [] k = "publish"   -> publish
          [] k = "crash"     -> crash
          [] k = "expire"    -> expire
          [] k = "rebalance" -> rebalance]

TwoReplicas   == Budget(1, 0, 0, 0, 1, 1, 1)
OneReplica    == Budget(2, 0, 1, 0, 2, 1, 1)
Readable      == Budget(0, 0, 1, 1, 1, 0, 1)
LiveFaults    == Budget(1, 1, 0, 3, 1, 0, 1)
OneCrash      == Budget(0, 0, 0, 0, 1, 0, 0)
RestoreFails  == Budget(0, 1, 0, 0, 1, 0, 0)
Handover      == Budget(0, 0, 0, 0, 0, 0, 1)

\* The events of one match are interchangeable.
Symmetry == Permutations(EventIds) \cup Permutations(Consumers)
=============================================================================
