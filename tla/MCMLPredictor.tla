---------------------------- MODULE MCMLPredictor ----------------------------
(***************************************************************************)
(* Instances of MLPredictor for TLC.                                       *)
(***************************************************************************)
EXTENDS MLPredictor

CONSTANT m1

M(kind) == [match |-> m1, kind |-> kind]

\* A shot of either side and anything else.
AllKinds    == {M("homeShot"), M("awayShot"), M("other")}
ShotOrOther == {M("homeShot"), M("other")}

Budget(connect, redis, rebalance, timeout, crash) ==
    [k \in FaultKinds |->
        CASE k = "connect"   -> connect
          [] k = "redis"     -> redis
          [] k = "rebalance" -> rebalance
          [] k = "timeout"   -> timeout
          [] k = "crash"     -> crash]

SomeFaults == Budget(2, 1, 1, 1, 1)
NoFaults   == Budget(0, 0, 0, 0, 0)
=============================================================================
