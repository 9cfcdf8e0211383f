----------------------------- MODULE MCIngestion -----------------------------
(***************************************************************************)
(* Instances of Ingestion for TLC.                                         *)
(***************************************************************************)
EXTENDS Ingestion, TLC

Budget(timeout, write, crash, cancel) ==
    [k \in FaultKinds |->
        CASE k = "timeout" -> timeout
          [] k = "write"   -> write
          [] k = "crash"   -> crash
          [] k = "cancel"  -> cancel]

SomeFaults == Budget(2, 1, 1, 1)
NoFaults   == Budget(0, 0, 0, 0)
=============================================================================
