----------------------------- MODULE MCReadPath -----------------------------
(***************************************************************************)
(* Instances of ReadPath for TLC: the values of MCEventProcessor and one   *)
(* client.                                                                 *)
(***************************************************************************)
EXTENDS ReadPath, MCEventProcessor
=============================================================================
