---------------------------- MODULE MCMatchStats ----------------------------
(***************************************************************************)
(* Instances of MatchStats and MatchSimulator for TLC.                     *)
(***************************************************************************)
EXTENDS MatchSimulator

CONSTANTS A, B

Ev(team, type, detail, m) ==
    [team |-> team, type |-> type, detail |-> detail, minute |-> m]

\* One event per branch of applyEvent's switch that behaves differently, from
\* either team and from none.
MCEvents ==
    {Ev(A, "goal", "none", 0), Ev(B, "shot", "on_target", 1),
     Ev(A, "shot", "none", 2), Ev(B, "card", "red", 2),
     Ev(NoTeam, "foul", "none", 2), Ev(B, "other", "none", 3)}
=============================================================================
