------------------------------- MODULE ClkGate -------------------------------
(***************************************************************************)
(* What the active clients counter of the IPA driver promises: a vote is   *)
(* granted only while the hardware is clocked, a vote that is held is      *)
(* dropped once, and the hardware is gated only while nobody holds one.    *)
(***************************************************************************)
EXTENDS Naturals

VARIABLES
    on,      \* the IPA clocks are on
    votes    \* votes granted and not yet given back

vars == <<on, votes>>

Init == ~on /\ votes = 0

Clock == ~on /\ on' /\ UNCHANGED votes

Grant == on /\ votes' = votes + 1 /\ UNCHANGED on

Drop == votes > 0 /\ votes' = votes - 1 /\ UNCHANGED on

Gate == on /\ votes = 0 /\ ~on' /\ UNCHANGED votes

Next == Clock \/ Grant \/ Drop \/ Gate

Spec == Init /\ [][Next]_vars
=============================================================================
