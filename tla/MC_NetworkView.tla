---------------------------- MODULE MC_NetworkView ----------------------------
(***************************************************************************)
(* Small views for TLC.  Addresses are model values listed best first.     *)
(***************************************************************************)
EXTENDS NetworkViewMachine

CONSTANTS p1, a1, a2, a3, c1, c2

BestFirst == <<a1, a2, a3>>
RankOf == [a \in Addr |-> CHOOSE i \in 1..3 : BestFirst[i] = a]

AllAtP1 == [c \in ConnId |-> p1]
===============================================================================
