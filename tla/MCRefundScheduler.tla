-------------------------- MODULE MCRefundScheduler --------------------------
(***************************************************************************)
(* Instances of RefundScheduler for TLC: one player, two bets, one or two  *)
(* servers that share the scheduler's lock.                                *)
(***************************************************************************)
EXTENDS RefundScheduler, TLC

CONSTANTS p1, r1, r2, b1, b2, s1, s2

MCWin == [s \in Steps |-> s + 2]
MCPlayerOf == [x \in Request \cup Bet |-> p1]

PlaySolo == {"play"}
AllSolo  == {"bet", "play"}

AllFaults == FaultKind

Symmetry == Permutations({b1, b2}) \cup Permutations({s1, s2})
=============================================================================
