----------------------------- MODULE MCGamePlay -----------------------------
(***************************************************************************)
(* Instances of GamePlay for TLC: one player with two or three handler     *)
(* activations, or two players, and a difficulty of two or three columns.  *)
(***************************************************************************)
EXTENDS GamePlay, TLC

CONSTANTS p1, p2, r1, r2, r3, b1, b2

OnePlayer  == {p1}
TwoPlayers == {p1, p2}

\* Payouts grow with the columns, the stake being 1.
MCWin == [s \in Steps |-> s + 2]

\* p2, when there is one, has the last request and the last transaction id.
MCPlayerOf ==
    [x \in Request \cup Bet |->
        IF Player = TwoPlayers /\ x \in {r3, b2} THEN p2 ELSE p1]

AllFaults == FaultKind
NoFlushNoSlow == {"crash", "lost", "db"}
NoLoss == {"lost", "slow", "flush"}
PlaySolo == {"play"}
AllSolo == {"bet", "play"}

Symmetry == Permutations({r1, r2}) \cup Permutations({b1, b2})
=============================================================================
