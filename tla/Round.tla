-------------------------------- MODULE Round --------------------------------
(***************************************************************************)
(* What a round promises its player, whatever goes on between the socket,  *)
(* Redis and the agent: a stake is taken, columns are crossed one after    *)
(* the other until the chicken is struck, and the round is settled at most *)
(* once, by the payout of exactly the column reached, or by nothing when   *)
(* the chicken was struck.                                                 *)
(***************************************************************************)
EXTENDS Integers

CONSTANTS
    Bet,      \* rounds, by their transaction ids
    Columns,  \* columns of the difficulty
    Win       \* what a round pays that has reached a column; Win[-1] the stake

VARIABLES
    stakes,       \* rounds whose stake was taken
    crossed,      \* the columns a round has crossed
    struck,       \* rounds whose chicken was hit
    settlements,  \* settlements a round has had
    payouts       \* their amounts

vars == <<stakes, crossed, struck, settlements, payouts>>

Init ==
    /\ stakes = {}
    /\ crossed = [b \in Bet |-> {}]
    /\ struck = {}
    /\ settlements = [b \in Bet |-> 0]
    /\ payouts = [b \in Bet |-> {}]

InPlay(b) == b \in stakes \ struck /\ settlements[b] = 0

\* The columns before this one are those that were crossed.
Reached(b, column) == crossed[b] = 0 .. column

Stake(b) ==
    /\ b \notin stakes
    /\ stakes' = stakes \cup {b}
    /\ UNCHANGED <<crossed, struck, settlements, payouts>>

Cross(b) ==
    /\ InPlay(b)
    /\ \E column \in 0 .. Columns - 1 :
          /\ Reached(b, column - 1)
          /\ crossed' = [crossed EXCEPT ![b] = @ \cup {column}]
    /\ UNCHANGED <<stakes, struck, settlements, payouts>>

\* The last column is safe.
Strike(b) ==
    /\ InPlay(b)
    /\ \E column \in 0 .. Columns - 2 : Reached(b, column - 1)
    /\ struck' = struck \cup {b}
    /\ UNCHANGED <<stakes, crossed, settlements, payouts>>

Settle(b) ==
    /\ b \in stakes
    /\ settlements[b] = 0
    /\ settlements' = [settlements EXCEPT ![b] = 1]
    /\ \E column \in -1 .. Columns - 1 :
          /\ Reached(b, column)
          /\ payouts' = [payouts EXCEPT ![b] = {IF b \in struck THEN 0 ELSE Win[column]}]
    /\ UNCHANGED <<stakes, crossed, struck>>

Next == \E b \in Bet : Stake(b) \/ Cross(b) \/ Strike(b) \/ Settle(b)

Spec == Init /\ [][Next]_vars
=============================================================================
