---------------------------- MODULE MCWalletRetry ----------------------------
(***************************************************************************)
(* Instances of WalletRetry for TLC: one transaction, two job rows, one or *)
(* two pods, and the sets of faults that the properties tell apart.  Its   *)
(* refund has a second bet.                                                *)
(***************************************************************************)
EXTENDS WalletRetry

CONSTANTS t1, t2, d1, d2

MCBatch == [t \in {t1} |-> {t1, t2}]

Calls(action, lost, kinds) == [apiAction |-> action, lostRounds |-> lost, faults |-> kinds]

MCScenarios == {Calls("SETTLE_BET", {}, {"net", "lost", "db", "nojob", "crash"}),
                Calls("SETTLE_BET", {}, {"net", "lost", "crash"}),
                Calls("SETTLE_BET", {t1}, {"net"}),
                Calls("SETTLE_BET", {}, {"lost", "slowrun"}),
                Calls("REFUND_BET", {}, {"net", "lost"})}
RejectOnly  == {Calls("SETTLE_BET", {}, {"reject"})}
=============================================================================
