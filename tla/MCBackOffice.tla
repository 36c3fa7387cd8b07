----------------------------- MODULE MCBackOffice -----------------------------
(***************************************************************************)
(* Instance for TLC of what the admin portal, the agents' API and the      *)
(* monthly jobs do beside the rounds: the calls about accounts, the        *)
(* creation of games, the clean-ups and the reports.  They share no state, *)
(* so that a behaviour of all is one of each; here one of them, chosen at  *)
(* the start, does its steps and the others stay as they are.              *)
(***************************************************************************)
EXTENDS Accounts, Onboarding, CleanUp, Reports

CONSTANTS r1, r2, r3, a1, m1, s1, s2

\* Two calls about one agent and its member, and a signup for that name.
MCAgentOf == [m \in Member |-> a1]
MCTasksOf ==
    [r \in Request |-> CASE r = r1 -> Task \ {"signup"}
                       [] r = r2 -> {"createAgent", "deleteAgent", "createMember"}
                       [] r = r3 -> {"signup"}]
MCScenarios == {{"stop"}, {"overlap", "stop"}}

\* Two servers create two games whose codes, my-road and my_road, have one table.
MCTableOf == [c \in GameCode |-> "game_config_my_road"]
MCMishaps == {{}, {"restart"}, {"fail"}, {"tune"}}

\* Two servers clean up when a month begins in UTC, with clocks that show UTC, or a time
\* west of it, or one east and one west.
Zoned(x, y) == [s \in Cleaner |-> IF s = s1 THEN x ELSE y]
MCZones == {Zoned(0, 0), Zoned(-1, -1), Zoned(1, -1)}
MCHitches == {{}, {"die"}, {"fail"}, {"slow"}, {"flush"}}

\* Two bets of two players on two games, one inactive, in pages of one.  The agent may
\* apply two ends of the first: a win twice, or a win and a refund.
MCColumns == [b \in Bet |->
    [userId |-> <<"u1", "u2">>[b], operatorId |-> <<"o1", "o2">>[b],
     gameCode |-> <<"g1", "g2">>[b], stake |-> 2, payout |-> 3,
     ends |-> <<{"won", "refunded"}, {"won", "lost"}>>[b]]]
MCMaxEnds == <<2, 1>>
MCPlatformOf == [g1 |-> "p1", g2 |-> "p2"]
Everything == [fromDate |-> 0, toDate |-> 1, operatorId |-> "any", userId |-> "any",
               gameCode |-> "any", platform |-> "any"]
MCFilter == {Everything,
             [Everything EXCEPT !.operatorId = "o1", !.toDate = 0],
             [Everything EXCEPT !.userId = "u1", !.gameCode = "g1"],
             [Everything EXCEPT !.platform = "p2", !.fromDate = 1]}
MCWalkFilter == {Everything}

-----------------------------------------------------------------------------
VARIABLE part    \* the part that moves

Part == {"accounts", "onboarding", "cleanUps", "reports"}
backOfficeVars == <<part, vars, onboardingVars, cleanUpVars, reportVars>>

BackOfficeInit ==
    /\ part \in Part
    /\ AccountsInit /\ OnboardingInit /\ CleanUpInit /\ ReportsInit
    /\ part # "accounts" => events = {"stop"}
    /\ part # "onboarding" <=> mishaps = {}
    /\ part # "cleanUps" <=> hitches = {}
    /\ part # "cleanUps" => zone = Zoned(0, 0)
    /\ hitches \in {{"slow"}, {"flush"}} => zone = Zoned(1, -1)

BackOfficeNext ==
    \/ /\ part = "accounts" /\ AccountsNext
       /\ UNCHANGED <<part, onboardingVars, cleanUpVars, reportVars>>
    \/ /\ part = "onboarding" /\ OnboardingNext
       /\ UNCHANGED <<part, vars, cleanUpVars, reportVars>>
    \/ /\ part = "cleanUps" /\ CleanUpNext
       /\ UNCHANGED <<part, vars, onboardingVars, reportVars>>
    \/ /\ part = "reports" /\ ReportsNext
       /\ UNCHANGED <<part, vars, onboardingVars, cleanUpVars>>

\* The fairness of FairAccountsSpec.
FairBackOfficeSpec ==
    /\ BackOfficeInit /\ [][BackOfficeNext]_backOfficeVars
    /\ \A r \in Request : SF_vars(Answer(r))

\* Every part is well typed.
BackOfficeTypeOK ==
    part \in Part /\ AccountsTypeOK /\ OnboardingTypeOK /\ CleanUpTypeOK /\ ReportsTypeOK
=============================================================================
