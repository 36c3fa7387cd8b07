------------------------------- MODULE Reports -------------------------------
(***************************************************************************)
(* The admin portal's reports on the bets table: the list of bets and its  *)
(* totals (AdminBetService) and the players' summary                       *)
(* (AdminPlayerSummaryService), while bets are placed, settled, refunded,  *)
(* retried and, when they are old, deleted.                                *)
(*                                                                         *)
(* The filters on difficulty and currency are tests of a column, as those  *)
(* on the player and the game are, and are left out.                       *)
(***************************************************************************)
EXTENDS Integers, FiniteSetsExt

CONSTANTS
    Bet,           \* bets that may be placed
    Columns,       \* a bet's userId, operatorId, gameCode, stake, payout, and possible ends
    PlatformOf,    \* the platform in a game's row
    ActiveGame,    \* the games whose row has isActive
    Filter,        \* queries: fromDate, toDate, operatorId, userId, gameCode, platform
    WalkFilter,    \* those of them an admin reads page by page
    WalkStatus,    \* the statuses such an admin asks for
    PageLimit,
    LastPeriod,    \* bounds the periods of a behaviour
    MaxEnds,       \* bounds how many ends the agent applies to each bet
    AnyValue       \* a filter that is not given

Outcome == {"won", "lost", "refunded"}
RowStatus == Outcome \cup {"placed", "settlementFailed"}
Period == 0 .. LastPeriod

ASSUME ReportsAssumption ==
    /\ PageLimit \in Nat \ {0}
    /\ LastPeriod \in Nat
    /\ WalkFilter \subseteq Filter
    /\ WalkStatus \subseteq RowStatus \cup {"pending", AnyValue}
    /\ ActiveGame \subseteq DOMAIN PlatformOf
    /\ IsFiniteSet(Bet)
    /\ \A b \in Bet :
          Columns[b].stake \in Int /\ Columns[b].payout \in Int /\ Columns[b].ends \subseteq Outcome

VARIABLES
    period,    \* the clean-up of a period deletes the bets of those before
    status,    \* status of a bet's row; "none" before it has one, "deleted" after
    created,   \* the period of its createdAt, and of its betPlacedAt
    after,     \* the pairs of rows of which the first has the later betPlacedAt
    applied,   \* history: how often the agent has applied each end to a bet
    walk       \* an admin who reads the list page by page

reportVars == <<period, status, created, after, applied, walk>>

-----------------------------------------------------------------------------
(* Queries *)

\* WHERE betPlacedAt, operatorId, userId, gameCode; an agent's admin has the operatorId fixed.
Given(filter, column, value) == filter[column] \in {AnyValue, value}
InWhere(filter, b) ==
    /\ created[b] \in filter.fromDate .. filter.toDate
    /\ Given(filter, "operatorId", Columns[b].operatorId)
    /\ Given(filter, "userId", Columns[b].userId)
    /\ Given(filter, "gameCode", Columns[b].gameCode)

\* AdminBetService joins the game's row if it is active, the summary whether or not.
OnActivePlatform(filter, b) ==
    \/ filter.platform = AnyValue
    \/ Columns[b].gameCode \in ActiveGame /\ PlatformOf[Columns[b].gameCode] = filter.platform
OnPlatform(filter, b) == Given(filter, "platform", PlatformOf[Columns[b].gameCode])

Rows == {b \in Bet : status[b] \in RowStatus}
BetsFor(filter) == {b \in Rows : InWhere(filter, b) /\ OnActivePlatform(filter, b)}
PlayersBetsFor(filter) == {b \in Rows : InWhere(filter, b) /\ OnPlatform(filter, b)}

\* Mutant: refunded bets are income.
CountsRefunded(b) == TRUE

\* The sums leave out REFUNDED bets, and CANCELLED ones, of which there are none.
Counts(b) == status[b] # "refunded"
StakeSum(bets) == SumFunctionOnSet([b \in Bet |-> Columns[b].stake], {b \in bets : Counts(b)})
WinSum(bets) ==
    SumFunctionOnSet([b \in Bet |-> Columns[b].payout], {b \in bets : status[b] = "won"})
NetRevenue(bets) == StakeSum(bets) - WinSum(bets)

\* The players' summary has a row for each player and game, with its platform.
Groups(bets) == {<<Columns[b].userId, Columns[b].gameCode>> : b \in bets}
GroupOf(bets, g) == {b \in bets : <<Columns[b].userId, Columns[b].gameCode>> = g}

-----------------------------------------------------------------------------
(* The list of bets, a page at a time *)

\* The query may ask for a status: PENDING stands for those that are not final.
HasStatus(asked, s) ==
    \/ asked = AnyValue
    \/ asked = "pending" /\ s \in {"placed", "settlementFailed"}
    \/ asked = s

Listed == {b \in BetsFor(walk.filter) : HasStatus(walk.status, status[b])}

\* Mutant: ORDER BY betPlacedAt ASC.
OldestFirst(b, c) == <<c, b>> \in after

\* ORDER BY betPlacedAt DESC: a row comes before those that it was placed after.
ComesBefore(b, c) == <<b, c>> \in after
Place(b) == Cardinality({c \in Listed : ComesBefore(c, b)}) + 1

\* skip and take
Page(p) == {b \in Listed : Place(b) \in (p - 1) * PageLimit + 1 .. p * PageLimit}

NoWalk == [stage |-> "none", filter |-> AnyValue, status |-> AnyValue, page |-> 1,
           total |-> 0, shown |-> {}, there |-> {}, raced |-> FALSE, left |-> FALSE]

OpenList ==
    /\ walk.stage \in {"none", "done"}
    /\ \E f \in WalkFilter, s \in WalkStatus :
          walk' = [NoWalk EXCEPT !.stage = "open", !.filter = f, !.status = s]
    /\ UNCHANGED <<period, status, created, after, applied>>

\* An answer takes two statements: getCount, and getMany of the page.
CountRows ==
    /\ walk.stage \in {"open", "next"}
    /\ walk' = [walk EXCEPT !.stage = "count", !.total = Cardinality(Listed), !.raced = FALSE,
                            !.there = IF walk.stage = "open" THEN Listed ELSE @]
    /\ UNCHANGED <<period, status, created, after, applied>>

\* The reader goes on to the next page up to the answer's totalPages.
FetchPage ==
    /\ walk.stage = "count"
    /\ \/ /\ walk.page * PageLimit < walk.total
          /\ walk' = [walk EXCEPT !.stage = "next", !.shown = @ \cup Page(walk.page), !.page = @ + 1]
       \/ /\ walk.page * PageLimit >= walk.total
          /\ walk' = [walk EXCEPT !.stage = "done", !.shown = @ \cup Page(walk.page), !.page = 1]
    /\ UNCHANGED <<period, status, created, after, applied>>

-----------------------------------------------------------------------------
(* Bets *)

\* A row that may come onto the list between the two statements of an answer, or that
\* leaves it as its status is no longer the one asked for.
Leaves(b) ==
    /\ status[b] \in RowStatus /\ HasStatus(walk.status, status[b])
    /\ ~HasStatus(walk.status, status'[b])
MaySlip ==
    walk' = [walk EXCEPT !.raced = @ \/ walk.stage = "count", !.left = @ \/ \E b \in Bet : Leaves(b)]

\* betPlacedAt is the agent's balanceTs: a later row may have an earlier one, of the same
\* period; no two rows have the same.  A bet the agent answers without a balanceTs has none,
\* and is on no report.
PlaceBet(b) ==
    /\ status[b] = "none"
    /\ status' = [status EXCEPT ![b] = "placed"]
    /\ created' = [created EXCEPT ![b] = period]
    /\ \E later \in SUBSET {c \in Rows : created[c] = period} :
          /\ \A c \in later, d \in Rows : <<d, c>> \in after => d \in later
          /\ after' = after \cup (later \X {b}) \cup ({b} \X (Rows \ later))
    /\ MaySlip
    /\ UNCHANGED <<period, applied>>

Ends(b) == applied[b]["won"] + applied[b]["lost"] + applied[b]["refunded"]
Apply(b, o) ==
    /\ Ends(b) < MaxEnds[b]
    /\ applied' = [applied EXCEPT ![b][o] = @ + 1]

\* A settlement leaves a row that reads WON or LOST as it is; a refund asks for nothing.
AfterResult(s, o) == IF o # "refunded" /\ s \in {"won", "lost"} THEN s ELSE o

\* settleBet or refundBet, or a retry of theirs, reaches the agent, which applies it or knows
\* it, and the row tells of it: the first end of a bet, or one more (two settlements that
\* overlap, a refund beside a settlement: see GamePlay and RefundScheduler).
Resolve(b) ==
    /\ status[b] \in RowStatus
    /\ \E o \in Columns[b].ends :
          /\ \/ Apply(b, o)
             \/ status[b] = "settlementFailed" /\ applied[b][o] > 0 /\ UNCHANGED applied
          /\ status' = [status EXCEPT ![b] = AfterResult(@, o)]
    /\ MaySlip
    /\ UNCHANGED <<period, created, after>>

\* The agent refuses, or applies the call and its reply is lost: the row is marked whatever
\* it reads.
Fail(b) ==
    /\ status[b] \in RowStatus
    /\ status' = [status EXCEPT ![b] = "settlementFailed"]
    /\ UNCHANGED applied \/ \E o \in Columns[b].ends : Apply(b, o)
    /\ MaySlip
    /\ UNCHANGED <<period, created, after>>

PeriodEnds ==
    /\ period < LastPeriod
    /\ period' = period + 1
    /\ UNCHANGED <<status, created, after, applied, walk>>

NoEnds == [o \in Outcome |-> 0]
IsOld(b) == status[b] \in RowStatus /\ created[b] < period

\* deleteBetsBeforeDate: whatever their status.
DeleteBetsBeforeDate ==
    /\ \E b \in Bet : IsOld(b)
    /\ status' = [b \in Bet |-> IF IsOld(b) THEN "deleted" ELSE status[b]]
    /\ applied' = [b \in Bet |-> IF IsOld(b) THEN NoEnds ELSE applied[b]]
    /\ after' = {pair \in after : ~IsOld(pair[1]) /\ ~IsOld(pair[2])}
    /\ UNCHANGED <<period, created, walk>>

-----------------------------------------------------------------------------
ReportsInit ==
    /\ period = 0
    /\ status = [b \in Bet |-> "none"]
    /\ created = [b \in Bet |-> 0]
    /\ after = {}
    /\ applied = [b \in Bet |-> NoEnds]
    /\ walk = NoWalk

ReportsNext ==
    \/ OpenList \/ CountRows \/ FetchPage
    \/ \E b \in Bet : PlaceBet(b) \/ Resolve(b) \/ Fail(b)
    \/ PeriodEnds \/ DeleteBetsBeforeDate

ReportsSpec == ReportsInit /\ [][ReportsNext]_reportVars

-----------------------------------------------------------------------------
(* Properties *)

ReportsTypeOK ==
    /\ period \in Period
    /\ status \in [Bet -> RowStatus \cup {"none", "deleted"}]
    /\ created \in [Bet -> Period]
    /\ after \subseteq Bet \X Bet
    /\ applied \in [Bet -> [Outcome -> Nat]]
    /\ walk \in [stage : {"none", "open", "next", "count", "done"}, filter : {walk.filter},
                 status : WalkStatus \cup {AnyValue}, page : Nat \ {0}, total : Nat,
                 shown : SUBSET Bet, there : SUBSET Bet, raced : BOOLEAN,
                 left : BOOLEAN]

\* A reader who turns the pages of the list to the end has seen every bet that was on it
\* from the beginning to the end, though bets come, change and are deleted in between:
\* unless a row has left the status asked for, or one comes onto the list between the two
\* statements of the last answer (both can hide a row; see the README).
PagesShowAll ==
    walk.stage = "done" /\ ~walk.left /\ ~walk.raced => walk.there \cap Listed \subseteq walk.shown

\* The net revenue that the totals of the bets, the totals of the players and the rows of
\* the players' summary show is what the agent's wallet has taken less what it has given
\* back, for every filter (the two services differ on the platform of an inactive game),
\* but for the bets to which the agent applied an end that the row does not tell: the
\* reply was lost, or it applied more than one.  What those gave back is the difference.
GivenBack(b) == applied[b]["won"] * Columns[b].payout + applied[b]["refunded"] * Columns[b].stake
Taken(b) == Columns[b].stake - GivenBack(b)
Told(b) == Ends(b) = IF status[b] \in Outcome THEN 1 ELSE 0
Untold(b) ==
    GivenBack(b) - CASE status[b] = "won" -> Columns[b].payout
                     [] status[b] = "refunded" -> Columns[b].stake
                     [] OTHER -> 0
ReportsMatchMoney ==
    \A f \in Filter :
        LET bets == BetsFor(f)
            players == PlayersBetsFor(f)
            Cash(s) == SumFunctionOnSet([b \in Bet |-> Taken(b)], s)
            Missed(s) == SumFunctionOnSet([b \in Bet |-> Untold(b)], {b \in s : ~Told(b)})
            Row(g) == NetRevenue(GroupOf(players, g))
        IN  /\ NetRevenue(bets) = Cash(bets) + Missed(bets)
            /\ NetRevenue(players) = Cash(players) + Missed(players)
            /\ SumFunction([g \in Groups(players) |-> Row(g)]) = Cash(players) + Missed(players)

-----------------------------------------------------------------------------
(* Why PagesShowAll and ReportsMatchMoney hold *)

\* betPlacedAt agrees with the periods, and no row is placed after itself.
RowsOrdered ==
    /\ after \subseteq Rows \X Rows
    /\ \A b \in Bet : created[b] <= period
    /\ \A b, c \in Bet : <<b, c>> \in after => b # c /\ created[c] <= created[b]

\* A row that ended tells of an end that the agent applied.
RowsTell == \A b \in Bet : status[b] \in Outcome => applied[b][status[b]] > 0

\* A row that the reader came for and has not seen is on the page to come or a later one:
\* rows that are placed move it back, and a deletion that takes a row before it takes it too.
PagesTurned ==
    ~walk.left =>
        /\ walk.stage = "open" => walk.page = 1
        /\ \A b \in walk.there : b \in Listed \/ status[b] = "deleted"
        /\ walk.stage \in {"next", "count"} =>
              \A b \in (walk.there \cap Listed) \ walk.shown : Place(b) > (walk.page - 1) * PageLimit
        /\ walk.stage = "count" /\ ~walk.raced => Cardinality(Listed) <= walk.total

ReportsInv == ReportsTypeOK /\ RowsOrdered /\ RowsTell /\ PagesTurned /\ PagesShowAll
=============================================================================
