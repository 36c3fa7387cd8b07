# Verification of the chicken-road game server

The server plays a crash-style game for the players of many operators ("agents").
A player bets, a chicken crosses columns one at a time, and the player cashes out
before it is hit. Money moves only at the agent's wallet, over HTTP; the running
round lives in Redis; the bets table in MySQL is what everybody reports from.
Several instances of the server run side by side. The TLA+ modules here model the
parts where that can go wrong, TLC checks them on small instances, and TLAPS
proves what matters most for every instance.

Paths below are relative to the repository; `game-play.service.ts` is
`src/routes/gamePlay/game-play.service.ts`, and so on.

## 1. Inventory

| Component | State | Operations | Hard because |
|---|---|---|---|
| **Rounds**: `GamePlayService` | `gameSession:user-agent-game` and `bet-lock:user-agent` in Redis | bet, step, cash-out, read session or state, disconnect | every flow is read, await, write back; only the bet takes a lock; a failure after the debit undoes nothing |
| **Gateway**: `GamePlayGateway` | the socket's data | connect, disconnect, dispatch | messages of a socket are not queued: handlers overlap; it is served before it is admitted; a disconnect flushes Redis |
| **Wallet calls**: `SingleWalletFunctionsService` | none of its own; the agent's balance | placeBet, settleBet, refundBet, createRetryJobSafely | replies get lost, calls never arrive, agents reject; no timeout; job creation is not awaited |
| **Bets table**: `BetService` | `bets` rows: PLACED, WON, LOST, SETTLEMENT_FAILED, REFUNDED | insert, settle, update status, mark failed, find old, delete by date | read-then-save without a transaction, from four writers |
| **Refund scheduler** | `refund-scheduler-lock` | a run every session TTL + 2 min on each server | acts on rows and sessions that change under it |
| **Wallet retry** | `wallet_retry_jobs`, a run lock, a lock per job | create, find due, execute, reschedule, expire | every pod runs it each minute; pods die in the middle; un-awaited creation |
| **Leader election** | `leader:hazard-scheduler` (5 s lease), a renewal timer | tryBecomeLeader, isLeader, renewLease | renewal is GET then SET; nobody stands again |
| **Hazard rotation** | `hazards-game-difficulty`, a copy per server, the leader's timer, an init lock | rotate, schedule, access, lazy initialization, fallbacks | timers, accesses and messages interleave at each await |
| **Publish/subscribe** | channels and callbacks per server | publish, subscribe, deliver | a message may drop the copy somebody just made |
| **Fairness seeds**: `FairnessService` | `fairness:user-agent`; copies in sessions and bet rows | get or create, set user seed, rotate | read-modify-write by overlapping flows; a session keeps seeds that the record has left behind |
| **Clean-ups** (bets; audit records and retry jobs) | a lock and a last-run key each | monthly deletion on every server | several servers, failure or death half way, two tables behind one key; a UTC timer and local dates |
| **Games and their configuration**: `GameApiRoutesService`, `GameService`, `GameConfigService` | rows of `games`, a config table per normalized code, each server's memory of it | create a game in five statements, load and keep its hazards' configuration | nothing undoes a half-done creation; two codes share a table; memory goes stale |
| **Reports** of the portal: `AdminBetService`, `AdminPlayerSummaryService` | none of their own | list page by page, totals, players' rows | bets change between the statements; two services compute one revenue |
| **Agents, admins, members** | rows of `agents`, `admins`, `user` in MySQL | create, update and delete an agent, sign up, create a member | look-ups before a transaction or a save; two rows that belong together; row locks |
| User sessions, tokens, logins, audit records, last-win display, logging | rows and settings | look-ups, inserts | no protocol of several steps |

How they interact. The gateway starts a handler of `GamePlayService` per message.
A handler calls the wallet service, which calls the agent, writes the bets table
when a call fails, and hands the call to the retry queue. Hazard columns come
from the server's copy of the hazard state. The refund scheduler reads the bets
table and the sessions that handlers write, and calls the wallet service. The
retry scheduler calls the wallet service again and writes the bets table. The
hazard scheduler asks the election who leads, and tells other servers of a
rotation through publish/subscribe. The admin portal changes the agents that every
other part looks up, and reads the bets table for its reports; the agents' API creates
the members; the creation of a game fills the table that bets read their coefficients
from, and hazards their columns. The clean-ups delete the oldest rows of what the
others write. All locks in Redis are keys with a TTL, taken by SET NX and released by an
unconditional DEL.

What makes each correct:

- rounds: pays only what was earned; settles once, and for exactly the column that was
  reached; the table tells what the agent did; a stake is taken only outside a round;
  the lock is not shared;
- fairness: a round's stored seeds are those it was played with; a commitment that
  was shown is the one played next; a server seed that was shown is not played again;
- refunds: a stake is given back at most once, never for a round in play, never
  besides a settlement; every bet is resolved in the end;
- retries: one job per transaction; a success is final and, of a win or a refund, seen in
  the row; a failed settlement is settled or given up after 72 hours;
- election and hazards: the lease is not stolen, a leader goes on, a step is always
  checked against a state, patterns come in the order announced, and go on;
- accounts: an agent has the admin account made with it, and no other; creations
  replace nothing; no transactions deadlock but insertions of one name, which MySQL rolls
  back, and none keeps its locks;
- clean-ups: a date that is marked is clean, and a month is swept once;
- games: a game answered with success can be played, and its coefficients and hazards
  belong together; nothing resets what was tuned;
- reports: who turns the pages sees every bet; the revenue is the wallet's, as far as the
  rows tell it.

`PROJECT.json` lists the hazards line by line, with the properties that answer
to each and, where none does yet, why.

## 2. Modules

```
Round <--implements-- GamePlay ---- RefundScheduler     WalletRetry     LeaderElection ---- HazardRotation
                         |                |                  |                |                   |
                     MCGamePlay   MCRefundScheduler   MCWalletRetry           |            MCHazardRotation
                   GamePlayProofs   RefundProofs    WalletRetryProofs         +-- HazardProofs ----+
                GamePlayClientProofs

Accounts     CleanUp     Onboarding     Reports          Fairness
    |           |             |            |                 |
    +-----------+-- MCBackOffice ----------+             MCFairness
                BackOfficeProofs --- ReportsProofs    FairnessProofs
```

**GamePlay** is the life of a round. A `Request` is one activation of a handler;
`pc[r]` is the await at which it is suspended and `copy[r]` the `GameSession` it
read, or built, and changes locally until it writes it back. An action is the code
between two awaits whose effect another activation can see: `StepRead` is the GET
and the guards of `performStepFlow`, `StepSave` everything up to the SET. The
amount of a session is an element of the table `Win`; the constants do not fix
the coefficients. The wallet is three variables (`debited`, `credits`, `paid`),
what an agent that applies each request would have done. `passed` and `struck`
remember what really happened to the chicken. One `Player` stands for a user, an
agent and a game: a bet lock shared by several games of a user would only exclude
more. `Solo` says which messages the client sends only when it awaits no reply,
`Faults` what the environment may do: kill a handler, lose a reply, fail a call to
MySQL or Redis, hang longer than a TTL, flush Redis.

**Round** is what GamePlay promises its players, without sockets, Redis or an agent: a
stake is taken, columns are crossed one after the other until the chicken is struck,
and the round is settled at most once, by the payout of exactly the column reached, or
by nothing when it was struck. `Promise` in GamePlay is the refinement mapping (the
wallet's and the chicken's history variables), `PlayedAsPromised` the abstract
specification as a property. It holds for a client that awaits its replies; of any
other only `EarnedPayouts` and the table's truth remain, and `GamePlay_double_settle`
shows why.

A call that fails starts the creation of a retry job and does not wait for it: `creating`
are those under way, each a step of its own (`CreateRetryJob`) that comes before or after
the mark of the row and any other step, may find a job that stands for it, or fails, or
dies with its process (`CreationFails`). Jobs do not end here; `WalletRetry` has their
life.

**RefundScheduler** extends GamePlay with the runs of every server, so that rounds
go on between the query, the session check, the call and the updates. A row's age
is a bit: older than a session TTL. A run refunds a player's bets in batches; one bet of
a batch whose session is active keeps all of it for a later run.

**WalletRetry** has the two separate database calls of `createRetryJob`, the run of
each pod and its workers, one per job, down to each read and write of the job and
the bet row. A behaviour retries the calls of one `apiAction`: jobs and job locks of
the two have different keys. A settlement has one bet; a refund has the `Batch` its
job was created with, all of which the call gives back again and of which the retry
updates the job's own row. `lostRounds` are the bets settled with a win of 0:
`createRetryJob` stores no amount for them, the retry hands `"null"` to
`recordSettlement`, the decimal column refuses it (in MySQL's strict mode, the default),
and the error is swallowed, so that the job succeeds and the row stays SETTLEMENT_FAILED
(`Unrecordable`, section 4). The first call and the marks of its rows are one step here
(RefundScheduler and GamePlay have them apart). Time is three bits of a job: due, stale (ten minutes PROCESSING), late
(72 hours). `faults` is drawn once, so that one run covers several scenarios and
each property names the faults it withstands (`Within`).

**LeaderElection** has the key, each server's belief, and the renewal timer with its
GET and SET apart. **HazardRotation** extends it with one game and difficulty: per
server a timer activation and an access run side by side, each suspended at its
Redis calls. Time is a counter of ticks that stands still while an activation runs
(calls take milliseconds, a period five seconds). Who waits for another's initialization,
100 ms or, as a follower, a second, goes on when the time is over (`WaitEnds`): as a rule
a state is stored by then, and if not, because the other still loads its configuration,
that is the event `late`. Patterns are model values: any
may be drawn. `lapsed` remembers that Redis has let a state go whose time was over, which
it does only when no timer rotated it. `PatternsInTurn` is about any state that takes the
place of one whose time is over, for any servers and faults; `SubscribersCoherent` is
stated until something fails, an initialization is late or a state lapses, for after that it
does not hold (section 4). The sections at the end of the module are the invariants the proofs use.

**Fairness** is the provably-fair side of one user and agent: the record of the seeds,
the socket, and activations of four flows that use both. `task[r]` is the flow, `pc[r]`
the await, `local[r]` the `FairnessData` it read or made. A server seed is a number, its
hash the same number; a new one is the least number nothing refers to, which stands
for 32 random bytes that differ from all others. `promise` remembers what a client
relies on: the user seed acknowledged or shown last, and the commitment shown since
the last round; `played` the seeds each round began with. Where several flows call
`getOrCreateFairness` and fail, each goes on in its own way (`FairnessFails`). A bet
is reduced to its lock, its look at the session and the seeds it saves; a round to
its end, by the last step or a cash-out, which do the same to the seeds. The model has
one game: the key has none, so that rounds of two games at once share a server seed. A
settlement by the retry queue records no seeds and rotates none; its row is then shown
with invented ones (`generateFairnessData` without seeds), which is why
`HistoryShowsPlayed` is about rows that have seeds.

**Accounts** has five calls, each a read that lets it begin and statements that follow.
`agents`, `admins` and `members` are what is committed, which is what the reads see;
`agentLock` and `adminLock` name the open transaction that inserted or deleted a row,
and make other statements on that row wait. A commit applies what a transaction holds
and releases it, a rollback (a failing statement, a dead server) only releases; a
commit whose reply is lost is a commit. An INSERT that meets another's lock on its
username waits for a *shared* lock, as InnoDB does for a duplicate key (`WaitForName`).
When the holder rolls back all that waited share the name (`Shares`); each then wants it
for itself, and with two or more of them MySQL rolls one back (`DeadlockVictim`), until
one is left to insert. A uuid is a number, a new one the least that nothing
refers to, and `made` the uuid of the admin whose password hash the agent's row carries;
`paired` remembers whether `createAgent` or `signup` made an admin. TypeORM's `save()` of an entity with its key
set reads the row and then inserts or updates, hence `LoadMember`. Authentication is
on (`app.enableAuth`): a member is created only for a whitelisted agent.

**CleanUp** has the two monthly jobs, each server's run of each suspended at its Redis
and MySQL commands. `MonthBegins` is midnight UTC of the first of a month, when the timers
of all servers fire together, whatever their time zone. Cutoff and last-run key come from
the date that the server's own clock shows: in UTC and to the east of it the first of the
month, to the west the last of the old one, so that its cutoff is a month earlier
(`LocalMonth`, `Cutoff`). A month begins at another moment in each zone; rows made between
two such moments share their fate, and a table is the set of the moments it has rows of.
By then the locks (an hour) and the last-run keys (three days) are gone. `hitches`
names what may happen in a behaviour: failing commands, servers that die, runs that
outlive their lock, flushes.

**Onboarding** has the creation of a game by its statements, the hazard configuration
that each server keeps in memory, the hazards in Redis by the configuration their two
patterns were drawn with, and players who start rounds with the coefficients of the
table. `TableOf` is the config table of a game's normalized code, which two games may
share. Configurations are told apart by where they come from: the source table, an
operator's SQL, or the built-in defaults.

**Reports** has the bets as the portal sees them (`status`), what the agent did to them
(`applied`: how often it has applied each end, for a bet may be settled twice, or settled
and refunded, section 4), and an admin who turns the pages of the list, whose count and page are two
statements. The order of `betPlacedAt` is the relation `after`; a row's place on the list is
one more than the number of listed rows that come before it, and a page the rows whose
places `skip` and `take` let through. The totals and the players' rows are sums over sets
of rows. A bet to which more was applied than its row tells, or something else, makes the
revenue differ from the wallet; `ReportsMatchMoney` says by how much (`Untold`). What the model
leaves out on purpose, because the code does it visibly and no property could hold: a
reader may miss a row that comes onto the list between the last count and its page, or
one that leaves the list because its status is no longer the one asked for, and rows
with the same `betPlacedAt` may change places between two pages; a bet without
`betPlacedAt` is on no report; a game that is inactive belongs to a platform in the
summary and to none in the list.

**MCBackOffice** puts Accounts, Onboarding, CleanUp and Reports side by side. They share
no state, so that a behaviour of all is one of each; `part`, chosen at the start, says
which of them moves.

Operators named by a comment "Mutant: ..." are plausible bugs, put in place of the
definition they vary to see that the property they are paired with in
`PROJECT.json` notices. They are not part of any specification.

## 3. Runs

| Run | Instance | Shows |
|---|---|---|
| `GamePlay_rounds` | 1 player, 2 requests, 2 bets, 2 columns; any overlap, flushes | payouts are earned |
| `GamePlay_client` | 1 player, 3 requests, 2 bets, 3 columns; no overlapping plays; crash, lost, db | the rounds are those of `Round`; `SettledOnce`, `LiveSessionBacked`, `BetFlowsExclusive`, `NoDebitInPlay` |
| `GamePlay_double_settle` | 2 requests overlapping, no fault | **violated**: a round is settled twice |
| `Refund_bets` | 2 bets, 2 servers, lost replies | refunded once, not in play; failures queued |
| `Refund_faults` | 1 bet, 1 request, 1 server, 2 columns, all faults, fairness | the table follows the wallet; no bet PLACED for ever |
| `Refund_settle_race` | 2 bets, 1 server, no fault | **violated**: settled and refunded |
| `Retry_jobs` | 1 transaction (a second bet in its refund), 2 jobs, 2 pods, five scenarios, fairness | one active job, success shows and stays, a failed call is made good or given up |
| `Retry_duplicate` | 1 pod, the agent rejects | **violated**: two active jobs |
| `Hazard_rotation` | 2 servers, 2 patterns, 2 ticks, one crash or late initialization | a state is always served, in turn, and subscribers keep no replaced copy |
| `Hazard_live` | 2 servers, 1 pattern, one fault of four kinds, fairness | the lease is handed over through an absent key; the leader goes on |
| `Fairness_seeds` | 2 requests, 2 rounds, 6 server seeds, five sets of events | stored seeds are those played, a shown seed is played no more, nonces differ, commitments are kept |
| `BackOffice` | *accounts*: 3 requests used again and again, 1 agent, 1 member, 5 uuids, two sets of events, fairness; *games*: 2 servers, 2 codes with one table, 1 player; *clean-ups*: 2 servers in three pairs of time zones, months 0 to 3; *reports*: 2 bets, up to three ends, pages of one, 2 periods | agent and admin stay a pair, nothing is replaced, no deadlock but of one name's insertions, every call is answered; games are ready and played as configured; a marked date is clean, a month swept once; pages show all, sums match the wallet |

Bounds. Two requests make every pair of interleaved handlers, a third one lets a
bet of the next round run beside them. Two bets are a round and the one that
overwrites it. Two columns are one that may be struck and the last, which never
is; three add a step that leaves the round running. `Columns = 1` in `Refund_bets`
keeps the cash-out and the final step, the two ways to a settlement. `Refund_faults` has
one bet and one request, which dies, fails, hangs or is flushed at each of its awaits, and
what it left is met by the handlers that follow. With two bets and overlapping plays a
player may keep a session active for ever, and with it the batch from being refunded: that
bet then stays PLACED as long as he does. `MaxRefunds`,
`MaxCalls` cap calls the agent applies at one more than the property allows where
that is the question; `MaxRefunds` is 1 in `Refund_faults`, where a call that would be a
second refund is refused or lost instead. `MaxJobs` is one more than is right; `MaxCrashes` is 1: after
it another pod, or the same one, carries on. In the hazard runs one fault is allowed
and the clock reaches one or two periods: a state made, replaced, and replaced
again. Two servers are a leader and a follower; the races that need a third one (section 4)
come when the first state was made by a follower and lapsed, and the proofs hold for any
number. In `Fairness_seeds` six server seeds are one more than the record, the promise,
two rounds and two activations can refer to, so that a new one is always at hand; two
rounds are enough for one to be played under what the other left. Its scenarios are
nothing but awaited replies, overlaps, flushes with expiries, failing calls with
crashes, and dropped sockets, and each property says which it withstands: a dropped
socket leaves an old bet running beside the new connection's rounds, which may then be
played under a seed already shown. In `BackOffice` a request that is answered is
free for the next call, so that a deletion meets any sequence of others; the first does
all calls but signup, the second creations and deletions, the third signs up, so that
three insertions of a name can meet, of which the first rolls back and two share it. Five
numbers are as many as an admin, its agent and three calls can refer to with one to spare, and
more than the data of members need, so that a new one is always at hand. Its two games
have one table, the worst case; `PlayedGame` lets one of them be bet on and rotated, the
other only be created. Its clean-ups meet one month with old rows and know another:
`LastMonth` is one more than the month they start in, for a month's runs have nothing
from the last but the rows. Both servers' clocks show UTC, or both are west of it, or one
is east and one west; a zone is no more than its side of UTC. Two bets in pages of one are
a first and a last page, of two players, two games (one inactive) and all three outcomes;
`MaxEnds` lets the agent apply two ends to one of them, a win twice or a win and a refund; `LastPeriod` is 1,
so that one deletion comes in between. `Bet \ debited` being empty stops new bets, never
the handlers that run. Only `BackOffice` switches the deadlock check off: its months,
and its bets, come to an end.

Fairness. The refund and retry runs assume that calls return (the wallet's HTTP client
sets no timeout, so this is an assumption about agents), that intervals and cron jobs
fire again and again (strong for a lock that others also take), that Redis drops expired
keys, and that time passes for each
row. In `BackOffice` the statements of calls return, and MySQL serves those that wait for
a row in turn, hence strong fairness; its other parts are safety only. In the hazard run
a server that died need not come back, and players of each server go on playing, for
only an access brings a state back when a timer is gone.

## 4. What the violated runs say

- *Double settlement.* Nothing but the row is protected from settling twice:
  `recordSettlement` returns "to prevent double settlement" after the agent has
  been asked. A step or cash-out sent before the last is answered is enough.
- *Refund and settlement.* The session is inactive from the moment a cash-out
  saves it, the bet PLACED until the agent answers; the scheduler takes the one
  for a finished round and the other for an open bet.
- *Duplicate jobs.* A rejected settlement throws inside the `try` whose `catch`
  creates a second job.

What of this the reports show: the row of such a round has one result, the wallet two, so
that the revenue of the portal is too high by the end the row does not tell.

Further divergences have no run, as the models have them built in: failover, for only
a starting server stands for election (`Boot` in LeaderElection); the flush on
disconnect; the subscription that fails once and is never sent again (`deaf` in
HazardRotation); the refund retry that gives a whole batch back and marks one row, and the
retry of a lost round's settlement that succeeds and cannot be recorded in its row (both
`WorkerRecord`); the job whose creation dies with its process, so that a failed bet is never
retried (`CreationFails`); the clean-up of a server west of UTC, which still has the last
day of the old month, cuts a month earlier than its comment says and marks that day
(`LocalMonth`); and two of Accounts, under its event "overlap", without which
`DeletedTogether` and `MembersKept` are stated. A deletion that found an agent, while
another deletion and a new creation come before its own look at the admin or its
transaction, removes the new agent by its agentId and leaves the new admin, and
`createAgent` refuses that name from then on. And the second of two overlapping
creations of a member overwrites the first, and both succeed.

One more race needs three servers. When the first state was made by a follower, nobody
has a rotation timer, and the state lapses in Redis. The leader, which still has a copy
of it, then rotates that copy, while a server that has none initializes under a lock
that rotations do not take: each overwrites the fresh state of the other, before its
time. And the initializer subscribes only after its SET, so that it does not hear of the
rotation and keeps its own state until that is out of date. `PatternsInTurn` says what
holds all the same: a state whose time is over is followed by the pattern it announced.
Two servers suffice when an initialization takes longer than the 100 ms the other waits for
it: both store a state, no message is sent, and the first, if it has subscribed, keeps the
one that was replaced, hence the exclusion of `late` from `SubscribersCoherent`.

Four more are built into the modules of the back office, whose properties name what they
withstand: a server keeps the hazard configuration it read, or the defaults it fell back
to, after the table has changed; a creation that fails half way leaves an active game
without a configuration, and cannot be repeated; the creation of a game whose code
normalizes to the table of another copies the defaults over it; a bet whose agent
answered without a time is on no report. Three are outside the models: the players'
summary has a LIMIT and no OFFSET, so that all pages are the first; the filter options
for an agent's admin list the games of all agents; and a bet settled by the retry queue
is shown with seeds that are invented at each view. `PROJECT.json` has them all with
their lines.

## 5. Proofs

`GamePlayProofs` is about `Spec` of GamePlay for all players, requests, bets,
columns, payouts and faults, under `ConstantsAssumption`.

1. `HandlerInv` = `TypeOK` and what a suspended handler holds: a session from its
   read or debit on (`CopyHeld`), an active one while it plays (`RunningCopy`), and
   a column left to cross in every active session (`ColumnsLeft`). The type
   invariant alone is not inductive: `StepSave` writes `Win[step + 1]`, and that
   there is such a step is the last conjunct. `HandlersWellFormed`, `TypeCorrect`.
2. `MoneyInv` adds that every session whose round is active or pays, in Redis or in
   a handler's hands, has the amount of its column and all columns up to it crossed
   (`EarnedSessions`). It needs no exclusion: a stale copy written back is still a
   copy of something earned. `PayoutsAreEarned`. For the table it adds that a
   handler records only an amount the agent applied (`RecordedIsPaid`):
   `BooksFollowWallet`.
3. `BetFlowMutualExclusion` assumes that neither hangs nor flushes are among the
   faults, and uses `FlowOwnsLock`: the unconditional DEL of a flow deletes its own
   lock.

`GamePlayClientProofs` is about clients that send nothing while a step or a cash-out is
unanswered (`"play" \in Solo`); bets may overlap, and every fault may happen. Its
invariant `SoloInv` starts from `PlaysAlone`: a handler that plays is the only one of
its player. A session, in Redis or in a handler's hands, is one of a debited bet of its
own player (`Owned`); while it is active its round is neither struck nor settled
(`SessionSound`). A handler holds such a round until it saves its end; from
there to its reply nobody else's session is active, and until it asks the agent nothing
was settled (`RequestSound`). `BetSound` draws the conclusion per bet.
`RoundsSettledOnce` and `StruckRoundsLose` read off the parts. None of them mentions the
table: no handler decides by a row whether it plays or settles. `ActiveSessionsBacked`
adds that the row of a round in play says PLACED (`RowsPlaced`), since the handler that
writes another status has found no session of its player active and no other handler at
work.

It also shows that such a client's rounds implement `Round`
(`RoundsPlayedAsPromised`). `SoloInv` says that a round is settled once; for the column
it adds `LevelInv`: what a session, in Redis or held by a handler, says of its round is
what happened to it (`AtColumn`, `StruckAt`), from the bet until the agent is asked. Then
the initial states map to the initial state, and each step to a stake, a crossing, a
strike, a settlement or a stutter: expiries, flushes, crashes and failing writes leave
the mapped variables alone. `NoStakeInPlay` joins the two lines of argument: a bet flow
between its look at the session and its debit owns the lock (`FlowOwnsLock`, hence the
hypothesis of no hangs and flushes), so that nobody else has begun a round meanwhile
(`DebitGuarded`).

`RefundProofs` is about the rounds and the refund runs of any number of servers together.
The rounds' lemmas are used for the steps of the rounds, and the runs' steps are shown to
keep them (`BooksSurviveRefunds`). `FailedBetsAlwaysQueued`: before a row is marked its job is
under way or there (`FailuresQueued`), whichever of the mark and the un-awaited insert comes
first. A creation may find a job that is there and write none; for a settlement that job is of
the same bet, for a refund of the same batch, since a bet whose refund failed is no longer
PLACED, or about to be marked, and in no other batch (`RetriesApart`). That is where the lock
of the runs is needed, and why the property excludes what breaks it, beside failing MySQL
calls and processes that die with a creation under way.
`RefundsHappenOnce`: a run that goes on owns the lock (`RunOwnsLock`), what it still has to
do was not refunded (`RunFresh`), and the row of a stake that was given back is not PLACED any
more, unless the run that gave it back has yet to write it (`RefundBooked`); a run that dies or hangs longer
than its lock, or an update that fails after the agent was asked, breaks that, and the
property excludes them. `RefundedRoundsAreOver` is for a client that awaits its replies:
nothing changes the session that a step or a cash-out has read (`SessionsOwned`,
`PlaysCurrent`), so that none writes a session back whose bet a run has found out of
play, between its check and its call or later (`RefundsOutOfPlay`).

The last section carries what is proved of the rounds alone over to the rounds beside
refund runs. Every step of the composition is a step of `Next` or leaves all of the rounds'
variables but `row` and `jobs` alone (`StepsBeside`), and `SoloInv`, `LevelInv`,
`FlowOwnsLock` and `DebitGuarded` speak of neither: `EarnedBesideRefunds`,
`SettledOnceBesideRefunds`, `PromisedBesideRefunds` (the refinement of `Round`) and
`NoStakeInPlayBesideRefunds`. `RowsPlaced` does speak of rows; a run writes those of its
batch, which are out of play, and a round in play is not (`RowsPlacedBeside`), hence
`BackedBesideRefunds`, under the hypotheses of `RefundedRoundsAreOver`.

`WalletRetryProofs` is about any transactions, batches, jobs and pods.
`FinishedJobsAreLeft`: a worker that is about to write holds a job it found active after
it took the lock (`WorkersHaveJobs`, `WorkersHoldLocks`, `AttemptsOpen`), however old the
rows are that its run queried. `OneJobPerTransaction`: a run is alone (`RunsAlone`), and
a transaction has one active job, and one creation at a time, which saves a job only when
there is none; no attempt is due while a creation is in flight, and none begins while a run
works on the job (`TxSound`, `WorkerSound`). The property excludes the agent's rejection, which
creates twice (section 4), and runs that outlive their locks; calls, creations, MySQL and pods
may fail.
`SuccessIsShown` adds that a worker records the success in the row before it closes the
job (`Recorded`), for wins and refunds: what a lost round's row reads is left open.

`FairnessProofs`: `SeedsTypeCorrect`, and `HistoryIsHonest` by `HistoryInv`: a session,
stored or held, has the seeds its round began with (`SessionsUnaltered`), and an
activation that is past its read holds what it works on (`SeedsHeld`, `SessionHeld`).
For a client that awaits its replies and stays connected, `Alone` says that one activation
runs at a time, so that the record it read is still the record when it writes it back.
On that rest three invariants, each for the events its property withstands: outside of a
rotation no record, session or activation has seeds to play that the history shows
(`SecretInv`, `SeedsPlayedAreSecret`); nonces in the history are below the record's, but for
the round whose rotation is under way (`NoncesInv`, `NoncesTellRoundsApart`); the record has
what the client was shown (`PromiseInv`, `PromisesAreKept`).

`HazardProofs`: `LeaderInvariant` shows that, without stalls and flushes, a
server between the GET and the SET of its renewal holds the lease
(`RenewerHolds`), from which `LeaseHandover` follows. The rotation uses the election and
does nothing else to it: each of its steps is a step of the election or leaves it alone
(`RotationUsesElection`), hence `RotationKeepsLease`. The rest is about any number of servers,
patterns and periods.

- `TurnsAreTaken` needs no exclusion and withstands every fault. By `TurnInv` a server that makes a
  first state sees none in Redis whose time is over (`MakersSeeNone`): the clock stands
  while it works. A state on its way to Redis starts with the pattern that was due
  (`StoredNext`), and an access that found an expired state still holds it
  (`ExpiredHeld`).
- `HazardsAreServed`, with any number of crashes and late initializations. By `ServedInv` only the holder of the
  lease has a timer, rotates, or initializes without waiting (`LeaderWorks`), its timer
  comes before the state in Redis is out of date (`TimerInTime`), no rotation or message
  comes in the way of its initialization (`LeaderAlone`), and so it still has what it
  made when it unlocks (`LeaderRemembers`); an access that has a state keeps hold of it,
  or can create one (`AccessHolds`).
- `SubscribersAreCoherent`, without failures and late initializations, adds `CoherentInv`: until the clock moves after the first
  state, nothing is due and nobody has another state (`FirstTurn`); one server makes that
  state, under the lock (`OneInitializer`); from then on states change by rotations alone, and
  each is followed by a message to whoever subscribed (`ToldOrCurrent`).

`BackOfficeProofs` has four parts. For the accounts, `AccountsInv` says what each
transaction holds at each statement (`LocksOwned`, `WritersHold`), that a uuid not yet
stored is nobody else's (`UuidsFresh`), and that a deletion past its first statement has
locked the agent that belongs to the admin it found, or there is none (`DeletersHold`).
With `AgentHasAdmin` it is inductive: a creation that holds an admin's name knows that
there is no such admin, hence no such agent. That is also why the opposite lock orders
never close a circle: a transaction that waits for a lock somebody holds waits for one that
goes on, so that in a circle each waits for one that shares a name, and of those that share
a name nobody has, one is rolled back (`NoLockCycle`, for circles of any length). `AgentsKeepTheirAdmin`, `CreationsNeverReplace`,
`TransactionsDoNotDeadlock` hold for any number of calls, with overlapping deletions too.
`AloneInv` is for behaviours without overlaps of a kind (`CallsAlone`): the only deletion of
an agent finds its admin and, until it commits, both rows (`DeletersFind`), for what else
writes them waits for its locks; the only creation of a member that found none finds none
until it writes (`CreatorsFirst`). `AdminsGoWithTheirAgent` and `MembersAreKept` follow.

For the clean-ups, `CleanInv`: a run has cleaned the
tables it has gone through (`RunCleans`), so that what it marks is clean; no lock is
needed for that, deletions of the same months may overlap (`MarkedMonthsAreClean`, under
every event and in any time zones: a server that finds its own date marked would have cut
in the month in which the one did that marked it). That a month is swept once needs the lock,
and servers whose clocks show one date: `OnceInv` says that a run that
goes on holds it, that its holder's timer has gone off, and that either nothing was
deleted by anybody else, or the month is marked (`RunAlone`); a server that dies keeps the
lock from the others until none of them is due (`MonthsSweptOnce`). For the games,
`OnboardingInv`: of the creations of one game at most one has saved it (`OneCreation`), it
has done what its stage says, and its game is not answered for yet (`CreationSound`);
`GamesReady` and `TunedConfigsStay` follow. `FromSource` adds where everything comes from
when nothing fails and nobody tunes: a hazard in Redis or in memory, and a round in play,
only when the table is filled (`RoundsPlayedAsConfigured`).

The last part puts them together: each step of `BackOfficeNext` is a step of one part and
leaves the others alone (`BackOfficeIsItsParts`), so that every theorem about a part, from
`BackOfficeTypeCorrect` on, is one about all.

`ReportsProofs` begins with sums over finite sets (`SumFunctionOnSet` of the community
modules): that the recursion defines a function (`SumExists`), that any element may be
taken first (`SumOut`), that sums of differences, of unions and of groups are what they
should be (`SumDifference`, `SumUnion`, `SumOfGroups`). Each is proved by a least
counterexample among the subsets (`LeastSet`), since the induction theorem of the library
takes an operator. With them `ReportsAreTheMoney` needs one invariant about single rows:
one that ended tells of an end that the agent applied (`RowsTell`); what else was applied is
the difference. `ReadersSeeAll` rests on
`PagesTurned`: a row the reader came for and has not seen is on a page to come. Its place
never gets smaller, for rows leave this list only by deletions, and one that takes a row
before another takes that one too (`RowsOrdered`, `ListMoves`, `PlacesGrow`); and at the
last page no place is behind the count, unless a row came onto the list after it was
taken. `ReportsAssumption` asks for finitely many bets with integer amounts, of any sign.

The invariants named here that are not themselves properties were checked by TLC on the
instances of the runs before they were proved.

Only model-checked: all liveness (`PlacedBetsResolved`, `FailedIsRetried`,
`HazardsMoveOn`, `CallsAnswered`), as the prover does not treat fairness. Every other
property of the runs that pass is the statement of a theorem.

## 6. Not modelled

- The sessions of users, the tokens and the logins: a set that is only counted, and
  signatures; no protocol of several steps.
- The audit records, the log and the last-win display: written and never read back by
  the game. Their failures are in the models where they change what follows (an audit
  record that cannot be written costs a retry job, `CreationFails`).
- The views of a session, of the history and of the configuration, and the portal's
  look-up of one bet: one read and a formatting of it.
- `forceRotate`, `manualCleanup`, `setConfig`, `releaseLeadership`, `invalidateGameConfig`
  and the writes of `AgentsService` have no caller.
- Coefficient and money arithmetic (JavaScript numbers, `toFixed`) is a table in
  GamePlay; the distribution of hazards, hashes and seeds are model values; HTTP error
  mapping is a refusal or a lost reply.
- What no property can promise, because the code keeps no trace of it: a stake taken by
  an agent whose reply is lost; a failover of the leader; a bet flow that outlives its
  lock.

## 7. Running it

    tlc -config GamePlay_client.cfg MCGamePlay.tla
    tlapm GamePlayProofs.tla

Each run names its module and configuration in `PROJECT.json`; all end within
four minutes on two cores.
