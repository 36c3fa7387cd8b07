------------------------------ MODULE GamePlay ------------------------------
(***************************************************************************)
(* The life of a round: GamePlayService (bet, step and cash-out flows),    *)
(* the Redis game session and bet lock they share, the wallet calls of     *)
(* SingleWalletFunctionsService, and the bet rows of BetService.           *)
(*                                                                         *)
(* A Request is one activation of a handler.  Every action below is the    *)
(* code between two awaits whose result or effect another activation can   *)
(* see; `copy[r]' is the GameSession object the handler read, or built,    *)
(* and mutates locally until it writes it back.                            *)
(***************************************************************************)
EXTENDS Integers, FiniteSets

CONSTANTS
    Player,      \* one (user, agent, game): a session key and a bet lock
    Request,     \* handler activations; each belongs to one player
    Bet,         \* platform transaction ids (bounds the rounds of a behaviour)
    PlayerOf,    \* the player of a request or of a transaction id
    Columns,     \* length of the coefficients array of the difficulty
    Win,         \* Win[s] = betAmount * coefficients[s]; Win[-1] = betAmount
    Solo,        \* kinds of request a client sends only when it awaits no reply
    Faults,      \* what the environment may do in this instance
    NoSession,   \* the key is absent
    Free         \* the lock key is absent

InitialStep == -1
Column == 0 .. Columns - 1
Steps  == InitialStep .. Columns - 1

FaultKind == {"crash",   \* the process running a handler dies
              "lost",    \* the agent applies a call and the reply is lost
              "db",      \* a MySQL, Redis or configuration call fails
              "slow",    \* a handler outlives its lock or a session's TTL
              "flush"}   \* some client disconnects, which flushes Redis

Session == [bet: Bet, active: BOOLEAN, step: Steps, amount: Nat]
Status  == {"none", "PLACED", "WON", "LOST", "SETTLEMENT_FAILED", "REFUNDED"}
Row     == [status: Status, win: Nat]
\* A retry job names one transaction; a refund job carries its whole batch.
Job     == [kind: {"settle", "refund"}, bet: Bet, batch: SUBSET Bet]
SettleJob(s) == [kind |-> "settle", bet |-> s.bet, batch |-> {s.bet}]

ASSUME ConstantsAssumption ==
    /\ Columns \in Nat \ {0}
    /\ Win \in [Steps -> Nat \ {0}]
    /\ PlayerOf \in [Request \cup Bet -> Player]
    /\ Solo \subseteq {"bet", "play"}
    /\ Faults \subseteq FaultKind
    /\ NoSession \notin Session
    /\ Free \notin Request

VARIABLES
    pc,        \* where each activation is suspended
    copy,      \* its local GameSession
    session,   \* Redis gameSession:user-agent-game
    betLock,   \* Redis bet-lock:user-agent, with the request that set it
    row,       \* the bets table
    jobs,      \* wallet calls handed to the retry queue
    creating,  \* jobs whose creation was started, which no handler waits for
    \* the agent's wallet, as seen by the requests it has applied
    debited,   \* stakes taken
    credits,   \* number of settlements applied for a transaction
    paid,      \* amounts of those settlements
    \* history of the round
    passed,    \* columns a bet has crossed
    struck     \* bets whose chicken was hit

handlerVars == <<pc, copy>>
redisVars   == <<session, betLock>>
retryVars   == <<jobs, creating>>
dbVars      == <<row, retryVars>>
walletVars  == <<debited, credits, paid>>
roundVars   == <<passed, struck>>
vars == <<pc, copy, session, betLock, row, jobs, creating, debited, credits, paid, passed,
          struck>>

BetPC  == {"bet_check", "bet_debit", "bet_row", "bet_save", "bet_unlock"}
PlayPC == {"step", "cashout", "settle", "settle_failed", "record",
           "record_save", "clear"}

TypeOK ==
    /\ pc \in [Request -> {"idle"} \cup BetPC \cup PlayPC]
    /\ copy \in [Request -> Session \cup {NoSession}]
    /\ session \in [Player -> Session \cup {NoSession}]
    /\ betLock \in [Player -> Request \cup {Free}]
    /\ row \in [Bet -> Row]
    /\ jobs \subseteq Job
    /\ creating \subseteq Job
    /\ debited \subseteq Bet
    /\ credits \in [Bet -> Nat]
    /\ paid \in [Bet -> SUBSET Nat]
    /\ passed \in [Bet -> SUBSET Column]
    /\ struck \subseteq Bet

Init ==
    /\ pc = [r \in Request |-> "idle"]
    /\ copy = [r \in Request |-> NoSession]
    /\ session = [p \in Player |-> NoSession]
    /\ betLock = [p \in Player |-> Free]
    /\ row = [b \in Bet |-> [status |-> "none", win |-> 0]]
    /\ jobs = {}
    /\ creating = {}
    /\ debited = {}
    /\ credits = [b \in Bet |-> 0]
    /\ paid = [b \in Bet |-> {}]
    /\ passed = [b \in Bet |-> {}]
    /\ struck = {}

-----------------------------------------------------------------------------
(* Helpers *)

InFlight(p) == {r \in Request : PlayerOf[r] = p /\ pc[r] # "idle"}
Kind(r)     == IF pc[r] \in BetPC THEN "bet" ELSE "play"

\* The server takes any message at any time; what a client overlaps is Solo.
MayStart(r, kind) ==
    /\ pc[r] = "idle"
    /\ \A q \in InFlight(PlayerOf[r]) : kind \notin Solo /\ Kind(q) \notin Solo

\* !session || !session.isActive
IsActive(s) == s # NoSession /\ s.active

\* Mutant: the round starts on the first column instead of before it.
NewSessionOnFirstColumn(b) ==
    [bet |-> b, active |-> TRUE, step |-> 0, amount |-> Win[InitialStep]]

NewSession(b) == [bet |-> b, active |-> TRUE, step |-> InitialStep, amount |-> Win[InitialStep]]

Goto(r, label) == pc' = [pc EXCEPT ![r] = label]
Finish(r) == /\ pc' = [pc EXCEPT ![r] = "idle"]
             /\ copy' = [copy EXCEPT ![r] = NoSession]

-----------------------------------------------------------------------------
(* performBetFlow *)

\* Mutant: the lock is set without NX.
BetOverwriteLock(r) ==
    /\ MayStart(r, "bet")
    /\ betLock' = [betLock EXCEPT ![PlayerOf[r]] = r]
    /\ Goto(r, "bet_check")
    /\ UNCHANGED <<copy, session, dbVars, walletVars, roundVars>>

\* SET bet-lock NX; a held lock returns ACTIVE_SESSION_EXISTS and changes nothing.
BetAcquireLock(r) ==
    /\ MayStart(r, "bet")
    /\ betLock[PlayerOf[r]] = Free
    /\ betLock' = [betLock EXCEPT ![PlayerOf[r]] = r]
    /\ Goto(r, "bet_check")
    /\ UNCHANGED <<copy, session, dbVars, walletVars, roundVars>>

\* An active session, an invalid payload or a failing read: an error, no debit.
BetRejected(r) ==
    /\ pc[r] = "bet_check"
    /\ Goto(r, "bet_unlock")
    /\ UNCHANGED <<copy, redisVars, dbVars, walletVars, roundVars>>

\* Mutant: the session is not looked at.
BetAcceptedInPlay(r) ==
    /\ pc[r] = "bet_check"
    /\ Goto(r, "bet_debit")
    /\ UNCHANGED <<copy, redisVars, dbVars, walletVars, roundVars>>

BetAccepted(r) ==
    /\ pc[r] = "bet_check"
    /\ ~IsActive(session[PlayerOf[r]])
    /\ Goto(r, "bet_debit")
    /\ UNCHANGED <<copy, redisVars, dbVars, walletVars, roundVars>>

\* The agent takes the stake under a fresh platformTxId.  A lost reply looks
\* like a rejection to the server: placeBet has no retry job.
BetDebit(r) ==
    /\ pc[r] = "bet_debit"
    /\ \E b \in Bet \ debited :
          /\ PlayerOf[b] = PlayerOf[r]
          /\ debited' = debited \cup {b}
          /\ \/ /\ copy' = [copy EXCEPT ![r] = NewSession(b)]
                /\ Goto(r, "bet_row")
             \/ /\ "lost" \in Faults
                /\ Goto(r, "bet_unlock")
                /\ UNCHANGED copy
    /\ UNCHANGED <<redisVars, dbVars, credits, paid, roundVars>>

BetRefused(r) ==
    /\ pc[r] = "bet_debit"
    /\ Goto(r, "bet_unlock")
    /\ UNCHANGED <<copy, redisVars, dbVars, walletVars, roundVars>>

\* BetService.createPlacement
CreatePlacement(r) ==
    /\ pc[r] = "bet_row"
    /\ row' = [row EXCEPT ![copy[r].bet].status = "PLACED"]
    /\ Goto(r, "bet_save")
    /\ UNCHANGED <<copy, redisVars, retryVars, walletVars, roundVars>>

BetSaveSession(r) ==
    /\ pc[r] = "bet_save"
    /\ session' = [session EXCEPT ![PlayerOf[r]] = copy[r]]
    /\ copy' = [copy EXCEPT ![r] = NoSession]
    /\ Goto(r, "bet_unlock")
    /\ UNCHANGED <<betLock, dbVars, walletVars, roundVars>>

\* Mutant: an insert that fails is logged and the flow goes on.
BetFailsSwallowed(r) ==
    /\ "db" \in Faults
    /\ pc[r] = "bet_row"
    /\ Goto(r, "bet_save")
    /\ UNCHANGED <<copy, redisVars, dbVars, walletVars, roundVars>>

\* After the debit: the game is inactive or the insert fails ("bet_row"); no
\* coefficients, no fairness seeds or no Redis ("bet_save").  Nothing is undone.
BetFails(r) ==
    /\ "db" \in Faults
    /\ pc[r] \in {"bet_row", "bet_save"}
    /\ Goto(r, "bet_unlock")
    /\ copy' = [copy EXCEPT ![r] = NoSession]
    /\ UNCHANGED <<redisVars, dbVars, walletVars, roundVars>>

\* finally { releaseLock }: an unconditional DEL, whoever set the key; a failing
\* one is logged.
BetReleaseLock(r) ==
    /\ pc[r] = "bet_unlock"
    /\ \/ betLock' = [betLock EXCEPT ![PlayerOf[r]] = Free]
       \/ "db" \in Faults /\ UNCHANGED betLock
    /\ Finish(r)
    /\ UNCHANGED <<session, dbVars, walletVars, roundVars>>

-----------------------------------------------------------------------------
(* performStepFlow and performCashOutFlow: neither takes a lock *)

ReadSession(r, label) ==
    /\ MayStart(r, "play")
    /\ IsActive(session[PlayerOf[r]])
    /\ copy' = [copy EXCEPT ![r] = session[PlayerOf[r]]]
    /\ Goto(r, label)
    /\ UNCHANGED <<redisVars, dbVars, walletVars, roundVars>>

\* A line other than currentStep + 1 is refused and changes nothing.
StepRead(r, line) ==
    /\ ReadSession(r, "step")
    /\ line = session[PlayerOf[r]].step + 1

\* The last column is never checked against the hazards.
StepSave(r, hit) ==
    /\ pc[r] = "step"
    /\ LET s    == copy[r]
           line == s.step + 1
           last == line = Columns - 1
           new  == [s EXCEPT !.step = line,
                             !.amount = IF hit THEN 0 ELSE Win[line],
                             !.active = ~(hit \/ last)]
       IN  /\ hit => ~last
           /\ session' = [session EXCEPT ![PlayerOf[r]] = new]
           /\ IF hit \/ last
                THEN copy' = [copy EXCEPT ![r] = new] /\ Goto(r, "settle")
                ELSE Finish(r)
           /\ passed' = IF hit THEN passed
                        ELSE [passed EXCEPT ![s.bet] = @ \cup {line}]
           /\ struck' = IF hit THEN struck \cup {s.bet} ELSE struck
    /\ UNCHANGED <<betLock, dbVars, walletVars>>

CashOutRead(r) == ReadSession(r, "cashout")

\* Mutant: the saved session stays active until it is deleted.
CashOutSaveActive(r) ==
    /\ pc[r] = "cashout"
    /\ session' = [session EXCEPT ![PlayerOf[r]] = copy[r]]
    /\ Goto(r, "settle")
    /\ UNCHANGED <<copy, betLock, dbVars, walletVars, roundVars>>

CashOutSave(r) ==
    /\ pc[r] = "cashout"
    /\ LET new == [copy[r] EXCEPT !.active = FALSE]
       IN  /\ session' = [session EXCEPT ![PlayerOf[r]] = new]
           /\ copy' = [copy EXCEPT ![r] = new]
    /\ Goto(r, "settle")
    /\ UNCHANGED <<betLock, dbVars, walletVars, roundVars>>

\* Hazards, session TTL or the write fail before the save ("step", "cashout");
\* game payloads or the agent record fail after it ("settle"): the session is
\* then inactive, the bet PLACED, and no settlement was ever sent.
PlayFails(r) ==
    /\ "db" \in Faults
    /\ pc[r] \in {"step", "cashout", "settle"}
    /\ Finish(r)
    /\ UNCHANGED <<redisVars, dbVars, walletVars, roundVars>>

-----------------------------------------------------------------------------
(* settleBet, then recordSettlement and the deletion of the session *)

SettleAccepted(r) ==
    /\ pc[r] = "settle"
    /\ LET b == copy[r].bet
       IN  /\ credits' = [credits EXCEPT ![b] = @ + 1]
           /\ paid' = [paid EXCEPT ![b] = @ \cup {copy[r].amount}]
    /\ \/ /\ Goto(r, "record")
          /\ UNCHANGED creating
       \/ /\ "lost" \in Faults
          /\ Goto(r, "settle_failed")
          /\ creating' = creating \cup {SettleJob(copy[r])}
    /\ UNCHANGED <<copy, redisVars, row, jobs, debited, roundVars>>

\* Rejected by the agent, or the call never reached it.  The audit record and the retry
\* job that follows it are started here, and nobody waits for them.
SettleRefused(r) ==
    /\ pc[r] = "settle"
    /\ Goto(r, "settle_failed")
    /\ creating' = creating \cup {SettleJob(copy[r])}
    /\ UNCHANGED <<copy, redisVars, row, jobs, walletVars, roundVars>>

\* markSettlementFailed overwrites whatever status the row has.  (After a rejection the
\* catch of the call starts the creation and marks the row once more.)
SettleFailed(r) ==
    /\ pc[r] = "settle_failed"
    /\ \/ row' = [row EXCEPT ![copy[r].bet].status = "SETTLEMENT_FAILED"]
       \/ "db" \in Faults /\ UNCHANGED row
    /\ Finish(r)
    /\ UNCHANGED <<redisVars, retryVars, walletVars, roundVars>>

\* createRetryJob, a while later: a job that is there for the transaction and the call
\* stands for the new one, unless it is finished (see WalletRetry).
CreateRetryJob(j) ==
    /\ j \in creating
    /\ creating' = creating \ {j}
    /\ \/ jobs' = jobs \cup {j}
       \/ /\ \E k \in jobs : k.kind = j.kind /\ k.bet = j.bet
          /\ UNCHANGED jobs
    /\ UNCHANGED <<handlerVars, redisVars, row, walletVars, roundVars>>

\* The audit record or the job cannot be written, or the process dies before: an error is
\* logged, if any, and there is no job.
CreationFails(j) ==
    /\ {"crash", "db"} \cap Faults # {}
    /\ j \in creating
    /\ creating' = creating \ {j}
    /\ UNCHANGED <<handlerVars, redisVars, row, jobs, walletVars, roundVars>>

\* recordSettlement reads the row, returns early when it is WON or LOST ...
RecordRead(r) ==
    /\ pc[r] = "record"
    /\ IF row[copy[r].bet].status \in {"WON", "LOST"}
         THEN Goto(r, "clear")
         ELSE Goto(r, "record_save")
    /\ UNCHANGED <<copy, redisVars, dbVars, walletVars, roundVars>>

\* Mutant: the step reached is stored as the amount won.
RecordSaveStep(r) ==
    /\ pc[r] = "record_save"
    /\ row' = [row EXCEPT ![copy[r].bet] = [status |-> "WON", win |-> copy[r].step]]
    /\ Goto(r, "clear")
    /\ UNCHANGED <<copy, redisVars, retryVars, walletVars, roundVars>>

\* ... and otherwise overwrites it, whatever it has become meanwhile.
RecordSave(r) ==
    /\ pc[r] = "record_save"
    /\ LET s == copy[r]
       IN  row' = [row EXCEPT ![s.bet] =
                     [status |-> IF s.amount > 0 THEN "WON" ELSE "LOST",
                      win    |-> s.amount]]
    /\ Goto(r, "clear")
    /\ UNCHANGED <<copy, redisVars, retryVars, walletVars, roundVars>>

RecordFails(r) ==
    /\ "db" \in Faults
    /\ pc[r] \in {"record", "record_save"}
    /\ Finish(r)
    /\ UNCHANGED <<redisVars, dbVars, walletVars, roundVars>>

\* DEL of the key, whichever round it holds by now; a failing DEL is swallowed.
ClearSession(r) ==
    /\ pc[r] = "clear"
    /\ \/ session' = [session EXCEPT ![PlayerOf[r]] = NoSession]
       \/ "db" \in Faults /\ UNCHANGED session
    /\ Finish(r)
    /\ UNCHANGED <<betLock, dbVars, walletVars, roundVars>>

-----------------------------------------------------------------------------
(* Environment *)

\* The session TTL (an hour by default) runs from the last write of the key.
SessionExpires(p) ==
    /\ session[p] # NoSession
    /\ "slow" \in Faults \/ InFlight(p) = {}
    /\ session' = [session EXCEPT ![p] = NoSession]
    /\ UNCHANGED <<handlerVars, betLock, dbVars, walletVars, roundVars>>

\* The lock's 30 seconds.  Its holder is gone, or still waits for the agent:
\* the wallet's HTTP client has no timeout.
LockExpires(p) ==
    /\ betLock[p] # Free
    /\ "slow" \in Faults \/ pc[betLock[p]] \notin BetPC
    /\ betLock' = [betLock EXCEPT ![p] = Free]
    /\ UNCHANGED <<handlerVars, session, dbVars, walletVars, roundVars>>

\* handleDisconnect -> cleanupOnDisconnect -> FLUSHALL, for every player.
Disconnect ==
    /\ "flush" \in Faults
    /\ session' = [p \in Player |-> NoSession]
    /\ betLock' = [p \in Player |-> Free]
    /\ UNCHANGED <<handlerVars, dbVars, walletVars, roundVars>>

Crash(r) ==
    /\ "crash" \in Faults
    /\ pc[r] # "idle"
    /\ Finish(r)
    /\ UNCHANGED <<redisVars, dbVars, walletVars, roundVars>>

-----------------------------------------------------------------------------
CreationStep == \E j \in creating : CreateRetryJob(j) \/ CreationFails(j)

BetFlow(r) ==
    \/ BetRejected(r) \/ BetAccepted(r) \/ BetDebit(r) \/ BetRefused(r)
    \/ CreatePlacement(r) \/ BetSaveSession(r) \/ BetFails(r) \/ BetReleaseLock(r)

PlayFlow(r) ==
    \/ \E hit \in BOOLEAN : StepSave(r, hit)
    \/ CashOutSave(r) \/ PlayFails(r)

SettleFlow(r) ==
    \/ SettleAccepted(r) \/ SettleRefused(r) \/ SettleFailed(r)
    \/ RecordRead(r) \/ RecordSave(r) \/ RecordFails(r) \/ ClearSession(r)

Start(r) == BetAcquireLock(r) \/ CashOutRead(r) \/ \E line \in Column : StepRead(r, line)
Continue(r) == BetFlow(r) \/ PlayFlow(r) \/ SettleFlow(r)

Next ==
    \/ \E r \in Request : Start(r) \/ Continue(r) \/ Crash(r)
    \/ CreationStep
    \/ \E p \in Player : SessionExpires(p) \/ LockExpires(p)
    \/ Disconnect

Spec == Init /\ [][Next]_vars

-----------------------------------------------------------------------------
(* Properties that no fault and no overlap of requests may break *)

\* Whatever the wallet is asked to pay for a round is the payout of a column
\* the round really crossed, together with every column before it, or nothing.
EarnedPayouts ==
    \A b \in Bet : \A a \in paid[b] :
        a = 0 \/ \E s \in Steps : a = Win[s] /\ 0 .. s \subseteq passed[b]

\* A row that reports a result reports a settlement the agent has applied, with
\* its amount: the reports built on the table never show money that did not move.
BooksMatchWallet ==
    \A b \in Bet :
        row[b].status \in {"WON", "LOST"} =>
            /\ row[b].win \in paid[b]
            /\ row[b].status = "WON" <=> row[b].win > 0

-----------------------------------------------------------------------------
(* Properties of a client that overlaps no step or cash-out ("play" \in Solo) *)

\* The agent is asked at most once to settle a round.
SettledOnce == \A b \in Bet : credits[b] <= 1

\* A round whose chicken was hit pays nothing.
StruckPaysNothing == \A b \in struck : paid[b] \subseteq {0}

\* An active session stands for a stake that was taken, booked and not settled.
LiveSessionBacked ==
    \A p \in Player :
        IsActive(session[p]) =>
            LET b == session[p].bet
            IN  b \in debited /\ row[b].status = "PLACED" /\ credits[b] = 0

\* The round that such a client plays is the one it was promised (see Round): it
\* is settled once, and for exactly the column it has reached, however handlers
\* die, replies get lost, and sessions expire or are flushed meanwhile.
Promise == INSTANCE Round WITH
    stakes <- debited, crossed <- passed, struck <- struck,
    settlements <- credits, payouts <- paid

PlayedAsPromised == Promise!Spec

-----------------------------------------------------------------------------
(* Properties of the bet lock, while it outlives its holder and is not flushed *)

\* At most one bet flow of a player runs between the lock and its release.
BetFlowsExclusive ==
    \A r, q \in Request :
        /\ PlayerOf[r] = PlayerOf[q]
        /\ pc[r] \in BetPC
        /\ pc[q] \in BetPC
        => r = q

\* No stake is taken from a player who has a round in play.
NoDebitInPlay ==
    [][\A b \in debited' \ debited : ~IsActive(session[PlayerOf[b]])]_vars

-----------------------------------------------------------------------------
(* The parts of the inductive invariants: what a suspended handler holds *)

\* A handler past its read or its debit holds a GameSession.
CopyHeld ==
    \A r \in Request :
        pc[r] \in PlayPC \cup {"bet_row", "bet_save"} => copy[r] \in Session

\* A round in play has a column left to cross, in Redis and in every handler.
ColumnLeft(s) == s \in Session /\ s.active => s.step < Columns - 1
ColumnsLeft ==
    /\ \A p \in Player : ColumnLeft(session[p])
    /\ \A r \in Request : ColumnLeft(copy[r])

\* A step or a cash-out goes on only from an active session.
RunningCopy == \A r \in Request : pc[r] \in {"step", "cashout"} => copy[r].active

\* The amount of a round in play, or of one that pays, is that of its column.
Earned(s) ==
    s \in Session /\ (s.active \/ s.amount # 0) =>
        s.amount = Win[s.step] /\ 0 .. s.step \subseteq passed[s.bet]
EarnedSessions ==
    /\ \A p \in Player : Earned(session[p])
    /\ \A r \in Request : Earned(copy[r])

\* A settlement is recorded only after the agent has applied it.
RecordedIsPaid ==
    \A r \in Request :
        pc[r] \in {"record", "record_save"} => copy[r].amount \in paid[copy[r].bet]

\* While nothing removes a held lock, a bet flow owns the lock of its player.
FlowOwnsLock == \A r \in Request : pc[r] \in BetPC => betLock[PlayerOf[r]] = r

\* What a bet flow has seen of the session stays true until it takes the stake.
DebitGuarded ==
    \A r \in Request : pc[r] = "bet_debit" => ~IsActive(session[PlayerOf[r]])

-----------------------------------------------------------------------------
(* The parts of the invariant of a client that overlaps no plays *)

\* A handler that plays is the only one of its player.
PlaysAlone ==
    \A r, q \in Request :
        PlayerOf[r] = PlayerOf[q] /\ pc[r] \in PlayPC /\ pc[q] # "idle" => r = q

\* A session belongs to the player of its bet, whose stake was taken.
Owned(s, p) == s # NoSession => s.bet \in debited /\ PlayerOf[s.bet] = p

\* The round of a bet is neither settled nor lost.
Running(b) == b \in debited \ struck /\ credits[b] = 0

SessionSound(p) ==
    /\ Owned(session[p], p)
    /\ IsActive(session[p]) => Running(session[p].bet)

\* What a handler holds is running until it saves the end of the round; from then
\* on the session is over, and nothing was settled before the handler does.
RequestSound(r) ==
    LET b == copy[r].bet
    IN  /\ Owned(copy[r], PlayerOf[r])
        /\ pc[r] \in {"bet_row", "bet_save", "step", "cashout"} => Running(b)
        /\ pc[r] = "settle" => credits[b] = 0 /\ (b \in struck => copy[r].amount = 0)
        /\ pc[r] \in PlayPC \ {"step", "cashout"} => ~IsActive(session[PlayerOf[r]])

BetSound(b) ==
    /\ b \notin debited => credits[b] = 0 /\ b \notin struck
    /\ credits[b] = 0 => paid[b] = {}
    /\ credits[b] <= 1
    /\ b \in struck => paid[b] \subseteq {0}

SoloInv ==
    /\ PlaysAlone
    /\ \A p \in Player : SessionSound(p)
    /\ \A r \in Request : RequestSound(r)
    /\ \A b \in Bet : BetSound(b)

\* The row of a round in play says PLACED, from before its session is saved.
RowsPlaced ==
    /\ \A p \in Player : IsActive(session[p]) => row[session[p].bet].status = "PLACED"
    /\ \A r \in Request :
          pc[r] \in {"bet_save", "step", "cashout"} => row[copy[r].bet].status = "PLACED"

-----------------------------------------------------------------------------
(* The parts of the invariant behind Promise: where a round stands *)

\* What a session says of its round is what happened to the round.
AtColumn(s) == s.amount = Win[s.step] /\ passed[s.bet] = 0 .. s.step
StruckAt(s) == s.amount = 0 /\ passed[s.bet] = 0 .. s.step - 1

SessionLevel(p) == IsActive(session[p]) => AtColumn(session[p])

RequestLevel(r) ==
    /\ pc[r] \in {"bet_row", "bet_save", "step", "cashout"} => AtColumn(copy[r])
    /\ pc[r] = "settle" =>
          IF copy[r].bet \in struck THEN StruckAt(copy[r]) ELSE AtColumn(copy[r])

LevelInv ==
    /\ \A p \in Player : SessionLevel(p)
    /\ \A r \in Request : RequestLevel(r)
    /\ \A b \in Bet \ debited : passed[b] = {}
=============================================================================
