--------------------------- MODULE RefundScheduler ---------------------------
(***************************************************************************)
(* RefundSchedulerService beside the rounds of GamePlay: every server, at  *)
(* its start and then every session TTL plus two minutes, refunds the bets *)
(* that have been PLACED for longer than a session TTL and whose round is  *)
(* not in play.  The query, the session check, the wallet call and the row *)
(* updates are separate steps, so that rounds go on between them.          *)
(***************************************************************************)
EXTENDS GamePlay

CONSTANTS
    Server,      \* application instances
    BatchSize,   \* BATCH_SIZE: bets per wallet call
    MaxRefunds   \* bound of the model: refund calls applied to one bet

ASSUME RefundAssumption ==
    /\ BatchSize \in Nat \ {0}
    /\ MaxRefunds \in Nat \ {0}
    /\ Free \notin Server

VARIABLES
    old,         \* bets placed more than a session TTL ago
    refunds,     \* refund calls the agent has applied, per transaction
    rpc,         \* where each server's run is suspended
    todo,        \* the rows its query returned and it has not handled yet
    batch,       \* the batch it is working on
    refundLock   \* Redis refund-scheduler-lock, with the server that set it

runVars    == <<rpc, todo, batch>>
refundVars == <<old, refunds, rpc, todo, batch, refundLock>>
allVars    == <<vars, refundVars>>

RefundPC == {"idle", "query", "pick", "refund", "update", "mark_failed"}

RefundTypeOK ==
    /\ TypeOK
    /\ old \subseteq Bet
    /\ refunds \in [Bet -> Nat]
    /\ rpc \in [Server -> RefundPC]
    /\ todo \in [Server -> SUBSET Bet]
    /\ batch \in [Server -> SUBSET Bet]
    /\ refundLock \in Server \cup {Free}

RefundInit ==
    /\ Init
    /\ old = {}
    /\ refunds = [b \in Bet |-> 0]
    /\ rpc = [s \in Server |-> "idle"]
    /\ todo = [s \in Server |-> {}]
    /\ batch = [s \in Server |-> {}]
    /\ refundLock = Free

RGoto(s, label) == rpc' = [rpc EXCEPT ![s] = label]

-----------------------------------------------------------------------------
(* processRefunds *)

\* Mutant: the run does not wait for the lock.
RefundStartUnlocked(s) ==
    /\ rpc[s] = "idle"
    /\ refundLock' = s
    /\ RGoto(s, "query")
    /\ UNCHANGED <<vars, old, refunds, todo, batch>>

\* A run that finds the lock held returns and changes nothing.
RefundStart(s) ==
    /\ rpc[s] = "idle"
    /\ refundLock = Free
    /\ refundLock' = s
    /\ RGoto(s, "query")
    /\ UNCHANGED <<vars, old, refunds, todo, batch>>

\* findOldPlacedBets
OldPlacedBets == {b \in old : row[b].status = "PLACED"}

RefundQuery(s) ==
    /\ rpc[s] = "query"
    /\ todo' = [todo EXCEPT ![s] = OldPlacedBets]
    /\ RGoto(s, "pick")
    /\ UNCHANGED <<vars, old, refunds, batch, refundLock>>

\* The remaining rows of one user and operator, BATCH_SIZE at a time.
Batches(s) ==
    {bs \in SUBSET todo[s] :
        \E p \in Player :
            LET mine == {b \in todo[s] : PlayerOf[b] = p}
            IN  /\ bs # {}
                /\ bs \subseteq mine
                /\ \/ Cardinality(bs) = BatchSize
                   \/ bs = mine /\ Cardinality(bs) < BatchSize}

\* Mutant: an active session is no reason to skip a bet.
SessionExistsForNoBet(b) == FALSE

\* sessionExistsForBet: present, active, and of this very bet.
SessionExistsForBet(b) ==
    LET s == session[PlayerOf[b]]
    IN  IsActive(s) /\ s.bet = b

\* Promise.all(...).some(active => active) skips the whole batch.
RefundPick(s) ==
    /\ rpc[s] = "pick"
    /\ \E bs \in Batches(s) :
          /\ todo' = [todo EXCEPT ![s] = @ \ bs]
          /\ IF \E b \in bs : SessionExistsForBet(b)
               THEN UNCHANGED <<rpc, batch>>
               ELSE /\ batch' = [batch EXCEPT ![s] = bs]
                    /\ RGoto(s, "refund")
    /\ UNCHANGED <<vars, old, refunds, refundLock>>

\* The agent gives the stakes of the batch back.
ApplyRefund(s) ==
    /\ \A b \in batch[s] : refunds[b] < MaxRefunds
    /\ refunds' = [b \in Bet |-> IF b \in batch[s] THEN refunds[b] + 1 ELSE refunds[b]]

\* refundBet: one cancelBet call for the batch, accepted by the agent.
RefundAccepted(s) ==
    /\ rpc[s] = "refund"
    /\ ApplyRefund(s)
    /\ RGoto(s, "update")
    /\ UNCHANGED <<vars, old, todo, batch, refundLock>>

RefundJob(b, bs) == [kind |-> "refund", bet |-> b, batch |-> bs]

\* Mutant: the retry job carries the first transaction only.
RefundRefusedFirstOnly(s) ==
    /\ rpc[s] = "refund"
    /\ \E b \in batch[s] : creating' = creating \cup {RefundJob(b, {b})}
    /\ RGoto(s, "mark_failed")
    /\ UNCHANGED <<handlerVars, redisVars, row, jobs, walletVars, roundVars,
                   old, refunds, todo, batch, refundLock>>

\* Refused, never delivered, or applied and its reply lost.  The creation of one retry job
\* is started, in the name of the first transaction.
RefundRefused(s) ==
    /\ rpc[s] = "refund"
    /\ \/ UNCHANGED refunds
       \/ "lost" \in Faults /\ ApplyRefund(s)
    /\ \E b \in batch[s] : creating' = creating \cup {RefundJob(b, batch[s])}
    /\ RGoto(s, "mark_failed")
    /\ UNCHANGED <<handlerVars, redisVars, row, jobs, walletVars, roundVars,
                   old, todo, batch, refundLock>>

\* updateStatus per bet, without a look at what the row has become.
WriteBatchStatus(s, at, status) ==
    /\ rpc[s] = at
    /\ \E b \in batch[s] :
          /\ batch' = [batch EXCEPT ![s] = @ \ {b}]
          /\ row' = [row EXCEPT ![b].status = status]
          /\ IF batch[s] = {b} THEN RGoto(s, "pick") ELSE UNCHANGED rpc
    /\ UNCHANGED <<handlerVars, redisVars, retryVars, walletVars, roundVars,
                   old, refunds, todo, refundLock>>

\* A failing update leaves its row and the run goes on.
WriteFails(s) ==
    /\ "db" \in Faults
    /\ rpc[s] \in {"update", "mark_failed"}
    /\ \E b \in batch[s] :
          /\ batch' = [batch EXCEPT ![s] = @ \ {b}]
          /\ IF batch[s] = {b} THEN RGoto(s, "pick") ELSE UNCHANGED rpc
    /\ UNCHANGED <<vars, old, refunds, todo, refundLock>>

\* Mutant: the stake that was given back is booked as lost.
RefundUpdateLost(s) == WriteBatchStatus(s, "update", "LOST")

RefundUpdate(s)     == WriteBatchStatus(s, "update", "REFUNDED")
RefundMarkFailed(s) == WriteBatchStatus(s, "mark_failed", "SETTLEMENT_FAILED")

\* A query, a session read or the agent's record fails: the run ends, or the
\* batch is dropped before its wallet call.
RefundFails(s) ==
    /\ "db" \in Faults
    /\ \/ rpc[s] = "query" /\ UNCHANGED batch
       \/ rpc[s] = "refund" /\ batch' = [batch EXCEPT ![s] = {}]
    /\ RGoto(s, "pick")
    /\ UNCHANGED <<vars, old, refunds, todo, refundLock>>

\* Mutant: the run returns and keeps the lock of a server that stays up.
RefundDoneLocked(s) ==
    /\ rpc[s] = "pick"
    /\ todo[s] = {}
    /\ FALSE
    /\ UNCHANGED allVars

\* finally { releaseLock }, whose failure is logged.
RefundDone(s) ==
    /\ rpc[s] = "pick"
    /\ todo[s] = {}
    /\ \/ refundLock' = Free
       \/ "db" \in Faults /\ UNCHANGED refundLock
    /\ RGoto(s, "idle")
    /\ UNCHANGED <<vars, old, refunds, todo, batch>>

-----------------------------------------------------------------------------
(* Environment *)

\* A session TTL has passed since the bet was placed.  A bet flow writes its
\* session right after its row, long before that.
Age(b) ==
    /\ row[b].status = "PLACED"
    /\ b \notin old
    /\ \A r \in Request : pc[r] = "bet_save" => copy[r].bet # b
    /\ old' = old \cup {b}
    /\ UNCHANGED <<vars, refunds, runVars, refundLock>>

\* A session lives at least its TTL, so its bet is old by then.
SessionEnds(p) ==
    /\ SessionExpires(p)
    /\ session[p].bet \in old
    /\ UNCHANGED refundVars

\* Its 300 seconds: the run that set it is over, or outlives it.
RefundLockExpires ==
    /\ refundLock # Free
    /\ "slow" \in Faults \/ rpc[refundLock] = "idle"
    /\ refundLock' = Free
    /\ UNCHANGED <<vars, old, refunds, runVars>>

DisconnectAll ==
    /\ Disconnect
    /\ refundLock' = Free
    /\ UNCHANGED <<old, refunds, runVars>>

RefundCrash(s) ==
    /\ "crash" \in Faults
    /\ rpc[s] # "idle"
    /\ RGoto(s, "idle")
    /\ todo' = [todo EXCEPT ![s] = {}]
    /\ batch' = [batch EXCEPT ![s] = {}]
    /\ UNCHANGED <<vars, old, refunds, refundLock>>

-----------------------------------------------------------------------------
RefundRun(s) ==
    \/ RefundQuery(s) \/ RefundPick(s) \/ RefundAccepted(s) \/ RefundRefused(s)
    \/ RefundUpdate(s) \/ RefundMarkFailed(s) \/ WriteFails(s)
    \/ RefundFails(s) \/ RefundDone(s)

RoundStep ==
    /\ \/ \E r \in Request : Start(r) \/ Continue(r) \/ Crash(r)
       \/ CreationStep
       \/ \E p \in Player : LockExpires(p)
    /\ UNCHANGED refundVars

RefundNext ==
    \/ RoundStep
    \/ \E p \in Player : SessionEnds(p)
    \/ \E b \in Bet : Age(b)
    \/ DisconnectAll
    \/ \E s \in Server : RefundStart(s) \/ RefundRun(s) \/ RefundCrash(s)
    \/ RefundLockExpires

RefundSpec == RefundInit /\ [][RefundNext]_allVars

\* setInterval starts a run again and again, time passes for bets and for the
\* keys of Redis, and every call returns: the wallet client has no timeout, so that
\* this is an assumption about the agent.  A player who keeps sending rejected bets
\* does not keep his session from expiring, hence SF.
RefundFairness ==
    /\ \A r \in Request : WF_allVars(Continue(r) /\ UNCHANGED refundVars)
    /\ \A p \in Player : SF_allVars(SessionEnds(p))
    /\ \A p \in Player : WF_allVars(LockExpires(p) /\ UNCHANGED refundVars)
    /\ \A b \in Bet : WF_allVars(Age(b))
    /\ \A s \in Server : SF_allVars(RefundStart(s)) /\ WF_allVars(RefundRun(s))
    /\ WF_allVars(RefundLockExpires)

FairRefundSpec == RefundSpec /\ RefundFairness

-----------------------------------------------------------------------------
(* Properties *)

\* The agent is asked at most once to give a stake back, whatever the number of
\* servers: a run that overlaps another, or a row that goes back to PLACED
\* after its refund, would ask again.
RefundedOnce == \A b \in Bet : refunds[b] <= 1

\* A round whose stake was given back is not in play, and never is again: the
\* session was absent or over when it was checked, before the wallet call.
RefundedNotInPlay ==
    \A p \in Player : IsActive(session[p]) => refunds[session[p].bet] = 0

\* A bet that was booked does not stay PLACED for ever, whether its round was played,
\* abandoned, flushed or never got a session, and whatever died meanwhile, unless runs of
\* the scheduler go on dying, or their commands failing, for ever.
RunFailure == \E s \in Server : RefundCrash(s) \/ RefundFails(s) \/ WriteFails(s)
PlacedBetsResolved ==
    \/ []<><<RunFailure>>_allVars
    \/ \A b \in Bet : row[b].status = "PLACED" ~> row[b].status # "PLACED"

\* The stake of a round is given back or the round is settled, not both.
NeverSettledAndRefunded == \A b \in Bet : ~(credits[b] > 0 /\ refunds[b] > 0)

\* A bet marked SETTLEMENT_FAILED is in the batch of a retry job, or of one that is being
\* created, whichever of the two failing calls marked it: as long as jobs can be written,
\* no server dies and runs do not overlap.  (A creation that dies leaves the bet without a
\* job for ever; the job of one overlapping run can stand for the batch of another.)
FailedBetsQueued ==
    {"crash", "db", "slow", "flush"} \cap Faults = {} =>
        \A b \in Bet :
            row[b].status = "SETTLEMENT_FAILED" => \E j \in jobs \cup creating : b \in j.batch

-----------------------------------------------------------------------------
(* Why RefundedOnce holds: bets that are new, and a run that is alone *)

Holds(s, b) == s # NoSession /\ s.bet = b

\* A bet that no stake was taken for is nowhere; one whose session is not saved yet
\* is known to its bet flow alone, and too young to be refunded.
BetsFresh ==
    /\ \A b \in Bet \ debited : row[b].status = "none" /\ b \notin old
    /\ \A r \in Request : copy[r] # NoSession => copy[r].bet \in debited
    /\ \A p \in Player : session[p] # NoSession => session[p].bet \in debited
    /\ \A r \in Request : pc[r] \in {"bet_row", "bet_save"} =>
          /\ copy[r].bet \notin old
          /\ pc[r] = "bet_row" => row[copy[r].bet].status = "none"
          /\ \A q \in Request \ {r} : ~Holds(copy[q], copy[r].bet)
          /\ \A p \in Player : ~Holds(session[p], copy[r].bet)

\* A run works on bets that have aged.
RunsHoldOld == \A s \in Server : todo[s] \cup batch[s] \subseteq old

\* A run that goes on holds the lock of the scheduler.
RunOwnsLock == \A s \in Server : rpc[s] # "idle" => refundLock = s

\* What a run still has to do was not refunded; a bet that was refunded is not PLACED
\* any more, unless the run that refunded it has yet to say so.
Answered(s) == rpc[s] \in {"update", "mark_failed"}
RunFresh(s) ==
    /\ rpc[s] \in {"idle", "query"} => todo[s] = {}
    /\ rpc[s] \in {"idle", "query", "pick"} => batch[s] = {}
    /\ todo[s] \cap batch[s] = {}
    /\ \A b \in todo[s] : refunds[b] = 0
    /\ rpc[s] = "refund" => \A b \in batch[s] : refunds[b] = 0
RefundBooked(b) ==
    refunds[b] > 0 =>
        /\ b \in old
        /\ row[b].status = "PLACED" => \E s \in Server : Answered(s) /\ b \in batch[s]

OnceInv ==
    /\ RunOwnsLock
    /\ \A s \in Server : RunFresh(s)
    /\ \A b \in Bet : RefundBooked(b)
    /\ RefundedOnce

-----------------------------------------------------------------------------
(* Why FailedBetsQueued holds: what a job stands for *)

Queued(b) == \E j \in jobs \cup creating : b \in j.batch

\* A failed call has its creation under way, or a job, before a row is marked.
FailuresQueued ==
    /\ \A b \in Bet : row[b].status = "SETTLEMENT_FAILED" => Queued(b)
    /\ \A r \in Request : pc[r] = "settle_failed" => Queued(copy[r].bet)
    /\ \A s \in Server : rpc[s] = "mark_failed" => \A b \in batch[s] : Queued(b)

\* A bet whose refund failed is in one batch only: no run works on it again.
Retried(b) == \E j \in jobs \cup creating : j.kind = "refund" /\ b \in j.batch
RetriesApart ==
    /\ \A j \in jobs \cup creating :
          /\ j.kind = "settle" => j.batch = {j.bet}
          /\ j.bet \in j.batch
    /\ \A j, k \in jobs \cup creating :
          j.kind = "refund" /\ k.kind = "refund" /\ j.batch \cap k.batch # {} => j.batch = k.batch
    /\ \A b \in Bet :
          Retried(b) =>
            /\ b \in old
            /\ row[b].status = "PLACED" => \E s \in Server : rpc[s] = "mark_failed" /\ b \in batch[s]
            /\ \A s \in Server : b \notin todo[s] /\ (rpc[s] = "refund" => b \notin batch[s])

-----------------------------------------------------------------------------
(* Why RefundedNotInPlay holds: a round that is over stays over *)

\* Sessions are those of their player's bets, and while a handler steps or cashes
\* out nothing changes the session that it has read.
SessionsOwned ==
    /\ \A p \in Player : session[p] # NoSession => PlayerOf[session[p].bet] = p
    /\ \A r \in Request : copy[r] # NoSession => PlayerOf[copy[r].bet] = PlayerOf[r]
PlaysCurrent ==
    \A r \in Request : pc[r] \in {"step", "cashout"} => session[PlayerOf[r]] = copy[r]

OutOfPlay(b) == b \in old /\ ~SessionExistsForBet(b)
RefundsOutOfPlay ==
    /\ \A s \in Server, b \in Bet : b \in batch[s] => OutOfPlay(b)
    /\ \A b \in Bet : refunds[b] > 0 => OutOfPlay(b)

PlayInv == PlaysAlone /\ SessionsOwned /\ PlaysCurrent /\ RefundsOutOfPlay
=============================================================================
