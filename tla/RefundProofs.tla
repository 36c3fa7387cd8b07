---------------------------- MODULE RefundProofs ----------------------------
(***************************************************************************)
(* Theorems about the refund scheduler beside the rounds of GamePlay, for  *)
(* any number of servers, players, requests and bets.  Each names the      *)
(* faults it excludes; the others may happen at any point.                 *)
(***************************************************************************)
EXTENDS RefundScheduler, GamePlayClientProofs

RefundInv == RefundTypeOK /\ HandlerInv /\ MoneyInv

\* The steps of a run that write a row or a job.
BookStep(s) == RefundRefused(s) \/ RefundUpdate(s) \/ RefundMarkFailed(s)

\* The scheduler's own steps that leave the rounds as they are.
OwnStep(s) ==
    \/ RefundStart(s) \/ RefundQuery(s) \/ RefundPick(s) \/ RefundAccepted(s)
    \/ RefundFails(s) \/ WriteFails(s) \/ RefundDone(s) \/ RefundCrash(s)

-----------------------------------------------------------------------------
(* Steps of the composition *)

\* Every step is one of the rounds, or one of the scheduler that leaves them alone or
\* writes rows and jobs.
LEMMA StepKinds ==
  ASSUME [RefundNext]_allVars
  PROVE  \/ RoundStep
         \/ \E p \in Player : SessionEnds(p)
         \/ \E b \in Bet : Age(b)
         \/ DisconnectAll \/ RefundLockExpires
         \/ \E s \in Server : OwnStep(s)
         \/ \E s \in Server : BookStep(s)
         \/ UNCHANGED allVars
  BY DEF RefundNext, RefundRun, OwnStep, BookStep

\* Steps of the rounds do not touch the scheduler, but for its lock.
LEMMA RoundSteps ==
  ASSUME \/ RoundStep
         \/ \E p \in Player : SessionEnds(p)
         \/ DisconnectAll
  PROVE  Next /\ UNCHANGED <<old, refunds, rpc, todo, batch>>
  BY DEF RoundStep, SessionEnds, DisconnectAll, Next, refundVars, runVars

\* The other steps, but for those that write rows and jobs, leave the rounds alone.
LEMMA QuietRuns ==
  ASSUME \/ \E b \in Bet : Age(b)
         \/ RefundLockExpires
         \/ \E s \in Server : OwnStep(s)
         \/ UNCHANGED allVars
  PROVE  UNCHANGED vars
  BY DEF Age, RefundLockExpires, OwnStep, RefundStart, RefundQuery, RefundPick,
         RefundAccepted, RefundFails, WriteFails, RefundDone, RefundCrash, allVars

\* What a step that writes rows and jobs writes.
LEMMA BookWrites ==
  ASSUME RefundTypeOK, NEW s \in Server, BookStep(s)
  PROVE  /\ UNCHANGED <<handlerVars, redisVars, walletVars, roundVars, old, todo, refundLock>>
         /\ jobs' = jobs /\ creating \subseteq creating' /\ creating' \subseteq Job
         /\ row' \in [Bet -> Row]
         /\ \A b \in Bet :
               \/ row'[b] = row[b]
               \/ b \in batch[s] /\ row'[b].status = "REFUNDED" /\ RefundUpdate(s)
               \/ b \in batch[s] /\ row'[b].status = "SETTLEMENT_FAILED" /\ RefundMarkFailed(s)
  <1> USE DEF RefundTypeOK, TypeOK
  <1>1. CASE RefundRefused(s)
    <2>1. \A b \in batch[s] : RefundJob(b, batch[s]) \in Job
      BY DEF RefundJob, Job
    <2> QED
      BY <1>1, <2>1 DEF RefundRefused, handlerVars, redisVars, walletVars, roundVars
  <1>2. ASSUME NEW status \in {"REFUNDED", "SETTLEMENT_FAILED"}, NEW at,
               WriteBatchStatus(s, at, status)
        PROVE  /\ UNCHANGED <<handlerVars, redisVars, walletVars, roundVars, old, todo,
                              refundLock, jobs, creating>>
               /\ row' \in [Bet -> Row]
               /\ \A b \in Bet :
                     \/ row'[b] = row[b]
                     \/ b \in batch[s] /\ row'[b].status = status
    <2>1. PICK b \in batch[s] : row' = [row EXCEPT ![b].status = status]
      BY <1>2 DEF WriteBatchStatus
    <2>2. status \in Status
      BY DEF Status
    <2>3. row' \in [Bet -> Row]
      BY <2>1, <2>2, StatusUpdate
    <2>4. \A c \in Bet : row[c] \in [status : Status, win : Nat]
      BY DEF Row
    <2> QED
      BY <1>2, <2>1, <2>3, <2>4 DEF WriteBatchStatus, retryVars
  <1> QED
    BY <1>1, <1>2 DEF BookStep, RefundUpdate, RefundMarkFailed

-----------------------------------------------------------------------------
(* Types and books *)

LEMMA RefundInitial == RefundInit => RefundInv
  BY HandlerInit, MoneyInit, RefundAssumption
     DEF RefundInit, RefundInv, RefundTypeOK, HandlerInv, RefundPC

\* The scheduler's own variables keep their types.
LEMMA RunTypes ==
  ASSUME RefundTypeOK, TypeOK', [RefundNext]_allVars
  PROVE  RefundTypeOK'
  <1> USE RefundAssumption DEF RefundTypeOK, RefundPC, RGoto
  <1>1. CASE RoundStep \/ (\E p \in Player : SessionEnds(p)) \/ DisconnectAll
    <2>1. refundLock' \in Server \cup {Free}
      BY <1>1 DEF RoundStep, SessionEnds, DisconnectAll, refundVars
    <2> QED
      BY <1>1, <2>1, RoundSteps
  <1>2. CASE \E b \in Bet : Age(b)
    BY <1>2 DEF Age, runVars
  <1>3. CASE RefundLockExpires
    BY <1>3 DEF RefundLockExpires, runVars
  <1>4. ASSUME NEW s \in Server, OwnStep(s) PROVE RefundTypeOK'
    <2>1. CASE RefundStart(s) \/ RefundDone(s)
      BY <2>1 DEF RefundStart, RefundDone
    <2>2. CASE RefundQuery(s)
      BY <2>2 DEF RefundQuery, OldPlacedBets
    <2>3. CASE RefundPick(s)
      <3>1. PICK bs \in Batches(s) :
               /\ todo' = [todo EXCEPT ![s] = @ \ bs]
               /\ \/ UNCHANGED <<rpc, batch>>
                  \/ batch' = [batch EXCEPT ![s] = bs] /\ RGoto(s, "refund")
        BY <2>3 DEF RefundPick
      <3>2. bs \in SUBSET Bet
        BY DEF Batches
      <3> QED
        BY <2>3, <3>1, <3>2 DEF RefundPick
    <2>4. CASE RefundAccepted(s)
      BY <2>4 DEF RefundAccepted, ApplyRefund
    <2>5. CASE RefundFails(s) \/ WriteFails(s) \/ RefundCrash(s)
      BY <2>5 DEF RefundFails, WriteFails, RefundCrash
    <2> QED
      BY <1>4, <2>1, <2>2, <2>3, <2>4, <2>5 DEF OwnStep
  <1>5. ASSUME NEW s \in Server, BookStep(s) PROVE RefundTypeOK'
    <2>1. CASE RefundRefused(s)
      BY <2>1 DEF RefundRefused, ApplyRefund
    <2>2. CASE RefundUpdate(s) \/ RefundMarkFailed(s)
      BY <2>2 DEF RefundUpdate, RefundMarkFailed, WriteBatchStatus
    <2> QED
      BY <1>5, <2>1, <2>2 DEF BookStep
  <1>6. CASE UNCHANGED allVars
    BY <1>6 DEF allVars, refundVars
  <1> QED
    BY <1>1, <1>2, <1>3, <1>4, <1>5, <1>6, StepKinds

\* Rows that are marked refunded or failed take nothing from the handlers and the wallet.
LEMMA BookMoney ==
  ASSUME RefundInv, NEW s \in Server, BookStep(s)
  PROVE  HandlerInv' /\ MoneyInv'
  <1>0. RefundTypeOK /\ HandlerInv /\ MoneyInv
    BY DEF RefundInv
  <1>1. /\ UNCHANGED <<pc, copy, session, betLock, debited, credits, paid, passed, struck>>
        /\ jobs' \subseteq Job /\ creating' \subseteq Job /\ row' \in [Bet -> Row]
        /\ \A b \in Bet : row'[b] = row[b] \/ row'[b].status \notin {"WON", "LOST"}
    BY <1>0, BookWrites DEF RefundTypeOK, TypeOK, handlerVars, redisVars, walletVars, roundVars
  <1>2. HandlerInv'
    BY <1>0, <1>1 DEF HandlerInv, TypeOK, CopyHeld, ColumnsLeft, ColumnLeft, RunningCopy
  <1>3. EarnedSessions' /\ EarnedPayouts' /\ RecordedIsPaid'
    BY <1>0, <1>1 DEF MoneyInv, EarnedSessions, Earned, EarnedPayouts, RecordedIsPaid
  <1>4. BooksMatchWallet'
    BY <1>0, <1>1 DEF MoneyInv, BooksMatchWallet
  <1> QED
    BY <1>2, <1>3, <1>4 DEF MoneyInv

LEMMA RefundStep == RefundInv /\ [RefundNext]_allVars => RefundInv'
  <1> SUFFICES ASSUME RefundInv, [RefundNext]_allVars PROVE RefundInv'
    OBVIOUS
  <1>1. HandlerInv' /\ MoneyInv'
    <2>1. ASSUME [Next]_vars PROVE HandlerInv' /\ MoneyInv'
      BY <2>1, HandlerStep, MoneyStep DEF RefundInv
    <2> QED
      BY <2>1, BookMoney, StepKinds, RoundSteps, QuietRuns
  <1>2. RefundTypeOK'
    BY <1>1, RunTypes DEF RefundInv, HandlerInv
  <1> QED
    BY <1>1, <1>2 DEF RefundInv

\* The invariant of the rounds is one of the composition too.
LEMMA RefundInvariant == RefundSpec => []RefundInv
  BY RefundInitial, RefundStep, PTL DEF RefundSpec

\* Type correctness of processRefunds and what it shares with the rounds.
THEOREM RefundTypeCorrect == RefundSpec => []RefundTypeOK
  <1>1. RefundInv => RefundTypeOK
    BY DEF RefundInv
  <1> QED
    BY <1>1, RefundInvariant, PTL

\* A row that shows a result shows one the agent has paid, also when the scheduler marks
\* rows beside the rounds, under every fault.
THEOREM BooksSurviveRefunds == RefundSpec => []BooksMatchWallet
  <1>1. RefundInv => BooksMatchWallet
    BY DEF RefundInv, MoneyInv
  <1> QED
    BY <1>1, RefundInvariant, PTL

-----------------------------------------------------------------------------
(* New bets *)

FreshInv == BetsFresh /\ RunsHoldOld

LEMMA FreshInitial == RefundInit => FreshInv
  BY DEF RefundInit, Init, FreshInv, BetsFresh, RunsHoldOld, Holds

\* A handler that moves hands on what it has or what its player's key holds, and writes
\* no row but that of its bet.
LEMMA MoveFresh ==
  ASSUME HandlerInv, BetsFresh, NEW r \in Request,
         UNCHANGED <<debited, old>>,
         \A q \in Request \ {r} : pc'[q] = pc[q] /\ copy'[q] = copy[q],
         \A p \in Player \ {PlayerOf[r]} : session'[p] = session[p],
         \A x \in {copy'[r], session'[PlayerOf[r]]} : x # NoSession =>
            Holds(copy[r], x.bet) \/ Holds(session[PlayerOf[r]], x.bet),
         pc'[r] # "bet_row",
         pc'[r] = "bet_save" => /\ pc[r] = "bet_row" /\ copy'[r] = copy[r]
                                /\ session' = session,
         \A b \in Bet : row'[b].status # row[b].status => Holds(copy[r], b)
  PROVE  BetsFresh'
  <1>0. PlayerOf[r] \in Player
    BY ConstantsAssumption
  <1>1. \A b \in Bet \ debited : row'[b].status = "none" /\ b \notin old'
    BY DEF BetsFresh, Holds
  <1>2. \A x \in {copy'[r], session'[PlayerOf[r]]} : x # NoSession => x.bet \in debited
    BY <1>0 DEF BetsFresh, Holds
  <1>3. /\ \A q \in Request : copy'[q] # NoSession => copy'[q].bet \in debited
        /\ \A p \in Player : session'[p] # NoSession => session'[p].bet \in debited
    BY <1>2 DEF BetsFresh
  <1>4. ASSUME NEW q \in Request, pc'[q] \in {"bet_row", "bet_save"}
        PROVE  /\ copy'[q].bet \notin old
               /\ pc'[q] = "bet_row" => row'[copy'[q].bet].status = "none"
               /\ \A o \in Request \ {q} : ~Holds(copy'[o], copy'[q].bet)
               /\ \A p \in Player : ~Holds(session'[p], copy'[q].bet)
    <2>1. CASE q = r
      BY <1>4, <2>1 DEF BetsFresh
    <2>2. CASE q # r
      <3>1. /\ pc[q] = pc'[q] /\ copy'[q] = copy[q]
            /\ copy[q].bet \in Bet
        BY <1>4, <2>2 DEF HandlerInv, CopyHeld, Session
      <3>2. /\ ~Holds(copy[r], copy[q].bet)
            /\ ~Holds(session[PlayerOf[r]], copy[q].bet)
        BY <1>0, <1>4, <2>2, <3>1 DEF BetsFresh
      <3>3. \A x \in {copy'[r], session'[PlayerOf[r]]} : ~Holds(x, copy[q].bet)
        BY <3>2 DEF Holds
      <3> QED
        BY <1>4, <2>2, <3>1, <3>2, <3>3 DEF BetsFresh
    <2> QED
      BY <2>1, <2>2
  <1> QED
    BY <1>1, <1>3, <1>4 DEF BetsFresh

\* The steps of the bet flow, but for the debit.
LEMMA BetFlowFresh ==
  ASSUME HandlerInv, BetsFresh, old' = old, NEW r \in Request,
         BetAcquireLock(r) \/ BetFlow(r), ~BetDebit(r)
  PROVE  BetsFresh'
  <1> USE DEF HandlerInv, TypeOK, Goto, Finish, redisVars, dbVars, retryVars, walletVars,
              roundVars, Holds
  <1>0. PlayerOf[r] \in Player
    BY ConstantsAssumption
  <1>1. CASE BetAcquireLock(r) \/ BetRejected(r) \/ BetAccepted(r) \/ BetRefused(r)
    BY <1>0, <1>1, MoveFresh DEF BetAcquireLock, BetRejected, BetAccepted, BetRefused
  <1>2. CASE CreatePlacement(r)
    <2>1. \A b \in Bet : row'[b].status # row[b].status => Holds(copy[r], b)
      <3>1. copy[r] # NoSession
        BY <1>2, ConstantsAssumption DEF CreatePlacement, CopyHeld
      <3> QED
        BY <1>2, <3>1, RowWritten
    <2> HIDE DEF Holds
    <2>2. \A x \in {copy'[r], session'[PlayerOf[r]]} : x # NoSession =>
            Holds(copy[r], x.bet) \/ Holds(session[PlayerOf[r]], x.bet)
      BY <1>2 DEF CreatePlacement, Holds
    <2> QED
      BY <1>0, <1>2, <2>1, <2>2, MoveFresh DEF CreatePlacement
  <1>3. CASE BetSaveSession(r)
    BY <1>0, <1>3, MoveFresh DEF BetSaveSession
  <1>4. CASE BetFails(r) \/ BetReleaseLock(r)
    BY <1>0, <1>4, MoveFresh DEF BetFails, BetReleaseLock
  <1> QED
    BY <1>1, <1>2, <1>3, <1>4 DEF BetFlow

\* The debit takes a bet that nobody knows.
LEMMA BetDebitFresh ==
  ASSUME HandlerInv, BetsFresh, old' = old, NEW r \in Request, BetDebit(r)
  PROVE  BetsFresh'
  <1>1. PICK b \in Bet \ debited :
           /\ debited' = debited \cup {b}
           /\ \/ copy' = [copy EXCEPT ![r] = NewSession(b)] /\ pc' = [pc EXCEPT ![r] = "bet_row"]
              \/ copy' = copy /\ pc' = [pc EXCEPT ![r] = "bet_unlock"]
           /\ UNCHANGED <<session, row>>
    BY DEF BetDebit, Goto, redisVars, dbVars, retryVars
  <1>2. NewSession(b).bet = b
    BY NewSessionType
  <1>3. \A q \in Request : ~Holds(copy[q], b)
    BY DEF BetsFresh, Holds
  <1>4. \A p \in Player : ~Holds(session[p], b)
    BY DEF BetsFresh, Holds
  <1>5. /\ \A c \in Bet \ debited' : row'[c].status = "none" /\ c \notin old'
        /\ \A q \in Request : copy'[q] # NoSession => copy'[q].bet \in debited'
        /\ \A p \in Player : session'[p] # NoSession => session'[p].bet \in debited'
    BY <1>1, <1>2 DEF BetsFresh, HandlerInv, TypeOK
  <1>6. ASSUME NEW q \in Request, pc'[q] \in {"bet_row", "bet_save"}
        PROVE  /\ copy'[q].bet \notin old'
               /\ pc'[q] = "bet_row" => row'[copy'[q].bet].status = "none"
               /\ \A o \in Request \ {q} : ~Holds(copy'[o], copy'[q].bet)
               /\ \A p \in Player : ~Holds(session'[p], copy'[q].bet)
    <2>1. CASE q = r
      <3>1. copy'[r] = NewSession(b) /\ \A o \in Request \ {r} : copy'[o] = copy[o]
        BY <1>1, <1>6, <2>1 DEF HandlerInv, TypeOK
      <3> QED
        BY <1>1, <1>2, <1>3, <1>4, <2>1, <3>1 DEF BetsFresh
    <2>2. CASE q # r
      <3>1. pc'[q] = pc[q] /\ copy'[q] = copy[q] /\ copy[q] # NoSession
        BY <1>1, <1>6, <2>2, ConstantsAssumption DEF HandlerInv, TypeOK, CopyHeld
      <3>2. copy[q].bet # b
        BY <1>3, <3>1 DEF Holds
      <3>3. copy'[r] = copy[r] \/ copy'[r].bet = b
        BY <1>1, <1>2 DEF HandlerInv, TypeOK
      <3>4. \A o \in Request \ {r} : copy'[o] = copy[o]
        BY <1>1 DEF HandlerInv, TypeOK
      <3> QED
        BY <1>1, <1>6, <2>2, <3>1, <3>2, <3>3, <3>4 DEF BetsFresh, Holds
    <2> QED
      BY <2>1, <2>2
  <1> QED
    BY <1>5, <1>6 DEF BetsFresh

\* Steps, cash-outs and settlements.
LEMMA PlayFresh ==
  ASSUME HandlerInv, BetsFresh, old' = old, NEW r \in Request,
         \/ CashOutRead(r) \/ \E line \in Column : StepRead(r, line)
         \/ PlayFlow(r) \/ SettleFlow(r) \/ Crash(r)
  PROVE  BetsFresh'
  <1> USE DEF HandlerInv, TypeOK, Goto, Finish, redisVars, dbVars, retryVars, walletVars,
              roundVars
  <1>0. PlayerOf[r] \in Player
    BY ConstantsAssumption
  <1>1. CASE ReadSession(r, "step") \/ ReadSession(r, "cashout")
    BY <1>0, <1>1, MoveFresh DEF ReadSession, Holds
  <1>2. ASSUME NEW hit \in BOOLEAN, StepSave(r, hit) PROVE BetsFresh'
    <2>1. PICK new \in Session :
             /\ new.bet = copy[r].bet
             /\ session' = [session EXCEPT ![PlayerOf[r]] = new]
             /\ copy'[r] \in {new, NoSession}
      BY <1>2, StepSaved
    <2>2. \A x \in {copy'[r], session'[PlayerOf[r]]} : x # NoSession => Holds(copy[r], x.bet)
      BY <1>0, <1>2, <2>1, StepSaved DEF Holds
    <2>3. /\ UNCHANGED <<debited, row>>
          /\ pc'[r] \in {"settle", "idle"}
          /\ \A q \in Request \ {r} : pc'[q] = pc[q] /\ copy'[q] = copy[q]
          /\ \A p \in Player \ {PlayerOf[r]} : session'[p] = session[p]
      BY <1>2 DEF StepSave
    <2> QED
      BY <2>2, <2>3, MoveFresh
  <1>3. CASE CashOutSave(r)
    <2>1. copy[r] \in Session /\ copy[r] # NoSession
      BY <1>3, ConstantsAssumption DEF CashOutSave, CopyHeld, PlayPC
    <2>2. \A x \in {copy'[r], session'[PlayerOf[r]]} : Holds(copy[r], x.bet)
      BY <1>0, <1>3, <2>1 DEF CashOutSave, Session, Holds
    <2>3. /\ UNCHANGED <<debited, row>>
          /\ pc'[r] = "settle"
          /\ \A q \in Request \ {r} : pc'[q] = pc[q] /\ copy'[q] = copy[q]
          /\ \A p \in Player \ {PlayerOf[r]} : session'[p] = session[p]
      BY <1>3 DEF CashOutSave
    <2> QED
      BY <2>2, <2>3, MoveFresh
  <1>4. CASE PlayFails(r) \/ RecordFails(r) \/ ClearSession(r) \/ Crash(r)
    BY <1>0, <1>4, MoveFresh DEF PlayFails, RecordFails, ClearSession, Crash, Holds
  <1>5. CASE SettleAccepted(r) \/ SettleRefused(r) \/ RecordRead(r)
    BY <1>0, <1>5, MoveFresh DEF SettleAccepted, SettleRefused, RecordRead, Holds
  <1>6. CASE SettleFailed(r) \/ RecordSave(r)
    <2>1. \A b \in Bet : row'[b].status # row[b].status => Holds(copy[r], b)
      BY <1>6, RowWritten, ConstantsAssumption DEF Holds
    <2>2. /\ UNCHANGED <<debited, session>>
          /\ pc'[r] \in {"clear", "idle"} /\ copy'[r] \in {copy[r], NoSession}
          /\ \A q \in Request \ {r} : pc'[q] = pc[q] /\ copy'[q] = copy[q]
      BY <1>6 DEF SettleFailed, RecordSave
    <2>3. \A x \in {copy'[r], session'[PlayerOf[r]]} : x # NoSession =>
            Holds(copy[r], x.bet) \/ Holds(session[PlayerOf[r]], x.bet)
      BY <2>2 DEF Holds
    <2> QED
      BY <2>1, <2>2, <2>3, MoveFresh
  <1> QED
    BY <1>1, <1>2, <1>3, <1>4, <1>5, <1>6 DEF CashOutRead, StepRead, PlayFlow, SettleFlow

LEMMA FreshStep ==
  ASSUME RefundInv, FreshInv, [RefundNext]_allVars
  PROVE  FreshInv'
  <1>0. RefundTypeOK /\ HandlerInv /\ BetsFresh /\ RunsHoldOld
    BY DEF RefundInv, FreshInv
  <1>1. CASE RoundStep \/ (\E p \in Player : SessionEnds(p)) \/ DisconnectAll
    <2>1. Next /\ UNCHANGED <<old, todo, batch>>
      BY <1>1, RoundSteps
    <2>2. ASSUME NEW r \in Request, Start(r) \/ Continue(r) \/ Crash(r) PROVE BetsFresh'
      BY <1>0, <2>1, <2>2, BetFlowFresh, BetDebitFresh, PlayFresh DEF Start, Continue, BetFlow
    <2>3. ASSUME \/ CreationStep \/ Disconnect
                 \/ \E p \in Player : SessionExpires(p) \/ LockExpires(p)
          PROVE  BetsFresh'
      <3>1. /\ UNCHANGED <<pc, copy, row, debited>>
            /\ \A p \in Player : session'[p] \in {session[p], NoSession}
        BY <1>0, <2>3 DEF CreationStep, CreateRetryJob, CreationFails, Disconnect,
                          SessionExpires, LockExpires, HandlerInv, TypeOK, handlerVars,
                          redisVars, dbVars, retryVars, walletVars
      <3> QED
        BY <1>0, <2>1, <3>1 DEF BetsFresh, Holds
    <2>4. RunsHoldOld'
      BY <1>0, <2>1 DEF RunsHoldOld
    <2> QED
      BY <2>1, <2>2, <2>3, <2>4 DEF Next, FreshInv
  <1>2. ASSUME NEW b \in Bet, Age(b) PROVE FreshInv'
    <2>1. /\ row[b].status = "PLACED" /\ old' = old \cup {b}
          /\ \A r \in Request : pc[r] = "bet_save" => copy[r].bet # b
          /\ UNCHANGED <<pc, copy, session, row, debited, todo, batch>>
      BY <1>2 DEF Age, vars, runVars
    <2>2. \A r \in Request : pc[r] = "bet_row" => copy[r].bet # b
      BY <1>0, <2>1 DEF BetsFresh
    <2> QED
      BY <1>0, <2>1, <2>2 DEF FreshInv, BetsFresh, RunsHoldOld
  <1>3. CASE RefundLockExpires \/ (\E s \in Server : OwnStep(s)) \/ UNCHANGED allVars
    <2>1. UNCHANGED <<pc, copy, session, row, debited>>
      BY <1>3, QuietRuns DEF vars
    <2>2. old' = old
      BY <1>3 DEF RefundLockExpires, OwnStep, RefundStart, RefundQuery, RefundPick,
                  RefundAccepted, RefundFails, WriteFails, RefundDone, RefundCrash, allVars,
                  refundVars
    <2>3. RunsHoldOld'
      <3>1. CASE RefundLockExpires \/ UNCHANGED allVars
        BY <1>0, <2>2, <3>1 DEF RefundLockExpires, runVars, allVars, refundVars, RunsHoldOld
      <3>2. ASSUME NEW s \in Server, OwnStep(s)
            PROVE  \A t \in Server : todo'[t] \cup batch'[t] \subseteq old
        <4>1. CASE RefundQuery(s)
          BY <1>0, <4>1 DEF RefundQuery, OldPlacedBets, RunsHoldOld, RefundTypeOK
        <4>2. CASE RefundPick(s)
          <5>1. PICK bs \in Batches(s) :
                   /\ todo' = [todo EXCEPT ![s] = @ \ bs]
                   /\ batch' = batch \/ batch' = [batch EXCEPT ![s] = bs]
            BY <4>2 DEF RefundPick
          <5>2. bs \subseteq todo[s]
            BY DEF Batches
          <5> QED
            BY <1>0, <5>1, <5>2 DEF RunsHoldOld, RefundTypeOK
        <4>3. CASE RefundStart(s) \/ RefundAccepted(s) \/ RefundFails(s) \/ WriteFails(s)
                     \/ RefundDone(s) \/ RefundCrash(s)
          BY <1>0, <4>3 DEF RefundStart, RefundAccepted, RefundFails, WriteFails, RefundDone,
                            RefundCrash, RunsHoldOld, RefundTypeOK
        <4> QED
          BY <3>2, <4>1, <4>2, <4>3 DEF OwnStep
      <3> QED
        BY <1>3, <2>2, <3>1, <3>2 DEF RunsHoldOld
    <2> QED
      BY <1>0, <2>1, <2>2, <2>3 DEF FreshInv, BetsFresh
  <1>4. ASSUME NEW s \in Server, BookStep(s) PROVE FreshInv'
    <2>1. /\ UNCHANGED <<pc, copy, session, debited, old, todo>>
          /\ \A b \in Bet : row'[b] = row[b] \/ b \in batch[s]
      BY <1>0, <1>4, BookWrites DEF handlerVars, redisVars, walletVars
    <2>2. \A t \in Server : batch'[t] \subseteq batch[t]
      BY <1>0, <1>4 DEF BookStep, RefundRefused, RefundUpdate, RefundMarkFailed,
                        WriteBatchStatus, RefundTypeOK
    <2>3. RunsHoldOld' /\ \A b \in Bet : row'[b] = row[b] \/ b \in old
      BY <1>0, <2>1, <2>2 DEF RunsHoldOld
    <2>4. \A r \in Request : pc[r] \in {"bet_row", "bet_save"} => copy[r].bet \in Bet
      BY <1>0 DEF HandlerInv, CopyHeld, Session
    <2> QED
      BY <1>0, <2>1, <2>3, <2>4 DEF FreshInv, BetsFresh
  <1> QED
    BY <1>1, <1>2, <1>3, <1>4, StepKinds

LEMMA FreshInvariant == RefundSpec => []FreshInv
  BY FreshInitial, FreshStep, RefundInvariant, PTL DEF RefundSpec

-----------------------------------------------------------------------------
(* One refund per bet *)

\* A run that goes on is the only one that has anything to do.
LEMMA RunAlone ==
  ASSUME OnceInv, NEW s \in Server, rpc[s] # "idle"
  PROVE  /\ refundLock = s
         /\ \A t \in Server \ {s} : rpc[t] = "idle" /\ todo[t] = {} /\ batch[t] = {}
  BY DEF OnceInv, RunOwnsLock, RunFresh

\* Rows that go back to PLACED belong to bets that are new.
LEMMA OnceRounds ==
  ASSUME RefundInv, FreshInv, OnceInv, Next,
         UNCHANGED <<old, refunds, rpc, todo, batch, refundLock>>
  PROVE  OnceInv'
  <1>1. ASSUME NEW b \in Bet, row'[b].status = "PLACED", row[b].status # "PLACED"
        PROVE  b \notin old
    <2>1. PICK r \in Request : CreatePlacement(r) \/ SettleFailed(r) \/ RecordSave(r)
      BY <1>1, RowWriters
    <2>2. CreatePlacement(r) /\ copy[r].bet = b
      BY <1>1, <2>1, RowWritten DEF RefundInv
    <2> QED
      BY <2>2 DEF CreatePlacement, FreshInv, BetsFresh
  <1>2. ASSUME NEW b \in Bet PROVE RefundBooked(b)'
    BY <1>1 DEF OnceInv, RefundBooked, Answered
  <1> QED
    BY <1>2 DEF OnceInv, RunOwnsLock, RunFresh, RefundedOnce

\* Refunds of a batch, known to the server or not.
LEMMA OnceRefund ==
  ASSUME RefundInv, FreshInv, OnceInv, NEW s \in Server, rpc[s] = "refund",
         ApplyRefund(s) \/ UNCHANGED refunds,
         rpc' = [rpc EXCEPT ![s] = "update"] \/ rpc' = [rpc EXCEPT ![s] = "mark_failed"],
         UNCHANGED <<row, old, todo, batch, refundLock>>
  PROVE  OnceInv'
  <1> USE DEF RefundInv, RefundTypeOK
  <1>1. \A b \in batch[s] : refunds[b] = 0
    BY DEF OnceInv, RunFresh
  <1>2. \A b \in Bet :
           /\ b \notin batch[s] => refunds'[b] = refunds[b]
           /\ b \in batch[s] => refunds'[b] \in {0, 1}
    BY <1>1 DEF ApplyRefund
  <1>3. RefundedOnce'
    BY <1>2 DEF RefundedOnce, OnceInv
  <1>4. RunOwnsLock'
    BY DEF RunOwnsLock, OnceInv
  <1>5. ASSUME NEW t \in Server PROVE RunFresh(t)'
    <2>1. CASE t = s
      <3>1. \A b \in todo[s] : b \in Bet /\ b \notin batch[s] /\ refunds[b] = 0
        BY DEF OnceInv, RunFresh
      <3>2. \A b \in todo[s] : refunds'[b] = 0
        BY <1>2, <3>1
      <3>3. rpc'[s] \in {"update", "mark_failed"}
        OBVIOUS
      <3> QED
        BY <2>1, <3>2, <3>3 DEF OnceInv, RunFresh
    <2>2. CASE t # s
      <3>1. rpc'[t] = "idle" /\ todo'[t] = {} /\ batch'[t] = {}
        BY <2>2, RunAlone
      <3> QED
        BY <3>1 DEF RunFresh
    <2> QED
      BY <2>1, <2>2
  <1>6. ASSUME NEW b \in Bet PROVE RefundBooked(b)'
    <2>1. Answered(s)' /\ \A t \in Server : Answered(t) => t = s
      BY RunAlone DEF Answered
    <2>2. CASE b \in batch[s]
      <3>1. b \in old
        BY <2>2 DEF FreshInv, RunsHoldOld
      <3> QED
        BY <2>1, <2>2, <3>1 DEF RefundBooked
    <2>3. CASE b \notin batch[s]
      <3>1. refunds[b] > 0 => b \in old /\ row[b].status # "PLACED"
        BY <2>1, <2>3 DEF OnceInv, RefundBooked
      <3> QED
        BY <1>2, <2>3, <3>1 DEF RefundBooked
    <2> QED
      BY <2>2, <2>3
  <1> QED
    BY <1>3, <1>4, <1>5, <1>6 DEF OnceInv

\* The updates of the rows of a batch, one after the other.
LEMMA OnceUpdate ==
  ASSUME RefundInv, OnceInv, "db" \notin Faults, NEW s \in Server,
         RefundUpdate(s) \/ RefundMarkFailed(s)
  PROVE  OnceInv'
  <1> USE DEF RefundInv, RefundTypeOK
  <1>1. PICK b \in batch[s] :
           /\ batch' = [batch EXCEPT ![s] = @ \ {b}]
           /\ \/ row' = [row EXCEPT ![b].status = "REFUNDED"]
              \/ row' = [row EXCEPT ![b].status = "SETTLEMENT_FAILED"]
           /\ IF batch[s] = {b} THEN rpc' = [rpc EXCEPT ![s] = "pick"] ELSE rpc' = rpc
           /\ rpc[s] \in {"update", "mark_failed"}
    BY DEF RefundUpdate, RefundMarkFailed, WriteBatchStatus, RGoto
  <1>2. UNCHANGED <<old, refunds, todo, refundLock>>
    BY DEF RefundUpdate, RefundMarkFailed, WriteBatchStatus
  <1>3. b \in Bet /\ row'[b].status # "PLACED" /\ \A c \in Bet \ {b} : row'[c] = row[c]
    BY <1>1 DEF TypeOK, Row
  <1>4. RunOwnsLock' /\ RefundedOnce'
    BY <1>1, <1>2 DEF OnceInv, RunOwnsLock, RefundedOnce
  <1>5. ASSUME NEW t \in Server PROVE RunFresh(t)'
    BY <1>1, <1>2 DEF OnceInv, RunFresh
  <1>6. ASSUME NEW c \in Bet PROVE RefundBooked(c)'
    <2>1. CASE c = b
      BY <1>2, <1>3, <2>1 DEF OnceInv, RefundBooked
    <2>2. CASE c # b
      <3>1. \A t \in Server : Answered(t) /\ c \in batch[t] =>
               Answered(t)' /\ c \in batch'[t]
        BY <1>1, <2>2 DEF Answered
      <3> QED
        BY <1>2, <1>3, <2>2, <3>1 DEF OnceInv, RefundBooked
    <2> QED
      BY <2>1, <2>2
  <1> QED
    BY <1>4, <1>5, <1>6 DEF OnceInv

LEMMA OnceStep ==
  ASSUME RefundInv, FreshInv, OnceInv, [RefundNext]_allVars,
         Faults \cap {"crash", "db", "slow", "flush"} = {}
  PROVE  OnceInv'
  <1> USE DEF RefundInv, RefundTypeOK
  <1>1. CASE RoundStep \/ (\E p \in Player : SessionEnds(p)) \/ DisconnectAll
    <2>1. ~DisconnectAll
      BY DEF DisconnectAll, Disconnect
    <2>2. Next /\ UNCHANGED <<old, refunds, rpc, todo, batch, refundLock>>
      BY <1>1, <2>1, RoundSteps DEF RoundStep, SessionEnds, refundVars
    <2> QED
      BY <2>2, OnceRounds
  <1>2. CASE (\E b \in Bet : Age(b)) \/ UNCHANGED allVars
    <2>1. /\ UNCHANGED <<row, refunds, rpc, todo, batch, refundLock>>
          /\ old \subseteq old'
      BY <1>2 DEF Age, vars, runVars, allVars, refundVars
    <2>2. \A b \in Bet : RefundBooked(b)'
      BY <2>1 DEF OnceInv, RefundBooked, Answered
    <2> QED
      BY <2>1, <2>2 DEF OnceInv, RunOwnsLock, RunFresh, RefundedOnce
  <1>3. CASE RefundLockExpires
    <2>1. UNCHANGED <<row, old, refunds, rpc, todo, batch>> /\ refundLock' = Free
      BY <1>3 DEF RefundLockExpires, vars, runVars
    <2>2. \A s \in Server : rpc[s] = "idle"
      BY <1>3, RunAlone DEF RefundLockExpires
    <2>3. \A b \in Bet : RefundBooked(b)'
      BY <2>1 DEF OnceInv, RefundBooked, Answered
    <2> QED
      BY <2>1, <2>2, <2>3 DEF OnceInv, RunOwnsLock, RunFresh, RefundedOnce
  <1>4. ASSUME NEW s \in Server, RefundStart(s) \/ RefundDone(s) PROVE OnceInv'
    <2>1. /\ UNCHANGED <<row, old, refunds, todo, batch>>
          /\ \/ rpc[s] = "idle" /\ rpc' = [rpc EXCEPT ![s] = "query"]
                /\ refundLock = Free /\ refundLock' = s
             \/ rpc[s] = "pick" /\ todo[s] = {} /\ rpc' = [rpc EXCEPT ![s] = "idle"]
                /\ refundLock' = Free
      BY <1>4 DEF RefundStart, RefundDone, RGoto, vars
    <2>2. \A t \in Server \ {s} : rpc[t] = "idle" /\ rpc'[t] = "idle"
      BY <2>1, RunAlone, RefundAssumption
    <2>3. RunOwnsLock'
      BY <2>1, <2>2 DEF RunOwnsLock
    <2>4. \A t \in Server : RunFresh(t)'
      BY <2>1, <2>2 DEF OnceInv, RunFresh
    <2>5. \A t \in Server : ~Answered(t)
      BY <2>1, <2>2 DEF Answered
    <2>6. \A b \in Bet : RefundBooked(b)'
      BY <2>1, <2>5 DEF OnceInv, RefundBooked
    <2> QED
      BY <2>1, <2>3, <2>4, <2>6 DEF OnceInv, RefundedOnce
  <1>5. ASSUME NEW s \in Server, RefundQuery(s) \/ RefundPick(s) PROVE OnceInv'
    <2>1. /\ rpc[s] \in {"query", "pick"} /\ batch[s] = {}
          /\ UNCHANGED <<row, old, refunds, refundLock>>
          /\ \A t \in Server \ {s} :
                rpc'[t] = rpc[t] /\ todo'[t] = todo[t] /\ batch'[t] = batch[t]
      BY <1>5 DEF RefundQuery, RefundPick, RGoto, vars, OnceInv, RunFresh
    <2>2. \A t \in Server : ~Answered(t)
      BY <2>1, RunAlone DEF Answered
    <2>3. \A b \in Bet : RefundBooked(b)'
      BY <2>1, <2>2 DEF OnceInv, RefundBooked
    <2>4. RunOwnsLock'
      BY <2>1, RunAlone DEF RunOwnsLock, OnceInv
    <2>5. RunFresh(s)'
      <3>1. CASE RefundQuery(s)
        <4>1. /\ rpc'[s] = "pick" /\ todo'[s] = OldPlacedBets /\ batch'[s] = {}
          BY <2>1, <3>1 DEF RefundQuery, RGoto
        <4>2. \A b \in OldPlacedBets : refunds[b] = 0
          BY <2>2 DEF OldPlacedBets, OnceInv, RefundBooked
        <4> QED
          BY <2>1, <4>1, <4>2 DEF RunFresh
      <3>2. CASE RefundPick(s)
        <4>1. PICK bs \in Batches(s) :
                 /\ todo' = [todo EXCEPT ![s] = @ \ bs]
                 /\ \/ rpc'[s] = "pick" /\ batch'[s] = {}
                    \/ rpc'[s] = "refund" /\ batch'[s] = bs
          BY <2>1, <3>2 DEF RefundPick, RGoto
        <4>2. bs \subseteq todo[s] /\ todo'[s] = todo[s] \ bs
          BY <4>1 DEF Batches
        <4>3. \A b \in todo[s] : refunds[b] = 0
          BY DEF OnceInv, RunFresh
        <4> QED
          BY <2>1, <4>1, <4>2, <4>3 DEF RunFresh
      <3> QED
        BY <1>5, <3>1, <3>2
    <2>6. \A t \in Server : RunFresh(t)'
      BY <2>1, <2>5 DEF OnceInv, RunFresh
    <2> QED
      BY <2>1, <2>3, <2>4, <2>6 DEF OnceInv, RefundedOnce
  <1>6. ASSUME NEW s \in Server, RefundAccepted(s) \/ RefundRefused(s) PROVE OnceInv'
    <2>1. UNCHANGED row /\ UNCHANGED <<old, todo, batch, refundLock>> /\ rpc[s] = "refund"
      BY <1>6 DEF RefundAccepted, RefundRefused, vars
    <2> QED
      BY <1>6, <2>1, OnceRefund DEF RefundAccepted, RefundRefused, RGoto
  <1>7. ASSUME NEW s \in Server, RefundFails(s) \/ WriteFails(s) \/ RefundCrash(s)
        PROVE  FALSE
    BY <1>7 DEF RefundFails, WriteFails, RefundCrash
  <1> QED
    BY <1>1, <1>2, <1>3, <1>4, <1>5, <1>6, <1>7, OnceUpdate, StepKinds DEF OwnStep, BookStep

\* While runs do not fail, and end before their lock does, the agent is asked at most once
\* to give a stake back, however many servers refund, and whichever replies are lost.
THEOREM RefundsHappenOnce ==
  ASSUME Faults \cap {"crash", "db", "slow", "flush"} = {}
  PROVE  RefundSpec => []RefundedOnce
  <1>1. RefundInit => OnceInv
    BY DEF RefundInit, Init, OnceInv, RunOwnsLock, RunFresh, RefundBooked, RefundedOnce
  <1>2. RefundInv /\ FreshInv /\ OnceInv /\ [RefundNext]_allVars => OnceInv'
    BY OnceStep
  <1>3. OnceInv => RefundedOnce
    BY DEF OnceInv
  <1> QED
    BY <1>1, <1>2, <1>3, RefundInvariant, FreshInvariant, PTL DEF RefundSpec

-----------------------------------------------------------------------------
(* Retry jobs of failed bets *)

FailInv == FailuresQueued /\ RetriesApart

\* Who starts the creation of a job for a round.
LEMMA RoundCreations ==
  ASSUME HandlerInv, [Next]_vars
  PROVE  \/ UNCHANGED retryVars \/ CreationStep
         \/ /\ jobs' = jobs
            /\ \E b \in Bet : creating' = creating \cup
                                {[kind |-> "settle", bet |-> b, batch |-> {b}]}
  <1>1. ASSUME NEW r \in Request, Start(r) \/ PlayFlow(r) \/ Crash(r)
        PROVE  UNCHANGED retryVars
    BY <1>1 DEF dbVars, Start, BetAcquireLock, CashOutRead, StepRead, ReadSession, PlayFlow,
                StepSave, CashOutSave, PlayFails, Crash
  <1>2. ASSUME NEW r \in Request, BetFlow(r) PROVE UNCHANGED retryVars
    BY <1>2 DEF dbVars, BetFlow, BetRejected, BetAccepted, BetDebit, BetRefused,
                CreatePlacement, BetSaveSession, BetFails, BetReleaseLock
  <1>3. ASSUME NEW r \in Request, SettleAccepted(r) \/ SettleRefused(r)
        PROVE  \/ UNCHANGED retryVars
               \/ /\ jobs' = jobs
                  /\ \E b \in Bet : creating' = creating \cup
                                      {[kind |-> "settle", bet |-> b, batch |-> {b}]}
    <2>1. copy[r] \in Session /\ copy[r].bet \in Bet
      BY <1>3 DEF SettleAccepted, SettleRefused, HandlerInv, CopyHeld, PlayPC, Session
    <2> QED
      BY <1>3, <2>1 DEF SettleAccepted, SettleRefused, SettleJob, retryVars
  <1>4. ASSUME NEW r \in Request, SettleFlow(r), ~SettleAccepted(r), ~SettleRefused(r)
        PROVE  UNCHANGED retryVars
    BY <1>4 DEF dbVars, SettleFlow, SettleFailed, RecordRead, RecordSave, RecordFails,
                ClearSession
  <1>5. \/ \E p \in Player : SessionExpires(p) \/ LockExpires(p)
        \/ Disconnect \/ UNCHANGED vars
        => UNCHANGED retryVars
    BY DEF SessionExpires, LockExpires, Disconnect, vars, dbVars, retryVars
  <1> QED
    BY <1>1, <1>2, <1>3, <1>4, <1>5 DEF Next, Continue

\* A handler whose settlement has failed has started the creation of its job.
LEMMA FailureBegins ==
  ASSUME HandlerInv, [Next]_vars, NEW r \in Request, pc'[r] = "settle_failed"
  PROVE  /\ copy'[r] = copy[r] /\ copy[r].bet \in Bet
         /\ \/ pc[r] = "settle_failed"
            \/ SettleJob(copy[r]) \in creating'
  <1> USE DEF HandlerInv, TypeOK, Goto, Finish, handlerVars
  <1>1. ASSUME NEW q \in Request, Start(q) PROVE pc[r] = "settle_failed" /\ copy'[r] = copy[r]
    BY <1>1 DEF Start, BetAcquireLock, CashOutRead, StepRead, ReadSession
  <1>2. ASSUME NEW q \in Request, BetFlow(q)
        PROVE  pc[r] = "settle_failed" /\ copy'[r] = copy[r]
    BY <1>2 DEF BetFlow, BetRejected, BetAccepted, BetDebit, BetRefused, CreatePlacement,
                BetSaveSession, BetFails, BetReleaseLock
  <1>3. ASSUME NEW q \in Request, PlayFlow(q)
        PROVE  pc[r] = "settle_failed" /\ copy'[r] = copy[r]
    BY <1>3 DEF PlayFlow, StepSave, CashOutSave, PlayFails
  <1>4. ASSUME NEW q \in Request, SettleFlow(q)
        PROVE  /\ copy'[r] = copy[r]
               /\ pc[r] = "settle_failed" \/ SettleAccepted(r) \/ SettleRefused(r)
    BY <1>4 DEF SettleFlow, SettleAccepted, SettleRefused, SettleFailed, RecordRead,
                RecordSave, RecordFails, ClearSession
  <1>5. \/ \E q \in Request : Crash(q)
        \/ \E p \in Player : SessionExpires(p) \/ LockExpires(p)
        \/ CreationStep \/ Disconnect \/ UNCHANGED vars
        => pc[r] = "settle_failed" /\ copy'[r] = copy[r]
    BY DEF Crash, CreationStep, CreateRetryJob, CreationFails, SessionExpires, LockExpires,
           Disconnect, vars
  <1>6. /\ copy'[r] = copy[r]
        /\ pc[r] = "settle_failed" \/ SettleAccepted(r) \/ SettleRefused(r)
    BY <1>1, <1>2, <1>3, <1>4, <1>5 DEF Next, Continue
  <1>7. pc[r] \in PlayPC
    BY <1>6 DEF SettleAccepted, SettleRefused, PlayPC
  <1>8. copy[r].bet \in Bet
    BY <1>7 DEF CopyHeld, Session
  <1>9. SettleAccepted(r) => SettleJob(copy[r]) \in creating'
    BY DEF SettleAccepted
  <1>10. SettleRefused(r) => SettleJob(copy[r]) \in creating'
    BY DEF SettleRefused
  <1> QED
    BY <1>6, <1>8, <1>9, <1>10

\* A creation that ends leaves its batch with a job, new or found: refund jobs of one name
\* have one batch.
LEMMA CreationQueues ==
  ASSUME TypeOK, RetriesApart, CreationStep, {"crash", "db"} \cap Faults = {}
  PROVE  /\ jobs' \cup creating' \subseteq jobs \cup creating
         /\ \A b \in Bet : Queued(b) => Queued(b)'
  <1>1. PICK j \in creating :
           /\ creating' = creating \ {j}
           /\ \/ jobs' = jobs \cup {j}
              \/ jobs' = jobs /\ \E k \in jobs : k.kind = j.kind /\ k.bet = j.bet
    BY DEF CreationStep, CreateRetryJob, CreationFails
  <1>2. CASE jobs' = jobs \cup {j}
    BY <1>1, <1>2 DEF Queued
  <1>3. ASSUME jobs' = jobs, NEW k \in jobs, k.kind = j.kind, k.bet = j.bet,
               NEW b \in Bet, Queued(b)
        PROVE  Queued(b)'
    <2>1. b \in j.batch => j \in jobs \cup creating /\ k \in jobs \cup creating
      OBVIOUS
    <2>2. CASE j.kind = "settle"
      <3>1. k.batch = j.batch
        BY <1>3, <2>2 DEF RetriesApart
      <3> QED
        BY <1>1, <1>3, <3>1 DEF Queued
    <2>3. CASE j.kind = "refund"
      <3>1. j.bet \in j.batch /\ j.bet \in k.batch
        BY <1>3 DEF RetriesApart
      <3>2. k.batch = j.batch
        BY <1>3, <2>3, <3>1 DEF RetriesApart
      <3> QED
        BY <1>1, <1>3, <3>2 DEF Queued
    <2>4. j.kind \in {"settle", "refund"}
      BY <1>1 DEF TypeOK, Job
    <2> QED
      BY <2>2, <2>3, <2>4
  <1> QED
    BY <1>1, <1>2, <1>3

\* The rounds leave the jobs of failed refunds apart: they create no such job, and book
\* only rows of bets that are new.
LEMMA RoundFailures ==
  ASSUME RefundTypeOK, HandlerInv, BetsFresh, FailInv, [Next]_vars,
         UNCHANGED <<old, rpc, todo, batch>>, {"crash", "db"} \cap Faults = {}
  PROVE  FailInv'
  <1> USE DEF RefundTypeOK, FailInv
  <1>1. \A b \in Bet : Queued(b) => Queued(b)'
    <2>1. CASE CreationStep
      BY <2>1, CreationQueues
    <2>2. CASE ~CreationStep
      <3>1. jobs' = jobs /\ creating \subseteq creating'
        BY <2>2, RoundCreations DEF retryVars
      <3> QED
        BY <3>1 DEF Queued
    <2> QED
      BY <2>1, <2>2
  <1>2. \A j \in jobs' \cup creating' :
           j \in jobs \cup creating \/ (j.kind = "settle" /\ j.batch = {j.bet})
    <2>1. CASE CreationStep
      BY <2>1, CreationQueues
    <2>2. CASE ~CreationStep
      BY <2>2, RoundCreations DEF retryVars
    <2> QED
      BY <2>1, <2>2
  <1>3. \A b \in Bet : Retried(b)' => Retried(b)
    BY <1>2 DEF Retried
  <1>4. ASSUME NEW r \in Request, pc'[r] = "settle_failed"
        PROVE  \E j \in jobs' \cup creating' : copy[r].bet \in j.batch
    <2>1. copy[r].bet \in Bet /\ (pc[r] = "settle_failed" \/ SettleJob(copy[r]) \in creating')
      BY <1>4, FailureBegins
    <2>2. CASE pc[r] = "settle_failed"
      BY <1>1, <2>1, <2>2 DEF FailuresQueued, Queued
    <2>3. CASE SettleJob(copy[r]) \in creating'
      BY <2>3 DEF SettleJob
    <2> QED
      BY <2>1, <2>2, <2>3
  <1>5. ASSUME NEW b \in Bet, row'[b].status = "SETTLEMENT_FAILED" PROVE Queued(b)'
    <2>1. CASE row'[b] = row[b]
      BY <1>1, <1>5, <2>1 DEF FailuresQueued
    <2>2. CASE row'[b] # row[b]
      <3>1. PICK r \in Request : CreatePlacement(r) \/ SettleFailed(r) \/ RecordSave(r)
        BY <2>2, RowWriters
      <3>2. SettleFailed(r) /\ copy[r].bet = b
        BY <1>5, <2>2, <3>1, RowWritten
      <3>3. pc[r] = "settle_failed"
        BY <3>2 DEF SettleFailed
      <3> QED
        BY <1>1, <3>2, <3>3 DEF FailuresQueued
    <2> QED
      BY <2>1, <2>2
  <1>6. FailuresQueued'
    <2>1. \A r \in Request : pc'[r] = "settle_failed" => copy'[r] = copy[r]
      BY FailureBegins
    <2> QED
      BY <1>1, <1>4, <1>5, <2>1 DEF FailuresQueued, Queued
  <1>7. ASSUME NEW b \in Bet, Retried(b), row'[b].status = "PLACED"
        PROVE  row[b].status = "PLACED"
    <2> SUFFICES ASSUME row'[b] # row[b] PROVE FALSE
      BY <1>7
    <2>1. PICK r \in Request : CreatePlacement(r) \/ SettleFailed(r) \/ RecordSave(r)
      BY RowWriters
    <2>2. CreatePlacement(r) /\ copy[r].bet = b
      BY <1>7, <2>1, RowWritten
    <2> QED
      BY <1>7, <2>2 DEF CreatePlacement, BetsFresh, RetriesApart
  <1>8. RetriesApart'
    <2>1. \A j \in jobs' \cup creating' :
             (j.kind = "settle" => j.batch = {j.bet}) /\ j.bet \in j.batch
      BY <1>2 DEF RetriesApart
    <2>2. \A j, k \in jobs' \cup creating' :
             j.kind = "refund" /\ k.kind = "refund" /\ j.batch \cap k.batch # {}
               => j.batch = k.batch
      BY <1>2 DEF RetriesApart
    <2>3. ASSUME NEW b \in Bet, Retried(b)'
          PROVE  /\ b \in old
                 /\ row'[b].status = "PLACED" =>
                      \E s \in Server : rpc[s] = "mark_failed" /\ b \in batch[s]
                 /\ \A s \in Server : b \notin todo[s] /\ (rpc[s] = "refund" => b \notin batch[s])
      BY <1>3, <1>7, <2>3 DEF RetriesApart
    <2> QED
      BY <2>1, <2>2, <2>3 DEF RetriesApart
  <1> QED
    BY <1>6, <1>8

\* A run that begins, looks for bets or refunds them works on none whose refund failed.
LEMMA RunFailures ==
  ASSUME RefundTypeOK, OnceInv, FailInv, NEW s \in Server,
         \/ RefundStart(s) \/ RefundQuery(s) \/ RefundPick(s) \/ RefundAccepted(s)
         \/ RefundDone(s)
  PROVE  FailInv'
  <1> USE DEF RefundTypeOK, FailInv, RGoto
  <1>1. UNCHANGED <<pc, copy, row, jobs, creating, old>>
    BY DEF RefundStart, RefundQuery, RefundPick, RefundAccepted, RefundDone, vars
  <1>2. \A t \in Server : rpc[t] = "mark_failed" => t # s
    BY DEF RefundStart, RefundQuery, RefundPick, RefundAccepted, RefundDone
  <1>3. /\ rpc'[s] # "mark_failed"
        /\ \A t \in Server \ {s} : rpc'[t] = rpc[t] /\ batch'[t] = batch[t] /\ todo'[t] = todo[t]
    BY DEF RefundStart, RefundQuery, RefundPick, RefundAccepted, RefundDone
  <1>4. FailuresQueued'
    BY <1>1, <1>3 DEF FailuresQueued, Queued
  <1>5. ASSUME NEW b \in Bet, Retried(b)
        PROVE  b \notin todo'[s] /\ (rpc'[s] = "refund" => b \notin batch'[s])
    <2>1. b \notin todo[s]
      BY <1>5 DEF RetriesApart
    <2>2. CASE RefundQuery(s)
      <3>1. rpc[s] = "query" /\ todo'[s] = OldPlacedBets /\ rpc'[s] = "pick"
        BY <2>2 DEF RefundQuery
      <3>2. row[b].status # "PLACED"
        BY <1>5, <3>1, RunAlone DEF RetriesApart
      <3> QED
        BY <3>1, <3>2 DEF OldPlacedBets
    <2>3. CASE RefundPick(s)
      <3>1. PICK bs \in Batches(s) :
               /\ todo' = [todo EXCEPT ![s] = @ \ bs]
               /\ \/ rpc' = rpc
                  \/ batch' = [batch EXCEPT ![s] = bs]
        BY <2>3 DEF RefundPick
      <3>2. bs \subseteq todo[s]
        BY <3>1 DEF Batches
      <3>3. rpc[s] = "pick"
        BY <2>3 DEF RefundPick
      <3> QED
        BY <2>1, <3>1, <3>2, <3>3
    <2>4. CASE RefundStart(s) \/ RefundAccepted(s) \/ RefundDone(s)
      BY <2>1, <2>4 DEF RefundStart, RefundAccepted, RefundDone
    <2> QED
      BY <2>2, <2>3, <2>4
  <1>6. RetriesApart'
    <2>1. \A b \in Bet : Retried(b)' => Retried(b)
      BY <1>1 DEF Retried
    <2>2. ASSUME NEW b \in Bet, Retried(b)'
          PROVE  /\ b \in old
                 /\ row[b].status = "PLACED" =>
                      \E t \in Server : rpc'[t] = "mark_failed" /\ b \in batch'[t]
                 /\ \A t \in Server : b \notin todo'[t] /\ (rpc'[t] = "refund" => b \notin batch'[t])
      BY <1>2, <1>3, <1>5, <2>1, <2>2 DEF RetriesApart
    <2> QED
      BY <1>1, <2>2 DEF RetriesApart
  <1> QED
    BY <1>4, <1>6

\* A refused refund has its creation under way, the first in the name of these bets.
LEMMA RefusalQueues ==
  ASSUME RefundTypeOK, RunsHoldOld, OnceInv, FailInv, NEW s \in Server, RefundRefused(s)
  PROVE  FailInv'
  <1> USE DEF RefundTypeOK, FailInv, RGoto
  <1>1. PICK n \in batch[s] : creating' = creating \cup {RefundJob(n, batch[s])}
    BY DEF RefundRefused
  <1>2. /\ UNCHANGED <<pc, copy, row, jobs, old, todo, batch>>
        /\ rpc[s] = "refund" /\ rpc' = [rpc EXCEPT ![s] = "mark_failed"]
    BY DEF RefundRefused, handlerVars
  <1> DEFINE new == RefundJob(n, batch[s])
  <1>3. new.kind = "refund" /\ new.bet \in new.batch /\ new.batch = batch[s]
    BY DEF RefundJob
  <1> HIDE DEF new
  <1>4. \A b \in Bet : Queued(b) => Queued(b)'
    BY <1>1, <1>2 DEF Queued
  <1>5. \A b \in batch[s] : Queued(b)'
    BY <1>1, <1>3 DEF Queued, new
  <1>6. FailuresQueued'
    <2>1. \A r \in Request : pc[r] = "settle_failed" => Queued(copy[r].bet)'
      BY <1>1, <1>2 DEF FailuresQueued, Queued
    <2>2. ASSUME NEW t \in Server, rpc'[t] = "mark_failed", NEW b \in batch[t]
          PROVE  Queued(b)'
      BY <1>2, <1>4, <1>5, <2>2 DEF FailuresQueued
    <2> QED
      BY <1>2, <1>4, <2>1, <2>2 DEF FailuresQueued
  <1>7. ASSUME NEW k \in jobs \cup creating, k.kind = "refund" PROVE k.batch \cap batch[s] = {}
    <2> SUFFICES ASSUME NEW b \in k.batch, b \in batch[s] PROVE FALSE
      OBVIOUS
    <2>1. b \in Bet /\ Retried(b)
      BY <1>7 DEF Retried
    <2> QED
      BY <1>2, <2>1 DEF RetriesApart
  <1>8. RetriesApart'
    <2>1. \A j \in jobs' \cup creating' :
             (j.kind = "settle" => j.batch = {j.bet}) /\ j.bet \in j.batch
      BY <1>1, <1>2, <1>3 DEF RetriesApart, new
    <2>2. \A j, k \in jobs' \cup creating' :
             j.kind = "refund" /\ k.kind = "refund" /\ j.batch \cap k.batch # {}
               => j.batch = k.batch
      BY <1>1, <1>2, <1>3, <1>7 DEF RetriesApart, new
    <2>3. ASSUME NEW b \in Bet, Retried(b)'
          PROVE  /\ b \in old
                 /\ row[b].status = "PLACED" =>
                      \E t \in Server : rpc'[t] = "mark_failed" /\ b \in batch[t]
                 /\ \A t \in Server : b \notin todo[t] /\ (rpc'[t] = "refund" => b \notin batch[t])
      <3>1. Retried(b) \/ b \in batch[s]
        BY <1>1, <1>2, <1>3, <2>3 DEF Retried, new
      <3>2. CASE b \in batch[s]
        <4>1. b \in old
          BY <3>2 DEF RunsHoldOld
        <4>2. \A t \in Server : b \notin todo[t] /\ (t # s => b \notin batch[t])
          BY <1>2, <3>2, RunAlone DEF OnceInv, RunFresh
        <4> QED
          BY <1>2, <3>2, <4>1, <4>2
      <3>3. CASE Retried(b)
        <4>1. \A t \in Server : rpc[t] # "mark_failed"
          BY <1>2, RunAlone
        <4> QED
          BY <1>2, <3>3, <4>1 DEF RetriesApart
      <3> QED
        BY <3>1, <3>2, <3>3
    <2> QED
      BY <1>2, <2>1, <2>2, <2>3 DEF RetriesApart
  <1> QED
    BY <1>6, <1>8

\* The rows of a batch are marked after its job is on its way.
LEMMA MarksQueued ==
  ASSUME RefundTypeOK, FailInv, NEW s \in Server, RefundUpdate(s) \/ RefundMarkFailed(s)
  PROVE  FailInv'
  <1> USE DEF RefundTypeOK, FailInv
  <1>1. PICK b \in batch[s], status \in {"REFUNDED", "SETTLEMENT_FAILED"} :
           /\ row' = [row EXCEPT ![b].status = status]
           /\ batch' = [batch EXCEPT ![s] = @ \ {b}]
           /\ IF batch[s] = {b} THEN rpc' = [rpc EXCEPT ![s] = "pick"] ELSE rpc' = rpc
           /\ rpc[s] = IF status = "REFUNDED" THEN "update" ELSE "mark_failed"
    BY DEF RefundUpdate, RefundMarkFailed, WriteBatchStatus, RGoto
  <1>2. UNCHANGED <<pc, copy, jobs, creating, old, todo>>
    BY DEF RefundUpdate, RefundMarkFailed, WriteBatchStatus, handlerVars, retryVars
  <1>3. b \in Bet /\ row'[b].status = status /\ \A c \in Bet \ {b} : row'[c] = row[c]
    BY <1>1 DEF TypeOK, Row
  <1>4. \A t \in Server : rpc'[t] \in {rpc[t], "pick"} /\ batch'[t] \subseteq batch[t]
    BY <1>1
  <1>5. \A c \in Bet : Queued(c)' <=> Queued(c)
    BY <1>2 DEF Queued
  <1>6. status = "SETTLEMENT_FAILED" => Queued(b)
    BY <1>1 DEF FailuresQueued
  <1>7. FailuresQueued'
    <2>1. \A r \in Request : pc'[r] = "settle_failed" => Queued(copy[r].bet)'
      BY <1>2 DEF FailuresQueued, Queued
    <2>2. \A c \in Bet : row'[c].status = "SETTLEMENT_FAILED" => Queued(c)'
      BY <1>3, <1>5, <1>6 DEF FailuresQueued
    <2>3. ASSUME NEW t \in Server, rpc'[t] = "mark_failed", NEW c \in batch'[t]
          PROVE  Queued(c)'
      BY <1>4, <1>5, <2>3 DEF FailuresQueued
    <2> QED
      BY <1>2, <2>1, <2>2, <2>3 DEF FailuresQueued
  <1>8. RetriesApart'
    <2>1. \A c \in Bet : Retried(c)' <=> Retried(c)
      BY <1>2 DEF Retried
    <2>2. ASSUME NEW c \in Bet, Retried(c)
          PROVE  /\ row'[c].status = "PLACED" =>
                      \E t \in Server : rpc'[t] = "mark_failed" /\ c \in batch'[t]
                 /\ \A t \in Server : c \notin todo[t] /\ (rpc'[t] = "refund" => c \notin batch'[t])
      <3>1. \A t \in Server : c \notin todo[t] /\ (rpc'[t] = "refund" => c \notin batch'[t])
        BY <1>4, <2>2 DEF RetriesApart
      <3>2. ASSUME row'[c].status = "PLACED"
            PROVE  \E t \in Server : rpc'[t] = "mark_failed" /\ c \in batch'[t]
        <4>1. c # b
          BY <1>1, <1>3, <3>2
        <4>2. PICK t \in Server : rpc[t] = "mark_failed" /\ c \in batch[t]
          BY <1>3, <2>2, <3>2, <4>1 DEF RetriesApart
        <4> QED
          BY <1>1, <4>1, <4>2
      <3> QED
        BY <3>1, <3>2
    <2> QED
      BY <1>2, <2>1, <2>2 DEF RetriesApart
  <1> QED
    BY <1>7, <1>8

LEMMA FailStep ==
  ASSUME RefundInv, FreshInv, OnceInv, FailInv, [RefundNext]_allVars,
         {"crash", "db", "slow", "flush"} \cap Faults = {}
  PROVE  FailInv'
  <1>0. RefundTypeOK /\ HandlerInv /\ BetsFresh /\ RunsHoldOld
    BY DEF RefundInv, FreshInv
  <1>1. CASE RoundStep \/ (\E p \in Player : SessionEnds(p)) \/ DisconnectAll
    BY <1>0, <1>1, RoundSteps, RoundFailures
  <1>2. CASE (\E b \in Bet : Age(b)) \/ RefundLockExpires \/ UNCHANGED allVars
    <2>1. /\ UNCHANGED <<pc, copy, row, jobs, creating, rpc, todo, batch>>
          /\ old \subseteq old'
      BY <1>2 DEF Age, RefundLockExpires, vars, runVars, allVars, refundVars
    <2>2. \A b \in Bet : (Queued(b)' <=> Queued(b)) /\ (Retried(b)' <=> Retried(b))
      BY <2>1 DEF Queued, Retried
    <2>3. FailuresQueued'
      BY <2>1 DEF FailInv, FailuresQueued, Queued
    <2> QED
      BY <2>1, <2>2, <2>3 DEF FailInv, RetriesApart
  <1>3. ASSUME NEW s \in Server, OwnStep(s) PROVE FailInv'
    <2>1. ~RefundFails(s) /\ ~WriteFails(s) /\ ~RefundCrash(s)
      BY DEF RefundFails, WriteFails, RefundCrash
    <2> QED
      BY <1>0, <1>3, <2>1, RunFailures DEF OwnStep
  <1>4. ASSUME NEW s \in Server, BookStep(s) PROVE FailInv'
    BY <1>0, <1>4, RefusalQueues, MarksQueued DEF BookStep
  <1> QED
    BY <1>1, <1>2, <1>3, <1>4, StepKinds

\* As long as jobs can be written, no server dies and runs do not overlap, every bet marked
\* SETTLEMENT_FAILED, by a settlement or by a refund of a batch, is in the batch of a retry
\* job or of one that is being created: its creation, which nobody waits for, may end with
\* the job of another call, and that job has the same batch.
THEOREM FailedBetsAlwaysQueued == RefundSpec => []FailedBetsQueued
  <1>1. CASE {"crash", "db", "slow", "flush"} \cap Faults = {}
    <2>1. RefundInit => OnceInv /\ FailInv
      BY DEF RefundInit, Init, OnceInv, RunOwnsLock, RunFresh, RefundBooked, RefundedOnce,
             FailInv, FailuresQueued, RetriesApart, Retried
    <2>2. RefundInv /\ FreshInv /\ OnceInv /\ FailInv /\ [RefundNext]_allVars
            => OnceInv' /\ FailInv'
      BY <1>1, OnceStep, FailStep
    <2>3. FailInv => FailedBetsQueued
      BY DEF FailInv, FailuresQueued, FailedBetsQueued, Queued
    <2> QED
      BY <2>1, <2>2, <2>3, RefundInvariant, FreshInvariant, PTL DEF RefundSpec
  <1>2. CASE {"crash", "db", "slow", "flush"} \cap Faults # {}
    <2>1. FailedBetsQueued
      BY <1>2 DEF FailedBetsQueued
    <2> QED
      BY <2>1, PTL
  <1> QED
    BY <1>1, <1>2

-----------------------------------------------------------------------------
(* Rounds that are over *)

\* A handler holds what it held, what it has read from its player's key, or a bet of its
\* own player that it has just debited.
LEMMA CopyWriters ==
  ASSUME HandlerInv, [Next]_vars, NEW r \in Request, copy'[r] # NoSession
  PROVE  \/ Holds(copy[r], copy'[r].bet)
         \/ copy'[r] = session[PlayerOf[r]]
         \/ PlayerOf[copy'[r].bet] = PlayerOf[r]
  <1> USE DEF HandlerInv, TypeOK, Finish, handlerVars
  <1>1. CASE copy'[r] = copy[r]
    BY <1>1 DEF Holds
  <1>2. ASSUME NEW q \in Request, Start(q), copy'[r] # copy[r]
        PROVE  copy'[r] = session[PlayerOf[r]]
    BY <1>2 DEF Start, BetAcquireLock, CashOutRead, StepRead, ReadSession
  <1>3. ASSUME NEW q \in Request, BetFlow(q), copy'[r] # copy[r]
        PROVE  PlayerOf[copy'[r].bet] = PlayerOf[r]
    <2>1. BetDebit(q)
      BY <1>3 DEF BetFlow, BetRejected, BetAccepted, BetRefused, CreatePlacement,
                  BetSaveSession, BetFails, BetReleaseLock
    <2>2. PICK b \in Bet : PlayerOf[b] = PlayerOf[q] /\ copy' = [copy EXCEPT ![q] = NewSession(b)]
      BY <1>3, <2>1 DEF BetDebit
    <2> QED
      BY <1>3, <2>2, NewSessionType
  <1>4. ASSUME NEW q \in Request, PlayFlow(q), copy'[r] # copy[r]
        PROVE  Holds(copy[r], copy'[r].bet)
    <2>1. q = r /\ ~PlayFails(q)
      BY <1>4 DEF PlayFlow, StepSave, CashOutSave, PlayFails
    <2>2. pc[r] \in {"step", "cashout"}
      BY <1>4, <2>1 DEF PlayFlow, StepSave, CashOutSave
    <2>3. copy[r] \in Session /\ copy[r] # NoSession
      BY <2>2, ConstantsAssumption DEF CopyHeld, PlayPC
    <2>4. CASE CashOutSave(r)
      BY <2>3, <2>4 DEF CashOutSave, Session, Holds
    <2>5. ASSUME NEW hit \in BOOLEAN, StepSave(r, hit) PROVE copy'[r].bet = copy[r].bet
      BY <2>5, StepSaved
    <2> QED
      BY <1>4, <2>1, <2>3, <2>4, <2>5 DEF PlayFlow, Holds
  <1>5. ASSUME NEW q \in Request, SettleFlow(q) PROVE copy'[r] \in {copy[r], NoSession}
    BY <1>5 DEF SettleFlow, SettleAccepted, SettleRefused, SettleFailed, RecordRead,
                RecordSave, RecordFails, ClearSession
  <1>6. \/ \E q \in Request : Crash(q)
        \/ \E p \in Player : SessionExpires(p) \/ LockExpires(p)
        \/ CreationStep \/ Disconnect \/ UNCHANGED vars
        => copy'[r] \in {copy[r], NoSession}
    BY DEF Crash, CreationStep, CreateRetryJob, CreationFails, SessionExpires, LockExpires,
           Disconnect, vars
  <1> QED
    BY <1>1, <1>2, <1>3, <1>4, <1>5, <1>6 DEF Next, Continue

\* Sessions stay with their player.
LEMMA SessionsOwnedStep ==
  ASSUME HandlerInv, SessionsOwned, [Next]_vars
  PROVE  SessionsOwned'
  <1>1. ASSUME NEW p \in Player, session'[p] # NoSession
        PROVE  PlayerOf[session'[p].bet] = p
    <2>1. CASE session'[p] = session[p]
      BY <1>1, <2>1 DEF SessionsOwned
    <2>2. CASE session'[p] # session[p]
      <3>1. PICK r \in Request :
               /\ PlayerOf[r] = p
               /\ BetSaveSession(r) \/ CashOutSave(r) \/ \E hit \in BOOLEAN : StepSave(r, hit)
        BY <1>1, <2>2, SessionWriters DEF HandlerInv
      <3>2. copy[r] # NoSession /\ session'[p].bet = copy[r].bet
        BY <3>1, SavedSessions, ConstantsAssumption
      <3> QED
        BY <3>1, <3>2 DEF SessionsOwned
    <2> QED
      BY <2>1, <2>2
  <1>2. ASSUME NEW r \in Request, copy'[r] # NoSession
        PROVE  PlayerOf[copy'[r].bet] = PlayerOf[r]
    <2>1. PlayerOf[r] \in Player
      BY ConstantsAssumption
    <2> QED
      BY <1>2, <2>1, CopyWriters DEF SessionsOwned, Holds
  <1> QED
    BY <1>1, <1>2 DEF SessionsOwned

\* Nothing but a handler's own save changes the session that it plays.
LEMMA PlaysCurrentStep ==
  ASSUME "slow" \notin Faults, "flush" \notin Faults,
         HandlerInv, PlaysAlone, PlaysCurrent, [Next]_vars
  PROVE  PlaysCurrent'
  <1> SUFFICES ASSUME NEW r \in Request, pc'[r] \in {"step", "cashout"}
               PROVE  session'[PlayerOf[r]] = copy'[r]
    BY DEF PlaysCurrent
  <1> DEFINE p == PlayerOf[r]
  <1>0. p \in Player
    BY ConstantsAssumption
  <1> USE DEF HandlerInv, TypeOK, Goto, Finish, redisVars, handlerVars
  <1>1. CASE pc[r] \notin {"step", "cashout"}
    <2>1. ASSUME NEW q \in Request, Start(q) PROVE session'[p] = copy'[r]
      BY <1>0, <1>1, <2>1 DEF Start, BetAcquireLock, CashOutRead, StepRead, ReadSession
    <2>2. ASSUME NEW q \in Request, BetFlow(q) PROVE FALSE
      BY <1>1, <2>2 DEF BetFlow, BetRejected, BetAccepted, BetDebit, BetRefused,
                        CreatePlacement, BetSaveSession, BetFails, BetReleaseLock
    <2>3. ASSUME NEW q \in Request, PlayFlow(q) PROVE FALSE
      BY <1>1, <2>3 DEF PlayFlow, StepSave, CashOutSave, PlayFails
    <2>4. ASSUME NEW q \in Request, SettleFlow(q) PROVE FALSE
      BY <1>1, <2>4 DEF SettleFlow, SettleAccepted, SettleRefused, SettleFailed, RecordRead,
                        RecordSave, RecordFails, ClearSession
    <2>5. ~ \/ \E q \in Request : Crash(q)
            \/ \E o \in Player : SessionExpires(o) \/ LockExpires(o)
            \/ CreationStep \/ Disconnect \/ UNCHANGED vars
      BY <1>1 DEF Crash, SessionExpires, LockExpires, CreationStep, CreateRetryJob,
                  CreationFails, Disconnect, vars
    <2> QED
      BY <2>1, <2>2, <2>3, <2>4, <2>5 DEF Next, Continue
  <1>2. CASE pc[r] \in {"step", "cashout"}
    <2>1. session[p] = copy[r] /\ \A q \in Request \ {r} : PlayerOf[q] = p => pc[q] = "idle"
      BY <1>2 DEF PlaysCurrent, PlaysAlone, PlayPC
    <2> SUFFICES session'[p] = session[p] /\ copy'[r] = copy[r]
      BY <2>1
    <2>2. ASSUME NEW q \in Request, Start(q)
          PROVE  session'[p] = session[p] /\ copy'[r] = copy[r]
      BY <1>2, <2>2 DEF Start, BetAcquireLock, CashOutRead, StepRead, ReadSession, MayStart
    <2>3. ASSUME NEW q \in Request, BetFlow(q)
          PROVE  session'[p] = session[p] /\ copy'[r] = copy[r]
      <3>1. q # r /\ PlayerOf[q] # p
        BY <1>2, <2>1, <2>3 DEF BetFlow, BetRejected, BetAccepted, BetDebit, BetRefused,
              CreatePlacement, BetSaveSession, BetFails, BetReleaseLock
      <3> QED
        BY <1>0, <2>3, <3>1 DEF BetFlow, BetRejected, BetAccepted, BetDebit, BetRefused,
              CreatePlacement, BetSaveSession, BetFails, BetReleaseLock
    <2>4. ASSUME NEW q \in Request, PlayFlow(q)
          PROVE  session'[p] = session[p] /\ copy'[r] = copy[r]
      <3>1. q # r
        BY <1>2, <2>4 DEF PlayFlow, StepSave, CashOutSave, PlayFails
      <3>2. PlayerOf[q] # p
        BY <2>1, <2>4, <3>1 DEF PlayFlow, StepSave, CashOutSave, PlayFails
      <3> QED
        BY <1>0, <2>4, <3>1, <3>2 DEF PlayFlow, StepSave, CashOutSave, PlayFails
    <2>5. ASSUME NEW q \in Request, SettleFlow(q)
          PROVE  session'[p] = session[p] /\ copy'[r] = copy[r]
      <3>1. q # r /\ PlayerOf[q] # p
        BY <1>2, <2>1, <2>5 DEF SettleFlow, SettleAccepted, SettleRefused, SettleFailed,
              RecordRead, RecordSave, RecordFails, ClearSession
      <3> QED
        BY <1>0, <2>5, <3>1 DEF SettleFlow, SettleAccepted, SettleRefused, SettleFailed,
              RecordRead, RecordSave, RecordFails, ClearSession
    <2>6. ASSUME NEW q \in Request, Crash(q)
          PROVE  session'[p] = session[p] /\ copy'[r] = copy[r]
      BY <2>6 DEF Crash
    <2>7. ASSUME NEW o \in Player, SessionExpires(o) \/ LockExpires(o)
          PROVE  session'[p] = session[p] /\ copy'[r] = copy[r]
      BY <1>0, <1>2, <2>7 DEF SessionExpires, LockExpires, InFlight
    <2>8. CASE CreationStep \/ Disconnect \/ UNCHANGED vars
      BY <2>8 DEF CreationStep, CreateRetryJob, CreationFails, redisVars, Disconnect, vars
    <2> QED
      BY <2>2, <2>3, <2>4, <2>5, <2>6, <2>7, <2>8 DEF Next, Continue
  <1> QED
    BY <1>1, <1>2

\* A round that is over stays over: its session is written by a handler that plays it,
\* or by the flow of a bet that is too young.
LEMMA OutOfPlayStays ==
  ASSUME HandlerInv, FreshInv, PlaysCurrent, [Next]_vars, old \subseteq old',
         NEW b \in Bet, OutOfPlay(b)
  PROVE  OutOfPlay(b)'
  <1> DEFINE p == PlayerOf[b]
  <1>0. p \in Player
    BY ConstantsAssumption
  <1> SUFFICES ASSUME IsActive(session'[p]), session'[p].bet = b PROVE FALSE
    BY DEF OutOfPlay, SessionExistsForBet
  <1>1. session'[p] \notin {session[p], NoSession}
    BY DEF OutOfPlay, SessionExistsForBet, IsActive
  <1>2. PICK r \in Request :
           /\ PlayerOf[r] = p
           /\ BetSaveSession(r) \/ CashOutSave(r) \/ \E hit \in BOOLEAN : StepSave(r, hit)
    BY <1>0, <1>1, SessionWriters DEF HandlerInv
  <1>3. copy[r] \in Session /\ copy[r].bet = b /\ ~CashOutSave(r)
    BY <1>2, SavedSessions
  <1>4. CASE BetSaveSession(r)
    BY <1>3, <1>4 DEF BetSaveSession, FreshInv, BetsFresh, OutOfPlay
  <1>5. CASE \E hit \in BOOLEAN : StepSave(r, hit)
    <2>1. pc[r] = "step" /\ copy[r].active /\ session[p] = copy[r]
      BY <1>2, <1>5 DEF StepSave, HandlerInv, RunningCopy, PlaysCurrent
    <2> QED
      BY <1>3, <2>1, ConstantsAssumption DEF OutOfPlay, SessionExistsForBet, IsActive
  <1> QED
    BY <1>2, <1>3, <1>4, <1>5

LEMMA PlayStep ==
  ASSUME "play" \in Solo, "slow" \notin Faults, "flush" \notin Faults,
         RefundInv, FreshInv, PlayInv, [RefundNext]_allVars
  PROVE  PlayInv'
  <1>0. RefundTypeOK /\ HandlerInv /\ RefundsOutOfPlay
    BY DEF RefundInv, PlayInv
  <1>1. CASE RoundStep \/ (\E p \in Player : SessionEnds(p)) \/ DisconnectAll
    <2>1. Next /\ UNCHANGED <<old, refunds, batch>>
      BY <1>1, RoundSteps
    <2>2. PlaysAlone' /\ SessionsOwned' /\ PlaysCurrent'
      BY <1>0, <2>1, PlaysAloneStep, SessionsOwnedStep, PlaysCurrentStep
         DEF PlayInv, HandlerInv
    <2>3. \A b \in Bet : OutOfPlay(b) => OutOfPlay(b)'
      BY <1>0, <2>1, OutOfPlayStays DEF PlayInv
    <2>4. RefundsOutOfPlay'
      BY <1>0, <2>1, <2>3 DEF RefundsOutOfPlay
    <2> QED
      BY <2>2, <2>4 DEF PlayInv
  <1>2. ASSUME UNCHANGED <<pc, copy, session>>, old \subseteq old',
               \A s \in Server, b \in Bet : b \in batch'[s] => b \in batch[s] \/ OutOfPlay(b),
               \A b \in Bet : refunds'[b] > 0 => refunds[b] > 0 \/ \E s \in Server : b \in batch[s]
        PROVE  PlayInv'
    <2>1. \A b \in Bet : OutOfPlay(b) => OutOfPlay(b)'
      BY <1>2 DEF OutOfPlay, SessionExistsForBet
    <2>2. RefundsOutOfPlay'
      BY <1>0, <1>2, <2>1 DEF RefundsOutOfPlay
    <2> QED
      BY <1>2, <2>2 DEF PlayInv, PlaysAlone, SessionsOwned, PlaysCurrent
  <1>3. CASE (\E b \in Bet : Age(b)) \/ RefundLockExpires \/ UNCHANGED allVars
    <2>1. UNCHANGED <<pc, copy, session, batch, refunds>> /\ old \subseteq old'
      BY <1>3 DEF Age, RefundLockExpires, vars, runVars, allVars, refundVars
    <2> QED
      BY <1>2, <2>1
  <1>4. ASSUME NEW s \in Server, OwnStep(s) \/ BookStep(s) PROVE PlayInv'
    <2>1. UNCHANGED <<pc, copy, session, old>>
      BY <1>4 DEF OwnStep, BookStep, RefundStart, RefundQuery, RefundPick, RefundAccepted,
                  RefundFails, WriteFails, RefundDone, RefundCrash, RefundRefused, RefundUpdate,
                  RefundMarkFailed, WriteBatchStatus, vars, handlerVars, redisVars
    <2>2. \A t \in Server, b \in Bet : b \in batch'[t] => b \in batch[t] \/ OutOfPlay(b)
      <3>1. CASE RefundPick(s)
        <4>1. PICK bs \in Batches(s) :
                 \/ batch' = batch
                 \/ batch' = [batch EXCEPT ![s] = bs] /\ \A b \in bs : ~SessionExistsForBet(b)
          BY <3>1 DEF RefundPick
        <4>2. bs \subseteq old
          BY DEF Batches, FreshInv, RunsHoldOld
        <4> QED
          BY <1>0, <4>1, <4>2 DEF OutOfPlay, RefundTypeOK
      <3>2. CASE ~RefundPick(s)
        BY <1>0, <1>4, <3>2
           DEF OwnStep, BookStep, RefundStart, RefundQuery, RefundAccepted, RefundFails,
               WriteFails, RefundDone, RefundCrash, RefundRefused, RefundUpdate, RefundMarkFailed,
               WriteBatchStatus, RefundTypeOK
      <3> QED
        BY <3>1, <3>2
    <2>3. \A b \in Bet : refunds'[b] > 0 => refunds[b] > 0 \/ b \in batch[s]
      BY <1>0, <1>4
         DEF OwnStep, BookStep, RefundStart, RefundQuery, RefundPick, RefundAccepted,
             RefundFails, WriteFails, RefundDone, RefundCrash, RefundRefused, RefundUpdate,
             RefundMarkFailed, WriteBatchStatus, ApplyRefund, RefundTypeOK
    <2> QED
      BY <1>2, <2>1, <2>2, <2>3
  <1> QED
    BY <1>1, <1>3, <1>4, StepKinds

LEMMA PlayInvariant ==
  ASSUME "play" \in Solo, "slow" \notin Faults, "flush" \notin Faults
  PROVE  RefundSpec => []PlayInv
  <1>1. RefundInit => PlayInv
    BY ConstantsAssumption
       DEF RefundInit, Init, PlayInv, PlaysAlone, SessionsOwned, PlaysCurrent,
           RefundsOutOfPlay, PlayPC
  <1>2. RefundInv /\ FreshInv /\ PlayInv /\ [RefundNext]_allVars => PlayInv'
    BY PlayStep
  <1> QED
    BY <1>1, <1>2, RefundInvariant, FreshInvariant, PTL DEF RefundSpec

\* A client that overlaps no step or cash-out never sees a round in play whose stake was
\* given back, whether runs overlap, fail or die, as long as no handler outlives the TTL
\* of its session and nobody flushes Redis.
THEOREM RefundedRoundsAreOver ==
  ASSUME "play" \in Solo, "slow" \notin Faults, "flush" \notin Faults
  PROVE  RefundSpec => []RefundedNotInPlay
  <1>1. RefundInv /\ PlayInv => RefundedNotInPlay
    <2> SUFFICES ASSUME RefundInv, PlayInv, NEW p \in Player, IsActive(session[p])
                 PROVE  refunds[session[p].bet] = 0
      BY DEF RefundedNotInPlay
    <2> DEFINE b == session[p].bet
    <2>1. b \in Bet /\ PlayerOf[b] = p
      BY DEF RefundInv, RefundTypeOK, TypeOK, IsActive, Session, PlayInv, SessionsOwned
    <2>2. ~(refunds[b] > 0)
      BY <2>1 DEF PlayInv, RefundsOutOfPlay, OutOfPlay, SessionExistsForBet
    <2> QED
      BY <2>1, <2>2 DEF RefundInv, RefundTypeOK
  <1> QED
    BY <1>1, RefundInvariant, PlayInvariant, PTL


-----------------------------------------------------------------------------
(* What holds of the rounds alone holds beside the refund runs *)

\* A step of the composition is one of the rounds, or writes nothing of theirs but rows
\* and jobs.
LEMMA StepsBeside ==
  ASSUME RefundTypeOK, [RefundNext]_allVars
  PROVE  [Next]_vars \/ UNCHANGED <<handlerVars, redisVars, walletVars, roundVars>>
  BY StepKinds, RoundSteps, QuietRuns, BookWrites

\* Beside refund runs too the wallet is only asked to pay for columns that were crossed,
\* under every overlap and fault.
THEOREM EarnedBesideRefunds == RefundSpec => []EarnedPayouts
  <1>1. RefundInv => EarnedPayouts
    BY DEF RefundInv, MoneyInv
  <1> QED
    BY <1>1, RefundInvariant, PTL

LEMMA SoloBeside ==
  ASSUME "play" \in Solo
  PROVE  RefundSpec => []SoloInv
  <1>1. RefundInit => SoloInv
    BY SoloInit DEF RefundInit
  <1>2. RefundInv /\ SoloInv /\ [RefundNext]_allVars => SoloInv'
    <2> SUFFICES ASSUME RefundInv, SoloInv, [RefundNext]_allVars PROVE SoloInv'
      OBVIOUS
    <2>1. CASE [Next]_vars
      BY <2>1, SoloStep DEF RefundInv
    <2>2. CASE UNCHANGED <<handlerVars, redisVars, walletVars, roundVars>>
      <3>1. UNCHANGED <<pc, copy, session, debited, credits, paid, struck>>
        BY <2>2 DEF handlerVars, redisVars, walletVars, roundVars
      <3>2. PlaysAlone' /\ \A b \in Bet : BetSound(b)'
        BY <3>1 DEF SoloInv, PlaysAlone, BetSound
      <3>3. \A p \in Player : SessionSound(p)'
        BY <3>1 DEF SoloInv, SessionSound, Owned, Running, IsActive
      <3>4. \A r \in Request : RequestSound(r)'
        BY <3>1 DEF SoloInv, RequestSound, Owned, Running, IsActive
      <3> QED
        BY <3>2, <3>3, <3>4 DEF SoloInv
    <2> QED
      BY <2>1, <2>2, StepsBeside DEF RefundInv
  <1> QED
    BY <1>1, <1>2, RefundInvariant, PTL DEF RefundSpec

\* Refund runs, however they overlap, fail or die, make no client that waits for its
\* replies settle a round twice: they write rows, and no handler decides by a row whether
\* it settles.
THEOREM SettledOnceBesideRefunds ==
  ASSUME "play" \in Solo
  PROVE  RefundSpec => []SettledOnce
  <1>1. SoloInv => SettledOnce
    BY DEF SoloInv, BetSound, SettledOnce
  <1> QED
    BY <1>1, SoloBeside, PTL

\* performBetFlow, performStepFlow and performCashOutFlow implement Round beside the
\* refund runs of any number of servers too, under every fault: a round whose stake is
\* given back by a race is still settled for exactly what it reached.
THEOREM PromisedBesideRefunds ==
  ASSUME "play" \in Solo
  PROVE  RefundSpec => PlayedAsPromised
  <1>1. RefundInit => LevelInv /\ Promise!Init
    BY LevelInit, PromiseInit DEF RefundInit
  <1>2. ASSUME RefundInv, SoloInv, LevelInv, [RefundNext]_allVars
        PROVE  LevelInv' /\ [Promise!Next]_(Promise!vars)
    <2>1. RoundInv
      BY <1>2 DEF RoundInv, RefundInv
    <2>2. CASE [Next]_vars
      BY <2>1, <2>2, LevelStep, PromiseStep
    <2>3. CASE UNCHANGED <<handlerVars, redisVars, walletVars, roundVars>>
      <3>1. UNCHANGED <<pc, copy, session, debited, credits, paid, passed, struck>>
        BY <2>3 DEF handlerVars, redisVars, walletVars, roundVars
      <3>2. LevelInv'
        BY <3>1, <1>2
           DEF LevelInv, SessionLevel, RequestLevel, AtColumn, StruckAt, IsActive
      <3> QED
        BY <3>1, <3>2 DEF Promise!vars
    <2> QED
      BY <1>2, <2>2, <2>3, StepsBeside DEF RefundInv
  <1> QED
    BY <1>1, <1>2, RefundInvariant, SoloBeside, PTL
       DEF RefundSpec, PlayedAsPromised, Promise!Spec

\* Nor is such a client charged a stake while a round of its is in play: a run that looks
\* at its session or writes its rows moves neither its lock nor its key.
THEOREM NoStakeInPlayBesideRefunds ==
  ASSUME "play" \in Solo, "slow" \notin Faults, "flush" \notin Faults
  PROVE  RefundSpec => NoDebitInPlay
  <1>1. RefundInit => FlowOwnsLock /\ DebitGuarded
    BY DEF RefundInit, Init, FlowOwnsLock, DebitGuarded, BetPC
  <1>2. ASSUME RefundInv, SoloInv, FlowOwnsLock, DebitGuarded, [RefundNext]_allVars
        PROVE  /\ FlowOwnsLock' /\ DebitGuarded'
               /\ [\A b \in debited' \ debited : ~IsActive(session[PlayerOf[b]])]_vars
    <2>1. CASE [Next]_vars
      <3>1. FlowOwnsLock' /\ DebitGuarded'
        BY <1>2, <2>1, FlowOwnsLockStep, DebitGuardedStep DEF RefundInv, HandlerInv, SoloInv
      <3>2. ASSUME NEW b \in debited' \ debited PROVE ~IsActive(session[PlayerOf[b]])
        BY <1>2, <2>1, <3>2, GuardedDebits
      <3> QED
        BY <3>1, <3>2
    <2>2. CASE UNCHANGED <<handlerVars, redisVars, walletVars, roundVars>>
      BY <1>2, <2>2 DEF FlowOwnsLock, DebitGuarded, handlerVars, redisVars, walletVars
    <2> QED
      BY <1>2, <2>1, <2>2, StepsBeside DEF RefundInv
  <1> QED
    BY <1>1, <1>2, RefundInvariant, SoloBeside, PTL DEF RefundSpec, NoDebitInPlay

\* A run marks the rows of rounds that are out of play only.
LEMMA RowsPlacedBeside ==
  ASSUME RefundInv, SoloInv, FreshInv, PlayInv, RowsPlaced, [RefundNext]_allVars
  PROVE  RowsPlaced'
  <1>1. CASE [Next]_vars
    BY <1>1, RowsPlacedStep DEF RefundInv
  <1>2. ASSUME NEW s \in Server, BookStep(s) PROVE RowsPlaced'
    <2>1. /\ UNCHANGED <<pc, copy, session>>
          /\ \A b \in Bet : row'[b] = row[b] \/ OutOfPlay(b)
      BY <1>2, BookWrites DEF RefundInv, PlayInv, RefundsOutOfPlay, handlerVars, redisVars
    <2>2. ASSUME NEW p \in Player, IsActive(session[p])
          PROVE  row'[session[p].bet] = row[session[p].bet]
      <3>1. session[p].bet \in Bet /\ PlayerOf[session[p].bet] = p
        BY <2>2 DEF RefundInv, HandlerInv, TypeOK, Session, IsActive, PlayInv, SessionsOwned
      <3> QED
        BY <2>1, <2>2, <3>1 DEF OutOfPlay, SessionExistsForBet
    <2>3. ASSUME NEW r \in Request, pc[r] \in {"bet_save", "step", "cashout"}
          PROVE  row'[copy[r].bet] = row[copy[r].bet]
      <3>1. copy[r] \in Session /\ copy[r] # NoSession /\ PlayerOf[r] \in Player
        BY <2>3, ConstantsAssumption DEF RefundInv, HandlerInv, CopyHeld, PlayPC
      <3>2. CASE pc[r] = "bet_save"
        BY <2>1, <3>1, <3>2 DEF FreshInv, BetsFresh, OutOfPlay, Session
      <3>3. CASE pc[r] \in {"step", "cashout"}
        <4>1. session[PlayerOf[r]] = copy[r] /\ copy[r].active
          BY <3>3 DEF PlayInv, PlaysCurrent, RefundInv, HandlerInv, RunningCopy
        <4> QED
          BY <2>2, <3>1, <4>1 DEF IsActive
      <3> QED
        BY <2>3, <3>2, <3>3
    <2> QED
      BY <2>1, <2>2, <2>3 DEF RowsPlaced, IsActive
  <1> QED
    BY <1>1, <1>2, StepKinds, RoundSteps, QuietRuns

\* A round in play has its stake taken, its row PLACED and nothing settled, also while
\* runs look for old bets and mark the rows of those that nobody plays any more.
THEOREM BackedBesideRefunds ==
  ASSUME "play" \in Solo, "slow" \notin Faults, "flush" \notin Faults
  PROVE  RefundSpec => []LiveSessionBacked
  <1>1. RefundInit => RowsPlaced
    BY DEF RefundInit, Init, RowsPlaced, IsActive
  <1>2. RefundInv /\ SoloInv /\ FreshInv /\ PlayInv /\ RowsPlaced /\ [RefundNext]_allVars
          => RowsPlaced'
    BY RowsPlacedBeside
  <1> QED
    BY <1>1, <1>2, BackedWhenPlaced, RefundInvariant, SoloBeside, FreshInvariant,
       PlayInvariant, PTL DEF RefundSpec

=============================================================================
