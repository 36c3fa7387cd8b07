--------------------------- MODULE GamePlayProofs ---------------------------
(***************************************************************************)
(* Theorems about GamePlay, for every value of its constants.              *)
(***************************************************************************)
EXTENDS GamePlay, TLAPS

HandlerInv == TypeOK /\ CopyHeld /\ ColumnsLeft /\ RunningCopy

-----------------------------------------------------------------------------
(* What a suspended handler holds *)

LEMMA ColumnFacts ==
    /\ Columns \in Nat /\ Columns > 0
    /\ InitialStep \in Steps /\ InitialStep < Columns - 1
    /\ \A s \in Steps : s < Columns - 1 => s + 1 \in Column /\ s + 1 \in Steps
    /\ \A s \in Steps : Win[s] \in Nat /\ Win[s] > 0
  BY ConstantsAssumption DEF Steps, Column, InitialStep

LEMMA HandlerInit == Init => HandlerInv
  BY ColumnFacts, ConstantsAssumption
     DEF Init, HandlerInv, TypeOK, CopyHeld, ColumnsLeft, ColumnLeft, RunningCopy,
         BetPC, PlayPC, Row, Status

LEMMA NewSessionType ==
  ASSUME NEW b \in Bet
  PROVE  /\ NewSession(b) \in Session
         /\ NewSession(b).active
         /\ NewSession(b).bet = b
         /\ NewSession(b).step = InitialStep
         /\ NewSession(b).amount = Win[InitialStep]
  BY ColumnFacts DEF NewSession, Session

\* Overwriting the status of a row leaves a row.
LEMMA StatusUpdate ==
  ASSUME NEW rows \in [Bet -> Row], NEW b \in Bet, NEW st \in Status
  PROVE  [rows EXCEPT ![b].status = st] \in [Bet -> Row]
  BY DEF Row

\* The handlers' invariant is kept by every step of the bet flow.
LEMMA BetFlowHandler ==
  ASSUME HandlerInv, NEW r \in Request, BetAcquireLock(r) \/ BetFlow(r)
  PROVE  HandlerInv'
  <1> USE ConstantsAssumption, ColumnFacts
          DEF HandlerInv, TypeOK, CopyHeld, ColumnsLeft, ColumnLeft, RunningCopy,
              BetPC, PlayPC, Goto, Finish, vars, redisVars, dbVars, retryVars, walletVars,
              roundVars, handlerVars
  <1>1. CASE BetAcquireLock(r)
    BY <1>1 DEF BetAcquireLock, MayStart
  <1>2. CASE BetRejected(r) \/ BetAccepted(r) \/ BetRefused(r)
    BY <1>2 DEF BetRejected, BetAccepted, BetRefused
  <1>3. CASE BetDebit(r)
    BY <1>3, NewSessionType DEF BetDebit
  <1>4. CASE CreatePlacement(r)
    <2>1. copy[r].bet \in Bet /\ "PLACED" \in Status
      BY <1>4 DEF CreatePlacement, Session, Status
    <2>2. row' \in [Bet -> Row]
      BY <1>4, <2>1, StatusUpdate DEF CreatePlacement
    <2> QED
      BY <1>4, <2>2 DEF CreatePlacement
  <1>5. CASE BetSaveSession(r)
    BY <1>5 DEF BetSaveSession
  <1>6. CASE BetFails(r)
    BY <1>6 DEF BetFails
  <1>7. CASE BetReleaseLock(r)
    BY <1>7 DEF BetReleaseLock
  <1> QED
    BY <1>1, <1>2, <1>3, <1>4, <1>5, <1>6, <1>7 DEF BetFlow

\* The same for the steps of a step or cash-out, from its read to its save.
LEMMA PlayFlowHandler ==
  ASSUME HandlerInv, NEW r \in Request,
         PlayFlow(r) \/ CashOutRead(r) \/ \E line \in Column : StepRead(r, line)
  PROVE  HandlerInv'
  <1> USE ConstantsAssumption, ColumnFacts
          DEF HandlerInv, TypeOK, CopyHeld, ColumnsLeft, ColumnLeft, RunningCopy,
              BetPC, PlayPC, Goto, Finish, vars, redisVars, dbVars, retryVars, walletVars,
              roundVars, handlerVars
  <1>1. CASE ReadSession(r, "step") \/ ReadSession(r, "cashout")
    BY <1>1 DEF ReadSession, IsActive, MayStart
  <1>2. ASSUME NEW hit \in BOOLEAN, StepSave(r, hit)
        PROVE  HandlerInv'
    <2> DEFINE s == copy[r]
               line == s.step + 1
               last == line = Columns - 1
               new == [s EXCEPT !.step = line,
                                !.amount = IF hit THEN 0 ELSE Win[line],
                                !.active = ~(hit \/ last)]
    <2>1. s \in Session /\ s.active /\ s.step < Columns - 1 /\ s.bet \in Bet
      BY <1>2 DEF StepSave, Session
    <2>2. line \in Column /\ line \in Steps
      BY <2>1 DEF Session
    <2>3. new \in Session /\ new.step = line /\ new.active = ~(hit \/ last)
      BY <2>1, <2>2 DEF Session
    <2>4. new.active => new.step < Columns - 1
      <3>1. line \in Int /\ line <= Columns - 1
        BY <2>2 DEF Column
      <3>2. new.active => line # Columns - 1
        BY <2>3
      <3> HIDE DEF new, last, line
      <3> QED
        BY <3>1, <3>2, <2>3
    <2>5. /\ session' = [session EXCEPT ![PlayerOf[r]] = new]
          /\ \/ copy' = [copy EXCEPT ![r] = new] /\ pc' = [pc EXCEPT ![r] = "settle"]
             \/ copy' = [copy EXCEPT ![r] = NoSession] /\ pc' = [pc EXCEPT ![r] = "idle"]
      BY <1>2 DEF StepSave
    <2>6. passed' \in [Bet -> SUBSET Column] /\ struck' \subseteq Bet
      BY <1>2, <2>1, <2>2 DEF StepSave
    <2>7. UNCHANGED <<betLock, row, jobs, creating, debited, credits, paid>>
      BY <1>2 DEF StepSave
    <2> HIDE DEF new, last, line, s
    <2>8. PlayerOf[r] \in Player
      OBVIOUS
    <2>9. TypeOK'
      BY <2>3, <2>5, <2>6, <2>7
    <2>10. CopyHeld'
      BY <2>3, <2>5
    <2>11. ColumnsLeft'
      BY <2>3, <2>4, <2>5, <2>8
    <2>12. RunningCopy'
      BY <2>3, <2>5
    <2> QED
      BY <2>9, <2>10, <2>11, <2>12
  <1>3. CASE CashOutSave(r)
    <2> DEFINE new == [copy[r] EXCEPT !.active = FALSE]
    <2>1. new \in Session /\ ~new.active
      BY <1>3 DEF CashOutSave, Session
    <2>2. /\ session' = [session EXCEPT ![PlayerOf[r]] = new]
          /\ copy' = [copy EXCEPT ![r] = new]
          /\ pc' = [pc EXCEPT ![r] = "settle"]
          /\ UNCHANGED <<betLock, dbVars, retryVars, walletVars, roundVars>>
      BY <1>3 DEF CashOutSave
    <2> HIDE DEF new
    <2> QED
      BY <2>1, <2>2
  <1>4. CASE PlayFails(r)
    BY <1>4 DEF PlayFails
  <1> QED
    BY <1>1, <1>2, <1>3, <1>4 DEF PlayFlow, CashOutRead, StepRead

\* The same for the settlement and what follows it.
LEMMA SettleFlowHandler ==
  ASSUME HandlerInv, NEW r \in Request, SettleFlow(r)
  PROVE  HandlerInv'
  <1> USE ConstantsAssumption, ColumnFacts
          DEF HandlerInv, TypeOK, CopyHeld, ColumnsLeft, ColumnLeft, RunningCopy,
              BetPC, PlayPC, Goto, Finish, vars, redisVars, dbVars, retryVars, walletVars,
              roundVars, handlerVars
  <1>1. CASE SettleAccepted(r)
    <2>1. copy[r].bet \in Bet /\ copy[r].amount \in Nat
      BY <1>1 DEF SettleAccepted, Session
    <2>2. credits' \in [Bet -> Nat] /\ paid' \in [Bet -> SUBSET Nat]
      BY <1>1, <2>1 DEF SettleAccepted
    <2>3. creating' \subseteq Job
      BY <1>1, <2>1 DEF SettleAccepted, SettleJob, Job
    <2> QED
      BY <1>1, <2>2, <2>3 DEF SettleAccepted
  <1>2. CASE RecordRead(r) \/ RecordFails(r) \/ ClearSession(r)
    <2>1. CASE RecordRead(r)
      BY <2>1 DEF RecordRead
    <2>2. CASE RecordFails(r)
      BY <2>2 DEF RecordFails
    <2>3. CASE ClearSession(r)
      BY <2>3 DEF ClearSession
    <2> QED
      BY <1>2, <2>1, <2>2, <2>3
  <1>5. CASE SettleRefused(r)
    <2>1. copy[r] \in Session /\ copy[r].bet \in Bet
      BY <1>5 DEF SettleRefused, Session
    <2>2. creating' \subseteq Job
      BY <1>5, <2>1 DEF SettleRefused, SettleJob, Job
    <2> QED
      BY <1>5, <2>2 DEF SettleRefused
  <1>3. CASE SettleFailed(r)
    <2>1. copy[r] \in Session /\ copy[r].bet \in Bet /\ copy[r].amount \in Nat
      BY <1>3 DEF SettleFailed, Session
    <2>2. row' \in [Bet -> Row]
      <3>1. \/ row' = [row EXCEPT ![copy[r].bet].status = "SETTLEMENT_FAILED"]
            \/ row' = row
        BY <1>3 DEF SettleFailed
      <3>2. "SETTLEMENT_FAILED" \in Status
        BY DEF Status
      <3>3. row \in [Bet -> Row]
        OBVIOUS
      <3>4. [row EXCEPT ![copy[r].bet].status = "SETTLEMENT_FAILED"] \in [Bet -> Row]
        BY ONLY <3>2, <3>3, <2>1, StatusUpdate
      <3> QED
        BY <3>1, <3>3, <3>4
    <2> QED
      BY <1>3, <2>2 DEF SettleFailed
  <1>4. CASE RecordSave(r)
    <2>1. copy[r].bet \in Bet /\ copy[r].amount \in Nat
      BY <1>4 DEF RecordSave, Session
    <2>2. row' \in [Bet -> Row]
      BY <1>4, <2>1 DEF RecordSave, Row, Status
    <2> QED
      BY <1>4, <2>2 DEF RecordSave
  <1> QED
    BY <1>1, <1>2, <1>3, <1>4, <1>5 DEF SettleFlow

\* The environment removes keys and kills handlers.
LEMMA EnvironmentHandler ==
  ASSUME HandlerInv,
         \/ \E r \in Request : Crash(r)
         \/ CreationStep
         \/ \E p \in Player : SessionExpires(p) \/ LockExpires(p)
         \/ Disconnect
         \/ UNCHANGED vars
  PROVE  HandlerInv'
  BY ConstantsAssumption
     DEF HandlerInv, TypeOK, CopyHeld, ColumnsLeft, ColumnLeft, RunningCopy,
         BetPC, PlayPC, Finish, Crash, CreationStep, CreateRetryJob, CreationFails,
         SessionExpires, LockExpires, Disconnect,
         vars, redisVars, dbVars, retryVars, walletVars, roundVars, handlerVars

LEMMA HandlerStep == HandlerInv /\ [Next]_vars => HandlerInv'
  BY BetFlowHandler, PlayFlowHandler, SettleFlowHandler, EnvironmentHandler
     DEF Next, Start, Continue

\* A suspended handler holds a well-formed session, and an active one when it is
\* about to step or cash out, whatever overlaps, fails or expires.
THEOREM HandlersWellFormed == Spec => []HandlerInv
  BY HandlerInit, HandlerStep, PTL DEF Spec

\* Type correctness of the rounds (performBetFlow, performStepFlow,
\* performCashOutFlow and everything they call).
THEOREM TypeCorrect == Spec => []TypeOK
  <1>1. HandlerInv => TypeOK
    BY DEF HandlerInv
  <1> QED
    BY <1>1, HandlersWellFormed, PTL

-----------------------------------------------------------------------------
(* The money of a round *)

\* EarnedPayouts is not inductive: a settlement pays the amount of the handler's
\* copy, which was read from Redis some steps ago.  EarnedSessions says that every
\* session, stored or held, carries an amount its round has earned; RecordedIsPaid
\* that a handler about to record a result has been paid it by the agent.
MoneyInv == EarnedSessions /\ EarnedPayouts /\ RecordedIsPaid /\ BooksMatchWallet

LEMMA MoneyInit == Init => MoneyInv
  BY ConstantsAssumption
     DEF Init, MoneyInv, EarnedSessions, Earned, EarnedPayouts, RecordedIsPaid,
         BooksMatchWallet

\* Steps that write no amount: they leave the wallet, the rows and the columns
\* crossed, drop sessions and copies or leave them, and start no recording.
LEMMA QuietMoney ==
  ASSUME HandlerInv, MoneyInv,
         UNCHANGED <<row, debited, credits, paid, passed, struck>>,
         \A p \in Player : session'[p] \in {session[p], NoSession},
         \A r \in Request : copy'[r] \in {copy[r], NoSession},
         \A r \in Request : pc'[r] \in {"record", "record_save"} =>
                              /\ pc[r] \in {"record", "record_save"}
                              /\ copy'[r] = copy[r]
  PROVE  MoneyInv'
  <1>1. EarnedSessions'
    BY ConstantsAssumption DEF MoneyInv, EarnedSessions, Earned
  <1>2. EarnedPayouts' /\ BooksMatchWallet'
    BY DEF MoneyInv, EarnedPayouts, BooksMatchWallet
  <1>3. RecordedIsPaid'
    BY DEF MoneyInv, RecordedIsPaid
  <1> QED
    BY <1>1, <1>2, <1>3 DEF MoneyInv

LEMMA QuietSteps ==
  ASSUME HandlerInv, MoneyInv,
         \/ \E r \in Request :
               \/ BetAcquireLock(r) \/ BetRejected(r) \/ BetAccepted(r)
               \/ BetRefused(r) \/ BetFails(r) \/ BetReleaseLock(r) \/ PlayFails(r)
               \/ SettleRefused(r) \/ RecordRead(r) \/ RecordFails(r)
               \/ ClearSession(r) \/ Crash(r)
         \/ CreationStep
         \/ \E p \in Player : SessionExpires(p) \/ LockExpires(p)
         \/ Disconnect
         \/ UNCHANGED vars
  PROVE  MoneyInv'
  <1>1. /\ UNCHANGED <<row, debited, credits, paid, passed, struck>>
        /\ \A p \in Player : session'[p] \in {session[p], NoSession}
        /\ \A r \in Request : copy'[r] \in {copy[r], NoSession}
        /\ \A r \in Request : pc'[r] \in {"record", "record_save"} =>
                                /\ pc[r] \in {"record", "record_save"}
                                /\ copy'[r] = copy[r]
    BY DEF HandlerInv, TypeOK, BetAcquireLock, BetRejected, BetAccepted, BetRefused,
           BetFails, BetReleaseLock, PlayFails, SettleRefused, RecordRead,
           RecordFails, ClearSession, Crash, CreationStep, CreateRetryJob, CreationFails,
           SessionExpires, LockExpires, Disconnect,
           MayStart, Goto, Finish, vars, redisVars, dbVars, retryVars, walletVars, roundVars,
           handlerVars
  <1> QED
    BY <1>1, QuietMoney

\* Steps that leave the wallet and the rows: sessions only move between Redis and
\* the handlers, and no recording starts.
LEMMA SessionMoney ==
  ASSUME MoneyInv, EarnedSessions', UNCHANGED <<row, paid>>,
         \A b \in Bet : passed[b] \subseteq passed'[b],
         \A r \in Request : pc'[r] \in {"record", "record_save"} =>
                              /\ pc[r] \in {"record", "record_save"}
                              /\ copy'[r] = copy[r]
  PROVE  MoneyInv'
  <1>1. EarnedPayouts'
    BY DEF MoneyInv, EarnedPayouts
  <1>2. RecordedIsPaid' /\ BooksMatchWallet'
    BY DEF MoneyInv, RecordedIsPaid, BooksMatchWallet
  <1> QED
    BY <1>1, <1>2 DEF MoneyInv

\* Only the handler that moves leaves or enters a program point.
LEMMA OneMoves ==
  ASSUME HandlerInv, NEW r \in Request, NEW label, label \notin {"record", "record_save"},
         pc' = [pc EXCEPT ![r] = label],
         \A q \in Request \ {r} : copy'[q] = copy[q]
  PROVE  \A q \in Request : pc'[q] \in {"record", "record_save"} =>
                              /\ pc[q] \in {"record", "record_save"}
                              /\ copy'[q] = copy[q]
  BY DEF HandlerInv, TypeOK

LEMMA BetDebitMoney ==
  ASSUME HandlerInv, MoneyInv, NEW r \in Request, BetDebit(r)
  PROVE  MoneyInv'
  <1>1. PICK b \in Bet : copy' = [copy EXCEPT ![r] = NewSession(b)] \/ copy' = copy
    BY DEF BetDebit
  <1>2. Earned(NewSession(b))
    BY ColumnFacts, NewSessionType DEF Earned, InitialStep
  <1>3. UNCHANGED <<session, row, paid, passed>>
    BY DEF BetDebit, redisVars, dbVars, retryVars, roundVars
  <1>4. EarnedSessions'
    BY <1>1, <1>2, <1>3 DEF EarnedSessions, MoneyInv, Earned, HandlerInv, TypeOK
  <1>5. \/ pc' = [pc EXCEPT ![r] = "bet_row"]
        \/ pc' = [pc EXCEPT ![r] = "bet_unlock"]
    BY DEF BetDebit, Goto
  <1>6. \A q \in Request \ {r} : copy'[q] = copy[q]
    BY <1>1 DEF HandlerInv, TypeOK
  <1> QED
    BY <1>3, <1>4, <1>5, <1>6, OneMoves, SessionMoney

LEMMA BetSaveMoney ==
  ASSUME HandlerInv, MoneyInv, NEW r \in Request, BetSaveSession(r)
  PROVE  MoneyInv'
  <1>1. EarnedSessions'
    BY ConstantsAssumption
       DEF BetSaveSession, EarnedSessions, MoneyInv, Earned, HandlerInv, TypeOK, roundVars
  <1>2. /\ pc' = [pc EXCEPT ![r] = "bet_unlock"]
        /\ \A q \in Request \ {r} : copy'[q] = copy[q]
        /\ UNCHANGED <<row, paid, passed>>
    BY DEF BetSaveSession, Goto, HandlerInv, TypeOK, dbVars, retryVars, walletVars, roundVars
  <1> QED
    BY <1>1, <1>2, OneMoves, SessionMoney

LEMMA ReadSessionMoney ==
  ASSUME HandlerInv, MoneyInv, NEW r \in Request, NEW label \in {"step", "cashout"},
         ReadSession(r, label)
  PROVE  MoneyInv'
  <1>1. EarnedSessions'
    BY ConstantsAssumption
       DEF ReadSession, EarnedSessions, MoneyInv, Earned, HandlerInv, TypeOK,
           redisVars, roundVars
  <1>2. /\ pc' = [pc EXCEPT ![r] = label]
        /\ \A q \in Request \ {r} : copy'[q] = copy[q]
        /\ UNCHANGED <<row, paid, passed>>
    BY DEF ReadSession, Goto, HandlerInv, TypeOK, dbVars, retryVars, walletVars, roundVars
  <1> QED
    BY <1>1, <1>2, OneMoves, SessionMoney

LEMMA CashOutSaveMoney ==
  ASSUME HandlerInv, MoneyInv, NEW r \in Request, CashOutSave(r)
  PROVE  MoneyInv'
  <1> DEFINE new == [copy[r] EXCEPT !.active = FALSE]
  <1>1. copy[r] \in Session /\ copy[r].active /\ PlayerOf[r] \in Player
    BY ConstantsAssumption DEF CashOutSave, HandlerInv, CopyHeld, RunningCopy, PlayPC
  <1>2. /\ session' = [session EXCEPT ![PlayerOf[r]] = new]
        /\ copy' = [copy EXCEPT ![r] = new]
        /\ pc' = [pc EXCEPT ![r] = "settle"]
        /\ UNCHANGED <<row, paid, passed>>
    BY DEF CashOutSave, Goto, dbVars, retryVars, walletVars, roundVars
  <1>3. /\ new.amount = copy[r].amount /\ new.step = copy[r].step
        /\ new.bet = copy[r].bet
    BY <1>1 DEF Session
  <1>4. Earned(copy[r])
    BY DEF MoneyInv, EarnedSessions
  <1>5. new.amount = Win[new.step] /\ 0 .. new.step \subseteq passed[new.bet]
    BY <1>1, <1>3, <1>4 DEF Earned
  <1> HIDE DEF new
  <1>6. Earned(new)
    BY <1>5 DEF Earned
  <1>7. EarnedSessions'
    BY <1>1, <1>2, <1>6 DEF EarnedSessions, MoneyInv, Earned, HandlerInv, TypeOK
  <1>8. \A q \in Request \ {r} : copy'[q] = copy[q]
    BY <1>2 DEF HandlerInv, TypeOK
  <1> QED
    BY <1>2, <1>7, <1>8, OneMoves, SessionMoney

\* A column that is crossed extends the columns before it; a hit earns nothing.
LEMMA StepSaveMoney ==
  ASSUME HandlerInv, MoneyInv, NEW r \in Request, NEW hit \in BOOLEAN, StepSave(r, hit)
  PROVE  MoneyInv'
  <1> DEFINE s == copy[r]
             line == s.step + 1
             last == line = Columns - 1
             new == [s EXCEPT !.step = line,
                              !.amount = IF hit THEN 0 ELSE Win[line],
                              !.active = ~(hit \/ last)]
  <1>1. /\ s \in Session /\ s.active /\ s.bet \in Bet /\ s.step \in Steps
        /\ PlayerOf[r] \in Player
    BY ConstantsAssumption
       DEF StepSave, HandlerInv, CopyHeld, RunningCopy, PlayPC, Session
  <1>2. /\ new.step = line /\ new.bet = s.bet /\ new.active = ~(hit \/ last)
        /\ new.amount = IF hit THEN 0 ELSE Win[line]
    BY <1>1 DEF Session
  <1>3. /\ session' = [session EXCEPT ![PlayerOf[r]] = new]
        /\ \/ copy' = [copy EXCEPT ![r] = new] /\ pc' = [pc EXCEPT ![r] = "settle"]
           \/ copy' = [copy EXCEPT ![r] = NoSession] /\ pc' = [pc EXCEPT ![r] = "idle"]
        /\ passed' = IF hit THEN passed ELSE [passed EXCEPT ![s.bet] = @ \cup {line}]
        /\ UNCHANGED <<row, paid>>
    BY DEF StepSave, Goto, Finish, dbVars, retryVars, walletVars
  <1>4. 0 .. s.step \subseteq passed[s.bet]
    BY <1>1 DEF MoneyInv, EarnedSessions, Earned
  <1>5. \A b \in Bet : passed[b] \subseteq passed'[b]
    BY <1>1, <1>3 DEF HandlerInv, TypeOK
  <1>6. ~hit => 0 .. line \subseteq passed'[s.bet]
    <2> SUFFICES ASSUME ~hit, NEW i \in 0 .. line PROVE i \in passed'[s.bet]
      OBVIOUS
    <2>1. passed'[s.bet] = passed[s.bet] \cup {line}
      BY <1>1, <1>3 DEF HandlerInv, TypeOK
    <2>2. s.step \in Int
      BY <1>1, ColumnFacts DEF Steps, InitialStep
    <2> QED
      BY <1>4, <2>1, <2>2
  <1> HIDE DEF new, last, line, s
  <1>7. new.active \/ new.amount # 0 => ~hit
    BY <1>2
  <1>8. new.active \/ new.amount # 0 =>
          new.amount = Win[new.step] /\ 0 .. new.step \subseteq passed'[new.bet]
    BY <1>2, <1>6, <1>7
  <1>9. \A x \in Session : Earned(x) /\ (x.active \/ x.amount # 0) =>
           x.amount = Win[x.step] /\ 0 .. x.step \subseteq passed'[x.bet]
    BY <1>5 DEF Earned, Session
  <1>10. ASSUME NEW p \in Player
         PROVE  Earned(session[p])'
    BY <1>1, <1>3, <1>8, <1>9 DEF MoneyInv, EarnedSessions, HandlerInv, TypeOK, Earned
  <1>11. ASSUME NEW q \in Request
         PROVE  Earned(copy[q])'
    BY <1>1, <1>3, <1>8, <1>9, ConstantsAssumption
       DEF MoneyInv, EarnedSessions, HandlerInv, TypeOK, Earned
  <1>12. EarnedSessions'
    BY <1>10, <1>11 DEF EarnedSessions
  <1>13. \A q \in Request \ {r} : copy'[q] = copy[q]
    BY <1>3 DEF HandlerInv, TypeOK
  <1> QED
    BY <1>3, <1>5, <1>12, <1>13, OneMoves, SessionMoney

LEMMA SettleAcceptedMoney ==
  ASSUME HandlerInv, MoneyInv, NEW r \in Request, SettleAccepted(r)
  PROVE  MoneyInv'
  <1> DEFINE b == copy[r].bet
             a == copy[r].amount
  <1>1. copy[r] \in Session /\ b \in Bet /\ a \in Nat
    BY DEF SettleAccepted, HandlerInv, CopyHeld, PlayPC, Session
  <1>2. /\ paid' = [paid EXCEPT ![b] = @ \cup {a}]
        /\ pc' = [pc EXCEPT ![r] = "record"] \/ pc' = [pc EXCEPT ![r] = "settle_failed"]
        /\ UNCHANGED <<copy, session, row, passed>>
    BY DEF SettleAccepted, Goto, redisVars, dbVars, retryVars, roundVars
  <1>3. EarnedSessions'
    BY <1>2 DEF MoneyInv, EarnedSessions, Earned
  <1>4. a = 0 \/ \E x \in Steps : a = Win[x] /\ 0 .. x \subseteq passed[b]
    BY <1>1 DEF MoneyInv, EarnedSessions, Earned, Session
  <1>5. \A c \in Bet : paid[c] \subseteq paid'[c]
    BY <1>1, <1>2 DEF HandlerInv, TypeOK
  <1>6. EarnedPayouts'
    BY <1>1, <1>2, <1>4 DEF MoneyInv, EarnedPayouts, HandlerInv, TypeOK
  <1>7. a \in paid'[b]
    BY <1>1, <1>2 DEF HandlerInv, TypeOK
  <1>8. \A q \in Request : pc[q] \in {"record", "record_save"} => copy[q].bet \in Bet
    BY DEF HandlerInv, CopyHeld, PlayPC, Session
  <1>9. RecordedIsPaid'
    BY <1>2, <1>5, <1>7, <1>8 DEF MoneyInv, RecordedIsPaid, HandlerInv, TypeOK
  <1>10. BooksMatchWallet'
    BY <1>2, <1>5 DEF MoneyInv, BooksMatchWallet
  <1> QED
    BY <1>3, <1>6, <1>9, <1>10 DEF MoneyInv

\* A status other than WON or LOST claims nothing.
LEMMA StatusMoney ==
  ASSUME HandlerInv, MoneyInv, NEW b \in Bet, NEW st \in Status \ {"WON", "LOST"},
         row' = [row EXCEPT ![b].status = st] \/ row' = row,
         UNCHANGED <<session, paid, passed>>,
         NEW r \in Request, NEW label \in {"idle", "bet_save"},
         pc' = [pc EXCEPT ![r] = label],
         copy' = copy \/ copy' = [copy EXCEPT ![r] = NoSession]
  PROVE  MoneyInv'
  <1>1. EarnedSessions' /\ EarnedPayouts'
    BY ConstantsAssumption
       DEF MoneyInv, EarnedSessions, Earned, EarnedPayouts, HandlerInv, TypeOK
  <1>2. RecordedIsPaid'
    BY DEF MoneyInv, RecordedIsPaid, HandlerInv, TypeOK
  <1>3. BooksMatchWallet'
    <2>1. ASSUME NEW c \in Bet, row'[c].status \in {"WON", "LOST"}
          PROVE  row'[c] = row[c]
      BY <2>1 DEF HandlerInv, TypeOK, Row
    <2> QED
      BY <2>1 DEF MoneyInv, BooksMatchWallet
  <1> QED
    BY <1>1, <1>2, <1>3 DEF MoneyInv

LEMMA CreatePlacementMoney ==
  ASSUME HandlerInv, MoneyInv, NEW r \in Request, CreatePlacement(r)
  PROVE  MoneyInv'
  <1>1. copy[r].bet \in Bet
    BY DEF CreatePlacement, HandlerInv, CopyHeld, Session
  <1>2. "PLACED" \in Status \ {"WON", "LOST"}
    BY DEF Status
  <1> QED
    BY <1>1, <1>2, StatusMoney
       DEF CreatePlacement, Goto, redisVars, walletVars, roundVars

LEMMA SettleFailedMoney ==
  ASSUME HandlerInv, MoneyInv, NEW r \in Request, SettleFailed(r)
  PROVE  MoneyInv'
  <1>1. copy[r].bet \in Bet
    BY DEF SettleFailed, HandlerInv, CopyHeld, PlayPC, Session
  <1>2. "SETTLEMENT_FAILED" \in Status \ {"WON", "LOST"}
    BY DEF Status
  <1>3. /\ \/ row' = [row EXCEPT ![copy[r].bet].status = "SETTLEMENT_FAILED"]
           \/ row' = row
        /\ UNCHANGED <<session, paid, passed>>
        /\ pc' = [pc EXCEPT ![r] = "idle"]
        /\ copy' = [copy EXCEPT ![r] = NoSession]
    BY DEF SettleFailed, Finish, redisVars, walletVars, roundVars
  <1> QED
    BY <1>1, <1>2, <1>3, StatusMoney

LEMMA RecordSaveMoney ==
  ASSUME HandlerInv, MoneyInv, NEW r \in Request, RecordSave(r)
  PROVE  MoneyInv'
  <1> DEFINE b == copy[r].bet
             a == copy[r].amount
  <1>1. b \in Bet /\ a \in Nat /\ a \in paid[b]
    BY DEF RecordSave, HandlerInv, CopyHeld, PlayPC, Session, MoneyInv, RecordedIsPaid
  <1>2. /\ row' = [row EXCEPT ![b] =
                     [status |-> IF a > 0 THEN "WON" ELSE "LOST", win |-> a]]
        /\ pc' = [pc EXCEPT ![r] = "clear"]
        /\ UNCHANGED <<copy, session, paid, passed>>
    BY DEF RecordSave, Goto, redisVars, walletVars, roundVars
  <1>3. EarnedSessions' /\ EarnedPayouts' /\ RecordedIsPaid'
    BY <1>2 DEF MoneyInv, EarnedSessions, Earned, EarnedPayouts, RecordedIsPaid,
                HandlerInv, TypeOK
  <1>4. BooksMatchWallet'
    BY <1>1, <1>2 DEF MoneyInv, BooksMatchWallet, HandlerInv, TypeOK, Row
  <1> QED
    BY <1>3, <1>4 DEF MoneyInv

LEMMA MoneyStep == HandlerInv /\ MoneyInv /\ [Next]_vars => MoneyInv'
  <1> SUFFICES ASSUME HandlerInv, MoneyInv, [Next]_vars PROVE MoneyInv'
    OBVIOUS
  <1>1. ASSUME NEW r \in Request, Start(r) PROVE MoneyInv'
    BY <1>1, QuietSteps, ReadSessionMoney DEF Start, CashOutRead, StepRead
  <1>2. ASSUME NEW r \in Request, BetFlow(r) PROVE MoneyInv'
    BY <1>2, QuietSteps, BetDebitMoney, CreatePlacementMoney, BetSaveMoney DEF BetFlow
  <1>3. ASSUME NEW r \in Request, PlayFlow(r) PROVE MoneyInv'
    BY <1>3, QuietSteps, StepSaveMoney, CashOutSaveMoney DEF PlayFlow
  <1>4. ASSUME NEW r \in Request, SettleFlow(r) PROVE MoneyInv'
    BY <1>4, QuietSteps, SettleAcceptedMoney, SettleFailedMoney, RecordSaveMoney
       DEF SettleFlow
  <1> QED
    BY <1>1, <1>2, <1>3, <1>4, QuietSteps DEF Next, Continue

LEMMA MoneyInvariant == Spec => []MoneyInv
  BY MoneyInit, MoneyStep, HandlersWellFormed, PTL DEF Spec

\* Whatever overlaps, fails, expires or crashes, the wallet is never asked to pay
\* for a column the round did not cross.
THEOREM PayoutsAreEarned == Spec => []EarnedPayouts
  <1>1. MoneyInv => EarnedPayouts
    BY DEF MoneyInv
  <1> QED
    BY <1>1, MoneyInvariant, PTL

\* Whatever overlaps, fails, expires or crashes, a bet row that shows a result
\* shows one the agent has paid.
THEOREM BooksFollowWallet == Spec => []BooksMatchWallet
  <1>1. MoneyInv => BooksMatchWallet
    BY DEF MoneyInv
  <1> QED
    BY <1>1, MoneyInvariant, PTL

-----------------------------------------------------------------------------
(* The bet lock *)

LEMMA FlowOwnsLockStep ==
  ASSUME "slow" \notin Faults, "flush" \notin Faults,
         TypeOK, FlowOwnsLock, [Next]_vars
  PROVE  FlowOwnsLock'
  <1> USE ConstantsAssumption DEF TypeOK, FlowOwnsLock, BetPC, PlayPC, Goto, Finish,
          redisVars, handlerVars
  <1>1. ASSUME NEW r \in Request, Start(r) PROVE FlowOwnsLock'
    BY <1>1 DEF Start, BetAcquireLock, CashOutRead, StepRead, ReadSession, MayStart
  <1>2. ASSUME NEW r \in Request, BetFlow(r) PROVE FlowOwnsLock'
    <2>1. CASE BetReleaseLock(r)
      BY <2>1 DEF BetReleaseLock
    <2>2. CASE BetDebit(r)
      BY <2>2 DEF BetDebit
    <2>3. CASE BetFails(r) \/ CreatePlacement(r) \/ BetSaveSession(r)
      BY <2>3 DEF BetFails, CreatePlacement, BetSaveSession
    <2>4. CASE BetRejected(r) \/ BetAccepted(r) \/ BetRefused(r)
      BY <2>4 DEF BetRejected, BetAccepted, BetRefused
    <2> QED
      BY <1>2, <2>1, <2>2, <2>3, <2>4 DEF BetFlow
  <1>3. ASSUME NEW r \in Request, PlayFlow(r) PROVE FlowOwnsLock'
    <2>1. \A q \in Request \ {r} : pc'[q] = pc[q]
      BY <1>3 DEF PlayFlow, StepSave, CashOutSave, PlayFails
    <2>2. pc'[r] \in {"idle", "settle"} /\ betLock' = betLock
      <3>1. CASE \E hit \in BOOLEAN : StepSave(r, hit)
        BY <3>1 DEF StepSave
      <3>2. CASE CashOutSave(r) \/ PlayFails(r)
        BY <3>2 DEF CashOutSave, PlayFails
      <3> QED
        BY <1>3, <3>1, <3>2 DEF PlayFlow
    <2> QED
      BY <2>1, <2>2
  <1>4. ASSUME NEW r \in Request, SettleFlow(r) PROVE FlowOwnsLock'
    BY <1>4 DEF SettleFlow, SettleAccepted, SettleRefused, SettleFailed, RecordRead,
                RecordSave, RecordFails, ClearSession
  <1>5. CASE \E p \in Player : SessionExpires(p) \/ LockExpires(p)
    BY <1>5 DEF SessionExpires, LockExpires
  <1>6. CASE \E r \in Request : Crash(r)
    BY <1>6 DEF Crash
  <1>7. CASE Disconnect \/ UNCHANGED vars
    BY <1>7 DEF Disconnect, vars
  <1>8. CASE CreationStep
    BY <1>8 DEF CreationStep, CreateRetryJob, CreationFails
  <1> QED
    BY <1>1, <1>2, <1>3, <1>4, <1>5, <1>6, <1>7, <1>8 DEF Next, Continue

\* While the lock outlives its holder and nobody flushes Redis, the handler inside
\* the bet flow is the one that set the lock, so there is one of them per player.
THEOREM BetFlowMutualExclusion ==
  ASSUME "slow" \notin Faults, "flush" \notin Faults
  PROVE  Spec => []BetFlowsExclusive
  <1>1. Init => FlowOwnsLock
    BY DEF Init, FlowOwnsLock, BetPC
  <1>2. TypeOK /\ FlowOwnsLock /\ [Next]_vars => FlowOwnsLock'
    BY FlowOwnsLockStep
  <1>3. FlowOwnsLock => BetFlowsExclusive
    BY DEF FlowOwnsLock, BetFlowsExclusive
  <1> QED
    BY <1>1, <1>2, <1>3, TypeCorrect, PTL DEF Spec

=============================================================================
