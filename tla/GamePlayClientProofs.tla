------------------------- MODULE GamePlayClientProofs -------------------------
(***************************************************************************)
(* Theorems about GamePlay and a client that overlaps no step or cash-out  *)
(* with another request of its own, for every value of the constants.      *)
(***************************************************************************)
EXTENDS GamePlayProofs

LEMMA SoloInit == Init => SoloInv
  BY ConstantsAssumption
     DEF Init, SoloInv, PlaysAlone, SessionSound, RequestSound, BetSound, Owned,
         Running, IsActive, PlayPC

-----------------------------------------------------------------------------
(* Two shapes of step *)

\* A step that settles and strikes nothing keeps every round that runs running:
\* what is left to check is what it does to the sessions and to its handlers.
LEMMA GrowingStep ==
  ASSUME SoloInv, PlaysAlone',
         UNCHANGED <<credits, paid, struck>>,
         debited \subseteq debited',
         \A p \in Player : session'[p] \in {session[p], NoSession} \/ SessionSound(p)',
         \A q \in Request :
            \/ pc'[q] = pc[q] /\ copy'[q] = copy[q]
                /\ (session'[PlayerOf[q]] \in {session[PlayerOf[q]], NoSession}
                       \/ pc[q] \notin PlayPC)
            \/ RequestSound(q)',
         HandlerInv
  PROVE  SoloInv'
  <1>1. \A b \in Bet : Running(b) => Running(b)'
    BY DEF Running
  <1>2. ASSUME NEW p \in Player PROVE SessionSound(p)'
    <2>1. session[p] # NoSession => session[p].bet \in Bet
      BY DEF HandlerInv, TypeOK, Session
    <2>2. SessionSound(p)
      BY DEF SoloInv
    <2>3. CASE session'[p] = session[p]
      BY <1>1, <2>1, <2>2, <2>3 DEF SessionSound, Owned, IsActive
    <2>4. CASE session'[p] = NoSession
      BY <2>4 DEF SessionSound, Owned, IsActive
    <2> QED
      BY <2>3, <2>4
  <1>3. ASSUME NEW q \in Request PROVE RequestSound(q)'
    <2> SUFFICES ASSUME pc'[q] = pc[q], copy'[q] = copy[q],
                        session'[PlayerOf[q]] \in {session[PlayerOf[q]], NoSession}
                          \/ pc[q] \notin PlayPC
                 PROVE  RequestSound(q)'
      OBVIOUS
    <2>1. RequestSound(q)
      BY DEF SoloInv
    <2>2. pc[q] \in PlayPC \cup {"bet_row", "bet_save"} => copy[q].bet \in Bet
      BY DEF HandlerInv, CopyHeld, Session
    <2>3. Owned(copy[q], PlayerOf[q])'
      BY <2>1 DEF RequestSound, Owned
    <2>4. pc'[q] \in {"bet_row", "bet_save", "step", "cashout"} => Running(copy[q].bet)'
      BY <1>1, <2>1, <2>2 DEF RequestSound, PlayPC
    <2>5. pc'[q] = "settle" =>
             credits'[copy[q].bet] = 0 /\ (copy[q].bet \in struck' => copy[q].amount = 0)
      BY <2>1 DEF RequestSound
    <2>6. pc'[q] \in PlayPC \ {"step", "cashout"} => ~IsActive(session'[PlayerOf[q]])
      BY <2>1 DEF RequestSound, IsActive
    <2> QED
      BY <2>3, <2>4, <2>5, <2>6 DEF RequestSound
  <1>4. ASSUME NEW b \in Bet PROVE BetSound(b)'
    BY DEF SoloInv, BetSound
  <1> QED
    BY <1>2, <1>3, <1>4 DEF SoloInv

\* A step of a handler that plays disturbs nothing of the other players, and finds
\* the other handlers of its own player idle.
LEMMA LoneStep ==
  ASSUME SoloInv, HandlerInv, NEW r \in Request, pc[r] \in PlayPC,
         NEW label \in PlayPC \cup {"idle"}, pc' = [pc EXCEPT ![r] = label],
         \A q \in Request \ {r} : copy'[q] = copy[q],
         \A p \in Player \ {PlayerOf[r]} : session'[p] = session[p],
         debited' = debited,
         \A b \in Bet : PlayerOf[b] # PlayerOf[r] =>
            /\ credits'[b] = credits[b] /\ paid'[b] = paid[b]
            /\ b \in struck' <=> b \in struck,
         SessionSound(PlayerOf[r])', RequestSound(r)',
         \A b \in Bet : PlayerOf[b] = PlayerOf[r] => BetSound(b)'
  PROVE  SoloInv'
  <1> DEFINE p == PlayerOf[r]
  <1>0. p \in Player /\ \A q \in Request : PlayerOf[q] \in Player
    BY ConstantsAssumption
  <1>1. \A q \in Request \ {r} : pc'[q] = pc[q]
    BY DEF HandlerInv, TypeOK
  <1>2. \A q \in Request \ {r} : PlayerOf[q] = p => pc[q] = "idle"
    BY DEF SoloInv, PlaysAlone
  <1>3. PlaysAlone'
    BY <1>1, <1>2 DEF SoloInv, PlaysAlone, PlayPC
  <1>4. \A b \in Bet : PlayerOf[b] # p /\ Running(b) => Running(b)'
    BY DEF Running
  <1>5. ASSUME NEW o \in Player PROVE SessionSound(o)'
    <2> SUFFICES ASSUME o # p PROVE SessionSound(o)'
      OBVIOUS
    <2>1. SessionSound(o) /\ session'[o] = session[o]
      BY DEF SoloInv
    <2>2. session[o] # NoSession =>
            session[o].bet \in Bet /\ PlayerOf[session[o].bet] # p
      BY <2>1 DEF HandlerInv, TypeOK, Session, SessionSound, Owned
    <2> QED
      BY <1>4, <2>1, <2>2 DEF SessionSound, Owned, IsActive
  <1>6. ASSUME NEW q \in Request PROVE RequestSound(q)'
    <2> SUFFICES ASSUME q # r PROVE RequestSound(q)'
      OBVIOUS
    <2>1. RequestSound(q) /\ pc'[q] = pc[q] /\ copy'[q] = copy[q]
      BY <1>1 DEF SoloInv
    <2>2. Owned(copy[q], PlayerOf[q])'
      BY <2>1 DEF RequestSound, Owned
    <2>3. CASE PlayerOf[q] = p
      BY <1>2, <2>1, <2>2, <2>3 DEF RequestSound, PlayPC
    <2>4. CASE PlayerOf[q] # p
      <3>1. pc[q] \in PlayPC \cup {"bet_row", "bet_save"} =>
              copy[q].bet \in Bet /\ PlayerOf[copy[q].bet] # p
        BY <2>1, <2>4, ConstantsAssumption
           DEF HandlerInv, CopyHeld, Session, RequestSound, Owned
      <3>2. session'[PlayerOf[q]] = session[PlayerOf[q]]
        BY <1>0, <2>4
      <3> QED
        BY <1>4, <2>1, <2>2, <3>1, <3>2 DEF RequestSound, PlayPC
    <2> QED
      BY <2>3, <2>4
  <1>7. ASSUME NEW b \in Bet PROVE BetSound(b)'
    BY DEF SoloInv, BetSound
  <1> QED
    BY <1>3, <1>5, <1>6, <1>7 DEF SoloInv

-----------------------------------------------------------------------------
(* The bet flow and the environment: growing steps *)

\* A handler that moves inside the bet flow, or stops, leaves every play alone.
LEMMA StillAlone ==
  ASSUME SoloInv, HandlerInv, NEW r \in Request, NEW label \in BetPC \cup {"idle"},
         pc[r] \in BetPC \/ label = "idle",
         pc' = [pc EXCEPT ![r] = label]
  PROVE  PlaysAlone'
  BY DEF SoloInv, PlaysAlone, HandlerInv, TypeOK, BetPC, PlayPC

\* A bet flow starts only when none of its player's handlers plays.
LEMMA BetStartSolo ==
  ASSUME "play" \in Solo, SoloInv, HandlerInv, NEW r \in Request, BetAcquireLock(r)
  PROVE  SoloInv'
  <1>1. /\ pc' = [pc EXCEPT ![r] = "bet_check"]
        /\ pc \in [Request -> {"idle"} \cup BetPC \cup PlayPC]
        /\ UNCHANGED <<copy, session, debited, credits, paid, struck>>
    BY DEF BetAcquireLock, Goto, dbVars, retryVars, walletVars, roundVars, HandlerInv, TypeOK
  <1>2. pc[r] = "idle"
         /\ \A q \in Request : PlayerOf[q] = PlayerOf[r] => pc[q] \notin PlayPC
    BY DEF BetAcquireLock, MayStart, InFlight, Kind, BetPC, PlayPC
  <1>3. PlaysAlone'
    BY <1>1, <1>2 DEF SoloInv, PlaysAlone, PlayPC
  <1>4. RequestSound(r)'
    BY <1>1 DEF SoloInv, RequestSound, Owned, PlayPC
  <1> QED
    BY <1>1, <1>3, <1>4, GrowingStep

LEMMA BetFlowSolo ==
  ASSUME SoloInv, HandlerInv, NEW r \in Request, BetFlow(r)
  PROVE  SoloInv'
  <1> USE DEF Goto, Finish, redisVars, dbVars, retryVars, walletVars, roundVars
  <1>0. /\ pc \in [Request -> {"idle"} \cup BetPC \cup PlayPC]
        /\ copy \in [Request -> Session \cup {NoSession}]
        /\ session \in [Player -> Session \cup {NoSession}]
        /\ PlayerOf[r] \in Player
        /\ RequestSound(r)
    BY ConstantsAssumption DEF HandlerInv, TypeOK, SoloInv
  <1>1. CASE BetRejected(r) \/ BetAccepted(r) \/ BetRefused(r)
    <2>1. PICK label \in {"bet_unlock", "bet_debit"} : pc' = [pc EXCEPT ![r] = label]
      BY <1>1 DEF BetRejected, BetAccepted, BetRefused
    <2>2. /\ pc[r] \in BetPC
          /\ UNCHANGED <<copy, session, debited, credits, paid, struck>>
      BY <1>1 DEF BetRejected, BetAccepted, BetRefused, BetPC
    <2>3. PlaysAlone'
      BY <2>1, <2>2, StillAlone DEF BetPC
    <2>4. RequestSound(r)'
      BY <1>0, <2>1, <2>2 DEF RequestSound, Owned, PlayPC
    <2> QED
      BY <1>0, <2>1, <2>2, <2>3, <2>4, GrowingStep
  <1>2. CASE BetDebit(r)
    <2>1. PICK b \in Bet \ debited :
             /\ PlayerOf[b] = PlayerOf[r]
             /\ debited' = debited \cup {b}
             /\ \/ /\ copy' = [copy EXCEPT ![r] = NewSession(b)]
                   /\ pc' = [pc EXCEPT ![r] = "bet_row"]
                \/ pc' = [pc EXCEPT ![r] = "bet_unlock"] /\ copy' = copy
      BY <1>2 DEF BetDebit
    <2>2. pc[r] \in BetPC /\ UNCHANGED <<session, credits, paid, struck>>
      BY <1>2 DEF BetDebit, BetPC
    <2>3. PlaysAlone'
      BY <2>1, <2>2, StillAlone DEF BetPC
    <2>4. Running(b)'
      BY <2>1, <2>2 DEF Running, SoloInv, BetSound
    <2>5. RequestSound(r)'
      <3>1. CASE /\ copy' = [copy EXCEPT ![r] = NewSession(b)]
                 /\ pc' = [pc EXCEPT ![r] = "bet_row"]
        BY <1>0, <2>1, <2>4, <3>1, NewSessionType DEF RequestSound, Owned, PlayPC
      <3>2. CASE pc' = [pc EXCEPT ![r] = "bet_unlock"] /\ copy' = copy
        BY <1>0, <2>1, <3>2 DEF RequestSound, Owned, PlayPC
      <3> QED
        BY <2>1, <3>1, <3>2
    <2> QED
      BY <1>0, <2>1, <2>2, <2>3, <2>5, GrowingStep
  <1>3. CASE CreatePlacement(r)
    <2>1. /\ pc[r] = "bet_row" /\ pc' = [pc EXCEPT ![r] = "bet_save"]
          /\ UNCHANGED <<copy, session, debited, credits, paid, struck>>
      BY <1>3 DEF CreatePlacement
    <2>2. copy[r] \in Session /\ copy[r].bet \in Bet
      BY <2>1 DEF HandlerInv, CopyHeld, Session
    <2>3. PlaysAlone'
      BY <2>1, StillAlone DEF BetPC
    <2>4. RequestSound(r)'
      BY <1>0, <2>1, <2>2 DEF RequestSound, Owned, PlayPC, Running
    <2> QED
      BY <1>0, <2>1, <2>3, <2>4, GrowingStep
  <1>4. CASE BetSaveSession(r)
    <2>1. /\ pc[r] = "bet_save" /\ pc' = [pc EXCEPT ![r] = "bet_unlock"]
          /\ session' = [session EXCEPT ![PlayerOf[r]] = copy[r]]
          /\ copy' = [copy EXCEPT ![r] = NoSession]
          /\ UNCHANGED <<debited, credits, paid, struck>>
      BY <1>4 DEF BetSaveSession
    <2>2. copy[r] \in Session /\ copy[r].bet \in Bet
      BY <2>1 DEF HandlerInv, CopyHeld, Session
    <2>3. SessionSound(PlayerOf[r])'
      BY <1>0, <2>1, <2>2 DEF SessionSound, RequestSound, Owned, Running, IsActive
    <2>4. PlaysAlone'
      BY <2>1, StillAlone DEF BetPC
    <2>5. RequestSound(r)'
      BY <1>0, <2>1 DEF RequestSound, Owned, PlayPC
    <2>6. \A q \in Request : PlayerOf[q] = PlayerOf[r] => pc[q] \notin PlayPC
      BY <2>1 DEF SoloInv, PlaysAlone, PlayPC
    <2>7. \A p \in Player : session'[p] = session[p] \/ SessionSound(p)'
      BY <1>0, <2>1, <2>3
    <2>8. \A q \in Request :
             session'[PlayerOf[q]] = session[PlayerOf[q]] \/ pc[q] \notin PlayPC
      BY <1>0, <2>1, <2>6, ConstantsAssumption
    <2> QED
      BY <1>0, <2>1, <2>4, <2>5, <2>7, <2>8, GrowingStep
  <1>5. CASE BetFails(r) \/ BetReleaseLock(r)
    <2>1. PICK label \in {"bet_unlock", "idle"} : pc' = [pc EXCEPT ![r] = label]
      BY <1>5 DEF BetFails, BetReleaseLock
    <2>2. /\ pc[r] \in BetPC /\ copy' = [copy EXCEPT ![r] = NoSession]
          /\ UNCHANGED <<session, debited, credits, paid, struck>>
      BY <1>5 DEF BetFails, BetReleaseLock, BetPC
    <2>3. PlaysAlone'
      BY <2>1, <2>2, StillAlone DEF BetPC
    <2>4. RequestSound(r)'
      BY <1>0, <2>1, <2>2 DEF RequestSound, Owned, PlayPC
    <2> QED
      BY <1>0, <2>1, <2>2, <2>3, <2>4, GrowingStep
  <1> QED
    BY <1>1, <1>2, <1>3, <1>4, <1>5 DEF BetFlow

\* A handler that stops, or whose process dies, and the keys that Redis drops.
LEMMA StopSolo ==
  ASSUME SoloInv, HandlerInv,
         \/ \E r \in Request : Crash(r) \/ PlayFails(r) \/ RecordFails(r)
         \/ CreationStep
         \/ \E p \in Player : SessionExpires(p) \/ LockExpires(p)
         \/ Disconnect
         \/ UNCHANGED vars
  PROVE  SoloInv'
  <1>1. /\ UNCHANGED <<debited, credits, paid, struck>>
        /\ \A p \in Player : session'[p] \in {session[p], NoSession}
        /\ \A q \in Request : \/ pc'[q] = pc[q] /\ copy'[q] = copy[q]
                              \/ pc'[q] = "idle" /\ copy'[q] = NoSession
    BY DEF HandlerInv, TypeOK, Crash, PlayFails, RecordFails, CreationStep, CreateRetryJob,
           CreationFails, SessionExpires, LockExpires, Disconnect, Finish, vars, redisVars,
           dbVars, retryVars, walletVars, roundVars, handlerVars
  <1>2. PlaysAlone'
    BY <1>1 DEF SoloInv, PlaysAlone, PlayPC
  <1>3. \A q \in Request : pc'[q] = "idle" /\ copy'[q] = NoSession => RequestSound(q)'
    BY DEF RequestSound, Owned, PlayPC
  <1>4. \A q \in Request : session'[PlayerOf[q]] \in {session[PlayerOf[q]], NoSession}
    BY <1>1, ConstantsAssumption
  <1> QED
    BY <1>1, <1>2, <1>3, <1>4, GrowingStep

-----------------------------------------------------------------------------
(* Steps and cash-outs: lone steps *)

\* A step or a cash-out starts from an active session, alone.
LEMMA ReadSessionSolo ==
  ASSUME "play" \in Solo, SoloInv, HandlerInv, NEW r \in Request,
         NEW label \in {"step", "cashout"}, ReadSession(r, label)
  PROVE  SoloInv'
  <1> DEFINE p == PlayerOf[r]
  <1>1. /\ pc' = [pc EXCEPT ![r] = label] /\ copy' = [copy EXCEPT ![r] = session[p]]
        /\ pc[r] = "idle" /\ IsActive(session[p])
        /\ UNCHANGED <<session, debited, credits, paid, struck>>
    BY DEF ReadSession, MayStart, Goto, redisVars, dbVars, retryVars, walletVars, roundVars
  <1>2. /\ pc \in [Request -> {"idle"} \cup BetPC \cup PlayPC]
        /\ copy \in [Request -> Session \cup {NoSession}]
        /\ p \in Player
    BY ConstantsAssumption DEF HandlerInv, TypeOK
  <1>3. \A q \in Request : PlayerOf[q] = p => pc[q] = "idle"
    BY <1>2 DEF ReadSession, MayStart, InFlight
  <1>4. PlaysAlone'
    BY <1>1, <1>2, <1>3 DEF SoloInv, PlaysAlone, PlayPC
  <1>5. SessionSound(p)
    BY <1>2 DEF SoloInv
  <1>6. RequestSound(r)'
    BY <1>1, <1>2, <1>5 DEF RequestSound, SessionSound, Owned, Running, PlayPC
  <1>7. \A q \in Request \ {r} : pc'[q] = pc[q] /\ copy'[q] = copy[q]
    BY <1>1, <1>2
  <1> QED
    BY <1>1, <1>4, <1>6, <1>7, GrowingStep

\* The end of a round is saved before it is settled; a hit column strikes it.
LEMMA StepSaveSolo ==
  ASSUME SoloInv, HandlerInv, NEW r \in Request, NEW hit \in BOOLEAN, StepSave(r, hit)
  PROVE  SoloInv'
  <1> DEFINE p == PlayerOf[r]
             s == copy[r]
             line == s.step + 1
             last == line = Columns - 1
             new == [s EXCEPT !.step = line,
                              !.amount = IF hit THEN 0 ELSE Win[line],
                              !.active = ~(hit \/ last)]
  <1>1. /\ pc[r] = "step" /\ s \in Session /\ s.bet \in Bet /\ p \in Player
        /\ RequestSound(r)
    BY ConstantsAssumption
       DEF StepSave, HandlerInv, CopyHeld, PlayPC, Session, SoloInv
  <1>2. /\ new.bet = s.bet /\ new.active = ~(hit \/ last)
        /\ hit => new.amount = 0
    BY <1>1 DEF Session
  <1>3. /\ session' = [session EXCEPT ![p] = new]
        /\ IF hit \/ last
             THEN copy' = [copy EXCEPT ![r] = new] /\ pc' = [pc EXCEPT ![r] = "settle"]
             ELSE /\ copy' = [copy EXCEPT ![r] = NoSession]
                  /\ pc' = [pc EXCEPT ![r] = "idle"]
        /\ struck' = IF hit THEN struck \cup {s.bet} ELSE struck
        /\ UNCHANGED <<debited, credits, paid>>
    BY DEF StepSave, Goto, Finish, dbVars, retryVars, walletVars
  <1>4. Owned(s, p) /\ Running(s.bet) /\ s # NoSession
    BY <1>1, ConstantsAssumption DEF RequestSound
  <1>5. BetSound(s.bet)
    BY <1>1 DEF SoloInv
  <1> HIDE DEF new, last, line, s
  <1>6. SessionSound(p)'
    BY <1>1, <1>2, <1>3, <1>4
       DEF SessionSound, Owned, Running, IsActive, HandlerInv, TypeOK
  <1>7. RequestSound(r)'
    <2>1. CASE hit \/ last
      <3>1. copy'[r] = new /\ pc'[r] = "settle" /\ session'[p] = new
        BY <1>1, <1>3, <2>1 DEF HandlerInv, TypeOK
      <3>2. s.bet \in struck' => new.amount = 0
        BY <1>2, <1>3, <1>4 DEF Running
      <3> QED
        BY <1>2, <1>3, <1>4, <2>1, <3>1, <3>2
           DEF RequestSound, Owned, Running, IsActive
    <2>2. CASE ~(hit \/ last)
      BY <1>3, <2>2 DEF RequestSound, Owned, HandlerInv, TypeOK, PlayPC
    <2> QED
      BY <2>1, <2>2
  <1>8. \A b \in Bet : BetSound(b)'
    BY <1>3, <1>4, <1>5 DEF SoloInv, BetSound, Running
  <1>9. PlayerOf[s.bet] = p
    BY <1>4 DEF Owned
  <1>10. PICK label \in {"settle", "idle"} : pc' = [pc EXCEPT ![r] = label]
    BY <1>3
  <1>11. /\ \A q \in Request \ {r} : copy'[q] = copy[q]
         /\ \A o \in Player \ {p} : session'[o] = session[o]
    BY <1>3 DEF HandlerInv, TypeOK
  <1> QED
    BY <1>1, <1>3, <1>6, <1>7, <1>8, <1>9, <1>10, <1>11, LoneStep DEF PlayPC

LEMMA CashOutSaveSolo ==
  ASSUME SoloInv, HandlerInv, NEW r \in Request, CashOutSave(r)
  PROVE  SoloInv'
  <1> DEFINE p == PlayerOf[r]
             new == [copy[r] EXCEPT !.active = FALSE]
  <1>1. /\ pc[r] = "cashout" /\ copy[r] \in Session /\ p \in Player
        /\ RequestSound(r)
    BY ConstantsAssumption DEF CashOutSave, HandlerInv, CopyHeld, PlayPC, SoloInv
  <1>2. new.bet = copy[r].bet /\ ~new.active
    BY <1>1 DEF Session
  <1>3. /\ session' = [session EXCEPT ![p] = new] /\ copy' = [copy EXCEPT ![r] = new]
        /\ pc' = [pc EXCEPT ![r] = "settle"]
        /\ UNCHANGED <<debited, credits, paid, struck>>
    BY DEF CashOutSave, Goto, dbVars, retryVars, walletVars, roundVars
  <1>4. Owned(new, p) /\ Running(new.bet)
    BY <1>1, <1>2, ConstantsAssumption DEF RequestSound, Owned
  <1> HIDE DEF new
  <1>5. copy'[r] = new /\ session'[p] = new /\ pc'[r] = "settle"
    BY <1>1, <1>3 DEF HandlerInv, TypeOK
  <1>6. SessionSound(p)' /\ RequestSound(r)'
    BY <1>2, <1>3, <1>4, <1>5 DEF SessionSound, RequestSound, Owned, Running, IsActive
  <1>7. \A b \in Bet : BetSound(b)'
    BY <1>3 DEF SoloInv, BetSound
  <1>8. /\ \A q \in Request \ {r} : copy'[q] = copy[q]
        /\ \A o \in Player \ {p} : session'[o] = session[o]
    BY <1>3 DEF HandlerInv, TypeOK
  <1> QED
    BY <1>1, <1>3, <1>6, <1>7, <1>8, LoneStep DEF PlayPC

-----------------------------------------------------------------------------
(* The settlement *)

\* From the settlement on, the session of the player is over and the handler's
\* round is one of that player.
LEMMA SettlingFacts ==
  ASSUME SoloInv, HandlerInv, NEW r \in Request,
         pc[r] \in PlayPC \ {"step", "cashout"}
  PROVE  /\ copy[r] \in Session /\ copy[r].bet \in Bet /\ PlayerOf[r] \in Player
         /\ PlayerOf[copy[r].bet] = PlayerOf[r]
         /\ copy[r].bet \in debited
         /\ ~IsActive(session[PlayerOf[r]])
         /\ SessionSound(PlayerOf[r]) /\ RequestSound(r) /\ BetSound(copy[r].bet)
  <1>1. copy[r] \in Session /\ copy[r].bet \in Bet /\ PlayerOf[r] \in Player
    BY ConstantsAssumption DEF HandlerInv, CopyHeld, Session
  <1> QED
    BY <1>1, ConstantsAssumption DEF SoloInv, RequestSound, Owned

LEMMA SettleAcceptedSolo ==
  ASSUME SoloInv, HandlerInv, NEW r \in Request, SettleAccepted(r)
  PROVE  SoloInv'
  <1> DEFINE b == copy[r].bet
             p == PlayerOf[r]
  <1>1. pc[r] = "settle"
    BY DEF SettleAccepted
  <1>2. /\ b \in Bet /\ p \in Player /\ PlayerOf[b] = p /\ b \in debited
        /\ ~IsActive(session[p]) /\ SessionSound(p) /\ RequestSound(r) /\ BetSound(b)
    BY <1>1, SettlingFacts DEF PlayPC
  <1>3. PICK label \in {"record", "settle_failed"} : pc' = [pc EXCEPT ![r] = label]
    BY DEF SettleAccepted, Goto
  <1>4. /\ credits' = [credits EXCEPT ![b] = @ + 1]
        /\ paid' = [paid EXCEPT ![b] = @ \cup {copy[r].amount}]
        /\ UNCHANGED <<copy, session, debited, struck>>
    BY DEF SettleAccepted, redisVars, dbVars, retryVars, roundVars
  <1>5. credits[b] = 0 /\ (b \in struck => copy[r].amount = 0)
    BY <1>1, <1>2 DEF RequestSound
  <1> HIDE DEF b
  <1>6. credits'[b] = 1 /\ paid'[b] = paid[b] \cup {copy[r].amount}
    BY <1>2, <1>4, <1>5 DEF HandlerInv, TypeOK
  <1>7. \A c \in Bet \ {b} : credits'[c] = credits[c] /\ paid'[c] = paid[c]
    BY <1>4 DEF HandlerInv, TypeOK
  <1>8. \A c \in Bet : BetSound(c)'
    BY <1>2, <1>4, <1>5, <1>6, <1>7 DEF SoloInv, BetSound
  <1>9. SessionSound(p)'
    BY <1>2, <1>4 DEF SessionSound, Owned, IsActive
  <1>10. RequestSound(r)'
    BY <1>2, <1>3, <1>4 DEF RequestSound, Owned, IsActive, HandlerInv, TypeOK, PlayPC
  <1> QED
    BY <1>1, <1>2, <1>3, <1>4, <1>7, <1>8, <1>9, <1>10, LoneStep DEF PlayPC

\* What follows the reply of the agent touches the session of its player, which is
\* over.
LEMMA AfterSettlementSolo ==
  ASSUME SoloInv, HandlerInv, NEW r \in Request,
         \/ SettleRefused(r) \/ SettleFailed(r) \/ RecordRead(r) \/ RecordSave(r)
         \/ ClearSession(r)
  PROVE  SoloInv'
  <1> DEFINE b == copy[r].bet
             p == PlayerOf[r]
  <1>1. pc[r] \in {"settle", "settle_failed", "record", "record_save", "clear"}
    BY DEF SettleRefused, SettleFailed, RecordRead, RecordSave, ClearSession
  <1>2. /\ b \in Bet /\ p \in Player /\ PlayerOf[b] = p
        /\ ~IsActive(session[p]) /\ SessionSound(p) /\ RequestSound(r)
    BY <1>1, SettlingFacts DEF PlayPC
  <1>3. PICK label \in {"settle_failed", "record_save", "clear", "idle"} :
           pc' = [pc EXCEPT ![r] = label]
    BY DEF SettleRefused, SettleFailed, RecordRead, RecordSave, ClearSession, Goto, Finish
  <1>4. /\ copy' \in {copy, [copy EXCEPT ![r] = NoSession]}
        /\ session' \in {session, [session EXCEPT ![p] = NoSession]}
        /\ UNCHANGED <<debited, credits, paid, struck>>
    BY DEF SettleRefused, SettleFailed, RecordRead, RecordSave, ClearSession, Finish,
           redisVars, dbVars, retryVars, walletVars, roundVars
  <1> HIDE DEF b
  <1>5. session'[p] \in {session[p], NoSession} /\ copy'[r] \in {copy[r], NoSession}
    BY <1>2, <1>4 DEF HandlerInv, TypeOK
  <1>6. SessionSound(p)'
    BY <1>2, <1>4, <1>5 DEF SessionSound, Owned, IsActive
  <1>7. pc'[r] = label
    BY <1>3 DEF HandlerInv, TypeOK
  <1>8. RequestSound(r)'
    BY <1>2, <1>4, <1>5, <1>7 DEF RequestSound, Owned, IsActive, PlayPC
  <1>9. \A c \in Bet : BetSound(c)'
    BY <1>4 DEF SoloInv, BetSound
  <1>10. /\ \A q \in Request \ {r} : copy'[q] = copy[q]
         /\ \A o \in Player \ {p} : session'[o] = session[o]
    BY <1>4 DEF HandlerInv, TypeOK
  <1> QED
    BY <1>1, <1>2, <1>3, <1>4, <1>6, <1>8, <1>9, <1>10, LoneStep DEF PlayPC

-----------------------------------------------------------------------------
(* The theorems *)

LEMMA SoloStep ==
  ASSUME "play" \in Solo
  PROVE  HandlerInv /\ SoloInv /\ [Next]_vars => SoloInv'
  <1> SUFFICES ASSUME HandlerInv, SoloInv, [Next]_vars PROVE SoloInv'
    OBVIOUS
  <1>1. ASSUME NEW r \in Request, Start(r) PROVE SoloInv'
    BY <1>1, BetStartSolo, ReadSessionSolo DEF Start, CashOutRead, StepRead
  <1>2. ASSUME NEW r \in Request, PlayFlow(r) PROVE SoloInv'
    BY <1>2, StepSaveSolo, CashOutSaveSolo, StopSolo DEF PlayFlow
  <1>3. ASSUME NEW r \in Request, SettleFlow(r) PROVE SoloInv'
    BY <1>3, SettleAcceptedSolo, AfterSettlementSolo, StopSolo DEF SettleFlow
  <1> QED
    BY <1>1, <1>2, <1>3, BetFlowSolo, StopSolo DEF Next, Continue

LEMMA SoloInvariant ==
  ASSUME "play" \in Solo
  PROVE  Spec => []SoloInv
  BY SoloInit, SoloStep, HandlersWellFormed, PTL DEF Spec

\* A client that waits for the answer to a step or a cash-out before it sends
\* anything else has each round settled at most once, whatever fails or expires
\* and whatever its bets overlap.
THEOREM RoundsSettledOnce ==
  ASSUME "play" \in Solo
  PROVE  Spec => []SettledOnce
  <1>1. SoloInv => SettledOnce
    BY DEF SoloInv, BetSound, SettledOnce
  <1> QED
    BY <1>1, SoloInvariant, PTL

\* For such a client a round whose chicken was hit is never paid.
THEOREM StruckRoundsLose ==
  ASSUME "play" \in Solo
  PROVE  Spec => []StruckPaysNothing
  <1>1. TypeOK /\ SoloInv => StruckPaysNothing
    BY DEF TypeOK, SoloInv, BetSound, StruckPaysNothing
  <1> QED
    BY <1>1, SoloInvariant, TypeCorrect, PTL

-----------------------------------------------------------------------------
(* The rows that a round writes *)

LEMMA RowWriters ==
  ASSUME [Next]_vars
  PROVE  \/ UNCHANGED row
         \/ \E r \in Request : CreatePlacement(r) \/ SettleFailed(r) \/ RecordSave(r)
  <1>1. ASSUME NEW r \in Request, Start(r) \/ PlayFlow(r) \/ Crash(r) PROVE UNCHANGED row
    BY <1>1 DEF dbVars, Start, BetAcquireLock, CashOutRead, StepRead, ReadSession, PlayFlow,
                StepSave, CashOutSave, PlayFails, Crash
  <1>2. ASSUME NEW r \in Request, BetFlow(r)
        PROVE  UNCHANGED row \/ CreatePlacement(r)
    BY <1>2 DEF dbVars, BetFlow, BetRejected, BetAccepted, BetDebit, BetRefused, BetSaveSession,
                BetFails, BetReleaseLock
  <1>3. ASSUME NEW r \in Request, SettleFlow(r)
        PROVE  UNCHANGED row \/ SettleFailed(r) \/ RecordSave(r)
    BY <1>3 DEF dbVars, SettleFlow, SettleAccepted, SettleRefused, RecordRead, RecordFails,
                ClearSession
  <1>4. CASE \/ \E p \in Player : SessionExpires(p) \/ LockExpires(p)
             \/ CreationStep \/ Disconnect \/ UNCHANGED vars
    BY <1>4 DEF CreationStep, CreateRetryJob, CreationFails, SessionExpires, LockExpires,
                Disconnect, vars, dbVars, retryVars
  <1> QED
    BY <1>1, <1>2, <1>3, <1>4 DEF Next, Continue

\* The row of a handler's bet, and no other.
LEMMA RowWritten ==
  ASSUME HandlerInv, NEW r \in Request, NEW b \in Bet, row'[b] # row[b],
         CreatePlacement(r) \/ SettleFailed(r) \/ RecordSave(r)
  PROVE  /\ copy[r] \in Session /\ copy[r].bet = b
         /\ row'[b].status = "PLACED" => CreatePlacement(r)
         /\ row'[b].status = "SETTLEMENT_FAILED" => SettleFailed(r)
  <1>1. copy[r] \in Session /\ copy[r].bet \in Bet
    BY DEF HandlerInv, CopyHeld, PlayPC, CreatePlacement, SettleFailed, RecordSave, Session
  <1>2. row \in [Bet -> Row]
    BY DEF HandlerInv, TypeOK
  <1>3. CASE CreatePlacement(r)
    <2>1. row' = [row EXCEPT ![copy[r].bet].status = "PLACED"]
      BY <1>3 DEF CreatePlacement
    <2> QED
      BY <1>1, <1>2, <1>3, <2>1 DEF Row
  <1>4. CASE SettleFailed(r)
    <2>1. row' = [row EXCEPT ![copy[r].bet].status = "SETTLEMENT_FAILED"] \/ row' = row
      BY <1>4 DEF SettleFailed
    <2> QED
      BY <1>1, <1>2, <1>4, <2>1 DEF Row
  <1>5. CASE RecordSave(r)
    <2>1. PICK st \in {"WON", "LOST"} :
             row' = [row EXCEPT ![copy[r].bet] = [status |-> st, win |-> copy[r].amount]]
      BY <1>5 DEF RecordSave
    <2> QED
      BY <1>1, <1>2, <2>1
  <1> QED
    BY <1>3, <1>4, <1>5

-----------------------------------------------------------------------------
(* The sessions that a round writes *)

\* The saves of a bet flow, a step and a cash-out write the key of their own player;
\* everything else leaves a key as it is or removes it.
LEMMA SessionWriters ==
  ASSUME TypeOK, [Next]_vars, NEW p \in Player, session'[p] \notin {session[p], NoSession}
  PROVE  \E r \in Request :
            /\ PlayerOf[r] = p
            /\ BetSaveSession(r) \/ CashOutSave(r) \/ \E hit \in BOOLEAN : StepSave(r, hit)
  <1> USE DEF TypeOK, redisVars
  <1>1. ASSUME NEW r \in Request, Start(r) PROVE FALSE
    BY <1>1 DEF Start, BetAcquireLock, CashOutRead, StepRead, ReadSession
  <1>2. ASSUME NEW r \in Request, BetFlow(r) PROVE PlayerOf[r] = p /\ BetSaveSession(r)
    BY <1>2 DEF BetFlow, BetRejected, BetAccepted, BetDebit, BetRefused, CreatePlacement,
                BetSaveSession, BetFails, BetReleaseLock
  <1>3. ASSUME NEW r \in Request, PlayFlow(r)
        PROVE  PlayerOf[r] = p /\ (CashOutSave(r) \/ \E hit \in BOOLEAN : StepSave(r, hit))
    BY <1>3 DEF PlayFlow, StepSave, CashOutSave, PlayFails
  <1>4. ASSUME NEW r \in Request, SettleFlow(r) PROVE FALSE
    BY <1>4 DEF SettleFlow, SettleAccepted, SettleRefused, SettleFailed, RecordRead,
                RecordSave, RecordFails, ClearSession
  <1>5. ~ \/ \E r \in Request : Crash(r)
          \/ \E o \in Player : SessionExpires(o) \/ LockExpires(o)
          \/ CreationStep \/ Disconnect \/ UNCHANGED vars
    BY DEF Crash, CreationStep, CreateRetryJob, CreationFails, SessionExpires, LockExpires,
           Disconnect, vars
  <1> QED
    BY <1>1, <1>2, <1>3, <1>4, <1>5 DEF Next, Continue

\* A step saves a session of the bet it has read.
LEMMA StepSaved ==
  ASSUME HandlerInv, NEW r \in Request, NEW hit \in BOOLEAN, StepSave(r, hit)
  PROVE  /\ copy[r] \in Session /\ copy[r].active /\ copy[r] # NoSession
         /\ \E new \in Session :
               /\ new.bet = copy[r].bet
               /\ session' = [session EXCEPT ![PlayerOf[r]] = new]
               /\ copy'[r] \in {new, NoSession}
  <1> DEFINE line == copy[r].step + 1
             new == [copy[r] EXCEPT !.step = line,
                                    !.amount = IF hit THEN 0 ELSE Win[line],
                                    !.active = ~(hit \/ line = Columns - 1)]
  <1>1. copy[r] \in Session /\ copy[r].active /\ copy[r].step < Columns - 1
    BY DEF StepSave, HandlerInv, CopyHeld, RunningCopy, ColumnsLeft, ColumnLeft, PlayPC
  <1>2. line \in Steps /\ Win[line] \in Nat
    BY <1>1, ColumnFacts DEF Session
  <1>3. new \in Session /\ new.bet = copy[r].bet
    BY <1>1, <1>2 DEF Session
  <1>4. session' = [session EXCEPT ![PlayerOf[r]] = new] /\ copy'[r] \in {new, NoSession}
    BY DEF StepSave, Finish, HandlerInv, TypeOK
  <1> HIDE DEF new
  <1> QED
    BY <1>1, <1>3, <1>4, ConstantsAssumption

\* What the three saves write.
LEMMA SavedSessions ==
  ASSUME HandlerInv, NEW r \in Request,
         BetSaveSession(r) \/ CashOutSave(r) \/ \E hit \in BOOLEAN : StepSave(r, hit)
  PROVE  /\ copy[r] \in Session
         /\ session'[PlayerOf[r]] # NoSession
         /\ session'[PlayerOf[r]].bet = copy[r].bet
         /\ CashOutSave(r) => ~IsActive(session'[PlayerOf[r]])
         /\ ~BetSaveSession(r) => pc[r] \in {"step", "cashout"}
  <1>0. PlayerOf[r] \in Player /\ NoSession \notin Session
    BY ConstantsAssumption
  <1>1. copy[r] \in Session
    BY DEF HandlerInv, CopyHeld, PlayPC, BetSaveSession, CashOutSave, StepSave
  <1>2. CASE BetSaveSession(r)
    BY <1>0, <1>1, <1>2 DEF BetSaveSession, CashOutSave, HandlerInv, TypeOK
  <1>3. CASE CashOutSave(r)
    <2> DEFINE new == [copy[r] EXCEPT !.active = FALSE]
    <2>1. new \in Session /\ new.bet = copy[r].bet /\ ~new.active
      BY <1>1 DEF Session
    <2>2. session'[PlayerOf[r]] = new
      BY <1>0, <1>3 DEF CashOutSave, HandlerInv, TypeOK
    <2> HIDE DEF new
    <2> QED
      BY <1>0, <1>1, <1>3, <2>1, <2>2 DEF IsActive, CashOutSave
  <1>4. ASSUME NEW hit \in BOOLEAN, StepSave(r, hit)
        PROVE  /\ session'[PlayerOf[r]] # NoSession
               /\ session'[PlayerOf[r]].bet = copy[r].bet
               /\ ~CashOutSave(r) /\ pc[r] = "step"
    <2>1. PICK new \in Session :
             new.bet = copy[r].bet /\ session' = [session EXCEPT ![PlayerOf[r]] = new]
      BY <1>4, StepSaved
    <2>2. session'[PlayerOf[r]] = new
      BY <1>0, <2>1 DEF HandlerInv, TypeOK
    <2> QED
      BY <1>0, <1>4, <2>1, <2>2 DEF StepSave, CashOutSave
  <1> QED
    BY <1>1, <1>2, <1>3, <1>4

-----------------------------------------------------------------------------
(* The row of a round in play *)

\* A handler comes to play with the bet it has booked or with the session it has read.
LEMMA PlaysBegin ==
  ASSUME HandlerInv, [Next]_vars, NEW r \in Request,
         pc'[r] \in {"bet_save", "step", "cashout"}
  PROVE  \/ pc'[r] = pc[r] /\ copy'[r] = copy[r]
         \/ CreatePlacement(r) /\ copy'[r] = copy[r]
         \/ IsActive(session[PlayerOf[r]]) /\ copy'[r] = session[PlayerOf[r]]
  <1> USE DEF HandlerInv, TypeOK, Goto, Finish, handlerVars
  <1>1. ASSUME NEW q \in Request, Start(q)
        PROVE  \/ pc'[r] = pc[r] /\ copy'[r] = copy[r]
               \/ IsActive(session[PlayerOf[r]]) /\ copy'[r] = session[PlayerOf[r]]
    BY <1>1 DEF Start, BetAcquireLock, CashOutRead, StepRead, ReadSession
  <1>2. ASSUME NEW q \in Request, BetFlow(q)
        PROVE  \/ pc'[r] = pc[r] /\ copy'[r] = copy[r]
               \/ CreatePlacement(r) /\ copy'[r] = copy[r]
    BY <1>2 DEF BetFlow, BetRejected, BetAccepted, BetDebit, BetRefused, CreatePlacement,
                BetSaveSession, BetFails, BetReleaseLock
  <1>3. ASSUME NEW q \in Request, PlayFlow(q) PROVE pc'[r] = pc[r] /\ copy'[r] = copy[r]
    BY <1>3 DEF PlayFlow, StepSave, CashOutSave, PlayFails
  <1>4. ASSUME NEW q \in Request, SettleFlow(q) PROVE pc'[r] = pc[r] /\ copy'[r] = copy[r]
    BY <1>4 DEF SettleFlow, SettleAccepted, SettleRefused, SettleFailed, RecordRead,
                RecordSave, RecordFails, ClearSession
  <1>5. \/ \E q \in Request : Crash(q)
        \/ \E p \in Player : SessionExpires(p) \/ LockExpires(p)
        \/ CreationStep \/ Disconnect \/ UNCHANGED vars
        => pc'[r] = pc[r] /\ copy'[r] = copy[r]
    BY DEF Crash, CreationStep, CreateRetryJob, CreationFails, SessionExpires, LockExpires, Disconnect, vars
  <1> QED
    BY <1>1, <1>2, <1>3, <1>4, <1>5 DEF Next, Continue

\* A row that says PLACED is written by the handler that settles its round, which has
\* found nobody else of its player at play.
LEMMA PlacedRowStays ==
  ASSUME HandlerInv, [Next]_vars, NEW b \in Bet, row[b].status = "PLACED",
         \A r \in Request : pc[r] \in {"settle_failed", "record_save"} => copy[r].bet # b
  PROVE  row'[b].status = "PLACED"
  <1> SUFFICES ASSUME row'[b] # row[b] PROVE row'[b].status = "PLACED"
    OBVIOUS
  <1>1. PICK r \in Request : CreatePlacement(r) \/ SettleFailed(r) \/ RecordSave(r)
    BY RowWriters
  <1>2. copy[r].bet = b
    BY <1>1, RowWritten
  <1>3. CreatePlacement(r)
    BY <1>1, <1>2 DEF SettleFailed, RecordSave
  <1> QED
    BY <1>2, <1>3 DEF CreatePlacement, HandlerInv, TypeOK, Row

LEMMA RowsPlacedStep ==
  ASSUME HandlerInv, SoloInv, RowsPlaced, [Next]_vars
  PROVE  RowsPlaced'
  <1>0. \A r \in Request : PlayerOf[r] \in Player
    BY ConstantsAssumption
  \* The handler that settles a round of a player is alone, and no session is active.
  <1>1. ASSUME NEW r \in Request, pc[r] \in {"settle_failed", "record_save"}
        PROVE  /\ PlayerOf[copy[r].bet] = PlayerOf[r]
               /\ ~IsActive(session[PlayerOf[r]])
               /\ \A q \in Request \ {r} : PlayerOf[q] = PlayerOf[r] => pc[q] = "idle"
    BY <1>1, SettlingFacts DEF PlayPC, SoloInv, PlaysAlone
  <1>2. ASSUME NEW p \in Player, IsActive(session[p])
        PROVE  /\ session[p].bet \in Bet /\ row[session[p].bet].status = "PLACED"
               /\ row'[session[p].bet].status = "PLACED"
    <2>1. session[p].bet \in Bet /\ PlayerOf[session[p].bet] = p
      BY <1>2 DEF HandlerInv, TypeOK, Session, IsActive, SoloInv, SessionSound, Owned
    <2> QED
      BY <1>1, <1>2, <2>1, PlacedRowStays DEF RowsPlaced
  <1>3. ASSUME NEW r \in Request, pc[r] \in {"bet_save", "step", "cashout"}
        PROVE  /\ copy[r].bet \in Bet /\ row[copy[r].bet].status = "PLACED"
               /\ row'[copy[r].bet].status = "PLACED"
    <2>1. /\ copy[r] # NoSession /\ copy[r].bet \in Bet
          /\ PlayerOf[copy[r].bet] = PlayerOf[r]
      BY <1>3, ConstantsAssumption
         DEF HandlerInv, CopyHeld, PlayPC, Session, SoloInv, RequestSound, Owned
    <2>2. row[copy[r].bet].status = "PLACED"
      BY <1>3 DEF RowsPlaced
    <2> QED
      BY <1>1, <1>3, <2>1, <2>2, PlacedRowStays
  <1>4. ASSUME NEW p \in Player, IsActive(session'[p])
        PROVE  row'[session'[p].bet].status = "PLACED"
    <2>1. CASE session'[p] = session[p]
      BY <1>2, <1>4, <2>1
    <2>2. CASE session'[p] # session[p]
      <3>1. PICK r \in Request :
               /\ PlayerOf[r] = p
               /\ BetSaveSession(r) \/ CashOutSave(r) \/ \E hit \in BOOLEAN : StepSave(r, hit)
        BY <1>4, <2>2, SessionWriters DEF HandlerInv, IsActive
      <3>2. session'[p].bet = copy[r].bet
        BY <3>1, SavedSessions
      <3>3. pc[r] \in {"bet_save", "step", "cashout"}
        BY <3>1 DEF BetSaveSession, CashOutSave, StepSave
      <3> QED
        BY <1>3, <3>2, <3>3
    <2> QED
      BY <2>1, <2>2
  <1>5. ASSUME NEW r \in Request, pc'[r] \in {"bet_save", "step", "cashout"}
        PROVE  row'[copy'[r].bet].status = "PLACED"
    <2>1. CASE CreatePlacement(r) /\ copy'[r] = copy[r]
      <3>1. copy[r].bet \in Bet /\ row \in [Bet -> Row]
        BY <2>1 DEF CreatePlacement, HandlerInv, TypeOK, CopyHeld, Session
      <3> QED
        BY <2>1, <3>1 DEF CreatePlacement, Row
    <2> QED
      BY <1>0, <1>2, <1>3, <1>5, <2>1, PlaysBegin
  <1> QED
    BY <1>4, <1>5 DEF RowsPlaced

LEMMA BackedWhenPlaced == SoloInv /\ RowsPlaced => LiveSessionBacked
  BY DEF SoloInv, SessionSound, RowsPlaced, Owned, Running, IsActive, LiveSessionBacked

\* For such a client the session Redis calls active is one whose stake was taken,
\* whose row says PLACED and which the agent has not been asked to settle.
THEOREM ActiveSessionsBacked ==
  ASSUME "play" \in Solo
  PROVE  Spec => []LiveSessionBacked
  <1>1. Init => RowsPlaced
    BY DEF Init, RowsPlaced, IsActive
  <1>2. HandlerInv /\ SoloInv /\ RowsPlaced /\ [Next]_vars => RowsPlaced'
    BY RowsPlacedStep
  <1>3. SoloInv /\ RowsPlaced => LiveSessionBacked
    BY BackedWhenPlaced
  <1> QED
    BY <1>1, <1>2, <1>3, HandlersWellFormed, SoloInvariant, PTL DEF Spec

-----------------------------------------------------------------------------
(* GamePlay implements Round *)

RoundInv == HandlerInv /\ SoloInv /\ LevelInv

LEMMA LevelInit == Init => LevelInv
  BY ConstantsAssumption
     DEF Init, LevelInv, SessionLevel, RequestLevel, IsActive, HandlerInv

-----------------------------------------------------------------------------
(* Which steps a round can see *)

\* A step that takes no stake, crosses no column and settles nothing.
Silent == UNCHANGED <<debited, credits, paid, passed, struck>>

LEMMA SilentSteps ==
  ASSUME [Next]_vars
  PROVE  \/ Silent
         \/ \E r \in Request : BetDebit(r) \/ SettleAccepted(r)
         \/ \E r \in Request, hit \in BOOLEAN : StepSave(r, hit)
  <1> USE DEF Silent, vars, redisVars, dbVars, retryVars, walletVars, roundVars
  <1>1. ASSUME NEW r \in Request, Start(r) PROVE Silent
    BY <1>1 DEF Start, BetAcquireLock, CashOutRead, StepRead, ReadSession
  <1>2. ASSUME NEW r \in Request, BetFlow(r) PROVE Silent \/ BetDebit(r)
    BY <1>2 DEF BetFlow, BetRejected, BetAccepted, BetRefused, CreatePlacement,
                BetSaveSession, BetFails, BetReleaseLock
  <1>3. ASSUME NEW r \in Request, PlayFlow(r)
        PROVE  Silent \/ \E hit \in BOOLEAN : StepSave(r, hit)
    BY <1>3 DEF PlayFlow, CashOutSave, PlayFails
  <1>4. ASSUME NEW r \in Request, SettleFlow(r) PROVE Silent \/ SettleAccepted(r)
    BY <1>4 DEF SettleFlow, SettleRefused, SettleFailed, RecordRead, RecordSave,
                RecordFails, ClearSession
  <1>5. ASSUME NEW r \in Request, Crash(r) PROVE Silent
    BY <1>5 DEF Crash
  <1>6. ASSUME NEW p \in Player, SessionExpires(p) \/ LockExpires(p) PROVE Silent
    BY <1>6 DEF SessionExpires, LockExpires
  <1>7. CASE CreationStep \/ Disconnect \/ UNCHANGED vars
    BY <1>7 DEF CreationStep, CreateRetryJob, CreationFails, Disconnect
  <1> QED
    BY <1>1, <1>2, <1>3, <1>4, <1>5, <1>6, <1>7 DEF Next, Continue

-----------------------------------------------------------------------------
(* The steps a round can see are steps of Round *)

\* What a handler holds up to its settlement is a round in play of its player.
LEMMA InPlayFacts ==
  ASSUME RoundInv, NEW r \in Request, pc[r] \in {"step", "settle"}
  PROVE  /\ copy[r] \in Session /\ copy[r].bet \in Bet /\ copy[r].step \in Steps
         /\ copy[r].bet \in debited /\ credits[copy[r].bet] = 0
         /\ RequestLevel(r) /\ RequestSound(r) /\ BetSound(copy[r].bet)
         /\ pc[r] = "step" => copy[r].bet \notin struck /\ copy[r].step < Columns - 1
  <1>1. copy[r] \in Session /\ copy[r].bet \in Bet /\ copy[r].step \in Steps
    BY DEF RoundInv, HandlerInv, CopyHeld, PlayPC, Session
  <1>2. RequestLevel(r) /\ RequestSound(r) /\ BetSound(copy[r].bet)
    BY <1>1 DEF RoundInv, SoloInv, LevelInv
  <1>3. copy[r].bet \in debited /\ credits[copy[r].bet] = 0
    BY <1>1, <1>2, ConstantsAssumption DEF RequestSound, Owned, Running
  <1>4. pc[r] = "step" => copy[r].bet \notin struck /\ copy[r].step < Columns - 1
    BY <1>1, <1>2 DEF RoundInv, HandlerInv, RunningCopy, ColumnsLeft, ColumnLeft,
                      RequestSound, Running
  <1> QED
    BY <1>1, <1>2, <1>3, <1>4

LEMMA DebitStakes ==
  ASSUME RoundInv, NEW r \in Request, BetDebit(r)
  PROVE  \E b \in Bet : Promise!Stake(b)
  BY DEF BetDebit, Promise!Stake, roundVars

LEMMA StepCrossesOrStrikes ==
  ASSUME RoundInv, NEW r \in Request, NEW hit \in BOOLEAN, StepSave(r, hit)
  PROVE  \E b \in Bet : Promise!Cross(b) \/ Promise!Strike(b)
  <1> DEFINE b == copy[r].bet
             line == copy[r].step + 1
  <1>1. pc[r] = "step"
    BY DEF StepSave
  <1>2. /\ copy[r] \in Session /\ b \in Bet /\ copy[r].step \in Steps
        /\ b \in debited \ struck /\ credits[b] = 0
        /\ copy[r].step < Columns - 1
        /\ passed[b] = 0 .. copy[r].step
    BY <1>1, InPlayFacts DEF RequestLevel, AtColumn
  <1>3. line \in 0 .. Columns - 1 /\ line - 1 = copy[r].step
    BY <1>2, ConstantsAssumption DEF Steps, InitialStep
  <1>4. Promise!InPlay(b) /\ Promise!Reached(b, line - 1)
    BY <1>2, <1>3 DEF Promise!InPlay, Promise!Reached
  <1>5. CASE hit
    <2>1. struck' = struck \cup {b} /\ UNCHANGED <<debited, credits, paid, passed>>
      BY <1>5 DEF StepSave, walletVars
    <2>2. line # Columns - 1
      BY <1>5 DEF StepSave
    <2>3. line \in 0 .. Columns - 2
      BY <1>3, <2>2, ConstantsAssumption
    <2> QED
      BY <1>2, <1>4, <2>1, <2>3 DEF Promise!Strike
  <1>6. CASE ~hit
    <2>1. /\ passed' = [passed EXCEPT ![b] = @ \cup {line}]
          /\ UNCHANGED <<debited, credits, paid, struck>>
      BY <1>6 DEF StepSave, walletVars
    <2> QED
      BY <1>2, <1>3, <1>4, <2>1 DEF Promise!Cross
  <1> QED
    BY <1>5, <1>6

LEMMA AcceptedSettles ==
  ASSUME RoundInv, NEW r \in Request, SettleAccepted(r)
  PROVE  \E b \in Bet : Promise!Settle(b)
  <1> DEFINE b == copy[r].bet
             step == copy[r].step
  <1>1. pc[r] = "settle"
    BY DEF SettleAccepted
  <1>2. /\ b \in Bet /\ step \in Steps
        /\ b \in debited /\ credits[b] = 0 /\ BetSound(b)
        /\ IF b \in struck THEN StruckAt(copy[r]) ELSE AtColumn(copy[r])
    BY <1>1, InPlayFacts DEF RequestLevel
  <1>3. /\ credits' = [credits EXCEPT ![b] = @ + 1]
        /\ paid' = [paid EXCEPT ![b] = @ \cup {copy[r].amount}]
        /\ UNCHANGED <<debited, passed, struck>>
    BY DEF SettleAccepted, roundVars
  <1>4. credits' = [credits EXCEPT ![b] = 1]
    BY <1>2, <1>3
  <1>5. paid' = [paid EXCEPT ![b] = {copy[r].amount}]
    BY <1>2, <1>3 DEF BetSound
  <1>6. \E column \in -1 .. Columns - 1 :
           /\ Promise!Reached(b, column)
           /\ copy[r].amount = IF b \in struck THEN 0 ELSE Win[column]
    <2>1. CASE b \notin struck
      <3>1. passed[b] = 0 .. step /\ copy[r].amount = Win[step]
        BY <1>2, <2>1 DEF AtColumn
      <3>2. step \in -1 .. Columns - 1
        BY <1>2 DEF Steps, InitialStep
      <3> QED
        BY <2>1, <3>1, <3>2 DEF Promise!Reached
    <2>2. CASE b \in struck /\ step = -1
      <3>1. passed[b] = {} /\ copy[r].amount = 0
        BY <1>2, <2>2 DEF StruckAt
      <3>2. 0 .. -1 = {} /\ -1 \in -1 .. Columns - 1
        BY ConstantsAssumption
      <3> QED
        BY <2>2, <3>1, <3>2 DEF Promise!Reached
    <2>3. CASE b \in struck /\ step # -1
      <3>1. passed[b] = 0 .. step - 1 /\ copy[r].amount = 0
        BY <1>2, <2>3 DEF StruckAt
      <3>2. step - 1 \in -1 .. Columns - 1
        BY <1>2, <2>3, ConstantsAssumption DEF Steps, InitialStep
      <3> QED
        BY <2>3, <3>1, <3>2 DEF Promise!Reached
    <2> QED
      BY <2>1, <2>2, <2>3
  <1>7. PICK column \in -1 .. Columns - 1 :
           /\ Promise!Reached(b, column)
           /\ copy[r].amount = IF b \in struck THEN 0 ELSE Win[column]
    BY <1>6
  <1>8. paid' = [paid EXCEPT ![b] = {IF b \in struck THEN 0 ELSE Win[column]}]
    BY <1>5, <1>7
  <1> HIDE DEF b
  <1> QED
    BY <1>2, <1>3, <1>4, <1>7, <1>8 DEF Promise!Settle

-----------------------------------------------------------------------------
(* LevelInv is kept *)

\* A silent step that leaves what handlers hold, or drops it, and saves only what
\* is at its round's column, if it is active.
LEMMA SilentLevel ==
  ASSUME RoundInv, Silent,
         \A p \in Player : session'[p] = session[p] \/ SessionLevel(p)',
         \A q \in Request : (pc'[q] = pc[q] /\ copy'[q] = copy[q]) \/ RequestLevel(q)'
  PROVE  LevelInv'
  <1>1. ASSUME NEW p \in Player PROVE SessionLevel(p)'
    BY DEF RoundInv, LevelInv, Silent, SessionLevel, AtColumn, IsActive
  <1>2. ASSUME NEW q \in Request PROVE RequestLevel(q)'
    BY DEF RoundInv, LevelInv, Silent, RequestLevel, AtColumn, StruckAt
  <1> QED
    BY <1>1, <1>2 DEF RoundInv, LevelInv, Silent

\* Handlers that stop or move where nothing is known of their round.
LEMMA UnheldLevel ==
  ASSUME RoundInv,
         \/ \E r \in Request :
               \/ BetAcquireLock(r) \/ BetRejected(r) \/ BetAccepted(r) \/ BetRefused(r)
               \/ BetFails(r) \/ BetReleaseLock(r) \/ PlayFails(r)
               \/ SettleRefused(r) \/ SettleFailed(r) \/ RecordRead(r) \/ RecordSave(r)
               \/ RecordFails(r) \/ ClearSession(r) \/ Crash(r)
         \/ \E p \in Player : SessionExpires(p) \/ LockExpires(p)
         \/ CreationStep
         \/ Disconnect
         \/ UNCHANGED vars
  PROVE  LevelInv'
  <1> USE DEF vars, handlerVars, redisVars, dbVars, retryVars, walletVars, roundVars
  <1> DEFINE Elsewhere == {"idle", "bet_check", "bet_debit", "bet_unlock", "settle_failed",
                           "record", "record_save", "clear"}
  <1>1. Silent /\ \A p \in Player : session'[p] \in {session[p], NoSession}
    BY DEF Silent, BetAcquireLock, BetRejected, BetAccepted, BetRefused, BetFails,
           BetReleaseLock, PlayFails, SettleRefused, SettleFailed, RecordRead,
           RecordSave, RecordFails, ClearSession, Crash, SessionExpires, LockExpires,
           CreationStep, CreateRetryJob, CreationFails, Disconnect, RoundInv, HandlerInv,
           TypeOK
  <1>2. \A q \in Request : (pc'[q] = pc[q] /\ copy'[q] = copy[q]) \/ pc'[q] \in Elsewhere
    <2>1. ASSUME NEW r \in Request,
                 \/ BetAcquireLock(r) \/ BetRejected(r) \/ BetAccepted(r) \/ BetRefused(r)
                 \/ BetFails(r) \/ BetReleaseLock(r) \/ PlayFails(r)
                 \/ SettleRefused(r) \/ SettleFailed(r) \/ RecordRead(r) \/ RecordSave(r)
                 \/ RecordFails(r) \/ ClearSession(r) \/ Crash(r)
          PROVE  /\ \E label \in Elsewhere : pc' = [pc EXCEPT ![r] = label]
                 /\ copy' \in {copy, [copy EXCEPT ![r] = NoSession]}
      BY <2>1
         DEF BetAcquireLock, BetRejected, BetAccepted, BetRefused, BetFails,
             BetReleaseLock, PlayFails, SettleRefused, SettleFailed, RecordRead,
             RecordSave, RecordFails, ClearSession, Crash, Goto, Finish
    <2>2. CASE UNCHANGED <<pc, copy>>
      BY <2>2
    <2>3. \/ UNCHANGED <<pc, copy>>
          \/ \E r \in Request, label \in Elsewhere :
                /\ pc' = [pc EXCEPT ![r] = label]
                /\ copy' \in {copy, [copy EXCEPT ![r] = NoSession]}
      BY <2>1 DEF SessionExpires, LockExpires, CreationStep, CreateRetryJob, CreationFails,
                  Disconnect
    <2>4. ASSUME NEW r \in Request, NEW label \in Elsewhere,
                 pc' = [pc EXCEPT ![r] = label],
                 copy' \in {copy, [copy EXCEPT ![r] = NoSession]},
                 NEW q \in Request
          PROVE  (pc'[q] = pc[q] /\ copy'[q] = copy[q]) \/ pc'[q] \in Elsewhere
      <3>1. CASE q = r
        BY <2>4, <3>1 DEF RoundInv, HandlerInv, TypeOK
      <3>2. CASE q # r
        BY <2>4, <3>2 DEF RoundInv, HandlerInv, TypeOK
      <3> QED
        BY <3>1, <3>2
    <2> QED
      BY <2>2, <2>3, <2>4
  <1>3. \A p \in Player : session'[p] = session[p] \/ SessionLevel(p)'
    BY <1>1 DEF SessionLevel, IsActive
  <1>4. \A q \in Request : (pc'[q] = pc[q] /\ copy'[q] = copy[q]) \/ RequestLevel(q)'
    BY <1>2 DEF RequestLevel
  <1> QED
    BY <1>1, <1>3, <1>4, SilentLevel

\* A session moves between Redis and a handler.
LEMMA MovingLevel ==
  ASSUME RoundInv, NEW r \in Request,
         \/ CreatePlacement(r) \/ BetSaveSession(r) \/ CashOutSave(r)
         \/ ReadSession(r, "step") \/ ReadSession(r, "cashout")
  PROVE  LevelInv'
  <1> USE DEF vars, handlerVars, redisVars, dbVars, retryVars, walletVars, roundVars, Goto
  <1> DEFINE p == PlayerOf[r]
  <1>1. /\ pc \in [Request -> {"idle"} \cup BetPC \cup PlayPC]
        /\ copy \in [Request -> Session \cup {NoSession}]
        /\ session \in [Player -> Session \cup {NoSession}]
        /\ p \in Player
        /\ RequestLevel(r) /\ SessionLevel(p) /\ RequestSound(r)
    BY ConstantsAssumption DEF RoundInv, HandlerInv, TypeOK, LevelInv, SoloInv
  <1>2. Silent
    BY DEF Silent, CreatePlacement, BetSaveSession, CashOutSave, ReadSession
  <1>3. CASE CreatePlacement(r)
    <2>1. /\ pc[r] = "bet_row" /\ pc' = [pc EXCEPT ![r] = "bet_save"]
          /\ UNCHANGED <<copy, session, passed, struck>>
      BY <1>3 DEF CreatePlacement
    <2>2. RequestLevel(r)'
      BY <1>1, <2>1 DEF RequestLevel, AtColumn
    <2> QED
      BY <1>1, <1>2, <2>1, <2>2, SilentLevel
  <1>4. CASE BetSaveSession(r)
    <2>1. /\ pc[r] = "bet_save" /\ pc' = [pc EXCEPT ![r] = "bet_unlock"]
          /\ session' = [session EXCEPT ![p] = copy[r]]
          /\ copy' = [copy EXCEPT ![r] = NoSession]
          /\ UNCHANGED <<passed, struck>>
      BY <1>4 DEF BetSaveSession
    <2>2. SessionLevel(p)' /\ RequestLevel(r)'
      BY <1>1, <2>1 DEF SessionLevel, RequestLevel, AtColumn
    <2> QED
      BY <1>1, <1>2, <2>1, <2>2, SilentLevel
  <1>5. CASE CashOutSave(r)
    <2> DEFINE new == [copy[r] EXCEPT !.active = FALSE]
    <2>1. pc[r] = "cashout" /\ copy[r] \in Session
      BY <1>5 DEF CashOutSave, RoundInv, HandlerInv, CopyHeld, PlayPC
    <2>2. /\ pc' = [pc EXCEPT ![r] = "settle"]
          /\ session' = [session EXCEPT ![p] = new] /\ copy' = [copy EXCEPT ![r] = new]
          /\ UNCHANGED <<passed, struck>>
      BY <1>5 DEF CashOutSave
    <2>3. /\ new.bet = copy[r].bet /\ new.step = copy[r].step
          /\ new.amount = copy[r].amount /\ ~new.active
      BY <2>1 DEF Session
    <2>4. AtColumn(copy[r]) /\ copy[r].bet \notin struck
      BY <1>1, <2>1 DEF RequestLevel, RequestSound, Running
    <2> HIDE DEF new
    <2>5. SessionLevel(p)' /\ RequestLevel(r)'
      BY <1>1, <2>2, <2>3, <2>4 DEF SessionLevel, RequestLevel, AtColumn, IsActive
    <2> QED
      BY <1>1, <1>2, <2>2, <2>5, SilentLevel
  <1>6. ASSUME NEW label \in {"step", "cashout"}, ReadSession(r, label)
        PROVE  LevelInv'
    <2>1. /\ pc' = [pc EXCEPT ![r] = label] /\ IsActive(session[p])
          /\ copy' = [copy EXCEPT ![r] = session[p]]
          /\ UNCHANGED <<session, passed, struck>>
      BY <1>6 DEF ReadSession
    <2>2. RequestLevel(r)'
      BY <1>1, <2>1 DEF SessionLevel, RequestLevel, AtColumn
    <2> QED
      BY <1>1, <1>2, <2>1, <2>2, SilentLevel
  <1> QED
    BY <1>3, <1>4, <1>5, <1>6

\* A new round has crossed nothing.
LEMMA BetDebitLevel ==
  ASSUME RoundInv, NEW r \in Request, BetDebit(r)
  PROVE  LevelInv'
  <1>1. PICK b \in Bet \ debited :
           /\ debited' = debited \cup {b}
           /\ \/ copy' = [copy EXCEPT ![r] = NewSession(b)] /\ pc' = [pc EXCEPT ![r] = "bet_row"]
              \/ pc' = [pc EXCEPT ![r] = "bet_unlock"] /\ copy' = copy
    BY DEF BetDebit, Goto
  <1>2. UNCHANGED <<session, passed, struck>>
    BY DEF BetDebit, redisVars, roundVars
  <1>3. /\ pc \in [Request -> {"idle"} \cup BetPC \cup PlayPC]
        /\ copy \in [Request -> Session \cup {NoSession}]
    BY DEF RoundInv, HandlerInv, TypeOK
  <1>4. passed[b] = 0 .. InitialStep
    <2>1. passed[b] = {}
      BY DEF RoundInv, LevelInv
    <2>2. 0 .. InitialStep = {}
      BY DEF InitialStep
    <2> QED
      BY <2>1, <2>2
  <1>5. RequestLevel(r)'
    BY <1>1, <1>2, <1>3, <1>4, NewSessionType DEF RequestLevel, AtColumn
  <1>6. ASSUME NEW q \in Request \ {r} PROVE RequestLevel(q)'
    <2>1. pc'[q] = pc[q] /\ copy'[q] = copy[q] /\ RequestLevel(q)
      BY <1>1, <1>3 DEF RoundInv, LevelInv
    <2> QED
      BY <1>2, <2>1 DEF RequestLevel, AtColumn, StruckAt
  <1>7. ASSUME NEW p \in Player PROVE SessionLevel(p)'
    BY <1>2 DEF RoundInv, LevelInv, SessionLevel, AtColumn, IsActive
  <1> QED
    BY <1>1, <1>2, <1>5, <1>6, <1>7 DEF RoundInv, LevelInv

\* The agent's answer moves no column.
LEMMA AcceptedLevel ==
  ASSUME RoundInv, NEW r \in Request, SettleAccepted(r)
  PROVE  LevelInv'
  <1>1. PICK label \in {"record", "settle_failed"} : pc' = [pc EXCEPT ![r] = label]
    BY DEF SettleAccepted, Goto
  <1>2. UNCHANGED <<copy, session, debited, passed, struck>>
    BY DEF SettleAccepted, redisVars, roundVars
  <1>3. ASSUME NEW q \in Request PROVE RequestLevel(q)'
    <2>1. RequestLevel(q) /\ pc'[q] \in {pc[q], "record", "settle_failed"}
      BY <1>1 DEF RoundInv, LevelInv, HandlerInv, TypeOK
    <2> QED
      BY <1>2, <2>1 DEF RequestLevel, AtColumn, StruckAt
  <1>4. ASSUME NEW p \in Player PROVE SessionLevel(p)'
    BY <1>2 DEF RoundInv, LevelInv, SessionLevel, AtColumn, IsActive
  <1> QED
    BY <1>2, <1>3, <1>4 DEF RoundInv, LevelInv

\* The column a step crosses, or is struck at, is the next one of its round; what
\* the other players hold are other rounds.
LEMMA StepSaveLevel ==
  ASSUME RoundInv, NEW r \in Request, NEW hit \in BOOLEAN, StepSave(r, hit)
  PROVE  LevelInv'
  <1> DEFINE p == PlayerOf[r]
             s == copy[r]
             b == s.bet
             line == s.step + 1
             last == line = Columns - 1
             new == [s EXCEPT !.step = line,
                              !.amount = IF hit THEN 0 ELSE Win[line],
                              !.active = ~(hit \/ last)]
  <1>1. pc[r] = "step"
    BY DEF StepSave
  <1>2. /\ s \in Session /\ b \in Bet /\ s.step \in Steps
        /\ b \notin struck /\ passed[b] = 0 .. s.step
        /\ p \in Player /\ PlayerOf[b] = p
    BY <1>1, InPlayFacts, ConstantsAssumption
       DEF RequestLevel, AtColumn, RequestSound, Owned
  <1>3. /\ new.bet = b /\ new.step = line /\ new.active = ~(hit \/ last)
        /\ new.amount = IF hit THEN 0 ELSE Win[line]
    BY <1>2 DEF Session
  <1>4. /\ session' = [session EXCEPT ![p] = new]
        /\ IF hit \/ last
             THEN copy' = [copy EXCEPT ![r] = new] /\ pc' = [pc EXCEPT ![r] = "settle"]
             ELSE /\ copy' = [copy EXCEPT ![r] = NoSession]
                  /\ pc' = [pc EXCEPT ![r] = "idle"]
        /\ passed' = IF hit THEN passed ELSE [passed EXCEPT ![b] = @ \cup {line}]
        /\ struck' = IF hit THEN struck \cup {b} ELSE struck
        /\ debited' = debited
    BY DEF StepSave, Goto, Finish, walletVars
  <1>5. (0 .. s.step) \cup {line} = 0 .. line /\ line - 1 = s.step
    BY SMTT(30), <1>2, ConstantsAssumption DEF Steps, InitialStep
  <1>6. /\ pc \in [Request -> {"idle"} \cup BetPC \cup PlayPC]
        /\ copy \in [Request -> Session \cup {NoSession}]
        /\ session \in [Player -> Session \cup {NoSession}]
        /\ passed \in [Bet -> SUBSET Column]
    BY DEF RoundInv, HandlerInv, TypeOK
  <1>7. b \in debited
    BY <1>1, InPlayFacts
  <1> HIDE DEF new, last, line, b, s
  <1>8. /\ passed'[b] = IF hit THEN 0 .. s.step ELSE 0 .. line
        /\ \A c \in Bet \ {b} : /\ passed'[c] = passed[c]
                                /\ c \in struck' <=> c \in struck
    BY <1>2, <1>4, <1>5, <1>6
  <1>9. SessionLevel(p)'
    <2>1. session'[p] = new
      BY <1>2, <1>4, <1>6
    <2> QED
      BY <1>3, <1>8, <2>1 DEF SessionLevel, AtColumn, IsActive
  <1>10. RequestLevel(r)'
    <2>1. CASE hit \/ last
      <3>1. copy'[r] = new /\ pc'[r] = "settle"
        BY <1>4, <1>6, <2>1
      <3>2. CASE hit
        BY <1>3, <1>4, <1>5, <1>8, <3>1, <3>2 DEF RequestLevel, StruckAt
      <3>3. CASE ~hit
        BY <1>2, <1>3, <1>4, <1>8, <3>1, <3>3 DEF RequestLevel, AtColumn
      <3> QED
        BY <3>2, <3>3
    <2>2. CASE ~(hit \/ last)
      BY <1>4, <1>6, <2>2 DEF RequestLevel
    <2> QED
      BY <2>1, <2>2
  <1>11. ASSUME NEW q \in Request \ {r} PROVE RequestLevel(q)'
    <2>1. pc'[q] = pc[q] /\ copy'[q] = copy[q] /\ RequestLevel(q) /\ RequestSound(q)
      BY <1>4, <1>6 DEF RoundInv, LevelInv, SoloInv
    <2>2. CASE PlayerOf[q] = p
      BY <1>1, <2>1, <2>2 DEF RoundInv, SoloInv, PlaysAlone, PlayPC, RequestLevel
    <2>3. CASE PlayerOf[q] # p
      <3>1. pc[q] \in PlayPC \cup {"bet_row", "bet_save"} =>
              copy[q].bet \in Bet /\ copy[q].bet # b
        BY <1>2, <2>1, <2>3, ConstantsAssumption
           DEF RoundInv, HandlerInv, CopyHeld, Session, RequestSound, Owned
      <3> QED
        BY <1>8, <2>1, <3>1 DEF RequestLevel, AtColumn, StruckAt, PlayPC
    <2> QED
      BY <2>2, <2>3
  <1>12. ASSUME NEW o \in Player \ {p} PROVE SessionLevel(o)'
    <2>1. session'[o] = session[o] /\ SessionLevel(o) /\ SessionSound(o)
      BY <1>4, <1>6 DEF RoundInv, LevelInv, SoloInv
    <2>2. session[o] # NoSession => session[o].bet \in Bet /\ session[o].bet # b
      BY <1>2, <1>6, <2>1 DEF SessionSound, Owned, Session
    <2> QED
      BY <1>8, <2>1, <2>2 DEF SessionLevel, AtColumn, IsActive
  <1>13. \A c \in Bet \ debited' : passed'[c] = {}
    BY <1>4, <1>7, <1>8 DEF RoundInv, LevelInv
  <1> QED
    BY <1>9, <1>10, <1>11, <1>12, <1>13 DEF LevelInv

LEMMA LevelStep == RoundInv /\ [Next]_vars => LevelInv'
  <1> SUFFICES ASSUME RoundInv, [Next]_vars PROVE LevelInv'
    OBVIOUS
  <1>1. ASSUME NEW r \in Request, Start(r) PROVE LevelInv'
    BY <1>1, UnheldLevel, MovingLevel DEF Start, CashOutRead, StepRead
  <1>2. ASSUME NEW r \in Request, BetFlow(r) PROVE LevelInv'
    BY <1>2, UnheldLevel, MovingLevel, BetDebitLevel DEF BetFlow
  <1>3. ASSUME NEW r \in Request, PlayFlow(r) PROVE LevelInv'
    BY <1>3, UnheldLevel, MovingLevel, StepSaveLevel DEF PlayFlow
  <1>4. ASSUME NEW r \in Request, SettleFlow(r) PROVE LevelInv'
    BY <1>4, UnheldLevel, AcceptedLevel DEF SettleFlow
  <1> QED
    BY <1>1, <1>2, <1>3, <1>4, UnheldLevel DEF Next, Continue

-----------------------------------------------------------------------------
(* The refinement *)

LEMMA PromiseInit == Init => Promise!Init
  BY DEF Init, Promise!Init

LEMMA PromiseStep == RoundInv /\ [Next]_vars => [Promise!Next]_(Promise!vars)
  <1> SUFFICES ASSUME RoundInv, [Next]_vars PROVE [Promise!Next]_(Promise!vars)
    OBVIOUS
  <1>1. Silent => UNCHANGED Promise!vars
    BY DEF Silent, Promise!vars
  <1>2. ASSUME NEW r \in Request, BetDebit(r) \/ SettleAccepted(r) PROVE Promise!Next
    BY <1>2, DebitStakes, AcceptedSettles DEF Promise!Next
  <1>3. ASSUME NEW r \in Request, NEW hit \in BOOLEAN, StepSave(r, hit)
        PROVE  Promise!Next
    BY <1>3, StepCrossesOrStrikes DEF Promise!Next
  <1> QED
    BY <1>1, <1>2, <1>3, SilentSteps

\* A client that waits for the answer to a step or a cash-out plays the rounds it
\* was promised: performBetFlow, performStepFlow and performCashOutFlow implement
\* Round, whatever fails, expires or is flushed and whatever its bets overlap.
THEOREM RoundsPlayedAsPromised ==
  ASSUME "play" \in Solo
  PROVE  Spec => PlayedAsPromised
  <1>1. Init => LevelInv
    BY LevelInit
  <1>2. HandlerInv /\ SoloInv /\ LevelInv /\ [Next]_vars => LevelInv'
    BY LevelStep DEF RoundInv
  <1>3. HandlerInv /\ SoloInv /\ LevelInv /\ [Next]_vars =>
          [Promise!Next]_(Promise!vars)
    BY PromiseStep DEF RoundInv
  <1> QED
    BY <1>1, <1>2, <1>3, PromiseInit, HandlersWellFormed, SoloInvariant, PTL
       DEF Spec, PlayedAsPromised, Promise!Spec

-----------------------------------------------------------------------------
(* A stake is not taken while a round is in play *)

\* A play starts when nothing else of its player is in flight, and a bet when no play is.
LEMMA PlaysAloneStep ==
  ASSUME "play" \in Solo, TypeOK, PlaysAlone, [Next]_vars
  PROVE  PlaysAlone'
  <1> USE ConstantsAssumption DEF TypeOK, Goto, Finish, handlerVars
  <1>1. ASSUME NEW r \in Request, NEW label,
               pc' = [pc EXCEPT ![r] = label],
               \/ label = "idle"
               \/ pc[r] \in PlayPC
               \/ pc[r] \in BetPC /\ label \in BetPC
               \/ MayStart(r, "play")
               \/ MayStart(r, "bet") /\ label \in BetPC
        PROVE  PlaysAlone'
    <2>1. BetPC \cap PlayPC = {} /\ "idle" \notin BetPC \cup PlayPC
      BY DEF BetPC, PlayPC
    <2>2. \A q \in Request \ {r} : pc'[q] = pc[q]
      BY <1>1
    <2>3. CASE MayStart(r, "play")
      <3>1. \A q \in Request : PlayerOf[q] = PlayerOf[r] => pc[q] = "idle"
        BY <2>3 DEF MayStart, InFlight
      <3> QED
        BY <2>1, <2>2, <3>1 DEF PlaysAlone
    <2>4. CASE MayStart(r, "bet") /\ label \in BetPC
      <3>1. \A q \in Request : PlayerOf[q] = PlayerOf[r] => pc[q] \notin PlayPC
        BY <2>1, <2>4 DEF MayStart, InFlight, Kind
      <3> QED
        BY <1>1, <2>1, <2>2, <2>4, <3>1 DEF PlaysAlone
    <2> QED
      BY <1>1, <2>1, <2>2, <2>3, <2>4 DEF PlaysAlone
  <1>2. ASSUME NEW r \in Request, Start(r) PROVE PlaysAlone'
    <2>1. BetAcquireLock(r) => MayStart(r, "bet") /\ pc' = [pc EXCEPT ![r] = "bet_check"]
      BY DEF BetAcquireLock
    <2>2. ~BetAcquireLock(r) => MayStart(r, "play") /\ \E label : pc' = [pc EXCEPT ![r] = label]
      BY <1>2 DEF Start, CashOutRead, StepRead, ReadSession
    <2> QED
      BY <1>1, <2>1, <2>2 DEF BetPC
  <1>3. ASSUME NEW r \in Request, BetFlow(r) PROVE PlaysAlone'
    <2>1. /\ pc[r] \in BetPC
          /\ \E label \in BetPC \cup {"idle"} : pc' = [pc EXCEPT ![r] = label]
      BY <1>3 DEF BetFlow, BetRejected, BetAccepted, BetDebit, BetRefused, CreatePlacement,
                  BetSaveSession, BetFails, BetReleaseLock, BetPC
    <2> QED
      BY <1>1, <2>1
  <1>4. ASSUME NEW r \in Request, PlayFlow(r) \/ SettleFlow(r) PROVE PlaysAlone'
    <2>1. pc[r] \in PlayPC /\ \E label : pc' = [pc EXCEPT ![r] = label]
      BY <1>4 DEF PlayFlow, StepSave, CashOutSave, PlayFails, SettleFlow, SettleAccepted,
                  SettleRefused, SettleFailed, RecordRead, RecordSave, RecordFails,
                  ClearSession, PlayPC
    <2> QED
      BY <1>1, <2>1
  <1>5. ASSUME NEW r \in Request, Crash(r) PROVE PlaysAlone'
    BY <1>1, <1>5 DEF Crash
  <1>6. CASE (\E p \in Player : SessionExpires(p) \/ LockExpires(p)) \/ CreationStep
               \/ Disconnect \/ UNCHANGED vars
    BY <1>6 DEF SessionExpires, LockExpires, CreationStep, CreateRetryJob, CreationFails,
                Disconnect, vars, PlaysAlone
  <1> QED
    BY <1>2, <1>3, <1>4, <1>5, <1>6 DEF Next, Continue

\* A flow that waits for the agent finds the session as it has seen it: nobody else of
\* its player bets, by the lock, and nobody plays, by the client.
LEMMA DebitGuardedStep ==
  ASSUME HandlerInv, PlaysAlone, FlowOwnsLock, DebitGuarded, [Next]_vars
  PROVE  DebitGuarded'
  <1> SUFFICES ASSUME NEW r \in Request, pc'[r] = "bet_debit"
               PROVE  ~IsActive(session'[PlayerOf[r]])
    BY DEF DebitGuarded
  <1>0. PlayerOf[r] \in Player
    BY ConstantsAssumption
  <1>1. pc[r] \in BetPC /\ ~IsActive(session[PlayerOf[r]])
    <2>1. CASE pc[r] = "bet_debit"
      BY <2>1 DEF DebitGuarded, BetPC
    <2>2. CASE pc[r] # "bet_debit"
      <3> USE DEF HandlerInv, TypeOK, Goto, Finish, handlerVars
      <3>1. ASSUME NEW q \in Request, Start(q) PROVE FALSE
        BY <2>2, <3>1 DEF Start, BetAcquireLock, CashOutRead, StepRead, ReadSession
      <3>2. ASSUME NEW q \in Request, BetFlow(q) PROVE q = r /\ BetAccepted(q)
        BY <2>2, <3>2 DEF BetFlow, BetRejected, BetAccepted, BetDebit, BetRefused,
                          CreatePlacement, BetSaveSession, BetFails, BetReleaseLock
      <3>3. ASSUME NEW q \in Request, PlayFlow(q) PROVE FALSE
        BY <2>2, <3>3 DEF PlayFlow, StepSave, CashOutSave, PlayFails
      <3>4. ASSUME NEW q \in Request, SettleFlow(q) PROVE FALSE
        BY <2>2, <3>4 DEF SettleFlow, SettleAccepted, SettleRefused, SettleFailed, RecordRead,
                          RecordSave, RecordFails, ClearSession
      <3>5. ~ \/ \E q \in Request : Crash(q)
              \/ \E p \in Player : SessionExpires(p) \/ LockExpires(p)
              \/ CreationStep \/ Disconnect \/ UNCHANGED vars
        BY <2>2 DEF Crash, SessionExpires, LockExpires, CreationStep, CreateRetryJob,
                    CreationFails, Disconnect, vars
      <3> QED
        BY <3>1, <3>2, <3>3, <3>4, <3>5 DEF Next, Continue, BetAccepted, BetPC
    <2> QED
      BY <2>1, <2>2
  <1>2. CASE session'[PlayerOf[r]] \in {session[PlayerOf[r]], NoSession}
    BY <1>1, <1>2 DEF IsActive
  <1>3. CASE session'[PlayerOf[r]] \notin {session[PlayerOf[r]], NoSession}
    <2>1. PICK q \in Request :
             /\ PlayerOf[q] = PlayerOf[r]
             /\ BetSaveSession(q) \/ CashOutSave(q) \/ \E hit \in BOOLEAN : StepSave(q, hit)
      BY <1>0, <1>3, SessionWriters DEF HandlerInv
    <2>2. CASE BetSaveSession(q)
      <3>1. q = r
        BY <1>1, <2>1, <2>2 DEF BetSaveSession, FlowOwnsLock, BetPC
      <3> QED
        BY <2>2, <3>1 DEF BetSaveSession, Goto, HandlerInv, TypeOK
    <2>3. CASE CashOutSave(q) \/ \E hit \in BOOLEAN : StepSave(q, hit)
      <3>1. pc[q] \in PlayPC /\ q # r /\ pc[r] # "idle"
        BY <1>1, <2>3 DEF CashOutSave, StepSave, PlayPC, BetPC
      <3> QED
        BY <2>1, <3>1 DEF PlaysAlone
    <2> QED
      BY <2>1, <2>2, <2>3
  <1> QED
    BY <1>2, <1>3

LEMMA GuardedDebits ==
  ASSUME DebitGuarded, [Next]_vars, NEW b \in debited' \ debited
  PROVE  ~IsActive(session[PlayerOf[b]])
  <1>1. PICK r \in Request : BetDebit(r)
    BY SilentSteps DEF Silent, SettleAccepted, StepSave, walletVars
  <1> QED
    BY <1>1 DEF BetDebit, DebitGuarded

\* A client that overlaps no step or cash-out with another request is charged no stake
\* while a round of its is in play, as long as no flow outlives its lock.
THEOREM NoStakeInPlay ==
  ASSUME "play" \in Solo, "slow" \notin Faults, "flush" \notin Faults
  PROVE  Spec => NoDebitInPlay
  <1>1. Init => FlowOwnsLock /\ DebitGuarded
    BY DEF Init, FlowOwnsLock, DebitGuarded, BetPC
  <1>2. HandlerInv /\ SoloInv /\ FlowOwnsLock /\ DebitGuarded /\ [Next]_vars =>
          FlowOwnsLock' /\ DebitGuarded'
    BY FlowOwnsLockStep, DebitGuardedStep DEF HandlerInv, SoloInv
  <1>3. DebitGuarded /\ [Next]_vars =>
          [\A b \in debited' \ debited : ~IsActive(session[PlayerOf[b]])]_vars
    BY GuardedDebits
  <1> QED
    BY <1>1, <1>2, <1>3, HandlersWellFormed, SoloInvariant, PTL DEF Spec, NoDebitInPlay

=============================================================================
