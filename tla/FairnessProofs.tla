---------------------------- MODULE FairnessProofs ----------------------------
(***************************************************************************)
(* Theorems about Fairness, for every value of its constants.              *)
(***************************************************************************)
EXTENDS Fairness, TLAPS

LEMMA HistoryInit == SeedsInit => HistoryInv
  BY SeedsAssumption
     DEF SeedsInit, HistoryInv, SeedsTypeOK, SeedsHeld, SessionHeld, SessionsUnaltered,
         Unaltered, HistoryShowsPlayed, NoPromise

\* Seeds stay seeds when the server or the client replaces one of them.
LEMMA SeedsUpdate ==
  ASSUME NEW x \in Seeds
  PROVE  /\ \A s \in ServerSeed : [x EXCEPT !.server = s, !.nonce = @ + 1] \in Seeds
         /\ \A u \in UserSeed : [x EXCEPT !.user = u] \in Seeds
  <1>1. x.nonce + 1 \in Nat
    BY DEF Seeds
  <1>2. \A s \in ServerSeed : [x EXCEPT !.server = s, !.nonce = @ + 1] \in Seeds
    BY <1>1 DEF Seeds
  <1>3. \A u \in UserSeed : [x EXCEPT !.user = u] \in Seeds
    BY DEF Seeds
  <1> QED
    BY <1>2, <1>3

\* A socket, a client or Redis: no session is made and no row is written.
LEMMA ConnectionHistory ==
  ASSUME HistoryInv,
         \/ \E r \in Request : Connection(r)
         \/ Disconnect \/ OthersFlush \/ KeyExpires \/ LockExpires \/ Crash
         \/ UNCHANGED vars
  PROVE  HistoryInv'
  <1> USE SeedsAssumption
          DEF HistoryInv, SeedsTypeOK, SeedsHeld, SessionHeld, SessionsUnaltered,
              Unaltered, HistoryShowsPlayed, NoPromise, At, Goto, Stop, Finish, FlushAll,
              requestVars, redisVars, historyVars, Task, Stage
  <1>1. ASSUME NEW r \in Request,
               Connect(r) \/ Verified(r) \/ Admitted(r) \/ WelcomeFails(r) \/ Welcome(r)
        PROVE  HistoryInv'
    BY <1>1 DEF Connect, Verified, Admitted, WelcomeFails, Welcome
  <1>2. ASSUME NEW r \in Request, Refused(r) PROVE HistoryInv'
    BY <1>2 DEF Refused
  <1>3. CASE Disconnect \/ OthersFlush
    BY <1>3 DEF Disconnect, OthersFlush
  <1>4. CASE KeyExpires \/ LockExpires
    BY <1>4 DEF KeyExpires, LockExpires
  <1>5. CASE Crash
    BY <1>5 DEF Crash
  <1>6. CASE UNCHANGED vars
    BY <1>6 DEF vars
  <1> QED
    BY <1>1, <1>2, <1>3, <1>4, <1>5, <1>6 DEF Connection

\* The record of the seeds is fetched, made, shown and chosen: no session changes.
LEMMA SeedFlowHistory ==
  ASSUME HistoryInv, NEW r \in Request, SeedFlow(r)
  PROVE  HistoryInv'
  <1> USE SeedsAssumption
          DEF HistoryInv, SeedsTypeOK, SeedsHeld, SessionHeld, SessionsUnaltered,
              Unaltered, HistoryShowsPlayed, NoPromise, At, Goto, Stop, Finish, Begin,
              redisVars, historyVars, Task, Stage
  <1>1. CASE GetFairness(r)
    <2>1. CASE record # None
      BY <1>1, <2>1 DEF GetFairness
    <2>2. CASE record = None
      <3>1. PICK s \in ServerSeed :
               local' = [local EXCEPT ![r] =
                           [user |-> Generated, server |-> s, nonce |-> 0]]
        BY <1>1, <2>2 DEF GetFairness
      <3>2. [user |-> Generated, server |-> s, nonce |-> 0] \in Seeds
        BY DEF Seeds
      <3> QED
        BY <1>1, <2>2, <3>1, <3>2 DEF GetFairness
    <2> QED
      BY <2>1, <2>2
  <1>2. CASE CreateFairness(r)
    BY <1>2 DEF CreateFairness
  <1>3. CASE FairnessFails(r)
    BY <1>3 DEF FairnessFails
  <1>4. CASE AskSeeds(r)
    BY <1>4 DEF AskSeeds
  <1>5. CASE GetGameSeeds(r)
    BY <1>5 DEF GetGameSeeds, Seeds
  <1>6. CASE ChooseSeed(r)
    BY <1>6 DEF ChooseSeed
  <1>7. ASSUME NEW u \in UserSeed, SetUserSeed(r, u) PROVE HistoryInv'
    BY ZenonT(60), <1>7, SeedsUpdate DEF SetUserSeed
  <1> QED
    BY <1>1, <1>2, <1>3, <1>4, <1>5, <1>6, <1>7 DEF SeedFlow

\* Only a saved bet begins a round, and none that has begun.
LEMMA BetFlowHistory ==
  ASSUME HistoryInv, NEW r \in Request, BetFlow(r)
  PROVE  HistoryInv'
  <1> USE SeedsAssumption
          DEF HistoryInv, SeedsTypeOK, SeedsHeld, SessionHeld, SessionsUnaltered,
              Unaltered, HistoryShowsPlayed, At, Goto, Stop, Finish, Begin,
              redisVars, historyVars, Task, Stage
  <1>1. CASE BetAcquireLock(r)
    BY <1>1 DEF BetAcquireLock
  <1>2. CASE BetRejected(r) \/ BetAccepted(r)
    BY <1>2 DEF BetRejected, BetAccepted
  <1>3. CASE BetSaveSession(r)
    <2>1. PICK b \in Round :
             /\ played[b] = None
             /\ session' = [round |-> b, seeds |-> local[r], active |-> TRUE]
             /\ played' = [played EXCEPT ![b] = local[r]]
      BY <1>3 DEF BetSaveSession
    <2>2. local[r] \in Seeds
      BY <1>3 DEF BetSaveSession
    <2>3. session' \in Session /\ session'.round = b /\ session'.seeds = local[r]
      BY <2>1, <2>2 DEF Session
    <2>4. \A x \in Session : Unaltered(x) => x.round # b
      BY <2>1 DEF Session
    <2>5. SessionsUnaltered'
      <3>1. Unaltered(session)'
        BY <2>1, <2>2, <2>3
      <3>2. ASSUME NEW q \in Request PROVE Unaltered(held[q])'
        BY <1>3, <2>1, <2>4 DEF BetSaveSession
      <3> QED
        BY <3>1, <3>2
    <2>6. HistoryShowsPlayed'
      BY <1>3, <2>1 DEF BetSaveSession
    <2>7. SeedsTypeOK' /\ SeedsHeld' /\ SessionHeld'
      BY <1>3, <2>1, <2>2, <2>3 DEF BetSaveSession
    <2> QED
      BY <2>5, <2>6, <2>7
  <1>4. CASE BetReleaseLock(r)
    BY <1>4 DEF BetReleaseLock
  <1> QED
    BY <1>1, <1>2, <1>3, <1>4 DEF BetFlow

\* The end of a round stores the seeds of the session it read, and then rotates.
LEMMA EndFlowHistory ==
  ASSUME HistoryInv, NEW r \in Request, EndFlow(r)
  PROVE  HistoryInv'
  <1> USE SeedsAssumption
          DEF HistoryInv, SeedsTypeOK, SeedsHeld, SessionHeld, SessionsUnaltered,
              Unaltered, HistoryShowsPlayed, At, Goto, Stop, Finish, Begin,
              redisVars, historyVars, Task, Stage
  <1>1. CASE EndRead(r)
    BY <1>1 DEF EndRead
  <1>2. CASE EndSave(r)
    <2>1. held[r] \in Session /\ Unaltered(held[r])
      BY <1>2 DEF EndSave
    <2>2. /\ [held[r] EXCEPT !.active = FALSE] \in Session
          /\ Unaltered([held[r] EXCEPT !.active = FALSE])
      BY <2>1 DEF Session
    <2> QED
      BY <1>2, <2>2 DEF EndSave
  <1>3. CASE RecordSettlement(r)
    <2>1. held[r].round \in Round /\ held[r].seeds \in Seeds
             /\ played[held[r].round] = held[r].seeds
      BY <1>3 DEF RecordSettlement, Session
    <2> QED
      BY <1>3, <2>1 DEF RecordSettlement
  <1>4. CASE SettlementFails(r) \/ ClearSession(r)
    BY <1>4 DEF SettlementFails, ClearSession
  <1>5. CASE RotateSeeds(r)
    <2>1. PICK s \in ServerSeed : record' = [local[r] EXCEPT !.server = s, !.nonce = @ + 1]
      BY <1>5 DEF RotateSeeds
    <2>2. record' \in Seeds
      BY <1>5, <2>1, SeedsUpdate DEF RotateSeeds
    <2> QED
      BY <1>5, <2>2 DEF RotateSeeds
  <1> QED
    BY <1>1, <1>2, <1>3, <1>4, <1>5 DEF EndFlow

LEMMA HistoryInvariant == SeedsSpec => []HistoryInv
  <1>1. HistoryInv /\ [SeedsNext]_vars => HistoryInv'
    BY ConnectionHistory, SeedFlowHistory, BetFlowHistory, EndFlowHistory DEF SeedsNext
  <1> QED
    BY <1>1, HistoryInit, PTL DEF SeedsSpec

\* Type correctness of the seeds, the sessions that hold them and the socket.
THEOREM SeedsTypeCorrect == SeedsSpec => []SeedsTypeOK
  <1>1. HistoryInv => SeedsTypeOK
    BY DEF HistoryInv
  <1> QED
    BY <1>1, HistoryInvariant, PTL

\* The seeds of the history are those of the round, whatever overlaps, fails,
\* disconnects or is flushed: fairness data never comes from another round.
THEOREM HistoryIsHonest == SeedsSpec => []HistoryShowsPlayed
  <1>1. HistoryInv => HistoryShowsPlayed
    BY DEF HistoryInv
  <1> QED
    BY <1>1, HistoryInvariant, PTL

-----------------------------------------------------------------------------
(* A client that waits for its replies and keeps its connection *)

LEMMA EventsStay == [SeedsNext]_vars => events' = events
  <1> SUFFICES ASSUME [SeedsNext]_vars PROVE events' = events
    OBVIOUS
  <1>1. ASSUME NEW r \in Request, Connection(r) PROVE events' = events
    BY <1>1 DEF Connection, Connect, Verified, Admitted, Refused, WelcomeFails, Welcome
  <1>2. ASSUME NEW r \in Request, SeedFlow(r) PROVE events' = events
    BY <1>2 DEF SeedFlow, GetFairness, CreateFairness, FairnessFails, AskSeeds, GetGameSeeds,
                ChooseSeed, SetUserSeed
  <1>3. ASSUME NEW r \in Request, BetFlow(r) PROVE events' = events
    BY <1>3 DEF BetFlow, BetAcquireLock, BetRejected, BetAccepted, BetSaveSession,
                BetReleaseLock
  <1>4. ASSUME NEW r \in Request, EndFlow(r) PROVE events' = events
    BY <1>4 DEF EndFlow, EndRead, EndSave, RecordSettlement, SettlementFails, RotateSeeds,
                ClearSession
  <1>5. CASE Disconnect \/ OthersFlush \/ KeyExpires \/ LockExpires \/ Crash \/ UNCHANGED vars
    BY <1>5 DEF Disconnect, OthersFlush, KeyExpires, LockExpires, Crash, vars
  <1> QED
    BY <1>1, <1>2, <1>3, <1>4, <1>5 DEF SeedsNext

\* The steps of an activation.
Step(r) == Connection(r) \/ SeedFlow(r) \/ BetFlow(r) \/ EndFlow(r)

\* Nobody else is active when an activation takes a step.
LEMMA StepAlone ==
  ASSUME HistoryInv, Alone, "overlap" \notin events, "drop" \notin events,
         NEW r \in Request, Step(r)
  PROVE  /\ Alone'
         /\ \A q \in Request \ {r} : pc[q] = "idle" /\ pc'[q] = "idle" /\ task'[q] = task[q]
  <1> USE DEF Alone, HistoryInv, SeedsTypeOK, At, Goto, Stop, Finish, Begin, MayStart
  <1>1. \A q \in Request \ {r} : pc[q] = "idle"
    <2>1. r \in live \/ live = {}
      BY DEF Step, Connection, SeedFlow, BetFlow, EndFlow, Connect, Verified, Admitted, Refused,
             WelcomeFails, Welcome, GetFairness, CreateFairness, FairnessFails, AskSeeds,
             GetGameSeeds, ChooseSeed, SetUserSeed, BetAcquireLock, BetRejected, BetAccepted,
             BetSaveSession, BetReleaseLock, EndRead, EndSave, RecordSettlement,
             SettlementFails, RotateSeeds, ClearSession
    <2> QED
      BY <2>1
  <1>2. CASE Connect(r)
    BY <1>1, <1>2 DEF Connect
  <1>3. CASE Connection(r) /\ ~Connect(r)
    BY <1>1, <1>3 DEF Connection, Verified, Admitted, Refused, WelcomeFails, Welcome
  <1>4. CASE AskSeeds(r) \/ ChooseSeed(r) \/ BetAcquireLock(r) \/ EndRead(r)
    BY <1>1, <1>4 DEF AskSeeds, ChooseSeed, BetAcquireLock, EndRead
  <1>5. CASE GetFairness(r) \/ CreateFairness(r) \/ FairnessFails(r)
    BY <1>1, <1>5 DEF GetFairness, CreateFairness, FairnessFails
  <1>6. CASE GetGameSeeds(r) \/ \E u \in UserSeed : SetUserSeed(r, u)
    BY <1>1, <1>6 DEF GetGameSeeds, SetUserSeed
  <1>7. CASE BetRejected(r) \/ BetAccepted(r) \/ BetSaveSession(r) \/ BetReleaseLock(r)
    BY <1>1, <1>7 DEF BetRejected, BetAccepted, BetSaveSession, BetReleaseLock
  <1>8. CASE EndSave(r) \/ RecordSettlement(r) \/ SettlementFails(r) \/ RotateSeeds(r)
               \/ ClearSession(r)
    BY ZenonT(60), <1>1, <1>8 DEF EndSave, RecordSettlement, SettlementFails, RotateSeeds, ClearSession
  <1> QED
    BY <1>2, <1>3, <1>4, <1>5, <1>6, <1>7, <1>8 DEF Step, SeedFlow, BetFlow, EndFlow

LEMMA OthersAlone ==
  ASSUME HistoryInv, Alone, "drop" \notin events,
         Disconnect \/ OthersFlush \/ KeyExpires \/ LockExpires \/ Crash \/ UNCHANGED vars
  PROVE  Alone'
  BY DEF Alone, HistoryInv, SeedsTypeOK, Disconnect, OthersFlush, KeyExpires, LockExpires, Crash,
         vars, requestVars

\* A new server seed is not in the history.
LEMMA NewSeedUnshown ==
  ASSUME HistoryInv, NEW s, NewSeed(s)
  PROVE  ~Shown(s)
  <1> SUFFICES ASSUME NEW b \in Round, row[b] # None, row[b].server = s PROVE FALSE
    BY DEF Shown
  <1>1. played[b] # None /\ played[b].server = s
    BY DEF HistoryInv, HistoryShowsPlayed
  <1>2. s \in InUse
    BY <1>1 DEF InUse
  <1> QED
    BY <1>2 DEF NewSeed

-----------------------------------------------------------------------------
(* Seeds that the history shows are not played *)

LEMMA ConnectionSecret ==
  ASSUME HistoryInv, SecretInv, events \subseteq {"flush", "expire"}, NEW r \in Request,
         Connection(r)
  PROVE  SecretInv'
  <1> USE DEF HistoryInv, SeedsTypeOK, SecretInv, SessionEnded, Playing, Rotating, Uses, Shown,
              At, Goto, Stop, Finish, redisVars, historyVars
  <1>1. /\ Alone'
        /\ \A q \in Request \ {r} : pc[q] = "idle" /\ pc'[q] = "idle" /\ task'[q] = task[q]
    BY StepAlone DEF Step
  <1>2. CASE Connect(r)
    BY <1>1, <1>2 DEF Connect
  <1>3. CASE Verified(r) \/ Admitted(r)
    BY <1>1, <1>3 DEF Verified, Admitted
  <1>4. CASE Welcome(r)
    BY <1>1, <1>4 DEF Welcome
  <1> QED
    BY <1>2, <1>3, <1>4 DEF Connection, Refused, WelcomeFails

LEMMA SeedFlowSecret ==
  ASSUME HistoryInv, SecretInv, events \subseteq {"flush", "expire"}, NEW r \in Request,
         SeedFlow(r)
  PROVE  SecretInv'
  <1> USE DEF HistoryInv, SeedsTypeOK, SecretInv, SessionEnded, Playing, Rotating, Uses,
              At, Goto, Stop, Finish, redisVars, historyVars
  <1>1. /\ Alone'
        /\ \A q \in Request \ {r} : pc[q] = "idle" /\ pc'[q] = "idle" /\ task'[q] = task[q]
    BY StepAlone DEF Step
  <1>2. \A s : Shown(s)' <=> Shown(s)
    BY DEF SeedFlow, GetFairness, CreateFairness, FairnessFails, AskSeeds, GetGameSeeds,
           ChooseSeed, SetUserSeed, Shown
  <1>3. CASE GetFairness(r)
    <2>1. CASE record # None
      BY <1>1, <1>2, <1>3, <2>1 DEF GetFairness
    <2>2. CASE record = None
      <3>1. PICK s \in ServerSeed :
               /\ NewSeed(s)
               /\ local' = [local EXCEPT ![r] = [user |-> Generated, server |-> s, nonce |-> 0]]
        BY <1>3, <2>2 DEF GetFairness
      <3>2. ~Shown(s)
        BY <3>1, NewSeedUnshown
      <3>3. local'[r].server = s
        BY <3>1
      <3> QED
        BY <1>1, <1>2, <1>3, <2>2, <3>2, <3>3 DEF GetFairness
    <2> QED
      BY <2>1, <2>2
  <1>4. CASE CreateFairness(r)
    BY <1>1, <1>2, <1>4 DEF CreateFairness
  <1>5. CASE AskSeeds(r) \/ ChooseSeed(r)
    BY <1>1, <1>2, <1>5 DEF AskSeeds, ChooseSeed, Begin, MayStart
  <1>6. CASE GetGameSeeds(r)
    BY <1>1, <1>2, <1>6 DEF GetGameSeeds
  <1>7. ASSUME NEW u \in UserSeed, SetUserSeed(r, u) PROVE SecretInv'
    <2>1. record'.server = local[r].server /\ ~Shown(local[r].server)
      BY <1>7 DEF SetUserSeed, SeedsHeld, Seeds
    <2> QED
      BY <1>1, <1>2, <1>7, <2>1 DEF SetUserSeed
  <1> QED
    BY <1>3, <1>4, <1>5, <1>6, <1>7 DEF SeedFlow, FairnessFails

LEMMA BetFlowSecret ==
  ASSUME HistoryInv, SecretInv, events \subseteq {"flush", "expire"}, NEW r \in Request,
         BetFlow(r)
  PROVE  SecretInv'
  <1> USE DEF HistoryInv, SeedsTypeOK, SecretInv, SessionEnded, Playing, Rotating, Uses,
              At, Goto, Stop, Finish, redisVars, historyVars
  <1>1. /\ Alone'
        /\ \A q \in Request \ {r} : pc[q] = "idle" /\ pc'[q] = "idle" /\ task'[q] = task[q]
    BY StepAlone DEF Step
  <1>2. \A s : Shown(s)' <=> Shown(s)
    BY DEF BetFlow, BetAcquireLock, BetRejected, BetAccepted, BetSaveSession, BetReleaseLock, Shown
  <1>3. CASE BetAcquireLock(r)
    BY <1>1, <1>2, <1>3 DEF BetAcquireLock, Begin, MayStart
  <1>4. CASE BetRejected(r) \/ BetAccepted(r)
    BY <1>1, <1>2, <1>4 DEF BetRejected, BetAccepted
  <1>5. CASE BetSaveSession(r)
    <2>1. session'.seeds = local[r] /\ ~Shown(local[r].server)
      BY <1>5 DEF BetSaveSession
    <2> QED
      BY <1>1, <1>2, <1>5, <2>1 DEF BetSaveSession
  <1>6. CASE BetReleaseLock(r)
    BY <1>1, <1>2, <1>6 DEF BetReleaseLock
  <1> QED
    BY <1>3, <1>4, <1>5, <1>6 DEF BetFlow

LEMMA EndFlowSecret ==
  ASSUME HistoryInv, SecretInv, events \subseteq {"flush", "expire"}, NEW r \in Request,
         EndFlow(r)
  PROVE  SecretInv'
  <1> USE DEF HistoryInv, SeedsTypeOK, SecretInv, SessionEnded, Playing, Rotating, Uses,
              At, Goto, Stop, Finish, redisVars, historyVars
  <1>1. /\ Alone'
        /\ \A q \in Request \ {r} : pc[q] = "idle" /\ pc'[q] = "idle" /\ task'[q] = task[q]
    BY StepAlone DEF Step
  <1>0. CASE RecordSettlement(r)
    BY <1>1, <1>0 DEF RecordSettlement
  <1>2. ASSUME row' = row PROVE \A s : Shown(s)' <=> Shown(s)
    BY ONLY <1>2 DEF Shown
  <1>3. CASE EndRead(r)
    BY <1>1, <1>2, <1>3 DEF EndRead, Begin, MayStart
  <1>4. CASE EndSave(r)
    <2>1. ~session'.active
      BY <1>4 DEF EndSave, SessionHeld, Session
    <2> QED
      BY <1>1, <1>2, <1>4, <2>1 DEF EndSave
  <1>6. CASE RotateSeeds(r)
    <2>1. PICK s \in ServerSeed :
             NewSeed(s) /\ record' = [local[r] EXCEPT !.server = s, !.nonce = @ + 1]
      BY <1>6 DEF RotateSeeds
    <2>2. record'.server = s /\ ~Shown(s)
      BY ZenonT(60), <1>6, <2>1, NewSeedUnshown DEF RotateSeeds, SeedsHeld, Seeds
    <2> QED
      BY <1>1, <1>2, <1>6, <2>2 DEF RotateSeeds
  <1>7. CASE ClearSession(r)
    BY <1>1, <1>2, <1>7 DEF ClearSession
  <1>8. CASE SettlementFails(r)
    BY <1>1, <1>2, <1>8 DEF SettlementFails
  <1> QED
    BY <1>0, <1>3, <1>4, <1>6, <1>7, <1>8 DEF EndFlow

LEMMA OthersSecret ==
  ASSUME HistoryInv, SecretInv, events \subseteq {"flush", "expire"},
         Disconnect \/ OthersFlush \/ KeyExpires \/ LockExpires \/ Crash \/ UNCHANGED vars
  PROVE  SecretInv'
  <1>1. Alone'
    BY OthersAlone DEF SecretInv
  <1>2. UNCHANGED <<task, pc, local, row>> /\ session' \in {session, None} /\ record' \in {record, None}
    BY DEF Disconnect, OthersFlush, KeyExpires, LockExpires, Crash, vars, requestVars,
           historyVars, FlushAll
  <1> QED
    BY <1>1, <1>2 DEF SecretInv, SessionEnded, Playing, Rotating, Uses, Shown

\* The client that waits for its replies and stays connected never plays a round under a
\* server seed that its history shows, whatever Redis drops meanwhile.
THEOREM SeedsPlayedAreSecret == SeedsSpec => []SecretWhilePlayed
  <1>1. SeedsInit => SeedsSecret
    BY DEF SeedsInit, SeedsSecret, SecretInv, Alone, SessionEnded, Playing, Uses
  <1>2. HistoryInv /\ SeedsSecret /\ [SeedsNext]_vars => SeedsSecret'
    <2> SUFFICES ASSUME HistoryInv, SeedsSecret, [SeedsNext]_vars, Within({"flush", "expire"})'
                 PROVE  SecretInv'
      BY DEF SeedsSecret
    <2>1. events \subseteq {"flush", "expire"} /\ SecretInv
      BY EventsStay DEF Within, SeedsSecret
    <2> QED
      BY <2>1, ConnectionSecret, SeedFlowSecret, BetFlowSecret, EndFlowSecret, OthersSecret
         DEF SeedsNext
  <1>3. SeedsSecret => SecretWhilePlayed
    BY DEF SeedsSecret, SecretInv, SecretWhilePlayed, Playing, Shown
  <1> QED
    BY <1>1, <1>2, <1>3, HistoryInvariant, PTL DEF SeedsSpec

-----------------------------------------------------------------------------
(* Rounds are told apart by their nonces *)

LEMMA ConnectionNonces ==
  ASSUME HistoryInv, NoncesInv, events = {}, NEW r \in Request, Connection(r)
  PROVE  NoncesInv'
  <1> USE DEF HistoryInv, SeedsTypeOK, NoncesInv, SessionEnded, Playing, Rotating, Counts,
              NoncesDistinct, Within, At, Goto, Stop, Finish, redisVars, historyVars
  <1>1. /\ Alone'
        /\ \A q \in Request \ {r} : pc[q] = "idle" /\ pc'[q] = "idle" /\ task'[q] = task[q]
    BY StepAlone DEF Step
  <1>2. CASE Connect(r)
    BY <1>1, <1>2 DEF Connect
  <1>3. CASE Verified(r) \/ Admitted(r)
    BY <1>1, <1>3 DEF Verified, Admitted
  <1>4. CASE Welcome(r)
    BY <1>1, <1>4 DEF Welcome
  <1> QED
    BY <1>2, <1>3, <1>4 DEF Connection, Refused, WelcomeFails

LEMMA SeedFlowNonces ==
  ASSUME HistoryInv, NoncesInv, events = {}, NEW r \in Request, SeedFlow(r)
  PROVE  NoncesInv'
  <1> USE SeedsAssumption
          DEF HistoryInv, SeedsTypeOK, NoncesInv, SessionEnded, Playing, Rotating, Counts,
              NoncesDistinct, Within, At, Goto, Stop, Finish, redisVars, historyVars
  <1>1. /\ Alone'
        /\ \A q \in Request \ {r} : pc[q] = "idle" /\ pc'[q] = "idle" /\ task'[q] = task[q]
    BY StepAlone DEF Step
  <1>2. CASE GetFairness(r)
    <2>1. CASE record # None
      BY <1>1, <1>2, <2>1 DEF GetFairness
    <2>2. CASE record = None
      BY <1>1, <1>2, <2>2 DEF GetFairness
    <2> QED
      BY <2>1, <2>2
  <1>3. CASE CreateFairness(r)
    <2>1. local[r] \in Seeds /\ record = None
      BY <1>3 DEF CreateFairness, SeedsHeld
    <2> QED
      BY <1>1, <1>3, <2>1 DEF CreateFairness
  <1>4. CASE AskSeeds(r) \/ ChooseSeed(r)
    BY <1>1, <1>4 DEF AskSeeds, ChooseSeed, Begin, MayStart
  <1>5. CASE GetGameSeeds(r)
    BY <1>1, <1>5 DEF GetGameSeeds
  <1>6. ASSUME NEW u \in UserSeed, SetUserSeed(r, u) PROVE NoncesInv'
    <2>1. record' \in Seeds /\ record'.nonce = record.nonce
      BY <1>6, SeedsUpdate DEF SetUserSeed, SeedsHeld, Seeds
    <2> QED
      BY <1>1, <1>6, <2>1 DEF SetUserSeed
  <1> QED
    BY <1>2, <1>3, <1>4, <1>5, <1>6 DEF SeedFlow, FairnessFails

LEMMA BetFlowNonces ==
  ASSUME HistoryInv, NoncesInv, events = {}, NEW r \in Request, BetFlow(r)
  PROVE  NoncesInv'
  <1> USE DEF HistoryInv, SeedsTypeOK, NoncesInv, SessionEnded, Playing, Rotating, Counts,
              NoncesDistinct, Within, At, Goto, Stop, Finish, redisVars, historyVars
  <1>1. /\ Alone'
        /\ \A q \in Request \ {r} : pc[q] = "idle" /\ pc'[q] = "idle" /\ task'[q] = task[q]
    BY StepAlone DEF Step
  <1>2. CASE BetAcquireLock(r)
    BY <1>1, <1>2 DEF BetAcquireLock, Begin, MayStart
  <1>3. CASE BetRejected(r) \/ BetAccepted(r)
    BY <1>1, <1>3 DEF BetRejected, BetAccepted
  <1>4. CASE BetSaveSession(r)
    <2>1. session'.seeds = local[r] /\ record # None /\ Counts(local[r])
      BY <1>4 DEF BetSaveSession
    <2> QED
      BY <1>1, <1>4, <2>1 DEF BetSaveSession
  <1>5. CASE BetReleaseLock(r)
    BY <1>1, <1>5 DEF BetReleaseLock
  <1> QED
    BY <1>2, <1>3, <1>4, <1>5 DEF BetFlow

LEMMA EndFlowNonces ==
  ASSUME HistoryInv, NoncesInv, events = {}, NEW r \in Request, EndFlow(r)
  PROVE  NoncesInv'
  <1> USE DEF HistoryInv, SeedsTypeOK, NoncesInv, SessionEnded, Playing, Rotating, Counts,
              NoncesDistinct, Within, At, Goto, Stop, Finish, redisVars, historyVars
  <1>1. /\ Alone'
        /\ \A q \in Request \ {r} : pc[q] = "idle" /\ pc'[q] = "idle" /\ task'[q] = task[q]
    BY StepAlone DEF Step
  <1>2. CASE EndRead(r)
    BY <1>1, <1>2 DEF EndRead, Begin, MayStart
  <1>3. CASE EndSave(r)
    <2>1. ~session'.active
      BY <1>3 DEF EndSave, SessionHeld, Session
    <2> QED
      BY <1>1, <1>3, <2>1 DEF EndSave
  <1>4. CASE RecordSettlement(r)
    <2>1. /\ held[r].seeds \in Seeds /\ record # None
          /\ held[r].seeds.nonce = record.nonce
      BY <1>4 DEF RecordSettlement, SessionHeld, Session
    <2>2. ~Rotating /\ Rotating'
      BY <1>1, <1>4 DEF RecordSettlement
    <2>3. \A b \in Round : row[b] # None => row[b].nonce < record.nonce
      BY <2>2
    <2>4. row' = [row EXCEPT ![held[r].round] = IF @ # None THEN @ ELSE held[r].seeds]
      BY <1>4 DEF RecordSettlement
    <2>5. \A b \in Round : row'[b] = row[b] \/ (b = held[r].round /\ row'[b] = held[r].seeds)
      BY <2>4
    <2>6. NoncesDistinct'
      BY <2>1, <2>3, <2>5 DEF Seeds
    <2> QED
      BY <1>1, <1>4, <2>1, <2>2, <2>3, <2>5, <2>6 DEF RecordSettlement
  <1>5. CASE RotateSeeds(r)
    <2>1. PICK s \in ServerSeed : record' = [local[r] EXCEPT !.server = s, !.nonce = @ + 1]
      BY <1>5 DEF RotateSeeds
    <2>2. /\ record' \in Seeds /\ record # None /\ record.nonce \in Nat
          /\ record'.nonce = record.nonce + 1
      BY <1>5, <2>1, SeedsUpdate DEF RotateSeeds, SeedsHeld, Seeds
    <2>3. \A b \in Round : row[b] # None => row[b].nonce \in Nat
      BY DEF Seeds
    <2> QED
      BY <1>1, <1>5, <2>2, <2>3, SeedsAssumption DEF RotateSeeds
  <1>6. CASE ClearSession(r)
    BY <1>1, <1>6 DEF ClearSession
  <1> QED
    BY <1>2, <1>3, <1>4, <1>5, <1>6 DEF EndFlow, SettlementFails

LEMMA OthersNonces ==
  ASSUME HistoryInv, NoncesInv, events = {},
         Disconnect \/ OthersFlush \/ KeyExpires \/ LockExpires \/ Crash \/ UNCHANGED vars
  PROVE  NoncesInv'
  <1>1. Alone'
    BY OthersAlone DEF NoncesInv
  <1>2. UNCHANGED <<events, task, pc, local, held, row, session, record>>
    BY DEF Disconnect, OthersFlush, KeyExpires, LockExpires, Crash, vars, requestVars, historyVars
  <1> QED
    BY <1>1, <1>2 DEF NoncesInv, SessionEnded, Playing, Rotating, Counts, NoncesDistinct, Within

\* While nothing is lost, no two rounds in the history of such a client have the same nonce,
\* whatever it asks and chooses between them.
THEOREM NoncesTellRoundsApart == SeedsSpec => []NoncesDistinct
  <1>1. SeedsInit => SeedsCounted
    BY DEF SeedsInit, SeedsCounted, NoncesInv, Alone, SessionEnded, Playing, NoncesDistinct
  <1>2. HistoryInv /\ SeedsCounted /\ [SeedsNext]_vars => SeedsCounted'
    <2> SUFFICES ASSUME HistoryInv, SeedsCounted, [SeedsNext]_vars, Within({})'
                 PROVE  NoncesInv'
      BY DEF SeedsCounted
    <2>1. events = {} /\ NoncesInv
      BY EventsStay DEF Within, SeedsCounted
    <2> QED
      BY <2>1, ConnectionNonces, SeedFlowNonces, BetFlowNonces, EndFlowNonces, OthersNonces
         DEF SeedsNext
  <1>3. SeedsCounted => NoncesDistinct
    BY DEF SeedsCounted, NoncesInv, NoncesDistinct
  <1> QED
    BY <1>1, <1>2, <1>3, HistoryInvariant, PTL DEF SeedsSpec

-----------------------------------------------------------------------------
(* What the client was told holds for its next round *)

LEMMA ConnectionPromise ==
  ASSUME HistoryInv, PromiseInv, events \subseteq {"db", "crash"}, NEW r \in Request, Connection(r)
  PROVE  PromiseInv'
  <1> USE DEF HistoryInv, SeedsTypeOK, PromiseInv, Keeps, At, Goto, Stop, Finish, redisVars,
              historyVars
  <1>1. /\ Alone'
        /\ \A q \in Request \ {r} : pc[q] = "idle" /\ pc'[q] = "idle" /\ task'[q] = task[q]
    BY StepAlone DEF Step, PromiseInv
  <1>2. CASE Connect(r)
    BY <1>1, <1>2 DEF Connect
  <1>3. CASE Verified(r) \/ Admitted(r)
    BY <1>1, <1>3 DEF Verified, Admitted
  <1>4. CASE Welcome(r) \/ WelcomeFails(r)
    BY <1>1, <1>4 DEF Welcome, WelcomeFails
  <1> QED
    BY <1>2, <1>3, <1>4 DEF Connection, Refused

LEMMA SeedFlowPromise ==
  ASSUME HistoryInv, PromiseInv, events \subseteq {"db", "crash"}, NEW r \in Request, SeedFlow(r)
  PROVE  PromiseInv'
  <1> USE SeedsAssumption
          DEF HistoryInv, SeedsTypeOK, PromiseInv, Keeps, NoPromise, At, Goto, Stop, Finish,
              redisVars, historyVars
  <1>1. /\ Alone'
        /\ \A q \in Request \ {r} : pc[q] = "idle" /\ pc'[q] = "idle" /\ task'[q] = task[q]
    BY StepAlone DEF Step
  <1>2. CASE GetFairness(r)
    <2>1. CASE record # None
      BY <1>1, <1>2, <2>1 DEF GetFairness
    <2>2. CASE record = None
      BY <1>1, <1>2, <2>2 DEF GetFairness
    <2> QED
      BY <2>1, <2>2
  <1>3. CASE CreateFairness(r)
    <2>1. local[r] \in Seeds /\ record = None
      BY <1>3 DEF CreateFairness, SeedsHeld
    <2> QED
      BY <1>1, <1>3, <2>1 DEF CreateFairness
  <1>4. CASE FairnessFails(r)
    BY <1>1, <1>4 DEF FairnessFails
  <1>5. CASE AskSeeds(r)
    BY <1>1, <1>5 DEF AskSeeds, Begin, MayStart
  <1>6. CASE ChooseSeed(r)
    BY <1>1, <1>6 DEF ChooseSeed, Begin, MayStart
  <1>7. CASE GetGameSeeds(r)
    BY <1>1, <1>7 DEF GetGameSeeds
  <1>8. ASSUME NEW u \in UserSeed, SetUserSeed(r, u) PROVE PromiseInv'
    <2>1. record' \in Seeds /\ record'.user = u /\ record'.server = record.server
      BY <1>8, SeedsUpdate DEF SetUserSeed, SeedsHeld, Seeds
    <2>2. promise.user = None /\ promise.server \in {None, record.server}
      BY <1>8 DEF SetUserSeed
    <2>3. promise'.user \in {None, u} /\ promise'.server = promise.server
      BY <1>8, <2>2 DEF SetUserSeed
    <2> QED
      BY <1>1, <1>8, <2>1, <2>2, <2>3 DEF SetUserSeed
  <1> QED
    BY <1>2, <1>3, <1>4, <1>5, <1>6, <1>7, <1>8 DEF SeedFlow

LEMMA BetFlowPromise ==
  ASSUME HistoryInv, PromiseInv, events \subseteq {"db", "crash"}, NEW r \in Request, BetFlow(r)
  PROVE  PromiseInv'
  <1> USE DEF HistoryInv, SeedsTypeOK, PromiseInv, Keeps, At, Goto, Stop, Finish, redisVars,
              historyVars
  <1>1. /\ Alone'
        /\ \A q \in Request \ {r} : pc[q] = "idle" /\ pc'[q] = "idle" /\ task'[q] = task[q]
    BY StepAlone DEF Step
  <1>2. CASE BetAcquireLock(r)
    BY <1>1, <1>2 DEF BetAcquireLock, Begin, MayStart
  <1>3. CASE BetRejected(r) \/ BetAccepted(r) \/ BetSaveSession(r) \/ BetReleaseLock(r)
    BY <1>1, <1>3 DEF BetRejected, BetAccepted, BetSaveSession, BetReleaseLock
  <1> QED
    BY <1>2, <1>3 DEF BetFlow

LEMMA EndFlowPromise ==
  ASSUME HistoryInv, PromiseInv, events \subseteq {"db", "crash"}, NEW r \in Request, EndFlow(r)
  PROVE  PromiseInv'
  <1> USE SeedsAssumption
          DEF HistoryInv, SeedsTypeOK, PromiseInv, Keeps, NoPromise, At, Goto, Stop, Finish,
              redisVars, historyVars
  <1>1. /\ Alone'
        /\ \A q \in Request \ {r} : pc[q] = "idle" /\ pc'[q] = "idle" /\ task'[q] = task[q]
    BY StepAlone DEF Step
  <1>2. CASE EndRead(r)
    BY <1>1, <1>2 DEF EndRead, Begin, MayStart
  <1>3. CASE EndSave(r) \/ RecordSettlement(r) \/ SettlementFails(r) \/ ClearSession(r)
    BY <1>1, <1>3 DEF EndSave, RecordSettlement, SettlementFails, ClearSession
  <1>4. CASE RotateSeeds(r)
    <2>1. PICK s \in ServerSeed : record' = [local[r] EXCEPT !.server = s, !.nonce = @ + 1]
      BY <1>4 DEF RotateSeeds
    <2>2. record' \in Seeds /\ record'.user = record.user
      BY <1>4, <2>1, SeedsUpdate DEF RotateSeeds, SeedsHeld, Seeds
    <2> QED
      BY <1>1, <1>4, <2>2 DEF RotateSeeds
  <1> QED
    BY <1>2, <1>3, <1>4 DEF EndFlow

LEMMA OthersPromise ==
  ASSUME HistoryInv, PromiseInv, events \subseteq {"db", "crash"},
         Disconnect \/ OthersFlush \/ KeyExpires \/ LockExpires \/ Crash \/ UNCHANGED vars
  PROVE  PromiseInv'
  <1>1. Alone'
    BY OthersAlone DEF PromiseInv
  <1>2. CASE LockExpires \/ UNCHANGED vars
    BY <1>1, <1>2 DEF LockExpires, vars, requestVars, historyVars, PromiseInv, Keeps
  <1>3. CASE Crash
    BY <1>1, <1>3 DEF Crash, redisVars, historyVars, PromiseInv, Keeps
  <1> QED
    BY <1>2, <1>3 DEF Disconnect, OthersFlush, KeyExpires

\* A client that waits for its replies and stays connected plays its next round under the
\* user seed it chose or was shown and the server seed whose hash it was shown, even if calls
\* fail or the server dies in between.
THEOREM PromisesAreKept == SeedsSpec => PromisesKept
  <1>1. SeedsInit => SeedsPromised
    BY DEF SeedsInit, SeedsPromised, PromiseInv, Alone
  <1>2. HistoryInv /\ SeedsPromised /\ [SeedsNext]_vars => SeedsPromised'
    <2> SUFFICES ASSUME HistoryInv, SeedsPromised, [SeedsNext]_vars, Within({"db", "crash"})'
                 PROVE  PromiseInv'
      BY DEF SeedsPromised
    <2>1. events \subseteq {"db", "crash"} /\ PromiseInv
      BY EventsStay DEF Within, SeedsPromised
    <2> QED
      BY <2>1, ConnectionPromise, SeedFlowPromise, BetFlowPromise, EndFlowPromise, OthersPromise
         DEF SeedsNext
  <1>3. ASSUME HistoryInv, SeedsPromised, [SeedsNext]_vars, Within({"db", "crash"}),
               NEW b \in Round, played'[b] # played[b]
        PROVE  /\ promise.user \in {None, played'[b].user}
               /\ promise.server \in {None, played'[b].server}
    <2>1. PICK r \in Request : BetSaveSession(r)
      <3>1. ASSUME NEW r \in Request, Connection(r) PROVE played' = played
        BY <3>1 DEF Connection, Connect, Verified, Admitted, Refused, WelcomeFails, Welcome,
                    historyVars
      <3>2. ASSUME NEW r \in Request, SeedFlow(r) PROVE played' = played
        BY <3>2 DEF SeedFlow, GetFairness, CreateFairness, FairnessFails, AskSeeds, GetGameSeeds,
                    ChooseSeed, SetUserSeed, historyVars
      <3>3. ASSUME NEW r \in Request, BetFlow(r), ~BetSaveSession(r) PROVE played' = played
        BY <3>3 DEF BetFlow, BetAcquireLock, BetRejected, BetAccepted, BetReleaseLock, historyVars
      <3>4. ASSUME NEW r \in Request, EndFlow(r) PROVE played' = played
        BY <3>4 DEF EndFlow, EndRead, EndSave, RecordSettlement, SettlementFails, RotateSeeds,
                    ClearSession, historyVars
      <3>5. Disconnect \/ OthersFlush \/ KeyExpires \/ LockExpires \/ Crash \/ UNCHANGED vars
              => played' = played
        BY DEF Disconnect, OthersFlush, KeyExpires, LockExpires, Crash, vars, historyVars
      <3> QED
        BY <1>3, <3>1, <3>2, <3>3, <3>4, <3>5 DEF SeedsNext
    <2>2. played'[b] = local[r]
      BY <1>3, <2>1 DEF BetSaveSession, HistoryInv, SeedsTypeOK
    <2>3. local[r] # None /\ local[r] = record
      BY <1>3, <2>1 DEF SeedsPromised, PromiseInv, BetSaveSession, At
    <2> QED
      BY <1>3, <2>2, <2>3 DEF SeedsPromised, PromiseInv, Keeps
  <1>4. HistoryInv /\ SeedsPromised /\ [SeedsNext]_vars =>
          [Within({"db", "crash"}) =>
             \A b \in Round : played'[b] # played[b] =>
                /\ promise.user \in {None, played'[b].user}
                /\ promise.server \in {None, played'[b].server}]_vars
    BY <1>3
  <1> QED
    BY <1>1, <1>2, <1>4, HistoryInvariant, PTL DEF SeedsSpec, PromisesKept
=============================================================================
