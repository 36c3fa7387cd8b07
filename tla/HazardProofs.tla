---------------------------- MODULE HazardProofs ----------------------------
(***************************************************************************)
(* Leader election and the hazard rotation that rests on it, for any       *)
(* number of servers and patterns, any period and any faults: the election *)
(* alone, the rotation as a user of it, the types, the turns of the        *)
(* patterns, that an access never ends without hazards, and that           *)
(* subscribers keep no state that was replaced.                            *)
(***************************************************************************)
EXTENDS HazardRotation, TLAPS

(* LeaderElection *)

LInv == LeaderTypeOK /\ RenewerHolds

\* SET NX takes the key when it is absent and changes nothing otherwise.
LEMMA TryStep ==
    ASSUME LeaderTypeOK, NEW s \in Server, TryBecomeLeader(s)
    PROVE  /\ \/ lease = Free /\ lease' = s /\ leading' = [leading EXCEPT ![s] = TRUE]
              \/ lease' = lease /\ leading' = leading
           /\ happened \subseteq happened'
           /\ happened' \subseteq Faults
           /\ left' \in 0 .. MaxFaults
  BY LeaderAssumption DEF LeaderTypeOK, TryBecomeLeader, Believe, Fault, faultVars

\* The initial state has the types, and no server renews a lease in it.
LEMMA InitInv == LeaderInit => LInv
  BY LeaderAssumption DEF LeaderInit, LInv, LeaderTypeOK, RenewerHolds

\* Every step preserves the types.
LEMMA StepTypes == LeaderTypeOK /\ [LeaderNext]_leaderVars => LeaderTypeOK'
  <1> SUFFICES ASSUME LeaderTypeOK, [LeaderNext]_leaderVars
               PROVE  LeaderTypeOK'
    OBVIOUS
  <1> USE LeaderAssumption DEF LeaderTypeOK
  <1>1. ASSUME NEW s \in Server, Boot(s) PROVE LeaderTypeOK'
    BY <1>1, TryStep DEF Boot
  <1>2. ASSUME NEW s \in Server, CheckLeader(s) PROVE LeaderTypeOK'
    BY <1>2 DEF CheckLeader, IsLeader, Believe, Fault, faultVars
  <1>3. ASSUME NEW s \in Server, Renew(s) PROVE LeaderTypeOK'
    <2>1. CASE RenewRead(s)
      BY <2>1 DEF RenewRead, Believe, faultVars
    <2>2. CASE RenewWrite(s)
      BY <2>2 DEF RenewWrite, faultVars
    <2>3. CASE RenewFails(s)
      BY <2>3 DEF RenewFails, Fault
    <2>4. CASE Regain(s)
      BY <2>4, TryStep DEF Regain
    <2> QED BY <1>3, <2>1, <2>2, <2>3, <2>4 DEF Renew
  <1>4. ASSUME NEW s \in Server, Crash(s) PROVE LeaderTypeOK'
    BY <1>4 DEF Crash, Believe, Fault
  <1>5. CASE LeaseExpires
    BY <1>5 DEF LeaseExpires, Fault, faultVars
  <1>6. CASE Flush
    BY <1>6 DEF Flush, Fault
  <1>8. CASE Late
    BY <1>8 DEF Late, Fault, electionVars
  <1>7. CASE UNCHANGED leaderVars
    BY <1>7 DEF leaderVars
  <1> QED BY <1>1, <1>2, <1>3, <1>4, <1>5, <1>6, <1>7, <1>8 DEF LeaderNext

\* Without a stall or a flush, a server between the two commands of a renewal
\* keeps the lease: every other action finds the key held, or its holder well.
LEMMA StepHolds == LInv /\ [LeaderNext]_leaderVars => RenewerHolds'
  <1> SUFFICES ASSUME LInv, [LeaderNext]_leaderVars,
                      {"slow", "flush"} \cap happened' = {},
                      NEW t \in Server, lpc'[t] = "renew"
               PROVE  leading'[t] /\ lease' = t
    BY DEF RenewerHolds
  <1>0. LeaderTypeOK BY DEF LInv
  <1>t. ASSUME happened \subseteq happened', lpc[t] = "renew"
        PROVE  leading[t] /\ lease = t
    BY <1>t DEF LInv, RenewerHolds
  <1>1. ASSUME NEW s \in Server, Boot(s) PROVE leading'[t] /\ lease' = t
    <2>1. lpc[t] = "renew" /\ t # s
      BY <1>1, <1>0 DEF Boot, LeaderTypeOK
    <2> QED BY <1>1, <1>0, <1>t, <2>1, TryStep, LeaderAssumption DEF Boot, LeaderTypeOK
  <1>2. ASSUME NEW s \in Server, CheckLeader(s) PROVE leading'[t] /\ lease' = t
    <2>1. lpc[t] = "renew" /\ happened \subseteq happened'
      BY <1>2 DEF CheckLeader, IsLeader, Fault, faultVars
    <2> QED BY <1>2, <1>0, <1>t, <2>1 DEF CheckLeader, IsLeader, Believe, LeaderTypeOK
  <1>3. ASSUME NEW s \in Server, Renew(s) PROVE leading'[t] /\ lease' = t
    <2>1. CASE RenewRead(s)
      BY <2>1, <1>0, <1>t DEF RenewRead, Believe, faultVars, LeaderTypeOK
    <2>2. CASE RenewWrite(s)
      <3>1. lpc[t] = "renew" /\ t # s /\ lpc[s] = "renew" /\ happened' = happened
        BY <2>2, <1>0 DEF RenewWrite, faultVars, LeaderTypeOK
      <3> QED BY <3>1 DEF LInv, RenewerHolds
    <2>3. CASE RenewFails(s)
      <3>1. lpc[t] = "renew" /\ t # s
        BY <2>3, <1>0 DEF RenewFails, LeaderTypeOK
      <3> QED BY <2>3, <3>1, <1>t DEF RenewFails, Fault
    <2>4. CASE Regain(s)
      <3>1. lpc[t] = "renew" /\ t # s
        BY <2>4, <1>0 DEF Regain, LeaderTypeOK
      <3> QED BY <2>4, <1>0, <1>t, <3>1, TryStep, LeaderAssumption DEF Regain, LeaderTypeOK
    <2> QED BY <1>3, <2>1, <2>2, <2>3, <2>4 DEF Renew
  <1>4. ASSUME NEW s \in Server, Crash(s) PROVE leading'[t] /\ lease' = t
    <2>1. lpc[t] = "renew" /\ t # s /\ happened \subseteq happened'
      BY <1>4, <1>0 DEF Crash, Fault, LeaderTypeOK
    <2> QED BY <1>4, <1>0, <1>t, <2>1 DEF Crash, Believe, LeaderTypeOK
  <1>5. CASE LeaseExpires
    <2>1. lpc[t] = "renew" /\ happened \subseteq happened'
      BY <1>5 DEF LeaseExpires, Fault, faultVars
    <2>2. leading[t] /\ lease = t
      BY <1>t, <2>1
    <2> QED BY <1>5, <2>1, <2>2 DEF LeaseExpires, Fault
  <1>6. CASE Flush
    BY <1>6 DEF Flush, Fault
  <1>8. CASE Late
    BY <1>8, <1>t DEF Late, Fault, electionVars
  <1>7. CASE UNCHANGED leaderVars
    BY <1>7, <1>t DEF leaderVars
  <1> QED BY <1>1, <1>2, <1>3, <1>4, <1>5, <1>6, <1>7, <1>8 DEF LeaderNext

\* Each step leaves the lease, drops it, or takes an absent one.
LEMMA StepHandover ==
    ASSUME LInv, [LeaderNext]_leaderVars, {"slow", "flush"} \cap happened' = {}
    PROVE  lease' = lease \/ lease' = Free \/ lease = Free
  <1>0. LeaderTypeOK BY DEF LInv
  <1>1. ASSUME NEW s \in Server, Boot(s) \/ Regain(s)
        PROVE  lease' = lease \/ lease' = Free \/ lease = Free
    BY <1>0, <1>1, TryStep DEF Boot, Regain
  <1>2. ASSUME NEW s \in Server, RenewWrite(s)
        PROVE  lease' = lease
    BY <1>2 DEF RenewWrite, faultVars, LInv, RenewerHolds
  <1>3. ASSUME NEW s \in Server, CheckLeader(s) \/ RenewRead(s) \/ RenewFails(s) \/ Crash(s)
        PROVE  lease' = lease
    BY <1>3 DEF CheckLeader, IsLeader, RenewRead, RenewFails, Crash
  <1>4. CASE LeaseExpires \/ Flush \/ Late
    BY <1>4 DEF LeaseExpires, Flush, Late, electionVars
  <1>5. CASE UNCHANGED leaderVars
    BY <1>5 DEF leaderVars
  <1> QED BY <1>1, <1>2, <1>3, <1>4, <1>5 DEF LeaderNext, Renew

\* The inductive invariant: types, and the renewing server holds the lease.
THEOREM LeaderInvariant == LeaderSpec => []LInv
  <1>1. LInv /\ [LeaderNext]_leaderVars => LInv'
    BY StepTypes, StepHolds DEF LInv
  <1> QED BY InitInv, <1>1, PTL DEF LeaderSpec

\* Leadership of the hazard scheduler changes hands only through an absent key,
\* whatever crashes, failing commands and outages of Redis there are.
THEOREM LeaseHandover == LeaderSpec => LeaseNotStolen
  <1>1. LInv /\ [LeaderNext]_leaderVars =>
          [{"slow", "flush"} \cap happened' = {} =>
              lease' = lease \/ lease' = Free \/ lease = Free]_leaderVars
    BY StepHandover
  <1> QED BY LeaderInvariant, <1>1, PTL DEF LeaderSpec, LeaseNotStolen

-----------------------------------------------------------------------------
(* The rotation uses the election *)

\* A question to the election is a step of it, and so is a command that fails.
LEMMA AskIsLeaderStep ==
    ASSUME NEW s \in Server, Up(s), NEW yes \in BOOLEAN, IsLeader(s, yes)
    PROVE  LeaderNext
  BY DEF LeaderNext, CheckLeader

LEMMA FailingCallIsLeaderStep ==
    ASSUME NEW s \in Server, Up(s), Fault("net"), UNCHANGED electionVars
    PROVE  LeaderNext
  <1>1. IsLeader(s, FALSE)
    BY DEF IsLeader, electionVars
  <1> QED
    BY <1>1 DEF LeaderNext, CheckLeader

\* Every step of the rotation is one of the election, or does not touch it.
LEMMA HazardStepIsLeaderStep == [HazardNext]_allVars => [LeaderNext]_leaderVars
  <1> SUFFICES ASSUME [HazardNext]_allVars PROVE LeaderNext \/ UNCHANGED leaderVars
    OBVIOUS
  <1> USE AskIsLeaderStep, FailingCallIsLeaderStep DEF At, leaderVars, electionVars, faultVars
  <1>1. ASSUME NEW s \in Server, AlarmFires(s) \/ Access(s) \/ Deliver(s)
        PROVE  UNCHANGED leaderVars
    BY <1>1 DEF AlarmFires, Access, Deliver
  <1>2. ASSUME NEW s \in Server, Reading(s)
        PROVE  LeaderNext \/ UNCHANGED leaderVars
    BY <1>2 DEF Reading, Load, ExpiredChecks, Reread, EmptyChecks, Wait, WaitEnds, Late,
                LeaderNext, AccessFails, Served
  <1>3. ASSUME NEW s \in Server, Initialization(s)
        PROVE  LeaderNext \/ UNCHANGED leaderVars
    <2>1. CASE Initialize(s) \/ LockWait(s) \/ DoubleCheck(s) \/ InitStore(s) \/ Unlock(s)
      BY <2>1 DEF Initialize, LockWait, WaitEnds, Late, LeaderNext, DoubleCheck, InitStore, Unlock
    <2>2. CASE InitLock(s) \/ Listen(s)
      BY <2>2 DEF InitLock, Listen, Subscribe
    <2>3. CASE InitSchedule(s) \/ InitFails(s)
      BY <2>3 DEF InitSchedule, InitFails
    <2>4. CASE Fallback(s)
      BY <2>4 DEF Fallback, Subscribe
    <2> QED
      BY <1>3, <2>1, <2>2, <2>3, <2>4 DEF Initialization
  <1>4. ASSUME NEW s \in Server, NEW k \in Task, Rotation(s, k)
        PROVE  LeaderNext \/ UNCHANGED leaderVars
    BY <1>4 DEF Rotation, RotateCheck, Rotate, RotateStore, RotateNotify, RotateSchedule,
                RotateFails
  <1>5. ASSUME NEW s \in Server, BootServer(s) \/ CrashServer(s)
        PROVE  LeaderNext
    BY <1>5 DEF BootServer, CrashServer, LeaderNext
  <1>6. CASE LeaseStep
    BY <1>6 DEF LeaseStep, LeaderNext
  <1>7. CASE Tick \/ RedisExpires \/ InitLockExpires \/ UNCHANGED allVars
    BY <1>7 DEF Tick, RedisExpires, InitLockExpires, allVars
  <1> QED
    BY <1>1, <1>2, <1>3, <1>4, <1>5, <1>6, <1>7 DEF HazardNext

\* HazardSchedulerService is a correct user of LeaderElectionService: its servers
\* do to the lease what the election alone may do.
THEOREM RotationUsesElection == HazardSpec => LeaderSpec
  <1>1. HazardInit => LeaderInit
    BY DEF HazardInit
  <1> QED
    BY <1>1, HazardStepIsLeaderStep, PTL DEF HazardSpec, LeaderSpec

\* So leadership changes hands only through an absent key while hazards rotate.
THEOREM RotationKeepsLease == HazardSpec => LeaseNotStolen
  BY RotationUsesElection, LeaseHandover, PTL

-----------------------------------------------------------------------------
(* Types *)

Label == {"idle"} \cup RotatePC \cup InitPC \cup AccessPC

LEMMA NewStateIs ==
    ASSUME HazardTypeOK, NEW current \in Pattern, NEW next \in Pattern
    PROVE  /\ NewState(current, next) \in HazardState /\ NewState(current, next) # None
           /\ NewState(current, next).current = current
           /\ NewState(current, next).changeAt = now + Refresh
           /\ ~Expired(NewState(current, next))
  <1>1. NewState(current, next) = [current |-> current, next |-> next,
                                    changeAt |-> now + Refresh]
    BY DEF NewState
  <1>2. now \in 0 .. MaxNow /\ now + Refresh \in Time /\ ~(now >= now + Refresh)
    BY HazardAssumption DEF HazardTypeOK, Time
  <1>3. NewState(current, next) \in HazardState /\ NewState(current, next) # None
    <2>1. NewState(current, next) \in HazardState
      BY <1>1, <1>2 DEF HazardState
    <2>2. None \notin HazardState
      BY HazardAssumption DEF HazardState, Time
    <2> QED
      BY <2>1, <2>2
  <1>4. /\ NewState(current, next).current = current
        /\ NewState(current, next).changeAt = now + Refresh
    BY <1>1
  <1>5. ~Expired(NewState(current, next))
    BY <1>2, <1>4 DEF Expired
  <1> QED
    BY <1>3, <1>4, <1>5

\* Going to a label and holding a state keep the types.
LEMMA TaskTypes ==
    ASSUME HazardTypeOK, NEW s \in Server, NEW k \in Task
    PROVE  /\ \A label \in Label :
                 Goto(s, k, label) => pc' \in [Server -> [Task -> Label]]
           /\ \A st \in Loaded :
                 Hold(s, k, st) => state' \in [Server -> [Task -> Loaded]]
           /\ \A st \in Loaded : Remember(s, st) => mem' \in [Server -> Loaded]
           /\ mem[s] \in Loaded /\ state[s][k] \in Loaded /\ redis \in Loaded /\ None \in Loaded
  <1>1. /\ pc \in [Server -> [Task -> Label]] /\ state \in [Server -> [Task -> Loaded]]
        /\ mem \in [Server -> Loaded] /\ redis \in Loaded /\ None \in Loaded
    BY DEF HazardTypeOK, Label, Loaded
  <1>2. ASSUME NEW label \in Label, Goto(s, k, label)
        PROVE  pc' \in [Server -> [Task -> Label]]
    BY <1>1, <1>2 DEF Goto
  <1>3. ASSUME NEW st \in Loaded, Hold(s, k, st)
        PROVE  state' \in [Server -> [Task -> Loaded]]
    BY <1>1, <1>3 DEF Hold
  <1>4. ASSUME NEW st \in Loaded, Remember(s, st)
        PROVE  mem' \in [Server -> Loaded]
    BY <1>1, <1>4 DEF Remember
  <1> QED
    BY <1>1, <1>2, <1>3, <1>4

\* What a step of the rotation owes to the types, besides those of the election.
RotationTypes ==
    /\ now \in 0 .. MaxNow
    /\ redis \in Loaded
    /\ initLock \in Server \cup {Free, None}
    /\ mem \in [Server -> Loaded]
    /\ alarm \in [Server -> Time \cup {None}]
    /\ listening \subseteq Server /\ deaf \subseteq Server \ listening
    /\ inbox \subseteq Server
    /\ pc \in [Server -> [Task -> Label]]
    /\ state \in [Server -> [Task -> Loaded]]
    /\ asLeader \in [Server -> BOOLEAN]
    /\ lapsed \in BOOLEAN

LEMMA TypesSplit == HazardTypeOK <=> LeaderTypeOK /\ RotationTypes
  BY DEF HazardTypeOK, RotationTypes, Label

LEMMA RotationStepTypes ==
    ASSUME HazardTypeOK, NEW s \in Server, NEW k \in Task, Rotation(s, k)
    PROVE  RotationTypes'
  <1>1. RotationTypes /\ "timer" \in Task /\ "access" \in Task
    BY TypesSplit DEF Task
  <1> USE TaskTypes, <1>1 DEF RotationTypes, sharedVars, calmVars, subVars
  <1>2. {"idle", "rotate", "store", "notify", "schedule", "empty", "done"} \subseteq Label
    BY DEF Label, RotatePC, InitPC, AccessPC
  <1>3. CASE RotateCheck(s, k)
    BY <1>2, <1>3 DEF RotateCheck, IdleTimer, Return
  <1>4. CASE Rotate(s, k)
    BY <1>2, <1>4, NewStateIs DEF Rotate, Loaded
  <1>5. CASE RotateStore(s, k)
    BY <1>2, <1>5 DEF RotateStore
  <1>6. CASE RotateNotify(s, k)
    BY <1>2, <1>6 DEF RotateNotify
  <1>7. CASE RotateSchedule(s, k)
    <2>1. alarm' \in [Server -> Time \cup {None}]
      BY <1>7, HazardAssumption DEF RotateSchedule, SetAlarm, Time
    <2> QED
      BY <1>2, <1>7, <2>1 DEF RotateSchedule, IdleTimer, Return
  <1>8. CASE RotateFails(s, k)
    BY <1>2, <1>8 DEF RotateFails
  <1> QED
    BY <1>3, <1>4, <1>5, <1>6, <1>7, <1>8 DEF Rotation

LEMMA ReadingStepTypes ==
    ASSUME HazardTypeOK, NEW s \in Server, Reading(s) \/ Access(s) \/ AlarmFires(s) \/ Deliver(s)
    PROVE  RotationTypes'
  <1>1. RotationTypes /\ "timer" \in Task /\ "access" \in Task
    BY TypesSplit DEF Task
  <1> USE TaskTypes, <1>1 DEF RotationTypes, sharedVars, calmVars, subVars
  <1>2. {"idle", "check", "load", "done", "expired", "empty", "reread", "wait", "waitlisten",
         "init"} \subseteq Label
    BY DEF Label, RotatePC, InitPC, AccessPC
  <1>3. CASE Load(s)
    BY <1>2, <1>3 DEF Load, Return
  <1>4. CASE ExpiredChecks(s) \/ EmptyChecks(s)
    BY <1>2, <1>4 DEF ExpiredChecks, EmptyChecks
  <1>5. CASE Reread(s)
    BY <1>2, <1>5 DEF Reread, Return
  <1>6. CASE Wait(s)
    BY <1>2, <1>6 DEF Wait
  <1>7. CASE AccessFails(s) \/ Served(s)
    BY <1>2, <1>7 DEF AccessFails, Served
  <1>8. CASE Access(s)
    BY <1>2, <1>8 DEF Access
  <1>9. CASE AlarmFires(s) \/ Deliver(s)
    BY <1>2, <1>9 DEF AlarmFires, Deliver
  <1> QED
    BY <1>3, <1>4, <1>5, <1>6, <1>7, <1>8, <1>9 DEF Reading

LEMMA InitializationStepTypes ==
    ASSUME HazardTypeOK, NEW s \in Server, Initialization(s)
    PROVE  RotationTypes'
  <1>1. RotationTypes /\ "timer" \in Task /\ "access" \in Task
    BY TypesSplit DEF Task
  <1> USE TaskTypes, <1>1 DEF RotationTypes, sharedVars, calmVars, subVars
  <1>2. {"init", "lock", "lockwait", "double", "initstore", "listen", "initlisten",
         "initschedule", "unlock", "empty", "done", "fallback"} \subseteq Label
    BY DEF Label, RotatePC, InitPC, AccessPC
  <1>3. Subscribe(s) => (listening \subseteq Server /\ deaf \subseteq Server \ listening)'
    BY DEF Subscribe
  <1>4. CASE Initialize(s) \/ LockWait(s)
    BY <1>2, <1>4 DEF Initialize, LockWait, Found, Return
  <1>5. CASE InitLock(s)
    BY <1>2, <1>5 DEF InitLock
  <1>6. CASE DoubleCheck(s)
    <2>1. CASE redis # None /\ Found(s)
      BY <1>2, <1>6, <2>1 DEF DoubleCheck, Found, Return
    <2>2. CASE Goto(s, "access", "initstore")
      BY <1>2, <1>6, <2>2, NewStateIs DEF DoubleCheck, Found, Return, Loaded
    <2> QED
      BY <1>6, <2>1, <2>2 DEF DoubleCheck
  <1>7. CASE InitStore(s)
    BY <1>2, <1>7 DEF InitStore
  <1>8. CASE InitSchedule(s)
    <2>1. alarm' \in [Server -> Time \cup {None}]
      BY <1>8, HazardAssumption DEF InitSchedule, SetAlarm, Time
    <2> QED
      BY <1>2, <1>8, <2>1 DEF InitSchedule
  <1>9. CASE Listen(s)
    <2>1. PICK label \in {"unlock", "initschedule", "done"} : Goto(s, "access", label)
      BY <1>9 DEF Listen, AfterListen
    <2> QED
      BY <1>2, <1>3, <1>9, <2>1 DEF Listen
  <1>10. CASE Unlock(s) \/ InitFails(s)
    BY <1>2, <1>10 DEF Unlock, InitFails
  <1>11. CASE Fallback(s)
    BY <1>2, <1>3, <1>11, NewStateIs DEF Fallback, Loaded
  <1> QED
    BY <1>4, <1>5, <1>6, <1>7, <1>8, <1>9, <1>10, <1>11 DEF Initialization

LEMMA OtherStepTypes ==
    ASSUME HazardTypeOK,
           \/ \E s \in Server : BootServer(s) \/ CrashServer(s)
           \/ LeaseStep \/ Tick \/ RedisExpires \/ InitLockExpires \/ UNCHANGED allVars
    PROVE  RotationTypes'
  <1>1. RotationTypes
    BY TypesSplit
  <1> USE <1>1 DEF RotationTypes, sharedVars, localVars, subVars
  <1>2. ASSUME NEW s \in Server, CrashServer(s) PROVE RotationTypes'
    BY <1>2 DEF CrashServer, Remember, Label, Loaded
  <1>3. ASSUME NEW s \in Server, BootServer(s) PROVE RotationTypes'
    BY <1>3 DEF BootServer
  <1>4. CASE LeaseStep \/ RedisExpires \/ InitLockExpires \/ UNCHANGED allVars
    BY <1>4 DEF LeaseStep, RedisExpires, InitLockExpires, allVars, Loaded
  <1>5. CASE Tick
    <2>1. now' \in 0 .. MaxNow
      BY <1>5, HazardAssumption DEF Tick
    <2> QED
      BY <1>5, <2>1 DEF Tick
  <1> QED
    BY <1>2, <1>3, <1>4, <1>5

HInv == HazardTypeOK /\ LInv

\* Every step preserves the types.
LEMMA HazardStepTypes == HInv /\ [HazardNext]_allVars => HInv'
  <1> SUFFICES ASSUME HInv, [HazardNext]_allVars PROVE HInv'
    OBVIOUS
  <1>1. LInv'
    BY HazardStepIsLeaderStep, StepTypes, StepHolds DEF HInv, LInv
  <1>2. RotationTypes'
    <2>1. CASE \E s \in Server, k \in Task : Rotation(s, k)
      BY <2>1, RotationStepTypes DEF HInv
    <2>2. CASE \E s \in Server : AlarmFires(s) \/ Access(s) \/ Reading(s) \/ Deliver(s)
      BY <2>2, ReadingStepTypes DEF HInv
    <2>3. CASE \E s \in Server : Initialization(s)
      BY <2>3, InitializationStepTypes DEF HInv
    <2>4. CASE \/ \E s \in Server : BootServer(s) \/ CrashServer(s)
               \/ LeaseStep \/ Tick \/ RedisExpires \/ InitLockExpires \/ UNCHANGED allVars
      BY <2>4, OtherStepTypes DEF HInv
    <2> QED
      BY <2>1, <2>2, <2>3, <2>4 DEF HazardNext
  <1> QED
    BY <1>1, <1>2, TypesSplit DEF HInv, HazardTypeOK, RotationTypes, LInv, Label

LEMMA HazardInitTypes == HazardInit => HInv
  <1> SUFFICES ASSUME HazardInit PROVE HInv
    OBVIOUS
  <1>1. LInv
    BY InitInv DEF HazardInit
  <1>2. now \in 0 .. MaxNow
    BY HazardAssumption DEF HazardInit
  <1>3. RotationTypes
    BY <1>2 DEF HazardInit, RotationTypes, Loaded, Label
  <1> QED
    BY <1>1, <1>3, TypesSplit DEF HInv, LInv

\* Every variable of the rotation keeps its type.
THEOREM HazardTypeCorrect == HazardSpec => []HazardTypeOK
  <1>1. HazardSpec => []HInv
    BY HazardInitTypes, HazardStepTypes, PTL DEF HazardSpec
  <1> QED
    BY <1>1, PTL DEF HInv

-----------------------------------------------------------------------------
(* The turns of the patterns *)

THInv == HInv /\ TurnInv

\* A step of one task of one server, seen from the others.
LEMMA TaskStep ==
    ASSUME HazardTypeOK, NEW s \in Server, NEW k \in Task
    PROVE  /\ \A label : Goto(s, k, label) =>
                 /\ pc'[s][k] = label
                 /\ \A t \in Server, j \in Task : t # s \/ j # k => pc'[t][j] = pc[t][j]
           /\ \A st : Hold(s, k, st) =>
                 /\ state'[s][k] = st
                 /\ \A t \in Server, j \in Task : t # s \/ j # k => state'[t][j] = state[t][j]
           /\ \A st : Remember(s, st) =>
                 /\ mem'[s] = st
                 /\ \A t \in Server \ {s} : mem'[t] = mem[t]
  <1>1. /\ pc \in [Server -> [Task -> Label]] /\ state \in [Server -> [Task -> Loaded]]
        /\ mem \in [Server -> Loaded]
    BY TypesSplit DEF RotationTypes
  <1> QED
    BY <1>1 DEF Goto, Hold, Remember

\* The invariant of a server that a step leaves alone, but for what Redis holds.
LEMMA TurnKept ==
    ASSUME TurnInv, NEW t \in Server, now' = now, redis' = redis \/ ~Expired(redis)',
           \A j \in Task : pc'[t][j] = pc[t][j] /\ state'[t][j] = state[t][j],
           mem'[t] = mem[t] \/ mem'[t] # None, t \in inbox' => t \in inbox
    PROVE  (MakersSeeNone(t) /\ StoredNext(t) /\ ExpiredHeld(t))'
  <1>1. "access" \in Task
    BY DEF Task
  <1>2. Expired(redis)' => Expired(redis) /\ redis' = redis
    BY DEF Expired
  <1> QED
    BY <1>1, <1>2 DEF TurnInv, MakersSeeNone, StoredNext, ExpiredHeld

\* A step of server s, once shown for s.
LEMMA TurnStep ==
    ASSUME TurnInv, NEW s \in Server, now' = now, redis' = redis \/ ~Expired(redis)',
           \A t \in Server \ {s} :
              /\ \A j \in Task : pc'[t][j] = pc[t][j] /\ state'[t][j] = state[t][j]
              /\ mem'[t] = mem[t]
              /\ t \in inbox' => t \in inbox,
           (MakersSeeNone(s) /\ StoredNext(s) /\ ExpiredHeld(s))'
    PROVE  TurnInv'
  <1>1. \A t \in Server \ {s} : (MakersSeeNone(t) /\ StoredNext(t) /\ ExpiredHeld(t))'
    BY TurnKept
  <1> QED
    BY <1>1 DEF TurnInv

LEMMA RotationTurn ==
    ASSUME THInv, NEW s \in Server, NEW k \in Task, Rotation(s, k)
    PROVE  TurnInv'
  <1>1. HazardTypeOK /\ TurnInv /\ Task = {"timer", "access"}
    BY DEF THInv, HInv, Task
  <1> USE <1>1, TaskStep DEF sharedVars
  <1> DEFINE Self == MakersSeeNone(s) /\ StoredNext(s) /\ ExpiredHeld(s)
  <1>2. CASE RotateCheck(s, k)
    <2>1. redis' = redis /\ now' = now
      BY <1>2 DEF RotateCheck
    <2>2. Self'
      BY <1>2, <2>1 DEF RotateCheck, IdleTimer, Return, TurnInv, MakersSeeNone, StoredNext,
                 ExpiredHeld, At, MakingPC, InitPC, Expired
    <2> QED
      BY <1>2, <2>1, <2>2, TurnStep DEF RotateCheck, IdleTimer, Return
  <1>3. CASE Rotate(s, k)
    <2>1. redis' = redis /\ now' = now
      BY <1>3 DEF Rotate
    <2>2. PICK current, next \in Pattern :
             /\ LET prev == IF redis # None THEN redis ELSE mem[s]
                IN  prev # None => current = prev.next
             /\ Remember(s, NewState(current, next)) /\ Hold(s, k, NewState(current, next))
      BY <1>3 DEF Rotate
    <2> DEFINE new == NewState(current, next)
    <2>3. /\ new # None /\ new.changeAt = now + Refresh
          /\ Expired(redis) => new.current = redis.next
      BY <2>2, NewStateIs DEF Expired
    <2> HIDE DEF new
    <2>4. mem'[s] = new /\ state'[s][k] = new
      BY <2>2 DEF new
    <2>5. Self'
      BY <1>3, <2>1, <2>3, <2>4 DEF Rotate, TurnInv, MakersSeeNone, StoredNext,
                 ExpiredHeld, At, MakingPC, InitPC, Expired
    <2> QED
      BY <1>3, <2>1, <2>2, <2>5, TurnStep DEF Rotate
  <1>4. CASE RotateStore(s, k)
    <2>0. ~(now >= now + Refresh)
      BY HazardAssumption DEF HazardTypeOK
    <2>1. ~Expired(redis)' /\ now' = now
      BY <1>4, <2>0 DEF RotateStore, Expired, TurnInv, StoredNext, At
    <2>2. Self'
      BY <1>4, <2>1 DEF RotateStore, TurnInv, MakersSeeNone, StoredNext,
                 ExpiredHeld, At, MakingPC, InitPC, Expired
    <2> QED
      BY <1>4, <2>1, <2>2, TurnStep DEF RotateStore
  <1>5. CASE RotateNotify(s, k)
    <2>1. ~Expired(redis) /\ redis' = redis /\ now' = now /\ ~Expired(redis)'
      BY <1>5 DEF RotateNotify, TurnInv, MakersSeeNone, At, Expired
    <2>2. ASSUME NEW t \in Server
          PROVE  (MakersSeeNone(t) /\ StoredNext(t) /\ ExpiredHeld(t))'
      BY <1>5, <2>1 DEF RotateNotify, TurnInv, MakersSeeNone, StoredNext, ExpiredHeld, At
    <2> QED
      BY <2>2 DEF TurnInv
  <1>6. CASE RotateSchedule(s, k)
    <2>1. ~Expired(redis) /\ redis' = redis /\ now' = now /\ ~Expired(redis)'
      BY <1>6 DEF RotateSchedule, TurnInv, MakersSeeNone, At, Expired
    <2>2. Self'
      BY <1>6, <2>1 DEF RotateSchedule, IdleTimer, Return, TurnInv, MakersSeeNone, StoredNext,
                 ExpiredHeld, At
    <2> QED
      BY <1>6, <2>1, <2>2, TurnStep DEF RotateSchedule, IdleTimer, Return
  <1>7. CASE RotateFails(s, k)
    <2>1. redis' = redis /\ now' = now
      BY <1>7 DEF RotateFails
    <2>2. Self'
      BY <1>7, <2>1 DEF RotateFails, TurnInv, MakersSeeNone, StoredNext,
                 ExpiredHeld, At, MakingPC, InitPC, Expired
    <2> QED
      BY <1>7, <2>1, <2>2, TurnStep DEF RotateFails
  <1> QED
    BY <1>2, <1>3, <1>4, <1>5, <1>6, <1>7 DEF Rotation

LEMMA ReadingTurn ==
    ASSUME THInv, NEW s \in Server, Reading(s) \/ Access(s) \/ AlarmFires(s) \/ Deliver(s)
    PROVE  TurnInv'
  <1>1. HazardTypeOK /\ TurnInv /\ Task = {"timer", "access"}
    BY DEF THInv, HInv, Task
  <1> USE <1>1, TaskStep DEF sharedVars
  <1> DEFINE Self == MakersSeeNone(s) /\ StoredNext(s) /\ ExpiredHeld(s)
  <1>2. redis' = redis /\ now' = now
    BY DEF Reading, Load, ExpiredChecks, Reread, EmptyChecks, Wait, AccessFails, Served, Access,
           AlarmFires, Deliver
  <1>3. Expired(redis)' <=> Expired(redis)
    BY <1>2 DEF Expired
  <1> USE <1>2, <1>3
  <1> USE DEF TurnInv, MakersSeeNone, StoredNext, ExpiredHeld, At, MakingPC, InitPC
  <1>4. CASE Load(s)
    <2>1. Self'
      BY <1>4 DEF Load, Return, Expired
    <2> QED
      BY <1>4, <2>1, TurnStep DEF Load, Return
  <1>5. CASE ExpiredChecks(s)
    <2>1. Self'
      BY <1>5 DEF ExpiredChecks
    <2> QED
      BY <1>5, <2>1, TurnStep DEF ExpiredChecks
  <1>6. CASE Reread(s)
    <2>1. Self'
      BY <1>6 DEF Reread, Return
    <2> QED
      BY <1>6, <2>1, TurnStep DEF Reread, Return
  <1>7. CASE EmptyChecks(s)
    <2>1. Self'
      BY <1>7 DEF EmptyChecks
    <2> QED
      BY <1>7, <2>1, TurnStep DEF EmptyChecks
  <1>8. CASE Wait(s)
    <2>1. Self'
      BY <1>8 DEF Wait
    <2> QED
      BY <1>8, <2>1, TurnStep DEF Wait
  <1>9. CASE AccessFails(s) \/ Served(s)
    <2>1. Self'
      BY <1>9 DEF AccessFails, Served
    <2> QED
      BY <1>9, <2>1, TurnStep DEF AccessFails, Served
  <1>10. CASE Access(s)
    <2>1. Self'
      BY <1>10 DEF Access
    <2> QED
      BY <1>10, <2>1, TurnStep DEF Access
  <1>11. CASE AlarmFires(s)
    <2>1. Self'
      BY <1>11 DEF AlarmFires
    <2> QED
      BY <1>11, <2>1, TurnStep DEF AlarmFires
  <1>12. CASE Deliver(s)
    <2>1. Self'
      BY <1>12 DEF Deliver
    <2> QED
      BY <1>12, <2>1, TurnStep DEF Deliver
  <1> QED
    BY <1>4, <1>5, <1>6, <1>7, <1>8, <1>9, <1>10, <1>11, <1>12 DEF Reading

\* While Redis holds nothing out of date, only the states on their way there matter.
LEMMA FreshTurn ==
    ASSUME TurnInv, NEW s \in Server, now' = now, ~Expired(redis)',
           \A t \in Server, j \in Task :
              t # s \/ j # "access" => pc'[t][j] = pc[t][j] /\ state'[t][j] = state[t][j],
           pc'[s]["access"] \notin {"store", "expired", "reread"},
           pc'[s]["access"] = "initstore" =>
              state'[s]["access"] # None /\ state'[s]["access"].changeAt = now + Refresh
    PROVE  TurnInv'
  <1>1. "access" \in Task
    BY DEF Task
  <1>2. ASSUME NEW t \in Server
        PROVE  (MakersSeeNone(t) /\ StoredNext(t) /\ ExpiredHeld(t))'
    BY <1>1, <1>2 DEF TurnInv, MakersSeeNone, StoredNext, ExpiredHeld
  <1> QED
    BY <1>2 DEF TurnInv

\* Where an initialization is suspended.
LEMMA InitializationAt ==
    ASSUME NEW s \in Server, Initialization(s)
    PROVE  pc[s]["access"] \in MakingPC
  <1> USE DEF At, MakingPC, InitPC
  <1>1. CASE Initialize(s) \/ InitLock(s) \/ LockWait(s) \/ DoubleCheck(s) \/ InitStore(s)
    BY <1>1 DEF Initialize, InitLock, LockWait, DoubleCheck, InitStore
  <1>2. CASE Listen(s)
    BY <1>2 DEF Listen, AfterListen
  <1>3. CASE InitSchedule(s) \/ Unlock(s) \/ InitFails(s) \/ Fallback(s)
    BY <1>3 DEF InitSchedule, Unlock, InitFails, Fallback
  <1> QED
    BY <1>1, <1>2, <1>3 DEF Initialization

LEMMA InitializationTurn ==
    ASSUME THInv, NEW s \in Server, Initialization(s)
    PROVE  TurnInv'
  <1>1. HazardTypeOK /\ TurnInv /\ Task = {"timer", "access"}
    BY DEF THInv, HInv, Task
  <1> USE <1>1, TaskStep DEF sharedVars
  <1> DEFINE Self == MakersSeeNone(s) /\ StoredNext(s) /\ ExpiredHeld(s)
  <1>2. ~Expired(redis)
    BY InitializationAt DEF TurnInv, MakersSeeNone
  <1>3. CASE Initialize(s) \/ LockWait(s)
    <2>1. redis' = redis /\ now' = now
      BY <1>3 DEF Initialize, LockWait
    <2> QED
      BY <1>2, <1>3, <2>1, FreshTurn DEF Initialize, LockWait, Found, Return, Expired
  <1>4. CASE InitLock(s)
    <2>1. redis' = redis /\ now' = now
      BY <1>4 DEF InitLock
    <2> QED
      BY <1>2, <1>4, <2>1, FreshTurn DEF InitLock, Expired
  <1>5. CASE DoubleCheck(s)
    <2>1. redis' = redis /\ now' = now
      BY <1>5 DEF DoubleCheck
    <2>2. CASE Found(s)
      BY <1>2, <1>5, <2>1, <2>2, FreshTurn DEF DoubleCheck, Found, Return, Expired
    <2>3. CASE \E current, next \in Pattern :
                  /\ Hold(s, "access", NewState(current, next))
                  /\ Goto(s, "access", "initstore")
      BY <1>2, <1>5, <2>1, <2>3, NewStateIs, FreshTurn DEF Expired
    <2> QED
      BY <1>5, <2>2, <2>3 DEF DoubleCheck
  <1>6. CASE InitStore(s)
    <2>1. now' = now /\ state' = state /\ ~(now >= now + Refresh)
      BY <1>6, HazardAssumption DEF InitStore, HazardTypeOK
    <2>2. ~Expired(redis)'
      BY <1>6, <2>1 DEF InitStore, Expired, TurnInv, StoredNext, At
    <2> QED
      BY <1>6, <2>1, <2>2, FreshTurn DEF InitStore
  <1>7. CASE InitSchedule(s) \/ Listen(s)
    <2>1. redis' = redis /\ now' = now /\ state' = state
      BY <1>7 DEF InitSchedule, Listen
    <2>2. \E label \in {"unlock", "initschedule", "done"} : Goto(s, "access", label)
      BY <1>7 DEF InitSchedule, Listen, AfterListen
    <2> QED
      BY <1>2, <2>1, <2>2, FreshTurn DEF Expired
  <1>8. CASE Unlock(s) \/ InitFails(s)
    <2>1. redis' = redis /\ now' = now
      BY <1>8 DEF Unlock, InitFails
    <2> QED
      BY <1>2, <1>8, <2>1, FreshTurn DEF Unlock, InitFails, Expired
  <1>9. CASE Fallback(s)
    <2>1. PICK current, next \in Pattern :
             /\ Hold(s, "access", NewState(current, next))
             /\ redis' \in {redis, NewState(current, next)}
      BY <1>9 DEF Fallback
    <2>2. now' = now /\ Goto(s, "access", "done")
      BY <1>9 DEF Fallback
    <2>3. ~Expired(redis)'
      <3>1. ~Expired(NewState(current, next))
        BY NewStateIs
      <3>2. CASE redis' = redis
        BY <1>2, <2>2, <3>2 DEF Expired
      <3>3. CASE redis' = NewState(current, next)
        BY <2>2, <3>1, <3>3 DEF Expired
      <3> QED
        BY <2>1, <3>2, <3>3
    <2> QED
      BY <2>1, <2>2, <2>3, FreshTurn
  <1> QED
    BY <1>3, <1>4, <1>5, <1>6, <1>7, <1>8, <1>9 DEF Initialization

LEMMA OtherTurn ==
    ASSUME THInv,
           \/ \E s \in Server : BootServer(s) \/ CrashServer(s)
           \/ LeaseStep \/ Tick \/ RedisExpires \/ InitLockExpires \/ UNCHANGED allVars
    PROVE  TurnInv'
  <1>1. HazardTypeOK /\ TurnInv /\ Task = {"timer", "access"}
    BY DEF THInv, HInv, Task
  <1> USE <1>1 DEF sharedVars, localVars, subVars
  <1>2. ASSUME NEW s \in Server, CrashServer(s) PROVE TurnInv'
    <2>1. /\ redis' = redis /\ now' = now
          /\ \A k \in Task : pc'[s][k] = "idle"
          /\ \A t \in Server \ {s} :
                pc'[t] = pc[t] /\ state'[t] = state[t] /\ mem'[t] = mem[t]
          /\ inbox' \subseteq inbox
          /\ s \notin inbox'
      BY <1>2 DEF CrashServer, Remember, HazardTypeOK
    <2>2. (MakersSeeNone(s) /\ StoredNext(s) /\ ExpiredHeld(s))'
      BY <2>1 DEF MakersSeeNone, StoredNext, ExpiredHeld, MakingPC, InitPC
    <2>3. \A t \in Server \ {s} : (MakersSeeNone(t) /\ StoredNext(t) /\ ExpiredHeld(t))'
      BY <2>1, TurnKept
    <2> QED
      BY <2>2, <2>3 DEF TurnInv
  <1>3. CASE (\E s \in Server : BootServer(s)) \/ LeaseStep \/ InitLockExpires \/ UNCHANGED allVars
    BY <1>3 DEF BootServer, LeaseStep, InitLockExpires, allVars, Expired, TurnInv,
                MakersSeeNone,
                StoredNext, ExpiredHeld
  <1>4. CASE Tick \/ RedisExpires
    BY <1>4 DEF Tick, RedisExpires, Quiet, TurnInv, MakersSeeNone, StoredNext, ExpiredHeld,
                MakingPC, InitPC
  <1> QED
    BY <1>2, <1>3, <1>4

LEMMA TurnNext == THInv /\ [HazardNext]_allVars => THInv'
  <1> SUFFICES ASSUME THInv, [HazardNext]_allVars PROVE THInv'
    OBVIOUS
  <1>1. HInv'
    BY HazardStepTypes DEF THInv
  <1>2. TurnInv'
    BY RotationTurn, ReadingTurn, InitializationTurn, OtherTurn DEF HazardNext
  <1> QED
    BY <1>1, <1>2 DEF THInv

LEMMA TurnInit == HazardInit => THInv
  <1> SUFFICES ASSUME HazardInit PROVE THInv
    OBVIOUS
  <1>1. inbox = {} /\ \A s \in Server, k \in Task : pc[s][k] = "idle"
    BY DEF HazardInit
  <1>2. TurnInv
    BY <1>1 DEF TurnInv, MakersSeeNone, StoredNext, ExpiredHeld, MakingPC, InitPC, Task
  <1> QED
    BY <1>2, HazardInitTypes DEF THInv

\* A state that takes the place of one whose time is over begins with the pattern
\* that one announced, however many servers there are and whatever fails.
THEOREM TurnsAreTaken == HazardSpec => PatternsInTurn
  <1>1. THInv /\ [HazardNext]_allVars =>
           [redis' # redis /\ redis' # None /\ Expired(redis) =>
               redis'.current = redis.next]_allVars
    <2> SUFFICES ASSUME THInv, HazardNext, redis' # redis, redis' # None, Expired(redis)
                 PROVE  redis'.current = redis.next
      BY DEF allVars, sharedVars
    <2>1. PICK s \in Server, k \in Task : RotateStore(s, k)
      <3>1. ASSUME NEW s \in Server, Initialization(s) PROVE ~Expired(redis)
        BY <3>1, InitializationAt DEF THInv, TurnInv, MakersSeeNone
      <3>2. ASSUME NEW s \in Server, NEW k \in Task, Rotation(s, k), ~RotateStore(s, k)
            PROVE  redis' = redis
        BY <3>2 DEF Rotation, RotateCheck, Rotate, RotateNotify, RotateSchedule, RotateFails,
                    sharedVars
      <3>3. ASSUME NEW s \in Server, AlarmFires(s) \/ Access(s) \/ Reading(s) \/ Deliver(s)
            PROVE  redis' = redis
        BY <3>3 DEF AlarmFires, Access, Reading, Load, ExpiredChecks, Reread, EmptyChecks, Wait,
                    AccessFails, Served, Deliver, sharedVars
      <3>4. ASSUME NEW s \in Server, BootServer(s) \/ CrashServer(s) PROVE redis' = redis
        BY <3>4 DEF BootServer, CrashServer, sharedVars
      <3>5. ~LeaseStep /\ ~Tick /\ ~RedisExpires /\ ~InitLockExpires
        BY DEF LeaseStep, Tick, RedisExpires, InitLockExpires, sharedVars
      <3> QED
        BY <3>1, <3>2, <3>3, <3>4, <3>5 DEF HazardNext
    <2> QED
      BY <2>1 DEF RotateStore, At, THInv, TurnInv, StoredNext
  <1>2. HazardSpec => []THInv
    BY TurnInit, TurnNext, PTL DEF HazardSpec
  <1> QED
    BY <1>1, <1>2, PTL DEF HazardSpec, PatternsInTurn

-----------------------------------------------------------------------------
(* An access never ends without hazards *)

Served1(s) == /\ LeaderWorks(s) /\ TimerInTime(s) /\ LeaderAlone(s)
              /\ LeaderRemembers(s) /\ AccessHolds(s)

SHInv == THInv /\ ServedInv

\* The step's faults, the new one included, are crashes and late initializations.
Mild == happened \subseteq {"crash", "late"} /\ happened' \subseteq {"crash", "late"}

LEMMA NoFailingCall == ASSUME Mild PROVE ~Fault("net") /\ ~Fault("outage") /\ ~Fault("slow")
  BY DEF Mild, Fault

\* Without failing calls, isLeader says who holds the lease.
LEMMA AnswerIsTrue ==
    ASSUME HazardTypeOK, Mild, NEW s \in Server, NEW yes \in BOOLEAN, IsLeader(s, yes)
    PROVE  /\ yes <=> lease = s
           /\ leading'[s] = yes /\ lease' = lease /\ lpc' = lpc
           /\ \A t \in Server \ {s} : leading'[t] = leading[t]
  BY NoFailingCall DEF IsLeader, Believe, HazardTypeOK, LeaderTypeOK

\* What a step of another server may do to the invariant of server t.
LEMMA ServedKept ==
    ASSUME HazardTypeOK, NEW t \in Server, Served1(t), lease' = lease, lpc'[t] = lpc[t],
           leading'[t] = leading[t], now' = now,
           redis' = redis \/ (redis' # None /\ redis'.changeAt = now + Refresh),
           \A j \in Task : pc'[t][j] = pc[t][j] /\ state'[t][j] = state[t][j],
           mem'[t] = mem[t], alarm'[t] = alarm[t], asLeader'[t] = asLeader[t],
           t \in listening' <=> t \in listening,
           t \in inbox' => t \in inbox \/ (t \in listening /\ redis' # None),
           inbox' \subseteq inbox \/ lease # t, initLock' = t => initLock = t
    PROVE  Served1(t)'
  <1> USE DEF Served1, Task
  <1>1. /\ redis # None => redis' # None
        /\ alarm[t] # None => now \in Nat /\ Refresh \in Nat
    BY HazardAssumption DEF HazardTypeOK
  <1>2. LeaderWorks(t)'
    BY DEF LeaderWorks, Rotating, Up
  <1>3. TimerInTime(t)'
    BY <1>1 DEF TimerInTime
  <1>4. LeaderAlone(t)'
    BY <1>1 DEF LeaderAlone, LeaderWorks, Due
  <1>5. LeaderRemembers(t)'
    BY DEF LeaderRemembers
  <1>6. AccessHolds(t)'
    BY DEF AccessHolds, Absent, Up
  <1> QED
    BY <1>2, <1>3, <1>4, <1>5, <1>6

Frame(s) ==
    \A t \in Server \ {s} :
        /\ leading'[t] = leading[t] /\ mem'[t] = mem[t]
        /\ alarm'[t] = alarm[t] /\ asLeader'[t] = asLeader[t]
        /\ \A j \in Task : pc'[t][j] = pc[t][j] /\ state'[t][j] = state[t][j]
        /\ t \in listening' <=> t \in listening
        /\ initLock' = t => initLock = t

\* A step of a task of server s, once shown for s.
LEMMA ServedStep ==
    ASSUME HazardTypeOK, \A t \in Server : Served1(t), NEW s \in Server,
           lease' = lease, lpc' = lpc, now' = now,
           redis' = redis \/ (redis' # None /\ redis'.changeAt = now + Refresh),
           Frame(s),
           inbox' \subseteq inbox \/ (lease = s /\ inbox' \subseteq inbox \cup listening
                                      /\ redis' # None),
           Served1(s)'
    PROVE  \A t \in Server : Served1(t)'
  <1>1. ASSUME NEW t \in Server \ {s} PROVE Served1(t)'
    BY ServedKept DEF Frame
  <1> QED
    BY <1>1

LEMMA RotationServed ==
    ASSUME THInv, Mild, \A t \in Server : Served1(t),
           NEW s \in Server, NEW k \in Task, Rotation(s, k)
    PROVE  \A t \in Server : Served1(t)'
  <1>1. HazardTypeOK /\ TurnInv /\ Task = {"timer", "access"}
    BY DEF THInv, HInv, Task
  <1>2. now \in Nat /\ Refresh \in Nat
    BY <1>1, HazardAssumption DEF HazardTypeOK
  <1> USE <1>1, TaskStep, AnswerIsTrue, NoFailingCall
          DEF sharedVars, calmVars, subVars, leaderVars, electionVars, faultVars, At, Up
  <1>3. CASE RotateCheck(s, k)
    <2>1. Frame(s)
      BY <1>3 DEF RotateCheck, IdleTimer, Return, Frame
    <2>2. LeaderWorks(s)' /\ TimerInTime(s)'
      BY <1>3 DEF RotateCheck, IdleTimer, Return, Served1, LeaderWorks, TimerInTime, Rotating,
                  RotatingPC, RotatePC
    <2>3. LeaderAlone(s)' /\ LeaderRemembers(s)'
      BY <1>3 DEF RotateCheck, IdleTimer, Return, Served1, LeaderWorks, LeaderAlone,
                  LeaderRemembers, Due, InitPC
    <2>4. AccessHolds(s)'
      BY <1>3 DEF RotateCheck, IdleTimer, Return, Served1, AccessHolds, Absent
    <2> QED
      BY <1>3, <2>1, <2>2, <2>3, <2>4, ServedStep DEF RotateCheck, Served1
  <1>4. CASE Rotate(s, k)
    <2>1. Frame(s)
      BY <1>4 DEF Rotate, Frame
    <2>2. mem'[s] # None
      BY <1>4, NewStateIs DEF Rotate
    <2>3. LeaderWorks(s)' /\ TimerInTime(s)'
      BY <1>4 DEF Rotate, Served1, LeaderWorks, TimerInTime, Rotating, RotatingPC, RotatePC
    <2>4. LeaderAlone(s)' /\ LeaderRemembers(s)'
      BY <1>4 DEF Rotate, Served1, LeaderWorks, LeaderAlone, LeaderRemembers, Due, InitPC
    <2>5. AccessHolds(s)'
      BY <1>4, <2>2 DEF Rotate, Served1, AccessHolds, Absent
    <2> QED
      BY <1>4, <2>1, <2>3, <2>4, <2>5, ServedStep DEF Rotate, Served1
  <1>5. CASE RotateStore(s, k)
    <2>1. Frame(s)
      BY <1>5 DEF RotateStore, Frame
    <2>2. redis' # None /\ redis'.changeAt = now + Refresh
      BY <1>5 DEF RotateStore, TurnInv, StoredNext
    <2>3. LeaderWorks(s)' /\ TimerInTime(s)'
      BY <1>2, <1>5, <2>2 DEF RotateStore, Served1, LeaderWorks, TimerInTime, Rotating,
                              RotatingPC, RotatePC
    <2>4. LeaderAlone(s)' /\ LeaderRemembers(s)'
      BY <1>5, <2>2 DEF RotateStore, Served1, LeaderWorks, LeaderAlone, LeaderRemembers, Due,
                        InitPC
    <2>5. AccessHolds(s)'
      BY <1>5 DEF RotateStore, Served1, AccessHolds, Absent
    <2> QED
      BY <1>5, <2>1, <2>2, <2>3, <2>4, <2>5, ServedStep DEF RotateStore, Served1
  <1>6. CASE RotateNotify(s, k)
    <2>1. Frame(s)
      BY <1>6 DEF RotateNotify, Frame
    <2>2. lease = s /\ redis # None /\ inbox' = inbox \cup listening
      BY <1>6 DEF RotateNotify, Served1, LeaderWorks, TimerInTime, Rotating, RotatingPC,
                  RotatePC
    <2>3. LeaderWorks(s)' /\ TimerInTime(s)'
      BY <1>6, <2>2 DEF RotateNotify, Served1, LeaderWorks, TimerInTime, Rotating, RotatingPC,
                        RotatePC
    <2>4. LeaderAlone(s)' /\ LeaderRemembers(s)'
      BY <1>6, <2>2 DEF RotateNotify, Served1, LeaderWorks, LeaderAlone, LeaderRemembers, Due,
                        InitPC
    <2>5. AccessHolds(s)'
      BY <1>6, <2>2 DEF RotateNotify, Served1, AccessHolds, Absent
    <2> QED
      BY <1>6, <2>1, <2>2, <2>3, <2>4, <2>5, ServedStep DEF RotateNotify, Served1
  <1>7. CASE RotateSchedule(s, k)
    <2>1. Frame(s)
      BY <1>7 DEF RotateSchedule, SetAlarm, IdleTimer, Return, Frame, HazardTypeOK
    <2>2. /\ alarm'[s] \in {alarm[s], now + Refresh} /\ lease = s /\ leading'[s] /\ lpc' = lpc
          /\ redis # None /\ redis.changeAt = now + Refresh
      BY <1>7 DEF RotateSchedule, SetAlarm, HazardTypeOK, Served1, LeaderWorks, TimerInTime,
                  Rotating, RotatingPC, RotatePC
    <2>3. LeaderWorks(s)' /\ TimerInTime(s)'
      BY <1>2, <1>7, <2>2 DEF RotateSchedule, IdleTimer, Return, Served1, LeaderWorks,
                              TimerInTime, Rotating, RotatingPC, RotatePC
    <2>4. LeaderAlone(s)' /\ LeaderRemembers(s)'
      BY <1>7, <2>2 DEF RotateSchedule, IdleTimer, Return, Served1, LeaderWorks, LeaderAlone,
                        LeaderRemembers, AccessHolds, InitPC
    <2>5. AccessHolds(s)'
      BY <1>7, <2>2 DEF RotateSchedule, IdleTimer, Return, Served1, AccessHolds, Absent
    <2> QED
      BY <1>7, <2>1, <2>3, <2>4, <2>5, ServedStep DEF RotateSchedule, Served1
  <1>8. CASE RotateFails(s, k)
    BY <1>8 DEF RotateFails
  <1> QED
    BY <1>3, <1>4, <1>5, <1>6, <1>7, <1>8 DEF Rotation

LEMMA ReadingServed ==
    ASSUME THInv, Mild, \A t \in Server : Served1(t), NEW s \in Server,
           Reading(s) \/ Access(s) \/ AlarmFires(s) \/ Deliver(s)
    PROVE  \A t \in Server : Served1(t)'
  <1>1. HazardTypeOK /\ TurnInv /\ Task = {"timer", "access"}
    BY DEF THInv, HInv, Task
  <1>2. now \in Nat /\ Refresh \in Nat
    BY <1>1, HazardAssumption DEF HazardTypeOK
  <1>3. inbox \subseteq Server
    BY <1>1 DEF HazardTypeOK
  <1> USE <1>1, TaskStep, AnswerIsTrue, NoFailingCall
          DEF sharedVars, calmVars, subVars, leaderVars, electionVars, faultVars, At, Up
  <1>4. CASE Load(s)
    <2>1. Frame(s)
      BY <1>4 DEF Load, Return, Frame
    <2>2. LeaderWorks(s)' /\ TimerInTime(s)'
      BY <1>4 DEF Load, Return, Served1, LeaderWorks, TimerInTime, Rotating, RotatingPC,
                  RotatePC
    <2>3. redis = None => inbox = {} /\ alarm[s] = None /\ pc[s]["timer"] = "idle"
      BY <1>3 DEF Served1, TimerInTime
    <2>4. LeaderAlone(s)' /\ LeaderRemembers(s)'
      BY <1>4, <2>3 DEF Load, Return, Served1, LeaderAlone, LeaderRemembers, Due, InitPC
    <2>5. AccessHolds(s)'
      BY <1>4 DEF Load, Return, Served1, AccessHolds, Absent
    <2> QED
      BY <1>4, <2>1, <2>2, <2>4, <2>5, ServedStep DEF Load, Served1
  <1>5. CASE ExpiredChecks(s)
    <2>1. Frame(s)
      BY <1>5 DEF ExpiredChecks, Frame
    <2>2. LeaderWorks(s)' /\ TimerInTime(s)'
      BY <1>5 DEF ExpiredChecks, Served1, LeaderWorks, TimerInTime, Rotating, RotatingPC,
                  RotatePC
    <2>3. LeaderAlone(s)' /\ LeaderRemembers(s)'
      BY <1>5 DEF ExpiredChecks, Served1, LeaderAlone, LeaderRemembers, Due, InitPC
    <2>4. AccessHolds(s)'
      BY <1>5 DEF ExpiredChecks, Served1, AccessHolds, Absent
    <2> QED
      BY <1>5, <2>1, <2>2, <2>3, <2>4, ServedStep DEF ExpiredChecks, Served1
  <1>6. CASE Reread(s)
    <2>1. Frame(s)
      BY <1>6 DEF Reread, Return, Frame
    <2>2. state[s]["access"] # None
      BY <1>6 DEF Reread, TurnInv, ExpiredHeld
    <2>3. LeaderWorks(s)' /\ TimerInTime(s)'
      BY <1>6 DEF Reread, Return, Served1, LeaderWorks, TimerInTime, Rotating, RotatingPC,
                  RotatePC
    <2>4. LeaderAlone(s)' /\ LeaderRemembers(s)'
      BY <1>6, <2>2 DEF Reread, Return, Served1, LeaderAlone, LeaderRemembers, Due, InitPC
    <2>5. AccessHolds(s)'
      BY <1>6, <2>2 DEF Reread, Return, Served1, AccessHolds, Absent
    <2> QED
      BY <1>6, <2>1, <2>3, <2>4, <2>5, ServedStep DEF Reread, Served1
  <1>7. CASE EmptyChecks(s)
    <2>1. Frame(s) /\ asLeader'[s] = (lease = s)
      BY <1>7 DEF EmptyChecks, Frame, HazardTypeOK
    <2>2. LeaderWorks(s)' /\ TimerInTime(s)'
      BY <1>7, <2>1 DEF EmptyChecks, Served1, LeaderWorks, TimerInTime, Rotating, RotatingPC,
                        RotatePC
    <2>3. LeaderAlone(s)' /\ LeaderRemembers(s)'
      BY <1>7, <2>1 DEF EmptyChecks, Served1, LeaderAlone, LeaderRemembers, Due, InitPC
    <2>4. AccessHolds(s)'
      BY <1>7 DEF EmptyChecks, Served1, AccessHolds, Absent
    <2> QED
      BY <1>7, <2>1, <2>2, <2>3, <2>4, ServedStep DEF EmptyChecks, Served1
  <1>8. CASE Wait(s)
    <2>1. Frame(s)
      BY <1>8 DEF Wait, Frame
    <2>2. LeaderWorks(s)' /\ TimerInTime(s)'
      BY <1>8 DEF Wait, Served1, LeaderWorks, TimerInTime, Rotating, RotatingPC, RotatePC
    <2>3. LeaderAlone(s)' /\ LeaderRemembers(s)'
      BY <1>8 DEF Wait, Served1, LeaderAlone, LeaderRemembers, Due, InitPC
    <2>4. AccessHolds(s)'
      BY <1>8 DEF Wait, Served1, AccessHolds, Absent
    <2> QED
      BY <1>8, <2>1, <2>2, <2>3, <2>4, ServedStep DEF Wait, Served1
  <1>9. CASE AccessFails(s)
    BY <1>9 DEF AccessFails
  <1>10. CASE Served(s)
    <2>1. Frame(s) /\ ~asLeader'[s]
      BY <1>10 DEF Served, Frame, HazardTypeOK
    <2>2. LeaderWorks(s)' /\ TimerInTime(s)'
      BY <1>10, <2>1 DEF Served, Served1, LeaderWorks, TimerInTime, Rotating, RotatingPC,
                         RotatePC
    <2>3. LeaderAlone(s)' /\ LeaderRemembers(s)'
      BY <1>10, <2>1 DEF Served, Served1, LeaderAlone, LeaderRemembers, Due, InitPC
    <2>4. AccessHolds(s)'
      BY <1>10 DEF Served, Served1, AccessHolds, Absent
    <2> QED
      BY <1>10, <2>1, <2>2, <2>3, <2>4, ServedStep DEF Served, Served1
  <1>11. CASE Access(s)
    <2>1. Frame(s)
      BY <1>11 DEF Access, Frame
    <2>2. LeaderWorks(s)' /\ TimerInTime(s)'
      BY <1>11 DEF Access, Served1, LeaderWorks, TimerInTime, Rotating, RotatingPC, RotatePC
    <2>3. LeaderAlone(s)' /\ LeaderRemembers(s)'
      BY <1>11 DEF Access, Served1, LeaderAlone, LeaderRemembers, Due, InitPC
    <2>4. AccessHolds(s)'
      BY <1>11 DEF Access, Served1, AccessHolds, Absent
    <2> QED
      BY <1>11, <2>1, <2>2, <2>3, <2>4, ServedStep DEF Access, Served1
  <1>12. CASE AlarmFires(s)
    <2>1. Frame(s) /\ alarm'[s] = None /\ Due(s)
      BY <1>12 DEF AlarmFires, Frame, HazardTypeOK
    <2>2. LeaderWorks(s)' /\ TimerInTime(s)'
      BY <1>12, <2>1 DEF AlarmFires, Served1, LeaderWorks, TimerInTime, Rotating, RotatingPC,
                         RotatePC, Due
    <2>3. LeaderAlone(s)' /\ LeaderRemembers(s)'
      BY <1>12, <2>1 DEF AlarmFires, Served1, LeaderAlone, LeaderRemembers, InitPC
    <2>4. AccessHolds(s)'
      BY <1>12 DEF AlarmFires, Served1, AccessHolds, Absent
    <2> QED
      BY <1>12, <2>1, <2>2, <2>3, <2>4, ServedStep DEF AlarmFires, Served1
  <1>13. CASE Deliver(s)
    <2>1. Frame(s)
      BY <1>13 DEF Deliver, Frame
    <2>2. LeaderWorks(s)' /\ TimerInTime(s)'
      BY <1>13 DEF Deliver, Served1, LeaderWorks, TimerInTime, Rotating, RotatingPC, RotatePC
    <2>3. LeaderAlone(s)' /\ LeaderRemembers(s)'
      BY <1>13 DEF Deliver, Served1, LeaderAlone, LeaderRemembers, Due, InitPC
    <2>4. AccessHolds(s)'
      BY <1>13 DEF Deliver, Served1, AccessHolds, Absent
    <2> QED
      BY <1>13, <2>1, <2>2, <2>3, <2>4, ServedStep DEF Deliver, Served1
  <1> QED
    BY <1>4, <1>5, <1>6, <1>7, <1>8, <1>9, <1>10, <1>11, <1>12, <1>13 DEF Reading

LEMMA InitializationServed ==
    ASSUME THInv, Mild, \A t \in Server : Served1(t), NEW s \in Server, Initialization(s)
    PROVE  \A t \in Server : Served1(t)'
  <1>1. HazardTypeOK /\ TurnInv /\ Task = {"timer", "access"}
    BY DEF THInv, HInv, Task
  <1>2. now \in Nat /\ Refresh \in Nat
    BY <1>1, HazardAssumption DEF HazardTypeOK
  <1> USE <1>1, TaskStep, AnswerIsTrue, NoFailingCall
          DEF sharedVars, calmVars, subVars, leaderVars, electionVars, faultVars, At, Up
  <1>3. CASE Initialize(s)
    <2>1. Frame(s)
      BY <1>3 DEF Initialize, Found, Return, Frame
    <2>2. LeaderWorks(s)' /\ TimerInTime(s)'
      BY <1>3 DEF Initialize, Found, Return, Served1, LeaderWorks, TimerInTime, Rotating,
                  RotatingPC, RotatePC
    <2>3. initLock # s
      BY <1>3 DEF Initialize, Served1, AccessHolds
    <2>4. LeaderAlone(s)' /\ LeaderRemembers(s)'
      BY <1>3, <2>3 DEF Initialize, Found, Return, Served1, LeaderAlone, LeaderRemembers, Due,
                        InitPC
    <2>5. AccessHolds(s)'
      BY <1>3, <2>3 DEF Initialize, Found, Return, Served1, AccessHolds, Absent
    <2> QED
      BY <1>3, <2>1, <2>2, <2>4, <2>5, ServedStep DEF Initialize, Served1
  <1>4. CASE LockWait(s)
    <2>1. Frame(s)
      BY <1>4 DEF LockWait, Found, Return, Frame
    <2>2. LeaderWorks(s)' /\ TimerInTime(s)'
      BY <1>4 DEF LockWait, Found, Return, Served1, LeaderWorks, TimerInTime, Rotating,
                  RotatingPC, RotatePC
    <2>3. LeaderAlone(s)' /\ LeaderRemembers(s)'
      BY <1>4 DEF LockWait, Found, Return, Served1, LeaderAlone, LeaderRemembers, Due, InitPC
    <2>4. AccessHolds(s)'
      BY <1>4 DEF LockWait, Found, Return, Served1, AccessHolds, Absent
    <2> QED
      BY <1>4, <2>1, <2>2, <2>3, <2>4, ServedStep DEF LockWait, Served1
  <1>5. CASE InitLock(s)
    <2>1. Frame(s) /\ initLock' \in {initLock, s}
      BY <1>5 DEF InitLock, Frame
    <2>2. LeaderWorks(s)' /\ TimerInTime(s)'
      BY <1>5 DEF InitLock, Served1, LeaderWorks, TimerInTime, Rotating, RotatingPC, RotatePC
    <2>3. LeaderAlone(s)' /\ LeaderRemembers(s)'
      BY <1>5 DEF InitLock, Served1, LeaderAlone, LeaderRemembers, Due, InitPC
    <2>4. AccessHolds(s)'
      BY <1>5 DEF InitLock, Served1, AccessHolds, Absent
    <2> QED
      BY <1>5, <2>1, <2>2, <2>3, <2>4, ServedStep DEF InitLock, Served1
  <1>6. CASE DoubleCheck(s)
    <2>1. \/ redis # None /\ Found(s)
          \/ redis = None /\ mem'[s] # None /\ state'[s]["access"] # None
             /\ Goto(s, "access", "initstore")
             /\ \A t \in Server \ {s} : mem'[t] = mem[t]
                                        /\ \A j \in Task : state'[t][j] = state[t][j]
      BY <1>6, NewStateIs DEF DoubleCheck
    <2>2. state'[s]["timer"] = state[s]["timer"] /\ pc'[s]["timer"] = pc[s]["timer"]
      BY <1>6 DEF DoubleCheck, Found, Return
    <2>3. Frame(s)
      BY <1>6, <2>1 DEF DoubleCheck, Found, Return, Frame
    <2>4. LeaderWorks(s)' /\ TimerInTime(s)'
      BY <1>6, <2>1, <2>2 DEF DoubleCheck, Found, Return, Served1, LeaderWorks, TimerInTime,
                              Rotating, RotatingPC, RotatePC
    <2>5. LeaderAlone(s)' /\ LeaderRemembers(s)'
      BY <1>6, <2>1, <2>2 DEF DoubleCheck, Found, Return, Served1, LeaderAlone,
                              LeaderRemembers, Due, InitPC
    <2>6. AccessHolds(s)'
      BY <1>6, <2>1, <2>2 DEF DoubleCheck, Found, Return, Served1, AccessHolds, Absent
    <2> QED
      BY <1>6, <2>3, <2>4, <2>5, <2>6, ServedStep DEF DoubleCheck, Served1
  <1>7. CASE InitStore(s)
    <2>1. Frame(s)
      BY <1>7 DEF InitStore, Frame
    <2>2. redis' # None /\ redis'.changeAt = now + Refresh
      BY <1>7 DEF InitStore, TurnInv, StoredNext
    <2>3. LeaderWorks(s)' /\ TimerInTime(s)'
      BY <1>2, <1>7, <2>2 DEF InitStore, Served1, LeaderWorks, TimerInTime, Rotating,
                              RotatingPC, RotatePC
    <2>4. LeaderAlone(s)' /\ LeaderRemembers(s)'
      BY <1>7 DEF InitStore, Served1, LeaderAlone, LeaderRemembers, Due, InitPC
    <2>5. AccessHolds(s)'
      BY <1>7 DEF InitStore, Served1, AccessHolds, Absent
    <2> QED
      BY <1>7, <2>1, <2>2, <2>3, <2>4, <2>5, ServedStep DEF InitStore, Served1
  <1>8. CASE InitSchedule(s)
    <2>1. Frame(s)
      BY <1>8 DEF InitSchedule, SetAlarm, Frame, HazardTypeOK
    <2>2. /\ alarm'[s] = IF lease = s THEN now + Refresh ELSE alarm[s]
          /\ leading'[s] = (lease = s) /\ lease' = lease /\ lpc' = lpc
          /\ redis # None /\ redis.changeAt = now + Refresh
      BY <1>8 DEF InitSchedule, SetAlarm, HazardTypeOK, Served1, TimerInTime
    <2>3. LeaderWorks(s)' /\ TimerInTime(s)'
      BY <1>2, <1>8, <2>2 DEF InitSchedule, Served1, LeaderWorks, TimerInTime, Rotating,
                              RotatingPC, RotatePC
    <2>4. LeaderAlone(s)' /\ LeaderRemembers(s)'
      BY <1>2, <1>8, <2>2, HazardAssumption DEF InitSchedule, Served1, LeaderAlone,
                                                LeaderRemembers, Due, InitPC
    <2>5. AccessHolds(s)'
      BY <1>8, <2>2 DEF InitSchedule, Served1, AccessHolds, Absent
    <2> QED
      BY <1>8, <2>1, <2>2, <2>3, <2>4, <2>5, ServedStep DEF InitSchedule, Served1
  <1>9. CASE Listen(s)
    <2>1. PICK label \in {"unlock", "initschedule", "done"} :
             /\ Goto(s, "access", label)
             /\ label = AfterListen[pc[s]["access"]]
      BY <1>9 DEF Listen, AfterListen
    <2>2. listening \subseteq listening' /\ listening' \subseteq listening \cup {s}
      BY <1>9 DEF Listen, Subscribe
    <2>3. Frame(s)
      BY <1>9, <2>1, <2>2 DEF Listen, Frame
    <2>4. LeaderWorks(s)' /\ TimerInTime(s)'
      BY <1>9, <2>1 DEF Listen, Subscribe, AfterListen, Served1, LeaderWorks, TimerInTime,
                        Rotating, RotatingPC, RotatePC
    <2>5. LeaderAlone(s)' /\ LeaderRemembers(s)'
      BY <1>9, <2>1 DEF Listen, Subscribe, AfterListen, Served1, LeaderAlone, LeaderRemembers,
                        Due, InitPC
    <2>6. AccessHolds(s)'
      BY <1>9, <2>1, <2>2 DEF Listen, Subscribe, AfterListen, Served1, AccessHolds, Absent
    <2> QED
      BY <1>9, <2>3, <2>4, <2>5, <2>6, ServedStep DEF Listen, Served1
  <1>10. CASE Unlock(s)
    <2>1. Frame(s)
      BY <1>10, LeaderAssumption DEF Unlock, Frame, HazardTypeOK
    <2>2. LeaderWorks(s)' /\ TimerInTime(s)'
      BY <1>10 DEF Unlock, Served1, LeaderWorks, TimerInTime, Rotating, RotatingPC, RotatePC
    <2>3. LeaderAlone(s)' /\ LeaderRemembers(s)'
      BY <1>10 DEF Unlock, Served1, LeaderAlone, LeaderRemembers, Due, InitPC
    <2>4. AccessHolds(s)'
      BY <1>10, LeaderAssumption DEF Unlock, Served1, LeaderRemembers, AccessHolds, Absent
    <2> QED
      BY <1>10, <2>1, <2>2, <2>3, <2>4, ServedStep DEF Unlock, Served1
  <1>11. CASE InitFails(s)
    BY <1>11 DEF InitFails
  <1>12. CASE Fallback(s)
    <2>1. redis' # None /\ redis'.changeAt = now + Refresh /\ state'[s]["access"] # None
      BY <1>12, NewStateIs DEF Fallback
    <2>2. listening \subseteq listening' /\ listening' \subseteq listening \cup {s}
      BY <1>12 DEF Fallback, Subscribe
    <2>3. Frame(s) /\ lease' = lease /\ lpc' = lpc /\ leading' = leading
      BY <1>12, <2>2 DEF Fallback, Frame
    <2>4. LeaderWorks(s)' /\ TimerInTime(s)'
      BY <1>2, <1>12, <2>1 DEF Fallback, Served1, LeaderWorks, TimerInTime, Rotating,
                               RotatingPC, RotatePC
    <2>5. LeaderAlone(s)' /\ LeaderRemembers(s)'
      BY <1>12, <2>1 DEF Fallback, Served1, LeaderAlone, LeaderRemembers, Due, InitPC
    <2>6. AccessHolds(s)'
      BY <1>12, <2>1, <2>2 DEF Fallback, Served1, AccessHolds, Absent
    <2> QED
      BY <1>12, <2>1, <2>3, <2>4, <2>5, <2>6, ServedStep DEF Fallback, Served1
  <1> QED
    BY <1>3, <1>4, <1>5, <1>6, <1>7, <1>8, <1>9, <1>10, <1>11, <1>12 DEF Initialization

LEMMA OtherServed ==
    ASSUME THInv, Mild, \A t \in Server : Served1(t),
           \/ \E s \in Server : BootServer(s) \/ CrashServer(s)
           \/ LeaseStep \/ Tick \/ RedisExpires \/ InitLockExpires \/ UNCHANGED allVars
    PROVE  \A t \in Server : Served1(t)'
  <1>1. HazardTypeOK /\ TurnInv /\ LInv /\ Task = {"timer", "access"}
    BY DEF THInv, HInv, Task
  <1>2. now \in Nat /\ Refresh \in Nat
    BY <1>1, HazardAssumption DEF HazardTypeOK
  <1> USE <1>1, NoFailingCall DEF sharedVars, localVars, subVars, leaderVars, electionVars, faultVars
  <1>3. ASSUME NEW s \in Server, BootServer(s), NEW t \in Server PROVE Served1(t)'
    <2>1. /\ lpc[s] = "down" /\ lpc'[s] = "idle"
          /\ \A q \in Server \ {s} : lpc'[q] = lpc[q] /\ leading'[q] = leading[q]
          /\ \/ lease = Free /\ lease' = s
             \/ lease' = lease /\ leading' = leading
      BY <1>3 DEF BootServer, Boot, TryBecomeLeader, Believe, HazardTypeOK, LeaderTypeOK
    <2>2. Absent(s)
      BY <2>1 DEF Served1, AccessHolds, Up
    <2>3. UNCHANGED <<sharedVars, localVars>>
      BY <1>3 DEF BootServer
    <2>4. CASE t = s
      BY <2>1, <2>2, <2>3, <2>4 DEF Served1, LeaderWorks, TimerInTime, LeaderAlone,
         LeaderRemembers, AccessHolds, Absent, Rotating, RotatingPC, RotatePC, InitPC, Due, Up
    <2>5. CASE t # s
      <3>1. lease' = t => lease = t
        BY <2>1, <2>5
      <3>2. lease = t => lease' = t
        BY <2>1, LeaderAssumption
      <3> QED
        BY <2>1, <2>3, <2>5, <3>1, <3>2 DEF Served1, LeaderWorks, TimerInTime, LeaderAlone,
           LeaderRemembers, AccessHolds, Absent, Rotating, Due, Up
    <2> QED
      BY <2>4, <2>5
  <1>4. ASSUME NEW s \in Server, CrashServer(s), NEW t \in Server PROVE Served1(t)'
    <2>1. /\ lpc'[s] = "down" /\ lease' = lease /\ redis' = redis /\ now' = now
          /\ \A q \in Server \ {s} : lpc'[q] = lpc[q] /\ leading'[q] = leading[q]
      BY <1>4 DEF CrashServer, Crash, Believe, HazardTypeOK, LeaderTypeOK
    <2>2. /\ \A k \in Task : pc'[s][k] = "idle"
          /\ ~asLeader'[s] /\ alarm'[s] = None
          /\ s \notin listening' \cup inbox' /\ initLock' # s
          /\ inbox' \subseteq inbox
      BY <1>4, HazardAssumption DEF CrashServer, HazardTypeOK
    <2>3. Frame(s)
      <3>1. ASSUME NEW t2 \in Server \ {s}
            PROVE  /\ mem'[t2] = mem[t2] /\ alarm'[t2] = alarm[t2] /\ asLeader'[t2] = asLeader[t2]
                   /\ pc'[t2] = pc[t2] /\ state'[t2] = state[t2]
        BY <1>4 DEF CrashServer, Remember, HazardTypeOK
      <3>2. listening' = listening \ {s} /\ initLock' \in {initLock, None}
        BY <1>4 DEF CrashServer
      <3> QED
        BY <2>1, <3>1, <3>2, HazardAssumption DEF Frame
    <2>4. CASE t = s
      BY <2>1, <2>2, <2>4 DEF Served1, LeaderWorks, TimerInTime, LeaderAlone,
         LeaderRemembers, AccessHolds, Absent, Rotating, RotatingPC, RotatePC, InitPC, Up
    <2>5. CASE t # s
      BY <2>1, <2>2, <2>3, <2>5, ServedKept DEF Frame
    <2> QED
      BY <2>4, <2>5
  <1>5. ASSUME LeaseStep, NEW t \in Server PROVE Served1(t)'
    <2>1. UNCHANGED <<sharedVars, localVars>>
      BY <1>5 DEF LeaseStep
    <2>2. ASSUME lease' = lease, leading'[t] = leading[t] \/ lease # t,
                 lpc'[t] # "regain", Up(t)' <=> Up(t)
          PROVE  Served1(t)'
      BY <2>1, <2>2 DEF Served1, LeaderWorks, TimerInTime, LeaderAlone,
         LeaderRemembers, AccessHolds, Absent, Rotating, Due
    <2>3. CASE LeaseExpires
      <3>1. ~leading[lease] /\ lease' = Free /\ leading' = leading /\ lpc' = lpc
        BY <2>3 DEF LeaseExpires
      <3>2. lease' # t
        BY <3>1, LeaderAssumption
      <3> QED
        BY <2>1, <3>1, <3>2 DEF Served1, LeaderWorks, TimerInTime, LeaderAlone,
           LeaderRemembers, AccessHolds, Absent, Rotating, Due, Up
    <2>4. ASSUME NEW s \in Server, Renew(s) PROVE Served1(t)'
      <3>1. lpc[s] # "regain" /\ lpc[t] # "regain"
        BY DEF Served1, AccessHolds
      <3>2. CASE RenewRead(s)
        BY <2>2, <3>1, <3>2 DEF RenewRead, Believe, Up, HazardTypeOK, LeaderTypeOK
      <3>3. CASE RenewWrite(s)
        <4>1. lease = s
          BY <3>3 DEF RenewWrite, LInv, RenewerHolds, Mild
        <4> QED
          BY <2>2, <3>1, <3>3, <4>1 DEF RenewWrite, Up, HazardTypeOK, LeaderTypeOK
      <3> QED
        BY <2>4, <3>1, <3>2, <3>3 DEF Renew, RenewFails, Regain
    <2> QED
      BY <1>5, <2>3, <2>4 DEF LeaseStep
  <1>6. ASSUME Tick, NEW t \in Server PROVE Served1(t)'
    <2>1. /\ now' = now + 1 /\ inbox = {} /\ ~Due(t)
          /\ \A k \in Task : pc[t][k] = "idle"
          /\ UNCHANGED <<leaderVars, redis, initLock, inbox, localVars>>
      BY <1>6 DEF Tick, Quiet
    <2>2. alarm[t] # None => alarm[t] \in Nat
      BY HazardAssumption DEF HazardTypeOK, Time
    <2>3. alarm[t] # None => alarm[t] <= now' + Refresh
      BY <1>2, <2>1, <2>2 DEF Served1, TimerInTime
    <2>4. TimerInTime(t)'
      BY <2>1, <2>3 DEF Served1, TimerInTime
    <2>5. LeaderAlone(t)' /\ LeaderRemembers(t)'
      BY <2>1 DEF Served1, LeaderAlone, LeaderRemembers, InitPC
    <2> QED
      BY <2>1, <2>4, <2>5 DEF Served1, LeaderWorks, AccessHolds, Absent, Rotating, Up
  <1>7. ASSUME RedisExpires, NEW t \in Server PROVE Served1(t)'
    <2>1. /\ redis # None /\ now >= redis.changeAt /\ inbox = {} /\ ~Due(t)
          /\ \A k \in Task : pc[t][k] = "idle"
          /\ UNCHANGED <<leaderVars, now, initLock, inbox, localVars>>
      BY <1>7 DEF RedisExpires, Quiet, Expired
    <2>2. alarm[t] = None
      <3>1. CASE alarm[t] # None
        <4>1. alarm[t] <= redis.changeAt /\ ~(now >= alarm[t])
          BY <2>1, <3>1 DEF Served1, TimerInTime, Due
        <4>2. alarm[t] \in Nat /\ redis.changeAt \in Nat
          BY <2>1, <3>1, HazardAssumption DEF HazardTypeOK, Time, Loaded, HazardState
        <4> QED
          BY <1>2, <2>1, <4>1, <4>2
      <3> QED
        BY <3>1
    <2> QED
      BY <2>1, <2>2 DEF Served1, LeaderWorks, TimerInTime, LeaderAlone, LeaderRemembers,
         AccessHolds, Absent, Rotating, InitPC, Up
  <1>8. ASSUME InitLockExpires, NEW t \in Server PROVE Served1(t)'
    BY <1>8, LeaderAssumption DEF InitLockExpires, Served1, LeaderWorks, TimerInTime,
                                  LeaderAlone,
       LeaderRemembers, AccessHolds, Absent, Rotating, Due, Up
  <1>9. ASSUME UNCHANGED allVars, NEW t \in Server PROVE Served1(t)'
    BY <1>9 DEF allVars, Served1, LeaderWorks, TimerInTime, LeaderAlone,
       LeaderRemembers, AccessHolds, Absent, Rotating, Due, Up
  <1> QED
    BY <1>3, <1>4, <1>5, <1>6, <1>7, <1>8, <1>9

\* The kinds of fault are never forgotten.
LEMMA FaultsRemembered == ASSUME HazardTypeOK, [HazardNext]_allVars PROVE happened \subseteq happened'
  <1>1. [LeaderNext]_leaderVars
    BY HazardStepIsLeaderStep
  <1>2. ASSUME NEW s \in Server, Boot(s) \/ CheckLeader(s) \/ Crash(s)
        PROVE  happened \subseteq happened'
    BY <1>2 DEF Boot, TryBecomeLeader, CheckLeader, IsLeader, Crash, Fault, faultVars
  <1>3. ASSUME NEW s \in Server, Renew(s)
        PROVE  happened \subseteq happened'
    BY <1>3 DEF Renew, RenewRead, RenewWrite, RenewFails, Regain, TryBecomeLeader, Fault,
                faultVars
  <1> QED
    BY <1>1, <1>2, <1>3 DEF LeaderNext, LeaseExpires, Flush, Late, Fault, faultVars, leaderVars

LEMMA ServedNext == SHInv /\ [HazardNext]_allVars => SHInv'
  <1> SUFFICES ASSUME SHInv, [HazardNext]_allVars PROVE SHInv'
    OBVIOUS
  <1>1. THInv'
    BY TurnNext DEF SHInv
  <1>2. ASSUME happened' \subseteq {"crash", "late"} PROVE \A t \in Server : Served1(t)'
    <2>1. THInv /\ Mild /\ \A t \in Server : Served1(t)
      BY <1>2, FaultsRemembered DEF SHInv, ServedInv, Served1, THInv, HInv, Mild
    <2> QED
      BY <2>1, RotationServed, ReadingServed, InitializationServed, OtherServed DEF HazardNext
  <1> QED
    BY <1>1, <1>2 DEF SHInv, ServedInv, Served1

LEMMA ServedInit == HazardInit => SHInv
  <1> SUFFICES ASSUME HazardInit PROVE SHInv
    OBVIOUS
  <1>1. /\ inbox = {} /\ listening = {} /\ initLock = Free
        /\ \A s \in Server : /\ lpc[s] = "down" /\ ~asLeader[s] /\ alarm[s] = None
                             /\ \A k \in Task : pc[s][k] = "idle"
    BY DEF HazardInit, LeaderInit
  <1>2. ServedInv
    BY <1>1, LeaderAssumption DEF ServedInv, LeaderWorks, TimerInTime, LeaderAlone,
                                  LeaderRemembers,
       AccessHolds, Absent, Rotating, RotatingPC, RotatePC, InitPC, Task, Up
  <1> QED
    BY <1>2, TurnInit DEF SHInv

\* As long as no call fails, an access never ends without hazards, for any number of
\* servers of which any number crash at any time, and whether Redis keeps a state or not.
THEOREM HazardsAreServed == HazardSpec => []HazardsServed
  <1>1. HazardSpec => []SHInv
    BY ServedInit, ServedNext, PTL DEF HazardSpec
  <1>2. SHInv => HazardsServed
    BY DEF SHInv, ServedInv, AccessHolds, HazardsServed
  <1> QED
    BY <1>1, <1>2, PTL

-----------------------------------------------------------------------------
(* Subscribers remember nothing but what Redis holds *)

Coherent1 == /\ initLock # None
             /\ redis = None => listening = {}
             /\ redis = None \/ (\E s \in Server : Making(s)) => FirstTurn
             /\ \A s \in Server : OneInitializer(s) /\ LeaderStays(s) /\ ToldOrCurrent(s)

CHInv == SHInv /\ CoherentInv

\* Nothing has failed, nor fails in this step, and Redis keeps its state.
Calm == happened = {} /\ happened' = {} /\ ~lapsed /\ ~lapsed'

LEMMA CalmHasNoFault == ASSUME Calm PROVE Mild /\ \A kind : ~Fault(kind)
  BY DEF Calm, Mild, Fault

\* A step of server s that changes neither what Redis holds nor a message.
LEMMA CoherentStep ==
    ASSUME Coherent1, NEW s \in Server, Frame(s), lease' = lease, lpc' = lpc,
           now' = now, redis' = redis, inbox' = inbox,
           initLock' # None, initLock \in Server => initLock' \in Server \/ redis # None,
           redis = None => listening' = {},
           \A k \in Task : pc[s][k] \in {"store", "notify"} => pc'[s][k] \in {"store",
           "notify"},
           OneInitializer(s)', LeaderStays(s)', ToldOrCurrent(s)',
           Making(s)' => FirstTurn, FirstTurn => AtFirst(s)',
           \A t \in Server \ {s} : initLock = t => initLock' = t
    PROVE  Coherent1'
  <1>1. "timer" \in Task /\ "access" \in Task
    BY DEF Task
  <1>2. ASSUME NEW t \in Server \ {s}
        PROVE  /\ OneInitializer(t)' /\ LeaderStays(t)'
               /\ Making(t)' => Making(t)
               /\ AtFirst(t) => AtFirst(t)'
    BY <1>1, <1>2 DEF Coherent1, Frame, OneInitializer, LeaderStays, Making, AtFirst, Due, Up
  <1>3. ASSUME NEW t \in Server \ {s}
        PROVE  ToldOrCurrent(t)'
    <2>1. CASE \E q \in Server, k \in Task : pc[q][k] \in {"store", "notify"}
      <3>1. PICK q \in Server, k \in Task : pc[q][k] \in {"store", "notify"}
        BY <2>1
      <3>2. pc'[q][k] \in {"store", "notify"}
        BY <3>1 DEF Frame
      <3> QED
        BY <3>2 DEF ToldOrCurrent
    <2>2. CASE ~\E q \in Server, k \in Task : pc[q][k] \in {"store", "notify"}
      BY <2>2 DEF Coherent1, Frame, ToldOrCurrent, Expired
    <2> QED
      BY <2>1, <2>2
  <1>4. FirstTurn => FirstTurn'
    BY <1>2 DEF FirstTurn
  <1>5. redis' = None \/ (\E t \in Server : Making(t)') => FirstTurn
    BY <1>2 DEF Coherent1
  <1>6. \A t \in Server : OneInitializer(t)' /\ LeaderStays(t)' /\ ToldOrCurrent(t)'
    BY <1>2, <1>3
  <1> QED
    BY <1>4, <1>5, <1>6 DEF Coherent1

LEMMA ReadingCoherent ==
    ASSUME THInv, Calm, \A t \in Server : Served1(t), Coherent1, NEW s \in Server,
           Reading(s) \/ Access(s) \/ AlarmFires(s)
    PROVE  Coherent1'
  <1>1. HazardTypeOK /\ TurnInv /\ Task = {"timer", "access"} /\ Mild /\ ~Fault("net")
    BY CalmHasNoFault DEF THInv, HInv, Task
  <1>2. now \in Nat /\ Refresh \in Nat
    BY <1>1, HazardAssumption DEF HazardTypeOK
  <1>3. FirstTurn => ~Expired(redis)
    BY <1>2, HazardAssumption DEF FirstTurn, Expired
  <1> USE <1>1, TaskStep, AnswerIsTrue
          DEF sharedVars, calmVars, subVars, leaderVars, electionVars, faultVars, At, Up
  <1>4. CASE Load(s)
    <2>1. Frame(s)
      BY <1>4 DEF Load, Return, Frame
    <2>2. OneInitializer(s)' /\ LeaderStays(s)'
      BY <1>4 DEF Load, Return, Coherent1, OneInitializer, LeaderStays
    <2>3. ToldOrCurrent(s)'
      BY <1>4 DEF Load, Return, Coherent1, ToldOrCurrent, Expired
    <2>4. Making(s)' => FirstTurn
      BY <1>4 DEF Load, Return, Coherent1, Making, MakingPC, InitPC
    <2>5. FirstTurn => AtFirst(s)'
      BY <1>4, <1>3 DEF Load, Return, RotatePC, FirstTurn, AtFirst, Due
    <2>6. \A j \in Task : pc[s][j] \in {"store", "notify"} => pc'[s][j] \in {"store", "notify"}
      BY <1>4 DEF Load, Return
    <2> QED
      BY <1>4, <2>1, <2>2, <2>3, <2>4, <2>5, <2>6, CoherentStep DEF Load, Coherent1
  <1>5. CASE ExpiredChecks(s)
    <2>1. Frame(s)
      BY <1>5 DEF ExpiredChecks, Frame
    <2>2. OneInitializer(s)' /\ LeaderStays(s)'
      BY <1>5 DEF ExpiredChecks, Coherent1, OneInitializer, LeaderStays
    <2>3. ToldOrCurrent(s)'
      BY <1>5 DEF ExpiredChecks, Coherent1, ToldOrCurrent, Expired
    <2>4. Making(s)' => FirstTurn
      BY <1>5 DEF ExpiredChecks, Coherent1, Making, MakingPC, InitPC
    <2>5. FirstTurn => AtFirst(s)'
      BY <1>5, <1>3 DEF ExpiredChecks, RotatePC, FirstTurn, AtFirst, Due
    <2>6. \A j \in Task : pc[s][j] \in {"store", "notify"} => pc'[s][j] \in {"store", "notify"}
      BY <1>5 DEF ExpiredChecks
    <2> QED
      BY <1>5, <2>1, <2>2, <2>3, <2>4, <2>5, <2>6, CoherentStep DEF ExpiredChecks, Coherent1
  <1>6. CASE Reread(s)
    <2>0. state[s]["access"] # None
      BY <1>6 DEF Reread, TurnInv, ExpiredHeld
    <2>1. Frame(s)
      BY <1>6, <2>0 DEF Reread, Return, Frame
    <2>2. OneInitializer(s)' /\ LeaderStays(s)'
      BY <1>6, <2>0 DEF Reread, Return, Coherent1, OneInitializer, LeaderStays
    <2>3. ToldOrCurrent(s)'
      BY <1>6, <2>0 DEF Reread, Return, Coherent1, ToldOrCurrent, Expired
    <2>4. Making(s)' => FirstTurn
      BY <1>6, <2>0 DEF Reread, Return, Coherent1, Making, MakingPC, InitPC
    <2>5. FirstTurn => AtFirst(s)'
      BY <1>6, <1>3, <2>0 DEF Reread, Return, RotatePC, FirstTurn, AtFirst, Due
    <2>6. \A j \in Task : pc[s][j] \in {"store", "notify"} => pc'[s][j] \in {"store", "notify"}
      BY <1>6, <2>0 DEF Reread, Return
    <2> QED
      BY <1>6, <2>1, <2>2, <2>3, <2>4, <2>5, <2>6, CoherentStep DEF Reread, Coherent1
  <1>7. CASE EmptyChecks(s)
    <2>1. Frame(s)
      BY <1>7 DEF EmptyChecks, Frame
    <2>2. OneInitializer(s)' /\ LeaderStays(s)'
      BY <1>7 DEF EmptyChecks, Coherent1, OneInitializer, LeaderStays
    <2>3. ToldOrCurrent(s)'
      BY <1>7 DEF EmptyChecks, Coherent1, ToldOrCurrent, Expired
    <2>4. Making(s)' => FirstTurn
      BY <1>7 DEF EmptyChecks, Coherent1, Making, MakingPC, InitPC
    <2>5. FirstTurn => AtFirst(s)'
      BY <1>7, <1>3 DEF EmptyChecks, RotatePC, FirstTurn, AtFirst, Due
    <2>6. \A j \in Task : pc[s][j] \in {"store", "notify"} => pc'[s][j] \in {"store", "notify"}
      BY <1>7 DEF EmptyChecks
    <2> QED
      BY <1>7, <2>1, <2>2, <2>3, <2>4, <2>5, <2>6, CoherentStep DEF EmptyChecks, Coherent1
  <1>8. CASE Wait(s)
    <2>1. Frame(s)
      BY <1>8 DEF Wait, Frame
    <2>2. OneInitializer(s)' /\ LeaderStays(s)'
      BY <1>8 DEF Wait, Coherent1, OneInitializer, LeaderStays
    <2>3. ToldOrCurrent(s)'
      BY <1>8 DEF Wait, Coherent1, ToldOrCurrent, Expired
    <2>4. Making(s)' => FirstTurn
      BY <1>8 DEF Wait, Coherent1, Making, MakingPC, InitPC
    <2>5. FirstTurn => AtFirst(s)'
      BY <1>8, <1>3 DEF Wait, RotatePC, FirstTurn, AtFirst, Due
    <2>6. \A j \in Task : pc[s][j] \in {"store", "notify"} => pc'[s][j] \in {"store", "notify"}
      BY <1>8 DEF Wait
    <2> QED
      BY <1>8, <2>1, <2>2, <2>3, <2>4, <2>5, <2>6, CoherentStep DEF Wait, Coherent1
  <1>9. CASE AccessFails(s)
    BY <1>9 DEF AccessFails
  <1>10. CASE Served(s)
    <2>1. Frame(s)
      BY <1>10 DEF Served, Frame
    <2>2. OneInitializer(s)' /\ LeaderStays(s)'
      BY <1>10 DEF Served, Coherent1, OneInitializer, LeaderStays
    <2>3. ToldOrCurrent(s)'
      BY <1>10 DEF Served, Coherent1, ToldOrCurrent, Expired
    <2>4. Making(s)' => FirstTurn
      BY <1>10 DEF Served, Coherent1, Making, MakingPC, InitPC
    <2>5. FirstTurn => AtFirst(s)'
      BY <1>10, <1>3 DEF Served, RotatePC, FirstTurn, AtFirst, Due
    <2>6. \A j \in Task : pc[s][j] \in {"store", "notify"} => pc'[s][j] \in {"store", "notify"}
      BY <1>10 DEF Served
    <2> QED
      BY <1>10, <2>1, <2>2, <2>3, <2>4, <2>5, <2>6, CoherentStep DEF Served, Coherent1
  <1>11. CASE Access(s)
    <2>1. Frame(s)
      BY <1>11 DEF Access, Frame
    <2>2. OneInitializer(s)' /\ LeaderStays(s)'
      BY <1>11 DEF Access, Coherent1, OneInitializer, LeaderStays
    <2>3. ToldOrCurrent(s)'
      BY <1>11 DEF Access, Coherent1, ToldOrCurrent, Expired
    <2>4. Making(s)' => FirstTurn
      BY <1>11 DEF Access, Coherent1, Making, MakingPC, InitPC
    <2>5. FirstTurn => AtFirst(s)'
      BY <1>11, <1>3 DEF Access, RotatePC, FirstTurn, AtFirst, Due
    <2>6. \A j \in Task : pc[s][j] \in {"store", "notify"} => pc'[s][j] \in {"store", "notify"}
      BY <1>11 DEF Access
    <2> QED
      BY <1>11, <2>1, <2>2, <2>3, <2>4, <2>5, <2>6, CoherentStep DEF Access, Coherent1
  <1>12. CASE AlarmFires(s)
    <2>1. Frame(s)
      BY <1>12 DEF AlarmFires, Frame
    <2>2. OneInitializer(s)' /\ LeaderStays(s)'
      BY <1>12 DEF AlarmFires, Coherent1, OneInitializer, LeaderStays
    <2>3. ToldOrCurrent(s)'
      BY <1>12 DEF AlarmFires, Coherent1, ToldOrCurrent, Expired
    <2>4. Making(s)' => FirstTurn
      BY <1>12 DEF AlarmFires, Coherent1, Making, MakingPC, InitPC
    <2>5. FirstTurn => AtFirst(s)'
      BY <1>12, <1>3 DEF AlarmFires, RotatePC, FirstTurn, AtFirst, Due
    <2>6. \A j \in Task : pc[s][j] \in {"store", "notify"} => pc'[s][j] \in {"store", "notify"}
      BY <1>12 DEF AlarmFires
    <2> QED
      BY <1>12, <2>1, <2>2, <2>3, <2>4, <2>5, <2>6, CoherentStep DEF AlarmFires, Coherent1
  <1> QED
    BY <1>4, <1>5, <1>6, <1>7, <1>8, <1>9, <1>10, <1>11, <1>12 DEF Reading

LEMMA RotationCoherent ==
    ASSUME THInv, Calm, \A t \in Server : Served1(t), Coherent1, NEW s \in Server,
           NEW k \in Task, Rotation(s, k)
    PROVE  Coherent1'
  <1>1. HazardTypeOK /\ TurnInv /\ Task = {"timer", "access"} /\ Mild /\ ~Fault("net")
    BY CalmHasNoFault DEF THInv, HInv, Task
  <1>2. now \in Nat /\ Refresh \in Nat
    BY <1>1, HazardAssumption DEF HazardTypeOK
  <1>3. ~FirstTurn
    BY <1>1 DEF Rotation, RotateCheck, Rotate, RotateStore, RotateNotify, RotateSchedule,
                RotateFails,
                At, FirstTurn, AtFirst, RotatePC
  <1>4. redis # None /\ \A t \in Server : ~Making(t)
    BY <1>3 DEF Coherent1
  <1>5. lease = s
    BY <1>1 DEF Rotation, RotateCheck, Rotate, RotateStore, RotateNotify, RotateSchedule,
                RotateFails,
                At, Coherent1, LeaderStays, Served1, LeaderWorks, Rotating, RotatingPC, RotatePC
  <1> USE <1>1, <1>3, <1>4, <1>5, TaskStep, AnswerIsTrue
          DEF sharedVars, calmVars, subVars, leaderVars, electionVars, faultVars, At, Up
  <1>6. CASE RotateCheck(s, k)
    <2>1. Frame(s)
      BY <1>6 DEF RotateCheck, IdleTimer, Frame
    <2>2. OneInitializer(s)' /\ LeaderStays(s)'
      BY <1>6 DEF RotateCheck, IdleTimer, Coherent1, OneInitializer, LeaderStays
    <2>3. ToldOrCurrent(s)'
      BY <1>6 DEF RotateCheck, IdleTimer, Coherent1, ToldOrCurrent, Expired
    <2>4. Making(s)' => FirstTurn
      BY <1>6 DEF RotateCheck, IdleTimer, Coherent1, Making, MakingPC, InitPC
    <2>5. FirstTurn => AtFirst(s)'
      BY <1>3
    <2>6. \A j \in Task : pc[s][j] \in {"store", "notify"} => pc'[s][j] \in {"store", "notify"}
      BY <1>6 DEF RotateCheck, IdleTimer
    <2> QED
      BY <1>6, <2>1, <2>2, <2>3, <2>4, <2>5, <2>6, CoherentStep DEF RotateCheck, Coherent1
  <1>7. CASE Rotate(s, k)
    <2>1. Frame(s)
      BY <1>7 DEF Rotate, Frame
    <2>2. OneInitializer(s)' /\ LeaderStays(s)'
      BY <1>7 DEF Rotate, Coherent1, OneInitializer, LeaderStays,
                  Making, MakingPC, InitPC
    <2>3. ToldOrCurrent(s)'
      BY <1>7 DEF Rotate, ToldOrCurrent
    <2>4. Making(s)' => FirstTurn
      BY <1>7 DEF Rotate, Coherent1, Making, MakingPC, InitPC
    <2>5. FirstTurn => AtFirst(s)'
      BY <1>3
    <2>6. \A j \in Task : pc[s][j] \in {"store", "notify"} => pc'[s][j] \in {"store", "notify"}
      BY <1>7 DEF Rotate
    <2> QED
      BY <1>7, <2>1, <2>2, <2>3, <2>4, <2>5, <2>6, CoherentStep DEF Rotate, Coherent1
  <1>8. CASE RotateSchedule(s, k)
    <2>1. Frame(s)
      BY <1>8 DEF RotateSchedule, IdleTimer, Return, SetAlarm, Frame
    <2>2. OneInitializer(s)' /\ LeaderStays(s)'
      BY <1>8 DEF RotateSchedule, IdleTimer, Return, SetAlarm, Coherent1, OneInitializer,
                  LeaderStays,
                  Served1, AccessHolds
    <2>3. ToldOrCurrent(s)'
      BY <1>8 DEF RotateSchedule, IdleTimer, Return, Coherent1, ToldOrCurrent, Expired
    <2>4. Making(s)' => FirstTurn
      BY <1>8 DEF RotateSchedule, IdleTimer, Return, SetAlarm, Coherent1, Making, MakingPC,
                  InitPC,
                  Served1, AccessHolds
    <2>5. FirstTurn => AtFirst(s)'
      BY <1>3
    <2>6. \A j \in Task : pc[s][j] \in {"store", "notify"} => pc'[s][j] \in {"store", "notify"}
      BY <1>8 DEF RotateSchedule, IdleTimer, Return
    <2> QED
      BY <1>8, <2>1, <2>2, <2>3, <2>4, <2>5, <2>6, CoherentStep DEF RotateSchedule, Coherent1
  <1>9. CASE RotateStore(s, k)
    <2>1. Frame(s) /\ redis' # None
      BY <1>9 DEF RotateStore, Frame, TurnInv, StoredNext
    <2>2. ASSUME NEW t \in Server
          PROVE  /\ ~Making(t)' /\ LeaderStays(t)' /\ OneInitializer(t)' /\ ToldOrCurrent(t)'
      <3>1. ~Making(t)'
        BY <1>9, <2>1 DEF RotateStore, Making, MakingPC, InitPC
      <3>2. LeaderStays(t)'
        BY <1>9 DEF RotateStore, Coherent1, LeaderStays
      <3>3. OneInitializer(t)'
        BY <1>9, <3>1 DEF RotateStore, Coherent1, OneInitializer, Making, MakingPC, InitPC
      <3>4. ToldOrCurrent(t)'
        BY <1>9 DEF RotateStore, ToldOrCurrent
      <3> QED
        BY <3>1, <3>2, <3>3, <3>4
    <2> QED
      BY <1>9, <2>1, <2>2 DEF RotateStore, Coherent1
  <1>10. CASE RotateNotify(s, k)
    <2>1. ASSUME NEW t \in Server
          PROVE  /\ ~Making(t)' /\ LeaderStays(t)' /\ OneInitializer(t)' /\ ToldOrCurrent(t)'
      <3>1. ~Making(t)'
        BY <1>10 DEF RotateNotify, Making, MakingPC, InitPC
      <3>2. LeaderStays(t)'
        BY <1>10 DEF RotateNotify, Coherent1, LeaderStays
      <3>3. OneInitializer(t)'
        BY <1>10 DEF RotateNotify, Coherent1, OneInitializer
      <3>4. ToldOrCurrent(t)'
        BY <1>10 DEF RotateNotify, ToldOrCurrent
      <3> QED
        BY <3>1, <3>2, <3>3, <3>4
    <2> QED
      BY <1>10, <2>1 DEF RotateNotify, Coherent1
  <1>11. CASE RotateFails(s, k)
    BY <1>11 DEF RotateFails
  <1> QED
    BY <1>6, <1>7, <1>8, <1>9, <1>10, <1>11 DEF Rotation

LEMMA InitializationCoherent ==
    ASSUME THInv, Calm, \A t \in Server : Served1(t), Coherent1, NEW s \in Server,
           Initialization(s)
    PROVE  Coherent1'
  <1>1. HazardTypeOK /\ TurnInv /\ Task = {"timer", "access"} /\ Mild /\ ~Fault("net")
    BY CalmHasNoFault DEF THInv, HInv, Task
  <1>2. now \in Nat /\ Refresh \in Nat
    BY <1>1, HazardAssumption DEF HazardTypeOK
  <1>3. FirstTurn => ~Expired(redis)
    BY <1>2, HazardAssumption DEF FirstTurn, Expired
  <1> USE <1>1, TaskStep, AnswerIsTrue
          DEF sharedVars, calmVars, subVars, leaderVars, electionVars, faultVars, At, Up
  <1>4. CASE Initialize(s)
    <2>0. initLock # s
      BY <1>4 DEF Initialize, Served1, AccessHolds
    <2>1. Frame(s)
      BY <1>4, <2>0 DEF Initialize, Found, Return, Frame
    <2>2. OneInitializer(s)' /\ LeaderStays(s)'
      BY <1>4, <2>0 DEF Initialize, Found, Return, Coherent1, OneInitializer, LeaderStays
    <2>3. ToldOrCurrent(s)'
      BY <1>4, <2>0 DEF Initialize, Found, Return, Coherent1, ToldOrCurrent, Expired
    <2>4. Making(s)' => FirstTurn
      BY <1>4, <2>0 DEF Initialize, Found, Return, Coherent1, Making, MakingPC, InitPC
    <2>5. FirstTurn => AtFirst(s)'
      BY <1>4, <1>3, <2>0 DEF Initialize, Found, Return, RotatePC, FirstTurn, AtFirst, Due
    <2>6. \A j \in Task : pc[s][j] \in {"store", "notify"} => pc'[s][j] \in {"store", "notify"}
      BY <1>4, <2>0 DEF Initialize, Found, Return
    <2> QED
      BY <1>4, <2>1, <2>2, <2>3, <2>4, <2>5, <2>6, CoherentStep DEF Initialize, Coherent1
  <1>5. CASE LockWait(s)
    <2>0. redis # None
      BY <1>5, CalmHasNoFault DEF LockWait, WaitEnds, Late, Coherent1, OneInitializer
    <2>1. Frame(s)
      BY <1>5, <2>0 DEF LockWait, Found, Return, Frame
    <2>2. OneInitializer(s)' /\ LeaderStays(s)'
      BY <1>5, <2>0 DEF LockWait, Found, Return, Coherent1, OneInitializer, LeaderStays
    <2>3. ToldOrCurrent(s)'
      BY <1>5, <2>0 DEF LockWait, Found, Return, Coherent1, ToldOrCurrent, Expired
    <2>4. Making(s)' => FirstTurn
      BY <1>5, <2>0 DEF LockWait, Found, Return, Coherent1, Making, MakingPC, InitPC
    <2>5. FirstTurn => AtFirst(s)'
      BY <1>5, <1>3, <2>0 DEF LockWait, Found, Return, RotatePC, FirstTurn, AtFirst, Due
    <2>6. \A j \in Task : pc[s][j] \in {"store", "notify"} => pc'[s][j] \in {"store", "notify"}
      BY <1>5, <2>0 DEF LockWait, Found, Return
    <2> QED
      BY <1>5, <2>1, <2>2, <2>3, <2>4, <2>5, <2>6, CoherentStep DEF LockWait, Coherent1
  <1>6. CASE InitLock(s)
    <2>1. Frame(s)
      BY <1>6, <1>1 DEF InitLock, Frame, HazardTypeOK
    <2>2. OneInitializer(s)' /\ LeaderStays(s)'
      BY <1>6, <1>1 DEF InitLock, Coherent1, OneInitializer, LeaderStays, HazardTypeOK
    <2>3. ToldOrCurrent(s)'
      BY <1>6, SMTT(30) DEF InitLock, Coherent1, ToldOrCurrent, Expired
    <2>4. Making(s)' => FirstTurn
      BY <1>6, <1>1 DEF InitLock, Coherent1, Making, MakingPC, InitPC, HazardTypeOK
    <2>5. FirstTurn => AtFirst(s)'
      BY <1>6, <1>3, <1>1 DEF InitLock, RotatePC, FirstTurn, AtFirst, Due, HazardTypeOK
    <2>6. \A j \in Task : pc[s][j] \in {"store", "notify"} => pc'[s][j] \in {"store", "notify"}
      BY <1>6, <1>1 DEF InitLock, HazardTypeOK
    <2> QED
      BY <1>6, LeaderAssumption, HazardAssumption, <2>1, <2>2, <2>3, <2>4, <2>5, <2>6,
         CoherentStep DEF InitLock, Coherent1, HazardTypeOK
  <1>7. CASE DoubleCheck(s)
    <2>0. /\ redis = None => initLock = s /\ listening = {}
          /\ \/ redis # None /\ Found(s)
             \/ /\ redis = None /\ mem'[s] = state'[s]["access"]
                /\ Goto(s, "access", "initstore")
                /\ \E new : Remember(s, new) /\ Hold(s, "access", new)
      BY <1>7 DEF DoubleCheck, Coherent1, OneInitializer
    <2>1. Frame(s)
      BY <1>7, <2>0 DEF DoubleCheck, Found, Return, Frame
    <2>2. OneInitializer(s)' /\ LeaderStays(s)'
      BY <1>7, <2>0 DEF DoubleCheck, Found, Return, Coherent1, OneInitializer, LeaderStays
    <2>3. ToldOrCurrent(s)'
      BY <1>7, <2>0 DEF DoubleCheck, Found, Return, Coherent1, ToldOrCurrent, Expired
    <2>4. Making(s)' => FirstTurn
      BY <1>7, <2>0 DEF DoubleCheck, Found, Return, Coherent1, Making, MakingPC, InitPC
    <2>5. FirstTurn => AtFirst(s)'
      BY <1>7, <1>3, <2>0 DEF DoubleCheck, Found, Return, RotatePC, FirstTurn, AtFirst, Due
    <2>6. \A j \in Task : pc[s][j] \in {"store", "notify"} => pc'[s][j] \in {"store", "notify"}
      BY <1>7, <2>0 DEF DoubleCheck, Found, Return
    <2> QED
      BY <1>7, <2>1, <2>2, <2>3, <2>4, <2>5, <2>6, CoherentStep DEF DoubleCheck, Coherent1
  <1>8. CASE Listen(s)
    <2>0. /\ listening' \in {listening, listening \cup {s}} /\ redis # None /\ mem[s] = redis
          /\ \E label \in {"unlock", "initschedule", "done"} : Goto(s, "access", label)
      BY <1>8 DEF Listen, Subscribe, AfterListen, Coherent1, OneInitializer
    <2>1. Frame(s)
      BY <1>8, <2>0 DEF Listen, AfterListen, Frame
    <2>2. OneInitializer(s)' /\ LeaderStays(s)'
      BY <1>8, <2>0 DEF Listen, AfterListen, Coherent1, OneInitializer, LeaderStays
    <2>3. ToldOrCurrent(s)'
      BY <1>8, <2>0 DEF Listen, AfterListen, Coherent1, ToldOrCurrent, Expired
    <2>4. Making(s)' => FirstTurn
      BY <1>8, <2>0 DEF Listen, AfterListen, Coherent1, Making, MakingPC, InitPC
    <2>5. FirstTurn => AtFirst(s)'
      BY <1>8, <1>3, <2>0 DEF Listen, AfterListen, RotatePC, FirstTurn, AtFirst, Due
    <2>6. \A j \in Task : pc[s][j] \in {"store", "notify"} => pc'[s][j] \in {"store", "notify"}
      BY <1>8, <2>0 DEF Listen, AfterListen
    <2> QED
      BY <1>8, <2>0, <2>1, <2>2, <2>3, <2>4, <2>5, <2>6, CoherentStep DEF Listen, Coherent1
  <1>9. CASE InitSchedule(s)
    <2>0. alarm'[s] \in {alarm[s], now + Refresh} /\ ~(now >= now + Refresh)
      BY <1>2, <1>9, HazardAssumption DEF InitSchedule, SetAlarm, HazardTypeOK
    <2>1. Frame(s)
      BY <1>9, <2>0 DEF InitSchedule, SetAlarm, Frame, HazardTypeOK
    <2>2. OneInitializer(s)' /\ LeaderStays(s)'
      BY <1>9, <2>0 DEF InitSchedule, SetAlarm, Coherent1, OneInitializer, LeaderStays,
                        HazardTypeOK
    <2>3. ToldOrCurrent(s)'
      BY <1>9, <2>0 DEF InitSchedule, Coherent1, ToldOrCurrent, Expired
    <2>4. Making(s)' => FirstTurn
      BY <1>9, <2>0 DEF InitSchedule, SetAlarm, Coherent1, Making, MakingPC, InitPC,
                        HazardTypeOK
    <2>5. FirstTurn => AtFirst(s)'
      BY <1>9, <1>3, <2>0 DEF InitSchedule, SetAlarm, RotatePC, FirstTurn, AtFirst, Due,
                              HazardTypeOK
    <2>6. \A j \in Task : pc[s][j] \in {"store", "notify"} => pc'[s][j] \in {"store", "notify"}
      BY <1>9, <2>0 DEF InitSchedule, SetAlarm, HazardTypeOK
    <2> QED
      BY <1>9, <2>1, <2>2, <2>3, <2>4, <2>5, <2>6, CoherentStep DEF InitSchedule, Coherent1,
         HazardTypeOK
  <1>10. CASE Unlock(s)
    <2>0. redis # None /\ mem[s] = redis
      BY <1>10 DEF Unlock, Coherent1, OneInitializer
    <2>1. Frame(s)
      BY <1>10, <2>0, LeaderAssumption DEF Unlock, Frame
    <2>2. OneInitializer(s)' /\ LeaderStays(s)'
      BY <1>10, <2>0, LeaderAssumption DEF Unlock, Coherent1, OneInitializer, LeaderStays
    <2>3. ToldOrCurrent(s)'
      BY <1>10, <2>0, LeaderAssumption DEF Unlock, Coherent1, ToldOrCurrent, Expired
    <2>4. Making(s)' => FirstTurn
      BY <1>10, <2>0, LeaderAssumption DEF Unlock, Coherent1, Making, MakingPC, InitPC
    <2>5. FirstTurn => AtFirst(s)'
      BY <1>10, <1>3, <2>0, LeaderAssumption DEF Unlock, RotatePC, FirstTurn, AtFirst, Due
    <2>6. \A j \in Task : pc[s][j] \in {"store", "notify"} => pc'[s][j] \in {"store", "notify"}
      BY <1>10, <2>0, LeaderAssumption DEF Unlock
    <2> QED
      BY <1>10, <2>0, LeaderAssumption, HazardAssumption, <2>1, <2>2, <2>3, <2>4, <2>5, <2>6,
         CoherentStep DEF Unlock, Coherent1
  <1>11. CASE InitStore(s)
    <2>1. redis = None /\ initLock = s /\ listening = {} /\ FirstTurn
      BY <1>11 DEF InitStore, Coherent1, OneInitializer
    <2>2. redis' # None /\ redis'.changeAt = now + Refresh /\ mem[s] = redis'
      BY <1>11 DEF InitStore, Coherent1, OneInitializer, TurnInv, StoredNext
    <2>3. ASSUME NEW t \in Server
          PROVE  OneInitializer(t)' /\ LeaderStays(t)' /\ ToldOrCurrent(t)'
      <3>1. OneInitializer(t)'
        BY <1>11, <2>1, <2>2 DEF InitStore, Coherent1, OneInitializer
      <3>2. LeaderStays(t)' /\ ToldOrCurrent(t)'
        BY <1>11, <2>1 DEF InitStore, Coherent1, LeaderStays, ToldOrCurrent
      <3> QED
        BY <3>1, <3>2
    <2>4. ASSUME NEW t \in Server PROVE AtFirst(t)'
      <3>1. pc[t]["access"] = "initstore" => t = s
        BY <2>1 DEF Coherent1, OneInitializer
      <3> QED
        BY <1>11, <2>1, <2>2, <3>1 DEF InitStore, FirstTurn, AtFirst, Due, RotatePC
    <2>5. FirstTurn'
      BY <1>11, <2>1, <2>2, <2>4 DEF InitStore, FirstTurn
    <2> QED
      BY <1>11, <2>1, <2>2, <2>3, <2>5 DEF InitStore, Coherent1
  <1>12. CASE InitFails(s) \/ Fallback(s)
    BY <1>12 DEF InitFails, Fallback, Coherent1, OneInitializer
  <1> QED
    BY <1>4, <1>5, <1>6, <1>7, <1>8, <1>9, <1>10, <1>11, <1>12 DEF Initialization

LEMMA DeliverCoherent ==
    ASSUME THInv, Calm, Coherent1, NEW s \in Server, Deliver(s)
    PROVE  Coherent1'
  <1>1. HazardTypeOK /\ Task = {"timer", "access"}
    BY DEF THInv, HInv, Task
  <1>2. /\ mem'[s] = None /\ inbox' = inbox \ {s} /\ s \in inbox
        /\ \A t \in Server \ {s} : mem'[t] = mem[t]
        /\ UNCHANGED <<leaderVars, now, redis, initLock, alarm, calmVars, pc, state, asLeader>>
    BY <1>1, TaskStep DEF Deliver
  <1> USE DEF leaderVars, calmVars, subVars
  <1>3. redis # None /\ \A t \in Server : ~Making(t)
    BY <1>2 DEF Coherent1, FirstTurn
  <1>4. ASSUME NEW t \in Server
        PROVE  ~Making(t)' /\ LeaderStays(t)' /\ OneInitializer(t)' /\ ToldOrCurrent(t)'
    <2>1. ~Making(t)'
      BY <1>2, <1>3 DEF Making
    <2>2. LeaderStays(t)'
      BY <1>2 DEF Coherent1, LeaderStays, Up
    <2>3. OneInitializer(t)'
      BY <1>2, <1>3 DEF Coherent1, OneInitializer, Making, MakingPC, InitPC
    <2>4. ToldOrCurrent(t)'
      BY <1>2 DEF Coherent1, ToldOrCurrent, Expired
    <2> QED
      BY <2>1, <2>2, <2>3, <2>4
  <1> QED
    BY <1>2, <1>3, <1>4 DEF Coherent1

\* A step of the election while nothing fails: the lease may be taken when it is
\* free, and stays where it is.
LEMMA ElectionCoherent ==
    ASSUME HazardTypeOK, Coherent1, UNCHANGED <<sharedVars, localVars>>,
           lease' = lease \/ lease = Free,
           \A t \in Server : lease' = t => leading'[t] /\ Up(t)',
           \A t \in Server : lease' = t /\ lease # t => Absent(t)
    PROVE  Coherent1'
  <1> USE DEF sharedVars, localVars, subVars, Task
  <1>1. ASSUME NEW t \in Server
        PROVE  /\ Making(t)' <=> Making(t)
               /\ LeaderStays(t)' /\ OneInitializer(t)' /\ ToldOrCurrent(t)'
    <2>1. lease = t => lease' = t
      BY LeaderAssumption
    <2>2. lease' = t /\ lease # t => pc[t]["access"] = "idle"
      BY DEF Absent
    <2>3. Making(t)' <=> Making(t)
      BY <2>1, <2>2 DEF Making, MakingPC, InitPC
    <2>4. LeaderStays(t)'
      BY <2>1 DEF Coherent1, LeaderStays
    <2>5. OneInitializer(t)' /\ ToldOrCurrent(t)'
      BY DEF Coherent1, OneInitializer, ToldOrCurrent, Expired
    <2> QED
      BY <2>3, <2>4, <2>5
  <1>2. FirstTurn => FirstTurn'
    BY DEF FirstTurn, AtFirst, Due
  <1> QED
    BY <1>1, <1>2 DEF Coherent1

LEMMA OtherCoherent ==
    ASSUME THInv, Calm, \A t \in Server : Served1(t), Coherent1,
           \/ \E s \in Server : BootServer(s) \/ CrashServer(s)
           \/ LeaseStep \/ Tick \/ RedisExpires \/ InitLockExpires \/ UNCHANGED allVars
    PROVE  Coherent1'
  <1>1. HazardTypeOK /\ LInv /\ \A kind : ~Fault(kind)
    BY CalmHasNoFault DEF THInv, HInv
  <1> USE <1>1 DEF leaderVars
  <1>2. ASSUME NEW s \in Server, BootServer(s) PROVE Coherent1'
    <2>1. /\ lpc[s] = "down" /\ lpc'[s] = "idle"
          /\ \A q \in Server \ {s} : lpc'[q] = lpc[q] /\ leading'[q] = leading[q]
          /\ \/ lease = Free /\ lease' = s /\ leading'[s]
             \/ lease' = lease /\ leading' = leading
          /\ UNCHANGED <<sharedVars, localVars>>
      BY <1>2 DEF BootServer, Boot, TryBecomeLeader, Believe, HazardTypeOK, LeaderTypeOK
    <2>2. Absent(s) /\ lease # s
      BY <2>1 DEF Served1, AccessHolds, Coherent1, LeaderStays, Up
    <2>3. ASSUME NEW t \in Server, lease' = t
          PROVE  leading'[t] /\ Up(t)' /\ (lease # t => Absent(t))
      BY <2>1, <2>2, <2>3 DEF Coherent1, LeaderStays, Up
    <2> QED
      BY <2>1, <2>3, ElectionCoherent
  <1>3. CASE LeaseStep
    <2>1. lease # Free => leading[lease] /\ lease \in Server
      BY DEF HazardTypeOK, LeaderTypeOK, Coherent1, LeaderStays
    <2>2. ~LeaseExpires
      BY <2>1 DEF LeaseExpires
    <2>3. PICK s \in Server : Renew(s)
      BY <1>3, <2>2 DEF LeaseStep
    <2>4. lpc[s] # "regain"
      BY DEF Served1, AccessHolds
    <2>5. /\ lease' = lease
          /\ \A t \in Server : lease = t => leading'[t] = leading[t]
          /\ \A t \in Server : Up(t)' <=> Up(t)
      <3>1. CASE RenewRead(s)
        BY <3>1 DEF RenewRead, Believe, Up, HazardTypeOK, LeaderTypeOK
      <3>2. CASE RenewWrite(s)
        <4>1. lease = s
          BY <3>2 DEF RenewWrite, LInv, RenewerHolds, Calm
        <4> QED
          BY <3>2, <4>1 DEF RenewWrite, Up, HazardTypeOK, LeaderTypeOK
      <3> QED
        BY <2>3, <2>4, <3>1, <3>2 DEF Renew, RenewFails, Regain
    <2>6. UNCHANGED <<sharedVars, localVars>>
      BY <1>3 DEF LeaseStep
    <2>7. \A t \in Server : lease' = t => leading'[t] /\ Up(t)'
      BY <2>5 DEF Coherent1, LeaderStays
    <2> QED
      BY <2>5, <2>6, <2>7, ElectionCoherent
  <1>4. CASE Tick
    <2>1. /\ now' = now + 1 /\ inbox = {}
          /\ \A t \in Server : ~Due(t) /\ \A k \in Task : pc[t][k] = "idle"
          /\ UNCHANGED <<leaderVars, redis, initLock, inbox, localVars>>
      BY <1>4 DEF Tick, Quiet
    <2> USE DEF localVars, subVars, Task
    <2>2. ASSUME NEW t \in Server
          PROVE  ~Making(t)' /\ LeaderStays(t)' /\ OneInitializer(t)'
      BY <2>1 DEF Coherent1, LeaderStays, OneInitializer, Making, MakingPC, InitPC, Up
    <2>3. ASSUME NEW t \in Server
          PROVE  ToldOrCurrent(t)'
      <3>1. mem[t] # None => mem[t].changeAt \in Nat /\ now \in Nat
        BY HazardAssumption DEF HazardTypeOK, Loaded, HazardState, Time
      <3>2. Expired(mem[t]) => Expired(mem[t])'
        BY <2>1, <3>1 DEF Expired
      <3>3. t \in listening => mem[t] \in {None, redis} \/ Expired(mem[t])
        BY <2>1 DEF Coherent1, ToldOrCurrent
      <3> QED
        BY <2>1, <3>2, <3>3 DEF ToldOrCurrent
    <2>4. redis = None => FirstTurn'
      <3> SUFFICES ASSUME redis = None, NEW t \in Server PROVE AtFirst(t)'
        BY <2>1 DEF FirstTurn
      <3>1. alarm[t] = None
        BY DEF Served1, TimerInTime
      <3>2. mem[t] = None
        BY <2>1 DEF Coherent1, FirstTurn, AtFirst
      <3> QED
        BY <2>1, <3>1, <3>2 DEF AtFirst, Due, RotatePC
    <2> QED
      BY <2>1, <2>2, <2>3, <2>4 DEF Coherent1
  <1>5. CASE (\E s \in Server : CrashServer(s)) \/ RedisExpires \/ InitLockExpires
    BY <1>5 DEF CrashServer, Crash, RedisExpires, InitLockExpires, Coherent1, Calm
  <1>6. CASE UNCHANGED allVars
    BY <1>6 DEF allVars, sharedVars, localVars, subVars, Coherent1, LeaderStays, OneInitializer,
       ToldOrCurrent, Making, FirstTurn, AtFirst, Due, Expired, Up
  <1> QED
    BY <1>2, <1>3, <1>4, <1>5, <1>6

\* Redis loses a state once and for all.
LEMMA LapsedRemembered == ASSUME [HazardNext]_allVars, lapsed PROVE lapsed'
  <1> USE DEF calmVars
  <1>1. ASSUME NEW s \in Server, Reading(s) \/ Access(s) \/ AlarmFires(s) \/ Deliver(s) PROVE lapsed'
    BY <1>1 DEF Reading, Load, ExpiredChecks, Reread, EmptyChecks, Wait, AccessFails, Served,
                Access,
       AlarmFires, Deliver
  <1>2. ASSUME NEW s \in Server, NEW k \in Task, Rotation(s, k) PROVE lapsed'
    BY <1>2 DEF Rotation, RotateCheck, Rotate, RotateStore, RotateNotify, RotateSchedule,
                RotateFails
  <1>3. ASSUME NEW s \in Server, Initialization(s) PROVE lapsed'
    BY <1>3 DEF Initialization, Initialize, InitLock, LockWait, DoubleCheck, InitStore,
                InitSchedule,
       Listen, Unlock, InitFails, Fallback
  <1>4. ASSUME NEW s \in Server, BootServer(s) \/ CrashServer(s) PROVE lapsed'
    BY <1>4 DEF BootServer, CrashServer
  <1> QED
    BY <1>1, <1>2, <1>3, <1>4 DEF HazardNext, LeaseStep, Tick, RedisExpires, InitLockExpires,
                                  allVars

LEMMA CoherentNext == CHInv /\ [HazardNext]_allVars => CHInv'
  <1> SUFFICES ASSUME CHInv, [HazardNext]_allVars PROVE CHInv'
    OBVIOUS
  <1>1. SHInv'
    BY ServedNext DEF CHInv
  <1>2. ASSUME happened' = {}, ~lapsed' PROVE Coherent1'
    <2>1. THInv /\ Calm /\ Coherent1 /\ \A t \in Server : Served1(t)
      <3>1. happened = {} /\ ~lapsed
        BY <1>2, FaultsRemembered, LapsedRemembered DEF CHInv, SHInv, THInv, HInv
      <3> QED
        BY <1>2, <3>1 DEF CHInv, CoherentInv, Coherent1, SHInv, ServedInv, Served1, Calm
    <2> QED
      BY <2>1, ReadingCoherent, RotationCoherent, InitializationCoherent, DeliverCoherent,
         OtherCoherent DEF HazardNext
  <1> QED
    BY <1>1, <1>2 DEF CHInv, CoherentInv, Coherent1

LEMMA CoherentInit == HazardInit => CHInv
  <1> SUFFICES ASSUME HazardInit PROVE CHInv
    OBVIOUS
  <1>1. /\ inbox = {} /\ listening = {} /\ initLock = Free /\ redis = None /\ lease = Free
        /\ \A s \in Server : /\ lpc[s] = "down" /\ alarm[s] = None /\ mem[s] = None
                             /\ \A k \in Task : pc[s][k] = "idle"
    BY DEF HazardInit, LeaderInit
  <1>2. FirstTurn
    BY <1>1 DEF FirstTurn, AtFirst, Due, RotatePC, Task
  <1>3. CoherentInv
    BY <1>1, <1>2, LeaderAssumption, HazardAssumption DEF CoherentInv, OneInitializer,
                                                          LeaderStays,
       ToldOrCurrent, Task
  <1> QED
    BY <1>3, ServedInit DEF CHInv

\* While nothing fails and Redis keeps its states, a server that has subscribed never
\* goes on remembering a state that Redis has replaced, for any number of servers.
THEOREM SubscribersAreCoherent == HazardSpec => []SubscribersCoherent
  <1>1. HazardSpec => []CHInv
    BY CoherentInit, CoherentNext, PTL DEF HazardSpec
  <1>2. CHInv => SubscribersCoherent
    <2> SUFFICES ASSUME CHInv, Quiet, happened = {}, ~lapsed, NEW s \in listening
                 PROVE  mem[s] \in {None, redis} \/ Expired(mem[s])
      BY DEF SubscribersCoherent
    <2>1. s \in Server
      BY DEF CHInv, SHInv, THInv, HInv, HazardTypeOK
    <2>2. ToldOrCurrent(s)
      BY <2>1 DEF CHInv, CoherentInv
    <2>3. inbox = {} /\ \A t \in Server, k \in Task : pc[t][k] = "idle"
      BY DEF Quiet
    <2> QED
      BY <2>2, <2>3 DEF ToldOrCurrent
  <1> QED
    BY <1>1, <1>2, PTL
=============================================================================
