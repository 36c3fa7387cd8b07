--------------------------- MODULE HazardRotation ---------------------------
(***************************************************************************)
(* HazardSchedulerService for one game and difficulty: the hazard state in *)
(* Redis, each server's copy of it, the leader's rotation timer, the lazy  *)
(* initialization under a lock, the recovery in getCurrentState, and the   *)
(* pub/sub messages that drop the copies.                                  *)
(*                                                                         *)
(* A server runs two kinds of activation side by side: rotations that its  *)
(* timer starts, and accesses (getCurrentState, for a player's step).  A   *)
(* step here is the code between two Redis calls.  Time passes only while  *)
(* no activation runs: calls take milliseconds, the period is seconds.     *)
(***************************************************************************)
EXTENDS LeaderElection

CONSTANTS
    Pattern,  \* sets of hazard columns
    Refresh,  \* hazardRefreshMs, in ticks
    MaxNow,   \* bound of the model: ticks
    None

ASSUME HazardAssumption ==
    /\ Refresh \in Nat \ {0}
    /\ MaxNow \in Nat
    /\ Faults \subseteq {"crash", "net", "outage", "late"}
    /\ None \notin Server \cup {Free}
    /\ None \notin [current: Pattern, next: Pattern, changeAt: 0 .. MaxNow + Refresh]

VARIABLES
    now,
    redis,      \* hazards-game-difficulty
    initLock,   \* lock:hazards-game-difficulty: the server that set it, None if it died
    mem,        \* states[stateKey] of each server
    alarm,      \* when its rotation timer fires
    listening,  \* servers subscribed to the rotation channel
    deaf,       \* servers that PubSubService takes for subscribed, and are not
    inbox,      \* servers with a rotation message on its way
    pc,         \* where the activations of a server are suspended
    state,      \* the state each of them holds in a local variable
    asLeader,   \* the answer of isLeader before an initialization
    lapsed      \* history: Redis has let a state go whose turn had passed

sharedVars == <<now, redis, initLock, inbox>>
subVars    == <<listening, deaf>>
calmVars   == <<subVars, lapsed>>
localVars  == <<mem, alarm, subVars, pc, state, asLeader>>
allVars    == <<leaderVars, sharedVars, localVars, lapsed>>

Task == {"timer", "access"}
Time == 0 .. MaxNow + Refresh
HazardState == [current: Pattern, next: Pattern, changeAt: Time]
Loaded == HazardState \cup {None}

RotatePC == {"check", "rotate", "store", "notify", "schedule"}
InitPC   == {"init", "lock", "lockwait", "double", "initstore", "listen",
             "initlisten", "initschedule", "unlock"}
AccessPC == {"load", "expired", "reread", "empty", "wait", "waitlisten", "fallback", "done"}

HazardTypeOK ==
    /\ LeaderTypeOK
    /\ now \in 0 .. MaxNow
    /\ redis \in Loaded
    /\ initLock \in Server \cup {Free, None}
    /\ mem \in [Server -> Loaded]
    /\ alarm \in [Server -> Time \cup {None}]
    /\ listening \subseteq Server /\ deaf \subseteq Server \ listening
    /\ inbox \subseteq Server
    /\ pc \in [Server -> [Task -> {"idle"} \cup RotatePC \cup InitPC \cup AccessPC]]
    /\ state \in [Server -> [Task -> Loaded]]
    /\ asLeader \in [Server -> BOOLEAN]
    /\ lapsed \in BOOLEAN

HazardInit ==
    /\ LeaderInit
    /\ now = 0
    /\ redis = None
    /\ initLock = Free
    /\ mem = [s \in Server |-> None]
    /\ alarm = [s \in Server |-> None]
    /\ listening = {} /\ deaf = {}
    /\ inbox = {}
    /\ pc = [s \in Server |-> [k \in Task |-> "idle"]]
    /\ state = [s \in Server |-> [k \in Task |-> None]]
    /\ asLeader = [s \in Server |-> FALSE]
    /\ lapsed = FALSE

-----------------------------------------------------------------------------
(* Helpers *)

At(s, k, label)    == Up(s) /\ pc[s][k] = label
Goto(s, k, label)  == pc' = [pc EXCEPT ![s][k] = label]
Hold(s, k, st)     == state' = [state EXCEPT ![s][k] = st]
Remember(s, st)    == mem' = [mem EXCEPT ![s] = st]
IdleTimer(s)       == Goto(s, "timer", "idle") /\ Hold(s, "timer", None)

Expired(st) == IF st = None THEN FALSE ELSE now >= st.changeAt

\* The pattern a step is checked against.
ActivePattern(st) == IF now < st.changeAt THEN st.current ELSE st.next

\* generateRandomPattern draws any pattern.
NewState(current, next) == [current |-> current, next |-> next, changeAt |-> now + Refresh]

\* getCurrentState with a state that is not to be rotated returns it, and
\* initializes one when it has none.
Return(s, st) == /\ Hold(s, "access", st)
                 /\ Goto(s, "access", IF st = None THEN "empty" ELSE "done")

-----------------------------------------------------------------------------
(* rotateGameDifficulty, by the timer or by an access *)

Due(s) == alarm[s] # None /\ now >= alarm[s]

AlarmFires(s) ==
    /\ At(s, "timer", "idle")
    /\ Due(s)
    /\ alarm' = [alarm EXCEPT ![s] = None]
    /\ Goto(s, "timer", "check")
    /\ UNCHANGED <<leaderVars, sharedVars, mem, calmVars, state, asLeader>>

\* A server that does not lead skips the rotation, and never sets a timer again.
RotateCheck(s, k) ==
    /\ At(s, k, "check")
    /\ \E yes \in BOOLEAN :
          /\ IsLeader(s, yes)
          /\ IF yes THEN Goto(s, k, "rotate") /\ UNCHANGED state
             ELSE IF k = "timer" THEN IdleTimer(s)
             ELSE Return(s, mem[s])
    /\ UNCHANGED <<sharedVars, mem, alarm, calmVars, asLeader>>

\* Mutant: the new state starts from a pattern of its own.
RotateAfresh(s, k) ==
    /\ At(s, k, "rotate")
    /\ \E current, next \in Pattern :
          LET new == NewState(current, next)
          IN  Remember(s, new) /\ Hold(s, k, new)
    /\ Goto(s, k, "store")
    /\ UNCHANGED <<leaderVars, sharedVars, alarm, calmVars, asLeader>>

\* The state in Redis, or else this server's, hands its next pattern on.
Rotate(s, k) ==
    /\ At(s, k, "rotate")
    /\ LET prev == IF redis # None THEN redis ELSE mem[s]
       IN  \E current, next \in Pattern :
              /\ prev # None => current = prev.next
              /\ LET new == NewState(current, next)
                 IN  Remember(s, new) /\ Hold(s, k, new)
    /\ Goto(s, k, "store")
    /\ UNCHANGED <<leaderVars, sharedVars, alarm, calmVars, asLeader>>

RotateStore(s, k) ==
    /\ At(s, k, "store")
    /\ redis' = state[s][k]
    /\ Goto(s, k, "notify")
    /\ UNCHANGED <<leaderVars, now, initLock, inbox, mem, alarm, calmVars, state, asLeader>>

\* Mutant: the other servers are not told.
RotateNotifyNobody(s, k) ==
    /\ At(s, k, "notify")
    /\ Goto(s, k, "schedule")
    /\ UNCHANGED <<leaderVars, sharedVars, mem, alarm, calmVars, state, asLeader>>

\* Best effort: a failing publication is logged.
RotateNotify(s, k) ==
    /\ At(s, k, "notify")
    /\ \/ inbox' = inbox \cup listening /\ UNCHANGED faultVars
       \/ Fault("net") /\ UNCHANGED inbox
    /\ Goto(s, k, "schedule")
    /\ UNCHANGED <<electionVars, now, redis, initLock, mem, alarm, calmVars, state, asLeader>>

\* scheduleRotation, for the leader alone.
SetAlarm(s, yes) == alarm' = IF yes THEN [alarm EXCEPT ![s] = now + Refresh] ELSE alarm

\* Mutant: an access that rotated returns what this server remembers by then.
RotateScheduleReturns(s, k) ==
    /\ At(s, k, "schedule")
    /\ \E yes \in BOOLEAN : IsLeader(s, yes) /\ SetAlarm(s, yes)
    /\ IF k = "timer" THEN IdleTimer(s)
       ELSE Hold(s, "access", mem[s]) /\ Goto(s, "access", "done")
    /\ UNCHANGED <<sharedVars, mem, calmVars, asLeader>>

RotateSchedule(s, k) ==
    /\ At(s, k, "schedule")
    /\ \E yes \in BOOLEAN : IsLeader(s, yes) /\ SetAlarm(s, yes)
    /\ IF k = "timer" THEN IdleTimer(s) ELSE Return(s, mem[s])
    /\ UNCHANGED <<sharedVars, mem, calmVars, asLeader>>

\* A failing call ends the rotation without a new timer, and an access with an
\* error; what this server remembers stays.
RotateFails(s, k) ==
    /\ Up(s) /\ pc[s][k] \in {"rotate", "store"}
    /\ Fault("net")
    /\ Goto(s, k, "idle")
    /\ Hold(s, k, None)
    /\ UNCHANGED <<electionVars, sharedVars, mem, alarm, calmVars, asLeader>>

-----------------------------------------------------------------------------
(* getCurrentState *)

Access(s) ==
    /\ At(s, "access", "idle")
    /\ Hold(s, "access", mem[s])
    /\ Goto(s, "access", IF mem[s] # None /\ ~Expired(mem[s]) THEN "done" ELSE "load")
    /\ UNCHANGED <<leaderVars, sharedVars, mem, alarm, calmVars, asLeader>>

\* A state found in Redis replaces this server's.  The first access that finds
\* one does not subscribe to the rotation channel.
Load(s) ==
    /\ At(s, "access", "load")
    /\ LET st == IF redis # None THEN redis ELSE state[s]["access"]
       IN  /\ IF redis # None THEN Remember(s, redis) ELSE UNCHANGED mem
           /\ IF Expired(st)
                THEN Hold(s, "access", st) /\ Goto(s, "access", "expired")
                ELSE Return(s, st)
    /\ UNCHANGED <<leaderVars, sharedVars, alarm, calmVars, asLeader>>

\* Mutant: an expired state waits for the timer.
ExpiredWaits(s) ==
    /\ At(s, "access", "expired")
    /\ Goto(s, "access", "reread")
    /\ UNCHANGED <<leaderVars, sharedVars, mem, alarm, calmVars, state, asLeader>>

ExpiredChecks(s) ==
    /\ At(s, "access", "expired")
    /\ \E yes \in BOOLEAN :
          IsLeader(s, yes) /\ Goto(s, "access", IF yes THEN "check" ELSE "reread")
    /\ UNCHANGED <<sharedVars, mem, alarm, calmVars, state, asLeader>>

Reread(s) ==
    /\ At(s, "access", "reread")
    /\ IF redis # None /\ redis.changeAt > state[s]["access"].changeAt
         THEN Remember(s, redis) /\ Return(s, redis)
         ELSE UNCHANGED mem /\ Return(s, state[s]["access"])
    /\ UNCHANGED <<leaderVars, sharedVars, alarm, calmVars, asLeader>>

\* Nothing in memory or in Redis: the leader initializes, a follower waits first.
EmptyChecks(s) ==
    /\ At(s, "access", "empty")
    /\ \E yes \in BOOLEAN :
          /\ IsLeader(s, yes)
          /\ asLeader' = [asLeader EXCEPT ![s] = yes]
          /\ Goto(s, "access", IF yes THEN "init" ELSE "wait")
    /\ UNCHANGED <<sharedVars, mem, alarm, calmVars, state>>

\* A follower waits a second, and one that does not get the lock 100 ms.  Whoever
\* holds the lock has stored a state by then, or is late, for its configuration:
\* the wait ends all the same.
WaitEnds == \/ (redis # None \/ initLock \notin Server) /\ UNCHANGED faultVars
            \/ redis = None /\ initLock \in Server /\ Late

\* What an initialization finds in Redis.  A subscription that is there already
\* leaves no gap before the state is returned.
Found(s) ==
    /\ Remember(s, redis)
    /\ IF s \in listening /\ initLock # s
         THEN Return(s, redis)
         ELSE Goto(s, "access", "listen") /\ UNCHANGED state

\* A waiting follower subscribes, and returns the state it found here.
Wait(s) ==
    /\ At(s, "access", "wait")
    /\ WaitEnds
    /\ IF redis # None
         THEN Remember(s, redis) /\ Hold(s, "access", redis) /\ Goto(s, "access", "waitlisten")
         ELSE Goto(s, "access", "init") /\ UNCHANGED <<mem, state>>
    /\ UNCHANGED <<electionVars, sharedVars, alarm, calmVars, asLeader>>

-----------------------------------------------------------------------------
(* initializeGameDifficulty *)

Initialize(s) ==
    /\ At(s, "access", "init")
    /\ IF mem[s] # None THEN Return(s, mem[s]) /\ UNCHANGED mem
       ELSE IF redis # None THEN Found(s)
       ELSE Goto(s, "access", "lock") /\ UNCHANGED <<mem, state>>
    /\ UNCHANGED <<leaderVars, sharedVars, alarm, calmVars, asLeader>>

\* A failing SET NX is taken for a lock that is held.
InitLock(s) ==
    /\ At(s, "access", "lock")
    /\ \/ /\ initLock = Free /\ initLock' = s
          /\ Goto(s, "access", "double")
          /\ UNCHANGED faultVars
       \/ /\ (initLock # Free /\ UNCHANGED faultVars) \/ Fault("net")
          /\ Goto(s, "access", "lockwait")
          /\ UNCHANGED initLock
    /\ UNCHANGED <<electionVars, now, redis, inbox, mem, alarm, calmVars, state, asLeader>>

\* Without the lock and after its wait, the initialization goes on all the same.
LockWait(s) ==
    /\ At(s, "access", "lockwait")
    /\ WaitEnds
    /\ IF redis # None THEN Found(s) ELSE Goto(s, "access", "double") /\ UNCHANGED <<mem, state>>
    /\ UNCHANGED <<electionVars, sharedVars, alarm, calmVars, asLeader>>

DoubleCheck(s) ==
    /\ At(s, "access", "double")
    /\ \/ redis # None /\ Found(s)
       \/ /\ redis = None
          /\ \E current, next \in Pattern :
                LET new == NewState(current, next)
                IN  Remember(s, new) /\ Hold(s, "access", new)
          /\ Goto(s, "access", "initstore")
    /\ UNCHANGED <<leaderVars, sharedVars, alarm, calmVars, asLeader>>

InitStore(s) ==
    /\ At(s, "access", "initstore")
    /\ redis' = state[s]["access"]
    /\ Goto(s, "access", "initlisten")
    /\ UNCHANGED <<leaderVars, now, initLock, inbox, mem, alarm, calmVars, state, asLeader>>

\* ensureRotationListener.  PubSubService keeps the channel before it subscribes:
\* a SUBSCRIBE that fails is logged, and never sent again.
Subscribe(s) ==
    \/ /\ listening' = IF s \in deaf THEN listening ELSE listening \cup {s}
       /\ UNCHANGED <<deaf, faultVars>>
    \/ /\ s \notin listening /\ Fault("net")
       /\ deaf' = deaf \cup {s}
       /\ UNCHANGED listening

\* On each of the ways that lead to it.
AfterListen == [listen |-> "unlock", initlisten |-> "initschedule", waitlisten |-> "done"]

Listen(s) ==
    /\ Up(s) /\ pc[s]["access"] \in DOMAIN AfterListen
    /\ Goto(s, "access", AfterListen[pc[s]["access"]])
    /\ Subscribe(s)
    /\ UNCHANGED <<electionVars, sharedVars, mem, alarm, state, asLeader, lapsed>>

\* scheduleRotation of the new state.
InitSchedule(s) ==
    /\ At(s, "access", "initschedule")
    /\ \E yes \in BOOLEAN : IsLeader(s, yes) /\ SetAlarm(s, yes)
    /\ Goto(s, "access", "unlock")
    /\ UNCHANGED <<sharedVars, mem, calmVars, state, asLeader>>

\* finally { releaseLock }, and what the caller makes of this server's state: a
\* follower that has none creates one, a leader returns nothing.
Unlock(s) ==
    /\ At(s, "access", "unlock")
    /\ initLock' = IF initLock = s THEN Free ELSE initLock
    /\ Hold(s, "access", mem[s])
    /\ Goto(s, "access", IF mem[s] # None \/ asLeader[s] THEN "done" ELSE "fallback")
    /\ UNCHANGED <<leaderVars, now, redis, inbox, mem, alarm, calmVars, asLeader>>

\* A failing call: a leader creates a state, a follower returns none.
InitFails(s) ==
    /\ Fault("net")
    /\ Up(s) /\ pc[s]["access"] \in {"init", "lockwait", "double", "initstore"}
    /\ initLock' = IF initLock = s THEN Free ELSE initLock
    /\ Goto(s, "access", IF asLeader[s] THEN "fallback" ELSE "done")
    /\ Hold(s, "access", None)
    /\ UNCHANGED <<electionVars, now, redis, inbox, mem, alarm, calmVars, asLeader>>

\* Without a lock, a timer or, for the leader, a subscription; its write may fail,
\* or the follower's subscription after it.
Fallback(s) ==
    /\ At(s, "access", "fallback")
    /\ \E current, next \in Pattern :
          LET new == NewState(current, next)
          IN  /\ Remember(s, new) /\ Hold(s, "access", new)
              /\ \/ /\ redis' = new
                    /\ IF asLeader[s] THEN UNCHANGED <<subVars, faultVars>> ELSE Subscribe(s)
                 \/ Fault("net") /\ UNCHANGED <<redis, subVars>>
    /\ Goto(s, "access", "done")
    /\ UNCHANGED <<electionVars, now, initLock, inbox, alarm, asLeader, lapsed>>

\* A failing read ends the access, and the player's step, with an error.
AccessFails(s) ==
    /\ Up(s) /\ pc[s]["access"] \in {"load", "reread", "wait"}
    /\ Fault("net")
    /\ Goto(s, "access", "idle")
    /\ Hold(s, "access", None)
    /\ UNCHANGED <<electionVars, sharedVars, mem, alarm, calmVars, asLeader>>

\* getActiveHazards checks the step against the state's active pattern, or none.
Served(s) ==
    /\ At(s, "access", "done")
    /\ Goto(s, "access", "idle")
    /\ Hold(s, "access", None)
    /\ asLeader' = [asLeader EXCEPT ![s] = FALSE]
    /\ UNCHANGED <<leaderVars, sharedVars, mem, alarm, calmVars>>

-----------------------------------------------------------------------------
(* Messages, time and servers *)

\* The callback drops this server's copy, that of the rotating server too.
Deliver(s) ==
    /\ s \in inbox
    /\ inbox' = inbox \ {s}
    /\ Remember(s, None)
    /\ UNCHANGED <<leaderVars, now, redis, initLock, alarm, calmVars, pc, state, asLeader>>

Quiet == /\ inbox = {}
         /\ \A s \in Server, k \in Task : pc[s][k] = "idle"
         /\ \A s \in Server : ~Due(s)

Tick ==
    /\ now < MaxNow
    /\ Quiet
    /\ now' = now + 1
    /\ UNCHANGED <<leaderVars, redis, initLock, inbox, localVars, lapsed>>

\* The TTL is one and a half periods, so the leader's timer comes first.
RedisExpires ==
    /\ redis # None /\ Expired(redis)
    /\ Quiet
    /\ redis' = None
    /\ lapsed' = TRUE
    /\ UNCHANGED <<leaderVars, now, initLock, inbox, localVars>>

InitLockExpires ==
    /\ initLock = None
    /\ initLock' = Free
    /\ UNCHANGED <<leaderVars, now, redis, inbox, localVars, lapsed>>

BootServer(s) == Boot(s) /\ UNCHANGED <<sharedVars, localVars, lapsed>>

CrashServer(s) ==
    /\ Crash(s)
    /\ Remember(s, None)
    /\ alarm' = [alarm EXCEPT ![s] = None]
    /\ listening' = listening \ {s} /\ deaf' = deaf \ {s}
    /\ inbox' = inbox \ {s}
    /\ initLock' = IF initLock = s THEN None ELSE initLock
    /\ pc' = [pc EXCEPT ![s] = [k \in Task |-> "idle"]]
    /\ state' = [state EXCEPT ![s] = [k \in Task |-> None]]
    /\ asLeader' = [asLeader EXCEPT ![s] = FALSE]
    /\ UNCHANGED <<now, redis, lapsed>>

LeaseStep == /\ LeaseExpires \/ \E s \in Server : Renew(s)
             /\ UNCHANGED <<sharedVars, localVars, lapsed>>

-----------------------------------------------------------------------------
Rotation(s, k) ==
    \/ RotateCheck(s, k) \/ Rotate(s, k) \/ RotateStore(s, k) \/ RotateNotify(s, k)
    \/ RotateSchedule(s, k) \/ RotateFails(s, k)

Reading(s) ==
    \/ Load(s) \/ ExpiredChecks(s) \/ Reread(s) \/ EmptyChecks(s) \/ Wait(s)
    \/ AccessFails(s) \/ Served(s)

Initialization(s) ==
    \/ Initialize(s) \/ InitLock(s) \/ LockWait(s) \/ DoubleCheck(s) \/ InitStore(s)
    \/ InitSchedule(s) \/ Listen(s) \/ Unlock(s) \/ InitFails(s) \/ Fallback(s)

HazardNext ==
    \/ \E s \in Server : AlarmFires(s) \/ Access(s) \/ Reading(s) \/ Initialization(s)
    \/ \E s \in Server, k \in Task : Rotation(s, k)
    \/ \E s \in Server : Deliver(s) \/ BootServer(s) \/ CrashServer(s)
    \/ LeaseStep \/ Tick \/ RedisExpires \/ InitLockExpires

HazardSpec == HazardInit /\ [][HazardNext]_allVars

\* Every call returns, timers fire, messages arrive, and the players of each
\* server go on playing.
HazardFairness ==
    \A s \in Server :
        /\ WF_allVars(AlarmFires(s)) /\ WF_allVars(Access(s)) /\ WF_allVars(Deliver(s))
        /\ WF_allVars(Reading(s)) /\ WF_allVars(Initialization(s))
        /\ \A k \in Task : WF_allVars(Rotation(s, k))

FairHazardSpec == HazardSpec /\ HazardFairness

-----------------------------------------------------------------------------
(* Properties *)

\* As long as Redis answers and keeps its keys, a step is never checked against
\* an empty list of hazards for want of a state ("shouldn't happen"): not when
\* copies are dropped under an access, nor when a server dies while it rotates
\* or initializes, nor when two of them initialize side by side.
HazardsServed ==
    happened \subseteq {"crash", "late"} =>
        \A s \in Server : pc[s]["access"] = "done" => state[s]["access"] # None

\* Whatever fails, a state that takes the place of one whose time is over starts
\* from the pattern that one announced, which steps were checked against until
\* then: no rotation on a copy, and no initialization by a server that saw none,
\* puts another pattern in its turn.
PatternsInTurn ==
    [][redis' # redis /\ redis' # None /\ Expired(redis) =>
        redis'.current = redis.next]_allVars

\* While nothing fails, a first state is stored within the 100 ms others wait for it,
\* and Redis keeps a state until the next one, a server that has subscribed remembers
\* between activations nothing but what Redis holds, unless it is out of date and will
\* be read again.  A first state that comes late may replace one that a server keeps.
SubscribersCoherent ==
    Quiet /\ happened = {} /\ ~lapsed =>
        \A s \in listening : mem[s] \in {None, redis} \/ Expired(mem[s])

\* A server that holds the lease and stays up never stays without a state whose
\* time has not passed, in Redis or in its memory, even when a rotation failed or
\* the server restarted, so that its timer is gone.
HazardsMoveOn ==
    \A s \in Server :
        <>[](Up(s) /\ lease = s) =>
            []<>(\E st \in {redis, mem[s]} : st # None /\ ~Expired(st))

-----------------------------------------------------------------------------
(* Why PatternsInTurn holds *)

MakingPC == {"empty", "wait", "waitlisten", "fallback"} \cup InitPC

\* Redis holds no state whose time is over when a server makes a first state, nor
\* once one has been rotated: time stands still meanwhile.
MakersSeeNone(s) ==
    (\/ pc[s]["access"] \in MakingPC \/ s \in inbox
     \/ \E k \in Task : pc[s][k] \in {"notify", "schedule"}) => ~Expired(redis)

\* A state on its way to Redis begins now, with the pattern that is due.
StoredNext(s) ==
    \A k \in Task :
        pc[s][k] \in {"store", "initstore"} =>
            /\ state[s][k] # None
            /\ state[s][k].changeAt = now + Refresh
            /\ pc[s][k] = "store" /\ Expired(redis) => state[s][k].current = redis.next

\* An access on an expired state holds it, and so does this server's memory unless
\* a rotation has dropped it.
ExpiredHeld(s) ==
    /\ pc[s]["access"] \in {"expired", "reread"} => state[s]["access"] # None
    /\ pc[s]["access"] \in {"expired", "check"} /\ mem[s] = None => ~Expired(redis)

TurnInv == \A s \in Server : MakersSeeNone(s) /\ StoredNext(s) /\ ExpiredHeld(s)

-----------------------------------------------------------------------------
(* Why HazardsServed holds *)

RotatingPC == RotatePC \ {"check"}

Absent(s) == /\ \A k \in Task : pc[s][k] = "idle"
             /\ ~asLeader[s] /\ alarm[s] = None
             /\ s \notin listening \cup inbox

Rotating(s) == pc[s]["timer"] # "idle" \/ pc[s]["access"] \in RotatingPC

\* What only the leader has: a timer, a rotation, an initialization without waiting.
LeaderWorks(s) ==
    asLeader[s] \/ alarm[s] # None \/ Rotating(s) => lease = s /\ leading[s] /\ Up(s)

\* The timer does not come after the end of the turn, so Redis still holds a state.
TimerInTime(s) ==
    /\ alarm[s] # None => /\ redis # None
                          /\ alarm[s] <= redis.changeAt
                          /\ alarm[s] <= now + Refresh
    /\ pc[s]["timer"] # "idle" \/ s \in inbox => redis # None
    /\ \A k \in Task : pc[s][k] \in {"notify", "schedule", "initlisten", "initschedule"} =>
           redis # None /\ redis.changeAt = now + Refresh

\* No rotation runs beside a leader's initialization, and no message comes; only
\* after a rotation of its own may a leader find its memory empty, and Redis not.
LeaderAlone(s) ==
    (lease = s /\ pc[s]["access"] = "empty") \/ (asLeader[s] /\ pc[s]["access"] \in InitPC) =>
        \/ (pc[s]["timer"] = "idle" /\ inbox = {} /\ ~Due(s))
        \/ (pc[s]["access"] \in {"empty", "init"} /\ s \in listening /\ redis # None)

\* So a leader that has found or made a state still has it when it unlocks.
LeaderRemembers(s) ==
    asLeader[s] =>
        /\ pc[s]["access"] \in InitPC \cup {"done"}
        /\ pc[s]["access"] \in {"listen", "initstore", "initlisten", "initschedule", "unlock"}
             => mem[s] # None

AccessHolds(s) ==
    /\ pc[s]["access"] \in {"waitlisten", "done"} => state[s]["access"] # None
    /\ pc[s]["access"] \in {"store", "notify", "schedule"} => mem[s] # None \/ s \in listening
    /\ s \in inbox => s \in listening
    /\ initLock = s => pc[s]["access"] \in
           {"double", "initstore", "initlisten", "initschedule", "listen", "unlock"}
    /\ lpc[s] # "regain"
    /\ ~Up(s) => Absent(s)

ServedInv ==
    happened \subseteq {"crash", "late"} =>
        \A s \in Server :
            /\ LeaderWorks(s) /\ TimerInTime(s) /\ LeaderAlone(s)
            /\ LeaderRemembers(s) /\ AccessHolds(s)

-----------------------------------------------------------------------------
(* Why SubscribersCoherent holds *)

\* An access that has found no state anywhere, and not one that a leader's own
\* rotation made it forget.
Making(s) ==
    /\ pc[s]["access"] \in MakingPC
    /\ ~(lease = s /\ pc[s]["access"] \in {"empty", "init"} /\ s \in listening /\ redis # None)

\* Until the clock moves after the first state: nothing is due, nobody rotates, and
\* nobody remembers another state, but for one that is about to be the first.
AtFirst(s) ==
    /\ ~Due(s) /\ pc[s]["timer"] = "idle"
    /\ pc[s]["access"] \notin RotatePC \cup {"expired", "reread"}
    /\ pc[s]["access"] = "load" => state[s]["access"] = None
    /\ mem[s] \in {None, redis} \/ pc[s]["access"] = "initstore"

FirstTurn ==
    /\ redis # None => redis.changeAt = now + Refresh
    /\ inbox = {}
    /\ \A s \in Server : AtFirst(s)

\* One server makes the first state, under the lock; the others find it.
OneInitializer(s) ==
    /\ pc[s]["access"] = "initstore" =>
          initLock = s /\ redis = None /\ mem[s] = state[s]["access"]
    /\ pc[s]["access"] = "double" /\ redis = None => initLock = s
    /\ pc[s]["access"] = "lockwait" => initLock \in Server \/ redis # None
    /\ pc[s]["access"] \in {"listen", "waitlisten", "initlisten", "initschedule", "unlock"} =>
          redis # None /\ mem[s] = redis
    /\ pc[s]["access"] # "fallback"

LeaderStays(s) ==
    /\ lease = s => leading[s] /\ Up(s)
    /\ pc[s]["access"] = "check" => lease = s

\* Every store is followed by a message to whoever has subscribed.
ToldOrCurrent(s) ==
    s \in listening =>
        \/ mem[s] \in {None, redis} \/ Expired(mem[s]) \/ s \in inbox
        \/ \E t \in Server, k \in Task : pc[t][k] \in {"store", "notify"}

CoherentInv ==
    happened = {} /\ ~lapsed =>
        /\ initLock # None
        /\ redis = None => listening = {}
        /\ redis = None \/ (\E s \in Server : Making(s)) => FirstTurn
        /\ \A s \in Server : OneInitializer(s) /\ LeaderStays(s) /\ ToldOrCurrent(s)
=============================================================================
