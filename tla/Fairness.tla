------------------------------- MODULE Fairness -------------------------------
(***************************************************************************)
(* The seeds of one (user, agent): FairnessService, the bets and rounds    *)
(* of GamePlayService that read, show and rotate them, and the socket      *)
(* (GamePlayGateway) through which the client reaches both.                *)
(*                                                                         *)
(* The record of the seeds is read, changed and written back; every action *)
(* is the code between two awaits.  The commitment hashedServerSeed is the *)
(* server seed itself here: equal hashes mean equal seeds.                 *)
(***************************************************************************)
EXTENDS Integers, FiniteSets

CONSTANTS
    Request,     \* handler activations
    Round,       \* bound of the model: bets whose session is saved
    ServerSeed,  \* numbers that stand for server seeds
    UserSeed,    \* the seeds a client chooses
    Generated,   \* a user seed made by the server
    Scenarios,   \* the sets of events a behaviour may meet
    None

EventKind == {"overlap", \* the client does not wait for replies
              "drop",    \* the client's socket closes
              "flush",   \* another client's does: FLUSHALL
              "expire",  \* a key's TTL runs out
              "db",      \* a Redis, MySQL or wallet call fails
              "crash"}   \* the server dies

Seeds   == [user : UserSeed \cup {Generated}, server : ServerSeed, nonce : Nat]
Session == [round : Round, seeds : Seeds, active : BOOLEAN]

ASSUME SeedsAssumption ==
    /\ Scenarios \subseteq SUBSET EventKind
    /\ Generated \notin UserSeed
    /\ ServerSeed \subseteq Nat
    /\ None \notin Request \cup Round \cup ServerSeed \cup UserSeed \cup {Generated}
    /\ None \notin Seeds \cup Session

VARIABLES
    events,   \* what may happen in this behaviour: never changes
    sock,     \* the client's socket: what its data and its server know
    live,     \* activations whose socket is still open
    task,     \* what an activation does
    pc,       \* where it is suspended
    local,    \* the FairnessData it read or made
    held,     \* the GameSession it read, or whose round it is about to save
    record,   \* Redis fairness:user-agent
    session,  \* Redis gameSession:user-agent-game
    betLock,  \* Redis bet-lock:user-agent
    row,      \* fairnessData of the bet rows
    played,   \* history: the seeds of a round when it began
    promise   \* history: the user seed and the commitment the client relies on

requestVars == <<task, pc, local, held>>
redisVars   == <<record, session, betLock>>
historyVars == <<row, played, promise>>
vars == <<events, sock, live, task, pc, local, held, record, session, betLock,
          row, played, promise>>

Task    == {"connect", "ask", "choose", "bet", "end"}
Stage   == {"verify", "admit", "check", "get", "create", "use", "save", "record",
            "clear", "unlock"}

SeedsTypeOK ==
    /\ events \in Scenarios
    /\ sock \in {"closed", "open", "known", "ready"}
    /\ live \subseteq Request
    /\ task \in [Request -> Task \cup {None}]
    /\ pc \in [Request -> Stage \cup {"idle"}]
    /\ local \in [Request -> Seeds \cup {None}]
    /\ held \in [Request -> Session \cup {None}]
    /\ record \in Seeds \cup {None}
    /\ session \in Session \cup {None}
    /\ betLock \in Request \cup {None}
    /\ row \in [Round -> Seeds \cup {None}]
    /\ played \in [Round -> Seeds \cup {None}]
    /\ promise \in [user : UserSeed \cup {Generated, None}, server : ServerSeed \cup {None}]

NoPromise == [user |-> None, server |-> None]

SeedsInit ==
    /\ events \in Scenarios
    /\ sock = "closed"
    /\ live = {}
    /\ task = [r \in Request |-> None]
    /\ pc = [r \in Request |-> "idle"]
    /\ local = [r \in Request |-> None]
    /\ held = [r \in Request |-> None]
    /\ record = None
    /\ session = None
    /\ betLock = None
    /\ row = [b \in Round |-> None]
    /\ played = [b \in Round |-> None]
    /\ promise = NoPromise

-----------------------------------------------------------------------------
(* Helpers *)

At(r, kind, stage) == task[r] = kind /\ pc[r] = stage
Goto(r, stage)     == pc' = [pc EXCEPT ![r] = stage]

Stop(r) ==
    /\ task' = [task EXCEPT ![r] = None]
    /\ Goto(r, "idle")
    /\ local' = [local EXCEPT ![r] = None]
    /\ held' = [held EXCEPT ![r] = None]
Finish(r) == Stop(r) /\ live' = live \ {r}

\* An action is refused until handleConnection has put the user and the agent in
\* the socket's data: before the checks of the game and the agent are through.
MayStart(r) ==
    /\ pc[r] = "idle"
    /\ \/ sock = "ready" /\ live = {}
       \/ "overlap" \in events /\ sock \in {"known", "ready"}

Begin(r, kind, stage) ==
    /\ MayStart(r)
    /\ task' = [task EXCEPT ![r] = kind]
    /\ Goto(r, stage)
    /\ live' = live \cup {r}

\* The least number that nothing refers to stands for 32 random bytes.
InUse ==
    {x.server : x \in ({record, promise} \cup {local[r] : r \in Request}
                          \cup {played[b] : b \in Round}) \ {None}}
NewSeed(s) == /\ s \in ServerSeed \ InUse
              /\ \A t \in ServerSeed \ InUse : s <= t

\* Bound of the model: no more bets than rounds.
RoundsLeft ==
    Cardinality({q \in Request : task[q] = "bet"}) < Cardinality({b \in Round : played[b] = None})

-----------------------------------------------------------------------------
(* handleConnection and handleDisconnect *)

FlushAll ==
    /\ record' = None /\ session' = None /\ betLock' = None
    /\ promise' = NoPromise

Connect(r) ==
    /\ sock = "closed"
    /\ pc[r] = "idle"
    /\ sock' = "open"
    /\ task' = [task EXCEPT ![r] = "connect"]
    /\ Goto(r, "verify")
    /\ live' = live \cup {r}
    /\ UNCHANGED <<events, local, held, redisVars, historyVars>>

\* verifyToken, then the writes of client.data.
Verified(r) ==
    /\ At(r, "connect", "verify")
    /\ Goto(r, "admit")
    /\ sock' = IF r \in live THEN "known" ELSE sock
    /\ UNCHANGED <<events, live, task, local, held, redisVars, historyVars>>

\* The game is active, the agent has access; balance, configuration and user are
\* fetched.
Admitted(r) ==
    /\ At(r, "connect", "admit")
    /\ Goto(r, "get")
    /\ UNCHANGED <<events, sock, live, task, local, held, redisVars, historyVars>>

\* emitAndDisconnect; client.disconnect() runs handleDisconnect too.
Refused(r) ==
    /\ "drop" \in events
    /\ task[r] = "connect" /\ pc[r] \in {"verify", "admit"}
    /\ Stop(r)
    /\ \/ r \in live /\ sock' = "closed" /\ live' = {} /\ FlushAll
       \/ r \notin live /\ UNCHANGED <<sock, live, redisVars, promise>>
    /\ UNCHANGED <<events, row, played>>

\* The balance, the configuration or the user cannot be fetched: the exception
\* leaves a socket that is served and was never welcomed.
WelcomeFails(r) ==
    /\ "db" \in events
    /\ At(r, "connect", "admit")
    /\ Finish(r)
    /\ UNCHANGED <<events, sock, redisVars, historyVars>>

\* The five welcome events.
Welcome(r) ==
    /\ At(r, "connect", "use")
    /\ sock' = IF r \in live THEN "ready" ELSE sock
    /\ Finish(r)
    /\ UNCHANGED <<events, redisVars, historyVars>>

\* handleDisconnect -> cleanupOnDisconnect.  The handlers go on, unheard.
Disconnect ==
    /\ "drop" \in events
    /\ sock # "closed"
    /\ sock' = "closed"
    /\ live' = {}
    /\ FlushAll
    /\ UNCHANGED <<events, requestVars, row, played>>

-----------------------------------------------------------------------------
(* getOrCreateFairness, as every task calls it *)

\* Mutant: the record is never looked at.
GetFairnessAnew(r) ==
    /\ pc[r] = "get"
    /\ \E s \in ServerSeed :
          /\ NewSeed(s)
          /\ local' = [local EXCEPT ![r] = [user |-> Generated, server |-> s, nonce |-> 0]]
    /\ Goto(r, "create")
    /\ UNCHANGED <<events, sock, live, task, held, redisVars, historyVars>>

\* GET; when there is nothing new seeds are made ...
GetFairness(r) ==
    /\ pc[r] = "get"
    /\ \/ /\ record # None
          /\ local' = [local EXCEPT ![r] = record]
          /\ Goto(r, "use")
       \/ /\ record = None
          /\ \E s \in ServerSeed :
                /\ NewSeed(s)
                /\ local' = [local EXCEPT ![r] =
                                [user |-> Generated, server |-> s, nonce |-> 0]]
          /\ Goto(r, "create")
    /\ UNCHANGED <<events, sock, live, task, held, redisVars, historyVars>>

\* ... and stored over whatever has come there meanwhile.
CreateFairness(r) ==
    /\ pc[r] = "create"
    /\ record' = local[r]
    /\ Goto(r, "use")
    /\ UNCHANGED <<events, sock, live, task, local, held, session, betLock, historyVars>>

\* A connection goes on without seeds, a settled round without rotating them, a bet
\* still gives its lock back; the others answer with an error.
FairnessFails(r) ==
    /\ "db" \in events
    /\ pc[r] \in {"get", "create", "use"}
    /\ ~At(r, "connect", "use")
    /\ CASE task[r] = "connect" -> Goto(r, "use") /\ UNCHANGED <<live, task, local, held>>
         [] task[r] = "end"     -> Goto(r, "clear") /\ UNCHANGED <<live, task, local, held>>
         [] task[r] = "bet"     -> Goto(r, "unlock") /\ UNCHANGED <<live, task, local, held>>
         [] OTHER               -> Finish(r)
    /\ UNCHANGED <<events, sock, redisVars, historyVars>>

-----------------------------------------------------------------------------
(* get-game-seeds and set-user-seed *)

AskSeeds(r) ==
    /\ Begin(r, "ask", "get")
    /\ UNCHANGED <<events, sock, local, held, redisVars, historyVars>>

\* The client sees its user seed and the hash of the server seed.
GetGameSeeds(r) ==
    /\ At(r, "ask", "use")
    /\ promise' = IF r \in live
                    THEN [user |-> local[r].user, server |-> local[r].server]
                    ELSE promise
    /\ Finish(r)
    /\ UNCHANGED <<events, sock, redisVars, row, played>>

\* A client that asks for another seed no longer counts on the old one.
ChooseSeed(r) ==
    /\ Begin(r, "choose", "get")
    /\ promise' = [promise EXCEPT !.user = None]
    /\ UNCHANGED <<events, sock, local, held, redisVars, row, played>>

\* Mutant: the fields that stay as they are are not copied.
SetSeedAlone(r, u) ==
    /\ At(r, "choose", "use")
    /\ record' = [user |-> u]
    /\ promise' = IF r \in live THEN [promise EXCEPT !.user = u] ELSE promise
    /\ Finish(r)
    /\ UNCHANGED <<events, sock, session, betLock, row, played>>

\* The record read before is written back with the seed of the client.
SetUserSeed(r, u) ==
    /\ At(r, "choose", "use")
    /\ record' = [local[r] EXCEPT !.user = u]
    /\ promise' = IF r \in live THEN [promise EXCEPT !.user = u] ELSE promise
    /\ Finish(r)
    /\ UNCHANGED <<events, sock, session, betLock, row, played>>

-----------------------------------------------------------------------------
(* A bet: what it does to the lock, the session and the seeds *)

BetAcquireLock(r) ==
    /\ Begin(r, "bet", "check")
    /\ RoundsLeft
    /\ betLock = None
    /\ betLock' = r
    /\ UNCHANGED <<events, sock, local, held, record, session, historyVars>>

\* An active session, or a wallet that refuses, ends it.
BetRejected(r) ==
    /\ At(r, "bet", "check")
    /\ Goto(r, "unlock")
    /\ UNCHANGED <<events, sock, live, task, local, held, redisVars, historyVars>>

BetAccepted(r) ==
    /\ At(r, "bet", "check")
    /\ session # None => ~session.active
    /\ Goto(r, "get")
    /\ UNCHANGED <<events, sock, live, task, local, held, redisVars, historyVars>>

\* The session takes the seeds it was given, whatever the record holds by now.
BetSaveSession(r) ==
    /\ At(r, "bet", "use")
    /\ \E b \in Round :
          /\ played[b] = None
          /\ session' = [round |-> b, seeds |-> local[r], active |-> TRUE]
          /\ played' = [played EXCEPT ![b] = local[r]]
    /\ Goto(r, "unlock")
    /\ UNCHANGED <<events, sock, live, task, local, held, record, betLock, row, promise>>

BetReleaseLock(r) ==
    /\ At(r, "bet", "unlock")
    /\ betLock' = None
    /\ Finish(r)
    /\ UNCHANGED <<events, sock, record, session, historyVars>>

-----------------------------------------------------------------------------
(* The end of a round: the last step or a cash-out *)

EndRead(r) ==
    /\ Begin(r, "end", "save")
    /\ session # None /\ session.active
    /\ held' = [held EXCEPT ![r] = session]
    /\ promise' = [promise EXCEPT !.server = None]
    /\ UNCHANGED <<events, sock, local, redisVars, row, played>>

EndSave(r) ==
    /\ At(r, "end", "save")
    /\ session' = [held[r] EXCEPT !.active = FALSE]
    /\ Goto(r, "record")
    /\ UNCHANGED <<events, sock, live, task, local, held, record, betLock, historyVars>>

\* Mutant: the seeds of the record are stored with the bet.
RecordCurrentSeeds(r) ==
    /\ At(r, "end", "record")
    /\ row' = [row EXCEPT ![held[r].round] = IF @ # None THEN @ ELSE record]
    /\ Goto(r, "get")
    /\ UNCHANGED <<events, sock, live, task, local, held, redisVars, played, promise>>

\* recordSettlement, which leaves a settled row alone: the seeds of the session
\* come to light in the client's history.
RecordSettlement(r) ==
    /\ At(r, "end", "record")
    /\ row' = [row EXCEPT ![held[r].round] = IF @ # None THEN @ ELSE held[r].seeds]
    /\ Goto(r, "get")
    /\ UNCHANGED <<events, sock, live, task, local, held, redisVars, played, promise>>

\* No settlement (the wallet or MySQL fails): no rotation, the session stays ended.
SettlementFails(r) ==
    /\ "db" \in events
    /\ task[r] = "end" /\ pc[r] \in {"save", "record"}
    /\ Finish(r)
    /\ UNCHANGED <<events, sock, redisVars, historyVars>>

\* Mutant: the nonce counts on, the server seed stays.
RotateNonceOnly(r) ==
    /\ At(r, "end", "use")
    /\ record' = [local[r] EXCEPT !.nonce = @ + 1]
    /\ Goto(r, "clear")
    /\ UNCHANGED <<events, sock, live, task, local, held, session, betLock, historyVars>>

\* Mutant: the server seed is replaced, the nonce stays.
RotateSeedOnly(r) ==
    /\ At(r, "end", "use")
    /\ \E s \in ServerSeed :
          /\ NewSeed(s)
          /\ record' = [local[r] EXCEPT !.server = s]
    /\ Goto(r, "clear")
    /\ UNCHANGED <<events, sock, live, task, local, held, session, betLock, historyVars>>

\* rotateSeeds: a new server seed and the next nonce, written over the record.
RotateSeeds(r) ==
    /\ At(r, "end", "use")
    /\ \E s \in ServerSeed :
          /\ NewSeed(s)
          /\ record' = [local[r] EXCEPT !.server = s, !.nonce = @ + 1]
    /\ Goto(r, "clear")
    /\ UNCHANGED <<events, sock, live, task, local, held, session, betLock, historyVars>>

\* DEL, whichever round the key holds by now; a failing DEL is swallowed.
ClearSession(r) ==
    /\ At(r, "end", "clear")
    /\ \/ session' = None
       \/ "db" \in events /\ UNCHANGED session
    /\ Finish(r)
    /\ UNCHANGED <<events, sock, record, betLock, historyVars>>

-----------------------------------------------------------------------------
(* The environment *)

OthersFlush ==
    /\ "flush" \in events
    /\ FlushAll
    /\ UNCHANGED <<events, sock, live, requestVars, row, played>>

\* Seven days for the seeds, the session TTL, thirty seconds for the lock.
KeyExpires ==
    /\ "expire" \in events
    /\ \/ record' = None /\ promise' = NoPromise /\ UNCHANGED <<session, betLock>>
       \/ session' = None /\ UNCHANGED <<record, betLock, promise>>
    /\ UNCHANGED <<events, sock, live, requestVars, row, played>>

\* A lock outlives a holder that is gone.
LockExpires ==
    /\ betLock # None
    /\ task[betLock] # "bet"
    /\ betLock' = None
    /\ UNCHANGED <<events, sock, live, requestVars, record, session, historyVars>>

\* The server dies with its handlers and its sockets; nothing is flushed.
Crash ==
    /\ "crash" \in events
    /\ sock # "closed"
    /\ sock' = "closed"
    /\ live' = {}
    /\ task' = [r \in Request |-> None]
    /\ pc' = [r \in Request |-> "idle"]
    /\ local' = [r \in Request |-> None]
    /\ held' = [r \in Request |-> None]
    /\ UNCHANGED <<events, redisVars, historyVars>>

-----------------------------------------------------------------------------
Connection(r) ==
    Connect(r) \/ Verified(r) \/ Admitted(r) \/ Refused(r)
    \/ WelcomeFails(r) \/ Welcome(r)

SeedFlow(r) ==
    \/ GetFairness(r) \/ CreateFairness(r) \/ FairnessFails(r)
    \/ AskSeeds(r) \/ GetGameSeeds(r) \/ ChooseSeed(r)
    \/ \E u \in UserSeed : SetUserSeed(r, u)

BetFlow(r) ==
    \/ BetAcquireLock(r) \/ BetRejected(r) \/ BetAccepted(r)
    \/ BetSaveSession(r) \/ BetReleaseLock(r)

EndFlow(r) ==
    \/ EndRead(r) \/ EndSave(r) \/ RecordSettlement(r) \/ SettlementFails(r)
    \/ RotateSeeds(r) \/ ClearSession(r)

SeedsNext ==
    \/ \E r \in Request : Connection(r) \/ SeedFlow(r) \/ BetFlow(r) \/ EndFlow(r)
    \/ Disconnect \/ OthersFlush \/ KeyExpires \/ LockExpires \/ Crash

SeedsSpec == SeedsInit /\ [][SeedsNext]_vars

-----------------------------------------------------------------------------
(* Properties: each says which events it withstands *)

Within(kinds) == events \subseteq kinds

\* The seeds stored with a settled bet, which the history shows, are those its round
\* began with, even when the record was rotated, chosen anew, flushed or overwritten
\* while it was played.
HistoryShowsPlayed ==
    \A b \in Round : row[b] # None => row[b] = played[b]

\* A client that waits for its replies, and keeps its connection, never plays a
\* round under a server seed its history shows, whatever Redis drops meanwhile.
SecretWhilePlayed ==
    Within({"flush", "expire"}) /\ session # None /\ session.active =>
        \A b \in Round : row[b] # None => row[b].server # session.seeds.server

\* While nothing is lost the rounds of such a client are told apart by their nonce.
NoncesDistinct ==
    Within({}) =>
        \A b, c \in Round :
            b # c /\ row[b] # None /\ row[c] # None => row[b].nonce # row[c].nonce

\* The next round is played under the user seed that was acknowledged or shown, and
\* the server seed whose hash was shown since the last round, even if calls fail or
\* the server dies in between.
PromisesKept ==
    [][Within({"db", "crash"}) =>
        \A b \in Round : played'[b] # played[b] =>
            /\ promise.user \in {None, played'[b].user}
            /\ promise.server \in {None, played'[b].server}]_vars

-----------------------------------------------------------------------------
(* The parts of the invariant of HistoryShowsPlayed *)

\* A task past getOrCreateFairness has seeds; a connection may have none.
SeedsHeld ==
    \A r \in Request :
        pc[r] = "create" \/ (pc[r] = "use" /\ task[r] # "connect") => local[r] \in Seeds

\* The end of a round works on a session until it has recorded it.
SessionHeld ==
    \A r \in Request : task[r] = "end" /\ pc[r] \in {"save", "record"} => held[r] \in Session

\* A session, stored or held, has the seeds its round began with.
Unaltered(x) == x # None => played[x.round] = x.seeds
SessionsUnaltered == Unaltered(session) /\ \A r \in Request : Unaltered(held[r])

HistoryInv == /\ SeedsTypeOK /\ SeedsHeld /\ SessionHeld
              /\ SessionsUnaltered /\ HistoryShowsPlayed

-----------------------------------------------------------------------------
(* Why the others hold: a client that waits has one activation at a time *)

Alone == /\ \A r \in Request : r \in live <=> pc[r] # "idle"
         /\ \A q, r \in live : q = r
         /\ sock = "closed" => live = {}

Playing == session # None /\ session.active

\* Once the end of a round has saved the session, none is played before it is over.
SessionEnded ==
    \A r \in Request :
        task[r] = "end" /\ pc[r] \in {"record", "get", "create", "use", "clear"} => ~Playing

\* From the settlement of a round to the rotation the record is that of the round.
Rotating  == \E r \in Request : task[r] = "end" /\ pc[r] \in {"get", "create", "use"}
Uses(r)   == pc[r] = "create" \/ (pc[r] = "use" /\ task[r] # "connect")
Shown(s)  == \E b \in Round : row[b] # None /\ row[b].server = s

\* SecretWhilePlayed: outside of a rotation no seeds that are to be played are shown.
SecretInv ==
    /\ Alone /\ SessionEnded
    /\ Playing => ~Shown(session.seeds.server)
    /\ record # None /\ Shown(record.server) => Rotating
    /\ \A r \in Request : Uses(r) /\ task[r] # "end" => ~Shown(local[r].server)

\* NoncesDistinct: the record counts the rounds, and nobody else does.
Counts(x) == record # None /\ x.nonce = record.nonce
NoncesInv ==
    /\ Alone /\ SessionEnded /\ NoncesDistinct
    /\ record = None => session = None /\ \A b \in Round : row[b] = None
    /\ Playing => Counts(session.seeds)
    /\ \A r \in Request :
          /\ pc[r] = "create" => record = None
          /\ pc[r] = "use" => local[r] # None /\ Counts(local[r])
          /\ task[r] = "end" /\ pc[r] \in {"save", "record"} => Counts(held[r].seeds)
    /\ \A b \in Round :
          row[b] # None => \/ row[b].nonce < record.nonce
                           \/ row[b].nonce = record.nonce /\ Rotating

\* PromisesKept: the record keeps what the client relies on.
Keeps(x) == promise.user \in {None, x.user} /\ promise.server \in {None, x.server}
PromiseInv ==
    /\ Alone
    /\ IF record = None THEN promise = NoPromise ELSE Keeps(record)
    /\ \A r \in Request :
          /\ pc[r] = "create" => record = None
          /\ pc[r] = "use" /\ task[r] # "connect" => local[r] # None /\ local[r] = record
          /\ pc[r] # "idle" /\ task[r] = "end" => promise.server = None
          /\ pc[r] # "idle" /\ task[r] = "choose" => promise.user = None

SeedsSecret   == Within({"flush", "expire"}) => SecretInv
SeedsCounted  == Within({}) => NoncesInv
SeedsPromised == Within({"db", "crash"}) => PromiseInv
=============================================================================
