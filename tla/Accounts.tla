------------------------------- MODULE Accounts -------------------------------
(***************************************************************************)
(* Agents, their admin accounts and their members: the calls of the admin  *)
(* portal (AdminAgentService, signup of AdminAuthService) and createMember *)
(* of the agents' API.  Each call reads first and writes later.            *)
(*                                                                         *)
(* createAgent and deleteAgent write in a MySQL transaction.  A row it has *)
(* inserted or deleted is locked; the tables hold what is committed, which *)
(* is what the reads of other calls see.  An insertion that finds its key  *)
(* locked waits for a shared lock, and several of them get it together.    *)
(***************************************************************************)
EXTENDS Integers, FiniteSets

CONSTANTS
    Request,    \* activations of the calls
    Agent,      \* agentIds: also the usernames of admin accounts
    Member,     \* (userId, agentId)
    AgentOf,    \* the agent of a member
    TasksOf,    \* the calls that an activation may be
    Id,         \* numbers that stand for uuids of admins and data of members
    Scenarios,  \* the sets of events a behaviour may meet
    None

EventKind == {"overlap",  \* two deletions of an agent, or creations of a member, at once
              "stop"}     \* a statement fails, or the server dies: MySQL rolls back

\* made is the uuid of the admin that was created with the agent: their password
\* hashes are the same.  paired remembers that createAgent made the admin, not signup.
AgentRow == [made : Id, whitelisted : BOOLEAN]
AdminRow == [id : Id, paired : BOOLEAN]

Task == {"createAgent", "deleteAgent", "updateAgent", "signup", "createMember"}

ASSUME AccountsAssumption ==
    /\ TasksOf \in [Request -> SUBSET Task]
    /\ AgentOf \in [Member -> Agent]
    /\ Scenarios \subseteq SUBSET EventKind
    /\ Id \subseteq Nat
    /\ None \notin Request \cup Agent \cup Member \cup Id
    /\ None \notin Task
    /\ None \notin AgentRow /\ None \notin AdminRow

VARIABLES
    events,     \* what may happen in this behaviour: never changes
    agents,     \* the committed rows of agents
    admins,     \* the committed rows of admins, by username
    agentLock,  \* the open transaction that wrote the agent's row
    adminLock,  \* the open transaction that wrote the admin's row
    members,    \* the row of a member: the data of the call that wrote it
    task,       \* what an activation does
    pc,         \* the statement it is about to send
    arg,        \* the agent or the member it is about
    local       \* the uuid it found or made

callVars == <<task, pc, arg, local>>
lockVars == <<agentLock, adminLock>>
vars == <<events, agents, admins, agentLock, adminLock, members, task, pc, arg, local>>

Stage == {"checkAdmin", "saveAdmin", "saveAgent", "findAdmin", "removeAgent", "removeAdmin",
          "commit", "wait", "update", "insertAdmin", "find", "load", "insert", "overwrite"}

\* The state is well typed.
AccountsTypeOK ==
    /\ events \in Scenarios
    /\ agents \in [Agent -> AgentRow \cup {None}]
    /\ admins \in [Agent -> AdminRow \cup {None}]
    /\ agentLock \in [Agent -> Request \cup {None}]
    /\ adminLock \in [Agent -> Request \cup {None}]
    /\ members \in [Member -> Id \cup {None}]
    /\ task \in [Request -> Task \cup {None}]
    /\ pc \in [Request -> Stage \cup {"idle"}]
    /\ arg \in [Request -> Agent \cup Member \cup {None}]
    /\ local \in [Request -> Id \cup {None}]

AccountsInit ==
    /\ events \in Scenarios
    /\ agents = [a \in Agent |-> None]
    /\ admins = [a \in Agent |-> None]
    /\ agentLock = [a \in Agent |-> None]
    /\ adminLock = [a \in Agent |-> None]
    /\ members = [m \in Member |-> None]
    /\ task = [r \in Request |-> None]
    /\ pc = [r \in Request |-> "idle"]
    /\ arg = [r \in Request |-> None]
    /\ local = [r \in Request |-> None]

-----------------------------------------------------------------------------
(* Helpers *)

At(r, kind, stage) == task[r] = kind /\ pc[r] = stage
Goto(r, stage) == pc' = [pc EXCEPT ![r] = stage]
Keep(r, id) == local' = [local EXCEPT ![r] = id]

\* The first read of a call is part of its start; a call it refuses changes nothing.
Start(r, kind, x, stage) ==
    /\ pc[r] = "idle" /\ kind \in TasksOf[r]
    /\ task' = [task EXCEPT ![r] = kind]
    /\ arg' = [arg EXCEPT ![r] = x]
    /\ Goto(r, stage)

Stop(r) ==
    /\ task' = [task EXCEPT ![r] = None]
    /\ arg' = [arg EXCEPT ![r] = None]
    /\ Goto(r, "idle")
    /\ Keep(r, None)

\* Calls of one kind about one agent or member come one after the other.
Alone(kind, x) == \A s \in Request : task[s] = kind => arg[s] # x
MayOverlap(kind, x) == "overlap" \in events \/ Alone(kind, x)

\* The least number that nothing refers to stands for a new uuid, or for the data of a
\* new call.
Least(i, used) == i \notin used /\ \A j \in Id : j < i => j \in used
MemberCalls == {s \in Request : task[s] = "createMember"}
NewUuid(i) ==
    Least(i, {j \in Id : \/ \E a \in Agent : admins[a] # None /\ admins[a].id = j
                         \/ \E a \in Agent : agents[a] # None /\ agents[a].made = j
                         \/ \E s \in Request \ MemberCalls : local[s] = j})
NewData(i) ==
    Least(i, {j \in Id : \/ \E m \in Member : members[m] = j
                         \/ \E s \in MemberCalls : local[s] = j})

-----------------------------------------------------------------------------
(* Transactions *)

HeldBy(lock, r) == {a \in Agent : lock[a] = r}
Without(lock, r) == [a \in Agent |-> IF lock[a] = r THEN None ELSE lock[a]]

\* The end of a transaction releases its locks, and commits or forgets its writes.
Release(r) ==
    /\ agentLock' = Without(agentLock, r)
    /\ adminLock' = Without(adminLock, r)
    /\ Stop(r)

\* Mutant: the connection goes back to the pool with its transaction open.
RollbackForgotten(r) ==
    /\ Stop(r)
    /\ UNCHANGED <<events, agents, admins, agentLock, adminLock, members>>

Rollback(r) ==
    /\ Release(r)
    /\ UNCHANGED <<events, agents, admins, members>>

\* A row that createAgent holds was inserted, one that deleteAgent holds was deleted.
Written(table, lock, r, row) ==
    [a \in Agent |-> IF a \in HeldBy(lock, r) THEN row ELSE table[a]]

\* Mutant: the default of isWhitelisted is lost.
CommitUnlisted(r) ==
    /\ At(r, "createAgent", "commit")
    /\ agents' = Written(agents, agentLock, r, [made |-> local[r], whitelisted |-> None])
    /\ admins' = Written(admins, adminLock, r, [id |-> local[r], paired |-> TRUE])
    /\ Release(r)
    /\ UNCHANGED <<events, members>>

CommitCreate(r) ==
    /\ At(r, "createAgent", "commit")
    /\ \E w \in BOOLEAN :
          agents' = Written(agents, agentLock, r, [made |-> local[r], whitelisted |-> w])
    /\ admins' = Written(admins, adminLock, r, [id |-> local[r], paired |-> TRUE])
    /\ Release(r)
    /\ UNCHANGED <<events, members>>

CommitDelete(r) ==
    /\ At(r, "deleteAgent", "commit")
    /\ agents' = Written(agents, agentLock, r, None)
    /\ admins' = Written(admins, adminLock, r, None)
    /\ Release(r)
    /\ UNCHANGED <<events, members>>

-----------------------------------------------------------------------------
(* createAgent: both accounts in one transaction *)

CreateAgent(r, a) ==
    /\ agents[a] = None
    /\ Start(r, "createAgent", a, "checkAdmin")
    /\ UNCHANGED <<events, agents, admins, lockVars, members, local>>

CheckAdmin(r) ==
    /\ At(r, "createAgent", "checkAdmin")
    /\ \/ /\ admins[arg[r]] # None
          /\ Stop(r)
       \/ /\ admins[arg[r]] = None
          /\ \E i \in Id : NewUuid(i) /\ Keep(r, i)
          /\ Goto(r, "saveAdmin")
          /\ UNCHANGED <<task, arg>>
    /\ UNCHANGED <<events, agents, admins, lockVars, members>>

\* An insertion, createAgent's or signup's, that meets a lock on its username waits for a
\* shared one.  Once the lock is gone all that waited share the name; a duplicate ends
\* them, otherwise each must be the only one to insert.
Shares(r, a) == pc[r] = "wait" /\ arg[r] = a /\ adminLock[a] = None
Unshared(r) == \A s \in Request \ {r} : ~Shares(s, arg[r])
Inserts(r) ==
    \/ task[r] = "createAgent" /\ pc[r] \in {"saveAdmin", "wait"}
    \/ task[r] = "signup" /\ pc[r] \in {"insertAdmin", "wait"}

WaitForName(r) ==
    /\ Inserts(r) /\ pc[r] # "wait"
    /\ adminLock[arg[r]] # None
    /\ Goto(r, "wait")
    /\ UNCHANGED <<events, agents, admins, lockVars, members, task, arg, local>>

\* Two that share a name nobody has wait for one another: MySQL rolls one of them back.
Deadlocked(r) == Shares(r, arg[r]) /\ admins[arg[r]] = None /\ ~Unshared(r)
DeadlockVictim(r) == Deadlocked(r) /\ Rollback(r)

\* Mutant: no unique key on the username.
SaveAdminTwice(r) ==
    /\ task[r] = "createAgent" /\ Inserts(r)
    /\ adminLock[arg[r]] = None
    /\ adminLock' = [adminLock EXCEPT ![arg[r]] = r]
    /\ Goto(r, "saveAgent")
    /\ UNCHANGED <<events, agents, admins, agentLock, members, task, arg, local>>

\* Mutant: the repository saves the admin, not the transaction's manager.
SaveAdminAtOnce(r) ==
    /\ task[r] = "createAgent" /\ Inserts(r)
    /\ adminLock[arg[r]] = None
    /\ \/ /\ admins[arg[r]] # None
          /\ Rollback(r)
       \/ /\ admins[arg[r]] = None
          /\ admins' = [admins EXCEPT ![arg[r]] = [id |-> local[r], paired |-> TRUE]]
          /\ Goto(r, "saveAgent")
          /\ UNCHANGED <<events, agents, lockVars, members, task, arg, local>>

\* usernames are unique: the insert fails on a row that is there.
SaveAdmin(r) ==
    /\ task[r] = "createAgent" /\ Inserts(r)
    /\ adminLock[arg[r]] = None
    /\ \/ /\ admins[arg[r]] # None
          /\ Rollback(r)
       \/ /\ admins[arg[r]] = None /\ Unshared(r)
          /\ adminLock' = [adminLock EXCEPT ![arg[r]] = r]
          /\ Goto(r, "saveAgent")
          /\ UNCHANGED <<events, agents, admins, agentLock, members, task, arg, local>>

\* save() inserts the agent's row, or updates one that is there.
SaveAgent(r) ==
    /\ At(r, "createAgent", "saveAgent")
    /\ agentLock[arg[r]] = None
    /\ agentLock' = [agentLock EXCEPT ![arg[r]] = r]
    /\ Goto(r, "commit")
    /\ UNCHANGED <<events, agents, admins, adminLock, members, task, arg, local>>

-----------------------------------------------------------------------------
(* deleteAgent: looks both rows up, then removes what it found in a transaction *)

DeleteAgent(r, a) ==
    /\ agents[a] # None
    /\ MayOverlap("deleteAgent", a)
    /\ Start(r, "deleteAgent", a, "findAdmin")
    /\ UNCHANGED <<events, agents, admins, lockVars, members, local>>

FindAdmin(r) ==
    /\ At(r, "deleteAgent", "findAdmin")
    /\ Keep(r, IF admins[arg[r]] = None THEN None ELSE admins[arg[r]].id)
    /\ Goto(r, "removeAgent")
    /\ UNCHANGED <<events, agents, admins, lockVars, members, task, arg>>

\* The agent goes by its agentId, whichever createAgent made it, also one that is just
\* being inserted; a missing one is no error.
RemoveAgent(r) ==
    /\ At(r, "deleteAgent", "removeAgent")
    /\ agentLock[arg[r]] = None
    /\ \/ agents[arg[r]] = None /\ UNCHANGED agentLock
       \/ agents[arg[r]] # None /\ agentLock' = [agentLock EXCEPT ![arg[r]] = r]
    /\ Goto(r, "removeAdmin")
    /\ UNCHANGED <<events, agents, admins, adminLock, members, task, arg, local>>

\* The admin goes by its uuid: another admin of that name stays.
IsFound(r) == admins[arg[r]] # None /\ admins[arg[r]].id = local[r]

\* Mutant: the repository removes the admin, not the transaction's manager.
RemoveAdminAtOnce(r) ==
    /\ At(r, "deleteAgent", "removeAdmin")
    /\ IsFound(r) => adminLock[arg[r]] = None
    /\ admins' = IF IsFound(r) THEN [admins EXCEPT ![arg[r]] = None] ELSE admins
    /\ Goto(r, "commit")
    /\ UNCHANGED <<events, agents, lockVars, members, task, arg, local>>

RemoveAdmin(r) ==
    /\ At(r, "deleteAgent", "removeAdmin")
    /\ \/ ~IsFound(r) /\ UNCHANGED adminLock
       \/ /\ IsFound(r)
          /\ adminLock[arg[r]] = None /\ Unshared(r)
          /\ adminLock' = [adminLock EXCEPT ![arg[r]] = r]
    /\ Goto(r, "commit")
    /\ UNCHANGED <<events, agents, admins, agentLock, members, task, arg, local>>

-----------------------------------------------------------------------------
(* updateAgent and signup: a read and one statement *)

UpdateAgent(r, a) ==
    /\ agents[a] # None
    /\ Start(r, "updateAgent", a, "update")
    /\ UNCHANGED <<events, agents, admins, lockVars, members, local>>

Update(r) ==
    /\ At(r, "updateAgent", "update")
    /\ agentLock[arg[r]] = None
    /\ \E w \in BOOLEAN :
          agents' = [agents EXCEPT ![arg[r]] =
                        IF @ = None THEN None ELSE [@ EXCEPT !.whitelisted = w]]
    /\ Stop(r)
    /\ UNCHANGED <<events, admins, lockVars, members>>

Signup(r, a) ==
    /\ admins[a] = None
    /\ Start(r, "signup", a, "insertAdmin")
    /\ \E i \in Id : NewUuid(i) /\ Keep(r, i)
    /\ UNCHANGED <<events, agents, admins, lockVars, members>>

InsertAdmin(r) ==
    /\ task[r] = "signup" /\ Inserts(r)
    /\ adminLock[arg[r]] = None
    /\ admins[arg[r]] = None => Unshared(r)
    /\ admins' = [admins EXCEPT ![arg[r]] =
                     IF @ = None THEN [id |-> local[r], paired |-> FALSE] ELSE @]
    /\ Stop(r)
    /\ UNCHANGED <<events, agents, lockVars, members>>

-----------------------------------------------------------------------------
(* createMember, behind the guard that looks the agent up *)

CreateMember(r, m) ==
    /\ agents[AgentOf[m]] # None /\ agents[AgentOf[m]].whitelisted
    /\ MayOverlap("createMember", m)
    /\ Start(r, "createMember", m, "find")
    /\ UNCHANGED <<events, agents, admins, lockVars, members, local>>

\* Mutant: the look for an existing account is dropped.
FindMemberSkipped(r) ==
    /\ At(r, "createMember", "find")
    /\ \E i \in Id : NewData(i) /\ Keep(r, i)
    /\ Goto(r, "load")
    /\ UNCHANGED <<events, agents, admins, lockVars, members, task, arg>>

FindMember(r) ==
    /\ At(r, "createMember", "find")
    /\ \/ /\ members[arg[r]] # None
          /\ Stop(r)
       \/ /\ members[arg[r]] = None
          /\ \E i \in Id : NewData(i) /\ Keep(r, i)
          /\ Goto(r, "load")
          /\ UNCHANGED <<task, arg>>
    /\ UNCHANGED <<events, agents, admins, lockVars, members>>

\* save() reads the row by its key once more, to choose between INSERT and UPDATE.
LoadMember(r) ==
    /\ At(r, "createMember", "load")
    /\ Goto(r, IF members[arg[r]] = None THEN "insert" ELSE "overwrite")
    /\ UNCHANGED <<events, agents, admins, lockVars, members, task, arg, local>>

InsertMember(r) ==
    /\ At(r, "createMember", "insert")
    /\ members' = [members EXCEPT ![arg[r]] = IF @ = None THEN local[r] ELSE @]
    /\ Stop(r)
    /\ UNCHANGED <<events, agents, admins, lockVars>>

OverwriteMember(r) ==
    /\ At(r, "createMember", "overwrite")
    /\ members' = [members EXCEPT ![arg[r]] = local[r]]
    /\ Stop(r)
    /\ UNCHANGED <<events, agents, admins, lockVars>>

-----------------------------------------------------------------------------
(* Behaviours *)

\* A failing statement ends a call by its catch, a dead server by MySQL.
Fails(r) ==
    /\ "stop" \in events
    /\ pc[r] # "idle"
    /\ Rollback(r)

Begin(r) ==
    \/ \E a \in Agent : CreateAgent(r, a) \/ DeleteAgent(r, a) \/ UpdateAgent(r, a) \/ Signup(r, a)
    \/ \E m \in Member : CreateMember(r, m)

Answer(r) ==
    \/ CheckAdmin(r) \/ SaveAdmin(r) \/ SaveAgent(r) \/ CommitCreate(r)
    \/ FindAdmin(r) \/ RemoveAgent(r) \/ RemoveAdmin(r) \/ CommitDelete(r)
    \/ Update(r) \/ InsertAdmin(r) \/ WaitForName(r) \/ DeadlockVictim(r)
    \/ FindMember(r) \/ LoadMember(r) \/ InsertMember(r) \/ OverwriteMember(r)

AccountsNext == \E r \in Request : Begin(r) \/ Answer(r) \/ Fails(r)

AccountsSpec == AccountsInit /\ [][AccountsNext]_vars

\* Statements return, and MySQL serves the transactions that wait for a row in turn.
FairAccountsSpec == AccountsSpec /\ \A r \in Request : SF_vars(Answer(r))

-----------------------------------------------------------------------------
(* Properties *)

\* The admin account of an agent is the one that was created with it: the transactions of
\* createAgent and deleteAgent, overlapping in any way with each other and with signups,
\* never leave an agent nobody can log in for, or one with the account of another.
AgentHasAdmin ==
    \A a \in Agent : agents[a] # None => admins[a] # None /\ admins[a].id = agents[a].made

\* deleteAgent's "both are deleted or both fail": an admin made with an agent does not
\* outlive it, while deletions of one agent do not overlap (see the README for those).
DeletedTogether ==
    "overlap" \notin events =>
        \A a \in Agent : admins[a] # None /\ admins[a].paired => agents[a] # None

\* createAgent takes the admin's row first and deleteAgent the agent's, yet transactions
\* that wait for one another in a circle are insertions of one admin that share its name:
\* whoever else waits, waits for one that goes on.
Waits(r, s) ==
    \/ Inserts(r) /\ adminLock[arg[r]] = s
    \/ Inserts(r) /\ admins[arg[r]] = None /\ s # r /\ Shares(s, arg[r])
    \/ At(r, "createAgent", "saveAgent") /\ agentLock[arg[r]] = s
    \/ At(r, "deleteAgent", "removeAgent") /\ agentLock[arg[r]] = s
    \/ At(r, "deleteAgent", "removeAdmin") /\ IsFound(r)
       /\ (adminLock[arg[r]] = s \/ Shares(s, arg[r]))
NoLockCycle ==
    \A circle \in (SUBSET Request) \ {{}} :
        (\A r \in circle : \E s \in circle : Waits(r, s)) => \E r \in circle : Deadlocked(r)

\* createAgent never takes the place of an agent that is there: its save() would update the
\* row, and only the unique username, taken first, stops a second creation that passed both
\* checks before the first committed.
AgentsNotReplaced ==
    [][\A a \in Agent :
          agents[a] # None /\ agents'[a] # None => agents'[a].made = agents[a].made]_vars

\* createMember is no upsert: the data of a member stay those of the call that made it,
\* while creations of one member do not overlap.  When they do, save() finds the row of
\* the other and overwrites it.
MembersKept ==
    [][\A m \in Member :
          "overlap" \notin events /\ members[m] # None => members'[m] = members[m]]_vars

\* Every call is answered: no failing transaction leaves a lock another waits for.
CallsAnswered == \A r \in Request : pc[r] # "idle" ~> pc[r] = "idle"

-----------------------------------------------------------------------------
(* Why AgentHasAdmin, AgentsNotReplaced and NoLockCycle hold *)

CreateStage == {"checkAdmin", "saveAdmin", "wait", "saveAgent", "commit"}
DeleteStage == {"findAdmin", "removeAgent", "removeAdmin", "commit"}

\* A call is suspended at a statement of its own, with the argument of its kind; one that
\* is about to write an admin or a member has made a uuid.
CallsFit ==
    \A r \in Request :
        /\ task[r] = None <=> pc[r] = "idle"
        /\ pc[r] = "idle" => local[r] = None
        /\ task[r] = "createAgent" => pc[r] \in CreateStage
        /\ task[r] = "deleteAgent" => pc[r] \in DeleteStage
        /\ task[r] = "updateAgent" => pc[r] = "update"
        /\ task[r] = "signup" => pc[r] \in {"insertAdmin", "wait"}
        /\ task[r] = "createMember" => pc[r] \in {"find", "load", "insert", "overwrite"}
        /\ task[r] \in Task \ {"createMember"} => arg[r] \in Agent
        /\ task[r] = "createMember" => arg[r] \in Member
        /\ pc[r] \in {"saveAdmin", "saveAgent", "insertAdmin", "wait", "load", "insert", "overwrite"}
               => local[r] # None
        /\ At(r, "createAgent", "commit") => local[r] # None

\* A lock belongs to a transaction about that agent that has written the row.
LocksOwned ==
    \A r \in Request, a \in Agent :
        /\ agentLock[a] = r =>
              /\ arg[r] = a
              /\ \/ At(r, "createAgent", "commit")
                 \/ task[r] = "deleteAgent" /\ pc[r] \in {"removeAdmin", "commit"}
        /\ adminLock[a] = r =>
              /\ arg[r] = a
              /\ \/ task[r] = "createAgent" /\ pc[r] \in {"saveAgent", "commit"}
                 \/ At(r, "deleteAgent", "commit")

\* A transaction that inserts holds the rows it wrote, and nobody has such an admin; one
\* that deletes an admin's row deletes the one it found.
WritersHold ==
    \A r \in Request :
        /\ task[r] = "createAgent" /\ pc[r] \in {"saveAgent", "commit"} =>
              adminLock[arg[r]] = r /\ admins[arg[r]] = None
        /\ At(r, "createAgent", "commit") => agentLock[arg[r]] = r
        /\ At(r, "deleteAgent", "commit") /\ adminLock[arg[r]] = r => IsFound(r)

\* A uuid that was made and not yet stored is nobody else's.
UuidsFresh ==
    \A r \in Request :
        task[r] \in {"createAgent", "signup"} /\ local[r] # None =>
            /\ \A a \in Agent : admins[a] # None => admins[a].id # local[r]
            /\ \A s \in Request \ MemberCalls : s # r => local[s] # local[r]

\* Past its removal of the agent, a deletion has locked the agent that belongs to the
\* admin it found, or there is no such agent.
DeletersHold ==
    \A r \in Request :
        task[r] = "deleteAgent" /\ pc[r] \in {"removeAdmin", "commit"} =>
            \/ agentLock[arg[r]] = r
            \/ agents[arg[r]] = None
            \/ agents[arg[r]].made # local[r]

AccountsInv ==
    /\ AccountsTypeOK
    /\ CallsFit
    /\ LocksOwned
    /\ WritersHold
    /\ UuidsFresh
    /\ DeletersHold
    /\ AgentHasAdmin

-----------------------------------------------------------------------------
(* Why DeletedTogether and MembersKept hold: one call of a kind at a time *)

CallsAlone(kind) ==
    \A r, s \in Request : task[r] = kind /\ task[s] = kind /\ arg[r] = arg[s] => r = s

\* A deletion finds the admin of the agent it looked up, and both rows still there.
DeletersFind ==
    \A r \in Request :
        task[r] = "deleteAgent" =>
            /\ agents[arg[r]] # None
            /\ pc[r] # "findAdmin" => IsFound(r)
            /\ pc[r] \in {"removeAdmin", "commit"} => agentLock[arg[r]] = r
            /\ pc[r] = "commit" => adminLock[arg[r]] = r

\* A creation that has found no member still finds none.
CreatorsFirst ==
    \A r \in Request :
        task[r] = "createMember" =>
            /\ pc[r] # "overwrite"
            /\ pc[r] \in {"load", "insert"} => members[arg[r]] = None

AloneInv ==
    "overlap" \notin events =>
        /\ CallsAlone("deleteAgent") /\ CallsAlone("createMember")
        /\ DeletersFind /\ CreatorsFirst /\ DeletedTogether
=============================================================================
