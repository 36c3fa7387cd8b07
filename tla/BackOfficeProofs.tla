--------------------------- MODULE BackOfficeProofs ---------------------------
(***************************************************************************)
(* Proofs about the admin portal's accounts, the creation of games and the *)
(* monthly clean-ups, for any calls, agents, members, servers, games,      *)
(* months and players; and about them together with the reports.           *)
(***************************************************************************)
EXTENDS MCBackOffice, ReportsProofs

-----------------------------------------------------------------------------
(* Accounts: every admin is the one made with its agent. *)

LEMMA AccountsInvInit == AccountsInit => AccountsInv
  BY AccountsAssumption
     DEF AccountsInit, AccountsInv, AccountsTypeOK, CallsFit, LocksOwned, WritersHold,
         UuidsFresh, DeletersHold, AgentHasAdmin, At, IsFound, Task, Stage, MemberCalls

\* A new uuid is not among those that calls and rows refer to.
LEMMA NewUuidIsNew ==
  ASSUME NEW i \in Id, NewUuid(i)
  PROVE  /\ \A a \in Agent : admins[a] # None => admins[a].id # i
         /\ \A s \in Request \ MemberCalls : local[s] # i
  BY DEF NewUuid, Least

LEMMA CallsPreserve ==
  ASSUME AccountsInv, NEW r \in Request, Begin(r)
  PROVE  AccountsInv'
  <1> USE AccountsAssumption, NewUuidIsNew
          DEF AccountsInv, AccountsTypeOK, CallsFit, LocksOwned, WritersHold, UuidsFresh,
              DeletersHold, AgentHasAdmin, At, Goto, Keep, Start, IsFound, Task, Stage,
              CreateStage, DeleteStage, lockVars, MemberCalls
  <1>1. ASSUME NEW a \in Agent, CreateAgent(r, a) PROVE AccountsInv'
    BY <1>1 DEF CreateAgent
  <1>2. ASSUME NEW a \in Agent, DeleteAgent(r, a) PROVE AccountsInv'
    BY <1>2 DEF DeleteAgent
  <1>3. ASSUME NEW a \in Agent, UpdateAgent(r, a) PROVE AccountsInv'
    BY <1>3 DEF UpdateAgent
  <1>4. ASSUME NEW a \in Agent, Signup(r, a) PROVE AccountsInv'
    <2>1. PICK i \in Id : NewUuid(i) /\ Keep(r, i)
      BY <1>4 DEF Signup
    <2>2. /\ \A b \in Agent : admins[b] # None => admins[b].id # i
          /\ \A s \in Request \ MemberCalls : local[s] # i
      BY <2>1, NewUuidIsNew
    <2>3. UuidsFresh'
      BY <1>4, <2>1, <2>2 DEF Signup
    <2>4. (AccountsTypeOK /\ CallsFit)'
      BY <1>4, <2>1 DEF Signup
    <2>5. (LocksOwned /\ WritersHold /\ DeletersHold /\ AgentHasAdmin)'
      BY <1>4, <2>1 DEF Signup
    <2> QED
      BY <2>3, <2>4, <2>5
  <1>5. ASSUME NEW m \in Member, CreateMember(r, m) PROVE AccountsInv'
    BY <1>5 DEF CreateMember
  <1> QED
    BY <1>1, <1>2, <1>3, <1>4, <1>5 DEF Begin

\* The commit of createAgent: it holds both rows, and there was neither.
LEMMA CommitPreserves ==
  ASSUME AccountsInv, NEW r \in Request, CommitCreate(r)
  PROVE  AccountsInv'
  <1> DEFINE a == arg[r]
  <1>1. /\ a \in Agent
        /\ agentLock[a] = r /\ adminLock[a] = r
        /\ \A b \in Agent \ {a} : agentLock[b] # r /\ adminLock[b] # r
    BY AccountsAssumption
       DEF AccountsInv, CommitCreate, At, CallsFit, WritersHold, LocksOwned, Task
  <1>2. /\ agents[a] = None /\ admins[a] = None
        /\ local[r] \in Id
    BY <1>1 DEF AccountsInv, CommitCreate, At, CallsFit, WritersHold, AgentHasAdmin,
                AccountsTypeOK
  <1>3. PICK w \in BOOLEAN :
           agents' = [agents EXCEPT ![a] = [made |-> local[r], whitelisted |-> w]]
    <2>1. PICK w \in BOOLEAN :
             agents' = Written(agents, agentLock, r, [made |-> local[r], whitelisted |-> w])
      BY DEF CommitCreate
    <2> QED
      BY <1>1, <2>1 DEF Written, HeldBy, AccountsInv, AccountsTypeOK
  <1>4. admins' = [admins EXCEPT ![a] = [id |-> local[r], paired |-> TRUE]]
    BY <1>1 DEF CommitCreate, Written, HeldBy, AccountsInv, AccountsTypeOK
  <1>5. agentLock' = [agentLock EXCEPT ![a] = None]
    BY <1>1 DEF CommitCreate, Release, Without, AccountsInv, AccountsTypeOK
  <1>6. adminLock' = [adminLock EXCEPT ![a] = None]
    BY <1>1 DEF CommitCreate, Release, Without, AccountsInv, AccountsTypeOK
  <1>7. /\ task' = [task EXCEPT ![r] = None]
        /\ arg' = [arg EXCEPT ![r] = None]
        /\ pc' = [pc EXCEPT ![r] = "idle"]
        /\ local' = [local EXCEPT ![r] = None]
        /\ events' = events /\ members' = members
    BY DEF CommitCreate, Release, Stop, Goto, Keep
  <1>8. AccountsTypeOK'
    BY <1>1, <1>2, <1>3, <1>4, <1>5, <1>6, <1>7
       DEF AccountsInv, AccountsTypeOK, AgentRow, AdminRow
  <1>9. CallsFit'
    BY <1>7, AccountsAssumption DEF AccountsInv, AccountsTypeOK, CallsFit, At, Task
  <1>10. LocksOwned'
    BY <1>1, <1>5, <1>6, <1>7, AccountsAssumption
       DEF AccountsInv, AccountsTypeOK, LocksOwned, At
  <1>11. WritersHold'
    <2> SUFFICES ASSUME NEW s \in Request, s # r, task[s] # None, arg[s] \in Agent
                 PROVE  /\ task[s] = "createAgent" /\ pc[s] \in {"saveAgent", "commit"} =>
                              adminLock'[arg[s]] = s /\ admins'[arg[s]] = None
                        /\ At(s, "createAgent", "commit") => agentLock'[arg[s]] = s
                        /\ At(s, "deleteAgent", "commit") /\ adminLock'[arg[s]] = s =>
                              /\ admins'[arg[s]] # None
                              /\ admins'[arg[s]].id = local[s]
      BY <1>7, AccountsAssumption
         DEF AccountsInv, AccountsTypeOK, CallsFit, WritersHold, IsFound, At, Task
    <2> QED
      BY <1>1, <1>4, <1>5, <1>6, AccountsAssumption
         DEF AccountsInv, AccountsTypeOK, WritersHold, IsFound
  <1>12. UuidsFresh'
    <2> SUFFICES ASSUME NEW s \in Request, s # r,
                        task[s] \in {"createAgent", "signup"}, local[s] # None
                 PROVE  /\ \A b \in Agent : admins'[b] # None => admins'[b].id # local[s]
                        /\ \A q \in Request \ MemberCalls' : q # s => local'[q] # local[s]
      BY <1>7, AccountsAssumption DEF AccountsInv, AccountsTypeOK, UuidsFresh, Task, MemberCalls
    <2>1. /\ \A b \in Agent : admins[b] # None => admins[b].id # local[s]
          /\ \A q \in Request \ MemberCalls : q # s => local[q] # local[s]
      BY DEF AccountsInv, UuidsFresh
    <2>2. ASSUME NEW q \in Request \ MemberCalls', q # s PROVE local'[q] # local[s]
      <3>1. CASE q = r
        BY <1>7, <3>1 DEF AccountsInv, AccountsTypeOK
      <3>2. CASE q # r
        BY <1>7, <2>1, <2>2, <3>2 DEF AccountsInv, AccountsTypeOK, MemberCalls
      <3> QED
        BY <3>1, <3>2
    <2>3. local[s] # local[r]
      BY <1>2, <2>1, AccountsAssumption DEF CommitCreate, At, MemberCalls
    <2>4. ASSUME NEW b \in Agent, admins'[b] # None PROVE admins'[b].id # local[s]
      BY <1>1, <1>2, <1>4, <2>1, <2>3, <2>4 DEF AccountsInv, AccountsTypeOK
    <2> QED
      BY <2>2, <2>4
  <1>13. DeletersHold'
    <2> SUFFICES ASSUME NEW s \in Request, s # r, task[s] = "deleteAgent",
                        pc[s] \in {"removeAdmin", "commit"}
                 PROVE  \/ agentLock'[arg[s]] = s
                        \/ agents'[arg[s]] = None
                        \/ agents'[arg[s]].made # local[s]
      BY <1>7, AccountsAssumption DEF AccountsInv, AccountsTypeOK, DeletersHold, Task
    <2>1. arg[s] \in Agent
      BY DEF AccountsInv, CallsFit, Task
    <2>2. local[s] # local[r]
      BY <1>2, AccountsAssumption
         DEF AccountsInv, UuidsFresh, CommitCreate, At, MemberCalls
    <2>3. \/ agentLock[arg[s]] = s
          \/ agents[arg[s]] = None
          \/ agents[arg[s]].made # local[s]
      BY DEF AccountsInv, DeletersHold
    <2> QED
      BY <1>1, <1>3, <1>5, <2>1, <2>2, <2>3 DEF AccountsInv, AccountsTypeOK
  <1>14. AgentHasAdmin'
    <2>1. [id |-> local[r], paired |-> TRUE] \in AdminRow
      BY <1>2 DEF AdminRow
    <2>2. admins'[a] # None /\ admins'[a].id = local[r]
      BY <1>1, <1>4, <2>1, AccountsAssumption DEF AccountsInv, AccountsTypeOK
    <2>3. agents'[a].made = local[r]
      BY <1>1, <1>3 DEF AccountsInv, AccountsTypeOK
    <2>4. \A b \in Agent \ {a} : agents'[b] = agents[b] /\ admins'[b] = admins[b]
      BY <1>1, <1>3, <1>4 DEF AccountsInv, AccountsTypeOK
    <2> QED
      BY <2>2, <2>3, <2>4 DEF AccountsInv, AgentHasAdmin
  <1> QED
    BY <1>8, <1>9, <1>10, <1>11, <1>12, <1>13, <1>14 DEF AccountsInv

LEMMA CreationsPreserve ==
  ASSUME AccountsInv, NEW r \in Request,
         CheckAdmin(r) \/ SaveAdmin(r) \/ SaveAgent(r) \/ CommitCreate(r)
  PROVE  AccountsInv'
  <1> USE AccountsAssumption
          DEF AccountsInv, AccountsTypeOK, CallsFit, LocksOwned, WritersHold, UuidsFresh,
              DeletersHold, AgentHasAdmin, At, Goto, Keep, Stop, IsFound, Task, Stage,
              CreateStage, DeleteStage, lockVars, MemberCalls
  <1>1. CASE CheckAdmin(r)
    <2>1. CASE admins[arg[r]] # None /\ Stop(r)
      BY <1>1, <2>1 DEF CheckAdmin
    <2>2. CASE admins[arg[r]] = None
      <3>1. PICK i \in Id : NewUuid(i) /\ Keep(r, i)
        BY <1>1, <2>2 DEF CheckAdmin
      <3>2. /\ \A b \in Agent : admins[b] # None => admins[b].id # i
            /\ \A s \in Request \ MemberCalls : local[s] # i
        BY <3>1, NewUuidIsNew
      <3>3. UuidsFresh'
        BY <1>1, <2>2, <3>1, <3>2 DEF CheckAdmin
      <3>4. (AccountsTypeOK /\ CallsFit)'
        BY <1>1, <2>2, <3>1 DEF CheckAdmin
      <3>5. (LocksOwned /\ WritersHold /\ DeletersHold /\ AgentHasAdmin)'
        BY <1>1, <2>2, <3>1 DEF CheckAdmin
      <3> QED
        BY <3>3, <3>4, <3>5
    <2> QED
      BY <1>1, <2>1, <2>2 DEF CheckAdmin
  <1>2. CASE SaveAdmin(r)
    <2>1. CASE admins[arg[r]] # None /\ Rollback(r)
      BY <1>2, <2>1 DEF SaveAdmin, Inserts, Rollback, Release, Without
    <2>2. CASE admins[arg[r]] = None
      <3>1. AccountsTypeOK'
        BY SMTT(30), <1>2, <2>2 DEF SaveAdmin, Inserts
      <3>2. (CallsFit /\ UuidsFresh /\ DeletersHold /\ AgentHasAdmin)'
        BY <1>2, <2>2 DEF SaveAdmin, Inserts
      <3>3. (LocksOwned /\ WritersHold)'
        BY <1>2, <2>2 DEF SaveAdmin, Inserts
      <3> QED
        BY <3>1, <3>2, <3>3
    <2> QED
      BY <1>2, <2>1, <2>2 DEF SaveAdmin, Inserts
  <1>3. CASE SaveAgent(r)
    BY <1>3 DEF SaveAgent
  <1>4. CASE CommitCreate(r)
    BY <1>4, CommitPreserves
  <1> QED
    BY <1>1, <1>2, <1>3, <1>4

LEMMA DeletionsPreserve ==
  ASSUME AccountsInv, NEW r \in Request,
         FindAdmin(r) \/ RemoveAgent(r) \/ RemoveAdmin(r) \/ CommitDelete(r)
  PROVE  AccountsInv'
  <1> USE AccountsAssumption
          DEF AccountsInv, AccountsTypeOK, CallsFit, LocksOwned, WritersHold, UuidsFresh,
              DeletersHold, AgentHasAdmin, At, Goto, Keep, Stop, IsFound, Task, Stage,
              CreateStage, DeleteStage, lockVars, MemberCalls
  <1>1. CASE FindAdmin(r)
    BY <1>1 DEF FindAdmin, AdminRow
  <1>2. CASE RemoveAgent(r)
    BY <1>2 DEF RemoveAgent
  <1>3. CASE RemoveAdmin(r)
    BY <1>3 DEF RemoveAdmin
  <1>4. CASE CommitDelete(r)
    BY <1>4 DEF CommitDelete, Release, Without, Written, HeldBy
  <1> QED
    BY <1>1, <1>2, <1>3, <1>4

LEMMA OthersPreserve ==
  ASSUME AccountsInv, NEW r \in Request,
         \/ Update(r) \/ InsertAdmin(r)
         \/ FindMember(r) \/ LoadMember(r) \/ InsertMember(r) \/ OverwriteMember(r)
         \/ WaitForName(r) \/ DeadlockVictim(r) \/ Fails(r)
  PROVE  AccountsInv'
  <1> USE AccountsAssumption
          DEF AccountsInv, AccountsTypeOK, CallsFit, LocksOwned, WritersHold, UuidsFresh,
              DeletersHold, AgentHasAdmin, At, Goto, Keep, Stop, IsFound, Task, Stage,
              CreateStage, DeleteStage, lockVars, MemberCalls
  <1>1. CASE Update(r)
    BY <1>1 DEF Update, AgentRow
  <1>2. CASE InsertAdmin(r)
    BY <1>2 DEF InsertAdmin, Inserts, AdminRow
  <1>3. CASE FindMember(r)
    <2>1. CASE members[arg[r]] # None /\ Stop(r)
      BY <1>3, <2>1 DEF FindMember
    <2>2. CASE members[arg[r]] = None
      <3>1. PICK i \in Id : Keep(r, i)
        BY <1>3, <2>2 DEF FindMember
      <3>3. UuidsFresh'
        BY <1>3, <2>2, <3>1 DEF FindMember
      <3>4. (AccountsTypeOK /\ CallsFit)'
        BY <1>3, <2>2, <3>1 DEF FindMember
      <3>5. (LocksOwned /\ WritersHold /\ DeletersHold /\ AgentHasAdmin)'
        BY <1>3, <2>2, <3>1 DEF FindMember
      <3> QED
        BY <3>3, <3>4, <3>5
    <2> QED
      BY <1>3, <2>1, <2>2 DEF FindMember
  <1>4. CASE LoadMember(r)
    BY <1>4 DEF LoadMember
  <1>5. CASE InsertMember(r)
    BY <1>5 DEF InsertMember
  <1>6. CASE OverwriteMember(r)
    BY <1>6 DEF OverwriteMember
  <1>7. CASE Fails(r)
    BY <1>7 DEF Fails, Rollback, Release, Without
  <1>8. CASE WaitForName(r)
    BY <1>8 DEF WaitForName, Inserts
  <1>9. CASE DeadlockVictim(r)
    BY <1>9 DEF DeadlockVictim, Rollback, Release, Without
  <1> QED
    BY <1>1, <1>2, <1>3, <1>4, <1>5, <1>6, <1>7, <1>8, <1>9

LEMMA AccountsInvNext == AccountsInv /\ [AccountsNext]_vars => AccountsInv'
  <1> SUFFICES ASSUME AccountsInv, [AccountsNext]_vars
               PROVE  AccountsInv'
    OBVIOUS
  <1>1. CASE AccountsNext
    BY <1>1, CallsPreserve, CreationsPreserve, DeletionsPreserve, OthersPreserve
       DEF AccountsNext, Answer
  <1>2. CASE UNCHANGED vars
    BY <1>2
       DEF vars, AccountsInv, AccountsTypeOK, CallsFit, LocksOwned, WritersHold, UuidsFresh,
           DeletersHold, AgentHasAdmin, At, IsFound, MemberCalls
  <1> QED
    BY <1>1, <1>2

LEMMA AccountsInvAlways == AccountsSpec => []AccountsInv
  BY AccountsInvInit, AccountsInvNext, PTL DEF AccountsSpec

\* The tables, the locks and the calls stay well typed.
THEOREM AccountsTypeCorrect == AccountsSpec => []AccountsTypeOK
  <1>1. AccountsInv => AccountsTypeOK
    BY DEF AccountsInv
  <1> QED
    BY <1>1, AccountsInvAlways, PTL

\* However many calls overlap, fail or are abandoned, the admin account of every agent in
\* the table is the one createAgent made with it.
THEOREM AgentsKeepTheirAdmin == AccountsSpec => []AgentHasAdmin
  <1>1. AccountsInv => AgentHasAdmin
    BY DEF AccountsInv
  <1> QED
    BY <1>1, AccountsInvAlways, PTL

\* Whoever waits for one that waits for a third waits for insertions that share a name.
LEMMA WaitersOfWaiters ==
  ASSUME AccountsInv, NEW r \in Request, NEW s \in Request, NEW t \in Request,
         NEW u \in Request, Waits(r, s), Waits(s, t), Waits(t, u)
  PROVE  Deadlocked(s) \/ Deadlocked(t)
  <1> USE AccountsAssumption
  <1>1. ASSUME NEW q \in Request, pc[q] = "commit" PROVE \A p \in Request : ~Waits(q, p)
    BY <1>1 DEF Waits, Inserts, At
  <1>2. ASSUME NEW q \in Request, NEW p \in Request, Shares(q, arg[q]), Waits(q, p)
        PROVE  Deadlocked(q)
    BY <1>2 DEF Waits, Shares, Inserts, At, Deadlocked, Unshared
  <1>3. ASSUME NEW q \in Request, NEW p \in Request, NEW a \in Agent, adminLock[a] = q,
               Waits(q, p)
        PROVE  agentLock[a] = p /\ At(q, "createAgent", "saveAgent")
    BY <1>1, <1>3 DEF AccountsInv, LocksOwned, Waits, Inserts, At
  <1>4. ASSUME NEW q \in Request, NEW p \in Request, NEW a \in Agent, agentLock[a] = q,
               Waits(q, p)
        PROVE  At(q, "deleteAgent", "removeAdmin") /\ arg[q] = a /\ IsFound(q)
               /\ (adminLock[a] = p \/ Shares(p, a))
    BY <1>1, <1>4 DEF AccountsInv, LocksOwned, Waits, Inserts, At
  <1>5. ASSUME NEW q \in Request, NEW p \in Request, Waits(q, p)
        PROVE  arg[q] \in Agent
               /\ (adminLock[arg[q]] = p \/ agentLock[arg[q]] = p \/ Shares(p, arg[p]))
    BY <1>5 DEF AccountsInv, CallsFit, Waits, Inserts, Shares, At, Task
  <1>6. CASE Shares(s, arg[s]) \/ Shares(t, arg[t])
    BY <1>2, <1>6
  <1>7. CASE adminLock[arg[r]] = s
    <2>1. agentLock[arg[r]] = t /\ admins[arg[r]] = None
      BY <1>3, <1>5, <1>7 DEF AccountsInv, WritersHold, LocksOwned, At
    <2>2. arg[t] = arg[r] /\ IsFound(t)
      BY <1>4, <1>5, <2>1
    <2> QED
      BY <2>1, <2>2 DEF IsFound
  <1>8. CASE agentLock[arg[r]] = s
    <2>1. IsFound(s) /\ arg[s] = arg[r] /\ (adminLock[arg[r]] = t \/ Shares(t, arg[r]))
      BY <1>4, <1>5, <1>8
    <2>2. CASE Shares(t, arg[r])
      BY <1>6, <2>2 DEF Shares
    <2>3. CASE adminLock[arg[r]] = t
      <3>1. admins[arg[r]] = None
        BY <1>3, <1>5, <2>3 DEF AccountsInv, WritersHold, LocksOwned, At
      <3> QED
        BY <2>1, <3>1 DEF IsFound
    <2> QED
      BY <2>1, <2>2, <2>3
  <1> QED
    BY <1>5, <1>6, <1>7, <1>8

\* Any transactions and statements that wait for one another in a circle are insertions of
\* one admin that share its name, and so one of them is rolled back: who waits for a lock
\* waits for a transaction that goes on, or for one that waits for such a one.
THEOREM TransactionsDoNotDeadlock == AccountsSpec => []NoLockCycle
  <1>1. ASSUME AccountsInv, NEW circle \in SUBSET Request, circle # {},
               \A r \in circle : \E s \in circle : Waits(r, s)
        PROVE  \E r \in circle : Deadlocked(r)
    <2>1. PICK r \in circle : TRUE
      BY <1>1
    <2>2. PICK s \in circle : Waits(r, s)
      BY <1>1
    <2>3. PICK t \in circle : Waits(s, t)
      BY <1>1
    <2>4. PICK u \in circle : Waits(t, u)
      BY <1>1
    <2> QED
      BY <1>1, <2>2, <2>3, <2>4, WaitersOfWaiters
  <1>2. ASSUME AccountsInv PROVE NoLockCycle
    <2> SUFFICES ASSUME NEW circle \in (SUBSET Request) \ {{}},
                        \A r \in circle : \E s \in circle : Waits(r, s)
                 PROVE  \E r \in circle : Deadlocked(r)
      BY DEF NoLockCycle
    <2> QED
      BY <1>1, <1>2
  <1> QED
    BY <1>2, AccountsInvAlways, PTL

\* No step gives an agent that is in the table the row of another creation.
THEOREM CreationsNeverReplace == AccountsSpec => AgentsNotReplaced
  <1>1. ASSUME AccountsInv, [AccountsNext]_vars, NEW a \in Agent,
               agents[a] # None, agents'[a] # None
        PROVE  agents'[a].made = agents[a].made
    <2> USE DEF AccountsInv, AccountsTypeOK
    <2>1. CASE agents' = agents
      BY <2>1
    <2>2. ASSUME NEW r \in Request, CommitCreate(r) PROVE agents'[a].made = agents[a].made
      <3>1. agentLock[a] = r => arg[r] = a /\ admins[a] = None
        <4>1. arg[r] \in Agent /\ admins[arg[r]] = None
          BY <1>1, <2>2 DEF CommitCreate, At, CallsFit, WritersHold, Task
        <4>2. agentLock[a] = r => arg[r] = a
          BY <1>1 DEF LocksOwned
        <4> QED
          BY <4>1, <4>2
      <3>2. agentLock[a] # r
        BY <1>1, <3>1 DEF AgentHasAdmin
      <3> QED
        BY <2>2, <3>2 DEF CommitCreate, Written, HeldBy
    <2>3. ASSUME NEW r \in Request, CommitDelete(r) PROVE agents'[a].made = agents[a].made
      BY <1>1, <2>3 DEF CommitDelete, Written, HeldBy
    <2>4. ASSUME NEW r \in Request, Update(r) PROVE agents'[a].made = agents[a].made
      <3>1. PICK w \in BOOLEAN :
               agents' = [agents EXCEPT ![arg[r]] =
                            IF @ = None THEN None ELSE [@ EXCEPT !.whitelisted = w]]
        BY <2>4 DEF Update
      <3>2. agents[a] \in AgentRow
        BY <1>1
      <3> QED
        BY <1>1, <3>1, <3>2 DEF AgentRow
    <2>5. \/ agents' = agents
          \/ \E r \in Request : CommitCreate(r) \/ CommitDelete(r) \/ Update(r)
      BY <1>1
         DEF AccountsNext, Begin, Answer, WaitForName, DeadlockVictim, Fails, vars,
           Rollback, Release, CreateAgent,
             DeleteAgent, UpdateAgent, Signup, CreateMember, CheckAdmin, SaveAdmin, SaveAgent,
             FindAdmin, RemoveAgent, RemoveAdmin, InsertAdmin, FindMember, LoadMember,
             InsertMember, OverwriteMember
    <2> QED
      BY <2>1, <2>2, <2>3, <2>4, <2>5
  <1>2. AccountsInv /\ [AccountsNext]_vars =>
          [\A a \in Agent :
             agents[a] # None /\ agents'[a] # None => agents'[a].made = agents[a].made]_vars
    BY <1>1
  <1> QED
    BY <1>2, AccountsInvAlways, PTL DEF AccountsSpec, AgentsNotReplaced

-----------------------------------------------------------------------------
(* One call of a kind at a time *)

Alone1 ==
  /\ CallsAlone("deleteAgent") /\ CallsAlone("createMember")
  /\ DeletersFind /\ CreatorsFirst /\ DeletedTogether

\* A call begins, and finds none of its kind about the same agent or member.
LEMMA CallsStayAlone ==
  ASSUME AccountsInv, Alone1, "overlap" \notin events, NEW r \in Request, Begin(r)
  PROVE  Alone1' /\ events' = events
  <1> USE AccountsAssumption
          DEF AccountsInv, AccountsTypeOK, Alone1, CallsAlone, DeletersFind, CreatorsFirst,
              DeletedTogether, Alone, MayOverlap, CallsFit, At, Goto, Keep, Start, IsFound, Task,
              Stage, lockVars
  <1>1. ASSUME NEW a \in Agent, CreateAgent(r, a) PROVE Alone1' /\ events' = events
    BY <1>1 DEF CreateAgent
  <1>2. ASSUME NEW a \in Agent, DeleteAgent(r, a) PROVE Alone1' /\ events' = events
    BY <1>2 DEF DeleteAgent
  <1>3. ASSUME NEW a \in Agent, UpdateAgent(r, a) PROVE Alone1' /\ events' = events
    BY <1>3 DEF UpdateAgent
  <1>4. ASSUME NEW a \in Agent, Signup(r, a) PROVE Alone1' /\ events' = events
    BY <1>4 DEF Signup
  <1>5. ASSUME NEW m \in Member, CreateMember(r, m) PROVE Alone1' /\ events' = events
    BY <1>5 DEF CreateMember
  <1> QED
    BY <1>1, <1>2, <1>3, <1>4, <1>5 DEF Begin

\* A commit writes both rows of an agent or neither, and only those of its own.
LEMMA CommitsStayAlone ==
  ASSUME AccountsInv, Alone1, "overlap" \notin events, NEW r \in Request,
         CommitCreate(r) \/ CommitDelete(r)
  PROVE  Alone1' /\ events' = events
  <1> DEFINE a == arg[r]
  <1>1. /\ a \in Agent /\ agentLock[a] = r /\ adminLock[a] = r
        /\ \A b \in Agent \ {a} : agentLock[b] # r /\ adminLock[b] # r
    BY AccountsAssumption
       DEF AccountsInv, CommitCreate, CommitDelete, At, CallsFit, WritersHold, LocksOwned, Task,
           Alone1, DeletersFind
  <1>2. /\ \A b \in Agent \ {a} : agents'[b] = agents[b] /\ admins'[b] = admins[b]
        /\ \A b \in Agent \ {a} : agentLock'[b] = agentLock[b] /\ adminLock'[b] = adminLock[b]
        /\ agents'[a] = None <=> admins'[a] = None
    <2>1. CASE CommitCreate(r)
      <3>1. local[r] \in Id
        BY <2>1 DEF CommitCreate, At, AccountsInv, CallsFit, AccountsTypeOK
      <3>2. PICK w \in BOOLEAN :
               agents' = Written(agents, agentLock, r, [made |-> local[r], whitelisted |-> w])
        BY <2>1 DEF CommitCreate
      <3>3. /\ [made |-> local[r], whitelisted |-> w] \in AgentRow
            /\ [id |-> local[r], paired |-> TRUE] \in AdminRow
        BY <3>1 DEF AgentRow, AdminRow
      <3>4. /\ [made |-> local[r], whitelisted |-> w] # None
            /\ [id |-> local[r], paired |-> TRUE] # None
        BY <3>3, AccountsAssumption
      <3>5. agents'[a] # None /\ admins'[a] # None
        BY <1>1, <2>1, <3>2, <3>4 DEF CommitCreate, Written, HeldBy
      <3> QED
        BY <1>1, <2>1, <3>2, <3>5 DEF CommitCreate, Release, Without, Written, HeldBy
    <2>2. CASE CommitDelete(r)
      BY <1>1, <2>2 DEF CommitDelete, Release, Without, Written, HeldBy
    <2> QED
      BY <2>1, <2>2
  <1>3. /\ task' = [task EXCEPT ![r] = None]
        /\ arg' = [arg EXCEPT ![r] = None]
        /\ pc' = [pc EXCEPT ![r] = "idle"]
        /\ local' = [local EXCEPT ![r] = None]
        /\ events' = events /\ members' = members
    BY DEF CommitCreate, CommitDelete, Release, Stop, Goto, Keep
  <1>4. \A s \in Request \ {r} : task[s] = "deleteAgent" => arg[s] \in Agent \ {a}
    <2>1. CASE CommitCreate(r)
      BY <2>1 DEF CommitCreate, At, AccountsInv, CallsFit, Task, WritersHold, AgentHasAdmin, Alone1,
                  DeletersFind
    <2>2. CASE CommitDelete(r)
      BY <2>2 DEF CommitDelete, At, AccountsInv, CallsFit, Task, Alone1, CallsAlone
    <2> QED
      BY <2>1, <2>2
  <1>5. DeletersFind'
    BY <1>2, <1>3, <1>4, AccountsAssumption
       DEF AccountsInv, AccountsTypeOK, Alone1, DeletersFind, IsFound, Task
  <1>6. CreatorsFirst' /\ CallsAlone("deleteAgent")' /\ CallsAlone("createMember")'
    BY <1>3, AccountsAssumption
       DEF AccountsInv, AccountsTypeOK, Alone1, CreatorsFirst, CallsAlone, Task
  <1>7. DeletedTogether'
    BY <1>2, <1>3 DEF Alone1, DeletedTogether
  <1> QED
    BY <1>3, <1>5, <1>6, <1>7 DEF Alone1

LEMMA AnswersStayAlone ==
  ASSUME AccountsInv, Alone1, "overlap" \notin events, NEW r \in Request,
         Answer(r) \/ Fails(r)
  PROVE  Alone1' /\ events' = events
  <1> USE AccountsAssumption
          DEF AccountsInv, AccountsTypeOK, Alone1, CallsAlone, DeletersFind, CreatorsFirst,
              DeletedTogether, CallsFit, LocksOwned, At, Goto, Keep, Stop, IsFound, Task,
              Stage, lockVars
  <1>1. CASE CheckAdmin(r)
    BY <1>1, SMTT(60) DEF CheckAdmin
  <1>2. CASE SaveAdmin(r)
    BY <1>2, SMTT(60) DEF SaveAdmin, Rollback, Release, Without
  <1>3. CASE SaveAgent(r)
    BY <1>3 DEF SaveAgent
  <1>4. CASE FindAdmin(r)
    BY <1>4 DEF FindAdmin, AgentHasAdmin
  <1>5. CASE RemoveAgent(r)
    BY <1>5 DEF RemoveAgent
  <1>6. CASE RemoveAdmin(r)
    BY <1>6 DEF RemoveAdmin
  <1>7. CASE CommitCreate(r) \/ CommitDelete(r)
    BY <1>7, CommitsStayAlone
  <1>8. CASE Update(r)
    BY <1>8 DEF Update, AgentRow
  <1>9. CASE InsertAdmin(r)
    BY <1>9 DEF InsertAdmin, AdminRow
  <1>10. CASE FindMember(r)
    BY <1>10, SMTT(60) DEF FindMember
  <1>11. CASE LoadMember(r)
    BY <1>11 DEF LoadMember
  <1>12. CASE InsertMember(r)
    BY <1>12 DEF InsertMember
  <1>13. CASE OverwriteMember(r)
    BY <1>13 DEF OverwriteMember
  <1>14. CASE Fails(r)
    BY <1>14 DEF Fails, Rollback, Release, Without
  <1>15. CASE WaitForName(r)
    BY <1>15 DEF WaitForName, Inserts
  <1>16. CASE DeadlockVictim(r)
    BY <1>16 DEF DeadlockVictim, Rollback, Release, Without
  <1> QED
    BY <1>1, <1>2, <1>3, <1>4, <1>5, <1>6, <1>7, <1>8, <1>9, <1>10, <1>11, <1>12, <1>13, <1>14,
       <1>15, <1>16
       DEF Answer

LEMMA AloneInvNext == AccountsInv /\ AloneInv /\ [AccountsNext]_vars => AloneInv'
  <1> SUFFICES ASSUME AccountsInv, AloneInv, [AccountsNext]_vars, "overlap" \notin events'
               PROVE  Alone1'
    BY DEF AloneInv, Alone1
  <1>1. events' = events
    BY DEF AccountsNext, Begin, Answer, WaitForName, DeadlockVictim, Fails, vars,
           Rollback, Release, CreateAgent,
           DeleteAgent, UpdateAgent, Signup, CreateMember, CheckAdmin, SaveAdmin, SaveAgent,
           FindAdmin, RemoveAgent, RemoveAdmin, InsertAdmin, FindMember, LoadMember,
           InsertMember, OverwriteMember, CommitCreate, CommitDelete, Update
  <1>2. Alone1
    BY <1>1 DEF AloneInv, Alone1
  <1>3. CASE AccountsNext
    BY <1>1, <1>2, <1>3, CallsStayAlone, AnswersStayAlone DEF AccountsNext
  <1>4. CASE UNCHANGED vars
    BY <1>2, <1>4
       DEF vars, Alone1, CallsAlone, DeletersFind, CreatorsFirst, DeletedTogether, IsFound
  <1> QED
    BY <1>3, <1>4

LEMMA AloneInvAlways == AccountsSpec => [](AccountsInv /\ AloneInv)
  <1>1. AccountsInit => AloneInv
    BY AccountsAssumption
       DEF AccountsInit, AloneInv, CallsAlone, DeletersFind, CreatorsFirst, DeletedTogether, Task
  <1> QED
    BY <1>1, AccountsInvInit, AccountsInvNext, AloneInvNext, PTL DEF AccountsSpec

\* An admin that createAgent made with an agent does not outlive it, whatever fails and
\* whatever else is done to the agent, while its deletions do not overlap.
THEOREM AdminsGoWithTheirAgent == AccountsSpec => []DeletedTogether
  <1>1. AloneInv => DeletedTogether
    BY DEF AloneInv, DeletedTogether
  <1> QED
    BY <1>1, AloneInvAlways, PTL

\* A member's data stay those of the call that created it, while its creations do not
\* overlap.
THEOREM MembersAreKept == AccountsSpec => MembersKept
  <1>1. ASSUME AccountsInv, AloneInv, [AccountsNext]_vars, NEW m \in Member,
               "overlap" \notin events, members[m] # None
        PROVE  members'[m] = members[m]
    <2>1. ASSUME NEW r \in Request, InsertMember(r) \/ OverwriteMember(r)
          PROVE  members'[m] = members[m]
      BY <1>1, <2>1
         DEF AccountsInv, AccountsTypeOK, AloneInv, CreatorsFirst, InsertMember, OverwriteMember, At
    <2>2. members' = members \/ \E r \in Request : InsertMember(r) \/ OverwriteMember(r)
      BY <1>1
         DEF AccountsNext, Begin, Answer, WaitForName, DeadlockVictim, Fails, vars,
           Rollback, Release, CreateAgent,
             DeleteAgent, UpdateAgent, Signup, CreateMember, CheckAdmin, SaveAdmin, SaveAgent,
             FindAdmin, RemoveAgent, RemoveAdmin, InsertAdmin, FindMember, LoadMember,
             CommitCreate, CommitDelete, Update
    <2> QED
      BY <2>1, <2>2
  <1>2. AccountsInv /\ AloneInv /\ [AccountsNext]_vars =>
          [\A m \in Member :
             "overlap" \notin events /\ members[m] # None => members'[m] = members[m]]_vars
    BY <1>1
  <1> QED
    BY <1>2, AloneInvAlways, PTL DEF AccountsSpec, MembersKept

-----------------------------------------------------------------------------
(* The tables of a run are different ones, and no other run has them. *)

LEMMA TablesOfRun ==
  ASSUME NEW sweep \in Sweep
  PROVE  /\ Len(Tables(sweep)) \in 1 .. 2
         /\ DOMAIN Tables(sweep) = 1 .. Len(Tables(sweep))
         /\ \A i \in 1 .. Len(Tables(sweep)) : Tables(sweep)[i] \in CleanedTable
  <1>1. CASE sweep = "bets"
    BY <1>1 DEF Tables, CleanedTable
  <1>2. CASE sweep = "wallet"
    BY <1>2 DEF Tables, CleanedTable
  <1> QED
    BY <1>1, <1>2 DEF Sweep

LEMMA TablesDiffer ==
  ASSUME NEW sweep \in Sweep, NEW other \in Sweep,
         NEW i \in 1 .. Len(Tables(sweep)), NEW j \in 1 .. Len(Tables(other)),
         Tables(sweep)[i] = Tables(other)[j]
  PROVE  sweep = other /\ i = j
  <1>1. CASE sweep = "bets" /\ other = "bets"
    BY <1>1 DEF Tables
  <1>2. CASE sweep = "wallet" /\ other = "wallet"
    <2>1. Tables("wallet")[1] # Tables("wallet")[2] /\ i \in {1, 2} /\ j \in {1, 2}
      BY <1>2 DEF Tables
    <2> QED
      BY <1>2, <2>1
  <1>3. CASE sweep = "bets" /\ other = "wallet"
    <2>1. i = 1 /\ j \in {1, 2} /\ Tables("bets")[1] \notin {Tables("wallet")[1], Tables("wallet")[2]}
      BY <1>3 DEF Tables
    <2> QED
      BY <1>3, <2>1
  <1>4. CASE sweep = "wallet" /\ other = "bets"
    <2>1. j = 1 /\ i \in {1, 2} /\ Tables("bets")[1] \notin {Tables("wallet")[1], Tables("wallet")[2]}
      BY <1>4 DEF Tables
    <2> QED
      BY <1>4, <2>1
  <1> QED
    BY <1>1, <1>2, <1>3, <1>4 DEF Sweep

-----------------------------------------------------------------------------
(* The clean-ups are well typed, and a marked month is clean. *)

USE DEF cleanUpVars

\* A run's date, as MarkedMonthIsClean has it of the last-run key.
SweepClean(sweep) ==
  lastRun[sweep] # NoMonth =>
    \E s \in Cleaner : lastRun[sweep] = LocalMonth(s) /\ CleanThrough(s, sweep, Len(Tables(sweep)))

LEMMA MarkedIsClean ==
  /\ MarkedMonthIsClean <=> \A sweep \in Sweep : SweepClean(sweep)
  /\ MarkedMonthIsClean' <=> \A sweep \in Sweep : SweepClean(sweep)'
  <1>1. \A sweep \in Sweep : DOMAIN Tables(sweep) = 1 .. Len(Tables(sweep))
    BY TablesOfRun
  <1> DEFINE Clean(s, sweep) ==
               \A i \in DOMAIN Tables(sweep) : \A at \in rows[Tables(sweep)[i]] : at >= Cutoff(s)
  <1>2. \A s \in Cleaner, sweep \in Sweep :
           /\ Clean(s, sweep) <=> CleanThrough(s, sweep, Len(Tables(sweep)))
           /\ Clean(s, sweep)' <=> CleanThrough(s, sweep, Len(Tables(sweep)))'
    BY <1>1 DEF CleanThrough
  <1>3. MarkedMonthIsClean <=> \A sweep \in Sweep : SweepClean(sweep)
    BY <1>2, Zenon DEF MarkedMonthIsClean, SweepClean
  <1>4. MarkedMonthIsClean' <=> \A sweep \in Sweep : SweepClean(sweep)'
    BY <1>2, Zenon DEF MarkedMonthIsClean, SweepClean
  <1> QED
    BY <1>3, <1>4

\* A server's date and its cutoff are those of the month.
LEMMA Dates ==
  ASSUME CleanUpTypeOK
  PROVE  \A s \in Cleaner : LocalMonth(s) \in Int /\ Cutoff(s) \in Int
  <1> TAKE s \in Cleaner
  <1>1. zone[s] \in {-1, 0, 1} /\ month \in Int
    BY CleanUpAssumption DEF CleanUpTypeOK, Month
  <1> QED
    BY <1>1 DEF LocalMonth, Cutoff, KeptMonths

LEMMA DatesStay ==
  ASSUME month' = month, zone' = zone
  PROVE  \A s \in Cleaner : LocalMonth(s)' = LocalMonth(s) /\ Cutoff(s)' = Cutoff(s)
  BY DEF LocalMonth, Cutoff

LEMMA CleanInvInit == CleanUpInit => CleanInv
  BY CleanUpAssumption
  DEF CleanUpInit, CleanInv, CleanUpTypeOK, RunCleans, MarkedMonthIsClean, Month, Time, KeptMonths,
      CleanUpStage

LEMMA CleanUpTyped ==
  ASSUME CleanInv, [CleanUpNext]_cleanUpVars
  PROVE  CleanUpTypeOK'
  <1> USE DEF CleanInv, CleanUpTypeOK, CleanUpStage, To
  <1>1. CASE MonthBegins
    BY <1>1, CleanUpAssumption DEF MonthBegins, Month, Time
  <1>2. ASSUME NEW run \in Cleaner \X Sweep, LockSweep(run)
        PROVE  CleanUpTypeOK'
    BY <1>2 DEF LockSweep
  <1>3. ASSUME NEW run \in Cleaner \X Sweep, CheckLastRun(run)
        PROVE  CleanUpTypeOK'
    BY <1>3 DEF CheckLastRun
  <1>4. ASSUME NEW run \in Cleaner \X Sweep, DeleteBeforeCutoff(run)
        PROVE  CleanUpTypeOK'
    <2> DEFINE t == Tables(run[2])[cleared[run] + 1]
    <2>1. cleared[run] + 1 \in 1 .. Len(Tables(run[2]))
      <3>1. run[2] \in Sweep /\ Len(Tables(run[2])) \in 1 .. 2
        BY TablesOfRun
      <3>2. cleared[run] \in 0 .. 2 /\ cleared[run] < Len(Tables(run[2]))
        BY <1>4 DEF DeleteBeforeCutoff, RunCleans
      <3> QED
        BY <3>1, <3>2
    <2>2. t \in CleanedTable /\ cleared[run] + 1 \in 0 .. 2
      <3>0. run[2] \in Sweep /\ Len(Tables(run[2])) \in 1 .. 2
        BY TablesOfRun
      <3> DEFINE n == cleared[run] + 1
      <3>1. n \in 1 .. 2 /\ n \in 1 .. Len(Tables(run[2]))
        <4>1. \A k, len : len \in 1 .. 2 /\ k \in 1 .. len => k \in 1 .. 2
          OBVIOUS
        <4> QED
          BY <2>1, <3>0, <4>1, Zenon
      <3>2. Tables(run[2])[n] \in CleanedTable
        BY <3>0, <3>1, TablesOfRun
      <3>3. t \in CleanedTable
        BY <3>1, <3>2
      <3>4. cleared[run] + 1 \in 0 .. 2
        <4> HIDE DEF t
        <4> QED
          BY <3>1
      <3> QED
        BY <3>3, <3>4
    <2> HIDE DEF t
    <2>3. rows' = [rows EXCEPT ![t] = {at \in @ : at >= Cutoff(run[1])}]
          /\ deletions' = [deletions EXCEPT ![t] = @ + 1]
      BY <1>4 DEF DeleteBeforeCutoff, t
    <2>4. rows' \in [CleanedTable -> SUBSET Time] /\ deletions' \in [CleanedTable -> Nat]
      BY <2>2, <2>3
    <2> QED
      BY <1>4, <2>2, <2>4 DEF DeleteBeforeCutoff
  <1>5. ASSUME NEW run \in Cleaner \X Sweep, MarkLastRun(run)
        PROVE  CleanUpTypeOK'
    BY <1>5, Dates DEF MarkLastRun
  <1>6. ASSUME NEW run \in Cleaner \X Sweep, SweepFails(run)
        PROVE  CleanUpTypeOK'
    BY <1>6 DEF SweepFails
  <1>7. ASSUME NEW run \in Cleaner \X Sweep, UnlockSweep(run)
        PROVE  CleanUpTypeOK'
    BY <1>7 DEF UnlockSweep
  <1>8. ASSUME NEW sweep \in Sweep, SweepLockExpires(sweep)
        PROVE  CleanUpTypeOK'
    BY <1>8 DEF SweepLockExpires
  <1>9. ASSUME NEW s \in Cleaner, CleanerDies(s)
        PROVE  CleanUpTypeOK'
    BY <1>9 DEF CleanerDies
  <1>10. CASE FlushKeys
    BY <1>10 DEF FlushKeys
  <1>11. CASE UNCHANGED cleanUpVars
    BY <1>11
  <1> QED
    BY <1>1, <1>2, <1>3, <1>4, <1>5, <1>6, <1>7, <1>8, <1>9, <1>10, <1>11
    DEF CleanUpNext, RunCleanup

\* While the month and the rows stay, and nothing is marked, clean tables stay clean.
LEMMA CleanStays ==
  ASSUME CleanUpTypeOK, month' = month, zone' = zone,
         \A t \in CleanedTable : rows'[t] \subseteq rows[t]
  PROVE  \A s \in Cleaner, sweep \in Sweep : \A n \in 0 .. Len(Tables(sweep)) :
            CleanThrough(s, sweep, n) => CleanThrough(s, sweep, n)'
  BY TablesOfRun, DatesStay DEF CleanThrough

LEMMA CleanInvNext ==
  ASSUME CleanInv, [CleanUpNext]_cleanUpVars
  PROVE  CleanInv'
  <1>1. CleanUpTypeOK'
    BY CleanUpTyped
  <1>2. /\ CleanUpTypeOK
        /\ \A run \in Cleaner \X Sweep : RunCleans(run)
        /\ \A sweep \in Sweep : SweepClean(sweep)
    BY MarkedIsClean DEF CleanInv
  <1>3. SUFFICES /\ \A run \in Cleaner \X Sweep : RunCleans(run)'
                 /\ \A sweep \in Sweep : SweepClean(sweep)'
    BY <1>1, MarkedIsClean DEF CleanInv
  <1>4. CASE MonthBegins
    BY <1>1, <1>2, <1>4, CleanUpAssumption
    DEF MonthBegins, RunCleans, CleanUpTypeOK, SweepClean
  <1>5. ASSUME month' = month, zone' = zone, rows' = rows,
               \A sweep \in Sweep : lastRun'[sweep] \in {lastRun[sweep], NoMonth},
               \A run \in Cleaner \X Sweep :
                  \/ stage'[run] = stage[run] /\ cleared'[run] = cleared[run]
                  \/ RunCleans(run)'
        PROVE  /\ \A run \in Cleaner \X Sweep : RunCleans(run)'
               /\ \A sweep \in Sweep : SweepClean(sweep)'
    <2>1. \A s \in Cleaner, sweep \in Sweep, n \in 0 .. 2 :
              CleanThrough(s, sweep, n)' <=> CleanThrough(s, sweep, n)
      BY <1>5, DatesStay DEF CleanThrough
    <2>2. \A sweep \in Sweep : Len(Tables(sweep)) \in 0 .. 2
      BY TablesOfRun
    <2>3. \A run \in Cleaner \X Sweep : RunCleans(run)'
      BY <1>2, <1>5, <2>1, <2>2 DEF RunCleans, CleanUpTypeOK
    <2>4. \A sweep \in Sweep : SweepClean(sweep)'
      BY <1>2, <1>5, <2>1, <2>2, DatesStay DEF SweepClean
    <2> QED
      BY <2>3, <2>4
  <1>6. ASSUME NEW run \in Cleaner \X Sweep, LockSweep(run)
        PROVE  /\ \A q \in Cleaner \X Sweep : RunCleans(q)'
               /\ \A sweep \in Sweep : SweepClean(sweep)'
    <2>1. \A q \in Cleaner \X Sweep :
              \/ stage'[q] = stage[q] /\ cleared'[q] = cleared[q]
              \/ RunCleans(q)'
      BY <1>2, <1>6 DEF LockSweep, RunCleans, To, CleanUpTypeOK
    <2> QED
      BY <1>5, <1>6, <2>1 DEF LockSweep
  <1>7. ASSUME NEW run \in Cleaner \X Sweep, CheckLastRun(run)
        PROVE  /\ \A q \in Cleaner \X Sweep : RunCleans(q)'
               /\ \A sweep \in Sweep : SweepClean(sweep)'
    <2>1. 0 < Len(Tables(run[2])) /\ CleanThrough(run[1], run[2], 0)'
      BY TablesOfRun DEF CleanThrough
    <2>2. \A q \in Cleaner \X Sweep :
              \/ stage'[q] = stage[q] /\ cleared'[q] = cleared[q]
              \/ RunCleans(q)'
      BY <1>2, <1>7, <2>1 DEF CheckLastRun, RunCleans, To, CleanUpTypeOK
    <2> QED
      BY <1>5, <1>7, <2>2 DEF CheckLastRun
  <1>8. ASSUME NEW run \in Cleaner \X Sweep, DeleteBeforeCutoff(run)
        PROVE  /\ \A q \in Cleaner \X Sweep : RunCleans(q)'
               /\ \A sweep \in Sweep : SweepClean(sweep)'
    <2>1. PICK n \in 0 .. 1 : /\ n = cleared[run] /\ n + 1 \in 1 .. Len(Tables(run[2]))
                              /\ CleanThrough(run[1], run[2], n)
      <3>1. run[2] \in Sweep /\ Len(Tables(run[2])) \in 1 .. 2
        BY TablesOfRun
      <3>2. cleared[run] \in 0 .. 2 /\ cleared[run] < Len(Tables(run[2]))
        BY <1>2, <1>8 DEF DeleteBeforeCutoff, RunCleans, CleanUpTypeOK
      <3>3. \A c \in 0 .. 2, len \in 1 .. 2 : c < len => c \in 0 .. 1 /\ c + 1 \in 1 .. len
        OBVIOUS
      <3>4. CleanThrough(run[1], run[2], cleared[run])
        BY <1>2, <1>8 DEF DeleteBeforeCutoff, RunCleans
      <3> QED
        BY <3>1, <3>2, <3>3, <3>4
    <2> DEFINE t == Tables(run[2])[n + 1]
    <2>2. t \in CleanedTable
      BY <2>1, TablesOfRun
    <2>3. \A u \in CleanedTable :
              rows'[u] = IF u = t THEN {m \in rows[u] : m >= Cutoff(run[1])} ELSE rows[u]
      BY <1>2, <1>8, <2>1, <2>2 DEF DeleteBeforeCutoff, CleanUpTypeOK
    <2>4. month' = month /\ zone' = zone /\ lastRun' = lastRun
      BY <1>8 DEF DeleteBeforeCutoff
    <2>5. \A s \in Cleaner, sweep \in Sweep : \A k \in 0 .. Len(Tables(sweep)) :
              CleanThrough(s, sweep, k) => CleanThrough(s, sweep, k)'
      BY <1>2, <2>3, <2>4, CleanStays
    <2>6. CleanThrough(run[1], run[2], n + 1)'
      <3> SUFFICES ASSUME NEW i \in 1 .. n + 1, NEW m \in rows'[Tables(run[2])[i]]
                   PROVE  m >= Cutoff(run[1])'
        BY DEF CleanThrough
      <3>1. CASE i = n + 1
        BY <2>2, <2>3, <2>4, <3>1, DatesStay
      <3>2. CASE i # n + 1
        <4>1. /\ i \in 1 .. n /\ n \in 0 .. Len(Tables(run[2]))
              /\ run[2] \in Sweep /\ run[1] \in Cleaner
          BY <2>1, <3>2, TablesOfRun
        <4>2. CleanThrough(run[1], run[2], n)'
          BY <2>1, <2>5, <4>1
        <4> QED
          BY <4>1, <4>2 DEF CleanThrough
      <3> QED
        BY <3>1, <3>2
    <2>7. RunCleans(run)'
      <3>1. cleared' = [cleared EXCEPT ![run] = n + 1] /\ cleared'[run] = n + 1
        BY <1>2, <1>8, <2>1 DEF DeleteBeforeCutoff, CleanUpTypeOK
      <3>2. CASE n + 1 = Len(Tables(run[2]))
        <4>1. stage'[run] = "mark"
          BY <1>2, <1>8, <2>1, <3>2 DEF DeleteBeforeCutoff, To, CleanUpTypeOK
        <4> QED
          BY <2>6, <3>2, <4>1 DEF RunCleans
      <3>3. CASE n + 1 # Len(Tables(run[2]))
        <4>1. stage'[run] = "delete" /\ n + 1 < Len(Tables(run[2]))
          <5>1. stage'[run] = "delete"
            BY <1>8, <2>1, <3>3 DEF DeleteBeforeCutoff
          <5>2. Len(Tables(run[2])) \in 1 .. 2
            BY TablesOfRun
          <5> QED
            BY <2>1, <3>3, <5>1, <5>2
        <4>2. CleanThrough(run[1], run[2], cleared[run])'
          BY <2>6, <3>1 DEF CleanThrough
        <4> QED
          BY <3>1, <4>1, <4>2 DEF RunCleans
      <3> QED
        BY <3>2, <3>3
    <2>8. ASSUME NEW q \in Cleaner \X Sweep, q # run
          PROVE  RunCleans(q)'
      <3>1. stage'[q] = stage[q] /\ cleared'[q] = cleared[q]
        BY <1>2, <1>8, <2>8 DEF DeleteBeforeCutoff, To, CleanUpTypeOK
      <3>2. cleared[q] \in 0 .. 2 /\ Len(Tables(q[2])) \in 1 .. 2 /\ q[2] \in Sweep /\ q[1] \in Cleaner
        BY <1>2, TablesOfRun DEF CleanUpTypeOK
      <3> QED
        BY <1>2, <2>5, <3>1, <3>2 DEF RunCleans
    <2>9. \A sweep \in Sweep : SweepClean(sweep)'
      BY <1>2, <2>4, <2>5, TablesOfRun, DatesStay DEF SweepClean
    <2> QED
      BY <2>7, <2>8, <2>9
  <1>9. ASSUME NEW run \in Cleaner \X Sweep, MarkLastRun(run)
        PROVE  /\ \A q \in Cleaner \X Sweep : RunCleans(q)'
               /\ \A sweep \in Sweep : SweepClean(sweep)'
    <2>1. \A s \in Cleaner, sweep \in Sweep, n \in 0 .. 2 :
              CleanThrough(s, sweep, n)' <=> CleanThrough(s, sweep, n)
      BY <1>9, DatesStay DEF MarkLastRun, CleanThrough
    <2>2. \A sweep \in Sweep : Len(Tables(sweep)) \in 0 .. 2
      BY TablesOfRun
    <2>3. CleanThrough(run[1], run[2], Len(Tables(run[2])))
      BY <1>2, <1>9 DEF MarkLastRun, RunCleans
    <2>4. \A q \in Cleaner \X Sweep : RunCleans(q)'
      BY <1>2, <1>9, <2>1, <2>2 DEF MarkLastRun, RunCleans, To, CleanUpTypeOK
    <2>5. /\ lastRun' = [lastRun EXCEPT ![run[2]] = LocalMonth(run[1])]
          /\ \A s \in Cleaner : LocalMonth(s)' = LocalMonth(s)
          /\ run[1] \in Cleaner /\ run[2] \in Sweep
      BY <1>9, DatesStay DEF MarkLastRun
    <2>6. ASSUME NEW sweep \in Sweep PROVE SweepClean(sweep)'
      <3>1. CASE sweep = run[2]
        <4>1. lastRun'[sweep] = LocalMonth(run[1])' /\ CleanThrough(run[1], sweep, Len(Tables(sweep)))'
          BY <1>2, <2>1, <2>2, <2>3, <2>5, <3>1 DEF CleanUpTypeOK
        <4> QED
          BY <2>5, <4>1 DEF SweepClean
      <3>2. CASE sweep # run[2]
        <4>1. lastRun'[sweep] = lastRun[sweep] /\ SweepClean(sweep)
          BY <1>2, <2>5, <3>2 DEF CleanUpTypeOK
        <4> QED
          BY <2>1, <2>2, <2>5, <4>1 DEF SweepClean
      <3> QED
        BY <3>1, <3>2
    <2> QED
      BY <2>4, <2>6
  <1>10. ASSUME NEW run \in Cleaner \X Sweep, SweepFails(run) \/ UnlockSweep(run)
         PROVE  /\ \A q \in Cleaner \X Sweep : RunCleans(q)'
                /\ \A sweep \in Sweep : SweepClean(sweep)'
    <2>1. \A q \in Cleaner \X Sweep :
              \/ stage'[q] = stage[q] /\ cleared'[q] = cleared[q]
              \/ RunCleans(q)'
      BY <1>2, <1>10 DEF SweepFails, UnlockSweep, RunCleans, To, CleanUpTypeOK
    <2> QED
      BY <1>5, <1>10, <2>1 DEF SweepFails, UnlockSweep
  <1>11. ASSUME NEW s \in Cleaner, CleanerDies(s)
         PROVE  /\ \A q \in Cleaner \X Sweep : RunCleans(q)'
                /\ \A sweep \in Sweep : SweepClean(sweep)'
    <2>1. \A q \in Cleaner \X Sweep :
              \/ stage'[q] = stage[q] /\ cleared'[q] = cleared[q]
              \/ RunCleans(q)'
      BY <1>2, <1>11 DEF CleanerDies, RunCleans, CleanUpTypeOK
    <2> QED
      BY <1>5, <1>11, <2>1 DEF CleanerDies
  <1>12. CASE (\E sweep \in Sweep : SweepLockExpires(sweep)) \/ FlushKeys \/ UNCHANGED cleanUpVars
    BY <1>2, <1>5, <1>12 DEF SweepLockExpires, FlushKeys, CleanUpTypeOK
  <1> QED
    BY <1>4, <1>6, <1>7, <1>8, <1>9, <1>10, <1>11, <1>12 DEF CleanUpNext, RunCleanup

LEMMA CleanInvAlways == CleanUpSpec => []CleanInv
  BY CleanInvInit, CleanInvNext, PTL DEF CleanUpSpec

\* The state of the clean-ups is well typed: their timers, locks, keys and tables
\* (BetCleanupSchedulerService, WalletAuditCleanupService).
THEOREM CleanUpTypeCorrect == CleanUpSpec => []CleanUpTypeOK
  BY CleanInvAlways, PTL DEF CleanInv

\* A date whose last-run key is set is clean up to the cutoff of a server that has this
\* date, all tables of the run, whatever commands fail and servers die, in whatever zones
\* the servers are, and however their runs overlap (runCleanup sets the key last).
THEOREM MarkedMonthsAreClean == CleanUpSpec => []MarkedMonthIsClean
  BY CleanInvAlways, PTL DEF CleanInv

-----------------------------------------------------------------------------
(* Without failures, slow runs and flushes a month is swept once. *)

LEMMA OnceInvInit == CleanUpInit => OnceInv
  <1> SUFFICES ASSUME CleanUpInit
               PROVE  /\ \A run \in Cleaner \X Sweep : RunAlone(run)
                      /\ \A t \in CleanedTable : deletions[t] <= 1
    BY DEF OnceInv
  <1>1. \A sweep \in Sweep : Untouched(sweep, 1)
    BY TablesOfRun DEF CleanUpInit, Untouched
  <1> QED
    BY <1>1, CleanUpAssumption DEF CleanUpInit, RunAlone

\* A run that a step passes by stays as it is.
LEMMA RunAloneKept ==
  ASSUME NEW q \in Cleaner \X Sweep, RunAlone(q), month' = month, zone' = zone, lastRun' = lastRun,
         deletions' = deletions, due' \subseteq due, stage'[q] = stage[q],
         cleared'[q] = cleared[q], sweepLock'[q[2]] = sweepLock[q[2]]
  PROVE  RunAlone(q)'
  BY DatesStay DEF RunAlone, Untouched, Marked

\* Servers on one side of the date line have one date.
LEMMA SameDate ==
  ASSUME OneDate
  PROVE  \A r, s \in Cleaner : LocalMonth(r) = LocalMonth(s)
  BY DEF OneDate, LocalMonth

LEMMA MarkedStays ==
  ASSUME month' = month, zone' = zone, lastRun' = lastRun
  PROVE  \A q \in Cleaner \X Sweep : Marked(q)' <=> Marked(q)
  BY DatesStay DEF Marked

LEMMA OnceInvNext ==
  ASSUME CleanInv, OnceInv, [CleanUpNext]_cleanUpVars
  PROVE  OnceInv'
  <1>1. hitches' = hitches /\ zone' = zone
    BY DEF CleanUpNext, RunCleanup, MonthBegins, LockSweep, CheckLastRun, DeleteBeforeCutoff,
           MarkLastRun, SweepFails, UnlockSweep, SweepLockExpires, CleanerDies, FlushKeys
  <1> DEFINE OneRun == /\ \A run \in Cleaner \X Sweep : RunAlone(run)
                       /\ \A t \in CleanedTable : deletions[t] <= 1
  <1> SUFFICES ASSUME hitches \subseteq {"die"}, OneDate
               PROVE  OneRun'
    BY <1>1 DEF OnceInv, OneDate
  <1>2. OneRun /\ CleanUpTypeOK /\ CleanUpTypeOK' /\ "fail" \notin hitches
        /\ "slow" \notin hitches /\ "flush" \notin hitches
    BY CleanUpTyped DEF OnceInv, CleanInv
  <1>3. \A run \in Cleaner \X Sweep :
            run[1] \in Cleaner /\ run[2] \in Sweep /\ run = <<run[1], run[2]>>
    OBVIOUS
  \* Two runs of one sweep are on two servers, of which one holds the lock.
  <1>4. \A run, q \in Cleaner \X Sweep :
            run # q /\ run[2] = q[2] /\ sweepLock[run[2]] = run[1] => stage[q] = "idle"
    BY <1>2, <1>3 DEF RunAlone
  <1>5. CASE MonthBegins
    <2>1. \A sweep \in Sweep : Untouched(sweep, 1)'
      BY <1>5, TablesOfRun DEF MonthBegins, Untouched
    <2> QED
      BY <1>2, <1>3, <1>5, <2>1, CleanUpAssumption DEF MonthBegins, RunAlone
  <1>6. ASSUME NEW run \in Cleaner \X Sweep, LockSweep(run)
        PROVE  OneRun'
    <2>1. \A sweep \in Sweep : Untouched(sweep, 1)' <=> Untouched(sweep, 1)
      BY <1>6 DEF LockSweep, Untouched
    <2>2. ASSUME NEW q \in Cleaner \X Sweep
          PROVE  RunAlone(q)'
      <3>1. CASE sweepLock' = sweepLock
        <4>1. stage' = stage /\ cleared' = cleared
          BY <1>2, <1>3, <1>6, <3>1, CleanUpAssumption DEF LockSweep, CleanUpTypeOK
        <4> QED
          BY <1>2, <1>6, <3>1, <4>1, RunAloneKept DEF LockSweep
      <3>2. CASE sweepLock' # sweepLock /\ q = run
        <4>1. Marked(q)' <=> Marked(q)
          BY <1>6, MarkedStays DEF LockSweep
        <4> QED
          BY <1>2, <1>3, <1>6, <2>1, <3>2, <4>1, CleanUpAssumption
          DEF LockSweep, RunAlone, To, CleanUpTypeOK
      <3>3. CASE sweepLock' # sweepLock /\ q # run
        <4>1. /\ sweepLock[run[2]] = NoCleaner /\ sweepLock' = [sweepLock EXCEPT ![run[2]] = run[1]]
              /\ stage'[q] = stage[q] /\ cleared'[q] = cleared[q] /\ due' \subseteq due
          BY <1>2, <1>6, <3>3 DEF LockSweep, To, CleanUpTypeOK
        <4>2. CASE q[2] = run[2]
          <5>1. stage'[q] = "idle" /\ q[1] # run[1] /\ sweepLock'[q[2]] = run[1]
            BY <1>2, <1>3, <3>3, <4>1, <4>2, CleanUpAssumption DEF RunAlone, CleanUpTypeOK
          <5> QED
            BY <1>3, <5>1, CleanUpAssumption DEF RunAlone
        <4>3. CASE q[2] # run[2]
          <5>1. sweepLock'[q[2]] = sweepLock[q[2]]
            BY <1>2, <1>3, <4>1, <4>3 DEF CleanUpTypeOK
          <5> QED
            BY <1>2, <1>6, <4>1, <5>1, RunAloneKept DEF LockSweep
        <4> QED
          BY <4>2, <4>3
      <3> QED
        BY <3>1, <3>2, <3>3
    <2> QED
      BY <1>2, <1>6, <2>2 DEF LockSweep
  <1>7. ASSUME NEW run \in Cleaner \X Sweep, CheckLastRun(run)
        PROVE  OneRun'
    <2>1. \A sweep \in Sweep : Untouched(sweep, 1)' <=> Untouched(sweep, 1)
      BY <1>7 DEF CheckLastRun, Untouched
    <2>2. cleared[run] = 0 /\ (Marked(run)' <=> Marked(run))
      BY <1>7, MarkedStays DEF CheckLastRun, CleanInv, RunCleans
    <2>3. ASSUME NEW q \in Cleaner \X Sweep
          PROVE  RunAlone(q)'
      <3>1. CASE q = run
        <4>1. CASE Marked(run)
          BY <1>2, <1>7, <2>1, <2>2, <3>1, <4>1 DEF CheckLastRun, RunAlone, To, CleanUpTypeOK
        <4>2. CASE ~Marked(run)
          <5>1. Untouched(run[2], 1)
            BY <1>2, <1>7, <4>2 DEF CheckLastRun, RunAlone
          <5>2. Untouched(run[2], cleared[run] + 1)'
            BY <1>7, <2>2, <5>1 DEF CheckLastRun, Untouched
          <5> QED
            BY <1>2, <1>7, <2>1, <2>2, <3>1, <4>2, <5>2 DEF CheckLastRun, RunAlone, To, CleanUpTypeOK
        <4> QED
          BY <4>1, <4>2
      <3>2. CASE q # run
        <4>1. stage'[q] = stage[q]
          BY <1>2, <1>7, <3>2 DEF CheckLastRun, To, CleanUpTypeOK
        <4> QED
          BY <1>2, <1>7, <4>1, RunAloneKept DEF CheckLastRun
      <3> QED
        BY <3>1, <3>2
    <2> QED
      BY <1>2, <1>7, <2>3 DEF CheckLastRun
  <1>8. ASSUME NEW run \in Cleaner \X Sweep, DeleteBeforeCutoff(run)
        PROVE  OneRun'
    <2>1. /\ cleared[run] + 1 \in 1 .. Len(Tables(run[2]))
          /\ Untouched(run[2], cleared[run] + 1)
          /\ sweepLock[run[2]] = run[1]
      <3>1. run[2] \in Sweep /\ Len(Tables(run[2])) \in 1 .. 2
        BY TablesOfRun
      <3>2. cleared[run] \in 0 .. 2 /\ cleared[run] < Len(Tables(run[2]))
        BY <1>2, <1>8 DEF DeleteBeforeCutoff, CleanInv, RunCleans, CleanUpTypeOK
      <3>3. \A c \in 0 .. 2, len \in 1 .. 2 : c < len => c + 1 \in 1 .. len
        OBVIOUS
      <3>4. Untouched(run[2], cleared[run] + 1) /\ sweepLock[run[2]] = run[1]
        BY <1>2, <1>8 DEF DeleteBeforeCutoff, RunAlone
      <3> QED
        BY <3>1, <3>2, <3>3, <3>4
    <2>2. PICK n \in 1 .. 2 : n = cleared[run] + 1 /\ n \in 1 .. Len(Tables(run[2]))
      BY <2>1, TablesOfRun
    <2> DEFINE t == Tables(run[2])[n]
    <2>3. t \in CleanedTable /\ deletions[t] = 0
      BY <2>1, <2>2, TablesOfRun DEF Untouched
    <2>4. \A u \in CleanedTable : deletions'[u] = IF u = t THEN 1 ELSE deletions[u]
      BY <1>2, <1>8, <2>2, <2>3 DEF DeleteBeforeCutoff, CleanUpTypeOK
    <2>5. /\ month' = month /\ zone' = zone /\ lastRun' = lastRun
          /\ sweepLock' = sweepLock /\ due' = due
          /\ cleared' = [cleared EXCEPT ![run] = @ + 1]
          /\ \A q \in Cleaner \X Sweep : q # run => stage'[q] = stage[q] /\ cleared'[q] = cleared[q]
          /\ stage'[run] \in {"delete", "mark"}
      BY <1>2, <1>8 DEF DeleteBeforeCutoff, To, CleanUpTypeOK
    <2>6. \A sweep \in Sweep : \A k \in 1 .. 3 :
              sweep # run[2] /\ Untouched(sweep, k) => Untouched(sweep, k)'
      <3> SUFFICES ASSUME NEW sweep \in Sweep, NEW k \in 1 .. 3, sweep # run[2],
                          Untouched(sweep, k), NEW i \in k .. Len(Tables(sweep))
                   PROVE  deletions'[Tables(sweep)[i]] = 0
        BY DEF Untouched
      <3>1. i \in 1 .. Len(Tables(sweep)) /\ Tables(sweep)[i] \in CleanedTable
        BY TablesOfRun
      <3>2. Tables(sweep)[i] # t
        BY <2>2, <3>1, TablesDiffer
      <3> QED
        BY <2>4, <3>1, <3>2 DEF Untouched
    <2>7. RunAlone(run)'
      <3>1. Untouched(run[2], cleared[run] + 1)'
        <4>1. cleared'[run] + 1 = n + 1
          BY <1>2, <2>2, <2>5 DEF CleanUpTypeOK
        <4> SUFFICES ASSUME NEW i \in n + 1 .. Len(Tables(run[2]))
                     PROVE  deletions'[Tables(run[2])[i]] = 0
          BY <4>1 DEF Untouched
        <4>2. i \in n .. Len(Tables(run[2])) /\ i \in 1 .. Len(Tables(run[2])) /\ i # n
          BY TablesOfRun
        <4>3. Tables(run[2])[i] # t /\ Tables(run[2])[i] \in CleanedTable
          BY <2>2, <4>2, TablesDiffer, TablesOfRun
        <4> QED
          BY <2>1, <2>2, <2>4, <4>2, <4>3 DEF Untouched
      <3> QED
        BY <1>2, <2>1, <2>5, <3>1, CleanUpAssumption DEF RunAlone
    <2>8. ASSUME NEW q \in Cleaner \X Sweep, q # run, q[2] = run[2]
          PROVE  RunAlone(q)'
      BY <1>2, <1>3, <1>4, <2>1, <2>5, <2>8, CleanUpAssumption DEF RunAlone
    <2>9. ASSUME NEW q \in Cleaner \X Sweep, q # run, q[2] # run[2]
          PROVE  RunAlone(q)'
      <3>1. PICK k \in 1 .. 3 : k = cleared[q] + 1
        BY <1>2 DEF CleanUpTypeOK
      <3>2. Untouched(q[2], cleared[q] + 1) => Untouched(q[2], cleared[q] + 1)'
        <4>1. Untouched(q[2], k) => Untouched(q[2], k)'
          BY <2>6, <2>9
        <4> QED
          BY <2>5, <2>9, <3>1, <4>1 DEF Untouched
      <3>3. Untouched(q[2], 1) => Untouched(q[2], 1)'
        BY <2>6, <2>9
      <3>4. Marked(q)' <=> Marked(q)
        BY <2>5, MarkedStays
      <3> QED
        BY <1>2, <2>5, <2>9, <3>2, <3>3, <3>4 DEF RunAlone
    <2> QED
      BY <1>2, <2>4, <2>7, <2>8, <2>9
  <1>9. ASSUME NEW run \in Cleaner \X Sweep, MarkLastRun(run)
        PROVE  OneRun'
    <2>1. \A sweep \in Sweep : Untouched(sweep, 1)' <=> Untouched(sweep, 1)
      BY <1>9 DEF MarkLastRun, Untouched
    <2>2. ASSUME NEW q \in Cleaner \X Sweep
          PROVE  RunAlone(q)'
      <3>1. /\ lastRun' = [lastRun EXCEPT ![run[2]] = LocalMonth(run[1])]
            /\ \A s \in Cleaner : LocalMonth(s)' = LocalMonth(run[1])
            /\ \A s \in Cleaner : LocalMonth(s) = LocalMonth(run[1])
        BY <1>3, <1>9, SameDate, DatesStay DEF MarkLastRun
      <3>2. CASE q[2] = run[2]
        <4>1. Marked(q)'
          BY <1>2, <1>3, <3>1, <3>2 DEF Marked, CleanUpTypeOK
        <4> QED
          BY <1>2, <1>3, <1>9, <2>1, <3>2, <4>1 DEF MarkLastRun, RunAlone, Untouched, To, CleanUpTypeOK
      <3>3. CASE q[2] # run[2]
        <4>1. Marked(q)' <=> Marked(q)
          BY <1>2, <1>3, <3>1, <3>3 DEF Marked, CleanUpTypeOK
        <4> QED
          BY <1>2, <1>3, <1>9, <2>1, <3>3, <4>1 DEF MarkLastRun, RunAlone, Untouched, To, CleanUpTypeOK
      <3> QED
        BY <3>2, <3>3
    <2> QED
      BY <1>2, <1>9, <2>2 DEF MarkLastRun
  <1>10. ASSUME NEW run \in Cleaner \X Sweep, UnlockSweep(run)
         PROVE  OneRun'
    <2>1. \A sweep \in Sweep : Untouched(sweep, 1)' <=> Untouched(sweep, 1)
      BY <1>10 DEF UnlockSweep, Untouched
    <2>2. sweepLock[run[2]] = run[1] /\ Marked(run)
      BY <1>2, <1>10 DEF UnlockSweep, RunAlone
    <2>3. ASSUME NEW q \in Cleaner \X Sweep
          PROVE  RunAlone(q)'
      <3>1. CASE q[2] = run[2]
        <4>1. stage'[q] = "idle" /\ sweepLock'[q[2]] = NoCleaner /\ Marked(q)'
          BY <1>1, <1>2, <1>3, <1>4, <1>10, <2>2, <3>1, SameDate, DatesStay
          DEF UnlockSweep, To, CleanUpTypeOK, Marked
        <4> QED
          BY <1>3, <4>1, CleanUpAssumption DEF RunAlone
      <3>2. CASE q[2] # run[2]
        <4>1. stage'[q] = stage[q] /\ sweepLock'[q[2]] = sweepLock[q[2]]
          BY <1>2, <1>3, <1>10, <3>2 DEF UnlockSweep, To, CleanUpTypeOK
        <4> QED
          BY <1>2, <1>3, <1>10, <4>1, RunAloneKept DEF UnlockSweep
      <3> QED
        BY <3>1, <3>2
    <2> QED
      BY <1>2, <1>10, <2>3 DEF UnlockSweep
  <1>11. ASSUME NEW sweep \in Sweep, SweepLockExpires(sweep)
         PROVE  OneRun'
    <2>1. \A other \in Sweep : Untouched(other, 1)' <=> Untouched(other, 1)
      BY <1>11 DEF SweepLockExpires, Untouched
    <2>2. ASSUME NEW q \in Cleaner \X Sweep
          PROVE  RunAlone(q)'
      <3>1. CASE q[2] = sweep
        <4>1. stage[q] = "idle" /\ q \notin due
          BY <1>2, <1>3, <1>11, <3>1 DEF SweepLockExpires, RunAlone
        <4> QED
          BY <1>2, <1>3, <1>11, <3>1, <4>1, CleanUpAssumption
          DEF SweepLockExpires, RunAlone, CleanUpTypeOK
      <3>2. CASE q[2] # sweep
        <4>1. Marked(q)' <=> Marked(q)
          BY <1>11, MarkedStays DEF SweepLockExpires
        <4> QED
          BY <1>2, <1>3, <1>11, <2>1, <3>2, <4>1
          DEF SweepLockExpires, RunAlone, Untouched, CleanUpTypeOK
      <3> QED
        BY <3>1, <3>2
    <2> QED
      BY <1>2, <1>11, <2>2 DEF SweepLockExpires
  <1>12. ASSUME NEW s \in Cleaner, CleanerDies(s)
         PROVE  OneRun'
    <2>1. \A sweep \in Sweep : Untouched(sweep, 1)' <=> Untouched(sweep, 1)
      BY <1>12 DEF CleanerDies, Untouched
    <2>2. ASSUME NEW q \in Cleaner \X Sweep
          PROVE  RunAlone(q)'
      <3>1. stage'[q] \in {"idle", stage[q]} /\ due' \subseteq due
        BY <1>2, <1>12 DEF CleanerDies, CleanUpTypeOK
      <3>2. Marked(q)' <=> Marked(q)
        BY <1>12, MarkedStays DEF CleanerDies
      <3> QED
        BY <1>2, <1>3, <1>12, <2>1, <3>1, <3>2 DEF CleanerDies, RunAlone, Untouched
    <2> QED
      BY <1>2, <1>12, <2>2 DEF CleanerDies
  <1>13. CASE (\E run \in Cleaner \X Sweep : SweepFails(run)) \/ FlushKeys
    BY <1>2, <1>13 DEF SweepFails, FlushKeys
  <1>14. CASE UNCHANGED cleanUpVars
    <2>1. \A q \in Cleaner \X Sweep : RunAlone(q)'
      BY <1>2, <1>14, RunAloneKept
    <2> QED
      BY <1>2, <1>14, <2>1
  <1> QED
    BY <1>5, <1>6, <1>7, <1>8, <1>9, <1>10, <1>11, <1>12, <1>13, <1>14 DEF CleanUpNext, RunCleanup

\* The servers together delete once a month from each table, whichever of them die, as long
\* as no command fails, nothing is slow and Redis is not flushed (the lock, and the last-run
\* key that the next holder reads).
THEOREM MonthsSweptOnce == CleanUpSpec => []SweptOnce
  <1>1. OnceInv => SweptOnce
    BY DEF OnceInv, SweptOnce
  <1> QED
    BY <1>1, OnceInvInit, OnceInvNext, CleanInvInit, CleanInvNext, PTL DEF CleanUpSpec

-----------------------------------------------------------------------------
(* The creation of games is well typed. *)

USE DEF onboardingVars

LEMMA TableIsConfigTable ==
  ASSUME NEW c \in GameCode
  PROVE  TableOf[c] \in ConfigTable
  BY DEF ConfigTable

LEMMA StageAfter ==
  /\ After("find") = "save" /\ After("save") = "createTable" /\ After("createTable") = "copy"
  /\ After("copy") = "hazards" /\ After("hazards") = "answer"
  BY DEF After

\* A creation that proceeds keeps its game; the others stay as they are.
LEMMA CreationProceeds ==
  ASSUME OnboardingTypeOK, NEW s \in Server, Proceed(s),
         creation[s].stage \in CreationStage \ {"answer"}
  PROVE  /\ creation' \in [Server -> [stage : CreationStage, code : GameCode] \cup {Idle}]
         /\ creation'[s].stage = After(creation[s].stage)
         /\ creation'[s].code = creation[s].code /\ creation[s].code \in GameCode
         /\ \A t \in Server \ {s} : creation'[t] = creation[t]
  <1>1. creation[s] \in [stage : CreationStage, code : GameCode]
    BY DEF OnboardingTypeOK, Idle, CreationStage
  <1>2. After(creation[s].stage) \in CreationStage
    BY StageAfter DEF CreationStage
  <1> QED
    BY <1>1, <1>2 DEF Proceed, OnboardingTypeOK

LEMMA CreationEnds ==
  ASSUME OnboardingTypeOK, NEW s \in Server, EndCreation(s)
  PROVE  /\ creation' \in [Server -> [stage : CreationStage, code : GameCode] \cup {Idle}]
         /\ creation'[s] = Idle
         /\ \A t \in Server \ {s} : creation'[t] = creation[t]
  BY DEF EndCreation, OnboardingTypeOK

\* A server that is about a creation has a game for it.
LEMMA CreationHasGame ==
  ASSUME OnboardingTypeOK, NEW s \in Server, creation[s].stage \in CreationStage
  PROVE  CodeOf(s) \in GameCode
  BY DEF OnboardingTypeOK, CreationStage, Idle, CodeOf

LEMMA LoadsTyped ==
  ASSUME OnboardingTypeOK, NEW s \in Server, NEW c \in GameCode, NEW config, Loads(s, c, config)
  PROVE  /\ config \in Config
         /\ cached' \in [Server -> [GameCode -> Config \cup {"none"}]]
  BY DEF OnboardingTypeOK, Loads

LEMMA HazardsTyped ==
  ASSUME NEW current \in Config, NEW next \in Config
  PROVE  Hazards(current, next) \in [current : Config, next : Config]
  BY DEF Hazards

LEMMA OnboardingTyped ==
  ASSUME OnboardingInv, [OnboardingNext]_onboardingVars
  PROVE  OnboardingTypeOK'
  <1> OnboardingTypeOK
    BY DEF OnboardingInv
  <1>1. ASSUME NEW s \in Server, FindGame(s)
        PROVE  OnboardingTypeOK'
    BY <1>1, CreationProceeds, CreationEnds
    DEF OnboardingTypeOK, FindGame, Creates, CreationStage
  <1>2. ASSUME NEW s \in Server, SaveGame(s)
        PROVE  OnboardingTypeOK'
    BY <1>2, CreationProceeds, CreationEnds, CreationHasGame
    DEF OnboardingTypeOK, SaveGame, Creates, CreationStage
  <1>3. ASSUME NEW s \in Server, CreateTable(s)
        PROVE  OnboardingTypeOK'
    BY <1>3, CreationProceeds DEF OnboardingTypeOK, CreateTable, Creates, CreationStage
  <1>4. ASSUME NEW s \in Server, CopyConfigs(s)
        PROVE  OnboardingTypeOK'
    BY <1>4, CreationProceeds DEF OnboardingTypeOK, CopyConfigs, Creates, CreationStage
  <1>5. ASSUME NEW s \in Server, InitializeHazards(s)
        PROVE  OnboardingTypeOK'
    <2>1. CASE UNCHANGED <<cached, hazards>>
      BY <1>5, <2>1, CreationProceeds
      DEF OnboardingTypeOK, InitializeHazards, Creates, CreationStage
    <2>2. CASE ~UNCHANGED <<cached, hazards>>
      <3>1. PICK config \in Config :
                /\ Loads(s, CodeOf(s), config)
                /\ hazards' = [hazards EXCEPT ![CodeOf(s)] = Hazards(config, config)]
        BY <1>5, <2>2 DEF InitializeHazards
      <3>2. CodeOf(s) \in GameCode
        BY <1>5, CreationHasGame DEF InitializeHazards, Creates, CreationStage
      <3>3. hazards' \in [GameCode -> [current : Config, next : Config] \cup {NoHazards}]
        BY <3>1, <3>2, HazardsTyped DEF OnboardingTypeOK
      <3>4. cached' \in [Server -> [GameCode -> Config \cup {"none"}]]
        BY <3>1, <3>2, LoadsTyped
      <3> QED
        BY <1>5, <3>3, <3>4, CreationProceeds
        DEF OnboardingTypeOK, InitializeHazards, Creates, CreationStage
    <2> QED
      BY <2>1, <2>2
  <1>6. ASSUME NEW s \in Server, CreationFails(s)
        PROVE  OnboardingTypeOK'
    BY <1>6, CreationEnds DEF OnboardingTypeOK, CreationFails
  <1>7. ASSUME NEW s \in Server, Restart(s)
        PROVE  OnboardingTypeOK'
    BY <1>7, CreationEnds DEF OnboardingTypeOK, Restart
  <1>8. ASSUME NEW s \in Server, NEW c \in GameCode, CreateGame(s, c)
        PROVE  OnboardingTypeOK'
    BY <1>8 DEF OnboardingTypeOK, CreateGame, CreationStage
  <1>9. ASSUME NEW s \in Server, NEW c \in PlayedGame, DrawHazards(s, c)
        PROVE  OnboardingTypeOK'
    <2>1. PICK config \in Config :
              /\ Loads(s, c, config)
              /\ hazards' = [hazards EXCEPT ![c] =
                    IF @ = NoHazards THEN Hazards(config, config) ELSE Hazards(@.next, config)]
      BY <1>9 DEF DrawHazards
    <2>2. c \in GameCode
      BY OnboardingAssumption
    <2>3. hazards[c] # NoHazards => hazards[c].next \in Config
      BY <2>2 DEF OnboardingTypeOK
    <2>4. hazards' \in [GameCode -> [current : Config, next : Config] \cup {NoHazards}]
      BY <2>1, <2>2, <2>3, HazardsTyped DEF OnboardingTypeOK
    <2>5. cached' \in [Server -> [GameCode -> Config \cup {"none"}]]
      BY <2>1, <2>2, LoadsTyped
    <2> QED
      BY <1>9, <2>4, <2>5 DEF OnboardingTypeOK, DrawHazards
  <1>10. ASSUME NEW p \in Player, NEW c \in PlayedGame, StartRound(p, c)
         PROVE  OnboardingTypeOK'
    BY <1>10, OnboardingAssumption DEF OnboardingTypeOK, StartRound
  <1>11. ASSUME NEW p \in Player, EndRound(p)
         PROVE  OnboardingTypeOK'
    BY <1>11 DEF OnboardingTypeOK, EndRound
  <1>12. ASSUME NEW c \in GameCode, TuneConfig(c)
         PROVE  OnboardingTypeOK'
    BY <1>12 DEF OnboardingTypeOK, TuneConfig
  <1>13. ASSUME NEW c \in PlayedGame, HazardsExpire(c)
         PROVE  OnboardingTypeOK'
    BY <1>13 DEF OnboardingTypeOK, HazardsExpire
  <1>14. CASE UNCHANGED onboardingVars
    BY <1>14 DEF OnboardingTypeOK
  <1>15. ASSUME NEW s \in Server, AnswerCreation(s)
         PROVE  OnboardingTypeOK'
    <2>1. CodeOf(s) \in games
      BY <1>15 DEF AnswerCreation, Creates, OnboardingInv, CreationSound, Saved
    <2> QED
      BY <1>15, <2>1, CreationEnds DEF OnboardingTypeOK, AnswerCreation
  <1> QED
    BY <1>1, <1>2, <1>3, <1>4, <1>5, <1>6, <1>7, <1>8, <1>9, <1>10, <1>11, <1>12, <1>13, <1>14,
       <1>15 DEF OnboardingNext, Onboard

-----------------------------------------------------------------------------
(* An onboarded game is ready, and what was tuned stays. *)

LEMMA OnboardingInvInit == OnboardingInit => OnboardingInv
  <1> SUFFICES ASSUME OnboardingInit
               PROVE  OnboardingInv
    OBVIOUS
  <1>1. OnboardingTypeOK
    BY DEF OnboardingInit, OnboardingTypeOK
  <1>2. \A s \in Server : creation[s].stage = "idle"
    BY DEF OnboardingInit, Idle
  <1> QED
    BY <1>1, <1>2 DEF OnboardingInit, OnboardingInv, CreationSound, Saved, OneCreation, GameReady

\* No step takes a table, its configuration or a game away.
LEMMA ConfigsGrow ==
  ASSUME OnboardingInv, [OnboardingNext]_onboardingVars
  PROVE  /\ mishaps' = mishaps /\ games \subseteq games'
         /\ \A t \in ConfigTable :
               /\ configs[t] # "absent" => configs'[t] # "absent"
               /\ configs[t] \in {"source", "tuned"} => configs'[t] \in {"source", "tuned"}
  <1> OnboardingTypeOK
    BY DEF OnboardingInv
  <1>1. mishaps' = mishaps /\ games \subseteq games'
    BY DEF OnboardingNext, Onboard, FindGame, SaveGame, CreateTable, CopyConfigs,
           InitializeHazards, AnswerCreation, CreationFails, Restart, CreateGame, DrawHazards,
           StartRound, EndRound, TuneConfig, HazardsExpire
  <1>2. \/ UNCHANGED configs
        \/ \E s \in Server : CreateTable(s) \/ CopyConfigs(s)
        \/ \E c \in GameCode : TuneConfig(c)
    BY DEF OnboardingNext, Onboard, FindGame, SaveGame,
           InitializeHazards, AnswerCreation, CreationFails, Restart, CreateGame, DrawHazards,
           StartRound, EndRound, HazardsExpire
  <1>3. ASSUME NEW s \in Server, CreateTable(s), NEW t \in ConfigTable
        PROVE  configs[t] # "absent" => configs'[t] = configs[t]
    BY <1>3 DEF CreateTable, OnboardingTypeOK
  <1>4. ASSUME NEW s \in Server, CopyConfigs(s), NEW t \in ConfigTable
        PROVE  configs'[t] \in {configs[t], "source"}
    BY <1>4 DEF CopyConfigs, OnboardingTypeOK
  <1>5. ASSUME NEW c \in GameCode, TuneConfig(c), NEW t \in ConfigTable
        PROVE  configs'[t] \in {configs[t], "tuned"}
    BY <1>5 DEF TuneConfig, OnboardingTypeOK
  <1> QED
    BY <1>1, <1>2, <1>3, <1>4, <1>5

\* A creation that a step passes by stays sound.
LEMMA CreationSoundKept ==
  ASSUME OnboardingInv, [OnboardingNext]_onboardingVars, NEW s \in Server,
         creation'[s] = creation[s],
         Saved(s) => CodeOf(s) \notin onboarded'
  PROVE  CreationSound(s)'
  <1>1. Saved(s) => TableOf[CodeOf(s)] \in ConfigTable
    BY CreationHasGame, TableIsConfigTable DEF Saved, CreationStage, OnboardingInv
  <1> QED
    BY <1>1, ConfigsGrow DEF CreationSound, Saved, CodeOf, OnboardingInv

LEMMA OnboardingInvNext ==
  ASSUME OnboardingInv, [OnboardingNext]_onboardingVars
  PROVE  OnboardingInv'
  <1> DEFINE Sound == (\A s \in Server : CreationSound(s)) /\ OneCreation /\ GameReady
  <1>1. OnboardingTypeOK /\ OnboardingTypeOK' /\ Sound
    BY OnboardingTyped DEF OnboardingInv
  <1> SUFFICES Sound'
    BY <1>1 DEF OnboardingInv
  \* As long as nothing is onboarded, what was stays ready.
  <1>2. onboarded' = onboarded => GameReady'
    BY <1>1, ConfigsGrow, TableIsConfigTable DEF GameReady, OnboardingTypeOK
  <1>3. ASSUME NEW s \in Server, onboarded' = onboarded,
               creation'[s].stage \notin CreationStage \ {"find", "save"},
               \A t \in Server \ {s} : creation'[t] = creation[t]
        PROVE  Sound'
    <2>1. CreationSound(s)' /\ ~Saved(s)'
      BY <1>3 DEF CreationSound, Saved, CreationStage
    <2>2. \A t \in Server \ {s} : CreationSound(t)' /\ (Saved(t)' => Saved(t))
                                  /\ CodeOf(t)' = CodeOf(t)
      BY <1>1, <1>3, CreationSoundKept DEF Saved, CodeOf, CreationSound
    <2> QED
      BY <1>1, <1>2, <1>3, <2>1, <2>2 DEF OneCreation
  <1>4. ASSUME NEW s \in Server, onboarded' = onboarded, Saved(s),
               Proceed(s), creation[s].stage # "answer", CreationSound(s)'
        PROVE  Sound'
    <2>1. Saved(s)' /\ CodeOf(s)' = CodeOf(s) /\ \A t \in Server \ {s} : creation'[t] = creation[t]
      BY <1>1, <1>4, CreationProceeds, StageAfter DEF Saved, CodeOf, CreationStage
    <2>2. \A t \in Server \ {s} : CreationSound(t)' /\ (Saved(t)' => Saved(t))
                                  /\ CodeOf(t)' = CodeOf(t)
      BY <1>1, <1>4, <2>1, CreationSoundKept DEF Saved, CodeOf, CreationSound
    <2> QED
      BY <1>1, <1>2, <1>4, <2>1, <2>2 DEF OneCreation
  <1>5. ASSUME NEW s \in Server, FindGame(s)
        PROVE  Sound'
    <2>1. /\ creation'[s].stage \in {"idle", "save"}
          /\ \A t \in Server \ {s} : creation'[t] = creation[t]
      BY <1>1, <1>5, CreationProceeds, CreationEnds, StageAfter
      DEF FindGame, Creates, CreationStage, Idle
    <2> QED
      BY <1>3, <1>5, <2>1 DEF FindGame, CreationStage
  <1>6. ASSUME NEW s \in Server, SaveGame(s)
        PROVE  Sound'
    <2>1. CASE EndCreation(s)
      BY <1>1, <1>3, <1>6, <2>1, CreationEnds DEF SaveGame, CreationStage, Idle
    <2>2. CASE CodeOf(s) \notin games /\ Proceed(s) /\ games' = games \cup {CodeOf(s)}
      <3>1. /\ creation'[s].stage = "createTable" /\ CodeOf(s)' = CodeOf(s)
            /\ \A t \in Server \ {s} : creation'[t] = creation[t]
        BY <1>1, <1>6, <2>2, CreationProceeds, StageAfter
        DEF SaveGame, Creates, CreationStage, CodeOf
      <3>2. \A t \in Server : Saved(t) => CodeOf(t) # CodeOf(s)
        BY <1>1, <2>2 DEF CreationSound
      <3>3. CreationSound(s)'
        BY <1>1, <1>6, <2>2, <3>1 DEF CreationSound, SaveGame, OnboardingTypeOK
      <3>4. \A t \in Server \ {s} : CreationSound(t)' /\ (Saved(t)' => Saved(t))
                                    /\ CodeOf(t)' = CodeOf(t)
        BY <1>1, <1>6, <3>1, CreationSoundKept DEF SaveGame, Saved, CodeOf, CreationSound
      <3> QED
        BY <1>1, <1>2, <1>6, <3>1, <3>2, <3>3, <3>4 DEF OneCreation, SaveGame
    <2> QED
      BY <1>6, <2>1, <2>2 DEF SaveGame
  <1>7. ASSUME NEW s \in Server, CreateTable(s)
        PROVE  Sound'
    <2>1. creation'[s].stage = "copy" /\ CodeOf(s)' = CodeOf(s) /\ CodeOf(s) \in GameCode
      BY <1>1, <1>7, CreationProceeds, StageAfter DEF CreateTable, Creates, CreationStage, CodeOf
    <2>2. configs'[TableOf[CodeOf(s)]] # "absent" /\ CodeOf(s) \in games' \ onboarded'
      BY <1>1, <1>7, <2>1, TableIsConfigTable
      DEF CreateTable, Creates, OnboardingTypeOK, CreationSound, Saved
    <2>3. CreationSound(s)'
      BY <2>1, <2>2 DEF CreationSound
    <2> QED
      BY <1>4, <1>7, <2>3 DEF CreateTable, Creates, Saved
  <1>8. ASSUME NEW s \in Server, CopyConfigs(s)
        PROVE  Sound'
    <2>1. creation'[s].stage = "hazards" /\ CodeOf(s)' = CodeOf(s) /\ CodeOf(s) \in GameCode
      BY <1>1, <1>8, CreationProceeds, StageAfter DEF CopyConfigs, Creates, CreationStage, CodeOf
    <2>2. /\ configs'[TableOf[CodeOf(s)]] # "absent" /\ CodeOf(s) \in games' \ onboarded'
          /\ "fail" \notin mishaps' => configs'[TableOf[CodeOf(s)]] \in {"source", "tuned"}
      BY <1>1, <1>8, <2>1, TableIsConfigTable
      DEF CopyConfigs, Creates, OnboardingTypeOK, CreationSound, Saved
    <2>3. CreationSound(s)'
      BY <2>1, <2>2 DEF CreationSound
    <2> QED
      BY <1>4, <1>8, <2>3 DEF CopyConfigs, Creates, Saved
  <1>9. ASSUME NEW s \in Server, InitializeHazards(s)
        PROVE  Sound'
    <2>1. creation'[s].stage = "answer" /\ CodeOf(s)' = CodeOf(s)
      BY <1>1, <1>9, CreationProceeds, StageAfter
      DEF InitializeHazards, Creates, CreationStage, CodeOf
    <2>2. CreationSound(s)'
      BY <1>1, <1>9, <2>1 DEF CreationSound, InitializeHazards, Creates, Saved
    <2> QED
      BY <1>4, <1>9, <2>2 DEF InitializeHazards, Creates, Saved
  <1>10. ASSUME NEW s \in Server, AnswerCreation(s)
         PROVE  Sound'
    <2>1. /\ creation'[s] = Idle /\ \A t \in Server \ {s} : creation'[t] = creation[t]
          /\ onboarded' = onboarded \cup {CodeOf(s)} /\ Saved(s)
          /\ configs' = configs /\ mishaps' = mishaps
      BY <1>1, <1>10, CreationEnds DEF AnswerCreation, Creates, Saved
    <2>2. GameReady'
      BY <1>1, <1>10, <2>1 DEF GameReady, AnswerCreation, Creates, CreationSound
    <2>3. CreationSound(s)' /\ ~Saved(s)'
      BY <2>1 DEF CreationSound, Saved, Idle
    <2>4. \A t \in Server \ {s} : CreationSound(t)' /\ (Saved(t)' => Saved(t))
                                  /\ CodeOf(t)' = CodeOf(t)
      BY <1>1, <2>1, CreationSoundKept DEF OneCreation, Saved, CodeOf, CreationSound
    <2> QED
      BY <1>1, <2>2, <2>3, <2>4 DEF OneCreation
  <1>11. ASSUME NEW s \in Server, CreationFails(s) \/ Restart(s)
         PROVE  Sound'
    BY <1>1, <1>3, <1>11, CreationEnds DEF CreationFails, Restart, CreationStage, Idle
  <1>12. ASSUME NEW s \in Server, NEW c \in GameCode, CreateGame(s, c)
         PROVE  Sound'
    <2>1. /\ creation'[s].stage = "find"
          /\ \A t \in Server \ {s} : creation'[t] = creation[t]
      BY <1>1, <1>12 DEF CreateGame, OnboardingTypeOK
    <2> QED
      BY <1>3, <1>12, <2>1 DEF CreateGame, CreationStage
  <1>13. CASE UNCHANGED <<creation, onboarded>>
    <2>1. \A s \in Server : CreationSound(s)'
      BY <1>1, <1>13, CreationSoundKept DEF CreationSound
    <2> QED
      BY <1>1, <1>2, <1>13, <2>1 DEF OneCreation, Saved, CodeOf
  <1> QED
    BY <1>5, <1>6, <1>7, <1>8, <1>9, <1>10, <1>11, <1>12, <1>13
    DEF OnboardingNext, Onboard, DrawHazards, StartRound, EndRound, TuneConfig, HazardsExpire

LEMMA OnboardingInvAlways == OnboardingSpec => []OnboardingInv
  BY OnboardingInvInit, OnboardingInvNext, PTL DEF OnboardingSpec

\* The state of the games is well typed: their rows, config tables, caches, hazards, and
\* the creations under way (GameApiRoutesService).
THEOREM OnboardingTypeCorrect == OnboardingSpec => []OnboardingTypeOK
  BY OnboardingInvAlways, PTL DEF OnboardingInv

\* A game whose creation was answered with success has its table, and its configuration
\* unless the copy failed (createGameWithOnboarding logs that failure only).
THEOREM GamesReady == OnboardingSpec => []GameReady
  BY OnboardingInvAlways, PTL DEF OnboardingInv

\* What an operator tuned is reset by the creation of another game with the same table
\* only (copyGameConfigs), by no repeated or overlapping creation of its own game.
THEOREM TunedConfigsStay == OnboardingSpec => TunedStays
  <1>1. ASSUME OnboardingInv, [OnboardingNext]_onboardingVars, NEW t \in ConfigTable,
               configs[t] = "tuned", configs'[t] # "tuned"
        PROVE  \E s \in Server : Creates(s, "copy") /\ CodeOf(s) \notin onboarded
    <2>1. \/ UNCHANGED configs
          \/ \E s \in Server : CreateTable(s) \/ CopyConfigs(s)
          \/ \E c \in GameCode : TuneConfig(c)
      BY <1>1 DEF OnboardingNext, Onboard, FindGame, SaveGame,
             InitializeHazards, AnswerCreation, CreationFails, Restart, CreateGame, DrawHazards,
             StartRound, EndRound, HazardsExpire
    <2>2. PICK s \in Server : CopyConfigs(s)
      BY <1>1, <2>1 DEF CreateTable, TuneConfig, OnboardingInv, OnboardingTypeOK
    <2>3. Creates(s, "copy") /\ CodeOf(s) \notin onboarded
      BY <1>1, <2>2 DEF CopyConfigs, Creates, OnboardingInv, CreationSound, Saved
    <2> QED
      BY <2>3
  <1>2. OnboardingInv /\ [OnboardingNext]_onboardingVars =>
            [\A t \in ConfigTable :
                configs[t] = "tuned" /\ configs'[t] # "tuned" =>
                    \E s \in Server : Creates(s, "copy") /\ CodeOf(s) \notin onboarded]_onboardingVars
    BY <1>1
  <1> QED
    BY <1>2, OnboardingInvAlways, PTL DEF OnboardingSpec, TunedStays

-----------------------------------------------------------------------------
(* Without failures and changes, rounds are played as configured. *)

\* Where the table is filled and everything comes from it, so does what a server loads.
LEMMA LoadsSource ==
  ASSUME OnboardingTypeOK, NEW s \in Server, NEW c \in GameCode, NEW config \in Config,
         Loads(s, c, config), "fail" \notin mishaps, configs[TableOf[c]] = "source",
         \A r \in Server, d \in GameCode : cached[r][d] \in {"none", "source"}
  PROVE  /\ config = "source"
         /\ \A r \in Server, d \in GameCode : cached'[r][d] \in {"none", "source"}
  <1>1. config = "source"
    BY DEF Loads, Config
  <1> QED
    BY <1>1 DEF Loads, OnboardingTypeOK

LEMMA FromSourceNext ==
  ASSUME OnboardingInv, FromSource, [OnboardingNext]_onboardingVars
  PROVE  FromSource'
  <1>1. OnboardingTypeOK /\ mishaps' = mishaps
    BY ConfigsGrow DEF OnboardingInv
  <1> DEFINE Source ==
        /\ \A t \in ConfigTable : configs[t] # "tuned"
        /\ \A s \in Server, c \in GameCode : cached[s][c] \in {"none", "source"}
        /\ \A c \in GameCode :
              hazards[c] # NoHazards =>
                  configs[TableOf[c]] = "source" /\ hazards[c] = Hazards("source", "source")
        /\ \A p \in Player :
              round[p] # NoRound =>
                  configs[TableOf[round[p].code]] = "source" /\ round[p].coefficients = "source"
  <1> SUFFICES ASSUME "fail" \notin mishaps, "tune" \notin mishaps
               PROVE  Source'
    BY <1>1 DEF FromSource
  <1>2. Source
    BY DEF FromSource
  <1>3. \A c \in GameCode : TableOf[c] \in ConfigTable
    BY TableIsConfigTable
  <1>4. \A p \in Player : round[p] # NoRound => round[p].code \in GameCode
    BY <1>1 DEF OnboardingTypeOK
  <1>5. CASE UNCHANGED <<configs, cached, hazards, round>>
    BY <1>2, <1>5
  <1>6. ASSUME UNCHANGED <<cached, hazards, round>>,
               \A t \in ConfigTable :
                  configs'[t] # "tuned" /\ (configs[t] = "source" => configs'[t] = "source")
        PROVE  Source'
    BY <1>2, <1>3, <1>4, <1>6
  <1>7. ASSUME NEW s \in Server, CreateTable(s)
        PROVE  Source'
    BY <1>1, <1>2, <1>6, <1>7 DEF CreateTable, OnboardingTypeOK
  <1>8. ASSUME NEW s \in Server, CopyConfigs(s)
        PROVE  Source'
    BY <1>1, <1>2, <1>6, <1>8 DEF CopyConfigs, OnboardingTypeOK
  <1>9. ASSUME NEW s \in Server, InitializeHazards(s)
        PROVE  Source'
    <2>1. CASE UNCHANGED <<cached, hazards>>
      BY <1>5, <1>9, <2>1 DEF InitializeHazards
    <2>2. CASE ~UNCHANGED <<cached, hazards>>
      <3>1. PICK config \in Config :
                /\ Loads(s, CodeOf(s), config)
                /\ hazards' = [hazards EXCEPT ![CodeOf(s)] = Hazards(config, config)]
        BY <1>9, <2>2 DEF InitializeHazards
      <3>2. CodeOf(s) \in GameCode
        BY <1>1, <1>9, CreationHasGame DEF InitializeHazards, Creates, CreationStage
      <3>3. configs[TableOf[CodeOf(s)]] = "source"
        BY <1>2, <1>3, <1>9, <3>2
        DEF InitializeHazards, Creates, OnboardingInv, CreationSound
      <3>4. /\ config = "source"
            /\ \A r \in Server, d \in GameCode : cached'[r][d] \in {"none", "source"}
        BY <1>1, <1>2, <3>1, <3>2, <3>3, LoadsSource
      <3>5. \A c \in GameCode :
                hazards'[c] = IF c = CodeOf(s) THEN Hazards("source", "source") ELSE hazards[c]
        BY <1>1, <3>1, <3>4 DEF OnboardingTypeOK
      <3>6. configs' = configs /\ round' = round
        BY <1>9 DEF InitializeHazards
      <3> QED
        BY <1>2, <3>3, <3>4, <3>5, <3>6
    <2> QED
      BY <2>1, <2>2
  <1>10. ASSUME NEW s \in Server, NEW c \in PlayedGame, DrawHazards(s, c)
         PROVE  Source'
    <2>1. PICK config \in Config :
              /\ Loads(s, c, config)
              /\ hazards' = [hazards EXCEPT ![c] =
                    IF @ = NoHazards THEN Hazards(config, config) ELSE Hazards(@.next, config)]
      BY <1>10 DEF DrawHazards
    <2>2. c \in GameCode /\ c # NoCode
      BY OnboardingAssumption
    <2>3. configs[TableOf[c]] = "source"
      BY <1>2, <1>10, <2>2 DEF DrawHazards, NoRound
    <2>4. /\ config = "source"
          /\ \A r \in Server, d \in GameCode : cached'[r][d] \in {"none", "source"}
      BY <1>1, <1>2, <2>1, <2>2, <2>3, LoadsSource
    <2>5. hazards[c] # NoHazards => hazards[c].next = "source"
      BY <1>2, <2>2 DEF Hazards
    <2>6. \A d \in GameCode :
              hazards'[d] = IF d = c THEN Hazards("source", "source") ELSE hazards[d]
      BY <1>1, <2>1, <2>4, <2>5 DEF OnboardingTypeOK
    <2>7. configs' = configs /\ round' = round
      BY <1>10 DEF DrawHazards
    <2> QED
      BY <1>2, <2>3, <2>4, <2>6, <2>7
  <1>11. ASSUME NEW p \in Player, NEW c \in PlayedGame, StartRound(p, c)
         PROVE  Source'
    <2>1. c \in GameCode
      BY OnboardingAssumption
    <2>2. configs[TableOf[c]] = "source"
      BY <1>2, <1>3, <1>11, <2>1 DEF StartRound
    <2>3. \A q \in Player :
              round'[q] = IF q = p THEN [code |-> c, coefficients |-> "source"] ELSE round[q]
      BY <1>1, <1>11, <2>2 DEF StartRound, OnboardingTypeOK
    <2> QED
      BY <1>2, <1>11, <2>2, <2>3 DEF StartRound
  <1>12. ASSUME NEW p \in Player, EndRound(p)
         PROVE  Source'
    <2>1. \A q \in Player : round'[q] = IF q = p THEN NoRound ELSE round[q]
      BY <1>1, <1>12 DEF EndRound, OnboardingTypeOK
    <2> QED
      BY <1>2, <1>12, <2>1 DEF EndRound
  <1>13. ASSUME NEW c \in PlayedGame, HazardsExpire(c)
         PROVE  Source'
    <2>1. \A d \in GameCode : hazards'[d] = IF d = c THEN NoHazards ELSE hazards[d]
      BY <1>1, <1>13 DEF HazardsExpire, OnboardingTypeOK
    <2> QED
      BY <1>2, <1>13, <2>1 DEF HazardsExpire
  <1>14. ASSUME NEW s \in Server, Restart(s)
         PROVE  Source'
    <2>1. \A r \in Server, d \in GameCode : cached'[r][d] \in {"none", cached[r][d]}
      BY <1>1, <1>14 DEF Restart, OnboardingTypeOK
    <2> QED
      BY <1>2, <1>14, <2>1 DEF Restart
  <1> QED
    BY <1>5, <1>7, <1>8, <1>9, <1>10, <1>11, <1>12, <1>13, <1>14
    DEF OnboardingNext, Onboard, FindGame, SaveGame, AnswerCreation, CreationFails, CreateGame,
        TuneConfig

\* Unless MySQL fails or a game is tuned, a round in play crosses hazards drawn by the
\* configuration its coefficients come from, on whichever server
\* (loadGameConfig, initializeHazards, rotateHazards against getBetConfig).
THEOREM RoundsPlayedAsConfigured == OnboardingSpec => []PlayedAsConfigured
  <1>1. OnboardingInit => FromSource
    BY DEF OnboardingInit, FromSource, Config
  <1>2. OnboardingInv /\ FromSource => PlayedAsConfigured
    <2> SUFFICES ASSUME OnboardingInv, FromSource, {"fail", "tune"} \cap mishaps = {},
                        NEW p \in Player, round[p] # NoRound
                 PROVE  hazards[round[p].code] \in
                            {NoHazards, Hazards(round[p].coefficients, round[p].coefficients)}
      BY DEF PlayedAsConfigured
    <2>1. round[p].code \in GameCode /\ round[p].coefficients = "source"
      BY DEF FromSource, OnboardingInv, OnboardingTypeOK
    <2> QED
      BY <2>1 DEF FromSource
  <1> QED
    BY <1>1, <1>2, FromSourceNext, OnboardingInvInit, OnboardingInvNext, PTL DEF OnboardingSpec

-----------------------------------------------------------------------------
(* All of them together *)

\* Each part does its own steps, and those of the others leave it as it is: what is proved
\* of a part holds when all are there.
THEOREM BackOfficeIsItsParts ==
  FairBackOfficeSpec => AccountsSpec /\ OnboardingSpec /\ CleanUpSpec /\ ReportsSpec
  <1>1. BackOfficeInit => AccountsInit /\ OnboardingInit /\ CleanUpInit /\ ReportsInit
    BY DEF BackOfficeInit
  <1>2. [BackOfficeNext]_backOfficeVars =>
           /\ [AccountsNext]_vars /\ [OnboardingNext]_onboardingVars
           /\ [CleanUpNext]_cleanUpVars /\ [ReportsNext]_reportVars
    BY DEF BackOfficeNext, backOfficeVars
  <1> QED
    BY <1>1, <1>2, PTL DEF FairBackOfficeSpec, AccountsSpec, OnboardingSpec, CleanUpSpec, ReportsSpec

\* The state of everything beside the rounds stays well typed.
THEOREM BackOfficeTypeCorrect == FairBackOfficeSpec => []BackOfficeTypeOK
  <1>1. BackOfficeInit => part \in Part
    BY DEF BackOfficeInit
  <1>2. part \in Part /\ [BackOfficeNext]_backOfficeVars => (part \in Part)'
    BY DEF BackOfficeNext, backOfficeVars
  <1>3. part \in Part /\ AccountsTypeOK /\ OnboardingTypeOK /\ CleanUpTypeOK /\ ReportsTypeOK
           => BackOfficeTypeOK
    BY DEF BackOfficeTypeOK
  <1> QED
    BY <1>1, <1>2, <1>3, BackOfficeIsItsParts, AccountsTypeCorrect, OnboardingTypeCorrect,
       CleanUpTypeCorrect, ReportsTypeCorrect, PTL DEF FairBackOfficeSpec
=============================================================================
