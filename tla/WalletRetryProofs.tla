-------------------------- MODULE WalletRetryProofs --------------------------
(***************************************************************************)
(* Theorems about WalletRetry, for any number of transactions, jobs and    *)
(* pods, and for every API action and set of faults of a behaviour.        *)
(***************************************************************************)
EXTENDS WalletRetry, FiniteSetTheorems, TLAPS

JobTypes == RetryTypeOK /\ WorkersHaveJobs

-----------------------------------------------------------------------------
(* Jobs and workers *)

LEMMA JobFacts ==
  ASSUME RetryTypeOK, NEW j \in Job
  PROVE  /\ job[j] # NoJob => job[j] \in JobRow /\ job[j].tx \in Tx
         /\ job[j] = NoJob <=> job[j].status = "none"
  BY DEF RetryTypeOK, JobRow, NoJob

\* One worker moves and the others stay where they are.
LEMMA Moves ==
  ASSUME RetryTypeOK, NEW d \in Pod, NEW j \in Job, NEW label, WGoto(d, j, label)
  PROVE  /\ wpc'[d][j] = label
         /\ \A e \in Pod, k \in Job : e # d \/ k # j => wpc'[e][k] = wpc[e][k]
         /\ label \in WorkerPC => wpc' \in [Pod -> [Job -> WorkerPC]]
  BY DEF RetryTypeOK, WGoto

\* A job that is updated keeps its transaction.
LEMMA JobUpdate ==
  ASSUME RetryTypeOK, NEW j \in Job, NEW new \in JobRow,
         SetJob(j, new)
  PROVE  /\ job' \in [Job -> JobRow \cup {NoJob}]
         /\ job'[j] = new /\ job'[j] # NoJob
         /\ \A k \in Job \ {j} : job'[k] = job[k]
  <1>1. new # NoJob
    BY DEF JobRow, NoJob
  <1> QED
    BY <1>1 DEF RetryTypeOK, SetJob

\* The job that each step of a worker writes.
LEMMA WorkerWrites ==
  ASSUME JobTypes, NEW d \in Pod, NEW j \in Job,
         WorkerReset(d, j) \/ WorkerStart(d, j) \/ WorkerSucceed(d, j) \/ WorkerFail(d, j)
  PROVE  \E new \in JobRow :
            /\ SetJob(j, new)
            /\ new.tx = job[j].tx
            /\ WorkerReset(d, j) => new.status = "PENDING"
            /\ WorkerStart(d, j) => new.status = "PROCESSING" /\ ~new.stale
            /\ WorkerSucceed(d, j) => new.status = "SUCCESS"
            /\ WorkerFail(d, j) =>
                 \/ new.status = "PENDING" /\ ~new.due
                 \/ new.status = "EXPIRED"
  <1>1. job[j] \in JobRow /\ job[j] # NoJob
    BY JobFacts DEF JobTypes, WorkersHaveJobs, WorkerReset, WorkerStart, WorkerSucceed, WorkerFail
  <1>2. CASE WorkerReset(d, j)
    <2> DEFINE new == [job[j] EXCEPT !.status = "PENDING", !.stale = FALSE]
    <2>1. new \in JobRow /\ new.tx = job[j].tx /\ new.status = "PENDING"
      BY <1>1 DEF JobRow
    <2>2. SetJob(j, new) /\ ~WorkerStart(d, j) /\ ~WorkerSucceed(d, j) /\ ~WorkerFail(d, j)
      BY <1>2 DEF WorkerReset, WorkerStart, WorkerSucceed, WorkerFail
    <2> HIDE DEF new
    <2> QED
      BY <2>1, <2>2
  <1>3. CASE WorkerStart(d, j)
    <2> DEFINE new == [job[j] EXCEPT !.status = "PROCESSING", !.stale = FALSE]
    <2>1. new \in JobRow /\ new.tx = job[j].tx /\ new.status = "PROCESSING" /\ ~new.stale
      BY <1>1 DEF JobRow
    <2>2. SetJob(j, new) /\ ~WorkerReset(d, j) /\ ~WorkerSucceed(d, j) /\ ~WorkerFail(d, j)
      BY <1>3 DEF WorkerReset, WorkerStart, WorkerSucceed, WorkerFail
    <2> HIDE DEF new
    <2> QED
      BY <2>1, <2>2
  <1>4. CASE WorkerSucceed(d, j)
    <2> DEFINE new == [job[j] EXCEPT !.status = "SUCCESS", !.due = FALSE, !.stale = FALSE,
                                     !.late = FALSE]
    <2>1. new \in JobRow /\ new.tx = job[j].tx /\ new.status = "SUCCESS"
      BY <1>1 DEF JobRow
    <2>2. SetJob(j, new) /\ ~WorkerReset(d, j) /\ ~WorkerStart(d, j) /\ ~WorkerFail(d, j)
      BY <1>4 DEF WorkerReset, WorkerStart, WorkerSucceed, WorkerFail
    <2> HIDE DEF new
    <2> QED
      BY <2>1, <2>2
  <1>5. CASE WorkerFail(d, j)
    <2> DEFINE next == seen[d][j] + 1
               again == [job[j] EXCEPT !.status = "PENDING", !.due = FALSE, !.stale = FALSE,
                                       !.attempt = IF next \in Attempt THEN next ELSE @]
               over == [job[j] EXCEPT !.status = "EXPIRED", !.due = FALSE, !.stale = FALSE,
                                      !.late = FALSE]
    <2>1. again \in JobRow /\ again.tx = job[j].tx /\ again.status = "PENDING" /\ ~again.due
      BY <1>1 DEF JobRow
    <2>2. over \in JobRow /\ over.tx = job[j].tx /\ over.status = "EXPIRED"
      BY <1>1 DEF JobRow
    <2>3. /\ SetJob(j, again) \/ SetJob(j, over)
          /\ ~WorkerReset(d, j) /\ ~WorkerStart(d, j) /\ ~WorkerSucceed(d, j)
      BY <1>5 DEF WorkerReset, WorkerStart, WorkerSucceed, WorkerFail
    <2> HIDE DEF again, over
    <2> QED
      BY <2>1, <2>2, <2>3
  <1> QED
    BY <1>2, <1>3, <1>4, <1>5

\* What time does to a job.
LEMMA TimeWrites ==
  ASSUME JobTypes, NEW j \in Job, Time(j)
  PROVE  \E new \in JobRow :
            /\ SetJob(j, new) /\ job[j] # NoJob
            /\ new.tx = job[j].tx /\ new.status = job[j].status
            /\ \/ new.due = job[j].due \/ JobDue(j)
            /\ \/ new.stale = job[j].stale \/ JobStale(j)
  <1>1. job[j] \in JobRow /\ job[j] # NoJob
    BY JobFacts DEF JobTypes, Time, JobDue, JobLate, JobStale
  <1>2. CASE JobDue(j)
    <2> DEFINE new == [job[j] EXCEPT !.due = TRUE]
    <2>1. /\ new \in JobRow /\ new.tx = job[j].tx /\ new.status = job[j].status
          /\ new.stale = job[j].stale
      BY <1>1 DEF JobRow
    <2>2. SetJob(j, new)
      BY <1>2 DEF JobDue
    <2> HIDE DEF new
    <2> QED
      BY <1>1, <1>2, <2>1, <2>2
  <1>3. CASE JobLate(j)
    <2> DEFINE new == [job[j] EXCEPT !.late = TRUE]
    <2>1. /\ new \in JobRow /\ new.tx = job[j].tx /\ new.status = job[j].status
          /\ new.stale = job[j].stale /\ new.due = job[j].due
      BY <1>1 DEF JobRow
    <2>2. SetJob(j, new)
      BY <1>3 DEF JobLate
    <2> HIDE DEF new
    <2> QED
      BY <1>1, <2>1, <2>2
  <1>4. CASE JobStale(j)
    <2> DEFINE new == [job[j] EXCEPT !.stale = TRUE]
    <2>1. /\ new \in JobRow /\ new.tx = job[j].tx /\ new.status = job[j].status
          /\ new.due = job[j].due
      BY <1>1 DEF JobRow
    <2>2. SetJob(j, new)
      BY <1>4 DEF JobStale
    <2> HIDE DEF new
    <2> QED
      BY <1>1, <1>4, <2>1, <2>2
  <1> QED
    BY <1>2, <1>3, <1>4 DEF Time

\* createRetryJob inserts a row that is pending and not yet due.
LEMMA InsertWrites ==
  ASSUME JobTypes, NEW t \in Tx, CreateInsert(t)
  PROVE  \E j \in Job, new \in JobRow :
            /\ job[j] = NoJob /\ SetJob(j, new)
            /\ new.tx = t /\ new.status = "PENDING" /\ ~new.due
  <1> DEFINE new == [status |-> "PENDING", tx |-> t, attempt |-> 0,
                     due |-> FALSE, stale |-> FALSE, late |-> FALSE]
  <1>1. new \in JobRow /\ new.tx = t /\ new.status = "PENDING" /\ ~new.due
    BY DEF JobRow, Attempt, LastFixed
  <1>2. PICK j \in Job : job[j] = NoJob /\ SetJob(j, new)
    BY DEF CreateInsert, SetJob
  <1> HIDE DEF new
  <1> QED
    BY <1>1, <1>2

-----------------------------------------------------------------------------
(* Types *)

LEMMA MarkedRows ==
  ASSUME RetryTypeOK, NEW bets, NEW status \in RowStatus,
         MarkRows(bets, status)
  PROVE  /\ row' \in [Bet -> RowStatus]
         /\ \A b \in Bet : row'[b] = IF b \in bets THEN status ELSE row[b]
  BY DEF RetryTypeOK, MarkRows

\* A retry that the agent accepts writes its result to one row, or nothing.
LEMMA RecordWrites ==
  ASSUME NEW d \in Pod, NEW j \in Job, WorkerRecord(d, j)
  PROVE  MarkRows({job[j].tx}, Result) \/ UNCHANGED row
  BY DEF WorkerRecord, RecordSettlement

LEMMA ThrowTypes ==
  ASSUME RetryTypeOK, NEW t \in Tx, CallThrows(t)
  PROVE  /\ row' \in [Bet -> RowStatus]
         /\ calls' \in [Tx -> Nat] /\ finding' \in [Tx -> Nat]
  <1>1. row' \in [Bet -> RowStatus]
    BY MarkedRows DEF CallThrows, RowStatus
  <1>2. calls \in [Tx -> Nat] /\ finding \in [Tx -> Nat]
    BY DEF RetryTypeOK
  <1>3. calls' \in [Tx -> Nat]
    BY <1>2 DEF CallThrows, AgentApplies
  <1>4. \E n \in {1, 2} : finding' = [finding EXCEPT ![t] = @ + n]
    BY DEF CallThrows
  <1>5. finding' \in [Tx -> Nat]
    BY <1>2, <1>4
  <1> QED
    BY <1>1, <1>3, <1>5

LEMMA FirstTypes ==
  ASSUME JobTypes, NEW t \in Tx, FirstSettle(t) \/ FirstRefund(t)
  PROVE  JobTypes'
  <1>1. row' \in [Bet -> RowStatus]
        /\ calls' \in [Tx -> Nat] /\ finding' \in [Tx -> Nat]
    BY ThrowTypes, MarkedRows
       DEF JobTypes, RetryTypeOK, FirstSettle, FirstRefund, AgentApplies, RecordSettlement,
           RowStatus
  <1> QED
    BY <1>1 DEF JobTypes, RetryTypeOK, WorkersHaveJobs, FirstSettle, FirstRefund, given,
                runVars, workVars

LEMMA CreateTypes ==
  ASSUME JobTypes, NEW t \in Tx, Create(t) \/ CreateFails(t)
  PROVE  JobTypes'
  <1> USE DEF JobTypes, RetryTypeOK, agentVars, given, runVars, workVars
  <1>1. CASE CreateFind(t) \/ CreateFails(t)
    <2>1. finding' \in [Tx -> Nat] /\ inserting' \in [Tx -> Nat] /\ job' = job
      BY <1>1 DEF CreateFind, CreateFails
    <2> QED
      BY <1>1, <2>1 DEF CreateFind, CreateFails, WorkersHaveJobs
  <1>2. CASE CreateInsert(t)
    <2>1. PICK j \in Job, new \in JobRow : SetJob(j, new) /\ job[j] = NoJob
      BY <1>2, InsertWrites
    <2>2. /\ job' \in [Job -> JobRow \cup {NoJob}]
          /\ \A k \in Job : job[k] # NoJob => job'[k] # NoJob
      BY <2>1, JobUpdate
    <2>3. inserting' \in [Tx -> Nat]
      BY <1>2 DEF CreateInsert
    <2> QED
      BY <1>2, <2>2, <2>3 DEF CreateInsert, WorkersHaveJobs
  <1> QED
    BY <1>1, <1>2 DEF Create

LEMMA RunTypes ==
  ASSUME JobTypes, NEW d \in Pod, RunStart(d) \/ Run(d) \/ Crash(d)
  PROVE  JobTypes'
  <1> USE RetryAssumption
      DEF JobTypes, RetryTypeOK, WorkersHaveJobs, agentVars, queueVars, given, workVars, runVars
  <1>1. CASE RunStart(d) \/ RunDone(d)
    <2>1. ppc' \in [Pod -> {"idle", "query", "run"}] /\ schedLock' \in Pod \cup {Free}
      BY <1>1 DEF RunStart, RunDone
    <2> QED
      BY <1>1, <2>1 DEF RunStart, RunDone
  <1>2. CASE RunQuery(d)
    <2>1. PICK due \in SUBSET Job :
             /\ \A j \in due : Due(j)
             /\ wpc' = [wpc EXCEPT ![d] = [j \in Job |-> IF j \in due THEN "todo" ELSE "none"]]
             /\ seen' = [seen EXCEPT ![d] =
                           [j \in Job |-> IF j \in due THEN job[j].attempt ELSE 0]]
      BY <1>2 DEF RunQuery
    <2>2. \A j \in due : job[j] # NoJob /\ job[j].attempt \in Attempt
      BY <2>1 DEF Due, JobRow
    <2>3. 0 \in Attempt
      BY DEF Attempt, LastFixed
    <2>4. wpc' \in [Pod -> [Job -> WorkerPC]] /\ seen' \in [Pod -> [Job -> Attempt]]
      BY <2>1, <2>2, <2>3 DEF WorkerPC
    <2>5. \A e \in Pod, j \in Job : wpc'[e][j] # "none" => job[j] # NoJob
      BY <2>1, <2>2
    <2> QED
      BY <1>2, <2>4, <2>5 DEF RunQuery
  <1>3. CASE Crash(d)
    <2>1. 0 \in Attempt /\ "none" \in WorkerPC
      BY DEF Attempt, LastFixed, WorkerPC
    <2>2. wpc' \in [Pod -> [Job -> WorkerPC]] /\ seen' \in [Pod -> [Job -> Attempt]]
      BY <1>3, <2>1 DEF Crash
    <2>3. crashes' \in 0 .. MaxCrashes
      BY <1>3 DEF Crash
    <2>4. \A e \in Pod, j \in Job : wpc'[e][j] # "none" => job[j] # NoJob
      BY <1>3 DEF Crash
    <2> QED
      BY <1>3, <2>2, <2>3, <2>4 DEF Crash
  <1> QED
    BY <1>1, <1>2, <1>3 DEF Run

LEMMA WorkerTypes ==
  ASSUME JobTypes, NEW d \in Pod, NEW j \in Job, Worker(d, j)
  PROVE  JobTypes'
  <1> USE DEF JobTypes, RetryTypeOK, agentVars, queueVars, given, runVars
  <1>1. wpc[d][j] # "none"
    BY DEF Worker, WorkerLock, WorkerCheck, WorkerReset, WorkerStart, WorkerCall, WorkerRecord,
           WorkerSucceed, WorkerFail, WorkerThrows, WorkerUnlock
  <1>2. job[j] # NoJob /\ job[j].tx \in Tx
    BY <1>1, JobFacts DEF WorkersHaveJobs
  <1>3. \E label \in WorkerPC : WGoto(d, j, label)
    BY DEF Worker, WorkerLock, WorkerCheck, WorkerReset, WorkerStart, WorkerCall, WorkerRecord,
           WorkerSucceed, WorkerFail, WorkerThrows, WorkerUnlock, WorkerEnds, WorkerPC
  <1>4. /\ wpc' \in [Pod -> [Job -> WorkerPC]]
        /\ \A e \in Pod, k \in Job : wpc'[e][k] # "none" => wpc[e][k] # "none"
    <2>1. PICK label \in WorkerPC : WGoto(d, j, label)
      BY <1>3
    <2> HIDE DEF RetryTypeOK
    <2> QED
      BY <1>1, <2>1, Moves
  <1>5. 0 \in Attempt
    BY DEF Attempt, LastFixed
  <1>6. CASE \/ WorkerLock(d, j) \/ WorkerCheck(d, j) \/ WorkerThrows(d, j)
             \/ WorkerUnlock(d, j)
    <2> DEFINE t == job[j].tx
    <2>1. jobLock' \in [Tx -> (Pod \X Job) \cup {Free}]
      <3>1. <<d, j>> \in Pod \X Job
        OBVIOUS
      <3>2. \/ jobLock' = jobLock
            \/ jobLock' = [jobLock EXCEPT ![t] = <<d, j>>]
            \/ jobLock' = [jobLock EXCEPT ![t] = Free]
        BY <1>6 DEF WorkerLock, WorkerCheck, WorkerThrows, WorkerUnlock
      <3>3. jobLock \in [Tx -> (Pod \X Job) \cup {Free}]
        OBVIOUS
      <3> HIDE DEF RetryTypeOK, t
      <3> QED
        BY <3>1, <3>2, <3>3
    <2>2. seen' = seen \/ seen' = [seen EXCEPT ![d][j] = 0]
      BY <1>6 DEF WorkerLock, WorkerCheck, WorkerThrows, WorkerUnlock, WorkerEnds
    <2>3. seen' \in [Pod -> [Job -> Attempt]]
      <3>1. seen \in [Pod -> [Job -> Attempt]]
        OBVIOUS
      <3> HIDE DEF RetryTypeOK
      <3> QED
        BY <1>5, <2>2, <3>1
    <2> QED
      BY <1>4, <1>6, <2>1, <2>3
         DEF WorkerLock, WorkerCheck, WorkerThrows, WorkerUnlock, WorkersHaveJobs
  <1>7. CASE WorkerReset(d, j) \/ WorkerStart(d, j) \/ WorkerSucceed(d, j) \/ WorkerFail(d, j)
    <2>1. PICK new \in JobRow : SetJob(j, new)
      BY <1>7, WorkerWrites
    <2>2. /\ job' \in [Job -> JobRow \cup {NoJob}]
          /\ \A k \in Job : job[k] # NoJob => job'[k] # NoJob
      BY <2>1, JobUpdate
    <2> QED
      BY <1>4, <1>7, <2>2 DEF WorkerReset, WorkerStart, WorkerSucceed, WorkerFail, WorkersHaveJobs
  <1>8. CASE WorkerCall(d, j) \/ WorkerRecord(d, j)
    <2>1. /\ row' \in [Bet -> RowStatus]
          /\ calls' \in [Tx -> Nat] /\ finding' \in [Tx -> Nat]
      <3>1. CASE WorkerCall(d, j)
        BY <1>2, <3>1, ThrowTypes DEF WorkerCall, AgentApplies
      <3>2. CASE WorkerRecord(d, j)
        BY <3>2, MarkedRows, RecordWrites DEF WorkerRecord, Result, RowStatus
      <3> QED
        BY <1>8, <3>1, <3>2
    <2> QED
      BY <1>4, <1>8, <2>1 DEF WorkerCall, WorkerRecord, WorkersHaveJobs
  <1> QED
    BY <1>6, <1>7, <1>8 DEF Worker

LEMMA OtherTypes ==
  ASSUME JobTypes,
         \/ \E j \in Job : Time(j)
         \/ \E t \in Tx : JobLockExpires(t)
         \/ SchedLockExpires
         \/ UNCHANGED vars
  PROVE  JobTypes'
  <1> USE DEF JobTypes, RetryTypeOK, agentVars, queueVars, given, runVars, workVars
  <1>1. ASSUME NEW j \in Job, Time(j) PROVE JobTypes'
    <2>1. PICK new \in JobRow : SetJob(j, new) /\ job[j] # NoJob
      BY <1>1, TimeWrites
    <2>2. /\ job' \in [Job -> JobRow \cup {NoJob}]
          /\ \A k \in Job : job[k] # NoJob => job'[k] # NoJob
      BY <2>1, JobUpdate
    <2> QED
      BY <1>1, <2>2 DEF Time, JobDue, JobLate, JobStale, WorkersHaveJobs
  <1>2. ASSUME NEW t \in Tx, JobLockExpires(t) PROVE JobTypes'
    BY <1>2 DEF JobLockExpires, WorkersHaveJobs
  <1>3. CASE SchedLockExpires
    BY <1>3 DEF SchedLockExpires, WorkersHaveJobs
  <1>4. CASE UNCHANGED vars
    BY <1>4 DEF vars, WorkersHaveJobs
  <1> QED
    BY <1>1, <1>2, <1>3, <1>4

LEMMA TypesInitial == RetryInit => JobTypes
  <1> SUFFICES ASSUME RetryInit PROVE JobTypes
    OBVIOUS
  <1>1. [apiAction |-> apiAction, lostRounds |-> lostRounds, faults |-> faults] \in Scenarios
    <2>1. PICK s \in Scenarios :
             apiAction = s.apiAction /\ lostRounds = s.lostRounds /\ faults = s.faults
      BY DEF RetryInit
    <2>2. s = [apiAction |-> s.apiAction, lostRounds |-> s.lostRounds, faults |-> s.faults]
      BY RetryAssumption
    <2> QED
      BY <2>1, <2>2
  <1> QED
    BY <1>1, RetryAssumption
       DEF RetryInit, JobTypes, RetryTypeOK, WorkersHaveJobs, WorkerPC, Attempt, LastFixed,
           RowStatus

LEMMA TypesStep == JobTypes /\ [RetryNext]_vars => JobTypes'
  BY FirstTypes, CreateTypes, RunTypes, WorkerTypes, OtherTypes DEF RetryNext

LEMMA TypesInvariant == RetrySpec => []JobTypes
  BY TypesInitial, TypesStep, PTL DEF RetrySpec

\* Type correctness of the retry queue: a worker never works on a job that is not there.
THEOREM RetryTypeCorrect == RetrySpec => []RetryTypeOK
  <1>1. JobTypes => RetryTypeOK
    BY DEF JobTypes
  <1> QED
    BY <1>1, TypesInvariant, PTL

-----------------------------------------------------------------------------
(* What a step changes *)

LEMMA GivenStays == [RetryNext]_vars => UNCHANGED given
  <1> SUFFICES ASSUME [RetryNext]_vars PROVE UNCHANGED given
    OBVIOUS
  <1> USE DEF agentVars
  <1>1. ASSUME NEW t \in Tx,
               FirstSettle(t) \/ FirstRefund(t) \/ Create(t) \/ CreateFails(t) \/ JobLockExpires(t)
        PROVE  UNCHANGED given
    BY <1>1 DEF FirstSettle, FirstRefund, Create, CreateFind, CreateInsert, CreateFails,
                JobLockExpires
  <1>2. ASSUME NEW d \in Pod, RunStart(d) \/ Run(d) \/ Crash(d) PROVE UNCHANGED given
    BY <1>2 DEF RunStart, Run, RunQuery, RunDone, Crash
  <1>3. ASSUME NEW d \in Pod, NEW j \in Job, Worker(d, j) PROVE UNCHANGED given
    BY <1>3 DEF Worker, WorkerLock, WorkerCheck, WorkerReset, WorkerStart, WorkerCall,
                WorkerRecord, WorkerSucceed, WorkerFail, WorkerThrows, WorkerUnlock
  <1>4. ASSUME NEW j \in Job, Time(j) PROVE UNCHANGED given
    BY <1>4 DEF Time, JobDue, JobLate, JobStale
  <1>5. CASE SchedLockExpires \/ UNCHANGED vars
    BY <1>5 DEF SchedLockExpires, vars, given
  <1> QED
    BY <1>1, <1>2, <1>3, <1>4, <1>5 DEF RetryNext

\* The steps that write a job.
JobWrite(d, j) ==
    WorkerReset(d, j) \/ WorkerStart(d, j) \/ WorkerSucceed(d, j) \/ WorkerFail(d, j)

LEMMA JobWriters ==
  ASSUME [RetryNext]_vars
  PROVE  \/ job' = job
         \/ \E t \in Tx : CreateInsert(t)
         \/ \E d \in Pod, j \in Job : JobWrite(d, j)
         \/ \E j \in Job : Time(j)
  <1> USE DEF queueVars
  <1>1. ASSUME NEW t \in Tx,
               FirstSettle(t) \/ FirstRefund(t) \/ CreateFind(t) \/ CreateFails(t)
                 \/ JobLockExpires(t)
        PROVE  job' = job
    BY <1>1 DEF FirstSettle, FirstRefund, CreateFind, CreateFails, JobLockExpires
  <1>2. ASSUME NEW d \in Pod, RunStart(d) \/ Run(d) \/ Crash(d) PROVE job' = job
    BY <1>2 DEF RunStart, Run, RunQuery, RunDone, Crash
  <1>3. ASSUME NEW d \in Pod, NEW j \in Job, Worker(d, j), ~JobWrite(d, j) PROVE job' = job
    BY <1>3 DEF Worker, JobWrite, WorkerLock, WorkerCheck, WorkerCall, WorkerRecord,
                WorkerThrows, WorkerUnlock
  <1>4. CASE SchedLockExpires \/ UNCHANGED vars
    BY <1>4 DEF SchedLockExpires, vars
  <1> QED
    BY <1>1, <1>2, <1>3, <1>4 DEF RetryNext, Create

\* A job never goes away and never changes its transaction.
LEMMA JobsStay ==
  ASSUME JobTypes, [RetryNext]_vars, NEW k \in Job, job[k] # NoJob
  PROVE  job'[k] # NoJob /\ job'[k].tx = job[k].tx
  <1>0. RetryTypeOK
    BY DEF JobTypes
  <1>1. ASSUME NEW j \in Job, NEW new \in JobRow, SetJob(j, new),
               job[j] = NoJob \/ new.tx = job[j].tx
        PROVE  job'[k] # NoJob /\ job'[k].tx = job[k].tx
    BY <1>0, <1>1, JobUpdate
  <1>2. ASSUME NEW t \in Tx, CreateInsert(t)
        PROVE  job'[k] # NoJob /\ job'[k].tx = job[k].tx
    BY <1>1, <1>2, InsertWrites
  <1>3. ASSUME NEW d \in Pod, NEW j \in Job, JobWrite(d, j)
        PROVE  job'[k] # NoJob /\ job'[k].tx = job[k].tx
    <2>1. PICK new \in JobRow : SetJob(j, new) /\ new.tx = job[j].tx
      BY <1>3, WorkerWrites DEF JobWrite
    <2> QED
      BY <1>1, <2>1
  <1>4. ASSUME NEW j \in Job, Time(j)
        PROVE  job'[k] # NoJob /\ job'[k].tx = job[k].tx
    <2>1. PICK new \in JobRow : SetJob(j, new) /\ new.tx = job[j].tx
      BY <1>4, TimeWrites
    <2> QED
      BY <1>1, <2>1
  <1> QED
    BY <1>2, <1>3, <1>4, JobWriters

\* A worker moves by its own steps, by those of its run, or not at all.
LEMMA WorkerMoves ==
  ASSUME JobTypes, [RetryNext]_vars, NEW e \in Pod, NEW k \in Job, wpc'[e][k] # wpc[e][k]
  PROVE  \/ Worker(e, k)
         \/ RunQuery(e) /\ wpc'[e][k] \in {"none", "todo"} /\ (wpc'[e][k] = "todo" => Due(k))
         \/ Crash(e) /\ wpc'[e][k] = "none"
  <1> USE DEF JobTypes, RetryTypeOK, workVars
  <1>1. ASSUME NEW t \in Tx,
               FirstSettle(t) \/ FirstRefund(t) \/ Create(t) \/ CreateFails(t) \/ JobLockExpires(t)
        PROVE  FALSE
    BY <1>1 DEF FirstSettle, FirstRefund, Create, CreateFind, CreateInsert, CreateFails,
                JobLockExpires
  <1>2. ASSUME NEW d \in Pod, RunStart(d) \/ RunDone(d) PROVE FALSE
    BY <1>2 DEF RunStart, RunDone
  <1>3. ASSUME NEW d \in Pod, RunQuery(d)
        PROVE  d = e /\ wpc'[e][k] \in {"none", "todo"} /\ (wpc'[e][k] = "todo" => Due(k))
    <2>1. PICK due \in SUBSET Job :
             /\ \A j \in due : Due(j)
             /\ wpc' = [wpc EXCEPT ![d] = [j \in Job |-> IF j \in due THEN "todo" ELSE "none"]]
      BY <1>3 DEF RunQuery
    <2> QED
      BY <2>1
  <1>4. ASSUME NEW d \in Pod, Crash(d) PROVE d = e /\ wpc'[e][k] = "none"
    BY <1>4 DEF Crash
  <1>5. ASSUME NEW d \in Pod, NEW j \in Job, Worker(d, j) PROVE d = e /\ j = k
    <2>1. \E label : WGoto(d, j, label)
      BY <1>5 DEF Worker, WorkerLock, WorkerCheck, WorkerReset, WorkerStart, WorkerCall,
                  WorkerRecord, WorkerSucceed, WorkerFail, WorkerThrows, WorkerUnlock, WorkerEnds
    <2> QED
      BY <2>1, Moves
  <1>6. ASSUME NEW j \in Job, Time(j) PROVE FALSE
    BY <1>6 DEF Time, JobDue, JobLate, JobStale
  <1>7. ~(SchedLockExpires \/ UNCHANGED vars)
    BY DEF SchedLockExpires, vars
  <1> QED
    BY <1>1, <1>2, <1>3, <1>4, <1>5, <1>6, <1>7 DEF RetryNext, Run

LEMMA LockWriters ==
  ASSUME [RetryNext]_vars
  PROVE  \/ jobLock' = jobLock
         \/ \E t \in Tx : JobLockExpires(t)
         \/ \E d \in Pod, j \in Job : WorkerLock(d, j) \/ WorkerUnlock(d, j)
  <1> USE DEF workVars
  <1>1. ASSUME NEW t \in Tx,
               FirstSettle(t) \/ FirstRefund(t) \/ Create(t) \/ CreateFails(t)
        PROVE  jobLock' = jobLock
    BY <1>1 DEF FirstSettle, FirstRefund, Create, CreateFind, CreateInsert, CreateFails
  <1>2. ASSUME NEW d \in Pod, RunStart(d) \/ Run(d) \/ Crash(d) PROVE jobLock' = jobLock
    BY <1>2 DEF RunStart, Run, RunQuery, RunDone, Crash
  <1>3. ASSUME NEW d \in Pod, NEW j \in Job, Worker(d, j), ~WorkerLock(d, j), ~WorkerUnlock(d, j)
        PROVE  jobLock' = jobLock
    BY <1>3 DEF Worker, WorkerCheck, WorkerReset, WorkerStart, WorkerCall, WorkerRecord,
                WorkerSucceed, WorkerFail, WorkerThrows
  <1>4. ASSUME NEW j \in Job, Time(j) PROVE jobLock' = jobLock
    BY <1>4 DEF Time, JobDue, JobLate, JobStale
  <1>5. CASE SchedLockExpires \/ UNCHANGED vars
    BY <1>5 DEF SchedLockExpires, vars
  <1> QED
    BY <1>1, <1>2, <1>3, <1>4, <1>5 DEF RetryNext

\* What each step of a worker finds and where it goes.
LEMMA WorkerPaths ==
  ASSUME RetryTypeOK, NEW d \in Pod, NEW j \in Job, Worker(d, j)
  PROVE  LET from == wpc[d][j]
             to   == wpc'[d][j]
         IN  /\ from # "none" /\ from # to
             /\ from = "todo" => WorkerLock(d, j) /\ to \in {"check", "none"}
             /\ from = "unlock" => WorkerUnlock(d, j) /\ to = "none"
             /\ to = "todo" => FALSE
             /\ to = "check" => from = "todo"
             /\ to = "reset" => from = "check" /\ WorkerCheck(d, j)
             /\ to = "start" => WorkerReset(d, j) \/ (from = "check" /\ WorkerCheck(d, j))
             /\ to = "call" => WorkerStart(d, j)
             /\ to = "record" => WorkerCall(d, j)
             /\ to = "succeed" => WorkerRecord(d, j)
             /\ to = "fail" => WorkerThrows(d, j) \/ WorkerCall(d, j)
             /\ JobWrite(d, j) => from \in Attempting
             /\ WorkerSucceed(d, j) \/ WorkerFail(d, j) => to = "unlock"
  <1> DEFINE from == wpc[d][j]
             to   == wpc'[d][j]
  <1>1. CASE WorkerLock(d, j)
    <2>1. from = "todo" /\ to \in {"check", "none"}
      BY <1>1, Moves DEF WorkerLock, WorkerEnds
    <2> QED
      BY <1>1, <2>1 DEF JobWrite, WorkerReset, WorkerStart, WorkerSucceed, WorkerFail
  <1>2. CASE WorkerCheck(d, j)
    <2>1. from = "check" /\ to \in {"start", "reset", "unlock"}
      BY <1>2, Moves DEF WorkerCheck
    <2> QED
      BY <1>2, <2>1 DEF JobWrite, WorkerReset, WorkerStart, WorkerSucceed, WorkerFail
  <1>3. CASE WorkerReset(d, j)
    <2>1. from = "reset" /\ to = "start"
      BY <1>3, Moves DEF WorkerReset
    <2> QED
      BY <1>3, <2>1 DEF Attempting, WorkerSucceed, WorkerFail
  <1>4. CASE WorkerStart(d, j)
    <2>1. from = "start" /\ to = "call"
      BY <1>4, Moves DEF WorkerStart
    <2> QED
      BY <1>4, <2>1 DEF Attempting, WorkerSucceed, WorkerFail
  <1>5. CASE WorkerCall(d, j)
    <2>1. from = "call" /\ to \in {"record", "fail"}
      BY <1>5, Moves DEF WorkerCall
    <2> QED
      BY <1>5, <2>1 DEF JobWrite, WorkerReset, WorkerStart, WorkerSucceed, WorkerFail
  <1>6. CASE WorkerRecord(d, j)
    <2>1. from = "record" /\ to = "succeed"
      BY <1>6, Moves DEF WorkerRecord
    <2> QED
      BY <1>6, <2>1 DEF JobWrite, WorkerReset, WorkerStart, WorkerSucceed, WorkerFail
  <1>7. CASE WorkerSucceed(d, j) \/ WorkerFail(d, j)
    <2>1. from \in {"succeed", "fail"} /\ to = "unlock"
      BY <1>7, Moves DEF WorkerSucceed, WorkerFail
    <2> QED
      BY <1>7, <2>1 DEF Attempting
  <1>8. CASE WorkerThrows(d, j)
    <2>1. \/ from \in {"check", "reset", "start", "succeed"} /\ to = "fail"
          \/ from = "fail" /\ to = "unlock"
      BY <1>8, Moves DEF WorkerThrows
    <2>2. WorkerSucceed(d, j) \/ WorkerFail(d, j) => to = "unlock"
      BY Moves DEF WorkerSucceed, WorkerFail
    <2>3. JobWrite(d, j) => from \in Attempting
      BY DEF Attempting, JobWrite, WorkerReset, WorkerStart, WorkerSucceed, WorkerFail
    <2> HIDE DEF from, to
    <2> QED
      BY <1>8, <2>1, <2>2, <2>3 DEF from, to
  <1>9. CASE WorkerUnlock(d, j)
    <2>1. from = "unlock" /\ to = "none"
      BY <1>9, Moves DEF WorkerUnlock, WorkerEnds
    <2> QED
      BY <1>9, <2>1 DEF JobWrite, WorkerReset, WorkerStart, WorkerSucceed, WorkerFail
  <1> QED
    BY <1>1, <1>2, <1>3, <1>4, <1>5, <1>6, <1>7, <1>8, <1>9 DEF Worker

-----------------------------------------------------------------------------
(* Jobs that have ended *)

LEMMA LocksStep ==
  ASSUME JobTypes, "slowjob" \notin faults, WorkersHoldLocks, [RetryNext]_vars
  PROVE  WorkersHoldLocks'
  <1> SUFFICES ASSUME NEW e \in Pod, NEW k \in Job, wpc'[e][k] \notin {"none", "todo"}
               PROVE  jobLock'[job'[k].tx] = <<e, k>>
    BY DEF WorkersHoldLocks
  <1> DEFINE t == job[k].tx
  <1>0. RetryTypeOK /\ Free \notin Pod \X Job
    BY RetryAssumption DEF JobTypes
  <1>1. wpc[e][k] # "none" /\ (wpc'[e][k] # wpc[e][k] => Worker(e, k))
    BY <1>0, WorkerMoves, WorkerPaths
  <1>2. t \in Tx /\ job'[k].tx = t
    BY <1>0, <1>1, JobFacts, JobsStay DEF JobTypes, WorkersHaveJobs
  <1>3. CASE wpc[e][k] = "todo"
    <2>1. WorkerLock(e, k) /\ wpc'[e][k] = "check"
      BY <1>0, <1>1, <1>3, WorkerPaths
    <2>2. jobLock' = [jobLock EXCEPT ![t] = <<e, k>>]
      BY <1>0, <2>1, Moves DEF WorkerLock, WorkerEnds
    <2> QED
      BY <1>0, <1>2, <2>2 DEF RetryTypeOK
  <1>4. CASE wpc[e][k] # "todo"
    <2>1. jobLock[t] = <<e, k>>
      BY <1>1, <1>4 DEF WorkersHoldLocks
    <2>2. ASSUME NEW u \in Tx, JobLockExpires(u) PROVE u # t
      <3>1. u = t => wpc[e][k] \in {"none", "todo"}
        BY <2>1, <2>2 DEF JobLockExpires
      <3> QED
        BY <1>1, <1>4, <3>1
    <2>3. ASSUME NEW d \in Pod, NEW j \in Job, WorkerLock(d, j)
          PROVE  jobLock' = jobLock \/ job[j].tx # t
      BY <1>0, <2>1, <2>3 DEF WorkerLock
    <2>4. ASSUME NEW d \in Pod, NEW j \in Job, WorkerUnlock(d, j) PROVE job[j].tx # t
      <3>1. wpc[d][j] = "unlock"
        BY <2>4 DEF WorkerUnlock
      <3>2. jobLock[job[j].tx] = <<d, j>>
        BY <3>1 DEF WorkersHoldLocks
      <3>3. job[j].tx = t => d = e /\ j = k
        BY <2>1, <3>2
      <3>4. d = e /\ j = k => wpc'[e][k] = "none"
        BY <1>0, <2>4, <3>1, WorkerPaths DEF Worker
      <3> QED
        BY <3>3, <3>4
    <2>5. jobLock'[t] = jobLock[t]
      BY <1>0, <1>2, <2>2, <2>3, <2>4, LockWriters
         DEF RetryTypeOK, JobLockExpires, WorkerLock, WorkerUnlock
    <2> QED
      BY <1>2, <2>1, <2>5
  <1> QED
    BY <1>3, <1>4

\* Within an attempt, nobody but the worker itself ends its job.
LEMMA OthersWrite ==
  ASSUME JobTypes, WorkersHoldLocks, NEW e \in Pod, NEW k \in Job, wpc[e][k] \in Attempting,
         [RetryNext]_vars
  PROVE  job'[k].status = job[k].status \/ JobWrite(e, k)
  <1>0. RetryTypeOK /\ job[k] # NoJob
    BY DEF JobTypes, WorkersHaveJobs, Attempting
  <1>1. ASSUME NEW t \in Tx, CreateInsert(t) PROVE job'[k] = job[k]
    BY <1>0, <1>1, InsertWrites, JobUpdate
  <1>2. ASSUME NEW j \in Job, Time(j) PROVE job'[k].status = job[k].status
    <2>1. PICK new \in JobRow : SetJob(j, new) /\ new.status = job[j].status
      BY <1>2, TimeWrites
    <2> QED
      BY <1>0, <2>1, JobUpdate
  <1>3. ASSUME NEW d \in Pod, NEW j \in Job, JobWrite(d, j)
        PROVE  job'[k] = job[k] \/ JobWrite(e, k)
    <2>1. PICK new \in JobRow : SetJob(j, new)
      BY <1>3, WorkerWrites DEF JobWrite
    <2>2. CASE j # k
      BY <1>0, <2>1, <2>2, JobUpdate
    <2>3. CASE j = k
      <3>1. wpc[d][k] \in Attempting
        BY <1>0, <1>3, <2>3, WorkerPaths DEF JobWrite, Worker
      <3>2. <<d, k>> = <<e, k>>
        BY <3>1 DEF WorkersHoldLocks, Attempting
      <3> QED
        BY <1>3, <2>3, <3>2
    <2> QED
      BY <2>2, <2>3
  <1> QED
    BY <1>1, <1>2, <1>3, JobWriters

LEMMA OpenStep ==
  ASSUME JobTypes, "db" \notin faults, WorkersHoldLocks, AttemptsOpen, [RetryNext]_vars
  PROVE  AttemptsOpen'
  <1> SUFFICES ASSUME NEW e \in Pod, NEW k \in Job, wpc'[e][k] \in Attempting
               PROVE  ~Finished(k)'
    BY DEF AttemptsOpen
  <1>0. RetryTypeOK
    BY DEF JobTypes
  <1>1. CASE wpc'[e][k] = wpc[e][k]
    <2>1. ~JobWrite(e, k)
      BY <1>0, <1>1, WorkerPaths DEF JobWrite, Worker
    <2> QED
      BY <1>1, <2>1, OthersWrite DEF AttemptsOpen, Finished
  <1>2. CASE wpc'[e][k] # wpc[e][k]
    <2>1. Worker(e, k)
      BY <1>2, WorkerMoves DEF Attempting
    <2>2. ~WorkerThrows(e, k) /\ ~WorkerSucceed(e, k) /\ ~WorkerFail(e, k)
      BY <1>0, <2>1, WorkerPaths DEF WorkerThrows, Attempting
    <2>3. CASE WorkerCheck(e, k)
      <3>1. job' = job /\ wpc'[e][k] \in {"start", "reset"}
        BY <1>0, <2>3, Moves DEF WorkerCheck, queueVars, Attempting
      <3> QED
        BY <1>0, <2>3, <3>1, Moves DEF WorkerCheck, Finished
    <2>4. CASE WorkerReset(e, k) \/ WorkerStart(e, k)
      <3>1. PICK new \in JobRow : SetJob(k, new) /\ new.status \in {"PENDING", "PROCESSING"}
        BY <2>4, WorkerWrites
      <3> QED
        BY <1>0, <3>1, JobUpdate DEF Finished
    <2>5. CASE WorkerCall(e, k) \/ WorkerRecord(e, k)
      <3>1. job' = job /\ wpc[e][k] \in Attempting
        BY <2>5 DEF WorkerCall, WorkerRecord, queueVars, Attempting
      <3> QED
        BY <3>1 DEF AttemptsOpen, Finished
    <2>6. ~WorkerLock(e, k) /\ ~WorkerUnlock(e, k)
      BY <1>0, <2>1, WorkerPaths DEF Attempting, WorkerLock, WorkerUnlock
    <2> QED
      BY <2>1, <2>2, <2>3, <2>4, <2>5, <2>6 DEF Worker
  <1> QED
    BY <1>1, <1>2

LEMMA KeptStep == JobTypes /\ JobsKept /\ [RetryNext]_vars => JobsKept'
  <1> SUFFICES ASSUME JobTypes, JobsKept, [RetryNext]_vars,
                      Within({"net", "lost", "nojob", "crash", "slowrun"})'
               PROVE  WorkersHoldLocks' /\ AttemptsOpen'
    BY DEF JobsKept
  <1>1. faults \subseteq {"net", "lost", "nojob", "crash", "slowrun"}
    BY GivenStays DEF Within, given
  <1>2. WorkersHoldLocks /\ AttemptsOpen
    BY <1>1 DEF JobsKept, Within
  <1> QED
    BY <1>1, <1>2, LocksStep, OpenStep

\* While no worker outlives its job lock, the calls that the agent rejects and MySQL calls
\* that fail apart, a job that has succeeded or expired is never written again, though runs
\* overlap, pods die and stale query results are worked from.
THEOREM FinishedJobsAreLeft == RetrySpec => FinishedJobsStay
  <1>1. RetryInit => JobsKept
    BY DEF RetryInit, JobsKept, WorkersHoldLocks, AttemptsOpen, Attempting
  <1>2. ASSUME JobTypes, JobsKept, [RetryNext]_vars,
               Within({"net", "lost", "nojob", "crash", "slowrun"}),
               NEW k \in Job, Finished(k)
        PROVE  job'[k].status = job[k].status
    <2>0. RetryTypeOK /\ job[k] # NoJob
      BY <1>2, JobFacts DEF JobTypes, Finished
    <2>1. ASSUME NEW t \in Tx, CreateInsert(t) PROVE job'[k] = job[k]
      BY <1>2, <2>0, <2>1, InsertWrites, JobUpdate
    <2>2. ASSUME NEW j \in Job, Time(j) PROVE job'[k].status = job[k].status
      <3>1. PICK new \in JobRow : SetJob(j, new) /\ new.status = job[j].status
        BY <1>2, <2>2, TimeWrites
      <3> QED
        BY <2>0, <3>1, JobUpdate
    <2>3. ASSUME NEW d \in Pod, NEW j \in Job, JobWrite(d, j) PROVE job'[k] = job[k]
      <3>1. wpc[d][j] \in Attempting
        BY <2>0, <2>3, WorkerPaths DEF JobWrite, Worker
      <3>2. j # k
        BY <1>2, <3>1 DEF JobsKept, AttemptsOpen
      <3>3. PICK new \in JobRow : SetJob(j, new)
        BY <1>2, <2>3, WorkerWrites DEF JobWrite
      <3> QED
        BY <2>0, <3>2, <3>3, JobUpdate
    <2> QED
      BY <1>2, <2>1, <2>2, <2>3, JobWriters
  <1>3. JobTypes /\ JobsKept /\ [RetryNext]_vars =>
          [Within({"net", "lost", "nojob", "crash", "slowrun"}) =>
             \A j \in Job : Finished(j) => job'[j].status = job[j].status]_vars
    BY <1>2
  <1> QED
    BY <1>1, <1>3, KeptStep, TypesInvariant, PTL DEF RetrySpec, FinishedJobsStay

-----------------------------------------------------------------------------
(* One job of a transaction at a time *)

LEMMA RunsStep ==
  ASSUME JobTypes, "slowrun" \notin faults, RunsAlone, [RetryNext]_vars
  PROVE  RunsAlone'
  <1>0. RetryTypeOK /\ Free \notin Pod
    BY RetryAssumption DEF JobTypes
  <1>1. ASSUME NEW e \in Pod, NEW k \in Job, wpc'[e][k] # "none"
        PROVE  \/ wpc[e][k] # "none" /\ ppc[e] = "run" /\ ~Crash(e)
               \/ RunQuery(e)
    <2>1. CASE wpc'[e][k] = wpc[e][k]
      BY <1>0, <1>1, <2>1 DEF RunsAlone, Crash, RetryTypeOK
    <2>2. CASE wpc'[e][k] # wpc[e][k]
      <3>1. Worker(e, k) \/ RunQuery(e)
        BY <1>1, <2>2, WorkerMoves
      <3>2. Worker(e, k) => wpc[e][k] # "none"
        BY <1>0, WorkerPaths
      <3> QED
        BY <1>0, <1>1, <3>1, <3>2 DEF RunsAlone, Crash, RetryTypeOK
    <2> QED
      BY <2>1, <2>2
  <1>2. ASSUME UNCHANGED <<ppc, schedLock>> PROVE RunsAlone'
    <2>1. \A e \in Pod : ~RunQuery(e)
      BY <1>0, <1>2 DEF RunQuery, RetryTypeOK
    <2> QED
      BY <1>1, <1>2, <2>1 DEF RunsAlone
  <1>3. ASSUME NEW d \in Pod, RunStart(d) PROVE RunsAlone'
    BY <1>0, <1>3 DEF RunStart, RunsAlone, workVars, RetryTypeOK
  <1>4. ASSUME NEW d \in Pod, RunQuery(d) PROVE RunsAlone'
    <2>1. schedLock' = schedLock /\ ppc' = [ppc EXCEPT ![d] = "run"] /\ ppc[d] = "query"
      BY <1>4 DEF RunQuery
    <2>2. \A e \in Pod, k \in Job : wpc'[e][k] # "none" => e = d \/ ppc[e] = "run"
      <3>1. \A e \in Pod : RunQuery(e) => e = d
        BY <1>0, <2>1 DEF RunQuery, RetryTypeOK, RunsAlone
      <3> QED
        BY <1>1, <3>1
    <2> QED
      BY <1>0, <2>1, <2>2 DEF RunsAlone, RetryTypeOK
  <1>5. ASSUME NEW d \in Pod, RunDone(d) PROVE RunsAlone'
    <2>1. /\ schedLock = d /\ schedLock' = Free /\ wpc' = wpc
          /\ ppc' = [ppc EXCEPT ![d] = "idle"] /\ \A j \in Job : wpc[d][j] = "none"
      BY <1>5 DEF RunDone, RunsAlone, workVars
    <2>2. \A e \in Pod \ {d} : ppc[e] = "idle"
      BY <2>1 DEF RunsAlone
    <2> QED
      BY <1>0, <2>1, <2>2 DEF RunsAlone, RetryTypeOK
  <1>6. ASSUME NEW d \in Pod, Crash(d) PROVE RunsAlone'
    <2>1. /\ schedLock' = schedLock /\ ppc' = [ppc EXCEPT ![d] = "idle"]
          /\ wpc' = [wpc EXCEPT ![d] = [j \in Job |-> "none"]]
      BY <1>6 DEF Crash
    <2> QED
      BY <1>0, <2>1 DEF RunsAlone, RetryTypeOK
  <1>7. CASE SchedLockExpires
    BY <1>0, <1>7 DEF SchedLockExpires, RunsAlone, workVars
  <1>8. ASSUME NEW t \in Tx,
               FirstSettle(t) \/ FirstRefund(t) \/ Create(t) \/ CreateFails(t) \/ JobLockExpires(t)
        PROVE  UNCHANGED <<ppc, schedLock>>
    BY <1>8 DEF FirstSettle, FirstRefund, Create, CreateFind, CreateInsert, CreateFails,
                JobLockExpires, runVars
  <1>9. ASSUME NEW d \in Pod, NEW j \in Job, Worker(d, j) PROVE UNCHANGED <<ppc, schedLock>>
    BY <1>9 DEF Worker, WorkerLock, WorkerCheck, WorkerReset, WorkerStart, WorkerCall,
                WorkerRecord, WorkerSucceed, WorkerFail, WorkerThrows, WorkerUnlock, runVars
  <1>10. ASSUME NEW j \in Job, Time(j) PROVE UNCHANGED <<ppc, schedLock>>
    BY <1>10 DEF Time, JobDue, JobLate, JobStale, runVars
  <1>11. UNCHANGED vars => UNCHANGED <<ppc, schedLock>>
    BY DEF vars
  <1> QED
    BY <1>2, <1>3, <1>4, <1>5, <1>6, <1>7, <1>8, <1>9, <1>10, <1>11 DEF RetryNext, Run

\* Two workers that are not done with their jobs do not share a transaction.
LEMMA OneBusy ==
  ASSUME JobTypes, JobsInv, NEW d \in Pod, NEW j \in Job, NEW e \in Pod, NEW k \in Job,
         wpc[d][j] \notin {"none", "unlock"}, wpc[e][k] \notin {"none", "unlock"},
         job[j].tx = job[k].tx
  PROVE  d = e /\ j = k
  <1>1. d = e
    BY DEF JobsInv, RunsAlone
  <1>2. j \in Active(job[j].tx) /\ k \in Active(job[k].tx)
    BY DEF JobsInv, WorkerSound
  <1>3. job[j].tx \in Tx
    BY <1>2, JobFacts DEF JobTypes, Active
  <1> QED
    BY <1>1, <1>2, <1>3 DEF JobsInv, TxSound

\* What does not touch a worker, its job and the creations of its transaction leaves it sound.
LEMMA WorkerKeeps ==
  ASSUME NEW e \in Pod, NEW k \in Job, WorkerSound(e, k),
         wpc'[e][k] = wpc[e][k], job'[k] = job[k],
         wpc[e][k] \notin {"none", "unlock", "fail"} /\ NoCreation(job[k].tx) =>
            NoCreation(job[k].tx)'
  PROVE  WorkerSound(e, k)'
  BY DEF WorkerSound, Active, Due

\* A job that is active is updated, without becoming due while a creation is in flight.
LEMMA UpdateSound ==
  ASSUME JobTypes, JobsInv, NEW j \in Job, NEW new \in JobRow, SetJob(j, new),
         j \in Active(job[j].tx), new.tx = job[j].tx,
         UNCHANGED <<row, finding, inserting>>,
         NoCreation(job[j].tx) \/ ~Due(j)'
  PROVE  \A t \in Tx : TxSound(t)'
  <1> TAKE t \in Tx
  <1>1. TxSound(t)
    BY DEF JobsInv
  <1>2. job'[j] = new /\ job[j] # NoJob /\ job'[j] # NoJob /\ \A k \in Job \ {j} : job'[k] = job[k]
    BY JobUpdate DEF JobTypes, Active
  <1>3. \A k \in Job : IsOf(k, t)' <=> IsOf(k, t)
    BY <1>2 DEF IsOf
  <1>4. Active(t)' \subseteq Active(t)
    BY <1>2 DEF Active
  <1>5. \A k \in Job \ {j} : Due(k)' <=> Due(k)
    BY <1>2 DEF Due
  <1>6. ~NoCreation(t) => \A k \in Job : IsOf(k, t) => ~Due(k)'
    BY <1>1, <1>5 DEF TxSound, IsOf
  <1> QED
    BY <1>1, <1>3, <1>4, <1>6 DEF TxSound, NoCreation

\* The rows that a call marks are those of no other transaction.
LEMMA RowsApart ==
  ASSUME JobTypes, NEW t \in Tx, NEW u \in Tx, t # u, NEW status, NEW bets \in {BetsOf(t), {t}, Batch[t]},
         MarkRows(bets, status)
  PROVE  row'[u] = row[u]
  <1>1. u \in Bet /\ u \notin bets
    BY RetryAssumption DEF BetsOf
  <1> QED
    BY <1>1 DEF MarkRows, JobTypes, RetryTypeOK

\* A call that does not go through marks its row and starts one creation.
LEMMA ThrowFacts ==
  ASSUME JobTypes, "reject" \notin faults, NEW t \in Tx, CallThrows(t)
  PROVE  /\ row'[t] = "SETTLEMENT_FAILED" /\ \A u \in Tx \ {t} : row'[u] = row[u]
         /\ finding'[t] = finding[t] + 1 /\ \A u \in Tx \ {t} : finding'[u] = finding[u]
  <1>1. MarkRows(BetsOf(t), "SETTLEMENT_FAILED")
    BY DEF CallThrows
  <1>2. t \in BetsOf(t) /\ t \in Bet
    BY RetryAssumption DEF BetsOf
  <1>3. row'[t] = "SETTLEMENT_FAILED" /\ \A u \in Tx \ {t} : row'[u] = row[u]
    BY <1>1, <1>2, RowsApart DEF MarkRows
  <1>4. finding' = [finding EXCEPT ![t] = @ + 1]
    BY DEF CallThrows
  <1> QED
    BY <1>3, <1>4 DEF JobTypes, RetryTypeOK

\* Steps that leave rows, jobs and creations alone, and move a worker forward if any.
LEMMA QuietSound ==
  ASSUME JobTypes, JobsInv, RunsAlone', UNCHANGED <<row, finding, inserting, job>>,
         \A e \in Pod, k \in Job : wpc'[e][k] = wpc[e][k] \/ WorkerSound(e, k)'
  PROVE  JobsInv'
  <1>1. \A t \in Tx : TxSound(t)'
    BY DEF JobsInv, TxSound, NoCreation, IsOf, Active, Due
  <1>2. \A e \in Pod, k \in Job : WorkerSound(e, k)'
    BY WorkerKeeps DEF JobsInv, NoCreation
  <1> QED
    BY <1>1, <1>2 DEF JobsInv

\* The first call of a transaction: its row leaves PLACED, and those of no other one.
LEMMA FirstFacts ==
  ASSUME JobTypes, "reject" \notin faults, NEW u \in Tx, FirstSettle(u) \/ FirstRefund(u)
  PROVE  /\ row[u] = "PLACED" /\ row'[u] # "PLACED" /\ \A t \in Tx \ {u} : row'[t] = row[t]
         /\ finding'[u] \in {finding[u], finding[u] + 1}
         /\ \A t \in Tx \ {u} : finding'[t] = finding[t]
         /\ UNCHANGED <<inserting, job, wpc>>
  <1>1. row[u] = "PLACED" /\ u \in Batch[u] /\ u \in Bet
    BY RetryAssumption DEF FirstSettle, FirstRefund
  <1>2. UNCHANGED <<inserting, job, wpc>>
    BY DEF FirstSettle, FirstRefund, workVars
  <1>3. CASE CallThrows(u)
    BY <1>1, <1>3, <1>2, ThrowFacts
  <1>4. ASSUME NEW status \in {"WON", "LOST", "REFUNDED"}, NEW bets \in {{u}, Batch[u]},
               MarkRows(bets, status), finding' = finding
        PROVE  /\ row'[u] # "PLACED" /\ \A t \in Tx \ {u} : row'[t] = row[t]
               /\ finding' = finding
    <2>1. row'[u] # "PLACED"
      BY <1>1, <1>4 DEF MarkRows
    <2> QED
      BY <1>4, <2>1, RowsApart
  <1> QED
    BY <1>1, <1>3, <1>4, <1>2 DEF FirstSettle, FirstRefund, RecordSettlement

LEMMA FirstSound ==
  ASSUME JobTypes, JobsInv, RunsAlone', "reject" \notin faults, NEW u \in Tx,
         FirstSettle(u) \/ FirstRefund(u)
  PROVE  JobsInv'
  <1>1. row[u] = "PLACED"
    BY FirstFacts
  <1>2. NoCreation(u) /\ \A k \in Job : ~IsOf(k, u)
    BY <1>1 DEF JobsInv, TxSound
  <1>3. UNCHANGED <<inserting, job, wpc>>
    BY FirstFacts
  <1>4. /\ row'[u] # "PLACED" /\ \A t \in Tx \ {u} : row'[t] = row[t]
        /\ finding'[u] \in {finding[u], finding[u] + 1}
        /\ \A t \in Tx \ {u} : finding'[t] = finding[t]
    BY FirstFacts
  <1>5. finding[u] = 0 /\ inserting[u] = 0
    BY <1>2 DEF NoCreation
  <1>6. ASSUME NEW t \in Tx PROVE TxSound(t)'
    <2>1. CASE t = u
      BY <1>2, <1>3, <1>4, <1>5, <2>1 DEF TxSound, IsOf, Active
    <2>2. CASE t # u
      BY <1>3, <1>4, <2>2 DEF JobsInv, TxSound, NoCreation, IsOf, Active, Due
    <2> QED
      BY <2>1, <2>2
  <1>7. ASSUME NEW e \in Pod, NEW k \in Job PROVE WorkerSound(e, k)'
    <2>1. CASE wpc[e][k] = "none"
      BY <1>3, <2>1 DEF WorkerSound
    <2>2. CASE wpc[e][k] # "none"
      <3>1. job[k] # NoJob /\ job[k].tx \in Tx /\ job[k].tx # u
        BY <1>2, <2>2, JobFacts DEF JobTypes, WorkersHaveJobs, IsOf
      <3> QED
        BY <1>3, <1>4, <3>1, WorkerKeeps DEF JobsInv, NoCreation
    <2> QED
      BY <2>1, <2>2
  <1> QED
    BY <1>6, <1>7 DEF JobsInv

LEMMA CreateSound ==
  ASSUME JobTypes, JobsInv, RunsAlone', NEW u \in Tx, Create(u) \/ CreateFails(u)
  PROVE  JobsInv'
  <1>0. /\ RetryTypeOK /\ TxSound(u)
        /\ finding[u] \in Nat /\ inserting[u] \in Nat
    BY DEF JobTypes, RetryTypeOK, JobsInv
  <1>1. ~NoCreation(u)
    BY DEF Create, CreateFind, CreateInsert, CreateFails, NoCreation
  <1>2. row' = row /\ wpc' = wpc
    BY DEF Create, CreateFind, CreateInsert, CreateFails, agentVars, workVars
  <1>3. /\ \A t \in Tx \ {u} : finding'[t] = finding[t] /\ inserting'[t] = inserting[t]
        /\ finding'[u] \in Nat /\ inserting'[u] \in Nat
        /\ finding'[u] + inserting'[u] <= 1
        /\ inserting'[u] > 0 => inserting[u] > 0 \/ Active(u) = {}
    BY <1>0 DEF RetryTypeOK, TxSound, Create, CreateFind, CreateInsert, CreateFails
  <1>4. ASSUME job' = job PROVE JobsInv'
    <2>1. ASSUME NEW t \in Tx PROVE TxSound(t)'
      <3>1. CASE t = u
        BY <1>0, <1>1, <1>2, <1>3, <1>4, <3>1 DEF TxSound, NoCreation, IsOf, Active, Due
      <3>2. CASE t # u
        BY <1>2, <1>3, <1>4, <3>2 DEF JobsInv, TxSound, NoCreation, IsOf, Active, Due
      <3> QED
        BY <3>1, <3>2
    <2>2. ASSUME NEW e \in Pod, NEW k \in Job PROVE WorkerSound(e, k)'
      <3>1. wpc[e][k] # "none" => job[k].tx \in Tx
        BY <1>0, JobFacts DEF JobTypes, WorkersHaveJobs
      <3> QED
        BY <1>1, <1>2, <1>3, <1>4, <3>1, WorkerKeeps DEF JobsInv, NoCreation
    <2> QED
      BY <2>1, <2>2 DEF JobsInv
  <1>5. CASE CreateInsert(u)
    <2>1. PICK j \in Job, new \in JobRow :
             /\ job[j] = NoJob /\ SetJob(j, new)
             /\ new.tx = u /\ new.status = "PENDING" /\ ~new.due
      BY <1>5, InsertWrites
    <2>2. job'[j] = new /\ job'[j] # NoJob /\ \A k \in Job \ {j} : job'[k] = job[k]
      BY <1>0, <2>1, JobUpdate
    <2>3. /\ finding' = finding /\ inserting[u] = 1 /\ finding[u] = 0
          /\ inserting'[u] = 0 /\ Active(u) = {}
      BY <1>0, <1>5 DEF CreateInsert, TxSound, RetryTypeOK
    <2>4. NoCreation(u)'
      BY <2>3 DEF NoCreation
    <2>5. ASSUME NEW t \in Tx PROVE TxSound(t)'
      <3>1. CASE t = u
        <4>1. row[u] # "PLACED"
          BY <1>0, <1>1 DEF TxSound
        <4>2. \A k \in Active(u)' : k = j
          BY <2>2, <2>3 DEF Active
        <4> QED
          BY <1>2, <1>3, <2>3, <2>4, <3>1, <4>1, <4>2 DEF TxSound
      <3>2. CASE t # u
        <4>1. \A k \in Job : (IsOf(k, t)' <=> IsOf(k, t)) /\ (IsOf(k, t) => job'[k] = job[k])
          BY <2>1, <2>2, <3>2 DEF IsOf
        <4>2. Active(t)' = Active(t)
          BY <2>1, <2>2, <3>2 DEF Active
        <4> QED
          BY <1>2, <1>3, <3>2, <4>1, <4>2 DEF JobsInv, TxSound, NoCreation, Due
      <3> QED
        BY <3>1, <3>2
    <2>6. ASSUME NEW e \in Pod, NEW k \in Job PROVE WorkerSound(e, k)'
      <3>1. CASE wpc[e][k] = "none"
        BY <1>2, <3>1 DEF WorkerSound
      <3>2. CASE wpc[e][k] # "none"
        <4>1. job'[k] = job[k] /\ job[k].tx \in Tx
          BY <1>0, <2>1, <2>2, <3>2, JobFacts DEF JobTypes, WorkersHaveJobs
        <4>2. NoCreation(job[k].tx) => NoCreation(job[k].tx)'
          BY <1>1, <1>3, <4>1 DEF NoCreation
        <4> QED
          BY <1>2, <4>1, <4>2, WorkerKeeps DEF JobsInv
      <3> QED
        BY <3>1, <3>2
    <2> QED
      BY <2>5, <2>6 DEF JobsInv
  <1>6. CreateFind(u) \/ CreateFails(u) => job' = job
    BY DEF CreateFind, CreateFails
  <1> QED
    BY <1>4, <1>5, <1>6 DEF Create

LEMMA TimeSound ==
  ASSUME JobTypes, JobsInv, RunsAlone', "slowjob" \notin faults, NEW j \in Job, Time(j)
  PROVE  JobsInv'
  <1>1. UNCHANGED <<row, finding, inserting, wpc>>
    BY DEF Time, JobDue, JobLate, JobStale, agentVars, workVars
  <1>2. j \in Active(job[j].tx)
    BY DEF Time, JobDue, JobLate, JobStale, Active
  <1>3. PICK new \in JobRow :
           /\ SetJob(j, new)
           /\ new.tx = job[j].tx /\ new.status = job[j].status
           /\ new.due = job[j].due \/ JobDue(j)
           /\ new.stale = job[j].stale \/ JobStale(j)
    BY TimeWrites
  <1>4. job'[j] = new /\ job'[j] # NoJob /\ \A k \in Job \ {j} : job'[k] = job[k]
    BY <1>3, JobUpdate DEF JobTypes
  <1>5. job[j].tx \in Tx /\ job[j] # NoJob
    BY <1>2, JobFacts DEF JobTypes, Active
  <1>6. NoCreation(job[j].tx) \/ ~Due(j)'
    <2>1. CASE JobDue(j) \/ JobStale(j)
      BY <2>1 DEF JobDue, JobStale
    <2>2. CASE ~JobDue(j) /\ ~JobStale(j)
      <3>1. NoCreation(job[j].tx) \/ ~Due(j)
        BY <1>5 DEF JobsInv, TxSound, IsOf
      <3> QED
        BY <1>3, <1>4, <1>5, <2>2, <3>1 DEF Due
    <2> QED
      BY <2>1, <2>2
  <1>7. \A t \in Tx : TxSound(t)'
    BY <1>1, <1>2, <1>3, <1>6, UpdateSound
  <1>8. ASSUME NEW e \in Pod, NEW k \in Job PROVE WorkerSound(e, k)'
    <2>1. CASE k # j
      BY <1>1, <1>4, <2>1, WorkerKeeps DEF JobsInv, NoCreation
    <2>2. CASE k = j
      <3>1. WorkerSound(e, j)
        BY DEF JobsInv
      <3>2. Due(j) => Due(j)'
        BY <1>3, <1>4, <1>5 DEF Due, JobDue, JobStale, JobRow, SetJob, JobTypes, RetryTypeOK
      <3>3. wpc[e][j] \in {"call", "record", "succeed"} => ~JobStale(j)
        BY DEF JobStale, Working
      <3>4. NoCreation(job[j].tx)' <=> NoCreation(job[j].tx)
        BY <1>1, <1>3, <1>4 DEF NoCreation
      <3>5. Active(new.tx)' = Active(new.tx)
        BY <1>2, <1>3, <1>4 DEF Active
      <3> QED
        BY <1>1, <1>2, <1>3, <1>4, <2>2, <3>1, <3>2, <3>3, <3>4, <3>5 DEF WorkerSound, NoCreation
    <2> QED
      BY <2>1, <2>2
  <1> QED
    BY <1>7, <1>8 DEF JobsInv

\* The steps of a worker that write its job.
LEMMA WriteSound ==
  ASSUME JobTypes, JobsInv, RunsAlone', NEW d \in Pod, NEW j \in Job, JobWrite(d, j)
  PROVE  JobsInv'
  <1>0. RetryTypeOK /\ WorkerSound(d, j)
    BY DEF JobTypes, JobsInv
  <1>1. Worker(d, j) /\ UNCHANGED <<row, finding, inserting>>
    BY DEF Worker, JobWrite, WorkerReset, WorkerStart, WorkerSucceed, WorkerFail, agentVars
  <1>2. wpc[d][j] \in Attempting /\ j \in Active(job[j].tx)
    BY <1>0, <1>1, WorkerPaths DEF WorkerSound, Attempting
  <1>3. PICK new \in JobRow :
           /\ SetJob(j, new)
           /\ new.tx = job[j].tx
           /\ WorkerReset(d, j) => new.status = "PENDING"
           /\ WorkerStart(d, j) => new.status = "PROCESSING" /\ ~new.stale
           /\ WorkerSucceed(d, j) => new.status = "SUCCESS"
           /\ WorkerFail(d, j) => \/ new.status = "PENDING" /\ ~new.due
                                  \/ new.status = "EXPIRED"
    BY WorkerWrites DEF JobWrite
  <1>4. job'[j] = new /\ job'[j] # NoJob /\ \A k \in Job \ {j} : job'[k] = job[k]
    BY <1>0, <1>3, JobUpdate
  <1>5. NoCreation(job[j].tx) \/ ~Due(j)'
    <2>1. CASE WorkerFail(d, j)
      BY <1>3, <1>4, <2>1 DEF Due
    <2>2. CASE ~WorkerFail(d, j)
      BY <1>0, <2>2 DEF JobWrite, WorkerReset, WorkerStart, WorkerSucceed, WorkerSound
    <2> QED
      BY <2>1, <2>2
  <1>6. \A t \in Tx : TxSound(t)'
    BY <1>1, <1>2, <1>3, <1>5, UpdateSound
  <1>7. WorkerSound(d, j)'
    <2>1. CASE WorkerReset(d, j) \/ WorkerStart(d, j)
      <3>1. \/ WorkerReset(d, j) /\ wpc'[d][j] = "start"
            \/ WorkerStart(d, j) /\ wpc'[d][j] = "call"
        BY <1>0, <2>1, Moves DEF WorkerReset, WorkerStart
      <3>2. NoCreation(job[j].tx)'
        BY <1>0, <1>1, <1>3, <1>4, <2>1 DEF WorkerReset, WorkerStart, WorkerSound, NoCreation
      <3>3. j \in Active(job[j].tx)'
        BY <1>3, <1>4, <2>1 DEF Active
      <3> QED
        BY <1>3, <1>4, <3>1, <3>2, <3>3 DEF WorkerSound
    <2>2. CASE WorkerSucceed(d, j) \/ WorkerFail(d, j)
      <3>1. wpc'[d][j] = "unlock"
        BY <1>0, <1>1, <2>2, WorkerPaths
      <3> QED
        BY <3>1 DEF WorkerSound
    <2> QED
      BY <2>1, <2>2 DEF JobWrite
  <1>8. ASSUME NEW e \in Pod, NEW k \in Job, e # d \/ k # j PROVE WorkerSound(e, k)'
    <2>1. wpc'[e][k] = wpc[e][k]
      <3>1. \E label : WGoto(d, j, label)
        BY DEF JobWrite, WorkerReset, WorkerStart, WorkerSucceed, WorkerFail
      <3> QED
        BY <1>0, <1>8, <3>1, Moves
    <2>2. CASE k # j
      BY <1>1, <1>4, <2>1, <2>2, WorkerKeeps DEF JobsInv, NoCreation
    <2>3. CASE k = j
      <3>1. wpc[e][k] \in {"none", "unlock"}
        BY <1>2, <1>8, <2>3, OneBusy DEF Attempting
      <3> QED
        BY <2>1, <3>1 DEF WorkerSound
    <2> QED
      BY <2>2, <2>3
  <1> QED
    BY <1>6, <1>7, <1>8 DEF JobsInv

\* The call of an attempt, and its result in the row.
LEMMA CallSound ==
  ASSUME JobTypes, JobsInv, RunsAlone', "reject" \notin faults, NEW d \in Pod, NEW j \in Job,
         WorkerCall(d, j) \/ WorkerRecord(d, j)
  PROVE  JobsInv'
  <1> DEFINE u == job[j].tx
  <1>0. /\ RetryTypeOK /\ WorkerSound(d, j)
        /\ wpc[d][j] \in {"call", "record"}
    BY DEF JobTypes, JobsInv, WorkerCall, WorkerRecord
  <1>1. j \in Active(u) /\ NoCreation(u) /\ job[j].status = "PROCESSING" /\ ~job[j].stale
    BY <1>0 DEF WorkerSound
  <1>2. u \in Tx /\ job[j] # NoJob /\ u \in Bet
    BY <1>0, <1>1, JobFacts, RetryAssumption DEF Active
  <1>3. TxSound(u) /\ row[u] # "PLACED" /\ finding[u] = 0 /\ inserting[u] = 0
    BY <1>1, <1>2 DEF JobsInv, TxSound, IsOf, NoCreation
  <1>4. job' = job /\ inserting' = inserting
    BY DEF WorkerCall, WorkerRecord, queueVars
  <1> DEFINE Apart == /\ row'[u] # "PLACED" /\ \A t \in Tx \ {u} : row'[t] = row[t]
                      /\ \A t \in Tx \ {u} : finding'[t] = finding[t]
                      /\ \/ finding'[u] = 0
                         \/ finding'[u] = 1 /\ wpc'[d][j] = "fail"
  <1>5. Apart
    <2>1. ASSUME MarkRows({u}, Result), finding' = finding PROVE Apart
      <3>1. row'[u] # "PLACED"
        BY <1>2, <2>1 DEF MarkRows, Result
      <3>2. \A t \in Tx \ {u} : row'[t] = row[t]
        BY <1>2, <2>1, RowsApart
      <3> QED
        BY <1>3, <2>1, <3>1, <3>2
    <2>2. CASE UNCHANGED <<row, finding>>
      BY <1>3, <2>2
    <2>3. ASSUME CallThrows(u), WGoto(d, j, "fail") PROVE Apart
      <3>1. wpc'[d][j] = "fail"
        BY <1>0, <2>3, Moves
      <3>2. /\ row'[u] = "SETTLEMENT_FAILED" /\ \A t \in Tx \ {u} : row'[t] = row[t]
            /\ finding'[u] = 1 /\ \A t \in Tx \ {u} : finding'[t] = finding[t]
        BY <1>2, <1>3, <2>3, ThrowFacts
      <3> QED
        BY <3>1, <3>2
    <2>4. CASE WorkerRecord(d, j)
      BY <2>1, <2>2, <2>4, RecordWrites DEF WorkerRecord, queueVars
    <2>5. CASE WorkerCall(d, j)
      BY <2>2, <2>3, <2>5 DEF WorkerCall
    <2> QED
      BY <2>4, <2>5
  <1>6. ~Due(j) /\ \A k \in Job : IsOf(k, u) => ~Due(k)
    <2>1. \A k \in Job : IsOf(k, u) /\ Due(k) => k \in Active(u)
      BY DEF IsOf, Due, Active
    <2>2. ~Due(j)
      BY <1>1 DEF Due
    <2> QED
      BY <1>1, <1>3, <2>1, <2>2 DEF TxSound
  <1>7. ASSUME NEW t \in Tx PROVE TxSound(t)'
    <2>1. CASE t = u
      BY <1>3, <1>4, <1>5, <1>6, <2>1 DEF TxSound, IsOf, Active, Due
    <2>2. CASE t # u
      BY <1>4, <1>5, <2>2 DEF JobsInv, TxSound, NoCreation, IsOf, Active, Due
    <2> QED
      BY <2>1, <2>2
  <1>8. ASSUME NEW e \in Pod, NEW k \in Job, e # d \/ k # j PROVE WorkerSound(e, k)'
    <2>1. wpc'[e][k] = wpc[e][k]
      <3>1. \E label : WGoto(d, j, label)
        BY DEF WorkerCall, WorkerRecord
      <3> QED
        BY <1>0, <1>8, <3>1, Moves
    <2>2. CASE wpc[e][k] \in {"none", "unlock"}
      BY <2>1, <2>2 DEF WorkerSound
    <2>3. CASE wpc[e][k] \notin {"none", "unlock"}
      <3>1. job[k].tx # u
        BY <1>0, <1>8, <2>3, OneBusy
      <3>2. job[k].tx \in Tx
        BY <1>0, <2>3, JobFacts DEF JobTypes, WorkersHaveJobs
      <3> QED
        BY <1>4, <1>5, <2>1, <3>1, <3>2, WorkerKeeps DEF JobsInv, NoCreation
    <2> QED
      BY <2>2, <2>3
  <1>9. WorkerSound(d, j)'
    <2>1. wpc'[d][j] \in {"record", "succeed", "fail"}
      BY <1>0, Moves DEF WorkerCall, WorkerRecord
    <2>2. wpc'[d][j] # "fail" => NoCreation(u)'
      BY <1>3, <1>4, <1>5 DEF NoCreation
    <2>3. j \in Active(u)'
      BY <1>1, <1>4 DEF Active
    <2> QED
      BY <1>1, <1>4, <2>1, <2>2, <2>3 DEF WorkerSound
  <1> QED
    BY <1>7, <1>8, <1>9 DEF JobsInv

\* The steps of a worker that write nothing but its lock.
LEMMA MoveSound ==
  ASSUME JobTypes, JobsInv, RunsAlone', NEW d \in Pod, NEW j \in Job,
         WorkerLock(d, j) \/ WorkerCheck(d, j) \/ WorkerThrows(d, j) \/ WorkerUnlock(d, j)
  PROVE  JobsInv'
  <1>0. RetryTypeOK /\ WorkerSound(d, j)
    BY DEF JobTypes, JobsInv
  <1>1. UNCHANGED <<row, finding, inserting, job>>
    BY DEF WorkerLock, WorkerCheck, WorkerThrows, WorkerUnlock, agentVars, queueVars
  <1>2. Worker(d, j)
    BY DEF Worker
  <1>3. \A e \in Pod, k \in Job : e # d \/ k # j => wpc'[e][k] = wpc[e][k]
    <2>1. \E label : WGoto(d, j, label)
      BY DEF WorkerLock, WorkerCheck, WorkerThrows, WorkerUnlock, WorkerEnds
    <2> QED
      BY <1>0, <2>1, Moves
  <1>4. WorkerSound(d, j)'
    <2>1. CASE WorkerLock(d, j)
      <3>1. wpc[d][j] = "todo" /\ wpc'[d][j] \in {"check", "none"}
        BY <1>0, <1>2, <2>1, WorkerPaths DEF WorkerLock
      <3> QED
        BY <1>0, <1>1, <3>1 DEF WorkerSound, Active, Due, NoCreation
    <2>2. CASE WorkerCheck(d, j)
      <3>1. /\ wpc[d][j] = "check"
            /\ \/ wpc'[d][j] = "start" /\ job[j].status = "PENDING"
               \/ wpc'[d][j] = "reset" /\ job[j].status = "PROCESSING"
               \/ wpc'[d][j] = "unlock"
        BY <1>0, <2>2, Moves DEF WorkerCheck
      <3> QED
        BY <1>0, <1>1, <3>1 DEF WorkerSound, Active, Due, NoCreation
    <2>3. CASE WorkerThrows(d, j)
      <3>1. \/ /\ wpc[d][j] \in {"check", "reset", "start", "succeed"}
               /\ wpc'[d][j] = "fail"
            \/ wpc'[d][j] = "unlock"
        BY <1>0, <2>3, Moves DEF WorkerThrows
      <3> QED
        BY <1>0, <1>1, <3>1 DEF WorkerSound, Active, Due, NoCreation
    <2>4. CASE WorkerUnlock(d, j)
      <3>1. wpc'[d][j] = "none"
        BY <1>0, <2>4, Moves DEF WorkerUnlock, WorkerEnds
      <3> QED
        BY <3>1 DEF WorkerSound
    <2> QED
      BY <2>1, <2>2, <2>3, <2>4
  <1> QED
    BY <1>1, <1>3, <1>4, QuietSound

LEMMA RunSound ==
  ASSUME JobTypes, JobsInv, RunsAlone', [RetryNext]_vars,
         \/ \E d \in Pod : RunStart(d) \/ Run(d) \/ Crash(d)
         \/ \E t \in Tx : JobLockExpires(t)
         \/ SchedLockExpires \/ UNCHANGED vars
  PROVE  JobsInv'
  <1>1. UNCHANGED <<row, finding, inserting, job>>
    BY DEF RunStart, Run, RunQuery, RunDone, Crash, JobLockExpires, SchedLockExpires, vars,
           agentVars, queueVars
  <1>0. RetryTypeOK
    BY DEF JobTypes
  <1>2. ASSUME NEW e \in Pod, NEW k \in Job, wpc'[e][k] # wpc[e][k] PROVE WorkerSound(e, k)'
    <2>1. \/ wpc'[e][k] = "none"
          \/ wpc'[e][k] = "todo" /\ Due(k)
      <3>1. ASSUME NEW d \in Pod, RunQuery(d), wpc'[e][k] # "none"
            PROVE  wpc'[e][k] = "todo" /\ Due(k)
        <4>1. PICK due : /\ due = {i \in Job : Due(i)} \/ due = {}
                         /\ wpc' = [wpc EXCEPT ![d] =
                                       [i \in Job |-> IF i \in due THEN "todo" ELSE "none"]]
          BY <3>1 DEF RunQuery
        <4>2. e = d
          BY <1>0, <1>2, <4>1 DEF RetryTypeOK
        <4>3. wpc'[e][k] = IF k \in due THEN "todo" ELSE "none"
          BY <1>0, <4>1, <4>2 DEF RetryTypeOK
        <4> QED
          BY <3>1, <4>1, <4>3
      <3>2. ASSUME NEW d \in Pod, Crash(d) PROVE wpc'[e][k] = "none"
        BY <1>0, <1>2, <3>2 DEF Crash, RetryTypeOK
      <3>3. ASSUME NEW d \in Pod, RunStart(d) \/ RunDone(d) PROVE wpc' = wpc
        BY <3>3 DEF RunStart, RunDone, workVars
      <3>4. ASSUME NEW t \in Tx, JobLockExpires(t) PROVE wpc' = wpc
        BY <3>4 DEF JobLockExpires
      <3>5. SchedLockExpires \/ UNCHANGED vars => wpc' = wpc
        BY DEF SchedLockExpires, vars, workVars
      <3> QED
        BY <1>2, <3>1, <3>2, <3>3, <3>4, <3>5 DEF Run
    <2>2. ASSUME Due(k) PROVE k \in Active(job[k].tx) /\ NoCreation(job[k].tx)
      <3>1. job[k] # NoJob /\ job[k].tx \in Tx
        BY <2>2, JobFacts DEF Due, JobTypes
      <3>2. TxSound(job[k].tx) /\ IsOf(k, job[k].tx)
        BY <3>1 DEF JobsInv, IsOf
      <3> QED
        BY <2>2, <3>1, <3>2 DEF Due, Active, TxSound
    <2> QED
      BY <1>1, <2>1, <2>2 DEF WorkerSound, Active, Due, NoCreation
  <1> QED
    BY <1>1, <1>2, QuietSound

LEMMA JobsAloneInitial == RetryInit => JobsAlone
  <1> SUFFICES ASSUME RetryInit PROVE JobsInv
    BY DEF JobsAlone
  <1>1. \A j \in Job : job[j] = NoJob
    BY DEF RetryInit
  <1>2. \A t \in Tx : TxSound(t)
    BY <1>1 DEF RetryInit, TxSound, NoCreation, IsOf, Active
  <1>3. \A d \in Pod : ppc[d] = "idle" /\ \A j \in Job : wpc[d][j] = "none"
    BY DEF RetryInit
  <1>4. RunsAlone
    BY <1>3 DEF RunsAlone
  <1>5. \A d \in Pod, j \in Job : WorkerSound(d, j)
    BY <1>3 DEF WorkerSound
  <1> QED
    BY <1>2, <1>4, <1>5 DEF JobsInv

LEMMA AloneStep == JobTypes /\ JobsAlone /\ [RetryNext]_vars => JobsAlone'
  <1> SUFFICES ASSUME JobTypes, JobsAlone, [RetryNext]_vars,
                      Within({"net", "lost", "db", "nojob", "crash"})'
               PROVE  JobsInv'
    BY DEF JobsAlone
  <1>1. faults \subseteq {"net", "lost", "db", "nojob", "crash"}
    BY GivenStays DEF Within, given
  <1>2. JobsInv /\ RunsAlone
    BY <1>1 DEF JobsAlone, Within, JobsInv
  <1>3. RunsAlone'
    BY <1>1, <1>2, RunsStep
  <1>4. "reject" \notin faults /\ "slowjob" \notin faults
    BY <1>1
  <1>5. ASSUME NEW d \in Pod, NEW j \in Job, Worker(d, j) PROVE JobsInv'
    BY <1>2, <1>3, <1>4, <1>5, WriteSound, CallSound, MoveSound DEF Worker, JobWrite
  <1> QED
    BY <1>2, <1>3, <1>4, <1>5, FirstSound, CreateSound, TimeSound, RunSound DEF RetryNext

\* A transaction that the agent does not reject has at most one job that is pending or being
\* processed, however its calls fail, whatever creations fail and wherever pods die, as long
\* as runs and workers end before their locks do.
THEOREM OneJobPerTransaction == RetrySpec => []OneActiveJob
  <1>1. JobTypes /\ JobsAlone => OneActiveJob
    <2> SUFFICES ASSUME JobsAlone, Within({"net", "lost", "db", "nojob", "crash"}), NEW t \in Tx
                 PROVE  Cardinality(Active(t)) <= 1
      BY DEF OneActiveJob, NoDuplicateJobs
    <2>1. \A j, k \in Active(t) : j = k
      BY DEF JobsAlone, JobsInv, TxSound
    <2>2. CASE Active(t) = {}
      BY <2>2, FS_EmptySet
    <2>3. CASE Active(t) # {}
      <3>1. PICK j : Active(t) = {j}
        BY <2>1, <2>3
      <3>2. Cardinality({j}) = 1
        BY FS_Singleton
      <3> QED
        BY <3>1, <3>2
    <2> QED
      BY <2>2, <2>3
  <1> QED
    BY <1>1, JobsAloneInitial, AloneStep, TypesInvariant, PTL DEF RetrySpec

-----------------------------------------------------------------------------
(* A retry that succeeded shows in its row *)

\* Done: the transaction shows its result, and nothing is under way for it.
Done(t) == row[t] # "PLACED" /\ Shown(t) /\ NoCreation(t) /\ Active(t) = {}

\* A row that is not PLACED is written by the call of a job of its transaction.
LEMMA RowWriters ==
  ASSUME JobTypes, "reject" \notin faults, [RetryNext]_vars, NEW t \in Tx,
         row[t] # "PLACED", row'[t] # row[t]
  PROVE  \E d \in Pod, j \in Job :
            job[j].tx = t /\ (WorkerCall(d, j) \/ WorkerRecord(d, j))
  <1> USE DEF agentVars
  <1>1. ASSUME NEW u \in Tx, FirstSettle(u) \/ FirstRefund(u) PROVE FALSE
    BY <1>1, FirstFacts
  <1>2. ASSUME NEW u \in Tx, Create(u) \/ CreateFails(u) \/ JobLockExpires(u) PROVE FALSE
    BY <1>2 DEF Create, CreateFind, CreateInsert, CreateFails, JobLockExpires
  <1>3. ASSUME NEW d \in Pod, RunStart(d) \/ Run(d) \/ Crash(d) PROVE FALSE
    BY <1>3 DEF RunStart, Run, RunQuery, RunDone, Crash
  <1>4. ASSUME NEW d \in Pod, NEW j \in Job, Worker(d, j)
        PROVE  job[j].tx = t /\ (WorkerCall(d, j) \/ WorkerRecord(d, j))
    <2>1. WorkerCall(d, j) \/ WorkerRecord(d, j)
      BY <1>4 DEF Worker, WorkerLock, WorkerCheck, WorkerReset, WorkerStart, WorkerSucceed,
                  WorkerFail, WorkerThrows, WorkerUnlock
    <2>2. job[j].tx \in Tx
      BY <2>1, JobFacts DEF JobTypes, WorkersHaveJobs, WorkerCall, WorkerRecord
    <2>3. CallThrows(job[j].tx) \/ MarkRows({job[j].tx}, Result)
      BY <2>1, RecordWrites DEF WorkerCall
    <2> QED
      BY <2>1, <2>2, <2>3, ThrowFacts, RowsApart
  <1>5. ASSUME NEW j \in Job, Time(j) PROVE FALSE
    BY <1>5 DEF Time, JobDue, JobLate, JobStale
  <1>6. ~(SchedLockExpires \/ UNCHANGED vars)
    BY DEF SchedLockExpires, vars
  <1> QED
    BY <1>1, <1>2, <1>3, <1>4, <1>5, <1>6 DEF RetryNext

\* A creation for a transaction with none comes from its first call or from one of its job.
LEMMA CreationWriters ==
  ASSUME JobTypes, "reject" \notin faults, [RetryNext]_vars, NEW t \in Tx,
         row[t] # "PLACED", NoCreation(t), ~NoCreation(t)'
  PROVE  \E d \in Pod, j \in Job : job[j].tx = t /\ WorkerCall(d, j)
  <1> USE DEF queueVars
  <1>0. finding'[t] # finding[t] \/ inserting'[t] # inserting[t]
    BY DEF NoCreation
  <1>1. ASSUME NEW u \in Tx, FirstSettle(u) \/ FirstRefund(u) PROVE FALSE
    BY <1>0, <1>1, FirstFacts
  <1>2. ASSUME NEW u \in Tx, Create(u) \/ CreateFails(u) PROVE FALSE
    <2>1. u # t
      BY <1>2 DEF NoCreation, Create, CreateFind, CreateInsert, CreateFails
    <2> QED
      BY <1>0, <1>2, <2>1 DEF Create, CreateFind, CreateInsert, CreateFails, JobTypes, RetryTypeOK
  <1>3. ASSUME NEW u \in Tx, JobLockExpires(u) PROVE FALSE
    BY <1>0, <1>3 DEF JobLockExpires
  <1>4. ASSUME NEW d \in Pod, RunStart(d) \/ Run(d) \/ Crash(d) PROVE FALSE
    BY <1>0, <1>4 DEF RunStart, Run, RunQuery, RunDone, Crash
  <1>5. ASSUME NEW d \in Pod, NEW j \in Job, Worker(d, j)
        PROVE  job[j].tx = t /\ WorkerCall(d, j)
    <2>1. WorkerCall(d, j) /\ finding'[t] # finding[t]
      BY <1>0, <1>5 DEF Worker, WorkerLock, WorkerCheck, WorkerReset, WorkerStart, WorkerCall,
                  WorkerRecord, WorkerSucceed, WorkerFail, WorkerThrows, WorkerUnlock
    <2>2. job[j].tx \in Tx
      BY <2>1, JobFacts DEF JobTypes, WorkersHaveJobs, WorkerCall
    <2>3. CallThrows(job[j].tx)
      BY <2>1 DEF WorkerCall
    <2> QED
      BY <2>1, <2>2, <2>3, ThrowFacts
  <1>6. ASSUME NEW j \in Job, Time(j) PROVE FALSE
    BY <1>0, <1>6 DEF Time, JobDue, JobLate, JobStale
  <1>7. ~(SchedLockExpires \/ UNCHANGED vars)
    BY <1>0 DEF SchedLockExpires, vars
  <1> QED
    BY <1>1, <1>2, <1>3, <1>4, <1>5, <1>6, <1>7 DEF RetryNext

\* A transaction with neither a job nor a creation under way gets no job.
LEMMA NoneStarts ==
  ASSUME JobTypes, JobsInv, [RetryNext]_vars, NEW t \in Tx, NoCreation(t), Active(t) = {}
  PROVE  Active(t)' = {}
  <1>0. RetryTypeOK
    BY DEF JobTypes
  <1>1. ASSUME NEW j \in Job, NEW new \in JobRow, SetJob(j, new), new.tx # t
        PROVE  Active(t)' = {}
    BY <1>0, <1>1, JobUpdate DEF Active
  <1>2. ASSUME NEW u \in Tx, CreateInsert(u) PROVE Active(t)' = {}
    <2>1. u # t
      BY <1>2 DEF CreateInsert, NoCreation
    <2> QED
      BY <1>1, <1>2, <2>1, InsertWrites
  <1>3. ASSUME NEW d \in Pod, NEW j \in Job, JobWrite(d, j) PROVE Active(t)' = {}
    <2>1. PICK new \in JobRow : SetJob(j, new) /\ new.tx = job[j].tx
      BY <1>3, WorkerWrites DEF JobWrite
    <2>2. j \in Active(job[j].tx)
      BY <1>3 DEF JobsInv, WorkerSound, JobWrite, WorkerReset, WorkerStart, WorkerSucceed,
                  WorkerFail
    <2> QED
      BY <1>1, <2>1, <2>2
  <1>4. ASSUME NEW j \in Job, Time(j) PROVE Active(t)' = {}
    <2>1. PICK new \in JobRow : SetJob(j, new) /\ new.tx = job[j].tx
      BY <1>4, TimeWrites
    <2>2. j \in Active(job[j].tx)
      BY <1>4 DEF Time, JobDue, JobLate, JobStale, Active
    <2> QED
      BY <1>1, <2>1, <2>2
  <1>5. job' = job => Active(t)' = {}
    BY DEF Active
  <1> QED
    BY <1>2, <1>3, <1>4, <1>5, JobWriters

\* What a row shows changes with the row only.
LEMMA ShownStays ==
  ASSUME [RetryNext]_vars, NEW t \in Tx, row'[t] = row[t], Shown(t)
  PROVE  Shown(t)'
  BY GivenStays DEF Shown, Unrecordable, Result, given

LEMMA DoneStays ==
  ASSUME JobTypes, JobsInv, "reject" \notin faults, [RetryNext]_vars, NEW t \in Tx, Done(t)
  PROVE  Done(t)'
  <1>1. row[t] # "PLACED" /\ NoCreation(t) /\ Active(t) = {}
    BY DEF Done
  <1>2. \A d \in Pod, j \in Job :
           WorkerCall(d, j) \/ WorkerRecord(d, j) => job[j].tx # t
    BY <1>1 DEF JobsInv, WorkerSound, WorkerCall, WorkerRecord
  <1>3. row'[t] = row[t] /\ NoCreation(t)'
    BY <1>1, <1>2, RowWriters, CreationWriters
  <1>4. Shown(t)'
    BY <1>3, ShownStays DEF Done
  <1> QED
    BY <1>1, <1>3, <1>4, NoneStarts DEF Done

\* A job that is now a success was one, or a worker makes it one.
LEMMA NewSuccess ==
  ASSUME JobTypes, [RetryNext]_vars, NEW k \in Job, job'[k].status = "SUCCESS"
  PROVE  job[k].status = "SUCCESS" \/ \E d \in Pod : WorkerSucceed(d, k)
  <1>0. RetryTypeOK
    BY DEF JobTypes
  <1>1. ASSUME NEW t \in Tx, CreateInsert(t) PROVE job[k].status = "SUCCESS"
    BY <1>0, <1>1, InsertWrites, JobUpdate
  <1>2. ASSUME NEW d \in Pod, NEW j \in Job, JobWrite(d, j)
        PROVE  job[k].status = "SUCCESS" \/ WorkerSucceed(d, k)
    <2>1. PICK new \in JobRow :
             /\ SetJob(j, new)
             /\ new.status = "SUCCESS" => WorkerSucceed(d, j)
      BY <1>2, WorkerWrites DEF JobWrite
    <2> QED
      BY <1>0, <2>1, JobUpdate
  <1>3. ASSUME NEW j \in Job, Time(j) PROVE job[k].status = "SUCCESS"
    <2>1. PICK new \in JobRow : SetJob(j, new) /\ new.status = job[j].status
      BY <1>3, TimeWrites
    <2> QED
      BY <1>0, <2>1, JobUpdate
  <1> QED
    BY <1>1, <1>2, <1>3, JobWriters

\* A retry that the agent accepts shows its result, if that can be recorded.
LEMMA ResultShows ==
  ASSUME JobTypes, Recorded, "db" \notin faults, [RetryNext]_vars,
         NEW d \in Pod, NEW j \in Job, WorkerRecord(d, j), job[j].tx \in Tx
  PROVE  Shown(job[j].tx)'
  <1> DEFINE t == job[j].tx
  <1>1. UNCHANGED <<apiAction, lostRounds>> /\ job' = job
    BY GivenStays DEF given, WorkerRecord, queueVars
  <1>2. t \in Bet /\ (row[t] = "LOST" => t \in lostRounds)
    BY RetryAssumption DEF Recorded
  <1>3. CASE Unrecordable(t)
    BY <1>1, <1>3 DEF Shown, Unrecordable
  <1>4. CASE ~Unrecordable(t)
    <2>1. row'[t] = Result
      <3>1. CASE MarkRows({t}, Result)
        BY <1>2, <3>1 DEF MarkRows
      <3>2. CASE apiAction = "SETTLE_BET" /\ row[t] \in {"WON", "LOST"} /\ UNCHANGED row
        BY <1>2, <1>4, <3>2 DEF Unrecordable, Result
      <3> QED
        BY <1>4, <3>1, <3>2 DEF WorkerRecord, RecordSettlement
    <2> QED
      BY <1>1, <2>1 DEF Shown, Result
  <1> QED
    BY <1>3, <1>4

\* A PLACED row becomes LOST by the settlement of a lost round.
LEMMA LostByFirst ==
  ASSUME JobTypes, JobsInv, "reject" \notin faults, [RetryNext]_vars, NEW t \in Tx,
         row[t] = "PLACED", row'[t] = "LOST"
  PROVE  t \in lostRounds
  <1> USE DEF agentVars
  <1>1. ASSUME NEW u \in Tx, FirstSettle(u) \/ FirstRefund(u) PROVE t \in lostRounds
    <2>1. u = t
      BY <1>1, FirstFacts
    <2>2. ~CallThrows(t)
      BY ThrowFacts
    <2> QED
      BY <1>1, <2>1, <2>2, RetryAssumption
         DEF FirstSettle, FirstRefund, RecordSettlement, MarkRows
  <1>2. ASSUME NEW u \in Tx, Create(u) \/ CreateFails(u) \/ JobLockExpires(u) PROVE FALSE
    BY <1>2 DEF Create, CreateFind, CreateInsert, CreateFails, JobLockExpires
  <1>3. ASSUME NEW d \in Pod, RunStart(d) \/ Run(d) \/ Crash(d) PROVE FALSE
    BY <1>3 DEF RunStart, Run, RunQuery, RunDone, Crash
  <1>4. ASSUME NEW d \in Pod, NEW j \in Job, Worker(d, j) PROVE FALSE
    <2>1. WorkerCall(d, j) \/ WorkerRecord(d, j)
      BY <1>4 DEF Worker, WorkerLock, WorkerCheck, WorkerReset, WorkerStart, WorkerSucceed,
                  WorkerFail, WorkerThrows, WorkerUnlock
    <2>2. job[j].tx \in Tx
      BY <2>1, JobFacts DEF JobTypes, WorkersHaveJobs, WorkerCall, WorkerRecord
    <2>3. CallThrows(job[j].tx) \/ MarkRows({job[j].tx}, Result)
      BY <2>1, RecordWrites DEF WorkerCall
    <2>4. job[j].tx = t
      BY <2>2, <2>3, ThrowFacts, RowsApart
    <2> QED
      BY <2>2, <2>3, <2>4, ThrowFacts, RetryAssumption DEF MarkRows, Result
  <1>5. ASSUME NEW j \in Job, Time(j) PROVE FALSE
    BY <1>5 DEF Time, JobDue, JobLate, JobStale
  <1>6. ~(SchedLockExpires \/ UNCHANGED vars)
    BY DEF SchedLockExpires, vars
  <1> QED
    BY <1>1, <1>2, <1>3, <1>4, <1>5, <1>6 DEF RetryNext

LEMMA RecordedStep ==
  ASSUME JobTypes, JobsInv, JobsInv', Recorded, "reject" \notin faults, "db" \notin faults,
         [RetryNext]_vars
  PROVE  Recorded'
  <1>0. RetryTypeOK
    BY DEF JobTypes
  <1>1. ASSUME NEW k \in Job, job'[k].status = "SUCCESS"
        PROVE  Done(job[k].tx)' /\ job'[k].tx = job[k].tx
    <2>1. CASE job[k].status = "SUCCESS"
      <3>1. job[k] # NoJob
        BY <1>0, <2>1, JobFacts
      <3>2. job[k].tx \in Tx /\ job'[k].tx = job[k].tx
        BY <1>0, <3>1, JobFacts, JobsStay
      <3> QED
        BY <2>1, <3>1, <3>2, DoneStays DEF Recorded, Done, JobsInv, TxSound, IsOf
    <2>2. ASSUME NEW d \in Pod, WorkerSucceed(d, k) PROVE Done(job[k].tx)' /\ job'[k].tx = job[k].tx
      <3>1. wpc[d][k] = "succeed" /\ UNCHANGED <<row, finding, inserting>>
        BY <2>2 DEF WorkerSucceed, agentVars
      <3>2. Shown(job[k].tx) /\ NoCreation(job[k].tx) /\ k \in Active(job[k].tx)
        BY <3>1 DEF Recorded, JobsInv, WorkerSound
      <3>3. PICK new \in JobRow :
               SetJob(k, new) /\ new.tx = job[k].tx /\ new.status = "SUCCESS"
        BY <2>2, WorkerWrites
      <3>4. job'[k] = new /\ \A j \in Job \ {k} : job'[j] = job[j]
        BY <1>0, <3>3, JobUpdate
      <3>5. job[k].tx \in Tx
        BY <1>0, <3>2, JobFacts DEF Active
      <3>6. \A j \in Active(job[k].tx) : j = k
        BY <3>2, <3>5 DEF JobsInv, TxSound
      <3>7. Active(new.tx)' = {}
        BY <3>3, <3>4, <3>6 DEF Active
      <3>8. row[job[k].tx] # "PLACED"
        BY <3>2, <3>5 DEF JobsInv, TxSound, IsOf, Active
      <3>9. Shown(job[k].tx)'
        BY <3>1, <3>2, <3>5, ShownStays, <3>3, <3>4
      <3> QED
        BY <1>0, <3>1, <3>2, <3>3, <3>4, <3>7, <3>8, <3>9 DEF Done, NoCreation
    <2> QED
      BY <1>1, <2>1, <2>2, NewSuccess
  <1>2. ASSUME NEW e \in Pod, NEW k \in Job, wpc'[e][k] = "succeed"
        PROVE  Shown(job[k].tx)' /\ job'[k].tx = job[k].tx
    <2>1. wpc[e][k] # "none"
      BY <1>0, <1>2, WorkerMoves, WorkerPaths
    <2>2. job[k].tx \in Tx /\ job'[k].tx = job[k].tx
      BY <1>0, <2>1, JobFacts, JobsStay DEF JobTypes, WorkersHaveJobs
    <2>3. CASE wpc[e][k] = "succeed"
      <3>1. Shown(job[k].tx) /\ row[job[k].tx] # "PLACED"
        BY <2>2, <2>3 DEF Recorded, JobsInv, TxSound, IsOf, JobTypes, WorkersHaveJobs
      <3>2. \A d \in Pod, j \in Job :
               WorkerCall(d, j) \/ WorkerRecord(d, j) => job[j].tx # job[k].tx
        BY <2>3, OneBusy DEF WorkerCall, WorkerRecord
      <3>3. row'[job[k].tx] = row[job[k].tx]
        BY <2>2, <3>1, <3>2, RowWriters
      <3> QED
        BY <2>2, <3>1, <3>3, ShownStays
    <2>4. CASE wpc[e][k] # "succeed"
      <3>1. WorkerRecord(e, k)
        BY <1>0, <1>2, <2>4, WorkerMoves, WorkerPaths
      <3> QED
        BY <2>2, <3>1, ResultShows
    <2> QED
      BY <2>3, <2>4
  <1>3. ASSUME NEW t \in Tx, row'[t] = "LOST" PROVE t \in lostRounds
    <2>1. CASE row[t] = "LOST"
      BY <2>1 DEF Recorded
    <2>2. CASE row[t] = "PLACED"
      BY <1>3, <2>2, LostByFirst
    <2>3. CASE row[t] \notin {"LOST", "PLACED"}
      <3>1. PICK d \in Pod, j \in Job :
               job[j].tx = t /\ (WorkerCall(d, j) \/ WorkerRecord(d, j))
        BY <1>3, <2>3, RowWriters
      <3>2. CallThrows(t) \/ MarkRows({t}, Result)
        BY <1>3, <2>3, <3>1, RecordWrites DEF WorkerCall
      <3> QED
        BY <1>3, <3>2, ThrowFacts, RetryAssumption DEF MarkRows, Result
    <2> QED
      BY <2>1, <2>2, <2>3
  <1> QED
    BY <1>1, <1>2, <1>3, GivenStays
       DEF Recorded, Done, Shown, Unrecordable, Result, NoCreation, Active, given

\* A win or a refund whose retry succeeded reads WON or REFUNDED, however its calls fail,
\* whatever creations fail and wherever pods die, as long as MySQL answers and runs and
\* workers end before their locks do.
THEOREM SuccessIsShown == RetrySpec => []SuccessShowsInRow
  <1>1. RetryInit => JobsRecorded
    BY RetryAssumption DEF RetryInit, JobsRecorded, Recorded, NoJob
  <1>2. JobTypes /\ JobsAlone /\ JobsAlone' /\ JobsRecorded /\ [RetryNext]_vars => JobsRecorded'
    <2> SUFFICES ASSUME JobTypes, JobsAlone, JobsAlone', JobsRecorded, [RetryNext]_vars,
                        Within({"net", "lost", "nojob", "crash"})'
                 PROVE  Recorded'
      BY DEF JobsRecorded
    <2>1. faults \subseteq {"net", "lost", "nojob", "crash"} /\ faults' = faults
      BY GivenStays DEF Within, given
    <2>2. Recorded /\ JobsInv /\ JobsInv'
      BY <2>1 DEF JobsRecorded, JobsAlone, Within
    <2> QED
      BY <2>1, <2>2, RecordedStep
  <1>3. JobsRecorded => SuccessShowsInRow
    BY DEF JobsRecorded, Recorded, SuccessShowsInRow
  <1>4. RetrySpec => []JobsAlone
    BY JobsAloneInitial, AloneStep, TypesInvariant, PTL DEF RetrySpec
  <1> QED
    BY <1>1, <1>2, <1>3, <1>4, TypesInvariant, PTL DEF RetrySpec

=============================================================================
