----------------------------- MODULE WalletRetry -----------------------------
(***************************************************************************)
(* The retry of settlements and refunds: settleBet and refundBet of        *)
(* SingleWalletFunctionsService when they fail, WalletRetryJobService,     *)
(* WalletRetryProcessorService and WalletRetrySchedulerService, run by     *)
(* every pod each minute.  A behaviour retries calls of one API action:    *)
(* jobs and job locks of the two have different keys and never meet.       *)
(*                                                                         *)
(* Time is abstract: a job becomes due, a PROCESSING job becomes stale, a  *)
(* job becomes late (72 hours after its first failure).  A worker is one   *)
(* activation of processRetryJob by the run of a pod.                      *)
(***************************************************************************)
EXTENDS Integers, FiniteSets

CONSTANTS
    Bet,       \* bets, by their platform transaction ids
    Tx,        \* the transactions that jobs are created for
    Batch,     \* the bets that are refunded in one call with a transaction
    MaxJobs,   \* bound of the model: rows of wallet_retry_jobs
    Pod,       \* application instances
    MaxCalls,  \* bound of the model: calls for one transaction the agent applies
    MaxCrashes,\* bound of the model: crashes of a pod
    Scenarios, \* the API actions, lost rounds and sets of faults of a behaviour
    Free

Job == 1 .. MaxJobs

FaultKind == {"reject",  \* the agent answers with a status other than 0000
              "net",     \* the call never reaches the agent
              "lost",    \* the agent applies the call and the reply is lost
              "db",      \* a MySQL call fails
              "nojob",   \* createRetryJob fails, or its pod dies before the insert
              "slowrun", \* a run outlives the scheduler lock (60 s)
              "slowjob", \* a worker outlives its job lock (300 s)
              "crash"}   \* a pod dies in the middle of a run

ASSUME RetryAssumption ==
    /\ MaxJobs \in Nat \ {0} /\ MaxCalls \in Nat /\ MaxCrashes \in Nat
    /\ Tx \subseteq Bet /\ Batch \in [Tx -> SUBSET Bet]
    /\ \A t \in Tx : Batch[t] \cap Tx = {t}
    /\ \A t, u \in Tx : t # u => Batch[t] \cap Batch[u] = {}
    /\ Scenarios \subseteq [apiAction : {"SETTLE_BET", "REFUND_BET"}, lostRounds : SUBSET Tx,
                          faults : SUBSET FaultKind]
    /\ Free \notin Pod /\ Free \notin Pod \X Job

VARIABLES
    apiAction,  \* the calls of this behaviour: never changes
    lostRounds, \* the bets whose winAmount is 0: never changes
    faults,     \* what the environment does in this behaviour: never changes
    row,        \* status of the bet rows
    calls,      \* settlements or refunds the agent has applied
    finding,    \* createRetryJob activations before their findOne
    inserting,  \* ... and between their findOne and their save
    job,        \* wallet_retry_jobs
    schedLock,  \* Redis wallet-retry-scheduler-lock
    jobLock,    \* Redis retry-job-lock:tx:SETTLE_BET
    ppc,        \* where the run of a pod is suspended
    wpc,        \* where its workers are suspended
    seen,       \* retryAttempt of the job in the run's query
    crashes

given     == <<apiAction, lostRounds, faults>>
agentVars == <<given, row, calls>>
queueVars == <<finding, inserting, job>>
runVars   == <<schedLock, ppc>>
workVars  == <<jobLock, wpc, seen>>
vars == <<apiAction, lostRounds, faults, row, calls, finding, inserting, job, schedLock, jobLock,
          ppc, wpc, seen, crashes>>

LastFixed == 3               \* attempts 1 to 3 have fixed times
Attempt   == 0 .. LastFixed + 1   \* all later attempts are alike

NoJob  == [status |-> "none"]
JobRow == [status : {"PENDING", "PROCESSING", "SUCCESS", "EXPIRED"},
           tx : Tx, attempt : Attempt, due : BOOLEAN, stale : BOOLEAN, late : BOOLEAN]

WorkerPC == {"none", "todo", "check", "reset", "start", "call", "record",
             "succeed", "fail", "unlock"}

RowStatus == {"PLACED", "WON", "LOST", "REFUNDED", "SETTLEMENT_FAILED"}

RetryTypeOK ==
    /\ [apiAction |-> apiAction, lostRounds |-> lostRounds, faults |-> faults] \in Scenarios
    /\ row \in [Bet -> RowStatus]
    /\ calls \in [Tx -> Nat]
    /\ finding \in [Tx -> Nat] /\ inserting \in [Tx -> Nat]
    /\ job \in [Job -> JobRow \cup {NoJob}]
    /\ schedLock \in Pod \cup {Free}
    /\ jobLock \in [Tx -> (Pod \X Job) \cup {Free}]
    /\ ppc \in [Pod -> {"idle", "query", "run"}]
    /\ wpc \in [Pod -> [Job -> WorkerPC]]
    /\ seen \in [Pod -> [Job -> Attempt]]
    /\ crashes \in 0 .. MaxCrashes

RetryInit ==
    /\ \E s \in Scenarios :
          apiAction = s.apiAction /\ lostRounds = s.lostRounds /\ faults = s.faults
    /\ row = [b \in Bet |-> "PLACED"]
    /\ calls = [t \in Tx |-> 0]
    /\ finding = [t \in Tx |-> 0]
    /\ inserting = [t \in Tx |-> 0]
    /\ job = [j \in Job |-> NoJob]
    /\ schedLock = Free
    /\ jobLock = [t \in Tx |-> Free]
    /\ ppc = [d \in Pod |-> "idle"]
    /\ wpc = [d \in Pod |-> [j \in Job |-> "none"]]
    /\ seen = [d \in Pod |-> [j \in Job |-> 0]]
    /\ crashes = 0

-----------------------------------------------------------------------------
(* settleBet and refundBet, and the creation of retry jobs behind their back *)

Active(t) == {j \in Job : /\ job[j] # NoJob
                          /\ job[j].tx = t
                          /\ job[j].status \in {"PENDING", "PROCESSING"}}

AgentApplies(t) ==
    /\ calls[t] < MaxCalls
    /\ calls' = [calls EXCEPT ![t] = @ + 1]

\* The bets of one call: a settlement has one.
BetsOf(t) == IF apiAction = "REFUND_BET" THEN Batch[t] ELSE {t}

MarkRows(bets, status) == row' = [b \in Bet |-> IF b \in bets THEN status ELSE row[b]]

\* A rejected call throws inside the try block, so that its own catch block logs,
\* marks the rows and starts createRetryJob a second time.  Any other failure
\* does so once.  createRetryJob is for the first transaction, and not awaited.
CallThrows(t) ==
    /\ MarkRows(BetsOf(t), "SETTLEMENT_FAILED")
    /\ \/ "reject" \in faults /\ finding' = [finding EXCEPT ![t] = @ + 2] /\ UNCHANGED calls
       \/ "net" \in faults /\ finding' = [finding EXCEPT ![t] = @ + 1] /\ UNCHANGED calls
       \/ "lost" \in faults /\ finding' = [finding EXCEPT ![t] = @ + 1] /\ AgentApplies(t)

\* recordSettlement is idempotent on WON and LOST, and overwrites the rest.
RecordSettlement(t, status) ==
    IF row[t] \in {"WON", "LOST"} THEN UNCHANGED row ELSE MarkRows({t}, status)

\* The settlement at the end of a round.
FirstSettle(t) ==
    /\ apiAction = "SETTLE_BET"
    /\ row[t] = "PLACED"
    /\ \/ AgentApplies(t) /\ UNCHANGED finding
          /\ RecordSettlement(t, IF t \in lostRounds THEN "LOST" ELSE "WON")
       \/ CallThrows(t)
    /\ UNCHANGED <<given, inserting, job, runVars, workVars, crashes>>

\* The refund scheduler's call for a batch (RefundScheduler has its steps).
FirstRefund(t) ==
    /\ apiAction = "REFUND_BET"
    /\ \A b \in Batch[t] : row[b] = "PLACED"
    /\ \/ AgentApplies(t) /\ MarkRows(Batch[t], "REFUNDED") /\ UNCHANGED finding
       \/ CallThrows(t)
    /\ UNCHANGED <<given, inserting, job, runVars, workVars, crashes>>

\* Mutant: a job that is being processed does not count as an active one.
CreateFindPending(t) ==
    /\ finding[t] > 0
    /\ finding' = [finding EXCEPT ![t] = @ - 1]
    /\ IF \E j \in Active(t) : job[j].status = "PENDING"
         THEN UNCHANGED inserting
         ELSE inserting' = [inserting EXCEPT ![t] = @ + 1]
    /\ UNCHANGED <<agentVars, job, runVars, workVars, crashes>>

\* createRetryJob: findOne for an active job of the transaction and action ...
CreateFind(t) ==
    /\ finding[t] > 0
    /\ finding' = [finding EXCEPT ![t] = @ - 1]
    /\ IF Active(t) # {}
         THEN UNCHANGED inserting
         ELSE inserting' = [inserting EXCEPT ![t] = @ + 1]
    /\ UNCHANGED <<agentVars, job, runVars, workVars, crashes>>

\* ... then save, with no unique key in the way.
CreateInsert(t) ==
    /\ inserting[t] > 0
    /\ inserting' = [inserting EXCEPT ![t] = @ - 1]
    /\ \E j \in Job :
          /\ job[j] = NoJob /\ \A k \in 1 .. j - 1 : job[k] # NoJob
          /\ job' = [job EXCEPT ![j] =
                [status |-> "PENDING", tx |-> t, attempt |-> 0,
                 due |-> FALSE, stale |-> FALSE, late |-> FALSE]]
    /\ UNCHANGED <<agentVars, finding, runVars, workVars, crashes>>

\* createRetryJobSafely logs the failure of createRetryJob, and nothing else.
CreateFails(t) ==
    /\ "nojob" \in faults
    /\ \/ finding[t] > 0 /\ finding' = [finding EXCEPT ![t] = @ - 1] /\ UNCHANGED inserting
       \/ inserting[t] > 0 /\ inserting' = [inserting EXCEPT ![t] = @ - 1] /\ UNCHANGED finding
    /\ UNCHANGED <<agentVars, job, runVars, workVars, crashes>>

-----------------------------------------------------------------------------
(* processDueRetries *)

RunStart(d) ==
    /\ ppc[d] = "idle"
    /\ schedLock = Free
    /\ schedLock' = d
    /\ ppc' = [ppc EXCEPT ![d] = "query"]
    /\ UNCHANGED <<agentVars, queueVars, workVars, crashes>>

\* findDueRetries: PENDING and due, or PROCESSING for ten minutes.  If the query
\* fails the run has nothing to do.
Due(j) == /\ job[j] # NoJob
          /\ \/ job[j].status = "PENDING" /\ job[j].due
             \/ job[j].status = "PROCESSING" /\ job[j].stale

RunQuery(d) ==
    /\ ppc[d] = "query"
    /\ ppc' = [ppc EXCEPT ![d] = "run"]
    /\ \E due \in {{j \in Job : Due(j)}} \cup (IF "db" \in faults THEN {{}} ELSE {}) :
          /\ wpc' = [wpc EXCEPT ![d] = [j \in Job |-> IF j \in due THEN "todo" ELSE "none"]]
          /\ seen' = [seen EXCEPT ![d] = [j \in Job |-> IF j \in due THEN job[j].attempt ELSE 0]]
    /\ UNCHANGED <<agentVars, queueVars, schedLock, jobLock, crashes>>

\* finally { releaseLock }: an unconditional DEL.
RunDone(d) ==
    /\ ppc[d] = "run"
    /\ \A j \in Job : wpc[d][j] = "none"
    /\ ppc' = [ppc EXCEPT ![d] = "idle"]
    /\ schedLock' = Free
    /\ UNCHANGED <<agentVars, queueVars, workVars, crashes>>

-----------------------------------------------------------------------------
(* processRetryJob: worker (d, j) *)

WGoto(d, j, label) == wpc' = [wpc EXCEPT ![d][j] = label]
SetJob(j, new) == job' = [job EXCEPT ![j] = new]
WorkerEnds(d, j) == /\ WGoto(d, j, "none")
                    /\ seen' = [seen EXCEPT ![d][j] = 0]

WorkerLock(d, j) ==
    /\ wpc[d][j] = "todo"
    /\ \/ /\ jobLock[job[j].tx] = Free
          /\ jobLock' = [jobLock EXCEPT ![job[j].tx] = <<d, j>>]
          /\ WGoto(d, j, "check")
          /\ UNCHANGED seen
       \/ /\ jobLock[job[j].tx] # Free
          /\ WorkerEnds(d, j)
          /\ UNCHANGED jobLock
    /\ UNCHANGED <<agentVars, queueVars, runVars, crashes>>

\* Mutant: the status is not read again under the lock.
WorkerCheckNothing(d, j) ==
    /\ wpc[d][j] = "check"
    /\ WGoto(d, j, "start")
    /\ UNCHANGED <<agentVars, queueVars, runVars, jobLock, seen, crashes>>

\* The job is read again under the lock.  A PROCESSING one is taken for stale.
WorkerCheck(d, j) ==
    /\ wpc[d][j] = "check"
    /\ \/ job[j].status = "PENDING" /\ WGoto(d, j, "start")
       \/ job[j].status = "PROCESSING" /\ WGoto(d, j, "reset")
       \/ job[j].status \in {"SUCCESS", "EXPIRED"} /\ WGoto(d, j, "unlock")
    /\ UNCHANGED <<agentVars, queueVars, runVars, jobLock, seen, crashes>>

WorkerReset(d, j) ==
    /\ wpc[d][j] = "reset"
    /\ SetJob(j, [job[j] EXCEPT !.status = "PENDING", !.stale = FALSE])
    /\ WGoto(d, j, "start")
    /\ UNCHANGED <<agentVars, finding, inserting, runVars, jobLock, seen, crashes>>

WorkerStart(d, j) ==
    /\ wpc[d][j] = "start"
    /\ SetJob(j, [job[j] EXCEPT !.status = "PROCESSING", !.stale = FALSE])
    /\ WGoto(d, j, "call")
    /\ UNCHANGED <<agentVars, finding, inserting, runVars, jobLock, seen, crashes>>

\* executeRetry sends the settlement again, or the refund of the whole batch,
\* whose transactions the job carries in its requestPayload.
WorkerCall(d, j) ==
    /\ wpc[d][j] = "call"
    /\ \/ AgentApplies(job[j].tx) /\ WGoto(d, j, "record") /\ UNCHANGED <<row, finding>>
       \/ CallThrows(job[j].tx) /\ WGoto(d, j, "fail")
    /\ UNCHANGED <<given, inserting, job, runVars, jobLock, seen, crashes>>

\* Mutant: the bet row is left to the next clean-up.
WorkerRecordNothing(d, j) ==
    /\ wpc[d][j] = "record"
    /\ WGoto(d, j, "succeed")
    /\ UNCHANGED <<agentVars, queueVars, runVars, jobLock, seen, crashes>>

\* createRetryJob stores no winAmount for a win of 0, and recordSettlement is handed
\* "null" then, which the decimal column refuses.
Unrecordable(t) == apiAction = "SETTLE_BET" /\ t \in lostRounds

\* What the row of an accepted call should read.  Of a batch, no row but that of the
\* job is updated by a retry.
Result == IF apiAction = "REFUND_BET" THEN "REFUNDED" ELSE "WON"

\* recordSettlement or updateStatus; a failure is logged and the retry still succeeds.
WorkerRecord(d, j) ==
    /\ wpc[d][j] = "record"
    /\ LET t == job[j].tx
       IN  \/ apiAction = "REFUND_BET" /\ MarkRows({t}, Result)
           \/ apiAction = "SETTLE_BET" /\ ~Unrecordable(t) /\ RecordSettlement(t, Result)
           \/ (Unrecordable(t) \/ "db" \in faults) /\ UNCHANGED row
    /\ WGoto(d, j, "succeed")
    /\ UNCHANGED <<given, calls, queueVars, runVars, jobLock, seen, crashes>>

\* Mutant: a status the column does not have.
WorkerSucceedCompleted(d, j) ==
    /\ wpc[d][j] = "succeed"
    /\ SetJob(j, [job[j] EXCEPT !.status = "COMPLETED"])
    /\ WGoto(d, j, "unlock")
    /\ UNCHANGED <<agentVars, finding, inserting, runVars, jobLock, seen, crashes>>

\* markSuccess.
WorkerSucceed(d, j) ==
    /\ wpc[d][j] = "succeed"
    /\ SetJob(j, [job[j] EXCEPT !.status = "SUCCESS", !.due = FALSE, !.stale = FALSE,
                                !.late = FALSE])
    /\ WGoto(d, j, "unlock")
    /\ UNCHANGED <<agentVars, finding, inserting, runVars, jobLock, seen, crashes>>

\* Mutant: a failed attempt leaves the job to be found stale.
WorkerFailKeeps(d, j) ==
    /\ wpc[d][j] = "fail"
    /\ job[j].late
    /\ WGoto(d, j, "unlock")
    /\ UNCHANGED <<agentVars, queueVars, runVars, jobLock, seen, crashes>>

\* scheduleNextRetry or markExpired, counted from the attempt the query returned:
\* calculateNextRetryTime gives a time for attempts 1 to 3, and until 72 hours.
WorkerFail(d, j) ==
    /\ wpc[d][j] = "fail"
    /\ LET next == seen[d][j] + 1
       IN  SetJob(j,
             IF next <= LastFixed \/ ~job[j].late
               THEN [job[j] EXCEPT !.status = "PENDING", !.due = FALSE, !.stale = FALSE,
                                   !.attempt = IF next \in Attempt THEN next ELSE @]
               ELSE [job[j] EXCEPT !.status = "EXPIRED", !.due = FALSE, !.stale = FALSE,
                                   !.late = FALSE])
    /\ WGoto(d, j, "unlock")
    /\ UNCHANGED <<agentVars, finding, inserting, runVars, jobLock, seen, crashes>>

\* A failing MySQL call lands in the catch block, which counts it as a failed
\* attempt, even after the settlement; a failing catch block gives up.
WorkerThrows(d, j) ==
    /\ "db" \in faults
    /\ \/ wpc[d][j] \in {"check", "reset", "start", "succeed"} /\ WGoto(d, j, "fail")
       \/ wpc[d][j] = "fail" /\ WGoto(d, j, "unlock")
    /\ UNCHANGED <<agentVars, queueVars, runVars, jobLock, seen, crashes>>

WorkerUnlock(d, j) ==
    /\ wpc[d][j] = "unlock"
    /\ jobLock' = [jobLock EXCEPT ![job[j].tx] = Free]
    /\ WorkerEnds(d, j)
    /\ UNCHANGED <<agentVars, queueVars, runVars, crashes>>

-----------------------------------------------------------------------------
(* Time and crashes *)

\* An un-awaited createRetryJob takes milliseconds, the next attempt and the wait
\* for a stale job minutes.
NoCreation(t) == finding[t] = 0 /\ inserting[t] = 0

JobDue(j) ==
    /\ job[j] # NoJob
    /\ job[j].status = "PENDING" /\ ~job[j].due
    /\ NoCreation(job[j].tx)
    /\ SetJob(j, [job[j] EXCEPT !.due = TRUE])
    /\ UNCHANGED <<agentVars, finding, inserting, runVars, workVars, crashes>>

JobLate(j) ==
    /\ job[j] # NoJob
    /\ job[j].status \in {"PENDING", "PROCESSING"} /\ ~job[j].late
    /\ SetJob(j, [job[j] EXCEPT !.late = TRUE])
    /\ UNCHANGED <<agentVars, finding, inserting, runVars, workVars, crashes>>

Working(j) == {d \in Pod : wpc[d][j] \notin {"none", "todo"}}

\* Ten minutes without an update, longer than the job lock lives.
JobStale(j) ==
    /\ job[j] # NoJob
    /\ job[j].status = "PROCESSING" /\ ~job[j].stale
    /\ "slowjob" \in faults \/ Working(j) = {}
    /\ jobLock[job[j].tx] = Free /\ NoCreation(job[j].tx)
    /\ SetJob(j, [job[j] EXCEPT !.stale = TRUE])
    /\ UNCHANGED <<agentVars, finding, inserting, runVars, workVars, crashes>>

SchedLockExpires ==
    /\ schedLock # Free
    /\ "slowrun" \in faults \/ ppc[schedLock] = "idle"
    /\ schedLock' = Free
    /\ UNCHANGED <<agentVars, queueVars, ppc, workVars, crashes>>

JobLockExpires(t) ==
    /\ jobLock[t] # Free
    /\ \/ "slowjob" \in faults
       \/ wpc[jobLock[t][1]][jobLock[t][2]] \in {"none", "todo"}
    /\ jobLock' = [jobLock EXCEPT ![t] = Free]
    /\ UNCHANGED <<agentVars, queueVars, runVars, wpc, seen, crashes>>

Crash(d) ==
    /\ "crash" \in faults /\ crashes < MaxCrashes
    /\ ppc[d] # "idle"
    /\ crashes' = crashes + 1
    /\ ppc' = [ppc EXCEPT ![d] = "idle"]
    /\ wpc' = [wpc EXCEPT ![d] = [j \in Job |-> "none"]]
    /\ seen' = [seen EXCEPT ![d] = [j \in Job |-> 0]]
    /\ UNCHANGED <<agentVars, queueVars, schedLock, jobLock>>

-----------------------------------------------------------------------------
Worker(d, j) ==
    \/ WorkerLock(d, j) \/ WorkerCheck(d, j) \/ WorkerReset(d, j) \/ WorkerStart(d, j)
    \/ WorkerCall(d, j) \/ WorkerRecord(d, j) \/ WorkerSucceed(d, j)
    \/ WorkerFail(d, j) \/ WorkerThrows(d, j) \/ WorkerUnlock(d, j)

Create(t) == CreateFind(t) \/ CreateInsert(t)
Run(d)    == RunQuery(d) \/ RunDone(d)
Time(j)   == JobDue(j) \/ JobLate(j) \/ JobStale(j)

RetryNext ==
    \/ \E t \in Tx : FirstSettle(t) \/ FirstRefund(t) \/ Create(t) \/ CreateFails(t) \/ JobLockExpires(t)
    \/ \E d \in Pod : RunStart(d) \/ Run(d) \/ Crash(d)
    \/ \E d \in Pod, j \in Job : Worker(d, j)
    \/ \E j \in Job : Time(j)
    \/ SchedLockExpires

RetrySpec == RetryInit /\ [][RetryNext]_vars

\* The cron runs every minute on every pod, time passes, Redis drops keys, and
\* every call returns.
RetryFairness ==
    /\ \A t \in Tx : WF_vars(Create(t)) /\ WF_vars(JobLockExpires(t))
    /\ \A d \in Pod : SF_vars(RunStart(d)) /\ WF_vars(Run(d))
    /\ \A d \in Pod, j \in Job : WF_vars(Worker(d, j))
    /\ \A j \in Job : SF_vars(JobDue(j)) /\ SF_vars(JobLate(j)) /\ SF_vars(JobStale(j))
    /\ WF_vars(SchedLockExpires)

FairRetrySpec == RetrySpec /\ RetryFairness

-----------------------------------------------------------------------------
(* Properties: each says which faults it withstands *)

Within(kinds) == faults \subseteq kinds
Finished(j)   == job[j].status \in {"SUCCESS", "EXPIRED"}

\* A job that has ended stays as it ended, whatever stale query results other pods
\* still work from: it is neither run again nor counted as failed.
FinishedJobsStay ==
    [][Within({"net", "lost", "nojob", "crash", "slowrun"}) =>
        \A j \in Job : Finished(j) => job'[j].status = job[j].status]_vars

\* createRetryJob "prevents duplicate retry jobs for the same transaction".
NoDuplicateJobs == \A t \in Tx : Cardinality(Active(t)) <= 1

\* It does for a settlement that fails once, and whose runs end in time.
OneActiveJob == Within({"net", "lost", "db", "nojob", "crash"}) => NoDuplicateJobs

\* The row shows what the agent has accepted, as far as a retry can record it.
Shown(t) == Unrecordable(t) \/ row[t] = Result

\* A win or a refund whose retry succeeded reads WON or REFUNDED: no failure of another
\* attempt, and no death of a pod between the calls, marks it failed again.  It is not
\* so of a lost round, whose row no retry settles though the agent has accepted it.
SuccessShowsInRow ==
    Within({"net", "lost", "nojob", "crash"}) =>
        \A j \in Job : job[j].status = "SUCCESS" => Shown(job[j].tx)

\* A failed settlement or refund ends: a retry succeeds, and the row of a win or a refund
\* shows it for good, or its retries are given up after 72 hours; a pod that dies in the
\* middle of an attempt does not change that.
FailedIsRetried ==
    \A t \in Tx :
        row[t] = "SETTLEMENT_FAILED" /\ Within({"net", "lost", "crash"}) ~>
            \E j \in Job :
                /\ job[j].status \in {"SUCCESS", "EXPIRED"} /\ job[j].tx = t
                /\ job[j].status = "SUCCESS" => Shown(t)

-----------------------------------------------------------------------------
(* Why FinishedJobsStay holds: an attempt owns the lock of its transaction *)

WorkersHaveJobs == \A d \in Pod, j \in Job : wpc[d][j] # "none" => job[j] # NoJob

WorkersHoldLocks ==
    \A d \in Pod, j \in Job :
        wpc[d][j] \notin {"none", "todo"} => jobLock[job[j].tx] = <<d, j>>

\* Between its look at the job and its last write a worker's job has not ended.
Attempting   == {"reset", "start", "call", "record", "succeed", "fail"}
AttemptsOpen == \A d \in Pod, j \in Job : wpc[d][j] \in Attempting => ~Finished(j)

-----------------------------------------------------------------------------
(* Why OneActiveJob holds: one run, one creation and one job at a time *)

RunsAlone ==
    /\ \A d \in Pod : ppc[d] # "idle" => schedLock = d
    /\ \A d \in Pod, j \in Job : wpc[d][j] # "none" => ppc[d] = "run"

IsOf(j, t) == job[j] # NoJob /\ job[j].tx = t

\* A transaction has no job and no creation before its first call has failed; then it
\* has one of them at a time, and no attempt is due while a creation is in flight.
TxSound(t) ==
    /\ row[t] = "PLACED" => NoCreation(t) /\ \A j \in Job : ~IsOf(j, t)
    /\ finding[t] + inserting[t] <= 1
    /\ inserting[t] > 0 => Active(t) = {}
    /\ ~NoCreation(t) => \A j \in Job : IsOf(j, t) => ~Due(j)
    /\ \A j, k \in Active(t) : j = k

\* What the steps of a worker rely on.
WorkerSound(d, j) ==
    LET at == wpc[d][j]
    IN  /\ at \notin {"none", "unlock"} => j \in Active(job[j].tx)
        /\ at \notin {"none", "unlock", "fail"} => NoCreation(job[j].tx)
        /\ at \in {"todo", "check"} => Due(j)
        /\ at = "reset" => job[j].status = "PROCESSING"
        /\ at = "start" => job[j].status = "PENDING"
        /\ at \in {"call", "record", "succeed"} => job[j].status = "PROCESSING" /\ ~job[j].stale

JobsInv ==
    /\ RunsAlone
    /\ \A t \in Tx : TxSound(t)
    /\ \A d \in Pod, j \in Job : WorkerSound(d, j)

-----------------------------------------------------------------------------
(* Why SuccessShowsInRow holds: nothing is left to overwrite the row *)

Recorded ==
    /\ \A j \in Job :
          job[j].status = "SUCCESS" =>
              LET t == job[j].tx
              IN  Shown(t) /\ NoCreation(t) /\ Active(t) = {}
    /\ \A d \in Pod, j \in Job : wpc[d][j] = "succeed" => Shown(job[j].tx)
    /\ \A t \in Tx : row[t] = "LOST" => t \in lostRounds

JobsKept     == Within({"net", "lost", "nojob", "crash", "slowrun"}) => WorkersHoldLocks /\ AttemptsOpen
JobsAlone    == Within({"net", "lost", "db", "nojob", "crash"}) => JobsInv
JobsRecorded == Within({"net", "lost", "nojob", "crash"}) => Recorded
=============================================================================
