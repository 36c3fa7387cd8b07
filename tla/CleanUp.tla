-------------------------------- MODULE CleanUp --------------------------------
(***************************************************************************)
(* The monthly clean-ups: BetCleanupSchedulerService deletes old bets,     *)
(* WalletAuditCleanupService old audit records and then old retry jobs.    *)
(* Both run on every server at midnight UTC of the first of a month, each  *)
(* behind its own Redis lock and its own last-run key.  The key and the    *)
(* cutoff are taken from the date that the server's own clock shows then.  *)
(*                                                                         *)
(* Time is cut where a month may begin: month m of UTC begins at time 3*m, *)
(* that of a server to the east of it one earlier, to the west one later.  *)
(* Rows created between two such times share their fate, so that a table   *)
(* is the set of the times it has rows of.                                 *)
(***************************************************************************)
EXTENDS Integers, Sequences

CONSTANTS
    Cleaner,           \* servers
    LastMonth,         \* bounds the months of a behaviour
    Zones,             \* the zones that the servers' clocks may show: 1 is east of UTC, 0 is
                       \* UTC, -1 is west of it, by more hours than a run is late
    CleanUpScenarios,  \* the sets of events a behaviour may meet
    NoMonth,           \* the last-run key is absent
    NoCleaner          \* the lock is free

CleanUpEvent == {"fail",   \* a MySQL or Redis command fails
                 "die",    \* a server dies, or is down at midnight
                 "slow",   \* a run outlives the hour of its lock, or starts as late
                 "flush"}  \* a client disconnects, which flushes Redis

Month == 0 .. LastMonth
Time == 0 .. 3 * LastMonth
KeptMonths == 2

Sweep == {"bets", "wallet"}
Tables(sweep) == IF sweep = "bets" THEN <<"bets">> ELSE <<"audits", "jobs">>
CleanedTable == {"bets", "audits", "jobs"}
CleanUpStage == {"idle", "check", "delete", "mark", "unlock"}

ASSUME CleanUpAssumption ==
    /\ LastMonth \in Nat /\ LastMonth >= KeptMonths
    /\ CleanUpScenarios \subseteq SUBSET CleanUpEvent
    /\ Zones \subseteq [Cleaner -> {-1, 0, 1}]
    /\ NoMonth \notin Int
    /\ NoCleaner \notin Cleaner

VARIABLES
    hitches,    \* what may happen in this behaviour: never changes
    zone,       \* of the servers' clocks: never changes
    month,      \* the current month of UTC, as it begins
    rows,       \* the times a table has rows of
    due,        \* the runs whose timer is to go off
    stage,      \* the command a run is about to send
    cleared,    \* how many of its tables a run has cleared
    sweepLock,  \* bet-cleanup-scheduler-lock, wallet-audit-cleanup-lock
    lastRun,    \* bet-cleanup-last-run, wallet-audit-cleanup-last-run
    deletions   \* history: the deletions a table has seen in this month

cleanUpVars == <<hitches, zone, month, rows, due, stage, cleared, sweepLock, lastRun, deletions>>

CleanUpTypeOK ==
    /\ hitches \in CleanUpScenarios
    /\ zone \in Zones
    /\ month \in Month
    /\ rows \in [CleanedTable -> SUBSET Time]
    /\ due \subseteq Cleaner \X Sweep
    /\ stage \in [Cleaner \X Sweep -> CleanUpStage]
    /\ cleared \in [Cleaner \X Sweep -> 0 .. 2]
    /\ sweepLock \in [Sweep -> Cleaner \cup {NoCleaner}]
    /\ lastRun \in [Sweep -> Int \cup {NoMonth}]
    /\ deletions \in [CleanedTable -> Nat]

CleanUpInit ==
    /\ hitches \in CleanUpScenarios
    /\ zone \in Zones
    /\ month = KeptMonths
    /\ rows = [t \in CleanedTable |-> 0 .. 3 * KeptMonths]
    /\ due = {}
    /\ stage = [run \in Cleaner \X Sweep |-> "idle"]
    /\ cleared = [run \in Cleaner \X Sweep |-> 0]
    /\ sweepLock = [sweep \in Sweep |-> NoCleaner]
    /\ lastRun = [sweep \in Sweep |-> NoMonth]
    /\ deletions = [t \in CleanedTable |-> 0]

-----------------------------------------------------------------------------
(* Time.  Months are busy: every table gets rows.  By the first of the next   *)
(* month the locks (an hour) and the last-run keys (three days) are gone.     *)

MonthBegins ==
    /\ month < LastMonth
    /\ due = {}
    /\ \A run \in Cleaner \X Sweep : stage[run] = "idle"
    /\ month' = month + 1
    /\ rows' = [t \in CleanedTable |-> rows[t] \cup (3 * month .. 3 * (month + 1))]
    /\ due' = Cleaner \X Sweep
    /\ sweepLock' = [sweep \in Sweep |-> NoCleaner]
    /\ lastRun' = [sweep \in Sweep |-> NoMonth]
    /\ deletions' = [t \in CleanedTable |-> 0]
    /\ UNCHANGED <<hitches, zone, stage, cleared>>

-----------------------------------------------------------------------------
(* runCleanup *)

\* new Date(): at midnight UTC the date is still the last of the old month to the west.
LocalMonth(s) == IF zone[s] < 0 THEN month - 1 ELSE month

\* new Date(now.getFullYear(), now.getMonth() - 2, 1) is local, too.
Cutoff(s) == 3 * (LocalMonth(s) - KeptMonths) - zone[s]

To(run, label) == stage' = [stage EXCEPT ![run] = label]

\* A lock that is held, or cannot be asked for, ends the run.
LockSweep(run) ==
    /\ run \in due
    /\ due' = due \ {run}
    /\ \/ /\ sweepLock[run[2]] = NoCleaner
          /\ sweepLock' = [sweepLock EXCEPT ![run[2]] = run[1]]
          /\ To(run, "check")
          /\ cleared' = [cleared EXCEPT ![run] = 0]
       \/ /\ sweepLock[run[2]] # NoCleaner \/ "fail" \in hitches
          /\ UNCHANGED <<sweepLock, stage, cleared>>
    /\ UNCHANGED <<hitches, zone, month, rows, lastRun, deletions>>

\* The key is the day's date: of this run's month, as others have expired.
Marked(run) == lastRun[run[2]] = LocalMonth(run[1])

\* Mutant: the last-run key is not looked at.
CheckNothing(run) ==
    /\ stage[run] = "check"
    /\ To(run, "delete")
    /\ UNCHANGED <<hitches, zone, month, rows, due, cleared, sweepLock, lastRun, deletions>>

CheckLastRun(run) ==
    /\ stage[run] = "check"
    /\ To(run, IF Marked(run) THEN "unlock" ELSE "delete")
    /\ UNCHANGED <<hitches, zone, month, rows, due, cleared, sweepLock, lastRun, deletions>>

\* deleteBetsBeforeDate, or deleteOlderThan of the audits and then of the jobs.
DeleteBeforeCutoff(run) ==
    LET tables == Tables(run[2])
        t == tables[cleared[run] + 1]
    IN  /\ stage[run] = "delete"
        /\ rows' = [rows EXCEPT ![t] = {at \in @ : at >= Cutoff(run[1])}]
        /\ deletions' = [deletions EXCEPT ![t] = @ + 1]
        /\ cleared' = [cleared EXCEPT ![run] = @ + 1]
        /\ IF cleared[run] + 1 = Len(tables) THEN To(run, "mark") ELSE UNCHANGED stage
        /\ UNCHANGED <<hitches, zone, month, due, sweepLock, lastRun>>

MarkLastRun(run) ==
    /\ stage[run] = "mark"
    /\ lastRun' = [lastRun EXCEPT ![run[2]] = LocalMonth(run[1])]
    /\ To(run, "unlock")
    /\ UNCHANGED <<hitches, zone, month, rows, due, cleared, sweepLock, deletions>>

\* Mutant: the key is set although the deletion failed.
SweepFailsMarked(run) ==
    /\ "fail" \in hitches
    /\ stage[run] \in {"check", "delete", "mark"}
    /\ lastRun' = [lastRun EXCEPT ![run[2]] = LocalMonth(run[1])]
    /\ To(run, "unlock")
    /\ UNCHANGED <<hitches, zone, month, rows, due, cleared, sweepLock, deletions>>

SweepFails(run) ==
    /\ "fail" \in hitches
    /\ stage[run] \in {"check", "delete", "mark"}
    /\ To(run, "unlock")
    /\ UNCHANGED <<hitches, zone, month, rows, due, cleared, sweepLock, lastRun, deletions>>

\* finally { releaseLock }: a DEL, whoever set the key; a failing one is logged.
UnlockSweep(run) ==
    /\ stage[run] = "unlock"
    /\ To(run, "idle")
    /\ \/ sweepLock' = [sweepLock EXCEPT ![run[2]] = NoCleaner]
       \/ "fail" \in hitches /\ UNCHANGED sweepLock
    /\ UNCHANGED <<hitches, zone, month, rows, due, cleared, lastRun, deletions>>

-----------------------------------------------------------------------------
(* Environment *)

\* The timers go off together: an hour later every run of the month has started,
\* and its holder is done, unless something is slow.
SweepLockExpires(sweep) ==
    /\ sweepLock[sweep] # NoCleaner
    /\ \/ "slow" \in hitches
       \/ /\ stage[<<sweepLock[sweep], sweep>>] = "idle"
          /\ \A s \in Cleaner : <<s, sweep>> \notin due
    /\ sweepLock' = [sweepLock EXCEPT ![sweep] = NoCleaner]
    /\ UNCHANGED <<hitches, zone, month, rows, due, stage, cleared, lastRun, deletions>>

\* A timer that finds no process is not made up for.
CleanerDies(s) ==
    /\ "die" \in hitches
    /\ \/ \E sweep \in Sweep : <<s, sweep>> \in due
       \/ \E sweep \in Sweep : stage[<<s, sweep>>] # "idle"
    /\ due' = due \ ({s} \X Sweep)
    /\ stage' = [run \in Cleaner \X Sweep |-> IF run[1] = s THEN "idle" ELSE stage[run]]
    /\ UNCHANGED <<hitches, zone, month, rows, cleared, sweepLock, lastRun, deletions>>

FlushKeys ==
    /\ "flush" \in hitches
    /\ sweepLock' = [sweep \in Sweep |-> NoCleaner]
    /\ lastRun' = [sweep \in Sweep |-> NoMonth]
    /\ UNCHANGED <<hitches, zone, month, rows, due, stage, cleared, deletions>>

-----------------------------------------------------------------------------
RunCleanup(run) ==
    \/ LockSweep(run) \/ CheckLastRun(run) \/ DeleteBeforeCutoff(run)
    \/ MarkLastRun(run) \/ SweepFails(run) \/ UnlockSweep(run)

CleanUpNext ==
    \/ MonthBegins
    \/ \E run \in Cleaner \X Sweep : RunCleanup(run)
    \/ \E sweep \in Sweep : SweepLockExpires(sweep)
    \/ \E s \in Cleaner : CleanerDies(s)
    \/ FlushKeys

CleanUpSpec == CleanUpInit /\ [][CleanUpNext]_cleanUpVars

-----------------------------------------------------------------------------
(* Properties *)

\* A date that is marked has been cleaned up to the cutoff of a server that has this date,
\* all tables of the run: no server skips its own run on the word of one that failed or died
\* half way, or whose clock shows another month.
MarkedMonthIsClean ==
    \A sweep \in Sweep :
        lastRun[sweep] # NoMonth =>
            \E s \in Cleaner :
                /\ lastRun[sweep] = LocalMonth(s)
                /\ \A i \in DOMAIN Tables(sweep) :
                      \A at \in rows[Tables(sweep)[i]] : at >= Cutoff(s)

\* The servers together delete once a month from each table, whichever of them
\* die, as long as no command fails, nothing is slow, Redis is not flushed and
\* their clocks show one date.
OneDate == \A r, s \in Cleaner : zone[r] < 0 <=> zone[s] < 0
SweptOnce ==
    hitches \subseteq {"die"} /\ OneDate => \A t \in CleanedTable : deletions[t] <= 1

-----------------------------------------------------------------------------
(* Why MarkedMonthIsClean and SweptOnce hold *)

\* The first n tables of a sweep have no rows from before a server's cutoff.
CleanThrough(s, sweep, n) ==
    \A i \in 1 .. n : \A at \in rows[Tables(sweep)[i]] : at >= Cutoff(s)

\* A run has cleaned what it has gone through.
RunCleans(run) ==
    /\ stage[run] = "check" => cleared[run] = 0
    /\ stage[run] = "delete" =>
          cleared[run] < Len(Tables(run[2])) /\ CleanThrough(run[1], run[2], cleared[run])
    /\ stage[run] = "mark" => CleanThrough(run[1], run[2], Len(Tables(run[2])))

CleanInv ==
    /\ CleanUpTypeOK
    /\ \A run \in Cleaner \X Sweep : RunCleans(run)
    /\ MarkedMonthIsClean

\* The tables of a run from number n on have not been deleted from.
Untouched(sweep, n) == \A i \in n .. Len(Tables(sweep)) : deletions[Tables(sweep)[i]] = 0

\* A run that goes on holds the lock, which nobody takes twice in a month; what was
\* deleted it has deleted itself, or the date is marked, or nobody is left to run.
RunAlone(run) ==
    LET sweep == run[2]
    IN  /\ stage[run] # "idle" => sweepLock[sweep] = run[1]
        /\ sweepLock[sweep] = run[1] => run \notin due
        /\ stage[run] = "check" => Marked(run) \/ Untouched(sweep, 1)
        /\ stage[run] = "delete" => Untouched(sweep, cleared[run] + 1)
        /\ stage[run] = "unlock" => Marked(run)
        /\ sweepLock[sweep] = NoCleaner => Marked(run) \/ Untouched(sweep, 1) \/ run \notin due

OnceInv ==
    hitches \subseteq {"die"} /\ OneDate =>
        /\ \A run \in Cleaner \X Sweep : RunAlone(run)
        /\ \A t \in CleanedTable : deletions[t] <= 1

=============================================================================
