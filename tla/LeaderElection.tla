--------------------------- MODULE LeaderElection ---------------------------
(***************************************************************************)
(* LeaderElectionService: one Redis key whose value names the leader, an   *)
(* atomic SET NX to take it, and a timer of the leader that renews it.     *)
(* HazardSchedulerService creates one and calls tryBecomeLeader only when  *)
(* its server starts.                                                      *)
(***************************************************************************)
EXTENDS Naturals

CONSTANTS
    Server,   \* application instances; a restarted one keeps its serverId
    Faults,   \* what the environment may do in this instance
    MaxFaults,\* bound of the model: how often
    Free      \* the key is absent

FaultKind == {"crash",   \* a server dies, and may be started again
              "net",     \* a Redis command fails
              "outage",  \* renewals fail until the lease has run out
              "slow",    \* a server stalls longer than its lease
              "flush",   \* some client disconnects, which flushes Redis
              "late"}    \* an initialization outlasts the waits for it

ASSUME LeaderAssumption ==
    /\ Faults \subseteq FaultKind
    /\ MaxFaults \in Nat
    /\ Free \notin Server

VARIABLES
    lease,    \* Redis leader:hazard-scheduler, with its server
    leading,  \* isCurrentlyLeader; leaseRenewalTimer is set and cleared with it
    lpc,      \* where the renewal callback of a server is suspended
    happened, \* the kinds of fault of this behaviour
    left      \* the number of faults that may still happen

electionVars == <<lease, leading, lpc>>
faultVars    == <<happened, left>>
leaderVars   == <<lease, leading, lpc, happened, left>>

LeaderTypeOK ==
    /\ lease \in Server \cup {Free}
    /\ leading \in [Server -> BOOLEAN]
    /\ lpc \in [Server -> {"down", "idle", "renew", "regain"}]
    /\ happened \subseteq Faults
    /\ left \in 0 .. MaxFaults

LeaderInit ==
    /\ lease = Free
    /\ leading = [s \in Server |-> FALSE]
    /\ lpc = [s \in Server |-> "down"]
    /\ happened = {}
    /\ left = MaxFaults

Up(s) == lpc[s] # "down"

Fault(kind) ==
    /\ kind \in Faults
    /\ left > 0
    /\ left' = left - 1
    /\ happened' = happened \cup {kind}

-----------------------------------------------------------------------------
Believe(s, leads) == leading' = [leading EXCEPT ![s] = leads]

\* SET NX EX.  A failing command is taken for a key that is held.
TryBecomeLeader(s) ==
    \/ lease = Free /\ lease' = s /\ Believe(s, TRUE) /\ UNCHANGED faultVars
    \/ lease # Free /\ UNCHANGED <<lease, leading, faultVars>>
    \/ Fault("net") /\ UNCHANGED <<lease, leading>>

\* onModuleInit of the hazard scheduler: the only election a server stands in.
Boot(s) ==
    /\ lpc[s] = "down"
    /\ TryBecomeLeader(s)
    /\ lpc' = [lpc EXCEPT ![s] = "idle"]

\* isLeader answers what the key says, and follows it; a failing GET answers no.
IsLeader(s, answer) ==
    /\ \/ answer = (lease = s) /\ Believe(s, answer) /\ UNCHANGED faultVars
       \/ answer = FALSE /\ Fault("net") /\ UNCHANGED leading
    /\ UNCHANGED <<lease, lpc>>

CheckLeader(s) == Up(s) /\ \E answer \in BOOLEAN : IsLeader(s, answer)

\* Mutant: the lease is renewed without a look at its holder.
RenewBlindly(s) ==
    /\ lpc[s] = "idle" /\ leading[s]
    /\ lpc' = [lpc EXCEPT ![s] = "renew"]
    /\ UNCHANGED <<lease, leading, faultVars>>

\* renewLease reads the key; a server that no longer holds it steps down ...
RenewRead(s) ==
    /\ lpc[s] = "idle" /\ leading[s]
    /\ IF lease = s
         THEN lpc' = [lpc EXCEPT ![s] = "renew"] /\ UNCHANGED leading
         ELSE Believe(s, FALSE) /\ UNCHANGED lpc
    /\ UNCHANGED <<lease, faultVars>>

\* ... and otherwise sets it again, without NX or a comparison.
RenewWrite(s) ==
    /\ lpc[s] = "renew"
    /\ lease' = s
    /\ lpc' = [lpc EXCEPT ![s] = "idle"]
    /\ UNCHANGED <<leading, faultVars>>

\* After a failing command, and no other, a server that still believes it leads
\* tries to take the key.
RenewFails(s) ==
    /\ lpc[s] = "renew" \/ (lpc[s] = "idle" /\ leading[s])
    /\ Fault("net")
    /\ lpc' = [lpc EXCEPT ![s] = IF leading[s] THEN "regain" ELSE "idle"]
    /\ UNCHANGED <<lease, leading>>

Regain(s) ==
    /\ lpc[s] = "regain"
    /\ TryBecomeLeader(s)
    /\ lpc' = [lpc EXCEPT ![s] = "idle"]

\* The lease is 5 seconds, its renewal every 2: it runs out when its holder is
\* gone, does not renew, or cannot.
LeaseExpires ==
    /\ lease # Free
    /\ \/ ~leading[lease] /\ UNCHANGED faultVars
       \/ lpc[lease] # "renew" /\ Fault("outage")
       \/ Fault("slow")
    /\ lease' = Free
    /\ UNCHANGED <<leading, lpc>>

Flush ==
    /\ Fault("flush")
    /\ lease' = Free
    /\ UNCHANGED <<leading, lpc>>

Crash(s) ==
    /\ Up(s)
    /\ Fault("crash")
    /\ lpc' = [lpc EXCEPT ![s] = "down"]
    /\ Believe(s, FALSE)
    /\ UNCHANGED lease

\* A fault that no election notices.
Late == Fault("late") /\ UNCHANGED electionVars

Renew(s) == RenewRead(s) \/ RenewWrite(s) \/ RenewFails(s) \/ Regain(s)

LeaderNext ==
    \/ \E s \in Server : Boot(s) \/ CheckLeader(s) \/ Renew(s) \/ Crash(s)
    \/ LeaseExpires \/ Flush \/ Late

LeaderSpec == LeaderInit /\ [][LeaderNext]_leaderVars

-----------------------------------------------------------------------------
(* Properties *)

\* Leadership changes hands only through an absent key: the SET that renews a
\* lease does not overwrite that of a server elected meanwhile.  It would if the
\* key went between the GET and the SET, hence no stall and no flush.
LeaseNotStolen ==
    [][{"slow", "flush"} \cap happened' = {} =>
        lease' = lease \/ lease' = Free \/ lease = Free]_leaderVars

-----------------------------------------------------------------------------
\* The strengthening of LeaseNotStolen: the server between its GET and its SET
\* still holds the lease.
RenewerHolds ==
    {"slow", "flush"} \cap happened = {} =>
        \A s \in Server : lpc[s] = "renew" => leading[s] /\ lease = s
=============================================================================
