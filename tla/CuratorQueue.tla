---------------------------- MODULE CuratorQueue ----------------------------
(***************************************************************************)
(* The curator job queue of one organisation: the rows of curator_jobs,    *)
(* the service operations that write them (enqueue, claim, ack, fail,      *)
(* releaseStaleLeases), the runner processes that execute jobs, and the    *)
(* provider-health record whose recovery sweep puts parked jobs back.      *)
(*                                                                         *)
(* Every database transaction is one action, except fail(): its SELECT and *)
(* its UPDATE are two statements under READ COMMITTED, so they are two     *)
(* actions between which other transactions may commit.                    *)
(*                                                                         *)
(* Time is what it enables: a row is due or not, its lease is absent, live *)
(* or expired.  next_attempt_at of a row that is not pending is never read *)
(* (the sweep and fail() overwrite it), so due is kept as it was there.    *)
(* last_error_code is left out: a row is failed_retryable only if its last *)
(* fail() carried a provider_ code, so the sweep's LIKE 'provider_%' never *)
(* excludes a failed_retryable row.                                        *)
(***************************************************************************)
EXTENDS Integers, FiniteSets

CONSTANTS
    Jobs,         \* row identities, none reused
    Workers,      \* runner processes (replicas, external runners) of the org
    Keys,         \* dedupe keys
    NoKey,        \* dedupe_key IS NULL
    NoJob,        \* the job of an idle runner
    Priority,     \* Jobs -> Nat, the priority column
    Faults,       \* whether processes die and calls fail
    MaxAttempts,  \* max_attempts of every row
    MaxClaims     \* bound: claims of one row that are explored

ASSUME NoKeyAssumption == NoKey \notin Keys
ASSUME NoJobAssumption == NoJob \notin Jobs
ASSUME PriorityAssumption == Priority \in [Jobs -> Nat]
ASSUME FaultsAssumption == Faults \in BOOLEAN
ASSUME BoundsAssumption == MaxAttempts \in Nat \ {0} /\ MaxClaims \in Nat

VARIABLES
    status, key, attempts, due, lease,  \* Jobs -> columns of the row
    alertOpen,  \* an unresolved llm_provider alert exists for the org
    pc, job,    \* Workers -> where executeOne() is and the job it was handed
    result,     \* Workers -> how the run ended
    seen,       \* Workers -> attempts as read by fail()'s SELECT
    claims,     \* history: Jobs -> number of claims
    refunds,    \* history: Jobs -> number of attempts given back
    expired     \* history: the rows a lease of which ran out

rows == <<status, key, attempts, due, lease>>
runs == <<pc, job, result, seen>>
history == <<claims, refunds, expired>>
vars == <<status, key, attempts, due, lease, alertOpen, pc, job, result, seen,
          claims, refunds, expired>>

Status == {"absent", "pending", "done", "failed", "dead", "failed_retryable"}
Settled == {"done", "failed", "dead"}

(* How a run can end.  ok_tokens: it spent provider tokens.  error: a      *)
(* throw or an agent error.  provider: a provider error, which always has  *)
(* a code, one that affects health.  final: a non-retryable skip or a      *)
(* context-length overflow.                                                *)
Result == {"ok", "ok_tokens", "error", "provider", "final"}
PC == {"idle", "running", "acking", "crediting", "blaming", "failing", "writing"}

\* The type invariant: columns, runs and history keep their shapes.
TypeOK ==
    /\ status \in [Jobs -> Status]
    /\ key \in [Jobs -> Keys \cup {NoKey}]
    /\ attempts \in [Jobs -> Nat]
    /\ due \in [Jobs -> {"now", "later"}]
    /\ lease \in [Jobs -> {"none", "live", "expired"}]
    /\ alertOpen \in BOOLEAN
    /\ pc \in [Workers -> PC]
    /\ job \in [Workers -> Jobs \cup {NoJob}]
    /\ \A w \in Workers : pc[w] # "idle" => job[w] \in Jobs
    /\ result \in [Workers -> Result \cup {"none"}]
    /\ seen \in [Workers -> Nat]
    /\ claims \in [Jobs -> Nat]
    /\ refunds \in [Jobs -> Nat]
    /\ expired \subseteq Jobs

Init ==
    /\ status = [j \in Jobs |-> "absent"]
    /\ key = [j \in Jobs |-> NoKey]
    /\ attempts = [j \in Jobs |-> 0]
    /\ due = [j \in Jobs |-> "now"]
    /\ lease = [j \in Jobs |-> "none"]
    /\ alertOpen = FALSE
    /\ pc = [w \in Workers |-> "idle"]
    /\ job = [w \in Workers |-> NoJob]
    /\ result = [w \in Workers |-> "none"]
    /\ seen = [w \in Workers |-> 0]
    /\ claims = [j \in Jobs |-> 0]
    /\ refunds = [j \in Jobs |-> 0]
    /\ expired = {}

-----------------------------------------------------------------------------
(* enqueue(), claim() and releaseStaleLeases().                            *)

\* curator_jobs_dedupe_uq: no pending row but j carries key k.
KeyFree(j, k) ==
    k = NoKey \/ \A i \in Jobs \ {j} : ~(status[i] = "pending" /\ key[i] = k)

\* A duplicate is answered with the pending row and changes nothing.
Enqueue(j, k, at) ==
    /\ status[j] = "absent"
    /\ KeyFree(j, k)
    /\ status' = [status EXCEPT ![j] = "pending"]
    /\ key' = [key EXCEPT ![j] = k]
    /\ due' = [due EXCEPT ![j] = at]
    /\ UNCHANGED <<attempts, lease, alertOpen, runs, history>>

\* Mutant: the claim's WHERE forgets the lease.
Claimable_LeaseIgnored(j) ==
    status[j] = "pending" /\ due[j] = "now" /\ claims[j] < MaxClaims

Claimable(j) ==
    /\ status[j] = "pending"
    /\ due[j] = "now"
    /\ lease[j] # "live"
    /\ claims[j] < MaxClaims

Claim(w, j) ==
    /\ pc[w] = "idle"
    /\ Claimable(j)
    /\ \A i \in Jobs : Claimable(i) => Priority[i] <= Priority[j]
    /\ lease' = [lease EXCEPT ![j] = "live"]
    /\ attempts' = [attempts EXCEPT ![j] = @ + 1]
    /\ pc' = [pc EXCEPT ![w] = "running"]
    /\ job' = [job EXCEPT ![w] = j]
    /\ claims' = [claims EXCEPT ![j] = @ + 1]
    /\ UNCHANGED <<status, key, due, alertOpen, result, seen, refunds, expired>>

ReleaseStaleLeases ==
    /\ lease' = [j \in Jobs |->
                   IF status[j] = "pending" /\ lease[j] = "expired" THEN "none" ELSE lease[j]]
    /\ UNCHANGED <<status, key, attempts, due, alertOpen, runs, history>>

-----------------------------------------------------------------------------
(* The provider-health record and its recovery sweep.                      *)

\* Mutant: the sweep also takes jobs that failed for good.
Parked_WithFailed == {j \in Jobs : status[j] \in {"failed_retryable", "failed"}}

Parked == {j \in Jobs : status[j] = "failed_retryable"}

\* The sweep's UPDATE meets the dedupe index row by row.
SweepAllowed ==
    \A i \in Parked : \A j \in Jobs \ {i} :
        (status[j] = "pending" \/ j \in Parked) => (key[i] = NoKey \/ key[i] # key[j])

\* Mutant: the alert is resolved in a transaction of its own.
Recover_TwoTransactions ==
    /\ alertOpen' = FALSE
    /\ IF alertOpen /\ SweepAllowed
       THEN /\ status' = [j \in Jobs |-> IF j \in Parked THEN "pending" ELSE status[j]]
            /\ due' = [j \in Jobs |-> IF j \in Parked THEN "now" ELSE due[j]]
       ELSE UNCHANGED <<status, due>>
    /\ UNCHANGED <<key, attempts, lease, history>>

\* recordSuccess(): resolving the alert and the sweep are one transaction.
Recover ==
    /\ IF alertOpen /\ SweepAllowed
       THEN /\ alertOpen' = FALSE
            /\ status' = [j \in Jobs |-> IF j \in Parked THEN "pending" ELSE status[j]]
            /\ due' = [j \in Jobs |-> IF j \in Parked THEN "now" ELSE due[j]]
       ELSE UNCHANGED <<alertOpen, status, due>>
    /\ UNCHANGED <<key, attempts, lease, history>>

\* A chat reply succeeded, or the provider settings were saved.
ChatSuccess == Recover /\ UNCHANGED runs

\* A chat reply failed against the provider.
ChatFailure ==
    /\ alertOpen' = TRUE
    /\ UNCHANGED <<rows, runs, history>>

-----------------------------------------------------------------------------
(* executeOne() of a runner, with ack() and fail().                        *)

Go(w, place) ==
    /\ pc' = [pc EXCEPT ![w] = place]
    /\ UNCHANGED <<job, result, seen>>

Return(w) ==
    /\ pc' = [pc EXCEPT ![w] = "idle"]
    /\ job' = [job EXCEPT ![w] = NoJob]
    /\ result' = [result EXCEPT ![w] = "none"]
    /\ seen' = [seen EXCEPT ![w] = 0]

Execute(w, r) ==
    /\ pc[w] = "running"
    /\ result' = [result EXCEPT ![w] = r]
    /\ pc' = [pc EXCEPT ![w] = IF r \in {"ok", "ok_tokens"} THEN "acking"
                               ELSE IF r = "provider" THEN "blaming" ELSE "failing"]
    /\ UNCHANGED <<rows, alertOpen, job, seen, history>>

\* A run that spent tokens is credited to the provider after the ack.
AfterAck(w) == IF result[w] = "ok_tokens" THEN Go(w, "crediting") ELSE Return(w)

\* ack() names the row by id alone: neither holder nor status is checked.
Ack(w) ==
    /\ pc[w] = "acking"
    /\ status' = [status EXCEPT ![job[w]] = "done"]
    /\ lease' = [lease EXCEPT ![job[w]] = "none"]
    /\ AfterAck(w)
    /\ UNCHANGED <<key, attempts, due, alertOpen, history>>

\* The ack call failed; the error is logged and the runner goes on.
AckLost(w) ==
    /\ Faults
    /\ pc[w] = "acking"
    /\ AfterAck(w)
    /\ UNCHANGED <<rows, alertOpen, history>>

RecordSuccess(w) ==
    /\ pc[w] = "crediting"
    /\ Recover
    /\ Return(w)

\* The health record is written before the job is failed; losing it is logged.
RecordFailure(w) ==
    /\ pc[w] = "blaming"
    /\ alertOpen' = TRUE \/ (Faults /\ UNCHANGED alertOpen)
    /\ Go(w, "failing")
    /\ UNCHANGED <<rows, history>>

\* Mutant: off by one in reachedMax.
FailStatus_OneEarly(r, n) ==
    IF r = "final" THEN "failed"
    ELSE IF r = "provider" THEN "failed_retryable"
    ELSE IF n + 1 >= MaxAttempts THEN "dead"
    ELSE "pending"

\* What fail() decides from the result and the attempts it read.
FailStatus(r, n) ==
    IF r = "final" THEN "failed"
    ELSE IF r = "provider" THEN "failed_retryable"
    ELSE IF n >= MaxAttempts THEN "dead"
    ELSE "pending"

\* Mutants: parking spends the attempt; parking gives two back, unguarded.
FailAttempts_NoRefund(st, n) == n
FailAttempts_Twice(st, n) == IF st = "failed_retryable" THEN n - 2 ELSE n

\* Parking gives the attempt back, never below zero.
FailAttempts(st, n) == IF st = "failed_retryable" /\ n > 0 THEN n - 1 ELSE n

FailRead(w) ==
    /\ pc[w] = "failing"
    /\ pc' = [pc EXCEPT ![w] = "writing"]
    /\ seen' = [seen EXCEPT ![w] = attempts[job[w]]]
    /\ UNCHANGED <<rows, alertOpen, job, result, history>>

\* The UPDATE names the row by id alone; a retried row waits for its backoff.
FailWrite(w) ==
    LET j == job[w]
        st == FailStatus(result[w], seen[w])
    IN  /\ pc[w] = "writing"
        /\ st = "pending" => KeyFree(j, key[j])
        /\ status' = [status EXCEPT ![j] = st]
        /\ attempts' = [attempts EXCEPT ![j] = FailAttempts(st, seen[w])]
        /\ due' = [due EXCEPT ![j] = IF st = "pending" THEN "later" ELSE @]
        /\ lease' = [lease EXCEPT ![j] = "none"]
        /\ refunds' = [refunds EXCEPT ![j] = IF st = "failed_retryable" THEN @ + 1 ELSE @]
        /\ Return(w)
        /\ UNCHANGED <<key, alertOpen, claims, expired>>

\* The UPDATE met the dedupe index: rolled back, logged by the runner.
FailConflict(w) ==
    /\ pc[w] = "writing"
    /\ FailStatus(result[w], seen[w]) = "pending"
    /\ ~KeyFree(job[w], key[job[w]])
    /\ Return(w)
    /\ UNCHANGED <<rows, alertOpen, history>>

\* The fail call failed; the error is logged and the runner goes on.
FailLost(w) ==
    /\ Faults
    /\ pc[w] \in {"failing", "writing"}
    /\ Return(w)
    /\ UNCHANGED <<rows, alertOpen, history>>

\* The process dies; what it holds is a lease nobody renews.
Crash(w) ==
    /\ Faults
    /\ pc[w] # "idle"
    /\ Return(w)
    /\ UNCHANGED <<rows, alertOpen, history>>

-----------------------------------------------------------------------------
(* The passage of time.                                                    *)

ComeDue(j) ==
    /\ status[j] = "pending" /\ due[j] = "later"
    /\ due' = [due EXCEPT ![j] = "now"]
    /\ UNCHANGED <<status, key, attempts, lease, alertOpen, runs, history>>

LeaseExpires(j) ==
    /\ lease[j] = "live"
    /\ lease' = [lease EXCEPT ![j] = "expired"]
    /\ expired' = expired \cup {j}
    /\ UNCHANGED <<status, key, attempts, due, alertOpen, runs, claims, refunds>>

-----------------------------------------------------------------------------
WorkerStep(w) ==
    \/ \E j \in Jobs : Claim(w, j)
    \/ \E r \in Result : Execute(w, r)
    \/ Ack(w) \/ AckLost(w) \/ RecordSuccess(w)
    \/ RecordFailure(w) \/ FailRead(w) \/ FailWrite(w)
    \/ FailConflict(w) \/ FailLost(w)
    \/ Crash(w)

Next ==
    \/ \E j \in Jobs, k \in Keys \cup {NoKey}, at \in {"now", "later"} : Enqueue(j, k, at)
    \/ ReleaseStaleLeases
    \/ ChatSuccess
    \/ ChatFailure
    \/ \E w \in Workers : WorkerStep(w)
    \/ \E j \in Jobs : ComeDue(j) \/ LeaseExpires(j)

Spec == Init /\ [][Next]_vars

-----------------------------------------------------------------------------
(* Properties.                                                             *)

Engaged(w, j) == pc[w] # "idle" /\ job[w] = j

\* Two runners work on one job only after a lease of that job ran out: the
\* FOR UPDATE SKIP LOCKED claim, and leases that only ack() and fail() clear.
ExclusiveRun ==
    \A j \in Jobs : \A v, w \in Workers :
        Engaged(v, j) /\ Engaged(w, j) /\ v # w => j \in expired

\* attempts counts the claims minus the attempts fail() gave back to parked
\* jobs, as long as no lease of the row ran out under a runner.
BudgetExact ==
    \A j \in Jobs : j \in expired \/ attempts[j] + refunds[j] = claims[j]

\* fail() lets a job die only once it was claimed max_attempts times, and
\* attempts parked on a provider failure do not count unless a lease ran out.
DeadOnlyWhenSpent ==
    \A j \in Jobs : status[j] = "dead" =>
        /\ claims[j] >= MaxAttempts
        /\ j \in expired \/ claims[j] >= MaxAttempts + refunds[j]

\* A row that is not pending carries no lease, so a swept row is claimable.
LeaseOnlyPending ==
    \A j \in Jobs : lease[j] # "none" => status[j] = "pending"

\* The dedupe index refuses fail()'s retry of a job, which fail() could not record
\* again, only after a lease of the job ran out: until then the row is still the
\* pending one that holds its key, so no other runner and no enqueue took its place.
RetryFits ==
    \A w \in Workers :
        pc[w] = "writing" /\ FailStatus(result[w], seen[w]) = "pending" /\ job[w] \notin expired
        => KeyFree(job[w], key[job[w]])

\* A done, failed or dead job stays so unless a lease of it ran out before.
SettledUnlessExpired ==
    [][\A j \in Jobs :
         status[j] \in Settled /\ j \notin expired => status'[j] = status[j]]_vars

\* recordSuccess() resolves the alert only together with a sweep that leaves
\* no job parked.
RecoverySweepsAll ==
    [][alertOpen /\ ~alertOpen' => \A j \in Jobs : status'[j] # "failed_retryable"]_vars

\* The strengthening that makes the invariants above inductive.

\* What the dedupe index keeps, whichever transaction makes a row pending.
DedupeHolds ==
    \A i, j \in Jobs :
        /\ status[i] = "pending" /\ status[j] = "pending"
        /\ key[i] = key[j] /\ key[i] # NoKey
        => i = j

\* A runner still owns the row it works on while no lease of it ran out.
Holding ==
    \A w \in Workers : pc[w] # "idle" =>
        LET j == job[w] IN
        \/ j \in expired
        \/ status[j] = "pending" /\ lease[j] = "live"
        \/ status[j] = "done" /\ pc[w] = "crediting"

\* What fail() read is still true of the row when it writes.
SeenFresh ==
    \A w \in Workers : pc[w] = "writing" =>
        /\ seen[w] <= claims[job[w]]
        /\ job[w] \in expired \/ seen[w] = attempts[job[w]]

\* A leased row was claimed, a dead row has used its attempts, and attempts
\* are claims.
AttemptsEarned ==
    \A j \in Jobs :
        /\ lease[j] = "live" => attempts[j] >= 1
        /\ status[j] = "dead" => attempts[j] >= MaxAttempts
        /\ attempts[j] <= claims[j]

QueueInv ==
    /\ TypeOK
    /\ LeaseOnlyPending
    /\ Holding
    /\ ExclusiveRun
    /\ SeenFresh
    /\ BudgetExact
    /\ AttemptsEarned
=============================================================================
