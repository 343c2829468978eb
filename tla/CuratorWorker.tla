--------------------------- MODULE CuratorWorker ---------------------------
(***************************************************************************)
(* The curator worker of one runner: what wakes it (notifications, timers, *)
(* the scheduled drain), the drain loop that claims one job at a time, and *)
(* stop().  The rows themselves are those of CuratorQueue, seen here only  *)
(* as far as the worker can tell them apart.                               *)
(*                                                                         *)
(* The worker is single-threaded: everything between two awaits is one     *)
(* action.  A claim is two: the database answers, and the answer arrives.  *)
(* phase = "idle" exactly when pollPending is null.                        *)
(*                                                                         *)
(* The events come by LISTEN/NOTIFY, and the model assumes that none is    *)
(* lost.  While the listener's connection is down PostgreSQL drops them,   *)
(* and onConnected, which is called at the subscription only, does not     *)
(* run again when the connection is back.                                  *)
(***************************************************************************)
EXTENDS Integers, Sequences, SequencesExt

CONSTANTS
    Rows,      \* jobs, by their rows in curator_jobs
    NoRow,     \* an empty answer of the claim
    Backlog,   \* rows that are due when the worker is created
    Delayed,   \* rows that wait for a later time when the worker is created
    Outcomes,  \* how executeOne() may end, a subset of Outcome
    Verdicts,  \* what beforeGenerate may answer, a subset of {"allow", "deny"}
    Mishaps,   \* whether claims fail, leases run out and other runners claim
    Stops,     \* whether the worker may be stopped
    MaxJobs,   \* CURATOR_DRAIN_MAX_JOBS
    MaxRuns    \* claims of a row, after which a failure is final

(* How executeOne() leaves the row: acked, or failed for good; acked, with *)
(* the provider credited (and so the parked rows swept); retried after a   *)
(* backoff; parked on a provider failure; or its report lost, so still     *)
(* leased, after a run that did not or did fail against the provider.      *)
Outcome == {"acked", "credited", "retried", "parked", "lost", "parking_lost"}

\* executeOne() answers whether the provider failed, reported or not.
ProviderFailed(o) == o \in {"parked", "parking_lost"}

ASSUME NoRowAssumption == NoRow \notin Rows
ASSUME BootAssumption == Backlog \subseteq Rows /\ Delayed \subseteq Rows \ Backlog
ASSUME OutcomesAssumption == Outcomes \subseteq Outcome /\ Verdicts \subseteq {"allow", "deny"}
ASSUME FlagsAssumption == Mishaps \in BOOLEAN /\ Stops \in BOOLEAN
ASSUME LimitsAssumption == MaxJobs \in Nat \ {0} /\ MaxRuns \in Nat \ {0}

VARIABLES
    queue,    \* Rows -> what the worker's clock and claims can tell of a row
    turns,    \* Rows -> number of claims, the version of next_attempt_at
    wire,     \* curator_job.pending events not yet delivered, in commit order
    timers,   \* scheduledByJob: <<job, version>> of each armed timer
    drain,    \* the scheduled drain: "new" before onConnected, "armed" or "off"
    life,     \* "up" until stop() is called
    phase,    \* where the poll is
    got,      \* the claimed job
    drained   \* jobs this poll has executed

row == <<queue, turns, wire>>
poll == <<phase, got, drained>>
workerVars == <<queue, turns, wire, timers, drain, life, phase, got, drained>>

\* Due in more than a second, within a second, or now; see onPending().
Place == {"absent", "later", "soon", "due", "leased", "parked", "gone"}
Versions == 0..MaxRuns
Phases == {"idle", "admitting", "claiming", "answered", "executing"}

\* The type invariant; a timer is keyed by its job.
WorkerTypeOK ==
    /\ queue \in [Rows -> Place]
    /\ turns \in [Rows -> Versions]
    /\ wire \in Seq(Rows \X Versions)
    /\ timers \subseteq Rows \X Versions
    /\ \A s, t \in timers : s[1] = t[1] => s = t
    /\ drain \in {"new", "armed", "off"}
    /\ life \in {"up", "stopped"}
    /\ phase \in Phases
    /\ got \in Rows \cup {NoRow}
    /\ phase = "executing" => got \in Rows
    /\ drained \in 0..MaxJobs - 1

WorkerInit ==
    /\ queue = [j \in Rows |-> IF j \in Backlog THEN "due"
                               ELSE IF j \in Delayed THEN "later" ELSE "absent"]
    /\ turns = [j \in Rows |-> 0]
    /\ wire = <<>>
    /\ timers = {}
    /\ drain = "new"
    /\ life = "up"
    /\ phase = "idle"
    /\ got = NoRow
    /\ drained = 0

-----------------------------------------------------------------------------
(* The queue and the clock, outside the worker.                            *)

EnqueueRow(j, at) ==
    /\ queue[j] = "absent"
    /\ queue' = [queue EXCEPT ![j] = at]
    /\ wire' = Append(wire, <<j, turns[j]>>)
    /\ UNCHANGED <<turns, timers, drain, life, poll>>

TimePasses(j) ==
    /\ queue[j] \in {"later", "soon"}
    /\ queue' = [queue EXCEPT ![j] = IF @ = "later" THEN "soon" ELSE "due"]
    /\ UNCHANGED <<turns, wire, timers, drain, life, poll>>

\* Another replica claims the row and acks it, parks it, retries it (and announces
\* the retry) or dies with it; the steps of its run are none of this worker's.
ClaimedElsewhere(j, to) ==
    /\ Mishaps
    /\ queue[j] = "due" /\ turns[j] < MaxRuns
    /\ to = "later" => turns[j] + 1 < MaxRuns
    /\ queue' = [queue EXCEPT ![j] = to]
    /\ turns' = [turns EXCEPT ![j] = @ + 1]
    /\ wire' = IF to = "later" THEN Append(wire, <<j, turns[j] + 1>>) ELSE wire
    /\ UNCHANGED <<timers, drain, life, poll>>

LeaseRunsOut(j) ==
    /\ Mishaps
    /\ queue[j] = "leased"
    /\ queue' = [queue EXCEPT ![j] = "due"]
    /\ UNCHANGED <<turns, wire, timers, drain, life, poll>>

\* sweepRetryable(): parked rows are due again, and nobody is told.
Swept == [j \in Rows |-> IF queue[j] = "parked" THEN "due" ELSE queue[j]]

\* A chat reply succeeds while rows are parked.
ChatSucceeds ==
    /\ \E j \in Rows : queue[j] = "parked"
    /\ queue' = Swept
    /\ UNCHANGED <<turns, wire, timers, drain, life, poll>>

-----------------------------------------------------------------------------
(* What wakes the worker.                                                  *)

\* triggerPoll(): a trigger that meets a poll in flight is dropped.
TriggerPoll ==
    /\ phase' = IF life = "up" /\ phase = "idle" THEN "admitting" ELSE phase
    /\ UNCHANGED <<got, drained>>

\* scheduleDrain(): one drain is scheduled at a time.
ScheduleDrain == drain' = "armed"

OnConnected ==
    /\ drain = "new"
    /\ IF life = "up" THEN ScheduleDrain ELSE drain' = "off"
    /\ UNCHANGED <<row, timers, life, poll>>

DrainFires ==
    /\ drain = "armed"
    /\ drain' = "off"
    /\ TriggerPoll
    /\ UNCHANGED <<row, timers, life>>

\* Mutant: a timer that is already armed for the job is kept.
Rearm_KeepsOld(j, n) ==
    IF \E t \in timers : t[1] = j THEN timers ELSE timers \cup {<<j, n>>}

\* The job's previous timer is cleared.  The clamp to 24 hours never bites: a
\* request may ask for 86400 seconds at most, a backoff is shorter.
Rearm(j, n) == {t \in timers : t[1] # j} \cup {<<j, n>>}

\* An event of an earlier version names a time that has passed.
OnPending ==
    /\ wire # <<>>
    /\ wire' = Tail(wire)
    /\ LET j == Head(wire)[1]
           n == Head(wire)[2]
           far == n = turns[j] /\ queue[j] = "later"
       IN  /\ timers' = IF life = "up" /\ far THEN Rearm(j, n) ELSE timers
           /\ IF far THEN UNCHANGED poll ELSE TriggerPoll
    /\ UNCHANGED <<queue, turns, drain, life>>

TimerFires(t) ==
    /\ t \in timers
    /\ t[2] = turns[t[1]] => queue[t[1]] \notin {"later", "soon"}
    /\ timers' = timers \ {t}
    /\ TriggerPoll
    /\ UNCHANGED <<row, drain, life>>

Stop ==
    /\ Stops
    /\ life = "up"
    /\ life' = "stopped"
    /\ drain' = IF drain = "new" THEN drain ELSE "off"
    /\ timers' = {}
    /\ UNCHANGED <<row, poll>>

-----------------------------------------------------------------------------
(* pollOnce() and drainCuratorQueue().                                     *)

PollEnds ==
    /\ phase' = "idle"
    /\ got' = NoRow
    /\ drained' = 0

\* A worker stopped while beforeGenerate is asked still goes on to claim.
Admit(verdict) ==
    /\ phase = "admitting"
    /\ IF verdict = "allow" THEN phase' = "claiming" /\ UNCHANGED <<got, drained>> ELSE PollEnds
    /\ UNCHANGED <<row, timers, drain, life>>

ClaimRow(j) ==
    /\ phase = "claiming"
    /\ queue[j] = "due" /\ turns[j] < MaxRuns
    /\ queue' = [queue EXCEPT ![j] = "leased"]
    /\ turns' = [turns EXCEPT ![j] = @ + 1]
    /\ phase' = "answered"
    /\ got' = j
    /\ UNCHANGED <<wire, timers, drain, life, drained>>

ClaimEmpty ==
    /\ phase = "claiming"
    /\ \A j \in Rows : ~(queue[j] = "due" /\ turns[j] < MaxRuns)
    /\ phase' = "answered"
    /\ UNCHANGED <<row, timers, drain, life, got, drained>>

ClaimFails ==
    /\ Mishaps
    /\ phase = "claiming"
    /\ PollEnds
    /\ UNCHANGED <<row, timers, drain, life>>

\* Mutant: the loop does not look at isStopped again after the claim.
ClaimAnswered_StopIgnored ==
    /\ phase = "answered"
    /\ IF got = NoRow THEN PollEnds ELSE phase' = "executing" /\ UNCHANGED <<got, drained>>
    /\ UNCHANGED <<row, timers, drain, life>>

\* A worker stopped meanwhile drops the claimed job, lease and all.
ClaimAnswered ==
    /\ phase = "answered"
    /\ IF got = NoRow \/ life = "stopped"
       THEN PollEnds
       ELSE phase' = "executing" /\ UNCHANGED <<got, drained>>
    /\ UNCHANGED <<row, timers, drain, life>>

\* Mutant: the paused drain is not scheduled again.
NextLap_PauseForgotten(o) ==
    IF ProviderFailed(o) \/ drained + 1 >= MaxJobs \/ life = "stopped"
    THEN PollEnds /\ UNCHANGED drain
    ELSE /\ phase' = "admitting" /\ got' = NoRow /\ drained' = drained + 1
         /\ UNCHANGED drain

\* A provider failure ends the poll; the batch limit ends it and schedules a
\* drain, stopped or not; otherwise the loop goes on unless stopped.
NextLap(o) ==
    IF ProviderFailed(o) THEN PollEnds /\ UNCHANGED drain
    ELSE IF drained + 1 >= MaxJobs THEN PollEnds /\ ScheduleDrain
    ELSE IF life = "stopped" THEN PollEnds /\ UNCHANGED drain
    ELSE /\ phase' = "admitting" /\ got' = NoRow /\ drained' = drained + 1
         /\ UNCHANGED drain

\* fail() announces a retried row; no other outcome is announced.
Executed(o) ==
    /\ phase = "executing"
    /\ LET final == o = "retried" /\ turns[got] >= MaxRuns
           to == IF o = "parked" THEN "parked"
                 ELSE IF o \in {"lost", "parking_lost"} THEN queue[got]
                 ELSE IF o = "retried" /\ ~final THEN "later" ELSE "gone"
           base == IF o = "credited" THEN Swept ELSE queue
       IN  /\ queue' = [base EXCEPT ![got] = to]
           /\ wire' = IF to = "later" THEN Append(wire, <<got, turns[got]>>) ELSE wire
    /\ NextLap(o)
    /\ UNCHANGED <<turns, timers, life>>

-----------------------------------------------------------------------------
Work ==
    \/ OnConnected \/ DrainFires \/ OnPending
    \/ \E t \in timers : TimerFires(t)
    \/ \E v \in Verdicts : Admit(v)
    \/ \E j \in Rows : ClaimRow(j)
    \/ ClaimEmpty \/ ClaimFails \/ ClaimAnswered
    \/ \E o \in Outcomes : Executed(o)

WorkerNext ==
    \/ \E j \in Rows, at \in {"later", "soon", "due"} : EnqueueRow(j, at)
    \/ \E j \in Rows : TimePasses(j) \/ LeaseRunsOut(j)
    \/ \E j \in Rows, to \in {"gone", "parked", "later", "leased"} : ClaimedElsewhere(j, to)
    \/ ChatSucceeds
    \/ Stop
    \/ Work

WorkerSpec == WorkerInit /\ [][WorkerNext]_workerVars

(* Awaited calls return, timers fire and events are delivered: whatever of *)
(* the worker's own steps is possible for ever is taken.                   *)
Fairness ==
    /\ WF_workerVars(OnConnected) /\ WF_workerVars(DrainFires) /\ WF_workerVars(OnPending)
    /\ WF_workerVars(\E t \in timers : TimerFires(t))
    /\ WF_workerVars(\E v \in Verdicts : Admit(v))
    /\ WF_workerVars(ClaimEmpty \/ \E j \in Rows : ClaimRow(j))
    /\ WF_workerVars(ClaimAnswered)
    /\ WF_workerVars(\E o \in Outcomes : Executed(o))

FairSpec == WorkerSpec /\ Fairness

-----------------------------------------------------------------------------
(* Properties.                                                             *)

\* stop(): a job whose claim is answered after the stop is not started.
NoRunAfterStop ==
    [][life = "stopped" /\ phase # "executing" => phase' # "executing"]_workerVars

\* onPending(): a row due in more than a second is on its way to a timer or
\* has one armed for its current next_attempt_at, whatever older events and
\* timers of the same job are still about.  Rows that were waiting before
\* the worker was created have neither.
DelayedCovered ==
    life = "up" =>
        \A j \in Rows :
            queue[j] = "later" /\ (j \notin Delayed \/ turns[j] > 0) =>
                <<j, turns[j]>> \in timers \cup ToSet(wire)

\* drainCuratorQueue() and the pause: a row that is due when a poll has yet
\* to claim is claimed, over as many batches as it takes, if the provider
\* and the gate let every job through.
BacklogDrains ==
    \A j \in Rows :
        queue[j] = "due" /\ phase \in {"admitting", "claiming"}
            ~> queue[j] # "due" \/ life = "stopped"

(* The inductive invariant: nothing but types needs to be added.           *)
DrainInv == WorkerTypeOK /\ DelayedCovered
=============================================================================
