--------------------------- MODULE CuratorProofs ---------------------------
(***************************************************************************)
(* The curator's queue for any sets of jobs, runners and keys and any      *)
(* bounds, and the worker of one runner for any rows and any batch limit.  *)
(***************************************************************************)
EXTENDS CuratorQueue, CuratorWorker, TLAPS

-----------------------------------------------------------------------------
(* CuratorWorker                                                           *)

\* An event that is appended is on the wire, and so is all that was.
LEMMA WireAppend ==
    ASSUME NEW S, NEW s \in Seq(S), NEW x \in S
    PROVE  Append(s, x) \in Seq(S) /\ ToSet(Append(s, x)) = ToSet(s) \cup {x}
<1>1. Append(s, x) \in Seq(S) /\ Len(Append(s, x)) = Len(s) + 1 OBVIOUS
<1>2. \A i \in 1 .. Len(s) : Append(s, x)[i] = s[i] OBVIOUS
<1>3. Append(s, x)[Len(s) + 1] = x OBVIOUS
<1>4. DOMAIN s = 1 .. Len(s) /\ DOMAIN Append(s, x) = 1 .. Len(s) + 1 /\ Len(s) \in Nat OBVIOUS
<1>5. ToSet(Append(s, x)) \subseteq ToSet(s) \cup {x}
  BY <1>2, <1>3, <1>4 DEF ToSet
<1>6. ToSet(s) \subseteq ToSet(Append(s, x)) BY <1>2, <1>4 DEF ToSet
<1>7. x \in ToSet(Append(s, x)) BY <1>3, <1>4 DEF ToSet
<1> QED BY <1>1, <1>5, <1>6, <1>7

\* The event delivered is the first one, and the others stay.
LEMMA WireTail ==
    ASSUME NEW S, NEW s \in Seq(S), s # <<>>
    PROVE  Head(s) \in S /\ Tail(s) \in Seq(S) /\ ToSet(s) \subseteq ToSet(Tail(s)) \cup {Head(s)}
<1>1. Head(s) \in S /\ Tail(s) \in Seq(S) /\ Len(s) \in Nat \ {0} /\ Len(Tail(s)) = Len(s) - 1 OBVIOUS
<1>2. \A i \in 1 .. Len(s) - 1 : Tail(s)[i] = s[i + 1] OBVIOUS
<1>3. DOMAIN s = 1 .. Len(s) /\ DOMAIN Tail(s) = 1 .. Len(s) - 1 /\ Head(s) = s[1]
  BY <1>1
<1>4. ASSUME NEW i \in DOMAIN s, i # 1 PROVE s[i] \in ToSet(Tail(s))
  <2>1. i - 1 \in DOMAIN Tail(s) /\ Tail(s)[i - 1] = s[i] BY <1>1, <1>2, <1>3, <1>4
  <2> QED BY <2>1 DEF ToSet
<1> QED BY <1>1, <1>3, <1>4 DEF ToSet

\* The worker starts in the inductive invariant.
LEMMA WorkerInitInv == WorkerInit => DrainInv
BY LimitsAssumption DEF WorkerInit, DrainInv, WorkerTypeOK, DelayedCovered, Place,
   Versions, Phases

\* The worker's own place in the poll, after a step of it.
PollTyped ==
    /\ drain \in {"new", "armed", "off"} /\ life \in {"up", "stopped"} /\ phase \in Phases
    /\ got \in Rows \cup {NoRow} /\ (phase = "executing" => got \in Rows)
    /\ drained \in 0 .. MaxJobs - 1

\* What the worker has heard of, and the timers it keyed by their jobs.
Heard ==
    /\ wire \in Seq(Rows \X Versions) /\ timers \subseteq Rows \X Versions
    /\ \A s, t \in timers : s[1] = t[1] => s = t

\* The rows, as far as the worker can tell.
WorkerRows == queue \in [Rows -> Place] /\ turns \in [Rows -> Versions]

\* The inductive invariant in parts, before and after a step.
LEMMA WorkerParts ==
    /\ DrainInv <=> WorkerRows /\ Heard /\ PollTyped /\ DelayedCovered
    /\ DrainInv' <=> WorkerRows' /\ Heard' /\ PollTyped' /\ DelayedCovered'
<1>1. DrainInv <=> WorkerRows /\ Heard /\ PollTyped /\ DelayedCovered
  BY DEF DrainInv, WorkerTypeOK, WorkerRows, Heard, PollTyped
<1>2. DrainInv' <=> WorkerRows' /\ Heard' /\ PollTyped' /\ DelayedCovered'
  BY DEF DrainInv, WorkerTypeOK, WorkerRows, Heard, PollTyped
<1> QED BY <1>1, <1>2

\* Rows change, but none comes to wait that was not waiting, and a row that
\* waits keeps its version.
LEMMA NoneDelayed ==
    ASSUME DelayedCovered, UNCHANGED <<wire, timers, life>>,
           \A j \in Rows : queue'[j] = "later" => queue[j] = "later" /\ turns'[j] = turns[j]
    PROVE  DelayedCovered'
BY DEF DelayedCovered

\* The clock and the recovery sweep move rows that the worker does not hold.
LEMMA OutsideInv ==
    ASSUME DrainInv,
           \/ \E j \in Rows : TimePasses(j) \/ LeaseRunsOut(j)
           \/ ChatSucceeds
    PROVE  DrainInv'
<1>1. WorkerRows /\ Heard /\ PollTyped /\ DelayedCovered BY WorkerParts
<1>2. UNCHANGED <<wire, timers, drain, life, poll>>
  BY DEF TimePasses, LeaseRunsOut, ChatSucceeds
<1>3. WorkerRows' /\ \A j \in Rows : queue'[j] = "later" => queue[j] = "later" /\ turns'[j] = turns[j]
  BY <1>1, LimitsAssumption DEF TimePasses, LeaseRunsOut, ChatSucceeds, Swept,
     WorkerRows, Place, Versions
<1>4. DelayedCovered' BY <1>1, <1>2, <1>3, NoneDelayed
<1>5. Heard' /\ PollTyped' BY <1>1, <1>2 DEF Heard, PollTyped, poll
<1> QED BY <1>3, <1>4, <1>5, WorkerParts

\* Another replica runs a row; if it retries it, the new version is announced.
LEMMA ElsewhereInv ==
    ASSUME DrainInv, NEW j \in Rows, NEW to \in {"gone", "parked", "later", "leased"},
           ClaimedElsewhere(j, to)
    PROVE  DrainInv'
<1> DEFINE n == turns[j] + 1
<1>1. WorkerRows /\ Heard /\ PollTyped /\ DelayedCovered BY WorkerParts
<1>2. /\ UNCHANGED <<timers, drain, life, poll>>
      /\ queue' = [queue EXCEPT ![j] = to] /\ turns' = [turns EXCEPT ![j] = n]
      /\ wire' = IF to = "later" THEN Append(wire, <<j, n>>) ELSE wire
      /\ turns[j] < MaxRuns
  BY DEF ClaimedElsewhere
<1>3. n \in Versions /\ <<j, n>> \in Rows \X Versions /\ to \in Place
  BY <1>1, <1>2, LimitsAssumption DEF WorkerRows, Versions, Place
<1> HIDE DEF n
<1>4. /\ wire' \in Seq(Rows \X Versions) /\ ToSet(wire) \subseteq ToSet(wire')
      /\ to = "later" => <<j, n>> \in ToSet(wire')
  <2>1. wire \in Seq(Rows \X Versions) BY <1>1 DEF Heard
  <2>2. /\ Append(wire, <<j, n>>) \in Seq(Rows \X Versions)
        /\ ToSet(Append(wire, <<j, n>>)) = ToSet(wire) \cup {<<j, n>>}
    BY <1>3, <2>1, WireAppend
  <2>3. CASE to = "later" BY <1>2, <2>2, <2>3
  <2>4. CASE to # "later" BY <1>2, <2>1, <2>4
  <2> QED BY <2>3, <2>4
<1>5. WorkerRows' BY <1>1, <1>2, <1>3 DEF WorkerRows
<1>6. \A i \in Rows : /\ i # j => queue'[i] = queue[i] /\ turns'[i] = turns[i]
                     /\ i = j => queue'[i] = to /\ turns'[i] = n
  BY <1>1, <1>2 DEF WorkerRows
<1>7. DelayedCovered' BY <1>1, <1>2, <1>4, <1>6 DEF DelayedCovered
<1>8. Heard' /\ PollTyped' BY <1>1, <1>2, <1>4 DEF Heard, PollTyped, poll
<1> QED BY <1>5, <1>7, <1>8, WorkerParts

\* A row is enqueued and announced.
LEMMA EnqueueInv ==
    ASSUME DrainInv, NEW j \in Rows, NEW when \in {"later", "soon", "due"}, EnqueueRow(j, when)
    PROVE  DrainInv'
<1>1. WorkerRows /\ Heard /\ PollTyped /\ DelayedCovered BY WorkerParts
<1>2. UNCHANGED <<turns, timers, drain, life, poll>> BY DEF EnqueueRow
<1>3. <<j, turns[j]>> \in Rows \X Versions /\ wire' = Append(wire, <<j, turns[j]>>)
  BY <1>1 DEF EnqueueRow, WorkerRows
<1>4. wire' \in Seq(Rows \X Versions) /\ ToSet(wire') = ToSet(wire) \cup {<<j, turns[j]>>}
  BY <1>1, <1>3, WireAppend DEF Heard
<1>5. WorkerRows' /\ \A i \in Rows \ {j} : queue'[i] = queue[i]
  BY <1>1 DEF EnqueueRow, WorkerRows, Place
<1>6. DelayedCovered' BY <1>1, <1>2, <1>4, <1>5 DEF DelayedCovered
<1>7. Heard' /\ PollTyped' BY <1>1, <1>2, <1>4 DEF Heard, PollTyped, poll
<1> QED BY <1>5, <1>6, <1>7, WorkerParts

\* The worker wakes, is stopped, or goes on with its poll: no row changes.
LEMMA PollInv ==
    ASSUME DrainInv,
           \/ OnConnected \/ DrainFires \/ Stop \/ ClaimEmpty \/ ClaimFails \/ ClaimAnswered
           \/ \E v \in Verdicts : Admit(v)
    PROVE  DrainInv'
<1>1. WorkerRows /\ Heard /\ PollTyped /\ DelayedCovered BY WorkerParts
<1>2. /\ UNCHANGED <<queue, turns, wire>>
      /\ UNCHANGED <<timers, life>> \/ (timers' = {} /\ life' = "stopped")
  BY DEF OnConnected, DrainFires, Stop, ClaimEmpty, ClaimFails, ClaimAnswered, Admit,
     row
<1>3. WorkerRows' /\ Heard' BY <1>1, <1>2 DEF WorkerRows, Heard
<1>4. DelayedCovered' BY <1>1, <1>2 DEF DelayedCovered
<1>5. PollTyped'
  BY <1>1, LimitsAssumption DEF OnConnected, DrainFires, Stop, ClaimEmpty, ClaimFails,
     ClaimAnswered, Admit, row, poll, PollTyped, Phases, PollEnds, TriggerPoll,
     ScheduleDrain
<1> QED BY <1>3, <1>4, <1>5, WorkerParts

\* An event is delivered: it arms the timer of its row, or names a time that
\* has passed, and then no row that waits loses its announcement.
LEMMA OnPendingInv == ASSUME DrainInv, OnPending PROVE DrainInv'
<1> DEFINE j == Head(wire)[1]
           n == Head(wire)[2]
           far == n = turns[j] /\ queue[j] = "later"
<1>1. WorkerRows /\ Heard /\ PollTyped /\ DelayedCovered BY WorkerParts
<1>2. /\ UNCHANGED <<queue, turns, drain, life>> /\ wire' = Tail(wire)
      /\ timers' = IF life = "up" /\ far THEN Rearm(j, n) ELSE timers
  BY DEF OnPending
<1>3. /\ Head(wire) \in Rows \X Versions /\ wire' \in Seq(Rows \X Versions)
      /\ ToSet(wire) \subseteq ToSet(wire') \cup {Head(wire)}
  BY <1>1, <1>2, WireTail DEF OnPending, Heard
<1>4. j \in Rows /\ n \in Versions /\ Head(wire) = <<j, n>> BY <1>3
<1>5. Heard' BY <1>1, <1>2, <1>3, <1>4 DEF Heard, Rearm
<1>6. DelayedCovered'
  <2> SUFFICES ASSUME life' = "up", NEW i \in Rows, queue'[i] = "later", i \notin Delayed \/ turns'[i] > 0
               PROVE  <<i, turns'[i]>> \in timers' \cup ToSet(wire')
    BY DEF DelayedCovered
  <2>1. <<i, turns[i]>> \in timers \cup ToSet(wire) /\ life = "up"
    BY <1>1, <1>2 DEF DelayedCovered
  <2>2. CASE i = j /\ n = turns[i]
    BY <1>2, <2>2 DEF Rearm
  <2>3. CASE i = j /\ n # turns[i]
    BY <1>2, <1>3, <1>4, <2>1, <2>3
  <2>4. CASE i # j
    BY <1>2, <1>3, <1>4, <2>1, <2>4 DEF Rearm
  <2> QED BY <2>2, <2>3, <2>4
<1>7. PollTyped' BY <1>1, <1>2 DEF OnPending, TriggerPoll, PollTyped, Phases, poll
<1> QED BY <1>1, <1>2, <1>5, <1>6, <1>7, WorkerParts DEF WorkerRows

\* A timer fires: the time of its version has come, or it is of an older one.
LEMMA TimerFiresInv ==
    ASSUME DrainInv, NEW t \in timers, TimerFires(t) PROVE DrainInv'
<1>1. WorkerRows /\ Heard /\ PollTyped /\ DelayedCovered BY WorkerParts
<1>2. UNCHANGED <<queue, turns, wire, drain, life>> /\ timers' = timers \ {t}
  BY DEF TimerFires, row
<1>3. WorkerRows' /\ Heard' BY <1>1, <1>2 DEF WorkerRows, Heard
<1>4. DelayedCovered' BY <1>1, <1>2 DEF DelayedCovered, TimerFires
<1>5. PollTyped' BY <1>1, <1>2 DEF TimerFires, TriggerPoll, PollTyped, Phases
<1> QED BY <1>3, <1>4, <1>5, WorkerParts

\* A due row is claimed.
LEMMA ClaimInv == ASSUME DrainInv, NEW j \in Rows, ClaimRow(j) PROVE DrainInv'
<1>1. WorkerRows /\ Heard /\ PollTyped /\ DelayedCovered BY WorkerParts
<1>2. UNCHANGED <<wire, timers, drain, life, drained>> /\ phase' = "answered" /\ got' = j
  BY DEF ClaimRow
<1>3. WorkerRows' /\ \A i \in Rows : queue'[i] = "later" => queue[i] = "later" /\ turns'[i] = turns[i]
  BY <1>1, LimitsAssumption DEF ClaimRow, WorkerRows, Place, Versions
<1>4. DelayedCovered' BY <1>1, <1>2, <1>3, NoneDelayed
<1>5. Heard' /\ PollTyped' BY <1>1, <1>2 DEF Heard, PollTyped, Phases
<1> QED BY <1>3, <1>4, <1>5, WorkerParts

\* A job is executed: its row is announced if it is to wait.
LEMMA ExecutedInv ==
    ASSUME DrainInv, NEW o \in Outcomes, Executed(o) PROVE DrainInv'
<1> DEFINE final == o = "retried" /\ turns[got] >= MaxRuns
           to == IF o = "parked" THEN "parked"
                 ELSE IF o \in {"lost", "parking_lost"} THEN queue[got]
                 ELSE IF o = "retried" /\ ~final THEN "later" ELSE "gone"
           base == IF o = "credited" THEN Swept ELSE queue
<1>1. WorkerRows /\ Heard /\ PollTyped /\ DelayedCovered BY WorkerParts
<1>2. /\ UNCHANGED <<turns, timers, life>> /\ queue' = [base EXCEPT ![got] = to]
      /\ wire' = IF to = "later" THEN Append(wire, <<got, turns[got]>>) ELSE wire
  BY DEF Executed
<1>3. got \in Rows BY <1>1 DEF Executed, PollTyped
<1>4. to \in Place /\ base \in [Rows -> Place] /\ \A i \in Rows : base[i] = "later" => queue[i] = "later"
  BY <1>1, <1>3 DEF WorkerRows, Place, Swept
<1>5. /\ wire' \in Seq(Rows \X Versions) /\ ToSet(wire) \subseteq ToSet(wire')
      /\ to = "later" => <<got, turns[got]>> \in ToSet(wire')
  <2>1. <<got, turns[got]>> \in Rows \X Versions BY <1>1, <1>3 DEF WorkerRows
  <2>2. wire \in Seq(Rows \X Versions) BY <1>1 DEF Heard
  <2>3. CASE to = "later" BY <1>2, <2>1, <2>2, <2>3, WireAppend
  <2>4. CASE to # "later" BY <1>2, <2>2, <2>4
  <2> QED BY <2>3, <2>4
<1>6. WorkerRows' BY <1>1, <1>2, <1>4 DEF WorkerRows
<1>7. DelayedCovered' BY <1>1, <1>2, <1>3, <1>4, <1>5 DEF DelayedCovered
<1>8. Heard' BY <1>1, <1>2, <1>5 DEF Heard
<1>9. PollTyped'
  BY <1>1, LimitsAssumption DEF Executed, NextLap, PollEnds, ScheduleDrain, PollTyped,
     Phases
<1> QED BY <1>6, <1>7, <1>8, <1>9, WorkerParts

\* Every step keeps the inductive invariant.
LEMMA WorkerNextInv == DrainInv /\ [WorkerNext]_workerVars => DrainInv'
<1> SUFFICES ASSUME DrainInv, [WorkerNext]_workerVars PROVE DrainInv' OBVIOUS
<1>1. CASE UNCHANGED workerVars
  BY <1>1 DEF DrainInv, WorkerTypeOK, DelayedCovered, workerVars
<1>2. CASE Work
  BY <1>2, PollInv, OnPendingInv, TimerFiresInv, ClaimInv, ExecutedInv DEF Work
<1> QED BY <1>1, <1>2, OutsideInv, ElsewhereInv, EnqueueInv, PollInv DEF WorkerNext

\* The inductive invariant holds of every reachable state.
THEOREM WorkerInvariant == WorkerSpec => []DrainInv
BY WorkerInitInv, WorkerNextInv, PTL DEF WorkerSpec

\* onPending(): no older event or timer of a job costs a delayed row its timer.
THEOREM DelayedRowsCovered == WorkerSpec => []DelayedCovered
<1>1. DrainInv => DelayedCovered BY DEF DrainInv
<1> QED BY <1>1, WorkerInvariant, PTL

\* stop(): the answer of a claim that arrives after it starts no job.
THEOREM StopHolds == WorkerSpec => NoRunAfterStop
<1>1. [WorkerNext]_workerVars => (life = "stopped" /\ phase # "executing" => phase' # "executing")
  BY DEF WorkerNext, Work, EnqueueRow, TimePasses, LeaseRunsOut, ClaimedElsewhere,
     ChatSucceeds, Stop, OnConnected, DrainFires, OnPending, TimerFires, Admit,
     ClaimRow, ClaimEmpty, ClaimFails, ClaimAnswered, Executed, TriggerPoll, PollEnds,
     poll, workerVars
<1> QED BY <1>1, PTL DEF WorkerSpec, NoRunAfterStop

-----------------------------------------------------------------------------
(* CuratorQueue                                                            *)

USE NoKeyAssumption, NoJobAssumption, PriorityAssumption, BoundsAssumption, FaultsAssumption

\* fail() decides on a status of the row and keeps attempts a natural number.
LEMMA FailShape ==
    ASSUME NEW r, NEW n \in Nat
    PROVE  /\ FailStatus(r, n) \in {"failed", "failed_retryable", "dead", "pending"}
           /\ FailStatus(r, n) = "dead" => n >= MaxAttempts
           /\ \A st : FailAttempts(st, n) \in Nat /\ FailAttempts(st, n) <= n
           /\ \A st : st # "failed_retryable" => FailAttempts(st, n) = n
           /\ n >= 1 => FailAttempts("failed_retryable", n) = n - 1
  BY DEF FailStatus, FailAttempts

\* An empty queue with idle runners satisfies the inductive invariant.
LEMMA InitInv == Init => QueueInv
<1> SUFFICES ASSUME Init PROVE QueueInv
  OBVIOUS
<1>1. TypeOK
  BY DEF Init, TypeOK, Status, PC, Result
<1>2. LeaseOnlyPending /\ Holding /\ ExclusiveRun /\ SeenFresh
  BY DEF Init, LeaseOnlyPending, Holding, ExclusiveRun, Engaged, SeenFresh
<1>3. BudgetExact /\ AttemptsEarned
  BY DEF Init, BudgetExact, AttemptsEarned
<1>4. QED
  BY <1>1, <1>2, <1>3 DEF QueueInv

\* recordSuccess() moves parked jobs to pending and touches no other row.
LEMMA RecoverShape ==
    ASSUME TypeOK, Recover
    PROVE  /\ status' \in [Jobs -> Status]
           /\ due' \in [Jobs -> {"now", "later"}]
           /\ alertOpen' \in BOOLEAN
           /\ UNCHANGED <<key, attempts, lease, claims, refunds, expired>>
           /\ \A j \in Jobs :
                 status'[j] = status[j] \/ (status[j] = "failed_retryable" /\ status'[j] = "pending")
<1>0. UNCHANGED <<key, attempts, lease, claims, refunds, expired>>
  BY DEF Recover, history
<1>1. CASE alertOpen /\ SweepAllowed
  <2>1. /\ alertOpen' = FALSE
        /\ status' = [j \in Jobs |-> IF j \in Parked THEN "pending" ELSE status[j]]
        /\ due' = [j \in Jobs |-> IF j \in Parked THEN "now" ELSE due[j]]
    BY <1>1, Zenon DEF Recover
  <2>2. alertOpen' \in BOOLEAN
    BY <2>1, Zenon
  <2>3. /\ status' \in [Jobs -> Status]
        /\ due' \in [Jobs -> {"now", "later"}]
        /\ \A j \in Jobs :
                 status'[j] = status[j] \/ (status[j] = "failed_retryable" /\ status'[j] = "pending")
    BY <2>1 DEF TypeOK, Status, Parked
  <2>4. QED
    BY <1>0, <2>2, <2>3
<1>2. CASE ~(alertOpen /\ SweepAllowed)
  <2>1. UNCHANGED <<alertOpen, status, due>>
    BY <1>2, Zenon DEF Recover
  <2>2. alertOpen' \in BOOLEAN
    BY <2>1, Zenon DEF TypeOK
  <2>3. QED
    BY <1>0, <2>1, <2>2, Zenon DEF TypeOK
<1>3. QED
  BY <1>1, <1>2

\* What a step does to the type invariant.
LEMMA TypeStep == TypeOK /\ [Next]_vars => TypeOK'
<1> SUFFICES ASSUME TypeOK, [Next]_vars PROVE TypeOK'
  OBVIOUS
<1> USE DEF TypeOK, Status, PC, Result, rows, runs, history
<1>1. ASSUME NEW j \in Jobs, NEW k \in Keys \cup {NoKey}, NEW at \in {"now", "later"},
             Enqueue(j, k, at)
      PROVE TypeOK'
  BY <1>1 DEF Enqueue
<1>2. CASE ReleaseStaleLeases
  BY <1>2 DEF ReleaseStaleLeases
<1>3. CASE ChatSuccess
  BY <1>3, RecoverShape DEF ChatSuccess
<1>4. CASE ChatFailure
  BY <1>4 DEF ChatFailure
<1>5. ASSUME NEW w \in Workers, WorkerStep(w) PROVE TypeOK'
  <2>1. ASSUME NEW j \in Jobs, Claim(w, j) PROVE TypeOK'
    BY <2>1 DEF Claim
  <2>2. ASSUME NEW r \in Result, Execute(w, r) PROVE TypeOK'
    BY <2>2 DEF Execute
  <2>3. CASE Ack(w)
    BY <2>3 DEF Ack, AfterAck, Go, Return
  <2>4. CASE AckLost(w)
    BY <2>4 DEF AckLost, AfterAck, Go, Return
  <2>5. CASE RecordSuccess(w)
    BY <2>5, RecoverShape DEF RecordSuccess, Return
  <2>6. CASE RecordFailure(w)
    BY <2>6 DEF RecordFailure, Go
  <2>7. CASE FailRead(w)
    BY <2>7 DEF FailRead
  <2>8. CASE FailWrite(w)
    <3>1. seen[w] \in Nat /\ job[w] \in Jobs
      BY <2>8 DEF FailWrite
    <3>2. QED
      BY <2>8, <3>1, FailShape DEF FailWrite, Return
  <2>9. CASE FailConflict(w) \/ FailLost(w) \/ Crash(w)
    BY <2>9 DEF FailConflict, FailLost, Crash, Return
  <2>10. QED
    BY <1>5, <2>1, <2>2, <2>3, <2>4, <2>5, <2>6, <2>7, <2>8, <2>9 DEF WorkerStep
<1>6. ASSUME NEW j \in Jobs, ComeDue(j) \/ LeaseExpires(j) PROVE TypeOK'
  BY <1>6 DEF ComeDue, LeaseExpires
<1>7. CASE UNCHANGED vars
  BY <1>7 DEF vars
<1>8. QED
  BY <1>1, <1>2, <1>3, <1>4, <1>5, <1>6, <1>7 DEF Next

-----------------------------------------------------------------------------
\* A step preserves the strengthened invariant.
LEMMA InvStep == QueueInv /\ [Next]_vars => QueueInv'
<1> SUFFICES ASSUME QueueInv, [Next]_vars
             PROVE  (LeaseOnlyPending /\ Holding /\ ExclusiveRun /\ SeenFresh
                       /\ BudgetExact /\ AttemptsEarned)'
  BY TypeStep DEF QueueInv
<1> DEFINE Goal == (LeaseOnlyPending /\ Holding /\ ExclusiveRun /\ SeenFresh
                       /\ BudgetExact /\ AttemptsEarned)'
<1> USE DEF QueueInv, TypeOK, LeaseOnlyPending, Holding, ExclusiveRun, Engaged, SeenFresh,
            BudgetExact, AttemptsEarned, rows, runs, history
<1>1. ASSUME NEW j \in Jobs, NEW k \in Keys \cup {NoKey}, NEW at \in {"now", "later"},
             Enqueue(j, k, at)
      PROVE Goal
  BY <1>1 DEF Enqueue
<1>2. CASE ReleaseStaleLeases
  BY <1>2 DEF ReleaseStaleLeases
<1>3. CASE ChatSuccess
  BY <1>3, RecoverShape DEF ChatSuccess
<1>4. CASE ChatFailure
  BY <1>4 DEF ChatFailure
<1>5. ASSUME NEW w \in Workers, WorkerStep(w) PROVE Goal
  <2>1. ASSUME NEW j \in Jobs, Claim(w, j) PROVE Goal
    BY <2>1 DEF Claim, Claimable
  <2>2. ASSUME NEW r \in Result, Execute(w, r) PROVE Goal
    BY <2>2 DEF Execute
  <2>11. ASSUME UNCHANGED <<rows, history>>, Return(w) PROVE Goal
    <3>1. pc'[w] = "idle" /\ \A v \in Workers \ {w} :
             pc'[v] = pc[v] /\ job'[v] = job[v] /\ seen'[v] = seen[v]
      BY <2>11 DEF Return
    <3>2. (LeaseOnlyPending /\ BudgetExact /\ AttemptsEarned)'
      BY <2>11
    <3>3. Holding'
      BY <2>11, <3>1
    <3>4. ExclusiveRun'
      BY <2>11, <3>1
    <3>5. SeenFresh'
      BY <2>11, <3>1
    <3>6. QED
      BY <3>2, <3>3, <3>4, <3>5
  <2>3. CASE Ack(w)
    <3>1. /\ job[w] \in Jobs
          /\ status' = [status EXCEPT ![job[w]] = "done"]
          /\ lease' = [lease EXCEPT ![job[w]] = "none"]
          /\ UNCHANGED <<attempts, claims, refunds, expired>>
      BY <2>3 DEF Ack
    <3>2. \A v \in Workers \ {w} :
             pc'[v] = pc[v] /\ job'[v] = job[v] /\ seen'[v] = seen[v]
      BY <2>3 DEF Ack, AfterAck, Go, Return
    <3>3. pc'[w] = "idle" \/ (pc'[w] = "crediting" /\ job'[w] = job[w])
      BY <2>3 DEF Ack, AfterAck, Go, Return
    <3>4. (LeaseOnlyPending /\ BudgetExact /\ AttemptsEarned)'
      BY <3>1
    <3>5. Holding'
      BY <2>3, <3>1, <3>2, <3>3 DEF Ack
    <3>6. ExclusiveRun'
      BY <2>3, <3>1, <3>2, <3>3 DEF Ack
    <3>7. SeenFresh'
      BY <2>3, <3>1, <3>2, <3>3 DEF Ack
    <3>8. QED
      BY <3>4, <3>5, <3>6, <3>7
  <2>4. CASE AckLost(w)
    <3>1. CASE result[w] = "ok_tokens"
      BY <2>4, <3>1 DEF AckLost, AfterAck, Go
    <3>2. CASE result[w] # "ok_tokens"
      BY <2>4, <2>11, <3>2 DEF AckLost, AfterAck
    <3>3. QED
      BY <3>1, <3>2
  <2>5. CASE RecordSuccess(w)
    BY <2>5, RecoverShape DEF RecordSuccess, Return
  <2>6. CASE RecordFailure(w)
    BY <2>6 DEF RecordFailure, Go
  <2>7. CASE FailRead(w)
    BY <2>7 DEF FailRead
  <2>8. CASE FailWrite(w)
    <3> DEFINE j == job[w]
               st == FailStatus(result[w], seen[w])
    <3>1. seen[w] \in Nat /\ j \in Jobs /\ pc[w] = "writing"
      BY <2>8 DEF FailWrite
    <3>2. /\ status' = [status EXCEPT ![j] = st]
          /\ attempts' = [attempts EXCEPT ![j] = FailAttempts(st, seen[w])]
          /\ lease' = [lease EXCEPT ![j] = "none"]
          /\ refunds' = [refunds EXCEPT ![j] = IF st = "failed_retryable" THEN @ + 1 ELSE @]
          /\ UNCHANGED <<claims, expired>>
      BY <2>8 DEF FailWrite
    <3>3. pc'[w] = "idle" /\ \A v \in Workers \ {w} :
             pc'[v] = pc[v] /\ job'[v] = job[v] /\ seen'[v] = seen[v]
      BY <2>8 DEF FailWrite, Return
    <3>4. /\ st \in {"failed", "failed_retryable", "dead", "pending"}
          /\ st = "dead" => seen[w] >= MaxAttempts
          /\ FailAttempts(st, seen[w]) \in Nat
          /\ FailAttempts(st, seen[w]) <= seen[w]
          /\ st # "failed_retryable" => FailAttempts(st, seen[w]) = seen[w]
          /\ st = "failed_retryable" /\ seen[w] >= 1 => FailAttempts(st, seen[w]) = seen[w] - 1
      BY <3>1, FailShape
    <3> HIDE DEF j, st
    <3>5. j = job[w]
      BY DEF j
    <3>6. (LeaseOnlyPending /\ AttemptsEarned)'
      BY <3>1, <3>2, <3>4, <3>5
    <3>7. BudgetExact'
      BY <3>1, <3>2, <3>4, <3>5
    <3>8. Holding'
      BY <3>1, <3>2, <3>3, <3>5
    <3>9. ExclusiveRun'
      BY <3>1, <3>2, <3>3, <3>5
    <3>10. SeenFresh'
      BY <3>1, <3>2, <3>3, <3>5
    <3>11. QED
      BY <3>6, <3>7, <3>8, <3>9, <3>10
  <2>9. CASE FailConflict(w) \/ FailLost(w) \/ Crash(w)
    BY <2>9, <2>11 DEF FailConflict, FailLost, Crash
  <2>10. QED
    BY <1>5, <2>1, <2>2, <2>3, <2>4, <2>5, <2>6, <2>7, <2>8, <2>9 DEF WorkerStep
<1>6. ASSUME NEW j \in Jobs, ComeDue(j) \/ LeaseExpires(j) PROVE Goal
  BY <1>6 DEF ComeDue, LeaseExpires
<1>7. CASE UNCHANGED vars
  BY <1>7 DEF vars
<1>8. QED
  BY <1>1, <1>2, <1>3, <1>4, <1>5, <1>6, <1>7 DEF Next

\* QueueInv holds in every reachable state of the queue.
THEOREM QueueInvariant == Spec => []QueueInv
  BY InitInv, InvStep, PTL DEF Spec

\* The columns, runs and history of the queue keep their types.
THEOREM TypeCorrect == Spec => []TypeOK
  BY QueueInvariant, PTL DEF QueueInv

\* Two runners are engaged on one job only after a lease of it ran out:
\* claim() hands a row out once per lease.
THEOREM Exclusive == Spec => []ExclusiveRun
  BY QueueInvariant, PTL DEF QueueInv

\* The attempt budget: claim() spends, parking in fail() gives back, and
\* nothing else changes it while no lease runs out.
THEOREM Budget == Spec => []BudgetExact
  BY QueueInvariant, PTL DEF QueueInv

\* A job that fail() left dead was claimed max_attempts times.
THEOREM DeadSpent == Spec => []DeadOnlyWhenSpent
<1>1. QueueInv => DeadOnlyWhenSpent
  BY DEF QueueInv, TypeOK, BudgetExact, AttemptsEarned, DeadOnlyWhenSpent
<1>2. QED
  BY <1>1, QueueInvariant, PTL

\* A lease never outlives the pending status of its row.
THEOREM LeasesPending == Spec => []LeaseOnlyPending
  BY QueueInvariant, PTL DEF QueueInv

-----------------------------------------------------------------------------
\* Leaving done, failed or dead takes a runner engaged on the row that is not
\* crediting, which Holding excludes while no lease of it ran out.
LEMMA SettledStep ==
    ASSUME QueueInv, [Next]_vars, NEW i \in Jobs, status[i] \in Settled, i \notin expired
    PROVE  status'[i] = status[i]
<1> USE DEF QueueInv, TypeOK, Settled, rows
<1>1. ASSUME NEW j \in Jobs, NEW k \in Keys \cup {NoKey}, NEW at \in {"now", "later"},
             Enqueue(j, k, at)
      PROVE status'[i] = status[i]
  BY <1>1 DEF Enqueue
<1>2. CASE ReleaseStaleLeases \/ ChatFailure
  BY <1>2 DEF ReleaseStaleLeases, ChatFailure
<1>3. CASE ChatSuccess
  BY <1>3, RecoverShape DEF ChatSuccess
<1>4. ASSUME NEW w \in Workers, WorkerStep(w) PROVE status'[i] = status[i]
  <2>1. CASE Ack(w)
    BY <2>1 DEF Ack, Holding
  <2>2. CASE FailWrite(w)
    BY <2>2 DEF FailWrite, Holding
  <2>3. CASE RecordSuccess(w)
    BY <2>3, RecoverShape DEF RecordSuccess
  <2>4. CASE \/ \E j \in Jobs : Claim(w, j)
             \/ \E r \in Result : Execute(w, r)
             \/ AckLost(w) \/ RecordFailure(w) \/ FailRead(w)
             \/ FailConflict(w) \/ FailLost(w) \/ Crash(w)
    BY <2>4 DEF Claim, Execute, AckLost, RecordFailure, FailRead, FailConflict,
       FailLost, Crash
  <2>5. QED
    BY <1>4, <2>1, <2>2, <2>3, <2>4 DEF WorkerStep
<1>5. ASSUME NEW j \in Jobs, ComeDue(j) \/ LeaseExpires(j) PROVE status'[i] = status[i]
  BY <1>5 DEF ComeDue, LeaseExpires
<1>6. CASE UNCHANGED vars
  BY <1>6 DEF vars
<1>7. QED
  BY <1>1, <1>2, <1>3, <1>4, <1>5, <1>6 DEF Next

\* Without an expired lease ack() and fail() never reopen a settled job.
THEOREM SettledStays == Spec => SettledUnlessExpired
<1>1. QueueInv /\ [Next]_vars =>
        [\A j \in Jobs : status[j] \in Settled /\ j \notin expired => status'[j] = status[j]]_vars
  BY SettledStep
<1>2. QED
  BY <1>1, QueueInvariant, PTL DEF Spec, SettledUnlessExpired

-----------------------------------------------------------------------------
\* The dedupe index is met by every transaction that makes a row pending.
LEMMA DedupeStep == TypeOK /\ DedupeHolds /\ [Next]_vars => DedupeHolds'
<1> SUFFICES ASSUME TypeOK, DedupeHolds, [Next]_vars PROVE DedupeHolds'
  OBVIOUS
<1> USE DEF TypeOK, DedupeHolds, rows
<1>1. ASSUME NEW j \in Jobs, NEW k \in Keys \cup {NoKey}, NEW at \in {"now", "later"},
             Enqueue(j, k, at)
      PROVE DedupeHolds'
  BY <1>1 DEF Enqueue, KeyFree
<1>2. CASE ReleaseStaleLeases \/ ChatFailure
  BY <1>2 DEF ReleaseStaleLeases, ChatFailure
<1>3. ASSUME Recover PROVE DedupeHolds'
  <2>1. CASE alertOpen /\ SweepAllowed
    <3>1. /\ status' = [j \in Jobs |-> IF j \in Parked THEN "pending" ELSE status[j]]
          /\ key' = key
      BY <1>3, <2>1, Zenon DEF Recover
    <3>2. QED
      BY <2>1, <3>1 DEF SweepAllowed, Parked
  <2>2. CASE ~(alertOpen /\ SweepAllowed)
    <3>1. status' = status /\ key' = key
      BY <1>3, <2>2, Zenon DEF Recover
    <3>2. QED
      BY <3>1
  <2>3. QED
    BY <2>1, <2>2
<1>4. CASE ChatSuccess
  BY <1>3, <1>4 DEF ChatSuccess
<1>5. ASSUME NEW w \in Workers, WorkerStep(w) PROVE DedupeHolds'
  <2>1. CASE Ack(w)
    BY <2>1 DEF Ack
  <2>2. CASE FailWrite(w)
    BY <2>2 DEF FailWrite, KeyFree
  <2>3. CASE RecordSuccess(w)
    BY <1>3, <2>3 DEF RecordSuccess
  <2>4. CASE \/ \E j \in Jobs : Claim(w, j)
             \/ \E r \in Result : Execute(w, r)
             \/ AckLost(w) \/ RecordFailure(w) \/ FailRead(w)
             \/ FailConflict(w) \/ FailLost(w) \/ Crash(w)
    BY <2>4 DEF Claim, Execute, AckLost, RecordFailure, FailRead, FailConflict,
       FailLost, Crash
  <2>5. QED
    BY <1>5, <2>1, <2>2, <2>3, <2>4 DEF WorkerStep
<1>6. ASSUME NEW j \in Jobs, ComeDue(j) \/ LeaseExpires(j) PROVE DedupeHolds'
  BY <1>6 DEF ComeDue, LeaseExpires
<1>7. CASE UNCHANGED vars
  BY <1>7 DEF vars
<1>8. QED
  BY <1>1, <1>2, <1>4, <1>5, <1>6, <1>7 DEF Next

\* Holding keeps the row pending until its runner writes, and the index keeps every
\* other row with its key from being pending meanwhile.
LEMMA RetryFitsState == QueueInv /\ DedupeHolds => RetryFits
<1> SUFFICES ASSUME QueueInv, DedupeHolds, NEW w \in Workers,
                    pc[w] = "writing", job[w] \notin expired
             PROVE  KeyFree(job[w], key[job[w]])
  BY DEF RetryFits
<1>1. job[w] \in Jobs /\ status[job[w]] = "pending"
  BY DEF QueueInv, TypeOK, Holding
<1>2. QED
  BY <1>1 DEF QueueInv, TypeOK, DedupeHolds, KeyFree

\* The retry of fail() is refused by the dedupe index only for a job a lease of which
\* ran out: otherwise no job is left pending with its error unrecorded.
THEOREM RetriesFit == Spec => []RetryFits
<1>1. Init => DedupeHolds
  BY DEF Init, DedupeHolds
<1>2. QED
  BY <1>1, DedupeStep, TypeCorrect, QueueInvariant, RetryFitsState, PTL DEF Spec

-----------------------------------------------------------------------------
\* Only recordSuccess() closes the alert, and with it every parked row is pending.
LEMMA SweepStep ==
    ASSUME TypeOK, [Next]_vars, alertOpen, ~alertOpen', NEW i \in Jobs
    PROVE  status'[i] # "failed_retryable"
<1>1. ASSUME Recover PROVE status'[i] # "failed_retryable"
  <2>1. status' = [j \in Jobs |-> IF j \in Parked THEN "pending" ELSE status[j]]
    BY <1>1, Zenon DEF Recover
  <2>2. QED
    BY <2>1 DEF Parked
<1>2. ASSUME NEW w \in Workers, WorkerStep(w) PROVE RecordSuccess(w)
  <2>1. ~RecordFailure(w)
    BY Zenon DEF RecordFailure
  <2>2. ~(Ack(w) \/ AckLost(w) \/ FailRead(w) \/ FailWrite(w))
    BY Zenon DEF Ack, AckLost, FailRead, FailWrite
  <2>3. ~(FailConflict(w) \/ FailLost(w) \/ Crash(w))
    BY Zenon DEF FailConflict, FailLost, Crash
  <2>4. ~(\E j \in Jobs : Claim(w, j)) /\ ~(\E r \in Result : Execute(w, r))
    BY Zenon DEF Claim, Execute
  <2>5. QED
    BY <1>2, <2>1, <2>2, <2>3, <2>4, Zenon DEF WorkerStep
<1>3. ~(\E j \in Jobs, k \in Keys \cup {NoKey}, at \in {"now", "later"} : Enqueue(j, k, at))
  BY Zenon DEF Enqueue
<1>4. ~(ReleaseStaleLeases \/ ChatFailure \/ UNCHANGED vars)
  BY Zenon DEF ReleaseStaleLeases, ChatFailure, vars
<1>5. ~(\E j \in Jobs : ComeDue(j) \/ LeaseExpires(j))
  BY Zenon DEF ComeDue, LeaseExpires
<1>6. ChatSuccess \/ \E w \in Workers : WorkerStep(w)
  BY <1>3, <1>4, <1>5, Zenon DEF Next
<1>7. Recover
  BY <1>2, <1>6, Zenon DEF ChatSuccess, RecordSuccess
<1>8. QED
  BY <1>1, <1>7

\* The alert closes and the parked jobs are swept in one transaction: none is left
\* parked with nobody to sweep it.
THEOREM SweepsAll == Spec => RecoverySweepsAll
<1>1. TypeOK /\ [Next]_vars =>
        [alertOpen /\ ~alertOpen' => \A j \in Jobs : status'[j] # "failed_retryable"]_vars
  BY SweepStep
<1>2. QED
  BY <1>1, TypeCorrect, PTL DEF Spec, RecoverySweepsAll
=============================================================================
