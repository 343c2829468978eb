--------------------------- MODULE JourneyRuntime ---------------------------
(***************************************************************************)
(* JourneyRuntimeWorker and JourneyRuntimeService: one contact's run of a  *)
(* journey, moved by the workers of several replicas, by the contact's     *)
(* events and by the people who pause steps.  No scheduler lock keeps the  *)
(* workers apart: row locks do.  Each transaction is split where another   *)
(* can come between: at what it reads without a lock, and at its commit.   *)
(*                                                                         *)
(* Time is left out: a next run time, a wake time, a timeout or a next     *)
(* attempt that is set may pass at any moment after.                       *)
(*                                                                         *)
(* The graph is a constant.  A message step is one that needs no review;   *)
(* agent, approval, branch and sub-journey steps, goals, entry and moving  *)
(* runs to another version are left out.                                   *)
(***************************************************************************)
EXTENDS Integers

CONSTANTS
    Nodes, Start,
    Kind,        \* Nodes -> message, event (wait_for) or timer (wait)
    Edge,        \* Nodes -> next, or End
    OnReply,     \* Nodes -> where a reply to the message leads, or None
    OnTimeout,   \* Nodes -> where a wait_for that timed out leads, or None
    End, None,
    Replicas,
    Request,     \* the request that resumes a step, as holder of the run's row lock
    Inbox,       \* rows of journey_event_inbox
    Types,       \* Inbox -> what the event may be: reply, signal or closed
    MaxVisits,   \* settings.maxVisitsPerNode
    MaxErrors,   \* MAX_STEP_ERRORS
    MaxTries,    \* INBOX_MAX_ATTEMPTS
    Pausable,    \* bound: the steps that people pause
    MaxUpsets    \* bound: pauses, transactions that fail, steps that throw

Steps == Nodes \X Nat         \* a node and which visit of it
NoStep == <<None, 0>>
Waits == {"step", "hold"} \X Steps     \* the wait of a step, or the hold after its reply

ASSUME GraphAssumption ==
    /\ Start \in Nodes /\ Kind \in [Nodes -> {"message", "event", "timer"}]
    /\ Edge \in [Nodes -> Nodes \cup {End}]
    /\ OnReply \in [Nodes -> Nodes \cup {None}]
    /\ OnTimeout \in [Nodes -> Nodes \cup {None}]
    /\ Pausable \subseteq Nodes
    /\ End \notin Nodes /\ None \notin Nodes \cup Replicas
    /\ Request \notin Replicas \cup {None}
ASSUME TypesAssumption == Types \in [Inbox -> SUBSET {"reply", "signal", "closed"}]
ASSUME BoundsAssumption ==
    /\ MaxVisits \in Nat \ {0} /\ MaxErrors \in Nat \ {0}
    /\ MaxTries \in Nat \ {0} /\ MaxUpsets \in Nat

VARIABLES
    run,      \* the enrollment with its step runs and waits, as committed
    draft,    \* the same, as the transaction that has its row lock sees it
    owner,    \* who holds the run's row lock across steps: a replica, Request or None
    tx,       \* Replicas -> what its worker is doing
    paused,   \* journeys.paused_nodes
    live,     \* whether journeys.status is live, else paused
    inbox,    \* Inbox -> none, pending or processed
    type,     \* Inbox -> the event's type, once there is one
    tries,    \* Inbox -> the attempts column
    applied,  \* Inbox -> times the event took effect
    undone,   \* events marked unprocessed again after they took effect
    resuming, \* the step whose resume is not committed yet, or None
    upsets

control == <<paused, live, resuming>>
mail == <<inbox, type, tries, applied, undone>>
vars == <<run, draft, owner, tx, control, mail, upsets>>

\* A step completes and is left in one savepoint, so of the step runs only
\* the current one matters, and of the waits the last of each kind.  `missed'
\* records, of a parked run, that a resume of its step had already looked for
\* runs to release.
WaitRows == [of : Steps \cup {NoStep}, is : {"open", "event", "timeout", "cancelled"}]

Runs ==
    [state : {"active", "waiting", "ended"}, node : Nodes \cup {None},
     visits : [Nodes -> Nat], next : {"due", "null"},
     begun : BOOLEAN, last : Steps \cup {NoStep}, errors : 0 .. MaxErrors, missed : BOOLEAN,
     wait : [{"step", "hold"} -> WaitRows]]

NoTx == [at |-> "none"]
TxStates ==
    {NoTx} \cup [at : {"due", "running", "parked", "ending", "failed"}]
    \cup [at : {"event"}, row : Inbox, waits : SUBSET Waits]
    \cup [at : {"unrecorded"}, row : Inbox]
    \cup [at : {"clock"}, waits : SUBSET Waits]

\* The type invariant: the run keeps its shape, an ended run is at no node,
\* and the row lock belongs to the transaction that runs the steps.
TypeOK ==
    /\ run \in Runs /\ draft \in Runs
    /\ \A u \in {run, draft} : u.state = "ended" <=> u.node = None
    /\ owner \in Replicas \cup {Request, None}
    /\ tx \in [Replicas -> TxStates]
    /\ \A r \in Replicas : tx[r].at \in {"running", "parked", "ending"} <=> owner = r
    /\ paused \subseteq Nodes /\ live \in BOOLEAN /\ resuming \in paused \cup {None}
    /\ inbox \in [Inbox -> {"none", "pending", "processed"}]
    /\ type \in [Inbox -> {"none", "reply", "signal", "closed"}]
    /\ tries \in [Inbox -> Nat] /\ applied \in [Inbox -> Nat]
    /\ undone \subseteq Inbox
    /\ upsets \in 0 .. MaxUpsets

NoWait == [of |-> NoStep, is |-> "cancelled"]

\* enroll() has inserted the run.
Enrolled ==
    [state |-> "active", node |-> Start,
     visits |-> [n \in Nodes |-> IF n = Start THEN 1 ELSE 0], next |-> "due",
     begun |-> FALSE, last |-> NoStep, errors |-> 0, missed |-> FALSE,
     wait |-> [k \in {"step", "hold"} |-> NoWait]]

Init ==
    /\ run = Enrolled /\ draft = Enrolled /\ owner = None
    /\ tx = [r \in Replicas |-> NoTx]
    /\ paused = {} /\ live = TRUE /\ resuming = None
    /\ inbox = [e \in Inbox |-> "none"] /\ type = inbox /\ tries = [e \in Inbox |-> 0]
    /\ applied = [e \in Inbox |-> 0] /\ undone = {}
    /\ upsets = 0

-----------------------------------------------------------------------------
(* What the service does to a run u, under its row lock                    *)

IsOpen(u) == u.state \in {"active", "waiting"}
OpenKind(u, k) == u.wait[k].is = "open"
OpenWait(u, w) == OpenKind(u, w[1]) /\ u.wait[w[1]].of = w[2]
OpenWaits(u) == {w \in {<<k, u.wait[k].of>> : k \in {"step", "hold"}} : OpenWait(u, w)}
Opened(s) == [of |-> s, is |-> "open"]
Cur(u) == <<u.node, u.visits[u.node]>>

\* finish() with closeOpenSteps(): nothing reads the rest of an ended run.
Finished(u) == [Enrolled EXCEPT !.state = "ended", !.node = None, !.next = "null"]

\* The run arrives at a node.
At(u, n) ==
    [u EXCEPT !.node = n, !.visits[n] = @ + 1, !.next = "due", !.begun = FALSE,
              !.wait["step"] = NoWait, !.missed = FALSE]

Advanced(u) == IF Edge[u.node] = End THEN Finished(u) ELSE At(u, Edge[u.node])

\* Mutant: a hold for the contact's conversation does not keep the run back.
StillWaiting_NoHold(u, k) == k = "hold" /\ OpenKind(u, "step")

\* Mutant: the end of the hold leaves the run to the wait of its step.
StillWaiting_Left(u, k) == k = "hold" \/ OpenKind(u, "hold")

\* Whether the run, a wait of kind k resolved, waits for another.
StillWaiting(u, k) ==
    IF k = "hold" THEN \E o \in {"step", "hold"} : OpenKind(u, o) ELSE OpenKind(u, "hold")

\* resolveWait(): a wait that was resolved since it was read is left alone.
Resolved(u, w, how) ==
    LET v == [u EXCEPT !.wait[w[1]].is = how] IN
    IF ~OpenWait(u, w) THEN u
    ELSE IF u.state # "waiting" \/ StillWaiting(v, w[1]) THEN v
    ELSE [v EXCEPT !.state = "active", !.next = "due"]

ResolvedKind(u, W, k, how) ==
    LET w == <<k, u.wait[k].of>> IN IF w \in W THEN Resolved(u, w, how) ELSE u

\* The waits read are resolved one after the other; the order does not matter.
ResolvedAll(u, W, how) == ResolvedKind(ResolvedKind(u, W, "step", how), W, "hold", how)

\* handleReply(): the reply follows onReply of the last message, or holds the
\* run until the conversation closes.
Replied(u) ==
    LET n == u.last[1] IN
    IF ~IsOpen(u) \/ u.last = NoStep THEN u
    ELSE IF OnReply[n] # None
    THEN [At(u, OnReply[n]) EXCEPT !.state = "active", !.wait["hold"] = NoWait]
    ELSE IF OpenKind(u, "hold") THEN u
    ELSE [u EXCEPT !.wait["hold"] = Opened(u.last), !.state = "waiting", !.next = "null"]

\* Mutant: a wait that timed out is opened again.
Resumed_Event(u) == u.begun /\ u.wait["step"] = [of |-> Cur(u), is |-> "event"]

\* latestWait(): the step's own wait has been resolved.
Resumed(u) == u.begun /\ u.wait["step"] \in [of : {Cur(u)}, is : {"event", "timeout"}]

\* The rest of runNode(): a message leaves and the run moves on; a wait opens,
\* or has been resolved and lets the run go: when the event it waited for did
\* not come, along onTimeout or out of the journey.  A timer may be past already.
Ran(u, past) ==
    IF u.visits[u.node] > MaxVisits THEN Finished(u)
    ELSE IF Kind[u.node] = "message" THEN Advanced([u EXCEPT !.last = Cur(u)])
    ELSE IF Kind[u.node] = "event" /\ Resumed(u) /\ u.wait["step"].is = "timeout"
    THEN IF OnTimeout[u.node] = None THEN Finished(u) ELSE At(u, OnTimeout[u.node])
    ELSE IF Resumed(u) \/ (Kind[u.node] = "timer" /\ past) THEN Advanced(u)
    ELSE [u EXCEPT !.begun = TRUE, !.wait["step"] = Opened(Cur(u)),
                   !.state = "waiting", !.next = "null"]

\* recordStepError(): retried with a backoff, and given up at the limit.
Erred(u) ==
    LET v == [u EXCEPT !.errors = @ + 1] IN
    IF v.errors < MaxErrors THEN [v EXCEPT !.next = "due"] ELSE Finished(v)

-----------------------------------------------------------------------------
(* runEnrollments(), runEnrollment()                                       *)

To(r, where) == tx' = [tx EXCEPT ![r] = where]
Goes(r, at) == To(r, [at |-> at])
Upset == upsets < MaxUpsets /\ upsets' = upsets + 1

\* The batch of due runs of live journeys, read without a lock.
RunSelect(r) ==
    /\ tx[r] = NoTx
    /\ run.state = "active" /\ run.next = "due" /\ live
    /\ Goes(r, "due")
    /\ UNCHANGED <<run, draft, owner, control, mail, upsets>>

\* SELECT ... AND state = 'active' FOR UPDATE SKIP LOCKED
Lockable == owner = None /\ run.state = "active"

RunLock(r) ==
    /\ tx[r].at = "due"
    /\ IF Lockable THEN Goes(r, "running") /\ owner' = r /\ draft' = run
                   ELSE To(r, NoTx) /\ UNCHANGED <<owner, draft>>
    /\ UNCHANGED <<run, control, mail, upsets>>

\* runNode(): a step that has not begun parks the run while it is paused.
Parks(u) == u.visits[u.node] =< MaxVisits /\ ~u.begun /\ u.node \in paused

\* After MAX_NODES_PER_RUN steps the loop ends and the next tick goes on.
RunNode(r) ==
    /\ tx[r].at = "running"
    /\ \/ ~live /\ Goes(r, "ending") /\ draft' = [draft EXCEPT !.errors = 0]
       \/ live /\ Parks(draft) /\ Goes(r, "parked")
             /\ draft' = [draft EXCEPT !.next = "null", !.errors = 0,
                                       !.missed = (draft.node = resuming)]
       \/ live /\ ~Parks(draft)
             /\ \E past \in BOOLEAN : draft' = [Ran(draft, past) EXCEPT !.errors = 0]
             /\ \E at \in {"running", "ending"} :
                  (draft'.state # "active" => at = "ending") /\ Goes(r, at)
    /\ UNCHANGED <<run, owner, control, mail, upsets>>

\* A step throws: its savepoint is rolled back and the error counted.
StepThrows(r) ==
    /\ tx[r].at = "running" /\ Upset
    /\ draft' = Erred(draft) /\ Goes(r, "ending")
    /\ UNCHANGED <<run, owner, control, mail>>

Commits(r) ==
    /\ tx[r].at \in {"ending", "parked"}
    /\ run' = draft /\ owner' = None
    /\ UNCHANGED <<draft, control, mail>>

Commit(r) == Commits(r) /\ To(r, NoTx) /\ UNCHANGED upsets

\* The commit takes effect, but its acknowledgement is lost and the call throws.
CommitUnsure(r) == Commits(r) /\ Goes(r, "failed") /\ Upset

\* The transaction fails; the worker then puts the run off by a minute.
RunFails(r) ==
    /\ tx[r].at \in {"running", "ending", "parked"} /\ Upset
    /\ draft' = run /\ owner' = None /\ Goes(r, "failed")
    /\ UNCHANGED <<run, control, mail>>

PutOff(r) ==
    /\ tx[r].at = "failed" /\ owner = None
    /\ run' = [run EXCEPT !.next = "due"] /\ draft' = run' /\ To(r, NoTx)
    /\ UNCHANGED <<owner, control, mail, upsets>>

-----------------------------------------------------------------------------
(* drainInbox(), processInboxRow(), wakeWaits(), resolveDueWaits()         *)

\* JourneyEventSink: an event is written with its cause.
Emit(e) ==
    /\ inbox[e] = "none" /\ inbox' = [inbox EXCEPT ![e] = "pending"]
    /\ \E t \in Types[e] :
         (t = "reply" => run.last # NoStep) /\ type' = [type EXCEPT ![e] = t]
    /\ UNCHANGED <<run, draft, owner, tx, control, tries, applied, undone, upsets>>

\* The open waits the event is for, as read before the run's row is locked.
WaitsFor(e) ==
    {w \in OpenWaits(run) :
        IF type[e] = "closed" THEN w[1] = "hold"
        ELSE type[e] = "signal" /\ w[1] = "step" /\ Kind[w[2][1]] = "event"}

RowLocked(e) == \E r \in Replicas : tx[r].at = "event" /\ tx[r].row = e

\* Mutant: the row is taken without FOR UPDATE SKIP LOCKED.
Takeable_Unlocked(e) == inbox[e] = "pending"

\* The inbox row is not processed and no other transaction has its lock.
Takeable(e) == inbox[e] = "pending" /\ ~RowLocked(e)

EventTake(r, e) ==
    /\ tx[r] = NoTx /\ Takeable(e)
    /\ To(r, [at |-> "event", row |-> e, waits |-> WaitsFor(e)])
    /\ UNCHANGED <<run, draft, owner, control, mail, upsets>>

\* processInboxRow() under the run's row lock, processed_at and the commit.
Applies(r) ==
    /\ tx[r].at = "event" /\ owner = None
    /\ LET e == tx[r].row IN
       /\ run' = IF type[e] = "reply" THEN Replied(run)
                 ELSE ResolvedAll(run, tx[r].waits, "event")
       /\ inbox' = [inbox EXCEPT ![e] = "processed"]
       /\ applied' = [applied EXCEPT ![e] = @ + 1]
    /\ draft' = run'
    /\ UNCHANGED <<owner, control, type, tries, undone>>

EventApply(r) == Applies(r) /\ To(r, NoTx) /\ UNCHANGED upsets

Unrecorded(r) == To(r, [at |-> "unrecorded", row |-> tx[r].row])

\* The same with the commit's acknowledgement lost: the catch block follows.
EventUnsure(r) == Applies(r) /\ Unrecorded(r) /\ Upset

EventFails(r) ==
    /\ tx[r].at = "event" /\ Unrecorded(r) /\ Upset
    /\ UNCHANGED <<run, draft, owner, control, mail>>

\* The catch block counts the failure in a transaction of its own: it writes
\* processed_at whatever another replica, or the lost commit, has made of the row.
EventRecord(r) ==
    /\ tx[r].at = "unrecorded" /\ ~RowLocked(tx[r].row)
    /\ LET e == tx[r].row
           last == tries[e] + 1 >= MaxTries
       IN  /\ tries' = [tries EXCEPT ![e] = @ + 1]
           /\ inbox' = [inbox EXCEPT ![e] = IF last THEN "processed" ELSE "pending"]
           /\ undone' = IF inbox[e] = "processed" /\ ~last THEN undone \cup {e} ELSE undone
    /\ To(r, NoTx)
    /\ UNCHANGED <<run, draft, owner, control, type, applied, upsets>>

\* The open waits whose wake time or timeout has passed.
ClockRead(r) ==
    /\ tx[r] = NoTx
    /\ \E W \in SUBSET OpenWaits(run) \ {{}} : To(r, [at |-> "clock", waits |-> W])
    /\ UNCHANGED <<run, draft, owner, control, mail, upsets>>

ClockApply(r) ==
    /\ tx[r].at = "clock" /\ owner = None
    /\ run' = ResolvedAll(run, tx[r].waits, "timeout")
    /\ draft' = run' /\ To(r, NoTx)
    /\ UNCHANGED <<owner, control, mail, upsets>>

\* A process dies.
Crash(r) ==
    /\ tx[r] # NoTx /\ Upset
    /\ To(r, NoTx)
    /\ owner' = IF owner = r THEN None ELSE owner
    /\ draft' = IF owner = r THEN run ELSE draft
    /\ UNCHANGED <<run, control, mail>>

-----------------------------------------------------------------------------
(* People                                                                  *)

Becomes(u) == owner = None /\ run' = u /\ draft' = u

\* eject(), endArchivedRuns(), the idle deadline, an exit or goal event.
EndRun ==
    /\ IsOpen(run) /\ Becomes(Finished(run))
    /\ UNCHANGED <<owner, tx, control, mail, upsets>>

\* lockRow(): the requests that change the journey's row wait for each other.
PauseNode(n) ==
    /\ resuming = None /\ Upset /\ n \notin paused /\ paused' = paused \cup {n}
    /\ UNCHANGED <<run, draft, owner, tx, live, resuming, mail>>

\* Mutant: nobody releases the runs held at the step.
Released_None(n) == FALSE

\* Runs parked at the step, by their committed rows.
Released(n) == run.state = "active" /\ run.node = n /\ run.next = "null"

\* resumeNode(): its update of a row waits for that row's lock and then keeps
\* it.  A run that is being parked at the step is not among the rows updated.
ResumeNode(n) ==
    /\ resuming = None /\ n \in paused /\ resuming' = n
    /\ IF Released(n)
       THEN /\ owner = None /\ owner' = Request
            /\ draft' = [run EXCEPT !.next = "due", !.missed = FALSE]
       ELSE /\ draft' = IF draft.node = n /\ \E r \in Replicas : tx[r].at = "parked"
                        THEN [draft EXCEPT !.missed = TRUE] ELSE draft
            /\ UNCHANGED owner
    /\ UNCHANGED <<run, tx, paused, live, mail, upsets>>

\* The end of the request's transaction: others see the step resumed only now.
ResumeCommits ==
    /\ resuming # None /\ resuming' = None /\ paused' = paused \ {resuming}
    /\ run' = IF owner = Request THEN draft ELSE run
    /\ owner' = IF owner = Request THEN None ELSE owner
    /\ UNCHANGED <<draft, tx, live, mail, upsets>>

\* The request fails, or its process dies.
ResumeFails ==
    /\ resuming # None /\ resuming' = None /\ Upset
    /\ draft' = IF owner = Request THEN run ELSE draft
    /\ owner' = IF owner = Request THEN None ELSE owner
    /\ UNCHANGED <<run, tx, paused, live, mail>>

PauseJourney ==
    /\ resuming = None /\ live /\ Upset /\ live' = FALSE
    /\ UNCHANGED <<run, draft, owner, tx, paused, resuming, mail>>

ResumeJourney ==
    /\ resuming = None /\ ~live /\ live' = TRUE
    /\ UNCHANGED <<run, draft, owner, tx, paused, resuming, mail, upsets>>

-----------------------------------------------------------------------------
Begin(r) == RunSelect(r) \/ ClockRead(r) \/ \E e \in Inbox : EventTake(r, e)

Continue(r) ==
    \/ RunLock(r) \/ RunNode(r) \/ Commit(r) \/ PutOff(r)
    \/ EventApply(r) \/ EventRecord(r) \/ ClockApply(r)

Next ==
    \/ \E r \in Replicas : Begin(r) \/ Continue(r)
    \/ \E r \in Replicas : StepThrows(r) \/ RunFails(r) \/ EventFails(r) \/ Crash(r)
    \/ \E r \in Replicas : CommitUnsure(r) \/ EventUnsure(r)
    \/ \E e \in Inbox : Emit(e)
    \/ EndRun
    \/ \E n \in Pausable : PauseNode(n) \/ ResumeNode(n)
    \/ ResumeCommits \/ ResumeFails
    \/ PauseJourney \/ ResumeJourney

\* A tick goes through its phases and comes round again, a request once begun
\* ends; the time a run, a wait or an event is due comes.  People need not act, and
\* contacts need not answer.
Fairness ==
    /\ \A r \in Replicas : WF_vars(Continue(r))
    /\ WF_vars(\E r \in Replicas : Begin(r))
    /\ WF_vars(ResumeCommits)

Spec == Init /\ [][Next]_vars /\ Fairness

-----------------------------------------------------------------------------
(* Properties                                                              *)

\* A waiting run waits for something: some wait of it is still to be resolved
\* by an event or the clock.
WaitsForSomething == run.state = "waiting" => OpenWaits(run) # {}

\* After a reply without an onReply path the journey "holds until the
\* conversation closes": the run moves to no other step while the hold is open,
\* whatever else it waits for and whoever looks at it.
HeldStays ==
    [][OpenKind(run, "hold") /\ OpenKind(run', "hold")
          => run'.visits = run.visits /\ run'.node = run.node /\ run'.last = run.last]_vars

Parked(u) == u.state = "active" /\ u.next = "null"

\* A run that is active with no next run time is parked at a paused step:
\* otherwise no worker finds it again.  The exception is a run whose parking is
\* committed after a resume of that very step looked for runs to release,
\* having read the pause before that resume was committed.
ParkedIsPaused == Parked(run) => run.node \in paused \/ run.missed

\* An event moves the run once, unless the record of a failure comes after a
\* success: another replica's, or one whose acknowledgement was lost.
AppliedOnce == \A e \in Inbox : applied[e] =< 1 \/ e \in undone

\* A run comes to its end by the clock alone, unless people pause its step or
\* its journey and leave it so, or it was parked as a resume passed it by.
RunEnds ==
    IsOpen(run) ~> \/ ~IsOpen(run) \/ run.node \in paused \/ ~live
                   \/ Parked(run) /\ run.missed

-----------------------------------------------------------------------------
(* The strengthening of the invariants above.                              *)

\* A waiting run has an open wait, an open wait is some step's, and an open hold
\* keeps the run waiting.
Coherent(u) ==
    /\ u.state = "waiting" => \E k \in {"step", "hold"} : OpenKind(u, k)
    /\ \A k \in {"step", "hold"} : OpenKind(u, k) => u.wait[k].of \in Steps
    /\ OpenKind(u, "hold") => u.state = "waiting"

\* The row lock keeps the committed run active and as it is; without it, there
\* is no other draft.
Locked ==
    /\ owner # None => run.state = "active"
    /\ owner = None => draft = run
    /\ \A r \in Replicas : tx[r].at \in {"running", "parked"} => draft.state = "active"

\* The parked run u will be found by the resume of its step, or was missed.
Findable(u) == u.node \in paused \ {resuming} \/ u.missed

\* A draft with no next run time is being parked, or its run was parked before;
\* a parked run is findable, unless the resume that found it holds its row.
Parking ==
    /\ Parked(draft) =>
         /\ Findable(draft)
         /\ \/ \E r \in Replicas : tx[r].at = "parked"
            \/ Parked(run) /\ run.node = draft.node
    /\ Parked(run) => Findable(run) \/ (owner = Request /\ run.node = resuming)
    /\ owner = Request =>
         resuming # None /\ Parked(run) /\ draft = [run EXCEPT !.next = "due", !.missed = FALSE]

\* A row that is being applied is pending, in one transaction.
Applying ==
    /\ \A r \in Replicas : tx[r].at = "event" => inbox[tx[r].row] = "pending"
    /\ \A q, r \in Replicas :
         tx[q].at = "event" /\ tx[r].at = "event" /\ tx[q].row = tx[r].row => q = r

\* An event that took effect is out of the drain's reach, or was put back.
Closed == \A e \in Inbox : applied[e] > 0 => inbox[e] = "processed" \/ e \in undone

JourneyInv ==
    /\ TypeOK /\ Coherent(run) /\ Coherent(draft) /\ Locked
    /\ ParkedIsPaused /\ Parking /\ Applying /\ Closed /\ AppliedOnce

=============================================================================
