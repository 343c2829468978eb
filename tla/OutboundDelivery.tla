-------------------------- MODULE OutboundDelivery --------------------------
(***************************************************************************)
(* Outbound message delivery on one channel: the rows of                   *)
(* conv_message_deliveries, the delivery worker of every replica, the      *)
(* scheduler lock that keeps two of them from draining at once, the        *)
(* channel's hourly send limit (email), the vendor's status reports (SMS), *)
(* and the operator's retry of a dead delivery.                            *)
(*                                                                         *)
(* The worker runs outside any transaction: every statement it issues, and *)
(* the adapter's send, is an action.  The advisory lock belongs to the     *)
(* transaction withSchedulerLock() opened, so it goes when that connection *)
(* goes, whether or not the tick it guards has ended.                      *)
(*                                                                         *)
(* next_attempt_at is what it enables: "now", "later" or "null".           *)
(***************************************************************************)
EXTENDS Integers, FiniteSets, FiniteSetsExt

CONSTANTS
    Deliveries,   \* rows
    Replicas,     \* backend processes, each with a worker
    Operators,    \* staff who may retry a dead delivery
    None,         \* no delivery, no lock holder
    MaxAttempts,  \* MAX_ATTEMPTS
    BatchSize,    \* BATCH_SIZE
    PerHour,      \* perHourMax of an email channel, 0 when it has none
    Reports,      \* whether the vendor reports on messages, as SMS vendors do
    MaxFaults,    \* bound: lost locks, throws and deaths explored
    MaxRetries    \* bound: retries explored

ASSUME NoneAssumption == None \notin Deliveries \cup Replicas
ASSUME DeliveriesAssumption == IsFiniteSet(Deliveries)
ASSUME BoundsAssumption ==
    /\ MaxAttempts \in Nat \ {0} /\ BatchSize \in Nat \ {0}
    /\ PerHour \in Nat /\ MaxRetries \in Nat /\ MaxFaults \in Nat
ASSUME ReportsAssumption == Reports \in BOOLEAN /\ (Reports => PerHour = 0)

VARIABLES
    status, attempt, due,  \* Deliveries -> columns of the row
    header,   \* rows with a message_id_header, the vendor's id of the message
    recent,   \* rows whose sent_at is less than an hour old
    alert,    \* the channel_outbound alert: "open" or "closed"
    lock,     \* holder of the advisory lock, or None
    pc,       \* Replicas -> where the tick is
    batch,    \* Replicas -> selected rows it has yet to attempt
    cur,      \* Replicas -> the row it is attempting
    read,     \* Replicas -> attempt as read by loadContext()
    ask,      \* Operators -> the row its retry found dead, or None
    retries,  \* number of retries begun
    faults,   \* number of faults that happened
    sends,    \* history: Deliveries -> times the message left
    fresh,    \* history: Deliveries -> of those, within the hour
    doubted   \* history: rows a fault or a racing retry may send again

columns == <<status, attempt, due, header>>
ticks == <<pc, batch, cur, read>>
truth == <<faults, sends, fresh, doubted>>
vars == <<status, attempt, due, header, recent, alert, lock, pc, batch, cur, read,
          ask, retries, faults, sends, fresh, doubted>>

Fault == faults < MaxFaults /\ faults' = faults + 1

PC == {"idle", "picking", "checking", "deferring", "sending", "recording",
       "announcing", "failing", "alerting"}

\* The type invariant: columns, ticks and history keep their shapes.
TypeOK ==
    /\ status \in [Deliveries -> {"absent", "queued", "failed", "sent", "dead"}]
    /\ attempt \in [Deliveries -> Nat]
    /\ due \in [Deliveries -> {"now", "later", "null"}]
    /\ header \subseteq Deliveries
    /\ recent \subseteq Deliveries
    /\ alert \in {"open", "closed"}
    /\ lock \in Replicas \cup {None}
    /\ pc \in [Replicas -> PC]
    /\ batch \in [Replicas -> SUBSET Deliveries]
    /\ cur \in [Replicas -> Deliveries \cup {None}]
    /\ \A r \in Replicas : pc[r] \notin {"idle", "picking"} => cur[r] \in Deliveries
    /\ read \in [Replicas -> Nat]
    /\ ask \in [Operators -> Deliveries \cup {None}]
    /\ retries \in 0..MaxRetries
    /\ faults \in 0..MaxFaults
    /\ sends \in [Deliveries -> Nat]
    /\ fresh \in [Deliveries -> Nat]
    /\ doubted \subseteq Deliveries

Init ==
    /\ status = [d \in Deliveries |-> "absent"]
    /\ attempt = [d \in Deliveries |-> 0]
    /\ due = [d \in Deliveries |-> "null"]
    /\ header = {}
    /\ recent = {}
    /\ alert = "closed"
    /\ lock = None
    /\ pc = [r \in Replicas |-> "idle"]
    /\ batch = [r \in Replicas |-> {}]
    /\ cur = [r \in Replicas |-> None]
    /\ read = [r \in Replicas |-> 0]
    /\ ask = [o \in Operators |-> None]
    /\ retries = 0
    /\ faults = 0
    /\ sends = [d \in Deliveries |-> 0]
    /\ fresh = [d \in Deliveries |-> 0]
    /\ doubted = {}

-----------------------------------------------------------------------------
(* The API's side: a message is queued, a dead delivery is retried.        *)

Enqueue(d) ==
    /\ status[d] = "absent"
    /\ status' = [status EXCEPT ![d] = "queued"]
    /\ due' = [due EXCEPT ![d] = "now"]
    /\ UNCHANGED <<attempt, header, recent, alert, lock, ticks, ask, retries, truth>>

\* retryMessageDelivery() reads the status of the row ...
RetryRead(o, d) ==
    /\ ask[o] = None /\ retries < MaxRetries
    /\ status[d] = "dead"
    /\ ask' = [ask EXCEPT ![o] = d]
    /\ retries' = retries + 1
    /\ UNCHANGED <<columns, recent, alert, lock, ticks, truth>>

\* ... and updates it by id alone, whatever it has become.
RetryWrite(o) ==
    LET d == ask[o] IN
    /\ d # None
    /\ status' = [status EXCEPT ![d] = "queued"]
    /\ attempt' = [attempt EXCEPT ![d] = 0]
    /\ due' = [due EXCEPT ![d] = "now"]
    /\ ask' = [ask EXCEPT ![o] = None]
    /\ doubted' = IF status[d] = "dead" THEN doubted ELSE doubted \cup {d}
    /\ UNCHANGED <<header, recent, alert, lock, ticks, retries, faults, sends, fresh>>

\* What the vendors' words for a message's state are mapped to.
Reported == {"queued", "sent", "failed"}

\* applyStatusCallback(), applyStatusReport(): the vendor's reports come in
\* any order and any number, once the row carries the vendor's id.
StatusCallback(d, st) ==
    /\ Reports
    /\ d \in header
    /\ status' = [status EXCEPT ![d] = st]
    /\ recent' = IF st = "sent" THEN recent \cup {d} ELSE recent
    /\ UNCHANGED <<attempt, due, header, alert, lock, ticks, ask, retries, truth>>

-----------------------------------------------------------------------------
(* A tick of the worker, under the scheduler lock.                         *)

Drainable(d) ==
    /\ status[d] \in {"queued", "failed"}
    /\ attempt[d] < MaxAttempts
    /\ due[d] = "now"

\* Mutant: the tick runs whether or not the lock was granted.
LockFree_Ignored(r) == TRUE

\* pg_try_advisory_xact_lock() is granted.
LockFree(r) == lock = None

\* A tick that finds nothing to drain changes nothing and is left out.
Tick(r) ==
    LET ready == {d \in Deliveries : Drainable(d)} IN
    /\ pc[r] = "idle" /\ LockFree(r)
    /\ ready # {}
    /\ \E picked \in SUBSET ready :
         /\ Cardinality(picked) = Min({BatchSize, Cardinality(ready)})
         /\ batch' = [batch EXCEPT ![r] = picked]
    /\ lock' = r
    /\ pc' = [pc EXCEPT ![r] = "picking"]
    /\ UNCHANGED <<columns, recent, alert, cur, read, ask, retries, truth>>

\* The row is done with, for good or ill: on to the next of the batch.
Advance(r) ==
    /\ pc' = [pc EXCEPT ![r] = "picking"]
    /\ cur' = [cur EXCEPT ![r] = None]
    /\ read' = [read EXCEPT ![r] = 0]
    /\ UNCHANGED batch

Go(r, place) ==
    /\ pc' = [pc EXCEPT ![r] = place]
    /\ UNCHANGED <<batch, cur, read>>

\* running is cleared and the lock's transaction ends.
Release(r) ==
    /\ pc' = [pc EXCEPT ![r] = "idle"]
    /\ batch' = [batch EXCEPT ![r] = {}]
    /\ cur' = [cur EXCEPT ![r] = None]
    /\ read' = [read EXCEPT ![r] = 0]
    /\ lock' = IF lock = r THEN None ELSE lock

TickEnds(r) ==
    /\ pc[r] = "picking" /\ batch[r] = {}
    /\ Release(r)
    /\ UNCHANGED <<columns, recent, alert, ask, retries, truth>>

\* loadContext(): the attempt is read again, the status is not looked at.
Load(r, d) ==
    /\ pc[r] = "picking" /\ d \in batch[r]
    /\ pc' = [pc EXCEPT ![r] = "checking"]
    /\ batch' = [batch EXCEPT ![r] = @ \ {d}]
    /\ cur' = [cur EXCEPT ![r] = d]
    /\ read' = [read EXCEPT ![r] = attempt[d]]
    /\ UNCHANGED <<columns, recent, alert, lock, ask, retries, truth>>

Counted == {d \in recent : status[d] = "sent"}

\* Mutant: off by one in the limit.
Blocked_OffByOne == PerHour > 0 /\ Cardinality(Counted) > PerHour

\* decideRateLimit() over countRecentSends().
Blocked == PerHour > 0 /\ Cardinality(Counted) >= PerHour

\* No adapter is registered, in this process, for the channel's type and vendor.
NoAdapter(r) ==
    /\ pc[r] = "checking"
    /\ Go(r, "failing")
    /\ UNCHANGED <<columns, recent, alert, lock, ask, retries, truth>>

CheckLimit(r) ==
    /\ pc[r] = "checking"
    /\ Go(r, IF Blocked THEN "deferring" ELSE "sending")
    /\ UNCHANGED <<columns, recent, alert, lock, ask, retries, truth>>

RecordDeferral(r) ==
    LET d == cur[r] IN
    /\ pc[r] = "deferring"
    /\ status' = [status EXCEPT ![d] = "queued"]
    /\ due' = [due EXCEPT ![d] = "later"]
    /\ Advance(r)
    /\ UNCHANGED <<attempt, header, recent, alert, lock, ask, retries, truth>>

\* The adapter sends the message, or throws; a throw after the message left, a
\* timeout say, cannot be told apart.
Send(r, out) ==
    LET d == cur[r] IN
    /\ pc[r] = "sending"
    /\ IF out = "ambiguous" THEN Fault ELSE UNCHANGED faults
    /\ Go(r, IF out = "ok" THEN "recording" ELSE "failing")
    /\ IF out = "refused" THEN UNCHANGED <<sends, fresh>>
       ELSE /\ sends' = [sends EXCEPT ![d] = @ + 1]
            /\ fresh' = [fresh EXCEPT ![d] = @ + 1]
    /\ doubted' = IF out = "ambiguous" THEN doubted \cup {d} ELSE doubted
    /\ UNCHANGED <<columns, recent, alert, lock, ask, retries>>

SentAttempt(n) == n + 1

RecordSent(r) ==
    LET d == cur[r] IN
    /\ pc[r] = "recording"
    /\ status' = [status EXCEPT ![d] = "sent"]
    /\ attempt' = [attempt EXCEPT ![d] = SentAttempt(read[r])]
    /\ due' = [due EXCEPT ![d] = "null"]
    /\ header' = header \cup {d}
    /\ recent' = recent \cup {d}
    /\ Go(r, "announcing")
    /\ UNCHANGED <<alert, lock, ask, retries, truth>>

\* The delivered event is emitted and the channel's alert resolved.
Announce(r) ==
    /\ pc[r] = "announcing"
    /\ alert' = "closed"
    /\ Advance(r)
    /\ UNCHANGED <<columns, recent, lock, ask, retries, truth>>

\* Mutant: off by one in final.
Final_OneEarly(next) == next + 1 >= MaxAttempts

Final(next) == next >= MaxAttempts

\* Mutant: no time is set for the next attempt.
FailDue_Forgotten(final) == "null"

FailDue(final) == IF final THEN "null" ELSE "later"

RecordFailure(r) ==
    LET d == cur[r]
        next == read[r] + 1
        final == Final(next)
    IN  /\ pc[r] = "failing"
        /\ status' = [status EXCEPT ![d] = IF final THEN "dead" ELSE "failed"]
        /\ attempt' = [attempt EXCEPT ![d] = next]
        /\ due' = [due EXCEPT ![d] = FailDue(final)]
        /\ IF final THEN Go(r, "alerting") ELSE Advance(r)
        /\ UNCHANGED <<header, recent, alert, lock, ask, retries, truth>>

OpenAlert(r) ==
    /\ pc[r] = "alerting"
    /\ alert' = "open"
    /\ Advance(r)
    /\ UNCHANGED <<columns, recent, lock, ask, retries, truth>>

\* A statement throws out of the tick, or the process dies.
Abandon(r) ==
    /\ Fault
    /\ pc[r] # "idle"
    /\ Release(r)
    /\ doubted' = IF pc[r] = "recording" THEN doubted \cup {cur[r]} ELSE doubted
    /\ UNCHANGED <<columns, recent, alert, ask, retries, sends, fresh>>

\* The lock's connection is gone; the tick goes on over the pool's others.
LockLost(r) ==
    /\ Fault
    /\ lock = r
    /\ lock' = None
    /\ doubted' = doubted \cup batch[r] \cup ({cur[r]} \ {None})
    /\ UNCHANGED <<columns, recent, alert, ticks, ask, retries, sends, fresh>>

-----------------------------------------------------------------------------
(* The passage of time.                                                    *)

ComeDue(d) ==
    /\ due[d] = "later"
    /\ due' = [due EXCEPT ![d] = "now"]
    /\ UNCHANGED <<status, attempt, header, recent, alert, lock, ticks, ask, retries, truth>>

\* Only the limit looks at the hour.
HourPasses(d) ==
    /\ PerHour > 0
    /\ d \in recent \/ fresh[d] > 0
    /\ recent' = recent \ {d}
    /\ fresh' = [fresh EXCEPT ![d] = 0]
    /\ UNCHANGED <<columns, alert, lock, ticks, ask, retries, faults, sends, doubted>>

-----------------------------------------------------------------------------
Attempt(r) ==
    \/ \E d \in Deliveries : Load(r, d)
    \/ NoAdapter(r) \/ CheckLimit(r) \/ RecordDeferral(r)
    \/ \E out \in {"ok", "refused", "ambiguous"} : Send(r, out)
    \/ RecordSent(r) \/ Announce(r)
    \/ RecordFailure(r) \/ OpenAlert(r)
    \/ TickEnds(r)

Next ==
    \/ \E d \in Deliveries : Enqueue(d) \/ ComeDue(d) \/ HourPasses(d)
    \/ \E d \in Deliveries, st \in Reported : StatusCallback(d, st)
    \/ \E o \in Operators : RetryWrite(o) \/ \E d \in Deliveries : RetryRead(o, d)
    \/ \E r \in Replicas : Tick(r) \/ Attempt(r) \/ Abandon(r) \/ LockLost(r)

Spec == Init /\ [][Next]_vars

(* The interval timers keep ticking on some replica, a tick's statements   *)
(* and sends return, and time passes.                                      *)
FairSpec ==
    /\ Spec
    /\ WF_vars(\E r \in Replicas : Tick(r))
    /\ \A r \in Replicas : WF_vars(Attempt(r))
    /\ \A d \in Deliveries : WF_vars(ComeDue(d)) /\ WF_vars(HourPasses(d))

-----------------------------------------------------------------------------
(* Properties.                                                             *)

\* The scheduler lock and the order send, record, next row: a message leaves
\* at most once unless a fault fell between the send and its record, the
\* lock went during a tick, or two retries of the row raced.
SentOnce == \A d \in Deliveries : sends[d] <= 1 \/ d \in doubted

\* A row says sent only of a message that left, and dead only after every
\* attempt was spent.
StatusEarned ==
    \A d \in Deliveries :
        /\ status[d] = "sent" => sends[d] >= 1
        /\ status[d] = "dead" => attempt[d] >= MaxAttempts

\* No queued or failed row is out of the drain's reach for ever, as long as
\* the worker and the retry alone write it.
NeverStranded ==
    \A d \in Deliveries :
        status[d] \in {"queued", "failed"} =>
            d \in doubted \/ (Reports /\ d \in header) \/ (attempt[d] < MaxAttempts /\ due[d] # "null")

\* The messages that left within the hour, by row and count.
Hourly == UNION {{d} \X (1 .. fresh[d]) : d \in Deliveries}

\* decideRateLimit(): no more messages leave within the hour than the
\* channel's limit, though the count is taken before the send and the send
\* is recorded after it.
LimitHeld == PerHour > 0 /\ doubted = {} => Cardinality(Hourly) <= PerHour

\* The drain: every queued delivery is sent or dead in the end, though the
\* batch is short, the limit defers it and sends fail.
Settles == \A d \in Deliveries : status[d] = "queued" ~> status[d] \in {"sent", "dead"}

-----------------------------------------------------------------------------
(* The inductive invariant (module OutboundDeliveryProofs).                *)

\* The rows a tick has in hand.
Hands(r) == batch[r] \cup ({cur[r]} \ {None})

\* Before the attempt's outcome is known.
Attempting == {"checking", "deferring", "sending", "failing"}

\* The tick that holds the lock has its rows for itself; a tick that goes on
\* without the lock has rows that are in doubt.
Guarded ==
    \A r \in Replicas :
        /\ pc[r] = "idle" => batch[r] = {}
        /\ pc[r] \in {"idle", "picking"} => cur[r] = None
        /\ cur[r] \notin batch[r]
        /\ lock = r \/ Hands(r) \subseteq doubted
        /\ \A d \in Hands(r) : status[d] # "absent"

\* A row in hand whose outcome is open has not left and has attempts to spend.
Unsent ==
    \A r \in Replicas, d \in Deliveries \ doubted :
        d \in batch[r] \/ (cur[r] = d /\ pc[r] \in Attempting)
            => sends[d] = 0 /\ attempt[d] < MaxAttempts

\* A message that left is out of the drain's reach, or its record is about to
\* be written.
Left ==
    \A d \in Deliveries \ doubted :
        sends[d] # 0 =>
            /\ sends[d] = 1 /\ status[d] \notin {"absent", "dead"}
            /\ due[d] = "null" \/ \E r \in Replicas : pc[r] = "recording" /\ cur[r] = d

\* What is recorded as sent has left; a row not yet queued has spent nothing.
Backed ==
    /\ \A d \in Deliveries : status[d] = "absent" => attempt[d] = 0
    /\ \A d \in header : sends[d] # 0
    /\ \A r \in Replicas : pc[r] = "recording" => sends[cur[r]] # 0

\* Why LimitHeld holds: a message of this hour is counted or about to be, and
\* while one is about to be there is room for it.
Room ==
    /\ \A d \in Deliveries : fresh[d] <= sends[d]
    /\ PerHour > 0 /\ doubted = {} =>
          /\ \A d \in Deliveries :
                fresh[d] # 0 =>
                    d \in Counted \/ \E r \in Replicas : pc[r] = "recording" /\ cur[r] = d
          /\ Cardinality(Counted) <= PerHour
          /\ \A r \in Replicas :
                pc[r] \in {"sending", "recording"} => Cardinality(Counted) < PerHour

OutboundInv ==
    /\ TypeOK /\ Guarded /\ Unsent /\ Left /\ Backed
    /\ StatusEarned /\ NeverStranded /\ Room
=============================================================================
