-------------------------- MODULE WebhookDelivery --------------------------
(***************************************************************************)
(* WebhookDispatcher.emit() and WebhookWorker.  An event writes one        *)
(* delivery per subscribed webhook, in the transaction of its cause; the   *)
(* worker of whichever replica holds the scheduler lock posts the due ones *)
(* and records each outcome by a plain update of the row.  The lock is the *)
(* only thing between two replicas: its connection can die while the drain *)
(* goes on, and then a second drain starts beside the first.               *)
(***************************************************************************)
EXTENDS Integers, FiniteSets

CONSTANTS
    Webhooks, Events,
    Wants,        \* pairs <<e, w>>: the events a webhook subscribes to
    Replicas,
    None,
    MaxEdits,     \* bound: times an admin edits a webhook
    MaxFaults,    \* bound: crashes, lost answers, failed writes, lost locks
    MaxAttempts,  \* MAX_ATTEMPTS
    BatchSize     \* BATCH_SIZE

Deliveries == Events \X Webhooks

ASSUME WantsAssumption == Wants \subseteq Deliveries
ASSUME NoneAssumption == None \notin Replicas \cup Deliveries
ASSUME BoundsAssumption ==
    /\ MaxEdits \in Nat /\ MaxFaults \in Nat
    /\ MaxAttempts \in Nat \ {0} /\ BatchSize \in Nat \ {0}

VARIABLES
    hook,      \* Webhooks -> active, paused or deleted
    emitted,   \* events that are committed
    row,       \* Deliveries -> none, waiting, due, done (delivered_at) or gone
    tries,     \* Deliveries -> the attempt column
    batch,     \* Replicas -> selected rows, each with the attempt column it had
    cur,       \* Replicas -> the row in attemptOne(), likewise
    at,        \* Replicas -> where its drain is
    lock,      \* the replica whose session has the advisory lock
    posts,     \* Deliveries -> requests the receiver took, as it counts them
    slips,     \* Deliveries -> those whose success was not recorded
    paused,    \* webhooks that were not active at some time
    overlap,   \* whether a drain has lost its lock and gone on
    edits, faults

drainVars == <<batch, cur, at, lock, overlap>>
vars == <<hook, emitted, row, tries, drainVars, posts, slips, paused, edits, faults>>

Work == Deliveries \X (0 .. (MaxAttempts - 1))
NoWork == <<None, 0>>

\* The type invariant: a row in hand was below its limit when it was selected,
\* also while two drains overlap, and the attempt column keeps within it.
TypeOK ==
    /\ hook \in [Webhooks -> {"active", "paused", "deleted"}]
    /\ emitted \subseteq Events /\ paused \subseteq Webhooks /\ overlap \in BOOLEAN
    /\ row \in [Deliveries -> {"none", "waiting", "due", "done", "gone"}]
    /\ tries \in [Deliveries -> 0 .. MaxAttempts]
    /\ batch \in [Replicas -> SUBSET Work]
    /\ cur \in [Replicas -> Work \cup {NoWork}]
    /\ at \in [Replicas -> {"idle", "next", "post", "taken", "failed", "closing"}]
    /\ lock \in Replicas \cup {None}
    /\ posts \in [Deliveries -> Nat] /\ slips \in [Deliveries -> Nat]
    /\ edits \in 0 .. MaxEdits /\ faults \in 0 .. MaxFaults

Init ==
    /\ hook = [w \in Webhooks |-> "active"]
    /\ emitted = {} /\ paused = {} /\ overlap = FALSE
    /\ row = [d \in Deliveries |-> "none"] /\ tries = [d \in Deliveries |-> 0]
    /\ batch = [r \in Replicas |-> {}] /\ cur = [r \in Replicas |-> NoWork]
    /\ at = [r \in Replicas |-> "idle"] /\ lock = None
    /\ posts = [d \in Deliveries |-> 0] /\ slips = [d \in Deliveries |-> 0]
    /\ edits = 0 /\ faults = 0

-----------------------------------------------------------------------------
(* Events and webhooks                                                     *)

\* emit() queues the event for the active webhooks that subscribe to it.
Queued(d) == d \in Wants /\ hook[d[2]] = "active"

Emit(e) ==
    /\ e \notin emitted /\ emitted' = emitted \cup {e}
    /\ row' = [d \in Deliveries |-> IF d[1] = e /\ Queued(d) THEN "due" ELSE row[d]]
    /\ UNCHANGED <<hook, tries, drainVars, posts, slips, paused, edits, faults>>

\* update() of the active flag.
Toggle(w) ==
    /\ edits < MaxEdits /\ edits' = edits + 1
    /\ hook[w] # "deleted"
    /\ hook' = [hook EXCEPT ![w] = IF @ = "active" THEN "paused" ELSE "active"]
    /\ paused' = paused \cup {w}
    /\ UNCHANGED <<emitted, row, tries, drainVars, posts, slips, faults>>

\* delete(): the rows go with the webhook.
Delete(w) ==
    /\ edits < MaxEdits /\ edits' = edits + 1
    /\ hook[w] # "deleted"
    /\ hook' = [hook EXCEPT ![w] = "deleted"]
    /\ row' = [d \in Deliveries |-> IF d[2] = w THEN "gone" ELSE row[d]]
    /\ paused' = paused \cup {w}
    /\ UNCHANGED <<emitted, tries, drainVars, posts, slips, faults>>

\* next_attempt_at comes.
Due(d) ==
    /\ row[d] = "waiting" /\ row' = [row EXCEPT ![d] = "due"]
    /\ UNCHANGED <<hook, emitted, tries, drainVars, posts, slips, paused, edits, faults>>

-----------------------------------------------------------------------------
(* WebhookWorker                                                           *)

\* The WHERE of drain().
Selectable(d) == row[d] = "due" /\ tries[d] < MaxAttempts

\* Mutant: the interval runs without withSchedulerLock().
MayTick_Unlocked(r) == TRUE

\* withSchedulerLock(): the advisory lock is free.
MayTick(r) == lock = None

\* tick(), drain(): the running flag is down, the lock is taken, a batch read.
Tick(r) ==
    LET due == {d \in Deliveries : Selectable(d)} IN
    /\ at[r] = "idle" /\ MayTick(r) /\ due # {}
    /\ \E B \in SUBSET due :
          /\ Cardinality(B) = BatchSize \/ (B = due /\ Cardinality(B) < BatchSize)
          /\ batch' = [batch EXCEPT ![r] = {<<d, tries[d]>> : d \in B}]
    /\ at' = [at EXCEPT ![r] = "next"]
    /\ lock' = r
    /\ UNCHANGED <<hook, emitted, row, tries, cur, overlap, posts, slips, paused,
                   edits, faults>>

\* The lock's connection dies under a drain, and the drain goes on: a second
\* drain may now overlap it.
LoseLock(r) ==
    /\ lock = r /\ lock' = None
    /\ faults < MaxFaults /\ faults' = faults + 1
    /\ overlap' = TRUE
    /\ UNCHANGED <<hook, emitted, row, tries, batch, cur, at, posts, slips, paused, edits>>

\* attemptOne() reads the webhook: a missing or inactive one closes the row.
Begin(r) ==
    /\ at[r] = "next"
    /\ \E x \in batch[r] :
          /\ cur' = [cur EXCEPT ![r] = x]
          /\ batch' = [batch EXCEPT ![r] = @ \ {x}]
          /\ at' = [at EXCEPT ![r] = IF hook[x[1][2]] = "active" THEN "post" ELSE "closing"]
    /\ UNCHANGED <<hook, emitted, row, tries, lock, overlap, posts, slips, paused,
                   edits, faults>>

\* The receiver answers 2xx; it refuses; or it takes the event and the answer
\* is lost on the way or comes after the 15 seconds.
Post(r) ==
    /\ at[r] = "post" /\ at' = [at EXCEPT ![r] = "taken"]
    /\ posts' = [posts EXCEPT ![cur[r][1]] = @ + 1]
    /\ UNCHANGED <<hook, emitted, row, tries, batch, cur, lock, overlap, slips,
                   paused, edits, faults>>

PostFails(r) ==
    /\ at[r] = "post" /\ at' = [at EXCEPT ![r] = "failed"]
    /\ UNCHANGED <<hook, emitted, row, tries, batch, cur, lock, overlap, posts, slips,
                   paused, edits, faults>>

PostUnsure(r) ==
    /\ at[r] = "post" /\ at' = [at EXCEPT ![r] = "failed"]
    /\ faults < MaxFaults /\ faults' = faults + 1
    /\ posts' = [posts EXCEPT ![cur[r][1]] = @ + 1]
    /\ slips' = [slips EXCEPT ![cur[r][1]] = @ + 1]
    /\ UNCHANGED <<hook, emitted, row, tries, batch, cur, lock, overlap, paused, edits>>

\* Mutant: the last failed attempt leaves delivered_at empty.
After_Late(r) ==
    IF at[r] # "failed" \/ cur[r][2] >= MaxAttempts THEN "done" ELSE "waiting"

\* Mutant: the first failure is final.
After_Always(r) == "done"

\* What attemptOne() makes of the row: delivered_at is set on success, on a
\* closed webhook and on the last attempt, and is null after any other failure.
After(r) ==
    IF at[r] # "failed" \/ cur[r][2] + 1 >= MaxAttempts THEN "done" ELSE "waiting"

\* The update that ends attemptOne(): the attempt column is written from the
\* count read with the batch; a closed webhook leaves it alone.  A row deleted
\* meanwhile is not there to update.
Record(r) ==
    LET d == cur[r][1] IN
    /\ at[r] \in {"taken", "failed", "closing"}
    /\ row' = IF row[d] = "gone" THEN row ELSE [row EXCEPT ![d] = After(r)]
    /\ tries' = IF row[d] = "gone" \/ at[r] = "closing" THEN tries
                ELSE [tries EXCEPT ![d] = cur[r][2] + 1]
    /\ cur' = [cur EXCEPT ![r] = NoWork]
    /\ at' = [at EXCEPT ![r] = "next"]
    /\ UNCHANGED <<hook, emitted, batch, lock, overlap, posts, slips, paused, edits, faults>>

Unlocked(r) == IF lock = r THEN None ELSE lock

DrainEnds(r) ==
    /\ at[r] = "next" /\ batch[r] = {}
    /\ at' = [at EXCEPT ![r] = "idle"]
    /\ lock' = Unlocked(r)
    /\ UNCHANGED <<hook, emitted, row, tries, batch, cur, overlap, posts, slips,
                   paused, edits, faults>>

\* The process dies, or a query of the drain throws: nothing of the selection
\* is recorded, and the lock goes with its transaction.
DrainLost(r) ==
    /\ at[r] # "idle" /\ at' = [at EXCEPT ![r] = "idle"]
    /\ faults < MaxFaults /\ faults' = faults + 1
    /\ slips' = IF at[r] = "taken" THEN [slips EXCEPT ![cur[r][1]] = @ + 1] ELSE slips
    /\ batch' = [batch EXCEPT ![r] = {}] /\ cur' = [cur EXCEPT ![r] = NoWork]
    /\ lock' = Unlocked(r)
    /\ UNCHANGED <<hook, emitted, row, tries, overlap, posts, paused, edits>>

\* A drain that has begun takes its next step.
Advance(r) == Begin(r) \/ Post(r) \/ PostFails(r) \/ Record(r) \/ DrainEnds(r)

Next ==
    \/ \E e \in Events : Emit(e)
    \/ \E w \in Webhooks : Toggle(w) \/ Delete(w)
    \/ \E d \in Deliveries : Due(d)
    \/ \E r \in Replicas :
          Tick(r) \/ Advance(r) \/ PostUnsure(r) \/ LoseLock(r) \/ DrainLost(r)

\* Time passes, a drain goes on, and some replica's interval finds the lock free.
Fairness ==
    /\ \A d \in Deliveries : WF_vars(Due(d))
    /\ \A r \in Replicas : WF_vars(Advance(r))
    /\ WF_vars(\E r \in Replicas : Tick(r))

Spec == Init /\ [][Next]_vars /\ Fairness

-----------------------------------------------------------------------------
(* Properties                                                              *)

\* A receiver takes an event once, but for successes that were not recorded,
\* as long as the scheduler lock keeps the drains apart.
PostOnce == overlap \/ \A d \in Deliveries : posts[d] =< 1 + slips[d]

\* A delivery is given up only after all its attempts, or because its webhook
\* was paused: "up to 5 attempts" are made of an event nobody has taken.
GivenUpLast ==
    \A d \in Deliveries :
       row[d] = "done" /\ posts[d] = 0 => tries[d] = MaxAttempts \/ d[2] \in paused

\* Two drains of one batch settle what they read: with drains side by side or
\* not, every queued delivery is closed or deleted in the end.
RowsSettle ==
    \A d \in Deliveries : row[d] \in {"due", "waiting"} ~> row[d] \in {"done", "gone"}

-----------------------------------------------------------------------------
(* The inductive invariant (module WebhookDeliveryProofs).                 *)

\* A drain that is out has nothing in hand; one between two rows has no current
\* row; and no row is in a replica's hands twice.
InHand ==
    \A r \in Replicas :
        /\ at[r] = "idle" => batch[r] = {}
        /\ at[r] \in {"idle", "next"} => cur[r] = NoWork
        /\ at[r] \notin {"idle", "next"} => cur[r] \in Work
        /\ \A x \in batch[r] :
              x[1] # cur[r][1] /\ \A y \in batch[r] : x[1] = y[1] => x = y

\* As long as no drain has lost it, the lock is held by whoever drains.
Locked == ~overlap => \A r \in Replicas : at[r] # "idle" => lock = r

\* A row exists from the emit on, and is gone with its webhook; a webhook that
\* is not active was paused; what is in hand was emitted.
Rows ==
    /\ \A d \in Deliveries :
          /\ d[1] \notin emitted => row[d] \in {"none", "gone"}
          /\ row[d] = "gone" => hook[d[2]] = "deleted"
    /\ \A w \in Webhooks : hook[w] # "active" => w \in paused
    /\ \A r \in Replicas :
          /\ at[r] \notin {"idle", "next"} => cur[r][1][1] \in emitted
          /\ \A x \in batch[r] : x[1][1] \in emitted

\* r is to post the delivery, or has not had it taken.
Unposted(r, d) ==
    (\E x \in batch[r] : x[1] = d) \/ (cur[r][1] = d /\ at[r] # "taken")

\* Why PostOnce holds: a request that was taken and not lost closes the row or is
\* about to, and a row that is to be posted has no such request.
PostBalance ==
    ~overlap => \A d \in Deliveries :
        /\ posts[d] > slips[d] =>
              row[d] \in {"done", "gone"} \/ \E r \in Replicas : at[r] = "taken" /\ cur[r][1] = d
        /\ \A r \in Replicas : Unposted(r, d) => posts[d] =< slips[d]

\* What a drain is about to record is true.
Outcome ==
    \A r \in Replicas :
        /\ at[r] = "taken" => posts[cur[r][1]] > 0
        /\ at[r] = "closing" => cur[r][1][2] \in paused

DeliveryInv ==
    /\ TypeOK /\ InHand /\ Locked /\ Rows
    /\ PostBalance /\ PostOnce /\ Outcome /\ GivenUpLast
=============================================================================
