---------------------------- MODULE SystemAlerts ----------------------------
(***************************************************************************)
(* AlertsService and the e-mail that follows an alert.  Transactions of    *)
(* many requests and workers raise and resolve the alerts of a key         *)
(* (source, subject, member).  openAlert() reads first and writes later;   *)
(* a partial unique index settles what the read could not see.  A newly    *)
(* inserted alert queues one notification per recipient, in the same       *)
(* transaction, and AlertNotificationWorker mails it after a grace period. *)
(*                                                                         *)
(* A write and the commit of its transaction are one step: the row lock or *)
(* the index entry makes every rival wait for the commit.  The worker of   *)
(* each replica runs under withSchedulerLock (module SchedulerLock), whose *)
(* connection can die while the drain goes on: a second drain then starts  *)
(* beside it.  Acknowledgements, titles, counts and metadata are left out. *)
(***************************************************************************)
EXTENDS Integers, FiniteSets

CONSTANTS
    Keys,         \* (source, subject, member)
    Callers,      \* transactions in openAlert()
    Recipients,   \* the owners of the organisation
    Replicas,     \* the processes that run the worker
    None,         \* no alert, no replica
    MaxAlerts,    \* bound: rows of org_alerts
    MaxResolves,  \* bound: times an alert resolves
    MaxFaults,    \* bound: crashes, lost answers, failed writes, lost locks
    MaxAttempts,  \* MAX_NOTIFY_ATTEMPTS
    BatchSize     \* BATCH_SIZE

Alerts == 1 .. MaxAlerts
Notes == Alerts \X Recipients

ASSUME NoneAssumption == None \notin Alerts \cup Keys \cup Replicas \cup Notes
ASSUME BoundsAssumption ==
    /\ MaxAlerts \in Nat /\ MaxResolves \in Nat /\ MaxFaults \in Nat
    /\ MaxAttempts \in Nat \ {0} /\ BatchSize \in Nat \ {0}

VARIABLES
    status,    \* Alerts -> none, open, recent (resolved in the window) or old
    keyOf,     \* Alerts -> the key of an inserted row
    call,      \* Callers -> what an openAlert() has read
    calmed,    \* alerts that have resolved at some time
    note,      \* Notes -> none, waiting, due or done (delivered_at is set)
    tries,     \* Notes -> the attempt column
    batch,     \* Replicas -> selected notes, each with the attempt column it had
    cur,       \* Replicas -> the note in attemptOne(), likewise
    at,        \* Replicas -> where its drain is
    lock,      \* the replica whose session has the advisory lock
    overlap,   \* whether a drain has lost its lock and gone on
    sent,      \* Notes -> mails that left, as the recipient counts them
    slips,     \* Notes -> mails that left and were not recorded as sent
    ripe,      \* notes whose alert was open once their grace was over
    resolves, faults

alertVars == <<status, keyOf, call, calmed, resolves>>
drainVars == <<batch, cur, at, lock, overlap>>
vars == <<alertVars, note, tries, drainVars, sent, slips, ripe, faults>>

Idle == [key |-> None, target |-> None, reopened |-> FALSE, stale |-> FALSE]
CallStates ==
    [key : Keys \cup {None}, target : Alerts \cup {None},
     reopened : BOOLEAN, stale : BOOLEAN]
Work == Notes \X (0 .. (MaxAttempts - 1))
NoWork == <<None, 0>>

\* The type invariant: rows are inserted in order of their ids, and a note in
\* hand was below its limit when it was selected, also while drains overlap.
TypeOK ==
    /\ status \in [Alerts -> {"none", "open", "recent", "old"}]
    /\ keyOf \in [Alerts -> Keys \cup {None}]
    /\ \A a \in Alerts : status[a] = "none" <=> keyOf[a] = None
    /\ call \in [Callers -> CallStates] /\ calmed \subseteq Alerts
    /\ note \in [Notes -> {"none", "waiting", "due", "done"}]
    /\ tries \in [Notes -> 0 .. MaxAttempts]
    /\ batch \in [Replicas -> SUBSET Work]
    /\ cur \in [Replicas -> Work \cup {NoWork}]
    /\ at \in [Replicas -> {"idle", "next", "send", "sent", "silent", "failed"}]
    /\ lock \in Replicas \cup {None} /\ overlap \in BOOLEAN
    /\ sent \in [Notes -> Nat] /\ slips \in [Notes -> Nat]
    /\ ripe \subseteq Notes
    /\ resolves \in 0 .. MaxResolves /\ faults \in 0 .. MaxFaults

Init ==
    /\ status = [a \in Alerts |-> "none"] /\ keyOf = [a \in Alerts |-> None]
    /\ call = [c \in Callers |-> Idle] /\ calmed = {}
    /\ note = [n \in Notes |-> "none"] /\ tries = [n \in Notes |-> 0]
    /\ batch = [r \in Replicas |-> {}] /\ cur = [r \in Replicas |-> NoWork]
    /\ at = [r \in Replicas |-> "idle"] /\ lock = None /\ overlap = FALSE
    /\ sent = [n \in Notes |-> 0] /\ slips = [n \in Notes |-> 0]
    /\ ripe = {} /\ resolves = 0 /\ faults = 0

-----------------------------------------------------------------------------
(* openAlert(), resolveAlert()                                             *)

OpenOf(k) == {a \in Alerts : keyOf[a] = k /\ status[a] = "open"}
Recent(k) == {a \in Alerts : keyOf[a] = k /\ status[a] = "recent"}

\* The row openAlert() means to write: the open one, or the one resolved last
\* within the window.  Rivals that read early can leave two of those, and which
\* of them is the later is left open.
Found(k) ==
    CASE OpenOf(k) # {} -> OpenOf(k)
      [] OpenOf(k) = {} /\ Recent(k) # {} -> Recent(k)
      [] OTHER -> {None}

\* openAlert() up to its writes.
Look(c, k) ==
    /\ call[c] = Idle
    /\ \E a \in Found(k) :
          call' = [call EXCEPT ![c] =
                      [key |-> k, target |-> a, stale |-> FALSE,
                       reopened |-> OpenOf(k) = {} /\ a # None]]
    /\ UNCHANGED <<status, keyOf, calmed, resolves, note, tries, drainVars,
                   sent, slips, faults, ripe>>

\* org_alerts_open_uniq: another open row has the key.
Clash(a, k) == \E b \in OpenOf(k) : b # a

\* Mutant: a second notification replaces the first, and a reopen queues too.
Notified_Again(a, reopened) ==
    [n \in Notes |-> IF n[1] = a THEN "waiting" ELSE note[n]]

\* AlertNotificationSink.onEvent(): org_alert.opened of a new row queues one
\* notification per recipient; the unique key ignores a second.
Notified(a, reopened) ==
    [n \in Notes |->
        IF n[1] = a /\ ~reopened /\ note[n] = "none" THEN "waiting" ELSE note[n]]

\* openAlert() found the row open: it counts the occurrence.  A row that
\* resolved since it was read stays resolved.
Bump(c) ==
    /\ call[c].target # None /\ ~call[c].reopened
    /\ call' = [call EXCEPT ![c] = Idle]
    /\ UNCHANGED <<status, keyOf, calmed, resolves, note, tries, drainVars,
                   sent, slips, faults, ripe>>

\* Mutant: the reopening update leaves resolved_at as it is.
Reopened_Kept(a) == status

Reopened(a) == [status EXCEPT ![a] = "open"]

\* A note's grace is over once it has been due.
Graced(n) == note[n] \in {"due", "done"} \/ tries[n] > 0

\* openAlert() found the row resolved a short while ago.
Reopen(c) ==
    LET a == call[c].target IN
    /\ call[c].reopened /\ ~Clash(a, call[c].key)
    /\ status' = Reopened(a)
    /\ note' = Notified(a, TRUE)
    /\ call' = [call EXCEPT ![c] = Idle]
    /\ ripe' = ripe \cup {n \in Notes : n[1] = a /\ Graced(n)}
    /\ UNCHANGED <<keyOf, calmed, resolves, tries, drainVars, sent, slips, faults>>

\* openAlert() found nothing.  Only a severity the policy names is mailed.
Insert(c, severe) ==
    \E a \in Alerts :
       /\ call[c] # Idle /\ call[c].target = None
       /\ status[a] = "none" /\ \A b \in 1 .. (a - 1) : status[b] # "none"
       /\ ~Clash(a, call[c].key)
       /\ status' = [status EXCEPT ![a] = "open"]
       /\ keyOf' = [keyOf EXCEPT ![a] = call[c].key]
       /\ note' = IF severe THEN Notified(a, FALSE) ELSE note
       /\ call' = [call EXCEPT ![c] = Idle]
       /\ UNCHANGED <<calmed, resolves, tries, drainVars, sent, slips, faults, ripe>>

\* The index refuses the write, and the caller's transaction rolls back.
Refused(c) ==
    /\ call[c] # Idle /\ (call[c].reopened \/ call[c].target = None)
    /\ Clash(call[c].target, call[c].key)
    /\ call' = [call EXCEPT ![c] = Idle]
    /\ UNCHANGED <<status, keyOf, calmed, resolves, note, tries, drainVars,
                   sent, slips, faults, ripe>>

\* resolveAlert(): every call that has read the key is stale from now on.
Resolve(k) ==
    /\ resolves < MaxResolves /\ resolves' = resolves + 1
    /\ OpenOf(k) # {}
    /\ status' = [a \in Alerts |-> IF a \in OpenOf(k) THEN "recent" ELSE status[a]]
    /\ calmed' = calmed \cup OpenOf(k)
    /\ call' = [c \in Callers |->
                   IF call[c].key = k THEN [call[c] EXCEPT !.stale = TRUE] ELSE call[c]]
    /\ UNCHANGED <<keyOf, note, tries, drainVars, sent, slips, faults, ripe>>

\* MUNIN_ALERT_REOPEN_WINDOW_MS go by.
Age(a) ==
    /\ status[a] = "recent"
    /\ status' = [status EXCEPT ![a] = "old"]
    /\ UNCHANGED <<keyOf, call, calmed, resolves, note, tries, drainVars,
                   sent, slips, faults, ripe>>

-----------------------------------------------------------------------------
(* AlertNotificationWorker                                                 *)

\* next_attempt_at comes: the grace period or a backoff is over.
Due(n) ==
    /\ note[n] = "waiting"
    /\ note' = [note EXCEPT ![n] = "due"]
    /\ ripe' = IF status[n[1]] = "open" THEN ripe \cup {n} ELSE ripe
    /\ UNCHANGED <<alertVars, tries, drainVars, sent, slips, faults>>

\* dueNotifications(), before its LIMIT.
DueNotes == {n \in Notes : note[n] = "due" /\ tries[n] < MaxAttempts}

\* withSchedulerLock(): the advisory lock is free.
LockFree == lock = None

\* tick(), drain(): the running flag is down, the lock is taken, a batch read.
Tick(r) ==
    /\ at[r] = "idle" /\ LockFree /\ DueNotes # {}
    /\ \E B \in SUBSET DueNotes :
          /\ Cardinality(B) = BatchSize \/ (B = DueNotes /\ Cardinality(B) < BatchSize)
          /\ batch' = [batch EXCEPT ![r] = {<<n, tries[n]>> : n \in B}]
    /\ at' = [at EXCEPT ![r] = "next"]
    /\ lock' = r
    /\ UNCHANGED <<alertVars, note, tries, cur, overlap, sent, slips, faults, ripe>>

\* The lock's connection dies under a drain, and the drain goes on.
LoseLock(r) ==
    /\ lock = r /\ lock' = None
    /\ faults < MaxFaults /\ faults' = faults + 1
    /\ overlap' = TRUE
    /\ UNCHANGED <<alertVars, note, tries, batch, cur, at, sent, slips, ripe>>

\* Mutant: the mail is rendered without a look at resolved_at.
Rendered_Blind(a) == "send"

\* render(): null for an alert that has resolved.
Rendered(a) == IF status[a] = "open" THEN "send" ELSE "silent"

\* attemptOne() up to its send.
Render(r) ==
    /\ at[r] = "next"
    /\ \E x \in batch[r] :
          /\ cur' = [cur EXCEPT ![r] = x]
          /\ batch' = [batch EXCEPT ![r] = @ \ {x}]
          /\ at' = [at EXCEPT ![r] = Rendered(x[1][1])]
    /\ UNCHANGED <<alertVars, note, tries, lock, overlap, sent, slips, faults, ripe>>

\* mailer.send() returns, throws, or throws although the mail is out.
Send(r) ==
    /\ at[r] = "send" /\ at' = [at EXCEPT ![r] = "sent"]
    /\ sent' = [sent EXCEPT ![cur[r][1]] = @ + 1]
    /\ UNCHANGED <<alertVars, note, tries, batch, cur, lock, overlap, slips, faults, ripe>>

SendFails(r) ==
    /\ at[r] = "send" /\ at' = [at EXCEPT ![r] = "failed"]
    /\ UNCHANGED <<alertVars, note, tries, batch, cur, lock, overlap, sent, slips,
                   faults, ripe>>

SendUnsure(r) ==
    /\ at[r] = "send" /\ at' = [at EXCEPT ![r] = "failed"]
    /\ faults < MaxFaults /\ faults' = faults + 1
    /\ sent' = [sent EXCEPT ![cur[r][1]] = @ + 1]
    /\ slips' = [slips EXCEPT ![cur[r][1]] = @ + 1]
    /\ UNCHANGED <<alertVars, note, tries, batch, cur, lock, overlap, ripe>>

\* Mutant: one attempt too few counts as the last.
Finished_Late(k, ok) == IF ok \/ k >= MaxAttempts THEN "done" ELSE "waiting"

\* Mutant: the first failure is final.
Finished_Always(k, ok) == "done"

\* finish() of a note whose attempt column was k when it was selected: final on
\* success and on the last attempt; delivered_at is null after any other.
Finished(k, ok) == IF ok \/ k + 1 >= MaxAttempts THEN "done" ELSE "waiting"

\* The update of finish(): the attempt column is written from the count read.
Finish(r, ok) ==
    /\ note' = [note EXCEPT ![cur[r][1]] = Finished(cur[r][2], ok)]
    /\ tries' = [tries EXCEPT ![cur[r][1]] = cur[r][2] + 1]

Record(r) ==
    LET ok == at[r] # "failed" IN
    /\ at[r] \in {"sent", "silent", "failed"}
    /\ Finish(r, ok)
    /\ cur' = [cur EXCEPT ![r] = NoWork] /\ at' = [at EXCEPT ![r] = "next"]
    /\ UNCHANGED <<alertVars, batch, lock, overlap, sent, slips, faults, ripe>>

Slipped(r) ==
    IF at[r] = "sent" THEN [slips EXCEPT ![cur[r][1]] = @ + 1] ELSE slips

\* finish(row, null) throws, before its update or when the update is done: the
\* catch block takes it for a failed attempt.
RecordThrows(r) ==
    /\ at[r] \in {"sent", "silent"} /\ at' = [at EXCEPT ![r] = "failed"]
    /\ faults < MaxFaults /\ faults' = faults + 1
    /\ Finish(r, TRUE) \/ UNCHANGED <<note, tries>>
    /\ slips' = Slipped(r)
    /\ UNCHANGED <<alertVars, batch, cur, lock, overlap, sent, ripe>>

Unlocked(r) == IF lock = r THEN None ELSE lock

DrainEnds(r) ==
    /\ at[r] = "next" /\ batch[r] = {}
    /\ at' = [at EXCEPT ![r] = "idle"] /\ lock' = Unlocked(r)
    /\ UNCHANGED <<alertVars, note, tries, batch, cur, overlap, sent, slips, faults, ripe>>

\* The process dies, or finish(row, error) throws and ends the drain: the
\* selection is forgotten, and the lock goes with its transaction.
DrainLost(r) ==
    /\ at[r] # "idle" /\ at' = [at EXCEPT ![r] = "idle"]
    /\ faults < MaxFaults /\ faults' = faults + 1
    /\ slips' = Slipped(r)
    /\ batch' = [batch EXCEPT ![r] = {}] /\ cur' = [cur EXCEPT ![r] = NoWork]
    /\ lock' = Unlocked(r)
    /\ UNCHANGED <<alertVars, note, tries, overlap, sent, ripe>>

\* A drain that has begun takes its next step.
Advance(r) == Render(r) \/ Send(r) \/ SendFails(r) \/ Record(r) \/ DrainEnds(r)

Next ==
    \/ \E c \in Callers, k \in Keys : Look(c, k)
    \/ \E c \in Callers : Bump(c) \/ Reopen(c) \/ Refused(c)
    \/ \E c \in Callers, severe \in BOOLEAN : Insert(c, severe)
    \/ \E k \in Keys : Resolve(k)
    \/ \E a \in Alerts : Age(a)
    \/ \E n \in Notes : Due(n)
    \/ \E r \in Replicas :
          \/ Tick(r) \/ Advance(r) \/ SendUnsure(r) \/ RecordThrows(r)
          \/ LoseLock(r) \/ DrainLost(r)

\* Time passes, and the drains take turns as they may: one that has begun goes
\* on or some replica's interval finds the lock free.  Requests need not come.
Fairness ==
    /\ WF_vars(\E n \in Notes : Due(n))
    /\ WF_vars(\E r \in Replicas : Tick(r) \/ Advance(r))

Spec == Init /\ [][Next]_vars /\ Fairness

-----------------------------------------------------------------------------
(* Properties                                                              *)

\* A fault raised is an alert shown: when openAlert() ends, by whichever of its
\* ways, and no resolve has come between its read and its write, the key is open.
RaiseTakes ==
    [][\A c \in Callers :
          call[c] # Idle /\ call'[c] = Idle /\ ~call[c].stale
             => \E a \in Alerts : keyOf'[a] = call[c].key /\ status'[a] = "open"]_vars

\* "No second email is sent": one alert row mails a recipient once, through
\* reopens, retries and restarts, but for mails that left unrecorded, as long as
\* the scheduler lock keeps the drains apart.
MailOnce == overlap \/ \A n \in Notes : sent[n] =< 1 + slips[n]

\* "A blip that clears within the grace period emails nobody": only an alert
\* that was open after the grace is mailed.
BlipSilent == \A n \in Notes : sent[n] > 0 => n \in ripe

\* Nobody is left unmailed without a reason: a notification that closes with no
\* mail had an alert that resolved, or all its attempts; drains that overlap and
\* write over each other's outcome change nothing in that.
SilenceExplained ==
    \A n \in Notes :
       note[n] = "done" /\ sent[n] = 0 => n[1] \in calmed \/ tries[n] = MaxAttempts

\* Every queued notification is closed in the end, whatever the mailer does and
\* whether drains overlap or not.
NotesSettle == \A n \in Notes : note[n] = "waiting" ~> note[n] = "done"

-----------------------------------------------------------------------------
(* The inductive invariant (module SystemAlertsProofs).                    *)

\* What an openAlert() has read: a row of its key, which is still open if it was
\* open and no resolve has come since.
Read ==
    \A c \in Callers :
        /\ call[c] # Idle => call[c].key \in Keys
        /\ call[c].target # None => keyOf[call[c].target] = call[c].key
        /\ call[c].reopened => call[c].target # None
        /\ call[c].target # None /\ ~call[c].reopened /\ ~call[c].stale
              => status[call[c].target] = "open"

\* A drain that is out has nothing in hand, one between two notes has no current
\* note, no note is in a replica's hands twice, and what is in hand was due.
InHand ==
    \A r \in Replicas :
        /\ at[r] = "idle" => batch[r] = {}
        /\ at[r] \in {"idle", "next"} => cur[r] = NoWork
        /\ at[r] \notin {"idle", "next"} => cur[r] \in Work /\ Graced(cur[r][1])
        /\ \A x \in batch[r] :
              /\ x[1] # cur[r][1] /\ Graced(x[1])
              /\ \A y \in batch[r] : x[1] = y[1] => x = y

\* As long as no drain has lost it, the lock is held by whoever drains.
Locked == ~overlap => \A r \in Replicas : at[r] # "idle" => lock = r

\* Before its alert a notification does not exist; an alert that is no longer
\* open has resolved.
Rows ==
    /\ \A n \in Notes : status[n[1]] = "none" => note[n] = "none" /\ tries[n] = 0
    /\ \A a \in Alerts : status[a] \in {"recent", "old"} => a \in calmed

\* r is to mail the note, or is about to record that it did not.
Unsent(r, n) ==
    (\E x \in batch[r] : x[1] = n) \/ (cur[r][1] = n /\ at[r] # "sent")

\* Why MailOnce holds: a mail that left and was not lost closes its row or is
\* about to, and a note that is to be mailed has no such mail.
MailBalance ==
    ~overlap => \A n \in Notes :
        /\ sent[n] > slips[n] =>
              note[n] = "done" \/ \E r \in Replicas : at[r] = "sent" /\ cur[r][1] = n
        /\ \A r \in Replicas : Unsent(r, n) => sent[n] =< slips[n]

\* Why SilenceExplained holds: what a drain is about to record is true.
Outcome ==
    \A r \in Replicas :
        /\ at[r] = "sent" => sent[cur[r][1]] > 0
        /\ at[r] = "silent" => cur[r][1][1] \in calmed

\* Why BlipSilent holds: an open alert past its grace is ripe, and a mail is
\* rendered of such an alert only.
Ripened ==
    /\ \A n \in Notes : status[n[1]] = "open" /\ Graced(n) => n \in ripe
    /\ \A r \in Replicas : at[r] = "send" => cur[r][1] \in ripe

AlertInv ==
    /\ TypeOK /\ Read /\ InHand /\ Locked /\ Rows
    /\ MailBalance /\ MailOnce /\ Outcome /\ SilenceExplained
    /\ Ripened /\ BlipSilent
=============================================================================
