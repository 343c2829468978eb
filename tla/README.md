# TLA+ models of Munin's background work

Munin is a multi-tenant customer platform: conversations, CRM, knowledge base,
CMS, journeys and outreach behind one API, with AI agents that answer customers
and look after the data. What makes it hard to get right is less the API, where
a request is one database transaction, than the work that goes on behind it:
job queues with leases, workers on several replicas, retries with backoff,
alerts that open and resolve, timers and notifications. These modules model
that part of the code, check it with TLC and prove the core of it with TLAPS.

All paths below are relative to `src/packages/`.

## Inventory

| Component | State | Operations | What is hard |
|---|---|---|---|
| Curator job queue (`backend-core/.../curator/curator-jobs.service.ts`) | rows of `curator_jobs`: status, dedupe key, attempts, next attempt, lease | enqueue, claim, ack, fail, releaseStaleLeases | several runners; leases that run out under a runner; reports that name a row by id alone; the partial unique index met by three writers |
| Provider health (`agent-host/src/agent-health.service.ts`, `curator-failure.ts`) | the `llm_provider` alert of an org | recordSuccess with the sweep of parked jobs, recordFailure | the alert and the parked rows are written by different transactions of different actors |
| Curator worker (`agent-host/src/runner.service.ts`, `curator-drain.ts`, `drain-scheduler.ts`) | poll in flight, armed timers, scheduled drain, stopped flag | onPending, onConnected, timers, the drain loop, stop | events that arrive during a poll; timers against later events; stop between two awaits; work that must not be forgotten |
| Scheduler lock (`backend-core/src/common/scheduler-lock`) | slots in use per process, advisory locks, pooled connections | withSchedulerLock | ticks on all replicas; lock and work share one pool; a lock connection that dies under its tick |
| Outbound delivery (`backend-core/src/modules/conv/channels/outbound-delivery.worker.ts`, `send-rate-limit.ts`) | rows of `conv_message_deliveries`, the channel's alert | enqueue, tick, attempt, defer, record, retry, vendor status reports | a send cannot be undone or asked about; crash between send and record; two operators; out-of-order reports; a rolling limit |
| Replica lock (`agent-host/src/replica-lock.ts`) | flags of the ids held, the reserved connection, the server's session locks | tryAcquire, release, stop | a flag that outlives its session; overlapping passes over one connection |
| Runner lifecycle (`runner.service.ts`) | the map of running runners, respawns in flight and held back | reconcile, spawn, respawn on a configuration event, shutdown | reconcile and respawn interleave over one map, with awaits between look-up and change |
| Conversation replies (`agent-runtime/src/conversation-handler.ts`, `conv.service.ts`, `conv.claims.service.ts`) | runs in flight, claims held, the claim's lease, the staff's claim, messages | spawn, abort, acquire, generate, send, fall back, release; staff write, close, reopen | a newer message aborts a run that holds the same claim; a send that is under way cannot be called back |
| Webhooks (`core/src/webhooks.ts`, `common/webhooks/webhook.worker.ts`, `modules/webhooks`) | rows of `webhook_deliveries`, webhooks | emit, tick, post, record, pause, delete | at-least-once delivery, a crash between POST and record, ticks that outlive their lock |
| System alerts (`modules/system-alerts`) | alert rows, notification rows | open, bump, reopen, resolve, notify after a grace period | find-then-insert against a partial unique index; resolve and reopen while a mail waits |
| Journeys (`modules/journeys`) | runs with state, node, visits and next run; waits; the event inbox; paused nodes | the worker's phases, reply holds, step errors, pause and resume | three phases and people change one run; waits are read before the run is locked |
| Outreach, Slack bridge, CMS schedule | rows with status and next attempt | workers of the same kind | not surveyed in depth |
| Everything else | | | request-scoped CRUD, adapters of third-party APIs, user interface: see `PROJECT.json` |

How they interact: the API enqueues rows; `WebhookDispatcher.emit` writes events
that Postgres notifies to every process (`realtime-event-bus.ts`); the curator
worker of the replica that owns an org's runner wakes on `curator_job.pending`
and claims; executing a job ends in ack or fail and in the health record; the
health record sweeps parked jobs back to pending. A customer's message reaches
the handlers of all replicas as an event; the replica lock decides which of them
answers chats, and the claim on the conversation guards it where two think they
do. `emit` also queues webhook deliveries, alert mails and journey events in the
transaction of their cause. Outbound delivery, webhooks and alert mails run in
every replica under the scheduler lock; the journey worker runs in every replica
without it and relies on row locks.

`PROJECT.json` lists the hazards with their lines and the properties that cover
them; those without a property say why.

## Modules

| Module | Models | Extends / used by |
|---|---|---|
| `CuratorQueue` | the queue's rows, any number of runners in `executeOne()`, the provider alert and its sweep | |
| `MCCuratorQueue` | instance | `CuratorQueue` |
| `CuratorWorker` | one runner's worker: wake-ups, drain loop, stop | |
| `MCCuratorWorker` | instance | `CuratorWorker` |
| `CuratorProofs` | theorems about the queue and the worker for all constants | `CuratorQueue`, `CuratorWorker`, TLAPS |
| `SchedulerLock` | `withSchedulerLock()` over processes, names and a pool | instantiates `Ownership` |
| `MCSchedulerLock` | instance | `SchedulerLock` |
| `OutboundDelivery` | rows, workers, operators, vendor reports | |
| `MCOutboundDelivery` | instance, symmetry | `OutboundDelivery` |
| `OutboundDeliveryProofs` | theorems for all constants | `OutboundDelivery`, TLAPS |
| `Ownership` | abstract: a right has at most one owner, who takes it free and leaves it | |
| `ReplicaLock` | the replica lock over passes, sessions and the server's locks | instantiates `Ownership` |
| `MCReplicaLock` | instance, symmetry | `ReplicaLock` |
| `LockProofs` | theorems about both locks for all constants, and both refinements of `Ownership` | `ReplicaLock`, `SchedulerLock`, TLAPS |
| `RunnerMap` | reconcile, respawn and shutdown over the runners of one id | |
| `MCRunnerMap` | instance, symmetry | `RunnerMap` |
| `RunnerMapProofs` | theorems for all constants | `RunnerMap`, TLAPS |
| `ConversationReply` | the handlers' runs over one conversation, its claims and its messages | |
| `MCConversationReply` | instance, symmetry | `ConversationReply` |
| `ConversationReplyProofs` | theorems for all constants | `ConversationReply`, TLAPS |
| `SystemAlerts` | alert rows, callers that raise and resolve, the mail worker | |
| `MCSystemAlerts` | instance | `SystemAlerts` |
| `SystemAlertsProofs` | theorems for all constants | `SystemAlerts`, TLAPS |
| `WebhookDelivery` | delivery rows, webhooks, the worker on every replica | |
| `MCWebhookDelivery` | instance | `WebhookDelivery` |
| `WebhookDeliveryProofs` | theorems for all constants | `WebhookDelivery`, TLAPS |
| `JourneyRuntime` | one run of a journey, its waits and inbox, the worker on every replica | |
| `MCJourneyRuntime` | instance | `JourneyRuntime` |
| `JourneyRuntimeProofs` | theorems for all constants | `JourneyRuntime`, TLAPS |

### CuratorQueue

A row is five functions from `Jobs` (`status`, `key`, `attempts`, `due`,
`lease`). Times are reduced to what they decide: `due` is `now` or `later`,
`lease` is `none`, `live` or `expired`, and `ComeDue` and `LeaseExpires` are the
clock. A runner's `pc` stands between the statements of `executeOne()`:
`running` (the skill pass or task), `acking`, `crediting` (`recordSuccess`
after an ack that spent tokens), `blaming` (`recordFailure`), `failing` and
`writing` (the SELECT and the UPDATE of `fail()`). Every action is one
statement or one transaction: `recordSuccess` resolves the alert and sweeps in
one, so `Recover` is one action, and changes nothing when the sweep's UPDATE
meets the dedupe index (`SweepAllowed`). `Crash`, `AckLost` and `FailLost` are
the death of the process and the logged failures of the calls. A provider error
always carries a code (`skill-pass.ts` is its only source), so the disposition
has no uncoded case. `claims`, `refunds` and `expired` are history variables.

`releaseStaleLeases()` has no caller in the repository; it is an action because
it is public. `updateProgress()` only writes a progress document and is left out.

### CuratorWorker

Node runs one callback at a time, so everything between two awaits is one action.
A claim takes two: the database answers (`ClaimRow`, `ClaimEmpty`) and the answer
arrives (`ClaimAnswered`); events may be delivered in between. A row is seen as
the worker can tell it apart: due in more than a second (`later`), within a second
(`soon`), `due`, `leased`, `parked`, `gone`. `turns` doubles as the version of
`next_attempt_at`, so that an old event is told from a new one. `wire` is the
stream of `curator_job.pending` in commit order. Leases and chat successes change
rows without telling; another replica that runs a row (`ClaimedElsewhere`) tells
of it only when it retries it. The drain scheduler spaces the drains of all orgs;
for one worker it is a timer.

The model assumes that LISTEN/NOTIFY loses nothing. That is an assumption about the
environment and not a property of the code: while the listener's connection
(`db-listener.service.ts:51`) is down PostgreSQL drops the notifications, and
`onConnected` is called at the subscription only (`realtime-event-bus.ts:107`), so it
does not make up for them when the connection is back. `DelayedCovered` holds
under that assumption, and so does `ConfigApplied` of `RunnerMap`, whose runners
hear of saved configurations the same way.

### SchedulerLock

A call goes `queued` (waiting for a connection), `asking`, `working`, `waiting`
for and `querying` on a second connection, `closing`. `Spare(p)` is what lock
transactions, running statements and web requests leave of the pool. The lock
goes with its connection (`LockConnectionLost`); the tick does not notice. Mapped onto
the calls of a name that are at work on a live lock connection, the module
implements `Ownership` (`TickOwnership`): a tick begins only when no other of its
name is at work, and the right is never handed over in one step. `OneTick`, the
plain exclusion, follows and is proved as a theorem of its own.

### OutboundDelivery

A tick is spread over `pc`: each statement and the adapter's send is an action,
because the worker runs outside any transaction. An attempt looks for the adapter
(`NoAdapter`), then at the limit (`CheckLimit`), and then sends. `next_attempt_at`
is `now`, `later` or `null`. The adapter answers, refuses, or throws after the
message left (`ambiguous`). `doubted` collects the rows for which a second send
has an excuse: such a throw, a death or a failed statement between send and
record, a lock lost during the tick, or a retry that reset a row that was not
dead. The limit is the hourly one; the daily limit is the same rule over another
window. A channel with status reports (SMS) has no limit, one with a limit (email)
no reports, and the hour passes only where a limit looks at it. The webhooks and
the deliverability record that accompany `Announce` and `OpenAlert` have no state
here. A delivery row whose message is gone (`loadContext()` returns null) does not
occur: rows cascade.

### ReplicaLock and Ownership

`tryAcquire()` and `release()` are spread over `pc` of the pass that calls them:
`locking` (the flag is looked at), `reserving`, `asking`, `granted` (the server
has given the lock, the flag is not yet set), `releasing`, `unlocking`,
`dropping` (the server has taken the lock back, the flag still stands). The
queries of a replica share its one connection, which runs and answers them in
the order in which they are sent: `ahead[t]` are the passes whose answers come
before the answer to `t`. This order carries the refinement. With answers in any
order TLC finds three overlapping passes, a grant, a release and a second grant
of one id, after which a flag stands without its lock. `owner` and
`count` are the server's side: a session lock is held by one session, counts its
grants and goes with the session. A connection that has died (`session`) is
noticed only when a query fails on it; until then the replica's flags stand.
`Passes` of one replica may overlap, since `setInterval` does not wait for
`reconcile()`. `crossed` remembers that two passes were at one id at once.

`Ownership` is the promise: nobody takes a right that is owned. Mapped onto
`Answering(i)`, the live sessions that hold `i` and are not on their way out, the
lock implements it; the replicas whose connection is dead are not owners, which
is what the code's users must know of `holds()`.

### RunnerMap

One id, so that the map is a single `entry`. A task is one activation of
`reconcile()` or of `respawnRunner()`; it stands before a teardown is done
(`tearing`), before the configuration is read (`reading`) or before the runner
subscribes and enters the map (`building`). Events are assumed not to be lost (see
`CuratorWorker`). `live` are the runners that are
subscribed, in the map or not, and `built` what they were built from. `wire` and
`due` are configuration events and the `setImmediate` that follows them.
`overlapped` and `missed` record the two races the code admits: an activation
of `reconcile()` that crosses another one, and a save between a spawn's read and
its subscription.

### ConversationReply

One conversation, `Runs` activations of the handler on any replica. Messages are
numbered in the order of their insertion (`created_at`) and become `visible` at
their commit, so a read may miss a message that is written but not committed.
An activation goes from the debounce through `read` and `acquired` to `working`
and `audited`, then `posting`, or `fallback` and `falling`, and at last
`unclaim`. What the model leaves to chance: the answer of the model and of the
audit, whether the gate lets a run pass, whether a call fails before or after
its commit. Both replicas take themselves for the holder of the chat lock, since
`holds()` may be stale. A claim may be committed and the call that took it fail
before `claimsHeld` knows of it (`CallFails`); a release forgets the conversation
first, and a failed call is only logged (`UnclaimFails`). In both cases the claim
stays until its lease ends with nobody to release it, and `lease` is `stray`.
Agent modes other than `auto` and `draft_only` keep the
handler silent exactly as a closed conversation does. The handler's `stop()` is
not modelled; a crash ends its runs without their releases, which is worse.

### SystemAlerts

A call of `openAlert()` is a read (`Look`) and a write (`Bump`, `Reopen`,
`Insert`, or `Refused` by the index). Of several alerts of a key that were
resolved within the window `recentlyResolved()` takes the latest; times are not
kept that far, so `Found` admits any of them. An alert is `open`, `recent` (resolved
within the reopen window) or `old`; a notification `waiting`, `due` or `done`.
The worker runs on every replica under the scheduler lock: `Tick` takes the lock and
a batch with the attempt numbers it has read, and `Render`, `Send` and `Record`
work on it row by row. `LoseLock` takes the lock from a drain that goes on, after
which another may run beside it; `overlap` records that, and `MailOnce` excepts it.
`SilenceExplained` excepts nothing. A record may fail before or after its commit
(`RecordThrows`), and the catch block then records a failure. `ripe` are the
notifications whose alert was open at some time after the grace, `calmed` the
alerts that have been resolved, `slips` the mails that left unrecorded.

### WebhookDelivery

A delivery is an event and a webhook. `Begin` reads webhook and event, `Post`,
`PostFails` and `PostUnsure` are the request, `Record` the update with the
attempt number the drain has read. `LoseLock` takes the lock from a tick that
works on; `overlap` records from that moment on that another one may run beside
it, whether or not one does.

### JourneyRuntime

One run of a fixed graph. `run` is the committed row with its current waits,
`draft` what the transaction that has locked it (`owner`) has made of it; a step
that throws rolls its savepoint back to the draft before. A wait is `open`, or
resolved by `event`, `timeout` or `cancelled`. Time is left out: a next run time,
a wake time or a next attempt that is set may pass at any moment after.
`tx[r]` is where the tick of a replica stands: `due` (selected, not locked),
`running`, `parked`, `ending`, `failed`; `event` and `unrecorded` in
`drainInbox()`; `clock` in `wakeWaits()`. What phase a tick is in is left open,
so the phases of two replicas meet in every order. A transaction may commit and
its acknowledgement be lost: `CommitUnsure` puts a run off that has moved,
`EventUnsure` records a failure over the replica's own success. A `wait_for` that
times out follows `OnTimeout` or ends the run; a timer may be past when its step
begins; after `MAX_NODES_PER_RUN` steps the run is committed between two steps.

Resuming a node takes three actions, since the request is one transaction: the
update of the parked runs (`ResumeNode`), which locks the row it releases and
passes by a run that is being parked, and then its commit (`ResumeCommits`), which
lets the workers see the node resumed, or its failure (`ResumeFails`). Until the
commit a worker still reads the pause and may park a run behind the update. The
run's field `missed` marks a run that was passed by in either way.

A run that has ended keeps no waits and its other fields are reset, since nothing
reads them. Only the waits of the latest step and the latest hold are kept; older
ones are resolved. Left out: agent, approval, branch and sub-journey steps, goals,
exit rules, entry, holdouts, moves between versions, publishing, guardrails.

## Runs

| Run | Shows | Bounds |
|---|---|---|
| `curator_queue` | one runner per lease, exact attempt budget, deaths only when spent, no retry refused by the dedupe index while the lease lasts, settled rows stay settled unless a lease ran out, recovery sweeps all | two jobs, two runners, one key, two attempts; every fault |
| `curator_worker` | delayed rows have a timer or an event under way; nothing starts after stop | three rows (due, delayed, new), two claims each, batch limit 2, every outcome and fault |
| `curator_drain` | what is due when a poll is about to claim is claimed, over several batches | as above, no provider failure, gate open, no faults |
| `outbound_delivery` | a message leaves once unless a fault or a retry race excuses it, earned statuses, no stranded rows | two rows, replicas, operators and retries, two attempts, SMS status reports of any kind at any time, one fault anywhere |
| `outbound_settles` | the hourly limit; queued rows end sent or dead | two rows against a limit of 1, so that they wait for each other, racing retries, no faults |
| `runner_map` | no runner outside the map, configurations applied, no stopped runner in the map | two passes and two respawns that may cross, three runners, two saves, two flips of the provisioning, one crash |
| `replica_lock` | one live replica answers an agent's chats, no lock without a flag, `Ownership` implemented | two replicas, two ids, three overlapping passes of one replica and one of the other, one fault |
| `conversation_reply` | one reply per message, by a run that has read the latest, and no claim without someone to release it unless a claim or release call failed | two replicas, two activations, two messages of the customer, and one of: a staff action, a failed call, a crash, an expiry, a greeting or draft request |
| `system_alerts` | raises that take, one mail per row and recipient, none for a blip, none missing without a reason, mails settle | one key, two callers, two replicas, two rows, batches of one, two attempts, one resolve, one fault (a lost lock among them) |
| `webhook_delivery` | one successful POST per delivery, none given up early, all settle | two replicas, two events of one webhook, two attempts, one pause or deletion, two faults |
| `journey_runtime` | a waiting run waits for something, parked only by a pause, held while a person talks, events once, runs end | four nodes (event wait with a timeout path, message with a reply path, message that holds, timer that leads back), one visit each, one node that is paused and resumed, two replicas, a reply and a signal or close, two errors, attempts and upsets |
| `scheduler_lock` | `Ownership` implemented by the ticks of a name, exact slots, room to work, ticks end | three calls of two processes and two names, the smallest pool that can work (2), web requests compete, connections die |

Two of everything is enough for the races these properties are about: each
involves one row, or two rows of one key, and two actors; a third actor repeats
what one of the two can do. The exception is `replica_lock`, where three passes
can queue on one connection. Attempts and claims are bounded at the first value
where both the last and a non-last attempt occur. Deadlock checking is off
where the bounds on claims, retries or rows let the model run out of work.
Every module states its `TypeOK`; only `curator_queue` checks it, and it is a
conjunct of the inductive invariants that are proved; the other runs are spent on
the hazards.

### Disagreements

Places where the code does not do what the repository says of it, or where a
reader may expect more than it does. The models take these steps; a property
that would forbid them is stated with the exception, or is not stated.

- Curator queue. Two parked jobs with one dedupe key make the recovery sweep
  (`agent-health.service.ts:85`) fail as a whole, and with it the resolution of
  the alert, on every later success (`agent-host/CHANGELOG.md:1486`: it "only
  resolves on a later _success_"). A success recorded between the health record
  and the fail call (`runner.service.ts:863`) resolves the alert before the job
  is parked, and no later success sweeps it (`kb.tools.ts:404`: "will retry").
  The sweep announces nothing, so an idle worker does not see its rows.
- Curator worker. A notification that arrives after the claim's empty answer and
  before the poll ends is dropped (`runner.service.ts:935`; `CHANGELOG.md:1498`).
- Outbound delivery. Of two retries of a dead row the second resets a live
  delivery (`conv.service.ts:1998` against the message at `:1983`). A row the
  vendor reports failed has no next attempt and is never taken again
  (`twilio-sms-adapter.ts:123`; `skills/recover-failed-deliveries.md:25`).
- Runners. A configuration saved between `spawnRunner()`'s read (`:448`) and its
  subscription (`:535`) is not applied until the next save; overlapping reconcile
  passes, and a pass that crosses a respawn, can leave a runner that is subscribed
  and in no map. `NoStrayRunner` and `ConfigApplied` name these cases.
- Realtime events. Notifications of a time when the listener has no connection are
  lost (`db-listener.service.ts:51`), and nothing drains when it is back; assumed
  away, see `CuratorWorker`.
- Replica lock. A pass that releases an id while another acquires it can leave
  the server's lock without a flag; `NoLostLock` excepts it.
- Conversations. `agent-runtime/CHANGELOG.md:1080`: "Stop the agent sending two
  replies to one inbound message." Two are still sent if a run is superseded while
  its send is under way, if an aborted run releases the claim its successor took
  under the same holder id, if the handover's public message
  (`requestHandover()`) follows a reply, and if a note written during the first
  send becomes the second run's `sinceMessageId`. `OneReply` lists them.
- System alerts. A bump of a row that was resolved since it was read leaves it
  resolved; an alert that was closed silently as a blip and reopened within the
  window never mails; a warning that escalates never mails; the loser of a race
  of two openers fails at the index and takes its caller's transaction with it; a
  drain that has lost its lock's connection goes on beside the next one and may
  mail a second time (`alert-notification.worker.ts:53`), which `MailOnce` excepts.
- Webhooks. `subscribe-to-events.md:131` tells of five backoffs and about 16
  minutes; five attempts have four. A paused webhook closes its due deliveries
  for good. Where ticks overlap, a failure recorded late reopens a delivered row.
- Journeys. A run whose parking is committed after a resume of its node has looked
  for parked runs stays active with no next run: between `runNode()`'s look at
  the pause and the commit, or at any time until the resume itself is committed
  (`journeys.service.ts:406`, `tenancy.interceptor.ts:86`). `ParkedIsPaused` and
  `RunEnds` except it. The catch block of `drainInbox()` writes `processed_at`
  whatever another replica has made of the row, and also after a commit of its
  own whose acknowledgement was lost, so an event can be applied twice
  (`CHANGELOG.md:175`: "a repeated or crashed tick never acts twice");
  `AppliedOnce` excepts it. `moveEnrollments()` cancels a reply hold, and the
  check of a `once` re-entry is a read before an insert; neither is modelled.

Where the code falls short of a property, the property names the case and excepts
it, and so does not catch it; `PROJECT.json` says so at each hazard. The exceptions
are: a lease that ran out under a runner (`ExclusiveRun`, `BudgetExact`,
`SettledUnlessExpired`, `RetryFits`); a poll that is ending (`BacklogDrains` says
nothing of a trigger dropped then); rows in doubt after a fault, a lost lock or a
retry of a row that was not dead (`SentOnce`, `NeverStranded`, `LimitHeld`); passes
that crossed (`NoStrayRunner`, `NoLostLock`); a save between read and subscription
(`ConfigApplied`); sessions that are dead (`ImplementsOwnership`, `TickOwnership`); a
claim taken from a working run, a run superseded while sending, a note read as the
latest message (`OneReply`); a failed claim or release call (`ClaimBacked`); a lost
lock and a lost record (`MailOnce`, `PostOnce`); a parking a resume passed by
(`ParkedIsPaused`, `RunEnds`); a failure recorded over a success (`AppliedOnce`).

Three limits of the code that the passing properties state as conditions:
`SettledUnlessExpired` holds only while no lease ran out, because `ack()` and
`fail()` match the row by id; `RoomToWork` asks for a pool of two, because with
`MUNIN_DB_POOL_MAX=1` a tick's lock transaction holds the only connection its
work could use; `NeverStranded` excuses doubted rows, because after a lost lock
a stale tick may defer, and so queue, a row whose attempts are spent, and
`outbound_settles` admits no faults for the same reason.

Known and not covered by a property: a job that kills its runner each time is
claimed beyond `max_attempts`, since only `fail()` lets a job die
(`curator-jobs.service.ts:252`); the timers of delayed rows live in the process,
so after a restart only what is already due is drained (`runner.service.ts:972`);
a process that dies between a delivery's death and its alert tells nobody
(`outbound-delivery.worker.ts:271`).

### Fairness

`CuratorWorker!FairSpec`: awaited calls return, armed timers fire and events
are delivered, each by weak fairness; nothing is assumed of enqueues, time or
chat.
`OutboundDelivery!FairSpec`: some replica's interval keeps ticking, a tick's
statements return, time passes; nothing of sends succeeding.
`SchedulerLock!FairSpec`: the pool serves waiters in order, hence strong
fairness of the steps that take a connection; statements return, `fn()` does
not query for ever, requests end.
`SystemAlerts!Fairness` and `WebhookDelivery!Fairness`: time passes, a drain that
has begun goes on, and some replica's interval finds the lock free
(`setInterval`, fetch and mail time out); nothing of requests or posts that
succeed. `JourneyRuntime!Fairness`: a tick under way goes on, some replica takes
up due work, a request that resumes a node is committed; people need not act and
contacts need not answer.

### Refinement

`replica_lock` checks `Chat!Spec`, the specification of `Ownership` with
`owners[i]` mapped to `Answering(i)`, as a temporal property: every step of the
lock takes a free right, leaves one, or is a stutter of the owners. `scheduler_lock`
checks `Ticks!Spec`, the same specification with the names as rights and the calls
at work as owners.

## Proofs

For every component one theorem states that its inductive invariant holds in every
reachable state, by one lemma per action (or group of small ones), and derives
the properties of the runs from it. The invariants stand in the last section of
the modules they are about, as conjunctions of named parts, and were checked by
TLC on the runs' instances before they were proved. All theorems hold for every
number of replicas, rows, callers and so on, and for every bound. The two parts of
the curator share a proof module, and so do the two locks; `CuratorWorker` and
`SchedulerLock` name their specifications `WorkerSpec` and `TickSpec` (and their other
definitions accordingly), so that a module can extend both of a pair.

`CuratorProofs` proves the type invariant, all safety properties of
`curator_queue` and `LeaseOnlyPending`, which no run lists. `QueueInv` adds:

- `Holding`: a runner's row is pending under a live lease (or done, while the
  runner credits the provider) unless a lease of the row ran out. It is what
  makes `ExclusiveRun` and `SettledUnlessExpired` inductive.
- `SeenFresh`: what `fail()` read is still true when it writes, and never
  exceeds the claims. `BudgetExact` and `DeadOnlyWhenSpent` rest on it.
- `AttemptsEarned`: attempts never exceed claims, a leased row has at least
  one, a dead row has them all.

`RetryFits` takes `QueueInv` and what the dedupe index keeps (`DedupeHolds`): until a
lease of the job ran out the row is still the pending one that `Holding` describes,
and as long as it is, no other row with its key is pending.
`RecoverySweepsAll` is an action property: a step that takes the alert away is
`Recover`, and `Recover` takes it away together with every parked row.

The worker's `DelayedCovered` is inductive with the types alone (`DrainInv`). A
row becomes `later` only in `EnqueueRow`, `Executed` and `ClaimedElsewhere`, and
all three append its event to the wire; an event leaves the wire only in
`OnPending`, which arms the timer of its version if the row still waits for that
time; a timer fires when its time has come or is of an older version, and goes
otherwise only for a newer event of its job or at `stop()`. `NoRunAfterStop` is an
action property: only `ClaimAnswered` starts a job, and it looks at the stop
first.

`LockProofs` takes both locks. `OneTick`, `HeldExact` and `RoomToWork` of
`SchedulerLock` follow from `TickInv`: a tick at work owns its lock until its
connection dies, the counter equals the number of calls under way (by the
library's cardinality theorems) and never passes the cap, and the cap is below a
pool of two or more. `TickOwnership` is shown step by step: an action moves at most
one call, and by `TickInv` at most one call of a name is at work before and after
it, so the calls at work of a name gain one from nothing, lose one or stay. Only
`TryLock` makes them gain one.

`NoLostLock` and `ImplementsOwnership` of `ReplicaLock` follow from `LockInv`,
which has four ideas: queries are answered in order (`InOrder`); the server's
locks belong to live sessions of running processes (`Attached`); a flag, and a
grant on its way, stand for the server's lock or have a release answered behind
them (`FlagBacked`, `GrantBacked`), however many passes overlap; and where passes
never crossed, one pass is at an id and the grants number one (`Alone`, `Single`).
The first three give the refinement, because two replicas that answer would both
own the server's lock; the last gives `NoLostLock`. The refinement is shown step
by step: `Hold` takes a right nobody has, `Drop`, resets, `Stop` and faults only
leave rights, every other action leaves the owners alone.

`OutboundDeliveryProofs` proves `SentOnce`, `StatusEarned`, `NeverStranded` and
`LimitHeld` from `OutboundInv`: rows in the hands of a tick are its own as long as
it has the lock (`Guarded`) and have not left before their outcome is open
(`Unsent`); a message that left is out of the drain's reach or about to be
recorded (`Left`); what is recorded has left (`Backed`); and while a message of
this hour is on its way there is room for it below the limit (`Room`). `LimitHeld`
compares cardinalities, hence the assumption that there are finitely many
deliveries.

`RunnerMapProofs` proves `NoStrayRunner`, `ConfigApplied` and `NoDeadEntry` from
`MapInv`: one respawn at a time (`OneRespawn`); a task waits for the runner it
tears down and for no other (`Victims`); while nothing crossed, whoever is
between tear-down and subscription is alone and nobody is subscribed
(`Exclusive`); a spawn that read an old configuration is told of the new one
(`SpawnTold`). `ConfigApplied` was strengthened for the proof: the activation that
is at work is no excuse of its own, a pending notification or respawn is.

`WebhookDeliveryProofs` proves `PostOnce` and `GivenUpLast` from `DeliveryInv`: what
a drain has in hand it has once (`InHand`); the lock is held by whoever drains,
until one loses it (`Locked`); an accepted request that was not lost closes its
row or is about to, and a row still to be posted has none (`PostBalance`); what a
drain is about to record is true (`Outcome`).

`SystemAlertsProofs` proves `MailOnce`, `SilenceExplained`, `BlipSilent` and the action
property `RaiseTakes` from `AlertInv`: what `openAlert()` read is still true unless a
resolve came between (`Read`); what a drain has in hand it has once, and it was due
(`InHand`); the lock is held by whoever drains, until one loses it (`Locked`); a mail
that left and was not lost closes its row or is about to, and a row still to be
mailed has none, while no lock was lost (`MailBalance`); what a drain is about to
record is true, lost locks or not (`Outcome`); only ripe notifications are rendered
(`Ripened`).

`ConversationReplyProofs` proves `OneReply`, `AnswersLatest` and `ClaimBacked` from
`ReplyInv`. A run past the claim has it, or some run's claim was taken away
(`ClaimKept`), which the failed calls of `ClaimBacked`'s exception do not disturb; of
two runs of one replica one is aborted (`OneCurrent`); a run that
is not aborted has read what its replica has heard of (`UpToDate`); the message a
reply follows is no reply, and a message being sent knows that its run is aborted
(`Prepared`). Hence two replies under way at once come from runs with the claim,
so of one replica, so one of them is late; and a reply that finds the other one
committed passes the race check only if it had read it. That is `ReadBefore`, which
speaks of messages that are visible or being sent, because `OneReply` alone does
not see the second kind. Most actions move one run and keep all messages; what
they have in common is stated once (`Onward`, `Kept`, `Shown`, `Hears`, lemma `Frame`).
`Max` and `Min` are shown to exist from the well-foundedness of the numbers.

`JourneyRuntimeProofs` proves `WaitsForSomething`, `ParkedIsPaused`, `AppliedOnce`, the
types and the action property `HeldStays` from `JourneyInv`, for every graph of
nodes, loops included, and any number of replicas and inbox rows. Its parts:

- `Coherent`, of the committed run and of the draft: a waiting run has an open
  wait, an open wait belongs to a step, an open hold keeps the run waiting. The
  draft needs it because a commit makes it the run. `WaitsForSomething` alone is
  not inductive: resolving one of two waits must leave the other one open.
- `Locked`: while a transaction has the row, the committed run is active and
  nobody else writes it; without one, draft and run agree. This is why waits that
  were read before the lock do no harm: `Resolved` looks at them again.
- `Parking`: a draft without a next run time is being parked by a replica, or its
  run was parked before; a parked run is at a paused node that nobody is resuming,
  was missed, or has its row locked by the request that resumes its node. It
  carries the pause from the look at it to the commit, and the release from its
  update to its own.
- `Applying` and `Closed`: a row that is being applied is pending and in one
  transaction, and a row that took effect is processed unless a failure was
  recorded over it, by whichever replica. Together they give `AppliedOnce`.

What a helper makes of a run (`Finished`, `Advanced`, `Resolved`, `Replied`, `Ran`,
`Erred`) is stated once, as a lemma about the run it returns. `TypeOK` includes
that a run is at no node exactly when it has ended, on which those lemmas rest.
Visits of a node are natural numbers: a loop has no last visit until the code's
own limit (`MaxVisits`) ends the run, which also keeps the run's instance finite.

Assumptions are those named in the modules: sentinels outside the sets they
stand beside, positive bounds, finitely many calls, deliveries and runners. The
code justifies the last three because each is a row or an object in memory.

Only model-checked: liveness (`BacklogDrains`, `Settles`, `TicksEnd`, `NotesSettle`,
`RowsSettle`, `RunEnds`), which is out of the prover's reach. Every invariant, action
property and refinement that a run checks is also a theorem.

## Plan

Done: the modules above, two implementations of `Ownership`, eight proof modules.
Next, in order: `Outreach`; the Slack bridge's worker, whose shape is that of
`OutboundDelivery`; sub-journeys, approvals and moves between versions in
`JourneyRuntime`.

## Not modelled

`PROJECT.json` gives the reason for each component: record keeping (CRM, knowledge
base, CMS, analytics), where an operation is one transaction of SQL; adapters of
third-party services, whose answers are inputs of the models; authentication and
quotas; the user interface and the packages of types and pages, which are most of
the repository's lines and hold no state that outlives a request.
