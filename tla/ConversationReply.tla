-------------------------- MODULE ConversationReply --------------------------
(***************************************************************************)
(* How one conversation is answered: the runs of the conversation handlers *)
(* of several replicas, the runner claim and the checks of sendMessage()   *)
(* that keep them from answering twice, and the customer and the staff who *)
(* act meanwhile.  Every replica may hear every event, as it does when two *)
(* of them take themselves for the holder of the chat lock (ReplicaLock);  *)
(* an event that is never handled is one that was lost.                    *)
(*                                                                         *)
(* Each REST call is one transaction.  Messages are numbered by created_at *)
(* which is when their transaction began; a reply is seen by others once   *)
(* its transaction has committed, the short transactions of the others are *)
(* one step.  What a model answers is a choice among outcomes.             *)
(***************************************************************************)
EXTENDS Integers, Sequences, FiniteSetsExt

CONSTANTS
    Replicas,      \* processes that host the organisation's runner
    Runs,          \* bound: activations of run(), numbered
    Nobody,        \* holder of a free conversation
    Departed,      \* holder that died with the claim
    MaxCustomer,   \* bound: messages of the customer
    MaxEvents      \* bound: interventions of the staff, crashes, failed calls and
                   \* claims that run out

ASSUME HoldersAssumption == Nobody \notin Replicas /\ Departed \notin Replicas
ASSUME BoundsAssumption ==
    Runs \subseteq Nat /\ MaxCustomer \in Nat /\ MaxEvents \in Nat

VARIABLES
    msg,        \* the messages in the order of created_at
    visible,    \* numbers of the committed ones
    holder,     \* runner_holder
    lease,      \* "live" or "expired": runner_lease_expires_at; "stray" is a live one
                \* of which a call that took it or was to release it has failed
    human,      \* "free" or "held": a staff member's claim
    status,     \* "open" or "closed"
    agentMode,  \* "auto" or "draft_only"
    attention,  \* "no" or "yes": needs_human_attention
    claimsHeld, \* replicas whose handler has the conversation in claimsHeld
    heard,      \* Replicas -> customer messages whose event arrived
    swept,      \* replicas whose sweeper found the conversation
    run,        \* Runs -> the activation
    events,     \* interventions and faults so far
    lost        \* history, "no" or "yes": a working run's claim was taken away

conversation == <<holder, lease, human, status, agentMode, attention>>
handler == <<claimsHeld, heard, swept>>
vars == <<msg, visible, holder, lease, human, status, agentMode, attention, claimsHeld, heard,
          swept, run, events, lost>>

\* Past tryAcquireConversation() and before the release.
Claimed == {"acquired", "working", "audited", "posting", "fallback", "falling", "settling"}
\* Its message is in a transaction that has not committed.
Sending == {"posting", "falling"}

YesNo == {"no", "yes"}
Message == [kind : {"customer", "agent", "greeting", "fallback", "user", "note"},
            seen : Nat,     \* newest customer message its run had read
            since : Nat,    \* newest message its run had read
            late : YesNo]   \* history: its run was superseded before it was committed
Activation == [pc : {"free", "debounce", "read", "unclaim", "done"} \cup Claimed,
               home : Replicas \cup {Nobody},
               mode : {"reply", "greet", "draft"},
               delivery : {"send", "draft"},
               seen : Nat,      \* newest customer message it read
               since : Nat,     \* newest message it read: sinceMessageId
               post : Nat,      \* message it is sending
               aborted : YesNo] \* signal.aborted
Blank == [pc |-> "free", home |-> Nobody, mode |-> "reply", delivery |-> "send", seen |-> 0,
          since |-> 0, post |-> 0, aborted |-> "no"]

\* The type invariant.
TypeOK ==
    /\ msg \in Seq(Message) /\ visible \subseteq DOMAIN msg
    /\ holder \in Replicas \cup {Nobody, Departed} /\ lease \in {"live", "stray", "expired"}
    /\ human \in {"free", "held"} /\ status \in {"open", "closed"}
    /\ agentMode \in {"auto", "draft_only"} /\ attention \in YesNo
    /\ claimsHeld \subseteq Replicas /\ swept \subseteq Replicas
    /\ heard \in [Replicas -> SUBSET DOMAIN msg]
    /\ run \in [Runs -> Activation]
    /\ \A r \in Runs : run[r].seen <= run[r].since /\ run[r].since <= Len(msg)
    /\ events \in 0..MaxEvents
    /\ lost \in YesNo

Init ==
    /\ msg = <<>> /\ visible = {}
    /\ holder = Nobody /\ lease = "live" /\ human = "free"
    /\ status = "open" /\ agentMode = "auto" /\ attention = "no"
    /\ claimsHeld = {} /\ swept = {} /\ heard = [h \in Replicas |-> {}]
    /\ run = [r \in Runs |-> Blank]
    /\ events = 0
    /\ lost = "no"

Newest(numbers) == Max(numbers \cup {0})
Public == {n \in visible : msg[n].kind # "note"}
FromCustomer == {n \in visible : msg[n].kind = "customer"}
\* Public agent messages other than greetings: what the race check looks at.
Replies == {n \in visible : msg[n].kind \in {"agent", "fallback"}}
AwaitsReply == Newest(Public) \in FromCustomer

\* A message that is written, and one that is committed at once.
Write(message) == msg' = Append(msg, message)
Store(kind) ==
    /\ Write([kind |-> kind, seen |-> 0, since |-> 0, late |-> "no"])
    /\ visible' = visible \cup {Len(msg) + 1}

-----------------------------------------------------------------------------
(* The customer.                                                           *)

CustomerWrites ==
    /\ Cardinality(FromCustomer) < MaxCustomer
    /\ Store("customer")
    /\ UNCHANGED <<conversation, handler, run, events, lost>>

-----------------------------------------------------------------------------
(* The handler: spawn() and what calls it.                                 *)

Active(h) == {r \in Runs : run[r].home = h /\ run[r].pc \notin {"free", "done"}}

\* Mutant: the run under way is left alone.
Superseded_None(h) == {}

\* The run in flight, whose controller is aborted; those before it already are.
Superseded(h) == Active(h)

Spawn(h, how) ==
    LET unused == {r \in Runs : run[r].pc = "free"}
        sending == {run[r].post : r \in {x \in Active(h) : run[x].pc \in Sending}}
    IN  /\ unused # {}
        /\ run' = [r \in Runs |->
                      IF r = Min(unused) THEN [Blank EXCEPT !.pc = "debounce", !.home = h, !.mode = how]
                      ELSE IF r \in Superseded(h) THEN [run[r] EXCEPT !.aborted = "yes"] ELSE run[r]]
        /\ msg' = [n \in DOMAIN msg |-> IF n \in sending THEN [msg[n] EXCEPT !.late = "yes"]
                                        ELSE msg[n]]
        /\ UNCHANGED <<visible, conversation, claimsHeld, lost>>

\* handle() for a message of the customer.
Handle(h, n) ==
    /\ n \in FromCustomer \ heard[h]
    /\ Spawn(h, "reply")
    /\ heard' = [heard EXCEPT ![h] = @ \cup {n}]
    /\ UNCHANGED <<swept, events>>

\* listConversationsAwaitingAgentReply().
Awaiting ==
    /\ status = "open" /\ agentMode = "auto"
    /\ holder = Nobody \/ lease = "expired"
    /\ AwaitsReply

Sweep(h) ==
    /\ Awaiting /\ h \notin swept
    /\ swept' = swept \cup {h}
    /\ UNCHANGED <<msg, visible, conversation, claimsHeld, heard, run, events, lost>>

\* The sweeper has its answer and handles the conversation again.
SweepHandles(h) ==
    /\ h \in swept
    /\ swept' = swept \ {h}
    /\ Spawn(h, "reply")
    /\ UNCHANGED <<heard, events>>

-----------------------------------------------------------------------------
(* The staff and the widget.                                               *)

Happens == events < MaxEvents /\ events' = events + 1

\* greet() and requestDraft().
Requested(h, how) ==
    /\ Happens
    /\ Spawn(h, how)
    /\ UNCHANGED <<heard, swept>>

\* A staff member writes, which claims the conversation.
StaffWrites ==
    /\ Happens
    /\ Store("user")
    /\ human' = "held" /\ attention' = "no"
    /\ UNCHANGED <<holder, lease, status, agentMode, handler, run, lost>>

StaffNotes ==
    /\ Happens
    /\ Store("note")
    /\ UNCHANGED <<conversation, handler, run, lost>>

\* The claim is released, or its time is over.
StaffLeaves ==
    /\ human = "held"
    /\ human' = "free"
    /\ UNCHANGED <<msg, visible, holder, lease, status, agentMode, attention, handler, run, events,
                   lost>>

\* A run of the holder, other than these, is between its claim and its release.
HolderWorks(others) ==
    \E r \in Runs \ others : run[r].pc \in Claimed /\ run[r].home = holder

\* changeStatus() to closed or spam drops the claims of runner and staff.
Settled ==
    /\ status' = "closed" /\ attention' = "no"
    /\ human' = "free" /\ holder' = Nobody /\ lease' = "live"
    /\ UNCHANGED agentMode

StaffCloses ==
    /\ status = "open"
    /\ Happens
    /\ Settled
    /\ lost' = IF HolderWorks({}) THEN "yes" ELSE lost
    /\ UNCHANGED <<msg, visible, handler, run>>

Reopens ==
    /\ status = "closed"
    /\ Happens
    /\ status' = "open"
    /\ UNCHANGED <<msg, visible, holder, lease, human, agentMode, attention, handler, run, lost>>

ModeChanges ==
    /\ Happens
    /\ agentMode' = IF agentMode = "auto" THEN "draft_only" ELSE "auto"
    /\ UNCHANGED <<msg, visible, holder, lease, human, status, attention, handler, run, lost>>

-----------------------------------------------------------------------------
(* run(): from the debounce to the claim, and its end.                     *)

Goto(r, place) == run' = [run EXCEPT ![r].pc = place]
End(r) == run' = [run EXCEPT ![r] = [Blank EXCEPT !.pc = "done"]]

Aborted(r) == run[r].aborted = "yes"

\* resolveDelivery(): a greeting is never drafted, staff who hold the conversation
\* are not spoken over, and a reply needs a message of the customer to answer.
Wanted(r) ==
    /\ status = "open"
    /\ run[r].mode = "greet" => agentMode = "auto"
    /\ human = "held" => run[r].mode = "draft" \/ agentMode = "draft_only"
    /\ run[r].mode = "reply" => AwaitsReply

\* sinceMessageId: the last message, whatever its kind.
LastMessage == Newest(visible)

\* The debounce is over and the conversation is read.
Read(r) ==
    /\ run[r].pc = "debounce" /\ ~Aborted(r) /\ Wanted(r)
    /\ run' = [run EXCEPT ![r].pc = "read",
                          ![r].seen = Newest(FromCustomer),
                          ![r].since = LastMessage,
                          ![r].delivery = IF run[r].mode = "draft" \/ agentMode = "draft_only"
                                          THEN "draft" ELSE "send"]
    /\ UNCHANGED <<msg, visible, conversation, handler, events, lost>>

\* Nothing is to be done, a draft without a note included, or the run is aborted.
Skip(r) ==
    /\ \/ run[r].pc = "debounce"
          /\ (Aborted(r) \/ ~Wanted(r) \/ (run[r].mode = "draft" /\ ~AwaitsReply))
       \/ run[r].pc = "read" /\ Aborted(r)
    /\ End(r)
    /\ UNCHANGED <<msg, visible, conversation, handler, events, lost>>

\* The condition of tryAcquireConversation()'s update.
Acquirable(h) == holder \in {Nobody, h} \/ lease = "expired"

\* An abort that comes once the call is made is not looked at before the reply.
Acquire(r) ==
    /\ run[r].pc = "read"
    /\ IF Acquirable(run[r].home)
       THEN Goto(r, "acquired") /\ holder' = run[r].home /\ lease' = "live"
       ELSE End(r) /\ UNCHANGED <<holder, lease>>
    /\ UNCHANGED <<msg, visible, human, status, agentMode, attention, handler, events, lost>>

\* getConversation() or tryAcquireConversation() fails, the latter perhaps once it
\* is committed: run() throws before claimsHeld knows of the claim.
CallFails(r) ==
    /\ run[r].pc \in {"debounce", "read"} /\ Happens
    /\ End(r)
    /\ \/ UNCHANGED <<holder, lease>>
       \/ run[r].pc = "read" /\ Acquirable(run[r].home)
             /\ holder' = run[r].home /\ lease' = "stray"
    /\ UNCHANGED <<msg, visible, human, status, agentMode, attention, handler, lost>>

\* Mutant: the conversation is forgotten and the claim not released.
Finish_ClaimKept(r) == End(r) /\ claimsHeld' = claimsHeld \ {run[r].home}

\* The finally block calls releaseClaim(), which does nothing if another run of
\* the replica has done it.
Finish(r) ==
    LET h == run[r].home IN
    /\ IF h \in claimsHeld THEN Goto(r, "unclaim") ELSE End(r)
    /\ claimsHeld' = claimsHeld \ {h}

\* releaseConversationClaim(): the claim of the replica, whichever run took it.
Unclaim(r) ==
    /\ run[r].pc = "unclaim"
    /\ End(r)
    /\ IF holder = run[r].home
       THEN /\ holder' = Nobody /\ lease' = "live"
            /\ lost' = IF HolderWorks({}) THEN "yes" ELSE lost
       ELSE UNCHANGED <<holder, lease, lost>>
    /\ UNCHANGED <<msg, visible, human, status, agentMode, attention, handler, events>>

\* The call fails before its commit and is only logged: nobody will release the
\* claim.  A call that fails after its commit has done what Unclaim does.
UnclaimFails(r) ==
    /\ run[r].pc = "unclaim" /\ Happens
    /\ End(r)
    /\ lease' = IF holder = run[r].home /\ lease = "live" THEN "stray" ELSE lease
    /\ UNCHANGED <<msg, visible, holder, human, status, agentMode, attention, handler, lost>>

-----------------------------------------------------------------------------
(* run(): the gate, generation, audit and sending.                         *)

\* claimsHeld is set and the gate asked, which allows the run or, with a notice,
\* denies it.
Begin(r, next) ==
    /\ run[r].pc = "acquired"
    /\ claimsHeld' = claimsHeld \cup {run[r].home}
    /\ Goto(r, next)
    /\ UNCHANGED <<msg, visible, conversation, heard, swept, events, lost>>

\* The gate denies without a notice.
Denied(r) ==
    /\ run[r].pc = "acquired"
    /\ claimsHeld' = claimsHeld \ {run[r].home}
    /\ Goto(r, "unclaim")
    /\ UNCHANGED <<msg, visible, conversation, heard, swept, events, lost>>

\* The model has answered and the audit passed, or the retries are spent.
Generate(r, next) ==
    /\ run[r].pc = "working"
    /\ IF Aborted(r) THEN Finish(r) ELSE Goto(r, next) /\ UNCHANGED claimsHeld
    /\ UNCHANGED <<msg, visible, conversation, heard, swept, events, lost>>

\* The audit takes the message for spam: the conversation is settled and the
\* reply parked.
AuditSpam(r) ==
    /\ run[r].pc = "working" /\ ~Aborted(r) /\ run[r].mode # "greet"
    /\ Settled
    /\ Store("note")
    /\ lost' = IF HolderWorks({r}) THEN "yes" ELSE lost
    /\ Finish(r)
    /\ UNCHANGED <<heard, swept, events>>

\* signal.aborted after the audit.
Stale(r) == Aborted(r)

\* Mutant: no agent_reply_race.
Raced_Never(r) == FALSE

\* A reply is newer than what the run had read.
Raced(r) == run[r].since > 0 /\ \E n \in Replies : n > run[r].since

\* A greeting is refused once the customer has written.
TooLate(r) == run[r].mode = "greet" /\ FromCustomer # {}

Refused(r) == human = "held" \/ TooLate(r) \/ Raced(r)

\* Superseded, or refused by sendMessage() for good.
Withhold(r) ==
    /\ run[r].pc = "audited"
    /\ Stale(r) \/ (run[r].delivery = "send" /\ Refused(r))
    /\ Finish(r)
    /\ UNCHANGED <<msg, visible, conversation, heard, swept, events, lost>>

\* setDraftReply() and requestHandover(): drafts, and the replies of a conversation
\* that turned draft_only. Nobody is called if a person held the conversation when
\* it was read, or if the handover's call fails.
Park(r) ==
    /\ run[r].pc = "audited" /\ ~Stale(r)
    /\ run[r].delivery = "draft" \/ (agentMode = "draft_only" /\ ~Refused(r))
    /\ Store("note")
    /\ attention' \in {attention} \cup {a \in {"yes"} : human = "free"}
    /\ Finish(r)
    /\ UNCHANGED <<holder, lease, human, status, agentMode, heard, swept, events, lost>>

\* sendMessage() up to its commit.
Send(r, kind, late, place) ==
    /\ Write([kind |-> kind, seen |-> run[r].seen, since |-> run[r].since, late |-> late])
    /\ run' = [run EXCEPT ![r].pc = place, ![r].post = Len(msg) + 1]
    /\ UNCHANGED <<visible, claimsHeld>>

Post(r) ==
    /\ run[r].pc = "audited" /\ ~Stale(r)
    /\ run[r].delivery = "send" /\ ~Refused(r) /\ agentMode = "auto"
    /\ Send(r, IF run[r].mode = "greet" THEN "greeting" ELSE "agent", "no", "posting")
    /\ UNCHANGED <<conversation, heard, swept, events, lost>>

\* The message is committed; the audit may still want the conversation closed.
Posted(r, next) ==
    /\ run[r].pc = "posting"
    /\ visible' = visible \cup {run[r].post}
    /\ attention' = "no"
    /\ IF next = "settling" THEN Goto(r, next) /\ UNCHANGED claimsHeld ELSE Finish(r)
    /\ UNCHANGED <<msg, holder, lease, human, status, agentMode, heard, swept, events, lost>>

\* The call fails before or after its commit and counts as a failed attempt.
PostFails(r, committed) ==
    /\ run[r].pc = "posting" /\ Happens
    /\ visible' = IF committed = "yes" THEN visible \cup {run[r].post} ELSE visible
    /\ attention' = IF committed = "yes" THEN "no" ELSE attention
    /\ Goto(r, "working")
    /\ UNCHANGED <<msg, holder, lease, human, status, agentMode, handler, lost>>

\* settleAfterSend(): the audit's close_conversation.
AuditCloses(r) ==
    /\ run[r].pc = "settling"
    /\ Settled
    /\ lost' = IF HolderWorks({r}) THEN "yes" ELSE lost
    /\ Finish(r)
    /\ UNCHANGED <<msg, visible, heard, swept, events>>

-----------------------------------------------------------------------------
(* fallBack().                                                             *)

\* Nothing is posted: a superseded or refused greeting, a handover of what a
\* person already holds or awaits, or a call that fails, which is only logged.
FallBackSilent(r) ==
    /\ run[r].pc = "fallback"
    /\ \/ run[r].mode = "greet" /\ UNCHANGED events
             /\ (Aborted(r) \/ Refused(r) \/ agentMode = "draft_only")
       \/ run[r].mode = "reply" /\ UNCHANGED events
             /\ (human = "held" \/ attention = "yes")
       \/ Happens
    /\ Finish(r)
    /\ UNCHANGED <<msg, visible, conversation, heard, swept, lost>>

\* A note for the staff: a draft request, or a handover without a public message.
FallBackNote(r) ==
    /\ run[r].pc = "fallback"
    /\ \/ run[r].mode = "draft" /\ UNCHANGED attention
       \/ run[r].mode = "reply" /\ run[r].delivery = "draft" /\ human = "free" /\ attention = "no"
          /\ attention' = "yes"
    /\ Store("note")
    /\ Finish(r)
    /\ UNCHANGED <<holder, lease, human, status, agentMode, heard, swept, events, lost>>

\* A public message: the stock greeting, or requestHandover() with its fallback,
\* which asks neither for the signal nor for other replies.
FallBackPublic(r) ==
    /\ run[r].pc = "fallback"
    /\ \/ /\ run[r].mode = "greet" /\ ~Aborted(r) /\ ~Refused(r) /\ agentMode = "auto"
          /\ Send(r, "greeting", "no", "falling")
       \/ /\ run[r].mode = "reply" /\ run[r].delivery = "send" /\ human = "free" /\ attention = "no"
          /\ Send(r, "fallback", run[r].aborted, "falling")
    /\ UNCHANGED <<conversation, heard, swept, events, lost>>

FellBack(r) ==
    /\ run[r].pc = "falling"
    /\ visible' = visible \cup {run[r].post}
    /\ attention' = IF run[r].mode = "reply" THEN "yes" ELSE "no"
    /\ Finish(r)
    /\ UNCHANGED <<msg, holder, lease, human, status, agentMode, heard, swept, events, lost>>

-----------------------------------------------------------------------------
(* Crashes and claims that run out.                                        *)

\* The replica dies; what it had not committed is gone, and its successor has
\* another holder id.
Crash(h) ==
    /\ Happens
    /\ run' = [r \in Runs |-> IF r \in Active(h) THEN [Blank EXCEPT !.pc = "done"] ELSE run[r]]
    /\ claimsHeld' = claimsHeld \ {h}
    /\ swept' = swept \ {h}
    /\ heard' = [heard EXCEPT ![h] = FromCustomer]
    /\ holder' = IF holder = h THEN Departed ELSE holder
    /\ UNCHANGED <<msg, visible, lease, human, status, agentMode, attention, lost>>

\* The lease of an hour is over; while a run still works this counts as a fault.
LeaseExpires ==
    /\ holder # Nobody /\ lease # "expired"
    /\ IF HolderWorks({}) THEN Happens ELSE UNCHANGED events
    /\ lease' = "expired"
    /\ lost' = IF HolderWorks({}) THEN "yes" ELSE lost
    /\ UNCHANGED <<msg, visible, holder, human, status, agentMode, attention, handler, run>>

-----------------------------------------------------------------------------
Next ==
    \/ CustomerWrites \/ StaffWrites \/ StaffNotes \/ StaffLeaves \/ StaffCloses \/ Reopens
    \/ ModeChanges \/ LeaseExpires
    \/ \E h \in Replicas :
          \/ \E n \in DOMAIN msg : Handle(h, n)
          \/ \E how \in {"greet", "draft"} : Requested(h, how)
          \/ Sweep(h) \/ SweepHandles(h) \/ Crash(h)
    \/ \E r \in Runs :
          \/ Read(r) \/ Skip(r) \/ Acquire(r) \/ Denied(r)
          \/ \E next \in {"working", "fallback"} : Begin(r, next)
          \/ \E next \in {"audited", "fallback"} : Generate(r, next)
          \/ AuditSpam(r) \/ Withhold(r) \/ Park(r) \/ Post(r) \/ AuditCloses(r)
          \/ \E next \in {"settling", "done"} : Posted(r, next)
          \/ \E committed \in YesNo : PostFails(r, committed)
          \/ FallBackSilent(r) \/ FallBackNote(r) \/ FallBackPublic(r) \/ FellBack(r)
          \/ Unclaim(r) \/ UnclaimFails(r) \/ CallFails(r)

Spec == Init /\ [][Next]_vars

-----------------------------------------------------------------------------
(* Properties.                                                             *)

\* Two replies to the same message of the customer, of which the second is not
\* the public message of a handover.
Twice(x, y) == x < y /\ msg[x].seen = msg[y].seen /\ msg[y].kind = "agent"

\* A message is answered twice only if a working run lost its claim, if a run was
\* superseded while it was sending or handing over, or if a note was written and
\* read while the first reply was being sent: the claim, the abort signal and the
\* race check of sendMessage() together.
OneReply ==
    \A x, y \in Replies : Twice(x, y) =>
        \/ lost = "yes"
        \/ msg[x].late = "yes" \/ msg[y].late = "yes"
        \/ x < msg[y].since

\* A reply that is being sent answers the newest message its replica has heard
\* of, unless the run was superseded while it was sending.
AnswersLatest ==
    \A r \in Runs : run[r].pc = "posting" /\ msg[run[r].post].late = "no" =>
        \A n \in heard[run[r].home] : n <= run[r].seen

\* A claim in force is known to a handler that will release it, is being taken or
\* released, or belongs to a process that died; only if the call that took it or
\* was to release it has failed does it stay until its lease ends.
ClaimBacked ==
    holder \in Replicas /\ lease = "live" =>
        \/ holder \in claimsHeld
        \/ \E r \in Runs : run[r].home = holder /\ run[r].pc \in {"acquired", "unclaim"}
-----------------------------------------------------------------------------
(* The inductive invariant (module ConversationReplyProofs).               *)

\* What a run carries once it has read the conversation: only a draft request is
\* bound to drafts, and the last message before a reply is no reply. A message
\* that is being sent knows when its run is superseded.
Prepared ==
    \A r \in Runs :
        /\ run[r].home = Nobody <=> run[r].pc \in {"free", "done"}
        /\ run[r].pc \in Claimed \cup {"read"} =>
              /\ run[r].mode = "draft" => run[r].delivery = "draft"
              /\ run[r].mode = "reply" =>
                    run[r].since > 0 /\ msg[run[r].since].kind \notin {"agent", "fallback"}
        /\ run[r].pc \in Sending =>
              run[r].post \in DOMAIN msg /\ (Aborted(r) => msg[run[r].post].late = "yes")

\* A replica has at most one run that is not superseded.
OneCurrent ==
    \A h \in Replicas : \A r, s \in Active(h) : r = s \/ Aborted(r) \/ Aborted(s)

\* A run past the claim has it, as long as none was taken away.
ClaimKept ==
    \A r \in Runs : run[r].pc \in Claimed =>
        lost = "yes" \/ (holder = run[r].home /\ lease # "expired")

\* A run that is not superseded has read every message its replica has heard of.
UpToDate ==
    /\ \A h \in Replicas : heard[h] \subseteq FromCustomer
    /\ \A r \in Runs : run[r].pc \in Claimed \cup {"read"} /\ ~Aborted(r) =>
          \A n \in heard[run[r].home] : n <= run[r].seen

\* Messages that others see or are going to see.
Underway == visible \cup {run[r].post : r \in {x \in Runs : run[x].pc \in Sending}}

\* Why OneReply holds: of two replies the later one comes from a run that had read
\* the earlier one, but for the exceptions.
ReadBefore ==
    \A x, y \in Underway :
        x < y /\ msg[x].kind \in {"agent", "fallback"} /\ msg[y].kind = "agent" =>
            \/ lost = "yes"
            \/ msg[x].late = "yes" \/ msg[y].late = "yes"
            \/ x < msg[y].since

ReplyInv ==
    /\ TypeOK /\ Prepared /\ OneCurrent /\ ClaimKept
    /\ UpToDate /\ ReadBefore /\ ClaimBacked
=============================================================================
