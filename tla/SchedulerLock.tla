--------------------------- MODULE SchedulerLock ---------------------------
(***************************************************************************)
(* withSchedulerLock(): the periodic workers of every replica take an      *)
(* advisory lock inside a transaction, which pins one connection of the    *)
(* replica's pool, and do their work over further connections of the same  *)
(* pool, where web requests compete with them.                             *)
(*                                                                         *)
(* A call is one invocation; two calls of one owner and name are an        *)
(* interval that came round while its last tick still runs.                *)
(***************************************************************************)
EXTENDS Integers, FiniteSets

CONSTANTS
    Calls,      \* invocations of withSchedulerLock()
    Processes,  \* replicas
    Names,      \* lock names
    None,       \* an advisory lock nobody holds
    Owner,      \* Calls -> Processes
    Name,       \* Calls -> Names
    PoolMax,    \* MUNIN_DB_POOL_MAX
    MaxWeb,     \* bound: connections web requests hold at once in a process
    Faults      \* whether connections die

ASSUME NobodyAssumption == None \notin Calls
ASSUME CallsAssumption ==
    IsFiniteSet(Calls) /\ Owner \in [Calls -> Processes] /\ Name \in [Calls -> Names]
ASSUME PoolAssumption == PoolMax \in Nat \ {0} /\ MaxWeb \in Nat
ASSUME FaultsAssumption == Faults \in BOOLEAN

VARIABLES
    call,    \* Calls -> where the invocation is
    inUse,   \* Processes -> held, the counter of slots in use
    lock,    \* Names -> the call whose session holds the advisory lock
    lost,    \* calls whose lock connection died under them
    web      \* Processes -> connections held by requests

tickVars == <<call, inUse, lock, lost, web>>

\* Mutant: no cap on lock transactions.
Slots_Uncapped == PoolMax

\* schedulerLockSlots()
Slots == IF PoolMax \div 3 > 1 THEN PoolMax \div 3 ELSE 1

PC == {"out", "queued", "asking", "working", "waiting", "querying", "closing"}

\* Calls that pin a connection for their lock transaction.
Pinning(p) ==
    {c \in Calls : Owner[c] = p /\ call[c] \notin {"out", "queued"} /\ c \notin lost}

InQuery(p) == {c \in Calls : Owner[c] = p /\ call[c] = "querying"}

Spare(p) == PoolMax - Cardinality(Pinning(p)) - Cardinality(InQuery(p)) - web[p]

\* The type invariant: the pool is never overdrawn.
TickTypeOK ==
    /\ call \in [Calls -> PC]
    /\ inUse \in [Processes -> Nat]
    /\ lock \in [Names -> Calls \cup {None}]
    /\ lost \subseteq Calls
    /\ web \in [Processes -> Nat]
    /\ \A p \in Processes : Spare(p) >= 0

TickInit ==
    /\ call = [c \in Calls |-> "out"]
    /\ inUse = [p \in Processes |-> 0]
    /\ lock = [n \in Names |-> None]
    /\ lost = {}
    /\ web = [p \in Processes |-> 0]

-----------------------------------------------------------------------------
Go(c, place) == call' = [call EXCEPT ![c] = place]

\* A tick that finds every slot taken is skipped: no step.
Start(c) ==
    /\ call[c] = "out"
    /\ inUse[Owner[c]] < Slots
    /\ inUse' = [inUse EXCEPT ![Owner[c]] = @ + 1]
    /\ Go(c, "queued")
    /\ UNCHANGED <<lock, lost, web>>

\* The pool has a connection for the lock transaction.
Begin(c) ==
    /\ call[c] = "queued"
    /\ Spare(Owner[c]) > 0
    /\ Go(c, "asking")
    /\ UNCHANGED <<inUse, lock, lost, web>>

\* Mutant: the answer of pg_try_advisory_xact_lock() is not looked at.
TryLock_AnswerIgnored(c) ==
    /\ call[c] = "asking"
    /\ Go(c, "working")
    /\ lock' = [lock EXCEPT ![Name[c]] = IF @ = None THEN c ELSE @]
    /\ UNCHANGED <<inUse, lost, web>>

TryLock(c) ==
    /\ call[c] = "asking"
    /\ IF lock[Name[c]] = None
       THEN lock' = [lock EXCEPT ![Name[c]] = c] /\ Go(c, "working")
       ELSE UNCHANGED lock /\ Go(c, "closing")
    /\ UNCHANGED <<inUse, lost, web>>

\* fn() needs a connection for a statement of its own, and waits for it.
QueryAsked(c) ==
    /\ call[c] = "working"
    /\ Go(c, "waiting")
    /\ UNCHANGED <<inUse, lock, lost, web>>

QueryStarts(c) ==
    /\ call[c] = "waiting"
    /\ Spare(Owner[c]) > 0
    /\ Go(c, "querying")
    /\ UNCHANGED <<inUse, lock, lost, web>>

QueryEnds(c) ==
    /\ call[c] = "querying"
    /\ Go(c, "working")
    /\ UNCHANGED <<inUse, lock, lost, web>>

\* fn() returned or threw.
FnEnds(c) ==
    /\ call[c] = "working"
    /\ Go(c, "closing")
    /\ UNCHANGED <<inUse, lock, lost, web>>

\* Mutant: a call that did not get the lock keeps its slot.
Close_SlotKept(c) ==
    /\ call[c] = "closing"
    /\ Go(c, "out")
    /\ lock' = [lock EXCEPT ![Name[c]] = IF @ = c THEN None ELSE @]
    /\ inUse' = IF lock[Name[c]] = c THEN [inUse EXCEPT ![Owner[c]] = @ - 1] ELSE inUse
    /\ lost' = lost \ {c}
    /\ UNCHANGED web

\* The transaction ends, and the finally block gives the slot back.
Close(c) ==
    /\ call[c] = "closing"
    /\ Go(c, "out")
    /\ lock' = [lock EXCEPT ![Name[c]] = IF @ = c THEN None ELSE @]
    /\ inUse' = [inUse EXCEPT ![Owner[c]] = @ - 1]
    /\ lost' = lost \ {c}
    /\ UNCHANGED web

\* The lock's connection dies and its lock with it; fn() goes on.
LockConnectionLost(c) ==
    /\ Faults
    /\ call[c] \in {"working", "waiting", "querying"} /\ c \notin lost
    /\ lost' = lost \cup {c}
    /\ lock' = [lock EXCEPT ![Name[c]] = IF @ = c THEN None ELSE @]
    /\ UNCHANGED <<call, inUse, web>>

\* A web request takes a connection for its transaction, and gives it back.
Request(p) ==
    /\ Spare(p) > 0 /\ web[p] < MaxWeb
    /\ web' = [web EXCEPT ![p] = @ + 1]
    /\ UNCHANGED <<call, inUse, lock, lost>>

RequestEnds(p) ==
    /\ web[p] > 0
    /\ web' = [web EXCEPT ![p] = @ - 1]
    /\ UNCHANGED <<call, inUse, lock, lost>>

TickNext ==
    \/ \E c \in Calls :
         \/ Start(c) \/ Begin(c) \/ TryLock(c)
         \/ QueryAsked(c) \/ QueryStarts(c) \/ QueryEnds(c)
         \/ FnEnds(c) \/ Close(c) \/ LockConnectionLost(c)
    \/ \E p \in Processes : Request(p) \/ RequestEnds(p)

TickSpec == TickInit /\ [][TickNext]_tickVars

(* The pool hands connections out in the order they were asked for, hence  *)
(* strong fairness of Begin and QueryStarts; statements return, fn() does  *)
(* not query for ever and requests end.                                    *)
FairSpec ==
    /\ TickSpec
    /\ \A c \in Calls :
         /\ SF_tickVars(Begin(c)) /\ SF_tickVars(QueryStarts(c))
         /\ WF_tickVars(TryLock(c)) /\ WF_tickVars(QueryEnds(c))
         /\ SF_tickVars(FnEnds(c)) /\ WF_tickVars(Close(c))
    /\ \A p \in Processes : WF_tickVars(RequestEnds(p))

-----------------------------------------------------------------------------
(* Properties.                                                             *)

AtWork(c) == call[c] \in {"working", "waiting", "querying"}

\* The advisory lock: two ticks of one name run at once, in one process or
\* two, only if the connection of one of them died.
OneTick ==
    \A b, c \in Calls :
        AtWork(b) /\ AtWork(c) /\ Name[b] = Name[c] /\ b # c => {b, c} \cap lost # {}

Ticks == INSTANCE Ownership WITH
    Holders <- Calls, Rights <- Names,
    owners <- [n \in Names |-> {c \in Calls : Name[c] = n /\ AtWork(c) /\ c \notin lost}]

\* The tick of a name passes from one call to nobody and from nobody to one
\* call, in all replicas: withSchedulerLock() implements Ownership.  A call whose
\* connection died has lost the right, though its fn() goes on.
TickOwnership == Ticks!Spec

Active(p) == {c \in Calls : Owner[c] = p /\ call[c] # "out"}

\* The counter is the number of calls between its increment and the finally block,
\* whether the lock was granted or not and whether fn() threw or not.
HeldExact == \A p \in Processes : inUse[p] = Cardinality(Active(p))

\* Lock transactions never take the whole pool, so a tick that holds a lock
\* is not waiting for connections that only such ticks hold.
RoomToWork ==
    PoolMax >= 2 => \A p \in Processes : Cardinality(Pinning(p)) < PoolMax

\* "simultaneous ticks cannot drain the pool": a call that started ends.
TicksEnd == \A c \in Calls : call[c] # "out" ~> call[c] = "out"

(* The strengthening of the invariants above.                              *)

\* A tick at work holds its advisory lock until its connection dies.
LockOwned == \A c \in Calls : AtWork(c) /\ c \notin lost => lock[Name[c]] = c

\* The counter never passes the cap.
HeldCapped == \A p \in Processes : inUse[p] <= Slots

TickInv ==
    /\ call \in [Calls -> PC]
    /\ inUse \in [Processes -> Int]
    /\ lock \in [Names -> Calls \cup {None}]
    /\ LockOwned
    /\ HeldExact
    /\ HeldCapped
=============================================================================
