---------------------------- MODULE ReplicaLock ----------------------------
(***************************************************************************)
(* Which replica answers the chats of which agent configuration.  Every    *)
(* replica has a ReplicaLockManager with one reserved connection, whose    *)
(* session takes an advisory lock per configuration id, and a set of ids   *)
(* it believes it holds.  The passes of reconcile() call tryAcquire() for  *)
(* provisioned ids and release() for others; passes of one replica may     *)
(* overlap, because the interval does not wait for the last one.           *)
(*                                                                         *)
(* What lies between two awaits is one action, and so is the execution of  *)
(* a query in the database.  A query fails only with its connection.  The  *)
(* connection runs and answers queries in the order in which they are sent *)
(* (a pass whose lock is denied goes on at once: the answer changes        *)
(* nothing).                                                               *)
(***************************************************************************)
EXTENDS Integers

CONSTANTS
    Replicas,   \* processes that host runners
    Passes,     \* activations of reconcile()
    Home,       \* Passes -> Replicas
    Ids,        \* agent configurations
    NoReplica,  \* nobody has the lock
    NoId,       \* the pass is at no id
    MaxFaults,  \* bound: shutdowns, crashes and lost connections
    MaxGrants   \* bound: how often one session has a lock

ASSUME HomeAssumption == Home \in [Passes -> Replicas]
ASSUME NoneAssumption == NoReplica \notin Replicas /\ NoId \notin Ids
ASSUME BoundsAssumption == MaxFaults \in Nat /\ MaxGrants \in Nat

VARIABLES
    phase,    \* Replicas -> "up", "closing" (unlock_all ran), "down"
    pc, at,   \* Passes -> where the pass is, and at which id
    ahead,    \* Passes -> passes whose queries are to be answered before its own
    held,     \* Replicas -> the manager's held set
    session,  \* Replicas -> reserved connection: "none", "up", "dead"
    owner,    \* Ids -> replica whose session has the advisory lock
    count,    \* Ids -> how often that session has it
    faults,   \* shutdowns, crashes and lost connections so far
    crossed   \* history: replicas where two passes were at the same id at once

database == <<owner, count>>
vars == <<phase, pc, at, ahead, held, session, owner, count, faults, crossed>>

Place == {"idle", "locking", "reserving", "asking", "granted",
          "releasing", "unlocking", "dropping"}
Sent == {"asking", "unlocking"}      \* the query is on its way to the database
Executed == {"granted", "dropping"}  \* its answer is on its way back

\* The type invariant.
TypeOK ==
    /\ phase \in [Replicas -> {"up", "closing", "down"}]
    /\ pc \in [Passes -> Place]
    /\ at \in [Passes -> Ids \cup {NoId}]
    /\ ahead \in [Passes -> SUBSET Passes]
    /\ held \in [Replicas -> SUBSET Ids]
    /\ session \in [Replicas -> {"none", "up", "dead"}]
    /\ owner \in [Ids -> Replicas \cup {NoReplica}]
    /\ count \in [Ids -> Nat]
    /\ faults \in 0..MaxFaults
    /\ crossed \subseteq Replicas

Init ==
    /\ phase = [p \in Replicas |-> "up"]
    /\ pc = [t \in Passes |-> "idle"]
    /\ at = [t \in Passes |-> NoId]
    /\ ahead = [t \in Passes |-> {}]
    /\ held = [p \in Replicas |-> {}]
    /\ session = [p \in Replicas |-> "none"]
    /\ owner = [i \in Ids |-> NoReplica]
    /\ count = [i \in Ids |-> 0]
    /\ faults = 0
    /\ crossed = {}

Goto(t, place) == pc' = [pc EXCEPT ![t] = place]

Querying(p, places) == {t \in Passes : Home[t] = p /\ pc[t] \in places}

\* t's query is sent on the connection, behind those that are unanswered.
Query(t) == ahead' = [ahead EXCEPT ![t] = Querying(Home[t], Sent \cup Executed) \ {t}]

\* The database has run every query that was sent before t's.
InTurn(t) == \A u \in ahead[t] : pc[u] \in Executed

\* t waits for no answer any more.
Answered(t) == ahead' = [u \in Passes |-> IF u = t THEN {} ELSE ahead[u] \ {t}]

\* p's connection is gone and with it every answer.
Unanswered(p) == ahead' = [t \in Passes |-> IF Home[t] = p THEN {} ELSE ahead[t]]

Finish(t) == Goto(t, "idle") /\ at' = [at EXCEPT ![t] = NoId] /\ Answered(t)

\* Another pass of t's replica is at id i.
Meets(t, i) == \E u \in Passes \ {t} : Home[u] = Home[t] /\ at[u] = i

-----------------------------------------------------------------------------
(* reconcile() comes to an id: provisioned ids are locked, the ids whose   *)
(* runner it has stopped are released.                                     *)

Turn(t, i, place) ==
    /\ pc[t] = "idle" /\ phase[Home[t]] = "up"
    /\ Goto(t, place)
    /\ at' = [at EXCEPT ![t] = i]
    /\ crossed' = IF Meets(t, i) THEN crossed \cup {Home[t]} ELSE crossed
    /\ UNCHANGED <<phase, ahead, held, session, database, faults>>

Provisioned(t, i) == Turn(t, i, "locking")
Deprovisioned(t, i) == Turn(t, i, "releasing")

-----------------------------------------------------------------------------
(* tryAcquire().                                                           *)

\* Up to the first await: not after stop(), not if already held.
Skip(t) ==
    /\ pc[t] = "locking"
    /\ phase[Home[t]] # "up" \/ at[t] \in held[Home[t]]
    /\ Finish(t)
    /\ UNCHANGED <<phase, held, session, database, faults, crossed>>

Ask(t) ==
    /\ pc[t] = "locking" /\ phase[Home[t]] = "up" /\ at[t] \notin held[Home[t]]
    /\ IF session[Home[t]] = "none"
       THEN Goto(t, "reserving") /\ UNCHANGED ahead
       ELSE Goto(t, "asking") /\ Query(t)
    /\ UNCHANGED <<phase, at, held, session, database, faults, crossed>>

\* reserve() answers once the only connection of the manager's pool is free, or
\* fails.
Reserve(t) ==
    LET p == Home[t] IN
    /\ pc[t] = "reserving" /\ session[p] = "none" /\ phase[p] = "up"
    /\ session' = [session EXCEPT ![p] = "up"]
    /\ Goto(t, "asking") /\ Query(t)
    /\ UNCHANGED <<phase, at, held, database, faults, crossed>>

ReserveFails(t) ==
    /\ pc[t] = "reserving"
    /\ Finish(t)
    /\ UNCHANGED <<phase, held, session, database, faults, crossed>>

\* Mutant: session locks of different replicas do not exclude each other.
Granted_Always(p, i) == TRUE

\* pg_try_advisory_lock; session locks are re-entrant.
Granted(p, i) == owner[i] \in {NoReplica, p}

\* The database runs the query and, if the lock is free, gives it.
Decide(t) ==
    LET p == Home[t]
        i == at[t]
    IN  /\ pc[t] = "asking" /\ session[p] = "up" /\ InTurn(t)
        /\ owner[i] = p => count[i] < MaxGrants
        /\ IF Granted(p, i)
           THEN /\ Goto(t, "granted") /\ UNCHANGED <<at, ahead>>
                /\ owner' = [owner EXCEPT ![i] = p]
                /\ count' = [count EXCEPT ![i] = @ + 1]
           ELSE Finish(t) /\ UNCHANGED database
        /\ UNCHANGED <<phase, held, session, faults, crossed>>

\* The answer arrives and the flag is set.
Hold(t) ==
    /\ pc[t] = "granted" /\ ahead[t] = {}
    /\ held' = [held EXCEPT ![Home[t]] = @ \cup {at[t]}]
    /\ Finish(t)
    /\ UNCHANGED <<phase, session, database, faults, crossed>>

\* resetReservation(): the connection is given back and every flag cleared.
ResetReservation(p) ==
    /\ session' = [session EXCEPT ![p] = "none"]
    /\ held' = [held EXCEPT ![p] = {}]

\* The passes end and forget their id; their replica's answers are gone.
Abort(p, passes) ==
    /\ pc' = [t \in Passes |-> IF t \in passes THEN "idle"
                               ELSE IF Home[t] = p /\ pc[t] = "unlocking" THEN "dropping"
                               ELSE pc[t]]
    /\ at' = [t \in Passes |-> IF t \in passes THEN NoId ELSE at[t]]
    /\ Unanswered(p)

\* Queries on a connection that died earlier fail.
AskFails(p) ==
    /\ session[p] = "dead" /\ Querying(p, {"asking"}) # {}
    /\ ResetReservation(p)
    /\ Abort(p, Querying(p, {"asking"}))
    /\ UNCHANGED <<phase, database, faults, crossed>>

-----------------------------------------------------------------------------
(* release().                                                              *)

\* Mutant: the unlock query is forgotten.
Unlock_Forgotten(p, i) == UNCHANGED database

\* pg_advisory_unlock in p's session, if it lives and has the lock.
Unlock(p, i) ==
    IF session[p] = "up" /\ owner[i] = p
    THEN /\ count' = [count EXCEPT ![i] = @ - 1]
         /\ owner' = [owner EXCEPT ![i] = IF count[i] = 1 THEN NoReplica ELSE @]
    ELSE UNCHANGED database

\* With the flag and a connection the unlock query is sent and run before the
\* flag is cleared.
Release(t) ==
    /\ pc[t] = "releasing"
    /\ at[t] \in held[Home[t]] /\ session[Home[t]] # "none"
    /\ Goto(t, "unlocking") /\ Query(t)
    /\ UNCHANGED <<phase, at, held, session, database, faults, crossed>>

Unlocked(t) ==
    /\ pc[t] = "unlocking" /\ InTurn(t)
    /\ Unlock(Home[t], at[t])
    /\ Goto(t, "dropping")
    /\ UNCHANGED <<phase, at, ahead, held, session, faults, crossed>>

Drop(t) ==
    /\ \/ pc[t] = "dropping" /\ ahead[t] = {}
       \/ pc[t] = "releasing" /\ (at[t] \notin held[Home[t]] \/ session[Home[t]] = "none")
    /\ held' = [held EXCEPT ![Home[t]] = @ \ {at[t]}]
    /\ Finish(t)
    /\ UNCHANGED <<phase, session, database, faults, crossed>>

-----------------------------------------------------------------------------
(* stop(), crashes and lost connections.                                   *)

\* The database frees what p's session has.
Free(p) ==
    /\ owner' = [i \in Ids |-> IF owner[i] = p THEN NoReplica ELSE owner[i]]
    /\ count' = [i \in Ids |-> IF owner[i] = p THEN 0 ELSE count[i]]

UnlockAll(p) == Free(p)

\* onModuleDestroy() has cleared the runners and calls stop(): its query runs
\* after those the connection still has to answer.
Stop(p) ==
    /\ faults < MaxFaults
    /\ phase[p] = "up" /\ Querying(p, Sent) = {}
    /\ faults' = faults + 1
    /\ phase' = [phase EXCEPT ![p] = "closing"]
    /\ UnlockAll(p)
    /\ UNCHANGED <<pc, at, ahead, held, session, crossed>>

Stopped(p) ==
    /\ phase[p] = "closing" /\ Querying(p, {"granted"}) = {}
    /\ phase' = [phase EXCEPT ![p] = "down"]
    /\ held' = [held EXCEPT ![p] = {}]
    /\ session' = [session EXCEPT ![p] = "none"]
    /\ UNCHANGED <<pc, at, ahead, database, faults, crossed>>

\* The passes of p are gone.
Forget(p) ==
    /\ pc' = [t \in Passes |-> IF Home[t] = p THEN "idle" ELSE pc[t]]
    /\ at' = [t \in Passes |-> IF Home[t] = p THEN NoId ELSE at[t]]
    /\ Unanswered(p)

\* A stopped process is replaced by a new one.
Restart(p) ==
    /\ phase[p] = "down"
    /\ phase' = [phase EXCEPT ![p] = "up"]
    /\ Forget(p)
    /\ crossed' = crossed \ {p}
    /\ UNCHANGED <<held, session, database, faults>>

\* A process dies with its sessions and is replaced.
Crash(p) ==
    /\ faults < MaxFaults
    /\ faults' = faults + 1
    /\ phase' = [phase EXCEPT ![p] = "up"]
    /\ ResetReservation(p) /\ Free(p) /\ Forget(p)
    /\ crossed' = crossed \ {p}

\* The reserved connection dies.  Queries under way fail at once and reset the
\* reservation; without one the manager does not notice.
ConnectionLost(p) ==
    LET failing == Querying(p, {"asking", "granted"}) IN
    /\ faults < MaxFaults
    /\ session[p] = "up"
    /\ faults' = faults + 1
    /\ Free(p)
    /\ IF failing # {}
       THEN ResetReservation(p)
       ELSE session' = [session EXCEPT ![p] = "dead"] /\ UNCHANGED held
    /\ Abort(p, failing)
    /\ UNCHANGED <<phase, crossed>>

-----------------------------------------------------------------------------
Next ==
    \/ \E t \in Passes :
          \/ \E i \in Ids : Provisioned(t, i) \/ Deprovisioned(t, i)
          \/ Skip(t) \/ Ask(t) \/ Reserve(t) \/ ReserveFails(t) \/ Decide(t) \/ Hold(t)
          \/ Release(t) \/ Unlocked(t) \/ Drop(t)
    \/ \E p \in Replicas :
          \/ AskFails(p) \/ Stop(p) \/ Stopped(p) \/ Restart(p) \/ Crash(p) \/ ConnectionLost(p)

Spec == Init /\ [][Next]_vars

-----------------------------------------------------------------------------
(* Properties.                                                             *)

\* p has given the lock of i back and is about to clear the flag.
Leaving(p, i) ==
    \/ phase[p] = "closing"
    \/ \E t \in Passes : Home[t] = p /\ at[t] = i /\ pc[t] = "dropping"

\* Replicas that answer the chats of i for good reason, as far as they can know.
Answering(i) == {p \in Replicas : i \in held[p] /\ session[p] # "dead" /\ ~Leaving(p, i)}

\* A session that has an advisory lock belongs to a manager that knows it and
\* will release it, unless two passes of the replica crossed at that id: no
\* configuration is left without a replica that answers.
NoLostLock ==
    \A i \in Ids, p \in Replicas : owner[i] = p =>
        \/ i \in held[p] /\ session[p] = "up"
        \/ \E t \in Passes : Home[t] = p /\ at[t] = i /\ pc[t] = "granted"
        \/ p \in crossed

Chat == INSTANCE Ownership WITH
            Holders <- Replicas, Rights <- Ids, owners <- [i \in Ids |-> Answering(i)]

\* The right to answer the chats of a configuration passes from one replica to
\* nobody and from nobody to one replica: the managers implement Ownership. Two
\* replicas answer only after the connection of one of them died unnoticed, or
\* while one gives the lock back: tryAcquire(), release(), stop() and
\* resetReservation() together.
ImplementsOwnership == Chat!Spec

-----------------------------------------------------------------------------
(* The inductive invariant (module ReplicaLockProofs).                     *)

\* A pass is at an id while it works; passes of one replica wait for each
\* other's answers, in one order, and only for queries that are out.
InOrder ==
    /\ \A t \in Passes : at[t] = NoId <=> pc[t] = "idle"
    /\ \A t, u \in Passes : u \in ahead[t] =>
          /\ Home[u] = Home[t] /\ pc[u] \in Sent \cup Executed
          /\ pc[t] \in Sent \cup Executed
          /\ pc[t] \in Executed => pc[u] \in Executed
    /\ \A t, u \in Passes :
          t # u /\ Home[u] = Home[t] /\ pc[t] \in Sent /\ pc[u] \in Sent \cup Executed
             => t \in ahead[u] \/ u \in ahead[t]

\* What the connection, the process and the server's locks know of each other.
Attached ==
    /\ \A p \in Replicas :
          /\ session[p] = "none" => held[p] = {}
          /\ phase[p] = "down" => session[p] = "none"
    /\ \A t \in Passes :
          /\ pc[t] = "asking" => session[Home[t]] # "none" /\ phase[Home[t]] = "up"
          /\ pc[t] = "granted" => session[Home[t]] = "up" /\ phase[Home[t]] # "down"
    /\ \A i \in Ids :
          /\ owner[i] = NoReplica => count[i] = 0
          /\ owner[i] # NoReplica =>
                session[owner[i]] = "up" /\ phase[owner[i]] = "up" /\ count[i] > 0

\* A lock that was granted is still there when its answer arrives, or a release
\* of it is answered later.
GrantBacked ==
    \A t \in Passes : pc[t] = "granted" /\ phase[Home[t]] = "up" =>
        \/ owner[at[t]] = Home[t]
        \/ \E u \in Passes :
              pc[u] = "dropping" /\ Home[u] = Home[t] /\ at[u] = at[t] /\ t \in ahead[u]

\* A flag stands for the lock, or its release is under way.
FlagBacked ==
    \A p \in Replicas, i \in Ids :
        i \in held[p] /\ session[p] = "up" /\ ~Leaving(p, i) => owner[i] = p

\* Where passes never crossed, one pass at most is at an id, and what it does
\* agrees with the flag and the lock.
Alone ==
    \A t \in Passes : Home[t] \notin crossed /\ at[t] # NoId =>
        /\ \A u \in Passes : Home[u] = Home[t] /\ at[u] = at[t] => u = t
        /\ pc[t] \in {"reserving", "asking"} => at[t] \notin held[Home[t]]
        /\ pc[t] = "dropping" => owner[at[t]] # Home[t]

Single ==
    \A i \in Ids : owner[i] # NoReplica /\ owner[i] \notin crossed => count[i] = 1

LockInv ==
    /\ TypeOK /\ InOrder /\ Attached /\ GrantBacked /\ FlagBacked
    /\ Alone /\ Single /\ NoLostLock
=============================================================================
