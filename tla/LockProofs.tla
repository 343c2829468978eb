----------------------------- MODULE LockProofs -----------------------------
(***************************************************************************)
(* The two uses of advisory locks, for any number of replicas, passes,     *)
(* configurations, lock names, calls and connections.  Both implement      *)
(* Ownership: the replica locks as the right to answer a configuration's   *)
(* chats, withSchedulerLock() as the right to the tick of a name.          *)
(***************************************************************************)
EXTENDS ReplicaLock, SchedulerLock, FiniteSetTheorems, TLAPS

-----------------------------------------------------------------------------
(* SchedulerLock                                                           *)

\* The cap is at least one, and below the size of a pool of two or more.
LEMMA SlotsBelowPool ==
    Slots \in Nat \ {0} /\ (PoolMax >= 2 => Slots < PoolMax)
BY PoolAssumption DEF Slots

\* The sets the counter is compared with are finite.
LEMMA ActiveFinite ==
    \A p : IsFiniteSet(Active(p)) /\ IsFiniteSet(Active(p)')
<1>1. \A p : Active(p) \subseteq Calls /\ Active(p)' \subseteq Calls
  BY DEF Active
<1> QED BY <1>1, FS_Subset, CallsAssumption

\* A step that moves no call into or out of "out" leaves the counted sets.
LEMMA ActiveKept ==
    ASSUME NEW c \in Calls, NEW place \in PC \ {"out"}, call \in [Calls -> PC],
           call[c] # "out", Go(c, place)
    PROVE  \A p : Active(p)' = Active(p)
BY DEF Active, Go

\* The initial state satisfies the inductive invariant.
LEMMA TickInitInv == TickInit => TickInv
<1> SUFFICES ASSUME TickInit PROVE TickInv OBVIOUS
<1>1. \A p : Active(p) = {} BY DEF TickInit, Active
<1>2. HeldExact BY <1>1, FS_EmptySet DEF HeldExact, TickInit
<1>3. HeldCapped BY SlotsBelowPool DEF HeldCapped, TickInit
<1>4. LockOwned BY DEF LockOwned, AtWork, TickInit
<1> QED BY <1>2, <1>3, <1>4 DEF TickInv, TickInit, PC

\* Every step keeps the inductive invariant.
LEMMA TickNextInv == TickInv /\ [TickNext]_tickVars => TickInv'
<1> SUFFICES ASSUME TickInv, [TickNext]_tickVars PROVE TickInv' OBVIOUS
<1> USE CallsAssumption, NobodyAssumption
<1>1. ASSUME NEW c \in Calls, Start(c) PROVE TickInv'
  <2> DEFINE p == Owner[c]
  <2>1. p \in Processes /\ c \notin Active(p)
    BY <1>1 DEF Start, Active
  <2>2. Active(p)' = Active(p) \cup {c}
    BY <1>1 DEF Start, Go, Active, TickInv
  <2>3. \A q \in Processes \ {p} : Active(q)' = Active(q)
    BY <1>1 DEF Start, Go, Active, TickInv
  <2>4. Cardinality(Active(p)') = Cardinality(Active(p)) + 1
    BY <2>1, <2>2, ActiveFinite, FS_AddElement
  <2>5. HeldExact'
    <3> SUFFICES ASSUME NEW q \in Processes PROVE  inUse'[q] = Cardinality(Active(q)')
      BY DEF HeldExact
    <3>1. CASE q = p
      BY <3>1, <2>1, <2>4, <1>1 DEF Start, TickInv, HeldExact
    <3>2. CASE q # p
      BY <3>2, <2>1, <2>3, <1>1 DEF Start, TickInv, HeldExact
    <3> QED BY <3>1, <3>2
  <2>6. HeldCapped'
    BY <1>1, <2>1, SlotsBelowPool DEF Start, TickInv, HeldCapped, Slots
  <2>7. LockOwned' BY <1>1 DEF Start, Go, TickInv, LockOwned, AtWork
  <2> QED BY <1>1, <2>1, <2>5, <2>6, <2>7 DEF Start, Go, TickInv, PC
<1>2. ASSUME NEW c \in Calls, NEW place \in PC \ {"out"}, Go(c, place), call[c] # "out",
             UNCHANGED inUse, lock' \in [Names -> Calls \cup {None}], LockOwned'
      PROVE  TickInv'
  <2>1. \A q : Active(q)' = Active(q) BY <1>2, ActiveKept DEF TickInv
  <2>2. HeldExact' BY <1>2, <2>1 DEF TickInv, HeldExact
  <2>3. HeldCapped' BY <1>2 DEF TickInv, HeldCapped, Slots
  <2> QED BY <1>2, <2>2, <2>3 DEF TickInv, Go
<1>3. ASSUME NEW c \in Calls, TryLock(c) PROVE TickInv'
  <2>1. LockOwned'
    <3>1. CASE lock[Name[c]] = None
      BY <1>3, <3>1 DEF TryLock, Go, TickInv, LockOwned, AtWork
    <3>2. CASE lock[Name[c]] # None
      BY <1>3, <3>2 DEF TryLock, Go, TickInv, LockOwned, AtWork
    <3> QED BY <3>1, <3>2
  <2>2. lock' \in [Names -> Calls \cup {None}] BY <1>3 DEF TryLock, TickInv
  <2>3. CASE Go(c, "working") BY <1>3, <1>2, <2>1, <2>2, <2>3 DEF TryLock, PC
  <2>4. CASE Go(c, "closing") BY <1>3, <1>2, <2>1, <2>2, <2>4 DEF TryLock, PC
  <2> QED BY <1>3, <2>3, <2>4 DEF TryLock
<1>4. ASSUME NEW c \in Calls, Close(c) PROVE TickInv'
  <2> DEFINE p == Owner[c]
  <2>1. p \in Processes /\ c \in Active(p)
    BY <1>4 DEF Close, Active
  <2>2. Active(p)' = Active(p) \ {c}
    BY <1>4 DEF Close, Go, Active, TickInv
  <2>3. \A q \in Processes \ {p} : Active(q)' = Active(q)
    BY <1>4 DEF Close, Go, Active, TickInv
  <2>4. /\ Cardinality(Active(p)') = Cardinality(Active(p)) - 1
        /\ Cardinality(Active(p)) \in Nat
    BY <2>1, <2>2, ActiveFinite, FS_RemoveElement, FS_CardinalityType
  <2>5. HeldExact'
    <3> SUFFICES ASSUME NEW q \in Processes PROVE  inUse'[q] = Cardinality(Active(q)')
      BY DEF HeldExact
    <3>1. CASE q = p
      BY <3>1, <2>1, <2>4, <1>4 DEF Close, TickInv, HeldExact
    <3>2. CASE q # p
      BY <3>2, <2>1, <2>3, <1>4 DEF Close, TickInv, HeldExact
    <3> QED BY <3>1, <3>2
  <2>6. HeldCapped'
    BY <1>4, <2>1, SlotsBelowPool DEF Close, TickInv, HeldCapped, Slots
  <2>7. LockOwned' BY <1>4 DEF Close, Go, TickInv, LockOwned, AtWork
  <2> QED BY <1>4, <2>1, <2>5, <2>6, <2>7 DEF Close, Go, TickInv, PC
<1>5. ASSUME NEW c \in Calls,
             Begin(c) \/ QueryAsked(c) \/ QueryStarts(c) \/ QueryEnds(c) \/ FnEnds(c)
      PROVE  TickInv'
  <2>1. PICK place \in PC \ {"out"} : Go(c, place) /\ (AtWork(c) \/ place = "asking")
    BY <1>5 DEF Begin, QueryAsked, QueryStarts, QueryEnds, FnEnds, AtWork, PC
  <2>2. call[c] # "out" /\ UNCHANGED <<inUse, lock, lost>>
    BY <1>5 DEF Begin, QueryAsked, QueryStarts, QueryEnds, FnEnds
  <2>3. LockOwned' BY <2>1, <2>2 DEF Go, TickInv, LockOwned, AtWork
  <2> QED BY <1>2, <2>1, <2>2, <2>3 DEF TickInv
<1>6. ASSUME NEW c \in Calls, LockConnectionLost(c) PROVE TickInv'
  <2>1. LockOwned' BY <1>6 DEF LockConnectionLost, TickInv, LockOwned, AtWork
  <2>2. \A q : Active(q)' = Active(q) BY <1>6 DEF LockConnectionLost, Active
  <2>3. HeldExact' /\ HeldCapped'
    BY <1>6, <2>2 DEF LockConnectionLost, TickInv, HeldExact, HeldCapped, Slots
  <2> QED BY <1>6, <2>1, <2>3 DEF LockConnectionLost, TickInv
<1>7. ASSUME UNCHANGED <<call, inUse, lock, lost>> PROVE TickInv'
  <2>1. \A q : Active(q)' = Active(q) BY <1>7 DEF Active
  <2> QED
    BY <1>7, <2>1 DEF TickInv, LockOwned, AtWork, HeldExact, HeldCapped, Slots
<1> QED
  BY <1>1, <1>3, <1>4, <1>5, <1>6, <1>7 DEF TickNext, tickVars, Request, RequestEnds

\* The inductive invariant holds of every reachable state.
THEOREM TickInvariant == TickSpec => []TickInv
BY TickInitInv, TickNextInv, PTL DEF TickSpec

\* Ticks of one name exclude each other while their connections live.
THEOREM TicksExclude == TickSpec => []OneTick
<1>1. TickInv => OneTick
  BY CallsAssumption DEF TickInv, LockOwned, OneTick
<1> QED BY TickInvariant, <1>1, PTL

\* The slot counter is exact: no path through the call leaks a slot.
THEOREM CounterExact == TickSpec => []HeldExact
<1>1. TickInv => HeldExact BY DEF TickInv
<1> QED BY TickInvariant, <1>1, PTL

\* A pool of two or more always has a connection no lock transaction pins.
THEOREM PoolHasRoom == TickSpec => []RoomToWork
<1>1. TickInv => RoomToWork
  <2> SUFFICES ASSUME TickInv, PoolMax >= 2, NEW p \in Processes
               PROVE  Cardinality(Pinning(p)) < PoolMax
    BY DEF RoomToWork
  <2>1. Pinning(p) \subseteq Active(p) BY DEF Pinning, Active
  <2>2. /\ Cardinality(Pinning(p)) <= Cardinality(Active(p))
        /\ IsFiniteSet(Pinning(p))
    BY <2>1, ActiveFinite, FS_Subset
  <2>3. Cardinality(Pinning(p)) \in Nat BY <2>2, FS_CardinalityType
  <2>4. inUse[p] \in Int /\ inUse[p] = Cardinality(Active(p)) /\ inUse[p] <= Slots
    BY DEF TickInv, HeldExact, HeldCapped
  <2> QED BY <2>2, <2>3, <2>4, SlotsBelowPool, PoolAssumption
<1> QED BY TickInvariant, <1>1, PTL

\* The calls that have the right to the tick of a name.
Ticking(n) == {c \in Calls : Name[c] = n /\ AtWork(c) /\ c \notin lost}

\* A step makes at most one call a tick at work, or no longer one.
LEMMA OneMoves ==
    ASSUME TickInv, [TickNext]_tickVars, NEW a \in Calls, NEW b \in Calls, a # b
    PROVE  \/ (AtWork(a) /\ a \notin lost) <=> (AtWork(a) /\ a \notin lost)'
           \/ (AtWork(b) /\ b \notin lost) <=> (AtWork(b) /\ b \notin lost)'
<1>1. ASSUME NEW c \in Calls,
             \/ Start(c) \/ Begin(c) \/ TryLock(c) \/ QueryAsked(c) \/ QueryStarts(c)
             \/ QueryEnds(c) \/ FnEnds(c) \/ Close(c) \/ LockConnectionLost(c)
      PROVE  \A d \in Calls \ {c} : call'[d] = call[d] /\ (d \in lost' <=> d \in lost)
  BY <1>1 DEF Start, Begin, TryLock, QueryAsked, QueryStarts, QueryEnds, FnEnds, Close,
     LockConnectionLost, Go, TickInv
<1>2. ASSUME UNCHANGED <<call, lost>>
      PROVE  (AtWork(a) /\ a \notin lost) <=> (AtWork(a) /\ a \notin lost)'
  BY <1>2 DEF AtWork
<1> QED BY <1>1, <1>2 DEF TickNext, tickVars, Request, RequestEnds, AtWork

\* At most one call has the right, before and after a step.
LEMMA OneTicking ==
    ASSUME LockOwned, NEW n \in Names, NEW a \in Ticking(n), NEW b \in Ticking(n) PROVE a = b
BY DEF LockOwned, Ticking

\* Every step is a step of Ownership, or none.
LEMMA TickOwnershipStep ==
    TickInv /\ TickInv' /\ [TickNext]_tickVars => [Ticks!Next]_[n \in Names |-> Ticking(n)]
<1> SUFFICES ASSUME TickInv, TickInv', [TickNext]_tickVars
             PROVE  LET owners == [n \in Names |-> Ticking(n)]
                    IN  /\ owners' \in [Names -> SUBSET Calls]
                        /\ \A n \in Names :
                             \/ owners'[n] = owners[n]
                             \/ owners[n] = {} /\ \E c \in Calls : owners'[n] = {c}
                             \/ (\E c \in Calls : owners[n] = {c}) /\ owners'[n] = {}
  BY DEF Ticks!Next, Ticks!Take, Ticks!Leave, Ticking
<1>1. \A n \in Names : Ticking(n) \subseteq Calls /\ Ticking(n)' \subseteq Calls
  BY DEF Ticking
<1>2. ASSUME NEW n \in Names
      PROVE  \/ Ticking(n)' = Ticking(n)
             \/ Ticking(n) = {} /\ \E c \in Calls : Ticking(n)' = {c}
             \/ (\E c \in Calls : Ticking(n) = {c}) /\ Ticking(n)' = {}
  <2>1. \A a, b \in Ticking(n) : a = b BY OneTicking DEF TickInv
  <2>2. \A a, b \in Ticking(n)' : a = b
    BY CallsAssumption DEF TickInv, LockOwned, Ticking
  <2>3. ASSUME NEW a \in Ticking(n), NEW b \in Ticking(n)' PROVE a = b
    <3> SUFFICES ASSUME a # b PROVE FALSE OBVIOUS
    <3>1. a \notin Ticking(n)' /\ b \notin Ticking(n) BY <2>1, <2>2, <2>3
    <3> QED BY <2>3, <3>1, OneMoves DEF Ticking
  <2>4. CASE Ticking(n) = {} BY <1>1, <2>2, <2>4
  <2>5. CASE Ticking(n) # {} BY <1>1, <2>1, <2>2, <2>3, <2>5
  <2> QED BY <2>4, <2>5
<1> QED BY <1>1, <1>2

\* withSchedulerLock() implements Ownership: the tick of a name is taken when no
\* call has it, and given up before another takes it.
THEOREM TicksRefine == TickSpec => TickOwnership
<1>1. TickInit => Ticks!Init BY DEF TickInit, Ticks!Init, AtWork
<1> QED
  BY <1>1, TickInvariant, TickOwnershipStep, PTL DEF TickSpec, TickOwnership,
     Ticks!Spec, Ticking

-----------------------------------------------------------------------------
(* ReplicaLock                                                             *)

\* The initial state satisfies the inductive invariant.
LEMMA InitInv == Init => LockInv
BY NoneAssumption, BoundsAssumption DEF Init, LockInv, TypeOK, Place, InOrder, Sent,
   Attached, GrantBacked, FlagBacked, Alone, Single, NoLostLock

-----------------------------------------------------------------------------
(* Every action keeps the inductive invariant.                             *)

\* reconcile() comes to an id that is provisioned.
LEMMA ProvisionedInv ==
    ASSUME LockInv, NEW t \in Passes, NEW i \in Ids, Provisioned(t, i) PROVE LockInv'
<1> USE HomeAssumption, NoneAssumption, BoundsAssumption DEF LockInv, database
<1>1. TypeOK' BY DEF Provisioned, Turn, Goto, TypeOK, Place
<1>2. InOrder' BY DEF Provisioned, Turn, Goto, InOrder, TypeOK, Sent, Executed
<1>3. Attached' BY DEF Provisioned, Turn, Goto, Attached
<1>4. GrantBacked' BY DEF Provisioned, Turn, Goto, GrantBacked
<1>5. FlagBacked' BY DEF Provisioned, Turn, Goto, FlagBacked, Leaving
<1>6. Alone' BY DEF Provisioned, Turn, Goto, Alone, Meets
<1>7. Single' BY DEF Provisioned, Turn, Single
<1>8. NoLostLock' BY DEF Provisioned, Turn, Goto, NoLostLock
<1> QED BY <1>1, <1>2, <1>3, <1>4, <1>5, <1>6, <1>7, <1>8

\* reconcile() comes to an id whose runner it has stopped.
LEMMA DeprovisionedInv ==
    ASSUME LockInv, NEW t \in Passes, NEW i \in Ids, Deprovisioned(t, i) PROVE LockInv'
<1> USE HomeAssumption, NoneAssumption, BoundsAssumption DEF LockInv, database
<1>1. TypeOK' BY DEF Deprovisioned, Turn, Goto, TypeOK, Place
<1>2. InOrder' BY DEF Deprovisioned, Turn, Goto, InOrder, TypeOK, Sent, Executed
<1>3. Attached' BY DEF Deprovisioned, Turn, Goto, Attached
<1>4. GrantBacked' BY DEF Deprovisioned, Turn, Goto, GrantBacked
<1>5. FlagBacked' BY DEF Deprovisioned, Turn, Goto, FlagBacked, Leaving
<1>6. Alone' BY DEF Deprovisioned, Turn, Goto, Alone, Meets
<1>7. Single' BY DEF Deprovisioned, Turn, Single
<1>8. NoLostLock' BY DEF Deprovisioned, Turn, Goto, NoLostLock
<1> QED BY <1>1, <1>2, <1>3, <1>4, <1>5, <1>6, <1>7, <1>8

\* tryAcquire() returns at once.
LEMMA SkipInv ==
    ASSUME LockInv, NEW t \in Passes, Skip(t) PROVE LockInv'
<1> USE HomeAssumption, NoneAssumption, BoundsAssumption DEF LockInv, database
<1>1. TypeOK' BY DEF Skip, Finish, Goto, Answered, TypeOK, Place
<1>2. InOrder' BY DEF Skip, Finish, Goto, Answered, InOrder, TypeOK, Sent, Executed
<1>3. Attached' BY DEF Skip, Finish, Goto, Attached
<1>4. GrantBacked'
  BY DEF Skip, Finish, Goto, Answered, GrantBacked, InOrder, Attached, TypeOK, Place,
     Sent, Executed
<1>5. FlagBacked' BY DEF Skip, Finish, Goto, FlagBacked, Leaving
<1>6. Alone' BY DEF Skip, Finish, Goto, Alone
<1>7. Single' BY DEF Skip, Single
<1>8. NoLostLock' BY DEF Skip, Finish, Goto, NoLostLock
<1> QED BY <1>1, <1>2, <1>3, <1>4, <1>5, <1>6, <1>7, <1>8

\* tryAcquire() sends its query, or asks for a connection first.
LEMMA AskInv ==
    ASSUME LockInv, NEW t \in Passes, Ask(t) PROVE LockInv'
<1> USE HomeAssumption, NoneAssumption, BoundsAssumption DEF LockInv, database
<1>1. TypeOK' BY DEF Ask, Goto, Query, Querying, TypeOK, Place
<1>2. InOrder' BY DEF Ask, Goto, Query, Querying, InOrder, TypeOK, Sent, Executed
<1>3. Attached' BY DEF Ask, Goto, Attached, TypeOK
<1>4. GrantBacked' BY DEF Ask, Goto, Query, GrantBacked, TypeOK
<1>5. FlagBacked' BY DEF Ask, Goto, FlagBacked, TypeOK, Leaving
<1>6. Alone' BY DEF Ask, Goto, Alone, TypeOK
<1>7. Single' BY DEF Ask, Single
<1>8. NoLostLock' BY DEF Ask, Goto, NoLostLock, TypeOK
<1> QED BY <1>1, <1>2, <1>3, <1>4, <1>5, <1>6, <1>7, <1>8

\* ensureReserved() gets its connection.
LEMMA ReserveInv ==
    ASSUME LockInv, NEW t \in Passes, Reserve(t) PROVE LockInv'
<1> USE HomeAssumption, NoneAssumption, BoundsAssumption DEF LockInv, database
<1>1. TypeOK' BY DEF Reserve, Goto, Query, Querying, TypeOK, Place
<1>2. InOrder' BY DEF Reserve, Goto, Query, Querying, InOrder, TypeOK, Sent, Executed
<1>3. Attached' BY DEF Reserve, Goto, Attached, TypeOK
<1>4. GrantBacked' BY DEF Reserve, Goto, Query, GrantBacked
<1>5. FlagBacked' BY DEF Reserve, Goto, FlagBacked, Attached, Leaving
<1>6. Alone' BY DEF Reserve, Goto, Alone
<1>7. Single' BY DEF Reserve, Single
<1>8. NoLostLock' BY DEF Reserve, Goto, NoLostLock
<1> QED BY <1>1, <1>2, <1>3, <1>4, <1>5, <1>6, <1>7, <1>8

\* ensureReserved() gets none.
LEMMA ReserveFailsInv ==
    ASSUME LockInv, NEW t \in Passes, ReserveFails(t) PROVE LockInv'
<1> USE HomeAssumption, NoneAssumption, BoundsAssumption DEF LockInv, database
<1>1. TypeOK' BY DEF ReserveFails, Finish, Goto, Answered, TypeOK, Place
<1>2. InOrder'
  BY DEF ReserveFails, Finish, Goto, Answered, InOrder, TypeOK, Sent, Executed
<1>3. Attached' BY DEF ReserveFails, Finish, Goto, Attached
<1>4. GrantBacked' BY DEF ReserveFails, Finish, Goto, Answered, GrantBacked
<1>5. FlagBacked' BY DEF ReserveFails, Finish, Goto, FlagBacked, Leaving
<1>6. Alone' BY DEF ReserveFails, Finish, Goto, Alone
<1>7. Single' BY DEF ReserveFails, Single
<1>8. NoLostLock' BY DEF ReserveFails, Finish, Goto, NoLostLock
<1> QED BY <1>1, <1>2, <1>3, <1>4, <1>5, <1>6, <1>7, <1>8

\* pg_try_advisory_lock runs. That the lock is had once where no passes
\* crossed rests on NoLostLock: who asks has neither the flag nor an answer.
LEMMA DecideInv ==
    ASSUME LockInv, NEW t \in Passes, Decide(t) PROVE LockInv'
<1> USE HomeAssumption, NoneAssumption, BoundsAssumption DEF LockInv, database
<1>1. TypeOK' BY DEF Decide, Finish, Goto, Answered, TypeOK, Place
<1>2. InOrder'
  BY DEF Decide, InTurn, Finish, Goto, Answered, InOrder, TypeOK, Place, Sent, Executed
<1>3. Attached' BY DEF Decide, Finish, Goto, Attached, TypeOK
<1>4. GrantBacked'
  BY DEF Decide, Granted, InTurn, Finish, Goto, Answered, GrantBacked, InOrder,
     Attached, TypeOK, Place, Sent, Executed
<1>5. FlagBacked'
  BY DEF Decide, Granted, InTurn, Finish, Goto, Answered, FlagBacked, GrantBacked,
     InOrder, Attached, TypeOK, Leaving, Place
<1>6. Alone' BY DEF Decide, Finish, Goto, Alone, TypeOK
<1>7. Single'
  <2>1. at[t] \in Ids BY DEF Decide, InOrder, TypeOK
  <2>2. owner[at[t]] = Home[t] => Home[t] \in crossed
    BY DEF Decide, NoLostLock, Alone, InOrder, TypeOK
  <2>3. owner[at[t]] = NoReplica => count[at[t]] = 0
    BY <2>1 DEF Attached
  <2> QED BY <2>2, <2>3 DEF Decide, Granted, Single, TypeOK
<1>8. NoLostLock' BY DEF Decide, Finish, Goto, NoLostLock, TypeOK
<1> QED BY <1>1, <1>2, <1>3, <1>4, <1>5, <1>6, <1>7, <1>8

\* The answer sets the flag: the lock is there unless a release waits behind
\* the answer, and then the replica is leaving.
LEMMA HoldInv ==
    ASSUME LockInv, NEW t \in Passes, Hold(t) PROVE LockInv'
<1> USE HomeAssumption, NoneAssumption, BoundsAssumption DEF LockInv, database
<1>1. TypeOK'
  <2>1. at[t] \in Ids BY DEF Hold, InOrder, TypeOK
  <2> QED BY <2>1 DEF Hold, Finish, Goto, Answered, TypeOK, Place
<1>2. InOrder' BY DEF Hold, Finish, Goto, Answered, InOrder, TypeOK, Sent, Executed
<1>3. Attached' BY DEF Hold, Finish, Goto, Attached
<1>4. GrantBacked' BY DEF Hold, Finish, Goto, Answered, GrantBacked, TypeOK
<1>5. FlagBacked'
  <2>1. at[t] \in Ids BY DEF Hold, InOrder, TypeOK
  <2>2. \A q \in Replicas, i \in Ids : Leaving(q, i) => Leaving(q, i)'
    BY DEF Hold, Finish, Goto, Leaving
  <2>3. owner[at[t]] = Home[t] \/ Leaving(Home[t], at[t])
    BY DEF Hold, GrantBacked, Attached, Leaving, TypeOK
  <2> QED BY <2>2, <2>3 DEF Hold, FlagBacked
<1>6. Alone' BY DEF Hold, Finish, Goto, Alone
<1>7. Single' BY DEF Hold, Single
<1>8. NoLostLock' BY DEF Hold, Finish, Goto, NoLostLock, Alone, Attached, TypeOK
<1> QED BY <1>1, <1>2, <1>3, <1>4, <1>5, <1>6, <1>7, <1>8

\* release() sends its query.
LEMMA ReleaseInv ==
    ASSUME LockInv, NEW t \in Passes, Release(t) PROVE LockInv'
<1> USE HomeAssumption, NoneAssumption, BoundsAssumption DEF LockInv, database
<1>1. TypeOK' BY DEF Release, Goto, Query, Querying, TypeOK, Place
<1>2. InOrder' BY DEF Release, Goto, Query, Querying, InOrder, TypeOK, Sent, Executed
<1>3. Attached' BY DEF Release, Goto, Attached
<1>4. GrantBacked' BY DEF Release, Goto, Query, GrantBacked
<1>5. FlagBacked' BY DEF Release, Goto, FlagBacked, Leaving
<1>6. Alone' BY DEF Release, Goto, Alone
<1>7. Single' BY DEF Release, Single
<1>8. NoLostLock' BY DEF Release, Goto, NoLostLock
<1> QED BY <1>1, <1>2, <1>3, <1>4, <1>5, <1>6, <1>7, <1>8

\* pg_advisory_unlock runs: grants that are still unanswered were sent
\* before it, so their answers come before its own.
LEMMA UnlockedInv ==
    ASSUME LockInv, NEW t \in Passes, Unlocked(t) PROVE LockInv'
<1> USE HomeAssumption, NoneAssumption, BoundsAssumption DEF LockInv, database
<1>1. TypeOK'
  <2>1. at[t] \in Ids BY DEF Unlocked, InOrder, TypeOK
  <2>2. owner[at[t]] = Home[t] => count[at[t]] - 1 \in Nat
    BY <2>1 DEF Attached, TypeOK
  <2>3. count' \in [Ids -> Nat] /\ owner' \in [Ids -> Replicas \cup {NoReplica}]
    BY <2>2 DEF Unlocked, Unlock, TypeOK
  <2> QED BY <2>3 DEF Unlocked, Goto, TypeOK, Place
<1>2. InOrder' BY DEF Unlocked, InTurn, Goto, InOrder, Sent, Executed
<1>3. Attached'
  <2>1. at[t] \in Ids BY DEF Unlocked, InOrder, TypeOK
  <2>2. CASE session[Home[t]] = "up" /\ owner[at[t]] = Home[t]
    <3>1. count[at[t]] \in Nat \ {0} BY <2>1, <2>2 DEF Attached, TypeOK
    <3>2. \A i \in Ids : owner'[i] = NoReplica => count'[i] = 0
      BY DEF Unlocked, Unlock, Attached, TypeOK
    <3>3. \A i \in Ids : owner'[i] # NoReplica => owner'[i] = owner[i] /\ count'[i] > 0
      BY DEF Unlocked, Unlock, Attached, TypeOK
    <3> QED BY <3>2, <3>3 DEF Unlocked, Goto, Attached
  <2>3. CASE ~(session[Home[t]] = "up" /\ owner[at[t]] = Home[t])
    BY <2>3 DEF Unlocked, Unlock, Goto, Attached
  <2> QED BY <2>2, <2>3
<1>4. GrantBacked'
  BY DEF Unlocked, Unlock, Goto, GrantBacked, InOrder, TypeOK, Sent, Executed
<1>5. FlagBacked' BY DEF Unlocked, Unlock, Goto, FlagBacked, TypeOK, Leaving
<1>6. Alone'
  <2>1. at[t] \in Ids BY DEF Unlocked, InOrder, TypeOK
  <2>2. Home[t] \notin crossed => owner'[at[t]] # Home[t]
    <3>1. CASE session[Home[t]] = "up" /\ owner[at[t]] = Home[t]
      BY <2>1, <3>1 DEF Unlocked, Unlock, Single, TypeOK
    <3>2. CASE owner[at[t]] # Home[t]
      BY <3>2 DEF Unlocked, Unlock
    <3> QED BY <2>1, <3>1, <3>2 DEF Attached
  <2>3. \A i \in Ids : owner'[i] \in {owner[i], NoReplica}
    BY DEF Unlocked, Unlock, TypeOK
  <2> SUFFICES ASSUME NEW u \in Passes, Home[u] \notin crossed, at[u] # NoId
               PROVE  /\ \A v \in Passes : Home[v] = Home[u] /\ at[v] = at[u] => v = u
                      /\ pc'[u] \in {"reserving", "asking"} => at[u] \notin held[Home[u]]
                      /\ pc'[u] = "dropping" => owner'[at[u]] # Home[u]
    BY DEF Unlocked, Alone
  <2>4. CASE u = t BY <2>2, <2>4 DEF Unlocked, Goto, Alone
  <2>5. CASE u # t
    <3>1. at[u] \in Ids /\ Home[u] \in Replicas /\ pc'[u] = pc[u]
      BY <2>5 DEF Unlocked, Goto, TypeOK
    <3> QED BY <2>3, <3>1 DEF Alone
  <2> QED BY <2>4, <2>5
<1>7. Single' BY DEF Unlocked, Unlock, Single, TypeOK
<1>8. NoLostLock' BY DEF Unlocked, Unlock, Goto, NoLostLock, TypeOK
<1> QED BY <1>1, <1>2, <1>3, <1>4, <1>5, <1>6, <1>7, <1>8

\* release() clears the flag.
LEMMA DropInv ==
    ASSUME LockInv, NEW t \in Passes, Drop(t) PROVE LockInv'
<1> USE HomeAssumption, NoneAssumption, BoundsAssumption DEF LockInv, database
<1>1. TypeOK' BY DEF Drop, Finish, Goto, Answered, TypeOK, Place
<1>2. InOrder' BY DEF Drop, Finish, Goto, Answered, InOrder, TypeOK, Sent, Executed
<1>3. Attached' BY DEF Drop, Finish, Goto, Attached
<1>4. GrantBacked' BY DEF Drop, Finish, Goto, Answered, GrantBacked
<1>5. FlagBacked' BY DEF Drop, Finish, Goto, FlagBacked, TypeOK, Leaving
<1>6. Alone' BY DEF Drop, Finish, Goto, Alone
<1>7. Single' BY DEF Drop, Single
<1>8. NoLostLock' BY DEF Drop, Finish, Goto, Answered, NoLostLock, Alone
<1> QED BY <1>1, <1>2, <1>3, <1>4, <1>5, <1>6, <1>7, <1>8

\* Queries on a dead connection fail and reset the reservation.
LEMMA AskFailsInv ==
    ASSUME LockInv, NEW p \in Replicas, AskFails(p) PROVE LockInv'
<1> USE HomeAssumption, NoneAssumption, BoundsAssumption DEF LockInv, database
<1>1. TypeOK' BY DEF AskFails, ResetReservation, Abort, Unanswered, TypeOK, Place
<1>2. InOrder' BY DEF AskFails, Abort, Unanswered, Querying, InOrder, Sent
<1>3. Attached' BY DEF AskFails, ResetReservation, Abort, Querying, Attached, TypeOK
<1>4. GrantBacked' BY DEF AskFails, Abort, Unanswered, Querying, GrantBacked, Attached
<1>5. FlagBacked'
  BY DEF AskFails, ResetReservation, Abort, Querying, FlagBacked, Leaving
<1>6. Alone' BY DEF AskFails, ResetReservation, Abort, Alone, Attached, TypeOK
<1>7. Single' BY DEF AskFails, Single
<1>8. NoLostLock' BY DEF AskFails, ResetReservation, Abort, Querying, NoLostLock
<1> QED BY <1>1, <1>2, <1>3, <1>4, <1>5, <1>6, <1>7, <1>8

\* stop() runs pg_advisory_unlock_all.
LEMMA StopInv ==
    ASSUME LockInv, NEW p \in Replicas, Stop(p) PROVE LockInv'
<1> USE HomeAssumption, NoneAssumption, BoundsAssumption DEF LockInv, database
<1>1. TypeOK' BY DEF Stop, UnlockAll, Free, TypeOK
<1>2. InOrder' BY DEF Stop, InOrder
<1>3. Attached' BY DEF Stop, UnlockAll, Free, Querying, Attached, Sent
<1>4. GrantBacked' BY DEF Stop, UnlockAll, Free, GrantBacked, InOrder, TypeOK
<1>5. FlagBacked' BY DEF Stop, UnlockAll, Free, FlagBacked, TypeOK, Leaving
<1>6. Alone' BY DEF Stop, UnlockAll, Free, Alone, TypeOK
<1>7. Single' BY DEF Stop, UnlockAll, Free, Single
<1>8. NoLostLock' BY DEF Stop, UnlockAll, Free, NoLostLock
<1> QED BY <1>1, <1>2, <1>3, <1>4, <1>5, <1>6, <1>7, <1>8

\* stop() ends.
LEMMA StoppedInv ==
    ASSUME LockInv, NEW p \in Replicas, Stopped(p) PROVE LockInv'
<1> USE HomeAssumption, NoneAssumption, BoundsAssumption DEF LockInv, database
<1>1. TypeOK' BY DEF Stopped, TypeOK
<1>2. InOrder' BY DEF Stopped, InOrder
<1>3. Attached' BY DEF Stopped, Querying, Attached, TypeOK
<1>4. GrantBacked' BY DEF Stopped, GrantBacked
<1>5. FlagBacked' BY DEF Stopped, FlagBacked, TypeOK, Leaving
<1>6. Alone' BY DEF Stopped, Alone
<1>7. Single' BY DEF Stopped, Single
<1>8. NoLostLock' BY DEF Stopped, NoLostLock, Attached
<1> QED BY <1>1, <1>2, <1>3, <1>4, <1>5, <1>6, <1>7, <1>8

\* A stopped process is replaced.
LEMMA RestartInv ==
    ASSUME LockInv, NEW p \in Replicas, Restart(p) PROVE LockInv'
<1> USE HomeAssumption, NoneAssumption, BoundsAssumption DEF LockInv, database
<1>1. TypeOK' BY DEF Restart, Forget, Unanswered, TypeOK, Place
<1>2. InOrder' BY DEF Restart, Forget, Unanswered, InOrder, Sent
<1>3. Attached' BY DEF Restart, Forget, Attached
<1>4. GrantBacked' BY DEF Restart, Forget, Unanswered, GrantBacked
<1>5. FlagBacked' BY DEF Restart, Forget, FlagBacked, Attached, Leaving
<1>6. Alone' BY DEF Restart, Forget, Alone
<1>7. Single' BY DEF Restart, Single, Attached
<1>8. NoLostLock' BY DEF Restart, Forget, NoLostLock, Attached
<1> QED BY <1>1, <1>2, <1>3, <1>4, <1>5, <1>6, <1>7, <1>8

\* A process dies and is replaced.
LEMMA CrashInv ==
    ASSUME LockInv, NEW p \in Replicas, Crash(p) PROVE LockInv'
<1> USE HomeAssumption, NoneAssumption, BoundsAssumption DEF LockInv, database
<1>1. TypeOK' BY DEF Crash, ResetReservation, Free, Forget, Unanswered, TypeOK, Place
<1>2. InOrder' BY DEF Crash, Forget, Unanswered, InOrder, Sent
<1>3. Attached' BY DEF Crash, ResetReservation, Free, Forget, Attached, TypeOK
<1>4. GrantBacked' BY DEF Crash, Free, Forget, Unanswered, GrantBacked, InOrder, TypeOK
<1>5. FlagBacked'
  BY DEF Crash, ResetReservation, Free, Forget, FlagBacked, TypeOK, Leaving
<1>6. Alone' BY DEF Crash, ResetReservation, Free, Forget, Alone, TypeOK
<1>7. Single' BY DEF Crash, Free, Single
<1>8. NoLostLock' BY DEF Crash, ResetReservation, Free, Forget, NoLostLock
<1> QED BY <1>1, <1>2, <1>3, <1>4, <1>5, <1>6, <1>7, <1>8

\* The connection dies, noticed or not.
LEMMA ConnectionLostInv ==
    ASSUME LockInv, NEW p \in Replicas, ConnectionLost(p) PROVE LockInv'
<1> USE HomeAssumption, NoneAssumption, BoundsAssumption DEF LockInv, database
<1>1. TypeOK'
  BY DEF ConnectionLost, Free, ResetReservation, Abort, Unanswered, TypeOK, Place
<1>2. InOrder' BY DEF ConnectionLost, Querying, Abort, Unanswered, InOrder, Sent
<1>3. Attached'
  BY DEF ConnectionLost, Querying, Free, ResetReservation, Abort, Attached, TypeOK
<1>4. GrantBacked'
  BY DEF ConnectionLost, Querying, Free, Abort, Unanswered, GrantBacked, InOrder, TypeOK
<1>5. FlagBacked'
  <2> SUFFICES ASSUME NEW q \in Replicas, NEW i \in Ids, i \in held'[q],
                      session'[q] = "up", ~Leaving(q, i)'
               PROVE  owner'[i] = q
    BY DEF FlagBacked
  <2>1. q # p
    BY DEF ConnectionLost, ResetReservation, TypeOK
  <2>2. i \in held[q] /\ session[q] = "up"
    BY DEF ConnectionLost, ResetReservation, TypeOK
  <2>3. ~Leaving(q, i)
    BY DEF ConnectionLost, Abort, Querying, Leaving
  <2> QED BY <2>1, <2>2, <2>3 DEF ConnectionLost, Free, FlagBacked
<1>6. Alone' BY DEF ConnectionLost, Free, ResetReservation, Abort, Alone, TypeOK
<1>7. Single' BY DEF ConnectionLost, Free, Single
<1>8. NoLostLock'
  BY DEF ConnectionLost, Querying, Free, ResetReservation, Abort, NoLostLock, TypeOK
<1> QED BY <1>1, <1>2, <1>3, <1>4, <1>5, <1>6, <1>7, <1>8

\* Every step keeps the inductive invariant.
LEMMA NextInv == LockInv /\ [Next]_vars => LockInv'
<1> SUFFICES ASSUME LockInv, [Next]_vars PROVE LockInv' OBVIOUS
<1>1. CASE UNCHANGED vars
  BY <1>1 DEF vars, LockInv, TypeOK, InOrder, Attached, GrantBacked, FlagBacked,
     Leaving, Alone, Single, NoLostLock
<1>2. CASE Next
  BY <1>2, ProvisionedInv, DeprovisionedInv, SkipInv, AskInv, ReserveInv,
     ReserveFailsInv, DecideInv, HoldInv, ReleaseInv, UnlockedInv, DropInv, AskFailsInv,
     StopInv, StoppedInv, RestartInv, CrashInv, ConnectionLostInv DEF Next
<1> QED BY <1>1, <1>2

\* The inductive invariant holds of every reachable state.
THEOREM LockInvariant == Spec => []LockInv
BY InitInv, NextInv, PTL DEF Spec

\* A session's lock belongs to a manager that knows of it and will release it,
\* unless two passes of the replica crossed at the id.
THEOREM NoneLost == Spec => []NoLostLock
<1>1. LockInv => NoLostLock BY DEF LockInv
<1> QED BY LockInvariant, <1>1, PTL

-----------------------------------------------------------------------------
(* The refinement of Ownership.                                            *)

\* A replica that answers with good reason has the server's lock, so no two do.
LEMMA AnsweringOwns == LockInv => \A i \in Ids : Answering(i) \subseteq {owner[i]}
BY DEF LockInv, TypeOK, Attached, FlagBacked, Answering

\* The server's lock does not pass from one session to another in one step.
LEMMA OwnerFreed ==
    ASSUME LockInv, [Next]_vars
    PROVE  \A i \in Ids : owner'[i] = owner[i] \/ owner[i] = NoReplica \/ owner'[i] = NoReplica
<1>1. ASSUME NEW t \in Passes, Decide(t)
      PROVE  \A i \in Ids : owner'[i] = owner[i] \/ owner[i] = NoReplica
  BY <1>1 DEF Decide, Granted, database, LockInv, TypeOK
<1>2. ASSUME NEW t \in Passes, Unlocked(t)
      PROVE  \A i \in Ids : owner'[i] \in {owner[i], NoReplica}
  BY <1>2 DEF Unlocked, Unlock, database, LockInv, TypeOK
<1>3. ASSUME NEW p \in Replicas, Free(p)
      PROVE  \A i \in Ids : owner'[i] \in {owner[i], NoReplica}
  BY <1>3 DEF Free
<1>4. \/ UNCHANGED owner
      \/ \E t \in Passes : Decide(t) \/ Unlocked(t)
      \/ \E p \in Replicas : Free(p)
  BY DEF Next, vars, database, Provisioned, Deprovisioned, Turn, Skip, Ask, Reserve,
     ReserveFails, Hold, Release, Drop, AskFails, Stop, UnlockAll, Stopped, Restart,
     Crash, ConnectionLost
<1> QED BY <1>1, <1>2, <1>3, <1>4

\* Every step of the managers takes rights that are free, gives rights up, or
\* leaves the owners as they are.
LEMMA OwnershipStep ==
    LockInv /\ LockInv' /\ [Next]_vars => [Chat!Next]_([i \in Ids |-> Answering(i)])
<1> SUFFICES ASSUME LockInv, LockInv', [Next]_vars PROVE Chat!Next OBVIOUS
<1> DEFINE own == [i \in Ids |-> Answering(i)]
<1>1. own' \in [Ids -> SUBSET Replicas] BY DEF Answering
<1>2. (LockInv => \A i \in Ids : Answering(i) \subseteq {owner[i]})'
  BY AnsweringOwns, PTL
<1>3. ASSUME NEW i \in Ids
      PROVE  own'[i] = own[i] \/ (own[i] = {} /\ \E h \in Replicas : own'[i] = {h})
             \/ ((\E h \in Replicas : own[i] = {h}) /\ own'[i] = {})
  <2>1. Answering(i) \subseteq {owner[i]} /\ Answering(i)' \subseteq {owner'[i]}
    BY <1>2, AnsweringOwns
  <2>2. Answering(i) \subseteq Replicas /\ Answering(i)' \subseteq Replicas
    BY DEF Answering
  <2>3. owner'[i] = owner[i] \/ owner[i] = NoReplica \/ owner'[i] = NoReplica
    BY OwnerFreed
  <2> QED BY <2>1, <2>2, <2>3, NoneAssumption
<1> QED BY <1>1, <1>3 DEF Chat!Next, Chat!Take, Chat!Leave

\* The managers implement Ownership: a right to answer chats has one owner, who
\* takes it when it is free and gives it up or loses it before another takes it.
THEOREM Refines == Spec => ImplementsOwnership
<1>1. Init => Chat!Init BY DEF Init, Chat!Init, Answering
<1> QED
  BY <1>1, LockInvariant, OwnershipStep, PTL DEF Spec, ImplementsOwnership, Chat!Spec
=============================================================================
