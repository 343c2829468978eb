----------------------- MODULE WebhookDeliveryProofs -----------------------
(***************************************************************************)
(* The webhook worker for any number of webhooks, events and replicas: an  *)
(* event is taken once unless its success is not recorded or the lock was  *)
(* lost, and no delivery is given up early.                                *)
(***************************************************************************)
EXTENDS WebhookDelivery, TLAPS

\* The initial state satisfies the inductive invariant.
LEMMA InitInv == Init => DeliveryInv
<1> SUFFICES ASSUME Init PROVE DeliveryInv OBVIOUS
<1>1. TypeOK
  <2>1. overlap \in BOOLEAN BY DEF Init
  <2>2. tries \in [Deliveries -> 0 .. MaxAttempts] /\ edits \in 0 .. MaxEdits /\ faults \in 0 .. MaxFaults
    BY BoundsAssumption DEF Init
  <2> QED BY <2>2 DEF Init, TypeOK
<1>2. InHand /\ Locked /\ Rows BY DEF Init, InHand, Locked, Rows
<1>3. PostBalance /\ PostOnce
  BY DEF Init, PostBalance, PostOnce
<1>4. Outcome /\ GivenUpLast BY DEF Init, Outcome, GivenUpLast
<1> QED BY <1>1, <1>2, <1>3, <1>4 DEF DeliveryInv

-----------------------------------------------------------------------------
(* Every action keeps the inductive invariant.                             *)

\* emit() queues an event.
LEMMA EmitInv ==
    ASSUME DeliveryInv, NEW e \in Events, Emit(e) PROVE DeliveryInv'
<1> USE WantsAssumption, NoneAssumption, BoundsAssumption DEF DeliveryInv, Deliveries
<1>1. TypeOK' BY DEF Emit, drainVars, TypeOK
<1>2. InHand' BY DEF Emit, drainVars, InHand
<1>3. Locked' BY DEF Emit, drainVars, Locked
<1>4. Rows' BY DEF Emit, drainVars, Rows
<1>5. PostBalance' BY DEF Emit, Queued, drainVars, PostBalance, Unposted, Rows
<1>6. PostOnce' BY DEF Emit, drainVars, PostOnce
<1>7. Outcome' BY DEF Emit, drainVars, Outcome
<1>8. GivenUpLast' BY DEF Emit, GivenUpLast
<1> QED BY <1>1, <1>2, <1>3, <1>4, <1>5, <1>6, <1>7, <1>8

\* A webhook is paused or resumed.
LEMMA ToggleInv ==
    ASSUME DeliveryInv, NEW w \in Webhooks, Toggle(w) PROVE DeliveryInv'
<1> USE WantsAssumption, NoneAssumption, BoundsAssumption DEF DeliveryInv, Deliveries
<1>1. TypeOK' BY DEF Toggle, drainVars, TypeOK
<1>2. InHand' BY DEF Toggle, drainVars, InHand
<1>3. Locked' BY DEF Toggle, drainVars, Locked
<1>4. Rows' BY DEF Toggle, drainVars, Rows
<1>5. PostBalance' BY DEF Toggle, drainVars, PostBalance, Unposted
<1>6. PostOnce' BY DEF Toggle, drainVars, PostOnce
<1>7. Outcome' BY DEF Toggle, drainVars, Outcome
<1>8. GivenUpLast' BY DEF Toggle, GivenUpLast
<1> QED BY <1>1, <1>2, <1>3, <1>4, <1>5, <1>6, <1>7, <1>8

\* A webhook is deleted with its rows.
LEMMA DeleteInv ==
    ASSUME DeliveryInv, NEW w \in Webhooks, Delete(w) PROVE DeliveryInv'
<1> USE WantsAssumption, NoneAssumption, BoundsAssumption DEF DeliveryInv, Deliveries
<1>1. TypeOK' BY DEF Delete, drainVars, TypeOK
<1>2. InHand' BY DEF Delete, drainVars, InHand
<1>3. Locked' BY DEF Delete, drainVars, Locked
<1>4. Rows' BY DEF Delete, drainVars, Rows, TypeOK
<1>5. PostBalance' BY DEF Delete, drainVars, PostBalance, Unposted
<1>6. PostOnce' BY DEF Delete, drainVars, PostOnce
<1>7. Outcome' BY DEF Delete, drainVars, Outcome
<1>8. GivenUpLast' BY DEF Delete, GivenUpLast
<1> QED BY <1>1, <1>2, <1>3, <1>4, <1>5, <1>6, <1>7, <1>8

\* A backoff is over.
LEMMA DueInv ==
    ASSUME DeliveryInv, NEW d \in Deliveries, Due(d) PROVE DeliveryInv'
<1> USE WantsAssumption, NoneAssumption, BoundsAssumption DEF DeliveryInv, Deliveries
<1>1. TypeOK' BY DEF Due, drainVars, TypeOK
<1>2. InHand' BY DEF Due, drainVars, InHand
<1>3. Locked' BY DEF Due, drainVars, Locked
<1>4. Rows' BY DEF Due, drainVars, Rows
<1>5. PostBalance' BY DEF Due, drainVars, PostBalance, Unposted
<1>6. PostOnce' BY DEF Due, drainVars, PostOnce
<1>7. Outcome' BY DEF Due, drainVars, Outcome
<1>8. GivenUpLast' BY DEF Due, GivenUpLast
<1> QED BY <1>1, <1>2, <1>3, <1>4, <1>5, <1>6, <1>7, <1>8

\* A tick selects due rows: none of them has a request that was taken, as
\* nobody else drains.
LEMMA TickInv ==
    ASSUME DeliveryInv, NEW r \in Replicas, Tick(r) PROVE DeliveryInv'
<1> USE WantsAssumption, NoneAssumption, BoundsAssumption DEF DeliveryInv, Deliveries
<1>1. TypeOK' BY DEF Tick, Selectable, Work, TypeOK
<1>2. InHand' BY DEF Tick, MayTick, InHand, TypeOK, NoWork
<1>3. Locked' BY DEF Tick, MayTick, Locked
<1>4. Rows' BY DEF Tick, Selectable, Rows
<1>5. PostBalance'
  BY DEF Tick, MayTick, Selectable, Work, PostBalance, Unposted, Locked, InHand, Rows,
     TypeOK
<1>6. PostOnce' BY DEF Tick, PostOnce
<1>7. Outcome' BY DEF Tick, Outcome
<1>8. GivenUpLast' BY DEF Tick, GivenUpLast
<1> QED BY <1>1, <1>2, <1>3, <1>4, <1>5, <1>6, <1>7, <1>8

\* The lock's connection dies.
LEMMA LoseLockInv ==
    ASSUME DeliveryInv, NEW r \in Replicas, LoseLock(r) PROVE DeliveryInv'
<1> USE WantsAssumption, NoneAssumption, BoundsAssumption DEF DeliveryInv, Deliveries
<1>1. TypeOK' BY DEF LoseLock, TypeOK
<1>2. InHand' BY DEF LoseLock, InHand
<1>3. Locked' BY DEF LoseLock, Locked
<1>4. Rows' BY DEF LoseLock, Rows
<1>5. PostBalance' BY DEF LoseLock, PostBalance
<1>6. PostOnce' BY DEF LoseLock, PostOnce
<1>7. Outcome' BY DEF LoseLock, Outcome
<1>8. GivenUpLast' BY DEF LoseLock, GivenUpLast
<1> QED BY <1>1, <1>2, <1>3, <1>4, <1>5, <1>6, <1>7, <1>8

\* attemptOne() reads the webhook.
LEMMA BeginInv ==
    ASSUME DeliveryInv, NEW r \in Replicas, Begin(r) PROVE DeliveryInv'
<1> USE WantsAssumption, NoneAssumption, BoundsAssumption DEF DeliveryInv, Deliveries
<1>1. TypeOK' BY DEF Begin, TypeOK
<1>2. InHand' BY DEF Begin, InHand, TypeOK
<1>3. Locked' BY DEF Begin, Locked
<1>4. Rows' BY DEF Begin, Rows, TypeOK
<1>5. PostBalance' BY DEF Begin, PostBalance, Unposted
<1>6. PostOnce' BY DEF Begin, PostOnce
<1>7. Outcome' BY DEF Begin, Work, Outcome, Rows, TypeOK
<1>8. GivenUpLast' BY DEF Begin, GivenUpLast
<1> QED BY <1>1, <1>2, <1>3, <1>4, <1>5, <1>6, <1>7, <1>8

\* The receiver answers 2xx.
LEMMA PostInv ==
    ASSUME DeliveryInv, NEW r \in Replicas, Post(r) PROVE DeliveryInv'
<1> USE WantsAssumption, NoneAssumption, BoundsAssumption DEF DeliveryInv, Deliveries
<1>1. TypeOK' BY DEF Post, Work, TypeOK, InHand
<1>2. InHand' BY DEF Post, InHand
<1>3. Locked' BY DEF Post, Locked
<1>4. Rows' BY DEF Post, Rows
<1>5. PostBalance'
  <2> DEFINE d == cur[r][1]
  <2>1. d \in Deliveries BY DEF Post, InHand, Work
  <2>2. ~overlap => \A q \in Replicas : Unposted(q, d)' => FALSE
    BY <2>1 DEF Post, Unposted, Locked, InHand, TypeOK, NoWork
  <2>3. posts'[d] = posts[d] + 1 /\ \A c \in Deliveries \ {d} : posts'[c] = posts[c]
    BY <2>1 DEF Post, TypeOK
  <2>4. at'[r] = "taken" /\ cur'[r][1] = d BY DEF Post, TypeOK
  <2>5. \A q \in Replicas, c \in Deliveries \ {d} :
           /\ Unposted(q, c)' => Unposted(q, c)
           /\ at[q] = "taken" /\ cur[q][1] = c => at'[q] = "taken" /\ cur'[q][1] = c
    BY DEF Post, Unposted
  <2> QED BY <2>2, <2>4, <2>5 DEF Post, PostBalance
<1>6. PostOnce' BY DEF Post, Work, PostOnce, PostBalance, Unposted, InHand, TypeOK
<1>7. Outcome' BY DEF Post, Work, Outcome, InHand, TypeOK
<1>8. GivenUpLast' BY DEF Post, GivenUpLast, TypeOK
<1> QED BY <1>1, <1>2, <1>3, <1>4, <1>5, <1>6, <1>7, <1>8

\* The receiver refuses.
LEMMA PostFailsInv ==
    ASSUME DeliveryInv, NEW r \in Replicas, PostFails(r) PROVE DeliveryInv'
<1> USE WantsAssumption, NoneAssumption, BoundsAssumption DEF DeliveryInv, Deliveries
<1>1. TypeOK' BY DEF PostFails, TypeOK
<1>2. InHand' BY DEF PostFails, InHand
<1>3. Locked' BY DEF PostFails, Locked
<1>4. Rows' BY DEF PostFails, Rows
<1>5. PostBalance' BY DEF PostFails, PostBalance, Unposted
<1>6. PostOnce' BY DEF PostFails, PostOnce
<1>7. Outcome' BY DEF PostFails, Outcome
<1>8. GivenUpLast' BY DEF PostFails, GivenUpLast
<1> QED BY <1>1, <1>2, <1>3, <1>4, <1>5, <1>6, <1>7, <1>8

\* The receiver takes the event and the answer is lost.
LEMMA PostUnsureInv ==
    ASSUME DeliveryInv, NEW r \in Replicas, PostUnsure(r) PROVE DeliveryInv'
<1> USE WantsAssumption, NoneAssumption, BoundsAssumption DEF DeliveryInv, Deliveries
<1>1. TypeOK' BY DEF PostUnsure, Work, TypeOK, InHand
<1>2. InHand' BY DEF PostUnsure, InHand
<1>3. Locked' BY DEF PostUnsure, Locked
<1>4. Rows' BY DEF PostUnsure, Rows
<1>5. PostBalance' BY DEF PostUnsure, PostBalance, Unposted, TypeOK
<1>6. PostOnce' BY DEF PostUnsure, PostOnce, TypeOK
<1>7. Outcome' BY DEF PostUnsure, Outcome, TypeOK
<1>8. GivenUpLast' BY DEF PostUnsure, GivenUpLast, TypeOK
<1> QED BY <1>1, <1>2, <1>3, <1>4, <1>5, <1>6, <1>7, <1>8

\* attemptOne() records the outcome.
LEMMA RecordInv ==
    ASSUME DeliveryInv, NEW r \in Replicas, Record(r) PROVE DeliveryInv'
<1> USE WantsAssumption, NoneAssumption, BoundsAssumption DEF DeliveryInv, Deliveries
<1>1. TypeOK' BY DEF Record, After, Work, TypeOK, InHand
<1>2. InHand' BY DEF Record, Work, NoWork, InHand, TypeOK
<1>3. Locked' BY DEF Record, Locked
<1>4. Rows' BY DEF Record, After, Rows, TypeOK
<1>5. PostBalance' BY DEF Record, After, NoWork, PostBalance, Unposted, TypeOK
<1>6. PostOnce' BY DEF Record, PostOnce
<1>7. Outcome' BY DEF Record, Outcome, TypeOK
<1>8. GivenUpLast' BY DEF Record, After, Work, GivenUpLast, Outcome, InHand, TypeOK
<1> QED BY <1>1, <1>2, <1>3, <1>4, <1>5, <1>6, <1>7, <1>8

\* A drain is through with its batch.
LEMMA DrainEndsInv ==
    ASSUME DeliveryInv, NEW r \in Replicas, DrainEnds(r) PROVE DeliveryInv'
<1> USE WantsAssumption, NoneAssumption, BoundsAssumption DEF DeliveryInv, Deliveries
<1>1. TypeOK' BY DEF DrainEnds, Unlocked, TypeOK
<1>2. InHand' BY DEF DrainEnds, InHand
<1>3. Locked' BY DEF DrainEnds, Locked, TypeOK
<1>4. Rows' BY DEF DrainEnds, Rows
<1>5. PostBalance' BY DEF DrainEnds, PostBalance, Unposted
<1>6. PostOnce' BY DEF DrainEnds, PostOnce
<1>7. Outcome' BY DEF DrainEnds, Outcome
<1>8. GivenUpLast' BY DEF DrainEnds, GivenUpLast
<1> QED BY <1>1, <1>2, <1>3, <1>4, <1>5, <1>6, <1>7, <1>8

\* A drain dies or throws.
LEMMA DrainLostInv ==
    ASSUME DeliveryInv, NEW r \in Replicas, DrainLost(r) PROVE DeliveryInv'
<1> USE WantsAssumption, NoneAssumption, BoundsAssumption DEF DeliveryInv, Deliveries
<1>1. TypeOK' BY DEF DrainLost, Unlocked, Work, TypeOK, InHand
<1>2. InHand' BY DEF DrainLost, InHand, TypeOK
<1>3. Locked' BY DEF DrainLost, Locked, TypeOK
<1>4. Rows' BY DEF DrainLost, Rows, TypeOK
<1>5. PostBalance'
  <2>1. CASE at[r] = "taken"
    <3> DEFINE d == cur[r][1]
    <3>1. d \in Deliveries BY <2>1 DEF InHand, Work
    <3>2. slips'[d] = slips[d] + 1 /\ \A c \in Deliveries \ {d} : slips'[c] = slips[c]
      BY <2>1, <3>1 DEF DrainLost, TypeOK
    <3>3. ~overlap => posts[d] =< 1 + slips[d] BY <3>1 DEF PostOnce
    <3>4. posts[d] \in Nat /\ slips[d] \in Nat BY <3>1 DEF TypeOK
    <3>5. \A q \in Replicas, c \in Deliveries : Unposted(q, c)' => Unposted(q, c)
      BY DEF DrainLost, Unposted, TypeOK, NoWork
    <3>6. \A q \in Replicas, c \in Deliveries \ {d} :
             at[q] = "taken" /\ cur[q][1] = c => at'[q] = "taken" /\ cur'[q][1] = c
      BY DEF DrainLost
    <3> QED BY <3>2, <3>3, <3>4, <3>5 DEF DrainLost, PostBalance
  <2>2. CASE at[r] # "taken"
    BY <2>2 DEF DrainLost, PostBalance, Unposted, NoWork
  <2> QED BY <2>1, <2>2
<1>6. PostOnce' BY DEF DrainLost, PostOnce, TypeOK
<1>7. Outcome' BY DEF DrainLost, Outcome, TypeOK
<1>8. GivenUpLast' BY DEF DrainLost, GivenUpLast
<1> QED BY <1>1, <1>2, <1>3, <1>4, <1>5, <1>6, <1>7, <1>8

\* Every step keeps the inductive invariant.
LEMMA NextInv == DeliveryInv /\ [Next]_vars => DeliveryInv'
<1> SUFFICES ASSUME DeliveryInv, [Next]_vars PROVE DeliveryInv' OBVIOUS
<1>1. CASE UNCHANGED vars
  BY <1>1 DEF vars, drainVars, DeliveryInv, TypeOK, InHand, Locked, Rows, PostBalance,
     Unposted, PostOnce, Outcome, GivenUpLast
<1>2. CASE Next
  BY <1>2, EmitInv, ToggleInv, DeleteInv, DueInv, TickInv, LoseLockInv, BeginInv,
     PostInv, PostFailsInv, PostUnsureInv, RecordInv, DrainEndsInv, DrainLostInv DEF
     Next, Advance
<1> QED BY <1>1, <1>2

\* The inductive invariant holds of every reachable state.
THEOREM DeliveryInvariant == Spec => []DeliveryInv
BY InitInv, NextInv, PTL DEF Spec

\* A receiver takes an event once, but for successes that were not recorded, as
\* long as the scheduler lock keeps the drains apart.
THEOREM PostsOnce == Spec => []PostOnce
<1>1. DeliveryInv => PostOnce BY DEF DeliveryInv
<1> QED BY DeliveryInvariant, <1>1, PTL

\* A delivery nobody took is given up only after its last attempt or because its
\* webhook was paused, also while drains overlap.
THEOREM GivesUpLast == Spec => []GivenUpLast
<1>1. DeliveryInv => GivenUpLast BY DEF DeliveryInv
<1> QED BY DeliveryInvariant, <1>1, PTL
=============================================================================
