----------------------- MODULE OutboundDeliveryProofs -----------------------
(***************************************************************************)
(* Outbound delivery for any number of rows, replicas and operators: what  *)
(* leaves twice, what a row's status is worth, and the hourly limit.       *)
(***************************************************************************)
EXTENDS OutboundDelivery, FiniteSetTheorems, TLAPS

\* The rows the limit counts are finitely many, and so is every subset of them.
LEMMA CountedFinite ==
    ASSUME OutboundInv, NEW S \in SUBSET Counted
    PROVE  /\ IsFiniteSet(Counted) /\ IsFiniteSet(S)
           /\ Cardinality(Counted) \in Nat /\ Cardinality(S) \in Nat
           /\ Cardinality(S) <= Cardinality(Counted)
<1>1. Counted \subseteq Deliveries BY DEF OutboundInv, TypeOK, Counted
<1>2. IsFiniteSet(Counted) BY <1>1, DeliveriesAssumption, FS_Subset
<1> QED BY <1>2, FS_Subset, FS_CardinalityType

\* The initial state satisfies the inductive invariant.
LEMMA InitInv == Init => OutboundInv
<1> SUFFICES ASSUME Init PROVE OutboundInv OBVIOUS
<1> USE NoneAssumption, BoundsAssumption DEF Init
<1>1. TypeOK BY DEF TypeOK, PC
<1>2. Guarded /\ Unsent /\ Left /\ Backed BY DEF Guarded, Hands, Unsent, Left, Backed
<1>3. StatusEarned /\ NeverStranded BY DEF StatusEarned, NeverStranded
<1>4. Room
  <2>1. Counted = {} BY DEF Counted
  <2>2. Cardinality({}) = 0 BY FS_EmptySet
  <2> QED BY <2>1, <2>2 DEF Room
<1> QED BY <1>1, <1>2, <1>3, <1>4 DEF OutboundInv

-----------------------------------------------------------------------------
(* Every action keeps the inductive invariant.                             *)

\* A row is queued: no tick has it in hand.
LEMMA EnqueueInv ==
    ASSUME OutboundInv, NEW d \in Deliveries, Enqueue(d) PROVE OutboundInv'
<1> USE NoneAssumption, BoundsAssumption DEF OutboundInv
<1>1. TypeOK' BY DEF Enqueue, ticks, truth, TypeOK
<1>2. Guarded' BY DEF Enqueue, ticks, truth, Guarded, Hands
<1>3. Unsent' BY DEF Enqueue, ticks, truth, Unsent
<1>4. Left' BY DEF Enqueue, ticks, truth, Left
<1>5. Backed' BY DEF Enqueue, ticks, truth, Backed
<1>6. StatusEarned' BY DEF Enqueue, truth, StatusEarned
<1>7. NeverStranded' BY DEF Enqueue, truth, NeverStranded, TypeOK, Backed
<1>8. Room'
  <2>1. \A d0 \in Deliveries : fresh'[d0] <= sends'[d0]
    BY DEF Room, Enqueue, truth
  <2>2. ASSUME PerHour > 0, doubted' = {} PROVE doubted = {} 
    BY <2>2 DEF Enqueue, truth
  <2>3. ASSUME PerHour > 0, doubted' = {} PROVE Counted' = Counted
    BY DEF Counted, Enqueue
  <2>4. ASSUME PerHour > 0, doubted' = {}, NEW d0 \in Deliveries, fresh'[d0] # 0
        PROVE  d0 \in Counted' \/ \E s \in Replicas : pc'[s] = "recording" /\ cur'[s] = d0
    BY <2>3, <2>4 DEF Room, Enqueue, ticks, truth
  <2>5. ASSUME PerHour > 0, doubted' = {} PROVE Cardinality(Counted') <= PerHour
    BY <2>2, <2>3, <2>5 DEF Room
  <2>6. ASSUME PerHour > 0, doubted' = {}, NEW s \in Replicas,
               pc'[s] \in {"sending", "recording"}
        PROVE  Cardinality(Counted') < PerHour
    BY <2>3, <2>6 DEF Room, Enqueue, ticks, truth
  <2> QED BY <2>1, <2>4, <2>5, <2>6 DEF Room
<1> QED BY <1>1, <1>2, <1>3, <1>4, <1>5, <1>6, <1>7, <1>8

\* A retry reads.
LEMMA RetryReadInv ==
    ASSUME OutboundInv, NEW o \in Operators, NEW d \in Deliveries, RetryRead(o, d) PROVE OutboundInv'
<1> USE NoneAssumption, BoundsAssumption DEF OutboundInv
<1>1. TypeOK' BY DEF RetryRead, columns, ticks, truth, TypeOK
<1>2. Guarded' BY DEF RetryRead, columns, ticks, truth, Guarded, Hands
<1>3. Unsent' BY DEF RetryRead, columns, ticks, truth, Unsent
<1>4. Left' BY DEF RetryRead, columns, ticks, truth, Left
<1>5. Backed' BY DEF RetryRead, columns, ticks, truth, Backed
<1>6. StatusEarned' BY DEF RetryRead, columns, truth, StatusEarned
<1>7. NeverStranded' BY DEF RetryRead, columns, truth, NeverStranded
<1>8. Room'
  <2>1. \A d0 \in Deliveries : fresh'[d0] <= sends'[d0]
    BY DEF Room, RetryRead, truth
  <2>2. ASSUME PerHour > 0, doubted' = {} PROVE doubted = {} 
    BY <2>2 DEF RetryRead, truth
  <2>3. ASSUME PerHour > 0, doubted' = {} PROVE Counted' = Counted
    BY DEF Counted, RetryRead, columns
  <2>4. ASSUME PerHour > 0, doubted' = {}, NEW d0 \in Deliveries, fresh'[d0] # 0
        PROVE  d0 \in Counted' \/ \E s \in Replicas : pc'[s] = "recording" /\ cur'[s] = d0
    BY <2>3, <2>4 DEF Room, RetryRead, ticks, truth
  <2>5. ASSUME PerHour > 0, doubted' = {} PROVE Cardinality(Counted') <= PerHour
    BY <2>2, <2>3, <2>5 DEF Room
  <2>6. ASSUME PerHour > 0, doubted' = {}, NEW s \in Replicas,
               pc'[s] \in {"sending", "recording"}
        PROVE  Cardinality(Counted') < PerHour
    BY <2>3, <2>6 DEF Room, RetryRead, ticks, truth
  <2> QED BY <2>1, <2>4, <2>5, <2>6 DEF Room
<1> QED BY <1>1, <1>2, <1>3, <1>4, <1>5, <1>6, <1>7, <1>8

\* A retry writes: of a dead row nothing has left, any other it puts in doubt.
LEMMA RetryWriteInv ==
    ASSUME OutboundInv, NEW o \in Operators, RetryWrite(o) PROVE OutboundInv'
<1> USE NoneAssumption, BoundsAssumption DEF OutboundInv
<1>1. TypeOK' BY DEF RetryWrite, ticks, TypeOK
<1>2. Guarded' BY DEF RetryWrite, ticks, Guarded, Hands
<1>3. Unsent' BY DEF RetryWrite, ticks, Unsent
<1>4. Left' BY DEF RetryWrite, ticks, Left
<1>5. Backed' BY DEF RetryWrite, ticks, Backed
<1>6. StatusEarned' BY DEF RetryWrite, StatusEarned, TypeOK
<1>7. NeverStranded' BY DEF RetryWrite, NeverStranded, TypeOK
<1>8. Room'
  <2>1. \A d0 \in Deliveries : fresh'[d0] <= sends'[d0]
    BY DEF Room, RetryWrite
  <2>2. ASSUME PerHour > 0, doubted' = {} PROVE doubted = {} 
    BY <2>2 DEF RetryWrite
  <2>3. ASSUME PerHour > 0, doubted' = {} PROVE Counted' = Counted
    BY <2>3 DEF Counted, RetryWrite
  <2>4. ASSUME PerHour > 0, doubted' = {}, NEW d0 \in Deliveries, fresh'[d0] # 0
        PROVE  d0 \in Counted' \/ \E s \in Replicas : pc'[s] = "recording" /\ cur'[s] = d0
    BY <2>3, <2>4 DEF Room, RetryWrite, ticks
  <2>5. ASSUME PerHour > 0, doubted' = {} PROVE Cardinality(Counted') <= PerHour
    BY <2>2, <2>3, <2>5 DEF Room
  <2>6. ASSUME PerHour > 0, doubted' = {}, NEW s \in Replicas,
               pc'[s] \in {"sending", "recording"}
        PROVE  Cardinality(Counted') < PerHour
    BY <2>3, <2>6 DEF Room, RetryWrite, ticks
  <2> QED BY <2>1, <2>4, <2>5, <2>6 DEF Room
<1> QED BY <1>1, <1>2, <1>3, <1>4, <1>5, <1>6, <1>7, <1>8

\* A vendor reports: the due time stays null.
LEMMA StatusCallbackInv ==
    ASSUME OutboundInv, NEW d \in Deliveries, NEW st \in Reported, StatusCallback(d, st) PROVE OutboundInv'
<1> USE NoneAssumption, BoundsAssumption DEF OutboundInv
<1>1. TypeOK' BY DEF StatusCallback, Reported, ticks, truth, TypeOK
<1>2. Guarded' BY DEF StatusCallback, Reported, ticks, truth, Guarded, Hands
<1>3. Unsent' BY DEF StatusCallback, ticks, truth, Unsent
<1>4. Left' BY DEF StatusCallback, Reported, ticks, truth, Left
<1>5. Backed' BY DEF StatusCallback, Reported, ticks, truth, Backed
<1>6. StatusEarned' BY DEF StatusCallback, Reported, truth, StatusEarned, Backed, TypeOK
<1>7. NeverStranded' BY DEF StatusCallback, truth, NeverStranded
<1>8. Room'
  BY ReportsAssumption DEF StatusCallback, Room, truth
<1> QED BY <1>1, <1>2, <1>3, <1>4, <1>5, <1>6, <1>7, <1>8

\* A tick selects under a free lock: whoever else has a row of it in hand has it in doubt.
LEMMA TickInv ==
    ASSUME OutboundInv, NEW r \in Replicas, Tick(r) PROVE OutboundInv'
<1> USE NoneAssumption, BoundsAssumption DEF OutboundInv
<1>1. TypeOK' BY DEF Tick, columns, truth, TypeOK, PC
<1>2. Guarded' BY DEF Tick, LockFree, Drainable, columns, truth, Guarded, Hands, TypeOK
<1>3. Unsent'
  <2>1. \A s \in Replicas, d \in Deliveries \ doubted : d \notin Hands(s)
    BY DEF Tick, LockFree, Guarded
  <2>2. \A d \in Deliveries \ doubted :
           Drainable(d) => sends[d] = 0 /\ attempt[d] < MaxAttempts
    BY <2>1 DEF Left, Drainable, Hands
  <2>3. \A d \in batch'[r] : Drainable(d) BY DEF Tick, TypeOK
  <2>4. \A s \in Replicas : s # r => batch'[s] = batch[s] /\ pc'[s] = pc[s]
    BY DEF Tick
  <2>5. pc'[r] = "picking" BY DEF Tick, TypeOK
  <2> QED BY <2>2 DEF Tick, Unsent, Attempting, columns, truth
<1>4. Left' BY DEF Tick, columns, truth, Left
<1>5. Backed' BY DEF Tick, columns, truth, Backed
<1>6. StatusEarned' BY DEF Tick, columns, truth, StatusEarned
<1>7. NeverStranded' BY DEF Tick, columns, truth, NeverStranded
<1>8. Room'
  <2>1. \A d0 \in Deliveries : fresh'[d0] <= sends'[d0]
    BY DEF Room, Tick, truth
  <2>2. ASSUME PerHour > 0, doubted' = {} PROVE doubted = {} 
    BY <2>2 DEF Tick, truth
  <2>3. ASSUME PerHour > 0, doubted' = {} PROVE Counted' = Counted
    BY DEF Counted, Tick, columns
  <2>4. ASSUME PerHour > 0, doubted' = {}, NEW d0 \in Deliveries, fresh'[d0] # 0
        PROVE  d0 \in Counted' \/ \E s \in Replicas : pc'[s] = "recording" /\ cur'[s] = d0
    BY <2>3, <2>4 DEF Room, Tick, truth
  <2>5. ASSUME PerHour > 0, doubted' = {} PROVE Cardinality(Counted') <= PerHour
    BY <2>2, <2>3, <2>5 DEF Room
  <2>6. ASSUME PerHour > 0, doubted' = {}, NEW s \in Replicas,
               pc'[s] \in {"sending", "recording"}
        PROVE  Cardinality(Counted') < PerHour
    BY <2>3, <2>6 DEF Room, Tick, truth
  <2> QED BY <2>1, <2>4, <2>5, <2>6 DEF Room
<1> QED BY <1>1, <1>2, <1>3, <1>4, <1>5, <1>6, <1>7, <1>8

\* A tick ends.
LEMMA TickEndsInv ==
    ASSUME OutboundInv, NEW r \in Replicas, TickEnds(r) PROVE OutboundInv'
<1> USE NoneAssumption, BoundsAssumption DEF OutboundInv
<1>1. TypeOK' BY DEF TickEnds, Release, columns, truth, TypeOK, PC
<1>2. Guarded' BY DEF TickEnds, Release, columns, truth, Guarded, Hands
<1>3. Unsent' BY DEF TickEnds, Release, columns, truth, Unsent, TypeOK
<1>4. Left' BY DEF TickEnds, Release, columns, truth, Left
<1>5. Backed' BY DEF TickEnds, Release, columns, truth, Backed
<1>6. StatusEarned' BY DEF TickEnds, columns, truth, StatusEarned
<1>7. NeverStranded' BY DEF TickEnds, columns, truth, NeverStranded
<1>8. Room'
  <2>1. \A d0 \in Deliveries : fresh'[d0] <= sends'[d0]
    BY DEF Room, TickEnds, truth
  <2>2. ASSUME PerHour > 0, doubted' = {} PROVE doubted = {} 
    BY <2>2 DEF TickEnds, truth
  <2>3. ASSUME PerHour > 0, doubted' = {} PROVE Counted' = Counted
    BY DEF Counted, TickEnds, columns
  <2>4. ASSUME PerHour > 0, doubted' = {}, NEW d0 \in Deliveries, fresh'[d0] # 0
        PROVE  d0 \in Counted' \/ \E s \in Replicas : pc'[s] = "recording" /\ cur'[s] = d0
    BY <2>3, <2>4 DEF Room, TickEnds, Release, truth
  <2>5. ASSUME PerHour > 0, doubted' = {} PROVE Cardinality(Counted') <= PerHour
    BY <2>2, <2>3, <2>5 DEF Room
  <2>6. ASSUME PerHour > 0, doubted' = {}, NEW s \in Replicas,
               pc'[s] \in {"sending", "recording"}
        PROVE  Cardinality(Counted') < PerHour
    BY <2>3, <2>6 DEF Room, TickEnds, Release, truth
  <2> QED BY <2>1, <2>4, <2>5, <2>6 DEF Room
<1> QED BY <1>1, <1>2, <1>3, <1>4, <1>5, <1>6, <1>7, <1>8

\* A row is loaded.
LEMMA LoadInv ==
    ASSUME OutboundInv, NEW r \in Replicas, NEW d \in Deliveries, Load(r, d) PROVE OutboundInv'
<1> USE NoneAssumption, BoundsAssumption DEF OutboundInv
<1>1. TypeOK' BY DEF Load, columns, truth, TypeOK, PC
<1>2. Guarded' BY DEF Load, columns, truth, Guarded, Hands, TypeOK
<1>3. Unsent' BY DEF Load, columns, truth, Unsent, TypeOK
<1>4. Left' BY DEF Load, columns, truth, Left
<1>5. Backed' BY DEF Load, columns, truth, Backed
<1>6. StatusEarned' BY DEF Load, columns, truth, StatusEarned
<1>7. NeverStranded' BY DEF Load, columns, truth, NeverStranded
<1>8. Room'
  <2>1. \A d0 \in Deliveries : fresh'[d0] <= sends'[d0]
    BY DEF Room, Load, truth
  <2>2. ASSUME PerHour > 0, doubted' = {} PROVE doubted = {} 
    BY <2>2 DEF Load, truth
  <2>3. ASSUME PerHour > 0, doubted' = {} PROVE Counted' = Counted
    BY DEF Counted, Load, columns
  <2>4. ASSUME PerHour > 0, doubted' = {}, NEW d0 \in Deliveries, fresh'[d0] # 0
        PROVE  d0 \in Counted' \/ \E s \in Replicas : pc'[s] = "recording" /\ cur'[s] = d0
    BY <2>3, <2>4 DEF Room, Load, truth
  <2>5. ASSUME PerHour > 0, doubted' = {} PROVE Cardinality(Counted') <= PerHour
    BY <2>2, <2>3, <2>5 DEF Room
  <2>6. ASSUME PerHour > 0, doubted' = {}, NEW s \in Replicas,
               pc'[s] \in {"sending", "recording"}
        PROVE  Cardinality(Counted') < PerHour
    BY <2>3, <2>6 DEF Room, Load, truth
  <2> QED BY <2>1, <2>4, <2>5, <2>6 DEF Room
<1> QED BY <1>1, <1>2, <1>3, <1>4, <1>5, <1>6, <1>7, <1>8

\* The adapter and the limit are looked at: past the limit there is room.
LEMMA CheckLimitInv ==
    ASSUME OutboundInv, NEW r \in Replicas, NoAdapter(r) \/ CheckLimit(r)
    PROVE  OutboundInv'
<1> USE NoneAssumption, BoundsAssumption DEF OutboundInv
<1>1. PICK place \in {"deferring", "sending", "failing"} :
         /\ pc[r] = "checking" /\ pc' = [pc EXCEPT ![r] = place]
         /\ place = "sending" => ~Blocked
  BY DEF NoAdapter, CheckLimit, Go
<1>2. UNCHANGED <<status, attempt, due, header, recent, alert, lock, batch, cur, read,
                  ask, retries, faults, sends, fresh, doubted>>
  BY DEF NoAdapter, CheckLimit, Go, columns, truth
<1>3. /\ pc' \in [Replicas -> PC] /\ pc'[r] = place
      /\ \A s \in Replicas \ {r} : pc'[s] = pc[s]
  BY <1>1 DEF TypeOK, PC
<1>4. TypeOK' BY <1>1, <1>2, <1>3 DEF TypeOK
<1>5. Guarded' BY <1>1, <1>2, <1>3 DEF Guarded, Hands
<1>6. Unsent' BY <1>1, <1>2, <1>3 DEF Unsent, Attempting
<1>7. Left' BY <1>1, <1>2, <1>3 DEF Left
<1>8. Backed' BY <1>1, <1>2, <1>3 DEF Backed
<1>9. StatusEarned' /\ NeverStranded' BY <1>2 DEF StatusEarned, NeverStranded
<1>10. Room'
  <2>1. Counted' = Counted BY <1>2 DEF Counted
  <2>2. ASSUME PerHour > 0, doubted = {}, NEW d \in Deliveries, fresh[d] # 0
        PROVE  d \in Counted \/ \E s \in Replicas : pc'[s] = "recording" /\ cur[s] = d
    BY <1>1, <1>3, <2>2 DEF Room
  <2>3. ASSUME PerHour > 0, doubted = {}, NEW s \in Replicas,
               pc'[s] \in {"sending", "recording"}
        PROVE  Cardinality(Counted) < PerHour
    BY <1>1, <1>3, <2>3, CountedFinite DEF Room, Blocked
  <2> QED BY <1>2, <2>1, <2>2, <2>3 DEF Room
<1> QED BY <1>4, <1>5, <1>6, <1>7, <1>8, <1>9, <1>10

\* A deferral is recorded: the row has not left.
LEMMA RecordDeferralInv ==
    ASSUME OutboundInv, NEW r \in Replicas, RecordDeferral(r) PROVE OutboundInv'
<1> USE NoneAssumption, BoundsAssumption DEF OutboundInv
<1>1. TypeOK' BY DEF RecordDeferral, Advance, truth, TypeOK, PC
<1>2. Guarded' BY DEF RecordDeferral, Advance, truth, Guarded, Hands, TypeOK
<1>3. Unsent' BY DEF RecordDeferral, Advance, truth, Unsent, TypeOK
<1>4. Left' BY DEF RecordDeferral, Advance, truth, Left, Unsent, Attempting
<1>5. Backed' BY DEF RecordDeferral, Advance, truth, Backed
<1>6. StatusEarned' BY DEF RecordDeferral, truth, StatusEarned
<1>7. NeverStranded'
  BY DEF RecordDeferral, truth, NeverStranded, Unsent, Attempting, TypeOK
<1>8. Room'
  <2>1. \A d0 \in Deliveries : fresh'[d0] <= sends'[d0]
    BY DEF Room, RecordDeferral, truth
  <2>2. ASSUME PerHour > 0, doubted' = {} PROVE doubted = {} 
    BY <2>2 DEF RecordDeferral, truth
  <2>3. ASSUME PerHour > 0, doubted' = {}
        PROVE  /\ Counted' \subseteq Counted /\ Cardinality(Counted') <= Cardinality(Counted)
               /\ Cardinality(Counted') \in Nat /\ Cardinality(Counted) \in Nat
    <3>1. Counted' \subseteq Counted BY DEF Counted, RecordDeferral
    <3> QED BY <3>1, CountedFinite
  <2>4. ASSUME PerHour > 0, doubted' = {}, NEW d0 \in Deliveries, fresh'[d0] # 0
        PROVE  d0 \in Counted' \/ \E s \in Replicas : pc'[s] = "recording" /\ cur'[s] = d0
    BY <2>4 DEF Counted, Room, Unsent, Attempting, TypeOK, RecordDeferral, Advance,
       truth
  <2>5. ASSUME PerHour > 0, doubted' = {} PROVE Cardinality(Counted') <= PerHour
    BY <2>2, <2>3, <2>5 DEF Room
  <2>6. ASSUME PerHour > 0, doubted' = {}, NEW s \in Replicas,
               pc'[s] \in {"sending", "recording"}
        PROVE  Cardinality(Counted') < PerHour
    BY <2>3, <2>6 DEF Room, RecordDeferral, Advance, truth
  <2> QED BY <2>1, <2>4, <2>5, <2>6 DEF Room
<1> QED BY <1>1, <1>2, <1>3, <1>4, <1>5, <1>6, <1>7, <1>8

\* A message leaves, or does not, or may have.
LEMMA SendInv ==
    ASSUME OutboundInv, NEW r \in Replicas, NEW out \in {"ok", "refused", "ambiguous"}, Send(r, out) PROVE OutboundInv'
<1> USE NoneAssumption, BoundsAssumption DEF OutboundInv
<1>1. TypeOK' BY DEF Send, Go, Fault, columns, TypeOK, PC
<1>2. Guarded' BY DEF Send, Go, columns, Guarded, Hands
<1>3. Unsent' BY DEF Send, Go, columns, Unsent, Attempting, Guarded, Hands, TypeOK
<1>4. Left'
  <2>1. cur[r] \in Deliveries BY DEF Send, TypeOK
  <2>2. CASE out = "ok"
    <3>1. pc'[r] = "recording" /\ cur' = cur BY <2>2 DEF Send, Go, TypeOK
    <3>2. sends' = [sends EXCEPT ![cur[r]] = @ + 1] /\ doubted' = doubted
      BY <2>2 DEF Send
    <3>3. status' = status /\ due' = due BY DEF Send, columns
    <3>4. cur[r] \notin doubted => sends'[cur[r]] = 1 /\ status[cur[r]] # "absent"
      BY <3>2 DEF Send, Unsent, Attempting, Guarded, Hands, TypeOK
    <3>5. cur[r] \notin doubted => status[cur[r]] # "dead"
      BY DEF Send, Unsent, Attempting, StatusEarned, TypeOK
    <3>6. \A s \in Replicas : pc[s] = "recording" => pc'[s] = "recording"
      BY DEF Send, Go
    <3>7. \A d \in Deliveries : d # cur[r] => sends'[d] = sends[d] BY <3>2
    <3> QED BY <3>1, <3>2, <3>3, <3>4, <3>5, <3>6 DEF Left
  <2>3. CASE out # "ok"
    <3>1. \A d \in Deliveries \ doubted' : d \notin doubted /\ sends'[d] = sends[d]
      BY <2>3 DEF Send, TypeOK
    <3>2. status' = status /\ due' = due BY DEF Send, columns
    <3>3. \A s \in Replicas : pc[s] = "recording" => pc'[s] = "recording" /\ cur'[s] = cur[s]
      BY DEF Send, Go
    <3> QED BY <3>1, <3>2, <3>3 DEF Left
  <2> QED BY <2>2, <2>3
<1>5. Backed' BY DEF Send, Go, columns, Backed, TypeOK
<1>6. StatusEarned' BY DEF Send, columns, StatusEarned, TypeOK
<1>7. NeverStranded' BY DEF Send, columns, NeverStranded
<1>8. Room'
  <2>1. \A d0 \in Deliveries : fresh'[d0] <= sends'[d0]
    BY DEF Room, TypeOK, Send
  <2>2. ASSUME PerHour > 0, doubted' = {} PROVE doubted = {} 
    BY <2>2 DEF Send
  <2>3. ASSUME PerHour > 0, doubted' = {} PROVE Counted' = Counted
    BY DEF Counted, Send, columns
  <2>4. ASSUME PerHour > 0, doubted' = {}, NEW d0 \in Deliveries, fresh'[d0] # 0
        PROVE  d0 \in Counted' \/ \E s \in Replicas : pc'[s] = "recording" /\ cur'[s] = d0
    <3>1. doubted = {} BY <2>2, <2>4
    <3>2. out # "ambiguous" BY <2>4 DEF Send
    <3>3. \A s \in Replicas : pc[s] = "recording" => pc'[s] = "recording" /\ cur'[s] = cur[s]
      BY DEF Send, Go
    <3>4. CASE d0 = cur[r] /\ out = "ok"
      BY <3>4 DEF Send, Go, TypeOK
    <3>5. CASE d0 # cur[r] \/ out = "refused"
      <4>1. fresh'[d0] = fresh[d0] BY <3>5 DEF Send, TypeOK
      <4> QED BY <2>3, <2>4, <3>1, <3>3, <4>1 DEF Room
    <3> QED BY <3>2, <3>4, <3>5
  <2>5. ASSUME PerHour > 0, doubted' = {} PROVE Cardinality(Counted') <= PerHour
    BY <2>2, <2>3, <2>5 DEF Room
  <2>6. ASSUME PerHour > 0, doubted' = {}, NEW s \in Replicas,
               pc'[s] \in {"sending", "recording"}
        PROVE  Cardinality(Counted') < PerHour
    BY <2>3, <2>6 DEF Room, Send
  <2> QED BY <2>1, <2>4, <2>5, <2>6 DEF Room
<1> QED BY <1>1, <1>2, <1>3, <1>4, <1>5, <1>6, <1>7, <1>8

\* A send is recorded: what was about to be counted is counted.
LEMMA RecordSentInv ==
    ASSUME OutboundInv, NEW r \in Replicas, RecordSent(r) PROVE OutboundInv'
<1> USE NoneAssumption, BoundsAssumption DEF OutboundInv
<1>1. TypeOK' BY DEF RecordSent, Go, SentAttempt, truth, TypeOK, PC
<1>2. Guarded' BY DEF RecordSent, Go, truth, Guarded, Hands
<1>3. Unsent' BY DEF RecordSent, Go, truth, Unsent, Attempting, Guarded, Hands
<1>4. Left' BY DEF RecordSent, Go, truth, Left, TypeOK
<1>5. Backed' BY DEF RecordSent, Go, truth, Backed, Guarded, Hands
<1>6. StatusEarned' BY DEF RecordSent, truth, StatusEarned, Backed, TypeOK
<1>7. NeverStranded' BY DEF RecordSent, truth, NeverStranded, TypeOK
<1>8. Room'
  <2> DEFINE d == cur[r]
  <2>1. \A d0 \in Deliveries : fresh'[d0] <= sends'[d0] BY DEF RecordSent, truth, Room
  <2> SUFFICES ASSUME PerHour > 0, doubted = {}
        PROVE  /\ \A d0 \in Deliveries :
                    fresh'[d0] # 0 =>
                      d0 \in Counted' \/ \E s \in Replicas : pc'[s] = "recording" /\ cur'[s] = d0
               /\ Cardinality(Counted') <= PerHour
               /\ \A s \in Replicas :
                    pc'[s] \in {"sending", "recording"} => Cardinality(Counted') < PerHour
    BY DEF RecordSent, truth, Room
  <2>2. d \in Deliveries BY DEF RecordSent, TypeOK
  <2>3. Counted' = Counted \cup {d} BY DEF RecordSent, Counted, TypeOK
  <2>4. \A s \in Replicas : s # r => pc[s] \in {"idle", "picking"}
    BY DEF RecordSent, Guarded, Hands, TypeOK
  <2>5. \A s \in Replicas : pc'[s] \notin {"sending", "recording"}
    BY <2>4 DEF RecordSent, Go, TypeOK
  <2>6. \A d0 \in Deliveries : fresh'[d0] # 0 => d0 \in Counted'
    BY <2>3, <2>4 DEF RecordSent, truth, Room
  <2>7. Cardinality(Counted) < PerHour BY DEF RecordSent, Room
  <2>8. IsFiniteSet(Counted) /\ Cardinality(Counted) \in Nat BY CountedFinite
  <2>9. Cardinality(Counted') <= PerHour 
    <3>1. Cardinality(Counted \cup {d}) =
             IF d \in Counted THEN Cardinality(Counted) ELSE Cardinality(Counted) + 1
      BY <2>8, FS_AddElement
    <3> QED BY <2>3, <2>7, <2>8, <3>1
  <2> QED BY <2>5, <2>6, <2>9
<1> QED BY <1>1, <1>2, <1>3, <1>4, <1>5, <1>6, <1>7, <1>8

\* A send is announced.
LEMMA AnnounceInv ==
    ASSUME OutboundInv, NEW r \in Replicas, Announce(r) PROVE OutboundInv'
<1> USE NoneAssumption, BoundsAssumption DEF OutboundInv
<1>1. TypeOK' BY DEF Announce, Advance, columns, truth, TypeOK, PC
<1>2. Guarded' BY DEF Announce, Advance, columns, truth, Guarded, Hands, TypeOK
<1>3. Unsent' BY DEF Announce, Advance, columns, truth, Unsent, TypeOK
<1>4. Left' BY DEF Announce, Advance, columns, truth, Left
<1>5. Backed' BY DEF Announce, Advance, columns, truth, Backed
<1>6. StatusEarned' BY DEF Announce, columns, truth, StatusEarned
<1>7. NeverStranded' BY DEF Announce, columns, truth, NeverStranded
<1>8. Room'
  <2>1. \A d0 \in Deliveries : fresh'[d0] <= sends'[d0]
    BY DEF Room, Announce, truth
  <2>2. ASSUME PerHour > 0, doubted' = {} PROVE doubted = {} 
    BY <2>2 DEF Announce, truth
  <2>3. ASSUME PerHour > 0, doubted' = {} PROVE Counted' = Counted
    BY DEF Counted, Announce, columns
  <2>4. ASSUME PerHour > 0, doubted' = {}, NEW d0 \in Deliveries, fresh'[d0] # 0
        PROVE  d0 \in Counted' \/ \E s \in Replicas : pc'[s] = "recording" /\ cur'[s] = d0
    BY <2>3, <2>4 DEF Room, Announce, Advance, truth
  <2>5. ASSUME PerHour > 0, doubted' = {} PROVE Cardinality(Counted') <= PerHour
    BY <2>2, <2>3, <2>5 DEF Room
  <2>6. ASSUME PerHour > 0, doubted' = {}, NEW s \in Replicas,
               pc'[s] \in {"sending", "recording"}
        PROVE  Cardinality(Counted') < PerHour
    BY <2>3, <2>6 DEF Room, Announce, Advance, truth
  <2> QED BY <2>1, <2>4, <2>5, <2>6 DEF Room
<1> QED BY <1>1, <1>2, <1>3, <1>4, <1>5, <1>6, <1>7, <1>8

\* A failure is recorded: the row has not left.
LEMMA RecordFailureInv ==
    ASSUME OutboundInv, NEW r \in Replicas, RecordFailure(r) PROVE OutboundInv'
<1> USE NoneAssumption, BoundsAssumption DEF OutboundInv
<1>1. TypeOK' BY DEF RecordFailure, Go, Advance, Final, FailDue, truth, TypeOK, PC
<1>2. Guarded' BY DEF RecordFailure, Go, Advance, truth, Guarded, Hands, TypeOK
<1>3. Unsent'
  BY DEF RecordFailure, Go, Advance, truth, Unsent, Attempting, Guarded, Hands, TypeOK
<1>4. Left' BY DEF RecordFailure, Go, Advance, truth, Left, Unsent, Attempting, TypeOK
<1>5. Backed' BY DEF RecordFailure, Go, Advance, truth, Backed, TypeOK
<1>6. StatusEarned' BY DEF RecordFailure, Final, truth, StatusEarned, TypeOK
<1>7. NeverStranded' BY DEF RecordFailure, Final, FailDue, truth, NeverStranded, TypeOK
<1>8. Room'
  <2>1. \A d0 \in Deliveries : fresh'[d0] <= sends'[d0]
    BY DEF Room, RecordFailure, truth
  <2>2. ASSUME PerHour > 0, doubted' = {} PROVE doubted = {} 
    BY <2>2 DEF RecordFailure, truth
  <2>3. ASSUME PerHour > 0, doubted' = {}
        PROVE  /\ Counted' \subseteq Counted /\ Cardinality(Counted') <= Cardinality(Counted)
               /\ Cardinality(Counted') \in Nat /\ Cardinality(Counted) \in Nat
    <3>1. Counted' \subseteq Counted BY DEF Counted, RecordFailure
    <3> QED BY <3>1, CountedFinite
  <2>4. ASSUME PerHour > 0, doubted' = {}, NEW d0 \in Deliveries, fresh'[d0] # 0
        PROVE  d0 \in Counted' \/ \E s \in Replicas : pc'[s] = "recording" /\ cur'[s] = d0
    BY <2>4 DEF Counted, Room, Unsent, Attempting, TypeOK, RecordFailure, Go, Advance,
       truth
  <2>5. ASSUME PerHour > 0, doubted' = {} PROVE Cardinality(Counted') <= PerHour
    BY <2>2, <2>3, <2>5 DEF Room
  <2>6. ASSUME PerHour > 0, doubted' = {}, NEW s \in Replicas,
               pc'[s] \in {"sending", "recording"}
        PROVE  Cardinality(Counted') < PerHour
    BY <2>3, <2>6 DEF Room, TypeOK, RecordFailure, Go, Advance, truth
  <2> QED BY <2>1, <2>4, <2>5, <2>6 DEF Room
<1> QED BY <1>1, <1>2, <1>3, <1>4, <1>5, <1>6, <1>7, <1>8

\* An alert is opened.
LEMMA OpenAlertInv ==
    ASSUME OutboundInv, NEW r \in Replicas, OpenAlert(r) PROVE OutboundInv'
<1> USE NoneAssumption, BoundsAssumption DEF OutboundInv
<1>1. TypeOK' BY DEF OpenAlert, Advance, columns, truth, TypeOK, PC
<1>2. Guarded' BY DEF OpenAlert, Advance, columns, truth, Guarded, Hands, TypeOK
<1>3. Unsent' BY DEF OpenAlert, Advance, columns, truth, Unsent, TypeOK
<1>4. Left' BY DEF OpenAlert, Advance, columns, truth, Left
<1>5. Backed' BY DEF OpenAlert, Advance, columns, truth, Backed
<1>6. StatusEarned' BY DEF OpenAlert, columns, truth, StatusEarned
<1>7. NeverStranded' BY DEF OpenAlert, columns, truth, NeverStranded
<1>8. Room'
  <2>1. \A d0 \in Deliveries : fresh'[d0] <= sends'[d0]
    BY DEF Room, OpenAlert, truth
  <2>2. ASSUME PerHour > 0, doubted' = {} PROVE doubted = {} 
    BY <2>2 DEF OpenAlert, truth
  <2>3. ASSUME PerHour > 0, doubted' = {} PROVE Counted' = Counted
    BY DEF Counted, OpenAlert, columns
  <2>4. ASSUME PerHour > 0, doubted' = {}, NEW d0 \in Deliveries, fresh'[d0] # 0
        PROVE  d0 \in Counted' \/ \E s \in Replicas : pc'[s] = "recording" /\ cur'[s] = d0
    BY <2>3, <2>4 DEF Room, OpenAlert, Advance, truth
  <2>5. ASSUME PerHour > 0, doubted' = {} PROVE Cardinality(Counted') <= PerHour
    BY <2>2, <2>3, <2>5 DEF Room
  <2>6. ASSUME PerHour > 0, doubted' = {}, NEW s \in Replicas,
               pc'[s] \in {"sending", "recording"}
        PROVE  Cardinality(Counted') < PerHour
    BY <2>3, <2>6 DEF Room, OpenAlert, Advance, truth
  <2> QED BY <2>1, <2>4, <2>5, <2>6 DEF Room
<1> QED BY <1>1, <1>2, <1>3, <1>4, <1>5, <1>6, <1>7, <1>8

\* A tick is cut short: a send not yet recorded is in doubt.
LEMMA AbandonInv ==
    ASSUME OutboundInv, NEW r \in Replicas, Abandon(r) PROVE OutboundInv'
<1> USE NoneAssumption, BoundsAssumption DEF OutboundInv
<1>1. TypeOK' BY DEF Abandon, Release, Fault, columns, TypeOK, PC
<1>2. Guarded' BY DEF Abandon, Release, columns, Guarded, Hands, TypeOK
<1>3. Unsent' BY DEF Abandon, Release, columns, Unsent, TypeOK
<1>4. Left' BY DEF Abandon, Release, columns, Left
<1>5. Backed' BY DEF Abandon, Release, columns, Backed, TypeOK
<1>6. StatusEarned' BY DEF Abandon, columns, StatusEarned
<1>7. NeverStranded' BY DEF Abandon, columns, NeverStranded
<1>8. Room'
  <2>1. \A d0 \in Deliveries : fresh'[d0] <= sends'[d0]
    BY DEF Room, Abandon
  <2>2. ASSUME PerHour > 0, doubted' = {} PROVE doubted = {} 
    BY <2>2 DEF Abandon
  <2>3. ASSUME PerHour > 0, doubted' = {} PROVE Counted' = Counted
    BY DEF Counted, Abandon, columns
  <2>4. ASSUME PerHour > 0, doubted' = {}, NEW d0 \in Deliveries, fresh'[d0] # 0
        PROVE  d0 \in Counted' \/ \E s \in Replicas : pc'[s] = "recording" /\ cur'[s] = d0
    BY <2>3, <2>4 DEF Room, Abandon, Release
  <2>5. ASSUME PerHour > 0, doubted' = {} PROVE Cardinality(Counted') <= PerHour
    BY <2>2, <2>3, <2>5 DEF Room
  <2>6. ASSUME PerHour > 0, doubted' = {}, NEW s \in Replicas,
               pc'[s] \in {"sending", "recording"}
        PROVE  Cardinality(Counted') < PerHour
    BY <2>3, <2>6 DEF Room, Abandon, Release
  <2> QED BY <2>1, <2>4, <2>5, <2>6 DEF Room
<1> QED BY <1>1, <1>2, <1>3, <1>4, <1>5, <1>6, <1>7, <1>8

\* The lock is lost: all the tick has in hand is in doubt.
LEMMA LockLostInv ==
    ASSUME OutboundInv, NEW r \in Replicas, LockLost(r) PROVE OutboundInv'
<1> USE NoneAssumption, BoundsAssumption DEF OutboundInv
<1>1. TypeOK' BY DEF LockLost, Fault, columns, ticks, TypeOK
<1>2. Guarded' BY DEF LockLost, columns, ticks, Guarded, Hands
<1>3. Unsent' BY DEF LockLost, ticks, Unsent, Guarded, Hands
<1>4. Left' BY DEF LockLost, columns, Left, Guarded, Hands
<1>5. Backed' BY DEF LockLost, columns, ticks, Backed
<1>6. StatusEarned' BY DEF LockLost, columns, StatusEarned
<1>7. NeverStranded' BY DEF LockLost, columns, NeverStranded
<1>8. Room'
  <2>1. \A d0 \in Deliveries : fresh'[d0] <= sends'[d0]
    BY DEF Room, LockLost
  <2>2. ASSUME PerHour > 0, doubted' = {} PROVE doubted = {} 
    BY <2>2 DEF LockLost
  <2>3. ASSUME PerHour > 0, doubted' = {} PROVE Counted' = Counted
    BY DEF Counted, LockLost, columns
  <2>4. ASSUME PerHour > 0, doubted' = {}, NEW d0 \in Deliveries, fresh'[d0] # 0
        PROVE  d0 \in Counted' \/ \E s \in Replicas : pc'[s] = "recording" /\ cur'[s] = d0
    BY <2>3, <2>4 DEF Room, LockLost, ticks
  <2>5. ASSUME PerHour > 0, doubted' = {} PROVE Cardinality(Counted') <= PerHour
    BY <2>2, <2>3, <2>5 DEF Room
  <2>6. ASSUME PerHour > 0, doubted' = {}, NEW s \in Replicas,
               pc'[s] \in {"sending", "recording"}
        PROVE  Cardinality(Counted') < PerHour
    BY <2>3, <2>6 DEF Room, LockLost, ticks
  <2> QED BY <2>1, <2>4, <2>5, <2>6 DEF Room
<1> QED BY <1>1, <1>2, <1>3, <1>4, <1>5, <1>6, <1>7, <1>8

\* A row comes due.
LEMMA ComeDueInv ==
    ASSUME OutboundInv, NEW d \in Deliveries, ComeDue(d) PROVE OutboundInv'
<1> USE NoneAssumption, BoundsAssumption DEF OutboundInv
<1>1. TypeOK' BY DEF ComeDue, ticks, truth, TypeOK
<1>2. Guarded' BY DEF ComeDue, ticks, truth, Guarded, Hands
<1>3. Unsent' BY DEF ComeDue, ticks, truth, Unsent
<1>4. Left' BY DEF ComeDue, ticks, truth, Left
<1>5. Backed' BY DEF ComeDue, ticks, truth, Backed
<1>6. StatusEarned' BY DEF ComeDue, truth, StatusEarned
<1>7. NeverStranded' BY DEF ComeDue, truth, NeverStranded
<1>8. Room'
  <2>1. \A d0 \in Deliveries : fresh'[d0] <= sends'[d0]
    BY DEF Room, ComeDue, truth
  <2>2. ASSUME PerHour > 0, doubted' = {} PROVE doubted = {} 
    BY <2>2 DEF ComeDue, truth
  <2>3. ASSUME PerHour > 0, doubted' = {} PROVE Counted' = Counted
    BY DEF Counted, ComeDue
  <2>4. ASSUME PerHour > 0, doubted' = {}, NEW d0 \in Deliveries, fresh'[d0] # 0
        PROVE  d0 \in Counted' \/ \E s \in Replicas : pc'[s] = "recording" /\ cur'[s] = d0
    BY <2>3, <2>4 DEF Room, ComeDue, ticks, truth
  <2>5. ASSUME PerHour > 0, doubted' = {} PROVE Cardinality(Counted') <= PerHour
    BY <2>2, <2>3, <2>5 DEF Room
  <2>6. ASSUME PerHour > 0, doubted' = {}, NEW s \in Replicas,
               pc'[s] \in {"sending", "recording"}
        PROVE  Cardinality(Counted') < PerHour
    BY <2>3, <2>6 DEF Room, ComeDue, ticks, truth
  <2> QED BY <2>1, <2>4, <2>5, <2>6 DEF Room
<1> QED BY <1>1, <1>2, <1>3, <1>4, <1>5, <1>6, <1>7, <1>8

\* An hour passes.
LEMMA HourPassesInv ==
    ASSUME OutboundInv, NEW d \in Deliveries, HourPasses(d) PROVE OutboundInv'
<1> USE NoneAssumption, BoundsAssumption DEF OutboundInv
<1>1. TypeOK' BY DEF HourPasses, columns, ticks, TypeOK
<1>2. Guarded' BY DEF HourPasses, columns, ticks, Guarded, Hands
<1>3. Unsent' BY DEF HourPasses, columns, ticks, Unsent
<1>4. Left' BY DEF HourPasses, columns, ticks, Left
<1>5. Backed' BY DEF HourPasses, columns, ticks, Backed
<1>6. StatusEarned' BY DEF HourPasses, columns, StatusEarned
<1>7. NeverStranded' BY DEF HourPasses, columns, NeverStranded
<1>8. Room'
  <2>1. \A d0 \in Deliveries : fresh'[d0] <= sends'[d0]
    BY DEF Room, TypeOK, HourPasses
  <2>2. ASSUME PerHour > 0, doubted' = {} PROVE doubted = {} 
    BY <2>2 DEF HourPasses
  <2>3. ASSUME PerHour > 0, doubted' = {}
        PROVE  /\ Counted' \subseteq Counted /\ Cardinality(Counted') <= Cardinality(Counted)
               /\ Cardinality(Counted') \in Nat /\ Cardinality(Counted) \in Nat
    <3>1. Counted' \subseteq Counted BY DEF Counted, HourPasses, columns
    <3> QED BY <3>1, CountedFinite
  <2>4. ASSUME PerHour > 0, doubted' = {}, NEW d0 \in Deliveries, fresh'[d0] # 0
        PROVE  d0 \in Counted' \/ \E s \in Replicas : pc'[s] = "recording" /\ cur'[s] = d0
    BY <2>4 DEF Counted, Room, TypeOK, HourPasses, columns, ticks
  <2>5. ASSUME PerHour > 0, doubted' = {} PROVE Cardinality(Counted') <= PerHour
    BY <2>2, <2>3, <2>5 DEF Room
  <2>6. ASSUME PerHour > 0, doubted' = {}, NEW s \in Replicas,
               pc'[s] \in {"sending", "recording"}
        PROVE  Cardinality(Counted') < PerHour
    BY <2>3, <2>6 DEF Room, HourPasses, ticks
  <2> QED BY <2>1, <2>4, <2>5, <2>6 DEF Room
<1> QED BY <1>1, <1>2, <1>3, <1>4, <1>5, <1>6, <1>7, <1>8

\* Every step keeps the inductive invariant.
LEMMA NextInv == OutboundInv /\ [Next]_vars => OutboundInv'
<1> SUFFICES ASSUME OutboundInv, [Next]_vars PROVE OutboundInv' OBVIOUS
<1>1. CASE UNCHANGED vars
  BY <1>1 DEF vars, OutboundInv, TypeOK, Guarded, Hands, Unsent, Left, Backed,
     StatusEarned, NeverStranded, Room, Counted
<1>2. CASE Next
  BY <1>2, EnqueueInv, RetryReadInv, RetryWriteInv, StatusCallbackInv, TickInv,
     TickEndsInv, LoadInv, CheckLimitInv, RecordDeferralInv, SendInv, RecordSentInv,
     AnnounceInv, RecordFailureInv, OpenAlertInv, AbandonInv, LockLostInv, ComeDueInv,
     HourPassesInv DEF Next, Attempt
<1> QED BY <1>1, <1>2

\* The inductive invariant holds of every reachable state.
THEOREM OutboundInvariant == Spec => []OutboundInv
BY InitInv, NextInv, PTL DEF Spec

\* A message leaves at most once, unless a fault fell between the send and its
\* record, the lock went during a tick, or two retries of the row raced.
THEOREM SendsOnce == Spec => []SentOnce
<1>1. OutboundInv => SentOnce BY DEF OutboundInv, Left, SentOnce
<1> QED BY OutboundInvariant, <1>1, PTL

\* A row says sent only of a message that left, and dead only after every attempt
\* was spent.
THEOREM EarnsStatus == Spec => []StatusEarned
<1>1. OutboundInv => StatusEarned BY DEF OutboundInv
<1> QED BY OutboundInvariant, <1>1, PTL

\* No queued or failed row is out of the drain's reach.
THEOREM StrandsNone == Spec => []NeverStranded
<1>1. OutboundInv => NeverStranded BY DEF OutboundInv
<1> QED BY OutboundInvariant, <1>1, PTL

\* No more messages leave within the hour than the channel's limit.
THEOREM HoldsLimit == Spec => []LimitHeld
<1>1. OutboundInv => LimitHeld
  <2> SUFFICES ASSUME OutboundInv, PerHour > 0, doubted = {}
               PROVE  Cardinality(Hourly) <= PerHour
    BY DEF LimitHeld
  <2> USE BoundsAssumption DEF OutboundInv
  <2>1. \A d \in Deliveries : fresh[d] \in {0, 1} BY DEF Left, Room, TypeOK
  <2>2. \A x \in Hourly : x[1] \in Deliveries /\ fresh[x[1]] = 1 /\ x = <<x[1], 1>>
    <3> SUFFICES ASSUME NEW d \in Deliveries, NEW x \in {d} \X (1 .. fresh[d])
                 PROVE  x[1] = d /\ fresh[d] = 1 /\ x = <<x[1], 1>>
      BY DEF Hourly
    <3>1. x[1] = d /\ x[2] \in 1 .. fresh[d] /\ x = <<x[1], x[2]>> OBVIOUS
    <3> QED BY <2>1
  <2>3. ASSUME NEW S, IsFiniteSet(S), \A d \in Deliveries : fresh[d] # 0 => d \in S
        PROVE  /\ Cardinality(Hourly) <= Cardinality(S)
               /\ Cardinality(Hourly) \in Nat /\ Cardinality(S) \in Nat
    <3> DEFINE f == [x \in Hourly |-> x[1]]
    <3>1. \A x \in Hourly : x[1] \in S BY <2>2, <2>3
    <3>2. f \in [Hourly -> S] BY <3>1
    <3>3. \A x, y \in Hourly : f[x] = f[y] => x = y BY <2>2
    <3>4. f \in Injection(Hourly, S) BY <3>2, <3>3 DEF Injection, IsInjective
    <3> QED BY <2>3, <3>4, FS_Injection, FS_CardinalityType
  <2>4. IsFiniteSet(Counted) /\ Cardinality(Counted) \in Nat BY CountedFinite
  <2>5. CASE \E r \in Replicas : pc[r] = "recording"
    <3>1. PICK r \in Replicas : pc[r] = "recording" BY <2>5
    <3>2. Cardinality(Counted) < PerHour BY <3>1 DEF Room
    <3>3. \A s \in Replicas : pc[s] = "recording" => s = r
      BY <3>1, NoneAssumption DEF Guarded, Hands, TypeOK
    <3>4. \A d \in Deliveries : fresh[d] # 0 => d \in Counted \cup {cur[r]}
      BY <3>3 DEF Room
    <3>5. /\ IsFiniteSet(Counted \cup {cur[r]})
          /\ Cardinality(Counted \cup {cur[r]}) <= Cardinality(Counted) + 1
      BY <2>4, FS_AddElement
    <3>6. Cardinality(Counted \cup {cur[r]}) \in Nat BY <3>5, FS_CardinalityType
    <3>7. Cardinality(Hourly) <= Cardinality(Counted \cup {cur[r]}) /\ Cardinality(Hourly) \in Nat
      BY <2>3, <3>4, <3>5
    <3> QED BY <2>4, <3>2, <3>5, <3>6, <3>7
  <2>6. CASE \A r \in Replicas : pc[r] # "recording"
    <3>1. \A d \in Deliveries : fresh[d] # 0 => d \in Counted BY <2>6 DEF Room
    <3>2. Cardinality(Counted) <= PerHour BY DEF Room
    <3> QED BY <2>3, <2>4, <3>1, <3>2
  <2> QED BY <2>5, <2>6
<1> QED BY OutboundInvariant, <1>1, PTL
=============================================================================
