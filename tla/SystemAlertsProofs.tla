------------------------- MODULE SystemAlertsProofs -------------------------
(***************************************************************************)
(* Alerts and their mails for any number of keys, callers, recipients,     *)
(* replicas and rows: raises that take, one mail of an alert unless a lock *)
(* was lost, no mail of a blip and no silence without a reason.            *)
(***************************************************************************)
EXTENDS SystemAlerts, TLAPS

\* The initial state satisfies the inductive invariant.
LEMMA InitInv == Init => AlertInv
<1> SUFFICES ASSUME Init PROVE AlertInv OBVIOUS
<1>1. TypeOK
  <2>1. overlap \in BOOLEAN /\ [c \in Callers |-> Idle] \in [Callers -> CallStates]
    BY DEF Init, Idle, CallStates
  <2>2. /\ tries \in [Notes -> 0 .. MaxAttempts]
        /\ resolves \in 0 .. MaxResolves /\ faults \in 0 .. MaxFaults
    BY BoundsAssumption DEF Init
  <2> QED BY <2>1, <2>2 DEF Init, TypeOK
<1>2. Read /\ InHand /\ Locked /\ Rows
  BY DEF Init, Read, Idle, InHand, Locked, Rows, Notes
<1>3. MailBalance /\ MailOnce BY DEF Init, MailBalance, MailOnce
<1>4. Outcome /\ SilenceExplained BY DEF Init, Outcome, SilenceExplained
<1>5. Ripened /\ BlipSilent BY DEF Init, Ripened, BlipSilent, Notes
<1> QED BY <1>1, <1>2, <1>3, <1>4, <1>5 DEF AlertInv

\* What openAlert() finds: an open row of the key, or a recent one if none is open.
LEMMA FoundRow ==
    ASSUME NEW k \in Keys, NEW a \in Found(k)
    PROVE  \/ a = None
           \/ /\ a \in Alerts /\ keyOf[a] = k
              /\ OpenOf(k) # {} => status[a] = "open"
<1>1. CASE OpenOf(k) # {} BY <1>1 DEF Found, OpenOf
<1>2. CASE OpenOf(k) = {} BY <1>2 DEF Found, Recent
<1> QED BY <1>1, <1>2

-----------------------------------------------------------------------------
(* Every action keeps the inductive invariant.                             *)

\* openAlert() reads.
LEMMA LookInv ==
    ASSUME AlertInv, NEW c \in Callers, NEW k \in Keys, Look(c, k) PROVE AlertInv'
<1> USE NoneAssumption, BoundsAssumption DEF AlertInv, Notes
<1>1. TypeOK'
  <2>1. PICK a \in Found(k) :
          call' = [call EXCEPT ![c] =
                      [key |-> k, target |-> a, stale |-> FALSE,
                       reopened |-> OpenOf(k) = {} /\ a # None]]
    BY DEF Look
  <2>2. a \in Alerts \cup {None} BY FoundRow
  <2>3. (OpenOf(k) = {} /\ a # None) \in BOOLEAN OBVIOUS
  <2>4. call' \in [Callers -> CallStates] BY <2>1, <2>2 DEF TypeOK, CallStates
  <2> QED BY <2>4 DEF Look, TypeOK, drainVars
<1>2. Read'
  <2>1. PICK a \in Found(k) :
          call' = [call EXCEPT ![c] =
                      [key |-> k, target |-> a, stale |-> FALSE,
                       reopened |-> OpenOf(k) = {} /\ a # None]]
    BY DEF Look
  <2>2. \/ a = None
        \/ a \in Alerts /\ keyOf[a] = k /\ (OpenOf(k) # {} => status[a] = "open")
    BY FoundRow
  <2>3. \A d \in Callers : d # c => call'[d] = call[d] BY <2>1
  <2>4. /\ call'[c].key = k /\ call'[c].target = a
        /\ call'[c].reopened <=> OpenOf(k) = {} /\ a # None
    BY <2>1 DEF TypeOK
  <2> QED BY <2>2, <2>4 DEF Look, Read
<1>3. InHand' BY DEF Look, drainVars, InHand, Graced
<1>4. Locked' BY DEF Look, drainVars, Locked
<1>5. Rows' BY DEF Look, drainVars, Rows
<1>6. MailBalance' BY DEF Look, drainVars, MailBalance, Unsent
<1>7. MailOnce' BY DEF Look, drainVars, MailOnce
<1>8. Outcome' BY DEF Look, drainVars, Outcome
<1>9. SilenceExplained' BY DEF Look, drainVars, SilenceExplained
<1>10. Ripened' BY DEF Look, drainVars, Ripened, Graced
<1>11. BlipSilent' BY DEF Look, drainVars, BlipSilent
<1> QED BY <1>1, <1>2, <1>3, <1>4, <1>5, <1>6, <1>7, <1>8, <1>9, <1>10, <1>11

\* openAlert() counts an occurrence.
LEMMA BumpInv ==
    ASSUME AlertInv, NEW c \in Callers, Bump(c) PROVE AlertInv'
<1> USE NoneAssumption, BoundsAssumption DEF AlertInv, Notes
<1>1. TypeOK' BY DEF Bump, drainVars, TypeOK, CallStates, Idle
<1>2. Read' BY DEF Bump, drainVars, Read, TypeOK, Idle
<1>3. InHand' BY DEF Bump, drainVars, InHand, Graced
<1>4. Locked' BY DEF Bump, drainVars, Locked
<1>5. Rows' BY DEF Bump, drainVars, Rows
<1>6. MailBalance' BY DEF Bump, drainVars, MailBalance, Unsent
<1>7. MailOnce' BY DEF Bump, drainVars, MailOnce
<1>8. Outcome' BY DEF Bump, drainVars, Outcome
<1>9. SilenceExplained' BY DEF Bump, drainVars, SilenceExplained
<1>10. Ripened' BY DEF Bump, drainVars, Ripened, Graced
<1>11. BlipSilent' BY DEF Bump, drainVars, BlipSilent
<1> QED BY <1>1, <1>2, <1>3, <1>4, <1>5, <1>6, <1>7, <1>8, <1>9, <1>10, <1>11

\* openAlert() reopens the row it found; no notification is queued.
LEMMA ReopenInv ==
    ASSUME AlertInv, NEW c \in Callers, Reopen(c) PROVE AlertInv'
<1> USE NoneAssumption, BoundsAssumption DEF AlertInv, Notes
<1>1. TypeOK'
  BY DEF Reopen, drainVars, TypeOK, Reopened, Notified, Read, CallStates, Idle
<1>2. Read'
  <2>1. \A d \in Callers : d # c => call'[d] = call[d] BY DEF Reopen
  <2>2. call'[c] = Idle BY DEF Reopen, TypeOK
  <2>3. \A a \in Alerts : status[a] = "open" => status'[a] = "open"
    BY DEF Reopen, Reopened
  <2>4. keyOf' = keyOf BY DEF Reopen
  <2>5. \A d \in Callers : call[d].target \in Alerts \cup {None}
    BY DEF TypeOK, CallStates
  <2>6. SUFFICES ASSUME NEW d \in Callers
        PROVE  /\ call'[d] # Idle => call'[d].key \in Keys
               /\ call'[d].target # None => keyOf'[call'[d].target] = call'[d].key
               /\ call'[d].reopened => call'[d].target # None
               /\ call'[d].target # None /\ ~call'[d].reopened /\ ~call'[d].stale
                     => status'[call'[d].target] = "open"
    BY DEF Read
  <2>7. CASE d = c BY <2>7, <2>2 DEF Idle
  <2>8. CASE d # c BY <2>8, <2>1, <2>3, <2>4, <2>5 DEF Read
  <2> QED BY <2>7, <2>8
<1>3. InHand' BY DEF Reopen, drainVars, InHand, Graced, Notified, Work, TypeOK
<1>4. Locked' BY DEF Reopen, drainVars, Locked
<1>5. Rows' BY DEF Reopen, drainVars, Rows, Reopened, Notified, TypeOK
<1>6. MailBalance' BY DEF Reopen, drainVars, MailBalance, Unsent, Notified
<1>7. MailOnce' BY DEF Reopen, drainVars, MailOnce
<1>8. Outcome' BY DEF Reopen, drainVars, Outcome
<1>9. SilenceExplained' BY DEF Reopen, drainVars, SilenceExplained, Notified
<1>10. Ripened' BY DEF Reopen, drainVars, Ripened, Graced, Reopened, Notified
<1>11. BlipSilent' BY DEF Reopen, drainVars, BlipSilent
<1> QED BY <1>1, <1>2, <1>3, <1>4, <1>5, <1>6, <1>7, <1>8, <1>9, <1>10, <1>11

\* openAlert() inserts a row and queues its notifications.
LEMMA InsertInv ==
    ASSUME AlertInv, NEW c \in Callers, NEW severe \in BOOLEAN, Insert(c, severe) PROVE AlertInv'
<1> USE NoneAssumption, BoundsAssumption DEF AlertInv, Notes
<1>1. TypeOK' BY DEF Insert, drainVars, TypeOK, Notified, Read, CallStates, Idle
<1>2. Read'
  <2>1. PICK a \in Alerts :
          /\ status[a] = "none"
          /\ status' = [status EXCEPT ![a] = "open"]
          /\ keyOf' = [keyOf EXCEPT ![a] = call[c].key]
    BY DEF Insert
  <2>2. \A d \in Callers : d # c => call'[d] = call[d] BY DEF Insert
  <2>3. call'[c] = Idle BY DEF Insert, TypeOK
  <2>4. keyOf[a] = None BY <2>1 DEF TypeOK
  <2>5. \A b \in Alerts : b # a => status'[b] = status[b] /\ keyOf'[b] = keyOf[b]
    BY <2>1
  <2>6. \A d \in Callers : call[d].target \in Alerts \cup {None}
    BY DEF TypeOK, CallStates
  <2>7. \A d \in Callers : call[d].target # a
    BY <2>4 DEF Read, Idle
  <2>8. SUFFICES ASSUME NEW d \in Callers
        PROVE  /\ call'[d] # Idle => call'[d].key \in Keys
               /\ call'[d].target # None => keyOf'[call'[d].target] = call'[d].key
               /\ call'[d].reopened => call'[d].target # None
               /\ call'[d].target # None /\ ~call'[d].reopened /\ ~call'[d].stale
                     => status'[call'[d].target] = "open"
    BY DEF Read
  <2>9. CASE d = c BY <2>9, <2>3 DEF Idle
  <2>10. CASE d # c BY <2>10, <2>2, <2>5, <2>6, <2>7 DEF Read
  <2> QED BY <2>9, <2>10
<1>3. InHand' BY DEF Insert, drainVars, InHand, Graced, Notified, Work, TypeOK
<1>4. Locked' BY DEF Insert, drainVars, Locked
<1>5. Rows' BY DEF Insert, drainVars, Rows, Notified, TypeOK
<1>6. MailBalance' BY DEF Insert, drainVars, MailBalance, Unsent, Notified
<1>7. MailOnce' BY DEF Insert, drainVars, MailOnce
<1>8. Outcome' BY DEF Insert, drainVars, Outcome
<1>9. SilenceExplained' BY DEF Insert, drainVars, SilenceExplained, Notified
<1>10. Ripened' BY DEF Insert, drainVars, Ripened, Graced, Notified, Rows
<1>11. BlipSilent' BY DEF Insert, drainVars, BlipSilent
<1> QED BY <1>1, <1>2, <1>3, <1>4, <1>5, <1>6, <1>7, <1>8, <1>9, <1>10, <1>11

\* The index refuses the write.
LEMMA RefusedInv ==
    ASSUME AlertInv, NEW c \in Callers, Refused(c) PROVE AlertInv'
<1> USE NoneAssumption, BoundsAssumption DEF AlertInv, Notes
<1>1. TypeOK' BY DEF Refused, drainVars, TypeOK, CallStates, Idle
<1>2. Read' BY DEF Refused, drainVars, Read, TypeOK, Idle
<1>3. InHand' BY DEF Refused, drainVars, InHand, Graced
<1>4. Locked' BY DEF Refused, drainVars, Locked
<1>5. Rows' BY DEF Refused, drainVars, Rows
<1>6. MailBalance' BY DEF Refused, drainVars, MailBalance, Unsent
<1>7. MailOnce' BY DEF Refused, drainVars, MailOnce
<1>8. Outcome' BY DEF Refused, drainVars, Outcome
<1>9. SilenceExplained' BY DEF Refused, drainVars, SilenceExplained
<1>10. Ripened' BY DEF Refused, drainVars, Ripened, Graced
<1>11. BlipSilent' BY DEF Refused, drainVars, BlipSilent
<1> QED BY <1>1, <1>2, <1>3, <1>4, <1>5, <1>6, <1>7, <1>8, <1>9, <1>10, <1>11

\* resolveAlert() makes every read of the key stale.
LEMMA ResolveInv ==
    ASSUME AlertInv, NEW k \in Keys, Resolve(k) PROVE AlertInv'
<1> USE NoneAssumption, BoundsAssumption DEF AlertInv, Notes
<1>1. TypeOK'
  <2>1. \A c \in Callers : [call[c] EXCEPT !.stale = TRUE] \in CallStates
    <3> SUFFICES ASSUME NEW c \in Callers
                 PROVE  [call[c] EXCEPT !.stale = TRUE] \in CallStates
      OBVIOUS
    <3>1. call[c] \in CallStates BY DEF TypeOK
    <3> QED BY <3>1 DEF CallStates
  <2>2. call' \in [Callers -> CallStates] BY <2>1 DEF Resolve, TypeOK
  <2>3. \A a \in Alerts : a \in OpenOf(k) => status[a] # "none" BY DEF OpenOf
  <2>4. calmed' \subseteq Alerts BY DEF Resolve, OpenOf, TypeOK
  <2> QED BY <2>2, <2>3, <2>4 DEF Resolve, TypeOK, drainVars
<1>2. Read'
  <2>1. SUFFICES ASSUME NEW c \in Callers
        PROVE  /\ call'[c] # Idle => call'[c].key \in Keys
               /\ call'[c].target # None => keyOf'[call'[c].target] = call'[c].key
               /\ call'[c].reopened => call'[c].target # None
               /\ call'[c].target # None /\ ~call'[c].reopened /\ ~call'[c].stale
                     => status'[call'[c].target] = "open"
    BY DEF Read
  <2>2. keyOf' = keyOf BY DEF Resolve
  <2>3. call[c] \in CallStates BY DEF TypeOK
  <2>4. call[c].target \in Alerts \cup {None} BY <2>3 DEF CallStates
  <2>5. CASE call[c].key = k
    <3>1. call'[c] = [call[c] EXCEPT !.stale = TRUE] BY <2>5 DEF Resolve
    <3>2. /\ call'[c].key = call[c].key /\ call'[c].target = call[c].target
          /\ call'[c].reopened = call[c].reopened /\ call'[c].stale
      BY <3>1
    <3> QED BY <2>2, <2>5, <3>2 DEF Read
  <2>6. CASE call[c].key # k
    <3>1. call'[c] = call[c] BY <2>6 DEF Resolve
    <3>2. \A a \in Alerts : status[a] = "open" /\ keyOf[a] # k => status'[a] = "open"
      BY DEF Resolve, OpenOf
    <3> QED BY <2>2, <2>4, <2>6, <3>1, <3>2 DEF Read
  <2> QED BY <2>5, <2>6
<1>3. InHand' BY DEF Resolve, drainVars, InHand, Graced
<1>4. Locked' BY DEF Resolve, drainVars, Locked
<1>5. Rows' BY DEF Resolve, drainVars, Rows, OpenOf, TypeOK
<1>6. MailBalance' BY DEF Resolve, drainVars, MailBalance, Unsent
<1>7. MailOnce' BY DEF Resolve, drainVars, MailOnce
<1>8. Outcome' BY DEF Resolve, drainVars, Outcome
<1>9. SilenceExplained' BY DEF Resolve, drainVars, SilenceExplained
<1>10. Ripened' BY DEF Resolve, drainVars, Ripened, Graced, OpenOf
<1>11. BlipSilent' BY DEF Resolve, drainVars, BlipSilent
<1> QED BY <1>1, <1>2, <1>3, <1>4, <1>5, <1>6, <1>7, <1>8, <1>9, <1>10, <1>11

\* The reopen window closes.
LEMMA AgeInv ==
    ASSUME AlertInv, NEW a \in Alerts, Age(a) PROVE AlertInv'
<1> USE NoneAssumption, BoundsAssumption DEF AlertInv, Notes
<1>1. TypeOK' BY DEF Age, drainVars, TypeOK
<1>2. Read' BY DEF Age, drainVars, Read, TypeOK
<1>3. InHand' BY DEF Age, drainVars, InHand, Graced
<1>4. Locked' BY DEF Age, drainVars, Locked
<1>5. Rows' BY DEF Age, drainVars, Rows, TypeOK
<1>6. MailBalance' BY DEF Age, drainVars, MailBalance, Unsent
<1>7. MailOnce' BY DEF Age, drainVars, MailOnce
<1>8. Outcome' BY DEF Age, drainVars, Outcome
<1>9. SilenceExplained' BY DEF Age, drainVars, SilenceExplained
<1>10. Ripened' BY DEF Age, drainVars, Ripened, Graced
<1>11. BlipSilent' BY DEF Age, drainVars, BlipSilent
<1> QED BY <1>1, <1>2, <1>3, <1>4, <1>5, <1>6, <1>7, <1>8, <1>9, <1>10, <1>11

\* A grace period or a backoff is over.
LEMMA DueInv ==
    ASSUME AlertInv, NEW n \in Notes, Due(n) PROVE AlertInv'
<1> USE NoneAssumption, BoundsAssumption DEF AlertInv, Notes
<1>1. TypeOK' BY DEF Due, alertVars, drainVars, TypeOK
<1>2. Read' BY DEF Due, alertVars, drainVars, Read
<1>3. InHand' BY DEF Due, alertVars, drainVars, InHand, Graced, TypeOK, Work
<1>4. Locked' BY DEF Due, alertVars, drainVars, Locked
<1>5. Rows' BY DEF Due, alertVars, drainVars, Rows, TypeOK
<1>6. MailBalance' BY DEF Due, alertVars, drainVars, MailBalance, Unsent, TypeOK
<1>7. MailOnce' BY DEF Due, alertVars, drainVars, MailOnce
<1>8. Outcome' BY DEF Due, alertVars, drainVars, Outcome
<1>9. SilenceExplained' BY DEF Due, alertVars, drainVars, SilenceExplained, TypeOK
<1>10. Ripened' BY DEF Due, alertVars, drainVars, Ripened, Graced
<1>11. BlipSilent' BY DEF Due, alertVars, drainVars, BlipSilent
<1> QED BY <1>1, <1>2, <1>3, <1>4, <1>5, <1>6, <1>7, <1>8, <1>9, <1>10, <1>11

\* The worker selects due notifications: none of them has a mail that counts,
\* as nobody else drains.
LEMMA TickInv ==
    ASSUME AlertInv, NEW r \in Replicas, Tick(r) PROVE AlertInv'
<1> USE NoneAssumption, BoundsAssumption DEF AlertInv, Notes
<1>1. TypeOK' BY DEF Tick, alertVars, TypeOK, DueNotes, Work
<1>2. Read' BY DEF Tick, alertVars, Read
<1>3. InHand'
  <2>1. /\ at' = [at EXCEPT ![r] = "next"] /\ cur' = cur /\ cur[r] = NoWork
        /\ \A q \in Replicas : q # r => batch'[q] = batch[q]
    BY DEF Tick, InHand
  <2>2. PICK B \in SUBSET DueNotes : batch'[r] = {<<n, tries[n]>> : n \in B}
    BY DEF Tick, TypeOK
  <2>3. note' = note /\ tries' = tries BY DEF Tick
  <2>4. \A x \in batch'[r] : /\ x[1] \in Notes /\ Graced(x[1])
                            /\ \A y \in batch'[r] : x[1] = y[1] => x = y
    BY <2>2 DEF DueNotes, Graced
  <2>5. \A q \in Replicas : \A x \in batch[q] : x[1] \in Notes BY DEF TypeOK, Work
  <2>6. \A q \in Replicas : cur[q] \in Work => cur[q][1] \in Notes BY DEF Work
  <2>7. None \notin Notes OBVIOUS
  <2>8. SUFFICES ASSUME NEW q \in Replicas
        PROVE  /\ at'[q] = "idle" => batch'[q] = {}
               /\ at'[q] \in {"idle", "next"} => cur'[q] = NoWork
               /\ at'[q] \notin {"idle", "next"} => cur'[q] \in Work /\ Graced(cur[q][1])'
               /\ \A x \in batch'[q] :
                     /\ x[1] # cur'[q][1] /\ Graced(x[1])'
                     /\ \A y \in batch'[q] : x[1] = y[1] => x = y
    BY DEF InHand
  <2>9. CASE q = r BY <2>1, <2>3, <2>4, <2>7, <2>9 DEF NoWork, TypeOK, Graced
  <2>10. CASE q # r
    <3>1. at'[q] = at[q] /\ cur'[q] = cur[q] /\ batch'[q] = batch[q] BY <2>1, <2>10
    <3> QED BY <2>3, <2>5, <2>6, <3>1 DEF InHand, Graced
  <2> QED BY <2>9, <2>10
<1>4. Locked' BY DEF Tick, alertVars, Locked, LockFree
<1>5. Rows' BY DEF Tick, alertVars, Rows
<1>6. MailBalance'
  BY DEF Tick, alertVars, MailBalance, Unsent, LockFree, DueNotes, Work, Locked, InHand,
     TypeOK
<1>7. MailOnce' BY DEF Tick, alertVars, MailOnce
<1>8. Outcome' BY DEF Tick, alertVars, Outcome
<1>9. SilenceExplained' BY DEF Tick, alertVars, SilenceExplained
<1>10. Ripened' BY DEF Tick, alertVars, Ripened, Graced
<1>11. BlipSilent' BY DEF Tick, alertVars, BlipSilent
<1> QED BY <1>1, <1>2, <1>3, <1>4, <1>5, <1>6, <1>7, <1>8, <1>9, <1>10, <1>11

\* The connection of the lock dies.
LEMMA LoseLockInv ==
    ASSUME AlertInv, NEW r \in Replicas, LoseLock(r) PROVE AlertInv'
<1> USE NoneAssumption, BoundsAssumption DEF AlertInv, Notes
<1>1. TypeOK' BY DEF LoseLock, alertVars, TypeOK
<1>2. Read' BY DEF LoseLock, alertVars, Read
<1>3. InHand' BY DEF LoseLock, alertVars, InHand, Graced
<1>4. Locked' BY DEF LoseLock, alertVars, Locked
<1>5. Rows' BY DEF LoseLock, alertVars, Rows
<1>6. MailBalance' BY DEF LoseLock, alertVars, MailBalance, Unsent
<1>7. MailOnce' BY DEF LoseLock, alertVars, MailOnce
<1>8. Outcome' BY DEF LoseLock, alertVars, Outcome
<1>9. SilenceExplained' BY DEF LoseLock, alertVars, SilenceExplained
<1>10. Ripened' BY DEF LoseLock, alertVars, Ripened, Graced
<1>11. BlipSilent' BY DEF LoseLock, alertVars, BlipSilent
<1> QED BY <1>1, <1>2, <1>3, <1>4, <1>5, <1>6, <1>7, <1>8, <1>9, <1>10, <1>11

\* attemptOne() renders the mail of an alert that is open.
LEMMA RenderInv ==
    ASSUME AlertInv, NEW r \in Replicas, Render(r) PROVE AlertInv'
<1> USE NoneAssumption, BoundsAssumption DEF AlertInv, Notes
<1>1. TypeOK' BY DEF Render, alertVars, TypeOK, Rendered
<1>2. Read' BY DEF Render, alertVars, Read
<1>3. InHand' BY DEF Render, alertVars, InHand, Graced, Rendered, TypeOK
<1>4. Locked' BY DEF Render, alertVars, Locked
<1>5. Rows' BY DEF Render, alertVars, Rows
<1>6. MailBalance' BY DEF Render, alertVars, MailBalance, Unsent, Rendered
<1>7. MailOnce' BY DEF Render, alertVars, MailOnce
<1>8. Outcome'
  BY DEF Render, alertVars, Outcome, Rendered, Work, InHand, Graced, Rows, TypeOK
<1>9. SilenceExplained' BY DEF Render, alertVars, SilenceExplained
<1>10. Ripened'
  BY DEF Render, alertVars, Ripened, Graced, Rendered, Work, InHand, TypeOK
<1>11. BlipSilent' BY DEF Render, alertVars, BlipSilent
<1> QED BY <1>1, <1>2, <1>3, <1>4, <1>5, <1>6, <1>7, <1>8, <1>9, <1>10, <1>11

\* A mail leaves.
LEMMA SendInv ==
    ASSUME AlertInv, NEW r \in Replicas, Send(r) PROVE AlertInv'
<1> USE NoneAssumption, BoundsAssumption DEF AlertInv, Notes
<1>1. TypeOK' BY DEF Send, alertVars, TypeOK, Work, InHand
<1>2. Read' BY DEF Send, alertVars, Read
<1>3. InHand' BY DEF Send, alertVars, InHand, Graced
<1>4. Locked' BY DEF Send, alertVars, Locked
<1>5. Rows' BY DEF Send, alertVars, Rows
<1>6. MailBalance'
  <2> DEFINE n == cur[r][1]
  <2>1. n \in Notes BY DEF Send, InHand, Work
  <2>2. ~overlap => \A q \in Replicas : Unsent(q, n)' => FALSE
    BY <2>1 DEF Send, Unsent, Locked, InHand, TypeOK, NoWork
  <2>3. sent'[n] = sent[n] + 1 /\ \A m \in Notes \ {n} : sent'[m] = sent[m]
    BY <2>1 DEF Send, TypeOK
  <2>4. at'[r] = "sent" /\ cur'[r][1] = n BY DEF Send, TypeOK
  <2>5. \A q \in Replicas, m \in Notes \ {n} :
           /\ Unsent(q, m)' => Unsent(q, m)
           /\ at[q] = "sent" /\ cur[q][1] = m => at'[q] = "sent" /\ cur'[q][1] = m
    BY DEF Send, Unsent
  <2> QED BY <2>2, <2>4, <2>5 DEF Send, MailBalance
<1>7. MailOnce'
  BY DEF Send, alertVars, MailOnce, Work, MailBalance, Unsent, InHand, TypeOK
<1>8. Outcome' BY DEF Send, alertVars, Outcome, Work, InHand, TypeOK
<1>9. SilenceExplained' BY DEF Send, alertVars, SilenceExplained, TypeOK
<1>10. Ripened' BY DEF Send, alertVars, Ripened, Graced
<1>11. BlipSilent' BY DEF Send, alertVars, BlipSilent, Ripened, TypeOK
<1> QED BY <1>1, <1>2, <1>3, <1>4, <1>5, <1>6, <1>7, <1>8, <1>9, <1>10, <1>11

\* A mail does not leave.
LEMMA SendFailsInv ==
    ASSUME AlertInv, NEW r \in Replicas, SendFails(r) PROVE AlertInv'
<1> USE NoneAssumption, BoundsAssumption DEF AlertInv, Notes
<1>1. TypeOK' BY DEF SendFails, alertVars, TypeOK
<1>2. Read' BY DEF SendFails, alertVars, Read
<1>3. InHand' BY DEF SendFails, alertVars, InHand, Graced
<1>4. Locked' BY DEF SendFails, alertVars, Locked
<1>5. Rows' BY DEF SendFails, alertVars, Rows
<1>6. MailBalance' BY DEF SendFails, alertVars, MailBalance, Unsent
<1>7. MailOnce' BY DEF SendFails, alertVars, MailOnce
<1>8. Outcome' BY DEF SendFails, alertVars, Outcome
<1>9. SilenceExplained' BY DEF SendFails, alertVars, SilenceExplained
<1>10. Ripened' BY DEF SendFails, alertVars, Ripened, Graced
<1>11. BlipSilent' BY DEF SendFails, alertVars, BlipSilent
<1> QED BY <1>1, <1>2, <1>3, <1>4, <1>5, <1>6, <1>7, <1>8, <1>9, <1>10, <1>11

\* A mail leaves and the mailer throws.
LEMMA SendUnsureInv ==
    ASSUME AlertInv, NEW r \in Replicas, SendUnsure(r) PROVE AlertInv'
<1> USE NoneAssumption, BoundsAssumption DEF AlertInv, Notes
<1>1. TypeOK' BY DEF SendUnsure, alertVars, TypeOK, Work, InHand
<1>2. Read' BY DEF SendUnsure, alertVars, Read
<1>3. InHand' BY DEF SendUnsure, alertVars, InHand, Graced
<1>4. Locked' BY DEF SendUnsure, alertVars, Locked
<1>5. Rows' BY DEF SendUnsure, alertVars, Rows
<1>6. MailBalance' BY DEF SendUnsure, alertVars, MailBalance, Unsent, TypeOK
<1>7. MailOnce' BY DEF SendUnsure, alertVars, MailOnce, TypeOK
<1>8. Outcome' BY DEF SendUnsure, alertVars, Outcome, TypeOK
<1>9. SilenceExplained' BY DEF SendUnsure, alertVars, SilenceExplained, TypeOK
<1>10. Ripened' BY DEF SendUnsure, alertVars, Ripened, Graced
<1>11. BlipSilent' BY DEF SendUnsure, alertVars, BlipSilent, Ripened, TypeOK
<1> QED BY <1>1, <1>2, <1>3, <1>4, <1>5, <1>6, <1>7, <1>8, <1>9, <1>10, <1>11

\* finish() records what came of a note.
LEMMA RecordInv ==
    ASSUME AlertInv, NEW r \in Replicas, Record(r) PROVE AlertInv'
<1> USE NoneAssumption, BoundsAssumption DEF AlertInv, Notes
<1>1. TypeOK' BY DEF Record, alertVars, TypeOK, Finish, Finished, Work, InHand
<1>2. Read' BY DEF Record, alertVars, Read
<1>3. InHand'
  BY DEF Record, alertVars, InHand, Graced, Finish, Finished, Work, NoWork, TypeOK
<1>4. Locked' BY DEF Record, alertVars, Locked
<1>5. Rows' BY DEF Record, alertVars, Rows, Finish, InHand, Work, Graced, TypeOK
<1>6. MailBalance'
  BY DEF Record, alertVars, MailBalance, Unsent, Finish, Finished, NoWork, TypeOK
<1>7. MailOnce' BY DEF Record, alertVars, MailOnce
<1>8. Outcome' BY DEF Record, alertVars, Outcome, TypeOK
<1>9. SilenceExplained'
  BY DEF Record, alertVars, SilenceExplained, Finish, Finished, Work, Outcome, InHand,
     TypeOK
<1>10. Ripened'
  BY DEF Record, alertVars, Ripened, Graced, Finish, Finished, Work, InHand, TypeOK
<1>11. BlipSilent' BY DEF Record, alertVars, BlipSilent
<1> QED BY <1>1, <1>2, <1>3, <1>4, <1>5, <1>6, <1>7, <1>8, <1>9, <1>10, <1>11

\* finish() throws and is taken for a failed attempt.
LEMMA RecordThrowsInv ==
    ASSUME AlertInv, NEW r \in Replicas, RecordThrows(r) PROVE AlertInv'
<1> USE NoneAssumption, BoundsAssumption DEF AlertInv, Notes
<1>1. TypeOK'
  <2>1. CASE Finish(r, TRUE)
    BY <2>1 DEF RecordThrows, alertVars, TypeOK, Finish, Finished, Slipped, Work, InHand
  <2>2. CASE UNCHANGED <<note, tries>>
    BY <2>2 DEF RecordThrows, alertVars, TypeOK, Slipped, Work, InHand
  <2> QED BY <2>1, <2>2 DEF RecordThrows
<1>2. Read' BY DEF RecordThrows, alertVars, Read
<1>3. InHand'
  BY DEF RecordThrows, alertVars, InHand, Graced, Finish, Finished, Work, TypeOK
<1>4. Locked' BY DEF RecordThrows, alertVars, Locked
<1>5. Rows'
  <2>1. CASE Finish(r, TRUE)
    <3>1. cur[r] \in Work /\ Graced(cur[r][1]) BY DEF RecordThrows, InHand
    <3>2. cur[r][1] \in Notes /\ cur[r][1][1] \in Alerts BY <3>1 DEF Work
    <3>3. status[cur[r][1][1]] # "none" BY <3>1, <3>2 DEF Rows, Graced
    <3>4. \A n \in Notes : status[n[1]] = "none" => note'[n] = note[n] /\ tries'[n] = tries[n]
      BY <2>1, <3>3 DEF Finish, TypeOK
    <3> QED BY <3>4 DEF RecordThrows, alertVars, Rows
  <2>2. CASE UNCHANGED <<note, tries>>
    BY <2>2 DEF RecordThrows, alertVars, Rows
  <2> QED BY <2>1, <2>2 DEF RecordThrows
<1>6. MailBalance'
  <2>1. CASE at[r] = "sent"
    <3> DEFINE n == cur[r][1]
    <3>1. n \in Notes BY <2>1 DEF InHand, Work
    <3>2. slips'[n] = slips[n] + 1 /\ \A m \in Notes \ {n} : slips'[m] = slips[m]
      BY <2>1, <3>1 DEF RecordThrows, Slipped, TypeOK
    <3>3. ~overlap => sent[n] =< 1 + slips[n] BY <3>1 DEF MailOnce
    <3>4. sent[n] \in Nat /\ slips[n] \in Nat BY <3>1 DEF TypeOK
    <3>5. \A q \in Replicas, m \in Notes \ {n} : Unsent(q, m)' => Unsent(q, m)
      BY DEF RecordThrows, Unsent, TypeOK, NoWork
    <3>6. \A q \in Replicas, m \in Notes \ {n} :
             at[q] = "sent" /\ cur[q][1] = m => at'[q] = "sent" /\ cur'[q][1] = m
      BY DEF RecordThrows
    <3>7. \A m \in Notes \ {n} : note'[m] = note[m]
      BY DEF RecordThrows, Finish, TypeOK
    <3>8. sent' = sent /\ overlap' = overlap BY DEF RecordThrows
    <3> QED BY <3>2, <3>3, <3>4, <3>5, <3>6, <3>7, <3>8 DEF MailBalance
  <2>2. CASE at[r] # "sent"
    BY <2>2 DEF RecordThrows, Finish, Finished, Slipped, MailBalance, Unsent, NoWork,
       TypeOK
  <2> QED BY <2>1, <2>2
<1>7. MailOnce' BY DEF RecordThrows, alertVars, MailOnce, Slipped, TypeOK
<1>8. Outcome' BY DEF RecordThrows, alertVars, Outcome, TypeOK
<1>9. SilenceExplained'
  BY DEF RecordThrows, alertVars, SilenceExplained, Finish, Finished, Work, Outcome,
     InHand, TypeOK
<1>10. Ripened'
  BY DEF RecordThrows, alertVars, Ripened, Graced, Finish, Finished, Work, InHand,
     TypeOK
<1>11. BlipSilent' BY DEF RecordThrows, alertVars, BlipSilent
<1> QED BY <1>1, <1>2, <1>3, <1>4, <1>5, <1>6, <1>7, <1>8, <1>9, <1>10, <1>11

\* A drain is through with its batch.
LEMMA DrainEndsInv ==
    ASSUME AlertInv, NEW r \in Replicas, DrainEnds(r) PROVE AlertInv'
<1> USE NoneAssumption, BoundsAssumption DEF AlertInv, Notes
<1>1. TypeOK' BY DEF DrainEnds, alertVars, TypeOK, Unlocked
<1>2. Read' BY DEF DrainEnds, alertVars, Read
<1>3. InHand' BY DEF DrainEnds, alertVars, InHand, Graced
<1>4. Locked' BY DEF DrainEnds, alertVars, Locked, Unlocked, TypeOK
<1>5. Rows' BY DEF DrainEnds, alertVars, Rows
<1>6. MailBalance' BY DEF DrainEnds, alertVars, MailBalance, Unsent
<1>7. MailOnce' BY DEF DrainEnds, alertVars, MailOnce
<1>8. Outcome' BY DEF DrainEnds, alertVars, Outcome
<1>9. SilenceExplained' BY DEF DrainEnds, alertVars, SilenceExplained
<1>10. Ripened' BY DEF DrainEnds, alertVars, Ripened, Graced
<1>11. BlipSilent' BY DEF DrainEnds, alertVars, BlipSilent
<1> QED BY <1>1, <1>2, <1>3, <1>4, <1>5, <1>6, <1>7, <1>8, <1>9, <1>10, <1>11

\* A drain dies or throws.
LEMMA DrainLostInv ==
    ASSUME AlertInv, NEW r \in Replicas, DrainLost(r) PROVE AlertInv'
<1> USE NoneAssumption, BoundsAssumption DEF AlertInv, Notes
<1>1. TypeOK' BY DEF DrainLost, alertVars, TypeOK, Unlocked, Slipped, Work, InHand
<1>2. Read' BY DEF DrainLost, alertVars, Read
<1>3. InHand' BY DEF DrainLost, alertVars, InHand, Graced, TypeOK
<1>4. Locked' BY DEF DrainLost, alertVars, Locked, Unlocked, TypeOK
<1>5. Rows' BY DEF DrainLost, alertVars, Rows
<1>6. MailBalance'
  <2>1. CASE at[r] = "sent"
    <3> DEFINE n == cur[r][1]
    <3>1. n \in Notes BY <2>1 DEF InHand, Work
    <3>2. slips'[n] = slips[n] + 1 /\ \A m \in Notes \ {n} : slips'[m] = slips[m]
      BY <2>1, <3>1 DEF DrainLost, Slipped, TypeOK
    <3>3. ~overlap => sent[n] =< 1 + slips[n] BY <3>1 DEF MailOnce
    <3>4. sent[n] \in Nat /\ slips[n] \in Nat BY <3>1 DEF TypeOK
    <3>5. \A q \in Replicas, m \in Notes \ {n} : Unsent(q, m)' => Unsent(q, m)
      BY DEF DrainLost, Unsent, TypeOK, NoWork
    <3>6. \A q \in Replicas, m \in Notes \ {n} :
             at[q] = "sent" /\ cur[q][1] = m => at'[q] = "sent" /\ cur'[q][1] = m
      BY DEF DrainLost
    <3>7. \A m \in Notes \ {n} : note'[m] = note[m]
      BY DEF DrainLost, Finish, TypeOK
    <3>8. sent' = sent /\ overlap' = overlap BY DEF DrainLost
    <3> QED BY <3>2, <3>3, <3>4, <3>5, <3>6, <3>7, <3>8 DEF MailBalance
  <2>2. CASE at[r] # "sent"
    BY <2>2 DEF DrainLost, Slipped, MailBalance, Unsent, NoWork, TypeOK
  <2> QED BY <2>1, <2>2
<1>7. MailOnce' BY DEF DrainLost, alertVars, MailOnce, Slipped, TypeOK
<1>8. Outcome' BY DEF DrainLost, alertVars, Outcome, TypeOK
<1>9. SilenceExplained' BY DEF DrainLost, alertVars, SilenceExplained
<1>10. Ripened' BY DEF DrainLost, alertVars, Ripened, Graced, TypeOK
<1>11. BlipSilent' BY DEF DrainLost, alertVars, BlipSilent
<1> QED BY <1>1, <1>2, <1>3, <1>4, <1>5, <1>6, <1>7, <1>8, <1>9, <1>10, <1>11

\* Every step keeps the inductive invariant.
LEMMA NextInv == AlertInv /\ [Next]_vars => AlertInv'
<1> SUFFICES ASSUME AlertInv, [Next]_vars PROVE AlertInv' OBVIOUS
<1>1. CASE UNCHANGED vars
  BY <1>1 DEF vars, alertVars, drainVars, AlertInv, TypeOK, Read, InHand, Locked, Rows,
     MailBalance, Unsent, MailOnce, Outcome, SilenceExplained, Ripened, Graced,
     BlipSilent
<1>2. CASE Next
  BY <1>2, LookInv, BumpInv, ReopenInv, InsertInv, RefusedInv, ResolveInv, AgeInv,
     DueInv, TickInv, LoseLockInv, RenderInv, SendInv, SendFailsInv, SendUnsureInv,
     RecordInv, RecordThrowsInv, DrainEndsInv, DrainLostInv DEF Next, Advance
<1> QED BY <1>1, <1>2

\* The inductive invariant holds of every reachable state.
THEOREM AlertInvariant == Spec => []AlertInv
BY InitInv, NextInv, PTL DEF Spec

\* An alert row mails a recipient once, but for mails that left unrecorded, as
\* long as no drain has lost its lock.
THEOREM MailsOnce == Spec => []MailOnce
<1>1. AlertInv => MailOnce BY DEF AlertInv
<1> QED BY AlertInvariant, <1>1, PTL

\* A notification that closes with no mail had an alert that resolved, or all its
\* attempts, also while drains overlap.
THEOREM SilencesExplained == Spec => []SilenceExplained
<1>1. AlertInv => SilenceExplained BY DEF AlertInv
<1> QED BY AlertInvariant, <1>1, PTL

\* Nobody is mailed of an alert that was not open after its grace.
THEOREM BlipsSilent == Spec => []BlipSilent
<1>1. AlertInv => BlipSilent BY DEF AlertInv
<1> QED BY AlertInvariant, <1>1, PTL

\* When openAlert() ends and no resolve came between its read and its write, the
\* key is open.
THEOREM RaisesTake == Spec => RaiseTakes
<1> DEFINE Takes == \A c \in Callers :
                       call[c] # Idle /\ call'[c] = Idle /\ ~call[c].stale
                          => \E a \in Alerts : keyOf'[a] = call[c].key /\ status'[a] = "open"
<1>1. AlertInv /\ [Next]_vars => [Takes]_vars
  <2> SUFFICES ASSUME AlertInv, Next, NEW c \in Callers,
                      call[c] # Idle, call'[c] = Idle, ~call[c].stale
               PROVE  \E a \in Alerts : keyOf'[a] = call[c].key /\ status'[a] = "open"
    OBVIOUS
  <2> USE DEF AlertInv
  <2>1. CASE Bump(c)
    BY <2>1 DEF Bump, Read, TypeOK, CallStates
  <2>2. CASE Reopen(c)
    BY <2>2 DEF Reopen, Reopened, Read, TypeOK, CallStates
  <2>3. CASE \E severe \in BOOLEAN : Insert(c, severe)
    BY <2>3 DEF Insert, TypeOK
  <2>4. CASE Refused(c)
    BY <2>4 DEF Refused, Clash, OpenOf
  <2>5. CASE \E d \in Callers, k \in Keys : Look(d, k)
    <3>1. PICK d \in Callers, k \in Keys : Look(d, k) BY <2>5
    <3>2. d # c BY <3>1 DEF Look
    <3> QED BY <3>1 DEF Look
  <2>6. CASE \E d \in Callers : d # c /\ (Bump(d) \/ Reopen(d) \/ Refused(d)
                                         \/ \E severe \in BOOLEAN : Insert(d, severe))
    BY <2>6 DEF Bump, Reopen, Refused, Insert, TypeOK
  <2>7. CASE \E k \in Keys : Resolve(k)
    <3>1. PICK k \in Keys : Resolve(k) BY <2>7
    <3>2. call[c] \in CallStates BY DEF TypeOK
    <3>3. [call[c] EXCEPT !.stale = TRUE].stale OBVIOUS
    <3>4. [call[c] EXCEPT !.stale = TRUE] # Idle BY DEF Idle
    <3> QED BY <3>1, <3>4 DEF Resolve
  <2>8. CASE call' = call BY <2>8
  <2>9. CASE \/ \E a \in Alerts : Age(a)
             \/ \E n \in Notes : Due(n)
             \/ \E r \in Replicas : \/ Tick(r) \/ Advance(r) \/ SendUnsure(r)
                                    \/ RecordThrows(r) \/ LoseLock(r) \/ DrainLost(r)
    BY <2>9 DEF Age, Due, Advance, Tick, LoseLock, Render, Send, SendFails, SendUnsure,
       Record, RecordThrows, DrainEnds, DrainLost, alertVars
  <2> QED BY <2>1, <2>2, <2>3, <2>4, <2>5, <2>6, <2>7, <2>9 DEF Next
<1> QED BY AlertInvariant, <1>1, PTL DEF Spec, RaiseTakes
=============================================================================
