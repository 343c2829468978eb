------------------------ MODULE JourneyRuntimeProofs ------------------------
(***************************************************************************)
(* One run of a journey, for any graph, inbox and number of replicas.      *)
(***************************************************************************)
EXTENDS JourneyRuntime, TLAPS

Kinds == {"step", "hold"}

\* A run in good order, committed or not.
Sound(u) == u \in Runs /\ (u.state = "ended" <=> u.node = None) /\ Coherent(u)

\* Where a transaction has the row lock.
Held == {"running", "parked", "ending"}

-----------------------------------------------------------------------------
(* What the operations on a run make of it                                 *)

\* The rows the waits are made of.
LEMMA WaitTypes ==
    /\ NoWait \in WaitRows /\ NoWait.is = "cancelled"
    /\ \A s \in Steps \cup {NoStep} : Opened(s) \in WaitRows /\ Opened(s).is = "open"
    /\ \A w \in WaitRows, how \in {"event", "timeout"} :
         [w EXCEPT !.is = how] \in WaitRows /\ [w EXCEPT !.is = how].is = how
BY DEF WaitRows, NoWait, Opened

\* A new run is in good order.
LEMMA EnrolledSound == Sound(Enrolled)
<1>1. [n \in Nodes |-> IF n = Start THEN 1 ELSE 0] \in [Nodes -> Nat] OBVIOUS
<1>2. [k \in Kinds |-> NoWait] \in [Kinds -> WaitRows] BY WaitTypes
<1>3. 0 \in 0 .. MaxErrors BY BoundsAssumption
<1>4. Enrolled \in Runs
  BY <1>1, <1>2, <1>3, GraphAssumption DEF Runs, Enrolled, Kinds
<1> QED BY <1>4, WaitTypes, GraphAssumption DEF Sound, Enrolled, Coherent, OpenKind

\* An ended run is in good order, held by nothing and not parked.
LEMMA FinishedSound ==
    ASSUME NEW u PROVE Sound(Finished(u)) /\ ~OpenKind(Finished(u), "hold") /\ ~Parked(Finished(u))
<1>1. Enrolled \in Runs /\ \A k \in Kinds : ~OpenKind(Enrolled, k)
  BY EnrolledSound, WaitTypes DEF Sound, Enrolled, OpenKind, Kinds
<1>2. /\ Finished(u) \in Runs /\ Finished(u).state = "ended" /\ Finished(u).node = None
      /\ Finished(u).wait = Enrolled.wait
  BY <1>1 DEF Finished, Runs
<1> QED BY <1>1, <1>2 DEF Sound, Coherent, OpenKind, Parked, Kinds

\* An active run that goes to a node stays active, due now, with no open step.
LEMMA AtSound ==
    ASSUME NEW u \in Runs, NEW n \in Nodes
    PROVE  /\ At(u, n) \in Runs
           /\ At(u, n).state = u.state /\ At(u, n).node = n /\ At(u, n).next = "due"
           /\ At(u, n).wait["hold"] = u.wait["hold"] /\ At(u, n).wait["step"] = NoWait
<1>1. [u.visits EXCEPT ![n] = @ + 1] \in [Nodes -> Nat] BY DEF Runs
<1>2. [u.wait EXCEPT !["step"] = NoWait] \in [Kinds -> WaitRows]
  BY WaitTypes DEF Runs, Kinds
<1> QED BY <1>1, <1>2 DEF At, Runs, Kinds

\* An open run is at a step.
LEMMA CurStep ==
    ASSUME NEW u \in Runs, u.node # None PROVE Cur(u) \in Steps
BY DEF Cur, Runs, Steps

\* Leaving a step leaves an active run due now, or ended.
LEMMA AdvancedSound ==
    ASSUME NEW u, Sound(u), u.state = "active"
    PROVE  Sound(Advanced(u)) /\ (Advanced(u).state = "active" => Advanced(u).next = "due")
<1>1. u \in Runs /\ u.node \in Nodes /\ ~OpenKind(u, "hold")
  BY DEF Sound, Runs, Coherent
<1>2. CASE Edge[u.node] = End
  BY <1>2, FinishedSound DEF Advanced, Parked, Finished
<1>3. CASE Edge[u.node] # End
  <2>1. Edge[u.node] \in Nodes BY <1>1, <1>3, GraphAssumption
  <2>2. Advanced(u) = At(u, Edge[u.node]) BY <1>3 DEF Advanced
  <2>3. \A k \in Kinds : ~OpenKind(Advanced(u), k)
    BY <1>1, <2>1, <2>2, AtSound, WaitTypes DEF OpenKind, Kinds
  <2> QED BY <1>1, <2>1, <2>2, <2>3, AtSound, GraphAssumption DEF Sound, Coherent, Kinds
<1> QED BY <1>2, <1>3

\* A step leaves the run in good order: due now, waiting or ended.
LEMMA RanSound ==
    ASSUME NEW u, Sound(u), u.state = "active", NEW past \in BOOLEAN
    PROVE  Sound(Ran(u, past)) /\ (Ran(u, past).state = "active" => Ran(u, past).next = "due")
<1> DEFINE v == Ran(u, past)
<1>1. u \in Runs /\ u.node \in Nodes /\ ~OpenKind(u, "hold") /\ Cur(u) \in Steps
  BY CurStep, GraphAssumption DEF Sound, Runs, Coherent
<1>2. CASE v = Finished(u)
  BY <1>2, FinishedSound DEF Finished
<1>6. CASE OnTimeout[u.node] # None /\ v = At(u, OnTimeout[u.node])
  <2>1. OnTimeout[u.node] \in Nodes BY <1>1, <1>6, GraphAssumption
  <2>2. \A k \in Kinds : ~OpenKind(v, k)
    BY <1>1, <1>6, <2>1, AtSound, WaitTypes DEF OpenKind, Kinds
  <2>3. /\ v \in Runs /\ v.state = "active" /\ v.node # None /\ v.next = "due"
    BY <1>1, <1>6, <2>1, AtSound, GraphAssumption
  <2> QED BY <2>2, <2>3 DEF Sound, Coherent, Kinds
<1>3. CASE v = Advanced(u)
  BY <1>3, AdvancedSound
<1>4. CASE v = Advanced([u EXCEPT !.last = Cur(u)])
  <2>1. Sound([u EXCEPT !.last = Cur(u)])
    BY <1>1 DEF Sound, Runs, Coherent, OpenKind
  <2> QED BY <1>4, <2>1, AdvancedSound DEF Sound, Runs
<1>5. CASE v = [u EXCEPT !.begun = TRUE, !.wait["step"] = Opened(Cur(u)),
                              !.state = "waiting", !.next = "null"]
  <2>1. [u.wait EXCEPT !["step"] = Opened(Cur(u))] \in [Kinds -> WaitRows]
    BY <1>1, WaitTypes DEF Runs, Kinds
  <2>2. /\ v \in Runs /\ v.state = "waiting" /\ v.node = u.node
        /\ v.wait["step"] = Opened(Cur(u)) /\ v.wait["hold"] = u.wait["hold"]
    BY <1>1, <1>5, <2>1 DEF Runs, Kinds
  <2>3. Opened(Cur(u)).of = Cur(u) BY DEF Opened
  <2> QED BY <1>1, <2>2, <2>3, WaitTypes, GraphAssumption DEF Sound, Coherent, OpenKind
<1> QED BY <1>2, <1>3, <1>4, <1>5, <1>6 DEF Ran

\* A step that throws puts the run off or ends it.
LEMMA ErredSound ==
    ASSUME NEW u, Sound(u), u.state = "active"
    PROVE  Sound(Erred(u)) /\ ~Parked(Erred(u))
<1> DEFINE v == [u EXCEPT !.errors = @ + 1]
           l == [v EXCEPT !.next = "due"]
<1>1. u \in Runs /\ v.errors = u.errors + 1 /\ u.errors \in Nat
  BY BoundsAssumption DEF Sound, Runs
<1>2. CASE v.errors < MaxErrors
  <2>1. /\ l \in Runs /\ l.state = "active" /\ l.node = u.node /\ l.next = "due"
        /\ l.wait = u.wait
    <3>1. v.errors \in 0 .. MaxErrors BY <1>1, <1>2, BoundsAssumption
    <3>2. v \in Runs /\ v.state = "active" /\ v.node = u.node /\ v.wait = u.wait
      BY <1>1, <3>1 DEF Runs
    <3> QED BY <3>2 DEF Runs
  <2>2. Erred(u) = l BY <1>2 DEF Erred
  <2> QED BY <2>1, <2>2 DEF Sound, Coherent, OpenKind, Parked
<1>3. CASE ~(v.errors < MaxErrors)
  BY <1>3, FinishedSound DEF Erred
<1> QED BY <1>2, <1>3

\* What a run keeps while waits of it are resolved.
Stays(u, v) ==
    /\ v.node = u.node /\ v.visits = u.visits /\ v.last = u.last /\ v.missed = u.missed
    /\ Parked(v) => Parked(u)

\* Resolving a wait leaves the run waiting exactly while another is open.
LEMMA ResolvedSound ==
    ASSUME NEW u, Sound(u), NEW k \in Kinds, NEW how \in {"event", "timeout"}
    PROVE  LET w == <<k, u.wait[k].of>> IN
           Sound(Resolved(u, w, how)) /\ Stays(u, Resolved(u, w, how))
<1> DEFINE w == <<k, u.wait[k].of>>
           v == [u EXCEPT !.wait[k].is = how]
           x == [v EXCEPT !.state = "active", !.next = "due"]
<1>0. u \in Runs /\ w[1] = k BY DEF Sound
<1>1. CASE ~OpenKind(u, k)
  BY <1>0, <1>1 DEF Resolved, OpenWait, Stays
<1>2. CASE OpenKind(u, k)
  <2>1. /\ v \in Runs /\ v.state = u.state /\ v.node = u.node /\ v.next = u.next
        /\ v.visits = u.visits /\ v.last = u.last /\ v.missed = u.missed
        /\ ~OpenKind(v, k)
        /\ \A o \in Kinds \ {k} : v.wait[o] = u.wait[o]
    <3>1. [u.wait EXCEPT ![k].is = how] \in [Kinds -> WaitRows]
      BY <1>0, WaitTypes DEF Runs, Kinds
    <3>2. v.wait[k].is = how BY <1>0, WaitTypes DEF Runs, Kinds
    <3> QED BY <1>0, <3>1, <3>2 DEF Runs, OpenKind, Kinds
  <2>2. /\ x \in Runs /\ x.state = "active" /\ x.node = u.node /\ x.next = "due"
        /\ x.visits = u.visits /\ x.last = u.last /\ x.missed = u.missed /\ x.wait = v.wait
    BY <2>1 DEF Runs
  <2>3. StillWaiting(v, k) <=> \E o \in Kinds : OpenKind(v, o)
    BY <2>1 DEF StillWaiting, Kinds
  <2>4. CASE u.state # "waiting" \/ StillWaiting(v, k)
    <3>1. Resolved(u, w, how) = v BY <1>0, <1>2, <2>4 DEF Resolved, OpenWait
    <3>2. Coherent(v)
      BY <2>1, <2>3, <2>4 DEF Coherent, OpenKind, Sound, Kinds
    <3> QED BY <2>1, <3>1, <3>2 DEF Sound, Stays, Parked
  <2>5. CASE u.state = "waiting" /\ ~StillWaiting(v, k)
    <3>1. Resolved(u, w, how) = x BY <1>0, <1>2, <2>5 DEF Resolved, OpenWait
    <3>2. Coherent(x)
      BY <2>2, <2>3, <2>5 DEF Coherent, OpenKind, Kinds
    <3>3. u.node # None BY <2>5 DEF Sound
    <3> QED BY <2>2, <3>1, <3>2, <3>3 DEF Sound, Stays, Parked
  <2> QED BY <2>4, <2>5
<1> QED BY <1>1, <1>2

\* The same for whatever set of waits was read.
LEMMA ResolvedKindSound ==
    ASSUME NEW u, Sound(u), NEW W, NEW k \in Kinds, NEW how \in {"event", "timeout"}
    PROVE  Sound(ResolvedKind(u, W, k, how)) /\ Stays(u, ResolvedKind(u, W, k, how))
BY ResolvedSound DEF ResolvedKind, Stays

\* The same for the waits of both kinds.
LEMMA ResolvedAllSound ==
    ASSUME NEW u, Sound(u), NEW W, NEW how \in {"event", "timeout"}
    PROVE  Sound(ResolvedAll(u, W, how)) /\ Stays(u, ResolvedAll(u, W, how))
<1> DEFINE v == ResolvedKind(u, W, "step", how)
<1>1. Sound(v) /\ Stays(u, v) BY ResolvedKindSound DEF Kinds
<1>2. Sound(ResolvedAll(u, W, how)) /\ Stays(v, ResolvedAll(u, W, how))
  BY <1>1, ResolvedKindSound DEF Kinds, ResolvedAll
<1> QED BY <1>1, <1>2 DEF Stays

\* A reply leaves a held run where it is, or releases the hold.
LEMMA RepliedSound ==
    ASSUME NEW u, Sound(u)
    PROVE  /\ Sound(Replied(u)) /\ (Parked(Replied(u)) => Replied(u) = u)
           /\ OpenKind(u, "hold") /\ OpenKind(Replied(u), "hold") => Replied(u) = u
<1> DEFINE n == u.last[1]
           a == At(u, OnReply[n])
           v == [a EXCEPT !.state = "active", !.wait["hold"] = NoWait]
           h == [u EXCEPT !.wait["hold"] = Opened(u.last), !.state = "waiting", !.next = "null"]
<1>1. CASE ~IsOpen(u) \/ u.last = NoStep BY <1>1 DEF Replied
<1>2. CASE IsOpen(u) /\ u.last # NoStep
  <2>1. u \in Runs /\ u.last \in Steps /\ n \in Nodes /\ u.node # None
    BY <1>2 DEF Sound, Runs, Steps, IsOpen
  <2>2. CASE OnReply[n] # None
    <3>1. OnReply[n] \in Nodes BY <2>1, <2>2, GraphAssumption
    <3>2. a \in Runs /\ a.node = OnReply[n] /\ a.next = "due" /\ a.wait["step"] = NoWait
      BY <2>1, <3>1, AtSound
    <3>3. [a.wait EXCEPT !["hold"] = NoWait] \in [Kinds -> WaitRows]
      BY <3>2, WaitTypes DEF Runs, Kinds
    <3>5. /\ v \in Runs /\ v.state = "active" /\ v.node = OnReply[n] /\ v.next = "due"
          /\ ~OpenKind(v, "hold") /\ ~OpenKind(v, "step")
      BY <3>2, <3>3, WaitTypes DEF Runs, OpenKind, Kinds
    <3>4. Replied(u) = v BY <1>2, <2>2 DEF Replied
    <3> QED BY <2>2, <3>1, <3>4, <3>5, GraphAssumption DEF Sound, Coherent, Parked
  <2>3. CASE OnReply[n] = None /\ OpenKind(u, "hold")
    BY <1>2, <2>3 DEF Replied
  <2>4. CASE OnReply[n] = None /\ ~OpenKind(u, "hold")
    <3>1. Replied(u) = h BY <1>2, <2>4 DEF Replied
    <3>2. h \in Runs /\ h.state = "waiting" /\ h.node = u.node
          /\ h.wait["hold"] = Opened(u.last) /\ h.wait["step"] = u.wait["step"]
      <4>1. [u.wait EXCEPT !["hold"] = Opened(u.last)] \in [Kinds -> WaitRows]
        BY <2>1, WaitTypes DEF Runs, Kinds
      <4> QED BY <2>1, <4>1 DEF Runs, Kinds
    <3>3. Opened(u.last).of = u.last /\ Opened(u.last).is = "open" BY DEF Opened
    <3> QED BY <2>1, <2>4, <3>1, <3>2, <3>3 DEF Sound, Coherent, Parked, OpenKind
  <2> QED BY <2>2, <2>3, <2>4
<1> QED BY <1>1, <1>2

-----------------------------------------------------------------------------
(* The invariant in three parts                                            *)

TxInv == tx \in [Replicas -> TxStates] /\ upsets \in 0 .. MaxUpsets

RunInv ==
    /\ Sound(run) /\ Sound(draft)
    /\ owner \in Replicas \cup {Request, None}
    /\ \A r \in Replicas : tx[r].at \in Held <=> owner = r
    /\ paused \subseteq Nodes /\ live \in BOOLEAN /\ resuming \in paused \cup {None}
    /\ Locked /\ Parking

MailInv ==
    /\ inbox \in [Inbox -> {"none", "pending", "processed"}]
    /\ type \in [Inbox -> {"none", "reply", "signal", "closed"}]
    /\ tries \in [Inbox -> Nat] /\ applied \in [Inbox -> Nat]
    /\ undone \subseteq Inbox
    /\ Applying /\ Closed /\ AppliedOnce

\* A parked run is at a paused step, or was missed.
LEMMA ParkedPaused ==
    /\ RunInv => ParkedIsPaused
    /\ RunInv' => ParkedIsPaused'
<1>1. RunInv => ParkedIsPaused BY DEF RunInv, Parking, Findable, ParkedIsPaused
<1>2. RunInv' => ParkedIsPaused' BY DEF RunInv, Parking, Findable, ParkedIsPaused
<1> QED BY <1>1, <1>2

\* The inductive invariant is the conjunction of the three, before and after a step.
LEMMA Parts ==
    /\ JourneyInv <=> TxInv /\ RunInv /\ MailInv
    /\ JourneyInv' <=> TxInv' /\ RunInv' /\ MailInv'
<1>1. JourneyInv <=> TxInv /\ RunInv /\ MailInv
  BY ParkedPaused DEF JourneyInv, TypeOK, TxInv, RunInv, MailInv, Sound, Held
<1>2. JourneyInv' <=> TxInv' /\ RunInv' /\ MailInv'
  BY ParkedPaused DEF JourneyInv, TypeOK, TxInv, RunInv, MailInv, Sound, Held
<1> QED BY <1>1, <1>2

\* A replica that begins or ends a transaction that holds no row lock.
LEMMA RunKept ==
    ASSUME TxInv, RunInv, NEW r \in Replicas, NEW x \in TxStates,
           To(r, x), tx[r].at \notin Held, x.at \notin Held,
           UNCHANGED <<run, draft, owner, control>>
    PROVE  RunInv'
<1>1. \A q \in Replicas : tx'[q].at \in Held <=> tx[q].at \in Held
  BY DEF TxInv, To
<1>2. \A q \in Replicas : tx'[q].at = tx[q].at \/ (tx'[q].at \notin Held /\ tx[q].at \notin Held)
  BY DEF TxInv, To
<1>3. Locked' BY <1>2 DEF RunInv, Locked, Held
<1>4. Parking'
  BY <1>2 DEF RunInv, Parking, Findable, Held, control
<1> QED BY <1>1, <1>3, <1>4 DEF RunInv, control, Sound

\* The row is free, and its run is v.
LEMMA RunSettles ==
    ASSUME RunInv, NEW v, Sound(v), run' = v, draft' = v, owner' = None,
           \A q \in Replicas : tx'[q].at \notin Held,
           UNCHANGED control, Parked(v) => Findable(v)
    PROVE  RunInv'
<1>1. Locked' BY GraphAssumption DEF Locked, Held
<1>2. Parking' BY GraphAssumption DEF Parking, Findable, control
<1> QED BY <1>1, <1>2, GraphAssumption DEF RunInv, Held, Sound, control

\* The run is moved by who holds its row lock for this statement alone.
LEMMA RunMoves ==
    ASSUME RunInv, TxInv, owner = None, NEW v, Sound(v), run' = v, draft' = v,
           UNCHANGED <<owner, control>>,
           Parked(v) => Parked(run) /\ v.node = run.node /\ v.missed = run.missed,
           tx' = tx \/ \E r \in Replicas : To(r, NoTx) \/ To(r, [at |-> "unrecorded", row |-> tx[r].row])
    PROVE  RunInv'
<1>1. \A q \in Replicas : tx[q].at \notin Held
  BY GraphAssumption DEF RunInv
<1>2. \A q \in Replicas : tx'[q].at \notin Held
  BY <1>1 DEF To, TxInv, NoTx, Held
<1>3. Parked(v) => Findable(v)
  BY GraphAssumption DEF RunInv, Parking, Findable
<1> QED BY <1>2, <1>3, RunSettles

\* The draft is moved by who runs its steps.
LEMMA DraftMoves ==
    ASSUME RunInv, TxInv, NEW r \in Replicas, tx[r].at = "running",
           NEW v, Sound(v), draft' = v, UNCHANGED <<run, owner, control>>,
           NEW at \in Held, Goes(r, at), at \in {"running", "parked"} => v.state = "active",
           Parked(v) => /\ Findable(v)
                        /\ at = "parked" \/ (Parked(run) /\ run.node = v.node)
    PROVE  RunInv'
<1>1. owner = r /\ \A q \in Replicas : tx[q].at \in Held <=> q = r
  BY DEF RunInv, Held
<1>2. tx'[r].at = at /\ \A q \in Replicas \ {r} : tx'[q] = tx[q]
  BY DEF Goes, To, TxInv
<1>3. \A q \in Replicas : tx'[q].at \in Held <=> owner = q
  BY <1>1, <1>2
<1>4. Locked' BY <1>1, <1>2, GraphAssumption DEF RunInv, Locked, Held
<1>5. Parking' BY <1>1, <1>2, GraphAssumption DEF RunInv, Parking, Findable, control
<1> QED BY <1>3, <1>4, <1>5 DEF RunInv, Sound, control

\* The inbox is not touched, and no event is taken.
LEMMA MailKept ==
    ASSUME MailInv, TxInv, UNCHANGED mail,
           tx' = tx \/ \E r \in Replicas, x \in TxStates : x.at # "event" /\ To(r, x)
    PROVE  MailInv'
<1>1. \A q \in Replicas : tx'[q].at = "event" => tx'[q] = tx[q]
  BY DEF To, TxInv
<1>2. Applying' BY <1>1 DEF MailInv, Applying, mail
<1> QED BY <1>2 DEF MailInv, mail, Closed, AppliedOnce

\* A replica goes to some state of a transaction.
LEMMA TxKept ==
    ASSUME TxInv, tx' = tx \/ \E r \in Replicas, x \in TxStates : To(r, x),
           upsets' = upsets \/ Upset
    PROVE  TxInv'
BY BoundsAssumption DEF TxInv, To, Upset

\* The states of a transaction that the actions build.
LEMMA TxTypes ==
    /\ NoTx \in TxStates
    /\ \A at \in {"due", "running", "parked", "ending", "failed"} : [at |-> at] \in TxStates
    /\ \A x \in TxStates, e \in Inbox, W \in SUBSET Waits :
         /\ [at |-> "event", row |-> e, waits |-> W] \in TxStates
         /\ [at |-> "clock", waits |-> W] \in TxStates
    /\ \A x \in TxStates : x.at = "event" => x.row \in Inbox
    /\ \A e \in Inbox : [at |-> "unrecorded", row |-> e] \in TxStates
    /\ \A x \in TxStates : x.at = "unrecorded" => x.row \in Inbox
    /\ \A x \in TxStates : x = NoTx <=> x.at = "none"
<1>1. NoTx \in TxStates BY DEF TxStates
<1>2. \A at \in {"due", "running", "parked", "ending", "failed"} : [at |-> at] \in TxStates
  BY DEF TxStates
<1>3. \A e \in Inbox, W \in SUBSET Waits :
         /\ [at |-> "event", row |-> e, waits |-> W] \in TxStates
         /\ [at |-> "clock", waits |-> W] \in TxStates
  BY DEF TxStates
<1>4. /\ \A x \in TxStates : x.at = "event" => x.row \in Inbox
      /\ \A e \in Inbox : [at |-> "unrecorded", row |-> e] \in TxStates
  BY DEF TxStates, NoTx
<1>5. \A x \in TxStates : x.at = "unrecorded" => x.row \in Inbox
  BY DEF TxStates, NoTx
<1>6. \A x \in TxStates : x = NoTx <=> x.at = "none"
  BY DEF TxStates, NoTx
<1> QED BY <1>1, <1>2, <1>3, <1>4, <1>5, <1>6

-----------------------------------------------------------------------------
(* The steps                                                               *)

\* The invariant holds of a run that was just enrolled.
LEMMA InitInv == Init => JourneyInv
<1> SUFFICES ASSUME Init PROVE JourneyInv OBVIOUS
<1>1. Sound(run) /\ draft = run /\ ~Parked(run) /\ \A r \in Replicas : tx[r] = NoTx
  BY EnrolledSound DEF Init, Enrolled, Parked
<1>2. TxInv BY TxTypes, BoundsAssumption DEF Init, TxInv
<1>3. RunInv
  <2>1. Locked /\ Parking
    BY <1>1, GraphAssumption DEF Init, NoTx, Locked, Parking
  <2> QED BY <1>1, <2>1, GraphAssumption DEF Init, RunInv, NoTx, Held
<1>4. MailInv
  BY <1>1 DEF Init, MailInv, NoTx, Applying, Closed, AppliedOnce
<1> QED BY <1>2, <1>3, <1>4, Parts

\* The worker reads a due run.
LEMMA RunSelectInv ==
    ASSUME JourneyInv, NEW r \in Replicas, RunSelect(r) PROVE JourneyInv'
<1> DEFINE x == [at |-> "due"]
<1>1. TxInv /\ RunInv /\ MailInv BY Parts
<1>2. x \in TxStates /\ x.at \notin Held /\ x.at # "event" /\ tx[r].at \notin Held /\ To(r, x)
  BY TxTypes DEF Held, RunSelect, NoTx, Goes
<1>3. TxInv' BY <1>1, <1>2, TxKept DEF RunSelect
<1>4. RunInv' BY <1>1, <1>2, RunKept DEF RunSelect
<1>5. MailInv' BY <1>1, <1>2, MailKept DEF RunSelect
<1> QED BY <1>3, <1>4, <1>5, Parts

\* The worker gets the row lock, or skips the run.
LEMMA RunLockInv ==
    ASSUME JourneyInv, NEW r \in Replicas, RunLock(r) PROVE JourneyInv'
<1>1. TxInv /\ RunInv /\ MailInv BY Parts
<1>2. CASE Lockable
  <2> DEFINE x == [at |-> "running"]
  <2>1. x \in TxStates /\ x.at # "event" /\ To(r, x) /\ UNCHANGED <<run, control, mail, upsets>>
    BY <1>2, TxTypes DEF RunLock, Goes
  <2>2. TxInv' BY <1>1, <2>1, TxKept
  <2>3. MailInv' BY <1>1, <2>1, MailKept
  <2>4. owner = None /\ run.state = "active" /\ owner' = r /\ draft' = run
    BY <1>2 DEF Lockable, RunLock
  <2>5. \A q \in Replicas : tx[q].at \notin Held /\ tx'[q].at \in Held <=> q = r
    BY <1>1, <2>1, <2>4, GraphAssumption DEF RunInv, To, TxInv, Held
  <2>6. RunInv'
    <3>1. Locked' BY <1>1, <2>1, <2>4, <2>5, GraphAssumption DEF RunInv, Locked, Held
    <3>2. Parking'
      BY <1>1, <2>1, <2>4, GraphAssumption DEF RunInv, Parking, Findable, control
    <3> QED
      BY <1>1, <2>1, <2>4, <2>5, <3>1, <3>2, GraphAssumption DEF RunInv, Sound, control
  <2> QED BY <2>2, <2>3, <2>6, Parts
<1>3. CASE ~Lockable
  <2>1. /\ NoTx \in TxStates /\ NoTx.at \notin Held /\ NoTx.at # "event" /\ tx[r].at \notin Held
        /\ To(r, NoTx) /\ UNCHANGED <<run, draft, owner, control, mail, upsets>>
    BY <1>3, TxTypes DEF Held, RunLock, NoTx
  <2> QED BY <1>1, <2>1, TxKept, RunKept, MailKept, Parts
<1> QED BY <1>2, <1>3

\* A step runs, parks the run or finds its journey paused.
LEMMA RunNodeInv ==
    ASSUME JourneyInv, NEW r \in Replicas, RunNode(r) PROVE JourneyInv'
<1> DEFINE e == [draft EXCEPT !.errors = 0]
           p == [draft EXCEPT !.next = "null", !.errors = 0, !.missed = (draft.node = resuming)]
           u(past) == [Ran(draft, past) EXCEPT !.errors = 0]
<1>1. TxInv /\ RunInv /\ MailInv BY Parts
<1>2. /\ tx[r].at = "running" /\ draft.state = "active" /\ Sound(draft)
      /\ UNCHANGED <<run, owner, control, mail, upsets>>
  BY <1>1 DEF RunNode, RunInv, Locked
<1>3. ASSUME NEW past \in BOOLEAN
      PROVE  Sound(u(past)) /\ (u(past).state = "active" => u(past).next = "due")
  <2> DEFINE v == Ran(draft, past)
  <2>1. v \in Runs /\ Sound(v) /\ (v.state = "active" => v.next = "due")
    BY <1>2, RanSound DEF Sound
  <2>2. /\ u(past) \in Runs /\ u(past).state = v.state /\ u(past).node = v.node
        /\ u(past).next = v.next /\ u(past).wait = v.wait
    BY <2>1, BoundsAssumption DEF Runs
  <2> QED BY <2>1, <2>2 DEF Sound, Coherent, OpenKind
<1>4. /\ Sound(p) /\ p.state = "active" /\ p.node = draft.node
      /\ p.missed = (draft.node = resuming)
      /\ Sound(e) /\ e.state = "active" /\ e.node = draft.node /\ e.next = draft.next
      /\ e.missed = draft.missed
  <2>1. draft \in Runs /\ 0 \in 0 .. MaxErrors BY <1>2, BoundsAssumption DEF Sound
  <2>2. /\ p \in Runs /\ p.state = draft.state /\ p.node = draft.node /\ p.wait = draft.wait
        /\ p.missed = (draft.node = resuming)
    BY <2>1 DEF Runs
  <2>3. /\ e \in Runs /\ e.state = draft.state /\ e.node = draft.node /\ e.wait = draft.wait
        /\ e.missed = draft.missed /\ e.next = draft.next
    BY <2>1 DEF Runs
  <2> QED BY <1>2, <2>2, <2>3 DEF Sound, Coherent, OpenKind
<1>5. \E at \in Held : Goes(r, at)
  BY DEF RunNode, Held
<1>6. TxInv' /\ MailInv'
  <2>1. PICK at \in Held : Goes(r, at) BY <1>5
  <2>2. [at |-> at] \in TxStates /\ [at |-> at].at # "event" BY TxTypes DEF Held
  <2> QED BY <1>1, <1>2, <2>1, <2>2, TxKept, MailKept DEF Goes
<1>7. RunInv'
  <2>1. CASE ~live /\ Goes(r, "ending") /\ draft' = e
    <3>1. Parked(e) => /\ Findable(e)
                       /\ Parked(run) /\ run.node = e.node
      BY <1>1, <1>2, <1>4 DEF RunInv, Parking, Findable, Parked, Held
    <3> QED BY <1>1, <1>2, <1>4, <2>1, <3>1, DraftMoves DEF Held
  <2>2. CASE live /\ Parks(draft) /\ Goes(r, "parked") /\ draft' = p
    <3>1. Findable(p) BY <1>4, <2>2 DEF Parks, Findable
    <3> QED BY <1>1, <1>2, <1>4, <2>2, <3>1, DraftMoves DEF Held
  <2>3. CASE \E past \in BOOLEAN, at \in {"running", "ending"} :
               draft' = u(past) /\ (draft'.state # "active" => at = "ending") /\ Goes(r, at)
    <3>1. PICK past \in BOOLEAN, at \in {"running", "ending"} :
               draft' = u(past) /\ (u(past).state # "active" => at = "ending") /\ Goes(r, at)
      BY <2>3
    <3>2. Sound(u(past)) /\ ~Parked(u(past)) BY <1>3 DEF Parked
    <3> HIDE DEF u
    <3> QED BY <1>1, <1>2, <3>1, <3>2, DraftMoves DEF Held
  <2> QED BY <2>1, <2>2, <2>3 DEF RunNode
<1> QED BY <1>6, <1>7, Parts

\* A step throws.
LEMMA StepThrowsInv ==
    ASSUME JourneyInv, NEW r \in Replicas, StepThrows(r) PROVE JourneyInv'
<1>1. TxInv /\ RunInv /\ MailInv BY Parts
<1>2. /\ [at |-> "ending"] \in TxStates /\ [at |-> "ending"].at # "event"
      /\ To(r, [at |-> "ending"]) /\ UNCHANGED <<run, owner, control, mail>>
  BY TxTypes DEF StepThrows, Goes
<1>3. TxInv' /\ MailInv' BY <1>1, <1>2, TxKept, MailKept DEF StepThrows
<1>4. Sound(draft) /\ draft.state = "active"
  BY <1>1 DEF StepThrows, RunInv, Locked
<1>5. RunInv'
  BY <1>1, <1>2, <1>4, ErredSound, DraftMoves DEF StepThrows, Held
<1> QED BY <1>3, <1>5, Parts

\* A transaction that has the row lock lets go of it, and leaves the run at v.
LEMMA Releases ==
    ASSUME JourneyInv, NEW r \in Replicas, tx[r].at \in Held, NEW x \in TxStates,
           To(r, x), x.at \notin Held, x.at # "event", upsets' = upsets \/ Upset,
           NEW v \in {run, draft}, run' = v, draft' = v, owner' = None,
           v = run \/ tx[r].at # "running", UNCHANGED <<control, mail>>
    PROVE  JourneyInv'
<1>1. TxInv /\ RunInv /\ MailInv BY Parts
<1>2. TxInv' /\ MailInv' BY <1>1, TxKept, MailKept
<1>3. \A q \in Replicas : tx'[q].at \notin Held
  BY <1>1, GraphAssumption DEF RunInv, TxInv, To
<1>4. Sound(v) /\ (Parked(v) => Findable(v))
  BY <1>1, GraphAssumption DEF RunInv, Parking
<1>5. RunInv' BY <1>1, <1>3, <1>4, RunSettles
<1> QED BY <1>2, <1>5, Parts

\* The transaction commits: a parked run is at a paused step, or was missed.
LEMMA CommitInv ==
    ASSUME JourneyInv, NEW r \in Replicas, Commit(r) PROVE JourneyInv'
BY Releases, TxTypes DEF Commit, Commits, Held, NoTx

\* The same with the acknowledgement lost.
LEMMA CommitUnsureInv ==
    ASSUME JourneyInv, NEW r \in Replicas, CommitUnsure(r) PROVE JourneyInv'
<1>1. [at |-> "failed"] \in TxStates BY TxTypes
<1> QED BY <1>1, Releases DEF CommitUnsure, Commits, Held, Goes

\* The transaction is rolled back.
LEMMA RunFailsInv ==
    ASSUME JourneyInv, NEW r \in Replicas, RunFails(r) PROVE JourneyInv'
<1>1. [at |-> "failed"] \in TxStates BY TxTypes
<1> QED BY <1>1, Releases DEF RunFails, Held, Goes

\* A process dies, with or without the row lock.
LEMMA CrashInv ==
    ASSUME JourneyInv, NEW r \in Replicas, Crash(r) PROVE JourneyInv'
<1>1. TxInv /\ RunInv /\ MailInv BY Parts
<1>2. tx[r].at \in Held <=> owner = r BY <1>1 DEF RunInv
<1>3. NoTx \in TxStates /\ NoTx.at \notin Held /\ NoTx.at # "event"
  BY TxTypes DEF NoTx, Held
<1>4. CASE owner = r BY <1>2, <1>3, <1>4, Releases DEF Crash
<1>5. CASE owner # r
  <2>1. UNCHANGED <<run, draft, owner, control, mail>> BY <1>5 DEF Crash
  <2> QED BY <1>1, <1>2, <1>3, <1>5, <2>1, RunKept, TxKept, MailKept, Parts DEF Crash
<1> QED BY <1>4, <1>5

\* A run whose transaction failed is put off.
LEMMA PutOffInv ==
    ASSUME JourneyInv, NEW r \in Replicas, PutOff(r) PROVE JourneyInv'
<1> DEFINE v == [run EXCEPT !.next = "due"]
<1>1. TxInv /\ RunInv /\ MailInv BY Parts
<1>2. NoTx \in TxStates /\ NoTx.at # "event" BY TxTypes DEF NoTx
<1>3. Sound(v) /\ ~Parked(v)
  BY <1>1 DEF RunInv, Sound, Runs, Coherent, OpenKind, Parked
<1>4. TxInv' /\ MailInv' BY <1>1, <1>2, TxKept, MailKept DEF PutOff
<1>5. RunInv' BY <1>1, <1>3, RunMoves DEF PutOff
<1> QED BY <1>4, <1>5, Parts

\* An event is written.
LEMMA EmitInv ==
    ASSUME JourneyInv, NEW e \in Inbox, Emit(e) PROVE JourneyInv'
<1>1. TxInv /\ RunInv /\ MailInv BY Parts
<1>2. TxInv' BY <1>1, TxKept DEF Emit
<1>3. RunInv'
  BY <1>1 DEF Emit, RunInv, Sound, Locked, Parking, Findable, control
<1>4. MailInv'
  BY <1>1, TypesAssumption DEF Emit, MailInv, Applying, Closed, AppliedOnce
<1> QED BY <1>2, <1>3, <1>4, Parts

\* The waits read are waits of steps.
LEMMA OpenWaitsType == ASSUME NEW u, Sound(u) PROVE OpenWaits(u) \subseteq Waits
BY DEF OpenWaits, OpenWait, Sound, Coherent, Waits

\* A row of the inbox is taken: nobody else has it.
LEMMA EventTakeInv ==
    ASSUME JourneyInv, NEW r \in Replicas, NEW e \in Inbox, EventTake(r, e) PROVE JourneyInv'
<1> DEFINE x == [at |-> "event", row |-> e, waits |-> WaitsFor(e)]
<1>1. TxInv /\ RunInv /\ MailInv BY Parts
<1>2. WaitsFor(e) \in SUBSET Waits
  BY <1>1, OpenWaitsType DEF WaitsFor, RunInv
<1>3. x \in TxStates /\ x.at = "event" /\ x.row = e BY <1>2, TxTypes
<1>4. /\ To(r, x) /\ tx[r].at \notin Held /\ x.at \notin Held
      /\ UNCHANGED <<run, draft, owner, control, mail, upsets>>
  BY <1>3 DEF EventTake, NoTx, Held
<1>5. TxInv' /\ RunInv' BY <1>1, <1>3, <1>4, TxKept, RunKept
<1>6. Applying'
  <2>1. inbox[e] = "pending" /\ \A q \in Replicas : tx[q].at = "event" => tx[q].row # e
    BY DEF EventTake, Takeable, RowLocked
  <2>2. tx'[r] = x /\ \A q \in Replicas \ {r} : tx'[q] = tx[q]
    BY <1>1, <1>4 DEF To, TxInv
  <2> QED BY <1>1, <1>3, <1>4, <2>1, <2>2 DEF MailInv, Applying, mail
<1>7. MailInv' BY <1>1, <1>4, <1>6 DEF MailInv, mail, Closed, AppliedOnce
<1> QED BY <1>5, <1>7, Parts

\* An event takes effect: it had none yet, or was put back.  The worker goes on,
\* or takes the commit whose acknowledgement is lost for a failure.
LEMMA AppliesInv ==
    ASSUME JourneyInv, NEW r \in Replicas, Applies(r),
           To(r, NoTx) \/ Unrecorded(r), upsets' = upsets \/ Upset
    PROVE  JourneyInv'
<1> DEFINE e == tx[r].row
           v == IF type[e] = "reply" THEN Replied(run) ELSE ResolvedAll(run, tx[r].waits, "event")
<1>1. TxInv /\ RunInv /\ MailInv BY Parts
<1>3. tx[r].at = "event" /\ tx[r] \in TxStates /\ e \in Inbox
  BY <1>1, TxTypes DEF Applies, TxInv
<1>2. PICK x \in TxStates : x.at # "event" /\ To(r, x)
  BY <1>3, TxTypes DEF NoTx, Unrecorded
<1>4. TxInv' BY <1>1, <1>2, TxKept
<1>5. RunInv'
  <2>1. Sound(run) BY <1>1 DEF RunInv
  <2>2. Sound(v) /\ (Parked(v) => Parked(run) /\ v.node = run.node /\ v.missed = run.missed)
    BY <2>1, RepliedSound, ResolvedAllSound DEF Stays
  <2> QED BY <1>1, <2>2, RunMoves DEF Applies, Unrecorded
<1>6. MailInv'
  <2>1. inbox[e] = "pending" /\ \A q \in Replicas \ {r} : tx[q].at = "event" => tx[q].row # e
    BY <1>1, <1>3 DEF MailInv, Applying
  <2>2. tx'[r] = x /\ \A q \in Replicas \ {r} : tx'[q] = tx[q]
    BY <1>1, <1>2 DEF To, TxInv
  <2>3. /\ inbox' = [inbox EXCEPT ![e] = "processed"]
        /\ applied' = [applied EXCEPT ![e] = @ + 1] /\ UNCHANGED <<type, tries, undone>>
    BY DEF Applies
  <2>4. Applying'
    BY <1>1, <1>2, <2>1, <2>2, <2>3, TxTypes DEF MailInv, Applying, TxInv
  <2>5. applied[e] > 0 => e \in undone
    BY <1>1, <1>3, <2>1 DEF MailInv, Closed
  <2>6. Closed' /\ AppliedOnce'
    BY <1>1, <1>3, <2>3, <2>5 DEF MailInv, Closed, AppliedOnce
  <2>7. /\ inbox' \in [Inbox -> {"none", "pending", "processed"}]
        /\ applied' \in [Inbox -> Nat]
    BY <1>1, <1>3, <2>3 DEF MailInv
  <2> QED BY <1>1, <2>3, <2>4, <2>6, <2>7 DEF MailInv
<1> QED BY <1>4, <1>5, <1>6, Parts

\* The commit is acknowledged.
LEMMA EventApplyInv ==
    ASSUME JourneyInv, NEW r \in Replicas, EventApply(r) PROVE JourneyInv'
BY AppliesInv DEF EventApply

\* It is not.
LEMMA EventUnsureInv ==
    ASSUME JourneyInv, NEW r \in Replicas, EventUnsure(r) PROVE JourneyInv'
BY AppliesInv DEF EventUnsure

\* A row fails.
LEMMA EventFailsInv ==
    ASSUME JourneyInv, NEW r \in Replicas, EventFails(r) PROVE JourneyInv'
<1> DEFINE x == [at |-> "unrecorded", row |-> tx[r].row]
<1>1. TxInv /\ RunInv /\ MailInv BY Parts
<1>2. tx[r] \in TxStates /\ tx[r].at = "event" /\ tx[r].at \notin Held
  BY <1>1 DEF EventFails, TxInv, Held
<1>3. x \in TxStates /\ x.at \notin Held /\ x.at # "event"
  BY <1>2, TxTypes DEF Held
<1>4. TxInv' /\ RunInv' /\ MailInv'
  BY <1>1, <1>2, <1>3, TxKept, RunKept, MailKept DEF EventFails, Unrecorded
<1> QED BY <1>4, Parts

\* The failure is recorded, over whatever became of the row since.
LEMMA EventRecordInv ==
    ASSUME JourneyInv, NEW r \in Replicas, EventRecord(r) PROVE JourneyInv'
<1> DEFINE e == tx[r].row
<1>1. TxInv /\ RunInv /\ MailInv BY Parts
<1>2. /\ tx[r].at = "unrecorded" /\ e \in Inbox /\ tx[r].at \notin Held
      /\ NoTx \in TxStates /\ NoTx.at \notin Held /\ NoTx.at # "event"
  BY <1>1, TxTypes DEF EventRecord, TxInv, Held, NoTx
<1>3. TxInv' /\ RunInv' BY <1>1, <1>2, TxKept, RunKept DEF EventRecord
<1>4. MailInv'
  <2>1. \A q \in Replicas : tx[q].at = "event" => tx[q].row # e
    BY DEF EventRecord, RowLocked
  <2>2. \A q \in Replicas : tx'[q].at = "event" => tx'[q] = tx[q]
    BY <1>1, <1>2 DEF EventRecord, To, TxInv
  <2>3. PICK how \in {"processed", "pending"} :
          /\ inbox' = [inbox EXCEPT ![e] = how]
          /\ how = "pending" /\ inbox[e] = "processed" => undone' = undone \cup {e}
          /\ undone \subseteq undone' /\ undone' \subseteq undone \cup {e}
          /\ tries' = [tries EXCEPT ![e] = @ + 1] /\ UNCHANGED <<type, applied>>
    BY DEF EventRecord
  <2>4. Applying' BY <1>1, <2>1, <2>2, <2>3 DEF MailInv, Applying
  <2>5. Closed' /\ AppliedOnce'
    BY <1>1, <1>2, <2>3 DEF MailInv, Closed, AppliedOnce
  <2>6. /\ inbox' \in [Inbox -> {"none", "pending", "processed"}]
        /\ tries' \in [Inbox -> Nat] /\ undone' \subseteq Inbox
    BY <1>1, <1>2, <2>3 DEF MailInv
  <2> QED BY <1>1, <2>3, <2>4, <2>5, <2>6 DEF MailInv
<1> QED BY <1>3, <1>4, Parts

\* The waits whose time has come are read.
LEMMA ClockReadInv ==
    ASSUME JourneyInv, NEW r \in Replicas, ClockRead(r) PROVE JourneyInv'
<1>1. TxInv /\ RunInv /\ MailInv BY Parts
<1>2. PICK W \in SUBSET OpenWaits(run) : To(r, [at |-> "clock", waits |-> W])
  BY DEF ClockRead
<1> DEFINE x == [at |-> "clock", waits |-> W]
<1>3. x \in TxStates /\ x.at \notin Held /\ x.at # "event" /\ tx[r].at \notin Held
  <2>1. W \in SUBSET Waits BY <1>1, OpenWaitsType DEF RunInv
  <2> QED BY <2>1 DEF TxStates, Held, ClockRead, NoTx
<1>4. TxInv' /\ RunInv' /\ MailInv'
  BY <1>1, <1>2, <1>3, TxKept, RunKept, MailKept DEF ClockRead
<1> QED BY <1>4, Parts

\* They time out, those that were not resolved since.
LEMMA ClockApplyInv ==
    ASSUME JourneyInv, NEW r \in Replicas, ClockApply(r) PROVE JourneyInv'
<1> DEFINE v == ResolvedAll(run, tx[r].waits, "timeout")
<1>1. TxInv /\ RunInv /\ MailInv BY Parts
<1>2. NoTx \in TxStates /\ NoTx.at # "event" BY TxTypes DEF NoTx
<1>3. Sound(v) /\ (Parked(v) => Parked(run) /\ v.node = run.node /\ v.missed = run.missed)
  BY <1>1, ResolvedAllSound DEF RunInv, Stays
<1>4. TxInv' /\ MailInv' BY <1>1, <1>2, TxKept, MailKept DEF ClockApply
<1>5. RunInv' BY <1>1, <1>3, RunMoves DEF ClockApply
<1> QED BY <1>4, <1>5, Parts

-----------------------------------------------------------------------------
(* People, and the whole                                                   *)

\* The run is ended from outside.
LEMMA EndRunInv == ASSUME JourneyInv, EndRun PROVE JourneyInv'
<1>1. TxInv /\ RunInv /\ MailInv BY Parts
<1>2. TxInv' /\ MailInv' BY <1>1, TxKept, MailKept DEF EndRun
<1>3. RunInv' BY <1>1, FinishedSound, RunMoves DEF EndRun, Becomes
<1> QED BY <1>2, <1>3, Parts

\* A step is paused.
LEMMA PauseNodeInv ==
    ASSUME JourneyInv, NEW n \in Pausable, PauseNode(n) PROVE JourneyInv'
<1>1. TxInv /\ RunInv /\ MailInv BY Parts
<1>2. TxInv' /\ MailInv' BY <1>1, TxKept, MailKept DEF PauseNode
<1>3. RunInv'
  BY <1>1, GraphAssumption DEF PauseNode, RunInv, Sound, Locked, Parking, Findable
<1> QED BY <1>2, <1>3, Parts

\* A resume begins: the run parked at the step is released, its row locked, and a
\* run that is being parked there is missed.
LEMMA ResumeNodeInv ==
    ASSUME JourneyInv, NEW n \in Pausable, ResumeNode(n) PROVE JourneyInv'
<1>1. TxInv /\ RunInv /\ MailInv BY Parts
<1>2. TxInv' /\ MailInv' BY <1>1, TxKept, MailKept DEF ResumeNode
<1>3. /\ resuming = None /\ n \in paused /\ n # None /\ resuming' = n
      /\ UNCHANGED <<run, tx, paused, live>>
  BY <1>1, GraphAssumption DEF ResumeNode, RunInv
<1>4. RunInv'
  <2>1. CASE Released(n)
    <3> DEFINE v == [run EXCEPT !.next = "due", !.missed = FALSE]
    <3>1. /\ owner = None /\ owner' = Request /\ draft' = v
          /\ run.state = "active" /\ Parked(run) /\ run.node = n
      BY <2>1 DEF ResumeNode, Released, Parked
    <3>2. Sound(v) /\ ~Parked(v)
      BY <1>1 DEF RunInv, Sound, Runs, Coherent, OpenKind, Parked
    <3>3. \A q \in Replicas : tx[q].at \notin Held
      BY <1>1, <3>1, GraphAssumption DEF RunInv
    <3>4. Locked' BY <1>3, <3>1, <3>3, GraphAssumption DEF Locked, Held
    <3>5. Parking' BY <1>3, <3>1, <3>2 DEF Parking
    <3> QED
      BY <1>1, <1>3, <3>1, <3>2, <3>3, <3>4, <3>5, GraphAssumption DEF RunInv, Sound
  <2>2. CASE ~Released(n)
    <3> DEFINE parking == draft.node = n /\ \E r \in Replicas : tx[r].at = "parked"
               v == [draft EXCEPT !.missed = TRUE]
    <3>1. draft' = (IF parking THEN v ELSE draft) /\ UNCHANGED owner
      BY <2>2 DEF ResumeNode
    <3>2. Parked(run) => run.node # n BY <2>2 DEF Released, Parked
    <3>3. /\ Sound(v) /\ v.state = draft.state /\ v.node = draft.node /\ v.next = draft.next
          /\ v.missed = TRUE
      <4>1. /\ v \in Runs /\ v.state = draft.state /\ v.node = draft.node
            /\ v.next = draft.next /\ v.wait = draft.wait /\ v.missed = TRUE
        BY <1>1 DEF RunInv, Sound, Runs
      <4> QED BY <1>1, <4>1 DEF RunInv, Sound, Coherent, OpenKind
    <3>4. parking => owner # None BY <1>1, GraphAssumption DEF RunInv, Held
    <3>5. Locked' BY <1>1, <1>3, <3>1, <3>3, <3>4 DEF RunInv, Locked
    <3>6. owner # Request BY <1>1, <1>3 DEF RunInv, Parking
    <3>7. Parking'
      <4>1. Parked(run) => Findable(run)'
        BY <1>1, <1>3, <3>2, <3>6 DEF RunInv, Parking, Findable
      <4>2. CASE parking
        BY <1>3, <3>1, <3>3, <3>6, <4>1, <4>2 DEF Parking, Findable, Parked
      <4>3. CASE ~parking
        <5>1. Parked(draft) => draft.node # n
          BY <1>1, <3>2, <4>3 DEF RunInv, Parking
        <5>2. draft' = draft BY <3>1, <4>3
        <5> QED
          BY <1>1, <1>3, <3>1, <3>6, <4>1, <5>1, <5>2 DEF RunInv, Parking, Findable,
             Parked
      <4> QED BY <4>2, <4>3
    <3> QED BY <1>1, <1>3, <3>1, <3>3, <3>5, <3>7 DEF RunInv, Sound
  <2> QED BY <2>1, <2>2
<1> QED BY <1>2, <1>4, Parts

\* The request's transaction ends: the step is resumed and the run released, or
\* both are as they were.
LEMMA ResumeEndsInv ==
    ASSUME JourneyInv, ResumeCommits \/ ResumeFails PROVE JourneyInv'
<1>1. TxInv /\ RunInv /\ MailInv BY Parts
<1>2. TxInv' /\ MailInv'
  BY <1>1, TxKept, MailKept DEF ResumeCommits, ResumeFails
<1>3. /\ resuming # None /\ resuming' = None /\ paused' \in {paused, paused \ {resuming}}
      /\ UNCHANGED <<tx, live>>
  BY DEF ResumeCommits, ResumeFails
<1>4. RunInv'
  <2>1. CASE owner = Request
    <3>1. PICK v \in {run, draft} : run' = v /\ draft' = v /\ (v = run => paused' = paused \/ draft = run)
      BY <2>1 DEF ResumeCommits, ResumeFails
    <3>2. owner' = None BY <2>1 DEF ResumeCommits, ResumeFails
    <3>3. ~Parked(draft) /\ resuming \in paused /\ (Parked(run) => Findable(run) \/ run.node = resuming)
      BY <1>1, <1>3, <2>1 DEF RunInv, Sound, Runs, Parking, Parked
    <3>4. Sound(v) /\ \A q \in Replicas : tx[q].at \notin Held
      BY <1>1, <2>1, GraphAssumption DEF RunInv
    <3>5. Parking'
      BY <1>1, <1>3, <3>1, <3>2, <3>3, GraphAssumption DEF RunInv, Parking, Findable
    <3>6. Locked' BY <1>3, <3>1, <3>2, <3>4, GraphAssumption DEF Locked, Held
    <3> QED
      BY <1>1, <1>3, <3>1, <3>2, <3>4, <3>5, <3>6, GraphAssumption DEF RunInv, Sound
  <2>2. CASE owner # Request
    <3>1. UNCHANGED <<run, draft, owner>> BY <2>2 DEF ResumeCommits, ResumeFails
    <3>2. Locked' BY <1>1, <1>3, <3>1 DEF RunInv, Locked
    <3>3. Parking'
      BY <1>1, <1>3, <2>2, <3>1, GraphAssumption DEF RunInv, Parking, Findable
    <3> QED BY <1>1, <1>3, <3>1, <3>2, <3>3 DEF RunInv, Sound
  <2> QED BY <2>1, <2>2
<1> QED BY <1>2, <1>4, Parts

\* The journey is paused or resumed.
LEMMA JourneyInvKept ==
    ASSUME JourneyInv, PauseJourney \/ ResumeJourney \/ UNCHANGED vars PROVE JourneyInv'
<1>1. TxInv /\ RunInv /\ MailInv BY Parts
<1>2. /\ UNCHANGED <<run, draft, owner, tx, paused, resuming, mail>>
      /\ (upsets' = upsets \/ Upset)
  BY DEF PauseJourney, ResumeJourney, vars, control
<1>3. live' \in BOOLEAN
  BY <1>1 DEF PauseJourney, ResumeJourney, vars, control, RunInv
<1>4. TxInv' /\ MailInv' BY <1>1, <1>2, TxKept, MailKept
<1>5. RunInv'
  BY <1>1, <1>2, <1>3 DEF RunInv, Sound, Locked, Parking, Findable
<1> QED BY <1>4, <1>5, Parts

\* Every step keeps the inductive invariant.
LEMMA NextInv == JourneyInv /\ [Next]_vars => JourneyInv'
<1> SUFFICES ASSUME JourneyInv, [Next]_vars PROVE JourneyInv' OBVIOUS
<1>1. ASSUME NEW r \in Replicas, Begin(r) PROVE JourneyInv'
  BY <1>1, RunSelectInv, ClockReadInv, EventTakeInv DEF Begin
<1>2. ASSUME NEW r \in Replicas, Continue(r) PROVE JourneyInv'
  BY <1>2, RunLockInv, RunNodeInv, CommitInv, PutOffInv, EventApplyInv, EventRecordInv,
     ClockApplyInv DEF Continue
<1>3. ASSUME NEW r \in Replicas, StepThrows(r) \/ RunFails(r) \/ EventFails(r) \/ Crash(r)
      PROVE  JourneyInv'
  BY <1>3, StepThrowsInv, RunFailsInv, EventFailsInv, CrashInv
<1>4. ASSUME NEW r \in Replicas, CommitUnsure(r) \/ EventUnsure(r) PROVE JourneyInv'
  BY <1>4, CommitUnsureInv, EventUnsureInv
<1>5. ASSUME NEW n \in Pausable, PauseNode(n) \/ ResumeNode(n) PROVE JourneyInv'
  BY <1>5, PauseNodeInv, ResumeNodeInv
<1> QED
  BY <1>1, <1>2, <1>3, <1>4, <1>5, EmitInv, EndRunInv, ResumeEndsInv, JourneyInvKept DEF
     Next

\* The inductive invariant holds of every reachable state.
THEOREM JourneyInvariant == Spec => []JourneyInv
BY InitInv, NextInv, PTL DEF Spec

\* The type invariant, for every graph and inbox.
THEOREM JourneyTypes == Spec => []TypeOK
<1>1. JourneyInv => TypeOK BY DEF JourneyInv
<1> QED BY <1>1, JourneyInvariant, PTL

\* A waiting run always has a wait that an event or the clock resolves, whatever
\* order replies, events and timeouts come in.
THEOREM AlwaysWaitsForSomething == Spec => []WaitsForSomething
<1>1. JourneyInv => WaitsForSomething
  <2> SUFFICES ASSUME JourneyInv, run.state = "waiting" PROVE OpenWaits(run) # {}
    BY DEF WaitsForSomething
  <2>1. PICK k \in Kinds : OpenKind(run, k) BY DEF JourneyInv, Coherent, Kinds
  <2>2. <<k, run.wait[k].of>> \in OpenWaits(run)
    BY <2>1 DEF OpenWaits, OpenWait, Kinds
  <2> QED BY <2>2
<1> QED BY <1>1, JourneyInvariant, PTL

\* A run that no worker looks at is parked at a paused step, unless its parking
\* was committed after a resume of that step had looked for parked runs.
THEOREM ParkedStaysPaused == Spec => []ParkedIsPaused
<1>1. JourneyInv => ParkedIsPaused BY DEF JourneyInv
<1> QED BY <1>1, JourneyInvariant, PTL

\* No event takes effect twice unless the record of a failure put it back.
THEOREM EventsApplyOnce == Spec => []AppliedOnce
<1>1. JourneyInv => AppliedOnce BY DEF JourneyInv
<1> QED BY <1>1, JourneyInvariant, PTL

\* What a held run may not do in a step.
HoldKeeps ==
    OpenKind(run, "hold") /\ OpenKind(run', "hold")
        => run'.visits = run.visits /\ run'.node = run.node /\ run'.last = run.last

\* No step moves a held run.
LEMMA HeldStep == JourneyInv /\ [Next]_vars => HoldKeeps
<1> SUFFICES ASSUME JourneyInv, [Next]_vars, run' # run PROVE HoldKeeps
  BY DEF HoldKeeps
<1>1. TxInv /\ RunInv /\ MailInv /\ Sound(run) BY Parts DEF RunInv
<1>2. ASSUME NEW r \in Replicas, Commits(r) PROVE HoldKeeps
  <2>1. owner = r BY <1>1, <1>2 DEF Commits, RunInv, Held
  <2>2. run.state = "active" BY <1>1, <2>1, GraphAssumption DEF RunInv, Locked
  <2> QED BY <1>1, <2>2 DEF HoldKeeps, Sound, Coherent
<1>3. ASSUME NEW r \in Replicas, Applies(r) PROVE HoldKeeps
  BY <1>1, <1>3, RepliedSound, ResolvedAllSound DEF Applies, HoldKeeps, Stays
<1>4. ASSUME NEW r \in Replicas, ClockApply(r) PROVE HoldKeeps
  BY <1>1, <1>4, ResolvedAllSound DEF ClockApply, HoldKeeps, Stays
<1>5. ASSUME NEW r \in Replicas, PutOff(r) PROVE HoldKeeps
  BY <1>1, <1>5 DEF PutOff, Sound, Runs, HoldKeeps
<1>6. ASSUME ResumeCommits PROVE HoldKeeps
  <2>1. owner = Request BY <1>6 DEF ResumeCommits
  <2>2. run.state = "active" BY <1>1, <2>1, GraphAssumption DEF RunInv, Locked
  <2> QED BY <1>1, <2>2 DEF HoldKeeps, Sound, Coherent
<1>7. ASSUME EndRun PROVE HoldKeeps
  BY <1>7, FinishedSound DEF EndRun, Becomes, HoldKeeps
<1>8. \/ \E r \in Replicas : Commits(r) \/ Applies(r) \/ ClockApply(r) \/ PutOff(r)
      \/ ResumeCommits \/ EndRun
  BY DEF Next, Begin, Continue, vars, RunSelect, ClockRead, EventTake, RunLock, RunNode,
     Commit, CommitUnsure, EventApply, EventUnsure, EventRecord, StepThrows, RunFails,
     EventFails, Crash, Emit, PauseNode, ResumeNode, ResumeFails, PauseJourney,
     ResumeJourney
<1> QED BY <1>2, <1>3, <1>4, <1>5, <1>6, <1>7, <1>8

\* A run that a reply holds goes nowhere until the hold is resolved.
THEOREM HoldRespected == Spec => HeldStays
BY JourneyInvariant, HeldStep, PTL DEF Spec, HeldStays, HoldKeeps
=============================================================================
