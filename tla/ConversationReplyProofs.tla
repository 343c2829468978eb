----------------------- MODULE ConversationReplyProofs -----------------------
(***************************************************************************)
(* One reply to a message of the customer, by a run that has read the      *)
(* latest, and no claim without someone to release it but for failed       *)
(* calls: for any number of replicas, runs, messages and interventions.    *)
(***************************************************************************)
EXTENDS ConversationReply, WellFoundedInduction, SequenceTheorems, TLAPS

\* A set of numbers has a least element.
LEMMA LeastExists ==
    ASSUME NEW S \in SUBSET Nat, S # {}
    PROVE  \E x \in S : \A y \in S : x =< y
<1> DEFINE R == OpToRel(<, Nat)
<1>1. IsWellFoundedOn(R, Nat) BY NatLessThanWellFounded, Zenon
<1>2. \A x, y \in Nat : <<y, x>> \in R <=> y < x BY SMT DEF OpToRel
<1> HIDE DEF R
<1>3. PICK x \in S : \A y \in S : ~ (<<y, x>> \in R) BY <1>1, WFMin, Zenon
<1>4. \A y \in S : ~(y < x) BY <1>2, <1>3, Zenon
<1> QED BY <1>4

\* Min() of a set of numbers is one of them.
LEMMA LeastFound ==
    ASSUME NEW S \in SUBSET Nat, S # {}
    PROVE  Min(S) \in S
BY LeastExists DEF Min

\* Max() of a bounded set is the least of its upper bounds.
LEMMA GreatestFound ==
    ASSUME NEW k \in Nat, NEW S \in SUBSET (0 .. k), S # {}
    PROVE  Max(S) \in S /\ \A y \in S : y <= Max(S)
<1> DEFINE U == {n \in Nat : \A y \in S : y <= n}
<1>1. k \in U OBVIOUS
<1>2. PICK u \in U : \A y \in U : u =< y BY <1>1, LeastExists
<1>3. u \in S
  <2>1. CASE u = 0
    <3>1. PICK y \in S : TRUE OBVIOUS
    <3> QED BY <2>1
  <2>2. CASE u # 0
    <3>1. u - 1 \notin U BY <1>2
    <3> QED BY <2>2, <3>1
  <2> QED BY <2>1, <2>2
<1> QED BY <1>3 DEF Max

\* Newest() of some messages is one of them, none of them is newer, and of no
\* messages it is 0.
LEMMA NewestFound ==
    ASSUME TypeOK, NEW S \in SUBSET DOMAIN msg
    PROVE  /\ Newest(S) \in S \cup {0}
           /\ \A n \in S : n <= Newest(S)
<1>1. Len(msg) \in Nat /\ DOMAIN msg = 1 .. Len(msg) OBVIOUS
<1>2. S \cup {0} \in SUBSET (0 .. Len(msg)) OBVIOUS
<1> QED BY <1>1, <1>2, GreatestFound DEF Newest

\* The initial state satisfies the inductive invariant.
LEMMA InitInv == Init => ReplyInv
<1> SUFFICES ASSUME Init PROVE ReplyInv OBVIOUS
<1> USE HoldersAssumption, BoundsAssumption DEF Init, Blank
<1>1. TypeOK BY DEF TypeOK, Activation, YesNo
<1>2. Prepared BY DEF Prepared, Claimed, Sending
<1>3. OneCurrent BY DEF OneCurrent, Active
<1>4. ClaimKept BY DEF ClaimKept
<1>5. UpToDate BY DEF UpToDate, Claimed
<1>6. ReadBefore BY DEF ReadBefore, Underway
<1>7. ClaimBacked BY DEF ClaimBacked
<1> QED BY <1>1, <1>2, <1>3, <1>4, <1>5, <1>6, <1>7 DEF ReplyInv

-----------------------------------------------------------------------------
(* What most steps have in common: runs go on or end, messages stay.       *)

Working(r) == run[r].pc \notin {"free", "done"}
Ready == Claimed \cup {"read"}

\* A run is left alone, ends, or goes on with what it knows.
Onward ==
    /\ run' \in [Runs -> Activation]
    /\ \A r \in Runs :
          \/ run'[r] = run[r]
          \/ Working(r) /\ run'[r] = [Blank EXCEPT !.pc = "done"]
          \/ /\ Working(r) /\ run'[r].pc \notin {"free", "done"} \cup Sending
             /\ run'[r].pc \in Ready => run[r].pc \in Ready
             /\ run'[r].home = run[r].home /\ run'[r].mode = run[r].mode
             /\ run'[r].delivery = run[r].delivery /\ run'[r].aborted = run[r].aborted
             /\ run'[r].seen = run[r].seen /\ run'[r].since = run[r].since

\* Messages are kept as they are.
Kept ==
    /\ msg' \in Seq(Message) /\ Len(msg) <= Len(msg')
    /\ DOMAIN msg \subseteq DOMAIN msg'
    /\ \A n \in DOMAIN msg : msg'[n] = msg[n]

\* What becomes visible was being sent, or is new and no reply.
Shown ==
    /\ visible \subseteq visible'
    /\ \A n \in visible' :
          \/ n \in Underway
          \/ n \in DOMAIN msg' \ DOMAIN msg /\ msg'[n].kind \notin {"agent", "fallback"}

\* A replica hears of nothing new, unless it has no run left.
Hears ==
    /\ heard' \in [Replicas -> SUBSET FromCustomer]
    /\ \A h \in Replicas : heard'[h] = heard[h] \/ \A r \in Runs : run'[r].home # h

\* A run is moved to another place.
LEMMA Moves ==
    ASSUME TypeOK, NEW r \in Runs, Working(r),
           NEW place \in {"debounce", "read", "unclaim"} \cup (Claimed \ Sending),
           place \in Ready => run[r].pc \in Ready, Goto(r, place)
    PROVE  /\ Onward
           /\ run'[r].pc = place /\ run'[r].home = run[r].home
           /\ \A s \in Runs : s # r => run'[s] = run[s]
<1>1. run[r] \in Activation BY DEF TypeOK
<1>2. run'[r] = [run[r] EXCEPT !.pc = place] /\ \A s \in Runs : s # r => run'[s] = run[s]
  BY DEF Goto, TypeOK
<1>3. place \in {"free", "debounce", "read", "unclaim", "done"} \cup Claimed OBVIOUS
<1>4. run'[r] \in Activation BY <1>1, <1>2 DEF Activation
<1>5. run' \in [Runs -> Activation] BY <1>4 DEF Goto, TypeOK
<1>6. /\ run'[r].pc = place /\ run'[r].home = run[r].home /\ run'[r].mode = run[r].mode
      /\ run'[r].delivery = run[r].delivery /\ run'[r].aborted = run[r].aborted
      /\ run'[r].seen = run[r].seen /\ run'[r].since = run[r].since
  BY <1>2
<1>7. place \notin {"free", "done"} \cup Sending BY DEF Claimed, Sending
<1> QED BY <1>2, <1>5, <1>6, <1>7 DEF Onward

\* A run ends.
LEMMA Ends ==
    ASSUME TypeOK, NEW r \in Runs, Working(r), End(r)
    PROVE  /\ Onward
           /\ run'[r].pc = "done" /\ run'[r].home = Nobody
           /\ \A s \in Runs : s # r => run'[s] = run[s]
<1>1. [Blank EXCEPT !.pc = "done"] \in Activation BY DEF Blank, Activation, YesNo
<1>2. run' \in [Runs -> Activation] BY <1>1 DEF End, TypeOK
<1>3. run'[r] = [Blank EXCEPT !.pc = "done"] /\ \A s \in Runs : s # r => run'[s] = run[s]
  BY DEF End, TypeOK
<1>4. run'[r].pc = "done" /\ run'[r].home = Nobody BY <1>3 DEF Blank
<1> QED BY <1>2, <1>3, <1>4 DEF Onward

\* The finally block: the run of a replica that has the claim goes on to release
\* it, so that the claim stays backed.
LEMMA Finishes ==
    ASSUME TypeOK, Prepared, ClaimBacked, NEW r \in Runs, run[r].pc \in Claimed \ {"acquired"},
           Finish(r), holder' = Nobody \/ UNCHANGED <<holder, lease>>
    PROVE  /\ Onward /\ ClaimBacked' /\ claimsHeld' \subseteq Replicas
           /\ run'[r].pc \in {"unclaim", "done"}
           /\ \A s \in Runs : s # r => run'[s] = run[s]
<1>1. Working(r) /\ run[r].pc \notin {"acquired", "unclaim"} BY DEF Working, Claimed
<1>2. run[r].home \in Replicas BY <1>1 DEF Prepared, Working, TypeOK, Activation
<1>3. CASE run[r].home \in claimsHeld
  <2>1. Goto(r, "unclaim") /\ claimsHeld' = claimsHeld \ {run[r].home}
    BY <1>3 DEF Finish
  <2>2. /\ Onward /\ run'[r].pc = "unclaim" /\ run'[r].home = run[r].home
        /\ \A s \in Runs : s # r => run'[s] = run[s]
    BY <1>1, <2>1, Moves DEF Ready
  <2>3. ClaimBacked' BY <2>1, <2>2, HoldersAssumption DEF ClaimBacked
  <2> QED BY <2>1, <2>2, <2>3 DEF TypeOK
<1>4. CASE run[r].home \notin claimsHeld
  <2>1. End(r) /\ claimsHeld' = claimsHeld \ {run[r].home} BY <1>4 DEF Finish
  <2>2. /\ Onward /\ run'[r].pc = "done" /\ \A s \in Runs : s # r => run'[s] = run[s]
    BY <1>1, <2>1, Ends
  <2>3. ClaimBacked' BY <1>1, <1>4, <2>1, <2>2, HoldersAssumption DEF ClaimBacked
  <2> QED BY <2>1, <2>2, <2>3 DEF TypeOK
<1> QED BY <1>3, <1>4

\* A message that no run sends is appended and committed.
LEMMA Stores ==
    ASSUME TypeOK, NEW kind \in {"customer", "user", "note"}, Store(kind)
    PROVE  Kept /\ Shown /\ visible' \subseteq DOMAIN msg'
<1> DEFINE m == [kind |-> kind, seen |-> 0, since |-> 0, late |-> "no"]
<1>1. m \in Message BY DEF Message, YesNo
<1>2. msg \in Seq(Message) /\ visible \subseteq DOMAIN msg BY DEF TypeOK
<1>3. msg' = Append(msg, m) /\ visible' = visible \cup {Len(msg) + 1}
  BY DEF Store, Write
<1>4. m.kind = kind OBVIOUS
<1> HIDE DEF m
<1>5. /\ msg' \in Seq(Message) /\ Len(msg') = Len(msg) + 1
      /\ \A n \in DOMAIN msg : msg'[n] = msg[n]
      /\ msg'[Len(msg) + 1] = m
  BY <1>1, <1>2, <1>3
<1>6. DOMAIN msg = 1 .. Len(msg) /\ DOMAIN msg' = 1 .. (Len(msg) + 1) /\ Len(msg) \in Nat
  BY <1>5
<1>7. Kept BY <1>5 DEF Kept
<1>8. Len(msg) + 1 \in DOMAIN msg' \ DOMAIN msg BY <1>6
<1>9. Shown BY <1>3, <1>4 DEF Shown, Underway
<1> QED BY <1>2, <1>3, <1>7, <1>9

\* The messages are left alone.
LEMMA Stays ==
    ASSUME TypeOK, UNCHANGED msg
    PROVE  Kept /\ (visible' = visible => Shown /\ visible' \subseteq DOMAIN msg')
BY DEF TypeOK, Kept, Shown, Underway

\* Steps of this kind keep what does not speak of the claim.
LEMMA Frame ==
    ASSUME ReplyInv, Onward, Kept, Shown, Hears, lost = "yes" => lost' = "yes"
    PROVE  Prepared' /\ OneCurrent' /\ UpToDate' /\ ReadBefore'
<1> USE HoldersAssumption DEF ReplyInv
<1>1. \A r \in Runs : run[r] \in Activation /\ run'[r] \in Activation
  BY DEF TypeOK, Onward
<1>2. \A r \in Runs : run[r].since \in Nat /\ run[r].since <= Len(msg)
  BY DEF TypeOK, Activation
<1>3. Len(msg) \in Nat /\ DOMAIN msg = 1 .. Len(msg) OBVIOUS
<1>4. LET done == [Blank EXCEPT !.pc = "done"] IN
      done.pc = "done" /\ done.home = Nobody /\ done.seen = 0 /\ done.since = 0
  BY DEF Blank
<1>5. Prepared'
  <2> SUFFICES ASSUME NEW r \in Runs
      PROVE  /\ run'[r].home = Nobody <=> run'[r].pc \in {"free", "done"}
             /\ run'[r].pc \in Claimed \cup {"read"} =>
                  /\ run'[r].mode = "draft" => run'[r].delivery = "draft"
                  /\ run'[r].mode = "reply" =>
                        run'[r].since > 0 /\ msg'[run'[r].since].kind \notin {"agent", "fallback"}
             /\ run'[r].pc \in Sending =>
                  /\ run'[r].post \in DOMAIN msg'
                  /\ run'[r].aborted = "yes" => msg'[run'[r].post].late = "yes"
    BY DEF Prepared, Aborted
  <2>1. CASE run'[r] = run[r] BY <2>1, <1>2 DEF Prepared, Kept, Aborted
  <2>2. CASE run'[r] = [Blank EXCEPT !.pc = "done"] BY <2>2, <1>4 DEF Claimed, Sending
  <2>3. CASE /\ Working(r) /\ run'[r].pc \notin {"free", "done"} \cup Sending
             /\ run'[r].pc \in Ready => run[r].pc \in Ready
             /\ run'[r].home = run[r].home /\ run'[r].mode = run[r].mode
             /\ run'[r].delivery = run[r].delivery
             /\ run'[r].since = run[r].since
    BY <2>3, <1>2 DEF Prepared, Kept, Working, Ready
  <2> QED BY <2>1, <2>2, <2>3 DEF Onward
<1>6. OneCurrent'
  <2>1. \A r \in Runs : run'[r].pc \notin {"free", "done"} =>
           /\ run[r].pc \notin {"free", "done"}
           /\ run'[r].home = run[r].home /\ run'[r].aborted = run[r].aborted
    BY <1>4 DEF Onward, Working
  <2> QED BY <2>1 DEF OneCurrent, Active, Aborted
<1>7. UpToDate'
  <2>1. FromCustomer \subseteq FromCustomer' BY DEF FromCustomer, Kept, Shown, TypeOK
  <2>2. \A r \in Runs : run'[r].pc \in Claimed \cup {"read"} =>
           /\ run[r].pc \in Claimed \cup {"read"} /\ run'[r].seen = run[r].seen
           /\ run'[r].home = run[r].home /\ run'[r].aborted = run[r].aborted
    BY <1>4 DEF Onward, Ready, Claimed
  <2>3. \A r \in Runs : run[r].pc \in Claimed \cup {"read"} => run[r].home \in Replicas
    BY <1>1 DEF Prepared, Claimed, Activation
  <2>4. \A h \in Replicas : heard'[h] \subseteq FromCustomer' BY <2>1 DEF Hears
  <2>5. SUFFICES ASSUME NEW r \in Runs, run'[r].pc \in Claimed \cup {"read"},
                        run'[r].aborted # "yes", NEW n \in heard'[run'[r].home]
                 PROVE  n <= run'[r].seen
    BY <2>4 DEF UpToDate, Aborted
  <2>6. heard'[run'[r].home] = heard[run[r].home] BY <2>2, <2>3, <2>5 DEF Hears
  <2> QED BY <2>2, <2>5, <2>6 DEF UpToDate, Aborted
<1>8. ReadBefore'
  <2>1. Underway \subseteq DOMAIN msg BY DEF Underway, Prepared, TypeOK
  <2>2. \A r \in Runs : run'[r].pc \in Sending => run[r].pc \in Sending /\ run'[r].post = run[r].post
    BY <1>4 DEF Onward, Sending
  <2>3. \A n \in Underway' :
           \/ n \in Underway
           \/ n \in DOMAIN msg' \ DOMAIN msg /\ msg'[n].kind \notin {"agent", "fallback"}
    BY <2>2 DEF Underway, Shown
  <2>4. SUFFICES ASSUME NEW x \in Underway', NEW y \in Underway', x < y,
                        msg'[x].kind \in {"agent", "fallback"}, msg'[y].kind = "agent"
                 PROVE  \/ lost' = "yes"
                        \/ msg'[x].late = "yes" \/ msg'[y].late = "yes"
                        \/ x < msg'[y].since
    BY DEF ReadBefore
  <2>5. x \in Underway /\ y \in Underway BY <2>3, <2>4
  <2>6. msg'[x] = msg[x] /\ msg'[y] = msg[y] BY <2>1, <2>5 DEF Kept
  <2> QED BY <2>4, <2>5, <2>6 DEF ReadBefore
<1> QED BY <1>5, <1>6, <1>7, <1>8

\* The part of the type invariant that such a step keeps.
LEMMA FrameType ==
    ASSUME TypeOK, Onward, Kept, Hears, visible' \subseteq DOMAIN msg'
    PROVE  /\ msg' \in Seq(Message) /\ visible' \subseteq DOMAIN msg'
           /\ heard' \in [Replicas -> SUBSET DOMAIN msg']
           /\ run' \in [Runs -> Activation]
           /\ \A r \in Runs : run'[r].seen <= run'[r].since /\ run'[r].since <= Len(msg')
<1>1. msg' \in Seq(Message) /\ visible' \subseteq DOMAIN msg' BY DEF Kept
<1>2. heard' \in [Replicas -> SUBSET DOMAIN msg']
  BY DEF Hears, FromCustomer, Kept, TypeOK
<1>3. ASSUME NEW r \in Runs PROVE run'[r].seen <= run'[r].since /\ run'[r].since <= Len(msg')
  <2>1. run[r] \in Activation /\ Len(msg) \in Nat /\ Len(msg') \in Nat BY DEF TypeOK
  <2>2. CASE run'[r] = [Blank EXCEPT !.pc = "done"] BY <2>2 DEF Blank
  <2>3. CASE run'[r].seen = run[r].seen /\ run'[r].since = run[r].since
    BY <2>3 DEF TypeOK, Kept, Activation
  <2> QED BY <2>2, <2>3 DEF Onward
<1> QED BY <1>1, <1>2, <1>3 DEF Onward

\* A run past the claim keeps it when nobody touches the claim.
LEMMA ClaimStays ==
    ASSUME ReplyInv, Onward, UNCHANGED <<holder, lease, lost>>,
           \A r \in Runs : run'[r].pc \in Claimed => run[r].pc \in Claimed
    PROVE  ClaimKept'
<1>1. \A r \in Runs : run'[r].pc \in Claimed => run'[r].home = run[r].home
  BY DEF Onward, Blank, Claimed
<1> QED BY <1>1 DEF ReplyInv, ClaimKept

-----------------------------------------------------------------------------
(* Every action keeps the inductive invariant.                             *)

\* Steps that leave runs, messages and the runner's claim alone.
LEMMA AsideInv ==
    ASSUME ReplyInv, StaffLeaves \/ Reopens \/ ModeChanges \/ (\E h \in Replicas : Sweep(h))
    PROVE  ReplyInv'
<1> USE HoldersAssumption, BoundsAssumption DEF ReplyInv
<1>1. Onward /\ run' = run
  BY DEF StaffLeaves, Reopens, ModeChanges, Sweep, Onward, TypeOK
<1>2. Kept /\ Shown /\ visible' \subseteq DOMAIN msg'
  BY Stays DEF StaffLeaves, Reopens, ModeChanges, Sweep
<1>3. Hears /\ (lost = "yes" => lost' = "yes")
  BY DEF StaffLeaves, Reopens, ModeChanges, Sweep, handler, Hears, UpToDate, TypeOK
<1>4. Prepared' /\ OneCurrent' /\ UpToDate' /\ ReadBefore' BY <1>1, <1>2, <1>3, Frame
<1>5. TypeOK'
  BY DEF TypeOK, StaffLeaves, Reopens, ModeChanges, Sweep, Happens, conversation,
     handler
<1>6. ClaimKept'
  BY <1>1, ClaimStays DEF StaffLeaves, Reopens, ModeChanges, Sweep, conversation
<1>7. ClaimBacked'
  BY DEF StaffLeaves, Reopens, ModeChanges, Sweep, conversation, handler, ClaimBacked
<1> QED BY <1>4, <1>5, <1>6, <1>7

\* The customer or the staff write.
LEMMA WritesInv ==
    ASSUME ReplyInv, CustomerWrites \/ StaffWrites \/ StaffNotes PROVE ReplyInv'
<1> USE HoldersAssumption, BoundsAssumption DEF ReplyInv
<1>1. Onward /\ run' = run
  BY DEF CustomerWrites, StaffWrites, StaffNotes, Onward, TypeOK
<1>2. Kept /\ Shown /\ visible' \subseteq DOMAIN msg'
  BY Stores DEF CustomerWrites, StaffWrites, StaffNotes
<1>3. Hears /\ (lost = "yes" => lost' = "yes")
  BY DEF CustomerWrites, StaffWrites, StaffNotes, handler, Hears, UpToDate, TypeOK
<1>4. Prepared' /\ OneCurrent' /\ UpToDate' /\ ReadBefore' BY <1>1, <1>2, <1>3, Frame
<1>5. TypeOK'
  BY <1>1, <1>2, <1>3, FrameType DEF TypeOK, CustomerWrites, StaffWrites, StaffNotes,
     Happens, conversation, handler, YesNo
<1>6. ClaimKept'
  BY <1>1, ClaimStays DEF CustomerWrites, StaffWrites, StaffNotes, conversation
<1>7. ClaimBacked'
  BY DEF CustomerWrites, StaffWrites, StaffNotes, conversation, handler, ClaimBacked
<1> QED BY <1>4, <1>5, <1>6, <1>7

\* changeStatus() drops the claims; a run at work is told to have lost its own.
LEMMA StaffClosesInv ==
    ASSUME ReplyInv, StaffCloses PROVE ReplyInv'
<1> USE HoldersAssumption, BoundsAssumption DEF ReplyInv
<1>1. Onward /\ run' = run BY DEF StaffCloses, Onward, TypeOK
<1>2. Kept /\ Shown /\ visible' \subseteq DOMAIN msg' BY Stays DEF StaffCloses
<1>3. Hears /\ (lost = "yes" => lost' = "yes")
  BY DEF StaffCloses, handler, Hears, UpToDate, TypeOK
<1>4. Prepared' /\ OneCurrent' /\ UpToDate' /\ ReadBefore' BY <1>1, <1>2, <1>3, Frame
<1>5. TypeOK' BY DEF TypeOK, StaffCloses, Happens, Settled, handler, YesNo
<1>6. ClaimKept' BY DEF StaffCloses, HolderWorks, ClaimKept
<1>7. ClaimBacked' BY DEF StaffCloses, Settled, ClaimBacked
<1> QED BY <1>4, <1>5, <1>6, <1>7

\* The lease of the claim is over.
LEMMA LeaseExpiresInv ==
    ASSUME ReplyInv, LeaseExpires PROVE ReplyInv'
<1> USE HoldersAssumption, BoundsAssumption DEF ReplyInv
<1>1. Onward /\ run' = run BY DEF LeaseExpires, Onward, TypeOK
<1>2. Kept /\ Shown /\ visible' \subseteq DOMAIN msg' BY Stays DEF LeaseExpires
<1>3. Hears /\ (lost = "yes" => lost' = "yes")
  BY DEF LeaseExpires, handler, Hears, UpToDate, TypeOK
<1>4. Prepared' /\ OneCurrent' /\ UpToDate' /\ ReadBefore' BY <1>1, <1>2, <1>3, Frame
<1>5. TypeOK' BY DEF TypeOK, LeaseExpires, Happens, handler, YesNo
<1>6. ClaimKept' BY DEF LeaseExpires, HolderWorks, ClaimKept
<1>7. ClaimBacked' BY DEF LeaseExpires, handler, ClaimBacked
<1> QED BY <1>4, <1>5, <1>6, <1>7

\* The gate denies the run.
LEMMA DeniedInv ==
    ASSUME ReplyInv, NEW r \in Runs, Denied(r) PROVE ReplyInv'
<1> USE HoldersAssumption, BoundsAssumption DEF ReplyInv
<1>1. /\ Onward /\ run'[r].pc = "unclaim" /\ run'[r].home = run[r].home
      /\ \A s \in Runs : s # r => run'[s] = run[s]
  BY Moves DEF Denied, Working, Ready, Claimed
<1>2. Kept /\ Shown /\ visible' \subseteq DOMAIN msg' BY Stays DEF Denied
<1>3. Hears /\ (lost = "yes" => lost' = "yes") BY DEF Denied, Hears, UpToDate, TypeOK
<1>4. Prepared' /\ OneCurrent' /\ UpToDate' /\ ReadBefore' BY <1>1, <1>2, <1>3, Frame
<1>5. TypeOK' BY <1>1, <1>2, <1>3, FrameType DEF TypeOK, Denied, conversation
<1>6. ClaimKept' BY <1>1, ClaimStays DEF Denied, conversation, Claimed
<1>7. ClaimBacked' BY <1>1 DEF Denied, conversation, ClaimBacked
<1> QED BY <1>4, <1>5, <1>6, <1>7

\* The gate lets the run pass: claimsHeld knows the claim.
LEMMA BeginInv ==
    ASSUME ReplyInv, NEW r \in Runs, NEW next \in {"working", "fallback"}, Begin(r, next)
    PROVE  ReplyInv'
<1> USE HoldersAssumption, BoundsAssumption DEF ReplyInv
<1>1. /\ Onward /\ run'[r].pc = next /\ run'[r].home = run[r].home
      /\ \A s \in Runs : s # r => run'[s] = run[s]
  BY Moves DEF Begin, Working, Ready, Claimed, Sending
<1>2. Kept /\ Shown /\ visible' \subseteq DOMAIN msg' BY Stays DEF Begin
<1>3. Hears /\ (lost = "yes" => lost' = "yes") BY DEF Begin, Hears, UpToDate, TypeOK
<1>4. Prepared' /\ OneCurrent' /\ UpToDate' /\ ReadBefore' BY <1>1, <1>2, <1>3, Frame
<1>5. TypeOK'
  <2>1. run[r].home \in Replicas BY DEF Begin, Prepared, TypeOK, Activation
  <2>2. claimsHeld' \subseteq Replicas BY <2>1 DEF Begin, TypeOK
  <2> QED BY <1>1, <1>2, <1>3, <2>2, FrameType DEF TypeOK, Begin, conversation
<1>6. ClaimKept' BY <1>1, ClaimStays DEF Begin, conversation, Claimed
<1>7. ClaimBacked' BY <1>1 DEF Begin, conversation, ClaimBacked
<1> QED BY <1>4, <1>5, <1>6, <1>7

\* The send fails, before or after its commit.
LEMMA PostFailsInv ==
    ASSUME ReplyInv, NEW r \in Runs, NEW committed \in YesNo, PostFails(r, committed)
    PROVE  ReplyInv'
<1> USE HoldersAssumption, BoundsAssumption DEF ReplyInv
<1>1. /\ Onward /\ run'[r].pc = "working" /\ run'[r].home = run[r].home
      /\ \A s \in Runs : s # r => run'[s] = run[s]
  BY Moves DEF PostFails, Working, Ready, Claimed, Sending
<1>2. Kept /\ Shown /\ visible' \subseteq DOMAIN msg'
  <2>1. run[r].post \in Underway /\ run[r].post \in DOMAIN msg
    BY DEF PostFails, Prepared, Underway, Sending
  <2>2. visible' \subseteq visible \cup {run[r].post} /\ visible \subseteq visible' /\ msg' = msg
    BY DEF PostFails
  <2> QED BY <2>1, <2>2, Stays DEF Shown, Underway, TypeOK
<1>3. Hears /\ (lost = "yes" => lost' = "yes")
  BY DEF PostFails, handler, Hears, UpToDate, TypeOK
<1>4. Prepared' /\ OneCurrent' /\ UpToDate' /\ ReadBefore' BY <1>1, <1>2, <1>3, Frame
<1>5. TypeOK'
  BY <1>1, <1>2, <1>3, FrameType DEF TypeOK, PostFails, Happens, handler, YesNo
<1>6. ClaimKept' BY <1>1, ClaimStays DEF PostFails, Claimed
<1>7. ClaimBacked' BY <1>1 DEF PostFails, handler, ClaimBacked
<1> QED BY <1>4, <1>5, <1>6, <1>7

\* Nothing is to be done.
LEMMA SkipInv ==
    ASSUME ReplyInv, NEW r \in Runs, Skip(r) PROVE ReplyInv'
<1> USE HoldersAssumption, BoundsAssumption DEF ReplyInv
<1>1. Onward /\ run'[r].pc = "done" /\ \A s \in Runs : s # r => run'[s] = run[s]
  BY Ends DEF Skip, Working
<1>2. Kept /\ Shown /\ visible' \subseteq DOMAIN msg' BY Stays DEF Skip
<1>3. Hears /\ (lost = "yes" => lost' = "yes")
  BY DEF Skip, handler, Hears, UpToDate, TypeOK
<1>4. Prepared' /\ OneCurrent' /\ UpToDate' /\ ReadBefore' BY <1>1, <1>2, <1>3, Frame
<1>5. TypeOK' BY <1>1, <1>2, <1>3, FrameType DEF TypeOK, Skip, conversation, handler
<1>6. ClaimKept' BY <1>1, ClaimStays DEF Skip, conversation, Claimed
<1>7. ClaimBacked' BY <1>1 DEF Skip, conversation, handler, ClaimBacked
<1> QED BY <1>4, <1>5, <1>6, <1>7

\* releaseConversationClaim(): a run still at work is told to have lost its claim.
LEMMA UnclaimInv ==
    ASSUME ReplyInv, NEW r \in Runs, Unclaim(r) PROVE ReplyInv'
<1> USE HoldersAssumption, BoundsAssumption DEF ReplyInv
<1>1. Onward /\ run'[r].pc = "done" /\ \A s \in Runs : s # r => run'[s] = run[s]
  BY Ends DEF Unclaim, Working
<1>2. Kept /\ Shown /\ visible' \subseteq DOMAIN msg' BY Stays DEF Unclaim
<1>3. Hears /\ (lost = "yes" => lost' = "yes")
  BY DEF Unclaim, handler, Hears, UpToDate, TypeOK
<1>4. Prepared' /\ OneCurrent' /\ UpToDate' /\ ReadBefore' BY <1>1, <1>2, <1>3, Frame
<1>5. TypeOK' BY <1>1, <1>2, <1>3, FrameType DEF TypeOK, Unclaim, handler, YesNo
<1>6. ClaimKept' BY <1>1 DEF Unclaim, ClaimKept, HolderWorks, Claimed
<1>7. ClaimBacked' BY <1>1 DEF Unclaim, handler, ClaimBacked
<1> QED BY <1>4, <1>5, <1>6, <1>7

\* The release fails: the claim is marked as one that nobody will release.
LEMMA UnclaimFailsInv ==
    ASSUME ReplyInv, NEW r \in Runs, UnclaimFails(r) PROVE ReplyInv'
<1> USE HoldersAssumption, BoundsAssumption DEF ReplyInv
<1>1. Onward /\ run'[r].pc = "done" /\ \A s \in Runs : s # r => run'[s] = run[s]
  BY Ends DEF UnclaimFails, Working
<1>2. Kept /\ Shown /\ visible' \subseteq DOMAIN msg' BY Stays DEF UnclaimFails
<1>3. Hears /\ lost' = lost BY DEF UnclaimFails, handler, Hears, UpToDate, TypeOK
<1>4. Prepared' /\ OneCurrent' /\ UpToDate' /\ ReadBefore' BY <1>1, <1>2, <1>3, Frame
<1>5. TypeOK'
  BY <1>1, <1>2, <1>3, FrameType DEF TypeOK, UnclaimFails, Happens, handler
<1>6. ClaimKept' BY <1>1 DEF UnclaimFails, ClaimKept, Claimed
<1>7. ClaimBacked' BY <1>1 DEF UnclaimFails, handler, ClaimBacked
<1> QED BY <1>4, <1>5, <1>6, <1>7

\* The reply is withheld.
LEMMA WithholdInv ==
    ASSUME ReplyInv, NEW r \in Runs, Withhold(r) PROVE ReplyInv'
<1> USE HoldersAssumption, BoundsAssumption DEF ReplyInv
<1>1. /\ Onward /\ ClaimBacked' /\ claimsHeld' \subseteq Replicas
      /\ run'[r].pc \in {"unclaim", "done"}
      /\ \A s \in Runs : s # r => run'[s] = run[s]
  BY Finishes DEF Withhold, conversation, Claimed
<1>2. Kept /\ Shown /\ visible' \subseteq DOMAIN msg' BY Stays DEF Withhold
<1>3. Hears /\ (lost = "yes" => lost' = "yes")
  BY DEF Withhold, Hears, UpToDate, TypeOK
<1>4. Prepared' /\ OneCurrent' /\ UpToDate' /\ ReadBefore' BY <1>1, <1>2, <1>3, Frame
<1>5. TypeOK' BY <1>1, <1>2, <1>3, FrameType DEF TypeOK, Withhold, conversation
<1>6. ClaimKept' BY <1>1, ClaimStays DEF Withhold, conversation, Claimed
<1>7. ClaimBacked' BY <1>1
<1> QED BY <1>4, <1>5, <1>6, <1>7

\* The fall-back posts nothing.
LEMMA FallBackSilentInv ==
    ASSUME ReplyInv, NEW r \in Runs, FallBackSilent(r) PROVE ReplyInv'
<1> USE HoldersAssumption, BoundsAssumption DEF ReplyInv
<1>1. /\ Onward /\ ClaimBacked' /\ claimsHeld' \subseteq Replicas
      /\ run'[r].pc \in {"unclaim", "done"}
      /\ \A s \in Runs : s # r => run'[s] = run[s]
  BY Finishes DEF FallBackSilent, conversation, Claimed
<1>2. Kept /\ Shown /\ visible' \subseteq DOMAIN msg' BY Stays DEF FallBackSilent
<1>3. Hears /\ (lost = "yes" => lost' = "yes")
  BY DEF FallBackSilent, Hears, UpToDate, TypeOK
<1>4. Prepared' /\ OneCurrent' /\ UpToDate' /\ ReadBefore' BY <1>1, <1>2, <1>3, Frame
<1>5. TypeOK'
  BY <1>1, <1>2, <1>3, FrameType DEF TypeOK, FallBackSilent, conversation, Happens
<1>6. ClaimKept' BY <1>1, ClaimStays DEF FallBackSilent, conversation, Claimed
<1>7. ClaimBacked' BY <1>1
<1> QED BY <1>4, <1>5, <1>6, <1>7

\* The reply becomes a draft for the staff.
LEMMA ParkInv ==
    ASSUME ReplyInv, NEW r \in Runs, Park(r) PROVE ReplyInv'
<1> USE HoldersAssumption, BoundsAssumption DEF ReplyInv
<1>1. /\ Onward /\ ClaimBacked' /\ claimsHeld' \subseteq Replicas
      /\ run'[r].pc \in {"unclaim", "done"}
      /\ \A s \in Runs : s # r => run'[s] = run[s]
  BY Finishes DEF Park, Claimed
<1>2. Kept /\ Shown /\ visible' \subseteq DOMAIN msg' BY Stores DEF Park
<1>3. Hears /\ (lost = "yes" => lost' = "yes") BY DEF Park, Hears, UpToDate, TypeOK
<1>4. Prepared' /\ OneCurrent' /\ UpToDate' /\ ReadBefore' BY <1>1, <1>2, <1>3, Frame
<1>5. TypeOK' BY <1>1, <1>2, <1>3, FrameType DEF TypeOK, Park, YesNo
<1>6. ClaimKept' BY <1>1, ClaimStays DEF Park, Claimed
<1>7. ClaimBacked' BY <1>1
<1> QED BY <1>4, <1>5, <1>6, <1>7

\* The fall-back leaves a note.
LEMMA FallBackNoteInv ==
    ASSUME ReplyInv, NEW r \in Runs, FallBackNote(r) PROVE ReplyInv'
<1> USE HoldersAssumption, BoundsAssumption DEF ReplyInv
<1>1. /\ Onward /\ ClaimBacked' /\ claimsHeld' \subseteq Replicas
      /\ run'[r].pc \in {"unclaim", "done"}
      /\ \A s \in Runs : s # r => run'[s] = run[s]
  BY Finishes DEF FallBackNote, Claimed
<1>2. Kept /\ Shown /\ visible' \subseteq DOMAIN msg' BY Stores DEF FallBackNote
<1>3. Hears /\ (lost = "yes" => lost' = "yes")
  BY DEF FallBackNote, Hears, UpToDate, TypeOK
<1>4. Prepared' /\ OneCurrent' /\ UpToDate' /\ ReadBefore' BY <1>1, <1>2, <1>3, Frame
<1>5. TypeOK' BY <1>1, <1>2, <1>3, FrameType DEF TypeOK, FallBackNote, YesNo
<1>6. ClaimKept' BY <1>1, ClaimStays DEF FallBackNote, Claimed
<1>7. ClaimBacked' BY <1>1
<1> QED BY <1>4, <1>5, <1>6, <1>7

\* The fall-back's message is committed.
LEMMA FellBackInv ==
    ASSUME ReplyInv, NEW r \in Runs, FellBack(r) PROVE ReplyInv'
<1> USE HoldersAssumption, BoundsAssumption DEF ReplyInv
<1>1. /\ Onward /\ ClaimBacked' /\ claimsHeld' \subseteq Replicas
      /\ run'[r].pc \in {"unclaim", "done"}
      /\ \A s \in Runs : s # r => run'[s] = run[s]
  BY Finishes DEF FellBack, Claimed
<1>2. Kept /\ Shown /\ visible' \subseteq DOMAIN msg'
  <2>1. run[r].post \in Underway /\ run[r].post \in DOMAIN msg
    BY DEF FellBack, Prepared, Underway, Sending
  <2>2. visible' = visible \cup {run[r].post} /\ msg' = msg BY DEF FellBack
  <2> QED BY <2>1, <2>2, Stays DEF Shown, Underway, TypeOK
<1>3. Hears /\ (lost = "yes" => lost' = "yes") BY DEF FellBack, Hears, UpToDate, TypeOK
<1>4. Prepared' /\ OneCurrent' /\ UpToDate' /\ ReadBefore' BY <1>1, <1>2, <1>3, Frame
<1>5. TypeOK' BY <1>1, <1>2, <1>3, FrameType DEF TypeOK, FellBack, YesNo
<1>6. ClaimKept' BY <1>1, ClaimStays DEF FellBack, Claimed
<1>7. ClaimBacked' BY <1>1
<1> QED BY <1>4, <1>5, <1>6, <1>7

\* The audit closes the conversation.
LEMMA AuditClosesInv ==
    ASSUME ReplyInv, NEW r \in Runs, AuditCloses(r) PROVE ReplyInv'
<1> USE HoldersAssumption, BoundsAssumption DEF ReplyInv
<1>1. /\ Onward /\ ClaimBacked' /\ claimsHeld' \subseteq Replicas
      /\ run'[r].pc \in {"unclaim", "done"}
      /\ \A s \in Runs : s # r => run'[s] = run[s]
  BY Finishes DEF AuditCloses, Settled, Claimed
<1>2. Kept /\ Shown /\ visible' \subseteq DOMAIN msg' BY Stays DEF AuditCloses
<1>3. Hears /\ (lost = "yes" => lost' = "yes")
  BY DEF AuditCloses, Hears, UpToDate, TypeOK
<1>4. Prepared' /\ OneCurrent' /\ UpToDate' /\ ReadBefore' BY <1>1, <1>2, <1>3, Frame
<1>5. TypeOK' BY <1>1, <1>2, <1>3, FrameType DEF TypeOK, AuditCloses, Settled, YesNo
<1>6. ClaimKept' BY <1>1 DEF AuditCloses, HolderWorks, ClaimKept, Claimed
<1>7. ClaimBacked' BY <1>1
<1> QED BY <1>4, <1>5, <1>6, <1>7

\* The audit settles the conversation as spam.
LEMMA AuditSpamInv ==
    ASSUME ReplyInv, NEW r \in Runs, AuditSpam(r) PROVE ReplyInv'
<1> USE HoldersAssumption, BoundsAssumption DEF ReplyInv
<1>1. /\ Onward /\ ClaimBacked' /\ claimsHeld' \subseteq Replicas
      /\ run'[r].pc \in {"unclaim", "done"}
      /\ \A s \in Runs : s # r => run'[s] = run[s]
  BY Finishes DEF AuditSpam, Settled, Claimed
<1>2. Kept /\ Shown /\ visible' \subseteq DOMAIN msg' BY Stores DEF AuditSpam
<1>3. Hears /\ (lost = "yes" => lost' = "yes")
  BY DEF AuditSpam, Hears, UpToDate, TypeOK
<1>4. Prepared' /\ OneCurrent' /\ UpToDate' /\ ReadBefore' BY <1>1, <1>2, <1>3, Frame
<1>5. TypeOK' BY <1>1, <1>2, <1>3, FrameType DEF TypeOK, AuditSpam, Settled, YesNo
<1>6. ClaimKept' BY <1>1 DEF AuditSpam, HolderWorks, ClaimKept, Claimed
<1>7. ClaimBacked' BY <1>1
<1> QED BY <1>4, <1>5, <1>6, <1>7

\* The model has answered, or the run is aborted.
LEMMA GenerateInv ==
    ASSUME ReplyInv, NEW r \in Runs, NEW next \in {"audited", "fallback"}, Generate(r, next)
    PROVE  ReplyInv'
<1> USE HoldersAssumption, BoundsAssumption DEF ReplyInv
<1>1. /\ Onward /\ ClaimBacked' /\ claimsHeld' \subseteq Replicas
      /\ run'[r].pc \in {"unclaim", "done", "audited", "fallback"}
      /\ \A s \in Runs : s # r => run'[s] = run[s]
  <2>1. CASE Aborted(r) BY <2>1, Finishes DEF Generate, conversation, Claimed
  <2>2. CASE ~Aborted(r)
    <3>1. /\ Onward /\ run'[r].pc = next /\ run'[r].home = run[r].home
          /\ \A s \in Runs : s # r => run'[s] = run[s]
      BY <2>2, Moves DEF Generate, Working, Ready, Claimed, Sending
    <3>2. ClaimBacked' BY <2>2, <3>1 DEF Generate, conversation, ClaimBacked
    <3> QED BY <2>2, <3>1, <3>2 DEF Generate, TypeOK
  <2> QED BY <2>1, <2>2
<1>2. Kept /\ Shown /\ visible' \subseteq DOMAIN msg' BY Stays DEF Generate
<1>3. Hears /\ lost' = lost BY DEF Generate, Hears, UpToDate, TypeOK
<1>4. Prepared' /\ OneCurrent' /\ UpToDate' /\ ReadBefore' BY <1>1, <1>2, <1>3, Frame
<1>5. TypeOK' BY <1>1, <1>2, <1>3, FrameType DEF TypeOK, Generate, conversation
<1>6. ClaimKept' BY <1>1, ClaimStays DEF Generate, conversation, Claimed
<1> QED BY <1>1, <1>4, <1>5, <1>6

\* The reply is committed.
LEMMA PostedInv ==
    ASSUME ReplyInv, NEW r \in Runs, NEW next \in {"settling", "done"}, Posted(r, next)
    PROVE  ReplyInv'
<1> USE HoldersAssumption, BoundsAssumption DEF ReplyInv
<1>1. /\ Onward /\ ClaimBacked' /\ claimsHeld' \subseteq Replicas
      /\ run'[r].pc \in {"unclaim", "done", "settling"}
      /\ \A s \in Runs : s # r => run'[s] = run[s]
  <2>1. CASE next # "settling" BY <2>1, Finishes DEF Posted, Claimed
  <2>2. CASE next = "settling"
    <3>1. /\ Onward /\ run'[r].pc = next /\ run'[r].home = run[r].home
          /\ \A s \in Runs : s # r => run'[s] = run[s]
      BY <2>2, Moves DEF Posted, Working, Ready, Claimed, Sending
    <3>2. ClaimBacked' BY <2>2, <3>1 DEF Posted, ClaimBacked
    <3> QED BY <2>2, <3>1, <3>2 DEF Posted, TypeOK
  <2> QED BY <2>1, <2>2
<1>2. Kept /\ Shown /\ visible' \subseteq DOMAIN msg'
  <2>1. run[r].post \in Underway /\ run[r].post \in DOMAIN msg
    BY DEF Posted, Prepared, Underway, Sending
  <2>2. visible' = visible \cup {run[r].post} /\ msg' = msg BY DEF Posted
  <2> QED BY <2>1, <2>2, Stays DEF Shown, Underway, TypeOK
<1>3. Hears /\ lost' = lost BY DEF Posted, Hears, UpToDate, TypeOK
<1>4. Prepared' /\ OneCurrent' /\ UpToDate' /\ ReadBefore' BY <1>1, <1>2, <1>3, Frame
<1>5. TypeOK' BY <1>1, <1>2, <1>3, FrameType DEF TypeOK, Posted, YesNo
<1>6. ClaimKept' BY <1>1, ClaimStays DEF Posted, Claimed
<1> QED BY <1>1, <1>4, <1>5, <1>6

\* tryAcquireConversation(): it takes a claim from nobody who works under it.
LEMMA AcquireInv ==
    ASSUME ReplyInv, NEW r \in Runs, Acquire(r) PROVE ReplyInv'
<1> USE HoldersAssumption, BoundsAssumption DEF ReplyInv
<1>1. /\ Onward /\ \A s \in Runs : s # r => run'[s] = run[s]
      /\ Acquirable(run[r].home) => run'[r].pc = "acquired" /\ run'[r].home = run[r].home
      /\ ~Acquirable(run[r].home) => run'[r].pc = "done"
  <2>1. CASE Acquirable(run[r].home)
    BY <2>1, Moves DEF Acquire, Working, Ready, Claimed, Sending
  <2>2. CASE ~Acquirable(run[r].home) BY <2>2, Ends DEF Acquire, Working
  <2> QED BY <2>1, <2>2
<1>2. Kept /\ Shown /\ visible' \subseteq DOMAIN msg' BY Stays DEF Acquire
<1>3. Hears /\ lost' = lost BY DEF Acquire, handler, Hears, UpToDate, TypeOK
<1>4. Prepared' /\ OneCurrent' /\ UpToDate' /\ ReadBefore' BY <1>1, <1>2, <1>3, Frame
<1>5. run[r].home \in Replicas BY DEF Acquire, Prepared, TypeOK, Activation
<1>6. TypeOK' BY <1>1, <1>2, <1>3, <1>5, FrameType DEF TypeOK, Acquire, handler
<1>7. ClaimKept'
  <2>1. \A s \in Runs : run[s].pc \in Claimed => run[s].home \in Replicas
    BY DEF Prepared, TypeOK, Activation, Claimed
  <2> QED BY <1>1, <2>1 DEF Acquire, Acquirable, ClaimKept, Claimed
<1>8. ClaimBacked' BY <1>1 DEF Acquire, handler, ClaimBacked
<1> QED BY <1>4, <1>6, <1>7, <1>8

\* A call before the claim is known fails; what tryAcquireConversation() may have
\* committed is marked as a claim that nobody will release.
LEMMA CallFailsInv ==
    ASSUME ReplyInv, NEW r \in Runs, CallFails(r) PROVE ReplyInv'
<1> USE HoldersAssumption, BoundsAssumption DEF ReplyInv
<1>1. Onward /\ run'[r].pc = "done" /\ \A s \in Runs : s # r => run'[s] = run[s]
  BY Ends DEF CallFails, Working
<1>2. Kept /\ Shown /\ visible' \subseteq DOMAIN msg' BY Stays DEF CallFails
<1>3. Hears /\ lost' = lost BY DEF CallFails, handler, Hears, UpToDate, TypeOK
<1>4. Prepared' /\ OneCurrent' /\ UpToDate' /\ ReadBefore' BY <1>1, <1>2, <1>3, Frame
<1>5. run[r].home \in Replicas BY DEF CallFails, Prepared, TypeOK, Activation
<1>6. TypeOK'
  BY <1>1, <1>2, <1>3, <1>5, FrameType DEF TypeOK, CallFails, Happens, handler
<1>7. ClaimKept'
  <2>1. \A s \in Runs : run[s].pc \in Claimed => run[s].home \in Replicas
    BY DEF Prepared, TypeOK, Activation, Claimed
  <2> QED BY <1>1, <2>1 DEF CallFails, Acquirable, ClaimKept, Claimed
<1>8. ClaimBacked' BY <1>1 DEF CallFails, handler, ClaimBacked
<1> QED BY <1>4, <1>6, <1>7, <1>8

\* A replica dies with its runs.
LEMMA CrashInv ==
    ASSUME ReplyInv, NEW h \in Replicas, Crash(h) PROVE ReplyInv'
<1> USE HoldersAssumption, BoundsAssumption DEF ReplyInv
<1> DEFINE ended == [Blank EXCEPT !.pc = "done"]
<1>1. ended \in Activation /\ ended.pc = "done" /\ ended.home = Nobody
  BY DEF Blank, Activation, YesNo
<1>2. \A r \in Runs : run'[r] = IF r \in Active(h) THEN ended ELSE run[r] BY DEF Crash
<1>3. \A r \in Runs : run[r].home = h => r \in Active(h) BY DEF Prepared, Active
<1> HIDE DEF ended
<1>4. run' \in [Runs -> Activation] BY <1>1 DEF Crash, TypeOK, ended
<1>5. Onward BY <1>2, <1>4 DEF Onward, Active, Working, ended
<1>6. \A r \in Runs : run'[r].home # h BY <1>1, <1>2, <1>3
<1>7. Kept /\ Shown /\ visible' \subseteq DOMAIN msg' BY Stays DEF Crash
<1>8. Hears /\ lost' = lost BY <1>6 DEF Crash, Hears, UpToDate, TypeOK
<1>9. Prepared' /\ OneCurrent' /\ UpToDate' /\ ReadBefore' BY <1>5, <1>7, <1>8, Frame
<1>10. TypeOK'
  <2>1. /\ holder' \in Replicas \cup {Nobody, Departed} /\ events' \in 0 .. MaxEvents
        /\ claimsHeld' \subseteq Replicas /\ swept' \subseteq Replicas
    BY DEF TypeOK, Crash, Happens
  <2>2. /\ lease' = lease /\ human' = human /\ status' = status
        /\ agentMode' = agentMode /\ attention' = attention
    BY DEF Crash
  <2> QED BY <1>5, <1>7, <1>8, <2>1, <2>2, FrameType DEF TypeOK
<1>11. \A r \in Runs : run'[r].pc # "done" => run'[r] = run[r] BY <1>1, <1>2
<1>12. ClaimKept' BY <1>6 DEF Crash, ClaimKept, Claimed
<1>13. ClaimBacked'
  <2>1. \A r \in Runs : run[r].home # h => run'[r] = run[r] BY <1>2 DEF Active
  <2> QED BY <2>1 DEF Crash, ClaimBacked
<1> QED BY <1>9, <1>10, <1>12, <1>13

\* The conversation is read: nothing its replica has heard of is newer than what it
\* sees, and what a reply follows is no reply.
LEMMA ReadInv ==
    ASSUME ReplyInv, NEW r \in Runs, Read(r) PROVE ReplyInv'
<1> USE HoldersAssumption, BoundsAssumption DEF ReplyInv
<1> DEFINE f == Newest(FromCustomer)
           l == Newest(visible)
           p == Newest(Public)
           d == IF run[r].mode = "draft" \/ agentMode = "draft_only" THEN "draft" ELSE "send"
<1>1. /\ f \in FromCustomer \cup {0} /\ \A n \in FromCustomer : n <= f
      /\ l \in visible \cup {0} /\ \A n \in visible : n <= l
      /\ p \in Public \cup {0} /\ \A n \in Public : n <= p
  BY NewestFound DEF FromCustomer, Public, TypeOK
<1>2. FromCustomer \subseteq visible /\ Public \subseteq visible /\ visible \subseteq 1 .. Len(msg)
      /\ Len(msg) \in Nat
  BY DEF FromCustomer, Public, TypeOK
<1>3. /\ run[r] \in Activation
      /\ run'[r] = [run[r] EXCEPT !.pc = "read", !.seen = f, !.since = l, !.delivery = d]
      /\ \A s \in Runs : s # r => run'[s] = run[s]
  BY DEF Read, LastMessage, TypeOK
<1> HIDE DEF f, l, p, d
<1>4. f \in Nat /\ l \in Nat /\ f <= l /\ l <= Len(msg) BY <1>1, <1>2
<1>5. d \in {"send", "draft"} /\ (run[r].mode = "draft" => d = "draft") BY DEF d
<1>6. /\ run'[r].pc = "read" /\ run'[r].seen = f /\ run'[r].since = l
      /\ run'[r].delivery = d /\ run'[r].home = run[r].home /\ run'[r].mode = run[r].mode
      /\ run'[r].aborted = run[r].aborted /\ run'[r] \in Activation
  BY <1>3, <1>4, <1>5 DEF Activation
<1>7. run[r].pc = "debounce" /\ ~Aborted(r) BY DEF Read
<1>8. TypeOK'
  <2>1. run' \in [Runs -> Activation] BY <1>6 DEF Read, TypeOK
  <2>2. \A s \in Runs : run'[s].seen <= run'[s].since /\ run'[s].since <= Len(msg)
    BY <1>3, <1>4, <1>6 DEF TypeOK
  <2> QED BY <2>1, <2>2 DEF Read, TypeOK, conversation, handler
<1>9. Prepared'
  <2>1. run[r].mode = "reply" => l > 0 /\ msg[l].kind \notin {"agent", "fallback"}
    <3>1. SUFFICES ASSUME p \in FromCustomer
                   PROVE  l > 0 /\ msg[l].kind \notin {"agent", "fallback"}
      BY DEF Read, Wanted, AwaitsReply, p
    <3>2. p \in visible /\ p <= l /\ p \in Nat /\ p > 0 BY <1>1, <1>2, <3>1
    <3>3. l > 0 /\ l \in visible BY <1>1, <3>2
    <3>4. l \in Public => l = p BY <1>1, <3>2
    <3> QED BY <3>1, <3>3, <3>4 DEF Public, FromCustomer
  <2>2. run[r].home # Nobody BY <1>7 DEF Prepared
  <2>3. msg' = msg BY DEF Read
  <2>4. SUFFICES ASSUME NEW s \in Runs
        PROVE  /\ run'[s].home = Nobody <=> run'[s].pc \in {"free", "done"}
               /\ run'[s].pc \in Claimed \cup {"read"} =>
                    /\ run'[s].mode = "draft" => run'[s].delivery = "draft"
                    /\ run'[s].mode = "reply" =>
                          run'[s].since > 0 /\ msg[run'[s].since].kind \notin {"agent", "fallback"}
               /\ run'[s].pc \in Sending =>
                    /\ run'[s].post \in DOMAIN msg
                    /\ run'[s].aborted = "yes" => msg[run'[s].post].late = "yes"
    BY <2>3 DEF Prepared, Aborted
  <2>5. CASE s = r BY <1>5, <1>6, <2>1, <2>2, <2>5 DEF Sending
  <2>6. CASE s # r BY <1>3, <2>6 DEF Prepared, Aborted
  <2> QED BY <2>5, <2>6
<1>10. OneCurrent'
  <2>1. \A s \in Runs : /\ run'[s].home = run[s].home /\ run'[s].aborted = run[s].aborted
                        /\ run'[s].pc \in {"free", "done"} <=> run[s].pc \in {"free", "done"}
    BY <1>3, <1>6, <1>7
  <2> QED BY <2>1 DEF OneCurrent, Active, Aborted
<1>11. ClaimKept' BY <1>3, <1>6 DEF Read, conversation, ClaimKept, Claimed
<1>12. UpToDate'
  <2>1. heard' = heard /\ FromCustomer' = FromCustomer
    BY DEF Read, handler, FromCustomer
  <2>2. run[r].home \in Replicas BY <1>3, <1>7 DEF Prepared, Activation
  <2>3. \A n \in heard[run[r].home] : n <= f BY <1>1, <2>2 DEF UpToDate
  <2> QED BY <1>3, <1>6, <2>1, <2>3 DEF UpToDate, Aborted
<1>13. ReadBefore'
  <2>1. \A s \in Runs : run'[s].pc \in Sending =>
           run[s].pc \in Sending /\ run'[s].post = run[s].post
    BY <1>3, <1>6 DEF Sending
  <2>2. Underway' \subseteq Underway BY <2>1 DEF Read, Underway
  <2> QED BY <2>2 DEF Read, ReadBefore
<1>14. ClaimBacked' BY <1>3 DEF Read, conversation, handler, ClaimBacked
<1> QED BY <1>8, <1>9, <1>10, <1>11, <1>12, <1>13, <1>14

\* What sendMessage() writes up to its commit.
LEMMA Sends ==
    ASSUME ReplyInv, NEW r \in Runs, run[r].pc \in {"audited", "fallback"},
           NEW kind \in {"agent", "greeting", "fallback"}, NEW late \in YesNo,
           NEW place \in Sending, Send(r, kind, late, place), Aborted(r) => late = "yes",
           UNCHANGED <<holder, lease, claimsHeld, heard, lost>>,
           kind = "agent" => \A x \in Underway : msg[x].kind \in {"agent", "fallback"} =>
              lost = "yes" \/ msg[x].late = "yes" \/ x < run[r].since
    PROVE  /\ Prepared' /\ OneCurrent' /\ ClaimKept' /\ UpToDate' /\ ReadBefore' /\ ClaimBacked'
           /\ msg' \in Seq(Message) /\ visible' \subseteq DOMAIN msg'
           /\ heard' \in [Replicas -> SUBSET DOMAIN msg']
           /\ run' \in [Runs -> Activation]
           /\ \A s \in Runs : run'[s].seen <= run'[s].since /\ run'[s].since <= Len(msg')
<1> USE HoldersAssumption, BoundsAssumption DEF ReplyInv
<1> DEFINE new == Len(msg) + 1
           m == [kind |-> kind, seen |-> run[r].seen, since |-> run[r].since, late |-> late]
<1>1. run[r] \in Activation /\ msg \in Seq(Message) BY DEF TypeOK
<1>2. m \in Message /\ m.kind = kind /\ m.since = run[r].since /\ m.late = late
  BY <1>1 DEF Message, Activation
<1>3. msg' = Append(msg, m) BY DEF Send, Write
<1>4. run'[r] = [run[r] EXCEPT !.pc = place, !.post = new] /\ visible' = visible
      /\ \A s \in Runs : s # r => run'[s] = run[s]
  BY DEF Send, TypeOK
<1> HIDE DEF m
<1>5. /\ msg' \in Seq(Message) /\ Len(msg') = Len(msg) + 1 /\ Len(msg) \in Nat
      /\ \A n \in DOMAIN msg : msg'[n] = msg[n]
      /\ msg'[new] = m
  BY <1>1, <1>2, <1>3
<1>6. DOMAIN msg = 1 .. Len(msg) /\ DOMAIN msg' = 1 .. new BY <1>5
<1>7. new \in DOMAIN msg' \ DOMAIN msg /\ DOMAIN msg \subseteq DOMAIN msg' /\ new \in Nat
  BY <1>6
<1>8. \A n \in DOMAIN msg : n < new OBVIOUS
<1> HIDE DEF new
<1>9. place \in Claimed /\ place \notin {"free", "debounce", "read", "unclaim", "done"}
  BY DEF Sending, Claimed
<1>10. /\ run'[r] \in Activation
       /\ run'[r].pc = place /\ run'[r].post = new /\ run'[r].home = run[r].home
       /\ run'[r].mode = run[r].mode /\ run'[r].delivery = run[r].delivery
       /\ run'[r].seen = run[r].seen /\ run'[r].since = run[r].since
       /\ run'[r].aborted = run[r].aborted
  BY <1>1, <1>4, <1>7, <1>9 DEF Activation
<1>11. run[r].pc \in Claimed /\ run[r].pc \notin Sending \cup {"free", "done", "acquired", "unclaim"}
  BY DEF Claimed, Sending
<1>12. run' \in [Runs -> Activation] BY <1>10 DEF Send, TypeOK
<1>13. \A s \in Runs : run'[s].seen <= run'[s].since /\ run'[s].since <= Len(msg')
  <2>1. \A s \in Runs : run'[s].seen = run[s].seen /\ run'[s].since = run[s].since
    BY <1>4, <1>10
  <2>2. \A s \in Runs : run[s].since \in Nat BY DEF TypeOK, Activation
  <2> QED BY <1>5, <2>1, <2>2 DEF TypeOK
<1>14. \A s \in Runs : run[s].since > 0 => run[s].since \in DOMAIN msg
  <2>1. \A s \in Runs : run[s].since \in Nat BY DEF TypeOK, Activation
  <2> QED BY <2>1 DEF TypeOK
<1>15. Prepared'
  <2>1. SUFFICES ASSUME NEW s \in Runs
        PROVE  /\ run'[s].home = Nobody <=> run'[s].pc \in {"free", "done"}
               /\ run'[s].pc \in Claimed \cup {"read"} =>
                    /\ run'[s].mode = "draft" => run'[s].delivery = "draft"
                    /\ run'[s].mode = "reply" =>
                          run'[s].since > 0 /\ msg'[run'[s].since].kind \notin {"agent", "fallback"}
               /\ run'[s].pc \in Sending =>
                    /\ run'[s].post \in DOMAIN msg'
                    /\ run'[s].aborted = "yes" => msg'[run'[s].post].late = "yes"
    BY DEF Prepared, Aborted
  <2>2. CASE s = r
    <3>1. run[r].home # Nobody BY DEF Prepared
    <3>2. /\ run[r].mode = "draft" => run[r].delivery = "draft"
          /\ run[r].mode = "reply" =>
                run[r].since > 0 /\ msg[run[r].since].kind \notin {"agent", "fallback"}
      BY <1>11 DEF Prepared
    <3> QED BY <1>2, <1>5, <1>7, <1>9, <1>10, <1>14, <2>2, <3>1, <3>2 DEF Aborted
  <2>3. CASE s # r BY <1>4, <1>5, <1>7, <1>14, <2>3 DEF Prepared, Aborted
  <2> QED BY <2>2, <2>3
<1>16. OneCurrent'
  <2>1. \A s \in Runs : /\ run'[s].home = run[s].home /\ run'[s].aborted = run[s].aborted
                        /\ run'[s].pc \in {"free", "done"} <=> run[s].pc \in {"free", "done"}
    BY <1>4, <1>9, <1>10
  <2> QED BY <2>1 DEF OneCurrent, Active, Aborted
<1>17. ClaimKept' BY <1>4, <1>10, <1>11 DEF ClaimKept
<1>18. UpToDate'
  <2>1. FromCustomer \subseteq FromCustomer' BY <1>4, <1>5 DEF FromCustomer, TypeOK
  <2>2. \A s \in Runs : run'[s].pc \in Claimed \cup {"read"} =>
           /\ run[s].pc \in Claimed \cup {"read"} /\ run'[s].home = run[s].home
           /\ run'[s].seen = run[s].seen /\ run'[s].aborted = run[s].aborted
    BY <1>4, <1>10, <1>11
  <2> QED BY <2>1, <2>2 DEF UpToDate, Aborted
<1>19. ReadBefore'
  <2>1. Underway \subseteq DOMAIN msg BY DEF Underway, Prepared, TypeOK
  <2>2. Underway' \subseteq Underway \cup {new}
    <3>1. \A s \in Runs : run'[s].pc \in Sending =>
             run'[s].post = new \/ (run[s].pc \in Sending /\ run'[s].post = run[s].post)
      BY <1>4, <1>10
    <3> QED BY <1>4, <3>1 DEF Underway
  <2>3. SUFFICES ASSUME NEW x \in Underway', NEW y \in Underway', x < y,
                        msg'[x].kind \in {"agent", "fallback"}, msg'[y].kind = "agent"
                 PROVE  \/ lost' = "yes"
                        \/ msg'[x].late = "yes" \/ msg'[y].late = "yes"
                        \/ x < msg'[y].since
    BY DEF ReadBefore
  <2>4. x \in Underway
    <3>1. y = new \/ (y < new /\ y \in Nat) BY <1>6, <1>8, <2>1, <2>2
    <3>2. x # new BY <1>7, <2>3, <3>1
    <3> QED BY <2>2, <3>2
  <2>5. msg'[x] = msg[x] BY <1>5, <2>1, <2>4
  <2>6. CASE y = new BY <1>2, <1>5, <2>3, <2>4, <2>5, <2>6
  <2>7. CASE y # new
    <3>1. y \in Underway /\ msg'[y] = msg[y] BY <1>5, <2>1, <2>2, <2>7
    <3> QED BY <2>3, <2>4, <2>5, <3>1 DEF ReadBefore
  <2> QED BY <2>6, <2>7
<1>20. ClaimBacked' BY <1>4 DEF ClaimBacked
<1>21. visible' \subseteq DOMAIN msg' /\ heard' \in [Replicas -> SUBSET DOMAIN msg']
  BY <1>4, <1>7 DEF TypeOK
<1> QED BY <1>5, <1>12, <1>13, <1>15, <1>16, <1>17, <1>18, <1>19, <1>20, <1>21

\* sendMessage() refuses a reply that another one has overtaken, and of two runs
\* that have the claim one is aborted.
LEMMA PostInv ==
    ASSUME ReplyInv, NEW r \in Runs, Post(r) PROVE ReplyInv'
<1> USE HoldersAssumption, BoundsAssumption DEF ReplyInv
<1> DEFINE kind == IF run[r].mode = "greet" THEN "greeting" ELSE "agent"
<1>1. kind \in {"agent", "greeting"} OBVIOUS
<1>2. run[r].pc = "audited" /\ ~Aborted(r) /\ Send(r, kind, "no", "posting")
  BY DEF Post, Stale
<1>3. ASSUME kind = "agent", NEW x \in Underway, msg[x].kind \in {"agent", "fallback"},
             lost # "yes", msg[x].late # "yes"
      PROVE  x < run[r].since
  <2>1. run[r].mode = "reply" BY <1>3 DEF Post, Prepared, TypeOK, Activation
  <2>2. run[r].since > 0 /\ msg[run[r].since].kind \notin {"agent", "fallback"}
    BY <1>2, <2>1 DEF Prepared, Claimed
  <2>3. CASE x \in visible
    <3>1. x \in Replies BY <1>3, <2>3 DEF Replies
    <3>2. ~(x > run[r].since) BY <2>2, <3>1 DEF Post, Refused, Raced
    <3>3. x \in Nat /\ run[r].since \in Nat BY <2>3 DEF TypeOK, Activation
    <3> QED BY <1>3, <2>2, <3>2, <3>3
  <2>4. CASE x \notin visible
    <3>1. PICK s \in Runs : run[s].pc \in Sending /\ run[s].post = x
      BY <2>4 DEF Underway
    <3>2. s # r /\ run[s].pc \in Claimed /\ run[r].pc \in Claimed
      BY <1>2, <3>1 DEF Sending, Claimed
    <3>3. run[s].home = run[r].home BY <1>3, <3>2 DEF ClaimKept
    <3>4. run[r].home \in Replicas BY <3>2 DEF Prepared, TypeOK, Activation, Claimed
    <3>5. r \in Active(run[r].home) /\ s \in Active(run[r].home)
      BY <3>2, <3>3 DEF Active, Claimed
    <3>6. Aborted(s) BY <1>2, <3>2, <3>4, <3>5 DEF OneCurrent
    <3> QED BY <1>3, <3>1, <3>6 DEF Prepared
  <2> QED BY <2>3, <2>4
<1> HIDE DEF kind
<1>4. UNCHANGED <<holder, lease, claimsHeld, heard, lost>>
  BY DEF Post, Send, conversation
<1>5. /\ Prepared' /\ OneCurrent' /\ ClaimKept' /\ UpToDate' /\ ReadBefore' /\ ClaimBacked'
      /\ msg' \in Seq(Message) /\ visible' \subseteq DOMAIN msg'
      /\ heard' \in [Replicas -> SUBSET DOMAIN msg']
      /\ run' \in [Runs -> Activation]
      /\ \A s \in Runs : run'[s].seen <= run'[s].since /\ run'[s].since <= Len(msg')
  BY <1>1, <1>2, <1>3, <1>4, Sends DEF YesNo, Sending
<1>6. TypeOK' BY <1>4, <1>5 DEF Post, conversation, TypeOK
<1> QED BY <1>5, <1>6

\* The fall-back writes to the customer.
LEMMA FallBackPublicInv ==
    ASSUME ReplyInv, NEW r \in Runs, FallBackPublic(r) PROVE ReplyInv'
<1> USE HoldersAssumption, BoundsAssumption DEF ReplyInv
<1>1. UNCHANGED <<holder, lease, claimsHeld, heard, lost>>
  BY DEF FallBackPublic, Send, conversation
<1>2. run[r].aborted \in YesNo BY DEF TypeOK, Activation
<1>3. PICK kind \in {"greeting", "fallback"}, late \in YesNo :
        Send(r, kind, late, "falling") /\ (Aborted(r) => late = "yes")
  BY <1>2 DEF FallBackPublic, Aborted, YesNo
<1>4. /\ Prepared' /\ OneCurrent' /\ ClaimKept' /\ UpToDate' /\ ReadBefore' /\ ClaimBacked'
      /\ msg' \in Seq(Message) /\ visible' \subseteq DOMAIN msg'
      /\ heard' \in [Replicas -> SUBSET DOMAIN msg']
      /\ run' \in [Runs -> Activation]
      /\ \A s \in Runs : run'[s].seen <= run'[s].since /\ run'[s].since <= Len(msg')
  BY <1>1, <1>3, Sends DEF FallBackPublic, Sending
<1>5. TypeOK' BY <1>1, <1>4 DEF FallBackPublic, conversation, TypeOK
<1> QED BY <1>4, <1>5

\* spawn(): a new run, and every run of the replica under way is superseded.
LEMMA Spawns ==
    ASSUME ReplyInv, NEW h \in Replicas, NEW how \in {"reply", "greet", "draft"}, Spawn(h, how),
           heard' \in [Replicas -> SUBSET FromCustomer],
           \A g \in Replicas : g # h => heard'[g] = heard[g]
    PROVE  /\ Prepared' /\ OneCurrent' /\ ClaimKept' /\ UpToDate' /\ ReadBefore' /\ ClaimBacked'
           /\ msg' \in Seq(Message) /\ visible' \subseteq DOMAIN msg'
           /\ heard' \in [Replicas -> SUBSET DOMAIN msg']
           /\ run' \in [Runs -> Activation]
           /\ \A s \in Runs : run'[s].seen <= run'[s].since /\ run'[s].since <= Len(msg')
<1> USE HoldersAssumption, BoundsAssumption DEF ReplyInv
<1> DEFINE unused == {r \in Runs : run[r].pc = "free"}
           sending == {run[r].post : r \in {x \in Active(h) : run[x].pc \in Sending}}
           new == Min(unused)
           first == [Blank EXCEPT !.pc = "debounce", !.home = h, !.mode = how]
<1>1. unused # {} /\ unused \in SUBSET Nat BY DEF Spawn
<1>2. new \in unused BY <1>1, LeastFound
<1>3. /\ run' = [r \in Runs |->
                   IF r = new THEN first
                   ELSE IF r \in Active(h) THEN [run[r] EXCEPT !.aborted = "yes"] ELSE run[r]]
      /\ msg' = [n \in DOMAIN msg |->
                   IF n \in sending THEN [msg[n] EXCEPT !.late = "yes"] ELSE msg[n]]
  BY DEF Spawn, Superseded
<1>4. visible' = visible /\ UNCHANGED <<holder, lease, claimsHeld, lost>>
  BY DEF Spawn, conversation
<1>5. /\ first \in Activation /\ first.pc = "debounce" /\ first.home = h
      /\ first.seen = 0 /\ first.since = 0 /\ first.aborted = "no"
  BY DEF Blank, Activation, YesNo
<1>6. new \in Runs /\ run[new].pc = "free" BY <1>2
<1>7. \A n \in DOMAIN msg : n \in sending =>
        \E r \in Active(h) : run[r].pc \in Sending /\ run[r].post = n
  OBVIOUS
<1>8. \A r \in Active(h) : run[r].pc \in Sending => run[r].post \in sending OBVIOUS
<1> HIDE DEF unused, sending, new, first
<1>9. run'[new] = first BY <1>3, <1>6
<1>10. ASSUME NEW r \in Runs, r # new, r \in Active(h)
       PROVE  /\ run'[r] \in Activation /\ run'[r].aborted = "yes"
              /\ run'[r].pc = run[r].pc /\ run'[r].home = run[r].home
              /\ run'[r].mode = run[r].mode /\ run'[r].delivery = run[r].delivery
              /\ run'[r].seen = run[r].seen /\ run'[r].since = run[r].since
              /\ run'[r].post = run[r].post
  <2>1. run'[r] = [run[r] EXCEPT !.aborted = "yes"] /\ run[r] \in Activation
    BY <1>3, <1>10 DEF TypeOK
  <2> QED BY <2>1 DEF Activation, YesNo
<1>11. \A r \in Runs : r # new /\ r \notin Active(h) => run'[r] = run[r] BY <1>3
<1>12. \A r \in Runs : r # new =>
         /\ run'[r].pc = run[r].pc /\ run'[r].home = run[r].home
         /\ run'[r].mode = run[r].mode /\ run'[r].delivery = run[r].delivery
         /\ run'[r].seen = run[r].seen /\ run'[r].since = run[r].since
         /\ run'[r].post = run[r].post
         /\ run'[r].aborted # "yes" => r \notin Active(h) /\ run[r].aborted # "yes"
  BY <1>10, <1>11
<1>13. run' \in [Runs -> Activation]
  <2>1. \A r \in Runs : run'[r] \in Activation BY <1>5, <1>9, <1>10, <1>11 DEF TypeOK
  <2> QED BY <1>3, <2>1
<1>14. ASSUME NEW n \in DOMAIN msg
       PROVE  /\ msg'[n] \in Message /\ msg'[n].kind = msg[n].kind
              /\ msg'[n].since = msg[n].since
              /\ msg'[n].late = IF n \in sending THEN "yes" ELSE msg[n].late
  <2>1. msg[n] \in Message BY DEF TypeOK
  <2>2. CASE n \in sending
    <3>1. msg'[n] = [msg[n] EXCEPT !.late = "yes"] BY <1>3, <2>2
    <3> QED BY <2>1, <2>2, <3>1 DEF Message, YesNo
  <2>3. CASE n \notin sending BY <1>3, <2>1, <2>3
  <2> QED BY <2>2, <2>3
<1>15. /\ Len(msg) \in Nat /\ DOMAIN msg = 1 .. Len(msg) /\ DOMAIN msg' = DOMAIN msg
       /\ msg' \in Seq(Message) /\ Len(msg') = Len(msg)
  <2>1. Len(msg) \in Nat /\ DOMAIN msg = 1 .. Len(msg) OBVIOUS
  <2>2. msg' \in [1 .. Len(msg) -> Message] BY <1>3, <1>14
  <2>3. msg' \in Seq(Message) BY <2>2
  <2> QED BY <2>2
<1>16. \A s \in Runs : run'[s].seen <= run'[s].since /\ run'[s].since <= Len(msg')
  BY <1>5, <1>9, <1>12, <1>15 DEF TypeOK
<1>17. \A s \in Runs : run[s].since > 0 => run[s].since \in DOMAIN msg
  <2>1. \A s \in Runs : run[s].since \in Nat BY DEF TypeOK, Activation
  <2> QED BY <2>1 DEF TypeOK
<1>18. Prepared'
  <2>1. SUFFICES ASSUME NEW s \in Runs
        PROVE  /\ run'[s].home = Nobody <=> run'[s].pc \in {"free", "done"}
               /\ run'[s].pc \in Claimed \cup {"read"} =>
                    /\ run'[s].mode = "draft" => run'[s].delivery = "draft"
                    /\ run'[s].mode = "reply" =>
                          run'[s].since > 0 /\ msg'[run'[s].since].kind \notin {"agent", "fallback"}
               /\ run'[s].pc \in Sending =>
                    /\ run'[s].post \in DOMAIN msg'
                    /\ run'[s].aborted = "yes" => msg'[run'[s].post].late = "yes"
    BY DEF Prepared, Aborted
  <2>2. CASE s = new BY <1>5, <1>9, <2>2 DEF Claimed, Sending
  <2>3. CASE s # new
    <3>1. run'[s].home = Nobody <=> run'[s].pc \in {"free", "done"}
      BY <1>12, <2>3 DEF Prepared
    <3>2. run'[s].pc \in Claimed \cup {"read"} =>
            /\ run'[s].mode = "draft" => run'[s].delivery = "draft"
            /\ run'[s].mode = "reply" =>
                  run'[s].since > 0 /\ msg'[run'[s].since].kind \notin {"agent", "fallback"}
      BY <1>12, <1>14, <1>17, <2>3 DEF Prepared
    <3>3. ASSUME run[s].pc \in Sending
          PROVE  /\ run[s].post \in DOMAIN msg
                 /\ run'[s].aborted = "yes" => msg'[run[s].post].late = "yes"
      <4>1. run[s].post \in DOMAIN msg /\ (run[s].aborted = "yes" => msg[run[s].post].late = "yes")
        BY <3>3 DEF Prepared, Aborted
      <4>2. CASE s \in Active(h) BY <1>8, <1>14, <3>3, <4>1, <4>2
      <4>3. CASE s \notin Active(h) BY <1>11, <1>14, <2>3, <4>1, <4>3
      <4> QED BY <4>2, <4>3
    <3> QED BY <1>12, <1>15, <2>3, <3>1, <3>2, <3>3
  <2> QED BY <2>2, <2>3
<1>19. OneCurrent'
  <2>1. SUFFICES ASSUME NEW g \in Replicas, NEW r \in Active(g)', NEW s \in Active(g)', r # s
                 PROVE  run'[r].aborted = "yes" \/ run'[s].aborted = "yes"
    BY DEF OneCurrent, Aborted
  <2>2. r \in Runs /\ s \in Runs /\ run'[r].home = g /\ run'[s].home = g
        /\ run'[r].pc \notin {"free", "done"} /\ run'[s].pc \notin {"free", "done"}
    BY DEF Active
  <2>3. CASE g = h
    <3>1. \A x \in Runs : x # new /\ run'[x].home = h /\ run'[x].pc \notin {"free", "done"} =>
             run'[x].aborted = "yes"
      BY <1>12 DEF Active
    <3> QED BY <2>1, <2>2, <2>3, <3>1
  <2>4. CASE g # h
    <3>1. r # new /\ s # new BY <1>5, <1>9, <2>2, <2>4
    <3>2. r \in Active(g) /\ s \in Active(g) BY <1>12, <3>1 DEF Active
    <3>3. run'[r] = run[r] /\ run'[s] = run[s] BY <1>11, <2>4, <3>1, <3>2 DEF Active
    <3> QED BY <2>1, <3>2, <3>3 DEF OneCurrent, Aborted
  <2> QED BY <2>3, <2>4
<1>20. ClaimKept' BY <1>4, <1>5, <1>9, <1>12 DEF ClaimKept, Claimed
<1>21. UpToDate'
  <2>1. FromCustomer' = FromCustomer BY <1>4, <1>14 DEF FromCustomer, TypeOK
  <2>2. SUFFICES ASSUME NEW r \in Runs, run'[r].pc \in Claimed \cup {"read"},
                        run'[r].aborted # "yes", NEW n \in heard'[run'[r].home]
                 PROVE  n <= run'[r].seen
    BY <2>1 DEF UpToDate, Aborted
  <2>3. r # new BY <1>5, <1>9, <2>2 DEF Claimed
  <2>4. /\ run'[r].home = run[r].home /\ run'[r].seen = run[r].seen /\ run'[r].pc = run[r].pc
        /\ run[r].aborted # "yes" /\ r \notin Active(h)
    BY <1>12, <2>2, <2>3
  <2>5. run[r].home \in Replicas /\ run[r].home # h
    BY <2>2, <2>4 DEF Prepared, TypeOK, Activation, Active, Claimed
  <2> QED BY <2>2, <2>4, <2>5 DEF UpToDate, Aborted
<1>22. ReadBefore'
  <2>1. Underway \subseteq DOMAIN msg BY DEF Underway, Prepared, TypeOK
  <2>2. Underway' \subseteq Underway
    <3>1. \A r \in Runs : run'[r].pc \in Sending =>
             run[r].pc \in Sending /\ run'[r].post = run[r].post
      BY <1>5, <1>9, <1>12 DEF Sending
    <3> QED BY <1>4, <3>1 DEF Underway
  <2> QED BY <1>4, <1>14, <2>1, <2>2 DEF ReadBefore
<1>23. ClaimBacked' BY <1>4, <1>6, <1>12 DEF ClaimBacked
<1>24. visible' \subseteq DOMAIN msg' /\ heard' \in [Replicas -> SUBSET DOMAIN msg']
  BY <1>4, <1>15 DEF TypeOK, FromCustomer
<1> QED BY <1>13, <1>15, <1>16, <1>18, <1>19, <1>20, <1>21, <1>22, <1>23, <1>24

\* handle(), the sweeper's handle(), greet() and requestDraft().
LEMMA SpawnInv ==
    ASSUME ReplyInv, NEW h \in Replicas,
           \/ \E n \in DOMAIN msg : Handle(h, n)
           \/ \E how \in {"greet", "draft"} : Requested(h, how)
           \/ SweepHandles(h)
    PROVE  ReplyInv'
<1> USE HoldersAssumption, BoundsAssumption DEF ReplyInv
<1>1. PICK how \in {"reply", "greet", "draft"} : Spawn(h, how)
  BY DEF Handle, Requested, SweepHandles
<1>2. /\ heard' \in [Replicas -> SUBSET FromCustomer]
      /\ \A g \in Replicas : g # h => heard'[g] = heard[g]
  <2>1. heard \in [Replicas -> SUBSET FromCustomer] BY DEF TypeOK, UpToDate
  <2>2. heard' = heard \/ \E n \in FromCustomer : heard' = [heard EXCEPT ![h] = @ \cup {n}]
    BY DEF Handle, Requested, SweepHandles
  <2> QED BY <2>1, <2>2
<1>3. /\ Prepared' /\ OneCurrent' /\ ClaimKept' /\ UpToDate' /\ ReadBefore' /\ ClaimBacked'
      /\ msg' \in Seq(Message) /\ visible' \subseteq DOMAIN msg'
      /\ heard' \in [Replicas -> SUBSET DOMAIN msg']
      /\ run' \in [Runs -> Activation]
      /\ \A s \in Runs : run'[s].seen <= run'[s].since /\ run'[s].since <= Len(msg')
  BY <1>1, <1>2, Spawns
<1>4. swept' \subseteq Replicas /\ events' \in 0 .. MaxEvents
  BY DEF Handle, Requested, SweepHandles, Happens, TypeOK
<1>5. UNCHANGED <<holder, lease, human, status, agentMode, attention, claimsHeld, lost>>
  BY <1>1 DEF Spawn, conversation
<1>6. TypeOK' BY <1>3, <1>4, <1>5 DEF TypeOK
<1> QED BY <1>3, <1>6

-----------------------------------------------------------------------------
(* The theorems.                                                           *)

\* A step of the handlers, the staff or the customer keeps the invariant.
LEMMA NextInv == ReplyInv /\ [Next]_vars => ReplyInv'
<1> SUFFICES ASSUME ReplyInv, [Next]_vars PROVE ReplyInv' OBVIOUS
<1>1. CASE UNCHANGED vars
  BY <1>1 DEF vars, ReplyInv, TypeOK, Prepared, OneCurrent, Active, Aborted, ClaimKept,
     UpToDate, FromCustomer, ReadBefore, Underway, ClaimBacked
<1>2. CASE CustomerWrites \/ StaffWrites \/ StaffNotes BY <1>2, WritesInv
<1>3. CASE StaffLeaves \/ Reopens \/ ModeChanges \/ (\E h \in Replicas : Sweep(h))
  BY <1>3, AsideInv
<1>4. CASE StaffCloses \/ LeaseExpires BY <1>4, StaffClosesInv, LeaseExpiresInv
<1>5. ASSUME NEW h \in Replicas,
             \/ \E n \in DOMAIN msg : Handle(h, n)
             \/ \E how \in {"greet", "draft"} : Requested(h, how)
             \/ SweepHandles(h)
      PROVE  ReplyInv'
  BY <1>5, SpawnInv
<1>6. ASSUME NEW h \in Replicas, Crash(h) PROVE ReplyInv' BY <1>6, CrashInv
<1>7. ASSUME NEW r \in Runs,
             \/ Read(r) \/ Skip(r) \/ Acquire(r) \/ CallFails(r)
             \/ Denied(r) \/ Unclaim(r) \/ UnclaimFails(r)
      PROVE  ReplyInv'
  BY <1>7, ReadInv, SkipInv, AcquireInv, CallFailsInv, DeniedInv, UnclaimInv,
     UnclaimFailsInv
<1>8. ASSUME NEW r \in Runs,
             \/ \E next \in {"working", "fallback"} : Begin(r, next)
             \/ \E next \in {"audited", "fallback"} : Generate(r, next)
             \/ AuditSpam(r) \/ Withhold(r) \/ Park(r)
      PROVE  ReplyInv'
  BY <1>8, BeginInv, GenerateInv, AuditSpamInv, WithholdInv, ParkInv
<1>9. ASSUME NEW r \in Runs,
             \/ Post(r) \/ AuditCloses(r)
             \/ \E next \in {"settling", "done"} : Posted(r, next)
             \/ \E committed \in YesNo : PostFails(r, committed)
      PROVE  ReplyInv'
  BY <1>9, PostInv, AuditClosesInv, PostedInv, PostFailsInv
<1>10. ASSUME NEW r \in Runs,
              FallBackSilent(r) \/ FallBackNote(r) \/ FallBackPublic(r) \/ FellBack(r)
       PROVE  ReplyInv'
  BY <1>10, FallBackSilentInv, FallBackNoteInv, FallBackPublicInv, FellBackInv
<1> QED BY <1>1, <1>2, <1>3, <1>4, <1>5, <1>6, <1>7, <1>8, <1>9, <1>10 DEF Next

\* The inductive invariant holds in every reachable state: of the handlers' runs,
\* the claim, the abort signals and the messages of a conversation.
THEOREM ReplyInvariant == Spec => []ReplyInv
<1>1. Init => ReplyInv BY InitInv
<1>2. ReplyInv /\ [Next]_vars => ReplyInv' BY NextInv
<1> QED BY <1>1, <1>2, PTL DEF Spec

\* The claim, the abort signal and the race check of sendMessage() together: a
\* message of the customer is answered once, but for the exceptions of OneReply.
THEOREM RepliesOnce == Spec => []OneReply
<1>1. ReplyInv => OneReply
  BY DEF ReplyInv, ReadBefore, OneReply, Twice, Replies, Underway
<1> QED BY <1>1, ReplyInvariant, PTL

\* A reply that is being sent answers the newest message its replica has heard of,
\* unless its run was superseded meanwhile: handle() aborts before it debounces.
THEOREM AnswersNewest == Spec => []AnswersLatest
<1>1. ReplyInv => AnswersLatest
  BY DEF ReplyInv, Prepared, UpToDate, AnswersLatest, Claimed, Sending
<1> QED BY <1>1, ReplyInvariant, PTL

\* A claim in force has someone to release it, unless the call that took it or was
\* to release it has failed: tryAcquireConversation(), the claimsHeld set and the
\* finally block of run().
THEOREM BacksClaim == Spec => []ClaimBacked
<1>1. ReplyInv => ClaimBacked BY DEF ReplyInv
<1> QED BY <1>1, ReplyInvariant, PTL
=============================================================================
