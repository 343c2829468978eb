----------------------------- MODULE Ownership -----------------------------
(***************************************************************************)
(* What a set of locks promises: rights that at most one holder has at a   *)
(* time, that are taken only when nobody has them, and that their holder   *)
(* gives up or loses before another takes them.  A holder that fails loses *)
(* several rights at once.                                                 *)
(***************************************************************************)
CONSTANTS Holders, Rights

VARIABLE owners  \* Rights -> the holders who have the right

Init == owners = [r \in Rights |-> {}]

Take(r) == owners[r] = {} /\ \E h \in Holders : owners'[r] = {h}

Leave(r) == (\E h \in Holders : owners[r] = {h}) /\ owners'[r] = {}

Next ==
    /\ owners' \in [Rights -> SUBSET Holders]
    /\ \A r \in Rights : owners'[r] = owners[r] \/ Take(r) \/ Leave(r)

Spec == Init /\ [][Next]_owners
=============================================================================
