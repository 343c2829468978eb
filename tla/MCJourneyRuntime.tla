-------------------------- MODULE MCJourneyRuntime --------------------------
(* A wait for a signal.  The signal leads to a message whose reply leads to *)
(* another; the wait's timeout leads to that other, which a reply holds.   *)
(* A wait for the clock follows both, then the first wait: once too often. *)
EXTENDS JourneyRuntime

CONSTANTS m1, w1, m2, t1

GraphKind == [n \in Nodes |-> IF n = w1 THEN "event" ELSE IF n = t1 THEN "timer" ELSE "message"]
GraphEdge == [n \in Nodes |->  IF n = w1 THEN m2 ELSE IF n = t1 THEN w1 ELSE t1]
GraphOnTimeout == [n \in Nodes |->  IF n = w1 THEN m1 ELSE None]
GraphOnReply == [n \in Nodes |->  IF n = m2 THEN m1 ELSE None]
InboxTypes == [e \in Inbox |-> IF e = 1 THEN {"reply"} ELSE {"signal", "closed"}]

=============================================================================
