-------------------------- MODULE MCSystemAlerts --------------------------
(* One key raised by two transactions, two rows of it, one recipient, the  *)
(* worker on two replicas.                                                 *)
EXTENDS SystemAlerts

=============================================================================
