------------------------- MODULE MCWebhookDelivery -------------------------
(* Two replicas; two events for one webhook, which wants both.             *)
EXTENDS WebhookDelivery

CONSTANTS e1, e2, w1

BothWanted == {<<e1, w1>>, <<e2, w1>>}

=============================================================================
