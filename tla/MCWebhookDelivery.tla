--------------------------- MODULE MCWebhookDelivery ---------------------------
(* A small instance of WebhookDelivery. *)
EXTENDS WebhookDelivery

CONSTANTS w1, w2

TwoWorkers == {w1, w2}

=============================================================================
