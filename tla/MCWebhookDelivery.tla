--------------------------- MODULE MCWebhookDelivery ---------------------------
(* Small instances of the deliveries for TLC.                               *)
EXTENDS WebhookDelivery, TLC

\* For the runs without liveness.
Symmetry == Permutations(Workers)
=============================================================================
