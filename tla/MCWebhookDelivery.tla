------------------------- MODULE MCWebhookDelivery -------------------------
(* Small instances of WebhookDelivery for TLC.                              *)
EXTENDS WebhookDelivery, TLC

\* Dispatches of workers, and callback requests, are interchangeable.
Symmetry == Permutations(Launches) \cup Permutations(Requests)
=============================================================================
