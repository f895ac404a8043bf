----------------------------- MODULE MCWebhooks -----------------------------
(* Webhook delivery, as an instance for TLC. *)
EXTENDS Webhooks

ThreeSlots == <<0, 1, 2>>

=============================================================================
