--------------------------- MODULE MCProvisioning ---------------------------
(* Provisioning with small bounds. *)
EXTENDS Provisioning
=============================================================================
