-------------------------- MODULE MC_HostService --------------------------
(***************************************************************************)
(* Model-checking instance: two devices, so that the registry can change  *)
(* size or swap keys under a get_devices iteration; d1 permitted on both  *)
(* VMs, so that a passthrough can move it back and forth, and d2 on v1    *)
(* only, so that a request for v2 is denied.                              *)
(***************************************************************************)
EXTENDS HostService, TLC

CONSTANTS d1, d2, v1, v2

MCPermitted == (d1 :> {v1, v2}) @@ (d2 :> {v1})

=============================================================================
