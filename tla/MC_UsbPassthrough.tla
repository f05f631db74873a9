------------------------- MODULE MC_UsbPassthrough -------------------------
(***************************************************************************)
(* Model-checking instance: one device d1 managed through the registry    *)
(* and permitted on v1 only, one device d2 with no permitted VM (attached *)
(* directly), two VMs so that a request can name a VM outside the         *)
(* permitted set, and two connection ids so that a new connection's       *)
(* worker can overlap the worker of the broken one.                       *)
(***************************************************************************)
EXTENDS UsbPassthrough, TLC

CONSTANTS d1, d2, v1, v2

MCPermitted == (d1 :> {v1}) @@ (d2 :> {})

=============================================================================
