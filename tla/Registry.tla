------------------------------ MODULE Registry ------------------------------
(***************************************************************************)
(* What a device registry promises (spec 4.7), whichever side hosts it:   *)
(* a table from the registered device ids to their current VM, changed    *)
(* one whole operation at a time under the registry lock.                 *)
(*                                                                         *)
(*  - device-connected inserts an absent device with the given VM and     *)
(*    ignores a present one;                                               *)
(*  - device-removed deletes a present device;                             *)
(*  - a passthrough moves a present device to another of its permitted    *)
(*    VMs, and a request for the current VM changes nothing;              *)
(*  - reset clears the table.                                              *)
(*                                                                         *)
(* get-devices only reads the table.  The detailed modules are shown to   *)
(* implement this one through a refinement mapping.                       *)
(***************************************************************************)
CONSTANTS
    Devices,    \* device ids
    VMs,        \* VM names
    Permitted,  \* Permitted[d]: the VMs device d may be passed through to
    None        \* no VM

VARIABLE table  \* DOMAIN table: the registered devices; table[d]: current VM

VMOrNone == VMs \cup {None}

\* The table with no device.
EmptyTable == [d \in {} |-> None]

Init == table = EmptyTable

\* device-connected for a device the table does not hold.
Insert(d, v) ==
    /\ d \notin DOMAIN table
    /\ table' = [x \in DOMAIN table \cup {d} |->
                    IF x = d THEN v ELSE table[x]]

\* device-removed for a device the table holds.
Delete(d) ==
    /\ d \in DOMAIN table
    /\ table' = [x \in DOMAIN table \ {d} |-> table[x]]

\* An accepted passthrough: a registered device moves to a permitted VM
\* other than its current one.
Switch(d, v) ==
    /\ d \in DOMAIN table
    /\ v \in Permitted[d] /\ v # table[d]
    /\ table' = [table EXCEPT ![d] = v]

Clear ==
    /\ table' = EmptyTable

Next ==
    \/ \E d \in Devices, v \in VMOrNone : Insert(d, v)
    \/ \E d \in Devices : Delete(d)
    \/ \E d \in Devices, v \in VMs : Switch(d, v)
    \/ Clear

Spec == Init /\ [][Next]_table

=============================================================================
