---------------------------- MODULE HostService ----------------------------
(***************************************************************************)
(* HostService (upm/host/service.py): the host-side device registry that  *)
(* talks to the GUI VM through a reconnecting VsockClient.  Two threads   *)
(* share its device_registry:                                              *)
(*                                                                         *)
(*  - the owner thread, which calls notify_device_connected,              *)
(*    notify_device_disconnected and reset: each updates the registry     *)
(*    under self.lock and then sends through VsockClient.send;            *)
(*  - the VsockClient receive thread, which runs handle_request on every  *)
(*    message of the GUI VM: get_devices builds dpm.ConnectedDevices from *)
(*    the live registry without the lock; passthrough_request tests the   *)
(*    registry without the lock, runs the passthrough executor, and then  *)
(*    notify_device_passthrough, which updates under the lock and acks.   *)
(*                                                                         *)
(* Only the guest-to-host byte stream g2h is kept: what the host sends    *)
(* is read by no handler of this module, but a failed send closes the     *)
(* connection and loses the requests in flight.                           *)
(***************************************************************************)
EXTENDS Naturals, Sequences, FiniteSets

CONSTANTS
    Devices,    \* device ids
    VMs,        \* VM names
    Permitted,  \* Permitted[d]: the permitted_vms the owner passes for d
    None,       \* Python's None; the "" current_vm is None too
    MaxChan     \* bound on the requests in flight from the GUI VM

ASSUME HostServiceAssumption ==
    /\ IsFiniteSet(Devices)
    /\ Permitted \in [Devices -> SUBSET VMs]
    /\ None \notin VMs \cup Devices
    /\ MaxChan \in Nat

VARIABLES
    reg,        \* keys of HostService.device_registry
    cur,        \* cur[d]: its "current-vm"
    opc,        \* owner thread: "idle", or the send after a registry update
    rpc,        \* receive thread: where it is inside handle_request, "dead"
    rreq,       \* the passthrough_request the receive thread handles
    snapKeys,   \* registry keys when ConnectedDevices started iterating
    snapLeft,   \* items that iteration has still to visit
    g2h         \* messages in flight from the GUI VM on the connection

ownerVars == <<opc>>
recvVars  == <<rpc, rreq, snapKeys, snapLeft>>
vars == <<reg, cur, ownerVars, recvVars, g2h>>

VMOrNone == VMs \cup {None}

GetDevicesMsg == [type : {"get_devices"}]
RequestMsg == [type : {"passthrough_request"}, dev : Devices, vm : VMs]

RecvPc == {"recv", "snap", "reply", "exec", "notify", "ack", "dead"}

(***************************************************************************)
(* VsockClient.send: up to five tries of json_transport.send on the       *)
(* connection server() returns; a try that raises closes the connection   *)
(* (close_connection) and the next try connects again.  The message goes  *)
(* out on the current connection, or the connection is torn down first   *)
(* and the requests in flight on it are lost, whether a later try then    *)
(* succeeds or all five fail and send returns False.                      *)
(***************************************************************************)
Send ==
    \/ UNCHANGED g2h
    \/ g2h' = << >>

-----------------------------------------------------------------------------
(***************************************************************************)
(* The owner thread.                                                       *)
(***************************************************************************)

\* notify_device_connected up to its send: a device not in the registry is
\* inserted with the given current_vm; a present one returns True at once
\* (a step that changes nothing).
NotifyDeviceConnected(d, v) ==
    /\ opc = "idle"
    /\ d \notin reg
    /\ reg' = reg \cup {d}
    /\ cur' = [cur EXCEPT ![d] = v]
    /\ opc' = "send_connected"
    /\ UNCHANGED <<recvVars, g2h>>

\* notify_device_disconnected up to its send: a device not in the registry
\* returns False; a present one is deleted.
NotifyDeviceDisconnected(d) ==
    /\ opc = "idle"
    /\ d \in reg
    /\ reg' = reg \ {d}
    /\ cur' = [cur EXCEPT ![d] = None]
    /\ opc' = "send_removed"
    /\ UNCHANGED <<recvVars, g2h>>

\* reset: clears the registry under the lock.
ResetRegistry ==
    /\ opc = "idle"
    /\ reg' = {}
    /\ cur' = [d \in Devices |-> None]
    /\ opc' = "send_reset"
    /\ UNCHANGED <<recvVars, g2h>>

\* gui_vm.send(device_connected_msg.to_json()), after the lock.
SendDeviceConnected ==
    /\ opc = "send_connected"
    /\ Send
    /\ opc' = "idle"
    /\ UNCHANGED <<reg, cur, recvVars>>

\* gui_vm.send(device_removed_msg.to_json()), after the lock.
SendDeviceRemoved ==
    /\ opc = "send_removed"
    /\ Send
    /\ opc' = "idle"
    /\ UNCHANGED <<reg, cur, recvVars>>

\* gui_vm.send(reset_msg) passes the dpm.Reset object itself: json.dumps
\* raises TypeError on each of the five tries, each followed by
\* close_connection, so the connection is torn down and send returns False.
SendReset ==
    /\ opc = "send_reset"
    /\ g2h' = << >>
    /\ opc' = "idle"
    /\ UNCHANGED <<reg, cur, recvVars>>

-----------------------------------------------------------------------------
(***************************************************************************)
(* The VsockClient receive thread running handle_request.                 *)
(***************************************************************************)

\* One message of json_transport.receive handed to handle_request.
\* get_devices starts dpm.ConnectedDevices(self.device_registry), which
\* iterates the live dict without the lock; a passthrough_request whose
\* device is not in the registry (read without the lock) is only logged.
HandleRequest ==
    LET m == Head(g2h) IN
    /\ rpc = "recv" /\ g2h # << >>
    /\ g2h' = Tail(g2h)
    /\ \/ /\ m.type = "get_devices"
          /\ rpc' = "snap"
          /\ snapKeys' = reg
          /\ snapLeft' = Cardinality(reg)
          /\ UNCHANGED rreq
       \/ /\ m.type = "passthrough_request" /\ m.dev \in reg
          /\ rpc' = "exec"
          /\ rreq' = m
          /\ UNCHANGED <<snapKeys, snapLeft>>
       \/ /\ m.type = "passthrough_request" /\ m.dev \notin reg
          /\ UNCHANGED recvVars
    /\ UNCHANGED <<reg, cur, ownerVars>>

\* One next() of the for loop over devices.items() in ConnectedDevices:
\* CPython raises RuntimeError when the dict's size differs from the size
\* when iteration began, and may raise it when keys were replaced at the
\* same size (depending on where they sit in the table).  RuntimeError is
\* no OSError: it leaves VsockClient.run and ends the receive thread.
ConnectedDevicesStep ==
    /\ rpc = "snap"
    /\ \/ /\ Cardinality(reg) # Cardinality(snapKeys)
          /\ rpc' = "dead"
          /\ UNCHANGED snapLeft
       \/ /\ Cardinality(reg) = Cardinality(snapKeys) /\ reg # snapKeys
          /\ rpc' = "dead"
          /\ UNCHANGED snapLeft
       \/ /\ Cardinality(reg) = Cardinality(snapKeys)
          /\ IF snapLeft = 0
               THEN rpc' = "reply" /\ UNCHANGED snapLeft
               ELSE snapLeft' = snapLeft - 1 /\ UNCHANGED rpc
    /\ UNCHANGED <<reg, cur, ownerVars, rreq, snapKeys, g2h>>

\* gui_vm.send(connected_devices.to_json()); a failure is only logged.
ReplyDevices ==
    /\ rpc = "reply"
    /\ Send
    /\ rpc' = "recv"
    /\ snapKeys' = {}
    /\ UNCHANGED <<reg, cur, ownerVars, rreq, snapLeft>>

\* passthrough_handler(metadata, device_id, target_vm): the executor
\* succeeds, or fails and the failure is only logged.
Execute ==
    /\ rpc = "exec"
    /\ \/ rpc' = "notify" /\ UNCHANGED rreq
       \/ rpc' = "recv" /\ rreq' = None
    /\ UNCHANGED <<reg, cur, ownerVars, snapKeys, snapLeft, g2h>>

\* Mutant: notify_device_passthrough without its permitted-vms test.
NotifyPassthroughUnchecked ==
    LET d == rreq.dev
        v == rreq.vm
    IN
    /\ rpc = "notify"
    /\ IF d \in reg /\ v # cur[d]
         THEN /\ cur' = [cur EXCEPT ![d] = v]
              /\ rpc' = "ack"
              /\ UNCHANGED rreq
         ELSE /\ rpc' = "recv" /\ rreq' = None
              /\ UNCHANGED cur
    /\ UNCHANGED <<reg, ownerVars, snapKeys, snapLeft, g2h>>

\* notify_device_passthrough up to its send: under the lock, an unknown
\* device or a VM outside permitted-vms returns False, the current VM
\* returns True, and otherwise current-vm becomes the target.
NotifyDevicePassthrough ==
    LET d == rreq.dev
        v == rreq.vm
    IN
    /\ rpc = "notify"
    /\ IF d \in reg /\ v \in Permitted[d] /\ v # cur[d]
         THEN /\ cur' = [cur EXCEPT ![d] = v]
              /\ rpc' = "ack"
              /\ UNCHANGED rreq
         ELSE /\ rpc' = "recv" /\ rreq' = None
              /\ UNCHANGED cur
    /\ UNCHANGED <<reg, ownerVars, snapKeys, snapLeft, g2h>>

\* passthrough_ack_msg.to_json() after the lock: PassthroughAck.to_json
\* reads self.reason, which __init__ never sets, and raises AttributeError
\* before gui_vm.send is reached.  AttributeError is no OSError: it leaves
\* VsockClient.run and ends the receive thread, with the registry already
\* updated and no ack sent.
SendAck ==
    /\ rpc = "ack"
    /\ rpc' = "dead"
    /\ UNCHANGED <<reg, cur, ownerVars, rreq, snapKeys, snapLeft, g2h>>

-----------------------------------------------------------------------------
(***************************************************************************)
(* The GUI VM at the other end of the connection.                         *)
(***************************************************************************)

\* It asks for the device list.
GuestGetDevices ==
    /\ Len(g2h) < MaxChan
    /\ g2h' = Append(g2h, [type |-> "get_devices"])
    /\ UNCHANGED <<reg, cur, ownerVars, recvVars>>

\* It asks to pass device d through to VM v.
GuestRequest(d, v) ==
    /\ Len(g2h) < MaxChan
    /\ g2h' = Append(g2h, [type |-> "passthrough_request", dev |-> d, vm |-> v])
    /\ UNCHANGED <<reg, cur, ownerVars, recvVars>>

\* The connection breaks; the receive loop's OSError closes it and
\* server() connects again.  The requests in flight are lost.
LinkDown ==
    /\ g2h # << >>
    /\ g2h' = << >>
    /\ UNCHANGED <<reg, cur, ownerVars, recvVars>>

-----------------------------------------------------------------------------
Init ==
    /\ reg = {} /\ cur = [d \in Devices |-> None]
    /\ opc = "idle"
    /\ rpc = "recv" /\ rreq = None
    /\ snapKeys = {} /\ snapLeft = 0
    /\ g2h = << >>

Next ==
    \/ \E d \in Devices, v \in VMOrNone : NotifyDeviceConnected(d, v)
    \/ \E d \in Devices : NotifyDeviceDisconnected(d)
    \/ ResetRegistry \/ SendDeviceConnected \/ SendDeviceRemoved \/ SendReset
    \/ HandleRequest \/ ConnectedDevicesStep \/ ReplyDevices
    \/ Execute \/ NotifyDevicePassthrough \/ SendAck
    \/ GuestGetDevices \/ LinkDown
    \/ \E d \in Devices, v \in VMs : GuestRequest(d, v)

Spec == Init /\ [][Next]_vars

-----------------------------------------------------------------------------
TypeOK ==
    /\ reg \subseteq Devices /\ cur \in [Devices -> VMOrNone]
    /\ opc \in {"idle", "send_connected", "send_removed", "send_reset"}
    /\ rpc \in RecvPc
    /\ rreq \in RequestMsg \cup {None}
    /\ snapKeys \subseteq Devices /\ snapLeft \in Nat
    /\ g2h \in Seq(GetDevicesMsg \cup RequestMsg)

(***************************************************************************)
(* The registry seen as the abstract registry of spec 4.7.                *)
(***************************************************************************)
RegistryTable == [d \in reg |-> cur[d]]

Reg == INSTANCE Registry WITH table <- RegistryTable

\* Every change the owner's notify calls and reset and the receive thread's
\* notify_device_passthrough make to device_registry is one operation of
\* the spec 4.7 registry, however the two threads interleave.
RegistryRefinement == Reg!Spec

=============================================================================
