-------------------------- MODULE HostServiceProofs --------------------------
(***************************************************************************)
(* Proofs about HostService for every finite set of devices, every set of *)
(* VMs and every permitted-VM configuration: the module is well typed,   *)
(* and its device_registry implements the abstract registry of spec 4.7.  *)
(***************************************************************************)
EXTENDS HostService, FiniteSetTheorems, TLAPS

USE HostServiceAssumption

(***************************************************************************)
(* TypeOK is not inductive alone: notify_device_passthrough reads the     *)
(* request the receive thread holds, so from the executor to the ack the  *)
(* thread must hold a well-formed request.                                *)
(***************************************************************************)
HoldsRequest == rpc \in {"exec", "notify", "ack"} => rreq \in RequestMsg

TypeInv == TypeOK /\ HoldsRequest

\* A send keeps the guest-to-host stream well typed, whether it goes out on
\* the current connection or tears it down.
LEMMA SendType ==
    ASSUME g2h \in Seq(GetDevicesMsg \cup RequestMsg), Send
    PROVE  g2h' \in Seq(GetDevicesMsg \cup RequestMsg)
<1>1. CASE UNCHANGED g2h
    BY <1>1
<1>2. CASE g2h' = << >>
    BY <1>2
<1>3. QED
    BY <1>1, <1>2 DEF Send

LEMMA InitTypeInv == Init => TypeInv
BY DEF Init, TypeInv, TypeOK, HoldsRequest, VMOrNone, RecvPc

LEMMA NextTypeInv == TypeInv /\ [Next]_vars => TypeInv'
<1> SUFFICES ASSUME TypeInv, [Next]_vars PROVE TypeInv'
    OBVIOUS
<1> USE DEF TypeInv, TypeOK, HoldsRequest, VMOrNone, RecvPc,
            vars, ownerVars, recvVars
<1>1. ASSUME NEW d \in Devices, NEW v \in VMOrNone,
             NotifyDeviceConnected(d, v)
      PROVE TypeInv'
    BY <1>1 DEF NotifyDeviceConnected
<1>2. ASSUME NEW d \in Devices, NotifyDeviceDisconnected(d) PROVE TypeInv'
    BY <1>2 DEF NotifyDeviceDisconnected
<1>3. CASE ResetRegistry
    BY <1>3 DEF ResetRegistry
<1>4. CASE SendDeviceConnected \/ SendDeviceRemoved
    BY <1>4, SendType DEF SendDeviceConnected, SendDeviceRemoved
<1>5. CASE SendReset
    BY <1>5 DEF SendReset
<1>6. CASE HandleRequest
    <2>1. g2h # << >> /\ Head(g2h) \in GetDevicesMsg \cup RequestMsg
                      /\ Tail(g2h) \in Seq(GetDevicesMsg \cup RequestMsg)
        BY <1>6 DEF HandleRequest
    <2>2. Cardinality(reg) \in Nat
        BY FS_Subset, FS_CardinalityType
    <2>3. QED
        BY <1>6, <2>1, <2>2 DEF HandleRequest, GetDevicesMsg, RequestMsg
<1>7. CASE ConnectedDevicesStep
    BY <1>7 DEF ConnectedDevicesStep
<1>8. CASE ReplyDevices
    BY <1>8, SendType DEF ReplyDevices
<1>9. CASE Execute
    BY <1>9 DEF Execute
<1>10. CASE NotifyDevicePassthrough
    BY <1>10 DEF NotifyDevicePassthrough, RequestMsg
<1>11. CASE SendAck
    BY <1>11 DEF SendAck
<1>12. CASE GuestGetDevices
    BY <1>12 DEF GuestGetDevices, GetDevicesMsg
<1>13. CASE LinkDown
    BY <1>13 DEF LinkDown
<1>14. ASSUME NEW d \in Devices, NEW v \in VMs, GuestRequest(d, v)
       PROVE TypeInv'
    BY <1>14 DEF GuestRequest, RequestMsg
<1>15. CASE UNCHANGED vars
    BY <1>15
<1>16. QED
    BY <1>1, <1>2, <1>3, <1>4, <1>5, <1>6, <1>7, <1>8, <1>9, <1>10,
       <1>11, <1>12, <1>13, <1>14, <1>15 DEF Next

\* HostService is well typed in every reachable state.
THEOREM HostServiceTypeCorrect == Spec => []TypeOK
<1>1. Spec => []TypeInv
    BY InitTypeInv, NextTypeInv, PTL DEF Spec
<1>2. QED
    BY <1>1, PTL DEF TypeInv

(***************************************************************************)
(* The refinement: RegistryTable maps the initial registry to the empty   *)
(* table, each registry update of the owner or the receive thread to one  *)
(* operation of Registry, and every other step to a stutter.              *)
(***************************************************************************)
LEMMA InitRefines == Init => Reg!Init
BY DEF Init, Reg!Init, Reg!EmptyTable, RegistryTable

\* A step that leaves reg and cur alone leaves the table alone.
LEMMA TableStutter ==
    ASSUME UNCHANGED <<reg, cur>>
    PROVE  UNCHANGED RegistryTable
BY DEF RegistryTable

LEMMA NextRefines ==
    TypeInv /\ [Next]_vars => [Reg!Next]_RegistryTable
<1> SUFFICES ASSUME TypeInv, [Next]_vars PROVE [Reg!Next]_RegistryTable
    OBVIOUS
<1> USE DEF TypeInv, TypeOK, HoldsRequest, VMOrNone, Reg!VMOrNone
<1>1. ASSUME NEW d \in Devices, NEW v \in VMOrNone,
             NotifyDeviceConnected(d, v)
      PROVE Reg!Insert(d, v)
    BY <1>1 DEF NotifyDeviceConnected, Reg!Insert, RegistryTable
<1>2. ASSUME NEW d \in Devices, NotifyDeviceDisconnected(d)
      PROVE Reg!Delete(d)
    BY <1>2 DEF NotifyDeviceDisconnected, Reg!Delete, RegistryTable
<1>3. ASSUME ResetRegistry PROVE Reg!Clear
    BY <1>3 DEF ResetRegistry, Reg!Clear, Reg!EmptyTable, RegistryTable
<1>4. ASSUME NotifyDevicePassthrough
      PROVE [Reg!Next]_RegistryTable
    <2> DEFINE d == rreq.dev
               v == rreq.vm
    <2>1. d \in Devices /\ v \in VMs
        BY <1>4 DEF NotifyDevicePassthrough, RequestMsg
    <2>2. CASE d \in reg /\ v \in Permitted[d] /\ v # cur[d]
        <3>1. Reg!Switch(d, v)
            BY <1>4, <2>1, <2>2 DEF NotifyDevicePassthrough, Reg!Switch,
                                     RegistryTable
        <3>2. QED
            BY <2>1, <3>1 DEF Reg!Next
    <2>3. CASE ~(d \in reg /\ v \in Permitted[d] /\ v # cur[d])
        BY <1>4, <2>3, TableStutter DEF NotifyDevicePassthrough
    <2>4. QED
        BY <2>2, <2>3
<1>5. ASSUME UNCHANGED <<reg, cur>> PROVE [Reg!Next]_RegistryTable
    BY <1>5, TableStutter
<1>6. QED
    <2>1. CASE \E d \in Devices, v \in VMOrNone : NotifyDeviceConnected(d, v)
        BY <2>1, <1>1 DEF Reg!Next
    <2>2. CASE \E d \in Devices : NotifyDeviceDisconnected(d)
        BY <2>2, <1>2 DEF Reg!Next
    <2>3. CASE ResetRegistry
        BY <2>3, <1>3 DEF Reg!Next
    <2>4. CASE NotifyDevicePassthrough
        BY <2>4, <1>4
    <2>5. CASE \/ SendDeviceConnected \/ SendDeviceRemoved \/ SendReset \/ HandleRequest
               \/ ConnectedDevicesStep \/ ReplyDevices \/ Execute \/ SendAck
               \/ GuestGetDevices \/ LinkDown
               \/ \E d \in Devices, v \in VMs : GuestRequest(d, v)
               \/ UNCHANGED vars
        <3>1. UNCHANGED <<reg, cur>>
            BY <2>5 DEF SendDeviceConnected, SendDeviceRemoved, SendReset, HandleRequest,
                        ConnectedDevicesStep, ReplyDevices, Execute, SendAck,
                        GuestGetDevices, LinkDown, GuestRequest, vars
        <3>2. QED
            BY <3>1, <1>5
    <2>6. QED
        BY <2>1, <2>2, <2>3, <2>4, <2>5 DEF Next

\* HostService implements the spec 4.7 registry: its two threads, the
\* owner's notify calls and reset and the receive thread's
\* notify_device_passthrough, change device_registry only by whole
\* registry operations, for every configuration of devices and VMs.
THEOREM HostServiceRefinesRegistry == Spec => RegistryRefinement
<1>1. Spec => []TypeInv
    BY InitTypeInv, NextTypeInv, PTL DEF Spec
<1>2. QED
    BY <1>1, InitRefines, NextRefines, PTL
       DEF Spec, RegistryRefinement, Reg!Spec

=============================================================================
