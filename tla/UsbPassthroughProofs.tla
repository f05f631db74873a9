------------------------ MODULE UsbPassthroughProofs ------------------------
(***************************************************************************)
(* Proofs about the passthrough protocol of UsbPassthrough, for every set *)
(* of devices, VMs and connections and every permitted-VM configuration.  *)
(***************************************************************************)
EXTENDS UsbPassthrough, SequenceTheorems, TLAPS

USE ConstantsAssumption

(***************************************************************************)
(* TypeOK is not inductive by itself: a busy worker must hold a request   *)
(* (the ack it sends is built from it) and the monitor thread, between    *)
(* its lock and its send, must hold a device (the message names it).      *)
(***************************************************************************)
BusyWellFormed ==
    /\ \A c \in Conns : wpc[c] # "idle" => wreq[c] \in GuestMsg
    /\ upc \in {"send_connected", "send_removed"} => ud \in Devices

TypeInv == TypeOK /\ BusyWellFormed

\* Every message the code builds belongs to the message sets.
LEMMA MsgTypes ==
    /\ \A d \in Devices : ConnectedMsg(d) \in HostMsg
    /\ \A d \in Devices : RemovedMsg(d) \in HostMsg
    /\ \A d \in Devices, v \in VMs : AckMsg(d, v) \in HostMsg
    /\ \A d \in Devices, v \in VMs : RequestMsg(d, v) \in GuestMsg
BY DEF ConnectedMsg, RemovedMsg, AckMsg, RequestMsg, HostMsg, GuestMsg

\* A send through ctx keeps the host-to-guest stream well typed.
LEMMA SendOnCtxType ==
    ASSUME NEW m \in HostMsg, h2g \in Seq(HostMsg), SendOnCtx(m)
    PROVE  h2g' \in Seq(HostMsg)
BY AppendProperties DEF SendOnCtx

LEMMA InitTypeInv == Init => TypeInv
BY EmptySeq DEF Init, TypeInv, TypeOK, BusyWellFormed, VMOrNone, WorkerPc

LEMMA NextTypeInv == TypeInv /\ [Next]_vars => TypeInv'
<1> SUFFICES ASSUME TypeInv, [Next]_vars PROVE TypeInv'
    OBVIOUS
<1> USE DEF TypeInv, TypeOK, BusyWellFormed, VMOrNone, HostUp, WorkerPc
<1>1. ASSUME NEW d \in Devices, PlugDirect(d) PROVE TypeInv'
    BY <1>1 DEF PlugDirect, hostVars, workerVars, guestVars, chanVars
<1>2. ASSUME NEW d \in Devices, PlugManaged(d) PROVE TypeInv'
    BY <1>2 DEF PlugManaged, workerVars, guestVars, chanVars
<1>3. CASE SendConnected
    <2>1. CASE ctx = None
        BY <1>3, <2>1, EmptySeq DEF SendConnected, HostCrash, hostVars, workerVars
    <2>2. CASE ctx # None
        <3>1. h2g' \in Seq(HostMsg)
            BY <1>3, <2>2, MsgTypes, SendOnCtxType DEF SendConnected
        <3>2. QED
            BY <1>3, <2>2, <3>1 DEF SendConnected, hostVars, workerVars
    <2>3. QED
        BY <2>1, <2>2
<1>4. ASSUME NEW d \in Devices, Unplug(d) PROVE TypeInv'
    BY <1>4 DEF Unplug, workerVars, guestVars, chanVars
<1>5. CASE SendRemoved
    <2>1. CASE ctx = None
        BY <1>5, <2>1, EmptySeq DEF SendRemoved, HostCrash, hostVars, workerVars
    <2>2. CASE ctx # None
        <3>1. h2g' \in Seq(HostMsg)
            BY <1>5, <2>2, MsgTypes, SendOnCtxType DEF SendRemoved
        <3>2. QED
            BY <1>5, <2>2, <3>1 DEF SendRemoved, hostVars, workerVars
    <2>3. QED
        BY <2>1, <2>2
<1>6. CASE Reset
    BY <1>6 DEF Reset, udevVars, workerVars, guestVars, chanVars
<1>7. ASSUME NEW c \in Conns, GuestConnect(c) PROVE TypeInv'
    BY <1>7 DEF GuestConnect, udevVars, hostVars, chanVars
<1>8. ASSUME NEW c \in Conns, WorkerStart(c) PROVE TypeInv'
    BY <1>8 DEF WorkerStart, udevVars, guestVars, chanVars
<1>9. ASSUME NEW c \in Conns, WorkerEnd(c) PROVE TypeInv'
    BY <1>9 DEF WorkerEnd, udevVars, guestVars, chanVars
<1>10. ASSUME NEW c \in Conns, WorkerReceive(c) PROVE TypeInv'
    <2>1. g2h # << >> /\ g2h' = Tail(g2h)
        BY <1>10 DEF WorkerReceive
    <2>2. Head(g2h) \in GuestMsg /\ Tail(g2h) \in Seq(GuestMsg)
        BY <2>1, HeadTailProperties
    <2>3. QED
        BY <1>10, <2>1, <2>2 DEF WorkerReceive, udevVars, hostVars, guestVars
<1>11. ASSUME NEW c \in Conns, WorkerExecute(c) PROVE TypeInv'
    BY <1>11 DEF WorkerExecute, hostVars, guestVars, chanVars, GuestMsg
<1>12. ASSUME NEW c \in Conns, WorkerNotify(c) PROVE TypeInv'
    <2>1. wreq[c].dev \in Devices /\ wreq[c].vm \in VMs
        BY <1>12 DEF WorkerNotify, GuestMsg
    <2>2. CASE ctx # None /\ wreq[c].dev \in hreg
               /\ wreq[c].vm \in Permitted[wreq[c].dev]
               /\ wreq[c].vm # hcur[wreq[c].dev]
        <3>1. hcur' = [hcur EXCEPT ![wreq[c].dev] = wreq[c].vm]
              /\ wpc' = [wpc EXCEPT ![c] = "ack"] /\ wreq' = wreq
            BY <1>12, <2>2 DEF WorkerNotify
        <3>2. QED
            BY <1>12, <2>1, <3>1 DEF WorkerNotify, udevVars, guestVars, chanVars
    <2>3. CASE ~(ctx # None /\ wreq[c].dev \in hreg
                 /\ wreq[c].vm \in Permitted[wreq[c].dev]
                 /\ wreq[c].vm # hcur[wreq[c].dev])
        <3>1. hcur' = hcur /\ wpc' = [wpc EXCEPT ![c] = "idle"]
              /\ wreq' = [wreq EXCEPT ![c] = None]
            BY <1>12, <2>3 DEF WorkerNotify
        <3>2. QED
            BY <1>12, <3>1 DEF WorkerNotify, udevVars, guestVars, chanVars
    <2>4. QED
        BY <2>2, <2>3
<1>13. ASSUME NEW c \in Conns, WorkerSendAck(c) PROVE TypeInv'
    <2>1. wreq[c] \in GuestMsg
        BY <1>13 DEF WorkerSendAck
    <2>2. CASE ctx = None
        <3>1. /\ wst' = [wst EXCEPT ![c] = "free"]
              /\ wpc' = [wpc EXCEPT ![c] = "idle"]
              /\ wreq' = [wreq EXCEPT ![c] = None]
              /\ \/ gconn' = None /\ h2g' = << >> /\ g2h' = << >>
                 \/ UNCHANGED <<gconn, h2g, g2h>>
            BY <1>13, <2>2 DEF WorkerSendAck
        <3>2. UNCHANGED <<udevVars, hostVars, gdev, gcur, galive, gpc>>
            BY <1>13 DEF WorkerSendAck
        <3>3. CASE gconn' = None /\ h2g' = << >> /\ g2h' = << >>
            BY <1>13, <3>1, <3>2, <3>3, EmptySeq DEF udevVars, hostVars
        <3>4. CASE UNCHANGED <<gconn, h2g, g2h>>
            BY <1>13, <3>1, <3>2, <3>4 DEF udevVars, hostVars
        <3>5. QED
            BY <3>1, <3>3, <3>4
    <2>3. CASE ctx # None
        <3>1. AckMsg(wreq[c].dev, wreq[c].vm) \in HostMsg
            BY <2>1, MsgTypes DEF GuestMsg
        <3>2. h2g' \in Seq(HostMsg)
            BY <1>13, <2>3, <3>1, SendOnCtxType DEF WorkerSendAck
        <3>3. QED
            BY <1>13, <2>3, <3>2 DEF WorkerSendAck, udevVars, hostVars
    <2>4. QED
        BY <2>2, <2>3
<1>14. CASE GuestReceive
    <2>1. h2g # << >> /\ h2g' = Tail(h2g)
        BY <1>14 DEF GuestReceive
    <2>2. Head(h2g) \in HostMsg /\ Tail(h2g) \in Seq(HostMsg)
        BY <2>1, HeadTailProperties
    <2>3. Head(h2g).dev \in Devices /\ Head(h2g).vm \in VMOrNone
        BY <2>2 DEF HostMsg
    <2>4. QED
        BY <1>14, <2>1, <2>2, <2>3 DEF GuestReceive, udevVars, hostVars,
           workerVars
<1>15. CASE PopupClose
    BY <1>15 DEF PopupClose, udevVars, hostVars, workerVars, chanVars
<1>16. CASE LinkDown
    BY <1>16, EmptySeq DEF LinkDown, udevVars, hostVars, workerVars
<1>17. ASSUME NEW d \in Devices, NEW v \in VMs, GuestRequest(d, v)
       PROVE TypeInv'
    BY <1>17, MsgTypes, AppendProperties
       DEF GuestRequest, udevVars, hostVars, workerVars, guestVars
<1>18. CASE Halted
    BY <1>18 DEF Halted, vars, udevVars, hostVars, workerVars, guestVars,
       chanVars
<1>19. CASE UNCHANGED vars
    BY <1>19 DEF vars, udevVars, hostVars, workerVars, guestVars, chanVars
<1>20. QED
    BY <1>1, <1>2, <1>3, <1>4, <1>5, <1>6, <1>7, <1>8, <1>9, <1>10, <1>11,
       <1>12, <1>13, <1>14, <1>15, <1>16, <1>17, <1>18, <1>19 DEF Next

\* Type correctness of the whole protocol.
THEOREM TypeCorrect == Spec => []TypeOK
<1>1. Spec => []TypeInv
    BY InitTypeInv, NextTypeInv, PTL DEF Spec
<1>2. QED
    BY <1>1, PTL DEF TypeInv

-----------------------------------------------------------------------------
(***************************************************************************)
(* The refinement of the abstract registry: RegistryTable maps the empty   *)
(* initial registry to the empty table, the udev thread's insert, delete  *)
(* and reset and the workers' notify_device_passthrough to the operations *)
(* of Registry, and every other step to a stutter.                        *)
(***************************************************************************)
LEMMA InitRefines == Init => Reg!Init
BY DEF Init, Reg!Init, Reg!EmptyTable, RegistryTable

\* A step that leaves hreg and hcur alone leaves the table alone.
LEMMA TableStutter ==
    ASSUME UNCHANGED <<hreg, hcur>>
    PROVE  UNCHANGED RegistryTable
BY DEF RegistryTable

LEMMA NextRefines ==
    TypeInv /\ [Next]_vars => [Reg!Next]_RegistryTable
<1> SUFFICES ASSUME TypeInv, [Next]_vars PROVE [Reg!Next]_RegistryTable
    OBVIOUS
<1> USE DEF TypeInv, TypeOK, BusyWellFormed, VMOrNone, Reg!VMOrNone
<1>1. ASSUME NEW d \in Devices, PlugManaged(d)
      PROVE [Reg!Next]_RegistryTable
    <2>1. CASE ctx = None \/ d \in hreg
        BY <1>1, <2>1, TableStutter DEF PlugManaged
    <2>2. CASE ~(ctx = None \/ d \in hreg)
        <3>1. Reg!Insert(d, None)
            BY <1>1, <2>2 DEF PlugManaged, Reg!Insert, RegistryTable
        <3>2. QED
            BY <3>1 DEF Reg!Next
    <2>3. QED
        BY <2>1, <2>2
<1>2. ASSUME NEW d \in Devices, Unplug(d)
      PROVE [Reg!Next]_RegistryTable
    <2>1. \/ UNCHANGED <<hreg, hcur>>
          \/ /\ d \in hreg /\ hreg' = hreg \ {d}
             /\ hcur' = [hcur EXCEPT ![d] = None]
        BY <1>2 DEF Unplug
    <2>2. CASE UNCHANGED <<hreg, hcur>>
        BY <2>2, TableStutter
    <2>3. CASE /\ d \in hreg /\ hreg' = hreg \ {d}
               /\ hcur' = [hcur EXCEPT ![d] = None]
        <3>1. Reg!Delete(d)
            BY <2>3 DEF Reg!Delete, RegistryTable
        <3>2. QED
            BY <3>1 DEF Reg!Next
    <2>4. QED
        BY <2>1, <2>2, <2>3
<1>3. ASSUME Reset PROVE Reg!Clear
    BY <1>3 DEF Reset, Reg!Clear, Reg!EmptyTable, RegistryTable
<1>4. ASSUME NEW c \in Conns, WorkerNotify(c)
      PROVE [Reg!Next]_RegistryTable
    <2> DEFINE d == wreq[c].dev
               v == wreq[c].vm
    <2>1. d \in Devices /\ v \in VMs
        BY <1>4 DEF WorkerNotify, GuestMsg
    <2>2. CASE ctx # None /\ d \in hreg /\ v \in Permitted[d] /\ v # hcur[d]
        <3>1. Reg!Switch(d, v)
            BY <1>4, <2>1, <2>2 DEF WorkerNotify, Reg!Switch, RegistryTable
        <3>2. QED
            BY <2>1, <3>1 DEF Reg!Next
    <2>3. CASE ~(ctx # None /\ d \in hreg /\ v \in Permitted[d] /\ v # hcur[d])
        BY <1>4, <2>3, TableStutter DEF WorkerNotify
    <2>4. QED
        BY <2>2, <2>3
<1>5. QED
    <2>1. CASE \E d \in Devices : PlugManaged(d)
        BY <2>1, <1>1
    <2>2. CASE \E d \in Devices : Unplug(d)
        BY <2>2, <1>2
    <2>3. CASE Reset
        BY <2>3, <1>3 DEF Reg!Next
    <2>4. CASE \E c \in Conns : WorkerNotify(c)
        BY <2>4, <1>4
    <2>5. CASE \/ \E d \in Devices : PlugDirect(d)
               \/ SendConnected \/ SendRemoved
               \/ \E c \in Conns :
                     \/ GuestConnect(c) \/ WorkerStart(c) \/ WorkerEnd(c)
                     \/ WorkerReceive(c) \/ WorkerExecute(c)
                     \/ WorkerSendAck(c)
               \/ LinkDown \/ GuestReceive \/ PopupClose
               \/ \E d \in Devices, v \in VMs : GuestRequest(d, v)
               \/ Halted \/ UNCHANGED vars
        <3>1. UNCHANGED <<hreg, hcur>>
            BY <2>5 DEF PlugDirect, SendConnected, SendRemoved, GuestConnect,
                        WorkerStart, WorkerEnd, WorkerReceive, WorkerExecute,
                        WorkerSendAck, LinkDown, GuestReceive, PopupClose,
                        GuestRequest, Halted, vars, hostVars
        <3>2. QED
            BY <3>1, TableStutter
    <2>6. QED
        BY <2>1, <2>2, <2>3, <2>4, <2>5 DEF Next

\* USBPassthroughGUI implements the spec 4.7 registry: the udev thread's
\* notify calls and reset and every worker's notify_device_passthrough
\* change device_registry only by whole registry operations, for every
\* configuration of devices, VMs and connections.
THEOREM CoreRefinesRegistry == Spec => RegistryRefinement
<1>1. Spec => []TypeInv
    BY InitTypeInv, NextTypeInv, PTL DEF Spec
<1>2. QED
    BY <1>1, InitRefines, NextRefines, PTL
       DEF Spec, RegistryRefinement, Reg!Spec

=============================================================================
