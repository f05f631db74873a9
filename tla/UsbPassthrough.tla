--------------------------- MODULE UsbPassthrough ---------------------------
(***************************************************************************)
(* The USB passthrough protocol between the host and the GUI virtual      *)
(* machine, as the repository implements it:                              *)
(*                                                                         *)
(*  - the host's udev monitor loop (vhotplug.py, device_event_with_upm),   *)
(*    which reports plugged and unplugged devices to the registry;         *)
(*  - the host registry USBPassthroughGUI (vhotplug_server.py), a handler  *)
(*    of the VSOCK server whose device_registry is guarded by a lock held  *)
(*    only for the in-memory update, the send happening after it;          *)
(*  - the passthrough executor handle_user_device_passthrough_request      *)
(*    (vhotplug.py), which detaches and re-attaches the physical device;   *)
(*  - one VsockConnectionWorker thread per accepted guest connection       *)
(*    (vsock.py), all of them sharing the single handler and its ctx;     *)
(*  - the guest mirror DeviceRegister (device_registry.py) on its          *)
(*    VsockClient receive thread, and the guest UI sending requests.       *)
(*                                                                         *)
(* A connection is a pair of FIFO byte streams; only the guest's current   *)
(* connection carries data, and the data of a broken one is lost.          *)
(***************************************************************************)
EXTENDS Naturals, Sequences

CONSTANTS
    Devices,    \* USB device ids (usb_info.dev_id())
    VMs,        \* VM names of the configuration
    Permitted,  \* Permitted[d]: the VMs config.vm_for_usb_device allows for d
    Conns,      \* identities of accepted guest connections (peer ports)
    None,       \* Python's None: no VM, no connection, no device, no request
    MaxChan     \* bound on the messages queued in one direction

ASSUME ConstantsAssumption ==
    /\ Permitted \in [Devices -> SUBSET VMs]
    /\ None \notin VMs \cup Devices \cup Conns
    /\ MaxChan \in Nat

VARIABLES
    plugged,    \* devices physically present (udev)
    userDevs,   \* keys of the global userDevices table (vhotplug.py)
    attached,   \* attached[d]: VM the device is physically attached to
    hreg,       \* keys of USBPassthroughGUI.device_registry
    hcur,       \* hcur[d]: its "current_vm" ("" and absent are None)
    ctx,        \* USBPassthroughGUI.ctx: the connection it sends on
    upc,        \* udev monitor thread: "idle", a pending send, or "crashed"
    ud,         \* the device the monitor thread is handling
    wst,        \* wst[c]: worker of connection c: "free", "accepted", "running"
    wpc,        \* wpc[c]: where the worker is inside handle_request
    wreq,       \* wreq[c]: the passthrough_request it handles
    gconn,      \* the guest VsockClient's live connection
    gdev,       \* keys of DeviceRegister.device_registry
    gcur,       \* gcur[d]: its "current_vm"
    galive,     \* the guest receive thread has not died
    gpc,        \* "recv", or "popup": blocked joining the new-device popup
    h2g,        \* bytes in flight host -> guest on gconn
    g2h         \* bytes in flight guest -> host on gconn

udevVars   == <<plugged, userDevs, attached, upc, ud>>
hostVars   == <<hreg, hcur, ctx>>
workerVars == <<wst, wpc, wreq>>
guestVars  == <<gconn, gdev, gcur, galive, gpc>>
chanVars   == <<h2g, g2h>>
vars == <<udevVars, hostVars, workerVars, guestVars, chanVars>>

VMOrNone == VMs \cup {None}

(***************************************************************************)
(* The messages the host builds with gui_schema (vhotplug_schemas.       *)
(* usb_passthrough, a package outside this repository) and the guest      *)
(* parses with dpm.py, reduced to the fields the handlers read.  The      *)
(* model takes gui_schema's to_json to produce the dpm wire format;       *)
(* current_vm of device_connected is the "" vhotplug passes, i.e. None.   *)
(***************************************************************************)
ConnectedMsg(d) == [type |-> "device_connected", dev |-> d, vm |-> None]
RemovedMsg(d)   == [type |-> "device_removed", dev |-> d, vm |-> None]
AckMsg(d, v)    == [type |-> "passthrough_ack", dev |-> d, vm |-> v]
RequestMsg(d, v) == [type |-> "passthrough_request", dev |-> d, vm |-> v]

HostMsg == [type : {"device_connected", "device_removed"}, dev : Devices,
            vm : {None}]
           \cup [type : {"passthrough_ack"}, dev : Devices, vm : VMs]
GuestMsg == [type : {"passthrough_request"}, dev : Devices, vm : VMs]

WorkerPc == {"idle", "exec", "notify", "ack"}

HostUp == upc # "crashed"

(***************************************************************************)
(* ConnCtx.send through self.ctx: json_transport.send succeeds only on a  *)
(* live socket; on a broken one it raises and send returns False.         *)
(***************************************************************************)
Delivered == ctx = gconn
SendOnCtx(m) == h2g' = IF Delivered THEN Append(h2g, m) ELSE h2g

(***************************************************************************)
(* The whole process dies: sockets close, so the guest's link breaks.     *)
(***************************************************************************)
HostCrash ==
    /\ upc' = "crashed"
    /\ gconn' = None
    /\ h2g' = << >>
    /\ g2h' = << >>

-----------------------------------------------------------------------------
(***************************************************************************)
(* The udev monitor loop (one thread), device_event_with_upm.             *)
(***************************************************************************)

\* "add" of a device with no permitted VMs: attached directly to the VM
\* vm_for_usb_device picks, or left alone when attach_usb_device raises.
PlugDirect(d) ==
    /\ HostUp /\ upc = "idle"
    /\ d \notin plugged /\ Permitted[d] = {}
    /\ plugged' = plugged \cup {d}
    /\ \E v \in VMOrNone : attached' = [attached EXCEPT ![d] = v]
    /\ UNCHANGED <<userDevs, upc, ud, hostVars, workerVars, guestVars, chanVars>>

\* Mutant: notify_device_connected without its "already in registry" test.
PlugManagedOverwrite(d) ==
    /\ HostUp /\ upc = "idle"
    /\ d \notin plugged /\ Permitted[d] # {}
    /\ Len(h2g) < MaxChan
    /\ plugged' = plugged \cup {d}
    /\ IF ctx = None
         THEN /\ userDevs' = userDevs \cup {d}
              /\ UNCHANGED <<upc, ud, hreg, hcur>>
         ELSE /\ hreg' = hreg \cup {d}
              /\ hcur' = [hcur EXCEPT ![d] = None]
              /\ upc' = "send_connected" /\ ud' = d
              /\ UNCHANGED userDevs
    /\ UNCHANGED <<attached, ctx, workerVars, guestVars, chanVars>>

\* "add" of a device with permitted VMs: notify_device_connected up to its
\* send.  With ctx None it returns True at once; a device already in the
\* registry is ignored and reported as success; both add it to userDevices.
PlugManaged(d) ==
    /\ HostUp /\ upc = "idle"
    /\ d \notin plugged /\ Permitted[d] # {}
    /\ Len(h2g) < MaxChan
    /\ plugged' = plugged \cup {d}
    /\ IF ctx = None \/ d \in hreg
         THEN /\ userDevs' = userDevs \cup {d}
              /\ UNCHANGED <<upc, ud, hreg, hcur>>
         ELSE /\ hreg' = hreg \cup {d}
              /\ hcur' = [hcur EXCEPT ![d] = None]
              /\ upc' = "send_connected" /\ ud' = d
              /\ UNCHANGED userDevs
    /\ UNCHANGED <<attached, ctx, workerVars, guestVars, chanVars>>

\* self.ctx.send(device_connected) after the lock; ctx may have become None
\* since it was tested, and None.send raises AttributeError, which nothing
\* up to main() catches.  On success the device enters userDevices.
SendConnected ==
    /\ upc = "send_connected"
    /\ IF ctx = None
         THEN /\ HostCrash
              /\ UNCHANGED <<ud, userDevs>>
         ELSE /\ SendOnCtx(ConnectedMsg(ud))
              /\ userDevs' = IF Delivered THEN userDevs \cup {ud} ELSE userDevs
              /\ upc' = "idle" /\ ud' = None
              /\ UNCHANGED <<gconn, g2h>>
    /\ UNCHANGED <<plugged, attached, hostVars, workerVars,
                   gdev, gcur, galive, gpc>>

\* "remove": remove_usb_device, then notify_device_disconnected if the
\* device is in userDevices, then userDevices.delete.  A RuntimeError of
\* remove_usb_device skips everything after it.
Unplug(d) ==
    /\ HostUp /\ upc = "idle"
    /\ d \in plugged
    /\ Len(h2g) < MaxChan
    /\ plugged' = plugged \ {d}
    /\ \/ /\ UNCHANGED <<attached, userDevs, upc, ud, hreg, hcur>>
       \/ /\ attached' = [attached EXCEPT ![d] = None]
          /\ IF d \in userDevs /\ ctx # None /\ d \in hreg
               THEN /\ hreg' = hreg \ {d}
                    /\ hcur' = [hcur EXCEPT ![d] = None]
                    /\ upc' = "send_removed" /\ ud' = d
                    /\ UNCHANGED userDevs
               ELSE /\ userDevs' = userDevs \ {d}
                    /\ UNCHANGED <<upc, ud, hreg, hcur>>
    /\ UNCHANGED <<ctx, workerVars, guestVars, chanVars>>

\* self.ctx.send(device_removed) after the lock, then userDevices.delete.
SendRemoved ==
    /\ upc = "send_removed"
    /\ IF ctx = None
         THEN /\ HostCrash
              /\ UNCHANGED <<ud, userDevs>>
         ELSE /\ SendOnCtx(RemovedMsg(ud))
              /\ userDevs' = userDevs \ {ud}
              /\ upc' = "idle" /\ ud' = None
              /\ UNCHANGED <<gconn, g2h>>
    /\ UNCHANGED <<plugged, attached, hostVars, workerVars,
                   gdev, gcur, galive, gpc>>

\* USBPassthroughGUI.reset up to the lock's end: it clears the registry.
\* Its send (reset_msg passed without to_json, a gui_schema object) is
\* taken to deliver nothing; reset has no caller in this repository.
Reset ==
    /\ HostUp /\ ctx # None
    /\ hreg' = {}
    /\ hcur' = [d \in Devices |-> None]
    /\ UNCHANGED <<udevVars, ctx, workerVars, guestVars, chanVars>>

-----------------------------------------------------------------------------
(***************************************************************************)
(* Connections and their VsockConnectionWorker threads.                   *)
(***************************************************************************)

\* VsockClient.server() connects; VsockServer.run accepts, finds the
\* handler registered for the guest's cid and starts a worker for it.
GuestConnect(c) ==
    /\ HostUp /\ gconn = None /\ wst[c] = "free"
    /\ gconn' = c
    /\ wst' = [wst EXCEPT ![c] = "accepted"]
    /\ UNCHANGED <<udevVars, hostVars, wpc, wreq, gdev, gcur, galive, gpc,
                   chanVars>>

\* The worker thread runs handler.on_connect(ctx): the shared handler now
\* sends on this connection, whatever connection it sent on before.
WorkerStart(c) ==
    /\ HostUp /\ wst[c] = "accepted"
    /\ wst' = [wst EXCEPT ![c] = "running"]
    /\ ctx' = c
    /\ UNCHANGED <<udevVars, hreg, hcur, wpc, wreq, guestVars, chanVars>>

\* The transport breaks (peer VM stops, a send error makes the guest close
\* its socket): everything in flight on it is lost.
LinkDown ==
    /\ gconn # None
    /\ gconn' = None
    /\ h2g' = << >> /\ g2h' = << >>
    /\ UNCHANGED <<udevVars, hostVars, workerVars, gdev, gcur, galive, gpc>>

\* The worker's receive loop ends on the broken socket; its finally block
\* closes the socket and calls on_disconnect, which sets ctx to None even
\* when ctx belongs to a newer connection.
WorkerEnd(c) ==
    /\ HostUp /\ wst[c] = "running" /\ wpc[c] = "idle" /\ gconn # c
    /\ wst' = [wst EXCEPT ![c] = "free"]
    /\ ctx' = None
    /\ UNCHANGED <<udevVars, hreg, hcur, wpc, wreq, guestVars, chanVars>>

\* The worker reads a passthrough_request and starts handle_request: the
\* registry membership test is made without the lock.
WorkerReceive(c) ==
    /\ HostUp /\ wst[c] = "running" /\ wpc[c] = "idle"
    /\ gconn = c /\ g2h # << >>
    /\ g2h' = Tail(g2h)
    /\ IF Head(g2h).dev \in hreg
         THEN /\ wpc' = [wpc EXCEPT ![c] = "exec"]
              /\ wreq' = [wreq EXCEPT ![c] = Head(g2h)]
         ELSE UNCHANGED <<wpc, wreq>>
    /\ UNCHANGED <<udevVars, hostVars, wst, guestVars, h2g>>

\* passthrough_handler = handle_user_device_passthrough_request: a device
\* missing from userDevices fails; otherwise remove_usb_device and then
\* attach_usb_device, either of which may raise RuntimeError.  Attaching
\* succeeds only for a device that is present.
WorkerExecute(c) ==
    LET d == wreq[c].dev
        v == wreq[c].vm
    IN
    /\ HostUp /\ wpc[c] = "exec"
    /\ \/ /\ d \in userDevs /\ d \in plugged
          /\ attached' = [attached EXCEPT ![d] = v]
          /\ wpc' = [wpc EXCEPT ![c] = "notify"]
          /\ UNCHANGED wreq
       \/ /\ \/ UNCHANGED attached
             \/ d \in userDevs /\ attached' = [attached EXCEPT ![d] = None]
          /\ wpc' = [wpc EXCEPT ![c] = "idle"]
          /\ wreq' = [wreq EXCEPT ![c] = None]
    /\ UNCHANGED <<plugged, userDevs, upc, ud, hostVars, wst, guestVars,
                   chanVars>>

\* notify_device_passthrough up to its send: ctx None returns True, an
\* unknown device or a VM outside permitted_vms returns False, the current
\* VM returns True, and otherwise current_vm is updated under the lock.
WorkerNotify(c) ==
    LET d == wreq[c].dev
        v == wreq[c].vm
    IN
    /\ HostUp /\ wpc[c] = "notify"
    /\ IF ctx # None /\ d \in hreg /\ v \in Permitted[d] /\ v # hcur[d]
         THEN /\ hcur' = [hcur EXCEPT ![d] = v]
              /\ wpc' = [wpc EXCEPT ![c] = "ack"]
              /\ UNCHANGED wreq
         ELSE /\ wpc' = [wpc EXCEPT ![c] = "idle"]
              /\ wreq' = [wreq EXCEPT ![c] = None]
              /\ UNCHANGED hcur
    /\ UNCHANGED <<udevVars, hreg, ctx, wst, guestVars, chanVars>>

\* Mutant: the ack takes current_vm from the registry after the lock is
\* released, where an unplug may already have removed the entry.
WorkerSendAckStale(c) ==
    /\ HostUp /\ wpc[c] = "ack"
    /\ wpc' = [wpc EXCEPT ![c] = "idle"]
    /\ wreq' = [wreq EXCEPT ![c] = None]
    /\ IF ctx = None
         THEN /\ wst' = [wst EXCEPT ![c] = "free"]
              /\ IF gconn = c
                   THEN gconn' = None /\ h2g' = << >> /\ g2h' = << >>
                   ELSE UNCHANGED <<gconn, h2g, g2h>>
         ELSE /\ SendOnCtx(AckMsg(wreq[c].dev, hcur[wreq[c].dev]))
              /\ UNCHANGED <<wst, gconn, g2h>>
    /\ UNCHANGED <<udevVars, hostVars, gdev, gcur, galive, gpc>>

\* self.ctx.send(passthrough_ack ok) after the lock.  If ctx has become
\* None the AttributeError ends the worker thread: its finally block closes
\* its socket and calls on_disconnect.
WorkerSendAck(c) ==
    /\ HostUp /\ wpc[c] = "ack"
    /\ wpc' = [wpc EXCEPT ![c] = "idle"]
    /\ wreq' = [wreq EXCEPT ![c] = None]
    /\ IF ctx = None
         THEN /\ wst' = [wst EXCEPT ![c] = "free"]
              /\ IF gconn = c
                   THEN gconn' = None /\ h2g' = << >> /\ g2h' = << >>
                   ELSE UNCHANGED <<gconn, h2g, g2h>>
         ELSE /\ SendOnCtx(AckMsg(wreq[c].dev, wreq[c].vm))
              /\ UNCHANGED <<wst, gconn, g2h>>
    /\ UNCHANGED <<udevVars, hostVars, gdev, gcur, galive, gpc>>

-----------------------------------------------------------------------------
(***************************************************************************)
(* The guest: DeviceRegister.on_msg on the VsockClient receive thread,    *)
(* and the UI calling request_passthrough.                                *)
(***************************************************************************)

\* One message of json_transport.receive handed to on_msg.  device_connected
\* overwrites the entry and opens the popup, whose thread the receive
\* thread joins; passthrough_ack indexes the registry by device_id, and the
\* KeyError of an unknown device is no OSError: it ends the receive thread.
GuestReceive ==
    LET m == Head(h2g) IN
    /\ galive /\ gpc = "recv" /\ gconn # None /\ h2g # << >>
    /\ h2g' = Tail(h2g)
    /\ \/ /\ m.type = "device_connected"
          /\ gdev' = gdev \cup {m.dev}
          /\ gcur' = [gcur EXCEPT ![m.dev] = m.vm]
          /\ gpc' = "popup"
          /\ UNCHANGED galive
       \/ /\ m.type = "device_removed"
          /\ gdev' = gdev \ {m.dev}
          /\ gcur' = [gcur EXCEPT ![m.dev] = None]
          /\ UNCHANGED <<galive, gpc>>
       \/ /\ m.type = "passthrough_ack" /\ m.dev \in gdev
          /\ gcur' = [gcur EXCEPT ![m.dev] = m.vm]
          /\ UNCHANGED <<gdev, galive, gpc>>
       \/ /\ m.type = "passthrough_ack" /\ m.dev \notin gdev
          /\ galive' = FALSE
          /\ UNCHANGED <<gdev, gcur, gpc>>
    /\ UNCHANGED <<udevVars, hostVars, workerVars, gconn, g2h>>

\* The user closes the popup; the receive thread's join returns.
PopupClose ==
    /\ gpc = "popup"
    /\ gpc' = "recv"
    /\ UNCHANGED <<udevVars, hostVars, workerVars, gconn, gdev, gcur, galive,
                   chanVars>>

\* request_passthrough(device_id, new_vm) for a device the UI lists: it
\* validates nothing beyond non-empty strings and sends on the connection.
GuestRequest(d, v) ==
    /\ gconn # None /\ d \in gdev
    /\ Len(g2h) < MaxChan
    /\ g2h' = Append(g2h, RequestMsg(d, v))
    /\ UNCHANGED <<udevVars, hostVars, workerVars, guestVars, h2g>>

\* After the host process died nothing but the popup can move.
Halted ==
    /\ upc = "crashed"
    /\ UNCHANGED vars

-----------------------------------------------------------------------------
Init ==
    /\ plugged = {} /\ userDevs = {}
    /\ attached = [d \in Devices |-> None]
    /\ hreg = {} /\ hcur = [d \in Devices |-> None]
    /\ ctx = None
    /\ upc = "idle" /\ ud = None
    /\ wst = [c \in Conns |-> "free"]
    /\ wpc = [c \in Conns |-> "idle"]
    /\ wreq = [c \in Conns |-> None]
    /\ gconn = None
    /\ gdev = {} /\ gcur = [d \in Devices |-> None]
    /\ galive = TRUE /\ gpc = "recv"
    /\ h2g = << >> /\ g2h = << >>

Next ==
    \/ \E d \in Devices : PlugDirect(d) \/ PlugManaged(d) \/ Unplug(d)
    \/ SendConnected \/ SendRemoved \/ Reset
    \/ \E c \in Conns :
          \/ GuestConnect(c) \/ WorkerStart(c) \/ WorkerEnd(c)
          \/ WorkerReceive(c) \/ WorkerExecute(c) \/ WorkerNotify(c)
          \/ WorkerSendAck(c)
    \/ LinkDown \/ GuestReceive \/ PopupClose
    \/ \E d \in Devices, v \in VMs : GuestRequest(d, v)
    \/ Halted

Spec == Init /\ [][Next]_vars

-----------------------------------------------------------------------------
TypeOK ==
    /\ plugged \subseteq Devices /\ userDevs \subseteq Devices
    /\ attached \in [Devices -> VMOrNone]
    /\ hreg \subseteq Devices /\ hcur \in [Devices -> VMOrNone]
    /\ ctx \in Conns \cup {None}
    /\ upc \in {"idle", "send_connected", "send_removed", "crashed"}
    /\ ud \in Devices \cup {None}
    /\ wst \in [Conns -> {"free", "accepted", "running"}]
    /\ wpc \in [Conns -> WorkerPc]
    /\ wreq \in [Conns -> GuestMsg \cup {None}]
    /\ gconn \in Conns \cup {None}
    /\ gdev \subseteq Devices /\ gcur \in [Devices -> VMOrNone]
    /\ galive \in BOOLEAN /\ gpc \in {"recv", "popup"}
    /\ h2g \in Seq(HostMsg) /\ g2h \in Seq(GuestMsg)


(***************************************************************************)
(* The host registry seen as the abstract registry of spec 4.7: the       *)
(* table maps each key of device_registry to its current_vm.              *)
(***************************************************************************)
RegistryTable == [d \in hreg |-> hcur[d]]

Reg == INSTANCE Registry WITH table <- RegistryTable

\* Every change USBPassthroughGUI makes to device_registry, from the udev
\* thread's connect, disconnect and reset and from the workers'
\* notify_device_passthrough, is one operation of the spec 4.7 registry:
\* a connect never overwrites a present entry and a passthrough only moves
\* a registered device to another permitted VM.
RegistryRefinement == Reg!Spec

(***************************************************************************)
(* What the spec says of the code, checked in the violation runs.         *)
(***************************************************************************)

\* Spec 4.7: a request naming a VM outside permitted_vms is rejected before
\* the passthrough executor runs, so a registry-managed device is only ever
\* attached to one of its permitted VMs.
AttachedPermitted ==
    \A d \in Devices : Permitted[d] # {} => attached[d] \in Permitted[d] \cup {None}

\* Spec 7: a transport failure (the guest disconnecting at any moment) is
\* absorbed where it occurs and never ends the host process.
HostProcessSurvives == HostUp

\* Spec 4.7 and 5: once the host is idle and everything it sent has been
\* applied, the guest mirror lists exactly the devices of the host registry.
Quiescent ==
    /\ gconn # None /\ ctx = gconn /\ h2g = << >> /\ galive
    /\ upc = "idle" /\ \A c \in Conns : wpc[c] = "idle"
MirrorConverges == Quiescent => gdev = hreg

=============================================================================
