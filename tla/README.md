# Verification of the USB passthrough protocol (ghafpkgs)

This directory holds TLA+ models of the USB passthrough path between a Ghaf
host and its GUI virtual machine. It also holds the TLC configurations that
check the models and the TLAPS proofs about them. Every definition is
translated from the Python sources under `src/packages/`. `PROJECT.json` maps
each definition to the lines it models.

## 1. The system

The passthrough path has these parts.

**Host, the vhotplug daemon** (`vhotplug/vhotplug.py`, `vhotplug_server.py`)
- **udev monitor loop.** `monitor_loop` runs on a single asyncio thread and
  calls `device_event_with_upm` for every udev event.
  - **"add" of a device with no permitted VMs:** the device is attached
    directly to a VM.
  - **"add" of a device with permitted VMs:** the loop calls
    `notify_device_connected` and then adds the device to `userDevices`.
  - **"remove":** the loop detaches the device, then calls
    `notify_device_disconnected` if the device is in `userDevices`.
  - An exception other than `RuntimeError` propagates out of `monitor_loop`
    and ends the daemon.
- **The registry, `USBPassthroughGUI`.** It is a handler of the VSOCK server.
  It holds `device_registry` (device id to permitted VMs and `current_vm`),
  a `Lock` and `ctx`, the connection it sends on.
  - Each `notify_*` method tests `ctx`, updates the registry under the lock,
    and sends after releasing the lock.
  - `handle_request` runs on a worker thread. It looks the device up without
    the lock, calls the executor `handle_user_device_passthrough_request`
    (detach, then attach), and only then calls `notify_device_passthrough`.
    That method checks `permitted_vms`, updates `current_vm` and sends
    `passthrough_ack`.
  - The messages are built with `gui_schema` (`vhotplug_schemas.usb_passthrough`),
    a package that is not in this repository. The model assumes that their
    `to_json` produces the `dpm.py` format the guest parses.

**Transport** (`vsock_bridge/vsock.py`, `json_transport.py`, `protocols/dpm.py`)
- **`VsockServer.run`** accepts connections and starts one
  `VsockConnectionWorker` per connection. All workers share the one handler.
- **A worker** calls `on_connect(ctx)`, which overwrites the handler's `ctx`.
  It then feeds received messages to `handle_request`. On the way out, its
  `finally` block closes the socket and calls `on_disconnect`, which sets
  `ctx = None`.
- **`ConnCtx.send`** returns False when `json_transport.send` raises.
- **`VsockClient`** (guest side) connects, runs a receive loop, and reconnects
  after an `OSError`. It never calls its `on_connect` callback.

**Guest** (`upm/guest/device_registry.py`, `notify_user.py`)
- **`DeviceRegister.on_msg`** runs on the client's receive thread and keeps a
  mirror of the host registry.
  - `device_connected` adds an entry and opens a popup. The receive thread
    joins the popup thread (`show_new_device_popup_async`), so it blocks
    until the popup closes.
  - `device_removed` deletes the entry.
  - `passthrough_ack` sets `current_vm` by indexing the mirror with the
    device id.
- **`request_passthrough`** (from the popup or the main window) sends a
  `passthrough_request`.

**Interactions**
- udev events and guest requests reach the registry on two different threads:
  the monitor thread and a worker thread.
- Connection churn changes `ctx` under both of them.
- Every message from host to guest crosses one FIFO connection.
- The order of sends between the two host threads is decided after the lock
  is released, not inside it.

## 2. Inventory and plan

### Components

| component | state | operations | module |
|---|---|---|---|
| udev loop | `plugged`, `userDevs`, `attached`, `upc`/`ud` (pending send) | add (direct or managed), remove, the two sends, crash | UsbPassthrough |
| registry | `hreg`, `hcur`, `ctx` | notify_* (lock step, send step), reset | UsbPassthrough |
| workers | `wst`, `wpc`, `wreq` per connection slot | start/on_connect, receive, execute, notify, send ack, end/on_disconnect | UsbPassthrough |
| link | `gconn`, `h2g`, `g2h` | connect, break (LinkDown) | UsbPassthrough |
| guest mirror | `gdev`, `gcur`, `galive`, `gpc` | on_msg per type, popup close, request | UsbPassthrough |
| guest client `VsockClient` | `sock`, `conn`, `lock`, `pc`/`held`/`tries` per thread, `stopFlag`, `disc`, `peerUp` | server() (lock, create, connect with retries), run loop, send with five attempts, close_connection, stop | VsockClient |
| host server `VsockServer` and its workers | `rpc`/`cur`/`backlog`/`listen`/`tracked`, `spc`/`snap`/`joining`, per worker `wpc`/`wflag`/`wsock`/`inbox`/`closes`/`conns`/`disc` | run (accept, lookup, track, start), stop (flag, snapshot, stop and join each), worker run/stop/finally | VsockServer |
| HostService | `reg`, `cur`, `opc` (owner thread), `rpc`/`rreq`/`snapKeys`/`snapLeft` (receive thread), `g2h` | notify_* and reset (lock step, send step), handle_request (get_devices with its unlocked iteration and reply; passthrough test, executor, notify, ack) | HostService |
| abstract registry (spec 4.7) | `table`: registered devices to current VM | insert, delete, switch, clear | Registry |
| abstract client (spec 4.6) | `live` connection, `reported` instances | reserve, establish, drop | LogicalConnection |

### The hard behaviours
- Check-then-use of `ctx` across the lock.
- Sends outside the lock, racing between two threads.
- The executor running before the permission test.
- `on_disconnect` of an old worker clearing a new connection's `ctx`.
- A guest `KeyError` killing its receive thread.
- Exceptions that are not `OSError` (`RuntimeError`, `AttributeError`)
  leaving a thread's loop.
- Reconnects that lose in-flight data.
- The popup join blocking the receiver.

### Plan
- **Done:**
  - The protocol core, with its safety properties and the violations the
    code shows.
  - The transport as two further modules: the guest's `VsockClient` and the
    host's `VsockServer` with its workers. Each has safety and liveness
    properties under weak fairness of the threads' own steps.
  - Proofs of type correctness for the core, and of the main safety
    invariants of the client and the server.
  - The abstract registry of spec 4.7 (`Registry`), implemented by both host
    registries: checked by TLC and proved by TLAPS.
  - `HostService`, with its unlocked `get_devices` iteration.
  - An abstract specification of the client (`LogicalConnection`),
    implemented by `VsockClient`: checked by TLC and proved by TLAPS.
- **Next:**
  - Composing the client module with the core, so that a reconnect's lost
    messages meet the mirror.

## 3. Modules

### `UsbPassthrough.tla`: the protocol core

**Granularity.** Each lock block of the host is one atomic action, and each
send after a lock is another. Between the two, `upc` (udev thread) or `wpc[c]`
(worker `c`) records what remains to be done.

**Constants**
- `Devices`, `VMs`.
- `Permitted[d]`: the `permitted_vms` of `config.vm_for_usb_device`.
- `Conns`: reusable connection slots.
- `None`.
- `MaxChan`: a bound on each direction's queue.

**Actions**

| action | code |
|---|---|
| PlugDirect | `device_event_with_upm` add, no permitted VMs (attach, or a RuntimeError) |
| PlugManaged | `notify_device_connected` up to the send (ctx None, or already registered, returns True) |
| SendConnected | its `ctx.send`, then `userDevices.add`; with ctx None, `None.send` crashes the daemon (HostCrash) |
| Unplug / SendRemoved | remove branch, `notify_device_disconnected`, `userDevices.delete` |
| Reset | `USBPassthroughGUI.reset` up to the end of its lock: clears the registry. Its send passes a `gui_schema.Reset` object without `to_json` and is taken to deliver nothing; `reset` has no caller in this repository |
| GuestConnect / WorkerStart | `VsockServer.run` accept, worker `on_connect` (ctx := c) |
| LinkDown | receive ends on a broken socket: in-flight data lost |
| WorkerEnd | worker `finally`: close, `on_disconnect` (ctx := None) |
| WorkerReceive | `handle_request` registry test without the lock |
| WorkerExecute | `handle_user_device_passthrough_request` (success, or failure after detaching or not) |
| WorkerNotify / WorkerSendAck | `notify_device_passthrough` lock block / ack send (ctx None ends the worker) |
| GuestReceive | `DeviceRegister.on_msg`, one disjunct per message type; an ack for an unknown device kills the receiver |
| PopupClose | the popup thread ends, so the join returns |
| GuestRequest | `request_passthrough` |
| Halted | stuttering after the daemon died |

Messages are records with only the fields the handlers read. Byte framing is
abstracted: `json_transport` delivers exactly the lines sent, in order.

### `MC_UsbPassthrough.tla`
This is the model-checking instance. It has two devices: `d1` is managed and
permitted on `v1`, and `d2` has no permitted VM, so it takes the direct
attach. There are two VMs, two connection slots and `MaxChan = 2`.

### `Registry.tla`: what a registry promises
The abstract registry of spec 4.7, one variable `table`: a function whose
domain is the registered devices and whose value is each one's current VM.
Its actions are whole operations: `Insert(d, v)` of an absent device,
`Delete(d)` of a present one, `Switch(d, v)` of a present device to a
permitted VM other than its current one, and `Clear`. get-devices only reads.

Both host registries are shown to implement it. Each defines
`RegistryTable == [d \in reg |-> cur[d]]` (in the core over `hreg`, `hcur`),
instantiates `Reg == INSTANCE Registry WITH table <- RegistryTable` and
states `RegistryRefinement == Reg!Spec`, which TLC checks as a `PROPERTY`
and TLAPS proves. The refinement says that however the threads interleave,
a connect never overwrites a present entry and a passthrough only moves a
registered device to a permitted VM.

### `HostService.tla`: the registry over a `VsockClient`
`service.py` is a second host registry built on `VsockClient`; nothing in the
repository starts it. Two threads share `device_registry`:
- the **owner** thread calling `notify_device_connected`,
  `notify_device_disconnected` and `reset`: each is a lock step
  (`NotifyDeviceConnected`, `NotifyDeviceDisconnected`, `ResetRegistry`)
  followed by a send step (`SendDeviceConnected`, `SendDeviceRemoved`,
  `SendReset`);
- the **receive** thread running `handle_request`: `HandleRequest` reads a
  message; `get_devices` starts `ConnectedDevices(self.device_registry)`,
  whose loop over the live dict is `ConnectedDevicesStep` (one `next()` per
  step, with CPython's size check and its keys-changed check); a
  `passthrough_request` passes the unlocked membership test, then `Execute`
  (the executor), `NotifyDevicePassthrough` (the lock block) and `SendAck`.
  `SendAck` is the ack's `to_json`: `dpm.PassthroughAck.to_json` reads
  `self.reason`, which `__init__` never sets. The `AttributeError` is not an
  `OSError`, so it leaves `VsockClient.run` and the receive thread is dead
  (`rpc = "dead"`), with the registry already switched and no ack sent.

`VsockClient.send` is `Send`: the message goes out, or a failed try closes
the connection and the requests in flight from the GUI VM are lost. The
reset passes the `Reset` object, which `json.dumps` cannot serialise, so
`SendReset` always tears the connection down. Only the GUI VM's request
stream `g2h` is kept. The GUI VM (`GuestGetDevices`, `GuestRequest`) and
`LinkDown` are the environment. `MC_HostService` has two devices (`d1`
permitted on `v1` and `v2`, `d2` on `v1` only), two VMs and `MaxChan = 2`.

### `UsbPassthroughProofs.tla`, `VsockClientProofs.tla`, `VsockServerProofs.tla`, `HostServiceProofs.tla`
These modules hold the TLAPS proofs (section 5).

### `VsockClient.tla`: the guest's reconnecting client

The module covers `VsockClient` in `vsock_bridge/vsock.py`. It has these
threads:
- the receive thread running `run()` (`Recv`);
- any number of threads calling `send()` (`Senders`), such as the GUI's
  `request_passthrough`;
- a caller of `stop()` (`Stopper`).

Message contents are abstracted: a socket is `closed`, `created` (allocated,
not yet connected), `open` or `broken`. Socket objects come from the constant
`Socks`. A closed socket that no thread still refers to may be reused; this
stands for Python creating a new socket object.

| action | code |
|---|---|
| ServerEnter(t) | `server()`: `with self.lock`; if `self.conn` is None, create a socket; otherwise return `self.conn` |
| Connect(t) | `self.conn.connect` succeeding once the peer listens; until then the thread sleeps and retries with the lock held |
| CloseConnection | `close_connection()`: under the lock, close whatever `self.conn` is now, set it to None, call `on_disconnect` |
| RecvLoop / RecvEnd / RecvClose | `run()`: test `stop_flag`; `receive` ends or raises on a broken socket; `close_connection` |
| RecvWake | a `receive` blocked on a socket another thread has closed. Closing an fd does not wake a blocked `recv` on Linux, so this step is part of the environment and is not fair |
| SendCall / Write / SendClose | `send()`: up to five tries of `json_transport.send` on `server()`, each failure followed by `close_connection` |
| StopSignal / StopClose | `stop()`: set `stop_flag`, then `close_connection` |
| PeerToggle / LinkBreak(k) | the host side starts or stops listening; an open connection breaks |

### `VsockServer.tla`: the host's server and its workers

The module covers `VsockServer` and `VsockConnectionWorker`. It has three
kinds of thread:
- the accept loop `run()`;
- the thread inside `stop()`, called whenever the owner chooses
  (`StopCall`);
- one worker per accepted peer.

`Workers` are the peers' addresses, and each peer connects once. `wsock[w]`
is the worker's socket: `none`, `open`, or `shut` (shut down, or the peer
sent EOF). `closes` and `disc` count the `close()` and `on_disconnect` calls.

| action | code |
|---|---|
| RunCheck / Accept / Lookup / Track / Start | `run()`: test `_stop`; `accept` (raises once the listener is closed); handler lookup by cid (unknown peer: close); `_workers[addr] = w` under `_workers_lock`; `w.start()` |
| StopFlag / Snapshot / StopNext / Join | `stop()`: set `_stop`, shut and close the listener; copy `_workers` under the lock; for each worker `w.stop()` then `w.join(timeout=2)`. The timeout is abstracted, so join may return early. Joining a worker that `run()` has recorded but not yet started raises `RuntimeError`, which ends `stop()` (`spc = "raised"`) |
| WorkerStop(w) | `VsockConnectionWorker.stop`: return if `_stop` is set, else set it, shut the socket down, close it |
| WorkerConnect / WorkerMessage / WorkerEof / WorkerFinally | worker `run()`: `on_connect`; read a message and break if `_stop` is set; end of stream or `OSError`; `finally`: close, `on_disconnect` |
| PeerConnect / PeerSend / PeerClose | a peer connects, sends a line, closes |
| Terminated | stuttering once every thread has ended |

### `LogicalConnection.tla`: what the client promises
`LogicalConnection` is spec 4.6 seen from outside the client: a `live`
connection or none, and the set `reported` of socket objects whose current
instance has had its `on_disconnect`. `Reserve(k)` takes a socket object for
a new instance (it starts unreported), `Establish(k)` makes an unreported one
live when none is, and `Drop` ends the live one and reports it. `VsockClient`
maps `live` to `self.conn` once `connect()` has succeeded (`LiveConn`) and
`reported` to the sockets with a non-zero `on_disconnect` count
(`Reported`); `LinkRefinement == Lnk!Spec`.

### `MC_VsockClient.tla`, `MC_VsockServer.tla`
The client instance has one sender and three socket objects. That is enough
because, besides `self.conn`, at most two stale references (the receive
thread's and the sender's) can pin a socket. The server instance has two
peers, which lets `stop()` take its snapshot while the second peer is still
being accepted.

## 4. Runs

| run | cfg | expect | shows |
|---|---|---|---|
| core_safety | MC_UsbPassthrough.cfg | pass | `TypeOK` (among other things, an ack never names a VM the registry has dropped); `RegistryRefinement`: the host registry implements `Registry` |
| attach_before_permission | V_AttachedPermitted.cfg | violation | a request for `v2` attaches `d1` to `v2`: the executor runs before the permitted_vms test |
| ctx_cleared_crashes_host | V_HostProcessSurvives.cfg | violation | link breaks, a device is plugged, the old worker's on_disconnect clears ctx, and `None.send` ends the daemon |
| reset_not_sent | V_MirrorConverges.cfg | violation | after reset the registry is empty and the guest still lists the device |
| hostservice_registry | MC_HostService.cfg | pass | `RegistryRefinement`: HostService's owner and receive threads change the registry only by `Registry` operations |
| snapshot_kills_receiver | V_ReceiverAlive.cfg | violation | a device connected while `get_devices` iterates the registry without the lock: `RuntimeError` ends the receive thread. An accepted passthrough request ends it too, through the ack's `AttributeError`; TLC reports the shorter trace |
| client_safety | MC_VsockClient.cfg | pass | `TypeOK`, `ConnectedBeforeUse` (no caller is handed an unconnected socket), `DisconnectOnce` (one `on_disconnect` per connection), `SendCompletes` (once the peer stays up, every `send()` returns), and `LinkRefinement` (the client implements `LogicalConnection`) |
| client_closes_healthy | V_HealthyConnectionKept.cfg | violation | with `stop()` never called: a link breaks, the receive thread's `receive` ends, the sender's write fails and it closes and reconnects, then the receive thread's `close_connection` closes the sender's new, healthy connection |
| stop_leaves_receiver | V_StopEndsReceiver.cfg | violation | `stop_flag` is tested only at the loop head: after `stop()` the receive thread reconnects and stays in `receive` |
| server_workers | MC_VsockServer.cfg | pass | `WorkerDisconnectOnce` (at most one `on_disconnect`, only after `on_connect`, exactly one when done), and `StoppedWorkerDisconnects` (a stopped worker ends and notifies although its peer is silent) |
| stop_misses_worker | V_StopEndsWorkers.cfg | violation | a worker tracked after `stop()` took its snapshot is never stopped and outlives the server |
| stop_join_raises | V_SnapshotStopped.cfg | violation | `stop()` snapshots a worker recorded but not yet started; its `join` raises `RuntimeError` and `stop()` ends with workers of its snapshot never stopped |

**Bounds**
- Two devices cover both add branches. Only `d1` enters the registry, so the
  ack-versus-remove race and duplicate requests for one device are reached.
  The race is reached but no run states a property about it. The ack's
  wire form comes from `vhotplug_schemas`, which is outside the repository.
- Two VMs give a permitted and an unpermitted target.
- Two connection slots give an old worker ending after a new one has started.
- `MaxChan = 2` allows an ack and a removal to be in flight together.
- The run explores 4,765,464 distinct states in under three minutes with two
  workers, reaching depth 56.
- HostService: two devices let the registry grow, shrink or swap keys under
  an iteration; the pass run explores 42,315 states.

**Fairness**
- **Core and HostService.** None is assumed, because every property they
  are checked for is a safety property. Deadlock checking stays on. The only terminal situation, a dead
  daemon, is made explicit with `Halted`.
- **Client and server.** Weak fairness is assumed only for steps that a
  running thread must take: the receive thread's loop, a sender's
  steps once `send()` has been called, `stop()`'s steps once it has been
  called, the accept loop, and each worker. No fairness is assumed for the
  owner's decisions to call `send()` (`SendCall`) or `stop()` (`StopSignal`,
  `StopCall`). It is also not assumed for the peer (listening, link breaks,
  sending, closing) or for `RecvWake`: a blocked `recv` is not woken by a
  local close.
- **Liveness form.** The client's liveness properties are implications from
  `Stable`: the peer eventually listens for good and links stop breaking.
  Without that premise, no reconnecting client can promise progress.
- **Deadlock.** Both modules stay checked for deadlock. The server's final
  state is the explicit `Terminated`.

**Transport bounds.** The client run explores 20,936 states and the server
run 7,197. Each violation is found in a trace of under 30 steps.

## 5. Proofs

### Core (`UsbPassthroughProofs.tla`)

The proofs hold for every finite or infinite `Devices`, `VMs` and `Conns`, and
every `Permitted \in [Devices -> SUBSET VMs]`. The only assumption is
`ConstantsAssumption`.

- **`TypeCorrect: Spec => []TypeOK`.** `TypeOK` alone is not inductive, so
  the proof uses the strengthening `BusyWellFormed`: a busy worker holds a
  `passthrough_request`, and the udev thread holds a device between its lock
  step and its send. Then `TypeInv == TypeOK /\ BusyWellFormed` satisfies
  `Init => TypeInv` and `TypeInv /\ [Next]_vars => TypeInv'`. That second
  fact is shown with one step per action. Lemmas cover message membership and
  `SendOnCtx`.

### Client (`VsockClientProofs.tla`)

These proofs hold for every set of `Senders` and `Socks`. They assume
`ClientAssumption`: `None` is neither a socket nor a thread, and the receive
and stop threads are not senders.

The proved theorems are:
- `ConnectedBeforeUseHolds: Spec => []ConnectedBeforeUse`
- `DisconnectOnceHolds: Spec => []DisconnectOnce`
- `ClientTypeCorrect: Spec => []TypeOK`

Neither invariant is inductive alone. The strengthening `IInv` makes the
lock discipline of `server()` and `close_connection()` explicit:
- `CreatedLocked`: only `self.conn` can be half-connected, and only while
  the lock is held.
- `ConnectHoldsLock` and `LockOnlyConnecting`: the lock holder is exactly
  the caller inside the connect loop.
- `FreshConn`: `self.conn` has not been reported disconnected.
- `TriesBelow`: a sender inside an attempt has fewer than five failures.

With these, every `close_connection` runs with no socket half-connected. It
closes a connection that has not yet been reported, so it reports it once.
Lemma `CloseConnectionFacts` states this once for the three callers of
`close_connection`. TLC checked `IInv` on an instance with two senders and
four sockets (2.2 million states) before it was proved.

### Server (`VsockServerProofs.tla`)

`WorkerDisconnectOnceHolds: Spec => []WorkerDisconnectOnce` holds for every
set of `Workers`. The strengthening `SInv` has three parts:
- `SlotDiscipline`:
  - a worker's `on_disconnect` count is 1 exactly when it is done;
  - only a connected worker reaches its loop;
  - a peer's slot stays idle until its one connection leaves the backlog;
  - every tracked worker has left the backlog.
- `RunDiscipline`: the connection `run()` is handling is an accepted one
  whose slot is idle, then new.
- `ServerTypeOK`, which includes `snap \subseteq tracked`.

The backlog and tracking facts rule out a second worker for a peer, and they
rule out `stop()` shutting a socket still in the listen queue. TLC checked
`SInv` on three peers before it was proved.

### Refinement (`UsbPassthroughProofs.tla`, `HostServiceProofs.tla`)

`CoreRefinesRegistry: Spec => RegistryRefinement` and
`HostServiceRefinesRegistry: Spec => RegistryRefinement` follow one argument:
- `InitRefines`: the empty registry maps to `EmptyTable`.
- `NextRefines`: under the type invariant, every step is a `Registry` step
  or leaves `RegistryTable` alone. The connect lock step is `Insert` (its
  guard is the "already in registry" test), the disconnect step is `Delete`,
  reset is `Clear`, and the passthrough lock step is `Switch` when its
  permitted-and-different test passes and a stutter otherwise (the request
  it reads is well formed by the type invariant). Every other action leaves
  the registry variables unchanged (lemma `TableStutter`).
- The theorem combines them with `PTL`, as an implementation proof of a
  safety specification needs no fairness.

`HostServiceTypeCorrect` strengthens `TypeOK` with `HoldsRequest` (the
receive thread holds a request from the executor to the ack). It assumes
`HostServiceAssumption`, which asks for a finite `Devices` so that the
iteration count `Cardinality(reg)` is a natural number.

### Refinement of the client (`VsockClientProofs.tla`)

`ClientRefinesLink: Spec => LinkRefinement` reuses the client's `IInv`.
`server()` allocating a socket is `Reserve` (the new socket's count is reset
to 0). A successful `connect()` is `Establish`: `ConnectHoldsLock` says
`self.conn` was the half-connected socket, so nothing was live, and
`FreshConn` says it is unreported. A `close_connection` that finds a socket
is `Drop`: it runs with the lock free, so by `CreatedLocked` that socket is
connected and therefore live, and by `FreshConn` it is unreported; its
count goes from 0 to 1. Lemma `CloseRefinesLink` states this once for the
three callers. A link break leaves `LiveConn` alone, since a broken socket is
still not half-connected. Every other step changes no socket, `self.conn` or
count.


### What TLC alone shows
- The violations are counterexamples and need no proofs.
- The liveness properties (`SendCompletes`, `StoppedWorkerDisconnects`) stay
  with TLC. Their proofs would need reasoning about `ENABLED` and weak
  fairness, which the installed provers cannot do.
- Every safety invariant and refinement that a passing run checks is also
  proved for all values of the constants. The exceptions are the liveness
  properties above.

## 6. Not modelled, and why

- **Composition assumed, not read:** `vhotplug.py` imports the manager
  client from `vhotplug.upmclient`, which is not in this repository. The
  composition of the core (the registry as the handler of a `VsockServer`,
  `DeviceRegister` on a `VsockClient`) follows the classes' bases and the
  spec.
- **Modelled separately:** the core abstracts the transport to one FIFO
  link with breaks. The client and the server are modelled as their own
  modules with message contents abstracted, and are not yet composed with
  the core.
- **Omitted as not protocol-relevant:**
  - In the core, the `get_devices` / `connected_devices` exchange, which no
    client here starts (HostService models it).
  - The guest's registry file, written for the GUI and never read back by the
    protocol.
  - JSON byte framing.
  - The GTK code.
  - The command line and packaging.

## 7. Observations without a run

Three disagreements with the spec are deterministic and reached by a unit
test, so no run is spent on them:
- `handle_request` in `vhotplug_server.py` and `service.py` only logs a
  refused or failed request: no `passthrough_ack` with status `denied` or
  `error` is ever sent, while spec 4.7 and 7 say every request is answered.
- `VsockClient.server()` retries `connect` for ever while holding the lock,
  so with the peer absent `send()` never returns, although spec 4.6 bounds
  it by five attempts. The passing `SendCompletes` shows that it does return
  once the peer stays reachable.
- A `passthrough_request` with an empty field makes `from_payload` raise
  `ValueError`; on HostService's receive thread this ends the thread, while
  spec 7 says a validation error rejects only that message.
