---------------------------- MODULE VsockServer ----------------------------
(***************************************************************************)
(* VsockServer and VsockConnectionWorker (vsock_bridge/vsock.py): the     *)
(* accept loop run(), one worker thread per accepted connection of a      *)
(* registered peer, and stop(), which closes the listening socket, takes  *)
(* a snapshot of the tracked workers under _workers_lock and stops and    *)
(* joins each of them.  A worker calls on_connect, reads until its socket *)
(* is shut down or the peer closes it, checking its stop flag only when a *)
(* message arrives, and in its finally block closes the socket and calls  *)
(* on_disconnect.  Peers connect, send and close as they please; stop()   *)
(* is called by the owner whenever it chooses.                            *)
(***************************************************************************)
EXTENDS Naturals

CONSTANTS
    Workers,    \* peer addresses (cid, port), one connection each
    None

ASSUME ServerAssumption == None \notin Workers

VARIABLES
    rpc,        \* run(): "check", "accept", "got", "track", "start", "exit"
    cur,        \* the connection run() is handling
    backlog,    \* connections waiting in the listen queue
    listen,     \* the listening socket: "open" or "closed"
    srvStop,    \* VsockServer._stop
    tracked,    \* VsockServer._workers (its values)
    spc,        \* stop(): "idle", "flag", "snap", "stopw", "join", "done",
                \*         or "raised" (ended by an exception)
    snap,       \* the workers list stop() still has to stop and join
    joining,    \* the worker stop() is joining
    wpc,        \* wpc[w]: "idle", "rejected", "new", "connect", "loop",
                \*         "finally", "done"
    wflag,      \* wflag[w]: the worker's _stop event
    wsock,      \* wsock[w]: "none", "open", "shut" (shut down or peer EOF)
    inbox,      \* inbox[w]: a message is waiting to be read
    closes,     \* closes[w]: close() calls on the worker's socket
    conns,      \* conns[w]: on_connect was called
    disc        \* disc[w]: on_disconnect calls

vars == <<rpc, cur, backlog, listen, srvStop, tracked, spc, snap, joining,
          wpc, wflag, wsock, inbox, closes, conns, disc>>
runVars == <<rpc, cur, backlog>>
stopVars == <<spc, snap, joining>>
workerVars == <<wpc, wflag, wsock, inbox, closes, conns, disc>>

-----------------------------------------------------------------------------
(***************************************************************************)
(* VsockConnectionWorker.stop: return if _stop is set; set it, shut the   *)
(* socket down for both directions (waking a blocked recv) and close it.  *)
(***************************************************************************)

\* Mutant: stop() closes the socket without shutting it down first; a
\* recv blocked on it is not woken.
WorkerStopNoShutdown(w) ==
    IF wflag[w]
      THEN UNCHANGED <<wflag, wsock, closes>>
      ELSE /\ wflag' = [wflag EXCEPT ![w] = TRUE]
           /\ closes' = [closes EXCEPT ![w] = @ + 1]
           /\ UNCHANGED wsock

WorkerStop(w) ==
    IF wflag[w]
      THEN UNCHANGED <<wflag, wsock, closes>>
      ELSE /\ wflag' = [wflag EXCEPT ![w] = TRUE]
           /\ wsock' = [wsock EXCEPT ![w] = "shut"]
           /\ closes' = [closes EXCEPT ![w] = @ + 1]

-----------------------------------------------------------------------------
(***************************************************************************)
(* VsockServer.run.                                                        *)
(***************************************************************************)
RunCheck ==
    /\ rpc = "check"
    /\ rpc' = IF srvStop THEN "exit" ELSE "accept"
    /\ UNCHANGED <<cur, backlog, listen, srvStop, tracked, stopVars, workerVars>>

\* accept() returns a queued connection, or raises OSError once the
\* listening socket is closed, which ends the loop.
Accept ==
    /\ rpc = "accept"
    /\ \/ /\ listen = "closed"
          /\ rpc' = "exit"
          /\ UNCHANGED <<cur, backlog, wsock>>
       \/ /\ listen = "open"
          /\ \E w \in backlog :
               /\ cur' = w
               /\ backlog' = backlog \ {w}
               /\ wsock' = [wsock EXCEPT ![w] = "open"]
               /\ rpc' = "got"
    /\ UNCHANGED <<listen, srvStop, tracked, stopVars,
                   wpc, wflag, inbox, closes, conns, disc>>

\* The handler is looked up by the peer's cid: an unknown peer's connection
\* is closed; a known one gets a worker.
Lookup ==
    /\ rpc = "got"
    /\ \/ /\ wpc' = [wpc EXCEPT ![cur] = "rejected"]
          /\ wsock' = [wsock EXCEPT ![cur] = "shut"]
          /\ closes' = [closes EXCEPT ![cur] = @ + 1]
          /\ rpc' = "check" /\ cur' = None
       \/ /\ wpc' = [wpc EXCEPT ![cur] = "new"]
          /\ rpc' = "track"
          /\ UNCHANGED <<cur, wsock, closes>>
    /\ UNCHANGED <<backlog, listen, srvStop, tracked, stopVars,
                   wflag, inbox, conns, disc>>

\* with self._workers_lock: self._workers[addr] = w
Track ==
    /\ rpc = "track"
    /\ tracked' = tracked \cup {cur}
    /\ rpc' = "start"
    /\ UNCHANGED <<cur, backlog, listen, srvStop, stopVars, workerVars>>

\* w.start()
Start ==
    /\ rpc = "start"
    /\ wpc' = [wpc EXCEPT ![cur] = "connect"]
    /\ rpc' = "check" /\ cur' = None
    /\ UNCHANGED <<backlog, listen, srvStop, tracked, stopVars,
                   wflag, wsock, inbox, closes, conns, disc>>

-----------------------------------------------------------------------------
(***************************************************************************)
(* VsockServer.stop: the owner calls it; it then runs to completion.       *)
(***************************************************************************)
StopCall ==
    /\ spc = "idle"
    /\ spc' = "flag"
    /\ UNCHANGED <<runVars, listen, srvStop, tracked, snap, joining, workerVars>>

\* Set _stop, shut down and close the listening socket: queued connections
\* are reset and a blocked accept() raises.
StopFlag ==
    /\ spc = "flag"
    /\ srvStop' = TRUE
    /\ listen' = "closed"
    /\ backlog' = {}
    /\ spc' = "snap"
    /\ UNCHANGED <<rpc, cur, tracked, snap, joining, workerVars>>

\* with self._workers_lock: workers = list(self._workers.values())
Snapshot ==
    /\ spc = "snap"
    /\ snap' = tracked
    /\ spc' = "stopw"
    /\ UNCHANGED <<runVars, listen, srvStop, tracked, joining, workerVars>>

\* for w in workers: w.stop(); w.join(timeout=2)
StopNext ==
    /\ spc = "stopw"
    /\ \/ /\ snap = {}
          /\ spc' = "done"
          /\ UNCHANGED <<snap, joining, wflag, wsock, closes>>
       \/ \E w \in snap :
            /\ WorkerStop(w)
            /\ joining' = w
            /\ snap' = snap \ {w}
            /\ spc' = "join"
    /\ UNCHANGED <<runVars, listen, srvStop, tracked, wpc, inbox, conns, disc>>

\* join returns when the worker has ended or after the two-second timeout,
\* whichever comes first, and stop() goes on; but joining a worker run()
\* has recorded and not yet started raises RuntimeError, which ends stop()
\* with the rest of its snapshot unstopped.
Join ==
    /\ spc = "join"
    /\ spc' = IF wpc[joining] = "new" THEN "raised" ELSE "stopw"
    /\ joining' = None
    /\ UNCHANGED <<runVars, listen, srvStop, tracked, snap, workerVars>>

-----------------------------------------------------------------------------
(***************************************************************************)
(* VsockConnectionWorker.run.                                              *)
(***************************************************************************)
WorkerConnect(w) ==
    /\ wpc[w] = "connect"
    /\ conns' = [conns EXCEPT ![w] = TRUE]
    /\ wpc' = [wpc EXCEPT ![w] = "loop"]
    /\ UNCHANGED <<runVars, listen, srvStop, tracked, stopVars,
                   wflag, wsock, inbox, closes, disc>>

\* A message arrives: break if _stop is set, else on_message.
WorkerMessage(w) ==
    /\ wpc[w] = "loop" /\ inbox[w]
    /\ inbox' = [inbox EXCEPT ![w] = FALSE]
    /\ wpc' = [wpc EXCEPT ![w] = IF wflag[w] THEN "finally" ELSE "loop"]
    /\ UNCHANGED <<runVars, listen, srvStop, tracked, stopVars,
                   wflag, wsock, closes, conns, disc>>

\* receive ends (peer EOF) or raises OSError (socket shut down).
WorkerEof(w) ==
    /\ wpc[w] = "loop" /\ wsock[w] = "shut" /\ ~inbox[w]
    /\ wpc' = [wpc EXCEPT ![w] = "finally"]
    /\ UNCHANGED <<runVars, listen, srvStop, tracked, stopVars,
                   wflag, wsock, inbox, closes, conns, disc>>

\* Mutant: on_disconnect also called from the except OSError branch, so a
\* worker whose socket stop() shut down notifies twice.
WorkerFinallyTwice(w) ==
    /\ wpc[w] = "finally"
    /\ closes' = [closes EXCEPT ![w] = @ + 1]
    /\ disc' = [disc EXCEPT ![w] = @ + IF wflag[w] THEN 2 ELSE 1]
    /\ wpc' = [wpc EXCEPT ![w] = "done"]
    /\ UNCHANGED <<runVars, listen, srvStop, tracked, stopVars,
                   wflag, wsock, inbox, conns>>

\* finally: self._conn.close(); self._handler.on_disconnect()
WorkerFinally(w) ==
    /\ wpc[w] = "finally"
    /\ closes' = [closes EXCEPT ![w] = @ + 1]
    /\ disc' = [disc EXCEPT ![w] = @ + 1]
    /\ wpc' = [wpc EXCEPT ![w] = "done"]
    /\ UNCHANGED <<runVars, listen, srvStop, tracked, stopVars,
                   wflag, wsock, inbox, conns>>

-----------------------------------------------------------------------------
(***************************************************************************)
(* Peers.                                                                  *)
(***************************************************************************)
PeerConnect(w) ==
    /\ listen = "open" /\ wsock[w] = "none" /\ w \notin backlog
    /\ backlog' = backlog \cup {w}
    /\ UNCHANGED <<rpc, cur, listen, srvStop, tracked, stopVars, workerVars>>

PeerSend(w) ==
    /\ wsock[w] = "open" /\ ~inbox[w]
    /\ inbox' = [inbox EXCEPT ![w] = TRUE]
    /\ UNCHANGED <<runVars, listen, srvStop, tracked, stopVars,
                   wpc, wflag, wsock, closes, conns, disc>>

PeerClose(w) ==
    /\ wsock[w] = "open"
    /\ wsock' = [wsock EXCEPT ![w] = "shut"]
    /\ UNCHANGED <<runVars, listen, srvStop, tracked, stopVars,
                   wpc, wflag, inbox, closes, conns, disc>>

\* Everything has ended: the server, its stop() and every worker.
Terminated ==
    /\ rpc = "exit" /\ spc \in {"done", "raised"}
    /\ \A w \in Workers : wpc[w] \in {"idle", "rejected", "done"}
    /\ UNCHANGED vars

-----------------------------------------------------------------------------
Init ==
    /\ rpc = "check" /\ cur = None /\ backlog = {}
    /\ listen = "open" /\ srvStop = FALSE /\ tracked = {}
    /\ spc = "idle" /\ snap = {} /\ joining = None
    /\ wpc = [w \in Workers |-> "idle"]
    /\ wflag = [w \in Workers |-> FALSE]
    /\ wsock = [w \in Workers |-> "none"]
    /\ inbox = [w \in Workers |-> FALSE]
    /\ closes = [w \in Workers |-> 0]
    /\ conns = [w \in Workers |-> FALSE]
    /\ disc = [w \in Workers |-> 0]

RunStep == RunCheck \/ Accept \/ Lookup \/ Track \/ Start
StopStep == StopFlag \/ Snapshot \/ StopNext \/ Join
WorkerStep(w) ==
    WorkerConnect(w) \/ WorkerMessage(w) \/ WorkerEof(w) \/ WorkerFinally(w)
PeerStep ==
    \E w \in Workers : PeerConnect(w) \/ PeerSend(w) \/ PeerClose(w)

Next == RunStep \/ StopCall \/ StopStep \/ (\E w \in Workers : WorkerStep(w))
        \/ PeerStep \/ Terminated

\* The server thread, the thread inside stop() and every worker thread are
\* scheduled; peers and the decision to call stop() owe nothing.
Fairness ==
    /\ WF_vars(RunStep)
    /\ WF_vars(StopStep)
    /\ \A w \in Workers : WF_vars(WorkerStep(w))

Spec == Init /\ [][Next]_vars /\ Fairness

-----------------------------------------------------------------------------
\* Spec 4.4: on_disconnect fires exactly once per worker, only after its
\* on_connect, whether the worker ends by peer EOF, socket error or stop().
WorkerDisconnectOnce ==
    \A w \in Workers :
        /\ disc[w] <= 1
        /\ disc[w] = 1 => conns[w]
        /\ wpc[w] = "done" => disc[w] = 1

\* Spec 4.4: a stopped worker ends and notifies its handler even when its
\* peer neither sends nor closes: stop() shuts the socket down, waking the
\* blocked receive, whose loop checks the flag only on a message.
StoppedWorkerDisconnects ==
    \A w \in Workers : (wflag[w] /\ conns[w]) ~> (disc[w] = 1)

(***************************************************************************)
(* What the spec says of the code, checked in the violation runs.         *)
(***************************************************************************)

\* Spec 4.5: shutdown stops every tracked worker: once stop() has returned,
\* every worker ends although its peer keeps the connection open.
StopEndsWorkers ==
    spc = "done" ~> \A w \in Workers : wpc[w] \in {"idle", "rejected", "done"}

=============================================================================
