---------------------------- MODULE VsockClient ----------------------------
(***************************************************************************)
(* VsockClient (vsock_bridge/vsock.py), the guest's reconnecting client:   *)
(* one receive thread running run(), caller threads running send(), and a *)
(* caller of stop().  All of them obtain the connection through server(), *)
(* which creates and connects a socket under self.lock, and drop it       *)
(* through close_connection(), which closes whatever self.conn is at the  *)
(* time, under the same lock.  The peer (the host's VsockServer) may stop *)
(* listening and an established connection may break at any moment.       *)
(* Message contents are abstracted away: a socket is open or not.        *)
(***************************************************************************)
EXTENDS Naturals

CONSTANTS
    Senders,    \* threads calling send() (request_passthrough callers)
    Socks,      \* socket objects; a closed one nobody holds may be reused
    None

Recv == "recv"      \* the thread running VsockClient.run
Stopper == "stop"   \* the thread calling VsockClient.stop
Callers == {Recv} \cup Senders
Threads == Callers \cup {Stopper}

\* send() tries `for _ in range(5)`.
SendAttempts == 5

ASSUME ClientAssumption ==
    /\ None \notin Socks \cup Threads
    /\ Recv \notin Senders /\ Stopper \notin Senders

VARIABLES
    sock,       \* sock[k]: "closed", "created" (not yet connected), "open", "broken"
    conn,       \* self.conn
    lock,       \* holder of self.lock
    pc,         \* pc[t]: where thread t is
    held,       \* held[t]: the socket server() returned to t
    tries,      \* tries[s]: failed attempts of the current send()
    stopFlag,   \* self.stop_flag
    disc,       \* disc[k]: on_disconnect calls made for socket k
    peerUp      \* the host side is listening

vars == <<sock, conn, lock, pc, held, tries, stopFlag, disc, peerUp>>

PCs == {"loop", "acq", "connect", "recv", "close", "done",
        "idle", "write", "run"}

\* A closed socket object no thread refers to any more.
Free(k) ==
    /\ sock[k] = "closed"
    /\ conn # k
    /\ \A t \in Threads : held[t] # k

\* Where a caller goes once server() has returned a connection.
Using(t) == IF t = Recv THEN "recv" ELSE "write"

-----------------------------------------------------------------------------
(***************************************************************************)
(* server(): with self.lock, create and connect a socket if there is none *)
(* (retrying connect every second, the lock held), and return self.conn.  *)
(***************************************************************************)

\* Mutant: server() without `with self.lock`.
ServerEnterUnlocked(t) ==
    /\ pc[t] = "acq"
    /\ IF conn = None
         THEN \E k \in Socks :
                /\ Free(k)
                /\ conn' = k
                /\ sock' = [sock EXCEPT ![k] = "created"]
                /\ disc' = [disc EXCEPT ![k] = 0]
                /\ lock' = t
                /\ pc' = [pc EXCEPT ![t] = "connect"]
                /\ UNCHANGED held
         ELSE /\ held' = [held EXCEPT ![t] = conn]
              /\ pc' = [pc EXCEPT ![t] = Using(t)]
              /\ UNCHANGED <<sock, conn, disc, lock>>
    /\ UNCHANGED <<tries, stopFlag, peerUp>>

ServerEnter(t) ==
    /\ pc[t] = "acq" /\ lock = None
    /\ IF conn = None
         THEN \E k \in Socks :
                /\ Free(k)
                /\ conn' = k
                /\ sock' = [sock EXCEPT ![k] = "created"]
                /\ disc' = [disc EXCEPT ![k] = 0]
                /\ lock' = t
                /\ pc' = [pc EXCEPT ![t] = "connect"]
                /\ UNCHANGED held
         ELSE /\ held' = [held EXCEPT ![t] = conn]
              /\ pc' = [pc EXCEPT ![t] = Using(t)]
              /\ UNCHANGED <<sock, conn, disc, lock>>
    /\ UNCHANGED <<tries, stopFlag, peerUp>>

\* Mutant: the connect path leaves the lock acquired.
ConnectKeepsLock(t) ==
    /\ pc[t] = "connect" /\ peerUp
    /\ sock' = [sock EXCEPT ![conn] = "open"]
    /\ held' = [held EXCEPT ![t] = conn]
    /\ pc' = [pc EXCEPT ![t] = Using(t)]
    /\ UNCHANGED <<conn, lock, tries, stopFlag, disc, peerUp>>

\* self.conn.connect succeeds once the peer listens; until then the thread
\* sleeps and retries with the lock held.
Connect(t) ==
    /\ pc[t] = "connect" /\ peerUp
    /\ sock' = [sock EXCEPT ![conn] = "open"]
    /\ held' = [held EXCEPT ![t] = conn]
    /\ lock' = None
    /\ pc' = [pc EXCEPT ![t] = Using(t)]
    /\ UNCHANGED <<conn, tries, stopFlag, disc, peerUp>>

(***************************************************************************)
(* close_connection(): under self.lock, close self.conn, whichever socket *)
(* it is, set it to None and call on_disconnect.  One atomic step.         *)
(***************************************************************************)

\* Mutant: close_connection without its call of on_disconnect.
CloseConnectionSilent ==
    IF conn # None
      THEN /\ sock' = [sock EXCEPT ![conn] = "closed"]
           /\ conn' = None
           /\ UNCHANGED disc
      ELSE UNCHANGED <<sock, conn, disc>>

\* Mutant: self.conn is closed but not reset to None.
CloseConnectionNoReset ==
    IF conn # None
      THEN /\ sock' = [sock EXCEPT ![conn] = "closed"]
           /\ disc' = [disc EXCEPT ![conn] = @ + 1]
           /\ UNCHANGED conn
      ELSE UNCHANGED <<sock, conn, disc>>

CloseConnection ==
    IF conn # None
      THEN /\ sock' = [sock EXCEPT ![conn] = "closed"]
           /\ disc' = [disc EXCEPT ![conn] = @ + 1]
           /\ conn' = None
      ELSE UNCHANGED <<sock, conn, disc>>

-----------------------------------------------------------------------------
(***************************************************************************)
(* run(): while not stop_flag: receive on server() until the stream ends  *)
(* or raises OSError, then close_connection().                             *)
(***************************************************************************)
RecvLoop ==
    /\ pc[Recv] = "loop"
    /\ pc' = [pc EXCEPT ![Recv] = IF stopFlag THEN "done" ELSE "acq"]
    /\ UNCHANGED <<sock, conn, lock, held, tries, stopFlag, disc, peerUp>>

\* json_transport.receive ends or raises on a broken connection; a healthy
\* connection keeps the thread reading.
RecvEnd ==
    /\ pc[Recv] = "recv"
    /\ sock[held[Recv]] = "broken"
    /\ pc' = [pc EXCEPT ![Recv] = "close"]
    /\ held' = [held EXCEPT ![Recv] = None]
    /\ UNCHANGED <<sock, conn, lock, tries, stopFlag, disc, peerUp>>

\* A socket another thread closed does not wake a recv blocked on it (only
\* shutdown would): the read returns only when the peer sends or closes,
\* and the next read on the closed descriptor raises.
RecvWake ==
    /\ pc[Recv] = "recv"
    /\ sock[held[Recv]] = "closed"
    /\ pc' = [pc EXCEPT ![Recv] = "close"]
    /\ held' = [held EXCEPT ![Recv] = None]
    /\ UNCHANGED <<sock, conn, lock, tries, stopFlag, disc, peerUp>>

RecvClose ==
    /\ pc[Recv] = "close" /\ lock = None
    /\ CloseConnection
    /\ pc' = [pc EXCEPT ![Recv] = "loop"]
    /\ UNCHANGED <<lock, held, tries, stopFlag, peerUp>>

(***************************************************************************)
(* send(data): up to five times, json_transport.send on server(); after a *)
(* failure close_connection() and try again; False after the fifth.       *)
(***************************************************************************)
SendCall(s) ==
    /\ pc[s] = "idle"
    /\ pc' = [pc EXCEPT ![s] = "acq"]
    /\ tries' = [tries EXCEPT ![s] = 0]
    /\ UNCHANGED <<sock, conn, lock, held, stopFlag, disc, peerUp>>

Write(s) ==
    /\ pc[s] = "write"
    /\ pc' = [pc EXCEPT ![s] = IF sock[held[s]] = "open" THEN "idle" ELSE "close"]
    /\ held' = [held EXCEPT ![s] = None]
    /\ UNCHANGED <<sock, conn, lock, tries, stopFlag, disc, peerUp>>

\* Mutant: the attempt bound tested with <= (a sixth attempt).
SendCloseSixth(s) ==
    /\ pc[s] = "close" /\ lock = None
    /\ CloseConnection
    /\ tries' = [tries EXCEPT ![s] = @ + 1]
    /\ pc' = [pc EXCEPT ![s] = IF tries[s] + 1 <= SendAttempts THEN "acq" ELSE "idle"]
    /\ UNCHANGED <<lock, held, stopFlag, peerUp>>

SendClose(s) ==
    /\ pc[s] = "close" /\ lock = None
    /\ CloseConnection
    /\ tries' = [tries EXCEPT ![s] = @ + 1]
    /\ pc' = [pc EXCEPT ![s] = IF tries[s] + 1 < SendAttempts THEN "acq" ELSE "idle"]
    /\ UNCHANGED <<lock, held, stopFlag, peerUp>>

(***************************************************************************)
(* stop(): set stop_flag, sleep, close_connection() (errors swallowed).   *)
(***************************************************************************)
StopSignal ==
    /\ pc[Stopper] = "run"
    /\ stopFlag' = TRUE
    /\ pc' = [pc EXCEPT ![Stopper] = "close"]
    /\ UNCHANGED <<sock, conn, lock, held, tries, disc, peerUp>>

StopClose ==
    /\ pc[Stopper] = "close" /\ lock = None
    /\ CloseConnection
    /\ pc' = [pc EXCEPT ![Stopper] = "done"]
    /\ UNCHANGED <<lock, held, tries, stopFlag, peerUp>>

(***************************************************************************)
(* The peer: the host's server starts or stops listening; an established  *)
(* connection breaks (host restart, VM pause).                           *)
(***************************************************************************)
PeerToggle ==
    /\ peerUp' = ~peerUp
    /\ UNCHANGED <<sock, conn, lock, pc, held, tries, stopFlag, disc>>

LinkBreak(k) ==
    /\ sock[k] = "open"
    /\ sock' = [sock EXCEPT ![k] = "broken"]
    /\ UNCHANGED <<conn, lock, pc, held, tries, stopFlag, disc, peerUp>>

-----------------------------------------------------------------------------
Init ==
    /\ sock = [k \in Socks |-> "closed"]
    /\ conn = None /\ lock = None
    /\ pc = [t \in Threads |-> CASE t = Recv -> "loop"
                                 [] t = Stopper -> "run"
                                 [] OTHER -> "idle"]
    /\ held = [t \in Threads |-> None]
    /\ tries = [s \in Senders |-> 0]
    /\ stopFlag = FALSE
    /\ disc = [k \in Socks |-> 0]
    /\ peerUp \in BOOLEAN

RecvStep == RecvLoop \/ RecvEnd \/ RecvClose \/ ServerEnter(Recv) \/ Connect(Recv)
SendStep(s) == SendCall(s) \/ ServerEnter(s) \/ Connect(s) \/ Write(s) \/ SendClose(s)
StopStep == StopSignal \/ StopClose
PeerStep == PeerToggle \/ RecvWake \/ \E k \in Socks : LinkBreak(k)

\* What a thread does once it is running; calling send() and stop() are
\* the owner's decisions.
SendBody(s) == ServerEnter(s) \/ Connect(s) \/ Write(s) \/ SendClose(s)

Next == RecvStep \/ (\E s \in Senders : SendStep(s)) \/ StopStep \/ PeerStep

\* Every thread inside the client's code is scheduled whenever it can run;
\* the peer owes nothing, and neither does the owner, who may never call
\* send() or stop().
Fairness ==
    /\ WF_vars(RecvStep)
    /\ \A s \in Senders : WF_vars(SendBody(s))
    /\ WF_vars(StopClose)

Spec == Init /\ [][Next]_vars /\ Fairness

-----------------------------------------------------------------------------
TypeOK ==
    /\ sock \in [Socks -> {"closed", "created", "open", "broken"}]
    /\ conn \in Socks \cup {None}
    /\ lock \in Threads \cup {None}
    /\ pc \in [Threads -> PCs]
    /\ held \in [Threads -> Socks \cup {None}]
    /\ tries \in [Senders -> 0..SendAttempts]
    /\ stopFlag \in BOOLEAN
    /\ disc \in [Socks -> Nat]
    /\ peerUp \in BOOLEAN

\* Every socket a caller got from server() had been connected: the lock
\* keeps the others from seeing self.conn between socket() and connect().
ConnectedBeforeUse ==
    \A t \in Callers : held[t] # None => sock[held[t]] # "created"

\* Spec 4.6: at most one on_disconnect per connection instance, although
\* the receive thread, the senders and stop() all call close_connection.
DisconnectOnce == \A k \in Socks : disc[k] <= 1

\* The peer eventually listens for good and connections stop breaking.
Stable ==
    /\ <>[]peerUp
    /\ <>[][\A k \in Socks : ~LinkBreak(k)]_vars

\* Spec 4.6: a send() returns, given a peer that becomes reachable: the
\* reconnects under the lock, the other threads' close_connection calls and
\* the five attempts never leave a sender waiting for ever.
SendCompletes ==
    Stable => \A s \in Senders : (pc[s] # "idle") ~> (pc[s] = "idle")

(***************************************************************************)
(* The client seen as the logical connection of spec 4.6: self.conn once  *)
(* connect() succeeded is the live connection, and a socket object whose  *)
(* on_disconnect has been called is a reported instance.                   *)
(***************************************************************************)
LiveConn == IF conn # None /\ sock[conn] # "created" THEN conn ELSE None
Reported == {k \in Socks : disc[k] # 0}

Lnk == INSTANCE LogicalConnection WITH live <- LiveConn, reported <- Reported

\* Spec 4.6: whatever the receive thread, the senders and stop() do, the
\* client holds one logical connection at a time, establishes a new one
\* only after the previous one was closed, and reports on_disconnect
\* exactly once for each connection it closes.
LinkRefinement == Lnk!Spec

(***************************************************************************)
(* What the spec says of the code, checked in the violation runs.         *)
(***************************************************************************)

\* Spec 4.6: a failing thread closes "the current (presumed-dead)
\* connection": until stop() has been called, no connection that still
\* works is closed.
HealthyConnectionKept ==
    [][\A k \in Socks :
         (sock[k] = "open" /\ sock'[k] = "closed") => stopFlag]_vars

\* Spec 4.6: stop() signals the receive loop to exit; with a peer that
\* stays reachable the loop does exit once stop() has returned.
StopEndsReceiver == Stable => (pc[Stopper] = "done" ~> pc[Recv] = "done")

=============================================================================
