------------------------- MODULE VsockClientProofs -------------------------
(***************************************************************************)
(* Proofs about VsockClient, for any number of sender threads and sockets.*)
(***************************************************************************)
EXTENDS VsockClient, TLAPS

USE ClientAssumption

(***************************************************************************)
(* The lock discipline of server() and close_connection(), made explicit: *)
(* a socket is "created" (allocated, not yet connected) only as self.conn *)
(* and only while the thread connecting it holds the lock; the lock is     *)
(* held only by a thread inside that connect loop; and self.conn is always *)
(* a connection no on_disconnect has been reported for yet.                *)
(***************************************************************************)
CreatedLocked ==
    \A k \in Socks : sock[k] = "created" => k = conn /\ lock # None

ConnectHoldsLock ==
    \A t \in Callers :
        pc[t] = "connect" => lock = t /\ conn # None /\ sock[conn] = "created"

LockOnlyConnecting ==
    lock # None => lock \in Callers /\ pc[lock] = "connect"

FreshConn == conn # None => disc[conn] = 0

TriesBelow ==
    \A s \in Senders :
        pc[s] \in {"acq", "connect", "write", "close"} => tries[s] < SendAttempts

IInv ==
    /\ TypeOK /\ CreatedLocked /\ ConnectHoldsLock /\ LockOnlyConnecting
    /\ FreshConn /\ TriesBelow /\ ConnectedBeforeUse /\ DisconnectOnce

LEMMA InitIInv == Init => IInv
<1> SUFFICES ASSUME Init PROVE IInv
    OBVIOUS
<1> USE DEF Threads, Callers, Recv, Stopper
<1>1. /\ sock = [k \in Socks |-> "closed"]
      /\ conn = None /\ lock = None
      /\ held = [t \in Threads |-> None]
      /\ tries = [s \in Senders |-> 0]
      /\ stopFlag = FALSE
      /\ disc = [k \in Socks |-> 0]
      /\ peerUp \in BOOLEAN
    BY DEF Init
<1>2. \A t \in Threads : pc[t] \in {"loop", "run", "idle"}
    BY DEF Init
<1>3. pc \in [Threads -> PCs]
    <2>1. DOMAIN pc = Threads
        BY DEF Init
    <2>2. QED
        BY <1>2, <2>1 DEF PCs, Init
<1>4. TypeOK
    <2>1. sock \in [Socks -> {"closed", "created", "open", "broken"}]
        BY <1>1
    <2>2. held \in [Threads -> Socks \cup {None}]
        BY <1>1
    <2>3. tries \in [Senders -> 0..SendAttempts]
        BY <1>1 DEF SendAttempts
    <2>4. disc \in [Socks -> Nat]
        BY <1>1
    <2>5. QED
        BY <1>1, <1>3, <2>1, <2>2, <2>3, <2>4 DEF TypeOK
<1>5. CreatedLocked /\ LockOnlyConnecting /\ FreshConn /\ DisconnectOnce
    BY <1>1 DEF CreatedLocked, LockOnlyConnecting, FreshConn, DisconnectOnce
<1>6. ConnectHoldsLock /\ TriesBelow
    BY <1>2 DEF ConnectHoldsLock, TriesBelow
<1>7. ConnectedBeforeUse
    BY <1>1 DEF ConnectedBeforeUse
<1>8. QED
    BY <1>4, <1>5, <1>6, <1>7 DEF IInv

\* close_connection with the lock free: nothing is left half-connected and
\* the closed connection has been reported exactly once.
LEMMA CloseConnectionFacts ==
    ASSUME TypeOK, CreatedLocked, FreshConn, DisconnectOnce, lock = None,
           CloseConnection
    PROVE  /\ conn' = None
           /\ sock' \in [Socks -> {"closed", "created", "open", "broken"}]
           /\ disc' \in [Socks -> Nat]
           /\ \A k \in Socks : sock'[k] # "created" /\ disc'[k] <= 1
<1>1. CASE conn # None
    BY <1>1 DEF CloseConnection, TypeOK, CreatedLocked, FreshConn,
       DisconnectOnce
<1>2. CASE conn = None
    BY <1>2 DEF CloseConnection, TypeOK, CreatedLocked, DisconnectOnce
<1>3. QED
    BY <1>1, <1>2

\* With the lock free no caller is inside the connect loop.
LEMMA NoneConnecting ==
    ASSUME LockOnlyConnecting, ConnectHoldsLock, lock = None
    PROVE  \A t \in Callers : pc[t] # "connect"
BY DEF ConnectHoldsLock, Callers, Threads

LEMMA NextIInv == IInv /\ [Next]_vars => IInv'
<1> SUFFICES ASSUME IInv, [Next]_vars PROVE IInv'
    OBVIOUS
<1> USE DEF IInv, TypeOK, Threads, Callers, Recv, Stopper, PCs
<1>1. ASSUME NEW t \in Callers, ServerEnter(t) PROVE IInv'
    <2>1. CASE conn = None
        <3>1. PICK k \in Socks :
                /\ Free(k)
                /\ conn' = k
                /\ sock' = [sock EXCEPT ![k] = "created"]
                /\ disc' = [disc EXCEPT ![k] = 0]
                /\ lock' = t
                /\ pc' = [pc EXCEPT ![t] = "connect"]
                /\ UNCHANGED held
            BY <1>1, <2>1 DEF ServerEnter
        <3>2. UNCHANGED <<tries, stopFlag, peerUp>> /\ pc[t] = "acq"
              /\ lock = None
            BY <1>1 DEF ServerEnter
        <3>3. \A j \in Socks : sock[j] # "created"
            BY <2>1 DEF CreatedLocked
        <3>4. \A c \in Callers : pc[c] # "connect"
            BY <3>2, NoneConnecting
        <3>5. QED
            BY <3>1, <3>2, <3>3, <3>4 DEF Free, CreatedLocked,
               ConnectHoldsLock, LockOnlyConnecting, FreshConn, TriesBelow,
               ConnectedBeforeUse, DisconnectOnce
    <2>2. CASE conn # None
        <3>1. /\ held' = [held EXCEPT ![t] = conn]
              /\ pc' = [pc EXCEPT ![t] = Using(t)]
              /\ UNCHANGED <<sock, conn, disc, lock, tries, stopFlag, peerUp>>
              /\ pc[t] = "acq" /\ lock = None
            BY <1>1, <2>2 DEF ServerEnter
        <3>2. sock[conn] # "created"
            BY <2>2, <3>1 DEF CreatedLocked
        <3>3. Using(t) \in {"recv", "write"}
            BY DEF Using
        <3>4. \A c \in Callers : pc[c] # "connect"
            BY <3>1, NoneConnecting
        <3>5. QED
            BY <2>2, <3>1, <3>2, <3>3, <3>4 DEF CreatedLocked, ConnectHoldsLock,
               LockOnlyConnecting, FreshConn, TriesBelow, ConnectedBeforeUse,
               DisconnectOnce
    <2>3. QED
        BY <2>1, <2>2
<1>2. ASSUME NEW t \in Callers, Connect(t) PROVE IInv'
    <2>1. lock = t /\ conn # None /\ sock[conn] = "created"
        BY <1>2 DEF Connect, ConnectHoldsLock
    <2>2. \A c \in Callers : c # t => pc[c] # "connect"
        BY <2>1 DEF ConnectHoldsLock
    <2>3. Using(t) \in {"recv", "write"}
        BY DEF Using
    <2>4. QED
        BY <1>2, <2>1, <2>2, <2>3 DEF Connect, CreatedLocked,
           ConnectHoldsLock, LockOnlyConnecting, FreshConn, TriesBelow,
           ConnectedBeforeUse, DisconnectOnce
<1>3. CASE RecvLoop
    BY <1>3 DEF RecvLoop, CreatedLocked, ConnectHoldsLock,
       LockOnlyConnecting, FreshConn, TriesBelow, ConnectedBeforeUse,
       DisconnectOnce
<1>4. CASE RecvEnd \/ RecvWake
    <2>1. /\ pc[Recv] = "recv"
          /\ pc' = [pc EXCEPT ![Recv] = "close"]
          /\ held' = [held EXCEPT ![Recv] = None]
          /\ UNCHANGED <<sock, conn, lock, tries, stopFlag, disc, peerUp>>
        BY <1>4 DEF RecvEnd, RecvWake
    <2>2. QED
        BY <2>1 DEF CreatedLocked, ConnectHoldsLock, LockOnlyConnecting,
           FreshConn, TriesBelow, ConnectedBeforeUse, DisconnectOnce
<1>5. CASE RecvClose
    <2>1. lock = None /\ CloseConnection
          /\ pc' = [pc EXCEPT ![Recv] = "loop"]
          /\ UNCHANGED <<lock, held, tries, stopFlag, peerUp>>
        BY <1>5 DEF RecvClose
    <2>2. /\ conn' = None
          /\ sock' \in [Socks -> {"closed", "created", "open", "broken"}]
          /\ disc' \in [Socks -> Nat]
          /\ \A k \in Socks : sock'[k] # "created" /\ disc'[k] <= 1
        BY <2>1, CloseConnectionFacts
    <2>3. \A c \in Callers : pc[c] # "connect"
        BY <2>1, NoneConnecting
    <2>4. QED
        BY <2>1, <2>2, <2>3 DEF CreatedLocked, ConnectHoldsLock,
           LockOnlyConnecting, FreshConn, TriesBelow, ConnectedBeforeUse,
           DisconnectOnce
<1>6. ASSUME NEW s \in Senders, SendCall(s) PROVE IInv'
    BY <1>6 DEF SendCall, CreatedLocked, ConnectHoldsLock,
       LockOnlyConnecting, FreshConn, TriesBelow, ConnectedBeforeUse,
       DisconnectOnce, SendAttempts
<1>7. ASSUME NEW s \in Senders, Write(s) PROVE IInv'
    BY <1>7 DEF Write, CreatedLocked, ConnectHoldsLock,
       LockOnlyConnecting, FreshConn, TriesBelow, ConnectedBeforeUse,
       DisconnectOnce
<1>8. ASSUME NEW s \in Senders, SendClose(s) PROVE IInv'
    <2>1. /\ lock = None /\ CloseConnection /\ pc[s] = "close"
          /\ tries' = [tries EXCEPT ![s] = @ + 1]
          /\ pc' = [pc EXCEPT ![s] = IF tries[s] + 1 < SendAttempts
                                        THEN "acq" ELSE "idle"]
          /\ UNCHANGED <<lock, held, stopFlag, peerUp>>
        BY <1>8 DEF SendClose
    <2>2. /\ conn' = None
          /\ sock' \in [Socks -> {"closed", "created", "open", "broken"}]
          /\ disc' \in [Socks -> Nat]
          /\ \A k \in Socks : sock'[k] # "created" /\ disc'[k] <= 1
        BY <2>1, CloseConnectionFacts
    <2>3. \A c \in Callers : pc[c] # "connect"
        BY <2>1, NoneConnecting
    <2>4. tries[s] < SendAttempts
        BY <2>1 DEF TriesBelow
    <2>5. QED
        BY <2>1, <2>2, <2>3, <2>4 DEF CreatedLocked, ConnectHoldsLock,
           LockOnlyConnecting, FreshConn, TriesBelow, ConnectedBeforeUse,
           DisconnectOnce, SendAttempts
<1>9. CASE StopSignal
    BY <1>9 DEF StopSignal, CreatedLocked, ConnectHoldsLock,
       LockOnlyConnecting, FreshConn, TriesBelow, ConnectedBeforeUse,
       DisconnectOnce
<1>10. CASE StopClose
    <2>1. lock = None /\ CloseConnection
          /\ pc' = [pc EXCEPT ![Stopper] = "done"]
          /\ UNCHANGED <<lock, held, tries, stopFlag, peerUp>>
        BY <1>10 DEF StopClose
    <2>2. /\ conn' = None
          /\ sock' \in [Socks -> {"closed", "created", "open", "broken"}]
          /\ disc' \in [Socks -> Nat]
          /\ \A k \in Socks : sock'[k] # "created" /\ disc'[k] <= 1
        BY <2>1, CloseConnectionFacts
    <2>3. \A c \in Callers : pc[c] # "connect"
        BY <2>1, NoneConnecting
    <2>4. QED
        BY <2>1, <2>2, <2>3 DEF CreatedLocked, ConnectHoldsLock,
           LockOnlyConnecting, FreshConn, TriesBelow, ConnectedBeforeUse,
           DisconnectOnce
<1>11. CASE PeerToggle
    BY <1>11 DEF PeerToggle, CreatedLocked, ConnectHoldsLock,
       LockOnlyConnecting, FreshConn, TriesBelow, ConnectedBeforeUse,
       DisconnectOnce
<1>12. ASSUME NEW k \in Socks, LinkBreak(k) PROVE IInv'
    BY <1>12 DEF LinkBreak, CreatedLocked, ConnectHoldsLock,
       LockOnlyConnecting, FreshConn, TriesBelow, ConnectedBeforeUse,
       DisconnectOnce
<1>13. CASE UNCHANGED vars
    BY <1>13 DEF vars, CreatedLocked, ConnectHoldsLock, LockOnlyConnecting,
       FreshConn, TriesBelow, ConnectedBeforeUse, DisconnectOnce
<1>14. QED
    BY <1>1, <1>2, <1>3, <1>4, <1>5, <1>6, <1>7, <1>8, <1>9, <1>10, <1>11,
       <1>12, <1>13
       DEF Next, RecvStep, SendStep, StopStep, PeerStep

LEMMA ClientInvariant == Spec => []IInv
BY InitIInv, NextIInv, PTL DEF Spec

\* Whatever the interleaving of the receive thread, any number of senders
\* and stop(), a caller only ever uses a socket that server() has connected:
\* the lock hides self.conn between socket() and connect().
THEOREM ConnectedBeforeUseHolds == Spec => []ConnectedBeforeUse
BY ClientInvariant, PTL DEF IInv

\* on_disconnect is reported at most once per connection, although the
\* receive thread, every sender and stop() all call close_connection().
THEOREM DisconnectOnceHolds == Spec => []DisconnectOnce
BY ClientInvariant, PTL DEF IInv

\* The client's state stays well typed; in particular a send() never counts
\* more than its five attempts.
THEOREM ClientTypeCorrect == Spec => []TypeOK
BY ClientInvariant, PTL DEF IInv


(***************************************************************************)
(* Refinement of the logical connection of spec 4.6.  server() allocating *)
(* a socket is Reserve, a successful connect() is Establish, and           *)
(* close_connection() of a connected socket is Drop; every other step     *)
(* leaves the live connection and the reported set alone.  Establish needs *)
(* FreshConn (self.conn has not been reported), Drop needs CreatedLocked   *)
(* (with the lock free, self.conn is connected, so it is the live one).    *)
(***************************************************************************)
LinkVars == <<LiveConn, Reported>>

LEMMA InitRefinesLink == Init => Lnk!Init
BY DEF Init, Lnk!Init, LiveConn, Reported

\* A step that changes no socket, self.conn or on_disconnect count is a
\* stutter of the logical connection.
LEMMA LinkStutter ==
    ASSUME UNCHANGED <<sock, conn, disc>>
    PROVE  UNCHANGED LinkVars
BY DEF LinkVars, LiveConn, Reported

\* close_connection() with the lock free drops the live connection, or
\* changes nothing when there is none.
LEMMA CloseRefinesLink ==
    ASSUME TypeOK, CreatedLocked, FreshConn, lock = None, CloseConnection
    PROVE  [Lnk!Next]_LinkVars
<1>1. CASE conn # None
    <2>1. /\ sock' = [sock EXCEPT ![conn] = "closed"]
          /\ disc' = [disc EXCEPT ![conn] = @ + 1]
          /\ conn' = None
        BY <1>1 DEF CloseConnection
    <2>2. conn \in Socks /\ sock[conn] # "created" /\ disc[conn] = 0
        BY <1>1 DEF TypeOK, CreatedLocked, FreshConn
    <2>3. LiveConn = conn /\ LiveConn' = None
        BY <1>1, <2>1, <2>2 DEF LiveConn
    <2>4. conn \notin Reported /\ Reported' = Reported \cup {conn}
        BY <2>1, <2>2 DEF Reported, TypeOK
    <2>5. Lnk!Drop
        BY <1>1, <2>3, <2>4 DEF Lnk!Drop
    <2>6. QED
        BY <2>5 DEF Lnk!Next
<1>2. CASE conn = None
    BY <1>2, LinkStutter DEF CloseConnection
<1>3. QED
    BY <1>1, <1>2

LEMMA NextRefinesLink == IInv /\ [Next]_vars => [Lnk!Next]_LinkVars
<1> SUFFICES ASSUME IInv, [Next]_vars PROVE [Lnk!Next]_LinkVars
    OBVIOUS
<1> USE DEF IInv
<1>1. ASSUME NEW t \in Callers, ServerEnter(t) PROVE [Lnk!Next]_LinkVars
    <2>1. CASE conn = None
        <3>1. PICK k \in Socks :
                /\ conn' = k
                /\ sock' = [sock EXCEPT ![k] = "created"]
                /\ disc' = [disc EXCEPT ![k] = 0]
            BY <1>1, <2>1 DEF ServerEnter
        <3>2. LiveConn = None /\ LiveConn' = None
            BY <2>1, <3>1 DEF LiveConn, TypeOK
        <3>3. Reported' = Reported \ {k}
            BY <3>1 DEF Reported, TypeOK
        <3>4. Lnk!Reserve(k)
            BY <3>2, <3>3 DEF Lnk!Reserve
        <3>5. QED
            BY <3>4 DEF Lnk!Next
    <2>2. CASE conn # None
        BY <1>1, <2>2, LinkStutter DEF ServerEnter
    <2>3. QED
        BY <2>1, <2>2
<1>2. ASSUME NEW t \in Callers, Connect(t) PROVE [Lnk!Next]_LinkVars
    <2>1. /\ conn # None /\ sock[conn] = "created" /\ conn \in Socks
          /\ disc[conn] = 0
        BY <1>2 DEF Connect, ConnectHoldsLock, FreshConn, TypeOK
    <2>2. sock' = [sock EXCEPT ![conn] = "open"] /\ UNCHANGED <<conn, disc>>
        BY <1>2 DEF Connect
    <2>3. LiveConn = None /\ LiveConn' = conn
        BY <2>1, <2>2 DEF LiveConn, TypeOK
    <2>4. UNCHANGED Reported /\ conn \notin Reported
        BY <2>1, <2>2 DEF Reported
    <2>5. Lnk!Establish(conn)
        BY <2>3, <2>4 DEF Lnk!Establish
    <2>6. QED
        BY <2>1, <2>5 DEF Lnk!Next
<1>3. CASE RecvClose
    BY <1>3, CloseRefinesLink DEF RecvClose
<1>4. ASSUME NEW s \in Senders, SendClose(s) PROVE [Lnk!Next]_LinkVars
    BY <1>4, CloseRefinesLink DEF SendClose
<1>5. CASE StopClose
    BY <1>5, CloseRefinesLink DEF StopClose
<1>6. ASSUME NEW k \in Socks, LinkBreak(k) PROVE [Lnk!Next]_LinkVars
    <2>1. sock[k] = "open" /\ sock' = [sock EXCEPT ![k] = "broken"]
          /\ UNCHANGED <<conn, disc>>
        BY <1>6 DEF LinkBreak
    <2>2. UNCHANGED LinkVars
        BY <2>1 DEF LinkVars, LiveConn, Reported, TypeOK
    <2>3. QED
        BY <2>2
<1>7. CASE RecvLoop \/ RecvEnd \/ RecvWake \/ StopSignal \/ PeerToggle
    BY <1>7, LinkStutter DEF RecvLoop, RecvEnd, RecvWake, StopSignal,
       PeerToggle
<1>8. ASSUME NEW s \in Senders, SendCall(s) \/ Write(s)
      PROVE [Lnk!Next]_LinkVars
    BY <1>8, LinkStutter DEF SendCall, Write
<1>9. CASE UNCHANGED vars
    BY <1>9, LinkStutter DEF vars
<1>10. QED
    BY <1>1, <1>2, <1>3, <1>4, <1>5, <1>6, <1>7, <1>8, <1>9
       DEF Next, RecvStep, SendStep, StopStep, PeerStep, Callers, Threads

\* Spec 4.6 for any number of senders and sockets: the client keeps one
\* logical connection at a time and reports on_disconnect exactly once for
\* each connection it closes, whichever thread closes it.
THEOREM ClientRefinesLink == Spec => LinkRefinement
<1>1. Spec => []IInv
    BY ClientInvariant
<1>2. QED
    BY <1>1, InitRefinesLink, NextRefinesLink, PTL
       DEF Spec, LinkRefinement, Lnk!Spec, LinkVars


=============================================================================
