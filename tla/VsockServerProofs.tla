------------------------- MODULE VsockServerProofs -------------------------
(***************************************************************************)
(* Proofs about VsockServer, for any number of peers.                      *)
(***************************************************************************)
EXTENDS VsockServer, TLAPS

USE ServerAssumption

WPCs == {"idle", "rejected", "new", "connect", "loop", "finally", "done"}

\* The shape of the state the invariant below talks about.
ServerTypeOK ==
    /\ rpc \in {"check", "accept", "got", "track", "start", "exit"}
    /\ cur \in Workers \cup {None}
    /\ backlog \subseteq Workers
    /\ tracked \subseteq Workers
    /\ snap \subseteq tracked
    /\ wpc \in [Workers -> WPCs]
    /\ wsock \in [Workers -> {"none", "open", "shut"}]
    /\ conns \in [Workers -> BOOLEAN]
    /\ disc \in [Workers -> Nat]

(***************************************************************************)
(* Why each worker notifies once: a peer's slot stays idle until run()     *)
(* accepts its only connection, so no second worker is ever started for   *)
(* it; a worker reaches its loop only through on_connect; and the count of *)
(* on_disconnect calls is 1 exactly when the worker has left its finally.  *)
(***************************************************************************)
SlotDiscipline ==
    \A w \in Workers :
        /\ disc[w] \in {0, 1}
        /\ disc[w] = 1 <=> wpc[w] = "done"
        /\ wpc[w] \in {"loop", "finally", "done"} => conns[w]
        /\ wsock[w] = "none" => wpc[w] = "idle"
        /\ w \in backlog => wsock[w] = "none"
        /\ w \in tracked => wsock[w] # "none"

RunDiscipline ==
    /\ rpc = "got" =>
           cur \in Workers /\ wpc[cur] = "idle" /\ wsock[cur] # "none"
    /\ rpc \in {"track", "start"} =>
           cur \in Workers /\ wpc[cur] = "new" /\ wsock[cur] # "none"

SInv == ServerTypeOK /\ SlotDiscipline /\ RunDiscipline

USE DEF WPCs

LEMMA InitSInv == Init => SInv
BY DEF Init, SInv, ServerTypeOK, SlotDiscipline, RunDiscipline

\* WorkerStop changes only a worker's flag, socket and close count.
LEMMA WorkerStopFacts ==
    ASSUME NEW w \in Workers, ServerTypeOK, WorkerStop(w)
    PROVE  /\ wsock' \in [Workers -> {"none", "open", "shut"}]
           /\ \A v \in Workers :
                 wsock'[v] = wsock[v] \/ (v = w /\ wsock'[v] = "shut")
BY DEF WorkerStop, ServerTypeOK

LEMMA NextSInv == SInv /\ [Next]_vars => SInv'
<1> SUFFICES ASSUME SInv, [Next]_vars PROVE SInv'
    OBVIOUS
<1> USE DEF SInv, ServerTypeOK, SlotDiscipline, RunDiscipline,
           runVars, stopVars, workerVars
<1>1. CASE RunCheck
    BY <1>1 DEF RunCheck
<1>2. CASE Accept
    <2>1. CASE listen = "closed" /\ rpc' = "exit"
              /\ UNCHANGED <<cur, backlog, wsock>>
        BY <1>2, <2>1 DEF Accept
    <2>2. ASSUME NEW v \in backlog,
                 cur' = v, backlog' = backlog \ {v},
                 wsock' = [wsock EXCEPT ![v] = "open"], rpc' = "got"
          PROVE SInv'
        BY <1>2, <2>2 DEF Accept
    <2>3. QED
        BY <1>2, <2>1, <2>2 DEF Accept
<1>3. CASE Lookup
    <2>1. /\ cur \in Workers /\ wpc[cur] = "idle" /\ rpc = "got"
          /\ wsock[cur] # "none" /\ cur \notin backlog
        BY <1>3 DEF Lookup
    <2>2. CASE /\ wpc' = [wpc EXCEPT ![cur] = "rejected"]
               /\ wsock' = [wsock EXCEPT ![cur] = "shut"]
               /\ rpc' = "check" /\ cur' = None
        BY <1>3, <2>1, <2>2 DEF Lookup
    <2>3. CASE /\ wpc' = [wpc EXCEPT ![cur] = "new"]
               /\ rpc' = "track" /\ UNCHANGED <<cur, wsock>>
        BY <1>3, <2>1, <2>3 DEF Lookup
    <2>4. QED
        BY <1>3, <2>2, <2>3 DEF Lookup
<1>4. CASE Track
    BY <1>4 DEF Track
<1>5. CASE Start
    BY <1>5 DEF Start
<1>6. CASE StopCall
    BY <1>6 DEF StopCall
<1>7. CASE StopFlag
    BY <1>7 DEF StopFlag
<1>8. CASE Snapshot
    BY <1>8 DEF Snapshot
<1>9. CASE StopNext
    <2>1. UNCHANGED <<rpc, cur, backlog, tracked, wpc, conns, disc>>
        BY <1>9 DEF StopNext, runVars
    <2>2. CASE snap = {} /\ UNCHANGED <<snap, wsock>>
        BY <2>1, <2>2
    <2>3. ASSUME NEW v \in snap, WorkerStop(v), snap' = snap \ {v}
          PROVE  SInv'
        <3>1. v \in Workers
            BY <1>9, <2>3 DEF StopNext
        <3>2. /\ wsock' \in [Workers -> {"none", "open", "shut"}]
              /\ \A u \in Workers :
                    wsock'[u] = wsock[u] \/ (u = v /\ wsock'[u] = "shut")
            BY <2>3, <3>1, WorkerStopFacts
        <3>3. v \notin backlog
            BY <2>3, <3>1
        <3>4. QED
            BY <2>1, <2>3, <3>2, <3>3
    <2>4. QED
        BY <1>9, <2>2, <2>3 DEF StopNext
<1>10. CASE Join
    BY <1>10 DEF Join
<1>11. ASSUME NEW w \in Workers, WorkerConnect(w) PROVE SInv'
    BY <1>11 DEF WorkerConnect, runVars
<1>12. ASSUME NEW w \in Workers, WorkerMessage(w) PROVE SInv'
    BY <1>12 DEF WorkerMessage, runVars
<1>13. ASSUME NEW w \in Workers, WorkerEof(w) PROVE SInv'
    BY <1>13 DEF WorkerEof, runVars
<1>14. ASSUME NEW w \in Workers, WorkerFinally(w) PROVE SInv'
    BY <1>14 DEF WorkerFinally, runVars
<1>15. ASSUME NEW w \in Workers, PeerConnect(w) PROVE SInv'
    BY <1>15 DEF PeerConnect, workerVars
<1>16. ASSUME NEW w \in Workers, PeerSend(w) PROVE SInv'
    BY <1>16 DEF PeerSend, runVars
<1>17. ASSUME NEW w \in Workers, PeerClose(w) PROVE SInv'
    BY <1>17 DEF PeerClose, runVars
<1>18. CASE Terminated \/ UNCHANGED vars
    BY <1>18 DEF Terminated, vars
<1>19. QED
    BY <1>1, <1>2, <1>3, <1>4, <1>5, <1>6, <1>7, <1>8, <1>9, <1>10, <1>11,
       <1>12, <1>13, <1>14, <1>15, <1>16, <1>17, <1>18
       DEF Next, RunStep, StopStep, WorkerStep, PeerStep

\* Whatever the interleaving of run(), stop() and the workers, each worker
\* calls on_disconnect at most once, only after its on_connect, and exactly
\* once by the time its thread has ended.
THEOREM WorkerDisconnectOnceHolds == Spec => []WorkerDisconnectOnce
<1>1. SInv => WorkerDisconnectOnce
    <2> SUFFICES ASSUME SInv, NEW w \in Workers
                 PROVE  /\ disc[w] <= 1
                        /\ disc[w] = 1 => conns[w]
                        /\ wpc[w] = "done" => disc[w] = 1
        BY DEF WorkerDisconnectOnce
    <2>1. disc[w] \in {0, 1} /\ (disc[w] = 1 <=> wpc[w] = "done")
          /\ (wpc[w] = "done" => conns[w])
        BY DEF SInv, SlotDiscipline
    <2>2. QED
        BY <2>1
<1>2. QED
    BY <1>1, InitSInv, NextSInv, PTL DEF Spec

=============================================================================
