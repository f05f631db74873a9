------------------------- MODULE LogicalConnection -------------------------
(***************************************************************************)
(* What the reconnecting client promises (spec 4.6): it maintains exactly *)
(* one logical outbound connection at a time; a connection ends by being  *)
(* closed, which reports on-disconnect exactly once for that connection    *)
(* instance, and only then can another one be established.  A socket      *)
(* object may be reused for a later instance, which starts unreported.    *)
(***************************************************************************)
CONSTANTS
    Socks,      \* socket objects
    None        \* no connection

VARIABLES
    live,       \* the established logical connection, or None
    reported    \* the socket objects whose current instance has ended

Init ==
    /\ live = None
    /\ reported = {}

\* A socket object is taken for a new connection instance.
Reserve(k) ==
    /\ k # live
    /\ reported' = reported \ {k}
    /\ UNCHANGED live

\* With no live connection, a fresh instance is established.
Establish(k) ==
    /\ live = None /\ k \notin reported
    /\ live' = k
    /\ UNCHANGED reported

\* The live connection is closed and its on-disconnect reported.
Drop ==
    /\ live # None /\ live \notin reported
    /\ reported' = reported \cup {live}
    /\ live' = None

Next ==
    \/ \E k \in Socks : Reserve(k) \/ Establish(k)
    \/ Drop

Spec == Init /\ [][Next]_<<live, reported>>

=============================================================================
