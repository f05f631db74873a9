CONSTANTS
    s1 = s1
    k1 = k1
    k2 = k2
    k3 = k3
    None = None
    Senders = {s1}
    Socks = {k1, k2, k3}
SPECIFICATION Spec
INVARIANT TypeOK
INVARIANT ConnectedBeforeUse
INVARIANT DisconnectOnce
PROPERTY SendCompletes
PROPERTY LinkRefinement
