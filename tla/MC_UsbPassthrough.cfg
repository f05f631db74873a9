CONSTANTS
    d1 = d1
    d2 = d2
    v1 = v1
    v2 = v2
    c1 = c1
    c2 = c2
    None = None
    Devices = {d1, d2}
    VMs = {v1, v2}
    Conns = {c1, c2}
    Permitted <- MCPermitted
    MaxChan = 2
SPECIFICATION Spec
INVARIANT TypeOK
PROPERTY RegistryRefinement
