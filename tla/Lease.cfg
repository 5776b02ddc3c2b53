\* A device reconnects, to its replica or to the other one.
SPECIFICATION TwoConnectionsSpec
CONSTANTS
    g1 = g1  g2 = g2  k1 = k1  c1 = c1  c2 = c2  c3 = c3
    Gateways = {g1, g2}
    Keys = {k1}
    Conns = {c1, c2, c3}
    None = None
    KeyOf <- OneKey
    HomeOf <- TwoAndOne
INVARIANT OneSocketKept
PROPERTY LeaseReturns
CHECK_DEADLOCK FALSE
