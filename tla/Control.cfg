\* A workspace is woken and revoked while the device reconnects.
SPECIFICATION Spec
CONSTANTS
    Revs = {v1}
    Acts = {a1}
    Conns = {c1, c2}
    MaxFaults = 1
    None = None
    v1 = v1
    v2 = v2
    a1 = a1
    c1 = c1
    c2 = c2
SYMMETRY AnyConn
INVARIANTS RevokedGone AnswerReaches NoLostWakeup
CHECK_DEADLOCK FALSE
