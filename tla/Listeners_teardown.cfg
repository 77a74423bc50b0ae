SPECIFICATION Spec
CONSTANTS
    Conns = {c1}
    Sessions = {s1}
    Kinds = {"agent"}
    Addrs = {"any"}
    Ports = {1}
    Paths = {p1}
    Gateway = "clientspecified"
    LocalOnly = FALSE
    Unlink = FALSE
    Single = TRUE
    Cap = 2
    MaxListeners = 2
    MayCancel = FALSE
    MayLeave = TRUE
    None = None
CHECK_DEADLOCK FALSE
INVARIANT
    JoinEnds
