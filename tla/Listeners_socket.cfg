SPECIFICATION Spec
CONSTANTS
    Conns = {c1, c2}
    Sessions = {s1}
    Kinds = {"streamlocal"}
    Addrs = {"any"}
    Ports = {1}
    Paths = {p1}
    Gateway = "no"
    LocalOnly = FALSE
    Unlink = FALSE
    Single = FALSE
    Cap = 2
    MaxListeners = 2
    MayCancel = TRUE
    MayLeave = FALSE
    None = None
CHECK_DEADLOCK FALSE
INVARIANT
    OnlyOurSocket
