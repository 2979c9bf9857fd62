SPECIFICATION Spec
CONSTANTS
    MaxData = 0
    Regs = {x1}
    HostWaits = FALSE
INVARIANT PendingServed
