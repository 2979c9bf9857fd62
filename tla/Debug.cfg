SPECIFICATION Spec
CONSTANTS
    MaxData = 1
    Regs = {x1}
    HostWaits = TRUE
INVARIANTS TypeOK PendingServed OneCommand
PROPERTIES CommandEffect BusEffect
