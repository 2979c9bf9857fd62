CONSTANTS
    Addr = {a0, a1}
    Lanes = {l0, l1}
    Byte = {b0, b1}
    OKAY = OKAY
    SLVERR = SLVERR
    NoReq = NoReq
    NoRsp = NoRsp
    Addr0 = a0
    Byte0 = b0
SPECIFICATION FairSpec
INVARIANTS TypeOK OneOutstanding
PROPERTIES ValidStable ImplementsMemPort Answered
CHECK_DEADLOCK TRUE
