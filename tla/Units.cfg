SPECIFICATION MCSpec
CONSTANTS
    W = 5
    Pow2 <- MCPow2
    Bits = 2
    CountMod = 16
    BAUD_DIV_RST = 7
    Divisors = {1, 2, 11, 12}
    ABits = 1
    DBits = 1
    IrBits = 2
INVARIANTS TypeOK DivLoop NothingMissed
PROPERTIES ImplementsUnit Answered Delivered ImplementsDmiPort
