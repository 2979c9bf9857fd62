CONSTANTS
    NUM_ITEMS = 3
    QUEUE_LEN = 2
    DELAY = 2
    MAX_REPORTS = 2
    LineCalls = 2
SPECIFICATION Spec
INVARIANTS TypeOK Accounts LinesIntact TickIsLoadBearing
PROPERTIES ImplementsChannel Outcome
