SPECIFICATION TidySpec
CONSTANTS
    None = None
    c1 = c1
    c2 = c2
    Process = {c1, c2}
    MaxSequence = 2
    Frozen = {2}
    Views = {"provider", "custody"}
    MaxFaults = 2
    MaxTorn = 1
    MaxOpenFaults = 1
INVARIANTS OneEnvelope LedgerOK
PROPERTIES LiveHonoured Settles
CHECK_DEADLOCK FALSE
