SPECIFICATION Spec
CONSTANTS
    Readers = {c1}
    Tasks = {t1, t2}
    None = None
    MaxAttempts = 2
    MaxReconnects = 2
    MaxRevision = 2
    MaxFaults = 2
INVARIANT OutboxInv
PROPERTIES ImplementsFeed ReadersCatchUp
CHECK_DEADLOCK FALSE
