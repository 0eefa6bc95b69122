SPECIFICATION Spec
CONSTANT MaxRequests = 3
INVARIANTS TypeOK WholeFiles AcknowledgedKept
PROPERTY ImplementsStore
