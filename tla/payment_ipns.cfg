SPECIFICATION Spec
CONSTANTS
    Invoice = {i1, i2}
    Payment = {p1}
    Touched = {}
    MaxAttempts = 2
    MaxStalls = 1
    Ipn = {e1, e2}
    Said = {"confirming", "confirmed", "expired"}
    Fault = {"outage", "queue", "commit", "credit", "cashout", "audit"}
    None = None
SYMMETRY Ipns
INVARIANTS
    PaidOutOnce
PROPERTIES
    PaidIsBacked
CHECK_DEADLOCK FALSE
