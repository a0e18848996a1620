SPECIFICATION Spec
CONSTANTS
    Invoice = {i1}
    Payment = {p1}
    Touched = {i1}
    MaxAttempts = 2
    MaxStalls = 1
    Ipn = {e1}
    Said = {"waiting", "confirming", "confirmed", "finished", "failed", "expired"}
    Fault = {"outage", "queue", "commit", "credit", "cashout", "audit"}
    None = None
INVARIANTS
    TypeOK
PROPERTIES
    MoneyBacked
CHECK_DEADLOCK FALSE
