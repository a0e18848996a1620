SPECIFICATION Spec
CONSTANTS
    Invoice = {i1}
    Payment = {p1}
    Touched = {i1}
    Said = {"confirming", "confirmed", "expired"}
    MaxAttempts = 1
    MaxStalls = 0
    Ipn = {e1}
    Fault = {}
    None = None
PROPERTY
    PaidStaysPaid
CHECK_DEADLOCK FALSE
