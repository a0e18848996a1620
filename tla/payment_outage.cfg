SPECIFICATION Spec
CONSTANTS
    Invoice = {i1}
    Payment = {p1}
    Touched = {i1}
    Said = {"confirming", "confirmed", "expired"}
    MaxAttempts = 1
    MaxStalls = 0
    Ipn = {e1}
    Fault = {"outage"}
    None = None
PROPERTY
    SettledIsHeld
CHECK_DEADLOCK FALSE
