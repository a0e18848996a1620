SPECIFICATION Spec
CONSTANTS
    Withdrawal = {w1}
    MaxAttempts = 1
    MaxStalls = 0
    Retry = {t1, t2}
    Poll = {}
    MaxRetries = 3
    Delivery = {}
    Outcome = {"accepted", "refused"}
    None = None
PROPERTIES
    ClaimsIdlePayout
CHECK_DEADLOCK FALSE
