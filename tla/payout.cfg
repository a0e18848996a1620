SPECIFICATION Spec
CONSTANTS
    Withdrawal = {w1}
    MaxAttempts = 1
    MaxStalls = 0
    Retry = {t1}
    Poll = {}
    MaxRetries = 1
    Delivery = {d1, d2}
    Outcome = {"accepted", "refused", "timeout"}
    None = None
SYMMETRY Calls
INVARIANTS
    SuccessWasPaid
    EventAppliedOnce
CHECK_DEADLOCK FALSE
