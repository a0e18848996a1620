SPECIFICATION FairSpec
CONSTANTS
    Withdrawal = {w1}
    MaxAttempts = 2
    MaxStalls = 1
    Retry = {}
    Poll = {v1}
    MaxRetries = 0
    Delivery = {}
    Outcome = {"accepted", "refused", "timeout"}
    None = None
INVARIANTS
    TypeOK
    JobOutcome
    SuccessWasPaid
PROPERTIES
    JobsSettle
CHECK_DEADLOCK FALSE
