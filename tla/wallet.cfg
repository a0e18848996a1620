SPECIFICATION Spec
CONSTANTS
    User = {u1, u2}
    Op = {o1, o2, o3}
    Ref = {r1}
    Amount = {1}
    QueueFault = {"lost", "unknown"}
    None = None
SYMMETRY UsersAndCalls
INVARIANTS
    TypeOK
    NeverOverdrawn
    StatementChains
    ReferenceUnique
    Reconciled
    MoneyConserved
    WithdrawalOutcome
    NoStandingWait
PROPERTIES
    KeepsBook
CHECK_DEADLOCK FALSE
