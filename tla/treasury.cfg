SPECIFICATION FairSpec
CONSTANTS
    Wallet = {m1, m2}
    Op = {o1, o2}
    Amount = {1}
    Ref = {r1}
    Endowment = {2}
    MinReserve = 1
    PoolSize = 2
    None = None
INVARIANTS
    TypeOK
    TotalsAgree
    ReserveKept
    MainInService
PROPERTIES
    KeepsBook
    CallsEnd
CHECK_DEADLOCK FALSE
