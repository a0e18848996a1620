SPECIFICATION Spec
CONSTANTS
    User = {u1, u2}
    Op = {o1, o2}
    Ref = {r1}
    Amount = {1}
    QueueFault = {"lost"}
    None = None
INVARIANT StatementUnbroken
CHECK_DEADLOCK FALSE
