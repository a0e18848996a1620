SPECIFICATION Spec
CONSTANTS
    User = {u1, u2}
    Call = {c1, c2, c3}
    Bvn = {b1}
    Nin = {n1}
    w1 = w1
    w2 = w2
    w3 = w3
    Answer <- MCAnswer
    Earlier = Earlier
    MaxUnderway = 3
    None = None
SYMMETRY Symmetry
INVARIANTS
    TypeOK
    NameProven
    NumberHeldOnce
    VerifiedByFace
    NamedWhenVerified
    StatusesAgree
CHECK_DEADLOCK FALSE
