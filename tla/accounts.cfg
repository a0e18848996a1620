SPECIFICATION Spec
CONSTANTS
    Call = {c1, c2, c3}
    Phone = {p1, p2}
    MaxAttempts = 1
    MaxSecond = 1
    MaxUnderway = 2
    Earlier = Earlier
    None = None
SYMMETRY Symmetry
INVARIANTS
    TypeOK
    SpentOnce
    RevokedByReset
    PinAgrees
    SecretConfirmed
    VerifiedPhoneProven
    GuessesBounded
    UsedCodeGone
PROPERTIES
    PinReplacedKnowingly
CHECK_DEADLOCK FALSE
