SPECIFICATION Spec
CONSTANTS
    Turns = {t1}
    Relays = {r1, r2, r3}
    Malformed = {}
    Answers <- BranchAnswers
    Direct = Direct
    Nobody = Nobody
SYMMETRY Symmetry
INVARIANTS
    BodiesSettled
    ServedIsIssuer
    NoRawDisabled
    BlameJustified
PROPERTIES
    NeverResent
    ImplementsFailover
CHECK_DEADLOCK FALSE
