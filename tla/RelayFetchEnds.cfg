SPECIFICATION FairSpec
CONSTANTS
    Turns = {t1}
    Relays = {r1, r2, r3}
    Malformed = {r3}
    Answers <- SharedAnswers
    Direct = Direct
    Nobody = Nobody
PROPERTIES
    TurnEnds
CHECK_DEADLOCK FALSE
