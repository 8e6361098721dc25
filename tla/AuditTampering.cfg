SPECIFICATION Spec
CONSTANTS
    plain = plain
    rich = rich
    Txns = {t1, t2}
    Payloads = {plain, rich}
    Simple = {plain}
    NoEntry = NoEntry
    MaxId = 5
    MaxLegacy = 2
INVARIANTS
    TypeOK
    MismatchesAreTheAltered
    RemovalIsSeen
PROPERTIES
    CommitsAtTheEnd
SYMMETRY Symmetry
CHECK_DEADLOCK FALSE
