SPECIFICATION MCSpec
CONSTANTS
    None = None
    Slip = {s1, s2}
    Request = {r1, r2}
    Quantity = {1, 2}
    MaxStock = 3
    MaxRequest = 7
    MaxOverlap = 5
INVARIANTS
    TypeOK
    StockCap
    FinishedIsHanded
PROPERTIES
    LedgerInTurn
