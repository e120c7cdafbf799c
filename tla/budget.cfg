SPECIFICATION MCSpec
CONSTANTS
    None = None
    Disbursements = {e1, e2}
    Request = {r1, r2}
    Amounts = {1, 2}
    FirstNumbers = {0, 1}
    LastStep = 4
    MaxRequest = 5
    MaxOverlap = 3
SYMMETRY Symmetry
INVARIANTS
    TypeOK
    StepsInOrder
    NumbersWithRow
    TotalInTurn
PROPERTIES
    CompletedInTurn
