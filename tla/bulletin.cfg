SPECIFICATION MCSpec
CONSTANTS
    NoRow = NoRow
    Request = {r1, r2}
    Contents = {c1, c2}
    Steps = 3
    MaxRequest = 7
    MaxOverlap = 3
    MaxFailure = 1
INVARIANTS
    TypeOK
    NothingUnapproved
    StepsApprovedInTurn
