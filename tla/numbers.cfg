SPECIFICATION MCSpec
CONSTANTS
    Document = {d1, d2, d3}
    Request = {r1, r2}
    MaxNumber = 6
    MaxRequest = 5
    MaxOverlap = 3
SYMMETRY Symmetry
INVARIANTS
    TypeOK
    UniqueInTurn
    CountInTurn
PROPERTIES
    ReservationInTurn
