SPECIFICATION FairSpec
CONSTANTS
    None = None
    Document = {d1, d2}
    Book = {b1, b2}
    Request = {r1, r2}
    Operations = {"assign", "change", "refile", "withdraw"}
    MaxNumber = 5
    MaxTyped = 2
    MaxRequest = 3
INVARIANTS
    CountIsFree
PROPERTIES
    ImplementsNumberBook
    RequestsEnd
