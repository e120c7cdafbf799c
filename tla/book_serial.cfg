SPECIFICATION Spec
CONSTANTS
    None = None
    Document = {d1, d2}
    Book = {b1, b2}
    Request = {r1}
    Operations = {"assign", "change", "refile", "keep", "edit", "create", "enter",
                  "generate", "file", "copy", "withdraw"}
    MaxNumber = 8
    MaxTyped = 2
    MaxRequest = 4
INVARIANTS
    TypeOK
    UniqueCode
    CountIsFree
PROPERTIES
    HolesFilled
