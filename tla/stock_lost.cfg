SPECIFICATION FairSpec
CONSTANTS
    None = None
    Slip = {s1}
    Request = {r1, r2}
    Quantity = {1, 2}
    MaxStock = 3
    MaxRequest = 4
PROPERTIES
    StockIsRight
