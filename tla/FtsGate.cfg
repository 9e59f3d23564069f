SPECIFICATION Spec
CONSTANTS
    Ids = {i1, i2}
    Texts = {cat, dog}
    Blank = Blank
    NoPayload = NoPayload
    NoRow = NoRow
    NoCall = NoCall
    MaxLsn = 4
    MaxEvents = 2
SYMMETRY Symmetry
INVARIANTS
    TypeOK
    SearchAgrees
    FreshLsnsPass
