\* Three calls; drafts and keys, or one draft with a file.
SPECIFICATION Spec
CONSTANTS
    c1 = c1  c2 = c2  c3 = c3
    d1 = d1  d2 = d2
    k1 = k1  k2 = k2
    b1 = b1  b2 = b2
    item = item
    u1 = u1  x1 = x1  x2 = x2
    old = old
    Calls = {c1, c2, c3}
    Intakes = {d1, d2}
    Keys = {k1, k2}
    Bodies = {b1, b2}
    Items = {item}
    ItemsOf <- MCItemsOf
    UploadKeys = {u1}
    Contents = {x1, x2}
    OldFiles = {old}
    OldRow <- MCOldRow
    Desks <- MCDesks
    MaxRetained = 3
    MaxRevisions = 2
    NoCall = NoCall
    NoIntake = NoIntake
    NoItem = NoItem
    NoPurchase = NoPurchase
    NoRow = NoRow
    NoPlan = NoPlan
    NoResult = NoResult
    NoKey = NoKey
SYMMETRY MCSymmetry
INVARIANTS
    IntakeInv
    IntakesAndPurchasesAgree
    EditsAreNumbered
    UploadsAnswerTruly
PROPERTIES
    TerminalIntakesStayTerminal
    FiledAsReviewed
