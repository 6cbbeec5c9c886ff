SPECIFICATION Spec
CONSTANTS
    r1 = r1  r2 = r2  r3 = r3
    lotA = lotA  lotB = lotB  gift = gift
    p1 = p1
    TWD = TWD  USD = USD
    home = home  bank = bank
    Requests = {r1, r2, r3}
    Lots = {lotA, lotB, gift}
    Purchases = {p1}
    PurchaseOf <- MCPurchaseOf
    Opening <- MCOpening
    KindInputs = {"SALE", "GIFT_OUT"}
    EditInputs <- MCEdits
    GiftInputs <- MCGifts
    Currencies = {TWD, USD}
    Locations = {home, bank}
    NoPurchase = NoPurchase
    NoCurrency = NoCurrency
    NoLocation = NoLocation
    NoRow = NoRow
    NoMovement = NoMovement
    NoEdit = NoEdit
    NoRequest = NoRequest
    NoPlan = NoPlan
    Keep = Keep
SYMMETRY MCSymmetry
INVARIANTS
    LedgerInv
    FiguresAccountedFor
    DisposedLotsAreExplained
    BookedCurrencyFollowsLot
PROPERTIES
    MovementMatchesBalance
    DisposedLotsAreFrozen
    ImplementsAtomicLedger
