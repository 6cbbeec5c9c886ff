\* Calls: two of them over three lots.  Prices: two tasks at a time, two days of syncs, a backfill
\* of three days from a provider that serves two.
SPECIFICATION ServerSpec
CONSTANTS
    r1 = r1  r2 = r2  r3 = r3
    lotA = lotA  lotB = lotB  gift = gift
    p1 = p1
    TWD = TWD  USD = USD
    home = home  bank = bank
    Requests = {r1, r2}
    Lots = {lotA, lotB, gift}
    Purchases = {p1}
    PurchaseOf <- MCPurchaseOf
    Opening <- MCOpening
    KindInputs = {"DAMAGED"}
    EditInputs <- MCEdits
    GiftInputs <- MCGifts
    Currencies = {TWD, USD}
    Locations = {home, bank}
    NoPurchase = NoPurchase
    NoCurrency = NoCurrency
    NoLocation = NoLocation
    NoRow = NoRow
    NoMovement = NoMovement
    NoEdit = NoEdit
    NoRequest = NoRequest
    NoPlan = NoPlan
    Keep = Keep
    gold = gold  primary = primary  fallback = fallback
    Metals = {gold}  Fx = fx  Levels = {1}
    SpotOrder <- MCSpotOrder  FxOrder <- MCFxOrder  HistoryOrder <- MCHistoryOrder
    Tasks = {t1, t2}  Start = 2  MaxTime = 3  Skew = 1
    MaxHistoryDays = 2  Backfills <- MCBackfills  MaxAttempts = 2
    Repeatables = {latest, rates}  Cadences = {1, 2}  Entered <- MCEntered
    MaxFaults = 1  Scenarios = {"sync", "backfill", "schedule"}
INVARIANT PricesAreSound
PROPERTIES CallsAreAnswered ImplementsPriceBook BackfillsRunToTheEnd
CHECK_DEADLOCK FALSE
