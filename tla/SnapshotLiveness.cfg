SPECIFICATION FairSpec
CONSTANTS
    gold = gold  silver = silver
    w1 = w1  w2 = w2
    u1 = u1  u2 = u2
    TWD = TWD  USD = USD  EUR = EUR
    Purchases = {1, 2}
    Metals = {gold}
    MetalsOf <- MCAllMetals
    Currencies = {TWD, USD, EUR}
    OpenCurrencies = {TWD, EUR}
    PriceBase = USD
    Display = TWD
    QuoteCurrencies = {USD}
    Updates = {u1}
    Workers = {w1}
    Window = 2
    BatchLimit = 1
    MaxAttempts = 2
    MaxRates = 1
    MaxFaults = 1
    NoQuote = NoQuote
    NoSnapshot = NoSnapshot
    NoCapture = NoCapture
    NoUpdate = NoUpdate
PROPERTY PricedUnlessCrowdedOut
