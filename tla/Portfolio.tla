------------------------------ MODULE Portfolio ------------------------------
(***************************************************************************)
(* The money arithmetic of the ledger, and the figures made from it: what  *)
(* a purchase costs each of its items, what a snapshot calls a premium,    *)
(* the Dashboard, whose parts are read by separate statements while        *)
(* purchases, sales and prices go on, and the chart of purchases.          *)
(*                                                                         *)
(* Money, grams, rates and prices are whole multiples of the last digit    *)
(* that is stored; divisions round half to even, as decimal.js is told to. *)
(***************************************************************************)
EXTENDS Measures, FiniteSets, Sequences, FiniteSetsExt

CONSTANTS
    Codes,
    Display,         \* the currency of valuations
    PurityScale,     \* a purity of 1
    PriceScale,      \* a price of 1 per gram
    Prices,          \* prices per gram
    Folios,       \* bound: [inputs, quota]: what is bought, and how much happens
    NoFigure, NotRead

\* What may be sent as a purchase: no amount is negative, no purity above 1.
Units == DOMAIN Num
Lines == [metal : Codes, quantity : Nat \ {0}, weight : Nat, unit : Units,
          purity : 0 .. PurityScale, subtotal : Nat, manual : Nat]
Offers == [currency : STRING, lines : Seq(Lines), charges : Nat, discount : Nat, method : STRING]

ASSUME FolioAssumption ==
    /\ \A u \in Units : Num[u] \in Nat \ {0} /\ Den[u] \in Nat \ {0}
    /\ PurityScale \in Nat \ {0} /\ PriceScale \in Nat \ {0}
    /\ Prices \subseteq Nat /\ Prices # {}
    /\ \A s \in Folios : s.inputs \subseteq Offers

VARIABLES
    inputs,     \* what is offered for purchase
    purchases,  \* the purchases, by number
    lots,       \* the holdings
    snapshots,  \* price snapshots of purchases
    prices,     \* the latest price of each metal in the display currency, or NoFigure
    asking,     \* the parts of the Dashboard read so far
    shown,      \* the Dashboard's answer, with what was read for it
    chartIn,    \* the currency the chart is drawn in
    quota       \* what is left of the scenario's bound

folioVars == <<inputs, purchases, lots, snapshots, prices, asking, shown, chartIn, quota>>

Use(what) == quota[what] > 0 /\ quota' = [quota EXCEPT ![what] = @ - 1]

\* The sum of a function's values.
Total(f) == MapThenSumSet(LAMBDA i : f[i], DOMAIN f)

-----------------------------------------------------------------------------
(* Allocation *)

Floors(total, basis) == [i \in DOMAIN basis |-> (total * basis[i]) \div Total(basis)]
Remains(total, basis) == [i \in DOMAIN basis |-> (total * basis[i]) % Total(basis)]

\* The largest remainder first, the lower index first among equals.
Before(total, basis, i, j) ==
    LET r == Remains(total, basis) IN r[i] > r[j] \/ (r[i] = r[j] /\ i < j)

\* Fault: what the floors leave is left out.
FloorsOnly(total, basis) == Floors(total, basis)

\* Fault: what the floors leave goes to the first item.
AllToTheFirst(total, basis) ==
    [Floors(total, basis) EXCEPT ![1] = @ + total - Total(Floors(total, basis))]

largestRemainderSplit(total, basis) ==
    LET extra == total - Total(Floors(total, basis))
        place(i) == Cardinality({j \in DOMAIN basis \ {i} : Before(total, basis, j, i)})
    IN  [i \in DOMAIN basis |-> Floors(total, basis)[i] + (IF place(i) < extra THEN 1 ELSE 0)]

Equal(items) == [i \in DOMAIN items |-> 1]

\* An all-zero basis is an equal split.
BasisOf(method, items) ==
    LET basis == CASE method = "SUBTOTAL_PROPORTIONAL" -> [i \in DOMAIN items |-> items[i].subtotal]
                   [] method = "WEIGHT_PROPORTIONAL"   -> [i \in DOMAIN items |-> items[i].fine]
                   [] OTHER                            -> Equal(items)
    IN  IF Total(basis) = 0 THEN Equal(items) ELSE basis

allocate(method, total, items) ==
    IF method = "MANUAL" THEN [i \in DOMAIN items |-> items[i].manual]
    ELSE largestRemainderSplit(total, BasisOf(method, items))

-----------------------------------------------------------------------------
(* computePurchase *)

\* Fault: the fine weight is never below the last digit.
RoundedUp(gross, purity) == HalfEven(gross * purity, PurityScale) + 1

Fine(gross, purity) == HalfEven(gross * purity, PurityScale)

\* Rounded as it is stored before it is multiplied.
Computed(line) ==
    LET gross == ToGrams(line.weight, line.unit) * line.quantity IN
    [metal |-> line.metal, quantity |-> line.quantity, gross |-> gross,
     fine |-> Fine(gross, line.purity), subtotal |-> line.subtotal, manual |-> line.manual]

Items(p) == [i \in DOMAIN p.lines |-> Computed(p.lines[i])]

totalAmount(p) ==
    Total([i \in DOMAIN p.lines |-> p.lines[i].subtotal]) + p.charges - p.discount

\* Fault: a discount may exceed what is paid.
AnyTotal(p) == p.lines # <<>>

\* What computePurchase does not throw at.
Acceptable(p) ==
    /\ p.lines # <<>> /\ totalAmount(p) >= 0
    /\ \A i \in DOMAIN p.lines : ToGrams(p.lines[i].weight, p.lines[i].unit) > 0
    /\ p.method = "MANUAL" =>
          Total([i \in DOMAIN p.lines |-> p.lines[i].manual]) = totalAmount(p)

computePurchase(p) ==
    LET items == Items(p)
        costs == allocate(p.method, totalAmount(p), items)
    IN  [currency |-> p.currency, total |-> totalAmount(p), method |-> p.method,
         items |-> [i \in DOMAIN items |-> [item |-> items[i], cost |-> costs[i]]]]

\* One lot for each item.
LotsBought(n, purchase) ==
    {[id |-> <<n, i>>, metal |-> purchase.items[i].item.metal, currency |-> purchase.currency,
      quantity |-> purchase.items[i].item.quantity, fine |-> purchase.items[i].item.fine,
      cost |-> purchase.items[i].cost, status |-> "HELD", pnl |-> NoFigure] :
        i \in DOMAIN purchase.items}

FolioInit ==
    /\ \E s \in Folios : inputs = s.inputs /\ quota = s.quota
    /\ purchases = <<>> /\ lots = {} /\ snapshots = {}
    /\ prices \in {[m \in Codes |-> NoFigure], [m \in Codes |-> CHOOSE p \in Prices : TRUE]}
    /\ asking = NotRead /\ shown = NotRead /\ chartIn = Display

Buy ==
    /\ Use("buys")
    /\ \E p \in inputs :
          /\ Acceptable(p)
          /\ LET bought == computePurchase(p) IN
                /\ purchases' = Append(purchases, bought)
                /\ lots' = lots \cup LotsBought(Len(purchases) + 1, bought)
    /\ UNCHANGED <<inputs, snapshots, prices, asking, shown, chartIn>>

\* A whole lot is sold, in its currency (disposals are the holding ledger's).
Sell ==
    /\ Use("sells")
    /\ \E l \in {k \in lots : k.status = "HELD"}, proceeds \in Prices :
          lots' = (lots \ {l}) \cup {[l EXCEPT !.status = "SOLD", !.pnl = proceeds - l.cost]}
    /\ UNCHANGED <<inputs, purchases, snapshots, prices, asking, shown, chartIn>>

Quote ==
    /\ Use("quotes")
    /\ \E m \in Codes, p \in Prices \cup {NoFigure} : prices' = [prices EXCEPT ![m] = p]
    /\ UNCHANGED <<inputs, purchases, lots, snapshots, asking, shown, chartIn>>

MetalsOf(n) == {purchases[n].items[i].item.metal : i \in DOMAIN purchases[n].items}
ItemsOf(n, m) == {i \in DOMAIN purchases[n].items : purchases[n].items[i].item.metal = m}
FineOf(n, m) == Total([i \in ItemsOf(n, m) |-> purchases[n].items[i].item.fine])
CostOf(n, m) == Total([i \in ItemsOf(n, m) |-> purchases[n].items[i].cost])

intrinsicValue(fine, price) == HalfEven(fine * price, PriceScale)

\* The worker's snapshot of one metal of a purchase.
Capture ==
    /\ \E n \in DOMAIN purchases, p \in Prices : \E m \in MetalsOf(n) :
          /\ ~\E s \in snapshots : s.purchase = n /\ s.metal = m
          /\ snapshots' = snapshots \cup
                {[purchase |-> n, metal |-> m, price |-> p,
                  premium |-> CostOf(n, m) - intrinsicValue(FineOf(n, m), p)]}
    /\ UNCHANGED <<inputs, purchases, lots, prices, asking, shown, chartIn>>
    /\ Use("captures")

-----------------------------------------------------------------------------
(* The Dashboard *)

HeldLots == {l \in lots : l.status = "HELD"}
SumOf(S, field) == Total([l \in S |-> l[field]])

CurrenciesIn(S) == {l.currency : l \in S}
costByCurrency(S) == [c \in CurrenciesIn(S) |-> SumOf({l \in S : l.currency = c}, "cost")]

\* Fault: a metal keeps its latest lot's figures.
LatestOnly(S, m) ==
    LET l == CHOOSE k \in S : k.metal = m IN
    [fine |-> l.fine, lots |-> 1, units |-> l.quantity, cost |-> costByCurrency({l})]

MetalSummary(S, m) ==
    LET mine == {l \in S : l.metal = m} IN
    [fine |-> SumOf(mine, "fine"), lots |-> Cardinality(mine), units |-> SumOf(mine, "quantity"),
     cost |-> costByCurrency(mine)]

summarizeHeldAssets(S) ==
    [lots |-> Cardinality(S), units |-> SumOf(S, "quantity"), cost |-> costByCurrency(S),
     byMetal |-> [m \in {l.metal : l \in S} |-> MetalSummary(S, m)]]

\* Amounts of one currency are added; of several, only the currencies are told.
OneCurrency(rows) ==
    [currencies |-> {r.currency : r \in rows},
     amount |-> IF Cardinality({r.currency : r \in rows}) = 1 THEN SumOf(rows, "amount")
                ELSE NoFigure]

premiumTotals ==
    OneCurrency({[id |-> <<s.purchase, s.metal>>, currency |-> purchases[s.purchase].currency,
                  amount |-> s.premium] : s \in snapshots})

realizedTotals ==
    OneCurrency({[id |-> l.id, currency |-> l.currency, amount |-> l.pnl] : l \in lots \ HeldLots})

countPurchasesAwaitingPrices ==
    Cardinality({n \in DOMAIN purchases :
        \E m \in MetalsOf(n) : ~\E s \in snapshots : s.purchase = n /\ s.metal = m})

\* Fault: some currency's costs are compared with.
AnyCurrency(cost) == IF DOMAIN cost = {} THEN NoFigure ELSE cost[CHOOSE c \in DOMAIN cost : TRUE]

costComparableTo(cost) == IF DOMAIN cost = {Display} THEN cost[Display] ELSE NoFigure

\* base.byMetal is what is valued; its costs are added up again by currency.
aggregateCosts(byMetal) ==
    [c \in UNION {DOMAIN byMetal[m].cost : m \in DOMAIN byMetal} |->
        Total([m \in {k \in DOMAIN byMetal : c \in DOMAIN byMetal[k].cost} |->
                   byMetal[m].cost[c]])]

valuePortfolio(byMetal, quoted) ==
    LET priced == {m \in DOMAIN byMetal : quoted[m] # NoFigure}
        value  == Total([m \in priced |-> intrinsicValue(byMetal[m].fine, quoted[m])])
        cost   == costComparableTo(aggregateCosts(byMetal))
        pnl    == IF priced # {} /\ priced = DOMAIN byMetal /\ cost # NoFigure
                  THEN value - cost ELSE NoFigure
    IN  [value |-> IF priced = {} THEN NoFigure ELSE value,
         pnl   |-> pnl,
         rate  |-> IF pnl = NoFigure \/ cost = 0 THEN NoFigure ELSE HalfEven(pnl * 100, cost),
         notice |-> CASE priced = {} /\ DOMAIN byMetal = {} -> "none"
                      [] priced = {} /\ DOMAIN byMetal # {} -> "NO_PRICES"
                      [] priced # {} /\ priced # DOMAIN byMetal -> "UNPRICED_METALS"
                      [] priced # {} /\ priced = DOMAIN byMetal /\ cost = NoFigure ->
                            "MIXED_COST_CURRENCIES"
                      [] OTHER -> "none"]

Parts == {"assets", "prices", "premium", "pending", "realized"}

Ask ==
    /\ asking = NotRead /\ Use("asks")
    /\ asking' = [part \in Parts |-> NotRead]
    /\ UNCHANGED <<inputs, purchases, lots, snapshots, prices, shown, chartIn>>

Read(part) ==
    /\ asking # NotRead /\ asking[part] = NotRead
    /\ asking' = [asking EXCEPT ![part] =
          CASE part = "assets"   -> HeldLots
            [] part = "prices"   -> prices
            [] part = "premium"  -> premiumTotals
            [] part = "pending"  -> countPurchasesAwaitingPrices
            [] part = "realized" -> realizedTotals]
    /\ UNCHANGED <<inputs, purchases, lots, snapshots, prices, shown, chartIn, quota>>

\* market.latest fails: the Dashboard goes without prices.
PricesFail ==
    /\ asking # NotRead /\ asking["prices"] = NotRead /\ Use("faults")
    /\ asking' = [asking EXCEPT !["prices"] = [m \in Codes |-> NoFigure]]
    /\ UNCHANGED <<inputs, purchases, lots, snapshots, prices, shown, chartIn>>

Answer ==
    /\ asking # NotRead /\ \A part \in Parts : asking[part] # NotRead
    /\ LET base == summarizeHeldAssets(asking["assets"]) IN
          shown' = [base |-> base, valued |-> valuePortfolio(base.byMetal, asking["prices"]),
                    read |-> asking]
    /\ asking' = NotRead
    /\ UNCHANGED <<inputs, purchases, lots, snapshots, prices, chartIn, quota>>

-----------------------------------------------------------------------------
(* The chart *)

\* 0 for what weighs nothing.
perGram(cost, fine) == IF fine = 0 THEN 0 ELSE HalfEven(cost * PriceScale, fine)

Spot(n, m) ==
    IF \E s \in snapshots : s.purchase = n /\ s.metal = m
    THEN (CHOOSE s \in snapshots : s.purchase = n /\ s.metal = m).price ELSE NoFigure

\* Fault: the further lines of a metal are named, and not added.
FirstLine(n, m) ==
    LET i == CHOOSE j \in ItemsOf(n, m) : \A k \in ItemsOf(n, m) : j <= k IN
    [purchase |-> n, currency |-> purchases[n].currency, spot |-> Spot(n, m),
     fine |-> purchases[n].items[i].item.fine, cost |-> purchases[n].items[i].cost]

\* The lines of one metal in one purchase are one marker.
Marker(n, m) ==
    [purchase |-> n, currency |-> purchases[n].currency, spot |-> Spot(n, m),
     fine |-> FineOf(n, m), cost |-> CostOf(n, m)]

forMetal(m) == {Marker(n, m) : n \in {k \in DOMAIN purchases : m \in MetalsOf(k)}}

\* Fault: the mean of the purchases' costs per gram, whatever they weigh.
Unweighted(markers) ==
    IF SumOf(markers, "fine") = 0 THEN NoFigure
    ELSE HalfEven(Total([k \in markers |-> perGram(k.cost, k.fine)]), Cardinality(markers))

averageCost(markers) ==
    IF SumOf(markers, "fine") = 0 THEN NoFigure
    ELSE HalfEven(SumOf(markers, "cost") * PriceScale, SumOf(markers, "fine"))

averageSpot(markers) ==
    LET known == {k \in markers : k.spot # NoFigure} IN
    IF SumOf(known, "fine") = 0 THEN NoFigure
    ELSE HalfEven(Total([k \in known |-> k.fine * k.spot]), SumOf(known, "fine"))

computeCostLines(markers) ==
    IF Cardinality(CurrenciesIn(markers)) = 1
    THEN [average |-> averageCost(markers), spot |-> averageSpot(markers)]
    ELSE [average |-> NoFigure, spot |-> NoFigure]

ChooseCurrency ==
    /\ Use("views")
    /\ chartIn' \in {"USD", Display} \ {chartIn}
    /\ UNCHANGED <<inputs, purchases, lots, snapshots, prices, asking, shown>>

\* What convertPrice does with an amount: nothing, times or over the one rate there is, from
\* USD to the display currency, or no point at all.
convertPrice(from, to) ==
    CASE from = to                               -> "same"
      [] from # to /\ from = "USD"               -> "times"
      [] from # to /\ from # "USD" /\ to = "USD" -> "over"
      [] OTHER                                   -> "no point"

toMarkerSeries(m) == {k \in forMetal(m) : convertPrice(k.currency, chartIn) # "no point"}

FolioNext ==
    \/ Buy \/ Sell \/ Quote \/ Capture
    \/ Ask \/ (\E part \in Parts : Read(part)) \/ PricesFail \/ Answer
    \/ ChooseCurrency

FolioSpec == FolioInit /\ [][FolioNext]_folioVars

-----------------------------------------------------------------------------
(* Properties *)

\* One type invariant for the rows this module writes.
ItemRecords == [metal : Codes, quantity : Nat \ {0}, gross : Nat, fine : Nat, subtotal : Nat,
                manual : Nat]
PurchaseRecords == [currency : STRING, total : Nat, method : STRING,
                    items : Seq([item : ItemRecords, cost : Nat])]
LotRecords == [id : Nat \X Nat, metal : Codes, currency : STRING, quantity : Nat \ {0},
               fine : Nat, cost : Nat, status : {"HELD", "SOLD"}, pnl : Int \cup {NoFigure}]

FolioTypeOK ==
    /\ purchases \in Seq(PurchaseRecords) /\ lots \subseteq LotRecords
    /\ \A s \in snapshots : /\ s.purchase \in DOMAIN purchases /\ s.premium \in Int
                            /\ s.metal \in MetalsOf(s.purchase)
    /\ DOMAIN prices = Codes /\ chartIn \in {"USD", Display}

\* Whatever the method, the costs of a purchase's items add up to what was paid, to the last
\* digit.
CostsAddUp ==
    \A n \in DOMAIN purchases :
        Total([i \in DOMAIN purchases[n].items |-> purchases[n].items[i].cost])
            = purchases[n].total

\* No item's cost is a whole unit away from its exact share.
SharesAreFair ==
    \A n \in DOMAIN purchases : purchases[n].method # "MANUAL" =>
        LET items == [i \in DOMAIN purchases[n].items |-> purchases[n].items[i].item]
            basis == BasisOf(purchases[n].method, items)
            off(i) == purchases[n].items[i].cost * Total(basis) - purchases[n].total * basis[i]
        IN  \A i \in DOMAIN items : off(i) < Total(basis) /\ -off(i) < Total(basis)

\* Rounding never makes an item finer than it is heavy.
FineWithinGross ==
    \A n \in DOMAIN purchases : \A i \in DOMAIN purchases[n].items :
        purchases[n].items[i].item.fine <= purchases[n].items[i].item.gross

\* The Dashboard's metals and currencies divide its totals, with nothing lost or twice.
PartsMakeTheWhole ==
    shown # NotRead =>
        LET metals == DOMAIN shown.base.byMetal
            of(field) == Total([m \in metals |-> shown.base.byMetal[m][field]])
        IN  /\ of("lots") = shown.base.lots /\ of("units") = shown.base.units
            /\ of("fine") = SumOf(shown.read["assets"], "fine")
            /\ aggregateCosts(shown.base.byMetal) = shown.base.cost

\* A profit is shown only if every lot counted was paid in the display currency and its metal
\* has a price, and it is then the value less the cost of those very lots; the value may be
\* off by the rounding of each metal's.
PnlIsComparable ==
    shown # NotRead /\ shown.valued.pnl # NoFigure =>
        LET read   == shown.read["assets"]
            quoted == shown.read["prices"]
        IN  /\ \A l \in read : l.currency = Display /\ quoted[l.metal] # NoFigure
            /\ LET exact == Total([l \in read |-> l.fine * quoted[l.metal]])
                   told  == (shown.valued.pnl + SumOf(read, "cost")) * PriceScale
                   most  == Cardinality({l.metal : l \in read}) * PriceScale
               IN  2 * (told - exact) <= most /\ 2 * (exact - told) <= most

\* The markers of a purchase add up to what was paid for it.
MarkersMatchThePurchases ==
    \A n \in DOMAIN purchases :
        Total([m \in MetalsOf(n) |-> (CHOOSE k \in forMetal(m) : k.purchase = n).cost])
            = purchases[n].total

\* The average-cost line runs between the cheapest and the dearest purchase.
AveragesLieBetween ==
    \A m \in Codes :
        LET markers == forMetal(m)
            average == computeCostLines(markers).average
        IN  (\A k \in markers : k.fine > 0) /\ average # NoFigure =>
                /\ \E k \in markers : perGram(k.cost, k.fine) <= average
                /\ \E k \in markers : perGram(k.cost, k.fine) >= average

\* The average-cost line is what was paid for all of the metal over what all of it weighs: a
\* purchase counts by its weight, to half of the last digit.
AveragesAreWeighted ==
    \A m \in Codes :
        LET markers == forMetal(m)
            average == computeCostLines(markers).average
            fine    == SumOf(markers, "fine")
            paid    == SumOf(markers, "cost") * PriceScale
        IN  average # NoFigure =>
                2 * (average * fine - paid) <= fine /\ 2 * (paid - average * fine) <= fine

\* What is drawn in another currency than it was paid in is drawn by the one rate there is, from
\* USD to the display currency; on the chart in USD, so is what was paid in a third currency,
\* which that rate does not describe (market-model.ts:151).
ThirdCurrenciesOnlyInUsd ==
    \A m \in Codes : \A k \in toMarkerSeries(m) :
        k.currency # chartIn /\ {k.currency, chartIn} # {"USD", Display} => chartIn = "USD"

\* What was paid reaches the lots to the last digit, fairly, whatever the method
\* (allocation.ts:183).
CostsReachTheLots == FolioTypeOK /\ CostsAddUp /\ SharesAreFair /\ FineWithinGross

\* The figures made from the lots add up again, and are given only where they compare
\* (valuation.ts, purchase-summary.ts, market-markers.service.ts).
FiguresAreComparable ==
    /\ PartsMakeTheWhole /\ PnlIsComparable /\ MarkersMatchThePurchases /\ AveragesLieBetween
    /\ AveragesAreWeighted /\ ThirdCurrenciesOnlyInUsd

-----------------------------------------------------------------------------
(* What the documents say and the code does not do *)

\* market-model.ts:134, the rate is applied "only for the exact pair the rate describes": what
\* is drawn in another currency than it was paid in is so by the rate from USD to the display
\* currency.
ConvertedByItsRate ==
    \A m \in Codes : \A k \in toMarkerSeries(m) :
        k.currency # chartIn => {k.currency, chartIn} = {"USD", Display}
==============================================================================
