--------------------------- MODULE MCMarketPrices ---------------------------
(* Instances of MarketPrices and HoldingLedger for the runs with fairness: a behaviour is about the
   market's prices or about calls that wait for each other's rows, and the other module stays where
   it starts. *)
EXTENDS MCHoldingLedger, MarketPrices

CONSTANTS gold, primary, fallback

\* A backfill of three days, from the provider that the second source of spot prices is.
MCSpotOrder == <<primary, fallback>>
MCFxOrder == <<fallback>>
MCHistoryOrder == <<fallback>>
MCBackfills == {[metal |-> gold, from |-> 0, to |-> 2]}
MCEntered == {[at |-> 1, source |-> "SPOT"], [at |-> 4, source |-> "MANUAL"]}

-----------------------------------------------------------------------------
VARIABLE about     \* "calls" or "prices"

ServerInit ==
    /\ Init /\ MarketInit
    /\ about \in {"calls", "prices"}
    /\ about # "prices" => scenario = CHOOSE s \in Scenarios : TRUE

serverVars == <<vars, marketVars, about>>

OfCalls(step)  == about = "calls" /\ step /\ UNCHANGED <<marketVars, about>>
OfPrices(step) == about = "prices" /\ step /\ UNCHANGED <<vars, about>>

\* What FairSpec and FairMarketSpec ask for, of the behaviours that are about them.
ServerSpec ==
    /\ ServerInit /\ [][OfCalls(Next) \/ OfPrices(MarketNext)]_serverVars
    /\ \A r \in Requests : WF_serverVars(OfCalls(Progress(r)))
    /\ WF_serverVars(OfPrices(SchedulerStep))
    /\ \A t \in Tasks : WF_serverVars(OfPrices(TaskStep(t)))
    /\ \A b \in Backfills : SF_serverVars(OfPrices(\E t \in Tasks : TakeBackfill(t, b)))
=============================================================================
