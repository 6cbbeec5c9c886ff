---------------------------- MODULE AtomicLedger ----------------------------
(***************************************************************************)
(* What the holding ledger promises: every service call acts on a lot's    *)
(* current row and books its movement in one indivisible step.             *)
(*                                                                         *)
(* "Every mutation writes the movement and the resulting balance inside    *)
(* one transaction" (movements.service.ts:62-65).  HoldingLedger, where    *)
(* the calls are interleaved statement by statement, implements this.      *)
(***************************************************************************)
EXTENDS LedgerRows

CONSTANTS Opening   \* the row each purchased lot starts with

VARIABLES
    asset,          \* the Asset table
    movement,       \* the AssetMovement table, by the call that booked the row
    edit            \* the audit rows of asset edits, by call

atomicVars == <<asset, movement, edit>>

AtomicInit ==
    /\ asset = [l \in Lots |-> IF l \in GiftLots THEN NoRow ELSE Opening[l]]
    /\ movement = [r \in Requests |-> NoMovement]
    /\ edit = [r \in Requests |-> NoEdit]

Held(l) == asset[l] # NoRow /\ asset[l].status = "HELD"

Unbooked(r) == movement[r] = NoMovement /\ edit[r] = NoEdit

Dispose(r, l, kind) ==
    /\ Held(l) /\ Unbooked(r)
    /\ \E quantity \in 1..asset[l].figures.quantity :
          \E split \in Splits(asset[l].figures, quantity) :
             /\ asset' = [asset EXCEPT ![l] = AfterDisposal(@, kind, split)]
             /\ movement' = [movement EXCEPT ![r] =
                               DisposalMovement(l, asset[l], kind, split)]
    /\ UNCHANGED edit

TransferStorage(r, l, to) ==
    /\ Held(l) /\ Unbooked(r)
    /\ asset' = [asset EXCEPT ![l] = AfterTransfer(@, to)]
    /\ movement' = [movement EXCEPT ![r] = TransferMovement(l, asset[l], to)]
    /\ UNCHANGED edit

\* An edit keeps the status; a purchased lot keeps its currency.
Correct(r, l) ==
    /\ Held(l) /\ Unbooked(r)
    /\ asset'[l] \in Rows
    /\ asset' = [asset EXCEPT ![l] = asset'[l]]
    /\ asset'[l].status = "HELD"
    /\ asset'[l].version = asset[l].version + 1
    /\ l \in GiftLots \/ asset'[l].currency = asset[l].currency
    /\ edit' = [edit EXCEPT ![r] = [lot |-> l, before |-> asset[l].figures,
                                    after |-> asset'[l].figures]]
    /\ UNCHANGED movement

ReceiveGift(r, l) ==
    /\ asset[l] = NoRow /\ Unbooked(r)
    /\ asset'[l] \in Rows
    /\ asset'[l] = GiftRow(asset'[l].figures, asset'[l].currency,
                           asset'[l].location)
    /\ asset' = [asset EXCEPT ![l] = asset'[l]]
    /\ movement' = [movement EXCEPT ![r] = GiftMovement(l, asset'[l].figures)]
    /\ UNCHANGED edit

\* A currency correction moves all lots of the purchase and what they booked.
Relabel(p, c) ==
    /\ asset' = [l \in Lots |-> IF l \in LotsOf(p) THEN AfterRelabel(asset[l], c)
                                ELSE asset[l]]
    /\ movement' = [r \in Requests |->
          IF /\ movement[r] # NoMovement
             /\ movement[r].lot \in LotsOf(p)
             /\ movement[r].currency # NoCurrency
          THEN [movement[r] EXCEPT !.currency = c]
          ELSE movement[r]]
    /\ UNCHANGED edit

AtomicNext ==
    \/ \E r \in Requests, l \in Lots :
          \/ \E kind \in DisposalKinds : Dispose(r, l, kind)
          \/ \E to \in Locations : TransferStorage(r, l, to)
          \/ Correct(r, l)
          \/ ReceiveGift(r, l)
    \/ \E p \in Purchases, c \in Currencies : Relabel(p, c)

AtomicSpec == AtomicInit /\ [][AtomicNext]_atomicVars
=============================================================================
