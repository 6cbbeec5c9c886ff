\* Backups: one row of a table, up to two restores.  Figures: one purchase of three items, or up
\* to three of two.  Disposals: two tabs and a lot of three.  Forms: two pages and three lots.
SPECIFICATION ScreensSpec
CONSTANTS
    NoFile = NoFile
    Row <- MCRow
    Table <- MCTable
    Refs <- MCRefs
    Initially <- MCInitially
    Anew <- MCFresh
    OldFiles <- MCOldFiles
    Scenarios <- MCScenarios
    NoFigure = NoFigure  NotRead = NotRead
    Codes = {"XAU", "XAG"}  Display = "TWD"  Prices = {1, 5}
    Num <- MCNum  Den <- MCDen  PurityScale = 10  PriceScale = 2
    Folios <- MCFolios
    Screens = {s1, s2}  Holdings = {l1}  Opening <- MCOpening  Amended <- MCAmended
    Amounts = {0, 4}  Quantities = {0, 2, 3}  Trials <- MCTrials
    NoRow = NoRow  NoDisposal = NoDisposal  NoDialog = NoDialog
    Untyped = Untyped  Garbled = Garbled
    Editors = {e1, e2}  FormRows = {"p1", "p2", "g1"}  Purchased = {"p1", "p2"}
    FormLots <- MCFormLots  Entries <- MCEntries  FormWorlds <- MCFormWorlds
    NoLot = NoLot  NoForm = NoForm  NoSave = NoSave
SYMMETRY MCSymmetry
INVARIANTS
    ArchivesAreWhole CostsReachTheLots FiguresAreComparable
    DisposalsAreBookedAsShown EditsAreExact
PROPERTY RestoresReplaceTheLedger
CHECK_DEADLOCK FALSE
