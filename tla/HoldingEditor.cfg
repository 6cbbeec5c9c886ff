\* Files: two photos, one pick, two saves, one other client.  Addresses: two holdings, two products,
\* editors of two steps, up to seven moves of the user.
SPECIFICATION PagesSpec
CONSTANTS
    f1 = f1  f2 = f2  k1 = k1  k2 = k2
    Slots = {s1, s2}  OldFiles = {f1, f2}  NewFiles = {n1, n2, n3}
    Keys = {k1, k2}  Captions = {"a", "b"}  Limit = 2
    Sessions <- MCSessions  InitialLots <- MCInitialLots  OtherDtos <- MCOtherDtos
    NoRow = NoRow  NoCall = NoCall  NoFile = NoFile  NoKey = NoKey  NoSlot = NoSlot
    LotNames = {"h1", "h2"}  ProductNames = {"p1", "new"}  EditorSteps = 2
    WizardSteps = 2  ItemsStep = 1  Itineraries <- MCItineraries
INVARIANTS LotFilesAreSound SavesDoWhatTheFormShows
PROPERTIES SavesEndAndOverwriteNothing AddressesTellTheTruth
CHECK_DEADLOCK FALSE
