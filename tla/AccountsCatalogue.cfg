\* Accounts: two requests at a time, two sessions, two challenges.  Products: one other client,
\* two edits, two saves.
SPECIFICATION ComponentSpec
CONSTANTS
    account = account  other = other  address = address  passkeyAccount = passkeyAccount
    Keys <- MCKeys
    MaxAttempts = 2  WindowSec = 2  PruneEvery = 2  MaxBuckets = 2
    Callers = {c1, c2}
    Sessions = {s1, s2}
    Challenges = {h1, h2}
    Passkeys = {k1}
    Buckets <- MCBuckets
    PasskeyBuckets <- MCPasskeyBuckets
    MaxPasskeys = 1
    Mixes <- MCMixes
    NoOne = NoOne
    s1 = s1  s2 = s2  k1 = k1
    Orgs = {"A", "B"}  Inactive = {"B"}  Names = {"n1", "n2"}  Texts = {"text"}
    Weights = {0, 32, 50}  Units = {"g", "oz"}  Num <- MCNum  Den <- MCDen
    Initially <- MCInitially  Bounds <- MCBounds  NoUpdate = NoUpdate
INVARIANTS AccountIsGuarded ProductsAreEditedSoundly
PROPERTY NothingWorksTwice
CHECK_DEADLOCK FALSE
SYMMETRY Symmetry
