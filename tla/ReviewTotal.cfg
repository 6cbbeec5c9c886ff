\* As wizard_draft's.
SPECIFICATION WizardsSpec
CONSTANTS
    g1 = g1
    g2 = g2
    Products = {g1, g2}
    NoProduct = NoProduct
    Prices = {1, 2}
    MAX_ITEMS = 2
    MAX_MEDIA = 3
    Works = {1, 2}
    Desks <- MCDesks
    NoDraft = NoDraft
    NoWork = NoWork
    Seeded <- MCSeeded  Proposals <- MCProposals  Queries <- MCQueries  Roles <- MCRoles
    MaxResults = 2  Take = 3  Drafts <- MCDrafts  Efforts <- MCEfforts  NoChoice = NoChoice
    Catalogue <- MCCatalogue  CurrentValues <- MCCurrentValues  Searches <- MCSearches
    RankOf <- MCRankOf  Unmatched = 4
    DealerTexts = {0, 1, 2, 3}  Folded <- MCFolded  Trimmed <- MCTrimmed  Within <- MCWithin
    Purchased <- MCPurchased  Others <- MCOthers  NoBranch = 9  MaxRows = 4  FirstShown = 1
    TypedBranches = {1, 9}  MaxTyped = 2  NoData = NoData  SearchFailed = SearchFailed
    w1 = w1  w2 = w2  w3 = w3  b1 = b1  b2 = b2  Windows = {w1, w2, w3}  JarOf <- MCJarOf
    Jars = {b1, b2}  MaxPasskeys = 2  Visits <- MCVisits
INVARIANT ReviewShowsWhatIsPosted
CHECK_DEADLOCK FALSE
