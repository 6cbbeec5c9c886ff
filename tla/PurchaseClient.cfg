\* The wizard's pages, their drafts, saves and finalizations.
SPECIFICATION Spec
CONSTANTS
    p1 = p1
    p2 = p2
    p3 = p3
    p4 = p4
    b1 = b1
    b2 = b2
    w1 = w1
    w2 = w2
    w3 = w3
    m1 = m1
    m2 = m2
    Pages = {p1, p2, p3, p4}
    Browsers = {b1, b2}
    BrowserOf <- MCBrowserOf
    Windows = {w1, w2, w3}
    WindowOf <- MCWindowOf
    Drafts = {d1, d2}
    Media = {m1, m2}
    Pdfs = {m2}
    Worlds <- MCWorlds
    NoCopy = NoCopy
    NoPage = NoPage
INVARIANT PagesTellTheTruth
PROPERTY PagesCatchUp
\* The user may stop after the last page was closed.
CHECK_DEADLOCK FALSE
