-------------------------- MODULE MCPurchaseClient --------------------------
EXTENDS PurchaseClient

CONSTANTS p1, p2, p3, p4, b1, b2, w1, w2, w3, m1, m2

\* p1 and p2 follow each other in a tab, of which p4 is in another; p3 is another device.
MCBrowserOf(p) == IF p = p3 THEN b2 ELSE b1
MCWindowOf(p) == CASE p \in {p1, p2} -> w1 [] p = p3 -> w2 [] p = p4 -> w3

World(pages, together, stamps, submits, faults, leavings, refreshes, media) ==
    [pages |-> pages, together |-> together, stamps |-> stamps, submits |-> submits,
     faults |-> faults, leavings |-> leavings, refreshes |-> refreshes, media |-> media]

MCWorlds == {
    World(<<p1, p4>>, TRUE, 1, 0, 0, 0, 0, {}),        \* two tabs of one browser
    World(<<p1, p3>>, TRUE, 1, 1, 0, 0, 0, {}),        \* two devices
    World(<<p1, p3, p2>>, FALSE, 1, 0, 0, 2, 0, {}),   \* a list fetched before the other's edit
    World(<<p3, p1, p2>>, FALSE, 0, 1, 0, 1, 0, {}),   \* a listed draft that is completed
    World(<<p1, p2>>, FALSE, 0, 1, 1, 1, 1, {}),       \* a page that is left while it finalizes
    World(<<p1>>, TRUE, 1, 2, 3, 0, 0, {}),            \* one page on a bad network
    World(<<p1, p2>>, FALSE, 1, 0, 0, 1, 1, {}),       \* a page that is closed, left or lost
    World(<<p1, p2>>, FALSE, 1, 2, 0, 1, 0, {m1}),     \* a photo, and a reload
    World(<<p1>>, TRUE, 2, 2, 1, 0, 0, {m1}),          \* ... removed after it was uploaded
    World(<<p1>>, TRUE, 2, 1, 0, 0, 0, {m1, m2}) }     \* a photo and a PDF
=============================================================================
