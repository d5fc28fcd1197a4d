SPECIFICATION FilesSpec
SYMMETRY Interchangeable
CONSTANTS
    t1 = t1
    t2 = t2
    b1 = b1
    b2 = b2
    b3 = b3
    b4 = b4
    p1 = p1
    p2 = p2
    p3 = p3
    e1 = e1
    NoOp = NoOp
    NoTx <- MCNoTx
    Threads = {t1, t2}
    Bootstraps = {b1, b2, b3, b4}
    Provisions = {p1, p2, p3}
    Ends = {e1}
    ThreadOf <- MCThreadOf
    Reserves <- MCReserves
    ReferenceOf <- MCReferenceOf
    BootstrapLimit = 2
    Cursors <- MCCursors
INVARIANTS CatalogClosed FilesAgree ReservedExclusive
PROPERTIES StartsUnlessMissing PublishedSpec
