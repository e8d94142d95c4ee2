SPECIFICATION Spec
CONSTANTS
    g1 = g1
    g2 = g2
    idle = idle
    busy = busy
    f1 = f1
    f2 = f2
    f3 = f3
    s1 = s1
    Fields = {f1, f2, f3}
    Gauged = {f1, f2}
    GPUs = {g1, g2}
    Dynamic = {idle, busy}
    Values = {3, 5}
    Batches <- MCBatches
    Scrapers = {s1}
    Absent = Absent
    Unseen = Unseen
    NotRead = NotRead
    Nothing = Nothing
SYMMETRY Symmetry
INVARIANTS
    TypeOK
    BookkeepingExact
    ScrapeUnambiguous
    PublishedWhenDone
PROPERTIES
    ImplementsBoard
