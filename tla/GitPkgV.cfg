SPECIFICATION Spec
CONSTANTS
    t1 = t1
    t2 = t2
    Tasks <- Two
    Urls <- TwoUrls
    Tagged = {"b"}
    Inodes = {1, 2, 3}
INVARIANTS
    TypeOK
    AloneExact
    WarmExact
SYMMETRY Swapped
