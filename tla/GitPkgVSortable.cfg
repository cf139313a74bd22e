SPECIFICATION Spec
CONSTANTS
    t1 = t1
    t2 = t2
    Tasks <- Two
    Urls <- OneUrl
    Tagged = {"b"}
    Inodes = {1, 2, 3}
INVARIANTS
    SortableVersion
SYMMETRY Swapped
