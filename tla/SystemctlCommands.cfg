SPECIFICATION FairSpec
CONSTANTS
    Bases = {"a", "b", "c", "d", "t"}
    Instances = {"1"}
    Images <- CommandImages
    PresetNames = {1, 2}
    Requests <- CommandRequests
    MaxDepth = 4
    MaxCmds = 2
INVARIANTS
    TypeOK
    LinksJustified
PROPERTIES
    FirstLinkWins
    MaskFinal
    CommandsAdvance
    CommandEnds
CHECK_DEADLOCK FALSE
