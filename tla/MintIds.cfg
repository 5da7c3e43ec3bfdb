SPECIFICATION Spec
CONSTANTS
    k1 = k1
    k2 = k2
    k3 = k3
    None = None
    Torn = Torn
    Calls = {k1, k2}
    Base <- TwoTeams
    Slug <- MCSlug
    Bases <- MCBases
    Folders <- MCFolders
    Above <- MCAbove
    Wanted <- NoneWanted
    Suffixes = {s1}
    Founded <- FullFounded
    MaxClock = 1
    MaxTries = 1
    MaxCrashes = 0
CHECK_DEADLOCK FALSE
INVARIANTS RunIdsUnique
