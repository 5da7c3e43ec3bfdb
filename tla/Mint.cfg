SPECIFICATION FairSpec
CONSTANTS
    k1 = k1
    k2 = k2
    k3 = k3
    None = None
    Torn = Torn
    Calls = {k1, k2, k3}
    Base <- OneTeam
    Slug <- MCSlug
    Bases <- MCBases
    Folders <- MCFolders
    Above <- MCAbove
    Wanted <- ThirdWanted
    Suffixes = {s1, s2}
    Founded <- MCFounded
    MaxClock = 1
    MaxTries = 2
    MaxCrashes = 1
CHECK_DEADLOCK FALSE
INVARIANTS TypeOK RunsDistinct RunsAccountedFor
PROPERTIES ClaimsOnce MintEnds
