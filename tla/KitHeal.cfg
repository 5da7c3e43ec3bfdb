SPECIFICATION FairSpec
CONSTANTS
    c1 = c1
    c2 = c2
    w1 = w1
    Absent = Absent
    Torn = Torn
    Link = Link
    None = None
    Clients = {c1, c2}
    Healers = {c1}
    Versions <- MCVersions
    Plugin <- MixedPlugin
    Core <- MCCore
    OnDemand <- MCOnDemand
    Bytes <- MCBytes
    Paths <- MCPaths
    Stamp <- MCStamp
    Temps = {t1, t2, t3}
    Works = {w1}
    RepairFlags = {FALSE, TRUE}
    Disturbances <- LinkDisturbances
    MaxBegins = 1
    MaxCrashes = 1
    MaxDisturbs = 1
CHECK_DEADLOCK FALSE
INVARIANTS KnownBytes TempsPrivate
PROPERTIES Heals DownOnlyByRace
