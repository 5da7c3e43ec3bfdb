SPECIFICATION Spec
CONSTANTS
    c1 = c1
    c2 = c2
    w1 = w1
    Absent = Absent
    Torn = Torn
    Link = Link
    None = None
    Clients = {c1}
    Healers = {}
    Versions <- MCVersions
    Plugin <- FleetPlugin
    Core <- MCCore
    OnDemand <- MCOnDemand
    Bytes <- MCBytes
    Paths <- MCPaths
    Stamp <- MCStamp
    Temps = {t1, t2}
    Works = {w1}
    RepairFlags = {FALSE}
    Disturbances <- NoDisturbances
    MaxBegins = 1
    MaxCrashes = 0
    MaxDisturbs = 0
CHECK_DEADLOCK FALSE
INVARIANTS InstallHeals
