SPECIFICATION FairSpecSpec
CONSTANTS
    c1 = c1
    c2 = c2
    k1 = k1
    k2 = k2
    dA = dA
    dB = dB
    pA = pA
    pB = pB
    own = own
    bad = bad
    note = note
    None = None
    Clients = {c1, c2}
    Healers = {c1}
    Kernels = {k1, k2}
    Template <- MCTemplate
    Installed <- MCInstalled
    OwnDepts = {own, bad}
    BadDepts = {bad}
    OwnLines = {note}
    EnumLine = pB
    InitSpecs <- MCInitSpecs
    MaxBegins = 1
    MaxEdits = 1
    MaxUpdates = 1
    MaxCrashes = 1
    MaxSecond = 1
CHECK_DEADLOCK FALSE
INVARIANTS CurrentIsRender
PROPERTIES CanonLostOnly SpecSettles
