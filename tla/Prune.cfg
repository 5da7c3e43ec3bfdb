SPECIFICATION FairPruneSpec
CONSTANTS
    memory = memory
    entry = entry
    r1 = r1
    r2 = r2
    h1 = h1
    hOld = hOld
    hPrefs = hPrefs
    old = old
    cont = cont
    older = older
    pinned = pinned
    out = out
    pref = pref
    ptr = ptr
    Lines <- MCLines
    Level <- MCLevel
    Items <- MCItems
    Indented = {cont}
    Aged = {hOld, old, older, out, pref}
    Marked = {hOld, cont, older, out, pref}
    Pinned = {pinned}
    Prefs = {hPrefs}
    Pointer = ptr
    Files = {memory, entry}
    Entries = {entry}
    Generated = {}
    Runs = {r1, r2}
    Cutoff <- MCCutoff
    Texts <- MCTexts
    PinnedForm <- MCPinnedForm
    MaxSaves = 1
    MaxFaults = 1
    MaxRuns <- MCMaxRuns
CHECK_DEADLOCK FALSE
INVARIANTS OwnerLinesKept CopiesExplained
PROPERTIES PruneSettles
