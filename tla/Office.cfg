SPECIFICATION OfficeSpec
CONSTANTS
    Missing = Missing
    Torn = Torn
    intake = intake
    team = team
    mkt = mkt
    office = office
    k1 = k1
    k2 = k2
    g1 = g1
    g2 = g2
    Names = {intake, team}
    EmpDepts = {mkt, office}
    Alias <- MCAlias
    NonDept = {"kernel"}
    StrayDepts = {"stray"}
    Miscased <- MCMiscased
    Kernels = {k1, k2}
    Ships <- MCShips
    Runners = {g1, g2}
    KernelOf <- MCKernelOf
    MaxRuns = 3
    MaxOwner = 2
    Teams = {t1}
    Caches = 2
    Copies <- MCCopies
    Scanners = {s1, s2}
    MaxScans = 3
    MaxChanges = 2
    MaxReviews = 1
    Tasks = {t1, t2}
    ScheduleFiles <- MCScheduleFiles
    daily = daily
    weekly = weekly
    hourly = hourly
    allday = allday
    Crons = {daily, weekly, hourly, allday}
    FieldsOf <- MCFieldsOf
    Spans = {5, 7}
    MaxClock = 12
    MaxEdits = 2
    MaxChecks = 1
    TaskFiles <- MCTaskFiles
    Kinds <- MCKinds
    DaySpans = {8, 35}
    RowBudget = 240
    Budget = 440
    TitleLine = 60
    Heading = 18
    LastLine = 69
    Junk = Junk
    MaxTaskEdits = 2
    MaxDays = 35
    MaxLooks = 1
    Results <- MCResults
    MaxUpsets = 2
    parentEntry = parentEntry
    rootEntry = rootEntry
    deanEntry = deanEntry
    memory = memory
    notes = notes
    Docs = {memory, notes}
    Gone = Gone
    Texts <- MCTexts
    Declared <- MCDeclared
    audience = audience
    offers = offers
    Rows <- MCRows
    Canonical <- MCCanonical
    Founding <- MCFounding
    Aliases <- MCAliases
    CanonicalWins = {offers}
    Sessions = {s1, s2}
    MaxOutside = 2
    MaxWrites = 2
    Words = {1, 2, 3}
    Triggers <- MCTriggers
    Zone <- MCZone
    Window = 2
    MinCluster = 2
    SlugWords = 1
    Cap = 1
    MaxLines = 4
    MaxNow = 4
    MaxRecruits = 2
SYMMETRY Symmetry
CHECK_DEADLOCK FALSE
INVARIANTS MergeSettles CheckedIsCounted
    ReviewIsOfLastTwo PreviousIsOlder
    StalledIsLate CleanIsInSync
    CheckedIsTrue DigestFits
    ExitZeroIsHealthy
    CompleteIsWhatIsRead
    PriorityBeforeSpelling WeighedIsRead
    DecidedOnce
PROPERTIES RosterKept EntriesKept NoSecondName
