SPECIFICATION Spec
CONSTANTS
    None = None  Torn = Torn
    cowork = cowork  code = code  codex = codex  home = home  away = away
    n1 = n1  n2 = n2  n3 = n3
    sandboxedCowork = sandboxedCowork  coworkAtHome = coworkAtHome
    codexAtHome = codexAtHome  codeAtHome = codeAtHome  codexAway = codexAway
    sandboxedCodex = sandboxedCodex  sandboxedCodexAway = sandboxedCodexAway
    heartbeat = heartbeat  byHand = byHand
    Clients <- MCClients  Machines <- MCMachines  SeatNames <- MCSeatNames
    ClientOf <- MCClientOf  MachineOf <- MCMachineOf  Sandboxed <- MCSandboxed
    IssuerOn <- MCIssuerOn  IssuerFor <- MCIssuerFor
    TTL = 2  TTLMax = 4  Skew = 0
    Configs <- MCConfigs
    Sessions = {sandboxedCowork, codexAtHome, codexAway}
    Issuers = {heartbeat, byHand}
    MaxNow = 3  MaxLines = 2  MaxReassigns = 1  MaxIssues = 2
INVARIANTS TypeOK OneClock ShardPerClient DarkWhenIssuesStop DoctorAgrees DoctorQuiet
CHECK_DEADLOCK FALSE
