SPECIFICATION Spec
CONSTANTS
    None = None  Torn = Torn
    cowork = cowork  code = code  codex = codex  home = home  away = away
    n1 = n1  n2 = n2  n3 = n3
    sandboxedCowork = sandboxedCowork  coworkAtHome = coworkAtHome
    codexAtHome = codexAtHome  codeAtHome = codeAtHome  codexAway = codexAway
    sandboxedCodex = sandboxedCodex  sandboxedCodexAway = sandboxedCodexAway
    heartbeat = heartbeat  byHand = byHand
    Clients <- MCClients  Machines <- MCMachines  SeatNames <- MCSeatNames
    ClientOf <- MCClientOf  MachineOf <- MCMachineOf  Sandboxed <- MCSandboxed
    IssuerOn <- MCIssuerOn  IssuerFor <- MCIssuerFor
    TTL = 2  TTLMax = 4  Skew = 0
    Configs <- MCConfigs
    Sessions = {sandboxedCodex, sandboxedCodexAway}
    Issuers = {heartbeat}
    MaxNow = 1  MaxLines = 1  MaxReassigns = 0  MaxIssues = 1
INVARIANT OneMachinePerFile
CHECK_DEADLOCK FALSE
