---------------------------- MODULE MCSeatLedger ----------------------------
(* A campus on one Mac, with a second machine that mounts it. *)
EXTENDS SeatLedger

CONSTANTS cowork, code, codex, home, away, n1, n2, n3,
          sandboxedCowork, coworkAtHome, codexAtHome, codeAtHome, codexAway,
          sandboxedCodex, sandboxedCodexAway,
          heartbeat, byHand

MCClients == {cowork, code, codex}
MCMachines == {home, away}
MCSeatNames == {n1, n2, n3}

MCClientOf ==
    [s \in Sessions |->
        IF s \in {sandboxedCowork, coworkAtHome} THEN cowork
        ELSE IF s = codeAtHome THEN code ELSE codex]
MCMachineOf ==
    [s \in Sessions |-> IF s \in {codexAway, sandboxedCodexAway} THEN away ELSE home]
MCSandboxed == Sessions \cap {sandboxedCowork, sandboxedCodex, sandboxedCodexAway}

\* The heartbeat runs for Cowork and stays installed when the clock changes hands.
MCIssuerOn == [i \in Issuers |-> home]
MCIssuerFor == [i \in Issuers |-> IF i = heartbeat THEN cowork ELSE codex]

Campus(owner, codeRole, codeSeat) ==
    [schema |-> 2, machine |-> home, owner |-> owner, seat |-> n1, role |-> "primary",
     clients |-> [c \in Clients |->
        [seat |-> IF c = cowork THEN n1 ELSE IF c = codex THEN n2 ELSE codeSeat,
         role |-> IF c = code THEN codeRole ELSE "primary"]]]

\* Cowork keeps the clock, or Codex does; no one is named; Claude Code has Cowork's seat.
MCConfigs ==
    {Campus(cowork, "satellite", n3), Campus(codex, "absent", n3),
     Campus(None, "satellite", n3), Campus(codex, "satellite", n1)}

ASSUME EditsKeepHolders == HoldersStay
=============================================================================
