----------------------------- MODULE RunClaims -----------------------------
(***************************************************************************)
(* What the minter of run ids promises (src/tools/mint_run_id.py): a run   *)
(* folder is claimed once, by one mint call, and its results.json is       *)
(* written once, by the call that claimed the folder.                      *)
(***************************************************************************)
CONSTANTS Calls, Runs, None

VARIABLES
    holder,   \* the call that claimed each run, None before
    author    \* the call whose stub the run's results.json is, None before

Claim(k, r) ==
    /\ holder[r] = None
    /\ holder' = [holder EXCEPT ![r] = k]
    /\ UNCHANGED author

Write(r) ==
    /\ holder[r] # None
    /\ author[r] = None
    /\ author' = [author EXCEPT ![r] = holder[r]]
    /\ UNCHANGED holder

Init ==
    /\ holder = [r \in Runs |-> None]
    /\ author = [r \in Runs |-> None]

Next ==
    \/ \E k \in Calls, r \in Runs : Claim(k, r)
    \/ \E r \in Runs : Write(r)

Spec == Init /\ [][Next]_<<holder, author>>
=============================================================================
