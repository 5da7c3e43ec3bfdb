------------------------------ MODULE RunMint ------------------------------
(***************************************************************************)
(* Minting a run id and its folder (src/tools/mint_run_id.py, mint).       *)
(*                                                                         *)
(* Every team run starts with one `mint` process: it reads the clock,      *)
(* looks whether the folder of that millisecond exists, draws a suffix if  *)
(* it does, makes the folders above one at a time, makes the run folder    *)
(* and writes the results.json stub in it.  Calls of different sessions    *)
(* run at once on the one campus folder and each step is a system call of  *)
(* its own; what makes a run one call's alone is that mkdir of the last    *)
(* folder fails when it exists.                                            *)
(***************************************************************************)
EXTENDS Integers, Sequences

CONSTANTS
    Calls,      \* the mint processes
    Base,       \* Base[k]: the owner and slug folder call k mints in
    Slug,       \* Slug[b]: the slug the ids of base b start with
    Bases,
    Folders,    \* the folders between the campus root and the runs
    Above,      \* Above[b][t]: those above a run of base b at time t, from the top
    Wanted,     \* Wanted[k]: the explicit run id of a deterministic caller, or None
    Suffixes,   \* what token_hex(2) can draw
    Founded,    \* the states the folders can be in when the calls start
    None, Torn,
    MaxClock,   \* the last millisecond
    MaxTries,   \* how many suffixes are drawn
    MaxCrashes

Kinds == {"none", "dir", "file", "link"}
Ticks == 0..MaxClock

\* A run: its base, its millisecond, its suffix or None.
Runs == Bases \X Ticks \X (Suffixes \cup {None})

ASSUME CallsAssumption ==
    /\ Base \in [Calls -> Bases]
    /\ Wanted \in [Calls -> Ticks \cup {None}]
    /\ Calls \cap {None, Torn} = {} /\ None # Torn
    /\ None \notin Suffixes \cup Ticks

ASSUME FoldersAssumption ==
    /\ Above \in [Bases -> [Ticks -> Seq(Folders)]]
    /\ Founded \subseteq [Folders -> Kinds]

ASSUME BoundsAssumption ==
    MaxClock \in Nat /\ MaxTries \in Nat /\ MaxCrashes \in Nat

-----------------------------------------------------------------------------

VARIABLES
    clock,     \* the millisecond it is
    tree,      \* what each folder above the runs is
    runs,      \* the run folders there are
    results,   \* per run, the results.json: None, Torn (empty), or the call it is of
    call,      \* per mint call, where it is
    maker,     \* history: the call that made each run folder
    crashes

vars == <<clock, tree, runs, results, call, maker, crashes>>

PCs == {"new", "probe", "suffix", "look", "make", "open", "fill", "done"}
Refusals == {"existing-run-dir", "collision-exhausted", "link-in-path", "not-a-folder",
             "existing-results-json"}
Exits == {"none", "ok", "crashed"} \cup Refusals

SetCall(k, c) == call' = [call EXCEPT ![k] = c]

End(k, exit) == SetCall(k, [call[k] EXCEPT !.pc = "done", !.exit = exit])

Path(k) == Above[Base[k]][call[k].run[2]]

\* The folders are walked from the campus root.
Descend(c, run) == [c EXCEPT !.run = run, !.pc = "look", !.i = 1]

Free(r) == r \notin runs

\* Mutant: the folder may exist already (exist_ok).
MakeAnyway(r) == TRUE

\* mkdir without exist_ok: it fails when the name is taken.
CanMake(r) == r \notin runs

\* results.json is opened with mode "x".
CanOpen(r) == results[r] = None

\* Mutant: the loop starts again when its draws are spent.
UntilFree(n) == IF n + 1 < MaxTries THEN n + 1 ELSE 0

\* One of the range(32) draws is spent.
Drawn(n) == n + 1

\* Mutant: one draw too many.
OneMoreDraw(n) == n > MaxTries

Exhausted(n) == n >= MaxTries

-----------------------------------------------------------------------------

\* now is read once: the id and the month folder come from the same instant.
Start(k) ==
    /\ call[k].pc = "new"
    /\ LET t == IF Wanted[k] = None THEN clock ELSE Wanted[k]
       IN SetCall(k, [call[k] EXCEPT !.pc = "probe", !.run = <<Base[k], t, None>>])
    /\ UNCHANGED <<clock, tree, runs, results, maker, crashes>>

\* An explicit id is refused when its folder exists; a minted one gets a suffix.
Probe(k) ==
    LET r == call[k].run IN
    /\ call[k].pc = "probe"
    /\ IF Free(r)
       THEN SetCall(k, Descend(call[k], r))
       ELSE IF Wanted[k] # None
       THEN End(k, IF results[r] # None THEN "existing-results-json" ELSE "existing-run-dir")
       ELSE SetCall(k, [call[k] EXCEPT !.pc = "suffix"])
    /\ UNCHANGED <<clock, tree, runs, results, maker, crashes>>

\* One draw of token_hex(2), kept when no folder has it.
TrySuffix(k, s) ==
    LET r == <<call[k].run[1], call[k].run[2], s>> IN
    /\ call[k].pc = "suffix"
    /\ IF Exhausted(call[k].tries)
       THEN End(k, "collision-exhausted")
       ELSE IF Free(r)
       THEN SetCall(k, Descend(call[k], r))
       ELSE SetCall(k, [call[k] EXCEPT !.tries = Drawn(call[k].tries)])
    /\ UNCHANGED <<clock, tree, runs, results, maker, crashes>>

\* A folder above the run: a link or a file in its place is refused, a folder is entered.
Look(k) ==
    LET f == Path(k)[call[k].i] IN
    /\ call[k].pc = "look" /\ call[k].i <= Len(Path(k))
    /\ CASE tree[f] = "link" -> End(k, "link-in-path")
         [] tree[f] = "file" -> End(k, "not-a-folder")
         [] tree[f] = "dir"  -> SetCall(k, [call[k] EXCEPT !.i = call[k].i + 1])
         [] tree[f] = "none" -> SetCall(k, [call[k] EXCEPT !.pc = "make"])
    /\ UNCHANGED <<clock, tree, runs, results, maker, crashes>>

\* The folder was not there a moment ago.  If another call made it since, mkdir raises
\* FileExistsError, which mint reports as an existing run folder.
Make(k) ==
    LET f == Path(k)[call[k].i] IN
    /\ call[k].pc = "make"
    /\ IF tree[f] = "none"
       THEN /\ tree' = [tree EXCEPT ![f] = "dir"]
            /\ SetCall(k, [call[k] EXCEPT !.pc = "look", !.i = call[k].i + 1])
       ELSE /\ End(k, "existing-run-dir")
            /\ UNCHANGED tree
    /\ UNCHANGED <<clock, runs, results, maker, crashes>>

\* The run folder itself must be new: this mkdir is what claims the run.
\* (No folder here turns into a link during the walk, and so the resolve() that comes next
\* finds the run where it was made.)
MakeRun(k) ==
    LET r == call[k].run IN
    /\ call[k].pc = "look" /\ call[k].i > Len(Path(k))
    /\ IF CanMake(r)
       THEN /\ runs' = runs \cup {r}
            /\ maker' = [maker EXCEPT ![r] = k]
            /\ SetCall(k, [call[k] EXCEPT !.pc = "open"])
       ELSE /\ End(k, "existing-run-dir")
            /\ UNCHANGED <<runs, maker>>
    /\ UNCHANGED <<clock, tree, results, crashes>>

OpenResults(k) ==
    LET r == call[k].run IN
    /\ call[k].pc = "open"
    /\ IF CanOpen(r)
       THEN /\ results' = [results EXCEPT ![r] = Torn]
            /\ SetCall(k, [call[k] EXCEPT !.pc = "fill"])
       ELSE /\ End(k, "existing-results-json")
            /\ UNCHANGED results
    /\ UNCHANGED <<clock, tree, runs, maker, crashes>>

\* The stub is dumped, and the run id printed.
FillResults(k) ==
    /\ call[k].pc = "fill"
    /\ results' = [results EXCEPT ![call[k].run] = k]
    /\ End(k, "ok")
    /\ UNCHANGED <<clock, tree, runs, maker, crashes>>

\* The process dies; nothing is undone.
Crash(k) ==
    /\ crashes < MaxCrashes
    /\ call[k].pc \notin {"new", "done"}
    /\ End(k, "crashed")
    /\ crashes' = crashes + 1
    /\ UNCHANGED <<clock, tree, runs, results, maker>>

Tick ==
    /\ clock < MaxClock
    /\ clock' = clock + 1
    /\ UNCHANGED <<tree, runs, results, call, maker, crashes>>

-----------------------------------------------------------------------------

Init ==
    /\ clock = 0
    /\ tree \in Founded
    /\ runs = {}
    /\ results = [r \in Runs |-> None]
    /\ call = [k \in Calls |-> [pc |-> "new", run |-> <<Base[k], 0, None>>, i |-> 1,
                                tries |-> 0, exit |-> "none"]]
    /\ maker = [r \in Runs |-> None]
    /\ crashes = 0

\* What a call does once it has started.
Step(k) ==
    \/ Probe(k)
    \/ \E s \in Suffixes : TrySuffix(k, s)
    \/ Look(k) \/ Make(k) \/ MakeRun(k)
    \/ OpenResults(k) \/ FillResults(k)

Next ==
    \/ \E k \in Calls : Start(k) \/ Step(k) \/ Crash(k)
    \/ Tick

Spec == Init /\ [][Next]_vars

\* A started process is scheduled.  Nothing obliges anyone to start one.
FairSpec == Spec /\ \A k \in Calls : WF_vars(Step(k))

-----------------------------------------------------------------------------
(* Properties.                                                             *)

RunId(r) == <<Slug[r[1]], r[2], r[3]>>

\* The variables hold what the program can put in them (mint_run_id.py, mint).
TypeOK ==
    /\ clock \in Ticks
    /\ tree \in [Folders -> Kinds]
    /\ runs \subseteq Runs
    /\ results \in [Runs -> Calls \cup {None, Torn}]
    /\ call \in [Calls -> [pc : PCs, run : Runs, i : Nat, tries : 0..MaxTries, exit : Exits]]
    /\ maker \in [Runs -> Calls \cup {None}]
    /\ crashes \in 0..MaxCrashes

\* The call is past the mkdir of its run: it writes the stub, or has reported the run.
Holds(k) == call[k].pc \in {"open", "fill"} \/ call[k].exit = "ok"

\* Two calls never get as far as writing in the same run folder, let alone report it,
\* however their looks, draws and mkdirs interleaved (the exists() tests are stale by the
\* time mkdir runs).
RunsDistinct ==
    \A k, l \in Calls :
        k # l /\ Holds(k) /\ Holds(l) => call[k].run # call[l].run

\* Every run folder is accounted for: its results.json is the stub of the one call that
\* made it, or that call is still about to write it, or it died first.  A refused call
\* leaves no run folder behind.
RunsAccountedFor ==
    \A r \in runs :
        LET k == maker[r] IN
        /\ k # None
        /\ call[k].run = r
        /\ \/ call[k].exit = "ok" /\ results[r] = k
           \/ call[k].pc \in {"open", "fill"} /\ results[r] \in {None, Torn}
           \/ call[k].exit = "crashed" /\ results[r] \in {None, Torn}

Stubs == [r \in Runs |-> IF results[r] \in Calls THEN results[r] ELSE None]

Claims == INSTANCE RunClaims WITH holder <- maker, author <- Stubs

\* A run is claimed once and its results.json written once, by the call that claimed it
\* (MintRefused: "may not be overwritten").
ClaimsOnce == Claims!Spec

\* A call that has started and does not die ends: the suffix loop and the walk down the
\* folders are finite whatever the other calls do.
MintEnds ==
    \A k \in Calls : call[k].pc # "new" ~> call[k].pc = "done"

\* A call refused for an existing run folder was refused because its run target exists.
RefusedForCause ==
    \A k \in Calls : call[k].exit = "existing-run-dir" => call[k].run \in runs

\* A run id names one run: the suffix is added on a same-millisecond collision.
RunIdsUnique ==
    \A r, q \in Runs :
        r # q /\ maker[r] # None /\ maker[q] # None => RunId(r) # RunId(q)
=============================================================================
