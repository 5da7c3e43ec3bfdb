---------------------------- MODULE ContextPrune ----------------------------
(***************************************************************************)
(* tools/context-prune.mjs --apply over tools/prune-write.mjs: each run    *)
(* plans for every startup file from one reading, then, file after file,   *)
(* appends the entries to the file's archive, reads the archive back,      *)
(* writes the replacement beside the source and renames it over.  Between  *)
(* any two of these steps the owner may save the file, another run may     *)
(* take a step, and the run may die.                                       *)
(***************************************************************************)
EXTENDS PruneUnits

CONSTANTS Files,        \* the startup files of one campus
          Entries,      \* those that are the chief of staff's entry file
          Generated,    \* those that say of themselves they are generated
          Runs,         \* prune runs with --apply
          Cutoff,       \* run -> the lines older than its --days
          Texts,        \* initial texts of each file
          PinnedForm,   \* a line -> the line the owner makes of it by pinning it
          MaxSaves, MaxFaults, MaxRuns

ASSUME PruneAssumption ==
    /\ Entries \subseteq Files /\ Generated \subseteq Files
    /\ IsFiniteSet(Files)
    /\ Cutoff \in [Runs -> SUBSET Aged]
    /\ Texts \in [Files -> SUBSET Seq(Lines)]
    /\ PinnedForm \in [Lines -> Lines]
    /\ MaxSaves \in Nat /\ MaxFaults \in Nat /\ MaxRuns \in [Runs -> Nat \cup {-1}]

(* A line has one place: what is written twice are two lines.              *)
ASSUME OnePlace ==
    /\ \A f \in Files : \A t \in Texts[f] : IsInjective(t)
    /\ \A l \in Lines : PinnedForm[l] \in Pinned \cup {l}

VARIABLES text,      \* file -> its lines on disk
          archive,   \* file -> line -> copies in its archive (0, 1, 2 = more)
          run,       \* run -> [pc, todo, file, plan, ok]
          saves, faults, runs,
          (* History, read by no action:                                   *)
          owned,     \* file -> lines the owner wrote and did not take out
          odd        \* file -> what happened that a careful reader must know:
                     \* "interrupted" an apply ended after its append,
                     \* before its rename; "overwrote" a rename replaced a
                     \* text that was not the one planned from; "window"
                     \* the owner saved between a run's last comparison
                     \* and its rename
vars == <<text, archive, run, saves, faults, runs, owned, odd>>

Plans == [Files \ Generated -> [original : Seq(TextLines), units : SUBSET (Nat \ {0})]]

RunStates == [pc : {"idle", "next", "append", "readback", "temp", "rename", "verify"},
              todo : SUBSET Files, file : SUBSET Files, plan : {<<>>} \cup Plans, ok : BOOLEAN]

Idle == [pc |-> "idle", todo |-> {}, file |-> {}, plan |-> <<>>, ok |-> TRUE]

PruneInit ==
    /\ text \in {t \in [Files -> UNION {Texts[f] : f \in Files}] :
                    \A f \in Files : t[f] \in Texts[f]}
    /\ archive = [f \in Files |-> [l \in TextLines |-> 0]]
    /\ run = [r \in Runs |-> Idle]
    /\ saves = 0 /\ faults = 0 /\ runs = [r \in Runs |-> 0]
    /\ owned = [f \in Files |-> ToSet(text[f])]
    /\ odd = [f \in Files |-> {}]

Units(r, f, t) == UnitsIn(t, f \in Entries, Cutoff[r])

(* The startup set is read and planned before anything is written; a file  *)
(* that says it is generated is refused.                                   *)
Plan(r) ==
    LET work == {f \in Files \ Generated : Units(r, f, text[f]) # {}}
        plan == [f \in Files \ Generated |->
                    [original |-> text[f], units |-> Units(r, f, text[f])]]
    IN  /\ run[r].pc = "idle" /\ work # {}
        /\ MaxRuns[r] # -1 => runs[r] < MaxRuns[r]
        /\ runs' = IF MaxRuns[r] = -1 THEN runs ELSE [runs EXCEPT ![r] = @ + 1]
        /\ run' = [run EXCEPT ![r] = [Idle EXCEPT !.pc = "next", !.todo = work, !.plan = plan]]
        /\ UNCHANGED <<text, archive, saves, faults, owned, odd>>

(* Mutant: the source is not compared with what was planned from.          *)
Uncompared(r, f) == TRUE

Original(r, f) == run[r].plan[f].original

Entered(r, f) == Moved(Original(r, f), run[r].plan[f].units)

Replaced(r, f) == Replacement(Original(r, f), run[r].plan[f].units)

Unchanged(r, f) == text[f] = Original(r, f)

Step(r, pc) == run' = [run EXCEPT ![r].pc = pc]

(* Mutant: a failed apply is not left behind.                              *)
FailStays(r) == run' = [run EXCEPT ![r].ok = FALSE]

Fail(r) == run' = [run EXCEPT ![r].pc = "next", ![r].ok = FALSE]

(* The next file of the plan: refused before any write when it changed.    *)
NextFile(r) ==
    /\ run[r].pc = "next"
    /\ \E f \in run[r].todo :
          LET same == Unchanged(r, f)
          IN  run' = [run EXCEPT ![r].todo = @ \ {f}, ![r].file = {f}, ![r].ok = @ /\ same,
                                 ![r].pc = IF same THEN "append" ELSE "next"]
    /\ UNCHANGED <<text, archive, saves, faults, runs, owned, odd>>

(* Exit 0 or 2: the plan is worked through, whatever failed on the way.    *)
Exit(r) ==
    /\ run[r].pc = "next" /\ run[r].todo = {}
    /\ run' = [run EXCEPT ![r] = [Idle EXCEPT !.ok = run[r].ok]]
    /\ UNCHANGED <<text, archive, saves, faults, runs, owned, odd>>

Working(r) == run[r].file

Copied(f, ls) == [archive EXCEPT ![f] = [l \in TextLines |->
                    IF l \in ls THEN (IF @[l] = 2 THEN 2 ELSE @[l] + 1) ELSE @[l]]]

Interrupted(r, f) == Fail(r) /\ odd' = [odd EXCEPT ![f] = @ \cup {"interrupted"}]

(* O_APPEND to the month's archive.  A full disk leaves any part of it and *)
(* an error, a store that lies any part and none.                          *)
AppendArchive(r) ==
    /\ run[r].pc = "append"
    /\ \E f \in Working(r) : LET ls == Entered(r, f) IN
        \/ archive' = Copied(f, ls) /\ Step(r, "readback") /\ UNCHANGED <<faults, odd>>
        \/ /\ faults < MaxFaults /\ faults' = faults + 1
           /\ \E part \in SUBSET ls : archive' = Copied(f, part)
           /\ \/ Interrupted(r, f)
              \/ Step(r, "readback") /\ UNCHANGED odd
    /\ UNCHANGED <<text, saves, runs, owned>>

(* Every unit must be found in the archive read back.                      *)
Preserved(r, f) == \A l \in Entered(r, f) : archive[f][l] > 0

ReadBack(r) ==
    /\ run[r].pc = "readback"
    /\ \E f \in Working(r) :
        \/ Preserved(r, f) /\ Unchanged(r, f) /\ Step(r, "temp") /\ UNCHANGED odd
        \/ ~(Preserved(r, f) /\ Unchanged(r, f)) /\ Interrupted(r, f)
    /\ UNCHANGED <<text, archive, saves, faults, runs, owned>>

(* The replacement goes to a sibling of random name, is read back, and the *)
(* source is compared a last time.                                         *)
WriteTemp(r) ==
    /\ run[r].pc = "temp"
    /\ \E f \in Working(r) :
        \/ Unchanged(r, f) /\ Step(r, "rename") /\ UNCHANGED <<faults, odd>>
        \/ ~Unchanged(r, f) /\ Interrupted(r, f) /\ UNCHANGED faults
        \/ faults < MaxFaults /\ faults' = faults + 1 /\ Interrupted(r, f)
    /\ UNCHANGED <<text, archive, saves, runs, owned>>

Rename(r) ==
    /\ run[r].pc = "rename"
    /\ \E f \in Working(r) :
        /\ text' = [text EXCEPT ![f] = Replaced(r, f)]
        /\ odd' = IF Unchanged(r, f) THEN odd
                  ELSE [odd EXCEPT ![f] = @ \cup {"overwrote"}]
    /\ Step(r, "verify")
    /\ UNCHANGED <<archive, saves, faults, runs, owned>>

Verify(r) ==
    /\ run[r].pc = "verify"
    /\ \E f \in Working(r) : IF text[f] = Replaced(r, f) THEN Step(r, "next") ELSE Fail(r)
    /\ UNCHANGED <<text, archive, saves, faults, runs, owned, odd>>

Appended(r) == run[r].pc \in {"readback", "temp", "rename"}

(* The process dies; a temporary sibling of its own name may stay behind.  *)
Crash(r) ==
    /\ run[r].pc # "idle" /\ faults < MaxFaults
    /\ faults' = faults + 1
    /\ odd' = [f \in Files |-> IF f \in Working(r) /\ Appended(r)
                               THEN odd[f] \cup {"interrupted"} ELSE odd[f]]
    /\ run' = [run EXCEPT ![r] = Idle]
    /\ UNCHANGED <<text, archive, saves, runs, owned>>

-----------------------------------------------------------------------------
(* The owner saves the file from an editor: a line added at the end, one   *)
(* taken out, or one pinned.  A line has one place and is written once.    *)
OwnerSaves(f) ==
    /\ saves < MaxSaves /\ saves' = saves + 1
    /\ \/ \E l \in Lines \ UNION {owned[g] : g \in Files} :
            /\ text' = [text EXCEPT ![f] = Append(@, l)]
            /\ owned' = [owned EXCEPT ![f] = @ \cup {l}]
       \/ \E i \in DOMAIN text[f] :
            /\ text' = [text EXCEPT ![f] = RemoveAt(@, i)]
            /\ owned' = [owned EXCEPT ![f] = @ \ {text[f][i]}]
       \/ \E i \in DOMAIN text[f] :
            /\ text[f][i] \in Lines /\ PinnedForm[text[f][i]] # text[f][i]
            /\ text' = [text EXCEPT ![f][i] = PinnedForm[@]]
            /\ owned' = [owned EXCEPT ![f] = (@ \ {text[f][i]}) \cup {PinnedForm[text[f][i]]}]
    /\ odd' = IF \E r \in Runs : f \in Working(r) /\ run[r].pc = "rename"
              THEN [odd EXCEPT ![f] = @ \cup {"window"}] ELSE odd
    /\ UNCHANGED <<archive, run, faults, runs>>

RunStep(r) == \/ Plan(r) \/ NextFile(r) \/ Exit(r) \/ AppendArchive(r) \/ ReadBack(r)
              \/ WriteTemp(r) \/ Rename(r) \/ Verify(r)

PruneNext == \/ \E r \in Runs : RunStep(r) \/ Crash(r)
             \/ \E f \in Files : OwnerSaves(f)

PruneSpec == PruneInit /\ [][PruneNext]_vars

(* A run, once started, is a straight-line program; a run without a bound  *)
(* on its starts stands for the owner who answers the startup offer.       *)
FairPruneSpec == PruneSpec /\ \A r \in Runs : WF_vars(RunStep(r))

-----------------------------------------------------------------------------
PruneTypeOK ==
    /\ text \in [Files -> Seq(TextLines)]
    /\ archive \in [Files -> [TextLines -> 0..2]]
    /\ run \in [Runs -> RunStates]
    /\ saves \in Nat /\ faults \in Nat /\ runs \in [Runs -> Nat]
    /\ owned \in [Files -> SUBSET Lines]
    /\ odd \in [Files -> SUBSET {"interrupted", "overwrote", "window"}]

(* A line the owner wrote and did not take out is in the file or in its    *)
(* archive, whatever runs at once, fails or dies ("Never a bare delete",   *)
(* context-prune.mjs:17).  The one exception is the owner's own save       *)
(* between the last comparison and the rename (prune-write.mjs:31-32): two *)
(* runs with different --days overwrite each other and still lose nothing. *)
OwnerLinesKept ==
    \A f \in Files : \A l \in owned[f] :
        \/ l \in ToSet(text[f])
        \/ archive[f][l] > 0
        \/ "window" \in odd[f]

(* An entry is in the archive twice only where an apply ended between its  *)
(* append and its rename, or a rename put an entry back (prune-write.mjs   *)
(* appends before it knows that it will replace, and never looks for the   *)
(* entry already being there).                                             *)
CopiesExplained ==
    \A f \in Files, l \in Lines : archive[f][l] > 1 =>
        odd[f] # {} \/ \E r \in Runs : f \in Working(r) /\ Appended(r)

(* The run whose owner keeps starting it leaves nothing it may move, once  *)
(* saves, faults and other runs have ended: no failed apply, leftover      *)
(* archive copy or overwritten replacement keeps it from finishing.        *)
PruneSettles ==
    \A r \in Runs : MaxRuns[r] = -1 =>
        <>[](\A f \in Files \ Generated : Units(r, f, text[f]) = {})

=============================================================================
