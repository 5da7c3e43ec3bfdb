------------------------------ MODULE MCOffice ------------------------------
(***************************************************************************)
(* The machines around the campus's files that share no state with each    *)
(* other, as one model: a behaviour is one of one of them.  The states are *)
(* the sum of theirs, and each property is over the machine it is about.   *)
(***************************************************************************)
EXTENDS OrgChart, WorkforceScan, CronParity, TaskIndex, DoctorEvidence, ContextWeight,
        SharedContext, Recruiting, TLC

CONSTANTS intake, team, mkt, office, k1, k2, g1, g2,  \* OrgChart
          daily, weekly, hourly, allday,              \* CronParity
          memory, notes,                              \* ContextWeight
          audience, offers                            \* SharedContext

VARIABLE machine

Machines == {"org", "scan", "cron", "tasks", "doctor", "weight", "context", "recruit"}

(* The other machines stand still in one of their initial states.          *)
OfficeInit ==
    /\ machine \in Machines
    /\ OrgInit /\ ScanInit /\ CronInit /\ TaskInit /\ DoctorInit /\ WeightInit /\ ContextInit
    /\ RecruitInit
    /\ machine # "weight" => /\ entry = [f \in EntryFiles |-> Missing]
                             /\ docs = {} /\ startup_reads = Missing
    /\ machine # "context" => ~caseless /\ marks["here"] = {}

OrgRuns == machine = "org" /\ OrgNext
    /\ UNCHANGED <<machine, scanvars, cronvars, taskvars, doctorvars, weightvars, contextvars,
                    recruitvars>>
ScanRuns == machine = "scan" /\ ScanNext
    /\ UNCHANGED <<machine, orgvars, cronvars, taskvars, doctorvars, weightvars, contextvars,
                    recruitvars>>
CronRuns == machine = "cron" /\ CronNext
    /\ UNCHANGED <<machine, orgvars, scanvars, taskvars, doctorvars, weightvars, contextvars,
                    recruitvars>>
TasksRun == machine = "tasks" /\ TaskNext
    /\ UNCHANGED <<machine, orgvars, scanvars, cronvars, doctorvars, weightvars, contextvars,
                    recruitvars>>
DoctorRuns == machine = "doctor" /\ DoctorNext
    /\ UNCHANGED <<machine, orgvars, scanvars, cronvars, taskvars, weightvars, contextvars,
                    recruitvars>>
WeightRuns == machine = "weight" /\ WeightNext
    /\ UNCHANGED <<machine, orgvars, scanvars, cronvars, taskvars, doctorvars, contextvars,
                    recruitvars>>
ContextRuns == machine = "context" /\ ContextNext
    /\ UNCHANGED <<machine, orgvars, scanvars, cronvars, taskvars, doctorvars, weightvars,
                    recruitvars>>
RecruitRuns == machine = "recruit" /\ RecruitNext
    /\ UNCHANGED <<machine, orgvars, scanvars, cronvars, taskvars, doctorvars, weightvars,
                    contextvars>>

OfficeNext == OrgRuns \/ ScanRuns \/ CronRuns \/ TasksRun \/ DoctorRuns \/ WeightRuns
              \/ ContextRuns \/ RecruitRuns

OfficeSpec ==
    OfficeInit /\ [][OfficeNext]_<<machine, orgvars, scanvars, cronvars, taskvars, doctorvars,
                                   weightvars, contextvars, recruitvars>>

-----------------------------------------------------------------------------
(* The org chart: k1 ships the skill "intake" as staff, k2 as one of the   *)
(* campus's own systems.                                                   *)
MCShips == k1 :> (intake :> mkt @@ team :> Missing) @@ k2 :> (intake :> "kernel" @@ team :> Missing)
MCAlias == "dean" :> office
MCMiscased == "Retired" :> "retired"
MCKernelOf == g1 :> k1 @@ g2 :> k2

(* A plugin in two versions, the later with a skill more, and a folder     *)
(* whose manifest is lost.                                                 *)
MCCopies ==
    {[named |-> TRUE, version |-> 1, skills |-> 1], [named |-> TRUE, version |-> 2, skills |-> 2],
     [named |-> FALSE, version |-> 0, skills |-> 2]}

(* Schedules: a daily, a weekly, an hourly one, and one of some days only. *)
MCScheduleFiles == <<"a.md", "b.md">>
Every(m, h, dm, mo, dw) == [minute |-> m, hour |-> h, dom |-> dm, month |-> mo, dow |-> dw]
MCFieldsOf ==
    [c \in Crons |-> CASE c = daily -> Every("at", "at", "*", "*", "*")
                     [] c = weekly -> Every("at", "at", "*", "*", "at")
                     [] c = hourly -> Every("at", "step", "*", "*", "*")
                     [] c = allday -> Every("step", "*", "*", "*", "list")]

(* Task files of every fate, with rows that fit, are cut at a character or *)
(* inside one, and are omitted.                                            *)
MCTaskFiles == <<"a.md", "b.md">>
Kind(front, stage, needs, said, size, split) ==
    [front |-> front, stage |-> stage, needs |-> needs, status |-> said, size |-> size,
     split |-> split]
MCKinds ==
    {Kind(FALSE, "other", "none", "none", 20, FALSE), Kind(TRUE, "other", "none", "none", 20, FALSE),
     Kind(TRUE, "waiting-james", "long", "long", 400, FALSE),
     Kind(TRUE, "queued", "none", "long", 400, TRUE),
     Kind(TRUE, "active", "none", "short", 150, FALSE),
     Kind(TRUE, "done", "none", "none", 60, FALSE)}

(* A minted stub, one a team spoiled, one whose mint died, one of an old   *)
(* foundry, and one of a version to come.                                  *)
Result(shape, version, id, body, valid) ==
    [shape |-> shape, version |-> version, id |-> id, body |-> body, valid |-> valid]
MCResults ==
    {Result("object", "1.1", TRUE, TRUE, TRUE), Result("object", "1.1", TRUE, FALSE, FALSE),
     Result("torn", Missing, FALSE, FALSE, FALSE),
     Result("object", "1.1-completion-only", TRUE, TRUE, FALSE),
     Result("object", "2.0", FALSE, FALSE, FALSE)}

(* Entry files: references back, forth and to nothing; reads of each kind. *)
Text(heading, refs, items) == [heading |-> heading, refs |-> refs, items |-> items]
Item(f, k) == [ref |-> f, kind |-> k]
MCTexts ==
    {Text(FALSE, <<>>, <<>>), Text(FALSE, <<rootEntry>>, <<>>),
     Text(FALSE, <<deanEntry, rootEntry>>, <<>>), Text(FALSE, <<Gone>>, <<>>),
     Text(TRUE, <<parentEntry>>, <<Item(memory, "optional"), Item(memory, "must")>>),
     Text(TRUE, <<>>, <<Item(memory, "must"), Item(notes, "if present")>>),
     Text(TRUE, <<rootEntry>>, <<Item(notes, "optional"), Item(rootEntry, "must")>>)}
MCDeclared == {Missing, <<>>, <<memory, notes>>}

(* The audience, founded under an alias, and the offers, whose canonical   *)
(* name wins; each with its names in contracts/campus.json.                *)
MCRows == <<audience, offers>>
MCCanonical == audience :> "icp" @@ offers :> "offers-summary"
MCFounding == audience :> "audience" @@ offers :> "offers"
MCAliases == audience :> <<"audience", "icp-summary">> @@ offers :> <<"offers">>

(* Work with a word in common; the second seat's clock is ahead.           *)
MCTriggers == {{3}, {1, 3}, {2, 3}}
MCZone == <<0, 1>>

(* No rule names a scanner or a session; the two sets have the same values. *)
Symmetry == Permutations(Scanners \cup Sessions)
=============================================================================
