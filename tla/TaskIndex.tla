------------------------------ MODULE TaskIndex ------------------------------
(***************************************************************************)
(* generate_task_index.py: dean/TASKS.md is baked from the task files, and *)
(* --check bakes it again to compare; --compact prints a digest under a    *)
(* byte budget.  Sessions edit tasks, someone may type into the index, and *)
(* days pass.                                                              *)
(***************************************************************************)
EXTENDS Integers, Sequences, FiniteSets, SequencesExt, CampusTerms

CONSTANTS TaskFiles,   \* dean/tasks/*.md, a sequence in name order
          Kinds,       \* what a task may say, see Says
          DaySpans,    \* how many days may pass at once
          RowBudget, Budget,  \* --row-budget, --budget, in bytes
          TitleLine, Heading, LastLine,  \* bytes of the digest's other lines
          Junk, MaxTaskEdits, MaxDays, MaxLooks

ORDER == <<"waiting-owner", "active", "queued", "blocked", "done", "idea">>
Stages == ToSet(ORDER)
STAGE_ALIASES(raw) == IF raw \in {"waiting-james", "waiting"} THEN "waiting-owner" ELSE raw
HasClock == {"active", "waiting-owner", "queued"}
STALE_DAYS(stage) == CASE stage = "active" -> 4 [] stage = "waiting-owner" -> 7
                       [] stage = "queued" -> 90
ROT_DAYS == 30
DONE_DROPS_AFTER_DAYS == 7

(* front: has frontmatter; size: bytes of the digest row before the cut;   *)
(* split: the row budget ends inside a character of the row.               *)
Says == [front : BOOLEAN, stage : Stages \cup {"waiting-james", "other"},
         needs : {"none", "short", "long"}, status : {"none", "short", "long"}, size : Nat,
         split : BOOLEAN]

TaskNames == {TaskFiles[i] : i \in DOMAIN TaskFiles}

ASSUME TaskAssumption ==
    /\ Kinds \subseteq Says /\ DaySpans \subseteq Nat /\ TaskFiles \in Seq(TaskNames)
    /\ {RowBudget, Budget, TitleLine, Heading, LastLine, MaxDays} \subseteq Nat

NameRank(f) == CHOOSE i \in DOMAIN TaskFiles : TaskFiles[i] = f

VARIABLES board,    \* file -> [says, updated], or Missing
          index,    \* dean/TASKS.md, or Missing
          today,
          looked,   \* the last --check, with what it looked at
          digest,   \* the last --compact, or Missing
          taskEdits, looks
taskvars == <<board, index, today, looked, digest, taskEdits, looks>>

NotLooked == [result |-> "none", index |-> Missing, board |-> Missing, on |-> 0]

TaskInit ==
    /\ board = [f \in TaskNames |-> Missing] /\ index = Missing /\ today = 0
    /\ looked = NotLooked /\ digest = Missing /\ taskEdits = 0 /\ looks = 0

-----------------------------------------------------------------------------
(* collect: what becomes of each file.                                     *)

Stage(t) == STAGE_ALIASES(t.says.stage)
Readable(t) == t.says.front /\ Stage(t) \in Stages
Dated(t) == t.updated \notin {Missing, Junk}
Days(t, day) == day - t.updated
Stale(t, day) == Stage(t) \in HasClock /\ Dated(t) /\ Days(t, day) > STALE_DAYS(Stage(t))
Rotten(t, day) == Stale(t, day) /\ Days(t, day) > STALE_DAYS(Stage(t)) + ROT_DAYS
Dropped(t, day) == Readable(t) /\ Stage(t) = "done" /\ Dated(t)
                   /\ Days(t, day) > DONE_DROPS_AFTER_DAYS

LintOf(t) ==
    IF ~t.says.front THEN {"no frontmatter"}
    ELSE IF ~Readable(t) THEN {"invalid stage"}
    ELSE {l \in {"bad date", "no needs", "done without a date", "long status", "long needs"} :
            CASE l = "bad date" -> t.updated = Junk
              [] l = "no needs" -> Stage(t) = "waiting-owner" /\ t.says.needs = "none"
              [] l = "done without a date" -> Stage(t) = "done" /\ t.updated = Missing
              [] l = "long status" -> Stage(t) # "done" /\ t.says.status = "long"
              [] l = "long needs" -> Stage(t) # "done" /\ t.says.needs = "long"}

Collected(files, day) ==
    {f \in TaskNames : files[f] # Missing /\ Readable(files[f]) /\ ~Dropped(files[f], day)}

Flag(t, day) == IF Rotten(t, day) THEN "rotten" ELSE IF Stale(t, day) THEN "stale" ELSE "fresh"

(* build: the header has the day; the rows of a stage; the lint.           *)
Build(files, day) ==
    [day |-> day,
     rows |-> [s \in Stages |->
        {[file |-> f, flag |-> Flag(files[f], day), updated |-> files[f].updated,
          status |-> files[f].says.status,
          needs |-> IF s = "waiting-owner" THEN files[f].says.needs ELSE "none"] :
         f \in {g \in Collected(files, day) : Stage(files[g]) = s}}],
     lint |-> UNION {{<<f, l>> : l \in LintOf(files[f])} : f \in {g \in TaskNames : files[g] # Missing}},
     typed |-> FALSE]

-----------------------------------------------------------------------------
EditTask ==
    /\ looks < MaxLooks /\ taskEdits < MaxTaskEdits /\ taskEdits' = taskEdits + 1
    /\ \E f \in TaskNames, k \in Kinds, u \in {today, Missing, Junk} :
          board' = [board EXCEPT ![f] = [says |-> k, updated |-> u]]
    /\ UNCHANGED <<index, today, looked, digest, looks>>

DaysPass(n) ==
    /\ looks < MaxLooks /\ today + n <= MaxDays /\ today' = today + n
    /\ UNCHANGED <<board, index, looked, digest, taskEdits, looks>>

TypeIntoIndex ==
    /\ looks < MaxLooks /\ index # Missing /\ index' = [index EXCEPT !.typed = TRUE]
    /\ UNCHANGED <<board, today, looked, digest, taskEdits, looks>>

Rebake ==
    /\ looks < MaxLooks /\ index' = Build(board, today)
    /\ UNCHANGED <<board, today, looked, digest, taskEdits, looks>>

(* Mutant: an index of an earlier day is compared with a bake of that day. *)
BakedOnItsDay == Build(board, index.day)

Baked == Build(board, today)

CheckIndex ==
    /\ looks < MaxLooks /\ looks' = looks + 1
    /\ looked' = [result |-> IF index = Missing THEN "missing"
                             ELSE IF index = Baked THEN "ok" ELSE "drift",
                  index |-> index, board |-> board, on |-> today]
    /\ UNCHANGED <<board, index, today, digest, taskEdits>>

-----------------------------------------------------------------------------
(* compact: the open stages in this order, each under a heading, the       *)
(* latest update first; a row of the row budget or more is cut to it and   *)
(* gets the 3 bytes of an ellipsis, or loses the character that is cut and *)
(* gets none; a row that would leave less than 120 bytes is omitted, and   *)
(* the rows after it are tried.  Headings and the last line are not held   *)
(* back.  A budget of 0 holds nothing back, a row budget of 0 cuts a row   *)
(* to nothing.                                                             *)
OpenStages == <<"waiting-owner", "active", "blocked", "queued">>
OpenTasks == {f \in Collected(board, today) : Stage(board[f]) \in ToSet(OpenStages)}
StageRank(f) == CHOOSE i \in DOMAIN OpenStages : OpenStages[i] = Stage(board[f])

(* A date compares as a string: junk after every date, none before.      *)
Recency(t) == IF t.updated = Junk THEN MaxDays + 1 ELSE IF t.updated = Missing THEN -1 ELSE t.updated

Above(f, g) ==
    \/ StageRank(f) < StageRank(g)
    \/ /\ StageRank(f) = StageRank(g)
       /\ \/ Recency(board[f]) > Recency(board[g])
          \/ Recency(board[f]) = Recency(board[g]) /\ NameRank(f) < NameRank(g)

RowAt(i) == CHOOSE f \in OpenTasks : Cardinality({g \in OpenTasks : Above(g, f)}) = i - 1

(* The bytes of a row are the most it may have: what rstrip takes from a   *)
(* cut row, or a longer character that is cut, makes it shorter.           *)
RowBytes(f) ==
    LET says == board[f].says IN
    CASE says.size < RowBudget -> says.size
      [] RowBudget = 0 -> 0
      [] OTHER -> IF says.split /\ says.size > RowBudget THEN RowBudget - 1 ELSE RowBudget + 3

Shown(d, f) ==
    [d EXCEPT !.bytes = @ + RowBytes(f) + 1, !.shown = @ \cup {f}, !.after = 0,
              !.widest = IF RowBytes(f) > @ THEN RowBytes(f) ELSE @]

(* Mutant: the reserve for the last line is forgotten.                     *)
TakeToTheBrim(d, f) ==
    IF Budget # 0 /\ d.bytes + RowBytes(f) + 1 > Budget THEN [d EXCEPT !.omitted = @ \cup {f}]
    ELSE Shown(d, f)

Take(d, f) ==
    IF Budget # 0 /\ d.bytes + RowBytes(f) + 1 > Budget - 120
    THEN [d EXCEPT !.omitted = @ \cup {f}]
    ELSE Shown(d, f)

(* after: the bytes of headings since the last row; widest: those of the   *)
(* longest row.                                                            *)
Headed(d, f) ==
    IF \E g \in OpenTasks : Stage(board[g]) = Stage(board[f]) /\ Above(g, f) THEN d
    ELSE [d EXCEPT !.bytes = @ + Heading, !.after = @ + Heading]

Titled ==
    [bytes |-> TitleLine, shown |-> {}, omitted |-> {}, after |-> TitleLine, widest |-> 0]

Compact ==
    LET upTo[i \in 0..Cardinality(OpenTasks)] ==
          IF i = 0 THEN Titled ELSE Take(Headed(upTo[i - 1], RowAt(i)), RowAt(i)) IN
    upTo[Cardinality(OpenTasks)]

Digest ==
    /\ looks < MaxLooks /\ looks' = looks + 1
    /\ digest' = [lines |-> [Compact EXCEPT !.bytes = @ + LastLine], open |-> OpenTasks]
    /\ UNCHANGED <<board, index, today, looked, taskEdits>>

TaskNext == \/ \E n \in DaySpans : DaysPass(n)
            \/ EditTask \/ TypeIntoIndex \/ Rebake \/ CheckIndex \/ Digest

TaskSpec == TaskInit /\ [][TaskNext]_taskvars

-----------------------------------------------------------------------------
(* An index that passes --check tells the truth on that day: every open    *)
(* task is under its stage with the flag its age has that day, and no row  *)
(* is without a task.  (No index passes on a later day.)                   *)
CheckedIsTrue ==
    looked.result = "ok" =>
        LET rows == looked.index.rows IN
        /\ ~looked.index.typed
        /\ \A s \in Stages : \A r \in rows[s] :
              looked.board[r.file] # Missing /\ Stage(looked.board[r.file]) = s
        /\ \A f \in TaskNames : LET t == looked.board[f] IN
              t # Missing /\ t.says.front /\ Stage(t) \in Stages \ {"done"} =>
                  \E r \in rows[Stage(t)] : r.file = f /\ r.flag = Flag(t, looked.on)

(* The digest is over its budget only by what the headings after the last  *)
(* row and the last line take beyond the 120 bytes kept for them, or when  *)
(* its first lines alone are; no row is over the row budget by more than   *)
(* its ellipsis (test_phase5_taskindex.py:74 grants a byte more); each     *)
(* open task is a row or counted omitted.                                  *)
DigestFits ==
    digest # Missing => LET d == digest.lines IN
        /\ \/ Budget = 0
           \/ d.bytes <= Budget
           \/ d.shown = {}
           \/ d.bytes <= Budget + d.after + LastLine - 120
        /\ d.widest <= RowBudget + 3
        /\ d.shown \cap d.omitted = {} /\ d.shown \cup d.omitted = digest.open
=============================================================================
