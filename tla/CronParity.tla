----------------------------- MODULE CronParity -----------------------------
(***************************************************************************)
(* check_cron_parity.py: a session asks the host for its scheduled tasks,  *)
(* and the script compares the answer with the clock (is an enabled job    *)
(* quiet for too long?) and with the files of scheduled/ (does the host    *)
(* run what the campus says?).  Meanwhile time passes and jobs fire, the   *)
(* owner edits both sides, and the answer grows old.  Time is in half days. *)
(***************************************************************************)
EXTENDS Integers, Sequences, FiniteSets, SequencesExt, CampusTerms

CONSTANTS Tasks, ScheduleFiles,  \* task ids; scheduled/*.md, a sequence in name order
          Crons,         \* cron expressions
          FieldsOf,      \* the five fields of each
          Spans,         \* how much time may pass at once
          MaxClock, MaxEdits, MaxChecks

(* The forms of a field.  A step of hours is of at most 12, slashed hours  *)
(* that leave a part of the day out are a "range"; the days of the month   *)
(* are "late" when all of them are past the 28th.                          *)
Fields == [minute : {"at", "step"}, hour : {"*", "at", "step", "range"},
           dom : {"*", "at", "late"}, month : {"*", "at"}, dow : {"*", "at", "list"}]

ASSUME CronAssumption ==
    /\ ScheduleFiles \in Seq({ScheduleFiles[i] : i \in DOMAIN ScheduleFiles})
    /\ FieldsOf \in [Crons -> Fields] /\ Spans \subseteq Nat \ {0}
    /\ {MaxClock, MaxEdits, MaxChecks} \subseteq Nat

ScheduleNames == {ScheduleFiles[i] : i \in DOMAIN ScheduleFiles}

(* What a file of scheduled/ says: a cron, "none" (on no timer), or prose. *)
Definitions == [id : Tasks, says : Crons \cup {"none", "prose"}]

(* A task on the host: cron "once" is a fireAt; age is the time since its  *)
(* last run, since the time since the owner last touched it.               *)
Never == -1
Registrations == [cron : Crons \cup {"once"}, enabled : BOOLEAN,
                  age : Nat \cup {Never}, since : Nat]

VARIABLES defs,     \* file -> Definitions, or Missing
          host,     \* task -> Registrations, or Missing
          fetched,  \* the answer the session holds, or Missing
          report,   \* the last report, with what it was made from
          clock, hostEdits, checks
cronvars == <<defs, host, fetched, report, clock, hostEdits, checks>>

NoReport == [status |-> "none", exit |-> 0, disabled |-> {}, stalled |-> {}, never_run |-> {},
             match |-> {}, drift |-> {}, canonical_only |-> {}, live_only |-> {},
             from |-> Missing, defs |-> Missing]

CronInit ==
    /\ defs = [f \in ScheduleNames |-> Missing] /\ host = [t \in Tasks |-> Missing]
    /\ fetched = Missing /\ report = NoReport
    /\ clock = 0 /\ hostEdits = 0 /\ checks = 0

-----------------------------------------------------------------------------
(* The host, the clock and the owner.                                      *)

Fired(r) == [r EXCEPT !.age = 0]
Aged(r, n) == [r EXCEPT !.age = IF @ = Never THEN Never ELSE @ + n, !.since = @ + n]

(* Some enabled jobs fire at the end of the span; a host that sleeps runs  *)
(* none of them.                                                           *)
Pass(n) ==
    /\ checks < MaxChecks /\ clock + n <= MaxClock /\ clock' = clock + n
    /\ \E fire \in SUBSET {t \in Tasks : host[t] # Missing /\ host[t].enabled} :
          host' = [t \in Tasks |-> IF host[t] = Missing THEN Missing
                                   ELSE IF t \in fire THEN Fired(Aged(host[t], n))
                                   ELSE Aged(host[t], n)]
    /\ fetched' = IF fetched = Missing THEN Missing ELSE [fetched EXCEPT !.delay = @ + n]
    /\ UNCHANGED <<defs, report, hostEdits, checks>>

EditHost ==
    /\ checks < MaxChecks /\ hostEdits < MaxEdits /\ hostEdits' = hostEdits + 1
    /\ \E t \in Tasks :
          \/ \E c \in Crons \cup {"once"}, on \in BOOLEAN :
                host' = [host EXCEPT ![t] =
                    IF @ = Missing THEN [cron |-> c, enabled |-> on, age |-> Never, since |-> 0]
                    ELSE [@ EXCEPT !.cron = c, !.since = 0]]
          \/ /\ host[t] # Missing
             /\ \/ host' = [host EXCEPT ![t].enabled = ~@, ![t].since = 0]
                \/ host' = [host EXCEPT ![t] = Missing]
    /\ UNCHANGED <<defs, fetched, report, clock, checks>>

EditFile ==
    /\ checks < MaxChecks /\ hostEdits < MaxEdits /\ hostEdits' = hostEdits + 1
    /\ \E f \in ScheduleNames, d \in Definitions \cup {Missing} : defs' = [defs EXCEPT ![f] = d]
    /\ UNCHANGED <<host, fetched, report, clock, checks>>

(* The session's payload: nothing at all, an envelope that says the host   *)
(* has no scheduler or that it did not answer, one that contradicts        *)
(* itself, or a list, in which some entries may lack a field.              *)
Fetch ==
    /\ fetched = Missing /\ checks < MaxChecks
    /\ \E answer \in {"nothing", "unavailable", "failed", "contradictory", "list"},
          bad \in SUBSET {t \in Tasks : host[t] # Missing} :
          /\ answer # "list" => bad = {}
          /\ fetched' = [answer |-> answer, tasks |-> host, bad |-> bad, delay |-> 0]
    /\ UNCHANGED <<defs, host, report, clock, hostEdits, checks>>

-----------------------------------------------------------------------------
(* The script.                                                             *)

Slashed(c) == c.minute = "step" \/ c.hour \in {"step", "range"}

(* Mutant: a weekday list is taken for a daily job.                        *)
IntervalNoWeekday(cron) == LET c == FieldsOf[cron] IN
    IF Slashed(c) THEN 1 ELSE IF c.dom # "*" THEN 62 ELSE 2

expected_interval(cron) == LET c == FieldsOf[cron] IN
    IF Slashed(c) THEN 1
    ELSE IF c.dow # "*" THEN 14
    ELSE IF c.dom # "*" THEN 62
    ELSE 2

(* read_live: one bad entry and the whole payload is invalid.              *)
Accepted(p) == p.bad = {}

Recurring(p) == {t \in Tasks \ p.bad : p.tasks[t] # Missing /\ p.tasks[t].cron # "once"}
OneTime(p) == {t \in Tasks \ p.bad : p.tasks[t] # Missing /\ p.tasks[t].cron = "once"}

(* The age is that at the retrieval; the clock is that of the check.       *)
Stalled(p) == {t \in Recurring(p) : LET r == p.tasks[t] IN
    r.enabled /\ r.age # Never /\ r.age + p.delay > 3 * expected_interval(r.cron)}

(* Mutant: a job that has never run is not called switched off.            *)
DisabledRan(p) == {t \in Recurring(p) : ~p.tasks[t].enabled /\ p.tasks[t].age # Never}

Disabled(p) == {t \in Recurring(p) : ~p.tasks[t].enabled}

NeverRun(p) == {t \in Recurring(p) : p.tasks[t].enabled /\ p.tasks[t].age = Never}

convention_in_use == \E f \in ScheduleNames : defs[f] # Missing

(* read_canonical: of two files with one id the later name wins.           *)
Claims(t) == {i \in DOMAIN ScheduleFiles : LET d == defs[ScheduleFiles[i]] IN
                 d # Missing /\ d.id = t /\ d.says \in Crons}
(* Mutant: an id two files claim is left out of the comparison.            *)
DefinedIfSole == {t \in Tasks : Cardinality(Claims(t)) = 1}

Defined == {t \in Tasks : Claims(t) # {}}
DefinedCron(t) == defs[ScheduleFiles[Max(Claims(t))]].says

Early(status, exit) == [NoReport EXCEPT !.status = status, !.exit = exit,
                                        !.from = fetched, !.defs = defs]

Compared(p) ==
    LET live == Recurring(p)
        both == IF convention_in_use THEN Defined \cap live ELSE {}
        drift == {t \in both : DefinedCron(t) # p.tasks[t].cron}
        only == IF convention_in_use THEN Defined \ live ELSE {} IN
    [NoReport EXCEPT
        !.status = IF live \cup OneTime(p) = {} THEN "empty" ELSE "populated",
        !.exit = IF Stalled(p) \cup drift \cup only # {} THEN 1 ELSE 0,
        !.disabled = Disabled(p), !.stalled = Stalled(p), !.never_run = NeverRun(p),
        !.match = both \ drift, !.drift = drift, !.canonical_only = only,
        !.live_only = IF convention_in_use THEN live \ Defined ELSE {},
        !.from = p, !.defs = defs]

CheckCrons ==
    /\ fetched # Missing /\ checks' = checks + 1
    /\ report' = CASE fetched.answer = "nothing" -> Early("unknown", 2)
                   [] fetched.answer = "unavailable" -> Early("unavailable", 0)
                   [] fetched.answer = "failed" -> Early("failed", 2)
                   [] fetched.answer = "contradictory" \/ ~Accepted(fetched) -> Early("invalid", 2)
                   [] OTHER -> Compared(fetched)
    /\ fetched' = Missing
    /\ UNCHANGED <<defs, host, clock, hostEdits>>

CronNext == \/ \E n \in Spans : Pass(n)
            \/ EditHost \/ EditFile \/ Fetch \/ CheckCrons

CronSpec == CronInit /\ [][CronNext]_cronvars

-----------------------------------------------------------------------------
(* No job that misses no run is quiet for longer than this, unless its     *)
(* cron is too coarse.  With both a weekday and a day of the month it runs *)
(* on either; of several weekdays two may be all there are, side by side.  *)
Gap(cron) == LET c == FieldsOf[cron] IN
          IF Slashed(c) THEN 1
          ELSE IF c.dow = "at" THEN 14
          ELSE IF c.dow = "list" THEN 12
          ELSE IF c.dom # "*" THEN 62 ELSE 2

(* The crons for which "deliberately rough" errs toward noise and not, as  *)
(* check_cron_parity.py:219-220 intends, toward silence: a job that runs   *)
(* at close intervals but on some days, in one hour or in a part of the    *)
(* day only; a job of the month's last days, which February has not; a job *)
(* in some months only.                                                    *)
TooCoarse(cron) == LET c == FieldsOf[cron] IN
                \/ Slashed(c) /\ (c.dom # "*" \/ c.dow # "*")
                \/ c.minute = "step" /\ c.hour = "at"
                \/ c.hour = "range"
                \/ c.dom = "late" /\ c.dow = "*"
                \/ c.month # "*"

(* A job reported as on but not running has missed a run.  The exceptions: *)
(* a cron that is too coarse for the estimate; a job the owner switched on *)
(* or rescheduled since it last ran; an answer older than two of the job's *)
(* gaps, which the script cannot tell (it takes the time of the check).    *)
StalledIsLate ==
    \A t \in report.stalled : LET r == report.from.tasks[t] IN
        \/ r.age > Gap(r.cron)
        \/ TooCoarse(r.cron)
        \/ r.since < r.age
        \/ report.from.delay > 2 * Gap(r.cron)

(* Exit 0 on a list means that the host has every schedule the campus      *)
(* defines, with the cron it says, and has it switched on or the report    *)
(* names it as switched off (a disabled job is no finding, :240, :277-285) *)
(* - unless a file of a later name claims its id.                          *)
CleanIsInSync ==
    report.exit = 0 /\ report.status \in {"empty", "populated"} =>
        \A i \in DOMAIN ScheduleFiles : LET d == report.defs[ScheduleFiles[i]]
                                    r == report.from.tasks[d.id] IN
            d # Missing /\ d.says \in Crons =>
                \/ r # Missing /\ r.cron = d.says /\ (r.enabled \/ d.id \in report.disabled)
                \/ \E j \in DOMAIN ScheduleFiles : j > i /\ report.defs[ScheduleFiles[j]] # Missing
                                           /\ report.defs[ScheduleFiles[j]].id = d.id
                                           /\ report.defs[ScheduleFiles[j]].says \in Crons
=============================================================================
