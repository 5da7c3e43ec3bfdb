---------------------------- MODULE Office_proofs ----------------------------
(***************************************************************************)
(* What the tools around the campus's files report, for any campus: the    *)
(* schedule check, the doctor, the task index, where the sessions of teams *)
(* find and write what the campus knows of its owner, and the briefs of    *)
(* hr-recruit.                                                             *)
(***************************************************************************)
EXTENDS CronParity, DoctorEvidence, TaskIndex, SharedContext, Recruiting, ContextWeight,
        WorkforceScan_proofs, FiniteSetTheorems, TLAPS   \* the lemma Least

-----------------------------------------------------------------------------
(* The schedule check.                                                     *)

Payloads == [answer : {"nothing", "unavailable", "failed", "contradictory", "list"},
             tasks : [Tasks -> Registrations \cup {Missing}], bad : SUBSET Tasks, delay : Nat]

CronIInv ==
    /\ defs \in [ScheduleNames -> Definitions \cup {Missing}]
    /\ host \in [Tasks -> Registrations \cup {Missing}]
    /\ fetched \in Payloads \cup {Missing}
    /\ StalledIsLate /\ CleanIsInSync

\* Three estimated intervals are at least the longest gap and the two gaps an answer may be
\* old, for every cron that is not too coarse for the estimate.
LEMMA EstimateIsLong ==
    ASSUME NEW cron \in Crons, ~TooCoarse(cron)
    PROVE  3 * expected_interval(cron) >= 3 * Gap(cron) /\ Gap(cron) \in Nat
BY CronAssumption DEF TooCoarse, expected_interval, Gap, Slashed, Fields

LEMMA StalledHasMissed ==
    ASSUME NEW p \in Payloads, NEW t \in Stalled(p)
    PROVE  LET r == p.tasks[t] IN
           \/ r.age > Gap(r.cron)
           \/ TooCoarse(r.cron)
           \/ p.delay > 2 * Gap(r.cron)
<1> DEFINE r == p.tasks[t]
<1>1. t \in Tasks /\ r # Missing /\ r.cron # "once" /\ r.age # Never
  BY DEF Stalled, Recurring
<1>2. r \in Registrations
  BY <1>1 DEF Payloads
<1>3. r.cron \in Crons /\ r.age \in Nat /\ p.delay \in Nat
  BY <1>1, <1>2 DEF Registrations, Payloads
<1>4. r.age + p.delay > 3 * expected_interval(r.cron)
  BY DEF Stalled
<1>5. expected_interval(r.cron) \in Nat
  BY DEF expected_interval
<1> HIDE DEF r
<1>6. QED
  BY <1>3, <1>4, <1>5, EstimateIsLong DEF r

\* A comparison with nothing amiss names, for every schedule a file defines, a later file
\* with the same id or the host's task, with its cron and on or named as switched off.
LEMMA NothingAmiss ==
    ASSUME NEW p \in Payloads, Accepted(p), Compared(p).exit = 0,
           NEW i \in DOMAIN ScheduleFiles, defs[ScheduleFiles[i]] # Missing,
           defs[ScheduleFiles[i]].id \in Tasks, defs[ScheduleFiles[i]].says \in Crons
    PROVE  LET d == defs[ScheduleFiles[i]]
               r == p.tasks[d.id] IN
           \/ r # Missing /\ r.cron = d.says /\ (r.enabled \/ d.id \in Compared(p).disabled)
           \/ \E j \in DOMAIN ScheduleFiles : j > i /\ j \in Claims(d.id)
<1> DEFINE d == defs[ScheduleFiles[i]]
           t == d.id
<1>1. i \in Claims(t)
  BY DEF Claims
<1>2. convention_in_use /\ t \in Defined
  BY <1>1 DEF convention_in_use, Defined, ScheduleNames
<1>3. t \in Recurring(p) /\ DefinedCron(t) = p.tasks[t].cron
  BY <1>2 DEF Compared, NoReport
<1>4. p.tasks[t] # Missing /\ (p.tasks[t].enabled \/ t \in Compared(p).disabled)
  BY <1>3 DEF Recurring, Compared, Disabled, NoReport
<1>5. CASE \A j \in Claims(t) : i >= j
  <2>1. \A j \in Claims(t) : j \in Nat
    BY CronAssumption DEF Claims
  <2>2. Max(Claims(t)) = i
    BY <1>1, <1>5, <2>1 DEF Max
  <2>3. QED
    BY <1>3, <1>4, <2>2 DEF DefinedCron
<1>6. CASE \E j \in Claims(t) : ~(i >= j)
  BY <1>6, CronAssumption DEF Claims
<1>7. QED
  BY <1>5, <1>6

LEMMA InitCronIInv == CronInit => CronIInv
BY DEF CronInit, CronIInv, NoReport, StalledIsLate, CleanIsInSync

LEMMA CheckCronsStep ==
    ASSUME CronIInv, CheckCrons
    PROVE  CronIInv'
<1>1. fetched \in Payloads /\ fetched' = Missing /\ UNCHANGED <<defs, host>>
  BY DEF CheckCrons, CronIInv
<1>2. CASE report' = Compared(fetched) /\ Accepted(fetched)
  <2>1. /\ report'.stalled = Stalled(fetched) /\ report'.from = fetched
        /\ report'.defs = defs /\ report'.exit = Compared(fetched).exit
        /\ report'.disabled = Compared(fetched).disabled
    BY <1>2 DEF Compared, NoReport
  <2>2. StalledIsLate'
    BY <1>1, <2>1, StalledHasMissed DEF StalledIsLate
  <2>3. ASSUME report'.exit = 0, NEW i \in DOMAIN ScheduleFiles, defs[ScheduleFiles[i]] # Missing,
               defs[ScheduleFiles[i]].says \in Crons
        PROVE  LET d == defs[ScheduleFiles[i]]
                   r == fetched.tasks[d.id] IN
               \/ r # Missing /\ r.cron = d.says /\ (r.enabled \/ d.id \in report'.disabled)
               \/ \E j \in DOMAIN ScheduleFiles : j > i /\ j \in Claims(d.id)
    <3>1. defs[ScheduleFiles[i]].id \in Tasks
      BY <2>3 DEF CronIInv, ScheduleNames, Definitions
    <3>2. QED
      BY <1>1, <1>2, <2>1, <2>3, <3>1, NothingAmiss
  <2>4. CleanIsInSync'
    BY <2>1, <2>3 DEF CleanIsInSync, Claims
  <2>5. QED
    BY <1>1, <2>2, <2>4 DEF CronIInv
<1>3. CASE \E result \in {"unknown", "unavailable", "failed", "invalid"}, exit \in {0, 2} :
              report' = Early(result, exit)
  <2>1. report'.stalled = {} /\ report'.status \notin {"empty", "populated"}
    BY <1>3 DEF Early, NoReport
  <2>2. QED
    BY <1>1, <2>1 DEF CronIInv, StalledIsLate, CleanIsInSync
<1>4. QED
  BY <1>1, <1>2, <1>3 DEF CheckCrons, Payloads

LEMMA HostStep ==
    ASSUME CronIInv, EditHost \/ \E n \in Spans : Pass(n)
    PROVE  CronIInv'
<1>1. report' = report /\ defs' = defs
  BY DEF EditHost, Pass
<1>2. StalledIsLate' /\ CleanIsInSync'
  BY <1>1 DEF CronIInv, StalledIsLate, CleanIsInSync
<1>3. ASSUME NEW n \in Spans, Pass(n)
      PROVE  /\ host' \in [Tasks -> Registrations \cup {Missing}]
             /\ fetched' \in Payloads \cup {Missing}
  <2>1. n \in Nat
    BY CronAssumption
  <2>2. ASSUME NEW r \in Registrations
        PROVE  Aged(r, n) \in Registrations /\ Fired(Aged(r, n)) \in Registrations
    <3>1. r.age \in Nat \cup {-1} /\ r.since \in Nat
      BY DEF Registrations, Never
    <3>2. (IF r.age = -1 THEN -1 ELSE r.age + n) \in Nat \cup {-1} /\ r.since + n \in Nat
      BY <2>1, <3>1
    <3>3. Aged(r, n) \in Registrations
      BY <3>2 DEF Aged, Registrations, Never
    <3>4. QED
      BY <3>3 DEF Fired, Registrations
  <2>3. host' \in [Tasks -> Registrations \cup {Missing}]
    BY <1>3, <2>2 DEF Pass, CronIInv
  <2>4. fetched' \in Payloads \cup {Missing}
    BY <1>3, <2>1 DEF Pass, CronIInv, Payloads
  <2>5. QED
    BY <2>3, <2>4
<1>4. ASSUME EditHost
      PROVE  host' \in [Tasks -> Registrations \cup {Missing}] /\ fetched' = fetched
  <2>1. PICK t \in Tasks, c \in Crons \cup {"once"}, on \in BOOLEAN :
           \/ host' = [host EXCEPT ![t] =
                    IF @ = Missing THEN [cron |-> c, enabled |-> on, age |-> Never, since |-> 0]
                    ELSE [@ EXCEPT !.cron = c, !.since = 0]]
           \/ host[t] # Missing /\ host' = [host EXCEPT ![t].enabled = ~@, ![t].since = 0]
           \/ host' = [host EXCEPT ![t] = Missing]
    BY <1>4 DEF EditHost
  <2>2. host[t] # Missing => host[t] \in Registrations
    BY DEF CronIInv
  <2>3. [cron |-> c, enabled |-> on, age |-> Never, since |-> 0] \in Registrations
    BY DEF Registrations
  <2>4. host[t] # Missing => /\ [host[t] EXCEPT !.cron = c, !.since = 0] \in Registrations
                             /\ [host[t] EXCEPT !.enabled = ~@, !.since = 0] \in Registrations
    BY <2>2 DEF Registrations
  <2>5. host' \in [Tasks -> Registrations \cup {Missing}]
    BY <2>1, <2>3, <2>4 DEF CronIInv
  <2>6. QED
    BY <1>4, <2>5 DEF EditHost
<1>5. QED
  BY <1>1, <1>2, <1>3, <1>4 DEF CronIInv

LEMMA StepCronIInv == CronIInv /\ [CronNext]_cronvars => CronIInv'
<1> SUFFICES ASSUME CronIInv, [CronNext]_cronvars PROVE CronIInv'
  OBVIOUS
<1>1. CASE EditFile
  <2>1. defs' \in [ScheduleNames -> Definitions \cup {Missing}]
    BY <1>1 DEF EditFile, CronIInv
  <2>2. QED
    BY <1>1, <2>1 DEF EditFile, CronIInv, StalledIsLate, CleanIsInSync
<1>2. CASE Fetch
  <2>1. fetched' \in Payloads
    BY <1>2 DEF Fetch, Payloads, CronIInv
  <2>2. QED
    BY <1>2, <2>1 DEF Fetch, CronIInv, StalledIsLate, CleanIsInSync
<1>3. CASE UNCHANGED cronvars
  BY <1>3 DEF cronvars, CronIInv, StalledIsLate, CleanIsInSync
<1>4. QED
  BY <1>1, <1>2, <1>3, HostStep, CheckCronsStep DEF CronNext

LEMMA CronIInvAlways == CronSpec => []CronIInv
BY InitCronIInv, StepCronIInv, PTL DEF CronSpec

\* A job reported as on but not running has missed a run, unless its cron is too coarse for
\* the estimate, the owner touched it since it ran, or the answer lay for two of its gaps
\* (expected_interval).
THEOREM StalledAreLate == CronSpec => []StalledIsLate
<1>1. CronIInv => StalledIsLate
  BY DEF CronIInv
<1>2. QED
  BY <1>1, CronIInvAlways, PTL

\* An exit 0 on a list means that the host had every schedule of the campus as the file says,
\* switched on or named in the report as switched off, those apart whose id a later file
\* claims (read_canonical, assess_health, compare).
THEOREM CleanMeansInSync == CronSpec => []CleanIsInSync
<1>1. CronIInv => CleanIsInSync
  BY DEF CronIInv
<1>2. QED
  BY <1>1, CronIInvAlways, PTL

-----------------------------------------------------------------------------
(* The doctor.                                                             *)

Settled(result) == IF result = "raised" THEN "error" ELSE result

Read(s, r) ==
    /\ r.facts \in FactsOf(s) /\ r.tool \in BOOLEAN /\ (~r.tool => s \in UsesTools)
    /\ section[s] = Settled(Collector(s, r.facts, r.tool))

DoctorIInv ==
    /\ DOMAIN campus = Sections /\ DOMAIN section = Sections /\ DOMAIN seen = Sections
    /\ \A s \in Sections : campus[s] \in FactsOf(s)
    /\ \/ doctor = "done" /\ code # 0
       \/ \A s \in Sections : section[s] # Missing => Read(s, seen[s])
    /\ doctor = "done" /\ code = 0 =>
          \A s \in Sections : section[s] \notin {Missing, "needs-decision", "error"}

LEMMA AllSections ==
    Sections = {"workspace", "version_lockstep", "kernel_kit", "registry", "context_weight",
                "results_ledgers", "schedules", "seat_contract", "fleet_sweep", "staff",
                "context_files", "stale_work", "ledger"}
BY DEF Sections, ORDER_OF_SECTIONS, ToSet

\* What a section of no alarm has read.
Quiet(s, v, tool) ==
    /\ Alarming(s, v) => s = "seat_contract" /\ v.seat = "missing" /\ v.trouble = {"git"}
    /\ \/ tool
       \/ s = "schedules" /\ v = "not given"
       \/ s = "context_weight" /\ v = "no node"
       \/ s = "fleet_sweep" /\ ~(v.due /\ v.foundry /\ v.teams # {})

LEMMA QuietFiles ==
    ASSUME NEW s \in {"workspace", "version_lockstep", "kernel_kit", "staff", "context_files",
                      "stale_work", "ledger"},
           NEW v \in FactsOf(s),
           Settled(Collector(s, v, TRUE)) \notin {"needs-decision", "error"}
    PROVE  ~Alarming(s, v)
<1>1. CASE s = "workspace"
  BY <1>1 DEF Settled, Collector, Alarming, FactsOf, workspace
<1>2. CASE s = "version_lockstep"
  BY <1>2 DEF Settled, Collector, Alarming, FactsOf, version_lockstep
<1>3. CASE s = "kernel_kit"
  BY <1>3 DEF Settled, Collector, Alarming, FactsOf, kernel_kit
<1>4. CASE s = "staff"
  BY <1>4 DEF Settled, Collector, Alarming, FactsOf, staff
<1>5. CASE s \in {"context_files", "stale_work"}
  BY <1>5 DEF Alarming
<1>6. CASE s = "ledger"
  BY <1>6 DEF Settled, Collector, Alarming, FactsOf, ledger
<1>7. QED
  BY <1>1, <1>2, <1>3, <1>4, <1>5, <1>6

LEMMA QuietTools ==
    ASSUME NEW s \in UsesTools, NEW v \in FactsOf(s), NEW tool \in BOOLEAN,
           Settled(Collector(s, v, tool)) \notin {"needs-decision", "error"}
    PROVE  Quiet(s, v, tool)
<1>1. CASE s = "registry"
  BY <1>1 DEF Settled, Collector, Alarming, Quiet, FactsOf, registry
<1>2. CASE s = "context_weight"
  BY <1>2 DEF Settled, Collector, Alarming, Quiet, FactsOf, context_weight
<1>3. CASE s = "results_ledgers"
  <2>1. ASSUME NEW d \in Documents, d.shape # "object" \/ (d.version = "1.1" /\ ~d.valid)
        PROVE  classify(d) \in {"malformed", "v1.1-invalid"}
    <3>1. CASE d.shape # "object"
      BY <3>1 DEF classify
    <3>2. CASE d.shape = "object"
      <4>1. d.version = "1.1" /\ ~d.valid
        BY <2>1, <3>2
      <4>2. normalize(d).version = "1.1"
        BY <4>1, DoctorAssumption DEF normalize, Documents, Versions
      <4>3. QED
        BY <3>2, <4>1, <4>2 DEF classify
    <3>3. QED
      BY <3>1, <3>2
  <2>2. \A d \in v : d \in Documents
    BY <1>3, DoctorAssumption DEF FactsOf
  <2>3. tool /\ (v = {} \/ Failing(v) = {})
    BY <1>3 DEF Settled, Collector, results_ledgers
  <2>4. QED
    BY <1>3, <2>1, <2>2, <2>3 DEF Failing, Alarming, Quiet
<1>4. CASE s = "schedules"
  BY <1>4 DEF Settled, Collector, Alarming, Quiet, FactsOf, schedules
<1>5. CASE s = "seat_contract"
  <2>1. v \in SeatFacts
    BY <1>5 DEF FactsOf
  <2>2. tool /\ (Solo(v) \/ ~SeatRed(v))
    BY <1>5 DEF Settled, Collector, seat_contract
  <2>3. Alarming(s, v) => v.seat = "missing" /\ v.trouble = {"git"}
    BY <1>5, <2>1, <2>2 DEF Solo, SeatRed, SeatFacts, Alarming
  <2>4. QED
    BY <1>5, <2>2, <2>3 DEF Quiet
<1>6. CASE s = "fleet_sweep"
  BY <1>6 DEF Settled, Collector, Alarming, Quiet, FactsOf, fleet_sweep
<1>7. QED
  BY <1>1, <1>2, <1>3, <1>4, <1>5, <1>6 DEF UsesTools

\* A section whose collector settled on neither error nor a decision has read nothing
\* alarming, and its sub-tool did not fail where it was needed.
LEMMA QuietIsHealthy ==
    ASSUME NEW s \in Sections, NEW v \in FactsOf(s), NEW tool \in BOOLEAN,
           ~tool => s \in UsesTools,
           Settled(Collector(s, v, tool)) \notin {"needs-decision", "error"}
    PROVE  Quiet(s, v, tool)
<1>1. CASE s \in UsesTools
  BY <1>1, QuietTools
<1>2. CASE s \notin UsesTools
  <2>1. s \in {"workspace", "version_lockstep", "kernel_kit", "staff", "context_files",
                "stale_work", "ledger"}
    BY <1>2, AllSections DEF UsesTools
  <2>2. tool = TRUE
    BY <1>2
  <2>3. QED
    BY <2>1, <2>2, QuietFiles DEF Quiet
<1>3. QED
  BY <1>1, <1>2

LEMMA HealthyFacts == \A s \in Sections : Healthy[s] \in FactsOf(s)
<1> SUFFICES ASSUME NEW s \in Sections PROVE Healthy[s] \in FactsOf(s)
  OBVIOUS
<1>1. CASE s = "results_ledgers"
  <2>1. {} \in SUBSET Results /\ Cardinality({}) <= 2
    BY FS_EmptySet
  <2>2. QED
    BY <1>1, <2>1 DEF Healthy, FactsOf
<1>2. CASE s = "seat_contract"
  BY <1>2 DEF Healthy, FactsOf, SeatFacts
<1>3. CASE s \in {"kernel_kit", "registry", "fleet_sweep", "ledger"}
  BY <1>3 DEF Healthy, FactsOf
<1>4. CASE s \in {"workspace", "version_lockstep", "context_weight", "schedules", "staff",
                  "context_files", "stale_work"}
  BY <1>4 DEF Healthy, FactsOf
<1>5. QED
  BY <1>1, <1>2, <1>3, <1>4, AllSections

LEMMA InitDoctorIInv == DoctorInit => DoctorIInv
BY HealthyFacts DEF DoctorInit, DoctorIInv, Healthy

LEMMA CollectStep ==
    ASSUME DoctorIInv, Collect
    PROVE  DoctorIInv'
<1> PICK i \in Due, tool \in BOOLEAN : LET s == ORDER_OF_SECTIONS[i] IN
        /\ ~tool => s \in UsesTools /\ upsets < MaxUpsets
        /\ Settle(s, Collector(s, campus[s], tool))
        /\ seen' = [seen EXCEPT ![s] = [facts |-> campus[s], tool |-> tool]]
  BY DEF Collect
<1> DEFINE s == ORDER_OF_SECTIONS[i]
           r == [facts |-> campus[s], tool |-> tool]
<1>1. s \in Sections
  BY DEF Due, Sections, ToSet
<1>2. doctor = "running" /\ UNCHANGED <<campus, doctor, code>>
  BY DEF Collect
<1>3. /\ DOMAIN section' = Sections /\ DOMAIN seen' = Sections /\ seen'[s] = r
      /\ section'[s] = Settled(Collector(s, campus[s], tool))
      /\ \A t \in Sections \ {s} : section'[t] = section[t] /\ seen'[t] = seen[t]
  BY <1>1 DEF Settle, Settled, DoctorIInv
<1>4. Read(s, r)'
  BY <1>1, <1>2, <1>3 DEF Read, DoctorIInv
<1>5. \A t \in Sections \ {s} : Read(t, seen[t]) => Read(t, seen[t])'
  BY <1>3 DEF Read
<1>6. QED
  BY <1>2, <1>3, <1>4, <1>5 DEF DoctorIInv

LEMMA StepDoctorIInv == DoctorIInv /\ [DoctorNext]_doctorvars => DoctorIInv'
<1> SUFFICES ASSUME DoctorIInv, [DoctorNext]_doctorvars PROVE DoctorIInv'
  OBVIOUS
<1>1. CASE Upset
  BY <1>1 DEF Upset, DoctorIInv, Read
<1>2. CASE Start
  BY <1>2 DEF Start, DoctorIInv, Read
<1>3. CASE Exit
  <2>1. \A s \in Sections : section[s] # Missing
    BY <1>3 DEF Exit, Due, Sections, ToSet
  <2>2. QED
    BY <1>3, <2>1 DEF Exit, DoctorIInv, Read
<1>4. CASE UNCHANGED doctorvars
  BY <1>4 DEF doctorvars, DoctorIInv, Read
<1>5. QED
  BY <1>1, <1>2, <1>3, <1>4, CollectStep DEF DoctorNext

LEMMA DoctorIInvAlways == DoctorSpec => []DoctorIInv
BY InitDoctorIInv, StepDoctorIInv, PTL DEF DoctorSpec

\* Exit 0 says that no collector read anything alarming and no sub-tool that was needed
\* failed, whatever results a campus holds and whatever changes while the doctor runs; the
\* one exception is the solo campus in a synced git folder (seat_contract, :230-232).
THEOREM ExitZeroMeansHealthy == DoctorSpec => []ExitZeroIsHealthy
<1>1. DoctorIInv => ExitZeroIsHealthy
  <2> SUFFICES ASSUME DoctorIInv, doctor = "done", code = 0, NEW s \in Sections
               PROVE  Quiet(s, seen[s].facts, seen[s].tool)
    BY DEF ExitZeroIsHealthy, Quiet
  <2>1. section[s] \notin {Missing, "needs-decision", "error"} /\ Read(s, seen[s])
    BY DEF DoctorIInv
  <2>2. QED
    BY <2>1, QuietIsHealthy DEF Read
<1>2. QED
  BY <1>1, DoctorIInvAlways, PTL

-----------------------------------------------------------------------------
(* The task index.                                                         *)

LEMMA TrueAtCheck ==
    ASSUME CheckIndex, looked'.result = "ok"
    PROVE  CheckedIsTrue'
<1>1. looked'.index = Build(board, today) /\ looked'.board = board /\ looked'.on = today
  BY DEF CheckIndex, Baked
<1> DEFINE built == Build(board, today)
<1>2. ~built.typed
  BY DEF Build
<1>3. ASSUME NEW s \in Stages, NEW r \in built.rows[s]
      PROVE  board[r.file] # Missing /\ Stage(board[r.file]) = s
  BY <1>3 DEF Build, Collected
<1>4. ASSUME NEW f \in TaskNames, board[f] # Missing, board[f].says.front,
             Stage(board[f]) \in Stages \ {"done"}
      PROVE  \E r \in built.rows[Stage(board[f])] : r.file = f /\ r.flag = Flag(board[f], today)
  <2>1. f \in Collected(board, today)
    BY <1>4 DEF Collected, Readable, Dropped
  <2>2. PICK st \in Stages : st = Stage(board[f])
    BY <1>4
  <2> DEFINE IndexRow(g) ==
        [file |-> g, flag |-> Flag(board[g], today), updated |-> board[g].updated,
         status |-> board[g].says.status,
         needs |-> IF st = "waiting-owner" THEN board[g].says.needs ELSE "none"]
  <2>3. built.rows[st] = {IndexRow(g) : g \in {h \in Collected(board, today) : Stage(board[h]) = st}}
    BY DEF Build
  <2>4. IndexRow(f).file = f /\ IndexRow(f).flag = Flag(board[f], today)
    OBVIOUS
  <2> HIDE DEF Row
  <2>5. IndexRow(f) \in built.rows[st]
    BY <2>1, <2>2, <2>3
  <2>6. QED
    BY <2>2, <2>4, <2>5
<1> HIDE DEF built
<1>5. QED
  BY <1>1, <1>2, <1>3, <1>4 DEF CheckedIsTrue, built

\* An index that passes --check has every open task under its stage with the flag of that
\* day, and no row without a task, whatever anybody typed and edited before (main).
THEOREM CheckedIndexIsTrue == TaskSpec => []CheckedIsTrue
<1>1. TaskInit => CheckedIsTrue
  BY DEF TaskInit, NotLooked, CheckedIsTrue
<1>2. CheckedIsTrue /\ [TaskNext]_taskvars => CheckedIsTrue'
  <2> SUFFICES ASSUME CheckedIsTrue, [TaskNext]_taskvars PROVE CheckedIsTrue'
    OBVIOUS
  <2>1. CASE CheckIndex
    BY <2>1, TrueAtCheck DEF CheckedIsTrue
  <2>2. CASE looked' = looked
    BY <2>2 DEF CheckedIsTrue
  <2>3. QED
    BY <2>1, <2>2 DEF TaskNext, taskvars, DaysPass, EditTask, TypeIntoIndex, Rebake, Digest
<1>3. QED
  BY <1>1, <1>2, PTL DEF TaskSpec

(* The digest.  What every board has, and where a task stands among the    *)
(* open ones: below as many as are above it.                               *)
TaskEntries == [says : Says, updated : Nat \cup {Missing, Junk}]
Boarded == board \in [TaskNames -> TaskEntries \cup {Missing}]
Place(f) == Cardinality({g \in OpenTasks : Above(g, f)})

LEMMA OpenIsTyped ==
    ASSUME Boarded, NEW f \in OpenTasks
    PROVE  /\ f \in TaskNames /\ board[f] \in TaskEntries
           /\ StageRank(f) \in Nat /\ Recency(board[f]) \in Int
           /\ NameRank(f) \in Nat /\ TaskFiles[NameRank(f)] = f
           /\ RowBytes(f) \in Nat /\ RowBytes(f) <= RowBudget + 3
<1>1. f \in TaskNames /\ board[f] # Missing /\ Stage(board[f]) \in ToSet(OpenStages)
  BY DEF OpenTasks, Collected
<1>2. board[f] \in TaskEntries
  BY <1>1 DEF Boarded
<1>3. StageRank(f) \in Nat
  <2>1. DOMAIN OpenStages = 1..4
    BY DEF OpenStages
  <2>2. \E i \in DOMAIN OpenStages : OpenStages[i] = Stage(board[f])
    BY <1>1 DEF ToSet
  <2>3. StageRank(f) \in DOMAIN OpenStages
    BY <2>2 DEF StageRank
  <2>4. QED
    BY <2>1, <2>3
<1>4. Recency(board[f]) \in Int
  BY <1>2, TaskAssumption DEF TaskEntries, Recency
<1>5. NameRank(f) \in Nat /\ TaskFiles[NameRank(f)] = f
  <2>1. \E i \in DOMAIN TaskFiles : TaskFiles[i] = f
    BY <1>1 DEF TaskNames
  <2>2. NameRank(f) \in DOMAIN TaskFiles /\ TaskFiles[NameRank(f)] = f
    BY <2>1 DEF NameRank
  <2>3. DOMAIN TaskFiles \subseteq Nat
    BY TaskAssumption
  <2>4. QED
    BY <2>2, <2>3
<1>6. RowBytes(f) \in Nat /\ RowBytes(f) <= RowBudget + 3
  <2>1. board[f].says.size \in Nat /\ RowBudget \in Nat
    BY <1>2, TaskAssumption DEF TaskEntries, Says
  <2>2. \/ board[f].says.size < RowBudget /\ RowBytes(f) = board[f].says.size
        \/ RowBytes(f) = 0
        \/ RowBudget # 0 /\ RowBytes(f) \in {RowBudget - 1, RowBudget + 3}
    BY <2>1 DEF RowBytes
  <2>3. QED
    BY <2>1, <2>2
<1>7. QED
  BY <1>1, <1>2, <1>3, <1>4, <1>5, <1>6

LEMMA AboveOrders ==
    ASSUME Boarded, NEW f \in OpenTasks, NEW g \in OpenTasks, NEW h \in OpenTasks
    PROVE  /\ ~Above(f, f)
           /\ Above(f, g) /\ Above(g, h) => Above(f, h)
           /\ f # g => Above(f, g) \/ Above(g, f)
<1>1. /\ StageRank(f) \in Int /\ StageRank(g) \in Int /\ StageRank(h) \in Int
      /\ Recency(board[f]) \in Int /\ Recency(board[g]) \in Int /\ Recency(board[h]) \in Int
      /\ NameRank(f) \in Int /\ NameRank(g) \in Int /\ NameRank(h) \in Int
      /\ f # g => NameRank(f) # NameRank(g)
  BY OpenIsTyped
<1>2. QED
  BY <1>1 DEF Above

LEMMA OpenIsFinite == IsFiniteSet(OpenTasks) /\ Cardinality(OpenTasks) \in Nat
<1>1. Len(TaskFiles) \in Nat /\ DOMAIN TaskFiles = 1..Len(TaskFiles)
  BY TaskAssumption
<1>2. TaskFiles \in Surjection(1..Len(TaskFiles), TaskNames)
  <2>1. TaskFiles \in [1..Len(TaskFiles) -> TaskNames]
    BY <1>1, TaskAssumption
  <2>2. \A f \in TaskNames : \E i \in 1..Len(TaskFiles) : TaskFiles[i] = f
    BY <1>1 DEF TaskNames
  <2>3. QED
    BY <2>1, <2>2 DEF Surjection
<1>3. IsFiniteSet(1..Len(TaskFiles))
  BY <1>1, FS_Interval
<1>4. IsFiniteSet(TaskNames)
  BY <1>2, <1>3, FS_Surjection
<1>5. OpenTasks \in SUBSET TaskNames
  BY DEF OpenTasks, Collected
<1>6. QED
  BY <1>4, <1>5, FS_Subset, FS_CardinalityType

LEMMA PlaceIsBelow ==
    ASSUME Boarded, NEW f \in OpenTasks, NEW g \in OpenTasks, Above(f, g)
    PROVE  Place(f) < Place(g)
<1> DEFINE F == {h \in OpenTasks : Above(h, f)}
           G == {h \in OpenTasks : Above(h, g)}
<1>1. F \in SUBSET G /\ f \in G /\ f \notin F
  BY AboveOrders
<1>2. IsFiniteSet(G) /\ Cardinality(G) \in Nat /\ IsFiniteSet(F) /\ Cardinality(F) \in Nat
  BY OpenIsFinite, FS_Subset, FS_CardinalityType
<1>3. Cardinality(F) <= Cardinality(G) /\ Cardinality(F) # Cardinality(G)
  BY <1>1, <1>2, FS_Subset
<1>4. QED
  BY <1>2, <1>3 DEF Place

\* Places are those of a sequence: each is held by one task.
LEMMA PlacesAreHeld ==
    ASSUME Boarded
    PROVE  /\ \A f \in OpenTasks : Place(f) + 1 \in 1..Cardinality(OpenTasks)
           /\ \A f, g \in OpenTasks : Place(f) = Place(g) => f = g
           /\ \A i \in 1..Cardinality(OpenTasks) : \E f \in OpenTasks : Place(f) = i - 1
<1> DEFINE n == Cardinality(OpenTasks)
           M == [f \in OpenTasks |-> Place(f) + 1]
<1>1. n \in Nat /\ IsFiniteSet(OpenTasks)
  BY OpenIsFinite
<1>2. ASSUME NEW f \in OpenTasks PROVE Place(f) \in Nat /\ Place(f) < n
  <2> DEFINE F == {h \in OpenTasks : Above(h, f)}
  <2>1. F \in SUBSET OpenTasks /\ f \notin F
    BY AboveOrders
  <2>2. IsFiniteSet(F) /\ Cardinality(F) \in Nat /\ Cardinality(F) <= n /\ Cardinality(F) # n
    BY <1>1, <2>1, FS_Subset, FS_CardinalityType
  <2>3. QED
    BY <1>1, <2>2 DEF Place
<1>3. ASSUME NEW f \in OpenTasks, NEW g \in OpenTasks, Place(f) = Place(g) PROVE f = g
  <2>1. ~Above(f, g) /\ ~Above(g, f)
    BY <1>2, <1>3, PlaceIsBelow
  <2>2. QED
    BY <2>1, AboveOrders
<1>4. \A f \in OpenTasks : Place(f) + 1 \in 1..n
  BY <1>1, <1>2
<1>5. M \in Injection(OpenTasks, 1..n)
  <2>1. M \in [OpenTasks -> 1..n]
    BY <1>4
  <2>2. \A f, g \in OpenTasks : M[f] = M[g] => f = g
    BY <1>2, <1>3
  <2> HIDE DEF M
  <2>3. QED
    BY <2>1, <2>2 DEF Injection, IsInjective
<1>6. IsFiniteSet(1..n) /\ Cardinality(1..n) = n
  BY <1>1, FS_Interval
<1>7. M \in Surjection(OpenTasks, 1..n)
  BY <1>5, <1>6, FS_Injection
<1>8. ASSUME NEW i \in 1..n PROVE \E f \in OpenTasks : Place(f) = i - 1
  <2>1. PICK f \in OpenTasks : M[f] = i
    BY <1>7 DEF Surjection
  <2>2. Place(f) + 1 = i
    BY <2>1
  <2>3. QED
    BY <1>2, <2>2
<1>9. QED
  BY <1>3, <1>4, <1>8

LEMMA RowsAreTheTasks ==
    ASSUME Boarded
    PROVE  /\ \A i \in 1..Cardinality(OpenTasks) : RowAt(i) \in OpenTasks /\ Place(RowAt(i)) = i - 1
           /\ \A f \in OpenTasks : \E i \in 1..Cardinality(OpenTasks) : RowAt(i) = f
<1>1. ASSUME NEW i \in 1..Cardinality(OpenTasks)
      PROVE  RowAt(i) \in OpenTasks /\ Place(RowAt(i)) = i - 1
  <2>1. \E f \in OpenTasks : Place(f) = i - 1
    BY PlacesAreHeld
  <2>2. QED
    BY <2>1 DEF RowAt, Place
<1>2. ASSUME NEW f \in OpenTasks PROVE \E i \in 1..Cardinality(OpenTasks) : RowAt(i) = f
  <2>1. Place(f) + 1 \in 1..Cardinality(OpenTasks) /\ Place(f) \in Int
    <3>1. Place(f) \in Nat
      BY OpenIsFinite, FS_Subset, FS_CardinalityType DEF Place
    <3>2. QED
      BY <3>1, PlacesAreHeld
  <2>2. RowAt(Place(f) + 1) \in OpenTasks /\ Place(RowAt(Place(f) + 1)) = (Place(f) + 1) - 1
    BY <1>1, <2>1
  <2>3. RowAt(Place(f) + 1) = f
    BY <2>1, <2>2, PlacesAreHeld
  <2>4. QED
    BY <2>1, <2>3
<1>3. QED
  BY <1>1, <1>2

(* The lines of the digest, up to each row.                                *)
WithRow(d, i) == Take(Headed(d, RowAt(i)), RowAt(i))
Grows(n, g) == g = [i \in 0..n |-> IF i = 0 THEN Titled ELSE WithRow(g[i - 1], i)]

LEMMA GrowthExists ==
    ASSUME NEW n \in Nat
    PROVE  \E g : Grows(n, g)
<1> DEFINE Bad == {m \in Nat : ~\E g : Grows(m, g)}
<1> SUFFICES ASSUME Bad # {} PROVE FALSE
  OBVIOUS
<1>1. PICK m \in Bad : \A k \in Bad : m <= k
  BY Least
<1>2. m # 0
  <2> DEFINE g == [i \in 0..0 |-> Titled]
  <2>1. g = [i \in 0..0 |-> IF i = 0 THEN Titled ELSE WithRow(g[i - 1], i)]
    OBVIOUS
  <2> HIDE DEF g
  <2>2. Grows(0, g)
    BY <2>1 DEF Grows
  <2>3. QED
    BY <2>2
<1>3. m - 1 \in Nat /\ m - 1 \notin Bad
  BY <1>1, <1>2
<1>4. PICK g : Grows(m - 1, g)
  BY <1>3
<1> DEFINE h == [i \in 0..m |-> IF i = m THEN WithRow(g[m - 1], m) ELSE g[i]]
<1>5. \A i \in 0..m : h[i] = IF i = 0 THEN Titled ELSE WithRow(h[i - 1], i)
  <2>1. \A i \in 0..(m - 1) : g[i] = IF i = 0 THEN Titled ELSE WithRow(g[i - 1], i)
    BY <1>4 DEF Grows
  <2>2. \A i \in 0..(m - 1) : h[i] = g[i] /\ i - 1 # m
    BY <1>3
  <2>3. \A i \in 0..m : i # 0 => i - 1 \in 0..(m - 1)
    BY <1>3
  <2>4. h[m] = WithRow(g[m - 1], m)
    BY <1>3
  <2> HIDE DEF h
  <2>5. QED
    BY <1>2, <1>3, <2>1, <2>2, <2>3, <2>4
<1>6. Grows(m, h)
  <2>1. h = [i \in 0..m |-> h[i]]
    OBVIOUS
  <2> HIDE DEF h
  <2>2. QED
    BY <1>5, <2>1 DEF Grows
<1>7. QED
  BY <1>1, <1>6

DigestLines == [bytes : Nat, shown : SUBSET OpenTasks, omitted : SUBSET OpenTasks, after : Nat,
                widest : 0..(RowBudget + 3)]

\* What is true of the lines with the first k rows.
Fits(d, k) ==
    /\ d \in DigestLines
    /\ Budget = 0 \/ d.shown = {} \/ d.bytes + 120 <= Budget + d.after
    /\ d.shown \cap d.omitted = {} /\ d.shown \cup d.omitted = {RowAt(j) : j \in 1..k}

LEMMA RowFits ==
    ASSUME Boarded, NEW i \in 1..Cardinality(OpenTasks), NEW d, Fits(d, i - 1)
    PROVE  Fits(WithRow(d, i), i)
<1> DEFINE f == RowAt(i)
           e == Headed(d, f)
           r == Take(e, f)
<1>1. f \in OpenTasks /\ Place(f) = i - 1 /\ i \in Nat
      /\ RowBytes(f) \in Nat /\ RowBytes(f) <= RowBudget + 3 /\ RowBudget \in Nat
  BY RowsAreTheTasks, OpenIsTyped, OpenIsFinite, TaskAssumption
<1>2. f \notin {RowAt(j) : j \in 1..(i - 1)}
  <2> SUFFICES ASSUME NEW j \in 1..(i - 1), RowAt(j) = f PROVE FALSE
    OBVIOUS
  <2>1. j \in 1..Cardinality(OpenTasks)
    BY OpenIsFinite
  <2>2. Place(RowAt(j)) = j - 1
    BY <2>1, RowsAreTheTasks
  <2>3. QED
    BY <1>1, <2>2
<1>3. {RowAt(j) : j \in 1..i} = {RowAt(j) : j \in 1..(i - 1)} \cup {f}
  <2>1. 1..i = 1..(i - 1) \cup {i}
    BY <1>1, OpenIsFinite
  <2>2. QED
    BY <2>1
<1>4. /\ e \in DigestLines /\ e.shown = d.shown /\ e.omitted = d.omitted
      /\ Budget = 0 \/ e.shown = {} \/ e.bytes + 120 <= Budget + e.after
  <2>1. /\ d.bytes \in Nat /\ d.after \in Nat /\ Heading \in Nat /\ Budget \in Nat /\ d \in DigestLines
        /\ Budget = 0 \/ d.shown = {} \/ d.bytes + 120 <= Budget + d.after
    BY TaskAssumption DEF Fits, DigestLines
  <2>2. CASE e = d
    BY <2>1, <2>2
  <2>3. CASE e = [d EXCEPT !.bytes = @ + Heading, !.after = @ + Heading]
    <3>1. /\ e.bytes = d.bytes + Heading /\ e.after = d.after + Heading
          /\ e.shown = d.shown /\ e.omitted = d.omitted /\ e.widest = d.widest
      BY <2>1, <2>3 DEF DigestLines
    <3>2. e \in DigestLines
      <4>1. e = [bytes |-> e.bytes, shown |-> e.shown, omitted |-> e.omitted, after |-> e.after,
                 widest |-> e.widest]
        BY <2>1, <2>3 DEF DigestLines
      <4>2. /\ e.bytes \in Nat /\ e.after \in Nat
            /\ e.shown \in SUBSET OpenTasks /\ e.omitted \in SUBSET OpenTasks
            /\ e.widest \in 0..(RowBudget + 3)
        BY <2>1, <3>1 DEF DigestLines
      <4>3. QED
        BY <4>1, <4>2 DEF DigestLines
    <3>3. QED
      BY <2>1, <3>1, <3>2
  <2>4. QED
    BY <2>2, <2>3 DEF Headed
<1> HIDE DEF e, f
<1>5. /\ r \in DigestLines
      /\ Budget = 0 \/ r.shown = {} \/ r.bytes + 120 <= Budget + r.after
      /\ \/ r.shown = e.shown \cup {f} /\ r.omitted = e.omitted
         \/ r.shown = e.shown /\ r.omitted = e.omitted \cup {f}
  <2>1. e.bytes \in Nat /\ e.after \in Nat /\ RowBytes(f) + 1 \in Nat /\ Budget \in Nat
        /\ e.shown \in SUBSET OpenTasks /\ e.omitted \in SUBSET OpenTasks
        /\ e.widest \in 0..(RowBudget + 3)
    BY <1>1, <1>4, TaskAssumption DEF DigestLines
  <2>2. CASE r = [e EXCEPT !.omitted = @ \cup {f}]
    <3>1. /\ r.bytes = e.bytes /\ r.after = e.after /\ r.shown = e.shown
          /\ r.omitted = e.omitted \cup {f} /\ r \in DigestLines
      BY <1>1, <1>4, <2>2 DEF DigestLines
    <3>2. QED
      BY <1>4, <3>1
  <2>3. CASE /\ ~(Budget # 0 /\ e.bytes + RowBytes(f) + 1 > Budget - 120)
             /\ r = Shown(e, f)
    <3>1. /\ r.bytes = e.bytes + RowBytes(f) + 1 /\ r.after = 0 /\ r.shown = e.shown \cup {f}
          /\ r.omitted = e.omitted /\ r.widest \in {e.widest, RowBytes(f)}
      BY <1>4, <2>3 DEF DigestLines, Shown
    <3>2. r.bytes \in Nat /\ (Budget = 0 \/ r.bytes + 120 <= Budget + r.after)
      BY <1>1, <2>1, <2>3, <3>1
    <3>3. r \in DigestLines
      <4>1. r = [bytes |-> r.bytes, shown |-> r.shown, omitted |-> r.omitted, after |-> r.after,
                 widest |-> r.widest]
        BY <1>4, <2>3 DEF DigestLines, Shown
      <4>2. /\ r.shown \in SUBSET OpenTasks /\ r.omitted \in SUBSET OpenTasks /\ r.after \in Nat
            /\ r.widest \in 0..(RowBudget + 3)
        BY <1>1, <2>1, <3>1
      <4>3. QED
        BY <3>2, <4>1, <4>2 DEF DigestLines
    <3>4. QED
      BY <3>1, <3>2, <3>3
  <2>4. QED
    BY <2>2, <2>3 DEF Take
<1> HIDE DEF r
<1>6. r.shown \cap r.omitted = {} /\ r.shown \cup r.omitted = {RowAt(j) : j \in 1..i}
  BY <1>2, <1>3, <1>4, <1>5 DEF Fits
<1>7. Fits(r, i)
  BY <1>5, <1>6 DEF Fits
<1>8. QED
  BY <1>7 DEF WithRow, r, e, f

LEMMA GrowthFits ==
    ASSUME Boarded, NEW n \in Nat, n <= Cardinality(OpenTasks), NEW g, Grows(n, g)
    PROVE  Fits(g[n], n)
<1> DEFINE Bad == {k \in 0..n : ~Fits(g[k], k)}
<1> SUFFICES ASSUME Bad # {} PROVE FALSE
  OBVIOUS
<1>1. PICK m \in Bad : \A k \in Bad : m <= k
  <2>1. Bad \in SUBSET Nat
    OBVIOUS
  <2>2. QED
    BY <2>1, Least
<1>2. \A i \in 0..n : g[i] = IF i = 0 THEN Titled ELSE WithRow(g[i - 1], i)
  BY DEF Grows
<1>3. CASE m = 0
  <2>1. g[0] = Titled /\ 1..0 = {}
    BY <1>2
  <2>2. Fits(Titled, 0)
    BY <2>1, TaskAssumption DEF Fits, Titled, DigestLines
  <2>3. QED
    BY <1>1, <1>3, <2>1, <2>2
<1>4. CASE m # 0
  <2>1. m \in 1..Cardinality(OpenTasks) /\ m - 1 \in 0..n /\ m - 1 < m /\ m \in 0..n
    BY <1>1, <1>4, OpenIsFinite
  <2>2. Fits(g[m - 1], m - 1)
    BY <1>1, <2>1
  <2>3. Fits(WithRow(g[m - 1], m), m)
    BY <2>1, <2>2, RowFits
  <2>4. QED
    BY <1>1, <1>2, <1>4, <2>1, <2>3
<1>5. QED
  BY <1>3, <1>4

LEMMA CompactFits ==
    ASSUME Boarded
    PROVE  Fits(Compact, Cardinality(OpenTasks))
<1> DEFINE n == Cardinality(OpenTasks)
           F(g) == [i \in 0..n |-> IF i = 0 THEN Titled ELSE Take(Headed(g[i - 1], RowAt(i)), RowAt(i))]
           g == CHOOSE g : g = F(g)
<1>1. Compact = g[n]
  BY DEF Compact
<1>2. n \in Nat
  BY OpenIsFinite
<1>3. \E h : h = F(h)
  BY <1>2, GrowthExists DEF Grows, WithRow
<1>4. g = F(g)
  BY <1>3
<1>5. Grows(n, g)
  BY <1>4 DEF Grows, WithRow
<1> HIDE DEF g
<1>6. QED
  BY <1>1, <1>2, <1>5, GrowthFits

TaskIInv == Boarded /\ today \in Nat /\ DigestFits

LEMMA DigestStep ==
    ASSUME TaskIInv, Digest
    PROVE  DigestFits'
<1> DEFINE d == [Compact EXCEPT !.bytes = @ + LastLine]
<1>1. Fits(Compact, Cardinality(OpenTasks)) /\ LastLine \in Nat /\ Budget \in Nat
  BY CompactFits, TaskAssumption DEF TaskIInv
<1>2. {RowAt(j) : j \in 1..Cardinality(OpenTasks)} = OpenTasks
  BY RowsAreTheTasks DEF TaskIInv
<1>3. /\ d.bytes = Compact.bytes + LastLine /\ d.after = Compact.after
      /\ d.shown = Compact.shown /\ d.omitted = Compact.omitted
      /\ Compact.bytes \in Nat /\ Compact.after \in Nat
      /\ d.widest = Compact.widest /\ Compact.widest \in 0..(RowBudget + 3)
  BY <1>1 DEF Fits, DigestLines
<1>4. digest' = [lines |-> d, open |-> OpenTasks]
  BY DEF Digest
<1>5. digest'.lines = d /\ digest'.open = OpenTasks
  BY <1>4
<1> HIDE DEF d
<1>6. /\ Budget = 0 \/ d.shown = {} \/ d.bytes <= Budget + d.after + LastLine - 120
  BY <1>1, <1>3 DEF Fits
<1>7. d.widest <= RowBudget + 3
  BY <1>3, TaskAssumption
<1>8. d.shown \cap d.omitted = {} /\ d.shown \cup d.omitted = OpenTasks
  BY <1>1, <1>2, <1>3 DEF Fits
<1>9. QED
  BY <1>5, <1>6, <1>7, <1>8 DEF DigestFits

LEMMA StepTaskIInv == TaskIInv /\ [TaskNext]_taskvars => TaskIInv'
<1> SUFFICES ASSUME TaskIInv, [TaskNext]_taskvars PROVE TaskIInv'
  OBVIOUS
<1>1. CASE EditTask
  <2>1. PICK f \in TaskNames, k \in Kinds, u \in {today, Missing, Junk} :
            board' = [board EXCEPT ![f] = [says |-> k, updated |-> u]]
    BY <1>1 DEF EditTask
  <2>2. [says |-> k, updated |-> u] \in TaskEntries
    BY TaskAssumption DEF TaskIInv, TaskEntries
  <2>3. Boarded'
    BY <2>1, <2>2 DEF TaskIInv, Boarded
  <2>4. QED
    BY <1>1, <2>3 DEF EditTask, TaskIInv, DigestFits
<1>2. CASE \E n \in DaySpans : DaysPass(n)
  <2>1. PICK n \in Nat : DaysPass(n)
    BY <1>2, TaskAssumption
  <2>2. QED
    BY <2>1 DEF DaysPass, TaskIInv, Boarded, DigestFits
<1>3. CASE Digest
  BY <1>3, DigestStep DEF Digest, TaskIInv, Boarded
<1>4. CASE UNCHANGED <<board, today, digest>>
  BY <1>4 DEF TaskIInv, Boarded, DigestFits
<1>5. QED
  BY <1>1, <1>2, <1>3, <1>4 DEF TaskNext, taskvars, TypeIntoIndex, Rebake, CheckIndex

\* The digest holds its budget up to what headings and last line take beyond their reserve, a
\* row its budget up to the ellipsis, and each open task is a row or counted omitted, never both (compact).
THEOREM DigestKeepsBudget == TaskSpec => []DigestFits
<1>1. TaskInit => TaskIInv
  BY DEF TaskInit, TaskIInv, Boarded, DigestFits
<1>2. TaskIInv => DigestFits
  BY DEF TaskIInv
<1>3. QED
  BY <1>1, <1>2, StepTaskIInv, PTL DEF TaskSpec

-----------------------------------------------------------------------------
(* Context files.                                                          *)

Resolved == [concept : Concepts, dir : Dirs, file : FilesOf(FileNames)]

ContextIInv ==
    /\ caseless \in BOOLEAN
    /\ shared \in [Dirs -> SUBSET FilesOf(FileNames)]
    /\ DOMAIN session = Sessions
    /\ \A s \in Sessions : session[s] # Missing =>
          /\ session[s] \in Resolved
          /\ s \in fresh => /\ session[s].dir \in Sent
                            /\ session[s].file = write_to(session[s].dir, session[s].concept)

\* The first in an order that is one of some names.
LEMMA FirstIsFirst ==
    ASSUME NEW X, NEW order \in Seq(X), NEW names, NEW i \in DOMAIN order, order[i] \in names
    PROVE  \E m \in DOMAIN order :
              /\ FirstOf(order, names) = order[m] /\ order[m] \in names
              /\ \A j \in 1..(m - 1) : order[j] \notin names
<1> DEFINE S == {k \in DOMAIN order : order[k] \in names}
<1>1. S \in SUBSET Nat /\ S # {} /\ S \subseteq DOMAIN order /\ DOMAIN order = 1..Len(order)
  OBVIOUS
<1>2. PICK m \in S : \A k \in S : m <= k
  BY <1>1, Least
<1>3. \A j \in 1..(m - 1) : j \in DOMAIN order /\ ~(m <= j)
  BY <1>1, <1>2
<1>4. m \in DOMAIN order /\ order[m] \in names /\ \A j \in 1..(m - 1) : order[j] \notin names
  BY <1>2, <1>3
<1>5. QED
  BY <1>4 DEF FirstOf

LEMMA NamesInOrder ==
    ASSUME NEW c \in Concepts, NEW order,
           order = ReadOrder(c) \/ order = <<Canonical[c]>> \o Aliases[c]
    PROVE  /\ order \in Seq(NamesOf(c))
           /\ \A n \in NamesOf(c) : \E i \in DOMAIN order : order[i] = n
<1> DEFINE names == <<Canonical[c]>> \o Aliases[c]
<1>1. Aliases[c] \in Seq(NamesOf(c)) /\ Canonical[c] \in NamesOf(c)
  BY ContextAssumption DEF NamesOf
<1>2. names \in Seq(NamesOf(c)) /\ names[1] = Canonical[c] /\ 1 \in DOMAIN names
  BY <1>1
<1>3. ASSUME NEW k \in DOMAIN Aliases[c] PROVE k + 1 \in DOMAIN names /\ names[k + 1] = Aliases[c][k]
  BY <1>1, <1>3
<1>4. \A n \in NamesOf(c) : \E i \in DOMAIN names : names[i] = n
  BY <1>2, <1>3 DEF NamesOf, ToSet
<1> HIDE DEF names
<1>5. CASE order = names
  BY <1>2, <1>4, <1>5
<1>6. CASE order = <<Founding[c]>> \o names /\ Founding[c] # Missing
  <2>1. Founding[c] \in NamesOf(c)
    BY <1>6, ContextAssumption
  <2>2. order \in Seq(NamesOf(c))
    BY <1>2, <1>6, <2>1
  <2>3. ASSUME NEW k \in DOMAIN names PROVE k + 1 \in DOMAIN order /\ order[k + 1] = names[k]
    BY <1>2, <1>6, <2>1, <2>3
  <2>4. QED
    BY <1>4, <2>2, <2>3
<1>7. QED
  BY <1>5, <1>6 DEF ReadOrder, names

LEMMA FirstHeld ==
    ASSUME NEW c \in Concepts, NEW order,
           order = ReadOrder(c) \/ order = <<Canonical[c]>> \o Aliases[c],
           NEW names \in SUBSET NamesOf(c), names # {}
    PROVE  /\ FirstOf(order, names) \in names
           /\ \E m \in DOMAIN order : /\ order[m] = FirstOf(order, names)
                                     /\ \A j \in 1..(m - 1) : order[j] \notin names
<1>1. /\ order \in Seq(NamesOf(c))
      /\ \A n \in NamesOf(c) : \E i \in DOMAIN order : order[i] = n
  BY NamesInOrder
<1>2. PICK i \in DOMAIN order : order[i] \in names
  BY <1>1
<1>3. PICK m \in DOMAIN order : /\ FirstOf(order, names) = order[m] /\ order[m] \in names
                                /\ \A j \in 1..(m - 1) : order[j] \notin names
  BY <1>1, <1>2, FirstIsFirst
<1>4. QED
  BY <1>3

LEMMA SpelledIsHeld ==
    ASSUME shared \in [Dirs -> SUBSET FilesOf(FileNames)],
           NEW d \in Dirs, NEW c \in Concepts, NEW n \in Held(d, c)
    PROVE  Spelled(d, n) \in shared[d] /\ Spelled(d, n).name = n
<1>1. PICK f \in shared[d] : f.name = n /\ f \in FilesOf(FileNames)
  BY DEF Held, Spellings
<1>2. f = Plain(n) \/ f = [name |-> n, plain |-> FALSE]
  BY <1>1 DEF Plain, FilesOf
<1>3. QED
  BY <1>1, <1>2 DEF Spelled, Plain

\* What is resolved is a file of the folder, with the first name in the read order that has one.
LEMMA ResolvesToFirst ==
    ASSUME shared \in [Dirs -> SUBSET FilesOf(FileNames)],
           NEW d \in Dirs, NEW c \in Concepts, Held(d, c) # {}
    PROVE  /\ Resolve(d, c) \in shared[d] /\ Resolve(d, c) # Missing
           /\ \E m \in DOMAIN ReadOrder(c) :
                 /\ ReadOrder(c)[m] = Resolve(d, c).name /\ Resolve(d, c).name \in Held(d, c)
                 /\ \A j \in 1..(m - 1) : ReadOrder(c)[j] \notin Held(d, c)
<1> DEFINE order == ReadOrder(c)
           held == Held(d, c)
<1>1. held \in SUBSET NamesOf(c) /\ held # {} /\ order = ReadOrder(c)
  BY DEF Held
<1> HIDE DEF order, held
<1>2. FirstOf(order, held) \in held
  BY <1>1, FirstHeld
<1>3. PICK m \in DOMAIN order : /\ order[m] = FirstOf(order, held)
                                /\ \A j \in 1..(m - 1) : order[j] \notin held
  BY <1>1, FirstHeld
<1>4. Resolve(d, c) = Spelled(d, FirstOf(order, held))
  BY DEF Resolve, order, held
<1>5. Resolve(d, c) \in shared[d] /\ Resolve(d, c).name = FirstOf(order, held)
  BY <1>2, <1>4, SpelledIsHeld DEF held
<1>6. Resolve(d, c) # Missing
  BY <1>5, ContextAssumption
<1>7. QED
  BY <1>2, <1>3, <1>5, <1>6 DEF order, held

LEMMA WriteToIsAFile ==
    ASSUME shared \in [Dirs -> SUBSET FilesOf(FileNames)], NEW d \in Dirs, NEW c \in Concepts
    PROVE  write_to(d, c) \in FilesOf(FileNames)
<1>1. CASE Held(d, c) # {}
  BY <1>1, ResolvesToFirst DEF write_to
<1>2. CASE Held(d, c) = {}
  <2> DEFINE n == IF Founding[c] = Missing THEN Canonical[c] ELSE Founding[c]
  <2>1. Canonical[c] \in NamesOf(c) /\ Founding[c] \in NamesOf(c) \cup {Missing}
    BY ContextAssumption DEF NamesOf
  <2>2. n \in FileNames
    BY <2>1 DEF FileNames
  <2>3. write_to(d, c) = Plain(n)
    BY <1>2 DEF write_to, Resolve
  <2>4. QED
    BY <2>2, <2>3 DEF Plain, FilesOf
<1>3. QED
  BY <1>1, <1>2

LEMMA AskedIsAConcept ==
    ASSUME NEW asked \in Concepts \cup FileNames, NEW plain \in BOOLEAN
    PROVE  resolve_context(asked, plain) \in Concepts
<1>1. Rows \in Seq(Concepts) /\ \A c \in Concepts : \E i \in DOMAIN Rows : Rows[i] = c
  BY ContextAssumption DEF Concepts, ToSet
<1>2. ASSUME NEW names \in SUBSET Concepts, names # {}
      PROVE  FirstOf(Rows, names) \in Concepts
  <2>1. PICK i \in DOMAIN Rows : Rows[i] \in names
    BY <1>1, <1>2
  <2>2. \E m \in DOMAIN Rows : FirstOf(Rows, names) = Rows[m] /\ Rows[m] \in names
    BY <1>1, <2>1, FirstIsFirst
  <2>3. QED
    BY <2>2
<1>3. CASE asked \in Concepts
  BY <1>3 DEF resolve_context
<1>4. CASE asked \notin Concepts /\ ~plain
  <2>1. \E c \in Concepts : asked \in NamesOf(c)
    BY <1>4 DEF FileNames
  <2>2. FirstOf(Rows, {c \in Concepts : asked \in NamesOf(c)}) \in Concepts
    BY <1>2, <2>1
  <2>3. QED
    BY <1>4, <2>2 DEF resolve_context
<1>5. CASE asked \notin Concepts /\ plain /\ \E c \in Concepts : asked = Canonical[c]
  <2>1. FirstOf(Rows, {c \in Concepts : asked = Canonical[c]}) \in Concepts
    BY <1>2, <1>5
  <2>2. QED
    BY <1>5, <2>1 DEF resolve_context
<1>6. CASE asked \notin Concepts /\ plain /\ ~\E c \in Concepts : asked = Canonical[c]
  <2>1. \E c \in Concepts : asked \in ToSet(Aliases[c])
    BY <1>6 DEF FileNames, NamesOf
  <2>2. FirstOf(Rows, {c \in Concepts : asked \in ToSet(Aliases[c])}) \in Concepts
    BY <1>2, <2>1
  <2>3. QED
    BY <1>6, <2>2 DEF resolve_context
<1>7. QED
  BY <1>3, <1>4, <1>5, <1>6

LEMMA WrittenIsTyped ==
    ASSUME shared \in [Dirs -> SUBSET FilesOf(FileNames)],
           NEW d \in Dirs, NEW f \in FilesOf(FileNames)
    PROVE  Written(d, f) \in [Dirs -> SUBSET FilesOf(FileNames)]
BY DEF Written

LEMMA SentIsADir == Sent \subseteq Dirs
<1>1. ASSUME NEW start \in Starts PROVE find_campus(start) \in Children \cup {Missing}
  <2>1. CASE is_campus(start)
    BY <2>1 DEF find_campus, is_campus
  <2>2. CASE ~is_campus(start) /\ Cardinality(child_campuses(start)) = 1
    <3>1. child_campuses(start) # {}
      BY <2>2, FS_EmptySet
    <3>2. child_campuses(start) \subseteq Children
      BY DEF child_campuses
    <3>3. (CHOOSE f \in child_campuses(start) : TRUE) \in child_campuses(start)
      BY <3>1
    <3>4. QED
      BY <2>2, <3>2, <3>3 DEF find_campus
  <2>3. QED
    BY <2>1, <2>2 DEF find_campus
<1>2. \A start \in Starts : context_dir(start) \in Dirs
  BY <1>1 DEF context_dir, Dirs
<1>3. QED
  BY <1>2 DEF Sent, Dirs

\* Where a session is sent and what it resolves depend on the folders only.
LEMMA SameReading ==
    ASSUME UNCHANGED <<marks, shared>>
    PROVE  Sent' = Sent /\ \A e, b : write_to(e, b)' = write_to(e, b)
<1>1. \A f : is_campus(f)' = is_campus(f)
  BY DEF is_campus
<1>2. \A start : child_campuses(start)' = child_campuses(start)
  BY <1>1 DEF child_campuses
<1>3. \A start : find_campus(start)' = find_campus(start)
  <2> SUFFICES ASSUME NEW start PROVE find_campus(start)' = find_campus(start)
    OBVIOUS
  <2> DEFINE one(S) == CHOOSE f \in S : TRUE
  <2>1. find_campus(start) = IF is_campus(start) THEN start
                             ELSE IF Cardinality(child_campuses(start)) = 1
                                  THEN one(child_campuses(start)) ELSE Missing
    BY DEF find_campus
  <2>2. find_campus(start)' = IF is_campus(start)' THEN start
                              ELSE IF Cardinality(child_campuses(start)') = 1
                                   THEN one(child_campuses(start)') ELSE Missing
    BY DEF find_campus
  <2> HIDE DEF one
  <2>3. QED
    BY <1>1, <1>2, <2>1, <2>2
<1>4. \A start : context_dir(start)' = context_dir(start)
  BY <1>3 DEF context_dir
<1>5. Sent' = Sent
  BY <1>1, <1>2, <1>4 DEF Sent
<1>6. \A e, b : Held(e, b)' = Held(e, b)
  BY DEF Held, Spellings
<1>7. \A e, n : Spelled(e, n)' = Spelled(e, n)
  BY DEF Spelled
<1>8. \A e, b : Resolve(e, b)' = Resolve(e, b)
  BY <1>6, <1>7 DEF Resolve
<1>9. QED
  BY <1>5, <1>8 DEF write_to

LEMMA InitContextIInv == ContextInit => ContextIInv
BY DEF ContextInit, ContextIInv

LEMMA LookStep ==
    ASSUME ContextIInv, NEW s \in Sessions, Look(s)
    PROVE  ContextIInv'
<1>1. PICK asked \in Concepts \cup FileNames, plain \in BOOLEAN, d \in Sent :
         LET c == resolve_context(asked, plain) IN
         session' = [session EXCEPT ![s] = [concept |-> c, dir |-> d, file |-> write_to(d, c)]]
  BY DEF Look
<1> DEFINE c == resolve_context(asked, plain)
           r == [concept |-> c, dir |-> d, file |-> write_to(d, c)]
<1>2. UNCHANGED <<caseless, marks, shared>> /\ fresh' = fresh \cup {s}
  BY DEF Look
<1>3. c \in Concepts /\ d \in Dirs
  BY AskedIsAConcept, SentIsADir
<1>4. write_to(d, c) \in FilesOf(FileNames)
  BY <1>3, WriteToIsAFile DEF ContextIInv
<1>5. r \in Resolved /\ r.dir \in Sent /\ r.file = write_to(r.dir, r.concept)
  BY <1>3, <1>4 DEF Resolved
<1>6. Sent' = Sent /\ \A e, b : write_to(e, b)' = write_to(e, b)
  BY <1>2, SameReading
<1> HIDE DEF c
<1>7. session' = [session EXCEPT ![s] = r]
  BY <1>1 DEF c
<1> HIDE DEF r
<1>8. QED
  BY <1>2, <1>5, <1>6, <1>7 DEF ContextIInv

LEMMA WriteStep ==
    ASSUME ContextIInv, NEW s \in Sessions, Write(s)
    PROVE  ContextIInv'
<1> DEFINE r == session[s]
<1>1. r \in Resolved /\ shared' = Written(r.dir, r.file) /\ UNCHANGED <<caseless, marks>>
  BY DEF Write, ContextIInv
<1>2. session' = [session EXCEPT ![s] = Missing]
  BY DEF Write
<1>3. shared' \in [Dirs -> SUBSET FilesOf(FileNames)]
  BY <1>1, WrittenIsTyped DEF ContextIInv, Resolved
<1>4. CASE shared' = shared
  <2>1. Sent' = Sent /\ \A e, b : write_to(e, b)' = write_to(e, b)
    BY <1>1, <1>4, SameReading
  <2>2. fresh' \subseteq fresh
    BY <1>4 DEF Write
  <2>3. QED
    BY <1>1, <1>2, <1>3, <2>1, <2>2 DEF ContextIInv
<1>5. CASE shared' # shared
  <2>1. fresh' = {}
    BY <1>5 DEF Write
  <2>2. QED
    BY <1>1, <1>2, <1>3, <2>1 DEF ContextIInv
<1>6. QED
  BY <1>4, <1>5

LEMMA OutsideStep ==
    ASSUME ContextIInv, Outside
    PROVE  ContextIInv'
<1>1. fresh' = {} /\ UNCHANGED <<caseless, session>>
  BY DEF Outside
<1>2. shared' \in [Dirs -> SUBSET FilesOf(FileNames)]
  <2>1. shared \in [Dirs -> SUBSET FilesOf(FileNames)] /\ "here" \in Dirs
    BY DEF ContextIInv, Dirs, Children
  <2>2. CASE \E f \in FilesOf(FileNames) : shared' = Written("here", f)
    BY <2>1, <2>2, WrittenIsTyped
  <2>3. CASE \E d \in Dirs : \E f \in shared[d] : shared' = [shared EXCEPT ![d] = @ \ {f}]
    BY <2>1, <2>3
  <2>4. CASE \E f \in shared["here"] :
                shared' = [shared EXCEPT !["here"] = (@ \ {f}) \cup {[f EXCEPT !.plain = ~@]}]
    <3>1. PICK f \in shared["here"] :
             shared' = [shared EXCEPT !["here"] = (@ \ {f}) \cup {[f EXCEPT !.plain = ~@]}]
      BY <2>4
    <3>2. f \in FilesOf(FileNames)
      BY <2>1
    <3>3. [f EXCEPT !.plain = ~@] \in FilesOf(FileNames)
      BY <3>2 DEF FilesOf
    <3>4. QED
      BY <2>1, <3>1, <3>3
  <2>5. CASE shared' = shared
    BY <2>1, <2>5
  <2>6. QED
    BY <2>2, <2>3, <2>4, <2>5 DEF Outside
<1>3. QED
  BY <1>1, <1>2 DEF ContextIInv

LEMMA StepContextIInv == ContextIInv /\ [ContextNext]_contextvars => ContextIInv'
<1> SUFFICES ASSUME ContextIInv, [ContextNext]_contextvars PROVE ContextIInv'
  OBVIOUS
<1>1. CASE UNCHANGED contextvars
  <2>1. Sent' = Sent /\ \A e, b : write_to(e, b)' = write_to(e, b)
    BY <1>1, SameReading DEF contextvars
  <2>2. QED
    BY <1>1, <2>1 DEF contextvars, ContextIInv
<1>2. QED
  BY <1>1, LookStep, WriteStep, OutsideStep DEF ContextNext

LEMMA ContextIInvAlways == ContextSpec => []ContextIInv
BY InitContextIInv, StepContextIInv, PTL DEF ContextSpec

\* What founding wrote is read until someone takes it away: of the names a concept has in a
\* folder, the first in the read order is resolved, in whatever capitals (resolve).
THEOREM NamesBeforeSpelling == ContextSpec => []PriorityBeforeSpelling
<1>1. ContextIInv => PriorityBeforeSpelling
  <2> SUFFICES ASSUME ContextIInv, NEW d \in Dirs, NEW c \in Concepts, Held(d, c) # {}
               PROVE  /\ Resolve(d, c) \in shared[d]
                      /\ \A i \in DOMAIN ReadOrder(c) : ReadOrder(c)[i] \in Held(d, c) =>
                            \E j \in 1..i : ReadOrder(c)[j] = Resolve(d, c).name
    BY DEF PriorityBeforeSpelling
  <2>1. shared \in [Dirs -> SUBSET FilesOf(FileNames)]
    BY DEF ContextIInv
  <2>2. PICK m \in DOMAIN ReadOrder(c) :
           /\ ReadOrder(c)[m] = Resolve(d, c).name
           /\ \A j \in 1..(m - 1) : ReadOrder(c)[j] \notin Held(d, c)
    BY <2>1, ResolvesToFirst
  <2>3. DOMAIN ReadOrder(c) \subseteq Nat \ {0}
    BY NamesInOrder
  <2>4. ASSUME NEW i \in DOMAIN ReadOrder(c), ReadOrder(c)[i] \in Held(d, c)
        PROVE  m \in 1..i
    BY <2>2, <2>3, <2>4
  <2>5. QED
    BY <2>1, <2>2, <2>4, ResolvesToFirst
<1>2. QED
  BY <1>1, ContextIInvAlways, PTL

\* The weight tool measures the file that sessions read while the concept has one name on
\* the campus, or where the canonical name wins on a disk without capitals
\* (context-weight.mjs, :115-121, resolve_context.py).
THEOREM WeighedAreRead == ContextSpec => []WeighedIsRead
<1>1. ContextIInv => WeighedIsRead
  <2> SUFFICES ASSUME ContextIInv, NEW c \in Concepts, NEW n \in NamesOf(c), RowOf(n) = c,
                      Cardinality(Held("here", c)) = 1 \/ (c \in CanonicalWins /\ caseless)
               PROVE  Weighed("here", n) = Resolve("here", c)
    BY DEF WeighedIsRead
  <2> DEFINE order == <<Canonical[c]>> \o Aliases[c]
             held == Held("here", c)
             exist == IF caseless THEN held ELSE {m \in NamesOf(c) : Plain(m) \in shared["here"]}
  <2>1. Weighed("here", n) = IF exist # {} THEN Spelled("here", FirstOf(order, exist))
                             ELSE IF held = {} THEN Missing
                             ELSE Spelled("here", FirstOf(order, held))
    BY DEF Weighed
  <2>2. exist \subseteq held /\ held \subseteq NamesOf(c) /\ (caseless => exist = held)
    BY DEF Held, Spellings, Plain
  <2>3. CASE Cardinality(held) = 1
    <3>1. PICK x : held = {x}
      <4>1. IsFiniteSet(NamesOf(c))
        <5>1. DOMAIN Aliases[c] = 1..Len(Aliases[c]) /\ Len(Aliases[c]) \in Nat
          BY ContextAssumption
        <5>2. \A k \in Int : IsFiniteSet(1..k)
          BY FS_Interval
        <5>3. IsFiniteSet(ToSet(Aliases[c]))
          <6>1. Aliases[c] \in Surjection(DOMAIN Aliases[c], ToSet(Aliases[c]))
            BY ContextAssumption DEF Surjection, ToSet
          <6>2. IsFiniteSet(DOMAIN Aliases[c])
            BY <5>1, <5>2
          <6>3. QED
            BY <6>1, <6>2, FS_Surjection
        <5>4. QED
          BY <5>3, FS_Singleton, FS_Union DEF NamesOf
      <4>2. IsFiniteSet(held)
        BY <2>2, <4>1, FS_Subset
      <4>3. QED
        BY <2>3, <4>2, FS_Singleton
    <3>2. ASSUME NEW o, o = ReadOrder(c) \/ o = order PROVE FirstOf(o, held) = x
      <4>1. held \in SUBSET NamesOf(c) /\ held # {}
        BY <2>2, <3>1
      <4> HIDE DEF held
      <4>2. FirstOf(o, held) \in held
        BY <3>2, <4>1, FirstHeld
      <4>3. QED
        BY <3>1, <4>2
    <3>3. Resolve("here", c) = Spelled("here", x)
      BY <3>1, <3>2 DEF Resolve
    <3>4. exist = {} \/ exist = held
      BY <2>2, <3>1
    <3> HIDE DEF exist, held, order
    <3>5. QED
      BY <2>1, <3>1, <3>2, <3>3, <3>4
  <2>4. CASE c \in CanonicalWins /\ caseless
    <3>1. ReadOrder(c) = order
      BY <2>4 DEF ReadOrder
    <3>2. Resolve("here", c) = IF held = {} THEN Missing ELSE Spelled("here", FirstOf(order, held))
      BY <3>1 DEF Resolve
    <3> HIDE DEF exist, held, order
    <3>3. QED
      BY <2>1, <2>2, <2>4, <3>2
  <2>5. QED
    BY <2>3, <2>4
<1>2. QED
  BY <1>1, ContextIInvAlways, PTL

LEMMA OneCampus ==
    ASSUME {f \in Children : is_campus(f)} = {"here"}
    PROVE  Sent = {"here"}
<1>1. is_campus("here") /\ ~is_campus("above")
  BY DEF is_campus, Children
<1>2. child_campuses("above") = {"here"}
  BY DEF child_campuses
<1>3. Cardinality({"here"}) = 1
  BY FS_Singleton
<1>4. find_campus("here") = "here" /\ find_campus("above") = "here"
  BY <1>1, <1>2, <1>3 DEF find_campus
<1>5. "here" # Missing
  BY ContextAssumption DEF Children
<1>6. context_dir("here") = "here" /\ context_dir("above") = "here"
  BY <1>4, <1>5 DEF context_dir
<1>7. QED
  BY <1>2, <1>3, <1>6 DEF Sent, Starts

\* A session in or above the one campus writes a second file for a concept that the campus
\* holds only if something changed between its look and its write (write_to).
THEOREM NoSecondNames == ContextSpec => NoSecondName
<1> DEFINE A == \A s \in Sessions : LET c == session[s].concept IN
          /\ session[s] # Missing /\ session'[s] = Missing /\ s \in fresh
          /\ {f \in Children : is_campus(f)} = {"here"} /\ Held("here", c) # {}
          => shared' = shared
<1>1. ContextIInv /\ [ContextNext]_contextvars => [A]_contextvars
  <2> SUFFICES ASSUME ContextIInv, ContextNext, NEW s \in Sessions,
                      session[s] # Missing, session'[s] = Missing, s \in fresh,
                      {f \in Children : is_campus(f)} = {"here"},
                      Held("here", session[s].concept) # {}
               PROVE  shared' = shared
    OBVIOUS
  <2>1. Write(s)
    <3>1. ASSUME NEW t \in Sessions, Look(t) PROVE FALSE
      <4>1. session[t] = Missing /\ t # s
        BY <3>1 DEF Look
      <4>2. session'[s] = session[s]
        BY <3>1, <4>1 DEF Look, ContextIInv
      <4>3. QED
        BY <4>2
    <3>2. ASSUME NEW t \in Sessions, Write(t), t # s PROVE FALSE
      BY <3>2 DEF Write, ContextIInv
    <3>3. ASSUME Outside PROVE FALSE
      BY <3>3 DEF Outside
    <3>4. QED
      BY <3>1, <3>2, <3>3 DEF ContextNext
  <2> DEFINE r == session[s]
  <2>2. r \in Resolved /\ r.dir = "here" /\ r.file = write_to("here", r.concept)
    BY OneCampus DEF ContextIInv
  <2>3. /\ Resolve("here", r.concept) \in shared["here"]
        /\ Resolve("here", r.concept) # Missing
    BY <2>2, ResolvesToFirst DEF ContextIInv, Resolved
  <2>4. r.file \in shared["here"]
    BY <2>2, <2>3 DEF write_to
  <2>5. shared' = Written("here", r.file)
    BY <2>1, <2>2 DEF Write
  <2>6. "here" \in DOMAIN shared /\ shared \in [Dirs -> SUBSET FilesOf(FileNames)]
    BY <2>2 DEF ContextIInv, Resolved
  <2>7. [shared EXCEPT !["here"] = @ \cup {r.file}] = shared
    BY <2>4, <2>6
  <2>8. QED
    BY <2>5, <2>7 DEF Written
<1>2. QED
  BY <1>1, ContextIInvAlways, PTL DEF ContextSpec, NoSecondName
-----------------------------------------------------------------------------
(* hr-recruit.                                                             *)

GroupOfWork(lines) ==
    lines # {} /\ IsFiniteSet(lines) /\ \A l \in lines : l.words \in Triggers

SoundBrief(b) ==
    /\ GroupOfWork(b.lines) /\ b.all = AllWords(b.lines)
    /\ SharedWords(b.lines) # {} => b.name = slugify(SharedWords(b.lines))

(* What the owner decided is known to the next run: by the entry of the    *)
(* registry, or by the name of the rejected file.                          *)
Kept(d) ==
    /\ SoundBrief(d.brief)
    /\ IF d.approved THEN [name |-> d.brief.name, words |-> d.brief.all] \in skills
       ELSE d.brief.name \in rejected

RecruitIInv ==
    /\ IsFiniteSet(activity) /\ \A l \in activity : l.words \in Triggers
    /\ recruit = [listed |-> recruit.listed, known |-> recruit.known]
    /\ \A b \in briefs \cup recruit.listed : SoundBrief(b)
    /\ \A d \in decided : Kept(d)
    /\ DecidedOnce

LEMMA WordsAreFinite ==
    ASSUME NEW lines, GroupOfWork(lines)
    PROVE  IsFiniteSet(AllWords(lines)) /\ AllWords(lines) # {}
<1>1. \A l \in lines : IsFiniteSet(l.words) /\ l.words # {}
  BY RecruitAssumption DEF GroupOfWork
<1>2. IsFiniteSet({l.words : l \in lines})
  <2> DEFINE wordsOf == [l \in lines |-> l.words]
  <2>1. wordsOf \in Surjection(lines, {l.words : l \in lines})
    BY DEF Surjection
  <2>2. QED
    BY <2>1, FS_Surjection DEF GroupOfWork
<1>3. IsFiniteSet(UNION {l.words : l \in lines})
  BY <1>1, <1>2, FS_UNION
<1>4. QED
  BY <1>1, <1>3 DEF AllWords, GroupOfWork

LEMMA ClusterIsGroup ==
    ASSUME IsFiniteSet(activity), \A l \in activity : l.words \in Triggers,
           NEW c \in Clusters
    PROVE  GroupOfWork(c.lines)
<1>1. c.lines \subseteq activity /\ Cardinality(c.lines) >= MinCluster
  BY DEF Clusters, Grouped, load_ledger
<1>2. MinCluster \in Nat /\ MinCluster >= 1
  BY RecruitAssumption
<1>3. c.lines # {}
  BY <1>1, <1>2, FS_EmptySet
<1>4. QED
  BY <1>1, <1>3, FS_Subset DEF GroupOfWork

\* A run lists a group that neither a skill nor a rejection covers.
LEMMA ListedIsNew ==
    ASSUME NEW b \in Candidates
    PROVE  \E c \in Clusters :
              /\ ~Matched(c) /\ ~Suppressed(c)
              /\ b.lines = c.lines /\ b.all = AllWords(c.lines)
              /\ b.name = slugify(Common(c))
<1> DEFINE new == {c \in Clusters : ~Matched(c) /\ ~Suppressed(c)}
<1>1. PICK c \in Capped(new) : b = BriefOf(c, new)
  BY DEF Candidates
<1>2. c \in new
  BY DEF Capped
<1>3. b.lines = c.lines /\ b.all = AllWords(c.lines) /\ b.name = slugify(Common(c))
  BY <1>1 DEF BriefOf
<1>4. QED
  BY <1>2, <1>3

LEMMA ListedIsSound ==
    ASSUME IsFiniteSet(activity), \A l \in activity : l.words \in Triggers,
           NEW b \in Candidates
    PROVE  SoundBrief(b)
<1>1. PICK c \in Clusters : /\ b.lines = c.lines /\ b.all = AllWords(c.lines)
                            /\ b.name = slugify(Common(c))
  BY ListedIsNew
<1>2. QED
  BY <1>1, ClusterIsGroup DEF SoundBrief, Common

\* The words a decided brief is named after are in each of its lines: those of them still in
\* the window have the name among their words, so an approved skill matches, and a
\* rejection suppresses the group unless its slug is less than half of its words.
LEMMA NewIsUndecided ==
    ASSUME NEW c \in Clusters, GroupOfWork(c.lines), ~Matched(c), ~Suppressed(c),
           NEW d, Kept(d), c.lines \subseteq d.brief.lines, SharedWords(d.brief.lines) # {}
    PROVE  ~d.approved /\ Cardinality(d.brief.all) > 2 * Cardinality(d.brief.name)
<1> DEFINE name == d.brief.name
           all == AllWords(c.lines)
<1>1. name \subseteq SharedWords(d.brief.lines)
  BY DEF Kept, SoundBrief, slugify
<1>2. name \subseteq all
  BY <1>1 DEF SharedWords, AllWords, GroupOfWork
<1>3. ~d.approved
  BY <1>2 DEF Kept, Matched
<1>4. name \in rejected
  BY <1>3 DEF Kept
<1>5. IsFiniteSet(all) /\ all # {} /\ IsFiniteSet(d.brief.all) /\ all \subseteq d.brief.all
  <2>1. GroupOfWork(d.brief.lines) /\ d.brief.all = AllWords(d.brief.lines)
    BY DEF Kept, SoundBrief
  <2>2. QED
    BY <2>1, WordsAreFinite DEF AllWords
<1> HIDE DEF all
<1>6. /\ Cardinality(name) \in Nat /\ Cardinality(all) \in Nat /\ Cardinality(all) # 0
      /\ Cardinality(d.brief.all) \in Nat /\ Cardinality(all) <= Cardinality(d.brief.all)
  BY <1>2, <1>5, FS_Subset, FS_CardinalityType, FS_EmptySet
<1>7. CASE name = {}
  BY <1>3, <1>6, <1>7, FS_EmptySet
<1>8. CASE name # {}
  <2>1. ~Alike(all, name)
    BY <1>4 DEF Suppressed, all
  <2>2. all \cap name = name /\ all \cup name = all
    BY <1>2
  <2>3. ~(2 * Cardinality(name) >= Cardinality(all))
    BY <1>5, <1>8, <2>1, <2>2 DEF Alike
  <2>4. QED
    BY <1>3, <1>6, <2>3
<1>9. QED
  BY <1>7, <1>8

LEMMA StepRecruitIInv == RecruitIInv /\ [RecruitNext]_recruitvars => RecruitIInv'
<1> SUFFICES ASSUME RecruitIInv, [RecruitNext]_recruitvars PROVE RecruitIInv'
  OBVIOUS
<1>1. CASE Work
  <2>1. PICK w \in Triggers, s \in Seats, dated \in BOOLEAN :
            activity' = activity \cup {[words |-> w, at |-> now + 1, dated |-> dated, seat |-> s]}
    BY <1>1 DEF Work
  <2>2. IsFiniteSet(activity')
    BY <2>1, FS_AddElement DEF RecruitIInv
  <2>3. QED
    BY <1>1, <2>1, <2>2 DEF Work, RecruitIInv, Kept, DecidedOnce
<1>2. CASE Wait
  BY <1>2 DEF Wait, RecruitIInv, Kept, DecidedOnce
<1>3. CASE Cluster
  <2>1. /\ recruit' = [listed |-> Candidates, known |-> decided]
        /\ UNCHANGED <<activity, briefs, rejected, skills, decided>>
    BY <1>3 DEF Cluster
  <2>2. \A b \in Candidates : SoundBrief(b)
    BY ListedIsSound DEF RecruitIInv
  <2>3. ASSUME NEW b \in Candidates, NEW d \in decided, b.lines \subseteq d.brief.lines,
               SharedWords(d.brief.lines) # {}
        PROVE  ~d.approved /\ Cardinality(d.brief.all) > 2 * Cardinality(d.brief.name)
    <3>1. PICK c \in Clusters : ~Matched(c) /\ ~Suppressed(c) /\ b.lines = c.lines
      BY ListedIsNew
    <3>2. GroupOfWork(c.lines) /\ Kept(d)
      BY ClusterIsGroup DEF RecruitIInv
    <3>3. QED
      BY <2>3, <3>1, <3>2, NewIsUndecided
  <2>4. DecidedOnce'
    BY <2>1, <2>3 DEF DecidedOnce
  <2>5. QED
    BY <2>1, <2>2, <2>4 DEF RecruitIInv, Kept
<1>4. CASE FileBrief
  <2>1. PICK b \in recruit.listed : /\ briefs' \subseteq briefs \cup {b}
                                    /\ recruit' = [recruit EXCEPT !.listed = @ \ {b}]
    BY <1>4 DEF FileBrief
  <2>2. recruit' = [listed |-> recruit.listed \ {b}, known |-> recruit.known]
    BY <2>1 DEF RecruitIInv
  <2>3. UNCHANGED <<activity, rejected, skills, decided>>
    BY <1>4 DEF FileBrief
  <2>4. QED
    BY <2>1, <2>2, <2>3 DEF RecruitIInv, Kept, DecidedOnce
<1>5. ASSUME NEW b \in briefs, NEW approved \in BOOLEAN, briefs' = briefs \ {b},
             skills' = skills \cup
                 (IF approved THEN {[name |-> b.name, words |-> b.all]} ELSE {}),
             rejected' = rejected \cup (IF approved THEN {} ELSE {b.name}),
             decided' = decided \cup {[brief |-> b, approved |-> approved]},
             UNCHANGED <<activity, recruit>>
      PROVE  RecruitIInv'
  <2>1. \A d \in decided : Kept(d)'
    BY <1>5 DEF RecruitIInv, Kept
  <2>2. SoundBrief(b)
    BY DEF RecruitIInv
  <2>3. Kept([brief |-> b, approved |-> approved])'
    BY <1>5, <2>2 DEF Kept
  <2>4. QED
    BY <1>5, <2>1, <2>3 DEF RecruitIInv, DecidedOnce
<1>6. CASE Approve
  BY <1>5, <1>6 DEF Approve
<1>7. CASE Reject
  BY <1>5, <1>7 DEF Reject
<1>8. CASE UNCHANGED recruitvars
  BY <1>8 DEF recruitvars, RecruitIInv, Kept, DecidedOnce
<1>9. QED
  BY <1>1, <1>2, <1>3, <1>4, <1>6, <1>7, <1>8 DEF RecruitNext

\* A run of hr-recruit lists again no work that the owner decided on before it, approved or
\* rejected, except what its test for rejected groups lets through (cluster_ledger.py).
THEOREM DecidedWorkStaysDecided == RecruitSpec => []DecidedOnce
<1>1. RecruitInit => RecruitIInv
  BY FS_EmptySet DEF RecruitInit, NoRecruit, RecruitIInv, DecidedOnce
<1>2. RecruitIInv => DecidedOnce
  BY DEF RecruitIInv
<1>3. QED
  BY <1>1, <1>2, StepRecruitIInv, PTL DEF RecruitSpec

-----------------------------------------------------------------------------
(* What a session reads before its first question.                         *)

\* What FlattenSeq computes: the elements of all the sequences.
Then(s, t) == s \o t
Flattens(seqs, n, g) == g = [i \in 1..n |-> IF i = 1 THEN seqs[i] ELSE Then(g[i - 1], seqs[i])]

LEMMA FlattenExists ==
    ASSUME NEW seqs, NEW n \in Nat \ {0}
    PROVE  \E g : Flattens(seqs, n, g)
<1> DEFINE Bad == {m \in Nat : m # 0 /\ ~\E g : Flattens(seqs, m, g)}
<1> SUFFICES ASSUME Bad # {} PROVE FALSE
  OBVIOUS
<1>1. PICK m \in Bad : \A k \in Bad : m <= k
  BY Least
<1>2. m # 1
  <2> DEFINE g == [i \in 1..1 |-> seqs[1]]
  <2>1. g = [i \in 1..1 |-> IF i = 1 THEN seqs[i] ELSE Then(g[i - 1], seqs[i])]
    OBVIOUS
  <2> HIDE DEF g
  <2>2. Flattens(seqs, 1, g)
    BY <2>1 DEF Flattens
  <2>3. QED
    BY <2>2
<1>3. m - 1 \in Nat \ {0} /\ m - 1 \notin Bad
  BY <1>1, <1>2
<1>4. PICK g : Flattens(seqs, m - 1, g)
  BY <1>3
<1> DEFINE h == [i \in 1..m |-> IF i = m THEN Then(g[m - 1], seqs[m]) ELSE g[i]]
<1>5. \A i \in 1..m : h[i] = IF i = 1 THEN seqs[i] ELSE Then(h[i - 1], seqs[i])
  <2>1. \A i \in 1..(m - 1) : g[i] = IF i = 1 THEN seqs[i] ELSE Then(g[i - 1], seqs[i])
    BY <1>4 DEF Flattens
  <2>2. \A i \in 1..(m - 1) : h[i] = g[i] /\ i - 1 # m
    BY <1>3
  <2>3. \A i \in 1..m : i # 1 => i - 1 \in 1..(m - 1)
    BY <1>3
  <2>4. h[m] = Then(g[m - 1], seqs[m])
    BY <1>3
  <2> HIDE DEF h
  <2>5. QED
    BY <1>2, <1>3, <2>1, <2>2, <2>3, <2>4
<1>6. Flattens(seqs, m, h)
  <2>1. h = [i \in 1..m |-> h[i]]
    OBVIOUS
  <2> HIDE DEF h
  <2>2. QED
    BY <1>5, <2>1 DEF Flattens
<1>7. QED
  BY <1>1, <1>6

\* The elements of two sequences, of the first k of several, and of all of them.
LEMMA SetOfThen ==
    ASSUME NEW X, NEW s \in Seq(X), NEW t \in Seq(X)
    PROVE  ToSet(Then(s, t)) = ToSet(s) \cup ToSet(t)
<1> DEFINE u == Then(s, t)
<1>1. /\ u \in Seq(X) /\ DOMAIN s = 1..Len(s) /\ DOMAIN t = 1..Len(t) /\ DOMAIN u = 1..(Len(s) + Len(t))
      /\ \A i \in 1..Len(s) : u[i] = s[i]
      /\ \A i \in 1..Len(t) : u[Len(s) + i] = t[i]
      /\ Len(s) \in Nat /\ Len(t) \in Nat
  BY DEF Then
<1>2. \A i \in DOMAIN u : i \in DOMAIN s \/ (i - Len(s) \in DOMAIN t /\ Len(s) + (i - Len(s)) = i)
  BY <1>1
<1>3. /\ \A i \in DOMAIN s : i \in DOMAIN u
      /\ \A i \in DOMAIN t : Len(s) + i \in DOMAIN u
  BY <1>1
<1> HIDE DEF u
<1>4. QED
  BY <1>1, <1>2, <1>3 DEF ToSet, u

UpTo(seqs, k) == UNION {ToSet(seqs[i]) : i \in 1..k}

LEMMA FlattenedUpTo ==
    ASSUME NEW X, NEW seqs, NEW n \in Nat, NEW g, Flattens(seqs, n, g),
           \A i \in 1..n : seqs[i] \in Seq(X)
    PROVE  \A k \in 1..n : g[k] \in Seq(X) /\ ToSet(g[k]) = UpTo(seqs, k)
<1> DEFINE P(k) == g[k] \in Seq(X) /\ ToSet(g[k]) = UpTo(seqs, k)
           Bad == {k \in Nat : k \in 1..n /\ ~P(k)}
<1> SUFFICES ASSUME Bad # {} PROVE FALSE
  <2>1. 1..n \subseteq Nat
    OBVIOUS
  <2> HIDE DEF P
  <2>2. Bad = {} => \A k \in 1..n : P(k)
    BY <2>1
  <2>3. QED
    BY <2>2 DEF P
<1>1. PICK m \in Bad : \A k \in Bad : m <= k
  BY Least
<1>2. \A i \in 1..n : g[i] = IF i = 1 THEN seqs[i] ELSE Then(g[i - 1], seqs[i])
  BY DEF Flattens
<1>3. CASE m = 1
  <2>1. g[1] = seqs[1] /\ 1..1 = {1}
    BY <1>1, <1>2, <1>3
  <2>2. QED
    BY <1>1, <1>3, <2>1 DEF UpTo
<1>4. CASE m # 1
  <2>1. m \in 1..n /\ m - 1 \in 1..n /\ m - 1 \in Nat
    BY <1>1, <1>4
  <2>2. P(m - 1)
    <3> HIDE DEF P
    <3>1. QED
      BY <1>1, <2>1
  <2>3. g[m] = Then(g[m - 1], seqs[m]) /\ seqs[m] \in Seq(X)
    BY <1>2, <1>4, <2>1
  <2>4. ToSet(g[m]) = ToSet(g[m - 1]) \cup ToSet(seqs[m]) /\ g[m] \in Seq(X)
    <3>1. g[m] \in Seq(X)
      BY <2>2, <2>3 DEF Then
    <3>2. QED
      BY <2>2, <2>3, <3>1, SetOfThen
  <2>5. 1..m = 1..(m - 1) \cup {m}
    BY <2>1
  <2>6. P(m)
    BY <2>2, <2>4, <2>5 DEF UpTo
  <2>7. QED
    BY <1>1, <2>6
<1>5. QED
  BY <1>3, <1>4

LEMMA Flattened ==
    ASSUME NEW X, NEW seqs \in Seq(Seq(X))
    PROVE  /\ FlattenSeq(seqs) \in Seq(X)
           /\ ToSet(FlattenSeq(seqs)) = UNION {ToSet(seqs[i]) : i \in DOMAIN seqs}
<1> DEFINE n == Len(seqs)
           F(g) == [i \in 1..n |-> IF i = 1 THEN seqs[i] ELSE g[i - 1] \o seqs[i]]
           g == CHOOSE g : g = F(g)
<1>1. DOMAIN seqs = 1..n /\ n \in Nat /\ \A i \in 1..n : seqs[i] \in Seq(X)
  OBVIOUS
<1>2. CASE n = 0
  <2>1. FlattenSeq(seqs) = seqs /\ seqs = <<>>
    BY <1>2 DEF FlattenSeq
  <2>2. QED
    BY <2>1 DEF ToSet
<1>3. CASE n # 0
  <2>1. FlattenSeq(seqs) = g[n]
    BY <1>3 DEF FlattenSeq
  <2>2. n \in Nat \ {0} /\ n \in 1..n
    BY <1>1, <1>3
  <2>3. \E h : h = F(h)
    <3>1. \E h : Flattens(seqs, n, h)
      BY <2>2, FlattenExists
    <3>2. QED
      BY <3>1 DEF Flattens, Then
  <2>4. g = F(g)
    BY <2>3
  <2>5. Flattens(seqs, n, g)
    BY <2>4 DEF Flattens, Then
  <2> HIDE DEF g, n
  <2>6. g[n] \in Seq(X) /\ ToSet(g[n]) = UpTo(seqs, n)
    <3>1. n \in Nat /\ \A i \in 1..n : seqs[i] \in Seq(X)
      BY <1>1
    <3>2. \A k \in 1..n : g[k] \in Seq(X) /\ ToSet(g[k]) = UpTo(seqs, k)
      BY <2>5, <3>1, FlattenedUpTo
    <3>3. QED
      BY <2>2, <3>2
  <2>7. QED
    BY <1>1, <2>1, <2>6 DEF UpTo
<1>4. QED
  BY <1>2, <1>3

(* The entries a host opens, what it reaches from them, and the entries    *)
(* that exist.                                                             *)
HostOpens == {parentEntry, rootEntry}
Top == Reachable(HostOpens)
Here == {f \in EntryFiles : Present(f)}
Refs(f) == ToSet(entry[f].refs)

\* Each reference of an entry visited is an entry visited, or still on the chain.
Walked ==
    \A f \in ToSet(visited) : \A r \in Refs(f) :
        \/ r \in ToSet(visited)
        \/ \E i \in DOMAIN chain : chain[i].file = f /\ r \in ToSet(chain[i].refs)

\* How far the walk has come, and where it may have been.
Bounded ==
    /\ step # "parent" /\ Present(parentEntry) => parentEntry \in ToSet(visited)
    /\ step \notin {"parent", "root"} /\ Present(rootEntry) => rootEntry \in ToSet(visited)
    /\ step \in {"parent", "root", "fallback"} => ToSet(visited) \subseteq Top
    /\ step \in {"reads", "done"} => chain = <<>>
    /\ step \in {"list", "reads", "done"} /\ ~blocking =>
          IF \E f \in Top : entry[f].heading THEN ToSet(visited) = Top
          ELSE Here \subseteq ToSet(visited)

\* The reads that are resolved one by one, and what is known of those resolved so far.
Listed == IF startup_reads # Missing THEN {Must(r) : r \in ToSet(startup_reads)}
          ELSE UNION {ToSet(entry[f].items) : f \in ToSet(visited)}

Wanted(i) == i.kind = "must" \/ (i.kind # "optional" /\ Present(i.ref))

ReadUp ==
    /\ ToSet(visited) \subseteq counted
    /\ counted \subseteq ToSet(visited) \cup {i.ref : i \in {j \in Listed : j.kind # "optional" /\ Present(j.ref)}}
    /\ counted \cap onDemand = {} /\ unread \in Seq(Listed)
    /\ \A i \in Listed : Wanted(i) => i.ref \in counted \/ i \in ToSet(unread)
    /\ step = "done" => unread = <<>>

\* An entry is visited once, and is on the chain with references of its own.
Frames == [file : ToSet(visited), refs : Seq(EntryFiles \cup {Gone})]

Shape ==
    /\ entry \in [EntryFiles -> Texts \cup {Missing}] /\ startup_reads \in Declared
    /\ step \in {"parent", "root", "fallback", "list", "reads", "done"}
    /\ visited \in Seq(Here)
    /\ \A i, j \in DOMAIN visited : visited[i] = visited[j] => i = j
    /\ chain \in Seq(Frames)
    /\ \A i \in DOMAIN chain : ToSet(chain[i].refs) \subseteq Refs(chain[i].file)
    /\ (chief = Missing <=> \A f \in ToSet(visited) : ~entry[f].heading)

WeightIInv ==
    /\ Shape /\ Bounded /\ (~blocking => Walked)
    /\ step \notin {"reads", "done"} => counted = ToSet(visited) /\ onDemand = {}
    /\ step \in {"reads", "done"} /\ ~blocking => ReadUp

LEMMA SetOfAppend ==
    ASSUME NEW X, NEW s \in Seq(X), NEW x
    PROVE  ToSet(Append(s, x)) = ToSet(s) \cup {x}
<1> DEFINE u == Append(s, x)
<1>1. /\ DOMAIN s = 1..Len(s) /\ DOMAIN u = 1..(Len(s) + 1) /\ Len(s) \in Nat
      /\ \A i \in 1..Len(s) : u[i] = s[i]
      /\ u[Len(s) + 1] = x
  OBVIOUS
<1> HIDE DEF u
<1>2. ToSet(u) = ToSet(s) \cup {x}
  BY <1>1 DEF ToSet
<1>3. QED
  BY <1>2 DEF u

LEMMA SetOfHeadAndTail ==
    ASSUME NEW X, NEW s \in Seq(X), s # <<>>
    PROVE  ToSet(s) = {Head(s)} \cup ToSet(Tail(s)) /\ Head(s) \in X /\ Tail(s) \in Seq(X)
<1> DEFINE t == Tail(s)
<1>1. /\ DOMAIN s = 1..Len(s) /\ DOMAIN t = 1..(Len(s) - 1) /\ Len(s) \in Nat /\ Len(s) # 0
      /\ \A i \in 1..(Len(s) - 1) : t[i] = s[i + 1]
      /\ Head(s) = s[1] /\ s[1] \in X /\ t \in Seq(X)
  OBVIOUS
<1>2. \A i \in 1..Len(s) : i = 1 \/ (i - 1 \in 1..(Len(s) - 1) /\ (i - 1) + 1 = i)
  BY <1>1
<1> HIDE DEF t
<1>3. ASSUME NEW i \in DOMAIN s PROVE s[i] \in {Head(s)} \cup ToSet(t)
  <2>1. CASE i = 1
    BY <1>1, <2>1
  <2>2. CASE i # 1
    <3>1. i - 1 \in DOMAIN t /\ t[i - 1] = s[i]
      BY <1>1, <1>2, <2>2
    <3>2. QED
      BY <3>1 DEF ToSet
  <2>3. QED
    BY <2>1, <2>2
<1>4. \A i \in DOMAIN t : i + 1 \in DOMAIN s /\ t[i] = s[i + 1]
  BY <1>1
<1>5. Head(s) \in ToSet(s) /\ ToSet(t) \subseteq ToSet(s)
  BY <1>1, <1>4 DEF ToSet
<1>6. ToSet(s) = {Head(s)} \cup ToSet(t)
  BY <1>3, <1>5 DEF ToSet
<1>7. QED
  BY <1>1, <1>6 DEF t

StartupReads == [ref : Docs \cup EntryFiles, kind : {"must", "optional", "if present"}]

LEMMA EntryText ==
    ASSUME entry \in [EntryFiles -> Texts \cup {Missing}], NEW f \in Here
    PROVE  /\ entry[f].refs \in Seq(EntryFiles \cup {Gone}) /\ Refs(f) \subseteq EntryFiles \cup {Gone}
           /\ entry[f].items \in Seq(StartupReads) /\ entry[f].heading \in BOOLEAN
<1>1. f \in EntryFiles /\ entry[f] \in Texts
  BY DEF Here, Present
<1>2. entry[f] \in EntryTexts
  BY <1>1, WeightAssumption
<1>3. /\ entry[f].refs \in Seq(EntryFiles \cup {Gone}) /\ entry[f].items \in Seq(StartupReads)
      /\ entry[f].heading \in BOOLEAN
  BY <1>2 DEF EntryTexts, StartupReads
<1>4. \A i \in DOMAIN entry[f].refs : entry[f].refs[i] \in EntryFiles \cup {Gone}
  BY <1>3
<1>5. QED
  BY <1>3, <1>4 DEF Refs, ToSet

-----------------------------------------------------------------------------
\* Two steps from the entries a host opens reach all there is to reach, since there is one
\* more entry.
LEMMA TopIsReached ==
    ASSUME entry \in [EntryFiles -> Texts \cup {Missing}]
    PROVE  /\ HostOpens \cap Here \subseteq Top /\ Top \subseteq Here
           /\ \A f \in Top : Refs(f) \cap Here \subseteq Top \cup {Gone}
           /\ \A W : HostOpens \cap Here \subseteq W /\ (\A f \in W : Refs(f) \subseteq W) => Top \subseteq W
<1> DEFINE more(S) == S \cup UNION {ToSet(entry[f].refs) \ {Gone} : f \in S}
           there(S) == {f \in S : Present(f)}
           S0 == there(HostOpens)
           S1 == there(more(S0))
           S2 == there(more(S1))
<1>1. Top = S2
  BY DEF Top, Reachable
<1>2. \A f \in Here : Refs(f) \subseteq EntryFiles \cup {Gone}
  BY EntryText
<1>3. S0 \subseteq Here /\ S0 = HostOpens \cap Here
  BY DEF Here, HostOpens, EntryFiles
<1>4. ASSUME NEW S, S \subseteq Here
      PROVE  /\ S \subseteq there(more(S)) /\ there(more(S)) \subseteq Here
             /\ \A f \in S : Refs(f) \cap Here \subseteq there(more(S)) \cup {Gone}
             /\ \A W : S \subseteq W /\ (\A f \in W : Refs(f) \subseteq W) => there(more(S)) \subseteq W
  BY <1>2, <1>4 DEF Here, Refs
<1> HIDE DEF more, there
<1>5. S1 \subseteq Here /\ S0 \subseteq S1 /\ S2 \subseteq Here /\ S1 \subseteq S2
  BY <1>3, <1>4
<1>6. S1 = S0 \/ S1 = Here
  BY <1>3, <1>5 DEF HostOpens, Here, EntryFiles
<1>7. S2 = S1
  BY <1>5, <1>6
<1>8. QED
  BY <1>1, <1>3, <1>4, <1>5, <1>7

LEMMA AllIsReached ==
    ASSUME entry \in [EntryFiles -> Texts \cup {Missing}]
    PROVE  Reachable(EntryFiles) = Here
<1> DEFINE more(S) == S \cup UNION {ToSet(entry[f].refs) \ {Gone} : f \in S}
           there(S) == {f \in S : Present(f)}
<1>1. \A f \in Here : ToSet(entry[f].refs) \subseteq EntryFiles \cup {Gone}
  BY EntryText DEF Refs
<1>2. there(more(Here)) = Here
  BY <1>1 DEF Here
<1>3. there(EntryFiles) = Here
  BY DEF Here
<1> HIDE DEF more
<1>4. Reachable(EntryFiles) = there(more(there(more(there(EntryFiles)))))
  BY DEF Reachable, more
<1> HIDE DEF there
<1>5. QED
  BY <1>2, <1>3, <1>4

-----------------------------------------------------------------------------
LEMMA FilesStay ==
    ASSUME [WeightNext]_weightvars
    PROVE  /\ UNCHANGED <<entry, docs, startup_reads>>
           /\ Top' = Top /\ Here' = Here /\ (~blocking' => ~blocking)
<1>1. UNCHANGED <<entry, docs, startup_reads>> /\ findings \subseteq findings'
  BY DEF WeightNext, Follow, Return, EnterParent, EnterRoot, EnterDean, Enter, ListReads, readRef, Weigh,
         weightvars
<1>2. QED
  BY <1>1 DEF Top, Here, Reachable, Present, blocking

\* An entry that is visited is put on the chain with all its references.
LEMMA VisitKeeps ==
    ASSUME Shape, NEW f \in Here, ~Known(f), NEW below \in Seq(Frames),
           \A i \in DOMAIN below : ToSet(below[i].refs) \subseteq Refs(below[i].file),
           Visit(f, below), UNCHANGED <<entry, docs, startup_reads>>, step' \in {"root", "fallback", "list", step}
    PROVE  /\ Shape' /\ ToSet(visited') = ToSet(visited) \cup {f} /\ counted' = counted \cup {f}
           /\ DOMAIN below \subseteq DOMAIN chain'
           /\ \A i \in DOMAIN below : chain'[i] = below[i]
           /\ \E i \in DOMAIN chain' : chain'[i] = [file |-> f, refs |-> entry[f].refs]
<1>1. /\ chain' = Append(below, [file |-> f, refs |-> entry[f].refs])
      /\ visited' = Append(visited, f) /\ counted' = counted \cup {f}
      /\ chief' = IF entry[f].heading THEN f ELSE chief
  BY DEF Visit
<1>2. ToSet(visited') = ToSet(visited) \cup {f}
  BY <1>1, SetOfAppend DEF Shape
<1>3. visited' \in Seq(Here) /\ Here' = Here
  BY <1>1 DEF Shape, Here, Present
<1>4. \A i, j \in DOMAIN visited' : visited'[i] = visited'[j] => i = j
  <2>1. /\ DOMAIN visited' = 1..(Len(visited) + 1) /\ DOMAIN visited = 1..Len(visited)
        /\ Len(visited) \in Nat /\ visited'[Len(visited) + 1] = f
        /\ \A i \in 1..Len(visited) : visited'[i] = visited[i]
    BY <1>1 DEF Shape
  <2>2. \A i \in 1..Len(visited) : visited[i] # f
    BY <2>1 DEF Known, ToSet
  <2>3. QED
    BY <2>1, <2>2 DEF Shape
<1>5. entry[f].refs \in Seq(EntryFiles \cup {Gone}) /\ entry[f].heading \in BOOLEAN /\ f \in EntryFiles
  BY EntryText DEF Shape, Here
<1>6. Frames \subseteq Frames' /\ [file |-> f, refs |-> entry[f].refs] \in Frames'
  BY <1>2, <1>5 DEF Frames
<1>7. below \in Seq(Frames')
  BY <1>6
<1>8. /\ chain' \in Seq(Frames') /\ DOMAIN chain' = 1..(Len(below) + 1) /\ DOMAIN below = 1..Len(below)
      /\ Len(below) \in Nat /\ \A i \in 1..Len(below) : chain'[i] = below[i]
      /\ chain'[Len(below) + 1] = [file |-> f, refs |-> entry[f].refs]
  <2> DEFINE top == [file |-> f, refs |-> entry[f].refs]
  <2>1. top \in Frames' /\ chain' = Append(below, top)
    BY <1>1, <1>6
  <2> HIDE DEF top
  <2>2. QED
    BY <1>7, <2>1 DEF top
<1>9. \A i \in DOMAIN chain' : ToSet(chain'[i].refs) \subseteq Refs(chain'[i].file)
  <2>2. \A i \in DOMAIN chain' : i \in DOMAIN below \/ i = Len(below) + 1
    BY <1>8
  <2>3. QED
    BY <1>8, <2>2 DEF Refs
<1>10. chief' = Missing <=> \A g \in ToSet(visited') : ~entry'[g].heading
  BY <1>1, <1>2, <1>5, WeightAssumption DEF Shape
<1>11. Shape'
  <2>1. \A i \in DOMAIN chain' : ToSet(chain'[i].refs) \subseteq ToSet(entry'[chain'[i].file].refs)
    BY <1>9 DEF Refs
  <2>2. QED
    BY <1>3, <1>4, <1>8, <1>10, <2>1 DEF Shape, Refs
<1>12. QED
  BY <1>1, <1>2, <1>8, <1>11

\* A visit of an entry within reach keeps what is known of the walk.
LEMMA VisitWithinReach ==
    ASSUME WeightIInv, NEW f \in Here, ~Known(f), NEW below \in Seq(Frames),
           \A i \in DOMAIN below : ToSet(below[i].refs) \subseteq Refs(below[i].file),
           Visit(f, below), UNCHANGED <<entry, docs, startup_reads, onDemand, findings>>,
           \/ UNCHANGED step
           \/ step = "parent" /\ step' = "root" /\ f = parentEntry
           \/ step = "root" /\ step' = "fallback" /\ f = rootEntry,
           step' \in {"parent", "root", "fallback", "list"},
           step' \in {"parent", "root", "fallback"} \/ (~blocking /\ \E g \in Top : entry[g].heading) => f \in Top,
           ~blocking => \A g \in ToSet(visited) : \A r \in Refs(g) :
               \/ r \in ToSet(visited) \cup {f}
               \/ \E i \in DOMAIN below : below[i].file = g /\ r \in ToSet(below[i].refs)
    PROVE  WeightIInv'
<1>1. /\ Shape' /\ ToSet(visited') = ToSet(visited) \cup {f} /\ counted' = counted \cup {f}
      /\ DOMAIN below \subseteq DOMAIN chain'
      /\ \A i \in DOMAIN below : chain'[i] = below[i]
      /\ \E i \in DOMAIN chain' : chain'[i] = [file |-> f, refs |-> entry[f].refs]
  BY VisitKeeps DEF WeightIInv
<1>2. Top' = Top /\ Here' = Here /\ blocking' = blocking
  BY DEF Top, Here, Reachable, Present, blocking
<1>3. (~blocking => Walked)'
  <2> SUFFICES ASSUME ~blocking, NEW g \in ToSet(visited'), NEW r \in Refs(g)
               PROVE  \/ r \in ToSet(visited')
                      \/ \E i \in DOMAIN chain' : chain'[i].file = g /\ r \in ToSet(chain'[i].refs)
    BY <1>2 DEF Walked, Refs
  <2>1. CASE g = f
    BY <1>1, <2>1 DEF Refs
  <2>2. CASE g # f
    BY <1>1, <2>2
  <2>3. QED
    BY <2>1, <2>2
<1>4. f \in ToSet(visited') /\ f \notin ToSet(visited)
  BY <1>1 DEF Known
<1>5. Bounded'
  <2>1. step' # "parent" /\ Present(parentEntry) => parentEntry \in ToSet(visited')
    BY <1>1, <1>4 DEF WeightIInv, Bounded
  <2>2. step' \notin {"parent", "root"} /\ Present(rootEntry) => rootEntry \in ToSet(visited')
    BY <1>1, <1>4 DEF WeightIInv, Bounded
  <2>3. step' \in {"parent", "root", "fallback"} => ToSet(visited') \subseteq Top
    BY <1>1 DEF WeightIInv, Bounded
  <2>4. step' \in {"list", "reads", "done"} /\ ~blocking =>
           IF \E g \in Top : entry[g].heading THEN ToSet(visited') = Top ELSE Here \subseteq ToSet(visited')
    BY <1>1, <1>4 DEF WeightIInv, Bounded
  <2>5. Present(parentEntry)' = Present(parentEntry) /\ Present(rootEntry)' = Present(rootEntry)
    BY DEF Present
  <2>6. QED
    BY <1>2, <2>1, <2>2, <2>3, <2>4, <2>5 DEF Bounded
<1>6. step' \notin {"reads", "done"} /\ counted' = ToSet(visited') /\ onDemand' = {}
  BY <1>1 DEF WeightIInv
<1>7. QED
  BY <1>1, <1>3, <1>5, <1>6 DEF WeightIInv

\* Steps that visit nothing and leave the reads alone.
LEMMA WalkGoesOn ==
    ASSUME WeightIInv, UNCHANGED <<entry, docs, startup_reads, visited, counted, onDemand, chief, unread>>,
           findings \subseteq findings', NEW next \in Seq(Frames), chain' = next,
           \A i \in DOMAIN next : ToSet(next[i].refs) \subseteq Refs(next[i].file),
           ~blocking' => Walked', UNCHANGED step, step \in {"reads", "done"} => next = <<>>
    PROVE  WeightIInv'
<1>1. Top' = Top /\ Here' = Here /\ (~blocking' => ~blocking) /\ Frames' = Frames
  BY DEF Top, Here, Reachable, Present, blocking, Frames
<1>2. Shape'
  BY <1>1 DEF WeightIInv, Shape, Refs
<1>3. Bounded'
  <2>1. Present(parentEntry)' = Present(parentEntry) /\ Present(rootEntry)' = Present(rootEntry)
    BY DEF Present
  <2>2. QED
    BY <1>1, <2>1 DEF WeightIInv, Bounded
<1>4. step \in {"reads", "done"} /\ ~blocking' => ReadUp'
  <2>1. Listed' = Listed /\ \A i : Wanted(i)' = Wanted(i) /\ Present(i.ref)' = Present(i.ref)
    BY DEF Listed, Must, Wanted, Present
  <2>2. QED
    BY <1>1, <2>1 DEF WeightIInv, ReadUp
<1>5. QED
  BY <1>2, <1>3, <1>4 DEF WeightIInv

\* The chain with the next reference of its last entry taken.
LEMMA RestOfChain ==
    ASSUME Shape, chain # <<>>, Last(chain).refs # <<>>
    PROVE  LET n == Len(chain)
               r == Head(Last(chain).refs)
               rest == [chain EXCEPT ![n] = Past(@)] IN
           /\ rest \in Seq(Frames) /\ DOMAIN rest = DOMAIN chain /\ n \in DOMAIN chain
           /\ chain[n].file \in ToSet(visited) /\ r \in Refs(chain[n].file)
           /\ r \in EntryFiles \cup {Gone}
           /\ \A i \in DOMAIN chain : /\ rest[i].file = chain[i].file
                                      /\ ToSet(rest[i].refs) \subseteq ToSet(chain[i].refs)
                                      /\ ToSet(chain[i].refs) \subseteq ToSet(rest[i].refs) \cup {r}
<1> DEFINE n == Len(chain)
           top == chain[n]
           r == Head(top.refs)
           rest == [chain EXCEPT ![n] = Past(@)]
<1>1. chain \in Seq(Frames) /\ n \in DOMAIN chain /\ top \in Frames /\ Last(chain) = top
  BY DEF Shape, Last
<1>2. top.file \in ToSet(visited) /\ top.refs \in Seq(EntryFiles \cup {Gone}) /\ top.refs # <<>>
  BY <1>1 DEF Frames
<1>3. /\ ToSet(top.refs) = {r} \cup ToSet(Tail(top.refs)) /\ r \in EntryFiles \cup {Gone}
      /\ Tail(top.refs) \in Seq(EntryFiles \cup {Gone})
  BY <1>2, SetOfHeadAndTail
<1>4. Past(top) \in Frames /\ Past(top).file = top.file /\ Past(top).refs = Tail(top.refs)
  BY <1>2, <1>3 DEF Past, Frames
<1>5. r \in Refs(top.file)
  BY <1>1, <1>3 DEF Shape
<1>6. \A i \in DOMAIN chain : rest[i] = IF i = n THEN Past(top) ELSE chain[i]
  BY <1>1
<1>7. rest \in Seq(Frames) /\ DOMAIN rest = DOMAIN chain
  <2> HIDE DEF top, r
  <2>1. rest = [chain EXCEPT ![n] = Past(top)]
    BY DEF top
  <2>2. QED
    BY <1>1, <1>4, <2>1
<1> HIDE DEF rest
<1>8. \A i \in DOMAIN chain : /\ rest[i].file = chain[i].file
                              /\ ToSet(rest[i].refs) \subseteq ToSet(chain[i].refs)
                              /\ ToSet(chain[i].refs) \subseteq ToSet(rest[i].refs) \cup {r}
  BY <1>3, <1>4, <1>6
<1>9. QED
  BY <1>1, <1>2, <1>3, <1>5, <1>7, <1>8 DEF rest

LEMMA FollowStep ==
    ASSUME WeightIInv, Follow
    PROVE  WeightIInv'
<1> DEFINE n == Len(chain)
           r == Head(Last(chain).refs)
           rest == [chain EXCEPT ![n] = Past(@)]
<1>1. /\ chain # <<>> /\ Last(chain).refs # <<>>
      /\ UNCHANGED <<entry, docs, startup_reads, step, onDemand, unread>>
  BY DEF Follow
<1>2. /\ rest \in Seq(Frames) /\ DOMAIN rest = DOMAIN chain /\ n \in DOMAIN chain
      /\ chain[n].file \in ToSet(visited) /\ r \in Refs(chain[n].file)
      /\ r \in EntryFiles \cup {Gone}
      /\ \A i \in DOMAIN chain : /\ rest[i].file = chain[i].file
                                 /\ ToSet(rest[i].refs) \subseteq ToSet(chain[i].refs)
                                 /\ ToSet(chain[i].refs) \subseteq ToSet(rest[i].refs) \cup {r}
  BY <1>1, RestOfChain DEF WeightIInv
<1>3. \A i \in DOMAIN rest : ToSet(rest[i].refs) \subseteq Refs(rest[i].file)
  BY <1>2 DEF WeightIInv, Shape
<1>4. step \in {"parent", "root", "fallback", "list"}
  BY <1>1 DEF WeightIInv, Bounded, Shape
<1>5. \/ /\ r = Gone \/ ~Present(r)
         /\ findings' = findings \cup {"ENTRY_MISSING"} /\ chain' = rest
         /\ UNCHANGED <<visited, counted, chief>>
      \/ /\ r # Gone /\ Present(r) /\ Known(r)
         /\ findings' = IF r \in active THEN findings \cup {"ENTRY_CYCLE"} ELSE findings
         /\ chain' = rest
         /\ UNCHANGED <<visited, counted, chief>>
      \/ /\ r # Gone /\ Present(r) /\ ~Known(r)
         /\ Visit(r, rest) /\ UNCHANGED findings
  BY DEF Follow
<1>6. ASSUME ~blocking
      PROVE  \A g \in ToSet(visited) : \A q \in Refs(g) :
                \/ q \in ToSet(visited) \cup {r}
                \/ \E i \in DOMAIN rest : rest[i].file = g /\ q \in ToSet(rest[i].refs)
  <2> HIDE DEF rest, r
  <2>1. QED
    BY <1>2, <1>6 DEF WeightIInv, Walked
<1> HIDE DEF rest, r
<1>7. CASE r = Gone \/ ~Present(r)
  <2>1. findings' = findings \cup {"ENTRY_MISSING"} /\ chain' = rest /\ UNCHANGED <<visited, counted, chief>>
    BY <1>5, <1>7
  <2>2. blocking'
    BY <2>1 DEF blocking
  <2>3. QED
    BY <1>1, <1>2, <1>3, <1>4, <2>1, <2>2, WalkGoesOn
<1>8. CASE r # Gone /\ Present(r) /\ Known(r)
  <2>1. findings \subseteq findings' /\ chain' = rest /\ UNCHANGED <<visited, counted, chief>>
    BY <1>5, <1>8
  <2>2. ~blocking' => ~blocking
    BY <2>1 DEF blocking
  <2>3. ~blocking' => Walked'
    BY <1>1, <1>6, <1>8, <2>1, <2>2 DEF Walked, Known, Refs
  <2>4. QED
    BY <1>1, <1>2, <1>3, <1>4, <2>1, <2>3, WalkGoesOn
<1>9. CASE r # Gone /\ Present(r) /\ ~Known(r)
  <2>1. Visit(r, rest) /\ UNCHANGED findings
    BY <1>5, <1>9
  <2>2. r \in Here
    BY <1>2, <1>9 DEF Here
  <2>3. entry \in [EntryFiles -> Texts \cup {Missing}]
    BY DEF WeightIInv, Shape
  <2>4. ASSUME step \in {"parent", "root", "fallback"} \/ (~blocking /\ \E g \in Top : entry[g].heading)
        PROVE  r \in Top
    <3>1. chain[n].file \in Top
      BY <1>2, <1>4, <2>4 DEF WeightIInv, Bounded
    <3>2. QED
      BY <1>2, <1>9, <2>2, <2>3, <3>1, TopIsReached
  <2>5. QED
    BY <1>1, <1>2, <1>3, <1>4, <1>6, <1>9, <2>1, <2>2, <2>4, VisitWithinReach
<1>10. QED
  BY <1>7, <1>8, <1>9

LEMMA ReturnStep ==
    ASSUME WeightIInv, Return
    PROVE  WeightIInv'
<1> DEFINE n == Len(chain)
           next == Front(chain)
<1>1. /\ chain # <<>> /\ Last(chain).refs = <<>> /\ chain' = next
      /\ UNCHANGED <<entry, docs, startup_reads, step, visited, counted, onDemand, chief, findings, unread>>
  BY DEF Return
<1>2. chain \in Seq(Frames) /\ n \in Nat \ {0} /\ DOMAIN chain = 1..n /\ chain[n].refs = <<>>
  BY <1>1 DEF WeightIInv, Shape, Last
<1>3. next \in Seq(Frames) /\ DOMAIN next = 1..(n - 1) /\ \A i \in 1..(n - 1) : next[i] = chain[i]
  BY <1>2 DEF Front
<1> HIDE DEF next
<1>4. \A i \in DOMAIN next : ToSet(next[i].refs) \subseteq Refs(next[i].file)
  <2>1. \A i \in DOMAIN next : i \in DOMAIN chain
    BY <1>2, <1>3
  <2>2. QED
    BY <1>3, <2>1 DEF WeightIInv, Shape
<1>5. \A i \in DOMAIN chain : i \in DOMAIN next \/ ToSet(chain[i].refs) = {}
  BY <1>2, <1>3 DEF ToSet
<1>6. ~blocking' => Walked'
  BY <1>1, <1>2, <1>3, <1>5 DEF WeightIInv, Walked, blocking, Refs
<1>7. step \notin {"reads", "done"}
  BY <1>1 DEF WeightIInv, Bounded
<1>8. QED
  BY <1>1, <1>3, <1>4, <1>6, <1>7, WalkGoesOn

\* A step on to the next entry to open, without a visit.
LEMMA StepsOn ==
    ASSUME WeightIInv, chain = <<>>, UNCHANGED <<entry, docs, startup_reads, chain, visited, counted, onDemand, chief, findings>>,
           \/ step = "parent" /\ step' = "root" /\ (Present(parentEntry) => Known(parentEntry))
           \/ step = "root" /\ step' = "fallback" /\ (Present(rootEntry) => Known(rootEntry))
           \/ /\ step = "fallback" /\ step' = "list"
              /\ ~blocking => IF \E f \in Top : entry[f].heading THEN ToSet(visited) = Top
                              ELSE Here \subseteq ToSet(visited)
    PROVE  WeightIInv'
<1>1. Top' = Top /\ Here' = Here /\ blocking' = blocking /\ Frames' = Frames
  BY DEF Top, Here, Reachable, Present, blocking, Frames
<1>2. Shape' /\ (~blocking => Walked)'
  BY <1>1 DEF WeightIInv, Shape, Refs, Walked
<1>3. Bounded'
  <2>1. Present(parentEntry)' = Present(parentEntry) /\ Present(rootEntry)' = Present(rootEntry)
    BY DEF Present
  <2>2. QED
    BY <1>1, <2>1 DEF WeightIInv, Bounded, Known
<1>4. QED
  BY <1>2, <1>3 DEF WeightIInv

LEMMA EnterFirstStep ==
    ASSUME WeightIInv, EnterParent \/ EnterRoot
    PROVE  WeightIInv'
<1>1. ASSUME NEW f \in HostOpens, NEW from \in {"parent", "root"}, NEW to \in {"root", "fallback"},
             Enter(from, f, to, TRUE), <<from, f, to>> \in {<<"parent", parentEntry, "root">>, <<"root", rootEntry, "fallback">>}
      PROVE  WeightIInv'
  <2>1. /\ step = from /\ chain = <<>> /\ step' = to
        /\ UNCHANGED <<entry, docs, startup_reads, onDemand, findings, unread>>
    BY <1>1 DEF Enter
  <2>2. CASE Present(f) /\ ~Known(f)
    <3>1. Visit(f, chain)
      BY <1>1, <2>2 DEF Enter
    <3>2. entry \in [EntryFiles -> Texts \cup {Missing}] /\ chain \in Seq(Frames)
      BY DEF WeightIInv, Shape
    <3>3. f \in Here /\ f \in Top
      BY <2>2, <3>2, TopIsReached DEF Here, HostOpens, EntryFiles
    <3>4. \A i \in DOMAIN chain : ToSet(chain[i].refs) \subseteq Refs(chain[i].file)
      BY DEF WeightIInv, Shape
    <3>5. ~blocking => \A g \in ToSet(visited) : \A r \in Refs(g) :
               \/ r \in ToSet(visited) \cup {f}
               \/ \E i \in DOMAIN chain : chain[i].file = g /\ r \in ToSet(chain[i].refs)
      BY DEF WeightIInv, Walked
    <3>6. QED
      BY <1>1, <2>1, <2>2, <3>1, <3>2, <3>3, <3>4, <3>5, VisitWithinReach
  <2>3. CASE ~(Present(f) /\ ~Known(f))
    <3>1. UNCHANGED <<chain, visited, counted, chief>>
      BY <1>1, <2>3 DEF Enter
    <3>2. QED
      BY <1>1, <2>1, <2>3, <3>1, StepsOn
  <2>4. QED
    BY <2>2, <2>3
<1>2. QED
  BY <1>1 DEF EnterParent, EnterRoot, HostOpens

\* When the walk from the first two entries has come to its end, it has been everywhere.
LEMMA WalkIsWhole ==
    ASSUME WeightIInv, chain = <<>>, ~blocking
    PROVE  /\ \A f \in ToSet(visited) : Refs(f) \subseteq ToSet(visited)
           /\ step = "fallback" => ToSet(visited) = Top
<1>1. \A f \in ToSet(visited) : Refs(f) \subseteq ToSet(visited)
  BY DEF WeightIInv, Walked
<1>2. ASSUME step = "fallback" PROVE ToSet(visited) = Top
  <2>1. entry \in [EntryFiles -> Texts \cup {Missing}]
    BY DEF WeightIInv, Shape
  <2>2. HostOpens \cap Here \subseteq ToSet(visited)
    BY <1>2 DEF WeightIInv, Bounded, HostOpens, Here
  <2>3. Top \subseteq ToSet(visited)
    BY <1>1, <2>1, <2>2, TopIsReached
  <2>4. QED
    BY <1>2, <2>3 DEF WeightIInv, Bounded
<1>3. QED
  BY <1>1, <1>2

LEMMA EnterDeanStep ==
    ASSUME WeightIInv, EnterDean
    PROVE  WeightIInv'
<1>1. /\ step = "fallback" /\ chain = <<>> /\ step' = "list"
      /\ UNCHANGED <<entry, docs, startup_reads, onDemand, findings, unread>>
  BY DEF EnterDean, Enter
<1>2. ~blocking => ToSet(visited) = Top
  BY <1>1, WalkIsWhole
<1>3. HostOpens \cap Here \subseteq ToSet(visited)
  BY <1>1 DEF WeightIInv, Bounded, HostOpens, Here
<1>4. CASE FallsBack /\ Present(deanEntry) /\ ~Known(deanEntry)
  <2>1. Visit(deanEntry, chain)
    BY <1>4 DEF EnterDean, Enter
  <2>2. deanEntry \in Here /\ chain \in Seq(Frames)
    BY <1>4 DEF Here, EntryFiles, WeightIInv, Shape
  <2>3. \A i \in DOMAIN chain : ToSet(chain[i].refs) \subseteq Refs(chain[i].file)
    BY DEF WeightIInv, Shape
  <2>4. /\ Shape' /\ ToSet(visited') = ToSet(visited) \cup {deanEntry} /\ counted' = counted \cup {deanEntry}
        /\ \E i \in DOMAIN chain' : chain'[i] = [file |-> deanEntry, refs |-> entry[deanEntry].refs]
    BY <1>1, <1>4, <2>1, <2>2, <2>3, VisitKeeps DEF WeightIInv
  <2>5. Top' = Top /\ Here' = Here /\ blocking' = blocking /\ ~blocking
    BY <1>1, <1>4 DEF Top, Here, Reachable, Present, blocking, FallsBack
  <2>6. Walked'
    <3> SUFFICES ASSUME NEW g \in ToSet(visited'), NEW r \in Refs(g)
                 PROVE  \/ r \in ToSet(visited')
                        \/ \E i \in DOMAIN chain' : chain'[i].file = g /\ r \in ToSet(chain'[i].refs)
      BY <1>1 DEF Walked, Refs
    <3>1. CASE g = deanEntry
      BY <2>4, <3>1 DEF Refs
    <3>2. CASE g # deanEntry
      BY <1>1, <2>4, <2>5, <3>2, WalkIsWhole
    <3>3. QED
      BY <3>1, <3>2
  <2>7. ~\E f \in Top : entry[f].heading
    BY <1>2, <1>4, <2>5 DEF FallsBack, WeightIInv, Shape
  <2>8. Here \subseteq ToSet(visited')
    BY <1>3, <2>4 DEF Here, EntryFiles, HostOpens
  <2>9. Bounded'
    BY <1>1, <1>3, <2>4, <2>5, <2>7, <2>8 DEF Bounded, HostOpens, Here, Present, EntryFiles
  <2>10. QED
    BY <1>1, <2>4, <2>6, <2>9 DEF WeightIInv
<1>5. CASE ~(FallsBack /\ Present(deanEntry) /\ ~Known(deanEntry))
  <2>1. UNCHANGED <<chain, visited, counted, chief>>
    BY <1>5 DEF EnterDean, Enter
  <2>2. ASSUME ~blocking, ~\E f \in Top : entry[f].heading PROVE Here \subseteq ToSet(visited)
    <3>1. chief = Missing
      BY <1>2, <2>2 DEF WeightIInv, Shape
    <3>2. Present(deanEntry) => Known(deanEntry)
      BY <1>5, <2>2, <3>1 DEF FallsBack
    <3>3. QED
      BY <1>3, <3>2 DEF Here, EntryFiles, HostOpens, Known
  <2>3. QED
    BY <1>1, <1>2, <2>1, <2>2, StepsOn
<1>6. QED
  BY <1>4, <1>5

-----------------------------------------------------------------------------
\* What is listed to be read is read in order, and nothing else.
LEMMA ListIsWhole ==
    ASSUME WeightIInv,
           NEW list, list = IF startup_reads # Missing
                            THEN [i \in DOMAIN startup_reads |-> Must(startup_reads[i])]
                            ELSE FlattenSeq([i \in DOMAIN visited |-> entry[visited[i]].items])
    PROVE  list \in Seq(Listed) /\ ToSet(list) = Listed
<1>1. CASE startup_reads # Missing
  <2>1. startup_reads \in Seq(Docs \cup EntryFiles)
    BY <1>1, WeightAssumption DEF WeightIInv, Shape
  <2>2. list = [i \in 1..Len(startup_reads) |-> Must(startup_reads[i])] /\ Len(startup_reads) \in Nat
        /\ DOMAIN startup_reads = 1..Len(startup_reads)
    BY <1>1, <2>1
  <2>3. \A i \in DOMAIN startup_reads : Must(startup_reads[i]) \in Listed
    BY <1>1 DEF Listed, ToSet
  <2>4. list \in Seq(Listed)
    BY <2>2, <2>3
  <2>5. ToSet(list) = Listed
    BY <1>1, <2>2, <2>3 DEF Listed, ToSet
  <2>6. QED
    BY <2>4, <2>5
<1>2. CASE startup_reads = Missing
  <2> DEFINE seqs == [i \in DOMAIN visited |-> entry[visited[i]].items]
  <2>1. visited \in Seq(Here) /\ entry \in [EntryFiles -> Texts \cup {Missing}]
    BY DEF WeightIInv, Shape
  <2>2. \A i \in DOMAIN visited : entry[visited[i]].items \in Seq(StartupReads)
    BY <2>1, EntryText
  <2>3. seqs \in Seq(Seq(StartupReads)) /\ DOMAIN seqs = DOMAIN visited
    BY <2>1, <2>2
  <2>4. FlattenSeq(seqs) \in Seq(StartupReads)
        /\ ToSet(FlattenSeq(seqs)) = UNION {ToSet(seqs[i]) : i \in DOMAIN seqs}
    BY <2>3, Flattened
  <2>5. Listed = UNION {ToSet(entry[f].items) : f \in ToSet(visited)}
    BY <1>2 DEF Listed
  <2>6. UNION {ToSet(seqs[i]) : i \in DOMAIN seqs} = Listed
    BY <2>3, <2>5 DEF ToSet
  <2>7. list = FlattenSeq(seqs)
    BY <1>2
  <2> HIDE DEF seqs
  <2>8. list \in Seq(StartupReads) /\ ToSet(list) = Listed
    BY <2>4, <2>6, <2>7
  <2>9. \A i \in DOMAIN list : list[i] \in Listed
    BY <2>8 DEF ToSet
  <2>10. list \in Seq(Listed)
    BY <2>8, <2>9
  <2>11. QED
    BY <2>8, <2>10
<1>3. QED
  BY <1>1, <1>2

\* Steps that read: the walk is over and stays as it is.
LEMMA ReadsGoOn ==
    ASSUME WeightIInv, UNCHANGED <<entry, docs, startup_reads, chain, visited, chief>>, chain = <<>>,
           findings \subseteq findings', step \in {"list", "reads"}, step' \in {"reads", "done"}, ~blocking' => ReadUp'
    PROVE  WeightIInv'
<1>1. Top' = Top /\ Here' = Here /\ (~blocking' => ~blocking) /\ Frames' = Frames
  BY DEF Top, Here, Reachable, Present, blocking, Frames
<1>2. Shape' /\ (~blocking => Walked)'
  BY <1>1 DEF WeightIInv, Shape, Refs, Walked
<1>3. Bounded'
  <2>1. Present(parentEntry)' = Present(parentEntry) /\ Present(rootEntry)' = Present(rootEntry)
    BY DEF Present
  <2>2. QED
    BY <1>1, <2>1 DEF WeightIInv, Bounded
<1>4. QED
  BY <1>2, <1>3 DEF WeightIInv

LEMMA ListReadsStep ==
    ASSUME WeightIInv, ListReads
    PROVE  WeightIInv'
<1>1. /\ step = "list" /\ chain = <<>> /\ step' = "reads"
      /\ UNCHANGED <<entry, docs, startup_reads, chain, visited, counted, onDemand, chief>>
      /\ findings \subseteq findings'
  BY DEF ListReads
<1>2. unread' \in Seq(Listed) /\ ToSet(unread') = Listed
  BY ListIsWhole DEF ListReads
<1>3. counted = ToSet(visited) /\ onDemand = {}
  BY <1>1 DEF WeightIInv
<1>4. Listed' = Listed /\ \A f : Present(f)' = Present(f)
  BY <1>1 DEF Listed, Must, Present
<1>5. ReadUp'
  BY <1>1, <1>2, <1>3, <1>4 DEF ReadUp
<1>6. QED
  BY <1>1, <1>5, ReadsGoOn

LEMMA readRefStep ==
    ASSUME WeightIInv, readRef
    PROVE  WeightIInv'
<1> DEFINE item == Head(unread)
<1>1. /\ step = "reads" /\ unread # <<>> /\ unread' = Tail(unread)
      /\ UNCHANGED <<entry, docs, startup_reads, step, chain, visited, chief>>
      /\ findings \subseteq findings'
  BY DEF readRef
<1>2. chain = <<>>
  BY <1>1 DEF WeightIInv, Bounded
<1>3. ASSUME ~blocking' PROVE ReadUp'
  <2>1. ReadUp
    BY <1>1, <1>3 DEF WeightIInv, blocking
  <2>2. /\ ToSet(unread) = {item} \cup ToSet(unread') /\ item \in Listed /\ unread' \in Seq(Listed)
    BY <1>1, <2>1, SetOfHeadAndTail DEF ReadUp
  <2>3. Listed' = Listed /\ \A i : Wanted(i)' = Wanted(i) /\ Present(i.ref)' = Present(i.ref)
    BY <1>1 DEF Listed, Must, Wanted, Present
  <2>4. /\ counted \subseteq counted' /\ counted' \cap onDemand' = {}
        /\ Wanted(item) => item.ref \in counted'
        /\ counted' \subseteq counted \cup (IF item.kind # "optional" /\ Present(item.ref) THEN {item.ref} ELSE {})
    <3>1. CASE Present(item.ref) /\ Added(item.ref, item.kind = "optional")
      BY <2>1, <2>2, <3>1 DEF Added, ReadUp, Wanted
    <3>2. CASE ~Present(item.ref) /\ UNCHANGED <<counted, onDemand>>
               /\ findings' = IF item.kind = "must" THEN findings \cup {"STARTUP_READ_MISSING"} ELSE findings
      <4>1. item.kind # "must"
        BY <1>3, <3>2 DEF blocking
      <4>2. ~Wanted(item)
        BY <3>2, <4>1 DEF Wanted
      <4>3. QED
        BY <2>1, <3>2, <4>2 DEF ReadUp
    <3>3. QED
      BY <3>1, <3>2 DEF readRef
  <2> HIDE DEF item
  <2>5. QED
    BY <1>1, <2>1, <2>2, <2>3, <2>4 DEF ReadUp
<1>4. QED
  BY <1>1, <1>2, <1>3, ReadsGoOn

LEMMA WeighStep ==
    ASSUME WeightIInv, Weigh
    PROVE  WeightIInv'
<1>1. /\ step = "reads" /\ unread = <<>> /\ step' = "done"
      /\ UNCHANGED <<entry, docs, startup_reads, chain, visited, counted, onDemand, chief, findings, unread>>
  BY DEF Weigh
<1>2. chain = <<>>
  BY <1>1 DEF WeightIInv, Bounded
<1>3. Listed' = Listed /\ \A i : Wanted(i)' = Wanted(i) /\ Present(i.ref)' = Present(i.ref)
  BY <1>1 DEF Listed, Must, Wanted, Present
<1>4. ~blocking' => ReadUp'
  BY <1>1, <1>3 DEF WeightIInv, ReadUp, blocking
<1>5. QED
  BY <1>1, <1>2, <1>4, ReadsGoOn

LEMMA InitWeightIInv == WeightInit => WeightIInv
<1> SUFFICES ASSUME WeightInit PROVE WeightIInv
  OBVIOUS
<1>1. /\ entry \in [EntryFiles -> Texts \cup {Missing}] /\ startup_reads \in Declared
      /\ step = "parent" /\ chain = <<>> /\ visited = <<>> /\ counted = {} /\ onDemand = {} /\ chief = Missing
  BY DEF WeightInit
<1>2. ToSet(visited) = {}
  BY <1>1 DEF ToSet
<1>3. Shape
  BY <1>1, <1>2 DEF Shape
<1>4. QED
  BY <1>1, <1>2, <1>3 DEF WeightIInv, Bounded, Walked

LEMMA StepWeightIInv == WeightIInv /\ [WeightNext]_weightvars => WeightIInv'
<1> SUFFICES ASSUME WeightIInv, [WeightNext]_weightvars PROVE WeightIInv'
  OBVIOUS
<1>1. CASE UNCHANGED weightvars
  <2>1. /\ UNCHANGED <<entry, docs, startup_reads, visited, counted, onDemand, chief, unread>>
        /\ findings' = findings /\ chain' = chain /\ step' = step
    BY <1>1 DEF weightvars
  <2>2. ~blocking' => Walked'
    BY <2>1 DEF WeightIInv, Walked, Refs, blocking
  <2>3. /\ chain \in Seq(Frames) /\ (step \in {"reads", "done"} => chain = <<>>)
        /\ \A i \in DOMAIN chain : ToSet(chain[i].refs) \subseteq Refs(chain[i].file)
    BY DEF WeightIInv, Shape, Bounded
  <2>4. QED
    BY <2>1, <2>2, <2>3, WalkGoesOn
<1>2. QED
  BY <1>1, FollowStep, ReturnStep, EnterFirstStep, EnterDeanStep, ListReadsStep, readRefStep, WeighStep
     DEF WeightNext

\* A measurement that is not UNKNOWN counts the entries a session reaches, once each, with
\* the reads that are mandatory, or "if present" and there, and nothing else
\* (context-weight.mjs:225-323).
THEOREM CompleteMeansRead == WeightSpec => []CompleteIsWhatIsRead
<1>1. WeightIInv => CompleteIsWhatIsRead
  <2> SUFFICES ASSUME WeightIInv, step = "done", ~blocking
               PROVE  LET read == ToSet(visited)
                          items == UNION {ToSet(entry[f].items) : f \in read}
                          wanted == IF startup_reads # Missing THEN ToSet(startup_reads)
                                    ELSE {i.ref : i \in {j \in items : \/ j.kind = "must"
                                                                       \/ j.kind = "if present" /\ Present(j.ref)}} IN
                      /\ read = IF \E f \in Top : entry[f].heading THEN Top ELSE Reachable(EntryFiles)
                      /\ Cardinality(read) = Len(visited)
                      /\ counted = read \cup wanted
                      /\ counted \cap onDemand = {}
                      /\ \A f \in read : ToSet(entry[f].refs) \subseteq read
    BY DEF CompleteIsWhatIsRead, Top, HostOpens
  <2> DEFINE read == ToSet(visited)
             items == UNION {ToSet(entry[f].items) : f \in read}
             wanted == IF startup_reads # Missing THEN ToSet(startup_reads)
                       ELSE {i.ref : i \in {j \in items : \/ j.kind = "must"
                                                          \/ j.kind = "if present" /\ Present(j.ref)}}
  <2>1. visited \in Seq(Here) /\ entry \in [EntryFiles -> Texts \cup {Missing}]
    BY DEF WeightIInv, Shape
  <2>2. read \subseteq Here
    BY <2>1 DEF ToSet
  <2>3. ReadUp /\ unread = <<>>
    BY DEF WeightIInv, ReadUp
  <2>4. read = IF \E f \in Top : entry[f].heading THEN Top ELSE Reachable(EntryFiles)
    BY <2>1, <2>2, AllIsReached DEF WeightIInv, Bounded
  <2>5. Cardinality(read) = Len(visited)
    <3>1. /\ DOMAIN visited = 1..Len(visited) /\ Len(visited) \in Nat
          /\ read = {visited[i] : i \in DOMAIN visited}
          /\ visited = [i \in DOMAIN visited |-> visited[i]]
      BY <2>1 DEF ToSet
    <3>2. \A i, j \in DOMAIN visited : visited[i] = visited[j] => i = j
      BY DEF WeightIInv, Shape
    <3> HIDE DEF read
    <3>3. visited \in [1..Len(visited) -> read]
      BY <3>1
    <3>4. visited \in Bijection(1..Len(visited), read)
      BY <3>1, <3>2, <3>3 DEF Bijection, Injection, Surjection, IsInjective
    <3>5. QED
      BY <3>1, <3>4, FS_CountingElements DEF ExistsBijection
  <2>6. ToSet(unread) = {}
    BY <2>3 DEF ToSet
  <2>7. \A i \in Listed : Wanted(i) => i.ref \in counted
    BY <2>3, <2>6 DEF ReadUp
  <2>8. ASSUME NEW x \in wanted PROVE x \in counted
    <3>1. CASE startup_reads # Missing
      <4>1. Must(x) \in Listed
        BY <3>1 DEF Listed
      <4>2. PICK i \in Listed : i.kind = "must" /\ i.ref = x
        BY <4>1 DEF Must
      <4>3. Wanted(i)
        BY <4>2 DEF Wanted
      <4>4. QED
        BY <2>7, <4>2, <4>3
    <3>2. CASE startup_reads = Missing
      <4>1. Listed = items
        BY <3>2 DEF Listed
      <4>2. PICK i \in items : Wanted(i) /\ i.ref = x
        BY <3>2 DEF Wanted
      <4>3. QED
        BY <2>7, <4>1, <4>2
    <3>3. QED
      BY <3>1, <3>2
  <2>9. ASSUME NEW i \in Listed, i.kind # "optional", Present(i.ref) PROVE i.ref \in wanted
    <3>1. CASE startup_reads # Missing
      <4>1. PICK r \in ToSet(startup_reads) : i = Must(r)
        BY <3>1 DEF Listed
      <4>2. i.ref = r
        BY <4>1 DEF Must
      <4>3. QED
        BY <3>1, <4>1, <4>2
    <3>2. CASE startup_reads = Missing
      <4>1. PICK f \in read : i \in ToSet(entry[f].items)
        BY <2>9, <3>2 DEF Listed
      <4>2. entry[f].items \in Seq(StartupReads)
        BY <2>1, <2>2, <4>1, EntryText
      <4>3. i \in StartupReads
        BY <4>1, <4>2 DEF ToSet
      <4>4. i.kind = "must" \/ (i.kind = "if present" /\ Present(i.ref))
        BY <2>9, <4>3 DEF StartupReads
      <4>5. QED
        BY <3>2, <4>1, <4>4
    <3>3. QED
      BY <3>1, <3>2
  <2>10. ASSUME NEW x \in counted PROVE x \in read \cup wanted
    <3>1. x \in read \/ \E i \in Listed : i.kind # "optional" /\ Present(i.ref) /\ x = i.ref
      BY <2>3 DEF ReadUp
    <3> HIDE DEF read, wanted
    <3>2. QED
      BY <2>9, <3>1
  <2>11. \A f \in read : ToSet(entry[f].refs) \subseteq read
    BY WalkIsWhole DEF WeightIInv, Bounded, Refs
  <2>12. counted \cap onDemand = {}
    BY <2>3 DEF ReadUp
  <2>13. counted = read \cup wanted
    <3>1. read \subseteq counted
      BY <2>3 DEF ReadUp
    <3> HIDE DEF read, wanted
    <3>2. QED
      BY <2>8, <2>10, <3>1
  <2>14. QED
    BY <2>4, <2>5, <2>11, <2>12, <2>13
<1>2. QED
  BY <1>1, InitWeightIInv, StepWeightIInv, PTL DEF WeightSpec
=============================================================================
