--------------------------- MODULE DoctorEvidence ---------------------------
(***************************************************************************)
(* doctor_evidence.py: thirteen sections of evidence, collected one after  *)
(* another from a campus that other sessions go on changing.  What a       *)
(* section reads is abstracted to the facts its verdict depends on; a      *)
(* sub-tool may also fail for reasons of its own, a timeout for one.       *)
(***************************************************************************)
EXTENDS Integers, Sequences, FiniteSets, SequencesExt, CampusTerms

CONSTANTS Results,   \* the results.json a campus may hold
          MaxUpsets  \* how many facts are not as on a healthy campus

ORDER_OF_SECTIONS ==
    <<"workspace", "version_lockstep", "kernel_kit", "registry", "context_weight",
      "results_ledgers", "schedules", "seat_contract", "fleet_sweep", "staff",
      "context_files", "stale_work", "ledger">>
Sections == ToSet(ORDER_OF_SECTIONS)

Versions == {"1.0", "1.1", "1.1-completion-only", "2.0"}

(* id: it has a run id; body: assets or a completion; valid: it has no     *)
(* error against the schema.                                               *)
Documents ==
    [shape : {"torn", "list", "object"}, version : Versions \cup {Missing},
     id : BOOLEAN, body : BOOLEAN, valid : BOOLEAN]

ASSUME DoctorAssumption == MaxUpsets \in Nat /\ Results \subseteq Documents /\ Missing \notin Versions

Verdicts == {"ok", "opportunity", "needs-decision", "skipped", "error"}

(* What seat_contract_checks.py finds: trouble is what is wrong beside the *)
(* seat itself (a foreign stamp, a line that does not parse, a line with   *)
(* no or the wrong stamp, a conflicted or evicted file, a git repository   *)
(* in a synced folder); binding is the host binding's state.               *)
SeatFacts ==
    [seat : {"missing", "invalid", "satellite", "primary"},
     trouble : {{}, {"unresolved"}, {"errors"}, {"stamps"}, {"files"}, {"git"}},
     binding : {"absent", "fresh", "expired", "invalid"}]

(* The kit's troubles are an unreadable stamp, files missing or changed,   *)
(* files nobody lists, an older or a newer version; anchored: the plugin's *)
(* manifest is at hand.  Ledger lines that are no JSON object, or have no  *)
(* seat, or (all of them) no time.                                         *)
FactsOf(s) ==
    CASE s = "workspace" -> {"good", "absent", "garbled", "no version", "no entry file"}
      [] s = "version_lockstep" -> {"agree", "disagree", "garbled", "no manifest"}
      [] s = "kernel_kit" ->
            [present : BOOLEAN, anchored : BOOLEAN,
             troubles : {{}, {"stamp"}, {"damaged"}, {"unexpected"}, {"stale"}, {"newer", "damaged"}}]
      [] s = "registry" -> [failing : BOOLEAN, spec : {"current", "stale", "hand-edited", "missing"}]
      [] s = "context_weight" -> {"green", "amber", "red", "unknown", "no node"}
      [] s = "results_ledgers" -> {docs \in SUBSET Results : Cardinality(docs) <= 2}
      [] s = "schedules" -> {"clean", "notes", "findings", "invalid", "unavailable", "not given", "unreadable"}
      [] s = "seat_contract" -> SeatFacts
      [] s = "fleet_sweep" -> [due : BOOLEAN, foundry : BOOLEAN, teams : SUBSET {"pass", "broken", "odd"}]
      [] s = "staff" -> {"good", "orphan", "duplicate", "garbled"}
      [] s = "context_files" -> {"good", "absent", "doubled"}
      [] s = "stale_work" -> {"good", "absent", "old"}
      [] s = "ledger" -> SUBSET {"dated", "unstamped", "bad"}

Healthy == [s \in Sections |->
    CASE s \in {"workspace", "staff", "context_files", "stale_work"} -> "good"
      [] s = "results_ledgers" -> {}
      [] s = "version_lockstep" -> "agree"
      [] s = "kernel_kit" -> [present |-> TRUE, anchored |-> TRUE, troubles |-> {}]
      [] s = "registry" -> [failing |-> FALSE, spec |-> "current"]
      [] s = "context_weight" -> "green"
      [] s = "schedules" -> "clean"
      [] s = "seat_contract" -> [seat |-> "primary", trouble |-> {}, binding |-> "absent"]
      [] s = "fleet_sweep" -> [due |-> FALSE, foundry |-> FALSE, teams |-> {}]
      [] s = "ledger" -> {"dated"}]

UsesTools == {"registry", "context_weight", "results_ledgers", "schedules", "seat_contract", "fleet_sweep"}

VARIABLES campus,   \* section -> the facts it would read now
          section,  \* section -> status reported, or Missing
          seen,     \* history: section -> [facts, tool] as read, or Missing
          doctor,   \* "idle", "running", or "done"
          code,     \* exit code
          upsets
doctorvars == <<campus, section, seen, doctor, code, upsets>>

DoctorInit ==
    /\ campus = Healthy /\ section = [s \in Sections |-> Missing]
    /\ seen = [s \in Sections |-> Missing] /\ doctor = "idle" /\ code = Missing /\ upsets = 0

-----------------------------------------------------------------------------
(* One operator per collector, from its facts to its status; "raised" when *)
(* it raises.                                                              *)

workspace(v) == CASE v = "good" -> "ok" [] v = "garbled" -> "raised" [] OTHER -> "needs-decision"

version_lockstep(v) ==
    CASE v = "agree" -> "ok" [] v = "disagree" -> "needs-decision"
      [] v = "no manifest" -> "error" [] v = "garbled" -> "raised"

kernel_kit(v) ==
    CASE ~v.present -> "opportunity"
      [] v.present /\ v.troubles # {} -> "needs-decision"
      [] v.present /\ v.troubles = {} -> IF v.anchored THEN "ok" ELSE "opportunity"

registry(v, tool) ==
    IF v.failing \/ ~tool THEN "error" ELSE IF v.spec = "current" THEN "ok" ELSE "needs-decision"

context_weight(v, tool) ==
    CASE v = "no node" -> "skipped"
      [] v = "unknown" \/ (v # "no node" /\ ~tool) -> "raised"
      [] tool /\ v = "green" -> "ok" [] tool /\ v = "amber" -> "opportunity"
      [] tool /\ v = "red" -> "needs-decision"

(* validate_results.py.  Only a document that says 1.1 is held to the      *)
(* schema; any other is read as what it looks like.                        *)
normalize(d) ==
    [d EXCEPT !.version = IF @ \in {Missing, "1.1-completion-only"} THEN "1.0" ELSE @]

classify(d) ==
    IF d.shape # "object" THEN "malformed"
    ELSE IF normalize(d).version = "1.1" THEN IF d.valid THEN "v1.1-valid" ELSE "v1.1-invalid"
    ELSE IF ~d.id THEN "foreign" ELSE IF d.body THEN "legacy-1.0" ELSE "ledger"

Failing(docs) == {d \in docs : classify(d) \in {"v1.1-invalid", "malformed"}}

results_ledgers(v, tool) ==
    IF ~tool THEN "raised" ELSE IF v = {} THEN "skipped"
    ELSE IF Failing(v) = {} THEN "ok" ELSE "error"

(* An input that could not be read replaces the section after the run.     *)
schedules(v, tool) ==
    CASE v = "not given" -> "skipped"
      [] v = "unreadable" -> "error"
      [] v \notin {"not given", "unreadable"} /\ (v = "invalid" \/ ~tool) -> "raised"
      [] tool /\ v = "unavailable" -> "skipped"
      [] tool /\ v = "findings" -> "needs-decision"
      [] tool /\ v = "notes" -> "opportunity"
      [] tool /\ v = "clean" -> "ok"

(* The exit code of seat_contract_checks.py.                               *)
SeatRed(v) == v.seat # "primary" \/ v.trouble # {} \/ v.binding \in {"expired", "invalid"}

(* Mutant: the host binding does not count on a campus with no seat.json.  *)
SoloNoBinding(v) == v.seat = "missing" /\ v.trouble \cap {"stamps", "files", "errors"} = {}

Solo(v) == /\ v.seat = "missing" /\ v.trouble \cap {"stamps", "files", "errors"} = {}
           /\ v.binding \notin {"expired", "invalid"}

seat_contract(v, tool) ==
    IF ~tool THEN "raised" ELSE IF Solo(v) THEN "opportunity"
    ELSE IF SeatRed(v) THEN "needs-decision" ELSE "ok"

(* "odd": validate-team did not answer for that team.                      *)
fleet_sweep(v, tool) ==
    IF ~v.due \/ ~v.foundry THEN "skipped"
    ELSE IF "odd" \in v.teams \/ (~tool /\ v.teams # {}) THEN "error"
    ELSE IF "broken" \in v.teams THEN "needs-decision" ELSE "ok"

staff(v) == CASE v = "good" -> "ok" [] v = "garbled" -> "raised" [] OTHER -> "needs-decision"

context_files(v) == CASE v = "good" -> "ok" [] v = "absent" -> "skipped" [] v = "doubled" -> "opportunity"

stale_work(v) == CASE v = "good" -> "ok" [] v = "absent" -> "skipped" [] v = "old" -> "opportunity"

ledger(v) == IF "bad" \in v THEN "error" ELSE IF "unstamped" \in v \/ "dated" \notin v THEN "opportunity" ELSE "ok"

Collector(s, v, tool) ==
    CASE s = "workspace" -> workspace(v) [] s = "version_lockstep" -> version_lockstep(v)
      [] s = "kernel_kit" -> kernel_kit(v) [] s = "registry" -> registry(v, tool)
      [] s = "context_weight" -> context_weight(v, tool) [] s = "results_ledgers" -> results_ledgers(v, tool)
      [] s = "schedules" -> schedules(v, tool) [] s = "seat_contract" -> seat_contract(v, tool)
      [] s = "fleet_sweep" -> fleet_sweep(v, tool) [] s = "staff" -> staff(v)
      [] s = "context_files" -> context_files(v) [] s = "stale_work" -> stale_work(v)
      [] s = "ledger" -> ledger(v)

-----------------------------------------------------------------------------
Upset ==
    /\ doctor # "done" /\ upsets < MaxUpsets /\ upsets' = upsets + 1
    /\ \E s \in Sections : \E v \in FactsOf(s) :
          v # campus[s] /\ section[s] = Missing /\ campus' = [campus EXCEPT ![s] = v]
    /\ UNCHANGED <<section, seen, doctor, code>>

(* main: both inputs cannot be stdin, and the kit manifest must be         *)
(* readable, or the tool fails with a text that says "FAIL(2)" and the     *)
(* exit code of a raised text, 1; a contract that does not load makes      *)
(* every section an error.                                                 *)
Start ==
    /\ doctor = "idle"
    /\ \/ doctor' = "running" /\ UNCHANGED <<section, code>>
       \/ /\ doctor' = "done" /\ code' = 1
          /\ section' \in {section, [s \in Sections |-> "error"]}
    /\ UNCHANGED <<campus, seen, upsets>>

Due == {i \in DOMAIN ORDER_OF_SECTIONS : section[ORDER_OF_SECTIONS[i]] = Missing}

Settle(s, status) ==
    section' = [section EXCEPT ![s] = IF status = "raised" THEN "error" ELSE status]

(* run: one collector, the first that is due.                              *)
Collect ==
    /\ doctor = "running"
    /\ \E i \in Due, tool \in BOOLEAN : LET s == ORDER_OF_SECTIONS[i] IN
          /\ \A j \in Due : i <= j
          /\ ~tool => s \in UsesTools /\ upsets < MaxUpsets
          /\ Settle(s, Collector(s, campus[s], tool))
          /\ seen' = [seen EXCEPT ![s] = [facts |-> campus[s], tool |-> tool]]
          /\ upsets' = IF tool THEN upsets ELSE upsets + 1
    /\ UNCHANGED <<campus, doctor, code>>

Exit ==
    /\ doctor = "running" /\ Due = {}
    /\ doctor' = "done"
    /\ code' = IF \E s \in Sections : section[s] \in {"needs-decision", "error"} THEN 1 ELSE 0
    /\ UNCHANGED <<campus, section, seen, upsets>>

DoctorNext == Upset \/ Start \/ Collect \/ Exit

DoctorSpec == DoctorInit /\ [][DoctorNext]_doctorvars

-----------------------------------------------------------------------------
(* Evidence that a session must not start its work on.                     *)
Alarming(s, v) ==
    CASE s = "workspace" -> v # "good"
      [] s = "version_lockstep" -> v # "agree"
      [] s = "kernel_kit" -> v.present /\ v.troubles # {}
      [] s = "registry" -> v.failing \/ v.spec # "current"
      [] s = "context_weight" -> v \in {"red", "unknown"}
      [] s = "results_ledgers" ->
            \E d \in v : d.shape # "object" \/ (d.version = "1.1" /\ ~d.valid)
      [] s = "schedules" -> v \in {"findings", "invalid", "unreadable"}
      [] s = "seat_contract" -> v.seat \in {"invalid", "satellite"} \/ v.trouble \ {"unresolved"} # {}
                                \/ v.binding \in {"expired", "invalid"}
      [] s = "fleet_sweep" -> v.due /\ v.foundry /\ v.teams \cap {"broken", "odd"} # {}
      [] s = "staff" -> v # "good"
      [] s \in {"context_files", "stale_work"} -> FALSE
      [] s = "ledger" -> "bad" \in v

(* Exit 0 says that nothing alarming was read by any collector and no      *)
(* sub-tool that was needed failed.  The exception: a campus with no       *)
(* seat.json (the solo case) that is a git repository in a synced folder   *)
(* is red for seat_contract_checks.py:483-484, and no line of the doctor's *)
(* is red for it (doctor_evidence.py:230-232 asks for every other finding).*)
ExitZeroIsHealthy ==
    doctor = "done" /\ code = 0 =>
        \A s \in Sections : LET v == seen[s].facts IN
            /\ Alarming(s, v) => s = "seat_contract" /\ v.seat = "missing" /\ v.trouble = {"git"}
            /\ \/ seen[s].tool
               \/ s = "schedules" /\ v = "not given"
               \/ s = "context_weight" /\ v = "no node"
               \/ s = "fleet_sweep" /\ ~(v.due /\ v.foundry /\ v.teams # {})

=============================================================================
