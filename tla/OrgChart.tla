------------------------------ MODULE OrgChart ------------------------------
(***************************************************************************)
(* The staff rosters in .campus-os/registry.json.  The owner and the       *)
(* campus's skills file team entries in it; tools/gen_department_entries.py*)
(* of whichever kernel is run loads the file, rebuilds the org-chart       *)
(* entries it owns and dumps the file in place; doctor_evidence.py and     *)
(* validate_registry.py read it.                                           *)
(***************************************************************************)
EXTENDS Integers, FiniteSets, CampusTerms

CONSTANTS Names,       \* teams, and slugs of shipped skills
          EmpDepts,    \* the departments with a roster
          Alias,       \* legacy department names -> department
          NonDept,     \* kernel, core, cross: departments nobody is staff of
          StrayDepts,  \* names no reader knows
          Miscased,    \* status typed in another case -> the one meant
          Kernels, Ships,  \* kernel -> shipped slug -> its department, or Missing
          Runners,     \* processes that run the generator
          KernelOf,    \* runner -> kernel
          MaxRuns, MaxOwner

(* The statuses of the registry's enum.                                    *)
KnownStatuses == Stood \cup {"active"}

Filed == EmpDepts \cup DOMAIN Alias \cup NonDept \cup StrayDepts

Entries == [dept : Filed, status : KnownStatuses \cup DOMAIN Miscased]

(* entry: the team entries; emp, added: employees[] and employees_added[]  *)
(* of each department; sys, sysadded: those of campus-systems; made: these *)
(* org-chart entries are there.                                            *)
Registries == [entry : [Names -> Entries \cup {Missing}],
               emp : [EmpDepts -> SUBSET Names], added : [EmpDepts -> SUBSET Names],
               sys : SUBSET Names, sysadded : SUBSET Names, made : BOOLEAN]

ASSUME OrgAssumption ==
    /\ NonDept \cap EmpDepts = {} /\ "kernel" \in NonDept
    /\ \A a \in DOMAIN Alias : Alias[a] \in EmpDepts /\ a \notin EmpDepts \cup NonDept
    /\ \A s \in DOMAIN Miscased : Miscased[s] \in KnownStatuses /\ s \notin KnownStatuses
    /\ Ships \in [Kernels -> [Names -> EmpDepts \cup NonDept \cup {Missing}]]
    /\ KernelOf \in [Runners -> Kernels]
    /\ Torn \notin Registries /\ MaxRuns \in Nat /\ MaxOwner \in Nat

VARIABLES reg,       \* registry.json: a registry, or Torn
          gen,       \* runner -> [pc, seen] of the run under way
          gens, owns
orgvars == <<reg, gen, gens, owns>>

NotRunning == [pc |-> "idle", seen |-> Missing]

EmptyRegistry == [entry |-> [n \in Names |-> Missing], emp |-> [d \in EmpDepts |-> {}],
                  added |-> [d \in EmpDepts |-> {}], sys |-> {}, sysadded |-> {},
                  made |-> FALSE]

OrgInit ==
    /\ reg = EmptyRegistry
    /\ gen = [r \in Runners |-> NotRunning]
    /\ gens = 0 /\ owns = 0

-----------------------------------------------------------------------------
(* gen_department_entries.py                                               *)
ResolveDept(d) == IF d \in DOMAIN Alias THEN Alias[d] ELSE d

(* A status that is none of the three counts as active here.               *)
Standing(r, n) == r.entry[n] # Missing /\ r.entry[n].status \notin Stood

Derivable(r) == {n \in Names : Standing(r, n) /\ ResolveDept(r.entry[n].dept) \in EmpDepts}

Orphans(r) == {n \in Names : Standing(r, n)
                 /\ r.entry[n].dept \notin EmpDepts \cup DOMAIN Alias \cup NonDept}

ShippedTo(k, d) == {n \in Names : Ships[k][n] = d}

Collisions(k, r) == Derivable(r) \cap ShippedTo(k, "kernel")

Drifted(k, r) == \/ ~r.made
                 \/ \E d \in EmpDepts : r.emp[d] # ShippedTo(k, d)
                 \/ r.sys # ShippedTo(k, "kernel")

RosterCheck(k, r) == IF Collisions(k, r) # {} THEN "collision" ELSE
               IF Orphans(r) # {} THEN "orphan" ELSE
               IF Drifted(k, r) THEN "drift" ELSE "ok"

(* employees[] is what the kernel ships; a name that was there and is not  *)
(* shipped any more joins employees_added[], from which the names with a   *)
(* standing entry of their own are taken out.                              *)
(* Mutants: what is not shipped any more is dropped; a derivable name is   *)
(* taken out before the reclassified ones are put in.                      *)
MergeDrops(k, r) ==
    [r EXCEPT !.made = TRUE, !.emp = [d \in EmpDepts |-> ShippedTo(k, d)], !.sys = ShippedTo(k, "kernel")]

MergeLate(k, r) ==
    [r EXCEPT !.made = TRUE, !.emp = [d \in EmpDepts |-> ShippedTo(k, d)],
              !.added = [d \in EmpDepts |->
                  (r.added[d] \ Derivable(r)) \cup (r.emp[d] \ ShippedTo(k, d))],
              !.sys = ShippedTo(k, "kernel")]

Merge(k, r) ==
    [r EXCEPT !.made = TRUE,
              !.emp = [d \in EmpDepts |-> ShippedTo(k, d)],
              !.added = [d \in EmpDepts |->
                  (r.added[d] \cup (r.emp[d] \ ShippedTo(k, d))) \ Derivable(r)],
              !.sys = ShippedTo(k, "kernel"),
              !.sysadded = r.sysadded \cup (r.sys \ ShippedTo(k, "kernel"))]

LoadRegistry(g) ==
    /\ gen[g].pc = "idle" /\ reg # Torn /\ gens < MaxRuns
    /\ gens' = gens + 1
    /\ gen' = [gen EXCEPT ![g] = [pc |-> "open", seen |-> reg]]
    /\ UNCHANGED <<reg, owns>>

(* open(REG, "w") truncates; until the dump is complete no one can read.   *)
OpenRegistry(g) ==
    /\ gen[g].pc = "open"
    /\ reg' = Torn
    /\ gen' = [gen EXCEPT ![g].pc = "dump"]
    /\ UNCHANGED <<gens, owns>>

(* A file written since by another may keep that one's longer tail.        *)
(* Mutant: the run dumps a registry of its own, without the owner's teams. *)
DumpUnfiled(g) ==
    /\ gen[g].pc = "dump"
    /\ reg' = Merge(KernelOf[g], [gen[g].seen EXCEPT !.entry = EmptyRegistry.entry])
    /\ gen' = [gen EXCEPT ![g] = NotRunning]
    /\ UNCHANGED <<gens, owns>>

DumpRegistry(g) ==
    /\ gen[g].pc = "dump"
    /\ \/ reg' = Merge(KernelOf[g], gen[g].seen)
       \/ reg # Torn /\ reg' = Torn
    /\ gen' = [gen EXCEPT ![g] = NotRunning]
    /\ UNCHANGED <<gens, owns>>

GenCrash(g) ==
    /\ gen[g].pc # "idle"
    /\ gen' = [gen EXCEPT ![g] = NotRunning]
    /\ UNCHANGED <<reg, gens, owns>>

(* The owner and the skills file an entry, change its status or department,*)
(* or put a name on a roster.                                              *)
OwnerWrites(r) ==
    /\ reg # Torn /\ owns < MaxOwner /\ r # reg
    /\ reg' = r /\ owns' = owns + 1
    /\ UNCHANGED <<gen, gens>>

File(n, e) == OwnerWrites([reg EXCEPT !.entry[n] = e])

Place(n, d) == reg # Torn /\ reg.made /\ OwnerWrites([reg EXCEPT !.added[d] = @ \cup {n}])

OrgNext == \/ \E g \in Runners : LoadRegistry(g) \/ OpenRegistry(g) \/ DumpRegistry(g) \/ GenCrash(g)
           \/ \E n \in Names, e \in Entries : File(n, e)
           \/ \E n \in Names, d \in EmpDepts : Place(n, d)

OrgSpec == OrgInit /\ [][OrgNext]_orgvars

-----------------------------------------------------------------------------
(* doctor_evidence.py staff(): statuses are matched in any case, and what  *)
(* is no known status is not active; a roster exists only for a department *)
(* that has an org-chart entry.                                            *)
StatusMeant(s) == IF s \in DOMAIN Miscased THEN Miscased[s] ELSE s

DoctorActive(r, n) == r.entry[n] # Missing /\ StatusMeant(r.entry[n].status) = "active"

Inactive(r) == {n \in Names : r.entry[n] # Missing /\ ~DoctorActive(r, n)}

DoctorDepts(r) == IF r.made THEN EmpDepts ELSE {}

(* Mutant: only the names stored on a roster are read.                     *)
DoctorRosterStored(r, d) == (r.emp[d] \cup r.added[d]) \ Inactive(r)

DoctorRoster(r, d) ==
    (r.emp[d] \cup r.added[d]
       \cup {n \in Names : DoctorActive(r, n) /\ ResolveDept(r.entry[n].dept) = d})
    \ Inactive(r)

DoctorEmployees(r) == UNION {DoctorRoster(r, d) : d \in DoctorDepts(r)}

DoctorSystems(r) == r.sys \cup r.sysadded

DoctorOrphans(r) == {n \in Names : DoctorActive(r, n)
                                     /\ ResolveDept(r.entry[n].dept) \notin DoctorDepts(r)}

(* validate_registry.py: status and department are in the spec's enums.    *)
Validates(r) == \A n \in Names : r.entry[n] # Missing =>
                    /\ r.entry[n].status \in KnownStatuses
                    /\ r.entry[n].status \in {"legacy", "retired"}
                         \/ r.entry[n].dept \notin StrayDepts

-----------------------------------------------------------------------------
OrgTypeOK ==
    /\ reg \in Registries \cup {Torn}
    /\ gen \in [Runners -> [pc : {"idle", "open", "dump"}, seen : Registries \cup {Missing}]]
    /\ gens \in Nat /\ owns \in Nat

Rostered(r, d) == r.emp[d] \cup r.added[d]

(* Where the registry is: in the file, or with the runs that emptied it.   *)
InHand == IF reg # Torn THEN {reg}
          ELSE {gen[g].seen : g \in {h \in Runners : gen[h].pc = "dump"}}

(* The run dies between open(REG, "w") and the end of its dump.            *)
Dies(g) == gen[g].pc = "dump" /\ GenCrash(g)

(* It empties a file that changed since it was loaded, or dumps over what  *)
(* another run wrote or holds.                                             *)
Collides(g) ==
    /\ gen'[g] # gen[g]
    /\ \/ gen[g].pc = "open" /\ gen[g].seen # reg
       \/ gen[g].pc = "dump" /\ reg # Torn
       \/ gen[g].pc = "dump" /\ \E h \in Runners \ {g} : gen[h].pc = "dump"

(* "Shrunk, never destroyed" (:249): a name on a department's roster stays *)
(* on it whatever kernels regenerate it in turn, unless a standing entry   *)
(* of its own makes it staff of some department.  Two things destroy it:   *)
(* a file that changes between a run's load (:357) and its dump (:435),    *)
(* and a run that dies in the dump, after which nothing can be read.       *)
RosterKept ==
    [][\/ \E g \in Runners : Collides(g) \/ Dies(g)
       \/ \A d \in EmpDepts, n \in Names :
             (\E r \in InHand : n \in Rostered(r, d)) =>
                 \E r \in InHand' : n \in Rostered(r, d) \cup Derivable(r)]_orgvars

(* The owner's entries, too, are undone by nothing but their own edits and *)
(* those two.                                                              *)
EntriesKept ==
    [][\/ owns' # owns \/ \E g \in Runners : Collides(g) \/ Dies(g)
       \/ \A n \in Names, e \in Entries \cup {Missing} :
             (\E r \in InHand : r.entry[n] = e) => \E r \in InHand' : r.entry[n] = e]_orgvars

(* A second run of the same kernel changes nothing, whatever registry the  *)
(* first one loaded - of any kernel's or an owner's writing: what one run  *)
(* reclassifies the next leaves where it is.                               *)
MergeSettles ==
    \A g \in Runners : gen[g].pc = "dump" =>
        LET merged == Merge(KernelOf[g], gen[g].seen)
        IN  Merge(KernelOf[g], merged) = merged

(* When validate_registry passes and the generator's --check of some       *)
(* kernel says OK, the doctor counts every standing team of a department,  *)
(* and calls nobody an orphan but the teams filed under kernel, core or    *)
(* cross, which the generator knows and the doctor's rosters do not.       *)
CheckedIsCounted ==
    \A k \in Kernels : reg # Torn /\ Validates(reg) /\ RosterCheck(k, reg) = "ok" =>
        /\ Derivable(reg) \subseteq DoctorEmployees(reg)
        /\ \A n \in DoctorOrphans(reg) : reg.entry[n].dept \in NonDept
=============================================================================
