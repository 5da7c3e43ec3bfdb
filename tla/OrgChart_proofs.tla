--------------------------- MODULE OrgChart_proofs ---------------------------
(***************************************************************************)
(* For any departments, teams, kernels and number of overlapping runs: the *)
(* merge settles, keeps the rosters and the owner's entries but for runs   *)
(* that collide and runs that die in their dump, and the doctor counts     *)
(* what the generator and the validator let pass.                          *)
(***************************************************************************)
EXTENDS OrgChart, TLAPS

\* A run holds a registry it read.
OrgIInv ==
    /\ OrgTypeOK
    /\ \A g \in Runners : gen[g].pc # "idle" => gen[g].seen \in Registries

\* The merge of a registry is a registry with the same entries.
LEMMA MergeType ==
    ASSUME NEW r \in Registries, NEW k \in Kernels
    PROVE  /\ Merge(k, r) \in Registries
           /\ Merge(k, r).entry = r.entry
           /\ Derivable(Merge(k, r)) = Derivable(r)
<1>1. Merge(k, r) \in Registries
  BY DEF Merge, Registries, ShippedTo, Derivable
<1>2. Merge(k, r).entry = r.entry
  BY DEF Merge, Registries
<1>3. QED
  BY <1>1, <1>2 DEF Derivable, Standing

\* What a roster loses in a merge has an entry of its own.
LEMMA MergeKeepsRosters ==
    ASSUME NEW r \in Registries, NEW k \in Kernels, NEW d \in EmpDepts
    PROVE  Rostered(r, d) \subseteq Rostered(Merge(k, r), d) \cup Derivable(Merge(k, r))
<1>1. /\ Merge(k, r).emp[d] = ShippedTo(k, d)
      /\ Merge(k, r).added[d] = (r.added[d] \cup (r.emp[d] \ ShippedTo(k, d))) \ Derivable(r)
  BY DEF Merge, Registries
<1>2. QED
  BY <1>1, MergeType DEF Rostered

LEMMA InitOrgIInv == OrgInit => OrgIInv
<1>1. EmptyRegistry \in Registries
  BY DEF EmptyRegistry, Registries
<1>2. QED
  BY <1>1 DEF OrgInit, OrgIInv, OrgTypeOK, NotRunning

LEMMA StepOrgIInv == OrgIInv /\ [OrgNext]_orgvars => OrgIInv'
<1> SUFFICES ASSUME OrgIInv, [OrgNext]_orgvars PROVE OrgIInv'
  OBVIOUS
<1> USE DEF OrgIInv
<1>1. ASSUME NEW g \in Runners, LoadRegistry(g) PROVE OrgIInv'
  BY <1>1, OrgAssumption DEF LoadRegistry, OrgTypeOK
<1>2. ASSUME NEW g \in Runners, OpenRegistry(g) PROVE OrgIInv'
  BY <1>2 DEF OpenRegistry, OrgTypeOK
<1>3. ASSUME NEW g \in Runners, DumpRegistry(g) PROVE OrgIInv'
  <2>1. KernelOf[g] \in Kernels /\ gen[g].seen \in Registries
    BY <1>3, OrgAssumption DEF DumpRegistry
  <2>2. Merge(KernelOf[g], gen[g].seen) \in Registries
    BY <2>1, MergeType
  <2>3. reg' \in Registries \cup {Torn}
    BY <1>3, <2>2 DEF DumpRegistry
  <2>4. QED
    BY <1>3, <2>3 DEF DumpRegistry, OrgTypeOK, NotRunning
<1>4. ASSUME NEW g \in Runners, GenCrash(g) PROVE OrgIInv'
  BY <1>4 DEF GenCrash, OrgTypeOK, NotRunning
<1>5. ASSUME NEW r \in Registries, OwnerWrites(r) PROVE OrgIInv'
  BY <1>5 DEF OwnerWrites, OrgTypeOK
<1>6. ASSUME NEW n \in Names, NEW e \in Entries, File(n, e) PROVE OrgIInv'
  <2>1. [reg EXCEPT !.entry[n] = e] \in Registries
    BY <1>6 DEF File, OwnerWrites, OrgTypeOK, Registries
  <2>2. QED
    BY <1>5, <1>6, <2>1 DEF File
<1>7. ASSUME NEW n \in Names, NEW d \in EmpDepts, Place(n, d) PROVE OrgIInv'
  <2>1. [reg EXCEPT !.added[d] = @ \cup {n}] \in Registries
    BY <1>7 DEF Place, OrgTypeOK, Registries
  <2>2. QED
    BY <1>5, <1>7, <2>1 DEF Place
<1>8. CASE UNCHANGED orgvars
  BY <1>8 DEF orgvars, OrgTypeOK
<1>9. QED
  BY <1>1, <1>2, <1>3, <1>4, <1>6, <1>7, <1>8 DEF OrgNext

LEMMA OrgIInvAlways == OrgSpec => []OrgIInv
BY InitOrgIInv, StepOrgIInv, PTL DEF OrgSpec

\* The variables keep their types: a file is torn or a registry, and what the
\* generator dumps is one (gen_department_entries.py:435).
THEOREM OrgTypeCorrect == OrgSpec => []OrgTypeOK
<1>1. OrgIInv => OrgTypeOK
  BY DEF OrgIInv
<1>2. QED
  BY <1>1, OrgIInvAlways, PTL

-----------------------------------------------------------------------------
\* A second run of one kernel changes nothing, whatever registry the first one loaded
\* (gen_department_entries.py:249-300).
THEOREM MergesSettle == OrgSpec => []MergeSettles
<1>1. ASSUME NEW r \in Registries, NEW k \in Kernels
      PROVE  Merge(k, Merge(k, r)) = Merge(k, r)
  <2> DEFINE m == Merge(k, r)
  <2>1. m \in Registries /\ Derivable(m) = Derivable(r)
    BY MergeType
  <2>2. /\ m.made = TRUE
        /\ m.emp = [d \in EmpDepts |-> ShippedTo(k, d)]
        /\ m.added = [d \in EmpDepts |->
                         (r.added[d] \cup (r.emp[d] \ ShippedTo(k, d))) \ Derivable(r)]
        /\ m.sys = ShippedTo(k, "kernel")
    BY DEF Merge, Registries
  <2> HIDE DEF m
  <2>3. [d \in EmpDepts |-> (m.added[d] \cup (m.emp[d] \ ShippedTo(k, d))) \ Derivable(m)] = m.added
    BY <2>1, <2>2
  <2>4. m.sysadded \cup (m.sys \ ShippedTo(k, "kernel")) = m.sysadded
    BY <2>2
  <2>5. Merge(k, m) = [m EXCEPT !.made = m.made, !.emp = m.emp, !.added = m.added,
                                !.sys = m.sys, !.sysadded = m.sysadded]
    BY <2>2, <2>3, <2>4 DEF Merge
  <2>6. Merge(k, m) = m
    BY <2>1, <2>5 DEF Registries
  <2>7. QED
    BY <2>6 DEF m
<1>2. OrgIInv => MergeSettles
  BY <1>1, OrgAssumption DEF OrgIInv, MergeSettles
<1>3. QED
  BY <1>2, OrgIInvAlways, PTL

-----------------------------------------------------------------------------
\* What is in the file or in a run's hands is a registry.
LEMMA InHandType == OrgIInv => InHand \subseteq Registries
BY DEF OrgIInv, OrgTypeOK, InHand

\* Without a collision or a death in the dump, a step loses no registry, or merges the
\* one there is, or is the owner's.
LEMMA HandOver ==
    ASSUME OrgIInv, [OrgNext]_orgvars, ~\E g \in Runners : Collides(g) \/ Dies(g)
    PROVE  \/ InHand \subseteq InHand'
           \/ \E n \in Names, e \in Entries : File(n, e)
           \/ \E n \in Names, d \in EmpDepts : Place(n, d)
           \/ \E k \in Kernels, r \in Registries : InHand = {r} /\ InHand' = {Merge(k, r)}
<1>1. ASSUME NEW g \in Runners, LoadRegistry(g) PROVE InHand \subseteq InHand'
  BY <1>1 DEF LoadRegistry, InHand
<1>2. ASSUME NEW g \in Runners, OpenRegistry(g) PROVE InHand \subseteq InHand'
  <2>1. /\ gen[g].pc = "open" /\ reg' = Torn
        /\ gen'[g].pc = "dump" /\ gen'[g].seen = gen[g].seen
        /\ \A h \in Runners \ {g} : gen'[h] = gen[h]
    BY <1>2 DEF OpenRegistry, OrgIInv, OrgTypeOK
  <2>2. gen[g].seen = reg
    BY <2>1 DEF Collides
  <2>3. \A h \in Runners : gen[h].pc = "dump" => gen'[h].pc = "dump" /\ gen'[h].seen = gen[h].seen
    BY <2>1
  <2>4. QED
    BY <2>1, <2>2, <2>3 DEF InHand
<1>3. ASSUME NEW g \in Runners, DumpRegistry(g)
      PROVE  \E k \in Kernels, r \in Registries : InHand = {r} /\ InHand' = {Merge(k, r)}
  <2>1. /\ gen[g].pc = "dump" /\ gen[g].seen \in Registries /\ KernelOf[g] \in Kernels
        /\ gen' = [gen EXCEPT ![g] = NotRunning]
    BY <1>3, OrgAssumption DEF DumpRegistry, OrgIInv
  <2>2. gen'[g] # gen[g]
    BY <2>1 DEF OrgIInv, OrgTypeOK, NotRunning
  <2>3. reg = Torn /\ \A h \in Runners \ {g} : gen[h].pc # "dump"
    BY <2>1, <2>2 DEF Collides
  <2>4. reg' = Merge(KernelOf[g], gen[g].seen)
    BY <1>3, <2>3 DEF DumpRegistry
  <2>5. reg' # Torn
    BY <2>1, <2>4, MergeType, OrgAssumption
  <2>6. InHand = {gen[g].seen}
    BY <2>1, <2>3 DEF InHand
  <2>7. InHand' = {Merge(KernelOf[g], gen[g].seen)}
    BY <2>4, <2>5 DEF InHand
  <2>8. QED
    BY <2>1, <2>6, <2>7
<1>4. ASSUME NEW g \in Runners, GenCrash(g) PROVE InHand \subseteq InHand'
  <2>1. /\ gen[g].pc # "dump" /\ reg' = reg
        /\ \A h \in Runners \ {g} : gen'[h] = gen[h]
    BY <1>4 DEF Dies, GenCrash, OrgIInv, OrgTypeOK
  <2>2. \A h \in Runners : gen[h].pc = "dump" => gen'[h] = gen[h]
    BY <2>1
  <2>3. QED
    BY <2>1, <2>2 DEF InHand
<1>5. CASE UNCHANGED orgvars
  BY <1>5 DEF orgvars, InHand
<1>6. QED
  BY <1>1, <1>2, <1>3, <1>4, <1>5 DEF OrgNext

\* The owner writes what a registry may be, over one that can be read.
LEMMA OwnersHand ==
    ASSUME OrgIInv, NEW r \in Registries, OwnerWrites(r)
    PROVE  InHand = {reg} /\ InHand' = {r} /\ reg \in Registries /\ owns' # owns
BY OrgAssumption DEF OwnerWrites, InHand, OrgIInv, OrgTypeOK

\* A name on a department's roster stays on it, whatever kernels regenerate it, unless a
\* standing entry of its own makes it derivable - or runs collide between load and dump
\* (gen_department_entries.py:357, :435), or one dies in the dump and destroys the file.
THEOREM RostersKept == OrgSpec => RosterKept
<1> DEFINE Kept(d, n) == (\E r \in InHand : n \in Rostered(r, d)) =>
                             (\E r \in InHand' : n \in Rostered(r, d) \cup Derivable(r))
           Odd == \E g \in Runners : Collides(g) \/ Dies(g)
<1>1. ASSUME OrgIInv, [OrgNext]_orgvars, ~Odd, NEW d \in EmpDepts, NEW n \in Names
      PROVE  Kept(d, n)
  <2>1. CASE InHand \subseteq InHand'
    BY <2>1
  <2>2. ASSUME NEW m \in Names, NEW e \in Entries, File(m, e) PROVE Kept(d, n)
    <3> DEFINE new == [reg EXCEPT !.entry[m] = e]
    <3>1. new \in Registries /\ Rostered(new, d) = Rostered(reg, d) /\ OwnerWrites(new)
      BY <1>1, <2>2 DEF File, OwnerWrites, OrgIInv, OrgTypeOK, Registries, Rostered
    <3>2. InHand = {reg} /\ InHand' = {new}
      BY <1>1, <3>1, OwnersHand
    <3>3. QED
      BY <3>1, <3>2
  <2>3. ASSUME NEW m \in Names, NEW c \in EmpDepts, Place(m, c) PROVE Kept(d, n)
    <3> DEFINE new == [reg EXCEPT !.added[c] = @ \cup {m}]
    <3>1. new \in Registries /\ Rostered(reg, d) \subseteq Rostered(new, d) /\ OwnerWrites(new)
      BY <1>1, <2>3 DEF Place, OwnerWrites, OrgIInv, OrgTypeOK, Registries, Rostered
    <3>2. InHand = {reg} /\ InHand' = {new}
      BY <1>1, <3>1, OwnersHand
    <3>3. QED
      BY <3>1, <3>2
  <2>4. ASSUME NEW k \in Kernels, NEW r \in Registries, InHand = {r}, InHand' = {Merge(k, r)}
        PROVE  Kept(d, n)
    BY <2>4, MergeKeepsRosters
  <2>5. QED
    BY <1>1, <2>1, <2>2, <2>3, <2>4, HandOver
<1>2. OrgIInv /\ [OrgNext]_orgvars => [Odd \/ \A d \in EmpDepts, n \in Names : Kept(d, n)]_orgvars
  BY <1>1
<1>3. QED
  BY <1>2, OrgIInvAlways, PTL DEF OrgSpec, RosterKept

\* An entry the owner or a skill filed is undone by nobody but them, by runs that collide,
\* or by a run that dies in its dump and leaves nothing to read.
THEOREM EntriesAreKept == OrgSpec => EntriesKept
<1> DEFINE Kept(n, e) == (\E r \in InHand : r.entry[n] = e) => (\E r \in InHand' : r.entry[n] = e)
           Odd == \E g \in Runners : Collides(g) \/ Dies(g)
<1>1. ASSUME OrgIInv, [OrgNext]_orgvars, ~Odd, owns' = owns,
             NEW n \in Names, NEW e \in Entries \cup {Missing}
      PROVE  Kept(n, e)
  <2>1. CASE InHand \subseteq InHand'
    BY <2>1
  <2>2. ~\E m \in Names, f \in Entries : File(m, f)
    BY <1>1 DEF File, OwnerWrites, OrgIInv, OrgTypeOK
  <2>3. ~\E m \in Names, d \in EmpDepts : Place(m, d)
    BY <1>1 DEF Place, OwnerWrites, OrgIInv, OrgTypeOK
  <2>4. ASSUME NEW k \in Kernels, NEW r \in Registries, InHand = {r}, InHand' = {Merge(k, r)}
        PROVE  Kept(n, e)
    BY <2>4, MergeType
  <2>5. QED
    BY <1>1, <2>1, <2>2, <2>3, <2>4, HandOver
<1>2. OrgIInv /\ [OrgNext]_orgvars =>
          [owns' # owns \/ Odd \/ \A n \in Names, e \in Entries \cup {Missing} : Kept(n, e)]_orgvars
  BY <1>1
<1>3. QED
  BY <1>2, OrgIInvAlways, PTL DEF OrgSpec, EntriesKept

-----------------------------------------------------------------------------
\* What validate_registry.py and the generator's --check let pass, the doctor counts.
THEOREM CheckedAreCounted == OrgSpec => []CheckedIsCounted
<1>1. ASSUME OrgIInv, reg # Torn, NEW k \in Kernels, Validates(reg),
             RosterCheck(k, reg) = "ok"
      PROVE  /\ Derivable(reg) \subseteq DoctorEmployees(reg)
             /\ \A n \in DoctorOrphans(reg) : reg.entry[n].dept \in NonDept
  <2>1. reg \in Registries
    BY <1>1 DEF OrgIInv, OrgTypeOK
  <2>2. Orphans(reg) = {} /\ reg.made
    BY <1>1 DEF RosterCheck, Drifted
  <2>3. DoctorDepts(reg) = EmpDepts
    BY <2>2 DEF DoctorDepts
  <2>4. \A s \in KnownStatuses : StatusMeant(s) = s
    BY OrgAssumption DEF StatusMeant
  <2>5. ASSUME NEW n \in Derivable(reg) PROVE n \in DoctorEmployees(reg)
    <3>1. /\ n \in Names /\ reg.entry[n] # Missing
          /\ reg.entry[n].status \in KnownStatuses \ Stood
          /\ ResolveDept(reg.entry[n].dept) \in EmpDepts
      BY <1>1, <2>5 DEF Derivable, Standing, Validates
    <3>2. DoctorActive(reg, n)
      BY <2>4, <3>1 DEF DoctorActive, KnownStatuses
    <3>3. n \in DoctorRoster(reg, ResolveDept(reg.entry[n].dept))
      BY <3>1, <3>2 DEF DoctorRoster, Inactive
    <3>4. QED
      BY <2>3, <3>1, <3>3 DEF DoctorEmployees
  <2>6. ASSUME NEW n \in DoctorOrphans(reg) PROVE reg.entry[n].dept \in NonDept
    <3>1. n \in Names /\ DoctorActive(reg, n) /\ ResolveDept(reg.entry[n].dept) \notin EmpDepts
      BY <2>3, <2>6 DEF DoctorOrphans
    <3>2. reg.entry[n] # Missing /\ reg.entry[n].status \notin Stood
      BY <2>4, <3>1 DEF DoctorActive, KnownStatuses, Stood
    <3>3. reg.entry[n].dept \in EmpDepts \cup DOMAIN Alias \cup NonDept
      BY <2>2, <3>1, <3>2 DEF Orphans, Standing
    <3>4. QED
      BY <3>1, <3>3, OrgAssumption DEF ResolveDept
  <2>7. QED
    BY <2>5, <2>6
<1>2. OrgIInv => CheckedIsCounted
  BY <1>1 DEF CheckedIsCounted
<1>3. QED
  BY <1>2, OrgIInvAlways, PTL
=============================================================================
