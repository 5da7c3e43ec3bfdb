----------------------- MODULE RegistrationSpec_proofs -----------------------
(***************************************************************************)
(* For any clients, kernels, templates and lines of the owner's: a copy    *)
(* that the check calls current is what the installed template and the     *)
(* overrides render to, and what the owner wrote is lost only where a file *)
(* is replaced that nobody looked at since.                                *)
(***************************************************************************)
EXTENDS RegistrationSpec, TLAPS

Templates == {Template[k] : k \in Kernels}

\* What a run under way holds at each of its steps.
Holding ==
    \A c \in Clients :
        /\ proc[c].pc = "capture" => proc[c].cap \in Overrides
        /\ proc[c].pc = "stamp" => proc[c].tmpl \in Templates
        /\ proc[c].pc \in {"compare", "backup", "write"} => proc[c].text \in Specs

\* Until a template was replaced between its two reads, every stamp in the copy, or on its
\* way there, has the hash of what its inputs render to.
StampsHonest ==
    ~torn => /\ Honest(spec)
             /\ \A c \in Clients : proc[c].pc \in {"compare", "backup", "write"} =>
                                       Honest(proc[c].text)

SpecIInv == SpecTypeOK /\ Holding /\ StampsHonest

ProcType == [pc : {"idle", "capture", "status", "render", "stamp", "compare", "backup", "write"},
             cap : Overrides \cup {None}, keep : BOOLEAN,
             seen : Specs \cup {None}, tmpl : {Template[k] : k \in Kernels} \cup {None},
             in : Overrides \cup {None}, text : Specs \cup {None}]

LEMMA RenderType ==
    ASSUME NEW tmpl \in Templates, NEW o \in Overrides \cup {None}
    PROVE  RenderBody(tmpl, o) \in Bodies
<1>1. Loaded(o) \in Overrides
  BY DEF Loaded, NoOverrides, Overrides
<1>2. tmpl.depts \subseteq Depts /\ tmpl.prose \subseteq Prose
  BY DEF Templates, Depts, Prose
<1>3. QED
  BY <1>1, <1>2 DEF RenderBody, Bodies, Overrides

LEMMA CaptureType ==
    ASSUME NEW s \in Specs, NEW tmpl
    PROVE  Capture(s, tmpl) \in Overrides
<1>1. s.body \in Bodies
  BY DEF Specs
<1>2. QED
  BY <1>1 DEF Capture, Overrides, Bodies

LEMMA InitSpecIInv == SpecInit => SpecIInv
<1> SUFFICES ASSUME SpecInit PROVE SpecIInv
  OBVIOUS
<1>1. Idle \in ProcType /\ Idle.pc = "idle"
  BY DEF Idle, ProcType
<1>2. SpecTypeOK
  <2>1. spec \in Specs \cup {None} /\ kernel \in [Clients -> Kernels]
    BY SpecAssumption, InitAssumption DEF SpecInit
  <2>2. /\ ovr \in Overrides \cup {None} /\ backup \in [0..MaxSecond -> Specs \cup {None}]
        /\ begins \in [Clients -> Nat] /\ edits \in Nat /\ updates \in Nat /\ crashes \in Nat
        /\ torn \in BOOLEAN /\ dropped \in SUBSET (Depts \cup Prose)
    BY DEF SpecInit
  <2>3. second \in 0..MaxSecond
    BY SpecAssumption DEF SpecInit
  <2>4. proc \in [Clients -> ProcType]
    BY <1>1 DEF SpecInit
  <2>5. QED
    BY <2>1, <2>2, <2>3, <2>4 DEF SpecTypeOK, ProcType
<1>3. Holding /\ StampsHonest
  BY <1>1, InitAssumption DEF SpecInit, Holding, StampsHonest
<1>4. QED
  BY <1>2, <1>3 DEF SpecIInv

\* A step that moves one run along, and leaves the copy and the overrides alone.
LEMMA RunStep ==
    ASSUME SpecIInv, NEW c \in Clients, NEW p \in ProcType,
           proc' = [proc EXCEPT ![c] = p],
           p.pc = "capture" => p.cap \in Overrides,
           p.pc = "stamp" => p.tmpl \in Templates,
           p.pc \in {"compare", "backup", "write"} => p.text \in Specs,
           p.pc \in {"compare", "backup", "write"} /\ ~torn' => Honest(p.text),
           torn' \in BOOLEAN, torn => torn',
           backup' \in [0..MaxSecond -> Specs \cup {None}],
           begins' \in [Clients -> Nat], crashes' \in Nat,
           dropped' \in SUBSET (Depts \cup Prose),
           UNCHANGED <<spec, ovr, kernel, second, edits, updates>>
    PROVE  SpecIInv'
<1>1. \A d \in Clients : proc'[d] = IF d = c THEN p ELSE proc[d]
  BY DEF SpecIInv, SpecTypeOK
<1>2. SpecTypeOK'
  BY DEF SpecIInv, SpecTypeOK, ProcType
<1>3. Holding'
  BY <1>1 DEF SpecIInv, Holding
<1>4. StampsHonest'
  BY <1>1 DEF SpecIInv, StampsHonest, Honest
<1>5. QED
  BY <1>2, <1>3, <1>4 DEF SpecIInv

LEMMA Types ==
    ASSUME SpecIInv, NEW c \in Clients
    PROVE  /\ proc[c] \in ProcType /\ proc \in [Clients -> ProcType]
           /\ spec \in Specs \cup {None} /\ ovr \in Overrides \cup {None}
           /\ Template[kernel[c]] \in Templates /\ kernel[c] \in Kernels
           /\ backup \in [0..MaxSecond -> Specs \cup {None}]
           /\ begins \in [Clients -> Nat] /\ crashes \in Nat /\ torn \in BOOLEAN
           /\ dropped \in SUBSET (Depts \cup Prose)
BY DEF SpecIInv, SpecTypeOK, ProcType, Templates

LEMMA IdleType == Idle \in ProcType /\ Idle.pc = "idle"
BY DEF Idle, ProcType

LEMMA LeaveStep ==
    ASSUME SpecIInv, NEW c \in Clients, Leave(c),
           UNCHANGED <<spec, ovr, backup, kernel, second, begins, edits, updates, torn, dropped>>,
           crashes' \in Nat
    PROVE  SpecIInv'
<1>1. proc' = [proc EXCEPT ![c] = Idle]
  BY DEF Leave
<1>2. QED
  BY <1>1, IdleType, Types, RunStep

LEMMA BeginStep ==
    ASSUME SpecIInv, NEW c \in Clients, Begin(c)
    PROVE  SpecIInv'
<1>1. begins' \in [Clients -> Nat]
  BY Types DEF Begin, BeginWrite, BeginCapture, MayBegin
<1>2. CASE BeginWrite(c)
  <2> DEFINE p == [proc[c] EXCEPT !.pc = "status"]
  <2>1. p \in ProcType /\ p.pc = "status" /\ proc' = [proc EXCEPT ![c] = p]
    BY <1>2, Types DEF BeginWrite, Goto, ProcType
  <2> HIDE DEF p
  <2>2. QED
    BY <1>1, <1>2, <2>1, Types, RunStep DEF BeginWrite
<1>3. ASSUME NEW force \in BOOLEAN, BeginCapture(c, force) PROVE SpecIInv'
  <2> DEFINE p == [Idle EXCEPT !.pc = "capture", !.cap = Capture(spec, Template[kernel[c]])]
  <2>1. Capture(spec, Template[kernel[c]]) \in Overrides
    BY <1>3, Types, CaptureType DEF BeginCapture
  <2>2. p \in ProcType /\ p.pc = "capture" /\ p.cap \in Overrides
    BY <2>1 DEF ProcType, Idle
  <2>3. proc' = [proc EXCEPT ![c] = p]
    BY <1>3 DEF BeginCapture
  <2> HIDE DEF p
  <2>4. QED
    BY <1>1, <1>3, <2>2, <2>3, Types, RunStep DEF BeginCapture
<1>4. QED
  BY <1>2, <1>3 DEF Begin

LEMMA ReadStep ==
    ASSUME SpecIInv, NEW c \in Clients, ReadStatus(c) \/ ReadInputs(c) \/ Compare(c)
    PROVE  SpecIInv'
<1>1. CASE Leave(c)
  BY <1>1, LeaveStep, Types DEF ReadStatus, ReadInputs, Compare
<1>2. CASE ReadStatus(c) /\ ~Leave(c)
  <2> DEFINE keep == spec # None /\ (HandEdited(spec, c) \/ Unverifiable(spec, c))
             p == [proc[c] EXCEPT !.pc = "render", !.seen = spec, !.keep = keep]
  <2>1. keep \in BOOLEAN
    OBVIOUS
  <2>2. proc' = [proc EXCEPT ![c] = p]
    BY <1>2 DEF ReadStatus, Leave
  <2> HIDE DEF keep
  <2>3. p \in ProcType /\ p.pc = "render"
    BY <2>1, Types DEF ProcType
  <2> HIDE DEF p
  <2>4. QED
    BY <1>2, <2>2, <2>3, Types, RunStep DEF ReadStatus
<1>3. CASE ReadInputs(c) /\ ~Leave(c)
  <2> DEFINE p == [proc[c] EXCEPT !.pc = "stamp", !.in = ovr, !.tmpl = Template[kernel[c]]]
  <2>1. proc' = [proc EXCEPT ![c] = p]
    BY <1>3 DEF ReadInputs, Leave
  <2>2. p \in ProcType /\ p.pc = "stamp" /\ p.tmpl \in Templates
    BY Types DEF ProcType, Templates
  <2> HIDE DEF p
  <2>3. QED
    BY <1>3, <2>1, <2>2, Types, RunStep DEF ReadInputs
<1>4. CASE Compare(c) /\ ~Leave(c)
  <2> DEFINE p == [proc[c] EXCEPT !.pc = IF spec # None /\ proc[c].keep THEN "backup" ELSE "write"]
  <2>1. proc' = [proc EXCEPT ![c] = p] /\ proc[c].pc = "compare"
    BY <1>4 DEF Compare, Leave, Goto
  <2>2. p \in ProcType /\ p.pc \in {"backup", "write"} /\ p.text = proc[c].text
    BY Types DEF ProcType
  <2>3. proc[c].text \in Specs /\ (~torn => Honest(proc[c].text))
    BY <2>1 DEF SpecIInv, Holding, StampsHonest
  <2> HIDE DEF p
  <2>4. QED
    BY <1>4, <2>1, <2>2, <2>3, Types, RunStep DEF Compare
<1>5. QED
  BY <1>1, <1>2, <1>3, <1>4

LEMMA RenderStep ==
    ASSUME SpecIInv, NEW c \in Clients, Render(c)
    PROVE  SpecIInv'
<1> DEFINE body == RenderBody(proc[c].tmpl, proc[c].in)
           st == [tmpl |-> Template[kernel[c]], ovr |-> proc[c].in, kernel |-> kernel[c], body |-> body]
           text == [stamp |-> st, body |-> body]
           p == [proc[c] EXCEPT !.pc = "compare", !.tmpl = None, !.in = None, !.text = text]
<1>1. proc[c].tmpl \in Templates /\ proc[c].in \in Overrides \cup {None}
  BY Types DEF Render, SpecIInv, Holding, ProcType
<1>2. body \in Bodies
  BY <1>1, RenderType
<1>3. text \in Specs
  BY <1>1, <1>2, Types DEF Specs, Stamps, Templates
<1>4. torn' \in BOOLEAN /\ (torn => torn') /\ (~torn' => proc[c].tmpl = Template[kernel[c]])
  BY Types DEF Render
<1>5. ~torn' => Honest(text)
  BY <1>4 DEF Honest
<1>6. proc' = [proc EXCEPT ![c] = p]
  BY DEF Render
<1> HIDE DEF text
<1>7. p \in ProcType /\ p.pc = "compare" /\ p.text = text
  BY <1>3, Types DEF ProcType
<1> HIDE DEF p
<1>8. QED
  BY <1>3, <1>4, <1>5, <1>6, <1>7, Types, RunStep DEF Render

LEMMA BackupStep ==
    ASSUME SpecIInv, NEW c \in Clients, Backup(c)
    PROVE  SpecIInv'
<1> DEFINE p == [proc[c] EXCEPT !.pc = "write", !.seen = spec]
<1>1. proc' = [proc EXCEPT ![c] = p] /\ proc[c].pc = "backup"
  BY DEF Backup
<1>2. p \in ProcType /\ p.pc = "write" /\ p.text = proc[c].text
  BY Types DEF ProcType
<1>3. proc[c].text \in Specs /\ (~torn => Honest(proc[c].text))
  BY <1>1 DEF SpecIInv, Holding, StampsHonest
<1>4. backup' \in [0..MaxSecond -> Specs \cup {None}]
  BY Types DEF Backup
<1>5. dropped' \in SUBSET (Depts \cup Prose)
  <2>1. backup[second] \in Specs \cup {None}
    BY Types DEF SpecIInv, SpecTypeOK
  <2>2. InSpec(backup[second]) \subseteq Depts \cup Prose
    BY <2>1 DEF InSpec, Specs, Bodies
  <2>3. QED
    BY <2>2, Types DEF Backup
<1> HIDE DEF p
<1>6. QED
  BY <1>1, <1>2, <1>3, <1>4, <1>5, Types, RunStep DEF Backup

\* The two steps of a run that replace a file of the owner's.
LEMMA WriteStep ==
    ASSUME SpecIInv, NEW c \in Clients, WriteCapture(c) \/ WriteSpec(c)
    PROVE  SpecIInv'
<1>1. CASE WriteCapture(c)
  <2> DEFINE p == [Idle EXCEPT !.pc = "status"]
  <2>1. p \in ProcType /\ p.pc = "status" /\ proc' = [proc EXCEPT ![c] = p]
    BY <1>1 DEF WriteCapture, Idle, ProcType
  <2> HIDE DEF p
  <2>2. \A d \in Clients : proc'[d] = IF d = c THEN p ELSE proc[d]
    BY <2>1, Types
  <2>3. ovr' \in Overrides
    BY <1>1 DEF WriteCapture, SpecIInv, Holding
  <2>4. \A o \in Overrides \cup {None} : LinesOf(o) \subseteq Depts \cup Prose
    BY DEF LinesOf, Overrides
  <2>5. SpecTypeOK'
    <3>1. proc' \in [Clients -> ProcType]
      BY <2>1, Types
    <3>2. dropped' \in SUBSET (Depts \cup Prose)
      BY <1>1, <2>4, Types DEF WriteCapture, SpecIInv, SpecTypeOK
    <3>3. UNCHANGED <<spec, backup, kernel, second, begins, edits, updates, crashes, torn>>
      BY <1>1 DEF WriteCapture
    <3>4. QED
      BY <2>3, <3>1, <3>2, <3>3 DEF SpecIInv, SpecTypeOK, ProcType
  <2>6. Holding' /\ StampsHonest'
    BY <1>1, <2>1, <2>2 DEF WriteCapture, SpecIInv, Holding, StampsHonest
  <2>7. QED
    BY <2>5, <2>6 DEF SpecIInv
<1>2. CASE WriteSpec(c)
  <2>1. spec' \in Specs /\ (~torn => Honest(spec'))
    BY <1>2 DEF WriteSpec, SpecIInv, Holding, StampsHonest
  <2>2. \A d \in Clients : proc'[d] = IF d = c THEN Idle ELSE proc[d]
    BY <1>2, Types DEF WriteSpec, Leave
  <2>3. SpecTypeOK'
    BY <1>2, <2>1, IdleType, Types DEF WriteSpec, Leave, SpecIInv, SpecTypeOK, ProcType
  <2>4. Holding' /\ StampsHonest'
    BY <1>2, <2>1, <2>2, IdleType DEF WriteSpec, SpecIInv, Holding, StampsHonest
  <2>5. QED
    BY <2>3, <2>4 DEF SpecIInv
<1>3. QED
  BY <1>1, <1>2

\* The owner's edit adds to a copy's body and leaves its stamp.
LEMMA EditedType ==
    ASSUME SpecIInv, EditSpec
    PROVE  spec' \in Specs /\ spec'.stamp = spec.stamp /\ InSpec(spec) \subseteq InSpec(spec')
<1>1. spec \in Specs /\ spec.body \in Bodies /\ spec # None
  BY DEF EditSpec, SpecIInv, SpecTypeOK, Specs
<1>2. PICK b \in Bodies : /\ spec' = [spec EXCEPT !.body = b]
                          /\ spec.body.depts \subseteq b.depts /\ spec.body.prose \subseteq b.prose
                          /\ spec.body.notes \subseteq b.notes
  <2>1. ASSUME NEW l \in OwnLines PROVE [spec.body EXCEPT !.prose = @ \cup {l}] \in Bodies
    BY <1>1 DEF Bodies, Prose
  <2>2. ASSUME NEW l \in OwnLines PROVE [spec.body EXCEPT !.notes = @ \cup {l}] \in Bodies
    BY <1>1 DEF Bodies, Prose
  <2>3. ASSUME NEW d \in OwnDepts PROVE [spec.body EXCEPT !.depts = @ \cup {d}] \in Bodies
    BY <1>1 DEF Bodies, Depts
  <2>4. CASE \E l \in OwnLines : spec' = [spec EXCEPT !.body.prose = @ \cup {l}]
    <3>1. PICK l \in OwnLines : spec' = [spec EXCEPT !.body = [spec.body EXCEPT !.prose = @ \cup {l}]]
      BY <2>4
    <3>2. QED
      BY <1>1, <2>1, <3>1 DEF Bodies
  <2>5. CASE \E l \in OwnLines : spec' = [spec EXCEPT !.body.notes = @ \cup {l}]
    <3>1. PICK l \in OwnLines : spec' = [spec EXCEPT !.body = [spec.body EXCEPT !.notes = @ \cup {l}]]
      BY <2>5
    <3>2. QED
      BY <1>1, <2>2, <3>1 DEF Bodies
  <2>6. CASE \E d \in OwnDepts : spec' = [spec EXCEPT !.body.depts = @ \cup {d}]
    <3>1. PICK d \in OwnDepts : spec' = [spec EXCEPT !.body = [spec.body EXCEPT !.depts = @ \cup {d}]]
      BY <2>6
    <3>2. QED
      BY <1>1, <2>3, <3>1 DEF Bodies
  <2>7. QED
    BY <2>4, <2>5, <2>6 DEF EditSpec
<1>3. spec' \in Specs /\ spec'.stamp = spec.stamp /\ spec'.body = b
  BY <1>1, <1>2 DEF Specs
<1>4. spec' # None
  BY <1>3, SpecAssumption
<1>5. QED
  BY <1>1, <1>2, <1>3, <1>4 DEF InSpec

\* Edits change a copy's body and not its stamp.
LEMMA ElseStep ==
    ASSUME SpecIInv, \/ EditSpec \/ EditOverrides \/ Tick
                     \/ \E c \in Clients, k \in Kernels : Update(c, k)
    PROVE  SpecIInv'
<1>1. proc' = proc /\ torn' = torn
  BY DEF EditSpec, EditOverrides, Tick, Update
<1>2. ASSUME Honest(spec) => Honest(spec'), SpecTypeOK' PROVE SpecIInv'
  <2>1. StampsHonest'
    BY <1>1, <1>2 DEF SpecIInv, StampsHonest
  <2>2. Holding'
    BY <1>1 DEF SpecIInv, Holding
  <2>3. QED
    BY <1>2, <2>1, <2>2 DEF SpecIInv
<1>3. ASSUME spec' = spec, SpecTypeOK' PROVE SpecIInv'
  BY <1>2, <1>3
<1>4. CASE EditSpec
  <2>3. spec' \in Specs /\ spec'.stamp = spec.stamp
    BY <1>4, EditedType
  <2>4. SpecTypeOK'
    BY <1>4, <2>3 DEF EditSpec, SpecIInv, SpecTypeOK
  <2>5. Honest(spec) => Honest(spec')
    BY <1>4, <2>3 DEF Honest, EditSpec
  <2>6. QED
    BY <1>2, <2>4, <2>5
<1>5. CASE EditOverrides
  <2>1. Loaded(ovr) \in Overrides
    BY DEF Loaded, NoOverrides, Overrides, SpecIInv, SpecTypeOK
  <2>2. ovr' \in Overrides
    BY <1>5, <2>1 DEF EditOverrides, Overrides, Depts, Prose
  <2>3. SpecTypeOK'
    BY <1>5, <2>2 DEF EditOverrides, SpecIInv, SpecTypeOK
  <2>4. QED
    BY <1>3, <1>5, <2>3 DEF EditOverrides
<1>6. CASE Tick
  BY <1>3, <1>6, SpecAssumption DEF Tick, SpecIInv, SpecTypeOK
<1>7. ASSUME NEW c \in Clients, NEW k \in Kernels, Update(c, k) PROVE SpecIInv'
  BY <1>3, <1>7 DEF Update, SpecIInv, SpecTypeOK
<1>8. QED
  BY <1>4, <1>5, <1>6, <1>7

LEMMA StepSpecIInv == SpecIInv /\ [SpecNext]_vars => SpecIInv'
<1> SUFFICES ASSUME SpecIInv, [SpecNext]_vars PROVE SpecIInv'
  OBVIOUS
<1>1. ASSUME NEW c \in Clients, Crash(c) PROVE SpecIInv'
  BY <1>1, LeaveStep, Types DEF Crash
<1>2. ASSUME NEW c \in Clients, Work(c) PROVE SpecIInv'
  BY <1>2, ReadStep, RenderStep, BackupStep, WriteStep DEF Work
<1>3. CASE UNCHANGED vars
  BY <1>3 DEF vars, SpecIInv, SpecTypeOK, Holding, StampsHonest, Honest
<1>4. QED
  BY <1>1, <1>2, <1>3, BeginStep, ElseStep DEF SpecNext

LEMMA SpecIInvAlways == SpecSpec => []SpecIInv
BY InitSpecIInv, StepSpecIInv, PTL DEF SpecSpec

\* The variables keep their types, whatever runs, edits and updates come between.
THEOREM SpecTypeCorrect == SpecSpec => []SpecTypeOK
<1>1. SpecIInv => SpecTypeOK
  BY DEF SpecIInv
<1>2. QED
  BY <1>1, SpecIInvAlways, PTL

\* "current" is the truth: the copy is what the installed template and the overrides render
\* to, and validate_registry.py reads those departments in it, unless a kernel update came
\* between the two reads of a template (materialize_registration_spec.py:169-186, :280).
THEOREM CurrentIsRendered == SpecSpec => []CurrentIsRender
<1>1. ASSUME SpecIInv, NEW c \in Clients, Status(c) = "current", ~torn
      PROVE  /\ spec.body = RenderBody(Template[kernel[c]], ovr)
             /\ Departments(c) \in {Template[kernel[c]].depts \cup Loaded(ovr).extra, None}
  <2>1. spec # None /\ ~HandEdited(spec, c)
    BY <1>1 DEF Status
  <2>2. spec.stamp.tmpl = Template[kernel[c]] /\ spec.stamp.ovr = ovr
    BY <1>1, <2>1 DEF Status
  <2>3. spec.body = RenderBody(Template[kernel[c]], ovr)
    <3>1. CASE spec.stamp.body = None
      BY <2>1, <2>2, <3>1 DEF HandEdited, InputsCurrent
    <3>2. CASE spec.stamp.body # None
      BY <1>1, <2>1, <2>2, <3>2 DEF HandEdited, SpecIInv, StampsHonest, Honest
    <3>3. QED
      BY <3>1, <3>2
  <2>4. /\ spec.body.depts = Template[kernel[c]].depts \cup Loaded(ovr).extra
        /\ spec.body.prose = Template[kernel[c]].prose
    BY <2>3 DEF RenderBody
  <2>5. HasEnums(spec.body) <=> EnumLine \in Template[kernel[c]].prose
    BY <2>4 DEF HasEnums
  <2>6. find_spec(c) = spec.body
    BY <2>1, <2>5 DEF find_spec, HasEnums
  <2>7. QED
    BY <2>3, <2>4, <2>6 DEF Departments
<1>2. SpecIInv => CurrentIsRender
  BY <1>1 DEF CurrentIsRender
<1>3. QED
  BY <1>2, SpecIInvAlways, PTL

-----------------------------------------------------------------------------
(* Where what the owner wrote can be found again.                          *)

Own == OwnLines \cup OwnDepts

Entries(body) == body.depts \cup body.prose \cup body.notes

\* A line of the overrides stays in them, but for a capture.
Somewhere == LinesOf(ovr) \cup dropped

Elsewhere == Somewhere \cup UNION {InSpec(backup[s]) : s \in 0..MaxSecond}

\* The overrides a copy was rendered from are accounted for, and so is what the owner wrote
\* in the body that was rendered.
StampedIn(s, where) ==
    s # None /\ s.stamp # None =>
        /\ LinesOf(s.stamp.ovr) \subseteq where
        /\ s.stamp.body # None => Entries(s.stamp.body) \cap Own \subseteq LinesOf(s.stamp.ovr)

\* A run that keeps no backup read a copy with nothing of the owner's but the overrides; one
\* about to write has backed up whatever else the copy had.
Accounted(c) ==
    /\ proc[c].pc \in {"compare", "backup", "write"} => StampedIn(proc[c].text, Somewhere)
    /\ proc[c].pc = "stamp" => LinesOf(proc[c].in) \subseteq Somewhere
    /\ proc[c].pc \in {"render", "stamp", "compare"} =>
          IF proc[c].keep THEN spec # None
          ELSE InSpec(proc[c].seen) \cap Own \subseteq Somewhere
    /\ proc[c].pc = "write" => InSpec(proc[c].seen) \cap Own \subseteq Elsewhere

CanonIInv == SpecIInv /\ StampedIn(spec, Somewhere) /\ \A c \in Clients : Accounted(c)

LEMMA InitCanonIInv == SpecInit => CanonIInv
<1> SUFFICES ASSUME SpecInit PROVE CanonIInv
  OBVIOUS
<1>1. SpecIInv
  BY InitSpecIInv
<1>2. \A c \in Clients : Accounted(c)
  BY DEF SpecInit, Accounted, Idle
<1>3. spec \in Specs \cup {None} /\ Honest(spec) /\ (spec # None /\ spec.stamp # None => spec.stamp.ovr = None)
  BY InitAssumption DEF SpecInit
<1>4. ASSUME spec # None, spec.stamp # None PROVE StampedIn(spec, Somewhere)
  <2>1. spec.stamp.ovr = None /\ spec.stamp.tmpl \in Templates /\ LinesOf(None) = {}
    BY <1>3, <1>4 DEF Specs, Stamps, Templates, LinesOf
  <2>2. spec.stamp.body # None => spec.stamp.body = RenderBody(spec.stamp.tmpl, None)
    BY <1>3, <1>4, <2>1 DEF Honest
  <2>3. Entries(RenderBody(spec.stamp.tmpl, None)) \cap Own = {}
    BY <2>1, SpecAssumption DEF Entries, RenderBody, Loaded, NoOverrides, Own, Templates
  <2>4. QED
    BY <2>1, <2>2, <2>3 DEF StampedIn
<1>5. QED
  BY <1>1, <1>2, <1>4 DEF CanonIInv, StampedIn

\* What a copy is rendered to has nothing of the owner's but the overrides.
LEMMA RenderOwn ==
    ASSUME NEW tmpl \in Templates, NEW o
    PROVE  Entries(RenderBody(tmpl, o)) \cap Own \subseteq LinesOf(o)
BY SpecAssumption DEF Entries, RenderBody, Loaded, NoOverrides, LinesOf, Own, Templates

LEMMA StampedMore ==
    ASSUME NEW s, NEW v, NEW w, v \subseteq w, StampedIn(s, v)
    PROVE  StampedIn(s, w)
BY DEF StampedIn

\* No step makes the accounts shorter.
LEMMA AccountsGrow ==
    ASSUME SpecIInv, [SpecNext]_vars
    PROVE  Somewhere \subseteq Somewhere' /\ Elsewhere \subseteq Elsewhere'
<1> DEFINE kept == UNION {InSpec(backup[s]) : s \in 0..MaxSecond}
<1>1. CASE \E c \in Clients : WriteCapture(c)
  <2>1. PICK c \in Clients : WriteCapture(c)
    BY <1>1
  <2>2. dropped' = dropped \cup (LinesOf(ovr) \ LinesOf(ovr')) /\ backup' = backup
    BY <2>1 DEF WriteCapture
  <2>3. QED
    BY <2>2 DEF Somewhere, Elsewhere
<1>2. CASE \E c \in Clients : Backup(c)
  <2>1. PICK c \in Clients : Backup(c)
    BY <1>2
  <2>2. /\ ovr' = ovr /\ dropped' = dropped \cup (InSpec(backup[second]) \ InSpec(spec))
        /\ backup' = [backup EXCEPT ![second] = spec]
    BY <2>1 DEF Backup
  <2>3. second \in 0..MaxSecond /\ backup \in [0..MaxSecond -> Specs \cup {None}]
    BY DEF SpecIInv, SpecTypeOK
  <2>4. InSpec(backup'[second]) = InSpec(spec)
        /\ \A s \in (0..MaxSecond) \ {second} : InSpec(backup'[s]) = InSpec(backup[s])
    BY <2>2, <2>3
  <2>5. kept \subseteq kept' \cup dropped'
    BY <2>2, <2>3, <2>4
  <2> HIDE DEF kept
  <2>6. Somewhere \subseteq Somewhere'
    BY <2>2 DEF Somewhere
  <2>7. QED
    BY <2>5, <2>6 DEF Elsewhere, Somewhere, kept
<1>3. CASE EditOverrides
  <2>1. /\ ovr' # None /\ Loaded(ovr).extra \subseteq ovr'.extra /\ Loaded(ovr).notes \subseteq ovr'.notes
    <3>1. Loaded(ovr) \in Overrides
      BY DEF Loaded, NoOverrides, Overrides, SpecIInv, SpecTypeOK
    <3>2. \/ \E l \in OwnLines : ovr' = [Loaded(ovr) EXCEPT !.notes = @ \cup {l}]
          \/ \E d \in OwnDepts : ovr' = [Loaded(ovr) EXCEPT !.extra = @ \cup {d}]
      BY <1>3 DEF EditOverrides
    <3>3. ovr' \in Overrides
      BY <3>1, <3>2 DEF Overrides, Depts, Prose
    <3>4. QED
      BY <3>1, <3>2, <3>3, SpecAssumption DEF Overrides
  <2>2. LinesOf(ovr) \subseteq LinesOf(ovr')
    BY <2>1 DEF LinesOf, Loaded
  <2>3. dropped' = dropped /\ backup' = backup
    BY <1>3 DEF EditOverrides
  <2>4. QED
    BY <2>2, <2>3 DEF Somewhere, Elsewhere
<1>4. CASE UNCHANGED <<ovr, dropped, backup>>
  BY <1>4 DEF Somewhere, Elsewhere
<1>5. QED
  BY <1>1, <1>2, <1>3, <1>4 DEF SpecNext, vars, Begin, BeginWrite, BeginCapture, Work, ReadStatus,
     ReadInputs, Render, Compare, WriteSpec, Crash, Update, Tick, EditSpec

\* A run at rest keeps its accounts while others make theirs longer, and no step takes the
\* copy away.
LEMMA OthersAccounted ==
    ASSUME NEW c \in Clients, Accounted(c), proc'[c] = proc[c], spec # None => spec' # None,
           Somewhere \subseteq Somewhere', Elsewhere \subseteq Elsewhere'
    PROVE  Accounted(c)'
<1>1. StampedIn(proc[c].text, Somewhere) => StampedIn(proc[c].text, Somewhere')
  BY StampedMore
<1>2. QED
  BY <1>1 DEF Accounted

\* A run that stays or leaves where it owes nothing has its accounts.
LEMMA OwesNothing ==
    ASSUME NEW c \in Clients, proc'[c].pc \in {"idle", "capture", "status"}
    PROVE  Accounted(c)'
BY DEF Accounted

LEMMA CopyStays ==
    ASSUME SpecIInv, [SpecNext]_vars, spec # None
    PROVE  spec' # None
<1>1. ASSUME NEW c \in Clients, WriteSpec(c) PROVE spec' # None
  BY <1>1, SpecAssumption DEF WriteSpec, SpecIInv, Holding
<1>2. CASE EditSpec
  BY <1>2, EditedType, SpecAssumption
<1>3. CASE spec' = spec
  BY <1>3
<1>4. QED
  BY <1>1, <1>2, <1>3 DEF SpecNext, vars, Begin, BeginWrite, BeginCapture, Work, WriteCapture,
     ReadStatus, ReadInputs, Render, Compare, Backup, Crash, Update, Tick, EditOverrides

\* A copy the run need not keep has nothing of the owner's but the overrides.
LEMMA UnkeptIsAccounted ==
    ASSUME CanonIInv, NEW c \in Clients, spec # None, ~HandEdited(spec, c), ~Unverifiable(spec, c)
    PROVE  InSpec(spec) \cap Own \subseteq Somewhere
<1>1. /\ spec.stamp # None /\ InSpec(spec) = Entries(spec.body)
      /\ StampedIn(spec, Somewhere)
  BY DEF HandEdited, InSpec, Entries, CanonIInv
<1>2. CASE spec.stamp.body # None
  BY <1>1, <1>2 DEF HandEdited, StampedIn
<1>3. CASE spec.stamp.body = None
  <2>1. spec.body = RenderBody(Template[kernel[c]], ovr)
    BY <1>1, <1>3 DEF HandEdited, Unverifiable
  <2>2. Template[kernel[c]] \in Templates
    BY Types DEF CanonIInv
  <2>3. QED
    BY <1>1, <2>1, <2>2, RenderOwn DEF Somewhere
<1>4. QED
  BY <1>2, <1>3

\* A step of a run settles what the run owes.
LEMMA RunStaysAccounted ==
    ASSUME CanonIInv, NEW c \in Clients, Begin(c) \/ Work(c) \/ Crash(c), [SpecNext]_vars
    PROVE  Accounted(c)'
<1>1. /\ SpecIInv /\ Accounted(c) /\ proc[c] \in ProcType /\ proc \in [Clients -> ProcType]
      /\ Somewhere \subseteq Somewhere' /\ Elsewhere \subseteq Elsewhere'
  BY Types, AccountsGrow DEF CanonIInv
<1>2. CASE Begin(c) \/ Crash(c) \/ Leave(c) \/ WriteCapture(c) \/ WriteSpec(c)
  <2>1. proc'[c].pc \in {"idle", "capture", "status"}
    <3>1. CASE BeginWrite(c)
      BY <1>1, <3>1 DEF BeginWrite, Goto, ProcType
    <3>2. ASSUME NEW force \in BOOLEAN, BeginCapture(c, force) PROVE proc'[c].pc = "capture"
      <4>1. \E cap : proc' = [proc EXCEPT ![c] = [Idle EXCEPT !.pc = "capture", !.cap = cap]]
        BY <3>2 DEF BeginCapture
      <4>2. QED
        BY <1>1, <4>1 DEF Idle
    <3>3. CASE WriteCapture(c)
      BY <1>1, <3>3 DEF WriteCapture, Idle
    <3>4. CASE Crash(c) \/ Leave(c) \/ WriteSpec(c)
      BY <1>1, <3>4 DEF Crash, Leave, WriteSpec, Idle
    <3>5. QED
      BY <1>2, <3>1, <3>2, <3>3, <3>4 DEF Begin
  <2>2. QED
    BY <2>1, OwesNothing
<1>3. CASE ReadStatus(c) /\ ~Leave(c)
  <2>1. /\ proc' = [proc EXCEPT ![c].pc = "render", ![c].seen = spec, ![c].keep =
                       spec # None /\ (HandEdited(spec, c) \/ Unverifiable(spec, c))]
        /\ spec' = spec
    BY <1>3 DEF ReadStatus
  <2>2. /\ proc'[c].pc = "render" /\ proc'[c].seen = spec
        /\ proc'[c].keep <=> spec # None /\ (HandEdited(spec, c) \/ Unverifiable(spec, c))
    BY <1>1, <2>1 DEF ProcType
  <2>3. ASSUME ~proc'[c].keep PROVE InSpec(spec) \cap Own \subseteq Somewhere
    <3>1. CASE spec = None
      BY <3>1 DEF InSpec
    <3>2. CASE spec # None
      BY <2>2, <2>3, <3>2, UnkeptIsAccounted
    <3>3. QED
      BY <3>1, <3>2
  <2>4. QED
    BY <1>1, <2>1, <2>2, <2>3 DEF Accounted
<1>4. CASE ReadInputs(c) /\ ~Leave(c)
  <2>1. /\ proc' = [proc EXCEPT ![c].pc = "stamp", ![c].in = ovr, ![c].tmpl = Template[kernel[c]]]
        /\ spec' = spec /\ proc[c].pc = "render"
    BY <1>4 DEF ReadInputs
  <2>2. /\ proc'[c].pc = "stamp" /\ proc'[c].in = ovr /\ proc'[c].keep = proc[c].keep
        /\ proc'[c].seen = proc[c].seen
    BY <1>1, <2>1 DEF ProcType
  <2>3. LinesOf(ovr) \subseteq Somewhere'
    BY <1>1 DEF Somewhere
  <2>4. QED
    BY <1>1, <2>1, <2>2, <2>3 DEF Accounted
<1>5. CASE Render(c)
  <2> DEFINE body == RenderBody(proc[c].tmpl, proc[c].in)
             txt == [stamp |-> [tmpl |-> Template[kernel[c]], ovr |-> proc[c].in,
                                kernel |-> kernel[c], body |-> body], body |-> body]
  <2>1. /\ proc' = [proc EXCEPT ![c].pc = "compare", ![c].tmpl = None, ![c].in = None, ![c].text = txt]
        /\ spec' = spec /\ proc[c].pc = "stamp"
    BY <1>5 DEF Render
  <2>2. /\ proc'[c].pc = "compare" /\ proc'[c].text = txt /\ proc'[c].keep = proc[c].keep
        /\ proc'[c].seen = proc[c].seen
    <3> HIDE DEF txt
    <3>1. QED
      BY <1>1, <2>1 DEF ProcType
  <2>3. LinesOf(proc[c].in) \subseteq Somewhere' /\ proc[c].tmpl \in Templates
    BY <1>1, <2>1 DEF Accounted, SpecIInv, Holding
  <2>4. Entries(body) \cap Own \subseteq LinesOf(proc[c].in)
    BY <2>3, RenderOwn
  <2>5. StampedIn(txt, Somewhere')
    <3> HIDE DEF body
    <3>1. QED
      BY <2>3, <2>4 DEF StampedIn
  <2> HIDE DEF txt
  <2>6. QED
    BY <1>1, <2>1, <2>2, <2>5 DEF Accounted
<1>6. CASE Compare(c) /\ ~Leave(c)
  <2>1. /\ proc' = [proc EXCEPT ![c].pc = IF spec # None /\ proc[c].keep THEN "backup" ELSE "write"]
        /\ spec' = spec /\ proc[c].pc = "compare"
    BY <1>6 DEF Compare, Goto
  <2>2. /\ proc'[c].pc = IF spec # None /\ proc[c].keep THEN "backup" ELSE "write"
        /\ proc'[c].text = proc[c].text /\ proc'[c].seen = proc[c].seen
    BY <1>1, <2>1 DEF ProcType
  <2>3. StampedIn(proc[c].text, Somewhere')
    BY <1>1, <2>1, StampedMore DEF Accounted
  <2>4. CASE proc[c].keep
    BY <1>1, <2>1, <2>2, <2>3, <2>4 DEF Accounted
  <2>5. CASE ~proc[c].keep
    <3>1. InSpec(proc[c].seen) \cap Own \subseteq Elsewhere'
      BY <1>1, <2>1, <2>5 DEF Accounted, Elsewhere
    <3>2. QED
      BY <2>2, <2>3, <2>5, <3>1 DEF Accounted
  <2>6. QED
    BY <2>4, <2>5
<1>7. CASE Backup(c)
  <2>1. /\ proc' = [proc EXCEPT ![c].pc = "write", ![c].seen = spec] /\ proc[c].pc = "backup"
        /\ backup' = [backup EXCEPT ![second] = spec] /\ spec' = spec
    BY <1>7 DEF Backup
  <2>2. proc'[c].pc = "write" /\ proc'[c].seen = spec /\ proc'[c].text = proc[c].text
    BY <1>1, <2>1 DEF ProcType
  <2>3. StampedIn(proc[c].text, Somewhere')
    BY <1>1, <2>1, StampedMore DEF Accounted
  <2>4. second \in 0..MaxSecond /\ backup'[second] = spec
    BY <1>1, <2>1 DEF SpecIInv, SpecTypeOK
  <2>5. InSpec(spec) \subseteq Elsewhere'
    BY <2>4 DEF Elsewhere
  <2>6. QED
    BY <2>2, <2>3, <2>5 DEF Accounted
<1>8. QED
  BY <1>2, <1>3, <1>4, <1>5, <1>6, <1>7 DEF Work

LEMMA StepCanonIInv == CanonIInv /\ [SpecNext]_vars => CanonIInv'
<1> SUFFICES ASSUME CanonIInv, [SpecNext]_vars PROVE CanonIInv'
  OBVIOUS
<1>1. /\ SpecIInv /\ SpecIInv' /\ proc \in [Clients -> ProcType]
      /\ Somewhere \subseteq Somewhere' /\ Elsewhere \subseteq Elsewhere'
  BY StepSpecIInv, AccountsGrow DEF CanonIInv, SpecIInv, SpecTypeOK, ProcType
<1>2. ASSUME NEW d \in Clients, proc'[d] = proc[d] PROVE Accounted(d)'
  BY <1>1, <1>2, OthersAccounted, CopyStays DEF CanonIInv
<1>3. \A d \in Clients : Accounted(d)'
  <2>1. CASE proc' = proc
    BY <1>2, <2>1
  <2>2. ASSUME NEW c \in Clients, Begin(c) \/ Work(c) \/ Crash(c) PROVE \A d \in Clients : Accounted(d)'
    <3>1. \A d \in Clients \ {c} : proc'[d] = proc[d]
      BY <1>1, <2>2 DEF Begin, BeginWrite, BeginCapture, Goto, Crash, Leave, Work, WriteCapture,
         ReadStatus, ReadInputs, Render, Compare, Backup, WriteSpec
    <3>2. Accounted(c)'
      BY <2>2, RunStaysAccounted
    <3>3. QED
      BY <1>2, <3>1, <3>2
  <2>3. QED
    BY <2>1, <2>2 DEF SpecNext, vars, Update, Tick, EditSpec, EditOverrides
<1>4. StampedIn(spec', Somewhere')
  <2>1. CASE spec' = spec
    BY <1>1, <2>1, StampedMore DEF CanonIInv
  <2>2. CASE EditSpec
    <3>1. spec # None /\ spec' # None /\ spec'.stamp = spec.stamp
      BY <1>1, <2>2, EditedType, SpecAssumption DEF EditSpec
    <3>2. StampedIn(spec, Somewhere')
      BY <1>1, StampedMore DEF CanonIInv
    <3>3. QED
      BY <3>1, <3>2 DEF StampedIn
  <2>3. ASSUME NEW c \in Clients, WriteSpec(c) PROVE StampedIn(spec', Somewhere')
    <3>1. spec' = proc[c].text /\ StampedIn(proc[c].text, Somewhere)
      BY <2>3 DEF WriteSpec, CanonIInv, Accounted
    <3>2. QED
      BY <1>1, <3>1, StampedMore
  <2>4. QED
    BY <2>1, <2>2, <2>3 DEF SpecNext, vars, Begin, BeginWrite, BeginCapture, Work, WriteCapture,
       ReadStatus, ReadInputs, Render, Compare, Backup, Crash, Update, Tick, EditOverrides
<1>5. QED
  BY <1>1, <1>3, <1>4 DEF CanonIInv

LEMMA CanonIInvAlways == SpecSpec => []CanonIInv
BY InitCanonIInv, StepCanonIInv, PTL DEF SpecSpec

\* "Never clobber owner canon" (materialize_registration_spec.py:276): through runs of any
\* clients, captures, edits, crashes and kernel updates, what the owner wrote leaves the copy,
\* the overrides and the backups only where a capture replaces overrides it did not read, a
\* backup one of the same second, or a run a copy saved after it read it.
THEOREM CanonIsKept == SpecSpec => CanonLostOnly
<1> DEFINE Lost == \A l \in OwnerCanon \ OwnerCanon' :
              l \in dropped' \/ \E c \in Clients : proc[c].pc = "write" /\ spec # proc[c].seen
<1>1. ASSUME CanonIInv, [SpecNext]_vars PROVE Lost
  <2> SUFFICES ASSUME NEW l \in OwnerCanon, l \notin OwnerCanon', l \notin dropped',
                      \A c \in Clients : proc[c].pc = "write" => spec = proc[c].seen
               PROVE  FALSE
    OBVIOUS
  <2>1. l \in Own /\ l \in InSpec(spec) \cup Elsewhere
    BY DEF OwnerCanon, Own, Elsewhere, Somewhere, LinesOf, Loaded, NoOverrides
  <2>2. l \notin InSpec(spec') /\ l \notin Elsewhere'
    BY <2>1 DEF OwnerCanon, Own, Elsewhere, Somewhere, LinesOf, Loaded
  <2>3. l \in InSpec(spec) /\ l \notin Elsewhere
    BY <1>1, <2>1, <2>2, AccountsGrow DEF CanonIInv
  <2>4. PICK c \in Clients : WriteSpec(c)
    <3>1. ~EditSpec
      BY <1>1, <2>2, <2>3, EditedType DEF CanonIInv
    <3>2. spec' # spec
      BY <2>2, <2>3
    <3>3. QED
      BY <1>1, <3>1, <3>2 DEF SpecNext, vars, Begin, BeginWrite, BeginCapture, Work, WriteCapture,
         ReadStatus, ReadInputs, Render, Compare, Backup, Crash, Update, Tick, EditOverrides
  <2>5. InSpec(proc[c].seen) \cap Own \subseteq Elsewhere /\ spec = proc[c].seen
    BY <1>1, <2>4 DEF CanonIInv, Accounted, WriteSpec
  <2>6. QED
    BY <2>1, <2>3, <2>5
<1>2. CanonIInv /\ [SpecNext]_vars => [Lost]_vars
  BY <1>1
<1>3. QED
  BY <1>2, CanonIInvAlways, PTL DEF SpecSpec, CanonLostOnly
=============================================================================
