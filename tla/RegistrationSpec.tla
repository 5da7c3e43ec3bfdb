-------------------------- MODULE RegistrationSpec --------------------------
(***************************************************************************)
(* tools/materialize_registration_spec.py: the campus's registration spec  *)
(* is rendered from the kernel's template and the owner's overrides, and a *)
(* stamp records both and the body it was rendered to.  A run reads its    *)
(* inputs one after the other; the owner, another client and a kernel      *)
(* update may come between any two of its reads and writes.                *)
(***************************************************************************)
EXTENDS Integers, FiniteSets

CONSTANTS Clients,       \* sessions that may run the materializer
          Healers,       \* those whose owner says "refresh the spec" when told to
          Kernels,       \* kernel versions
          Template,      \* kernel -> [depts, prose] of its template
          Installed,     \* client -> the kernel it starts with
          OwnDepts,      \* departments the owner may add
          BadDepts,      \* those that are no kebab-case id
          OwnLines,      \* lines the owner may write
          EnumLine,      \* the line of a template that lists types and statuses
          InitSpecs,     \* campus copies a campus may start with
          None,
          MaxBegins, MaxEdits, MaxUpdates, MaxCrashes, MaxSecond

Depts == OwnDepts \cup UNION {Template[k].depts : k \in Kernels}
Prose == OwnLines \cup UNION {Template[k].prose : k \in Kernels}

Bodies == [depts : SUBSET Depts, prose : SUBSET Prose, notes : SUBSET Prose]

Overrides == [extra : SUBSET Depts, notes : SUBSET Prose]

(* A hash is the value hashed; body is None in a stamp before 5.2.18.      *)
Stamps == [tmpl : {Template[k] : k \in Kernels}, ovr : Overrides \cup {None},
           kernel : Kernels, body : Bodies \cup {None}]

Specs == [stamp : Stamps \cup {None}, body : Bodies]

ASSUME SpecAssumption ==
    /\ Healers \subseteq Clients /\ BadDepts \subseteq OwnDepts
    /\ Installed \in [Clients -> Kernels] /\ None \notin Overrides \cup Specs
    /\ \A k \in Kernels :
          (Template[k].depts \cup Template[k].prose) \cap (OwnDepts \cup OwnLines) = {}
    /\ {MaxBegins, MaxEdits, MaxUpdates, MaxCrashes, MaxSecond} \subseteq Nat

VARIABLES spec,      \* .campus-os/registration-block-spec.md, or None
          ovr,       \* .campus-os/registration-overrides.json, or None
          backup,    \* second of the name -> the copy kept under it, or None
          kernel,    \* client -> kernel installed
          second,    \* the UTC second
          proc,      \* client -> the run under way
          begins, edits, updates, crashes,
          (* History, read by no action:                                   *)
          torn,      \* a run stamped a template it had not rendered
          dropped    \* what captures dropped from overrides they replaced,
                     \* and backups from a backup of the same second
vars == <<spec, ovr, backup, kernel, second, proc, begins, edits, updates, crashes, torn, dropped>>

(* keep: the copy must be backed up; seen: the copy last read to decide    *)
(* what may be replaced (never read by the run).                           *)
Idle == [pc |-> "idle", cap |-> None, keep |-> FALSE, seen |-> None,
         tmpl |-> None, in |-> None, text |-> None]

SpecInit ==
    /\ spec \in InitSpecs /\ ovr = None
    /\ backup = [s \in 0..MaxSecond |-> None]
    /\ kernel = Installed /\ second = 0
    /\ proc = [c \in Clients |-> Idle]
    /\ begins = [c \in Clients |-> 0]
    /\ edits = 0 /\ updates = 0 /\ crashes = 0 /\ torn = FALSE /\ dropped = {}

-----------------------------------------------------------------------------
NoOverrides == [extra |-> {}, notes |-> {}]

LinesOf(o) == IF o = None THEN {} ELSE o.extra \cup o.notes

Loaded(o) == IF o = None THEN NoOverrides ELSE o

(* load_overrides exits 2 on a department that is no kebab-case id.        *)
Valid(o) == Loaded(o).extra \cap BadDepts = {}

RenderBody(tmpl, o) == [depts |-> tmpl.depts \cup Loaded(o).extra, prose |-> tmpl.prose,
                        notes |-> Loaded(o).notes]

(* A copy with the hash of a body has that of what its stamp renders to.   *)
Honest(s) == s # None /\ s.stamp # None /\ s.stamp.body # None =>
                s.stamp.body = RenderBody(s.stamp.tmpl, s.stamp.ovr)

(* Without overrides, no copy of the campus was rendered from any.         *)
ASSUME InitAssumption ==
    \A s \in InitSpecs : /\ s \in Specs \cup {None} /\ Honest(s)
                         /\ s # None /\ s.stamp # None => s.stamp.ovr = None

InputsCurrent(st, c) == st.tmpl = Template[kernel[c]] /\ st.ovr = ovr

(* Mutant: a stamp without a body hash is taken at its word.              *)
NeverUnverifiable(s, c) == FALSE

Unverifiable(s, c) == s.stamp # None /\ s.stamp.body = None /\ ~InputsCurrent(s.stamp, c)

(* Mutants: the stamp alone is looked at; the copy is compared with the    *)
(* bare template.                                                          *)
Unstamped(s, c) == s.stamp = None

DiffersFromTemplate(s, c) == s.stamp = None \/ s.body # RenderBody(Template[kernel[c]], None)

HandEdited(s, c) ==
    \/ s.stamp = None
    \/ s.stamp.body # None /\ s.body # s.stamp.body
    \/ s.stamp.body = None /\ InputsCurrent(s.stamp, c)
         /\ s.body # RenderBody(Template[kernel[c]], ovr)

Status(c) ==
    CASE spec = None -> "missing"
      [] spec # None /\ HandEdited(spec, c) -> "hand-edited"
      [] spec # None /\ ~HandEdited(spec, c) ->
            IF spec.stamp.tmpl # Template[kernel[c]] THEN "stale-template"
            ELSE IF spec.stamp.ovr # ovr THEN "overrides-drift" ELSE "current"

(* capture: the enum values and the lines that are not the template's.     *)
Capture(s, tmpl) ==
    [extra |-> (s.body.depts \ tmpl.depts) \ BadDepts,
     notes |-> (s.body.prose \ tmpl.prose) \cup s.body.notes]

(* validate_registry.py: the departments of the campus's copy, unless it   *)
(* predates the types and statuses and this kernel's template does not;    *)
(* None when there is no spec, or not one with such a line.                *)
HasEnums(body) == EnumLine \in body.prose

find_spec(c) ==
    IF spec # None /\ (HasEnums(spec.body) \/ ~HasEnums(Template[kernel[c]])) THEN spec.body
    ELSE RenderBody(Template[kernel[c]], None)

Departments(c) == IF HasEnums(find_spec(c)) THEN find_spec(c).depts ELSE None

-----------------------------------------------------------------------------
Goto(c, pc) == proc' = [proc EXCEPT ![c].pc = pc]

Leave(c) == proc' = [proc EXCEPT ![c] = Idle]

MayBegin(c) == /\ proc[c].pc = "idle"
               /\ IF c \in Healers THEN Status(c) # "current" /\ UNCHANGED begins
                  ELSE begins[c] < MaxBegins /\ begins' = [begins EXCEPT ![c] = @ + 1]

(* A healer captures when it was refused, and only then.                   *)
BeginWrite(c) ==
    /\ MayBegin(c)
    /\ c \in Healers => ~(Status(c) = "hand-edited" /\ ovr = None)
    /\ Goto(c, "status")
    /\ UNCHANGED <<spec, ovr, backup, kernel, second, edits, updates, crashes, torn, dropped>>

BeginCapture(c, force) ==
    /\ MayBegin(c)
    /\ c \in Healers => Status(c) = "hand-edited" /\ ~force
    /\ spec # None /\ (ovr # None => force)
    /\ proc' = [proc EXCEPT ![c] = [Idle EXCEPT !.pc = "capture", !.cap =
                                    Capture(spec, Template[kernel[c]])]]
    /\ UNCHANGED <<spec, ovr, backup, kernel, second, edits, updates, crashes, torn, dropped>>

WriteCapture(c) ==
    /\ proc[c].pc = "capture"
    /\ ovr' = proc[c].cap
    /\ dropped' = dropped \cup (LinesOf(ovr) \ LinesOf(proc[c].cap))
    /\ proc' = [proc EXCEPT ![c] = [Idle EXCEPT !.pc = "status"]]
    /\ UNCHANGED <<spec, backup, kernel, second, begins, edits, updates, crashes, torn>>

(* The copy is classified; a hand-edited one with no overrides is refused. *)
ReadStatus(c) ==
    /\ proc[c].pc = "status"
    /\ IF ~Valid(ovr) \/ (Status(c) = "hand-edited" /\ ovr = None)
       THEN Leave(c)
       ELSE proc' = [proc EXCEPT ![c].pc = "render", ![c].seen = spec,
                        ![c].keep = spec # None /\ (HandEdited(spec, c) \/ Unverifiable(spec, c))]
    /\ UNCHANGED <<spec, ovr, backup, kernel, second, begins, edits, updates, crashes, torn, dropped>>

(* The overrides are loaded again, the template is read for its text ...   *)
ReadInputs(c) ==
    /\ proc[c].pc = "render"
    /\ IF Valid(ovr)
       THEN proc' = [proc EXCEPT ![c].pc = "stamp", ![c].in = ovr,
                                 ![c].tmpl = Template[kernel[c]]]
       ELSE Leave(c)
    /\ UNCHANGED <<spec, ovr, backup, kernel, second, begins, edits, updates, crashes, torn, dropped>>

(* ... and a second time for its hash.                                     *)
Render(c) ==
    /\ proc[c].pc = "stamp"
    /\ LET body == RenderBody(proc[c].tmpl, proc[c].in)
       IN  proc' = [proc EXCEPT ![c].pc = "compare", ![c].tmpl = None, ![c].in = None, ![c].text =
                      [stamp |-> [tmpl |-> Template[kernel[c]], ovr |-> proc[c].in,
                                  kernel |-> kernel[c], body |-> body], body |-> body]]
    /\ torn' = (torn \/ proc[c].tmpl # Template[kernel[c]])
    /\ UNCHANGED <<spec, ovr, backup, kernel, second, begins, edits, updates, crashes, dropped>>

(* Nothing is written when only the generated= time would change.          *)
Compare(c) ==
    /\ proc[c].pc = "compare"
    /\ IF spec = proc[c].text THEN Leave(c)
       ELSE Goto(c, IF spec # None /\ proc[c].keep THEN "backup" ELSE "write")
    /\ UNCHANGED <<spec, ovr, backup, kernel, second, begins, edits, updates, crashes, torn, dropped>>

InSpec(s) == IF s = None THEN {} ELSE s.body.depts \cup s.body.prose \cup s.body.notes

(* The copy is read once more and kept under the name of this second.      *)
Backup(c) ==
    /\ proc[c].pc = "backup"
    /\ backup' = [backup EXCEPT ![second] = spec]
    /\ proc' = [proc EXCEPT ![c].pc = "write", ![c].seen = spec]
    /\ dropped' = dropped \cup (InSpec(backup[second]) \ InSpec(spec))
    /\ UNCHANGED <<spec, ovr, kernel, second, begins, edits, updates, crashes, torn>>

WriteSpec(c) ==
    /\ proc[c].pc = "write"
    /\ spec' = proc[c].text
    /\ Leave(c)
    /\ UNCHANGED <<ovr, backup, kernel, second, begins, edits, updates, crashes, torn, dropped>>

(* safe_write renames a private temporary file: a crash leaves the files.  *)
Crash(c) ==
    /\ proc[c].pc # "idle" /\ crashes < MaxCrashes
    /\ crashes' = crashes + 1
    /\ Leave(c)
    /\ UNCHANGED <<spec, ovr, backup, kernel, second, begins, edits, updates, torn, dropped>>

Update(c, k) ==
    /\ updates < MaxUpdates /\ k # kernel[c]
    /\ updates' = updates + 1
    /\ kernel' = [kernel EXCEPT ![c] = k]
    /\ UNCHANGED <<spec, ovr, backup, second, proc, begins, edits, crashes, torn, dropped>>

Tick ==
    /\ second < MaxSecond
    /\ second' = second + 1
    /\ UNCHANGED <<spec, ovr, backup, kernel, proc, begins, edits, updates, crashes, torn, dropped>>

(* The owner adds a line or a department to the copy; a line added at its  *)
(* end is under the notes heading when there is one.                       *)
EditSpec ==
    /\ edits < MaxEdits /\ edits' = edits + 1 /\ spec # None
    /\ \/ \E l \in OwnLines : spec' = [spec EXCEPT !.body.prose = @ \cup {l}]
       \/ spec.body.notes # {} /\ \E l \in OwnLines : spec' = [spec EXCEPT !.body.notes = @ \cup {l}]
       \/ \E d \in OwnDepts : spec' = [spec EXCEPT !.body.depts = @ \cup {d}]
    /\ UNCHANGED <<ovr, backup, kernel, second, proc, begins, updates, crashes, torn, dropped>>

EditOverrides ==
    /\ edits < MaxEdits /\ edits' = edits + 1
    /\ \/ \E l \in OwnLines : ovr' = [Loaded(ovr) EXCEPT !.notes = @ \cup {l}]
       \/ \E d \in OwnDepts : ovr' = [Loaded(ovr) EXCEPT !.extra = @ \cup {d}]
    /\ UNCHANGED <<spec, backup, kernel, second, proc, begins, updates, crashes, torn, dropped>>

Begin(c) == BeginWrite(c) \/ \E force \in BOOLEAN : BeginCapture(c, force)

Work(c) == \/ WriteCapture(c) \/ ReadStatus(c) \/ ReadInputs(c) \/ Render(c) \/ Compare(c)
           \/ Backup(c) \/ WriteSpec(c)

SpecNext == \/ \E c \in Clients : Begin(c) \/ Work(c) \/ Crash(c)
            \/ \E c \in Clients, k \in Kernels : Update(c, k)
            \/ Tick \/ EditSpec \/ EditOverrides

SpecSpec == SpecInit /\ [][SpecNext]_vars

(* A run is a straight-line program; a healer's owner answers the doctor.  *)
FairSpecSpec == /\ SpecSpec
                /\ \A c \in Clients : WF_vars(Work(c))
                /\ \A c \in Healers : WF_vars(Begin(c))
-----------------------------------------------------------------------------
SpecTypeOK ==
    /\ spec \in Specs \cup {None} /\ ovr \in Overrides \cup {None}
    /\ backup \in [0..MaxSecond -> Specs \cup {None}]
    /\ kernel \in [Clients -> Kernels] /\ second \in 0..MaxSecond
    /\ proc \in [Clients -> [pc : {"idle", "capture", "status", "render", "stamp", "compare",
                                   "backup", "write"},
                  cap : Overrides \cup {None}, keep : BOOLEAN,
                  seen : Specs \cup {None}, tmpl : {Template[k] : k \in Kernels} \cup {None},
                  in : Overrides \cup {None}, text : Specs \cup {None}]]
    /\ begins \in [Clients -> Nat] /\ edits \in Nat /\ updates \in Nat /\ crashes \in Nat
    /\ torn \in BOOLEAN /\ dropped \in SUBSET (Depts \cup Prose)

(* What the owner wrote that some file of the campus still holds.          *)
OwnerCanon == (InSpec(spec) \cup Loaded(ovr).extra \cup Loaded(ovr).notes
                 \cup UNION {InSpec(backup[s]) : s \in 0..MaxSecond})
              \cap (OwnLines \cup OwnDepts)

(* "Never clobber owner canon" (:276): whatever the owner wrote stays in   *)
(* the copy, the overrides or a backup, through runs of any clients,       *)
(* captures, crashes and kernel updates.  A line is lost only where a file *)
(* is replaced that nobody looked at since: overrides written while a      *)
(* capture was under way, or recaptured with --force; a backup of the same *)
(* second; a copy saved after the run read it.                             *)
CanonLostOnly ==
    [][\A l \in OwnerCanon \ OwnerCanon' :
          l \in dropped' \/ \E c \in Clients : proc[c].pc = "write" /\ spec # proc[c].seen]_vars

(* When the check says "current", the copy is what the installed template  *)
(* and the overrides render to, whatever was edited after the stamp and    *)
(* whichever clients wrote it ("the stamp alone used to report it          *)
(* current", :132).  A kernel update between the template's two reads      *)
(* (:280) is the exception: its stamp names a template it did not render.  *)
(* So validate_registry, which reads the copy, accepts the template's      *)
(* departments and the owner's, or says that it cannot run.                *)
CurrentIsRender ==
    \A c \in Clients : Status(c) = "current" /\ ~torn =>
        /\ spec.body = RenderBody(Template[kernel[c]], ovr)
        /\ Departments(c) \in {Template[kernel[c]].depts \cup Loaded(ovr).extra, None}

(* Refused, the healer's owner captures; then the copy becomes current and *)
(* stays, once edits, updates and other clients' runs have ended - unless  *)
(* the overrides hold a department the loader refuses.                     *)
SpecSettles == \A c \in Healers : <>[](Valid(ovr) => Status(c) = "current")
=============================================================================
