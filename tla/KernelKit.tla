------------------------------ MODULE KernelKit ------------------------------
(***************************************************************************)
(* The campus copy of the kernel tools, .campus-os/kernel/                 *)
(* (src/tools/kernel_kit.py).                                              *)
(*                                                                         *)
(* Several AI clients share one campus folder.  Each runs the plugin it    *)
(* has installed, of its own version, and `install` copies that plugin's   *)
(* files into the kit: read the stamp, sweep what the manifest does not    *)
(* list into a quarantine folder, copy file by file, write KIT.json last.  *)
(* Nothing locks the folder: installs of different clients interleave, an  *)
(* install can die between any two steps, and the owner or a sync client   *)
(* can touch the folder at any time.                                       *)
(*                                                                         *)
(* A file's bytes are abstracted to the plugin version that first shipped  *)
(* them, so Bytes[v][f] is a version; the bytes of KIT.json of version v   *)
(* are v itself (the manifest embeds its kernel_version).                  *)
(***************************************************************************)
EXTENDS Integers, Sequences, FiniteSets

CONSTANTS
    Clients,       \* the clients that can run `install`
    Healers,       \* clients that keep refreshing the kit (run /campus-doctor)
    Versions,      \* plugin versions, ordered as version_key orders them
    Plugin,        \* Plugin[c]: the version of the plugin client c has
    Core,          \* Core[v]: the core tier of version v, in copying order
    OnDemand,      \* OnDemand[v]: its on_demand tier, in copying order
    Bytes,         \* Bytes[v][f]: the bytes version v ships for path f
    Paths,         \* every path of the kit folder but the temporary ones
    Stamp,         \* the path KIT.json
    Temps,         \* names `.{name}.{hex}.tmp` a write can draw
    Works,         \* bytes the kernel did not write: owner's edits, strays
    Absent, Torn, Link, None,
    RepairFlags,   \* the --repair choices an owner makes, a subset of BOOLEAN
    Disturbances,  \* <<path, bytes>>: what the owner or a sync client may do
    MaxBegins, MaxCrashes, MaxDisturbs   \* bounds on the counted steps

Elements(s) == {s[i] : i \in 1..Len(s)}

ASSUME ClientsAssumption ==
    /\ Healers \subseteq Clients
    /\ Plugin \in [Clients -> Versions]
    /\ RepairFlags \subseteq BOOLEAN

ASSUME VersionsAssumption ==
    /\ Versions \subseteq Nat
    /\ Core \in [Versions -> Seq(Paths \ {Stamp})]
    /\ OnDemand \in [Versions -> Seq(Paths \ {Stamp})]
    /\ Bytes \in [Versions -> [Paths -> Versions]]
    /\ \A v \in Versions : Bytes[v][Stamp] = v

ASSUME PathsAssumption ==
    /\ Stamp \in Paths
    /\ Temps \cap Paths = {}
    /\ None \notin Paths \cup Temps

\* What an entry of the folder can hold: kernel bytes, someone else's bytes, a
\* file opened and not yet written, a symlink.
Content == Versions \cup Works \cup {Torn, Link}

ASSUME ContentAssumption ==
    /\ Versions \cap (Works \cup {Torn, Link, Absent, None}) = {}
    /\ Works \cap {Torn, Link, Absent, None} = {}
    /\ Torn # Link /\ Torn # Absent /\ Link # Absent
    /\ None \notin {Torn, Link, Absent}
    /\ Disturbances \subseteq Paths \X (Works \cup {Link, Absent})

ASSUME BoundsAssumption ==
    MaxBegins \in Nat /\ MaxCrashes \in Nat /\ MaxDisturbs \in Nat

-----------------------------------------------------------------------------

VARIABLES
    kit,         \* the kit folder: what each path holds
    quarantine,  \* <<path, bytes>> moved under kernel-quarantine/
    inst,        \* per client, the install it runs
    placed,      \* history: where each of Works was put, None before
    used         \* how many of each counted step were taken

vars == <<kit, quarantine, inst, placed, used>>

Tiers == {"core", "all"}
PCs == {"idle", "scan", "move", "copy", "fill", "publish"}
Exits == {"none", "ok", "refused", "failed"}

Idle(exit) ==
    [pc |-> "idle", tier |-> "core", repair |-> FALSE, have |-> None,
     unexp |-> {}, i |-> 1, tmp |-> None, exit |-> exit]

Listed(v) == Elements(Core[v]) \cup Elements(OnDemand[v])

\* Mutant: the on_demand tier is forgotten.
RelsCoreOnly(v, tier) == Core[v] \o <<Stamp>>

\* The paths one run of install writes, in order: the tier's files, then KIT.json.
Rels(v, tier) ==
    Core[v] \o (IF tier = "all" THEN OnDemand[v] ELSE <<>>) \o <<Stamp>>

Required(v, tier) ==
    Elements(Core[v]) \cup (IF tier = "all" THEN Elements(OnDemand[v]) ELSE {})

-----------------------------------------------------------------------------
(* check, with the installed plugin's manifest as the reference.           *)

\* Everything under the kit that version v's manifest does not name, and every link.
Unexpected(v) ==
    {p \in Paths \cup Temps :
        \/ kit[p] = Link
        \/ kit[p] # Absent /\ p # Stamp /\ p \notin Listed(v)}

Missing(v, tier) == {f \in Required(v, tier) : kit[f] = Absent}

Mismatched(v) == {f \in Listed(v) : kit[f] \notin {Absent, Bytes[v][f]}}

\* `check --manifest` of plugin version v exits 0.
CheckOK(v, tier) ==
    /\ kit[Stamp] = v
    /\ Missing(v, tier) = {}
    /\ Mismatched(v) = {}
    /\ Unexpected(v) = {}

-----------------------------------------------------------------------------
(* install, step by step.                                                  *)

SetInst(c, r) == inst' = [inst EXCEPT ![c] = r]
Stop(c, exit) == SetInst(c, Idle(exit))

\* Mutant: the comparison is the wrong way round.
RefusedOlder(v, repair) ==
    kit[Stamp] \in Versions /\ kit[Stamp] < v /\ ~repair

\* A stamp of a later version than the client's plugin, and no --repair.
RefusedNewer(v, repair) ==
    kit[Stamp] \in Versions /\ kit[Stamp] > v /\ ~repair

\* build_manifest, then the stamp is read and the forward-only rule applied.  A
\* KIT.json that is a link is refused; one that does not parse raises.
ReadStamp(c, tier, repair) ==
    /\ inst[c].pc = "idle"
    /\ IF kit[Stamp] = Link \/ RefusedNewer(Plugin[c], repair)
       THEN Stop(c, "refused")
       ELSE IF kit[Stamp] \in Works \cup {Torn}
       THEN Stop(c, "failed")
       ELSE SetInst(c, [Idle("none") EXCEPT
                            !.pc = "scan", !.tier = tier, !.repair = repair,
                            !.have = kit[Stamp]])
    /\ UNCHANGED <<kit, quarantine, placed>>

Begin(c, tier, repair) ==
    /\ used.begins < MaxBegins
    /\ ReadStamp(c, tier, repair)
    /\ used' = [used EXCEPT !.begins = @ + 1]

\* A doctor run makes sure that the kit is current and has both tiers: it installs again
\* when the check fails.  Not counted: fairness alone drives it.
Refresh(c) ==
    /\ c \in Healers
    /\ ~CheckOK(Plugin[c], "all")
    /\ ReadStamp(c, "all", FALSE)
    /\ UNCHANGED used

\* The snapshot of unlisted entries; any link among them refuses the install.
Scan(c) ==
    /\ inst[c].pc = "scan"
    /\ LET found == Unexpected(Plugin[c])
       IN IF \E p \in found : kit[p] = Link
          THEN Stop(c, "refused")
          ELSE SetInst(c, [inst[c] EXCEPT
                               !.unexp = found,
                               !.pc = IF found = {} THEN "copy" ELSE "move"])
    /\ UNCHANGED <<kit, quarantine, placed, used>>

AfterMove(rest) == IF rest = {} THEN "copy" ELSE "move"

\* Mutant: the entry is unlinked instead of moved.
Unlinked(p) == quarantine

\* os.replace into this install's own, freshly made folder: nothing there is overwritten.
Quarantined(p) == quarantine \cup {<<p, kit[p]>>}

\* Mutant: an entry another install moved first is not skipped.
NeverGone(p) == FALSE

Gone(p) == kit[p] = Absent

\* One entry of the snapshot is renamed into this install's own quarantine folder,
\* or skipped when it is gone by now; os.replace raises for one that goes after the
\* look at it.
MoveAside(c, p) ==
    /\ inst[c].pc = "move"
    /\ p \in inst[c].unexp
    /\ \/ /\ SetInst(c, [inst[c] EXCEPT !.unexp = @ \ {p},
                                        !.pc = AfterMove(inst[c].unexp \ {p})])
          /\ IF Gone(p)
             THEN UNCHANGED <<kit, quarantine>>
             ELSE /\ quarantine' = Quarantined(p)
                  /\ kit' = [kit EXCEPT ![p] = Absent]
       \/ kit[p] = Absent /\ Stop(c, "failed") /\ UNCHANGED <<kit, quarantine>>
    /\ UNCHANGED <<placed, used>>

Target(c) == Rels(Plugin[c], inst[c].tier)[inst[c].i]

\* Mutant: one fixed temporary name, opened whether it exists or not.
AnyTemps == Temps

\* Names no file has and no running write holds: the hex part is drawn at random
\* and the file is opened with mode "x".  One fresh name is as good as another.
FreshTemps ==
    {t \in Temps : kit[t] = Absent /\ \A d \in Clients : inst[d].tmp # t}

\* Mutant: a file that is there is taken to be right, its hash not compared.
UpToDateIfPresent(c, f) == kit[f] \in Versions

UpToDate(c, f) == kit[f] = Bytes[Plugin[c]][f]

\* The next file is already right, and skipped, or a temporary file is opened for it.
\* KIT.json is always written, and its path is not looked at again.
CopyFile(c) ==
    LET f == Target(c) IN
    /\ inst[c].pc = "copy"
    /\ \/ /\ f # Stamp /\ kit[f] = Link
          /\ Stop(c, "refused")
          /\ UNCHANGED kit
       \/ /\ f # Stamp /\ UpToDate(c, f)
          /\ SetInst(c, [inst[c] EXCEPT !.i = @ + 1])
          /\ UNCHANGED kit
       \/ /\ f = Stamp \/ (kit[f] # Link /\ ~UpToDate(c, f))
          /\ FreshTemps # {}
          /\ LET t == CHOOSE t \in FreshTemps : TRUE
             IN /\ kit' = [kit EXCEPT ![t] = Torn]
                /\ SetInst(c, [inst[c] EXCEPT !.pc = "fill", !.tmp = t])
    /\ UNCHANGED <<quarantine, placed, used>>

\* The bytes reach the open file.  If another install moved it to the quarantine
\* meanwhile they reach it there, and the kit does not change.
FillTemp(c) ==
    LET t == inst[c].tmp IN
    /\ inst[c].pc = "fill"
    /\ kit' = IF kit[t] = Absent THEN kit
              ELSE [kit EXCEPT ![t] = Bytes[Plugin[c]][Target(c)]]
    /\ SetInst(c, [inst[c] EXCEPT !.pc = "publish"])
    /\ UNCHANGED <<quarantine, placed, used>>

\* os.replace(tmp, dest): atomic, and an error when tmp has been moved away.  After
\* KIT.json the install is done.
Publish(c) ==
    LET t == inst[c].tmp
        f == Target(c)
    IN
    /\ inst[c].pc = "publish"
    /\ IF kit[t] = Absent
       THEN Stop(c, "failed") /\ UNCHANGED kit
       ELSE /\ kit' = [kit EXCEPT ![f] = kit[t], ![t] = Absent]
            /\ IF f = Stamp
               THEN Stop(c, "ok")
               ELSE SetInst(c, [inst[c] EXCEPT !.pc = "copy", !.i = @ + 1,
                                               !.tmp = None])
    /\ UNCHANGED <<quarantine, placed, used>>

\* The process dies; what it wrote stays, its open temporary file included.
Crash(c) ==
    /\ used.crashes < MaxCrashes
    /\ inst[c].pc # "idle"
    /\ Stop(c, "none")
    /\ used' = [used EXCEPT !.crashes = @ + 1]
    /\ UNCHANGED <<kit, quarantine, placed>>

-----------------------------------------------------------------------------
(* The owner, and whatever else can write the shared folder.               *)

\* Someone else's bytes, a deletion or a link appear at a path.  The owner's own
\* work is not destroyed by the owner, and each piece of it is put down once.
Disturb(p, b) ==
    /\ used.disturbs < MaxDisturbs
    /\ <<p, b>> \in Disturbances
    /\ kit[p] \notin Works \cup {b}
    /\ b \in Works => placed[b] = None
    /\ kit' = [kit EXCEPT ![p] = b]
    /\ placed' = IF b \in Works THEN [placed EXCEPT ![b] = p] ELSE placed
    /\ used' = [used EXCEPT !.disturbs = @ + 1]
    /\ UNCHANGED <<quarantine, inst>>

\* A link in the kit is left for the owner, who removes it.
RemoveLink(p) ==
    /\ kit[p] = Link
    /\ kit' = [kit EXCEPT ![p] = Absent]
    /\ UNCHANGED <<quarantine, inst, placed, used>>

-----------------------------------------------------------------------------

\* A kit of version v as a finished install of that tier leaves it.
Installed(v, tier) ==
    [p \in Paths \cup Temps |->
        IF p = Stamp \/ p \in Required(v, tier) THEN Bytes[v][p] ELSE Absent]

Init ==
    /\ \/ kit = [p \in Paths \cup Temps |-> Absent]
       \/ \E v \in Versions, tier \in Tiers : kit = Installed(v, tier)
    /\ quarantine = {}
    /\ inst = [c \in Clients |-> Idle("none")]
    /\ placed = [w \in Works |-> None]
    /\ used = [begins |-> 0, crashes |-> 0, disturbs |-> 0]

Step(c) ==
    \/ Refresh(c)
    \/ Scan(c)
    \/ \E p \in inst[c].unexp : MoveAside(c, p)
    \/ CopyFile(c)
    \/ FillTemp(c)
    \/ Publish(c)

Next ==
    \/ \E c \in Clients :
        \/ \E tier \in Tiers, repair \in RepairFlags : Begin(c, tier, repair)
        \/ Step(c)
        \/ Crash(c)
    \/ \E d \in Disturbances : Disturb(d[1], d[2])
    \/ \E p \in Paths : RemoveLink(p)

Spec == Init /\ [][Next]_vars

\* A healer keeps starting sessions and its steps are not held up for ever; the owner
\* removes links when told.  The other clients may stop anywhere, or never start.
FairSpec ==
    /\ Spec
    /\ \A c \in Healers : WF_vars(Step(c))
    /\ \A p \in Paths : WF_vars(RemoveLink(p))

-----------------------------------------------------------------------------
(* Properties.                                                             *)

InstType ==
    [pc : PCs, tier : Tiers, repair : BOOLEAN,
     have : Versions \cup {None, Absent}, unexp : SUBSET (Paths \cup Temps),
     i : Nat, tmp : Temps \cup {None}, exit : Exits]

\* The variables hold what the program can put in them (kernel_kit.py:273-304).
TypeOK ==
    /\ kit \in [Paths \cup Temps -> Content \cup {Absent}]
    /\ quarantine \subseteq (Paths \cup Temps) \X Content
    /\ inst \in [Clients -> InstType]
    /\ placed \in [Works -> Paths \cup {None}]
    /\ used \in [begins : 0..MaxBegins, crashes : 0..MaxCrashes,
                 disturbs : 0..MaxDisturbs]

\* A temporary file belongs to one write: what it holds when it is renamed over the kit
\* file is what that write put in, unless it was moved to the quarantine meanwhile.
TempsPrivate ==
    \A c \in Clients : inst[c].pc \in {"fill", "publish"} =>
        /\ inst[c].tmp \in Temps
        /\ kit[inst[c].tmp] \in
              {Absent, IF inst[c].pc = "fill" THEN Torn ELSE Bytes[Plugin[c]][Target(c)]}
        /\ \A d \in Clients \ {c} : inst[d].tmp # inst[c].tmp

\* However installs interleave and crash, a kit path never shows a half-written file
\* or another file's bytes: it holds what some plugin version ships for that very
\* path, or what the owner put there (_write: a fresh temporary file, then a rename).
KnownBytes ==
    \A p \in Paths :
        kit[p] \in {Bytes[v][p] : v \in Versions} \cup Works \cup {Link, Absent}

\* Paths no plugin in use lists: nothing an install may write.
Strays == Paths \ ({Stamp} \cup UNION {Listed(Plugin[c]) : c \in Clients})

\* Moved, never deleted: bytes someone put at an unlisted path are still there or in
\* the quarantine, whatever installs ran or died since (_quarantine).
OwnerWorkKept ==
    \A w \in Works :
        placed[w] \in Strays =>
            kit[placed[w]] = w \/ <<placed[w], w>> \in quarantine

\* Every plugin that can install is of version v, and the owner leaves its files alone.
OneFleet(v) ==
    /\ \A c \in Clients : Plugin[c] = v
    /\ \A d \in Disturbances : d[1] \notin Listed(v) \cup {Stamp}

\* In a fleet on one version KIT.json tells the truth at every moment, in the middle of
\* concurrent installs and after any crash: once it says v, every core file holds
\* version v's bytes, and stays so (install writes the stamp last).
StampImpliesCore ==
    \A v \in Versions :
        OneFleet(v) /\ kit[Stamp] = v =>
            \A f \in Elements(Core[v]) : kit[f] = Bytes[v][f]

Lowers(c) ==
    /\ kit[Stamp] \in Versions
    /\ kit'[Stamp] \in Versions
    /\ kit'[Stamp] < kit[Stamp]
    /\ inst[c].pc = "publish" /\ inst'[c].pc = "idle"
    /\ ~inst[c].repair

\* Without --repair an install lowers the version in KIT.json only when KIT.json changed
\* after that install had read it: the gap between the check and the write is the
\* only way down (install, the read at the top and the write at the end).
DownOnlyByRace ==
    [][\A c \in Clients : Lowers(c) => inst[c].have # kit[Stamp]]_vars

\* A newer kit is replaced only with --repair (the module's docstring, CHANGELOG 5.2.14).
ForwardOnly == [][\A c \in Clients : ~Lowers(c)]_vars

\* With the kit to itself and nothing in its way, an install that exits 0 leaves a kit
\* the same plugin's check accepts.
InstallHeals ==
    \A c \in Clients :
        inst[c].exit = "ok" => CheckOK(Plugin[c], "core")

\* Whatever was interrupted, overwritten or left behind, a client on the newest plugin
\* that keeps refreshing the whole kit ends with one that checks, for good.
Heals == <>[](\A c \in Healers : CheckOK(Plugin[c], "all"))
=============================================================================
