--------------------------- MODULE KernelKit_proofs ---------------------------
(***************************************************************************)
(* Proofs about KernelKit, for any number of clients, versions and files.  *)
(***************************************************************************)
EXTENDS KernelKit, SequenceTheorems, TLAPS

(* The order in which install writes: the core tier, then KIT.json last.   *)

\* Every version's list is the core tier, perhaps more of its own files, and KIT.json.
LEMMA RelsShape ==
    ASSUME NEW v \in Versions, NEW tier \in Tiers
    PROVE  /\ Rels(v, tier) \in Seq(Paths)
           /\ Len(Rels(v, tier)) \in Nat \ {0}
           /\ Len(Core[v]) \in Nat
           /\ Len(Core[v]) < Len(Rels(v, tier))
           /\ \A i \in 1..Len(Core[v]) : Rels(v, tier)[i] = Core[v][i]
           /\ \A i \in 1..Len(Rels(v, tier)) :
                 Rels(v, tier)[i] = Stamp <=> i = Len(Rels(v, tier))
<1> DEFINE tail == IF tier = "all" THEN OnDemand[v] ELSE <<>>
           body == Core[v] \o tail
<1>1. /\ Core[v] \in Seq(Paths \ {Stamp}) /\ OnDemand[v] \in Seq(Paths \ {Stamp})
      /\ Stamp \in Paths
  BY VersionsAssumption, PathsAssumption
<1>2. tail \in Seq(Paths \ {Stamp})
  BY <1>1
<1> HIDE DEF tail
<1>3. /\ body \in Seq(Paths \ {Stamp})
      /\ Len(body) = Len(Core[v]) + Len(tail)
      /\ \A i \in 1..Len(Core[v]) : body[i] = Core[v][i]
  BY <1>1, <1>2, ConcatProperties
<1>4. Rels(v, tier) = body \o <<Stamp>>
  BY DEF Rels, tail
<1> HIDE DEF body
<1>5. body \in Seq(Paths) /\ \A i \in 1..Len(body) : body[i] # Stamp
  BY <1>1, <1>3
<1>6. /\ Len(body \o <<Stamp>>) = Len(body) + 1
      /\ body \o <<Stamp>> \in Seq(Paths)
      /\ \A i \in 1..Len(body) : (body \o <<Stamp>>)[i] = body[i]
      /\ (body \o <<Stamp>>)[Len(body) + 1] = Stamp
  BY <1>1, <1>5
<1>7. Len(Core[v]) \in Nat /\ Len(tail) \in Nat /\ Len(body) \in Nat
  BY <1>1, <1>2, <1>5
<1>8. QED
  BY <1>3, <1>4, <1>5, <1>6, <1>7

-----------------------------------------------------------------------------
(* The inductive invariant.  A client past the sweep stands at an entry of *)
(* its list; it holds a temporary name exactly while it writes.            *)

Cursor ==
    \A c \in Clients :
        /\ inst[c].pc \in {"idle", "scan", "move"} => inst[c].i = 1
        /\ inst[c].i \in 1..Len(Rels(Plugin[c], inst[c].tier))
        /\ inst[c].pc \notin {"fill", "publish"} => inst[c].tmp = None

IInv == TypeOK /\ Cursor /\ TempsPrivate /\ KnownBytes

LEMMA TypeFacts ==
    /\ \A c \in Clients : Plugin[c] \in Versions
    /\ \A v \in Versions, p \in Paths : Bytes[v][p] \in Versions
    /\ Versions \subseteq Content /\ Torn \in Content /\ Link \in Content
    /\ Absent \notin Content
    /\ \A v \in Versions, tier \in Tiers : 1 \in 1..Len(Rels(v, tier))
    /\ \A exit \in Exits : Idle(exit) \in InstType
<1>1. \A v \in Versions, tier \in Tiers : 1 \in 1..Len(Rels(v, tier))
  BY RelsShape
<1>2. \A exit \in Exits : Idle(exit) \in InstType
  BY DEF Idle, InstType, PCs, Tiers, Exits
<1>3. QED
  BY <1>1, <1>2, ClientsAssumption, VersionsAssumption, ContentAssumption DEF Content

LEMMA InitIInv == Init => IInv
<1> SUFFICES ASSUME Init PROVE IInv
  OBVIOUS
<1>1. kit \in [Paths \cup Temps -> Content \cup {Absent}]
  <2>1. CASE kit = [p \in Paths \cup Temps |-> Absent]
    BY <2>1
  <2>2. CASE \E v \in Versions, tier \in Tiers : kit = Installed(v, tier)
    <3>1. PICK v \in Versions, tier \in Tiers : kit = Installed(v, tier)
      BY <2>2
    <3>2. Required(v, tier) \subseteq Paths
      <4>1. ASSUME NEW s \in Seq(Paths \ {Stamp})
            PROVE  Elements(s) \subseteq Paths
        BY DEF Elements
      <4>2. Core[v] \in Seq(Paths \ {Stamp}) /\ OnDemand[v] \in Seq(Paths \ {Stamp})
        BY VersionsAssumption
      <4>3. Elements(Core[v]) \subseteq Paths /\ Elements(OnDemand[v]) \subseteq Paths
        BY <4>1, <4>2
      <4>4. QED
        BY <4>3 DEF Required
    <3>3. QED
      BY <3>1, <3>2, TypeFacts, PathsAssumption DEF Installed
  <2>3. QED
    BY <2>1, <2>2 DEF Init
<1>2. TypeOK
  BY <1>1, TypeFacts, BoundsAssumption DEF Init, TypeOK, Exits
<1>3. Cursor
  BY TypeFacts DEF Init, Cursor, Idle, Tiers
<1>4. TempsPrivate
  BY DEF Init, TempsPrivate, Idle
<1>5. KnownBytes
  <2>1. CASE kit = [p \in Paths \cup Temps |-> Absent]
    BY <2>1 DEF KnownBytes
  <2>2. CASE \E v \in Versions, tier \in Tiers : kit = Installed(v, tier)
    BY <2>2 DEF KnownBytes, Installed
  <2>3. QED
    BY <2>1, <2>2 DEF Init
<1>6. QED
  BY <1>2, <1>3, <1>4, <1>5 DEF IInv

-----------------------------------------------------------------------------
(* Every step preserves it.  First the steps that leave the kit alone and  *)
(* give one client a record in which it writes nothing.                    *)

LEMMA QuietStep ==
    ASSUME IInv, NEW c \in Clients, NEW r \in InstType,
           inst' = [inst EXCEPT ![c] = r],
           r.pc \notin {"fill", "publish"}, r.tmp = None,
           r.i \in 1..Len(Rels(Plugin[c], r.tier)),
           r.pc \in {"idle", "scan", "move"} => r.i = 1,
           kit' = kit, quarantine' = quarantine, placed' = placed,
           used' \in [begins : 0..MaxBegins, crashes : 0..MaxCrashes,
                      disturbs : 0..MaxDisturbs]
    PROVE  IInv'
<1>1. TypeOK'
  BY DEF IInv, TypeOK
<1>2. Cursor'
  BY DEF IInv, TypeOK, Cursor
<1>3. TempsPrivate'
  <2> SUFFICES ASSUME NEW b \in Clients, inst'[b].pc \in {"fill", "publish"}
               PROVE  /\ inst'[b].tmp \in Temps
                      /\ kit'[inst'[b].tmp] \in
                           {Absent, IF inst'[b].pc = "fill" THEN Torn
                                    ELSE Bytes[Plugin[b]][Target(b)']}
                      /\ \A d \in Clients \ {b} : inst'[d].tmp # inst'[b].tmp
    BY DEF TempsPrivate
  <2>1. b # c /\ inst'[b] = inst[b] /\ Target(b)' = Target(b)
    BY DEF IInv, TypeOK, Target
  <2>2. inst'[c].tmp = None
    BY DEF IInv, TypeOK
  <2>3. QED
    BY <2>1, <2>2, PathsAssumption DEF IInv, TypeOK, TempsPrivate
<1>4. KnownBytes'
  BY DEF IInv, KnownBytes
<1>5. QED
  BY <1>1, <1>2, <1>3, <1>4 DEF IInv

LEMMA StopStep ==
    ASSUME IInv, NEW c \in Clients, NEW exit \in Exits, Stop(c, exit),
           kit' = kit, quarantine' = quarantine, placed' = placed,
           used' \in [begins : 0..MaxBegins, crashes : 0..MaxCrashes,
                      disturbs : 0..MaxDisturbs]
    PROVE  IInv'
<1>1. /\ Idle(exit) \in InstType
      /\ Idle(exit).pc = "idle" /\ Idle(exit).tmp = None /\ Idle(exit).i = 1
      /\ Idle(exit).tier \in Tiers
  BY TypeFacts DEF Idle, Tiers
<1>2. Idle(exit).i \in 1..Len(Rels(Plugin[c], Idle(exit).tier))
  BY <1>1, TypeFacts
<1>3. inst' = [inst EXCEPT ![c] = Idle(exit)]
  BY DEF Stop, SetInst
<1>4. QED
  BY <1>1, <1>2, <1>3, QuietStep

LEMMA ReadStampStep ==
    ASSUME IInv, NEW c \in Clients, NEW tier \in Tiers, NEW repair \in BOOLEAN,
           ReadStamp(c, tier, repair),
           used' \in [begins : 0..MaxBegins, crashes : 0..MaxCrashes,
                      disturbs : 0..MaxDisturbs]
    PROVE  IInv'
<1> DEFINE r == [Idle("none") EXCEPT !.pc = "scan", !.tier = tier,
                                     !.repair = repair, !.have = kit[Stamp]]
<1>1. kit' = kit /\ quarantine' = quarantine /\ placed' = placed
  BY DEF ReadStamp
<1>2. CASE kit[Stamp] = Link \/ RefusedNewer(Plugin[c], repair)
  BY <1>1, <1>2, StopStep DEF ReadStamp, Exits
<1>3. CASE /\ ~(kit[Stamp] = Link \/ RefusedNewer(Plugin[c], repair))
           /\ kit[Stamp] \in Works \cup {Torn}
  BY <1>1, <1>3, StopStep DEF ReadStamp, Exits
<1>4. CASE /\ ~(kit[Stamp] = Link \/ RefusedNewer(Plugin[c], repair))
           /\ kit[Stamp] \notin Works \cup {Torn}
  <2>1. kit[Stamp] \in Versions \cup {Absent}
    BY <1>4, PathsAssumption DEF IInv, TypeOK, Content
  <2>2. /\ r \in InstType /\ r.pc = "scan" /\ r.tmp = None /\ r.i = 1
        /\ r.tier = tier
    BY <2>1 DEF Idle, InstType, PCs, Exits
  <2>3. inst' = [inst EXCEPT ![c] = r]
    BY <1>4 DEF ReadStamp, SetInst
  <2>4. r.i \in 1..Len(Rels(Plugin[c], r.tier))
    BY <2>2, TypeFacts
  <2> HIDE DEF r
  <2>5. QED
    BY <1>1, <2>2, <2>3, <2>4, QuietStep
<1>5. QED
  BY <1>2, <1>3, <1>4

LEMMA ScanStep ==
    ASSUME IInv, NEW c \in Clients, Scan(c)
    PROVE  IInv'
<1> DEFINE found == Unexpected(Plugin[c])
           r == [inst[c] EXCEPT !.unexp = found,
                                !.pc = IF found = {} THEN "copy" ELSE "move"]
<1>1. /\ kit' = kit /\ quarantine' = quarantine /\ placed' = placed
      /\ used' = used /\ inst[c].pc = "scan"
  BY DEF Scan
<1>2. CASE \E p \in found : kit[p] = Link
  BY <1>1, <1>2, StopStep DEF Scan, Exits, IInv, TypeOK
<1>3. CASE ~(\E p \in found : kit[p] = Link)
  <2>1. inst' = [inst EXCEPT ![c] = r]
    BY <1>3 DEF Scan, SetInst
  <2>2. inst[c] \in InstType
    BY DEF IInv, TypeOK
  <2>3. found \in SUBSET (Paths \cup Temps)
    BY DEF Unexpected
  <2>4. /\ r \in InstType /\ r.pc \in {"copy", "move"} /\ r.tmp = inst[c].tmp
        /\ r.i = inst[c].i /\ r.tier = inst[c].tier
    BY <2>2, <2>3 DEF InstType, PCs
  <2>5. /\ inst[c].tmp = None /\ inst[c].i = 1
        /\ inst[c].i \in 1..Len(Rels(Plugin[c], inst[c].tier))
    BY <1>1 DEF IInv, Cursor
  <2> HIDE DEF r, found
  <2>6. QED
    BY <1>1, <2>1, <2>4, <2>5, QuietStep DEF IInv, TypeOK
<1>4. QED
  BY <1>2, <1>3

\* Entries only disappear from the kit, or change where no write is under way.
LEMMA KitOnlyStep ==
    ASSUME IInv, inst' = inst, used' \in [begins : 0..MaxBegins,
                                         crashes : 0..MaxCrashes,
                                         disturbs : 0..MaxDisturbs],
           NEW p \in Paths, NEW b \in Works \cup {Link, Absent},
           kit' = [kit EXCEPT ![p] = b], quarantine' = quarantine,
           placed' \in [Works -> Paths \cup {None}]
    PROVE  IInv'
<1>1. TypeOK'
  BY DEF IInv, TypeOK, Content
<1>2. Cursor'
  BY DEF IInv, Cursor
<1>3. TempsPrivate'
  <2>1. \A t \in Temps : kit'[t] = kit[t]
    BY PathsAssumption DEF IInv, TypeOK
  <2>2. \A c \in Clients : Target(c)' = Target(c)
    BY DEF Target
  <2>3. QED
    BY <2>1, <2>2 DEF IInv, TempsPrivate
<1>4. KnownBytes'
  BY DEF IInv, TypeOK, KnownBytes
<1>5. QED
  BY <1>1, <1>2, <1>3, <1>4 DEF IInv

LEMMA MoveAsideStep ==
    ASSUME IInv, NEW c \in Clients, NEW p \in inst[c].unexp, MoveAside(c, p)
    PROVE  IInv'
<1> DEFINE r == [inst[c] EXCEPT !.unexp = @ \ {p},
                                !.pc = AfterMove(inst[c].unexp \ {p})]
<1>1. CASE Stop(c, "failed") /\ kit' = kit /\ quarantine' = quarantine
  <2>1. placed' = placed /\ used' = used
    BY DEF MoveAside
  <2>2. QED
    BY <1>1, <2>1, StopStep DEF Exits, IInv, TypeOK
<1>2. inst[c] \in InstType /\ p \in Paths \cup Temps
  BY DEF IInv, TypeOK, InstType
<1>3. /\ r \in InstType /\ r.pc \in {"copy", "move"} /\ r.tmp = inst[c].tmp
      /\ r.i = inst[c].i /\ r.tier = inst[c].tier
  BY <1>2 DEF InstType, PCs, AfterMove
<1>4. /\ inst[c].tmp = None /\ inst[c].i = 1
      /\ inst[c].i \in 1..Len(Rels(Plugin[c], inst[c].tier))
  BY DEF MoveAside, IInv, Cursor
<1>5. placed' = placed /\ used' = used
  BY DEF MoveAside
<1> HIDE DEF r
<1>6. CASE inst' = [inst EXCEPT ![c] = r] /\ kit' = kit /\ quarantine' = quarantine
  BY <1>3, <1>4, <1>5, <1>6, QuietStep DEF IInv, TypeOK
<1>7. CASE /\ inst' = [inst EXCEPT ![c] = r] /\ ~Gone(p)
           /\ kit' = [kit EXCEPT ![p] = Absent]
           /\ quarantine' = quarantine \cup {<<p, kit[p]>>}
  <2>1. kit[p] \in Content
    BY <1>2, <1>7 DEF IInv, TypeOK, Gone
  <2>2. TypeOK'
    BY <1>2, <1>3, <1>5, <1>7, <2>1 DEF IInv, TypeOK
  <2>3. Cursor'
    BY <1>3, <1>4, <1>7 DEF IInv, TypeOK, Cursor
  <2>4. TempsPrivate'
    <3> SUFFICES ASSUME NEW b \in Clients, inst'[b].pc \in {"fill", "publish"}
                 PROVE  /\ inst'[b].tmp \in Temps
                        /\ kit'[inst'[b].tmp] \in
                             {Absent, IF inst'[b].pc = "fill" THEN Torn
                                      ELSE Bytes[Plugin[b]][Target(b)']}
                        /\ \A d \in Clients \ {b} : inst'[d].tmp # inst'[b].tmp
      BY DEF TempsPrivate
    <3>1. b # c /\ inst'[b] = inst[b] /\ Target(b)' = Target(b)
      BY <1>3, <1>7 DEF IInv, TypeOK, Target
    <3>2. inst'[c].tmp = None
      BY <1>3, <1>4, <1>7 DEF IInv, TypeOK
    <3>3. \A t \in Temps : kit'[t] \in {Absent, kit[t]}
      BY <1>7 DEF IInv, TypeOK
    <3>4. QED
      BY <1>7, <3>1, <3>2, <3>3, PathsAssumption DEF IInv, TypeOK, TempsPrivate
  <2>5. KnownBytes'
    BY <1>7 DEF IInv, TypeOK, KnownBytes
  <2>6. QED
    BY <2>2, <2>3, <2>4, <2>5 DEF IInv
<1>8. QED
  <2>1. \/ Stop(c, "failed") /\ kit' = kit /\ quarantine' = quarantine
        \/ inst' = [inst EXCEPT ![c] = r]
    BY DEF MoveAside, SetInst, r
  <2>2. QED
    BY <1>1, <1>6, <1>7, <2>1 DEF MoveAside, Quarantined

LEMMA CopyFileStep ==
    ASSUME IInv, NEW c \in Clients, CopyFile(c)
    PROVE  IInv'
<1> DEFINE f == Target(c)
<1>1. /\ quarantine' = quarantine /\ placed' = placed /\ used' = used
      /\ inst[c].pc = "copy" /\ inst[c].tmp = None
      /\ inst[c] \in InstType /\ Plugin[c] \in Versions
      /\ inst[c].i \in 1..Len(Rels(Plugin[c], inst[c].tier))
  BY TypeFacts DEF CopyFile, IInv, Cursor, TypeOK
<1>2. CASE f # Stamp /\ kit[f] = Link /\ Stop(c, "refused") /\ kit' = kit
  BY <1>1, <1>2, StopStep DEF Exits, IInv, TypeOK
<1>3. CASE /\ f # Stamp /\ kit' = kit
           /\ SetInst(c, [inst[c] EXCEPT !.i = @ + 1])
  <2> DEFINE r == [inst[c] EXCEPT !.i = @ + 1]
  <2>1. inst' = [inst EXCEPT ![c] = r]
    BY <1>3 DEF SetInst
  <2>2. /\ r \in InstType /\ r.pc = "copy" /\ r.tmp = None
        /\ r.tier = inst[c].tier /\ r.i = inst[c].i + 1
    BY <1>1 DEF InstType
  <2>3. inst[c].i # Len(Rels(Plugin[c], inst[c].tier))
    BY <1>1, <1>3, RelsShape DEF Target, InstType
  <2>4. r.i \in 1..Len(Rels(Plugin[c], r.tier))
    BY <1>1, <2>2, <2>3, RelsShape DEF InstType
  <2> HIDE DEF r
  <2>5. QED
    BY <1>1, <1>3, <2>1, <2>2, <2>4, QuietStep DEF IInv, TypeOK
<1>4. CASE /\ FreshTemps # {}
           /\ LET t == CHOOSE t \in FreshTemps : TRUE
              IN /\ kit' = [kit EXCEPT ![t] = Torn]
                 /\ SetInst(c, [inst[c] EXCEPT !.pc = "fill", !.tmp = t])
  <2>1. PICK t \in FreshTemps :
            /\ kit' = [kit EXCEPT ![t] = Torn]
            /\ inst' = [inst EXCEPT ![c] = [inst[c] EXCEPT !.pc = "fill", !.tmp = t]]
    BY <1>4 DEF SetInst
  <2>2. t \in Temps /\ t \notin Paths /\ \A d \in Clients : inst[d].tmp # t
    BY PathsAssumption DEF FreshTemps
  <2>3. TypeOK'
    BY <1>1, <2>1, <2>2, TypeFacts DEF IInv, TypeOK, InstType, PCs
  <2>4. Cursor'
    BY <1>1, <2>1 DEF IInv, TypeOK, Cursor, InstType
  <2>5. TempsPrivate'
    <3> SUFFICES ASSUME NEW b \in Clients, inst'[b].pc \in {"fill", "publish"}
                 PROVE  /\ inst'[b].tmp \in Temps
                        /\ kit'[inst'[b].tmp] \in
                             {Absent, IF inst'[b].pc = "fill" THEN Torn
                                      ELSE Bytes[Plugin[b]][Target(b)']}
                        /\ \A d \in Clients \ {b} : inst'[d].tmp # inst'[b].tmp
      BY DEF TempsPrivate
    <3>1. CASE b = c
      BY <1>1, <2>1, <2>2, <3>1 DEF IInv, TypeOK, InstType
    <3>2. CASE b # c
      BY <1>1, <2>1, <2>2, <3>2 DEF IInv, TypeOK, InstType, TempsPrivate, Target
    <3>3. QED
      BY <3>1, <3>2
  <2>6. KnownBytes'
    BY <2>1, <2>2 DEF IInv, TypeOK, KnownBytes
  <2>7. QED
    BY <2>3, <2>4, <2>5, <2>6 DEF IInv
<1>5. QED
  BY <1>2, <1>3, <1>4 DEF CopyFile

LEMMA FillTempStep ==
    ASSUME IInv, NEW c \in Clients, FillTemp(c)
    PROVE  IInv'
<1> DEFINE t == inst[c].tmp
           r == [inst[c] EXCEPT !.pc = "publish"]
           bytes == Bytes[Plugin[c]][Target(c)]
<1>1. /\ quarantine' = quarantine /\ placed' = placed /\ used' = used
      /\ inst[c].pc = "fill" /\ inst' = [inst EXCEPT ![c] = r]
      /\ inst[c] \in InstType /\ Plugin[c] \in Versions
      /\ inst[c].i \in 1..Len(Rels(Plugin[c], inst[c].tier))
  BY TypeFacts DEF FillTemp, SetInst, IInv, Cursor, TypeOK
<1>2. /\ t \in Temps /\ t \notin Paths
      /\ \A d \in Clients \ {c} : inst[d].tmp # t
  BY <1>1, PathsAssumption DEF IInv, TempsPrivate
<1>3. Target(c) \in Paths /\ bytes \in Versions
  BY <1>1, RelsShape, TypeFacts DEF Target, InstType
<1>4. kit' = IF kit[t] = Absent THEN kit ELSE [kit EXCEPT ![t] = bytes]
  BY DEF FillTemp
<1>5. /\ r \in InstType /\ r.pc = "publish" /\ r.tmp = t
      /\ r.tier = inst[c].tier /\ r.i = inst[c].i
  BY <1>1 DEF InstType, PCs
<1>6. \A d \in Clients : Target(d)' = Target(d)
  BY <1>1, <1>5 DEF Target, IInv, TypeOK
<1> HIDE DEF r
<1>7. TypeOK'
  BY <1>1, <1>2, <1>3, <1>4, <1>5, TypeFacts DEF IInv, TypeOK
<1>8. Cursor'
  BY <1>1, <1>5 DEF IInv, TypeOK, Cursor
<1>9. TempsPrivate'
  <2> SUFFICES ASSUME NEW b \in Clients, inst'[b].pc \in {"fill", "publish"}
               PROVE  /\ inst'[b].tmp \in Temps
                      /\ kit'[inst'[b].tmp] \in
                           {Absent, IF inst'[b].pc = "fill" THEN Torn
                                    ELSE Bytes[Plugin[b]][Target(b)']}
                      /\ \A d \in Clients \ {b} : inst'[d].tmp # inst'[b].tmp
    BY DEF TempsPrivate
  <2>1. CASE b = c
    BY <1>1, <1>2, <1>4, <1>5, <1>6, <2>1 DEF IInv, TypeOK
  <2>2. CASE b # c
    <3>1. inst'[b] = inst[b] /\ \A d \in Clients : inst'[d].tmp = inst[d].tmp
      BY <1>1, <1>5, <2>2 DEF IInv, TypeOK
    <3>2. inst[b].tmp # t
      BY <1>2, <2>2
    <3>3. kit'[inst[b].tmp] = kit[inst[b].tmp]
      BY <1>4, <3>2 DEF IInv, TypeOK
    <3>4. QED
      BY <1>6, <3>1, <3>3 DEF IInv, TempsPrivate
  <2>3. QED
    BY <2>1, <2>2
<1>10. KnownBytes'
  BY <1>2, <1>4 DEF IInv, TypeOK, KnownBytes
<1>11. QED
  BY <1>7, <1>8, <1>9, <1>10 DEF IInv

\* The rename puts at a kit path what the write put in its own temporary file.
LEMMA PublishStep ==
    ASSUME IInv, NEW c \in Clients, Publish(c)
    PROVE  IInv'
<1> DEFINE t == inst[c].tmp
           f == Target(c)
           bytes == Bytes[Plugin[c]][f]
<1>1. /\ quarantine' = quarantine /\ placed' = placed /\ used' = used
      /\ inst[c].pc = "publish"
      /\ inst[c] \in InstType /\ Plugin[c] \in Versions
      /\ inst[c].i \in 1..Len(Rels(Plugin[c], inst[c].tier))
  BY TypeFacts DEF Publish, IInv, Cursor, TypeOK
<1>2. CASE kit[t] = Absent
  BY <1>1, <1>2, StopStep DEF Publish, Exits, IInv, TypeOK
<1>3. CASE kit[t] # Absent
  <2>1. /\ t \in Temps /\ t \notin Paths /\ kit[t] = bytes
        /\ \A d \in Clients \ {c} : inst[d].tmp # t
    BY <1>1, <1>3, PathsAssumption DEF IInv, TempsPrivate
  <2>2. f \in Paths /\ bytes \in Versions
    BY <1>1, RelsShape, TypeFacts DEF Target, InstType
  <2>3. kit' = [kit EXCEPT ![f] = bytes, ![t] = Absent]
    BY <1>3, <2>1 DEF Publish
  <2>4. PICK r \in InstType :
           /\ inst' = [inst EXCEPT ![c] = r]
           /\ r.pc \in {"idle", "copy"} /\ r.tmp = None
           /\ r.i \in 1..Len(Rels(Plugin[c], r.tier))
           /\ r.pc = "idle" => r.i = 1
    <3>1. CASE f = Stamp
      <4>1. /\ Idle("ok") \in InstType /\ Idle("ok").i = 1
            /\ Idle("ok").pc = "idle" /\ Idle("ok").tmp = None
            /\ Idle("ok").tier \in Tiers
        BY TypeFacts DEF Idle, Exits, Tiers
      <4>2. QED
        BY <1>1, <1>3, <3>1, <4>1, TypeFacts DEF Publish, Stop, SetInst
    <3>2. CASE f # Stamp
      <4> DEFINE q == [inst[c] EXCEPT !.pc = "copy", !.i = @ + 1, !.tmp = None]
      <4>1. inst' = [inst EXCEPT ![c] = q]
        BY <1>3, <3>2 DEF Publish, SetInst
      <4>2. /\ q \in InstType /\ q.pc = "copy" /\ q.tmp = None
            /\ q.tier = inst[c].tier /\ q.i = inst[c].i + 1
        <5>1. inst[c].i + 1 \in Nat /\ "copy" \in PCs /\ None \in Temps \cup {None}
          BY <1>1 DEF InstType, PCs
        <5>2. q \in InstType
          BY <1>1, <5>1 DEF InstType
        <5>3. QED
          BY <1>1, <5>2 DEF InstType
      <4> HIDE DEF q
      <4>3. inst[c].i # Len(Rels(Plugin[c], inst[c].tier))
        BY <1>1, <3>2, RelsShape DEF Target, InstType
      <4>4. q.i \in 1..Len(Rels(Plugin[c], q.tier))
        BY <1>1, <4>2, <4>3, RelsShape DEF InstType
      <4>5. QED
        BY <4>1, <4>2, <4>4
    <3>3. QED
      BY <3>1, <3>2
  <2>5. TypeOK'
    BY <1>1, <2>1, <2>2, <2>3, <2>4, TypeFacts DEF IInv, TypeOK
  <2>6. Cursor'
    BY <2>4 DEF IInv, TypeOK, Cursor
  <2>7. TempsPrivate'
    <3> SUFFICES ASSUME NEW b \in Clients, inst'[b].pc \in {"fill", "publish"}
                 PROVE  /\ inst'[b].tmp \in Temps
                        /\ kit'[inst'[b].tmp] \in
                             {Absent, IF inst'[b].pc = "fill" THEN Torn
                                      ELSE Bytes[Plugin[b]][Target(b)']}
                        /\ \A d \in Clients \ {b} : inst'[d].tmp # inst'[b].tmp
      BY DEF TempsPrivate
    <3>1. b # c /\ inst'[b] = inst[b] /\ Target(b)' = Target(b)
      BY <2>4 DEF IInv, TypeOK, Target
    <3>2. /\ inst[b].tmp \in Temps /\ inst[b].tmp # t
          /\ inst'[c].tmp = None
      BY <2>1, <2>4, <3>1 DEF IInv, TypeOK, TempsPrivate
    <3>3. kit'[inst[b].tmp] = kit[inst[b].tmp]
      BY <2>2, <2>3, <3>2, PathsAssumption DEF IInv, TypeOK
    <3>4. QED
      BY <2>4, <3>1, <3>2, <3>3, PathsAssumption DEF IInv, TypeOK, TempsPrivate
  <2>8. KnownBytes'
    BY <1>1, <2>1, <2>2, <2>3 DEF IInv, TypeOK, KnownBytes
  <2>9. QED
    BY <2>5, <2>6, <2>7, <2>8 DEF IInv
<1>4. QED
  BY <1>2, <1>3

LEMMA StepPreserves == IInv /\ [Next]_vars => IInv'
<1> SUFFICES ASSUME IInv, [Next]_vars PROVE IInv'
  OBVIOUS
<1> USE BoundsAssumption
<1>1. ASSUME NEW c \in Clients, NEW tier \in Tiers, NEW repair \in RepairFlags,
             Begin(c, tier, repair)
      PROVE  IInv'
  <2>1. used' \in [begins : 0..MaxBegins, crashes : 0..MaxCrashes,
                   disturbs : 0..MaxDisturbs]
    BY <1>1 DEF Begin, IInv, TypeOK
  <2>2. QED
    BY <1>1, <2>1, ReadStampStep, ClientsAssumption DEF Begin
<1>2. ASSUME NEW c \in Clients, Refresh(c)
      PROVE  IInv'
  BY <1>2, ReadStampStep DEF Refresh, Tiers, IInv, TypeOK
<1>3. ASSUME NEW c \in Clients, Scan(c) PROVE IInv'
  BY <1>3, ScanStep
<1>4. ASSUME NEW c \in Clients, NEW p \in inst[c].unexp, MoveAside(c, p) PROVE IInv'
  BY <1>4, MoveAsideStep
<1>5. ASSUME NEW c \in Clients, CopyFile(c) PROVE IInv'
  BY <1>5, CopyFileStep
<1>6. ASSUME NEW c \in Clients, FillTemp(c) PROVE IInv'
  BY <1>6, FillTempStep
<1>7. ASSUME NEW c \in Clients, Publish(c) PROVE IInv'
  BY <1>7, PublishStep
<1>8. ASSUME NEW c \in Clients, Crash(c) PROVE IInv'
  <2>1. used' \in [begins : 0..MaxBegins, crashes : 0..MaxCrashes,
                   disturbs : 0..MaxDisturbs]
    BY <1>8 DEF Crash, IInv, TypeOK
  <2>2. QED
    BY <1>8, <2>1, StopStep DEF Crash, Exits
<1>9. ASSUME NEW d \in Disturbances, Disturb(d[1], d[2]) PROVE IInv'
  <2>1. used' \in [begins : 0..MaxBegins, crashes : 0..MaxCrashes,
                   disturbs : 0..MaxDisturbs]
    BY <1>9 DEF Disturb, IInv, TypeOK
  <2>2. d[1] \in Paths /\ d[2] \in Works \cup {Link, Absent}
    BY ContentAssumption
  <2>3. placed' \in [Works -> Paths \cup {None}]
    BY <1>9, <2>2 DEF Disturb, IInv, TypeOK
  <2>4. QED
    BY <1>9, <2>1, <2>2, <2>3, KitOnlyStep DEF Disturb
<1>10. ASSUME NEW p \in Paths, RemoveLink(p) PROVE IInv'
  BY <1>10, KitOnlyStep DEF RemoveLink, IInv, TypeOK
<1>11. CASE UNCHANGED vars
  BY <1>11 DEF vars, IInv, TypeOK, Cursor, TempsPrivate, KnownBytes, Target
<1>12. QED
  BY <1>1, <1>2, <1>3, <1>4, <1>5, <1>6, <1>7, <1>8, <1>9, <1>10, <1>11
     DEF Next, Step

LEMMA Invariance == Spec => []IInv
  BY InitIInv, StepPreserves, PTL DEF Spec

\* In every behaviour the variables keep their types (kernel_kit.py, install and check).
THEOREM TypeCorrect == Spec => []TypeOK
<1>1. IInv => TypeOK
  BY DEF IInv
<1>2. QED
  BY <1>1, Invariance, PTL

\* No two writes ever share a temporary file, whatever installs interleave (_write).
THEOREM PrivateTemps == Spec => []TempsPrivate
<1>1. IInv => TempsPrivate
  BY DEF IInv
<1>2. QED
  BY <1>1, Invariance, PTL

\* A kit path never shows torn bytes or another file's, for any number of clients,
\* versions, crashes and disturbances (_write, os.replace).
THEOREM OnlyKnownBytes == Spec => []KnownBytes
<1>1. IInv => KnownBytes
  BY DEF IInv
<1>2. QED
  BY <1>1, Invariance, PTL

-----------------------------------------------------------------------------
(* What any step can do to the record of one client: end its install,      *)
(* begin one, or take the install one step on.                             *)

Ends(c) == inst'[c].pc = "idle" /\ inst'[c].i = 1 /\ inst'[c].unexp = {}

Begins(c) ==
    /\ inst'[c].pc = "scan" /\ inst'[c].i = 1 /\ inst'[c].unexp = {}
    /\ inst'[c].have = kit[Stamp]
    /\ ~RefusedNewer(Plugin[c], inst'[c].repair)

Advances(c) ==
    \/ Publish(c) /\ kit[inst[c].tmp] # Absent
    \/ CopyFile(c) /\ UpToDate(c, Target(c)) /\ kit' = kit

Continues(c) ==
    /\ inst[c].pc # "idle"
    /\ inst'[c].have = inst[c].have /\ inst'[c].repair = inst[c].repair
    /\ inst'[c].unexp \subseteq inst[c].unexp \cup Unexpected(Plugin[c])
    /\ \/ inst'[c].i = inst[c].i
       \/ /\ inst'[c].i = inst[c].i + 1 /\ inst[c].pc \in {"copy", "publish"}
          /\ Advances(c)

LEMMA StopEnds ==
    ASSUME IInv, NEW c \in Clients, NEW exit, Stop(c, exit)
    PROVE  Ends(c)
  BY DEF Stop, SetInst, Idle, Ends, IInv, TypeOK

LEMMA ReadStampInst ==
    ASSUME IInv, NEW c \in Clients, NEW tier \in Tiers, NEW repair \in BOOLEAN,
           ReadStamp(c, tier, repair)
    PROVE  Ends(c) \/ Begins(c)
<1> DEFINE r == [Idle("none") EXCEPT !.pc = "scan", !.tier = tier,
                                     !.repair = repair, !.have = kit[Stamp]]
<1>1. CASE \E exit \in Exits : Stop(c, exit)
  BY <1>1, StopEnds
<1>2. CASE SetInst(c, r) /\ ~RefusedNewer(Plugin[c], repair)
  <2>1. /\ r.pc = "scan" /\ r.i = 1 /\ r.unexp = {} /\ r.have = kit[Stamp]
        /\ r.repair = repair
    BY DEF Idle
  <2>2. inst'[c] = r
    BY <1>2 DEF SetInst, IInv, TypeOK
  <2> HIDE DEF r
  <2>3. QED
    BY <1>2, <2>1, <2>2 DEF Begins
<1>3. QED
  BY <1>1, <1>2 DEF ReadStamp, Exits

LEMMA InstStep ==
    ASSUME IInv, [Next]_vars, NEW c \in Clients, inst'[c] # inst[c]
    PROVE  Ends(c) \/ Begins(c) \/ Continues(c)
<1> USE DEF IInv, TypeOK
<1>1. inst[c] \in InstType
  OBVIOUS
<1>2. ASSUME NEW b \in Clients, NEW r, SetInst(b, r)
      PROVE  b = c /\ inst'[c] = r
  BY <1>2 DEF SetInst
<1>3. ASSUME NEW b \in Clients, NEW tier \in Tiers, NEW repair \in BOOLEAN,
             ReadStamp(b, tier, repair)
      PROVE  Ends(c) \/ Begins(c)
  <2>1. b = c
    BY <1>2, <1>3 DEF ReadStamp, Stop
  <2>2. QED
    BY <1>3, <2>1, ReadStampInst
<1>4. ASSUME NEW b \in Clients, Scan(b)
      PROVE  Ends(c) \/ Continues(c)
  <2> DEFINE found == Unexpected(Plugin[c])
             r == [inst[c] EXCEPT !.unexp = found,
                                  !.pc = IF found = {} THEN "copy" ELSE "move"]
  <2>1. b = c
    BY <1>2, <1>4 DEF Scan, Stop
  <2>2. CASE Stop(c, "refused")
    BY <2>2, StopEnds
  <2>3. CASE SetInst(c, r)
    <3>1. inst'[c] = r
      BY <1>2, <2>3
    <3>2. /\ r.have = inst[c].have /\ r.repair = inst[c].repair /\ r.i = inst[c].i
          /\ r.unexp = found
      BY <1>1 DEF InstType
    <3> HIDE DEF r
    <3>3. QED
      BY <1>4, <2>1, <3>1, <3>2 DEF Scan, Continues
  <2>4. QED
    BY <1>4, <2>1, <2>2, <2>3 DEF Scan
<1>5. ASSUME NEW b \in Clients, NEW p \in inst[b].unexp, MoveAside(b, p)
      PROVE  Ends(c) \/ Continues(c)
  <2> DEFINE r == [inst[c] EXCEPT !.unexp = @ \ {p},
                                  !.pc = AfterMove(inst[c].unexp \ {p})]
  <2>1. b = c
    BY <1>2, <1>5 DEF MoveAside, Stop
  <2>2. Stop(c, "failed") \/ inst'[c] = r
    BY <1>2, <1>5, <2>1 DEF MoveAside
  <2>3. /\ r.have = inst[c].have /\ r.repair = inst[c].repair /\ r.i = inst[c].i
        /\ r.unexp \subseteq inst[c].unexp
    BY <1>1 DEF InstType
  <2> HIDE DEF r
  <2>4. QED
    BY <1>5, <2>1, <2>2, <2>3, StopEnds DEF MoveAside, Continues
<1>6. ASSUME NEW b \in Clients, CopyFile(b)
      PROVE  Ends(c) \/ Continues(c)
  <2>1. b = c
    BY <1>2, <1>6 DEF CopyFile, Stop
  <2>2. CASE Stop(c, "refused")
    BY <2>2, StopEnds
  <2>3. CASE UpToDate(c, Target(c)) /\ kit' = kit /\ SetInst(c, [inst[c] EXCEPT !.i = @ + 1])
    <3>1. /\ inst'[c].i = inst[c].i + 1 /\ inst'[c].have = inst[c].have
          /\ inst'[c].repair = inst[c].repair /\ inst'[c].unexp = inst[c].unexp
      BY <1>1, <1>2, <2>3 DEF InstType
    <3>2. QED
      BY <1>6, <2>1, <2>3, <3>1 DEF CopyFile, Continues, Advances
  <2>4. CASE \E t : SetInst(c, [inst[c] EXCEPT !.pc = "fill", !.tmp = t])
    <3> PICK t : SetInst(c, [inst[c] EXCEPT !.pc = "fill", !.tmp = t])
      BY <2>4
    <3>1. inst'[c] = [inst[c] EXCEPT !.pc = "fill", !.tmp = t]
      BY <1>2
    <3>2. /\ inst'[c].i = inst[c].i /\ inst'[c].have = inst[c].have
          /\ inst'[c].repair = inst[c].repair /\ inst'[c].unexp = inst[c].unexp
      BY <1>1, <3>1 DEF InstType
    <3>3. QED
      BY <1>6, <2>1, <3>2 DEF CopyFile, Continues
  <2>5. QED
    BY <1>6, <2>1, <2>2, <2>3, <2>4 DEF CopyFile
<1>7. ASSUME NEW b \in Clients, FillTemp(b)
      PROVE  Continues(c)
  <2>1. b = c /\ inst'[c] = [inst[c] EXCEPT !.pc = "publish"]
    BY <1>2, <1>7 DEF FillTemp
  <2>2. /\ inst'[c].i = inst[c].i /\ inst'[c].have = inst[c].have
        /\ inst'[c].repair = inst[c].repair /\ inst'[c].unexp = inst[c].unexp
    BY <1>1, <2>1 DEF InstType
  <2>3. QED
    BY <1>7, <2>1, <2>2 DEF FillTemp, Continues
<1>8. ASSUME NEW b \in Clients, Publish(b)
      PROVE  Ends(c) \/ Continues(c)
  <2> DEFINE r == [inst[c] EXCEPT !.pc = "copy", !.i = @ + 1, !.tmp = None]
  <2>1. b = c
    BY <1>2, <1>8 DEF Publish, Stop
  <2>2. CASE \E exit \in Exits : Stop(c, exit)
    BY <2>2, StopEnds
  <2>3. CASE kit[inst[c].tmp] # Absent /\ SetInst(c, r)
    <3>1. inst'[c] = r
      BY <1>2, <2>3
    <3>2. /\ r.i = inst[c].i + 1 /\ r.have = inst[c].have
          /\ r.repair = inst[c].repair /\ r.unexp = inst[c].unexp
      BY <1>1 DEF InstType
    <3> HIDE DEF r
    <3>3. QED
      BY <1>8, <2>1, <2>3, <3>1, <3>2 DEF Publish, Continues, Advances
  <2>4. QED
    BY <1>8, <2>1, <2>2, <2>3 DEF Publish, Exits
<1>9. ASSUME NEW b \in Clients, Crash(b)
      PROVE  Ends(c)
  BY <1>2, <1>9, StopEnds DEF Crash, Stop
<1>10. QED
  BY <1>3, <1>4, <1>5, <1>6, <1>7, <1>8, <1>9, ClientsAssumption
     DEF Next, Step, Begin, Refresh, Disturb, RemoveLink, vars, Tiers

-----------------------------------------------------------------------------
(* What any step can do to one kit path.                                   *)

\* A write only ever goes to a path of the client's own manifest, or to KIT.json.
LEMMA TargetListed ==
    ASSUME IInv, NEW c \in Clients
    PROVE  Target(c) \in Listed(Plugin[c]) \cup {Stamp}
<1> DEFINE v == Plugin[c]
           tier == inst[c].tier
<1>1. v \in Versions /\ tier \in Tiers /\ inst[c].i \in 1..Len(Rels(v, tier))
  BY TypeFacts DEF IInv, TypeOK, InstType, Cursor
<1>2. Core[v] \in Seq(Paths \ {Stamp}) /\ OnDemand[v] \in Seq(Paths \ {Stamp})
  BY <1>1, VersionsAssumption
<1>3. Core[v] \in Seq(Listed(v)) /\ OnDemand[v] \in Seq(Listed(v))
  BY <1>2 DEF Listed, Elements
<1> DEFINE S == Listed(v) \cup {Stamp}
           tail == IF tier = "all" THEN OnDemand[v] ELSE <<>>
<1>4. Core[v] \in Seq(S) /\ tail \in Seq(S) /\ <<Stamp>> \in Seq(S)
  BY <1>3
<1> HIDE DEF S, tail
<1>5. (Core[v] \o tail) \o <<Stamp>> \in Seq(S)
  BY <1>4, ConcatProperties
<1>6. Rels(v, tier) \in Seq(S)
  BY <1>5 DEF Rels, tail
<1>7. QED
  BY <1>1, <1>6 DEF Target, S

\* A kit path keeps its bytes, or is published by a client that lists it, or is moved to
\* the quarantine by a client whose sweep found it, or is touched by the owner.
LEMMA PathStep ==
    ASSUME IInv, [Next]_vars, NEW p \in Paths, kit'[p] # kit[p]
    PROVE  \/ \E c \in Clients :
                 /\ inst[c].pc = "publish" /\ Publish(c) /\ p = Target(c)
                 /\ kit'[p] = Bytes[Plugin[c]][p]
           \/ /\ \E c \in Clients : p \in inst[c].unexp
              /\ kit'[p] = Absent /\ quarantine' = quarantine \cup {<<p, kit[p]>>}
           \/ \E b : Disturb(p, b) /\ kit'[p] = b /\ <<p, b>> \in Disturbances
           \/ kit[p] = Link /\ kit'[p] = Absent
<1>1. ASSUME NEW c \in Clients, Publish(c)
      PROVE  /\ inst[c].pc = "publish" /\ p = Target(c)
             /\ kit'[p] = Bytes[Plugin[c]][p]
  <2>1. /\ inst[c].pc = "publish" /\ inst[c].tmp \in Temps
        /\ inst[c].tmp \notin Paths
        /\ kit[inst[c].tmp] = Bytes[Plugin[c]][Target(c)]
    BY <1>1, PathsAssumption DEF Publish, IInv, TempsPrivate
  <2>2. kit' = [kit EXCEPT ![Target(c)] = kit[inst[c].tmp], ![inst[c].tmp] = Absent]
    BY <1>1 DEF Publish
  <2>3. QED
    BY <2>1, <2>2 DEF IInv, TypeOK
<1>2. ASSUME NEW c \in Clients, NEW q \in inst[c].unexp, MoveAside(c, q)
      PROVE  /\ p \in inst[c].unexp
             /\ kit'[p] = Absent /\ quarantine' = quarantine \cup {<<p, kit[p]>>}
  BY <1>2 DEF MoveAside, Quarantined, IInv, TypeOK
<1>3. ASSUME NEW c \in Clients, CopyFile(c)
      PROVE  FALSE
  BY <1>3, PathsAssumption DEF CopyFile, FreshTemps, IInv, TypeOK
<1>4. ASSUME NEW c \in Clients, FillTemp(c)
      PROVE  FALSE
  BY <1>4, PathsAssumption DEF FillTemp, IInv, TypeOK, TempsPrivate
<1>5. ASSUME NEW d \in Disturbances, Disturb(d[1], d[2])
      PROVE  Disturb(p, d[2]) /\ kit'[p] = d[2] /\ <<p, d[2]>> \in Disturbances
  <2>1. d[1] \in Paths /\ kit' = [kit EXCEPT ![d[1]] = d[2]]
        /\ <<d[1], d[2]>> \in Disturbances
    BY <1>5, ContentAssumption DEF Disturb
  <2>2. p = d[1]
    BY <2>1 DEF IInv, TypeOK
  <2>3. QED
    BY <1>5, <2>1, <2>2 DEF IInv, TypeOK
<1>6. ASSUME NEW q \in Paths, RemoveLink(q)
      PROVE  kit[p] = Link /\ kit'[p] = Absent
  BY <1>6 DEF RemoveLink, IInv, TypeOK
<1>7. QED
  BY <1>1, <1>2, <1>3, <1>4, <1>5, <1>6
     DEF Next, Step, Begin, Refresh, ReadStamp, Scan, Crash, vars

-----------------------------------------------------------------------------
(* The stamp goes down only by a race: what an install read at its start   *)
(* was no newer than its plugin.                                           *)

ReadNotNewer ==
    \A c \in Clients :
        inst[c].pc # "idle" /\ ~inst[c].repair /\ inst[c].have \in Versions =>
            inst[c].have <= Plugin[c]

LEMMA ReadNotNewerStep ==
    IInv /\ ReadNotNewer /\ [Next]_vars => ReadNotNewer'
<1> SUFFICES ASSUME IInv, ReadNotNewer, [Next]_vars,
                    NEW c \in Clients,
                    inst'[c].pc # "idle", ~inst'[c].repair, inst'[c].have \in Versions
             PROVE  inst'[c].have <= Plugin[c]
  BY DEF ReadNotNewer
<1>1. CASE inst'[c] = inst[c] \/ Continues(c)
  BY <1>1 DEF ReadNotNewer, Continues
<1>2. CASE Begins(c)
  BY <1>2, ClientsAssumption, VersionsAssumption DEF Begins, RefusedNewer
<1>3. QED
  BY <1>1, <1>2, InstStep DEF Ends

\* Without --repair the stamp goes down only under an install that read an older one:
\* for any number of clients and versions (install).
THEOREM DowngradeNeedsRace == Spec => DownOnlyByRace
<1>1. Init => ReadNotNewer
  BY DEF Init, ReadNotNewer, Idle
<1>2. IInv /\ ReadNotNewer /\ [Next]_vars =>
        [\A c \in Clients : Lowers(c) => inst[c].have # kit[Stamp]]_vars
  <2> SUFFICES ASSUME IInv, ReadNotNewer, [Next]_vars,
                      NEW c \in Clients, Lowers(c), inst[c].have = kit[Stamp]
               PROVE  FALSE
    BY DEF vars
  <2>1. kit[Stamp] \in Versions /\ kit'[Stamp] # kit[Stamp]
    <3>1. kit[Stamp] \in Versions /\ kit'[Stamp] \in Versions /\ kit'[Stamp] < kit[Stamp]
      BY DEF Lowers
    <3>2. kit[Stamp] \in Nat /\ kit'[Stamp] \in Nat
      BY <3>1, VersionsAssumption
    <3>3. QED
      BY <3>1, <3>2
  <2>2. inst[c].have <= Plugin[c]
    BY <2>1 DEF Lowers, ReadNotNewer
  <2>3. \E d \in Clients : Publish(d) /\ Stamp = Target(d)
    <3>1. kit'[Stamp] \in Versions
      BY DEF Lowers
    <3>2. \A b : <<Stamp, b>> \in Disturbances => b \notin Versions
      BY ContentAssumption
    <3>3. Absent \notin Versions
      BY ContentAssumption
    <3>4. QED
      BY <2>1, <3>1, <3>2, <3>3, PathsAssumption, PathStep
  <2>4. Publish(c) /\ Target(c) = Stamp
    BY <2>3 DEF Lowers, Publish, Stop, SetInst, IInv, TypeOK
  <2>5. kit[inst[c].tmp] # Absent
    BY <2>1, <2>4 DEF Publish
  <2>7. kit'[Stamp] = Plugin[c]
    <3>1. /\ inst[c].tmp \in Temps /\ inst[c].tmp # Stamp
          /\ kit[inst[c].tmp] = Bytes[Plugin[c]][Stamp]
      BY <2>4, <2>5, PathsAssumption DEF Publish, IInv, TempsPrivate
    <3>2. kit' = [kit EXCEPT ![Stamp] = kit[inst[c].tmp], ![inst[c].tmp] = Absent]
      BY <2>4, <2>5 DEF Publish
    <3>3. QED
      BY <3>1, <3>2, PathsAssumption, VersionsAssumption, ClientsAssumption
         DEF IInv, TypeOK
  <2>8. Plugin[c] \in Nat /\ kit[Stamp] \in Nat
    BY <2>1, VersionsAssumption, ClientsAssumption
  <2>9. kit[Stamp] <= Plugin[c] /\ Plugin[c] < kit[Stamp]
    BY <2>2, <2>7 DEF Lowers
  <2>10. QED
    BY <2>8, <2>9
<1>3. QED
  BY <1>1, <1>2, Invariance, ReadNotNewerStep, PTL DEF Spec, DownOnlyByRace

-----------------------------------------------------------------------------
(* What the owner puts in the folder.                                      *)

\* What someone puts at a path no plugin lists is never lost (_quarantine).
THEOREM OwnerWorkNeverLost == Spec => []OwnerWorkKept
<1>1. Init => OwnerWorkKept
  BY PathsAssumption DEF Init, OwnerWorkKept, Strays
<1>2. IInv /\ OwnerWorkKept /\ [Next]_vars => OwnerWorkKept'
  <2> SUFFICES ASSUME IInv, OwnerWorkKept, [Next]_vars,
                      NEW w \in Works, placed'[w] \in Strays
               PROVE  kit'[placed'[w]] = w \/ <<placed'[w], w>> \in quarantine'
    BY DEF OwnerWorkKept, Strays, Listed
  <2>1. quarantine \subseteq quarantine'
    BY DEF Next, Step, Begin, Refresh, ReadStamp, Scan, MoveAside, Quarantined, CopyFile,
           FillTemp, Publish, Crash, Disturb, RemoveLink, vars
  <2>2. CASE placed'[w] = placed[w]
    <3> DEFINE p == placed[w]
    <3>1. p \in Strays /\ p \in Paths
      BY <2>2 DEF Strays
    <3>2. CASE <<p, w>> \in quarantine
      BY <2>1, <2>2, <3>2
    <3>3. CASE kit[p] = w /\ kit'[p] = kit[p]
      BY <2>2, <3>3
    <3>4. CASE kit[p] = w /\ kit'[p] # kit[p]
      <4>1. ~\E c \in Clients : p = Target(c)
        BY <3>1, TargetListed DEF Strays
      <4>2. w # Link
        BY ContentAssumption
      <4>3. ~\E b : Disturb(p, b)
        BY <3>4 DEF Disturb
      <4>4. quarantine' = quarantine \cup {<<p, kit[p]>>}
        BY <3>1, <3>4, <4>1, <4>2, <4>3, PathStep
      <4>5. QED
        BY <2>2, <3>4, <4>4
    <3>5. QED
      BY <3>1, <3>2, <3>3, <3>4 DEF OwnerWorkKept
  <2>3. CASE placed'[w] # placed[w]
    <3>1. PICK d \in Disturbances : Disturb(d[1], d[2])
      BY <2>3 DEF Next, Step, Begin, Refresh, ReadStamp, Scan, MoveAside, CopyFile,
                  FillTemp, Publish, Crash, RemoveLink, vars
    <3>2. placed' = [placed EXCEPT ![d[2]] = d[1]] /\ kit' = [kit EXCEPT ![d[1]] = d[2]]
      BY <2>3, <3>1 DEF Disturb
    <3>3. d[1] \in Paths
      BY ContentAssumption
    <3>4. QED
      BY <2>3, <3>2, <3>3 DEF IInv, TypeOK
  <2>4. QED
    BY <2>2, <2>3
<1>3. QED
  BY <1>1, <1>2, Invariance, PTL DEF Spec

-----------------------------------------------------------------------------
(* A fleet on one version: KIT.json never runs ahead of the core files.    *)

\* What the copying order and the sweep maintain while installs of version v interleave.
FleetInv(v) ==
    /\ \A p \in Listed(v) \cup {Stamp} : kit[p] # Link
    /\ \A c \in Clients : inst[c].unexp \cap (Listed(v) \cup {Stamp}) = {}
    /\ \A c \in Clients, j \in 1..Len(Core[v]) :
          inst[c].pc \in {"copy", "fill", "publish"} /\ j < inst[c].i =>
              kit[Core[v][j]] = Bytes[v][Core[v][j]]
    /\ kit[Stamp] = v =>
          \A j \in 1..Len(Core[v]) : kit[Core[v][j]] = Bytes[v][Core[v][j]]

LEMMA FleetInit ==
    ASSUME Init, NEW v \in Versions, OneFleet(v)
    PROVE  FleetInv(v)
<1>1. Core[v] \in Seq(Paths \ {Stamp}) /\ OnDemand[v] \in Seq(Paths \ {Stamp})
  BY VersionsAssumption
<1>2. Listed(v) \subseteq Paths /\ \A j \in 1..Len(Core[v]) : Core[v][j] \in Listed(v)
  BY <1>1 DEF Listed, Elements
<1>3. \A c \in Clients : inst[c].unexp = {} /\ inst[c].pc = "idle"
  BY DEF Init, Idle
<1>4. /\ \A p \in Paths : kit[p] # Link
      /\ kit[Stamp] = v =>
           \A j \in 1..Len(Core[v]) : kit[Core[v][j]] = Bytes[v][Core[v][j]]
  <2>1. CASE kit = [p \in Paths \cup Temps |-> Absent]
    BY <2>1, PathsAssumption, ContentAssumption
  <2>2. ASSUME NEW u \in Versions, NEW tier \in Tiers, kit = Installed(u, tier)
        PROVE  <1>4
    <3>1. \A p \in Paths : kit[p] = IF p = Stamp \/ p \in Required(u, tier)
                                   THEN Bytes[u][p] ELSE Absent
      BY <2>2 DEF Installed
    <3>2. \A p \in Paths : kit[p] # Link
      BY <3>1, TypeFacts, ContentAssumption
    <3>3. kit[Stamp] = u
      BY <3>1, PathsAssumption, VersionsAssumption
    <3>4. \A j \in 1..Len(Core[v]) : Core[v][j] \in Required(v, tier)
      BY DEF Required, Elements
    <3>5. QED
      BY <1>2, <3>1, <3>2, <3>3, <3>4
  <2>3. QED
    BY <2>1, <2>2 DEF Init
<1>5. QED
  BY <1>2, <1>3, <1>4, PathsAssumption, ContentAssumption DEF FleetInv

LEMMA FleetStep ==
    ASSUME IInv, [Next]_vars, NEW v \in Versions, OneFleet(v), FleetInv(v)
    PROVE  FleetInv(v)'
<1> DEFINE Mine == Listed(v) \cup {Stamp}
<1>1. Core[v] \in Seq(Paths \ {Stamp}) /\ OnDemand[v] \in Seq(Paths \ {Stamp})
  BY VersionsAssumption
<1>2. /\ Mine \subseteq Paths
      /\ \A j \in 1..Len(Core[v]) : Core[v][j] \in Mine /\ Core[v][j] # Stamp
  BY <1>1, PathsAssumption DEF Listed, Elements
<1>3. \A c \in Clients : Plugin[c] = v
  BY DEF OneFleet
<1>4. ASSUME NEW p \in Mine, kit'[p] # kit[p]
      PROVE  kit'[p] = Bytes[v][p] /\ \E c \in Clients : Publish(c) /\ p = Target(c)
  <2>1. \A c \in Clients : p \notin inst[c].unexp
    BY DEF FleetInv
  <2>2. \A b : <<p, b>> \notin Disturbances
    BY DEF OneFleet
  <2>3. kit[p] # Link
    BY DEF FleetInv
  <2>4. QED
    BY <1>2, <1>3, <1>4, <2>1, <2>2, <2>3, PathStep
<1>5. \A p \in Mine : kit'[p] # Link
  BY <1>2, <1>4, TypeFacts, ContentAssumption DEF FleetInv
<1>6. \A c \in Clients : inst'[c].unexp \cap Mine = {}
  <2> SUFFICES ASSUME NEW c \in Clients, inst'[c] # inst[c]
               PROVE  inst'[c].unexp \cap Mine = {}
    BY DEF FleetInv
  <2>1. inst'[c].unexp \subseteq inst[c].unexp \cup Unexpected(v) \/ inst'[c].unexp = {}
    BY <1>3, InstStep DEF Ends, Begins, Continues
  <2>2. Unexpected(v) \cap Mine = {}
    BY DEF Unexpected, FleetInv
  <2>3. QED
    BY <2>1, <2>2 DEF FleetInv
<1>7. \A j \in 1..Len(Core[v]) :
        kit[Core[v][j]] = Bytes[v][Core[v][j]] => kit'[Core[v][j]] = Bytes[v][Core[v][j]]
  BY <1>2, <1>4
<1>8. ASSUME NEW c \in Clients, NEW j \in 1..Len(Core[v]),
             inst'[c].pc \in {"copy", "fill", "publish"}, j < inst'[c].i
      PROVE  kit'[Core[v][j]] = Bytes[v][Core[v][j]]
  <2> DEFINE f == Core[v][j]
  <2>1. /\ inst[c] \in InstType /\ inst'[c] \in InstType
        /\ inst[c].i \in 1..Len(Rels(v, inst[c].tier))
    <3>1. IInv'
      BY StepPreserves
    <3>2. QED
      BY <1>3, <3>1 DEF IInv, TypeOK, Cursor
  <2>2. CASE inst[c].pc \in {"copy", "fill", "publish"} /\ j < inst[c].i
    BY <1>7, <2>2 DEF FleetInv
  <2>3. CASE inst[c].pc \in {"idle", "scan", "move"}
    <3>1. inst[c].i = 1
      BY <2>3 DEF IInv, Cursor
    <3>2. inst'[c].i = 1
      BY <2>3, <3>1, InstStep DEF Ends, Begins, Continues
    <3>3. QED
      BY <1>1, <1>8, <3>2
  <2>4. CASE inst[c].pc \in {"copy", "fill", "publish"} /\ ~(j < inst[c].i)
    <3>1. inst'[c].i > inst[c].i
      BY <1>1, <1>8, <2>1, <2>4 DEF InstType
    <3>2. inst'[c].i = inst[c].i + 1 /\ Advances(c)
      BY <1>8, <2>1, <3>1, InstStep DEF Ends, Begins, Continues, InstType
    <3>3. j = inst[c].i
      BY <1>1, <1>8, <2>1, <2>4, <3>2 DEF InstType
    <3>4. Target(c) = f
      BY <1>1, <1>3, <2>1, <3>3, RelsShape DEF Target, InstType
    <3>5. CASE Publish(c) /\ kit[inst[c].tmp] # Absent
      <4>1. /\ kit[inst[c].tmp] = Bytes[v][f] /\ inst[c].tmp \in Temps
            /\ inst[c].tmp # f
        BY <1>2, <1>3, <3>4, <3>5, PathsAssumption DEF Publish, IInv, TempsPrivate
      <4>2. kit' = [kit EXCEPT ![f] = kit[inst[c].tmp], ![inst[c].tmp] = Absent]
        BY <3>4, <3>5 DEF Publish
      <4>3. QED
        BY <1>2, <4>1, <4>2 DEF IInv, TypeOK
    <3>6. CASE UpToDate(c, Target(c)) /\ kit' = kit
      BY <1>3, <3>4, <3>6 DEF UpToDate
    <3>7. QED
      BY <3>2, <3>5, <3>6 DEF Advances
  <2>5. QED
    BY <2>1, <2>2, <2>3, <2>4 DEF InstType, PCs
<1>9. ASSUME kit'[Stamp] = v, NEW j \in 1..Len(Core[v])
      PROVE  kit'[Core[v][j]] = Bytes[v][Core[v][j]]
  <2>1. CASE kit[Stamp] = v
    BY <1>7, <2>1 DEF FleetInv
  <2>2. CASE kit[Stamp] # v
    <3>1. PICK c \in Clients : Publish(c) /\ Stamp = Target(c)
      BY <1>4, <1>9, <2>2
    <3>2. /\ inst[c].pc = "publish" /\ inst[c].tier \in Tiers
          /\ inst[c].i \in 1..Len(Rels(v, inst[c].tier))
      BY <1>3, <3>1 DEF Publish, IInv, TypeOK, InstType, Cursor
    <3>3. inst[c].i = Len(Rels(v, inst[c].tier))
      BY <1>3, <3>1, <3>2, RelsShape DEF Target
    <3>4. j < inst[c].i
      BY <1>1, <3>2, <3>3, RelsShape
    <3>5. QED
      BY <1>7, <3>2, <3>4 DEF FleetInv
  <2>3. QED
    BY <2>1, <2>2
<1>10. QED
  BY <1>5, <1>6, <1>8, <1>9 DEF FleetInv, Listed

\* In a fleet on one version, KIT.json saying v means the core files are version v's, at
\* every moment of any number of concurrent, crashing installs (install: stamp last).
THEOREM StampNeverAhead == Spec => []StampImpliesCore
<1> DEFINE Fleets == \A v \in Versions : OneFleet(v) => FleetInv(v)
<1>1. Init => Fleets
  BY FleetInit
<1>2. IInv /\ Fleets /\ [Next]_vars => Fleets'
  <2>1. \A v : OneFleet(v)' <=> OneFleet(v)
    BY DEF OneFleet, Listed
  <2>2. QED
    BY <2>1, FleetStep
<1>3. Fleets => StampImpliesCore
  BY DEF FleetInv, StampImpliesCore, Elements
<1> HIDE DEF Fleets
<1>4. QED
  BY <1>1, <1>2, <1>3, Invariance, PTL DEF Spec
=============================================================================
