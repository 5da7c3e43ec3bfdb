------------------------ MODULE WorkforceScan_proofs ------------------------
(***************************************************************************)
(* For any plugins, caches, copies and number of scans: while no two scans *)
(* overlap, previous.json holds the older scan, deaths included; and a     *)
(* review that no scan disturbs is of the last two, and reports what the   *)
(* hosts had then.                                                         *)
(***************************************************************************)
EXTENDS WorkforceScan, WellFoundedInduction, TLAPS

\* A file that holds a scan.
Whole(f) == f \notin {Missing, Torn}

\* A review past its first step holds a scan, and so does a scanner at work.
Reading ==
    /\ review.pc \in {"previous", "registry"} => review.latest \in Scans
    /\ \A s \in Scanners : scan[s].pc # "idle" => scan[s].snap \in Scans

\* One scan at a time, newer than what is in the files; from its rotation on, previous.json
\* is the latest there was.
Rotating ==
    /\ \A s, t \in Busy : s = t
    /\ \A s \in Busy : scan[s].snap.number = scans
    /\ \A f \in {latest, previous} : Whole(f) => f.number <= scans
    /\ \A s \in Busy : \A f \in {latest, previous} : Whole(f) => f.number < scans
    /\ \A s \in Busy : scan[s].pc = "open" /\ latest # Missing => previous = latest
    /\ \A s \in Busy : scan[s].pc = "dump" => latest = Torn
    /\ Whole(latest) /\ Whole(previous) /\ (\A s \in Busy : scan[s].pc = "rotate") =>
          previous.number < latest.number \/ (previous = latest /\ "died" \in odd)

ScanIInv == ScanTypeOK /\ Reading /\ ("overlapped" \notin odd => Rotating)

LEMMA InitScanIInv == ScanInit => ScanIInv
BY ScanAssumption DEF ScanInit, ScanIInv, ScanTypeOK, Reading, Rotating, Whole, Busy, NoScan, NoReview

\* What a scan reads is a scan's snapshot.
LEMMA SnapshotType ==
    ASSUME ScanTypeOK, NEW reg
    PROVE  Snapshot(reg) \in Scans /\ Snapshot(reg).number = scans + 1
BY DEF Snapshot, Scans, ScanTypeOK, Installed

\* What a scanner and a review are.
Scanning == [pc : {"idle", "rotate", "open", "dump"}, reg : RegistryRead \cup {Missing},
             snap : Scans \cup {Missing}]
Reviewing == [pc : {"idle", "previous", "registry", "done"}, latest : Scans \cup {Missing},
              previous : Scans \cup {Missing}, absent : SUBSET Teams, calm : BOOLEAN]

LEMMA Types ==
    ScanIInv => scan \in [Scanners -> Scanning] /\ review \in Reviewing
BY DEF ScanIInv, ScanTypeOK, Scanning, Reviewing

LEMMA ReadEntriesStep ==
    ASSUME ScanIInv, NEW s \in Scanners, ReadEntries(s)
    PROVE  ScanIInv'
<1> DEFINE read == [status |-> status, pinned |-> pinned]
           new == [scan[s] EXCEPT !.reg = read]
<1>1. read \in RegistryRead
  BY DEF ScanIInv, ScanTypeOK, RegistryRead
<1>2. scan' = [scan EXCEPT ![s] = new] /\ scan[s] \in Scanning /\ scan[s].pc = "idle"
  BY Types DEF ReadEntries
<1>3. UNCHANGED <<cache, status, pinned, latest, previous, review, scans, changes, reviews, odd>>
  BY DEF ReadEntries
<1> HIDE DEF read
<1>4. new \in Scanning /\ new.pc = "idle" /\ new.snap = scan[s].snap
  BY <1>1, <1>2 DEF Scanning
<1> HIDE DEF new
<1>5. scan' \in [Scanners -> Scanning] /\ \A t \in Scanners : scan'[t].pc = scan[t].pc
                                                          /\ scan'[t].snap = scan[t].snap
  BY <1>2, <1>4, Types
<1>6. ScanTypeOK'
  BY <1>3, <1>5 DEF ScanIInv, ScanTypeOK, Scanning
<1>7. Busy' = Busy /\ Busy \subseteq Scanners
  BY <1>5 DEF Busy
<1>8. Reading' /\ ("overlapped" \notin odd' => Rotating')
  BY <1>3, <1>5, <1>7 DEF ScanIInv, Reading, Rotating
<1>9. QED
  BY <1>6, <1>8 DEF ScanIInv

LEMMA ReadCachesStep ==
    ASSUME ScanIInv, NEW s \in Scanners, ReadCaches(s)
    PROVE  ScanIInv'
<1> DEFINE snap == Snapshot(scan[s].reg)
           new == [pc |-> "rotate", reg |-> Missing, snap |-> snap]
<1>1. /\ scan' = [scan EXCEPT ![s] = new]
      /\ scans' = scans + 1 /\ scan[s].pc = "idle"
      /\ UNCHANGED <<latest, previous>>
  BY DEF ReadCaches, Busy
<1>2. snap \in Scans /\ snap.number = scans + 1
  BY SnapshotType DEF ScanIInv
<1> HIDE DEF snap
<1>3. ScanTypeOK'
  <2> DEFINE calm == review.calm /\ review.pc \notin {"previous", "registry"}
  <2>1. new \in Scanning
    BY <1>2 DEF Scanning
  <2>2. scan' = [scan EXCEPT ![s] = new]
    BY <1>1
  <2> HIDE DEF new
  <2>3. scan' \in [Scanners -> Scanning]
    BY <2>1, <2>2, Types
  <2>4. calm \in BOOLEAN /\ review' = [review EXCEPT !.calm = calm]
    BY DEF ReadCaches
  <2> HIDE DEF calm
  <2>5. review' \in Reviewing
    BY <2>4, Types DEF Reviewing
  <2>6. odd' \subseteq {"died", "overlapped"} /\ scans' \in Nat
    BY <1>1 DEF ReadCaches, ScanIInv, ScanTypeOK
  <2>7. UNCHANGED <<cache, status, pinned, latest, previous, changes, reviews>>
    BY DEF ReadCaches
  <2>8. QED
    BY <2>3, <2>5, <2>6, <2>7 DEF ScanIInv, ScanTypeOK, Scanning, Reviewing
<1>4. Reading'
  BY <1>1, <1>2 DEF ReadCaches, ScanIInv, ScanTypeOK, Reading
<1>5. ASSUME "overlapped" \notin odd' PROVE Rotating'
  <2>1. Busy = {} /\ odd' = odd /\ Rotating
    BY <1>5 DEF ReadCaches, ScanIInv
  <2>2. \A t \in Scanners : scan'[t] = IF t = s THEN new ELSE scan[t]
    BY <1>1 DEF ScanIInv, ScanTypeOK
  <2>3. Busy' = {s}
    BY <2>1, <2>2 DEF Busy
  <2>4. scans \in Nat /\ \A f \in {latest, previous} : Whole(f) => f.number \in Nat
    BY DEF ScanIInv, ScanTypeOK, Whole, Scans
  <2>5. QED
    BY <1>1, <1>2, <2>1, <2>2, <2>3, <2>4 DEF Rotating, Whole
<1>6. QED
  BY <1>3, <1>4, <1>5 DEF ScanIInv

\* A step of the scanner at work on the two files.
LEMMA FileStep ==
    ASSUME ScanIInv, NEW s \in Scanners, Rotate(s) \/ OpenLatest(s) \/ DumpLatest(s) \/ Die(s)
    PROVE  ScanIInv'
<1>1. scan[s].snap \in Scans /\ s \in Busy
  BY DEF ScanIInv, Reading, Rotate, OpenLatest, DumpLatest, Die, Busy
<1>2. ScanTypeOK'
  <2>1. NoScan \in Scanning /\ \A pc \in {"open", "dump"} : [scan[s] EXCEPT !.pc = pc] \in Scanning
    BY Types DEF NoScan, Scanning
  <2>2. PICK new \in Scanning : scan' = [scan EXCEPT ![s] = new]
    BY <2>1 DEF Rotate, OpenLatest, DumpLatest, Die
  <2>3. scan' \in [Scanners -> Scanning]
    BY <2>2, Types
  <2>4. /\ latest' \in Scans \cup {Missing, Torn} /\ previous' \in Scans \cup {Missing, Torn}
        /\ odd' \subseteq {"died", "overlapped"}
    BY <1>1 DEF ScanIInv, ScanTypeOK, Rotate, OpenLatest, DumpLatest, Die
  <2>5. UNCHANGED <<cache, status, pinned, review, scans, changes, reviews>>
    BY DEF Rotate, OpenLatest, DumpLatest, Die
  <2>6. QED
    BY <2>3, <2>4, <2>5 DEF ScanIInv, ScanTypeOK, Scanning
<1>3. Reading'
  BY <1>1 DEF ScanIInv, ScanTypeOK, Reading, Rotate, OpenLatest, DumpLatest, Die, NoScan
<1>4. ASSUME "overlapped" \notin odd' PROVE Rotating'
  <2>1. Rotating
    BY <1>4 DEF ScanIInv, Rotate, OpenLatest, DumpLatest, Die
  <2>2. Busy = {s}
    BY <1>1, <2>1 DEF Rotating
  <2>3. /\ scans \in Nat /\ scan[s].snap.number \in Nat
        /\ \A f \in {latest, previous} : Whole(f) => f.number \in Nat
    BY <1>1 DEF ScanIInv, ScanTypeOK, Whole, Scans
  <2>4. scan \in [Scanners -> Scanning] /\ \A t \in Scanners : scan[t].pc \in {"idle", "rotate", "open", "dump"}
    BY Types DEF Scanning
  <2>5. CASE Rotate(s)
    <3>1. Busy' = {s} /\ scan'[s].pc = "open" /\ scan'[s].snap = scan[s].snap
      BY <2>2, <2>4, <2>5 DEF Rotate, Busy
    <3>2. QED
      BY <2>1, <2>2, <2>3, <2>5, <3>1 DEF Rotate, Rotating, Whole
  <2>6. CASE OpenLatest(s)
    <3>1. Busy' = {s} /\ scan'[s].pc = "dump" /\ scan'[s].snap = scan[s].snap
      BY <2>2, <2>4, <2>6 DEF OpenLatest, Busy
    <3>2. QED
      BY <2>1, <2>2, <2>3, <2>6, <3>1 DEF OpenLatest, Rotating, Whole
  <2>7. CASE DumpLatest(s)
    <3>1. Busy' = {}
      BY <2>2, <2>4, <2>7 DEF DumpLatest, Busy, NoScan
    <3>2. latest' = scan[s].snap
      BY <2>1, <2>2, <2>7 DEF DumpLatest, Rotating
    <3>3. previous' = previous /\ scans' = scans
      BY <2>7 DEF DumpLatest
    <3>4. QED
      BY <2>1, <2>2, <2>3, <3>1, <3>2, <3>3 DEF Rotating, Whole
  <2>8. CASE Die(s)
    <3>1. Busy' = {}
      BY <2>2, <2>4, <2>8 DEF Die, Busy, NoScan
    <3>2. scan[s].pc \in {"rotate", "open", "dump"}
      BY <1>1, <2>4 DEF Busy
    <3>3. QED
      BY <2>1, <2>2, <2>3, <2>8, <3>1, <3>2 DEF Die, Rotating, Whole
  <2>9. QED
    BY <2>5, <2>6, <2>7, <2>8
<1>5. QED
  BY <1>2, <1>3, <1>4 DEF ScanIInv

\* What the owner and a review do touches neither file.
LEMMA ElseStep ==
    ASSUME ScanIInv, Change \/ ReadLatest \/ ReadPrevious \/ ReadRegistry
    PROVE  ScanIInv'
<1>1. UNCHANGED <<scan, latest, previous, scans, odd>>
  BY DEF Change, ReadLatest, ReadPrevious, ReadRegistry
<1>2. Rotating => Rotating'
  BY <1>1 DEF Rotating, Busy
<1>3. CASE Change
  <2> DEFINE Installs == \E i \in Roots, t \in Teams, copy \in Copies \cup {Missing} :
                            cache' = [cache EXCEPT ![i][t] = copy] /\ UNCHANGED <<status, pinned>>
             Registers == \E t \in Teams, copy \in Copies :
                             /\ status' = [status EXCEPT ![t] = "active"]
                             /\ pinned' = [pinned EXCEPT ![t] = copy.version]
                             /\ UNCHANGED cache
             StandsDown == \E t \in Teams : status' = [status EXCEPT ![t] = "retired"]
                                            /\ UNCHANGED <<cache, pinned>>
  <2>1. /\ cache \in [Roots -> [Teams -> Copies \cup {Missing}]] /\ pinned \in [Teams -> Nat]
        /\ status \in [Teams -> Stood \cup {"active", Missing}]
    BY DEF ScanIInv, ScanTypeOK
  <2>2. Installs \/ Registers \/ StandsDown
    BY <1>3 DEF Change
  <2>3. ASSUME Installs
        PROVE  cache' \in [Roots -> [Teams -> Copies \cup {Missing}]]
    BY <2>3, <2>1
  <2>4. ASSUME Registers
        PROVE  pinned' \in [Teams -> Nat] /\ status' \in [Teams -> Stood \cup {"active", Missing}]
    <3>1. \A copy \in Copies : copy.version \in Nat
      BY ScanAssumption DEF CopyType
    <3>2. QED
      BY <2>4, <2>1, <3>1
  <2>5. ASSUME StandsDown
        PROVE  status' \in [Teams -> Stood \cup {"active", Missing}]
    BY <2>5, <2>1 DEF Stood
  <2>6. /\ cache' \in [Roots -> [Teams -> Copies \cup {Missing}]] /\ pinned' \in [Teams -> Nat]
        /\ status' \in [Teams -> Stood \cup {"active", Missing}]
    BY <2>1, <2>2, <2>3, <2>4, <2>5
  <2> HIDE DEF Installs, Registers, StandsDown
  <2>7. ScanTypeOK'
    <3>1. changes' \in Nat /\ UNCHANGED <<latest, previous, scan, review, scans, reviews, odd>>
      BY <1>3 DEF Change, ScanIInv, ScanTypeOK
    <3>2. QED
      BY <2>6, <3>1 DEF ScanIInv, ScanTypeOK
  <2>8. Reading'
    BY <1>3 DEF Change, ScanIInv, Reading
  <2>9. QED
    BY <1>1, <1>2, <2>7, <2>8 DEF ScanIInv
<1>4. CASE ReadLatest
  <2>1. latest \in Scans
    BY <1>4 DEF ReadLatest, Loaded, ScanIInv, ScanTypeOK
  <2> DEFINE calm == Busy = {}
             new == [NoReview EXCEPT !.pc = "previous", !.latest = latest, !.calm = calm]
  <2>2. review' = new
    BY <1>4 DEF ReadLatest
  <2>3. calm \in BOOLEAN
    OBVIOUS
  <2> HIDE DEF calm
  <2>4. new \in Reviewing /\ new.latest \in Scans
    BY <2>1, <2>3 DEF NoReview, Reviewing
  <2> HIDE DEF new
  <2>5. reviews' \in Nat /\ UNCHANGED <<cache, status, pinned, changes>>
    BY <1>4 DEF ReadLatest, ScanIInv, ScanTypeOK
  <2>6. ScanTypeOK'
    BY <1>1, <2>2, <2>4, <2>5 DEF ScanIInv, ScanTypeOK, Reviewing
  <2>7. Reading'
    BY <1>1, <2>2, <2>4 DEF ScanIInv, Reading
  <2>8. QED
    BY <1>1, <1>2, <2>6, <2>7 DEF ScanIInv
<1>5. CASE ReadPrevious
  <2>1. Loaded(previous) \in Scans \cup {Missing}
    BY DEF Loaded, ScanIInv, ScanTypeOK
  <2>2. review' \in Reviewing /\ review.latest \in Scans /\ review'.latest = review.latest
    BY <1>5, <2>1, Types DEF ReadPrevious, ScanIInv, Reading, Reviewing
  <2>3. ScanTypeOK'
    BY <1>1, <1>5, <2>2 DEF ReadPrevious, ScanIInv, ScanTypeOK, Reviewing
  <2>4. Reading'
    BY <1>1, <2>2 DEF ScanIInv, Reading
  <2>5. QED
    BY <1>1, <1>2, <2>3, <2>4 DEF ScanIInv
<1>6. CASE ReadRegistry
  <2>1. review.latest \in Scans
    BY <1>6 DEF ReadRegistry, ScanIInv, Reading
  <2>2. review.latest.absent \ StoodDown \subseteq Teams
    BY <2>1 DEF Scans
  <2>3. review' \in Reviewing /\ review'.pc = "done"
    BY <1>6, <2>2, Types DEF ReadRegistry, Reviewing
  <2>4. ScanTypeOK'
    BY <1>1, <1>6, <2>3 DEF ReadRegistry, ScanIInv, ScanTypeOK, Reviewing
  <2>5. Reading'
    BY <1>1, <2>3 DEF ScanIInv, Reading
  <2>6. QED
    BY <1>1, <1>2, <2>4, <2>5 DEF ScanIInv
<1>7. QED
  BY <1>3, <1>4, <1>5, <1>6

LEMMA StepScanIInv == ScanIInv /\ [ScanNext]_scanvars => ScanIInv'
<1>1. CASE UNCHANGED scanvars
  BY <1>1 DEF scanvars, ScanIInv, ScanTypeOK, Reading, Rotating, Busy
<1>2. QED
  BY <1>1, ReadEntriesStep, ReadCachesStep, FileStep, ElseStep DEF ScanNext

LEMMA ScanIInvAlways == ScanSpec => []ScanIInv
BY InitScanIInv, StepScanIInv, PTL DEF ScanSpec

\* The variables keep their types: each file is none, torn or a snapshot
\* (scan_workforce.py:283-290).
THEOREM ScanTypeCorrect == ScanSpec => []ScanTypeOK
<1>1. ScanIInv => ScanTypeOK
  BY DEF ScanIInv
<1>2. QED
  BY <1>1, ScanIInvAlways, PTL

\* previous.json is the older of the two, and the same as latest.json only after a death
\* between the rotation and the dump, whatever scans died, as long as none overlapped.
THEOREM PreviousStaysOlder == ScanSpec => []PreviousIsOlder
<1>1. ScanIInv => PreviousIsOlder
  BY DEF ScanIInv, Rotating, PreviousIsOlder, Whole
<1>2. QED
  BY <1>1, ScanIInvAlways, PTL

-----------------------------------------------------------------------------
(* What the merge of the caches settles on.                                *)

\* A set of natural numbers has a least one.
LEMMA Least ==
    ASSUME NEW S \in SUBSET Nat, S # {}
    PROVE  \E m \in S : \A k \in S : m <= k
<1> DEFINE R == {p \in Nat \X Nat : p[1] < p[2]}
<1>1. IsWellFoundedOn(R, Nat)
  BY NatLessThanWellFounded DEF OpToRel
<1>2. PICK m \in S : \A k \in S : <<k, m>> \notin R
  BY <1>1, WFMin
<1>3. ASSUME NEW k \in S, k < m PROVE FALSE
  <2>1. <<k, m>> \in R
    BY <1>3
  <2>2. QED
    BY <1>2, <2>1
<1>4. QED
  BY <1>3

\* One step of the merge of a row of copies, and the merge of the first m of them.
Next1(prev, copy) == IF copy # Missing /\ Replaces(prev, copy) THEN copy ELSE prev
Merges(row, m, g) == g = [i \in 0..m |-> IF i = 0 THEN Missing ELSE Next1(g[i - 1], row[i])]

LEMMA MergeExists ==
    ASSUME NEW row, NEW n \in Nat
    PROVE  \E g : Merges(row, n, g)
<1> DEFINE Bad == {m \in Nat : ~\E g : Merges(row, m, g)}
<1> SUFFICES ASSUME Bad # {} PROVE FALSE
  OBVIOUS
<1>1. PICK m \in Bad : \A k \in Bad : m <= k
  BY Least
<1>2. m # 0
  <2> DEFINE g == [i \in 0..0 |-> Missing]
  <2>1. Merges(row, 0, g)
    BY DEF Merges
  <2>2. QED
    BY <2>1
<1>3. m - 1 \in Nat /\ m - 1 \notin Bad
  BY <1>1, <1>2
<1>4. PICK g : Merges(row, m - 1, g)
  BY <1>3
<1> DEFINE h == [i \in 0..m |-> IF i = m THEN Next1(g[m - 1], row[m]) ELSE g[i]]
<1>5. \A i \in 0..m : h[i] = IF i = 0 THEN Missing ELSE Next1(h[i - 1], row[i])
  <2>1. \A i \in 0..(m - 1) : g[i] = IF i = 0 THEN Missing ELSE Next1(g[i - 1], row[i])
    BY <1>4 DEF Merges
  <2>2. \A i \in 0..(m - 1) : h[i] = g[i] /\ i - 1 # m
    BY <1>3
  <2>3. \A i \in 0..m : i # 0 => i - 1 \in 0..(m - 1)
    BY <1>3
  <2>4. h[m] = Next1(g[m - 1], row[m])
    BY <1>3
  <2> HIDE DEF h
  <2>5. QED
    BY <1>2, <1>3, <2>1, <2>2, <2>3, <2>4
<1>6. Merges(row, m, h)
  <2>1. h = [i \in 0..m |-> h[i]]
    OBVIOUS
  <2> HIDE DEF h
  <2>2. QED
    BY <1>5, <2>1 DEF Merges
<1>7. QED
  BY <1>1, <1>6

\* The copies of a row that can be read, and the one that counts: the first of those with the
\* most skills.
Good(row, n) == {i \in 1..n : row[i] # Missing /\ row[i].named}
Best(row, n, r) ==
    /\ r \in Good(row, n)
    /\ \A j \in Good(row, n) : row[r].skills > row[j].skills
                               \/ (row[r].skills = row[j].skills /\ r <= j)

\* Unless a folder that cannot be read hides a copy that can, the merge settles on the copy
\* that counts, and on none that can be read when there is none.
LEMMA MergedIsBest ==
    ASSUME NEW n \in Nat, NEW row \in [1..n -> CopyType \cup {Missing}], NEW g, Merges(row, n, g),
           \A i, j \in 1..n : i < j /\ row[i] # Missing /\ row[j] # Missing /\ row[i].named
                              /\ ~row[j].named => ~(row[j].skills > row[i].skills)
    PROVE  /\ Good(row, n) = {} => g[n] = Missing \/ ~g[n].named
           /\ Good(row, n) # {} => \E r \in 1..n : Best(row, n, r) /\ g[n] = row[r]
<1> DEFINE P(m) == /\ g[m] \in CopyType \cup {Missing}
                   /\ Good(row, m) = {} => g[m] = Missing \/ ~g[m].named
                   /\ Good(row, m) # {} => \E r \in 1..m : Best(row, m, r) /\ g[m] = row[r]
           Bad == {m \in 0..n : ~P(m)}
<1> SUFFICES ASSUME Bad # {} PROVE FALSE
  OBVIOUS
<1>1. PICK m \in Bad : \A k \in Bad : m <= k
  <2> HIDE DEF P
  <2>1. Bad \in SUBSET Nat
    OBVIOUS
  <2> HIDE DEF Bad
  <2>2. QED
    BY <2>1, Least
<1>2. \A i \in 0..n : g[i] = IF i = 0 THEN Missing ELSE Next1(g[i - 1], row[i])
  BY DEF Merges
<1>3. m # 0
  BY <1>2 DEF Good
<1> DEFINE k == m - 1
<1>4. k \in 0..n /\ m \in 1..n /\ P(k)
  BY <1>1, <1>3
<1> DEFINE copy == row[m]
           prev == g[k]
<1>5. g[m] = Next1(prev, copy)
  BY <1>2, <1>3, <1>4
<1>6. copy \in CopyType \cup {Missing} /\ prev \in CopyType \cup {Missing}
  BY <1>4
<1>7. Good(row, m) = IF copy # Missing /\ copy.named THEN Good(row, k) \cup {m} ELSE Good(row, k)
  BY <1>4 DEF Good
<1>8. CASE copy = Missing
  BY <1>1, <1>4, <1>5, <1>7, <1>8 DEF Next1, Best
<1>9. ASSUME NEW r \in 1..k, Best(row, k, r), prev = row[r]
      PROVE  /\ prev # Missing /\ prev.named /\ prev \in CopyType /\ r < m
             /\ \A j \in Good(row, k) : row[j] \in CopyType /\ j \in 1..k
  BY <1>4, <1>6, <1>9 DEF Best, Good
<1>10. CASE copy # Missing /\ ~copy.named
  <2>1. Good(row, m) = Good(row, k)
    BY <1>7, <1>10
  <2>2. CASE Good(row, k) = {}
    <3>1. g[m] = Missing \/ ~g[m].named
      BY <1>4, <1>5, <1>10, <2>2 DEF Next1
    <3>2. QED
      BY <1>1, <1>5, <1>6, <2>1, <2>2, <3>1 DEF Next1
  <2>3. CASE Good(row, k) # {}
    <3>1. PICK r \in 1..k : Best(row, k, r) /\ prev = row[r]
      BY <1>4, <2>3
    <3>2. ~Replaces(prev, copy)
      <4>1. ~(copy.skills > prev.skills)
        BY <1>4, <1>9, <1>10, <3>1
      <4>2. QED
        BY <1>9, <1>10, <3>1, <4>1 DEF Replaces
    <3>3. g[m] = row[r] /\ r \in 1..m
      BY <1>4, <1>5, <3>1, <3>2 DEF Next1
    <3>4. Best(row, m, r)
      BY <2>1, <3>1 DEF Best
    <3>5. QED
      BY <1>1, <1>6, <2>1, <2>3, <3>1, <3>3, <3>4
  <2>4. QED
    BY <2>2, <2>3
<1>11. CASE copy # Missing /\ copy.named
  <2>1. Good(row, m) = Good(row, k) \cup {m}
    BY <1>7, <1>11
  <2>2. ASSUME NEW r \in 1..m, Best(row, m, r), g[m] = row[r] PROVE FALSE
    BY <1>1, <1>5, <1>6, <2>1, <2>2 DEF Next1
  <2>3. copy \in CopyType /\ copy.skills \in Nat
    BY <1>6, <1>11 DEF CopyType
  <2>4. CASE Good(row, k) = {}
    <3>1. Replaces(prev, copy)
      BY <1>4, <1>11, <2>4 DEF Replaces
    <3>2. g[m] = row[m] /\ m \in 1..m
      BY <1>4, <1>5, <1>11, <3>1 DEF Next1
    <3>3. Best(row, m, m)
      BY <2>1, <2>4, <1>4 DEF Best
    <3>4. QED
      BY <2>2, <3>2, <3>3
  <2>5. CASE Good(row, k) # {}
    <3>1. PICK r \in 1..k : Best(row, k, r) /\ prev = row[r]
      BY <1>4, <2>5
    <3>2. prev.skills \in Nat /\ r < m /\ \A j \in Good(row, k) : row[j].skills \in Nat /\ j \in 1..k
      BY <1>9, <3>1 DEF CopyType
    <3>3. CASE copy.skills > prev.skills
      <4>1. g[m] = row[m] /\ m \in 1..m
        BY <1>4, <1>5, <1>11, <3>3 DEF Next1, Replaces
      <4>2. \A j \in Good(row, k) : row[m].skills > row[j].skills
        BY <2>3, <3>1, <3>2, <3>3 DEF Best
      <4>3. Best(row, m, m)
        BY <1>4, <2>1, <4>2 DEF Best
      <4>4. QED
        BY <2>2, <4>1, <4>3
    <3>4. CASE ~(copy.skills > prev.skills)
      <4>1. ~Replaces(prev, copy)
        BY <1>9, <3>1, <3>4 DEF Replaces
      <4>2. g[m] = row[r] /\ r \in 1..m
        BY <1>4, <1>5, <3>1, <4>1 DEF Next1
      <4>3. row[r].skills > copy.skills \/ (row[r].skills = copy.skills /\ r <= m)
        BY <2>3, <3>1, <3>2, <3>4
      <4>4. Best(row, m, r)
        BY <2>1, <3>1, <4>3 DEF Best
      <4>5. QED
        BY <2>2, <4>2, <4>4
    <3>5. QED
      BY <3>3, <3>4
  <2>6. QED
    BY <2>4, <2>5
<1>12. QED
  BY <1>8, <1>10, <1>11

Row(t) == [i \in Roots |-> cache[i][t]]

LEMMA MergedIsMerge ==
    ASSUME NEW t
    PROVE  \E g : Merges(Row(t), Caches, g) /\ Merged(t) = g[Caches]
<1> DEFINE F(g) == [i \in 0..Caches |->
                       IF i = 0 THEN Missing
                       ELSE IF cache[i][t] # Missing /\ Replaces(g[i - 1], cache[i][t])
                            THEN cache[i][t] ELSE g[i - 1]]
           upto == CHOOSE g : g = F(g)
<1>1. Merged(t) = upto[Caches]
  BY DEF Merged
<1>2. ASSUME NEW g PROVE Merges(Row(t), Caches, g) <=> g = F(g)
  <2>1. \A i \in 0..Caches : i # 0 => i \in Roots /\ Row(t)[i] = cache[i][t]
    BY ScanAssumption DEF Row, Roots
  <2>2. \A i \in 0..Caches : (IF i = 0 THEN Missing ELSE Next1(g[i - 1], Row(t)[i])) = F(g)[i]
    BY <2>1 DEF Next1
  <2>3. [i \in 0..Caches |-> IF i = 0 THEN Missing ELSE Next1(g[i - 1], Row(t)[i])] = F(g)
    BY <2>2
  <2>4. QED
    BY <2>3 DEF Merges
<1>3. \E g : Merges(Row(t), Caches, g)
  BY MergeExists, ScanAssumption
<1>4. \E g : g = F(g)
  BY <1>2, <1>3
<1>5. upto = F(upto)
  BY <1>4
<1>6. QED
  BY <1>1, <1>2, <1>5

-----------------------------------------------------------------------------
(* What is in the files, and what a review has read.                       *)

\* A scan reports what the hosts and the registry had when it read them, but of the plugins
\* that a folder without a manifest hides.
TrueTo(f, read) ==
    \A t \in Teams : ~Shadowed(read, t) =>
        /\ t \in f.installed <=> Legible(read, t) # {}
        /\ t \in f.drift <=> /\ Legible(read, t) # {} /\ read.reg.status[t] # Missing
                             /\ read.reg.pinned[t] # read.cache[Real(read, t)][t].version

LEMMA SnapshotIsTrue ==
    ASSUME ScanTypeOK, NEW reg
    PROVE  TrueTo(Snapshot(reg), [cache |-> cache, reg |-> reg])
<1> DEFINE read == [cache |-> cache, reg |-> reg]
           snap == Snapshot(reg)
<1> SUFFICES ASSUME NEW t \in Teams, ~Shadowed(read, t)
             PROVE  /\ t \in snap.installed <=> Legible(read, t) # {}
                    /\ t \in snap.drift <=> /\ Legible(read, t) # {} /\ reg.status[t] # Missing
                                            /\ reg.pinned[t] # cache[Real(read, t)][t].version
  BY DEF TrueTo
<1> DEFINE row == Row(t)
<1>1. Caches \in Nat /\ row \in [1..Caches -> CopyType \cup {Missing}]
      /\ \A i \in Roots : row[i] = cache[i][t]
  BY ScanAssumption DEF Row, Roots, ScanTypeOK
<1>2. PICK g : Merges(row, Caches, g) /\ Merged(t) = g[Caches]
  BY MergedIsMerge
<1>3. Legible(read, t) = Good(row, Caches)
  BY <1>1 DEF Legible, Good, Roots
<1>4. /\ Good(row, Caches) = {} => Merged(t) = Missing \/ ~Merged(t).named
      /\ Good(row, Caches) # {} => \E r \in 1..Caches : Best(row, Caches, r) /\ Merged(t) = row[r]
  <2>1. \A i, j \in 1..Caches : i < j /\ row[i] # Missing /\ row[j] # Missing /\ row[i].named
                              /\ ~row[j].named => ~(row[j].skills > row[i].skills)
    BY <1>1 DEF Shadowed, Roots
  <2> HIDE DEF row
  <2>2. QED
    BY <1>1, <1>2, <2>1, MergedIsBest
<1>5. CASE Good(row, Caches) = {}
  BY <1>3, <1>4, <1>5 DEF Snapshot, Installed
<1>6. CASE Good(row, Caches) # {}
  <2>1. PICK r \in 1..Caches : Best(row, Caches, r) /\ Merged(t) = row[r]
    BY <1>4, <1>6
  <2>2. Merged(t) # Missing /\ Merged(t).named
    BY <2>1 DEF Best, Good
  <2>3. t \in Installed
    BY <2>2 DEF Installed
  <2>4. Real(read, t) = r
    <3> DEFINE skills(i) == cache[i][t].skills
               First(i) == \A j \in Legible(read, t) :
                              skills(i) > skills(j) \/ (skills(i) = skills(j) /\ i <= j)
    <3>1. \A i \in Legible(read, t) : i \in Nat /\ row[i] = cache[i][t] /\ skills(i) \in Nat
      BY <1>1, <1>3 DEF Good, Roots, CopyType
    <3>2. r \in Legible(read, t) /\ First(r)
      BY <1>3, <2>1, <3>1 DEF Best
    <3>3. ASSUME NEW i \in Legible(read, t), First(i) PROVE i = r
      <4> HIDE DEF skills, read
      <4>1. skills(i) > skills(r) \/ (skills(i) = skills(r) /\ i <= r)
        BY <3>2, <3>3
      <4>2. skills(r) > skills(i) \/ (skills(r) = skills(i) /\ r <= i)
        BY <3>2
      <4>3. skills(i) \in Nat /\ skills(r) \in Nat /\ i \in Nat /\ r \in Nat
        BY <3>1, <3>2
      <4>4. QED
        BY <4>1, <4>2, <4>3
    <3>4. Real(read, t) = CHOOSE i \in Legible(read, t) : First(i)
      BY DEF Real
    <3> HIDE DEF First
    <3>5. QED
      BY <3>2, <3>3, <3>4
  <2>5. Merged(t) = cache[r][t]
    BY <1>1, <2>1 DEF Roots
  <2>6. QED
    BY <1>3, <1>6, <2>3, <2>4, <2>5 DEF Snapshot
<1>7. QED
  BY <1>5, <1>6

\* The scans in the files, in the hands of the scanners and of the review.
KnownScans == {f \in {latest, previous, review.latest, review.previous}
                \cup {scan[s].snap : s \in Scanners} : f \in Scans}

Reads == [cache : [Roots -> [Teams -> Copies \cup {Missing}]], reg : RegistryRead]

\* Each of them is the scan of its number, and says what was read then.
Logged ==
    /\ log \in Seq(Reads) /\ Len(log) = scans
    /\ \A f \in KnownScans : f.number \in 1..Len(log) /\ TrueTo(f, log[f.number])

\* The k-th scan, or none when there was none.
Kth(f, k) == IF k <= 0 THEN f = Missing ELSE f \in Scans /\ f.number = k

\* While no scan died or overlapped, the two files are the last two scans, and so are the two
\* that a calm review has read.
Paired ==
    /\ Busy = {} => Kth(latest, scans) /\ Kth(previous, scans - 1)
    /\ \A s \in Busy :
          /\ scan[s].pc = "rotate" => Kth(latest, scans - 1) /\ Kth(previous, scans - 2)
          /\ scan[s].pc = "open" => Kth(latest, scans - 1) /\ Kth(previous, scans - 1)
          /\ scan[s].pc = "dump" => Kth(previous, scans - 1)
    /\ review.calm =>
          /\ review.pc \in {"previous", "registry"} => Busy = {} /\ review.latest = latest
          /\ review.pc \in {"registry", "done"} =>
                review.latest \in Scans /\ Kth(review.previous, review.latest.number - 1)

ReviewIInv == ScanIInv /\ Logged /\ (odd = {} => Paired)

LEMMA InitReviewIInv == ScanInit => ReviewIInv
<1> SUFFICES ASSUME ScanInit PROVE ReviewIInv
  OBVIOUS
<1>1. ScanIInv
  BY InitScanIInv
<1>2. KnownScans = {}
  BY ScanAssumption DEF ScanInit, KnownScans, NoScan, NoReview
<1>3. Logged
  BY <1>2 DEF ScanInit, Logged
<1>4. Paired
  BY DEF ScanInit, Paired, Kth, Busy, NoScan, NoReview
<1>5. QED
  BY <1>1, <1>3, <1>4 DEF ReviewIInv

LEMMA LoggedStep ==
    ASSUME ScanIInv, Logged, [ScanNext]_scanvars
    PROVE  Logged'
<1>1. CASE \E s \in Scanners : ReadCaches(s)
  <2> PICK s \in Scanners : ReadCaches(s)
    BY <1>1
  <2> DEFINE reg == scan[s].reg
             read == [cache |-> cache, reg |-> reg]
             snap == Snapshot(reg)
  <2>0. reg \in RegistryRead
    BY Types DEF ReadCaches, Scanning
  <2>1. read \in Reads /\ snap \in Scans /\ snap.number = scans + 1
        /\ TrueTo(snap, read) /\ scans \in Nat
    BY <2>0, SnapshotType, SnapshotIsTrue DEF ScanIInv, ScanTypeOK, Reads
  <2>2. log' = Append(log, read) /\ scans' = scans + 1
    BY DEF ReadCaches
  <2>3. KnownScans' \subseteq KnownScans \cup {snap}
    <3>1. \A t \in Scanners : scan'[t].snap \in {scan[t].snap, snap}
      BY DEF ReadCaches, ScanIInv, ScanTypeOK
    <3>2. review'.latest = review.latest /\ review'.previous = review.previous
      BY DEF ReadCaches, ScanIInv, ScanTypeOK
    <3>3. UNCHANGED <<latest, previous>>
      BY DEF ReadCaches
    <3>4. QED
      BY <3>1, <3>2, <3>3 DEF KnownScans
  <2> HIDE DEF read, snap
  <2>4. /\ log' \in Seq(Reads) /\ Len(log') = scans' /\ log'[scans + 1] = read
        /\ \A k \in 1..Len(log) : log'[k] = log[k] /\ k \in 1..Len(log')
    BY <2>1, <2>2 DEF Logged
  <2>5. ASSUME NEW f \in KnownScans' PROVE f.number \in 1..Len(log') /\ TrueTo(f, log'[f.number])
    <3>1. CASE f \in KnownScans
      BY <2>4, <3>1 DEF Logged
    <3>2. CASE f = snap
      BY <2>1, <2>2, <2>4, <3>2
    <3>3. QED
      BY <2>3, <3>1, <3>2
  <2>6. QED
    BY <2>4, <2>5 DEF Logged
<1>2. CASE ~\E s \in Scanners : ReadCaches(s)
  <2>1. UNCHANGED <<log, scans>>
    BY <1>2 DEF ScanNext, ReadEntries, Rotate, OpenLatest, DumpLatest, Die, Change, ReadLatest,
                ReadPrevious, ReadRegistry, scanvars
  <2>2. KnownScans' \subseteq KnownScans
    <3>0. CASE \E s \in Scanners : ReadEntries(s)
      BY <3>0 DEF ReadEntries, KnownScans, ScanIInv, ScanTypeOK
    <3>1. CASE \E s \in Scanners : Rotate(s) \/ OpenLatest(s) \/ DumpLatest(s) \/ Die(s)
      <4> PICK s \in Scanners : Rotate(s) \/ OpenLatest(s) \/ DumpLatest(s) \/ Die(s)
        BY <3>1
      <4>1. \A t \in Scanners : scan'[t].snap \in {scan[t].snap, Missing}
        BY DEF Rotate, OpenLatest, DumpLatest, Die, NoScan, ScanIInv, ScanTypeOK
      <4>2. latest' \in {latest, scan[s].snap, Torn} /\ previous' \in {previous, latest}
            /\ review' = review
        BY DEF Rotate, OpenLatest, DumpLatest, Die
      <4>3. QED
        BY <4>1, <4>2, ScanAssumption DEF KnownScans
    <3>2. CASE Change \/ ReadLatest \/ ReadPrevious \/ ReadRegistry \/ UNCHANGED scanvars
      <4>1. UNCHANGED <<scan, latest, previous>>
        BY <3>2 DEF Change, ReadLatest, ReadPrevious, ReadRegistry, scanvars
      <4>2. /\ review'.latest \in {latest, review.latest, Missing}
            /\ review'.previous \in {previous, review.previous, Missing}
        BY <3>2 DEF Change, ReadLatest, ReadPrevious, ReadRegistry, scanvars, ScanIInv, ScanTypeOK,
                    Loaded, NoReview
      <4>3. QED
        BY <4>1, <4>2, ScanAssumption DEF KnownScans
    <3>3. QED
      BY <1>2, <3>0, <3>1, <3>2 DEF ScanNext
  <2>3. QED
    BY <2>1, <2>2 DEF Logged
<1>3. QED
  BY <1>1, <1>2

LEMMA PairedStep ==
    ASSUME ReviewIInv, [ScanNext]_scanvars, odd' = {}
    PROVE  Paired'
<1>1. odd = {} /\ Paired /\ Rotating /\ ScanTypeOK /\ Reading /\ Logged
  BY DEF ReviewIInv, ScanIInv, ScanNext, ReadEntries, ReadCaches, Rotate, OpenLatest, DumpLatest, Die, Change, ReadLatest,
         ReadPrevious, ReadRegistry, scanvars
<1>2. scans \in Nat /\ \A f : Kth(f, scans) \/ Kth(f, scans - 1) => f # Torn \/ f = Missing
  BY <1>1, ScanAssumption DEF ScanTypeOK, Kth
<1>0. CASE \E s \in Scanners : ReadEntries(s)
  <2>1. \A t \in Scanners : scan'[t].pc = scan[t].pc
    BY <1>0, <1>1 DEF ReadEntries, ScanTypeOK
  <2>2. Busy' = Busy /\ Busy \subseteq Scanners
    BY <2>1 DEF Busy
  <2>3. UNCHANGED <<latest, previous, review, scans>>
    BY <1>0 DEF ReadEntries
  <2>4. QED
    BY <1>1, <2>1, <2>2, <2>3 DEF Paired, Kth
<1>3. CASE \E s \in Scanners : ReadCaches(s)
  <2> PICK s \in Scanners : ReadCaches(s)
    BY <1>3
  <2>1. Busy = {}
    BY <1>1 DEF ReadCaches
  <2>2. scan'[s].pc = "rotate" /\ Busy' \subseteq {s}
    BY <1>1, <2>1 DEF ReadCaches, ScanTypeOK, Busy
  <2>3. scans' = scans + 1 /\ UNCHANGED <<latest, previous>>
        /\ review' = [review EXCEPT !.calm = @ /\ review.pc \notin {"previous", "registry"}]
    BY DEF ReadCaches
  <2>4. (scans + 1) - 1 = scans /\ (scans + 1) - 2 = scans - 1
    BY <1>2
  <2>5. review'.calm => review.calm /\ review.pc \notin {"previous", "registry"}
    BY <1>1, <2>3 DEF ScanTypeOK
  <2>6. review'.pc = review.pc /\ review'.latest = review.latest /\ review'.previous = review.previous
    BY <1>1, <2>3 DEF ScanTypeOK
  <2>7. s \in Busy'
    BY <2>2 DEF Busy
  <2>8. QED
    BY <1>1, <2>1, <2>2, <2>3, <2>4, <2>5, <2>6, <2>7 DEF Paired, Kth
<1>4. CASE \E s \in Scanners : Rotate(s) \/ OpenLatest(s) \/ DumpLatest(s) \/ Die(s)
  <2> PICK s \in Scanners : Rotate(s) \/ OpenLatest(s) \/ DumpLatest(s) \/ Die(s)
    BY <1>4
  <2>1. Busy = {s} /\ scan[s].snap \in Scans /\ scan[s].snap.number = scans
    BY <1>1 DEF Rotating, Reading, Rotate, OpenLatest, DumpLatest, Die, Busy
  <2>2. scans >= 1
    BY <1>1, <1>2, <2>1 DEF Logged, KnownScans
  <2>3. review' = review /\ scans' = scans
    BY DEF Rotate, OpenLatest, DumpLatest, Die
  <2>4. /\ review.calm => review.pc \notin {"previous", "registry"}
        /\ review.calm /\ review.pc = "done" =>
              review.latest \in Scans /\ Kth(review.previous, review.latest.number - 1)
    BY <1>1, <2>1 DEF Paired
  <2>5. CASE Rotate(s)
    <3>1. Busy' \subseteq {s} /\ s \in Busy' /\ scan'[s].pc = "open"
      BY <1>1, <2>1, <2>5 DEF Rotate, ScanTypeOK, Busy
    <3>2. Kth(latest, scans - 1) /\ Kth(previous, scans - 2)
      BY <1>1, <2>1, <2>5 DEF Paired, Rotate
    <3>3. latest' = latest /\ previous' = IF latest = Missing THEN previous ELSE latest
      BY <2>5 DEF Rotate
    <3>4. Kth(previous', scans - 1)
      BY <1>2, <3>2, <3>3, ScanAssumption DEF Kth
    <3>5. QED
      BY <2>3, <2>4, <3>1, <3>2, <3>3, <3>4 DEF Paired, Kth
  <2>6. CASE OpenLatest(s)
    <3>1. Busy' \subseteq {s} /\ s \in Busy' /\ scan'[s].pc = "dump"
      BY <1>1, <2>1, <2>6 DEF OpenLatest, ScanTypeOK, Busy
    <3>2. Kth(previous, scans - 1) /\ previous' = previous
      BY <1>1, <2>1, <2>6 DEF Paired, OpenLatest
    <3>3. QED
      BY <2>3, <2>4, <3>1, <3>2 DEF Paired, Kth
  <2>7. CASE DumpLatest(s)
    <3>1. Busy' = {}
      BY <1>1, <2>1, <2>7 DEF DumpLatest, NoScan, ScanTypeOK, Busy
    <3>2. Kth(previous, scans - 1) /\ previous' = previous
      BY <1>1, <2>1, <2>7 DEF Paired, DumpLatest
    <3>3. latest' = scan[s].snap
      BY <1>1, <2>1, <2>7 DEF Rotating, DumpLatest
    <3>4. Kth(latest', scans)
      BY <1>2, <2>1, <2>2, <3>3 DEF Kth
    <3>5. QED
      BY <2>3, <2>4, <3>1, <3>2, <3>4 DEF Paired, Kth
  <2>8. ~Die(s)
    BY DEF Die
  <2>9. QED
    BY <2>5, <2>6, <2>7, <2>8
<1>5. CASE Change \/ UNCHANGED scanvars
  BY <1>1, <1>5 DEF Change, scanvars, Paired, Kth, Busy
<1>6. CASE ReadLatest
  <2>1. UNCHANGED <<scan, latest, previous, scans>> /\ Busy' = Busy
    BY <1>6 DEF ReadLatest, Busy
  <2>2. review'.pc = "previous" /\ review'.latest = latest /\ (review'.calm => Busy = {})
    BY <1>6 DEF ReadLatest, NoReview
  <2>3. QED
    BY <1>1, <2>1, <2>2 DEF Paired, Kth
<1>7. CASE ReadPrevious
  <2>1. UNCHANGED <<scan, latest, previous, scans>> /\ Busy' = Busy
    BY <1>7 DEF ReadPrevious, Busy
  <2>2. /\ review'.pc = "registry" /\ review'.latest = review.latest /\ review'.calm = review.calm
        /\ review'.previous = Loaded(previous) /\ review.latest \in Scans
    BY <1>1, <1>7 DEF ReadPrevious, ScanTypeOK, Reading
  <2>3. ASSUME review.calm
        PROVE  Busy = {} /\ review.latest = latest /\ Kth(Loaded(previous), latest.number - 1)
    <3>1. Busy = {} /\ review.latest = latest /\ Kth(latest, scans) /\ Kth(previous, scans - 1)
      BY <1>1, <1>7, <2>3 DEF Paired, ReadPrevious
    <3>2. latest.number = scans
      BY <2>2, <3>1, ScanAssumption DEF Kth
    <3>3. Loaded(previous) = previous
      BY <1>2, <3>1 DEF Loaded
    <3>4. QED
      BY <3>1, <3>2, <3>3
  <2>4. QED
    BY <1>1, <2>1, <2>2, <2>3 DEF Paired, Kth
<1>8. CASE ReadRegistry
  <2>1. UNCHANGED <<scan, latest, previous, scans>> /\ Busy' = Busy
    BY <1>8 DEF ReadRegistry, Busy
  <2>2. /\ review'.pc = "done" /\ review'.latest = review.latest /\ review'.calm = review.calm
        /\ review'.previous = review.previous /\ review.pc = "registry"
    BY <1>1, <1>8 DEF ReadRegistry, ScanTypeOK
  <2>3. QED
    BY <1>1, <2>1, <2>2 DEF Paired, Kth
<1>9. QED
  BY <1>0, <1>3, <1>4, <1>5, <1>6, <1>7, <1>8 DEF ScanNext

LEMMA ReviewIInvAlways == ScanSpec => []ReviewIInv
<1>1. ReviewIInv /\ [ScanNext]_scanvars => ReviewIInv'
  BY StepScanIInv, LoggedStep, PairedStep DEF ReviewIInv
<1>2. QED
  BY InitReviewIInv, <1>1, PTL DEF ScanSpec

\* A review reports what came to the hosts and left them between the last scan and the one
\* before it, and the versions that differed, unless a scan ran meanwhile, died or overlapped;
\* a plugin that a folder without a manifest hides aside (main, diff_scan.py:25-27).
THEOREM ReviewsAreOfLastTwo == ScanSpec => []ReviewIsOfLastTwo
<1>1. ReviewIInv => ReviewIsOfLastTwo
  <2> SUFFICES ASSUME ReviewIInv, review.pc = "done", review.calm, odd = {} PROVE ReviewIsOfLastTwo
    BY DEF ReviewIsOfLastTwo
  <2> DEFINE n == review.latest.number
             In(k, t) == Legible(log[k], t) # {}
  <2>1. review.latest \in Scans /\ Kth(review.previous, n - 1) /\ Logged
    BY DEF ReviewIInv, Paired
  <2>2. n \in 1..Len(log) /\ TrueTo(review.latest, log[n])
    BY <2>1 DEF Logged, KnownScans
  <2>3. n = 1 => review.previous = Missing
    BY <2>1 DEF Kth
  <2>4. \A t \in Teams : ~Shadowed(log[n], t) =>
              (t \in review.latest.drift <=>
                  /\ In(n, t) /\ log[n].reg.status[t] # Missing
                  /\ log[n].reg.pinned[t] # log[n].cache[Real(log[n], t)][t].version)
    BY <2>2 DEF TrueTo
  <2>5. ASSUME n > 1, NEW t \in Teams, ~Shadowed(log[n], t), ~Shadowed(log[n - 1], t)
        PROVE  /\ t \in NewlyInstalled <=> In(n, t) /\ ~In(n - 1, t)
               /\ t \in Disappeared <=> In(n - 1, t) /\ ~In(n, t)
    <3>1. review.previous \in Scans /\ review.previous.number = n - 1
      BY <2>1, <2>2, <2>5 DEF Kth
    <3>2. TrueTo(review.previous, log[n - 1]) /\ review.previous # Missing
      BY <2>1, <3>1, ScanAssumption DEF Logged, KnownScans
    <3>3. /\ t \in review.latest.installed <=> In(n, t)
          /\ t \in review.previous.installed <=> In(n - 1, t)
      BY <2>2, <2>5, <3>2 DEF TrueTo
    <3>4. QED
      BY <3>2, <3>3 DEF NewlyInstalled, Disappeared
  <2>6. QED
    BY <2>3, <2>4, <2>5 DEF ReviewIsOfLastTwo
<1>2. QED
  BY <1>1, ReviewIInvAlways, PTL
=============================================================================
