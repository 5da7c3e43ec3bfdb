---------------------------- MODULE WorkforceScan ----------------------------
(***************************************************************************)
(* hr-registry's scan_workforce.py and hr-review's diff_scan.py.  A scan   *)
(* reads the registry, then the install caches of the hosts, merges the    *)
(* copies of a plugin it finds there, copies latest.json over              *)
(* previous.json and writes latest.json in place; a review compares the    *)
(* two and reads the registry again.  Two scans may overlap, a scan may    *)
(* die between any two steps, and the owner goes on meanwhile.             *)
(***************************************************************************)
EXTENDS Integers, Sequences, FiniteSets, CampusTerms

CONSTANTS Teams,     \* plugin teams
          Caches,    \* how many install caches there are
          Copies,    \* what a cache may hold of a plugin
          Scanners,  \* scan processes
          MaxScans, MaxChanges, MaxReviews

(* A folder whose manifest cannot be read goes by the folder's name.       *)
CopyType == [named : BOOLEAN, version : Nat, skills : Nat]

(* The caches above the campus, then those of the owner's home.            *)
Roots == 1..Caches

(* number counts the scans in the order in which they read; unreg: the     *)
(* installed without an entry; absent: the registered not installed;       *)
(* drift: those installed in another version than the registered one.      *)
Scans == [number : Nat, installed : SUBSET Teams, unreg : SUBSET Teams, absent : SUBSET Teams,
          drift : SUBSET Teams]

(* What a scan has in hand of the registry.                                *)
RegistryRead == [status : [Teams -> Stood \cup {"active", Missing}], pinned : [Teams -> Nat]]

ASSUME ScanAssumption ==
    /\ Caches \in Nat /\ Copies \subseteq CopyType /\ Missing \notin CopyType
    /\ \A f \in {Missing, Torn} : f \notin Scans
    /\ MaxScans \in Nat /\ MaxChanges \in Nat /\ MaxReviews \in Nat

VARIABLES cache,      \* root -> team -> the copy there, or Missing
          status,     \* team -> status of its entry, or Missing
          pinned,     \* team -> the version in its entry
          latest, previous,  \* .campus-os/scan/{latest,previous}.json
          scan,       \* scanner -> [pc, reg, snap] of the scan under way
          review,     \* the review under way, or the last one
          scans, changes, reviews,
          (* History, read by no action:                                   *)
          log,        \* the caches and the registry each scan read
          odd         \* "died" a scan did, "overlapped" two did
scanvars == <<cache, status, pinned, latest, previous, scan, review, scans, changes, reviews,
              log, odd>>

NoReview == [pc |-> "idle", latest |-> Missing, previous |-> Missing,
             absent |-> {}, calm |-> TRUE]

NoScan == [pc |-> "idle", reg |-> Missing, snap |-> Missing]

ScanInit ==
    /\ cache = [i \in Roots |-> [t \in Teams |-> Missing]]
    /\ status = [t \in Teams |-> Missing] /\ pinned = [t \in Teams |-> 0]
    /\ latest = Missing /\ previous = Missing
    /\ scan = [s \in Scanners |-> NoScan]
    /\ review = NoReview /\ scans = 0 /\ changes = 0 /\ reviews = 0
    /\ log = <<>> /\ odd = {}

(* Mutant: a cache further down replaces what was found.                   *)
LastOne(prev, copy) == TRUE

(* "A named entry wins" - over one without a name, but not over one with   *)
(* more skills that comes after it.                                        *)
Replaces(prev, copy) ==
    \/ prev = Missing
    \/ ~prev.named /\ copy.named
    \/ copy.skills > prev.skills

Merged(t) ==
    LET upto[i \in 0..Caches] ==
            IF i = 0 THEN Missing
            ELSE IF cache[i][t] # Missing /\ Replaces(upto[i - 1], cache[i][t])
                 THEN cache[i][t] ELSE upto[i - 1]
    IN  upto[Caches]

Installed == {t \in Teams : Merged(t) # Missing /\ Merged(t).named}

(* Directory records of the registry are left out.                         *)
Snapshot(reg) ==
    [number |-> scans + 1, installed |-> Installed,
     unreg |-> {t \in Installed : reg.status[t] = Missing},
     absent |-> {t \in Teams \ Installed : reg.status[t] \notin Stood \cup {Missing}},
     drift |-> {t \in Installed : reg.status[t] # Missing /\ reg.pinned[t] # Merged(t).version}]

(* The registry is read before the caches are; nothing is written with it  *)
(* alone, so such a scan does not count as one under way.                  *)
ReadEntries(s) ==
    /\ scan[s].pc = "idle" /\ scans < MaxScans
    /\ scan' = [scan EXCEPT ![s].reg = [status |-> status, pinned |-> pinned]]
    /\ UNCHANGED <<cache, status, pinned, latest, previous, review, scans, changes, reviews, log,
                   odd>>

Busy == {s \in Scanners : scan[s].pc # "idle"}

(* A scan that starts ends the calm of a review under way.                 *)
ReadCaches(s) ==
    /\ s \notin Busy /\ scan[s].reg # Missing /\ scans < MaxScans
    /\ scans' = scans + 1
    /\ log' = Append(log, [cache |-> cache, reg |-> scan[s].reg])
    /\ scan' = [scan EXCEPT ![s] = [pc |-> "rotate", reg |-> Missing, snap |-> Snapshot(scan[s].reg)]]
    /\ odd' = IF Busy = {} THEN odd ELSE odd \cup {"overlapped"}
    /\ review' = [review EXCEPT !.calm = @ /\ review.pc \notin {"previous", "registry"}]
    /\ UNCHANGED <<cache, status, pinned, latest, previous, changes, reviews>>

(* Mutants: the first previous.json is kept; the rotation comes after the  *)
(* dump.                                                                   *)
RotateOnce(s) ==
    /\ scan[s].pc = "rotate"
    /\ previous' = IF latest = Missing \/ previous # Missing THEN previous ELSE latest
    /\ scan' = [scan EXCEPT ![s].pc = "open"]
    /\ UNCHANGED <<cache, status, pinned, latest, review, scans, changes, reviews, log, odd>>

RotateLate(s) ==
    /\ scan[s].pc = "rotate"
    /\ previous' = scan[s].snap
    /\ scan' = [scan EXCEPT ![s].pc = "open"]
    /\ UNCHANGED <<cache, status, pinned, latest, review, scans, changes, reviews, log, odd>>

(* shutil.copy2 copies what is there, a torn file too.                     *)
Rotate(s) ==
    /\ scan[s].pc = "rotate"
    /\ previous' = IF latest = Missing THEN previous ELSE latest
    /\ scan' = [scan EXCEPT ![s].pc = "open"]
    /\ UNCHANGED <<cache, status, pinned, latest, review, scans, changes, reviews, log, odd>>

OpenLatest(s) ==
    /\ scan[s].pc = "open"
    /\ latest' = Torn
    /\ scan' = [scan EXCEPT ![s].pc = "dump"]
    /\ UNCHANGED <<cache, status, pinned, previous, review, scans, changes, reviews, log, odd>>

(* A file another scan dumped into since keeps a longer tail of that one.  *)
DumpLatest(s) ==
    /\ scan[s].pc = "dump"
    /\ latest' \in {scan[s].snap} \cup (IF latest = Torn THEN {} ELSE {Torn})
    /\ scan' = [scan EXCEPT ![s] = NoScan]
    /\ UNCHANGED <<cache, status, pinned, previous, review, scans, changes, reviews, log, odd>>

(* Bounded: one scan dies.                                                *)
Die(s) ==
    /\ s \in Busy /\ "died" \notin odd
    /\ scan' = [scan EXCEPT ![s] = NoScan]
    /\ odd' = odd \cup {"died"}
    /\ UNCHANGED <<cache, status, pinned, latest, previous, review, scans, changes, reviews, log>>

(* The owner, or a host, installs, upgrades or removes a copy of a team;   *)
(* the owner registers it, in a version, or stands it down.                *)
Change ==
    /\ changes < MaxChanges /\ changes' = changes + 1
    /\ \/ \E i \in Roots, t \in Teams, copy \in Copies \cup {Missing} :
             /\ copy # cache[i][t] /\ cache' = [cache EXCEPT ![i][t] = copy]
             /\ UNCHANGED <<status, pinned>>
       \/ \E t \in Teams, copy \in {c \in Copies : c.named} :
             /\ status' = [status EXCEPT ![t] = "active"]
             /\ pinned' = [pinned EXCEPT ![t] = copy.version]
             /\ UNCHANGED cache
       \/ \E t \in Teams :
             /\ status[t] # Missing /\ status' = [status EXCEPT ![t] = "retired"]
             /\ UNCHANGED <<cache, pinned>>
    /\ UNCHANGED <<latest, previous, scan, review, scans, reviews, log, odd>>

-----------------------------------------------------------------------------
(* diff_scan.py; a scan that does not parse is none, and without a latest  *)
(* one there is no review.                                                 *)
Loaded(f) == IF f = Torn THEN Missing ELSE f

StoodDown == {t \in Teams : status[t] \in Stood}

ReadLatest ==
    /\ review.pc \in {"idle", "done"} /\ reviews < MaxReviews
    /\ Loaded(latest) # Missing
    /\ reviews' = reviews + 1
    /\ review' = [NoReview EXCEPT !.pc = "previous", !.latest = latest,
                                  !.calm = Busy = {}]
    /\ UNCHANGED <<cache, status, pinned, latest, previous, scan, scans, changes, log, odd>>

ReadPrevious ==
    /\ review.pc = "previous"
    /\ review' = [review EXCEPT !.pc = "registry", !.previous = Loaded(previous)]
    /\ UNCHANGED <<cache, status, pinned, latest, previous, scan, scans, changes, reviews, log, odd>>

(* Absent teams the owner has stood down since are recorded, not flagged.  *)
ReadRegistry ==
    /\ review.pc = "registry"
    /\ review' = [review EXCEPT !.pc = "done", !.absent = review.latest.absent \ StoodDown]
    /\ UNCHANGED <<cache, status, pinned, latest, previous, scan, scans, changes, reviews, log, odd>>

NewlyInstalled == IF review.previous = Missing THEN {}
                  ELSE review.latest.installed \ review.previous.installed

Disappeared == IF review.previous = Missing THEN {}
               ELSE review.previous.installed \ review.latest.installed

ScanNext == \/ \E s \in Scanners : \/ ReadEntries(s) \/ ReadCaches(s) \/ Rotate(s)
                                   \/ OpenLatest(s) \/ DumpLatest(s) \/ Die(s)
            \/ Change \/ ReadLatest \/ ReadPrevious \/ ReadRegistry

ScanSpec == ScanInit /\ [][ScanNext]_scanvars

-----------------------------------------------------------------------------
ScanTypeOK ==
    /\ cache \in [Roots -> [Teams -> Copies \cup {Missing}]]
    /\ pinned \in [Teams -> Nat]
    /\ status \in [Teams -> Stood \cup {"active", Missing}]
    /\ latest \in Scans \cup {Missing, Torn} /\ previous \in Scans \cup {Missing, Torn}
    /\ scan \in [Scanners -> [pc : {"idle", "rotate", "open", "dump"},
                             reg : RegistryRead \cup {Missing}, snap : Scans \cup {Missing}]]
    /\ review \in [pc : {"idle", "previous", "registry", "done"}, latest : Scans \cup {Missing},
                   previous : Scans \cup {Missing}, absent : SUBSET Teams,
                   calm : BOOLEAN]
    /\ scans \in Nat /\ changes \in Nat /\ reviews \in Nat
    /\ odd \subseteq {"died", "overlapped"}

(* A copy that can be read, before a folder that cannot and has more skills. *)
Shadowed(read, t) ==
    \E i, j \in Roots :
        /\ i < j /\ read.cache[i][t] # Missing /\ read.cache[j][t] # Missing
        /\ read.cache[i][t].named /\ ~read.cache[j][t].named
        /\ read.cache[j][t].skills > read.cache[i][t].skills

Legible(read, t) == {i \in Roots : read.cache[i][t] # Missing /\ read.cache[i][t].named}

(* The first of the copies with the most skills.                           *)
Real(read, t) ==
    CHOOSE i \in Legible(read, t) : \A j \in Legible(read, t) :
        LET a == read.cache[i][t].skills
            b == read.cache[j][t].skills
        IN  a > b \/ (a = b /\ i <= j)

(* A review reports what came to the caches and left them between the last *)
(* scan and the one before it, and the versions that differed from the     *)
(* registered ones, a stale partial copy aside (scan_workforce.py:30); it  *)
(* calls no review but that of the first scan a first one - unless a scan  *)
(* ran meanwhile, died or overlapped with another: a torn latest.json is   *)
(* rotated over a good previous.json, and the three files are read one     *)
(* after the other (diff_scan.py:25-27).  A folder without a manifest and  *)
(* with more skills hides the plugin of its name, although "a named entry  *)
(* wins" (scan_workforce.py:99).                                           *)
ReviewIsOfLastTwo ==
    review.pc = "done" /\ review.calm /\ odd = {} =>
        LET n == review.latest.number
            In(k, t) == Legible(log[k], t) # {}
        IN
        /\ n = 1 => review.previous = Missing
        /\ \A t \in Teams : ~Shadowed(log[n], t) =>
              (t \in review.latest.drift <=>
                  /\ In(n, t) /\ log[n].reg.status[t] # Missing
                  /\ log[n].reg.pinned[t] # log[n].cache[Real(log[n], t)][t].version)
        /\ n > 1 => \A t \in Teams : ~Shadowed(log[n], t) /\ ~Shadowed(log[n - 1], t) =>
              /\ t \in NewlyInstalled <=> In(n, t) /\ ~In(n - 1, t)
              /\ t \in Disappeared <=> In(n - 1, t) /\ ~In(n, t)

(* Even when scans die, the older of the two scans is the one in           *)
(* previous.json, and it is the same as the latest only after a death      *)
(* between the rotation and the dump.                                      *)
PreviousIsOlder ==
    "overlapped" \notin odd /\ {latest, previous} \cap {Missing, Torn} = {} /\ Busy = {} =>
        \/ previous.number < latest.number
        \/ previous = latest /\ "died" \in odd
=============================================================================
