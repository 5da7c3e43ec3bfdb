------------------------------ MODULE Recruiting ------------------------------
(***************************************************************************)
(* hr-recruit.  cluster_ledger.py reads the activity ledgers of all seats, *)
(* groups the recent ad-hoc work by the words of its triggers, and lists   *)
(* the groups that no skill covers and no rejection suppresses; the        *)
(* session files a brief for each; meanwhile the owner approves briefs,    *)
(* which installs a skill, and rejects others.  Lines of other work, which *)
(* the script skips, and the departments it suggests are left out.         *)
(***************************************************************************)
EXTENDS Integers, FiniteSets, CampusTerms

CONSTANTS Words,               \* of triggers, by their place in the alphabet
          Triggers,            \* sets of words
          Zone,                \* seat -> what its clock is ahead; seat 1 is the primary
          Window, MinCluster,  \* --days and --min-cluster
          SlugWords, Cap,      \* at most four words in a slug, five candidates a run
          MaxLines, MaxNow, MaxRecruits

Seats == DOMAIN Zone

ASSUME RecruitAssumption ==
    /\ Words \subseteq Nat /\ Triggers \subseteq (SUBSET Words) \ {{}}
    /\ \A w \in Triggers : IsFiniteSet(w)
    /\ {Window, MinCluster, SlugWords, Cap} \subseteq Nat \ {0}
    /\ {MaxLines, MaxNow, MaxRecruits} \subseteq Nat
    /\ 1 \in Seats /\ Seats \subseteq Nat /\ \A s \in Seats : Zone[s] \in Nat

VARIABLES activity,  \* the lines of all the ledgers
          now,
          briefs,    \* dean/skill-candidates/*.md
          rejected,  \* the words of the names in _rejected/
          skills,    \* the entries of the registry
          recruit,   \* the session's run: what it was told to file
          recruits,
          decided    \* history: the briefs approved or rejected
recruitvars == <<activity, now, briefs, rejected, skills, recruit, recruits, decided>>

(* listed is still to be filed; known was decided when it was listed.      *)
NoRecruit == [listed |-> {}, known |-> {}]

RecruitInit ==
    /\ activity = {} /\ now = 0 /\ briefs = {} /\ rejected = {} /\ skills = {}
    /\ recruit = NoRecruit /\ recruits = 0 /\ decided = {}

-----------------------------------------------------------------------------
(* load_ledger: lines without a date stay.                                 *)
Recent(l) == l.dated => l.at >= now - Window

(* A single file is read in its order; of several, primary first, the      *)
(* lines are sorted by the text of their dates, the undated in front: the  *)
(* order of the work, on which the groups depend, only while every line is *)
(* dated and the clocks agree.                                             *)
Stamp(l) == IF l.dated THEN l.at + Zone[l.seat] ELSE 0

Precedes(l, m) ==
    IF \A k \in activity : k.seat = l.seat THEN l.at < m.at
    ELSE \/ Stamp(l) < Stamp(m)
         \/ Stamp(l) = Stamp(m) /\ (l.seat < m.seat \/ (l.seat = m.seat /\ l.at < m.at))

load_ledger == {l \in activity : Recent(l)}

(* jaccard(a, b) >= 0.5                                                    *)
Alike(a, b) == a # {} /\ b # {} /\ 2 * Cardinality(a \cap b) >= Cardinality(a \cup b)

(* A line that is like no earlier seed begins a group of its own ...       *)
Seeds == CHOOSE Q \in SUBSET load_ledger :
             \A l \in load_ledger :
                 l \in Q <=> \A m \in Q : Precedes(m, l) => ~Alike(m.words, l.words)

(* ... of itself and the later lines like it that no earlier seed took.    *)
Grouped(s, seeds) ==
    {l \in load_ledger : /\ ~Precedes(l, s) /\ Alike(s.words, l.words)
                         /\ \A m \in seeds : Precedes(m, s) => ~Alike(m.words, l.words)}

Clusters ==
    LET seeds == Seeds IN
    {c \in {[seed |-> s, lines |-> Grouped(s, seeds)] : s \in seeds} :
        Cardinality(c.lines) >= MinCluster}

AllWords(lines) == UNION {l.words : l \in lines}

SharedWords(lines) == {w \in AllWords(lines) : \A l \in lines : w \in l.words}

Common(c) == IF SharedWords(c.lines) = {} THEN c.seed.words ELSE SharedWords(c.lines)

slugify(words) == {w \in words : Cardinality({v \in words : v < w}) < SlugWords}

(* By the name of an installed skill, or by its name and triggers; it      *)
(* "should have fired".                                                    *)
Matched(c) == \E k \in skills : \/ k.name \subseteq AllWords(c.lines)
                                \/ Alike(Common(c), k.words)
                                \/ \E l \in c.lines : Alike(l.words, k.words)

(* Mutant: the slug is looked up among the rejected.                       *)
SuppressedByName(c) == slugify(Common(c)) \in rejected

(* A rejection keeps no more of the work than the words of its slug.       *)
Suppressed(c) == \E words \in rejected : Alike(AllWords(c.lines), words)

(* A brief of the same name is not replaced: the k-th candidate of a name  *)
(* takes the k-th number of it that is free.                               *)
FreeNumber(name, k) ==
    LET free(n) == \A b \in briefs : b.name = name => b.n # n IN
    CHOOSE n \in 1..(Cardinality(briefs) + k) :
        free(n) /\ Cardinality({m \in 1..n : free(m)}) = k

BriefOf(c, new) ==
    LET name == slugify(Common(c))
        upTo == {d \in new : slugify(Common(d)) = name /\ ~Precedes(c.seed, d.seed)} IN
    [name |-> name, n |-> FreeNumber(name, Cardinality(upTo)),
     lines |-> c.lines, all |-> AllWords(c.lines)]

(* The larger first, and what is beyond the cap waits for the next run.    *)
Capped(new) ==
    LET size(c) == Cardinality(c.lines)
        before(c) == {d \in new : \/ size(d) > size(c)
                                  \/ size(d) = size(c) /\ Precedes(d.seed, c.seed)} IN
    {c \in new : Cardinality(before(c)) < Cap}

Candidates ==
    LET new == {c \in Clusters : ~Matched(c) /\ ~Suppressed(c)} IN
    {BriefOf(c, new) : c \in Capped(new)}

-----------------------------------------------------------------------------
(* A seat does ad-hoc work and writes a line, an old template without its  *)
(* date.                                                                   *)
Work ==
    /\ Cardinality(activity) < MaxLines /\ now < MaxNow /\ now' = now + 1
    /\ \E w \in Triggers, s \in Seats, d \in BOOLEAN :
          /\ d \/ s = 1
          /\ activity' = activity \cup {[words |-> w, at |-> now + 1, dated |-> d, seat |-> s]}
    /\ UNCHANGED <<briefs, rejected, skills, recruit, recruits, decided>>

Wait ==
    /\ now < MaxNow /\ now' = now + 1
    /\ UNCHANGED <<activity, briefs, rejected, skills, recruit, recruits, decided>>

(* The script prints and ends; a run that filed all, or gave up, is over.  *)
Cluster ==
    /\ recruits < MaxRecruits /\ recruits' = recruits + 1
    /\ recruit' = [listed |-> Candidates, known |-> decided]
    /\ UNCHANGED <<activity, now, briefs, rejected, skills, decided>>

FileBrief ==
    /\ \E b \in recruit.listed :
          /\ briefs' = {x \in briefs : <<x.name, x.n>> # <<b.name, b.n>>} \cup {b}
          /\ recruit' = [recruit EXCEPT !.listed = @ \ {b}]
    /\ UNCHANGED <<activity, now, rejected, skills, recruits, decided>>

Approve ==
    /\ \E b \in briefs :
          /\ briefs' = briefs \ {b}
          /\ skills' = skills \cup {[name |-> b.name, words |-> b.all]}
          /\ decided' = decided \cup {[brief |-> b, approved |-> TRUE]}
    /\ UNCHANGED <<activity, now, rejected, recruit, recruits>>

Reject ==
    /\ \E b \in briefs :
          /\ briefs' = briefs \ {b}
          /\ rejected' = rejected \cup {b.name}
          /\ decided' = decided \cup {[brief |-> b, approved |-> FALSE]}
    /\ UNCHANGED <<activity, now, skills, recruit, recruits>>

RecruitNext == Work \/ Wait \/ Cluster \/ FileBrief \/ Approve \/ Reject

RecruitSpec == RecruitInit /\ [][RecruitNext]_recruitvars

-----------------------------------------------------------------------------
(* The owner decides on a piece of work once: no later run lists it again, *)
(* when some of its lines have left the window and the group has another   *)
(* name or number too.  The exceptions: a rejected group with more than    *)
(* twice as many words as its slug, which the script compares with all of  *)
(* them (cluster_ledger.py:150) and lists again at once, although          *)
(* review-candidates promises that it "won't be re-proposed"; a group      *)
(* whose lines share no word, named after its first line, which may leave  *)
(* the window (cluster_ledger.py:130); and a run that had listed it before *)
(* the owner decided.                                                      *)
DecidedOnce ==
    \A b \in recruit.listed, d \in recruit.known :
        b.lines \subseteq d.brief.lines /\ SharedWords(d.brief.lines) # {} =>
            ~d.approved /\ Cardinality(d.brief.all) > 2 * Cardinality(d.brief.name)
=============================================================================
