----------------------------- MODULE PruneUnits -----------------------------
(***************************************************************************)
(* What tools/context-prune.mjs may take out of one startup file.  A text  *)
(* is a sequence of lines; what the scan tells lines apart by is given by  *)
(* the constants below.  The scan is one pass with a stack of enclosing    *)
(* headings; here each line says for itself what the pass knows there.     *)
(***************************************************************************)
EXTENDS Integers, Sequences, FiniteSets, SequencesExt

CONSTANTS Lines,      \* the lines a startup file can hold, but the pointers
          Level,      \* heading level of a line, 0 when it is no heading
          Items,      \* top-level list items
          Indented,   \* non-blank lines that begin with white space
          Aged,       \* lines whose first date is before the cutoff of some run
          Marked,     \* lines carrying [archive-eligible]
          Pinned,     \* lines carrying [pinned] or a standing rule or policy
          Prefs,      \* headings that name preferences, patterns or lessons
          Pointer     \* the line left where a unit stood

ASSUME LinesAssumption ==
    /\ Level \in [Lines \cup {Pointer} -> 0..6]
    /\ Pointer \notin Lines \cup Indented \cup Marked
    /\ Level[Pointer] = 0

TextLines == Lines \cup {Pointer}

IsHeading(l) == Level[l] > 0

(* Line k is behind the section or the item that starts at line i.         *)
Ends(t, i, k) == IF IsHeading(t[i]) THEN Level[t[k]] \in 1..Level[t[i]]
                                    ELSE t[k] \notin Indented

(* The lines of the section or item that starts at line i.                 *)
Span(t, i) == {j \in i..Len(t) : \A k \in (i + 1)..j : ~Ends(t, i, k)}

LinesAt(t, is) == {t[i] : i \in is}

(* A section opts in on its heading, an item anywhere in its lines; a      *)
(* pinned line anywhere in either keeps the whole of it.                   *)
OptedIn(t, i) ==
    LET body == LinesAt(t, Span(t, i))
    IN  /\ body \cap Pinned = {}
        /\ IF IsHeading(t[i]) THEN t[i] \in Marked ELSE body \cap Marked # {}

(* protectedSections when the scan stands at line i: the headings line i   *)
(* is under, itself included when it is one.                               *)
Under(t, i) == {j \in 1..i : IsHeading(t[j]) /\ i \in Span(t, j)}

(* inPrefs at line i: in the entry file, the last # or ## heading decides. *)
InPrefs(t, entry, i) ==
    entry => \E j \in 1..i : /\ Level[t[j]] \in 1..2 /\ t[j] \in Prefs
                            /\ \A k \in (j + 1)..i : Level[t[k]] \notin 1..2

Eligible(t, entry, aged, i) ==
    /\ t[i] \in Items \/ Level[t[i]] >= 2
    /\ t[i] \in aged
    /\ InPrefs(t, entry, i)
    /\ \A j \in Under(t, i) : t[j] \notin Pinned
    /\ OptedIn(t, i)

(* unitsIn: the line numbers where a unit starts.  The scan goes on behind *)
(* a unit it took, so that what lies in one is not a unit of its own.      *)
UnitsIn(t, entry, aged) ==
    LET can == {i \in DOMAIN t : Eligible(t, entry, aged, i)}
    IN  {i \in can : \A j \in can : ~(j < i /\ i \in Span(t, j))}

MovedAt(t, units) == UNION {Span(t, i) : i \in units}

Moved(t, units) == LinesAt(t, MovedAt(t, units))

(* How many of the lines is come no later than line i.                     *)
Rank(is, i) == Cardinality({j \in is : j <= i})

(* Mutant: the replacement is the text as it was read.                     *)
UnitsStay(t, units) == t

(* The text with a pointer in the place of each unit.                      *)
Replacement(t, units) ==
    LET kept == DOMAIN t \ (MovedAt(t, units) \ units)
        line == [n \in 1..Cardinality(kept) |-> CHOOSE i \in kept : Rank(kept, i) = n]
    IN  [n \in 1..Cardinality(kept) |-> IF line[n] \in units THEN Pointer ELSE t[line[n]]]
=============================================================================
