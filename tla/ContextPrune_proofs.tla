-------------------------- MODULE ContextPrune_proofs --------------------------
(***************************************************************************)
(* For any startup files, texts, prune runs and cutoffs: a line the owner  *)
(* wrote and did not take out is in the file or in its archive, unless the *)
(* owner saved between a run's last comparison and its rename; and an      *)
(* entry is in the archive twice only after an interrupted apply, an       *)
(* overwriting rename or such a save, or while a run is at work.           *)
(***************************************************************************)
EXTENDS ContextPrune, FiniteSetTheorems, TLAPS

\* The places of lines among the lines kept.
LEMMA RankIsCount ==
    ASSUME NEW m \in Nat, NEW is \in SUBSET (1..m)
    PROVE  /\ Cardinality(is) \in Nat
           /\ \A i \in is : Rank(is, i) \in 1..Cardinality(is)
           /\ \A i, j \in is : Rank(is, i) = Rank(is, j) => i = j
<1> DEFINE upto(i) == {j \in is : j <= i}
<1>1. IsFiniteSet(is) /\ Cardinality(is) \in Nat
  <2>1. IsFiniteSet(1..m)
    BY FS_Interval
  <2>2. IsFiniteSet(is)
    BY <2>1, FS_Subset
  <2>3. QED
    BY <2>2, FS_CardinalityType
<1>2. ASSUME NEW i \in is PROVE IsFiniteSet(upto(i)) /\ Cardinality(upto(i)) \in 1..Cardinality(is)
  <2>1. /\ IsFiniteSet(upto(i)) /\ Cardinality(upto(i)) <= Cardinality(is)
    BY <1>1, FS_Subset
  <2>2. Cardinality(upto(i)) \in Nat /\ (Cardinality(upto(i)) = 0 <=> upto(i) = {})
    BY <2>1, FS_CardinalityType, FS_EmptySet
  <2>3. i \in upto(i)
    OBVIOUS
  <2>4. QED
    BY <1>1, <2>1, <2>2, <2>3
<1>3. ASSUME NEW i \in is, NEW j \in is, i < j PROVE Rank(is, i) # Rank(is, j)
  <2>0. \A k \in is : k \in Int
    OBVIOUS
  <2>1. upto(i) \subseteq upto(j) /\ j \in upto(j) /\ j \notin upto(i)
    <3>1. \A k \in is : k <= i => k <= j
      BY <1>3, <2>0
    <3>2. j <= j /\ ~(j <= i)
      BY <1>3, <2>0
    <3>3. QED
      BY <3>1, <3>2
  <2>2. Cardinality(upto(i)) # Cardinality(upto(j))
    BY <1>2, <2>1, FS_Subset
  <2>3. QED
    BY <2>2 DEF Rank
<1>4. \A i \in is : Rank(is, i) \in 1..Cardinality(is)
  BY <1>2 DEF Rank
<1>5. \A i, j \in is : Rank(is, i) = Rank(is, j) => i = j
  BY <1>3
<1>6. QED
  BY <1>1, <1>4, <1>5

\* Each place of the lines kept is that of one of them.
LEMMA RankIsOnto ==
    ASSUME NEW m \in Nat, NEW is \in SUBSET (1..m), NEW n \in 1..Cardinality(is)
    PROVE  \E i \in is : Rank(is, i) = n
<1> DEFINE rank == [i \in is |-> Rank(is, i)]
           places == 1..Cardinality(is)
<1>1. /\ Cardinality(is) \in Nat
      /\ \A i \in is : Rank(is, i) \in 1..Cardinality(is)
      /\ \A i, j \in is : Rank(is, i) = Rank(is, j) => i = j
  BY RankIsCount
<1>2. rank \in Injection(is, places)
  BY <1>1 DEF Injection, IsInjective
<1>3. IsFiniteSet(places) /\ Cardinality(places) = Cardinality(is)
  BY <1>1, FS_Interval
<1>4. rank \in Surjection(is, places)
  <2> HIDE DEF rank, places
  <2>1. QED
    BY <1>2, <1>3, FS_Injection
<1>5. QED
  BY <1>4 DEF Surjection

\* What is left of a text and what is moved out of it are all its lines
\* (context-prune.mjs:150-158).
LEMMA ReplacementKeepsLines ==
    ASSUME NEW t \in Seq(TextLines), NEW units \in SUBSET (Nat \ {0})
    PROVE  /\ Replacement(t, units) \in Seq(TextLines)
           /\ Moved(t, units) \subseteq TextLines
           /\ ToSet(t) \subseteq Moved(t, units) \cup ToSet(Replacement(t, units))
<1> DEFINE kept == DOMAIN t \ (MovedAt(t, units) \ units)
           line == [n \in 1..Cardinality(kept) |-> CHOOSE i \in kept : Rank(kept, i) = n]
           text2 == [n \in 1..Cardinality(kept) |->
                        IF line[n] \in units THEN Pointer ELSE t[line[n]]]
<1>1. /\ Len(t) \in Nat /\ DOMAIN t = 1..Len(t) /\ kept \in SUBSET (1..Len(t))
      /\ \A i \in 1..Len(t) : t[i] \in TextLines
  OBVIOUS
<1>2. Replacement(t, units) = text2
  BY DEF Replacement
<1> HIDE DEF kept
<1>3. /\ Cardinality(kept) \in Nat
      /\ \A i \in kept : Rank(kept, i) \in 1..Cardinality(kept)
      /\ \A i, j \in kept : Rank(kept, i) = Rank(kept, j) => i = j
  BY <1>1, RankIsCount
<1>4. \A n \in 1..Cardinality(kept) : line[n] \in kept /\ Rank(kept, line[n]) = n
  BY <1>1, RankIsOnto
<1>5. text2 \in Seq(TextLines)
  <2>1. \A n \in 1..Cardinality(kept) : text2[n] \in TextLines
    BY <1>1, <1>4 DEF TextLines
  <2>2. text2 \in [1..Cardinality(kept) -> TextLines]
    BY <2>1
  <2> HIDE DEF text2
  <2>3. QED
    BY <1>3, <2>2
<1>6. Moved(t, units) \subseteq TextLines
  BY <1>1 DEF Moved, LinesAt, MovedAt, Span
<1>7. ASSUME NEW i \in DOMAIN t PROVE t[i] \in Moved(t, units) \cup ToSet(text2)
  <2>1. CASE i \in MovedAt(t, units)
    BY <2>1 DEF Moved, LinesAt
  <2>2. CASE i \notin MovedAt(t, units)
    <3>1. i \in kept /\ i \notin units
      <4>1. i \in units => i \in Span(t, i)
        BY <1>1 DEF Span
      <4>2. QED
        BY <2>2, <4>1 DEF MovedAt, kept
    <3>2. line[Rank(kept, i)] = i
      BY <1>3, <1>4, <3>1
    <3>3. text2[Rank(kept, i)] = t[i] /\ Rank(kept, i) \in DOMAIN text2
      BY <1>3, <3>1, <3>2
    <3>4. QED
      BY <3>3 DEF ToSet
  <2>3. QED
    BY <2>1, <2>2
<1>8. QED
  BY <1>2, <1>5, <1>6, <1>7 DEF ToSet

-----------------------------------------------------------------------------
\* What a run knows: it holds a plan while it is under way and works on one file of it;
\* past the read back every entry is in the archive; past the last comparison every line
\* of the owner is in the text planned from or archived, but for a save since.
Archived(f, l) == archive[f][l] > 0

Informed(r) ==
    /\ run[r].pc # "idle" => run[r].plan \in Plans
    /\ run[r].todo \cup run[r].file \subseteq Files \ Generated
    /\ \A f, g \in run[r].file : f = g
    /\ run[r].pc \in {"temp", "rename"} =>
          \A f \in run[r].file : \A l \in Entered(r, f) : Archived(f, l)
    /\ run[r].pc = "rename" =>
          \A f \in run[r].file : \A l \in owned[f] :
              l \in ToSet(Original(r, f)) \/ Archived(f, l) \/ "window" \in odd[f]

PruneIInv == PruneTypeOK /\ OwnerLinesKept /\ \A r \in Runs : Informed(r)

LEMMA InitPruneIInv == PruneInit => PruneIInv
<1> SUFFICES ASSUME PruneInit PROVE PruneIInv
  OBVIOUS
<1>1. text \in [Files -> Seq(Lines)]
  BY PruneAssumption DEF PruneInit
<1>2. \A f \in Files : text[f] \in Seq(TextLines) /\ ToSet(text[f]) \subseteq Lines
  BY <1>1 DEF TextLines, ToSet
<1>3. PruneTypeOK
  BY <1>1, <1>2 DEF PruneInit, PruneTypeOK, Idle, RunStates
<1>4. OwnerLinesKept
  BY DEF PruneInit, OwnerLinesKept
<1>5. \A r \in Runs : Informed(r)
  BY DEF PruneInit, Informed, Idle
<1>6. QED
  BY <1>3, <1>4, <1>5 DEF PruneIInv

-----------------------------------------------------------------------------
\* A step of a run takes nothing from an archive and forgets nothing that happened.
LEMMA CopiedGrows ==
    ASSUME PruneTypeOK, NEW f \in Files, NEW ls
    PROVE  /\ Copied(f, ls) \in [Files -> [TextLines -> 0..2]]
           /\ \A g \in Files, l \in TextLines : archive[g][l] > 0 => Copied(f, ls)[g][l] > 0
<1>1. archive[f] \in [TextLines -> 0..2]
  BY DEF PruneTypeOK
<1> DEFINE more == [l \in TextLines |->
                       IF l \in ls THEN (IF archive[f][l] = 2 THEN 2 ELSE archive[f][l] + 1)
                                   ELSE archive[f][l]]
<1>2. \A l \in TextLines : more[l] \in 0..2 /\ (archive[f][l] > 0 => more[l] > 0)
  BY <1>1
<1>3. more \in [TextLines -> 0..2]
  BY <1>2
<1>4. Copied(f, ls) = [archive EXCEPT ![f] = more]
  BY DEF Copied
<1> HIDE DEF more
<1>5. QED
  BY <1>2, <1>3, <1>4 DEF PruneTypeOK

LEMMA RunStepGrows ==
    ASSUME PruneTypeOK, NEW r \in Runs, RunStep(r) \/ Crash(r)
    PROVE  /\ owned' = owned /\ saves' = saves
           /\ \A f \in Files : odd[f] \subseteq odd'[f]
           /\ odd' \in [Files -> SUBSET {"interrupted", "overwrote", "window"}]
           /\ archive' \in [Files -> [TextLines -> 0..2]]
           /\ \A f \in Files, l \in TextLines : archive[f][l] > 0 => archive'[f][l] > 0
           /\ \A q \in Runs \ {r} : run'[q] = run[q]
<1>0. Working(r) \subseteq Files
  BY DEF PruneTypeOK, RunStates, Working
<1>1. odd' = odd \/ (\E f \in Files : \E w \in {"interrupted", "overwrote"} :
                        odd' = [odd EXCEPT ![f] = @ \cup {w}])
                 \/ odd' = [f \in Files |-> IF f \in Working(r) /\ Appended(r)
                                            THEN odd[f] \cup {"interrupted"} ELSE odd[f]]
  BY <1>0 DEF RunStep, Plan, NextFile, Exit, AppendArchive, ReadBack, WriteTemp, Rename, Verify,
              Crash, Interrupted
<1>2. /\ \A f \in Files : odd[f] \subseteq odd'[f]
      /\ odd' \in [Files -> SUBSET {"interrupted", "overwrote", "window"}]
  <2> DEFINE Odd == SUBSET {"interrupted", "overwrote", "window"}
  <2>1. ASSUME NEW f \in Files, NEW w \in {"interrupted", "overwrote"}
        PROVE  odd[f] \cup {w} \in Odd
    BY DEF PruneTypeOK
  <2>2. odd \in [Files -> Odd]
    BY DEF PruneTypeOK
  <2> HIDE DEF Odd
  <2>3. odd' \in [Files -> Odd] /\ \A f \in Files : odd[f] \subseteq odd'[f]
    BY <1>1, <2>1, <2>2
  <2>4. QED
    BY <2>3 DEF Odd
<1>3. archive' = archive \/ \E f \in Files : \E ls : archive' = Copied(f, ls)
  BY <1>0 DEF RunStep, Plan, NextFile, Exit, AppendArchive, ReadBack, WriteTemp, Rename, Verify,
              Crash
<1>4. /\ archive' \in [Files -> [TextLines -> 0..2]]
      /\ \A f \in Files, l \in TextLines : archive[f][l] > 0 => archive'[f][l] > 0
  <2>1. CASE archive' = archive
    BY <2>1 DEF PruneTypeOK
  <2>2. ASSUME NEW f \in Files, NEW ls, archive' = Copied(f, ls)
        PROVE  /\ archive' \in [Files -> [TextLines -> 0..2]]
               /\ \A g \in Files, l \in TextLines : archive[g][l] > 0 => archive'[g][l] > 0
    BY <2>2, CopiedGrows
  <2>3. QED
    BY <1>3, <2>1, <2>2
<1>5. \A q \in Runs \ {r} : run'[q] = run[q]
  BY DEF RunStep, Plan, NextFile, Exit, AppendArchive, ReadBack, WriteTemp, Rename, Verify,
         Crash, Interrupted, Fail, Step, PruneTypeOK
<1>6. owned' = owned /\ saves' = saves
  BY DEF RunStep, Plan, NextFile, Exit, AppendArchive, ReadBack, WriteTemp, Rename, Verify, Crash
<1>7. QED
  BY <1>2, <1>4, <1>5, <1>6

\* The text a run replaces a file by has lines of it and pointers.
LEMMA ReplacedType ==
    ASSUME PruneTypeOK, NEW r \in Runs, Informed(r), run[r].pc # "idle", NEW f \in Working(r)
    PROVE  /\ f \in Files /\ Original(r, f) \in Seq(TextLines)
           /\ Replaced(r, f) \in Seq(TextLines) /\ Entered(r, f) \subseteq TextLines
           /\ ToSet(Original(r, f)) \subseteq Entered(r, f) \cup ToSet(Replaced(r, f))
<1>1. /\ f \in Files \ Generated
      /\ run[r].plan[f].original \in Seq(TextLines)
      /\ run[r].plan[f].units \in SUBSET (Nat \ {0})
  BY DEF Informed, Working, Plans
<1>2. QED
  BY <1>1, ReplacementKeepsLines DEF Original, Replaced, Entered

LEMMA RunStepTypes ==
    ASSUME PruneTypeOK, NEW r \in Runs, Informed(r), RunStep(r) \/ Crash(r)
    PROVE  PruneTypeOK'
<1>1. text' \in [Files -> Seq(TextLines)]
  <2>1. CASE Rename(r)
    <3>1. PICK f \in Working(r) : text' = [text EXCEPT ![f] = Replaced(r, f)]
      BY <2>1 DEF Rename
    <3>2. Replaced(r, f) \in Seq(TextLines)
      BY <2>1, ReplacedType DEF Rename
    <3>3. QED
      BY <3>1, <3>2 DEF PruneTypeOK
  <2>2. CASE ~Rename(r)
    BY <2>2 DEF RunStep, Plan, NextFile, Exit, AppendArchive, ReadBack, WriteTemp, Verify, Crash,
                PruneTypeOK
  <2>3. QED
    BY <2>1, <2>2
<1>2. Idle \in RunStates
  BY DEF Idle, RunStates
<1>3. run' \in [Runs -> RunStates]
  <2>1. CASE Plan(r)
    <3> DEFINE plan == [f \in Files \ Generated |->
                          [original |-> text[f], units |-> Units(r, f, text[f])]]
    <3>1. ASSUME NEW f \in Files PROVE Units(r, f, text[f]) \subseteq Nat \ {0}
      BY DEF Units, UnitsIn, PruneTypeOK
    <3>2. plan \in Plans
      BY <3>1 DEF PruneTypeOK, Plans
    <3> HIDE DEF plan
    <3>3. PICK work \in SUBSET Files :
             run' = [run EXCEPT ![r] = [Idle EXCEPT !.pc = "next", !.todo = work, !.plan = plan]]
      BY <2>1 DEF Plan, plan
    <3>4. [Idle EXCEPT !.pc = "next", !.todo = work, !.plan = plan] \in RunStates
      BY <3>2 DEF Idle, RunStates
    <3>5. QED
      BY <3>3, <3>4 DEF PruneTypeOK
  <2>2. CASE NextFile(r)
    <3>1. PICK f \in run[r].todo, same \in BOOLEAN :
             run' = [run EXCEPT ![r].todo = @ \ {f}, ![r].file = {f}, ![r].ok = @ /\ same,
                                ![r].pc = IF same THEN "append" ELSE "next"]
      BY <2>2 DEF NextFile, Unchanged
    <3>2. run[r] \in RunStates
      BY DEF PruneTypeOK
    <3>3. [run[r] EXCEPT !.todo = @ \ {f}, !.file = {f}, !.ok = @ /\ same,
                         !.pc = IF same THEN "append" ELSE "next"] \in RunStates
      BY <3>1, <3>2 DEF RunStates
    <3>4. QED
      BY <3>1, <3>3 DEF PruneTypeOK
  <2>3. CASE Exit(r)
    <3>1. [Idle EXCEPT !.ok = run[r].ok] \in RunStates
      BY DEF PruneTypeOK, RunStates, Idle
    <3>2. QED
      BY <2>3, <3>1 DEF Exit, PruneTypeOK
  <2>4. CASE Crash(r)
    BY <1>2, <2>4 DEF Crash, PruneTypeOK
  <2>5. CASE AppendArchive(r) \/ ReadBack(r) \/ WriteTemp(r) \/ Rename(r) \/ Verify(r)
    <3>1. \/ \E pc \in {"readback", "temp", "rename", "verify", "next"} : Step(r, pc)
          \/ Fail(r)
      BY <2>5 DEF AppendArchive, ReadBack, WriteTemp, Rename, Verify, Interrupted
    <3>2. run[r] \in RunStates
      BY DEF PruneTypeOK
    <3>3. /\ \A pc \in {"readback", "temp", "rename", "verify", "next"} :
                [run[r] EXCEPT !.pc = pc] \in RunStates
          /\ [run[r] EXCEPT !.pc = "next", !.ok = FALSE] \in RunStates
      BY <3>2 DEF RunStates
    <3>4. QED
      BY <3>1, <3>3 DEF Step, Fail, PruneTypeOK
  <2>6. QED
    BY <2>1, <2>2, <2>3, <2>4, <2>5 DEF RunStep
<1>4. faults' \in Nat /\ runs' \in [Runs -> Nat]
  <2>1. (faults' = faults \/ faults' = faults + 1) /\ (runs' = runs \/ runs' = [runs EXCEPT ![r] = @ + 1])
    BY DEF RunStep, Plan, NextFile, Exit, AppendArchive, ReadBack, WriteTemp, Rename, Verify, Crash
  <2>2. faults \in Nat /\ runs \in [Runs -> Nat] /\ runs[r] + 1 \in Nat
    BY DEF PruneTypeOK
  <2>3. [runs EXCEPT ![r] = runs[r] + 1] \in [Runs -> Nat]
    BY <2>2
  <2>4. QED
    BY <2>1, <2>2, <2>3
<1>5. QED
  BY <1>1, <1>3, <1>4, RunStepGrows DEF PruneTypeOK

-----------------------------------------------------------------------------
\* What a run knows stays true through the other runs' steps.
LEMMA OthersStayInformed ==
    ASSUME PruneIInv, NEW r \in Runs, RunStep(r) \/ Crash(r), NEW q \in Runs \ {r}
    PROVE  Informed(q)'
<1>1. /\ run'[q] = run[q] /\ owned' = owned
      /\ \A f \in Files : odd[f] \subseteq odd'[f]
      /\ \A f \in Files, l \in TextLines : Archived(f, l) => Archived(f, l)'
  BY RunStepGrows DEF PruneIInv, Archived
<1>2. Informed(q) /\ run[q].file \subseteq Files
  BY DEF PruneIInv, PruneTypeOK, RunStates
<1>3. \A f \in Files : Entered(q, f)' = Entered(q, f) /\ Original(q, f)' = Original(q, f)
  BY <1>1 DEF Entered, Original
<1>4. ASSUME run[q].pc \in {"temp", "rename"}, NEW f \in run[q].file, NEW l \in Entered(q, f)
      PROVE  Archived(f, l)'
  <2>1. Entered(q, f) \subseteq TextLines
    BY <1>2, <1>4, ReplacedType DEF PruneIInv, Working
  <2>2. QED
    BY <1>1, <1>2, <1>4, <2>1 DEF Informed
<1>5. ASSUME run[q].pc = "rename", NEW f \in run[q].file, NEW l \in owned[f]
      PROVE  l \in ToSet(Original(q, f)) \/ Archived(f, l)' \/ "window" \in odd'[f]
  <2>1. l \in TextLines
    BY <1>2, <1>5 DEF PruneIInv, PruneTypeOK, TextLines
  <2>2. QED
    BY <1>1, <1>2, <1>5, <2>1 DEF Informed
<1>6. QED
  BY <1>1, <1>2, <1>3, <1>4, <1>5 DEF Informed

LEMMA RunStaysInformed ==
    ASSUME PruneIInv, NEW r \in Runs, RunStep(r) \/ Crash(r)
    PROVE  Informed(r)'
<1>1. /\ PruneTypeOK /\ Informed(r) /\ OwnerLinesKept
      /\ run[r] \in RunStates /\ run \in [Runs -> RunStates]
  BY DEF PruneIInv, PruneTypeOK
<1>2. CASE Plan(r)
  <2> DEFINE plan == [f \in Files \ Generated |->
                        [original |-> text[f], units |-> Units(r, f, text[f])]]
  <2>1. ASSUME NEW f \in Files PROVE Units(r, f, text[f]) \subseteq Nat \ {0}
    BY <1>1 DEF Units, UnitsIn, PruneTypeOK
  <2>2. plan \in Plans
    BY <1>1, <2>1 DEF PruneTypeOK, Plans
  <2> HIDE DEF plan
  <2>3. \E work \in SUBSET (Files \ Generated) :
           run' = [run EXCEPT ![r] = [Idle EXCEPT !.pc = "next", !.todo = work, !.plan = plan]]
    BY <1>2 DEF Plan, plan
  <2>4. run'[r].pc = "next" /\ run'[r].plan = plan /\ run'[r].file = {}
        /\ run'[r].todo \subseteq Files \ Generated
    BY <1>1, <2>3 DEF Idle
  <2>5. QED
    BY <2>2, <2>4 DEF Informed
<1>3. CASE NextFile(r)
  <2>1. PICK f \in run[r].todo, same \in BOOLEAN :
           run' = [run EXCEPT ![r].todo = @ \ {f}, ![r].file = {f}, ![r].ok = @ /\ same,
                              ![r].pc = IF same THEN "append" ELSE "next"]
    BY <1>3 DEF NextFile, Unchanged
  <2>2. /\ run'[r].todo \subseteq run[r].todo /\ run'[r].file = {f}
        /\ run'[r].plan = run[r].plan /\ run'[r].pc \in {"append", "next"}
    BY <1>1, <2>1 DEF RunStates
  <2>3. f \in Files \ Generated /\ run[r].plan \in Plans
    BY <1>1, <1>3 DEF Informed, NextFile
  <2>4. QED
    BY <1>1, <2>2, <2>3 DEF Informed
<1>4. CASE Exit(r) \/ Crash(r)
  <2>1. run'[r].pc = "idle" /\ run'[r].todo = {} /\ run'[r].file = {}
    BY <1>1, <1>4 DEF Exit, Crash, Idle
  <2>2. QED
    BY <2>1 DEF Informed
<1>5. CASE AppendArchive(r) \/ ReadBack(r) \/ WriteTemp(r) \/ Rename(r) \/ Verify(r)
  <2>1. /\ run'[r].todo = run[r].todo /\ run'[r].file = run[r].file
        /\ run'[r].plan = run[r].plan /\ run[r].pc # "idle"
        /\ \/ run'[r].pc \in {"next", "readback", "verify"}
           \/ run'[r].pc = "temp" /\ ReadBack(r)
           \/ run'[r].pc = "rename" /\ WriteTemp(r)
    BY <1>1, <1>5 DEF AppendArchive, ReadBack, WriteTemp, Rename, Verify, Interrupted, Step, Fail,
                      RunStates
  <2>2. \A f : Entered(r, f)' = Entered(r, f) /\ Original(r, f)' = Original(r, f)
    BY <2>1 DEF Entered, Original
  <2>3. CASE run'[r].pc = "temp" /\ ReadBack(r)
    <3>1. \A f \in run[r].file : Preserved(r, f) /\ archive' = archive
      BY <1>1, <2>3 DEF ReadBack, Working, Informed, Interrupted, Fail, RunStates
    <3>2. \A f \in run[r].file : \A l \in Entered(r, f) : Archived(f, l)'
      BY <3>1 DEF Preserved, Archived
    <3>3. QED
      BY <1>1, <2>1, <2>2, <2>3, <3>2 DEF Informed
  <2>4. CASE run'[r].pc = "rename" /\ WriteTemp(r)
    <3>1. \A f \in run[r].file : text[f] = Original(r, f)
      BY <1>1, <2>4 DEF WriteTemp, Working, Informed, Interrupted, Fail, RunStates, Unchanged
    <3>2. run[r].pc = "temp" /\ archive' = archive /\ owned' = owned
          /\ \A f \in Files : odd[f] \subseteq odd'[f]
      BY <1>1, <2>4, RunStepGrows DEF WriteTemp
    <3>3. \A f \in run[r].file : \A l \in Entered(r, f) : Archived(f, l)'
      BY <1>1, <3>2 DEF Informed, Archived
    <3>4. run[r].file \subseteq Files
      BY <1>1 DEF RunStates
    <3>5. \A f \in run[r].file : \A l \in owned'[f] :
             l \in ToSet(Original(r, f)) \/ Archived(f, l)' \/ "window" \in odd'[f]
      BY <1>1, <3>1, <3>2, <3>4 DEF OwnerLinesKept, Archived
    <3>6. QED
      BY <1>1, <2>1, <2>2, <2>4, <3>3, <3>5 DEF Informed
  <2>5. CASE run'[r].pc \in {"next", "readback", "verify"}
    BY <1>1, <2>1, <2>5 DEF Informed
  <2>6. QED
    BY <2>1, <2>3, <2>4, <2>5
<1>6. QED
  BY <1>2, <1>3, <1>4, <1>5 DEF RunStep

\* Only a rename changes a file, and it knows that what it drops is archived.
LEMMA RunKeepsLines ==
    ASSUME PruneIInv, NEW r \in Runs, RunStep(r) \/ Crash(r)
    PROVE  OwnerLinesKept'
<1>1. /\ PruneTypeOK /\ Informed(r) /\ OwnerLinesKept /\ owned \in [Files -> SUBSET Lines]
      /\ owned' = owned
      /\ \A f \in Files : odd[f] \subseteq odd'[f]
      /\ \A f \in Files, l \in TextLines : archive[f][l] > 0 => archive'[f][l] > 0
  BY RunStepGrows DEF PruneIInv, PruneTypeOK
<1>2. ASSUME NEW f \in Files, NEW l \in owned[f]
      PROVE  l \in ToSet(text'[f]) \/ archive'[f][l] > 0 \/ "window" \in odd'[f]
  <2>1. l \in TextLines
    BY <1>1, <1>2 DEF TextLines
  <2>2. CASE text'[f] = text[f]
    BY <1>1, <1>2, <2>1, <2>2 DEF OwnerLinesKept
  <2>3. CASE text'[f] # text[f]
    <3>1. /\ f \in Working(r) /\ run[r].pc = "rename"
          /\ text'[f] = Replaced(r, f)
      BY <1>1, <2>3 DEF RunStep, Plan, NextFile, Exit, AppendArchive, ReadBack, WriteTemp, Rename,
                        Verify, Crash, PruneTypeOK
    <3>2. ToSet(Original(r, f)) \subseteq Entered(r, f) \cup ToSet(Replaced(r, f))
      BY <1>1, <3>1, ReplacedType
    <3>3. l \in ToSet(Original(r, f)) \/ archive[f][l] > 0 \/ "window" \in odd[f]
      BY <1>1, <1>2, <3>1 DEF Informed, Working, Archived
    <3>4. l \in Entered(r, f) => archive[f][l] > 0
      BY <1>1, <3>1 DEF Informed, Working, Archived
    <3>5. QED
      BY <1>1, <2>1, <3>1, <3>2, <3>3, <3>4
  <2>4. QED
    BY <2>2, <2>3
<1>3. QED
  BY <1>1, <1>2 DEF OwnerLinesKept

-----------------------------------------------------------------------------
\* What the owner's three ways to change a text leave in it.
LEMMA AppendKeeps ==
    ASSUME NEW t \in Seq(TextLines), NEW l \in TextLines
    PROVE  Append(t, l) \in Seq(TextLines) /\ ToSet(t) \cup {l} \subseteq ToSet(Append(t, l))
<1>1. /\ Append(t, l) \in Seq(TextLines) /\ DOMAIN t = 1..Len(t) /\ Len(t) \in Nat
      /\ DOMAIN Append(t, l) = 1..(Len(t) + 1) /\ Append(t, l)[Len(t) + 1] = l
      /\ \A i \in 1..Len(t) : Append(t, l)[i] = t[i]
  OBVIOUS
<1>2. \A i \in DOMAIN t : i \in DOMAIN Append(t, l) /\ Append(t, l)[i] = t[i]
  BY <1>1
<1>3. Len(t) + 1 \in DOMAIN Append(t, l)
  BY <1>1
<1>4. QED
  BY <1>1, <1>2, <1>3 DEF ToSet

LEMMA RemovePlaces ==
    ASSUME NEW t \in Seq(TextLines), NEW i \in DOMAIN t
    PROVE  /\ RemoveAt(t, i) \in Seq(TextLines) /\ DOMAIN RemoveAt(t, i) = 1..(Len(t) - 1)
           /\ \A k \in 1..(i - 1) : RemoveAt(t, i)[k] = t[k]
           /\ \A k \in i..(Len(t) - 1) : RemoveAt(t, i)[k] = t[k + 1]
<1> DEFINE a == SubSeq(t, 1, i - 1)
           b == SubSeq(t, i + 1, Len(t))
<1>1. DOMAIN t = 1..Len(t) /\ Len(t) \in Nat /\ i \in 1..Len(t)
  OBVIOUS
<1>2. /\ a \in Seq(TextLines) /\ Len(a) = i - 1 /\ \A k \in 1..(i - 1) : a[k] = t[k]
      /\ b \in Seq(TextLines) /\ Len(b) = Len(t) - i /\ \A k \in 1..(Len(t) - i) : b[k] = t[i + k]
  BY <1>1
<1> HIDE DEF a, b
<1>3. /\ a \o b \in Seq(TextLines) /\ DOMAIN (a \o b) = 1..(Len(t) - 1)
      /\ \A k \in 1..(i - 1) : (a \o b)[k] = t[k]
      /\ \A k \in i..(Len(t) - 1) : (a \o b)[k] = t[k + 1]
  <2>1. /\ a \o b \in Seq(TextLines) /\ Len(a \o b) = Len(a) + Len(b)
        /\ \A k \in 1..(Len(a) + Len(b)) :
              (a \o b)[k] = IF k <= Len(a) THEN a[k] ELSE b[k - Len(a)]
    BY <1>2
  <2>2. Len(a) + Len(b) = Len(t) - 1
    BY <1>1, <1>2
  <2>0. DOMAIN (a \o b) = 1..(Len(t) - 1)
    <3>1. DOMAIN (a \o b) = 1..Len(a \o b)
      BY <2>1
    <3>2. QED
      BY <2>1, <2>2, <3>1
  <2>3. ASSUME NEW k \in 1..(i - 1) PROVE (a \o b)[k] = t[k]
    <3>1. k \in 1..(Len(t) - 1) /\ k <= i - 1
      BY <1>1
    <3>2. (a \o b)[k] = a[k]
      BY <1>2, <2>1, <2>2, <3>1
    <3>3. QED
      BY <1>2, <3>2
  <2>4. ASSUME NEW k \in i..(Len(t) - 1) PROVE (a \o b)[k] = t[k + 1]
    <3>1. /\ k - (i - 1) \in 1..(Len(t) - i) /\ i + (k - (i - 1)) = k + 1
          /\ k \in 1..(Len(t) - 1) /\ ~(k <= i - 1)
      BY <1>1
    <3>2. (a \o b)[k] = b[k - (i - 1)]
      BY <1>2, <2>1, <2>2, <3>1
    <3>3. QED
      BY <1>2, <3>1, <3>2
  <2>5. QED
    BY <2>0, <2>1, <2>3, <2>4
<1>4. RemoveAt(t, i) = a \o b
  BY DEF RemoveAt, a, b
<1>5. QED
  BY <1>3, <1>4

LEMMA RemoveKeeps ==
    ASSUME NEW t \in Seq(TextLines), NEW i \in DOMAIN t
    PROVE  RemoveAt(t, i) \in Seq(TextLines) /\ ToSet(t) \ {t[i]} \subseteq ToSet(RemoveAt(t, i))
<1> DEFINE u == RemoveAt(t, i)
<1>1. DOMAIN t = 1..Len(t) /\ Len(t) \in Nat /\ i \in 1..Len(t)
  OBVIOUS
<1>2. /\ u \in Seq(TextLines) /\ DOMAIN u = 1..(Len(t) - 1)
      /\ \A k \in 1..(i - 1) : u[k] = t[k]
      /\ \A k \in i..(Len(t) - 1) : u[k] = t[k + 1]
  BY RemovePlaces
<1> HIDE DEF u
<1>3. ASSUME NEW k \in DOMAIN t, k # i PROVE \E j \in DOMAIN u : u[j] = t[k]
  <2>1. CASE k < i
    <3>1. k \in 1..(i - 1) /\ k \in 1..(Len(t) - 1)
      BY <1>1, <1>3, <2>1
    <3>2. QED
      BY <1>2, <3>1
  <2>2. CASE k > i
    <3>1. k - 1 \in i..(Len(t) - 1) /\ (k - 1) + 1 = k /\ k - 1 \in 1..(Len(t) - 1)
      BY <1>1, <1>3, <2>2
    <3>2. QED
      BY <1>2, <3>1
  <2>3. QED
    BY <1>1, <1>3, <2>1, <2>2
<1>4. ToSet(t) \ {t[i]} \subseteq ToSet(u)
  BY <1>3 DEF ToSet
<1>5. QED
  BY <1>2, <1>4 DEF u

LEMMA PinKeeps ==
    ASSUME NEW t \in Seq(TextLines), NEW i \in DOMAIN t, NEW l \in TextLines
    PROVE  /\ [t EXCEPT ![i] = l] \in Seq(TextLines)
           /\ (ToSet(t) \ {t[i]}) \cup {l} \subseteq ToSet([t EXCEPT ![i] = l])
BY DEF ToSet

\* A save keeps what the owner wrote, and is seen by the runs that are about to rename.
LEMMA SaveKeeps ==
    ASSUME PruneIInv, NEW f \in Files, OwnerSaves(f)
    PROVE  PruneIInv'
<1>1. /\ PruneTypeOK /\ OwnerLinesKept /\ text[f] \in Seq(TextLines) /\ owned[f] \subseteq Lines
      /\ archive' = archive /\ run' = run /\ faults' = faults /\ runs' = runs
      /\ saves' \in Nat
  BY DEF PruneIInv, PruneTypeOK, OwnerSaves
<1>2. /\ odd' \in [Files -> SUBSET {"interrupted", "overwrote", "window"}]
      /\ \A g \in Files : odd[g] \subseteq odd'[g]
      /\ \A r \in Runs : f \in Working(r) /\ run[r].pc = "rename" => "window" \in odd'[f]
  <2> DEFINE Odd == SUBSET {"interrupted", "overwrote", "window"}
  <2>1. odd \in [Files -> Odd] /\ odd[f] \cup {"window"} \in Odd
    BY <1>1 DEF PruneTypeOK
  <2>2. odd' = IF \E r \in Runs : f \in Working(r) /\ run[r].pc = "rename"
               THEN [odd EXCEPT ![f] = @ \cup {"window"}] ELSE odd
    BY DEF OwnerSaves
  <2> HIDE DEF Odd
  <2>3. odd' \in [Files -> Odd]
    BY <2>1, <2>2
  <2>4. QED
    BY <2>1, <2>2, <2>3 DEF Odd
<1>3. \E t \in Seq(TextLines), o \in SUBSET Lines :
         /\ text' = [text EXCEPT ![f] = t] /\ owned' = [owned EXCEPT ![f] = o]
         /\ \A l \in o : l \in owned[f] \cap ToSet(text[f]) => l \in ToSet(t)
         /\ \A l \in o \ owned[f] : l \in ToSet(t)
  <2>1. CASE \E l \in Lines \ UNION {owned[g] : g \in Files} :
                /\ text' = [text EXCEPT ![f] = Append(@, l)]
                /\ owned' = [owned EXCEPT ![f] = @ \cup {l}]
    <3>1. PICK l \in Lines : /\ text' = [text EXCEPT ![f] = Append(@, l)]
                             /\ owned' = [owned EXCEPT ![f] = @ \cup {l}]
      BY <2>1
    <3>2. l \in TextLines
      BY DEF TextLines
    <3>3. /\ Append(text[f], l) \in Seq(TextLines)
          /\ ToSet(text[f]) \cup {l} \subseteq ToSet(Append(text[f], l))
      BY <1>1, <3>2, AppendKeeps
    <3>4. /\ text' = [text EXCEPT ![f] = Append(text[f], l)]
          /\ owned' = [owned EXCEPT ![f] = owned[f] \cup {l}]
      BY <3>1
    <3>5. QED
      BY <1>1, <3>3, <3>4
  <2>2. CASE \E i \in DOMAIN text[f] :
                /\ text' = [text EXCEPT ![f] = RemoveAt(@, i)]
                /\ owned' = [owned EXCEPT ![f] = @ \ {text[f][i]}]
    <3>1. PICK i \in DOMAIN text[f] :
                /\ text' = [text EXCEPT ![f] = RemoveAt(text[f], i)]
                /\ owned' = [owned EXCEPT ![f] = owned[f] \ {text[f][i]}]
      BY <2>2
    <3>2. /\ RemoveAt(text[f], i) \in Seq(TextLines)
          /\ ToSet(text[f]) \ {text[f][i]} \subseteq ToSet(RemoveAt(text[f], i))
      BY <1>1, RemoveKeeps
    <3>3. QED
      BY <1>1, <3>1, <3>2
  <2>3. CASE \E i \in DOMAIN text[f] :
                /\ text[f][i] \in Lines /\ PinnedForm[text[f][i]] # text[f][i]
                /\ text' = [text EXCEPT ![f][i] = PinnedForm[@]]
                /\ owned' = [owned EXCEPT ![f] = (@ \ {text[f][i]}) \cup {PinnedForm[text[f][i]]}]
    <3>1. PICK i \in DOMAIN text[f] :
                /\ text[f][i] \in Lines
                /\ text' = [text EXCEPT ![f][i] = PinnedForm[@]]
                /\ owned' = [owned EXCEPT ![f] = (@ \ {text[f][i]}) \cup {PinnedForm[text[f][i]]}]
      BY <2>3
    <3> DEFINE l == PinnedForm[text[f][i]]
    <3>2. l \in Lines /\ l \in TextLines
      BY <3>1, PruneAssumption DEF TextLines
    <3> HIDE DEF l
    <3>3. /\ [text[f] EXCEPT ![i] = l] \in Seq(TextLines)
          /\ (ToSet(text[f]) \ {text[f][i]}) \cup {l} \subseteq ToSet([text[f] EXCEPT ![i] = l])
      BY <1>1, <3>2, PinKeeps
    <3>4. text' = [text EXCEPT ![f] = [text[f] EXCEPT ![i] = l]]
      BY <3>1 DEF l
    <3>5. owned' = [owned EXCEPT ![f] = (owned[f] \ {text[f][i]}) \cup {l}]
      BY <3>1 DEF l
    <3>6. QED
      BY <1>1, <3>2, <3>3, <3>4, <3>5
  <2>4. QED
    BY <2>1, <2>2, <2>3 DEF OwnerSaves
<1>4. PICK t \in Seq(TextLines), o \in SUBSET Lines :
         /\ text' = [text EXCEPT ![f] = t] /\ owned' = [owned EXCEPT ![f] = o]
         /\ \A l \in o : l \in owned[f] \cap ToSet(text[f]) => l \in ToSet(t)
         /\ \A l \in o \ owned[f] : l \in ToSet(t)
  BY <1>3
<1>5. PruneTypeOK'
  BY <1>1, <1>2, <1>4 DEF PruneTypeOK
<1>6. OwnerLinesKept'
  <2>1. ASSUME NEW g \in Files, NEW l \in owned'[g]
        PROVE  l \in ToSet(text'[g]) \/ archive[g][l] > 0 \/ "window" \in odd'[g]
    <3>1. CASE g = f
      BY <1>1, <1>2, <1>4, <2>1, <3>1 DEF OwnerLinesKept, PruneTypeOK
    <3>2. CASE g # f
      BY <1>1, <1>2, <1>4, <2>1, <3>2 DEF OwnerLinesKept, PruneTypeOK
    <3>3. QED
      BY <3>1, <3>2
  <2>2. QED
    BY <1>1, <2>1 DEF OwnerLinesKept
<1>7. ASSUME NEW r \in Runs PROVE Informed(r)'
  <2>1. Informed(r) /\ run[r].file \subseteq Files
    BY <1>1 DEF PruneIInv, PruneTypeOK, RunStates
  <2>2. \A g : Entered(r, g)' = Entered(r, g) /\ Original(r, g)' = Original(r, g)
    BY <1>1 DEF Entered, Original
  <2>3. ASSUME run[r].pc = "rename", NEW g \in run[r].file, NEW l \in owned'[g]
        PROVE  l \in ToSet(Original(r, g)) \/ Archived(g, l)' \/ "window" \in odd'[g]
    <3>1. CASE g = f
      BY <1>2, <2>3, <3>1 DEF Working
    <3>2. CASE g # f
      <4>1. g \in Files /\ owned'[g] = owned[g]
        BY <1>1, <1>4, <2>1, <3>2 DEF PruneTypeOK
      <4>2. QED
        BY <1>1, <1>2, <2>1, <2>3, <4>1 DEF Informed, Archived
    <3>3. QED
      BY <3>1, <3>2
  <2>4. QED
    BY <1>1, <2>1, <2>2, <2>3 DEF Informed, Archived
<1>8. QED
  BY <1>5, <1>6, <1>7 DEF PruneIInv

LEMMA StepPruneIInv == PruneIInv /\ [PruneNext]_vars => PruneIInv'
<1> SUFFICES ASSUME PruneIInv, [PruneNext]_vars PROVE PruneIInv'
  OBVIOUS
<1>1. ASSUME NEW r \in Runs, RunStep(r) \/ Crash(r) PROVE PruneIInv'
  <2>1. PruneTypeOK /\ Informed(r)
    BY DEF PruneIInv
  <2>2. PruneTypeOK'
    BY <1>1, <2>1, RunStepTypes
  <2>3. \A q \in Runs : Informed(q)'
    BY <1>1, RunStaysInformed, OthersStayInformed
  <2>4. OwnerLinesKept'
    BY <1>1, RunKeepsLines
  <2>5. QED
    BY <2>2, <2>3, <2>4 DEF PruneIInv
<1>2. ASSUME NEW f \in Files, OwnerSaves(f) PROVE PruneIInv'
  BY <1>2, SaveKeeps
<1>3. CASE UNCHANGED vars
  BY <1>3 DEF vars, PruneIInv, PruneTypeOK, OwnerLinesKept, Informed, Archived, Entered, Original
<1>4. QED
  BY <1>1, <1>2, <1>3 DEF PruneNext

LEMMA PruneIInvAlways == PruneSpec => []PruneIInv
BY InitPruneIInv, StepPruneIInv, PTL DEF PruneSpec

\* The variables keep their types: what a run works on is a file that is not generated, and
\* its plan is made of units of the text read (context-prune.mjs:133-161).
THEOREM PruneTypeCorrect == PruneSpec => []PruneTypeOK
<1>1. PruneIInv => PruneTypeOK
  BY DEF PruneIInv
<1>2. QED
  BY <1>1, PruneIInvAlways, PTL

\* "Never a bare delete" (context-prune.mjs:17): a line the owner wrote and did not take out
\* is in the file or in its archive, whatever runs at once, fails or dies, unless the owner
\* saved between a run's last comparison and its rename (prune-write.mjs:31-33).
THEOREM LinesAreKept == PruneSpec => []OwnerLinesKept
<1>1. PruneIInv => OwnerLinesKept
  BY DEF PruneIInv
<1>2. QED
  BY <1>1, PruneIInvAlways, PTL

-----------------------------------------------------------------------------
(* Entries that are in the archive twice.                                  *)

\* The lines that can be moved.
Live == Lines \ Pinned

LiveOnce(t) == \A i, j \in DOMAIN t : t[i] \in Live /\ t[i] = t[j] => i = j

\* The runs between their append to f's archive and the end of their work on f.
At(f) == {r \in Runs : f \in Working(r) /\ Appended(r)}

\* A line that the owner wrote and did not take out, and that is not in the file: no one can
\* write it there again.
Gone(f, l) == l \notin ToSet(text[f]) /\ l \in owned[f]

Movable(r) == run[r].pc # "idle" => \A f \in Files \ Generated : Entered(r, f) \cap Pinned = {}

\* While nothing odd happened to a file: each entry in its archive is gone from it or held by
\* a run at work on it, and each entry there twice is held by a run that will find it gone,
\* or by two runs.
Tidy(f) ==
    /\ LiveOnce(text[f]) /\ ToSet(text[f]) \cap Live \subseteq owned[f]
    /\ \A l \in Live : archive[f][l] > 0 => Gone(f, l) \/ \E r \in At(f) : l \in Entered(r, f)
    /\ \A l \in Live : archive[f][l] > 1 =>
          \/ Gone(f, l) /\ \E r \in At(f) : l \in Entered(r, f)
          \/ \E r, q \in At(f) : r # q /\ l \in Entered(r, f) \cap Entered(q, f)

CopyIInv ==
    /\ PruneIInv /\ \A r \in Runs : Movable(r)
    /\ \A f \in Files, l \in Lines \cap Pinned : archive[f][l] = 0
    /\ \A f \in Files : odd[f] = {} => Tidy(f)

LEMMA InitCopyIInv == PruneInit => CopyIInv
<1> SUFFICES ASSUME PruneInit PROVE CopyIInv
  OBVIOUS
<1>1. PruneIInv
  BY InitPruneIInv
<1>2. \A r \in Runs : Movable(r)
  BY DEF PruneInit, Movable, Idle
<1>3. \A f \in Files : text[f] \in Texts[f] /\ owned[f] = ToSet(text[f])
                       /\ archive[f] = [l \in TextLines |-> 0]
  BY DEF PruneInit
<1>4. \A l \in Lines : l \in TextLines
  BY DEF TextLines
<1>5. ASSUME NEW f \in Files PROVE Tidy(f)
  BY <1>3, <1>4, OnePlace DEF Tidy, LiveOnce, IsInjective, Live
<1>6. QED
  BY <1>1, <1>2, <1>3, <1>4, <1>5 DEF CopyIInv

\* Nothing pinned is moved (context-prune.mjs:133-161).
LEMMA PinnedStays ==
    ASSUME NEW t, NEW entry, NEW aged
    PROVE  Moved(t, UnitsIn(t, entry, aged)) \cap Pinned = {}
<1> SUFFICES ASSUME NEW i \in UnitsIn(t, entry, aged), NEW j \in Span(t, i), t[j] \in Pinned PROVE FALSE
  BY DEF Moved, MovedAt, LinesAt
<1>1. Eligible(t, entry, aged, i)
  BY DEF UnitsIn
<1>2. LinesAt(t, Span(t, i)) \cap Pinned = {}
  BY <1>1 DEF Eligible, OptedIn
<1>3. QED
  BY <1>2 DEF LinesAt

\* A replacement has no line twice that the text had not, and none that was moved.
LEMMA ReplacementHasOnce ==
    ASSUME NEW t \in Seq(TextLines), NEW units \in SUBSET (Nat \ {0}), LiveOnce(t)
    PROVE  /\ LiveOnce(Replacement(t, units))
           /\ ToSet(Replacement(t, units)) \cap Live \subseteq ToSet(t) \ Moved(t, units)
           /\ Moved(t, units) \subseteq ToSet(t)
<1> DEFINE kept == DOMAIN t \ (MovedAt(t, units) \ units)
           line == [n \in 1..Cardinality(kept) |-> CHOOSE i \in kept : Rank(kept, i) = n]
           text2 == [n \in 1..Cardinality(kept) |->
                        IF line[n] \in units THEN Pointer ELSE t[line[n]]]
<1>1. /\ Len(t) \in Nat /\ DOMAIN t = 1..Len(t) /\ kept \in SUBSET (1..Len(t))
      /\ kept \ units = DOMAIN t \ (MovedAt(t, units) \cup units)
  OBVIOUS
<1>2. Replacement(t, units) = text2 /\ DOMAIN text2 = 1..Cardinality(kept)
  BY DEF Replacement
<1>3. MovedAt(t, units) \subseteq DOMAIN t
  BY <1>1 DEF MovedAt, Span
<1> HIDE DEF kept
<1>4. \A n \in 1..Cardinality(kept) : line[n] \in kept /\ Rank(kept, line[n]) = n
  BY <1>1, RankIsOnto
<1>5. Pointer \notin Live
  BY LinesAssumption DEF Live
<1>6. ASSUME NEW n \in DOMAIN text2, text2[n] \in Live
      PROVE  /\ line[n] \in DOMAIN t \ MovedAt(t, units) /\ t[line[n]] = text2[n]
             /\ Rank(kept, line[n]) = n
  <2>1. line[n] \notin units /\ text2[n] = t[line[n]]
    BY <1>2, <1>5, <1>6
  <2>2. QED
    BY <1>1, <1>2, <1>4, <2>1
<1> HIDE DEF line, text2
<1>7. LiveOnce(text2)
  <2> SUFFICES ASSUME NEW n \in DOMAIN text2, NEW m \in DOMAIN text2, text2[n] \in Live,
                      text2[n] = text2[m]
               PROVE  n = m
    BY DEF LiveOnce
  <2>1. line[n] = line[m]
    BY <1>6 DEF LiveOnce
  <2>2. QED
    BY <1>6, <2>1
<1>8. ASSUME NEW n \in DOMAIN text2, text2[n] \in Live
      PROVE  text2[n] \in ToSet(t) \ Moved(t, units)
  <2>1. text2[n] \in ToSet(t)
    BY <1>6, <1>8 DEF ToSet
  <2>2. ASSUME NEW j \in MovedAt(t, units), t[j] = text2[n] PROVE FALSE
    BY <1>3, <1>6, <1>8, <2>2 DEF LiveOnce
  <2>3. QED
    BY <2>1, <2>2 DEF Moved, LinesAt
<1>9. Moved(t, units) \subseteq ToSet(t)
  BY <1>3 DEF Moved, LinesAt, ToSet
<1>10. QED
  BY <1>2, <1>7, <1>8, <1>9 DEF ToSet

\* A text without one of its lines has no line twice that it had not, and of the lines it had
\* once not that one.
LEMMA RemoveHasOnce ==
    ASSUME NEW t \in Seq(TextLines), NEW i \in DOMAIN t, LiveOnce(t)
    PROVE  /\ LiveOnce(RemoveAt(t, i))
           /\ ToSet(RemoveAt(t, i)) \cap Live \subseteq ToSet(t) \ {t[i]}
<1> DEFINE u == RemoveAt(t, i)
           was(k) == IF k < i THEN k ELSE k + 1
<1>1. DOMAIN t = 1..Len(t) /\ Len(t) \in Nat /\ i \in 1..Len(t)
  OBVIOUS
<1>2. /\ DOMAIN u = 1..(Len(t) - 1)
      /\ \A k \in 1..(i - 1) : u[k] = t[k]
      /\ \A k \in i..(Len(t) - 1) : u[k] = t[k + 1]
  BY RemovePlaces
<1> HIDE DEF u
<1>3. ASSUME NEW k \in DOMAIN u PROVE was(k) \in DOMAIN t /\ was(k) # i /\ u[k] = t[was(k)]
  <2>0. k \in 1..(Len(t) - 1)
    BY <1>2
  <2>1. CASE k < i
    <3>1. k \in 1..(i - 1) /\ k \in 1..Len(t) /\ k # i
      BY <1>1, <2>0, <2>1
    <3>2. QED
      BY <1>1, <1>2, <2>1, <3>1
  <2>2. CASE ~(k < i)
    <3>1. k \in i..(Len(t) - 1) /\ k + 1 \in 1..Len(t) /\ k + 1 # i
      BY <1>1, <2>0, <2>2
    <3>2. QED
      BY <1>1, <1>2, <2>2, <3>1
  <2>3. QED
    BY <2>1, <2>2
<1>4. ASSUME NEW k \in DOMAIN u, NEW m \in DOMAIN u, was(k) = was(m) PROVE k = m
  BY <1>1, <1>2, <1>4
<1> HIDE DEF was
<1>5. LiveOnce(u)
  <2> SUFFICES ASSUME NEW k \in DOMAIN u, NEW m \in DOMAIN u, u[k] \in Live, u[k] = u[m]
               PROVE  k = m
    BY DEF LiveOnce
  <2>1. was(k) = was(m)
    BY <1>3 DEF LiveOnce
  <2>2. QED
    BY <1>4, <2>1
<1>6. ASSUME NEW k \in DOMAIN u, u[k] \in Live PROVE u[k] \in ToSet(t) \ {t[i]}
  BY <1>3, <1>6 DEF LiveOnce, ToSet
<1>7. QED
  BY <1>5, <1>6 DEF u, ToSet

\* What the step of a run does to a file to which nothing odd happens.
LEMMA RunAtFile ==
    ASSUME PruneIInv, NEW r \in Runs, RunStep(r) \/ Crash(r), NEW f \in Files, odd'[f] = {}
    PROVE  /\ \/ At(f)' = At(f) /\ text'[f] = text[f] /\ archive'[f] = archive[f]
              \/ /\ f \in Working(r) /\ run[r].pc = "append" /\ At(f)' = At(f) \cup {r}
                 /\ text' = text /\ \E part \in SUBSET Entered(r, f) : archive' = Copied(f, part)
              \/ /\ f \in Working(r) /\ r \in At(f) /\ At(f)' = At(f) \ {r} /\ archive' = archive
                 /\ text[f] = Original(r, f) /\ text'[f] = Replaced(r, f)
           /\ \A q \in At(f) \cup {r} :
                 run[q].pc # "idle" => run'[q].plan = run[q].plan \/ run'[q].pc = "idle"
<1>1. /\ PruneTypeOK /\ run \in [Runs -> RunStates] /\ \A q \in Runs \ {r} : run'[q] = run[q]
      /\ \A g, h \in Working(r) : g = h
  BY RunStepGrows DEF PruneIInv, PruneTypeOK, Informed, Working
<1>2. \A q \in Runs \ {r} : q \in At(f)' <=> q \in At(f)
  BY <1>1 DEF At, Working, Appended
<1>3. CASE Plan(r) \/ NextFile(r) \/ Exit(r) \/ Verify(r)
  <2>1. /\ run[r].pc \in {"idle", "next", "verify"} /\ run'[r].pc \in {"idle", "next", "append"}
        /\ text' = text /\ archive' = archive
        /\ run[r].pc # "idle" => run'[r].plan = run[r].plan \/ run'[r].pc = "idle"
    <3>1. CASE Plan(r)
      <4>1. \E work, plan :
               run' = [run EXCEPT ![r] = [Idle EXCEPT !.pc = "next", !.todo = work, !.plan = plan]]
        BY <3>1 DEF Plan
      <4>2. run'[r].pc = "next"
        BY <1>1, <4>1 DEF Idle
      <4>3. QED
        BY <3>1, <4>2 DEF Plan
    <3>2. CASE NextFile(r)
      <4>1. PICK g \in run[r].todo, same \in BOOLEAN :
               run' = [run EXCEPT ![r].todo = @ \ {g}, ![r].file = {g}, ![r].ok = @ /\ same,
                                  ![r].pc = IF same THEN "append" ELSE "next"]
        BY <3>2 DEF NextFile, Unchanged
      <4>2. run'[r].pc \in {"append", "next"} /\ run'[r].plan = run[r].plan
        BY <1>1, <4>1 DEF RunStates
      <4>3. QED
        BY <3>2, <4>2 DEF NextFile
    <3>3. CASE Exit(r)
      BY <1>1, <3>3 DEF Exit, Idle, RunStates
    <3>4. CASE Verify(r)
      <4>1. run'[r].pc = "next" /\ run'[r].plan = run[r].plan
        BY <1>1, <3>4 DEF Verify, Step, Fail, RunStates
      <4>2. QED
        BY <3>4, <4>1 DEF Verify
    <3>5. QED
      BY <1>3, <3>1, <3>2, <3>3, <3>4
  <2>2. At(f)' = At(f)
    BY <1>2, <2>1 DEF At, Appended
  <2>3. QED
    BY <1>1, <2>1, <2>2 DEF At
<1>4. CASE AppendArchive(r)
  <2>0. PICK g \in Working(r) : \E part \in SUBSET Entered(r, g) :
           /\ archive' = Copied(g, part)
           /\ Step(r, "readback") \/ Interrupted(r, g)
    <3>1. PICK g \in Working(r) :
             \/ archive' = Copied(g, Entered(r, g)) /\ Step(r, "readback")
             \/ /\ \E part \in SUBSET Entered(r, g) : archive' = Copied(g, part)
                /\ Step(r, "readback") \/ Interrupted(r, g)
      BY <1>4 DEF AppendArchive
    <3>2. Entered(r, g) \in SUBSET Entered(r, g)
      OBVIOUS
    <3>3. QED
      BY <3>1, <3>2
  <2>1. PICK part \in SUBSET Entered(r, g) :
           /\ archive' = Copied(g, part)
           /\ Step(r, "readback") \/ Interrupted(r, g)
    BY <2>0
  <2>2. run[r].pc = "append" /\ text' = text
    BY <1>4 DEF AppendArchive
  <2>3. CASE g = f
    <3>1. Step(r, "readback")
      BY <1>1, <2>1, <2>3 DEF Interrupted, PruneTypeOK
    <3>2. run'[r].pc = "readback" /\ run'[r].file = run[r].file /\ run'[r].plan = run[r].plan
      BY <1>1, <3>1 DEF Step, RunStates
    <3>3. f \in Working(r) /\ At(f)' = At(f) \cup {r}
      BY <1>2, <2>1, <2>2, <2>3, <3>2 DEF At, Appended, Working
    <3>4. QED
      BY <1>1, <2>1, <2>2, <2>3, <3>2, <3>3 DEF At
  <2>4. CASE g # f
    <3>1. f \notin Working(r)
      BY <1>1, <2>4
    <3>2. run'[r].file = run[r].file /\ run'[r].plan = run[r].plan
      BY <1>1, <2>1 DEF Step, Interrupted, Fail, RunStates
    <3>3. At(f)' = At(f)
      BY <1>2, <3>1, <3>2 DEF At, Working
    <3>4. archive'[f] = archive[f]
      BY <1>1, <2>1, <2>4 DEF Copied, PruneTypeOK
    <3>5. QED
      BY <1>1, <2>2, <3>2, <3>3, <3>4 DEF At
  <2>5. QED
    BY <2>3, <2>4
<1>5. CASE ReadBack(r) \/ WriteTemp(r)
  <2>1. PICK g \in Working(r) : Interrupted(r, g) \/ \E pc \in {"temp", "rename"} : Step(r, pc)
    BY <1>5 DEF ReadBack, WriteTemp
  <2>2. run[r].pc \in {"readback", "temp"} /\ text' = text /\ archive' = archive
    BY <1>5 DEF ReadBack, WriteTemp
  <2>3. run'[r].file = run[r].file /\ run'[r].plan = run[r].plan
    BY <1>1, <2>1 DEF Step, Interrupted, Fail, RunStates
  <2>4. f \in Working(r) => run'[r].pc \in {"temp", "rename"}
    <3>1. f \in Working(r) => g = f
      BY <1>1
    <3>2. Interrupted(r, f) => odd'[f] # {}
      BY <1>1 DEF Interrupted, PruneTypeOK
    <3>3. \A pc \in {"temp", "rename"} : Step(r, pc) => run'[r].pc = pc
      BY <1>1 DEF Step, RunStates
    <3>4. QED
      BY <2>1, <3>1, <3>2, <3>3
  <2>5. At(f)' = At(f)
    BY <1>2, <2>2, <2>3, <2>4 DEF At, Appended, Working
  <2>6. QED
    BY <1>1, <2>2, <2>3, <2>5 DEF At
<1>6. CASE Rename(r)
  <2>1. PICK g \in Working(r) :
           /\ text' = [text EXCEPT ![g] = Replaced(r, g)]
           /\ odd' = IF Unchanged(r, g) THEN odd ELSE [odd EXCEPT ![g] = @ \cup {"overwrote"}]
    BY <1>6 DEF Rename
  <2>2. /\ run[r].pc = "rename" /\ archive' = archive
        /\ run'[r].pc = "verify" /\ run'[r].file = run[r].file /\ run'[r].plan = run[r].plan
    BY <1>1, <1>6 DEF Rename, Step, RunStates
  <2>3. CASE g = f
    <3>1. Unchanged(r, f)
      BY <1>1, <2>1, <2>3 DEF PruneTypeOK
    <3>2. text'[f] = Replaced(r, f) /\ text[f] = Original(r, f)
      BY <1>1, <2>1, <2>3, <3>1 DEF PruneTypeOK, Unchanged
    <3>3. f \in Working(r) /\ r \in At(f) /\ At(f)' = At(f) \ {r}
      BY <1>2, <2>1, <2>2, <2>3 DEF At, Appended
    <3>4. QED
      BY <1>1, <2>2, <3>2, <3>3 DEF At
  <2>4. CASE g # f
    <3>1. f \notin Working(r)
      BY <1>1, <2>4
    <3>2. At(f)' = At(f)
      BY <1>2, <2>2, <3>1 DEF At, Working
    <3>3. text'[f] = text[f]
      BY <1>1, <2>1, <2>4 DEF PruneTypeOK
    <3>4. QED
      BY <1>1, <2>2, <3>2, <3>3 DEF At
  <2>5. QED
    BY <2>3, <2>4
<1>7. CASE Crash(r)
  <2>1. run'[r] = Idle /\ text' = text /\ archive' = archive
    BY <1>1, <1>7 DEF Crash
  <2>2. r \notin At(f)
    BY <1>7 DEF Crash, At
  <2>3. At(f)' = At(f)
    BY <1>2, <2>1, <2>2 DEF At, Working, Idle
  <2>4. QED
    BY <1>1, <2>1, <2>3 DEF At, Idle
<1>8. QED
  BY <1>3, <1>4, <1>5, <1>6, <1>7 DEF RunStep

LEMMA RunKeepsMovable ==
    ASSUME PruneTypeOK, NEW r \in Runs, Movable(r), RunStep(r) \/ Crash(r)
    PROVE  Movable(r)'
<1>1. run[r] \in RunStates /\ run \in [Runs -> RunStates]
  BY DEF PruneTypeOK
<1>2. CASE Plan(r)
  <2> DEFINE plan == [f \in Files \ Generated |->
                        [original |-> text[f], units |-> Units(r, f, text[f])]]
  <2>1. run'[r].plan = plan
    <3> HIDE DEF plan
    <3>1. \E work : run' = [run EXCEPT ![r] = [Idle EXCEPT !.pc = "next", !.todo = work, !.plan = plan]]
      BY <1>2 DEF Plan, plan
    <3>2. QED
      BY <1>1, <3>1 DEF Idle
  <2>2. ASSUME NEW f \in Files \ Generated PROVE Entered(r, f)' \cap Pinned = {}
    <3>1. Entered(r, f)' = Moved(text[f], Units(r, f, text[f]))
      BY <2>1 DEF Entered, Original
    <3>2. QED
      BY <3>1, PinnedStays DEF Units
  <2>3. QED
    BY <2>2 DEF Movable
<1>3. CASE run'[r].pc = "idle"
  BY <1>3 DEF Movable
<1>4. CASE run'[r].plan = run[r].plan /\ run[r].pc # "idle"
  BY <1>4 DEF Movable, Entered, Original
<1>5. ASSUME ~Plan(r) PROVE run'[r].pc = "idle" \/ (run'[r].plan = run[r].plan /\ run[r].pc # "idle")
  <2>1. CASE NextFile(r)
    <3>1. PICK f \in run[r].todo, same \in BOOLEAN :
             run' = [run EXCEPT ![r].todo = @ \ {f}, ![r].file = {f}, ![r].ok = @ /\ same,
                                ![r].pc = IF same THEN "append" ELSE "next"]
      BY <2>1 DEF NextFile, Unchanged
    <3>2. QED
      BY <1>1, <2>1, <3>1 DEF NextFile, RunStates
  <2>2. CASE Exit(r) \/ Crash(r)
    BY <1>1, <2>2 DEF Exit, Crash, Idle
  <2>3. CASE AppendArchive(r) \/ ReadBack(r) \/ WriteTemp(r) \/ Rename(r) \/ Verify(r)
    <3>1. \/ \E pc \in {"readback", "temp", "rename", "verify", "next"} : Step(r, pc)
          \/ Fail(r)
      BY <2>3 DEF AppendArchive, ReadBack, WriteTemp, Rename, Verify, Interrupted
    <3>2. run'[r].plan = run[r].plan
      BY <1>1, <3>1 DEF Step, Fail, RunStates
    <3>3. run[r].pc # "idle"
      BY <2>3 DEF AppendArchive, ReadBack, WriteTemp, Rename, Verify
    <3>4. QED
      BY <3>2, <3>3
  <2>4. QED
    BY <1>5, <2>1, <2>2, <2>3 DEF RunStep
<1>6. QED
  BY <1>2, <1>3, <1>4, <1>5

LEMMA RunKeepsTidy ==
    ASSUME CopyIInv, NEW r \in Runs, RunStep(r) \/ Crash(r), NEW f \in Files, odd'[f] = {}
    PROVE  Tidy(f)'
<1>1. /\ PruneTypeOK /\ owned' = owned /\ PruneIInv
      /\ archive \in [Files -> [TextLines -> 0..2]] /\ \A l \in Live : l \in TextLines
  BY RunStepGrows DEF CopyIInv, PruneIInv, PruneTypeOK, Live, TextLines
<1>2. odd[f] = {} /\ Tidy(f)
  BY <1>1, RunStepGrows DEF CopyIInv
<1>3. \A q \in Runs \ {r} : run'[q] = run[q]
  BY <1>1, RunStepGrows
<1>4. ASSUME NEW q \in At(f) \cup {r}, q \in At(f)' PROVE Entered(q, f)' = Entered(q, f)
  <2>1. run'[q].plan = run[q].plan
    <3>1. CASE q # r
      BY <1>3, <1>4, <3>1 DEF At
    <3>2. CASE q = r /\ r \in At(f)
      BY <1>1, <1>4, <3>2, RunAtFile DEF At, Appended
    <3>3. CASE q = r /\ r \notin At(f)
      <4>1. f \in Working(r) /\ run[r].pc = "append"
        BY <1>1, <1>4, <3>3, RunAtFile
      <4>2. QED
        BY <1>1, <1>4, <3>3, <4>1, RunAtFile DEF At, Appended
    <3>4. QED
      BY <1>4, <3>1, <3>2, <3>3
  <2>2. QED
    BY <2>1 DEF Entered, Original
<1>5. CASE At(f)' = At(f) /\ text'[f] = text[f] /\ archive'[f] = archive[f]
  <2>1. \A q \in At(f) : Entered(q, f)' = Entered(q, f)
    BY <1>4, <1>5
  <2>2. \A l : Gone(f, l)' <=> Gone(f, l)
    BY <1>1, <1>5 DEF Gone
  <2>3. QED
    BY <1>1, <1>2, <1>5, <2>1, <2>2 DEF Tidy
<1>6. CASE /\ f \in Working(r) /\ run[r].pc = "append" /\ At(f)' = At(f) \cup {r}
           /\ text' = text /\ \E part \in SUBSET Entered(r, f) : archive' = Copied(f, part)
  <2>0. r \notin At(f)
    BY <1>6 DEF At, Appended
  <2>1. PICK part \in SUBSET Entered(r, f) : archive' = Copied(f, part)
    BY <1>6
  <2>2. \A q \in At(f) \cup {r} : Entered(q, f)' = Entered(q, f)
    BY <1>4, <1>6
  <2>3. \A l : Gone(f, l)' <=> Gone(f, l)
    BY <1>1, <1>6 DEF Gone
  <2>4. \A l \in Live : archive'[f][l] = IF l \in part THEN (IF archive[f][l] = 2 THEN 2 ELSE archive[f][l] + 1)
                                         ELSE archive[f][l]
    BY <1>1, <2>1 DEF Copied
  <2>5. \A l \in Live : archive[f][l] \in 0..2
    BY <1>1
  <2>6. ASSUME NEW l \in Live, archive'[f][l] > 0
        PROVE  Gone(f, l)' \/ \E q \in At(f)' : l \in Entered(q, f)'
    BY <1>2, <1>6, <2>2, <2>3, <2>4, <2>6 DEF Tidy
  <2>7. ASSUME NEW l \in Live, archive'[f][l] > 1
        PROVE  \/ Gone(f, l)' /\ \E q \in At(f)' : l \in Entered(q, f)'
               \/ \E q, p \in At(f)' : q # p /\ l \in Entered(q, f)' \cap Entered(p, f)'
    <3>1. CASE l \notin part
      BY <1>2, <1>6, <2>2, <2>3, <2>4, <2>7, <3>1 DEF Tidy
    <3>2. CASE l \in part
      <4>1. archive[f][l] > 0
        BY <2>4, <2>5, <2>7, <3>2
      <4>2. CASE Gone(f, l)
        BY <1>6, <2>2, <2>3, <3>2, <4>2
      <4>3. CASE \E q \in At(f) : l \in Entered(q, f)
        BY <1>6, <2>0, <2>2, <3>2, <4>3
      <4>4. QED
        BY <1>2, <4>1, <4>2, <4>3 DEF Tidy
    <3>3. QED
      BY <3>1, <3>2
  <2>8. QED
    BY <1>1, <1>2, <1>6, <2>6, <2>7 DEF Tidy
<1>7. CASE /\ f \in Working(r) /\ r \in At(f) /\ At(f)' = At(f) \ {r} /\ archive' = archive
           /\ text[f] = Original(r, f) /\ text'[f] = Replaced(r, f)
  <2>1. \A q \in At(f) \ {r} : Entered(q, f)' = Entered(q, f)
    BY <1>4, <1>7
  <2>2. /\ LiveOnce(text'[f]) /\ ToSet(text'[f]) \cap Live \subseteq ToSet(text[f]) \ Entered(r, f)
        /\ Entered(r, f) \subseteq ToSet(text[f])
    <3>1. /\ run[r].plan[f].units \in SUBSET (Nat \ {0}) /\ text[f] \in Seq(TextLines)
          /\ LiveOnce(text[f])
      BY <1>1, <1>2, <1>7 DEF PruneIInv, Informed, At, Working, Appended, Plans, PruneTypeOK, Tidy
    <3>2. QED
      BY <1>7, <3>1, ReplacementHasOnce DEF Replaced, Entered
  <2>3. \A l \in Live : Gone(f, l) => Gone(f, l)'
    BY <1>1, <2>2 DEF Gone
  <2>4. \A l \in Live \cap Entered(r, f) : Gone(f, l)' /\ ~Gone(f, l)
    BY <1>1, <1>2, <2>2 DEF Gone, Tidy
  <2>5. ASSUME NEW l \in Live, archive[f][l] > 0
        PROVE  Gone(f, l)' \/ \E q \in At(f)' : l \in Entered(q, f)'
    BY <1>2, <1>7, <2>1, <2>3, <2>4, <2>5 DEF Tidy
  <2>6. ASSUME NEW l \in Live, archive[f][l] > 1
        PROVE  \/ Gone(f, l)' /\ \E q \in At(f)' : l \in Entered(q, f)'
               \/ \E q, p \in At(f)' : q # p /\ l \in Entered(q, f)' \cap Entered(p, f)'
    <3>1. CASE Gone(f, l) /\ \E q \in At(f) : l \in Entered(q, f)
      BY <1>7, <2>1, <2>3, <2>4, <3>1
    <3>2. CASE \E q, p \in At(f) : q # p /\ l \in Entered(q, f) \cap Entered(p, f)
      <4>1. PICK q \in At(f), p \in At(f) : q # p /\ l \in Entered(q, f) \cap Entered(p, f)
        BY <3>2
      <4>2. CASE r \notin {q, p}
        BY <1>7, <2>1, <4>1, <4>2
      <4>3. CASE r \in {q, p}
        BY <1>7, <2>1, <2>4, <4>1, <4>3
      <4>4. QED
        BY <4>2, <4>3
    <3>3. QED
      BY <1>2, <2>6, <3>1, <3>2 DEF Tidy
  <2>7. QED
    BY <1>1, <1>2, <1>7, <2>2, <2>5, <2>6 DEF Tidy
<1>8. QED
  BY <1>1, <1>5, <1>6, <1>7, RunAtFile

LEMMA SaveKeepsTidy ==
    ASSUME CopyIInv, NEW g \in Files, OwnerSaves(g), NEW f \in Files, odd'[f] = {}
    PROVE  Tidy(f)'
<1>1. /\ PruneTypeOK /\ archive' = archive /\ run' = run /\ text[f] \in Seq(TextLines)
      /\ owned \in [Files -> SUBSET Lines] /\ text \in [Files -> Seq(TextLines)]
  BY DEF CopyIInv, PruneIInv, PruneTypeOK, OwnerSaves
<1>2. odd[f] = {} /\ Tidy(f)
  BY <1>1 DEF CopyIInv, OwnerSaves, PruneTypeOK
<1>3. At(f)' = At(f) /\ \A q : Entered(q, f)' = Entered(q, f)
  BY <1>1 DEF At, Working, Appended, Entered, Original
<1>4. /\ LiveOnce(text'[f]) /\ ToSet(text'[f]) \cap Live \subseteq owned'[f]
      /\ \A l \in Live : Gone(f, l) => Gone(f, l)'
  <2>1. CASE g # f
    BY <1>1, <1>2, <2>1 DEF OwnerSaves, Gone, Tidy
  <2>2. CASE g = f
    <3>1. CASE \E l \in Lines \ UNION {owned[h] : h \in Files} :
                 /\ text' = [text EXCEPT ![f] = Append(@, l)]
                 /\ owned' = [owned EXCEPT ![f] = @ \cup {l}]
      <4>1. PICK l \in Lines : /\ l \notin owned[f]
                               /\ text'[f] = Append(text[f], l) /\ owned'[f] = owned[f] \cup {l}
        BY <1>1, <3>1
      <4>2. l \in Live => l \notin ToSet(text[f])
        BY <1>2, <4>1 DEF Tidy
      <4>3. /\ DOMAIN text[f] = 1..Len(text[f]) /\ DOMAIN text'[f] = 1..(Len(text[f]) + 1)
            /\ Len(text[f]) \in Nat /\ text'[f][Len(text[f]) + 1] = l
            /\ \A i \in 1..Len(text[f]) : text'[f][i] = text[f][i]
        BY <1>1, <4>1
      <4>4. ToSet(text'[f]) \subseteq ToSet(text[f]) \cup {l}
        BY <4>3 DEF ToSet
      <4>5. LiveOnce(text'[f])
        BY <1>2, <4>2, <4>3 DEF LiveOnce, Tidy, ToSet
      <4>6. QED
        BY <1>2, <4>1, <4>4, <4>5 DEF Tidy, Gone
    <3>2. CASE \E i \in DOMAIN text[f] :
                 /\ text' = [text EXCEPT ![f] = RemoveAt(@, i)]
                 /\ owned' = [owned EXCEPT ![f] = @ \ {text[f][i]}]
      <4>1. PICK i \in DOMAIN text[f] : /\ text'[f] = RemoveAt(text[f], i)
                                        /\ owned'[f] = owned[f] \ {text[f][i]}
        BY <1>1, <3>2
      <4>2. /\ LiveOnce(text'[f])
            /\ ToSet(text'[f]) \cap Live \subseteq ToSet(text[f]) \ {text[f][i]}
        BY <1>1, <1>2, <4>1, RemoveHasOnce DEF Tidy
      <4>3. ToSet(text'[f]) \cap Live \subseteq owned'[f]
        BY <1>2, <4>1, <4>2 DEF Tidy
      <4>4. ASSUME NEW l \in Live, Gone(f, l) PROVE Gone(f, l)'
        <5>1. l # text[f][i]
          BY <4>4 DEF Gone, ToSet
        <5>2. QED
          BY <4>1, <4>2, <4>4, <5>1 DEF Gone
      <4>5. QED
        BY <4>2, <4>3, <4>4
    <3>3. CASE \E i \in DOMAIN text[f] :
                 /\ text[f][i] \in Lines /\ PinnedForm[text[f][i]] # text[f][i]
                 /\ text' = [text EXCEPT ![f][i] = PinnedForm[@]]
                 /\ owned' = [owned EXCEPT ![f] = (@ \ {text[f][i]}) \cup {PinnedForm[text[f][i]]}]
      <4>1. PICK i \in DOMAIN text[f] :
                 /\ text[f][i] \in Lines /\ PinnedForm[text[f][i]] # text[f][i]
                 /\ text' = [text EXCEPT ![f][i] = PinnedForm[@]]
                 /\ owned' = [owned EXCEPT ![f] = (@ \ {text[f][i]}) \cup {PinnedForm[text[f][i]]}]
        BY <3>3
      <4> DEFINE l == PinnedForm[text[f][i]]
      <4>2. l \notin Live
        BY <4>1, OnePlace DEF Live
      <4>3. /\ text'[f] = [text[f] EXCEPT ![i] = l] /\ owned'[f] = (owned[f] \ {text[f][i]}) \cup {l}
        BY <1>1, <4>1
      <4> HIDE DEF l
      <4>4. /\ DOMAIN text'[f] = DOMAIN text[f] /\ text'[f][i] = l
            /\ \A k \in DOMAIN text[f] \ {i} : text'[f][k] = text[f][k]
        BY <1>1, <4>3
      <4>5. LiveOnce(text'[f])
        BY <1>2, <4>2, <4>4 DEF LiveOnce, Tidy
      <4>6. ASSUME NEW m \in ToSet(text'[f]) \cap Live PROVE m \in owned'[f] /\ m \in ToSet(text[f])
        <5>1. PICK k \in DOMAIN text[f] \ {i} : text[f][k] = m
          BY <4>2, <4>4, <4>6 DEF ToSet
        <5>2. m \in owned[f] /\ m # text[f][i]
          BY <1>2, <4>6, <5>1 DEF Tidy, LiveOnce, ToSet
        <5>3. QED
          BY <4>3, <5>1, <5>2 DEF ToSet
      <4>7. ASSUME NEW m \in Live, Gone(f, m) PROVE Gone(f, m)'
        BY <4>3, <4>6, <4>7 DEF Gone, ToSet
      <4>8. QED
        BY <4>5, <4>6, <4>7
    <3>4. QED
      BY <2>2, <3>1, <3>2, <3>3 DEF OwnerSaves
  <2>3. QED
    BY <2>1, <2>2
<1>5. QED
  BY <1>1, <1>2, <1>3, <1>4 DEF Tidy

\* What a pinned line has in the archives: nothing, whatever a run does.
LEMMA RunCopiesNothingPinned ==
    ASSUME CopyIInv, NEW r \in Runs, RunStep(r) \/ Crash(r), NEW f \in Files, NEW l \in Lines \cap Pinned
    PROVE  archive'[f][l] = 0
<1>1. /\ PruneTypeOK /\ Informed(r) /\ Movable(r) /\ archive[f][l] = 0 /\ l \in TextLines
  BY DEF CopyIInv, PruneIInv, TextLines
<1>2. CASE AppendArchive(r)
  <2>1. PICK g \in Working(r) : \E part \in SUBSET Entered(r, g) : archive' = Copied(g, part)
    <3>1. PICK g \in Working(r) :
             \/ archive' = Copied(g, Entered(r, g))
             \/ \E part \in SUBSET Entered(r, g) : archive' = Copied(g, part)
      BY <1>2 DEF AppendArchive
    <3>2. Entered(r, g) \in SUBSET Entered(r, g)
      OBVIOUS
    <3>3. QED
      BY <3>1, <3>2
  <2>2. PICK part \in SUBSET Entered(r, g) : archive' = Copied(g, part)
    BY <2>1
  <2>3. g \in Files \ Generated /\ run[r].pc # "idle"
    BY <1>1, <1>2 DEF Informed, Working, AppendArchive
  <2>4. l \notin part
    BY <1>1, <2>3 DEF Movable
  <2>5. CASE g = f
    BY <1>1, <2>2, <2>4, <2>5 DEF Copied, PruneTypeOK
  <2>6. CASE g # f
    BY <1>1, <2>2, <2>6 DEF Copied, PruneTypeOK
  <2>7. QED
    BY <2>5, <2>6
<1>3. CASE ~AppendArchive(r)
  BY <1>1, <1>3 DEF RunStep, Plan, NextFile, Exit, ReadBack, WriteTemp, Rename, Verify, Crash
<1>4. QED
  BY <1>2, <1>3

LEMMA StepCopyIInv == CopyIInv /\ [PruneNext]_vars => CopyIInv'
<1> SUFFICES ASSUME CopyIInv, [PruneNext]_vars PROVE CopyIInv'
  OBVIOUS
<1>1. PruneIInv' /\ PruneTypeOK
  BY StepPruneIInv DEF CopyIInv, PruneIInv
<1>2. ASSUME NEW r \in Runs, RunStep(r) \/ Crash(r) PROVE CopyIInv'
  <2>1. ASSUME NEW q \in Runs PROVE Movable(q)'
    <3>1. CASE q = r
      BY <1>1, <1>2, <3>1, RunKeepsMovable DEF CopyIInv
    <3>2. CASE q # r
      <4>1. run'[q] = run[q]
        BY <1>1, <1>2, <3>2, RunStepGrows
      <4>2. QED
        BY <4>1 DEF CopyIInv, Movable, Entered, Original
    <3>3. QED
      BY <3>1, <3>2
  <2>2. \A f \in Files, l \in Lines \cap Pinned : archive'[f][l] = 0
    BY <1>2, RunCopiesNothingPinned
  <2>3. \A f \in Files : odd'[f] = {} => Tidy(f)'
    BY <1>2, RunKeepsTidy
  <2>4. QED
    BY <1>1, <2>1, <2>2, <2>3 DEF CopyIInv
<1>3. ASSUME NEW g \in Files, OwnerSaves(g) PROVE CopyIInv'
  <2>1. run' = run /\ archive' = archive
    BY <1>3 DEF OwnerSaves
  <2>2. \A q \in Runs : Movable(q)'
    BY <2>1 DEF CopyIInv, Movable, Entered, Original
  <2>3. \A f \in Files : odd'[f] = {} => Tidy(f)'
    BY <1>3, SaveKeepsTidy
  <2>4. QED
    BY <1>1, <2>1, <2>2, <2>3 DEF CopyIInv
<1>4. CASE UNCHANGED vars
  <2>1. \A f \in Files : Tidy(f) => Tidy(f)'
    BY <1>4 DEF vars, Tidy, At, Working, Appended, Entered, Original, Gone
  <2>2. \A q \in Runs : Movable(q) => Movable(q)'
    BY <1>4 DEF vars, Movable, Entered, Original
  <2>3. QED
    BY <1>1, <1>4, <2>1, <2>2 DEF vars, CopyIInv
<1>5. QED
  BY <1>2, <1>3, <1>4 DEF PruneNext

LEMMA CopyIInvAlways == PruneSpec => []CopyIInv
BY InitCopyIInv, StepCopyIInv, PTL DEF PruneSpec

\* An entry is in the archive twice only where an apply ended between its append and its
\* rename, a rename overwrote what it was not planned from, the owner saved in a run's last
\* window, or a run that appended is still at work on the file (prune-write.mjs:14-63): one
\* run alone, started again and again, archives every entry once.
THEOREM CopiesAreExplained == PruneSpec => []CopiesExplained
<1>1. CopyIInv => CopiesExplained
  <2> SUFFICES ASSUME CopyIInv, NEW f \in Files, NEW l \in Lines, archive[f][l] > 1, odd[f] = {}
               PROVE  \E r \in Runs : f \in Working(r) /\ Appended(r)
    BY DEF CopiesExplained
  <2>1. l \in Live
    BY DEF CopyIInv, Live
  <2>2. \E r \in At(f) : l \in Entered(r, f)
    BY <2>1 DEF CopyIInv, Tidy
  <2>3. QED
    BY <2>2 DEF At
<1>2. QED
  BY <1>1, CopyIInvAlways, PTL
=============================================================================
