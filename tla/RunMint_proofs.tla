--------------------------- MODULE RunMint_proofs ---------------------------
(***************************************************************************)
(* For any number of calls, teams, suffixes and milliseconds: a run folder *)
(* is one call's, the others are told so, and mint implements RunClaims.   *)
(***************************************************************************)
EXTENDS RunMint, TLAPS

\* What each call knows of the run it holds, and what the runs nobody holds look like.
Held ==
    /\ \A k \in Calls :
        /\ Holds(k) => call[k].run \in runs /\ maker[call[k].run] = k
        /\ call[k].pc = "open" => results[call[k].run] = None
        /\ call[k].pc = "fill" => results[call[k].run] = Torn
        /\ call[k].exit = "ok" => call[k].pc = "done" /\ results[call[k].run] = k
        /\ call[k].exit = "crashed" => call[k].pc = "done"
    /\ \A r \in Runs : r \notin runs => maker[r] = None /\ results[r] = None

\* A call on its way down is at a folder of its path.
Cursor == \A k \in Calls : call[k].i >= 1

IInv == TypeOK /\ Cursor /\ Held /\ RunsAccountedFor

CallType == [pc : PCs, run : Runs, i : Nat, tries : 0..MaxTries, exit : Exits]

LEMMA InitIInv == Init => IInv
<1> SUFFICES ASSUME Init PROVE IInv
  OBVIOUS
<1>1. \A k \in Calls : <<Base[k], 0, None>> \in Runs
  BY CallsAssumption, BoundsAssumption DEF Runs, Ticks
<1>2. TypeOK
  BY <1>1, FoldersAssumption, BoundsAssumption DEF Init, TypeOK, Ticks, PCs, Exits
<1>3. Cursor /\ Held /\ RunsAccountedFor
  BY DEF Init, Cursor, Held, Holds, RunsAccountedFor
<1>4. QED
  BY <1>2, <1>3 DEF IInv

\* A step that only moves one call along, without a run changing hands.
LEMMA MoveStep ==
    ASSUME IInv, NEW k \in Calls, NEW c \in CallType, ~Holds(k), call[k].pc # "done",
           call' = [call EXCEPT ![k] = c],
           c.pc \notin {"open", "fill"}, c.exit # "ok", c.i >= 1,
           c.exit = "crashed" => c.pc = "done",
           tree' \in [Folders -> Kinds], clock' \in Ticks, crashes' \in 0..MaxCrashes,
           UNCHANGED <<runs, results, maker>>
    PROVE  IInv'
<1>1. TypeOK'
  BY DEF IInv, TypeOK, CallType
<1>2. /\ call'[k] = c
      /\ \A l \in Calls \ {k} : call'[l] = call[l]
  BY DEF IInv, TypeOK
<1>3. Held'
  BY <1>2 DEF IInv, Held, Holds
<1>4. \A r \in runs : maker[r] # k
  BY DEF IInv, TypeOK, RunsAccountedFor, Held, Holds
<1>5. RunsAccountedFor'
  BY <1>2, <1>4 DEF IInv, TypeOK, RunsAccountedFor
<1>6. Cursor'
  BY <1>2 DEF IInv, Cursor
<1>7. QED
  BY <1>1, <1>3, <1>5, <1>6 DEF IInv

\* The fields of a call record after an update keep their types.
LEMMA CallFields ==
    ASSUME IInv, NEW k \in Calls
    PROVE  /\ call[k] \in CallType /\ call[k].run \in Runs
           /\ call[k].i \in Nat /\ call[k].i >= 1
           /\ call[k].tries \in 0..MaxTries /\ call[k].pc \in PCs /\ call[k].exit \in Exits
BY DEF IInv, Cursor, TypeOK, CallType

LEMMA EndStep ==
    ASSUME IInv, NEW k \in Calls, ~Holds(k), call[k].pc # "done",
           NEW exit \in Exits \ {"ok"}, End(k, exit),
           crashes' \in 0..MaxCrashes,
           UNCHANGED <<clock, tree, runs, results, maker>>
    PROVE  IInv'
<1> DEFINE c == [call[k] EXCEPT !.pc = "done", !.exit = exit]
<1>1. /\ c \in CallType /\ c.pc = "done" /\ c.exit = exit /\ c.i >= 1
  BY CallFields DEF CallType, PCs
<1>2. call' = [call EXCEPT ![k] = c]
  BY DEF End, SetCall
<1>3. tree \in [Folders -> Kinds] /\ clock \in Ticks
  BY DEF IInv, TypeOK
<1> HIDE DEF c
<1>4. QED
  BY <1>1, <1>2, <1>3, MoveStep

LEMMA StartStep ==
    ASSUME IInv, NEW k \in Calls, Start(k)
    PROVE  IInv'
<1> DEFINE t == IF Wanted[k] = None THEN clock ELSE Wanted[k]
           c == [call[k] EXCEPT !.pc = "probe", !.run = <<Base[k], t, None>>]
<1>1. t \in Ticks
  BY CallsAssumption DEF IInv, TypeOK
<1>2. <<Base[k], t, None>> \in Runs
  BY <1>1, CallsAssumption DEF Runs
<1> HIDE DEF t
<1>3. /\ c \in CallType /\ c.pc = "probe" /\ c.exit = call[k].exit /\ c.i >= 1
  BY <1>2, CallFields DEF CallType, PCs
<1>4. call' = [call EXCEPT ![k] = c] /\ call[k].pc = "new"
  BY DEF Start, SetCall, t
<1>5. ~Holds(k) /\ call[k].exit # "crashed" /\ call[k].exit # "ok"
  BY <1>4 DEF IInv, Held, Holds
<1>6. /\ tree \in [Folders -> Kinds] /\ clock \in Ticks /\ crashes \in 0..MaxCrashes
  BY DEF IInv, TypeOK
<1> HIDE DEF c
<1>7. QED
  BY <1>3, <1>4, <1>5, <1>6, MoveStep DEF Start

LEMMA DescendType ==
    ASSUME IInv, NEW k \in Calls, NEW r \in Runs
    PROVE  /\ Descend(call[k], r) \in CallType
           /\ Descend(call[k], r).pc = "look" /\ Descend(call[k], r).exit = call[k].exit
           /\ Descend(call[k], r).i >= 1
<1>1. Descend(call[k], r) \in CallType
  BY CallFields DEF Descend, CallType, PCs
<1>2. /\ Descend(call[k], r).pc = "look" /\ Descend(call[k], r).exit = call[k].exit
      /\ Descend(call[k], r).i = 1
  BY CallFields DEF Descend, CallType
<1>3. QED
  BY <1>1, <1>2

\* Before it holds a run a call has no exit, unless it is done.
LEMMA NotHeld ==
    ASSUME IInv, NEW k \in Calls, call[k].pc \in {"probe", "suffix", "look", "make"}
    PROVE  ~Holds(k) /\ call[k].exit \notin {"ok", "crashed"} /\ call[k].pc # "done"
BY DEF IInv, Held, Holds

LEMMA ProbeStep ==
    ASSUME IInv, NEW k \in Calls, Probe(k)
    PROVE  IInv'
<1> DEFINE r == call[k].run
           c == [call[k] EXCEPT !.pc = "suffix"]
<1>1. call[k].pc = "probe" /\ UNCHANGED <<clock, tree, runs, results, maker, crashes>>
  BY DEF Probe
<1>2. /\ ~Holds(k) /\ call[k].exit \notin {"ok", "crashed"} /\ call[k].pc # "done"
  BY <1>1, NotHeld
<1>3. /\ tree \in [Folders -> Kinds] /\ clock \in Ticks /\ crashes \in 0..MaxCrashes
  BY DEF IInv, TypeOK
<1>4. CASE SetCall(k, Descend(call[k], r))
  BY <1>1, <1>2, <1>3, <1>4, CallFields, DescendType, MoveStep DEF SetCall
<1>5. CASE End(k, "existing-results-json") \/ End(k, "existing-run-dir")
  BY <1>1, <1>2, <1>3, <1>5, EndStep DEF Exits, Refusals
<1>6. CASE SetCall(k, c)
  <2>1. c \in CallType /\ c.pc = "suffix" /\ c.exit = call[k].exit /\ c.i >= 1
    BY CallFields DEF CallType, PCs
  <2> HIDE DEF c
  <2>2. QED
    BY <1>1, <1>2, <1>3, <1>6, <2>1, MoveStep DEF SetCall
<1>7. QED
  BY <1>4, <1>5, <1>6 DEF Probe

LEMMA TrySuffixStep ==
    ASSUME IInv, NEW k \in Calls, NEW s \in Suffixes, TrySuffix(k, s)
    PROVE  IInv'
<1> DEFINE r == <<call[k].run[1], call[k].run[2], s>>
           c == [call[k] EXCEPT !.tries = Drawn(call[k].tries)]
<1>1. call[k].pc = "suffix" /\ UNCHANGED <<clock, tree, runs, results, maker, crashes>>
  BY DEF TrySuffix
<1>2. /\ ~Holds(k) /\ call[k].exit \notin {"ok", "crashed"} /\ call[k].pc # "done"
  BY <1>1, NotHeld
<1>3. /\ tree \in [Folders -> Kinds] /\ clock \in Ticks /\ crashes \in 0..MaxCrashes
  BY DEF IInv, TypeOK
<1>4. CASE End(k, "collision-exhausted")
  BY <1>1, <1>2, <1>3, <1>4, EndStep DEF Exits, Refusals
<1>5. CASE SetCall(k, Descend(call[k], r))
  <2>1. r \in Runs
    BY CallFields DEF Runs
  <2>2. QED
    BY <1>1, <1>2, <1>3, <1>5, <2>1, DescendType, MoveStep DEF SetCall
<1>6. CASE SetCall(k, c) /\ ~Exhausted(call[k].tries)
  <2>1. Drawn(call[k].tries) \in 0..MaxTries
    BY <1>6, CallFields, BoundsAssumption DEF Drawn, Exhausted
  <2>2. c \in CallType /\ c.pc = "suffix" /\ c.exit = call[k].exit /\ c.i >= 1
    BY <1>1, <2>1, CallFields DEF CallType
  <2> HIDE DEF c
  <2>3. QED
    BY <1>1, <1>2, <1>3, <1>6, <2>2, MoveStep DEF SetCall
<1>7. QED
  BY <1>4, <1>5, <1>6 DEF TrySuffix

LEMMA LookStep ==
    ASSUME IInv, NEW k \in Calls, Look(k)
    PROVE  IInv'
<1> DEFINE f == Path(k)[call[k].i]
           deeper == [call[k] EXCEPT !.i = call[k].i + 1]
           absent == [call[k] EXCEPT !.pc = "make"]
<1>1. /\ call[k].pc = "look" /\ UNCHANGED <<clock, tree, runs, results, maker, crashes>>
  BY DEF Look
<1>2. /\ ~Holds(k) /\ call[k].exit \notin {"ok", "crashed"} /\ call[k].pc # "done"
  BY <1>1, NotHeld
<1>3. /\ tree \in [Folders -> Kinds] /\ clock \in Ticks /\ crashes \in 0..MaxCrashes
  BY DEF IInv, TypeOK
<1>4. f \in Folders
  <2>1. /\ Base[k] \in Bases /\ call[k].run[2] \in Ticks
        /\ call[k].i \in Nat
    BY CallFields, CallsAssumption DEF Runs
  <2>2. Path(k) \in Seq(Folders)
    BY <2>1, FoldersAssumption DEF Path
  <2>3. call[k].i \in 1..Len(Path(k))
    BY <2>1 DEF Look, IInv, Cursor
  <2>4. QED
    BY <2>2, <2>3
<1>5. CASE End(k, "link-in-path") \/ End(k, "not-a-folder")
  BY <1>1, <1>2, <1>3, <1>5, EndStep DEF Exits, Refusals
<1>6. CASE SetCall(k, deeper)
  <2>1. deeper \in CallType /\ deeper.pc = "look" /\ deeper.exit = call[k].exit
        /\ deeper.i >= 1
    BY <1>1, CallFields DEF CallType, PCs
  <2> HIDE DEF deeper
  <2>2. QED
    BY <1>1, <1>2, <1>3, <1>6, <2>1, MoveStep DEF SetCall
<1>7. CASE SetCall(k, absent)
  <2>1. absent \in CallType /\ absent.pc = "make" /\ absent.exit = call[k].exit
        /\ absent.i >= 1
    BY CallFields DEF CallType, PCs
  <2> HIDE DEF absent
  <2>2. QED
    BY <1>1, <1>2, <1>3, <1>7, <2>1, MoveStep DEF SetCall
<1>8. QED
  BY <1>3, <1>4, <1>5, <1>6, <1>7 DEF Look, Kinds

LEMMA MakeStep ==
    ASSUME IInv, NEW k \in Calls, Make(k)
    PROVE  IInv'
<1> DEFINE f == Path(k)[call[k].i]
           made == [call[k] EXCEPT !.pc = "look", !.i = call[k].i + 1]
<1>1. /\ call[k].pc = "make" /\ UNCHANGED <<clock, runs, results, maker, crashes>>
  BY DEF Make
<1>2. /\ ~Holds(k) /\ call[k].exit \notin {"ok", "crashed"} /\ call[k].pc # "done"
  BY <1>1, NotHeld
<1>3. /\ tree \in [Folders -> Kinds] /\ clock \in Ticks /\ crashes \in 0..MaxCrashes
  BY DEF IInv, TypeOK
<1>4. CASE End(k, "existing-run-dir") /\ UNCHANGED tree
  BY <1>1, <1>2, <1>3, <1>4, EndStep DEF Exits, Refusals
<1>5. CASE tree' = [tree EXCEPT ![f] = "dir"] /\ SetCall(k, made)
  <2>1. made \in CallType /\ made.pc = "look" /\ made.exit = call[k].exit
        /\ made.i >= 1
    <3>1. call[k].i + 1 \in Nat /\ call[k].i + 1 >= 1 /\ "look" \in PCs
      BY CallFields DEF PCs
    <3>2. made \in CallType
      BY <3>1, CallFields DEF CallType
    <3>3. made.pc = "look" /\ made.exit = call[k].exit /\ made.i = call[k].i + 1
      BY CallFields DEF CallType
    <3>4. QED
      BY <3>1, <3>2, <3>3
  <2> HIDE DEF made
  <2>2. tree' \in [Folders -> Kinds]
    BY <1>3, <1>5 DEF Kinds
  <2>3. QED
    BY <1>1, <1>2, <1>3, <1>5, <2>1, <2>2, MoveStep DEF SetCall
<1>6. QED
  BY <1>4, <1>5 DEF Make

\* The mkdir that claims the run: it was nobody's.
LEMMA MakeRunStep ==
    ASSUME IInv, NEW k \in Calls, MakeRun(k)
    PROVE  IInv'
<1> DEFINE r == call[k].run
           c == [call[k] EXCEPT !.pc = "open"]
<1>1. /\ call[k].pc = "look" /\ UNCHANGED <<clock, tree, results, crashes>>
      /\ r \in Runs
  BY CallFields DEF MakeRun
<1>2. /\ ~Holds(k) /\ call[k].exit \notin {"ok", "crashed"} /\ call[k].pc # "done"
  BY <1>1, NotHeld
<1>3. /\ tree \in [Folders -> Kinds] /\ clock \in Ticks /\ crashes \in 0..MaxCrashes
  BY DEF IInv, TypeOK
<1>4. CASE End(k, "existing-run-dir") /\ UNCHANGED <<runs, maker>>
  BY <1>1, <1>2, <1>3, <1>4, EndStep DEF Exits, Refusals
<1>5. CASE /\ r \notin runs /\ runs' = runs \cup {r}
           /\ maker' = [maker EXCEPT ![r] = k]
           /\ SetCall(k, c)
  <2>1. /\ c \in CallType /\ c.pc = "open" /\ c.run = r /\ c.exit = call[k].exit
        /\ c.i >= 1
    BY CallFields DEF CallType, PCs
  <2> HIDE DEF c
  <2>2. /\ call'[k] = c
        /\ \A l \in Calls \ {k} : call'[l] = call[l]
        /\ call' \in [Calls -> CallType]
    BY <1>5, <2>1 DEF SetCall, IInv, TypeOK, CallType
  <2>3. results[r] = None /\ maker \in [Runs -> Calls \cup {None}] /\ runs \subseteq Runs
    BY <1>1, <1>5 DEF IInv, TypeOK, Held
  <2>4. TypeOK'
    BY <1>1, <1>5, <2>2, <2>3 DEF IInv, TypeOK, CallType
  <2>5. Cursor'
    BY <2>1, <2>2 DEF IInv, Cursor
  <2>6. \A l \in Calls \ {k} : Holds(l) => call[l].run # r
    BY <1>5 DEF IInv, Held
  <2>7. Held'
    <3>1. \A x \in Runs \ {r} : maker'[x] = maker[x]
      BY <1>5, <2>3
    <3>2. maker'[r] = k
      BY <1>1, <1>5, <2>3
    <3>3. \A l \in Calls : call[l].run \in Runs
      BY CallFields
    <3>4. QED
      BY <1>1, <1>2, <1>5, <2>1, <2>2, <2>3, <2>6, <3>1, <3>2, <3>3 DEF IInv, Held, Holds
  <2>8. RunsAccountedFor'
    <3>1. \A x \in runs : maker[x] # k /\ x # r
      BY <1>2, <1>5 DEF IInv, RunsAccountedFor, Held, Holds
    <3>2. \A x \in runs : maker'[x] = maker[x] /\ maker[x] \in Calls
      BY <1>5, <2>3, <3>1 DEF IInv, RunsAccountedFor
    <3>3. maker'[r] = k /\ k # None
      BY <1>1, <1>5, <2>3, CallsAssumption
    <3>4. QED
      BY <1>1, <1>5, <2>1, <2>2, <2>3, <3>1, <3>2, <3>3 DEF IInv, RunsAccountedFor
  <2>9. QED
    BY <2>4, <2>5, <2>7, <2>8 DEF IInv
<1>6. QED
  BY <1>4, <1>5 DEF MakeRun, CanMake

\* A step of the call that holds a run: it writes results.json, ends, or dies.
LEMMA HolderStep ==
    ASSUME IInv, NEW k \in Calls, NEW c \in CallType, Holds(k), call[k].pc # "done",
           call' = [call EXCEPT ![k] = c], c.run = call[k].run, c.i >= 1,
           NEW content \in {None, Torn, k},
           results' = [results EXCEPT ![call[k].run] = content],
           \/ c.pc = "fill" /\ content = Torn /\ c.exit \notin {"ok", "crashed"}
           \/ c.pc = "done" /\ c.exit = "ok" /\ content = k
           \/ c.pc = "done" /\ c.exit = "crashed" /\ content # k,
           crashes' \in 0..MaxCrashes,
           UNCHANGED <<clock, tree, runs, maker>>
    PROVE  IInv'
<1>1. /\ call'[k] = c
      /\ \A l \in Calls \ {k} : call'[l] = call[l]
      /\ call[k].run \in runs /\ maker[call[k].run] = k /\ call[k].run \in Runs
  BY CallFields DEF IInv, TypeOK, Held
<1>2. \A l \in Calls \ {k} : Holds(l) => call[l].run # call[k].run
  BY <1>1 DEF IInv, Held
<1>3. /\ results'[call[k].run] = content
      /\ \A x \in Runs : x # call[k].run => results'[x] = results[x]
  BY <1>1 DEF IInv, TypeOK
<1>4. TypeOK'
  BY <1>1 DEF IInv, TypeOK, CallType
<1>5. Cursor'
  BY <1>1 DEF IInv, Cursor
<1>6. \A l \in Calls : call[l].run \in Runs
  BY CallFields
<1>7. Held'
  BY <1>1, <1>2, <1>3, <1>6 DEF IInv, Held, Holds
<1>8. RunsAccountedFor'
  <2> SUFFICES ASSUME NEW x \in runs
               PROVE  LET l == maker[x] IN
                      /\ l # None /\ call'[l].run = x
                      /\ \/ call'[l].exit = "ok" /\ results'[x] = l
                         \/ call'[l].pc \in {"open", "fill"} /\ results'[x] \in {None, Torn}
                         \/ call'[l].exit = "crashed" /\ results'[x] \in {None, Torn}
    BY DEF RunsAccountedFor
  <2>1. CASE x = call[k].run
    BY <1>1, <1>3, <2>1, CallsAssumption
  <2>2. CASE x # call[k].run
    BY <1>1, <1>3, <2>2 DEF IInv, TypeOK, RunsAccountedFor
  <2>3. QED
    BY <2>1, <2>2
<1>9. QED
  BY <1>4, <1>5, <1>7, <1>8 DEF IInv

LEMMA OpenStep ==
    ASSUME IInv, NEW k \in Calls, OpenResults(k)
    PROVE  IInv'
<1> DEFINE r == call[k].run
           c == [call[k] EXCEPT !.pc = "fill"]
<1>1. /\ Holds(k) /\ call[k].pc # "done" /\ results[r] = None
      /\ call[k].exit \notin {"ok", "crashed"}
  BY DEF OpenResults, Holds, IInv, Held
<1>2. /\ results' = [results EXCEPT ![r] = Torn] /\ SetCall(k, c)
      /\ UNCHANGED <<clock, tree, runs, maker, crashes>>
  BY <1>1 DEF OpenResults, CanOpen
<1>3. c \in CallType /\ c.pc = "fill" /\ c.run = r /\ c.exit = call[k].exit
      /\ c.i >= 1 /\ crashes \in 0..MaxCrashes
  BY CallFields DEF CallType, PCs, IInv, TypeOK
<1> HIDE DEF c
<1>4. QED
  BY <1>1, <1>2, <1>3, HolderStep DEF SetCall

LEMMA FillStep ==
    ASSUME IInv, NEW k \in Calls, FillResults(k)
    PROVE  IInv'
<1> DEFINE c == [call[k] EXCEPT !.pc = "done", !.exit = "ok"]
<1>1. /\ Holds(k) /\ call[k].pc # "done"
      /\ results' = [results EXCEPT ![call[k].run] = k] /\ SetCall(k, c)
      /\ UNCHANGED <<clock, tree, runs, maker, crashes>>
  BY DEF FillResults, Holds, End
<1>2. c \in CallType /\ c.pc = "done" /\ c.exit = "ok" /\ c.run = call[k].run
      /\ c.i >= 1 /\ crashes \in 0..MaxCrashes
  BY CallFields DEF CallType, PCs, Exits, IInv, TypeOK
<1> HIDE DEF c
<1>3. QED
  BY <1>1, <1>2, HolderStep DEF SetCall

LEMMA CrashStep ==
    ASSUME IInv, NEW k \in Calls, Crash(k)
    PROVE  IInv'
<1> DEFINE c == [call[k] EXCEPT !.pc = "done", !.exit = "crashed"]
<1>1. /\ call[k].pc # "done" /\ SetCall(k, c) /\ crashes' \in 0..MaxCrashes
      /\ UNCHANGED <<clock, tree, runs, results, maker>>
  BY BoundsAssumption DEF Crash, End, IInv, TypeOK
<1>2. CASE ~Holds(k)
  BY <1>1, <1>2, EndStep DEF Crash, Exits
<1>3. CASE Holds(k)
  <2>1. c \in CallType /\ c.pc = "done" /\ c.exit = "crashed" /\ c.run = call[k].run
        /\ c.i >= 1
    BY CallFields DEF CallType, PCs, Exits
  <2>2. results[call[k].run] \in {None, Torn} /\ k \notin {None, Torn}
    BY <1>1, <1>3, CallsAssumption DEF IInv, Held, Holds
  <2>3. results' = [results EXCEPT ![call[k].run] = results[call[k].run]]
    BY <1>1, CallFields DEF IInv, TypeOK
  <2> HIDE DEF c
  <2>4. QED
    BY <1>1, <1>3, <2>1, <2>2, <2>3, HolderStep DEF SetCall
<1>4. QED
  BY <1>2, <1>3

\* The clock, and a step of nobody.
LEMMA QuietStep ==
    ASSUME IInv, Tick \/ UNCHANGED vars
    PROVE  IInv'
<1>1. clock' \in Ticks /\ UNCHANGED <<tree, runs, results, call, maker, crashes>>
  BY BoundsAssumption DEF Tick, vars, IInv, TypeOK, Ticks
<1>2. TypeOK' /\ Cursor'
  BY <1>1 DEF IInv, TypeOK, Cursor
<1>3. Held' /\ RunsAccountedFor'
  BY <1>1 DEF IInv, Held, Holds, RunsAccountedFor
<1>4. QED
  BY <1>2, <1>3 DEF IInv

LEMMA StepPreserves == IInv /\ [Next]_vars => IInv'
<1> SUFFICES ASSUME IInv, [Next]_vars PROVE IInv'
  OBVIOUS
<1>1. CASE Tick \/ UNCHANGED vars
  BY <1>1, QuietStep
<1>2. ASSUME NEW k \in Calls, Start(k) \/ Step(k) \/ Crash(k) PROVE IInv'
  BY <1>2, StartStep, ProbeStep, TrySuffixStep, LookStep, MakeStep, MakeRunStep,
     OpenStep, FillStep, CrashStep DEF Step
<1>3. QED
  BY <1>1, <1>2 DEF Next

LEMMA Invariance == Spec => []IInv
  BY InitIInv, StepPreserves, PTL DEF Spec

-----------------------------------------------------------------------------

\* In every behaviour the variables keep their types (mint_run_id.py, mint).
THEOREM TypeCorrect == Spec => []TypeOK
<1>1. IInv => TypeOK
  BY DEF IInv
<1>2. QED
  BY <1>1, Invariance, PTL

\* Whatever the interleaving, two calls never write in one run folder: the exclusive mkdir
\* of the last folder decides (_contained_mkdir).
THEOREM NoSharedRun == Spec => []RunsDistinct
<1>1. IInv => RunsDistinct
  BY DEF IInv, Held, RunsDistinct
<1>2. QED
  BY <1>1, Invariance, PTL

\* Every run folder has its call's stub, or a call that is writing it, or that died.
THEOREM EveryRunAccountedFor == Spec => []RunsAccountedFor
<1>1. IInv => RunsAccountedFor
  BY DEF IInv
<1>2. QED
  BY <1>1, Invariance, PTL

\* mint implements the promise of RunClaims, with the history of who made each folder and
\* the stub in each results.json as the abstract state.
THEOREM MintImplementsClaims == Spec => ClaimsOnce
<1>1. Init => Claims!Init
  BY CallsAssumption DEF Init, Claims!Init, Stubs
<1>2. IInv /\ IInv' /\ [Next]_vars => [Claims!Next]_<<maker, Stubs>>
  <2> SUFFICES ASSUME IInv, IInv', [Next]_vars
               PROVE  Claims!Next \/ (UNCHANGED <<maker, Stubs>>)
    OBVIOUS
  <2>1. ASSUME UNCHANGED <<maker, results>>
        PROVE  UNCHANGED <<maker, Stubs>>
    BY <2>1 DEF Stubs
  <2>2. ASSUME NEW k \in Calls, MakeRun(k), maker' # maker
        PROVE  Claims!Claim(k, call[k].run)
    <3>1. call[k].run \in Runs /\ call[k].run \notin runs
      BY <2>2, CallFields DEF MakeRun, CanMake
    <3>2. maker[call[k].run] = None
      BY <3>1 DEF IInv, Held
    <3>3. UNCHANGED Stubs /\ maker' = [maker EXCEPT ![call[k].run] = k]
      BY <2>2 DEF MakeRun, Stubs
    <3>4. QED
      BY <3>2, <3>3 DEF Claims!Claim
  <2>3. ASSUME NEW k \in Calls, OpenResults(k)
        PROVE  UNCHANGED <<maker, Stubs>>
    <3>1. results[call[k].run] = None /\ call[k].run \in Runs
      BY <2>3, CallFields DEF OpenResults, IInv, Held
    <3>2. maker' = maker /\ results' = [results EXCEPT ![call[k].run] = Torn]
      BY <2>3, <3>1 DEF OpenResults, CanOpen
    <3>3. \A r \in Runs : results'[r] = results[r]
                           \/ (results[r] = None /\ results'[r] = Torn)
      BY <3>1, <3>2 DEF IInv, TypeOK
    <3>4. QED
      BY <3>2, <3>3, CallsAssumption DEF Stubs
  <2>4. ASSUME NEW k \in Calls, FillResults(k)
        PROVE  Claims!Write(call[k].run)
    <3>1. /\ call[k].run \in Runs /\ maker[call[k].run] = k
          /\ results[call[k].run] = Torn
      BY <2>4, CallFields DEF FillResults, IInv, Held, Holds
    <3>2. maker' = maker /\ results' = [results EXCEPT ![call[k].run] = k]
      BY <2>4 DEF FillResults
    <3>3. /\ results'[call[k].run] = k
          /\ \A r \in Runs : r # call[k].run => results'[r] = results[r]
      BY <3>1, <3>2 DEF IInv, TypeOK
    <3>4. Stubs' = [Stubs EXCEPT ![call[k].run] = maker[call[k].run]]
      BY <3>1, <3>3 DEF Stubs
    <3>5. k # None /\ Stubs[call[k].run] = None
      BY <3>1, CallsAssumption DEF Stubs
    <3>6. QED
      BY <3>1, <3>2, <3>4, <3>5 DEF Claims!Write
  <2>5. CASE UNCHANGED vars
    BY <2>1, <2>5 DEF vars
  <2>6. CASE Tick \/ \E k \in Calls : Start(k) \/ Crash(k)
    BY <2>1, <2>6 DEF Tick, Start, Crash
  <2>7. CASE \E k \in Calls : Probe(k) \/ Look(k) \/ Make(k)
                             \/ \E s \in Suffixes : TrySuffix(k, s)
    BY <2>1, <2>7 DEF Probe, Look, Make, TrySuffix
  <2>8. CASE \E k \in Calls : MakeRun(k)
    <3> PICK k \in Calls : MakeRun(k)
      BY <2>8
    <3>1. CASE maker' = maker
      BY <2>1, <3>1 DEF MakeRun
    <3>2. CASE maker' # maker
      BY <2>2, <3>2, CallFields DEF Claims!Next
    <3>3. QED
      BY <3>1, <3>2
  <2>9. CASE \E k \in Calls : OpenResults(k)
    BY <2>3, <2>9
  <2>10. CASE \E k \in Calls : FillResults(k)
    BY <2>4, <2>10, CallFields DEF Claims!Next
  <2>11. QED
    BY <2>5, <2>6, <2>7, <2>8, <2>9, <2>10 DEF Next, Step
<1>3. QED
  BY <1>1, <1>2, Invariance, PTL DEF Spec, ClaimsOnce, Claims!Spec
=============================================================================
