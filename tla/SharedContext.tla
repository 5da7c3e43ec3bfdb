------------------------------ MODULE SharedContext ---------------------------
(***************************************************************************)
(* A campus keeps what it knows of its owner in its folder shared/, a      *)
(* concept per file; without a campus, teams keep it in a folder of the    *)
(* folder they run in.  A concept has several names and a name several     *)
(* spellings.  resolve_context.py finds the campus and in it the file of a *)
(* concept (contract.py supplies the names); sessions of teams read and    *)
(* then write that file, while campuses are founded, and the owner and old *)
(* teams put files there too; context-weight.mjs resolves the names its    *)
(* own way; the doctor looks for doubles.                                  *)
(***************************************************************************)
EXTENDS Integers, Sequences, FiniteSets, SequencesExt, CampusTerms

CONSTANTS Rows,                          \* of the contract: the concepts in order
          Canonical, Founding, Aliases,  \* concept -> name, name or Missing, sequence of names
          CanonicalWins,                 \* the concepts whose canonical name goes first
          Sessions, MaxOutside, MaxWrites

Concepts == ToSet(Rows)
NamesOf(c) == {Canonical[c]} \cup ToSet(Aliases[c])
FileNames == UNION {NamesOf(c) : c \in Concepts}

(* A file is a name in the spelling of the contract or in other capitals.  *)
FilesOf(names) == [name : names, plain : BOOLEAN]

(* Two folders beside each other and the one above them; sessions start in *)
(* the first or above.                                                     *)
Children == {"here", "beside"}
Starts == {"here", "above"}

ASSUME ContextAssumption ==
    /\ CanonicalWins \subseteq Concepts /\ MaxOutside \in Nat /\ MaxWrites \in Nat
    /\ Rows \in Seq(Concepts) /\ Missing \notin FilesOf(FileNames) \cup Children
    /\ \A c \in Concepts : /\ Founding[c] \in NamesOf(c) \cup {Missing}
                           /\ Aliases[c] \in Seq(NamesOf(c))

Marks == {"workspace.json", "entry file"}

(* The shared/ of the children, the teams-shared/context of the starts.    *)
Dirs == Children \cup {"peer here", "peer above"}

VARIABLES caseless, \* the disk does not tell capitals apart
          marks,    \* folder -> what there is of a campus in it
          shared,   \* folder -> the context files in it
          session,  \* session -> [concept, dir, file] it resolved, or Missing
          outside, writes,
          fresh     \* history: sessions since whose resolution nothing changed
contextvars == <<caseless, marks, shared, session, outside, writes, fresh>>

ContextInit ==
    /\ caseless \in BOOLEAN
    /\ marks \in {[f \in Children |-> {}], [f \in Children |-> IF f = "here" THEN Marks ELSE {}]}
    /\ shared = [d \in Dirs |-> {}]
    /\ session = [s \in Sessions |-> Missing] /\ outside = 0 /\ writes = 0 /\ fresh = {}

-----------------------------------------------------------------------------
is_campus(folder) == folder \in Children /\ marks[folder] = Marks

child_campuses(start) == {f \in Children : start = "above" /\ is_campus(f)}

(* Mutant: the walk goes up only.                                          *)
FindUpward(start) == IF is_campus(start) THEN start ELSE Missing

(* The folder itself, else the one campus below it; nothing is a campus    *)
(* above the children.                                                     *)
find_campus(start) ==
    IF is_campus(start) THEN start
    ELSE IF Cardinality(child_campuses(start)) = 1 THEN CHOOSE f \in child_campuses(start) : TRUE
    ELSE Missing

(* Without a campus, a folder of the one the session runs in.              *)
context_dir(start) ==
    IF find_campus(start) # Missing THEN find_campus(start)
    ELSE IF start = "here" THEN "peer here" ELSE "peer above"

(* Where a session is sent: never between several campuses, but to the one *)
(* that the owner names.                                                   *)
Sent == {context_dir(start) : start \in {x \in Starts : Cardinality(child_campuses(x)) <= 1}}
        \cup {f \in Children : is_campus(f)}

FirstOf(order, names) == order[CHOOSE i \in DOMAIN order :
                                  order[i] \in names /\ \A j \in 1..(i - 1) : order[j] \notin names]

(* The concept asked for by its own name or by that of a file: a canonical *)
(* name before another concept's alias, both before other capitals.        *)
resolve_context(asked, plain) ==
    IF asked \in Concepts THEN asked
    ELSE IF ~plain THEN FirstOf(Rows, {c \in Concepts : asked \in NamesOf(c)})
    ELSE IF \E c \in Concepts : asked = Canonical[c] THEN FirstOf(Rows, {c \in Concepts : asked = Canonical[c]})
    ELSE FirstOf(Rows, {c \in Concepts : asked \in ToSet(Aliases[c])})

(* read_order of contracts/campus.json: the founding name first, unless    *)
(* the canonical name wins (that it comes again among the aliases changes  *)
(* nothing for a reader, who stops at the first).                          *)
ReadOrder(c) ==
    LET names == <<Canonical[c]>> \o Aliases[c] IN
    IF Founding[c] = Missing \/ c \in CanonicalWins THEN names ELSE <<Founding[c]>> \o names

Plain(n) == [name |-> n, plain |-> TRUE]

Spellings(d, n) == {f \in shared[d] : f.name = n}

(* The plain spelling if it is there, else the other.                      *)
Spelled(d, n) == IF Plain(n) \in shared[d] THEN Plain(n) ELSE [name |-> n, plain |-> FALSE]

Held(d, c) == {n \in NamesOf(c) : Spellings(d, n) # {}}

(* Mutant: every plain spelling is tried before any other (5.2.12).        *)
ResolveTwice(d, c) ==
    LET plain == {n \in NamesOf(c) : Plain(n) \in shared[d]} IN
    IF plain # {} THEN Spelled(d, FirstOf(ReadOrder(c), plain))
    ELSE IF Held(d, c) = {} THEN Missing ELSE Spelled(d, FirstOf(ReadOrder(c), Held(d, c)))

(* resolve: each name in either spelling before the next.                  *)
Resolve(d, c) ==
    IF Held(d, c) = {} THEN Missing ELSE Spelled(d, FirstOf(ReadOrder(c), Held(d, c)))

write_to(d, c) == IF Resolve(d, c) # Missing THEN Resolve(d, c)
                  ELSE Plain(IF Founding[c] = Missing THEN Canonical[c] ELSE Founding[c])

(* On a caseless disk a write to a name in either spelling is to the file  *)
(* that has it.                                                            *)
Written(d, f) == IF caseless /\ Spellings(d, f.name) # {} THEN shared
                 ELSE [shared EXCEPT ![d] = @ \cup {f}]

-----------------------------------------------------------------------------
Look(s) ==
    /\ session[s] = Missing /\ writes < MaxWrites
    /\ \E asked \in Concepts \cup FileNames, plain \in BOOLEAN, d \in Sent :
          LET c == resolve_context(asked, plain) IN
          session' = [session EXCEPT ![s] = [concept |-> c, dir |-> d, file |-> write_to(d, c)]]
    /\ fresh' = fresh \cup {s}
    /\ UNCHANGED <<caseless, marks, shared, outside, writes>>

Write(s) ==
    /\ session[s] # Missing /\ writes' = writes + 1
    /\ shared' = Written(session[s].dir, session[s].file)
    /\ session' = [session EXCEPT ![s] = Missing]
    /\ fresh' = IF shared' = shared THEN fresh \ {s} ELSE {}
    /\ UNCHANGED <<caseless, marks, outside>>

(* Founding makes a campus of a folder, piece by piece; the owner and      *)
(* teams that follow no rule add, remove and respell files.                *)
Outside ==
    /\ outside < MaxOutside /\ outside' = outside + 1
    /\ \/ /\ \/ \E f \in FilesOf(FileNames) : shared' = Written("here", f)
             \/ \E d \in Dirs : \E f \in shared[d] : shared' = [shared EXCEPT ![d] = @ \ {f}]
             \/ \E f \in shared["here"] :
                   shared' = [shared EXCEPT !["here"] = (@ \ {f}) \cup {[f EXCEPT !.plain = ~@]}]
          /\ UNCHANGED marks
       \/ /\ \E f \in Children, m \in Marks :
                m \notin marks[f] /\ marks' = [marks EXCEPT ![f] = @ \cup {m}]
          /\ UNCHANGED shared
    /\ fresh' = {}
    /\ UNCHANGED <<caseless, session, writes>>

ContextNext == (\E s \in Sessions : Look(s) \/ Write(s)) \/ Outside

ContextSpec == ContextInit /\ [][ContextNext]_contextvars

-----------------------------------------------------------------------------
(* Mutant: the file itself and no other name of it is looked for.          *)
WeighedAsNamed(d, n) == IF Spellings(d, n) = {} THEN Missing ELSE Spelled(d, n)

(* context-weight.mjs: the first row that has the name the entry file      *)
(* gives, canonical name first; the disk's own idea of a file first, other *)
(* capitals only when no name has one.                                     *)
RowOf(n) == FirstOf(Rows, {c \in Concepts : n \in NamesOf(c)})
Weighed(d, n) ==
    LET c == RowOf(n)
        order == <<Canonical[c]>> \o Aliases[c]
        exist == IF caseless THEN Held(d, c) ELSE {m \in NamesOf(c) : Plain(m) \in shared[d]} IN
    IF exist # {} THEN Spelled(d, FirstOf(order, exist))
    ELSE IF Held(d, c) = {} THEN Missing ELSE Spelled(d, FirstOf(order, Held(d, c)))

(* doctor_evidence.py context_files: a founding name beside the canonical. *)
Doubled(c) == Founding[c] \notin {Missing, Canonical[c]} /\ c \notin CanonicalWins
              /\ {Founding[c], Canonical[c]} \subseteq Held("here", c)

(* What founding wrote is read until someone takes it away, whatever other *)
(* names of the concept turn up beside it and in whatever capitals: the    *)
(* priority of names comes before their spelling.                          *)
PriorityBeforeSpelling ==
    \A d \in Dirs, c \in Concepts :
        LET hit == Resolve(d, c) order == ReadOrder(c) held == Held(d, c) IN
        held # {} =>
            /\ hit \in shared[d]
            /\ \A i \in DOMAIN order : order[i] \in held => \E j \in 1..i : order[j] = hit.name

(* While there is one campus, a session that starts in it or above it      *)
(* writes a second file for a concept the campus holds only if something   *)
(* changed between its look and its write: two sessions, or founding       *)
(* beside one.  (With a second campus below, a session above it has to     *)
(* name one; before the first is whole, it writes beside its own folder,   *)
(* and nobody looks there again.)                                          *)
NoSecondName ==
    [][\A s \in Sessions : LET c == session[s].concept IN
          /\ session[s] # Missing /\ session'[s] = Missing /\ s \in fresh
          /\ {f \in Children : is_campus(f)} = {"here"} /\ Held("here", c) # {}
          => shared' = shared]_contextvars

(* The weight tool measures the file that sessions read, for every name an *)
(* entry file may use, while the concept has one name on the campus.  With *)
(* several it may not: it prefers the canonical name to the founding one,  *)
(* and on a disk that tells capitals apart any plain spelling to any       *)
(* other (context-weight.mjs:115-121), where context-files.md:79-88 has    *)
(* the founding name first and each name in any spelling.                  *)
WeighedIsRead ==
    \A c \in Concepts :
        Cardinality(Held("here", c)) = 1 \/ (c \in CanonicalWins /\ caseless) =>
            \A n \in {m \in NamesOf(c) : RowOf(m) = c} : Weighed("here", n) = Resolve("here", c)
=============================================================================
