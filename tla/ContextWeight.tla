---------------------------- MODULE ContextWeight ----------------------------
(***************************************************************************)
(* The startup set of context-weight.mjs: the entry files are visited      *)
(* depth first from the folder above the campus and from its root, each    *)
(* naming others to read; then the reads that their startup sections (or   *)
(* workspace.json) list are resolved one by one.  The result is what a     *)
(* session pays for before its first question.  An entry or a file is a    *)
(* resolved one: aliases of names are SharedContext's subject.             *)
(***************************************************************************)
EXTENDS Integers, Sequences, FiniteSets, SequencesExt, CampusTerms

CONSTANTS parentEntry, rootEntry, deanEntry,  \* entry files in ../, ./ and dean/
          Docs,     \* the other files a startup section may name
          Gone,     \* a name with no file behind it
          Texts,    \* what an entry file may say, see EntryTexts
          Declared  \* values of workspace.json's startup_reads, sequences of Docs or Missing

EntryFiles == {parentEntry, rootEntry, deanEntry}

(* refs: the entry files it tells to read, in order; items: the reads of   *)
(* its startup section, with the marking of each.                          *)
EntryTexts ==
    [heading : BOOLEAN, refs : Seq(EntryFiles \cup {Gone}),
     items : Seq([ref : Docs \cup EntryFiles, kind : {"must", "optional", "if present"}])]

ASSUME WeightAssumption ==
    /\ Missing \notin EntryFiles /\ \A t \in Texts : t \in EntryTexts
    /\ \A reads \in Declared : reads = Missing \/ reads \in Seq(Docs \cup EntryFiles)

VARIABLES entry,    \* entry file -> its text, or Missing
          docs,     \* the documents that exist
          startup_reads, \* declared reads, or Missing
          step,     \* "parent", "root", "fallback", "reads", "done"
          chain,    \* frames of the entries under visit: [file, refs]
          visited,  \* entries visited, in order
          counted, onDemand,
          chief, findings, unread  \* the reads still to resolve
weightvars == <<entry, docs, startup_reads, step, chain, visited, counted, onDemand, chief, findings, unread>>

WeightInit ==
    /\ entry \in [EntryFiles -> Texts \cup {Missing}]
    /\ docs \in SUBSET Docs /\ startup_reads \in Declared
    /\ step = "parent" /\ chain = <<>> /\ visited = <<>> /\ counted = {} /\ onDemand = {}
    /\ chief = Missing /\ findings = {} /\ unread = <<>>

-----------------------------------------------------------------------------
Present(f) == IF f \in EntryFiles THEN entry[f] # Missing ELSE f \in docs

active == {chain[i].file : i \in DOMAIN chain}
blocking == findings \ {"ENTRY_CYCLE"} # {}

(* visit: a new entry is counted, and one with a startup section is the    *)
(* chief of staff until a later one is.                                    *)
Visit(f, below) ==
    /\ chain' = Append(below, [file |-> f, refs |-> entry[f].refs])
    /\ visited' = Append(visited, f)
    /\ counted' = counted \cup {f}
    /\ chief' = IF entry[f].heading THEN f ELSE chief

Known(f) == f \in ToSet(visited)

Past(frame) == [file |-> frame.file, refs |-> Tail(frame.refs)]

(* The references of the entry on top of the chain, one at a time.         *)
Follow ==
    /\ chain # <<>> /\ Last(chain).refs # <<>>
    /\ LET r == Head(Last(chain).refs)
           rest == [chain EXCEPT ![Len(chain)] = Past(@)] IN
       \/ /\ r = Gone \/ ~Present(r)
          /\ findings' = findings \cup {"ENTRY_MISSING"} /\ chain' = rest
          /\ UNCHANGED <<visited, counted, chief>>
       \/ /\ r # Gone /\ Present(r) /\ Known(r)
          /\ findings' = IF r \in active THEN findings \cup {"ENTRY_CYCLE"} ELSE findings
          /\ chain' = rest
          /\ UNCHANGED <<visited, counted, chief>>
       \/ /\ r # Gone /\ Present(r) /\ ~Known(r)
          /\ Visit(r, rest) /\ UNCHANGED findings
    /\ UNCHANGED <<entry, docs, startup_reads, step, onDemand, unread>>

Return ==
    /\ chain # <<>> /\ Last(chain).refs = <<>>
    /\ chain' = Front(chain)
    /\ UNCHANGED <<entry, docs, startup_reads, step, visited, counted, onDemand, chief, findings, unread>>

(* dean/ is looked into only when the chain ended without a startup section *)
(* and without a broken reference.                                         *)
FallsBack == chief = Missing /\ ~blocking

Enter(from, f, to, wanted) ==
    /\ step = from /\ chain = <<>> /\ step' = to
    /\ IF wanted /\ Present(f) /\ ~Known(f) THEN Visit(f, chain) ELSE UNCHANGED <<chain, visited, counted, chief>>
    /\ UNCHANGED <<entry, docs, startup_reads, onDemand, findings, unread>>

EnterParent == Enter("parent", parentEntry, "root", TRUE)
EnterRoot == Enter("root", rootEntry, "fallback", TRUE)
EnterDean == Enter("fallback", deanEntry, "list", FallsBack)

-----------------------------------------------------------------------------
(* The reads: those declared, or else all items in order of visit.         *)
Must(ref) == [ref |-> ref, kind |-> "must"]

ListReads ==
    /\ step = "list" /\ chain = <<>> /\ step' = "reads"
    /\ unread' = IF startup_reads # Missing THEN [i \in DOMAIN startup_reads |-> Must(startup_reads[i])]
                 ELSE FlattenSeq([i \in DOMAIN visited |-> entry[visited[i]].items])
    /\ findings' = findings \cup (IF startup_reads = Missing /\ chief = Missing THEN {"STARTUP_UNRESOLVED"} ELSE {})
                            \cup (IF visited = <<>> THEN {"NO_ENTRY"} ELSE {})
    /\ UNCHANGED <<entry, docs, startup_reads, chain, visited, counted, onDemand, chief>>

(* Mutant: a file seen before stays where it is.                           *)
AddedOnce(ref, optional) ==
    IF ref \in counted \cup onDemand THEN UNCHANGED <<counted, onDemand>>
    ELSE IF optional THEN onDemand' = onDemand \cup {ref} /\ UNCHANGED counted
    ELSE counted' = counted \cup {ref} /\ UNCHANGED onDemand

(* add: a file seen before is not added again, but an optional read that   *)
(* turns out to be a must is counted after all.                            *)
Added(ref, optional) ==
    IF optional THEN /\ onDemand' = IF ref \in counted THEN onDemand ELSE onDemand \cup {ref}
                     /\ UNCHANGED counted
    ELSE counted' = counted \cup {ref} /\ onDemand' = onDemand \ {ref}

readRef ==
    /\ step = "reads" /\ unread # <<>> /\ unread' = Tail(unread)
    /\ LET item == Head(unread) IN
       \/ /\ Present(item.ref) /\ Added(item.ref, item.kind = "optional")
          /\ UNCHANGED findings
       \/ /\ ~Present(item.ref)
          /\ findings' = IF item.kind = "must" THEN findings \cup {"STARTUP_READ_MISSING"} ELSE findings
          /\ UNCHANGED <<counted, onDemand>>
    /\ UNCHANGED <<entry, docs, startup_reads, step, chain, visited, chief>>

Weigh ==
    /\ step = "reads" /\ unread = <<>> /\ step' = "done"
    /\ UNCHANGED <<entry, docs, startup_reads, chain, visited, counted, onDemand, chief, findings, unread>>

WeightNext == Follow \/ Return \/ EnterParent \/ EnterRoot \/ EnterDean \/ ListReads \/ readRef \/ Weigh

WeightSpec == WeightInit /\ [][WeightNext]_weightvars

-----------------------------------------------------------------------------
(* What a session that follows the entry files reads: the entries that are *)
(* reachable from those a host opens, and their mandatory reads.           *)
Reachable(start) ==
    LET more(S) == S \cup UNION {ToSet(entry[f].refs) \ {Gone} : f \in S}
        there(S) == {f \in S : Present(f)} IN
    there(more(there(more(there(start)))))

(* A measurement that is not UNKNOWN counts exactly what a session reads:  *)
(* every entry on the chain once, loops or not, every mandatory read, also *)
(* one that an earlier item calls optional, every "if present" read that   *)
(* there is, and nothing else.                                             *)
CompleteIsWhatIsRead ==
    step = "done" /\ ~blocking =>
        LET top == Reachable({parentEntry, rootEntry})
            read == IF \E f \in top : entry[f].heading THEN top ELSE Reachable(EntryFiles)
            items == UNION {ToSet(entry[f].items) : f \in read}
            wanted == IF startup_reads # Missing THEN ToSet(startup_reads)
                      ELSE {i.ref : i \in {j \in items : \/ j.kind = "must"
                                                         \/ j.kind = "if present" /\ Present(j.ref)}} IN
        /\ ToSet(visited) = read /\ Cardinality(read) = Len(visited)
        /\ counted = read \cup wanted
        /\ counted \cap onDemand = {}
        /\ \A f \in read : ToSet(entry[f].refs) \subseteq read
=============================================================================
