--------------------------- MODULE MCContextPrune ---------------------------
(* Two startup files, one of them the chief of staff's entry file, and two *)
(* prune runs with different --days.                                       *)
EXTENDS ContextPrune

CONSTANTS memory, entry, r1, r2, h1, hOld, hPrefs, old, cont, older, pinned, out, pref, ptr

MCLines == {h1, hOld, hPrefs, old, cont, older, pinned, out, pref}

MCLevel == [l \in MCLines \cup {ptr} |-> IF l \in {h1, hOld, hPrefs} THEN 2 ELSE 0]

MCItems == {old, older, pinned, out, pref}

MCCutoff == r1 :> {hOld, old, older, out, pref} @@ r2 :> {older, out}

MCTexts == memory :> {<<h1, old, cont, older>>, <<hOld, older, h1>>} @@ entry :> {<<h1, out, hPrefs, pref>>}

MCPinnedForm == [l \in MCLines |-> IF l = old THEN pinned ELSE l]

MCMaxRuns == r1 :> -1 @@ r2 :> 1
=============================================================================
