----------------------------- MODULE MCRunMint -----------------------------
(***************************************************************************)
(* Small instances of RunMint: calls of one team and of another team on    *)
(* the same subject, in a campus whose month folder may not exist yet.     *)
(***************************************************************************)
EXTENDS RunMint, TLC

CONSTANTS k1, k2, k3

MCBases == {"a/topic", "b/topic"}
MCFolders == {"jan", "jan/a", "jan/b", "feb", "feb/a", "feb/b"}
\* The month turns between millisecond 0 and 1.
MCAbove ==
    [b \in MCBases |->
        [t \in 0..MaxClock |->
            CASE b = "a/topic" /\ t = 0 -> <<"jan", "jan/a">>
              [] b = "b/topic" /\ t = 0 -> <<"jan", "jan/b">>
              [] b = "a/topic" /\ t # 0 -> <<"feb", "feb/a">>
              [] b = "b/topic" /\ t # 0 -> <<"feb", "feb/b">>]]
MCSlug == [b \in MCBases |-> "topic"]

OneTeam == [k \in Calls |-> "a/topic"]
TwoTeams == k1 :> "a/topic" @@ k2 :> "b/topic"

\* k3 is a deterministic caller that names its run.
ThirdWanted == k3 :> 0 @@ k1 :> None @@ k2 :> None
NoneWanted == [k \in Calls |-> None]

Kind(odd) == [f \in MCFolders |-> IF f \in DOMAIN odd THEN odd[f] ELSE "none"]
MCFounded ==
    {Kind(<<>>), Kind("jan" :> "dir"), Kind("jan" :> "dir" @@ "jan/a" :> "dir"),
     Kind("feb" :> "link"), Kind("jan" :> "dir" @@ "jan/a" :> "file")}
FullFounded == {[f \in MCFolders |-> "dir"]}
BareFounded == {Kind(<<>>)}
=============================================================================
