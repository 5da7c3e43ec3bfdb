---------------------------- MODULE MCKernelKit ----------------------------
(***************************************************************************)
(* Small instances of KernelKit.  Version 2 changes the bytes of "mint"    *)
(* and "doctor", drops "old" and adds "new"; "doctor" is on demand.        *)
(***************************************************************************)
EXTENDS KernelKit, TLC

CONSTANTS c1, c2, w1

MCVersions == {1, 2}
MCPaths == {"mint", "old", "new", "doctor", "stray", "KIT.json"}
MCStamp == "KIT.json"

MCCore == 1 :> <<"mint", "old">> @@ 2 :> <<"mint", "new">>
MCOnDemand == [v \in MCVersions |-> <<"doctor">>]
MCBytes == [v \in MCVersions |->
               [p \in MCPaths |-> IF p = "old" THEN 1 ELSE IF p = "new" THEN 2 ELSE v]]

\* Everybody has upgraded to version 2; the kit may still be version 1's.
FleetPlugin == [c \in Clients |-> 2]
\* c2 is a version behind.
MixedPlugin == c1 :> 2 @@ c2 :> 1

\* The owner drops a note or a link where the plugin lists nothing.
StrayDisturbances == {<<"stray", w1>>, <<"stray", Link>>}
\* The owner puts a link in the place of a listed file.
LinkDisturbances == {<<"new", Link>>}
NoDisturbances == {}
=============================================================================
