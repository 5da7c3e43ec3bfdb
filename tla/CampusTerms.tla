----------------------------- MODULE CampusTerms -----------------------------
(* Terms that the modules about the campus's files share.                  *)
CONSTANTS Missing,  \* no file, entry or value
          Torn      \* a file that does not parse

(* The statuses of a registry entry that take it off the roster.           *)
Stood == {"retired", "legacy", "disabled"}
=============================================================================
