---------------------------- MODULE SDTStatuses ----------------------------
(***************************************************************************)
(* The status vocabulary of the census (SDT_STATUS_CLASSES) and what one   *)
(* inspection of an attachment answers.                                    *)
(***************************************************************************)
EXTENDS Naturals

(* The five classes every attachment falls into, in the code's words.      *)
Indexed    == {"current"}
Unindexed  == {"empty-pack"}
Failed     == {"failed-session", "inspection-error", "unsupported-pack", "missing-source"}
Queued     == {"missing-pack", "stale-source", "stale-processor", "invalid-pack"}
OutOfScope == {"excluded", "unsupported"}

Statuses == Indexed \cup Unindexed \cup Failed \cup Queued \cup OutOfScope

(* The statuses inspect() can answer: only the scheduler's classify()      *)
(* writes "failed-session".                                                *)
InspectStatuses == Statuses \ {"failed-session"}

(* inspect() reaches the source hash, and so answers an identity, for      *)
(* these; an excluded item, an unreadable or an absent source has none.    *)
Identified == Indexed \cup Unindexed \cup Queued \cup {"unsupported-pack"}

(* What ensure() must leave behind for the settlement to count it a        *)
(* success.                                                                *)
Verified == {"current", "empty-pack"}
=============================================================================
