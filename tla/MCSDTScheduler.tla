--------------------------- MODULE MCSDTScheduler ---------------------------
(* SDTScheduler for TLC: two attachments, one of them under a record.      *)
EXTENDS SDTScheduler, TLC

CONSTANTS d1, d2, r1

MCDocs == {d1, d2}
MCOneDoc == {d1}
MCRecs == {r1}
MCParentOf == [d \in Docs |-> IF d = d1 /\ r1 \in Recs THEN r1 ELSE NoId]

(* The directories differ by name only, so a library of one attachment may *)
(* start in any of them.                                                   *)
MCInit == Init /\ (\A x \in Ids : lib[x].dir = CHOOSE s \in Dirs : TRUE)
MCSpec == MCInit /\ [][Next]_vars

(* Under fairness the pauses and the upsets of one behaviour are bounded   *)
(* together: two upsets, or one and one pause.  What the bound cuts is not *)
(* among what Fairness promises: an outside change, a pause, and of an     *)
(* inspection only that it throws.                                         *)
MaxDisturbances == 2
MCFairSpec == /\ MCInit
              /\ [][Next /\ epoch' + upsets' <= MaxDisturbances]_vars
              /\ Fairness
=============================================================================
