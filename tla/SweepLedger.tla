---------------------------- MODULE SweepLedger ----------------------------
(* What a sweep promises of its results directory (src/bench/sweep.py):    *)
(* every planned cell is settled at most once, and no two cells whose      *)
(* model files are the same bytes are both measured.  BenchSweep, the      *)
(* program with its resumes and crashes, implements this.                  *)
CONSTANTS Cells,      \* the cells any campaign plans
          KeyOf(_)    \* the deduplication key of a cell: kind, version, bytes

VARIABLE verdict

Verdicts == {"missing", "measured", "unloadable", "duplicate", "failed"}

TypeOK == verdict \in [Cells -> Verdicts]

Init == verdict = [c \in Cells |-> "missing"]

Twins(c) == {d \in Cells : d # c /\ KeyOf(d) = KeyOf(c)}

(* A cell is measured only while no cell of the same bytes is, and waived  *)
(* as a duplicate only when one of the same bytes was really attempted.    *)
MayBe(c, v) ==
  \/ v \in {"unloadable", "failed"}
  \/ v = "measured" /\ \A d \in Twins(c) : verdict[d] # "measured"
  \/ v = "duplicate" /\ \E d \in Twins(c) : verdict[d] \in {"measured", "failed"}

Settle(c, v) ==
  /\ verdict[c] = "missing"
  /\ MayBe(c, v)
  /\ verdict' = [verdict EXCEPT ![c] = v]

Next == \E c \in Cells, v \in Verdicts \ {"missing"} : Settle(c, v)

Spec == Init /\ [][Next]_verdict
=============================================================================
