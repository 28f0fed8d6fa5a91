----------------------------- MODULE MCRedState -----------------------------
(* RedState for TLC: the control build, a build arm of two patches, an arm *)
(* that rewrites replies and one declared not to run.                      *)
EXTENDS RedState

MCArms ==
  [a \in {"control-build", "global-shuffle", "global-shuffle-sim", "semantic-off"} |->
    [kind |-> IF a = "global-shuffle-sim" THEN "reply" ELSE "build",
     control |-> a = "control-build",
     runnable |-> a # "semantic-off",
     patches |-> IF a = "global-shuffle" THEN <<"pool", "shuffle">> ELSE <<>>]]
=============================================================================
