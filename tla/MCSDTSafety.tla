----------------------------- MODULE MCSDTSafety -----------------------------
(* The scheduler and, apart from it, what inspect() remembers, for TLC.    *)
(* SDTScheduler takes an inspection for one read: the two share no state,  *)
(* and each run is of one of them.                                         *)
EXTENDS MCSDTScheduler, SDTPackCache

VARIABLE part

SchedulerRest == \A d \in Docs : lib[d].status = "absent"
(* Contents differ by name only, and so do versions. *)
ByName == /\ metadata = CHOOSE v \in Versions : TRUE
          /\ \A k \in Keys : sources[k].is = CHOOSE c \in Contents : TRUE
CacheRest == \A k \in Keys : packs[k] = NoPack
SafetyInit ==
  /\ part \in {"scheduler", "cache"}
  /\ CacheInit /\ ByName /\ (part # "cache" => CacheRest)
  /\ Init /\ (part # "scheduler" => SchedulerRest)
SafetyNext ==
  /\ UNCHANGED part
  /\ \/ part = "scheduler" /\ Next /\ UNCHANGED cacheVars
     \/ part = "cache" /\ CacheNext /\ UNCHANGED vars
SafetySpec == SafetyInit /\ [][SafetyNext]_<<part, vars, cacheVars>>
=============================================================================
