------------------------- MODULE SDTSitterRefinement -------------------------
(***************************************************************************)
(* SDTScheduler implements SDTSitter.                                      *)
(***************************************************************************)
EXTENDS SDTScheduler

PhaseKind(p) ==
  CASE p = "switched-off"       -> "off"
    [] p = "ready"              -> "ready"
    [] p = "waiting"            -> "rest"
    [] p = "error"              -> "error"
    [] p = "native-worker-busy" -> "worker"
    [] p \in GateReasons \ {"native-worker-busy"} -> "blocked"
    [] p \in {"census", "draining", "extracting"} -> "working"

Backlog == dirty # {} \/ reconciliationPending
Queue   == Pending # {}

View == [enabled |-> enabled, epoch |-> epoch, busy |-> Busy, token |-> token,
         phase   |-> PhaseKind(phase),
         backlog |-> Backlog,
         queue   |-> Queue,
         nextRec |-> nextReconciliationAt]

Abstract == INSTANCE SDTSitter WITH sitter <- View

(* The sweep loop can trust the scheduler: seen through its public state,  *)
(* every step of the pump, of the switch and of the notifier is one of     *)
(* SDTSitter's, so a pump of the current epoch never returns with events   *)
(* undrained except on the worker-busy answer or an error, and a pump that *)
(* outlived a pause never touches the phase again.                         *)
SitterPromise == Abstract!Spec
=============================================================================
