------------------------------ MODULE SDTSitter ------------------------------
(***************************************************************************)
(* What createSDTSitter() promises to the sweep loop: one pump at a time,  *)
(* under the epoch it started in; a pump that is not the current one       *)
(* leaves the phase alone; a current pump returns only at rest.            *)
(***************************************************************************)
EXTENDS SDTSitterStates

VARIABLE sitter

Init == sitter = NewSitter

Stop   == sitter.enabled /\ sitter' \in {Stopped(sitter), SwitchedOff(sitter)}
Start  == ~sitter.enabled /\ sitter' = Started(sitter)
Notify == sitter' = Notified(sitter)
Hour   == sitter' = HourPassed(sitter)
Begin  == CanPump(sitter) /\ sitter' = PumpStarted(sitter)
Work   == sitter.busy /\ sitter' \in Worked(sitter)
Return == sitter.busy /\ sitter' \in PumpReturned(sitter)

Next == Stop \/ Start \/ Notify \/ Hour \/ Begin \/ Work \/ Return

Spec == Init /\ [][Next]_sitter
=============================================================================
