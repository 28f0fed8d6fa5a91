--------------------------- MODULE MCBenchSweep ---------------------------
(* BenchSweep for TLC: one model whose q8 and int8 files are the same      *)
(* bytes and which publishes no uint8, on two devices, with and without    *)
(* kept vectors, before and after the drivers' version is bumped.          *)
EXTENDS BenchSweep

MCBytes == {"b32", "b8"}
MCPublished ==
  [p \in {"m"} \X {"fp32", "q8", "int8", "uint8"} |->
     IF p[2] = "fp32" THEN "b32" ELSE IF p[2] = "uint8" THEN "none" ELSE "b8"]
MCReps == [kind \in {"cost", "fidelity", "recall"} |-> IF kind = "cost" THEN 2 ELSE 1]

Ask(kinds, dtypes, devices, version, persistent) ==
  [models |-> <<"m">>, kinds |-> kinds, dtypes |-> dtypes, devices |-> devices,
   corpus |-> "passages", version |-> version, persistent |-> persistent]

MCCampaigns == {
  Ask(<<"fidelity">>, <<"fp32", "q8">>, <<"cpu">>, 1, TRUE),
  Ask(<<"fidelity">>, <<"q8", "int8">>, <<"gpu">>, 1, FALSE),
  Ask(<<"fidelity">>, <<"q8">>, <<"gpu">>, 1, TRUE),
  Ask(<<"cost">>, <<"q8", "uint8">>, <<"cpu">>, 1, FALSE),
  Ask(<<"recall", "cost">>, <<"int8">>, <<"cpu">>, 2, FALSE)}
=============================================================================
