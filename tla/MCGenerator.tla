---------------------------- MODULE MCGenerator ----------------------------
(* The generator's parts for TLC: its scope, its sample and its run. *)
EXTENDS ScopeProxy, GeneratorSample, GeneratorRun, TLC

(* ScopeProxy: three records, the first with two children. *)
MCParent == "A" :> "A" @@ "B" :> "B" @@ "c" :> "A" @@ "d" :> "A" @@ "E" :> "E"

(* GeneratorSample: two types by two formats, most texts of one length, so *)
(* that the quota puts pairs aside and lets them in again.                 *)
LOCAL PDF == "application/pdf"
LOCAL File(record, type, content, bucket, detected) ==
  [record |-> record, type |-> type, content |-> content, bucket |-> bucket, detected |-> detected,
   declared |-> "empty", file |-> TRUE, version |-> 1, topLevel |-> TRUE, paragraph |-> TRUE,
   fields |-> {"title", "DOI", "container"}, creators |-> {"author"}, paged |-> content = PDF,
   linked |-> record = "r2", local |-> IF record = "r1" THEN "named" ELSE "another", labels |-> TRUE]
MCAttachments ==
  "a1" :> File("r1", "book", PDF, "short", "en") @@ "a2" :> File("r2", "book", PDF, "short", "fr") @@
  "a3" :> File("r3", "book", "text/html", "short", "und") @@ "a4" :> File("r4", "report", PDF, "short", "en") @@
  "a5" :> [File("r5", "bookSection", PDF, "long", "und") EXCEPT !.declared = "fr", !.creators = {"translator"}] @@
  "a6" :> [File("r6", "report", "text/csv", "long", "en") EXCEPT !.paragraph = FALSE] @@
  "a7" :> [File("r6", "report", PDF, "long", "en") EXCEPT !.version = 0] @@
  "a8" :> [File("r7", "report", PDF, "long", "en") EXCEPT !.topLevel = FALSE] @@
  "a9" :> File("r1", "book", PDF, "medium", "en")
MCFrames == {{"r1", "r2", "r3", "r4", "r5", "r6", "r7"}, {"r1", "r2", "r4", "r6"}}
MCCensus == [types |-> "book" :> 5 @@ "report" :> 3 @@ "bookSection" :> 1 @@ "map" :> 1,
             withText |-> PDF :> 7 @@ "text/html" :> 2 @@ "text/csv" :> 1]

(* GeneratorRun: a default embedder and one that differs in all. *)
MCEmbedders == {[model |-> "m1", dtype |-> "fp32", pooling |-> "mean", auto |-> TRUE],
                [model |-> "m2", dtype |-> "q8", pooling |-> "cls", auto |-> FALSE]}
MCRegistry == {[id |-> "one", repo |-> "m1", upstream |-> "m1", pooling |-> "cls"]}
MCRows == <<[compound |-> TRUE]>>
LOCAL Hit(is, chain) == [is |-> is, chain |-> chain]
MCHits == {<<>>, <<Hit("noise", {}), Hit("row", CompoundWin)>>, <<Hit("work", {}), Hit("noise", {})>>}
=============================================================================
