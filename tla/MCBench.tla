------------------------------- MODULE MCBench -------------------------------
(* The parts of bench/ for TLC.  They share no state: each run is of one   *)
(* of them, and the others stay where they begin.                          *)
EXTENDS MCBenchSweep, SitterRungs, RdpClient, MCGoldenFixture, MCRedState, GoldenScore, FetchRecipe,
        StallProbe, SitterInstall

VARIABLE part

Benches == {"sweep", "rungs", "rdp", "fixture", "redstate", "score", "fetch",
            "stall", "clone", "arm"}

SweepRest == asked = CHOOSE c \in Campaigns : TRUE
RungsRest == /\ rung = "smoke" /\ defect = None /\ host.gate = "open"
             /\ host.odd = {} /\ disk.packs = {}
FixtureRest == /\ library.kind = "user" /\ library.declared = {} /\ library.readable = {}
               /\ library.stored = [d \in Ids |-> "none"]
(* The second document has text to find, and only the first may be one of  *)
(* the recipe's failure controls.                                          *)
FixtureSeen == library.declared \subseteq {"x"} /\ "y" \in library.readable
RedRest == fork.dist = NotBuilt
CloneRest == zotero.listed /\ zotero.lock = "none"
ArmRest == profile.fault = "none"

MCInit ==
  /\ part \in Benches
  /\ Init /\ (part # "sweep" => SweepRest)
  /\ RungsInit /\ (part # "rungs" => RungsRest)
  /\ RdpInit
  /\ FixtureInit /\ (IF part = "fixture" THEN FixtureSeen ELSE FixtureRest)
  /\ RedInit /\ (part # "redstate" => RedRest)
  /\ ScoreInit
  /\ FetchInit
  /\ StallInit
  /\ CloneInit /\ (part # "clone" => CloneRest)
  /\ ArmInit /\ (part # "arm" => ArmRest)

(* What a step of a part leaves alone. *)
BenchVars == <<vars, rungVars, session, fixtureVars, redVars, scoreVars, fetchVars>>
HostVars == <<stallVars, cloneVars, armVars>>

MCNext ==
  /\ UNCHANGED part
  /\ \/ /\ part = "sweep" /\ Next
        /\ UNCHANGED <<rungVars, session, fixtureVars, redVars, scoreVars, fetchVars, HostVars>>
     \/ /\ part = "rungs" /\ RungsNext
        /\ UNCHANGED <<vars, session, fixtureVars, redVars, scoreVars, fetchVars, HostVars>>
     \/ /\ part = "rdp" /\ RdpNext
        /\ UNCHANGED <<vars, rungVars, fixtureVars, redVars, scoreVars, fetchVars, HostVars>>
     \/ /\ part = "fixture" /\ FixtureNext
        /\ UNCHANGED <<vars, rungVars, session, redVars, scoreVars, fetchVars, HostVars>>
     \/ /\ part = "redstate" /\ RedNext
        /\ UNCHANGED <<vars, rungVars, session, fixtureVars, scoreVars, fetchVars, HostVars>>
     \/ /\ part = "score" /\ ScoreNext
        /\ UNCHANGED <<vars, rungVars, session, fixtureVars, redVars, fetchVars, HostVars>>
     \/ /\ part = "fetch" /\ FetchNext
        /\ UNCHANGED <<vars, rungVars, session, fixtureVars, redVars, scoreVars, HostVars>>
     \/ /\ part = "stall" /\ StallNext
        /\ UNCHANGED <<cloneVars, armVars, BenchVars>>
     \/ /\ part = "clone" /\ CloneNext
        /\ UNCHANGED <<stallVars, armVars, BenchVars>>
     \/ /\ part = "arm" /\ ArmNext
        /\ UNCHANGED <<stallVars, cloneVars, BenchVars>>

MCSpec == MCInit /\ [][MCNext]_<<part, BenchVars, HostVars>>

-----------------------------------------------------------------------------
(* GoldenScore: three questions over two attachments.  The first row is    *)
(* printed on two pages, one of them a range typed backwards; a third work *)
(* is a twin of the first.  Every list of up to three results of seven     *)
(* answers a question.                                                     *)
Passage(label, quote) == [label |-> label, quote |-> quote]
Row1 == [work |-> "w1", attachment |-> "A1", section |-> "s",
         alternates |-> <<Passage({<<12, 13>>}, <<"alpha", "beta">>),
                          Passage({<<30, 20>>}, <<"gamma">>)>>]
Row2 == [work |-> "w2", attachment |-> "A2", section |-> "s",
         alternates |-> <<Passage({}, <<"delta">>)>>]
Query(id, mode, kind, rows, miss) ==
  [id |-> id, file |-> id, mode |-> mode, setKind |-> kind, rows |-> rows, expectedMiss |-> miss,
   mechanism |-> IF miss THEN "absent" ELSE "none", asks |-> "en", answers |-> "en", lane |-> <<"en", "en">>]
MCBank == <<Query("q1", "any", "any-of", <<Row1, Row2>>, FALSE),
            Query("q2", "lexical", "all-of", <<Row1, Row2>>, FALSE),
            Query("q3", "any", "any-of", <<Row1>>, TRUE)>>

(* One question out of form for each rule. *)
Sound == Query("q4", "any", "any-of", <<Row1>>, FALSE)
MCMisfits == {[Sound EXCEPT !.file = "q5"], [Sound EXCEPT !.lane = <<"en", "fr">>],
              [Sound EXCEPT !.rows = <<Row1, Row1>>], [Sound EXCEPT !.mechanism = "absent"],
              [Sound EXCEPT !.rows = <<>>], [Sound EXCEPT !.rows = <<[Row1 EXCEPT !.alternates = <<>>]>>]}

Export(t1, t2) ==
  [texts |-> ("A1" :> t1 @@ "A2" :> t2), parent |-> ("A1" :> "i1" @@ "A2" :> "i2"),
   pages |-> [a \in {"A1", "A2"} |-> 1], state |-> [a \in {"A1", "A2"} |-> "indexed"],
   workOf |-> ("i1" :> "w1" @@ "i2" :> "w2" @@ "i3" :> "w3"),
   relations |-> ("i1" :> {} @@ "i2" :> {[kind |-> "edition", target |-> "w1"]} @@
                  "i3" :> {[kind |-> "translation", target |-> "w1"],
                           [kind |-> "same-work", target |-> "none"]})]
MCExports ==
  "e1" :> Export(<<"alpha", "beta", "ff", "gamma", "alpha", "beta">>, <<"delta">>) @@
  "e2" :> Export(<<"gamma", "ff", "alpha", "beta">>, <<"eta">>)

Hit(item, attachment, page, evidence) ==
  [item |-> item, attachment |-> attachment, work |-> "none", page |-> page, evidence |-> evidence]
MCResults == {
  Hit("i1", "none", {}, <<"alpha", "beta">>), Hit("i1", "A1", {<<13, 13>>}, <<"gamma">>),
  Hit("i1", "none", {<<10, 15>>}, <<"eta">>), Hit("i1", "A1", {<<30, 20>>}, <<>>),
  Hit("i2", "A2", {}, <<"delta">>), Hit("i3", "none", {<<12, 12>>}, <<"alpha", "beta">>),
  Hit("i4", "none", {}, <<"eta">>)}
MCReplies == UNION {[1..n -> MCResults] : n \in 0..3}

ReplyOf(id, mode, found) == [id |-> id, mode |-> mode, ran |-> TRUE, results |-> found]
NotRun == [id |-> "q1", mode |-> "semantic", ran |-> FALSE, results |-> <<>>]
Previous == [export |-> "e1", top |-> (<<"q1", "lexical">> :> {"i1", "i2"})]
Bundle(previous, replies) == [export |-> "e1", previous |-> previous, replies |-> replies]
MCBundles ==
  {Bundle(<<>>, <<ReplyOf(id, "lexical", rs), NotRun>>) : id \in {"q2", "q3"}, rs \in MCReplies} \union
  {Bundle(Previous, <<ReplyOf("q1", "lexical", rs)>>) : rs \in MCReplies} \union
  {Bundle(Previous, <<ReplyOf("q1", "lexical", <<h>>), ReplyOf("q3", "lexical", <<g>>)>>) :
     g, h \in MCResults} \union
  {Bundle(<<>>, <<NotRun, NotRun>>), Bundle(<<>>, <<ReplyOf("q2", "hybrid", <<>>)>>)}

-----------------------------------------------------------------------------
(* FetchRecipe: a recipe of a pinned file and of one with no pin, the text *)
(* of a second rendering among them, and recipes that break one rule each. *)
Source(id, pin) ==
  [id |-> id, fields |-> TRUE, indexed |-> TRUE, skipReason |-> FALSE, pages |-> TRUE, chars |-> FALSE,
   combined |-> "page-only", text |-> FALSE, charset |-> FALSE, archive |-> "admitted", hosted |-> TRUE,
   pin |-> pin, unpinned |-> pin = NoBytes, url |-> TRUE, language |-> "en"]
SecondRendering == [Source("a2", NoBytes) EXCEPT !.text = TRUE, !.charset = TRUE, !.indexed = FALSE, !.skipReason = TRUE]
Doc(id, attachments) ==
  [id |-> id, legacy |-> FALSE, fields |-> TRUE, wrongType |-> FALSE, reason |-> FALSE,
   recordOnly |-> attachments = <<>>, stratum |-> "core", mechanisms |-> FALSE, features |-> {},
   notes |-> <<>>, attachments |-> attachments]
Old == [Doc("old", <<[Source("old", "pinned") EXCEPT !.archive = "dropped"]>>) EXCEPT !.legacy = TRUE]
Good == Doc("d1", <<Source("a1", "pinned"), SecondRendering>>)

MCRecipes == {
  <<Good, Old>>,
  <<Good, Doc("d2", <<[Source("a3", "pinned") EXCEPT !.url = FALSE]>>), Doc("d3", <<>>)>>,
  <<Good, Good>>,
  <<[Good EXCEPT !.features = {"a3"}]>>,
  <<[Good EXCEPT !.attachments = <<SecondRendering, Source("a1", "pinned")>>]>>,
  <<Doc("d1", <<[Source("a1", "pinned") EXCEPT !.chars = TRUE]>>)>>,
  <<Doc("d1", <<[Source("a1", "pinned") EXCEPT !.archive = "dropped"]>>)>>}

-----------------------------------------------------------------------------
(* StallProbe: the wall clock is set back by less than an interval, by one *)
(* or by more, or forward.                                                 *)
MCLoads == {0, 6, 100}
MCShifts == {0, -1, -2, -3, 1}
=============================================================================
