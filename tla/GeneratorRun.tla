---------------------------- MODULE GeneratorRun ----------------------------
(***************************************************************************)
(* bench/generator/run.py: the library-level bench.  A run draws a scope,  *)
(* has the target build its index over it or takes the one of the arena,  *)
(* samples rows of what the index holds, has questions written of them     *)
(* (questions.py), asks the target and scores its replies (score.py), and  *)
(* writes one artifact that says of what all this was measured.            *)
(*                                                                         *)
(* A scope is its seed.  An embedder is its model, precision and pooling;  *)
(* the operator changes the target's settings, and with them the embedder, *)
(* between two runs.  A run may be killed and a step may raise.            *)
(***************************************************************************)
EXTENDS Integers, Sequences, SequencesExt

CONSTANTS Seeds, Embedders, \* what a run may be started with
          Registry,         \* bench/models.json: the records of the models
          Rows,             \* the sampled rows: what each answer is
          Replies,          \* the lists of hits the target may reply
          TopK,
          MaxStarts         \* bound: runs

(* NoName stands for a name that is missing; an embedder has all of its.   *)
ASSUME EmbeddersAssumption == \A e \in Embedders : "none" \notin {e.model, e.dtype, e.pooling}

VARIABLES targetDir, \* what the target's directory keeps between runs
          bench, \* the run
          askedIndex, \* the index as the questions found it
          starts

benchVars == <<targetDir, bench, askedIndex, starts>>

NoName == "none"
NoEmbedder == [model |-> NoName, dtype |-> NoName, pooling |-> NoName]
Made(settings) == [model |-> settings.model, dtype |-> settings.dtype, pooling |-> settings.pooling]
NothingBuilt == [scope |-> 0, by |-> NoEmbedder, is |-> NoName]
Modes == {"combined", "exact", "meaning"}
NoBench == [at |-> "off", seed |-> 0, scope |-> 0, reuse |-> FALSE, only |-> FALSE, settings |-> [auto |-> TRUE],
            writer |-> NoName, reason |-> FALSE, build |-> NoName, timedOut |-> FALSE, target |-> "down",
            rows |-> <<>>, status |-> NoEmbedder, artifact |-> <<>>]

BenchInit == /\ targetDir = [scope |-> 0, index |-> NothingBuilt, record |-> NoName, weights |-> {}]
             /\ bench = NoBench /\ askedIndex = NothingBuilt /\ starts = 0

-----------------------------------------------------------------------------
(* The target, an external program. *)
TargetBuilds(is) == /\ bench.target = "up" /\ targetDir.index.is = "part" /\ bench.at # "off"
                    /\ targetDir' = [targetDir EXCEPT !.index.is = is, !.index.by = Made(bench.settings),
                                                                     !.weights = @ \union {bench.settings.model}]
                    /\ UNCHANGED <<bench, askedIndex, starts>>
(* The stamp of an index leaves the default precision and pooling out. *)
Stamp(index) == [model |-> index.by.model,
                 dtype |-> IF index.by.dtype = "fp32" THEN NoName ELSE index.by.dtype,
                 pooling |-> IF index.by.pooling = "mean" THEN NoName ELSE index.by.pooling]

-----------------------------------------------------------------------------
(* main() *)
To(at) == bench' = [bench EXCEPT !.at = at]
At_(at) == bench.at = at /\ UNCHANGED starts
Rest == UNCHANGED <<targetDir, askedIndex>>

StartRun == /\ bench.at \in {"off", "over"} /\ starts < MaxStarts /\ starts' = starts + 1
         /\ \E seed \in Seeds, e \in Embedders, reuse, only \in BOOLEAN :
              bench' = [NoBench EXCEPT !.at = "scope", !.seed = seed, !.settings = e, !.reuse = reuse, !.only = only]
         /\ askedIndex' = NothingBuilt /\ UNCHANGED targetDir
(* The scope of the arena is used with its index, and one drawn is written *)
(* before anything is built over it.                                       *)
DrawScope == LET kept == bench.reuse /\ targetDir.scope # 0
                 drawn == IF kept THEN targetDir.scope ELSE bench.seed
             IN  /\ At_("scope") /\ UNCHANGED askedIndex
                 /\ bench' = [bench EXCEPT !.at = "writer", !.scope = drawn]
                 /\ targetDir' = [targetDir EXCEPT !.scope = drawn]
(* build_writer(): a server that names no model, or not the one asked for, *)
(* is replaced by the fallback, and the reason kept.                       *)
Serves(server, model) == server # {} /\ (model = NoName \/ model \in server)
build_writer(wanted, served, fallback) ==
  [name |-> IF wanted = "llama-server" /\ served THEN "llama-server"
            ELSE IF wanted # "template" /\ fallback THEN "tjs" ELSE "template",
   reason |-> wanted = "llama-server" /\ ~served]
BuildWriter ==
  /\ At_("writer") /\ Rest
  /\ \E wanted \in {"llama-server", "tjs", "template"}, server \in {{}, {"m1"}}, model \in {NoName, "m2"}, fallback \in BOOLEAN :
       LET writer == build_writer(wanted, Serves(server, model), fallback) IN
       /\ wanted = "tjs" => fallback
       /\ bench' = [bench EXCEPT !.at = "start", !.writer = writer.name, !.reason = writer.reason]
StartTarget == /\ At_("start") /\ Rest
               /\ bench' = [bench EXCEPT !.target = "up", !.at = IF bench.reuse THEN "reuse" ELSE "build"]
ReuseIndex == /\ At_("reuse") /\ Rest /\ bench' = [bench EXCEPT !.at = "sample", !.build = targetDir.record]
(* build_index(): the target's own build, polled until it settles. *)
Settles == {"done", "error", "idle"}
StartBuild == /\ At_("build") /\ UNCHANGED askedIndex /\ To("poll")
              /\ targetDir' = [targetDir EXCEPT !.index = [NothingBuilt EXCEPT !.scope = bench.scope, !.is = "part"]]
BuildSettled == /\ At_("poll") /\ UNCHANGED askedIndex
                /\ \E state \in Settles :
                     /\ state = "done" <=> targetDir.index.is = "whole"
                     /\ bench' = [bench EXCEPT !.at = "built", !.build = state]
                     /\ targetDir' = [targetDir EXCEPT !.record = state]
BuildTimesOut == /\ At_("poll") /\ UNCHANGED askedIndex
                 /\ bench' = [bench EXCEPT !.at = "built", !.build = "running", !.timedOut = TRUE]
                 /\ targetDir' = [targetDir EXCEPT !.record = "running"]
BuildOnly == /\ At_("built") /\ Rest
             /\ bench' = IF bench.only THEN [bench EXCEPT !.at = "over", !.target = "down"]
                         ELSE [bench EXCEPT !.at = "sample"]
(* index_item_keys() and sample(): rows of what the index holds. *)
Sample == /\ At_("sample") /\ targetDir.index.is # NoName /\ Rest
          /\ bench' = [bench EXCEPT !.at = "questions", !.rows = Rows]
NoKeys == /\ At_("sample") /\ targetDir.index.is # "whole" /\ Rest
          /\ bench' = [bench EXCEPT !.at = "over", !.target = "down"]
(* write_questions(): one request a row, or one process for all of them;   *)
(* a row whose answer is no question gets the template's.                  *)
Written(by) == bench' = [bench EXCEPT !.at = "ask",
  !.rows = [i \in 1..Len(@) |-> [answer |-> @[i], by |-> by[i], verdict |-> [m \in Modes |-> NoName]]]]
Unacceptable == SUBSET (1..Len(bench.rows))
TemplateWrites == bench.writer = "template" /\ Written([i \in 1..Len(bench.rows) |-> "template"])
ServerWrites == /\ bench.writer = "llama-server"
                /\ \E failed, refused \in Unacceptable :
                     Written([i \in 1..Len(bench.rows) |->
                       IF i \in failed \union refused THEN "template-fallback" ELSE "llama-server"])
ProcessWrites == /\ bench.writer = "tjs"
                 /\ \E refused \in Unacceptable :
                      Written([i \in 1..Len(bench.rows) |-> IF i \in refused THEN "template-fallback" ELSE "tjs"])
WriteQuestions == At_("questions") /\ Rest /\ (TemplateWrites \/ ServerWrites \/ ProcessWrites)

(* classify(): the first ten hits against one answer. *)
CompoundWin == {"title", "creators", "page_label"}
SameWork(hit) == hit.is \in {"row", "item", "work"}
classify(hits, answer) ==
  LET seen == SubSeq(hits, 1, IF Len(hits) < TopK THEN Len(hits) ELSE TopK)
      rows == SelectSeq(seen, LAMBDA h : h.is = "row")
  IN  IF rows # <<>> /\ (answer.compound => CompoundWin \subseteq rows[1].chain) THEN "win"
      ELSE IF \E i \in 1..Len(seen) : SameWork(seen[i]) THEN "near-win" ELSE "miss"
AskTarget == /\ At_("ask") /\ UNCHANGED targetDir
       /\ \E reply \in [Modes -> Replies] :
            bench' = [bench EXCEPT !.at = "status", !.rows = [i \in 1..Len(@) |->
              [@[i] EXCEPT !.verdict = [m \in Modes |-> classify(reply[m], bench.rows[i].answer)]]]]
       /\ askedIndex' = targetDir.index
ReadStatus == /\ At_("status") /\ Rest
              /\ bench' = [bench EXCEPT !.at = "artifact", !.status = Made(bench.settings), !.target = "down"]

(* Mutant: a field the stamp leaves out is read from the settings. *)
ElidedFromSettings(stamp) == [model |-> stamp.model,
                              dtype |-> IF stamp.dtype = NoName THEN bench.settings.dtype ELSE stamp.dtype,
                              pooling |-> IF stamp.pooling = NoName THEN "mean" ELSE stamp.pooling]
(* embedder_identity(): the stamp says what made the vectors; without one  *)
(* the status and the settings stand in.                                   *)
ExpandStamp(stamp) == [model |-> stamp.model,
                       dtype |-> IF stamp.dtype = NoName THEN "fp32" ELSE stamp.dtype,
                       pooling |-> IF stamp.pooling = NoName THEN "mean" ELSE stamp.pooling]
(* The settings alone do not say what pooling an automatic one came to. *)
FromSettings == [model |-> bench.status.model, dtype |-> bench.settings.dtype,
                 pooling |-> IF bench.settings.auto THEN NoName ELSE bench.settings.pooling]
registry_record(model) ==
  LET by(name(_)) == {r \in Registry : name(r) = model}
      found == <<by(LAMBDA r : r.id), by(LAMBDA r : r.repo), by(LAMBDA r : r.upstream)>>
  IN  SelectSeq(found, LAMBDA s : s # {})
(* The files of the model's own cache directory, if there are any. *)
weights_digest(model) == targetDir.weights \intersect {model}
EmbedderIdentity ==
  LET stamp == Stamp(targetDir.index)
      made == IF stamp.model = NoName THEN FromSettings ELSE ExpandStamp(stamp)
      record == registry_record(made.model)
  IN  [embedder |-> made, from |-> IF stamp.model = NoName THEN "status" ELSE "stamp",
       weights |-> weights_digest(made.model),
       poolingDisagrees |-> record # <<>> /\ made.pooling # NoName /\ \A r \in record[1] : r.pooling # made.pooling,
       disagrees |-> stamp.model # NoName /\ stamp.model # bench.status.model]
Ladder(rows, verdict) == {at \in (1..Len(rows)) \X Modes : rows[at[1]].verdict[at[2]] = verdict}
WriteArtifact ==
  /\ At_("artifact") /\ Rest
  /\ bench' = [bench EXCEPT !.at = "over",
       !.artifact = <<[scope |-> bench.scope, identity |-> EmbedderIdentity, build |-> bench.build,
                     timedOut |-> bench.timedOut, builtHere |-> bench.build # NoName /\ ~bench.reuse,
                     writer |-> bench.writer, reason |-> bench.reason,
                     ladder |-> [v \in {"win", "near-win", "miss"} |-> Ladder(bench.rows, v)]]>>]

(* An exception stops the target and the proxy; a kill leaves neither.     *)
Ends == /\ bench.at \notin {"off", "over"} /\ Rest /\ UNCHANGED starts
        /\ bench' = [bench EXCEPT !.at = "over", !.target = "down"]

BenchNext == \/ TargetBuilds("whole") \/ StartRun \/ DrawScope \/ BuildWriter \/ StartTarget \/ ReuseIndex
             \/ StartBuild \/ BuildSettled \/ BuildTimesOut \/ BuildOnly \/ Sample \/ NoKeys
             \/ WriteQuestions \/ AskTarget \/ ReadStatus \/ WriteArtifact \/ Ends
BenchSpec == BenchInit /\ [][BenchNext]_benchVars
-----------------------------------------------------------------------------
(* An artifact speaks of the index its questions were put to: the embedder *)
(* it names, precision and pooling included, made the vectors they found,  *)
(* whatever the target is configured to now, and its weights are there;    *)
(* and when it says the index was built in this run, the scope is the one  *)
(* it was built over and a build called done had ended before the first    *)
(* question.                                                               *)
ArtifactOfItsIndex ==
  \A i \in 1..Len(bench.artifact) : LET doc == bench.artifact[i] IN
    /\ doc.identity.from = "stamp" /\ askedIndex.by # NoEmbedder
         => doc.identity.embedder = askedIndex.by /\ doc.identity.weights = {askedIndex.by.model}
    /\ doc.builtHere => doc.scope = askedIndex.scope /\ (doc.build = "done" => askedIndex.is = "whole")
=============================================================================
