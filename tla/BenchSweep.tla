----------------------------- MODULE BenchSweep -----------------------------
(* The resumable sweep of src/bench/sweep.py: run_sweep over the planned   *)
(* cells, the executor that resolves and measures one, the result files    *)
(* and the persisted vectors that outlive a run, and runs that are killed. *)
EXTENDS Naturals, Sequences, FiniteSets, SequencesExt

CONSTANTS
  Campaigns,   \* what a run may be asked for: models, kinds, dtypes, devices
               \* as sequences, a corpus, the drivers' version, and whether
               \* a vectors directory is kept (--vectors-dir)
  Bytes,       \* the contents a model file may have
  Published,   \* [model, dtype] -> the bytes the repository publishes
  Unpublished, \* the value of Published where there is no file
  Reps,        \* KIND_REPS: kind -> fresh processes per cell
  MaxRuns      \* bound: runs started

VARIABLES
  results,     \* the result file of each cell
  vectors,     \* the fidelity vectors on disk: prefix, rung -> who made them
  pc,          \* where run_sweep is
  asked,       \* the campaign this run was asked for
  todo,        \* its cells not yet handled
  index,       \* hash_index
  bytes,       \* resolved.onnx_hash of the cell at hand
  rungs,       \* the rungs _measure_fidelity has still to embed
  oks,         \* the reps done: ok or not
  figures,     \* the makers of the vectors the last fidelity rep compared
  stats,       \* SweepStats
  runs         \* runs started

onDisk == <<results, vectors>>
plan == <<asked, todo, stats, runs>>
cell == <<bytes, rungs, oks, figures>>
vars == <<onDisk, plan, pc, index, cell>>

-----------------------------------------------------------------------------
(* The plan                                                                *)

Corpus(c, kind) == IF kind = "cost" THEN "fixed-queries-v1" ELSE c.corpus

(* A cell: its identity is its file name, all six axes of it. *)
Cell(c, model, kind, dtype, device) ==
  [model |-> model, dtype |-> dtype, device |-> device,
   corpus |-> Corpus(c, kind), kind |-> kind, version |-> c.version]

(* Four nested loops, the devices innermost. *)
Nth(s, n) == s[(n % Len(s)) + 1]
PlanCells(c) ==
  LET perDtype == Len(c.devices)
      perKind == Len(c.dtypes) * perDtype
      perModel == Len(c.kinds) * perKind
  IN  [n \in 1..(Len(c.models) * perModel) |->
         Cell(c, Nth(c.models, (n - 1) \div perModel), Nth(c.kinds, (n - 1) \div perKind),
                 Nth(c.dtypes, (n - 1) \div perDtype), Nth(c.devices, n - 1))]

Cells == UNION {Range(PlanCells(c)) : c \in Campaigns}
Rungs == {x.dtype : x \in Cells} \cup {"fp32"}
VectorSets == {x.model : x \in Cells} \cup {"temporary"}
Makers == {[device |-> x.device, corpus |-> x.corpus] : x \in Cells}
NoFile == [device |-> "none", corpus |-> "none"]

PublishedOf(x) == Published[<<x.model, x.dtype>>]

NoFigures == [reference |-> NoFile, rung |-> NoFile]

Maker(x) == [device |-> x.device, corpus |-> x.corpus]

(* Lists are lists, a cell is of a kind that is measured at least once and *)
(* on a device that has a name, and a published file has a content.        *)
ASSUME CampaignsAssumption ==
  \A c \in Campaigns :
    /\ c.persistent \in BOOLEAN
    /\ Len(c.models) \in Nat /\ Len(c.kinds) \in Nat
    /\ Len(c.dtypes) \in Nat /\ Len(c.devices) \in Nat
ASSUME CellsAssumption ==
  /\ MaxRuns \in Nat /\ Unpublished \notin Bytes
  /\ \A x \in Cells : /\ x.device # "none" /\ Reps[x.kind] \in Nat \ {0}
                     /\ PublishedOf(x) \in Bytes \cup {Unpublished}

-----------------------------------------------------------------------------
(* Result files                                                            *)

Terminal == {"measured", "unloadable", "duplicate", "failed"}
NoCell == [model |-> "none", dtype |-> "none", device |-> "none",
           corpus |-> "none", kind |-> "none", version |-> 0]

(* A result file.  For a fidelity cell, reference and rung are the makers  *)
(* of the two vector files the figures compare, and kept says whether they *)
(* stay on disk for other cells.                                           *)
Result(status, hash, owner, reference, rung, kept) ==
  [status |-> status, hash |-> hash, owner |-> owner,
   reference |-> reference, rung |-> rung, kept |-> kept]

Missing == Result("missing", Unpublished, NoCell, NoFile, NoFile, FALSE)

Key(x, hash) == <<x.kind, x.version, hash>>
Keys == {Key(x, h) : x \in Cells, h \in Bytes}
NoOwner == NoCell

(* The cells a resumed run may find measured under a key: the first file   *)
(* of the directory listing, whose order is the file system's.             *)
Found(key) == {x \in Cells : results[x].status = "measured"
                             /\ Key(x, results[x].hash) = key}

NoIndex == [key \in Keys |-> NoOwner]

(* Mutant: only what this process measured is an owner. *)
IndexFromNothing == NoIndex

ExistingHashIndex ==
  [key \in Keys |-> IF Found(key) = {} THEN NoOwner ELSE CHOOSE x \in Found(key) : TRUE]

Zero == [v \in Terminal \cup {"skipped"} |-> 0]
Count(v) == stats' = [stats EXCEPT ![v] = @ + 1]

-----------------------------------------------------------------------------
Init ==
  /\ results = [x \in Cells |-> Missing]
  /\ vectors = [at \in VectorSets \X Rungs |-> NoFile]
  /\ pc = "idle" /\ asked \in Campaigns /\ todo = <<>> /\ index = NoIndex
  /\ bytes = Unpublished /\ rungs = <<>> /\ oks = <<>> /\ figures = NoFigures
  /\ stats = Zero /\ runs = 0

(* A process starts: the index is read back from the results directory. *)
Begin(c) ==
  /\ pc = "idle" /\ runs < MaxRuns
  /\ asked' = c
  /\ todo' = PlanCells(c)
  /\ index' = ExistingHashIndex
  /\ stats' = Zero
  /\ runs' = runs + 1
  /\ pc' = "plan"
  /\ UNCHANGED <<onDisk, cell>>

At == todo[1]

(* The cell at hand gets its file and the run goes to the next one. *)
Write(result) ==
  /\ results' = [results EXCEPT ![At] = result]
  /\ Count(result.status)
  /\ todo' = Tail(todo)
  /\ pc' = "plan"
  /\ bytes' = Unpublished /\ rungs' = <<>> /\ oks' = <<>> /\ figures' = NoFigures
  /\ UNCHANGED <<vectors, asked, index, runs>>

Skip ==
  /\ pc = "plan" /\ todo # <<>>
  /\ results[At].status # "missing"
  /\ Count("skipped")
  /\ todo' = Tail(todo)
  /\ UNCHANGED <<onDisk, pc, asked, index, cell, runs>>

(* resolve() says no: the rung is not published, the download fails, or    *)
(* the fp16 probe does, on the device it was configured with.              *)
Unloadable ==
  /\ pc = "plan" /\ todo # <<>>
  /\ results[At].status = "missing"
  /\ Write(Result("unloadable", Unpublished, NoCell, NoFile, NoFile, FALSE))

(* resolve() downloads the file and hashes what it wrote. *)
Resolve ==
  /\ pc = "plan" /\ todo # <<>>
  /\ results[At].status = "missing"
  /\ PublishedOf(At) # Unpublished
  /\ bytes' = PublishedOf(At)
  /\ pc' = "resolved"
  /\ UNCHANGED <<onDisk, plan, index, rungs, oks, figures>>

Owner == index[Key(At, bytes)]
Claimed == Owner # NoOwner /\ Owner # At

Duplicate ==
  /\ pc = "resolved" /\ Claimed
  /\ Write(Result("duplicate", bytes, Owner, NoFile, NoFile, FALSE))

(* The bytes are claimed for this cell before it is measured. *)
Claim ==
  /\ pc = "resolved" /\ ~Claimed
  /\ index' = [index EXCEPT ![Key(At, bytes)] = At]
  /\ oks' = <<>>
  /\ pc' = "measure"
  /\ UNCHANGED <<onDisk, plan, bytes, rungs, figures>>

Ended(ok) == oks' = Append(oks, ok)
RepsLeft == Len(oks) < Reps[At.kind]

(* Whatever the driver's return code, a rep counts when its output is a    *)
(* complete file, and fails otherwise; every rep is run, a failed one too. *)
MeasureCost(ok) ==
  /\ pc = "measure" /\ RepsLeft /\ At.kind = "cost"
  /\ Ended(ok)
  /\ UNCHANGED <<onDisk, plan, pc, index, bytes, rungs, figures>>

(* Recall embeds in a directory of its own, so nothing outlives the rep;   *)
(* without the item files, or when either driver fails, it fails.          *)
MeasureRecall(ok) ==
  /\ pc = "measure" /\ RepsLeft /\ At.kind = "recall"
  /\ Ended(ok)
  /\ UNCHANGED <<onDisk, plan, pc, index, bytes, rungs, figures>>

(* Mutant: every rep works under the model's own prefix. *)
PrefixShared == At.model

Prefix == IF asked.persistent THEN At.model ELSE "temporary"

(* Persisted vectors are keyed by model; temporary ones start from nothing. *)
MeasureFidelity ==
  /\ pc = "measure" /\ RepsLeft /\ At.kind = "fidelity"
  /\ rungs' = <<"fp32", At.dtype>>
  /\ vectors' = IF asked.persistent THEN vectors
                ELSE [vectors EXCEPT ![<<"temporary", "fp32">>] = NoFile,
                                     ![<<"temporary", At.dtype>>] = NoFile]
  /\ pc' = "embed"
  /\ UNCHANGED <<results, plan, index, bytes, oks, figures>>

Rung == rungs[1]
Made == vectors[<<Prefix, Rung>>]
Cached == asked.persistent /\ Rung = "fp32" /\ Made # NoFile

EmbedCached ==
  /\ pc = "embed" /\ rungs # <<>> /\ Cached
  /\ rungs' = Tail(rungs)
  /\ UNCHANGED <<onDisk, plan, pc, index, bytes, oks, figures>>

(* What the driver leaves under its output prefix: its vectors, a torn     *)
(* pair of files, or, when it died before writing, what was there before.  *)
Leaves == {Maker(At), NoFile, Made}

(* The rung's files are looked at before the return code is. *)
Embed ==
  /\ pc = "embed" /\ rungs # <<>> /\ ~Cached
  /\ \E left \in Leaves :
       /\ vectors' = [vectors EXCEPT ![<<Prefix, Rung>>] = left]
       /\ IF left = NoFile THEN rungs' = <<>> /\ Ended(FALSE) /\ pc' = "measure"
                           ELSE rungs' = Tail(rungs) /\ UNCHANGED <<oks, pc>>
  /\ UNCHANGED <<results, plan, index, bytes, figures>>

(* Both rungs are loaded and compared. *)
Score ==
  /\ pc = "embed" /\ rungs = <<>>
  /\ figures' = [reference |-> vectors[<<Prefix, "fp32">>], rung |-> vectors[<<Prefix, At.dtype>>]]
  /\ Ended(TRUE)
  /\ pc' = "measure"
  /\ UNCHANGED <<onDisk, plan, index, bytes, rungs>>

(* Mutant: a failure is counted and leaves no file. *)
FailedUnrecorded ==
  /\ pc = "measure" /\ ~RepsLeft /\ FALSE \in Range(oks)
  /\ Count("failed")
  /\ todo' = Tail(todo)
  /\ pc' = "plan"
  /\ bytes' = Unpublished /\ rungs' = <<>> /\ oks' = <<>> /\ figures' = NoFigures
  /\ UNCHANGED <<onDisk, asked, index, runs>>

Failed ==
  /\ pc = "measure" /\ ~RepsLeft /\ FALSE \in Range(oks)
  /\ Write(Result("failed", bytes, NoCell, NoFile, NoFile, FALSE))

Measured ==
  /\ pc = "measure" /\ ~RepsLeft /\ FALSE \notin Range(oks)
  /\ Write(Result("measured", bytes, NoCell, figures.reference, figures.rung, asked.persistent))

(* run_sweep returns its statistics. *)
Return ==
  /\ pc = "plan" /\ todo = <<>>
  /\ pc' = "returned"
  /\ UNCHANGED <<onDisk, plan, index, cell>>

Exit ==
  /\ pc = "returned"
  /\ pc' = "idle" /\ index' = NoIndex /\ stats' = Zero
  /\ UNCHANGED <<onDisk, asked, todo, runs, cell>>

(* The campaign is killed, or a driver outlives its timeout, which nothing *)
(* catches: what is on disk stays, the rest is lost.                         *)
Crash ==
  /\ pc \in {"plan", "resolved", "measure", "embed"}
  /\ pc' = "idle" /\ todo' = <<>> /\ index' = NoIndex
  /\ bytes' = Unpublished /\ rungs' = <<>> /\ oks' = <<>> /\ figures' = NoFigures
  /\ stats' = Zero
  /\ UNCHANGED <<onDisk, asked, runs>>

Measure ==
  \/ \E ok \in BOOLEAN : MeasureCost(ok) \/ MeasureRecall(ok)
  \/ MeasureFidelity \/ EmbedCached \/ Embed \/ Score

Settle == Unloadable \/ Duplicate \/ Failed \/ Measured

Step == Skip \/ Resolve \/ Claim \/ Measure \/ Settle \/ Return

Next == (\E c \in Campaigns : Begin(c)) \/ Step \/ Exit \/ Crash

Spec == Init /\ [][Next]_vars

-----------------------------------------------------------------------------
(* The report: what exists by status, the rest as missing.                 *)
Report(plans) ==
  [v \in Terminal \cup {"missing"} |->
     {x \in plans : results[x].status = v}]
-----------------------------------------------------------------------------
(* Properties                                                              *)

TypeOK ==
  /\ results \in [Cells -> [status : Terminal \cup {"missing"},
                            hash : Bytes \cup {Unpublished},
                            owner : Cells \cup {NoCell},
                            reference : Makers \cup {NoFile},
                            rung : Makers \cup {NoFile},
                            kept : BOOLEAN]]
  /\ vectors \in [VectorSets \X Rungs -> Makers \cup {NoFile}]
  /\ pc \in {"idle", "plan", "resolved", "measure", "embed", "returned"}
  /\ asked \in Campaigns /\ todo \in Seq(Cells)
  /\ index \in [Keys -> Cells \cup {NoOwner}]
  /\ bytes \in Bytes \cup {Unpublished}
  /\ rungs \in Seq(Rungs) /\ oks \in Seq(BOOLEAN)
  /\ figures \in [reference : Makers \cup {NoFile}, rung : Makers \cup {NoFile}]
  /\ stats \in [Terminal \cup {"skipped"} -> Nat] /\ runs \in 0..MaxRuns

(* What the statistics of a run have counted.                              *)
Tally == stats["measured"] + stats["unloadable"] + stats["duplicate"] + stats["failed"] + stats["skipped"]

(* A run that returns has settled every cell it was asked for, and its     *)
(* statistics count each of them once, whatever earlier runs left behind.  *)
ReturnLeavesNoGap ==
  pc = "returned" =>
    LET plans == PlanCells(asked) IN
    /\ Report(Range(plans))["missing"] = {}
    /\ Tally = Len(plans)

(* A cell waived as a duplicate names another cell of the same bytes, kind *)
(* and driver version, one that a measurement was really attempted for, in *)
(* this run or before a crash: a waiver is never a chain and never dangles. *)
OwnerAttempted ==
  \A x \in Cells : results[x].status = "duplicate" =>
    LET owner == results[x].owner IN
    /\ owner \in Cells \ {x}
    /\ results[owner].status \in {"measured", "failed"}
    /\ Key(owner, results[owner].hash) = Key(x, results[x].hash)

(* The figures of a fidelity cell measured without a kept vectors          *)
(* directory compare vectors of its own device and corpus; with one, they  *)
(* at least compare two files that were there.                             *)
FiguresHaveMakers ==
  \A x \in Cells : results[x].status = "measured" /\ x.kind = "fidelity" =>
    /\ results[x].reference # NoFile /\ results[x].rung # NoFile
    /\ ~results[x].kept =>
         results[x].reference = Maker(x) /\ results[x].rung = Maker(x)

(* Every result rests on work of its own kind: a duplicate on an attempt,  *)
(* a figure on the vectors it says (run_sweep, _measure_fidelity).         *)
ResultsRestOnWork == OwnerAttempted /\ FiguresHaveMakers

(* Both, of every run however it was resumed: what it returns is whole,    *)
(* and rests on measurements.                                              *)
CampaignSound == ReturnLeavesNoGap /\ ResultsRestOnWork

(* The results directory as the abstract ledger. *)
Ledger == INSTANCE SweepLedger WITH
  KeyOf <- LAMBDA x : Key(x, PublishedOf(x)),
  verdict <- [x \in Cells |-> results[x].status]

(* The results directory is a ledger: no file is ever rewritten and no two *)
(* cells of the same bytes are both measured, across kills and resumes.    *)
SettlesOnce == Ledger!Init /\ [][results' # results => Ledger!Next]_vars

(* The module's own words for a duplicate (sweep.py:36-38): its file       *)
(* hashes the same as a cell already measured, and the record points at    *)
(* the cell that was.                                                      *)
DuplicateOfMeasured ==
  \A x \in Cells : results[x].status = "duplicate" =>
    results[results[x].owner].status = "measured"
=============================================================================
