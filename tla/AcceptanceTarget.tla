-------------------------- MODULE AcceptanceTarget --------------------------
(* A target of the acceptance layer as its assertions meet it: one data    *)
(* directory, the verbs, the lifecycle and the perturbations.  The targets *)
(* are the fail-controls of src/bench/acceptance/adapters/stubs.py, one    *)
(* defect each; their work goes through a background worker, as a real     *)
(* target's does, and a fixture that works at once is one of its runs.     *)
EXTENDS Naturals, Integers, Sequences, FiniteSets

CONSTANTS Items,    \* records of the fixture library
          Sections  \* sections of each record

ASSUME LibraryAssumption == Items \in Nat \ {0, 1} /\ Sections \in Nat \ {0}

Fixtures == {"quiet", "egress-ip", "egress-name", "strays", "under-declares",
             "verbless", "remote-embedder", "uninstall-leaves-residue",
             "churns-on-resync", "verifies-nothing-on-resync",
             "recomputes-whole-library-on-edit", "corrupts-on-company",
             "duplicates-work-on-company", "abandons-foreign-stamp",
             "ignores-pause", "forgets-pause-on-restart"}

Verbs == {"install", "uninstall", "configure", "pause", "resume", "query", "status"}

Offers(f, verb) ==
  f = "verbless" => verb \notin {"uninstall", "query", "resume", "pause"}

-----------------------------------------------------------------------------
(* The data directory                                                      *)

Directory(file) == IF file = "stray" THEN "elsewhere" ELSE "data"
DeclaredRoots(f) == IF f = "under-declares" THEN {"declared-but-unused"} ELSE {"data"}
Declared(f, files) == {x \in files : Directory(x) \in DeclaredRoots(f)}

(* work.<stage>.<trigger>.<outcome> *)
Stages == {"record", "embed"}
Triggers == {"new", "edit", "build", "resync"}
Counters == Stages \X Triggers \X {"done", "noop"}
NoWork == [c \in Counters |-> 0]

Empty == [files |-> {}, work |-> NoWork, pending |-> <<>>,
          edited |-> FALSE, live |-> 0, company |-> FALSE, corrupt |-> FALSE]

IsPaused(f, d) == f # "ignores-pause" /\ "paused" \in d.files

(* Work is noticed whatever the switch says; a paused target does none.    *)
Notice(f, d, batches) ==
  IF IsPaused(f, d) THEN d
  ELSE [d EXCEPT !.files = @ \cup {"ledger"}, !.pending = @ \o batches]

CanWork(f, d) == d.pending # <<>> /\ ~IsPaused(f, d)

(* The worker does one batch: <<counter, how many>>. *)
Work(d) ==
  LET batch == d.pending[1] IN
  [d EXCEPT !.work[batch[1]] = @ + batch[2], !.pending = Tail(@)]

Recompute(trigger, records, sections) ==
  <<<< <<"record", trigger, "done">>, records>>, << <<"embed", trigger, "done">>, sections>>>>

-----------------------------------------------------------------------------
(* The lifecycle                                                           *)

FirstBuild(f, d) ==
  IF "ledger" \in d.files /\ f # "duplicates-work-on-company" THEN d
  ELSE Notice(f, d, Recompute("new", Items, Items * Sections))

(* Whether the pair was ever live at once is kept in the ledger. *)
Join(f, d) ==
  IF f = "corrupts-on-company" /\ "ledger" \in d.files /\ ~IsPaused(f, d)
  THEN [d EXCEPT !.live = @ + 1, !.company = @ \/ d.live >= 1]
  ELSE d

Forget(f, d) ==
  IF f = "forgets-pause-on-restart" THEN [d EXCEPT !.files = @ \ {"paused"}] ELSE d

Start(f, d) == Forget(f, Join(f, FirstBuild(f, d)))

(* Mutant: the damage does not wait for company. *)
StopCorrupts(f, d) ==
  IF f = "corrupts-on-company" /\ "ledger" \in d.files /\ ~IsPaused(f, d)
  THEN [d EXCEPT !.live = @ - 1, !.corrupt = @ \/ d.live <= 1]
  ELSE d

Stop(f, d) ==
  IF f = "corrupts-on-company" /\ "ledger" \in d.files /\ ~IsPaused(f, d)
  THEN [d EXCEPT !.live = @ - 1, !.corrupt = @ \/ (d.live <= 1 /\ d.company)]
  ELSE d

-----------------------------------------------------------------------------
(* The verbs                                                               *)

Install(f, d) ==
  [d EXCEPT !.files = @ \cup {"index"} \cup (IF f = "strays" THEN {"stray"} ELSE {})]

Uninstall(f, d) ==
  [d EXCEPT !.files = (@ \ Declared(f, @))
              \cup (IF f = "uninstall-leaves-residue" THEN {"survivor"} ELSE {}),
            !.work = IF "ledger" \in Declared(f, d.files) THEN NoWork ELSE @,
            !.pending = <<>>]

Pause(d) == [d EXCEPT !.files = @ \cup {"paused"}]

Answers(f, d) == ~d.corrupt
Hits(f, d) == IF f = "abandons-foreign-stamp" /\ "stamp" \in d.files THEN 0 ELSE Items

Locality(f) == IF f = "remote-embedder" THEN "remote" ELSE "local"
ReportsWork(f) == f # "remote-embedder"

(* What a verb tries to reach: an address, or a name to resolve.           *)
Reaches(f, verb) ==
  CASE f = "egress-ip" /\ verb \in {"install", "query"} -> {"public-address"}
    [] f = "egress-name" /\ verb \in {"install", "query"} -> {"local-resolver"}
    [] OTHER -> {}

-----------------------------------------------------------------------------
(* The perturbations.  A second identical edit of a library changes        *)
(* nothing, as on a real target.                                           *)

Edit(f, d) ==
  IF d.edited THEN d
  ELSE [Notice(f, d, Recompute("edit", 1,
          IF f = "recomputes-whole-library-on-edit" THEN Items * Sections ELSE Sections))
        EXCEPT !.edited = TRUE]

ResumeEmbedding(f, d) ==
  IF d.edited THEN d
  ELSE [Notice(f, d, <<<< <<"embed", "build", "done">>, Sections>>>>) EXCEPT !.edited = TRUE]

Resync(f, d) ==
  Notice(f, d,
    CASE f = "verifies-nothing-on-resync" -> <<>>
      [] f = "churns-on-resync" ->
           <<<< <<"record", "resync", "noop">>, Items>>,
             << <<"embed", "resync", "done">>, Items * Sections>>>>
      [] OTHER ->
           <<<< <<"record", "resync", "noop">>, Items>>,
             << <<"embed", "resync", "noop">>, Items * Sections>>>>)

ResetToSeededIndex(d) == [d EXCEPT !.files = (@ \ {"stamp"}) \cup {"index"}]

Restamp(f, d) ==
  [d EXCEPT !.files =
     (IF f = "abandons-foreign-stamp" /\ "index" \in @
      THEN (@ \ {"index"}) \cup {"sidelined"} ELSE @) \cup {"stamp"}]

Perturb(f, d, what) ==
  CASE what = "edit-one-item" -> Edit(f, d)
    [] what = "resume-embedding" -> ResumeEmbedding(f, d)
    [] what = "resync-identical-bytes" -> Resync(f, d)
    [] what = "reset-to-seeded-index" -> ResetToSeededIndex(d)
    [] what \in {"restamp-older", "restamp-newer"} -> Restamp(f, d)
=============================================================================
