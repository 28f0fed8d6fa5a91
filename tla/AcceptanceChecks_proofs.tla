----------------------- MODULE AcceptanceChecks_proofs -----------------------
(* The verdicts of the acceptance layer are earned, for every library, any *)
(* set of instrument failures and every timing of the target's worker.     *)
(* Each assertion is a script, so the invariant says, for each of them, by *)
(* the position in its script, what the target has come to and what the    *)
(* assertion has seen of it (EgressGoes ... StampGoes); at the end of the  *)
(* script that is what its verdict is read from (Judges).                  *)
EXTENDS AcceptanceChecks, SequenceTheorems, TLAPS

-----------------------------------------------------------------------------
(* AcceptanceTarget: what each operation does to a data directory.         *)
Files == {"ledger", "index", "stray", "survivor", "paused", "stamp", "sidelined"}
Amount == Nat \ {0}
Batch == Counters \X Amount
Works == [Counters -> Nat]
Data == [files : SUBSET Files, work : Works, pending : Seq(Batch), edited : BOOLEAN,
         live : Int, company : BOOLEAN, corrupt : BOOLEAN]
Perturbations == {"edit-one-item", "resume-embedding", "resync-identical-bytes",
                  "reset-to-seeded-index", "restamp-older", "restamp-newer"}

LEMMA Amounts == /\ Items \in Amount /\ Sections \in Amount /\ 1 \in Amount /\ Items * Sections \in Amount
                 /\ Items * Sections # Sections
<1>1. Items \in Nat /\ Items >= 2 /\ Sections \in Nat /\ Sections >= 1
  BY LibraryAssumption
<1>2. \A n, m \in Nat : n >= 2 /\ m >= 1 => n * m \in Nat /\ n * m > m
  OBVIOUS
<1>3. Items * Sections \in Nat /\ Items * Sections > Sections
  BY <1>1, <1>2
<1> QED BY <1>1, <1>3 DEF Amount

LEMMA EmptyData == /\ Empty \in Data /\ [Empty EXCEPT !.files = {"index", "stray"}] \in Data
<1>1. <<>> \in Seq(Batch) /\ NoWork \in Works
  BY DEF NoWork, Works
<1>2. Empty \in Data
  BY <1>1 DEF Empty, Data
<1>3. {"index", "stray"} \in SUBSET Files
  BY DEF Files
<1> QED BY <1>2, <1>3 DEF Data

LEMMA CountersAre ==
  /\ \A s \in Stages, t \in Triggers, o \in {"done", "noop"} : <<s, t, o>> \in Counters
  /\ \A c \in Counters : c = <<c[1], c[2], c[3]>> /\ c[1] \in Stages /\ c[2] \in Triggers /\ c[3] \in {"done", "noop"}
BY DEF Counters

LEMMA RecomputeBatches ==
  ASSUME NEW t \in Triggers, NEW r \in Amount, NEW s \in Amount
  PROVE  /\ Recompute(t, r, s) \in Seq(Batch) /\ Len(Recompute(t, r, s)) = 2
         /\ Recompute(t, r, s)[1] = << <<"record", t, "done">>, r>>
         /\ Recompute(t, r, s)[2] = << <<"embed", t, "done">>, s>>
<1>1. <<"record", t, "done">> \in Counters /\ <<"embed", t, "done">> \in Counters
  BY CountersAre DEF Stages
<1> QED BY <1>1 DEF Recompute, Batch

LEMMA NoticeDoes ==
  ASSUME NEW f, NEW d \in Data, NEW b \in Seq(Batch)
  PROVE  LET e == Notice(f, d, b) IN
         /\ e \in Data
         /\ e.work = d.work /\ e.edited = d.edited /\ e.live = d.live /\ e.company = d.company /\ e.corrupt = d.corrupt
         /\ IsPaused(f, d) => e = d
         /\ ~IsPaused(f, d) => e.files = d.files \cup {"ledger"} /\ e.pending = d.pending \o b
<1>1. CASE IsPaused(f, d)
  BY <1>1 DEF Notice
<1>2. CASE ~IsPaused(f, d)
  <2>1. Notice(f, d, b) = [d EXCEPT !.files = @ \cup {"ledger"}, !.pending = @ \o b]
    BY <1>2 DEF Notice
  <2>2. d.pending \o b \in Seq(Batch) /\ d.files \cup {"ledger"} \in SUBSET Files
    BY DEF Data, Files
  <2> QED BY <1>2, <2>1, <2>2 DEF Data
<1> QED BY <1>1, <1>2

LEMMA WorkDoes ==
  ASSUME NEW f, NEW d \in Data, CanWork(f, d)
  PROVE  LET e == Work(d) IN
         /\ e \in Data
         /\ e.files = d.files /\ e.edited = d.edited /\ e.live = d.live /\ e.company = d.company /\ e.corrupt = d.corrupt
         /\ d.pending # <<>> /\ e.pending = Tail(d.pending) /\ d.pending[1] \in Batch
         /\ \A c \in Counters : e.work[c] = d.work[c] + IF c = d.pending[1][1] THEN d.pending[1][2] ELSE 0
<1> DEFINE batch == d.pending[1]
<1>1. d.pending \in Seq(Batch) /\ d.pending # <<>> /\ d.work \in Works
  BY DEF CanWork, Data
<1>2. batch \in Batch /\ Tail(d.pending) \in Seq(Batch)
  BY <1>1
<1>3. batch[1] \in Counters /\ batch[2] \in Nat
  BY <1>2 DEF Batch, Amount
<1> HIDE DEF batch
<1>4. Work(d) = [d EXCEPT !.work[batch[1]] = @ + batch[2], !.pending = Tail(@)]
  BY DEF Work, batch
<1>5. [d.work EXCEPT ![batch[1]] = @ + batch[2]] \in Works
  BY <1>1, <1>3 DEF Works
<1>6. /\ Work(d).work = [d.work EXCEPT ![batch[1]] = @ + batch[2]] /\ Work(d).pending = Tail(d.pending)
      /\ Work(d).files = d.files /\ Work(d).edited = d.edited /\ Work(d).live = d.live
      /\ Work(d).company = d.company /\ Work(d).corrupt = d.corrupt
      /\ Work(d) \in Data
  BY <1>2, <1>4, <1>5 DEF Data
<1>7. \A c \in Counters : Work(d).work[c] = d.work[c] + IF c = batch[1] THEN batch[2] ELSE 0
  BY <1>1, <1>3, <1>6 DEF Works
<1> QED BY <1>1, <1>2, <1>6, <1>7 DEF batch

LEMMA StartDoes ==
  ASSUME NEW f, NEW d \in Data
  PROVE  LET e == Start(f, d) IN
         /\ e \in Data
         /\ e.work = d.work /\ e.edited = d.edited /\ e.corrupt = d.corrupt
         /\ e.files \ {"ledger", "paused"} = d.files \ {"ledger", "paused"}
         /\ "paused" \in e.files <=> "paused" \in d.files /\ f # "forgets-pause-on-restart"
         /\ "ledger" \in d.files => "ledger" \in e.files
         /\ ~IsPaused(f, d) => "ledger" \in e.files
         /\ IsPaused(f, d) \/ ("ledger" \in d.files /\ f # "duplicates-work-on-company") => e.pending = d.pending
         /\ ~IsPaused(f, d) /\ f = "duplicates-work-on-company" /\ d.pending = <<>> =>
              e.pending # <<>> /\ e.pending[1][1][3] = "done"
         /\ f # "corrupts-on-company" => e.live = d.live /\ e.company = d.company
         /\ f = "corrupts-on-company" /\ "paused" \notin d.files =>
              e.live = d.live + 1 /\ (e.company <=> d.company \/ d.live >= 1)
<1> DEFINE new == Recompute("new", Items, Items * Sections)
           a == FirstBuild(f, d)
           b == Join(f, a)
<1>1. new \in Seq(Batch) /\ new # <<>> /\ new[1][1][3] = "done" /\ <<>> \o new = new
  <2>1. /\ new \in Seq(Batch) /\ Len(new) = 2
        /\ new[1] = << <<"record", "new", "done">>, Items>>
    <3>1. "new" \in Triggers
      BY DEF Triggers
    <3>2. Items \in Amount /\ Items * Sections \in Amount
      BY Amounts
    <3> QED BY <3>1, <3>2, RecomputeBatches
  <2> HIDE DEF new
  <2> QED BY <2>1
<1> HIDE DEF new
<1>2. /\ a \in Data
      /\ a.work = d.work /\ a.edited = d.edited /\ a.corrupt = d.corrupt /\ a.live = d.live /\ a.company = d.company
      /\ a.files \in {d.files, d.files \cup {"ledger"}}
      /\ ~IsPaused(f, d) => "ledger" \in a.files
      /\ IsPaused(f, d) \/ ("ledger" \in d.files /\ f # "duplicates-work-on-company") => a.pending = d.pending
      /\ ~IsPaused(f, d) /\ f = "duplicates-work-on-company" => a.pending = d.pending \o new
  <2>1. CASE "ledger" \in d.files /\ f # "duplicates-work-on-company"
    BY <2>1 DEF FirstBuild
  <2>2. CASE ~("ledger" \in d.files /\ f # "duplicates-work-on-company")
    <3>1. a = Notice(f, d, new)
      BY <2>2 DEF FirstBuild, new
    <3> QED BY <1>1, <2>2, <3>1, NoticeDoes
  <2> QED BY <2>1, <2>2
<1> HIDE DEF a
<1>3. /\ b \in Data /\ b.files = a.files /\ b.work = a.work /\ b.pending = a.pending /\ b.edited = a.edited
      /\ b.corrupt = a.corrupt
      /\ f # "corrupts-on-company" => b = a
      /\ f = "corrupts-on-company" /\ "ledger" \in a.files /\ ~IsPaused(f, a) =>
           b.live = a.live + 1 /\ (b.company <=> a.company \/ a.live >= 1)
  <2> DEFINE met == a.company \/ a.live >= 1
             joins == f = "corrupts-on-company" /\ "ledger" \in a.files /\ ~IsPaused(f, a)
  <2>1. b = IF joins THEN [a EXCEPT !.live = a.live + 1, !.company = met] ELSE a
    BY DEF Join
  <2>2. met \in BOOLEAN /\ a \in Data /\ a.live + 1 \in Int
    BY <1>2 DEF Data
  <2> HIDE DEF met, b
  <2>3. CASE joins
    <3>1. /\ b \in Data /\ b.files = a.files /\ b.work = a.work /\ b.pending = a.pending /\ b.edited = a.edited
          /\ b.corrupt = a.corrupt /\ b.live = a.live + 1 /\ b.company = met
      BY <2>1, <2>2, <2>3 DEF Data
    <3> QED BY <2>3, <3>1 DEF met
  <2>4. CASE ~joins
    BY <2>1, <2>2, <2>4
  <2> QED BY <2>3, <2>4
<1> HIDE DEF b
<1>4. /\ Start(f, d) = Forget(f, b)
      /\ Forget(f, b) = IF f = "forgets-pause-on-restart" THEN [b EXCEPT !.files = @ \ {"paused"}] ELSE b
  BY DEF Start, Forget, a, b
<1>5. /\ Start(f, d) \in Data /\ Start(f, d).work = b.work /\ Start(f, d).pending = b.pending
      /\ Start(f, d).edited = b.edited /\ Start(f, d).corrupt = b.corrupt
      /\ Start(f, d).live = b.live /\ Start(f, d).company = b.company
      /\ Start(f, d).files = IF f = "forgets-pause-on-restart" THEN b.files \ {"paused"} ELSE b.files
  BY <1>3, <1>4 DEF Data
<1>6. IsPaused(f, d) <=> f # "ignores-pause" /\ "paused" \in d.files
  BY DEF IsPaused
<1>7. IsPaused(f, a) <=> IsPaused(f, d)
  BY <1>2, <1>6 DEF IsPaused
<1> DEFINE e == Start(f, d)
<1> HIDE DEF e
<1>8. /\ e \in Data
      /\ e.work = d.work /\ e.edited = d.edited /\ e.corrupt = d.corrupt
      /\ f # "corrupts-on-company" => e.live = d.live /\ e.company = d.company
  BY <1>2, <1>3, <1>5 DEF e
<1>9. /\ e.files \ {"ledger", "paused"} = d.files \ {"ledger", "paused"}
      /\ "paused" \in e.files <=> "paused" \in d.files /\ f # "forgets-pause-on-restart"
      /\ "ledger" \in d.files => "ledger" \in e.files
      /\ ~IsPaused(f, d) => "ledger" \in e.files
  BY <1>2, <1>3, <1>5 DEF e
<1>10. /\ IsPaused(f, d) \/ ("ledger" \in d.files /\ f # "duplicates-work-on-company") => e.pending = d.pending
       /\ ~IsPaused(f, d) /\ f = "duplicates-work-on-company" /\ d.pending = <<>> =>
            e.pending # <<>> /\ e.pending[1][1][3] = "done"
  <2>1. /\ IsPaused(f, d) \/ ("ledger" \in d.files /\ f # "duplicates-work-on-company") => e.pending = d.pending
        /\ ~IsPaused(f, d) /\ f = "duplicates-work-on-company" => e.pending = d.pending \o new
    BY <1>2, <1>3, <1>5 DEF e
  <2> QED BY <1>1, <2>1
<1>11. ASSUME f = "corrupts-on-company", "paused" \notin d.files
       PROVE  e.live = d.live + 1 /\ (e.company <=> d.company \/ d.live >= 1)
  <2>1. ~IsPaused(f, d) /\ ~IsPaused(f, a) /\ "ledger" \in a.files
    BY <1>2, <1>6, <1>7, <1>11
  <2> QED BY <1>2, <1>3, <1>5, <1>11, <2>1 DEF e
<1> QED BY <1>8, <1>9, <1>10, <1>11 DEF e

LEMMA StopDoes ==
  ASSUME NEW f, NEW d \in Data
  PROVE  LET e == Stop(f, d) IN
         /\ e \in Data
         /\ e.files = d.files /\ e.work = d.work /\ e.pending = d.pending /\ e.edited = d.edited /\ e.company = d.company
         /\ f # "corrupts-on-company" => e = d
         /\ f = "corrupts-on-company" /\ "ledger" \in d.files /\ "paused" \notin d.files =>
              e.live = d.live - 1 /\ (e.corrupt <=> d.corrupt \/ (d.live <= 1 /\ d.company))
         /\ e.corrupt => d.corrupt \/ d.company
<1> DEFINE harmed == d.corrupt \/ (d.live <= 1 /\ d.company)
           stops == f = "corrupts-on-company" /\ "ledger" \in d.files /\ ~IsPaused(f, d)
           e == Stop(f, d)
<1>1. e = IF stops THEN [d EXCEPT !.live = d.live - 1, !.corrupt = harmed] ELSE d
  BY DEF Stop
<1>2. harmed \in BOOLEAN /\ d.live - 1 \in Int
  BY DEF Data
<1>3. f = "corrupts-on-company" /\ "ledger" \in d.files /\ "paused" \notin d.files => stops
  BY DEF IsPaused
<1> HIDE DEF harmed, e
<1>4. CASE stops
  <2>1. /\ e \in Data /\ e.files = d.files /\ e.work = d.work /\ e.pending = d.pending /\ e.edited = d.edited
        /\ e.company = d.company /\ e.live = d.live - 1 /\ e.corrupt = harmed
    BY <1>1, <1>2, <1>4 DEF Data
  <2> QED BY <1>4, <2>1 DEF harmed, e
<1>5. CASE ~stops
  <2>1. e = d
    BY <1>1, <1>5
  <2> QED BY <1>3, <1>5, <2>1 DEF e
<1> QED BY <1>4, <1>5

(* A verb or a perturbation leaves the counters, and who uses them, alone. *)
Quietly(d, e) ==
  e \in Data /\ e.work = d.work /\ e.live = d.live /\ e.company = d.company /\ e.corrupt = d.corrupt

LEMMA InstallDoes ==
  ASSUME NEW f, NEW d \in Data
  PROVE  LET e == Install(f, d) IN
         /\ Quietly(d, e) /\ e.pending = d.pending /\ e.edited = d.edited
         /\ e.files = d.files \cup {"index"} \cup (IF f = "strays" THEN {"stray"} ELSE {})
<1> DEFINE files == d.files \cup {"index"} \cup (IF f = "strays" THEN {"stray"} ELSE {})
<1>1. files \in SUBSET Files
  BY DEF Data, Files
<1>2. Install(f, d) = [d EXCEPT !.files = files]
  BY DEF Install
<1> HIDE DEF files
<1>3. /\ Quietly(d, Install(f, d)) /\ Install(f, d).pending = d.pending /\ Install(f, d).edited = d.edited
      /\ Install(f, d).files = files
  BY <1>1, <1>2 DEF Data, Quietly
<1> QED BY <1>3 DEF files

LEMMA PauseDoes ==
  ASSUME NEW d \in Data
  PROVE  LET e == Pause(d) IN
         /\ Quietly(d, e) /\ e.pending = d.pending /\ e.edited = d.edited
         /\ e.files = d.files \cup {"paused"}
<1>1. d.files \cup {"paused"} \in SUBSET Files
  BY DEF Data, Files
<1> QED BY <1>1 DEF Data, Quietly, Pause

LEMMA UninstallDoes ==
  ASSUME NEW f, NEW d \in Data
  PROVE  LET e == Uninstall(f, d) IN
         /\ e \in Data /\ e.edited = d.edited /\ e.live = d.live /\ e.company = d.company /\ e.corrupt = d.corrupt
         /\ e.pending = <<>>
         /\ e.files = (d.files \ Declared(f, d.files)) \cup (IF f = "uninstall-leaves-residue" THEN {"survivor"} ELSE {})
<1> DEFINE files == (d.files \ Declared(f, d.files)) \cup (IF f = "uninstall-leaves-residue" THEN {"survivor"} ELSE {})
           work == IF "ledger" \in Declared(f, d.files) THEN NoWork ELSE d.work
<1>1. files \in SUBSET Files /\ work \in Works /\ <<>> \in Seq(Batch)
  BY DEF Data, Files, NoWork, Works
<1>2. Uninstall(f, d) = [d EXCEPT !.files = files, !.work = work, !.pending = <<>>]
  BY DEF Uninstall
<1> HIDE DEF files, work
<1>3. /\ Uninstall(f, d) \in Data /\ Uninstall(f, d).edited = d.edited /\ Uninstall(f, d).live = d.live
      /\ Uninstall(f, d).company = d.company /\ Uninstall(f, d).corrupt = d.corrupt /\ Uninstall(f, d).pending = <<>>
      /\ Uninstall(f, d).files = files
  BY <1>1, <1>2 DEF Data
<1> QED BY <1>3 DEF files

(* What an edit of the library, or of the seeded index, leaves to do.      *)
EditsOne == {"edit-one-item", "resume-embedding"}
EditWork(f, w) ==
  IF w = "edit-one-item"
  THEN Recompute("edit", 1, IF f = "recomputes-whole-library-on-edit" THEN Items * Sections ELSE Sections)
  ELSE <<<< <<"embed", "build", "done">>, Sections>>>>

LEMMA EditWorks ==
  ASSUME NEW f, NEW w \in EditsOne
  PROVE  /\ EditWork(f, w) \in Seq(Batch) /\ EditWork(f, w) # <<>>
         /\ EditWork(f, w)[1] \in Batch /\ EditWork(f, w)[1][1][3] = "done"
<1>1. CASE w = "edit-one-item"
  <2> DEFINE n == IF f = "recomputes-whole-library-on-edit" THEN Items * Sections ELSE Sections
  <2>1. n \in Amount /\ 1 \in Amount
    BY Amounts
  <2>2. EditWork(f, w) = Recompute("edit", 1, n)
    BY <1>1 DEF EditWork
  <2> HIDE DEF n
  <2> QED BY <2>1, <2>2, RecomputeBatches DEF Triggers
<1>2. CASE w # "edit-one-item"
  <2>1. <<"embed", "build", "done">> \in Counters /\ Sections \in Amount
    BY CountersAre, Amounts DEF Stages, Triggers
  <2>2. EditWork(f, w) = <<<< <<"embed", "build", "done">>, Sections>>>>
    BY <1>2 DEF EditWork
  <2> QED BY <2>1, <2>2 DEF Batch
<1> QED BY <1>1, <1>2

LEMMA EditDoes ==
  ASSUME NEW f, NEW d \in Data, NEW w \in EditsOne
  PROVE  LET e == Perturb(f, d, w) IN
         /\ Quietly(d, e)
         /\ e.files \in {d.files, d.files \cup {"ledger"}}
         /\ IsPaused(f, d) \/ d.edited => e.pending = d.pending
         /\ ~d.edited => e.edited
         /\ ~IsPaused(f, d) /\ ~d.edited /\ d.pending = <<>> => e.pending = EditWork(f, w)
<1> DEFINE e == Perturb(f, d, w)
           n == Notice(f, d, EditWork(f, w))
<1>1. e = IF d.edited THEN d ELSE [n EXCEPT !.edited = TRUE]
  BY DEF Perturb, Edit, ResumeEmbedding, EditWork, EditsOne
<1>2. EditWork(f, w) \in Seq(Batch)
  BY EditWorks
<1>3. /\ n \in Data
      /\ n.work = d.work /\ n.edited = d.edited /\ n.live = d.live /\ n.company = d.company /\ n.corrupt = d.corrupt
      /\ IsPaused(f, d) => n = d
      /\ ~IsPaused(f, d) => n.files = d.files \cup {"ledger"}
      /\ ~IsPaused(f, d) /\ d.pending = <<>> => n.pending = EditWork(f, w)
  <2>1. <<>> \o EditWork(f, w) = EditWork(f, w)
    BY <1>2
  <2> QED BY <1>2, <2>1, NoticeDoes
<1> HIDE DEF e, n
<1>4. CASE d.edited
  BY <1>1, <1>4 DEF Quietly, e
<1>5. CASE ~d.edited
  <2>1. /\ e \in Data /\ e.edited /\ e.files = n.files /\ e.work = n.work /\ e.pending = n.pending
        /\ e.live = n.live /\ e.company = n.company /\ e.corrupt = n.corrupt
    BY <1>1, <1>3, <1>5 DEF Data
  <2> QED BY <1>3, <1>5, <2>1 DEF Quietly, e
<1> QED BY <1>4, <1>5

(* What a resync of identical bytes leaves to do.                          *)
ResyncWork(f) ==
  << << <<"record", "resync", "noop">>, Items>>,
     << <<"embed", "resync", IF f = "churns-on-resync" THEN "done" ELSE "noop">>, Items * Sections>> >>

LEMMA ResyncDoes ==
  ASSUME NEW f, NEW d \in Data
  PROVE  LET e == Perturb(f, d, "resync-identical-bytes") IN
         /\ Quietly(d, e)
         /\ e.files \in {d.files, d.files \cup {"ledger"}}
         /\ e.edited = d.edited
         /\ ResyncWork(f) \in Seq(Batch)
         /\ f = "verifies-nothing-on-resync" => e.pending = d.pending
         /\ f # "verifies-nothing-on-resync" /\ ~IsPaused(f, d) /\ d.pending = <<>> => e.pending = ResyncWork(f)
<1> DEFINE b == IF f = "verifies-nothing-on-resync" THEN <<>> ELSE ResyncWork(f)
<1>1. Perturb(f, d, "resync-identical-bytes") = Notice(f, d, b)
  BY DEF Perturb, Resync, ResyncWork
<1>2. /\ <<"record", "resync", "noop">> \in Counters /\ <<"embed", "resync", "noop">> \in Counters
      /\ <<"embed", "resync", "done">> \in Counters
  BY CountersAre DEF Stages, Triggers
<1>3. ResyncWork(f) \in Seq(Batch)
  BY <1>2, Amounts DEF ResyncWork, Batch
<1>4. b \in Seq(Batch)
  BY <1>3
<1>5. d.pending \o <<>> = d.pending /\ <<>> \o b = b
  BY <1>4 DEF Data
<1> HIDE DEF b
<1>6. LET e == Notice(f, d, b) IN
      /\ e \in Data
      /\ e.work = d.work /\ e.edited = d.edited /\ e.live = d.live /\ e.company = d.company /\ e.corrupt = d.corrupt
      /\ IsPaused(f, d) => e = d
      /\ ~IsPaused(f, d) => e.files = d.files \cup {"ledger"} /\ e.pending = d.pending \o b
  BY <1>4, NoticeDoes
<1> QED BY <1>1, <1>3, <1>5, <1>6 DEF b, Quietly

LEMMA RestampDoes ==
  ASSUME NEW f, NEW d \in Data, NEW w \in {"reset-to-seeded-index", "restamp-older", "restamp-newer"}
  PROVE  LET e == Perturb(f, d, w) IN
         /\ Quietly(d, e) /\ e.pending = d.pending /\ e.edited = d.edited
         /\ "stamp" \in e.files <=> w # "reset-to-seeded-index"
         /\ \A x \in {"ledger", "paused", "stray"} : x \in e.files <=> x \in d.files
<1> DEFINE files == IF w = "reset-to-seeded-index" THEN (d.files \ {"stamp"}) \cup {"index"}
                    ELSE (IF f = "abandons-foreign-stamp" /\ "index" \in d.files
                          THEN (d.files \ {"index"}) \cup {"sidelined"} ELSE d.files) \cup {"stamp"}
<1>1. Perturb(f, d, w) = [d EXCEPT !.files = files]
  BY DEF Perturb, ResetToSeededIndex, Restamp
<1>2. files \in SUBSET Files
  BY DEF Files, Data
<1>3. /\ "stamp" \in files <=> w # "reset-to-seeded-index"
      /\ \A x \in {"ledger", "paused", "stray"} : x \in files <=> x \in d.files
  OBVIOUS
<1> HIDE DEF files
<1>4. /\ Quietly(d, Perturb(f, d, w)) /\ Perturb(f, d, w).pending = d.pending
      /\ Perturb(f, d, w).edited = d.edited /\ Perturb(f, d, w).files = files
  BY <1>1, <1>2 DEF Data, Quietly
<1> QED BY <1>3, <1>4

-----------------------------------------------------------------------------
(* AcceptanceChecks: what each assertion calls, by position.               *)
LEMMA StepFields ==
  /\ \A do : First(do).who = "first" /\ First(do).do = do
  /\ \A who, do, as : S(who, do, as).who = who /\ S(who, do, as).do = do /\ S(who, do, as).as = as
  /\ \A who, as : Settle(who, as).who = who /\ Settle(who, as).do = "settle" /\ Settle(who, as).as = as
  /\ \A who, as : Query(who, as).who = who /\ Query(who, as).do = "query" /\ Query(who, as).as = as
BY DEF S, First, Settle, Query

LEMMA LocalPath ==
  ASSUME check = "local-by-default", pos \in 1..Len(Script[check])
  PROVE  /\ Len(Script[check]) = 4 /\ pos \in 1..4
         /\ Step.do = "start" => pos = 1
         /\ Step.do = "configure" => pos = 2
         /\ Step.do = "status" => pos = 3
         /\ Step.do = "stop" => pos = 4
         /\ Step.do \in {"start", "configure", "status", "stop"}
         /\ Step.who = "first"
<1>1. Script[check] = LocalByDefault
  BY DEF Script, Checks
<1>2. Len(LocalByDefault) = 4
  BY DEF LocalByDefault
<1>3. /\ LocalByDefault[1] = First("start") /\ LocalByDefault[2] = First("configure")
      /\ LocalByDefault[3] = First("status") /\ LocalByDefault[4] = First("stop")
  BY DEF LocalByDefault
<1>4. /\ LocalByDefault[1].do = "start" /\ LocalByDefault[1].who = "first"
      /\ LocalByDefault[2].do = "configure" /\ LocalByDefault[2].who = "first"
      /\ LocalByDefault[3].do = "status" /\ LocalByDefault[3].who = "first"
      /\ LocalByDefault[4].do = "stop" /\ LocalByDefault[4].who = "first"
  BY <1>3, StepFields
<1>5. pos \in 1..4 /\ Step = LocalByDefault[pos]
  BY <1>1, <1>2 DEF Step
<1> HIDE DEF LocalByDefault
<1> QED BY <1>1, <1>2, <1>4, <1>5

LEMMA EgressPath ==
  ASSUME check = "no-egress", pos \in 1..Len(Script[check])
  PROVE  /\ Len(Script[check]) = 4 /\ pos \in 1..4
         /\ Step.do = "choose" => pos = 1
         /\ Step.do = "control-shared" => pos = 2
         /\ Step.do = "control-isolated" => pos = 3
         /\ Step.do = "subject" => pos = 4
         /\ Step.do \in {"choose", "control-shared", "control-isolated", "subject"}
         /\ Step.who = "first"
<1>1. Script[check] = NoEgress
  BY DEF Script, Checks
<1>2. Len(NoEgress) = 4
  BY DEF NoEgress
<1>3. /\ NoEgress[1] = First("choose") /\ NoEgress[2] = First("control-shared")
      /\ NoEgress[3] = First("control-isolated") /\ NoEgress[4] = First("subject")
  BY DEF NoEgress
<1>4. /\ NoEgress[1].do = "choose" /\ NoEgress[1].who = "first"
      /\ NoEgress[2].do = "control-shared" /\ NoEgress[2].who = "first"
      /\ NoEgress[3].do = "control-isolated" /\ NoEgress[3].who = "first"
      /\ NoEgress[4].do = "subject" /\ NoEgress[4].who = "first"
  BY <1>3, StepFields
<1>5. pos \in 1..4 /\ Step = NoEgress[pos]
  BY <1>1, <1>2 DEF Step
<1> HIDE DEF NoEgress
<1> QED BY <1>1, <1>2, <1>4, <1>5

LEMMA ResiduePath ==
  ASSUME check = "residue-inventory", pos \in 1..Len(Script[check])
  PROVE  /\ Len(Script[check]) = 4 /\ pos \in 1..4
         /\ Step.do = "sweep" => pos = 1
         /\ Step.do = "start" => pos = 2
         /\ Step.do = "install" => pos = 3
         /\ Step.do = "stop" => pos = 4
         /\ Step.do \in {"sweep", "start", "install", "stop"}
         /\ Step.who = "first"
<1>1. Script[check] = ResidueInventory
  BY DEF Script, Checks
<1>2. Len(ResidueInventory) = 4
  BY DEF ResidueInventory
<1>3. /\ ResidueInventory[1] = First("sweep") /\ ResidueInventory[2] = First("start")
      /\ ResidueInventory[3] = First("install") /\ ResidueInventory[4] = First("stop")
  BY DEF ResidueInventory
<1>4. /\ ResidueInventory[1].do = "sweep" /\ ResidueInventory[1].who = "first"
      /\ ResidueInventory[2].do = "start" /\ ResidueInventory[2].who = "first"
      /\ ResidueInventory[3].do = "install" /\ ResidueInventory[3].who = "first"
      /\ ResidueInventory[4].do = "stop" /\ ResidueInventory[4].who = "first"
  BY <1>3, StepFields
<1>5. pos \in 1..4 /\ Step = ResidueInventory[pos]
  BY <1>1, <1>2 DEF Step
<1> HIDE DEF ResidueInventory
<1> QED BY <1>1, <1>2, <1>4, <1>5

LEMMA CachePath ==
  ASSUME check = "model-cache", pos \in 1..Len(Script[check])
  PROVE  /\ Len(Script[check]) = 7 /\ pos \in 1..7
         /\ Step.do = "sweep" => pos = 1
         /\ Step.do = "start" => pos = 2
         /\ Step.do = "install" => pos = 3
         /\ Step.do = "configure" => pos = 4
         /\ Step.do = "query" => pos = 5
         /\ Step.do = "status" => pos = 6
         /\ Step.do = "stop" => pos = 7
         /\ Step.do \in {"sweep", "start", "install", "configure", "query", "status", "stop"}
         /\ Step.who = "first"
         /\ pos = 5 => Step.as = "exercised"
<1>1. Script[check] = ModelCache
  BY DEF Script, Checks
<1>2. Len(ModelCache) = 7
  BY DEF ModelCache
<1>3. /\ ModelCache[1] = First("sweep") /\ ModelCache[2] = First("start")
      /\ ModelCache[3] = First("install") /\ ModelCache[4] = First("configure")
      /\ ModelCache[5] = Query("first", "exercised") /\ ModelCache[6] = First("status")
      /\ ModelCache[7] = First("stop")
  BY DEF ModelCache
<1>4. /\ ModelCache[1].do = "sweep" /\ ModelCache[1].who = "first"
      /\ ModelCache[2].do = "start" /\ ModelCache[2].who = "first"
      /\ ModelCache[3].do = "install" /\ ModelCache[3].who = "first"
      /\ ModelCache[4].do = "configure" /\ ModelCache[4].who = "first"
      /\ ModelCache[5].do = "query" /\ ModelCache[5].who = "first" /\ ModelCache[5].as = "exercised"
      /\ ModelCache[6].do = "status" /\ ModelCache[6].who = "first"
      /\ ModelCache[7].do = "stop" /\ ModelCache[7].who = "first"
  BY <1>3, StepFields
<1>5. pos \in 1..7 /\ Step = ModelCache[pos]
  BY <1>1, <1>2 DEF Step
<1> HIDE DEF ModelCache
<1> QED BY <1>1, <1>2, <1>4, <1>5

LEMMA UninstallPath ==
  ASSUME check = "uninstall", pos \in 1..Len(Script[check])
  PROVE  /\ Len(Script[check]) = 4 /\ pos \in 1..4
         /\ Step.do = "start" => pos = 1
         /\ Step.do = "install" => pos = 2
         /\ Step.do = "uninstall" => pos = 3
         /\ Step.do = "stop" => pos = 4
         /\ Step.do \in {"start", "install", "uninstall", "stop"}
         /\ Step.who = "first"
<1>1. Script[check] = UninstallRemoves
  BY DEF Script, Checks
<1>2. Len(UninstallRemoves) = 4
  BY DEF UninstallRemoves
<1>3. /\ UninstallRemoves[1] = First("start") /\ UninstallRemoves[2] = First("install")
      /\ UninstallRemoves[3] = First("uninstall") /\ UninstallRemoves[4] = First("stop")
  BY DEF UninstallRemoves
<1>4. /\ UninstallRemoves[1].do = "start" /\ UninstallRemoves[1].who = "first"
      /\ UninstallRemoves[2].do = "install" /\ UninstallRemoves[2].who = "first"
      /\ UninstallRemoves[3].do = "uninstall" /\ UninstallRemoves[3].who = "first"
      /\ UninstallRemoves[4].do = "stop" /\ UninstallRemoves[4].who = "first"
  BY <1>3, StepFields
<1>5. pos \in 1..4 /\ Step = UninstallRemoves[pos]
  BY <1>1, <1>2 DEF Step
<1> HIDE DEF UninstallRemoves
<1> QED BY <1>1, <1>2, <1>4, <1>5

LEMMA StopsPath ==
  ASSUME check = "pause-stops", pos \in 1..Len(Script[check])
  PROVE  /\ Len(Script[check]) = 18 /\ pos \in 1..18
         /\ Step.do = "independent" <=> pos = 1
         /\ Step.do = "start" <=> pos \in {2, 10}
         /\ Step.do = "counters" <=> pos \in {3, 11}
         /\ Step.do = "install" <=> pos \in {4, 12}
         /\ Step.do = "settle" <=> pos \in {5, 7, 13, 15, 17}
         /\ Step.do = "background" <=> pos = 6
         /\ Step.do = "stop" <=> pos \in {8, 18}
         /\ Step.do = "created" <=> pos = 9
         /\ Step.do = "pause" <=> pos = 14
         /\ Step.do = "same" <=> pos = 16
         /\ Step.do \in {"independent", "start", "counters", "install", "settle", "background", "stop", "created", "pause", "same"}
         /\ Step.who = "control" <=> pos <= 9
         /\ Step.who \in {"control", "first"}
         /\ pos = 5 => Step.as = "before"
         /\ pos = 7 => Step.as = "after"
         /\ pos = 13 => Step.as = "before"
         /\ pos = 15 => Step.as = "before"
         /\ pos = 17 => Step.as = "after"
<1>1. Script[check] = PauseStops
  BY DEF Script, Checks
<1>2. Len(PauseStops) = 18
  BY DEF PauseStops, TheChangeCreatesWork, Counted
<1>3. /\ PauseStops[1] = S("control", "independent", "none") /\ PauseStops[2] = S("control", "start", "none")
      /\ PauseStops[3] = S("control", "counters", "none") /\ PauseStops[4] = S("control", "install", "none")
      /\ PauseStops[5] = Settle("control", "before") /\ PauseStops[6] = S("control", "background", "none")
      /\ PauseStops[7] = Settle("control", "after") /\ PauseStops[8] = S("control", "stop", "none")
      /\ PauseStops[9] = S("control", "created", "none") /\ PauseStops[10] = First("start")
      /\ PauseStops[11] = First("counters") /\ PauseStops[12] = First("install")
      /\ PauseStops[13] = Settle("first", "before") /\ PauseStops[14] = First("pause")
      /\ PauseStops[15] = Settle("first", "before") /\ PauseStops[16] = First("same")
      /\ PauseStops[17] = Settle("first", "after") /\ PauseStops[18] = First("stop")
  BY DEF PauseStops, TheChangeCreatesWork, Counted
<1>4. /\ PauseStops[1].do = "independent" /\ PauseStops[1].who = "control"
      /\ PauseStops[2].do = "start" /\ PauseStops[2].who = "control"
      /\ PauseStops[3].do = "counters" /\ PauseStops[3].who = "control"
      /\ PauseStops[4].do = "install" /\ PauseStops[4].who = "control"
      /\ PauseStops[5].do = "settle" /\ PauseStops[5].who = "control" /\ PauseStops[5].as = "before"
      /\ PauseStops[6].do = "background" /\ PauseStops[6].who = "control"
      /\ PauseStops[7].do = "settle" /\ PauseStops[7].who = "control" /\ PauseStops[7].as = "after"
      /\ PauseStops[8].do = "stop" /\ PauseStops[8].who = "control"
      /\ PauseStops[9].do = "created" /\ PauseStops[9].who = "control"
      /\ PauseStops[10].do = "start" /\ PauseStops[10].who = "first"
      /\ PauseStops[11].do = "counters" /\ PauseStops[11].who = "first"
      /\ PauseStops[12].do = "install" /\ PauseStops[12].who = "first"
      /\ PauseStops[13].do = "settle" /\ PauseStops[13].who = "first" /\ PauseStops[13].as = "before"
      /\ PauseStops[14].do = "pause" /\ PauseStops[14].who = "first"
      /\ PauseStops[15].do = "settle" /\ PauseStops[15].who = "first" /\ PauseStops[15].as = "before"
      /\ PauseStops[16].do = "same" /\ PauseStops[16].who = "first"
      /\ PauseStops[17].do = "settle" /\ PauseStops[17].who = "first" /\ PauseStops[17].as = "after"
      /\ PauseStops[18].do = "stop" /\ PauseStops[18].who = "first"
  BY <1>3, StepFields
<1>5. pos \in 1..18 /\ Step = PauseStops[pos]
  BY <1>1, <1>2 DEF Step
<1> HIDE DEF PauseStops
<1> QED BY <1>1, <1>2, <1>4, <1>5

LEMMA HoldsPath ==
  ASSUME check = "pause-holds", pos \in 1..Len(Script[check])
  PROVE  /\ Len(Script[check]) = 22 /\ pos \in 1..22
         /\ Step.do = "independent" <=> pos = 1
         /\ Step.do = "start" <=> pos \in {2, 10, 17}
         /\ Step.do = "counters" <=> pos \in {3, 11, 18}
         /\ Step.do = "install" <=> pos \in {4, 12}
         /\ Step.do = "settle" <=> pos \in {5, 7, 13, 15, 19, 21}
         /\ Step.do = "background" <=> pos = 6
         /\ Step.do = "stop" <=> pos \in {8, 16, 22}
         /\ Step.do = "created" <=> pos = 9
         /\ Step.do = "pause" <=> pos = 14
         /\ Step.do = "same" <=> pos = 20
         /\ Step.do \in {"independent", "start", "counters", "install", "settle", "background", "stop", "created", "pause", "same"}
         /\ Step.who = "control" <=> pos <= 9
         /\ Step.who \in {"control", "first"}
         /\ pos = 5 => Step.as = "before"
         /\ pos = 7 => Step.as = "after"
         /\ pos = 13 => Step.as = "before"
         /\ pos = 15 => Step.as = "before"
         /\ pos = 19 => Step.as = "before"
         /\ pos = 21 => Step.as = "after"
<1>1. Script[check] = PauseHolds
  BY DEF Script, Checks
<1>2. Len(PauseHolds) = 22
  BY DEF PauseHolds, TheChangeCreatesWork, Counted
<1>3. /\ PauseHolds[1] = S("control", "independent", "none") /\ PauseHolds[2] = S("control", "start", "none")
      /\ PauseHolds[3] = S("control", "counters", "none") /\ PauseHolds[4] = S("control", "install", "none")
      /\ PauseHolds[5] = Settle("control", "before") /\ PauseHolds[6] = S("control", "background", "none")
      /\ PauseHolds[7] = Settle("control", "after") /\ PauseHolds[8] = S("control", "stop", "none")
      /\ PauseHolds[9] = S("control", "created", "none") /\ PauseHolds[10] = First("start")
      /\ PauseHolds[11] = First("counters") /\ PauseHolds[12] = First("install")
      /\ PauseHolds[13] = Settle("first", "before") /\ PauseHolds[14] = First("pause")
      /\ PauseHolds[15] = Settle("first", "before") /\ PauseHolds[16] = First("stop")
      /\ PauseHolds[17] = First("start") /\ PauseHolds[18] = First("counters")
      /\ PauseHolds[19] = Settle("first", "before") /\ PauseHolds[20] = First("same")
      /\ PauseHolds[21] = Settle("first", "after") /\ PauseHolds[22] = First("stop")
  BY DEF PauseHolds, TheChangeCreatesWork, Counted
<1>4. /\ PauseHolds[1].do = "independent" /\ PauseHolds[1].who = "control"
      /\ PauseHolds[2].do = "start" /\ PauseHolds[2].who = "control"
      /\ PauseHolds[3].do = "counters" /\ PauseHolds[3].who = "control"
      /\ PauseHolds[4].do = "install" /\ PauseHolds[4].who = "control"
      /\ PauseHolds[5].do = "settle" /\ PauseHolds[5].who = "control" /\ PauseHolds[5].as = "before"
      /\ PauseHolds[6].do = "background" /\ PauseHolds[6].who = "control"
      /\ PauseHolds[7].do = "settle" /\ PauseHolds[7].who = "control" /\ PauseHolds[7].as = "after"
      /\ PauseHolds[8].do = "stop" /\ PauseHolds[8].who = "control"
      /\ PauseHolds[9].do = "created" /\ PauseHolds[9].who = "control"
      /\ PauseHolds[10].do = "start" /\ PauseHolds[10].who = "first"
      /\ PauseHolds[11].do = "counters" /\ PauseHolds[11].who = "first"
      /\ PauseHolds[12].do = "install" /\ PauseHolds[12].who = "first"
      /\ PauseHolds[13].do = "settle" /\ PauseHolds[13].who = "first" /\ PauseHolds[13].as = "before"
      /\ PauseHolds[14].do = "pause" /\ PauseHolds[14].who = "first"
      /\ PauseHolds[15].do = "settle" /\ PauseHolds[15].who = "first" /\ PauseHolds[15].as = "before"
      /\ PauseHolds[16].do = "stop" /\ PauseHolds[16].who = "first"
      /\ PauseHolds[17].do = "start" /\ PauseHolds[17].who = "first"
      /\ PauseHolds[18].do = "counters" /\ PauseHolds[18].who = "first"
      /\ PauseHolds[19].do = "settle" /\ PauseHolds[19].who = "first" /\ PauseHolds[19].as = "before"
      /\ PauseHolds[20].do = "same" /\ PauseHolds[20].who = "first"
      /\ PauseHolds[21].do = "settle" /\ PauseHolds[21].who = "first" /\ PauseHolds[21].as = "after"
      /\ PauseHolds[22].do = "stop" /\ PauseHolds[22].who = "first"
  BY <1>3, StepFields
<1>5. pos \in 1..22 /\ Step = PauseHolds[pos]
  BY <1>1, <1>2 DEF Step
<1> HIDE DEF PauseHolds
<1> QED BY <1>1, <1>2, <1>4, <1>5

LEMMA EditPath ==
  ASSUME check = "edit", pos \in 1..Len(Script[check])
  PROVE  /\ Len(Script[check]) = 6 /\ pos \in 1..6
         /\ Step.do = "start" => pos = 1
         /\ Step.do = "counters" => pos = 2
         /\ Step.do = "settle" => pos \in {3, 5}
         /\ Step.do = "perturb" => pos = 4
         /\ Step.do = "stop" => pos = 6
         /\ Step.do \in {"start", "counters", "settle", "perturb", "stop"}
         /\ Step.who = "first"
         /\ pos = 3 => Step.as = "before"
         /\ pos = 4 => Step.as = "edit-one-item"
         /\ pos = 5 => Step.as = "after"
<1>1. Script[check] = EditRecomputes
  BY DEF Script, Checks
<1>2. Len(EditRecomputes) = 6
  BY DEF EditRecomputes, Counted
<1>3. /\ EditRecomputes[1] = First("start") /\ EditRecomputes[2] = First("counters")
      /\ EditRecomputes[3] = Settle("first", "before") /\ EditRecomputes[4] = S("first", "perturb", "edit-one-item")
      /\ EditRecomputes[5] = Settle("first", "after") /\ EditRecomputes[6] = First("stop")
  BY DEF EditRecomputes, Counted
<1>4. /\ EditRecomputes[1].do = "start" /\ EditRecomputes[1].who = "first"
      /\ EditRecomputes[2].do = "counters" /\ EditRecomputes[2].who = "first"
      /\ EditRecomputes[3].do = "settle" /\ EditRecomputes[3].who = "first" /\ EditRecomputes[3].as = "before"
      /\ EditRecomputes[4].do = "perturb" /\ EditRecomputes[4].who = "first" /\ EditRecomputes[4].as = "edit-one-item"
      /\ EditRecomputes[5].do = "settle" /\ EditRecomputes[5].who = "first" /\ EditRecomputes[5].as = "after"
      /\ EditRecomputes[6].do = "stop" /\ EditRecomputes[6].who = "first"
  BY <1>3, StepFields
<1>5. pos \in 1..6 /\ Step = EditRecomputes[pos]
  BY <1>1, <1>2 DEF Step
<1> HIDE DEF EditRecomputes
<1> QED BY <1>1, <1>2, <1>4, <1>5

LEMMA ResyncPath ==
  ASSUME check = "resync", pos \in 1..Len(Script[check])
  PROVE  /\ Len(Script[check]) = 6 /\ pos \in 1..6
         /\ Step.do = "start" => pos = 1
         /\ Step.do = "counters" => pos = 2
         /\ Step.do = "settle" => pos \in {3, 5}
         /\ Step.do = "perturb" => pos = 4
         /\ Step.do = "stop" => pos = 6
         /\ Step.do \in {"start", "counters", "settle", "perturb", "stop"}
         /\ Step.who = "first"
         /\ pos = 3 => Step.as = "before"
         /\ pos = 4 => Step.as = "resync-identical-bytes"
         /\ pos = 5 => Step.as = "after"
<1>1. Script[check] = ResyncRecomputes
  BY DEF Script, Checks
<1>2. Len(ResyncRecomputes) = 6
  BY DEF ResyncRecomputes, Counted
<1>3. /\ ResyncRecomputes[1] = First("start") /\ ResyncRecomputes[2] = First("counters")
      /\ ResyncRecomputes[3] = Settle("first", "before") /\ ResyncRecomputes[4] = S("first", "perturb", "resync-identical-bytes")
      /\ ResyncRecomputes[5] = Settle("first", "after") /\ ResyncRecomputes[6] = First("stop")
  BY DEF ResyncRecomputes, Counted
<1>4. /\ ResyncRecomputes[1].do = "start" /\ ResyncRecomputes[1].who = "first"
      /\ ResyncRecomputes[2].do = "counters" /\ ResyncRecomputes[2].who = "first"
      /\ ResyncRecomputes[3].do = "settle" /\ ResyncRecomputes[3].who = "first" /\ ResyncRecomputes[3].as = "before"
      /\ ResyncRecomputes[4].do = "perturb" /\ ResyncRecomputes[4].who = "first" /\ ResyncRecomputes[4].as = "resync-identical-bytes"
      /\ ResyncRecomputes[5].do = "settle" /\ ResyncRecomputes[5].who = "first" /\ ResyncRecomputes[5].as = "after"
      /\ ResyncRecomputes[6].do = "stop" /\ ResyncRecomputes[6].who = "first"
  BY <1>3, StepFields
<1>5. pos \in 1..6 /\ Step = ResyncRecomputes[pos]
  BY <1>1, <1>2 DEF Step
<1> HIDE DEF ResyncRecomputes
<1> QED BY <1>1, <1>2, <1>4, <1>5

LEMMA BothPath ==
  ASSUME check = "both-answer", pos \in 1..Len(Script[check])
  PROVE  /\ Len(Script[check]) = 10 /\ pos \in 1..10
         /\ Step.do = "start" => pos \in {1, 3, 8}
         /\ Step.do = "query" => pos \in {2, 4, 5, 9}
         /\ Step.do = "stop" => pos \in {6, 7, 10}
         /\ Step.do \in {"start", "query", "stop"}
         /\ Step.who = "second" <=> pos \in {3, 4, 6}
         /\ Step.who \in {"first", "second"}
         /\ pos = 2 => Step.as = "alone"
         /\ pos = 4 => Step.as = "second"
         /\ pos = 5 => Step.as = "first"
         /\ pos = 9 => Step.as = "third"
<1>1. Script[check] = BothAnswer
  BY DEF Script, Checks
<1>2. Len(BothAnswer) = 10
  BY DEF BothAnswer
<1>3. /\ BothAnswer[1] = First("start") /\ BothAnswer[2] = Query("first", "alone")
      /\ BothAnswer[3] = S("second", "start", "none") /\ BothAnswer[4] = Query("second", "second")
      /\ BothAnswer[5] = Query("first", "first") /\ BothAnswer[6] = S("second", "stop", "none")
      /\ BothAnswer[7] = First("stop") /\ BothAnswer[8] = First("start")
      /\ BothAnswer[9] = Query("first", "third") /\ BothAnswer[10] = First("stop")
  BY DEF BothAnswer
<1>4. /\ BothAnswer[1].do = "start" /\ BothAnswer[1].who = "first"
      /\ BothAnswer[2].do = "query" /\ BothAnswer[2].who = "first" /\ BothAnswer[2].as = "alone"
      /\ BothAnswer[3].do = "start" /\ BothAnswer[3].who = "second"
      /\ BothAnswer[4].do = "query" /\ BothAnswer[4].who = "second" /\ BothAnswer[4].as = "second"
      /\ BothAnswer[5].do = "query" /\ BothAnswer[5].who = "first" /\ BothAnswer[5].as = "first"
      /\ BothAnswer[6].do = "stop" /\ BothAnswer[6].who = "second"
      /\ BothAnswer[7].do = "stop" /\ BothAnswer[7].who = "first"
      /\ BothAnswer[8].do = "start" /\ BothAnswer[8].who = "first"
      /\ BothAnswer[9].do = "query" /\ BothAnswer[9].who = "first" /\ BothAnswer[9].as = "third"
      /\ BothAnswer[10].do = "stop" /\ BothAnswer[10].who = "first"
  BY <1>3, StepFields
<1>5. pos \in 1..10 /\ Step = BothAnswer[pos]
  BY <1>1, <1>2 DEF Step
<1> HIDE DEF BothAnswer
<1> QED BY <1>1, <1>2, <1>4, <1>5

LEMMA DuplicatePath ==
  ASSUME check = "no-duplicate-work", pos \in 1..Len(Script[check])
  PROVE  /\ Len(Script[check]) = 8 /\ pos \in 1..8
         /\ Step.do = "start" => pos \in {1, 4}
         /\ Step.do = "counters" => pos = 2
         /\ Step.do = "settle" => pos \in {3, 5}
         /\ Step.do = "stop" => pos \in {6, 8}
         /\ Step.do = "read" => pos = 7
         /\ Step.do \in {"start", "counters", "settle", "stop", "read"}
         /\ Step.who = "second" <=> pos \in {4, 5, 6}
         /\ Step.who \in {"first", "second"}
         /\ pos = 3 => Step.as = "before"
         /\ pos = 5 => Step.as = "joined"
<1>1. Script[check] = NoDuplicateWork
  BY DEF Script, Checks
<1>2. Len(NoDuplicateWork) = 8
  BY DEF NoDuplicateWork, Counted
<1>3. /\ NoDuplicateWork[1] = First("start") /\ NoDuplicateWork[2] = First("counters")
      /\ NoDuplicateWork[3] = Settle("first", "before") /\ NoDuplicateWork[4] = S("second", "start", "none")
      /\ NoDuplicateWork[5] = Settle("second", "joined") /\ NoDuplicateWork[6] = S("second", "stop", "none")
      /\ NoDuplicateWork[7] = First("read") /\ NoDuplicateWork[8] = First("stop")
  BY DEF NoDuplicateWork, Counted
<1>4. /\ NoDuplicateWork[1].do = "start" /\ NoDuplicateWork[1].who = "first"
      /\ NoDuplicateWork[2].do = "counters" /\ NoDuplicateWork[2].who = "first"
      /\ NoDuplicateWork[3].do = "settle" /\ NoDuplicateWork[3].who = "first" /\ NoDuplicateWork[3].as = "before"
      /\ NoDuplicateWork[4].do = "start" /\ NoDuplicateWork[4].who = "second"
      /\ NoDuplicateWork[5].do = "settle" /\ NoDuplicateWork[5].who = "second" /\ NoDuplicateWork[5].as = "joined"
      /\ NoDuplicateWork[6].do = "stop" /\ NoDuplicateWork[6].who = "second"
      /\ NoDuplicateWork[7].do = "read" /\ NoDuplicateWork[7].who = "first"
      /\ NoDuplicateWork[8].do = "stop" /\ NoDuplicateWork[8].who = "first"
  BY <1>3, StepFields
<1>5. pos \in 1..8 /\ Step = NoDuplicateWork[pos]
  BY <1>1, <1>2 DEF Step
<1> HIDE DEF NoDuplicateWork
<1> QED BY <1>1, <1>2, <1>4, <1>5

LEMMA StampPath ==
  ASSUME check = "foreign-stamp", pos \in 1..Len(Script[check])
  PROVE  /\ Len(Script[check]) = 19 /\ pos \in 1..19
         /\ Step.do = "start" => pos \in {1, 5, 9, 13, 17}
         /\ Step.do = "query" => pos \in {2, 6, 10, 14, 18}
         /\ Step.do = "stop" => pos \in {3, 7, 11, 15, 19}
         /\ Step.do = "perturb" => pos \in {4, 8, 12, 16}
         /\ Step.do \in {"start", "query", "stop", "perturb"}
         /\ Step.who = "first"
         /\ pos = 2 => Step.as = "baseline"
         /\ pos = 4 => Step.as = "reset-to-seeded-index"
         /\ pos = 6 => Step.as = "ready"
         /\ pos = 8 => Step.as = "restamp-older"
         /\ pos = 10 => Step.as = "restamp-older"
         /\ pos = 12 => Step.as = "reset-to-seeded-index"
         /\ pos = 14 => Step.as = "ready"
         /\ pos = 16 => Step.as = "restamp-newer"
         /\ pos = 18 => Step.as = "restamp-newer"
<1>1. Script[check] = ForeignStampServes
  BY DEF Script, Checks
<1>2. Len(ForeignStampServes) = 19
  BY DEF ForeignStampServes, Arm
<1>3. /\ ForeignStampServes[1] = First("start") /\ ForeignStampServes[2] = Query("first", "baseline")
      /\ ForeignStampServes[3] = First("stop") /\ ForeignStampServes[4] = S("first", "perturb", "reset-to-seeded-index")
      /\ ForeignStampServes[5] = First("start") /\ ForeignStampServes[6] = Query("first", "ready")
      /\ ForeignStampServes[7] = First("stop") /\ ForeignStampServes[8] = S("first", "perturb", "restamp-older")
      /\ ForeignStampServes[9] = First("start") /\ ForeignStampServes[10] = Query("first", "restamp-older")
      /\ ForeignStampServes[11] = First("stop") /\ ForeignStampServes[12] = S("first", "perturb", "reset-to-seeded-index")
      /\ ForeignStampServes[13] = First("start") /\ ForeignStampServes[14] = Query("first", "ready")
      /\ ForeignStampServes[15] = First("stop") /\ ForeignStampServes[16] = S("first", "perturb", "restamp-newer")
      /\ ForeignStampServes[17] = First("start") /\ ForeignStampServes[18] = Query("first", "restamp-newer")
      /\ ForeignStampServes[19] = First("stop")
  BY DEF ForeignStampServes, Arm
<1>4. /\ ForeignStampServes[1].do = "start" /\ ForeignStampServes[1].who = "first"
      /\ ForeignStampServes[2].do = "query" /\ ForeignStampServes[2].who = "first" /\ ForeignStampServes[2].as = "baseline"
      /\ ForeignStampServes[3].do = "stop" /\ ForeignStampServes[3].who = "first"
      /\ ForeignStampServes[4].do = "perturb" /\ ForeignStampServes[4].who = "first" /\ ForeignStampServes[4].as = "reset-to-seeded-index"
      /\ ForeignStampServes[5].do = "start" /\ ForeignStampServes[5].who = "first"
      /\ ForeignStampServes[6].do = "query" /\ ForeignStampServes[6].who = "first" /\ ForeignStampServes[6].as = "ready"
      /\ ForeignStampServes[7].do = "stop" /\ ForeignStampServes[7].who = "first"
      /\ ForeignStampServes[8].do = "perturb" /\ ForeignStampServes[8].who = "first" /\ ForeignStampServes[8].as = "restamp-older"
      /\ ForeignStampServes[9].do = "start" /\ ForeignStampServes[9].who = "first"
      /\ ForeignStampServes[10].do = "query" /\ ForeignStampServes[10].who = "first" /\ ForeignStampServes[10].as = "restamp-older"
      /\ ForeignStampServes[11].do = "stop" /\ ForeignStampServes[11].who = "first"
      /\ ForeignStampServes[12].do = "perturb" /\ ForeignStampServes[12].who = "first" /\ ForeignStampServes[12].as = "reset-to-seeded-index"
      /\ ForeignStampServes[13].do = "start" /\ ForeignStampServes[13].who = "first"
      /\ ForeignStampServes[14].do = "query" /\ ForeignStampServes[14].who = "first" /\ ForeignStampServes[14].as = "ready"
      /\ ForeignStampServes[15].do = "stop" /\ ForeignStampServes[15].who = "first"
      /\ ForeignStampServes[16].do = "perturb" /\ ForeignStampServes[16].who = "first" /\ ForeignStampServes[16].as = "restamp-newer"
      /\ ForeignStampServes[17].do = "start" /\ ForeignStampServes[17].who = "first"
      /\ ForeignStampServes[18].do = "query" /\ ForeignStampServes[18].who = "first" /\ ForeignStampServes[18].as = "restamp-newer"
      /\ ForeignStampServes[19].do = "stop" /\ ForeignStampServes[19].who = "first"
  BY <1>3, StepFields
<1>5. pos \in 1..19 /\ Step = ForeignStampServes[pos]
  BY <1>1, <1>2 DEF Step
<1> HIDE DEF ForeignStampServes
<1> QED BY <1>1, <1>2, <1>4, <1>5

-----------------------------------------------------------------------------
(* One step of an assertion, by what it does.                              *)
M == dirs["main"]
C == dirs["control"]
Pausing == {"pause-stops", "pause-holds"}
Counting == Pausing \cup {"edit", "resync", "no-duplicate-work"}
Open == verdict = "open" /\ verdict' = "open"
OnPath == pos \in 1..Len(Script[check])

Shape ==
  /\ fixture \in Fixtures /\ check \in Checks /\ pos \in Nat /\ pos <= Len(Script[check]) + 1
  /\ Len(Script[check]) \in 1..22
  /\ dirs \in [{"main", "control"} -> Data] /\ up \subseteq {"first", "second", "control"}
  /\ reads \in [{"before", "after"} -> Works] /\ polled \in Works \cup {NoRead} /\ worked \in BOOLEAN
  /\ check \in Pausing /\ pos >= 7 => candidate \in EditsOne
  /\ failures \in BOOLEAN
  /\ verdict \in {"open", "pass", "fail", "not-run", "not-offered"}

Begins ==
  pos = 0 /\ pos' = 1 /\ (\A v \in Needs(check) : Offers(fixture, v)) /\ UNCHANGED <<target, seen, poll>>
PassesOn ==
  /\ Step.do \in {"status", "counters", "independent", "choose", "control-shared", "control-isolated"}
  /\ Step.do = "counters" => ReportsWork(fixture)
  /\ Step.do = "independent" => fault # "shared"
  /\ Go /\ UNCHANGED <<target, seen, poll>>
Asked ==
  /\ Step.do = "query" /\ Answers(fixture, Dir) /\ (Step.as \in {"baseline", "ready"} => Reply = "served")
  /\ Remember(Reply) /\ Go
  /\ UNCHANGED <<target, poll, reads, baseline, candidate, attempts, returncode, failures>>
Thrown ==
  /\ check \in {"both-answer", "foreign-stamp"} /\ Step.do \in Reaching /\ Caught
  /\ fault = "raise" \/ (Step.do = "query" /\ ~Answers(fixture, Dir))
Perturbed(what) ==
  /\ Put(Perturb(fixture, Dir, what)) /\ candidate' = what /\ Go
  /\ UNCHANGED <<up, reads, answers, baseline, attempts, returncode, failures, poll>>
Disturbs ==
  \/ Step.do = "perturb" /\ Perturbed(Step.as)
  \/ Step.do = "background" /\ \E what \in EditsOne : Perturbed(what)
  \/ Step.do = "same" /\ Perturbed(candidate)
Accepts ==
  /\ Step.do = "created" /\ Moved("done") # {}
  /\ dirs' = [dirs EXCEPT !["main"].edited = IF fault = "shared" THEN dirs["control"].edited ELSE @]
  /\ Go /\ UNCHANGED <<up, seen, poll>>
Sweeps ==
  /\ Step.do = "sweep" /\ Dir.files = {} /\ baseline' = Dir.files /\ Go
  /\ UNCHANGED <<target, poll, reads, answers, candidate, attempts, returncode, failures>>
Turns ==
  \/ StartProcess \/ StopProcess \/ Call \/ PassesOn \/ Asked \/ Thrown
  \/ FirstRead \/ Poll \/ Read \/ Disturbs \/ Accepts \/ Sweeps \/ Subject

LEMMA Moves ==
  ASSUME Shape, Open, Next
  PROVE  /\ fixture' = fixture /\ check' = check /\ fault' = fault
         /\ Begins \/ Worker("main") \/ Worker("control") \/ (OnPath /\ Turns)
<1>1. ~Rule("not-run") /\ ~Rule("not-offered")
  BY DEF Open, Rule
<1>2. ~CouldNotLook
  BY <1>1 DEF CouldNotLook
<1>3. CASE Begin
  BY <1>1, <1>3 DEF Begin, Begins
<1>4. CASE StartProcess \/ StopProcess \/ Call \/ FirstRead \/ Poll \/ Read \/ Subject
  BY <1>4 DEF StartProcess, StopProcess, Call, FirstRead, Poll, Read, Subject, Now, OnPath, Same, Turns
<1>5. CASE Worker("main") \/ Worker("control")
  BY <1>5 DEF Worker, Same
<1>6. CASE Status \/ HasCounters \/ Independent \/ Instrument
  <2>1. OnPath /\ PassesOn
    BY <1>2, <1>6 DEF Status, HasCounters, Independent, Instrument, Now, OnPath, PassesOn
  <2>2. Same
    BY <1>2, <1>6 DEF Status, HasCounters, Independent, Instrument
  <2> QED BY <2>1, <2>2 DEF Same, Turns
<1>7. CASE QueryAnswers
  <2>1. OnPath /\ Asked /\ Same
    BY <1>2, <1>7 DEF QueryAnswers, Now, OnPath, Asked
  <2> QED BY <2>1 DEF Same, Turns
<1>8. CASE QueryCannot \/ Raise
  <2>1. /\ Caught /\ OnPath /\ Step.do \in Reaching
        /\ fault = "raise" \/ (Step.do = "query" /\ ~Answers(fixture, Dir))
    BY <1>8 DEF QueryCannot, Raise, Now, OnPath, Reaching
  <2>2. check \in {"both-answer", "foreign-stamp"} /\ Same
    BY <1>2, <2>1 DEF Caught
  <2> QED BY <2>1, <2>2 DEF Same, Turns, Thrown
<1>9. CASE OutOfPatience
  BY <1>2, <1>9 DEF OutOfPatience
<1>10. CASE PerturbTarget \/ PerturbBackgroundWork \/ PerturbSame
  <2>1. \A what : Do(what) => Perturbed(what) /\ Same
    BY <1>2 DEF Do, Perturbed
  <2>2. CASE PerturbTarget
    BY <2>1, <2>2 DEF PerturbTarget, Now, OnPath, Turns, Disturbs, Same
  <2>3. CASE PerturbBackgroundWork
    <3>1. PICK what \in EditsOne : Do(what)
      BY <2>3 DEF PerturbBackgroundWork, EditsOne
    <3> QED BY <2>1, <2>3, <3>1 DEF PerturbBackgroundWork, Now, OnPath, Turns, Disturbs, Same
  <2>4. CASE PerturbSame
    BY <2>1, <2>4 DEF PerturbSame, Now, OnPath, Turns, Disturbs, Same
  <2> QED BY <1>10, <2>2, <2>3, <2>4
<1>11. CASE Created \/ Sweep
  <2>1. OnPath /\ (Accepts \/ Sweeps) /\ Same
    BY <1>2, <1>11 DEF Created, Sweep, Now, OnPath, Accepts, Sweeps
  <2> QED BY <2>1 DEF Same, Turns
<1>12. CASE Decide
  BY <1>12 DEF Decide, Rule, Open
<1>13. CASE Recorded
  BY <1>13 DEF Recorded, Open
<1> QED BY <1>3, <1>4, <1>5, <1>6, <1>7, <1>8, <1>9, <1>10, <1>11, <1>12, <1>13 DEF Next

-----------------------------------------------------------------------------
(* The inductive invariant: what is true between two steps, by assertion.  *)

(* Only the arena a step asks has a worker at work.                        *)
Alive ==
  /\ check \notin Pausing => "control" \notin up
  /\ check \in Pausing /\ pos <= 9 => up \subseteq {"control"}
  /\ check \in Pausing /\ pos >= 9 => "control" \notin up

Behind(d) == \E c \in Counters : polled[c] < d.work[c]
Settling ==
  polled # NoRead =>
    /\ OnPath /\ Step.do = "settle"
    /\ \A c \in Counters : polled[c] <= Dir.work[c]
    /\ worked => Behind(Dir)

Asks == pos >= 1 => \A v \in Needs(check) : Offers(fixture, v)
Counts ==
  check \in Counting /\ (pos >= 4 \/ (pos = 3 /\ check \notin Pausing)) => ReportsWork(fixture)

(* A recomputation is due, or was seen to move its counter.                *)
Risen(d) == \E c \in Counters : c[3] = "done" /\ d.work[c] > reads["before"][c]
Due(d) == d.pending # <<>> /\ d.pending[1][1][3] = "done" /\ d.work = reads["before"]
Owed(d) == Due(d) \/ Risen(d)
Settled(d) == d.work = reads["before"] /\ d.pending = <<>>

(* Two batches of work, neither done, the first, or both.                  *)
Plus(w, b) == [c \in Counters |-> w[c] + IF c = b[1] THEN b[2] ELSE 0]
UnderWay(d, b) ==
  \/ d.pending = b /\ d.work = reads["before"]
  \/ d.pending = <<b[2]>> /\ d.work = Plus(reads["before"], b[1])
  \/ d.pending = <<>> /\ d.work = Plus(Plus(reads["before"], b[1]), b[2])

EgressGoes ==
  check = "no-egress" /\ pos >= 5 =>
    /\ attempts # {} => fixture \in {"egress-ip", "egress-name"}
    /\ returncode = 0 /\ fixture \in {"egress-ip", "egress-name"} => attempts # {}
    /\ fault = "none" => returncode = 0

UninstallGoes ==
  check = "uninstall" /\ pos >= 4 =>
    (Declared(fixture, M.files) # {} <=> fixture = "uninstall-leaves-residue")

SweepGoes ==
  check \in {"residue-inventory", "model-cache"} =>
    /\ pos <= 1 /\ fault # "dirty" => M.files = {}
    /\ pos >= 2 => baseline = {} /\ ("stray" \in M.files => fixture = "strays")
    /\ pos >= 4 => "index" \in M.files /\ (fixture = "strays" => "stray" \in M.files)
    /\ ~M.company /\ ~M.corrupt /\ (pos <= 2 => M.live = 0)
    /\ "paused" \notin M.files

ControlGoes ==
  check \in Pausing =>
    /\ pos >= 2 => fault # "shared"
    /\ "paused" \notin C.files /\ (pos <= 6 => ~C.edited)
    /\ pos = 6 => Settled(C)
    /\ pos = 7 => Owed(C)
    /\ pos \in {8, 9} => Moved("done") # {}

SameAt == IF check = "pause-stops" THEN 16 ELSE 20
Unheeded == fixture \in RedFor(check)
PauseGoes ==
  check \in Pausing =>
    /\ pos <= SameAt => ~M.edited
    /\ pos <= 14 => "paused" \notin M.files
    /\ pos >= 11 => "ledger" \in M.files
    /\ pos >= 15 => ("paused" \notin M.files <=>
                       check = "pause-holds" /\ pos >= 18 /\ fixture = "forgets-pause-on-restart")
    /\ pos = SameAt => M.work = reads["before"] /\ (Unheeded => M.pending = <<>>)
    /\ pos = SameAt + 1 => IF Unheeded THEN Owed(M) ELSE M.work = reads["before"]
    /\ pos >= SameAt + 2 => (Moved("done") # {} <=> Unheeded)

EditGoes ==
  check = "edit" =>
    /\ "paused" \notin M.files /\ (pos <= 4 => ~M.edited)
    /\ pos = 4 => Settled(M)
    /\ pos = 5 => UnderWay(M, EditWork(fixture, "edit-one-item"))
    /\ pos >= 6 => LET b == EditWork(fixture, "edit-one-item") IN
                   reads["after"] = Plus(Plus(reads["before"], b[1]), b[2])

ResyncGoes ==
  check = "resync" =>
    /\ "paused" \notin M.files
    /\ pos = 4 => Settled(M)
    /\ pos = 5 => IF fixture = "verifies-nothing-on-resync" THEN Settled(M)
                  ELSE UnderWay(M, ResyncWork(fixture))
    /\ pos >= 6 => reads["after"] = IF fixture = "verifies-nothing-on-resync" THEN reads["before"]
                                    ELSE Plus(Plus(reads["before"], ResyncWork(fixture)[1]), ResyncWork(fixture)[2])

DuplicateGoes ==
  check = "no-duplicate-work" =>
    /\ "paused" \notin M.files /\ (pos >= 2 => "ledger" \in M.files)
    /\ pos = 4 => Settled(M)
    /\ pos = 5 => IF Unheeded THEN Owed(M) ELSE Settled(M)
    /\ pos \in {6, 7} => IF Unheeded THEN Risen(M) ELSE Settled(M)
    /\ pos >= 8 => (Moved("done") # {} <=> Unheeded)

Heard(l) == l \in DOMAIN answers /\ (Listed(l) <=> fault # "no-hit-list")
Live(n) == M.live = n /\ "paused" \notin M.files
PairGoes ==
  check = "both-answer" =>
    /\ M.corrupt => Unheeded
    /\ failures => Unheeded \/ fault = "raise"
    /\ ~failures =>
         /\ pos >= 5 => Heard("second")
         /\ pos >= 6 => Heard("first")
         /\ pos >= 10 => Heard("third")
    /\ ~failures /\ Unheeded =>
         /\ pos <= 9
         /\ pos <= 1 => Live(0)
         /\ pos \in {2, 3} => Live(1) /\ "ledger" \in M.files
         /\ pos \in 4..6 => Live(2) /\ M.company /\ "ledger" \in M.files
         /\ pos = 7 => Live(1) /\ M.company /\ "ledger" \in M.files
         /\ pos \in {8, 9} => M.corrupt

Told(l) ==
  /\ l \in DOMAIN answers
  /\ \/ answers[l] = "raised" /\ fault = "raise"
     \/ answers[l] = IF fixture = "abandons-foreign-stamp" THEN "empty" ELSE "served"
StampGoes ==
  check = "foreign-stamp" =>
    /\ "paused" \notin M.files /\ ~M.company /\ ~M.corrupt /\ (pos >= 2 => "ledger" \in M.files)
    /\ fixture = "corrupts-on-company" =>
         M.live = IF pos \in {2, 3, 6, 7, 10, 11, 14, 15, 18, 19} THEN 1 ELSE 0
    /\ "stamp" \in M.files <=> pos \in 9..12 \cup 17..20
    /\ pos >= 3 => fault # "no-hit-list"
    /\ pos >= 11 => Told("restamp-older")
    /\ pos >= 19 => Told("restamp-newer")

Goes ==
  /\ EgressGoes /\ UninstallGoes /\ SweepGoes /\ ControlGoes /\ PauseGoes /\ EditGoes /\ ResyncGoes
  /\ DuplicateGoes /\ PairGoes /\ StampGoes
Right == VerdictsEarned /\ FixtureMatrix
Looking == Alive /\ Settling /\ Asks /\ Counts /\ Goes
ChecksInv == Shape /\ Right /\ (verdict = "open" => Looking)

-----------------------------------------------------------------------------
(* What one step does, by the kind of call it makes.                       *)
Keeps == UNCHANGED <<up, seen, poll>>
Tries == UNCHANGED <<dirs, up, answers, baseline, candidate, attempts, returncode, failures>>

LEMMA PollEnds ==
  ASSUME Shape, Settling, Poll, polled = Dir.work
  PROVE  ~CanWork(fixture, Dir)
<1>1. polled # NoRead /\ Interval
  BY DEF Poll
<1>2. ~Behind(Dir)
  <2>1. Dir \in Data
    BY DEF Shape, Dir, Arena
  <2>2. Dir.work \in Works
    BY <2>1 DEF Data
  <2> QED BY <2>2 DEF Behind, Works
<1>3. ~worked
  BY <1>1, <1>2 DEF Settling
<1> QED BY <1>1, <1>3 DEF Interval

LEMMA TurnDoes ==
  ASSUME Shape, Settling, OnPath, Turns, ~Thrown
  PROVE  /\ Step.do # "settle" => pos' = pos + 1
         /\ Step.do = "start" =>
              Put(Start(fixture, Dir)) /\ up' = up \cup {Step.who} /\ UNCHANGED <<seen, poll>>
         /\ Step.do = "stop" =>
              Put(Stop(fixture, Dir)) /\ up' = up \ {Step.who} /\ UNCHANGED <<seen, poll>>
         /\ Step.do \in {"status", "counters", "independent", "choose", "control-shared", "control-isolated"} =>
              Keeps /\ dirs' = dirs
         /\ Step.do = "counters" => ReportsWork(fixture)
         /\ Step.do = "independent" => fault # "shared"
         /\ Step.do \in {"install", "configure", "uninstall", "pause"} => Keeps
         /\ Step.do = "install" => (Offers(fixture, "install") => Put(Install(fixture, Dir)))
         /\ Step.do = "configure" => dirs' = dirs
         /\ Step.do = "uninstall" => Put(Uninstall(fixture, Dir))
         /\ Step.do = "pause" => Put(Pause(Dir))
         /\ Step.do = "settle" =>
              /\ Tries
              /\ \/ pos' = pos /\ reads' = reads /\ polled' = Dir.work /\ worked' = FALSE
                 \/ /\ pos' = pos + 1 /\ polled' = NoRead /\ ~CanWork(fixture, Dir)
                    /\ reads' = IF Step.as \in {"before", "after"}
                                THEN [reads EXCEPT ![Step.as] = Dir.work] ELSE reads
<1>1. CASE StartProcess \/ StopProcess
  BY <1>1 DEF StartProcess, StopProcess, Now, Go
<1>2. CASE Call
  <2>1. Step.do \in {"install", "configure", "uninstall", "pause"} /\ Go /\ Keeps
    BY <1>2 DEF Call, Now, Keeps
  <2>2. CASE Step.do = "install"
    BY <1>2, <2>1, <2>2 DEF Call, Go
  <2>3. CASE Step.do = "configure"
    BY <1>2, <2>1, <2>3 DEF Call, Go
  <2>4. CASE Step.do = "uninstall"
    BY <1>2, <2>1, <2>4 DEF Call, Go
  <2>5. CASE Step.do = "pause"
    BY <1>2, <2>1, <2>5 DEF Call, Go
  <2> QED BY <2>1, <2>2, <2>3, <2>4, <2>5
<1>3. CASE PassesOn
  BY <1>3 DEF PassesOn, Go, Keeps, target
<1>4. CASE Asked
  BY <1>4 DEF Asked, Go
<1>5. CASE FirstRead
  BY <1>5 DEF FirstRead, Now, Tries, target, seen
<1>6. CASE Poll
  <2>1. Step.do = "settle" /\ Tries
    BY <1>6 DEF Poll, Now, Tries, target
  <2>2. DOMAIN reads = {"before", "after"}
    BY DEF Shape
  <2>3. CASE polled = Dir.work
    BY <1>6, <2>1, <2>2, <2>3, PollEnds DEF Poll, Go
  <2>4. CASE polled # Dir.work
    BY <1>6, <2>1, <2>4 DEF Poll
  <2> QED BY <2>3, <2>4
<1>7. CASE Read \/ Sweeps \/ Subject
  BY <1>7 DEF Read, Sweeps, Subject, Now, Go
<1>8. CASE Disturbs \/ Accepts
  BY <1>8 DEF Disturbs, Perturbed, Accepts, Go
<1> QED BY <1>1, <1>2, <1>3, <1>4, <1>5, <1>6, <1>7, <1>8 DEF Turns

(* The other calls are those of few assertions.                            *)
LEMMA TurnAsks ==
  ASSUME Shape, OnPath, Turns, ~Thrown
  PROVE  /\ Step.do = "query" => Asked
         /\ Step.do = "read" => Read
         /\ Step.do = "perturb" => Perturbed(Step.as)
         /\ Step.do = "background" => \E what \in EditsOne : Perturbed(what)
         /\ Step.do = "same" => Perturbed(candidate)
         /\ Step.do = "created" => Accepts
         /\ Step.do = "sweep" => Sweeps
         /\ Step.do = "subject" => Subject
<1>1. CASE StartProcess \/ StopProcess \/ FirstRead \/ Poll
  BY <1>1 DEF StartProcess, StopProcess, FirstRead, Poll, Now
<1>2. CASE Call \/ PassesOn
  BY <1>2 DEF Call, PassesOn, Now
<1>3. CASE Asked \/ Read \/ Sweeps \/ Subject \/ Accepts
  BY <1>3 DEF Asked, Read, Sweeps, Subject, Accepts, Now
<1>4. CASE Disturbs
  BY <1>4 DEF Disturbs
<1> QED BY <1>1, <1>2, <1>3, <1>4 DEF Turns

LEMMA PutDoes ==
  ASSUME Shape, NEW d, Put(d)
  PROVE  /\ Step.who = "control" => C' = d /\ M' = M
         /\ Step.who # "control" => M' = d /\ C' = C
BY DEF Shape, Put, Arena, M, C

LEMMA DirIs == /\ Step.who = "control" => Dir = C /\ Arena(Step.who) = "control"
               /\ Step.who # "control" => Dir = M /\ Arena(Step.who) = "main"
BY DEF Dir, Arena, M, C

LEMMA WorkerDoes ==
  ASSUME Shape, Worker("main") \/ Worker("control")
  PROVE  /\ pos' = pos /\ up' = up /\ polled' = polled /\ worked' = TRUE
         /\ UNCHANGED <<reads, answers, baseline, candidate, attempts, returncode, failures>>
         /\ \/ M' = Work(M) /\ C' = C /\ CanWork(fixture, M) /\ up \ {"control"} # {}
            \/ C' = Work(C) /\ M' = M /\ CanWork(fixture, C) /\ "control" \in up
         /\ dirs' \in [{"main", "control"} -> Data]
<1>1. ASSUME NEW a \in {"main", "control"}, Worker(a)
      PROVE  /\ pos' = pos /\ up' = up /\ polled' = polled /\ worked' = TRUE
             /\ UNCHANGED <<reads, answers, baseline, candidate, attempts, returncode, failures>>
             /\ CanWork(fixture, dirs[a]) /\ dirs' = [dirs EXCEPT ![a] = Work(dirs[a])]
             /\ \E who \in up : Arena(who) = a
  BY <1>1 DEF Worker, seen
<1>2. \A a \in {"main", "control"} : CanWork(fixture, dirs[a]) => Work(dirs[a]) \in Data
  BY WorkDoes DEF Shape
<1> QED BY <1>1, <1>2 DEF Arena, M, C, Shape

-----------------------------------------------------------------------------
(* Which assertion makes which call.                                       *)
AskedBy ==
  /\ Step.do = "perturb" => check \in {"edit", "resync", "foreign-stamp"} /\ Step.as \in Perturbations
  /\ Step.do \in {"background", "same", "created", "independent"} => check \in Pausing
  /\ Step.do = "same" => pos >= 7
  /\ Step.do \in {"settle", "counters"} => check \in Counting
  /\ Step.do = "query" => check \in {"model-cache", "both-answer", "foreign-stamp"}
  /\ Step.do = "query" /\ check = "model-cache" => Step.as = "exercised"
  /\ Step.do = "query" /\ check = "both-answer" => Step.as \in {"alone", "first", "second", "third"}
  /\ Step.do = "sweep" => check \in {"residue-inventory", "model-cache"} /\ pos = 1
  /\ Step.do = "subject" => check = "no-egress"
  /\ Step.do = "read" => check = "no-duplicate-work"
  /\ Step.who = "control" <=> check \in Pausing /\ pos <= 9
  /\ Step.who \in {"first", "second", "control"}
  /\ Step.do = "background" => pos = 6
  /\ check \in Pausing =>
       /\ pos = 6 => Step.do = "background"
       /\ pos = 8 => Step.do = "stop"
       /\ pos = 3 => Step.do = "counters"
       /\ Step.do = "start" => pos \notin {8, 9}
  /\ check \in Counting \ Pausing /\ pos = 2 => Step.do = "counters"

LEMMA Askings == ASSUME check \in Checks, OnPath PROVE AskedBy
<1> USE DEF AskedBy, Pausing, Counting, Perturbations
<1>1. CASE check = "local-by-default"
  BY <1>1, LocalPath DEF OnPath
<1>2. CASE check = "no-egress"
  BY <1>2, EgressPath DEF OnPath
<1>3. CASE check = "residue-inventory"
  BY <1>3, ResiduePath DEF OnPath
<1>4. CASE check = "model-cache"
  BY <1>4, CachePath DEF OnPath
<1>5. CASE check = "uninstall"
  BY <1>5, UninstallPath DEF OnPath
<1>6. CASE check = "pause-stops"
  BY <1>6, StopsPath DEF OnPath
<1>7. CASE check = "pause-holds"
  BY <1>7, HoldsPath DEF OnPath
<1>8. CASE check = "edit"
  BY <1>8, EditPath DEF OnPath
<1>9. CASE check = "resync"
  BY <1>9, ResyncPath DEF OnPath
<1>10. CASE check = "both-answer"
  BY <1>10, BothPath DEF OnPath
<1>11. CASE check = "no-duplicate-work"
  BY <1>11, DuplicatePath DEF OnPath
<1>12. CASE check = "foreign-stamp"
  BY <1>12, StampPath DEF OnPath
<1> QED BY <1>1, <1>2, <1>3, <1>4, <1>5, <1>6, <1>7, <1>8, <1>9, <1>10, <1>11, <1>12 DEF Checks

LEMMA PerturbIsData ==
  ASSUME NEW f, NEW d \in Data, NEW w \in Perturbations
  PROVE  Perturb(f, d, w) \in Data
<1>1. CASE w \in EditsOne
  BY <1>1, EditDoes DEF Quietly
<1>2. CASE w = "resync-identical-bytes"
  BY <1>2, ResyncDoes DEF Quietly
<1>3. CASE w \in {"reset-to-seeded-index", "restamp-older", "restamp-newer"}
  BY <1>3, RestampDoes DEF Quietly
<1> QED BY <1>1, <1>2, <1>3 DEF Perturbations, EditsOne

(* An exception that is itself the observation.                            *)
LEMMA ThrownDoes ==
  ASSUME Shape, Open, OnPath, Thrown
  PROVE  /\ check = "both-answer" =>
              /\ failures' = TRUE /\ pos' = (IF pos < AfterThePair THEN AfterThePair ELSE Len(Script[check]) + 1)
              /\ up' = {} /\ dirs' \in [{"main", "control"} -> Data]
              /\ fixture # "corrupts-on-company" => M' = M
              /\ UNCHANGED <<reads, answers, baseline, candidate, attempts, returncode, poll>>
         /\ check # "both-answer" =>
              /\ check = "foreign-stamp" /\ Step.do = "query" /\ Step.as \notin {"baseline", "ready"}
              /\ Remember("raised") /\ pos' = pos + 1
              /\ UNCHANGED <<target, poll, reads, baseline, candidate, attempts, returncode, failures>>
         /\ fault = "raise" \/ ~Answers(fixture, Dir)
<1>1. ~CouldNotLook
  BY DEF Open, CouldNotLook, Rule
<1>2. fault = "raise" \/ ~Answers(fixture, Dir)
  BY DEF Thrown
<1>3. CASE check = "both-answer"
  <2> DEFINE d == dirs["main"]
             e == IF up = {} THEN d ELSE IF up = {"first", "second"} THEN Stop(fixture, Stop(fixture, d))
                  ELSE Stop(fixture, d)
  <2>1. /\ failures' = TRUE /\ pos' = (IF pos < AfterThePair THEN AfterThePair ELSE Len(Script[check]) + 1)
        /\ up' = {} /\ dirs' = [dirs EXCEPT !["main"] = e]
        /\ UNCHANGED <<reads, answers, baseline, candidate, attempts, returncode, poll>>
    BY <1>3 DEF Thrown, Caught
  <2>2. d \in Data
    BY DEF Shape
  <2>3. e \in Data /\ (fixture # "corrupts-on-company" => e = d)
    BY <2>2, StopDoes
  <2> HIDE DEF e
  <2> QED BY <1>2, <1>3, <2>1, <2>3 DEF Shape, M
<1>4. CASE check # "both-answer"
  <2>1. check = "foreign-stamp"
    BY <1>4 DEF Thrown
  <2>2. Step.do = "query" /\ Step.as \notin {"baseline", "ready"}
    BY <1>1, <2>1 DEF Thrown, Caught
  <2> QED BY <1>2, <2>1, <2>2 DEF Thrown, Caught, Go
<1> QED BY <1>3, <1>4

LEMMA DirsKept ==
  ASSUME Shape, Settling, OnPath, AskedBy, Turns, ~Thrown
  PROVE  dirs' \in [{"main", "control"} -> Data]
<1>1. Dir \in Data /\ Arena(Step.who) \in {"main", "control"}
  BY DEF Shape, Dir, Arena
<1>2. \A e \in Data : Put(e) => dirs' \in [{"main", "control"} -> Data]
  BY <1>1 DEF Put, Shape
<1>3. \A what \in Perturbations : Perturbed(what) => dirs' \in [{"main", "control"} -> Data]
  BY <1>1, <1>2, PerturbIsData DEF Perturbed
<1>4. /\ Start(fixture, Dir) \in Data /\ Stop(fixture, Dir) \in Data /\ Install(fixture, Dir) \in Data
      /\ Uninstall(fixture, Dir) \in Data /\ Pause(Dir) \in Data
  BY <1>1, StartDoes, StopDoes, InstallDoes, UninstallDoes, PauseDoes DEF Quietly
<1>5. CASE StartProcess \/ StopProcess
  BY <1>2, <1>4, <1>5 DEF StartProcess, StopProcess
<1>6. CASE Call
  BY <1>2, <1>4, <1>6 DEF Call, Shape
<1>7. CASE PassesOn \/ Asked \/ FirstRead \/ Poll \/ Read \/ Sweeps \/ Subject
  BY <1>7 DEF PassesOn, Asked, FirstRead, Poll, Read, Sweeps, Subject, target, Shape
<1>8. CASE Disturbs
  BY <1>3, <1>8 DEF Disturbs, AskedBy, Shape, EditsOne, Perturbations
<1>9. CASE Accepts
  <2>1. dirs["control"].edited \in BOOLEAN /\ dirs["main"] \in Data
    BY DEF Shape, Data
  <2> DEFINE b == IF fault = "shared" THEN dirs["control"].edited ELSE dirs["main"].edited
  <2>2. dirs' = [dirs EXCEPT !["main"] = [dirs["main"] EXCEPT !.edited = b]]
    BY <1>9 DEF Accepts, Shape
  <2>3. b \in BOOLEAN
    BY <2>1 DEF Data
  <2> HIDE DEF b
  <2>4. [dirs["main"] EXCEPT !.edited = b] \in Data
    BY <2>1, <2>3 DEF Data
  <2> QED BY <2>2, <2>4 DEF Shape
<1> QED BY <1>5, <1>6, <1>7, <1>8, <1>9 DEF Turns

LEMMA ShapeKept ==
  ASSUME Shape, Settling, Open, Next
  PROVE  Shape'
<1>1. fixture' = fixture /\ check' = check
  BY Moves
<1>2. verdict' = "open"
  BY DEF Open
<1>3. Len(Script[check]) \in 1..22 /\ pos \in Nat
  BY DEF Shape
<1>4. CASE Begins
  BY <1>1, <1>2, <1>3, <1>4 DEF Begins, Shape, target, seen, poll
<1>5. CASE Worker("main") \/ Worker("control")
  BY <1>1, <1>2, <1>5, WorkerDoes DEF Shape
<1>6. CASE OnPath /\ Thrown
  <2>1. AfterThePair = 8
    BY DEF AfterThePair
  <2>2. check = "both-answer" => Len(Script[check]) = 10
    BY <1>6, BothPath DEF OnPath
  <2>3. check \notin Pausing
    BY <1>6 DEF Thrown, Pausing
  <2>4. pos \in 1..Len(Script[check])
    BY <1>6 DEF OnPath
  <2>5. CASE check = "both-answer"
    <3>1. /\ dirs' \in [{"main", "control"} -> Data] /\ up' = {} /\ failures' = TRUE
          /\ UNCHANGED <<reads, candidate, poll>>
          /\ pos' = (IF pos < AfterThePair THEN AfterThePair ELSE Len(Script[check]) + 1)
      BY <1>6, <2>5, ThrownDoes
    <3>2. pos' \in Nat /\ pos' <= Len(Script[check]) + 1
      <4>1. Len(Script[check]) = 10
        BY <2>2, <2>5
      <4>2. pos' \in {8, 11}
        BY <2>1, <3>1, <4>1
      <4> QED BY <4>1, <4>2
    <3> QED BY <1>1, <1>2, <2>3, <3>1, <3>2 DEF Shape, poll
  <2>6. CASE check # "both-answer"
    <3>1. UNCHANGED <<dirs, up, failures, reads, candidate, polled, worked>> /\ pos' = pos + 1
      BY <1>6, <2>6, ThrownDoes DEF poll, target
    <3> QED BY <1>1, <1>2, <1>3, <2>3, <2>4, <3>1 DEF Shape
  <2> QED BY <2>5, <2>6
<1>7. CASE OnPath /\ Turns /\ ~Thrown
  <2>1. AskedBy
    BY <1>7, Askings DEF Shape
  <2>2. dirs' \in [{"main", "control"} -> Data]
    BY <1>7, <2>1, DirsKept
  <2>3. Dir.work \in Works
    BY DEF Shape, Dir, Arena, Data
  <2>7. pos \in 1..Len(Script[check]) /\ pos' \in {pos, pos + 1}
    <3>1. Step.do # "settle" => pos' = pos + 1
      BY <1>7, TurnDoes
    <3>2. Step.do = "settle" => pos' = pos \/ pos' = pos + 1
      BY <1>7, TurnDoes
    <3> QED BY <1>7, <3>1, <3>2 DEF OnPath
  <2>4. pos' \in Nat /\ pos' <= Len(Script[check]) + 1
    BY <1>3, <2>7
  <2>5. /\ up' \subseteq {"first", "second", "control"}
        /\ reads' \in [{"before", "after"} -> Works] /\ polled' \in Works \cup {NoRead} /\ worked' \in BOOLEAN
        /\ failures' \in BOOLEAN
    <3>1. CASE StartProcess \/ StopProcess
      BY <2>1, <3>1 DEF StartProcess, StopProcess, Shape, seen, poll, AskedBy
    <3>2. CASE Call \/ PassesOn \/ Asked \/ Read \/ Sweeps \/ Subject
      BY <2>3, <3>2 DEF Call, PassesOn, Asked, Read, Sweeps, Subject, Shape, seen, poll, target
    <3>3. CASE FirstRead \/ Poll
      BY <2>3, <3>3 DEF FirstRead, Poll, Shape, seen, target
    <3>4. CASE Disturbs \/ Accepts
      BY <3>4 DEF Disturbs, Perturbed, Accepts, Shape, seen, poll
    <3> QED BY <1>7, <3>1, <3>2, <3>3, <3>4 DEF Turns
  <2>6. check \in Pausing /\ pos' >= 7 => candidate' \in EditsOne
    <3> SUFFICES ASSUME check \in Pausing, pos' >= 7 PROVE candidate' \in EditsOne
      OBVIOUS
    <3>1. CASE Disturbs
      <4>1. check \notin {"edit", "resync", "foreign-stamp"}
        BY DEF Pausing
      <4> QED BY <2>1, <3>1, <4>1 DEF Disturbs, Perturbed, AskedBy, Shape
    <3>2. CASE ~Disturbs
      <4>1. candidate' = candidate
        BY <1>7, <3>2 DEF Turns, StartProcess, StopProcess, Call, PassesOn, Asked, FirstRead, Poll, Read, Sweeps,
                          Subject, Accepts, seen
      <4>2. Step.do # "background"
        BY <1>7, <3>2, TurnAsks DEF Disturbs
      <4>3. pos' <= pos + 1 /\ pos # 6
        BY <1>3, <2>1, <2>7, <4>2 DEF AskedBy
      <4>4. pos >= 7
        BY <1>3, <4>3, <2>4
      <4> QED BY <4>1, <4>4 DEF Shape
    <3> QED BY <3>1, <3>2
  <2> QED BY <1>1, <1>2, <2>2, <2>4, <2>5, <2>6 DEF Shape
<1> QED BY <1>4, <1>5, <1>6, <1>7, Moves

-----------------------------------------------------------------------------
(* What holds of every assertion.                                          *)
LEMMA NextPlace ==
  ASSUME Shape, Settling, OnPath, Turns, ~Thrown
  PROVE  pos' \in {pos, pos + 1} /\ (pos' = pos => Step.do = "settle")
<1>1. pos \in Nat
  BY DEF Shape
<1>2. Step.do # "settle" => pos' = pos + 1
  BY TurnDoes
<1>3. Step.do = "settle" => pos' = pos \/ pos' = pos + 1
  BY TurnDoes
<1> QED BY <1>1, <1>2, <1>3

LEMMA AliveKept == ASSUME Shape, Alive, Settling, Open, Next PROVE Alive'
<1>1. check' = check /\ pos \in Nat
  BY Moves DEF Shape
<1>2. CASE Begins
  BY <1>1, <1>2 DEF Begins, Alive, target
<1>3. CASE Worker("main") \/ Worker("control")
  BY <1>1, <1>3, WorkerDoes DEF Alive
<1>4. CASE OnPath /\ Thrown
  <2>1. check \notin Pausing
    BY <1>4 DEF Thrown, Pausing
  <2>2. up' = {} \/ up' = up
    BY <1>4, ThrownDoes DEF target
  <2> QED BY <1>1, <2>1, <2>2 DEF Alive
<1>5. CASE OnPath /\ Turns /\ ~Thrown
  <2>1. AskedBy
    BY <1>5, Askings DEF Shape
  <2>2. pos' \in {pos, pos + 1} /\ (Step.do # "settle" => pos' = pos + 1)
    BY <1>5, NextPlace, TurnDoes
  <2>3. CASE Step.do = "start"
    <3>1. up' = up \cup {Step.who} /\ pos' = pos + 1
      BY <1>5, <2>2, <2>3, TurnDoes
    <3>2. CASE check \notin Pausing
      BY <1>1, <2>1, <3>1, <3>2 DEF Alive, AskedBy
    <3>3. CASE check \in Pausing /\ pos <= 7
      BY <1>1, <2>1, <3>1, <3>3 DEF Alive, AskedBy
    <3>4. CASE check \in Pausing /\ pos >= 10
      BY <1>1, <2>1, <3>1, <3>4 DEF Alive, AskedBy
    <3> QED BY <1>1, <2>1, <2>3, <3>2, <3>3, <3>4 DEF AskedBy
  <2>4. CASE Step.do = "stop"
    <3>1. up' = up \ {Step.who} /\ pos' = pos + 1
      BY <1>5, <2>2, <2>4, TurnDoes
    <3> QED BY <1>1, <2>1, <3>1 DEF Alive, AskedBy
  <2>5. CASE Step.do \notin {"start", "stop"}
    <3>1. up' = up
      BY <1>5, <2>5 DEF Turns, StartProcess, StopProcess, Now, Call, PassesOn, Asked, FirstRead, Poll, Read,
                        Disturbs, Perturbed, Accepts, Sweeps, Subject, target
    <3> QED BY <1>1, <2>1, <2>2, <2>5, <3>1 DEF Alive, AskedBy
  <2> QED BY <2>3, <2>4, <2>5
<1> QED BY <1>2, <1>3, <1>4, <1>5, Moves

LEMMA SettlingKept == ASSUME Shape, Alive, Settling, Open, Next PROVE Settling'
<1>1. check' = check /\ pos \in Nat /\ check \in Checks
  BY Moves DEF Shape
<1>2. pos' = pos => Step' = Step /\ (OnPath <=> OnPath')
  BY <1>1 DEF Step, OnPath
<1>3. CASE Begins
  <2>1. ~OnPath /\ polled' = polled
    BY <1>3 DEF Begins, OnPath, poll
  <2> QED BY <2>1 DEF Settling
<1>4. CASE Worker("main") \/ Worker("control")
  <2> SUFFICES ASSUME polled # NoRead PROVE Settling'
    BY <1>4, WorkerDoes DEF Settling
  <2>1. Step.do = "settle" /\ OnPath /\ \A c \in Counters : polled[c] <= Dir.work[c]
    BY DEF Settling
  <2>2. AskedBy
    BY <1>1, <2>1, Askings
  <2>3. pos' = pos /\ polled' = polled /\ Step' = Step /\ OnPath'
    BY <1>2, <1>4, <2>1, WorkerDoes
  <2>4. Dir' = Work(Dir) /\ CanWork(fixture, Dir)
    <3>1. CASE Step.who = "control"
      <4>1. up \subseteq {"control"}
        BY <2>2, <3>1 DEF AskedBy, Alive
      <4>2. C' = Work(C) /\ CanWork(fixture, C)
        BY <1>4, <4>1, WorkerDoes
      <4> QED BY <2>3, <3>1, <4>2 DEF Dir, Arena, C
    <3>2. CASE Step.who # "control"
      <4>1. "control" \notin up
        BY <1>1, <2>2, <3>2 DEF AskedBy, Alive
      <4>2. M' = Work(M) /\ CanWork(fixture, M)
        BY <1>4, <4>1, WorkerDoes
      <4> QED BY <2>3, <3>2, <4>2 DEF Dir, Arena, M
    <3> QED BY <3>1, <3>2
  <2>5. Dir \in Data /\ polled \in Works
    BY DEF Shape, Dir, Arena
  <2>6. /\ Dir.pending[1] \in Batch
        /\ \A c \in Counters : Dir'.work[c] = Dir.work[c] + IF c = Dir.pending[1][1] THEN Dir.pending[1][2] ELSE 0
    BY <2>4, <2>5, WorkDoes
  <2> DEFINE b == Dir.pending[1]
             k == b[1]
             n == b[2]
  <2>7. k \in Counters /\ n \in Nat /\ n >= 1
    BY <2>6 DEF Batch, Amount
  <2>8. \A c \in Counters : polled[c] \in Nat /\ Dir.work[c] \in Nat
    BY <2>5 DEF Works, Data
  <2>9. \A c \in Counters : Dir'.work[c] = Dir.work[c] + IF c = k THEN n ELSE 0
    BY <2>6
  <2> HIDE DEF b, k, n
  <2>10. (\A c \in Counters : polled[c] <= Dir'.work[c]) /\ polled[k] < Dir'.work[k]
    BY <2>1, <2>7, <2>8, <2>9
  <2> QED BY <2>1, <2>3, <2>7, <2>10 DEF Settling, Behind
<1>5. CASE OnPath /\ Thrown
  <2>1. AskedBy
    BY <1>1, <1>5, Askings
  <2>2. check \notin Counting
    BY <1>5 DEF Thrown, Counting, Pausing
  <2>3. polled = NoRead
    BY <2>1, <2>2 DEF Settling, AskedBy
  <2>4. polled' = polled
    BY <1>5, ThrownDoes DEF poll
  <2> QED BY <2>3, <2>4 DEF Settling, NoRead
<1>6. CASE OnPath /\ Turns /\ ~Thrown
  <2>1. CASE Step.do = "settle"
    <3>1. /\ dirs' = dirs
          /\ \/ pos' = pos /\ polled' = Dir.work /\ worked' = FALSE
             \/ polled' = NoRead
      BY <1>6, <2>1, TurnDoes DEF Tries
    <3>2. CASE polled' = NoRead
      BY <3>2 DEF Settling, NoRead
    <3>3. CASE polled' # NoRead
      <4>1. Step' = Step /\ OnPath'
        BY <1>2, <1>6, <3>1, <3>3
      <4>2. Dir' = Dir
        BY <3>1, <4>1 DEF Dir, Arena
      <4>3. Dir.work \in Works
        BY DEF Shape, Dir, Arena, Data
      <4>4. \A c \in Counters : polled'[c] <= Dir'.work[c]
        BY <3>1, <3>3, <4>2, <4>3 DEF Works
      <4>5. worked' = FALSE
        BY <3>1, <3>3
      <4> QED BY <2>1, <4>1, <4>4, <4>5 DEF Settling
    <3> QED BY <3>2, <3>3
  <2>2. CASE Step.do # "settle"
    <3>1. polled = NoRead
      BY <2>2 DEF Settling
    <3>2. polled' = polled
      BY <1>6, <2>2 DEF Turns, StartProcess, StopProcess, Call, PassesOn, Asked, FirstRead, Poll, Now, Read,
                        Disturbs, Perturbed, Accepts, Sweeps, Subject, poll
    <3> QED BY <3>1, <3>2 DEF Settling, NoRead
  <2> QED BY <2>1, <2>2
<1> QED BY <1>3, <1>4, <1>5, <1>6, Moves

LEMMA AsksKept == ASSUME Shape, Settling, Asks, Open, Next PROVE Asks'
<1>1. check' = check /\ fixture' = fixture /\ pos \in Nat
  BY Moves DEF Shape
<1>2. CASE Begins
  BY <1>1, <1>2 DEF Begins, Asks
<1>3. CASE Worker("main") \/ Worker("control")
  BY <1>1, <1>3, WorkerDoes DEF Asks
<1>4. CASE OnPath
  BY <1>1, <1>4 DEF Asks, OnPath
<1> QED BY <1>2, <1>3, <1>4, Moves

LEMMA CountsKept == ASSUME Shape, Settling, Counts, Open, Next PROVE Counts'
<1>1. check' = check /\ fixture' = fixture /\ pos \in Nat
  BY Moves DEF Shape
<1>2. CASE Begins
  BY <1>1, <1>2 DEF Begins, Counts
<1>3. CASE Worker("main") \/ Worker("control")
  BY <1>1, <1>3, WorkerDoes DEF Counts
<1>4. CASE OnPath /\ Thrown
  BY <1>1, <1>4 DEF Counts, Thrown, Counting, Pausing
<1>5. CASE OnPath /\ Turns /\ ~Thrown
  <2>1. AskedBy
    BY <1>5, Askings DEF Shape
  <2>2. pos' \in {pos, pos + 1} /\ (Step.do = "counters" => ReportsWork(fixture))
    BY <1>5, NextPlace, TurnDoes
  <2> QED BY <1>1, <2>1, <2>2 DEF Counts, AskedBy
<1> QED BY <1>2, <1>3, <1>4, <1>5, Moves

-----------------------------------------------------------------------------
(* What one step does to the arena under test, and to the control's.       *)
Unseen == UNCHANGED <<reads, answers, baseline, candidate, attempts, returncode, failures>>
Kept(who) == pos' = pos + 1 /\ Unseen /\ (IF who = "control" THEN M' = M ELSE C' = C)
SettleStep(d) ==
  /\ M' = M /\ C' = C
  /\ \/ pos' = pos /\ reads' = reads
     \/ /\ pos' = pos + 1 /\ ~CanWork(fixture, d)
        /\ reads'["before"] = (IF Step.as = "before" THEN d.work ELSE reads["before"])
        /\ reads'["after"] = (IF Step.as = "after" THEN d.work ELSE reads["after"])

LEMMA InstallIsOffered == \A f : Offers(f, "install")
BY DEF Offers

LEMMA SettleTurn ==
  ASSUME Shape, Settling, OnPath, Turns, ~Thrown, Step.do = "settle"
  PROVE  SettleStep(Dir)
<1>1. dirs' = dirs
  BY TurnDoes DEF Tries
<1>2. M' = M /\ C' = C
  BY <1>1 DEF M, C
<1>3. CASE pos' = pos /\ reads' = reads
  BY <1>2, <1>3 DEF SettleStep
<1>4. CASE /\ pos' = pos + 1 /\ ~CanWork(fixture, Dir)
           /\ reads' = IF Step.as \in {"before", "after"} THEN [reads EXCEPT ![Step.as] = Dir.work] ELSE reads
  <2>1. DOMAIN reads = {"before", "after"} /\ reads \in [{"before", "after"} -> Works]
    BY DEF Shape
  <2>2. /\ reads'["before"] = (IF Step.as = "before" THEN Dir.work ELSE reads["before"])
        /\ reads'["after"] = (IF Step.as = "after" THEN Dir.work ELSE reads["after"])
    BY <1>4, <2>1
  <2> QED BY <1>2, <1>4, <2>2 DEF SettleStep
<1> QED BY <1>3, <1>4, TurnDoes

LEMMA MainTurn ==
  ASSUME Shape, Settling, OnPath, Turns, ~Thrown, Step.who # "control"
  PROVE  /\ Step.do = "start" => M' = Start(fixture, M) /\ Kept("main")
         /\ Step.do = "stop" => M' = Stop(fixture, M) /\ Kept("main")
         /\ Step.do = "install" => M' = Install(fixture, M) /\ Kept("main")
         /\ Step.do = "uninstall" => M' = Uninstall(fixture, M) /\ Kept("main")
         /\ Step.do = "pause" => M' = Pause(M) /\ Kept("main")
         /\ Step.do \in {"configure", "status", "counters"} => M' = M /\ Kept("main")
         /\ Step.do = "settle" => SettleStep(M)
         /\ Step.do = "read" => /\ M' = M /\ C' = C /\ pos' = pos + 1 /\ reads'["after"] = M.work
                                /\ reads'["before"] = reads["before"]
         /\ Step.do = "perturb" => /\ M' = Perturb(fixture, M, Step.as) /\ C' = C /\ pos' = pos + 1
                                   /\ UNCHANGED <<reads, answers>>
         /\ Step.do = "same" => /\ M' = Perturb(fixture, M, candidate) /\ C' = C /\ pos' = pos + 1
                                /\ reads' = reads
         /\ Step.do = "sweep" => M.files = {} /\ baseline' = {} /\ M' = M /\ C' = C /\ pos' = pos + 1
         /\ Step.do = "query" => /\ Answers(fixture, M) /\ (Step.as \in {"baseline", "ready"} => Reply = "served")
                                 /\ Remember(Reply) /\ M' = M /\ C' = C /\ pos' = pos + 1
                                 /\ UNCHANGED <<reads, baseline, failures>>
<1>1. Dir = M
  BY DirIs
<1>2. \A d : Put(d) => M' = d /\ C' = C
  BY PutDoes
<1>3. Keeps => Unseen
  BY DEF Keeps, Unseen, seen
<1>4. dirs' = dirs => M' = M /\ C' = C
  BY DEF M, C
<1>5. UNCHANGED seen => Unseen
  BY DEF Unseen, seen
<1>6. CASE Step.do \in {"start", "stop"}
  BY <1>1, <1>2, <1>5, <1>6, TurnDoes DEF Kept
<1>7. CASE Step.do \in {"install", "uninstall", "pause", "configure", "status", "counters"}
  BY <1>1, <1>2, <1>3, <1>4, <1>7, TurnDoes, InstallIsOffered DEF Kept
<1>8. CASE Step.do = "settle"
  BY <1>1, <1>8, SettleTurn
<1>9. CASE Step.do = "read"
  <2>1. Read
    BY <1>9, TurnAsks
  <2>2. DOMAIN reads = {"before", "after"}
    BY DEF Shape
  <2> QED BY <1>1, <1>4, <1>9, <2>1, <2>2 DEF Read, Go, target
<1>10. CASE Step.do \in {"perturb", "same"}
  <2>1. Step.do = "perturb" => Perturbed(Step.as)
    BY TurnAsks
  <2>2. Step.do = "same" => Perturbed(candidate)
    BY TurnAsks
  <2> QED BY <1>1, <1>2, <1>10, <2>1, <2>2 DEF Perturbed, Go
<1>11. CASE Step.do = "sweep"
  <2>1. Sweeps
    BY <1>11, TurnAsks
  <2> QED BY <1>1, <1>4, <1>11, <2>1 DEF Sweeps, Go, target
<1>12. CASE Step.do = "query"
  <2>1. Asked
    BY <1>12, TurnAsks
  <2> QED BY <1>1, <1>4, <1>12, <2>1 DEF Asked, Go, target
<1> QED BY <1>6, <1>7, <1>8, <1>9, <1>10, <1>11, <1>12

LEMMA ControlTurn ==
  ASSUME Shape, Settling, OnPath, Turns, ~Thrown, Step.who = "control", fault # "shared"
  PROVE  /\ Step.do = "start" => C' = Start(fixture, C) /\ Kept("control")
         /\ Step.do = "stop" => C' = Stop(fixture, C) /\ Kept("control")
         /\ Step.do = "install" => C' = Install(fixture, C) /\ Kept("control")
         /\ Step.do \in {"counters", "independent"} => C' = C /\ Kept("control")
         /\ Step.do = "settle" => SettleStep(C)
         /\ Step.do = "background" => \E what \in EditsOne :
              C' = Perturb(fixture, C, what) /\ M' = M /\ pos' = pos + 1 /\ reads' = reads
         /\ Step.do = "created" => C' = C /\ Kept("control")
<1>1. Dir = C
  BY DirIs
<1>2. \A d : Put(d) => C' = d /\ M' = M
  BY PutDoes
<1>3. Keeps => Unseen
  BY DEF Keeps, Unseen, seen
<1>4. dirs' = dirs => M' = M /\ C' = C
  BY DEF M, C
<1>5. UNCHANGED seen => Unseen
  BY DEF Unseen, seen
<1>6. CASE Step.do \in {"start", "stop"}
  BY <1>1, <1>2, <1>5, <1>6, TurnDoes DEF Kept
<1>7. CASE Step.do \in {"install", "counters", "independent"}
  BY <1>1, <1>2, <1>3, <1>4, <1>7, TurnDoes, InstallIsOffered DEF Kept
<1>8. CASE Step.do = "settle"
  BY <1>1, <1>8, SettleTurn
<1>9. CASE Step.do = "background"
  <2>1. PICK what \in EditsOne : Perturbed(what)
    BY <1>9, TurnAsks
  <2> QED BY <1>1, <1>2, <1>9, <2>1 DEF Perturbed, Go
<1>10. CASE Step.do = "created"
  <2>1. Accepts
    BY <1>10, TurnAsks
  <2>2. dirs' = dirs
    <3> DEFINE d == dirs["main"]
    <3>1. dirs' = [dirs EXCEPT !["main"] = [d EXCEPT !.edited = d.edited]]
      BY <2>1 DEF Accepts, Shape
    <3>2. d \in Data /\ dirs \in [{"main", "control"} -> Data]
      BY DEF Shape
    <3>3. [d EXCEPT !.edited = d.edited] = d
      BY <3>2 DEF Data
    <3> QED BY <3>1, <3>2, <3>3
  <2> QED BY <1>4, <1>5, <1>10, <2>1, <2>2 DEF Accepts, Go, Kept
<1> QED BY <1>6, <1>7, <1>8, <1>9, <1>10

(* The step is one of these; fixture, check and fault stay.                *)
LEMMA Cases ==
  ASSUME Shape, Settling, Open, Next
  PROVE  /\ fixture' = fixture /\ check' = check /\ fault' = fault /\ pos \in Nat
         /\ M \in Data /\ C \in Data
         /\ \/ Begins /\ pos = 0 /\ pos' = 1 /\ M' = M /\ C' = C /\ Unseen
            \/ /\ pos' = pos /\ Unseen
               /\ \/ M' = Work(M) /\ C' = C /\ CanWork(fixture, M)
                  \/ C' = Work(C) /\ M' = M /\ CanWork(fixture, C)
            \/ OnPath /\ Thrown
            \/ OnPath /\ Turns /\ ~Thrown /\ AskedBy
<1>1. fixture' = fixture /\ check' = check /\ fault' = fault
  BY Moves
<1>2. pos \in Nat /\ M \in Data /\ C \in Data
  BY DEF Shape, M, C
<1>3. CASE Begins
  BY <1>1, <1>2, <1>3 DEF Begins, target, seen, Unseen, M, C
<1>4. CASE Worker("main") \/ Worker("control")
  BY <1>1, <1>2, <1>4, WorkerDoes DEF Unseen
<1>5. CASE OnPath /\ Turns /\ ~Thrown
  BY <1>1, <1>2, <1>5, Askings DEF Shape
<1> QED BY <1>1, <1>2, <1>3, <1>4, <1>5, Moves

-----------------------------------------------------------------------------
(* The egress sweep, the two inventories and the uninstall.                *)
LEMMA SubjectDoes ==
  ASSUME Subject
  PROVE  /\ attempts' # {} => fixture \in {"egress-ip", "egress-name"}
         /\ returncode' = 0 /\ fixture \in {"egress-ip", "egress-name"} => attempts' # {}
         /\ fault = "none" => returncode' = 0
<1>1. PICK missed \in SUBSET Driven :
        /\ missed # {} => fault \in {"raise", "driver-dies"}
        /\ attempts' = AttemptsIn(UNION {Reaches(fixture, v) : v \in Driven \ missed})
        /\ returncode' = IF fault = "driver-dies" THEN 1
                         ELSE IF missed # {} THEN DriveIncomplete ELSE 0
  BY DEF Subject
<1> DEFINE U == UNION {Reaches(fixture, v) : v \in Driven \ missed}
<1>2. ASSUME fixture \notin {"egress-ip", "egress-name"} PROVE attempts' = {}
  <2>1. \A v : Reaches(fixture, v) = {}
    BY <1>2 DEF Reaches
  <2>2. U = {}
    BY <2>1
  <2>3. AttemptsIn({}) = {}
    BY DEF AttemptsIn
  <2> QED BY <1>1, <2>2, <2>3
<1>3. ASSUME returncode' = 0, fixture \in {"egress-ip", "egress-name"} PROVE attempts' # {}
  <2>1. missed = {}
    BY <1>1, <1>3 DEF DriveIncomplete
  <2>2. "install" \in Driven
    BY <1>3 DEF Driven, EgressVerbs, Offers
  <2>3. Reaches(fixture, "install") \subseteq U
    BY <2>1, <2>2
  <2>4. Reaches(fixture, "install") = {"public-address"} \/ Reaches(fixture, "install") = {"local-resolver"}
    BY <1>3 DEF Reaches
  <2>5. PICK x \in {"public-address", "local-resolver"} : x \in U
    BY <2>3, <2>4
  <2>6. Detector("public-address") = "off_machine" /\ Detector("local-resolver") = "dns"
    BY DEF Detector
  <2>7. Detector(x) # "none"
    BY <2>6
  <2> HIDE DEF U
  <2>8. Detector(x) \in AttemptsIn(U)
    BY <2>5, <2>7 DEF AttemptsIn
  <2> QED BY <1>1, <2>8 DEF U
<1>4. ASSUME fault = "none" PROVE returncode' = 0
  BY <1>1, <1>4
<1> QED BY <1>2, <1>3, <1>4

LEMMA EgressKept == ASSUME Shape, Settling, EgressGoes, Open, Next PROVE EgressGoes'
<1> SUFFICES ASSUME check = "no-egress", pos' >= 5 PROVE EgressGoes'
  BY Cases DEF EgressGoes
<1>1. UNCHANGED <<fixture, check, fault>>
  BY Cases
<1>2. CASE pos' = pos /\ Unseen
  BY <1>1, <1>2 DEF EgressGoes, Unseen
<1>3. CASE OnPath /\ Turns /\ ~Thrown
  <2>1. pos \in 1..4 /\ (pos = 4 => Step.do = "subject")
    BY <1>3, EgressPath DEF OnPath
  <2>2. pos' \in {pos, pos + 1}
    BY <1>3, NextPlace
  <2>3. Subject
    BY <1>3, <2>1, <2>2, TurnAsks
  <2> QED BY <1>1, <2>3, SubjectDoes DEF EgressGoes
<1>4. CASE Thrown
  BY <1>4 DEF Thrown
<1> QED BY <1>2, <1>3, <1>4, Cases

LEMMA RemovedIs ==
  ASSUME NEW f, NEW d \in Data
  PROVE  Declared(f, Uninstall(f, d).files) # {} <=> f = "uninstall-leaves-residue"
<1> DEFINE left == IF f = "uninstall-leaves-residue" THEN {"survivor"} ELSE {}
<1>1. Uninstall(f, d).files = (d.files \ Declared(f, d.files)) \cup left
  BY UninstallDoes
<1>2. CASE f = "uninstall-leaves-residue"
  BY <1>1, <1>2 DEF Declared, Directory, DeclaredRoots
<1>3. CASE f # "uninstall-leaves-residue"
  BY <1>1, <1>3 DEF Declared
<1> QED BY <1>2, <1>3

LEMMA UninstallKept == ASSUME Shape, Settling, UninstallGoes, Open, Next PROVE UninstallGoes'
<1> SUFFICES ASSUME check = "uninstall", pos' >= 4 PROVE UninstallGoes'
  BY Cases DEF UninstallGoes
<1>1. UNCHANGED <<fixture, check, fault>> /\ M \in Data
  BY Cases
<1>2. CASE pos' = pos /\ (M' = M \/ (M' = Work(M) /\ CanWork(fixture, M)))
  <2>1. M'.files = M.files
    BY <1>1, <1>2, WorkDoes
  <2> QED BY <1>1, <1>2, <2>1 DEF UninstallGoes
<1>3. CASE OnPath /\ Turns /\ ~Thrown
  <2>1. pos \in 1..4 /\ (pos = 3 => Step.do = "uninstall") /\ (pos = 4 => Step.do = "stop") /\ Step.who = "first"
        /\ Step.do # "settle"
    BY <1>3, UninstallPath DEF OnPath
  <2>2. pos' \in {pos, pos + 1}
    BY <1>3, NextPlace
  <2>3. CASE pos = 3
    BY <1>1, <1>3, <2>1, <2>3, MainTurn, RemovedIs DEF UninstallGoes
  <2>4. CASE pos = 4
    <3>1. M'.files = M.files
      BY <1>1, <1>3, <2>1, <2>4, MainTurn, StopDoes
    <3> QED BY <1>1, <2>4, <3>1 DEF UninstallGoes
  <2>5. pos \in {3, 4}
    BY <1>3, <2>1, <2>2, NextPlace
  <2> QED BY <2>3, <2>4, <2>5
<1>4. CASE Thrown
  BY <1>4 DEF Thrown
<1> QED BY <1>2, <1>3, <1>4, Cases

LEMMA SweepKept == ASSUME Shape, Settling, SweepGoes, Open, Next PROVE SweepGoes'
<1> SUFFICES ASSUME check \in {"residue-inventory", "model-cache"} PROVE SweepGoes'
  BY Cases DEF SweepGoes
<1>1. UNCHANGED <<fixture, check, fault>> /\ M \in Data /\ pos \in Nat
  BY Cases
<1>2. CASE Unseen /\ pos = 0 /\ pos' = 1 /\ M' = M
  BY <1>1, <1>2 DEF SweepGoes, Unseen
<1>3. CASE pos' = pos /\ Unseen /\ (M' = M \/ (M' = Work(M) /\ CanWork(fixture, M)))
  <2>1. M'.files = M.files /\ M'.company = M.company /\ M'.corrupt = M.corrupt /\ M'.live = M.live
    BY <1>1, <1>3, WorkDoes
  <2> QED BY <1>1, <1>3, <2>1 DEF SweepGoes, Unseen
<1>4. CASE OnPath /\ Turns /\ ~Thrown
  <2>1. /\ pos \in 1..7 /\ Step.who = "first"
        /\ Step.do \in {"sweep", "start", "install", "configure", "query", "status", "stop"}
        /\ Step.do = "sweep" <=> pos = 1
        /\ Step.do = "start" <=> pos = 2
        /\ Step.do = "install" <=> pos = 3
    <3>1. CASE check = "residue-inventory"
      BY <1>4, <3>1, ResiduePath DEF OnPath
    <3>2. CASE check = "model-cache"
      BY <1>4, <3>2, CachePath DEF OnPath
    <3> QED BY <3>1, <3>2
  <2>2. CASE pos = 1
    <3>1. M.files = {} /\ baseline' = {} /\ M' = M /\ pos' = 2
      BY <1>4, <2>1, <2>2, MainTurn
    <3> QED BY <1>1, <2>2, <3>1 DEF SweepGoes
  <2>3. CASE pos = 2
    <3>1. M' = Start(fixture, M) /\ Unseen /\ pos' = 3
      BY <1>4, <2>1, <2>3, MainTurn DEF Kept
    <3>2. /\ M'.files \ {"ledger", "paused"} = M.files \ {"ledger", "paused"} /\ M'.corrupt = M.corrupt
          /\ "paused" \in M'.files <=> "paused" \in M.files /\ fixture # "forgets-pause-on-restart"
          /\ fixture # "corrupts-on-company" => M'.company = M.company
          /\ fixture = "corrupts-on-company" /\ "paused" \notin M.files => (M'.company <=> M.company \/ M.live >= 1)
      <4> DEFINE e == Start(fixture, M)
      <4>1. /\ e.files \ {"ledger", "paused"} = M.files \ {"ledger", "paused"} /\ e.corrupt = M.corrupt
            /\ "paused" \in e.files <=> "paused" \in M.files /\ fixture # "forgets-pause-on-restart"
            /\ fixture # "corrupts-on-company" => e.company = M.company
            /\ fixture = "corrupts-on-company" /\ "paused" \notin M.files => (e.company <=> M.company \/ M.live >= 1)
        BY <1>1, StartDoes
      <4> HIDE DEF e
      <4> QED BY <3>1, <4>1 DEF e
    <3>3. "paused" \notin M.files /\ M.live = 0 /\ ~M.company /\ ~M.corrupt
      BY <2>3 DEF SweepGoes
    <3>4. ~M'.company
      BY <3>2, <3>3
    <3>5. "stray" \in M'.files => "stray" \in M.files
      BY <3>2
    <3> QED BY <1>1, <2>3, <3>1, <3>2, <3>3, <3>4, <3>5 DEF SweepGoes, Unseen
  <2>4. CASE pos = 3
    <3>1. M' = Install(fixture, M) /\ Unseen /\ pos' = 4
      BY <1>4, <2>1, <2>4, MainTurn DEF Kept
    <3>2. /\ M'.files = M.files \cup {"index"} \cup (IF fixture = "strays" THEN {"stray"} ELSE {})
          /\ M'.company = M.company /\ M'.corrupt = M.corrupt
      BY <1>1, <3>1, InstallDoes DEF Quietly
    <3> QED BY <1>1, <2>4, <3>1, <3>2 DEF SweepGoes, Unseen
  <2>5. CASE pos >= 4
    <3>1. Step.do \in {"configure", "query", "status", "stop"}
      BY <2>1, <2>5
    <3>2. M' = M \/ M' = Stop(fixture, M)
      BY <1>4, <2>1, <3>1, MainTurn
    <3>3. baseline' = baseline /\ pos' = pos + 1
      <4>1. CASE Step.do = "query"
        BY <1>4, <2>1, <4>1, MainTurn
      <4>2. CASE Step.do # "query"
        BY <1>4, <2>1, <3>1, <4>2, MainTurn DEF Kept, Unseen
      <4> QED BY <4>1, <4>2
    <3>4. M'.files = M.files /\ M'.company = M.company /\ (M'.corrupt => M.corrupt \/ M.company)
      BY <1>1, <3>2, StopDoes
    <3> QED BY <1>1, <2>1, <2>5, <3>3, <3>4 DEF SweepGoes
  <2> QED BY <2>1, <2>2, <2>3, <2>4, <2>5
<1>5. CASE Thrown
  BY <1>5 DEF Thrown
<1> QED BY <1>2, <1>3, <1>4, <1>5, Cases

-----------------------------------------------------------------------------
(* The pause: its positive control, and the target that must heed it.      *)
LEMMA ControlPath ==
  ASSUME check \in Pausing, OnPath, pos <= 9
  PROVE  /\ Step.who = "control"
         /\ Step.do = CASE pos = 1 -> "independent" [] pos = 2 -> "start" [] pos = 3 -> "counters"
                        [] pos = 4 -> "install" [] pos \in {5, 7} -> "settle" [] pos = 6 -> "background"
                        [] pos = 8 -> "stop" [] pos = 9 -> "created"
         /\ pos = 5 => Step.as = "before"
         /\ pos = 7 => Step.as = "after"
<1>1. pos \in {1, 2, 3, 4, 5, 6, 7, 8, 9}
  BY StopsPath, HoldsPath DEF OnPath, Pausing
<1>2. CASE check = "pause-stops"
  BY <1>1, <1>2, StopsPath DEF OnPath
<1>3. CASE check = "pause-holds"
  BY <1>1, <1>3, HoldsPath DEF OnPath
<1> QED BY <1>2, <1>3 DEF Pausing

LEMMA TargetPath ==
  ASSUME check \in Pausing, OnPath, pos >= 10
  PROVE  /\ Step.who = "first" /\ pos <= SameAt + 2
         /\ Step.do = CASE pos = 10 -> "start" [] pos = 11 -> "counters" [] pos = 12 -> "install"
                        [] pos \in {13, 15} -> "settle" [] pos = 14 -> "pause"
                        [] pos = SameAt -> "same" [] pos = SameAt + 1 -> "settle" [] pos = SameAt + 2 -> "stop"
                        [] pos = 16 /\ SameAt = 20 -> "stop" [] pos = 17 /\ SameAt = 20 -> "start"
                        [] pos = 18 /\ SameAt = 20 -> "counters" [] pos = 19 /\ SameAt = 20 -> "settle"
         /\ pos \in {13, 15, 19} /\ pos < SameAt => Step.as = "before"
         /\ pos = SameAt + 1 => Step.as = "after"
         /\ SameAt \in {16, 20} /\ (SameAt = 20 <=> check = "pause-holds")
<1>1. CASE check = "pause-stops"
  <2>1. SameAt = 16
    BY <1>1 DEF SameAt
  <2>2. pos \in {10, 11, 12, 13, 14, 15, 16, 17, 18}
    BY <1>1, StopsPath DEF OnPath
  <2> QED BY <1>1, <2>1, <2>2, StopsPath DEF OnPath
<1>2. CASE check = "pause-holds"
  <2>1. SameAt = 20
    BY <1>2 DEF SameAt
  <2>2. pos \in {10, 11, 12, 13, 14, 15, 16, 17, 18, 19, 20, 21, 22}
    BY <1>2, HoldsPath DEF OnPath
  <2>3. /\ Step.who = "first" /\ pos <= 22
        /\ pos \in {13, 15, 19} => Step.as = "before"
        /\ pos = 21 => Step.as = "after"
    BY <1>2, <2>2, HoldsPath DEF OnPath
  <2>4. /\ pos \in {10, 17} => Step.do = "start"
        /\ pos \in {11, 18} => Step.do = "counters"
        /\ pos = 12 => Step.do = "install"
        /\ pos \in {13, 15, 19, 21} => Step.do = "settle"
        /\ pos = 14 => Step.do = "pause"
        /\ pos \in {16, 22} => Step.do = "stop"
        /\ pos = 20 => Step.do = "same"
    BY <1>2, HoldsPath DEF OnPath
  <2> QED BY <1>2, <2>1, <2>2, <2>3, <2>4
<1> QED BY <1>1, <1>2 DEF Pausing

LEMMA OwedWorks ==
  ASSUME Shape, NEW d \in Data, CanWork(fixture, d), Owed(d)
  PROVE  Risen(Work(d)) /\ Owed(Work(d))
<1> DEFINE base == reads["before"]
           k == d.pending[1][1]
           n == d.pending[1][2]
           e == Work(d)
<1>1. base \in Works /\ d.work \in Works
  BY DEF Shape, Data
<1>2. /\ d.pending # <<>> /\ d.pending[1] \in Batch
      /\ \A c \in Counters : e.work[c] = d.work[c] + IF c = k THEN n ELSE 0
  BY WorkDoes
<1>3. k \in Counters /\ n \in Nat /\ n >= 1
  BY <1>2 DEF Batch, Amount
<1> HIDE DEF k, n, e, base
<1>4. CASE Due(d)
  <2>1. k[3] = "done" /\ d.work = base
    BY <1>4 DEF Due, k, base
  <2>2. e.work[k] > base[k]
    BY <1>1, <1>2, <1>3, <2>1 DEF Works
  <2> QED BY <1>3, <2>1, <2>2 DEF Risen, Owed, e, base
<1>5. CASE Risen(d)
  <2>1. PICK c \in Counters : c[3] = "done" /\ d.work[c] > base[c]
    BY <1>5 DEF Risen, base
  <2>2. e.work[c] > base[c]
    BY <1>1, <1>2, <1>3, <2>1 DEF Works
  <2> QED BY <2>1, <2>2 DEF Risen, Owed, e, base
<1> QED BY <1>4, <1>5 DEF Owed

(* The two readings say what the arena's counters said.                    *)
LEMMA MovedIs ==
  ASSUME NEW d, reads'["after"] = d.work, reads'["before"] = reads["before"]
  PROVE  /\ Moved("done")' # {} <=> Risen(d)
         /\ d.work = reads["before"] /\ d.work \in Works => Moved("done")' = {}
BY DEF Moved, Risen, Works

LEMMA Halted ==
  ASSUME NEW d \in Data, ~CanWork(fixture, d)
  PROVE  ~IsPaused(fixture, d) => d.pending = <<>>
BY DEF CanWork

LEMMA ControlKept == ASSUME Shape, Settling, ControlGoes, Open, Next PROVE ControlGoes'
<1> SUFFICES ASSUME check \in Pausing PROVE ControlGoes'
  BY Cases DEF ControlGoes
<1>1. UNCHANGED <<fixture, check, fault>> /\ C \in Data /\ pos \in Nat
  BY Cases
<1>2. "paused" \notin C.files /\ ~IsPaused(fixture, C)
  BY DEF ControlGoes, IsPaused
<1>3. CASE Unseen /\ pos = 0 /\ pos' = 1 /\ C' = C
  BY <1>1, <1>3 DEF ControlGoes, Unseen
<1>4. CASE pos' = pos /\ Unseen /\ C' = C
  BY <1>1, <1>4 DEF ControlGoes, Unseen, Settled, Owed, Due, Risen, Moved
<1>5. CASE pos' = pos /\ Unseen /\ C' = Work(C) /\ CanWork(fixture, C)
  <2>1. C'.files = C.files /\ C'.edited = C.edited /\ C.pending # <<>>
    BY <1>1, <1>5, WorkDoes
  <2>2. pos = 7 => Owed(C)'
    <3>1. pos = 7 => Owed(Work(C)) 
      BY <1>1, <1>5, OwedWorks DEF ControlGoes
    <3> QED BY <1>5, <3>1 DEF Unseen, Owed, Due, Risen
  <2>3. pos # 6
    BY <2>1 DEF ControlGoes, Settled
  <2> QED BY <1>1, <1>5, <2>1, <2>2, <2>3 DEF ControlGoes, Unseen, Moved
<1>6. CASE OnPath /\ Turns /\ ~Thrown /\ pos >= 10
  <2>1. C' = C
    <3>1. /\ Step.who = "first"
          /\ Step.do \in {"start", "stop", "install", "pause", "counters", "settle", "same"}
      <4>1. CASE check = "pause-stops"
        BY <1>6, <4>1, StopsPath DEF OnPath
      <4>2. CASE check = "pause-holds"
        BY <1>6, <4>2, HoldsPath DEF OnPath
      <4> QED BY <4>1, <4>2 DEF Pausing
    <3> QED BY <1>6, <3>1, MainTurn DEF Kept, SettleStep
  <2>2. pos' \in {pos, pos + 1}
    BY <1>6, NextPlace
  <2> QED BY <1>1, <1>6, <2>1, <2>2 DEF ControlGoes
<1>7. CASE OnPath /\ Turns /\ ~Thrown /\ pos <= 9
  <2>1. /\ pos \in {1, 2, 3, 4, 5, 6, 7, 8, 9} /\ Step.who = "control"
        /\ Step.do = CASE pos = 1 -> "independent" [] pos = 2 -> "start" [] pos = 3 -> "counters"
                        [] pos = 4 -> "install" [] pos \in {5, 7} -> "settle" [] pos = 6 -> "background"
                        [] pos = 8 -> "stop" [] pos = 9 -> "created"
        /\ pos = 5 => Step.as = "before"
        /\ pos = 7 => Step.as = "after"
    BY <1>1, <1>7, ControlPath DEF OnPath
  <2>2. fault # "shared"
    <3>1. CASE pos = 1
      <4>1. Step.do = "independent"
        BY <2>1, <3>1
      <4> QED BY <1>7, <4>1, TurnDoes
    <3> QED BY <1>1, <2>1, <3>1 DEF ControlGoes
  <2>3. CASE pos \in {1, 3, 9}
    <3>1. Step.do \in {"independent", "counters", "created"}
      BY <2>1, <2>3
    <3>2. C' = C /\ pos' = pos + 1 /\ Unseen
      BY <1>7, <2>1, <2>2, <3>1, ControlTurn DEF Kept
    <3> QED BY <1>1, <2>2, <2>3, <3>2 DEF ControlGoes
  <2>4. CASE pos \in {2, 4, 8}
    <3>1. Step.do = (IF pos = 2 THEN "start" ELSE IF pos = 4 THEN "install" ELSE "stop")
      BY <2>1, <2>4
    <3>2. C' \in {Start(fixture, C), Install(fixture, C), Stop(fixture, C)} /\ pos' = pos + 1 /\ Unseen
      BY <1>7, <2>1, <2>2, <2>4, <3>1, ControlTurn DEF Kept
    <3>3. ("paused" \in C'.files => "paused" \in C.files) /\ (C'.edited <=> C.edited)
      <4>1. CASE C' = Start(fixture, C)
        BY <1>1, <4>1, StartDoes
      <4>2. CASE C' = Install(fixture, C)
        BY <1>1, <4>2, InstallDoes
      <4>3. CASE C' = Stop(fixture, C)
        BY <1>1, <4>3, StopDoes
      <4> QED BY <3>2, <4>1, <4>2, <4>3
    <3> QED BY <1>1, <1>2, <2>2, <2>4, <3>2, <3>3 DEF ControlGoes, Unseen, Moved
  <2>5. CASE pos = 5
    <3>1. SettleStep(C) /\ Step.as = "before"
      BY <1>7, <2>1, <2>2, <2>5, ControlTurn
    <3>2. CASE pos' = pos
      BY <1>1, <2>2, <2>5, <3>1, <3>2 DEF SettleStep, ControlGoes
    <3>3. CASE pos' # pos
      <4>1. pos' = 6 /\ C' = C /\ ~CanWork(fixture, C) /\ reads'["before"] = C.work
        BY <2>5, <3>1, <3>3 DEF SettleStep
      <4>2. C.pending = <<>>
        BY <1>1, <1>2, <4>1, Halted
      <4> QED BY <1>1, <2>2, <2>5, <4>1, <4>2 DEF ControlGoes, Settled
    <3> QED BY <3>2, <3>3
  <2>6. CASE pos = 6
    <3>1. PICK what \in EditsOne : C' = Perturb(fixture, C, what) /\ pos' = 7 /\ reads' = reads
      BY <1>7, <2>1, <2>2, <2>6, ControlTurn
    <3>2. Settled(C) /\ ~C.edited
      BY <2>6 DEF ControlGoes
    <3>3. C'.work = C.work /\ C'.pending = EditWork(fixture, what) /\ C'.files \in {C.files, C.files \cup {"ledger"}}
      BY <1>1, <1>2, <3>1, <3>2, EditDoes DEF Settled, Quietly
    <3>4. Due(C)'
      BY <3>1, <3>2, <3>3, EditWorks DEF Due, Settled
    <3> QED BY <1>1, <1>2, <2>2, <3>1, <3>3, <3>4 DEF ControlGoes, Owed
  <2>7. CASE pos = 7
    <3>1. SettleStep(C) /\ Step.as = "after"
      BY <1>7, <2>1, <2>2, <2>7, ControlTurn
    <3>2. CASE pos' = pos
      BY <1>1, <2>2, <2>7, <3>1, <3>2 DEF SettleStep, ControlGoes, Owed, Due, Risen
    <3>3. CASE pos' # pos
      <4>1. pos' = 8 /\ C' = C /\ ~CanWork(fixture, C) /\ reads'["after"] = C.work /\ reads'["before"] = reads["before"]
        BY <2>7, <3>1, <3>3 DEF SettleStep
      <4>2. C.pending = <<>>
        BY <1>1, <1>2, <4>1, Halted
      <4>3. Risen(C)
        BY <2>7, <4>2 DEF ControlGoes, Owed, Due
      <4>4. Moved("done")' # {}
        BY <4>1, <4>3, MovedIs
      <4> QED BY <1>1, <1>2, <2>2, <4>1, <4>4 DEF ControlGoes
    <3> QED BY <3>2, <3>3
  <2> QED BY <2>1, <2>3, <2>4, <2>5, <2>6, <2>7
<1>8. CASE Thrown
  BY <1>8 DEF Thrown, Pausing
<1> QED BY <1>1, <1>3, <1>4, <1>5, <1>6, <1>7, <1>8, Cases

LEMMA PauseReds ==
  ASSUME check \in Pausing
  PROVE  Unheeded <=> fixture = "ignores-pause" \/ (check = "pause-holds" /\ fixture = "forgets-pause-on-restart")
BY DEF Unheeded, RedFor, Pausing

LEMMA Heeds ==
  ASSUME check \in Pausing, pos \in Nat, PauseGoes, pos >= (IF check = "pause-stops" THEN 15 ELSE 18)
  PROVE  IsPaused(fixture, M) <=> ~Unheeded
<1>1. "paused" \notin M.files <=> check = "pause-holds" /\ fixture = "forgets-pause-on-restart"
  BY DEF PauseGoes, Pausing
<1> QED BY <1>1, PauseReds DEF IsPaused, Pausing

LEMMA PauseKept == ASSUME Shape, Settling, ControlGoes, PauseGoes, Open, Next PROVE PauseGoes'
<1> SUFFICES ASSUME check \in Pausing PROVE PauseGoes'
  BY Cases DEF PauseGoes
<1>1. UNCHANGED <<fixture, check, fault>> /\ M \in Data /\ pos \in Nat
  BY Cases
<1>2. UNCHANGED <<SameAt, Unheeded>> /\ SameAt \in {16, 20} /\ (SameAt = 20 <=> check = "pause-holds")
  BY <1>1 DEF SameAt, Unheeded, Pausing
<1>3. CASE pos \in {0, 1, 2, 3, 4, 5, 6, 7, 8, 9} /\ pos' \in {pos, pos + 1} /\ M' = M
  BY <1>1, <1>2, <1>3 DEF PauseGoes
<1>4. CASE pos' = pos /\ Unseen /\ M' = M
  <2>1. (Owed(M)' <=> Owed(M)) /\ Moved("done")' = Moved("done") /\ reads' = reads
    BY <1>4 DEF Owed, Due, Risen, Unseen, Moved
  <2> QED BY <1>1, <1>2, <1>4, <2>1 DEF PauseGoes
<1>5. CASE pos' = pos /\ Unseen /\ M' = Work(M) /\ CanWork(fixture, M)
  <2>1. M'.files = M.files /\ M'.edited = M.edited /\ M.pending # <<>> /\ ~IsPaused(fixture, M)
    BY <1>1, <1>5, WorkDoes DEF CanWork
  <2>2. pos >= SameAt => Unheeded
    BY <1>1, <1>2, <2>1, Heeds DEF Pausing
  <2>3. pos = SameAt + 1 => Owed(M)'
    <3>1. pos = SameAt + 1 => Owed(Work(M))
      BY <1>1, <1>2, <1>5, <2>2, OwedWorks DEF PauseGoes
    <3> QED BY <1>5, <3>1 DEF Unseen, Owed, Due, Risen
  <2>4. pos # SameAt
    BY <1>2, <2>1, <2>2 DEF PauseGoes
  <2>5. Moved("done")' = Moved("done")
    BY <1>5 DEF Unseen, Moved
  <2> QED BY <1>1, <1>2, <1>5, <2>1, <2>2, <2>3, <2>4, <2>5 DEF PauseGoes
<1>6. CASE OnPath /\ Turns /\ ~Thrown /\ pos <= 9
  <2>1. /\ pos \in {1, 2, 3, 4, 5, 6, 7, 8, 9} /\ Step.who = "control"
        /\ Step.do \in {"independent", "start", "counters", "install", "settle", "background", "stop", "created"}
        /\ pos = 1 => Step.do = "independent"
    BY <1>1, <1>6, ControlPath DEF OnPath
  <2>2. fault # "shared"
    <3>1. CASE pos = 1
      BY <1>6, <2>1, <3>1, TurnDoes
    <3> QED BY <1>1, <2>1, <3>1 DEF ControlGoes
  <2>3. M' = M
    BY <1>6, <2>1, <2>2, ControlTurn DEF Kept, SettleStep
  <2>4. pos' \in {pos, pos + 1}
    BY <1>6, NextPlace
  <2> QED BY <1>3, <2>1, <2>3, <2>4
<1>7. CASE OnPath /\ Turns /\ ~Thrown /\ pos >= 10
  <2>1. /\ Step.who = "first" /\ pos <= SameAt + 2
        /\ Step.do = CASE pos = 10 -> "start" [] pos = 11 -> "counters" [] pos = 12 -> "install"
                       [] pos \in {13, 15} -> "settle" [] pos = 14 -> "pause"
                       [] pos = SameAt -> "same" [] pos = SameAt + 1 -> "settle" [] pos = SameAt + 2 -> "stop"
                       [] pos = 16 /\ SameAt = 20 -> "stop" [] pos = 17 /\ SameAt = 20 -> "start"
                       [] pos = 18 /\ SameAt = 20 -> "counters" [] pos = 19 /\ SameAt = 20 -> "settle"
        /\ pos \in {13, 15, 19} /\ pos < SameAt => Step.as = "before"
        /\ pos = SameAt + 1 => Step.as = "after"
    BY <1>7, TargetPath
  <2>2. /\ Step.do = "start" => M' = Start(fixture, M) /\ Kept("main")
        /\ Step.do = "stop" => M' = Stop(fixture, M) /\ Kept("main")
        /\ Step.do = "install" => M' = Install(fixture, M) /\ Kept("main")
        /\ Step.do = "pause" => M' = Pause(M) /\ Kept("main")
        /\ Step.do = "counters" => M' = M /\ Kept("main")
        /\ Step.do = "settle" => SettleStep(M)
        /\ Step.do = "same" => M' = Perturb(fixture, M, candidate) /\ pos' = pos + 1 /\ reads' = reads
    BY <1>7, <2>1, MainTurn
  <2>3. CASE pos \in {10, 17} /\ pos # SameAt + 1
    <3>1. M' = Start(fixture, M) /\ pos' = pos + 1
      BY <1>2, <2>1, <2>2, <2>3 DEF Kept
    <3>2. /\ M'.edited = M.edited
          /\ "paused" \in M'.files <=> "paused" \in M.files /\ fixture # "forgets-pause-on-restart"
          /\ "ledger" \in M.files => "ledger" \in M'.files
          /\ ~IsPaused(fixture, M) => "ledger" \in M'.files
      BY <1>1, <3>1, StartDoes
    <3>3. pos = 10 => ~IsPaused(fixture, M)
      BY DEF PauseGoes, IsPaused
    <3> QED BY <1>1, <1>2, <2>1, <2>3, <3>1, <3>2, <3>3 DEF PauseGoes
  <2>4. CASE pos \in {11, 18} /\ pos # SameAt + 2
    <3>1. M' = M /\ pos' = pos + 1
      BY <1>2, <2>1, <2>2, <2>4 DEF Kept
    <3> QED BY <1>1, <1>2, <2>1, <2>4, <3>1 DEF PauseGoes
  <2>5. CASE pos \in {12, 14}
    <3>1. M' = (IF pos = 12 THEN Install(fixture, M) ELSE Pause(M)) /\ pos' = pos + 1
      BY <1>2, <2>1, <2>2, <2>5 DEF Kept
    <3>2. /\ M'.edited = M.edited
          /\ "paused" \in M'.files <=> pos = 14 \/ "paused" \in M.files
          /\ "ledger" \in M.files => "ledger" \in M'.files
      <4>1. CASE pos = 12
        BY <1>1, <3>1, <4>1, InstallDoes
      <4>2. CASE pos = 14
        BY <1>1, <3>1, <4>2, PauseDoes
      <4> QED BY <2>5, <4>1, <4>2
    <3> QED BY <1>1, <1>2, <2>5, <3>1, <3>2 DEF PauseGoes
  <2>6. CASE pos \in {13, 15, 19} /\ pos < SameAt
    <3>1. SettleStep(M) /\ Step.as = "before"
      BY <1>2, <2>1, <2>2, <2>6
    <3>2. CASE pos' = pos
      BY <1>1, <1>2, <2>6, <3>1, <3>2 DEF SettleStep, PauseGoes
    <3>3. CASE pos' # pos
      <4>1. pos' = pos + 1 /\ M' = M /\ ~CanWork(fixture, M) /\ reads'["before"] = M.work
        BY <3>1, <3>3 DEF SettleStep
      <4>2. pos' = SameAt /\ Unheeded => M.pending = <<>>
        <5> SUFFICES ASSUME pos' = SameAt, Unheeded PROVE M.pending = <<>>
          OBVIOUS
        <5>1. ~IsPaused(fixture, M)
          BY <1>1, <1>2, <2>6, <4>1, Heeds DEF Pausing
        <5> QED BY <1>1, <4>1, <5>1, Halted
      <4> QED BY <1>1, <1>2, <2>6, <4>1, <4>2 DEF PauseGoes
    <3> QED BY <3>2, <3>3
  <2>7. CASE pos = 16 /\ SameAt = 20
    <3>1. M' = Stop(fixture, M) /\ pos' = 17
      BY <2>1, <2>2, <2>7 DEF Kept
    <3>2. M'.files = M.files /\ M'.edited = M.edited
      BY <1>1, <3>1, StopDoes
    <3> QED BY <1>1, <1>2, <2>7, <3>1, <3>2 DEF PauseGoes
  <2>8. CASE pos = SameAt
    <3>1. M' = Perturb(fixture, M, candidate) /\ pos' = pos + 1 /\ reads' = reads /\ candidate \in EditsOne
      BY <1>2, <2>1, <2>2, <2>8 DEF Shape
    <3>2. ~M.edited /\ M.work = reads["before"] /\ (Unheeded => M.pending = <<>> /\ ~IsPaused(fixture, M))
      BY <1>1, <1>2, <2>8, Heeds DEF PauseGoes, Pausing
    <3>3. /\ M'.work = M.work /\ M'.files \in {M.files, M.files \cup {"ledger"}}
          /\ Unheeded => M'.pending = EditWork(fixture, candidate)
      <4> DEFINE e == Perturb(fixture, M, candidate)
      <4>1. e.work = M.work /\ e.files \in {M.files, M.files \cup {"ledger"}}
        <5>1. M \in Data /\ candidate \in EditsOne
          BY <1>1, <3>1
        <5>2. Quietly(M, e) /\ e.files \in {M.files, M.files \cup {"ledger"}}
          BY <5>1, EditDoes
        <5> QED BY <5>2 DEF Quietly
      <4>2. ~IsPaused(fixture, M) /\ ~M.edited /\ M.pending = <<>> => e.pending = EditWork(fixture, candidate)
        BY <1>1, <3>1, EditDoes
      <4> HIDE DEF e
      <4> QED BY <3>1, <3>2, <4>1, <4>2 DEF e
    <3>4. Unheeded => Due(M)'
      BY <3>1, <3>2, <3>3, EditWorks DEF Due
    <3>5. ("paused" \in M'.files <=> "paused" \in M.files) /\ ("ledger" \in M.files => "ledger" \in M'.files)
      BY <3>3
    <3> QED BY <1>1, <1>2, <2>8, <3>1, <3>2, <3>3, <3>4, <3>5 DEF PauseGoes, Owed
  <2>9. CASE pos = SameAt + 1
    <3>1. SettleStep(M) /\ Step.as = "after"
      BY <1>2, <2>1, <2>2, <2>9
    <3>2. CASE pos' = pos
      <4>1. M' = M /\ reads' = reads
        BY <1>1, <3>1, <3>2 DEF SettleStep
      <4>2. Owed(M)' <=> Owed(M)
        BY <4>1 DEF Owed, Due, Risen
      <4> QED BY <1>1, <1>2, <2>9, <3>2, <4>1, <4>2 DEF PauseGoes
    <3>3. CASE pos' # pos
      <4>1. /\ pos' = pos + 1 /\ M' = M /\ ~CanWork(fixture, M)
            /\ reads'["after"] = M.work /\ reads'["before"] = reads["before"]
        BY <3>1, <3>3 DEF SettleStep
      <4>2. CASE Unheeded
        <5>1. M.pending = <<>>
          BY <1>1, <1>2, <2>9, <4>1, <4>2, Heeds, Halted DEF Pausing
        <5>2. Risen(M)
          BY <2>9, <4>2, <5>1 DEF PauseGoes, Owed, Due
        <5>3. Moved("done")' # {}
          BY <4>1, <5>2, MovedIs
        <5> QED BY <1>1, <1>2, <2>9, <4>1, <4>2, <5>3 DEF PauseGoes
      <4>3. CASE ~Unheeded
        <5>1. M.work = reads["before"] /\ M.work \in Works
          BY <1>1, <2>9, <4>3 DEF PauseGoes, Data
        <5>2. Moved("done")' = {}
          BY <4>1, <5>1, MovedIs
        <5> QED BY <1>1, <1>2, <2>9, <4>1, <4>3, <5>2 DEF PauseGoes
      <4> QED BY <4>2, <4>3
    <3> QED BY <3>2, <3>3
  <2>10. CASE pos = SameAt + 2
    <3>1. M' = Stop(fixture, M) /\ pos' = pos + 1 /\ Unseen
      BY <1>2, <2>1, <2>2, <2>10 DEF Kept
    <3>2. M'.files = M.files
      BY <1>1, <3>1, StopDoes
    <3>3. Moved("done")' = Moved("done")
      BY <3>1 DEF Unseen, Moved
    <3> QED BY <1>1, <1>2, <2>10, <3>1, <3>2, <3>3 DEF PauseGoes
  <2> QED BY <1>1, <1>2, <1>7, <2>1, <2>3, <2>4, <2>5, <2>6, <2>7, <2>8, <2>9, <2>10
<1>8. CASE Thrown
  BY <1>8 DEF Thrown, Pausing
<1> QED BY <1>1, <1>3, <1>4, <1>5, <1>6, <1>7, <1>8, Cases

-----------------------------------------------------------------------------
(* The edit, the resync and the pair's work.                               *)
LEMMA TailOfTwo ==
  ASSUME NEW T, NEW s \in Seq(T), Len(s) = 2
  PROVE  Tail(s) = <<s[2]>>
<1>1. s # <<>> /\ s[2] \in T
  OBVIOUS
<1>2. Tail(s) \in Seq(T)
  BY <1>1, HeadTailProperties
<1>3. Len(Tail(s)) = 1
  BY <1>1, HeadTailProperties
<1>4. Tail(s)[1] = s[2]
  BY <1>1, <1>3, HeadTailProperties
<1>5. <<s[2]>> \in Seq(T) /\ Len(<<s[2]>>) = 1
  BY <1>1
<1>6. ASSUME NEW i \in 1..1 PROVE Tail(s)[i] = <<s[2]>>[i]
  <2>1. i = 1
    OBVIOUS
  <2> QED BY <1>4, <2>1
<1> QED BY <1>2, <1>3, <1>5, <1>6, SeqEqual

LEMMA UnderWayWorks ==
  ASSUME Shape, NEW d \in Data, NEW b \in Seq(Batch), Len(b) = 2, CanWork(fixture, d), UnderWay(d, b)
  PROVE  UnderWay(Work(d), b)
<1> DEFINE base == reads["before"]
           e == Work(d)
<1>1. base \in Works /\ d.work \in Works
  BY DEF Shape, Data
<1>2. /\ e \in Data /\ d.pending # <<>> /\ e.pending = Tail(d.pending)
      /\ \A c \in Counters : e.work[c] = d.work[c] + IF c = d.pending[1][1] THEN d.pending[1][2] ELSE 0
  BY WorkDoes
<1>3. \A w, x : Plus(w, x) = [c \in Counters |-> w[c] + IF c = x[1] THEN x[2] ELSE 0]
  BY DEF Plus
<1>4. e.work = Plus(d.work, d.pending[1])
  <2>1. e.work \in Works
    BY <1>2 DEF Data
  <2> HIDE DEF e
  <2> QED BY <1>2, <1>3, <2>1 DEF Works
<1> HIDE DEF e, base
<1>5. CASE d.pending = b /\ d.work = base
  <2>1. Tail(b) = <<b[2]>>
    BY TailOfTwo
  <2> QED BY <1>2, <1>4, <1>5, <2>1 DEF UnderWay, e, base
<1>6. CASE d.pending = <<b[2]>> /\ d.work = Plus(base, b[1])
  <2>1. Tail(<<b[2]>>) = <<>> /\ <<b[2]>>[1] = b[2]
    OBVIOUS
  <2> QED BY <1>2, <1>4, <1>6, <2>1 DEF UnderWay, e, base
<1> QED BY <1>2, <1>5, <1>6 DEF UnderWay, base

LEMMA UnderWayEnds ==
  ASSUME NEW d, NEW b, Len(b) = 2, b \in Seq(Batch), d.pending = <<>>, UnderWay(d, b)
  PROVE  d.work = Plus(Plus(reads["before"], b[1]), b[2])
BY DEF UnderWay

LEMMA EditKept == ASSUME Shape, Settling, EditGoes, Open, Next PROVE EditGoes'
<1> SUFFICES ASSUME check = "edit" PROVE EditGoes'
  BY Cases DEF EditGoes
<1> DEFINE b == EditWork(fixture, "edit-one-item")
           both == Plus(Plus(reads["before"], b[1]), b[2])
<1>1. UNCHANGED <<fixture, check, fault, b>> /\ M \in Data /\ pos \in Nat
  BY Cases
<1>2. "paused" \notin M.files /\ ~IsPaused(fixture, M)
  BY DEF EditGoes, IsPaused
<1>3. b \in Seq(Batch) /\ Len(b) = 2
  <2>1. \A n \in Amount : Recompute("edit", 1, n) \in Seq(Batch) /\ Len(Recompute("edit", 1, n)) = 2
    BY Amounts, RecomputeBatches DEF Triggers
  <2> QED BY <2>1, Amounts DEF EditWork
<1> HIDE DEF b
<1>4. EditGoes <=> /\ "paused" \notin M.files /\ (pos <= 4 => ~M.edited)
                   /\ pos = 4 => Settled(M)
                   /\ pos = 5 => UnderWay(M, b)
                   /\ pos >= 6 => reads["after"] = both
  BY DEF EditGoes, b
<1>5. EditGoes' <=> /\ "paused" \notin M'.files /\ (pos' <= 4 => ~M'.edited)
                    /\ pos' = 4 => Settled(M)'
                    /\ pos' = 5 => UnderWay(M, b)'
                    /\ pos' >= 6 => reads'["after"] = both'
  BY <1>1 DEF EditGoes, b
<1>6. CASE Unseen /\ pos = 0 /\ pos' = 1 /\ M' = M
  BY <1>1, <1>2, <1>4, <1>5, <1>6
<1>7. CASE pos' = pos /\ Unseen /\ M' = M
  <2>1. (Settled(M)' <=> Settled(M)) /\ (UnderWay(M, b)' <=> UnderWay(M, b)) /\ both' = both
    BY <1>1, <1>7 DEF Settled, UnderWay, Unseen, Plus
  <2> QED BY <1>1, <1>4, <1>5, <1>7, <2>1 DEF Unseen
<1>8. CASE pos' = pos /\ Unseen /\ M' = Work(M) /\ CanWork(fixture, M)
  <2>1. M'.files = M.files /\ M'.edited = M.edited /\ M.pending # <<>>
    BY <1>1, <1>8, WorkDoes
  <2>2. pos = 5 => UnderWay(M, b)'
    <3>1. pos = 5 => UnderWay(Work(M), b)
      BY <1>1, <1>3, <1>4, <1>8, UnderWayWorks
    <3> QED BY <1>1, <1>8, <3>1 DEF Unseen, UnderWay, Plus
  <2>3. both' = both
    BY <1>1, <1>8 DEF Unseen, Plus
  <2>4. pos # 4
    BY <1>4, <2>1 DEF Settled
  <2> QED BY <1>1, <1>4, <1>5, <1>8, <2>1, <2>2, <2>3, <2>4 DEF Unseen
<1>9. CASE OnPath /\ Turns /\ ~Thrown
  <2>1. /\ pos \in {1, 2, 3, 4, 5, 6} /\ Step.who = "first"
        /\ pos = 1 => Step.do = "start"
        /\ pos = 2 => Step.do = "counters"
        /\ pos = 3 => Step.do = "settle" /\ Step.as = "before"
        /\ pos = 4 => Step.do = "perturb" /\ Step.as = "edit-one-item"
        /\ pos = 5 => Step.do = "settle" /\ Step.as = "after"
        /\ pos = 6 => Step.do = "stop"
    BY <1>9, EditPath DEF OnPath
  <2>2. CASE pos = 1
    <3>1. M' = Start(fixture, M) /\ pos' = 2
      BY <1>9, <2>1, <2>2, MainTurn DEF Kept
    <3>2. M'.edited = M.edited /\ ("paused" \in M'.files => "paused" \in M.files)
      BY <1>1, <3>1, StartDoes
    <3> QED BY <1>1, <1>4, <1>5, <2>2, <3>1, <3>2
  <2>3. CASE pos = 2
    <3>1. M' = M /\ pos' = 3
      BY <1>9, <2>1, <2>3, MainTurn DEF Kept
    <3> QED BY <1>1, <1>4, <1>5, <2>3, <3>1
  <2>4. CASE pos = 3
    <3>1. SettleStep(M)
      BY <1>9, <2>1, <2>4, MainTurn
    <3>2. CASE pos' = pos
      BY <1>1, <1>4, <1>5, <2>4, <3>1, <3>2 DEF SettleStep
    <3>3. CASE pos' # pos
      <4>1. pos' = 4 /\ M' = M /\ ~CanWork(fixture, M) /\ reads'["before"] = M.work
        BY <2>1, <2>4, <3>1, <3>3 DEF SettleStep
      <4>2. M.pending = <<>>
        BY <1>1, <1>2, <4>1, Halted
      <4> QED BY <1>1, <1>4, <1>5, <2>4, <4>1, <4>2 DEF Settled
    <3> QED BY <3>2, <3>3
  <2>5. CASE pos = 4
    <3>1. M' = Perturb(fixture, M, "edit-one-item") /\ pos' = 5 /\ reads' = reads
      BY <1>9, <2>1, <2>5, MainTurn
    <3>2. Settled(M) /\ ~M.edited
      BY <1>4, <2>5
    <3>3. Quietly(M, M') /\ M'.files \in {M.files, M.files \cup {"ledger"}} /\ M'.pending = b
      BY <1>1, <1>2, <3>1, <3>2, EditDoes DEF EditsOne, Settled, b
    <3>4. UnderWay(M, b)'
      BY <1>1, <3>1, <3>2, <3>3 DEF UnderWay, Settled, Quietly
    <3>5. "paused" \notin M'.files
      BY <1>2, <3>3
    <3> QED BY <1>1, <1>5, <3>1, <3>4, <3>5
  <2>6. CASE pos = 5
    <3>1. SettleStep(M) /\ Step.as = "after"
      BY <1>9, <2>1, <2>6, MainTurn
    <3>2. CASE pos' = pos
      <4>1. M' = M /\ reads' = reads
        BY <1>1, <3>1, <3>2 DEF SettleStep
      <4>2. UnderWay(M, b)' <=> UnderWay(M, b)
        BY <1>1, <4>1 DEF UnderWay, Plus
      <4> QED BY <1>1, <1>4, <1>5, <2>6, <3>2, <4>1, <4>2
    <3>3. CASE pos' # pos
      <4>1. /\ pos' = 6 /\ M' = M /\ ~CanWork(fixture, M)
            /\ reads'["before"] = reads["before"] /\ reads'["after"] = M.work
        BY <2>1, <2>6, <3>1, <3>3 DEF SettleStep
      <4>2. M.pending = <<>>
        BY <1>1, <1>2, <4>1, Halted
      <4>3. M.work = both
        BY <1>3, <1>4, <2>6, <4>2, UnderWayEnds
      <4>4. both' = both
        BY <1>1, <4>1 DEF Plus
      <4> QED BY <1>1, <1>4, <1>5, <2>6, <4>1, <4>3, <4>4
    <3> QED BY <3>2, <3>3
  <2>7. CASE pos = 6
    <3>1. M' = Stop(fixture, M) /\ pos' = 7 /\ reads' = reads
      BY <1>9, <2>1, <2>7, MainTurn DEF Kept, Unseen
    <3>2. M'.files = M.files
      BY <1>1, <3>1, StopDoes
    <3>3. both' = both
      BY <1>1, <3>1 DEF Plus
    <3> QED BY <1>1, <1>4, <1>5, <2>7, <3>1, <3>2, <3>3
  <2> QED BY <2>1, <2>2, <2>3, <2>4, <2>5, <2>6, <2>7
<1>10. CASE Thrown
  BY <1>10 DEF Thrown
<1> QED BY <1>6, <1>7, <1>8, <1>9, <1>10, Cases

LEMMA ResyncKept == ASSUME Shape, Settling, ResyncGoes, Open, Next PROVE ResyncGoes'
<1> SUFFICES ASSUME check = "resync" PROVE ResyncGoes'
  BY Cases DEF ResyncGoes
<1> DEFINE b == ResyncWork(fixture)
           quiet == fixture = "verifies-nothing-on-resync"
           both == Plus(Plus(reads["before"], b[1]), b[2])
<1>1. UNCHANGED <<fixture, check, fault, b, quiet>> /\ M \in Data /\ pos \in Nat
  BY Cases
<1>2. "paused" \notin M.files /\ ~IsPaused(fixture, M)
  BY DEF ResyncGoes, IsPaused
<1>3. b \in Seq(Batch) /\ Len(b) = 2
  <2>1. Len(b) = 2
    BY DEF ResyncWork
  <2> QED BY <1>1, <2>1, ResyncDoes
<1> HIDE DEF b, quiet
<1>4. ResyncGoes <=> /\ "paused" \notin M.files
                     /\ pos = 4 => Settled(M)
                     /\ pos = 5 => IF quiet THEN Settled(M) ELSE UnderWay(M, b)
                     /\ pos >= 6 => reads["after"] = IF quiet THEN reads["before"] ELSE both
  BY DEF ResyncGoes, b, quiet
<1>5. ResyncGoes' <=> /\ "paused" \notin M'.files
                      /\ pos' = 4 => Settled(M)'
                      /\ pos' = 5 => IF quiet THEN Settled(M)' ELSE UnderWay(M, b)'
                      /\ pos' >= 6 => reads'["after"] = IF quiet THEN reads'["before"] ELSE both'
  BY <1>1 DEF ResyncGoes, b, quiet
<1>6. CASE Unseen /\ pos = 0 /\ pos' = 1 /\ M' = M
  BY <1>1, <1>2, <1>4, <1>5, <1>6
<1>7. CASE pos' = pos /\ Unseen /\ M' = M
  <2>1. (Settled(M)' <=> Settled(M)) /\ (UnderWay(M, b)' <=> UnderWay(M, b)) /\ both' = both
    BY <1>1, <1>7 DEF Settled, UnderWay, Unseen, Plus
  <2> QED BY <1>1, <1>4, <1>5, <1>7, <2>1 DEF Unseen
<1>8. CASE pos' = pos /\ Unseen /\ M' = Work(M) /\ CanWork(fixture, M)
  <2>1. M'.files = M.files /\ M.pending # <<>>
    BY <1>1, <1>8, WorkDoes
  <2>2. pos = 5 => ~quiet /\ UnderWay(M, b)'
    <3>1. pos = 5 => ~quiet /\ UnderWay(M, b)
      BY <1>4, <2>1 DEF Settled
    <3>2. pos = 5 => UnderWay(Work(M), b)
      BY <1>1, <1>3, <1>8, <3>1, UnderWayWorks
    <3> QED BY <1>1, <1>8, <3>1, <3>2 DEF Unseen, UnderWay, Plus
  <2>3. both' = both
    BY <1>1, <1>8 DEF Unseen, Plus
  <2>4. pos # 4
    BY <1>4, <2>1 DEF Settled
  <2> QED BY <1>1, <1>4, <1>5, <1>8, <2>1, <2>2, <2>3, <2>4 DEF Unseen
<1>9. CASE OnPath /\ Turns /\ ~Thrown
  <2>1. /\ pos \in {1, 2, 3, 4, 5, 6} /\ Step.who = "first"
        /\ pos = 1 => Step.do = "start"
        /\ pos = 2 => Step.do = "counters"
        /\ pos = 3 => Step.do = "settle" /\ Step.as = "before"
        /\ pos = 4 => Step.do = "perturb" /\ Step.as = "resync-identical-bytes"
        /\ pos = 5 => Step.do = "settle" /\ Step.as = "after"
        /\ pos = 6 => Step.do = "stop"
    BY <1>9, ResyncPath DEF OnPath
  <2>2. CASE pos = 1
    <3>1. M' = Start(fixture, M) /\ pos' = 2
      BY <1>9, <2>1, <2>2, MainTurn DEF Kept
    <3>2. "paused" \in M'.files => "paused" \in M.files
      BY <1>1, <3>1, StartDoes
    <3> QED BY <1>1, <1>4, <1>5, <2>2, <3>1, <3>2
  <2>3. CASE pos = 2
    <3>1. M' = M /\ pos' = 3
      BY <1>9, <2>1, <2>3, MainTurn DEF Kept
    <3> QED BY <1>1, <1>4, <1>5, <2>3, <3>1
  <2>4. CASE pos = 3
    <3>1. SettleStep(M)
      BY <1>9, <2>1, <2>4, MainTurn
    <3>2. CASE pos' = pos
      BY <1>1, <1>4, <1>5, <2>4, <3>1, <3>2 DEF SettleStep
    <3>3. CASE pos' # pos
      <4>1. pos' = 4 /\ M' = M /\ ~CanWork(fixture, M) /\ reads'["before"] = M.work
        BY <2>1, <2>4, <3>1, <3>3 DEF SettleStep
      <4>2. M.pending = <<>>
        BY <1>1, <1>2, <4>1, Halted
      <4> QED BY <1>1, <1>4, <1>5, <2>4, <4>1, <4>2 DEF Settled
    <3> QED BY <3>2, <3>3
  <2>5. CASE pos = 4
    <3>1. M' = Perturb(fixture, M, "resync-identical-bytes") /\ pos' = 5 /\ reads' = reads
      BY <1>9, <2>1, <2>5, MainTurn
    <3>2. Settled(M)
      BY <1>4, <2>5
    <3>3. /\ Quietly(M, M') /\ M'.files \in {M.files, M.files \cup {"ledger"}}
          /\ M'.pending = IF quiet THEN <<>> ELSE b
      BY <1>1, <1>2, <3>1, <3>2, ResyncDoes DEF Settled, b, quiet
    <3>4. IF quiet THEN Settled(M)' ELSE UnderWay(M, b)'
      BY <1>1, <3>1, <3>2, <3>3 DEF UnderWay, Settled, Quietly
    <3>5. "paused" \notin M'.files
      BY <1>2, <3>3
    <3> QED BY <1>1, <1>5, <3>1, <3>4, <3>5
  <2>6. CASE pos = 5
    <3>1. SettleStep(M) /\ Step.as = "after"
      BY <1>9, <2>1, <2>6, MainTurn
    <3>2. CASE pos' = pos
      <4>1. M' = M /\ reads' = reads
        BY <1>1, <3>1, <3>2 DEF SettleStep
      <4>2. (Settled(M)' <=> Settled(M)) /\ (UnderWay(M, b)' <=> UnderWay(M, b))
        BY <1>1, <4>1 DEF Settled, UnderWay, Plus
      <4> QED BY <1>1, <1>4, <1>5, <2>6, <3>2, <4>1, <4>2
    <3>3. CASE pos' # pos
      <4>1. /\ pos' = 6 /\ M' = M /\ ~CanWork(fixture, M)
            /\ reads'["before"] = reads["before"] /\ reads'["after"] = M.work
        BY <2>1, <2>6, <3>1, <3>3 DEF SettleStep
      <4>2. M.pending = <<>>
        BY <1>1, <1>2, <4>1, Halted
      <4>3. M.work = IF quiet THEN reads["before"] ELSE both
        BY <1>3, <1>4, <2>6, <4>2, UnderWayEnds DEF Settled
      <4>4. both' = both
        BY <1>1, <4>1 DEF Plus
      <4> QED BY <1>1, <1>4, <1>5, <2>6, <4>1, <4>3, <4>4
    <3> QED BY <3>2, <3>3
  <2>7. CASE pos = 6
    <3>1. M' = Stop(fixture, M) /\ pos' = 7 /\ reads' = reads
      BY <1>9, <2>1, <2>7, MainTurn DEF Kept, Unseen
    <3>2. M'.files = M.files
      BY <1>1, <3>1, StopDoes
    <3>3. both' = both
      BY <1>1, <3>1 DEF Plus
    <3> QED BY <1>1, <1>4, <1>5, <2>7, <3>1, <3>2, <3>3
  <2> QED BY <2>1, <2>2, <2>3, <2>4, <2>5, <2>6, <2>7
<1>10. CASE Thrown
  BY <1>10 DEF Thrown
<1> QED BY <1>6, <1>7, <1>8, <1>9, <1>10, Cases

LEMMA DuplicateKept == ASSUME Shape, Settling, DuplicateGoes, Open, Next PROVE DuplicateGoes'
<1> SUFFICES ASSUME check = "no-duplicate-work" PROVE DuplicateGoes'
  BY Cases DEF DuplicateGoes
<1>1. UNCHANGED <<fixture, check, fault>> /\ M \in Data /\ pos \in Nat
  BY Cases
<1>2. "paused" \notin M.files /\ ~IsPaused(fixture, M)
  BY DEF DuplicateGoes, IsPaused
<1>3. UNCHANGED Unheeded /\ (Unheeded <=> fixture = "duplicates-work-on-company")
  BY <1>1 DEF Unheeded, RedFor
<1>4. CASE Unseen /\ pos = 0 /\ pos' = 1 /\ M' = M
  BY <1>1, <1>4 DEF DuplicateGoes
<1>5. CASE pos' = pos /\ Unseen /\ M' = M
  <2>1. /\ (Settled(M)' <=> Settled(M)) /\ (Owed(M)' <=> Owed(M)) /\ (Risen(M)' <=> Risen(M))
        /\ Moved("done")' = Moved("done")
    BY <1>5 DEF Settled, Owed, Due, Risen, Unseen, Moved
  <2> QED BY <1>1, <1>3, <1>5, <2>1 DEF DuplicateGoes
<1>6. CASE pos' = pos /\ Unseen /\ M' = Work(M) /\ CanWork(fixture, M)
  <2>1. M'.files = M.files /\ M.pending # <<>>
    BY <1>1, <1>6, WorkDoes
  <2>2. ~Settled(M)
    BY <2>1 DEF Settled
  <2>3. Owed(M) => Owed(M)' /\ Risen(M)'
    <3>1. Owed(M) => Owed(Work(M)) /\ Risen(Work(M))
      BY <1>1, <1>6, OwedWorks
    <3> QED BY <1>6, <3>1 DEF Unseen, Owed, Due, Risen
  <2>4. Risen(M) => Owed(M)
    BY DEF Owed
  <2>5. Moved("done")' = Moved("done")
    BY <1>6 DEF Unseen, Moved
  <2> QED BY <1>1, <1>3, <1>6, <2>1, <2>2, <2>3, <2>4, <2>5 DEF DuplicateGoes
<1>7. CASE OnPath /\ Turns /\ ~Thrown
  <2>1. /\ pos \in {1, 2, 3, 4, 5, 6, 7, 8} /\ Step.who # "control"
        /\ pos = 1 => Step.do = "start"
        /\ pos = 2 => Step.do = "counters"
        /\ pos = 3 => Step.do = "settle" /\ Step.as = "before"
        /\ pos = 4 => Step.do = "start"
        /\ pos = 5 => Step.do = "settle" /\ Step.as = "joined"
        /\ pos = 6 => Step.do = "stop"
        /\ pos = 7 => Step.do = "read"
        /\ pos = 8 => Step.do = "stop"
    BY <1>7, DuplicatePath DEF OnPath
  <2>2. CASE pos \in {1, 4}
    <3>1. M' = Start(fixture, M) /\ pos' = pos + 1 /\ Unseen
      BY <1>7, <2>1, <2>2, MainTurn DEF Kept
    <3>2. /\ M'.work = M.work /\ "ledger" \in M'.files /\ "paused" \notin M'.files
          /\ "ledger" \in M.files /\ ~Unheeded => M'.pending = M.pending
          /\ Unheeded /\ M.pending = <<>> => M'.pending # <<>> /\ M'.pending[1][1][3] = "done"
      BY <1>1, <1>2, <1>3, <3>1, StartDoes
    <3>3. pos = 4 => IF Unheeded THEN Owed(M)' ELSE Settled(M)'
      BY <3>1, <3>2 DEF DuplicateGoes, Settled, Owed, Due, Unseen
    <3> QED BY <1>1, <1>3, <2>2, <3>1, <3>2, <3>3 DEF DuplicateGoes
  <2>3. CASE pos = 2
    <3>1. M' = M /\ pos' = 3
      BY <1>7, <2>1, <2>3, MainTurn DEF Kept
    <3> QED BY <1>1, <2>3, <3>1 DEF DuplicateGoes
  <2>4. CASE pos = 3
    <3>1. SettleStep(M)
      BY <1>7, <2>1, <2>4, MainTurn
    <3>2. CASE pos' = pos
      BY <1>1, <2>4, <3>1, <3>2 DEF SettleStep, DuplicateGoes
    <3>3. CASE pos' # pos
      <4>1. pos' = 4 /\ M' = M /\ ~CanWork(fixture, M) /\ reads'["before"] = M.work
        BY <2>1, <2>4, <3>1, <3>3 DEF SettleStep
      <4>2. M.pending = <<>>
        BY <1>1, <1>2, <4>1, Halted
      <4> QED BY <1>1, <2>4, <4>1, <4>2 DEF DuplicateGoes, Settled
    <3> QED BY <3>2, <3>3
  <2>5. CASE pos = 5
    <3>1. SettleStep(M) /\ Step.as = "joined"
      BY <1>7, <2>1, <2>5, MainTurn
    <3>2. M' = M /\ reads'["before"] = reads["before"]
      BY <3>1 DEF SettleStep
    <3>3. (Settled(M)' <=> Settled(M)) /\ (Owed(M)' <=> Owed(M)) /\ (Risen(M)' <=> Risen(M))
      BY <3>2 DEF Settled, Owed, Due, Risen
    <3>4. CASE pos' = pos
      BY <1>1, <1>3, <2>5, <3>2, <3>3, <3>4 DEF DuplicateGoes
    <3>5. CASE pos' # pos
      <4>1. pos' = 6 /\ ~CanWork(fixture, M)
        BY <2>5, <3>1, <3>5 DEF SettleStep
      <4>2. Owed(M) => Risen(M)
        BY <1>1, <1>2, <4>1, Halted DEF Owed, Due
      <4> QED BY <1>1, <1>3, <2>5, <3>2, <3>3, <4>1, <4>2 DEF DuplicateGoes
    <3> QED BY <3>4, <3>5
  <2>6. CASE pos \in {6, 8}
    <3>1. M' = Stop(fixture, M) /\ pos' = pos + 1 /\ Unseen
      BY <1>7, <2>1, <2>6, MainTurn DEF Kept
    <3>2. M'.files = M.files /\ M'.work = M.work /\ M'.pending = M.pending
      BY <1>1, <3>1, StopDoes
    <3>3. (Settled(M)' <=> Settled(M)) /\ (Risen(M)' <=> Risen(M)) /\ Moved("done")' = Moved("done")
      BY <3>1, <3>2 DEF Settled, Risen, Unseen, Moved
    <3> QED BY <1>1, <1>3, <2>6, <3>1, <3>2, <3>3 DEF DuplicateGoes
  <2>7. CASE pos = 7
    <3>1. M' = M /\ pos' = 8 /\ reads'["after"] = M.work /\ reads'["before"] = reads["before"]
      BY <1>7, <2>1, <2>7, MainTurn
    <3>2. IF Unheeded THEN Risen(M) ELSE M.work = reads["before"] /\ M.work \in Works
      BY <1>1, <2>7 DEF DuplicateGoes, Settled, Data
    <3>3. Moved("done")' # {} <=> Unheeded
      BY <3>1, <3>2, MovedIs
    <3> QED BY <1>1, <1>3, <2>7, <3>1, <3>3 DEF DuplicateGoes
  <2> QED BY <2>1, <2>2, <2>3, <2>4, <2>5, <2>6, <2>7
<1>8. CASE Thrown
  BY <1>8 DEF Thrown
<1> QED BY <1>4, <1>5, <1>6, <1>7, <1>8, Cases

-----------------------------------------------------------------------------
(* The pair that answers, and the index with a foreign stamp.              *)
LEMMA RememberDoes ==
  ASSUME NEW r, Remember(r)
  PROVE  /\ Step.as \in DOMAIN answers' /\ answers'[Step.as] = r
         /\ \A l : l # Step.as => (l \in DOMAIN answers' <=> l \in DOMAIN answers)
         /\ \A l \in DOMAIN answers : l # Step.as => answers'[l] = answers[l]
BY DEF Remember

LEMMA HeardIs ==
  ASSUME NEW r, Remember(r), fault' = fault, r = Reply
  PROVE  /\ \A l : l = Step.as => Heard(l)'
         /\ \A l : l # Step.as => (Heard(l)' <=> Heard(l))
<1>1. Reply = IF fault = "no-hit-list" THEN "unlisted" ELSE IF Hits(fixture, Dir) = 0 THEN "empty" ELSE "served"
  BY DEF Reply
<1>2. r \in {"served", "empty"} <=> fault # "no-hit-list"
  BY <1>1
<1>3. ASSUME NEW l, l = Step.as PROVE Heard(l)'
  <2>1. l \in DOMAIN answers' /\ answers'[l] = r
    BY <1>3, RememberDoes
  <2> QED BY <1>2, <2>1 DEF Heard, Listed, Got
<1>4. ASSUME NEW l, l # Step.as PROVE Heard(l)' <=> Heard(l)
  <2>1. (l \in DOMAIN answers' <=> l \in DOMAIN answers) /\ (l \in DOMAIN answers => answers'[l] = answers[l])
    BY <1>4, RememberDoes
  <2> QED BY <2>1 DEF Heard, Listed, Got
<1> QED BY <1>3, <1>4

LEMMA PairKept == ASSUME Shape, Settling, PairGoes, Open, Next PROVE PairGoes'
<1> SUFFICES ASSUME check = "both-answer" PROVE PairGoes'
  BY Cases DEF PairGoes
<1>1. UNCHANGED <<fixture, check, fault>> /\ M \in Data /\ pos \in Nat
  BY Cases
<1>2. UNCHANGED Unheeded /\ (Unheeded <=> fixture = "corrupts-on-company")
  BY <1>1 DEF Unheeded, RedFor
<1>3. ASSUME answers' = answers PROVE \A l : Heard(l)' <=> Heard(l)
  BY <1>1, <1>3 DEF Heard, Listed, Got
<1>4. CASE Unseen /\ pos = 0 /\ pos' = 1 /\ M' = M
  BY <1>1, <1>2, <1>4 DEF PairGoes, Live, Unseen
<1>5. CASE pos' = pos /\ Unseen /\ (M' = M \/ (M' = Work(M) /\ CanWork(fixture, M)))
  <2>1. M'.files = M.files /\ M'.live = M.live /\ M'.company = M.company /\ M'.corrupt = M.corrupt
    BY <1>1, <1>5, WorkDoes
  <2>2. failures' = failures /\ \A l : Heard(l)' <=> Heard(l)
    BY <1>3, <1>5 DEF Unseen
  <2> QED BY <1>1, <1>2, <1>5, <2>1, <2>2 DEF PairGoes, Live
<1>6. CASE OnPath /\ Thrown
  <2>1. Step.who # "control"
    BY <1>6, BothPath DEF OnPath
  <2>2. /\ failures' = TRUE /\ (~Unheeded => M' = M)
        /\ fault = "raise" \/ M.corrupt
    BY <1>2, <1>6, <2>1, ThrownDoes, DirIs DEF Answers
  <2> QED BY <1>1, <1>2, <2>2 DEF PairGoes
<1>7. CASE OnPath /\ Turns /\ ~Thrown
  <2>1. /\ pos \in {1, 2, 3, 4, 5, 6, 7, 8, 9, 10} /\ Step.who # "control"
        /\ pos \in {1, 3, 8} => Step.do = "start"
        /\ pos \in {6, 7, 10} => Step.do = "stop"
        /\ pos \in {2, 4, 5, 9} => Step.do = "query"
        /\ pos = 2 => Step.as = "alone"
        /\ pos = 4 => Step.as = "second"
        /\ pos = 5 => Step.as = "first"
        /\ pos = 9 => Step.as = "third"
    BY <1>7, BothPath DEF OnPath
  <2>2. CASE pos \in {1, 3, 8}
    <3>1. M' = Start(fixture, M) /\ pos' = pos + 1 /\ Unseen
      BY <1>7, <2>1, <2>2, MainTurn DEF Kept
    <3>2. failures' = failures /\ \A l : Heard(l)' <=> Heard(l)
      BY <1>3, <3>1 DEF Unseen
    <3>3. M'.corrupt = M.corrupt
      BY <1>1, <3>1, StartDoes
    <3>4. ASSUME Unheeded, "paused" \notin M.files
          PROVE  /\ "paused" \notin M'.files /\ "ledger" \in M'.files
                 /\ M'.live = M.live + 1 /\ (M.live >= 1 => M'.company)
      <4>1. ~IsPaused(fixture, M)
        BY <3>4 DEF IsPaused
      <4> QED BY <1>1, <1>2, <3>1, <3>4, <4>1, StartDoes
    <3>5. CASE pos \in {1, 3}
      BY <1>1, <1>2, <3>1, <3>2, <3>3, <3>4, <3>5 DEF PairGoes, Live
    <3>6. CASE pos = 8
      BY <1>1, <1>2, <3>1, <3>2, <3>3, <3>6 DEF PairGoes, Live
    <3> QED BY <2>2, <3>5, <3>6
  <2>3. CASE pos \in {6, 7, 10}
    <3>1. M' = Stop(fixture, M) /\ pos' = pos + 1 /\ Unseen
      BY <1>7, <2>1, <2>3, MainTurn DEF Kept
    <3>2. failures' = failures /\ \A l : Heard(l)' <=> Heard(l)
      BY <1>3, <3>1 DEF Unseen
    <3>3. /\ M'.files = M.files /\ M'.company = M.company /\ (~Unheeded => M' = M)
          /\ Unheeded /\ "ledger" \in M.files /\ "paused" \notin M.files =>
               M'.live = M.live - 1 /\ (M.live <= 1 /\ M.company => M'.corrupt)
      BY <1>1, <1>2, <3>1, StopDoes
    <3>4. CASE pos = 6
      BY <1>1, <1>2, <3>1, <3>2, <3>3, <3>4 DEF PairGoes, Live
    <3>5. CASE pos = 7
      BY <1>1, <1>2, <3>1, <3>2, <3>3, <3>5 DEF PairGoes, Live
    <3>6. CASE pos = 10
      BY <1>1, <1>2, <3>1, <3>2, <3>3, <3>6 DEF PairGoes, Live
    <3> QED BY <2>3, <3>4, <3>5, <3>6
  <2>4. CASE pos \in {2, 4, 5, 9}
    <3>1. /\ ~M.corrupt /\ Remember(Reply) /\ M' = M /\ pos' = pos + 1 /\ failures' = failures
      BY <1>7, <2>1, <2>4, MainTurn DEF Answers
    <3>2. (\A l : l = Step.as => Heard(l)') /\ \A l : l # Step.as => (Heard(l)' <=> Heard(l))
      BY <1>1, <3>1, HeardIs
    <3>3. CASE pos = 2
      BY <1>1, <1>2, <3>1, <3>3 DEF PairGoes, Live
    <3>4. CASE pos = 4
      <4>1. Heard("second")'
        BY <2>1, <3>2, <3>4
      <4> QED BY <1>1, <1>2, <3>1, <3>4, <4>1 DEF PairGoes, Live
    <3>5. CASE pos = 5
      <4>1. Heard("first")' /\ (Heard("second") => Heard("second")')
        BY <2>1, <3>2, <3>5
      <4> QED BY <1>1, <1>2, <3>1, <3>5, <4>1 DEF PairGoes, Live
    <3>6. CASE pos = 9
      <4>1. /\ Heard("third")' /\ (Heard("second") => Heard("second")') /\ (Heard("first") => Heard("first")')
        BY <2>1, <3>2, <3>6
      <4> QED BY <1>1, <1>2, <3>1, <3>6, <4>1 DEF PairGoes, Live
    <3> QED BY <2>4, <3>3, <3>4, <3>5, <3>6
  <2> QED BY <2>1, <2>2, <2>3, <2>4
<1> QED BY <1>4, <1>5, <1>6, <1>7, Cases

(* Where the target of the foreign stamp runs, and where it is restamped.  *)
Running == {2, 3, 6, 7, 10, 11, 14, 15, 18, 19}
Stamped == {9, 10, 11, 12, 17, 18, 19, 20}

LEMMA StampKept == ASSUME Shape, Settling, StampGoes, Open, Next PROVE StampGoes'
<1> SUFFICES ASSUME check = "foreign-stamp" PROVE StampGoes'
  BY Cases DEF StampGoes
<1>1. UNCHANGED <<fixture, check, fault>> /\ M \in Data /\ pos \in Nat
  BY Cases
<1>2. ASSUME answers' = answers PROVE \A l : Told(l)' <=> Told(l)
  BY <1>1, <1>2 DEF Told
<1> DEFINE live == fixture = "corrupts-on-company"
<1>3. StampGoes <=>
        /\ "paused" \notin M.files /\ ~M.company /\ ~M.corrupt /\ (pos >= 2 => "ledger" \in M.files)
        /\ live => M.live = IF pos \in Running THEN 1 ELSE 0
        /\ "stamp" \in M.files <=> pos \in Stamped
        /\ pos >= 3 => fault # "no-hit-list"
        /\ pos >= 11 => Told("restamp-older")
        /\ pos >= 19 => Told("restamp-newer")
  BY <1>1 DEF StampGoes, Running, Stamped
<1>4. pos' \in Nat =>
      (StampGoes' <=>
        /\ "paused" \notin M'.files /\ ~M'.company /\ ~M'.corrupt /\ (pos' >= 2 => "ledger" \in M'.files)
        /\ live => M'.live = IF pos' \in Running THEN 1 ELSE 0
        /\ "stamp" \in M'.files <=> pos' \in Stamped
        /\ pos' >= 3 => fault # "no-hit-list"
        /\ pos' >= 11 => Told("restamp-older")'
        /\ pos' >= 19 => Told("restamp-newer")')
  BY <1>1 DEF StampGoes, Running, Stamped
<1> HIDE DEF live
<1>5. CASE Unseen /\ pos = 0 /\ pos' = 1 /\ M' = M
  BY <1>1, <1>3, <1>4, <1>5 DEF Running, Stamped
<1>6. CASE pos' = pos /\ Unseen /\ (M' = M \/ (M' = Work(M) /\ CanWork(fixture, M)))
  <2>1. M'.files = M.files /\ M'.live = M.live /\ M'.company = M.company /\ M'.corrupt = M.corrupt
    BY <1>1, <1>6, WorkDoes
  <2>2. \A l : Told(l)' <=> Told(l)
    BY <1>2, <1>6 DEF Unseen
  <2> QED BY <1>1, <1>3, <1>4, <1>6, <2>1, <2>2
<1>7. ASSUME OnPath
      PROVE  /\ pos \in 1..19 /\ Step.who # "control"
             /\ Step.do \in {"start", "stop", "query", "perturb"}
             /\ Step.do = "start" => pos \in {1, 5, 9, 13, 17}
             /\ Step.do = "query" => pos \in {2, 6, 10, 14, 18}
             /\ Step.do = "stop" => pos \in {3, 7, 11, 15, 19}
             /\ Step.do = "perturb" => pos \in {4, 8, 12, 16}
             /\ pos = 2 => Step.as = "baseline"
             /\ pos \in {4, 12} => Step.as = "reset-to-seeded-index"
             /\ pos \in {6, 14} => Step.as = "ready"
             /\ pos \in {8, 10} => Step.as = "restamp-older"
             /\ pos \in {16, 18} => Step.as = "restamp-newer"
  BY <1>7, StampPath DEF OnPath
<1>8. CASE OnPath /\ Thrown
  <2>1. /\ Step.do = "query" /\ Step.as \notin {"baseline", "ready"}
        /\ Remember("raised") /\ pos' = pos + 1 /\ dirs' = dirs
        /\ fault = "raise" \/ M.corrupt
    BY <1>7, <1>8, ThrownDoes, DirIs DEF target, Answers
  <2>2. M' = M /\ fault = "raise" /\ pos \in {10, 18}
    BY <1>3, <1>7, <1>8, <2>1 DEF M
  <2>3. \A l : l = Step.as \/ Told(l) => Told(l)'
    <3> SUFFICES ASSUME NEW l, l = Step.as \/ Told(l) PROVE Told(l)'
      OBVIOUS
    <3>1. CASE l = Step.as
      BY <1>1, <2>1, <2>2, <3>1, RememberDoes DEF Told
    <3>2. CASE l # Step.as /\ Told(l)
      BY <1>1, <2>1, <3>2, RememberDoes DEF Told
    <3> QED BY <3>1, <3>2
  <2>4. CASE pos = 10
    <3>1. Told("restamp-older")'
      BY <1>7, <1>8, <2>3, <2>4
    <3> QED BY <1>1, <1>3, <1>4, <2>1, <2>2, <2>4, <3>1 DEF Running, Stamped
  <2>5. CASE pos = 18
    <3>1. Told("restamp-newer")' /\ (Told("restamp-older") => Told("restamp-older")')
      BY <1>7, <1>8, <2>3, <2>5
    <3> QED BY <1>1, <1>3, <1>4, <2>1, <2>2, <2>5, <3>1 DEF Running, Stamped
  <2> QED BY <2>2, <2>4, <2>5
<1>9. CASE OnPath /\ Turns /\ ~Thrown
  <2>1. CASE Step.do = "start"
    <3>1. M' = Start(fixture, M) /\ pos' = pos + 1 /\ Unseen /\ pos \in {1, 5, 9, 13, 17}
      BY <1>7, <1>9, <2>1, MainTurn DEF Kept
    <3>2. \A l : Told(l)' <=> Told(l)
      BY <1>2, <3>1 DEF Unseen
    <3>3. (pos + 1 \in Stamped <=> pos \in Stamped) /\ pos + 1 \in Running /\ pos \notin Running
      BY <3>1 DEF Running, Stamped
    <3>4. ~IsPaused(fixture, M) /\ "paused" \notin M.files /\ ~M.company /\ ~M.corrupt /\ (live => M.live = 0)
      BY <1>3, <3>3 DEF IsPaused
    <3>5. /\ M'.corrupt = M.corrupt /\ "paused" \notin M'.files /\ "ledger" \in M'.files
          /\ live => M'.live = M.live + 1 /\ (M'.company <=> M.company \/ M.live >= 1)
          /\ ~live => M'.company = M.company
      BY <1>1, <3>1, <3>4, StartDoes DEF live
    <3>6. "stamp" \in M'.files <=> "stamp" \in M.files
      <4>1. M'.files \ {"ledger", "paused"} = M.files \ {"ledger", "paused"}
        BY <1>1, <3>1, StartDoes
      <4> QED BY <4>1
    <3>7. M'.company = FALSE /\ (live => M'.live = 1)
      BY <3>4, <3>5
    <3>8. /\ pos + 1 >= 3 => pos >= 3
          /\ pos + 1 >= 11 => pos >= 11
          /\ pos + 1 >= 19 => pos >= 19
      BY <3>1
    <3> QED BY <1>1, <1>3, <1>4, <3>1, <3>2, <3>3, <3>4, <3>5, <3>6, <3>7, <3>8
  <2>2. CASE Step.do = "stop"
    <3>1. M' = Stop(fixture, M) /\ pos' = pos + 1 /\ Unseen /\ pos \in {3, 7, 11, 15, 19}
      BY <1>7, <1>9, <2>2, MainTurn DEF Kept
    <3>2. \A l : Told(l)' <=> Told(l)
      BY <1>2, <3>1 DEF Unseen
    <3>3. (pos + 1 \in Stamped <=> pos \in Stamped) /\ pos + 1 \notin Running /\ pos \in Running /\ pos >= 3
      BY <3>1 DEF Running, Stamped
    <3>4. "paused" \notin M.files /\ "ledger" \in M.files /\ ~M.company /\ ~M.corrupt /\ (live => M.live = 1)
      BY <1>3, <3>1, <3>3
    <3>5. M'.files = M.files /\ M'.company = M.company /\ ~M'.corrupt /\ (live => M'.live = 0)
      BY <1>1, <3>1, <3>4, StopDoes DEF live
    <3>6. /\ pos + 1 >= 11 => pos >= 11
          /\ pos + 1 >= 19 => pos >= 19
      BY <3>1
    <3> QED BY <1>1, <1>3, <1>4, <3>1, <3>2, <3>3, <3>4, <3>5, <3>6
  <2>3. CASE Step.do = "perturb"
    <3>1. /\ M' = Perturb(fixture, M, Step.as) /\ pos' = pos + 1 /\ answers' = answers /\ pos \in {4, 8, 12, 16}
          /\ Step.as \in {"reset-to-seeded-index", "restamp-older", "restamp-newer"}
          /\ Step.as = "reset-to-seeded-index" <=> pos \in {4, 12}
      BY <1>7, <1>9, <2>3, MainTurn
    <3>2. \A l : Told(l)' <=> Told(l)
      BY <1>2, <3>1
    <3>3. (pos + 1 \in Stamped <=> pos \notin {4, 12}) /\ pos + 1 \notin Running /\ pos \notin Running /\ pos >= 3
      BY <3>1 DEF Running, Stamped
    <3>4. /\ Quietly(M, M') /\ ("stamp" \in M'.files <=> Step.as # "reset-to-seeded-index")
          /\ "paused" \in M'.files <=> "paused" \in M.files
          /\ "ledger" \in M'.files <=> "ledger" \in M.files
      BY <1>1, <3>1, RestampDoes
    <3>5. /\ pos + 1 >= 11 => pos >= 11
          /\ pos + 1 >= 19 => pos >= 19
      BY <3>1
    <3> QED BY <1>1, <1>3, <1>4, <3>1, <3>2, <3>3, <3>4, <3>5 DEF Quietly
  <2>4. CASE Step.do = "query"
    <3>1. /\ M' = M /\ pos' = pos + 1 /\ pos \in {2, 6, 10, 14, 18}
          /\ Remember(Reply) /\ (Step.as \in {"baseline", "ready"} => Reply = "served")
      BY <1>7, <1>9, <2>4, MainTurn
    <3>2. (pos + 1 \in Stamped <=> pos \in Stamped) /\ pos + 1 \in Running /\ pos \in Running
      BY <3>1 DEF Running, Stamped
    <3>3. Reply = "served" => fault # "no-hit-list"
      BY DEF Reply
    <3>4. CASE pos \in {2, 6, 14}
      <4>1. Step.as \in {"baseline", "ready"} /\ fault # "no-hit-list"
        BY <1>7, <1>9, <3>1, <3>3, <3>4
      <4>2. Told("restamp-older") => Told("restamp-older")'
        BY <1>1, <3>1, <4>1, RememberDoes DEF Told
      <4>3. /\ pos + 1 >= 11 => pos >= 11
            /\ pos + 1 >= 19 => pos >= 19
            /\ pos < 18
        BY <3>4
      <4> QED BY <1>1, <1>3, <1>4, <3>1, <3>2, <4>1, <4>2, <4>3
    <3>5. CASE pos \in {10, 18}
      <4>1. fault # "no-hit-list" /\ "stamp" \in M.files
        BY <1>3, <3>5 DEF Stamped
      <4>2. Hits(fixture, Dir) = 0 <=> fixture = "abandons-foreign-stamp"
        <5>1. Dir = M /\ Items # 0
          BY <1>7, <1>9, DirIs, LibraryAssumption
        <5> QED BY <4>1, <5>1 DEF Hits
      <4>3. Reply = IF fixture = "abandons-foreign-stamp" THEN "empty" ELSE "served"
        BY <4>1, <4>2 DEF Reply
      <4>4. \A l : l = Step.as \/ Told(l) => Told(l)'
        <5> SUFFICES ASSUME NEW l, l = Step.as \/ Told(l) PROVE Told(l)'
          OBVIOUS
        <5>1. CASE l = Step.as
          BY <1>1, <3>1, <4>3, <5>1, RememberDoes DEF Told
        <5>2. CASE l # Step.as /\ Told(l)
          BY <1>1, <3>1, <5>2, RememberDoes DEF Told
        <5> QED BY <5>1, <5>2
      <4>5. CASE pos = 10
        <5>1. Told("restamp-older")'
          BY <1>7, <1>9, <4>4, <4>5
        <5> QED BY <1>1, <1>3, <1>4, <3>1, <3>2, <4>1, <4>5, <5>1
      <4>6. CASE pos = 18
        <5>1. Told("restamp-newer")' /\ (Told("restamp-older") => Told("restamp-older")')
          BY <1>7, <1>9, <4>4, <4>6
        <5> QED BY <1>1, <1>3, <1>4, <3>1, <3>2, <4>1, <4>6, <5>1
      <4> QED BY <3>5, <4>5, <4>6
    <3> QED BY <3>1, <3>4, <3>5
  <2> QED BY <1>7, <1>9, <2>1, <2>2, <2>3, <2>4
<1> QED BY <1>5, <1>6, <1>8, <1>9, Cases

-----------------------------------------------------------------------------
(* How long the scripts are, and which of them never ask for the counters. *)
LEMMA Lengths ==
  /\ Len(LocalByDefault) = 4 /\ Len(NoEgress) = 4 /\ Len(ResidueInventory) = 4 /\ Len(ModelCache) = 7
  /\ Len(UninstallRemoves) = 4 /\ Len(PauseStops) = 18 /\ Len(PauseHolds) = 22 /\ Len(EditRecomputes) = 6
  /\ Len(ResyncRecomputes) = 6 /\ Len(BothAnswer) = 10 /\ Len(NoDuplicateWork) = 8 /\ Len(ForeignStampServes) = 19
<1>1. Len(LocalByDefault) = 4 /\ Len(NoEgress) = 4 /\ Len(ResidueInventory) = 4 /\ Len(UninstallRemoves) = 4
  BY DEF LocalByDefault, NoEgress, ResidueInventory, UninstallRemoves
<1>2. Len(ModelCache) = 7 /\ Len(BothAnswer) = 10
  BY DEF ModelCache, BothAnswer
<1>3. Len(PauseStops) = 18
  BY DEF PauseStops, TheChangeCreatesWork, Counted
<1>4. Len(PauseHolds) = 22
  BY DEF PauseHolds, TheChangeCreatesWork, Counted
<1>5. Len(EditRecomputes) = 6 /\ Len(ResyncRecomputes) = 6 /\ Len(NoDuplicateWork) = 8
  BY DEF EditRecomputes, ResyncRecomputes, NoDuplicateWork, Counted
<1>6. Len(ForeignStampServes) = 19
  BY DEF ForeignStampServes, Arm
<1> QED BY <1>1, <1>2, <1>3, <1>4, <1>5, <1>6

LEMMA ScriptLengths ==
  ASSUME check \in Checks
  PROVE  /\ check \in {"local-by-default", "no-egress", "residue-inventory", "uninstall"} => Len(Script[check]) = 4
         /\ check = "model-cache" => Len(Script[check]) = 7
         /\ check = "pause-stops" => Len(Script[check]) = 18
         /\ check = "pause-holds" => Len(Script[check]) = 22
         /\ check \in {"edit", "resync"} => Len(Script[check]) = 6
         /\ check = "both-answer" => Len(Script[check]) = 10
         /\ check = "no-duplicate-work" => Len(Script[check]) = 8
         /\ check = "foreign-stamp" => Len(Script[check]) = 19
<1> USE DEF Script, Checks
<1>1. CASE check = "local-by-default"
  <2>1. Script[check] = LocalByDefault
    BY <1>1
  <2> QED BY <1>1, <2>1, Lengths
<1>2. CASE check = "no-egress"
  <2>1. Script[check] = NoEgress
    BY <1>2
  <2> QED BY <1>2, <2>1, Lengths
<1>3. CASE check = "residue-inventory"
  <2>1. Script[check] = ResidueInventory
    BY <1>3
  <2> QED BY <1>3, <2>1, Lengths
<1>4. CASE check = "model-cache"
  <2>1. Script[check] = ModelCache
    BY <1>4
  <2> QED BY <1>4, <2>1, Lengths
<1>5. CASE check = "uninstall"
  <2>1. Script[check] = UninstallRemoves
    BY <1>5
  <2> QED BY <1>5, <2>1, Lengths
<1>6. CASE check = "pause-stops"
  <2>1. Script[check] = PauseStops
    BY <1>6
  <2> QED BY <1>6, <2>1, Lengths
<1>7. CASE check = "pause-holds"
  <2>1. Script[check] = PauseHolds
    BY <1>7
  <2> QED BY <1>7, <2>1, Lengths
<1>8. CASE check = "edit"
  <2>1. Script[check] = EditRecomputes
    BY <1>8
  <2> QED BY <1>8, <2>1, Lengths
<1>9. CASE check = "resync"
  <2>1. Script[check] = ResyncRecomputes
    BY <1>9
  <2> QED BY <1>9, <2>1, Lengths
<1>10. CASE check = "both-answer"
  <2>1. Script[check] = BothAnswer
    BY <1>10
  <2> QED BY <1>10, <2>1, Lengths
<1>11. CASE check = "no-duplicate-work"
  <2>1. Script[check] = NoDuplicateWork
    BY <1>11
  <2> QED BY <1>11, <2>1, Lengths
<1>12. CASE check = "foreign-stamp"
  <2>1. Script[check] = ForeignStampServes
    BY <1>12
  <2> QED BY <1>12, <2>1, Lengths
<1> QED BY <1>1, <1>2, <1>3, <1>4, <1>5, <1>6, <1>7, <1>8, <1>9, <1>10, <1>11, <1>12

LEMMA NeverCounts ==
  ASSUME check \in Checks, CountsWork(check)
  PROVE  check \in Counting
<1> USE DEF Script, Checks
<1>1. CASE check = "local-by-default"
  <2>1. Script[check] = LocalByDefault
    BY <1>1
  <2>2. /\ LocalByDefault[1] = First("start") /\ LocalByDefault[2] = First("configure")
        /\ LocalByDefault[3] = First("status") /\ LocalByDefault[4] = First("stop")
    BY DEF LocalByDefault
  <2>3. /\ LocalByDefault[1].do = "start" /\ LocalByDefault[2].do = "configure" /\ LocalByDefault[3].do = "status"
        /\ LocalByDefault[4].do = "stop"
    BY <2>2, StepFields
  <2>4. PICK i \in 1..4 : LocalByDefault[i].do = "counters"
    <3>1. Len(LocalByDefault) = 4
      BY Lengths
    <3>2. \E i \in 1..Len(Script[check]) : Script[check][i].do = "counters"
      BY DEF CountsWork
    <3>3. \E i \in 1..4 : LocalByDefault[i].do = "counters"
      BY <2>1, <3>1, <3>2
    <3> QED BY <3>3
  <2> HIDE DEF LocalByDefault
  <2> QED BY <2>3, <2>4
<1>2. CASE check = "no-egress"
  <2>1. Script[check] = NoEgress
    BY <1>2
  <2>2. /\ NoEgress[1] = First("choose") /\ NoEgress[2] = First("control-shared")
        /\ NoEgress[3] = First("control-isolated") /\ NoEgress[4] = First("subject")
    BY DEF NoEgress
  <2>3. /\ NoEgress[1].do = "choose" /\ NoEgress[2].do = "control-shared" /\ NoEgress[3].do = "control-isolated"
        /\ NoEgress[4].do = "subject"
    BY <2>2, StepFields
  <2>4. PICK i \in 1..4 : NoEgress[i].do = "counters"
    <3>1. Len(NoEgress) = 4
      BY Lengths
    <3>2. \E i \in 1..Len(Script[check]) : Script[check][i].do = "counters"
      BY DEF CountsWork
    <3>3. \E i \in 1..4 : NoEgress[i].do = "counters"
      BY <2>1, <3>1, <3>2
    <3> QED BY <3>3
  <2> HIDE DEF NoEgress
  <2> QED BY <2>3, <2>4
<1>3. CASE check = "residue-inventory"
  <2>1. Script[check] = ResidueInventory
    BY <1>3
  <2>2. /\ ResidueInventory[1] = First("sweep") /\ ResidueInventory[2] = First("start")
        /\ ResidueInventory[3] = First("install") /\ ResidueInventory[4] = First("stop")
    BY DEF ResidueInventory
  <2>3. /\ ResidueInventory[1].do = "sweep" /\ ResidueInventory[2].do = "start" /\ ResidueInventory[3].do = "install"
        /\ ResidueInventory[4].do = "stop"
    BY <2>2, StepFields
  <2>4. PICK i \in 1..4 : ResidueInventory[i].do = "counters"
    <3>1. Len(ResidueInventory) = 4
      BY Lengths
    <3>2. \E i \in 1..Len(Script[check]) : Script[check][i].do = "counters"
      BY DEF CountsWork
    <3>3. \E i \in 1..4 : ResidueInventory[i].do = "counters"
      BY <2>1, <3>1, <3>2
    <3> QED BY <3>3
  <2> HIDE DEF ResidueInventory
  <2> QED BY <2>3, <2>4
<1>4. CASE check = "model-cache"
  <2>1. Script[check] = ModelCache
    BY <1>4
  <2>2. /\ ModelCache[1] = First("sweep") /\ ModelCache[2] = First("start")
        /\ ModelCache[3] = First("install") /\ ModelCache[4] = First("configure")
        /\ ModelCache[5] = Query("first", "exercised") /\ ModelCache[6] = First("status")
        /\ ModelCache[7] = First("stop")
    BY DEF ModelCache
  <2>3. /\ ModelCache[1].do = "sweep" /\ ModelCache[2].do = "start" /\ ModelCache[3].do = "install"
        /\ ModelCache[4].do = "configure" /\ ModelCache[5].do = "query" /\ ModelCache[6].do = "status"
        /\ ModelCache[7].do = "stop"
    BY <2>2, StepFields
  <2>4. PICK i \in 1..7 : ModelCache[i].do = "counters"
    <3>1. Len(ModelCache) = 7
      BY Lengths
    <3>2. \E i \in 1..Len(Script[check]) : Script[check][i].do = "counters"
      BY DEF CountsWork
    <3>3. \E i \in 1..7 : ModelCache[i].do = "counters"
      BY <2>1, <3>1, <3>2
    <3> QED BY <3>3
  <2> HIDE DEF ModelCache
  <2> QED BY <2>3, <2>4
<1>5. CASE check = "uninstall"
  <2>1. Script[check] = UninstallRemoves
    BY <1>5
  <2>2. /\ UninstallRemoves[1] = First("start") /\ UninstallRemoves[2] = First("install")
        /\ UninstallRemoves[3] = First("uninstall") /\ UninstallRemoves[4] = First("stop")
    BY DEF UninstallRemoves
  <2>3. /\ UninstallRemoves[1].do = "start" /\ UninstallRemoves[2].do = "install" /\ UninstallRemoves[3].do = "uninstall"
        /\ UninstallRemoves[4].do = "stop"
    BY <2>2, StepFields
  <2>4. PICK i \in 1..4 : UninstallRemoves[i].do = "counters"
    <3>1. Len(UninstallRemoves) = 4
      BY Lengths
    <3>2. \E i \in 1..Len(Script[check]) : Script[check][i].do = "counters"
      BY DEF CountsWork
    <3>3. \E i \in 1..4 : UninstallRemoves[i].do = "counters"
      BY <2>1, <3>1, <3>2
    <3> QED BY <3>3
  <2> HIDE DEF UninstallRemoves
  <2> QED BY <2>3, <2>4
<1>6. CASE check = "both-answer"
  <2>1. Script[check] = BothAnswer
    BY <1>6
  <2>2. /\ BothAnswer[1] = First("start") /\ BothAnswer[2] = Query("first", "alone")
        /\ BothAnswer[3] = S("second", "start", "none") /\ BothAnswer[4] = Query("second", "second")
        /\ BothAnswer[5] = Query("first", "first") /\ BothAnswer[6] = S("second", "stop", "none")
        /\ BothAnswer[7] = First("stop") /\ BothAnswer[8] = First("start")
        /\ BothAnswer[9] = Query("first", "third") /\ BothAnswer[10] = First("stop")
    BY DEF BothAnswer
  <2>3. /\ BothAnswer[1].do = "start" /\ BothAnswer[2].do = "query" /\ BothAnswer[3].do = "start"
        /\ BothAnswer[4].do = "query" /\ BothAnswer[5].do = "query" /\ BothAnswer[6].do = "stop"
        /\ BothAnswer[7].do = "stop" /\ BothAnswer[8].do = "start" /\ BothAnswer[9].do = "query"
        /\ BothAnswer[10].do = "stop"
    BY <2>2, StepFields
  <2>4. PICK i \in 1..10 : BothAnswer[i].do = "counters"
    <3>1. Len(BothAnswer) = 10
      BY Lengths
    <3>2. \E i \in 1..Len(Script[check]) : Script[check][i].do = "counters"
      BY DEF CountsWork
    <3>3. \E i \in 1..10 : BothAnswer[i].do = "counters"
      BY <2>1, <3>1, <3>2
    <3> QED BY <3>3
  <2> HIDE DEF BothAnswer
  <2> QED BY <2>3, <2>4
<1>7. CASE check = "foreign-stamp"
  <2>1. Script[check] = ForeignStampServes
    BY <1>7
  <2>2. /\ ForeignStampServes[1] = First("start") /\ ForeignStampServes[2] = Query("first", "baseline")
        /\ ForeignStampServes[3] = First("stop") /\ ForeignStampServes[4] = S("first", "perturb", "reset-to-seeded-index")
        /\ ForeignStampServes[5] = First("start") /\ ForeignStampServes[6] = Query("first", "ready")
        /\ ForeignStampServes[7] = First("stop") /\ ForeignStampServes[8] = S("first", "perturb", "restamp-older")
        /\ ForeignStampServes[9] = First("start") /\ ForeignStampServes[10] = Query("first", "restamp-older")
        /\ ForeignStampServes[11] = First("stop") /\ ForeignStampServes[12] = S("first", "perturb", "reset-to-seeded-index")
        /\ ForeignStampServes[13] = First("start") /\ ForeignStampServes[14] = Query("first", "ready")
        /\ ForeignStampServes[15] = First("stop") /\ ForeignStampServes[16] = S("first", "perturb", "restamp-newer")
        /\ ForeignStampServes[17] = First("start") /\ ForeignStampServes[18] = Query("first", "restamp-newer")
        /\ ForeignStampServes[19] = First("stop")
    BY DEF ForeignStampServes, Arm
  <2>3. /\ ForeignStampServes[1].do = "start" /\ ForeignStampServes[2].do = "query" /\ ForeignStampServes[3].do = "stop"
        /\ ForeignStampServes[4].do = "perturb" /\ ForeignStampServes[5].do = "start" /\ ForeignStampServes[6].do = "query"
        /\ ForeignStampServes[7].do = "stop" /\ ForeignStampServes[8].do = "perturb" /\ ForeignStampServes[9].do = "start"
        /\ ForeignStampServes[10].do = "query" /\ ForeignStampServes[11].do = "stop" /\ ForeignStampServes[12].do = "perturb"
        /\ ForeignStampServes[13].do = "start" /\ ForeignStampServes[14].do = "query" /\ ForeignStampServes[15].do = "stop"
        /\ ForeignStampServes[16].do = "perturb" /\ ForeignStampServes[17].do = "start" /\ ForeignStampServes[18].do = "query"
        /\ ForeignStampServes[19].do = "stop"
    BY <2>2, StepFields
  <2>4. PICK i \in 1..19 : ForeignStampServes[i].do = "counters"
    <3>1. Len(ForeignStampServes) = 19
      BY Lengths
    <3>2. \E i \in 1..Len(Script[check]) : Script[check][i].do = "counters"
      BY DEF CountsWork
    <3>3. \E i \in 1..19 : ForeignStampServes[i].do = "counters"
      BY <2>1, <3>1, <3>2
    <3> QED BY <3>3
  <2> HIDE DEF ForeignStampServes
  <2> QED BY <2>3, <2>4
<1> QED BY <1>1, <1>2, <1>3, <1>4, <1>5, <1>6, <1>7 DEF Counting, Pausing

-----------------------------------------------------------------------------
(* How a check starts.                                                     *)
LEMMA Starts == Init => ChecksInv
<1> SUFFICES ASSUME Init PROVE ChecksInv
  OBVIOUS
<1>1. /\ fixture \in Fixtures /\ check \in Checks /\ pos = 0 /\ verdict = "open" /\ up = {}
      /\ polled = NoRead /\ worked = FALSE /\ failures = FALSE /\ attempts = {} /\ returncode = 0
      /\ reads = [r \in {"before", "after"} |-> NoWork]
  BY DEF Init
<1>2. /\ C = Empty
      /\ M = IF fault = "dirty" THEN [Empty EXCEPT !.files = {"index", "stray"}] ELSE Empty
      /\ dirs \in [{"main", "control"} -> {Empty, [Empty EXCEPT !.files = {"index", "stray"}]}]
  BY DEF Init, M, C
<1>3. NoWork \in Works
  BY DEF NoWork, Works
<1>4. Len(Script[check]) \in 1..22
  BY <1>1, ScriptLengths DEF Checks
<1>5. Shape
  <2>1. dirs \in [{"main", "control"} -> Data]
    BY <1>2, EmptyData
  <2>2. reads \in [{"before", "after"} -> Works]
    BY <1>1, <1>3
  <2>3. pos \in Nat /\ pos <= Len(Script[check]) + 1 /\ ~(pos >= 7)
    BY <1>1, <1>4
  <2>4. polled \in Works \cup {NoRead}
    BY <1>1
  <2> QED BY <1>1, <1>4, <2>1, <2>2, <2>3, <2>4 DEF Shape
<1>6. /\ "paused" \notin M.files /\ "stamp" \notin M.files /\ ~M.edited /\ M.live = 0 /\ ~M.company /\ ~M.corrupt
      /\ fault # "dirty" => M.files = {}
      /\ "paused" \notin C.files /\ ~C.edited
  BY <1>2 DEF Empty
<1>7. Right
  BY <1>1 DEF Right, VerdictsEarned, GreenLooked, RedIsEarned, FixtureMatrix
<1>8. Alive /\ Settling /\ Asks /\ Counts
  BY <1>1 DEF Alive, Settling, Asks, Counts
<1>9. EgressGoes /\ UninstallGoes /\ SweepGoes /\ ControlGoes
  BY <1>1, <1>6 DEF EgressGoes, UninstallGoes, SweepGoes, ControlGoes
<1>10. PauseGoes
  BY <1>1, <1>6 DEF PauseGoes, SameAt
<1>11. EditGoes /\ ResyncGoes /\ DuplicateGoes
  BY <1>1, <1>6 DEF EditGoes, ResyncGoes, DuplicateGoes
<1>12. PairGoes
  BY <1>1, <1>6 DEF PairGoes, Live
<1>13. StampGoes
  BY <1>1, <1>6 DEF StampGoes
<1> QED BY <1>5, <1>7, <1>8, <1>9, <1>10, <1>11, <1>12, <1>13 DEF ChecksInv, Looking, Goes

(* While a check is open, every part of the invariant is kept.             *)
LEMMA OpenStep == ASSUME ChecksInv, Open, Next PROVE ChecksInv'
<1>1. Shape /\ Looking
  BY DEF ChecksInv, Open
<1>2. /\ Alive /\ Settling /\ Asks /\ Counts /\ EgressGoes /\ UninstallGoes /\ SweepGoes /\ ControlGoes
      /\ PauseGoes /\ EditGoes /\ ResyncGoes /\ DuplicateGoes /\ PairGoes /\ StampGoes
  BY <1>1 DEF Looking, Goes
<1>3. Shape' /\ Alive' /\ Settling' /\ Asks' /\ Counts'
  BY <1>1, <1>2, ShapeKept, AliveKept, SettlingKept, AsksKept, CountsKept
<1>4. EgressGoes' /\ UninstallGoes' /\ SweepGoes' /\ ControlGoes' /\ PauseGoes'
  BY <1>1, <1>2, EgressKept, UninstallKept, SweepKept, ControlKept, PauseKept
<1>5. EditGoes' /\ ResyncGoes' /\ DuplicateGoes' /\ PairGoes' /\ StampGoes'
  BY <1>1, <1>2, EditKept, ResyncKept, DuplicateKept, PairKept, StampKept
<1>6. Right'
  BY DEF Open, Right, VerdictsEarned, GreenLooked, RedIsEarned, FixtureMatrix
<1> QED BY <1>3, <1>4, <1>5, <1>6 DEF ChecksInv, Looking, Goes

-----------------------------------------------------------------------------
(* How a check is called off: with a working instrument, only for what the *)
(* target does not offer or does not report.                               *)
LEMMA SeesThrough ==
  ASSUME fault = "none"
  PROVE  Chosen # {} /\ SeesAll("shared") /\ SeesAll("isolated")
<1>1. "bwrap" \in Chosen
  BY DEF Chosen, Mechanisms, WorksHere
<1>2. Traced("shared") = ControlReaches /\ Traced("isolated") = ControlReaches
  BY DEF Traced, Blind
<1>3. AttemptsIn(ControlReaches) = {"off_machine", "dns"}
  <2>1. /\ Detector("public-address") = "off_machine" /\ Detector("local-resolver") = "dns"
        /\ Detector("loopback") = "none" /\ Detector("unix-socket") = "none"
    BY DEF Detector
  <2> QED BY <2>1 DEF AttemptsIn, ControlReaches
<1> QED BY <1>1, <1>2, <1>3 DEF SeesAll

LEMMA SoundArena ==
  ASSUME ChecksInv, verdict = "open", fault = "none", OnPath
  PROVE  /\ Step.do = "query" /\ ~(check = "both-answer") => Answers(fixture, Dir)
         /\ Step.do = "query" /\ Step.as \in {"baseline", "ready"} => Reply = "served"
         /\ Step.do = "created" => Moved("done") # {}
         /\ Step.do = "sweep" => Dir.files = {}
<1>1. /\ Shape /\ SweepGoes /\ ControlGoes /\ StampGoes
  BY DEF ChecksInv, Looking, Goes
<1>2. AskedBy
  BY <1>1, Askings DEF Shape
<1>3. Step.do = "query" /\ check # "both-answer" => ~M.corrupt /\ Dir = M
  <2> SUFFICES ASSUME Step.do = "query", check # "both-answer" PROVE ~M.corrupt /\ Dir = M
    OBVIOUS
  <2>1. check \in {"model-cache", "foreign-stamp"}
    BY <1>2 DEF AskedBy
  <2>2. Step.who # "control"
    BY <1>2, <2>1 DEF AskedBy, Pausing
  <2> QED BY <1>1, <2>1, <2>2, DirIs DEF SweepGoes, StampGoes
<1>4. ASSUME Step.do = "query", Step.as \in {"baseline", "ready"} PROVE Reply = "served"
  <2>1. check = "foreign-stamp"
    BY <1>2, <1>4 DEF AskedBy
  <2>2. /\ pos \in {2, 6, 10, 14, 18}
        /\ pos = 10 => Step.as = "restamp-older"
        /\ pos = 18 => Step.as = "restamp-newer"
    BY <1>4, <2>1, StampPath DEF OnPath
  <2>3. pos \in {2, 6, 14}
    BY <1>4, <2>2
  <2>4. "stamp" \notin M.files
    BY <1>1, <2>1, <2>3 DEF StampGoes
  <2>5. Hits(fixture, Dir) = Items /\ Items # 0
    BY <1>3, <1>4, <2>1, <2>4, LibraryAssumption DEF Hits
  <2> QED BY <2>5 DEF Reply
<1>5. Step.do = "created" => Moved("done") # {}
  <2> SUFFICES ASSUME Step.do = "created" PROVE Moved("done") # {}
    OBVIOUS
  <2>1. check \in Pausing
    BY <1>2 DEF AskedBy
  <2>2. pos = 9
    BY <2>1, StopsPath, HoldsPath DEF OnPath, Pausing
  <2> QED BY <1>1, <2>1, <2>2 DEF ControlGoes
<1>6. Step.do = "sweep" => Dir.files = {}
  <2> SUFFICES ASSUME Step.do = "sweep" PROVE Dir.files = {}
    OBVIOUS
  <2>1. check \in {"residue-inventory", "model-cache"} /\ pos = 1 /\ Step.who # "control"
    BY <1>2 DEF AskedBy, Pausing
  <2> QED BY <1>1, <2>1, DirIs DEF SweepGoes
<1> QED BY <1>3, <1>4, <1>5, <1>6 DEF Answers

LEMMA CalledOff ==
  ASSUME ChecksInv, verdict = "open", verdict' # "open", Next, ~Decide
  PROVE  /\ UNCHANGED <<fixture, check, fault, pos, target, seen, poll>>
         /\ \/ verdict' = "not-offered" /\ ~(\A v \in Needs(check) : Offers(fixture, v))
            \/ /\ verdict' = "not-run" /\ OnPath
               /\ fault = "none" => Step.do = "counters" /\ ~ReportsWork(fixture)
<1>1. ~Same
  BY DEF Same
<1>2. CASE Begin
  BY <1>2 DEF Begin, Rule
<1>3. ~(StartProcess \/ StopProcess \/ Call \/ FirstRead \/ Poll \/ Read \/ Subject)
  BY <1>1 DEF StartProcess, StopProcess, Call, FirstRead, Poll, Read, Subject
<1>4. ~(Worker("main") \/ Worker("control"))
  BY <1>1 DEF Worker
<1>5. ~Recorded
  BY DEF Recorded
<1>6. SUFFICES ASSUME ~Begin
               PROVE  CouldNotLook /\ OnPath /\ (fault = "none" => Step.do = "counters" /\ ~ReportsWork(fixture))
  BY <1>2 DEF CouldNotLook, Rule
<1>7. ASSUME CouldNotLook, OnPath, fault # "none"
      PROVE  CouldNotLook /\ OnPath /\ (fault = "none" => Step.do = "counters" /\ ~ReportsWork(fixture))
  BY <1>7
<1>8. CASE Status
  BY <1>1, <1>8 DEF Status, Now, OnPath
<1>9. CASE HasCounters
  BY <1>1, <1>9 DEF HasCounters, Now, OnPath
<1>10. CASE Independent
  BY <1>1, <1>10 DEF Independent, Now, OnPath
<1>11. CASE Instrument
  BY <1>1, <1>11, SeesThrough DEF Instrument, Now, OnPath
<1>12. CASE OutOfPatience
  BY <1>12 DEF OutOfPatience, Now, OnPath
<1>13. CASE Raise
  <2>1. CouldNotLook
    BY <1>1, <1>13 DEF Raise, Caught
  <2> QED BY <1>13, <2>1 DEF Raise, Now, OnPath
<1>14. CASE QueryCannot
  <2>1. CouldNotLook /\ check # "both-answer"
    BY <1>1, <1>14 DEF QueryCannot, Caught
  <2>2. OnPath /\ Step.do = "query" /\ ~Answers(fixture, Dir)
    BY <1>14 DEF QueryCannot, Now, OnPath
  <2> QED BY <2>1, <2>2, SoundArena
<1>15. CASE QueryAnswers
  <2>1. CouldNotLook /\ Step.as \in {"baseline", "ready"} /\ Reply # "served"
    BY <1>1, <1>15 DEF QueryAnswers
  <2>2. OnPath /\ Step.do = "query"
    BY <1>15 DEF QueryAnswers, Now, OnPath
  <2> QED BY <2>1, <2>2, SoundArena
<1>16. CASE PerturbTarget \/ PerturbBackgroundWork \/ PerturbSame
  <2>1. PICK what : Do(what)
    BY <1>16 DEF PerturbTarget, PerturbBackgroundWork, PerturbSame
  <2>2. CouldNotLook /\ fault # "none"
    BY <1>1, <2>1 DEF Do, Declines
  <2>3. OnPath
    BY <1>16 DEF PerturbTarget, PerturbBackgroundWork, PerturbSame, Now, OnPath
  <2> QED BY <2>2, <2>3
<1>17. CASE Created
  <2>1. OnPath /\ Step.do = "created" /\ CouldNotLook /\ Moved("done") = {}
    BY <1>1, <1>17 DEF Created, Now, OnPath
  <2> QED BY <2>1, SoundArena
<1>18. CASE Sweep
  <2>1. OnPath /\ Step.do = "sweep" /\ CouldNotLook /\ Dir.files # {}
    BY <1>1, <1>18 DEF Sweep, Now, OnPath
  <2> QED BY <2>1, SoundArena
<1> QED BY <1>3, <1>4, <1>5, <1>6, <1>8, <1>9, <1>10, <1>11, <1>12, <1>13, <1>14, <1>15, <1>16, <1>17, <1>18 DEF Next

-----------------------------------------------------------------------------
(* How a check ends: what the assertion concludes of what it has seen.     *)
AnErrorSeen ==
  \/ check \in {"both-answer", "foreign-stamp"} /\ (failures \/ "raised" \in {answers[l] : l \in DOMAIN answers})
  \/ check = "no-egress" /\ returncode \notin {0, DriveIncomplete}
Judges ==
  /\ Passes /\ ~Undecided => ~Unheeded
  /\ ~Passes /\ ~Undecided => Unheeded \/ AnErrorSeen
  /\ fault = "none" => ~Undecided /\ (Passes <=> ~Unheeded)
Ended == pos > Len(Script[check])

LEMMA EndsAt ==
  ASSUME Shape, Ended, NEW n \in Nat, Len(Script[check]) = n
  PROVE  pos \in Nat /\ pos >= n + 1
BY DEF Shape, Ended

LEMMA LocalEnds == ASSUME check = "local-by-default" PROVE Judges
BY DEF Judges, Passes, Undecided, Unheeded, RedFor, Locality

LEMMA EgressEnds ==
  ASSUME Shape, EgressGoes, check = "no-egress", Ended PROVE Judges
<1>1. pos >= 5
  <2>1. Len(Script[check]) = 4
    BY ScriptLengths DEF Shape
  <2> QED BY <2>1, EndsAt
<1>2. Unheeded <=> fixture \in {"egress-ip", "egress-name"}
  BY DEF Unheeded, RedFor
<1>3. Passes <=> attempts = {} /\ returncode = 0
  BY DEF Passes
<1>4. Undecided <=> returncode = DriveIncomplete /\ attempts = {}
  BY DEF Undecided
<1>5. DriveIncomplete # 0
  BY DEF DriveIncomplete
<1> QED BY <1>1, <1>2, <1>3, <1>4, <1>5 DEF Judges, EgressGoes, AnErrorSeen

LEMMA UninstallEnds ==
  ASSUME Shape, UninstallGoes, check = "uninstall", Ended PROVE Judges
<1>1. pos >= 4
  <2>1. Len(Script[check]) = 4
    BY ScriptLengths DEF Shape
  <2> QED BY <2>1, EndsAt
<1>2. Unheeded <=> fixture = "uninstall-leaves-residue"
  BY DEF Unheeded, RedFor
<1>3. Passes <=> Declared(fixture, M.files) = {}
  BY DEF Passes, Survivors, M
<1>4. ~Undecided
  BY DEF Undecided
<1> QED BY <1>1, <1>2, <1>3, <1>4 DEF Judges, UninstallGoes

LEMMA SweepEnds ==
  ASSUME Shape, SweepGoes, check \in {"residue-inventory", "model-cache"}, Ended PROVE Judges
<1>1. pos >= 4
  <2>1. Len(Script[check]) = 4 \/ Len(Script[check]) = 7
    BY ScriptLengths DEF Shape
  <2>2. CASE Len(Script[check]) = 4
    BY <2>2, EndsAt
  <2>3. CASE Len(Script[check]) = 7
    BY <2>3, EndsAt
  <2> QED BY <2>1, <2>2, <2>3
<1>2. Unheeded <=> fixture \in {"strays", "under-declares"}
  BY DEF Unheeded, RedFor
<1>3. baseline = {} /\ "index" \in M.files /\ ("stray" \in M.files <=> fixture = "strays")
  BY <1>1 DEF SweepGoes, Shape
<1>4. Passes <=> Residue = {}
  BY DEF Passes
<1>5. Residue = {x \in M.files : Directory(x) \notin DeclaredRoots(fixture)}
  BY <1>3 DEF Residue, M
<1>6. CASE fixture = "strays"
  <2>1. "stray" \in Residue
    BY <1>3, <1>5, <1>6 DEF Directory, DeclaredRoots
  <2> QED BY <1>2, <1>4, <1>6, <2>1 DEF Judges, Undecided
<1>7. CASE fixture = "under-declares"
  <2>1. "index" \in Residue
    BY <1>3, <1>5, <1>7 DEF Directory, DeclaredRoots
  <2> QED BY <1>2, <1>4, <1>7, <2>1 DEF Judges, Undecided
<1>8. CASE fixture \notin {"strays", "under-declares"}
  <2>1. Residue = {}
    BY <1>3, <1>5, <1>8 DEF Directory, DeclaredRoots
  <2> QED BY <1>2, <1>4, <1>8, <2>1 DEF Judges, Undecided
<1> QED BY <1>6, <1>7, <1>8

LEMMA PauseEnds ==
  ASSUME Shape, PauseGoes, check \in Pausing, Ended PROVE Judges
<1>1. pos >= SameAt + 2
  <2>1. CASE check = "pause-stops"
    <3>1. Len(Script[check]) = 18 /\ SameAt = 16
      BY <2>1, ScriptLengths DEF Shape, SameAt
    <3> QED BY <3>1, EndsAt
  <2>2. CASE check = "pause-holds"
    <3>1. Len(Script[check]) = 22 /\ SameAt = 20
      BY <2>2, ScriptLengths DEF Shape, SameAt
    <3> QED BY <3>1, EndsAt
  <2> QED BY <2>1, <2>2 DEF Pausing
<1>2. Passes <=> Moved("done") = {}
  BY DEF Passes, Pausing
<1>3. ~Undecided
  BY DEF Undecided, Pausing
<1> QED BY <1>1, <1>2, <1>3 DEF Judges, PauseGoes

LEMMA DuplicateEnds ==
  ASSUME Shape, DuplicateGoes, check = "no-duplicate-work", Ended PROVE Judges
<1>1. pos >= 8
  <2>1. Len(Script[check]) = 8
    BY ScriptLengths DEF Shape
  <2> QED BY <2>1, EndsAt
<1>2. Passes <=> Moved("done") = {}
  BY DEF Passes
<1>3. ~Undecided
  BY DEF Undecided
<1> QED BY <1>1, <1>2, <1>3 DEF Judges, DuplicateGoes

LEMMA PairEnds ==
  ASSUME Shape, PairGoes, check = "both-answer", Ended PROVE Judges
<1>1. pos >= 11
  <2>1. Len(Script[check]) = 10
    BY ScriptLengths DEF Shape
  <2> QED BY <2>1, EndsAt
<1>2. Passes <=> ~failures /\ \A l \in Pair : Listed(l)
  BY DEF Passes
<1>3. Undecided <=> ~failures /\ \A l \in Pair : ~Listed(l)
  BY DEF Undecided
<1>4. failures => Unheeded \/ fault = "raise"
  BY DEF PairGoes
<1>5. ~failures => ~Unheeded /\ \A l \in Pair : Listed(l) <=> fault # "no-hit-list"
  BY <1>1 DEF PairGoes, Heard, Pair, Shape
<1>6. failures => AnErrorSeen
  BY DEF AnErrorSeen
<1>7. "first" \in Pair
  BY DEF Pair
<1> QED BY <1>2, <1>3, <1>4, <1>5, <1>6, <1>7 DEF Judges

LEMMA StampEnds ==
  ASSUME Shape, StampGoes, check = "foreign-stamp", Ended PROVE Judges
<1>1. pos >= 19
  <2>1. Len(Script[check]) = 19
    BY ScriptLengths DEF Shape
  <2> QED BY <2>1, EndsAt
<1>2. Unheeded <=> fixture = "abandons-foreign-stamp"
  BY DEF Unheeded, RedFor
<1>3. \A l \in {"restamp-older", "restamp-newer"} : Told(l)
  BY <1>1 DEF StampGoes, Shape
<1>4. Passes <=> \A l \in {"restamp-older", "restamp-newer"} : Got(l) = "served"
  BY DEF Passes
<1>5. \A l \in {"restamp-older", "restamp-newer"} :
        /\ Got(l) = answers[l] /\ l \in DOMAIN answers
        /\ \/ answers[l] = "raised" /\ fault = "raise"
           \/ answers[l] = IF Unheeded THEN "empty" ELSE "served"
  BY <1>2, <1>3 DEF Told, Got
<1>6. ~Undecided
  BY DEF Undecided
<1>7. (\E l \in DOMAIN answers : answers[l] = "raised") => AnErrorSeen
  BY DEF AnErrorSeen
<1>8. Unheeded => ~Passes
  BY <1>4, <1>5
<1>9. ~Passes => Unheeded \/ AnErrorSeen
  BY <1>4, <1>5, <1>7
<1>10. fault = "none" /\ ~Unheeded => Passes
  BY <1>4, <1>5
<1> QED BY <1>6, <1>8, <1>9, <1>10 DEF Judges

(* The two that are read off the counters.                                 *)
LEMMA EditEnds ==
  ASSUME Shape, EditGoes, check = "edit", Ended PROVE Judges
<1> DEFINE n == IF fixture = "recomputes-whole-library-on-edit" THEN Items * Sections ELSE Sections
           r == <<"record", "edit", "done">>
           e == <<"embed", "edit", "done">>
           b == EditWork(fixture, "edit-one-item")
<1>1. pos >= 6
  <2>1. Len(Script[check]) = 6
    BY ScriptLengths DEF Shape
  <2> QED BY <2>1, EndsAt
<1>2. reads["after"] = Plus(Plus(reads["before"], b[1]), b[2])
  BY <1>1 DEF EditGoes
<1>3. n \in Amount /\ 1 \in Amount /\ (n = Sections <=> fixture # "recomputes-whole-library-on-edit")
  BY Amounts
<1>4. b = Recompute("edit", 1, n)
  BY DEF EditWork
<1> HIDE DEF n, b
<1>5. b[1] = <<r, 1>> /\ b[2] = <<e, n>>
  BY <1>3, <1>4, RecomputeBatches DEF Triggers
<1>6. /\ r \in Counters /\ e \in Counters /\ r # e /\ r[3] = "done" /\ e[3] = "done"
      /\ r[1] = "record" /\ e[1] = "embed"
  BY CountersAre DEF Stages, Triggers
<1> HIDE DEF r, e
<1>7. reads["before"] \in Works
  BY DEF Shape
<1>8. \A c \in Counters : /\ reads["before"][c] \in Nat
                          /\ reads["after"][c] = reads["before"][c] + (IF c = r THEN 1 ELSE 0) + (IF c = e THEN n ELSE 0)
  <2>1. \A c \in Counters : reads["before"][c] \in Nat
    BY <1>7 DEF Works
  <2>2. b[1][1] = r /\ b[1][2] = 1 /\ b[2][1] = e /\ b[2][2] = n
    BY <1>5
  <2> QED BY <1>2, <2>1, <2>2 DEF Plus
<1>9. n \in Nat /\ n # 0
  BY <1>3 DEF Amount
<1>10. Moved("done") = {r, e}
  BY <1>6, <1>8, <1>9 DEF Moved
<1>11. reads["after"][r] - reads["before"][r] = 1 /\ reads["after"][e] - reads["before"][e] = n
  BY <1>6, <1>8, <1>9
<1>12. EditArithmetic <=> n = Sections
  <2>1. EditArithmetic <=> \A c \in {r, e} : reads["after"][c] - reads["before"][c] = IF c[1] = "record" THEN 1 ELSE Sections
    BY <1>10 DEF EditArithmetic, r, e
  <2> QED BY <1>6, <1>11, <2>1
<1>13. Passes <=> EditArithmetic
  BY DEF Passes
<1>14. Unheeded <=> fixture = "recomputes-whole-library-on-edit"
  BY DEF Unheeded, RedFor
<1> QED BY <1>3, <1>12, <1>13, <1>14 DEF Judges, Undecided

LEMMA ResyncEnds ==
  ASSUME Shape, ResyncGoes, check = "resync", Ended PROVE Judges
<1> DEFINE r == <<"record", "resync", "noop">>
           o == IF fixture = "churns-on-resync" THEN "done" ELSE "noop"
           e == <<"embed", "resync", o>>
           m == Items * Sections
<1>1. pos >= 6
  <2>1. Len(Script[check]) = 6
    BY ScriptLengths DEF Shape
  <2> QED BY <2>1, EndsAt
<1>2. reads["before"] \in Works
  BY DEF Shape
<1>3. Passes <=> Moved("done") = {} /\ \E c \in Moved("noop") : c[2] = "resync"
  BY DEF Passes
<1>4. Unheeded <=> fixture \in {"churns-on-resync", "verifies-nothing-on-resync"}
  BY DEF Unheeded, RedFor
<1>5. CASE fixture = "verifies-nothing-on-resync"
  <2>1. reads["after"] = reads["before"]
    BY <1>1, <1>5 DEF ResyncGoes
  <2>2. Moved("noop") = {}
    BY <1>2, <2>1 DEF Moved, Works
  <2> QED BY <1>3, <1>4, <1>5, <2>2 DEF Judges, Undecided
<1>6. CASE fixture # "verifies-nothing-on-resync"
  <2>1. reads["after"] = Plus(Plus(reads["before"], ResyncWork(fixture)[1]), ResyncWork(fixture)[2])
    BY <1>1, <1>6 DEF ResyncGoes
  <2>2. ResyncWork(fixture)[1] = <<r, Items>> /\ ResyncWork(fixture)[2] = <<e, m>>
    BY DEF ResyncWork
  <2>3. /\ r \in Counters /\ e \in Counters /\ r # e /\ r[3] = "noop" /\ e[3] = o /\ r[2] = "resync"
        /\ r[1] = "record" /\ e[1] = "embed"
    BY CountersAre DEF Stages, Triggers
  <2>4. Items \in Nat /\ Items > 0 /\ m \in Nat /\ m > 0
    BY Amounts DEF Amount
  <2> HIDE DEF r, e, m
  <2>5. \A c \in Counters : /\ reads["before"][c] \in Nat
                            /\ reads["after"][c] = reads["before"][c] + (IF c = r THEN Items ELSE 0) + (IF c = e THEN m ELSE 0)
    <3>1. \A c \in Counters : reads["before"][c] \in Nat
      BY <1>2 DEF Works
    <3>2. /\ ResyncWork(fixture)[1][1] = r /\ ResyncWork(fixture)[1][2] = Items
          /\ ResyncWork(fixture)[2][1] = e /\ ResyncWork(fixture)[2][2] = m
      BY <2>2
    <3> QED BY <2>1, <3>1, <3>2 DEF Plus
  <2>6. \A c \in Counters : reads["after"][c] > reads["before"][c] <=> c \in {r, e}
    BY <2>3, <2>4, <2>5
  <2>7. r \in Moved("noop")
    BY <2>3, <2>6 DEF Moved
  <2>8. CASE fixture = "churns-on-resync"
    <3>1. e \in Moved("done")
      BY <2>3, <2>6, <2>8 DEF Moved
    <3> QED BY <1>3, <1>4, <2>8, <3>1 DEF Judges, Undecided
  <2>9. CASE fixture # "churns-on-resync"
    <3>1. Moved("done") = {}
      BY <2>3, <2>6, <2>9 DEF Moved
    <3> QED BY <1>3, <1>4, <1>6, <2>3, <2>7, <2>9, <3>1 DEF Judges, Undecided
  <2> QED BY <2>8, <2>9
<1> QED BY <1>5, <1>6

LEMMA EveryCheckJudges ==
  ASSUME Shape, Goes, Ended PROVE Judges
<1>1. check \in Checks
  BY DEF Shape
<1>2. /\ EgressGoes /\ UninstallGoes /\ SweepGoes /\ PauseGoes /\ EditGoes /\ ResyncGoes
      /\ DuplicateGoes /\ PairGoes /\ StampGoes
  BY DEF Goes
<1> QED BY <1>1, <1>2, LocalEnds, EgressEnds, UninstallEnds, SweepEnds, PauseEnds, DuplicateEnds,
           PairEnds, StampEnds, EditEnds, ResyncEnds DEF Checks, Pausing

LEMMA Reported ==
  ASSUME Shape, Counts, Ended, CountsWork(check) PROVE ReportsWork(fixture)
<1>1. check \in Counting
  BY NeverCounts DEF Shape
<1>2. pos >= 4
  <2>1. Len(Script[check]) \in {6, 8, 18, 22}
    BY <1>1, ScriptLengths DEF Counting, Pausing, Shape
  <2>2. CASE Len(Script[check]) = 6
    BY <2>2, EndsAt
  <2>3. CASE Len(Script[check]) = 8
    BY <2>3, EndsAt
  <2>4. CASE Len(Script[check]) = 18
    BY <2>4, EndsAt
  <2>5. CASE Len(Script[check]) = 22
    BY <2>5, EndsAt
  <2> QED BY <2>1, <2>2, <2>3, <2>4, <2>5
<1> QED BY <1>1, <1>2 DEF Counts

-----------------------------------------------------------------------------
(* Closing a check keeps the invariant, and so does every step.            *)
LEMMA DecideKeeps == ASSUME ChecksInv, Decide PROVE ChecksInv'
<1>1. /\ verdict = "open" /\ Ended
      /\ UNCHANGED <<fixture, check, fault, pos, target, seen, poll>>
      /\ verdict' = IF Undecided THEN "not-run" ELSE IF Passes THEN "pass" ELSE "fail"
  BY DEF Decide, Rule, Ended
<1>2. /\ Shape /\ Asks /\ Counts /\ Goes
  BY <1>1 DEF ChecksInv, Looking
<1>3. Judges
  BY <1>1, <1>2, EveryCheckJudges
<1>4. (\A v \in Needs(check) : Offers(fixture, v)) /\ (CountsWork(check) => ReportsWork(fixture))
  <2>1. pos >= 1
    BY <1>1, <1>2 DEF Shape, Ended
  <2> QED BY <1>1, <1>2, <2>1, Reported DEF Asks
<1>5. Shape'
  BY <1>1, <1>2 DEF Shape, target, poll, seen
<1>6. GreenLooked'
  BY <1>1, <1>3 DEF GreenLooked, Judges, Unheeded
<1>7. RedIsEarned'
  BY <1>1, <1>3 DEF RedIsEarned, Judges, Unheeded, AnErrorSeen, seen
<1>8. FixtureMatrix'
  BY <1>1, <1>3, <1>4 DEF FixtureMatrix, Judges, Unheeded
<1>9. verdict' # "open"
  BY <1>1
<1> QED BY <1>5, <1>6, <1>7, <1>8, <1>9 DEF ChecksInv, Right, VerdictsEarned

LEMMA CalledOffKeeps ==
  ASSUME ChecksInv, verdict = "open", verdict' # "open", Next, ~Decide
  PROVE  ChecksInv'
<1>1. /\ UNCHANGED <<fixture, check, fault, pos, target, seen, poll>>
      /\ \/ verdict' = "not-offered" /\ ~(\A v \in Needs(check) : Offers(fixture, v))
         \/ /\ verdict' = "not-run" /\ OnPath
            /\ fault = "none" => Step.do = "counters" /\ ~ReportsWork(fixture)
  BY CalledOff
<1>2. Shape /\ Asks
  BY DEF ChecksInv, Looking
<1>3. Shape'
  BY <1>1, <1>2 DEF Shape, target, poll, seen
<1>4. VerdictsEarned'
  BY <1>1 DEF VerdictsEarned, GreenLooked, RedIsEarned
<1>5. FixtureMatrix'
  <2>1. CASE verdict' = "not-offered" /\ ~(\A v \in Needs(check) : Offers(fixture, v))
    BY <1>1, <2>1 DEF FixtureMatrix
  <2>2. CASE /\ verdict' = "not-run" /\ OnPath
             /\ fault = "none" => Step.do = "counters" /\ ~ReportsWork(fixture)
    <3>1. ASSUME fault = "none" PROVE CountsWork(check)
      BY <2>2, <3>1 DEF CountsWork, OnPath, Step
    <3>2. \A v \in Needs(check) : Offers(fixture, v)
      BY <1>2, <2>2 DEF Asks, OnPath
    <3> QED BY <1>1, <2>2, <3>1, <3>2 DEF FixtureMatrix
  <2> QED BY <1>1, <2>1, <2>2
<1> QED BY <1>1, <1>3, <1>4, <1>5 DEF ChecksInv, Right

LEMMA ClosedStays == ASSUME verdict # "open", Next PROVE UNCHANGED vars
BY DEF Next, Begin, StartProcess, StopProcess, Worker, Call, Status, QueryAnswers, QueryCannot, Raise,
       HasCounters, FirstRead, Poll, OutOfPatience, Read, PerturbTarget, PerturbBackgroundWork, PerturbSame,
       Independent, Created, Sweep, Instrument, Subject, Decide, Recorded, Now

LEMMA StutterKeeps == ASSUME ChecksInv, UNCHANGED vars PROVE ChecksInv'
<1>1. /\ fixture' = fixture /\ check' = check /\ fault' = fault /\ pos' = pos /\ dirs' = dirs /\ up' = up
      /\ reads' = reads /\ answers' = answers /\ baseline' = baseline /\ candidate' = candidate
      /\ polled' = polled /\ worked' = worked /\ attempts' = attempts /\ returncode' = returncode
      /\ failures' = failures /\ verdict' = verdict
  BY DEF vars
<1>2. Shape <=> Shape'
  BY <1>1 DEF Shape
<1>3. Right <=> Right'
  BY <1>1 DEF Right, VerdictsEarned, GreenLooked, RedIsEarned, FixtureMatrix
<1>4. M' = M /\ C' = C /\ Unheeded' = Unheeded /\ Dir' = Dir /\ Step' = Step /\ SameAt' = SameAt
  BY <1>1 DEF M, C, Unheeded, Dir, Step, Arena, SameAt
<1>5. Moved("done")' = Moved("done") /\ \A d : Risen(d)' <=> Risen(d)
  BY <1>1 DEF Moved, Risen
<1>6. /\ \A d : Owed(d)' <=> Owed(d)
      /\ \A d, b : UnderWay(d, b)' <=> UnderWay(d, b)
      /\ \A d : Settled(d)' <=> Settled(d)
  BY <1>1, <1>5 DEF Owed, Due, UnderWay, Settled
<1>7. \A l : (Heard(l)' <=> Heard(l)) /\ (Told(l)' <=> Told(l))
  BY <1>1 DEF Heard, Told, Listed, Got
<1>8. (Alive <=> Alive') /\ (Settling <=> Settling') /\ (Asks <=> Asks') /\ (Counts <=> Counts')
  BY <1>1 DEF Alive, Settling, Asks, Counts, Behind, Dir, Step, Arena, OnPath
<1>9. (EgressGoes <=> EgressGoes') /\ (UninstallGoes <=> UninstallGoes') /\ (SweepGoes <=> SweepGoes')
  BY <1>1 DEF EgressGoes, UninstallGoes, SweepGoes, M
<1>10. (ControlGoes => ControlGoes') /\ (PauseGoes => PauseGoes')
  BY <1>1, <1>4, <1>5, <1>6 DEF ControlGoes, PauseGoes, Owed, Due, Risen, Settled
<1>11. (EditGoes => EditGoes') /\ (ResyncGoes => ResyncGoes') /\ (DuplicateGoes => DuplicateGoes')
  BY <1>1, <1>4, <1>5 DEF EditGoes, ResyncGoes, DuplicateGoes, Owed, Due, Risen, Settled, UnderWay
<1>12. (PairGoes => PairGoes') /\ (StampGoes => StampGoes')
  BY <1>1, <1>4, <1>7 DEF PairGoes, StampGoes, Live
<1> QED BY <1>1, <1>2, <1>3, <1>8, <1>9, <1>10, <1>11, <1>12 DEF ChecksInv, Looking, Goes

LEMMA ChecksInvHolds == Spec => []ChecksInv
<1>1. ASSUME ChecksInv, [Next]_vars PROVE ChecksInv'
  <2>1. CASE UNCHANGED vars
    BY <1>1, <2>1, StutterKeeps
  <2>2. CASE Next /\ verdict # "open"
    BY <1>1, <2>2, ClosedStays, StutterKeeps
  <2>3. CASE Next /\ Open
    BY <1>1, <2>3, OpenStep
  <2>4. CASE Next /\ verdict = "open" /\ verdict' # "open"
    BY <1>1, <2>4, DecideKeeps, CalledOffKeeps
  <2> QED BY <1>1, <2>1, <2>2, <2>3, <2>4 DEF Open
<1> QED BY Starts, <1>1, PTL DEF Spec

(* Neither verdict of an acceptance assertion is an instrument's: for      *)
(* every library, every set of instrument failures and every timing of the *)
(* worker, a green means the fixture is not one built for the clause and a *)
(* red means it is, or that an exception was itself the observation.       *)
THEOREM VerdictsAreEarned == Spec => []VerdictsEarned
<1>1. ChecksInv => VerdictsEarned
  BY DEF ChecksInv, Right
<1> QED BY <1>1, ChecksInvHolds, PTL

(* With a working instrument each assertion is red on the fixtures built   *)
(* for its clause and on no other, "not-offered" and "not-run" exactly     *)
(* where the target has no such verb or no work report.                    *)
THEOREM FixturesAreTold == Spec => []FixtureMatrix
<1>1. ChecksInv => FixtureMatrix
  BY DEF ChecksInv, Right
<1> QED BY <1>1, ChecksInvHolds, PTL
=============================================================================
