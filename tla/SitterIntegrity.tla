--------------------------- MODULE SitterIntegrity ---------------------------
(***************************************************************************)
(* bench/sitter_integrity.py: what a rung of the sitter's test ladder may  *)
(* find changed in a Zotero data directory.  A snapshot is read store by   *)
(* store while Zotero runs, so it may mix two moments; it counts once two  *)
(* of them in a row agree.  A segment is the diff between the last         *)
(* snapshot kept and a new one, judged against what is permitted always    *)
(* and what the step under test declared.                                  *)
(*                                                                         *)
(* Three stores stand for the directory, in the order of the walk: "alien" *)
(* for the files nobody may touch (its value is its content), "tables" for *)
(* the databases (the number of rows), "packs" for the pack files (the     *)
(* attachments that have one; a pack may appear and change, never go       *)
(* unless an erasure is declared).  The journals SQLite and Zotero keep    *)
(* beside a database are recorded and not judged, and are left out, and so *)
(* are hashes: a content is compared as itself.                            *)
(***************************************************************************)
EXTENDS Integers, Sequences, SequencesExt

VARIABLES disk,    \* the data directory: store -> content
          ledger   \* the Ledger, and the snapshot it is taking

Stores == <<"alien", "tables", "packs">>
NoEdit == [rows |-> 0, erased |-> {}]
ImportEdit(items) == [NoEdit EXCEPT !.rows = items]
EraseEdit(keys) == [rows |-> -Cardinality(keys), erased |-> keys]
AttachEdit == [NoEdit EXCEPT !.rows = 1]

Blank == [s \in ToSet(Stores) |-> IF s = "packs" THEN {} ELSE 0]
LedgerInit == [started |-> FALSE, last |-> Blank, reading |-> 0, now |-> Blank,
               before |-> Blank, whole |-> FALSE]

(* _file_digest() and _dump_database(): what a store is compared by. *)
ContentOf(s) == disk[s]
(* _read(): one store more of the snapshot being taken. *)
Read == /\ ledger.reading < Len(Stores)
        /\ LET s == Stores[ledger.reading + 1]
           IN  ledger' = [ledger EXCEPT !.reading = @ + 1, !.now = [@ EXCEPT ![s] = ContentOf(s)]]

(* settled_snapshot(): a whole read equal to the one before it is the      *)
(* snapshot; any other becomes the one to compare with.                    *)
WholeRead == ledger.reading = Len(Stores)
Settled == WholeRead /\ ledger.whole /\ ledger.now = ledger.before
ReadAgain == /\ WholeRead /\ ~Settled
             /\ ledger' = [ledger EXCEPT !.before = ledger.now, !.whole = TRUE, !.reading = 0]

(* diff() and check(): a segment is clean when nothing moved but what is    *)
(* permitted always and what the edit declares.                            *)
Clean(before, after, edit) == /\ after.alien = before.alien
                              /\ after.tables - before.tables = edit.rows
                              /\ before.packs \ after.packs \subseteq edit.erased

(* Ledger.start() and Ledger.segment(): the segment starts where the last  *)
(* one ended, and the new snapshot is the last one from here on, also when *)
(* it is a violation.                                                      *)
Keep(after) == ledger' = [LedgerInit EXCEPT !.started = TRUE, !.last = after]
SinceTheReading == ledger.before
Since == ledger.last
SegmentIs(edit) == Clean(Since, ledger.now, edit)
=============================================================================
