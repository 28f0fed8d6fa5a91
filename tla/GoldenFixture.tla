---------------------------- MODULE GoldenFixture ----------------------------
(***************************************************************************)
(* bench/fixtures/golden_fixture.py: `inject` reconciles a Zotero library  *)
(* with the recipe, `retire` moves a document out of its collection and    *)
(* `export` takes a snapshot of what Zotero holds and replaces the one on  *)
(* disk with it, while people and Zotero itself go on changing the library *)
(* and the source files, and any command may be killed.                    *)
(*                                                                         *)
(* A document has three items: a parent, an attachment and a note.  Every  *)
(* write of an item gives the library its next version.  A file is its     *)
(* content, "pinned" when the recipe's hash is its own.  A body of full    *)
(* text is known by the content it was extracted from and by the number of *)
(* its extraction, so that no two bodies are the same; its version is 0    *)
(* for every extraction made here, and new for one that is synced.  What a refusal says, and what else the *)
(* manifest records, is left out.                                          *)
(***************************************************************************)
EXTENDS Integers, Sequences, SequencesExt

CONSTANTS Docs,      \* the documents of the recipe, in its order
          Events,    \* bound: changes made by others
          Commands   \* bound: commands started

(* The recipe is a list. *)
ASSUME DocsAssumption == Docs \in Seq(ToSet(Docs))

VARIABLES library,  \* what Zotero holds
          sources,  \* the files of the cache directory
          command,  \* the command that runs, if any
          folder,   \* the snapshot directory and the one moved aside
          budget    \* the changes and commands left

fixtureVars == <<library, sources, command, folder, budget>>

Ids == ToSet(Docs)
Parts == {"parent", "attachment", "note"}
NoItem == [is |-> "absent", version |-> 0]
Ours(version) == [is |-> "ours", version |-> version]
NoText == [of |-> "none", take |-> 0, version |-> 0]
NoTexts == [d \in Ids |-> NoText]
NoSnapshot == [rows |-> NoTexts, moment |-> NoTexts, whole |-> FALSE]
Resting == [runs |-> "none", at |-> "idle", todo |-> <<>>,
            seen |-> [d \in Ids |-> [p \in Parts |-> NoItem]],
            pending |-> {}, start |-> 0, texts |-> NoTexts, settled |-> [d \in Ids |-> "unknown"],
            rows |-> NoTexts, moment |-> NoTexts]

(* The library before: nothing of ours, or all of it, with the files of an *)
(* earlier pin.  declared are the recipe's failure controls, readable the  *)
(* files Zotero finds text in.                                             *)
FixtureInit ==
  /\ \E kind \in {"user", "group"}, there \in BOOLEAN, declared, readable \in SUBSET Ids :
       library = [kind |-> kind, declared |-> declared, readable |-> readable,
                  item |-> [d \in Ids |-> [p \in Parts |-> IF there THEN Ours(1) ELSE NoItem]],
                  stored |-> [d \in Ids |-> IF there THEN "old" ELSE "none"],
                  text |-> NoTexts, takes |-> 0, queue |-> {}, version |-> 1, foreign |-> FALSE]
  /\ sources = [d \in Ids |-> "pinned"]
  /\ command = Resting /\ folder = [now |-> NoSnapshot, aside |-> NoSnapshot]
  /\ budget = [events |-> Events, commands |-> Commands]

-----------------------------------------------------------------------------
(* Zotero and the people who use it. *)
FileOf(d) == IF library.kind = "user" THEN sources[d] ELSE library.stored[d]
Extracted(d) ==
  IF FileOf(d) = "none" THEN library.text[d]
  ELSE IF d \notin library.readable THEN NoText
  ELSE [of |-> FileOf(d), take |-> library.takes + 1, version |-> 0]
Takes(d, text) == library' = [library EXCEPT !.text[d] = text, !.takes = @ + 1, !.queue = @ \ {d}]
Spend == budget' = [budget EXCEPT !.events = @ - 1]

(* The control plugin's queue: an attachment whose file is not there keeps *)
(* the text it has, one with nothing to extract loses it.                  *)
Extract == \E d \in library.queue :
             Takes(d, Extracted(d)) /\ UNCHANGED <<sources, command, folder, budget>>

Reextracts == \E d \in Ids \ library.queue : Takes(d, Extracted(d)) /\ UNCHANGED sources
(* A text that is synced in has the version the server gave it. *)
Synced == [of |-> "old", take |-> library.takes + 1, version |-> library.takes + 1]
Syncs == \E d \in Ids : Takes(d, Synced) /\ UNCHANGED sources
Drifts == \E d \in Ids, p \in Parts :
            /\ library.item[d][p].is # "absent"
            /\ library' = [library EXCEPT !.version = @ + 1,
                             !.item[d][p] = [is |-> "drifted", version |-> library.version + 1]]
            /\ UNCHANGED sources
Strays == /\ ~library.foreign
          /\ library' = [library EXCEPT !.version = @ + 1, !.foreign = TRUE] /\ UNCHANGED sources
SourceChanges == \E d \in Ids : sources' = [sources EXCEPT ![d] = "old"] /\ UNCHANGED library
Others == /\ budget.events > 0 /\ Spend /\ UNCHANGED <<command, folder>>
          /\ \/ Reextracts \/ Syncs \/ Drifts \/ Strays \/ SourceChanges

-----------------------------------------------------------------------------
(* A command. *)
Runs(name, at) == command.runs = name /\ command.at = at
Proceed(at) == command' = [command EXCEPT !.at = at]
Done == command' = Resting
Refuse == Done
Still == UNCHANGED <<library, sources, folder, budget>>

(* A directory set aside by an export that was killed stays there, and no  *)
(* later one looks at it.                                                  *)
BeginCommand ==
  /\ command = Resting /\ budget.commands > 0
  /\ budget' = [budget EXCEPT !.commands = @ - 1]
  /\ \E name \in {"inject", "retire", "export"} :
       command' = [Resting EXCEPT !.runs = name,
                                  !.at = IF name = "retire" THEN "list" ELSE "verify"]
  /\ folder' = [folder EXCEPT !.aside = NoSnapshot]
  /\ UNCHANGED <<library, sources>>
Killed == command # Resting /\ Done /\ Still

(* verify_source_bytes(): before anything, after the extraction, and again *)
(* before the snapshot is written.                                         *)
AfterVerify == [verify |-> IF command.runs = "inject" THEN "list" ELSE "refresh",
                reverify |-> "status", lastverify |-> "swap"]
VerifySources == /\ command.at \in DOMAIN AfterVerify /\ Still
                 /\ IF \A d \in Ids : sources[d] = "pinned"
                      THEN Proceed(AfterVerify[command.at]) ELSE Refuse

(* inject(): what is there is read once, and told apart by its markers; an *)
(* item without one refuses the collection.                                *)
Plan == FlattenSeq([i \in DOMAIN Docs |->
          <<<<Docs[i], "parent">>, <<Docs[i], "attachment">>, <<Docs[i], "file">>, <<Docs[i], "note">>>>])
List == /\ command.at = "list" /\ Still
        /\ IF library.foreign /\ command.runs = "inject" THEN Refuse
           ELSE command' = [command EXCEPT !.at = "write", !.seen = library.item,
                              !.todo = IF command.runs = "inject" THEN Plan ELSE Docs]
Next1 == [command EXCEPT !.todo = Tail(@)]
(* An item is created, or written over with the version it was read at,    *)
(* which Zotero refuses when it has moved on.                              *)
WriteItem == \E d \in Ids, p \in Parts :
  /\ Runs("inject", "write") /\ command.todo # <<>> /\ Head(command.todo) = <<d, p>>
  /\ LET was == command.seen[d][p] IN
       IF was.is = "ours" THEN command' = Next1 /\ UNCHANGED library
       ELSE IF library.item[d][p].version # was.version THEN Refuse /\ UNCHANGED library
       ELSE /\ library' = [library EXCEPT !.version = @ + 1, !.item[d][p] = Ours(library.version + 1)]
            /\ command' = IF p = "attachment" THEN [Next1 EXCEPT !.pending = @ \union {d}] ELSE Next1
  /\ UNCHANGED <<sources, folder, budget>>
(* upload_file(): a group's file is sent again whatever the item says, in  *)
(* three requests of which the last one counts.                            *)
Upload == \E d \in Ids :
  /\ Runs("inject", "write") /\ command.todo # <<>> /\ Head(command.todo) = <<d, "file">>
  /\ IF library.kind = "user" THEN command' = Next1 /\ UNCHANGED library
     ELSE \/ /\ library' = [library EXCEPT !.stored[d] = sources[d]]
             /\ command' = [Next1 EXCEPT !.pending = @ \union {d}]
          \/ Refuse /\ UNCHANGED library
  /\ UNCHANGED <<sources, folder, budget>>
Reindex == /\ Runs("inject", "write") /\ command.todo = <<>>
           /\ library' = [library EXCEPT !.queue = @ \union command.pending]
           /\ IF command.pending = {} THEN Done ELSE Proceed("settle")
           /\ UNCHANGED <<sources, folder, budget>>

(* retire(): the items go back whole, without the collection. *)
Retire == /\ Runs("retire", "write") /\ command.todo # <<>>
          /\ LET d == Head(command.todo) IN
               \/ command' = Next1 /\ UNCHANGED library
               \/ /\ command.seen[d]["parent"].is # "absent"
                  /\ library.item[d]["parent"].version = command.seen[d]["parent"].version
                  /\ library' = [library EXCEPT !.version = @ + 1, !.item[d] = [p \in Parts |-> NoItem]]
                  /\ command' = Next1
               \/ /\ library.item[d]["parent"].version # command.seen[d]["parent"].version
                  /\ Refuse /\ UNCHANGED library
          /\ UNCHANGED <<sources, folder, budget>>
Retired == Runs("retire", "write") /\ command.todo = <<>> /\ Done /\ Still

(* _refresh_fulltext_from_pinned_sources(): every item must be what inject *)
(* would have written; then everything is extracted anew.                  *)
AsInjected(d) == \A p \in Parts : library.item[d][p].is = "ours"
Refresh == /\ command.at = "refresh"
           /\ IF \A d \in Ids : AsInjected(d)
                THEN /\ library' = [library EXCEPT !.queue = Ids]
                     /\ command' = [command EXCEPT !.at = "settle", !.texts = library.text]
                ELSE Refuse /\ UNCHANGED library
           /\ UNCHANGED <<sources, folder, budget>>
(* reindex_fulltext(): the queue is idle, twice; or it never is, or fails. *)
State(d) == IF library.text[d].of = "none" THEN "unindexed"
            ELSE IF command.texts[d].version > 0 /\ library.text[d].version = command.texts[d].version
              THEN "untouched" ELSE "indexed"
SettleState ==
  /\ command.at = "settle" /\ Still
  /\ \/ Refuse
     \/ /\ library.queue = {}
        /\ IF command.runs = "inject" THEN Done
           ELSE command' = [command EXCEPT !.at = "reverify", !.texts = NoTexts,
                                           !.settled = [d \in Ids |-> State(d)]]
(* _plugin_status(): another reindex than the one asked for ran last, or   *)
(* the preferences are not the ones typed.                                 *)
Status == command.at = "status" /\ Still /\ (Refuse \/ Proceed("open"))

(* _snapshot_rows(), request by request. *)
Versions(texts) == [d \in Ids |-> texts[d].version]
ListItems ==
  /\ command.at = "open" /\ Still
  /\ command' = [command EXCEPT !.at = "item", !.todo = Docs, !.start = library.version,
                                !.texts = library.text]
Children == /\ command.at = "item" /\ command.todo # <<>> /\ Still
            /\ IF AsInjected(Head(command.todo)) /\ library.version = command.start
                 THEN Proceed("text") ELSE Refuse
(* A document without text is refused unless it is a declared control the  *)
(* extraction just left without; one with text is refused if it is such.   *)
Servable(d) ==
  IF d \in library.declared
    THEN /\ command.settled[d] = "unindexed" /\ command.texts[d].version = 0
         /\ library.text[d].of = "none"
    ELSE /\ command.settled[d] = "indexed" /\ library.text[d].of # "none"
         /\ library.text[d].version = command.texts[d].version
Text == /\ command.at = "text" /\ Still
        /\ LET d == Head(command.todo) IN
             IF Servable(d) THEN command' = [Next1 EXCEPT !.at = "item", !.rows[d] = library.text[d]]
             ELSE Refuse
(* The bodies of version 0 are read again once all have been read. *)
FirstPassOnly == {}
ReadTwice == {d \in Ids : command.rows[d].of # "none" /\ command.texts[d].version = 0}
FirstPassEnds ==
  /\ command.at = "item" /\ command.todo = <<>> /\ Still
  /\ command' = [command EXCEPT !.at = "again", !.todo = Docs, !.moment = library.text]
Again == /\ command.at = "again" /\ command.todo # <<>> /\ Still
         /\ LET d == Head(command.todo) IN
              IF d \in ReadTwice => library.text[d] = command.rows[d] THEN command' = Next1 ELSE Refuse
Ending == /\ command.at = "again" /\ command.todo = <<>> /\ Still
          /\ IF /\ ~library.foreign /\ library.version = command.start
                /\ Versions(library.text) = Versions(command.texts)
               THEN Proceed("lastverify") ELSE Refuse

(* The snapshot is written beside the one there is, which is moved aside,  *)
(* replaced and removed; what was moved aside comes back on an error, also *)
(* on one of its own removal, torn by it: whole says which it is.          *)
Taken == [rows |-> command.rows, moment |-> command.moment, whole |-> TRUE]
Swap == /\ command.at = "swap"
        /\ \/ Refuse /\ UNCHANGED folder
           \/ Proceed("place") /\ folder' = [now |-> NoSnapshot, aside |-> folder.now]
        /\ UNCHANGED <<library, sources, budget>>
Place == /\ command.at = "place"
         /\ \/ Refuse /\ folder' = [now |-> folder.aside, aside |-> NoSnapshot]
            \/ Proceed("clear") /\ folder' = [folder EXCEPT !.now = Taken]
         /\ UNCHANGED <<library, sources, budget>>
Clear == /\ command.at = "clear" /\ Done
         /\ \/ folder' = [folder EXCEPT !.aside = NoSnapshot]
            \/ /\ folder.aside # NoSnapshot
               /\ folder' = [now |-> [folder.aside EXCEPT !.whole = FALSE], aside |-> NoSnapshot]
         /\ UNCHANGED <<library, sources, budget>>

FixtureNext ==
  \/ Extract \/ Others \/ BeginCommand \/ Killed \/ VerifySources \/ List
  \/ WriteItem \/ Upload \/ Reindex \/ Retire \/ Retired \/ Refresh \/ SettleState
  \/ Status \/ ListItems \/ Children \/ Text \/ FirstPassEnds \/ Again \/ Ending
  \/ Swap \/ Place \/ Clear

FixtureSpec == FixtureInit /\ [][FixtureNext]_fixtureVars
-----------------------------------------------------------------------------
(* The texts of a snapshot are those Zotero held at one moment, although   *)
(* they were read request by request and version 0 tells no change, and    *)
(* the documents it has no text of are the declared controls, all of them. *)
SnapshotOfOneMoment ==
  folder.now.whole =>
    /\ \A d \in Ids : folder.now.rows[d].of # "none" => folder.now.rows[d] = folder.now.moment[d]
    /\ library.declared = {d \in Ids : folder.now.rows[d].of = "none"}

(* "Extraction must still be attributable to the exact pinned source       *)
(* bytes" (golden_fixture.py:1275-1276): of any kind of library.           *)
PublishedFromPinned ==
  folder.now.whole => \A d \in Ids : folder.now.rows[d].of \in {"none", "pinned"}
=============================================================================
