----------------------------- MODULE ScopeProxy -----------------------------
(***************************************************************************)
(* bench/generator/scope.py: the proxy that shows the target a sample of   *)
(* the library as if it were the library.  A listing is fetched from       *)
(* Zotero by chunks of keys, each by the pages of Zotero's answer, kept,   *)
(* and served by slices; every request has a thread of its own, and the    *)
(* library changes between any two reads.                                  *)
(*                                                                         *)
(* A record is its own parent.  A listing is known by the versions of its  *)
(* rows, by the library version its last read carried, or by the status of *)
(* the answer that broke it off.                                           *)
(***************************************************************************)
EXTENDS Integers, Sequences, SequencesExt, FiniteSets

CONSTANTS Parent,   \* each item of the library, and its record
          Wanted,   \* the number of records asked for
          Chunk,    \* the keys of one query (KEY_CHUNK)
          Page,     \* the rows of one answer (2 * KEY_CHUNK)
          Limit,    \* the rows of one slice
          Readers,  \* the requests under way at once
          Edits     \* bound: changes of the library

VARIABLES zotero, \* the library
          scope,  \* the sample
          kept,   \* the cache
          reader  \* per reader, its listing so far and the read under way

scopeVars == <<zotero, scope, kept, reader>>

LibraryItems == DOMAIN Parent
ASSUME ListingAssumption == /\ IsFiniteSet(LibraryItems)
                            /\ {Chunk, Page, Limit} \subseteq Nat \ {0}

(* A set of keys in one order, that of their names or of Zotero's answer.  *)
InOrder == [keys \in SUBSET LibraryItems |-> SetToSeq(keys)]

Records == {k \in LibraryItems : Parent[k] = k}
Paths == {"items", "top"}
NoListing == [status |-> "none", rows |-> <<>>, version |-> 0, torn |-> FALSE]
NewReader(path) == [path |-> path, at |-> "ask", todo |-> <<>>, start |-> 0, listing |-> NoListing,
                    got |-> <<>>, total |-> -1, crossed |-> FALSE]

(* Scope.random(): so many records, all of them if there are not enough,   *)
(* and the children they have now.                                         *)
Scopes == {c \in SUBSET Records : Cardinality(c) = IF Wanted < Cardinality(Records) THEN Wanted
                                                  ELSE Cardinality(Records)}
Scope(records, items) == [records |-> records, children |-> {k \in items \ Records : Parent[k] \in records}]
AllKeys == scope.records \union scope.children
KeysOf(path) == IF path = "top" THEN scope.records ELSE AllKeys

ScopeInit ==
  /\ \E items \in SUBSET LibraryItems, c \in Scopes :
       /\ Records \subseteq items
       /\ zotero = [version |-> 1, of |-> [k \in LibraryItems |-> IF k \in items THEN 1 ELSE 0], edits |-> 0]
       /\ scope = Scope(c, items)
  /\ kept = [p \in Paths |-> NoListing]
  /\ reader \in [Readers -> {NewReader(p) : p \in Paths}]

-----------------------------------------------------------------------------
(* The library.  An item that is not there has version 0; a record of the  *)
(* sample may be given a child after the draw, which is not of the sample. *)
LibraryChanges ==
  /\ zotero.edits < Edits
  /\ \E k \in LibraryItems, gone \in BOOLEAN :
       /\ zotero.of[k] # 0 \/ (k \notin AllKeys /\ ~gone)
       /\ zotero' = [version |-> zotero.version + 1, edits |-> zotero.edits + 1,
                     of |-> [zotero.of EXCEPT ![k] = IF gone THEN 0 ELSE zotero.version + 1]]
  /\ UNCHANGED <<scope, kept, reader>>

Set(r, state) == reader' = [reader EXCEPT ![r] = state] /\ UNCHANGED <<zotero, scope>>
Fetching(r) == reader[r].at = "read"

(* What Zotero has for a query of some keys: the items among them that are *)
(* there and, of the whole library, the children of the records among them.*)
Present(path, keys) ==
  {k \in LibraryItems : zotero.of[k] # 0 /\ (k \in keys \/ (path = "items" /\ Parent[k] \in keys))}
Unseen(listing, page) ==
  {k \in ToSet(page) \cap AllKeys : \A i \in 1..Len(listing.rows) : listing.rows[i].key # k}
RowsOf(keys) == [i \in 1..Len(keys) |-> [key |-> keys[i], version |-> zotero.of[keys[i]]]]
Slice(s, start, n) == SubSeq(s, start + 1, IF start + n < Len(s) THEN start + n ELSE Len(s))
FirstChunk(todo) == Slice(todo, 0, Chunk)
OtherChunks(todo) == Slice(todo, Chunk, Len(todo))

(* _fetch_all(): a kept listing is used as it is; without one the thread   *)
(* reads, whatever another thread is reading.                              *)
AskListing(r) ==
  /\ reader[r].at = "ask" /\ UNCHANGED kept
  /\ LET p == reader[r].path IN
       Set(r, IF kept[p] # NoListing THEN [reader[r] EXCEPT !.at = "serve", !.listing = kept[p]]
              ELSE [reader[r] EXCEPT !.at = "read", !.todo = InOrder[KeysOf(p)], !.start = 0,
                                     !.listing = [NoListing EXCEPT !.status = "200"]])

(* One answer; a chunk is over when as many rows were read as the answer   *)
(* says there are.  A chunk whose second page is of another version of the *)
(* library than its first tears the listing: a row may slip between them.  *)
ReadPage(r) ==
  /\ Fetching(r) /\ reader[r].todo # <<>> /\ UNCHANGED kept
  /\ LET was == reader[r].listing
         start == reader[r].start
         all == InOrder[Present(reader[r].path, ToSet(FirstChunk(reader[r].todo)))]
         page == Slice(all, start, Page)
         next == start + Len(page)
         listing == [was EXCEPT !.rows = @ \o RowsOf(InOrder[Unseen(was, page)]),
                                !.version = zotero.version,
                                !.torn = @ \/ (start # 0 /\ was.version # zotero.version)]
     IN  Set(r, IF page = <<>> \/ next >= Len(all)
                THEN [reader[r] EXCEPT !.todo = OtherChunks(@), !.start = 0, !.listing = listing]
                ELSE [reader[r] EXCEPT !.start = next, !.listing = listing])
(* An answer that is not 200 is the listing, and an exception is a 502.    *)
ReadRefused(r) == /\ Fetching(r) /\ reader[r].todo # <<>> /\ UNCHANGED kept
                  /\ Set(r, [reader[r] EXCEPT !.todo = <<>>, !.listing = [NoListing EXCEPT !.status = "503"]])
ReadRaises(r) == /\ Fetching(r) /\ reader[r].todo # <<>> /\ UNCHANGED kept
                 /\ Set(r, [reader[r] EXCEPT !.at = "over", !.total = -2])
KeepNothing(r) == kept' = kept
Keeps(r) == kept' = [kept EXCEPT ![reader[r].path] = reader[r].listing]
Overtakes(r, q) == /\ reader[q].path = reader[r].path
                   /\ reader[q].at = "serve" \/ reader[q].got # <<>>
KeepListing(r) ==
  /\ Fetching(r) /\ reader[r].todo = <<>> /\ Keeps(r)
  /\ reader' = [q \in Readers |->
       IF q = r THEN [reader[r] EXCEPT !.at = "serve"]
       ELSE [reader[q] EXCEPT !.crossed = @ \/ Overtakes(r, q)]]
  /\ UNCHANGED <<zotero, scope>>

(* _serve_listing(): the slice the reader asks for, and the count of all.  *)
(* A reader asks on until it has as many rows as it was told there are.    *)
Serve(r) ==
  /\ reader[r].at = "serve" /\ UNCHANGED kept
  /\ LET listing == reader[r].listing
         got == reader[r].got \o Slice(listing.rows, Len(reader[r].got), Limit)
     IN  Set(r, IF listing.status # "200" THEN [reader[r] EXCEPT !.at = "over", !.total = -2]
                ELSE [reader[r] EXCEPT !.at = IF Len(got) < Len(listing.rows) THEN "ask" ELSE "over",
                        !.got = got, !.total = Len(listing.rows),
                        !.listing = [NoListing EXCEPT !.torn = listing.torn]])

ReaderStep(r) == AskListing(r) \/ ReadPage(r) \/ ReadRefused(r) \/ ReadRaises(r) \/ KeepListing(r) \/ Serve(r)
ScopeNext == LibraryChanges \/ \E r \in Readers : ReaderStep(r)
ScopeSpec == ScopeInit /\ [][ScopeNext]_scopeVars
-----------------------------------------------------------------------------
(* "Paging is served by the proxy, not delegated": a reader that comes to  *)
(* the end of its pages has each row of one listing once, and as many as   *)
(* it was told, although the library changed between its pages; unless     *)
(* another thread's read of the same query replaced the listing meanwhile. *)
(* What the listing misses was not there when it was read, unless it was   *)
(* torn between the pages of one answer.                                   *)
PagesOfOneListing ==
  \A r \in Readers : reader[r].at = "over" /\ reader[r].total >= 0 /\ ~reader[r].crossed =>
    LET keys == [i \in 1..Len(reader[r].got) |-> reader[r].got[i].key] IN
    /\ Len(keys) = reader[r].total /\ IsInjective(keys)
    /\ ToSet(keys) \subseteq KeysOf(reader[r].path)
    /\ reader[r].listing.torn \/ \A k \in KeysOf(reader[r].path) \ ToSet(keys) : zotero.of[k] = 0
=============================================================================
