--------------------------- MODULE GeneratorSample ---------------------------
(***************************************************************************)
(* bench/generator/sample.py: a draw of answer paragraphs from the frame,  *)
(* at random or by filling the cell of (type, format) with the largest     *)
(* deficit, the pairs over the quota of their length being put aside until *)
(* nothing else is left.                                                   *)
(*                                                                         *)
(* A pair of a record and an attachment is the attachment.  Its text is    *)
(* what the properties tell of it: whether a paragraph is eligible, its    *)
(* length bucket, what its language reads as, which elements of the        *)
(* citation chain can be had.  A shuffled list is a set anything may be    *)
(* taken from; a share is the count it is a share of.                      *)
(***************************************************************************)
EXTENDS Integers, Sequences, FiniteSets, SequencesExt

CONSTANTS Attachments, \* each attachment, and what it and its record are
          Frames,      \* the scopes a draw may be restricted to: sets of records
          Census,      \* the library's items by type, its texts by format
          TYPE_GROUPS, \* the item types with a stratum of their own
          CompoundParts, \* the item types of a part of a compound document
          N,           \* paragraphs asked for
          MaxTries     \* max_tries_per_cell

ASSUME SampleAssumption == IsFiniteSet(DOMAIN Attachments) /\ N \in Nat

VARIABLE draw

TypeGroups == TYPE_GROUPS \union {"other"}
Formats == {"pdf", "html", "other"}
SampleCells == TypeGroups \X Formats
type_group(type) == IF type \in TYPE_GROUPS THEN type ELSE "other"
format_of(content) == CASE content = "application/pdf" -> "pdf"
                        [] content \in {"text/html", "application/xhtml+xml"} -> "html"
                        [] OTHER -> "other"

(* census_targets(): the census folded into the strata. *)
CensusOf(counts, names) == MapThenSumSet(LAMBDA x : counts[x], names)
Total(counts) == CensusOf(counts, DOMAIN counts)
census_targets ==
  [type |-> [s \in TypeGroups |-> CensusOf(Census.types, {x \in DOMAIN Census.types : type_group(x) = s})],
   format |-> [s \in Formats |-> CensusOf(Census.withText, {x \in DOMAIN Census.withText : format_of(x) = s})]]
CellOf(a) == <<type_group(Attachments[a].type), format_of(Attachments[a].content)>>

(* frame(): attachments of a stored or linked file, with text, of a record *)
(* of the scope that is a record.                                          *)
InFrame(a, scope) ==
  /\ Attachments[a].file /\ Attachments[a].version > 0
  /\ Attachments[a].topLevel /\ Attachments[a].record \in scope
frame(scope) == [c \in SampleCells |-> {a \in DOMAIN Attachments : InFrame(a, scope) /\ CellOf(a) = c}]
All(cells) == UNION {cells[c] : c \in SampleCells}
NoPairs == [c \in SampleCells |-> {}]

(* The record's part of the chain: an element is measured when its field   *)
(* has a value, creators when one of them has a credited role.             *)
Credited == {"none", "author", "editor", "contributor", "presenter", "director"}
creators_of(a) == IF Attachments[a].creators \intersect Credited # {} THEN {"creators"} ELSE {}
identifier_of(a) == IF Attachments[a].fields \intersect {"DOI", "ISBN", "url"} # {} THEN {"identifier"} ELSE {}
chain_of(a) == (Attachments[a].fields \intersect {"title", "date"}) \union creators_of(a) \union identifier_of(a)
               \union (IF Attachments[a].type \in CompoundParts THEN Attachments[a].fields \intersect {"container"} ELSE {})
(* The file itself, or any PDF of its folder if Zotero stores it there. *)
attachment_file(a) ==
  IF format_of(Attachments[a].content) # "pdf" \/ (Attachments[a].linked /\ Attachments[a].local # "named")
    THEN "none" ELSE Attachments[a].local
(* The printed label of the page the paragraph is on, if that file has any. *)
page_label(a) == IF attachment_file(a) = "none" \/ ~Attachments[a].paged THEN "not-measured"
                 ELSE IF Attachments[a].labels THEN "pdf-page-labels" ELSE "no-page-labels"

(* one(): a row, with the chain elements measured.  The paragraph's own    *)
(* text decides the language, and the record's field where it decides      *)
(* nothing.                                                                *)
Chain(a) == chain_of(a) \union (IF Attachments[a].paged THEN {"page_index"} ELSE {})
              \union (IF page_label(a) = "pdf-page-labels" THEN {"page_label"} ELSE {})
Language(a) == IF Attachments[a].detected # "und" THEN Attachments[a].detected
               ELSE IF Attachments[a].declared \notin {"empty", "unmapped"} THEN Attachments[a].declared
               ELSE "und"
one(a) == [of |-> a, cell |-> CellOf(a), bucket |-> Attachments[a].bucket,
           language |-> Language(a), chain |-> Chain(a)]
Readable(a) == Attachments[a].paragraph

SampleInit ==
  \E strategy \in {"random", "quota"}, scope \in Frames :
    draw = [strategy |-> strategy, framed |-> All(frame(scope)), cells |-> frame(scope), deferred |-> NoPairs,
            quota |-> TRUE, tries |-> [c \in SampleCells |-> 0], out |-> <<>>, at |-> "drawing",
            rejected |-> [noText |-> 0, over |-> 0, released |-> 0]]

-----------------------------------------------------------------------------
Drawing(strategy) == draw.at = "drawing" /\ draw.strategy = strategy
RowsOfCell(c) == Cardinality({i \in 1..Len(draw.out) : draw.out[i].cell = c})
RowsOfBucket(b) == Cardinality({i \in 1..Len(draw.out) : draw.out[i].bucket = b})
Deficit(c) == census_targets.type[c[1]] * census_targets.format[c[2]] * N
                - Total(census_targets.type) * Total(census_targets.format) * RowsOfCell(c)
Live == {c \in SampleCells : draw.cells[c] # {}}
Neediest == {c \in Live : \A d \in Live : Deficit(d) <= Deficit(c)}
(* The quarter of the rows a length bucket is due, and one more. *)
OverQuota(bucket) == 4 * RowsOfBucket(bucket) - N >= 4

Popped(c, a) == [draw EXCEPT !.cells[c] = @ \ {a}, !.tries[c] = @ + 1]
NoParagraph(c, a) == [Popped(c, a) EXCEPT !.rejected.noText = @ + 1]
(* Mutant: a pair over its quota is dropped instead of put aside. *)
GivenUp(c, a) == [Popped(c, a) EXCEPT !.rejected.over = @ + 1]
PutAside(c, a) == [Popped(c, a) EXCEPT !.rejected.over = @ + 1, !.deferred[c] = @ \union {a}]
TakeRow(c, a) == [Popped(c, a) EXCEPT !.tries[c] = 0, !.out = Append(@, one(a))]
Pop ==
  /\ Drawing("quota") /\ Len(draw.out) < N
  /\ \E c \in Neediest : \E a \in draw.cells[c] :
       draw' = IF ~Readable(a) THEN NoParagraph(c, a)
               ELSE IF draw.quota /\ OverQuota(one(a).bucket) /\ draw.tries[c] + 1 <= MaxTries THEN PutAside(c, a)
               ELSE TakeRow(c, a)
(* With nothing else left those put aside are taken whatever their length. *)
Releases == draw.quota /\ All(draw.deferred) # {}
Release == /\ Drawing("quota") /\ Len(draw.out) < N /\ Live = {} /\ Releases
           /\ draw' = [draw EXCEPT !.cells = draw.deferred, !.deferred = NoPairs, !.quota = FALSE,
                         !.rejected.released = Cardinality(All(draw.deferred))]

(* draw_random() *)
PopAny == /\ Drawing("random") /\ Len(draw.out) < N
          /\ \E c \in Live : \E a \in draw.cells[c] :
               draw' = IF Readable(a) THEN TakeRow(c, a) ELSE NoParagraph(c, a)

(* A text that cannot be read ends the run; the draw ends with its rows,   *)
(* fewer if the frame is exhausted.                                        *)
TextFails == /\ draw.at = "drawing" /\ Len(draw.out) < N /\ Live # {}
             /\ draw' = [draw EXCEPT !.at = "raised"]
Drawn == /\ draw.at = "drawing"
         /\ \/ Len(draw.out) = N
            \/ Live = {} /\ (draw.strategy = "quota" => ~Releases)
         /\ draw' = [draw EXCEPT !.at = "drawn"]

SampleNext == Pop \/ Release \/ PopAny \/ TextFails \/ Drawn
SampleSpec == SampleInit /\ [][SampleNext]_draw
-----------------------------------------------------------------------------
(* A draw that ends short has exhausted its frame: every pair of it is a   *)
(* row, once, or has no eligible paragraph, whatever was put aside on the  *)
(* way and whichever cell was the neediest; and what it counted as         *)
(* rejected is what is missing.                                            *)
ShortMeansExhausted ==
  draw.at = "drawn" =>
    LET rows == [i \in 1..Len(draw.out) |-> draw.out[i].of]
        rest == draw.framed \ ToSet(rows)
    IN  /\ ToSet(rows) \subseteq draw.framed /\ IsInjective(rows)
        /\ Len(rows) < N => /\ \A a \in rest : ~Readable(a)
                            /\ draw.rejected.noText = Cardinality(rest)
=============================================================================
