----------------------------- MODULE FetchRecipe -----------------------------
(***************************************************************************)
(* bench/fixtures/fetch_recipe.py: the recipe of the fixture is validated, *)
(* then the bytes of each of its sources are fetched into the cache        *)
(* directory and compared with their pin, run after run; an archive may    *)
(* answer anything, a connection may break, and a run may be killed.       *)
(*                                                                         *)
(* A document of the recipe is a record of a few fields: fields says       *)
(* whether every field that is checked on its own is in its vocabulary,    *)
(* and the rest are the ones a rule relates to another field, source or    *)
(* document.  A file is what it holds: the pinned bytes, other bytes of    *)
(* the same kind, the bytes up to where an answer was cut short, a page an *)
(* archive shows instead, too few bytes, or, while a download writes it,   *)
(* its first ones.                                                         *)
(***************************************************************************)
EXTENDS Integers, Sequences, SequencesExt

CONSTANTS Recipes, \* the recipes a run may be given
          Fetches  \* bound: runs

VARIABLES cached,  \* the files under their cache names
          partial, \* the .partial files beside them
          fetcher, \* the run
          fetches  \* runs started

fetchVars == <<cached, partial, fetcher, fetches>>

(* A recipe is a list of documents, each with a list of sources. *)
ASSUME RecipesAssumption ==
  \A r \in Recipes : /\ r \in Seq(ToSet(r))
                     /\ \A d \in ToSet(r) : d.attachments \in Seq(ToSet(d.attachments))

NoBytes == "none"
SourcesOf(r) == UNION {ToSet(d.attachments) : d \in ToSet(r)}
Sources == UNION {SourcesOf(r) : r \in Recipes}
SourceIds == {a.id : a \in Sources}
(* A file of the cache is named by the id of its source and its format. *)
Dest(a) == <<a.id, a.text>>
NoRun == [step |-> "off", docs |-> <<>>, doc |-> "none", todo |-> <<>>, only |-> {}, rows |-> <<>>, exit |-> "none"]

FetchInit == /\ cached = [f \in {Dest(a) : a \in Sources} |-> NoBytes] /\ partial = cached
             /\ fetcher = NoRun /\ fetches = 0

-----------------------------------------------------------------------------
(* validate() *)
(* The rules of one record: a wrong type gives its reason, a record has    *)
(* attachments or says that it is only a record, a reserve member names    *)
(* its mechanisms, a structural feature is of an attachment it has.        *)
RecordOffends(d) ==
  \/ ~d.fields
  \/ /\ ~d.legacy
     /\ \/ d.wrongType /\ ~d.reason
        \/ d.recordOnly # (d.attachments = <<>>)
        \/ d.stratum = "reserve" /\ ~d.mechanisms
        \/ \E f \in d.features : f \notin {a.id : a \in ToSet(d.attachments)}

(* The rules of one source: a skipped one says why, the combined cap is    *)
(* what the two caps make it, a text names its charset.                    *)
Combined(pages, chars) == IF pages THEN (IF chars THEN "both" ELSE "page-only")
                          ELSE IF chars THEN "char-only" ELSE "neither"
SourceOffends(d, a) ==
  \/ ~a.fields
  \/ ~a.indexed /\ ~a.skipReason
  \/ /\ ~d.legacy
     /\ \/ a.combined # Combined(a.pages, a.chars)
        \/ a.text /\ ~a.charset
(* _validate_source(): an admitted archive, its own hosts and identifiers, *)
(* a pin or the reason there is none.                                      *)
ArchiveOffends(d, a) ==
  \/ a.archive = "unknown" \/ (a.archive = "dropped" /\ ~d.legacy)
  \/ ~a.hosted
  \/ a.pin = NoBytes /\ ~a.unpinned

(* Of the renderings of a language the first is indexed, and no other. *)
LanguageOffends(d) ==
  \E l \in {a.language : a \in ToSet(d.attachments)} :
    LET renderings == SelectSeq(d.attachments, LAMBDA a : a.language = l)
    IN  \E i \in 1..Len(renderings) : renderings[i].indexed # (i = 1)

(* Ids of documents, attachments and notes are unique in the recipe. *)
IdsOffend(r) ==
  \/ ~IsInjective([i \in 1..Len(r) |-> r[i].id])
  \/ ~IsInjective(FlattenSeq([i \in 1..Len(r) |-> [j \in 1..Len(r[i].attachments) |-> r[i].attachments[j].id]]))
  \/ ~IsInjective(FlattenSeq([i \in 1..Len(r) |-> r[i].notes]))

validate(r) ==
  {r[i].id : i \in {i \in 1..Len(r) :
     \/ RecordOffends(r[i])
     \/ \E a \in ToSet(r[i].attachments) : SourceOffends(r[i], a) \/ ArchiveOffends(r[i], a)
     \/ ~r[i].legacy /\ LanguageOffends(r[i])}}
  \union IF IdsOffend(r) THEN {"ids"} ELSE {}

-----------------------------------------------------------------------------
(* run() *)
AtSource == Head(fetcher.todo)
SoundSources == UNION {SourcesOf(r) : r \in {r \in Recipes : validate(r) = {}}}
(* load_recipe(): an offence ends the run before it fetches anything. *)
Load == /\ fetcher.step \in {"off", "over"} /\ fetches < Fetches
        /\ \E r \in Recipes, only \in SUBSET SourceIds :
             fetcher' = IF validate(r) # {} THEN [NoRun EXCEPT !.step = "over", !.exit = "refused"]
                        ELSE [NoRun EXCEPT !.step = "source", !.docs = r, !.only = only]
        /\ fetches' = fetches + 1 /\ UNCHANGED <<cached, partial>>

(* The two loops: over the documents and, inside, over their sources. *)
AtLoops == fetcher.step = "source" /\ UNCHANGED <<cached, partial, fetches>>
NextDocument == /\ AtLoops /\ fetcher.todo = <<>> /\ fetcher.docs # <<>>
                /\ fetcher' = [fetcher EXCEPT !.doc = Head(fetcher.docs).id, !.docs = Tail(@),
                                             !.todo = Head(fetcher.docs).attachments]
Asked == fetcher.only = {} \/ {AtSource.id, fetcher.doc} \intersect fetcher.only # {}
NotAsked == /\ AtLoops /\ fetcher.todo # <<>> /\ ~Asked
            /\ fetcher' = [fetcher EXCEPT !.todo = Tail(@)]

Row(status) == fetcher' = [fetcher EXCEPT !.step = "source", !.todo = Tail(@),
                             !.rows = Append(@, [id |-> AtSource.id, status |-> status])]
UnderWay(step) == fetcher.step = step /\ fetcher.todo # <<>> /\ Asked /\ UNCHANGED fetches
FailedRow(status) == Row(status) /\ UNCHANGED cached

NoAddress == /\ UnderWay("source") /\ ~AtSource.url /\ FailedRow("no-bytes-url") /\ UNCHANGED partial
InHand == /\ UnderWay("source") /\ AtSource.url /\ cached[Dest(AtSource)] # NoBytes
          /\ fetcher' = [fetcher EXCEPT !.step = "hash"] /\ UNCHANGED <<cached, partial>>
Wanting == UnderWay("source") /\ AtSource.url /\ cached[Dest(AtSource)] = NoBytes
DroppedArchive == /\ Wanting /\ AtSource.archive = "dropped"
                  /\ FailedRow("dropped-archive") /\ UNCHANGED partial

(* download_atomic(): the answer is written to the .partial file whatever  *)
(* an earlier run left in it.                                              *)
Answers == {"pinned", "other", "cut", "page", "few"}
OpenConnection == /\ Wanting /\ AtSource.archive # "dropped" /\ UNCHANGED cached
           /\ \/ /\ \E answer \in Answers : fetcher' = [fetcher EXCEPT !.step = answer]
                 /\ partial' = [partial EXCEPT ![Dest(AtSource)] = "first"]
              \/ Row("blocked") /\ UNCHANGED partial
              \/ Row("unfetched") /\ UNCHANGED partial
ConnectionBreaks == /\ \E answer \in Answers : UnderWay(answer)
                    /\ partial[Dest(AtSource)] = "first"
                    /\ FailedRow("unfetched") /\ UNCHANGED partial
BodyEnds == /\ \E answer \in Answers : UnderWay(answer)
            /\ partial[Dest(AtSource)] = "first"
            /\ partial' = [partial EXCEPT ![Dest(AtSource)] = fetcher.step]
            /\ UNCHANGED <<cached, fetcher>>
(* The checks: size, magic bytes and format.  What was cut short behind    *)
(* the size passes; a text has no magic bytes, and a page is text.         *)
Accepted(a) == {"pinned", "other", "cut"} \union IF a.text THEN {"page"} ELSE {}
Landed == \E answer \in Answers : UnderWay(answer) /\ partial[Dest(AtSource)] = answer
Rejects == /\ Landed /\ fetcher.step \notin Accepted(AtSource)
           /\ partial' = [partial EXCEPT ![Dest(AtSource)] = NoBytes]
           /\ FailedRow(IF fetcher.step = "page" THEN "blocked" ELSE "unfetched")
ReplaceUnchecked == /\ \E answer \in Answers : UnderWay(answer)
                    /\ cached' = [cached EXCEPT ![Dest(AtSource)] = partial[Dest(AtSource)]]
                    /\ partial' = [partial EXCEPT ![Dest(AtSource)] = NoBytes]
                    /\ fetcher' = [fetcher EXCEPT !.step = "hash"]
Replace == /\ Landed /\ fetcher.step \in Accepted(AtSource)
           /\ cached' = [cached EXCEPT ![Dest(AtSource)] = partial[Dest(AtSource)]]
           /\ partial' = [partial EXCEPT ![Dest(AtSource)] = NoBytes]
           /\ fetcher' = [fetcher EXCEPT !.step = "hash"]

Hash == /\ UnderWay("hash") /\ UNCHANGED <<cached, partial>>
        /\ Row(IF AtSource.pin = NoBytes THEN "unpinned"
               ELSE IF cached[Dest(AtSource)] = AtSource.pin THEN "match" ELSE "MISMATCH")

FAILING == {"MISMATCH", "unfetched"}
exit_status(rows) == IF \E i \in 1..Len(rows) : rows[i].status \in FAILING THEN "1" ELSE "0"
ReportRows == /\ AtLoops /\ fetcher.todo = <<>> /\ fetcher.docs = <<>>
          /\ fetcher' = [fetcher EXCEPT !.step = "over", !.exit = exit_status(fetcher.rows)]
FetchKilled == /\ fetcher.step \notin {"off", "over"} /\ fetcher' = NoRun
               /\ UNCHANGED <<cached, partial, fetches>>

FetchNext == \/ Load \/ NextDocument \/ NotAsked \/ NoAddress \/ InHand \/ DroppedArchive \/ OpenConnection \/ ConnectionBreaks
             \/ BodyEnds \/ Rejects \/ Replace \/ Hash \/ ReportRows \/ FetchKilled
FetchSpec == FetchInit /\ [][FetchNext]_fetchVars
-----------------------------------------------------------------------------
(* Whatever broke or was killed, a file under its cache name passed the    *)
(* checks of its own source's size, first bytes and format: the download   *)
(* that is under way, and one that was rejected, never show under that     *)
(* name.  The checks accept a body cut short above the least size.         *)
CheckedUnderItsName == \A a \in SoundSources : cached[Dest(a)] \in {NoBytes} \union Accepted(a)
=============================================================================
