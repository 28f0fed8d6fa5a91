----------------------------- MODULE GoldenScore -----------------------------
(***************************************************************************)
(* bench/golden_gate.py: a bank of questions, each with the rows of the    *)
(* export that answer it, and the replies of a run scored against it.  Two *)
(* readings of "the answer came back" are made, by the page the system     *)
(* reports and by the page its evidence falls on; three readings gate.     *)
(*                                                                         *)
(* A text is a sequence of words and of page breaks ("ff"), so that folded *)
(* quotes, case and the character a word begins at are left out; a printed *)
(* label is the set of its parts, each a page <<n, n>> or a range.  The    *)
(* chain of a citation and the tables by lane, format and signal carry     *)
(* into no verdict and are left out.  Figures are kept in 1/Scale.         *)
(***************************************************************************)
EXTENDS Naturals, Sequences, FiniteSets

CONSTANTS Bank,        \* the questions, in the order of their files
          Misfits,     \* questions out of form, of which one may be in the bank
          Exports,     \* name -> [texts, state, parent, pages, workOf, relations]
          Bundles,     \* replies that may be given to the gate
          K, PageSpanMax,
          Scale, MeanMin, BelowMax, Cutoff, HardFloor,
          Operations   \* how many commands are given

VARIABLES stamps,  \* question -> what validate --stamp wrote into its file
          gate,    \* the score on the stack: replies left, entries made
          ops

scoreVars == <<stamps, gate, ops>>

(* The policy, as the paragraph of SPEC.md that owns it may state it.      *)
load_thresholds ==
  /\ K \in Nat \ {0}
  /\ 0 < HardFloor /\ HardFloor <= Cutoff /\ Cutoff <= MeanMin /\ MeanMin <= Scale
  /\ 0 <= BelowMax /\ BelowMax <= Scale

ASSUME ThresholdsAssumption == load_thresholds

(* The replies of a run, and the results of a reply, are lists.            *)
ListOf(s) == s \in Seq({s[i] : i \in DOMAIN s})
ASSUME BundlesAssumption ==
  \A b \in Bundles : /\ ListOf(b.replies)
                     /\ \A i \in DOMAIN b.replies : ListOf(b.replies[i].results)

Nothing == <<>>
Unstamped == [export |-> "none", offset |-> Nothing]
NoGate == [at |-> "idle", export |-> "none", bundle |-> Nothing, left |-> <<>>,
           entries |-> <<>>, state |-> "none", exit |-> 0]

-----------------------------------------------------------------------------
(* The export.  Two works are twins when an item of either names the other *)
(* in a relation of such a kind; an entry that names no target is passed.  *)
TWIN_RELATIONS == {"translation", "same-work"}
RelationTargets(raw, item) == {r \in raw.relations[item] : r.target # "none"}

load_export(raw) ==
  LET twinned(i) == {r \in RelationTargets(raw, i) : r.kind \in TWIN_RELATIONS}
      related == UNION {{<<raw.workOf[i], r.target>> : r \in twinned(i)} : i \in DOMAIN raw.workOf}
      works == {raw.workOf[i] : i \in DOMAIN raw.workOf} \cup {p[2] : p \in related}
      twins == [w \in works |-> {v \in works : <<w, v>> \in related \/ <<v, w>> \in related}]
  IN  [texts |-> raw.texts, state |-> raw.state, pages |-> raw.pages,
       parent |-> raw.parent, workOf |-> raw.workOf, twins |-> twins]
Loaded == [name \in DOMAIN Exports |-> load_export(Exports[name])]

IsTwin(e, item, work) ==
  /\ item \in DOMAIN e.workOf
  /\ e.workOf[item] = work \/ (work \in DOMAIN e.twins /\ e.workOf[item] \in e.twins[work])

(* There is a text to locate in: the attachment is of the export, and was  *)
(* indexed.                                                                *)
Indexed(e, key) == key \in DOMAIN e.state /\ e.state[key] = "indexed"

(* The positions of a text that are words, where a passage is looked for. *)
Origin(text) == LET word(i) == text[i] # "ff"
                IN  SelectSeq([i \in 1..Len(text) |-> i], word)
Starts(text, passage) ==
  LET o == Origin(text) IN
  {p \in 1..Len(o) : p + Len(passage) <= Len(o) + 1
                     /\ \A j \in 1..Len(passage) : text[o[p + j - 1]] = passage[j]}
Least(S) == CHOOSE n \in S : \A m \in S : n <= m

(* Where a passage falls; the offset the bank was stamped with wins. *)
LocateSpan(e, key, passage, preferred) ==
  IF ~Indexed(e, key) \/ passage = Nothing THEN Nothing
  ELSE LET text == e.texts[key]
           o == Origin(text)
           found == Starts(text, passage)
           liked == {p \in found : o[p] = preferred}
           p == Least(IF liked # {} THEN liked ELSE found)
       IN  IF found = {} THEN Nothing ELSE <<o[p], o[p + Len(passage) - 1]>>

PageSpan(e, key, span) ==
  LET breaks == {i \in 1..Len(e.texts[key]) : e.texts[key][i] = "ff"}
      page(at) == 1 + Cardinality({b \in breaks : b <= at})
  IN  IF breaks # {} THEN page(span[1])..page(span[2])
      ELSE IF e.pages[key] = 1 THEN {1} ELSE {}

PageSet(label) ==
  UNION {IF p[1] <= p[2] /\ p[2] <= p[1] + PageSpanMax
         THEN {<<n, n>> : n \in p[1]..p[2]} ELSE {p} : p \in label}

-----------------------------------------------------------------------------
(* The bank: one file per question, each under its own name.  One question *)
(* out of form refuses the bank before anything is written.                *)
LaneOf(asks, answers) == <<asks, answers>>

validate_question(q) ==
  /\ q.id = q.file
  /\ q.lane = LaneOf(q.asks, q.answers)
  /\ \A r \in DOMAIN q.rows : q.rows[r].alternates # <<>>
  /\ \A r, s \in DOMAIN q.rows :
       <<q.rows[r].work, q.rows[r].section>> = <<q.rows[s].work, q.rows[s].section>> => r = s
  /\ q.expectedMiss <=> q.mechanism # "none"
  /\ q.rows = <<>> => q.expectedMiss

load_bank(added) ==
  LET bank == Bank \o added IN
  /\ bank # <<>>
  /\ \A i \in 1..Len(bank) : validate_question(bank[i])

(* A row pins an attachment that the export holds, and no failure control. *)
PinnedRows(e, q) ==
  \A r \in DOMAIN q.rows : /\ q.rows[r].attachment \in DOMAIN e.state
                           /\ e.state[q.rows[r].attachment] # "control"

(* validate: every quote of the bank is located in the export's text. *)
Alternates(q) == {at \in (1..Len(q.rows)) \X (1..2) : at[2] <= Len(q.rows[at[1]].alternates)}
Alternate(q, at) == q.rows[at[1]].alternates[at[2]]
Offset(q, at) == IF stamps[q.id].offset = Nothing THEN 0 ELSE stamps[q.id].offset[at]

LocateQuote(e, q, at) ==
  LET span == LocateSpan(e, q.rows[at[1]].attachment, Alternate(q, at).quote, Offset(q, at))
  IN  IF span = Nothing THEN 0 ELSE span[1]
ComputeReachability(name, q) ==
  [export |-> name, offset |-> [at \in Alternates(q) |-> LocateQuote(Loaded[name], q, at)]]
Unreachable(name, q) ==
  \/ ~PinnedRows(Loaded[name], q)
  \/ ~q.expectedMiss /\ \E at \in Alternates(q) : ComputeReachability(name, q).offset[at] = 0

(* The questions before the first the policy refuses are written already. *)
StampBank(name) ==
  /\ LET refused == {i \in 1..Len(Bank) : Unreachable(name, Bank[i])}
         written == {i \in 1..Len(Bank) : \A j \in refused : i < j}
     IN  /\ stamps' = [id \in DOMAIN stamps |->
              IF \E i \in written : Bank[i].id = id
              THEN ComputeReachability(name, Bank[CHOOSE i \in written : Bank[i].id = id])
              ELSE stamps[id]]
         /\ gate' = [NoGate EXCEPT !.exit = IF refused = {} THEN 0 ELSE 2]
CheckBank(name) ==
  /\ gate' = [NoGate EXCEPT !.exit =
       IF \A i \in 1..Len(Bank) : /\ ~Unreachable(name, Bank[i])
                                  /\ stamps[Bank[i].id] = ComputeReachability(name, Bank[i])
       THEN 0 ELSE 2]
  /\ UNCHANGED stamps

-----------------------------------------------------------------------------
(* One result against one row. *)
Printed(row) == UNION {PageSet(row.alternates[a].label) : a \in 1..Len(row.alternates)}
OfficialPage(result, row) == PageSet(result.page) \cap Printed(row) # {}

AccommodatingPage(e, q, r, result) ==
  LET row == q.rows[r]
      span == LocateSpan(e, row.attachment, result.evidence, 0)
      located == {at \in Alternates(q) : at[1] = r /\ LocateQuote(e, q, at) # 0}
      quote(at) == LocateSpan(e, row.attachment, Alternate(q, at).quote, Offset(q, at))
  IN  /\ result.attachment \in {"none", row.attachment}
      /\ span # Nothing
      /\ PageSpan(e, row.attachment, span)
           \cap UNION {PageSpan(e, row.attachment, quote(at)) : at \in located} # {}

Words(passage) == {passage[i] : i \in 1..Len(passage)}
EvidenceMatches(result, row) ==
  \E a \in 1..Len(row.alternates) :
    LET quote == Words(row.alternates[a].quote)
    IN  quote # {} /\ 2 * Cardinality(quote \cap Words(result.evidence)) >= Cardinality(quote)

SameItem(e, result, row) ==
  \/ row.attachment \in DOMAIN e.parent /\ result.item = e.parent[row.attachment]
  \/ result.attachment = row.attachment
Twin(e, result, row) == result.work = row.work \/ IsTwin(e, result.item, row.work)

Candidate(e, result, row) ==
  IF SameItem(e, result, row)
  THEN IF OfficialPage(result, row) \/ EvidenceMatches(result, row) THEN 2 ELSE 1
  ELSE IF Twin(e, result, row) THEN 1 ELSE 0

(* One reading kept over the results of the row's own item: the first that *)
(* satisfies it, or how the first one that was looked at did not.          *)
FirstVerdict(same, satisfying) ==
  IF same = {} THEN "absent" ELSE IF satisfying = {} THEN "refused" ELSE "satisfied"

(* One row against the first k results: 2 a win, 1 a near-win, 0 a miss,   *)
(* at the rank of the first result of that level.                          *)
ScoreRow(e, q, r, results) ==
  LET row == q.rows[r]
      firstK == 1..(IF Len(results) < K THEN Len(results) ELSE K)
      at(level) == {i \in firstK : Candidate(e, results[i], row) = level}
      best == IF at(2) # {} THEN 2 ELSE IF at(1) # {} THEN 1 ELSE 0
      same == {i \in firstK : SameItem(e, results[i], row)}
  IN  [level |-> best, rank |-> IF best = 0 THEN 0 ELSE Least(at(best)),
       official |-> FirstVerdict(same, {i \in same : OfficialPage(results[i], row)}),
       accommodating |-> FirstVerdict(same, {i \in same : AccommodatingPage(e, q, r, results[i])})]

(* A question without rows has nothing to satisfy. *)
OverRows(q, satisfied) ==
  /\ q.rows # <<>>
  /\ IF q.setKind = "any-of" THEN satisfied # {} ELSE satisfied = 1..Len(q.rows)

(* A negative control fires when any row's work came back within k. *)
OutcomeOfWins(rows) == IF \E r \in DOMAIN rows : rows[r].level = 2 THEN "unexpected-hit" ELSE "pass"
Outcome(rows) == IF \E r \in DOMAIN rows : rows[r].level # 0 THEN "unexpected-hit" ELSE "pass"

Better(a, b) == \/ a.level > b.level
                \/ a.level = b.level /\ (b.rank = 0 \/ (a.rank # 0 /\ a.rank <= b.rank))
Level(q, rows) ==
  LET end == CHOOSE r \in DOMAIN rows : \A s \in DOMAIN rows :
               IF q.setKind = "any-of" THEN Better(rows[r], rows[s]) ELSE Better(rows[s], rows[r])
  IN  rows[end].level

PrimaryRows(e, q, results) == [r \in 1..Len(q.rows) |-> ScoreRow(e, q, r, results)]
ScoreReply(e, q, reply) ==
  LET rows == PrimaryRows(e, q, reply.results)
      state == IF ~reply.ran THEN "not-run" ELSE IF q.expectedMiss THEN "expected-miss" ELSE "scored"
  IN  [id |-> q.id, mode |-> reply.mode, state |-> state,
       rows |-> IF reply.ran THEN rows ELSE <<>>,
       official |-> OverRows(q, {r \in DOMAIN rows : rows[r].official = "satisfied"}),
       accommodating |-> OverRows(q, {r \in DOMAIN rows : rows[r].accommodating = "satisfied"}),
       top |-> {reply.results[i].item : i \in {j \in 1..Len(reply.results) : reply.ran /\ j <= K}},
       outcome |-> IF state = "expected-miss" THEN Outcome(rows) ELSE "none",
       level |-> IF state = "scored" THEN Level(q, rows) ELSE 0]

-----------------------------------------------------------------------------
(* The readings over a run's entries, and the gate over three of them. *)
Of(entries, state) == {i \in DOMAIN entries : entries[i].state = state}

R34Reading(entries) ==
  LET scored == Of(entries, "scored") IN
  IF scored = {} THEN "not-run"
  ELSE IF \A i \in scored : entries[i].official THEN "pass" ELSE "fail"

NegativeControls(entries) ==
  LET expected == Of(entries, "expected-miss") IN
  IF expected = {} THEN "not-measured"
  ELSE IF \A i \in expected : entries[i].outcome = "pass" THEN "pass" ELSE "fail"

Jaccard(A, B) ==
  IF A \union B = {} THEN Scale
  ELSE (Scale * Cardinality(A \cap B)) \div Cardinality(A \union B)

(* What was found, of the entries that the previous run answered too,      *)
(* against what it found.                                                  *)
Retrieved(entries) ==
  [i \in DOMAIN entries |-> [pair |-> <<entries[i].id, entries[i].mode>>,
                             ran |-> entries[i].state # "not-run", top |-> entries[i].top]]
Stability(bundle, found) ==
  LET earlier == bundle.previous
      shared == {i \in DOMAIN found : found[i].ran /\ found[i].pair \in DOMAIN earlier.top}
      score(i) == Jaccard(earlier.top[found[i].pair], found[i].top)
      sum[n \in 0..Len(found)] ==
        IF n = 0 THEN 0 ELSE sum[n - 1] + (IF n \in shared THEN score(n) ELSE 0)
      below == {i \in shared : score(i) < Cutoff}
  IN  IF earlier = Nothing THEN "not-run"
      ELSE IF earlier.export # bundle.export \/ shared = {} THEN "not-run"
      ELSE IF \/ sum[Len(found)] < MeanMin * Cardinality(shared)
              \/ Scale * Cardinality(below) > BelowMax * Cardinality(shared)
              \/ \E i \in shared : score(i) < HardFloor
           THEN "fail" ELSE "pass"

Gate(bundle, entries) ==
  LET gated == {R34Reading(entries), Stability(bundle, Retrieved(entries)), NegativeControls(entries)} IN
  IF "fail" \in gated THEN "fail" ELSE IF "not-run" \in gated THEN "not-run" ELSE "pass"

-----------------------------------------------------------------------------
ScoreInit == /\ stamps = [id \in {Bank[i].id : i \in 1..Len(Bank)} |-> Unstamped]
             /\ gate = NoGate /\ ops = 0

Added == {<<>>} \cup {<<q>> : q \in Misfits}
RefuseBank == gate' = [NoGate EXCEPT !.exit = 2] /\ UNCHANGED stamps

Validate == /\ gate.at = "idle" /\ ops < Operations /\ ops' = ops + 1
            /\ \E name \in DOMAIN Exports, added \in Added :
                 IF load_bank(added) THEN StampBank(name) \/ CheckBank(name) ELSE RefuseBank

(* Repeated pairs, and replies of another export, are refused on loading. *)
LoadReplies ==
  /\ gate.at = "idle" /\ ops < Operations /\ ops' = ops + 1
  /\ load_bank(<<>>)
  /\ \E name \in DOMAIN Exports, bundle \in Bundles :
       LET pairs == {<<r.id, r.mode>> : r \in {bundle.replies[i] : i \in DOMAIN bundle.replies}} IN
       gate' = IF Cardinality(pairs) = Len(bundle.replies) /\ bundle.export = name
                 THEN [NoGate EXCEPT !.at = "score", !.export = name, !.bundle = bundle,
                                     !.left = bundle.replies]
                 ELSE [NoGate EXCEPT !.exit = 2]
  /\ UNCHANGED stamps

(* A reply to no question of the bank, or in a mode its question excludes. *)
Question(reply) == {i \in 1..Len(Bank) : Bank[i].id = reply.id /\ Bank[i].mode \in {"any", reply.mode}}
Entry(export, reply) == ScoreReply(Loaded[export], Bank[Least(Question(reply))], reply)
NextReply ==
  /\ gate.at = "score" /\ gate.left # <<>>
  /\ LET reply == Head(gate.left) IN
     gate' = IF Question(reply) = {} THEN [NoGate EXCEPT !.exit = 2]
             ELSE [gate EXCEPT !.left = Tail(@), !.entries = Append(@, Entry(gate.export, reply))]
  /\ UNCHANGED <<stamps, ops>>

Evaluate ==
  /\ gate.at = "score" /\ gate.left = <<>>
  /\ LET state == Gate(gate.bundle, gate.entries) IN
     gate' = [gate EXCEPT !.at = "report", !.state = state,
                !.exit = IF state = "pass" THEN 0 ELSE IF state = "fail" THEN 1 ELSE 3]
  /\ UNCHANGED <<stamps, ops>>

Exits == gate.at = "report" /\ gate' = NoGate /\ UNCHANGED <<stamps, ops>>

ScoreNext == Validate \/ LoadReplies \/ NextReply \/ Evaluate \/ Exits
ScoreSpec == ScoreInit /\ [][ScoreNext]_scoreVars

-----------------------------------------------------------------------------
Scored(export, replies) == [i \in 1..Len(replies) |-> Entry(export, replies[i])]
Unquoted(result) == [item |-> result.item, attachment |-> result.attachment, work |-> result.work,
                     page |-> result.page, evidence |-> Nothing]
Blind(reply) == [id |-> reply.id, mode |-> reply.mode, ran |-> reply.ran,
                 results |-> [i \in 1..Len(reply.results) |-> Unquoted(reply.results[i])]]

(* "No gate reads" the page derived from the evidence: blanking all the    *)
(* evidence of a run's replies changes readings and levels, and never what *)
(* the gate says or the exit code of score.                                *)
EvidenceGatesNothing ==
  gate.at = "report" =>
    LET replies == gate.bundle.replies
        blind == [i \in 1..Len(replies) |-> Blind(replies[i])]
    IN  gate.state = Gate(gate.bundle, Scored(gate.export, blind))
=============================================================================
