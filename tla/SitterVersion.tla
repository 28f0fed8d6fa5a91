---------------------------- MODULE SitterVersion ----------------------------
(***************************************************************************)
(* bench/check_sitter_version.py and its forge reader,                     *)
(* bench/forge_open_prs.py: no two payloads of the sitter may answer to    *)
(* one version.  The guard runs in one lane's checkout ("here"): it looks  *)
(* at the release entry (rule 2), then at every revision it can see (rule  *)
(* 1), then asks the forge, one request at a time, about each open pull    *)
(* request (rule 3), while the other lanes push, open and close theirs.    *)
(*                                                                         *)
(* A payload is the version text of its manifest and the rest of its       *)
(* bytes, code.  A text has the number it parses to and a spelling, so     *)
(* that "2.03.0" and "2.3.0" are two texts of one number; Nameless is a    *)
(* manifest without a version, NoPayload a revision without a manifest,    *)
(* and a text without a number is one parse() raises for.  The home a      *)
(* revision keeps its files in, and the add-on's id, are left out.         *)
(***************************************************************************)
EXTENDS Integers, Sequences, SequencesExt

CONSTANTS Payloads,    \* what a lane may write
          Lanes,      \* the other lanes; each has one pull request
          Checkouts,      \* the first commit, the checkout the guard runs in, and a bound
                       \* on the commits there may be (room)
          PAGE, PAGES  \* of the list of open pull requests

(* A version text parses to a list of numbers, an empty one for a text     *)
(* parse() raises for.                                                     *)
IsPayload(p) == p = [version |-> p.version, code |-> p.code] /\ p.version.number \in Seq(Int)
ASSUME PayloadsAssumption ==
  /\ \A p \in Payloads : IsPayload(p)
  /\ \A s \in Checkouts : IsPayload(s.first) /\ IsPayload(s.tree)
ASSUME PagesAssumption == PAGE \in Nat \ {0} /\ PAGES \in Nat \ {0}

VARIABLES repo,       \* the commits; the head of each lane; the open requests, newest first
          checkout,   \* where the guard runs: its clone, its working tree, its update.json
          guard,      \* one run of it
          steady      \* the requests open, and unmoved, since the guard began to list them,
                      \* and whether one was closed before the list was complete
versionVars == <<repo, checkout, guard, steady>>

Here == "here"
ASSUME LanesAssumption == Here \notin Lanes
NoPayload == [version |-> [number |-> <<>>, spelt |-> "no manifest"], code |-> "none"]
Nameless == [number |-> <<>>, spelt |-> "no version"]

(* version_of() answers None for the first two, and parse() raises for the *)
(* third.                                                                  *)
Versioned(p) == p # NoPayload /\ p.version # Nameless
Orders(p) == p.version.number # <<>>
SameNumber(p, q) == Orders(p) /\ Orders(q) /\ p.version.number = q.version.number

PayloadOf(c) == repo.commits[c].payload
Past(lane) == repo.commits[repo.head[lane]].past
Tree == checkout.tree

VersionInit ==
  /\ \E s \in Checkouts :
       /\ repo = [commits |-> <<[payload |-> s.first, past |-> {1}]>>,
                  head |-> [l \in Lanes \cup {Here} |-> 1], open |-> <<>>]
       /\ checkout = [clone |-> s.clone, tree |-> s.tree, entry |-> s.entry, room |-> s.room]
  /\ guard = [pc |-> "idle", findings |-> {}, claims |-> {}, read |-> 0, page |-> 1,
              left |-> <<>>, manifest |-> Nameless, crossed |-> {}, unrun |-> FALSE, exit |-> 0]
  /\ steady = [lanes |-> {}, shifted |-> FALSE]

-----------------------------------------------------------------------------
(* The lanes: here commits and merges before it runs the guard.  What is   *)
(* open matters only while the guard lists it, the heads as long as it     *)
(* asks.                                                                   *)
Listing == guard.pc \in {"list", "listing"}
Asking == Listing \/ guard.pc \in {"head", "manifest", "payload"}

Add(lane, p, merged) ==
  LET new == Len(repo.commits) + 1
  IN  /\ new <= checkout.room
      /\ repo' = [repo EXCEPT !.commits = Append(@, [payload |-> p, past |-> merged \cup Past(lane) \cup {new}]),
                              !.head[lane] = new]
      /\ steady' = [steady EXCEPT !.lanes = @ \ {lane}]
      /\ UNCHANGED <<checkout, guard>>

CommitHere == guard.pc = "idle" /\ Add(Here, Tree, {})
MergeHere(lane) == guard.pc = "idle" /\ Add(Here, Tree, Past(lane))
Push(lane, p) == (guard.pc = "idle" \/ Asking) /\ Add(lane, p, {})

OpenRequest(lane) ==
  /\ Listing /\ lane \notin ToSet(repo.open)
  /\ repo' = [repo EXCEPT !.open = <<lane>> \o @]
  /\ UNCHANGED <<checkout, guard, steady>>
CloseRequest(lane) ==
  /\ Listing
  /\ \E i \in DOMAIN repo.open : repo.open[i] = lane /\ repo' = [repo EXCEPT !.open = RemoveAt(@, i)]
  /\ steady' = [lanes |-> steady.lanes \ {lane}, shifted |-> steady.shifted \/ guard.pc = "listing"]
  /\ UNCHANGED <<checkout, guard>>

-----------------------------------------------------------------------------
(* main(), before run(): a checkout without the whole history answers      *)
(* nothing.                                                                *)
CannotSeeTheTip == checkout.clone \in {"not git", "shallow"}
CannotSee == checkout.clone \in {"not git", "shallow", "grafted"}

ExitsWith(exit) == guard' = [guard EXCEPT !.pc = "done", !.exit = exit]
CheckClone ==
  /\ guard.pc = "idle"
  /\ IF Tree = NoPayload \/ CannotSee THEN ExitsWith(1)
     ELSE guard' = [guard EXCEPT !.pc = "local"]
  /\ UNCHANGED <<repo, checkout, steady>>

(* commit_reader(): a commit's blobs; a partial clone has those of the     *)
(* checkout's own commit only, and the tree tells a missing blob from a    *)
(* file that was never there.                                              *)
Unreadable(c) == checkout.clone = "partial" /\ c # repo.head[Here] /\ PayloadOf(c) # NoPayload

(* check_release(): silent without the file and while no release is cut.   *)
(* update_entry() takes two entries of one version for none, and           *)
(* asset_exists() any failure for a link that leads nowhere.               *)
Resolves(tag) == tag \in DOMAIN repo.commits
OneEntry == checkout.entry.state = "one"
Linked == checkout.entry.link = "live"
ReleaseAgrees ==
  LET e == checkout.entry
  IN  \/ e.state = "absent"
      \/ /\ OneEntry
         /\ \/ e.tag = 0 /\ e.link = "none"
            \/ Resolves(e.tag) /\ PayloadOf(e.tag).version = Tree.version /\ Linked
TagRead == OneEntry /\ checkout.entry.tag # 0 /\ checkout.entry.link # "none"

(* history() and rule 1: a shallow clone and a grafted history show no more *)
(* than the tip.                                                            *)
Visible == IF checkout.clone \in {"shallow", "grafted"} THEN {repo.head[Here]} ELSE Past(Here)
Compared == {c \in Visible : Versioned(PayloadOf(c))}
Reused(c) == SameNumber(PayloadOf(c), Tree) /\ PayloadOf(c) # Tree

(* run(), down to rule 3: a blob that is not there and a version that      *)
(* cannot be ordered end it.  A finding names its revision, and 0 stands   *)
(* for update.json.                                                        *)
Local ==
  /\ guard.pc = "local"
  /\ LET tag == checkout.entry.tag
         blind == \/ \E c \in Past(Here) : Unreadable(c)
                  \/ TagRead /\ Resolves(tag) /\ Unreadable(tag)
     IN  IF Tree.version = Nameless \/ ~Orders(Tree) \/ blind
            \/ \E c \in Compared : ~Orders(PayloadOf(c))
         THEN ExitsWith(1)
         ELSE guard' = [guard EXCEPT
                !.pc = "list",
                !.findings = {c \in Compared : Reused(c)} \cup (IF ReleaseAgrees THEN {} ELSE {0}),
                !.claims = {PayloadOf(c).version : c \in Compared},
                !.read = Cardinality(Compared)]
  /\ UNCHANGED <<repo, checkout, steady>>

-----------------------------------------------------------------------------
(* Rule 3.  Every request may fail, and so may the command that makes them: *)
(* what was found stands, the rest is not claimed.                         *)
Unanswered == [guard EXCEPT !.pc = "verdict", !.unrun = TRUE]
CannotLook == /\ Asking
              /\ guard' = Unanswered
              /\ UNCHANGED <<repo, checkout, steady>>

(* numbers(): the list, a page at a time; a full page asks for another,    *)
(* and too many pages are no answer.                                       *)
PageOf(s, k) == SubSeq(s, (k - 1) * PAGE + 1, IF k * PAGE < Len(s) THEN k * PAGE ELSE Len(s))
ListPage ==
  /\ Listing
  /\ LET listed == PageOf(repo.open, guard.page)
         full == Len(listed) = PAGE
     IN  guard' = [guard EXCEPT !.left = @ \o listed, !.page = @ + 1,
                                !.pc = IF ~full THEN "head" ELSE IF guard.page = PAGES THEN "verdict" ELSE "listing",
                                !.unrun = full /\ guard.page = PAGES]
  /\ steady' = IF guard.pc = "list" THEN [lanes |-> ToSet(repo.open), shifted |-> FALSE] ELSE steady
  /\ UNCHANGED <<repo, checkout>>

NextRequest == [guard EXCEPT !.pc = "head", !.left = Tail(@), !.manifest = Nameless]

(* head(), and in_our_history(): a head rule 1 has read is left to it. *)
Known(c) == c \in Past(Here)
ReadHead ==
  /\ guard.pc = "head" /\ guard.left # <<>>
  /\ guard' = IF Known(repo.head[Head(guard.left)]) THEN NextRequest
              ELSE [guard EXCEPT !.pc = "manifest"]
  /\ UNCHANGED <<repo, checkout, steady>>

(* pull_request_reader(): each file is asked for by the request's number,  *)
(* at the head it has then; the manifest is kept, the rest is read only of *)
(* a claim to our number.                                                  *)
AtHead == PayloadOf(repo.head[Head(guard.left)])
ReadManifest ==
  /\ guard.pc = "manifest"
  /\ guard' = IF ~Versioned(AtHead) THEN NextRequest
              ELSE IF ~SameNumber(AtHead, Tree)
                THEN [NextRequest EXCEPT !.claims = @ \cup {AtHead.version}]
              ELSE [guard EXCEPT !.pc = "payload", !.manifest = AtHead.version,
                                 !.claims = @ \cup {AtHead.version}]
  /\ UNCHANGED <<repo, checkout, steady>>
ReadPayload ==
  /\ guard.pc = "payload"
  /\ LET torn == [version |-> guard.manifest, code |-> AtHead.code]
     IN  guard' = [NextRequest EXCEPT !.crossed = IF torn # Tree THEN @ \cup {Head(guard.left)} ELSE @]
  /\ UNCHANGED <<repo, checkout, steady>>
AllRead == /\ guard.pc = "head" /\ guard.left = <<>>
           /\ guard' = [guard EXCEPT !.pc = "verdict"]
           /\ UNCHANGED <<repo, checkout, steady>>

(* next_free(): the first number after ours that no claim read has taken. *)
NumbersRead == {v.number : v \in guard.claims}
Bumped(number, k) == [number EXCEPT ![Len(number)] = @ + k]
next_free == Bumped(Tree.version.number,
                  CHOOSE k \in 1..(Cardinality(NumbersRead) + 1) :
                    /\ Bumped(Tree.version.number, k) \notin NumbersRead
                    /\ \A j \in 1..(k - 1) : Bumped(Tree.version.number, j) \in NumbersRead)

(* main(), after run(): rule 3 not run does not redden it, and no revision *)
(* compared is no comparison.                                              *)
Verdict ==
  /\ guard.pc = "verdict"
  /\ ExitsWith(IF guard.findings = {} /\ guard.crossed = {} /\ guard.read > 0 THEN 0 ELSE 1)
  /\ UNCHANGED <<repo, checkout, steady>>

VersionNext ==
  \/ CommitHere \/ \E lane \in Lanes : MergeHere(lane) \/ OpenRequest(lane) \/ CloseRequest(lane)
  \/ \E lane \in Lanes, p \in Payloads : Push(lane, p)
  \/ OpenRequest(Here)
  \/ CheckClone \/ Local \/ CannotLook \/ ListPage \/ ReadHead \/ ReadManifest \/ ReadPayload
  \/ AllRead \/ Verdict

VersionSpec == VersionInit /\ [][VersionNext]_versionVars

-----------------------------------------------------------------------------
(* An OK has compared, and is of a tree whose number no revision it        *)
(* descends from, in the history as it was written, carries over another   *)
(* payload, and no pull request that stood where it stands since the guard *)
(* began to list them; the last only if rule 3 was run to its end, and no  *)
(* request was closed between two pages of the list.  A release it passed  *)
(* is one of this version.  And a lane told of a collision is offered a    *)
(* number that no claim read holds.                                        *)
OkIsUnclaimed ==
  guard.pc = "done" =>
    /\ guard.exit = 0 =>
         /\ \E c \in Past(Here) : Versioned(PayloadOf(c))
         /\ \A c \in Past(Here) : ~Reused(c)
         /\ ~guard.unrun /\ ~steady.shifted => \A lane \in steady.lanes : ~Reused(repo.head[lane])
         /\ TagRead => Resolves(checkout.entry.tag) /\ SameNumber(PayloadOf(checkout.entry.tag), Tree)
    /\ guard.crossed # {} => next_free \notin NumbersRead /\ next_free # Tree.version.number
=============================================================================
