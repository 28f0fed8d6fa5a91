-------------------------- MODULE AcceptanceChecks --------------------------
(* The assertions of the acceptance layer (src/bench/acceptance/           *)
(* assertions.py, durability.py) run by the driver's record() against one  *)
(* target, with the instrument failures they must not turn into a verdict. *)
(* An assertion is a script of the calls it makes, in their order.         *)
EXTENDS AcceptanceTarget

CONSTANT Faults  \* the instrument failures a run may meet, one of them each

VARIABLES
  fixture,    \* the target
  check,      \* the assertion
  fault,      \* what goes wrong in this run, or "none"
  pos,        \* the step of the script to do
  dirs,       \* arena -> data directory
  up,         \* the instances whose process is running
  reads,      \* the counters kept as before and after
  answers,    \* what each kept query came back with
  baseline,   \* the arena's files before the assertion
  candidate,  \* the perturbation the positive control accepted
  polled,     \* settle()'s last read
  worked,     \* the worker moved a counter since that read
  attempts,   \* what the tracer saw of the subject
  returncode, \* of the traced driver
  failures,   \* an exception the assertion itself caught
  verdict

vars == <<fixture, check, fault, pos, dirs, up, reads, answers, baseline, candidate,
          polled, worked, attempts, returncode, failures, verdict>>
target == <<dirs, up>>
seen == <<reads, answers, baseline, candidate, attempts, returncode, failures>>
poll == <<polled, worked>>

NoRead == [c \in {} |-> 0]

-----------------------------------------------------------------------------
(* The scripts                                                             *)

S(who, do, as) == [who |-> who, do |-> do, as |-> as]
First(do) == S("first", do, "none")
Settle(who, as) == S(who, "settle", as)
Query(who, as) == S(who, "query", as)

(* The positive control: the same change on a second target in an arena of *)
(* its own, never stopped.                                                 *)
TheChangeCreatesWork ==
  << S("control", "independent", "none"), S("control", "start", "none"), S("control", "counters", "none"),
     S("control", "install", "none"), Settle("control", "before"), S("control", "background", "none"),
     Settle("control", "after"), S("control", "stop", "none"), S("control", "created", "none") >>

Counted == << First("start"), First("counters") >>

(* One direction of the foreign stamp: armed, seen serving, restamped, asked. *)
Arm(direction) ==
  << S("first", "perturb", "reset-to-seeded-index"), First("start"), Query("first", "ready"),
     First("stop"), S("first", "perturb", direction), First("start"),
     Query("first", direction), First("stop") >>

LocalByDefault == << First("start"), First("configure"), First("status"), First("stop") >>
NoEgress ==
  << First("choose"), First("control-shared"), First("control-isolated"), First("subject") >>
ResidueInventory == << First("sweep"), First("start"), First("install"), First("stop") >>
ModelCache ==
  << First("sweep"), First("start"), First("install"), First("configure"),
     Query("first", "exercised"), First("status"), First("stop") >>
UninstallRemoves == << First("start"), First("install"), First("uninstall"), First("stop") >>
PauseStops ==
  TheChangeCreatesWork \o Counted \o
  << First("install"), Settle("first", "before"), First("pause"),
     Settle("first", "before"), First("same"), Settle("first", "after"), First("stop") >>
PauseHolds ==
  TheChangeCreatesWork \o Counted \o
  << First("install"), Settle("first", "before"), First("pause"),
     Settle("first", "before"), First("stop") >> \o Counted \o
  << Settle("first", "before"), First("same"), Settle("first", "after"), First("stop") >>
EditRecomputes ==
  Counted \o
  << Settle("first", "before"), S("first", "perturb", "edit-one-item"),
     Settle("first", "after"), First("stop") >>
ResyncRecomputes ==
  Counted \o
  << Settle("first", "before"), S("first", "perturb", "resync-identical-bytes"),
     Settle("first", "after"), First("stop") >>
BothAnswer ==
  << First("start"), Query("first", "alone"), S("second", "start", "none"),
     Query("second", "second"), Query("first", "first"), S("second", "stop", "none"),
     First("stop"), First("start"), Query("first", "third"), First("stop") >>
NoDuplicateWork ==
  Counted \o
  << Settle("first", "before"), S("second", "start", "none"), Settle("second", "joined"),
     S("second", "stop", "none"), First("read"), First("stop") >>
ForeignStampServes ==
  << First("start"), Query("first", "baseline"), First("stop") >>
  \o Arm("restamp-older") \o Arm("restamp-newer")

Checks == {"local-by-default", "no-egress", "residue-inventory", "model-cache", "uninstall", "pause-stops",
           "pause-holds", "edit", "resync", "both-answer", "no-duplicate-work", "foreign-stamp"}
Script == [c \in Checks |->
  CASE c = "local-by-default" -> LocalByDefault [] c = "no-egress" -> NoEgress
    [] c = "residue-inventory" -> ResidueInventory [] c = "model-cache" -> ModelCache
    [] c = "uninstall" -> UninstallRemoves [] c = "pause-stops" -> PauseStops
    [] c = "pause-holds" -> PauseHolds [] c = "edit" -> EditRecomputes [] c = "resync" -> ResyncRecomputes
    [] c = "both-answer" -> BothAnswer [] c = "no-duplicate-work" -> NoDuplicateWork
    [] c = "foreign-stamp" -> ForeignStampServes]

(* The verbs an assertion asks the declaration for before anything else.   *)
Needs(c) ==
  CASE c = "local-by-default" -> {"configure", "status"}
    [] c = "no-egress" -> {}
    [] c = "uninstall" -> {"uninstall"}
    [] c = "residue-inventory" -> {"install"}
    [] c = "model-cache" -> {"install", "query", "status"}
    [] c \in {"pause-stops", "pause-holds"} -> {"pause", "status"}
    [] c \in {"edit", "resync", "no-duplicate-work"} -> {"status"}
    [] c \in {"both-answer", "foreign-stamp"} -> {"query"}

-----------------------------------------------------------------------------
Step == Script[check][pos]
Now(kinds) == verdict = "open" /\ pos \in 1..Len(Script[check]) /\ Step.do \in kinds
Arena(who) == IF who = "control" THEN "control" ELSE "main"
Dir == dirs[Arena(Step.who)]
Go == pos' = pos + 1
Rule(v) == verdict' = v

(* A check that could not look says so: not_run(), or record() around it. *)
CouldNotLook ==
  /\ Rule("not-run")
  /\ UNCHANGED <<fixture, check, fault, pos, target, seen, poll>>

Same == UNCHANGED <<fixture, check, fault, verdict>>

Init ==
  /\ fixture \in Fixtures /\ check \in Checks /\ fault \in Faults \cup {"none"}
  /\ pos = 0
  /\ dirs = [a \in {"main", "control"} |->
               IF fault = "dirty" /\ a = "main"
               THEN [Empty EXCEPT !.files = {"index", "stray"}] ELSE Empty]
  /\ up = {} /\ reads = [r \in {"before", "after"} |-> NoWork]
  /\ answers = [l \in {} |-> "none"] /\ baseline = {} /\ candidate = "none"
  /\ polled = NoRead /\ worked = FALSE
  /\ attempts = {} /\ returncode = 0 /\ failures = FALSE
  /\ verdict = "open"

(* Every verb the clause needs is offered, or the check stops here.        *)
Begin ==
  /\ pos = 0 /\ verdict = "open"
  /\ IF \A v \in Needs(check) : Offers(fixture, v)
     THEN pos' = 1 /\ UNCHANGED verdict
     ELSE Rule("not-offered") /\ UNCHANGED pos
  /\ UNCHANGED <<fixture, check, fault, target, seen, poll>>

-----------------------------------------------------------------------------
(* The lifecycle and the worker                                            *)

Put(d) == dirs' = [dirs EXCEPT ![Arena(Step.who)] = d]

StartProcess ==
  /\ Now({"start"})
  /\ Put(Start(fixture, Dir)) /\ up' = up \cup {Step.who}
  /\ Go /\ Same /\ UNCHANGED <<seen, poll>>

StopProcess ==
  /\ Now({"stop"})
  /\ Put(Stop(fixture, Dir)) /\ up' = up \ {Step.who}
  /\ Go /\ Same /\ UNCHANGED <<seen, poll>>

Worker(a) ==
  /\ verdict = "open" /\ \E who \in up : Arena(who) = a
  /\ CanWork(fixture, dirs[a])
  /\ dirs' = [dirs EXCEPT ![a] = Work(@)]
  /\ worked' = TRUE
  /\ Same /\ UNCHANGED <<pos, up, seen, polled>>

-----------------------------------------------------------------------------
(* The verbs                                                               *)

Call ==
  /\ Now({"install", "configure", "uninstall", "pause"})
  /\ CASE Step.do = "install" /\ Offers(fixture, "install") -> Put(Install(fixture, Dir))
       [] Step.do = "uninstall" -> Put(Uninstall(fixture, Dir))
       [] Step.do = "pause" -> Put(Pause(Dir))
       [] OTHER -> UNCHANGED dirs
  /\ Go /\ Same /\ UNCHANGED <<up, seen, poll>>

(* status() for what it says of the embedder.                              *)
Status ==
  /\ Now({"status"})
  /\ IF fault = "no-embedding" THEN CouldNotLook
     ELSE Go /\ Same /\ UNCHANGED <<target, seen, poll>>

Reply == IF fault = "no-hit-list" THEN "unlisted"
         ELSE IF Hits(fixture, Dir) = 0 THEN "empty" ELSE "served"

Remember(reply) ==
  answers' = [l \in DOMAIN answers \cup {Step.as} |-> IF l = Step.as THEN reply ELSE answers[l]]

QueryAnswers ==
  /\ Now({"query"}) /\ Answers(fixture, Dir)
  /\ IF Step.as \in {"baseline", "ready"} /\ Reply # "served"
     THEN CouldNotLook
     ELSE /\ Remember(Reply) /\ Go /\ Same
          /\ UNCHANGED <<target, poll, reads, baseline, candidate, attempts, returncode, failures>>

(* Where an exception of a query is itself the observation: the pair, and  *)
(* an index asked after its stamp changed.                                 *)
AfterThePair == 8

Caught ==
  CASE check = "both-answer" ->
         /\ failures' = TRUE
         /\ pos' = IF pos < AfterThePair THEN AfterThePair ELSE Len(Script[check]) + 1
         /\ dirs' = [dirs EXCEPT !["main"] =
                       IF up = {} THEN @ ELSE IF up = {"first", "second"}
                       THEN Stop(fixture, Stop(fixture, @)) ELSE Stop(fixture, @)]
         /\ up' = {}
         /\ Same /\ UNCHANGED <<reads, answers, baseline, candidate, attempts, returncode, poll>>
    [] check = "foreign-stamp" /\ Step.do = "query" /\ Step.as \notin {"baseline", "ready"} ->
         /\ Remember("raised") /\ Go
         /\ Same /\ UNCHANGED <<target, poll, reads, baseline, candidate, attempts, returncode, failures>>
    [] OTHER -> CouldNotLook

QueryCannot == Now({"query"}) /\ ~Answers(fixture, Dir) /\ Caught

Reaching == {"start", "install", "configure", "uninstall", "pause", "status", "query",
             "counters", "settle", "perturb", "same", "background", "read"}

(* The transport dies under a call. *)
Raise == fault = "raise" /\ Now(Reaching) /\ Caught

-----------------------------------------------------------------------------
(* The counters                                                            *)

HasCounters ==
  /\ Now({"counters"})
  /\ IF ReportsWork(fixture) THEN Go /\ Same /\ UNCHANGED <<target, seen, poll>>
                             ELSE CouldNotLook

FirstRead ==
  /\ Now({"settle"}) /\ polled = NoRead
  /\ polled' = Dir.work /\ worked' = FALSE
  /\ Same /\ UNCHANGED <<pos, target, seen>>

(* Mutant: two reads close together. *)
IntervalNone == TRUE

(* The adapter declares an interval in which a busy worker moves a counter. *)
Interval == worked \/ ~CanWork(fixture, Dir)

Poll ==
  /\ Now({"settle"}) /\ polled # NoRead /\ Interval
  /\ IF polled = Dir.work
     THEN /\ reads' = IF Step.as \in DOMAIN reads THEN [reads EXCEPT ![Step.as] = polled] ELSE reads
          /\ polled' = NoRead /\ worked' = FALSE /\ Go
     ELSE polled' = Dir.work /\ worked' = FALSE /\ UNCHANGED <<reads, pos>>
  /\ Same /\ UNCHANGED <<target, answers, baseline, candidate, attempts, returncode, failures>>

OutOfPatience == Now({"settle"}) /\ polled # NoRead /\ fault = "impatient" /\ CouldNotLook

(* One read, not a settled one: the pair's counters after the second left. *)
Read ==
  /\ Now({"read"})
  /\ reads' = [reads EXCEPT !["after"] = Dir.work]
  /\ Go /\ Same
  /\ UNCHANGED <<target, answers, baseline, candidate, attempts, returncode, failures, poll>>

Declines(what) ==
  fault = "declines" \/ (fault = "declines-edit" /\ what = "edit-one-item")

Do(what) ==
  IF Declines(what) THEN CouldNotLook
  ELSE /\ Put(Perturb(fixture, Dir, what)) /\ candidate' = what /\ Go /\ Same
       /\ UNCHANGED <<up, reads, answers, baseline, attempts, returncode, failures, poll>>

PerturbTarget == Now({"perturb"}) /\ Do(Step.as)

(* perturb_background_work: the first candidate the control accepts, and   *)
(* the identical one on the graded target.                                 *)
PerturbBackgroundWork ==
  /\ Now({"background"})
  /\ Do(IF Declines("edit-one-item") THEN "resume-embedding" ELSE "edit-one-item")

PerturbSame == Now({"same"}) /\ Do(candidate)

Moved(outcome) == {c \in Counters : c[3] = outcome /\ reads["after"][c] > reads["before"][c]}

(* The control must not share a declared path with the graded target. *)
Independent ==
  /\ Now({"independent"})
  /\ IF fault = "shared" THEN CouldNotLook
     ELSE Go /\ Same /\ UNCHANGED <<target, seen, poll>>

(* A shared library: what the control edited is already edited. *)
Created ==
  /\ Now({"created"})
  /\ IF Moved("done") = {} THEN CouldNotLook
     ELSE /\ dirs' = [dirs EXCEPT !["main"].edited =
                        IF fault = "shared" THEN dirs["control"].edited ELSE @]
          /\ Go /\ Same /\ UNCHANGED <<up, seen, poll>>

-----------------------------------------------------------------------------
(* The sweep and the tracer                                                *)

(* Mutant: the sweep takes any arena for a clean one. *)
SweepAny ==
  /\ Now({"sweep"})
  /\ baseline' = Dir.files /\ Go /\ Same
  /\ UNCHANGED <<target, poll, reads, answers, candidate, attempts, returncode, failures>>

Sweep ==
  /\ Now({"sweep"})
  /\ IF Dir.files # {} THEN CouldNotLook
     ELSE /\ baseline' = Dir.files /\ Go /\ Same
          /\ UNCHANGED <<target, poll, reads, answers, candidate, attempts, returncode, failures>>

(* The mechanisms, tried in turn with a trivial command; nothing later     *)
(* depends on which of them works, only on whether one does.               *)
Mechanisms == {"bwrap", "podman-unshare"}
WorksHere(m) == fault # "no-mechanism" /\ (fault = "bwrap-refused" => m # "bwrap")
Chosen == {m \in Mechanisms : WorksHere(m)}

(* attempts_in(): loopback is the target talking to itself, unless it is a *)
(* resolver; a socket without an address names no destination.             *)
Detector(destination) ==
  CASE destination \in {"public-address", "public-resolver"} -> "off_machine"
    [] destination = "local-resolver" -> "dns"
    [] destination \in {"loopback", "unix-socket"} -> "none"
AttemptsIn(destinations) == {Detector(d) : d \in destinations} \ {"none"}

(* A control arm reaches for everything, in the mechanism with and without *)
(* a network of its own, and both detectors must have seen it.             *)
ControlReaches == {"public-address", "local-resolver", "loopback", "unix-socket"}
Blind == [shared |-> "blind-shared", isolated |-> "blind-isolated"]
Traced(arm) == IF fault = Blind[arm] THEN {} ELSE ControlReaches
SeesAll(arm) == AttemptsIn(Traced(arm)) = {"off_machine", "dns"}

Instrument ==
  /\ Now({"choose", "control-shared", "control-isolated"})
  /\ IF \/ Step.do = "choose" /\ Chosen = {}
        \/ Step.do = "control-shared" /\ ~SeesAll("shared")
        \/ Step.do = "control-isolated" /\ ~SeesAll("isolated")
     THEN CouldNotLook
     ELSE Go /\ Same /\ UNCHANGED <<target, seen, poll>>

EgressVerbs == {"install", "configure", "resume", "query"}
Driven == {v \in EgressVerbs : Offers(fixture, v)}
DriveIncomplete == 3

(* drive() under the tracer: a verb that raises is recorded, the sweep of  *)
(* the verbs carries on, and the driver says so by its return code; it may *)
(* also die of something else.                                             *)
Subject ==
  /\ Now({"subject"})
  /\ \E missed \in SUBSET Driven :
       /\ missed # {} => fault \in {"raise", "driver-dies"}
       /\ attempts' = AttemptsIn(UNION {Reaches(fixture, v) : v \in Driven \ missed})
       /\ returncode' = IF fault = "driver-dies" THEN 1
                        ELSE IF missed # {} THEN DriveIncomplete ELSE 0
  /\ Go /\ Same
  /\ UNCHANGED <<target, poll, reads, answers, baseline, candidate, failures>>

-----------------------------------------------------------------------------
(* The verdicts                                                            *)

Survivors == Declared(fixture, dirs["main"].files)
Residue == {x \in dirs["main"].files \ baseline : Directory(x) \notin DeclaredRoots(fixture)}

EditArithmetic ==
  /\ Moved("done") = {<<"record", "edit", "done">>, <<"embed", "edit", "done">>}
  /\ \A c \in Moved("done") : reads["after"][c] - reads["before"][c] =
                                IF c[1] = "record" THEN 1 ELSE Sections

Got(label) == IF label \in DOMAIN answers THEN answers[label] ELSE "none"
Listed(label) == Got(label) \in {"served", "empty"}
Pair == {"first", "second", "third"}

Passes ==
  CASE check = "local-by-default" -> Locality(fixture) = "local"
    [] check = "no-egress" -> attempts = {} /\ returncode = 0
    [] check = "uninstall" -> Survivors = {}
    [] check \in {"residue-inventory", "model-cache"} -> Residue = {}
    [] check \in {"pause-stops", "pause-holds", "no-duplicate-work"} -> Moved("done") = {}
    [] check = "edit" -> EditArithmetic
    [] check = "resync" ->
         Moved("done") = {} /\ \E c \in Moved("noop") : c[2] = "resync"
    [] check = "both-answer" -> ~failures /\ \A l \in Pair : Listed(l)
    [] check = "foreign-stamp" -> \A l \in {"restamp-older", "restamp-newer"} : Got(l) = "served"

Undecided ==
  \/ check = "no-egress" /\ returncode = DriveIncomplete /\ attempts = {}
  \/ check = "both-answer" /\ ~failures /\ \A l \in Pair : ~Listed(l)

Decide ==
  /\ verdict = "open" /\ pos > Len(Script[check])
  /\ Rule(IF Undecided THEN "not-run" ELSE IF Passes THEN "pass" ELSE "fail")
  /\ UNCHANGED <<fixture, check, fault, pos, target, seen, poll>>

(* The verdict is in the run's list; a script that stops short deadlocks. *)
Recorded == verdict # "open" /\ UNCHANGED vars

Next ==
  \/ Begin \/ StartProcess \/ StopProcess \/ Worker("main") \/ Worker("control")
  \/ Call \/ Status \/ QueryAnswers \/ QueryCannot \/ Raise
  \/ HasCounters \/ FirstRead \/ Poll \/ OutOfPatience \/ Read
  \/ PerturbTarget \/ PerturbBackgroundWork \/ PerturbSame \/ Independent \/ Created
  \/ Sweep \/ Instrument \/ Subject \/ Decide \/ Recorded

Spec == Init /\ [][Next]_vars
-----------------------------------------------------------------------------
(* Properties                                                              *)

TypeOK ==
  /\ fixture \in Fixtures /\ check \in Checks /\ fault \in Faults \cup {"none"}
  /\ pos \in 0..Len(Script[check]) + 1
  /\ \A a \in {"main", "control"} :
       /\ dirs[a].files \subseteq {"ledger", "index", "stray", "survivor", "paused",
                                  "stamp", "sidelined"}
       /\ dirs[a].work \in [Counters -> Nat] /\ dirs[a].live \in 0..2
  /\ up \subseteq {"first", "second", "control"}
  /\ verdict \in {"open", "pass", "fail", "not-run", "not-offered"}

(* The fixtures built to fail each clause (the module docstring of         *)
(* stubs.py names them); the two residue sweeps share theirs.              *)
RedFor(c) ==
  CASE c = "local-by-default" -> {"remote-embedder"}
    [] c = "no-egress" -> {"egress-ip", "egress-name"}
    [] c \in {"residue-inventory", "model-cache"} -> {"strays", "under-declares"}
    [] c = "uninstall" -> {"uninstall-leaves-residue"}
    [] c = "pause-stops" -> {"ignores-pause"}
    [] c = "pause-holds" -> {"ignores-pause", "forgets-pause-on-restart"}
    [] c = "edit" -> {"recomputes-whole-library-on-edit"}
    [] c = "resync" -> {"churns-on-resync", "verifies-nothing-on-resync"}
    [] c = "both-answer" -> {"corrupts-on-company"}
    [] c = "no-duplicate-work" -> {"duplicates-work-on-company"}
    [] c = "foreign-stamp" -> {"abandons-foreign-stamp"}

CountsWork(c) == \E i \in 1..Len(Script[c]) : Script[c][i].do = "counters"

(* With a working instrument, whatever the target's worker and the polls   *)
(* do, each assertion is red on the fixtures built for its clause and on   *)
(* no other: the gate's own positive control (run_fixtures) is green, and  *)
(* a red names a cause.                                                    *)
FixtureMatrix ==
  fault = "none" /\ verdict # "open" =>
    verdict = IF \E v \in Needs(check) : ~Offers(fixture, v) THEN "not-offered"
              ELSE IF CountsWork(check) /\ ~ReportsWork(fixture) THEN "not-run"
              ELSE IF fixture \in RedFor(check) THEN "fail" ELSE "pass"

(* No instrument failure is a green: a dirty arena, a control that shares  *)
(* the library, a tracer that sees nothing, a driver that raised half way, *)
(* a target read while it works, never hide the defect the clause is about. *)
GreenLooked == verdict = "pass" => fixture \notin RedFor(check)

(* No instrument failure is a red, outside the two windows in which an     *)
(* assertion takes a raising query for its observation, and a traced       *)
(* driver that dies of something else than a verb.                         *)
RedIsEarned ==
  verdict = "fail" =>
    \/ fixture \in RedFor(check)
    \/ check \in {"both-answer", "foreign-stamp"} /\ (failures \/ "raised" \in {answers[l] : l \in DOMAIN answers})
    \/ check = "no-egress" /\ returncode \notin {0, DriveIncomplete}

(* Neither verdict is an instrument's: whichever step of whichever         *)
(* assertion fails, a green has looked and a red has seen.                 *)
VerdictsEarned == GreenLooked /\ RedIsEarned
=============================================================================
