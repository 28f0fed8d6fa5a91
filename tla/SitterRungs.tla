----------------------------- MODULE SitterRungs -----------------------------
(***************************************************************************)
(* The rungs of the sitter's test ladder: bench/sitter_smoke_test.py,      *)
(* sitter_clone_rung.py and sitter_menagerie_test.py, with the refusal     *)
(* guard they share (sitter_refusal.py).  A rung launches a Zotero of its  *)
(* own, installs the sitter in it, drives both over the debugger and       *)
(* judges what it reads there and on disk, while both go on working.       *)
(*                                                                         *)
(* A script is the list of a rung's steps.  A step that waits may be left  *)
(* at its deadline whatever the host did; a step that evaluates code may   *)
(* find the host gone.  defect is what the sitter under test does wrong,   *)
(* if anything.  An attachment is its key; Imported are those of the       *)
(* fixture, Restored those an attachment gets when it is put back.         *)
(***************************************************************************)
EXTENDS SitterIntegrity

CONSTANTS Imported, Restored

(* The fixture is a finite set of attachments.                             *)
ASSUME ImportedAssumption == IsFiniteSet(Imported)

VARIABLES rung,     \* which of the three
          defect,   \* what the sitter does wrong
          host,     \* Zotero, its library and the sitter in it
          drv,      \* the driver
          declared, \* what the segments of this run declared in all, from the baseline on
          baseline  \* the snapshot the ledger started from

rungVars == <<rung, defect, host, drv, declared, baseline, disk, ledger>>

None == "none"
Running == 9

Defects == {None, "alien", "rows", "works-off", "keeps-pack", "residue", "stuck"}
Transient == "cpu-busy"
Gates == {"open", Transient, "low-disk"}

Prelude == <<"preflight", "payload", "profile", "launch", "port", "attach", "ready", "baseline", "install", "arm">>
SmokeScript == Prelude \o <<"import", "census", "prepared", "import-segment">>
CloneScript == <<"pinned">> \o Prelude \o <<"settled", "census-segment", "quit", "quit-segment">>
(* An attachment is erased and one is put back, twice.                     *)
MenagerieScript ==
  <<"preflight", "payload", "profile", "launch", "port", "attach", "ready", "baseline", "install", "arm",
    "off", "mark", "import", "held", "import-segment", "on", "settled", "account", "packs",
    "segment", "pick", "erase", "gone", "erase-segment", "attach-file", "back", "attach-segment",
    "segment", "pick", "erase", "gone", "erase-segment", "attach-file", "back", "attach-segment",
    "segment", "uninstall", "residue", "segment">>
Scripts == [smoke |-> SmokeScript, clone |-> CloneScript, menagerie |-> MenagerieScript]
AtStep == IF drv.raised = None /\ drv.at <= Len(Scripts[rung]) THEN Scripts[rung][drv.at] ELSE "close"

RungsInit ==
  /\ rung \in DOMAIN Scripts /\ defect \in Defects
  /\ host \in [zotero : {"off"}, sitter : {"absent"}, enabled : {TRUE}, gate : Gates, busy : {None},
               docs : {IF rung = "clone" THEN Imported ELSE {}}, odd : SUBSET Imported,
               scanned : {FALSE}, cache : {FALSE}]
  /\ drv = [at |-> 1, raised |-> None, problems |-> FALSE, retried |-> {}, mark |-> 0,
            victim |-> None, before |-> 0, exit |-> Running]
  /\ disk \in [alien : {0}, tables : {Cardinality(host.docs)}, packs : SUBSET (host.docs \ host.odd)]
  /\ declared = NoEdit /\ baseline = Blank /\ ledger = LedgerInit

-----------------------------------------------------------------------------
(* The host. *)
Pending == (host.docs \ disk.packs) \ host.odd
Lost == IF defect = "stuck" THEN {CHOOSE k \in Imported : TRUE} ELSE {}
Arms == /\ host.sitter = "installed"
        /\ host' = [host EXCEPT !.sitter = "armed", !.cache = TRUE]
        /\ UNCHANGED disk
Censuses == /\ host.sitter = "armed" /\ host.docs # {} /\ ~host.scanned
            /\ host' = [host EXCEPT !.scanned = TRUE]
            /\ UNCHANGED disk
Admits == /\ host.sitter = "armed" /\ host.busy = None /\ host.gate = "open"
          /\ host.enabled \/ defect = "works-off"
          /\ \E k \in Pending \ Lost : host' = [host EXCEPT !.busy = k]
          /\ UNCHANGED disk
Prepares == /\ host.busy # None
            /\ host' = [host EXCEPT !.busy = None]
            /\ disk' = IF host.busy \in host.docs
                         THEN [disk EXCEPT !.packs = @ \union {host.busy}] ELSE disk
StorageGoes == /\ defect # "keeps-pack"
               /\ \E k \in disk.packs \ host.docs : disk' = [disk EXCEPT !.packs = @ \ {k}]
               /\ UNCHANGED host
GateOpens == /\ host.gate = Transient
             /\ host' = [host EXCEPT !.gate = "open"]
             /\ UNCHANGED disk
WritesElsewhere == /\ host.sitter = "armed" /\ UNCHANGED host
                   /\ \/ defect = "alien" /\ disk.alien = 0 /\ disk' = [disk EXCEPT !.alien = 1]
                      \/ defect = "rows" /\ disk.tables = Cardinality(host.docs)
                         /\ disk' = [disk EXCEPT !.tables = @ + 1]
CleansUp == /\ host.sitter = "removed" /\ host.cache /\ defect # "residue"
            /\ host' = [host EXCEPT !.cache = FALSE, !.sitter = "absent"]
            /\ UNCHANGED disk
ZoteroDies == /\ host' = [host EXCEPT !.zotero = "off"] /\ UNCHANGED disk
Host == /\ host.zotero = "up"
        /\ \/ Arms \/ Censuses \/ Admits \/ Prepares \/ StorageGoes \/ GateOpens
           \/ WritesElsewhere \/ CleansUp \/ ZoteroDies
        /\ UNCHANGED <<rung, defect, drv, declared, baseline, ledger>>
-----------------------------------------------------------------------------
(* The driver. *)
Go == drv' = [drv EXCEPT !.at = @ + 1]
Raise(what) == drv' = [drv EXCEPT !.raised = what]
Unmoved == UNCHANGED <<rung, defect, declared, baseline>>
Apart == UNCHANGED <<host, disk, ledger>>
Up == host.zotero = "up"

(* Run.ev(): a read that is refused or of a Zotero that is gone fails the  *)
(* step it serves.                                                         *)
Fails(kind) == Raise(kind) /\ Apart
Evaluates == {"install", "arm", "off", "mark", "import", "held", "on", "settled", "census", "prepared",
              "account", "pick", "erase", "gone", "attach-file", "back", "uninstall"}
HostGone == AtStep \in Evaluates /\ ~Up /\ Fails("error")

(* main(): a command line, or a working directory, that will not do ends   *)
(* the rung before its first step.                                         *)
Misused == /\ AtStep \in {"pinned", "preflight"} /\ drv.at = 1 /\ Apart /\ Raise("usage")
(* pinned_data_dirs(): a data directory some profile is pinned to is       *)
(* refused.                                                                *)
Pinned == /\ AtStep = "pinned" /\ Apart /\ (Go \/ Raise("fail"))
(* preflight() of disk and load; build_xpi() and find_zotero_bin(): what   *)
(* the machine lacks is no verdict.                                        *)
Preflight == /\ AtStep = "preflight" /\ Apart /\ (Go \/ Raise("not-run"))
Payload == /\ AtStep = "payload" /\ Apart /\ (Go \/ Raise("not-run"))
(* setup_profile(): a directory that exists is refused. *)
Profile == /\ AtStep = "profile" /\ Apart /\ (Go \/ Raise("error"))
Launch == /\ AtStep = "launch" /\ UNCHANGED <<disk, ledger>>
          /\ \/ Raise("not-run") /\ UNCHANGED host
             \/ host' = [host EXCEPT !.zotero = "up"] /\ Go
(* wait_for_port() and connect_resilient(): only the Menagerie rung takes  *)
(* their failure for one of the sitter.                                    *)
ReachZotero == /\ AtStep \in {"port", "attach"} /\ Apart
           /\ \/ Up /\ Go
              \/ Raise(IF rung = "menagerie" THEN "error" ELSE "not-run")
Ready == /\ AtStep = "ready" /\ Apart
         /\ \/ Up /\ Go
            \/ Raise("not-run")
(* The steps that wait for the sitter fail at their deadline. *)
Overdue == /\ AtStep \in {"baseline", "install", "arm", "import", "census", "prepared", "gone", "back", "residue"}
           /\ Fails("fail")
(* import_with_retry(): a fresh profile without translators yet is asked   *)
(* again, and is no verdict.                                               *)
NoTranslator == AtStep = "import" /\ rung = "menagerie" /\ Fails("not-run")
(* RungTimeout: the index deadline is derived, not measured. *)
StillWorking == AtStep = "settled" /\ rung = "menagerie" /\ Fails("timeout")

Install == /\ AtStep = "install" /\ Up
           /\ host' = [host EXCEPT !.sitter = "installed"] /\ Go /\ UNCHANGED <<disk, ledger>>
(* poll_until_armed() *)
Armed == /\ AtStep = "arm" /\ Up /\ host.sitter = "armed" /\ Go /\ Apart

(* The import leaves the sitter's next census to do. *)
Import == /\ AtStep = "import" /\ Up
          /\ host' = [host EXCEPT !.docs = Imported, !.scanned = FALSE]
          /\ disk' = [disk EXCEPT !.tables = @ + Cardinality(Imported)]
          /\ Go /\ UNCHANGED ledger
Census == /\ AtStep = "census" /\ Up /\ host.scanned /\ Go /\ Apart

(* RefusalGuard.check(): a blocked phase with work to do ends the wait,    *)
(* but a transient gate gets one forced retry first.                       *)
Guarded == {"prepared", "settled", "gone", "back"}
Refusing == host.gate # "open" /\ Pending # {} /\ host.enabled /\ host.sitter = "armed"
ForcedRetry == /\ AtStep \in Guarded /\ Up /\ Refusing
               /\ host.gate = Transient /\ host.gate \notin drv.retried
               /\ drv' = [drv EXCEPT !.retried = @ \union {host.gate}] /\ Apart
Refused == /\ AtStep \in Guarded /\ Up /\ Refusing
           /\ host.gate = Transient => host.gate \in drv.retried
           /\ Raise("not-run") /\ Apart

(* wait_for_preparation(): every document has its record, which is written *)
(* when its pack is, and its pack.                                         *)
RowsHold == host.cache /\ Cardinality(disk.packs) = Cardinality(Imported)
Prepared == /\ AtStep = "prepared" /\ Up /\ RowsHold
            /\ Go /\ Apart

(* wait_settled(): drained, or nothing running and nothing moving for a    *)
(* while.                                                                  *)
Drained == Pending = {} /\ host.busy = None /\ (host.docs # {} => host.scanned)
MenagerieSettles == /\ AtStep = "settled" /\ rung = "menagerie" /\ Up
                    /\ Drained \/ host.busy = None
                    /\ Go /\ Apart
(* wait_for_settle(): settled reads in a row, or the deadline, which is a  *)
(* problem to report and not the end of the run.                           *)
CloneSettles == /\ AtStep = "settled" /\ rung = "clone" /\ Up /\ Apart
                /\ \/ Drained /\ Go
                   \/ drv' = [drv EXCEPT !.at = @ + 1, !.problems = TRUE]

(* phase_pause(), phase_verify_paused(), phase_resume(): the switch is     *)
(* clicked, the count read after it, and one document may be in flight.    *)
SwitchOff == /\ AtStep = "off" /\ Up
             /\ host' = [host EXCEPT !.enabled = FALSE] /\ Go /\ UNCHANGED <<disk, ledger>>
SwitchOn == /\ AtStep = "on" /\ Up
            /\ host' = [host EXCEPT !.enabled = TRUE] /\ Go /\ UNCHANGED <<disk, ledger>>
Mark == /\ AtStep = "mark" /\ Up
        /\ drv' = [drv EXCEPT !.at = @ + 1, !.mark = Cardinality(disk.packs)] /\ Apart
Held == /\ AtStep = "held" /\ Up /\ Apart
        /\ IF Cardinality(disk.packs) > drv.mark + 1 THEN Raise("fail") ELSE Go

(* sweep() and account(): an attachment still queued, looked at twice, is  *)
(* not accounted for.                                                      *)
QueuedIgnored == {}
Queued == Pending
Account == /\ AtStep = "account" /\ Up /\ Apart /\ IF Queued # {} THEN Raise("fail") ELSE Go
(* check_packs(): a count of zero would agree with an empty directory. *)
CheckPacks == /\ AtStep = "packs" /\ Apart
              /\ IF disk.packs = {} THEN Raise("fail") ELSE Go

(* phase_invalidation() *)
Pick == /\ AtStep = "pick" /\ Up /\ Apart
        /\ IF host.docs \intersect disk.packs = {} THEN Raise("fail")
           ELSE \E k \in host.docs \intersect disk.packs :
                  drv' = [drv EXCEPT !.at = @ + 1, !.victim = k, !.before = Cardinality(disk.packs)]
Erase == /\ AtStep = "erase" /\ Up
         /\ host' = [host EXCEPT !.docs = @ \ {drv.victim}]
         /\ disk' = [disk EXCEPT !.tables = @ - 1]
         /\ Go /\ UNCHANGED ledger
Gone == /\ AtStep = "gone" /\ Up /\ Cardinality(disk.packs) = drv.before - 1 /\ Apart
        /\ IF drv.victim \in disk.packs THEN Raise("fail") ELSE Go
Attach == /\ AtStep = "attach-file" /\ Up
          /\ host' = [host EXCEPT !.docs = @ \union {CHOOSE k \in Restored : k \notin @ \union disk.packs}]
          /\ disk' = [disk EXCEPT !.tables = @ + 1]
          /\ Go /\ UNCHANGED ledger
Back == /\ AtStep = "back" /\ Up /\ Cardinality(disk.packs) = drv.before /\ Go /\ Apart

(* phase_uninstall() *)
Uninstall == /\ AtStep = "uninstall" /\ Up
             /\ host' = [host EXCEPT !.sitter = "removed", !.busy = None] /\ Go /\ UNCHANGED <<disk, ledger>>
Residue == /\ AtStep = "residue" /\ ~host.cache /\ Go /\ Apart

(* The integrity steps. *)
Edit == CASE AtStep = "import-segment" -> ImportEdit(Cardinality(Imported))
          [] AtStep = "erase-segment" -> EraseEdit({drv.victim})
          [] AtStep = "attach-segment" -> AttachEdit
          [] OTHER -> NoEdit
Segments == {"segment", "import-segment", "erase-segment", "attach-segment", "census-segment"}
Reading == /\ AtStep \in Segments \union {"baseline"}
           /\ Read \/ ReadAgain
           /\ UNCHANGED <<rung, defect, host, disk, drv, declared, baseline>>
Baseline == /\ AtStep = "baseline" /\ Settled /\ Keep(ledger.now) /\ Go
            /\ baseline' = ledger.now /\ declared' = NoEdit /\ UNCHANGED <<rung, defect, host, disk>>
(* A violation, or a directory that does not come to rest, fails the rung; *)
(* the clone rung keeps it as a problem, and quits first.                  *)
Problem == IF rung = "clone" THEN drv' = [drv EXCEPT !.at = @ + 1, !.problems = TRUE] ELSE Raise("fail")
Segment == /\ AtStep \in Segments /\ Settled /\ Keep(ledger.now)
           /\ IF SegmentIs(Edit) THEN Go ELSE Problem
           /\ declared' = [rows |-> declared.rows + Edit.rows, erased |-> declared.erased \union Edit.erased]
           /\ UNCHANGED <<rung, defect, host, disk, baseline>>
NotQuiesced == /\ AtStep \in Segments /\ WholeRead /\ ~Settled
               /\ ledger' = [LedgerInit EXCEPT !.started = TRUE, !.last = ledger.last] /\ Problem
               /\ UNCHANGED <<host, disk>>
(* quit_zotero(), and the last diff, over a directory at rest. *)
Quit == /\ AtStep = "quit"
        /\ host' = [host EXCEPT !.zotero = "off"] /\ Go /\ UNCHANGED <<disk, ledger>>
QuitSegment == /\ AtStep = "quit-segment" /\ rung = "clone" /\ Keep(disk)
               /\ drv' = [drv EXCEPT !.at = @ + 1, !.problems = @ \/ ~Clean(ledger.last, disk, NoEdit)]
               /\ UNCHANGED <<host, disk>>

(* The finally of the run, then main(): what the exit code says. *)
SmokeCode == CASE drv.raised = None -> 0
               [] drv.raised = "usage" -> 2
               [] drv.raised = "not-run" -> 3
               [] OTHER -> 1
CloneCode == CASE drv.raised = None -> (IF drv.problems THEN 1 ELSE 0)
               [] drv.raised = "usage" -> 2
               [] drv.raised = "not-run" -> 3
               [] OTHER -> 1
MenagerieCode == CASE drv.raised = None -> 0
                   [] drv.raised \in {"not-run", "usage"} -> 2
                   [] drv.raised = "timeout" -> 3
                   [] OTHER -> 1
Code == [smoke |-> SmokeCode, clone |-> CloneCode, menagerie |-> MenagerieCode]
StopZotero == [host EXCEPT !.zotero = "off"]
Close == /\ AtStep = "close" /\ drv.exit = Running
         /\ host' = StopZotero
         /\ drv' = [drv EXCEPT !.exit = Code[rung]] /\ UNCHANGED <<disk, ledger>>

Drive == \/ Reading \/ Baseline \/ Segment
         \/ Unmoved /\ (\/ HostGone \/ Misused \/ Pinned \/ Preflight \/ Payload \/ Profile \/ Launch \/ ReachZotero
                        \/ Ready \/ Overdue \/ NoTranslator \/ StillWorking \/ Install \/ Armed
                        \/ Import \/ Census \/ ForcedRetry \/ Refused \/ Prepared
                        \/ MenagerieSettles \/ CloneSettles \/ SwitchOff \/ Mark \/ Held \/ SwitchOn
                        \/ Account \/ CheckPacks \/ Pick \/ Erase \/ Gone \/ Attach \/ Back
                        \/ Uninstall \/ Residue \/ NotQuiesced \/ Quit \/ QuitSegment \/ Close)
RungsNext == Host \/ Drive
RungsSpec == RungsInit /\ [][RungsNext]_rungVars
-----------------------------------------------------------------------------
(* A rung that passes has seen the whole window: between its baseline and  *)
(* its last snapshot nothing moved but what is permitted and what its      *)
(* segments declared, in all, although each was judged on its own and the  *)
(* host never stopped writing.                                             *)
PassAccountsForStores ==
  drv.exit = 0 => Clean(baseline, ledger.last, declared)

(* The Menagerie rung passes only when every attachment it imported or put *)
(* back ended with a pack or a reason not to have one, and the add-on left *)
(* nothing behind.                                                         *)
MenagerieComplete ==
  rung = "menagerie" /\ drv.exit = 0 =>
    /\ host.docs \ host.odd \subseteq disk.packs
    /\ ~host.cache

(* What an exit of 0 may be relied on for: of each rung that the stores    *)
(* moved by nothing undeclared, and of the Menagerie that it is whole.     *)
RungsSound == PassAccountsForStores /\ MenagerieComplete
=============================================================================
