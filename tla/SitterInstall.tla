----------------------------- MODULE SitterInstall -----------------------------
(***************************************************************************)
(* Two experiments on a Zotero the sitter is installed in.                 *)
(*                                                                         *)
(* bench/sitter_clone_data.py copies the data directory for a rung, or     *)
(* refuses: Zotero, which writes it, may start and quit at any step, and   *)
(* is looked for, by its name and by its profile lock, before the copy and *)
(* after it.                                                               *)
(*                                                                         *)
(* bench/sitter_pending_uninstall_arm.py asks whether an install is lost   *)
(* to an uninstall of the same add-on that was queued before it, and has a *)
(* control arm, which differs by that uninstall alone.  Left out are the   *)
(* debugger client (RdpClient) and what is printed along the way.          *)
(***************************************************************************)
EXTENDS Integers, Sequences, FiniteSets

CONSTANTS Files,    \* of the data directory
          Launches, \* bound: times Zotero is started
          Writes,   \* bound: files it writes
          Copies,   \* bound: invocations of the recipe, on one destination
          Dwell     \* bound: looks at the add-on before the restart

VARIABLES zotero,   \* the author's: whether it runs, under what name, its lock, its library
          copy,     \* the recipe
          profile,  \* the rig's host: its add-on, and the operation it has queued
          rig       \* the arm under way, and what the arms have shown
cloneVars == <<zotero, copy>>
armVars == <<profile, rig>>

-----------------------------------------------------------------------------
(* Zotero.  It takes its lock before it writes, and may leave it behind.   *)
CloneInit ==
  /\ \E listed \in BOOLEAN, lock \in {"none", "stale"} :
       zotero = [run |-> "off", listed |-> listed, lock |-> lock, launches |-> 0,
                 writes |-> 0, library |-> [f \in Files |-> 0]]
  /\ copy = [pc |-> "idle", dest |-> <<>>, kept |-> "none", taken |-> <<>>,
             left |-> FALSE, invocations |-> 0]

ZoteroStarts == /\ zotero.run = "off" /\ zotero.launches < Launches
          /\ zotero' = [zotero EXCEPT !.run = "starting", !.launches = @ + 1]
          /\ UNCHANGED copy
ZoteroLocks == /\ zotero.run = "starting"
        /\ zotero' = [zotero EXCEPT !.run = "on", !.lock = "live"]
        /\ UNCHANGED copy
ZoteroWrites(f) == /\ zotero.run = "on" /\ zotero.writes < Writes
            /\ zotero' = [zotero EXCEPT !.library[f] = @ + 1, !.writes = @ + 1]
            /\ UNCHANGED copy
ZoteroQuits(lock) == /\ zotero.run = "on"
              /\ zotero' = [zotero EXCEPT !.run = "off", !.lock = lock]
              /\ copy' = [copy EXCEPT !.left = TRUE]

(* clone_data().  The destination must not exist; nothing is on it that an *)
(* invocation did not leave.                                               *)
Declined == copy' = [copy EXCEPT !.pc = "idle"]
Clone ==
  /\ copy.pc = "idle" /\ copy.kept = "none" /\ copy.invocations < Copies
  /\ copy' = [copy EXCEPT !.pc = IF DOMAIN copy.dest = {} THEN "ps before" ELSE "idle",
                          !.invocations = @ + 1]
  /\ UNCHANGED zotero

(* _refuse_if_running(): the process list, by name, which may not be       *)
(* readable; then the locks, of which one is live when its process is.     *)
(* rmtree() of what was copied ignores its errors.                         *)
RemoveCopy == \E kept \in SUBSET DOMAIN copy.dest :
                copy' = [copy EXCEPT !.pc = "idle", !.dest = [f \in kept |-> copy.dest[f]]]
Listed == zotero.listed /\ zotero.run # "off"
ReadProcesses ==
  /\ copy.pc \in {"ps before", "ps after"}
  /\ \/ copy.pc = "ps before" /\ Declined
     \/ copy.pc = "ps after" /\ RemoveCopy
     \/ /\ ~Listed
        /\ copy' = [copy EXCEPT !.pc = IF @ = "ps before" THEN "locks before" ELSE "locks after"]
  /\ UNCHANGED zotero
ReadLocks ==
  /\ copy.pc \in {"locks before", "locks after"}
  /\ IF zotero.lock = "live"
     THEN IF copy.pc = "locks before" THEN Declined ELSE RemoveCopy
     ELSE copy' = IF copy.pc = "locks before"
                  THEN [copy EXCEPT !.pc = "prepare", !.taken = zotero.library, !.left = FALSE]
                  ELSE [copy EXCEPT !.pc = "idle", !.kept = "copied"]
  /\ UNCHANGED zotero

(* One device, and room enough, or no copy; then file by file, in an order *)
(* of cp's own, which may fail.                                            *)
Prepare == /\ copy.pc = "prepare"
           /\ Declined \/ copy' = [copy EXCEPT !.pc = "copying"]
           /\ UNCHANGED zotero
CopyFile(f) ==
  /\ copy.pc = "copying" /\ f \notin DOMAIN copy.dest
  /\ copy' = [copy EXCEPT !.dest = [g \in DOMAIN @ \cup {f} |-> IF g = f THEN zotero.library[f] ELSE @[g]]]
  /\ UNCHANGED zotero
CopyEnds == /\ copy.pc = "copying"
            /\ \/ DOMAIN copy.dest = Files /\ copy' = [copy EXCEPT !.pc = "ps after"]
               \/ RemoveCopy
            /\ UNCHANGED zotero
CopyKilled == copy.pc # "idle" /\ Declined /\ UNCHANGED zotero

CloneNext ==
  \/ ZoteroStarts \/ ZoteroLocks \/ \E lock \in {"none", "stale"} : ZoteroQuits(lock)
  \/ \E f \in Files : ZoteroWrites(f) \/ CopyFile(f)
  \/ Clone \/ ReadProcesses \/ ReadLocks \/ Prepare \/ CopyEnds \/ CopyKilled

-----------------------------------------------------------------------------
(* The host of an arm, external.  It loses an add-on at a restart that was *)
(* installed over another, or to an uninstall queued before the install,   *)
(* then or sooner, or it does neither.                                     *)
Labels == <<"control", "arm">>
NoArm == [present |-> "unread", failed |-> {}]
ArmInit ==
  /\ \E fault \in {"none", "replacement", "queue"} :
       profile = [fault |-> fault, addon |-> FALSE, queued |-> FALSE, replaced |-> FALSE]
  /\ rig = [pc |-> "seed", arm |-> 1, looks |-> 0, shown |-> [a \in 1..2 |-> NoArm], verdict |-> "none"]

Label == Labels[rig.arm]
To(pc) == rig' = [rig EXCEPT !.pc = pc]
GoesOn(step, pc) == rig' = [rig EXCEPT !.pc = pc, !.shown[rig.arm].failed = @ \cup {step}]

(* one_arm(): a profile of its own, launched; a launch, or a reply, that   *)
(* does not come ends both arms.                                           *)
Seed == /\ rig.pc = "seed"
        /\ profile' = [profile EXCEPT !.addon = FALSE, !.queued = FALSE, !.replaced = FALSE]
        /\ To("install 1")
ArmRaises == rig.pc \notin {"done", "verdict"} /\ To("done") /\ UNCHANGED profile

(* install_or_replace_code(), and stage_uninstall_code(): each reports     *)
(* that it failed, and the arm goes on.  An install cancels what is queued *)
(* unless that is the host's fault.                                        *)
AfterInstall == IF rig.pc = "install 2" THEN "dwell" ELSE IF Label = "arm" THEN "stage" ELSE "install 2"
InstallOrReplace ==
  /\ rig.pc \in {"install 1", "install 2"}
  /\ \/ /\ profile' = [profile EXCEPT !.addon = TRUE, !.replaced = profile.addon,
                                      !.queued = @ /\ profile.fault = "queue"]
        /\ To(AfterInstall)
     \/ GoesOn(rig.pc, AfterInstall) /\ UNCHANGED profile
StageUninstall ==
  /\ rig.pc = "stage"
  /\ \/ profile.addon /\ profile' = [profile EXCEPT !.queued = TRUE] /\ To("install 2")
     \/ GoesOn("stage", "install 2") /\ UNCHANGED profile
Erases == /\ rig.pc = "dwell" /\ profile.queued /\ profile.addon
          /\ profile' = [profile EXCEPT !.addon = FALSE, !.queued = FALSE]
          /\ UNCHANGED rig

(* The dwell ends early when the add-on is not seen; presence_code() that  *)
(* fails has not seen it either.                                           *)
Seen == IF profile.addon THEN "yes" ELSE "no"
LookDwelling ==
  /\ rig.pc = "dwell"
  /\ \E seen \in {Seen, "unread"} :
       rig' = [rig EXCEPT !.looks = @ + 1,
                          !.pc = IF seen # "yes" \/ rig.looks + 1 >= Dwell THEN "restart" ELSE "dwell"]
  /\ UNCHANGED profile
Restart ==
  /\ rig.pc = "restart"
  /\ profile' = [profile EXCEPT !.queued = FALSE,
                                !.addon = @ /\ ~profile.queued
                                            /\ ~(profile.replaced /\ profile.fault = "replacement")]
  /\ To("after")
LookAfter ==
  /\ rig.pc = "after"
  /\ \E seen \in {Seen, "unread"} :
       rig' = [rig EXCEPT !.shown[rig.arm].present = seen, !.looks = 0,
                          !.arm = IF @ = 1 THEN 2 ELSE @,
                          !.pc = IF rig.arm = 1 THEN "seed" ELSE "verdict"]
  /\ UNCHANGED profile

(* main(): the control first. *)
ReproducedUncontrolled ==
  IF rig.shown[2].present = "no" THEN "REPRODUCED"
  ELSE IF rig.shown[1].present # "yes" THEN "NOT-ESTABLISHED" ELSE "NOT REPRODUCED"
Reproduced ==
  IF rig.shown[1].present = "yes" /\ rig.shown[2].present = "no" THEN "REPRODUCED"
  ELSE IF rig.shown[1].present # "yes" THEN "NOT-ESTABLISHED" ELSE "NOT REPRODUCED"
Conclude == /\ rig.pc = "verdict"
            /\ rig' = [rig EXCEPT !.pc = "done", !.verdict = Reproduced]
            /\ UNCHANGED profile

ArmNext == \/ Seed \/ ArmRaises \/ InstallOrReplace \/ StageUninstall \/ Erases
           \/ LookDwelling \/ Restart \/ LookAfter \/ Conclude

InstallInit == CloneInit /\ ArmInit
InstallNext == \/ CloneNext /\ UNCHANGED armVars
               \/ ArmNext /\ UNCHANGED cloneVars
InstallSpec == InstallInit /\ [][InstallNext]_<<cloneVars, armVars>>

-----------------------------------------------------------------------------
(* A copy that is recorded is the library as it was when Zotero was last   *)
(* seen not to run, whatever an earlier invocation left behind, unless     *)
(* Zotero came and went between the two looks.                             *)
KeptCopyIsWhole == copy.kept = "copied" => copy.dest = copy.taken \/ copy.left

(* The rig lays a loss to the queued uninstall only on a host that has that *)
(* fault, or where the arm's second install failed, so that the uninstall  *)
(* was right to take, or where the control never replaced what it          *)
(* installed, on a host that loses replacements; and it clears a host that *)
(* has the fault only where the uninstall was never queued, or no answer   *)
(* came after the restart.  Those are all the ways a failed step, which    *)
(* the verdict does not look at, can mislead it.                           *)
BlamesTheFault ==
  /\ rig.verdict = "REPRODUCED" =>
       \/ profile.fault = "queue"
       \/ "install 2" \in rig.shown[2].failed
       \/ profile.fault = "replacement" /\ rig.shown[1].failed # {}
  /\ rig.verdict = "NOT REPRODUCED" =>
       \/ profile.fault # "queue"
       \/ rig.shown[2].present = "unread"
       \/ "stage" \in rig.shown[2].failed

(* Both experiments show what they say. *)
ShowsWhatItSays == KeptCopyIsWhole /\ BlamesTheFault
=============================================================================
