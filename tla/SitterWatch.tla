----------------------------- MODULE SitterWatch -----------------------------
(***************************************************************************)
(* bench/sitter_volume_experiment.py under bench/sitter_watch.py: a driver *)
(* installs, replaces, disables and removes the sitter in a running        *)
(* Zotero, cycle after cycle, while the watcher's thread reads the host's  *)
(* record of its add-ons (bench/host_addon_record.py) for the sitter       *)
(* disappearing on its own.                                                *)
(*                                                                         *)
(* Two clocks: the add-on manager acts at once and writes its record       *)
(* later.  What the versions, the intervals and the active flag are, is    *)
(* left out: the watcher judges presence.  A setup is what the run was     *)
(* given: a library (none, one without its bytes, a whole one), whether    *)
(* the profile and the data directory are nobody's, and what was allowed.  *)
(* Cycles bounds the plan.                                                 *)
(***************************************************************************)
EXTENDS Naturals

CONSTANT Cycles

VARIABLES zotero,    \* whether it runs
          addon,     \* whether the add-on manager holds the sitter
          record,    \* extensions.json: present, absent or unreadable
          lost,      \* the sitter has gone without being removed
          watcher,   \* the watcher's thread
          expected,  \* an absence is expected
          kept,      \* evidence was kept
          gone,      \* the event "disappearance"
          driver     \* the driver: where it is, its cycle and its exit code

watchVars == <<zotero, addon, record, lost, watcher, expected, kept, gone, driver>>
watchedVars == <<zotero, addon, record, lost>>

Actions == {"replace", "replace-disable-enable", "replace-disable-immediately",
            "uninstall-then-install", "replace-twice"}
Unset == 9

Setups == [library : {"none", "no bytes", "whole"}, fresh : BOOLEAN,
           allowed : SUBSET {"empty library", "dead sitter"}]

(* A new profile has no record yet. *)
WatchInit == /\ zotero = FALSE /\ addon = FALSE /\ record = "unreadable" /\ lost = FALSE
             /\ watcher = [at |-> "off", seen |-> "none", was |-> FALSE]
             /\ expected = FALSE /\ kept = FALSE /\ gone = FALSE
             /\ \E setup \in Setups :
                  driver = [at |-> "start", setup |-> setup, cycle |-> 0, action |-> "none",
                            exit |-> Unset]

-----------------------------------------------------------------------------
(* The host writes its record behind its own back, and may lose an add-on. *)
Flush == /\ zotero /\ record' = (IF addon THEN "present" ELSE "absent")
         /\ UNCHANGED <<zotero, addon, lost, watcher, expected, kept, gone, driver>>
Loses == /\ zotero /\ addon /\ ~lost
         /\ addon' = FALSE /\ lost' = TRUE
         /\ UNCHANGED <<zotero, record, watcher, expected, kept, gone, driver>>
Tears == /\ zotero /\ record' = "unreadable"
         /\ UNCHANGED <<zotero, addon, lost, watcher, expected, kept, gone, driver>>
-----------------------------------------------------------------------------
(* poll_once(): the record is read, and what was expected is looked up     *)
(* after that, under the lock.  An unreadable record is not an absence and *)
(* leaves what was there as it was.                                        *)
PollRead == /\ watcher.at = "idle" /\ driver.exit = Unset
            /\ watcher' = IF record = "unreadable" THEN watcher
                                                   ELSE [watcher EXCEPT !.at = "judge", !.seen = record]
            /\ UNCHANGED <<watchedVars, expected, kept, gone, driver>>
Vanished == watcher.was /\ watcher.seen = "absent"
Excused == expected
PollJudge == /\ watcher.at = "judge"
             /\ watcher' = [watcher EXCEPT !.was = watcher.seen = "present", !.seen = "none",
                              !.at = IF ~Vanished THEN "idle"
                                     ELSE IF Excused THEN "excused" ELSE "evidence"]
             /\ UNCHANGED <<watchedVars, expected, kept, gone, driver>>
(* preserve(): the evidence is kept before the alert is given, and also    *)
(* when there is none to give.                                             *)
Preserve == /\ watcher.at \in {"excused", "evidence"}
            /\ kept' = TRUE
            /\ watcher' = [watcher EXCEPT !.at = IF @ = "evidence" THEN "alert" ELSE "idle"]
            /\ UNCHANGED <<watchedVars, expected, gone, driver>>
Alert == /\ watcher.at = "alert"
         /\ gone' = TRUE /\ watcher' = [watcher EXCEPT !.at = "idle"]
         /\ UNCHANGED <<watchedVars, expected, kept, driver>>
-----------------------------------------------------------------------------
(* The driver. *)
At(place) == driver' = [driver EXCEPT !.at = place]
Holds(state) == addon' = state /\ UNCHANGED <<zotero, record, lost>>

Fails == driver' = [driver EXCEPT !.at = "finally", !.exit = 1]
Allowed(what) == what \in driver.setup.allowed

(* main(): what would watch an idle add-on, or somebody's own library, is  *)
(* refused before anything is started.                                     *)
Refused == \/ driver.setup.library = "none" /\ ~Allowed("empty library")
           \/ driver.setup.library = "no bytes"
           \/ ~driver.setup.fresh
Refuses == /\ driver.at = "start" /\ Refused
           /\ driver' = [driver EXCEPT !.at = "exited", !.exit = 2]
           /\ UNCHANGED <<watchedVars, watcher, expected, kept, gone>>
Launch == /\ driver.at = "start" /\ ~Refused
          /\ zotero' = TRUE /\ At("attach")
          /\ UNCHANGED <<addon, record, lost, watcher, expected, kept, gone>>
Attach == /\ driver.at = "attach"
          /\ watcher' = [watcher EXCEPT !.at = "idle"] /\ At("import")
          /\ UNCHANGED <<watchedVars, expected, kept, gone>>
Import == /\ driver.at = "import"
          /\ At("first") \/ (driver.setup.library = "whole" /\ Fails)
          /\ UNCHANGED <<watchedVars, watcher, expected, kept, gone>>
(* eval_action(): a call that reports a failure changes nothing and is     *)
(* only logged.                                                            *)
Attempted(state) == Holds(state) \/ UNCHANGED watchedVars
FirstInstall == /\ driver.at = "first"
                /\ Attempted(TRUE) /\ At("alive") /\ UNCHANGED <<watcher, expected, kept, gone>>
(* Liveness: a sitter that is not there cannot answer, one that is may not *)
(* have begun; cycling over a dead one has to be allowed.                  *)
CanAnswer == addon \/ lost
Liveness == /\ driver.at = "alive"
            /\ \/ /\ CanAnswer \/ Allowed("dead sitter")
                  /\ At(IF driver.cycle = 0 THEN "next" ELSE "restart")
               \/ ~Allowed("dead sitter") /\ Fails
            /\ UNCHANGED <<watchedVars, watcher, expected, kept, gone>>
(* The loop of main(): the plan ends with its cycles, with its deadline,   *)
(* or with a disappearance.                                                *)
NextCycle == /\ driver.at = "next" /\ ~gone /\ driver.cycle < Cycles
             /\ \E action \in Actions :
                  driver' = [driver EXCEPT !.action = action, !.cycle = @ + 1,
                               !.at = IF action = "uninstall-then-install" THEN "expect" ELSE "install"]
             /\ UNCHANGED <<watchedVars, watcher, expected, kept, gone>>
PlanEnds == /\ driver.at = "next"
            /\ driver' = [driver EXCEPT !.at = "finally", !.exit = IF gone THEN 3 ELSE 0]
            /\ UNCHANGED <<watchedVars, watcher, expected, kept, gone>>

(* run_action(): every action but one installs over what is there; the     *)
(* disabling and enabling after it leave the add-on.  Liveness is looked   *)
(* at again after all but a plain replacement.                             *)
Settled == IF driver.action = "replace" THEN "restart" ELSE "alive"
Install == /\ driver.at = "install"
           /\ \/ /\ Holds(TRUE)
                 /\ At(IF driver.action = "uninstall-then-install" THEN "alive" ELSE "rest")
              \/ UNCHANGED watchedVars /\ At(Settled)
           /\ UNCHANGED <<watcher, expected, kept, gone>>
Rest == /\ driver.at = "rest"
        /\ At(IF driver.action = "replace-twice" THEN "second" ELSE Settled)
        /\ UNCHANGED <<watchedVars, watcher, expected, kept, gone>>
InstallAgain == /\ driver.at = "second" /\ Attempted(TRUE) /\ At("alive")
                /\ UNCHANGED <<watcher, expected, kept, gone>>
(* expect_absence(): the window is closed before the add-on is put back,   *)
(* and closing it takes a record that is still absent for a loss.          *)
Expect == /\ driver.at = "expect" /\ expected' = TRUE /\ At("uninstall")
          /\ UNCHANGED <<watchedVars, watcher, kept, gone>>
Uninstall == /\ driver.at = "uninstall" /\ Attempted(FALSE) /\ At("hold")
             /\ UNCHANGED <<watcher, expected, kept, gone>>
WindowCloses == /\ driver.at = "hold" /\ expected' = FALSE /\ At("closed")
                /\ UNCHANGED <<watchedVars, watcher, kept, gone>>
StillAbsent == record = "absent"
LookBehind == IF StillAbsent THEN kept' = TRUE /\ gone' = TRUE ELSE UNCHANGED <<kept, gone>>
Closed == /\ driver.at = "closed" /\ At(IF driver.action = "none" THEN "next" ELSE "install")
          /\ LookBehind
          /\ UNCHANGED <<watchedVars, watcher, expected>>
(* A cycle that loses its debugger is given up, by way of the window's end *)
(* if it was open, and the plan goes on.                                   *)
LosesDebugger == /\ driver.at \in {"install", "rest", "second", "uninstall", "alive", "restart"}
                 /\ driver.cycle > 0
                 /\ driver' = [driver EXCEPT !.action = "none",
                                            !.at = IF @ = "uninstall" THEN "hold" ELSE "next"]
                 /\ UNCHANGED <<watchedVars, watcher, expected, kept, gone>>

(* --restart-every: the manager writes its record as it stops, and the     *)
(* watcher stays armed.                                                    *)
Restart == /\ driver.at = "restart"
           /\ \/ UNCHANGED watchedVars
              \/ record' = (IF addon THEN "present" ELSE "absent") /\ UNCHANGED <<zotero, addon, lost>>
           /\ At("next") /\ UNCHANGED <<watcher, expected, kept, gone>>
(* A signal, or an error nobody expected, ends the run from anywhere, and  *)
(* ends a window that is open.                                             *)
Ended == /\ driver.exit = Unset /\ driver.at # "start"
         /\ \E code \in {1, 130} : driver' = [driver EXCEPT !.at = "finally", !.exit = code]
         /\ expected' = FALSE
         /\ IF expected THEN LookBehind ELSE UNCHANGED <<kept, gone>>
         /\ UNCHANGED <<watchedVars, watcher>>
(* The finally: the watcher is joined for ten seconds and left there. *)
StopAll == /\ driver.at = "finally"
           /\ zotero' = FALSE /\ watcher' = [watcher EXCEPT !.at = "off"] /\ At("exited")
           /\ UNCHANGED <<addon, record, lost, expected, kept, gone>>

WatchNext == \/ Flush \/ Loses \/ Tears
             \/ PollRead \/ PollJudge \/ Preserve \/ Alert
             \/ Refuses \/ Launch \/ Attach \/ Import \/ Liveness \/ LosesDebugger
             \/ FirstInstall \/ NextCycle \/ PlanEnds \/ Install \/ Rest \/ InstallAgain
             \/ Expect \/ Uninstall \/ WindowCloses \/ Closed \/ Restart \/ Ended \/ StopAll
WatchSpec == WatchInit /\ [][WatchNext]_watchVars
-----------------------------------------------------------------------------
(* The instrument cannot manufacture the signature it is watching for      *)
(* (verification/SDT-SITTER-DISAPPEARANCE-0727.md): a run says REPRODUCED, *)
(* and ends with 3, only when the host lost the add-on by itself.          *)
NothingManufactured == driver.exit = 3 => lost
=============================================================================
