------------------------------ MODULE RedState ------------------------------
(***************************************************************************)
(* bench/redstate.py and the drive it starts, bench/golden_run.py: break   *)
(* one mechanism of the product at a time, in the one checkout every arm   *)
(* shares, drive the question bank through the broken build and put the    *)
(* checkout back.  Any program the harness starts may fail, the ones that  *)
(* put things back too, and nothing outlives a run but what it wrote.      *)
(*                                                                         *)
(* A build is the set of the patches it was made with, a bundle names the  *)
(* build it was measured on and the arm block it carries.  What a question *)
(* scores is left to GoldenScore.  Invocations bounds the commands given.  *)
(***************************************************************************)
EXTENDS Naturals, Sequences

CONSTANTS ARMS,      \* arm -> [kind, control, runnable, patches]
          Invocations
ASSUME ArmsAssumption ==
  /\ Invocations \in Nat
  /\ \A a \in DOMAIN ARMS :
       /\ ARMS[a].kind \in {"build", "reply"}
       /\ ARMS[a].patches \in Seq({ARMS[a].patches[i] : i \in DOMAIN ARMS[a].patches})

VARIABLES fork,        \* the checkout: patches in src, and in the build of it
          indexed,     \* arms whose index directory is not empty
          artifacts,   \* arm -> the files in its output directory
          invocation,  \* the command under way and where it stands
          given        \* how many commands were given

redVars == <<fork, indexed, artifacts, invocation, given>>

Patches(a) == {ARMS[a].patches[i] : i \in 1..Len(ARMS[a].patches)}
Absent == [of |-> {}, arm |-> "absent"]
NoDelta == [of |-> Absent, against |-> Absent]
CommittedReplies == [of |-> {}, arm |-> "none"]      \* the committed replies
NotBuilt == {"not built"}
Quiet == [op |-> "none", at |-> "over", left |-> <<>>, bundle |-> Absent,
          applied |-> 0, failed |-> FALSE, torn |-> FALSE, exit |-> 0]
Arm == Head(invocation.left)
StandsAt(step) == invocation.at = step
Goes(step) == invocation' = [invocation EXCEPT !.at = step]

RedInit ==
  /\ fork \in {[src |-> {}, dist |-> built] : built \in {{}, NotBuilt}}
  /\ indexed = {}
  /\ artifacts = [a \in DOMAIN ARMS |->
       [raw |-> Absent, gz |-> Absent, report |-> Absent,
        delta |-> NoDelta, notRun |-> "none"]]
  /\ invocation = Quiet /\ given = 0

(* run or run --rescore over some arms; the inputs are read and the        *)
(* baseline scored before the first arm, or the command ends with 2.       *)
Give(op, arms) ==
  /\ StandsAt("over") /\ given < Invocations /\ given' = given + 1
  /\ LET new == [Quiet EXCEPT !.op = op, !.torn = invocation.torn]
     IN invocation' \in {[new EXCEPT !.at = "arm", !.left = arms], [new EXCEPT !.exit = 2]}
  /\ UNCHANGED <<fork, indexed, artifacts>>

NextArm ==
  [invocation EXCEPT !.left = Tail(@), !.bundle = Absent, !.applied = 0,
                     !.at = IF Tail(invocation.left) = <<>> THEN "over" ELSE "arm"]

(* The delta goes before the record of an arm that did not run is written. *)
WriteNotRun(why) ==
  /\ artifacts' = [artifacts EXCEPT ![Arm].delta = NoDelta, ![Arm].notRun = why]
  /\ invocation' = NextArm
  /\ UNCHANGED <<fork, indexed, given>>

(* A plain replies.json is preferred to the compressed one beside it. *)
ReadJson(files) == IF files.raw # Absent THEN files.raw ELSE files.gz

Rescore ==
  /\ StandsAt("arm") /\ invocation.op = "rescore" /\ ARMS[Arm].runnable
  /\ IF artifacts[Arm].gz = Absent THEN WriteNotRun("build")
     ELSE /\ invocation' = [invocation EXCEPT !.at = "score",
                                              !.bundle = ReadJson(artifacts[Arm])]
          /\ UNCHANGED <<fork, indexed, artifacts, given>>

Declared == StandsAt("arm") /\ ~ARMS[Arm].runnable /\ WriteNotRun("declared")

StampArm(bundle) == [bundle EXCEPT !.arm = Arm]
ReplyArm ==
  /\ StandsAt("arm") /\ invocation.op = "run" /\ ARMS[Arm].runnable /\ ARMS[Arm].kind = "reply"
  /\ invocation' = [invocation EXCEPT !.at = "score", !.bundle = StampArm(CommittedReplies)]
  /\ UNCHANGED <<fork, indexed, artifacts, given>>

(* An exception ends the command; inside the try the cleanup comes first. *)
Dies == invocation' = [Quiet EXCEPT !.exit = 1, !.torn = invocation.torn]
Raises ==
  invocation' = [invocation EXCEPT
                   !.failed = TRUE, !.at = IF Patches(Arm) = {} THEN "died" ELSE "revert"]
Died == StandsAt("died") /\ Dies /\ UNCHANGED <<fork, indexed, artifacts, given>>

BuildArm ==
  /\ StandsAt("arm") /\ invocation.op = "run" /\ ARMS[Arm].runnable /\ ARMS[Arm].kind = "build"
  /\ \/ WriteNotRun("build") /\ fork.dist = NotBuilt
     \/ /\ fork.dist # NotBuilt
        /\ \/ Dies                              \* git rev-parse, or a directory not empty
           \/ Arm \notin indexed /\ Goes("patch")
        /\ UNCHANGED <<fork, indexed, artifacts, given>>

(* Each patch is written before the next is looked for, and must be in the *)
(* source exactly once.                                                    *)
ApplyPatch ==
  /\ StandsAt("patch") /\ invocation.applied < Len(ARMS[Arm].patches)
  /\ LET p == ARMS[Arm].patches[invocation.applied + 1] IN
     \/ /\ p \notin fork.src
        /\ fork' = [fork EXCEPT !.src = @ \union {p}]
        /\ invocation' = [invocation EXCEPT !.applied = @ + 1]
     \/ Raises /\ UNCHANGED fork               \* the anchor moved, or is patched already
  /\ UNCHANGED <<indexed, artifacts, given>>

(* A compiler that finds an error may have written its output all the same. *)
Compiles == fork' = [fork EXCEPT !.dist = fork.src]
BuildFails == fork' = fork \/ Compiles

NpmBuild ==
  /\ StandsAt("patch") /\ invocation.applied = Len(ARMS[Arm].patches)
  /\ \/ Compiles /\ Goes("index")
     \/ BuildFails /\ Raises
  /\ UNCHANGED <<indexed, artifacts, given>>

(* golden_run.py: the index is built through the replay, then every        *)
(* question asked of the same build; the replies are written when all are  *)
(* answered, and a refusal in between leaves only the index behind.        *)
BuildIndex ==
  /\ StandsAt("index")
  /\ \/ indexed' = indexed \union {Arm} /\ Goes("ask")
     \/ indexed' \in {indexed, indexed \union {Arm}} /\ Raises
  /\ UNCHANGED <<fork, artifacts, given>>

DriveQueries ==
  /\ StandsAt("ask")
  /\ \/ Raises /\ UNCHANGED artifacts
     \/ /\ artifacts' = [artifacts EXCEPT ![Arm].raw = [of |-> fork.dist, arm |-> "none"]]
        /\ Goes(IF Patches(Arm) = {} THEN "read" ELSE "revert")
  /\ UNCHANGED <<fork, indexed, given>>

(* finally: the source back, then the build; each may fail, and what it    *)
(* raises is then what the command dies of.                                *)
RevertOnSuccess ==
  /\ StandsAt("revert")
  /\ \/ invocation.failed /\ Goes("died") /\ UNCHANGED fork
     \/ ~invocation.failed /\ fork' = [fork EXCEPT !.src = {}] /\ Goes("rebuild")
  /\ UNCHANGED <<indexed, artifacts, given>>
RevertPatches ==
  /\ StandsAt("revert")
  /\ \/ fork' = [fork EXCEPT !.src = {}] /\ Goes("rebuild")
     \/ UNCHANGED fork /\ invocation' = [invocation EXCEPT !.at = "died", !.torn = TRUE]
  /\ UNCHANGED <<indexed, artifacts, given>>

Rebuild ==
  /\ StandsAt("rebuild")
  /\ \/ /\ Compiles
        /\ invocation' = [invocation EXCEPT
                            !.at = IF invocation.failed THEN "died" ELSE "read",
                            !.torn = FALSE]
     \/ BuildFails /\ invocation' = [invocation EXCEPT !.at = "died", !.torn = TRUE]
  /\ UNCHANGED <<indexed, artifacts, given>>

ReadReplies ==
  /\ StandsAt("read")
  /\ invocation' = [invocation EXCEPT !.at = "score",
                                      !.bundle = StampArm(artifacts[Arm].raw)]
  /\ UNCHANGED <<fork, indexed, artifacts, given>>

(* A build arm is set against the build control, where one has been run. *)
Reference ==
  IF /\ ARMS[Arm].kind = "build" /\ ~ARMS[Arm].control
     /\ artifacts["control-build"].report # Absent
  THEN artifacts["control-build"].report ELSE CommittedReplies

(* Scored by the gate, written, the plain file removed, then the delta. *)
ScoreBundle ==
  /\ StandsAt("score")
  /\ \/ /\ artifacts' = [artifacts EXCEPT ![Arm].gz = invocation.bundle, ![Arm].report = invocation.bundle,
                                ![Arm].raw = Absent]
        /\ Goes("delta")
     \/ Dies /\ UNCHANGED artifacts                 \* replies the gate refuses
  /\ UNCHANGED <<fork, indexed, given>>

WriteDelta ==
  /\ StandsAt("delta")
  /\ artifacts' = [artifacts EXCEPT
                     ![Arm].delta = [of |-> invocation.bundle, against |-> Reference],
                     ![Arm].notRun = "none"]
  /\ invocation' = NextArm
  /\ UNCHANGED <<fork, indexed, given>>

(* read: a delta speaks before a record of not having run; with neither    *)
(* for any arm there is nothing to read.                                   *)
Matrix == [a \in DOMAIN ARMS |->
  IF artifacts[a].delta # NoDelta THEN "ran"
  ELSE IF artifacts[a].notRun # "none" THEN artifacts[a].notRun ELSE "no-artifact"]
CmdRead ==
  /\ StandsAt("over") /\ given < Invocations /\ given' = given + 1
  /\ invocation' = [Quiet EXCEPT
                      !.op = "read", !.torn = invocation.torn,
                      !.exit = IF \A a \in DOMAIN ARMS : Matrix[a] = "no-artifact" THEN 3 ELSE 0]
  /\ UNCHANGED <<fork, indexed, artifacts>>

(* Between commands the operator empties an index directory. *)
EmptyDataDir(a) == /\ StandsAt("over") /\ a \in indexed /\ indexed' = indexed \ {a}
                   /\ UNCHANGED <<fork, artifacts, invocation, given>>

RedNext ==
  \/ \E op \in {"run", "rescore"}, arms \in {<<a>> : a \in DOMAIN ARMS} : Give(op, arms)
  \/ \E a, b \in DOMAIN ARMS : a # b /\ Give("run", <<a, b>>)
  \/ Declared \/ Rescore \/ ReplyArm \/ BuildArm \/ ApplyPatch \/ NpmBuild
  \/ BuildIndex \/ DriveQueries \/ RevertPatches \/ Rebuild \/ Died
  \/ ReadReplies \/ ScoreBundle \/ WriteDelta \/ CmdRead
  \/ \E a \in DOMAIN ARMS : EmptyDataDir(a)

RedSpec == RedInit /\ [][RedNext]_redVars

-----------------------------------------------------------------------------
(* However an arm ended (a patch that no longer applies, a build that      *)
(* breaks, a drive that is refused, a bundle the gate rejects), once the   *)
(* command is over the shared checkout carries no patch and its build was  *)
(* made without one, unless the cleanup itself failed.                     *)
ForkRestored == StandsAt("over") /\ ~invocation.torn =>
                  fork.src = {} /\ fork.dist \in {{}, NotBuilt}

(* "Both write a real bundle carrying an arm block, so no artifact can be  *)
(* mistaken for a measurement of an unbroken build": replies measured on a *)
(* build with a patch in it are committed under the block of an arm that   *)
(* has that patch.                                                         *)
BrokenIsStamped ==
  \A a \in DOMAIN ARMS : artifacts[a].gz.of # {} =>
    artifacts[a].gz.arm \in DOMAIN ARMS /\ artifacts[a].gz.of \subseteq Patches(artifacts[a].gz.arm)
=============================================================================
