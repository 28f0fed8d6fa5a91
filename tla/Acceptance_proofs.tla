-------------------------- MODULE Acceptance_proofs --------------------------
(* The parts of bench/ that drive a target, or ask a library or a forge,   *)
(* for any number of runs, targets and processes.  They share no state and *)
(* are proved one by one: the arenas of concurrent runs (AcceptanceArena), *)
(* the lifecycles and postures of the real targets (AcceptanceHosts,       *)
(* AcceptancePosture), the draw and the run of the bench (GeneratorSample, *)
(* GeneratorRun), the listings the scope proxy answers from (ScopeProxy),  *)
(* and the version guard (SitterVersion).                                  *)
EXTENDS AcceptanceArena, AcceptanceHosts, AcceptancePosture, ScopeProxy, GeneratorSample,
        GeneratorRun, SitterVersion, FiniteSetTheorems, SequenceTheorems,
        WellFoundedInduction, TLAPS

-----------------------------------------------------------------------------
(* AcceptanceArena: a run that is still assessing keeps its arenas.        *)

Over == {"returned", "killed"}
Worked == {"assessing"} \cup Over

(* The marker is on the disk for as long as a run assesses; only such a    *)
(* run has anything recorded; a directory is of a run that has assessed;   *)
(* and one that is to be removed is of a run that is over: it had no       *)
(* marker when it was chosen, so it was no longer assessing, and a run     *)
(* does not assess twice.                                                  *)
Marked == \A r \in Runs : stage[r] = "assessing" => r \in markers
MadeByWork == \A d \in arenas : stage[d[1]] \in Worked
ListedWorked == \A q \in Runs : \A d \in listed[q] : stage[d[1]] \in Worked
RecordsOfWork == \A r \in Runs : stage[r] # "assessing" => asked[r] = {}
DoomedOver == \A q \in Runs : \A d \in doomed[q] : stage[d[1]] \in Over

ArenaInv ==
  /\ ArenaTypeOK
  /\ Marked /\ RecordsOfWork /\ MadeByWork /\ ListedWorked /\ DoomedOver
  /\ RunningKeepsArenas

(* What arena_for() finds when the driver starts: nothing.                 *)
LEMMA ArenaStarts == ArenaInit => ArenaInv
BY DEF ArenaInit, ArenaInv, ArenaTypeOK, Marked, RecordsOfWork, MadeByWork, ListedWorked, DoomedOver,
       RunningKeepsArenas, Worked, Over

(* A step that only moves one run's stage, to or from a stage that is not  *)
(* one of work, keeps the invariant: Launch, PreviousRuns, Candidates and  *)
(* Mark, each with what else it writes.                                    *)
LEMMA PreparingSteps ==
  ASSUME ArenaInv, NEW r \in Runs,
         Launch(r) \/ PreviousRuns(r) \/ Candidates(r) \/ Mark(r)
  PROVE  ArenaInv'
<1>. USE DEF ArenaInv, ArenaTypeOK, Marked, RecordsOfWork, MadeByWork, ListedWorked, DoomedOver,
             RunningKeepsArenas, Worked, Over, Enter
<1>1. CASE Launch(r)
  BY <1>1 DEF Launch
<1>2. CASE PreviousRuns(r)
  BY <1>2 DEF PreviousRuns
<1>3. CASE Candidates(r)
  <2>1. \A d \in Doomed(r) : d \in listed[r] /\ stage[d[1]] \in Over
    BY DEF Doomed
  <2>. QED BY <1>3, <2>1 DEF Candidates
<1>4. CASE Mark(r)
  BY <1>4 DEF Mark
<1>. QED BY <1>1, <1>2, <1>3, <1>4

(* The steps of a run at work, and its end.                                *)
LEMMA WorkingSteps ==
  ASSUME ArenaInv, NEW r \in Runs,
         Prune(r) \/ AssessOne(r) \/ Return(r) \/ Kill(r)
  PROVE  ArenaInv'
<1>. USE DEF ArenaInv, ArenaTypeOK, Marked, RecordsOfWork, MadeByWork, ListedWorked, DoomedOver,
             RunningKeepsArenas, Worked, Over, Enter
<1>1. CASE Prune(r)
  <2>1. PICK d \in doomed[r] :
          /\ doomed' = [doomed EXCEPT ![r] = @ \ {d}]
          /\ arenas' = arenas \ {d} \/ UNCHANGED arenas
    BY <1>1 DEF Prune
  <2>2. stage[d[1]] # "assessing"
    BY <2>1
  <2>. QED BY <1>1, <2>1, <2>2 DEF Prune
<1>2. CASE AssessOne(r)
  BY <1>2 DEF AssessOne
<1>3. CASE Return(r)
  BY <1>3 DEF Return
<1>4. CASE Kill(r)
  BY <1>4 DEF Kill
<1>. QED BY <1>1, <1>2, <1>3, <1>4

(* The invariant, of every behaviour.                                      *)
LEMMA ArenaInvariant == ArenaSpec => []ArenaInv
<1>1. ArenaInv /\ [ArenaNext]_arenaVars => ArenaInv'
  <2>. SUFFICES ASSUME ArenaInv, [ArenaNext]_arenaVars PROVE ArenaInv'
    OBVIOUS
  <2>1. CASE ArenaNext
    BY <2>1, PreparingSteps, WorkingSteps DEF ArenaNext
  <2>2. CASE UNCHANGED arenaVars
    BY <2>2 DEF arenaVars, ArenaInv, ArenaTypeOK, Marked, RecordsOfWork, MadeByWork, ListedWorked,
                DoomedOver, RunningKeepsArenas
  <2>. QED BY <2>1, <2>2
<1>. QED BY <1>1, ArenaStarts, PTL DEF ArenaSpec

(* retain() of any number of runs, in any order, never takes an arena away *)
(* from a run that is still assessing (run.py, in_progress_marker).        *)
THEOREM MarkedRunsKeepTheirs == ArenaSpec => []RunningKeepsArenas
BY ArenaInvariant, PTL DEF ArenaInv

-----------------------------------------------------------------------------
(* What outlives a lifecycle                                               *)

Grouped == {"zotseek", "zotero-core-6012"}
Whole == Grouped \cup {"zotero-mcp"}
Dead == ~Alive(launcher) /\ ~Alive(host)

(* Between lifecycles nothing runs; until the stop begins nobody waited    *)
(* for the launcher, unless it was found to have exited; the stop loop     *)
(* counts from nothing and is past its SIGKILL when it gives up; a server  *)
(* starts no process of its own.                                           *)
ClosedDead == phase \in {"asked", "refused", "closed"} => Dead
Unreaped ==
  /\ phase \in {"starting", "open"} => launcher # "reaped" /\ round = 0 /\ why = "none"
  /\ phase = "stopping" /\ adapter \in Grouped /\ round = 0 /\ launcher = "reaped" => why = "exited"
Killed == phase = "stopping" /\ adapter \in Grouped /\ round = 4 => Dead
ServerAlone == adapter = "zotero-mcp" => ~Alive(host)

StopInv ==
  adapter \in Whole => ClosedDead /\ Unreaped /\ Killed /\ ServerAlone /\ round \in 0..4 /\ StopsWhole

stopVars == <<adapter, phase, launcher, host, round, why>>

(* Nothing runs before the first lifecycle.                                *)
LEMMA StopStarts == HostsInit => StopInv
<1>. SUFFICES ASSUME HostsInit PROVE StopInv
  OBVIOUS
<1>1. phase = "asked" /\ launcher = "none" /\ host = "none" /\ round = 0 /\ why = "none"
  BY DEF HostsInit
<1>. QED BY <1>1 DEF StopInv, ClosedDead, Unreaped, Killed, ServerAlone, StopsWhole, Dead, Alive, Whole, Grouped

(* The verbs and the perturbations move no process.                        *)
LEMMA VerbsKeep ==
  ASSUME \/ BeaverInstall \/ ZotSeekInstall \/ CoreInstall \/ ZoteusInstall \/ McpInstall
         \/ BeaverConfigure \/ ZotSeekConfigure \/ CoreConfigure \/ ZoteusConfigure \/ McpConfigure
         \/ BeaverUninstall \/ McpQuery \/ McpStatus \/ ZoteusStatus \/ ZoteusResumeEmbedding
         \/ Inventory \/ ResetIndex \/ RestampIndex
  PROVE  UNCHANGED stopVars
BY DEF BeaverInstall, ZotSeekInstall, CoreInstall, ZoteusInstall, McpInstall, BeaverConfigure, ZotSeekConfigure,
       CoreConfigure, ZoteusConfigure, McpConfigure, BeaverUninstall, McpQuery, McpStatus, ZoteusStatus,
       ZoteusResumeEmbedding, Inventory, ResetIndex, RestampIndex, Says, Reads, Verb, choice, group, stopVars

(* The constructors, and what stops before it starts.                      *)
LEMMA BuildsKeep ==
  ASSUME StopInv,
         \/ BeaverBuild \/ CoreBuild \/ ZotSeekBuild \/ McpBuild \/ ZoteusBuild \/ Arrives \/ NothingToRun
         \/ Spawn \/ Again
  PROVE  StopInv'
<1>. USE DEF StopInv, ClosedDead, Unreaped, Killed, ServerAlone, StopsWhole, Dead, Alive, Whole, Grouped,
             choice, ran, group, arena
<1>1. CASE BeaverBuild \/ CoreBuild \/ ZotSeekBuild \/ McpBuild \/ ZoteusBuild
  <2>1. /\ phase = "asked" /\ phase' \in {"closed", "refused"}
        /\ UNCHANGED <<adapter, launcher, host, round, why>>
    BY <1>1 DEF BeaverBuild, CoreBuild, ZotSeekBuild, McpBuild, ZoteusBuild, Builds
  <2>. QED BY <2>1
<1>2. CASE Arrives
  BY <1>2 DEF Arrives
<1>3. CASE NothingToRun
  BY <1>3 DEF NothingToRun
<1>4. CASE Spawn
  <2>1. /\ phase' = "starting" /\ launcher' = "up" /\ host' = "none" /\ round' = 0 /\ why' = "none" /\ adapter' = adapter
    BY <1>4 DEF Spawn
  <2>. QED BY <2>1
<1>5. CASE Again
  <2>1. phase = "ended" /\ why = "none" /\ phase' = "closed" /\ UNCHANGED <<adapter, launcher, host, round, why>>
    BY <1>5 DEF Again
  <2>. QED BY <2>1
<1>. QED BY <1>1, <1>2, <1>3, <1>4, <1>5

(* What the processes do on their own.                                     *)
LEMMA ProcessesKeep ==
  ASSUME StopInv, Forks \/ WritesFile \/ Rebuilds \/ LauncherExits \/ HostExits
  PROVE  StopInv'
BY DEF StopInv, ClosedDead, Unreaped, Killed, ServerAlone, StopsWhole, Dead, Alive, Whole, Grouped, HostApps,
       choice, ran, group, arena, Forks, WritesFile, Rebuilds, LauncherExits, HostExits

(* The wait for a target that is ready, and the end of the loan.           *)
LEMMA WaitsKeep ==
  ASSUME StopInv, ZotSeekAwait \/ CoreAwait \/ BeaverWait \/ McpHandshake \/ ZoteusHandshake \/ GiveBack
  PROVE  StopInv'
<1>. USE DEF StopInv, ClosedDead, Unreaped, Killed, ServerAlone, StopsWhole, Dead, Alive, Whole, Grouped,
             choice, ran, group, arena, Awaiting, Opens, Raises
<1>1. CASE ZotSeekAwait \/ CoreAwait
  <2>1. /\ phase = "starting" /\ UNCHANGED <<adapter, host, round>>
        /\ \/ phase' = "open" /\ launcher' = launcher /\ why' = why
           \/ phase' = "stopping" /\ why' = "exited" /\ launcher' = "reaped"
           \/ phase' = "stopping" /\ why' = "timeout" /\ launcher' = launcher
    BY <1>1 DEF ZotSeekAwait, CoreAwait
  <2>. QED BY <2>1
<1>3. CASE BeaverWait \/ ZoteusHandshake
  BY <1>3 DEF BeaverWait, ZoteusHandshake, Handshaken
<1>4. CASE McpHandshake
  BY <1>4 DEF McpHandshake, Handshaken
<1>5. CASE GiveBack
  <2>1. phase = "open" /\ phase' = "stopping" /\ UNCHANGED <<adapter, launcher, host, round, why>>
    BY <1>5 DEF GiveBack
  <2>. QED BY <2>1
<1>. QED BY <1>1, <1>3, <1>4, <1>5

(* The two stop loops that know their group from the first signal on: they *)
(* end when everyone is gone, or after the SIGKILL nobody survives.        *)
LEMMA GroupStopKeeps ==
  ASSUME StopInv, NEW kind \in Grouped, GroupStop(kind)
  PROVE  StopInv'
<1>. USE DEF StopInv, ClosedDead, Unreaped, Killed, ServerAlone, StopsWhole, Dead, Alive, Whole, Grouped,
             choice, ran, group, arena, Stopping, Ended, Onward, Polled
<1>1. phase = "stopping" /\ adapter = kind /\ adapter' = adapter /\ why' = why
  BY DEF GroupStop
<1>2. CASE round = 0 /\ launcher = "reaped" /\ Ended /\ UNCHANGED <<group, round>>
  BY <1>1, <1>2
<1>3. CASE round = 0 /\ launcher # "reaped" /\ UNCHANGED group /\ Onward
  BY <1>1, <1>3
<1>4. CASE round \in 1..3 /\ Polled # "up" /\ ~Alive(host) /\ Ended /\ launcher' = Polled /\ UNCHANGED <<host, round>>
  BY <1>1, <1>4
<1>5. CASE round \in 1..3 /\ SignalGroup(IF round = 3 THEN "kill" ELSE "term") /\ Onward
  BY <1>1, <1>5 DEF SignalGroup
<1>6. CASE round = 4 /\ Ended /\ UNCHANGED <<group, round>>
  BY <1>1, <1>6
<1>. QED BY <1>2, <1>3, <1>4, <1>5, <1>6 DEF GroupStop

(* Every stop.                                                             *)
LEMMA StopsKeep ==
  ASSUME StopInv, ZotSeekStop \/ CoreStop \/ BeaverStop \/ McpStop \/ ZoteusStop
  PROVE  StopInv'
<1>1. CASE ZotSeekStop \/ CoreStop
  BY <1>1, GroupStopKeeps DEF ZotSeekStop, CoreStop, Grouped
<1>2. CASE BeaverStop \/ ZoteusStop
  <2>1. adapter' = adapter /\ adapter \in {"beaver", "zoteus"}
    BY <1>2 DEF BeaverStop, ZoteusStop, Stopping, Ended, Onward, choice
  <2>. QED BY <2>1 DEF StopInv, Whole, Grouped
<1>3. CASE McpStop
  BY <1>3 DEF McpStop, Stopping, Ended, choice, StopInv, ClosedDead, Unreaped, Killed, ServerAlone, StopsWhole,
              Dead, Alive, Whole, Grouped
<1>. QED BY <1>1, <1>2, <1>3

(* The invariant, of every behaviour.                                      *)
LEMMA StopInvariant == HostsSpec => []StopInv
<1>1. StopInv /\ [HostsNext]_hostVars => StopInv'
  <2>. SUFFICES ASSUME StopInv, [HostsNext]_hostVars PROVE StopInv'
    OBVIOUS
  <2>1. CASE UNCHANGED stopVars
    BY <2>1 DEF stopVars, StopInv, ClosedDead, Unreaped, Killed, ServerAlone, StopsWhole, Dead, Alive, Whole, Grouped
  <2>2. UNCHANGED hostVars => UNCHANGED stopVars
    BY DEF hostVars, stopVars
  <2>. QED BY <2>1, <2>2, VerbsKeep, BuildsKeep, ProcessesKeep, WaitsKeep, StopsKeep DEF HostsNext
<1>. QED BY <1>1, StopStarts, PTL DEF HostsSpec

(* Whatever the processes do while they are signalled, the stop of ZotSeek,*)
(* of the core build and of zotero-mcp leaves none of them, unless the     *)
(* wait found the launcher gone before the host (adapters, _stop).         *)
THEOREM StopsLeaveNothing == HostsSpec => []StopsWhole
<1>1. StopInv => StopsWhole
  BY DEF StopInv, StopsWhole, Whole, Grouped
<1>. QED BY <1>1, StopInvariant, PTL

-----------------------------------------------------------------------------
(* What is reported                                                        *)

(* A target that is not lent has reported nothing of an installation or of *)
(* its arena; a host application was built over the pinned file or over    *)
(* none, and runs what stands there; and each file of the harness is one   *)
(* the adapter accounts for.                                               *)
OfferTypeOK == offer \in [given : BOOLEAN, place : {"arena", "operator"}, file : Contents \cup {"absent"}]
SilentUnlent == phase # "open" => told.verb \notin {"install", "inventory"}
CheckedBuild ==
  phase \notin {"asked", "refused"} /\ adapter \in HostApps =>
    /\ built \in {"absent", "pinned"} /\ (adapter = "beaver" => built = "pinned")
    /\ built = "pinned" => offer.file = "pinned"
RunsOffered == phase \in {"starting", "open"} /\ adapter \in HostApps => runs = offer.file
FilesAccounted == \A f \in files : f \in HarnessFiles => f \in Accounted

ReportInv == adapter \in Adapters /\ OfferTypeOK /\ SilentUnlent /\ CheckedBuild /\ RunsOffered /\ FilesAccounted /\ ReportsTrue

(* What each adapter accounts for of what the harness or it may write.     *)
LEMMA AccountedFor ==
  /\ adapter = "zotseek" => {"prefs", "xpi", "host-log"} \subseteq Accounted
  /\ adapter = "beaver" => {"prefs", "xpi"} \subseteq Accounted
  /\ adapter = "zotero-core-6012" => {"prefs", "host-log"} \subseteq Accounted
  /\ adapter = "zotero-mcp" => {"config", "venv"} \subseteq Accounted
<1>1. CASE adapter = "zotseek"
  BY <1>1 DEF Accounted, Declaration, ZotSeekDeclares, ZotSeekRoots, Declares
<1>2. CASE adapter = "beaver"
  BY <1>2 DEF Accounted, Declaration, BeaverDeclares, BeaverRoots, Declares
<1>3. CASE adapter = "zotero-core-6012"
  BY <1>3 DEF Accounted, Declaration, CoreDeclares, CoreRoots, Declares
<1>4. CASE adapter = "zotero-mcp"
  BY <1>4 DEF Accounted, Declaration, ZoteroMcpDeclares, Declares
<1>. QED BY <1>1, <1>2, <1>3, <1>4

(* What it accounts for is declared, once and for all.                     *)
LEMMA AccountedStands == ASSUME adapter' = adapter PROVE Accounted' = Accounted
BY DEF Accounted, Declaration

(* A step that leaves the file the options name, what was started, what    *)
(* was reported and the arena alone.                                       *)
LEMMA Apart ==
  ASSUME ReportInv, UNCHANGED <<adapter, offer, built, runs, told, files>>,
         phase' \in {"starting", "open"} => phase \in {"starting", "open"},
         phase' # "open" => phase # "open", phase' \notin {"asked", "refused"} => phase \notin {"asked", "refused"}
  PROVE  ReportInv'
BY AccountedStands DEF ReportInv, OfferTypeOK, SilentUnlent, CheckedBuild, RunsOffered, FilesAccounted, ReportsTrue

(* Nothing is reported, and nothing written, before the first lifecycle.   *)
LEMMA ReportStarts == HostsInit => ReportInv
<1>. SUFFICES ASSUME HostsInit PROVE ReportInv
  OBVIOUS
<1>1. adapter \in Adapters /\ phase = "asked" /\ files = {} /\ told = NoReport
  BY DEF HostsInit
<1>2. OfferTypeOK
  BY DEF HostsInit, OfferTypeOK, Offer
<1>3. told.verb = "none"
  BY <1>1 DEF NoReport, Report
<1>. QED BY <1>1, <1>2, <1>3 DEF ReportInv, SilentUnlent, CheckedBuild, RunsOffered, FilesAccounted, ReportsTrue

(* The constructors: a host application is refused, or is built over the   *)
(* pinned file or over none; and a file may arrive where there was none.   *)
LEMMA BuildsReport ==
  ASSUME ReportInv, BeaverBuild \/ CoreBuild \/ ZotSeekBuild \/ McpBuild \/ ZoteusBuild \/ Arrives
  PROVE  ReportInv'
<1>1. /\ UNCHANGED <<adapter, runs, told, files>> /\ phase # "open" /\ phase' \notin {"starting", "open"}
      /\ Accounted' = Accounted
  BY AccountedStands DEF BeaverBuild, CoreBuild, ZotSeekBuild, McpBuild, ZoteusBuild, Builds, Arrives, ran, arena
<1>2. adapter' \in Adapters /\ SilentUnlent' /\ RunsOffered' /\ FilesAccounted' /\ ReportsTrue'
  BY <1>1 DEF ReportInv, SilentUnlent, RunsOffered, FilesAccounted, ReportsTrue
<1>3. CASE Arrives
  <2>1. PICK file \in Contents : offer' = [offer EXCEPT !.file = file]
    BY <1>3 DEF Arrives
  <2>2. OfferTypeOK' /\ built' = built /\ phase' = phase /\ phase = "closed" /\ adapter \in HostApps /\ offer.file = "absent"
    BY <1>3, <2>1 DEF Arrives, ReportInv, OfferTypeOK
  <2>3. CheckedBuild'
    BY <1>1, <2>2 DEF ReportInv, CheckedBuild
  <2>. QED BY <1>2, <2>2, <2>3 DEF ReportInv
<1>4. CASE BeaverBuild \/ CoreBuild \/ ZotSeekBuild \/ McpBuild \/ ZoteusBuild
  <2>1. offer' = offer /\ built' = offer.file
    BY <1>4 DEF BeaverBuild, CoreBuild, ZotSeekBuild, McpBuild, ZoteusBuild, Builds
  <2>2. CheckedBuild'
    <3>1. CASE adapter \notin HostApps
      BY <1>1, <3>1 DEF CheckedBuild
    <3>2. CASE phase' = "refused"
      BY <3>2 DEF CheckedBuild
    <3>3. CASE phase' = "closed" /\ BeaverBuild
      BY <1>1, <2>1, <3>3 DEF CheckedBuild, BeaverBuild, Builds, ArtifactStands
    <3>4. CASE phase' = "closed" /\ CoreBuild
      BY <1>1, <2>1, <3>4 DEF CheckedBuild, CoreBuild, Builds, PinnedBuild, BuildStamp
    <3>5. CASE phase' = "closed" /\ ZotSeekBuild
      BY <1>1, <2>1, <3>5 DEF CheckedBuild, ZotSeekBuild, Builds, DigestStands
    <3>6. phase' \in {"closed", "refused"}
      BY <1>4 DEF BeaverBuild, CoreBuild, ZotSeekBuild, McpBuild, ZoteusBuild, Builds
    <3>. QED BY <1>4, <3>1, <3>2, <3>3, <3>4, <3>5, <3>6 DEF HostApps, McpBuild, ZoteusBuild
  <2>. QED BY <1>2, <2>1, <2>2 DEF ReportInv, OfferTypeOK
<1>. QED BY <1>3, <1>4 DEF Arrives

(* What running() writes, and what the target writes, it accounts for.     *)
LEMMA WritesReport ==
  ASSUME ReportInv, Spawn \/ NothingToRun \/ WritesFile
  PROVE  ReportInv'
<1>1. UNCHANGED <<adapter, offer, built, told>> /\ Accounted' = Accounted
  BY AccountedStands DEF Spawn, NothingToRun, WritesFile, choice, ran
<1>2. FilesAccounted'
  <2>1. \A f \in files' : f \in files \/ (f \in HarnessFiles => f \in Accounted)
    <3>1. CASE Spawn
      BY <3>1, AccountedFor DEF Spawn, ZotSeekSetUp, BeaverSetUp, CoreSetUp, McpSetUp, ZoteusSetUp, Place
    <3>2. CASE NothingToRun
      BY <3>2, AccountedFor DEF NothingToRun
    <3>3. CASE WritesFile
      <4>1. PICK f \in Writes : files' = files \cup {f}
        BY <3>3 DEF WritesFile
      <4>2. f \in HarnessFiles => f \in Accounted
        BY <4>1, AccountedFor DEF Writes, HarnessFiles, ReportInv, Adapters, HostApps, Servers
      <4>. QED BY <4>1, <4>2
    <3>. QED BY <3>1, <3>2, <3>3
  <2>. QED BY <1>1, <2>1 DEF ReportInv, FilesAccounted
<1>3. CASE Spawn
  <2>1. phase = "closed" /\ phase' = "starting"
    BY <1>3 DEF Spawn
  <2>2. adapter \in HostApps => runs' = offer.file
    BY <1>3 DEF Spawn, ZotSeekSetUp, BeaverSetUp, CoreSetUp, McpSetUp, ZoteusSetUp, Place, HostApps
  <2>. QED BY <1>1, <1>2, <2>1, <2>2 DEF ReportInv, OfferTypeOK, SilentUnlent, CheckedBuild, RunsOffered, ReportsTrue
<1>4. CASE NothingToRun
  <2>1. phase = "closed" /\ phase' = "ended" /\ runs' = runs
    BY <1>4 DEF NothingToRun, ran
  <2>. QED BY <1>1, <1>2, <2>1 DEF ReportInv, OfferTypeOK, SilentUnlent, CheckedBuild, RunsOffered, ReportsTrue
<1>5. CASE WritesFile
  <2>1. phase' = phase /\ runs' = runs
    BY <1>5 DEF WritesFile, ran
  <2>. QED BY <1>1, <1>2, <2>1 DEF ReportInv, OfferTypeOK, SilentUnlent, CheckedBuild, RunsOffered, ReportsTrue
<1>. QED BY <1>3, <1>4, <1>5

(* The processes, the wait, the stop and the next lifecycle.               *)
LEMMA RunsReport ==
  ASSUME ReportInv,
         \/ Forks \/ Rebuilds \/ LauncherExits \/ HostExits
         \/ ZotSeekAwait \/ CoreAwait \/ BeaverWait \/ McpHandshake \/ ZoteusHandshake
         \/ ZotSeekStop \/ CoreStop \/ BeaverStop \/ McpStop \/ ZoteusStop \/ Again
  PROVE  ReportInv'
<1>1. UNCHANGED <<adapter, offer, built, runs, told, files>>
  BY DEF Forks, Rebuilds, LauncherExits, HostExits, ZotSeekAwait, CoreAwait, BeaverWait, McpHandshake,
         ZoteusHandshake, Handshaken, ZotSeekStop, CoreStop, GroupStop, BeaverStop, McpStop, ZoteusStop, Again,
         Opens, Raises, Ended, Onward, choice, ran, arena
<1>2. \/ phase' = phase
      \/ phase = "starting" /\ phase' \in {"open", "stopping", "ended"}
      \/ phase = "stopping" /\ phase' = "ended"
      \/ phase = "ended" /\ phase' = "closed"
  BY DEF Forks, Rebuilds, LauncherExits, HostExits, ZotSeekAwait, CoreAwait, BeaverWait, McpHandshake,
         ZoteusHandshake, Handshaken, ZotSeekStop, CoreStop, GroupStop, BeaverStop, McpStop, ZoteusStop, Again,
         Opens, Raises, Ended, Onward, Awaiting, Stopping
<1>. QED BY <1>1, <1>2, Apart

(* GiveBack withdraws the report; ResetIndex and RestampIndex come between *)
(* two lifecycles and leave it.                                            *)
LEMMA BetweenReports == ASSUME ReportInv, GiveBack \/ ResetIndex \/ RestampIndex PROVE ReportInv'
<1>1. CASE GiveBack
  <2>1. phase = "open" /\ phase' = "stopping" /\ told'.verb = "none" /\ UNCHANGED <<adapter, offer, built, runs, files>>
    BY <1>1 DEF GiveBack, NoReport, Report, choice, arena
  <2>. QED BY <2>1, AccountedStands
           DEF ReportInv, OfferTypeOK, SilentUnlent, CheckedBuild, RunsOffered, FilesAccounted, ReportsTrue
<1>2. CASE ResetIndex \/ RestampIndex
  <2>1. UNCHANGED <<adapter, offer, built, runs, phase, told>> /\ files' \subseteq files
    BY <1>2 DEF ResetIndex, RestampIndex, Verb, choice
  <2>. QED BY <2>1, AccountedStands
           DEF ReportInv, OfferTypeOK, SilentUnlent, CheckedBuild, RunsOffered, FilesAccounted, ReportsTrue
<1>. QED BY <1>1, <1>2

(* A verb of a target that is lent reports what is so, and writes what the *)
(* adapter accounts for.                                                   *)
LEMMA TellsWhatIs ==
  ASSUME ReportInv, phase = "open", UNCHANGED <<adapter, offer, built, runs, phase>>,
         \A f \in files' : f \in files \/ f \in Accounted,
         NEW verb, NEW says, Tells(verb, says),
         verb = "install" /\ "checked" \in says => runs = "pinned",
         verb = "inventory" => says = ArenaResidue
  PROVE  ReportInv'
<1>1. told'.verb = verb /\ told'.says = says
  BY DEF Tells, Report
<1>2. Accounted' = Accounted
  BY AccountedStands
<1>3. ReportsTrue'
  BY <1>1 DEF ReportInv, FilesAccounted, ReportsTrue, ArenaResidue
<1>. QED BY <1>2, <1>3 DEF ReportInv, OfferTypeOK, SilentUnlent, CheckedBuild, RunsOffered, FilesAccounted

(* install() of a host application.                                        *)
LEMMA InstallsReport == ASSUME ReportInv, BeaverInstall \/ ZotSeekInstall \/ CoreInstall PROVE ReportInv'
<1>1. /\ phase = "open" /\ UNCHANGED <<adapter, offer, built, runs, phase, files>> /\ adapter \in HostApps
      /\ Tells("install", {PinChecked})
  BY DEF BeaverInstall, ZotSeekInstall, CoreInstall, Lent, Says, Reads, Verb, choice, HostApps
<1>2. PinChecked = "checked" => built # "absent"
  BY <1>1 DEF PinChecked, HostApps, BuildStamp, ReportInv, CheckedBuild
<1>3. "checked" \in {PinChecked} => runs = "pinned"
  BY <1>1, <1>2 DEF ReportInv, CheckedBuild, RunsOffered
<1>. QED BY <1>1, <1>3, TellsWhatIs

(* The other verbs that write nothing.                                     *)
LEMMA ReadsReport ==
  ASSUME ReportInv,
         \/ ZoteusInstall \/ BeaverConfigure \/ ZotSeekConfigure \/ CoreConfigure \/ ZoteusConfigure
         \/ McpQuery \/ McpStatus \/ ZoteusStatus \/ ZoteusResumeEmbedding \/ Inventory
  PROVE  ReportInv'
<1>1. phase = "open" /\ UNCHANGED <<adapter, offer, built, runs, phase, files>>
  BY DEF ZoteusInstall, BeaverConfigure, ZotSeekConfigure, CoreConfigure, ZoteusConfigure, McpQuery, McpStatus,
         ZoteusStatus, ZoteusResumeEmbedding, Inventory, Lent, Says, Reads, Verb, choice
<1>2. \E verb, says : /\ Tells(verb, says)
                      /\ verb = "install" /\ "checked" \in says => runs = "pinned"
                      /\ verb = "inventory" => says = ArenaResidue
  <2>1. CASE ZoteusInstall
    BY <2>1 DEF ZoteusInstall, Says, Reads
  <2>2. CASE BeaverConfigure \/ ZotSeekConfigure \/ CoreConfigure \/ ZoteusConfigure \/ McpQuery \/ McpStatus
    <3>1. \E says : \E verb \in {"configure", "query", "status"} : Tells(verb, says)
      BY <2>2 DEF BeaverConfigure, ZotSeekConfigure, CoreConfigure, ZoteusConfigure, McpQuery, McpStatus, Says, Reads
    <3>. QED BY <3>1
  <2>3. CASE ZoteusStatus \/ ZoteusResumeEmbedding
    <3>1. \E says : \E verb \in {"status", "resume-embedding"} : Tells(verb, says)
      BY <2>3 DEF ZoteusStatus, ZoteusResumeEmbedding, Says, Reads
    <3>. QED BY <3>1
  <2>4. CASE Inventory
    BY <2>4 DEF Inventory, Reads
  <2>. QED BY <2>1, <2>2, <2>3, <2>4
<1>. QED BY <1>1, <1>2, TellsWhatIs

(* And those that write.                                                   *)
LEMMA WritersReport == ASSUME ReportInv, McpInstall \/ McpConfigure \/ BeaverUninstall PROVE ReportInv'
<1>1. phase = "open" /\ UNCHANGED <<adapter, offer, built, runs, phase>> /\ adapter \in {"zotero-mcp", "beaver"}
  BY DEF McpInstall, McpConfigure, BeaverUninstall, Lent, Verb, choice
<1>2. CASE McpInstall
  <2>1. PICK says \in {"executable", "none"} : Tells("install", {says})
    BY <1>2 DEF McpInstall
  <2>2. files' \subseteq files \cup {"venv"} /\ "venv" \in Accounted
    BY <1>2, AccountedFor DEF McpInstall, Lent
  <2>. QED BY <1>1, <2>1, <2>2, TellsWhatIs
<1>3. CASE McpConfigure
  <2>1. Tells("configure", {"config"}) /\ files' = files \cup {"config"} /\ "config" \in Accounted
    BY <1>3, AccountedFor DEF McpConfigure, Lent
  <2>. QED BY <1>1, <2>1, TellsWhatIs
<1>4. CASE BeaverUninstall
  <2>1. files' \subseteq files /\ \E says : Tells("uninstall", says)
    BY <1>4 DEF BeaverUninstall
  <2>. QED BY <1>1, <2>1, TellsWhatIs
<1>. QED BY <1>2, <1>3, <1>4

(* The invariant, of every behaviour.                                      *)
LEMMA ReportInvariant == HostsSpec => []ReportInv
<1>1. ReportInv /\ [HostsNext]_hostVars => ReportInv'
  <2>. SUFFICES ASSUME ReportInv, [HostsNext]_hostVars PROVE ReportInv'
    OBVIOUS
  <2>1. CASE UNCHANGED hostVars
    BY <2>1, Apart DEF hostVars
  <2>. QED BY <2>1, BuildsReport, WritesReport, RunsReport, BetweenReports, InstallsReport, ReadsReport, WritersReport
           DEF HostsNext
<1>. QED BY <1>1, ReportStarts, PTL DEF HostsSpec

(* For any number of lifecycles and verbs: a pin that is reported as       *)
(* checked is the pin of what runs, and nothing the harness wrote is       *)
(* reported as the target's residue (adapters: install, inventory).        *)
THEOREM ReportsAreTrue == HostsSpec => []ReportsTrue
<1>1. ReportInv => ReportsTrue
  BY DEF ReportInv
<1>. QED BY <1>1, ReportInvariant, PTL
-----------------------------------------------------------------------------
(* AcceptancePosture: no target runs as the operator.                      *)

(* A process has the USER of its identity.  A posture that refuses nothing *)
(* is the operator's word that the machine is the boundary, or it crosses  *)
(* to the account, or it was inherited by a process that has crossed.      *)
HeldPostures ==
  [name : Postures \cup {"unresolved", "target"}, account : {NoAccount, Account},
   refused : BOOLEAN, inherited : BOOLEAN]
HeldProcesses ==
  [role : {"outer", "driver", "target"}, identity : {"operator", Account}, user : {"operator", Account},
   confined : BOOLEAN, posture : HeldPostures]
Bounded(p) ==
  \/ p.posture.refused
  \/ command.posture = "already-isolated" /\ p.posture.account = NoAccount
  \/ p.posture.account = Account /\ ~p.posture.inherited
  \/ p.posture.account = Account /\ p.identity = Account
ProcessOK(p) ==
  /\ p \in HeldProcesses /\ p.user = p.identity
  /\ p.role = "outer" => p.identity = "operator"
  /\ p.role # "target" => Bounded(p)
  /\ p.role = "target" => (p.identity = Account \/ command.posture = "already-isolated")
  /\ p.role = "target" => p.posture = Unwrapped
RunAs(blank, id) == [blank EXCEPT !.identity = id, !.user = id]
PostureInv == command \in Commands /\ \A p \in processes : ProcessOK(p)

(* Before anything is resolved only the operator's own process runs.       *)
LEMMA PostureStarts == PostureInit => PostureInv
BY DEF PostureInit, PostureInv, ProcessOK, HeldProcesses, HeldPostures, Bounded, Process, Unresolved, Posture

(* What Main() makes of a process: the posture is resolved for it, or is   *)
(* inherited by it, and an operator's claim to have crossed is refused.    *)
LEMMA MainHolds ==
  ASSUME PostureInv, NEW p \in processes, Main(p)
  PROVE  PostureInv'
<1> DEFINE held == IF command.spawnedUnder # NoAccount /\ p.role = "outer"
                   THEN Inherited(p, command.spawnedUnder) ELSE Resolve(p, command.posture)
<1>1. /\ processes' = (processes \ {p}) \cup {[p EXCEPT !.posture = held]}
      /\ command' = command /\ p.posture = Unresolved
  BY DEF Main
<1>2. ProcessOK(p) /\ command \in Commands
  BY DEF PostureInv
<1>3. p.role # "target"
  BY <1>1, <1>2 DEF ProcessOK, Unresolved, Unwrapped, Posture
<1>4. /\ held \in HeldPostures
      /\ \/ held.refused
         \/ command.posture = "already-isolated" /\ held.account = NoAccount
         \/ held.account = Account /\ ~held.inherited
         \/ held.account = Account /\ p.identity = Account
  <2>1. CASE command.spawnedUnder # NoAccount /\ p.role = "outer"
    <3>1. command.spawnedUnder = Account /\ p.user = "operator"
      BY <1>2, <2>1 DEF Commands, ProcessOK
    <3>2. held = [name |-> "account", account |-> Account, refused |-> TRUE, inherited |-> TRUE]
      BY <2>1, <3>1, AccountAssumption DEF Inherited, Posture
    <3> HIDE DEF held
    <3> QED BY <3>2 DEF HeldPostures, Postures
  <2>2. CASE ~(command.spawnedUnder # NoAccount /\ p.role = "outer")
    <3>1. held = Resolve(p, command.posture) /\ command.posture \in Postures
      BY <1>2, <2>2, Zenon DEF Commands
    <3> HIDE DEF held
    <3>2. \/ command.posture = "already-isolated" /\ held = Posture("already-isolated", NoAccount, FALSE, FALSE)
          \/ held = Posture(command.posture, Account, FALSE, FALSE)
          \/ held = Posture(command.posture, NoAccount, TRUE, FALSE)
      BY <3>1 DEF Resolve
    <3>3. \A n \in Postures, a \in {NoAccount, Account}, r, i \in BOOLEAN : Posture(n, a, r, i) \in HeldPostures
      BY DEF Posture, HeldPostures
    <3>4. "already-isolated" \in Postures
      BY DEF Postures
    <3>5. CASE command.posture = "already-isolated" /\ held = Posture("already-isolated", NoAccount, FALSE, FALSE)
      BY <3>3, <3>4, <3>5 DEF Posture
    <3>6. CASE held = Posture(command.posture, Account, FALSE, FALSE)
      <4>1. held \in HeldPostures
        BY <3>1, <3>3, <3>6
      <4> QED BY <3>6, <4>1 DEF Posture
    <3>7. CASE held = Posture(command.posture, NoAccount, TRUE, FALSE)
      <4>1. held \in HeldPostures
        BY <3>1, <3>3, <3>7
      <4> QED BY <3>7, <4>1 DEF Posture
    <3> QED BY <3>2, <3>5, <3>6, <3>7
  <2> QED BY <2>1, <2>2
<1> HIDE DEF held
<1>5. ProcessOK([p EXCEPT !.posture = held])
  BY <1>2, <1>3, <1>4 DEF ProcessOK, HeldProcesses, Bounded
<1> QED BY <1>1, <1>5 DEF PostureInv, ProcessOK, Bounded

(* A spawn under a posture that holds: the child is the account's, or the  *)
(* operator said that the machine is the boundary.                         *)
LEMMA WrapCrosses ==
  ASSUME PostureInv, NEW p \in processes, p.role # "target",
         NEW blank \in HeldProcesses, NEW child \in Wrap(p, blank)
  PROVE  /\ ~p.posture.refused
         /\ child = RunAs(blank, child.identity)
         /\ child.identity \in {"operator", Account}
         /\ child.identity = Account \/ command.posture = "already-isolated"
         /\ p.posture.account = Account => child.identity = Account
<1>1. ProcessOK(p) /\ ~p.posture.refused /\ Bounded(p) /\ p.user = p.identity
  BY DEF PostureInv, ProcessOK, Wrap
<1>2. CASE ~Crosses(p.posture)
  <2>1. child = RunAs(blank, p.identity)
    BY <1>1, <1>2 DEF Wrap, RunAs
  <2>2. child.identity = p.identity
    BY <2>1 DEF HeldProcesses, RunAs
  <2>3. /\ p.identity = Account \/ command.posture = "already-isolated"
        /\ p.posture.account = Account => p.identity = Account
    BY <1>1, <1>2, AccountAssumption DEF Crosses, Bounded, NoAccount, ProcessOK, HeldProcesses, HeldPostures
  <2> QED BY <1>1, <2>1, <2>2, <2>3 DEF ProcessOK, HeldProcesses
<1>3. CASE Crosses(p.posture)
  <2>1. p.posture.account = Account
    BY <1>1, <1>3 DEF Crosses, ProcessOK, HeldProcesses, HeldPostures
  <2>2. child = RunAs(blank, Account)
    BY <1>1, <1>3, <2>1 DEF Wrap, RunAs
  <2>3. child.identity = Account
    BY <2>2 DEF HeldProcesses, RunAs
  <2> QED BY <1>1, <2>1, <2>2, <2>3
<1> QED BY <1>2, <1>3

(* An adapter's running().                                                 *)
LEMMA SpawnHolds ==
  ASSUME PostureInv, NEW p \in processes, SpawnTarget(p)
  PROVE  PostureInv'
<1> DEFINE blank == Process("target", p.identity, p.user, p.confined, Unwrapped)
<1>1. PICK child \in Wrap(p, blank) : processes' = processes \cup {child}
  BY DEF SpawnTarget
<1>2. blank \in HeldProcesses
  BY DEF Process, HeldProcesses, HeldPostures, Unwrapped, Posture, PostureInv, ProcessOK
<1>3. p.role # "target" /\ command' = command
  BY DEF SpawnTarget
<1>4. /\ child = RunAs(blank, child.identity)
      /\ child.identity \in {"operator", Account}
      /\ child.identity = Account \/ command.posture = "already-isolated"
  <2> HIDE DEF blank
  <2> QED BY <1>1, <1>2, <1>3, WrapCrosses
<1>5. ProcessOK(child)
  BY <1>2, <1>4 DEF ProcessOK, HeldProcesses, Process, RunAs
<1> QED BY <1>1, <1>3, <1>5 DEF PostureInv, ProcessOK, Bounded

(* run_traced(): the re-invocation is told of a crossing only where it was *)
(* crossed for it.                                                         *)
LEMMA ReinvokeHolds ==
  ASSUME PostureInv, NEW p \in processes, Reinvoke(p)
  PROVE  PostureInv'
<1> DEFINE blank == Process("driver", p.identity, p.user, TRUE, Unresolved)
           fixture == command.adapter = "fixture"
<1>1. /\ ProcessOK(p) /\ p.role # "target" /\ command' = command
      /\ blank \in HeldProcesses /\ p.user = p.identity
  BY DEF Reinvoke, Process, HeldProcesses, HeldPostures, Unresolved, Posture, PostureInv, ProcessOK
<1>2. CASE fixture
  <2>1. processes' = processes \cup {blank}
    BY <1>2 DEF Reinvoke
  <2>2. ProcessOK(blank)
    BY <1>1 DEF ProcessOK, Bounded, Process, Unresolved, Posture
  <2> QED BY <1>1, <2>1, <2>2 DEF PostureInv, ProcessOK, Bounded
<1>3. CASE ~fixture
  <2>1. PICK child \in Wrap(p, blank) :
          processes' = processes \cup
            {IF p.posture.account = NoAccount THEN child
             ELSE [child EXCEPT !.posture = Inherited(child, p.posture.account)]}
    BY <1>3 DEF Reinvoke
  <2>2. /\ child = RunAs(blank, child.identity)
        /\ child.identity \in {"operator", Account}
        /\ p.posture.account = Account => child.identity = Account
    <3> HIDE DEF blank
    <3> QED BY <1>1, <2>1, WrapCrosses
  <2>3. /\ child \in HeldProcesses /\ child.user = child.identity
        /\ child.role = "driver" /\ child.posture = Unresolved
    BY <1>1, <2>2 DEF HeldProcesses, Process, RunAs
  <2>4. CASE p.posture.account = NoAccount
    <3>1. ProcessOK(child)
      BY <2>3 DEF ProcessOK, Bounded, Unresolved, Posture
    <3> QED BY <1>1, <2>1, <2>4, <3>1 DEF PostureInv, ProcessOK, Bounded
  <2>5. CASE p.posture.account = Account /\ Account # NoAccount
    <3> DEFINE informed == [child EXCEPT !.posture = Inherited(child, Account)]
    <3>1. ProcessOK(informed)
      BY <2>2, <2>3, <2>5 DEF ProcessOK, Bounded, Inherited, Posture, HeldProcesses, HeldPostures, Postures
    <3>2. processes' = processes \cup {informed}
      BY <2>1, <2>5
    <3> QED BY <1>1, <3>1, <3>2 DEF PostureInv, ProcessOK, Bounded
  <2> QED BY <1>1, <2>4, <2>5 DEF ProcessOK, HeldProcesses, HeldPostures
<1> QED BY <1>2, <1>3

(* The invariant of the processes of a run.                                *)
LEMMA PostureInvariant == PostureSpec => []PostureInv
<1>1. PostureInv /\ [PostureNext]_postureVars => PostureInv'
  <2> SUFFICES ASSUME PostureInv, [PostureNext]_postureVars PROVE PostureInv'
    OBVIOUS
  <2>1. CASE \E p \in processes : Main(p) \/ SpawnTarget(p) \/ Reinvoke(p)
    BY <2>1, MainHolds, SpawnHolds, ReinvokeHolds
  <2>2. CASE Provision \/ UNCHANGED postureVars
    BY <2>2 DEF Provision, postureVars, PostureInv, ProcessOK, Bounded
  <2> QED BY <2>1, <2>2 DEF PostureNext
<1> QED BY <1>1, PostureStarts, PTL DEF PostureSpec

(* The ratified posture (posture.py): whatever the operator provisions or  *)
(* withdraws while a run is under way, whoever typed its command line and  *)
(* however often it is re-invoked, no target process runs as the operator, *)
(* unless the operator said that the machine is the boundary.              *)
THEOREM TargetsCross == PostureSpec => []NoTargetAsOperator
<1>1. PostureInv => NoTargetAsOperator
  BY DEF PostureInv, ProcessOK, NoTargetAsOperator, Targets
<1> QED BY <1>1, PostureInvariant, PTL

-----------------------------------------------------------------------------
(* GeneratorSample: a draw that ends short has exhausted its frame.        *)

(* A draw is what its fields say.                                          *)
DrawPairs == DOMAIN Attachments
DrawShape ==
  /\ draw = [strategy |-> draw.strategy, framed |-> draw.framed, cells |-> draw.cells,
             deferred |-> draw.deferred, quota |-> draw.quota, tries |-> draw.tries, out |-> draw.out,
             at |-> draw.at, rejected |-> draw.rejected]
  /\ draw.rejected = [noText |-> draw.rejected.noText, over |-> draw.rejected.over,
                      released |-> draw.rejected.released]
  /\ draw.out \in Seq({one(a) : a \in DrawPairs})
  /\ draw.framed \in SUBSET DrawPairs /\ draw.strategy \in {"random", "quota"}

(* The pairs of the frame not yet drawn, by cell; those put aside; those   *)
(* taken, once each; and the others, which had no paragraph and are counted.*)
InCells(cells) ==
  /\ cells \in [SampleCells -> SUBSET DrawPairs]
  /\ \A c \in SampleCells : \A a \in cells[c] : CellOf(a) = c
Taken == {draw.out[i].of : i \in 1..Len(draw.out)}
Waiting == All(draw.cells) \cup All(draw.deferred)
Gone == draw.framed \ (Waiting \cup Taken)
OnceEach == \A i, j \in 1..Len(draw.out) : draw.out[i].of = draw.out[j].of => i = j
PartsApart ==
  /\ All(draw.cells) \cap All(draw.deferred) = {}
  /\ Waiting \cap Taken = {} /\ Waiting \cup Taken \subseteq draw.framed
GoneCounted ==
  /\ \A a \in Gone : ~Readable(a)
  /\ draw.rejected.noText = Cardinality(Gone)
DrawInv ==
  /\ DrawShape /\ InCells(draw.cells) /\ InCells(draw.deferred)
  /\ OnceEach /\ PartsApart /\ GoneCounted
  /\ ~draw.quota \/ draw.strategy = "random" => All(draw.deferred) = {}
  /\ draw.at = "drawn" /\ Len(draw.out) < N => Waiting = {}

(* What is in a cell is waiting, and in no other cell.                     *)
LEMMA OneCell ==
  ASSUME NEW cells, InCells(cells), NEW c \in SampleCells, NEW a \in cells[c]
  PROVE  /\ a \in All(cells) /\ a \in DrawPairs
         /\ All([cells EXCEPT ![c] = @ \ {a}]) = All(cells) \ {a}
         /\ InCells([cells EXCEPT ![c] = @ \ {a}])
BY DEF InCells, All

(* A pair put into its cell is one more there.                             *)
LEMMA OneMore ==
  ASSUME NEW cells, InCells(cells), NEW c \in SampleCells, NEW a \in DrawPairs, CellOf(a) = c
  PROVE  /\ All([cells EXCEPT ![c] = @ \cup {a}]) = All(cells) \cup {a}
         /\ InCells([cells EXCEPT ![c] = @ \cup {a}])
BY DEF InCells, All

(* No pair is in an empty cell.                                            *)
LEMMA NoneWaits == All(NoPairs) = {} /\ InCells(NoPairs)
BY DEF All, NoPairs, InCells

(* The frame, before anything is drawn from it.                            *)
LEMMA SampleStarts == SampleInit => DrawInv
<1> SUFFICES ASSUME SampleInit PROVE DrawInv
  OBVIOUS
<1>1. PICK strategy \in {"random", "quota"}, drawn \in Frames :
    draw = [strategy |-> strategy, framed |-> All(frame(drawn)), cells |-> frame(drawn), deferred |-> NoPairs,
            quota |-> TRUE, tries |-> [c \in SampleCells |-> 0], out |-> <<>>, at |-> "drawing",
            rejected |-> [noText |-> 0, over |-> 0, released |-> 0]]
  BY DEF SampleInit
<1>2. InCells(frame(drawn)) /\ All(frame(drawn)) \in SUBSET DrawPairs
  BY DEF InCells, frame, All, DrawPairs
<1>3. /\ draw.out = <<>> /\ draw.cells = frame(drawn) /\ draw.deferred = NoPairs /\ draw.at = "drawing"
      /\ draw.framed = All(frame(drawn)) /\ draw.rejected.noText = 0
  BY <1>1
<1>4. DrawShape
  BY <1>1, <1>2 DEF DrawShape
<1>5. Taken = {} /\ OnceEach
  BY <1>3 DEF Taken, OnceEach
<1>6. Waiting = draw.framed /\ Gone = {}
  BY <1>3, NoneWaits DEF Waiting, Gone
<1>7. GoneCounted
  BY <1>3, <1>6, FS_EmptySet DEF GoneCounted
<1> QED BY <1>2, <1>3, <1>4, <1>5, <1>6, <1>7, NoneWaits DEF DrawInv, PartsApart

(* A pair without an eligible paragraph joins those that are gone.         *)
LEMMA NoParagraphKeeps ==
  ASSUME DrawInv, NEW c \in SampleCells, NEW a \in draw.cells[c], ~Readable(a), draw.at = "drawing",
         draw' = NoParagraph(c, a)
  PROVE  DrawInv'
<1>1. /\ DrawShape' /\ draw'.cells = [draw.cells EXCEPT ![c] = @ \ {a}]
      /\ UNCHANGED <<draw.deferred, draw.out, draw.framed, draw.quota, draw.strategy, draw.at>>
      /\ draw'.rejected.noText = draw.rejected.noText + 1
  BY DEF DrawInv, DrawShape, NoParagraph, Popped
<1>2. InCells(draw'.cells) /\ All(draw'.cells) = All(draw.cells) \ {a} /\ a \in All(draw.cells)
  BY <1>1, OneCell DEF DrawInv
<1>3. Taken' = Taken /\ OnceEach' /\ Waiting' = Waiting \ {a} /\ a \in Waiting
  <2>1. Taken' = Taken /\ OnceEach'
    BY <1>1 DEF DrawInv, Taken, OnceEach
  <2> QED BY <1>1, <1>2, <2>1 DEF DrawInv, Waiting, PartsApart
<1>4. Gone' = Gone \cup {a} /\ a \notin Gone
  BY <1>1, <1>3 DEF Gone, DrawInv, PartsApart
<1>5. GoneCounted'
  <2>1. IsFiniteSet(Gone)
    BY SampleAssumption, FS_Subset DEF DrawInv, DrawShape, Gone, DrawPairs
  <2>2. Cardinality(Gone') = Cardinality(Gone) + 1
    BY <1>4, <2>1, FS_AddElement
  <2> QED BY <1>1, <1>4, <2>2 DEF DrawInv, GoneCounted
<1>6. PartsApart'
  BY <1>1, <1>2, <1>3 DEF DrawInv, PartsApart, Waiting
<1> QED BY <1>1, <1>2, <1>3, <1>5, <1>6 DEF DrawInv, InCells

(* A pair over its quota is put aside, and still waits.                    *)
LEMMA PutAsideKeeps ==
  ASSUME DrawInv, NEW c \in SampleCells, NEW a \in draw.cells[c], draw.at = "drawing",
         draw.strategy = "quota", draw.quota, draw' = PutAside(c, a)
  PROVE  DrawInv'
<1>1. /\ DrawShape' /\ draw'.cells = [draw.cells EXCEPT ![c] = @ \ {a}]
      /\ draw'.deferred = [draw.deferred EXCEPT ![c] = @ \union {a}]
      /\ UNCHANGED <<draw.out, draw.framed, draw.quota, draw.strategy, draw.at>>
      /\ draw'.rejected.noText = draw.rejected.noText
  BY DEF DrawInv, DrawShape, PutAside, Popped
<1>2. InCells(draw'.cells) /\ All(draw'.cells) = All(draw.cells) \ {a} /\ a \in All(draw.cells) /\ a \in DrawPairs
  BY <1>1, OneCell DEF DrawInv
<1>3. CellOf(a) = c
  BY DEF DrawInv, InCells
<1>4. InCells(draw'.deferred) /\ All(draw'.deferred) = All(draw.deferred) \cup {a}
  BY <1>1, <1>2, <1>3, OneMore DEF DrawInv
<1>5. Taken' = Taken /\ OnceEach' /\ Waiting' = Waiting
  <2>1. Taken' = Taken /\ OnceEach'
    BY <1>1 DEF DrawInv, Taken, OnceEach
  <2> QED BY <1>1, <1>2, <1>4, <2>1 DEF Waiting
<1>6. Gone' = Gone /\ GoneCounted'
  BY <1>1, <1>5 DEF DrawInv, Gone, GoneCounted
<1>7. PartsApart'
  BY <1>1, <1>2, <1>4, <1>5 DEF DrawInv, PartsApart
<1> QED BY <1>1, <1>2, <1>4, <1>5, <1>6, <1>7 DEF DrawInv, InCells

(* A pair that is taken is a row, its first.                               *)
LEMMA TakeRowKeeps ==
  ASSUME DrawInv, NEW c \in SampleCells, NEW a \in draw.cells[c], draw.at = "drawing",
         draw' = TakeRow(c, a)
  PROVE  DrawInv'
<1>1. InCells(draw.cells) /\ draw.out \in Seq({one(b) : b \in DrawPairs})
  BY DEF DrawInv, DrawShape
<1>2. a \in All(draw.cells) /\ a \in DrawPairs /\ one(a).of = a
  BY <1>1, OneCell DEF one
<1>3. /\ DrawShape' /\ draw'.cells = [draw.cells EXCEPT ![c] = @ \ {a}]
      /\ draw'.out = Append(draw.out, one(a))
      /\ UNCHANGED <<draw.deferred, draw.framed, draw.quota, draw.strategy, draw.at, draw.rejected>>
  <2>1. Append(draw.out, one(a)) \in Seq({one(b) : b \in DrawPairs})
    BY <1>1, <1>2
  <2> QED BY <2>1 DEF DrawInv, DrawShape, TakeRow, Popped
<1>4. InCells(draw'.cells) /\ All(draw'.cells) = All(draw.cells) \ {a}
  <2>1. InCells([draw.cells EXCEPT ![c] = @ \ {a}]) /\ All([draw.cells EXCEPT ![c] = @ \ {a}]) = All(draw.cells) \ {a}
    BY <1>1, OneCell
  <2> QED BY <1>3, <2>1, Zenon
<1>5. /\ Len(draw'.out) = Len(draw.out) + 1 /\ draw'.out[Len(draw.out) + 1] = one(a)
      /\ \A i \in 1..Len(draw.out) : draw'.out[i] = draw.out[i]
      /\ Len(draw.out) \in Nat
  BY <1>1, <1>2, <1>3
<1>6. Taken' = Taken \cup {a} /\ a \notin Taken
  BY <1>2, <1>5, SMTT(40) DEF Taken, DrawInv, PartsApart, Waiting
<1>7. OnceEach'
  <2>1. \A i \in 1..Len(draw.out) : draw.out[i].of # a
    BY <1>6 DEF Taken
  <2>2. \A i \in 1..Len(draw'.out) : i \in 1..Len(draw.out) \/ i = Len(draw.out) + 1
    BY <1>5
  <2>3. \A i, j \in 1..Len(draw.out) : draw.out[i].of = draw.out[j].of => i = j
    BY DEF DrawInv, OnceEach
  <2> SUFFICES ASSUME NEW i \in 1..Len(draw'.out), NEW j \in 1..Len(draw'.out),
                      draw'.out[i].of = draw'.out[j].of
               PROVE  i = j
    BY DEF OnceEach
  <2>4. CASE i \in 1..Len(draw.out) /\ j \in 1..Len(draw.out)
    BY <1>5, <2>3, <2>4
  <2>5. CASE i = Len(draw.out) + 1 \/ j = Len(draw.out) + 1
    BY <1>2, <1>5, <2>1, <2>2, <2>5
  <2> QED BY <2>2, <2>4, <2>5
<1>8. Waiting' = Waiting \ {a} /\ a \in Waiting
  BY <1>2, <1>3, <1>4 DEF Waiting, DrawInv, PartsApart
<1>9. Gone' = Gone /\ GoneCounted' /\ PartsApart'
  BY <1>3, <1>4, <1>6, <1>8 DEF DrawInv, Gone, GoneCounted, PartsApart
<1> QED BY <1>3, <1>4, <1>7, <1>9 DEF DrawInv, InCells

(* Nothing waits but what was put aside, and it is let in again.           *)
LEMMA ReleaseKeeps == ASSUME DrawInv, Release PROVE DrawInv'
<1>1. /\ DrawShape' /\ draw'.cells = draw.deferred /\ draw'.deferred = NoPairs
      /\ UNCHANGED <<draw.out, draw.framed, draw.strategy, draw.at>>
      /\ draw'.rejected.noText = draw.rejected.noText /\ draw.at = "drawing"
  BY DEF DrawInv, DrawShape, Release, Drawing
<1>2. All(draw.cells) = {}
  BY DEF Release, Live, All
<1>3. Taken' = Taken /\ OnceEach' /\ Waiting' = Waiting
  BY <1>1, <1>2, NoneWaits DEF DrawInv, Taken, OnceEach, Waiting
<1>4. Gone' = Gone /\ GoneCounted' /\ PartsApart'
  BY <1>1, <1>3, NoneWaits DEF DrawInv, Gone, GoneCounted, PartsApart, Waiting
<1> QED BY <1>1, <1>3, <1>4, NoneWaits DEF DrawInv, InCells

(* The draw ends.                                                          *)
LEMMA DrawEnds == ASSUME DrawInv, TextFails \/ Drawn PROVE DrawInv'
<1>1. /\ DrawShape' /\ UNCHANGED <<draw.cells, draw.deferred, draw.out, draw.framed, draw.quota, draw.strategy>>
      /\ UNCHANGED draw.rejected.noText /\ draw'.at \in {"raised", "drawn"}
  BY DEF DrawInv, DrawShape, TextFails, Drawn
<1>2. Taken' = Taken /\ OnceEach' /\ Waiting' = Waiting
  BY <1>1 DEF DrawInv, Taken, OnceEach, Waiting
<1>3. Gone' = Gone /\ GoneCounted' /\ PartsApart'
  BY <1>1, <1>2 DEF DrawInv, Gone, GoneCounted, PartsApart
<1>4. ASSUME draw'.at = "drawn", Len(draw.out) < N PROVE Waiting = {}
  <2>1. Drawn
    BY <1>4 DEF TextFails, DrawInv, DrawShape
  <2>2. Live = {} /\ (draw.strategy = "quota" => ~Releases)
    BY <1>4, <2>1, SampleAssumption DEF Drawn
  <2>3. All(draw.cells) = {}
    BY <2>2 DEF Live, All
  <2>4. All(draw.deferred) = {}
    BY <2>2 DEF Releases, DrawInv, DrawShape
  <2> QED BY <2>3, <2>4 DEF Waiting
<1> QED BY <1>1, <1>2, <1>3, <1>4 DEF DrawInv, InCells

(* The invariant of a draw.                                                *)
LEMMA DrawInvariant == SampleSpec => []DrawInv
<1>1. DrawInv /\ [SampleNext]_draw => DrawInv'
  <2> SUFFICES ASSUME DrawInv, [SampleNext]_draw PROVE DrawInv'
    OBVIOUS
  <2>1. CASE Pop
    <3>1. PICK c \in Neediest : \E a \in draw.cells[c] :
             draw' = IF ~Readable(a) THEN NoParagraph(c, a)
               ELSE IF draw.quota /\ OverQuota(one(a).bucket) /\ draw.tries[c] + 1 <= MaxTries THEN PutAside(c, a)
               ELSE TakeRow(c, a)
      BY <2>1 DEF Pop
    <3>2. c \in SampleCells /\ draw.at = "drawing" /\ draw.strategy = "quota"
      BY <2>1 DEF Pop, Drawing, Neediest, Live
    <3> QED BY <3>1, <3>2, NoParagraphKeeps, PutAsideKeeps, TakeRowKeeps
  <2>2. CASE PopAny
    <3>1. PICK c \in Live : \E a \in draw.cells[c] :
             draw' = IF Readable(a) THEN TakeRow(c, a) ELSE NoParagraph(c, a)
      BY <2>2 DEF PopAny
    <3>2. c \in SampleCells /\ draw.at = "drawing"
      BY <2>2 DEF PopAny, Drawing, Live
    <3> QED BY <3>1, <3>2, NoParagraphKeeps, TakeRowKeeps
  <2>3. CASE UNCHANGED draw
    BY <2>3 DEF DrawInv, DrawShape, InCells, OnceEach, PartsApart, GoneCounted, Gone, Waiting, Taken
  <2> QED BY <2>1, <2>2, <2>3, ReleaseKeeps, DrawEnds DEF SampleNext
<1> QED BY <1>1, SampleStarts, PTL DEF SampleSpec

(* sample.py: a draw that returns fewer rows than were asked for has taken *)
(* every pair of its frame that can give one, once, however the pairs over *)
(* their quota were put aside and let in again; and the count it reports   *)
(* of those without a paragraph is what is missing.                        *)
THEOREM ShortDrawsExhaust == SampleSpec => []ShortMeansExhausted
<1>1. DrawInv => ShortMeansExhausted
  <2> SUFFICES ASSUME DrawInv, draw.at = "drawn"
               PROVE  ShortMeansExhausted
    BY DEF ShortMeansExhausted
  <2> DEFINE rows == [i \in 1..Len(draw.out) |-> draw.out[i].of]
  <2>1. ToSet(rows) = Taken /\ IsInjective(rows)
    BY DEF ToSet, Taken, IsInjective, DrawInv, OnceEach
  <2>2. Taken \subseteq draw.framed
    BY DEF DrawInv, PartsApart
  <2>3. Len(rows) = Len(draw.out)
    BY DEF DrawInv, DrawShape
  <2>4. Len(draw.out) < N => draw.framed \ Taken = Gone
    BY DEF DrawInv, Gone
  <2> QED BY <2>1, <2>2, <2>3, <2>4 DEF ShortMeansExhausted, DrawInv, GoneCounted
<1> QED BY <1>1, DrawInvariant, PTL

-----------------------------------------------------------------------------
(* GeneratorRun: the artifact speaks of the index that was asked.          *)

(* A run and the target's directory are what their fields say.             *)
RunShape ==
  bench = [at |-> bench.at, seed |-> bench.seed, scope |-> bench.scope, reuse |-> bench.reuse,
           only |-> bench.only, settings |-> bench.settings, writer |-> bench.writer,
           reason |-> bench.reason, build |-> bench.build, timedOut |-> bench.timedOut,
           target |-> bench.target, rows |-> bench.rows, status |-> bench.status,
           artifact |-> bench.artifact]
DirShape ==
  /\ targetDir = [scope |-> targetDir.scope, index |-> targetDir.index, record |-> targetDir.record,
                  weights |-> targetDir.weights]
  /\ targetDir.index = [scope |-> targetDir.index.scope, by |-> targetDir.index.by, is |-> targetDir.index.is]
BenchShape == RunShape /\ DirShape /\ (bench.at # "off" => bench.settings \in Embedders)

(* An index that is stamped is whole, by an embedder whose weights the     *)
(* target keeps; nothing writes to it until a run starts another.          *)
StampedWhole ==
  LET by == targetDir.index.by IN
  by # NoEmbedder => /\ targetDir.index.is = "whole"
                     /\ by \in {Made(e) : e \in Embedders} /\ by.model \in targetDir.weights

(* Until the questions are put, the index of a run that builds is of its   *)
(* scope; afterwards the index asked is still the one there if it was      *)
(* stamped.                                                                *)
BuiltOver ==
  bench.at \in {"poll", "built", "sample", "questions", "ask"} /\ ~bench.reuse =>
    /\ targetDir.index.scope = bench.scope
    /\ bench.at # "poll" /\ bench.build = "done" => targetDir.index.is = "whole"
AskedStill ==
  bench.at \in {"status", "artifact"} =>
    /\ askedIndex.by # NoEmbedder => askedIndex = targetDir.index
    /\ ~bench.reuse => askedIndex.scope = bench.scope /\ (bench.build = "done" => askedIndex.is = "whole")

BenchInv ==
  /\ BenchShape /\ StampedWhole /\ BuiltOver /\ AskedStill
  /\ bench.at # "over" => bench.artifact = <<>>
  /\ bench.at = "reuse" => bench.reuse
  /\ ArtifactOfItsIndex

(* The stamp leaves the defaults out, and expanding it puts them back.     *)
LEMMA StampExpands ==
  ASSUME NEW e \in Embedders, NEW stamped, stamped.by = Made(e)
  PROVE  ExpandStamp(Stamp(stamped)) = Made(e) /\ Stamp(stamped).model # NoName
<1>1. NoName \notin {e.model, e.dtype, e.pooling}
  BY EmbeddersAssumption DEF NoName
<1> QED BY <1>1 DEF Made, Stamp, ExpandStamp, NoName

(* Nothing is built, and nothing is asked.                                 *)
LEMMA BenchStarts == BenchInit => BenchInv
BY DEF BenchInit, BenchInv, BenchShape, RunShape, DirShape, StampedWhole, BuiltOver, AskedStill, ArtifactOfItsIndex, NoBench,
       NothingBuilt, NoEmbedder

(* The target's own step.                                                  *)
LEMMA TargetKeeps == ASSUME BenchInv, TargetBuilds("whole") PROVE BenchInv'
<1>1. /\ bench' = bench /\ askedIndex' = askedIndex
      /\ targetDir' = [targetDir EXCEPT !.index.is = "whole", !.index.by = Made(bench.settings),
                                        !.weights = @ \union {bench.settings.model}]
      /\ targetDir.index.is = "part" /\ bench.settings \in Embedders
  BY DEF TargetBuilds, BenchInv, BenchShape
<1>2. /\ targetDir'.index = [scope |-> targetDir.index.scope, by |-> Made(bench.settings), is |-> "whole"]
      /\ targetDir'.weights = targetDir.weights \cup {bench.settings.model}
      /\ targetDir' = [scope |-> targetDir.scope, index |-> targetDir'.index, record |-> targetDir.record,
                       weights |-> targetDir'.weights]
  BY <1>1 DEF BenchInv, BenchShape, DirShape
<1>3. BenchShape' /\ ArtifactOfItsIndex' /\ (bench.at # "over" => bench.artifact = <<>>)'
      /\ (bench.at = "reuse" => bench.reuse)'
  BY <1>1, <1>2 DEF BenchInv, BenchShape, RunShape, DirShape, ArtifactOfItsIndex
<1>4. StampedWhole'
  <2>1. Made(bench.settings).model = bench.settings.model
    BY DEF Made
  <2>2. /\ targetDir'.index.by = Made(bench.settings) /\ targetDir'.index.is = "whole"
        /\ bench.settings.model \in targetDir'.weights
    BY <1>2
  <2> QED BY <1>1, <2>1, <2>2 DEF StampedWhole
<1>5. BuiltOver'
  <2>1. targetDir'.index.scope = targetDir.index.scope /\ targetDir'.index.is = "whole"
    BY <1>2
  <2> QED BY <1>1, <2>1 DEF BenchInv, BuiltOver
<1>6. AskedStill'
  BY <1>1, <1>2 DEF BenchInv, AskedStill, StampedWhole
<1> QED BY <1>3, <1>4, <1>5, <1>6 DEF BenchInv

(* Steps of a run that leave the target's directory and what was asked     *)
(* alone: what they must not disturb.                                      *)
LEMMA RunOnly ==
  ASSUME BenchInv, UNCHANGED <<targetDir, askedIndex>>, bench.at # "off", RunShape',
         UNCHANGED <<bench.scope, bench.reuse, bench.settings, bench.artifact>>,
         bench.artifact = <<>>,
         bench'.at \in {"poll", "built", "sample", "questions", "ask"} /\ ~bench.reuse =>
           /\ bench.at \in {"poll", "built", "sample", "questions", "ask"}
           /\ bench'.build = "done" /\ bench'.at # "poll" => bench.build = "done" /\ bench.at # "poll",
         bench'.at \in {"status", "artifact"} => bench.at \in {"status", "artifact"} /\ bench'.build = bench.build,
         bench'.at = "reuse" => bench.reuse
  PROVE  BenchInv'
<1>1. BenchShape' /\ ArtifactOfItsIndex'
  BY DEF BenchInv, BenchShape, DirShape, ArtifactOfItsIndex
<1>2. StampedWhole' /\ BuiltOver' /\ AskedStill'
  BY DEF BenchInv, StampedWhole, BuiltOver, AskedStill
<1> QED BY <1>1, <1>2 DEF BenchInv

(* The other steps of a run before it asks, and its ends.                  *)
LEMMA RestKeeps ==
  ASSUME BenchInv,
         BuildWriter \/ StartTarget \/ ReuseIndex \/ BuildOnly \/ Sample \/ NoKeys \/ WriteQuestions
           \/ ReadStatus \/ Ends
  PROVE  BenchInv'
<1> DEFINE Alone == /\ UNCHANGED <<targetDir, askedIndex>> /\ RunShape'
                    /\ UNCHANGED <<bench.scope, bench.reuse, bench.settings, bench.artifact>>
<1>1. RunShape /\ (bench.at # "over" => bench.artifact = <<>>)
  BY DEF BenchInv, BenchShape
<1>2. CASE BuildWriter
  <2>1. PICK writer, reason : bench' = [bench EXCEPT !.at = "start", !.writer = writer, !.reason = reason]
    BY <1>2, Zenon DEF BuildWriter
  <2>2. Alone /\ bench'.at = "start" /\ bench.at = "writer"
    BY <1>1, <1>2, <2>1 DEF BuildWriter, At_, Rest, RunShape
  <2> QED BY <1>1, <2>2, RunOnly
<1>3. CASE StartTarget
  <2>1. PICK at \in {"reuse", "build"} : /\ bench' = [bench EXCEPT !.target = "up", !.at = at]
                                         /\ at = "reuse" => bench.reuse
    BY <1>3, Zenon DEF StartTarget
  <2>2. Alone /\ bench'.at \in {"reuse", "build"} /\ bench.at = "start" /\ (bench'.at = "reuse" => bench.reuse)
    BY <1>1, <1>3, <2>1 DEF StartTarget, At_, Rest, RunShape
  <2> QED BY <1>1, <2>2, RunOnly
<1>4. CASE ReuseIndex
  <2>1. Alone /\ bench'.at = "sample" /\ bench.at = "reuse"
    BY <1>1, <1>4 DEF ReuseIndex, At_, Rest, RunShape
  <2>2. bench.reuse
    BY <1>4 DEF BenchInv, ReuseIndex, At_
  <2> QED BY <1>1, <2>1, <2>2, RunOnly
<1>5. CASE BuildOnly
  <2>1. PICK at \in {"over", "sample"}, process \in {"down", bench.target} : bench' = [bench EXCEPT !.at = at, !.target = process]
    <3>1. CASE bench.only
      BY <1>5, <3>1 DEF BuildOnly
    <3>2. CASE ~bench.only
      <4>1. bench' = [bench EXCEPT !.at = "sample", !.target = bench.target]
        BY <1>1, <1>5, <3>2 DEF BuildOnly, RunShape
      <4> QED BY <4>1
    <3> QED BY <3>1, <3>2
  <2>2. Alone /\ bench'.at \in {"over", "sample"} /\ bench.at = "built" /\ bench'.build = bench.build
    BY <1>1, <1>5, <2>1 DEF BuildOnly, At_, Rest, RunShape
  <2> QED BY <1>1, <2>2, RunOnly
<1>6. CASE Sample \/ NoKeys \/ Ends
  <2>1. /\ Alone /\ bench'.at \in {"over", "questions"} /\ bench'.build = bench.build
        /\ bench.at \notin {"off", "over"} /\ (bench'.at = "questions" => bench.at = "sample")
    BY <1>1, <1>6 DEF Sample, NoKeys, Ends, At_, Rest, RunShape
  <2> QED BY <1>1, <2>1, RunOnly
<1>7. CASE WriteQuestions
  <2>1. PICK rows : bench' = [bench EXCEPT !.at = "ask", !.rows = rows]
    BY <1>7, Zenon DEF WriteQuestions, TemplateWrites, ServerWrites, ProcessWrites, Written
  <2>2. Alone /\ bench'.at = "ask" /\ bench.at = "questions" /\ bench'.build = bench.build
    BY <1>1, <1>7, <2>1 DEF WriteQuestions, At_, Rest, RunShape
  <2> QED BY <1>1, <2>2, RunOnly
<1>8. CASE ReadStatus
  <2>1. Alone /\ bench'.at = "artifact" /\ bench.at = "status" /\ bench'.build = bench.build
    BY <1>1, <1>8 DEF ReadStatus, At_, Rest, RunShape
  <2> QED BY <1>1, <2>1, RunOnly
<1> QED BY <1>2, <1>3, <1>4, <1>5, <1>6, <1>7, <1>8

(* The steps that start a run, draw a scope and build.                     *)
LEMMA RunKeeps ==
  ASSUME BenchInv, StartRun \/ DrawScope \/ StartBuild \/ BuildSettled \/ BuildTimesOut
  PROVE  BenchInv'
<1>1. RunShape /\ DirShape /\ (bench.at # "over" => bench.artifact = <<>>)
  BY DEF BenchInv, BenchShape
<1>2. CASE StartRun
  <2>1. PICK s \in Seeds, e \in Embedders, reuse, only \in BOOLEAN :
          bench' = [NoBench EXCEPT !.at = "scope", !.seed = s, !.settings = e, !.reuse = reuse, !.only = only]
    BY <1>2 DEF StartRun
  <2>2. RunShape' /\ bench'.at = "scope" /\ bench'.settings \in Embedders /\ bench'.artifact = <<>>
    BY <2>1 DEF NoBench, RunShape
  <2>3. UNCHANGED targetDir
    BY <1>2 DEF StartRun
  <2> QED BY <1>1, <2>2, <2>3 DEF BenchInv, BenchShape, DirShape, StampedWhole, BuiltOver, AskedStill, ArtifactOfItsIndex
<1>3. CASE DrawScope
  <2>1. PICK drawn : /\ bench' = [bench EXCEPT !.at = "writer", !.scope = drawn]
                     /\ targetDir' = [targetDir EXCEPT !.scope = drawn]
    BY <1>3, Zenon DEF DrawScope
  <2>2. /\ RunShape' /\ DirShape' /\ bench.at = "scope" /\ bench'.at = "writer" /\ UNCHANGED bench.settings
        /\ bench'.artifact = <<>> /\ UNCHANGED <<targetDir.index, targetDir.weights>>
    BY <1>1, <1>3, <2>1 DEF DrawScope, At_, RunShape, DirShape
  <2> QED BY <2>2 DEF BenchInv, BenchShape, StampedWhole, BuiltOver, AskedStill, ArtifactOfItsIndex
<1>4. CASE StartBuild
  <2>1. /\ RunShape' /\ DirShape' /\ bench.at = "build" /\ bench'.at = "poll" /\ UNCHANGED bench.settings
        /\ bench'.artifact = <<>> /\ UNCHANGED <<targetDir.weights, bench.scope>>
        /\ targetDir'.index.scope = bench.scope /\ targetDir'.index.by = NoEmbedder
    BY <1>1, <1>4 DEF StartBuild, At_, To, RunShape, DirShape, NothingBuilt
  <2> QED BY <2>1 DEF BenchInv, BenchShape, StampedWhole, BuiltOver, AskedStill, ArtifactOfItsIndex
<1>5. CASE BuildSettled \/ BuildTimesOut
  <2>1. PICK state, late :
           /\ state = "done" => targetDir.index.is = "whole"
           /\ bench' = [bench EXCEPT !.at = "built", !.build = state, !.timedOut = late]
           /\ targetDir' = [targetDir EXCEPT !.record = state]
    <3>1. CASE BuildTimesOut
      BY <3>1 DEF BuildTimesOut
    <3>2. CASE BuildSettled
      <4>1. PICK state : /\ state = "done" <=> targetDir.index.is = "whole"
                         /\ bench' = [bench EXCEPT !.at = "built", !.build = state]
                         /\ targetDir' = [targetDir EXCEPT !.record = state]
        BY <3>2 DEF BuildSettled
      <4>2. bench' = [bench EXCEPT !.at = "built", !.build = state, !.timedOut = bench.timedOut]
        BY <1>1, <4>1 DEF RunShape
      <4> QED BY <4>1, <4>2
    <3> QED BY <1>5, <3>1, <3>2
  <2>2. /\ RunShape' /\ DirShape' /\ bench.at = "poll" /\ bench'.at = "built"
        /\ UNCHANGED <<bench.settings, bench.scope, bench.reuse>>
        /\ bench'.artifact = <<>> /\ UNCHANGED <<targetDir.weights, targetDir.index>>
        /\ bench'.build = "done" => targetDir.index.is = "whole"
    BY <1>1, <1>5, <2>1 DEF BuildSettled, BuildTimesOut, At_, RunShape, DirShape
  <2> QED BY <2>2 DEF BenchInv, BenchShape, StampedWhole, BuiltOver, AskedStill, ArtifactOfItsIndex
<1> QED BY <1>2, <1>3, <1>4, <1>5

(* The questions are put to the index that is there.                       *)
LEMMA AskKeeps == ASSUME BenchInv, AskTarget PROVE BenchInv'
<1>1. PICK rows : bench' = [bench EXCEPT !.at = "status", !.rows = rows]
  BY Zenon DEF AskTarget
<1>2. /\ RunShape' /\ bench.at = "ask" /\ bench'.at = "status" /\ UNCHANGED targetDir
      /\ UNCHANGED <<bench.settings, bench.scope, bench.reuse, bench.build>>
      /\ bench'.artifact = <<>> /\ askedIndex' = targetDir.index
  BY <1>1 DEF AskTarget, At_, RunShape, BenchInv, BenchShape
<1> QED BY <1>2 DEF BenchInv, BenchShape, DirShape, StampedWhole, BuiltOver, AskedStill, ArtifactOfItsIndex

(* write_artifact(): what the identity says of a stamped index is what was *)
(* asked.                                                                  *)
LEMMA ArtifactKeeps == ASSUME BenchInv, WriteArtifact PROVE BenchInv'
<1> DEFINE doc == [scope |-> bench.scope, identity |-> EmbedderIdentity, build |-> bench.build,
                   timedOut |-> bench.timedOut, builtHere |-> bench.build # NoName /\ ~bench.reuse,
                   writer |-> bench.writer, reason |-> bench.reason,
                   ladder |-> [v \in {"win", "near-win", "miss"} |-> Ladder(bench.rows, v)]]
<1>1. /\ bench' = [bench EXCEPT !.at = "over", !.artifact = <<doc>>]
      /\ bench.at = "artifact" /\ targetDir' = targetDir /\ askedIndex' = askedIndex
  BY DEF WriteArtifact, Rest, At_
<1>2. ASSUME EmbedderIdentity.from = "stamp", askedIndex.by # NoEmbedder
      PROVE  EmbedderIdentity.embedder = askedIndex.by /\ EmbedderIdentity.weights = {askedIndex.by.model}
  <2>1. askedIndex = targetDir.index
    BY <1>1, <1>2 DEF BenchInv, AskedStill
  <2>2. PICK e \in Embedders : targetDir.index.by = Made(e)
    BY <1>2, <2>1 DEF BenchInv, StampedWhole
  <2>3. Stamp(targetDir.index).model # NoName /\ ExpandStamp(Stamp(targetDir.index)) = Made(e)
    BY <2>2, StampExpands
  <2>4. /\ EmbedderIdentity.embedder = Made(e)
        /\ EmbedderIdentity.weights = weights_digest(Made(e).model)
    BY <2>3 DEF EmbedderIdentity
  <2>5. Made(e).model \in targetDir.weights
    BY <1>2, <2>1, <2>2 DEF BenchInv, StampedWhole
  <2> QED BY <2>1, <2>2, <2>4, <2>5 DEF weights_digest
<1>3. doc.builtHere => doc.scope = askedIndex.scope /\ (doc.build = "done" => askedIndex.is = "whole")
  BY <1>1 DEF BenchInv, AskedStill
<1>4. doc.identity = EmbedderIdentity
  OBVIOUS
<1> HIDE DEF doc
<1>5. bench'.artifact = <<doc>> /\ bench'.at = "over"
  BY <1>1 DEF BenchInv, BenchShape, RunShape
<1>6. ArtifactOfItsIndex'
  BY <1>1, <1>2, <1>3, <1>4, <1>5 DEF ArtifactOfItsIndex
<1> QED BY <1>1, <1>5, <1>6 DEF BenchInv, BenchShape, RunShape, DirShape, StampedWhole, BuiltOver, AskedStill

(* The invariant of a bench and the target it measures.                    *)
LEMMA BenchInvariant == BenchSpec => []BenchInv
<1>1. BenchInv /\ [BenchNext]_benchVars => BenchInv'
  <2> SUFFICES ASSUME BenchInv, [BenchNext]_benchVars PROVE BenchInv'
    OBVIOUS
  <2>1. CASE UNCHANGED benchVars
    BY <2>1 DEF benchVars, BenchInv, BenchShape, RunShape, DirShape, StampedWhole, BuiltOver, AskedStill, ArtifactOfItsIndex
  <2> QED BY <2>1, TargetKeeps, RestKeeps, RunKeeps, AskKeeps, ArtifactKeeps DEF BenchNext
<1> QED BY <1>1, BenchStarts, PTL DEF BenchSpec

(* run.py: the embedder an artifact names made the vectors its questions   *)
(* found, with the weights the target has, although the target is          *)
(* configured anew between runs, a build goes on behind a deadline that    *)
(* passed, and the directory outlives the run that built it; and a build   *)
(* it claims is of its own scope.                                          *)
THEOREM ArtifactsOfTheirIndex == BenchSpec => []ArtifactOfItsIndex
<1>1. BenchInv => ArtifactOfItsIndex
  BY DEF BenchInv
<1> QED BY <1>1, BenchInvariant, PTL

-----------------------------------------------------------------------------
(* ScopeProxy: a reader's pages are those of one listing, and a listing    *)
(* misses what was not there.                                              *)

(* A row, a listing, a reader; what the proxy keeps; the library.          *)
Row == [key : LibraryItems, version : Nat]
Listings == [status : {"none", "200", "503"}, rows : Seq(Row), version : Nat, torn : BOOLEAN]
Reader == [path : Paths, at : {"ask", "read", "serve", "over"}, todo : Seq(LibraryItems), start : Nat,
           listing : Listings, got : Seq(Row), total : Int, crossed : BOOLEAN]
ScopeTypeOK ==
  /\ zotero.of \in [LibraryItems -> Nat] /\ zotero.version \in Nat
  /\ scope.records \subseteq LibraryItems /\ scope.children \subseteq LibraryItems
  /\ kept \in [Paths -> Listings] /\ reader \in [Readers -> Reader]

(* Rows of a listing have each a key of its own, of those asked for; a key *)
(* without a row is still to be read, or is not in the library.            *)
HasKey(rows, k) == \E i \in 1..Len(rows) : rows[i].key = k
Once(rows, path) ==
  /\ \A i \in 1..Len(rows) : rows[i].key \in KeysOf(path)
  /\ \A i, j \in 1..Len(rows) : rows[i].key = rows[j].key => i = j
Lacking(rows, path, todo) == \A k \in KeysOf(path) \ todo : HasKey(rows, k) \/ zotero.of[k] = 0
Sound(listing, path, todo) ==
  /\ listing.status \in {"200", "503"}
  /\ listing.status = "200" => Once(listing.rows, path) /\ (listing.torn \/ Lacking(listing.rows, path, todo))

KeptSound == \A p \in Paths : kept[p] # NoListing => Sound(kept[p], p, {})

(* The rows that the answer had before the page to be read now.            *)
Answer(r) == InOrder[Present(reader[r].path, ToSet(FirstChunk(reader[r].todo)))]
AnsweredSoFar(r) ==
  \/ reader[r].start = 0 \/ reader[r].listing.torn
  \/ reader[r].listing.version < zotero.version
  \/ \A i \in 1..reader[r].start :
       i \in 1..Len(Answer(r)) /\ Answer(r)[i] \in AllKeys => HasKey(reader[r].listing.rows, Answer(r)[i])

ReadingSound(r) == reader[r].at = "read" =>
  /\ reader[r].got = <<>> /\ reader[r].listing.version <= zotero.version
  /\ ToSet(reader[r].todo) \subseteq KeysOf(reader[r].path)
  /\ Sound(reader[r].listing, reader[r].path, ToSet(reader[r].todo))
  /\ reader[r].todo # <<>> => reader[r].listing.status = "200" /\ AnsweredSoFar(r)
ServingSound(r) == reader[r].at = "serve" =>
  /\ Sound(reader[r].listing, reader[r].path, {}) /\ kept[reader[r].path] # NoListing
  /\ ~reader[r].crossed => reader[r].listing = kept[reader[r].path]

(* What a reader got is the beginning of what is kept, for as long as no   *)
(* other thread has replaced it; in the end it is all of a listing.        *)
GotSound(r) == reader[r].got # <<>> =>
  /\ kept[reader[r].path] # NoListing
  /\ ~reader[r].crossed =>
       /\ Len(reader[r].got) <= Len(kept[reader[r].path].rows)
       /\ \A i \in 1..Len(reader[r].got) : reader[r].got[i] = kept[reader[r].path].rows[i]
OverSound(r) == reader[r].at = "over" /\ reader[r].total >= 0 /\ ~reader[r].crossed =>
  /\ Len(reader[r].got) = reader[r].total /\ Once(reader[r].got, reader[r].path)
  /\ reader[r].listing.torn \/ Lacking(reader[r].got, reader[r].path, {})

ReaderSound(r) == ReadingSound(r) /\ ServingSound(r) /\ GotSound(r) /\ OverSound(r)
ListingInv == ScopeTypeOK /\ KeptSound /\ \A r \in Readers : ReaderSound(r)

LEMMA NoListingIs ==
  /\ NoListing \in Listings /\ NoListing.rows = <<>> /\ NoListing.version = 0 /\ NoListing.torn = FALSE
  /\ DOMAIN NoListing = {"status", "rows", "version", "torn"}
<1>1. <<>> \in Seq(Row)
  OBVIOUS
<1> QED BY <1>1 DEF NoListing, Listings

LEMMA KeysAreItems ==
  ASSUME ScopeTypeOK, NEW p PROVE KeysOf(p) \subseteq LibraryItems /\ AllKeys \subseteq LibraryItems
BY DEF ScopeTypeOK, KeysOf, AllKeys

(* A finite set has an order.                                              *)
LEMMA OrderFacts ==
  ASSUME NEW keys \in SUBSET LibraryItems
  PROVE  /\ InOrder[keys] \in Seq(keys) /\ InOrder[keys] \in Seq(LibraryItems)
         /\ \A i, j \in 1..Len(InOrder[keys]) : InOrder[keys][i] = InOrder[keys][j] => i = j
         /\ \A k \in keys : \E i \in 1..Len(InOrder[keys]) : InOrder[keys][i] = k
<1> DEFINE n == Cardinality(keys)
           s == SetToSeq(keys)
<1>1. IsFiniteSet(keys)
  BY ListingAssumption, FS_Subset
<1>2. n \in Nat /\ ExistsBijection(1..n, keys)
  BY <1>1, FS_CardinalityType
<1>3. \E f \in [1..n -> keys] : IsInjective(f)
  BY <1>2 DEF ExistsBijection, Bijection, Injection
<1>4. s \in [1..n -> keys] /\ IsInjective(s)
  BY <1>3 DEF SetToSeq
<1>5. IsFiniteSet(1..n) /\ Cardinality(1..n) = n
  BY <1>2, FS_Interval
<1> HIDE DEF n, s
<1>6. s \in Surjection(1..n, keys)
  <2>1. s \in Injection(1..n, keys)
    BY <1>4 DEF Injection
  <2>2. Cardinality(1..n) = Cardinality(keys)
    BY <1>5 DEF n
  <2> QED BY <1>1, <2>1, <2>2, FS_Injection
<1>7. \A k \in keys : \E i \in 1..n : s[i] = k
  BY <1>6 DEF Surjection
<1>8. s \in Seq(keys) /\ Len(s) = n
  BY <1>2, <1>4
<1>9. InOrder[keys] = s
  BY DEF InOrder, s
<1>10. s \in Seq(LibraryItems)
  BY <1>8
<1> QED BY <1>4, <1>7, <1>8, <1>9, <1>10 DEF IsInjective

(* A slice is as long as asked for, or goes to the end.                    *)
SliceOf(c, s, start, n) ==
  /\ Len(c) \in Nat /\ \A i \in 1..Len(c) : c[i] = s[start + i]
  /\ Len(c) = 0 \/ start + Len(c) <= Len(s)
  /\ Len(c) = n \/ start + Len(c) >= Len(s)

LEMMA SliceFacts ==
  ASSUME NEW S, NEW s \in Seq(S), NEW start \in Nat, NEW n \in Nat
  PROVE  Slice(s, start, n) \in Seq(S) /\ SliceOf(Slice(s, start, n), s, start, n)
<1> DEFINE m == IF start + n < Len(s) THEN start + n ELSE Len(s)
           c == SubSeq(s, start + 1, m)
<1>1. Len(s) \in Nat /\ m \in Int /\ \A i \in start + 1..m : s[i] \in S
  OBVIOUS
<1> HIDE DEF m
<1>2. /\ c \in Seq(S) /\ Len(c) = (IF start + 1 <= m THEN m - (start + 1) + 1 ELSE 0)
      /\ \A i \in 1..m - (start + 1) + 1 : c[i] = s[start + 1 + i - 1]
  BY <1>1, SubSeqProperties
<1>3. Slice(s, start, n) = c
  BY DEF Slice, m
<1> HIDE DEF c
<1>4. \A i \in 1..Len(c) : c[i] = s[start + i]
  BY <1>1, <1>2
<1>5. /\ Len(c) \in Nat /\ (Len(c) = 0 \/ start + Len(c) <= Len(s))
      /\ Len(c) = n \/ start + Len(c) >= Len(s)
  BY <1>1, <1>2 DEF m
<1> QED BY <1>2, <1>3, <1>4, <1>5 DEF SliceOf

(* The keys to ask for are those of the first chunk and those of the rest. *)
LEMMA ChunkFacts ==
  ASSUME NEW todo \in Seq(LibraryItems)
  PROVE  /\ FirstChunk(todo) \in Seq(LibraryItems) /\ OtherChunks(todo) \in Seq(LibraryItems)
         /\ ToSet(FirstChunk(todo)) \subseteq ToSet(todo) /\ ToSet(OtherChunks(todo)) \subseteq ToSet(todo)
         /\ ToSet(todo) \subseteq ToSet(FirstChunk(todo)) \cup ToSet(OtherChunks(todo))
<1> DEFINE f == FirstChunk(todo)
           o == OtherChunks(todo)
           n == Len(todo)
<1>1. Chunk \in Nat \ {0} /\ n \in Nat /\ 0 \in Nat
  BY ListingAssumption
<1>2. f \in Seq(LibraryItems) /\ SliceOf(f, todo, 0, Chunk)
  BY <1>1, SliceFacts DEF FirstChunk
<1>3. o \in Seq(LibraryItems) /\ SliceOf(o, todo, Chunk, n)
  BY <1>1, SliceFacts DEF OtherChunks
<1> HIDE DEF f, o, n
<1>4. /\ Len(f) \in Nat /\ Len(o) \in Nat /\ \A i \in 1..Len(f) : f[i] = todo[i]
      /\ \A i \in 1..Len(o) : o[i] = todo[Chunk + i]
      /\ Len(f) <= n /\ (Len(f) = Chunk \/ Len(f) >= n)
      /\ Len(o) = 0 \/ Chunk + Len(o) <= n
      /\ Len(o) = n \/ Chunk + Len(o) >= n
  BY <1>1, <1>2, <1>3 DEF SliceOf, n
<1>5. \A i \in 1..n : i \in 1..Len(f) \/ (i - Chunk \in 1..Len(o) /\ Chunk + (i - Chunk) = i)
  BY <1>1, <1>4
<1>6. /\ ToSet(f) = {f[i] : i \in 1..Len(f)} /\ ToSet(o) = {o[i] : i \in 1..Len(o)}
      /\ ToSet(todo) = {todo[i] : i \in 1..n}
  BY <1>2, <1>3 DEF ToSet, n
<1>7. ToSet(todo) \subseteq ToSet(f) \cup ToSet(o)
  <2>1. ASSUME NEW i \in 1..n, i \in 1..Len(f) PROVE todo[i] \in ToSet(f)
    BY <1>4, <1>6, <2>1
  <2>2. ASSUME NEW i \in 1..n, i - Chunk \in 1..Len(o), Chunk + (i - Chunk) = i PROVE todo[i] \in ToSet(o)
    <3>1. o[i - Chunk] = todo[i]
      BY <1>4, <2>2
    <3> QED BY <1>6, <2>2, <3>1
  <2> QED BY <1>5, <1>6, <2>1, <2>2
<1>8. \A i \in 1..Len(f) : i \in 1..n
  BY <1>1, <1>4
<1>9. \A i \in 1..Len(o) : Chunk + i \in 1..n
  BY <1>1, <1>4
<1>10. ToSet(f) \subseteq ToSet(todo) /\ ToSet(o) \subseteq ToSet(todo)
  BY <1>4, <1>6, <1>8, <1>9
<1> QED BY <1>2, <1>3, <1>7, <1>10 DEF f, o

(* The rows of a page are put behind those there are, each key once.       *)
LEMMA PageFacts ==
  ASSUME ScopeTypeOK, NEW listing \in Listings, NEW p, Once(listing.rows, p),
         NEW page \in Seq(LibraryItems), ToSet(page) \cap AllKeys \subseteq KeysOf(p)
  PROVE  LET rows == listing.rows \o RowsOf(InOrder[Unseen(listing, page)]) IN
         /\ rows \in Seq(Row) /\ Once(rows, p)
         /\ \A k : HasKey(listing.rows, k) \/ k \in ToSet(page) \cap AllKeys => HasKey(rows, k)
<1> DEFINE old == listing.rows
           new == Unseen(listing, page)
           keys == InOrder[new]
           more == RowsOf(keys)
           rows == old \o more
           n == Len(old)
           m == Len(keys)
<1>1. /\ new \in SUBSET LibraryItems /\ new \subseteq KeysOf(p)
      /\ \A k \in new : \A i \in 1..Len(old) : old[i].key # k
      /\ \A k \in ToSet(page) \cap AllKeys : k \in new \/ HasKey(old, k)
  BY KeysAreItems DEF Unseen, HasKey
<1>2. old \in Seq(Row) /\ n \in Nat
  BY DEF Listings
<1> HIDE DEF new
<1>3. /\ keys \in Seq(new) /\ keys \in Seq(LibraryItems)
      /\ \A i, j \in 1..Len(keys) : keys[i] = keys[j] => i = j
      /\ \A k \in new : \E i \in 1..Len(keys) : keys[i] = k
  BY <1>1, OrderFacts
<1> HIDE DEF keys
<1>4. m \in Nat /\ \A i \in 1..m : keys[i] \in new /\ keys[i] \in LibraryItems
  BY <1>3
<1>5. more \in Seq(Row) /\ Len(more) = m /\ \A i \in 1..m : more[i].key = keys[i]
  <2>1. more = [i \in 1..m |-> [key |-> keys[i], version |-> zotero.of[keys[i]]]]
    BY DEF RowsOf
  <2>2. \A i \in 1..m : [key |-> keys[i], version |-> zotero.of[keys[i]]] \in Row
    BY <1>4 DEF Row, ScopeTypeOK
  <2> QED BY <1>4, <2>1, <2>2
<1> HIDE DEF more
<1>6. /\ rows \in Seq(Row) /\ Len(rows) = n + m
      /\ \A i \in 1..n + m : rows[i] = IF i <= n THEN old[i] ELSE more[i - n]
  <2>1. /\ old \o more \in Seq(Row) /\ Len(old \o more) = Len(old) + Len(more)
        /\ \A i \in 1..Len(old) + Len(more) : (old \o more)[i] = IF i <= Len(old) THEN old[i] ELSE more[i - Len(old)]
    BY <1>2, <1>5, ConcatProperties
  <2> QED BY <1>5, <2>1
<1> HIDE DEF rows, n, m
<1>7. \A i \in 1..n + m : (i \in 1..n /\ rows[i] = old[i]) \/ (i - n \in 1..m /\ rows[i].key = keys[i - n])
  <2>1. n \in Nat /\ m \in Nat
    BY <1>2, <1>4
  <2>2. \A i \in 1..n + m : (i \in 1..n /\ i <= n) \/ (i - n \in 1..m /\ ~(i <= n))
    BY <2>1
  <2> QED BY <1>5, <1>6, <2>2
<1>8. Once(rows, p)
  <2>1. \A i \in 1..n + m : rows[i].key \in KeysOf(p)
    BY <1>1, <1>4, <1>7 DEF Once, n
  <2>2. ASSUME NEW i \in 1..n + m, NEW j \in 1..n + m, rows[i].key = rows[j].key PROVE i = j
    <3>1. CASE i \in 1..n /\ rows[i] = old[i] /\ j \in 1..n /\ rows[j] = old[j]
      BY <2>2, <3>1 DEF Once, n
    <3>2. CASE i - n \in 1..m /\ rows[i].key = keys[i - n] /\ j - n \in 1..m /\ rows[j].key = keys[j - n]
      <4>1. i - n = j - n
        BY <1>3, <2>2, <3>2 DEF m
      <4> QED BY <1>2, <1>4, <4>1
    <3>3. CASE i \in 1..n /\ rows[i] = old[i] /\ j - n \in 1..m /\ rows[j].key = keys[j - n]
      BY <1>1, <1>4, <2>2, <3>3 DEF n
    <3>4. CASE j \in 1..n /\ rows[j] = old[j] /\ i - n \in 1..m /\ rows[i].key = keys[i - n]
      BY <1>1, <1>4, <2>2, <3>4 DEF n
    <3> QED BY <1>7, <3>1, <3>2, <3>3, <3>4
  <2> QED BY <1>6, <2>1, <2>2 DEF Once
<1>9. ASSUME NEW k, HasKey(old, k) PROVE HasKey(rows, k)
  <2>1. PICK i \in 1..n : old[i].key = k
    BY <1>9 DEF HasKey, n
  <2>2. i \in 1..n + m /\ rows[i] = old[i]
    BY <1>2, <1>4, <1>6
  <2> QED BY <1>6, <2>1, <2>2 DEF HasKey
<1>10. ASSUME NEW k \in new PROVE HasKey(rows, k)
  <2>1. PICK i \in 1..m : keys[i] = k
    BY <1>3 DEF m
  <2>2. n + i \in 1..n + m /\ ~(n + i <= n) /\ (n + i) - n = i
    BY <1>2, <1>4
  <2>3. rows[n + i].key = k
    BY <1>5, <1>6, <2>1, <2>2
  <2> QED BY <1>6, <2>2, <2>3 DEF HasKey
<1>11. \A k : HasKey(old, k) \/ k \in ToSet(page) \cap AllKeys => HasKey(rows, k)
  BY <1>1, <1>9, <1>10
<1> QED BY <1>6, <1>8, <1>11 DEF rows, more, keys, new

LEMMA ScopeStarts == ScopeInit => ListingInv
<1> SUFFICES ASSUME ScopeInit PROVE ListingInv
  OBVIOUS
<1>1. PICK items \in SUBSET LibraryItems, c \in Scopes :
        /\ zotero = [version |-> 1, of |-> [k \in LibraryItems |-> IF k \in items THEN 1 ELSE 0], edits |-> 0]
        /\ scope = Scope(c, items)
  BY DEF ScopeInit
<1>2. <<>> \in Seq(Row) /\ <<>> \in Seq(LibraryItems) /\ Len(<<>>) = 0
  OBVIOUS
<1>3. NoListing \in Listings /\ \A p \in Paths : NewReader(p) \in Reader
  BY <1>2 DEF NoListing, Listings, NewReader, Reader
<1>4. ScopeTypeOK
  <2>1. scope.records \subseteq LibraryItems /\ scope.children \subseteq LibraryItems
    BY <1>1 DEF Scope, Scopes, Records
  <2>2. zotero.of \in [LibraryItems -> Nat] /\ zotero.version \in Nat
    BY <1>1
  <2>3. kept \in [Paths -> Listings] /\ reader \in [Readers -> Reader]
    BY <1>3 DEF ScopeInit
  <2> QED BY <2>1, <2>2, <2>3 DEF ScopeTypeOK
<1>5. KeptSound
  BY DEF KeptSound, ScopeInit
<1>6. ASSUME NEW r \in Readers PROVE ReaderSound(r)
  <2>1. reader[r].at = "ask" /\ reader[r].got = <<>>
    BY DEF ScopeInit, NewReader
  <2> QED BY <2>1 DEF ReaderSound, ReadingSound, ServingSound, GotSound, OverSound
<1> QED BY <1>4, <1>5, <1>6 DEF ListingInv

(* What is missing of the sample stays missing.                            *)
LEMMA ChangesKeep == ASSUME ListingInv, LibraryChanges PROVE ListingInv'
<1>1. PICK k \in LibraryItems, gone \in BOOLEAN :
        /\ zotero.of[k] # 0 \/ k \notin AllKeys
        /\ zotero' = [version |-> zotero.version + 1, edits |-> zotero.edits + 1,
                      of |-> [zotero.of EXCEPT ![k] = IF gone THEN 0 ELSE zotero.version + 1]]
  BY DEF LibraryChanges
<1>2. scope' = scope /\ kept' = kept /\ reader' = reader
  BY DEF LibraryChanges
<1>3. zotero'.version = zotero.version + 1 /\ zotero.version \in Nat
  BY <1>1 DEF ListingInv, ScopeTypeOK
<1>4. ScopeTypeOK'
  <2>1. zotero'.of \in [LibraryItems -> Nat]
    BY <1>1 DEF ListingInv, ScopeTypeOK
  <2> QED BY <1>2, <1>3, <2>1 DEF ListingInv, ScopeTypeOK
<1>5. \A p : KeysOf(p)' = KeysOf(p)
  BY <1>2 DEF KeysOf, AllKeys
<1>6. \A j \in AllKeys : zotero.of[j] = 0 => zotero'.of[j] = 0
  BY <1>1 DEF ListingInv, ScopeTypeOK, AllKeys
<1>7. \A p : KeysOf(p) \subseteq AllKeys
  BY DEF KeysOf, AllKeys
<1>8. ASSUME NEW rows, NEW p, NEW todo, Lacking(rows, p, todo) PROVE Lacking(rows, p, todo)'
  BY <1>5, <1>6, <1>7, <1>8 DEF Lacking
<1>9. ASSUME NEW rows, NEW p, Once(rows, p) PROVE Once(rows, p)'
  BY <1>5, <1>9 DEF Once
<1>10. ASSUME NEW listing, NEW p, NEW todo, Sound(listing, p, todo) PROVE Sound(listing, p, todo)'
  BY <1>8, <1>9, <1>10 DEF Sound
<1>11. KeptSound'
  BY <1>2, <1>10 DEF KeptSound, ListingInv
<1>12. ASSUME NEW r \in Readers PROVE ReaderSound(r)'
  <2>1. ReaderSound(r) /\ reader[r].listing.version \in Nat
    BY DEF ListingInv, ScopeTypeOK, Reader, Listings
  <2>2. ReadingSound(r)'
    <3>1. reader[r].listing.version <= zotero.version => reader[r].listing.version < zotero'.version
      BY <1>3, <2>1
    <3>2. reader[r].listing.version < zotero'.version => reader[r].listing.version <= zotero'.version
      BY <1>3, <2>1
    <3> QED BY <1>2, <1>5, <1>10, <2>1, <3>1, <3>2 DEF ReaderSound, ReadingSound, AnsweredSoFar
  <2>3. ServingSound(r)' /\ GotSound(r)'
    BY <1>2, <1>10, <2>1 DEF ReaderSound, ServingSound, GotSound
  <2>4. OverSound(r)'
    BY <1>2, <1>8, <1>9, <2>1 DEF ReaderSound, OverSound
  <2> QED BY <2>2, <2>3, <2>4 DEF ReaderSound
<1> QED BY <1>4, <1>11, <1>12 DEF ListingInv

(* A step of a reader that keeps nothing is of that reader alone.          *)
LEMMA OneReader ==
  ASSUME ListingInv, NEW r \in Readers, NEW state \in Reader, Set(r, state), kept' = kept, ReaderSound(r)'
  PROVE  ListingInv'
<1>1. reader' = [reader EXCEPT ![r] = state] /\ UNCHANGED <<zotero, scope>>
  BY DEF Set
<1>2. ScopeTypeOK'
  BY <1>1 DEF ListingInv, ScopeTypeOK
<1>3. \A rows, p, todo : Lacking(rows, p, todo)' <=> Lacking(rows, p, todo)
  BY <1>1 DEF Lacking, KeysOf, AllKeys
<1>4. \A rows, p : Once(rows, p)' <=> Once(rows, p)
  BY <1>1 DEF Once, KeysOf, AllKeys
<1>5. \A listing, p, todo : Sound(listing, p, todo)' <=> Sound(listing, p, todo)
  BY <1>3, <1>4 DEF Sound
<1>6. KeptSound'
  BY <1>5 DEF KeptSound, ListingInv
<1>7. ASSUME NEW q \in Readers, q # r PROVE ReaderSound(q)'
  <2>1. reader'[q] = reader[q] /\ ReaderSound(q)
    BY <1>1, <1>7 DEF ListingInv, ScopeTypeOK
  <2>2. \A p : KeysOf(p)' = KeysOf(p)
    BY <1>1 DEF KeysOf, AllKeys
  <2>3. AnsweredSoFar(q)' <=> AnsweredSoFar(q)
    BY <1>1, <2>1 DEF AnsweredSoFar, Answer, Present, AllKeys
  <2>4. ReadingSound(q)'
    BY <1>1, <1>5, <2>1, <2>2, <2>3 DEF ReaderSound, ReadingSound
  <2>5. ServingSound(q)' /\ GotSound(q)'
    BY <1>5, <2>1 DEF ReaderSound, ServingSound, GotSound
  <2>6. OverSound(q)'
    BY <1>3, <1>4, <2>1 DEF ReaderSound, OverSound
  <2> QED BY <2>4, <2>5, <2>6 DEF ReaderSound
<1> QED BY <1>2, <1>6, <1>7 DEF ListingInv

LEMMA SameKeys ==
  ASSUME UNCHANGED <<zotero, scope>>
  PROVE  /\ \A rows, p, todo : Lacking(rows, p, todo)' <=> Lacking(rows, p, todo)
         /\ \A rows, p : Once(rows, p)' <=> Once(rows, p)
         /\ \A listing, p, todo : Sound(listing, p, todo)' <=> Sound(listing, p, todo)
         /\ \A p : KeysOf(p)' = KeysOf(p)
<1>1. \A rows, p, todo : Lacking(rows, p, todo)' <=> Lacking(rows, p, todo)
  BY DEF Lacking, KeysOf, AllKeys
<1>2. \A rows, p : Once(rows, p)' <=> Once(rows, p)
  BY DEF Once, KeysOf, AllKeys
<1> QED BY <1>1, <1>2 DEF Sound, KeysOf, AllKeys

LEMMA AskListingKeeps == ASSUME ListingInv, NEW r \in Readers, AskListing(r) PROVE ListingInv'
<1> DEFINE p == reader[r].path
<1>1. /\ reader[r] \in Reader /\ p \in Paths /\ reader[r].at = "ask" /\ kept' = kept /\ kept[p] \in Listings
      /\ ReaderSound(r) /\ ScopeTypeOK
  BY DEF AskListing, ListingInv, ScopeTypeOK, Reader
<1>2. CASE kept[p] # NoListing
  <2> DEFINE state == [reader[r] EXCEPT !.at = "serve", !.listing = kept[p]]
  <2>1. Set(r, state)
    BY <1>2 DEF AskListing
  <2>2. state \in Reader
    <3>1. -2 \in Int
      OBVIOUS
    <3> QED BY <1>1, <3>1 DEF Reader
  <2>3. /\ state.at = "serve" /\ state.listing = kept[p] /\ state.path = p /\ state.got = reader[r].got
        /\ state.crossed = reader[r].crossed
    BY <1>1 DEF Reader
  <2>4. Sound(kept[p], p, {})
    BY <1>1, <1>2 DEF ListingInv, KeptSound
  <2> HIDE DEF state
  <2>5. reader'[r] = state /\ UNCHANGED <<zotero, scope>>
    BY <1>1, <2>1 DEF Set, ScopeTypeOK
  <2>6. ReaderSound(r)'
    BY <1>1, <1>2, <2>3, <2>4, <2>5, SameKeys DEF ReaderSound, ReadingSound, ServingSound, GotSound, OverSound
  <2> QED BY <1>1, <2>1, <2>2, <2>6, OneReader
<1>3. CASE kept[p] = NoListing
  <2> DEFINE todo == InOrder[KeysOf(p)]
             listing == [NoListing EXCEPT !.status = "200"]
             state == [reader[r] EXCEPT !.at = "read", !.todo = todo, !.start = 0, !.listing = listing]
  <2>1. Set(r, state)
    BY <1>3 DEF AskListing
  <2>2. KeysOf(p) \in SUBSET LibraryItems
    BY <1>1, KeysAreItems
  <2>3. todo \in Seq(KeysOf(p)) /\ todo \in Seq(LibraryItems) /\ \A k \in KeysOf(p) : \E i \in 1..Len(todo) : todo[i] = k
    BY <2>2, OrderFacts
  <2>4. listing \in Listings /\ listing.rows = <<>> /\ listing.status = "200" /\ listing.version = 0
    BY NoListingIs DEF Listings
  <2> HIDE DEF todo, listing
  <2>5. ToSet(todo) = KeysOf(p)
    BY <2>3 DEF ToSet
  <2>6. Sound(listing, p, ToSet(todo))
    BY <2>4, <2>5 DEF Sound, Once, Lacking
  <2>7. state \in Reader
    BY <1>1, <2>3, <2>4 DEF Reader
  <2>8. /\ state.at = "read" /\ state.listing = listing /\ state.path = p /\ state.got = reader[r].got
        /\ state.todo = todo /\ state.start = 0
    BY <1>1 DEF Reader
  <2>9. reader[r].got = <<>>
    BY <1>1, <1>3 DEF ReaderSound, GotSound
  <2> HIDE DEF state
  <2>10. reader'[r] = state /\ UNCHANGED <<zotero, scope>>
    BY <1>1, <2>1 DEF Set, ScopeTypeOK
  <2>11. 0 <= zotero.version
    BY <1>1 DEF ScopeTypeOK
  <2>12. ReaderSound(r)'
    BY <2>4, <2>5, <2>6, <2>8, <2>9, <2>10, <2>11, SameKeys
       DEF ReaderSound, ReadingSound, ServingSound, GotSound, OverSound, AnsweredSoFar
  <2> QED BY <1>1, <2>1, <2>7, <2>12, OneReader
<1> QED BY <1>2, <1>3

LEMMA BreakKeeps == ASSUME ListingInv, NEW r \in Readers, ReadRefused(r) \/ ReadRaises(r) PROVE ListingInv'
<1>1. reader[r] \in Reader /\ reader[r].at = "read" /\ ReaderSound(r) /\ ScopeTypeOK /\ kept' = kept
  BY DEF ReadRefused, ReadRaises, Fetching, ListingInv, ScopeTypeOK
<1>2. CASE ReadRefused(r)
  <2> DEFINE listing == [NoListing EXCEPT !.status = "503"]
             state == [reader[r] EXCEPT !.todo = <<>>, !.listing = listing]
  <2>1. Set(r, state)
    BY <1>2 DEF ReadRefused
  <2>2. listing \in Listings /\ listing.status = "503" /\ listing.version = 0
    BY NoListingIs DEF Listings
  <2>3. state \in Reader
    <3>1. <<>> \in Seq(LibraryItems)
      OBVIOUS
    <3> HIDE DEF listing
    <3> QED BY <1>1, <2>2, <3>1 DEF Reader
  <2>4. /\ state.at = "read" /\ state.listing = listing /\ state.path = reader[r].path
        /\ state.got = reader[r].got /\ state.todo = <<>>
    BY <1>1 DEF Reader
  <2> HIDE DEF state, listing
  <2>5. reader'[r] = state /\ UNCHANGED <<zotero, scope>>
    BY <1>1, <2>1 DEF Set, ScopeTypeOK
  <2>6. Sound(listing, reader[r].path, ToSet(<<>>)) /\ ToSet(<<>>) = {}
    BY <2>2 DEF Sound, ToSet
  <2>7. 0 <= zotero.version
    BY <1>1 DEF ScopeTypeOK
  <2>8. ReaderSound(r)'
    BY <1>1, <2>2, <2>4, <2>5, <2>6, <2>7, SameKeys
       DEF ReaderSound, ReadingSound, ServingSound, GotSound, OverSound
  <2> QED BY <1>1, <2>1, <2>3, <2>8, OneReader
<1>3. CASE ReadRaises(r)
  <2> DEFINE state == [reader[r] EXCEPT !.at = "over", !.total = -2]
  <2>1. Set(r, state)
    BY <1>3 DEF ReadRaises
  <2>2. state \in Reader
    <3>1. -2 \in Int
      OBVIOUS
    <3> QED BY <1>1, <3>1 DEF Reader
  <2>3. /\ state.at = "over" /\ state.total = -2 /\ state.path = reader[r].path
        /\ state.got = reader[r].got /\ state.crossed = reader[r].crossed
    BY <1>1 DEF Reader
  <2> HIDE DEF state
  <2>4. reader'[r] = state
    BY <1>1, <2>1 DEF Set, ScopeTypeOK
  <2>5. ReaderSound(r)'
    BY <1>1, <2>3, <2>4 DEF ReaderSound, ReadingSound, ServingSound, GotSound, OverSound
  <2> QED BY <1>1, <2>1, <2>2, <2>5, OneReader
<1> QED BY <1>2, <1>3

(* A page puts the rows behind those the answer gave before it; the last   *)
(* page of a chunk leaves no key of the chunk without a row.               *)
LEMMA PageKeeps == ASSUME ListingInv, NEW r \in Readers, ReadPage(r) PROVE ListingInv'
<1> DEFINE path == reader[r].path
           todo == reader[r].todo
           was == reader[r].listing
           start == reader[r].start
           chunk == ToSet(FirstChunk(todo))
           P == Present(path, chunk)
           all == InOrder[P]
           page == Slice(all, start, Page)
           next == start + Len(page)
           rows == was.rows \o RowsOf(InOrder[Unseen(was, page)])
           torn == was.torn \/ (start # 0 /\ was.version # zotero.version)
           listing == [was EXCEPT !.rows = rows, !.version = zotero.version, !.torn = torn]
           done == page = <<>> \/ next >= Len(all)
           state == IF done
                    THEN [reader[r] EXCEPT !.todo = OtherChunks(todo), !.start = 0, !.listing = listing]
                    ELSE [reader[r] EXCEPT !.start = next, !.listing = listing]
<1>1. Set(r, state) /\ kept' = kept /\ reader[r].at = "read" /\ todo # <<>>
  BY DEF ReadPage, Fetching
<1>2. /\ reader[r] \in Reader /\ ScopeTypeOK /\ ReaderSound(r) /\ was \in Listings /\ todo \in Seq(LibraryItems)
      /\ start \in Nat /\ path \in Paths /\ was.version \in Nat /\ zotero.version \in Nat
  BY DEF ListingInv, ScopeTypeOK, Reader, Listings
<1>3. /\ reader[r].got = <<>> /\ ToSet(todo) \subseteq KeysOf(path) /\ was.status = "200"
      /\ Once(was.rows, path) /\ (was.torn \/ Lacking(was.rows, path, ToSet(todo)))
      /\ AnsweredSoFar(r)
  BY <1>1, <1>2 DEF ReaderSound, ReadingSound, Sound
<1>4. P \in SUBSET LibraryItems /\ P \cap AllKeys \subseteq KeysOf(path)
  <2>1. chunk \subseteq KeysOf(path)
    BY <1>2, <1>3, ChunkFacts
  <2> QED BY <1>2, <2>1 DEF Present, KeysOf, Paths
<1>5. \A k \in chunk : k \in LibraryItems /\ zotero.of[k] # 0 => k \in P
  BY DEF Present
<1>6. /\ all \in Seq(P) /\ all \in Seq(LibraryItems) /\ Len(all) \in Nat
      /\ \A k \in P : \E i \in 1..Len(all) : all[i] = k
  <2>1. \A s : s \in Seq(P) => Len(s) \in Nat
    OBVIOUS
  <2> QED BY <1>4, <2>1, OrderFacts
<1>7. Answer(r) = all
  BY DEF Answer
<1> HIDE DEF chunk, P, all
<1>8. page \in Seq(P) /\ page \in Seq(LibraryItems) /\ SliceOf(page, all, start, Page)
  <2>1. Page \in Nat
    BY ListingAssumption
  <2> QED BY <1>2, <1>6, <2>1, SliceFacts
<1>9. Page \in Nat \ {0} /\ Len(page) \in Nat /\ next \in Nat
  BY <1>2, <1>8, ListingAssumption DEF SliceOf
<1> HIDE DEF page
<1>10. ToSet(page) \subseteq P /\ \A i \in 1..Len(page) : page[i] \in ToSet(page)
  BY <1>8 DEF ToSet
<1>11. /\ rows \in Seq(Row) /\ Once(rows, path)
       /\ \A k : HasKey(was.rows, k) \/ k \in ToSet(page) \cap AllKeys => HasKey(rows, k)
  <2>1. ToSet(page) \cap AllKeys \subseteq KeysOf(path)
    BY <1>4, <1>10
  <2> QED BY <1>2, <1>3, <1>8, <2>1, PageFacts
<1> HIDE DEF rows
<1>12. /\ listing \in Listings /\ listing.status = "200" /\ listing.rows = rows /\ listing.version = zotero.version
       /\ listing.torn = torn /\ torn \in BOOLEAN
  BY <1>2, <1>3, <1>11 DEF Listings
<1>13. torn \/ \A i \in 1..next : i \in 1..Len(all) /\ all[i] \in AllKeys => HasKey(rows, all[i])
  <2> SUFFICES ASSUME ~torn, NEW i \in 1..next, i \in 1..Len(all), all[i] \in AllKeys PROVE HasKey(rows, all[i])
    OBVIOUS
  <2>1. CASE i <= start
    <3>1. i \in 1..start /\ start # 0
      BY <1>2, <2>1
    <3>2. ~was.torn /\ was.version = zotero.version
      BY <3>1
    <3>3. ~(was.version < zotero.version)
      BY <1>2, <3>2
    <3>4. HasKey(was.rows, all[i])
      BY <1>3, <1>7, <3>1, <3>2, <3>3 DEF AnsweredSoFar
    <3> QED BY <1>11, <3>4
  <2>2. CASE ~(i <= start)
    <3>1. i - start \in 1..Len(page) /\ start + (i - start) = i
      BY <1>2, <1>9, <2>2, SMTT(40)
    <3>2. all[i] \in ToSet(page)
      BY <1>8, <1>10, <3>1 DEF SliceOf
    <3> QED BY <1>11, <3>2
  <2> QED BY <2>1, <2>2
<1> HIDE DEF next, torn, listing
<1>14. reader'[r] = state /\ UNCHANGED <<zotero, scope>>
  <2> HIDE DEF state
  <2> QED BY <1>1, <1>2 DEF Set, ScopeTypeOK
<1>15. CASE done
  <2>1. \A i \in 1..Len(all) : i \in 1..next
    <3>1. CASE next >= Len(all)
      BY <1>6, <1>9, <3>1
    <3>2. CASE page = <<>>
      <4> DEFINE l == Len(all)
      <4>1. Len(page) = 0
        BY <3>2
      <4>2. /\ 0 = Page \/ start + 0 >= l
            /\ start \in Nat /\ l \in Nat /\ Page \in Nat \ {0}
        BY <1>2, <1>6, <1>8, <1>9, <4>1 DEF SliceOf
      <4> HIDE DEF l, start
      <4>3. start >= l
        BY <4>2
      <4>4. next = start
        BY <4>1, <4>2 DEF next
      <4> QED BY <4>2, <4>3, <4>4 DEF l
    <3> QED BY <1>15, <3>1, <3>2
  <2>2. torn \/ Lacking(rows, path, ToSet(OtherChunks(todo)))
    <3> SUFFICES ASSUME ~torn, NEW k \in KeysOf(path), k \notin ToSet(OtherChunks(todo)), zotero.of[k] # 0
                 PROVE  HasKey(rows, k)
      BY DEF Lacking
    <3>1. k \in AllKeys /\ k \in LibraryItems
      BY <1>2, KeysAreItems DEF KeysOf, AllKeys
    <3>2. CASE k \in ToSet(todo)
      <4>1. k \in chunk
        BY <1>2, <3>2, ChunkFacts DEF chunk
      <4>2. PICK i \in 1..Len(all) : all[i] = k
        BY <1>5, <1>6, <3>1, <4>1
      <4> QED BY <1>13, <2>1, <3>1, <4>2
    <3>3. CASE k \notin ToSet(todo)
      <4>1. ~was.torn
        BY DEF torn
      <4>2. HasKey(was.rows, k)
        BY <1>3, <3>3, <4>1 DEF Lacking
      <4> QED BY <1>11, <4>2
    <3> QED BY <3>2, <3>3
  <2>3. Sound(listing, path, ToSet(OtherChunks(todo)))
    BY <1>11, <1>12, <2>2 DEF Sound
  <2>4. OtherChunks(todo) \in Seq(LibraryItems) /\ ToSet(OtherChunks(todo)) \subseteq KeysOf(path)
    BY <1>2, <1>3, ChunkFacts
  <2>5. state \in Reader
    BY <1>2, <1>12, <1>15, <2>4 DEF Reader
  <2>6. /\ state.at = "read" /\ state.listing = listing /\ state.path = path /\ state.got = reader[r].got
        /\ state.todo = OtherChunks(todo) /\ state.start = 0
    BY <1>1, <1>2, <1>15 DEF Reader
  <2> HIDE DEF state
  <2>7. zotero.version <= zotero.version
    BY <1>2
  <2>8. ReaderSound(r)'
    BY <1>3, <1>12, <1>14, <2>3, <2>4, <2>6, <2>7, SameKeys
       DEF ReaderSound, ReadingSound, ServingSound, GotSound, OverSound, AnsweredSoFar
  <2> QED BY <1>1, <2>5, <2>8, OneReader
<1>16. CASE ~done
  <2>1. torn \/ Lacking(rows, path, ToSet(todo))
    BY <1>3, <1>11 DEF Lacking, torn
  <2>2. Sound(listing, path, ToSet(todo))
    BY <1>11, <1>12, <2>1 DEF Sound
  <2>3. state \in Reader
    BY <1>2, <1>9, <1>12, <1>16 DEF Reader
  <2>4. /\ state.at = "read" /\ state.listing = listing /\ state.path = path /\ state.got = reader[r].got
        /\ state.todo = todo /\ state.start = next
    BY <1>1, <1>2, <1>16 DEF Reader
  <2> HIDE DEF state
  <2>5. Answer(r)' = all /\ AllKeys' = AllKeys
    <3>1. Answer(r)' = Answer(r) /\ AllKeys' = AllKeys
      BY <1>14, <2>4 DEF Answer, Present, AllKeys
    <3> QED BY <1>7, <3>1
  <2>6. AnsweredSoFar(r)'
    BY <1>12, <1>13, <1>14, <2>4, <2>5 DEF AnsweredSoFar
  <2>7. zotero.version <= zotero.version
    BY <1>2
  <2>8. ReaderSound(r)'
    BY <1>3, <1>12, <1>14, <2>2, <2>4, <2>6, <2>7, SameKeys
       DEF ReaderSound, ReadingSound, ServingSound, GotSound, OverSound
  <2> QED BY <1>1, <2>3, <2>8, OneReader
<1> QED BY <1>15, <1>16

(* What a reader keeps replaces what others of its query page through.     *)
LEMMA KeepKeeps == ASSUME ListingInv, NEW r \in Readers, KeepListing(r) PROVE ListingInv'
<1> DEFINE p == reader[r].path
<1>1. /\ reader[r].at = "read" /\ reader[r].todo = <<>> /\ kept' = [kept EXCEPT ![p] = reader[r].listing]
      /\ reader' = [q \in Readers |->
           IF q = r THEN [reader[r] EXCEPT !.at = "serve"]
           ELSE [reader[q] EXCEPT !.crossed = reader[q].crossed \/ Overtakes(r, q)]]
      /\ UNCHANGED <<zotero, scope>>
  BY DEF KeepListing, Fetching, Keeps
<1>2. reader[r] \in Reader /\ p \in Paths /\ reader[r].listing \in Listings /\ ScopeTypeOK /\ ReaderSound(r)
  BY DEF ListingInv, ScopeTypeOK, Reader
<1>3. \A q \in Readers : q # r => Overtakes(r, q) \in BOOLEAN /\ reader[q] \in Reader
  BY DEF Overtakes, ListingInv, ScopeTypeOK
<1>4. ASSUME NEW q \in Readers, q # r
      PROVE  /\ reader'[q] = [reader[q] EXCEPT !.crossed = reader[q].crossed \/ Overtakes(r, q)]
             /\ reader'[q] \in Reader
             /\ reader'[q].path = reader[q].path /\ reader'[q].at = reader[q].at
             /\ reader'[q].todo = reader[q].todo /\ reader'[q].start = reader[q].start
             /\ reader'[q].listing = reader[q].listing /\ reader'[q].got = reader[q].got
             /\ reader'[q].total = reader[q].total
             /\ reader'[q].crossed <=> reader[q].crossed \/ Overtakes(r, q)
  BY <1>1, <1>3, <1>4 DEF Reader
<1>5. /\ reader'[r] \in Reader /\ reader'[r].at = "serve" /\ reader'[r].path = p
      /\ reader'[r].listing = reader[r].listing /\ reader'[r].got = reader[r].got
  BY <1>1, <1>2 DEF Reader
<1>6. ScopeTypeOK'
  <2>1. reader' \in [Readers -> Reader]
    BY <1>1, <1>4, <1>5
  <2>2. kept' \in [Paths -> Listings]
    BY <1>1, <1>2 DEF ScopeTypeOK
  <2> QED BY <1>1, <1>2, <2>1, <2>2 DEF ScopeTypeOK
<1>7. Sound(reader[r].listing, p, {}) /\ reader[r].got = <<>>
  <2>1. ToSet(<<>>) = {}
    BY DEF ToSet
  <2> QED BY <1>1, <1>2, <2>1 DEF ReaderSound, ReadingSound
<1>8. kept'[p] = reader[r].listing /\ kept'[p] # NoListing
  BY <1>1, <1>2, <1>7 DEF ScopeTypeOK, Sound, NoListing
<1>9. \A x \in Paths : x # p => kept'[x] = kept[x]
  BY <1>1, <1>2 DEF ScopeTypeOK
<1>10. KeptSound'
  BY <1>1, <1>7, <1>8, <1>9, SameKeys DEF KeptSound, ListingInv
<1>11. ReaderSound(r)'
  BY <1>1, <1>5, <1>7, <1>8, SameKeys DEF ReaderSound, ReadingSound, ServingSound, GotSound, OverSound
<1>12. ASSUME NEW q \in Readers, q # r PROVE ReaderSound(q)'
  <2>1. ReaderSound(q) /\ reader[q].path \in Paths
    BY DEF ListingInv, ScopeTypeOK, Reader
  <2>2. ReadingSound(q)'
    <3>0. \A path, keys : Present(path, keys)' = Present(path, keys)
      BY <1>1 DEF Present
    <3>1. Answer(q)' = Answer(q) /\ AllKeys' = AllKeys
      BY <1>1, <1>4, <1>12, <3>0 DEF Answer, AllKeys
    <3>2. AnsweredSoFar(q)' <=> AnsweredSoFar(q)
      BY <1>1, <1>4, <1>12, <3>1 DEF AnsweredSoFar
    <3> QED BY <1>1, <1>4, <1>12, <2>1, <3>2, SameKeys, SMTT(40) DEF ReaderSound, ReadingSound
  <2>3. ServingSound(q)' /\ GotSound(q)'
    <3>1. CASE reader[q].path = p
      <4>1. (reader[q].at = "serve" \/ reader[q].got # <<>>) => reader'[q].crossed
        BY <1>4, <1>12, <3>1 DEF Overtakes
      <4>2. ServingSound(q) /\ GotSound(q) /\ kept'[reader[q].path] # NoListing
        BY <1>8, <2>1, <3>1 DEF ReaderSound
      <4>3. ServingSound(q)'
        BY <1>1, <1>4, <1>12, <4>1, <4>2, SameKeys DEF ServingSound
      <4>4. GotSound(q)'
        BY <1>4, <1>12, <4>1, <4>2 DEF GotSound
      <4> QED BY <4>3, <4>4
    <3>2. CASE reader[q].path # p
      <4>1. kept'[reader[q].path] = kept[reader[q].path] /\ (reader'[q].crossed <=> reader[q].crossed)
        BY <1>4, <1>9, <1>12, <2>1, <3>2 DEF Overtakes
      <4>2. ServingSound(q) /\ GotSound(q)
        BY <2>1 DEF ReaderSound
      <4>3. ServingSound(q)'
        BY <1>1, <1>4, <1>12, <4>1, <4>2, SameKeys DEF ServingSound
      <4>4. GotSound(q)'
        <5>1. reader'[q].path = reader[q].path /\ reader'[q].got = reader[q].got
          BY <1>4, <1>12
        <5> QED BY <4>1, <4>2, <5>1 DEF GotSound
      <4> QED BY <4>3, <4>4
    <3> QED BY <3>1, <3>2
  <2>4. OverSound(q)'
    BY <1>1, <1>4, <1>12, <2>1, SameKeys DEF ReaderSound, OverSound
  <2> QED BY <2>2, <2>3, <2>4 DEF ReaderSound
<1> QED BY <1>6, <1>10, <1>11, <1>12 DEF ListingInv

(* A slice goes on where the reader's rows end.                            *)
LEMMA ServeKeeps == ASSUME ListingInv, NEW r \in Readers, Serve(r) PROVE ListingInv'
<1> DEFINE p == reader[r].path
           listing == reader[r].listing
           old == reader[r].got
           cut == Slice(listing.rows, Len(old), Limit)
           got == old \o cut
           all == listing.rows
<1>1. /\ reader[r] \in Reader /\ reader[r].at = "serve" /\ kept' = kept /\ ReaderSound(r) /\ ScopeTypeOK
      /\ p \in Paths /\ listing \in Listings /\ old \in Seq(Row) /\ all \in Seq(Row) /\ listing.torn \in BOOLEAN
  BY DEF Serve, ListingInv, ScopeTypeOK, Reader, Listings
<1>2. CASE listing.status # "200"
  <2> DEFINE state == [reader[r] EXCEPT !.at = "over", !.total = -2]
  <2>1. Set(r, state)
    BY <1>2 DEF Serve
  <2>2. state \in Reader
    <3>1. -2 \in Int
      OBVIOUS
    <3> QED BY <1>1, <3>1 DEF Reader
  <2>3. /\ state.at = "over" /\ state.total = -2 /\ state.path = p
        /\ state.got = old /\ state.crossed = reader[r].crossed
    BY <1>1 DEF Reader
  <2> HIDE DEF state
  <2>4. reader'[r] = state
    BY <1>1, <2>1 DEF Set, ScopeTypeOK
  <2>5. ReaderSound(r)'
    BY <1>1, <2>3, <2>4 DEF ReaderSound, ReadingSound, ServingSound, GotSound, OverSound
  <2> QED BY <1>1, <2>1, <2>2, <2>5, OneReader
<1>3. CASE listing.status = "200"
  <2> DEFINE empty == [NoListing EXCEPT !.torn = listing.torn]
             at == IF Len(got) < Len(all) THEN "ask" ELSE "over"
             state == [reader[r] EXCEPT !.at = at, !.got = got, !.total = Len(all), !.listing = empty]
  <2>1. Set(r, state)
    BY <1>3 DEF Serve
  <2>2. Limit \in Nat \ {0} /\ Len(old) \in Nat /\ Len(all) \in Nat
    BY <1>1, ListingAssumption
  <2>3. cut \in Seq(Row) /\ SliceOf(cut, all, Len(old), Limit)
    BY <1>1, <2>2, SliceFacts
  <2> HIDE DEF cut
  <2>4. /\ got \in Seq(Row) /\ Len(got) = Len(old) + Len(cut)
        /\ \A i \in 1..Len(old) + Len(cut) : got[i] = IF i <= Len(old) THEN old[i] ELSE cut[i - Len(old)]
    BY <1>1, <2>3, ConcatProperties
  <2> HIDE DEF got
  <2>5. Sound(listing, p, {})
    BY <1>1 DEF ReaderSound, ServingSound
  <2>6. Once(all, p) /\ (listing.torn \/ Lacking(all, p, {}))
    BY <1>3, <2>5 DEF Sound
  <2>7. ASSUME ~reader[r].crossed
        PROVE  /\ listing = kept[p] /\ Len(got) <= Len(all) /\ \A i \in 1..Len(got) : got[i] = all[i]
    <3>1. listing = kept[p]
      BY <1>1, <2>7 DEF ReaderSound, ServingSound
    <3>2. Len(old) <= Len(all) /\ \A i \in 1..Len(old) : old[i] = all[i]
      <4>1. CASE old = <<>>
        BY <2>2, <4>1
      <4>2. CASE old # <<>>
        BY <1>1, <2>7, <3>1, <4>2 DEF ReaderSound, GotSound
      <4> QED BY <4>1, <4>2
    <3> DEFINE n == Len(old)
               m == Len(cut)
               l == Len(all)
    <3>n. /\ n \in Nat /\ m \in Nat /\ l \in Nat /\ n <= l /\ Limit \in Nat \ {0} /\ Len(got) = n + m
          /\ m = 0 \/ n + m <= l
      BY <2>2, <2>3, <2>4, <3>2 DEF SliceOf
    <3>3. Len(got) <= Len(all)
      <4> HIDE DEF n, m, l
      <4>1. n + m <= l
        BY <3>n
      <4> QED BY <3>n, <4>1 DEF l
    <3>4. ASSUME NEW i \in 1..Len(got) PROVE got[i] = all[i]
      <4>1. CASE i <= Len(old)
        <5>1. i \in 1..Len(old) /\ i \in 1..Len(old) + Len(cut)
          BY <2>2, <2>4, <4>1
        <5> QED BY <2>4, <3>2, <4>1, <5>1
      <4>2. CASE ~(i <= Len(old))
        <5>1. /\ i - Len(old) \in 1..Len(cut) /\ i \in 1..Len(old) + Len(cut)
              /\ Len(old) + (i - Len(old)) = i
          <6>1. i \in 1..n + m /\ ~(i <= n)
            BY <3>n, <4>2
          <6> HIDE DEF n, m, l
          <6>2. i - n \in 1..m /\ i \in 1..n + m /\ n + (i - n) = i
            BY <3>n, <6>1
          <6> QED BY <6>2 DEF n, m
        <5>2. got[i] = cut[i - Len(old)]
          BY <2>4, <4>2, <5>1
        <5>3. cut[i - Len(old)] = all[i]
          BY <2>3, <5>1 DEF SliceOf
        <5> QED BY <5>2, <5>3
      <4> QED BY <4>1, <4>2
    <3> QED BY <3>1, <3>3, <3>4
  <2>8. empty \in Listings /\ empty.torn = listing.torn
    BY <1>1, NoListingIs DEF Listings
  <2>9. state \in Reader
    <3>1. Len(all) \in Int /\ at \in {"ask", "over"}
      BY <2>2
    <3> HIDE DEF at, empty
    <3> QED BY <1>1, <2>4, <2>8, <3>1 DEF Reader
  <2>10. /\ state.at = at /\ state.listing = empty /\ state.path = p /\ state.got = got
         /\ state.total = Len(all) /\ state.crossed = reader[r].crossed
    BY <1>1 DEF Reader
  <2> HIDE DEF state, empty
  <2>11. reader'[r] = state /\ UNCHANGED <<zotero, scope>>
    BY <1>1, <2>1 DEF Set, ScopeTypeOK
  <2>12. GotSound(r)'
    <3>1. kept[p] # NoListing
      BY <1>1 DEF ReaderSound, ServingSound
    <3> QED BY <1>1, <2>7, <2>10, <2>11, <3>1 DEF GotSound
  <2>13. OverSound(r)'
    <3> SUFFICES ASSUME at = "over", ~reader[r].crossed
                 PROVE  /\ Len(got) = Len(all) /\ Once(got, p)
                        /\ listing.torn \/ Lacking(got, p, {})
      BY <2>8, <2>10, <2>11, SameKeys DEF OverSound
    <3>1. Len(got) = Len(all) /\ \A i \in 1..Len(all) : got[i] = all[i]
      <4>1. Len(got) \in Nat /\ ~(Len(got) < Len(all)) /\ Len(got) <= Len(all)
        BY <2>4, <2>7
      <4>2. Len(got) = Len(all)
        BY <2>2, <4>1
      <4> QED BY <2>7, <4>2
    <3>2. Once(got, p)
      BY <2>6, <3>1 DEF Once
    <3>3. Lacking(all, p, {}) => Lacking(got, p, {})
      BY <3>1 DEF Lacking, HasKey
    <3> QED BY <2>6, <3>1, <3>2, <3>3
  <2>14. ReaderSound(r)'
    BY <2>10, <2>11, <2>12, <2>13 DEF ReaderSound, ReadingSound, ServingSound
  <2> QED BY <1>1, <2>1, <2>9, <2>14, OneReader
<1> QED BY <1>2, <1>3

LEMMA ListingInvariant == ScopeSpec => []ListingInv
<1>1. ASSUME ListingInv, [ScopeNext]_scopeVars PROVE ListingInv'
  <2>1. CASE LibraryChanges
    BY <1>1, <2>1, ChangesKeep
  <2>2. ASSUME NEW r \in Readers, ReaderStep(r) PROVE ListingInv'
    BY <1>1, <2>2, AskListingKeeps, PageKeeps, BreakKeeps, KeepKeeps, ServeKeeps DEF ReaderStep
  <2>3. CASE UNCHANGED scopeVars
    <3>1. UNCHANGED <<zotero, scope>> /\ kept' = kept /\ reader' = reader
      BY <2>3 DEF scopeVars
    <3>2. ASSUME NEW r \in Readers PROVE ReaderSound(r)'
      <4>1. AnsweredSoFar(r)' <=> AnsweredSoFar(r)
        BY <3>1 DEF AnsweredSoFar, Answer, Present, AllKeys
      <4>2. ReaderSound(r)
        BY <1>1 DEF ListingInv
      <4> QED BY <3>1, <4>1, <4>2, SameKeys DEF ReaderSound, ReadingSound, ServingSound, GotSound, OverSound
    <3>3. ScopeTypeOK' /\ KeptSound'
      BY <1>1, <3>1, SameKeys DEF ListingInv, ScopeTypeOK, KeptSound
    <3> QED BY <3>2, <3>3 DEF ListingInv
  <2> QED BY <1>1, <2>1, <2>2, <2>3 DEF ScopeNext
<1> QED BY <1>1, ScopeStarts, PTL DEF ScopeSpec

(* Whatever the other threads fetch and however the library changes, a     *)
(* reader that comes to its end has each row of one listing once.          *)
THEOREM PagesAreOfOneListing == ScopeSpec => []PagesOfOneListing
<1>1. ListingInv => PagesOfOneListing
  <2> SUFFICES ASSUME ListingInv, NEW r \in Readers, reader[r].at = "over", reader[r].total >= 0,
                      ~reader[r].crossed
               PROVE  LET keys == [i \in 1..Len(reader[r].got) |-> reader[r].got[i].key] IN
                      /\ Len(keys) = reader[r].total /\ IsInjective(keys)
                      /\ ToSet(keys) \subseteq KeysOf(reader[r].path)
                      /\ reader[r].listing.torn
                           \/ \A k \in KeysOf(reader[r].path) \ ToSet(keys) : zotero.of[k] = 0
    BY DEF PagesOfOneListing
  <2> DEFINE got == reader[r].got
             keys == [i \in 1..Len(got) |-> got[i].key]
  <2>1. /\ Len(got) = reader[r].total /\ Once(got, reader[r].path)
        /\ reader[r].listing.torn \/ Lacking(got, reader[r].path, {})
    BY DEF ListingInv, ReaderSound, OverSound
  <2>2. Len(got) \in Nat
    BY DEF ListingInv, ScopeTypeOK, Reader
  <2>3. Len(keys) = Len(got) /\ DOMAIN keys = 1..Len(got) /\ \A i \in 1..Len(got) : keys[i] = got[i].key
    BY <2>2
  <2> HIDE DEF keys, got
  <2>4. ToSet(keys) = {keys[i] : i \in 1..Len(got)}
    BY <2>3 DEF ToSet
  <2>5. IsInjective(keys) /\ ToSet(keys) \subseteq KeysOf(reader[r].path)
    BY <2>1, <2>3, <2>4 DEF Once, IsInjective
  <2>6. \A k : HasKey(got, k) => k \in ToSet(keys)
    BY <2>3, <2>4 DEF HasKey
  <2>7. Lacking(got, reader[r].path, {}) => \A k \in KeysOf(reader[r].path) \ ToSet(keys) : zotero.of[k] = 0
    BY <2>6 DEF Lacking
  <2> QED BY <2>1, <2>3, <2>5, <2>7 DEF keys, got
<1> QED BY <1>1, ListingInvariant, PTL

-----------------------------------------------------------------------------
(* SitterVersion: one run of the guard, for any checkout, any lanes and    *)
(* any page length.                                                        *)
Everyone == Lanes \cup {Here}
Carried == Payloads \cup {s.first : s \in Checkouts} \cup {s.tree : s \in Checkouts}
Commit == [payload : Carried, past : SUBSET Nat]
Texts == {p.version : p \in Carried} \cup {Nameless}
Looking == {"list", "listing", "head", "manifest", "payload", "verdict"}
VersionTypeOK ==
  /\ repo \in [commits : Seq(Commit), head : [Everyone -> Nat], open : Seq(Everyone)]
  /\ checkout.tree \in Carried
  /\ guard \in [pc : Looking \cup {"idle", "local", "done"}, findings : SUBSET Nat, claims : SUBSET Texts,
                read : Nat, page : Nat, left : Seq(Everyone), manifest : Texts,
                crossed : SUBSET Everyone, unrun : BOOLEAN, exit : {0, 1}]
  /\ steady \in [lanes : SUBSET Everyone, shifted : BOOLEAN]

(* A head, and what a commit descends from, are commits.                   *)
Rooted ==
  /\ \A l \in Everyone : repo.head[l] \in 1..Len(repo.commits)
  /\ \A c \in 1..Len(repo.commits) : repo.commits[c].past \subseteq 1..Len(repo.commits)

(* What rules 1 and 2 left: nothing of our history that is reused is       *)
(* missing among the findings.                                             *)
HistoryRead ==
  /\ guard.pc \in {"idle", "local"} => guard.crossed = {}
  /\ guard.pc = "local" => ~CannotSee
  /\ IsFiniteSet(guard.claims)
  /\ guard.pc \in Looking =>
       /\ Orders(Tree)
       /\ \A c \in Past(Here) : Reused(c) => c \in guard.findings
       /\ guard.read > 0 => \E c \in Past(Here) : Versioned(PayloadOf(c))
       /\ guard.findings = {} /\ TagRead =>
            Resolves(checkout.entry.tag) /\ PayloadOf(checkout.entry.tag).version = Tree.version

(* A request that stood still is still to be listed, still to be asked     *)
(* about, or was asked about, and at its head.                             *)
Ahead(lane) == \E i \in 1..Len(guard.left) : guard.left[i] = lane
Unlisted(lane) == \E i \in 1..Len(repo.open) : repo.open[i] = lane /\ i > (guard.page - 1) * PAGE
Passed(lane) == Reused(repo.head[lane]) => lane \in guard.crossed \/ repo.head[lane] \in Past(Here)
StillToAsk ==
  /\ guard.pc \in {"list", "listing"} => guard.page > 0
  /\ guard.pc \in {"idle", "local", "list"} => guard.page = 1 /\ guard.left = <<>>
  /\ guard.pc = "listing" /\ ~steady.shifted => \A l \in steady.lanes : Ahead(l) \/ Unlisted(l)
  /\ guard.pc \in {"head", "manifest", "payload", "verdict"} /\ ~guard.unrun /\ ~steady.shifted =>
       \A l \in steady.lanes : Ahead(l) \/ Passed(l)
  /\ guard.pc = "verdict" /\ ~guard.unrun => guard.left = <<>>
  /\ guard.pc \in {"manifest", "payload"} => guard.left # <<>>
  /\ guard.pc = "payload" /\ Head(guard.left) \in steady.lanes => guard.manifest = AtHead.version

GuardInv == VersionTypeOK /\ Rooted /\ HistoryRead /\ StillToAsk /\ OkIsUnclaimed

LEMMA CarriedIsPayload ==
  ASSUME NEW p \in Carried
  PROVE  IsPayload(p)
BY PayloadsAssumption DEF Carried

LEMMA GuardStarts == VersionInit => GuardInv
<1> SUFFICES ASSUME VersionInit PROVE GuardInv
  OBVIOUS
<1>1. PICK s \in Checkouts :
        /\ repo = [commits |-> <<[payload |-> s.first, past |-> {1}]>>,
                   head |-> [l \in Lanes \cup {Here} |-> 1], open |-> <<>>]
        /\ checkout = [clone |-> s.clone, tree |-> s.tree, entry |-> s.entry, room |-> s.room]
  BY DEF VersionInit
<1>2. VersionTypeOK
  <2>1. repo.commits \in Seq(Commit) /\ repo.open \in Seq(Everyone)
    BY <1>1 DEF Commit, Carried
  <2>2. checkout.tree \in Carried
    BY <1>1 DEF Carried
  <2>3. repo.head \in [Everyone -> Nat]
    BY <1>1 DEF Everyone
  <2> QED BY <1>1, <2>1, <2>2, <2>3 DEF VersionInit, VersionTypeOK, Texts, Looking
<1>3. Rooted
  BY <1>1 DEF Rooted, Everyone
<1>4. HistoryRead
  BY FS_EmptySet DEF VersionInit, HistoryRead, Looking
<1>5. StillToAsk /\ OkIsUnclaimed
  BY DEF VersionInit, StillToAsk, OkIsUnclaimed
<1> QED BY <1>2, <1>3, <1>4, <1>5 DEF GuardInv
(* A commit of any lane but the guard's, or before the guard runs: what    *)
(* the guard has read stays where it is.                                   *)
LEMMA AddKeeps ==
  ASSUME GuardInv, NEW lane \in Everyone, NEW p \in Carried, NEW merged \in SUBSET (1..Len(repo.commits)),
         Add(lane, p, merged), guard.pc = "idle" \/ (Asking /\ lane # Here)
  PROVE  GuardInv'
<1> DEFINE n == Len(repo.commits)
           commit == [payload |-> p, past |-> merged \cup Past(lane) \cup {n + 1}]
<1>1. /\ repo' = [repo EXCEPT !.commits = Append(repo.commits, commit), !.head[lane] = n + 1]
      /\ steady' = [steady EXCEPT !.lanes = steady.lanes \ {lane}]
      /\ checkout' = checkout /\ guard' = guard
  BY DEF Add
<1>2. /\ repo.commits \in Seq(Commit) /\ repo.head \in [Everyone -> Nat] /\ repo.open \in Seq(Everyone)
      /\ repo = [commits |-> repo.commits, head |-> repo.head, open |-> repo.open]
      /\ steady.lanes \subseteq Everyone
  BY DEF GuardInv, VersionTypeOK
<1>3. n \in Nat
  BY <1>2
<1>4. Past(lane) \subseteq 1..n /\ repo.head[lane] \in 1..n
  BY DEF GuardInv, Rooted, Past
<1>5. commit \in Commit /\ commit.past \subseteq 1..(n + 1)
  <2> DEFINE past == merged \cup Past(lane) \cup {n + 1}
  <2>1. merged \subseteq 1..n /\ n + 1 \in 1..(n + 1)
    BY <1>3
  <2> HIDE DEF n
  <2>2. past \subseteq 1..(n + 1)
    <3>1. \A i \in 1..n : i \in 1..(n + 1)
      BY <1>3
    <3> QED BY <1>4, <2>1, <3>1
  <2>3. past \subseteq Nat
    BY <1>3, <2>2
  <2> QED BY <2>2, <2>3 DEF Commit, commit
<1>6. /\ repo'.commits = Append(repo.commits, commit) /\ repo'.open = repo.open
      /\ repo'.head = [repo.head EXCEPT ![lane] = n + 1]
      /\ repo' = [commits |-> repo'.commits, head |-> repo'.head, open |-> repo'.open]
  BY <1>1, <1>2
<1>7. /\ Len(repo'.commits) = n + 1 /\ repo'.commits \in Seq(Commit)
      /\ \A c \in 1..n : repo'.commits[c] = repo.commits[c]
      /\ repo'.commits[n + 1] = commit
  BY <1>2, <1>3, <1>5, <1>6
<1>8. /\ \A l \in Everyone : l # lane => repo'.head[l] = repo.head[l]
      /\ repo'.head[lane] = n + 1 /\ repo'.head \in [Everyone -> Nat]
  BY <1>2, <1>3, <1>6
<1> HIDE DEF commit
<1>9. VersionTypeOK'
  BY <1>1, <1>2, <1>6, <1>7, <1>8 DEF GuardInv, VersionTypeOK
<1>10. Rooted'
  <2> HIDE DEF n
  <2>2. \A l \in Everyone : repo'.head[l] \in 1..(n + 1)
    BY <1>3, <1>8 DEF GuardInv, Rooted, n
  <2>3. ASSUME NEW c \in 1..(n + 1) PROVE repo'.commits[c].past \subseteq 1..(n + 1)
    <3>1. CASE c = n + 1
      BY <1>5, <1>7, <3>1
    <3>2. CASE c # n + 1
      <4>1. c \in 1..n
        BY <1>3, <3>2
      <4>2. repo'.commits[c] = repo.commits[c] /\ repo.commits[c].past \subseteq 1..n
        BY <1>7, <4>1 DEF GuardInv, Rooted, n
      <4> QED BY <1>3, <4>2
    <3> QED BY <3>1, <3>2
  <2> QED BY <1>7, <2>2, <2>3 DEF Rooted
<1> HIDE DEF n
<1>11. \A c \in 1..n : PayloadOf(c)' = PayloadOf(c)
  BY <1>7 DEF PayloadOf
<1>12. \A c \in 1..n : Reused(c)' <=> Reused(c)
  BY <1>1, <1>11 DEF Reused, Tree
<1>13. CASE guard.pc = "idle"
  BY <1>1, <1>9, <1>10, <1>13 DEF GuardInv, HistoryRead, StillToAsk, OkIsUnclaimed, Looking
<1>14. CASE Asking /\ lane # Here
  <2>1. /\ guard.pc \in {"list", "listing", "head", "manifest", "payload"}
    BY <1>14 DEF Asking, Listing
  <2>2. Past(Here)' = Past(Here) /\ Past(Here) \subseteq 1..n
    <3>1. Here \in Everyone /\ repo'.head[Here] = repo.head[Here] /\ repo.head[Here] \in 1..n
      BY <1>8, <1>14 DEF GuardInv, Rooted, Everyone, n
    <3> QED BY <1>7, <3>1 DEF Past, GuardInv, Rooted, n
  <2>3. HistoryRead'
    <3>1. ASSUME TagRead PROVE /\ TagRead' /\ Resolves(checkout.entry.tag) => checkout.entry.tag \in 1..n
                               /\ Resolves(checkout.entry.tag) => Resolves(checkout.entry.tag)'
      <4>1. DOMAIN repo.commits = 1..n /\ DOMAIN repo'.commits = 1..(n + 1)
        BY <1>2, <1>7, LenProperties DEF n
      <4> QED BY <1>1, <1>3, <4>1, <3>1 DEF TagRead, OneEntry, Resolves
    <3>2. TagRead' <=> TagRead
      BY <1>1 DEF TagRead, OneEntry
    <3>3. \A c \in Past(Here)' : Reused(c)' => c \in guard'.findings
      BY <1>1, <1>12, <2>1, <2>2 DEF GuardInv, HistoryRead, Looking
    <3>4. guard'.read > 0 => \E c \in Past(Here)' : Versioned(PayloadOf(c)')
      BY <1>1, <1>11, <2>1, <2>2 DEF GuardInv, HistoryRead, Looking
    <3>5. guard'.findings = {} /\ TagRead' =>
            Resolves(checkout.entry.tag)' /\ PayloadOf(checkout.entry.tag)' = PayloadOf(checkout.entry.tag)
      BY <1>1, <1>11, <2>1, <3>1, <3>2 DEF GuardInv, HistoryRead, Looking
    <3>6. /\ Orders(Tree)' /\ IsFiniteSet(guard'.claims)
          /\ guard'.pc \in Looking \ {"local", "idle"}
          /\ guard'.findings = {} /\ TagRead' => PayloadOf(checkout.entry.tag).version = Tree'.version
      BY <1>1, <2>1, <3>2 DEF GuardInv, HistoryRead, Looking, Tree, Orders
    <3> QED BY <1>1, <2>1, <3>3, <3>4, <3>5, <3>6 DEF HistoryRead, Looking, Versioned
  <2>4. StillToAsk'
    <3>1. ASSUME NEW l \in steady'.lanes
          PROVE  /\ l \in steady.lanes /\ l # lane /\ l \in Everyone
                 /\ repo'.head[l] = repo.head[l] /\ repo.head[l] \in 1..n
      BY <1>1, <1>2, <1>8, <3>1 DEF GuardInv, Rooted, n
    <3>2. \A l \in steady'.lanes : /\ Ahead(l)' <=> Ahead(l)
                                   /\ Unlisted(l)' <=> Unlisted(l)
                                   /\ Passed(l)' <=> Passed(l)
      BY <1>1, <1>6, <1>12, <2>2, <3>1 DEF Ahead, Unlisted, Passed
    <3>3. guard'.pc = "payload" /\ Head(guard'.left) \in steady'.lanes => AtHead' = AtHead
      BY <1>1, <1>11, <3>1 DEF AtHead
    <3>4. steady'.shifted = steady.shifted
      BY <1>1 DEF GuardInv, VersionTypeOK
    <3> QED BY <1>1, <2>1, <3>1, <3>2, <3>3, <3>4 DEF GuardInv, StillToAsk
  <2>5. OkIsUnclaimed'
    BY <1>1, <2>1 DEF OkIsUnclaimed
  <2> QED BY <1>9, <1>10, <2>3, <2>4, <2>5 DEF GuardInv
<1> QED BY <1>13, <1>14

(* The list of requests changes while it is read: a new one comes first,   *)
(* and one that is closed moves those after it.                            *)
LEMMA RequestsKeep ==
  ASSUME GuardInv, NEW lane \in Everyone, OpenRequest(lane) \/ CloseRequest(lane)
  PROVE  GuardInv'
<1>1. /\ repo'.commits = repo.commits /\ repo'.head = repo.head
      /\ repo' = [commits |-> repo.commits, head |-> repo.head, open |-> repo'.open]
      /\ checkout' = checkout /\ guard' = guard /\ guard.pc \in {"list", "listing"}
  BY DEF OpenRequest, CloseRequest, Listing, GuardInv, VersionTypeOK
<1>2. repo.open \in Seq(Everyone)
  BY DEF GuardInv, VersionTypeOK
<1>3. ASSUME repo'.open \in Seq(Everyone), steady' \in [lanes : SUBSET Everyone, shifted : BOOLEAN],
             guard.pc = "listing" /\ ~steady'.shifted => \A l \in steady'.lanes : Ahead(l) \/ Unlisted(l)'
      PROVE  GuardInv'
  <2>1. VersionTypeOK' /\ Rooted'
    BY <1>1, <1>3 DEF GuardInv, VersionTypeOK, Rooted
  <2>2. HistoryRead'
    BY <1>1 DEF GuardInv, HistoryRead, CannotSee, Tree, Past, PayloadOf, Reused, TagRead, Resolves, OneEntry
  <2>3. StillToAsk'
    BY <1>1, <1>3 DEF GuardInv, StillToAsk, Ahead
  <2>4. OkIsUnclaimed'
    BY <1>1 DEF OkIsUnclaimed
  <2> QED BY <2>1, <2>2, <2>3, <2>4 DEF GuardInv
<1>4. CASE OpenRequest(lane)
  <2>1. repo'.open = <<lane>> \o repo.open /\ steady' = steady
    BY <1>4 DEF OpenRequest, GuardInv, VersionTypeOK
  <2>2. <<lane>> \in Seq(Everyone) /\ Len(<<lane>>) = 1
    OBVIOUS
  <2>3. /\ repo'.open \in Seq(Everyone)
        /\ Len(repo'.open) = 1 + Len(repo.open)
        /\ \A i \in 1..(1 + Len(repo.open)) : repo'.open[i] = IF i <= 1 THEN <<lane>>[i] ELSE repo.open[i - 1]
    BY <1>2, <2>1, <2>2, ConcatProperties
  <2>4. ASSUME NEW l \in steady.lanes, Unlisted(l), guard.pc = "listing" PROVE Unlisted(l)'
    <3>1. PICK i \in 1..Len(repo.open) : repo.open[i] = l /\ i > (guard.page - 1) * PAGE
      BY <2>4 DEF Unlisted
    <3>2. i + 1 \in 1..Len(repo'.open) /\ repo'.open[i + 1] = l
      BY <1>2, <2>3, <3>1
    <3>3. (guard.page - 1) * PAGE \in Int
      BY PagesAssumption DEF GuardInv, VersionTypeOK
    <3>4. i + 1 > (guard'.page - 1) * PAGE
      BY <1>1, <3>1, <3>3
    <3> QED BY <3>2, <3>4 DEF Unlisted
  <2>5. guard.pc = "listing" /\ ~steady'.shifted => \A l \in steady'.lanes : Ahead(l) \/ Unlisted(l)'
    BY <2>1, <2>4 DEF GuardInv, StillToAsk
  <2> QED BY <1>3, <2>1, <2>3, <2>5 DEF GuardInv, VersionTypeOK
<1>5. CASE CloseRequest(lane)
  <2>1. PICK i \in 1..Len(repo.open) : repo' = [repo EXCEPT !.open = RemoveAt(repo.open, i)]
    BY <1>2, <1>5, LenProperties DEF CloseRequest
  <2>2. repo'.open = SubSeq(repo.open, 1, i - 1) \o SubSeq(repo.open, i + 1, Len(repo.open))
    BY <2>1 DEF RemoveAt, GuardInv, VersionTypeOK
  <2>3. SubSeq(repo.open, 1, i - 1) \in Seq(Everyone) /\ SubSeq(repo.open, i + 1, Len(repo.open)) \in Seq(Everyone)
    BY <1>2
  <2>4. repo'.open \in Seq(Everyone)
    BY <2>2, <2>3, ConcatProperties
  <2>5. /\ steady' = [lanes |-> steady.lanes \ {lane}, shifted |-> steady.shifted \/ guard.pc = "listing"]
    BY <1>5 DEF CloseRequest
  <2> QED BY <1>3, <2>4, <2>5 DEF GuardInv, VersionTypeOK
<1> QED BY <1>4, <1>5
(* main() refuses a checkout without the whole history; rules 1 and 2.     *)
LEMMA LocalReads ==
  ASSUME GuardInv, CheckClone \/ Local
  PROVE  GuardInv'
<1>1. repo' = repo /\ checkout' = checkout /\ steady' = steady
  BY DEF CheckClone, Local
<1>2. /\ guard = [pc |-> guard.pc, findings |-> guard.findings, claims |-> guard.claims, read |-> guard.read,
                  page |-> guard.page, left |-> guard.left, manifest |-> guard.manifest,
                  crossed |-> guard.crossed, unrun |-> guard.unrun, exit |-> guard.exit]
      /\ guard.pc \in {"idle", "local"} /\ guard.crossed = {} /\ guard.page = 1 /\ guard.left = <<>>
  BY DEF GuardInv, VersionTypeOK, HistoryRead, StillToAsk, CheckClone, Local
<1>3. Rooted'
  BY <1>1 DEF GuardInv, Rooted
<1>4. CASE ExitsWith(1)
  <2>1. guard' = [guard EXCEPT !.pc = "done", !.exit = 1]
    BY <1>4 DEF ExitsWith
  <2>2. VersionTypeOK'
    BY <1>1, <1>2, <2>1 DEF GuardInv, VersionTypeOK
  <2>3. HistoryRead' /\ StillToAsk' /\ OkIsUnclaimed'
    BY <1>1, <1>2, <2>1 DEF GuardInv, HistoryRead, StillToAsk, OkIsUnclaimed, Looking
  <2> QED BY <1>3, <2>2, <2>3 DEF GuardInv
<1>5. CASE guard.pc = "idle" /\ ~CannotSee /\ guard' = [guard EXCEPT !.pc = "local"]
  <2>1. VersionTypeOK'
    BY <1>1, <1>2, <1>5 DEF GuardInv, VersionTypeOK
  <2>2. HistoryRead' /\ StillToAsk' /\ OkIsUnclaimed'
    BY <1>1, <1>2, <1>5 DEF GuardInv, HistoryRead, StillToAsk, OkIsUnclaimed, Looking, CannotSee
  <2> QED BY <1>3, <2>1, <2>2 DEF GuardInv
<1>6. CASE /\ guard.pc = "local" /\ Orders(Tree)
           /\ guard' = [guard EXCEPT
                !.pc = "list",
                !.findings = {c \in Compared : Reused(c)} \cup (IF ReleaseAgrees THEN {} ELSE {0}),
                !.claims = {PayloadOf(c).version : c \in Compared},
                !.read = Cardinality(Compared)]
  <2>1. /\ guard'.pc = "list" /\ guard'.read = Cardinality(Compared) /\ guard'.page = 1 /\ guard'.left = <<>>
        /\ guard'.findings = {c \in Compared : Reused(c)} \cup (IF ReleaseAgrees THEN {} ELSE {0})
        /\ guard'.claims = {PayloadOf(c).version : c \in Compared}
        /\ guard'.crossed = {} /\ guard'.exit = guard.exit /\ guard'.manifest = guard.manifest
        /\ guard'.unrun = guard.unrun
    BY <1>2, <1>6
  <2>2. Visible = Past(Here) /\ Past(Here) \subseteq 1..Len(repo.commits)
    BY <1>6 DEF GuardInv, HistoryRead, CannotSee, Visible, Rooted, Past, Everyone
  <2>3. Compared \subseteq 1..Len(repo.commits) /\ Compared \subseteq Past(Here)
    BY <2>2 DEF Compared
  <2>4. /\ IsFiniteSet(Compared) /\ Cardinality(Compared) \in Nat
        /\ Cardinality(Compared) > 0 => Compared # {}
    <3>1. Len(repo.commits) \in Nat
      BY DEF GuardInv, VersionTypeOK
    <3>2. IsFiniteSet(1..Len(repo.commits))
      BY <3>1, FS_Interval
    <3>3. IsFiniteSet(Compared)
      BY <2>3, <3>2, FS_Subset
    <3>4. Cardinality(Compared) \in Nat
      BY <3>3, FS_CardinalityType
    <3> QED BY <3>3, <3>4, FS_EmptySet
  <2>5. IsFiniteSet({PayloadOf(c).version : c \in Compared})
    <3> DEFINE versions == {PayloadOf(c).version : c \in Compared}
               f == [c \in Compared |-> PayloadOf(c).version]
    <3>1. f \in Surjection(Compared, versions)
      BY DEF Surjection
    <3> QED BY <2>4, <3>1, FS_Surjection
  <2>6. \A c \in Compared : PayloadOf(c) \in Carried /\ c \in Nat
    <3>1. \A c \in 1..Len(repo.commits) : repo.commits[c] \in Commit /\ c \in Nat
      BY DEF GuardInv, VersionTypeOK
    <3> QED BY <2>3, <3>1 DEF PayloadOf, Commit
  <2>7. VersionTypeOK'
    <3>1. guard'.findings \subseteq Nat /\ guard'.claims \subseteq Texts
      BY <2>1, <2>6 DEF Texts
    <3>2. guard' = [pc |-> guard'.pc, findings |-> guard'.findings, claims |-> guard'.claims, read |-> guard'.read,
                    page |-> guard'.page, left |-> guard'.left, manifest |-> guard'.manifest,
                    crossed |-> guard'.crossed, unrun |-> guard'.unrun, exit |-> guard'.exit]
      BY <1>2, <1>6
    <3> HIDE DEF Looking
    <3>3. guard'.pc \in Looking
      BY <2>1 DEF Looking
    <3> QED BY <1>1, <1>2, <2>1, <2>4, <3>1, <3>2, <3>3 DEF GuardInv, VersionTypeOK
  <2>8. HistoryRead'
    <3>1. \A c \in Past(Here) : Reused(c) => c \in guard'.findings
      <4>1. ASSUME NEW c \in Past(Here), Reused(c) PROVE Versioned(PayloadOf(c))
        <5>1. PayloadOf(c).version.number # <<>>
          BY <4>1 DEF Reused, SameNumber, Orders
        <5>2. NoPayload.version.number = <<>> /\ Nameless.number = <<>>
          BY DEF NoPayload, Nameless
        <5> QED BY <5>1, <5>2 DEF Versioned
      <4> QED BY <2>1, <2>2, <4>1 DEF Compared
    <3>2. guard'.read > 0 => \E c \in Past(Here) : Versioned(PayloadOf(c))
      BY <2>1, <2>3, <2>4 DEF Compared
    <3>3. guard'.findings = {} /\ TagRead =>
            Resolves(checkout.entry.tag) /\ PayloadOf(checkout.entry.tag).version = Tree.version
      <4> SUFFICES ASSUME guard'.findings = {}, TagRead
                   PROVE  Resolves(checkout.entry.tag) /\ PayloadOf(checkout.entry.tag).version = Tree.version
        OBVIOUS
      <4>1. ReleaseAgrees
        BY <2>1
      <4> QED BY <4>1 DEF ReleaseAgrees, TagRead, OneEntry
    <3>4. IsFiniteSet(guard'.claims)
      BY <2>1, <2>5
    <3> QED BY <1>1, <1>6, <2>1, <3>1, <3>2, <3>3, <3>4 DEF HistoryRead, Looking, Past, PayloadOf, Reused, TagRead, OneEntry, Tree, Resolves
  <2>9. StillToAsk' /\ OkIsUnclaimed'
    BY <2>1 DEF StillToAsk, OkIsUnclaimed
  <2> QED BY <1>3, <2>7, <2>8, <2>9 DEF GuardInv
<1> QED BY <1>2, <1>4, <1>5, <1>6 DEF CheckClone, Local

(* What rule 3 does to the guard leaves what rules 1 and 2 found.          *)
LEMMA AskingKeeps ==
  ASSUME GuardInv, guard.pc \in Looking, guard'.pc \in Looking,
         UNCHANGED <<repo, checkout>>, guard'.findings = guard.findings, guard'.read = guard.read,
         IsFiniteSet(guard'.claims)
  PROVE  Rooted' /\ HistoryRead' /\ OkIsUnclaimed'
<1>1. Rooted' /\ OkIsUnclaimed'
  BY DEF GuardInv, Rooted, OkIsUnclaimed, Looking
<1>2. HistoryRead'
  BY DEF GuardInv, HistoryRead, Past, PayloadOf, Reused, TagRead, OneEntry, Tree, Resolves, Looking
<1> QED BY <1>1, <1>2

(* A page of the list.                                                     *)
LEMMA PageRead ==
  ASSUME GuardInv, ListPage
  PROVE  GuardInv'
<1> DEFINE onPage == PageOf(repo.open, guard.page)
           before == (guard.page - 1) * PAGE
           full == Len(onPage) = PAGE
<1>1. /\ repo' = repo /\ checkout' = checkout /\ guard.pc \in {"list", "listing"}
      /\ guard' = [guard EXCEPT !.left = guard.left \o onPage, !.page = guard.page + 1,
                                !.pc = IF ~full THEN "head" ELSE IF guard.page = PAGES THEN "verdict" ELSE "listing",
                                !.unrun = full /\ guard.page = PAGES]
      /\ steady' = IF guard.pc = "list" THEN [lanes |-> ToSet(repo.open), shifted |-> FALSE] ELSE steady
  BY DEF ListPage, Listing
<1>2. /\ repo.open \in Seq(Everyone) /\ guard.left \in Seq(Everyone) /\ guard.page \in Nat \ {0}
      /\ guard.pc = "list" => guard.page = 1 /\ guard.left = <<>>
  BY <1>1 DEF GuardInv, VersionTypeOK, StillToAsk
<1>3. /\ before \in Nat /\ guard.page * PAGE = before + PAGE /\ (guard.page + 1 - 1) * PAGE = before + PAGE
      /\ guard.page = 1 => before = 0
  <2>1. guard.page - 1 \in Nat /\ PAGE \in Nat
    BY <1>2, PagesAssumption
  <2>2. \A a, b \in Nat : a * b \in Nat /\ (a + 1) * b = a * b + b /\ 0 * b = 0
    OBVIOUS
  <2> QED BY <1>2, <2>1, <2>2
<1> DEFINE upto == IF before + PAGE < Len(repo.open) THEN before + PAGE ELSE Len(repo.open)
<1> HIDE DEF before
<1>4. /\ onPage = SubSeq(repo.open, before + 1, upto) /\ upto \in Nat
      /\ Len(repo.open) \in Nat /\ upto <= Len(repo.open)
  <2>1. onPage = SubSeq(repo.open, before + 1, IF guard.page * PAGE < Len(repo.open) THEN guard.page * PAGE ELSE Len(repo.open))
    BY DEF PageOf, before
  <2>2. Len(repo.open) \in Nat
    BY <1>2
  <2> QED BY <1>3, <2>1, <2>2, PagesAssumption
<1>5. /\ onPage \in Seq(Everyone)
      /\ Len(onPage) = IF before + 1 <= upto THEN upto - before ELSE 0
      /\ \A i \in 1..(upto - before) : onPage[i] = repo.open[before + i]
  <2>1. \A i \in (before + 1)..upto : repo.open[i] \in Everyone
    BY <1>2, <1>3, <1>4
  <2>2. before + 1 \in Int /\ upto \in Int
    BY <1>3, <1>4
  <2> HIDE DEF onPage, upto
  <2>3. /\ SubSeq(repo.open, before + 1, upto) \in Seq(Everyone)
        /\ Len(SubSeq(repo.open, before + 1, upto)) = IF before + 1 <= upto THEN upto - (before + 1) + 1 ELSE 0
        /\ \A i \in 1..(upto - (before + 1) + 1) : SubSeq(repo.open, before + 1, upto)[i] = repo.open[before + 1 + i - 1]
    BY <2>1, <2>2, SubSeqProperties
  <2> QED BY <1>3, <1>4, <2>3
<1> HIDE DEF onPage
<1>6. /\ guard'.page = guard.page + 1 /\ guard'.findings = guard.findings /\ guard'.read = guard.read
      /\ guard'.claims = guard.claims /\ guard'.crossed = guard.crossed /\ guard'.manifest = guard.manifest
      /\ guard'.pc = IF ~full THEN "head" ELSE IF guard.page = PAGES THEN "verdict" ELSE "listing"
      /\ guard'.unrun = (full /\ guard.page = PAGES) /\ guard'.exit = guard.exit
      /\ guard'.left = guard.left \o onPage
  BY <1>1 DEF GuardInv, VersionTypeOK
<1>7. /\ guard'.left = guard.left \o onPage /\ guard'.left \in Seq(Everyone)
      /\ Len(guard'.left) = Len(guard.left) + Len(onPage)
      /\ \A i \in 1..(Len(guard.left) + Len(onPage)) :
           guard'.left[i] = IF i <= Len(guard.left) THEN guard.left[i] ELSE onPage[i - Len(guard.left)]
  <2>1. guard'.left = guard.left \o onPage
    BY <1>1, <1>6
  <2>2. /\ guard.left \o onPage \in Seq(Everyone)
        /\ Len(guard.left \o onPage) = Len(guard.left) + Len(onPage)
        /\ \A i \in 1..(Len(guard.left) + Len(onPage)) :
             (guard.left \o onPage)[i] = IF i <= Len(guard.left) THEN guard.left[i] ELSE onPage[i - Len(guard.left)]
    <3>1. guard.left \in Seq(Everyone) /\ onPage \in Seq(Everyone)
      BY <1>2, <1>5
    <3> QED BY <3>1, ConcatProperties
  <2> QED BY <2>1, <2>2
<1>8. VersionTypeOK'
  <2>1. guard' = [pc |-> guard'.pc, findings |-> guard'.findings, claims |-> guard'.claims, read |-> guard'.read,
                  page |-> guard'.page, left |-> guard'.left, manifest |-> guard'.manifest,
                  crossed |-> guard'.crossed, unrun |-> guard'.unrun, exit |-> guard'.exit]
    BY <1>1 DEF GuardInv, VersionTypeOK
  <2>2. ToSet(repo.open) \subseteq Everyone
    BY <1>2 DEF ToSet
  <2>3. steady' \in [lanes : SUBSET Everyone, shifted : BOOLEAN]
    BY <1>1, <2>2 DEF GuardInv, VersionTypeOK
  <2>4. guard'.pc \in Looking /\ guard'.unrun \in BOOLEAN /\ guard'.page \in Nat
    BY <1>2, <1>6 DEF Looking
  <2> QED BY <1>1, <1>7, <1>6, <2>1, <2>3, <2>4 DEF GuardInv, VersionTypeOK
<1>9. ASSUME NEW l \in steady'.lanes, ~steady'.shifted
      PROVE  Ahead(l)' \/ (guard'.pc = "listing" /\ Unlisted(l)') \/ guard'.unrun
  <2>1. Ahead(l) \/ \E i \in 1..Len(repo.open) : repo.open[i] = l /\ i > before
    <3>1. CASE guard.pc = "list"
      <4>1. l \in ToSet(repo.open)
        BY <1>1, <1>9, <3>1
      <4>2. PICK i \in 1..Len(repo.open) : repo.open[i] = l
        BY <1>2, <4>1, LenProperties DEF ToSet
      <4> QED BY <1>2, <1>3, <3>1, <4>2
    <3>2. CASE guard.pc = "listing"
      BY <1>1, <1>9, <3>2 DEF GuardInv, StillToAsk, Unlisted, before
    <3> QED BY <1>1, <3>1, <3>2
  <2>2. CASE Ahead(l)
    <3>1. PICK i \in 1..Len(guard.left) : guard.left[i] = l
      BY <2>2 DEF Ahead
    <3>2. i \in 1..Len(guard'.left) /\ guard'.left[i] = l
      BY <1>2, <1>5, <1>7, <3>1
    <3> QED BY <3>2 DEF Ahead
  <2>3. CASE \E i \in 1..Len(repo.open) : repo.open[i] = l /\ i > before
    <3>1. PICK i \in 1..Len(repo.open) : repo.open[i] = l /\ i > before
      BY <2>3
    <3>2. CASE i <= upto
      <4>1. i - before \in 1..(upto - before) /\ onPage[i - before] = l /\ Len(onPage) = upto - before
        BY <1>3, <1>4, <1>5, <3>1, <3>2
      <4>2. /\ Len(guard.left) + (i - before) \in 1..Len(guard'.left)
            /\ guard'.left[Len(guard.left) + (i - before)] = l
        <5> DEFINE j == Len(guard.left) + (i - before)
        <5>1. /\ j \in 1..(Len(guard.left) + Len(onPage)) /\ ~(j <= Len(guard.left))
              /\ j - Len(guard.left) = i - before
          BY <1>2, <1>3, <3>1, <4>1, SMTT(40)
        <5> HIDE DEF j
        <5>2. guard'.left[j] = onPage[i - before]
          BY <1>7, <5>1
        <5> QED BY <1>7, <4>1, <5>1, <5>2 DEF j
      <4> QED BY <4>2 DEF Ahead
    <3>3. CASE i > upto
      <4>1. upto = before + PAGE /\ full
        BY <1>3, <1>4, <1>5, <3>1, <3>3, PagesAssumption
      <4>2. i > (guard'.page - 1) * PAGE
        <5>1. (guard'.page - 1) * PAGE = before + PAGE
          BY <1>2, <1>3, <1>6
        <5> QED BY <3>3, <4>1, <5>1
      <4> QED BY <1>1, <1>6, <3>1, <4>1, <4>2 DEF Unlisted
    <3> QED BY <1>4, <3>1, <3>2, <3>3
  <2> QED BY <2>1, <2>2, <2>3
<1>10. StillToAsk'
  <2>1. guard'.page > 0 /\ guard'.pc \notin {"idle", "local", "list", "manifest", "payload"}
    BY <1>2, <1>6
  <2>4. guard'.pc = "verdict" => guard'.unrun
    <3>1. guard'.pc = "verdict" => full /\ guard.page = PAGES
      BY <1>6
    <3> QED BY <1>6, <3>1
  <2>2. guard'.pc = "listing" /\ ~steady'.shifted => \A l \in steady'.lanes : Ahead(l)' \/ Unlisted(l)'
    BY <1>6, <1>9
  <2>3. guard'.pc = "head" /\ ~guard'.unrun /\ ~steady'.shifted => \A l \in steady'.lanes : Ahead(l)'
    BY <1>6, <1>9
  <2> QED BY <2>1, <2>2, <2>3, <2>4 DEF StillToAsk
<1>11. Rooted' /\ HistoryRead' /\ OkIsUnclaimed'
  <2>1. guard.pc \in Looking /\ guard'.pc \in Looking
    BY <1>1, <1>6 DEF Looking
  <2>2. IsFiniteSet(guard'.claims)
    BY <1>6 DEF GuardInv, HistoryRead
  <2> QED BY <1>1, <1>6, <2>1, <2>2, AskingKeeps
<1> QED BY <1>8, <1>10, <1>11 DEF GuardInv
(* A push between two reads of a request's files makes what was read no    *)
(* payload that ever was; where the request stood still, it is the head's. *)
LEMMA RequestRead ==
  ASSUME GuardInv, ReadHead \/ ReadManifest \/ ReadPayload
  PROVE  GuardInv'
<1>1. /\ repo' = repo /\ checkout' = checkout /\ steady' = steady
      /\ guard.pc \in {"head", "manifest", "payload"} /\ guard.left # <<>>
  BY DEF ReadHead, ReadManifest, ReadPayload, GuardInv, StillToAsk
<1>2. /\ guard = [pc |-> guard.pc, findings |-> guard.findings, claims |-> guard.claims, read |-> guard.read,
                  page |-> guard.page, left |-> guard.left, manifest |-> guard.manifest,
                  crossed |-> guard.crossed, unrun |-> guard.unrun, exit |-> guard.exit]
      /\ guard.left \in Seq(Everyone) /\ guard.crossed \subseteq Everyone /\ guard.manifest \in Texts
      /\ guard.claims \subseteq Texts
  BY DEF GuardInv, VersionTypeOK
<1>0. PICK lane \in Everyone : lane = Head(guard.left)
  BY <1>1, <1>2, HeadTailProperties
<1>3. /\ Tail(guard.left) \in Seq(Everyone) /\ Tail(guard.left) # guard.left
      /\ \A l : Ahead(l) => l = lane \/ \E i \in 1..Len(Tail(guard.left)) : Tail(guard.left)[i] = l
  <2>1. /\ Len(Tail(guard.left)) = Len(guard.left) - 1 /\ Len(guard.left) \in Nat
        /\ \A i \in 1..Len(Tail(guard.left)) : Tail(guard.left)[i] = guard.left[i + 1]
        /\ Tail(guard.left) \in Seq(Everyone) /\ lane = guard.left[1]
    BY <1>0, <1>1, <1>2, HeadTailProperties
  <2>2. ASSUME NEW l, Ahead(l), l # lane PROVE \E i \in 1..Len(Tail(guard.left)) : Tail(guard.left)[i] = l
    <3>1. PICK i \in 1..Len(guard.left) : guard.left[i] = l
      BY <2>2 DEF Ahead
    <3>2. i - 1 \in 1..Len(Tail(guard.left)) /\ Tail(guard.left)[i - 1] = l
      <4>1. i # 1
        BY <2>1, <2>2, <3>1
      <4>2. i - 1 \in 1..Len(Tail(guard.left)) /\ (i - 1) + 1 = i
        BY <2>1, <4>1
      <4> QED BY <2>1, <3>1, <4>2
    <3> QED BY <3>2
  <2>3. Tail(guard.left) # guard.left
    <3>1. Len(Tail(guard.left)) # Len(guard.left)
      BY <2>1
    <3> QED BY <3>1
  <2> QED BY <2>1, <2>2, <2>3
<1>4. /\ repo.head[lane] \in 1..Len(repo.commits) /\ AtHead \in Carried
      /\ AtHead = PayloadOf(repo.head[lane])
  <2>1. \A c \in 1..Len(repo.commits) : repo.commits[c] \in Commit
    BY DEF GuardInv, VersionTypeOK
  <2>2. repo.head[lane] \in 1..Len(repo.commits)
    BY DEF GuardInv, Rooted
  <2> QED BY <1>0, <2>1, <2>2 DEF Commit, AtHead, PayloadOf
<1>5. ASSUME guard'.pc \in {"head", "manifest", "payload"},
             guard'.findings = guard.findings, guard'.read = guard.read, guard'.page = guard.page,
             guard'.claims \in {guard.claims, guard.claims \cup {AtHead.version}},
             guard' = [pc |-> guard'.pc, findings |-> guard.findings, claims |-> guard'.claims, read |-> guard.read,
                       page |-> guard.page, left |-> guard'.left, manifest |-> guard'.manifest,
                       crossed |-> guard'.crossed, unrun |-> guard.unrun, exit |-> guard.exit],
             guard'.left \in {guard.left, Tail(guard.left)}, guard'.manifest \in {guard.manifest, Nameless, AtHead.version},
             guard'.crossed \in {guard.crossed, guard.crossed \cup {lane}},
             guard'.pc \in {"manifest", "payload"} => guard'.left = guard.left,
             guard'.left = Tail(guard.left) /\ ~guard.unrun /\ ~steady.shifted /\ lane \in steady.lanes =>
               Passed(lane)',
             guard'.pc = "payload" => guard'.manifest = AtHead.version
      PROVE  GuardInv'
  <2>1. VersionTypeOK'
    <3>1. guard'.pc \in Looking
      BY <1>5 DEF Looking
    <3>2. Nameless \in Texts /\ AtHead.version \in Texts
      BY <1>4 DEF Texts
    <3> HIDE DEF Looking, Texts
    <3>3. guard'.claims \subseteq Texts /\ guard'.manifest \in Texts /\ guard'.left \in Seq(Everyone)
          /\ guard'.crossed \subseteq Everyone
      BY <1>2, <1>3, <1>5, <3>2
    <3> QED BY <1>1, <1>5, <3>1, <3>3 DEF GuardInv, VersionTypeOK
  <2>2. Rooted' /\ HistoryRead' /\ OkIsUnclaimed'
    <3>1. IsFiniteSet(guard'.claims)
      BY <1>5, FS_AddElement DEF GuardInv, HistoryRead
    <3>2. guard.pc \in Looking /\ guard'.pc \in Looking
      BY <1>1, <1>5 DEF Looking
    <3> QED BY <1>1, <1>5, <3>1, <3>2, AskingKeeps
  <2>3. ASSUME NEW l \in steady'.lanes, ~guard.unrun, ~steady.shifted
        PROVE  Ahead(l)' \/ Passed(l)'
    <3>1. Ahead(l) \/ Passed(l)
      BY <1>1, <2>3 DEF GuardInv, StillToAsk
    <3>2. CASE Passed(l)
      BY <1>1, <1>5, <3>2 DEF Passed, Reused, PayloadOf, Past, Tree
    <3>3. CASE Ahead(l) /\ guard'.left = guard.left
      BY <3>3 DEF Ahead
    <3>4. CASE Ahead(l) /\ guard'.left = Tail(guard.left)
      <4>1. CASE l = lane
        BY <1>1, <1>5, <2>3, <3>4, <4>1
      <4>2. CASE l # lane
        BY <1>3, <3>4, <4>2 DEF Ahead
      <4> QED BY <4>1, <4>2
    <3> QED BY <1>5, <3>1, <3>2, <3>3, <3>4
  <2>4. guard'.pc = "payload" => guard'.manifest = AtHead'.version
    BY <1>0, <1>1, <1>5 DEF AtHead, PayloadOf
  <2>5. StillToAsk'
    BY <1>1, <1>5, <2>3, <2>4 DEF StillToAsk
  <2> QED BY <2>1, <2>2, <2>5 DEF GuardInv
<1>6. /\ NextRequest = [guard EXCEPT !.pc = "head", !.left = Tail(guard.left), !.manifest = Nameless]
  BY DEF NextRequest
<1>7. CASE ReadHead
  <2>1. CASE Known(repo.head[lane]) /\ guard' = NextRequest
    <3>1. Passed(lane)'
      BY <1>1, <2>1 DEF Passed, Known, Past
    <3> QED BY <1>2, <1>5, <1>6, <2>1, <3>1
  <2>2. CASE guard' = [guard EXCEPT !.pc = "manifest"]
    BY <1>2, <1>3, <1>5, <2>2
  <2> QED BY <1>0, <1>7, <2>1, <2>2 DEF ReadHead
<1>8. CASE ReadManifest
  <2>1. CASE /\ ~Versioned(AtHead) \/ ~SameNumber(AtHead, Tree)
             /\ guard' \in {NextRequest, [NextRequest EXCEPT !.claims = guard.claims \cup {AtHead.version}]}
    <3>1. ~Reused(repo.head[lane])'
      <4>1. AtHead.version.number = <<>> \/ ~SameNumber(AtHead, Tree)
        <5>1. NoPayload.version.number = <<>> /\ Nameless.number = <<>>
          BY DEF NoPayload, Nameless
        <5> QED BY <2>1, <5>1 DEF Versioned
      <4>2. ~SameNumber(AtHead, Tree)
        BY <4>1 DEF SameNumber, Orders
      <4> QED BY <1>1, <1>4, <4>2 DEF Reused, PayloadOf, Tree
    <3>2. Passed(lane)'
      BY <1>1, <3>1 DEF Passed
    <3> QED BY <1>2, <1>5, <1>6, <2>1, <3>2
  <2>2. CASE guard' = [guard EXCEPT !.pc = "payload", !.manifest = AtHead.version,
                                    !.claims = guard.claims \cup {AtHead.version}]
    BY <1>2, <1>3, <1>5, <2>2
  <2> QED BY <1>2, <1>6, <1>8, <2>1, <2>2 DEF ReadManifest
<1>9. CASE ReadPayload
  <2> DEFINE torn == [version |-> guard.manifest, code |-> AtHead.code]
  <2>1. guard' = [NextRequest EXCEPT !.crossed = IF torn # Tree THEN guard.crossed \cup {lane} ELSE guard.crossed]
    BY <1>0, <1>2, <1>6, <1>9 DEF ReadPayload
  <2>2. ASSUME lane \in steady.lanes PROVE Passed(lane)'
    <3>1. guard.manifest = AtHead.version
      BY <1>0, <1>9, <2>2 DEF GuardInv, StillToAsk, ReadPayload
    <3>2. torn = AtHead
      BY <1>4, <3>1, CarriedIsPayload DEF IsPayload
    <3> HIDE DEF torn
    <3>3. AtHead # Tree => lane \in guard'.crossed
      BY <1>2, <1>6, <2>1, <3>2
    <3>4. Reused(repo.head[lane])' => AtHead # Tree
      BY <1>1, <1>4 DEF Reused, PayloadOf, Tree
    <3> QED BY <1>1, <3>3, <3>4 DEF Passed
  <2> HIDE DEF torn
  <2> QED BY <1>2, <1>5, <1>6, <2>1, <2>2
<1> QED BY <1>7, <1>8, <1>9
(* The list ends, or a request fails; what is open is left unasked.        *)
LEMMA AskingEnds ==
  ASSUME GuardInv, CannotLook \/ AllRead
  PROVE  GuardInv'
<1>1. /\ repo' = repo /\ checkout' = checkout /\ steady' = steady
      /\ guard.pc \in Looking
      /\ guard' \in {[guard EXCEPT !.pc = "verdict", !.unrun = TRUE], [guard EXCEPT !.pc = "verdict"]}
      /\ guard' = [guard EXCEPT !.pc = "verdict"] => (guard.pc = "head" /\ guard.left = <<>>) \/ guard.unrun
  BY DEF CannotLook, Unanswered, AllRead, Asking, Listing, Looking, GuardInv, VersionTypeOK
<1>2. /\ guard'.pc = "verdict" /\ guard'.findings = guard.findings /\ guard'.read = guard.read
      /\ guard'.claims = guard.claims /\ guard'.left = guard.left /\ guard'.crossed = guard.crossed
      /\ guard'.page = guard.page /\ guard'.manifest = guard.manifest /\ guard'.exit = guard.exit
      /\ ~guard'.unrun => guard.pc = "head" /\ guard.left = <<>> /\ ~guard.unrun
  BY <1>1 DEF GuardInv, VersionTypeOK
<1>3. VersionTypeOK'
  BY <1>1, ZenonT(60) DEF GuardInv, VersionTypeOK, Looking
<1>4. Rooted' /\ HistoryRead' /\ OkIsUnclaimed'
  BY <1>1, <1>2, AskingKeeps DEF GuardInv, HistoryRead, Looking
<1>5. StillToAsk'
  BY <1>1, <1>2 DEF GuardInv, StillToAsk, Ahead, Passed, Reused, PayloadOf, Past, Tree
<1> QED BY <1>3, <1>4, <1>5 DEF GuardInv

(* Of numbers that count up from ours, the claims read take no more than   *)
(* there are claims, so one is left, and the first of those is offered.    *)
LEMMA LeastNumber ==
  ASSUME NEW T \in SUBSET Nat, T # {}
  PROVE  \E n \in T : \A m \in T : n <= m
<1> DEFINE Less == {ss \in Nat \X Nat : ss[1] < ss[2]}
<1>1. IsWellFoundedOn(Less, Nat)
  BY NatLessThanWellFounded DEF OpToRel
<1>2. \A x, y \in Nat : y < x => <<y, x>> \in Less
  OBVIOUS
<1> HIDE DEF Less
<1>3. PICK x \in T : \A y \in T : ~(<<y, x>> \in Less)
  BY <1>1, WFMin
<1>4. x \in Nat
  OBVIOUS
<1>5. \A y \in T : y \in Nat /\ ~(y < x)
  BY <1>2, <1>3, <1>4
<1> QED BY <1>4, <1>5

LEMMA NextIsFree ==
  ASSUME NEW number \in Seq(Int), number # <<>>, NEW taken, IsFiniteSet(taken)
  PROVE  LET free == CHOOSE k \in 1..(Cardinality(taken) + 1) :
                       /\ Bumped(number, k) \notin taken
                       /\ \A j \in 1..(k - 1) : Bumped(number, j) \in taken
         IN  Bumped(number, free) \notin taken /\ Bumped(number, free) # number
<1> DEFINE n == Cardinality(taken) + 1
<1>1. n \in Nat \ {0} /\ n > Cardinality(taken)
  BY FS_CardinalityType
<1>2. ASSUME NEW k \in Int
      PROVE  Bumped(number, k)[Len(number)] = number[Len(number)] + k
  BY DEF Bumped
<1>3. number[Len(number)] \in Int
  OBVIOUS
<1>4. ASSUME NEW j \in Int, NEW k \in Int, Bumped(number, j) = Bumped(number, k)
      PROVE  j = k
  <2>1. number[Len(number)] + j = number[Len(number)] + k
    BY <1>2, <1>4
  <2> QED BY <1>3, <2>1
<1> DEFINE Free == {k \in 1..n : Bumped(number, k) \notin taken}
<1> HIDE DEF n
<1>5. Free # {}
  <2> SUFFICES ASSUME Free = {} PROVE FALSE
    OBVIOUS
  <2> DEFINE f == [k \in 1..n |-> Bumped(number, k)]
  <2>1. f \in [1..n -> taken]
    OBVIOUS
  <2>2. IsFiniteSet(1..n) /\ Cardinality(1..n) = n
    BY <1>1, FS_Interval
  <2>3. \A k \in 1..n : k \in Int /\ f[k] = Bumped(number, k)
    BY <1>1
  <2>4. Cardinality(taken) < Cardinality(1..n)
    BY <1>1, <2>2, FS_CardinalityType
  <2> HIDE DEF f
  <2>5. f \in Injection(1..n, taken)
    BY <1>4, <2>1, <2>3 DEF Injection, IsInjective
  <2>6. Cardinality(1..n) <= Cardinality(taken)
    BY <2>5, FS_Injection
  <2> QED BY <2>2, <2>4, <2>6, FS_CardinalityType
<1>6. PICK k \in Free : \A m \in Free : k <= m
  <2>1. Free \in SUBSET Nat
    BY <1>1
  <2> HIDE DEF Free
  <2> QED BY <1>5, <2>1, LeastNumber
<1>7. /\ k \in 1..n /\ Bumped(number, k) \notin taken
      /\ \A j \in 1..(k - 1) : Bumped(number, j) \in taken
  BY <1>1, <1>6
<1> DEFINE free == CHOOSE i \in 1..n : /\ Bumped(number, i) \notin taken
                                       /\ \A j \in 1..(i - 1) : Bumped(number, j) \in taken
<1>8. free \in 1..n /\ Bumped(number, free) \notin taken
  BY <1>7
<1> HIDE DEF free
<1>9. Bumped(number, free) # number
  BY <1>1, <1>2, <1>3, <1>8
<1> QED BY <1>8, <1>9 DEF n, free

(* The verdict.                                                            *)
LEMMA VerdictTrue ==
  ASSUME GuardInv, Verdict
  PROVE  GuardInv'
<1>1. /\ repo' = repo /\ checkout' = checkout /\ steady' = steady /\ guard.pc = "verdict"
      /\ guard' = [guard EXCEPT !.pc = "done",
                     !.exit = IF guard.findings = {} /\ guard.crossed = {} /\ guard.read > 0 THEN 0 ELSE 1]
  BY DEF Verdict, ExitsWith
<1>2. /\ guard'.pc = "done" /\ guard'.claims = guard.claims /\ guard'.crossed = guard.crossed
      /\ guard'.unrun = guard.unrun
      /\ guard'.exit = 0 => guard.findings = {} /\ guard.crossed = {} /\ guard.read > 0
  BY <1>1 DEF GuardInv, VersionTypeOK
<1>3. VersionTypeOK' /\ Rooted' /\ StillToAsk' /\ HistoryRead'
  BY <1>1 DEF GuardInv, VersionTypeOK, Rooted, StillToAsk, HistoryRead, Looking
<1>4. OkIsUnclaimed'
  <2>1. /\ Orders(Tree) /\ IsFiniteSet(guard.claims)
        /\ \A c \in Past(Here) : Reused(c) => c \in guard.findings
        /\ guard.read > 0 => \E c \in Past(Here) : Versioned(PayloadOf(c))
        /\ guard.findings = {} /\ TagRead =>
             Resolves(checkout.entry.tag) /\ PayloadOf(checkout.entry.tag).version = Tree.version
    BY <1>1 DEF GuardInv, HistoryRead, Looking
  <2>2. ASSUME guard'.exit = 0
        PROVE  /\ \E c \in Past(Here) : Versioned(PayloadOf(c))
               /\ \A c \in Past(Here) : ~Reused(c)
               /\ ~guard.unrun /\ ~steady.shifted => \A lane \in steady.lanes : ~Reused(repo.head[lane])
               /\ TagRead => Resolves(checkout.entry.tag) /\ SameNumber(PayloadOf(checkout.entry.tag), Tree)
    <3>1. (\E c \in Past(Here) : Versioned(PayloadOf(c))) /\ \A c \in Past(Here) : ~Reused(c)
      BY <1>2, <2>1, <2>2
    <3>2. ASSUME ~guard.unrun, ~steady.shifted, NEW lane \in steady.lanes PROVE ~Reused(repo.head[lane])
      <4>1. guard.left = <<>> /\ (Ahead(lane) \/ Passed(lane))
        BY <1>1, <3>2 DEF GuardInv, StillToAsk
      <4>2. ~Ahead(lane)
        BY <4>1 DEF Ahead
      <4> QED BY <1>2, <2>2, <3>1, <4>1, <4>2 DEF Passed
    <3>3. TagRead => Resolves(checkout.entry.tag) /\ SameNumber(PayloadOf(checkout.entry.tag), Tree)
      BY <1>2, <2>1, <2>2 DEF SameNumber, Orders
    <3> QED BY <3>1, <3>2, <3>3
  <2>3. next_free \notin NumbersRead /\ next_free # Tree.version.number
    <3>1. Tree.version.number \in Seq(Int) /\ Tree.version.number # <<>>
      BY <2>1, CarriedIsPayload DEF GuardInv, VersionTypeOK, Orders, IsPayload, Tree
    <3>2. IsFiniteSet(NumbersRead)
      <4> DEFINE f == [v \in guard.claims |-> v.number]
      <4>1. f \in Surjection(guard.claims, NumbersRead)
        BY DEF Surjection, NumbersRead
      <4> QED BY <2>1, <4>1, FS_Surjection
    <3> QED BY <3>1, <3>2, NextIsFree DEF next_free
  <2>4. next_free' = next_free /\ NumbersRead' = NumbersRead /\ Tree' = Tree
    BY <1>1, <1>2 DEF next_free, NumbersRead, Tree
  <2>5. /\ Past(Here)' = Past(Here) /\ TagRead' = TagRead
        /\ \A c : PayloadOf(c)' = PayloadOf(c) /\ Reused(c)' = Reused(c) /\ Resolves(c)' = Resolves(c)
    BY <1>1 DEF Past, PayloadOf, Reused, Tree, TagRead, OneEntry, Resolves
  <2> QED BY <1>1, <1>2, <2>2, <2>3, <2>4, <2>5 DEF OkIsUnclaimed
<1> QED BY <1>3, <1>4 DEF GuardInv

LEMMA GuardIdles ==
  ASSUME GuardInv, UNCHANGED versionVars
  PROVE  GuardInv'
<1>1. repo' = repo /\ checkout' = checkout /\ guard' = guard /\ steady' = steady
  BY DEF versionVars
<1>2. VersionTypeOK' /\ Rooted'
  BY <1>1 DEF GuardInv, VersionTypeOK, Rooted
<1>3. /\ Tree' = Tree /\ Past(Here)' = Past(Here) /\ TagRead' = TagRead /\ CannotSee' = CannotSee
      /\ AtHead' = AtHead /\ next_free' = next_free /\ NumbersRead' = NumbersRead
      /\ \A c : PayloadOf(c)' = PayloadOf(c) /\ (Reused(c)' <=> Reused(c)) /\ (Resolves(c)' <=> Resolves(c))
  BY <1>1 DEF Tree, Past, TagRead, OneEntry, CannotSee, AtHead, next_free, NumbersRead, PayloadOf, Reused, Resolves
<1>4. HistoryRead'
  BY <1>1, <1>3 DEF GuardInv, HistoryRead
<1>5. StillToAsk'
  <2>1. \A l : (Ahead(l)' <=> Ahead(l)) /\ (Unlisted(l)' <=> Unlisted(l)) /\ (Passed(l)' <=> Passed(l))
    BY <1>1, <1>3 DEF Ahead, Unlisted, Passed
  <2> QED BY <1>1, <1>3, <2>1 DEF GuardInv, StillToAsk
<1>6. OkIsUnclaimed'
  BY <1>1, <1>3 DEF GuardInv, OkIsUnclaimed
<1> QED BY <1>2, <1>4, <1>5, <1>6 DEF GuardInv

(* A version the guard passes is nobody else's, for every repository and   *)
(* whatever the other lanes do while it looks (check_sitter_version.py).   *)
THEOREM PassedIsUnclaimed == VersionSpec => []OkIsUnclaimed
<1>1. GuardInv /\ [VersionNext]_versionVars => GuardInv'
  <2> SUFFICES ASSUME GuardInv, [VersionNext]_versionVars PROVE GuardInv'
    OBVIOUS
  <2>1. \A l \in Everyone : Past(l) \subseteq 1..Len(repo.commits)
    BY DEF GuardInv, Rooted, Past
  <2>2. Here \in Everyone /\ Lanes \subseteq Everyone /\ Payloads \subseteq Carried /\ Tree \in Carried
    BY DEF Everyone, Carried, GuardInv, VersionTypeOK, Tree
  <2>3. CASE CommitHere \/ \E lane \in Lanes : MergeHere(lane)
    BY <2>1, <2>2, <2>3, AddKeeps DEF CommitHere, MergeHere
  <2>4. CASE \E lane \in Lanes, p \in Payloads : Push(lane, p)
    BY <2>2, <2>4, AddKeeps, LanesAssumption DEF Push
  <2>5. CASE OpenRequest(Here) \/ \E lane \in Lanes : OpenRequest(lane) \/ CloseRequest(lane)
    BY <2>2, <2>5, RequestsKeep
  <2>6. CASE CheckClone \/ Local
    BY <2>6, LocalReads
  <2>7. CASE ListPage
    BY <2>7, PageRead
  <2>8. CASE ReadHead \/ ReadManifest \/ ReadPayload
    BY <2>8, RequestRead
  <2>9. CASE CannotLook \/ AllRead
    BY <2>9, AskingEnds
  <2>10. CASE Verdict
    BY <2>10, VerdictTrue
  <2>11. CASE UNCHANGED versionVars
    BY <2>11, GuardIdles
  <2> QED BY <2>3, <2>4, <2>5, <2>6, <2>7, <2>8, <2>9, <2>10, <2>11 DEF VersionNext
<1>2. GuardInv => OkIsUnclaimed
  BY DEF GuardInv
<1> QED BY GuardStarts, <1>1, <1>2, PTL DEF VersionSpec
=============================================================================
