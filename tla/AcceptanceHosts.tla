-------------------------- MODULE AcceptanceHosts --------------------------
(* The lifecycles of the real targets (src/bench/acceptance/adapters):     *)
(* build() checks what the options name, running() prepares the arena,     *)
(* spawns the target, waits until it is ready, lends it to the assertion   *)
(* and stops it.  Three targets live in a host application, whose launcher *)
(* and binary are a process group; two are servers over stdio              *)
(* (src/bench/mcp_drive.py).                                               *)
EXTENDS Naturals, FiniteSets, Sequences

CONSTANT Lifecycles  \* of one target in one arena

ASSUME LifecyclesAssumption == Lifecycles \in Nat \ {0}

VARIABLES
  adapter,
  offer,      \* what the --adapter-option pairs name
  built,      \* the file they named, as the constructor saw it
  runs,       \* the file the host was started from
  phase,
  launcher,   \* the process that was spawned; "reaped" once it was waited for
  host,       \* the process it started in its own group
  round,      \* of the stop loop
  why,        \* what running() raised, or "none"
  files,      \* the kinds of file in the arena
  index,      \* the schema stamp of zoteus's index file, or "none"
  seed,       \* a prebuilt index was given
  nth,        \* the lifecycle of this arena
  told        \* the last report of a verb

hostVars == <<adapter, offer, built, runs, phase, launcher, host, round, why,
              files, index, seed, nth, told>>
choice == <<adapter, offer, built>>
ran == <<runs, told>>
group == <<launcher, host>>
arena == <<files, index, seed>>

HostApps == {"zotseek", "beaver", "zotero-core-6012"}
Servers == {"zoteus", "zotero-mcp"}
Adapters == HostApps \cup Servers

-----------------------------------------------------------------------------
(* What each adapter declares: the verbs its target lacks, the kinds of    *)
(* file that are derived state, those argued not to be.                    *)

Declares(absent, derived, exempt) == [absent |-> absent, derived |-> derived, exempt |-> exempt]

ZoteusDeclares == Declares({"uninstall"}, {"index", "wal", "seeded"}, {"library"})
ZoteroMcpDeclares ==
  Declares({"uninstall", "pause", "resume"},
           {"config", "update-cache", "vectors", "fastmcp", "telemetry-id"}, {"library", "venv"})
ZotSeekRoots == {"plugin-db", "models"}
ZotSeekDeclares ==
  Declares({"uninstall", "query", "status", "pause", "resume"}, ZotSeekRoots,
           {"home", "profile", "prefs", "xpi", "host-log", "host-db"})
BeaverRoots == {"plugin-db", "bridge"}
BeaverDeclares ==
  Declares({"query", "status", "pause", "resume"}, BeaverRoots,
           {"prefs", "host-db", "profile", "xpi", "home"})
CoreRoots == {"host-db", "plugin-db", "profile", "prefs"}
CoreDeclares ==
  Declares({"uninstall", "query", "status", "pause", "resume"}, CoreRoots, {"host-log", "home"})

Declaration ==
  CASE adapter = "zoteus" -> ZoteusDeclares
    [] adapter = "zotero-mcp" -> ZoteroMcpDeclares
    [] adapter = "zotseek" -> ZotSeekDeclares
    [] adapter = "beaver" -> BeaverDeclares
    [] adapter = "zotero-core-6012" -> CoreDeclares

TargetOffers(verb) == verb \notin Declaration.absent
Accounted == Declaration.derived \cup Declaration.exempt
ArenaResidue == files \ Accounted

-----------------------------------------------------------------------------
Alive(process) == process = "up"

(* What may stand at the path the options name: the pinned artifact or     *)
(* build, another one, or one that says nothing of itself (for core, a     *)
(* launcher with no readable application.ini beside it).                   *)
Contents == {"pinned", "other", "bare"}
Offer(given, place, file) == [given |-> given, place |-> place, file |-> file]
Report(verb, says) == [verb |-> verb, says |-> says]
NoReport == Report("none", {})

HostsInit ==
  /\ adapter \in Adapters /\ seed \in IF adapter = "zoteus" THEN BOOLEAN ELSE {FALSE}
  /\ \E given \in BOOLEAN, place \in {"arena", "operator"}, file \in Contents \cup {"absent"} :
       /\ adapter \in Servers => file = "absent"
       /\ offer = Offer(given, place, file)
  /\ built = "absent" /\ runs = "none"
  /\ phase = "asked" /\ launcher = "none" /\ host = "none" /\ round = 0
  /\ why = "none" /\ files = {} /\ index = "none" /\ nth = 1 /\ told = NoReport

-----------------------------------------------------------------------------
(* build(): nothing is defaulted, the operator's own directories are       *)
(* refused, and what is there is checked against the pin.                  *)

ArtifactStands == offer.file = "pinned"

(* Core reads the build's own stamp; without one the pin cannot be         *)
(* checked, which refuses too.                                             *)
BuildStamp(file) ==
  CASE file = "pinned" -> "pinned" [] file = "other" -> "other" [] OTHER -> "none"
(* Mutant: a stamp is enough, whatever it says. *)
StampedBuild == offer.file = "absent" \/ BuildStamp(offer.file) # "none"
PinnedBuild == offer.file = "absent" \/ BuildStamp(offer.file) = "pinned"

DigestStands == offer.file \in {"absent", "pinned"}

Builds(stands) ==
  /\ phase = "asked"
  /\ phase' = IF offer.given /\ stands THEN "closed" ELSE "refused"
  /\ built' = offer.file
  /\ UNCHANGED <<adapter, offer, ran, group, round, why, arena, nth>>

BeaverBuild == adapter = "beaver" /\ Builds(offer.place # "operator" /\ ArtifactStands)
CoreBuild == adapter = "zotero-core-6012" /\ Builds(offer.place # "operator" /\ PinnedBuild)
ZotSeekBuild == adapter = "zotseek" /\ Builds(offer.place # "operator" /\ DigestStands)
McpBuild == adapter = "zotero-mcp" /\ Builds(offer.place # "operator")
ZoteusBuild == adapter = "zoteus" /\ Builds(TRUE)

(* The declaration is to be read where nothing is installed, so the two    *)
(* that pin a missing file are built; the file may come before they run.   *)
Arrives ==
  /\ phase = "closed" /\ adapter \in HostApps /\ offer.file = "absent"
  /\ \E file \in Contents : offer' = [offer EXCEPT !.file = file]
  /\ UNCHANGED <<adapter, built, ran, phase, group, round, why, arena, nth>>

-----------------------------------------------------------------------------
(* What running() writes before it spawns.                                 *)
Place == files' = files \cup {"prefs", "xpi"} /\ runs' = offer.file
ZotSeekSetUp ==
  /\ adapter = "zotseek" /\ offer.file # "absent"
  /\ Place
BeaverSetUp == adapter = "beaver" /\ Place
CoreSetUp ==
  /\ adapter = "zotero-core-6012" /\ offer.file # "absent"
  /\ files' = files \cup {"prefs"} /\ runs' = offer.file
McpSetUp == adapter = "zotero-mcp" /\ UNCHANGED <<files, runs>>
ZoteusSetUp == adapter = "zoteus" /\ UNCHANGED <<files, runs>>

(* Still nothing there: that is refused here, before any process.          *)
NothingToRun ==
  /\ phase = "closed" /\ adapter \in {"zotseek", "zotero-core-6012"}
  /\ offer.file = "absent"
  /\ phase' = "ended" /\ why' = "nothing to run"
  /\ files' = IF adapter = "zotseek" THEN files \cup {"prefs"} ELSE files
  /\ UNCHANGED <<choice, ran, group, round, index, seed, nth>>

(* A prebuilt index goes in only where there is none: a restart reopens    *)
(* the one the run before left.                                            *)
Seed == index' = IF seed /\ index = "none" THEN "built" ELSE index

Spawn ==
  /\ phase = "closed" /\ phase' = "starting"
  /\ launcher' = "up" /\ host' = "none" /\ round' = 0 /\ why' = "none"
  /\ \/ ZotSeekSetUp \/ BeaverSetUp \/ CoreSetUp \/ McpSetUp \/ ZoteusSetUp
  /\ IF adapter = "zoteus" THEN Seed ELSE UNCHANGED index
  /\ UNCHANGED <<choice, told, seed, nth>>

(* The target's processes: they start, write and stop on their own.        *)
Forks ==
  /\ adapter \in HostApps /\ Alive(launcher) /\ host = "none" /\ host' = "up"
  /\ UNCHANGED <<choice, ran, phase, launcher, round, why, arena, nth>>

Writes ==
  CASE adapter = "zoteus" -> {"index", "wal"}
    [] adapter = "zotero-mcp" -> {"vectors", "fastmcp"}
    [] adapter = "zotseek" -> {"host-log", "host-db", "plugin-db", "profile"}
    [] adapter = "beaver" -> {"host-db", "plugin-db", "home"}
    [] adapter = "zotero-core-6012" -> {"host-log", "host-db", "plugin-db"}

WritesFile ==
  /\ Alive(launcher) \/ Alive(host)
  /\ \E f \in Writes : files' = files \cup {f}
  /\ UNCHANGED <<choice, ran, phase, group, round, why, index, seed, nth>>

(* zoteus opens a file of another schema its own way: served, migrated or  *)
(* set aside.                                                              *)
Rebuilds ==
  /\ Alive(launcher) /\ adapter = "zoteus" /\ index # "built" /\ index' = "built"
  /\ UNCHANGED <<choice, ran, phase, group, round, why, files, seed, nth>>

LauncherExits ==
  /\ Alive(launcher) /\ launcher' = "exited"
  /\ UNCHANGED <<choice, ran, phase, host, round, why, arena, nth>>

HostExits ==
  /\ Alive(host) /\ host' = "gone"
  /\ UNCHANGED <<choice, ran, phase, launcher, round, why, arena, nth>>

-----------------------------------------------------------------------------
(* Waiting until it is ready                                               *)

Awaiting(kind) == phase = "starting" /\ adapter = kind

Opens ==
  /\ phase' = "open" /\ UNCHANGED <<choice, ran, launcher, host, round, why, arena, nth>>

(* poll() reaps a launcher that has exited. *)
Raises(reason, process) ==
  /\ phase' = "stopping" /\ why' = reason /\ launcher' = process
  /\ UNCHANGED <<choice, ran, host, round, arena, nth>>

ZotSeekAwait ==
  /\ Awaiting("zotseek")
  /\ \/ "plugin-db" \in files /\ Opens
     \/ "plugin-db" \notin files /\ launcher = "exited" /\ Raises("exited", "reaped")
     \/ "plugin-db" \notin files /\ Raises("timeout", launcher)

CoreAwait ==
  /\ Awaiting("zotero-core-6012")
  /\ \/ "host-db" \in files /\ Opens
     \/ "host-db" \notin files /\ launcher = "exited" /\ Raises("exited", "reaped")
     \/ "host-db" \notin files /\ Raises("timeout", launcher)

(* The plugin's database is reported, the host's is required; an exit only *)
(* ends the wait.                                                          *)
BeaverWait ==
  /\ Awaiting("beaver")
  /\ LET reaped == IF launcher = "exited" THEN "reaped" ELSE launcher
     IN IF "host-db" \in files
        THEN phase' = "open" /\ launcher' \in {launcher, reaped}
             /\ UNCHANGED <<choice, ran, host, round, why, arena, nth>>
        ELSE Raises(IF launcher = "exited" THEN "exited" ELSE "timeout", reaped)

(* Server.handshake(): what comes on stdout and is no answer to the call   *)
(* is passed over, and a stdout that closes is an error.  The call itself  *)
(* has no bound.                                                           *)
Handshaken == Alive(launcher) /\ Opens

(* Inside the try, and bounded, for the one.                               *)
McpHandshake ==
  /\ Awaiting("zotero-mcp")
  /\ \/ Handshaken
     \/ Raises(IF Alive(launcher) THEN "timeout" ELSE "closed stdout", launcher)

(* Outside it, and unbounded, for the other: a server that closes its      *)
(* stdout is left as it is, one that does not answer is waited for.        *)
ZoteusHandshake ==
  /\ Awaiting("zoteus")
  /\ \/ Handshaken
     \/ /\ phase' = "ended" /\ why' = "closed stdout"
        /\ UNCHANGED <<choice, ran, group, round, arena, nth>>

-----------------------------------------------------------------------------
(* The verbs                                                               *)

Lent(kind) == phase = "open" /\ adapter = kind
Verb == UNCHANGED <<choice, runs, phase, group, round, why, seed, nth>>
Tells(verb, says) == told' = Report(verb, says)
Reads(verb, says) == Tells(verb, says) /\ UNCHANGED <<files, index>> /\ Verb
Says(verb, one) == Reads(verb, {one})

(* The host applications are installed by running(): the verb reports what *)
(* the constructor checked, and "" or false where nothing was there.       *)
PinChecked ==
  CASE adapter = "beaver" -> "checked"
    [] adapter = "zotseek" -> IF built = "absent" THEN "unchecked" ELSE "checked"
    [] adapter = "zotero-core-6012" -> IF BuildStamp(built) = "none" THEN "unchecked" ELSE "checked"

BeaverInstall == Lent("beaver") /\ Says("install", PinChecked)
ZotSeekInstall == Lent("zotseek") /\ Says("install", PinChecked)
CoreInstall == Lent("zotero-core-6012") /\ Says("install", PinChecked)
ZoteusInstall == Lent("zoteus") /\ Says("install", "materialized")

(* Two steps, each its own process; the first that fails is the last.  The *)
(* executable is looked for whatever they returned.                        *)
McpInstall ==
  /\ Lent("zotero-mcp")
  /\ \E made, fetched \in BOOLEAN :
       LET steps == IF made THEN <<made, fetched>> ELSE <<made>>
           present == "venv" \in files \/ steps = <<TRUE, TRUE>>
       IN /\ files' = IF present THEN files \cup {"venv"} ELSE files
          /\ Tells("install", {IF present THEN "executable" ELSE "none"})
  /\ UNCHANGED index /\ Verb

(* Nothing of a host application's configuration is set: its preferences   *)
(* are read where the host keeps them.                                     *)
TargetPreferences == {"observed", "none"}

BeaverConfigure == Lent("beaver") /\ Says("configure", "harness")
ZotSeekConfigure ==
  Lent("zotseek") /\ \E kept \in TargetPreferences : Says("configure", kept)
CoreConfigure ==
  Lent("zotero-core-6012") /\ \E kept \in TargetPreferences : Says("configure", kept)
ZoteusConfigure == Lent("zoteus") /\ Says("configure", "process start")
McpConfigure ==
  /\ Lent("zotero-mcp") /\ files' = files \cup {"config"}
  /\ Tells("configure", {"config"}) /\ UNCHANGED index /\ Verb

BeaverUninstall ==
  /\ Lent("beaver") /\ files' = files \ {"xpi"}
  /\ Tells("uninstall", {IF "xpi" \in files THEN "removed" ELSE "absent"})
  /\ UNCHANGED index /\ Verb

(* The mode that answered is not always the one asked for.                 *)
McpModes == {"exact", "meaning", "fusion"}
McpServed(mode, extra, escalates) ==
  CASE mode = "fusion" -> "unserved"
    [] mode = "meaning" -> IF extra THEN "meaning" ELSE "unserved"
    [] mode = "exact" -> IF escalates THEN "meaning" ELSE "exact"

McpQuery ==
  /\ Lent("zotero-mcp")
  /\ \E mode \in McpModes, extra, escalates \in BOOLEAN :
       Says("query", McpServed(mode, extra, escalates))

McpStatus == Lent("zotero-mcp") /\ \E f \in {"fields", "hint"} : Says("status", f)

(* zoteus: two replies behind the one status.  A counter is a count under  *)
(* four names, the first of them "work"; an object of another shape has    *)
(* none.                                                                   *)
WorkPrefix == "work"
Flatten(entries) ==
  {e \in {[name |-> IF e.path[1] = WorkPrefix THEN e.path ELSE <<WorkPrefix>> \o e.path,
           count |-> e.count] : e \in entries} : e.count /\ Len(e.name) = 4}
WorkObjects ==
  { {},
    { [path |-> <<"record", "edit", "done">>, count |-> TRUE] },
    { [path |-> <<"work", "record", "edit", "done">>, count |-> TRUE],
      [path |-> <<"phase">>, count |-> FALSE] },
    { [path |-> <<"progress">>, count |-> TRUE] } }
LocalityOf(effective) ==
  CASE effective = "local" -> "local" [] effective = "none" -> "none" [] OTHER -> "remote"

ZoteusStatus ==
  /\ Lent("zoteus")
  /\ \E effective \in {"local", "api", "none"}, reply \in WorkObjects :
       Reads("status", {LocalityOf(effective)} \cup {"counted" : c \in Flatten(reply)})

(* The build it left is resumed within the bound of its own checkpoint,    *)
(* and without one when the checkpoint names none; without a prebuilt      *)
(* index it would be a first crawl, which is declined.                     *)
CheckpointBound(checkpoint) == IF checkpoint = "bounded" THEN "bounded" ELSE "uncapped"

ZoteusResumeEmbedding ==
  /\ Lent("zoteus") /\ seed
  /\ \E checkpoint \in {"bounded", "no bound", "unreadable", "none"} :
       Says("resume-embedding", CheckpointBound(checkpoint))

(* The residue sweep of an arena that is lent.                             *)
Inventory == phase = "open" /\ Reads("inventory", ArenaResidue)

(* The perturbations between two lifecycles.                               *)
Between == phase = "closed" /\ adapter = "zoteus" /\ nth > 1

(* The seed back, and the whole family of its pathname gone with it.       *)
ResetIndex ==
  /\ Between /\ seed
  /\ index' = "built" /\ files' = files \ {"wal"}
  /\ UNCHANGED told /\ Verb

ForeignStamp(direction) == IF direction = "newer" THEN "9999" ELSE "older"

RestampIndex ==
  /\ Between /\ index # "none"
  /\ \E direction \in {"newer", "older"} :
       /\ direction = "older" => index = "built"
       /\ index' = ForeignStamp(direction)
  /\ UNCHANGED <<files, told>> /\ Verb

GiveBack ==
  /\ phase = "open" /\ phase' = "stopping" /\ told' = NoReport
  /\ UNCHANGED <<choice, runs, group, round, why, arena, nth>>

-----------------------------------------------------------------------------
(* The stop loops                                                          *)

Stopping(kinds) == phase = "stopping" /\ adapter \in kinds
Ended == phase' = "ended" /\ UNCHANGED <<choice, ran, why, arena, nth>>
Polled == IF launcher = "exited" THEN "reaped" ELSE launcher
Onward == round' = round + 1 /\ UNCHANGED <<choice, ran, phase, why, arena, nth>>

(* One signal to the group, then the wait for the launcher; a SIGKILL      *)
(* leaves no one, a SIGTERM may be answered late or never.  The wait ends  *)
(* with the launcher or with the grace.                                    *)
(* Mutant: SIGTERM in the last round too. *)
SignalGroupTerm(signal) ==
  /\ launcher' \in {Polled} \cup (IF Alive(launcher) THEN {"reaped"} ELSE {})
  /\ host' \in {host} \cup (IF Alive(host) THEN {"gone"} ELSE {})

SignalGroup(signal) ==
  IF signal = "kill"
  THEN /\ launcher' = "reaped"
       /\ host' = IF Alive(host) THEN "gone" ELSE host
  ELSE /\ launcher' \in {Polled} \cup (IF Alive(launcher) THEN {"reaped"} ELSE {})
       /\ host' \in {host} \cup (IF Alive(host) THEN {"gone"} ELSE {})

(* The group is looked up from the launcher's pid, once; a launcher that   *)
(* was reaped has none.                                                    *)
GroupStop(kind) ==
  /\ Stopping({kind})
  /\ \/ round = 0 /\ launcher = "reaped" /\ Ended /\ UNCHANGED <<group, round>>
     \/ /\ round = 0 /\ launcher # "reaped" /\ UNCHANGED group /\ Onward
     \/ /\ round \in 1..3
        /\ IF Polled # "up" /\ ~Alive(host)
           THEN Ended /\ launcher' = Polled /\ UNCHANGED <<host, round>>
           ELSE SignalGroup(IF round = 3 THEN "kill" ELSE "term") /\ Onward
     \/ round = 4 /\ Ended /\ UNCHANGED <<group, round>>

ZotSeekStop == GroupStop("zotseek")
CoreStop == GroupStop("zotero-core-6012")

(* The group is looked up again each time: with the launcher reaped it     *)
(* reads as gone.                                                          *)
BeaverStop ==
  /\ Stopping({"beaver"})
  /\ IF round = 2 \/ Polled = "reaped"
     THEN Ended /\ launcher' = Polled /\ UNCHANGED <<host, round>>
     ELSE SignalGroup(IF round = 1 THEN "kill" ELSE "term") /\ Onward

(* terminate(), wait, kill(). *)
McpStop ==
  /\ Stopping({"zotero-mcp"})
  /\ launcher' = "reaped"
  /\ Ended /\ UNCHANGED <<host, round>>

(* terminate() alone. *)
ZoteusStop ==
  /\ Stopping({"zoteus"})
  /\ launcher' \in {launcher, Polled}
  /\ Ended /\ UNCHANGED <<host, round>>

(* A second lifecycle in the same arena: the assertions that restart ask   *)
(* for a query or a pause.                                                 *)
Again ==
  /\ phase = "ended" /\ nth < Lifecycles
  /\ TargetOffers("query") \/ TargetOffers("pause")
  /\ why = "none" /\ phase' = "closed" /\ nth' = nth + 1
  /\ UNCHANGED <<choice, ran, group, round, why, arena>>

HostsNext ==
  \/ BeaverBuild \/ CoreBuild \/ ZotSeekBuild \/ McpBuild \/ ZoteusBuild \/ Arrives
  \/ NothingToRun
  \/ Spawn \/ Forks \/ WritesFile \/ Rebuilds \/ LauncherExits \/ HostExits
  \/ ZotSeekAwait \/ CoreAwait \/ BeaverWait \/ McpHandshake \/ ZoteusHandshake
  \/ BeaverInstall \/ ZotSeekInstall \/ CoreInstall \/ ZoteusInstall \/ McpInstall
  \/ BeaverConfigure \/ ZotSeekConfigure \/ CoreConfigure \/ ZoteusConfigure \/ McpConfigure
  \/ BeaverUninstall \/ McpQuery \/ McpStatus \/ ZoteusStatus \/ ZoteusResumeEmbedding
  \/ Inventory
  \/ ResetIndex \/ RestampIndex \/ GiveBack
  \/ ZotSeekStop \/ CoreStop \/ BeaverStop \/ McpStop \/ ZoteusStop \/ Again

HostsSpec == HostsInit /\ [][HostsNext]_hostVars
-----------------------------------------------------------------------------
(* Properties                                                              *)

HostsTypeOK ==
  /\ adapter \in Adapters /\ phase \in {"asked", "refused", "closed", "starting", "open", "stopping", "ended"}
  /\ launcher \in {"none", "up", "exited", "reaped"} /\ host \in {"none", "up", "gone"}
  /\ round \in 0..4 /\ nth \in 1..Lifecycles
  /\ why \in {"none", "exited", "timeout", "closed stdout", "nothing to run"}
  /\ built \in Contents \cup {"absent"} /\ runs \in Contents \cup {"none"}
  /\ index \in {"none", "built", "older", "9999"}

(* Where the group is known when the stop begins, whatever signal the      *)
(* launcher or the host answers and in which order they exit, nothing of a *)
(* target outlives its lifecycle: the next one opens the same databases.   *)
StopsWhole ==
  phase = "ended" /\ adapter \in {"zotseek", "zotero-core-6012", "zotero-mcp"}
    /\ why # "exited" => ~Alive(launcher) /\ ~Alive(host)

(* Beaver._stop: "Signal the host's whole process group, then wait for it  *)
(* to be gone."                                                            *)
BeaverGroupGone ==
  phase = "ended" /\ adapter = "beaver" /\ why = "none" => ~Alive(launcher) /\ ~Alive(host)

(* What a report says of the arena is so.  install() says that the pin was *)
(* checked only where the pinned file runs: one that comes between the     *)
(* construction, where it is checked, and the start, where it is only      *)
(* looked for, is reported as unchecked.  And what the harness itself      *)
(* wrote is no residue of the target, after any verbs and lifecycles.      *)
HarnessFiles == {"prefs", "xpi", "host-log", "config", "venv"}
ReportsTrue ==
  /\ told.verb = "install" /\ "checked" \in told.says => runs = "pinned"
  /\ told.verb = "inventory" => told.says \cap HarnessFiles = {}
=============================================================================
