---------------------------- MODULE MCAcceptance ----------------------------
(* The acceptance layer, the generator and the version guard for TLC: the  *)
(* parts of bench/ that drive a target, or ask a library or a forge.  They *)
(* share no state: each run is of one of them, and the others do not move. *)
EXTENDS AcceptanceChecks, AcceptanceArena, AcceptancePosture, AcceptanceHosts,
        MCGenerator, SitterVersion

CONSTANTS a1, a2

VARIABLE part

MCFaults == {"raise", "impatient", "declines", "declines-edit", "dirty", "shared",
             "no-embedding", "no-hit-list", "no-mechanism", "bwrap-refused",
             "blind-shared",
             "blind-isolated", "driver-dies"}
MCAssertions == {a1, a2}

ChecksRest == fixture = "quiet" /\ check = "uninstall" /\ fault = "none"
PostureRest == /\ ~machine.account /\ ~machine.rule
               /\ command = [adapter |-> "target", posture |-> "account", drive |-> FALSE,
                             spawnedUnder |-> NoAccount]
HostsRest == adapter = "beaver" /\ offer = Offer(TRUE, "arena", "pinned")
ScopeRest == /\ scope.records = {"A", "B"} /\ \A k \in LibraryItems : zotero.of[k] = 1
             /\ \A r \in Readers : reader[r].path = "top"
VersionRest == checkout.clone = "not git"
SampleRest == draw.strategy = "quota" /\ "a5" \in draw.framed

MCInit ==
  /\ part \in {"checks", "arena", "posture", "hosts", "scope", "sample", "generator", "version"}
  /\ SampleInit /\ (part # "sample" => SampleRest)
  /\ VersionInit /\ (part # "version" => VersionRest)
  /\ ScopeInit /\ (part # "scope" => ScopeRest)
  /\ HostsInit /\ (part # "hosts" => HostsRest)
  /\ PostureInit /\ (part # "posture" => PostureRest)
  /\ ArenaInit /\ BenchInit
  /\ (part # "checks" => ChecksRest) /\ Init

layerVars == <<vars, arenaVars, postureVars, hostVars>>
generatorVars == <<scopeVars, draw, benchVars, versionVars>>

MCNext ==
  /\ UNCHANGED part
  /\ \/ part = "checks" /\ Next /\ UNCHANGED <<arenaVars, postureVars, hostVars, generatorVars>>
     \/ part = "arena" /\ ArenaNext /\ UNCHANGED <<vars, postureVars, hostVars, generatorVars>>
     \/ part = "posture" /\ PostureNext /\ UNCHANGED <<vars, arenaVars, hostVars, generatorVars>>
     \/ part = "hosts" /\ HostsNext /\ UNCHANGED <<vars, arenaVars, postureVars, generatorVars>>
     \/ part = "scope" /\ ScopeNext /\ UNCHANGED <<layerVars, draw, benchVars, versionVars>>
     \/ part = "sample" /\ SampleNext /\ UNCHANGED <<layerVars, scopeVars, benchVars, versionVars>>
     \/ part = "generator" /\ BenchNext /\ UNCHANGED <<layerVars, scopeVars, draw, versionVars>>
     \/ part = "version" /\ VersionNext /\ UNCHANGED <<layerVars, scopeVars, draw, benchVars>>
     \/ part # "checks" /\ UNCHANGED <<layerVars, generatorVars>>

MCSpec == MCInit /\ [][MCNext]_<<part, layerVars, generatorVars>>

-----------------------------------------------------------------------------
(* SitterVersion: three payloads, two of one version, and four that differ *)
(* from the first in how the version is written, or lack it; each state of *)
(* the clone and of the release entry; at most two commits after the first. *)
Manifest(number, spelt, code) == [version |-> [number |-> number, spelt |-> spelt], code |-> code]
ThisPayload == Manifest(<<1, 1>>, "short", "c1")
SameVersion == Manifest(<<1, 1>>, "short", "c2")
NextVersion == Manifest(<<1, 2>>, "short", "c1")
MCPayloads == {ThisPayload, SameVersion, NextVersion}
Oddities ==
  {Manifest(<<1, 1>>, "padded", "c1"), Manifest(<<>>, "words", "c1"), NoPayload, [version |-> Nameless, code |-> "c1"]}
ReleaseEntry(state, tag, link) == [state |-> state, tag |-> tag, link |-> link]
NoEntry == ReleaseEntry("absent", 0, "none")
Uncut == ReleaseEntry("one", 0, "none")
CheckoutAt(first, tree, clone, entry, room) ==
  [first |-> first, tree |-> tree, clone |-> clone, entry |-> entry, room |-> room]
Cut == ReleaseEntry("one", 1, "live")
MCCheckouts ==
  {CheckoutAt(ThisPayload, ThisPayload, "full", Uncut, 3), CheckoutAt(ThisPayload, ThisPayload, "full", Cut, 2)}
  \union {CheckoutAt(first, ThisPayload, "full", Uncut, 2) : first \in {SameVersion, NextVersion}}
  \union {CheckoutAt(ThisPayload, tree, "full", Uncut, 2) : tree \in {SameVersion, NextVersion}}
  \union {CheckoutAt(first, ThisPayload, "full", Uncut, 1) : first \in Oddities}
  \union {CheckoutAt(ThisPayload, tree, "full", Uncut, 1) : tree \in Oddities}
  \union {CheckoutAt(SameVersion, ThisPayload, clone, NoEntry, 2) : clone \in {"shallow", "grafted", "partial", "not git"}}
  \union {CheckoutAt(NextVersion, ThisPayload, "full", entry, 1) :
            entry \in {NoEntry, ReleaseEntry("unreadable", 0, "none"), ReleaseEntry("one", 1, "none"), Cut}}
  \union {CheckoutAt(ThisPayload, ThisPayload, "full", entry, 1) : entry \in {ReleaseEntry("one", 1, "dead"), ReleaseEntry("one", 9, "live")}}
=============================================================================
