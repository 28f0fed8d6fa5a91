---------------------------- MODULE SDTPackCache ----------------------------
(***************************************************************************)
(* What the sitter remembers of a document so as not to read it again:     *)
(* the verdict on its pack (createSDTCache, a file that outlives the       *)
(* session) and the hash of its source (createSDTSourceHashes, in memory), *)
(* beside a library whose files change between any two awaits of           *)
(* inspect(), a host that may die during a write, and activations that are *)
(* shut down, removed and started again.                                   *)
(*                                                                         *)
(* A pack is what a reader finds in it, and its fingerprint (size and      *)
(* mtime) is new at each write; so is a source's, unless the file was      *)
(* rewritten in place with both kept.  Durations, titles and the label     *)
(* check are left out.  The cache file is what reading it gives, for rows  *)
(* of each version; a line cut short swallows the row appended to it.      *)
(***************************************************************************)
EXTENDS Naturals, FiniteSets

CONSTANTS Keys,       \* cacheKey: library and item
          Contents,   \* what a source may hold
          Versions,   \* of the native worker's metadata.json
          MaxAge,     \* the trust window, in ticks of the monotonic clock
          Writes,     \* bound: changes of the files
          Activations \* bound: activations of the plugin

ASSUME CacheAssumption == MaxAge \in Nat \ {0} /\ Writes \in Nat /\ Activations \in Nat

VARIABLES
  sources,   \* key -> the attachment's file
  packs,     \* key -> its .zotero-sdt-cache
  metadata,  \* the host's versions
  changed,   \* files changed so far
  plugin,    \* the activation: its token, phase and versions
  cache,     \* its records, the dirty ones, and whether the next save compacts
  memo,      \* key -> the remembered hash of the source, its age as the code
             \* reckons it, and the ticks since the bytes were hashed
  look,      \* the inspect() under way
  walk,      \* the census: keys still to see, keys seen
  file,      \* the cache file
  flight,    \* the writes under way, by the activation that issued them
  chained    \* the activation whose write Zotero.SDTPackSitterCacheWrite is

diskVars == <<sources, packs, metadata, changed>>
cacheVars == <<diskVars, plugin, cache, memo, look, walk, file, flight, chained>>

NoSource == [is |-> "missing", stat |-> 0]
NoPack == [of |-> "none", by |-> 0, text |-> "unreadable", fingerprint |-> 0]
Texts == {"some", "empty", "unreadable"}
NoRecord == [hash |-> "none", versions |-> 0, fingerprint |-> 0, empty |-> FALSE]
NoHash == [hash |-> "none", stat |-> 0, age |-> 0, unread |-> 0]
NoLook == [at |-> "off", key |-> "none", stat |-> 0, hash |-> "none", saw |-> NoPack,
           status |-> "none", cached |-> FALSE]
NoWalk == [on |-> FALSE, todo |-> {}, seen |-> {}]
NoRows == [v \in Versions |-> [k \in Keys |-> NoRecord]]
EmptyFile == [rows |-> NoRows, cut |-> FALSE, corrupt |-> FALSE, by |-> {}]
NoWrite == [compact |-> FALSE, keys |-> {}, records |-> [k \in Keys |-> NoRecord], versions |-> 0]
Blank == [records |-> [k \in Keys |-> NoRecord], dirty |-> {}, compact |-> TRUE]

CacheInit ==
  /\ changed = 0 /\ metadata \in Versions
  /\ sources \in [Keys -> {[is |-> c, stat |-> 0] : c \in Contents}]
  /\ packs \in [Keys -> {NoPack} \cup
                        [of : Contents, by : {metadata}, text : {"some", "empty"}, fingerprint : {0}]]
  /\ plugin = [token |-> 0, at |-> "down", versions |-> metadata]
  /\ cache = Blank /\ memo = [k \in Keys |-> NoHash] /\ look = NoLook
  /\ walk = NoWalk
  /\ file = EmptyFile /\ flight = [t \in 1..Activations |-> NoWrite] /\ chained = 0

-----------------------------------------------------------------------------
(* The library beside it: the user, Zotero's own extractions, the clock.   *)

World(step) == /\ changed < Writes /\ changed' = changed + 1 /\ step
               /\ UNCHANGED <<metadata, plugin, cache, memo, look, walk, file, flight, chained>>
SourceRewritten ==
  World(\E k \in Keys, c \in Contents :
          /\ sources' = [sources EXCEPT ![k] = [is |-> c, stat |-> changed + 1]] /\ UNCHANGED packs)
(* At the same length, with its mtime restored. *)
RewrittenInPlace ==
  World(\E k \in Keys, c \in Contents :
          /\ sources[k] # NoSource
          /\ sources' = [sources EXCEPT ![k].is = c] /\ UNCHANGED packs)
SourceGone == World(\E k \in Keys : sources' = [sources EXCEPT ![k] = NoSource] /\ UNCHANGED packs)
(* From the source as it is, or as it was when the worker began.           *)
PackWritten ==
  World(\E k \in Keys, c \in Contents \cup {"none"}, text \in Texts :
          /\ (c = "none") = (text = "unreadable")
          /\ packs' = [packs EXCEPT ![k] = [of |-> c, by |-> metadata, text |-> text,
                                            fingerprint |-> changed + 1]]
          /\ UNCHANGED sources)
PackGone == World(\E k \in Keys : packs' = [packs EXCEPT ![k] = NoPack] /\ UNCHANGED sources)
HostUpdated == /\ metadata' \in Versions \ {metadata}
               /\ changed < Writes /\ changed' = changed + 1
               /\ UNCHANGED <<sources, packs, plugin, cache, memo, look, walk, file, flight, chained>>

Older(age) == IF age < MaxAge THEN age + 1 ELSE MaxAge
(* An inspection takes no time on this clock. *)
Tick == /\ look.at \in {"off", "answered"}
        /\ memo' = [k \in Keys |-> IF memo[k] = NoHash THEN NoHash
                                  ELSE [memo[k] EXCEPT !.age = Older(@), !.unread = Older(@)]]
        /\ UNCHANGED <<diskVars, plugin, cache, look, walk, file, flight, chained>>
Library == SourceRewritten \/ RewrittenInPlace \/ SourceGone \/ PackWritten \/ PackGone
           \/ HostUpdated \/ Tick

-----------------------------------------------------------------------------
(* createSDTCache                                                          *)

(* What a reader finds in a pack: the status inspect() gives it.  "stale"  *)
(* is one of another source, processor, pack version or schema.            *)
Reading(pack, hash, versions) ==
  IF pack.text = "unreadable" THEN "invalid-pack"
  ELSE IF pack.of # hash \/ pack.by # versions THEN "stale"
  ELSE IF pack.text = "empty" THEN "empty-pack" ELSE "current"

Signed(record, hash, versions) == record # NoRecord /\ record.hash = hash /\ record.versions = versions
(* The records without k, which is to be written as gone if it was there.  *)
(* Mutant: deleted first, and then asked for.                              *)
DropUnwritten(c, k) == [c EXCEPT !.records[k] = NoRecord]
Drop(c, k) == [c EXCEPT !.records[k] = NoRecord,
                        !.dirty = IF c.records[k] # NoRecord THEN @ \cup {k} ELSE @]
Remember(c, k, record) == [c EXCEPT !.records[k] = record, !.dirty = @ \cup {k}]
(* check(): a record under another signature is dropped. *)
Checked(c, k, hash, versions) == IF Signed(c.records[k], hash, versions) THEN c ELSE Drop(c, k)
Hit(c, k, hash, versions, fingerprint) ==
  Signed(c.records[k], hash, versions) /\ c.records[k].fingerprint = fingerprint
Prune(c, kept) ==
  [c EXCEPT !.records = [k \in Keys |-> IF k \in kept THEN @[k] ELSE NoRecord],
            !.dirty = @ \cup {k \in Keys \ kept : c.records[k] # NoRecord}]
Changes(c) == IF c.compact THEN {k \in Keys : c.records[k] # NoRecord} \cup c.dirty ELSE c.dirty

-----------------------------------------------------------------------------
(* inspect(), from one await to the next                                   *)

Up == plugin.at = "up"
Resting == Up /\ look.at \in {"off", "answered"}
Going(next) == look' = next
(* Of the answers, a settlement goes on with these two.                    *)
Answer(status) == IF status \in {"current", "empty-pack"}
                  THEN Going([look EXCEPT !.at = "answered", !.status = status, !.stat = 0, !.saw = NoPack])
                  ELSE Going(NoLook)
Inspecting == Up /\ UNCHANGED <<diskVars, plugin, file, flight, chained>>

(* The census inspects what is left of its walk; between censuses one      *)
(* document is inspected at a time, for the drain, an admission or a       *)
(* settlement.                                                             *)
StatSource(k) ==
  /\ Resting /\ (walk.on => k \in walk.todo) /\ UNCHANGED <<diskVars, plugin, file, flight, chained>>
  /\ IF sources[k] = NoSource
     THEN /\ memo' = [memo EXCEPT ![k] = NoHash] /\ cache' = Drop(cache, k)
          /\ Answer("missing-source")
          /\ walk' = [walk EXCEPT !.todo = @ \ {k}]
     ELSE /\ Going([NoLook EXCEPT !.at = "hash", !.key = k, !.stat = sources[k].stat])
          /\ UNCHANGED <<cache, memo>>
          /\ walk' = [walk EXCEPT !.todo = @ \ {k}, !.seen = IF walk.on THEN @ \cup {k} ELSE @]

(* sourceHashes.hash(): the hash of the bytes, or the remembered one.      *)
Trusted(k, stat) == memo[k] # NoHash /\ memo[k].stat = stat /\ memo[k].age < MaxAge
HashKnown == /\ look.at = "hash" /\ Trusted(look.key, look.stat)
             /\ Going([look EXCEPT !.at = "pack", !.hash = memo[look.key].hash])
             /\ Inspecting /\ UNCHANGED <<cache, memo, walk>>
HashComputed ==
  LET k == look.key IN
  /\ look.at = "hash" /\ ~Trusted(k, look.stat)
  /\ Going([look EXCEPT !.at = "pack", !.hash = sources[k].is])
  /\ memo' = [memo EXCEPT ![k] = [hash |-> sources[k].is, stat |-> look.stat, age |-> 0, unread |-> 0]]
  /\ Inspecting /\ UNCHANGED <<cache, walk>>

(* The pack's fingerprint, and the record under it. *)
StatPack ==
  LET k == look.key
      pack == packs[k]
      hit == Hit(cache, k, look.hash, plugin.versions, pack.fingerprint) IN
  /\ look.at = "pack" /\ Inspecting /\ UNCHANGED <<memo, walk>>
  /\ \/ /\ pack = NoPack /\ cache' = Drop(cache, k) /\ Answer("missing-pack")
     \/ /\ pack # NoPack /\ hit /\ UNCHANGED cache
        /\ Going([look EXCEPT !.at = "answered", !.stat = 0, !.saw = pack, !.cached = TRUE,
                              !.status = IF cache.records[k].empty THEN "empty-pack" ELSE "current"])
     \/ /\ pack # NoPack /\ ~hit /\ cache' = Checked(cache, k, look.hash, plugin.versions)
        /\ Going([look EXCEPT !.at = "read", !.saw = pack])

(* The pack as it is by now; what cannot be read keeps its record.         *)
(* Mutant: read first, and its fingerprint taken after.                    *)
ReadThenStat == [pack |-> look.saw, fingerprint |-> packs[look.key].fingerprint]
Taken == [pack |-> packs[look.key], fingerprint |-> look.saw.fingerprint]
ReadPack ==
  LET k == look.key
      status == Reading(Taken.pack, look.hash, plugin.versions) IN
  /\ look.at = "read" /\ Inspecting /\ UNCHANGED <<memo, walk>>
  /\ Answer(status)
  /\ cache' = CASE status \in {"current", "empty-pack"} ->
                     Remember(cache, k, [hash |-> look.hash, versions |-> plugin.versions,
                                         fingerprint |-> Taken.fingerprint, empty |-> status = "empty-pack"])
                [] status = "stale" -> Drop(cache, k)
                [] status = "invalid-pack" -> cache
Inspection == (\E k \in Keys : StatSource(k)) \/ HashKnown \/ HashComputed \/ StatPack \/ ReadPack

-----------------------------------------------------------------------------
(* The pump's calls of the host: list(), censusComplete(), observed()      *)

(* list(): a new metadata.json makes every record worthless. *)
List == /\ Resting /\ ~walk.on
        /\ plugin' = [plugin EXCEPT !.versions = metadata]
        /\ cache' = (IF metadata = plugin.versions THEN cache ELSE Blank)
        /\ \E listed \in SUBSET Keys : walk' = [on |-> TRUE, todo |-> listed, seen |-> {}]
        /\ look' = NoLook
        /\ UNCHANGED <<diskVars, memo, file, flight, chained>>
(* The switch is thrown while the census walks. *)
CensusCut == /\ Resting /\ walk.on /\ walk' = NoWalk /\ look' = NoLook
             /\ UNCHANGED <<diskVars, plugin, cache, memo, file, flight, chained>>

(* saveCache(): one write at a time, behind what the handle names.  What   *)
(* is written is read off the cache once the one before has ended.         *)
Save(c) == /\ cache' = c
           /\ IF c.compact \/ Changes(c) # {}
              THEN /\ flight' = [flight EXCEPT ![plugin.token] =
                                   [compact |-> c.compact, keys |-> Changes(c), records |-> c.records,
                                    versions |-> plugin.versions]]
                   /\ plugin' = [plugin EXCEPT !.at = "saving"]
              ELSE UNCHANGED <<flight, plugin>>
           /\ chained' = plugin.token
           /\ UNCHANGED <<diskVars, file>>
CensusComplete == /\ Resting /\ walk.on /\ walk.todo = {} /\ Save(Prune(cache, walk.seen))
                  /\ memo' = [k \in Keys |-> IF k \in walk.seen THEN memo[k] ELSE NoHash]
                  /\ walk' = NoWalk /\ look' = NoLook
(* A settled document has its duration put in its record. *)
Observed == /\ Resting /\ ~walk.on /\ look.at = "answered"
            /\ Save(IF Signed(cache.records[look.key], look.hash, plugin.versions)
                    THEN [cache EXCEPT !.dirty = @ \cup {look.key}] ELSE cache)
            /\ look' = NoLook /\ UNCHANGED <<memo, walk>>
HostCalls == List \/ CensusCut \/ CensusComplete \/ Observed

-----------------------------------------------------------------------------
(* The file                                                                *)

(* The rows of a write that came to be in the file. *)
With(rows, write, keys) ==
  [rows EXCEPT ![write.versions] = [k \in Keys |-> IF k \in keys THEN write.records[k] ELSE @[k]]]
Compacted(t, write) == [rows |-> With(NoRows, write, write.keys), cut |-> FALSE, corrupt |-> FALSE, by |-> {t}]
(* The first row after a line cut short is part of that line. *)
Appended(t, write, keys, cut) ==
  [rows |-> With(file.rows, write, keys), cut |-> cut, corrupt |-> file.corrupt \/ cut \/ file.cut,
   by |-> file.by \cup {t}]
Legible(write) == IF file.cut THEN {write.keys \ {k} : k \in write.keys} ELSE {write.keys}

(* saved(): the rows written are clean, and later saves append. *)
Saved(c, write) == [c EXCEPT !.dirty = @ \ write.keys, !.compact = FALSE]

Ends(t) == flight' = [flight EXCEPT ![t] = NoWrite]
Issued(t) == plugin.token = t /\ plugin.at = "saving"
WriteLands(t) ==
  /\ flight[t] # NoWrite /\ Ends(t)
  /\ IF flight[t].compact THEN file' = Compacted(t, flight[t])
     ELSE \E keys \in Legible(flight[t]) : file' = Appended(t, flight[t], keys, FALSE)
  /\ IF Issued(t) THEN cache' = Saved(cache, flight[t]) /\ plugin' = [plugin EXCEPT !.at = "up"]
     ELSE UNCHANGED <<cache, plugin>>
  /\ UNCHANGED <<diskVars, memo, look, walk, chained>>
(* A replacement is all or nothing; an append that fails may leave some of *)
(* its rows, and the last of them cut short.                               *)
Partly(t) ==
  \/ UNCHANGED file
  \/ ~flight[t].compact /\ \E keys \in SUBSET flight[t].keys, cut \in BOOLEAN :
       keys # flight[t].keys /\ file' = Appended(t, flight[t], keys, cut)
WriteFails(t) == /\ flight[t] # NoWrite /\ Ends(t) /\ Partly(t)
                 /\ plugin' = (IF Issued(t) THEN [plugin EXCEPT !.at = "up"] ELSE plugin)
                 /\ UNCHANGED <<diskVars, cache, memo, look, walk, chained>>

-----------------------------------------------------------------------------
(* Activations                                                             *)

NothingUp == cache' = Blank /\ memo' = [k \in Keys |-> NoHash] /\ look' = NoLook
             /\ walk' = NoWalk

(* A dead host starts again once what it had handed to the disk is there   *)
(* or is not.                                                              *)
Startup == /\ plugin.at \in {"down", "dead"} /\ plugin.token < Activations
           /\ plugin.at = "dead" => \A t \in 1..Activations : flight[t] = NoWrite
           /\ plugin' = [token |-> plugin.token + 1, at |-> "loading", versions |-> metadata]
           /\ UNCHANGED <<diskVars, cache, memo, look, walk, file, flight, chained>>
(* initialize() waits for the write the handle names, of whatever          *)
(* activation, and reads the rows of its own versions.                     *)
Load == /\ plugin.at = "loading" /\ (chained # 0 => flight[chained] = NoWrite)
        /\ plugin' = [plugin EXCEPT !.at = "up"]
        /\ cache' = [Blank EXCEPT !.records = file.rows[plugin.versions]]
        /\ UNCHANGED <<diskVars, memo, look, walk, file, flight, chained>>
(* The write under way goes on.  What an old pump still inspects it puts   *)
(* in a cache nobody reads, and its saves return at once.                  *)
Shutdown == /\ plugin.at \in {"loading", "up", "saving"}
            /\ plugin' = [plugin EXCEPT !.at = "down"] /\ NothingUp
            /\ UNCHANGED <<diskVars, file, flight, chained>>
(* removeSDTDurableState() may fail, and says nothing. *)
Uninstall == /\ plugin.at \in {"loading", "up", "saving"}
             /\ plugin' = [plugin EXCEPT !.at = "down"] /\ NothingUp
             /\ chained' = 0 /\ file' \in {EmptyFile, file}
             /\ UNCHANGED <<diskVars, flight>>
HostDies == /\ plugin.at \notin {"dead"} /\ plugin' = [plugin EXCEPT !.at = "dead"] /\ NothingUp
            /\ chained' = 0 /\ UNCHANGED <<diskVars, file, flight>>

CacheNext == Library \/ Inspection \/ HostCalls \/ Startup \/ Load \/ Shutdown \/ Uninstall \/ HostDies
             \/ (\E t \in 1..Activations : WriteLands(t) \/ WriteFails(t))
CacheSpec == CacheInit /\ [][CacheNext]_cacheVars
-----------------------------------------------------------------------------
(* Properties                                                              *)

(* A verdict given from memory is the one reading the pack would have      *)
(* given, although files changed between the awaits of the inspection that *)
(* made it, a host died in the middle of a write, or rows of an older one  *)
(* came back; and the bytes it names were hashed inside the trust window.  *)
HitsTellTruth == look.at = "answered" /\ look.cached =>
                   look.status = Reading(look.saw, look.hash, plugin.versions)
HashedInTime == look.at \in {"pack", "read"} => memo[look.key].unread < MaxAge
MemoryStandsUp == HitsTellTruth /\ HashedInTime

(* With nothing left to write, the file reads as the memory: the next      *)
(* session begins where this one ends.  Not so where an append broke a     *)
(* line, or where an uninstall let go of a write.                          *)
FileFollowsMemory ==
  Up /\ cache.dirty = {} /\ ~cache.compact /\ ~file.corrupt /\ file.by = {plugin.token} =>
    file.rows = [NoRows EXCEPT ![plugin.versions] = cache.records]
=============================================================================
