------------------------ MODULE SDTPackCache_proofs ------------------------
(* What the sitter remembers of a document is what it would find again,    *)
(* for any documents, versions, changes of the files and activations.      *)
EXTENDS SDTPackCache, TLAPS

Hashes == Contents \cup {"missing", "none"}
Packs == [of : Contents \cup {"none"}, by : Versions \cup {0}, text : Texts, fingerprint : Nat]
Records == [hash : Hashes, versions : Versions \cup {0}, fingerprint : Nat, empty : BOOLEAN]
Memories == [hash : Hashes, stat : Nat, age : 0..MaxAge, unread : 0..MaxAge]
Looks == [at : {"off", "hash", "pack", "read", "answered"}, key : Keys \cup {"none"}, stat : Nat,
          hash : Hashes, saw : Packs, status : {"none", "current", "empty-pack"}, cached : BOOLEAN]
Rows == [Keys -> Records]
Caches == [records : Rows, dirty : SUBSET Keys, compact : BOOLEAN]
Files == [rows : [Versions -> Rows], cut : BOOLEAN, corrupt : BOOLEAN, by : SUBSET (1..Activations)]
Pending == [compact : BOOLEAN, keys : SUBSET Keys, records : Rows,
            versions : Versions \cup {0}]

DiskTyped == /\ changed \in Nat /\ metadata \in Versions
             /\ sources \in [Keys -> [is : Hashes, stat : Nat]] /\ packs \in [Keys -> Packs]
PluginTyped == /\ plugin \in [token : 0..Activations, at : {"down", "dead", "loading", "up", "saving"},
                              versions : Versions]
               /\ (plugin.at \in {"loading", "up", "saving"} => plugin.token # 0)
               /\ cache \in Caches
MemoTyped == memo \in [Keys -> Memories]
LookTyped == /\ look \in Looks /\ (look.at # "off" => look.key \in Keys)
             /\ (look.at # "answered" => look.cached = FALSE)
             /\ (plugin.at # "up" => look = NoLook)
FileTyped == /\ file \in Files
             /\ flight \in [1..Activations -> Pending]
Typed == DiskTyped /\ PluginTyped /\ MemoTyped /\ LookTyped /\ FileTyped

(* The status a record stands for.                                         *)
Says(r) == IF r.empty THEN "empty-pack" ELSE "current"

(* A record is of a pack that was there by the n-th change; if the pack    *)
(* there now is that one, the record says what reading it would.           *)
Good(pack, n, r) == r # NoRecord =>
  /\ r.fingerprint <= n
  /\ pack # NoPack /\ r.fingerprint = pack.fingerprint => Says(r) = Reading(pack, r.hash, r.versions)

PacksDated == \A k \in Keys : packs[k].fingerprint <= changed
CacheGood == \A k \in Keys : Good(packs[k], changed, cache.records[k])
FileGood == \A v \in Versions, k \in Keys : Good(packs[k], changed, file.rows[v][k])
FlightGood == \A t \in 1..Activations, k \in Keys : Good(packs[k], changed, flight[t].records[k])
SawDated == look.saw.fingerprint <= changed
AgeIsReal == \A k \in Keys : memo[k].unread = memo[k].age

RecordsGood == PacksDated /\ CacheGood /\ FileGood /\ FlightGood /\ SawDated
MemoryInv == Typed /\ RecordsGood /\ AgeIsReal /\ HitsTellTruth /\ HashedInTime
-----------------------------------------------------------------------------
(* What the operators return.                                              *)

(* No record says nothing; a record is an empty one until it is kept.      *)
LEMMA NothingTyped ==
  /\ NoRecord \in Records /\ NoPack \in Packs /\ NoHash \in Memories /\ NoLook \in Looks
  /\ [k \in Keys |-> NoRecord] \in Rows /\ Blank \in Caches /\ EmptyFile \in Files /\ NoWrite \in Pending
<1>1. NoRecord \in Records /\ NoPack \in Packs
  BY DEF NoRecord, NoPack, Records, Packs, Hashes, Texts
<1>2. NoHash \in Memories
  BY CacheAssumption DEF NoHash, Memories, Hashes
<1>3. NoLook \in Looks
  BY <1>1 DEF NoLook, Looks, Hashes
<1>4. [k \in Keys |-> NoRecord] \in Rows
  BY <1>1 DEF Rows
<1>5. Blank \in Caches /\ NoWrite \in Pending
  BY <1>4 DEF Blank, Caches, NoWrite, Pending
<1>6. EmptyFile \in Files
  BY <1>4 DEF EmptyFile, Files, NoRows
<1>. QED BY <1>1, <1>2, <1>3, <1>4, <1>5, <1>6

(* Nothing is claimed where there is no record.                            *)
LEMMA NoneGood ==
  ASSUME NEW pack, NEW n PROVE Good(pack, n, NoRecord)
BY DEF Good

(* A record stays good while its pack stays, and when the pack goes or is  *)
(* written again.                                                          *)
LEMMA GoodAfterChange ==
  ASSUME NEW pack \in Packs, NEW pack2 \in Packs, NEW n \in Nat, NEW r \in Records, Good(pack, n, r),
         pack2 = pack \/ pack2 = NoPack \/ pack2.fingerprint = n + 1
  PROVE  Good(pack2, n + 1, r)
BY DEF Good, Records, Packs

(* The cache of a key dropped, checked, or pruned has no record it had not *)
(* before.                                                                 *)
LEMMA DropKeeps ==
  ASSUME NEW c \in Caches, NEW k \in Keys
  PROVE  /\ Drop(c, k) \in Caches
         /\ \A j \in Keys : Drop(c, k).records[j] \in {c.records[j], NoRecord}
BY NothingTyped DEF Drop, Caches, Rows

(* So of one checked,                                                      *)
LEMMA CheckKeeps ==
  ASSUME NEW c \in Caches, NEW k \in Keys, NEW hash, NEW versions
  PROVE  /\ Checked(c, k, hash, versions) \in Caches
         /\ \A j \in Keys : Checked(c, k, hash, versions).records[j] \in {c.records[j], NoRecord}
BY DropKeeps DEF Checked

(* and of one pruned.                                                      *)
LEMMA PruneKeeps ==
  ASSUME NEW c \in Caches, NEW kept
  PROVE  /\ Prune(c, kept) \in Caches
         /\ \A j \in Keys : Prune(c, kept).records[j] \in {c.records[j], NoRecord}
BY NothingTyped DEF Prune, Caches, Rows

(* Rows written over others leave at each key the one or the other.        *)
LEMMA WithKeeps ==
  ASSUME NEW rows \in [Versions -> Rows], NEW write \in Pending, NEW keys
  PROVE  /\ With(rows, write, keys) \in [Versions -> Rows]
         /\ \A v \in Versions, k \in Keys :
              With(rows, write, keys)[v][k] \in {rows[v][k], write.records[k]}
BY DEF With, Pending, Rows
-----------------------------------------------------------------------------
(* The invariant                                                           *)

(* It holds before the first activation.                                   *)
LEMMA CacheStarts == CacheInit => MemoryInv
<1>. SUFFICES ASSUME CacheInit PROVE MemoryInv
  OBVIOUS
<1>. USE DEF CacheInit
<1>1. DiskTyped
  <2>1. \A k \in Keys : packs[k] \in Packs
    BY NothingTyped DEF Packs, Texts
  <2>. QED BY <2>1 DEF DiskTyped, Packs, Hashes
<1>2. PluginTyped /\ MemoTyped /\ LookTyped /\ FileTyped
  BY NothingTyped, CacheAssumption DEF PluginTyped, MemoTyped, LookTyped, FileTyped, NoLook
<1>3. RecordsGood
  <2>1. PacksDated
    BY DEF PacksDated, NoPack
  <2>2. CacheGood
    BY NoneGood DEF CacheGood, Blank
  <2>3. FileGood
    BY NoneGood DEF FileGood, EmptyFile, NoRows
  <2>4. FlightGood
    BY NoneGood DEF FlightGood, NoWrite
  <2>5. SawDated
    BY DEF SawDated, NoLook, NoPack
  <2>. QED BY <2>1, <2>2, <2>3, <2>4, <2>5 DEF RecordsGood
<1>4. AgeIsReal /\ HitsTellTruth /\ HashedInTime
  BY DEF AgeIsReal, HitsTellTruth, HashedInTime, NoHash, NoLook
<1>. QED BY <1>1, <1>2, <1>3, <1>4 DEF MemoryInv, Typed

(* Every record kept anywhere is one.                                      *)
LEMMA RecordsTyped ==
  ASSUME Typed
  PROVE  /\ \A k \in Keys : cache.records[k] \in Records
         /\ \A v \in Versions, k \in Keys : file.rows[v][k] \in Records
         /\ \A t \in 1..Activations, k \in Keys : flight[t].records[k] \in Records
<1>1. cache.records \in Rows
  BY DEF Typed, PluginTyped, Caches
<1>2. \A v \in Versions : file.rows[v] \in Rows
  BY DEF Typed, FileTyped, Files
<1>3. \A t \in 1..Activations : flight[t].records \in Rows
  BY DEF Typed, FileTyped, Pending
<1>. QED BY <1>1, <1>2, <1>3 DEF Rows

(* A change of the files leaves every record good: what it writes has a    *)
(* fingerprint no record has.                                              *)
LEMMA WorldKeeps ==
  ASSUME MemoryInv, SourceRewritten \/ RewrittenInPlace \/ SourceGone \/ PackWritten \/ PackGone
  PROVE  MemoryInv'
<1>1. /\ changed' = changed + 1 /\ changed \in Nat
      /\ UNCHANGED <<metadata, plugin, cache, memo, look, walk, file, flight, chained>>
  BY DEF SourceRewritten, RewrittenInPlace, SourceGone, PackWritten, PackGone, World, MemoryInv, Typed, DiskTyped
<1>2. /\ packs' \in [Keys -> Packs]
      /\ \A k \in Keys : packs'[k] = packs[k] \/ packs'[k] = NoPack \/ packs'[k].fingerprint = changed + 1
  <2>1. CASE UNCHANGED packs
    BY <2>1 DEF MemoryInv, Typed, DiskTyped
  <2>2. CASE PackWritten
    BY <1>1, <2>2, NothingTyped DEF PackWritten, World, MemoryInv, Typed, DiskTyped, Packs
  <2>3. CASE PackGone
    BY <1>1, <2>3, NothingTyped DEF PackGone, World, MemoryInv, Typed, DiskTyped
  <2>. QED BY <2>1, <2>2, <2>3 DEF SourceRewritten, RewrittenInPlace, SourceGone, World
<1>3. sources' \in [Keys -> [is : Hashes, stat : Nat]]
  BY <1>1 DEF SourceRewritten, RewrittenInPlace, SourceGone, PackWritten, PackGone, World, MemoryInv, Typed,
     DiskTyped, NoSource, Hashes
<1>4. Typed'
  BY <1>1, <1>2, <1>3 DEF MemoryInv, Typed, DiskTyped, PluginTyped, MemoTyped, LookTyped, FileTyped
<1>5. \A k \in Keys, r \in Records : Good(packs[k], changed, r) => Good(packs'[k], changed', r)
  BY <1>1, <1>2, GoodAfterChange DEF MemoryInv, Typed, DiskTyped
<1>6. PacksDated'
  BY <1>1, <1>2 DEF PacksDated, MemoryInv, RecordsGood, Packs, NoPack, Typed, DiskTyped
<1>7. CacheGood' /\ FileGood' /\ FlightGood'
  BY <1>1, <1>5, RecordsTyped DEF CacheGood, FileGood, FlightGood, MemoryInv, RecordsGood
<1>8. SawDated'
  BY <1>1 DEF SawDated, MemoryInv, RecordsGood, Typed, LookTyped, Looks, Packs
<1>9. AgeIsReal' /\ HitsTellTruth' /\ HashedInTime'
  BY <1>1 DEF AgeIsReal, HitsTellTruth, HashedInTime, MemoryInv
<1>. QED BY <1>4, <1>6, <1>7, <1>8, <1>9 DEF MemoryInv, RecordsGood

(* So does the host's own version, and time.                               *)
LEMMA HostKeeps ==
  ASSUME MemoryInv, HostUpdated \/ Tick PROVE MemoryInv'
<1>1. CASE HostUpdated
  <2>1. /\ changed' = changed + 1 /\ changed \in Nat /\ metadata' \in Versions
        /\ UNCHANGED <<sources, packs, plugin, cache, memo, look, walk, file, flight, chained>>
    BY <1>1 DEF HostUpdated, MemoryInv, Typed, DiskTyped
  <2>2. Typed'
    BY <2>1 DEF MemoryInv, Typed, DiskTyped, PluginTyped, MemoTyped, LookTyped, FileTyped
  <2>3. \A k \in Keys, r \in Records : Good(packs[k], changed, r) => Good(packs'[k], changed', r)
    BY <2>1, GoodAfterChange DEF MemoryInv, Typed, DiskTyped
  <2>4. PacksDated' /\ SawDated'
    BY <2>1 DEF PacksDated, SawDated, MemoryInv, RecordsGood, Packs, Typed, DiskTyped, LookTyped, Looks
  <2>5. CacheGood' /\ FileGood' /\ FlightGood'
    BY <2>1, <2>3, RecordsTyped DEF CacheGood, FileGood, FlightGood, MemoryInv, RecordsGood
  <2>6. AgeIsReal' /\ HitsTellTruth' /\ HashedInTime'
    BY <2>1 DEF AgeIsReal, HitsTellTruth, HashedInTime, MemoryInv
  <2>. QED BY <2>2, <2>4, <2>5, <2>6 DEF MemoryInv, RecordsGood
<1>2. CASE Tick
  <2>1. UNCHANGED <<diskVars, plugin, cache, look, walk, file, flight, chained>> /\ look.at \in {"off", "answered"}
    BY <1>2 DEF Tick
  <2>2. MemoTyped'
    <3>1. \A age \in 0..MaxAge : Older(age) \in 0..MaxAge
      BY CacheAssumption DEF Older
    <3>2. \A m \in Memories : [m EXCEPT !.age = Older(@), !.unread = Older(@)] \in Memories
      BY <3>1 DEF Memories
    <3>3. \A k \in Keys : memo[k] \in Memories
      BY DEF MemoryInv, Typed, MemoTyped
    <3>. QED BY <1>2, <3>2, <3>3, NothingTyped DEF Tick, MemoTyped
  <2>3. Typed'
    BY <2>1, <2>2 DEF MemoryInv, Typed, DiskTyped, PluginTyped, LookTyped, FileTyped, diskVars
  <2>4. RecordsGood'
    BY <2>1 DEF MemoryInv, RecordsGood, PacksDated, CacheGood, FileGood, FlightGood, SawDated, diskVars
  <2>5. AgeIsReal'
    BY <1>2 DEF Tick, AgeIsReal, MemoryInv, Typed, MemoTyped, Memories
  <2>6. HitsTellTruth' /\ HashedInTime'
    BY <2>1 DEF HitsTellTruth, HashedInTime, MemoryInv
  <2>. QED BY <2>3, <2>4, <2>5, <2>6 DEF MemoryInv
<1>. QED BY <1>1, <1>2
(* With the packs as they are, a cache that only forgets stays good.       *)
LEMMA ForgettingKeeps ==
  ASSUME RecordsGood, UNCHANGED <<packs, changed, file, flight>>,
         \A k \in Keys : cache'.records[k] \in {cache.records[k], NoRecord},
         look'.saw.fingerprint <= changed
  PROVE  RecordsGood'
<1>1. \A k \in Keys : Good(packs[k], changed, cache'.records[k])
  BY NoneGood DEF RecordsGood, CacheGood
<1>. QED BY <1>1 DEF RecordsGood, PacksDated, CacheGood, FileGood, FlightGood, SawDated

(* The stat of a source.                                                   *)
LEMMA StatSourceKeeps ==
  ASSUME MemoryInv, NEW k \in Keys, StatSource(k) PROVE MemoryInv'
<1>1. /\ plugin.at = "up" /\ UNCHANGED <<diskVars, plugin, file, flight, chained>>
      /\ NoLook.saw.fingerprint = 0 /\ changed \in Nat
  BY DEF StatSource, Resting, Up, MemoryInv, Typed, DiskTyped, NoLook, NoPack
<1>2. CASE sources[k] = NoSource
  <2>1. memo' = [memo EXCEPT ![k] = NoHash] /\ cache' = Drop(cache, k) /\ look' = NoLook
    BY <1>2 DEF StatSource, Answer, Going
  <2>2. Typed'
    BY <1>1, <2>1, NothingTyped, DropKeeps DEF MemoryInv, Typed, DiskTyped, PluginTyped, MemoTyped, LookTyped,
       FileTyped, diskVars, NoLook
  <2>3. RecordsGood'
    BY <1>1, <2>1, DropKeeps, ForgettingKeeps DEF MemoryInv, Typed, PluginTyped, diskVars
  <2>4. AgeIsReal' /\ HitsTellTruth' /\ HashedInTime'
    BY <2>1 DEF AgeIsReal, HitsTellTruth, HashedInTime, NoLook, NoHash, MemoryInv, Typed, MemoTyped
  <2>. QED BY <2>2, <2>3, <2>4 DEF MemoryInv
<1>3. CASE sources[k] # NoSource
  <2>1. look' = [NoLook EXCEPT !.at = "hash", !.key = k, !.stat = sources[k].stat] /\ UNCHANGED <<cache, memo>>
    BY <1>3 DEF StatSource, Going
  <2>2. /\ look' \in Looks /\ look'.key \in Keys /\ look'.at = "hash" /\ look'.saw = NoPack
        /\ look'.cached = FALSE
    BY <2>1, NothingTyped DEF NoLook, Looks, MemoryInv, Typed, DiskTyped
  <2>3. Typed'
    BY <1>1, <2>1, <2>2 DEF MemoryInv, Typed, DiskTyped, PluginTyped, MemoTyped, LookTyped, FileTyped, diskVars
  <2>4. RecordsGood'
    BY <1>1, <2>1, <2>2, ForgettingKeeps DEF MemoryInv, diskVars, NoPack
  <2>5. AgeIsReal' /\ HitsTellTruth' /\ HashedInTime'
    BY <2>1, <2>2 DEF AgeIsReal, HitsTellTruth, HashedInTime, MemoryInv
  <2>. QED BY <2>3, <2>4, <2>5 DEF MemoryInv
<1>. QED BY <1>2, <1>3

(* The hash, remembered or computed: younger than the window either way.   *)
LEMMA HashKeeps ==
  ASSUME MemoryInv, HashKnown \/ HashComputed PROVE MemoryInv'
<1>1. /\ look.at = "hash" /\ plugin.at = "up" /\ look \in Looks /\ look.key \in Keys
      /\ UNCHANGED <<diskVars, plugin, file, flight, chained, cache>>
  BY DEF HashKnown, HashComputed, Inspecting, Up, MemoryInv, Typed, LookTyped
<1>2. PICK hash \in Hashes : look' = [look EXCEPT !.at = "pack", !.hash = hash]
  BY <1>1 DEF HashKnown, HashComputed, Going, MemoryInv, Typed, MemoTyped, Memories, DiskTyped
<1>3. /\ look' \in Looks /\ look'.key = look.key /\ look'.at = "pack" /\ look'.saw = look.saw
      /\ look'.cached = look.cached
  BY <1>1, <1>2 DEF Looks
<1>4. MemoTyped' /\ AgeIsReal' /\ memo'[look.key].unread < MaxAge
  <2>1. CASE HashKnown
    BY <1>1, <2>1 DEF HashKnown, Trusted, MemoryInv, Typed, MemoTyped, AgeIsReal
  <2>2. CASE HashComputed
    <3>1. [hash |-> sources[look.key].is, stat |-> look.stat, age |-> 0, unread |-> 0] \in Memories
      BY <1>1, CacheAssumption DEF Memories, Looks, MemoryInv, Typed, DiskTyped
    <3>. QED BY <1>1, <2>2, <3>1, CacheAssumption DEF HashComputed, MemoryInv, Typed, MemoTyped, AgeIsReal
  <2>. QED BY <2>1, <2>2
<1>5. Typed'
  BY <1>1, <1>3, <1>4 DEF MemoryInv, Typed, DiskTyped, PluginTyped, LookTyped, FileTyped, diskVars
<1>6. RecordsGood'
  BY <1>1, <1>3, ForgettingKeeps DEF MemoryInv, RecordsGood, SawDated, diskVars
<1>7. HitsTellTruth' /\ HashedInTime'
  BY <1>3, <1>4 DEF HitsTellTruth, HashedInTime
<1>. QED BY <1>4, <1>5, <1>6, <1>7 DEF MemoryInv

(* The stat of a pack: a record that answers is of this very pack.         *)
LEMMA StatPackKeeps ==
  ASSUME MemoryInv, StatPack PROVE MemoryInv'
<1> DEFINE k == look.key
           pack == packs[k]
           hit == Hit(cache, k, look.hash, plugin.versions, pack.fingerprint)
<1>1. /\ look.at = "pack" /\ plugin.at = "up" /\ look \in Looks /\ k \in Keys /\ pack \in Packs
      /\ UNCHANGED <<diskVars, plugin, file, flight, chained, memo>>
      /\ changed \in Nat /\ pack.fingerprint <= changed /\ cache \in Caches
  BY DEF StatPack, Inspecting, Up, MemoryInv, Typed, DiskTyped, PluginTyped, LookTyped, RecordsGood, PacksDated
<1>2. memo'[look.key].unread < MaxAge
  BY <1>1 DEF MemoryInv, HashedInTime
<1>3. CASE pack = NoPack /\ cache' = Drop(cache, k) /\ look' = NoLook
  <2>1. Typed'
    BY <1>1, <1>3, NothingTyped, DropKeeps DEF MemoryInv, Typed, DiskTyped, PluginTyped, MemoTyped, LookTyped,
       FileTyped, diskVars, NoLook
  <2>2. RecordsGood'
    BY <1>1, <1>3, DropKeeps, ForgettingKeeps DEF MemoryInv, diskVars, NoLook, NoPack
  <2>3. AgeIsReal' /\ HitsTellTruth' /\ HashedInTime'
    BY <1>1, <1>3 DEF AgeIsReal, HitsTellTruth, HashedInTime, NoLook, MemoryInv
  <2>. QED BY <2>1, <2>2, <2>3 DEF MemoryInv
<1>4. CASE /\ pack # NoPack /\ hit /\ UNCHANGED cache
           /\ look' = [look EXCEPT !.at = "answered", !.stat = 0, !.saw = pack, !.cached = TRUE,
                                   !.status = Says(cache.records[k])]
  <2>1. Says(cache.records[k]) \in {"current", "empty-pack"}
    BY DEF Says
  <2>2. /\ look' \in Looks /\ look'.key = k /\ look'.at = "answered" /\ look'.saw = pack
        /\ look'.hash = look.hash /\ look'.status = Says(cache.records[k])
    BY <1>1, <1>4, <2>1 DEF Looks
  <2>3. Says(cache.records[k]) = Reading(pack, look.hash, plugin.versions)
    BY <1>1, <1>4 DEF Hit, Signed, Good, MemoryInv, RecordsGood, CacheGood
  <2>4. Typed'
    BY <1>1, <1>4, <2>2 DEF MemoryInv, Typed, DiskTyped, PluginTyped, MemoTyped, LookTyped, FileTyped, diskVars
  <2>5. RecordsGood'
    BY <1>1, <1>4, <2>2, ForgettingKeeps DEF MemoryInv, diskVars
  <2>6. AgeIsReal' /\ HitsTellTruth' /\ HashedInTime'
    BY <1>1, <2>2, <2>3 DEF AgeIsReal, HitsTellTruth, HashedInTime, MemoryInv
  <2>. QED BY <2>4, <2>5, <2>6 DEF MemoryInv
<1>5. CASE /\ pack # NoPack /\ cache' = Checked(cache, k, look.hash, plugin.versions)
           /\ look' = [look EXCEPT !.at = "read", !.saw = pack]
  <2>1. /\ look' \in Looks /\ look'.key = k /\ look'.at = "read" /\ look'.saw = pack
        /\ look'.cached = look.cached
    BY <1>1, <1>5 DEF Looks
  <2>2. Typed'
    BY <1>1, <1>5, <2>1, CheckKeeps DEF MemoryInv, Typed, DiskTyped, PluginTyped, MemoTyped, LookTyped, FileTyped,
       diskVars
  <2>3. RecordsGood'
    BY <1>1, <1>5, <2>1, CheckKeeps, ForgettingKeeps DEF MemoryInv, diskVars
  <2>4. AgeIsReal' /\ HitsTellTruth' /\ HashedInTime'
    BY <1>1, <1>2, <2>1 DEF AgeIsReal, HitsTellTruth, HashedInTime, MemoryInv
  <2>. QED BY <2>2, <2>3, <2>4 DEF MemoryInv
<1>. QED BY <1>3, <1>4, <1>5 DEF StatPack, Answer, Going, Says
(* The reading of a pack: what is remembered is true of the pack that was  *)
(* read, and claims the fingerprint of the one seen before.                *)
LEMMA ReadPackKeeps ==
  ASSUME MemoryInv, ReadPack PROVE MemoryInv'
<1> DEFINE k == look.key
           status == Reading(packs[k], look.hash, plugin.versions)
           record == [hash |-> look.hash, versions |-> plugin.versions, fingerprint |-> look.saw.fingerprint,
                      empty |-> status = "empty-pack"]
<1>1. /\ look.at = "read" /\ plugin.at = "up" /\ look \in Looks /\ k \in Keys /\ packs[k] \in Packs
      /\ UNCHANGED <<diskVars, plugin, file, flight, chained, memo>>
      /\ changed \in Nat /\ cache \in Caches /\ plugin.versions \in Versions
      /\ look.saw \in Packs /\ look.saw.fingerprint <= changed
  BY DEF ReadPack, Inspecting, Up, MemoryInv, Typed, DiskTyped, PluginTyped, LookTyped, RecordsGood, SawDated, Looks
<1>2. status \in {"invalid-pack", "stale", "empty-pack", "current"}
  BY DEF Reading
<1>3. /\ look' \in Looks /\ (look'.at # "off" => look'.key \in Keys)
      /\ look'.at \in {"off", "answered"} /\ look'.saw = NoPack
      /\ look'.cached = FALSE
  <2>0. Answer(status)
    BY DEF ReadPack, Taken
  <2>1. CASE status \in {"empty-pack", "current"}
    <3>1. look' = [look EXCEPT !.at = "answered", !.status = status, !.stat = 0, !.saw = NoPack]
      BY <2>0, <2>1 DEF Answer, Going
    <3>2. look.cached = FALSE
      BY <1>1 DEF MemoryInv, Typed, LookTyped
    <3>. QED BY <1>1, <2>1, <3>1, <3>2, NothingTyped DEF Looks
  <2>2. CASE status \notin {"empty-pack", "current"}
    <3>1. look' = NoLook
      BY <2>0, <2>2 DEF Answer, Going
    <3>. QED BY <3>1, NothingTyped DEF NoLook
  <2>. QED BY <2>1, <2>2
<1>4. cache' \in Caches /\ \A j \in Keys : Good(packs[j], changed, cache'.records[j])
  <2>1. CASE status \in {"current", "empty-pack"}
    <3>1. cache' = Remember(cache, k, record)
      BY <2>1 DEF ReadPack, Taken
    <3>2. record \in Records
      BY <1>1 DEF Records, Looks, Packs
    <3>3. Says(record) = status
      BY <2>1 DEF Says
    <3>4. Good(packs[k], changed, record)
      BY <1>1, <3>3 DEF Good
    <3>. QED BY <1>1, <3>1, <3>2, <3>4 DEF Remember, Caches, Rows, MemoryInv, RecordsGood, CacheGood
  <2>2. CASE status = "stale"
    <3>1. cache' = Drop(cache, k)
      BY <2>2 DEF ReadPack, Taken
    <3>. QED BY <1>1, <3>1, DropKeeps, NoneGood DEF MemoryInv, RecordsGood, CacheGood
  <2>3. CASE status = "invalid-pack"
    BY <1>1, <2>3 DEF ReadPack, Taken, MemoryInv, RecordsGood, CacheGood
  <2>. QED BY <1>2, <2>1, <2>2, <2>3
<1>5. Typed'
  BY <1>1, <1>3, <1>4 DEF MemoryInv, Typed, DiskTyped, PluginTyped, MemoTyped, LookTyped, FileTyped, diskVars
<1>6. RecordsGood'
  BY <1>1, <1>3, <1>4 DEF MemoryInv, RecordsGood, PacksDated, CacheGood, FileGood, FlightGood, SawDated, diskVars,
     NoPack
<1>7. AgeIsReal' /\ HitsTellTruth' /\ HashedInTime'
  BY <1>1, <1>3 DEF AgeIsReal, HitsTellTruth, HashedInTime, MemoryInv
<1>. QED BY <1>5, <1>6, <1>7 DEF MemoryInv

(* Nothing under inspection: what is left to show of a call of the host or *)
(* of an activation.                                                       *)
LEMMA IdleKeeps ==
  ASSUME MemoryInv, UNCHANGED diskVars, look' = NoLook, PluginTyped', MemoTyped', AgeIsReal', FileTyped',
         CacheGood', FileGood', FlightGood'
  PROVE  MemoryInv'
<1>1. Typed'
  BY NothingTyped DEF MemoryInv, Typed, DiskTyped, LookTyped, diskVars, NoLook
<1>2. RecordsGood'
  BY DEF MemoryInv, RecordsGood, PacksDated, SawDated, NoLook, NoPack, Typed, DiskTyped, diskVars
<1>3. HitsTellTruth' /\ HashedInTime'
  BY DEF HitsTellTruth, HashedInTime, NoLook
<1>. QED BY <1>1, <1>2, <1>3 DEF MemoryInv

(* A census that begins, under new versions perhaps, and one cut off.      *)
LEMMA ListKeeps ==
  ASSUME MemoryInv, List \/ CensusCut PROVE MemoryInv'
<1>1. UNCHANGED <<diskVars, memo, file, flight>> /\ look' = NoLook
  BY DEF List, CensusCut
<1>2. PluginTyped' /\ CacheGood'
  <2>1. CASE cache' = Blank /\ plugin' = [plugin EXCEPT !.versions = metadata]
    BY <1>1, <2>1, NothingTyped, NoneGood DEF PluginTyped, CacheGood, Blank, MemoryInv, Typed, DiskTyped
  <2>2. CASE UNCHANGED cache /\ (UNCHANGED plugin \/ plugin' = [plugin EXCEPT !.versions = metadata])
    BY <1>1, <2>2 DEF PluginTyped, CacheGood, MemoryInv, Typed, DiskTyped, RecordsGood, diskVars
  <2>. QED BY <2>1, <2>2 DEF List, CensusCut
<1>3. MemoTyped' /\ AgeIsReal' /\ FileTyped' /\ FileGood' /\ FlightGood'
  BY <1>1 DEF MemoTyped, AgeIsReal, FileTyped, FileGood, FlightGood, MemoryInv, Typed, RecordsGood, diskVars
<1>. QED BY <1>1, <1>2, <1>3, IdleKeeps

(* A save writes what the cache has.                                       *)
LEMMA SaveKeeps ==
  ASSUME MemoryInv, plugin.at = "up", NEW c \in Caches, Save(c),
         \A k \in Keys : c.records[k] \in {cache.records[k], NoRecord}
  PROVE  /\ PluginTyped' /\ FileTyped' /\ CacheGood' /\ FileGood' /\ FlightGood' /\ UNCHANGED diskVars
<1>1. UNCHANGED <<diskVars, file>> /\ cache' = c
  BY DEF Save
<1>2. \A k \in Keys : Good(packs[k], changed, c.records[k])
  BY NoneGood DEF MemoryInv, RecordsGood, CacheGood
<1>3. /\ plugin' \in [token : 0..Activations, at : {"down", "dead", "loading", "up", "saving"},
                      versions : Versions]
      /\ plugin'.token = plugin.token /\ plugin.token \in 1..Activations
      /\ FileTyped' /\ FlightGood'
  <2>1. CASE UNCHANGED <<flight, plugin>>
    BY <1>1, <2>1, CacheAssumption DEF MemoryInv, Typed, PluginTyped, FileTyped, RecordsGood, FlightGood, diskVars
  <2>2. CASE ~UNCHANGED <<flight, plugin>>
    <3> DEFINE write == [compact |-> c.compact, keys |-> Changes(c), records |-> c.records,
                         versions |-> plugin.versions]
    <3>1. flight' = [flight EXCEPT ![plugin.token] = write] /\ plugin' = [plugin EXCEPT !.at = "saving"]
      BY <2>2 DEF Save
    <3>2. write \in Pending
      BY DEF Pending, Caches, Changes, MemoryInv, Typed, PluginTyped
    <3>0. plugin.token \in 1..Activations
      BY CacheAssumption DEF MemoryInv, Typed, PluginTyped
    <3>3. FlightGood'
      BY <1>1, <1>2, <3>1 DEF FlightGood, MemoryInv, RecordsGood, Typed, FileTyped, diskVars
    <3>. QED BY <1>1, <3>0, <3>1, <3>2, <3>3 DEF MemoryInv, Typed, PluginTyped, FileTyped
  <2>. QED BY <2>1, <2>2
<1>. QED BY <1>1, <1>2, <1>3 DEF PluginTyped, CacheGood, FileGood, MemoryInv, RecordsGood, diskVars
(* The census that ends forgets what it did not see; a settlement adds to  *)
(* what is to be written.                                                  *)
LEMMA SavingKeeps ==
  ASSUME MemoryInv, CensusComplete \/ Observed PROVE MemoryInv'
<1>1. plugin.at = "up" /\ look' = NoLook /\ cache \in Caches
  BY DEF CensusComplete, Observed, Resting, Up, MemoryInv, Typed, PluginTyped
<1>2. CASE CensusComplete
  <2>1. PluginTyped' /\ FileTyped' /\ CacheGood' /\ FileGood' /\ FlightGood' /\ UNCHANGED diskVars
    BY <1>1, <1>2, PruneKeeps, SaveKeeps DEF CensusComplete
  <2>2. MemoTyped' /\ AgeIsReal'
    BY <1>2, NothingTyped DEF CensusComplete, MemoTyped, AgeIsReal, MemoryInv, Typed, NoHash
  <2>. QED BY <1>1, <2>1, <2>2, IdleKeeps
<1>3. CASE Observed
  <2>1. PICK dirty \in SUBSET Keys : Save([cache EXCEPT !.dirty = dirty])
    <3>1. look.key \in Keys
      BY <1>3 DEF Observed, MemoryInv, Typed, LookTyped
    <3>2. [cache EXCEPT !.dirty = cache.dirty] = cache
      BY <1>1 DEF Caches
    <3>3. cache.dirty \in SUBSET Keys
      BY <1>1 DEF Caches
    <3>. QED BY <1>3, <3>1, <3>2, <3>3 DEF Observed
  <2>2. /\ [cache EXCEPT !.dirty = dirty] \in Caches
        /\ [cache EXCEPT !.dirty = dirty].records = cache.records
    BY <1>1 DEF Caches
  <2>3. PluginTyped' /\ FileTyped' /\ CacheGood' /\ FileGood' /\ FlightGood' /\ UNCHANGED diskVars
    BY <1>1, <2>1, <2>2, SaveKeeps
  <2>4. MemoTyped' /\ AgeIsReal'
    BY <1>3 DEF Observed, MemoTyped, AgeIsReal, MemoryInv, Typed
  <2>. QED BY <1>1, <2>3, <2>4, IdleKeeps
<1>. QED BY <1>2, <1>3

(* A file that changes only by rows of a write under way stays good.       *)
LEMMA WritingKeeps ==
  ASSUME MemoryInv, NEW t \in 1..Activations, flight' = [flight EXCEPT ![t] = NoWrite],
         UNCHANGED <<diskVars, memo, look>>, file' \in Files, PluginTyped', plugin.at = "up" => plugin'.at = "up",
         plugin'.versions = plugin.versions, cache'.records = cache.records,
         \A v \in Versions, k \in Keys :
           file'.rows[v][k] \in {NoRecord, file.rows[v][k], flight[t].records[k]}
  PROVE  MemoryInv'
<1>1. FileTyped'
  BY NothingTyped DEF MemoryInv, Typed, FileTyped
<1>2. LookTyped'
  BY DEF MemoryInv, Typed, LookTyped
<1>3. DiskTyped' /\ MemoTyped'
  BY DEF MemoryInv, Typed, DiskTyped, MemoTyped, diskVars
<1>4. FileGood'
  BY NoneGood DEF FileGood, FlightGood, MemoryInv, RecordsGood, diskVars
<1>5. FlightGood'
  <2>1. \A u \in 1..Activations : flight'[u] = (IF u = t THEN NoWrite ELSE flight[u])
    BY DEF MemoryInv, Typed, FileTyped
  <2>2. \A k \in Keys : NoWrite.records[k] = NoRecord
    BY DEF NoWrite
  <2>. QED BY <2>1, <2>2, NoneGood DEF FlightGood, MemoryInv, RecordsGood, diskVars
<1>6. PacksDated' /\ CacheGood' /\ SawDated'
  BY DEF PacksDated, CacheGood, SawDated, MemoryInv, RecordsGood, diskVars
<1>7. AgeIsReal' /\ HitsTellTruth' /\ HashedInTime'
  BY DEF AgeIsReal, HitsTellTruth, HashedInTime, MemoryInv
<1>. QED BY <1>1, <1>2, <1>3, <1>4, <1>5, <1>6, <1>7 DEF MemoryInv, Typed, RecordsGood

(* What an append or a compaction leaves in the file.                      *)
LEMMA WrittenRows ==
  ASSUME Typed, NEW t \in 1..Activations, NEW keys, NEW cut \in BOOLEAN,
         file' = Appended(t, flight[t], keys, cut) \/ file' = Compacted(t, flight[t])
  PROVE  /\ file' \in Files
         /\ \A v \in Versions, k \in Keys :
              file'.rows[v][k] \in {NoRecord, file.rows[v][k], flight[t].records[k]}
<1>1. /\ flight[t] \in Pending /\ file.rows \in [Versions -> Rows] /\ file.by \in SUBSET (1..Activations)
      /\ file.corrupt \in BOOLEAN /\ file.cut \in BOOLEAN
  BY DEF Typed, FileTyped, Files
<1>2. NoRows \in [Versions -> Rows] /\ \A v \in Versions, k \in Keys : NoRows[v][k] = NoRecord
  BY NothingTyped DEF NoRows
<1>3. /\ With(file.rows, flight[t], keys) \in [Versions -> Rows]
      /\ \A v \in Versions, k \in Keys :
           With(file.rows, flight[t], keys)[v][k] \in {file.rows[v][k], flight[t].records[k]}
  BY <1>1, WithKeeps
<1>4. /\ With(NoRows, flight[t], flight[t].keys) \in [Versions -> Rows]
      /\ \A v \in Versions, k \in Keys :
           With(NoRows, flight[t], flight[t].keys)[v][k] \in {NoRecord, flight[t].records[k]}
  BY <1>1, <1>2, WithKeeps
<1>5. (file.corrupt \/ cut \/ file.cut) \in BOOLEAN
  OBVIOUS
<1>6. file.by \cup {t} \in SUBSET (1..Activations) /\ {t} \in SUBSET (1..Activations)
  BY <1>1
<1>7. CASE file' = Appended(t, flight[t], keys, cut)
  <2>1. file'.rows = With(file.rows, flight[t], keys) /\ file' \in Files
    BY <1>3, <1>5, <1>6, <1>7 DEF Appended, Files
  <2>. QED BY <1>3, <2>1
<1>8. CASE file' = Compacted(t, flight[t])
  <2>1. file'.rows = With(NoRows, flight[t], flight[t].keys) /\ file' \in Files
    BY <1>4, <1>6, <1>8 DEF Compacted, Files
  <2>. QED BY <1>4, <2>1
<1>. QED BY <1>7, <1>8

(* A write that lands, whole, after a line cut short or over the file.     *)
LEMMA LandingKeeps ==
  ASSUME MemoryInv, NEW t \in 1..Activations, WriteLands(t) PROVE MemoryInv'
<1>1. flight' = [flight EXCEPT ![t] = NoWrite] /\ UNCHANGED <<diskVars, memo, look>>
  BY DEF WriteLands, Ends
<1>2. /\ file' \in Files
      /\ \A v \in Versions, k \in Keys :
           file'.rows[v][k] \in {NoRecord, file.rows[v][k], flight[t].records[k]}
  <2>1. PICK keys : file' = Appended(t, flight[t], keys, FALSE) \/ file' = Compacted(t, flight[t])
    BY Zenon DEF WriteLands
  <2>. QED BY <2>1, WrittenRows, Zenon DEF MemoryInv
<1>3. /\ PluginTyped' /\ (plugin.at = "up" => plugin'.at = "up")
      /\ plugin'.versions = plugin.versions /\ cache'.records = cache.records
  <2>1. CASE Issued(t)
    <3>1. cache' = Saved(cache, flight[t]) /\ plugin' = [plugin EXCEPT !.at = "up"] /\ plugin.token = t
      BY <2>1 DEF WriteLands, Issued
    <3>2. cache' \in Caches /\ cache'.records = cache.records
      BY <3>1 DEF Saved, Caches, MemoryInv, Typed, PluginTyped
    <3>. QED BY <3>1, <3>2 DEF MemoryInv, Typed, PluginTyped
  <2>2. CASE ~Issued(t)
    BY <2>2 DEF WriteLands, MemoryInv, Typed, PluginTyped
  <2>. QED BY <2>1, <2>2
<1>. QED BY <1>1, <1>2, <1>3, WritingKeeps

(* One that fails, with some of its rows in the file.                      *)
LEMMA FailingKeeps ==
  ASSUME MemoryInv, NEW t \in 1..Activations, WriteFails(t) PROVE MemoryInv'
<1>1. flight' = [flight EXCEPT ![t] = NoWrite] /\ UNCHANGED <<diskVars, memo, look, cache>>
  BY DEF WriteFails, Ends
<1>2. /\ file' \in Files
      /\ \A v \in Versions, k \in Keys :
           file'.rows[v][k] \in {NoRecord, file.rows[v][k], flight[t].records[k]}
  <2>1. CASE UNCHANGED file
    BY <2>1 DEF MemoryInv, Typed, FileTyped
  <2>2. CASE ~UNCHANGED file
    <3>1. PICK keys \in SUBSET flight[t].keys, cut \in BOOLEAN : file' = Appended(t, flight[t], keys, cut)
      BY <2>2, Zenon DEF WriteFails, Partly
    <3>. QED BY <3>1, WrittenRows, Zenon DEF MemoryInv
  <2>. QED BY <2>1, <2>2
<1>3. /\ PluginTyped' /\ (plugin.at = "up" => plugin'.at = "up")
      /\ plugin'.versions = plugin.versions /\ cache'.records = cache.records
  BY <1>1 DEF WriteFails, Issued, MemoryInv, Typed, PluginTyped
<1>. QED BY <1>1, <1>2, <1>3, WritingKeeps

(* An activation starts, reads the file, and ends in one of three ways.    *)
LEMMA ActivationsKeep ==
  ASSUME MemoryInv, Startup \/ Load \/ Shutdown \/ Uninstall \/ HostDies PROVE MemoryInv'
<1>1. CASE Startup \/ Load
  <2>1. UNCHANGED <<diskVars, memo, file, flight>> /\ look = NoLook /\ look' = NoLook
    BY <1>1 DEF Startup, Load, MemoryInv, Typed, LookTyped
  <2>2. PluginTyped' /\ CacheGood'
    <3>1. CASE Startup
      BY <2>1, <3>1, CacheAssumption DEF Startup, PluginTyped, CacheGood, MemoryInv, Typed, DiskTyped, RecordsGood, diskVars
    <3>2. CASE Load
      <4>1. plugin' = [plugin EXCEPT !.at = "up"] /\ cache' = [Blank EXCEPT !.records = file.rows[plugin.versions]]
        BY <3>2 DEF Load
      <4>2. plugin.versions \in Versions /\ file.rows[plugin.versions] \in Rows /\ plugin.at = "loading"
        BY <3>2 DEF Load, MemoryInv, Typed, PluginTyped, FileTyped, Files
      <4>3. cache'.records = file.rows[plugin.versions] /\ cache' \in Caches
        BY <4>1, <4>2 DEF Blank, Caches
      <4>. QED BY <2>1, <4>1, <4>2, <4>3 DEF PluginTyped, CacheGood, FileGood, MemoryInv, Typed, RecordsGood, diskVars
    <3>. QED BY <1>1, <3>1, <3>2
  <2>3. MemoTyped' /\ AgeIsReal' /\ FileTyped' /\ FileGood' /\ FlightGood'
    BY <2>1 DEF MemoTyped, AgeIsReal, FileTyped, FileGood, FlightGood, MemoryInv, Typed, RecordsGood, diskVars
  <2>. QED BY <2>1, <2>2, <2>3, IdleKeeps
<1>2. CASE Shutdown \/ Uninstall \/ HostDies
  <2>1. /\ UNCHANGED <<diskVars, flight>> /\ look' = NoLook /\ cache' = Blank
        /\ memo' = [k \in Keys |-> NoHash] /\ file' \in {EmptyFile, file}
    BY <1>2 DEF Shutdown, Uninstall, HostDies, NothingUp
  <2>2. PICK at \in {"down", "dead"} : plugin' = [plugin EXCEPT !.at = at]
    BY <1>2 DEF Shutdown, Uninstall, HostDies
  <2>3. PluginTyped' /\ CacheGood'
    BY <2>1, <2>2, NothingTyped, NoneGood DEF PluginTyped, CacheGood, Blank, MemoryInv, Typed
  <2>4. MemoTyped' /\ AgeIsReal'
    BY <2>1, NothingTyped DEF MemoTyped, AgeIsReal, NoHash
  <2>5. FileTyped' /\ FlightGood'
    BY <2>1, NothingTyped DEF FileTyped, FlightGood, MemoryInv, Typed, RecordsGood, diskVars
  <2>6. FileGood'
    BY <2>1, NoneGood DEF FileGood, EmptyFile, NoRows, MemoryInv, RecordsGood, diskVars
  <2>. QED BY <2>1, <2>3, <2>4, <2>5, <2>6, IdleKeeps
<1>. QED BY <1>1, <1>2
-----------------------------------------------------------------------------
(* The typed and true memory, of every behaviour.                          *)
LEMMA MemoryInvariant == CacheSpec => []MemoryInv
<1>1. MemoryInv /\ [CacheNext]_cacheVars => MemoryInv'
  <2>. SUFFICES ASSUME MemoryInv, [CacheNext]_cacheVars PROVE MemoryInv'
    OBVIOUS
  <2>1. CASE Library
    BY <2>1, WorldKeeps, HostKeeps DEF Library
  <2>2. CASE Inspection
    BY <2>2, StatSourceKeeps, HashKeeps, StatPackKeeps, ReadPackKeeps DEF Inspection
  <2>3. CASE HostCalls
    BY <2>3, ListKeeps, SavingKeeps DEF HostCalls
  <2>4. CASE Startup \/ Load \/ Shutdown \/ Uninstall \/ HostDies
    BY <2>4, ActivationsKeep
  <2>5. CASE \E t \in 1..Activations : WriteLands(t) \/ WriteFails(t)
    BY <2>5, LandingKeeps, FailingKeeps
  <2>6. CASE UNCHANGED cacheVars
    BY <2>6 DEF cacheVars, diskVars, MemoryInv, Typed, DiskTyped, PluginTyped, MemoTyped, LookTyped, FileTyped,
       RecordsGood, PacksDated, CacheGood, FileGood, FlightGood, SawDated, AgeIsReal, HitsTellTruth, HashedInTime
  <2>. QED BY <2>1, <2>2, <2>3, <2>4, <2>5, <2>6 DEF CacheNext
<1>. QED BY <1>1, CacheStarts, PTL DEF CacheSpec

(* Whatever files change between two awaits of an inspection, whatever a   *)
(* dead host or an activation let go of leaves in the file, and whatever   *)
(* versions the file holds rows of: the verdict inspect() gives from       *)
(* memory is the one reading that pack would give, and the source hash it  *)
(* goes by was computed inside the trust window.                           *)
THEOREM MemoryIsTrue == CacheSpec => []MemoryStandsUp
<1>1. MemoryInv => MemoryStandsUp
  BY DEF MemoryInv, MemoryStandsUp
<1>. QED BY <1>1, MemoryInvariant, PTL
-----------------------------------------------------------------------------
(* The file                                                                *)

(* A file this activation alone has written since it compacted it holds    *)
(* what the cache holds, but for what is still to be written.              *)
SavedRows == \A k \in Keys \ cache.dirty : file.rows[plugin.versions][k] = cache.records[k]
NoOtherRows == \A v \in Versions \ {plugin.versions}, k \in Keys : file.rows[v][k] = NoRecord
FileOwned == cache.compact = FALSE /\ file.corrupt = FALSE /\ file.by = {plugin.token} => SavedRows /\ NoOtherRows
(* What has compacted has written.                                         *)
Written == cache.compact = FALSE => file.by # {}
(* The write waited for is of the cache as it is; no other write is of     *)
(* this activation.                                                        *)
OfCache(write) == /\ write.compact = cache.compact /\ write.keys = Changes(cache)
                  /\ write.records = cache.records /\ write.versions = plugin.versions
OwnWrites == /\ plugin.at = "saving" => OfCache(flight[plugin.token])
             /\ plugin.at \in {"loading", "up"} => flight[plugin.token] = NoWrite
             /\ \A t \in 1..Activations : t > plugin.token => flight[t] = NoWrite

FileInv == /\ plugin.at \in {"up", "saving"} => FileOwned /\ Written
           /\ OwnWrites

(* What a cache may become between two saves: what differs is to be        *)
(* written.                                                                *)
Tracked(c, d) == /\ d.compact = c.compact
                 /\ \A k \in Keys \ d.dirty : k \notin c.dirty /\ d.records[k] = c.records[k]

(* So of each of its operations.                                           *)
LEMMA OperationsTracked ==
  ASSUME NEW c \in Caches
  PROVE  /\ \A k \in Keys : Tracked(c, Drop(c, k))
         /\ \A k \in Keys : \A hash, versions : Tracked(c, Checked(c, k, hash, versions))
         /\ \A k \in Keys : \A record : Tracked(c, Remember(c, k, record))
         /\ \A kept : Tracked(c, Prune(c, kept))
         /\ \A k \in Keys : Tracked(c, [c EXCEPT !.dirty = @ \cup {k}])
         /\ Tracked(c, c)
<1>1. \A k \in Keys : Tracked(c, Drop(c, k))
  BY DEF Drop, Tracked, Caches, Rows
<1>2. Tracked(c, c)
  BY DEF Tracked
<1>3. \A k \in Keys : \A hash, versions : Tracked(c, Checked(c, k, hash, versions))
  BY <1>1, <1>2 DEF Checked
<1>4. \A k \in Keys : \A record : Tracked(c, Remember(c, k, record))
  BY DEF Remember, Tracked, Caches, Rows
<1>5. \A kept : Tracked(c, Prune(c, kept))
  BY DEF Prune, Tracked, Caches, Rows
<1>6. \A k \in Keys : Tracked(c, [c EXCEPT !.dirty = @ \cup {k}])
  BY DEF Tracked, Caches
<1>. QED BY <1>1, <1>2, <1>3, <1>4, <1>5, <1>6

(* A tracked change of the cache, with the file and the writes as they are,*)
(* keeps what the file says.                                               *)
LEMMA TrackedKeeps ==
  ASSUME FileInv, plugin.at = "up", UNCHANGED <<plugin, file, flight>>, Tracked(cache, cache')
  PROVE  FileInv'
<1>1. FileOwned' /\ Written'
  BY DEF FileInv, FileOwned, Written, SavedRows, NoOtherRows, Tracked
<1>. QED BY <1>1 DEF FileInv, OwnWrites

(* An inspection changes the cache so.                                     *)
LEMMA InspectionTracked ==
  ASSUME Typed, Inspection PROVE plugin.at = "up" /\ UNCHANGED <<plugin, file, flight>> /\ Tracked(cache, cache')
<1>1. plugin.at = "up" /\ UNCHANGED <<plugin, file, flight>> /\ cache \in Caches
  BY DEF Inspection, StatSource, HashKnown, HashComputed, StatPack, ReadPack, Inspecting, Resting, Up, Typed, PluginTyped
<1>2. ASSUME NEW k \in Keys, StatSource(k) PROVE Tracked(cache, cache')
  BY <1>1, <1>2, OperationsTracked DEF StatSource
<1>3. CASE HashKnown \/ HashComputed
  BY <1>1, <1>3, OperationsTracked DEF HashKnown, HashComputed
<1>4. CASE StatPack
  <2>1. look.key \in Keys
    BY <1>4 DEF StatPack, Typed, LookTyped
  <2>. QED BY <1>1, <1>4, <2>1, OperationsTracked DEF StatPack
<1>5. CASE ReadPack
  <2> DEFINE status == Reading(Taken.pack, look.hash, plugin.versions)
  <2>1. look.key \in Keys
    BY <1>5 DEF ReadPack, Typed, LookTyped
  <2>2. status \in {"invalid-pack", "stale", "empty-pack", "current"}
    BY DEF Reading
  <2>3. CASE status \in {"current", "empty-pack"}
    BY <1>1, <1>5, <2>1, <2>3, OperationsTracked DEF ReadPack
  <2>4. CASE status = "stale"
    BY <1>1, <1>5, <2>1, <2>4, OperationsTracked DEF ReadPack
  <2>5. CASE status = "invalid-pack"
    BY <1>1, <1>5, <2>5, OperationsTracked DEF ReadPack
  <2>. QED BY <2>2, <2>3, <2>4, <2>5
<1>. QED BY <1>1, <1>2, <1>3, <1>4, <1>5 DEF Inspection
(* A save of a tracked cache: the write under way is of it.                *)
LEMMA SaveOwned ==
  ASSUME Typed, FileInv, plugin.at = "up", NEW c \in Caches, Tracked(cache, c), Save(c) PROVE FileInv'
<1>1. cache' = c /\ UNCHANGED file
  BY DEF Save
<1>2. CASE UNCHANGED <<flight, plugin>>
  BY <1>1, <1>2, TrackedKeeps
<1>3. CASE ~UNCHANGED <<flight, plugin>>
  <2>1. /\ flight' = [flight EXCEPT ![plugin.token] = [compact |-> c.compact, keys |-> Changes(c),
                                                      records |-> c.records, versions |-> plugin.versions]]
        /\ plugin' = [plugin EXCEPT !.at = "saving"]
    BY <1>3 DEF Save
  <2>2. /\ plugin.token \in 1..Activations /\ plugin'.token = plugin.token /\ plugin'.at = "saving"
        /\ plugin'.versions = plugin.versions
    BY <2>1, CacheAssumption DEF Typed, PluginTyped
  <2>3. FileOwned' /\ Written'
    BY <1>1, <2>2 DEF FileInv, FileOwned, Written, SavedRows, NoOtherRows, Tracked
  <2>4. OfCache(flight[plugin.token])'
    BY <1>1, <2>1, <2>2 DEF OfCache, Typed, FileTyped
  <2>5. \A t \in 1..Activations : t > plugin.token => flight'[t] = NoWrite
    BY <2>1, <2>2 DEF FileInv, OwnWrites, Typed, FileTyped
  <2>. QED BY <2>2, <2>3, <2>4, <2>5 DEF FileInv, OwnWrites
<1>. QED BY <1>2, <1>3

(* The host's calls.                                                       *)
LEMMA CallsOwned ==
  ASSUME Typed, FileInv, HostCalls PROVE FileInv'
<1>1. plugin.at = "up" /\ cache \in Caches
  BY DEF HostCalls, List, CensusCut, CensusComplete, Observed, Resting, Up, Typed, PluginTyped
<1>2. CASE List
  <2>1. CASE metadata = plugin.versions
    <3>1. UNCHANGED <<plugin, file, flight, cache>>
      BY <1>2, <2>1 DEF List, Typed, PluginTyped
    <3>. QED BY <1>1, <3>1, OperationsTracked, TrackedKeeps
  <2>2. CASE metadata # plugin.versions
    <3>1. plugin' = [plugin EXCEPT !.versions = metadata] /\ cache' = Blank /\ UNCHANGED <<file, flight>>
      BY <1>2, <2>2 DEF List
    <3>2. cache'.compact = TRUE /\ plugin'.token = plugin.token /\ plugin'.at = "up"
      BY <1>1, <3>1 DEF Blank, Typed, PluginTyped
    <3>. QED BY <1>1, <3>1, <3>2 DEF FileInv, FileOwned, Written, OwnWrites
  <2>. QED BY <2>1, <2>2
<1>3. CASE CensusCut
  BY <1>1, <1>3, OperationsTracked, TrackedKeeps DEF CensusCut
<1>4. CASE CensusComplete
  BY <1>1, <1>4, OperationsTracked, PruneKeeps, SaveOwned DEF CensusComplete
<1>5. CASE Observed
  <2>1. look.key \in Keys
    BY <1>5 DEF Observed, Typed, LookTyped
  <2>2. [cache EXCEPT !.dirty = @ \cup {look.key}] \in Caches
    BY <1>1, <2>1 DEF Caches
  <2>. QED BY <1>1, <1>5, <2>1, <2>2, OperationsTracked, SaveOwned DEF Observed
<1>. QED BY <1>2, <1>3, <1>4, <1>5 DEF HostCalls

(* The end of a write, of this activation or another.                      *)
LEMMA EndsOwn ==
  ASSUME Typed, FileInv, NEW t \in 1..Activations, flight[t] # NoWrite,
         flight' = [flight EXCEPT ![t] = NoWrite], plugin'.token = plugin.token,
         plugin'.at = IF Issued(t) THEN "up" ELSE plugin.at,
         plugin'.versions = plugin.versions, ~Issued(t) => UNCHANGED cache
  PROVE  OwnWrites'
<1>1. \A u \in 1..Activations : flight'[u] = (IF u = t THEN NoWrite ELSE flight[u])
  BY DEF Typed, FileTyped
<1>2. CASE Issued(t)
  BY <1>1, <1>2 DEF OwnWrites, FileInv, Issued
<1>3. CASE ~Issued(t)
  <2>1. plugin.at \in {"loading", "up", "saving"} => plugin.token \in 1..Activations /\ plugin.token # t
    BY <1>3, CacheAssumption DEF FileInv, OwnWrites, Issued, Typed, PluginTyped
  <2>2. plugin'.at = plugin.at
    BY <1>3
  <2>3. plugin.at \in {"loading", "up", "saving"} => flight'[plugin.token] = flight[plugin.token]
    BY <1>1, <2>1
  <2>4. plugin.at = "saving" => OfCache(flight[plugin.token])'
    BY <1>3, <2>3 DEF OwnWrites, OfCache, FileInv
  <2>5. plugin.at \in {"loading", "up"} => flight'[plugin.token] = NoWrite
    BY <2>3 DEF OwnWrites, FileInv
  <2>6. \A u \in 1..Activations : u > plugin.token => flight'[u] = NoWrite
    BY <1>1 DEF OwnWrites, FileInv
  <2>. QED BY <2>2, <2>4, <2>5, <2>6 DEF OwnWrites
<1>. QED BY <1>2, <1>3

(* A write of another activation takes the file away.                      *)
LEMMA OthersDisown ==
  ASSUME Typed, FileInv, NEW t \in 1..Activations, ~Issued(t), flight[t] # NoWrite, UNCHANGED <<cache, plugin>>,
         UNCHANGED file \/ t \in file'.by
  PROVE  plugin'.at \in {"up", "saving"} => FileOwned' /\ Written'
<1>1. CASE UNCHANGED file
  BY <1>1 DEF FileInv, FileOwned, Written, SavedRows, NoOtherRows
<1>2. CASE t \in file'.by
  <2>1. plugin.at \in {"up", "saving"} => plugin.token # t
    BY DEF FileInv, OwnWrites, Issued
  <2>. QED BY <1>2, <2>1 DEF FileOwned, Written
<1>. QED BY <1>1, <1>2

(* A write of this activation, landed.                                     *)
LEMMA LandingOwned ==
  ASSUME Typed, FileInv, NEW t \in 1..Activations, WriteLands(t) PROVE FileInv'
<1>1. flight[t] # NoWrite /\ flight' = [flight EXCEPT ![t] = NoWrite]
  BY DEF WriteLands, Ends
<1>2. CASE ~Issued(t)
  <2>1. UNCHANGED <<cache, plugin>>
    BY <1>2 DEF WriteLands
  <2>2. t \in file'.by
    <3>1. PICK keys : file' = Appended(t, flight[t], keys, FALSE) \/ file' = Compacted(t, flight[t])
      BY Zenon DEF WriteLands
    <3>. QED BY <3>1 DEF Appended, Compacted
  <2>. QED BY <1>1, <1>2, <2>1, <2>2, EndsOwn, OthersDisown DEF FileInv
<1>3. CASE Issued(t)
  <2>1. /\ plugin.at = "saving" /\ plugin.token = t /\ OfCache(flight[t])
        /\ cache' = Saved(cache, flight[t]) /\ plugin' = [plugin EXCEPT !.at = "up"]
    BY <1>3 DEF WriteLands, Issued, FileInv, OwnWrites
  <2>2. /\ plugin'.at = "up" /\ plugin'.token = t /\ plugin'.versions = plugin.versions
        /\ plugin.versions \in Versions /\ cache \in Caches /\ flight[t] \in Pending
    BY <2>1 DEF Typed, PluginTyped, FileTyped
  <2>3. /\ cache'.records = cache.records /\ cache'.dirty = cache.dirty \ Changes(cache)
        /\ cache'.compact = FALSE
    BY <2>1, <2>2 DEF Saved, OfCache, Caches
  <2>4. cache'.dirty = {}
    BY <2>2, <2>3 DEF Changes, Caches
  <2>5. FileOwned' /\ Written'
    <3>1. CASE flight[t].compact
      <4>1. file' = Compacted(t, flight[t]) /\ cache.compact
        BY <2>1, <3>1, Zenon DEF WriteLands, OfCache
      <4>2. file'.by = {t} /\ file'.rows = With(NoRows, flight[t], Changes(cache))
        BY <2>1, <4>1 DEF Compacted, OfCache
      <4>3. \A k \in Keys \ Changes(cache) : cache.records[k] = NoRecord
        BY <4>1 DEF Changes
      <4>4. \A k \in Keys : file'.rows[plugin.versions][k] = cache.records[k]
        BY <2>1, <2>2, <4>2, <4>3 DEF With, OfCache, NoRows
      <4>5. \A v \in Versions \ {plugin.versions}, k \in Keys : file'.rows[v][k] = NoRecord
        BY <2>1, <2>2, <4>2 DEF With, OfCache, NoRows
      <4>. QED BY <2>2, <2>3, <4>2, <4>4, <4>5 DEF FileOwned, Written, SavedRows, NoOtherRows
    <3>2. CASE ~flight[t].compact
      <4>1. PICK keys \in Legible(flight[t]) : file' = Appended(t, flight[t], keys, FALSE)
        BY <3>2, Zenon DEF WriteLands
      <4>2. file'.by = file.by \cup {t} /\ file'.rows = With(file.rows, flight[t], keys)
            /\ file'.corrupt = (file.corrupt \/ file.cut)
        BY <4>1 DEF Appended
      <4>3. cache.compact = FALSE /\ Changes(cache) = cache.dirty
        BY <2>1, <2>2, <3>2 DEF OfCache, Changes, Caches
      <4>4. ASSUME file'.corrupt = FALSE, file'.by = {t} PROVE SavedRows' /\ NoOtherRows'
        <5>1. file.corrupt = FALSE /\ file.cut = FALSE
          BY <4>2, <4>4 DEF Typed, FileTyped, Files
        <5>2. keys = cache.dirty
          BY <2>1, <4>1, <4>3, <5>1 DEF Legible, OfCache
        <5>3. file.by = {t}
          BY <2>1, <4>2, <4>3, <4>4 DEF FileInv, Written
        <5>4. SavedRows /\ NoOtherRows
          BY <2>1, <4>3, <5>1, <5>3 DEF FileInv, FileOwned
        <5>5. file.rows \in [Versions -> Rows]
          BY DEF Typed, FileTyped, Files
        <5>. QED BY <2>1, <2>2, <2>3, <4>2, <5>2, <5>4, <5>5 DEF SavedRows, NoOtherRows, With, OfCache, Rows
      <4>. QED BY <2>2, <4>2, <4>4 DEF FileOwned, Written
    <3>. QED BY <3>1, <3>2
  <2>6. OwnWrites'
    BY <1>1, <1>3, <2>1, <2>2, EndsOwn
  <2>. QED BY <2>5, <2>6 DEF FileInv
<1>. QED BY <1>2, <1>3
(* A write that fails.                                                     *)
LEMMA FailingOwned ==
  ASSUME Typed, FileInv, NEW t \in 1..Activations, WriteFails(t) PROVE FileInv'
<1>1. flight[t] # NoWrite /\ flight' = [flight EXCEPT ![t] = NoWrite] /\ UNCHANGED cache
  BY DEF WriteFails, Ends
<1>2. CASE ~Issued(t)
  <2>1. UNCHANGED <<cache, plugin>>
    BY <1>2 DEF WriteFails
  <2>2. UNCHANGED file \/ t \in file'.by
    <3>1. UNCHANGED file \/ \E keys, cut : file' = Appended(t, flight[t], keys, cut)
      BY Zenon DEF WriteFails, Partly
    <3>. QED BY <3>1 DEF Appended
  <2>. QED BY <1>1, <1>2, <2>1, <2>2, EndsOwn, OthersDisown DEF FileInv
<1>3. CASE Issued(t)
  <2>1. /\ plugin.at = "saving" /\ plugin.token = t /\ OfCache(flight[t])
        /\ plugin' = [plugin EXCEPT !.at = "up"]
    BY <1>3 DEF WriteFails, Issued, FileInv, OwnWrites
  <2>2. /\ plugin'.at = "up" /\ plugin'.token = t /\ plugin'.versions = plugin.versions
        /\ plugin.versions \in Versions /\ cache \in Caches /\ flight[t] \in Pending
    BY <2>1 DEF Typed, PluginTyped, FileTyped
  <2>3. FileOwned' /\ Written'
    <3>1. CASE UNCHANGED file
      BY <1>1, <2>1, <2>2, <3>1 DEF FileInv, FileOwned, Written, SavedRows, NoOtherRows
    <3>2. CASE ~UNCHANGED file
      <4>1. PICK keys \in SUBSET flight[t].keys, cut \in BOOLEAN : file' = Appended(t, flight[t], keys, cut)
        BY <3>2, Zenon DEF WriteFails, Partly
      <4>2. ~flight[t].compact
        BY <3>2, Zenon DEF WriteFails, Partly
      <4>3. file'.by = file.by \cup {t} /\ file'.rows = With(file.rows, flight[t], keys)
            /\ file'.corrupt = (file.corrupt \/ cut \/ file.cut)
        BY <4>1 DEF Appended
      <4>4. cache.compact = FALSE /\ keys \in SUBSET cache.dirty
        BY <2>1, <2>2, <4>1, <4>2 DEF OfCache, Changes, Caches
      <4>5. ASSUME file'.corrupt = FALSE, file'.by = {t} PROVE SavedRows' /\ NoOtherRows'
        <5>1. file.corrupt = FALSE
          BY <4>3, <4>5 DEF Typed, FileTyped, Files
        <5>2. file.by = {t}
          BY <2>1, <4>3, <4>4, <4>5 DEF FileInv, Written
        <5>3. SavedRows /\ NoOtherRows
          BY <2>1, <4>4, <5>1, <5>2 DEF FileInv, FileOwned
        <5>4. file.rows \in [Versions -> Rows]
          BY DEF Typed, FileTyped, Files
        <5>. QED BY <1>1, <2>1, <2>2, <4>3, <4>4, <5>3, <5>4 DEF SavedRows, NoOtherRows, With, OfCache, Rows
      <4>. QED BY <2>2, <4>3, <4>5 DEF FileOwned, Written
    <3>. QED BY <3>1, <3>2
  <2>4. OwnWrites'
    BY <1>1, <1>3, <2>1, <2>2, EndsOwn
  <2>. QED BY <2>3, <2>4 DEF FileInv
<1>. QED BY <1>2, <1>3

(* Activations: the next one owns no write, and has not compacted.         *)
LEMMA ActivationsOwned ==
  ASSUME Typed, FileInv, Startup \/ Load \/ Shutdown \/ Uninstall \/ HostDies PROVE FileInv'
<1>1. CASE Startup
  <2>1. /\ plugin'.token = plugin.token + 1 /\ plugin'.at = "loading" /\ UNCHANGED flight
        /\ plugin.token \in 0..Activations /\ plugin.token < Activations
    BY <1>1 DEF Startup, Typed, PluginTyped
  <2>. QED BY <2>1, CacheAssumption DEF FileInv, OwnWrites
<1>2. CASE Load
  <2>1. /\ plugin'.token = plugin.token /\ plugin.at = "loading" /\ plugin'.at = "up" /\ cache'.compact = TRUE
        /\ UNCHANGED flight
    BY <1>2 DEF Load, Typed, PluginTyped, Blank
  <2>. QED BY <2>1 DEF FileInv, OwnWrites, FileOwned, Written
<1>3. CASE Shutdown \/ Uninstall \/ HostDies
  <2>1. plugin'.at \in {"down", "dead"} /\ plugin'.token = plugin.token /\ UNCHANGED flight
    BY <1>3 DEF Shutdown, Uninstall, HostDies, Typed, PluginTyped
  <2>. QED BY <2>1 DEF FileInv, OwnWrites
<1>. QED BY <1>1, <1>2, <1>3

(* With nothing left to write, no broken line and no write of another      *)
(* activation, reading the file gives the cache back: whichever writes     *)
(* failed, in whole or in part, and whatever was dropped, pruned or        *)
(* replaced since (saveCache(), createSDTCache()).                         *)
THEOREM FileIsMemory == CacheSpec => []FileFollowsMemory
<1>1. CacheInit => FileInv
  BY DEF CacheInit, FileInv, OwnWrites
<1>2. MemoryInv /\ FileInv /\ [CacheNext]_cacheVars => FileInv'
  <2>. SUFFICES ASSUME Typed, FileInv, [CacheNext]_cacheVars PROVE FileInv'
    BY DEF MemoryInv
  <2>1. CASE Library \/ UNCHANGED cacheVars
    <3>1. UNCHANGED <<plugin, cache, file, flight>>
      BY <2>1 DEF Library, SourceRewritten, RewrittenInPlace, SourceGone, PackWritten, PackGone, World, HostUpdated,
         Tick, cacheVars
    <3>. QED BY <3>1 DEF FileInv, FileOwned, Written, SavedRows, NoOtherRows, OwnWrites, OfCache
  <2>2. CASE Inspection
    BY <2>2, InspectionTracked, TrackedKeeps
  <2>3. CASE HostCalls
    BY <2>3, CallsOwned
  <2>4. CASE Startup \/ Load \/ Shutdown \/ Uninstall \/ HostDies
    BY <2>4, ActivationsOwned
  <2>5. CASE \E t \in 1..Activations : WriteLands(t) \/ WriteFails(t)
    BY <2>5, LandingOwned, FailingOwned
  <2>. QED BY <2>1, <2>2, <2>3, <2>4, <2>5 DEF CacheNext
<1>3. MemoryInv /\ FileInv => FileFollowsMemory
  <2>. SUFFICES ASSUME Typed, FileInv, Up, cache.dirty = {}, ~cache.compact, ~file.corrupt, file.by = {plugin.token}
                PROVE  file.rows = [NoRows EXCEPT ![plugin.versions] = cache.records]
    BY DEF FileFollowsMemory, MemoryInv
  <2>1. SavedRows /\ NoOtherRows
    BY DEF Up, FileInv, FileOwned, Typed, PluginTyped, Caches, FileTyped, Files
  <2>2. plugin.versions \in Versions /\ cache.records \in Rows /\ file.rows \in [Versions -> Rows]
    BY DEF Typed, PluginTyped, Caches, FileTyped, Files
  <2>3. file.rows[plugin.versions] = cache.records
    BY <2>1, <2>2 DEF SavedRows, Rows
  <2>4. \A v \in Versions \ {plugin.versions} : file.rows[v] = [k \in Keys |-> NoRecord]
    BY <2>1, <2>2 DEF NoOtherRows, Rows
  <2>. QED BY <2>2, <2>3, <2>4 DEF NoRows
<1>. QED BY <1>1, <1>2, <1>3, MemoryInvariant, PTL DEF CacheSpec
=============================================================================
