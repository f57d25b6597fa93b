---------------------------- MODULE MetadataCaches ---------------------------
(***************************************************************************)
(* The read-through caches and the races between filling and changing what *)
(* they cache:                                                             *)
(*   "shard"  ShardMap           query-node/src/meta/shard_map.rs          *)
(*   "meta"   MetadataCache      query-node/src/meta/cache.rs              *)
(*   "result" QueryResultCache   compute-node/src/result_cache.rs          *)
(*   "dict"   GlobalDictManager  query-node/src/meta/global_dict.rs        *)
(* A behaviour is about one of them, `which'.  A version is the number of  *)
(* writes so far; changedAt[v] is when version v was written.  Each lock   *)
(* is held for one step; the awaits in between are where calls interleave. *)
(***************************************************************************)
EXTENDS Replicas, FiniteSets

CONSTANTS
  Callers,
  MaxVersions, MaxTicks,  \* bounds on the writes and the clock
  CacheTtl,               \* CACHE_TTL, MAX_STATS_STALENESS, default_ttl
  ShardEntries,           \* version v is the replicas ShardEntries[v]: [node, role, state, lsn]
  PlanHashes, MaxEntries, \* queries, max_entries of the result cache
  DictValues, MaxNdv      \* strings to encode, max_ndv

VARIABLES
  which, clock,
  changedAt, \* when each version was written
  known,     \* meta: current_raft_index
  cached,    \* shard, meta: <<>> or <<entry>>; result: key -> entry; dict: <<>> or <<dict>>
  dictKv,    \* dict: <<>> or <<dict>> in the Raft store
  call,      \* the call each caller is in: [op, ver, at, value]
  lag,       \* the longest a fill has taken
  fillRaced,     \* a fill has stored what was read before a change
  reply      \* the last answer

cacheVars == <<which, clock, changedAt, known, cached, dictKv, call, lag, fillRaced, reply>>

Version == Len(changedAt)
NoCall == [op |-> "idle", ver |-> 0, at |-> 0, value |-> 0]
CallAt(c, op) == call[c].op = op
IsFresh(e) == clock - e.at < CacheTtl
Entry(ver, idx) == [ver |-> ver, idx |-> idx, at |-> clock]
Return(c, ver) == call' = [call EXCEPT ![c] = NoCall] /\ reply' = [ver |-> ver, at |-> clock, known |-> known, value |-> 0]
Start(c, op, ver, value) ==
  CallAt(c, "idle") /\ call' = [call EXCEPT ![c] = [op |-> op, ver |-> ver, at |-> clock, value |-> value]]
Took(c) == lag' = Max({lag, clock - call[c].at})

-------------------------------------------------------------------------------
\* register writes the backing map, then the cache.
Register(c) ==
  /\ Version < MaxVersions /\ Start(c, "register", Version + 1, 0)
  /\ changedAt' = Append(changedAt, clock)
  /\ UNCHANGED <<known, cached, dictKv, lag, fillRaced, reply>>
RegisterCache(c) ==
  /\ CallAt(c, "register")
  /\ cached' = <<Entry(call[c].ver, 0)>> /\ call' = [call EXCEPT ![c] = NoCall] /\ Took(c)
  /\ fillRaced' = (fillRaced \/ call[c].ver < Version)
  /\ UNCHANGED <<changedAt, known, dictKv, reply>>

\* lookup: a fresh cached entry with a usable replica answers; otherwise the
\* entry is fetched, and stored when the caller runs again.
ShardHit == cached # <<>> /\ IsFresh(cached[1]) /\ BestReplica(ShardEntries[cached[1].ver]) # <<>>
LookupHit(c) ==
  /\ CallAt(c, "idle") /\ ShardHit /\ Return(c, cached[1].ver)
  /\ UNCHANGED <<changedAt, known, cached, dictKv, lag, fillRaced>>
LookupFetch(c) ==
  /\ ~ShardHit /\ Version > 0 /\ BestReplica(ShardEntries[Version]) # <<>>
  /\ Start(c, "lookup", Version, 0)
  /\ UNCHANGED <<changedAt, known, cached, dictKv, lag, fillRaced, reply>>
LookupFill(c) ==
  /\ CallAt(c, "lookup")
  /\ cached' = <<Entry(call[c].ver, 0)>> /\ Return(c, call[c].ver) /\ Took(c)
  /\ fillRaced' = (fillRaced \/ call[c].ver < Version)
  /\ UNCHANGED <<changedAt, known, dictKv>>
\* get_shard_entry answers from the cache or the store and stores nothing.
GetShardEntry(c) ==
  /\ CallAt(c, "idle") /\ Version > 0
  /\ Return(c, IF cached # <<>> /\ IsFresh(cached[1]) THEN cached[1].ver ELSE Version)
  /\ UNCHANGED <<changedAt, known, cached, dictKv, lag, fillRaced>>
Invalidate == cached # <<>> /\ cached' = <<>> /\ UNCHANGED <<changedAt, known, dictKv, call, lag, fillRaced, reply>>

-------------------------------------------------------------------------------
\* MetadataCache.  A DDL statement is committed in Raft at the next index; the
\* commit callback advances the index later and, on the node that ran it,
\* invalidate_ddl removes the entry.  Get answers only with an entry tagged at
\* or after the index the node knows.
IsValid(e) == e.idx >= known
CommitDdl == Version < MaxVersions /\ changedAt' = Append(changedAt, clock) /\ UNCHANGED <<known, cached, dictKv, call, lag, fillRaced, reply>>
AdvanceRaftIndex(i) ==
  /\ i > known /\ known' = i
  /\ UNCHANGED <<changedAt, cached, dictKv, call, lag, fillRaced, reply>>
MutMetaGet(c) ==
  /\ CallAt(c, "idle") /\ cached # <<>> /\ Return(c, cached[1].ver)
  /\ UNCHANGED <<changedAt, known, cached, dictKv, lag, fillRaced>>
MetaGet(c) ==
  /\ CallAt(c, "idle") /\ cached # <<>> /\ IsValid(cached[1]) /\ Return(c, cached[1].ver)
  /\ UNCHANGED <<changedAt, known, cached, dictKv, lag, fillRaced>>
MetaFetch(c) ==
  /\ ~(cached # <<>> /\ IsValid(cached[1]))
  /\ Start(c, "fetch", Version, 0)
  /\ UNCHANGED <<changedAt, known, cached, dictKv, lag, fillRaced, reply>>
\* put_ddl tags the value with the index known now, not with the index at
\* which it was read.
PutDdl(c) ==
  /\ CallAt(c, "fetch")
  /\ cached' = <<Entry(call[c].ver, known)>> /\ Return(c, call[c].ver) /\ Took(c)
  /\ fillRaced' = (fillRaced \/ call[c].ver < known)
  /\ UNCHANGED <<changedAt, known, dictKv>>
EvictExpired ==
  /\ cached # <<>> /\ ~IsValid(cached[1]) /\ cached' = <<>>
  /\ UNCHANGED <<changedAt, known, dictKv, call, lag, fillRaced, reply>>

-------------------------------------------------------------------------------
\* QueryResultCache.  A query is planned with the partition version of that
\* moment, which is part of its key; on a miss it scans later and stores the
\* result under that key.  A write makes a new version, then
\* invalidate_by_partition drops every entry that names the partition.
CacheKeyNew(plan, ver) == <<plan, ver>>
EntryExpired(e) == clock - e.at > CacheTtl
LessKeys(f, ks) == [k \in DOMAIN f \ ks |-> f[k]]
PlanQuery(c, plan) ==
  /\ Start(c, "planned", Version, plan)
  /\ UNCHANGED <<changedAt, known, cached, dictKv, lag, fillRaced, reply>>
QueryKey(c) == CacheKeyNew(call[c].value, call[c].ver)
ResultGet(c) ==
  LET key == QueryKey(c) IN
  /\ CallAt(c, "planned")
  /\ IF key \in DOMAIN cached /\ ~EntryExpired(cached[key])
     THEN /\ reply' = [ver |-> call[c].ver, at |-> 0, known |-> 0, value |-> cached[key].ver]
          /\ call' = [call EXCEPT ![c] = NoCall]
          /\ UNCHANGED cached
     ELSE /\ cached' = LessKeys(cached, {key})
          /\ call' = [call EXCEPT ![c].op = "miss"]
          /\ UNCHANGED reply
  /\ UNCHANGED <<changedAt, known, dictKv, lag, fillRaced>>
ScanPartition(c) ==
  /\ CallAt(c, "miss") /\ call' = [call EXCEPT ![c].op = "scanned", ![c].at = Version]
  /\ UNCHANGED <<changedAt, known, cached, dictKv, lag, fillRaced, reply>>
\* put at capacity: evict the expired entries, then the oldest, even when the
\* key itself is there.
ResultPut(c) ==
  /\ CallAt(c, "scanned")
  /\ LET live == IF Cardinality(DOMAIN cached) >= MaxEntries
                 THEN LessKeys(cached, {k \in DOMAIN cached : EntryExpired(cached[k])}) ELSE cached
         full == Cardinality(DOMAIN live) >= MaxEntries
         oldest == {k \in DOMAIN live : \A j \in DOMAIN live : live[k].at <= live[j].at} IN
     \E gone \in IF full THEN {{k} : k \in oldest} ELSE {{}} :
       cached' = [k \in (DOMAIN live \ gone) \union {QueryKey(c)} |->
                    IF k = QueryKey(c) THEN Entry(call[c].at, 0) ELSE live[k]]
  /\ call' = [call EXCEPT ![c] = NoCall]
  /\ UNCHANGED <<changedAt, known, dictKv, lag, fillRaced, reply>>
InvalidateByPartition ==
  /\ cached # << >> /\ cached' = << >>
  /\ UNCHANGED <<changedAt, known, dictKv, call, lag, fillRaced, reply>>
EvictExpiredResults ==
  /\ \E k \in DOMAIN cached : EntryExpired(cached[k])
  /\ cached' = LessKeys(cached, {k \in DOMAIN cached : EntryExpired(cached[k])})
  /\ UNCHANGED <<changedAt, known, dictKv, call, lag, fillRaced, reply>>

-------------------------------------------------------------------------------
\* GlobalDictManager for one column.  A dictionary is the sequence of its
\* strings; the code of a string is its position.  encode assigns codes in the
\* cached dictionary, a new one when nothing is cached (it does not load the
\* stored one), and persists a copy after releasing the lock.  The reply's
\* `known' collects the codes handed out, as <<code, string>>.
\* `fillRaced' is set where codes can be lost: encode starts a dictionary although
\* one is stored, a fill replaces a longer dictionary or loads one that lacks a
\* code in use, the dictionary is dropped.
CodeOf(dict, v) == Min({i \in DOMAIN dict : dict[i] = v} \union {Len(dict) + 1})
CachedDict == IF cached = <<>> THEN <<>> ELSE cached[1]
CodesInUse == {p[1] : p \in reply.known} \union {call[c].ver : c \in {x \in Callers : CallAt(x, "persist")}}
StartEncode(c, v, grown) ==
  LET code == CodeOf(CachedDict, v) IN
  /\ code <= MaxNdv \* otherwise the dictionary overflows and nothing changes
  /\ Start(c, "persist", code, <<v, grown>>)
  /\ cached' = <<grown>>
  /\ fillRaced' = (fillRaced \/ (cached = <<>> /\ (dictKv # <<>> \/ CodesInUse # {})))
  /\ UNCHANGED <<changedAt, known, dictKv, lag, reply>>
Encode(c, v) ==
  StartEncode(c, v, IF v \in ToSet(CachedDict) THEN CachedDict ELSE Append(CachedDict, v))
PersistDict(c) ==
  /\ CallAt(c, "persist")
  /\ dictKv' = <<call[c].value[2]>>
  /\ reply' = [reply EXCEPT !.known = @ \union {<<call[c].ver, call[c].value[1]>>}]
  /\ call' = [call EXCEPT ![c] = NoCall]
  /\ UNCHANGED <<changedAt, known, cached, lag, fillRaced>>

\* get_or_create_dict on a miss: load the stored dictionary, or store an empty
\* one; then put it into the cache.  decode uses it.
LoadDict(c) ==
  /\ cached = <<>> /\ dictKv # <<>> /\ Start(c, "fill", 0, dictKv[1])
  /\ UNCHANGED <<changedAt, known, cached, dictKv, lag, fillRaced, reply>>
CreateDict(c) ==
  /\ cached = <<>> /\ dictKv = <<>> /\ Start(c, "create", 0, <<>>)
  /\ UNCHANGED <<changedAt, known, cached, dictKv, lag, fillRaced, reply>>
PersistNewDict(c) ==
  /\ CallAt(c, "create")
  /\ call' = [call EXCEPT ![c].op = "fill"] /\ dictKv' = <<<<>>>>
  /\ UNCHANGED <<changedAt, known, cached, lag, fillRaced, reply>>
FillDict(c) ==
  /\ CallAt(c, "fill")
  /\ cached' = <<call[c].value>> /\ call' = [call EXCEPT ![c] = NoCall]
  /\ fillRaced' = (fillRaced \/ Len(CachedDict) > Len(call[c].value) \/ \E n \in CodesInUse : n > Len(call[c].value))
  /\ UNCHANGED <<changedAt, known, dictKv, lag, reply>>
\* drop_column_dict; drop_cube_dicts scans a prefix no dictionary has.
DropColumnDict(c) ==
  /\ Start(c, "drop", 0, 0) /\ dictKv' = <<>> /\ fillRaced' = TRUE
  /\ UNCHANGED <<changedAt, known, cached, lag, reply>>
DropCached(c) ==
  /\ CallAt(c, "drop") /\ cached' = <<>> /\ call' = [call EXCEPT ![c] = NoCall]
  /\ UNCHANGED <<changedAt, known, dictKv, lag, fillRaced, reply>>

-------------------------------------------------------------------------------
Tick ==
  /\ clock < MaxTicks /\ clock' = clock + 1
  /\ UNCHANGED <<which, changedAt, known, cached, dictKv, call, lag, fillRaced, reply>>
ShardNext ==
  \/ Invalidate
  \/ \E c \in Callers : Register(c) \/ RegisterCache(c) \/ LookupHit(c) \/ LookupFetch(c) \/ LookupFill(c) \/ GetShardEntry(c)
MetaNext ==
  \/ CommitDdl \/ Invalidate \/ EvictExpired
  \/ \E i \in 1 .. Version : AdvanceRaftIndex(i)
  \/ \E c \in Callers : MetaGet(c) \/ MetaFetch(c) \/ PutDdl(c)
ResultNext ==
  \/ CommitDdl \/ InvalidateByPartition \/ EvictExpiredResults
  \/ \E c \in Callers : (\E plan \in PlanHashes : PlanQuery(c, plan)) \/ ResultGet(c) \/ ScanPartition(c) \/ ResultPut(c)
DictNext ==
  \/ Invalidate
  \/ \E c \in Callers : \/ \E v \in DictValues : Encode(c, v)
                        \/ PersistDict(c) \/ LoadDict(c) \/ CreateDict(c) \/ PersistNewDict(c)
                        \/ FillDict(c) \/ DropColumnDict(c) \/ DropCached(c)

CachesInit ==
  /\ which \in {"shard", "meta", "result", "dict"}
  /\ clock = 0 /\ changedAt = <<>> /\ known = 0 /\ cached = <<>> /\ dictKv = <<>>
  /\ call = [c \in Callers |-> NoCall] /\ lag = 0 /\ fillRaced = FALSE
  /\ reply = [ver |-> 0, at |-> 0, known |-> {}, value |-> 0]
CachesNext ==
  \/ which \in {"shard", "result"} /\ Tick
  \/ /\ UNCHANGED <<which, clock>>
     /\ \/ which = "shard" /\ ShardNext
        \/ which = "meta" /\ MetaNext
        \/ which = "result" /\ ResultNext
        \/ which = "dict" /\ DictNext

-------------------------------------------------------------------------------
\* What each cache promises its reader, at every interleaving of reads and
\* writes.  ShardMap: a lookup's replica is that of an entry replaced less than
\* CACHE_TTL ago, plus the longest time a fill took.  MetadataCache: a DDL value
\* is never older than the Raft index the node knows, unless a fill stored a
\* value read before an advance.  QueryResultCache: a hit is never older than
\* the versions in its key, and the entry limit holds.  GlobalDictManager:
\* every code handed out keeps decoding to its string, unless codes were lost
\* in one of the ways `fillRaced' records.
CachedAnswersSound ==
  /\ which = "shard" /\ reply.ver \in 1 .. Version - 1 =>
       reply.at - changedAt[reply.ver + 1] < CacheTtl + lag
  /\ which = "meta" /\ ~fillRaced /\ reply.ver > 0 => reply.ver >= reply.known
  /\ which = "result" => /\ Cardinality(DOMAIN cached) <= Max({1, MaxEntries})
                         /\ reply.value >= reply.ver
  /\ which = "dict" /\ ~fillRaced /\ cached # <<>> =>
       \A p \in reply.known : p[1] \in DOMAIN CachedDict /\ CachedDict[p[1]] = p[2]
==============================================================================
