------------------------------ MODULE BlockCache -----------------------------
(***************************************************************************)
(* One LRU pool of the storage node's block cache                          *)
(* (storage-node/src/block_cache.rs): a map of nodes linked by keys into a *)
(* list from the most to the least recently used, with a byte budget.  In  *)
(* the Filter pool a block resists eviction FILTER_RESIST_COUNT times: it  *)
(* goes back to the head instead.  A key stands for its option: <<>> is    *)
(* None.  The pool's lock makes each call one step.                        *)
(***************************************************************************)
EXTENDS Integers, Sequences, FiniteSets, FiniteSetsExt

CONSTANTS
  BlockKeys, BlockSizes,
  TotalBytes,        \* total_max_bytes of the cache, shared by the three pools
  FilterResistCount  \* FILTER_RESIST_COUNT

VARIABLES pool  \* [kind, map, head, tail, used]

poolVars == <<pool>>

\* BlockCacheInner::new: 70 %, 20 % and the rest.
PoolBytes(kind) ==
  LET data == (TotalBytes * 70) \div 100
      filter == (TotalBytes * 20) \div 100 IN
  [Data |-> data, Filter |-> filter, Index |-> (TotalBytes - data) - filter][kind]

Node(size, resist, next) == [size |-> size, resist |-> resist, prev |-> <<>>, next |-> next]
SetPrev(map, k, v) == IF k # <<>> /\ k[1] \in DOMAIN map THEN [map EXCEPT ![k[1]].prev = v] ELSE map
SetNext(map, k, v) == IF k # <<>> /\ k[1] \in DOMAIN map THEN [map EXCEPT ![k[1]].next = v] ELSE map

\* move_to_head: unlink the node and put it before the old head.
MutMoveToHead(p, k) ==
  IF p.head = <<k>> THEN p
  ELSE LET prev == p.map[k].prev
           next == p.map[k].next
           linked == SetPrev(SetPrev(SetNext(p.map, prev, next), next, prev), p.head, <<k>>) IN
       [p EXCEPT !.map = [linked EXCEPT ![k].prev = <<>>, ![k].next = p.head], !.head = <<k>>]

MoveToHead(p, k) ==
  IF p.head = <<k>> THEN p
  ELSE LET prev == p.map[k].prev
           next == p.map[k].next
           linked == SetPrev(SetPrev(SetNext(p.map, prev, next), next, prev), p.head, <<k>>) IN
       [p EXCEPT !.map = [linked EXCEPT ![k].prev = <<>>, ![k].next = p.head],
                 !.head = <<k>>,
                 !.tail = IF next = <<>> THEN prev ELSE @]

\* try_evict_tail.
EvictTail(p) ==
  LET k == p.tail[1]
      node == p.map[k] IN
  IF p.kind = "Filter" /\ node.resist > 0
  THEN MoveToHead([p EXCEPT !.map[k].resist = @ - 1], k)
  ELSE [p EXCEPT !.map = SetNext([x \in DOMAIN p.map \ {k} |-> p.map[x]], node.prev, <<>>),
                 !.used = @ - node.size,
                 !.tail = node.prev,
                 !.head = IF node.prev = <<>> THEN <<>> ELSE @]

\* insert's loop makes room for a block, at most once round for each
\* resistance left; then the block becomes the head.
Room(p, size) == p.used + size <= PoolBytes(p.kind) \/ p.tail = <<>>
RECURSIVE MakeRoom(_, _)
MakeRoom(p, size) == IF Room(p, size) THEN p ELSE MakeRoom(EvictTail(p), size)

PushHead(p, k, size) ==
  LET node == Node(size, IF p.kind = "Filter" THEN FilterResistCount ELSE 0, p.head)
      linked == SetPrev(p.map, p.head, <<k>>) IN
  [p EXCEPT !.map = [x \in DOMAIN p.map \union {k} |-> IF x = k THEN node ELSE linked[x]],
            !.head = <<k>>,
            !.tail = IF p.head = <<>> THEN <<k>> ELSE @,
            !.used = @ + size]

\* A block that is there is replaced in place: no room is made for it.
InsertBlock(k, size) ==
  pool' = IF k \in DOMAIN pool.map
          THEN MoveToHead([pool EXCEPT !.used = (@ - pool.map[k].size) + size, !.map[k].size = size], k)
          ELSE PushHead(MakeRoom(pool, size), k, size)

GetBlock(k) == k \in DOMAIN pool.map /\ pool' = MoveToHead(pool, k)

PoolInit == pool \in [kind : {"Data", "Filter", "Index"}, map : {<< >>}, head : {<<>>}, tail : {<<>>}, used : {0}]
PoolNext == \E k \in BlockKeys : GetBlock(k) \/ \E size \in BlockSizes : InsertBlock(k, size)

-------------------------------------------------------------------------------
NextOf(k) == pool.map[k].next
ReachedFrom(k) ==
  LET n == Cardinality(DOMAIN pool.map)
      walk[i \in 0 .. n] == IF i = 0 THEN <<k>> ELSE IF walk[i - 1] = <<>> THEN <<>> ELSE NextOf(walk[i - 1][1]) IN
  walk

\* The links always form one list of all blocks: from head along next every
\* block is met once and the last is tail, prev is the inverse of next, and
\* used_bytes is the sum of the sizes.  So no block is lost from the list
\* (it could never be evicted) and the eviction loop ends.
LruListSound ==
  LET keys == DOMAIN pool.map
      n == Cardinality(keys) IN
  /\ pool.used = MapThenSumSet(LAMBDA k : pool.map[k].size, keys)
  /\ (pool.head = <<>>) = (keys = {}) /\ (pool.tail = <<>>) = (keys = {})
  /\ keys # {} =>
       LET walk == ReachedFrom(pool.head[1]) IN
       /\ {walk[i] : i \in 0 .. n - 1} = {<<k>> : k \in keys}
       /\ walk[n] = <<>> /\ walk[n - 1] = pool.tail
       /\ pool.map[pool.head[1]].prev = <<>>
       /\ \A k \in keys : NextOf(k) # <<>> => pool.map[NextOf(k)[1]].prev = <<k>>
==============================================================================
