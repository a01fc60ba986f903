-------------------------- MODULE CompositeTtlCache --------------------------
(***************************************************************************)
(* CompositeTtlCacheStorage: a memory cache in front of an IndexedDB store *)
(* (packages/integration/src/lib/cache/composite-ttl-cache-storage.ts).    *)
(* Callers enqueue operations; a promise chain runs them one at a time.    *)
(* Every call of the store is an await that may reject.  A page reload     *)
(* loses the memory, the queue and the flag, and keeps the store.          *)
(***************************************************************************)
EXTENDS Naturals, Sequences

CONSTANTS
  Entries,   \* cache keys
  Values,    \* what callers store
  NoItem,    \* the absence of an item
  Ttl,       \* lifetime of a new item, in ticks
  MaxTime,   \* bound on the clock
  MaxQueue,  \* bound on the operations waiting in the promise chain
  MayReject  \* whether requests to IndexedDB may fail

ASSUME BoundsAssumption ==
  /\ Ttl \in Nat /\ MaxTime \in Nat /\ MaxQueue \in Nat \ {0}
  /\ MayReject \in BOOLEAN
  /\ NoItem \notin [value : Values, expires : Nat]

VARIABLES
  storage,         \* key -> item: the IndexedDB store, kept across reloads
  memoryCache,     \* key -> item: the Map of this page
  isInitialized,   \* the store was loaded into memoryCache
  operationQueue,  \* operations not settled yet, the running one first
  expiredKeys,     \* keys the running load is about to remove from the store
  pruning,         \* the running load awaits storage.removeAll
  now,             \* Date.now()
  written,         \* key -> item of the last setItem that resolved (history)
  answer           \* what the last getItem resolved to (history)

cacheVars == <<storage, memoryCache, isInitialized, operationQueue, expiredKeys,
               pruning, now, written, answer>>

Items == [value : Values, expires : 0..(MaxTime + Ttl)]
Contents == [Entries -> Items \cup {NoItem}]
Empty == [k \in Entries |-> NoItem]

GetOp(k) == [kind |-> "get", key |-> k, item |-> NoItem]
SetOp(k, item) == [kind |-> "set", key |-> k, item |-> item]
ClearOp == [kind |-> "clear", key |-> NoItem, item |-> NoItem]

Operations ==
  {GetOp(k) : k \in Entries} \cup {ClearOp}
    \cup {SetOp(k, item) : k \in Entries, item \in Items \cup {NoItem}}

CacheTypeOK ==
  /\ storage \in Contents
  /\ memoryCache \in Contents
  /\ isInitialized \in BOOLEAN
  /\ operationQueue \in Seq(Operations) /\ Len(operationQueue) <= MaxQueue
  /\ expiredKeys \subseteq Entries
  /\ pruning \in BOOLEAN
  /\ now \in 0..MaxTime
  /\ written \in Contents
  /\ answer \in [key : Entries \cup {NoItem}, item : Items \cup {NoItem}]

NoAnswer == [key |-> NoItem, item |-> NoItem]

CacheInit ==
  /\ storage = Empty
  /\ memoryCache = Empty
  /\ isInitialized = FALSE
  /\ operationQueue = <<>>
  /\ expiredKeys = {}
  /\ pruning = FALSE
  /\ now = 0
  /\ written = Empty
  /\ answer = NoAnswer

-----------------------------------------------------------------------------
(* Callers *)

Enqueue(op) ==
  /\ Len(operationQueue) < MaxQueue
  /\ operationQueue' = Append(operationQueue, op)
  /\ UNCHANGED <<storage, memoryCache, isInitialized, expiredKeys, pruning,
                 now, written, answer>>

GetItem == \E k \in Entries : Enqueue(GetOp(k))

SetItem ==
  \E k \in Entries :
    \/ \E v \in Values : Enqueue(SetOp(k, [value |-> v, expires |-> now + Ttl]))
    \/ Enqueue(SetOp(k, NoItem))

Clear == Enqueue(ClearOp)

-----------------------------------------------------------------------------
(* The promise chain *)

\* A comparison that expires an item in its last tick.
isItemExpired_TooEarly(item) == item # NoItem /\ now >= item.expires

isItemExpired(item) == item # NoItem /\ now > item.expires

Running(kind) == operationQueue # <<>> /\ Head(operationQueue).kind = kind

\* The operation resolves; the chain goes on with the next one.
Settle ==
  /\ operationQueue' = Tail(operationQueue)
  /\ expiredKeys' = {} /\ pruning' = FALSE
  /\ UNCHANGED now

\* The operation rejects: the chain runs the next one all the same.
Reject == MayReject /\ Settle

Answer(k, contents) == answer' = [key |-> k, item |-> contents[k]]

GetFromMemory ==
  /\ Running("get") /\ isInitialized
  /\ Answer(Head(operationQueue).key, memoryCache)
  /\ Settle
  /\ UNCHANGED <<storage, memoryCache, isInitialized, written>>

\* memoryCache = new Map(validItems), once the store holds no other item
Populate ==
  LET validItems == [k \in Entries |-> IF k \in expiredKeys' THEN NoItem ELSE storage'[k]]
  IN  /\ memoryCache' = validItems
      /\ isInitialized' = TRUE
      /\ Answer(Head(operationQueue).key, validItems)

Loading == Running("get") /\ ~isInitialized

Expired == {k \in Entries : isItemExpired(storage[k])}

LoadWithoutExpired ==
  /\ Loading /\ ~pruning
  /\ Expired = {}
  /\ Settle
  /\ UNCHANGED <<storage, written>>
  /\ Populate

LoadPartition ==
  /\ Loading /\ ~pruning
  /\ Expired # {}
  /\ expiredKeys' = Expired
  /\ pruning' = TRUE
  /\ UNCHANGED <<storage, memoryCache, isInitialized, operationQueue, now,
                 written, answer>>

LoadPrune ==
  /\ Loading /\ pruning
  /\ storage' = [k \in Entries |-> IF k \in expiredKeys THEN NoItem ELSE storage[k]]
  /\ Settle
  /\ UNCHANGED written
  /\ Populate

\* storage.getAll or storage.removeAll rejects
LoadFails ==
  /\ Loading
  /\ Reject
  /\ UNCHANGED <<storage, memoryCache, isInitialized, written, answer>>

loadFromStorage == LoadWithoutExpired \/ LoadPartition \/ LoadPrune \/ LoadFails

\* A write that forgets the memory once it is loaded.
StoreItem_StoreOnly ==
  /\ Running("set") /\ Head(operationQueue).item # NoItem
  /\ LET op == Head(operationQueue)
     IN  /\ storage' = [storage EXCEPT ![op.key] = op.item]
         /\ written' = [written EXCEPT ![op.key] = op.item]
         /\ Settle
  /\ UNCHANGED <<memoryCache, isInitialized, answer>>

\* A write that puts the bare value into the memory, without its expiry.
StoreItem_BareValue ==
  /\ Running("set") /\ Head(operationQueue).item # NoItem
  /\ LET op == Head(operationQueue)
     IN  /\ storage' = [storage EXCEPT ![op.key] = op.item]
         /\ memoryCache' = [memoryCache EXCEPT ![op.key] = op.item.value]
         /\ written' = [written EXCEPT ![op.key] = op.item]
         /\ isInitialized' = TRUE
         /\ Settle
  /\ UNCHANGED answer

\* The store first, then the memory: a rejected write leaves both alone.
StoreItem ==
  /\ Running("set") /\ Head(operationQueue).item # NoItem
  /\ LET op == Head(operationQueue)
     IN  \/ /\ storage' = [storage EXCEPT ![op.key] = op.item]
            /\ memoryCache' = [memoryCache EXCEPT ![op.key] = op.item]
            /\ written' = [written EXCEPT ![op.key] = op.item]
            /\ isInitialized' = TRUE
            /\ Settle
         \/ /\ Reject
            /\ UNCHANGED <<storage, memoryCache, isInitialized, written>>
  /\ UNCHANGED answer

\* The memory first, then the store: a rejected removal leaves the stored item.
RemoveItem ==
  /\ Running("set") /\ Head(operationQueue).item = NoItem
  /\ LET k == Head(operationQueue).key
     IN  /\ memoryCache' = [memoryCache EXCEPT ![k] = NoItem]
         /\ \/ /\ storage' = [storage EXCEPT ![k] = NoItem]
               /\ written' = [written EXCEPT ![k] = NoItem]
               /\ Settle
            \/ UNCHANGED <<storage, written>> /\ Reject
  /\ UNCHANGED <<isInitialized, answer>>

ClearBoth ==
  /\ Running("clear")
  /\ \/ /\ storage' = Empty /\ memoryCache' = Empty /\ written' = Empty
        /\ isInitialized' = FALSE
        /\ Settle
     \/ Reject /\ UNCHANGED <<storage, memoryCache, isInitialized, written>>
  /\ UNCHANGED answer

enqueueOperation == GetFromMemory \/ loadFromStorage \/ StoreItem \/ RemoveItem \/ ClearBoth

-----------------------------------------------------------------------------
Tick ==
  /\ now < MaxTime
  /\ now' = now + 1
  /\ UNCHANGED <<storage, memoryCache, isInitialized, operationQueue,
                 expiredKeys, pruning, written, answer>>

Reload ==
  /\ memoryCache' = Empty
  /\ isInitialized' = FALSE
  /\ operationQueue' = <<>>
  /\ expiredKeys' = {} /\ pruning' = FALSE
  /\ answer' = NoAnswer
  /\ UNCHANGED <<storage, now, written>>

CacheNext == GetItem \/ SetItem \/ Clear \/ enqueueOperation \/ Tick \/ Reload

CacheSpec == CacheInit /\ [][CacheNext]_cacheVars

-----------------------------------------------------------------------------
(* Properties *)

\* What the memory serves is what a reload would find in the store: no
\* operation, failed or not, leaves an item in memory that the store lacks.
CacheBackedByStorage ==
  \A k \in Entries : memoryCache[k] # NoItem => storage[k] = memoryCache[k]

\* A write that resolved stays in the store until it expires or is removed,
\* whatever loads, failures and reloads come after it.
WriteIsDurable ==
  \A k \in Entries :
    written[k] # NoItem /\ now <= written[k].expires => storage[k] = written[k]

\* getItem never serves an overwritten or a removed item.
ServesLastWrite ==
  [][answer' # answer /\ answer'.item # NoItem
       => answer'.item = written'[answer'.key]]_cacheVars
=============================================================================
