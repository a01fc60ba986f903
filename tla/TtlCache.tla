------------------------------- MODULE TtlCache -------------------------------
(***************************************************************************)
(* TtlStorage and TtlCacheService of packages/client-db, with the callers  *)
(* that write to the cache or drop from it: the registry of tokens, the    *)
(* multicall balances of erc20-abstract.service.ts, and the refresh button *)
(* of the profile template.  What a key stands for changes over time; its  *)
(* states are numbered, and a cached value is known by the number.  A call *)
(* is one read through the cache, with the refresh it leaves behind.       *)
(***************************************************************************)
EXTENDS Naturals, FiniteSets

CONSTANTS
  Lists,        \* the keys that hold a balance per contract
  Registry,     \* the key of the user's tokens
  Contracts,    \* the contracts balances are asked for
  MaxVersion,   \* bound on the changes of a key
  MaxCalls,     \* bound on the calls
  MaxRefreshes, \* bound on the uses of the refresh button
  MaxWrites,    \* bound on the writes to the registry
  MaxFaults     \* bound on the requests that fail

ASSUME TtlAssumption ==
  /\ Registry \notin Lists
  /\ MaxVersion \in Nat \ {0} /\ MaxCalls \in Nat
  /\ MaxRefreshes \in Nat /\ MaxWrites \in Nat /\ MaxFaults \in Nat

Keys == Lists \cup {Registry}
Calls == 1..MaxCalls
Versions == 1..MaxVersion

VARIABLES
  truth,     \* key -> its state at the canister or on the chain
  cached,    \* key -> the state the store holds, 0 for none
  parts,     \* key -> the contracts the stored value has
  fresh,     \* key -> Date.now() <= expiry
  started,   \* the calls so far
  key, wants, \* call -> what it asks for
  phase,     \* call -> what it awaits
  back,      \* call -> it has returned, and refreshes in the background
  fetched,   \* call -> the state its fetch was answered with
  got,       \* call -> the state it returned, 0 for none
  zeros,     \* call -> the contracts it returned a zero for, for want of data
  asOf,      \* call -> a reader may count on nothing older than this
  refresh,   \* refreshPortfolio: what it awaits
  matching,  \* refreshPortfolio: the keys it found
  refreshes, \* refreshPortfolio: its uses
  since,     \* refreshPortfolio: key -> its state at the start, 0 if disturbed
  todo,      \* storeICRC1Canister: the promises of Promise.all under way
  calm,      \* storeICRC1Canister: no call on the registry since its start
  writes,    \* storeICRC1Canister: its uses
  floor,     \* key -> its state at the last undisturbed refresh or write
  faults     \* the requests that failed so far

store == <<cached, parts, fresh>>
asked == <<started, key, wants, asOf>>
answers == <<phase, back, fetched, got, zeros>>
calls == <<asked, answers>>
button == <<refresh, matching, refreshes, since>>
registry == <<todo, calm, writes>>
vars == <<truth, store, calls, button, registry, floor, faults>>

Phases == {"none", "read", "look", "prune", "fetch", "store", "over"}

TruthTypes == truth \in [Keys -> Versions] /\ floor \in [Keys -> 0..MaxVersion]

StoreTypes ==
  /\ cached \in [Keys -> 0..MaxVersion]
  /\ parts \in [Keys -> SUBSET Contracts]
  /\ fresh \in [Keys -> BOOLEAN]

AskTypes ==
  /\ started \in 0..MaxCalls
  /\ key \in [Calls -> Keys]
  /\ wants \in [Calls -> SUBSET Contracts]
  /\ asOf \in [Calls -> 0..MaxVersion]

AnswerTypes ==
  /\ phase \in [Calls -> Phases]
  /\ back \in [Calls -> BOOLEAN]
  /\ fetched \in [Calls -> 0..MaxVersion]
  /\ got \in [Calls -> 0..MaxVersion]
  /\ zeros \in [Calls -> SUBSET Contracts]

RefreshTypes ==
  /\ refresh \in {"idle", "keys", "remove", "stuck"}
  /\ matching \subseteq Keys /\ refreshes \in 0..MaxRefreshes
  /\ since \in [Keys -> 0..MaxVersion]

WriteTypes ==
  /\ todo \subseteq {"update", "remove"} /\ calm \in BOOLEAN
  /\ writes \in 0..MaxWrites

FaultTypes == faults \in 0..MaxFaults

\* What is stored was the state of the key at some time.
Stored ==
  /\ \A k \in Keys : cached[k] <= truth[k]
  /\ \A c \in Calls : phase[c] = "store" => fetched[c] \in 1..truth[key[c]]

TypeOK ==
  /\ TruthTypes /\ StoreTypes /\ AskTypes /\ AnswerTypes
  /\ RefreshTypes /\ WriteTypes /\ FaultTypes /\ Stored

\* The store is a database: an earlier page may have left values, of all the
\* contracts.
Init ==
  /\ truth = [k \in Keys |-> 1]
  /\ cached \in [Keys -> {0, 1}]
  /\ parts = [k \in Keys |-> IF k \in Lists /\ cached[k] # 0 THEN Contracts
                             ELSE {}]
  /\ fresh = [k \in Keys |-> cached[k] # 0]
  /\ started = 0
  /\ key = [c \in Calls |-> Registry] /\ wants = [c \in Calls |-> {}]
  /\ phase = [c \in Calls |-> "none"] /\ back = [c \in Calls |-> FALSE]
  /\ fetched = [c \in Calls |-> 0] /\ got = [c \in Calls |-> 0]
  /\ zeros = [c \in Calls |-> {}] /\ asOf = [c \in Calls |-> 0]
  /\ refresh = "idle" /\ matching = {} /\ refreshes = 0
  /\ since = [k \in Keys |-> 0]
  /\ todo = {} /\ calm = FALSE /\ writes = 0
  /\ floor = [k \in Keys |-> 0]
  /\ faults = 0

Fault == faults < MaxFaults /\ faults' = faults + 1
NoFault == UNCHANGED faults

-----------------------------------------------------------------------------
(* The canisters, the chains and the clock *)

Change(k) ==
  /\ truth[k] < MaxVersion
  /\ truth' = [truth EXCEPT ![k] = @ + 1]
  /\ UNCHANGED <<store, calls, button, registry, floor, faults>>

Expire(k) ==
  /\ cached[k] # 0 /\ fresh[k]
  /\ fresh' = [fresh EXCEPT ![k] = FALSE]
  /\ UNCHANGED <<truth, cached, parts, calls, button, registry, floor, faults>>

-----------------------------------------------------------------------------
(* Reads through the cache *)

Active(c) == phase[c] \notin {"none", "over"}

\* getMultipleTokenBalancesQueue: a request like one under way shares its
\* promise, and is no call of its own.
Shared(k, w) ==
  /\ k \in Lists
  /\ \E c \in Calls : Active(c) /\ ~back[c] /\ key[c] = k /\ wants[c] = w

\* getOrFetch of the registry, with forceRefetch or without, or
\* getMultipleTokenBalances for the contracts in w.
Ask(k, w, force) ==
  /\ started < MaxCalls
  /\ k = Registry => w = {}
  /\ k \in Lists => w # {} /\ ~force
  /\ ~Shared(k, w)
  /\ LET c == started + 1
     IN /\ started' = c
        /\ key' = [key EXCEPT ![c] = k] /\ wants' = [wants EXCEPT ![c] = w]
        /\ phase' = [phase EXCEPT ![c] = IF force THEN "fetch" ELSE "read"]
        /\ asOf' = [asOf EXCEPT ![c] = IF force THEN truth[k] ELSE floor[k]]
  /\ calm' = (calm /\ k # Registry)
  /\ UNCHANGED <<truth, store, back, fetched, got, zeros, button, todo, writes,
                 floor, faults>>

Awaits(c, what) == phase' = [phase EXCEPT ![c] = what]

\* The promise of the call resolves with a state and with zeros.
Returns(c, version, missing) ==
  /\ got' = [got EXCEPT ![c] = version]
  /\ zeros' = [zeros EXCEPT ![c] = missing]

NoReturn == UNCHANGED <<got, zeros>>

\* A rejection is the call's, or nobody's after it has returned.
Rejects(c) == Awaits(c, "over") /\ Fault /\ NoReturn

\* fetchAndUpdateCacheBalances looks into the store once more.
Refetch(k) == IF k \in Lists THEN "look" ELSE "fetch"

\* getEvenExpired: a miss, or a list that lacks a contract, is fetched; an
\* expired value is returned, and refreshed in the background.
ReadCache(c) ==
  LET k == key[c]
      hit == cached[k] # 0 /\ wants[c] \subseteq parts[k]
  IN /\ phase[c] = "read"
     /\ \/ /\ hit /\ fresh[k]
           /\ Awaits(c, "over") /\ Returns(c, cached[k], {})
           /\ NoFault /\ UNCHANGED back
        \/ /\ hit /\ ~fresh[k]
           /\ Awaits(c, Refetch(k)) /\ Returns(c, cached[k], {})
           /\ back' = [back EXCEPT ![c] = TRUE] /\ NoFault
        \/ /\ ~hit
           /\ Awaits(c, Refetch(k)) /\ NoReturn /\ NoFault /\ UNCHANGED back
        \/ Rejects(c) /\ UNCHANGED back
     /\ UNCHANGED <<truth, store, asked, fetched, button, registry, floor>>

\* TtlStorage.get, of fetchAndUpdateCacheBalances: a fresh list is the answer,
\* whatever it lacks.
Look(c) ==
  LET k == key[c]
  IN /\ phase[c] = "look"
     /\ \/ /\ cached[k] # 0 /\ fresh[k]
           /\ Awaits(c, "over") /\ NoFault
           /\ IF back[c] THEN NoReturn
              ELSE Returns(c, cached[k], wants[c] \ parts[k])
        \/ /\ cached[k] # 0 /\ ~fresh[k]
           /\ Awaits(c, "prune") /\ NoReturn /\ NoFault
        \/ cached[k] = 0 /\ Awaits(c, "fetch") /\ NoReturn /\ NoFault
        \/ Rejects(c)
     /\ UNCHANGED <<truth, store, asked, back, fetched, button, registry, floor>>

\* TtlStorage.remove
Drop(k) ==
  /\ cached' = [cached EXCEPT ![k] = 0]
  /\ parts' = [parts EXCEPT ![k] = {}]
  /\ fresh' = [fresh EXCEPT ![k] = FALSE]

\* TtlStorage.get removes what it found expired, whatever is stored by now.
Prune(c) ==
  /\ phase[c] = "prune"
  /\ \/ Drop(key[c]) /\ Awaits(c, "fetch") /\ NoReturn /\ NoFault
     \/ Rejects(c) /\ UNCHANGED store
  /\ UNCHANGED <<truth, asked, back, fetched, button, registry, floor>>

\* The canister or the chain answers the fetch.
Serve_NotAwaited(c) ==
  /\ phase[c] = "fetch"
  /\ Awaits(c, "store") /\ NoFault /\ NoReturn
  /\ UNCHANGED <<truth, store, asked, back, fetched, button, registry, floor>>

Serve(c) ==
  /\ phase[c] = "fetch"
  /\ \/ /\ fetched' = [fetched EXCEPT ![c] = truth[key[c]]]
        /\ Awaits(c, "store") /\ NoFault /\ NoReturn
     \/ Rejects(c) /\ UNCHANGED fetched
  /\ UNCHANGED <<truth, store, asked, back, button, registry, floor>>

\* TtlStorage.set: the list that was fetched replaces the one stored.
Save_SkipsEmpty(c, k) ==
  /\ cached' = [cached EXCEPT ![k] = fetched[c]]
  /\ \E some \in SUBSET wants[c] : parts' = [parts EXCEPT ![k] = some]
  /\ fresh' = [fresh EXCEPT ![k] = TRUE]

Save(c, k) ==
  /\ cached' = [cached EXCEPT ![k] = fetched[c]]
  /\ parts' = [parts EXCEPT ![k] = wants[c]]
  /\ fresh' = [fresh EXCEPT ![k] = TRUE]

\* A call whose value cannot be stored rejects, although it was fetched.
Put(c) ==
  /\ phase[c] = "store"
  /\ \/ /\ Save(c, key[c]) /\ Awaits(c, "over") /\ NoFault
        /\ IF back[c] THEN NoReturn ELSE Returns(c, fetched[c], {})
     \/ Rejects(c) /\ UNCHANGED store
  /\ UNCHANGED <<truth, asked, back, fetched, button, registry, floor>>

-----------------------------------------------------------------------------
(* storeICRC1Canister: the update and the removal run side by side *)

StartWrite ==
  /\ writes < MaxWrites /\ todo = {} /\ truth[Registry] < MaxVersion
  /\ writes' = writes + 1
  /\ todo' = {"update", "remove"}
  /\ calm' = \A c \in Calls : key[c] = Registry => ~Active(c)
  /\ UNCHANGED <<truth, store, calls, button, floor, faults>>

\* Promise.all resolves with the last of its promises.
Resolves(p, version) ==
  /\ p \in todo /\ todo' = todo \ {p}
  /\ floor' = IF todo = {p} /\ calm
              THEN [floor EXCEPT ![Registry] = version] ELSE floor

\* Promise.all rejects; its other promise goes on.
Breaks(p) ==
  /\ p \in todo /\ todo' = todo \ {p}
  /\ calm' = FALSE /\ Fault /\ UNCHANGED floor

UpdateRegistry ==
  /\ \/ /\ truth[Registry] < MaxVersion
        /\ truth' = [truth EXCEPT ![Registry] = @ + 1]
        /\ Resolves("update", truth[Registry] + 1) /\ NoFault /\ UNCHANGED calm
     \/ Breaks("update") /\ UNCHANGED truth
  /\ UNCHANGED <<store, calls, button, writes>>

RemoveFromCache_Skipped ==
  /\ Resolves("remove", truth[Registry]) /\ NoFault
  /\ UNCHANGED <<truth, store, calls, button, calm, writes>>

RemoveFromCache ==
  /\ \/ /\ Drop(Registry) /\ Resolves("remove", truth[Registry])
        /\ NoFault /\ UNCHANGED calm
     \/ Breaks("remove") /\ UNCHANGED store
  /\ UNCHANGED <<truth, calls, button, writes>>

-----------------------------------------------------------------------------
(* refreshPortfolio: isRefreshing, invalidate, then the reads again *)

\* The call holds a state that it has not stored yet.
Holds(c, k) == phase[c] = "store" /\ key[c] = k

Press ==
  /\ refresh = "idle" /\ refreshes < MaxRefreshes
  /\ refresh' = "keys" /\ refreshes' = refreshes + 1
  /\ UNCHANGED <<truth, store, calls, matching, since, registry, floor, faults>>

\* An await without a catch: isRefreshing stays set.
Sticks == refresh' = "stuck" /\ Fault /\ UNCHANGED <<matching, since>>

\* getAllKeys, and the filter by prefixes
FindKeys ==
  /\ refresh = "keys"
  /\ \/ /\ matching' = {k \in Keys : cached[k] # 0}
        /\ since' = [k \in Keys |-> IF \E c \in Calls : Holds(c, k) THEN 0
                                    ELSE truth[k]]
        /\ refresh' = "remove" /\ NoFault
     \/ Sticks
  /\ UNCHANGED <<truth, store, calls, refreshes, registry, floor>>

\* removeAll; isRefreshing is reset, and the reads that follow are calls.
RemoveKeys ==
  /\ refresh = "remove"
  /\ \/ /\ cached' = [k \in Keys |-> IF k \in matching THEN 0 ELSE cached[k]]
        /\ parts' = [k \in Keys |-> IF k \in matching THEN {} ELSE parts[k]]
        /\ fresh' = [k \in Keys |-> fresh[k] /\ k \notin matching]
        /\ floor' = [k \in Keys |-> IF since[k] > floor[k] THEN since[k]
                                    ELSE floor[k]]
        /\ refresh' = "idle" /\ NoFault
        /\ matching' = {} /\ since' = [k \in Keys |-> 0]
     \/ Sticks /\ UNCHANGED <<store, floor>>
  /\ UNCHANGED <<truth, calls, refreshes, registry>>

-----------------------------------------------------------------------------
Step(c) == ReadCache(c) \/ Look(c) \/ Prune(c) \/ Serve(c) \/ Put(c)

Next ==
  \/ \E k \in Keys : Change(k) \/ Expire(k)
  \/ \E k \in Keys, w \in SUBSET Contracts, f \in BOOLEAN : Ask(k, w, f)
  \/ \E c \in Calls : Step(c)
  \/ StartWrite \/ UpdateRegistry \/ RemoveFromCache
  \/ Press \/ FindKeys \/ RemoveKeys

Spec == Init /\ [][Next]_vars

-----------------------------------------------------------------------------
(* Properties *)

\* A call that starts after a refresh or a write is over sees what it saw or
\* wrote, unless the refresh met a fetched value on its way to the store, or
\* the write ran side by side with a call; and forceRefetch sees the present.
\* The keys are looked up and removed in two steps, expired values are served,
\* and old fetches store late.
ReadsSeeCompletedChanges ==
  \A c \in Calls : got[c] # 0 => got[c] >= asOf[c]

\* A contract is given a zero for want of data only because a call for other
\* contracts has replaced the list.
ZeroNeedsAnotherList ==
  \A c \in Calls : \A p \in zeros[c] :
    \E d \in Calls : key[d] = key[c] /\ p \notin wants[d] /\ fetched[d] # 0
=============================================================================
