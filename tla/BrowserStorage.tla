--------------------------- MODULE BrowserStorage ---------------------------
(***************************************************************************)
(* Where a page keeps what it stores (packages/client-db): every Storage    *)
(* and TtlStorage has an IndexedDB database of its own and a map in memory, *)
(* and is bound to one of them when it is first used.  doNotRememberMe      *)
(* moves the stores to memory and deletes the databases, or rolls back; a   *)
(* hard sign-out deletes them.  IndexedDB serves the requests for a         *)
(* database in order, and a deletion waits until every connection to it is  *)
(* closed, while the page waits 3 seconds.  Connections of other tabs are   *)
(* among what may make a request wait, for ever if they stay open.          *)
(* The content of a store is the number of the write that is in it.         *)
(***************************************************************************)
EXTENDS Naturals, Sequences, FiniteSets

CONSTANTS
    Stores,        \* the registered stores, each with its own database
    Pinned,        \* those with persistenceType [DISK]: wallets
    MaxWrites,     \* bound on the writes
    MaxOpens,      \* bound on the accesses that wait for the open of a database
    MaxSwitches,   \* bound on the calls of doNotRememberMe
    MaxWipes,      \* bound on the hard sign-outs
    Faults,        \* which requests may fail
    MaxFaults

FaultKinds == {"open", "copy", "delete"}

ASSUME ConstantsAssumption ==
    /\ IsFiniteSet(Stores) /\ Pinned \subseteq Stores
    /\ Faults \subseteq FaultKinds

ASSUME BoundsAssumption ==
    /\ MaxWrites \in Nat /\ MaxOpens \in Nat \ {0}
    /\ MaxSwitches \in Nat /\ MaxWipes \in Nat /\ MaxFaults \in Nat

VARIABLES
    disk,        \* store -> its row on disk, 0 when there is none
    requests,    \* store -> the requests for its database that are not served
    handles,     \* store -> connections to its database this page has open
    bound,       \* store -> initializedStore
    memory,      \* store -> its row in #memory
    mode,        \* storageModeState
    local,       \* the anchor is in window.localStorage
    localMemory, \* the anchor is in RememberMeLocalStorage.#memory
    phase,       \* where doNotRememberMe is
    copied,      \* stores it has copied
    wiping,      \* a hard sign-out waits for deleteAll
    written,     \* store -> the last write that resolved (history)
    atStart,     \* store -> what it served when the switch began (history)
    condemned,   \* stores whose database was asked to be deleted (history)
    fellBack,    \* stores that _db bound to memory (history)
    clock,       \* writes so far
    switches,
    wipes,
    faults

databases == <<disk, requests, handles>>
stores == <<bound, memory>>
modes == <<mode, local, localMemory>>
switching == <<phase, copied>>
history == <<written, atStart, condemned, fellBack>>
bounds == <<clock, switches, wipes, faults>>
vars == <<databases, stores, modes, switching, wiping, history, bounds>>

Deletions == {"delete", "wipe", "orphan"}
Requests == {"open", "copy"} \union Deletions

Nothing == [s \in Stores |-> 0]

\* getMemoryCapableStores without the filter.
MemoryCapable_All == Stores

MemoryCapable == Stores \ Pinned

\* What a read of the store resolves to.
Served(s) ==
    IF bound[s] = "memory" \/ (bound[s] = "none" /\ mode = "MEMORY")
    THEN memory[s] ELSE disk[s]

Fault(kind) ==
    /\ kind \in Faults /\ faults < MaxFaults
    /\ faults' = faults + 1

\* The oldest request for the database of s, and the queue without it.
Turn(s, request) == requests[s] # <<>> /\ Head(requests[s]) = request
Serve(s) == [requests EXCEPT ![s] = Tail(@)]
Ask(S, request) ==
    [s \in Stores |-> IF s \in S THEN Append(requests[s], request) ELSE requests[s]]

Waiting(s, request) ==
    {<<s, i>> : i \in {j \in 1..Len(requests[s]) : requests[s][j] = request}}
Waits(s, request) == \E i \in 1..Len(requests[s]) : requests[s][i] = request

\* Deletions that nobody waits for any more stay in the queue.
Orphaned(q, request) ==
    [s \in Stores |-> [i \in 1..Len(q[s]) |-> IF q[s][i] = request THEN "orphan" ELSE q[s][i]]]

-----------------------------------------------------------------------------
(* Storage and TtlStorage *)

\* The first access of a store opens its database; so does each further one
\* until the first handle is there.
Open(s) ==
    /\ bound[s] = "none" /\ mode = "DISK"
    /\ Cardinality(UNION {Waiting(t, "open") : t \in Stores}) < MaxOpens
    /\ requests' = Ask({s}, "open")
    /\ UNCHANGED <<disk, handles, stores, modes, switching, wiping, history, bounds>>

Opened(s) ==
    /\ Turn(s, "open")
    /\ requests' = Serve(s)
    /\ handles' = [handles EXCEPT ![s] = @ + 1]
    /\ bound' = [bound EXCEPT ![s] = "disk"]
    /\ UNCHANGED <<disk, memory, modes, switching, wiping, history, bounds>>

OpenFails(s) ==
    /\ Turn(s, "open") /\ Fault("open")
    /\ requests' = Serve(s)
    /\ bound' = [bound EXCEPT ![s] = "memory"]
    /\ fellBack' = fellBack \union {s}
    /\ UNCHANGED <<disk, handles, memory, modes, switching, wiping, written,
                   atStart, condemned, clock, switches, wipes>>

\* set of a store that is bound, or that is bound to memory by this access
\* because of the mode, whatever its persistenceType.
Write(s) ==
    /\ clock < MaxWrites
    /\ clock' = clock + 1
    /\ written' = [written EXCEPT ![s] = clock']
    /\ \/ /\ bound[s] = "disk"
          /\ disk' = [disk EXCEPT ![s] = clock']
          /\ UNCHANGED <<stores, fellBack>>
       \/ /\ bound[s] = "memory"
          /\ memory' = [memory EXCEPT ![s] = clock']
          /\ UNCHANGED <<disk, bound, fellBack>>
       \/ /\ bound[s] = "none" /\ mode = "MEMORY"
          /\ bound' = [bound EXCEPT ![s] = "memory"]
          /\ memory' = [memory EXCEPT ![s] = clock']
          /\ fellBack' = fellBack \union {s}
          /\ UNCHANGED disk
    /\ UNCHANGED <<requests, handles, modes, switching, wiping, atStart,
                   condemned, switches, wipes, faults>>

\* rememberMeLocalStorage.setItem(KEY_ANCHOR, ...), on each authState.set.
SetItem ==
    /\ \/ mode = "MEMORY" /\ localMemory' = TRUE /\ UNCHANGED local
       \/ mode = "DISK" /\ local' = TRUE /\ UNCHANGED localMemory
    /\ UNCHANGED <<databases, stores, mode, switching, wiping, history, bounds>>

-----------------------------------------------------------------------------
(* doNotRememberMe: copy *)

doNotRememberMe ==
    /\ phase = "none" /\ mode = "DISK" /\ switches < MaxSwitches
    /\ switches' = switches + 1
    /\ phase' = "copy"
    /\ atStart' = [s \in Stores |-> IF s \in MemoryCapable \ condemned THEN Served(s) ELSE 0]
    /\ UNCHANGED <<databases, stores, modes, copied, wiping, written, condemned,
                   fellBack, clock, wipes, faults>>

Copying == \E s \in Stores : Waits(s, "copy")

\* One store after the other; the order of registration is left open.
copyToMemory(s) ==
    /\ phase = "copy" /\ ~Copying
    /\ s \in MemoryCapable \ copied
    /\ \/ /\ bound[s] = "memory"
          /\ copied' = copied \union {s}
          /\ UNCHANGED requests
       \/ /\ bound[s] # "memory"
          /\ requests' = Ask({s}, "copy")
          /\ UNCHANGED copied
    /\ UNCHANGED <<disk, handles, stores, modes, phase, wiping, history, bounds>>

\* The rows are added to what #memory holds; the handle of the copy is closed.
Copied(s) ==
    /\ Turn(s, "copy")
    /\ requests' = Serve(s)
    /\ memory' = [memory EXCEPT ![s] = IF disk[s] = 0 THEN @ ELSE disk[s]]
    /\ copied' = copied \union {s}
    /\ UNCHANGED <<disk, handles, bound, modes, phase, wiping, history, bounds>>

CopyFails(s) ==
    /\ Turn(s, "copy") /\ Fault("copy")
    /\ requests' = Serve(s)
    /\ phase' = "none" /\ copied' = {}
    /\ atStart' = Nothing
    /\ UNCHANGED <<disk, handles, stores, modes, wiping, written, condemned,
                   fellBack, clock, switches, wipes>>

-----------------------------------------------------------------------------
(* doNotRememberMe: commit, delete, roll back *)

\* A commit that closes handles the stores do not have.
commitToMemory_ClosesTwice ==
    /\ phase = "copy" /\ copied = MemoryCapable
    /\ phase' = "delete" /\ copied' = {}
    /\ bound' = [s \in Stores |-> IF s \in MemoryCapable THEN "memory" ELSE bound[s]]
    /\ handles' = [s \in Stores |-> IF s \in MemoryCapable THEN handles[s] - 1 ELSE handles[s]]
    /\ requests' = Ask(MemoryCapable, "delete")
    /\ condemned' = condemned \union MemoryCapable
    /\ UNCHANGED <<disk, memory, modes, wiping, written, atStart, fellBack, bounds>>

\* A commit after the first copy.
commitToMemory_Early ==
    /\ phase = "copy" /\ copied # {}
    /\ phase' = "delete" /\ copied' = {}
    /\ bound' = [s \in Stores |-> IF s \in MemoryCapable THEN "memory" ELSE bound[s]]
    /\ handles' = [s \in Stores |-> IF s \in MemoryCapable /\ bound[s] = "disk"
                                    THEN handles[s] - 1 ELSE handles[s]]
    /\ requests' = Ask(MemoryCapable, "delete")
    /\ condemned' = condemned \union MemoryCapable
    /\ UNCHANGED <<disk, memory, modes, wiping, written, atStart, fellBack, bounds>>

\* The deletion starts in the same turn as the last commit.
commitToMemory ==
    /\ phase = "copy" /\ copied = MemoryCapable
    /\ phase' = "delete" /\ copied' = {}
    /\ bound' = [s \in Stores |-> IF s \in MemoryCapable THEN "memory" ELSE bound[s]]
    /\ handles' = [s \in Stores |-> IF s \in MemoryCapable /\ bound[s] = "disk"
                                    THEN handles[s] - 1 ELSE handles[s]]
    /\ requests' = Ask(MemoryCapable, "delete")
    /\ condemned' = condemned \union MemoryCapable
    /\ UNCHANGED <<disk, memory, modes, wiping, written,
                   atStart, fellBack, bounds>>

Unused(s) == handles[s] = 0

Delete(s, request) ==
    /\ Turn(s, request) /\ Unused(s)
    /\ requests' = Serve(s)
    /\ disk' = [disk EXCEPT ![s] = 0]
    /\ UNCHANGED <<handles, stores, modes, switching, wiping, history, bounds>>

Deleted(s) == Delete(s, "delete")

\* A deletion whose 3 seconds are over, or whose page is gone.
OrphanDeleted(s) == Delete(s, "orphan")

\* rebindAllToDisk; no deletion is taken back.
RollBack(q) ==
    /\ requests' = Orphaned(q, "delete")
    /\ bound' = [s \in Stores |-> "none"]
    /\ phase' = "none"
    /\ atStart' = Nothing
    /\ UNCHANGED <<disk, handles, memory, modes, copied, wiping, written, condemned,
                   fellBack, clock, switches, wipes>>

DeleteFails(s) == Turn(s, "delete") /\ Fault("delete") /\ RollBack(Serve(s))

DeleteTimesOut ==
    /\ phase = "delete" /\ \E s \in Stores : Waits(s, "delete")
    /\ RollBack(requests)
    /\ UNCHANGED faults

\* A switch that does not wait for the deletions.
forget_AtOnce ==
    /\ phase = "delete"
    /\ phase' = "none"
    /\ mode' = "MEMORY"
    /\ localMemory' = (localMemory \/ local)
    /\ local' = FALSE
    /\ UNCHANGED <<databases, stores, copied, wiping, history, bounds>>

\* moveToMemory, and the mode last.
forget ==
    /\ phase = "delete" /\ \A s \in Stores : ~Waits(s, "delete")
    /\ phase' = "none"
    /\ mode' = "MEMORY"
    /\ localMemory' = (localMemory \/ local)
    /\ local' = FALSE
    /\ UNCHANGED <<databases, stores, copied, wiping, history, bounds>>

-----------------------------------------------------------------------------
(* Hard sign-out *)

clearAuthSession ==
    /\ ~wiping /\ wipes < MaxWipes
    /\ wipes' = wipes + 1
    /\ wiping' = TRUE
    /\ local' = FALSE
    /\ requests' = Ask(MemoryCapable, "wipe")
    /\ condemned' = condemned \union MemoryCapable
    /\ atStart' = Nothing
    /\ UNCHANGED <<disk, handles, stores, mode, localMemory, switching, written, fellBack,
                   clock, switches, faults>>

Wiped(s) == Delete(s, "wipe")

\* The sign-out goes on whether deleteAll resolves or rejects.
SignedOut(q) ==
    /\ wiping' = FALSE
    /\ requests' = Orphaned(q, "wipe")
    /\ UNCHANGED <<disk, handles, stores, modes, switching, history, clock,
                   switches, wipes>>

WipeEnds ==
    \/ wiping /\ SignedOut(requests) /\ UNCHANGED faults
    \/ \E s \in Stores : Turn(s, "wipe") /\ Fault("delete") /\ SignedOut(Serve(s))

-----------------------------------------------------------------------------
(* The page *)

\* The browser may serve or drop the deletions of a page that is gone; of the
\* same database, one does what several do.
Reload ==
    /\ \E kept \in SUBSET {s \in Stores : \E r \in Deletions : Waits(s, r)} :
          /\ requests' = [s \in Stores |-> IF s \in kept THEN <<"orphan">> ELSE <<>>]
          /\ condemned' = kept
    /\ handles' = Nothing
    /\ bound' = [s \in Stores |-> "none"]
    /\ memory' = Nothing
    /\ mode' = "DISK" /\ localMemory' = FALSE
    /\ phase' = "none" /\ copied' = {}
    /\ wiping' = FALSE
    /\ written' = disk
    /\ atStart' = Nothing
    /\ fellBack' = {}
    /\ UNCHANGED <<disk, local, bounds>>

-----------------------------------------------------------------------------

Init ==
    /\ disk = Nothing
    /\ requests = [s \in Stores |-> <<>>]
    /\ handles = Nothing
    /\ bound = [s \in Stores |-> "none"]
    /\ memory = Nothing
    /\ mode = "DISK" /\ local = FALSE /\ localMemory = FALSE
    /\ phase = "none" /\ copied = {}
    /\ wiping = FALSE
    /\ written = disk
    /\ atStart = Nothing
    /\ condemned = {} /\ fellBack = {}
    /\ clock = 0 /\ switches = 0 /\ wipes = 0 /\ faults = 0

Access == SetItem \/ \E s \in Stores : Open(s) \/ Opened(s) \/ OpenFails(s) \/ Write(s)

Switch ==
    \/ doNotRememberMe \/ commitToMemory \/ DeleteTimesOut \/ forget
    \/ \E s \in Stores : copyToMemory(s) \/ Copied(s) \/ CopyFails(s) \/ Deleted(s) \/ DeleteFails(s)

SignOut == clearAuthSession \/ WipeEnds \/ \E s \in Stores : Wiped(s)

Browser == Reload \/ \E s \in Stores : OrphanDeleted(s)

Next == Access \/ Switch \/ SignOut \/ Browser

Spec == Init /\ [][Next]_vars

-----------------------------------------------------------------------------
(* Correctness *)

TypeOK ==
    /\ disk \in [Stores -> Nat]
    /\ requests \in [Stores -> Seq(Requests)]
    /\ handles \in [Stores -> Nat]
    /\ bound \in [Stores -> {"none", "disk", "memory"}]
    /\ memory \in [Stores -> Nat]
    /\ mode \in {"DISK", "MEMORY"}
    /\ local \in BOOLEAN /\ localMemory \in BOOLEAN
    /\ phase \in {"none", "copy", "delete"}
    /\ copied \subseteq MemoryCapable
    /\ wiping \in BOOLEAN
    /\ written \in [Stores -> Nat]
    /\ atStart \in [Stores -> Nat]
    /\ condemned \subseteq Stores /\ fellBack \subseteq Stores
    /\ clock \in Nat /\ switches \in Nat /\ wipes \in Nat /\ faults \in Nat
    /\ \A s \in Stores : bound[s] = "disk" => handles[s] > 0

\* Until its database is condemned a store has every resolved write on disk,
\* through copies that fail, switches that are cut short by a reload and first
\* accesses at any moment, and reads find it there; a pinned store keeps it on
\* disk for ever.
KeepsWrites ==
    \A s \in Stores \ ((condemned \ Pinned) \union fellBack) :
        /\ disk[s] = written[s]
        /\ mode = "DISK" => Served(s) = written[s]

\* Once the page is in memory mode every store serves the row it had when the
\* switch began, or a later one: the databases went only after the copies.
SwitchKeepsRows ==
    mode = "MEMORY" => \A s \in MemoryCapable \ fellBack : Served(s) >= atStart[s]

\* In memory mode no database has a row left, and no first access that started
\* before the switch can bring one back.
NothingLeftOnDisk ==
    mode = "MEMORY" =>
        /\ ~local
        /\ \A s \in MemoryCapable :
              disk[s] = 0 /\ bound[s] = "memory" /\ ~Waits(s, "open")

\* Every request that waits does so for a handle of this page.
Blocked ==
    \A s \in Stores :
        requests[s] # <<>> => Head(requests[s]) \in Deletions /\ ~Unused(s)

\* "the on-disk data was never deleted at this point" (idb-service.ts:76): a
\* switch that is rolled back has lost no row.
RollBackKeepsRows ==
    [][(DeleteTimesOut /\ Blocked) \/ (\E s \in Stores : DeleteFails(s))
          => \A s \in Stores : disk'[s] >= atStart[s]]_vars
=============================================================================
