---------------------------- MODULE TtlCacheProofs ----------------------------
(***************************************************************************)
(* Proofs about the two caches of the wallet.  First TtlCache, for any     *)
(* number of keys, contracts, calls, writes, refreshes, changes and        *)
(* failures; then CompositeTtlCache, for any entries, values, lifetimes    *)
(* and lengths of the promise chain, and whatever the store rejects.       *)
(***************************************************************************)
EXTENDS TtlCache, CompositeTtlCache, TLAPS

\* A call that has not started has no answer; the registry has no contracts.
CallsInOrder ==
  \A c \in Calls :
    /\ c > started => phase[c] = "none" /\ got[c] = 0 /\ zeros[c] = {}
                      /\ fetched[c] = 0
    /\ key[c] = Registry => wants[c] = {}

\* Nothing older than the last undisturbed refresh or write is stored.
FloorHolds ==
  \A k \in Keys :
    /\ floor[k] <= truth[k] /\ since[k] <= truth[k]
    /\ cached[k] # 0 => cached[k] >= floor[k]

\* Nor is it about to be stored.
HeldAbove ==
  \A c \in Calls : phase[c] = "store" =>
    fetched[c] >= floor[key[c]] /\ fetched[c] >= asOf[c]

\* A call that looks into the store counts on the floor, at most.
AskedBelow ==
  \A c \in Calls :
    /\ phase[c] \in {"read", "look", "prune"} => asOf[c] <= floor[key[c]]
    /\ phase[c] = "fetch" => asOf[c] <= truth[key[c]]

\* Between its two steps a refresh knows every older value that is stored.
RefreshHolds ==
  refresh = "remove" => \A k \in Keys : since[k] # 0 =>
    /\ k \in matching \/ cached[k] = 0 \/ cached[k] >= since[k]
    /\ \A c \in Calls : Holds(c, k) => fetched[c] >= since[k]

\* While a write goes on undisturbed, what it removed stays removed.
CalmHolds ==
  calm /\ todo # {} =>
    /\ \A c \in Calls : key[c] = Registry => ~Active(c)
    /\ "remove" \notin todo => cached[Registry] = 0

\* A stored list lacks the contracts that the call which stored it left out.
ListsHaveReasons ==
  \A k \in Lists : cached[k] # 0 =>
    \A p \in Contracts \ parts[k] :
      \E d \in Calls : key[d] = k /\ p \notin wants[d] /\ fetched[d] # 0

IInv ==
  /\ TypeOK /\ CallsInOrder /\ FloorHolds /\ HeldAbove /\ AskedBelow
  /\ RefreshHolds /\ CalmHolds /\ ListsHaveReasons
  /\ ReadsSeeCompletedChanges /\ ZeroNeedsAnotherList

\* What a step of call c leaves alone, and how c moves on.
StepFrame(c) == UNCHANGED <<truth, floor, refresh, matching, since, todo, calm,
                            started, key, wants, asOf>>

StepOthers(c) ==
  /\ \A d \in Calls \ {c} :
       /\ phase'[d] = phase[d] /\ fetched'[d] = fetched[d]
       /\ got'[d] = got[d] /\ zeros'[d] = zeros[d]
  /\ \A k \in Keys \ {key[c]} : cached'[k] = cached[k] /\ parts'[k] = parts[k]

StepMoves(c) ==
  /\ phase[c] \notin {"none", "over"} /\ phase'[c] \notin {"none", "read"}
  /\ phase'[c] \in {"look", "prune", "fetch"} =>
       phase[c] \in {"read", "look", "prune"}
  /\ \/ fetched'[c] = fetched[c] /\ phase'[c] # "store"
     \/ /\ phase[c] = "fetch" /\ phase'[c] = "store"
        /\ fetched'[c] = truth[key[c]]

StepStores(c) ==
  \/ cached'[key[c]] = cached[key[c]] /\ parts'[key[c]] = parts[key[c]]
  \/ cached'[key[c]] = 0
  \/ /\ phase[c] = "store" /\ cached'[key[c]] = fetched[c]
     /\ parts'[key[c]] = wants[c] /\ fetched'[c] = fetched[c]

StepReturns(c) ==
  \/ got'[c] = got[c] /\ zeros'[c] = zeros[c]
  \/ /\ phase[c] \in {"read", "look"} /\ cached[key[c]] # 0
     /\ got'[c] = cached[key[c]]
     /\ zeros'[c] = {} \/ zeros'[c] = wants[c] \ parts[key[c]]
  \/ phase[c] = "store" /\ got'[c] = fetched[c] /\ zeros'[c] = {}

Local(c) ==
  /\ StepFrame(c) /\ StepOthers(c) /\ StepMoves(c)
  /\ StepStores(c) /\ StepReturns(c)

\* Every step of a call has this shape.
LEMMA StepIsLocal ==
  ASSUME TypeOK, NEW c \in Calls, Step(c)
  PROVE  Local(c)
<1> USE TtlAssumption DEF vars, store, asked, answers, calls, button,
  registry, Keys, Calls, Versions, Phases
<1>0. /\ key \in [Calls -> Keys] /\ key[c] \in Keys
      /\ truth \in [Keys -> Versions] /\ cached \in [Keys -> 0..MaxVersion]
      /\ parts \in [Keys -> SUBSET Contracts] /\ fresh \in [Keys -> BOOLEAN]
      /\ wants \in [Calls -> SUBSET Contracts]
      /\ phase \in [Calls -> Phases] /\ back \in [Calls -> BOOLEAN]
      /\ fetched \in [Calls -> 0..MaxVersion]
      /\ got \in [Calls -> 0..MaxVersion]
      /\ zeros \in [Calls -> SUBSET Contracts]
      /\ phase[c] = "store" => fetched[c] \in 1..truth[key[c]]
  BY DEF TypeOK, TruthTypes, StoreTypes, AskTypes, AnswerTypes, Stored
<1>1. CASE ReadCache(c)
  <2>1. StepFrame(c)
    BY <1>0, <1>1 DEF StepFrame, ReadCache, Refetch, Rejects, Awaits,
      Returns, NoReturn, Fault, NoFault
  <2>2. StepOthers(c)
    BY <1>0, <1>1 DEF StepOthers, ReadCache, Refetch, Rejects, Awaits,
      Returns, NoReturn, Fault, NoFault
  <2>3. StepMoves(c)
    BY <1>0, <1>1 DEF StepMoves, ReadCache, Refetch, Rejects, Awaits,
      Returns, NoReturn, Fault, NoFault
  <2>4. StepStores(c)
    BY <1>0, <1>1 DEF StepStores, ReadCache, Refetch, Rejects, Awaits,
      Returns, NoReturn, Fault, NoFault
  <2>5. StepReturns(c)
    BY <1>0, <1>1 DEF StepReturns, ReadCache, Refetch, Rejects, Awaits,
      Returns, NoReturn, Fault, NoFault
  <2> QED
    BY <2>1, <2>2, <2>3, <2>4, <2>5 DEF Local
<1>2. CASE Look(c)
  <2>1. StepFrame(c)
    BY <1>0, <1>2 DEF StepFrame, Look, Rejects, Awaits, Returns, NoReturn,
      Fault, NoFault
  <2>2. StepOthers(c)
    BY <1>0, <1>2 DEF StepOthers, Look, Rejects, Awaits, Returns,
      NoReturn, Fault, NoFault
  <2>3. StepMoves(c)
    BY <1>0, <1>2 DEF StepMoves, Look, Rejects, Awaits, Returns, NoReturn,
      Fault, NoFault
  <2>4. StepStores(c)
    BY <1>0, <1>2 DEF StepStores, Look, Rejects, Awaits, Returns,
      NoReturn, Fault, NoFault
  <2>5. StepReturns(c)
    BY <1>0, <1>2 DEF StepReturns, Look, Rejects, Awaits, Returns,
      NoReturn, Fault, NoFault
  <2> QED
    BY <2>1, <2>2, <2>3, <2>4, <2>5 DEF Local
<1>3. CASE Prune(c)
  <2>1. StepFrame(c)
    BY <1>0, <1>3 DEF StepFrame, Prune, Drop, Rejects, Awaits, Returns,
      NoReturn, Fault, NoFault
  <2>2. StepOthers(c)
    BY <1>0, <1>3 DEF StepOthers, Prune, Drop, Rejects, Awaits, Returns,
      NoReturn, Fault, NoFault
  <2>3. StepMoves(c)
    BY <1>0, <1>3 DEF StepMoves, Prune, Drop, Rejects, Awaits, Returns,
      NoReturn, Fault, NoFault
  <2>4. StepStores(c)
    BY <1>0, <1>3 DEF StepStores, Prune, Drop, Rejects, Awaits, Returns,
      NoReturn, Fault, NoFault
  <2>5. StepReturns(c)
    BY <1>0, <1>3 DEF StepReturns, Prune, Drop, Rejects, Awaits, Returns,
      NoReturn, Fault, NoFault
  <2> QED
    BY <2>1, <2>2, <2>3, <2>4, <2>5 DEF Local
<1>4. CASE Serve(c)
  <2>1. StepFrame(c)
    BY <1>0, <1>4 DEF StepFrame, Serve, Rejects, Awaits, Returns,
      NoReturn, Fault, NoFault
  <2>2. StepOthers(c)
    BY <1>0, <1>4 DEF StepOthers, Serve, Rejects, Awaits, Returns,
      NoReturn, Fault, NoFault
  <2>3. StepMoves(c)
    BY <1>0, <1>4 DEF StepMoves, Serve, Rejects, Awaits, Returns,
      NoReturn, Fault, NoFault
  <2>4. StepStores(c)
    BY <1>0, <1>4 DEF StepStores, Serve, Rejects, Awaits, Returns,
      NoReturn, Fault, NoFault
  <2>5. StepReturns(c)
    BY <1>0, <1>4 DEF StepReturns, Serve, Rejects, Awaits, Returns,
      NoReturn, Fault, NoFault
  <2> QED
    BY <2>1, <2>2, <2>3, <2>4, <2>5 DEF Local
<1>5. CASE Put(c)
  <2>1. StepFrame(c)
    BY <1>0, <1>5 DEF StepFrame, Put, Save, Rejects, Awaits, Returns,
      NoReturn, Fault, NoFault
  <2>2. StepOthers(c)
    BY <1>0, <1>5 DEF StepOthers, Put, Save, Rejects, Awaits, Returns,
      NoReturn, Fault, NoFault
  <2>3. StepMoves(c)
    BY <1>0, <1>5 DEF StepMoves, Put, Save, Rejects, Awaits, Returns,
      NoReturn, Fault, NoFault
  <2>4. StepStores(c)
    BY <1>0, <1>5 DEF StepStores, Put, Save, Rejects, Awaits, Returns,
      NoReturn, Fault, NoFault
  <2>5. StepReturns(c)
    BY <1>0, <1>5 DEF StepReturns, Put, Save, Rejects, Awaits, Returns,
      NoReturn, Fault, NoFault
  <2> QED
    BY <2>1, <2>2, <2>3, <2>4, <2>5 DEF Local
<1> QED
  BY <1>1, <1>2, <1>3, <1>4, <1>5 DEF Step

\* The types, variable by variable where a step changes them.
LEMMA TypeStep ==
  TypeOK /\ CallsInOrder /\ [Next]_vars => TypeOK'
<1> SUFFICES ASSUME TypeOK, CallsInOrder, [Next]_vars
             PROVE  TypeOK'
  OBVIOUS
<1> USE TtlAssumption DEF vars, store, asked, answers, calls, button,
  registry, Keys, Calls, Versions, Phases
<1>0. /\ TruthTypes /\ StoreTypes /\ AskTypes /\ AnswerTypes
      /\ RefreshTypes /\ WriteTypes /\ FaultTypes /\ Stored
  BY DEF TypeOK
<1>1. ASSUME NEW k \in Keys, Change(k)
    PROVE  TypeOK'
  <2>1. TruthTypes'
    BY <1>0, <1>1 DEF TruthTypes, StoreTypes, AskTypes, AnswerTypes,
      RefreshTypes, WriteTypes, FaultTypes, Stored, Change
  <2>2. StoreTypes'
    BY <1>0, <1>1 DEF StoreTypes, Change
  <2>3. AskTypes'
    BY <1>0, <1>1 DEF AskTypes, Change
  <2>4. AnswerTypes'
    BY <1>0, <1>1 DEF AnswerTypes, Change
  <2>5. RefreshTypes'
    BY <1>0, <1>1 DEF RefreshTypes, Change
  <2>6. WriteTypes'
    BY <1>0, <1>1 DEF WriteTypes, Change
  <2>7. FaultTypes'
    BY <1>0, <1>1 DEF FaultTypes, Change
  <2>8. Stored'
    <3>1. /\ \A d \in Calls : key[d] \in Keys /\ fetched[d] \in Nat
          /\ \A q \in Keys : truth[q] \in Nat \ {0} /\ cached[q] \in Nat
          /\ truth \in [Keys -> Versions]
      BY <1>0 DEF TruthTypes, StoreTypes, AskTypes, AnswerTypes
    <3>2. /\ \A q \in Keys : truth'[q] \in Nat /\ truth'[q] >= truth[q]
          /\ UNCHANGED <<cached, phase, fetched, key>>
      BY <1>1, <3>1 DEF Change
    <3> QED
      BY <1>0, <3>1, <3>2 DEF Stored
  <2> QED
    BY <2>1, <2>2, <2>3, <2>4, <2>5, <2>6, <2>7, <2>8 DEF TypeOK
<1>2. ASSUME NEW k \in Keys, Expire(k)
    PROVE  TypeOK'
  <2>1. TruthTypes'
    BY <1>0, <1>2 DEF TruthTypes, Expire
  <2>2. StoreTypes'
    <3>0. /\ key \in [Calls -> Keys] /\ wants \in [Calls -> SUBSET Contracts]
          /\ truth \in [Keys -> Versions] /\ floor \in [Keys -> 0..MaxVersion]
          /\ cached \in [Keys -> 0..MaxVersion]
          /\ parts \in [Keys -> SUBSET Contracts]
          /\ fetched \in [Calls -> 0..MaxVersion]
      BY <1>0 DEF TruthTypes, StoreTypes, AskTypes, AnswerTypes
    <3>a. \A q \in Keys : truth[q] \in 0..MaxVersion
      BY <3>0
    <3>1. cached' \in [Keys -> 0..MaxVersion]
      BY <1>0, <1>2, <3>0, <3>a DEF StoreTypes, Expire
    <3>2. parts' \in [Keys -> SUBSET Contracts]
      BY <1>0, <1>2, <3>0, <3>a DEF StoreTypes, Expire
    <3>3. fresh' \in [Keys -> BOOLEAN]
      BY <1>0, <1>2, <3>0, <3>a DEF StoreTypes, Expire
    <3> QED
      BY <3>1, <3>2, <3>3 DEF StoreTypes
  <2>3. AskTypes'
    BY <1>0, <1>2 DEF AskTypes, Expire
  <2>4. AnswerTypes'
    BY <1>0, <1>2 DEF AnswerTypes, Expire
  <2>5. RefreshTypes'
    BY <1>0, <1>2 DEF RefreshTypes, Expire
  <2>6. WriteTypes'
    BY <1>0, <1>2 DEF WriteTypes, Expire
  <2>7. FaultTypes'
    BY <1>0, <1>2 DEF FaultTypes, Expire
  <2>8. Stored'
    BY <1>0, <1>2 DEF Stored, Expire
  <2> QED
    BY <2>1, <2>2, <2>3, <2>4, <2>5, <2>6, <2>7, <2>8 DEF TypeOK
<1>3. ASSUME NEW k \in Keys, NEW w \in SUBSET Contracts, NEW f \in BOOLEAN,
  Ask(k, w, f)
    PROVE  TypeOK'
  <2>1. TruthTypes'
    BY <1>0, <1>3 DEF TruthTypes, Ask
  <2>2. StoreTypes'
    BY <1>0, <1>3 DEF StoreTypes, Ask
  <2>3. AskTypes'
    <3>0. /\ key \in [Calls -> Keys] /\ wants \in [Calls -> SUBSET Contracts]
          /\ truth \in [Keys -> Versions] /\ floor \in [Keys -> 0..MaxVersion]
          /\ cached \in [Keys -> 0..MaxVersion]
          /\ parts \in [Keys -> SUBSET Contracts]
          /\ fetched \in [Calls -> 0..MaxVersion]
      BY <1>0 DEF TruthTypes, StoreTypes, AskTypes, AnswerTypes
    <3>a. \A q \in Keys : truth[q] \in 0..MaxVersion
      BY <3>0
    <3>1. started' \in 0..MaxCalls
      BY <1>0, <1>3, <3>0, <3>a DEF AskTypes, Ask
    <3>2. key' \in [Calls -> Keys]
      BY <1>0, <1>3, <3>0, <3>a DEF AskTypes, Ask
    <3>3. wants' \in [Calls -> SUBSET Contracts]
      BY <1>0, <1>3, <3>0, <3>a DEF AskTypes, Ask
    <3>4. asOf' \in [Calls -> 0..MaxVersion]
      BY <1>0, <1>3, <3>0, <3>a DEF AskTypes, Ask
    <3> QED
      BY <3>1, <3>2, <3>3, <3>4 DEF AskTypes
  <2>4. AnswerTypes'
    <3>0. /\ key \in [Calls -> Keys] /\ wants \in [Calls -> SUBSET Contracts]
          /\ truth \in [Keys -> Versions] /\ floor \in [Keys -> 0..MaxVersion]
          /\ cached \in [Keys -> 0..MaxVersion]
          /\ parts \in [Keys -> SUBSET Contracts]
          /\ fetched \in [Calls -> 0..MaxVersion]
      BY <1>0 DEF TruthTypes, StoreTypes, AskTypes, AnswerTypes
    <3>a. \A q \in Keys : truth[q] \in 0..MaxVersion
      BY <3>0
    <3>1. phase' \in [Calls -> Phases]
      BY <1>0, <1>3, <3>0, <3>a DEF AnswerTypes, Ask
    <3>2. back' \in [Calls -> BOOLEAN]
      BY <1>0, <1>3, <3>0, <3>a DEF AnswerTypes, Ask
    <3>3. fetched' \in [Calls -> 0..MaxVersion]
      BY <1>0, <1>3, <3>0, <3>a DEF AnswerTypes, Ask
    <3>4. got' \in [Calls -> 0..MaxVersion]
      BY <1>0, <1>3, <3>0, <3>a DEF AnswerTypes, Ask
    <3>5. zeros' \in [Calls -> SUBSET Contracts]
      BY <1>0, <1>3, <3>0, <3>a DEF AnswerTypes, Ask
    <3> QED
      BY <3>1, <3>2, <3>3, <3>4, <3>5 DEF AnswerTypes
  <2>5. RefreshTypes'
    BY <1>0, <1>3 DEF RefreshTypes, Ask
  <2>6. WriteTypes'
    <3>0. /\ key \in [Calls -> Keys] /\ wants \in [Calls -> SUBSET Contracts]
          /\ truth \in [Keys -> Versions] /\ floor \in [Keys -> 0..MaxVersion]
          /\ cached \in [Keys -> 0..MaxVersion]
          /\ parts \in [Keys -> SUBSET Contracts]
          /\ fetched \in [Calls -> 0..MaxVersion]
      BY <1>0 DEF TruthTypes, StoreTypes, AskTypes, AnswerTypes
    <3>a. \A q \in Keys : truth[q] \in 0..MaxVersion
      BY <3>0
    <3>1. todo' \subseteq {"update", "remove"}
      BY <1>0, <1>3, <3>0, <3>a DEF WriteTypes, Ask
    <3>2. calm' \in BOOLEAN
      BY <1>0, <1>3, <3>0, <3>a DEF WriteTypes, Ask
    <3>3. writes' \in 0..MaxWrites
      BY <1>0, <1>3, <3>0, <3>a DEF WriteTypes, Ask
    <3> QED
      BY <3>1, <3>2, <3>3 DEF WriteTypes
  <2>7. FaultTypes'
    BY <1>0, <1>3 DEF FaultTypes, Ask
  <2>8. Stored'
    <3>1. /\ \A d \in Calls : key[d] \in Keys /\ fetched[d] \in Nat
          /\ \A q \in Keys : truth[q] \in Nat \ {0} /\ cached[q] \in Nat
          /\ truth \in [Keys -> Versions]
      BY <1>0 DEF TruthTypes, StoreTypes, AskTypes, AnswerTypes
    <3> QED
      BY <1>0, <1>3, <3>1 DEF Stored, AskTypes, AnswerTypes,
        CallsInOrder, Ask
  <2> QED
    BY <2>1, <2>2, <2>3, <2>4, <2>5, <2>6, <2>7, <2>8 DEF TypeOK
<1>4. ASSUME StartWrite
    PROVE  TypeOK'
  <2>1. TruthTypes'
    BY <1>0, <1>4 DEF TruthTypes, StartWrite
  <2>2. StoreTypes'
    BY <1>0, <1>4 DEF StoreTypes, StartWrite
  <2>3. AskTypes'
    BY <1>0, <1>4 DEF AskTypes, StartWrite
  <2>4. AnswerTypes'
    BY <1>0, <1>4 DEF AnswerTypes, StartWrite
  <2>5. RefreshTypes'
    BY <1>0, <1>4 DEF RefreshTypes, StartWrite
  <2>6. WriteTypes'
    <3>0. /\ key \in [Calls -> Keys] /\ wants \in [Calls -> SUBSET Contracts]
          /\ truth \in [Keys -> Versions] /\ floor \in [Keys -> 0..MaxVersion]
          /\ cached \in [Keys -> 0..MaxVersion]
          /\ parts \in [Keys -> SUBSET Contracts]
          /\ fetched \in [Calls -> 0..MaxVersion]
      BY <1>0 DEF TruthTypes, StoreTypes, AskTypes, AnswerTypes
    <3>a. \A q \in Keys : truth[q] \in 0..MaxVersion
      BY <3>0
    <3>1. todo' \subseteq {"update", "remove"}
      BY <1>0, <1>4, <3>0, <3>a DEF WriteTypes, StartWrite
    <3>2. calm' \in BOOLEAN
      BY <1>0, <1>4, <3>0, <3>a DEF WriteTypes, StartWrite
    <3>3. writes' \in 0..MaxWrites
      BY <1>0, <1>4, <3>0, <3>a DEF WriteTypes, StartWrite
    <3> QED
      BY <3>1, <3>2, <3>3 DEF WriteTypes
  <2>7. FaultTypes'
    BY <1>0, <1>4 DEF FaultTypes, StartWrite
  <2>8. Stored'
    BY <1>0, <1>4 DEF Stored, StartWrite
  <2> QED
    BY <2>1, <2>2, <2>3, <2>4, <2>5, <2>6, <2>7, <2>8 DEF TypeOK
<1>5. ASSUME UpdateRegistry
    PROVE  TypeOK'
  <2>1. TruthTypes'
    BY <1>0, <1>5 DEF TruthTypes, StoreTypes, AskTypes, AnswerTypes,
      RefreshTypes, WriteTypes, FaultTypes, Stored, UpdateRegistry,
      Resolves, Breaks, Fault, NoFault
  <2>2. StoreTypes'
    BY <1>0, <1>5 DEF StoreTypes, UpdateRegistry, Resolves, Breaks, Fault,
      NoFault
  <2>3. AskTypes'
    BY <1>0, <1>5 DEF AskTypes, UpdateRegistry, Resolves, Breaks, Fault,
      NoFault
  <2>4. AnswerTypes'
    BY <1>0, <1>5 DEF AnswerTypes, UpdateRegistry, Resolves, Breaks,
      Fault, NoFault
  <2>5. RefreshTypes'
    BY <1>0, <1>5 DEF RefreshTypes, UpdateRegistry, Resolves, Breaks,
      Fault, NoFault
  <2>6. WriteTypes'
    <3>0. /\ key \in [Calls -> Keys] /\ wants \in [Calls -> SUBSET Contracts]
          /\ truth \in [Keys -> Versions] /\ floor \in [Keys -> 0..MaxVersion]
          /\ cached \in [Keys -> 0..MaxVersion]
          /\ parts \in [Keys -> SUBSET Contracts]
          /\ fetched \in [Calls -> 0..MaxVersion]
      BY <1>0 DEF TruthTypes, StoreTypes, AskTypes, AnswerTypes
    <3>a. \A q \in Keys : truth[q] \in 0..MaxVersion
      BY <3>0
    <3>1. todo' \subseteq {"update", "remove"}
      BY <1>0, <1>5, <3>0, <3>a DEF WriteTypes, UpdateRegistry,
        Resolves, Breaks, Fault, NoFault
    <3>2. calm' \in BOOLEAN
      BY <1>0, <1>5, <3>0, <3>a DEF WriteTypes, UpdateRegistry,
        Resolves, Breaks, Fault, NoFault
    <3>3. writes' \in 0..MaxWrites
      BY <1>0, <1>5, <3>0, <3>a DEF WriteTypes, UpdateRegistry,
        Resolves, Breaks, Fault, NoFault
    <3> QED
      BY <3>1, <3>2, <3>3 DEF WriteTypes
  <2>7. FaultTypes'
    BY <1>0, <1>5 DEF FaultTypes, UpdateRegistry, Resolves, Breaks, Fault,
      NoFault
  <2>8. Stored'
    <3>1. /\ \A d \in Calls : key[d] \in Keys /\ fetched[d] \in Nat
          /\ \A q \in Keys : truth[q] \in Nat \ {0} /\ cached[q] \in Nat
          /\ truth \in [Keys -> Versions]
      BY <1>0 DEF TruthTypes, StoreTypes, AskTypes, AnswerTypes
    <3>2. /\ \A q \in Keys : truth'[q] \in Nat /\ truth'[q] >= truth[q]
          /\ UNCHANGED <<cached, phase, fetched, key>>
      BY <1>5, <3>1 DEF UpdateRegistry, Resolves, Breaks, Fault, NoFault
    <3> QED
      BY <1>0, <3>1, <3>2 DEF Stored
  <2> QED
    BY <2>1, <2>2, <2>3, <2>4, <2>5, <2>6, <2>7, <2>8 DEF TypeOK
<1>6. ASSUME RemoveFromCache
    PROVE  TypeOK'
  <2>1. TruthTypes'
    BY <1>0, <1>6 DEF TruthTypes, StoreTypes, AskTypes, AnswerTypes,
      RefreshTypes, WriteTypes, FaultTypes, Stored, RemoveFromCache, Drop,
      Resolves, Breaks, Fault, NoFault
  <2>2. StoreTypes'
    <3>0. /\ key \in [Calls -> Keys] /\ wants \in [Calls -> SUBSET Contracts]
          /\ truth \in [Keys -> Versions] /\ floor \in [Keys -> 0..MaxVersion]
          /\ cached \in [Keys -> 0..MaxVersion]
          /\ parts \in [Keys -> SUBSET Contracts]
          /\ fetched \in [Calls -> 0..MaxVersion]
      BY <1>0 DEF TruthTypes, StoreTypes, AskTypes, AnswerTypes
    <3>a. \A q \in Keys : truth[q] \in 0..MaxVersion
      BY <3>0
    <3>1. cached' \in [Keys -> 0..MaxVersion]
      BY <1>0, <1>6, <3>0, <3>a DEF StoreTypes, RemoveFromCache, Drop,
        Resolves, Breaks, Fault, NoFault
    <3>2. parts' \in [Keys -> SUBSET Contracts]
      BY <1>0, <1>6, <3>0, <3>a DEF StoreTypes, RemoveFromCache, Drop,
        Resolves, Breaks, Fault, NoFault
    <3>3. fresh' \in [Keys -> BOOLEAN]
      BY <1>0, <1>6, <3>0, <3>a DEF StoreTypes, RemoveFromCache, Drop,
        Resolves, Breaks, Fault, NoFault
    <3> QED
      BY <3>1, <3>2, <3>3 DEF StoreTypes
  <2>3. AskTypes'
    BY <1>0, <1>6 DEF AskTypes, RemoveFromCache, Drop, Resolves, Breaks,
      Fault, NoFault
  <2>4. AnswerTypes'
    BY <1>0, <1>6 DEF AnswerTypes, RemoveFromCache, Drop, Resolves,
      Breaks, Fault, NoFault
  <2>5. RefreshTypes'
    BY <1>0, <1>6 DEF RefreshTypes, RemoveFromCache, Drop, Resolves,
      Breaks, Fault, NoFault
  <2>6. WriteTypes'
    <3>0. /\ key \in [Calls -> Keys] /\ wants \in [Calls -> SUBSET Contracts]
          /\ truth \in [Keys -> Versions] /\ floor \in [Keys -> 0..MaxVersion]
          /\ cached \in [Keys -> 0..MaxVersion]
          /\ parts \in [Keys -> SUBSET Contracts]
          /\ fetched \in [Calls -> 0..MaxVersion]
      BY <1>0 DEF TruthTypes, StoreTypes, AskTypes, AnswerTypes
    <3>a. \A q \in Keys : truth[q] \in 0..MaxVersion
      BY <3>0
    <3>1. todo' \subseteq {"update", "remove"}
      BY <1>0, <1>6, <3>0, <3>a DEF WriteTypes, RemoveFromCache, Drop,
        Resolves, Breaks, Fault, NoFault
    <3>2. calm' \in BOOLEAN
      BY <1>0, <1>6, <3>0, <3>a DEF WriteTypes, RemoveFromCache, Drop,
        Resolves, Breaks, Fault, NoFault
    <3>3. writes' \in 0..MaxWrites
      BY <1>0, <1>6, <3>0, <3>a DEF WriteTypes, RemoveFromCache, Drop,
        Resolves, Breaks, Fault, NoFault
    <3> QED
      BY <3>1, <3>2, <3>3 DEF WriteTypes
  <2>7. FaultTypes'
    BY <1>0, <1>6 DEF FaultTypes, RemoveFromCache, Drop, Resolves, Breaks,
      Fault, NoFault
  <2>8. Stored'
    <3>1. /\ \A d \in Calls : key[d] \in Keys /\ fetched[d] \in Nat
          /\ \A q \in Keys : truth[q] \in Nat \ {0} /\ cached[q] \in Nat
          /\ truth \in [Keys -> Versions]
      BY <1>0 DEF TruthTypes, StoreTypes, AskTypes, AnswerTypes
    <3>2. /\ \A k \in Keys : cached'[k] = cached[k] \/ cached'[k] = 0
          /\ UNCHANGED <<truth, phase, fetched, key>>
      BY <1>6, <1>0 DEF StoreTypes, RemoveFromCache, Drop, Resolves,
        Breaks, Fault, NoFault
    <3> QED
      BY <1>0, <3>1, <3>2 DEF Stored
  <2> QED
    BY <2>1, <2>2, <2>3, <2>4, <2>5, <2>6, <2>7, <2>8 DEF TypeOK
<1>7. ASSUME Press
    PROVE  TypeOK'
  <2>1. TruthTypes'
    BY <1>0, <1>7 DEF TruthTypes, Press
  <2>2. StoreTypes'
    BY <1>0, <1>7 DEF StoreTypes, Press
  <2>3. AskTypes'
    BY <1>0, <1>7 DEF AskTypes, Press
  <2>4. AnswerTypes'
    BY <1>0, <1>7 DEF AnswerTypes, Press
  <2>5. RefreshTypes'
    <3>0. /\ key \in [Calls -> Keys] /\ wants \in [Calls -> SUBSET Contracts]
          /\ truth \in [Keys -> Versions] /\ floor \in [Keys -> 0..MaxVersion]
          /\ cached \in [Keys -> 0..MaxVersion]
          /\ parts \in [Keys -> SUBSET Contracts]
          /\ fetched \in [Calls -> 0..MaxVersion]
      BY <1>0 DEF TruthTypes, StoreTypes, AskTypes, AnswerTypes
    <3>a. \A q \in Keys : truth[q] \in 0..MaxVersion
      BY <3>0
    <3>1. refresh' \in {"idle", "keys", "remove", "stuck"}
      BY <1>0, <1>7, <3>0, <3>a DEF RefreshTypes, Press
    <3>2. matching' \subseteq Keys
      BY <1>0, <1>7, <3>0, <3>a DEF RefreshTypes, Press
    <3>3. refreshes' \in 0..MaxRefreshes
      BY <1>0, <1>7, <3>0, <3>a DEF RefreshTypes, Press
    <3>4. since' \in [Keys -> 0..MaxVersion]
      BY <1>0, <1>7, <3>0, <3>a DEF RefreshTypes, Press
    <3> QED
      BY <3>1, <3>2, <3>3, <3>4 DEF RefreshTypes
  <2>6. WriteTypes'
    BY <1>0, <1>7 DEF WriteTypes, Press
  <2>7. FaultTypes'
    BY <1>0, <1>7 DEF FaultTypes, Press
  <2>8. Stored'
    BY <1>0, <1>7 DEF Stored, Press
  <2> QED
    BY <2>1, <2>2, <2>3, <2>4, <2>5, <2>6, <2>7, <2>8 DEF TypeOK
<1>8. ASSUME FindKeys
    PROVE  TypeOK'
  <2>1. TruthTypes'
    BY <1>0, <1>8 DEF TruthTypes, FindKeys, Sticks, Fault, NoFault
  <2>2. StoreTypes'
    BY <1>0, <1>8 DEF StoreTypes, FindKeys, Sticks, Fault, NoFault
  <2>3. AskTypes'
    BY <1>0, <1>8 DEF AskTypes, FindKeys, Sticks, Fault, NoFault
  <2>4. AnswerTypes'
    BY <1>0, <1>8 DEF AnswerTypes, FindKeys, Sticks, Fault, NoFault
  <2>5. RefreshTypes'
    <3>0. /\ key \in [Calls -> Keys] /\ wants \in [Calls -> SUBSET Contracts]
          /\ truth \in [Keys -> Versions] /\ floor \in [Keys -> 0..MaxVersion]
          /\ cached \in [Keys -> 0..MaxVersion]
          /\ parts \in [Keys -> SUBSET Contracts]
          /\ fetched \in [Calls -> 0..MaxVersion]
      BY <1>0 DEF TruthTypes, StoreTypes, AskTypes, AnswerTypes
    <3>a. \A q \in Keys : truth[q] \in 0..MaxVersion
      BY <3>0
    <3>1. refresh' \in {"idle", "keys", "remove", "stuck"}
      BY <1>0, <1>8, <3>0, <3>a DEF RefreshTypes, FindKeys, Sticks,
        Fault, NoFault
    <3>2. matching' \subseteq Keys
      BY <1>0, <1>8, <3>0, <3>a DEF RefreshTypes, FindKeys, Sticks,
        Fault, NoFault
    <3>3. refreshes' \in 0..MaxRefreshes
      BY <1>0, <1>8, <3>0, <3>a DEF RefreshTypes, FindKeys, Sticks,
        Fault, NoFault
    <3>4. since' \in [Keys -> 0..MaxVersion]
      <4>1. \/ UNCHANGED since
            \/ since' = [k \in Keys |-> IF \E c \in Calls : Holds(c, k) THEN 0
                                       ELSE truth[k]]
        BY <1>8 DEF FindKeys, Sticks
      <4> QED
        BY <4>1, <3>a, <1>0 DEF RefreshTypes
    <3> QED
      BY <3>1, <3>2, <3>3, <3>4 DEF RefreshTypes
  <2>6. WriteTypes'
    BY <1>0, <1>8 DEF WriteTypes, FindKeys, Sticks, Fault, NoFault
  <2>7. FaultTypes'
    BY <1>0, <1>8 DEF FaultTypes, FindKeys, Sticks, Fault, NoFault
  <2>8. Stored'
    BY <1>0, <1>8 DEF Stored, FindKeys, Sticks, Fault, NoFault
  <2> QED
    BY <2>1, <2>2, <2>3, <2>4, <2>5, <2>6, <2>7, <2>8 DEF TypeOK
<1>9. ASSUME RemoveKeys
    PROVE  TypeOK'
  <2>1. TruthTypes'
    BY <1>0, <1>9 DEF TruthTypes, StoreTypes, AskTypes, AnswerTypes,
      RefreshTypes, WriteTypes, FaultTypes, Stored, RemoveKeys, Sticks,
      Fault, NoFault
  <2>2. StoreTypes'
    <3>0. /\ key \in [Calls -> Keys] /\ wants \in [Calls -> SUBSET Contracts]
          /\ truth \in [Keys -> Versions] /\ floor \in [Keys -> 0..MaxVersion]
          /\ cached \in [Keys -> 0..MaxVersion]
          /\ parts \in [Keys -> SUBSET Contracts]
          /\ fetched \in [Calls -> 0..MaxVersion]
      BY <1>0 DEF TruthTypes, StoreTypes, AskTypes, AnswerTypes
    <3>a. \A q \in Keys : truth[q] \in 0..MaxVersion
      BY <3>0
    <3>1. cached' \in [Keys -> 0..MaxVersion]
      <4>1. \/ UNCHANGED cached
            \/ cached' = [k \in Keys |-> IF k \in matching THEN 0 ELSE cached[k]]
        BY <1>9 DEF RemoveKeys, Sticks
      <4>2. 0 \in 0..MaxVersion /\ \A k \in Keys : cached[k] \in 0..MaxVersion
        BY <3>0
      <4> QED
        BY <4>1, <4>2, <3>0
    <3>2. parts' \in [Keys -> SUBSET Contracts]
      BY <1>0, <1>9, <3>0, <3>a DEF StoreTypes, RemoveKeys, Sticks,
        Fault, NoFault
    <3>3. fresh' \in [Keys -> BOOLEAN]
      BY <1>0, <1>9, <3>0, <3>a DEF StoreTypes, RemoveKeys, Sticks,
        Fault, NoFault
    <3> QED
      BY <3>1, <3>2, <3>3 DEF StoreTypes
  <2>3. AskTypes'
    BY <1>0, <1>9 DEF AskTypes, RemoveKeys, Sticks, Fault, NoFault
  <2>4. AnswerTypes'
    BY <1>0, <1>9 DEF AnswerTypes, RemoveKeys, Sticks, Fault, NoFault
  <2>5. RefreshTypes'
    <3>0. /\ key \in [Calls -> Keys] /\ wants \in [Calls -> SUBSET Contracts]
          /\ truth \in [Keys -> Versions] /\ floor \in [Keys -> 0..MaxVersion]
          /\ cached \in [Keys -> 0..MaxVersion]
          /\ parts \in [Keys -> SUBSET Contracts]
          /\ fetched \in [Calls -> 0..MaxVersion]
      BY <1>0 DEF TruthTypes, StoreTypes, AskTypes, AnswerTypes
    <3>a. \A q \in Keys : truth[q] \in 0..MaxVersion
      BY <3>0
    <3>1. refresh' \in {"idle", "keys", "remove", "stuck"}
      BY <1>0, <1>9, <3>0, <3>a DEF RefreshTypes, RemoveKeys, Sticks,
        Fault, NoFault
    <3>2. matching' \subseteq Keys
      BY <1>0, <1>9, <3>0, <3>a DEF RefreshTypes, RemoveKeys, Sticks,
        Fault, NoFault
    <3>3. refreshes' \in 0..MaxRefreshes
      BY <1>0, <1>9, <3>0, <3>a DEF RefreshTypes, RemoveKeys, Sticks,
        Fault, NoFault
    <3>4. since' \in [Keys -> 0..MaxVersion]
      BY <1>0, <1>9, <3>0, <3>a DEF RefreshTypes, RemoveKeys, Sticks,
        Fault, NoFault
    <3> QED
      BY <3>1, <3>2, <3>3, <3>4 DEF RefreshTypes
  <2>6. WriteTypes'
    BY <1>0, <1>9 DEF WriteTypes, RemoveKeys, Sticks, Fault, NoFault
  <2>7. FaultTypes'
    BY <1>0, <1>9 DEF FaultTypes, RemoveKeys, Sticks, Fault, NoFault
  <2>8. Stored'
    <3>1. /\ \A d \in Calls : key[d] \in Keys /\ fetched[d] \in Nat
          /\ \A q \in Keys : truth[q] \in Nat \ {0} /\ cached[q] \in Nat
          /\ truth \in [Keys -> Versions]
      BY <1>0 DEF TruthTypes, StoreTypes, AskTypes, AnswerTypes
    <3>2. /\ \A k \in Keys : cached'[k] = cached[k] \/ cached'[k] = 0
          /\ UNCHANGED <<truth, phase, fetched, key>>
      BY <1>9, <1>0 DEF StoreTypes, RemoveKeys, Sticks, Fault, NoFault
    <3> QED
      BY <1>0, <3>1, <3>2 DEF Stored
  <2> QED
    BY <2>1, <2>2, <2>3, <2>4, <2>5, <2>6, <2>7, <2>8 DEF TypeOK
<1>10. ASSUME NEW c \in Calls, ReadCache(c)
    PROVE  TypeOK'
  <2>1. TruthTypes'
    BY <1>0, <1>10 DEF TruthTypes, ReadCache, Refetch, Rejects, Awaits,
      Returns, NoReturn, Fault, NoFault
  <2>2. StoreTypes'
    BY <1>0, <1>10 DEF StoreTypes, ReadCache, Refetch, Rejects, Awaits,
      Returns, NoReturn, Fault, NoFault
  <2>3. AskTypes'
    BY <1>0, <1>10 DEF AskTypes, ReadCache, Refetch, Rejects, Awaits,
      Returns, NoReturn, Fault, NoFault
  <2>4. AnswerTypes'
    <3>0. /\ key \in [Calls -> Keys] /\ wants \in [Calls -> SUBSET Contracts]
          /\ truth \in [Keys -> Versions] /\ floor \in [Keys -> 0..MaxVersion]
          /\ cached \in [Keys -> 0..MaxVersion]
          /\ parts \in [Keys -> SUBSET Contracts]
          /\ fetched \in [Calls -> 0..MaxVersion]
      BY <1>0 DEF TruthTypes, StoreTypes, AskTypes, AnswerTypes
    <3>a. \A q \in Keys : truth[q] \in 0..MaxVersion
      BY <3>0
    <3>b. /\ key[c] \in Keys /\ fetched[c] \in 0..MaxVersion /\ 0 \in 0..MaxVersion
          /\ cached[key[c]] \in 0..MaxVersion /\ truth[key[c]] \in 0..MaxVersion
      BY <3>0
    <3>c. /\ wants[c] \in SUBSET Contracts
          /\ wants[c] \ parts[key[c]] \in SUBSET Contracts
      BY <3>0
    <3>1. phase' \in [Calls -> Phases]
      BY <1>0, <1>10, <3>0, <3>a, <3>b, <3>c DEF AnswerTypes, ReadCache,
        Refetch, Rejects, Awaits, Returns, NoReturn, Fault, NoFault
    <3>2. back' \in [Calls -> BOOLEAN]
      BY <1>0, <1>10, <3>0, <3>a, <3>b, <3>c DEF AnswerTypes, ReadCache,
        Refetch, Rejects, Awaits, Returns, NoReturn, Fault, NoFault
    <3>3. fetched' \in [Calls -> 0..MaxVersion]
      BY <1>0, <1>10, <3>0, <3>a, <3>b, <3>c DEF AnswerTypes, ReadCache,
        Refetch, Rejects, Awaits, Returns, NoReturn, Fault, NoFault
    <3>4. got' \in [Calls -> 0..MaxVersion]
      BY <1>0, <1>10, <3>0, <3>a, <3>b, <3>c DEF AnswerTypes, ReadCache,
        Refetch, Rejects, Awaits, Returns, NoReturn, Fault, NoFault
    <3>5. zeros' \in [Calls -> SUBSET Contracts]
      BY <1>0, <1>10, <3>0, <3>a, <3>b, <3>c DEF AnswerTypes, ReadCache,
        Refetch, Rejects, Awaits, Returns, NoReturn, Fault, NoFault
    <3> QED
      BY <3>1, <3>2, <3>3, <3>4, <3>5 DEF AnswerTypes
  <2>5. RefreshTypes'
    BY <1>0, <1>10 DEF RefreshTypes, ReadCache, Refetch, Rejects, Awaits,
      Returns, NoReturn, Fault, NoFault
  <2>6. WriteTypes'
    BY <1>0, <1>10 DEF WriteTypes, ReadCache, Refetch, Rejects, Awaits,
      Returns, NoReturn, Fault, NoFault
  <2>7. FaultTypes'
    BY <1>0, <1>10 DEF FaultTypes, ReadCache, Refetch, Rejects, Awaits,
      Returns, NoReturn, Fault, NoFault
  <2>8. Stored'
    <3>1. Local(c)
      BY <1>10, StepIsLocal DEF Step
    <3>2. /\ \A d \in Calls : key[d] \in Keys /\ fetched[d] \in Nat
          /\ \A q \in Keys : truth[q] \in Nat \ {0} /\ cached[q] \in Nat
      BY <1>0 DEF TruthTypes, StoreTypes, AskTypes, AnswerTypes
    <3> QED
      BY <1>0, <3>1, <3>2
        DEF Stored, Local, StepFrame, StepOthers, StepMoves, StepStores
  <2> QED
    BY <2>1, <2>2, <2>3, <2>4, <2>5, <2>6, <2>7, <2>8 DEF TypeOK
<1>11. ASSUME NEW c \in Calls, Look(c)
    PROVE  TypeOK'
  <2>1. TruthTypes'
    BY <1>0, <1>11 DEF TruthTypes, Look, Rejects, Awaits, Returns,
      NoReturn, Fault, NoFault
  <2>2. StoreTypes'
    BY <1>0, <1>11 DEF StoreTypes, Look, Rejects, Awaits, Returns,
      NoReturn, Fault, NoFault
  <2>3. AskTypes'
    BY <1>0, <1>11 DEF AskTypes, Look, Rejects, Awaits, Returns, NoReturn,
      Fault, NoFault
  <2>4. AnswerTypes'
    <3>0. /\ key \in [Calls -> Keys] /\ wants \in [Calls -> SUBSET Contracts]
          /\ truth \in [Keys -> Versions] /\ floor \in [Keys -> 0..MaxVersion]
          /\ cached \in [Keys -> 0..MaxVersion]
          /\ parts \in [Keys -> SUBSET Contracts]
          /\ fetched \in [Calls -> 0..MaxVersion]
      BY <1>0 DEF TruthTypes, StoreTypes, AskTypes, AnswerTypes
    <3>a. \A q \in Keys : truth[q] \in 0..MaxVersion
      BY <3>0
    <3>b. /\ key[c] \in Keys /\ fetched[c] \in 0..MaxVersion /\ 0 \in 0..MaxVersion
          /\ cached[key[c]] \in 0..MaxVersion /\ truth[key[c]] \in 0..MaxVersion
      BY <3>0
    <3>c. /\ wants[c] \in SUBSET Contracts
          /\ wants[c] \ parts[key[c]] \in SUBSET Contracts
      BY <3>0
    <3>1. phase' \in [Calls -> Phases]
      BY <1>0, <1>11, <3>0, <3>a, <3>b, <3>c DEF AnswerTypes, Look,
        Rejects, Awaits, Returns, NoReturn, Fault, NoFault
    <3>2. back' \in [Calls -> BOOLEAN]
      BY <1>0, <1>11, <3>0, <3>a, <3>b, <3>c DEF AnswerTypes, Look,
        Rejects, Awaits, Returns, NoReturn, Fault, NoFault
    <3>3. fetched' \in [Calls -> 0..MaxVersion]
      BY <1>0, <1>11, <3>0, <3>a, <3>b, <3>c DEF AnswerTypes, Look,
        Rejects, Awaits, Returns, NoReturn, Fault, NoFault
    <3>4. got' \in [Calls -> 0..MaxVersion]
      BY <1>0, <1>11, <3>0, <3>a, <3>b, <3>c DEF AnswerTypes, Look,
        Rejects, Awaits, Returns, NoReturn, Fault, NoFault
    <3>5. zeros' \in [Calls -> SUBSET Contracts]
      BY <1>0, <1>11, <3>0, <3>a, <3>b, <3>c DEF AnswerTypes, Look,
        Rejects, Awaits, Returns, NoReturn, Fault, NoFault
    <3> QED
      BY <3>1, <3>2, <3>3, <3>4, <3>5 DEF AnswerTypes
  <2>5. RefreshTypes'
    BY <1>0, <1>11 DEF RefreshTypes, Look, Rejects, Awaits, Returns,
      NoReturn, Fault, NoFault
  <2>6. WriteTypes'
    BY <1>0, <1>11 DEF WriteTypes, Look, Rejects, Awaits, Returns,
      NoReturn, Fault, NoFault
  <2>7. FaultTypes'
    BY <1>0, <1>11 DEF FaultTypes, Look, Rejects, Awaits, Returns,
      NoReturn, Fault, NoFault
  <2>8. Stored'
    <3>1. Local(c)
      BY <1>11, StepIsLocal DEF Step
    <3>2. /\ \A d \in Calls : key[d] \in Keys /\ fetched[d] \in Nat
          /\ \A q \in Keys : truth[q] \in Nat \ {0} /\ cached[q] \in Nat
      BY <1>0 DEF TruthTypes, StoreTypes, AskTypes, AnswerTypes
    <3> QED
      BY <1>0, <3>1, <3>2
        DEF Stored, Local, StepFrame, StepOthers, StepMoves, StepStores
  <2> QED
    BY <2>1, <2>2, <2>3, <2>4, <2>5, <2>6, <2>7, <2>8 DEF TypeOK
<1>12. ASSUME NEW c \in Calls, Prune(c)
    PROVE  TypeOK'
  <2>1. TruthTypes'
    BY <1>0, <1>12 DEF TruthTypes, Prune, Drop, Rejects, Awaits, Returns,
      NoReturn, Fault, NoFault
  <2>2. StoreTypes'
    <3>0. /\ key \in [Calls -> Keys] /\ wants \in [Calls -> SUBSET Contracts]
          /\ truth \in [Keys -> Versions] /\ floor \in [Keys -> 0..MaxVersion]
          /\ cached \in [Keys -> 0..MaxVersion]
          /\ parts \in [Keys -> SUBSET Contracts]
          /\ fetched \in [Calls -> 0..MaxVersion]
      BY <1>0 DEF TruthTypes, StoreTypes, AskTypes, AnswerTypes
    <3>a. \A q \in Keys : truth[q] \in 0..MaxVersion
      BY <3>0
    <3>b. /\ key[c] \in Keys /\ fetched[c] \in 0..MaxVersion /\ 0 \in 0..MaxVersion
          /\ cached[key[c]] \in 0..MaxVersion /\ truth[key[c]] \in 0..MaxVersion
      BY <3>0
    <3>c. /\ wants[c] \in SUBSET Contracts
          /\ wants[c] \ parts[key[c]] \in SUBSET Contracts
      BY <3>0
    <3>1. cached' \in [Keys -> 0..MaxVersion]
      BY <1>0, <1>12, <3>0, <3>a, <3>b, <3>c DEF StoreTypes, Prune,
        Drop, Rejects, Awaits, Returns, NoReturn, Fault, NoFault
    <3>2. parts' \in [Keys -> SUBSET Contracts]
      BY <1>0, <1>12, <3>0, <3>a, <3>b, <3>c DEF StoreTypes, Prune,
        Drop, Rejects, Awaits, Returns, NoReturn, Fault, NoFault
    <3>3. fresh' \in [Keys -> BOOLEAN]
      BY <1>0, <1>12, <3>0, <3>a, <3>b, <3>c DEF StoreTypes, Prune,
        Drop, Rejects, Awaits, Returns, NoReturn, Fault, NoFault
    <3> QED
      BY <3>1, <3>2, <3>3 DEF StoreTypes
  <2>3. AskTypes'
    BY <1>0, <1>12 DEF AskTypes, Prune, Drop, Rejects, Awaits, Returns,
      NoReturn, Fault, NoFault
  <2>4. AnswerTypes'
    <3>0. /\ key \in [Calls -> Keys] /\ wants \in [Calls -> SUBSET Contracts]
          /\ truth \in [Keys -> Versions] /\ floor \in [Keys -> 0..MaxVersion]
          /\ cached \in [Keys -> 0..MaxVersion]
          /\ parts \in [Keys -> SUBSET Contracts]
          /\ fetched \in [Calls -> 0..MaxVersion]
      BY <1>0 DEF TruthTypes, StoreTypes, AskTypes, AnswerTypes
    <3>a. \A q \in Keys : truth[q] \in 0..MaxVersion
      BY <3>0
    <3>b. /\ key[c] \in Keys /\ fetched[c] \in 0..MaxVersion /\ 0 \in 0..MaxVersion
          /\ cached[key[c]] \in 0..MaxVersion /\ truth[key[c]] \in 0..MaxVersion
      BY <3>0
    <3>c. /\ wants[c] \in SUBSET Contracts
          /\ wants[c] \ parts[key[c]] \in SUBSET Contracts
      BY <3>0
    <3>1. phase' \in [Calls -> Phases]
      <4>1. \E p \in {"fetch", "over"} : phase' = [phase EXCEPT ![c] = p]
        BY <1>12 DEF Prune, Rejects, Awaits
      <4> QED
        BY <1>0, <4>1 DEF AnswerTypes
    <3>2. back' \in [Calls -> BOOLEAN]
      BY <1>0, <1>12, <3>0, <3>a, <3>b, <3>c DEF AnswerTypes, Prune,
        Drop, Rejects, Awaits, Returns, NoReturn, Fault, NoFault
    <3>3. fetched' \in [Calls -> 0..MaxVersion]
      BY <1>0, <1>12, <3>0, <3>a, <3>b, <3>c DEF AnswerTypes, Prune,
        Drop, Rejects, Awaits, Returns, NoReturn, Fault, NoFault
    <3>4. got' \in [Calls -> 0..MaxVersion]
      BY <1>0, <1>12, <3>0, <3>a, <3>b, <3>c DEF AnswerTypes, Prune,
        Drop, Rejects, Awaits, Returns, NoReturn, Fault, NoFault
    <3>5. zeros' \in [Calls -> SUBSET Contracts]
      BY <1>0, <1>12, <3>0, <3>a, <3>b, <3>c DEF AnswerTypes, Prune,
        Drop, Rejects, Awaits, Returns, NoReturn, Fault, NoFault
    <3> QED
      BY <3>1, <3>2, <3>3, <3>4, <3>5 DEF AnswerTypes
  <2>5. RefreshTypes'
    BY <1>0, <1>12 DEF RefreshTypes, Prune, Drop, Rejects, Awaits,
      Returns, NoReturn, Fault, NoFault
  <2>6. WriteTypes'
    BY <1>0, <1>12 DEF WriteTypes, Prune, Drop, Rejects, Awaits, Returns,
      NoReturn, Fault, NoFault
  <2>7. FaultTypes'
    BY <1>0, <1>12 DEF FaultTypes, Prune, Drop, Rejects, Awaits, Returns,
      NoReturn, Fault, NoFault
  <2>8. Stored'
    <3>1. Local(c)
      BY <1>12, StepIsLocal DEF Step
    <3>2. /\ \A d \in Calls : key[d] \in Keys /\ fetched[d] \in Nat
          /\ \A q \in Keys : truth[q] \in Nat \ {0} /\ cached[q] \in Nat
      BY <1>0 DEF TruthTypes, StoreTypes, AskTypes, AnswerTypes
    <3> QED
      BY <1>0, <3>1, <3>2
        DEF Stored, Local, StepFrame, StepOthers, StepMoves, StepStores
  <2> QED
    BY <2>1, <2>2, <2>3, <2>4, <2>5, <2>6, <2>7, <2>8 DEF TypeOK
<1>13. ASSUME NEW c \in Calls, Serve(c)
    PROVE  TypeOK'
  <2>1. TruthTypes'
    BY <1>0, <1>13 DEF TruthTypes, Serve, Rejects, Awaits, Returns,
      NoReturn, Fault, NoFault
  <2>2. StoreTypes'
    BY <1>0, <1>13 DEF StoreTypes, Serve, Rejects, Awaits, Returns,
      NoReturn, Fault, NoFault
  <2>3. AskTypes'
    BY <1>0, <1>13 DEF AskTypes, Serve, Rejects, Awaits, Returns,
      NoReturn, Fault, NoFault
  <2>4. AnswerTypes'
    <3>0. /\ key \in [Calls -> Keys] /\ wants \in [Calls -> SUBSET Contracts]
          /\ truth \in [Keys -> Versions] /\ floor \in [Keys -> 0..MaxVersion]
          /\ cached \in [Keys -> 0..MaxVersion]
          /\ parts \in [Keys -> SUBSET Contracts]
          /\ fetched \in [Calls -> 0..MaxVersion]
      BY <1>0 DEF TruthTypes, StoreTypes, AskTypes, AnswerTypes
    <3>a. \A q \in Keys : truth[q] \in 0..MaxVersion
      BY <3>0
    <3>b. /\ key[c] \in Keys /\ fetched[c] \in 0..MaxVersion /\ 0 \in 0..MaxVersion
          /\ cached[key[c]] \in 0..MaxVersion /\ truth[key[c]] \in 0..MaxVersion
      BY <3>0
    <3>c. /\ wants[c] \in SUBSET Contracts
          /\ wants[c] \ parts[key[c]] \in SUBSET Contracts
      BY <3>0
    <3>1. phase' \in [Calls -> Phases]
      BY <1>0, <1>13, <3>0, <3>a, <3>b, <3>c DEF AnswerTypes, Serve,
        Rejects, Awaits, Returns, NoReturn, Fault, NoFault
    <3>2. back' \in [Calls -> BOOLEAN]
      BY <1>0, <1>13, <3>0, <3>a, <3>b, <3>c DEF AnswerTypes, Serve,
        Rejects, Awaits, Returns, NoReturn, Fault, NoFault
    <3>3. fetched' \in [Calls -> 0..MaxVersion]
      BY <1>0, <1>13, <3>0, <3>a, <3>b, <3>c DEF AnswerTypes, Serve,
        Rejects, Awaits, Returns, NoReturn, Fault, NoFault
    <3>4. got' \in [Calls -> 0..MaxVersion]
      BY <1>0, <1>13, <3>0, <3>a, <3>b, <3>c DEF AnswerTypes, Serve,
        Rejects, Awaits, Returns, NoReturn, Fault, NoFault
    <3>5. zeros' \in [Calls -> SUBSET Contracts]
      BY <1>0, <1>13, <3>0, <3>a, <3>b, <3>c DEF AnswerTypes, Serve,
        Rejects, Awaits, Returns, NoReturn, Fault, NoFault
    <3> QED
      BY <3>1, <3>2, <3>3, <3>4, <3>5 DEF AnswerTypes
  <2>5. RefreshTypes'
    BY <1>0, <1>13 DEF RefreshTypes, Serve, Rejects, Awaits, Returns,
      NoReturn, Fault, NoFault
  <2>6. WriteTypes'
    BY <1>0, <1>13 DEF WriteTypes, Serve, Rejects, Awaits, Returns,
      NoReturn, Fault, NoFault
  <2>7. FaultTypes'
    BY <1>0, <1>13 DEF FaultTypes, Serve, Rejects, Awaits, Returns,
      NoReturn, Fault, NoFault
  <2>8. Stored'
    <3>1. Local(c)
      BY <1>13, StepIsLocal DEF Step
    <3>2. /\ \A d \in Calls : key[d] \in Keys /\ fetched[d] \in Nat
          /\ \A q \in Keys : truth[q] \in Nat \ {0} /\ cached[q] \in Nat
      BY <1>0 DEF TruthTypes, StoreTypes, AskTypes, AnswerTypes
    <3> QED
      BY <1>0, <3>1, <3>2
        DEF Stored, Local, StepFrame, StepOthers, StepMoves, StepStores
  <2> QED
    BY <2>1, <2>2, <2>3, <2>4, <2>5, <2>6, <2>7, <2>8 DEF TypeOK
<1>14. ASSUME NEW c \in Calls, Put(c)
    PROVE  TypeOK'
  <2>1. TruthTypes'
    BY <1>0, <1>14 DEF TruthTypes, Put, Save, Rejects, Awaits, Returns,
      NoReturn, Fault, NoFault
  <2>2. StoreTypes'
    <3>0. /\ key \in [Calls -> Keys] /\ wants \in [Calls -> SUBSET Contracts]
          /\ truth \in [Keys -> Versions] /\ floor \in [Keys -> 0..MaxVersion]
          /\ cached \in [Keys -> 0..MaxVersion]
          /\ parts \in [Keys -> SUBSET Contracts]
          /\ fetched \in [Calls -> 0..MaxVersion]
      BY <1>0 DEF TruthTypes, StoreTypes, AskTypes, AnswerTypes
    <3>a. \A q \in Keys : truth[q] \in 0..MaxVersion
      BY <3>0
    <3>b. /\ key[c] \in Keys /\ fetched[c] \in 0..MaxVersion /\ 0 \in 0..MaxVersion
          /\ cached[key[c]] \in 0..MaxVersion /\ truth[key[c]] \in 0..MaxVersion
      BY <3>0
    <3>c. /\ wants[c] \in SUBSET Contracts
          /\ wants[c] \ parts[key[c]] \in SUBSET Contracts
      BY <3>0
    <3>1. cached' \in [Keys -> 0..MaxVersion]
      BY <1>0, <1>14, <3>0, <3>a, <3>b, <3>c DEF StoreTypes, Put, Save,
        Rejects, Awaits, Returns, NoReturn, Fault, NoFault
    <3>2. parts' \in [Keys -> SUBSET Contracts]
      BY <1>0, <1>14, <3>0, <3>a, <3>b, <3>c DEF StoreTypes, Put, Save,
        Rejects, Awaits, Returns, NoReturn, Fault, NoFault
    <3>3. fresh' \in [Keys -> BOOLEAN]
      BY <1>0, <1>14, <3>0, <3>a, <3>b, <3>c DEF StoreTypes, Put, Save,
        Rejects, Awaits, Returns, NoReturn, Fault, NoFault
    <3> QED
      BY <3>1, <3>2, <3>3 DEF StoreTypes
  <2>3. AskTypes'
    BY <1>0, <1>14 DEF AskTypes, Put, Save, Rejects, Awaits, Returns,
      NoReturn, Fault, NoFault
  <2>4. AnswerTypes'
    <3>0. /\ key \in [Calls -> Keys] /\ wants \in [Calls -> SUBSET Contracts]
          /\ truth \in [Keys -> Versions] /\ floor \in [Keys -> 0..MaxVersion]
          /\ cached \in [Keys -> 0..MaxVersion]
          /\ parts \in [Keys -> SUBSET Contracts]
          /\ fetched \in [Calls -> 0..MaxVersion]
      BY <1>0 DEF TruthTypes, StoreTypes, AskTypes, AnswerTypes
    <3>a. \A q \in Keys : truth[q] \in 0..MaxVersion
      BY <3>0
    <3>b. /\ key[c] \in Keys /\ fetched[c] \in 0..MaxVersion /\ 0 \in 0..MaxVersion
          /\ cached[key[c]] \in 0..MaxVersion /\ truth[key[c]] \in 0..MaxVersion
      BY <3>0
    <3>c. /\ wants[c] \in SUBSET Contracts
          /\ wants[c] \ parts[key[c]] \in SUBSET Contracts
      BY <3>0
    <3>1. phase' \in [Calls -> Phases]
      BY <1>0, <1>14, <3>0, <3>a, <3>b, <3>c DEF AnswerTypes, Put, Save,
        Rejects, Awaits, Returns, NoReturn, Fault, NoFault
    <3>2. back' \in [Calls -> BOOLEAN]
      BY <1>0, <1>14, <3>0, <3>a, <3>b, <3>c DEF AnswerTypes, Put, Save,
        Rejects, Awaits, Returns, NoReturn, Fault, NoFault
    <3>3. fetched' \in [Calls -> 0..MaxVersion]
      BY <1>0, <1>14, <3>0, <3>a, <3>b, <3>c DEF AnswerTypes, Put, Save,
        Rejects, Awaits, Returns, NoReturn, Fault, NoFault
    <3>4. got' \in [Calls -> 0..MaxVersion]
      BY <1>0, <1>14, <3>0, <3>a, <3>b, <3>c DEF AnswerTypes, Put, Save,
        Rejects, Awaits, Returns, NoReturn, Fault, NoFault
    <3>5. zeros' \in [Calls -> SUBSET Contracts]
      BY <1>0, <1>14, <3>0, <3>a, <3>b, <3>c DEF AnswerTypes, Put, Save,
        Rejects, Awaits, Returns, NoReturn, Fault, NoFault
    <3> QED
      BY <3>1, <3>2, <3>3, <3>4, <3>5 DEF AnswerTypes
  <2>5. RefreshTypes'
    BY <1>0, <1>14 DEF RefreshTypes, Put, Save, Rejects, Awaits, Returns,
      NoReturn, Fault, NoFault
  <2>6. WriteTypes'
    BY <1>0, <1>14 DEF WriteTypes, Put, Save, Rejects, Awaits, Returns,
      NoReturn, Fault, NoFault
  <2>7. FaultTypes'
    BY <1>0, <1>14 DEF FaultTypes, Put, Save, Rejects, Awaits, Returns,
      NoReturn, Fault, NoFault
  <2>8. Stored'
    <3>1. Local(c)
      BY <1>14, StepIsLocal DEF Step
    <3>2. /\ \A d \in Calls : key[d] \in Keys /\ fetched[d] \in Nat
          /\ \A q \in Keys : truth[q] \in Nat \ {0} /\ cached[q] \in Nat
      BY <1>0 DEF TruthTypes, StoreTypes, AskTypes, AnswerTypes
    <3> QED
      BY <1>0, <3>1, <3>2
        DEF Stored, Local, StepFrame, StepOthers, StepMoves, StepStores
  <2> QED
    BY <2>1, <2>2, <2>3, <2>4, <2>5, <2>6, <2>7, <2>8 DEF TypeOK
<1>15. CASE UNCHANGED vars
  BY <1>15 DEF TypeOK, TruthTypes, StoreTypes, AskTypes, AnswerTypes,
    RefreshTypes, WriteTypes, FaultTypes, Stored
<1> QED
  BY <1>1, <1>2, <1>3, <1>4, <1>5, <1>6, <1>7, <1>8, <1>9, <1>10, <1>11,
    <1>12, <1>13, <1>14, <1>15 DEF Next, Step

\* A call that starts takes the next number; the other calls do not notice.
Starts(c, k, w, f) ==
  /\ c = started + 1 /\ started' = started + 1
  /\ key'[c] = k /\ wants'[c] = w /\ (k = Registry => w = {})
  /\ phase'[c] = IF f THEN "fetch" ELSE "read"
  /\ asOf'[c] = IF f THEN truth[k] ELSE floor[k]
  /\ \A d \in Calls \ {c} :
       /\ key'[d] = key[d] /\ wants'[d] = wants[d]
       /\ phase'[d] = phase[d] /\ asOf'[d] = asOf[d]
  /\ UNCHANGED <<truth, store, fetched, got, zeros, floor>>

LEMMA AskStarts ==
  ASSUME TypeOK, NEW k \in Keys, NEW w \in SUBSET Contracts,
         NEW f \in BOOLEAN, Ask(k, w, f)
  PROVE  \E c \in Calls : Starts(c, k, w, f)
<1>1. started + 1 \in Calls
  BY TtlAssumption DEF TypeOK, AskTypes, Ask, Calls
<1>2. /\ key \in [Calls -> Keys] /\ wants \in [Calls -> SUBSET Contracts]
      /\ phase \in [Calls -> Phases] /\ asOf \in [Calls -> 0..MaxVersion]
  BY DEF TypeOK, AskTypes, AnswerTypes
<1> DEFINE c == started + 1
<1>3. /\ started' = c /\ (k = Registry => w = {})
      /\ key' = [key EXCEPT ![c] = k] /\ wants' = [wants EXCEPT ![c] = w]
      /\ phase' = [phase EXCEPT ![c] = IF f THEN "fetch" ELSE "read"]
      /\ asOf' = [asOf EXCEPT ![c] = IF f THEN truth[k] ELSE floor[k]]
      /\ UNCHANGED <<truth, store, fetched, got, zeros, floor>>
  BY DEF Ask
<1>4. c \in Calls
  BY <1>1
<1> HIDE DEF c
<1>5. /\ key'[c] = k /\ wants'[c] = w
      /\ phase'[c] = IF f THEN "fetch" ELSE "read"
      /\ asOf'[c] = IF f THEN truth[k] ELSE floor[k]
      /\ \A d \in Calls \ {c} :
           /\ key'[d] = key[d] /\ wants'[d] = wants[d]
           /\ phase'[d] = phase[d] /\ asOf'[d] = asOf[d]
  BY <1>2, <1>3, <1>4
<1>6. Starts(c, k, w, f)
  BY <1>3, <1>5 DEF Starts, c
<1> QED
  BY <1>4, <1>6

\* Calls start in order.
LEMMA CallsInOrderStep ==
  TypeOK /\ CallsInOrder /\ [Next]_vars => CallsInOrder'
<1> SUFFICES ASSUME TypeOK, CallsInOrder, [Next]_vars
             PROVE  CallsInOrder'
  OBVIOUS
<1> USE TtlAssumption DEF vars, store, asked, answers, calls, button,
  registry, Keys, Calls, Versions, Phases
<1>0. TruthTypes /\ StoreTypes /\ AskTypes /\ AnswerTypes /\ RefreshTypes
      /\ WriteTypes /\ Stored
  BY DEF TypeOK
<1>1. ASSUME NEW k \in Keys, Change(k)
    PROVE  CallsInOrder'
  BY <1>1 DEF CallsInOrder, Change
<1>2. ASSUME NEW k \in Keys, Expire(k)
    PROVE  CallsInOrder'
  BY <1>2 DEF CallsInOrder, Expire
<1>3. ASSUME NEW k \in Keys, NEW w \in SUBSET Contracts, NEW f \in BOOLEAN,
  Ask(k, w, f)
    PROVE  CallsInOrder'
  <2>1. PICK c \in Calls : Starts(c, k, w, f)
    BY <1>3, AskStarts
  <2>2. \A d \in Calls : key'[d] = Registry => wants'[d] = {}
    BY <2>1 DEF CallsInOrder, Starts
  <2>3. \A d \in Calls : d > started' => d # c /\ d > started
    BY <1>0, <2>1 DEF AskTypes, Starts
  <2> QED
    BY <2>1, <2>2, <2>3 DEF CallsInOrder, Starts
<1>4. ASSUME StartWrite
    PROVE  CallsInOrder'
  BY <1>4 DEF CallsInOrder, StartWrite
<1>5. ASSUME UpdateRegistry
    PROVE  CallsInOrder'
  BY <1>5 DEF CallsInOrder, UpdateRegistry
<1>6. ASSUME RemoveFromCache
    PROVE  CallsInOrder'
  BY <1>6 DEF CallsInOrder, RemoveFromCache
<1>7. ASSUME Press
    PROVE  CallsInOrder'
  BY <1>7 DEF CallsInOrder, Press
<1>8. ASSUME FindKeys
    PROVE  CallsInOrder'
  BY <1>8 DEF CallsInOrder, FindKeys
<1>9. ASSUME RemoveKeys
    PROVE  CallsInOrder'
  BY <1>9 DEF CallsInOrder, RemoveKeys
<1>10. ASSUME NEW c \in Calls, Step(c)
    PROVE  CallsInOrder'
  <2>1. Local(c)
    BY <1>10, StepIsLocal
  <2>2. ~(c > started)
    BY <2>1 DEF CallsInOrder, Local, StepMoves
  <2>3. UNCHANGED <<started, key, wants>>
    BY <2>1 DEF Local, StepFrame
  <2> QED
    BY <2>1, <2>2, <2>3 DEF CallsInOrder, Local, StepOthers
<1>11. CASE UNCHANGED vars
  BY <1>11 DEF CallsInOrder
<1> QED
  BY <1>1, <1>2, <1>3, <1>4, <1>5, <1>6, <1>7, <1>8, <1>9, <1>10, <1>11 DEF
    Next

\* The floor is below the truth and below what is stored.
LEMMA FloorHoldsStep ==
  TypeOK /\ FloorHolds /\ HeldAbove /\ RefreshHolds /\ CalmHolds /\
    [Next]_vars => FloorHolds'
<1> SUFFICES ASSUME TypeOK, FloorHolds, HeldAbove, RefreshHolds, CalmHolds,
  [Next]_vars
             PROVE  FloorHolds'
  OBVIOUS
<1> USE TtlAssumption DEF vars, store, asked, answers, calls, button,
  registry, Keys, Calls, Versions, Phases
<1>0. TruthTypes /\ StoreTypes /\ AskTypes /\ AnswerTypes /\ RefreshTypes
      /\ WriteTypes /\ Stored
  BY DEF TypeOK
<1>1. ASSUME NEW k \in Keys, Change(k)
    PROVE  FloorHolds'
  BY <1>0, <1>1 DEF TruthTypes, StoreTypes, AskTypes, AnswerTypes,
    RefreshTypes, WriteTypes, Stored, FloorHolds, HeldAbove, RefreshHolds,
    CalmHolds, Holds, Active, Change
<1>2. ASSUME NEW k \in Keys, Expire(k)
    PROVE  FloorHolds'
  BY <1>0, <1>2 DEF TruthTypes, StoreTypes, AskTypes, AnswerTypes,
    RefreshTypes, WriteTypes, Stored, FloorHolds, HeldAbove, RefreshHolds,
    CalmHolds, Holds, Active, Expire
<1>3. ASSUME NEW k \in Keys, NEW w \in SUBSET Contracts, NEW f \in BOOLEAN,
  Ask(k, w, f)
    PROVE  FloorHolds'
  BY <1>0, <1>3 DEF TruthTypes, StoreTypes, AskTypes, AnswerTypes,
    RefreshTypes, WriteTypes, Stored, FloorHolds, HeldAbove, RefreshHolds,
    CalmHolds, Holds, Active, Ask
<1>4. ASSUME StartWrite
    PROVE  FloorHolds'
  BY <1>0, <1>4 DEF TruthTypes, StoreTypes, AskTypes, AnswerTypes,
    RefreshTypes, WriteTypes, Stored, FloorHolds, HeldAbove, RefreshHolds,
    CalmHolds, Holds, Active, StartWrite
<1>5. ASSUME UpdateRegistry
    PROVE  FloorHolds'
  BY <1>0, <1>5 DEF TruthTypes, StoreTypes, AskTypes, AnswerTypes,
    RefreshTypes, WriteTypes, Stored, FloorHolds, HeldAbove, RefreshHolds,
    CalmHolds, Holds, Active, UpdateRegistry, Resolves, Breaks, Fault,
    NoFault
<1>6. ASSUME RemoveFromCache
    PROVE  FloorHolds'
  BY <1>0, <1>6 DEF TruthTypes, StoreTypes, AskTypes, AnswerTypes,
    RefreshTypes, WriteTypes, Stored, FloorHolds, HeldAbove, RefreshHolds,
    CalmHolds, Holds, Active, RemoveFromCache, Drop, Resolves, Breaks,
    Fault, NoFault
<1>7. ASSUME Press
    PROVE  FloorHolds'
  BY <1>0, <1>7 DEF TruthTypes, StoreTypes, AskTypes, AnswerTypes,
    RefreshTypes, WriteTypes, Stored, FloorHolds, HeldAbove, RefreshHolds,
    CalmHolds, Holds, Active, Press
<1>8. ASSUME FindKeys
    PROVE  FloorHolds'
  <2>1. /\ \A d \in Calls : key[d] \in Keys /\ fetched[d] \in Nat /\ asOf[d] \in Nat
        /\ \A k \in Keys : truth[k] \in Nat /\ cached[k] \in Nat /\ floor[k] \in Nat
                           /\ since[k] \in Nat
    BY <1>0 DEF TruthTypes, StoreTypes, AskTypes, AnswerTypes, RefreshTypes
  <2>2. /\ UNCHANGED <<cached, truth, floor>>
        /\ \A k \in Keys : since'[k] \in {0, since[k], truth[k]}
    BY <1>8 DEF FindKeys, Sticks
  <2> QED
    BY <2>1, <2>2 DEF FloorHolds
<1>9. ASSUME RemoveKeys
    PROVE  FloorHolds'
  <2>1. /\ \A d \in Calls : key[d] \in Keys /\ fetched[d] \in Nat /\ asOf[d] \in Nat
        /\ \A k \in Keys : truth[k] \in Nat /\ cached[k] \in Nat /\ floor[k] \in Nat
                           /\ since[k] \in Nat
    BY <1>0 DEF TruthTypes, StoreTypes, AskTypes, AnswerTypes, RefreshTypes
  <2>2. /\ UNCHANGED <<truth, key, phase, fetched, asOf>>
        /\ \A k \in Keys : since'[k] \in {0, since[k]}
        /\ \/ UNCHANGED <<cached, floor>>
           \/ /\ refresh = "remove"
              /\ \A k \in Keys : /\ floor'[k] = IF since[k] > floor[k] THEN since[k]
                                                 ELSE floor[k]
                                 /\ \/ cached'[k] = 0
                                    \/ k \notin matching /\ cached'[k] = cached[k]
    BY <1>9 DEF RemoveKeys, Sticks
  <2> QED
    BY <2>1, <2>2 DEF FloorHolds, RefreshHolds
<1>10. ASSUME NEW c \in Calls, Step(c)
    PROVE  FloorHolds'
  <2>1. Local(c)
    BY <1>10, StepIsLocal
  <2> QED
    BY <1>0, <2>1 DEF TruthTypes, StoreTypes, AskTypes, AnswerTypes,
      RefreshTypes, WriteTypes, Stored, FloorHolds, HeldAbove,
      RefreshHolds, CalmHolds, Holds, Active, Local, StepFrame,
      StepOthers, StepMoves, StepStores, StepReturns
<1>11. CASE UNCHANGED vars
  BY <1>11 DEF Active, FloorHolds, Holds
<1> QED
  BY <1>1, <1>2, <1>3, <1>4, <1>5, <1>6, <1>7, <1>8, <1>9, <1>10, <1>11 DEF
    Next

\* A value on its way to the store may be returned and stored.
LEMMA HeldAboveStep ==
  TypeOK /\ CallsInOrder /\ FloorHolds /\ HeldAbove /\ AskedBelow /\
    RefreshHolds /\ CalmHolds /\ [Next]_vars => HeldAbove'
<1> SUFFICES ASSUME TypeOK, CallsInOrder, FloorHolds, HeldAbove, AskedBelow,
  RefreshHolds, CalmHolds, [Next]_vars
             PROVE  HeldAbove'
  OBVIOUS
<1> USE TtlAssumption DEF vars, store, asked, answers, calls, button,
  registry, Keys, Calls, Versions, Phases
<1>0. TruthTypes /\ StoreTypes /\ AskTypes /\ AnswerTypes /\ RefreshTypes
      /\ WriteTypes /\ Stored
  BY DEF TypeOK
<1>1. ASSUME NEW k \in Keys, Change(k)
    PROVE  HeldAbove'
  BY <1>0, <1>1 DEF TruthTypes, StoreTypes, AskTypes, AnswerTypes,
    RefreshTypes, WriteTypes, Stored, CallsInOrder, FloorHolds, HeldAbove,
    AskedBelow, RefreshHolds, CalmHolds, Holds, Active, Change
<1>2. ASSUME NEW k \in Keys, Expire(k)
    PROVE  HeldAbove'
  BY <1>0, <1>2 DEF TruthTypes, StoreTypes, AskTypes, AnswerTypes,
    RefreshTypes, WriteTypes, Stored, CallsInOrder, FloorHolds, HeldAbove,
    AskedBelow, RefreshHolds, CalmHolds, Holds, Active, Expire
<1>3. ASSUME NEW k \in Keys, NEW w \in SUBSET Contracts, NEW f \in BOOLEAN,
  Ask(k, w, f)
    PROVE  HeldAbove'
  <2>1. PICK c \in Calls : Starts(c, k, w, f)
    BY <1>3, AskStarts
  <2> QED
    BY <2>1 DEF HeldAbove, Starts
<1>4. ASSUME StartWrite
    PROVE  HeldAbove'
  BY <1>4 DEF HeldAbove, StartWrite
<1>5. ASSUME UpdateRegistry
    PROVE  HeldAbove'
  <2>1. /\ floor' \in {floor, [floor EXCEPT ![Registry] = truth[Registry] + 1]}
        /\ floor' = floor \/ (calm /\ todo # {})
        /\ UNCHANGED <<phase, fetched, key, asOf>>
    BY <1>5 DEF UpdateRegistry, Resolves, Breaks
  <2>2. CASE floor' = floor
    BY <2>1, <2>2 DEF HeldAbove
  <2>3. CASE /\ floor' = [floor EXCEPT ![Registry] = truth[Registry] + 1]
             /\ \A d \in Calls : key[d] = Registry => ~Active(d)
    <3>1. floor \in [Keys -> 0..MaxVersion] /\ key \in [Calls -> Keys]
      BY <1>0 DEF TruthTypes, AskTypes
    <3>2. \A d \in Calls : phase[d] = "store" => floor'[key[d]] = floor[key[d]]
      BY <2>3, <3>1 DEF Active
    <3> QED
      BY <2>1, <3>2 DEF HeldAbove
  <2> QED
    BY <2>1, <2>2, <2>3 DEF CalmHolds
<1>6. ASSUME RemoveFromCache
    PROVE  HeldAbove'
  <2>1. /\ floor' \in {floor, [floor EXCEPT ![Registry] = truth[Registry]]}
        /\ floor' = floor \/ (calm /\ todo # {})
        /\ UNCHANGED <<phase, fetched, key, asOf>>
    BY <1>6 DEF RemoveFromCache, Resolves, Breaks
  <2>2. CASE floor' = floor
    BY <2>1, <2>2 DEF HeldAbove
  <2>3. CASE /\ floor' = [floor EXCEPT ![Registry] = truth[Registry]]
             /\ \A d \in Calls : key[d] = Registry => ~Active(d)
    <3>1. floor \in [Keys -> 0..MaxVersion] /\ key \in [Calls -> Keys]
      BY <1>0 DEF TruthTypes, AskTypes
    <3>2. \A d \in Calls : phase[d] = "store" => floor'[key[d]] = floor[key[d]]
      BY <2>3, <3>1 DEF Active
    <3> QED
      BY <2>1, <3>2 DEF HeldAbove
  <2> QED
    BY <2>1, <2>2, <2>3 DEF CalmHolds
<1>7. ASSUME Press
    PROVE  HeldAbove'
  BY <1>0, <1>7 DEF TruthTypes, StoreTypes, AskTypes, AnswerTypes,
    RefreshTypes, WriteTypes, Stored, CallsInOrder, FloorHolds, HeldAbove,
    AskedBelow, RefreshHolds, CalmHolds, Holds, Active, Press
<1>8. ASSUME FindKeys
    PROVE  HeldAbove'
  BY <1>0, <1>8 DEF TruthTypes, StoreTypes, AskTypes, AnswerTypes,
    RefreshTypes, WriteTypes, Stored, CallsInOrder, FloorHolds, HeldAbove,
    AskedBelow, RefreshHolds, CalmHolds, Holds, Active, FindKeys, Sticks,
    Fault, NoFault
<1>9. ASSUME RemoveKeys
    PROVE  HeldAbove'
  <2>1. /\ \A d \in Calls : key[d] \in Keys /\ fetched[d] \in Nat /\ asOf[d] \in Nat
        /\ \A k \in Keys : truth[k] \in Nat /\ cached[k] \in Nat /\ floor[k] \in Nat
                           /\ since[k] \in Nat
    BY <1>0 DEF TruthTypes, StoreTypes, AskTypes, AnswerTypes, RefreshTypes
  <2>2. /\ UNCHANGED <<truth, key, phase, fetched, asOf>>
        /\ \A k \in Keys : since'[k] \in {0, since[k]}
        /\ \/ UNCHANGED <<cached, floor>>
           \/ /\ refresh = "remove"
              /\ \A k \in Keys : /\ floor'[k] = IF since[k] > floor[k] THEN since[k]
                                                 ELSE floor[k]
                                 /\ \/ cached'[k] = 0
                                    \/ k \notin matching /\ cached'[k] = cached[k]
    BY <1>9 DEF RemoveKeys, Sticks
  <2> QED
    BY <2>1, <2>2 DEF HeldAbove, RefreshHolds, Holds
<1>10. ASSUME NEW c \in Calls, Step(c)
    PROVE  HeldAbove'
  <2>1. Local(c)
    BY <1>10, StepIsLocal
  <2>2. /\ \A d \in Calls : key[d] \in Keys /\ fetched[d] \in Nat /\ asOf[d] \in Nat
        /\ \A k \in Keys : truth[k] \in Nat /\ cached[k] \in Nat /\ floor[k] \in Nat
                           /\ since[k] \in Nat
    BY <1>0 DEF TruthTypes, StoreTypes, AskTypes, AnswerTypes, RefreshTypes
  <2> QED
    BY <1>0, <2>1, <2>2 DEF HeldAbove, AskedBelow, FloorHolds, Local,
      StepFrame, StepOthers, StepMoves
<1>11. CASE UNCHANGED vars
  BY <1>11 DEF Active, HeldAbove, Holds
<1> QED
  BY <1>1, <1>2, <1>3, <1>4, <1>5, <1>6, <1>7, <1>8, <1>9, <1>10, <1>11 DEF
    Next

\* A call that reads may return what is stored.
LEMMA AskedBelowStep ==
  TypeOK /\ CallsInOrder /\ FloorHolds /\ AskedBelow /\ [Next]_vars =>
    AskedBelow'
<1> SUFFICES ASSUME TypeOK, CallsInOrder, FloorHolds, AskedBelow, [Next]_vars
             PROVE  AskedBelow'
  OBVIOUS
<1> USE TtlAssumption DEF vars, store, asked, answers, calls, button,
  registry, Keys, Calls, Versions, Phases
<1>0. TruthTypes /\ StoreTypes /\ AskTypes /\ AnswerTypes /\ RefreshTypes
      /\ WriteTypes /\ Stored
  BY DEF TypeOK
<1>1. ASSUME NEW k \in Keys, Change(k)
    PROVE  AskedBelow'
  BY <1>0, <1>1 DEF TruthTypes, StoreTypes, AskTypes, AnswerTypes,
    RefreshTypes, WriteTypes, Stored, CallsInOrder, FloorHolds, AskedBelow,
    Change
<1>2. ASSUME NEW k \in Keys, Expire(k)
    PROVE  AskedBelow'
  BY <1>0, <1>2 DEF TruthTypes, StoreTypes, AskTypes, AnswerTypes,
    RefreshTypes, WriteTypes, Stored, CallsInOrder, FloorHolds, AskedBelow,
    Expire
<1>3. ASSUME NEW k \in Keys, NEW w \in SUBSET Contracts, NEW f \in BOOLEAN,
  Ask(k, w, f)
    PROVE  AskedBelow'
  BY <1>0, <1>3 DEF TruthTypes, StoreTypes, AskTypes, AnswerTypes,
    RefreshTypes, WriteTypes, Stored, CallsInOrder, FloorHolds, AskedBelow,
    Ask
<1>4. ASSUME StartWrite
    PROVE  AskedBelow'
  BY <1>0, <1>4 DEF TruthTypes, StoreTypes, AskTypes, AnswerTypes,
    RefreshTypes, WriteTypes, Stored, CallsInOrder, FloorHolds, AskedBelow,
    StartWrite
<1>5. ASSUME UpdateRegistry
    PROVE  AskedBelow'
  <2>1. /\ \A d \in Calls : key[d] \in Keys /\ fetched[d] \in Nat /\ asOf[d] \in Nat
        /\ \A k \in Keys : truth[k] \in Nat /\ cached[k] \in Nat /\ floor[k] \in Nat
                           /\ since[k] \in Nat
    BY <1>0 DEF TruthTypes, StoreTypes, AskTypes, AnswerTypes, RefreshTypes
  <2>2. /\ UNCHANGED <<key, phase, asOf>>
        /\ \A q \in Keys : truth'[q] \in Nat /\ truth'[q] >= truth[q]
    BY <1>0, <2>1, <1>5 DEF UpdateRegistry, Breaks, TruthTypes
  <2>3. \A k \in Keys : floor'[k] \in Nat /\ floor'[k] >= floor[k]
    BY <1>0, <2>1, <1>5
      DEF UpdateRegistry, Resolves, Breaks, TruthTypes, FloorHolds
  <2> QED
    BY <2>1, <2>2, <2>3 DEF AskedBelow
<1>6. ASSUME RemoveFromCache
    PROVE  AskedBelow'
  BY <1>0, <1>6 DEF TruthTypes, StoreTypes, AskTypes, AnswerTypes,
    RefreshTypes, WriteTypes, Stored, CallsInOrder, FloorHolds, AskedBelow,
    RemoveFromCache, Drop, Resolves, Breaks, Fault, NoFault
<1>7. ASSUME Press
    PROVE  AskedBelow'
  BY <1>0, <1>7 DEF TruthTypes, StoreTypes, AskTypes, AnswerTypes,
    RefreshTypes, WriteTypes, Stored, CallsInOrder, FloorHolds, AskedBelow,
    Press
<1>8. ASSUME FindKeys
    PROVE  AskedBelow'
  BY <1>0, <1>8 DEF TruthTypes, StoreTypes, AskTypes, AnswerTypes,
    RefreshTypes, WriteTypes, Stored, CallsInOrder, FloorHolds, AskedBelow,
    FindKeys, Sticks, Fault, NoFault
<1>9. ASSUME RemoveKeys
    PROVE  AskedBelow'
  <2>1. /\ \A d \in Calls : key[d] \in Keys /\ fetched[d] \in Nat /\ asOf[d] \in Nat
        /\ \A k \in Keys : truth[k] \in Nat /\ cached[k] \in Nat /\ floor[k] \in Nat
                           /\ since[k] \in Nat
    BY <1>0 DEF TruthTypes, StoreTypes, AskTypes, AnswerTypes, RefreshTypes
  <2>2. /\ UNCHANGED <<truth, key, phase, fetched, asOf>>
        /\ \A k \in Keys : since'[k] \in {0, since[k]}
        /\ \/ UNCHANGED <<cached, floor>>
           \/ /\ refresh = "remove"
              /\ \A k \in Keys : /\ floor'[k] = IF since[k] > floor[k] THEN since[k]
                                                 ELSE floor[k]
                                 /\ \/ cached'[k] = 0
                                    \/ k \notin matching /\ cached'[k] = cached[k]
    BY <1>9 DEF RemoveKeys, Sticks
  <2> QED
    BY <2>1, <2>2 DEF AskedBelow
<1>10. ASSUME NEW c \in Calls, Step(c)
    PROVE  AskedBelow'
  <2>1. Local(c)
    BY <1>10, StepIsLocal
  <2>2. /\ \A d \in Calls : key[d] \in Keys /\ fetched[d] \in Nat /\ asOf[d] \in Nat
        /\ \A k \in Keys : truth[k] \in Nat /\ cached[k] \in Nat /\ floor[k] \in Nat
                           /\ since[k] \in Nat
    BY <1>0 DEF TruthTypes, StoreTypes, AskTypes, AnswerTypes, RefreshTypes
  <2> QED
    BY <1>0, <2>1, <2>2 DEF AskedBelow, FloorHolds, Local, StepFrame,
      StepOthers, StepMoves
<1>11. CASE UNCHANGED vars
  BY <1>11 DEF AskedBelow
<1> QED
  BY <1>1, <1>2, <1>3, <1>4, <1>5, <1>6, <1>7, <1>8, <1>9, <1>10, <1>11 DEF
    Next

\* What a refresh leaves in the store is as new as its start.
LEMMA RefreshHoldsStep ==
  TypeOK /\ CallsInOrder /\ FloorHolds /\ RefreshHolds /\ [Next]_vars =>
    RefreshHolds'
<1> SUFFICES ASSUME TypeOK, CallsInOrder, FloorHolds, RefreshHolds,
  [Next]_vars
             PROVE  RefreshHolds'
  OBVIOUS
<1> USE TtlAssumption DEF vars, store, asked, answers, calls, button,
  registry, Keys, Calls, Versions, Phases
<1>0. TruthTypes /\ StoreTypes /\ AskTypes /\ AnswerTypes /\ RefreshTypes
      /\ WriteTypes /\ Stored
  BY DEF TypeOK
<1>1. ASSUME NEW k \in Keys, Change(k)
    PROVE  RefreshHolds'
  BY <1>0, <1>1 DEF TruthTypes, StoreTypes, AskTypes, AnswerTypes,
    RefreshTypes, WriteTypes, Stored, CallsInOrder, FloorHolds,
    RefreshHolds, Holds, Change
<1>2. ASSUME NEW k \in Keys, Expire(k)
    PROVE  RefreshHolds'
  BY <1>0, <1>2 DEF TruthTypes, StoreTypes, AskTypes, AnswerTypes,
    RefreshTypes, WriteTypes, Stored, CallsInOrder, FloorHolds,
    RefreshHolds, Holds, Expire
<1>3. ASSUME NEW k \in Keys, NEW w \in SUBSET Contracts, NEW f \in BOOLEAN,
  Ask(k, w, f)
    PROVE  RefreshHolds'
  BY <1>0, <1>3 DEF TruthTypes, StoreTypes, AskTypes, AnswerTypes,
    RefreshTypes, WriteTypes, Stored, CallsInOrder, FloorHolds,
    RefreshHolds, Holds, Ask
<1>4. ASSUME StartWrite
    PROVE  RefreshHolds'
  BY <1>0, <1>4 DEF TruthTypes, StoreTypes, AskTypes, AnswerTypes,
    RefreshTypes, WriteTypes, Stored, CallsInOrder, FloorHolds,
    RefreshHolds, Holds, StartWrite
<1>5. ASSUME UpdateRegistry
    PROVE  RefreshHolds'
  BY <1>0, <1>5 DEF TruthTypes, StoreTypes, AskTypes, AnswerTypes,
    RefreshTypes, WriteTypes, Stored, CallsInOrder, FloorHolds,
    RefreshHolds, Holds, UpdateRegistry, Resolves, Breaks, Fault, NoFault
<1>6. ASSUME RemoveFromCache
    PROVE  RefreshHolds'
  BY <1>0, <1>6 DEF TruthTypes, StoreTypes, AskTypes, AnswerTypes,
    RefreshTypes, WriteTypes, Stored, CallsInOrder, FloorHolds,
    RefreshHolds, Holds, RemoveFromCache, Drop, Resolves, Breaks, Fault,
    NoFault
<1>7. ASSUME Press
    PROVE  RefreshHolds'
  BY <1>0, <1>7 DEF TruthTypes, StoreTypes, AskTypes, AnswerTypes,
    RefreshTypes, WriteTypes, Stored, CallsInOrder, FloorHolds,
    RefreshHolds, Holds, Press
<1>8. ASSUME FindKeys
    PROVE  RefreshHolds'
  BY <1>0, <1>8 DEF TruthTypes, StoreTypes, AskTypes, AnswerTypes,
    RefreshTypes, WriteTypes, Stored, CallsInOrder, FloorHolds,
    RefreshHolds, Holds, FindKeys, Sticks, Fault, NoFault
<1>9. ASSUME RemoveKeys
    PROVE  RefreshHolds'
  BY <1>0, <1>9 DEF TruthTypes, StoreTypes, AskTypes, AnswerTypes,
    RefreshTypes, WriteTypes, Stored, CallsInOrder, FloorHolds,
    RefreshHolds, Holds, RemoveKeys, Sticks, Fault, NoFault
<1>10. ASSUME NEW c \in Calls, Step(c)
    PROVE  RefreshHolds'
  <2>1. Local(c)
    BY <1>10, StepIsLocal
  <2>2. /\ \A d \in Calls : key[d] \in Keys /\ fetched[d] \in Nat /\ asOf[d] \in Nat
        /\ \A k \in Keys : truth[k] \in Nat /\ cached[k] \in Nat /\ floor[k] \in Nat
                           /\ since[k] \in Nat
    BY <1>0 DEF TruthTypes, StoreTypes, AskTypes, AnswerTypes, RefreshTypes
  <2> QED
    BY <1>0, <2>1, <2>2 DEF RefreshHolds, FloorHolds, Local, StepFrame,
      StepOthers, StepMoves, Holds, StepStores
<1>11. CASE UNCHANGED vars
  BY <1>11 DEF Holds, RefreshHolds
<1> QED
  BY <1>1, <1>2, <1>3, <1>4, <1>5, <1>6, <1>7, <1>8, <1>9, <1>10, <1>11 DEF
    Next

\* An undisturbed write ends with nothing stored.
LEMMA CalmHoldsStep ==
  TypeOK /\ CallsInOrder /\ CalmHolds /\ [Next]_vars => CalmHolds'
<1> SUFFICES ASSUME TypeOK, CallsInOrder, CalmHolds, [Next]_vars
             PROVE  CalmHolds'
  OBVIOUS
<1> USE TtlAssumption DEF vars, store, asked, answers, calls, button,
  registry, Keys, Calls, Versions, Phases
<1>0. TruthTypes /\ StoreTypes /\ AskTypes /\ AnswerTypes /\ RefreshTypes
      /\ WriteTypes /\ Stored
  BY DEF TypeOK
<1>1. ASSUME NEW k \in Keys, Change(k)
    PROVE  CalmHolds'
  BY <1>0, <1>1 DEF TruthTypes, StoreTypes, AskTypes, AnswerTypes,
    RefreshTypes, WriteTypes, Stored, CallsInOrder, CalmHolds, Active,
    Change
<1>2. ASSUME NEW k \in Keys, Expire(k)
    PROVE  CalmHolds'
  BY <1>0, <1>2 DEF TruthTypes, StoreTypes, AskTypes, AnswerTypes,
    RefreshTypes, WriteTypes, Stored, CallsInOrder, CalmHolds, Active,
    Expire
<1>3. ASSUME NEW k \in Keys, NEW w \in SUBSET Contracts, NEW f \in BOOLEAN,
  Ask(k, w, f)
    PROVE  CalmHolds'
  BY <1>0, <1>3 DEF TruthTypes, StoreTypes, AskTypes, AnswerTypes,
    RefreshTypes, WriteTypes, Stored, CallsInOrder, CalmHolds, Active, Ask
<1>4. ASSUME StartWrite
    PROVE  CalmHolds'
  BY <1>0, <1>4 DEF TruthTypes, StoreTypes, AskTypes, AnswerTypes,
    RefreshTypes, WriteTypes, Stored, CallsInOrder, CalmHolds, Active,
    StartWrite
<1>5. ASSUME UpdateRegistry
    PROVE  CalmHolds'
  BY <1>0, <1>5 DEF TruthTypes, StoreTypes, AskTypes, AnswerTypes,
    RefreshTypes, WriteTypes, Stored, CallsInOrder, CalmHolds, Active,
    UpdateRegistry, Resolves, Breaks, Fault, NoFault
<1>6. ASSUME RemoveFromCache
    PROVE  CalmHolds'
  BY <1>0, <1>6 DEF TruthTypes, StoreTypes, AskTypes, AnswerTypes,
    RefreshTypes, WriteTypes, Stored, CallsInOrder, CalmHolds, Active,
    RemoveFromCache, Drop, Resolves, Breaks, Fault, NoFault
<1>7. ASSUME Press
    PROVE  CalmHolds'
  BY <1>0, <1>7 DEF TruthTypes, StoreTypes, AskTypes, AnswerTypes,
    RefreshTypes, WriteTypes, Stored, CallsInOrder, CalmHolds, Active, Press
<1>8. ASSUME FindKeys
    PROVE  CalmHolds'
  BY <1>0, <1>8 DEF TruthTypes, StoreTypes, AskTypes, AnswerTypes,
    RefreshTypes, WriteTypes, Stored, CallsInOrder, CalmHolds, Active,
    FindKeys, Sticks, Fault, NoFault
<1>9. ASSUME RemoveKeys
    PROVE  CalmHolds'
  BY <1>0, <1>9 DEF TruthTypes, StoreTypes, AskTypes, AnswerTypes,
    RefreshTypes, WriteTypes, Stored, CallsInOrder, CalmHolds, Active,
    RemoveKeys, Sticks, Fault, NoFault
<1>10. ASSUME NEW c \in Calls, Step(c)
    PROVE  CalmHolds'
  <2>1. Local(c)
    BY <1>10, StepIsLocal
  <2> QED
    BY <1>0, <2>1 DEF TruthTypes, StoreTypes, AskTypes, AnswerTypes,
      RefreshTypes, WriteTypes, Stored, CallsInOrder, CalmHolds, Active,
      Local, StepFrame, StepOthers, StepMoves, StepStores, StepReturns
<1>11. CASE UNCHANGED vars
  BY <1>11 DEF Active, CalmHolds
<1> QED
  BY <1>1, <1>2, <1>3, <1>4, <1>5, <1>6, <1>7, <1>8, <1>9, <1>10, <1>11 DEF
    Next

\* The reads.
LEMMA ReadsSeeCompletedChangesStep ==
  TypeOK /\ CallsInOrder /\ FloorHolds /\ HeldAbove /\ AskedBelow /\
    ReadsSeeCompletedChanges /\ [Next]_vars => ReadsSeeCompletedChanges'
<1> SUFFICES ASSUME TypeOK, CallsInOrder, FloorHolds, HeldAbove, AskedBelow,
  ReadsSeeCompletedChanges, [Next]_vars
             PROVE  ReadsSeeCompletedChanges'
  OBVIOUS
<1> USE TtlAssumption DEF vars, store, asked, answers, calls, button,
  registry, Keys, Calls, Versions, Phases
<1>0. TruthTypes /\ StoreTypes /\ AskTypes /\ AnswerTypes /\ RefreshTypes
      /\ WriteTypes /\ Stored
  BY DEF TypeOK
<1>1. ASSUME NEW k \in Keys, Change(k)
    PROVE  ReadsSeeCompletedChanges'
  BY <1>0, <1>1 DEF TruthTypes, StoreTypes, AskTypes, AnswerTypes,
    RefreshTypes, WriteTypes, Stored, CallsInOrder, FloorHolds, HeldAbove,
    AskedBelow, ReadsSeeCompletedChanges, Change
<1>2. ASSUME NEW k \in Keys, Expire(k)
    PROVE  ReadsSeeCompletedChanges'
  BY <1>0, <1>2 DEF TruthTypes, StoreTypes, AskTypes, AnswerTypes,
    RefreshTypes, WriteTypes, Stored, CallsInOrder, FloorHolds, HeldAbove,
    AskedBelow, ReadsSeeCompletedChanges, Expire
<1>3. ASSUME NEW k \in Keys, NEW w \in SUBSET Contracts, NEW f \in BOOLEAN,
  Ask(k, w, f)
    PROVE  ReadsSeeCompletedChanges'
  BY <1>0, <1>3 DEF TruthTypes, StoreTypes, AskTypes, AnswerTypes,
    RefreshTypes, WriteTypes, Stored, CallsInOrder, FloorHolds, HeldAbove,
    AskedBelow, ReadsSeeCompletedChanges, Ask
<1>4. ASSUME StartWrite
    PROVE  ReadsSeeCompletedChanges'
  BY <1>0, <1>4 DEF TruthTypes, StoreTypes, AskTypes, AnswerTypes,
    RefreshTypes, WriteTypes, Stored, CallsInOrder, FloorHolds, HeldAbove,
    AskedBelow, ReadsSeeCompletedChanges, StartWrite
<1>5. ASSUME UpdateRegistry
    PROVE  ReadsSeeCompletedChanges'
  BY <1>0, <1>5 DEF TruthTypes, StoreTypes, AskTypes, AnswerTypes,
    RefreshTypes, WriteTypes, Stored, CallsInOrder, FloorHolds, HeldAbove,
    AskedBelow, ReadsSeeCompletedChanges, UpdateRegistry, Resolves, Breaks,
    Fault, NoFault
<1>6. ASSUME RemoveFromCache
    PROVE  ReadsSeeCompletedChanges'
  BY <1>0, <1>6 DEF TruthTypes, StoreTypes, AskTypes, AnswerTypes,
    RefreshTypes, WriteTypes, Stored, CallsInOrder, FloorHolds, HeldAbove,
    AskedBelow, ReadsSeeCompletedChanges, RemoveFromCache, Drop, Resolves,
    Breaks, Fault, NoFault
<1>7. ASSUME Press
    PROVE  ReadsSeeCompletedChanges'
  BY <1>0, <1>7 DEF TruthTypes, StoreTypes, AskTypes, AnswerTypes,
    RefreshTypes, WriteTypes, Stored, CallsInOrder, FloorHolds, HeldAbove,
    AskedBelow, ReadsSeeCompletedChanges, Press
<1>8. ASSUME FindKeys
    PROVE  ReadsSeeCompletedChanges'
  BY <1>0, <1>8 DEF TruthTypes, StoreTypes, AskTypes, AnswerTypes,
    RefreshTypes, WriteTypes, Stored, CallsInOrder, FloorHolds, HeldAbove,
    AskedBelow, ReadsSeeCompletedChanges, FindKeys, Sticks, Fault, NoFault
<1>9. ASSUME RemoveKeys
    PROVE  ReadsSeeCompletedChanges'
  BY <1>0, <1>9 DEF TruthTypes, StoreTypes, AskTypes, AnswerTypes,
    RefreshTypes, WriteTypes, Stored, CallsInOrder, FloorHolds, HeldAbove,
    AskedBelow, ReadsSeeCompletedChanges, RemoveKeys, Sticks, Fault, NoFault
<1>10. ASSUME NEW c \in Calls, Step(c)
    PROVE  ReadsSeeCompletedChanges'
  <2>1. Local(c)
    BY <1>10, StepIsLocal
  <2>2. /\ \A d \in Calls : key[d] \in Keys /\ fetched[d] \in Nat /\ asOf[d] \in Nat
        /\ \A k \in Keys : truth[k] \in Nat /\ cached[k] \in Nat /\ floor[k] \in Nat
                           /\ since[k] \in Nat
    BY <1>0 DEF TruthTypes, StoreTypes, AskTypes, AnswerTypes, RefreshTypes
  <2> QED
    BY <1>0, <2>1, <2>2 DEF ReadsSeeCompletedChanges, HeldAbove,
      AskedBelow, FloorHolds, Local, StepFrame, StepOthers, StepMoves,
      StepReturns
<1>11. CASE UNCHANGED vars
  BY <1>11 DEF ReadsSeeCompletedChanges
<1> QED
  BY <1>1, <1>2, <1>3, <1>4, <1>5, <1>6, <1>7, <1>8, <1>9, <1>10, <1>11 DEF
    Next

\* What a list lacks, a call did not ask for.
LEMMA ListsHaveReasonsStep ==
  TypeOK /\ CallsInOrder /\ ListsHaveReasons /\ [Next]_vars =>
    ListsHaveReasons'
<1> SUFFICES ASSUME TypeOK, CallsInOrder, ListsHaveReasons, [Next]_vars
             PROVE  ListsHaveReasons'
  OBVIOUS
<1> USE TtlAssumption DEF vars, store, asked, answers, calls, button,
  registry, Keys, Calls, Versions, Phases
<1>0. TruthTypes /\ StoreTypes /\ AskTypes /\ AnswerTypes /\ RefreshTypes
      /\ WriteTypes /\ Stored
  BY DEF TypeOK
<1>1. ASSUME NEW k \in Keys, Change(k)
    PROVE  ListsHaveReasons'
  BY <1>0, <1>1 DEF TruthTypes, StoreTypes, AskTypes, AnswerTypes,
    RefreshTypes, WriteTypes, Stored, CallsInOrder, ListsHaveReasons, Change
<1>2. ASSUME NEW k \in Keys, Expire(k)
    PROVE  ListsHaveReasons'
  BY <1>0, <1>2 DEF TruthTypes, StoreTypes, AskTypes, AnswerTypes,
    RefreshTypes, WriteTypes, Stored, CallsInOrder, ListsHaveReasons, Expire
<1>3. ASSUME NEW k \in Keys, NEW w \in SUBSET Contracts, NEW f \in BOOLEAN,
  Ask(k, w, f)
    PROVE  ListsHaveReasons'
  BY <1>0, <1>3 DEF TruthTypes, StoreTypes, AskTypes, AnswerTypes,
    RefreshTypes, WriteTypes, Stored, CallsInOrder, ListsHaveReasons, Ask
<1>4. ASSUME StartWrite
    PROVE  ListsHaveReasons'
  BY <1>0, <1>4 DEF TruthTypes, StoreTypes, AskTypes, AnswerTypes,
    RefreshTypes, WriteTypes, Stored, CallsInOrder, ListsHaveReasons,
    StartWrite
<1>5. ASSUME UpdateRegistry
    PROVE  ListsHaveReasons'
  BY <1>0, <1>5 DEF TruthTypes, StoreTypes, AskTypes, AnswerTypes,
    RefreshTypes, WriteTypes, Stored, CallsInOrder, ListsHaveReasons,
    UpdateRegistry, Resolves, Breaks, Fault, NoFault
<1>6. ASSUME RemoveFromCache
    PROVE  ListsHaveReasons'
  <2>1. /\ UNCHANGED <<key, wants, fetched>>
        /\ \A k \in Lists : cached'[k] = cached[k] /\ parts'[k] = parts[k]
    BY <1>0, <1>6 DEF RemoveFromCache, Drop, Breaks, StoreTypes
  <2> QED
    BY <2>1 DEF ListsHaveReasons
<1>7. ASSUME Press
    PROVE  ListsHaveReasons'
  BY <1>0, <1>7 DEF TruthTypes, StoreTypes, AskTypes, AnswerTypes,
    RefreshTypes, WriteTypes, Stored, CallsInOrder, ListsHaveReasons, Press
<1>8. ASSUME FindKeys
    PROVE  ListsHaveReasons'
  BY <1>0, <1>8 DEF TruthTypes, StoreTypes, AskTypes, AnswerTypes,
    RefreshTypes, WriteTypes, Stored, CallsInOrder, ListsHaveReasons,
    FindKeys, Sticks, Fault, NoFault
<1>9. ASSUME RemoveKeys
    PROVE  ListsHaveReasons'
  BY <1>0, <1>9 DEF TruthTypes, StoreTypes, AskTypes, AnswerTypes,
    RefreshTypes, WriteTypes, Stored, CallsInOrder, ListsHaveReasons,
    RemoveKeys, Sticks, Fault, NoFault
<1>10. ASSUME NEW c \in Calls, Step(c)
    PROVE  ListsHaveReasons'
  <2>1. Local(c)
    BY <1>10, StepIsLocal
  <2>2. /\ \A d \in Calls : key[d] \in Keys /\ fetched[d] \in Nat /\ asOf[d] \in Nat
        /\ \A k \in Keys : truth[k] \in Nat /\ cached[k] \in Nat /\ floor[k] \in Nat
                           /\ since[k] \in Nat
    BY <1>0 DEF TruthTypes, StoreTypes, AskTypes, AnswerTypes, RefreshTypes
  <2> QED
    BY <1>0, <2>1, <2>2 DEF ListsHaveReasons, CallsInOrder, Local,
      StepFrame, StepOthers, StepMoves, StepStores, Stored
<1>11. CASE UNCHANGED vars
  BY <1>11 DEF ListsHaveReasons
<1> QED
  BY <1>1, <1>2, <1>3, <1>4, <1>5, <1>6, <1>7, <1>8, <1>9, <1>10, <1>11 DEF
    Next

\* The zeros.
LEMMA ZeroNeedsAnotherListStep ==
  TypeOK /\ CallsInOrder /\ ListsHaveReasons /\ ZeroNeedsAnotherList /\
    [Next]_vars => ZeroNeedsAnotherList'
<1> SUFFICES ASSUME TypeOK, CallsInOrder, ListsHaveReasons,
  ZeroNeedsAnotherList, [Next]_vars
             PROVE  ZeroNeedsAnotherList'
  OBVIOUS
<1> USE TtlAssumption DEF vars, store, asked, answers, calls, button,
  registry, Keys, Calls, Versions, Phases
<1>0. TruthTypes /\ StoreTypes /\ AskTypes /\ AnswerTypes /\ RefreshTypes
      /\ WriteTypes /\ Stored
  BY DEF TypeOK
<1>1. ASSUME NEW k \in Keys, Change(k)
    PROVE  ZeroNeedsAnotherList'
  <2>1. UNCHANGED <<key, wants, fetched, zeros>>
    BY <1>1 DEF Change
  <2> QED
    BY <2>1 DEF ZeroNeedsAnotherList
<1>2. ASSUME NEW k \in Keys, Expire(k)
    PROVE  ZeroNeedsAnotherList'
  <2>1. UNCHANGED <<key, wants, fetched, zeros>>
    BY <1>2 DEF Expire
  <2> QED
    BY <2>1 DEF ZeroNeedsAnotherList
<1>3. ASSUME NEW k \in Keys, NEW w \in SUBSET Contracts, NEW f \in BOOLEAN,
  Ask(k, w, f)
    PROVE  ZeroNeedsAnotherList'
  <2>1. PICK c \in Calls : Starts(c, k, w, f)
    BY <1>3, AskStarts
  <2>2. c > started
    BY <1>0, <2>1 DEF AskTypes, Starts
  <2>3. fetched[c] = 0 /\ zeros[c] = {}
    BY <2>2 DEF CallsInOrder
  <2>4. ASSUME NEW e \in Calls, NEW p \in zeros'[e]
        PROVE  \E d \in Calls :
                 key'[d] = key'[e] /\ p \notin wants'[d] /\ fetched'[d] # 0
    <3>1. p \in zeros[e] /\ e # c
      BY <2>1, <2>3, <2>4 DEF Starts
    <3>2. PICK d \in Calls : key[d] = key[e] /\ p \notin wants[d] /\ fetched[d] # 0
      BY <3>1 DEF ZeroNeedsAnotherList
    <3>3. d # c
      BY <2>3, <3>2
    <3> QED
      BY <2>1, <3>1, <3>2, <3>3 DEF Starts
  <2> QED
    BY <2>4 DEF ZeroNeedsAnotherList
<1>4. ASSUME StartWrite
    PROVE  ZeroNeedsAnotherList'
  <2>1. UNCHANGED <<key, wants, fetched, zeros>>
    BY <1>4 DEF StartWrite
  <2> QED
    BY <2>1 DEF ZeroNeedsAnotherList
<1>5. ASSUME UpdateRegistry
    PROVE  ZeroNeedsAnotherList'
  <2>1. UNCHANGED <<key, wants, fetched, zeros>>
    BY <1>5 DEF UpdateRegistry
  <2> QED
    BY <2>1 DEF ZeroNeedsAnotherList
<1>6. ASSUME RemoveFromCache
    PROVE  ZeroNeedsAnotherList'
  <2>1. UNCHANGED <<key, wants, fetched, zeros>>
    BY <1>6 DEF RemoveFromCache
  <2> QED
    BY <2>1 DEF ZeroNeedsAnotherList
<1>7. ASSUME Press
    PROVE  ZeroNeedsAnotherList'
  <2>1. UNCHANGED <<key, wants, fetched, zeros>>
    BY <1>7 DEF Press
  <2> QED
    BY <2>1 DEF ZeroNeedsAnotherList
<1>8. ASSUME FindKeys
    PROVE  ZeroNeedsAnotherList'
  <2>1. UNCHANGED <<key, wants, fetched, zeros>>
    BY <1>8 DEF FindKeys
  <2> QED
    BY <2>1 DEF ZeroNeedsAnotherList
<1>9. ASSUME RemoveKeys
    PROVE  ZeroNeedsAnotherList'
  <2>1. UNCHANGED <<key, wants, fetched, zeros>>
    BY <1>9 DEF RemoveKeys
  <2> QED
    BY <2>1 DEF ZeroNeedsAnotherList
<1>10. ASSUME NEW c \in Calls, Step(c)
    PROVE  ZeroNeedsAnotherList'
  <2>1. Local(c)
    BY <1>10, StepIsLocal
  <2>2. key[c] \in Keys /\ truth[key[c]] # 0
    BY <1>0 DEF TruthTypes, AskTypes
  <2>3. /\ \A d \in Calls : key'[d] = key[d] /\ wants'[d] = wants[d]
        /\ \A d \in Calls : fetched[d] # 0 => fetched'[d] # 0
    <3>1. fetched'[c] = fetched[c] \/ fetched'[c] = truth[key[c]]
      BY <2>1 DEF Local, StepMoves
    <3>2. \A d \in Calls \ {c} : fetched'[d] = fetched[d]
      BY <2>1 DEF Local, StepOthers
    <3>3. UNCHANGED <<key, wants>>
      BY <2>1 DEF Local, StepFrame
    <3> QED
      BY <2>2, <3>1, <3>2, <3>3
  <2>4. \A p \in zeros'[c] :
          \E d \in Calls : key[d] = key[c] /\ p \notin wants[d] /\ fetched[d] # 0
    <3>1. CASE zeros'[c] = zeros[c] \/ zeros'[c] = {}
      BY <3>1 DEF ZeroNeedsAnotherList
    <3>2. CASE zeros'[c] = wants[c] \ parts[key[c]] /\ cached[key[c]] # 0
      <4>1. wants[c] \subseteq Contracts /\ (key[c] \in Lists \/ wants[c] = {})
        BY <1>0 DEF AskTypes, CallsInOrder
      <4> QED
        BY <3>2, <4>1 DEF ListsHaveReasons
    <3> QED
      BY <2>1, <3>1, <3>2 DEF Local, StepReturns
  <2>5. \A e \in Calls \ {c} : zeros'[e] = zeros[e]
    BY <2>1 DEF Local, StepOthers
  <2>6. QED
    BY <2>3, <2>4, <2>5 DEF ZeroNeedsAnotherList
<1>11. CASE UNCHANGED vars
  BY <1>11 DEF ZeroNeedsAnotherList
<1> QED
  BY <1>1, <1>2, <1>3, <1>4, <1>5, <1>6, <1>7, <1>8, <1>9, <1>10, <1>11 DEF
    Next

LEMMA InitHolds == Init => IInv
<1> SUFFICES ASSUME Init PROVE IInv
  OBVIOUS
<1> USE TtlAssumption DEF Init, Keys, Calls, Versions, Phases
<1>1. TypeOK
  <2>1. TruthTypes
    BY DEF TruthTypes
  <2>2. StoreTypes
    <3>1. cached \in [Keys -> 0..MaxVersion]
      <4>1. cached \in [Keys -> {0, 1}] /\ {0, 1} \subseteq 0..MaxVersion
        OBVIOUS
      <4> QED
        BY <4>1
    <3>2. parts \in [Keys -> SUBSET Contracts] /\ fresh \in [Keys -> BOOLEAN]
      OBVIOUS
    <3> QED
      BY <3>1, <3>2 DEF StoreTypes
  <2>3. AskTypes /\ AnswerTypes
    BY DEF AskTypes, AnswerTypes
  <2>4. RefreshTypes
    BY DEF RefreshTypes
  <2>5. WriteTypes
    <3>1. todo \subseteq {"update", "remove"} /\ calm \in BOOLEAN
      OBVIOUS
    <3>2. writes \in 0..MaxWrites
      OBVIOUS
    <3> QED
      BY <3>1, <3>2 DEF WriteTypes
  <2>6. FaultTypes
    BY DEF FaultTypes
  <2>7. Stored
    BY DEF Stored
  <2> QED
    BY <2>1, <2>2, <2>3, <2>4, <2>5, <2>6, <2>7 DEF TypeOK
<1>2. CallsInOrder /\ FloorHolds /\ HeldAbove /\ AskedBelow
  BY DEF CallsInOrder, FloorHolds, HeldAbove, AskedBelow
<1>3. RefreshHolds /\ CalmHolds /\ ListsHaveReasons
  BY DEF RefreshHolds, CalmHolds, ListsHaveReasons
<1>4. ReadsSeeCompletedChanges /\ ZeroNeedsAnotherList
  BY DEF ReadsSeeCompletedChanges, ZeroNeedsAnotherList
<1> QED
  BY <1>1, <1>2, <1>3, <1>4 DEF IInv

\* The inductive invariant: what is stored, on its way to the store, or about
\* to be read is never older than the last undisturbed refresh or write.
THEOREM Invariant == Spec => []IInv
<1>1. IInv /\ [Next]_vars => IInv'
  BY TypeStep, CallsInOrderStep, FloorHoldsStep, HeldAboveStep,
    AskedBelowStep, RefreshHoldsStep, CalmHoldsStep, ListsHaveReasonsStep,
    ReadsSeeCompletedChangesStep, ZeroNeedsAnotherListStep DEF IInv
<1> QED
  BY InitHolds, <1>1, PTL DEF Spec

\* Every variable keeps its type, and what is stored was once the truth.
THEOREM TypeCorrect == Spec => []TypeOK
<1>1. IInv => TypeOK
  BY DEF IInv
<1> QED
  BY Invariant, <1>1, PTL

\* A call that starts after a refresh or a write is over sees what it saw or
\* wrote, unless fetched values were on their way (invalidate, getOrFetch).
THEOREM ReadsAreCurrent == Spec => []ReadsSeeCompletedChanges
<1>1. IInv => ReadsSeeCompletedChanges
  BY DEF IInv
<1> QED
  BY Invariant, <1>1, PTL

\* A zero for want of data has a call for other contracts behind it
\* (fetchAndUpdateCacheBalances).
THEOREM ZerosHaveReasons == Spec => []ZeroNeedsAnotherList
<1>1. IInv => ZeroNeedsAnotherList
  BY DEF IInv
<1> QED
  BY Invariant, <1>1, PTL

-----------------------------------------------------------------------------
(* CompositeTtlCache *)

\* What is in the store was written last; it may lack what has expired.
StoredIsWritten == \A k \in Entries : storage[k] # NoItem => storage[k] = written[k]

\* While a load waits for its removal nothing else of the page runs, so the
\* keys it took for expired still are when they are removed.
PruneIsCurrent ==
  pruning => /\ Running("get") /\ ~isInitialized
             /\ \A k \in expiredKeys : isItemExpired(storage[k])

CacheInv ==
  /\ CacheTypeOK /\ StoredIsWritten /\ PruneIsCurrent
  /\ CacheBackedByStorage /\ WriteIsDurable

-----------------------------------------------------------------------------

LEMMA OperationTypes ==
  /\ \A k \in Entries : GetOp(k) \in Operations
  /\ \A k \in Entries, item \in Items \cup {NoItem} : SetOp(k, item) \in Operations
  /\ ClearOp \in Operations
  BY DEF Operations

\* What the running operation holds.
LEMMA HeadOperation ==
  ASSUME CacheTypeOK, operationQueue # <<>>
  PROVE  /\ Head(operationQueue) \in Operations
         /\ Tail(operationQueue) \in Seq(Operations)
         /\ Len(Tail(operationQueue)) <= MaxQueue
         /\ Running("get") => Head(operationQueue).key \in Entries
         /\ Running("set") => /\ Head(operationQueue).key \in Entries
                              /\ Head(operationQueue).item \in Items \cup {NoItem}
<1>1. /\ Head(operationQueue) \in Operations
      /\ Tail(operationQueue) \in Seq(Operations)
      /\ Len(Tail(operationQueue)) <= MaxQueue
  BY BoundsAssumption DEF CacheTypeOK
<1>2. ASSUME NEW op \in Operations
      PROVE  /\ op.kind = "get" => op.key \in Entries
             /\ op.kind = "set" => op.key \in Entries /\ op.item \in Items \cup {NoItem}
  BY DEF Operations, GetOp, SetOp, ClearOp
<1> QED
  BY <1>1, <1>2 DEF Running

LEMMA ItemTypes ==
  /\ NoItem \notin Items
  /\ \A item \in Items : item.expires \in Nat
  BY BoundsAssumption DEF Items

\* The answer of a load or a read is an item of the contents it looked into.
LEMMA ReplyTypes ==
  ASSUME NEW k \in Entries, NEW contents \in Contents, Answer(k, contents)
  PROVE  answer' \in [key : Entries \cup {NoItem}, item : Items \cup {NoItem}]
  BY DEF Answer, Contents

\* An empty cache, and a page that has not answered yet.
LEMMA EmptyTypes ==
  /\ Empty \in Contents /\ NoAnswer.item = NoItem
  /\ NoAnswer \in [key : Entries \cup {NoItem}, item : Items \cup {NoItem}]
  /\ <<>> \in Seq(Operations) /\ Len(<<>>) <= MaxQueue
  BY BoundsAssumption DEF Empty, Contents, NoAnswer

-----------------------------------------------------------------------------
(* The steps by what they change.  A step of a caller adds an operation; one  *)
(* of the chain takes the first away.                                        *)

Adds == \E op \in Operations : Enqueue(op)

LEMMA CallersAdd ==
  ASSUME CacheTypeOK, GetItem \/ SetItem \/ Clear
  PROVE  Adds
<1>1. CASE GetItem
  BY <1>1, OperationTypes DEF GetItem, Adds
<1>2. CASE SetItem
  <2>1. PICK k \in Entries :
          \/ \E v \in Values : Enqueue(SetOp(k, [value |-> v, expires |-> now + Ttl]))
          \/ Enqueue(SetOp(k, NoItem))
    BY <1>2 DEF SetItem
  <2>2. ASSUME NEW v \in Values
        PROVE  [value |-> v, expires |-> now + Ttl] \in Items
    BY BoundsAssumption DEF CacheTypeOK, Items
  <2> QED
    BY <2>1, <2>2, OperationTypes DEF Adds
<1>3. CASE Clear
  BY <1>3, OperationTypes DEF Clear, Adds
<1> QED
  BY <1>1, <1>2, <1>3

\* A prune removes what it took for expired.
Pruned == [k \in Entries |-> IF k \in expiredKeys THEN NoItem ELSE storage[k]]

Steps ==
  \/ Adds \/ GetFromMemory \/ LoadWithoutExpired \/ LoadPartition
  \/ LoadPrune \/ LoadFails \/ StoreItem \/ RemoveItem \/ ClearBoth
  \/ Tick \/ Reload \/ UNCHANGED cacheVars

LEMMA StepKinds ==
  ASSUME CacheTypeOK, [CacheNext]_cacheVars
  PROVE  Steps
  BY CallersAdd DEF CacheNext, enqueueOperation, loadFromStorage, Steps

LEMMA CacheTypeStep ==
  ASSUME CacheTypeOK, [CacheNext]_cacheVars
  PROVE  CacheTypeOK'
<1> USE BoundsAssumption
<1>1. CASE Adds
  BY <1>1 DEF Adds, Enqueue, CacheTypeOK, Contents
<1>2. CASE GetFromMemory
  BY <1>2, HeadOperation, ReplyTypes
     DEF GetFromMemory, Settle, Running, CacheTypeOK, Contents
<1>3. CASE LoadWithoutExpired
  <2>1. /\ memoryCache' = [k \in Entries |-> IF k \in {} THEN NoItem ELSE storage[k]]
        /\ Answer(Head(operationQueue).key, memoryCache') /\ isInitialized'
    BY <1>3 DEF LoadWithoutExpired, Populate, Settle
  <2>2. memoryCache' \in Contents
    BY <2>1 DEF CacheTypeOK, Contents
  <2> QED
    BY <1>3, <2>1, <2>2, HeadOperation, ReplyTypes
       DEF LoadWithoutExpired, Loading, Settle, Running, CacheTypeOK
<1>4. CASE LoadPartition
  BY <1>4 DEF LoadPartition, Expired, CacheTypeOK, Contents
<1>5. CASE LoadPrune
  <2>1. /\ memoryCache' = [k \in Entries |-> IF k \in {} THEN NoItem ELSE storage'[k]]
        /\ Answer(Head(operationQueue).key, memoryCache') /\ isInitialized'
        /\ storage' = Pruned
    BY <1>5 DEF LoadPrune, Populate, Settle, Pruned
  <2>2. storage' \in Contents /\ memoryCache' \in Contents
    BY <2>1 DEF CacheTypeOK, Contents, Pruned
  <2> QED
    BY <1>5, <2>1, <2>2, HeadOperation, ReplyTypes
       DEF LoadPrune, Loading, Settle, Running, CacheTypeOK
<1>6. CASE LoadFails
  BY <1>6, HeadOperation DEF LoadFails, Loading, Reject, Settle, Running, CacheTypeOK
<1>7. CASE StoreItem
  BY <1>7, HeadOperation DEF StoreItem, Reject, Settle, Running, CacheTypeOK, Contents
<1>8. CASE RemoveItem
  BY <1>8, HeadOperation DEF RemoveItem, Reject, Settle, Running, CacheTypeOK, Contents
<1>9. CASE ClearBoth
  BY <1>9, HeadOperation
     DEF ClearBoth, Reject, Settle, Running, CacheTypeOK, Contents, Empty
<1>10. CASE Tick
  BY <1>10 DEF Tick, CacheTypeOK
<1>11. CASE Reload
  BY <1>11, EmptyTypes DEF Reload, CacheTypeOK
<1>12. CASE UNCHANGED cacheVars
  BY <1>12 DEF cacheVars, CacheTypeOK
<1> QED
  BY StepKinds, <1>1, <1>2, <1>3, <1>4, <1>5, <1>6, <1>7, <1>8, <1>9, <1>10,
     <1>11, <1>12 DEF Steps

\* The contents after each step, key by key.
LEMMA Populated ==
  ASSUME CacheTypeOK, LoadWithoutExpired \/ LoadPrune
  PROVE  /\ memoryCache' = storage' /\ UNCHANGED <<written, now>>
         /\ ~pruning'
         /\ LoadPrune => storage' = Pruned
         /\ LoadWithoutExpired => storage' = storage
<1>1. ~pruning' /\ expiredKeys' = {} /\ UNCHANGED <<written, now>>
  BY DEF LoadWithoutExpired, LoadPrune, Settle
<1>2. CASE LoadWithoutExpired
  <2>1. storage' = storage
    BY <1>2 DEF LoadWithoutExpired
  <2>2. memoryCache' = [k \in Entries |-> storage[k]]
    BY <1>1, <1>2, <2>1 DEF LoadWithoutExpired, Populate
  <2>3. memoryCache' = storage
    BY <2>2 DEF CacheTypeOK, Contents
  <2>4. LoadPrune => FALSE
    BY <1>2 DEF LoadPrune, LoadWithoutExpired
  <2> QED
    BY <1>1, <1>2, <2>1, <2>3, <2>4
<1>3. CASE LoadPrune
  <2>1. storage' = Pruned
    BY <1>3 DEF LoadPrune, Pruned
  <2>2. memoryCache' = [k \in Entries |-> storage'[k]]
    BY <1>1, <1>3 DEF LoadPrune, Populate
  <2>3. memoryCache' = storage'
    BY <2>1, <2>2 DEF Pruned
  <2>4. LoadWithoutExpired => FALSE
    BY <1>3 DEF LoadPrune, LoadWithoutExpired
  <2> QED
    BY <1>1, <2>1, <2>3, <2>4
<1> QED
  BY <1>2, <1>3

LEMMA StoredStep ==
  ASSUME CacheTypeOK, StoredIsWritten, [CacheNext]_cacheVars
  PROVE  StoredIsWritten'
<1>1. CASE Adds \/ GetFromMemory \/ LoadPartition \/ LoadFails
  BY <1>1 DEF Adds, Enqueue, GetFromMemory, LoadPartition, LoadFails,
              StoredIsWritten
<1>2. CASE LoadWithoutExpired \/ LoadPrune
  BY <1>2, Populated DEF StoredIsWritten, Pruned
<1>3. CASE StoreItem
  BY <1>3, HeadOperation DEF StoreItem, Running, StoredIsWritten, CacheTypeOK, Contents
<1>4. CASE RemoveItem
  BY <1>4, HeadOperation DEF RemoveItem, Running, StoredIsWritten, CacheTypeOK, Contents
<1>5. CASE ClearBoth
  BY <1>5 DEF ClearBoth, StoredIsWritten, Empty
<1>6. CASE Tick \/ Reload \/ UNCHANGED cacheVars
  BY <1>6 DEF Tick, Reload, cacheVars, StoredIsWritten
<1> QED
  BY StepKinds, <1>1, <1>2, <1>3, <1>4, <1>5, <1>6 DEF Steps

LEMMA PruneStep ==
  ASSUME CacheTypeOK, PruneIsCurrent, [CacheNext]_cacheVars
  PROVE  PruneIsCurrent'
<1>1. CASE Adds
  <2>1. PICK op \in Operations : Enqueue(op)
    BY <1>1 DEF Adds
  <2>2. operationQueue # <<>> =>
          operationQueue' # <<>> /\ Head(operationQueue') = Head(operationQueue)
    BY <2>1 DEF Enqueue, CacheTypeOK
  <2> QED
    BY <2>1, <2>2 DEF Enqueue, PruneIsCurrent, Running, isItemExpired
<1>2. CASE LoadWithoutExpired \/ LoadPrune
  BY <1>2, Populated DEF PruneIsCurrent
<1>3. CASE GetFromMemory \/ LoadFails
  BY <1>3 DEF GetFromMemory, LoadFails, Reject, Settle, PruneIsCurrent
<1>4. CASE LoadPartition
  BY <1>4 DEF LoadPartition, Loading, Expired, PruneIsCurrent, Running,
              isItemExpired
<1>5. CASE StoreItem \/ RemoveItem \/ ClearBoth
  BY <1>5 DEF StoreItem, RemoveItem, ClearBoth, Reject, Settle, PruneIsCurrent
<1>6. CASE Tick
  <2>1. now' = now + 1 /\ now \in Nat
    BY <1>6, BoundsAssumption DEF Tick, CacheTypeOK
  <2>2. ASSUME NEW k \in expiredKeys, isItemExpired(storage[k])
        PROVE  isItemExpired(storage[k])'
    <3>1. storage[k] \in Items /\ storage[k].expires \in Nat
      BY <2>2, ItemTypes DEF isItemExpired, CacheTypeOK, Contents
    <3> QED
      BY <1>6, <2>1, <2>2, <3>1 DEF Tick, isItemExpired
  <2> QED
    BY <1>6, <2>2 DEF Tick, PruneIsCurrent, Running
<1>7. CASE Reload
  BY <1>7 DEF Reload, PruneIsCurrent
<1>8. CASE UNCHANGED cacheVars
  BY <1>8 DEF cacheVars, PruneIsCurrent, Running, isItemExpired
<1> QED
  BY StepKinds, <1>1, <1>2, <1>3, <1>4, <1>5, <1>6, <1>7, <1>8 DEF Steps

LEMMA BackedStep ==
  ASSUME CacheTypeOK, CacheBackedByStorage, [CacheNext]_cacheVars
  PROVE  CacheBackedByStorage'
<1>1. CASE Adds \/ GetFromMemory \/ LoadPartition \/ LoadFails
  BY <1>1 DEF Adds, Enqueue, GetFromMemory, LoadPartition, LoadFails,
              CacheBackedByStorage
<1>2. CASE LoadWithoutExpired \/ LoadPrune
  BY <1>2, Populated DEF CacheBackedByStorage
<1>3. CASE StoreItem
  BY <1>3, HeadOperation
     DEF StoreItem, Running, CacheBackedByStorage, CacheTypeOK, Contents
<1>4. CASE RemoveItem
  BY <1>4, HeadOperation
     DEF RemoveItem, Running, CacheBackedByStorage, CacheTypeOK, Contents
<1>5. CASE ClearBoth
  BY <1>5 DEF ClearBoth, CacheBackedByStorage, Empty
<1>6. CASE Tick \/ Reload \/ UNCHANGED cacheVars
  BY <1>6 DEF Tick, Reload, cacheVars, CacheBackedByStorage, Empty
<1> QED
  BY StepKinds, <1>1, <1>2, <1>3, <1>4, <1>5, <1>6 DEF Steps

LEMMA DurableStep ==
  ASSUME CacheTypeOK, PruneIsCurrent, WriteIsDurable, [CacheNext]_cacheVars
  PROVE  WriteIsDurable'
<1>1. CASE Adds \/ GetFromMemory \/ LoadPartition \/ LoadFails
  BY <1>1 DEF Adds, Enqueue, GetFromMemory, LoadPartition, LoadFails, Reject,
              Settle, WriteIsDurable
<1>2. CASE LoadWithoutExpired
  BY <1>2, Populated DEF WriteIsDurable
<1>3. CASE LoadPrune
  <2>1. UNCHANGED <<written, now>> /\ storage' = Pruned
    BY <1>3, Populated
  <2>2. \A k \in expiredKeys : isItemExpired(storage[k])
    BY <1>3 DEF LoadPrune, PruneIsCurrent
  <2>3. ASSUME NEW k \in Entries, written[k] # NoItem, now <= written[k].expires
        PROVE  k \notin expiredKeys /\ storage[k] = written[k]
    <3>1. storage[k] = written[k] /\ written[k].expires \in Nat /\ now \in Nat
      BY <2>3, ItemTypes, BoundsAssumption DEF WriteIsDurable, CacheTypeOK, Contents
    <3> QED
      BY <2>2, <2>3, <3>1 DEF isItemExpired
  <2> QED
    BY <2>1, <2>3 DEF WriteIsDurable, Pruned
<1>4. CASE StoreItem
  BY <1>4, HeadOperation
     DEF StoreItem, Running, Reject, Settle, WriteIsDurable, CacheTypeOK, Contents
<1>5. CASE RemoveItem
  BY <1>5, HeadOperation
     DEF RemoveItem, Running, Reject, Settle, WriteIsDurable, CacheTypeOK, Contents
<1>6. CASE ClearBoth
  BY <1>6 DEF ClearBoth, Reject, Settle, WriteIsDurable, Empty
<1>7. CASE Tick
  <2>1. \A k \in Entries : written[k] # NoItem => written[k].expires \in Nat
    BY ItemTypes DEF CacheTypeOK, Contents
  <2>2. now \in Nat /\ now' = now + 1 /\ UNCHANGED <<written, storage>>
    BY <1>7, BoundsAssumption DEF Tick, CacheTypeOK
  <2> QED
    BY <2>1, <2>2 DEF WriteIsDurable
<1>8. CASE Reload \/ UNCHANGED cacheVars
  BY <1>8 DEF Reload, cacheVars, WriteIsDurable
<1> QED
  BY StepKinds, <1>1, <1>2, <1>3, <1>4, <1>5, <1>6, <1>7, <1>8 DEF Steps

-----------------------------------------------------------------------------
(* The invariant, and the properties it gives *)

LEMMA InitInv == CacheInit => CacheInv
<1> SUFFICES ASSUME CacheInit PROVE CacheInv
  OBVIOUS
<1>1. CacheTypeOK
  <2>1. /\ operationQueue \in Seq(Operations) /\ Len(operationQueue) <= MaxQueue
        /\ answer \in [key : Entries \cup {NoItem}, item : Items \cup {NoItem}]
        /\ storage \in Contents /\ memoryCache \in Contents
        /\ written \in Contents
    BY EmptyTypes DEF CacheInit
  <2>2. /\ isInitialized \in BOOLEAN /\ pruning \in BOOLEAN
        /\ expiredKeys \subseteq Entries /\ now \in 0..MaxTime
    <3>1. now \in 0..MaxTime
      BY BoundsAssumption DEF CacheInit
    <3> QED
      BY <3>1 DEF CacheInit
  <2> QED
    BY <2>1, <2>2 DEF CacheTypeOK
<1>2. StoredIsWritten /\ PruneIsCurrent /\ CacheBackedByStorage /\ WriteIsDurable
  BY DEF CacheInit, Empty, StoredIsWritten, PruneIsCurrent, CacheBackedByStorage,
         WriteIsDurable
<1> QED
  BY <1>1, <1>2 DEF CacheInv

LEMMA StepInv == CacheInv /\ [CacheNext]_cacheVars => CacheInv'
  BY CacheTypeStep, StoredStep, PruneStep, BackedStep, DurableStep DEF CacheInv

LEMMA CacheInvariance == CacheSpec => []CacheInv
  BY InitInv, StepInv, PTL DEF CacheSpec

\* The variables keep their types.
THEOREM CacheTypeCorrect == CacheSpec => []CacheTypeOK
<1>1. CacheInv => CacheTypeOK
  BY DEF CacheInv
<1> QED
  BY <1>1, CacheInvariance, PTL

\* The memory holds nothing that the store does not, whatever is rejected.
THEOREM MemoryIsBacked == CacheSpec => []CacheBackedByStorage
<1>1. CacheInv => CacheBackedByStorage
  BY DEF CacheInv
<1> QED
  BY <1>1, CacheInvariance, PTL

\* A write that resolved is in the store until it expires or is removed.
THEOREM WritesEndure == CacheSpec => []WriteIsDurable
<1>1. CacheInv => WriteIsDurable
  BY DEF CacheInv
<1> QED
  BY <1>1, CacheInvariance, PTL

\* A read resolves to the last write that resolved before it.
LEMMA ServedStep ==
  ASSUME CacheInv, [CacheNext]_cacheVars, answer' # answer, answer'.item # NoItem
  PROVE  answer'.item = written'[answer'.key]
<1> USE DEF CacheInv
<1>1. CASE GetFromMemory
  <2>1. PICK k \in Entries : answer' = [key |-> k, item |-> memoryCache[k]]
    BY <1>1, HeadOperation DEF GetFromMemory, Running, Answer
  <2>2. memoryCache[k] = storage[k] /\ storage[k] = written[k]
    BY <2>1 DEF CacheBackedByStorage, StoredIsWritten
  <2> QED
    BY <1>1, <2>1, <2>2 DEF GetFromMemory
<1>2. CASE LoadWithoutExpired \/ LoadPrune
  <2>1. memoryCache' = storage' /\ written' = written
    BY <1>2, Populated
  <2>2. Answer(Head(operationQueue).key, memoryCache') /\ Running("get")
    BY <1>2 DEF LoadWithoutExpired, LoadPrune, Populate, Loading
  <2>3. PICK k \in Entries : answer' = [key |-> k, item |-> storage'[k]]
    BY <2>1, <2>2, HeadOperation DEF Running, Answer
  <2>4. StoredIsWritten'
    BY StoredStep
  <2> QED
    BY <2>3, <2>4 DEF StoredIsWritten
<1>3. CASE Reload
  BY <1>3 DEF Reload, NoAnswer
<1>4. CASE ~(GetFromMemory \/ LoadWithoutExpired \/ LoadPrune \/ Reload)
  BY <1>4, StepKinds
     DEF Steps, Adds, Enqueue, LoadPartition, LoadFails, StoreItem, RemoveItem,
         ClearBoth, Tick, cacheVars
<1> QED
  BY <1>1, <1>2, <1>3, <1>4

\* No read serves an overwritten or a removed item, in any order of callers.
THEOREM ReadsAreFresh == CacheSpec => ServesLastWrite
<1>1. CacheInv /\ [CacheNext]_cacheVars =>
        [answer' # answer /\ answer'.item # NoItem
           => answer'.item = written'[answer'.key]]_cacheVars
  BY ServedStep
<1> QED
  BY <1>1, CacheInvariance, PTL DEF CacheSpec, ServesLastWrite
=============================================================================
