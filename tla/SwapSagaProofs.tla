--------------------------- MODULE SwapSagaProofs ---------------------------
(***************************************************************************)
(* Theorems about SwapSaga, for any set of swaps and of pages, any of the  *)
(* faults and any number of them.                                          *)
(*                                                                         *)
(* The argument: did only grows, so a claim once true stays true; every    *)
(* page and every canister takes only steps that write true claims.  The   *)
(* three parts of such a step are HonestCanisters, HonestSwapPage and      *)
(* HonestRecovery: each action is shown to be made of them, and they are   *)
(* shown to preserve the invariant.                                        *)
(*                                                                         *)
(* That no fee is taken twice without a fault is a count over all pages,   *)
(* proved from that invariant in the second half.                          *)
(***************************************************************************)
EXTENDS SwapSaga, FiniteSetTheorems, TLAPS

-----------------------------------------------------------------------------
(* The inductive invariant *)

FeeIsNext(run) ==
  \/ run.pc = "transferToNFID"
  \/ /\ run.pc = "balance"
     /\ FirstStep(run.handler) = "transferToNFID" /\ run.handler # "TransferNFIDTimeout"

\* A page about to take the fee knows that the swap was paid out.  This is
\* what FeeOnlyAfterPayout lacks to be inductive: a page in stage TransferNFID
\* relies on RecordNeverAhead, one in the middle of depositFromAndSwap on its
\* position.
PayoutBeforeFee ==
  \A t \in Swaps :
    /\ swap[t].pc = "transferToNFID" => "payout" \in did[t]
    /\ \A r \in Recoverers : FeeIsNext(rec[t][r]) => "payout" \in did[t]

IInv == TypeOK /\ RecordNeverAhead /\ PayoutBeforeFee /\ FeeOnlyAfterPayout

-----------------------------------------------------------------------------
(* Steps that write only what is true *)

HonestCanisters(t) ==
  /\ sub' \in Nat /\ src' \in Nat /\ tgt' \in Nat
  /\ did' \in [Swaps -> SUBSET Deeds]
  /\ payouts' \in Nat /\ fees' \in Nat
  /\ \A u \in Swaps : did[u] \subseteq did'[u]
  /\ \A u \in Swaps : "nfid" \in did'[u] => "nfid" \in did[u] \/ "payout" \in did[u]
  /\ \/ record' = record
     \/ \E s \in Snapshots : /\ record' = [record EXCEPT ![t] = s]
                             /\ Claims(s.stage) \subseteq did[t]

HonestStores(t) ==
  \/ inflight' = inflight
  \/ \E s \in Snapshots : /\ inflight' = [inflight EXCEPT ![t] = @ \cup {s}]
                          /\ Claims(s.stage) \subseteq did'[t]

HonestSwapPage(t) ==
  /\ HonestStores(t)
  /\ \E run \in SwapRuns :
       /\ swap' = [swap EXCEPT ![t] = run]
       /\ Claims(run.stage) \subseteq did'[t]
       /\ run.pc = "transferToNFID" => "payout" \in did'[t]

HonestRecovery(t, r) ==
  /\ HonestStores(t)
  /\ \E run \in Recoveries :
       /\ rec' = [rec EXCEPT ![t][r] = run]
       /\ Claims(run.stage) \subseteq did'[t]
       /\ FeeIsNext(run) => "payout" \in did'[t]

LEMMA StoresTyped ==
  ASSUME TypeOK, NEW t \in Swaps, HonestCanisters(t), HonestStores(t)
  PROVE  /\ inflight' \in [Swaps -> SUBSET Snapshots]
         /\ record' \in [Swaps -> Snapshots \cup {NoRecord}]
<1>1. inflight' \in [Swaps -> SUBSET Snapshots]
  BY DEF TypeOK, HonestStores
<1>2. record' \in [Swaps -> Snapshots \cup {NoRecord}]
  BY DEF TypeOK, HonestCanisters
<1> QED BY <1>1, <1>2

\* The stores on their way and the records stay true.
LEMMA StoresPreserve ==
  ASSUME IInv, NEW t \in Swaps, HonestCanisters(t), HonestStores(t)
  PROVE  \A u \in Swaps :
           /\ \A s \in inflight'[u] : Claims(s.stage) \subseteq did'[u]
           /\ record'[u] # NoRecord => Claims(record'[u].stage) \subseteq did'[u]
<1> SUFFICES ASSUME NEW u \in Swaps
             PROVE  /\ \A s \in inflight'[u] : Claims(s.stage) \subseteq did'[u]
                    /\ record'[u] # NoRecord => Claims(record'[u].stage) \subseteq did'[u]
  OBVIOUS
<1>1. did[u] \subseteq did'[u]
  BY DEF HonestCanisters
<1>2. /\ \A s \in inflight[u] : Claims(s.stage) \subseteq did[u]
      /\ record[u] # NoRecord => Claims(record[u].stage) \subseteq did[u]
  BY DEF IInv, RecordNeverAhead
<1>3. \A s \in inflight'[u] : s \in inflight[u] \/ Claims(s.stage) \subseteq did'[u]
  BY DEF HonestStores, IInv, TypeOK
<1>4. record'[u] = record[u] \/ Claims(record'[u].stage) \subseteq did[u]
  BY DEF HonestCanisters, IInv, TypeOK
<1> QED BY <1>1, <1>2, <1>3, <1>4

\* A step of the page that submitted the swap keeps the invariant.
LEMMA SwapPagePreserves ==
  ASSUME IInv, NEW t \in Swaps,
         HonestCanisters(t), HonestSwapPage(t), faults' \in Nat,
         UNCHANGED <<icrc2, rec, elapsed>>
  PROVE  IInv'
<1>1. PICK run \in SwapRuns : /\ swap' = [swap EXCEPT ![t] = run]
                              /\ Claims(run.stage) \subseteq did'[t]
                              /\ run.pc = "transferToNFID" => "payout" \in did'[t]
  BY DEF HonestSwapPage
<1>2. TypeOK'
  <2>1. swap' \in [Swaps -> SwapRuns]
    BY <1>1 DEF IInv, TypeOK
  <2>2. /\ inflight' \in [Swaps -> SUBSET Snapshots]
        /\ record' \in [Swaps -> Snapshots \cup {NoRecord}]
    BY StoresTyped DEF IInv, HonestSwapPage
  <2> QED BY <2>1, <2>2 DEF IInv, TypeOK, HonestCanisters
<1>3. RecordNeverAhead'
  <2>1. \A u \in Swaps : swap'[u] = swap[u] \/ (u = t /\ swap'[u] = run)
    BY <1>1 DEF IInv, TypeOK
  <2>2. \A u \in Swaps : did[u] \subseteq did'[u]
    BY DEF HonestCanisters
  <2>3. \A u \in Swaps : Claims(swap'[u].stage) \subseteq did'[u]
    BY <1>1, <2>1, <2>2 DEF IInv, RecordNeverAhead
  <2>4. \A u \in Swaps, r \in Recoverers : Claims(rec'[u][r].stage) \subseteq did'[u]
    BY <2>2 DEF IInv, RecordNeverAhead
  <2>5. HonestStores(t)
    BY DEF HonestSwapPage
  <2>6. \A u \in Swaps :
          /\ \A s \in inflight'[u] : Claims(s.stage) \subseteq did'[u]
          /\ record'[u] # NoRecord => Claims(record'[u].stage) \subseteq did'[u]
    BY <2>5, StoresPreserve
  <2> QED BY <2>3, <2>4, <2>6 DEF RecordNeverAhead
<1>4. PayoutBeforeFee' /\ FeeOnlyAfterPayout'
  BY <1>1 DEF IInv, TypeOK, PayoutBeforeFee, FeeOnlyAfterPayout, HonestCanisters
<1> QED BY <1>2, <1>3, <1>4 DEF IInv

\* A step of a row of the activity list keeps the invariant.
LEMMA RecoveryPreserves ==
  ASSUME IInv, NEW t \in Swaps, NEW r \in Recoverers,
         HonestCanisters(t), HonestRecovery(t, r), faults' \in Nat,
         UNCHANGED <<icrc2, swap, elapsed>>
  PROVE  IInv'
<1>1. PICK run \in Recoveries :
        /\ rec' = [rec EXCEPT ![t][r] = run]
        /\ Claims(run.stage) \subseteq did'[t]
        /\ FeeIsNext(run) => "payout" \in did'[t]
  BY DEF HonestRecovery
<1>2. /\ rec' \in [Swaps -> [Recoverers -> Recoveries]]
      /\ rec'[t][r] = run
      /\ \A u \in Swaps, q \in Recoverers : <<u, q>> # <<t, r>> => rec'[u][q] = rec[u][q]
  BY <1>1 DEF IInv, TypeOK
<1>3. TypeOK'
  <2>1. /\ inflight' \in [Swaps -> SUBSET Snapshots]
        /\ record' \in [Swaps -> Snapshots \cup {NoRecord}]
    BY StoresTyped DEF IInv, HonestRecovery
  <2> QED BY <1>2, <2>1 DEF IInv, TypeOK, HonestCanisters
<1>4. RecordNeverAhead'
  <2>1. \A u \in Swaps : did[u] \subseteq did'[u]
    BY DEF HonestCanisters
  <2>2. \A u \in Swaps : Claims(swap'[u].stage) \subseteq did'[u]
    BY <2>1 DEF IInv, RecordNeverAhead
  <2>3. \A u \in Swaps, q \in Recoverers : Claims(rec'[u][q].stage) \subseteq did'[u]
    BY <1>1, <1>2, <2>1 DEF IInv, RecordNeverAhead
  <2>4. HonestStores(t)
    BY DEF HonestRecovery
  <2>5. \A u \in Swaps :
          /\ \A s \in inflight'[u] : Claims(s.stage) \subseteq did'[u]
          /\ record'[u] # NoRecord => Claims(record'[u].stage) \subseteq did'[u]
    BY <2>4, StoresPreserve
  <2> QED BY <2>2, <2>3, <2>5 DEF RecordNeverAhead
<1>5. PayoutBeforeFee' /\ FeeOnlyAfterPayout'
  BY <1>1, <1>2 DEF IInv, TypeOK, PayoutBeforeFee, FeeOnlyAfterPayout, HonestCanisters
<1> QED BY <1>3, <1>4, <1>5 DEF IInv

-----------------------------------------------------------------------------
(* The canisters are honest *)

LEMMA Idle ==
  ASSUME IInv, NEW t \in Swaps, UNCHANGED canisters
  PROVE  HonestCanisters(t)
BY DEF IInv, TypeOK, canisters, HonestCanisters

LEMMA Ledger ==
  ASSUME IInv, NEW t \in Swaps, Approval(t) \/ Transfer(t)
  PROVE  HonestCanisters(t) /\ "transferId" \in did'[t]
<1>1. did' \in [Swaps -> SUBSET Deeds]
      /\ "transferId" \in did'[t] /\ \A u \in Swaps : did[u] \subseteq did'[u]
  BY DEF IInv, TypeOK, Deeds, Approval, Transfer, Executed
<1>3. \A u \in Swaps : "nfid" \in did'[u] => "nfid" \in did[u]
  BY DEF IInv, TypeOK, Approval, Transfer, Executed
<1>2. sub' \in Nat /\ src' \in Nat /\ tgt' \in Nat /\ payouts' = payouts /\ fees' = fees
      /\ record' = record
  BY DEF IInv, TypeOK, Approval, Transfer
<1> QED BY <1>1, <1>2, <1>3 DEF IInv, TypeOK, HonestCanisters

LEMMA Deposited ==
  ASSUME IInv, NEW t \in Swaps, sub > 0, PoolDeposit(t)
  PROVE  HonestCanisters(t) /\ "deposit" \in did'[t]
BY DEF IInv, TypeOK, Deeds, PoolDeposit, Executed, HonestCanisters

LEMMA Swapped ==
  ASSUME IInv, NEW t \in Swaps, src > 0, PoolSwap(t)
  PROVE  HonestCanisters(t) /\ "swap" \in did'[t]
BY DEF IInv, TypeOK, Deeds, PoolSwap, Executed, HonestCanisters

LEMMA Refunded ==
  ASSUME IInv, NEW t \in Swaps, src > 0, PoolWithdrawSource(t)
  PROVE  HonestCanisters(t)
BY DEF IInv, TypeOK, Deeds, PoolWithdrawSource, Executed, HonestCanisters

LEMMA PaidOut ==
  ASSUME IInv, NEW t \in Swaps, tgt > 0, PoolWithdrawTarget(t)
  PROVE  HonestCanisters(t) /\ "payout" \in did'[t]
BY DEF IInv, TypeOK, Deeds, PoolWithdrawTarget, Executed, HonestCanisters

LEMMA OneStep ==
  ASSUME IInv, NEW t \in Swaps, OneStepSwap(t)
  PROVE  HonestCanisters(t) /\ {"swap", "payout"} \subseteq did'[t]
BY DEF IInv, TypeOK, Deeds, OneStepSwap, Executed, HonestCanisters

LEMMA OneStepHalfway ==
  ASSUME IInv, NEW t \in Swaps, OneStepSwapStopsHalfway(t)
  PROVE  HonestCanisters(t)
BY DEF IInv, TypeOK, OneStepSwapStopsHalfway, HonestCanisters

LEMMA FeeTaken ==
  ASSUME IInv, NEW t \in Swaps, "payout" \in did[t], FeeTransfer(t)
  PROVE  HonestCanisters(t)
BY DEF IInv, TypeOK, Deeds, FeeTransfer, Executed, HonestCanisters

LEMMA RunStored ==
  ASSUME IInv, NEW t \in Swaps, NEW run \in SwapRuns \cup Recoveries,
         Claims(run.stage) \subseteq did[t], Stored(t, run)
  PROVE  HonestCanisters(t)
<1>1. Snapshot(run) \in Snapshots /\ Snapshot(run).stage = run.stage
  BY DEF Snapshot, Snapshots, SwapRuns, Recoveries
<1> QED BY <1>1 DEF IInv, TypeOK, Stored, HonestCanisters
-----------------------------------------------------------------------------
(* The page that submitted the swap is honest *)

LEMMA SwapPageStops ==
  ASSUME IInv, NEW t \in Swaps, HonestCanisters(t), Throw(t) \/ PageGone(t)
  PROVE  HonestSwapPage(t)
<1>1. /\ swap[t] \in SwapRuns /\ swap \in [Swaps -> SwapRuns]
      /\ Claims(swap[t].stage) \subseteq did'[t]
  BY DEF IInv, TypeOK, RecordNeverAhead, HonestCanisters
<1>2. PICK run \in SwapRuns : /\ swap' = [swap EXCEPT ![t] = run]
                              /\ run.stage = swap[t].stage
                              /\ run.pc # "transferToNFID"
  <2>1. CASE Throw(t)
    <3> DEFINE run == [swap[t] EXCEPT !.pc = "storeError", !.failed = TRUE]
    <3>1. swap' = [swap EXCEPT ![t] = run]
      BY <1>1, <2>1 DEF Throw
    <3>2. run \in SwapRuns /\ run.stage = swap[t].stage /\ run.pc # "transferToNFID"
      BY <1>1 DEF SwapRuns, SwapSteps
    <3> QED BY <3>1, <3>2
  <2>2. CASE PageGone(t)
    <3> DEFINE run == [swap[t] EXCEPT !.pc = "gone"]
    <3>1. swap' = [swap EXCEPT ![t] = run]
      BY <1>1, <2>2 DEF PageGone
    <3>2. run \in SwapRuns /\ run.stage = swap[t].stage /\ run.pc # "transferToNFID"
      BY <1>1 DEF SwapRuns, SwapSteps
    <3> QED BY <3>1, <3>2
  <2> QED BY <2>1, <2>2
<1>3. HonestStores(t)
  BY DEF Throw, PageGone, HonestStores
<1> QED BY <1>1, <1>2, <1>3 DEF HonestSwapPage

LEMMA SwapPageAdvances ==
  ASSUME IInv, NEW t \in Swaps, NEW pc \in SwapSteps, NEW stage \in Stages,
         Claims(stage) \subseteq did'[t],
         pc = "transferToNFID" => "payout" \in did'[t],
         Reached(t, pc, stage) \/ ReachedAndSent(t, pc, stage)
  PROVE  HonestSwapPage(t)
<1>1. swap[t] \in SwapRuns /\ swap \in [Swaps -> SwapRuns]
  BY DEF IInv, TypeOK
<1> DEFINE run == [swap[t] EXCEPT !.pc = pc, !.stage = stage]
           sent == [stage |-> stage, failed |-> swap[t].failed]
<1>2. run \in SwapRuns /\ run.stage = stage /\ run.pc = pc
  BY <1>1 DEF SwapRuns
<1>3. swap' = [swap EXCEPT ![t] = run]
  BY <1>1 DEF Reached, ReachedAndSent, Goto
<1>4. sent \in Snapshots /\ sent.stage = stage
  BY <1>1 DEF Snapshots, SwapRuns
<1>5. inflight' = inflight \/ inflight' = [inflight EXCEPT ![t] = @ \cup {sent}]
  BY DEF Reached, ReachedAndSent, SendStore
<1>6. HonestStores(t)
  BY <1>4, <1>5 DEF HonestStores
<1> QED BY <1>2, <1>3, <1>6 DEF HonestSwapPage

LEMMA icrc2supportedPreserves ==
  ASSUME IInv, NEW t \in Swaps, icrc2supported(t)
  PROVE  IInv'
<1>1. /\ UNCHANGED <<icrc2, rec, elapsed>> /\ faults' \in Nat
      /\ UNCHANGED canisters
      /\ \/ Reached(t, "icrc2approve", "TransferSwap")
         \/ Reached(t, "transferToSwap", "TransferSwap")
         \/ Throw(t) \/ PageGone(t)
  BY DEF IInv, TypeOK, icrc2supported, At, AwaitInSwap, Await, Fault
<1>2. HonestCanisters(t)
  BY <1>1, Idle
<1>3. HonestSwapPage(t)
  BY <1>1, <1>2, SwapPageStops, SwapPageAdvances DEF Claims, SwapSteps, Stages
<1> QED BY <1>1, <1>2, <1>3, SwapPagePreserves

LEMMA icrc2approvePreserves ==
  ASSUME IInv, NEW t \in Swaps, icrc2approve(t)
  PROVE  IInv'
<1>1. /\ UNCHANGED <<icrc2, rec, elapsed>> /\ faults' \in Nat
      /\ UNCHANGED canisters \/ (Approval(t))
      /\ \/ Approval(t) /\ ReachedAndSent(t, "depositFromAndSwap", "Deposit")
         \/ Throw(t) \/ PageGone(t)
  BY DEF IInv, TypeOK, icrc2approve, At, AwaitInSwap, Await, Fault
<1>2. HonestCanisters(t)
  BY <1>1, Idle, Ledger
<1>3. HonestSwapPage(t)
  BY <1>1, <1>2, SwapPageStops, SwapPageAdvances, Ledger DEF Claims, SwapSteps, Stages
<1> QED BY <1>1, <1>2, <1>3, SwapPagePreserves

LEMMA depositFromAndSwapPreserves ==
  ASSUME IInv, NEW t \in Swaps, depositFromAndSwap(t)
  PROVE  IInv'
<1>1. /\ UNCHANGED <<icrc2, rec, elapsed>> /\ faults' \in Nat
      /\ UNCHANGED canisters \/ (OneStepSwap(t)) \/ OneStepSwapStopsHalfway(t)
      /\ \/ OneStepSwap(t) /\ Reached(t, "transferToNFID", "Withdraw")
         \/ Throw(t) \/ PageGone(t)
  BY DEF IInv, TypeOK, depositFromAndSwap, At, AwaitInSwap, Await, Fault
<1>2. HonestCanisters(t)
  BY <1>1, Idle, OneStep, OneStepHalfway
<1>3. HonestSwapPage(t)
  BY <1>1, <1>2, SwapPageStops, SwapPageAdvances, OneStep DEF Claims, SwapSteps, Stages
<1> QED BY <1>1, <1>2, <1>3, SwapPagePreserves

LEMMA transferToSwapPreserves ==
  ASSUME IInv, NEW t \in Swaps, transferToSwap(t)
  PROVE  IInv'
<1>1. /\ UNCHANGED <<icrc2, rec, elapsed>> /\ faults' \in Nat
      /\ UNCHANGED canisters \/ (Transfer(t))
      /\ \/ Transfer(t) /\ ReachedAndSent(t, "deposit", "Deposit")
         \/ Throw(t) \/ PageGone(t)
  BY DEF IInv, TypeOK, transferToSwap, At, AwaitInSwap, Await, Fault
<1>2. HonestCanisters(t)
  BY <1>1, Idle, Ledger
<1>3. HonestSwapPage(t)
  BY <1>1, <1>2, SwapPageStops, SwapPageAdvances, Ledger DEF Claims, SwapSteps, Stages
<1> QED BY <1>1, <1>2, <1>3, SwapPagePreserves

LEMMA depositPreserves ==
  ASSUME IInv, NEW t \in Swaps, deposit(t)
  PROVE  IInv'
<1>1. /\ UNCHANGED <<icrc2, rec, elapsed>> /\ faults' \in Nat
      /\ UNCHANGED canisters \/ (PoolDeposit(t) /\ sub > 0)
      /\ \/ PoolDeposit(t) /\ sub > 0 /\ ReachedAndSent(t, "swapOnExchange", "Swap")
         \/ Throw(t) \/ PageGone(t)
  BY DEF IInv, TypeOK, deposit, At, AwaitInSwap, Await, Fault
<1>2. HonestCanisters(t)
  BY <1>1, Idle, Deposited
<1>3. HonestSwapPage(t)
  BY <1>1, <1>2, SwapPageStops, SwapPageAdvances, Deposited DEF Claims, SwapSteps, Stages
<1> QED BY <1>1, <1>2, <1>3, SwapPagePreserves

LEMMA swapOnExchangePreserves ==
  ASSUME IInv, NEW t \in Swaps, swapOnExchange(t)
  PROVE  IInv'
<1>1. /\ UNCHANGED <<icrc2, rec, elapsed>> /\ faults' \in Nat
      /\ UNCHANGED canisters \/ (PoolSwap(t) /\ src > 0)
      /\ \/ PoolSwap(t) /\ src > 0 /\ ReachedAndSent(t, "withdraw", "Withdraw")
         \/ Throw(t) \/ PageGone(t)
  BY DEF IInv, TypeOK, swapOnExchange, At, AwaitInSwap, Await, Fault
<1>2. HonestCanisters(t)
  BY <1>1, Idle, Swapped
<1>3. HonestSwapPage(t)
  BY <1>1, <1>2, SwapPageStops, SwapPageAdvances, Swapped DEF Claims, SwapSteps, Stages
<1> QED BY <1>1, <1>2, <1>3, SwapPagePreserves

LEMMA withdrawPreserves ==
  ASSUME IInv, NEW t \in Swaps, withdraw(t)
  PROVE  IInv'
<1>1. /\ UNCHANGED <<icrc2, rec, elapsed>> /\ faults' \in Nat
      /\ UNCHANGED canisters \/ (PoolWithdrawTarget(t) /\ tgt > 0)
      /\ \/ PoolWithdrawTarget(t) /\ tgt > 0 /\ ReachedAndSent(t, "transferToNFID", "TransferNFID")
         \/ Throw(t) \/ PageGone(t)
  BY DEF IInv, TypeOK, withdraw, At, AwaitInSwap, Await, Fault
<1>2. HonestCanisters(t)
  BY <1>1, Idle, PaidOut
<1>3. HonestSwapPage(t)
  BY <1>1, <1>2, SwapPageStops, SwapPageAdvances, PaidOut DEF Claims, SwapSteps, Stages
<1> QED BY <1>1, <1>2, <1>3, SwapPagePreserves

LEMMA transferToNFIDPreserves ==
  ASSUME IInv, NEW t \in Swaps, transferToNFID(t)
  PROVE  IInv'
<1>1. /\ UNCHANGED <<icrc2, rec, elapsed>> /\ faults' \in Nat
      /\ UNCHANGED canisters \/ (FeeTransfer(t))
      /\ \/ FeeTransfer(t) /\ Reached(t, "store", "Completed")
         \/ Throw(t) \/ PageGone(t)
  BY DEF IInv, TypeOK, transferToNFID, At, AwaitInSwap, Await, Fault
<1>0. "payout" \in did[t]
  BY DEF IInv, PayoutBeforeFee, transferToNFID, At
<1>2. HonestCanisters(t)
  BY <1>0, <1>1, Idle, FeeTaken
<1>3. HonestSwapPage(t)
  BY <1>1, <1>2, SwapPageStops, SwapPageAdvances, FeeTaken DEF Claims, SwapSteps, Stages
<1> QED BY <1>1, <1>2, <1>3, SwapPagePreserves

LEMMA restoreTransactionPreserves ==
  ASSUME IInv, NEW t \in Swaps, restoreTransaction(t)
  PROVE  IInv'
<1>1. swap[t] \in SwapRuns /\ Claims(swap[t].stage) \subseteq did[t]
  BY DEF IInv, TypeOK, RecordNeverAhead
<1>2. /\ UNCHANGED <<icrc2, rec, elapsed>> /\ faults' \in Nat
      /\ UNCHANGED canisters \/ Stored(t, swap[t])
      /\ \/ Reached(t, "done", swap[t].stage) \/ Reached(t, "failed", swap[t].stage)
         \/ Throw(t) \/ PageGone(t)
  BY DEF IInv, TypeOK, restoreTransaction, At, AwaitInSwap, Await, Fault
<1>3. HonestCanisters(t)
  BY <1>1, <1>2, Idle, RunStored
<1>4. swap[t].stage \in Stages /\ Claims(swap[t].stage) \subseteq did'[t]
  BY <1>1, <1>3 DEF SwapRuns, HonestCanisters
<1>5. HonestSwapPage(t)
  BY <1>2, <1>3, <1>4, SwapPageStops, SwapPageAdvances DEF SwapSteps
<1> QED BY <1>2, <1>3, <1>5, SwapPagePreserves

-----------------------------------------------------------------------------
(* A row of the activity list is honest *)

\* The row's next state is written out: what it claims decides the case.
LEMMA RowBecomes ==
  ASSUME IInv, NEW t \in Swaps, NEW r \in Recoverers, NEW run \in Recoveries,
         Claims(run.stage) \subseteq did'[t],
         FeeIsNext(run) => "payout" \in did'[t],
         Becomes(t, r, run)
  PROVE  HonestRecovery(t, r)
BY DEF Becomes, HonestRecovery, HonestStores

LEMMA RowContinues ==
  ASSUME IInv, NEW t \in Swaps, NEW r \in Recoverers,
         NEW pc \in RecoverySteps \ {"balance"}, NEW stage \in Stages,
         Claims(stage) \subseteq did'[t],
         pc = "transferToNFID" => "payout" \in did'[t],
         Continue(t, r, pc, stage)
  PROVE  HonestRecovery(t, r)
<1> DEFINE run == [rec[t][r] EXCEPT !.pc = pc, !.stage = stage]
<1>1. rec[t][r] \in Recoveries
  BY DEF IInv, TypeOK
<1>2. run \in Recoveries /\ run.pc = pc /\ run.stage = stage
  BY <1>1 DEF Recoveries
<1>3. Becomes(t, r, run)
  BY DEF Continue
<1> QED BY <1>2, <1>3, RowBecomes DEF FeeIsNext

\* Failing, recording the failure, or going away claims nothing new.
LEMMA RowStops ==
  ASSUME IInv, NEW t \in Swaps, NEW r \in Recoverers, HonestCanisters(t),
         Fails(t, r) \/ Catch(t, r) \/ RowGone(t, r)
  PROVE  HonestRecovery(t, r)
<1>1. /\ rec[t][r] \in Recoveries
      /\ Claims(rec[t][r].stage) \subseteq did'[t]
  BY DEF IInv, TypeOK, RecordNeverAhead, HonestCanisters
<1>2. CASE Catch(t, r)
  <2> DEFINE run == [rec[t][r] EXCEPT !.pc = "storeError", !.failed = TRUE]
  <2>1. run \in Recoveries /\ run.pc = "storeError" /\ run.stage = rec[t][r].stage
    BY <1>1 DEF Recoveries, RecoverySteps
  <2>2. Becomes(t, r, run)
    BY <1>2 DEF Catch
  <2> QED BY <1>1, <2>1, <2>2, RowBecomes DEF FeeIsNext
<1>3. CASE Continue(t, r, "ready", rec[t][r].stage)
  BY <1>1, <1>3, RowContinues DEF Recoveries, RecoverySteps
<1>4. CASE RowGone(t, r)
  <2> DEFINE run == [rec[t][r] EXCEPT !.pc = "none"]
  <2>1. run \in Recoveries /\ run.pc = "none" /\ run.stage = rec[t][r].stage
    BY <1>1 DEF Recoveries, RecoverySteps
  <2>2. Becomes(t, r, run)
    BY <1>4 DEF RowGone
  <2> QED BY <1>1, <2>1, <2>2, RowBecomes DEF FeeIsNext
<1> QED BY <1>2, <1>3, <1>4 DEF Fails

LEMMA getTransactionsPreserves ==
  ASSUME IInv, NEW t \in Swaps, NEW r \in Recoverers, getTransactions(t, r)
  PROVE  IInv'
<1> DEFINE run == [pc |-> "ready", stage |-> record[t].stage,
                   failed |-> record[t].failed, handler |-> "TransferSwap"]
<1>1. /\ UNCHANGED <<icrc2, swap, elapsed>> /\ faults' \in Nat /\ UNCHANGED canisters
      /\ record[t] # NoRecord /\ Becomes(t, r, run)
  BY DEF IInv, TypeOK, getTransactions, Here
<1>2. HonestCanisters(t) /\ did' = did
  BY <1>1, Idle DEF canisters
<1>3. record[t] \in Snapshots /\ Claims(record[t].stage) \subseteq did[t]
  BY <1>1 DEF IInv, TypeOK, RecordNeverAhead
<1>4. run \in Recoveries /\ run.pc = "ready" /\ run.stage = record[t].stage
  BY <1>3 DEF Snapshots, Recoveries, RecoverySteps, Handlers
<1>5. HonestRecovery(t, r)
  BY <1>1, <1>2, <1>3, <1>4, RowBecomes DEF FeeIsNext
<1> QED BY <1>1, <1>2, <1>5, RecoveryPreserves

LEMMA completeTransactionPreserves ==
  ASSUME IInv, NEW t \in Swaps, NEW r \in Recoverers, completeTransaction(t, r)
  PROVE  IInv'
<1> DEFINE handler == getHandler(rec[t][r])
           transferSwap == handler = "TransferSwap"
           run == [rec[t][r] EXCEPT !.handler = handler,
                                    !.pc = IF transferSwap THEN "store" ELSE "balance",
                                    !.stage = IF transferSwap THEN "Completed" ELSE @]
<1>1. /\ UNCHANGED <<icrc2, swap, elapsed>> /\ faults' \in Nat /\ UNCHANGED canisters
      /\ rec[t][r].stage # "Completed" /\ Becomes(t, r, run)
  BY DEF IInv, TypeOK, completeTransaction, Here
<1>2. HonestCanisters(t) /\ did' = did
  BY <1>1, Idle DEF canisters
<1>3. rec[t][r] \in Recoveries /\ Claims(rec[t][r].stage) \subseteq did[t]
  BY DEF IInv, TypeOK, RecordNeverAhead
<1>4. handler \in Handlers
  BY <1>3 DEF getHandler, Handlers, Recoveries
<1>5. handler \in {"TransferNFID", "TransferNFIDTimeout"} => "payout" \in did[t]
  BY <1>1, <1>3 DEF getHandler, Recoveries, Stages, Claims
<1>6. /\ run \in Recoveries /\ run.handler = handler
      /\ run.pc = IF handler = "TransferSwap" THEN "store" ELSE "balance"
      /\ run.stage = "Completed" \/ run.stage = rec[t][r].stage
  BY <1>3, <1>4 DEF Recoveries, RecoverySteps, Stages
<1>7. Claims(run.stage) \subseteq did'[t]
  BY <1>2, <1>3, <1>6 DEF Claims
<1>8. FeeIsNext(run) => "payout" \in did'[t]
  BY <1>2, <1>4, <1>5, <1>6 DEF FeeIsNext, FirstStep, Handlers
<1>9. HonestRecovery(t, r)
  BY <1>1, <1>6, <1>7, <1>8, RowBecomes
<1> QED BY <1>1, <1>2, <1>9, RecoveryPreserves

LEMMA getUserUnusedBalancePreserves ==
  ASSUME IInv, NEW t \in Swaps, NEW r \in Recoverers, getUserUnusedBalance(t, r)
  PROVE  IInv'
<1> DEFINE handler == rec[t][r].handler
<1>1. /\ UNCHANGED <<icrc2, swap, elapsed>> /\ faults' \in Nat /\ UNCHANGED canisters
      /\ rec[t][r].pc = "balance"
      /\ \/ handler = "TransferNFIDTimeout" /\ Continue(t, r, "ready", "Completed")
         \/ handler # "TransferNFIDTimeout"
            /\ Continue(t, r, FirstStep(handler), rec[t][r].stage)
         \/ Fails(t, r) \/ Catch(t, r) \/ RowGone(t, r)
  BY DEF IInv, TypeOK, getUserUnusedBalance, Here, Await, Fault
<1>2. HonestCanisters(t) /\ did' = did
  BY <1>1, Idle DEF canisters
<1>3. rec[t][r] \in Recoveries /\ Claims(rec[t][r].stage) \subseteq did[t]
  BY DEF IInv, TypeOK, RecordNeverAhead
<1>4. handler \in Handlers /\ rec[t][r].stage \in Stages
  BY <1>3 DEF Recoveries
<1>5. HonestRecovery(t, r)
  <2>1. CASE Continue(t, r, "ready", "Completed")
    BY <1>2, <2>1, RowContinues DEF Claims, Stages, RecoverySteps
  <2>2. CASE /\ handler # "TransferNFIDTimeout"
             /\ Continue(t, r, FirstStep(handler), rec[t][r].stage)
    <3>1. FirstStep(handler) \in RecoverySteps \ {"balance"}
      BY DEF FirstStep, RecoverySteps
    <3>2. FirstStep(handler) = "transferToNFID" => "payout" \in did'[t]
      BY <1>1, <1>2, <2>2 DEF IInv, PayoutBeforeFee, FeeIsNext
    <3> QED BY <1>2, <1>3, <1>4, <2>2, <3>1, <3>2, RowContinues
  <2> QED BY <1>1, <1>2, <2>1, <2>2, RowStops
<1> QED BY <1>1, <1>2, <1>5, RecoveryPreserves

LEMMA retryDepositPreserves ==
  ASSUME IInv, NEW t \in Swaps, NEW r \in Recoverers, retryDeposit(t, r)
  PROVE  IInv'
<1>1. /\ UNCHANGED <<icrc2, swap, elapsed>> /\ faults' \in Nat
      /\ UNCHANGED canisters \/ (sub > 0 /\ PoolDeposit(t))
      /\ \/ (sub > 0 /\ PoolDeposit(t)) /\ DepositTried(t, r, "Swap")
         \/ DepositTried(t, r, rec[t][r].stage)
         \/ RowGone(t, r)
  BY DEF IInv, TypeOK, retryDeposit, Here, Await, Fault
<1>2. HonestCanisters(t)
  BY <1>1, Idle, Deposited
<1>3. /\ rec[t][r] \in Recoveries /\ rec[t][r].stage \in Stages /\ rec[t][r].failed \in BOOLEAN
      /\ Claims(rec[t][r].stage) \subseteq did'[t]
  BY <1>2 DEF IInv, TypeOK, RecordNeverAhead, Recoveries, HonestCanisters
<1>4. ASSUME NEW stage \in Stages, Claims(stage) \subseteq did'[t],
             DepositTried(t, r, stage)
      PROVE  HonestRecovery(t, r)
  <2> DEFINE run == [rec[t][r] EXCEPT !.pc = "withdrawSource", !.stage = stage]
             sent == [stage |-> stage, failed |-> rec[t][r].failed]
  <2>1. run \in Recoveries /\ run.pc = "withdrawSource" /\ run.stage = stage
    BY <1>3 DEF Recoveries, RecoverySteps
  <2>2. rec' = [rec EXCEPT ![t][r] = run]
    BY <1>4 DEF DepositTried, IInv, TypeOK
  <2>3. sent \in Snapshots /\ sent.stage = stage
    BY <1>3 DEF Snapshots
  <2>4. HonestStores(t)
    BY <1>4, <2>3 DEF HonestStores, DepositTried, SendStore
  <2> QED BY <1>4, <2>1, <2>2, <2>4 DEF HonestRecovery, FeeIsNext
<1>5. Claims("Swap") = {"deposit"} /\ "Swap" \in Stages
  BY DEF Claims, Stages
<1>6. HonestRecovery(t, r)
  BY <1>1, <1>2, <1>3, <1>4, <1>5, Deposited, RowStops
<1> QED BY <1>1, <1>2, <1>6, RecoveryPreserves

LEMMA withdrawSourcePreserves ==
  ASSUME IInv, NEW t \in Swaps, NEW r \in Recoverers, withdrawSource(t, r)
  PROVE  IInv'
<1>1. /\ UNCHANGED <<icrc2, swap, elapsed>> /\ faults' \in Nat
      /\ UNCHANGED canisters \/ (src > 0 /\ PoolWithdrawSource(t))
      /\ \/ Continue(t, r, "store", "Completed")
         \/ Continue(t, r, "withdrawTarget", rec[t][r].stage)
         \/ Fails(t, r) \/ RowGone(t, r)
  BY DEF IInv, TypeOK, withdrawSource, Here, Await, Fault
<1>2. HonestCanisters(t)
  BY <1>1, Idle, Refunded
<1>3. rec[t][r].stage \in Stages /\ Claims(rec[t][r].stage) \subseteq did'[t]
  BY <1>2 DEF IInv, TypeOK, RecordNeverAhead, Recoveries, HonestCanisters
<1>4. Claims("Completed") = {} /\ "Completed" \in Stages
  BY DEF Claims, Stages
<1>5. HonestRecovery(t, r)
  BY <1>1, <1>2, <1>3, <1>4, RowContinues, RowStops DEF RecoverySteps
<1> QED BY <1>1, <1>2, <1>5, RecoveryPreserves

LEMMA withdrawTargetPreserves ==
  ASSUME IInv, NEW t \in Swaps, NEW r \in Recoverers, withdrawTarget(t, r)
  PROVE  IInv'
<1>1. /\ UNCHANGED <<icrc2, swap, elapsed>> /\ faults' \in Nat
      /\ UNCHANGED canisters \/ (tgt > 0 /\ PoolWithdrawTarget(t))
      /\ \/ /\ tgt > 0 /\ PoolWithdrawTarget(t)
            /\ Continue(t, r, "transferToNFID", "TransferNFID")
         \/ Continue(t, r, "store", "Completed")
         \/ Fails(t, r) \/ RowGone(t, r)
  BY DEF IInv, TypeOK, withdrawTarget, AwaitInRecovery, Here, Await, Fault
<1>2. HonestCanisters(t)
  BY <1>1, Idle, PaidOut
<1>3. /\ Claims("Completed") = {} /\ "Completed" \in Stages
      /\ Claims("TransferNFID") = {"payout"} /\ "TransferNFID" \in Stages
  BY DEF Claims, Stages
<1>4. HonestRecovery(t, r)
  BY <1>1, <1>2, <1>3, PaidOut, RowContinues, RowStops DEF RecoverySteps
<1> QED BY <1>1, <1>2, <1>4, RecoveryPreserves

LEMMA retryTransferToNFIDPreserves ==
  ASSUME IInv, NEW t \in Swaps, NEW r \in Recoverers, retryTransferToNFID(t, r)
  PROVE  IInv'
<1>1. /\ UNCHANGED <<icrc2, swap, elapsed>> /\ faults' \in Nat
      /\ rec[t][r].pc = "transferToNFID"
      /\ UNCHANGED canisters \/ FeeTransfer(t)
      /\ Continue(t, r, "store", "Completed") \/ Fails(t, r) \/ RowGone(t, r)
  BY DEF IInv, TypeOK, retryTransferToNFID, AwaitInRecovery, Here, Await, Fault
<1>2. "payout" \in did[t]
  BY <1>1 DEF IInv, PayoutBeforeFee, FeeIsNext
<1>3. HonestCanisters(t)
  BY <1>1, <1>2, Idle, FeeTaken
<1>4. Claims("Completed") = {} /\ "Completed" \in Stages
  BY DEF Claims, Stages
<1>5. HonestRecovery(t, r)
  BY <1>1, <1>3, <1>4, RowContinues, RowStops DEF RecoverySteps
<1> QED BY <1>1, <1>3, <1>5, RecoveryPreserves

LEMMA storeRecoveryPreserves ==
  ASSUME IInv, NEW t \in Swaps, NEW r \in Recoverers, storeRecovery(t, r)
  PROVE  IInv'
<1>1. /\ UNCHANGED <<icrc2, swap, elapsed>> /\ faults' \in Nat
      /\ UNCHANGED canisters \/ Stored(t, rec[t][r])
      /\ Continue(t, r, "ready", rec[t][r].stage) \/ Fails(t, r) \/ RowGone(t, r)
  BY DEF IInv, TypeOK, storeRecovery, AwaitInRecovery, Here, Await, Fault
<1>2. /\ rec[t][r] \in Recoveries /\ rec[t][r].stage \in Stages
      /\ Claims(rec[t][r].stage) \subseteq did[t]
  BY DEF IInv, TypeOK, RecordNeverAhead, Recoveries
<1>3. HonestCanisters(t)
  BY <1>1, <1>2, Idle, RunStored
<1>4. Claims(rec[t][r].stage) \subseteq did'[t]
  BY <1>2, <1>3 DEF HonestCanisters
<1>5. HonestRecovery(t, r)
  BY <1>1, <1>2, <1>3, <1>4, RowContinues, RowStops DEF RecoverySteps
<1> QED BY <1>1, <1>3, <1>5, RecoveryPreserves

-----------------------------------------------------------------------------
(* The other steps, and the theorems *)

LEMMA SubmitPreserves ==
  ASSUME IInv, NEW t \in Swaps, Submit(t)
  PROVE  IInv'
<1>1. /\ UNCHANGED <<icrc2, rec, elapsed>> /\ faults' \in Nat /\ UNCHANGED canisters
      /\ Reached(t, "start", "TransferSwap")
  BY DEF IInv, TypeOK, Submit, At
<1>2. HonestCanisters(t)
  BY <1>1, Idle
<1>3. HonestSwapPage(t)
  BY <1>1, SwapPageAdvances DEF Claims, SwapSteps, Stages
<1> QED BY <1>1, <1>2, <1>3, SwapPagePreserves

LEMMA DeliverStorePreserves ==
  ASSUME IInv, NEW t \in Swaps, DeliverStore(t)
  PROVE  IInv'
<1>1. PICK s \in inflight[t] :
        /\ inflight' = [inflight EXCEPT ![t] = @ \ {s}]
        /\ record' = [record EXCEPT ![t] = s] \/ record' = record
  BY DEF DeliverStore
<1>2. /\ UNCHANGED <<icrc2, sub, src, tgt, did, payouts, fees, swap, rec, elapsed>>
      /\ faults' \in Nat
  BY DEF IInv, TypeOK, DeliverStore, Fault
<1>3. s \in Snapshots /\ Claims(s.stage) \subseteq did[t]
  BY DEF IInv, TypeOK, RecordNeverAhead
<1>4. TypeOK'
  BY <1>1, <1>2, <1>3 DEF IInv, TypeOK
<1>5. RecordNeverAhead'
  <2>1. \A u \in Swaps : inflight'[u] \subseteq inflight[u]
    BY <1>1 DEF IInv, TypeOK
  <2>2. \A u \in Swaps : record'[u] = record[u] \/ (u = t /\ record'[u] = s)
    BY <1>1 DEF IInv, TypeOK
  <2> QED BY <1>2, <1>3, <2>1, <2>2 DEF IInv, RecordNeverAhead
<1>6. PayoutBeforeFee' /\ FeeOnlyAfterPayout'
  BY <1>2 DEF IInv, PayoutBeforeFee, FeeOnlyAfterPayout
<1> QED BY <1>4, <1>5, <1>6 DEF IInv

LEMMA ElapsePreserves ==
  ASSUME IInv, NEW t \in Swaps, Elapse(t)
  PROVE  IInv'
<1>1. /\ UNCHANGED <<icrc2, sub, src, tgt, did, payouts, fees, record, inflight, swap, rec, faults>>
      /\ elapsed' \in [Swaps -> BOOLEAN]
  BY DEF IInv, TypeOK, Elapse, canisters
<1> QED BY <1>1 DEF IInv, TypeOK, RecordNeverAhead, PayoutBeforeFee, FeeOnlyAfterPayout

LEMMA InitIInv == Init => IInv
<1> SUFFICES ASSUME Init PROVE IInv
  OBVIOUS
<1>1. TypeOK
  BY DEF Init, TypeOK, Stages, Snapshots, SwapSteps, SwapRuns, Handlers, RecoverySteps, Recoveries
<1>2. \A t \in Swaps : /\ swap[t].stage = "TransferSwap" /\ swap[t].pc = "idle"
                       /\ inflight[t] = {} /\ record[t] = NoRecord /\ did[t] = {}
  BY DEF Init
<1>3. \A t \in Swaps, r \in Recoverers :
        rec[t][r].stage = "TransferSwap" /\ rec[t][r].pc = "none"
  BY DEF Init
<1>4. RecordNeverAhead
  BY <1>2, <1>3 DEF RecordNeverAhead, Claims
<1>5. PayoutBeforeFee /\ FeeOnlyAfterPayout
  BY <1>2, <1>3 DEF PayoutBeforeFee, FeeIsNext, FeeOnlyAfterPayout
<1> QED BY <1>1, <1>4, <1>5 DEF IInv

LEMMA NextIInv == IInv /\ [Next]_vars => IInv'
<1> SUFFICES ASSUME IInv, [Next]_vars PROVE IInv'
  OBVIOUS
<1>1. CASE UNCHANGED vars
  BY <1>1 DEF vars, IInv, TypeOK, RecordNeverAhead, PayoutBeforeFee, FeeOnlyAfterPayout
<1>2. ASSUME NEW t \in Swaps, Submit(t) PROVE IInv'
  BY <1>2, SubmitPreserves
<1>3. ASSUME NEW t \in Swaps, SwapStep(t) PROVE IInv'
  BY <1>3, icrc2supportedPreserves, icrc2approvePreserves, depositFromAndSwapPreserves,
     transferToSwapPreserves, depositPreserves, swapOnExchangePreserves, withdrawPreserves,
     transferToNFIDPreserves, restoreTransactionPreserves DEF SwapStep
<1>4. ASSUME NEW t \in Swaps, DeliverStore(t) PROVE IInv'
  BY <1>4, DeliverStorePreserves
<1>5. ASSUME NEW t \in Swaps, Elapse(t) PROVE IInv'
  BY <1>5, ElapsePreserves
<1>6. ASSUME NEW t \in Swaps, NEW r \in Recoverers, getTransactions(t, r) PROVE IInv'
  BY <1>6, getTransactionsPreserves
<1>7. ASSUME NEW t \in Swaps, NEW r \in Recoverers, completeTransaction(t, r) PROVE IInv'
  BY <1>7, completeTransactionPreserves
<1>8. ASSUME NEW t \in Swaps, NEW r \in Recoverers, RecoveryStep(t, r) PROVE IInv'
  BY <1>8, getUserUnusedBalancePreserves, retryDepositPreserves, withdrawSourcePreserves,
     withdrawTargetPreserves, retryTransferToNFIDPreserves, storeRecoveryPreserves
     DEF RecoveryStep
<1> QED BY <1>1, <1>2, <1>3, <1>4, <1>5, <1>6, <1>7, <1>8 DEF Next

\* Every reachable state satisfies the inductive invariant.
THEOREM Invariance == Spec => []IInv
BY InitIInv, NextIInv, PTL DEF Spec

\* The variables keep their types: no balance of the pool goes below zero,
\* every record is one the storage canister can hold.
THEOREM TypeCorrect == Spec => []TypeOK
<1>1. IInv => TypeOK
  BY DEF IInv
<1> QED BY <1>1, Invariance, PTL

\* No transaction object, store or record is ever ahead of the ledgers, for
\* any number of swaps, pages and faults of any kind.
THEOREM RecordsAreTruthful == Spec => []RecordNeverAhead
<1>1. IInv => RecordNeverAhead
  BY DEF IInv
<1> QED BY <1>1, Invariance, PTL

\* The widget fee is only ever taken from a swap that was paid out.
THEOREM FeeIsEarned == Spec => []FeeOnlyAfterPayout
<1>1. IInv => FeeOnlyAfterPayout
  BY DEF IInv
<1> QED BY <1>1, Invariance, PTL
-----------------------------------------------------------------------------
(* Without a fault, no fee is taken twice.  Pages that are about to take the  *)
(* fee are counted as if they had taken it: a payout lets one page in, and    *)
(* the fee lets it out.  What has to be shown besides is that no other page   *)
(* gets there, which only a failed transfer of the fee can bring about.       *)

LateFee(run) == run.stage = "TransferNFID" /\ run.failed

CalmPage(run) ==
  /\ run.failed => run.pc \in {"storeError", "failed"}
  /\ run.stage = "TransferNFID" => run.pc = "transferToNFID"

CalmRow(run) ==
  /\ LateFee(run) => run.pc = "transferToNFID"
  /\ run.pc = "balance" => /\ run.handler \notin {"TransferSwap", "TransferNFID"}
                           /\ run.stage = "TransferNFID" => run.handler = "TransferNFIDTimeout"
  /\ run.pc \in {"deposit", "withdrawSource", "withdrawTarget"} => run.stage # "TransferNFID"

\* No row is told to take the fee again, and none will be.
Calm ==
  \A t \in Swaps :
    /\ CalmPage(swap[t])
    /\ \A r \in Recoverers : CalmRow(rec[t][r])
    /\ \A s \in inflight[t] : ~LateFee(s)
    /\ record[t] # NoRecord => ~LateFee(record[t])

PagesDue == {t \in Swaps : swap[t].pc = "transferToNFID"}
RowsDue == {p \in Swaps \X Recoverers : rec[p[1]][p[2]].pc = "transferToNFID"}

FeesCovered == fees + Cardinality(PagesDue) + Cardinality(RowsDue) <= payouts

CInv == faults = 0 => Calm /\ FeesCovered

\* There are finitely many swaps and pages.
FinitePages == IsFiniteSet(Swaps) /\ IsFiniteSet(Recoverers)

\* What a step writes into the stores.
CalmStores(t) ==
  /\ \/ inflight' = inflight
     \/ \E s \in Snapshots : ~LateFee(s) /\ inflight' = [inflight EXCEPT ![t] = @ \cup {s}]
  /\ \/ record' = record
     \/ \E s \in Snapshots : ~LateFee(s) /\ record' = [record EXCEPT ![t] = s]

PageMoves(t, pc) ==
  /\ CalmStores(t) /\ UNCHANGED rec
  /\ \E run \in SwapRuns : CalmPage(run) /\ run.pc = pc /\ swap' = [swap EXCEPT ![t] = run]

RowMoves(t, r, pc) ==
  /\ CalmStores(t) /\ UNCHANGED swap
  /\ \E run \in Recoveries : CalmRow(run) /\ run.pc = pc /\ rec' = [rec EXCEPT ![t][r] = run]

\* A move from one place to another, and what it does to the two totals.
Settles(was, is) ==
  \/ is # "transferToNFID" /\ fees' = fees /\ payouts' = payouts
  \/ fees' = fees /\ payouts' = payouts + 1
  \/ /\ was = "transferToNFID" /\ is # "transferToNFID"
     /\ fees' = fees + 1 /\ payouts' = payouts

LEMMA StoresStayCalm ==
  ASSUME IInv, Calm, NEW t \in Swaps, CalmStores(t)
  PROVE  \A u \in Swaps : /\ \A s \in inflight'[u] : ~LateFee(s)
                          /\ record'[u] # NoRecord => ~LateFee(record'[u])
<1> SUFFICES ASSUME NEW u \in Swaps
             PROVE  /\ \A s \in inflight'[u] : ~LateFee(s)
                    /\ record'[u] # NoRecord => ~LateFee(record'[u])
  OBVIOUS
<1>1. \A s \in inflight'[u] : s \in inflight[u] \/ ~LateFee(s)
  BY DEF CalmStores, IInv, TypeOK
<1>2. record'[u] = record[u] \/ ~LateFee(record'[u])
  BY DEF CalmStores, IInv, TypeOK
<1> QED BY <1>1, <1>2 DEF Calm

\* Adding at most one element to a finite set adds at most one to its size.
LEMMA OneMore ==
  ASSUME NEW S, IsFiniteSet(S), NEW T, NEW x, T \subseteq S \cup {x}
  PROVE  /\ IsFiniteSet(T)
         /\ Cardinality(T) \in Nat /\ Cardinality(S) \in Nat
         /\ Cardinality(T) <= Cardinality(S) + 1
         /\ x \notin T => Cardinality(T) <= Cardinality(S)
         /\ x \notin T /\ x \in S => Cardinality(T) <= Cardinality(S) - 1
<1>1. /\ IsFiniteSet(S \cup {x}) /\ Cardinality(S) \in Nat
      /\ Cardinality(S \cup {x}) <= Cardinality(S) + 1
  <2>1. Cardinality(S) \in Nat
    BY FS_CardinalityType
  <2>2. /\ IsFiniteSet(S \cup {x})
        /\ Cardinality(S \cup {x}) = IF x \in S THEN Cardinality(S) ELSE Cardinality(S) + 1
    BY FS_AddElement
  <2> QED BY <2>1, <2>2
<1>2. /\ IsFiniteSet(T) /\ Cardinality(T) <= Cardinality(S \cup {x})
  BY <1>1, FS_Subset
<1>3. Cardinality(T) \in Nat /\ Cardinality(S \cup {x}) \in Nat
  BY <1>1, <1>2, FS_CardinalityType
<1>4. /\ Cardinality(S \ {x}) \in Nat /\ IsFiniteSet(S \ {x})
      /\ Cardinality(S \ {x}) = IF x \in S THEN Cardinality(S) - 1 ELSE Cardinality(S)
  BY FS_RemoveElement, FS_CardinalityType
<1>5. x \notin T => Cardinality(T) <= Cardinality(S \ {x})
  <2>1. x \notin T => T \subseteq S \ {x}
    OBVIOUS
  <2> QED BY <1>4, <2>1, FS_Subset
<1> QED BY <1>1, <1>2, <1>3, <1>4, <1>5

LEMMA DueFinite ==
  ASSUME FinitePages
  PROVE  IsFiniteSet(PagesDue) /\ IsFiniteSet(RowsDue)
<1>1. IsFiniteSet(Swaps \X Recoverers)
  BY FS_Product DEF FinitePages
<1> QED BY <1>1, FS_Subset DEF FinitePages, PagesDue, RowsDue

\* A move of the page that submitted the swap.
LEMMA PageSettles ==
  ASSUME IInv, Calm, FeesCovered, FinitePages, NEW t \in Swaps, NEW pc,
         PageMoves(t, pc), Settles(swap[t].pc, pc)
  PROVE  Calm' /\ FeesCovered'
<1>1. PICK run \in SwapRuns : /\ CalmPage(run) /\ run.pc = pc
                              /\ swap' = [swap EXCEPT ![t] = run]
  BY DEF PageMoves
<1>2. \A u \in Swaps : swap'[u] = IF u = t THEN run ELSE swap[u]
  BY <1>1 DEF IInv, TypeOK
<1>3. Calm'
  <2>1. \A u \in Swaps : CalmPage(swap'[u])
    BY <1>1, <1>2 DEF Calm
  <2>2. \A u \in Swaps, r \in Recoverers : CalmRow(rec'[u][r])
    BY DEF Calm, PageMoves
  <2>3. \A u \in Swaps : /\ \A s \in inflight'[u] : ~LateFee(s)
                         /\ record'[u] # NoRecord => ~LateFee(record'[u])
    BY StoresStayCalm DEF PageMoves
  <2> QED BY <2>1, <2>2, <2>3 DEF Calm
<1>4. FeesCovered'
  <2>1. /\ PagesDue' \subseteq PagesDue \cup {t}
        /\ t \in PagesDue <=> swap[t].pc = "transferToNFID"
        /\ t \in PagesDue' <=> pc = "transferToNFID"
    BY <1>1, <1>2 DEF PagesDue
  <2>2. RowsDue' = RowsDue
    BY DEF RowsDue, PageMoves
  <2>3. /\ Cardinality(PagesDue') \in Nat /\ Cardinality(PagesDue) \in Nat
        /\ Cardinality(PagesDue') <= Cardinality(PagesDue) + 1
        /\ pc # "transferToNFID" => Cardinality(PagesDue') <= Cardinality(PagesDue)
        /\ pc # "transferToNFID" /\ swap[t].pc = "transferToNFID" =>
             Cardinality(PagesDue') <= Cardinality(PagesDue) - 1
    BY <2>1, DueFinite, OneMore
  <2>4. Cardinality(RowsDue) \in Nat
    BY DueFinite, FS_CardinalityType
  <2>5. fees \in Nat /\ payouts \in Nat
    BY DEF IInv, TypeOK
  <2> QED BY <2>2, <2>3, <2>4, <2>5 DEF FeesCovered, Settles
<1> QED BY <1>3, <1>4

\* A move of a row of the activity list.
LEMMA RowSettles ==
  ASSUME IInv, Calm, FeesCovered, FinitePages, NEW t \in Swaps, NEW r \in Recoverers, NEW pc,
         RowMoves(t, r, pc), Settles(rec[t][r].pc, pc)
  PROVE  Calm' /\ FeesCovered'
<1>1. PICK run \in Recoveries : /\ CalmRow(run) /\ run.pc = pc
                                /\ rec' = [rec EXCEPT ![t][r] = run]
  BY DEF RowMoves
<1>2. \A u \in Swaps, q \in Recoverers :
        rec'[u][q] = IF u = t /\ q = r THEN run ELSE rec[u][q]
  BY <1>1 DEF IInv, TypeOK
<1>3. Calm'
  <2>1. \A u \in Swaps : CalmPage(swap'[u])
    BY DEF Calm, RowMoves
  <2>2. \A u \in Swaps, q \in Recoverers : CalmRow(rec'[u][q])
    BY <1>1, <1>2 DEF Calm
  <2>3. \A u \in Swaps : /\ \A s \in inflight'[u] : ~LateFee(s)
                         /\ record'[u] # NoRecord => ~LateFee(record'[u])
    BY StoresStayCalm DEF RowMoves
  <2> QED BY <2>1, <2>2, <2>3 DEF Calm
<1>4. FeesCovered'
  <2>1. /\ RowsDue' \subseteq RowsDue \cup {<<t, r>>}
        /\ <<t, r>> \in RowsDue <=> rec[t][r].pc = "transferToNFID"
        /\ <<t, r>> \in RowsDue' <=> pc = "transferToNFID"
    <3>1. ASSUME NEW p \in RowsDue', p # <<t, r>> PROVE p \in RowsDue
      <4>1. PICK u \in Swaps, q \in Recoverers : p = <<u, q>>
        BY <3>1 DEF RowsDue
      <4> QED BY <1>2, <3>1, <4>1 DEF RowsDue
    <3>2. rec'[t][r] = run
      BY <1>2
    <3> QED BY <1>1, <3>1, <3>2 DEF RowsDue
  <2>2. PagesDue' = PagesDue
    BY DEF PagesDue, RowMoves
  <2>3. /\ Cardinality(RowsDue') \in Nat /\ Cardinality(RowsDue) \in Nat
        /\ Cardinality(RowsDue') <= Cardinality(RowsDue) + 1
        /\ pc # "transferToNFID" => Cardinality(RowsDue') <= Cardinality(RowsDue)
        /\ pc # "transferToNFID" /\ rec[t][r].pc = "transferToNFID" =>
             Cardinality(RowsDue') <= Cardinality(RowsDue) - 1
    BY <2>1, DueFinite, OneMore
  <2>4. Cardinality(PagesDue) \in Nat
    BY DueFinite, FS_CardinalityType
  <2>5. fees \in Nat /\ payouts \in Nat
    BY DEF IInv, TypeOK
  <2> QED BY <2>2, <2>3, <2>4, <2>5 DEF FeesCovered, Settles
<1> QED BY <1>3, <1>4

LEMMA PageGoes ==
  ASSUME IInv, Calm, NEW t \in Swaps, NEW pc \in SwapSteps, NEW stage \in Stages,
         Reached(t, pc, stage) \/ ReachedAndSent(t, pc, stage),
         swap[t].pc \notin {"storeError", "failed"} \/ pc = "failed",
         stage = "TransferNFID" => pc = "transferToNFID",
         record' = record \/ (swap[t].pc # "transferToNFID" /\ Stored(t, swap[t])),
         UNCHANGED rec
  PROVE  PageMoves(t, pc)
<1> DEFINE run == [swap[t] EXCEPT !.pc = pc, !.stage = stage]
           sent == [stage |-> stage, failed |-> swap[t].failed]
<1>1. swap[t] \in SwapRuns /\ swap \in [Swaps -> SwapRuns] /\ CalmPage(swap[t])
  BY DEF IInv, TypeOK, Calm
<1>2. run \in SwapRuns /\ run.pc = pc /\ run.stage = stage /\ run.failed = swap[t].failed
  BY <1>1 DEF SwapRuns
<1>3. swap' = [swap EXCEPT ![t] = run]
  BY <1>1 DEF Reached, ReachedAndSent, Goto
<1>4. CalmPage(run)
  BY <1>1, <1>2 DEF CalmPage
<1>5. CalmStores(t)
  <2>1. sent \in Snapshots /\ ~LateFee(sent)
    BY <1>1 DEF Snapshots, SwapRuns, LateFee, CalmPage
  <2>2. inflight' = inflight \/ inflight' = [inflight EXCEPT ![t] = @ \cup {sent}]
    BY DEF Reached, ReachedAndSent, SendStore
  <2>3. \/ record' = record
        \/ /\ Snapshot(swap[t]) \in Snapshots /\ ~LateFee(Snapshot(swap[t]))
           /\ record' = [record EXCEPT ![t] = Snapshot(swap[t])]
    BY <1>1 DEF Stored, Snapshot, Snapshots, SwapRuns, LateFee, CalmPage
  <2> QED BY <2>1, <2>2, <2>3 DEF CalmStores
<1> QED BY <1>2, <1>3, <1>4, <1>5 DEF PageMoves

LEMMA PageThrows ==
  ASSUME IInv, Calm, NEW t \in Swaps, Throw(t), swap[t].pc # "transferToNFID",
         record' = record, UNCHANGED rec
  PROVE  PageMoves(t, "storeError")
<1> DEFINE run == [swap[t] EXCEPT !.pc = "storeError", !.failed = TRUE]
<1>1. swap[t] \in SwapRuns /\ swap \in [Swaps -> SwapRuns] /\ CalmPage(swap[t])
  BY DEF IInv, TypeOK, Calm
<1>2. run \in SwapRuns /\ run.pc = "storeError" /\ run.stage = swap[t].stage /\ run.failed
  BY <1>1 DEF SwapRuns, SwapSteps
<1>3. swap' = [swap EXCEPT ![t] = run] /\ inflight' = inflight
  BY <1>1 DEF Throw
<1>4. CalmPage(run)
  BY <1>1, <1>2 DEF CalmPage
<1>5. CalmStores(t)
  BY <1>3 DEF CalmStores
<1> QED BY <1>2, <1>3, <1>4, <1>5 DEF PageMoves

\* The page that submitted the swap moves calmly.
LEMMA PageStepSettles ==
  ASSUME IInv, Calm, NEW t \in Swaps, Submit(t) \/ SwapStep(t), faults' = 0
  PROVE  \E pc \in SwapSteps : PageMoves(t, pc) /\ Settles(swap[t].pc, pc)
<1> USE DEF At, AwaitInSwap, Await, Fault
<1>0. faults \in Nat /\ UNCHANGED rec
  BY DEF IInv, TypeOK, Submit, SwapStep, icrc2supported, icrc2approve, depositFromAndSwap,
         transferToSwap, deposit, swapOnExchange, withdraw, transferToNFID, restoreTransaction
<1>1. CASE Submit(t)
  <2>1. swap[t].pc = "idle" /\ Reached(t, "start", "TransferSwap") /\ UNCHANGED canisters
    BY <1>1 DEF Submit
  <2>2. PageMoves(t, "start")
    BY <1>0, <2>1, PageGoes DEF SwapSteps, Stages, canisters
  <2> QED BY <2>1, <2>2 DEF Settles, canisters, SwapSteps
<1>2. CASE icrc2supported(t)
  <2>1. /\ swap[t].pc = "start" /\ UNCHANGED canisters
        /\ \/ Reached(t, "icrc2approve", "TransferSwap")
           \/ Reached(t, "transferToSwap", "TransferSwap")
    BY <1>0, <1>2 DEF icrc2supported
  <2>2. PageMoves(t, "icrc2approve") \/ PageMoves(t, "transferToSwap")
    BY <1>0, <2>1, PageGoes DEF SwapSteps, Stages, canisters
  <2> QED BY <2>1, <2>2 DEF Settles, canisters, SwapSteps
<1>3. CASE icrc2approve(t)
  <2>1. /\ swap[t].pc = "icrc2approve" /\ Approval(t)
        /\ ReachedAndSent(t, "depositFromAndSwap", "Deposit")
    BY <1>0, <1>3 DEF icrc2approve
  <2>2. PageMoves(t, "depositFromAndSwap")
    BY <1>0, <2>1, PageGoes DEF SwapSteps, Stages, Approval
  <2> QED BY <2>1, <2>2 DEF Settles, Approval, SwapSteps
<1>4. CASE depositFromAndSwap(t)
  <2>1. /\ swap[t].pc = "depositFromAndSwap" /\ OneStepSwap(t)
        /\ Reached(t, "transferToNFID", "Withdraw")
    BY <1>0, <1>4 DEF depositFromAndSwap
  <2>2. PageMoves(t, "transferToNFID")
    BY <1>0, <2>1, PageGoes DEF SwapSteps, Stages, OneStepSwap
  <2> QED BY <2>1, <2>2 DEF Settles, OneStepSwap, SwapSteps
<1>5. CASE transferToSwap(t)
  <2>1. /\ swap[t].pc = "transferToSwap" /\ Transfer(t)
        /\ ReachedAndSent(t, "deposit", "Deposit")
    BY <1>0, <1>5 DEF transferToSwap
  <2>2. PageMoves(t, "deposit")
    BY <1>0, <2>1, PageGoes DEF SwapSteps, Stages, Transfer
  <2> QED BY <2>1, <2>2 DEF Settles, Transfer, SwapSteps
<1>6. CASE deposit(t)
  <2>1. /\ swap[t].pc = "deposit"
        /\ \/ PoolDeposit(t) /\ ReachedAndSent(t, "swapOnExchange", "Swap")
           \/ UNCHANGED canisters /\ Throw(t)
    BY <1>0, <1>6 DEF deposit
  <2>2. PageMoves(t, "swapOnExchange") \/ PageMoves(t, "storeError")
    BY <1>0, <2>1, PageGoes, PageThrows DEF SwapSteps, Stages, PoolDeposit, canisters
  <2> QED BY <2>1, <2>2 DEF Settles, PoolDeposit, canisters, SwapSteps
<1>7. CASE swapOnExchange(t)
  <2>1. /\ swap[t].pc = "swapOnExchange"
        /\ \/ PoolSwap(t) /\ ReachedAndSent(t, "withdraw", "Withdraw")
           \/ UNCHANGED canisters /\ Throw(t)
    BY <1>0, <1>7 DEF swapOnExchange
  <2>2. PageMoves(t, "withdraw") \/ PageMoves(t, "storeError")
    BY <1>0, <2>1, PageGoes, PageThrows DEF SwapSteps, Stages, PoolSwap, canisters
  <2> QED BY <2>1, <2>2 DEF Settles, PoolSwap, canisters, SwapSteps
<1>8. CASE withdraw(t)
  <2>1. /\ swap[t].pc = "withdraw"
        /\ \/ PoolWithdrawTarget(t) /\ ReachedAndSent(t, "transferToNFID", "TransferNFID")
           \/ UNCHANGED canisters /\ Throw(t)
    BY <1>0, <1>8 DEF withdraw
  <2>2. CASE UNCHANGED canisters /\ Throw(t)
    <3>1. PageMoves(t, "storeError")
      BY <1>0, <2>1, <2>2, PageThrows DEF canisters
    <3> QED BY <2>2, <3>1 DEF Settles, canisters, SwapSteps
  <2>3. CASE PoolWithdrawTarget(t) /\ ReachedAndSent(t, "transferToNFID", "TransferNFID")
    <3>1. PageMoves(t, "transferToNFID")
      BY <1>0, <2>1, <2>3, PageGoes DEF SwapSteps, Stages, PoolWithdrawTarget
    <3> QED BY <2>3, <3>1 DEF Settles, PoolWithdrawTarget, SwapSteps
  <2> QED BY <2>1, <2>2, <2>3
<1>9. CASE transferToNFID(t)
  <2>1. swap[t].pc = "transferToNFID" /\ FeeTransfer(t) /\ Reached(t, "store", "Completed")
    BY <1>0, <1>9 DEF transferToNFID
  <2>2. PageMoves(t, "store")
    BY <1>0, <2>1, PageGoes DEF SwapSteps, Stages, FeeTransfer
  <2> QED BY <2>1, <2>2 DEF Settles, FeeTransfer, SwapSteps
<1>10. CASE restoreTransaction(t)
  <2>1. /\ Stored(t, swap[t])
        /\ \/ swap[t].pc = "store" /\ Reached(t, "done", swap[t].stage)
           \/ swap[t].pc = "storeError" /\ Reached(t, "failed", swap[t].stage)
    BY <1>0, <1>10 DEF restoreTransaction
  <2>2. swap[t].stage \in Stages /\ swap[t].stage # "TransferNFID"
    BY <2>1 DEF IInv, TypeOK, SwapRuns, Calm, CalmPage
  <2>3. PageMoves(t, "done") \/ PageMoves(t, "failed")
    BY <1>0, <2>1, <2>2, PageGoes DEF SwapSteps
  <2> QED BY <2>1, <2>3 DEF Settles, Stored, SwapSteps
<1> QED BY <1>1, <1>2, <1>3, <1>4, <1>5, <1>6, <1>7, <1>8, <1>9, <1>10 DEF SwapStep

LEMMA RowGoes ==
  ASSUME IInv, Calm, NEW t \in Swaps, NEW r \in Recoverers, NEW run \in Recoveries,
         Becomes(t, r, run), CalmRow(run), UNCHANGED swap,
         record' = record \/ (~LateFee(rec[t][r]) /\ Stored(t, rec[t][r]))
  PROVE  RowMoves(t, r, run.pc)
<1>1. rec' = [rec EXCEPT ![t][r] = run] /\ inflight' = inflight
  BY DEF Becomes
<1>2. \/ record' = record
      \/ /\ Snapshot(rec[t][r]) \in Snapshots /\ ~LateFee(Snapshot(rec[t][r]))
         /\ record' = [record EXCEPT ![t] = Snapshot(rec[t][r])]
  <2>1. rec[t][r] \in Recoveries
    BY DEF IInv, TypeOK
  <2> QED BY <2>1 DEF Stored, Snapshot, Snapshots, Recoveries, LateFee
<1>3. CalmStores(t)
  BY <1>1, <1>2 DEF CalmStores
<1> QED BY <1>1, <1>3 DEF RowMoves

\* Continuing somewhere else than at a balance or at a fee.
LEMMA RowGoesOn ==
  ASSUME IInv, Calm, NEW t \in Swaps, NEW r \in Recoverers,
         NEW pc \in RecoverySteps \ {"balance"}, NEW stage \in Stages,
         Continue(t, r, pc, stage), UNCHANGED swap,
         stage = "TransferNFID" =>
           pc = "transferToNFID" \/ (pc \in {"none", "ready", "store"} /\ ~rec[t][r].failed),
         record' = record \/ (~LateFee(rec[t][r]) /\ Stored(t, rec[t][r]))
  PROVE  RowMoves(t, r, pc)
<1> DEFINE run == [rec[t][r] EXCEPT !.pc = pc, !.stage = stage]
<1>1. rec[t][r] \in Recoveries
  BY DEF IInv, TypeOK
<1>2. /\ run \in Recoveries /\ run.pc = pc /\ run.stage = stage
      /\ run.failed = rec[t][r].failed
  BY <1>1 DEF Recoveries
<1>3. CalmRow(run)
  BY <1>2 DEF CalmRow, LateFee
<1>4. Becomes(t, r, run)
  BY DEF Continue
<1> QED BY <1>2, <1>3, <1>4, RowGoes

\* A refused call ends the handler, recorded or not.
LEMMA RowFails ==
  ASSUME IInv, Calm, NEW t \in Swaps, NEW r \in Recoverers, Fails(t, r),
         UNCHANGED swap, record' = record, rec[t][r].stage # "TransferNFID"
  PROVE  RowMoves(t, r, "storeError") \/ RowMoves(t, r, "ready")
<1>1. rec[t][r] \in Recoveries /\ rec[t][r].stage \in Stages
  BY DEF IInv, TypeOK, Recoveries
<1>2. CASE Continue(t, r, "ready", rec[t][r].stage)
  BY <1>1, <1>2, RowGoesOn DEF RecoverySteps
<1>3. CASE Catch(t, r)
  <2> DEFINE run == [rec[t][r] EXCEPT !.pc = "storeError", !.failed = TRUE]
  <2>1. run \in Recoveries /\ run.pc = "storeError" /\ run.stage = rec[t][r].stage
    BY <1>1 DEF Recoveries, RecoverySteps
  <2>2. CalmRow(run)
    BY <2>1 DEF CalmRow, LateFee
  <2>3. Becomes(t, r, run)
    BY <1>3 DEF Catch
  <2>4. RowMoves(t, r, run.pc)
    BY <2>1, <2>2, <2>3, RowGoes
  <2> QED BY <2>1, <2>4
<1> QED BY <1>2, <1>3 DEF Fails

\* A row of the activity list moves calmly.
LEMMA RowStepSettles ==
  ASSUME IInv, Calm, NEW t \in Swaps, NEW r \in Recoverers, faults' = 0,
         getTransactions(t, r) \/ completeTransaction(t, r) \/ RecoveryStep(t, r)
  PROVE  \E pc \in RecoverySteps : RowMoves(t, r, pc) /\ Settles(rec[t][r].pc, pc)
<1> USE DEF Here, AwaitInRecovery, Await, Fault
<1>0. /\ faults \in Nat /\ UNCHANGED swap
      /\ rec[t][r] \in Recoveries /\ rec[t][r].stage \in Stages /\ rec[t][r].handler \in Handlers
      /\ CalmRow(rec[t][r])
  <2>1. faults \in Nat /\ rec[t][r] \in Recoveries /\ CalmRow(rec[t][r])
    BY DEF IInv, TypeOK, Calm
  <2>2. UNCHANGED swap
    BY DEF getTransactions, completeTransaction, RecoveryStep, getUserUnusedBalance,
           retryDeposit, withdrawSource, withdrawTarget, retryTransferToNFID, storeRecovery
  <2> QED BY <2>1, <2>2 DEF Recoveries
<1>1. CASE getTransactions(t, r)
  <2> DEFINE run == [pc |-> "ready", stage |-> record[t].stage,
                     failed |-> record[t].failed, handler |-> "TransferSwap"]
  <2>1. /\ UNCHANGED canisters /\ record[t] # NoRecord
        /\ Becomes(t, r, run)
    BY <1>1 DEF getTransactions
  <2>2. record[t] \in Snapshots /\ ~LateFee(record[t])
    BY <2>1 DEF IInv, TypeOK, Calm
  <2>3. run \in Recoveries /\ run.pc = "ready" /\ CalmRow(run)
    BY <2>2 DEF Snapshots, Recoveries, RecoverySteps, Handlers, CalmRow, LateFee
  <2>4. RowMoves(t, r, run.pc)
    BY <1>0, <2>1, <2>3, RowGoes DEF canisters
  <2> QED BY <2>1, <2>3, <2>4 DEF Settles, canisters, RecoverySteps
<1>2. CASE completeTransaction(t, r)
  <2> DEFINE handler == getHandler(rec[t][r])
             transferSwap == handler = "TransferSwap"
             run == [rec[t][r] EXCEPT !.handler = handler,
                                      !.pc = IF transferSwap THEN "store" ELSE "balance",
                                      !.stage = IF transferSwap THEN "Completed" ELSE @]
  <2>1. /\ UNCHANGED canisters /\ rec[t][r].pc = "ready" /\ rec[t][r].stage # "Completed"
        /\ Becomes(t, r, run)
    BY <1>2 DEF completeTransaction
  <2>2. handler \in Handlers
    BY <1>0 DEF getHandler, Handlers
  <2>3. ~LateFee(rec[t][r])
    BY <1>0, <2>1 DEF CalmRow
  <2>4. /\ handler # "TransferNFID"
        /\ rec[t][r].stage = "TransferNFID" => handler = "TransferNFIDTimeout"
    BY <1>0, <2>1, <2>3 DEF getHandler, LateFee, Stages
  <2>5. /\ run \in Recoveries /\ run.handler = handler /\ run.failed = rec[t][r].failed
        /\ run.pc = IF handler = "TransferSwap" THEN "store" ELSE "balance"
        /\ run.stage = IF handler = "TransferSwap" THEN "Completed" ELSE rec[t][r].stage
    BY <1>0, <2>2 DEF Recoveries, RecoverySteps, Stages
  <2>6. CalmRow(run)
    BY <2>3, <2>4, <2>5 DEF CalmRow, LateFee
  <2>7. RowMoves(t, r, run.pc)
    BY <1>0, <2>1, <2>5, <2>6, RowGoes DEF canisters
  <2> QED BY <2>1, <2>5, <2>7 DEF Settles, canisters, RecoverySteps
<1>3. CASE getUserUnusedBalance(t, r)
  <2> DEFINE handler == rec[t][r].handler
  <2>1. /\ rec[t][r].pc = "balance" /\ UNCHANGED canisters
        /\ \/ handler = "TransferNFIDTimeout" /\ Continue(t, r, "ready", "Completed")
           \/ /\ handler # "TransferNFIDTimeout"
              /\ Continue(t, r, FirstStep(handler), rec[t][r].stage)
    BY <1>0, <1>3 DEF getUserUnusedBalance
  <2>2. CASE Continue(t, r, "ready", "Completed")
    <3>1. RowMoves(t, r, "ready")
      BY <1>0, <2>1, <2>2, RowGoesOn DEF RecoverySteps, Stages, canisters
    <3> QED BY <2>1, <3>1 DEF Settles, canisters, RecoverySteps
  <2>3. CASE /\ handler # "TransferNFIDTimeout"
             /\ Continue(t, r, FirstStep(handler), rec[t][r].stage)
    <3>1. handler \notin {"TransferSwap", "TransferNFID"} /\ rec[t][r].stage # "TransferNFID"
      BY <1>0, <2>1, <2>3 DEF CalmRow
    <3>2. FirstStep(handler) \in {"deposit", "withdrawSource", "withdrawTarget"}
      BY <1>0, <2>3, <3>1 DEF FirstStep, Handlers
    <3>3. RowMoves(t, r, FirstStep(handler))
      BY <1>0, <2>1, <2>3, <3>1, <3>2, RowGoesOn DEF RecoverySteps, canisters
    <3> QED BY <2>1, <3>2, <3>3 DEF Settles, canisters, RecoverySteps
  <2> QED BY <2>1, <2>2, <2>3
<1>4. CASE retryDeposit(t, r)
  <2>1. /\ rec[t][r].pc = "deposit"
        /\ \/ PoolDeposit(t) /\ DepositTried(t, r, "Swap")
           \/ UNCHANGED canisters /\ DepositTried(t, r, rec[t][r].stage)
    BY <1>0, <1>4 DEF retryDeposit
  <2>2. PICK stage \in Stages : stage # "TransferNFID" /\ DepositTried(t, r, stage)
    BY <1>0, <2>1 DEF CalmRow, Stages
  <2> DEFINE run == [rec[t][r] EXCEPT !.pc = "withdrawSource", !.stage = stage]
             sent == [stage |-> stage, failed |-> rec[t][r].failed]
  <2>3. run \in Recoveries /\ run.pc = "withdrawSource" /\ run.stage = stage
    BY <1>0 DEF Recoveries, RecoverySteps
  <2>4. rec' = [rec EXCEPT ![t][r] = run]
    BY <2>2 DEF DepositTried, IInv, TypeOK
  <2>5. sent \in Snapshots /\ ~LateFee(sent)
    BY <1>0, <2>2 DEF Snapshots, Recoveries, LateFee
  <2>6. record' = record /\ fees' = fees /\ payouts' = payouts
    BY <2>1 DEF PoolDeposit, canisters
  <2>7. CalmStores(t)
    BY <2>2, <2>5, <2>6 DEF CalmStores, DepositTried, SendStore
  <2>8. CalmRow(run)
    BY <2>2, <2>3 DEF CalmRow, LateFee
  <2>9. RowMoves(t, r, "withdrawSource")
    BY <1>0, <2>3, <2>4, <2>7, <2>8 DEF RowMoves
  <2> QED BY <2>6, <2>9 DEF Settles, RecoverySteps
<1>5. CASE withdrawSource(t, r)
  <2>1. /\ rec[t][r].pc = "withdrawSource"
        /\ PoolWithdrawSource(t) \/ UNCHANGED canisters
        /\ \/ Continue(t, r, "store", "Completed")
           \/ Continue(t, r, "withdrawTarget", rec[t][r].stage)
           \/ Fails(t, r)
    BY <1>0, <1>5 DEF withdrawSource
  <2>2. rec[t][r].stage # "TransferNFID"
    BY <1>0, <2>1 DEF CalmRow
  <2>3. record' = record /\ fees' = fees /\ payouts' = payouts
    BY <2>1 DEF PoolWithdrawSource, canisters
  <2>4. \/ RowMoves(t, r, "store") \/ RowMoves(t, r, "withdrawTarget")
        \/ RowMoves(t, r, "storeError") \/ RowMoves(t, r, "ready")
    BY <1>0, <2>1, <2>2, <2>3, RowGoesOn, RowFails DEF RecoverySteps, Stages
  <2> QED BY <2>3, <2>4 DEF Settles, RecoverySteps
<1>6. CASE withdrawTarget(t, r)
  <2>1. /\ rec[t][r].pc = "withdrawTarget"
        /\ \/ /\ PoolWithdrawTarget(t)
              /\ \/ Continue(t, r, "transferToNFID", "TransferNFID")
                 \/ Continue(t, r, "store", "Completed")
           \/ UNCHANGED canisters /\ Fails(t, r)
    BY <1>0, <1>6 DEF withdrawTarget
  <2>2. rec[t][r].stage # "TransferNFID"
    BY <1>0, <2>1 DEF CalmRow
  <2>3. CASE UNCHANGED canisters /\ Fails(t, r)
    <3>1. RowMoves(t, r, "storeError") \/ RowMoves(t, r, "ready")
      BY <1>0, <2>2, <2>3, RowFails DEF canisters
    <3> QED BY <2>3, <3>1 DEF Settles, canisters, RecoverySteps
  <2>4. CASE /\ PoolWithdrawTarget(t)
             /\ \/ Continue(t, r, "transferToNFID", "TransferNFID")
                \/ Continue(t, r, "store", "Completed")
    <3>1. RowMoves(t, r, "transferToNFID") \/ RowMoves(t, r, "store")
      BY <1>0, <2>4, RowGoesOn DEF RecoverySteps, Stages, PoolWithdrawTarget
    <3> QED BY <2>4, <3>1 DEF Settles, PoolWithdrawTarget, RecoverySteps
  <2> QED BY <2>1, <2>3, <2>4
<1>7. CASE retryTransferToNFID(t, r)
  <2>1. /\ rec[t][r].pc = "transferToNFID" /\ FeeTransfer(t)
        /\ Continue(t, r, "store", "Completed")
    BY <1>0, <1>7 DEF retryTransferToNFID
  <2>2. RowMoves(t, r, "store")
    BY <1>0, <2>1, RowGoesOn DEF RecoverySteps, Stages, FeeTransfer
  <2> QED BY <2>1, <2>2 DEF Settles, FeeTransfer, RecoverySteps
<1>8. CASE storeRecovery(t, r)
  <2>1. /\ rec[t][r].pc \in {"store", "storeError"} /\ Stored(t, rec[t][r])
        /\ Continue(t, r, "ready", rec[t][r].stage)
    BY <1>0, <1>8 DEF storeRecovery
  <2>2. ~LateFee(rec[t][r])
    BY <1>0, <2>1 DEF CalmRow
  <2>3. rec[t][r].stage = "TransferNFID" => ~rec[t][r].failed
    BY <2>2 DEF LateFee
  <2>4. RowMoves(t, r, "ready")
    BY <1>0, <2>1, <2>2, <2>3, RowGoesOn DEF RecoverySteps
  <2> QED BY <2>1, <2>4 DEF Settles, Stored, RecoverySteps
<1> QED BY <1>1, <1>2, <1>3, <1>4, <1>5, <1>6, <1>7, <1>8 DEF RecoveryStep

LEMMA FaultsOnlyGrow ==
  ASSUME IInv, [Next]_vars, faults' = 0
  PROVE  faults = 0
<1> USE DEF Await, Fault
<1>0. faults \in Nat
  BY DEF IInv, TypeOK
<1>1. ASSUME NEW t \in Swaps, Submit(t) \/ SwapStep(t) PROVE faults = 0
  <2>1. CASE depositFromAndSwap(t)
    BY <1>0, <2>1 DEF depositFromAndSwap, AwaitInSwap
  <2>2. CASE restoreTransaction(t)
    BY <1>0, <2>2 DEF restoreTransaction, AwaitInSwap
  <2>3. CASE Submit(t) \/ icrc2supported(t) \/ icrc2approve(t) \/ transferToSwap(t)
    BY <1>0, <2>3 DEF Submit, icrc2supported, icrc2approve, transferToSwap, AwaitInSwap
  <2>4. CASE deposit(t) \/ swapOnExchange(t) \/ withdraw(t) \/ transferToNFID(t)
    BY <1>0, <2>4 DEF deposit, swapOnExchange, withdraw, transferToNFID, AwaitInSwap
  <2> QED BY <1>1, <2>1, <2>2, <2>3, <2>4 DEF SwapStep
<1>2. ASSUME NEW t \in Swaps, DeliverStore(t) \/ Elapse(t) PROVE faults = 0
  BY <1>0, <1>2 DEF DeliverStore, Elapse
<1>3. ASSUME NEW t \in Swaps, NEW r \in Recoverers,
             getTransactions(t, r) \/ completeTransaction(t, r) \/ RecoveryStep(t, r)
      PROVE  faults = 0
  <2>1. CASE getTransactions(t, r) \/ completeTransaction(t, r)
    BY <2>1 DEF getTransactions, completeTransaction
  <2>2. CASE getUserUnusedBalance(t, r) \/ retryDeposit(t, r)
    BY <1>0, <2>2 DEF getUserUnusedBalance, retryDeposit
  <2>3. CASE withdrawSource(t, r) \/ withdrawTarget(t, r)
    BY <1>0, <2>3 DEF withdrawSource, withdrawTarget, AwaitInRecovery
  <2>4. CASE retryTransferToNFID(t, r) \/ storeRecovery(t, r)
    BY <1>0, <2>4 DEF retryTransferToNFID, storeRecovery, AwaitInRecovery
  <2> QED BY <1>3, <2>1, <2>2, <2>3, <2>4 DEF RecoveryStep
<1>4. CASE UNCHANGED vars
  BY <1>4 DEF vars
<1> QED BY <1>1, <1>2, <1>3, <1>4 DEF Next

LEMMA InitCInv ==
  ASSUME Init, FinitePages
  PROVE  CInv
<1>1. \A t \in Swaps :
        /\ swap[t].stage = "TransferSwap" /\ swap[t].pc = "idle" /\ ~swap[t].failed
        /\ inflight[t] = {} /\ record[t] = NoRecord
        /\ \A r \in Recoverers : rec[t][r].stage = "TransferSwap" /\ rec[t][r].pc = "none"
  BY DEF Init
<1>2. Calm
  BY <1>1 DEF Calm, CalmPage, CalmRow, LateFee
<1>3. PagesDue = {} /\ RowsDue = {}
  <2>1. PagesDue = {}
    BY <1>1 DEF PagesDue
  <2>2. ASSUME NEW p \in RowsDue PROVE FALSE
    <3>1. p[1] \in Swaps /\ p[2] \in Recoverers /\ rec[p[1]][p[2]].pc = "transferToNFID"
      BY <2>2 DEF RowsDue
    <3> QED BY <1>1, <3>1
  <2> QED BY <2>1, <2>2
<1>4. FeesCovered
  BY <1>3, FS_EmptySet DEF FeesCovered, Init
<1> QED BY <1>2, <1>4 DEF CInv

LEMMA NextCInv ==
  ASSUME IInv, CInv, [Next]_vars, FinitePages
  PROVE  CInv'
<1> SUFFICES ASSUME faults' = 0 PROVE Calm' /\ FeesCovered'
  BY DEF CInv
<1>0. faults = 0 /\ Calm /\ FeesCovered
  BY FaultsOnlyGrow DEF CInv
<1>1. CASE UNCHANGED vars
  BY <1>0, <1>1 DEF vars, Calm, FeesCovered, PagesDue, RowsDue
<1>2. ASSUME NEW t \in Swaps, Submit(t) \/ SwapStep(t) PROVE Calm' /\ FeesCovered'
  BY <1>0, <1>2, PageStepSettles, PageSettles
<1>3. ASSUME NEW t \in Swaps, DeliverStore(t) PROVE Calm' /\ FeesCovered'
  <2>1. PICK s \in inflight[t] :
          /\ inflight' = [inflight EXCEPT ![t] = @ \ {s}]
          /\ record' = [record EXCEPT ![t] = s] \/ record' = record
    BY <1>3 DEF DeliverStore
  <2>2. UNCHANGED <<payouts, fees, swap, rec>>
    BY <1>3 DEF DeliverStore
  <2>3. \A u \in Swaps : inflight'[u] \subseteq inflight[u]
    BY <2>1 DEF IInv, TypeOK
  <2>4. \A u \in Swaps : record'[u] = record[u] \/ (u = t /\ record'[u] = s)
    BY <2>1 DEF IInv, TypeOK
  <2>5. Calm'
    BY <1>0, <2>1, <2>2, <2>3, <2>4 DEF Calm
  <2> QED BY <1>0, <2>2, <2>5 DEF FeesCovered, PagesDue, RowsDue
<1>4. ASSUME NEW t \in Swaps, Elapse(t) PROVE Calm' /\ FeesCovered'
  BY <1>0, <1>4 DEF Elapse, canisters, Calm, FeesCovered, PagesDue, RowsDue
<1>5. ASSUME NEW t \in Swaps, NEW r \in Recoverers,
             getTransactions(t, r) \/ completeTransaction(t, r) \/ RecoveryStep(t, r)
      PROVE  Calm' /\ FeesCovered'
  BY <1>0, <1>5, RowStepSettles, RowSettles
<1> QED BY <1>1, <1>2, <1>3, <1>4, <1>5 DEF Next

\* Without a fault no more fees are taken than swaps were paid out, for any
\* number of swaps that share the pool and of pages that complete them.
THEOREM FeesArePaidFor ==
  ASSUME FinitePages
  PROVE  Spec => []FeesWithinPayouts
<1>1. Init => CInv
  BY InitCInv
<1>2. IInv /\ CInv /\ [Next]_vars => CInv'
  BY NextCInv
<1>3. IInv /\ CInv => FeesWithinPayouts
  <2> SUFFICES ASSUME IInv, CInv, faults = 0 PROVE fees <= payouts
    BY DEF FeesWithinPayouts
  <2>1. Cardinality(PagesDue) \in Nat /\ Cardinality(RowsDue) \in Nat
    BY DueFinite, FS_CardinalityType
  <2> QED BY <2>1 DEF CInv, FeesCovered, IInv, TypeOK
<1> QED BY <1>1, <1>2, <1>3, Invariance, PTL DEF Spec
=============================================================================
