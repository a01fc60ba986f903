------------------------------ MODULE SwapSaga ------------------------------
(***************************************************************************)
(* A token swap through ICPSwap, as apps/nfid-frontend/src/integration/    *)
(* swap runs it from a browser page: a chain of canister calls, a record   *)
(* of the stage reached kept in a storage canister, and the handlers that  *)
(* finish or cancel a swap from that record after a failure.               *)
(*                                                                         *)
(* Amounts are units: every swap moves one unit of the source token.  The  *)
(* unit sits in the user's subaccount of the pool (sub), in the user's     *)
(* unused balance of the source token (src) or of the target token (tgt),  *)
(* or in the wallet.  All swaps are of one user and one pair, so they      *)
(* share the three balances.                                               *)
(*                                                                         *)
(* An await is one step: the canister runs the call and the page takes the *)
(* reply.  Faults name what may go wrong in it.                            *)
(***************************************************************************)
EXTENDS Naturals, FiniteSets

CONSTANTS
  Swaps,       \* transaction uids
  Recoverers,  \* pages that show the activity list
  Faults,      \* the kinds of fault the environment produces, see FaultKinds
  MaxFaults,   \* bound on their number
  NoRecord     \* the storage canister holds nothing for a uid

FaultKinds ==
  {"reject",   \* a call rejects or answers an error, and changes nothing
   "lost",     \* a call takes effect, and the page sees it reject
   "crash",    \* the page goes away, its pending call executes or not
   "drop",     \* a store nobody awaits never reaches the canister
   "reorder"}  \* stores sent one after the other execute in any order

Stages == {"TransferSwap", "Deposit", "Swap", "Withdraw", "TransferNFID", "Completed"}
Snapshots == [stage : Stages, failed : BOOLEAN]

ASSUME ConstantsAssumption ==
  /\ Faults \subseteq FaultKinds
  /\ MaxFaults \in Nat
  /\ NoRecord \notin Snapshots

VARIABLES
  icrc2,     \* whether the source ledger supports ICRC-2
  sub,       \* units in the user's subaccount of the pool canister
  src,       \* units of the source token in the user's unused balance
  tgt,       \* units of the target token in the user's unused balance
  did,       \* uid -> what the canisters executed for that swap (history)
  payouts,   \* payouts of the pool so far (history)
  fees,      \* widget fees taken so far (history)
  record,    \* uid -> the transaction the storage canister holds
  inflight,  \* uid -> stores sent and not awaited
  swap,      \* uid -> Shroff.swap() of the page that submitted the swap
  rec,       \* uid -> page -> completeTransaction() of an activity row
  elapsed,   \* uid -> APPROXIMATE_SWAP_DURATION has passed since its start
  faults     \* faults so far

canisters == <<sub, src, tgt, did, payouts, fees, record>>
vars == <<icrc2, sub, src, tgt, did, payouts, fees, record, inflight, swap, rec, elapsed, faults>>

Deeds == {"transferId", "deposit", "swap", "payout", "refund", "nfid"}

SwapSteps == {"idle", "start", "icrc2approve", "depositFromAndSwap",
              "transferToSwap", "deposit", "swapOnExchange", "withdraw",
              "transferToNFID", "store", "storeError", "done", "failed", "gone"}
SwapRuns == [pc : SwapSteps, stage : Stages, failed : BOOLEAN]

Handlers == {"TransferSwap", "Deposit", "DepositTimeout", "Swap", "SwapTimeout",
             "Withdraw", "TransferNFID", "TransferNFIDTimeout"}
RecoverySteps == {"none", "ready", "balance", "deposit", "withdrawSource",
                  "withdrawTarget", "transferToNFID", "store", "storeError"}
Recoveries == [pc : RecoverySteps, stage : Stages, failed : BOOLEAN, handler : Handlers]

TypeOK ==
  /\ icrc2 \in [Swaps -> BOOLEAN]
  /\ sub \in Nat /\ src \in Nat /\ tgt \in Nat
  /\ did \in [Swaps -> SUBSET Deeds]
  /\ payouts \in Nat /\ fees \in Nat
  /\ record \in [Swaps -> Snapshots \cup {NoRecord}]
  /\ inflight \in [Swaps -> SUBSET Snapshots]
  /\ swap \in [Swaps -> SwapRuns]
  /\ rec \in [Swaps -> [Recoverers -> Recoveries]]
  /\ elapsed \in [Swaps -> BOOLEAN]
  /\ faults \in Nat

Init ==
  /\ icrc2 \in [Swaps -> BOOLEAN]
  /\ sub = 0 /\ src = 0 /\ tgt = 0
  /\ did = [t \in Swaps |-> {}]
  /\ payouts = 0 /\ fees = 0
  /\ record = [t \in Swaps |-> NoRecord]
  /\ inflight = [t \in Swaps |-> {}]
  /\ swap = [t \in Swaps |-> [pc |-> "idle", stage |-> "TransferSwap", failed |-> FALSE]]
  /\ rec = [t \in Swaps |-> [r \in Recoverers |->
              [pc |-> "none", stage |-> "TransferSwap", failed |-> FALSE,
               handler |-> "TransferSwap"]]]
  /\ elapsed = [t \in Swaps |-> FALSE]
  /\ faults = 0

-----------------------------------------------------------------------------
(* Faults and awaits *)

Fault(kind) ==
  /\ kind \in Faults /\ faults < MaxFaults
  /\ faults' = faults + 1

\* Awaiting a call that has `effect` when the canister can serve it.
Await(ready, effect, onOk, onRefused, onReject, onCrash) ==
  \/ ready /\ effect /\ onOk /\ UNCHANGED faults
  \/ ~ready /\ UNCHANGED canisters /\ onRefused /\ UNCHANGED faults
  \/ Fault("reject") /\ UNCHANGED canisters /\ onReject
  \/ Fault("lost") /\ ready /\ effect /\ onReject
  \/ Fault("crash") /\ (UNCHANGED canisters \/ (ready /\ effect)) /\ onCrash

\* What the canisters do for swap t.  The pool and the ledgers are external;
\* their effect is what the page relies on after an `ok`.
Executed(t, deeds) == did' = [did EXCEPT ![t] = @ \cup deeds]

Approval(t) == Executed(t, {"transferId"}) /\ UNCHANGED <<sub, src, tgt, payouts, fees, record>>

Transfer(t) ==
  /\ sub' = sub + 1
  /\ Executed(t, {"transferId"})
  /\ UNCHANGED <<src, tgt, payouts, fees, record>>

PoolDeposit(t) ==
  /\ sub' = sub - 1 /\ src' = src + 1
  /\ Executed(t, {"deposit"})
  /\ UNCHANGED <<tgt, payouts, fees, record>>

PoolSwap(t) ==
  /\ src' = src - 1 /\ tgt' = tgt + 1
  /\ Executed(t, {"swap"})
  /\ UNCHANGED <<sub, payouts, fees, record>>

PoolWithdrawSource(t) ==
  /\ src' = src - 1
  /\ Executed(t, {"refund"})
  /\ UNCHANGED <<sub, tgt, payouts, fees, record>>

PoolWithdrawTarget(t) ==
  /\ tgt' = tgt - 1
  /\ Executed(t, {"payout"})
  /\ payouts' = payouts + 1
  /\ UNCHANGED <<sub, src, fees, record>>

\* depositFromAndSwap takes the approved unit, swaps it and pays it out.
OneStepSwap(t) ==
  /\ Executed(t, {"swap", "payout"})
  /\ payouts' = payouts + 1
  /\ UNCHANGED <<sub, src, tgt, fees, record>>

\* Its error may come after the deposit half: the unit stays in the pool.
OneStepSwapStopsHalfway(t) ==
  /\ src' = src + 1
  /\ UNCHANGED <<sub, tgt, did, payouts, fees, record>>

FeeTransfer(t) ==
  /\ fees' = fees + 1
  /\ Executed(t, {"nfid"})
  /\ UNCHANGED <<sub, src, tgt, payouts, record>>

\* A mutant: the store writes the page's own object, not its candid form.
Snapshot_NotConverted(run) == run

Snapshot(run) == [stage |-> run.stage, failed |-> run.failed]

Stored(t, run) ==
  /\ record' = [record EXCEPT ![t] = Snapshot(run)]
  /\ UNCHANGED <<sub, src, tgt, did, payouts, fees>>

\* Without "reorder", a store is sent once the earlier ones have executed.
InOrder(t) == "reorder" \in Faults \/ inflight[t] = {}

\* this.restoreTransaction() that nobody awaits
SendStore(t, snapshot) ==
  /\ InOrder(t)
  /\ inflight' = [inflight EXCEPT ![t] = @ \cup {snapshot}]

-----------------------------------------------------------------------------
(* ShroffIcpSwapImpl.swap: the page that submitted the swap *)

At(t, pc) == swap[t].pc = pc /\ UNCHANGED <<icrc2, rec, elapsed>>

\* Continue at pc, in the stage that the setters of the transaction reached.
Goto(t, pc, stage) == swap' = [swap EXCEPT ![t].pc = pc, ![t].stage = stage]

Reached(t, pc, stage) == Goto(t, pc, stage) /\ UNCHANGED inflight

\* ... and send the record of it without waiting.
ReachedAndSent(t, pc, stage) ==
  /\ Goto(t, pc, stage)
  /\ SendStore(t, [stage |-> stage, failed |-> swap[t].failed])

\* The catch of swap(): setError, then an awaited store.
Throw(t) ==
  /\ swap' = [swap EXCEPT ![t].pc = "storeError", ![t].failed = TRUE]
  /\ UNCHANGED inflight

PageGone(t) ==
  /\ swap' = [swap EXCEPT ![t].pc = "gone"]
  /\ UNCHANGED inflight

AwaitInSwap(t, ready, effect, onOk) ==
  Await(ready, effect, onOk, Throw(t), Throw(t), PageGone(t))

Submit(t) ==
  /\ At(t, "idle")
  /\ Reached(t, "start", "TransferSwap")
  /\ UNCHANGED <<canisters, faults>>

\* replaceActorIdentity and icrc1_supported_standards
icrc2supported(t) ==
  /\ At(t, "start")
  /\ AwaitInSwap(t, TRUE, UNCHANGED canisters,
       Reached(t, IF icrc2[t] THEN "icrc2approve" ELSE "transferToSwap", "TransferSwap"))

icrc2approve(t) ==
  /\ At(t, "icrc2approve")
  /\ AwaitInSwap(t, TRUE, Approval(t), ReachedAndSent(t, "depositFromAndSwap", "Deposit"))

\* The pool swaps and pays out in one call: setSwap is the last setter.
depositFromAndSwap(t) ==
  /\ At(t, "depositFromAndSwap")
  /\ \/ AwaitInSwap(t, TRUE, OneStepSwap(t), Reached(t, "transferToNFID", "Withdraw"))
     \/ Fault("reject") /\ OneStepSwapStopsHalfway(t) /\ Throw(t)

\* A mutant: the stage moves before the ledger has answered.
transferToSwap_StageFirst(t) ==
  /\ At(t, "transferToSwap")
  /\ Await(TRUE, Transfer(t), ReachedAndSent(t, "deposit", "Deposit"),
           Throw(t),
           /\ swap' = [swap EXCEPT ![t] = [pc |-> "storeError", stage |-> "Deposit",
                                           failed |-> TRUE]]
           /\ UNCHANGED inflight,
           PageGone(t))

transferToSwap(t) ==
  /\ At(t, "transferToSwap")
  /\ AwaitInSwap(t, TRUE, Transfer(t), ReachedAndSent(t, "deposit", "Deposit"))

deposit(t) ==
  /\ At(t, "deposit")
  /\ AwaitInSwap(t, sub > 0, PoolDeposit(t), ReachedAndSent(t, "swapOnExchange", "Swap"))

swapOnExchange(t) ==
  /\ At(t, "swapOnExchange")
  /\ AwaitInSwap(t, src > 0, PoolSwap(t), ReachedAndSent(t, "withdraw", "Withdraw"))

withdraw(t) ==
  /\ At(t, "withdraw")
  /\ AwaitInSwap(t, tgt > 0, PoolWithdrawTarget(t),
                 ReachedAndSent(t, "transferToNFID", "TransferNFID"))

transferToNFID(t) ==
  /\ At(t, "transferToNFID")
  /\ AwaitInSwap(t, TRUE, FeeTransfer(t), Reached(t, "store", "Completed"))

\* await this.restoreTransaction(), at the end and in the catch
restoreTransaction(t) ==
  /\ InOrder(t)
  /\ \/ /\ At(t, "store")
        /\ AwaitInSwap(t, TRUE, Stored(t, swap[t]), Reached(t, "done", swap[t].stage))
     \/ /\ At(t, "storeError")
        /\ Await(TRUE, Stored(t, swap[t]), Reached(t, "failed", swap[t].stage),
                 Reached(t, "failed", swap[t].stage),
                 Reached(t, "failed", swap[t].stage), PageGone(t))

SwapStep(t) ==
  \/ icrc2supported(t) \/ icrc2approve(t) \/ depositFromAndSwap(t)
  \/ transferToSwap(t) \/ deposit(t) \/ swapOnExchange(t) \/ withdraw(t)
  \/ transferToNFID(t) \/ restoreTransaction(t)

-----------------------------------------------------------------------------
(* The storage canister executes a store nobody awaits *)

DeliverStore(t) ==
  /\ \E snapshot \in inflight[t] :
       /\ inflight' = [inflight EXCEPT ![t] = @ \ {snapshot}]
       /\ \/ record' = [record EXCEPT ![t] = snapshot] /\ UNCHANGED faults
          \/ Fault("drop") /\ UNCHANGED record
  /\ UNCHANGED <<icrc2, sub, src, tgt, did, payouts, fees, swap, rec, elapsed>>

\* Two minutes have passed since the start of a swap.
Elapse(t) ==
  /\ swap[t].pc # "idle" /\ ~elapsed[t]
  /\ elapsed' = [elapsed EXCEPT ![t] = TRUE]
  /\ UNCHANGED <<icrc2, canisters, inflight, swap, rec, faults>>

-----------------------------------------------------------------------------
(* completeTransaction: the button of a row of the activity list *)

Here(t, r, pc) == rec[t][r].pc = pc /\ UNCHANGED <<icrc2, swap, elapsed>>

Becomes(t, r, run) == rec' = [rec EXCEPT ![t][r] = run] /\ UNCHANGED inflight

Continue(t, r, pc, stage) == Becomes(t, r, [rec[t][r] EXCEPT !.pc = pc, !.stage = stage])

RowGone(t, r) == Becomes(t, r, [rec[t][r] EXCEPT !.pc = "none"])

\* getTransactions: the row has a button once it failed or took too long.
getTransactions(t, r) ==
  /\ Here(t, r, "none") \/ Here(t, r, "ready")
  /\ record[t] # NoRecord
  /\ record[t].stage # "Completed"
  /\ record[t].failed \/ elapsed[t]
  /\ Becomes(t, r, [pc |-> "ready", stage |-> record[t].stage,
                    failed |-> record[t].failed, handler |-> "TransferSwap"])
  /\ UNCHANGED <<canisters, faults>>

\* A mutant: an interrupted fee transfer is repeated, failed or not.
getHandler_ignoresErrors(run) ==
  CASE run.stage = "TransferSwap" -> "TransferSwap"
    [] run.stage = "Deposit" -> IF run.failed THEN "Deposit" ELSE "DepositTimeout"
    [] run.stage = "Swap" -> IF run.failed THEN "Swap" ELSE "SwapTimeout"
    [] run.stage = "Withdraw" -> "Withdraw"
    [] OTHER -> "TransferNFID"

\* ErrorHandlerFactory.getHandler and the branch its swap() takes
getHandler(run) ==
  CASE run.stage = "TransferSwap" -> "TransferSwap"
    [] run.stage = "Deposit" -> IF run.failed THEN "Deposit" ELSE "DepositTimeout"
    [] run.stage = "Swap" -> IF run.failed THEN "Swap" ELSE "SwapTimeout"
    [] run.stage = "Withdraw" -> "Withdraw"
    [] OTHER -> IF run.failed THEN "TransferNFID" ELSE "TransferNFIDTimeout"

\* The button works on the row's own transaction object, however old it is.
\* A swap whose transfer failed is completed without asking anyone.
completeTransaction(t, r) ==
  /\ Here(t, r, "ready")
  /\ rec[t][r].stage # "Completed"
  /\ LET handler == getHandler(rec[t][r])
         transferSwap == handler = "TransferSwap"
     IN  Becomes(t, r,
           [rec[t][r] EXCEPT !.handler = handler,
                             !.pc = IF transferSwap THEN "store" ELSE "balance",
                             !.stage = IF transferSwap THEN "Completed" ELSE @])
  /\ UNCHANGED <<canisters, faults>>

\* The exception reaches the catch that records it.  The catch of the withdraw
\* handler throws itself (e.message.contains), and a promise that is returned
\* without an await leaves its try block.
Caught(handler) == handler \in {"Deposit", "Swap", "TransferNFID"}

Catch(t, r) ==
  Becomes(t, r, [rec[t][r] EXCEPT !.pc = "storeError", !.failed = TRUE])

Fails(t, r) ==
  IF Caught(rec[t][r].handler) THEN Catch(t, r)
                               ELSE Continue(t, r, "ready", rec[t][r].stage)

AwaitInRecovery(t, r, ready, effect, onOk) ==
  Await(ready, effect, onOk, Fails(t, r), Fails(t, r), RowGone(t, r))

FirstStep(handler) ==
  CASE handler = "Deposit" -> "deposit"
    [] handler \in {"DepositTimeout", "Swap"} -> "withdrawSource"
    [] handler \in {"SwapTimeout", "Withdraw"} -> "withdrawTarget"
    [] OTHER -> "transferToNFID"

\* replaceActorIdentity and getUserUnusedBalance; with no error recorded, the
\* last handler takes the fee as paid and stores nothing.
getUserUnusedBalance(t, r) ==
  /\ Here(t, r, "balance")
  /\ LET handler == rec[t][r].handler
     IN  Await(TRUE, UNCHANGED canisters,
           IF handler = "TransferNFIDTimeout"
             THEN Continue(t, r, "ready", "Completed")
             ELSE Continue(t, r, FirstStep(handler), rec[t][r].stage),
           FALSE,
           IF handler = "Withdraw" THEN Fails(t, r) ELSE Catch(t, r),
           RowGone(t, r))

\* A mutant: a deposit that fails ends the handler.
retryDeposit_Strict(t, r) ==
  /\ Here(t, r, "deposit")
  /\ AwaitInRecovery(t, r, sub > 0, PoolDeposit(t),
       Continue(t, r, "withdrawSource", "Swap"))

\* Whether the deposit succeeds or not, the store and the withdrawal follow.
DepositTried(t, r, stage) ==
  /\ rec' = [rec EXCEPT ![t][r].pc = "withdrawSource", ![t][r].stage = stage]
  /\ SendStore(t, [stage |-> stage, failed |-> rec[t][r].failed])

retryDeposit(t, r) ==
  /\ Here(t, r, "deposit")
  /\ LET tried == DepositTried(t, r, rec[t][r].stage)
     IN  Await(sub > 0, PoolDeposit(t), DepositTried(t, r, "Swap"), tried, tried, RowGone(t, r))

\* The swap handler turns to the target token when the source is gone, and
\* ignores every other exception.
withdrawSource(t, r) ==
  /\ Here(t, r, "withdrawSource")
  /\ LET done == Continue(t, r, "store", "Completed")
         swapHandler == rec[t][r].handler = "Swap"
     IN  Await(src > 0, PoolWithdrawSource(t), done,
               IF swapHandler THEN Continue(t, r, "withdrawTarget", rec[t][r].stage)
                              ELSE Fails(t, r),
               IF swapHandler THEN done ELSE Fails(t, r),
               RowGone(t, r))

withdrawTarget(t, r) ==
  /\ Here(t, r, "withdrawTarget")
  /\ AwaitInRecovery(t, r, tgt > 0, PoolWithdrawTarget(t),
       IF rec[t][r].handler = "Withdraw"
         THEN Continue(t, r, "transferToNFID", "TransferNFID")
         ELSE Continue(t, r, "store", "Completed"))

retryTransferToNFID(t, r) ==
  /\ Here(t, r, "transferToNFID")
  /\ AwaitInRecovery(t, r, TRUE, FeeTransfer(t), Continue(t, r, "store", "Completed"))

storeRecovery(t, r) ==
  /\ InOrder(t)
  /\ \/ /\ Here(t, r, "store")
        /\ AwaitInRecovery(t, r, TRUE, Stored(t, rec[t][r]),
                           Continue(t, r, "ready", rec[t][r].stage))
     \/ /\ Here(t, r, "storeError")
        /\ LET thrown == Continue(t, r, "ready", rec[t][r].stage)
           IN  Await(TRUE, Stored(t, rec[t][r]), thrown, thrown, thrown, RowGone(t, r))

RecoveryStep(t, r) ==
  \/ getUserUnusedBalance(t, r) \/ retryDeposit(t, r) \/ withdrawSource(t, r)
  \/ withdrawTarget(t, r) \/ retryTransferToNFID(t, r) \/ storeRecovery(t, r)

-----------------------------------------------------------------------------
Next ==
  \E t \in Swaps :
    \/ Submit(t) \/ SwapStep(t) \/ DeliverStore(t) \/ Elapse(t)
    \/ \E r \in Recoverers :
         getTransactions(t, r) \/ completeTransaction(t, r) \/ RecoveryStep(t, r)

Spec == Init /\ [][Next]_vars

\* Calls are answered, the event loop runs, time passes, and the user keeps
\* reloading the activity list and pressing the button it shows.
Fairness ==
  \A t \in Swaps :
    /\ SF_vars(SwapStep(t)) /\ WF_vars(DeliverStore(t)) /\ WF_vars(Elapse(t))
    /\ \A r \in Recoverers :
         /\ SF_vars(getTransactions(t, r))
         /\ WF_vars(completeTransaction(t, r))
         /\ SF_vars(RecoveryStep(t, r))

FairSpec == Spec /\ Fairness

-----------------------------------------------------------------------------
(* Properties *)

\* What a stage says the canisters have executed for the swap.
Claims(stage) ==
  CASE stage = "Deposit" -> {"transferId"}
    [] stage = "Swap" -> {"deposit"}
    [] stage = "Withdraw" -> {"swap"}
    [] stage = "TransferNFID" -> {"payout"}
    [] OTHER -> {}

\* No transaction object, store on its way or stored record is ahead of the
\* ledgers: whatever is lost, reordered or crashed, and whichever page writes,
\* a stage is written only after its calls have executed.  A recovery that
\* trusted a record ahead of the ledgers would skip the call that moves the
\* money.
RecordNeverAhead ==
  \A t \in Swaps :
    /\ Claims(swap[t].stage) \subseteq did[t]
    /\ \A r \in Recoverers : Claims(rec[t][r].stage) \subseteq did[t]
    /\ \A snapshot \in inflight[t] : Claims(snapshot.stage) \subseteq did[t]
    /\ record[t] # NoRecord => Claims(record[t].stage) \subseteq did[t]

\* The widget fee is taken only from swaps whose output was paid out, never
\* from a swap that was cancelled or is still in the pool.
FeeOnlyAfterPayout ==
  \A t \in Swaps : "nfid" \in did[t] => "payout" \in did[t]

\* Slowness alone never charges too much: without a fault, no interleaving of
\* the swaps and of the buttons pressed while they still run takes more fees
\* than there were payouts.  (It may take the fee of one swap twice and that of
\* another never, for the swaps share the balances of the pool.)
FeesWithinPayouts == faults = 0 => fees <= payouts

\* Money in the pool leaves it again: the swap or one of its handlers pays it
\* out or back while the user keeps pressing the button they are offered.
FundsComeHome == sub + src + tgt > 0 ~> sub + src + tgt = 0
=============================================================================
