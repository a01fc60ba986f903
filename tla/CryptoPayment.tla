---------------------------- MODULE CryptoPayment ----------------------------
(***************************************************************************)
(* Paying a merchant: the Pay modal (features/transfer-modal/components/   *)
(* pay.tsx) and executePayment of integration/opencryptopay, down to the   *)
(* sends of bitcoin.service.ts.  An attempt is one call of executePayment. *)
(* The modal may be closed and reopened while an attempt goes on, and a    *)
(* new modal is a new component with state of its own.  A quote is known   *)
(* by its number; the number stands for the terms that come with it.       *)
(***************************************************************************)
EXTENDS Naturals, FiniteSets

CONSTANTS
  Methods,      \* the assets a payment link offers: "evm", "btc", "icp"
  MaxPages,     \* bound on the times the modal is opened
  MaxAttempts,  \* bound on the calls of executePayment
  MaxQuotes,    \* bound on the quotes the merchant makes
  MaxFaults     \* bound on the requests that fail

ASSUME PaymentAssumption ==
  /\ Methods \subseteq {"evm", "btc", "icp"}
  /\ MaxPages \in Nat /\ MaxAttempts \in Nat
  /\ MaxQuotes \in Nat \ {0} /\ MaxFaults \in Nat

Pages == 1..MaxPages
Attempts == 1..MaxAttempts
Quotes == 1..MaxQuotes

VARIABLES
  method,     \* the asset paid with
  dfx,        \* the link is one of api.dfx.swiss, whose quotes are refreshed
  mounted,    \* the modal on screen, 0 for none
  opened,     \* the modals opened so far
  details,    \* page -> the quote named by the payment details it fetched
  payData,    \* page -> the quote it shows, 0 while there is none
  submitting, \* page -> isSubmittingRef.current
  status,     \* page -> SendStatus
  started,    \* the attempts started so far
  of,         \* attempt -> its page
  step,       \* attempt -> what it awaits
  quote,      \* attempt -> freshQuote
  named,      \* attempt -> the quote named by the details it fetched again
  outcome,    \* attempt -> how executePayment settled
  actual,     \* the merchant: its actual quote
  expired,    \* the merchant: quotes up to this one have expired
  activated,  \* the merchant: the quotes with an activation
  wire,       \* the attempts whose submission is on its way
  delivered,  \* the attempts whose submission the merchant received
  landed,     \* the attempts whose transfer is made
  seen,       \* the attempts whose transfer mempool.space lists
  confirmed,  \* the attempts whose transfer has six confirmations
  faults      \* the requests that failed so far

modal == <<mounted, opened, details, payData, submitting, status>>
about == <<started, of, quote, named>>
attempts == <<about, step, outcome>>
merchant == <<actual, expired, activated>>
chains == <<landed, seen, confirmed>>
network == <<wire, delivered, chains, faults>>
vars == <<method, dfx, modal, attempts, merchant, network>>

Steps == {"none", "details", "callback", "balance", "fee", "send", "mempool",
          "submit", "over"}
Reported == {"ok", "timeout"}
Failures == {"expired", "balance", "sign", "submitError", "network"}

ModalTypes ==
  /\ method \in Methods /\ dfx \in BOOLEAN
  /\ mounted \in 0..MaxPages /\ opened \in 0..MaxPages
  /\ details \in [Pages -> 0..MaxQuotes]
  /\ payData \in [Pages -> 0..MaxQuotes]
  /\ submitting \in [Pages -> BOOLEAN]
  /\ status \in [Pages -> {"PENDING", "COMPLETED", "FAILED"}]

AttemptTypes ==
  /\ started \in 0..MaxAttempts
  /\ of \in [Attempts -> 0..MaxPages]
  /\ step \in [Attempts -> Steps]
  /\ quote \in [Attempts -> 0..MaxQuotes]
  /\ named \in [Attempts -> 0..MaxQuotes]
  /\ outcome \in [Attempts -> {"none"} \cup Reported \cup Failures]

MerchantTypes ==
  actual \in Quotes /\ expired \in 0..MaxQuotes /\ activated \subseteq Quotes

WireTypes == wire \subseteq Attempts /\ delivered \subseteq Attempts

ChainTypes ==
  landed \subseteq Attempts /\ seen \subseteq landed /\ confirmed \subseteq seen

FaultTypes == faults \in 0..MaxFaults

TypeOK ==
  /\ ModalTypes /\ AttemptTypes /\ MerchantTypes
  /\ WireTypes /\ ChainTypes /\ FaultTypes

\* parseDfxUri knows no uri of the Internet Computer.
Init ==
  /\ method \in Methods
  /\ dfx \in BOOLEAN /\ (dfx => method # "icp")
  /\ mounted = 0 /\ opened = 0
  /\ details = [p \in Pages |-> 0] /\ payData = [p \in Pages |-> 0]
  /\ submitting = [p \in Pages |-> FALSE]
  /\ status = [p \in Pages |-> "PENDING"]
  /\ started = 0
  /\ of = [a \in Attempts |-> 0]
  /\ step = [a \in Attempts |-> "none"]
  /\ quote = [a \in Attempts |-> 0] /\ named = [a \in Attempts |-> 0]
  /\ outcome = [a \in Attempts |-> "none"]
  /\ actual = 1 /\ expired = 0 /\ activated = {}
  /\ wire = {} /\ delivered = {}
  /\ landed = {} /\ seen = {} /\ confirmed = {}
  /\ faults = 0

-----------------------------------------------------------------------------
(* The modal *)

Open ==
  /\ mounted = 0 /\ opened < MaxPages
  /\ opened' = opened + 1 /\ mounted' = opened + 1
  /\ UNCHANGED <<method, dfx, details, payData, submitting, status, attempts,
                 merchant, network>>

\* hideModal, from the form or from the success screen.  An attempt goes on.
Close ==
  /\ mounted # 0
  /\ mounted' = 0
  /\ UNCHANGED <<method, dfx, opened, details, payData, submitting, status,
                 attempts, merchant, network>>

\* getPayDetails resolves.
PayDetails ==
  /\ mounted # 0 /\ details[mounted] = 0
  /\ details' = [details EXCEPT ![mounted] = actual]
  /\ UNCHANGED <<method, dfx, mounted, opened, payData, submitting, status,
                 attempts, merchant, network>>

\* The callback of a dfx link makes an activation on the quote it is given.
\* The plain endpoint mints a fresh quote, and its activation lands there.
Activate_PlainEndpoint(q) == IF dfx THEN activated \cup {actual} ELSE activated

Activate(q) == IF dfx THEN activated \cup {q} ELSE activated

\* getQuote resolves, with the quote the details of this page named.
PayQuote ==
  /\ mounted # 0 /\ details[mounted] # 0 /\ payData[mounted] = 0
  /\ payData' = [payData EXCEPT ![mounted] = details[mounted]]
  /\ activated' = Activate(details[mounted])
  /\ UNCHANGED <<method, dfx, mounted, opened, details, submitting, status,
                 attempts, actual, expired, network>>

\* An attempt ends; what the modal does is left to the caller.
Ends(a, how) ==
  /\ step' = [step EXCEPT ![a] = "over"]
  /\ outcome' = [outcome EXCEPT ![a] = how]

\* The catch branch releases the page whatever the error is.
Release_Always(p, how) == submitting' = [submitting EXCEPT ![p] = FALSE]

\* After a timeout the page stays blocked.
Release(p, how) ==
  submitting' = IF how = "timeout" THEN submitting
                ELSE [submitting EXCEPT ![p] = FALSE]

\* then(): the tokens are updated, so the quote on screen is fetched again.
Succeed(a) ==
  /\ Ends(a, "ok")
  /\ Release(of[a], "ok")
  /\ status' = [status EXCEPT ![of[a]] = "COMPLETED"]
  /\ payData' = [payData EXCEPT ![of[a]] = 0]
  /\ UNCHANGED <<mounted, opened, details>>

\* The catch branch stores the error itself as the status.
Fail_RawStatus(a, how) ==
  /\ Ends(a, how)
  /\ Release(of[a], how)
  /\ status' = [status EXCEPT ![of[a]] = how]
  /\ UNCHANGED <<mounted, opened, details, payData>>

\* catch(): a timeout is shown as a success, any other error as a failure.
Fail(a, how) ==
  /\ Ends(a, how)
  /\ Release(of[a], how)
  /\ status' = [status EXCEPT ![of[a]] =
                  IF how = "timeout" THEN "COMPLETED" ELSE "FAILED"]
  /\ UNCHANGED <<mounted, opened, details, payData>>

Fault == faults < MaxFaults /\ faults' = faults + 1
NoFault == UNCHANGED faults

\* The attempt goes on.
Goes(a, to) == step' = [step EXCEPT ![a] = to] /\ UNCHANGED outcome

\* isQuoteExpired throws.  The address is one the merchant made, and valid.
Judge(a, p, q) ==
  LET late == q <= expired
  IN /\ step' = [step EXCEPT ![a] = IF late THEN "over" ELSE "balance"]
     /\ outcome' = [outcome EXCEPT ![a] = IF late THEN "expired" ELSE "none"]
     /\ submitting' = [submitting EXCEPT ![p] = ~late]
     /\ status' = [status EXCEPT ![p] = IF late THEN "FAILED" ELSE @]

\* submit(), up to the first await of executePayment.  A quote that is not
\* refreshed is judged at once.
Submit ==
  /\ mounted # 0 /\ payData[mounted] # 0
  /\ ~submitting[mounted]
  /\ started < MaxAttempts
  /\ LET a == started + 1
     IN /\ started' = a
        /\ of' = [of EXCEPT ![a] = mounted]
        /\ quote' = [quote EXCEPT ![a] = payData[mounted]]
        /\ \/ ~dfx /\ Judge(a, mounted, payData[mounted])
           \/ /\ dfx
              /\ step' = [step EXCEPT ![a] = "details"]
              /\ submitting' = [submitting EXCEPT ![mounted] = TRUE]
              /\ UNCHANGED <<outcome, status>>
  /\ UNCHANGED <<method, dfx, mounted, opened, details, payData, named,
                 merchant, network>>

-----------------------------------------------------------------------------
(* executePayment *)

\* refreshDfxQuote, getPaymentDetails: a failure falls back to the old quote.
RefreshDetails(a) ==
  /\ step[a] = "details"
  /\ \/ /\ Goes(a, "callback") /\ named' = [named EXCEPT ![a] = actual]
        /\ NoFault /\ UNCHANGED <<submitting, status>>
     \/ Judge(a, of[a], quote[a]) /\ Fault /\ UNCHANGED named
  /\ UNCHANGED <<method, dfx, mounted, opened, details, payData, started, of,
                 quote, merchant, wire, delivered, chains>>

\* refreshDfxQuote, fetchDfxQuote: the answer may be lost, with the activation
\* made or not.
RefreshQuote(a) ==
  /\ step[a] = "callback"
  /\ \/ /\ activated' = Activate(named[a]) /\ NoFault
        /\ quote' = [quote EXCEPT ![a] = named[a]]
        /\ Judge(a, of[a], named[a])
     \/ /\ activated' \in {activated, Activate(named[a])} /\ Fault
        /\ Judge(a, of[a], quote[a])
        /\ UNCHANGED quote
  /\ UNCHANGED <<method, dfx, mounted, opened, details, payData, started, of,
                 named, actual, expired, wire, delivered, chains>>

\* getBalanceForNetwork and the comparison.  An EVM balance may be an old one.
Balance(a) ==
  /\ step[a] = "balance"
  /\ \/ Goes(a, "fee") /\ NoFault /\ UNCHANGED modal
     \/ Fail(a, "balance") /\ Fault
  /\ UNCHANGED <<method, dfx, about, merchant, wire, delivered, chains>>

\* The fee, the nonce and, for bitcoin, ensureWalletConfirmations, which
\* refuses while the newest transfer listed has no six confirmations.
HasConfirmations == seen \ confirmed = {}

Fee(a) ==
  /\ step[a] = "fee"
  /\ \/ /\ method = "btc" => HasConfirmations
        /\ Goes(a, "send") /\ NoFault /\ UNCHANGED modal
     \/ /\ method = "btc" /\ ~HasConfirmations
        /\ Fail(a, "sign") /\ NoFault
     \/ Fail(a, "sign") /\ Fault
  /\ UNCHANGED <<method, dfx, about, merchant, wire, delivered, chains>>

\* The request goes to the merchant.
Posts(a) == Goes(a, "submit") /\ wire' = wire \cup {a} /\ UNCHANGED modal

\* signAndSendEvm signs and sends nothing: the merchant broadcasts.
SignEvm(a) ==
  /\ method = "evm" /\ step[a] = "send"
  /\ \/ Posts(a) /\ NoFault
     \/ Fail(a, "sign") /\ Fault /\ UNCHANGED wire
  /\ UNCHANGED <<method, dfx, about, merchant, delivered, chains>>

\* transferICRC1: refused, made, or made with the answer lost.
SendIcp(a) ==
  /\ method = "icp" /\ step[a] = "send"
  /\ \/ Posts(a) /\ landed' = landed \cup {a} /\ NoFault
     \/ /\ Fail(a, "sign") /\ Fault
        /\ landed' \in {landed, landed \cup {a}} /\ UNCHANGED wire
  /\ UNCHANGED <<method, dfx, about, merchant, delivered, seen, confirmed>>

\* btc_caller_send: as above, and a transaction that conflicts with another
\* gets an id and is not made.
SendBtc(a) ==
  /\ method = "btc" /\ step[a] = "send"
  /\ \/ /\ Goes(a, "mempool") /\ UNCHANGED modal
        /\ \/ landed' = landed \cup {a} /\ NoFault
           \/ landed' = landed /\ Fault
     \/ /\ Fail(a, "sign") /\ Fault
        /\ landed' \in {landed, landed \cup {a}}
  /\ UNCHANGED <<method, dfx, about, merchant, wire, delivered, seen, confirmed>>

\* checkTransactionAppeared: ten looks, one second apart.
IsOnMempool_Trusting(a) == TRUE

IsOnMempool(a) == a \in seen

CheckMempool(a) ==
  /\ step[a] = "mempool"
  /\ \/ IsOnMempool(a) /\ Posts(a)
     \/ ~IsOnMempool(a) /\ Fail(a, "sign") /\ UNCHANGED wire
  /\ UNCHANGED <<method, dfx, about, merchant, delivered, chains, faults>>

\* submitToOCP: the merchant answers what it received.
SubmitAnswered(a) ==
  /\ step[a] = "submit" /\ a \in delivered
  /\ \/ Succeed(a) /\ NoFault
     \/ Fail(a, "submitError") /\ Fault
  /\ UNCHANGED <<method, dfx, about, merchant, wire, delivered, chains>>

\* fetch rejects: the request or the answer is lost.
SubmitFails(a) ==
  /\ step[a] = "submit"
  /\ Fail(a, "network") /\ Fault
  /\ UNCHANGED <<method, dfx, about, merchant, wire, delivered, chains>>

\* The controller aborts after SUBMIT_TIMEOUT_MS.
SubmitTimesOut_Answered(a) ==
  /\ step[a] = "submit" /\ a \in delivered
  /\ Fail(a, "timeout")
  /\ UNCHANGED <<method, dfx, about, merchant, network>>

SubmitTimesOut(a) ==
  /\ step[a] = "submit"
  /\ Fail(a, "timeout")
  /\ UNCHANGED <<method, dfx, about, merchant, network>>

-----------------------------------------------------------------------------
(* The merchant and the chains *)

\* The merchant replaces its actual quote; old quotes expire.
Rotate ==
  /\ \/ actual < MaxQuotes /\ actual' = actual + 1 /\ UNCHANGED expired
     \/ expired < actual /\ expired' = expired + 1 /\ UNCHANGED actual
  /\ UNCHANGED <<method, dfx, modal, attempts, activated, network>>

\* A submission arrives or is lost, also after the wallet stopped waiting.
Deliver(a) ==
  /\ a \in wire
  /\ wire' = wire \ {a}
  /\ \/ delivered' = delivered \cup {a} /\ NoFault
     \/ UNCHANGED delivered /\ Fault
  /\ UNCHANGED <<method, dfx, modal, attempts, merchant, chains>>

\* The merchant broadcasts a transaction it did not refuse.
Broadcast(a) ==
  /\ method = "evm" /\ a \in delivered \ landed /\ outcome[a] # "submitError"
  /\ landed' = landed \cup {a}
  /\ UNCHANGED <<method, dfx, modal, attempts, merchant, wire, delivered, seen,
                 confirmed, faults>>

\* A bitcoin transfer is listed, and later gets its confirmations.
Appear(a) ==
  /\ method = "btc" /\ a \in landed
  /\ \/ a \notin seen /\ seen' = seen \cup {a} /\ UNCHANGED confirmed
     \/ /\ a \in seen \ confirmed
        /\ confirmed' = confirmed \cup {a} /\ UNCHANGED seen
  /\ UNCHANGED <<method, dfx, modal, attempts, merchant, wire, delivered,
                 landed, faults>>

-----------------------------------------------------------------------------
Progress(a) ==
  \/ RefreshDetails(a) \/ RefreshQuote(a) \/ Balance(a) \/ Fee(a)
  \/ SignEvm(a) \/ SendIcp(a) \/ SendBtc(a) \/ CheckMempool(a)
  \/ SubmitAnswered(a) \/ SubmitFails(a) \/ SubmitTimesOut(a)

Next ==
  \/ Open \/ Close \/ PayDetails \/ PayQuote \/ Submit
  \/ \E a \in Attempts : Progress(a) \/ Deliver(a) \/ Broadcast(a) \/ Appear(a)
  \/ Rotate

Spec == Init /\ [][Next]_vars

\* The requests of an attempt are answered, fail, or run into their timeout.
FairSpec == Spec /\ \A a \in Attempts : WF_vars(Progress(a))

-----------------------------------------------------------------------------
(* Properties *)

Of(p) == {a \in Attempts : of[a] = p}

\* isSubmittingRef: of the attempts of one page only the newest may be running,
\* and none follows one that timed out, which may still be paid ("keep
\* isSubmittingRef.current = true to block a duplicate retry", pay.tsx).
PageAttemptsInTurn ==
  \A p \in Pages : \A a, b \in Of(p) :
    a < b => step[a] = "over" /\ outcome[a] # "timeout"

\* A page that reports success for bitcoin or ICP has paid, although a timeout
\* is reported as a success and a bitcoin transaction with an id may vanish.
CompletedMeansPaid ==
  \A a \in Attempts : outcome[a] \in Reported /\ method # "evm" => a \in landed

\* The quote a transaction is submitted under has the activation of this
\* wallet, whatever the merchant rotates and whichever refresh fails
\* (opencryptopay.service.ts, comments on fetchDfxQuote and executePayment).
SubmitsUnderItsActivation ==
  dfx => \A a \in wire \cup delivered : quote[a] \in activated

\* No bitcoin is sent while the transfer of a payment that was reported as made
\* waits for its confirmations, in whichever modal that was.
BtcWaitsForConfirmations ==
  [][\A a, b \in Attempts :
       (method = "btc" /\ step[b] = "fee" /\ step'[b] = "send"
          /\ outcome[a] \in Reported)
         => a \in confirmed]_vars

\* Every payment ends in a success or a failure.
EveryPaymentEnds == \A a \in Attempts : step[a] # "none" ~> step[a] = "over"

=============================================================================
