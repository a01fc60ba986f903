------------------------- MODULE CryptoPaymentProofs -------------------------
(***************************************************************************)
(* Proofs about CryptoPayment, for any number of modals, attempts, quotes  *)
(* and failures.                                                           *)
(***************************************************************************)
EXTENDS CryptoPayment, TLAPS

\* An attempt holds its page while it runs, and for ever once it timed out.
Holds(a) == step[a] \notin {"none", "over"} \/ outcome[a] = "timeout"

\* The attempts are numbered in the order they start, each on one page.
StartedInOrder ==
  \A a \in Attempts :
    /\ a <= started => of[a] \in Pages /\ step[a] # "none" /\ quote[a] # 0
    /\ a > started => of[a] = 0 /\ step[a] = "none"
    /\ outcome[a] # "none" <=> step[a] = "over"
    /\ step[a] = "callback" => named[a] # 0

\* isSubmittingRef is set for as long as an attempt holds the page.
HoldersBlock ==
  \A a \in Attempts : a <= started /\ Holds(a) => submitting[of[a]]

\* A transfer precedes the submission, except for EVM, and is listed by then.
PaidBeforeSubmitted ==
  \A a \in Attempts : step[a] = "submit" \/ outcome[a] \in Reported =>
    /\ method # "evm" => a \in landed
    /\ method = "btc" => a \in seen

\* Every quote the wallet knows was activated when it was fetched.
QuotesAreActivated ==
  dfx => /\ \A p \in Pages : payData[p] # 0 => payData[p] \in activated
         /\ \A a \in Attempts : quote[a] # 0 => quote[a] \in activated
         /\ \A a \in wire \cup delivered : a <= started

IInv ==
  /\ TypeOK /\ StartedInOrder /\ HoldersBlock
  /\ PageAttemptsInTurn /\ PaidBeforeSubmitted /\ QuotesAreActivated

\* What a step of attempt a does to the attempts and to their pages.
Local(a) ==
  /\ UNCHANGED <<started, of>>
  /\ step[a] \notin {"none", "over"} /\ step'[a] # "none"
  /\ \A b \in Attempts \ {a} :
       /\ step'[b] = step[b] /\ outcome'[b] = outcome[b]
       /\ quote'[b] = quote[b] /\ named'[b] = named[b]
  /\ \A p \in Pages \ {of[a]} : submitting'[p] = submitting[p]
  /\ outcome'[a] # "none" <=> step'[a] = "over"
  /\ step'[a] = "callback" => named'[a] # 0
  /\ quote'[a] # 0
  /\ step'[a] # "over" \/ outcome'[a] = "timeout" => submitting'[of[a]]

\* What Submit does: attempt s starts on the page on screen.
Starts(s) ==
  /\ s \in Attempts /\ s = started + 1 /\ started' = s
  /\ mounted \in Pages /\ ~submitting[mounted]
  /\ of'[s] = mounted /\ quote'[s] = payData[mounted] /\ quote'[s] # 0
  /\ step'[s] \in {"details", "balance", "over"}
  /\ outcome'[s] \in {"none", "expired"}
  /\ outcome'[s] # "none" <=> step'[s] = "over"
  /\ step'[s] # "over" => submitting'[mounted]
  /\ \A p \in Pages \ {mounted} : submitting'[p] = submitting[p]
  /\ \A b \in Attempts \ {s} :
       /\ step'[b] = step[b] /\ outcome'[b] = outcome[b] /\ of'[b] = of[b]
       /\ quote'[b] = quote[b] /\ named'[b] = named[b]

\* A judged quote keeps the types.
LEMMA JudgeTypes ==
  ASSUME ModalTypes, AttemptTypes, NEW a, NEW p, NEW q, Judge(a, p, q)
  PROVE  /\ submitting' \in [Pages -> BOOLEAN]
         /\ status' \in [Pages -> {"PENDING", "COMPLETED", "FAILED"}]
         /\ step' \in [Attempts -> Steps]
         /\ outcome' \in [Attempts -> {"none"} \cup Reported \cup Failures]
<1> USE DEF Steps, Reported, Failures
<1>1. PICK late \in BOOLEAN :
        /\ step' = [step EXCEPT ![a] = IF late THEN "over" ELSE "balance"]
        /\ outcome' = [outcome EXCEPT ![a] = IF late THEN "expired" ELSE "none"]
        /\ submitting' = [submitting EXCEPT ![p] = ~late]
        /\ status' = [status EXCEPT ![p] = IF late THEN "FAILED" ELSE @]
  BY DEF Judge
<1>2. status' \in [Pages -> {"PENDING", "COMPLETED", "FAILED"}]
  BY <1>1 DEF ModalTypes
<1>3. submitting' \in [Pages -> BOOLEAN]
  BY <1>1 DEF ModalTypes
<1>4. /\ step' \in [Attempts -> Steps]
      /\ outcome' \in [Attempts -> {"none"} \cup Reported \cup Failures]
  BY <1>1 DEF AttemptTypes
<1> QED
  BY <1>2, <1>3, <1>4

\* The types, group by group.
LEMMA TypeStep ==
  TypeOK /\ StartedInOrder /\ [Next]_vars => TypeOK'
<1> SUFFICES ASSUME TypeOK, StartedInOrder, [Next]_vars
             PROVE  TypeOK'
  OBVIOUS
<1> USE PaymentAssumption DEF vars, modal, about, attempts, merchant, chains,
  network, Pages, Attempts, Quotes, Steps, Reported, Failures
<1>0. /\ ModalTypes /\ AttemptTypes /\ MerchantTypes
      /\ WireTypes /\ ChainTypes /\ FaultTypes
  BY DEF TypeOK
<1>1. ASSUME Open
    PROVE  TypeOK'
  <2>1. ModalTypes'
    BY <1>0, <1>1 DEF ModalTypes, AttemptTypes, MerchantTypes, Open
  <2>2. AttemptTypes'
    BY <1>0, <1>1 DEF ModalTypes, AttemptTypes, MerchantTypes, Open
  <2>3. MerchantTypes'
    BY <1>0, <1>1 DEF ModalTypes, AttemptTypes, MerchantTypes, Open
  <2>4. WireTypes'
    BY <1>0, <1>1 DEF WireTypes, Open
  <2>5. ChainTypes'
    BY <1>0, <1>1 DEF ChainTypes, Open
  <2>6. FaultTypes'
    BY <1>0, <1>1 DEF FaultTypes, Open
  <2> QED
    BY <2>1, <2>2, <2>3, <2>4, <2>5, <2>6 DEF TypeOK
<1>2. ASSUME Close
    PROVE  TypeOK'
  <2>1. ModalTypes'
    BY <1>0, <1>2 DEF ModalTypes, AttemptTypes, MerchantTypes, Close
  <2>2. AttemptTypes'
    BY <1>0, <1>2 DEF ModalTypes, AttemptTypes, MerchantTypes, Close
  <2>3. MerchantTypes'
    BY <1>0, <1>2 DEF ModalTypes, AttemptTypes, MerchantTypes, Close
  <2>4. WireTypes'
    BY <1>0, <1>2 DEF WireTypes, Close
  <2>5. ChainTypes'
    BY <1>0, <1>2 DEF ChainTypes, Close
  <2>6. FaultTypes'
    BY <1>0, <1>2 DEF FaultTypes, Close
  <2> QED
    BY <2>1, <2>2, <2>3, <2>4, <2>5, <2>6 DEF TypeOK
<1>3. ASSUME PayDetails
    PROVE  TypeOK'
  <2>1. ModalTypes'
    BY <1>0, <1>3 DEF ModalTypes, AttemptTypes, MerchantTypes, PayDetails
  <2>2. AttemptTypes'
    BY <1>0, <1>3 DEF ModalTypes, AttemptTypes, MerchantTypes, PayDetails
  <2>3. MerchantTypes'
    BY <1>0, <1>3 DEF ModalTypes, AttemptTypes, MerchantTypes, PayDetails
  <2>4. WireTypes'
    BY <1>0, <1>3 DEF WireTypes, PayDetails
  <2>5. ChainTypes'
    BY <1>0, <1>3 DEF ChainTypes, PayDetails
  <2>6. FaultTypes'
    BY <1>0, <1>3 DEF FaultTypes, PayDetails
  <2> QED
    BY <2>1, <2>2, <2>3, <2>4, <2>5, <2>6 DEF TypeOK
<1>4. ASSUME PayQuote
    PROVE  TypeOK'
  <2>1. ModalTypes'
    BY <1>0, <1>4 DEF ModalTypes, AttemptTypes, MerchantTypes, PayQuote,
      Activate
  <2>2. AttemptTypes'
    BY <1>0, <1>4 DEF ModalTypes, AttemptTypes, MerchantTypes, PayQuote,
      Activate
  <2>3. MerchantTypes'
    <3>1. details[mounted] \in Quotes
      BY <1>0, <1>4 DEF ModalTypes, AttemptTypes, MerchantTypes,
        PayQuote, Activate
    <3>2. activated' \subseteq activated \cup {details[mounted]}
      BY <1>0, <1>4, <3>1 DEF ModalTypes, AttemptTypes, MerchantTypes,
        PayQuote, Activate
    <3>3. actual' \in Quotes /\ expired' \in 0..MaxQuotes
      BY <1>0, <1>4, <3>1 DEF ModalTypes, AttemptTypes, MerchantTypes,
        PayQuote, Activate
    <3>4. activated' \subseteq Quotes
      BY <3>1, <3>2, <3>3, <1>0 DEF MerchantTypes
    <3> QED
      BY <3>1, <3>2, <3>3, <3>4 DEF MerchantTypes
  <2>4. WireTypes'
    BY <1>0, <1>4 DEF WireTypes, PayQuote, Activate
  <2>5. ChainTypes'
    BY <1>0, <1>4 DEF ChainTypes, PayQuote, Activate
  <2>6. FaultTypes'
    BY <1>0, <1>4 DEF FaultTypes, PayQuote, Activate
  <2> QED
    BY <2>1, <2>2, <2>3, <2>4, <2>5, <2>6 DEF TypeOK
<1>5. ASSUME Submit
    PROVE  TypeOK'
  <2>1. ModalTypes'
    <3>1. mounted \in Pages
      BY <1>0, <1>5 DEF ModalTypes, AttemptTypes, MerchantTypes, Submit,
        Judge
    <3>2. method' \in Methods /\ dfx' \in BOOLEAN
      BY <1>0, <1>5, <3>1 DEF ModalTypes, AttemptTypes, MerchantTypes,
        Submit, Judge
    <3>3. mounted' \in 0..MaxPages /\ opened' \in 0..MaxPages
      BY <1>0, <1>5, <3>1 DEF ModalTypes, AttemptTypes, MerchantTypes,
        Submit, Judge
    <3>4. details' \in [Pages -> 0..MaxQuotes]
      BY <1>0, <1>5, <3>1 DEF ModalTypes, AttemptTypes, MerchantTypes,
        Submit, Judge
    <3>5. payData' \in [Pages -> 0..MaxQuotes]
      BY <1>0, <1>5, <3>1 DEF ModalTypes, AttemptTypes, MerchantTypes,
        Submit, Judge
    <3>6. submitting' \in [Pages -> BOOLEAN]
      BY <1>0, <1>5, <3>1 DEF ModalTypes, AttemptTypes, MerchantTypes,
        Submit, Judge
    <3>7. status' \in [Pages -> {"PENDING", "COMPLETED", "FAILED"}]
      BY <1>0, <1>5, <3>1 DEF ModalTypes, AttemptTypes, MerchantTypes,
        Submit, Judge
    <3> QED
      BY <3>1, <3>2, <3>3, <3>4, <3>5, <3>6, <3>7 DEF ModalTypes
  <2>2. AttemptTypes'
    <3>1. started + 1 \in Attempts /\ mounted \in Pages
      BY <1>0, <1>5 DEF ModalTypes, AttemptTypes, MerchantTypes, Submit,
        Judge
    <3>2. started' \in 0..MaxAttempts
      BY <1>0, <1>5, <3>1 DEF ModalTypes, AttemptTypes, MerchantTypes,
        Submit, Judge
    <3>3. of' \in [Attempts -> 0..MaxPages]
      BY <1>0, <1>5, <3>1 DEF ModalTypes, AttemptTypes, MerchantTypes,
        Submit, Judge
    <3>4. step' \in [Attempts -> Steps]
      BY <1>0, <1>5, <3>1 DEF ModalTypes, AttemptTypes, MerchantTypes,
        Submit, Judge
    <3>5. quote' \in [Attempts -> 0..MaxQuotes]
      BY <1>0, <1>5, <3>1 DEF ModalTypes, AttemptTypes, MerchantTypes,
        Submit, Judge
    <3>6. named' \in [Attempts -> 0..MaxQuotes]
      BY <1>0, <1>5, <3>1 DEF ModalTypes, AttemptTypes, MerchantTypes,
        Submit, Judge
    <3>7. outcome' \in [Attempts -> {"none"} \cup Reported \cup Failures]
      BY <1>0, <1>5, <3>1 DEF ModalTypes, AttemptTypes, MerchantTypes,
        Submit, Judge
    <3> QED
      BY <3>1, <3>2, <3>3, <3>4, <3>5, <3>6, <3>7 DEF AttemptTypes
  <2>3. MerchantTypes'
    BY <1>0, <1>5 DEF ModalTypes, AttemptTypes, MerchantTypes, Submit,
      Judge
  <2>4. WireTypes'
    BY <1>0, <1>5 DEF WireTypes, Submit, Judge
  <2>5. ChainTypes'
    BY <1>0, <1>5 DEF ChainTypes, Submit, Judge
  <2>6. FaultTypes'
    BY <1>0, <1>5 DEF FaultTypes, Submit, Judge
  <2> QED
    BY <2>1, <2>2, <2>3, <2>4, <2>5, <2>6 DEF TypeOK
<1>6. ASSUME Rotate
    PROVE  TypeOK'
  <2>1. ModalTypes'
    BY <1>0, <1>6 DEF ModalTypes, AttemptTypes, MerchantTypes, Rotate
  <2>2. AttemptTypes'
    BY <1>0, <1>6 DEF ModalTypes, AttemptTypes, MerchantTypes, Rotate
  <2>3. MerchantTypes'
    BY <1>0, <1>6 DEF ModalTypes, AttemptTypes, MerchantTypes, Rotate
  <2>4. WireTypes'
    BY <1>0, <1>6 DEF WireTypes, Rotate
  <2>5. ChainTypes'
    BY <1>0, <1>6 DEF ChainTypes, Rotate
  <2>6. FaultTypes'
    BY <1>0, <1>6 DEF FaultTypes, Rotate
  <2> QED
    BY <2>1, <2>2, <2>3, <2>4, <2>5, <2>6 DEF TypeOK
<1>7. ASSUME NEW a \in Attempts, RefreshDetails(a)
    PROVE  TypeOK'
  <2>0. \/ /\ Goes(a, "callback") /\ named' = [named EXCEPT ![a] = actual]
           /\ UNCHANGED <<submitting, status>>
        \/ Judge(a, of[a], quote[a]) /\ UNCHANGED named
    BY <1>7 DEF RefreshDetails
  <2>a. UNCHANGED <<method, dfx, mounted, opened, details, payData, started, of,
                    quote>>
    BY <1>7 DEF RefreshDetails
  <2>b. /\ submitting' \in [Pages -> BOOLEAN]
        /\ status' \in [Pages -> {"PENDING", "COMPLETED", "FAILED"}]
        /\ step' \in [Attempts -> Steps]
        /\ outcome' \in [Attempts -> {"none"} \cup Reported \cup Failures]
    <3>1. CASE Judge(a, of[a], quote[a])
      BY <1>0, <3>1, JudgeTypes
    <3>2. CASE Goes(a, "callback") /\ UNCHANGED <<submitting, status>>
      BY <1>0, <3>2 DEF Goes, ModalTypes, AttemptTypes
    <3> QED
      BY <2>0, <3>1, <3>2
  <2>c. named' \in [Attempts -> 0..MaxQuotes]
    <3>1. UNCHANGED named \/ named' = [named EXCEPT ![a] = actual]
      BY <2>0
    <3>2. actual \in 0..MaxQuotes
      BY <1>0 DEF MerchantTypes
    <3> QED
      BY <1>0, <3>1, <3>2 DEF AttemptTypes
  <2>1. ModalTypes'
    BY <1>0, <2>a, <2>b DEF ModalTypes
  <2>2. AttemptTypes'
    BY <1>0, <2>a, <2>b, <2>c DEF AttemptTypes
  <2>3. MerchantTypes'
    BY <1>0, <1>7 DEF ModalTypes, AttemptTypes, MerchantTypes,
      RefreshDetails, Judge, Goes, Fault, NoFault
  <2>4. WireTypes'
    BY <1>0, <1>7 DEF WireTypes, RefreshDetails, Judge, Goes, Fault,
      NoFault
  <2>5. ChainTypes'
    BY <1>0, <1>7 DEF ChainTypes, RefreshDetails, Judge, Goes, Fault,
      NoFault
  <2>6. FaultTypes'
    BY <1>0, <1>7 DEF FaultTypes, RefreshDetails, Judge, Goes, Fault,
      NoFault
  <2> QED
    BY <2>1, <2>2, <2>3, <2>4, <2>5, <2>6 DEF TypeOK
<1>8. ASSUME NEW a \in Attempts, RefreshQuote(a)
    PROVE  TypeOK'
  <2>0. \/ Judge(a, of[a], named[a]) /\ quote' = [quote EXCEPT ![a] = named[a]]
        \/ Judge(a, of[a], quote[a]) /\ UNCHANGED quote
    BY <1>8 DEF RefreshQuote
  <2>a. UNCHANGED <<method, dfx, mounted, opened, details, payData, started, of,
                    named>>
    BY <1>8 DEF RefreshQuote
  <2>b. /\ submitting' \in [Pages -> BOOLEAN]
        /\ status' \in [Pages -> {"PENDING", "COMPLETED", "FAILED"}]
        /\ step' \in [Attempts -> Steps]
        /\ outcome' \in [Attempts -> {"none"} \cup Reported \cup Failures]
    BY <1>0, <2>0, JudgeTypes
  <2>c. quote' \in [Attempts -> 0..MaxQuotes]
    BY <1>0, <2>0 DEF AttemptTypes
  <2>1. ModalTypes'
    BY <1>0, <2>a, <2>b DEF ModalTypes
  <2>2. AttemptTypes'
    BY <1>0, <2>a, <2>b, <2>c DEF AttemptTypes
  <2>3. MerchantTypes'
    <3>1. named[a] \in Quotes
      BY <1>0, <1>8 DEF ModalTypes, AttemptTypes, MerchantTypes,
        StartedInOrder, RefreshQuote, Judge, Activate, Fault, NoFault
    <3>2. activated' \subseteq activated \cup {named[a]}
      BY <1>0, <1>8, <3>1 DEF ModalTypes, AttemptTypes, MerchantTypes,
        StartedInOrder, RefreshQuote, Judge, Activate, Fault, NoFault
    <3>3. actual' \in Quotes /\ expired' \in 0..MaxQuotes
      BY <1>0, <1>8, <3>1 DEF ModalTypes, AttemptTypes, MerchantTypes,
        StartedInOrder, RefreshQuote, Judge, Activate, Fault, NoFault
    <3>4. activated' \subseteq Quotes
      BY <3>1, <3>2, <3>3, <1>0 DEF MerchantTypes
    <3> QED
      BY <3>1, <3>2, <3>3, <3>4 DEF MerchantTypes
  <2>4. WireTypes'
    BY <1>0, <1>8 DEF WireTypes, RefreshQuote, Judge, Activate, Fault,
      NoFault
  <2>5. ChainTypes'
    BY <1>0, <1>8 DEF ChainTypes, RefreshQuote, Judge, Activate, Fault,
      NoFault
  <2>6. FaultTypes'
    BY <1>0, <1>8 DEF FaultTypes, RefreshQuote, Judge, Activate, Fault,
      NoFault
  <2> QED
    BY <2>1, <2>2, <2>3, <2>4, <2>5, <2>6 DEF TypeOK
<1>9. ASSUME NEW a \in Attempts, Balance(a)
    PROVE  TypeOK'
  <2>1. ModalTypes'
    BY <1>0, <1>9 DEF ModalTypes, AttemptTypes, MerchantTypes, Balance,
      Goes, Fail, Ends, Release, Fault, NoFault
  <2>2. AttemptTypes'
    BY <1>0, <1>9 DEF ModalTypes, AttemptTypes, MerchantTypes, Balance,
      Goes, Fail, Ends, Release, Fault, NoFault
  <2>3. MerchantTypes'
    BY <1>0, <1>9 DEF ModalTypes, AttemptTypes, MerchantTypes, Balance,
      Goes, Fail, Ends, Release, Fault, NoFault
  <2>4. WireTypes'
    BY <1>0, <1>9 DEF WireTypes, Balance, Goes, Fail, Ends, Release,
      Fault, NoFault
  <2>5. ChainTypes'
    BY <1>0, <1>9 DEF ChainTypes, Balance, Goes, Fail, Ends, Release,
      Fault, NoFault
  <2>6. FaultTypes'
    BY <1>0, <1>9 DEF FaultTypes, Balance, Goes, Fail, Ends, Release,
      Fault, NoFault
  <2> QED
    BY <2>1, <2>2, <2>3, <2>4, <2>5, <2>6 DEF TypeOK
<1>10. ASSUME NEW a \in Attempts, Fee(a)
    PROVE  TypeOK'
  <2>1. ModalTypes'
    BY <1>0, <1>10 DEF ModalTypes, AttemptTypes, MerchantTypes, Fee, Goes,
      Fail, Ends, Release, Fault, NoFault
  <2>2. AttemptTypes'
    BY <1>0, <1>10 DEF ModalTypes, AttemptTypes, MerchantTypes, Fee, Goes,
      Fail, Ends, Release, Fault, NoFault
  <2>3. MerchantTypes'
    BY <1>0, <1>10 DEF ModalTypes, AttemptTypes, MerchantTypes, Fee, Goes,
      Fail, Ends, Release, Fault, NoFault
  <2>4. WireTypes'
    BY <1>0, <1>10 DEF WireTypes, Fee, Goes, Fail, Ends, Release, Fault,
      NoFault
  <2>5. ChainTypes'
    BY <1>0, <1>10 DEF ChainTypes, Fee, Goes, Fail, Ends, Release, Fault,
      NoFault
  <2>6. FaultTypes'
    BY <1>0, <1>10 DEF FaultTypes, Fee, Goes, Fail, Ends, Release, Fault,
      NoFault
  <2> QED
    BY <2>1, <2>2, <2>3, <2>4, <2>5, <2>6 DEF TypeOK
<1>11. ASSUME NEW a \in Attempts, SignEvm(a)
    PROVE  TypeOK'
  <2>1. ModalTypes'
    BY <1>0, <1>11 DEF ModalTypes, AttemptTypes, MerchantTypes, SignEvm,
      Posts, Goes, Fail, Ends, Release, Fault, NoFault
  <2>2. AttemptTypes'
    BY <1>0, <1>11 DEF ModalTypes, AttemptTypes, MerchantTypes, SignEvm,
      Posts, Goes, Fail, Ends, Release, Fault, NoFault
  <2>3. MerchantTypes'
    BY <1>0, <1>11 DEF ModalTypes, AttemptTypes, MerchantTypes, SignEvm,
      Posts, Goes, Fail, Ends, Release, Fault, NoFault
  <2>4. WireTypes'
    BY <1>0, <1>11 DEF WireTypes, SignEvm, Posts, Goes, Fail, Ends,
      Release, Fault, NoFault
  <2>5. ChainTypes'
    BY <1>0, <1>11 DEF ChainTypes, SignEvm, Posts, Goes, Fail, Ends,
      Release, Fault, NoFault
  <2>6. FaultTypes'
    BY <1>0, <1>11 DEF FaultTypes, SignEvm, Posts, Goes, Fail, Ends,
      Release, Fault, NoFault
  <2> QED
    BY <2>1, <2>2, <2>3, <2>4, <2>5, <2>6 DEF TypeOK
<1>12. ASSUME NEW a \in Attempts, SendIcp(a)
    PROVE  TypeOK'
  <2>1. ModalTypes'
    BY <1>0, <1>12 DEF ModalTypes, AttemptTypes, MerchantTypes, SendIcp,
      Posts, Goes, Fail, Ends, Release, Fault, NoFault
  <2>2. AttemptTypes'
    BY <1>0, <1>12 DEF ModalTypes, AttemptTypes, MerchantTypes, SendIcp,
      Posts, Goes, Fail, Ends, Release, Fault, NoFault
  <2>3. MerchantTypes'
    BY <1>0, <1>12 DEF ModalTypes, AttemptTypes, MerchantTypes, SendIcp,
      Posts, Goes, Fail, Ends, Release, Fault, NoFault
  <2>4. WireTypes'
    BY <1>0, <1>12 DEF WireTypes, SendIcp, Posts, Goes, Fail, Ends,
      Release, Fault, NoFault
  <2>5. ChainTypes'
    BY <1>0, <1>12 DEF ChainTypes, SendIcp, Posts, Goes, Fail, Ends,
      Release, Fault, NoFault
  <2>6. FaultTypes'
    BY <1>0, <1>12 DEF FaultTypes, SendIcp, Posts, Goes, Fail, Ends,
      Release, Fault, NoFault
  <2> QED
    BY <2>1, <2>2, <2>3, <2>4, <2>5, <2>6 DEF TypeOK
<1>13. ASSUME NEW a \in Attempts, SendBtc(a)
    PROVE  TypeOK'
  <2>1. ModalTypes'
    BY <1>0, <1>13 DEF ModalTypes, AttemptTypes, MerchantTypes, SendBtc,
      Goes, Fail, Ends, Release, Fault, NoFault
  <2>2. AttemptTypes'
    BY <1>0, <1>13 DEF ModalTypes, AttemptTypes, MerchantTypes, SendBtc,
      Goes, Fail, Ends, Release, Fault, NoFault
  <2>3. MerchantTypes'
    BY <1>0, <1>13 DEF ModalTypes, AttemptTypes, MerchantTypes, SendBtc,
      Goes, Fail, Ends, Release, Fault, NoFault
  <2>4. WireTypes'
    BY <1>0, <1>13 DEF WireTypes, SendBtc, Goes, Fail, Ends, Release,
      Fault, NoFault
  <2>5. ChainTypes'
    BY <1>0, <1>13 DEF ChainTypes, SendBtc, Goes, Fail, Ends, Release,
      Fault, NoFault
  <2>6. FaultTypes'
    BY <1>0, <1>13 DEF FaultTypes, SendBtc, Goes, Fail, Ends, Release,
      Fault, NoFault
  <2> QED
    BY <2>1, <2>2, <2>3, <2>4, <2>5, <2>6 DEF TypeOK
<1>14. ASSUME NEW a \in Attempts, CheckMempool(a)
    PROVE  TypeOK'
  <2>1. ModalTypes'
    BY <1>0, <1>14 DEF ModalTypes, AttemptTypes, MerchantTypes,
      CheckMempool, IsOnMempool, Posts, Goes, Fail, Ends, Release
  <2>2. AttemptTypes'
    BY <1>0, <1>14 DEF ModalTypes, AttemptTypes, MerchantTypes,
      CheckMempool, IsOnMempool, Posts, Goes, Fail, Ends, Release
  <2>3. MerchantTypes'
    BY <1>0, <1>14 DEF ModalTypes, AttemptTypes, MerchantTypes,
      CheckMempool, IsOnMempool, Posts, Goes, Fail, Ends, Release
  <2>4. WireTypes'
    BY <1>0, <1>14 DEF WireTypes, CheckMempool, IsOnMempool, Posts, Goes,
      Fail, Ends, Release
  <2>5. ChainTypes'
    BY <1>0, <1>14 DEF ChainTypes, CheckMempool, IsOnMempool, Posts, Goes,
      Fail, Ends, Release
  <2>6. FaultTypes'
    BY <1>0, <1>14 DEF FaultTypes, CheckMempool, IsOnMempool, Posts, Goes,
      Fail, Ends, Release
  <2> QED
    BY <2>1, <2>2, <2>3, <2>4, <2>5, <2>6 DEF TypeOK
<1>15. ASSUME NEW a \in Attempts, SubmitAnswered(a)
    PROVE  TypeOK'
  <2>1. ModalTypes'
    <3>1. 0 \in 0..MaxQuotes
      BY <1>0, <1>15 DEF ModalTypes, AttemptTypes, MerchantTypes,
        SubmitAnswered, Succeed, Fail, Ends, Release, Fault, NoFault
    <3>2. method' \in Methods /\ dfx' \in BOOLEAN
      BY <1>0, <1>15, <3>1 DEF ModalTypes, AttemptTypes, MerchantTypes,
        SubmitAnswered, Succeed, Fail, Ends, Release, Fault, NoFault
    <3>3. mounted' \in 0..MaxPages /\ opened' \in 0..MaxPages
      BY <1>0, <1>15, <3>1 DEF ModalTypes, AttemptTypes, MerchantTypes,
        SubmitAnswered, Succeed, Fail, Ends, Release, Fault, NoFault
    <3>4. details' \in [Pages -> 0..MaxQuotes]
      BY <1>0, <1>15, <3>1 DEF ModalTypes, AttemptTypes, MerchantTypes,
        SubmitAnswered, Succeed, Fail, Ends, Release, Fault, NoFault
    <3>5. submitting' \in [Pages -> BOOLEAN]
      BY <1>0, <1>15, <3>1 DEF ModalTypes, AttemptTypes, MerchantTypes,
        SubmitAnswered, Succeed, Fail, Ends, Release, Fault, NoFault
    <3>6. status' \in [Pages -> {"PENDING", "COMPLETED", "FAILED"}]
      BY <1>0, <1>15, <3>1 DEF ModalTypes, AttemptTypes, MerchantTypes,
        SubmitAnswered, Succeed, Fail, Ends, Release, Fault, NoFault
    <3>7. payData' = payData \/ payData' = [payData EXCEPT ![of[a]] = 0]
      BY <1>0, <1>15, <3>1 DEF ModalTypes, AttemptTypes, MerchantTypes,
        SubmitAnswered, Succeed, Fail, Ends, Release, Fault, NoFault
    <3>8. payData' \in [Pages -> 0..MaxQuotes]
      BY <3>7, <3>1, <1>0 DEF ModalTypes
    <3> QED
      BY <3>1, <3>2, <3>3, <3>4, <3>5, <3>6, <3>7, <3>8 DEF ModalTypes
  <2>2. AttemptTypes'
    BY <1>0, <1>15 DEF ModalTypes, AttemptTypes, MerchantTypes,
      SubmitAnswered, Succeed, Fail, Ends, Release, Fault, NoFault
  <2>3. MerchantTypes'
    BY <1>0, <1>15 DEF ModalTypes, AttemptTypes, MerchantTypes,
      SubmitAnswered, Succeed, Fail, Ends, Release, Fault, NoFault
  <2>4. WireTypes'
    BY <1>0, <1>15 DEF WireTypes, SubmitAnswered, Succeed, Fail, Ends,
      Release, Fault, NoFault
  <2>5. ChainTypes'
    BY <1>0, <1>15 DEF ChainTypes, SubmitAnswered, Succeed, Fail, Ends,
      Release, Fault, NoFault
  <2>6. FaultTypes'
    BY <1>0, <1>15 DEF FaultTypes, SubmitAnswered, Succeed, Fail, Ends,
      Release, Fault, NoFault
  <2> QED
    BY <2>1, <2>2, <2>3, <2>4, <2>5, <2>6 DEF TypeOK
<1>16. ASSUME NEW a \in Attempts, SubmitFails(a)
    PROVE  TypeOK'
  <2>1. ModalTypes'
    BY <1>0, <1>16 DEF ModalTypes, AttemptTypes, MerchantTypes,
      SubmitFails, Fail, Ends, Release, Fault, NoFault
  <2>2. AttemptTypes'
    BY <1>0, <1>16 DEF ModalTypes, AttemptTypes, MerchantTypes,
      SubmitFails, Fail, Ends, Release, Fault, NoFault
  <2>3. MerchantTypes'
    BY <1>0, <1>16 DEF ModalTypes, AttemptTypes, MerchantTypes,
      SubmitFails, Fail, Ends, Release, Fault, NoFault
  <2>4. WireTypes'
    BY <1>0, <1>16 DEF WireTypes, SubmitFails, Fail, Ends, Release, Fault,
      NoFault
  <2>5. ChainTypes'
    BY <1>0, <1>16 DEF ChainTypes, SubmitFails, Fail, Ends, Release,
      Fault, NoFault
  <2>6. FaultTypes'
    BY <1>0, <1>16 DEF FaultTypes, SubmitFails, Fail, Ends, Release,
      Fault, NoFault
  <2> QED
    BY <2>1, <2>2, <2>3, <2>4, <2>5, <2>6 DEF TypeOK
<1>17. ASSUME NEW a \in Attempts, SubmitTimesOut(a)
    PROVE  TypeOK'
  <2>1. ModalTypes'
    BY <1>0, <1>17 DEF ModalTypes, AttemptTypes, MerchantTypes,
      SubmitTimesOut, Fail, Ends, Release
  <2>2. AttemptTypes'
    BY <1>0, <1>17 DEF ModalTypes, AttemptTypes, MerchantTypes,
      SubmitTimesOut, Fail, Ends, Release
  <2>3. MerchantTypes'
    BY <1>0, <1>17 DEF ModalTypes, AttemptTypes, MerchantTypes,
      SubmitTimesOut, Fail, Ends, Release
  <2>4. WireTypes'
    BY <1>0, <1>17 DEF WireTypes, SubmitTimesOut, Fail, Ends, Release
  <2>5. ChainTypes'
    BY <1>0, <1>17 DEF ChainTypes, SubmitTimesOut, Fail, Ends, Release
  <2>6. FaultTypes'
    BY <1>0, <1>17 DEF FaultTypes, SubmitTimesOut, Fail, Ends, Release
  <2> QED
    BY <2>1, <2>2, <2>3, <2>4, <2>5, <2>6 DEF TypeOK
<1>18. ASSUME NEW a \in Attempts, Deliver(a)
    PROVE  TypeOK'
  <2>1. ModalTypes'
    BY <1>0, <1>18 DEF ModalTypes, AttemptTypes, MerchantTypes, Deliver,
      Fault, NoFault
  <2>2. AttemptTypes'
    BY <1>0, <1>18 DEF ModalTypes, AttemptTypes, MerchantTypes, Deliver,
      Fault, NoFault
  <2>3. MerchantTypes'
    BY <1>0, <1>18 DEF ModalTypes, AttemptTypes, MerchantTypes, Deliver,
      Fault, NoFault
  <2>4. WireTypes'
    BY <1>0, <1>18 DEF WireTypes, Deliver, Fault, NoFault
  <2>5. ChainTypes'
    BY <1>0, <1>18 DEF ChainTypes, Deliver, Fault, NoFault
  <2>6. FaultTypes'
    BY <1>0, <1>18 DEF FaultTypes, Deliver, Fault, NoFault
  <2> QED
    BY <2>1, <2>2, <2>3, <2>4, <2>5, <2>6 DEF TypeOK
<1>19. ASSUME NEW a \in Attempts, Broadcast(a)
    PROVE  TypeOK'
  <2>1. ModalTypes'
    BY <1>0, <1>19 DEF ModalTypes, AttemptTypes, MerchantTypes, Broadcast
  <2>2. AttemptTypes'
    BY <1>0, <1>19 DEF ModalTypes, AttemptTypes, MerchantTypes, Broadcast
  <2>3. MerchantTypes'
    BY <1>0, <1>19 DEF ModalTypes, AttemptTypes, MerchantTypes, Broadcast
  <2>4. WireTypes'
    BY <1>0, <1>19 DEF WireTypes, Broadcast
  <2>5. ChainTypes'
    BY <1>0, <1>19 DEF ChainTypes, Broadcast
  <2>6. FaultTypes'
    BY <1>0, <1>19 DEF FaultTypes, Broadcast
  <2> QED
    BY <2>1, <2>2, <2>3, <2>4, <2>5, <2>6 DEF TypeOK
<1>20. ASSUME NEW a \in Attempts, Appear(a)
    PROVE  TypeOK'
  <2>1. ModalTypes'
    BY <1>0, <1>20 DEF ModalTypes, AttemptTypes, MerchantTypes, Appear
  <2>2. AttemptTypes'
    BY <1>0, <1>20 DEF ModalTypes, AttemptTypes, MerchantTypes, Appear
  <2>3. MerchantTypes'
    BY <1>0, <1>20 DEF ModalTypes, AttemptTypes, MerchantTypes, Appear
  <2>4. WireTypes'
    BY <1>0, <1>20 DEF WireTypes, Appear
  <2>5. ChainTypes'
    BY <1>0, <1>20 DEF ChainTypes, Appear
  <2>6. FaultTypes'
    BY <1>0, <1>20 DEF FaultTypes, Appear
  <2> QED
    BY <2>1, <2>2, <2>3, <2>4, <2>5, <2>6 DEF TypeOK
<1>21. CASE UNCHANGED vars
  BY <1>21 DEF TypeOK, ModalTypes, AttemptTypes, MerchantTypes, WireTypes,
    ChainTypes, FaultTypes
<1> QED
  BY <1>1, <1>2, <1>3, <1>4, <1>5, <1>6, <1>7, <1>8, <1>9, <1>10, <1>11,
    <1>12, <1>13, <1>14, <1>15, <1>16, <1>17, <1>18, <1>19, <1>20, <1>21 DEF
    Next, Progress

\* Every step of an attempt has this shape.
LEMMA ProgressIsLocal ==
  ASSUME TypeOK, StartedInOrder, HoldersBlock,
         NEW a \in Attempts, Progress(a)
  PROVE  Local(a)
<1> USE PaymentAssumption DEF vars, modal, about, attempts, merchant, chains,
  network, Pages, Attempts, Quotes, Steps, Reported, Failures
<1>0. a <= started /\ of[a] \in Pages /\ submitting[of[a]] /\ quote[a] # 0
      /\ step[a] \notin {"none", "over"} /\ outcome[a] = "none"
  BY  DEF Progress, RefreshDetails, RefreshQuote, Balance, Fee, SignEvm,
    SendIcp, SendBtc, CheckMempool, SubmitAnswered, SubmitFails,
    SubmitTimesOut, TypeOK, AttemptTypes, StartedInOrder, HoldersBlock,
    Holds
<1>t. ModalTypes /\ AttemptTypes /\ MerchantTypes
  BY DEF TypeOK
<1>1. CASE RefreshDetails(a)
  <2>1. UNCHANGED <<started, of>> /\ step'[a] # "none"
    BY <1>0, <1>t, <1>1 DEF AttemptTypes, RefreshDetails, Judge, Goes,
      Fault, NoFault
  <2>2. \A b \in Attempts \ {a} :
           /\ step'[b] = step[b] /\ outcome'[b] = outcome[b]
           /\ quote'[b] = quote[b] /\ named'[b] = named[b]
    BY <1>0, <1>t, <1>1 DEF AttemptTypes, RefreshDetails, Judge, Goes,
      Fault, NoFault
  <2>3. \A p \in Pages \ {of[a]} : submitting'[p] = submitting[p]
    BY <1>0, <1>t, <1>1 DEF AttemptTypes, ModalTypes, RefreshDetails,
      Judge, Goes, Fault, NoFault
  <2>4. outcome'[a] # "none" <=> step'[a] = "over"
    BY <1>0, <1>t, <1>1 DEF AttemptTypes, RefreshDetails, Judge, Goes,
      Fault, NoFault
  <2>5. step'[a] = "callback" => named'[a] # 0
    BY <1>0, <1>t, <1>1 DEF AttemptTypes, MerchantTypes, RefreshDetails,
      Judge, Goes, Fault, NoFault
  <2>6. quote'[a] # 0
    BY <1>0, <1>t, <1>1 DEF AttemptTypes, RefreshDetails, Judge, Goes,
      Fault, NoFault
  <2>7. step'[a] # "over" \/ outcome'[a] = "timeout" => submitting'[of[a]]
    BY <1>0, <1>t, <1>1 DEF AttemptTypes, ModalTypes, RefreshDetails,
      Judge, Goes, Fault, NoFault
  <2> QED
    BY <1>0, <2>1, <2>2, <2>3, <2>4, <2>5, <2>6, <2>7 DEF Local
<1>2. CASE RefreshQuote(a)
  <2>1. UNCHANGED <<started, of>> /\ step'[a] # "none"
    BY <1>0, <1>t, <1>2 DEF AttemptTypes, RefreshQuote, Judge, Activate,
      Fault, NoFault
  <2>2. \A b \in Attempts \ {a} :
           /\ step'[b] = step[b] /\ outcome'[b] = outcome[b]
           /\ quote'[b] = quote[b] /\ named'[b] = named[b]
    BY <1>0, <1>t, <1>2 DEF AttemptTypes, RefreshQuote, Judge, Activate,
      Fault, NoFault
  <2>3. \A p \in Pages \ {of[a]} : submitting'[p] = submitting[p]
    BY <1>0, <1>t, <1>2 DEF AttemptTypes, ModalTypes, RefreshQuote, Judge,
      Activate, Fault, NoFault
  <2>4. outcome'[a] # "none" <=> step'[a] = "over"
    BY <1>0, <1>t, <1>2 DEF AttemptTypes, RefreshQuote, Judge, Activate,
      Fault, NoFault
  <2>5. step'[a] = "callback" => named'[a] # 0
    BY <1>0, <1>t, <1>2 DEF AttemptTypes, MerchantTypes, RefreshQuote,
      Judge, Activate, Fault, NoFault
  <2>6. quote'[a] # 0
    BY <1>0, <1>t, <1>2 DEF AttemptTypes, StartedInOrder, RefreshQuote,
      Judge, Activate, Fault, NoFault
  <2>7. step'[a] # "over" \/ outcome'[a] = "timeout" => submitting'[of[a]]
    BY <1>0, <1>t, <1>2 DEF AttemptTypes, ModalTypes, RefreshQuote, Judge,
      Activate, Fault, NoFault
  <2> QED
    BY <1>0, <2>1, <2>2, <2>3, <2>4, <2>5, <2>6, <2>7 DEF Local
<1>3. CASE Balance(a)
  <2>1. UNCHANGED <<started, of>> /\ step'[a] # "none"
    BY <1>0, <1>t, <1>3 DEF AttemptTypes, Balance, Goes, Fail, Ends,
      Release, Fault, NoFault
  <2>2. \A b \in Attempts \ {a} :
           /\ step'[b] = step[b] /\ outcome'[b] = outcome[b]
           /\ quote'[b] = quote[b] /\ named'[b] = named[b]
    BY <1>0, <1>t, <1>3 DEF AttemptTypes, Balance, Goes, Fail, Ends,
      Release, Fault, NoFault
  <2>3. \A p \in Pages \ {of[a]} : submitting'[p] = submitting[p]
    <3>1. \/ UNCHANGED submitting
          \/ submitting' = [submitting EXCEPT ![of[a]] = FALSE]
      BY <1>3 DEF Balance, Fail, Release
    <3> QED
      BY <1>t, <3>1 DEF ModalTypes
  <2>4. outcome'[a] # "none" <=> step'[a] = "over"
    BY <1>0, <1>t, <1>3 DEF AttemptTypes, Balance, Goes, Fail, Ends,
      Release, Fault, NoFault
  <2>5. step'[a] = "callback" => named'[a] # 0
    BY <1>0, <1>t, <1>3 DEF AttemptTypes, MerchantTypes, Balance, Goes,
      Fail, Ends, Release, Fault, NoFault
  <2>6. quote'[a] # 0
    BY <1>0, <1>t, <1>3 DEF AttemptTypes, Balance, Goes, Fail, Ends,
      Release, Fault, NoFault
  <2>7. step'[a] # "over" \/ outcome'[a] = "timeout" => submitting'[of[a]]
    BY <1>0, <1>t, <1>3 DEF AttemptTypes, ModalTypes, Balance, Goes, Fail,
      Ends, Release, Fault, NoFault
  <2> QED
    BY <1>0, <2>1, <2>2, <2>3, <2>4, <2>5, <2>6, <2>7 DEF Local
<1>4. CASE Fee(a)
  <2>1. UNCHANGED <<started, of>> /\ step'[a] # "none"
    BY <1>0, <1>t, <1>4 DEF AttemptTypes, Fee, Goes, Fail, Ends, Release,
      Fault, NoFault
  <2>2. \A b \in Attempts \ {a} :
           /\ step'[b] = step[b] /\ outcome'[b] = outcome[b]
           /\ quote'[b] = quote[b] /\ named'[b] = named[b]
    BY <1>0, <1>t, <1>4 DEF AttemptTypes, Fee, Goes, Fail, Ends, Release,
      Fault, NoFault
  <2>3. \A p \in Pages \ {of[a]} : submitting'[p] = submitting[p]
    <3>1. \/ UNCHANGED submitting
          \/ submitting' = [submitting EXCEPT ![of[a]] = FALSE]
      BY <1>4 DEF Fee, Fail, Release
    <3> QED
      BY <1>t, <3>1 DEF ModalTypes
  <2>4. outcome'[a] # "none" <=> step'[a] = "over"
    BY <1>0, <1>t, <1>4 DEF AttemptTypes, Fee, Goes, Fail, Ends, Release,
      Fault, NoFault
  <2>5. step'[a] = "callback" => named'[a] # 0
    BY <1>0, <1>t, <1>4 DEF AttemptTypes, MerchantTypes, Fee, Goes, Fail,
      Ends, Release, Fault, NoFault
  <2>6. quote'[a] # 0
    BY <1>0, <1>t, <1>4 DEF AttemptTypes, Fee, Goes, Fail, Ends, Release,
      Fault, NoFault
  <2>7. step'[a] # "over" \/ outcome'[a] = "timeout" => submitting'[of[a]]
    BY <1>0, <1>t, <1>4 DEF AttemptTypes, ModalTypes, Fee, Goes, Fail,
      Ends, Release, Fault, NoFault
  <2> QED
    BY <1>0, <2>1, <2>2, <2>3, <2>4, <2>5, <2>6, <2>7 DEF Local
<1>5. CASE SignEvm(a)
  <2>1. UNCHANGED <<started, of>> /\ step'[a] # "none"
    BY <1>0, <1>t, <1>5 DEF AttemptTypes, SignEvm, Posts, Goes, Fail,
      Ends, Release, Fault, NoFault
  <2>2. \A b \in Attempts \ {a} :
           /\ step'[b] = step[b] /\ outcome'[b] = outcome[b]
           /\ quote'[b] = quote[b] /\ named'[b] = named[b]
    BY <1>0, <1>t, <1>5 DEF AttemptTypes, SignEvm, Posts, Goes, Fail,
      Ends, Release, Fault, NoFault
  <2>3. \A p \in Pages \ {of[a]} : submitting'[p] = submitting[p]
    <3>1. \/ UNCHANGED submitting
          \/ submitting' = [submitting EXCEPT ![of[a]] = FALSE]
      BY <1>5 DEF SignEvm, Posts, Fail, Release
    <3> QED
      BY <1>t, <3>1 DEF ModalTypes
  <2>4. outcome'[a] # "none" <=> step'[a] = "over"
    BY <1>0, <1>t, <1>5 DEF AttemptTypes, SignEvm, Posts, Goes, Fail,
      Ends, Release, Fault, NoFault
  <2>5. step'[a] = "callback" => named'[a] # 0
    BY <1>0, <1>t, <1>5 DEF AttemptTypes, MerchantTypes, SignEvm, Posts,
      Goes, Fail, Ends, Release, Fault, NoFault
  <2>6. quote'[a] # 0
    BY <1>0, <1>t, <1>5 DEF AttemptTypes, SignEvm, Posts, Goes, Fail,
      Ends, Release, Fault, NoFault
  <2>7. step'[a] # "over" \/ outcome'[a] = "timeout" => submitting'[of[a]]
    BY <1>0, <1>t, <1>5 DEF AttemptTypes, ModalTypes, SignEvm, Posts,
      Goes, Fail, Ends, Release, Fault, NoFault
  <2> QED
    BY <1>0, <2>1, <2>2, <2>3, <2>4, <2>5, <2>6, <2>7 DEF Local
<1>6. CASE SendIcp(a)
  <2>1. UNCHANGED <<started, of>> /\ step'[a] # "none"
    BY <1>0, <1>t, <1>6 DEF AttemptTypes, SendIcp, Posts, Goes, Fail,
      Ends, Release, Fault, NoFault
  <2>2. \A b \in Attempts \ {a} :
           /\ step'[b] = step[b] /\ outcome'[b] = outcome[b]
           /\ quote'[b] = quote[b] /\ named'[b] = named[b]
    BY <1>0, <1>t, <1>6 DEF AttemptTypes, SendIcp, Posts, Goes, Fail,
      Ends, Release, Fault, NoFault
  <2>3. \A p \in Pages \ {of[a]} : submitting'[p] = submitting[p]
    <3>1. \/ UNCHANGED submitting
          \/ submitting' = [submitting EXCEPT ![of[a]] = FALSE]
      BY <1>6 DEF SendIcp, Posts, Fail, Release
    <3> QED
      BY <1>t, <3>1 DEF ModalTypes
  <2>4. outcome'[a] # "none" <=> step'[a] = "over"
    BY <1>0, <1>t, <1>6 DEF AttemptTypes, SendIcp, Posts, Goes, Fail,
      Ends, Release, Fault, NoFault
  <2>5. step'[a] = "callback" => named'[a] # 0
    BY <1>0, <1>t, <1>6 DEF AttemptTypes, MerchantTypes, SendIcp, Posts,
      Goes, Fail, Ends, Release, Fault, NoFault
  <2>6. quote'[a] # 0
    BY <1>0, <1>t, <1>6 DEF AttemptTypes, SendIcp, Posts, Goes, Fail,
      Ends, Release, Fault, NoFault
  <2>7. step'[a] # "over" \/ outcome'[a] = "timeout" => submitting'[of[a]]
    BY <1>0, <1>t, <1>6 DEF AttemptTypes, ModalTypes, SendIcp, Posts,
      Goes, Fail, Ends, Release, Fault, NoFault
  <2> QED
    BY <1>0, <2>1, <2>2, <2>3, <2>4, <2>5, <2>6, <2>7 DEF Local
<1>7. CASE SendBtc(a)
  <2>1. UNCHANGED <<started, of>> /\ step'[a] # "none"
    BY <1>0, <1>t, <1>7 DEF AttemptTypes, SendBtc, Goes, Fail, Ends,
      Release, Fault, NoFault
  <2>2. \A b \in Attempts \ {a} :
           /\ step'[b] = step[b] /\ outcome'[b] = outcome[b]
           /\ quote'[b] = quote[b] /\ named'[b] = named[b]
    BY <1>0, <1>t, <1>7 DEF AttemptTypes, SendBtc, Goes, Fail, Ends,
      Release, Fault, NoFault
  <2>3. \A p \in Pages \ {of[a]} : submitting'[p] = submitting[p]
    <3>1. \/ UNCHANGED submitting
          \/ submitting' = [submitting EXCEPT ![of[a]] = FALSE]
      BY <1>7 DEF SendBtc, Fail, Release
    <3> QED
      BY <1>t, <3>1 DEF ModalTypes
  <2>4. outcome'[a] # "none" <=> step'[a] = "over"
    BY <1>0, <1>t, <1>7 DEF AttemptTypes, SendBtc, Goes, Fail, Ends,
      Release, Fault, NoFault
  <2>5. step'[a] = "callback" => named'[a] # 0
    BY <1>0, <1>t, <1>7 DEF AttemptTypes, MerchantTypes, SendBtc, Goes,
      Fail, Ends, Release, Fault, NoFault
  <2>6. quote'[a] # 0
    BY <1>0, <1>t, <1>7 DEF AttemptTypes, SendBtc, Goes, Fail, Ends,
      Release, Fault, NoFault
  <2>7. step'[a] # "over" \/ outcome'[a] = "timeout" => submitting'[of[a]]
    BY <1>0, <1>t, <1>7 DEF AttemptTypes, ModalTypes, SendBtc, Goes, Fail,
      Ends, Release, Fault, NoFault
  <2> QED
    BY <1>0, <2>1, <2>2, <2>3, <2>4, <2>5, <2>6, <2>7 DEF Local
<1>8. CASE CheckMempool(a)
  <2>1. UNCHANGED <<started, of>> /\ step'[a] # "none"
    BY <1>0, <1>t, <1>8 DEF AttemptTypes, CheckMempool, IsOnMempool,
      Posts, Goes, Fail, Ends, Release
  <2>2. \A b \in Attempts \ {a} :
           /\ step'[b] = step[b] /\ outcome'[b] = outcome[b]
           /\ quote'[b] = quote[b] /\ named'[b] = named[b]
    BY <1>0, <1>t, <1>8 DEF AttemptTypes, CheckMempool, IsOnMempool,
      Posts, Goes, Fail, Ends, Release
  <2>3. \A p \in Pages \ {of[a]} : submitting'[p] = submitting[p]
    <3>1. \/ UNCHANGED submitting
          \/ submitting' = [submitting EXCEPT ![of[a]] = FALSE]
      BY <1>8 DEF CheckMempool, Posts, Fail, Release
    <3> QED
      BY <1>t, <3>1 DEF ModalTypes
  <2>4. outcome'[a] # "none" <=> step'[a] = "over"
    BY <1>0, <1>t, <1>8 DEF AttemptTypes, CheckMempool, IsOnMempool,
      Posts, Goes, Fail, Ends, Release
  <2>5. step'[a] = "callback" => named'[a] # 0
    BY <1>0, <1>t, <1>8 DEF AttemptTypes, MerchantTypes, CheckMempool,
      IsOnMempool, Posts, Goes, Fail, Ends, Release
  <2>6. quote'[a] # 0
    BY <1>0, <1>t, <1>8 DEF AttemptTypes, CheckMempool, IsOnMempool,
      Posts, Goes, Fail, Ends, Release
  <2>7. step'[a] # "over" \/ outcome'[a] = "timeout" => submitting'[of[a]]
    BY <1>0, <1>t, <1>8 DEF AttemptTypes, ModalTypes, CheckMempool,
      IsOnMempool, Posts, Goes, Fail, Ends, Release
  <2> QED
    BY <1>0, <2>1, <2>2, <2>3, <2>4, <2>5, <2>6, <2>7 DEF Local
<1>9. CASE SubmitAnswered(a)
  <2>1. UNCHANGED <<started, of>> /\ step'[a] # "none"
    BY <1>0, <1>t, <1>9 DEF AttemptTypes, SubmitAnswered, Succeed, Fail,
      Ends, Release, Fault, NoFault
  <2>2. \A b \in Attempts \ {a} :
           /\ step'[b] = step[b] /\ outcome'[b] = outcome[b]
           /\ quote'[b] = quote[b] /\ named'[b] = named[b]
    BY <1>0, <1>t, <1>9 DEF AttemptTypes, SubmitAnswered, Succeed, Fail,
      Ends, Release, Fault, NoFault
  <2>3. \A p \in Pages \ {of[a]} : submitting'[p] = submitting[p]
    <3>1. \/ UNCHANGED submitting
          \/ submitting' = [submitting EXCEPT ![of[a]] = FALSE]
      BY <1>9 DEF SubmitAnswered, Succeed, Fail, Release
    <3> QED
      BY <1>t, <3>1 DEF ModalTypes
  <2>4. outcome'[a] # "none" <=> step'[a] = "over"
    BY <1>0, <1>t, <1>9 DEF AttemptTypes, SubmitAnswered, Succeed, Fail,
      Ends, Release, Fault, NoFault
  <2>5. step'[a] = "callback" => named'[a] # 0
    BY <1>0, <1>t, <1>9 DEF AttemptTypes, MerchantTypes, SubmitAnswered,
      Succeed, Fail, Ends, Release, Fault, NoFault
  <2>6. quote'[a] # 0
    BY <1>0, <1>t, <1>9 DEF AttemptTypes, SubmitAnswered, Succeed, Fail,
      Ends, Release, Fault, NoFault
  <2>7. step'[a] # "over" \/ outcome'[a] = "timeout" => submitting'[of[a]]
    BY <1>0, <1>t, <1>9 DEF AttemptTypes, ModalTypes, SubmitAnswered,
      Succeed, Fail, Ends, Release, Fault, NoFault
  <2> QED
    BY <1>0, <2>1, <2>2, <2>3, <2>4, <2>5, <2>6, <2>7 DEF Local
<1>10. CASE SubmitFails(a)
  <2>1. UNCHANGED <<started, of>> /\ step'[a] # "none"
    BY <1>0, <1>t, <1>10 DEF AttemptTypes, SubmitFails, Fail, Ends,
      Release, Fault, NoFault
  <2>2. \A b \in Attempts \ {a} :
           /\ step'[b] = step[b] /\ outcome'[b] = outcome[b]
           /\ quote'[b] = quote[b] /\ named'[b] = named[b]
    BY <1>0, <1>t, <1>10 DEF AttemptTypes, SubmitFails, Fail, Ends,
      Release, Fault, NoFault
  <2>3. \A p \in Pages \ {of[a]} : submitting'[p] = submitting[p]
    <3>1. \/ UNCHANGED submitting
          \/ submitting' = [submitting EXCEPT ![of[a]] = FALSE]
      BY <1>10 DEF SubmitFails, Fail, Release
    <3> QED
      BY <1>t, <3>1 DEF ModalTypes
  <2>4. outcome'[a] # "none" <=> step'[a] = "over"
    BY <1>0, <1>t, <1>10 DEF AttemptTypes, SubmitFails, Fail, Ends,
      Release, Fault, NoFault
  <2>5. step'[a] = "callback" => named'[a] # 0
    BY <1>0, <1>t, <1>10 DEF AttemptTypes, MerchantTypes, SubmitFails,
      Fail, Ends, Release, Fault, NoFault
  <2>6. quote'[a] # 0
    BY <1>0, <1>t, <1>10 DEF AttemptTypes, SubmitFails, Fail, Ends,
      Release, Fault, NoFault
  <2>7. step'[a] # "over" \/ outcome'[a] = "timeout" => submitting'[of[a]]
    BY <1>0, <1>t, <1>10 DEF AttemptTypes, ModalTypes, SubmitFails, Fail,
      Ends, Release, Fault, NoFault
  <2> QED
    BY <1>0, <2>1, <2>2, <2>3, <2>4, <2>5, <2>6, <2>7 DEF Local
<1>11. CASE SubmitTimesOut(a)
  <2>1. UNCHANGED <<started, of>> /\ step'[a] # "none"
    BY <1>0, <1>t, <1>11 DEF AttemptTypes, SubmitTimesOut, Fail, Ends,
      Release
  <2>2. \A b \in Attempts \ {a} :
           /\ step'[b] = step[b] /\ outcome'[b] = outcome[b]
           /\ quote'[b] = quote[b] /\ named'[b] = named[b]
    BY <1>0, <1>t, <1>11 DEF AttemptTypes, SubmitTimesOut, Fail, Ends,
      Release
  <2>3. \A p \in Pages \ {of[a]} : submitting'[p] = submitting[p]
    <3>1. \/ UNCHANGED submitting
          \/ submitting' = [submitting EXCEPT ![of[a]] = FALSE]
      BY <1>11 DEF SubmitTimesOut, Fail, Release
    <3> QED
      BY <1>t, <3>1 DEF ModalTypes
  <2>4. outcome'[a] # "none" <=> step'[a] = "over"
    BY <1>0, <1>t, <1>11 DEF AttemptTypes, SubmitTimesOut, Fail, Ends,
      Release
  <2>5. step'[a] = "callback" => named'[a] # 0
    BY <1>0, <1>t, <1>11 DEF AttemptTypes, MerchantTypes, SubmitTimesOut,
      Fail, Ends, Release
  <2>6. quote'[a] # 0
    BY <1>0, <1>t, <1>11 DEF AttemptTypes, SubmitTimesOut, Fail, Ends,
      Release
  <2>7. step'[a] # "over" \/ outcome'[a] = "timeout" => submitting'[of[a]]
    BY <1>0, <1>t, <1>11 DEF AttemptTypes, ModalTypes, SubmitTimesOut,
      Fail, Ends, Release
  <2> QED
    BY <1>0, <2>1, <2>2, <2>3, <2>4, <2>5, <2>6, <2>7 DEF Local
<1> QED
  BY <1>1, <1>2, <1>3, <1>4, <1>5, <1>6, <1>7, <1>8, <1>9, <1>10, <1>11 DEF
    Progress

\* Submit starts an attempt on a page that is free.
LEMMA SubmitStarts ==
  ASSUME TypeOK, StartedInOrder, Submit
  PROVE  Starts(started + 1)
<1> USE PaymentAssumption DEF Pages, Attempts, Quotes
<1>t. ModalTypes /\ AttemptTypes
  BY DEF TypeOK
<1>1. mounted \in Pages /\ started + 1 \in Attempts /\ payData[mounted] # 0
  BY <1>t DEF Submit, ModalTypes, AttemptTypes
<1>2. /\ started' = started + 1 /\ of' = [of EXCEPT ![started + 1] = mounted]
      /\ quote' = [quote EXCEPT ![started + 1] = payData[mounted]]
      /\ named' = named /\ ~submitting[mounted]
  BY DEF Submit
<1>3. outcome[started + 1] = "none"
  BY <1>1, <1>t DEF StartedInOrder, AttemptTypes
<1>4. \/ /\ step' = [step EXCEPT ![started + 1] = "details"]
         /\ outcome' = outcome
         /\ submitting' = [submitting EXCEPT ![mounted] = TRUE]
      \/ /\ step' = [step EXCEPT ![started + 1] = "balance"]
         /\ outcome' = [outcome EXCEPT ![started + 1] = "none"]
         /\ submitting' = [submitting EXCEPT ![mounted] = TRUE]
      \/ /\ step' = [step EXCEPT ![started + 1] = "over"]
         /\ outcome' = [outcome EXCEPT ![started + 1] = "expired"]
         /\ submitting' = [submitting EXCEPT ![mounted] = FALSE]
  BY <1>1 DEF Submit, Judge
<1>5. /\ step'[started + 1] \in {"details", "balance", "over"}
      /\ outcome'[started + 1] \in {"none", "expired"}
      /\ outcome'[started + 1] # "none" <=> step'[started + 1] = "over"
      /\ step'[started + 1] # "over" => submitting'[mounted]
  BY <1>1, <1>3, <1>4, <1>t DEF ModalTypes, AttemptTypes
<1>6. \A p \in Pages \ {mounted} : submitting'[p] = submitting[p]
  BY <1>1, <1>4, <1>t DEF ModalTypes
<1>7. \A b \in Attempts \ {started + 1} :
        /\ step'[b] = step[b] /\ outcome'[b] = outcome[b] /\ of'[b] = of[b]
        /\ quote'[b] = quote[b] /\ named'[b] = named[b]
  BY <1>1, <1>2, <1>4, <1>t DEF AttemptTypes
<1>8. of'[started + 1] = mounted /\ quote'[started + 1] = payData[mounted]
  BY <1>1, <1>2, <1>t DEF AttemptTypes
<1> QED
  BY <1>1, <1>2, <1>5, <1>6, <1>7, <1>8 DEF Starts

\* Attempts start in order and end with an outcome.
LEMMA StartedStep ==
  TypeOK /\ StartedInOrder /\ HoldersBlock /\ [Next]_vars => StartedInOrder'
<1> SUFFICES ASSUME TypeOK, StartedInOrder, HoldersBlock, [Next]_vars PROVE
  StartedInOrder'
  OBVIOUS
<1>t. ModalTypes /\ AttemptTypes /\ MerchantTypes
  BY DEF TypeOK
<1> USE PaymentAssumption DEF vars, modal, about, attempts, merchant, chains,
  network, Pages, Attempts, Quotes, Steps, Reported, Failures, StartedInOrder
<1>1. ASSUME Open
    PROVE  StartedInOrder'
  BY <1>1, <1>t DEF Open, ModalTypes, AttemptTypes
<1>2. ASSUME Close
    PROVE  StartedInOrder'
  BY <1>2, <1>t DEF Close, ModalTypes, AttemptTypes
<1>3. ASSUME PayDetails
    PROVE  StartedInOrder'
  BY <1>3, <1>t DEF PayDetails, ModalTypes, AttemptTypes
<1>4. ASSUME PayQuote
    PROVE  StartedInOrder'
  BY <1>4, <1>t DEF PayQuote, Activate, ModalTypes, AttemptTypes
<1>5. ASSUME Submit
    PROVE  StartedInOrder'
  <2> DEFINE s == started + 1
  <2>1. Starts(s)
    BY <1>5, SubmitStarts
  <2> SUFFICES ASSUME NEW b \in Attempts
               PROVE  /\ b <= s => of'[b] \in Pages /\ step'[b] # "none" /\ quote'[b] # 0
                      /\ b > s => of'[b] = 0 /\ step'[b] = "none"
                      /\ outcome'[b] # "none" <=> step'[b] = "over"
                      /\ step'[b] = "callback" => named'[b] # 0
    BY <2>1 DEF Starts
  <2>2. CASE b = s
    BY <2>1, <2>2 DEF Starts
  <2>3. CASE b # s
    BY <2>1, <2>3, <1>t DEF Starts, AttemptTypes
  <2> QED  BY <2>2, <2>3
<1>6. ASSUME Rotate
    PROVE  StartedInOrder'
  BY <1>6, <1>t DEF Rotate, ModalTypes, AttemptTypes
<1>7. ASSUME NEW a \in Attempts, Deliver(a)
    PROVE  StartedInOrder'
  BY <1>7, <1>t DEF Deliver, Fault, NoFault, ModalTypes, AttemptTypes
<1>8. ASSUME NEW a \in Attempts, Broadcast(a)
    PROVE  StartedInOrder'
  BY <1>8, <1>t DEF Broadcast, ModalTypes, AttemptTypes
<1>9. ASSUME NEW a \in Attempts, Appear(a)
    PROVE  StartedInOrder'
  BY <1>9, <1>t DEF Appear, ModalTypes, AttemptTypes
<1>10. ASSUME NEW a \in Attempts, Progress(a)
    PROVE  StartedInOrder'
  <2>1. Local(a)
    BY <1>10, ProgressIsLocal
  <2> SUFFICES ASSUME NEW b \in Attempts
               PROVE  /\ b <= started => of[b] \in Pages /\ step'[b] # "none" /\ quote'[b] # 0
                      /\ b > started => of[b] = 0 /\ step'[b] = "none"
                      /\ outcome'[b] # "none" <=> step'[b] = "over"
                      /\ step'[b] = "callback" => named'[b] # 0
    BY <2>1 DEF Local
  <2>2. CASE b = a
    BY <2>1, <2>2, <1>t DEF Local, AttemptTypes
  <2>3. CASE b # a
    BY <2>1, <2>3 DEF Local
  <2> QED  BY <2>2, <2>3
<1>11. CASE UNCHANGED vars
  BY <1>11
<1> QED
  BY <1>1, <1>2, <1>3, <1>4, <1>5, <1>6, <1>7, <1>8, <1>9, <1>10, <1>11 DEF
    Next

\* Only the holder of a page releases it.
LEMMA HoldersStep ==
  TypeOK /\ StartedInOrder /\ HoldersBlock /\ PageAttemptsInTurn /\ [Next]_vars => HoldersBlock'
<1> SUFFICES ASSUME TypeOK, StartedInOrder, HoldersBlock, PageAttemptsInTurn,
  [Next]_vars PROVE HoldersBlock'
  OBVIOUS
<1>t. ModalTypes /\ AttemptTypes /\ MerchantTypes
  BY DEF TypeOK
<1> USE PaymentAssumption DEF vars, modal, about, attempts, merchant, chains,
  network, Pages, Attempts, Quotes, Steps, Reported, Failures, StartedInOrder,
  HoldersBlock, PageAttemptsInTurn, Of, Holds
<1>1. ASSUME Open
    PROVE  HoldersBlock'
  BY <1>1, <1>t DEF Open, ModalTypes, AttemptTypes
<1>2. ASSUME Close
    PROVE  HoldersBlock'
  BY <1>2, <1>t DEF Close, ModalTypes, AttemptTypes
<1>3. ASSUME PayDetails
    PROVE  HoldersBlock'
  BY <1>3, <1>t DEF PayDetails, ModalTypes, AttemptTypes
<1>4. ASSUME PayQuote
    PROVE  HoldersBlock'
  BY <1>4, <1>t DEF PayQuote, Activate, ModalTypes, AttemptTypes
<1>5. ASSUME Submit
    PROVE  HoldersBlock'
  <2> DEFINE s == started + 1
  <2>1. Starts(s)
    BY <1>5, SubmitStarts
  <2> SUFFICES ASSUME NEW b \in Attempts, b <= s,
                      step'[b] \notin {"none", "over"} \/ outcome'[b] = "timeout"
               PROVE  submitting'[of'[b]]
    BY <2>1 DEF Starts
  <2>2. CASE b = s
    BY <2>1, <2>2 DEF Starts
  <2>3. CASE b # s
    <3>1. b <= started /\ of'[b] = of[b] /\ of[b] \in Pages /\ submitting[of[b]]
      BY <2>1, <2>3, <1>t DEF Starts, AttemptTypes
    <3> QED  BY <2>1, <3>1 DEF Starts
  <2> QED  BY <2>2, <2>3
<1>6. ASSUME Rotate
    PROVE  HoldersBlock'
  BY <1>6, <1>t DEF Rotate, ModalTypes, AttemptTypes
<1>7. ASSUME NEW a \in Attempts, Deliver(a)
    PROVE  HoldersBlock'
  BY <1>7, <1>t DEF Deliver, Fault, NoFault, ModalTypes, AttemptTypes
<1>8. ASSUME NEW a \in Attempts, Broadcast(a)
    PROVE  HoldersBlock'
  BY <1>8, <1>t DEF Broadcast, ModalTypes, AttemptTypes
<1>9. ASSUME NEW a \in Attempts, Appear(a)
    PROVE  HoldersBlock'
  BY <1>9, <1>t DEF Appear, ModalTypes, AttemptTypes
<1>10. ASSUME NEW a \in Attempts, Progress(a)
    PROVE  HoldersBlock'
  <2>1. Local(a)
    BY <1>10, ProgressIsLocal
  <2>2. a <= started /\ of[a] \in Pages
    BY <2>1, <1>t DEF Local, AttemptTypes
  <2> SUFFICES ASSUME NEW b \in Attempts, b <= started,
                      step'[b] \notin {"none", "over"} \/ outcome'[b] = "timeout"
               PROVE  submitting'[of[b]]
    BY <2>1 DEF Local
  <2>3. CASE b = a
    BY <2>1, <2>3 DEF Local
  <2>4. CASE b # a
    <3>1. of[b] \in Pages /\ submitting[of[b]] /\ step'[b] = step[b]
             /\ outcome'[b] = outcome[b]
      BY <2>1, <2>4 DEF Local
    <3>2. of[b] # of[a]
      <4>1. ~(b \in Of(of[a]) /\ of[a] \in Pages /\ b < a)
        BY <3>1
      <4>2. ~(b \in Of(of[a]) /\ of[a] \in Pages /\ a < b)
        BY <2>1 DEF Local
      <4> QED  BY <2>2, <2>4, <4>1, <4>2
    <3> QED  BY <2>1, <3>1, <3>2 DEF Local
  <2> QED  BY <2>3, <2>4
<1>11. CASE UNCHANGED vars
  BY <1>11
<1> QED
  BY <1>1, <1>2, <1>3, <1>4, <1>5, <1>6, <1>7, <1>8, <1>9, <1>10, <1>11 DEF
    Next

\* An attempt starts on a page that nobody holds.
LEMMA InTurnStep ==
  TypeOK /\ StartedInOrder /\ HoldersBlock /\ PageAttemptsInTurn /\ [Next]_vars => PageAttemptsInTurn'
<1> SUFFICES ASSUME TypeOK, StartedInOrder, HoldersBlock, PageAttemptsInTurn,
  [Next]_vars PROVE PageAttemptsInTurn'
  OBVIOUS
<1>t. ModalTypes /\ AttemptTypes /\ MerchantTypes
  BY DEF TypeOK
<1> USE PaymentAssumption DEF vars, modal, about, attempts, merchant, chains,
  network, Pages, Attempts, Quotes, Steps, Reported, Failures, StartedInOrder,
  HoldersBlock, PageAttemptsInTurn, Of, Holds
<1>1. ASSUME Open
    PROVE  PageAttemptsInTurn'
  BY <1>1, <1>t DEF Open, ModalTypes, AttemptTypes
<1>2. ASSUME Close
    PROVE  PageAttemptsInTurn'
  BY <1>2, <1>t DEF Close, ModalTypes, AttemptTypes
<1>3. ASSUME PayDetails
    PROVE  PageAttemptsInTurn'
  BY <1>3, <1>t DEF PayDetails, ModalTypes, AttemptTypes
<1>4. ASSUME PayQuote
    PROVE  PageAttemptsInTurn'
  BY <1>4, <1>t DEF PayQuote, Activate, ModalTypes, AttemptTypes
<1>5. ASSUME Submit
    PROVE  PageAttemptsInTurn'
  <2> DEFINE s == started + 1
  <2>1. Starts(s)
    BY <1>5, SubmitStarts
  <2> SUFFICES ASSUME NEW p \in Pages, NEW x \in Attempts, NEW y \in Attempts,
                      of'[x] = p, of'[y] = p, x < y
               PROVE  step'[x] = "over" /\ outcome'[x] # "timeout"
    OBVIOUS
  <2>2. y <= s
    <3> SUFFICES ASSUME y > s PROVE FALSE
      BY <2>1, <1>t DEF Starts, AttemptTypes
    <3> QED  BY <2>1, <1>t DEF Starts, AttemptTypes
  <2>3. x \in Nat /\ y \in Nat /\ started \in Nat
    BY <1>t DEF AttemptTypes
  <2>a. x # s /\ x <= started
    BY <2>2, <2>3
  <2>b. /\ of[x] = p /\ step[x] # "none"
        /\ step'[x] = step[x] /\ outcome'[x] = outcome[x]
    BY <2>1, <2>a DEF Starts
  <2>4. CASE y = s
    BY <2>1, <2>a, <2>b, <2>4 DEF Starts
  <2>5. CASE y # s
    BY <2>1, <2>a, <2>b, <2>5 DEF Starts
  <2> QED  BY <2>4, <2>5
<1>6. ASSUME Rotate
    PROVE  PageAttemptsInTurn'
  BY <1>6, <1>t DEF Rotate, ModalTypes, AttemptTypes
<1>7. ASSUME NEW a \in Attempts, Deliver(a)
    PROVE  PageAttemptsInTurn'
  BY <1>7, <1>t DEF Deliver, Fault, NoFault, ModalTypes, AttemptTypes
<1>8. ASSUME NEW a \in Attempts, Broadcast(a)
    PROVE  PageAttemptsInTurn'
  BY <1>8, <1>t DEF Broadcast, ModalTypes, AttemptTypes
<1>9. ASSUME NEW a \in Attempts, Appear(a)
    PROVE  PageAttemptsInTurn'
  BY <1>9, <1>t DEF Appear, ModalTypes, AttemptTypes
<1>10. ASSUME NEW a \in Attempts, Progress(a)
    PROVE  PageAttemptsInTurn'
  <2>1. Local(a)
    BY <1>10, ProgressIsLocal
  <2> SUFFICES ASSUME NEW p \in Pages, NEW x \in Attempts, NEW y \in Attempts,
                      of[x] = p, of[y] = p, x < y
               PROVE  step'[x] = "over" /\ outcome'[x] # "timeout"
    BY <2>1 DEF Local
  <2>2. step[x] = "over" /\ outcome[x] # "timeout"
    OBVIOUS
  <2>3. x # a
    BY <2>1, <2>2 DEF Local
  <2> QED  BY <2>1, <2>2, <2>3 DEF Local
<1>11. CASE UNCHANGED vars
  BY <1>11
<1> QED
  BY <1>1, <1>2, <1>3, <1>4, <1>5, <1>6, <1>7, <1>8, <1>9, <1>10, <1>11 DEF
    Next

\* Only a transfer that is made and listed is submitted.
\* A step of an attempt keeps the order if the attempt itself does.
LEMMA PaidKept ==
  ASSUME PaidBeforeSubmitted, NEW a \in Attempts, Local(a),
         method' = method, landed \subseteq landed', seen \subseteq seen',
         step'[a] = "submit" \/ outcome'[a] \in Reported =>
           /\ method # "evm" => a \in landed'
           /\ method = "btc" => a \in seen'
  PROVE  PaidBeforeSubmitted'
<1> SUFFICES ASSUME NEW b \in Attempts,
                    step'[b] = "submit" \/ outcome'[b] \in Reported
             PROVE  /\ method # "evm" => b \in landed'
                    /\ method = "btc" => b \in seen'
  BY DEF PaidBeforeSubmitted, Attempts, Reported
<1>1. CASE b = a
  BY <1>1
<1>2. CASE b # a
  BY <1>2 DEF Local, PaidBeforeSubmitted
<1> QED
  BY <1>1, <1>2

LEMMA PaidStep ==
  TypeOK /\ StartedInOrder /\ HoldersBlock /\ PaidBeforeSubmitted /\ [Next]_vars => PaidBeforeSubmitted'
<1> SUFFICES ASSUME TypeOK, StartedInOrder, HoldersBlock, PaidBeforeSubmitted, [Next]_vars
             PROVE  PaidBeforeSubmitted'
  OBVIOUS
<1> USE PaymentAssumption DEF vars, modal, about, attempts, merchant, chains,
  network, Pages, Attempts, Quotes, Steps, Reported, Failures, TypeOK,
  ModalTypes, AttemptTypes, MerchantTypes, WireTypes, ChainTypes, FaultTypes,
  StartedInOrder, PaidBeforeSubmitted
<1>1. ASSUME Open
    PROVE  PaidBeforeSubmitted'
  BY <1>1 DEF Open
<1>2. ASSUME Close
    PROVE  PaidBeforeSubmitted'
  BY <1>2 DEF Close
<1>3. ASSUME PayDetails
    PROVE  PaidBeforeSubmitted'
  BY <1>3 DEF PayDetails
<1>4. ASSUME PayQuote
    PROVE  PaidBeforeSubmitted'
  BY <1>4 DEF PayQuote, Activate
<1>5. ASSUME Submit
    PROVE  PaidBeforeSubmitted'
  <2> DEFINE s == started + 1
  <2>1. Starts(s) /\ UNCHANGED <<method, landed, seen>>
    BY <1>5, SubmitStarts DEF Submit
  <2> SUFFICES ASSUME NEW b \in Attempts,
                      step'[b] = "submit" \/ outcome'[b] \in Reported
               PROVE  /\ method # "evm" => b \in landed
                      /\ method = "btc" => b \in seen
    BY <2>1
  <2>2. CASE b = s
    BY <2>1, <2>2 DEF Starts
  <2>3. CASE b # s
    BY <2>1, <2>3 DEF Starts
  <2> QED  BY <2>2, <2>3
<1>6. ASSUME Rotate
    PROVE  PaidBeforeSubmitted'
  BY <1>6 DEF Rotate
<1>7. ASSUME NEW a \in Attempts, RefreshDetails(a)
    PROVE  PaidBeforeSubmitted'
  <2>1. Local(a)
    BY <1>7, ProgressIsLocal DEF Progress
  <2>2. step'[a] \in {"callback", "balance", "over"}
           /\ outcome'[a] \in {"none", "expired"}
    BY <1>7 DEF RefreshDetails, Judge, Goes
  <2>3. UNCHANGED <<method, landed, seen>>
    BY <1>7 DEF RefreshDetails
  <2> SUFFICES ASSUME NEW b \in Attempts,
                      step'[b] = "submit" \/ outcome'[b] \in Reported
               PROVE  /\ method # "evm" => b \in landed
                      /\ method = "btc" => b \in seen
    BY <2>3
  <2>4. CASE b = a
    BY <2>2, <2>4
  <2>5. CASE b # a
    BY <2>1, <2>5 DEF Local
  <2> QED  BY <2>4, <2>5
<1>8. ASSUME NEW a \in Attempts, RefreshQuote(a)
    PROVE  PaidBeforeSubmitted'
  <2>1. Local(a)
    BY <1>8, ProgressIsLocal DEF Progress
  <2>2. step'[a] \in {"callback", "balance", "over"}
           /\ outcome'[a] \in {"none", "expired"}
    BY <1>8 DEF RefreshQuote, Judge
  <2>3. UNCHANGED <<method, landed, seen>>
    BY <1>8 DEF RefreshQuote
  <2> SUFFICES ASSUME NEW b \in Attempts,
                      step'[b] = "submit" \/ outcome'[b] \in Reported
               PROVE  /\ method # "evm" => b \in landed
                      /\ method = "btc" => b \in seen
    BY <2>3
  <2>4. CASE b = a
    BY <2>2, <2>4
  <2>5. CASE b # a
    BY <2>1, <2>5 DEF Local
  <2> QED  BY <2>4, <2>5
<1>9. ASSUME NEW a \in Attempts, Balance(a)
    PROVE  PaidBeforeSubmitted'
  <2>1. Local(a)
    BY <1>9, ProgressIsLocal DEF Progress
  <2>2. method' = method /\ landed \subseteq landed' /\ seen \subseteq seen'
    BY <1>9 DEF Balance
  <2>3. outcome[a] \notin Reported
    BY <1>9 DEF Balance
  <2>4. step'[a] # "submit" /\ outcome'[a] \notin Reported
    BY <1>9, <2>3 DEF Balance, Goes, Fail, Ends
  <2> QED
    BY <2>1, <2>2, <2>4, PaidKept
<1>10. ASSUME NEW a \in Attempts, Fee(a)
    PROVE  PaidBeforeSubmitted'
  <2>1. Local(a)
    BY <1>10, ProgressIsLocal DEF Progress
  <2>2. method' = method /\ landed \subseteq landed' /\ seen \subseteq seen'
    BY <1>10 DEF Fee
  <2>3. outcome[a] \notin Reported
    BY <1>10 DEF Fee
  <2>4. step'[a] # "submit" /\ outcome'[a] \notin Reported
    BY <1>10, <2>3 DEF Fee, Goes, Fail, Ends
  <2> QED
    BY <2>1, <2>2, <2>4, PaidKept
<1>11. ASSUME NEW a \in Attempts, SignEvm(a)
    PROVE  PaidBeforeSubmitted'
  <2>1. Local(a)
    BY <1>11, ProgressIsLocal DEF Progress
  <2>2. method' = method /\ landed \subseteq landed' /\ seen \subseteq seen'
    BY <1>11 DEF SignEvm
  <2>3. outcome[a] \notin Reported
    BY <1>11 DEF SignEvm
  <2>4. step'[a] = "submit" \/ outcome'[a] \in Reported => method = "evm"
    BY <1>11, <2>3 DEF SignEvm, Posts, Goes, Fail, Ends
  <2> QED
    BY <2>1, <2>2, <2>4, PaidKept
<1>12. ASSUME NEW a \in Attempts, SendIcp(a)
    PROVE  PaidBeforeSubmitted'
  <2>1. Local(a)
    BY <1>12, ProgressIsLocal DEF Progress
  <2>2. method' = method /\ landed \subseteq landed' /\ seen \subseteq seen'
    BY <1>12 DEF SendIcp
  <2>3. outcome[a] \notin Reported
    BY <1>12 DEF SendIcp
  <2>4. step'[a] = "submit" \/ outcome'[a] \in Reported => method = "icp" /\ a \in landed'
    BY <1>12, <2>3 DEF SendIcp, Posts, Goes, Fail, Ends
  <2> QED
    BY <2>1, <2>2, <2>4, PaidKept
<1>13. ASSUME NEW a \in Attempts, SendBtc(a)
    PROVE  PaidBeforeSubmitted'
  <2>1. Local(a)
    BY <1>13, ProgressIsLocal DEF Progress
  <2>2. method' = method /\ landed \subseteq landed' /\ seen \subseteq seen'
    BY <1>13 DEF SendBtc
  <2>3. outcome[a] \notin Reported
    BY <1>13 DEF SendBtc
  <2>4. step'[a] # "submit" /\ outcome'[a] \notin Reported
    BY <1>13, <2>3 DEF SendBtc, Goes, Fail, Ends
  <2> QED
    BY <2>1, <2>2, <2>4, PaidKept
<1>14. ASSUME NEW a \in Attempts, CheckMempool(a)
    PROVE  PaidBeforeSubmitted'
  <2>1. Local(a)
    BY <1>14, ProgressIsLocal DEF Progress
  <2>2. method' = method /\ landed \subseteq landed' /\ seen \subseteq seen'
    BY <1>14 DEF CheckMempool
  <2>3. outcome[a] \notin Reported
    BY <1>14 DEF CheckMempool
  <2>4. step'[a] = "submit" \/ outcome'[a] \in Reported => a \in seen /\ a \in landed
    BY <1>14, <2>3 DEF CheckMempool, IsOnMempool, Posts, Goes, Fail, Ends
  <2> QED
    BY <2>1, <2>2, <2>4, PaidKept
<1>15. ASSUME NEW a \in Attempts, SubmitAnswered(a)
    PROVE  PaidBeforeSubmitted'
  <2>1. Local(a)
    BY <1>15, ProgressIsLocal DEF Progress
  <2>2. step[a] = "submit" /\ UNCHANGED <<method, landed, seen>>
    BY <1>15 DEF SubmitAnswered
  <2> QED
    BY <2>1, <2>2, PaidKept
<1>16. ASSUME NEW a \in Attempts, SubmitFails(a)
    PROVE  PaidBeforeSubmitted'
  <2>1. Local(a)
    BY <1>16, ProgressIsLocal DEF Progress
  <2>2. step[a] = "submit" /\ UNCHANGED <<method, landed, seen>>
    BY <1>16 DEF SubmitFails
  <2> QED
    BY <2>1, <2>2, PaidKept
<1>17. ASSUME NEW a \in Attempts, SubmitTimesOut(a)
    PROVE  PaidBeforeSubmitted'
  <2>1. Local(a)
    BY <1>17, ProgressIsLocal DEF Progress
  <2>2. step[a] = "submit" /\ UNCHANGED <<method, landed, seen>>
    BY <1>17 DEF SubmitTimesOut
  <2> QED
    BY <2>1, <2>2, PaidKept
<1>18. ASSUME NEW a \in Attempts, Deliver(a)
    PROVE  PaidBeforeSubmitted'
  BY <1>18 DEF Deliver, Fault, NoFault
<1>19. ASSUME NEW a \in Attempts, Broadcast(a)
    PROVE  PaidBeforeSubmitted'
  BY <1>19 DEF Broadcast
<1>20. ASSUME NEW a \in Attempts, Appear(a)
    PROVE  PaidBeforeSubmitted'
  BY <1>20 DEF Appear
<1>21. CASE UNCHANGED vars
  BY <1>21
<1> QED
  BY <1>1, <1>2, <1>3, <1>4, <1>5, <1>6, <1>7, <1>8, <1>9, <1>10, <1>11,
    <1>12, <1>13, <1>14, <1>15, <1>16, <1>17, <1>18, <1>19, <1>20, <1>21 DEF
    Next, Progress

\* Activations are kept, and made before a quote is used.
LEMMA ActivatedStep ==
  TypeOK /\ StartedInOrder /\ HoldersBlock /\ QuotesAreActivated /\ [Next]_vars => QuotesAreActivated'
<1> SUFFICES ASSUME TypeOK, StartedInOrder, HoldersBlock, QuotesAreActivated, [Next]_vars
             PROVE  QuotesAreActivated'
  OBVIOUS
<1> USE PaymentAssumption DEF vars, modal, about, attempts, merchant, chains,
  network, Pages, Attempts, Quotes, Steps, Reported, Failures, TypeOK,
  ModalTypes, AttemptTypes, MerchantTypes, WireTypes, ChainTypes, FaultTypes,
  StartedInOrder, QuotesAreActivated
<1>1. ASSUME Open
    PROVE  QuotesAreActivated'
  BY <1>1 DEF Open
<1>2. ASSUME Close
    PROVE  QuotesAreActivated'
  BY <1>2 DEF Close
<1>3. ASSUME PayDetails
    PROVE  QuotesAreActivated'
  BY <1>3 DEF PayDetails
<1>4. ASSUME PayQuote
    PROVE  QuotesAreActivated'
  BY <1>4 DEF PayQuote, Activate
<1>5. ASSUME Submit
    PROVE  QuotesAreActivated'
  <2> DEFINE s == started + 1
  <2>1. Starts(s) /\ UNCHANGED <<dfx, payData, activated, wire, delivered>>
    BY <1>5, SubmitStarts DEF Submit
  <2>2. dfx => quote'[s] \in activated
    BY <2>1 DEF Starts
  <2>3. \A b \in Attempts \ {s} : quote'[b] = quote[b]
    BY <2>1 DEF Starts
  <2>4. dfx => \A b \in wire \cup delivered : b <= started /\ b \in Nat
    OBVIOUS
  <2>5. dfx => \A b \in wire \cup delivered : b <= started'
    <3>1. started' = started + 1 /\ started \in Nat
      BY <2>1 DEF Starts
    <3>2. \A b \in Nat : b <= started => b <= started + 1
      BY <3>1
    <3> QED
      BY <2>4, <3>1, <3>2
  <2>6. dfx' => \A p \in Pages : payData'[p] # 0 => payData'[p] \in activated'
    BY <2>1
  <2>7. dfx' => \A b \in Attempts : quote'[b] # 0 => quote'[b] \in activated'
    BY <2>1, <2>2, <2>3
  <2> HIDE DEF QuotesAreActivated, s
  <2> QED
    BY <2>1, <2>5, <2>6, <2>7 DEF QuotesAreActivated
<1>6. ASSUME Rotate
    PROVE  QuotesAreActivated'
  BY <1>6 DEF Rotate
<1>7. ASSUME NEW a \in Attempts, RefreshDetails(a)
    PROVE  QuotesAreActivated'
  BY <1>7 DEF RefreshDetails, Judge, Goes, Fault, NoFault
<1>8. ASSUME NEW a \in Attempts, RefreshQuote(a)
    PROVE  QuotesAreActivated'
  <2>1. Local(a)
    BY <1>8, ProgressIsLocal DEF Progress
  <2>2. UNCHANGED <<dfx, payData, started, wire, delivered>>
    BY <1>8 DEF RefreshQuote
  <2>3. CASE ~dfx
    BY <2>2, <2>3
  <2>4. CASE dfx
    <3>1. activated \subseteq activated'
      BY <1>8 DEF RefreshQuote, Activate
    <3>2. quote'[a] \in activated'
      <4>1. CASE quote' = [quote EXCEPT ![a] = named[a]]
                   /\ activated' = activated \cup {named[a]}
        BY <4>1, <2>1 DEF Local
      <4>2. CASE quote' = quote
        BY <4>2, <2>1, <2>4, <3>1 DEF Local
      <4> QED  BY <1>8, <2>4, <4>1, <4>2 DEF RefreshQuote, Activate
    <3>3. \A b \in Attempts : quote'[b] # 0 => quote'[b] \in activated'
      <4> SUFFICES ASSUME NEW b \in Attempts, quote'[b] # 0
                   PROVE  quote'[b] \in activated'
        OBVIOUS
      <4>1. CASE b = a
        BY <4>1, <3>2
      <4>2. CASE b # a
        BY <4>2, <2>1, <2>4, <3>1 DEF Local
      <4> QED  BY <4>1, <4>2
    <3> QED  BY <2>2, <2>4, <3>1, <3>3
  <2> QED  BY <2>3, <2>4
<1>9. ASSUME NEW a \in Attempts, Balance(a)
    PROVE  QuotesAreActivated'
  BY <1>9 DEF Balance, Goes, Fail, Ends, Release, Fault, NoFault
<1>10. ASSUME NEW a \in Attempts, Fee(a)
    PROVE  QuotesAreActivated'
  BY <1>10 DEF Fee, Goes, Fail, Ends, Release, Fault, NoFault
<1>11. ASSUME NEW a \in Attempts, SignEvm(a)
    PROVE  QuotesAreActivated'
  <2>1. UNCHANGED <<dfx, payData, started, quote, activated, delivered>>
    BY <1>11 DEF SignEvm, Posts, Fail
  <2>2. wire' \subseteq wire \cup {a}
    BY <1>11 DEF SignEvm, Posts
  <2>3. a <= started
    BY <1>11 DEF SignEvm
  <2> QED  BY <2>1, <2>2, <2>3
<1>12. ASSUME NEW a \in Attempts, SendIcp(a)
    PROVE  QuotesAreActivated'
  <2>1. UNCHANGED <<dfx, payData, started, quote, activated, delivered>>
    BY <1>12 DEF SendIcp, Posts, Fail
  <2>2. wire' \subseteq wire \cup {a}
    BY <1>12 DEF SendIcp, Posts
  <2>3. a <= started
    BY <1>12 DEF SendIcp
  <2> QED  BY <2>1, <2>2, <2>3
<1>13. ASSUME NEW a \in Attempts, SendBtc(a)
    PROVE  QuotesAreActivated'
  BY <1>13 DEF SendBtc, Goes, Fail, Ends, Release, Fault, NoFault
<1>14. ASSUME NEW a \in Attempts, CheckMempool(a)
    PROVE  QuotesAreActivated'
  <2>1. UNCHANGED <<dfx, payData, started, quote, activated, delivered>>
    BY <1>14 DEF CheckMempool, Posts, Fail
  <2>2. wire' \subseteq wire \cup {a}
    BY <1>14 DEF CheckMempool, Posts
  <2>3. a <= started
    BY <1>14 DEF CheckMempool
  <2> QED  BY <2>1, <2>2, <2>3
<1>15. ASSUME NEW a \in Attempts, SubmitAnswered(a)
    PROVE  QuotesAreActivated'
  BY <1>15 DEF SubmitAnswered, Succeed, Fail, Ends, Release, Fault, NoFault
<1>16. ASSUME NEW a \in Attempts, SubmitFails(a)
    PROVE  QuotesAreActivated'
  BY <1>16 DEF SubmitFails, Fail, Ends, Release, Fault, NoFault
<1>17. ASSUME NEW a \in Attempts, SubmitTimesOut(a)
    PROVE  QuotesAreActivated'
  BY <1>17 DEF SubmitTimesOut, Fail, Ends, Release
<1>18. ASSUME NEW a \in Attempts, Deliver(a)
    PROVE  QuotesAreActivated'
  BY <1>18 DEF Deliver, Fault, NoFault
<1>19. ASSUME NEW a \in Attempts, Broadcast(a)
    PROVE  QuotesAreActivated'
  BY <1>19 DEF Broadcast
<1>20. ASSUME NEW a \in Attempts, Appear(a)
    PROVE  QuotesAreActivated'
  BY <1>20 DEF Appear
<1>21. CASE UNCHANGED vars
  BY <1>21
<1> QED
  BY <1>1, <1>2, <1>3, <1>4, <1>5, <1>6, <1>7, <1>8, <1>9, <1>10, <1>11,
    <1>12, <1>13, <1>14, <1>15, <1>16, <1>17, <1>18, <1>19, <1>20, <1>21 DEF
    Next, Progress

-----------------------------------------------------------------------------
(* The theorems *)

LEMMA InitInv == Init => IInv
<1> SUFFICES ASSUME Init PROVE IInv
  OBVIOUS
<1> USE PaymentAssumption DEF Init, Pages, Attempts, Quotes, Steps, Reported,
  Failures
<1>1. TypeOK
  BY DEF TypeOK, ModalTypes, AttemptTypes, MerchantTypes, WireTypes,
    ChainTypes, FaultTypes
<1>2. StartedInOrder
  BY DEF StartedInOrder
<1>3. HoldersBlock
  BY DEF HoldersBlock, Holds
<1>4. PageAttemptsInTurn
  BY DEF PageAttemptsInTurn, Of
<1>5. PaidBeforeSubmitted
  BY DEF PaidBeforeSubmitted
<1>6. QuotesAreActivated
  BY DEF QuotesAreActivated
<1> QED  BY <1>1, <1>2, <1>3, <1>4, <1>5, <1>6 DEF IInv

LEMMA NextInv == IInv /\ [Next]_vars => IInv'
BY TypeStep, StartedStep, HoldersStep, InTurnStep, PaidStep, ActivatedStep
  DEF IInv

THEOREM Invariant == Spec => []IInv
BY InitInv, NextInv, PTL DEF Spec

\* The type invariant.
THEOREM TypeCorrect == Spec => []TypeOK
<1>1. IInv => TypeOK
  BY DEF IInv
<1> QED  BY <1>1, Invariant, PTL

\* isSubmittingRef lets the attempts of a modal run one after the other only,
\* and none after a timeout, for any number of modals and attempts.
THEOREM AttemptsInTurn == Spec => []PageAttemptsInTurn
<1>1. IInv => PageAttemptsInTurn
  BY DEF IInv
<1> QED  BY <1>1, Invariant, PTL

\* What is shown as paid with bitcoin or ICP is paid, also after a timeout.
THEOREM CompletedIsPaid == Spec => []CompletedMeansPaid
<1>1. IInv => CompletedMeansPaid
  BY DEF IInv, PaidBeforeSubmitted, CompletedMeansPaid
<1> QED  BY <1>1, Invariant, PTL

\* Rotations and failed refreshes never separate a submission from the
\* activation of its quote.
THEOREM SubmissionsHaveActivations == Spec => []SubmitsUnderItsActivation
<1>1. IInv => SubmitsUnderItsActivation
  <2> SUFFICES ASSUME IInv, dfx, NEW a \in wire \cup delivered
               PROVE  quote[a] \in activated
    BY DEF SubmitsUnderItsActivation
  <2>1. a \in Attempts
    BY DEF IInv, TypeOK, WireTypes
  <2>2. a <= started /\ quote[a] # 0
    BY <2>1 DEF IInv, QuotesAreActivated, StartedInOrder
  <2> QED  BY <2>1, <2>2 DEF IInv, QuotesAreActivated
<1> QED  BY <1>1, Invariant, PTL

\* Only Fee lets an attempt go on to its send.
LEMMA OnlyFeeSends ==
  ASSUME IInv, [Next]_vars, NEW b \in Attempts, method = "btc",
         step[b] = "fee", step'[b] = "send"
  PROVE  HasConfirmations
<1>1. TypeOK /\ StartedInOrder /\ HoldersBlock
  BY DEF IInv
<1>2. CASE step' = step
  BY <1>2
<1>3. CASE Submit
  BY <1>1, <1>3, SubmitStarts DEF Starts
<1>4. ASSUME NEW c \in Attempts, Progress(c)
      PROVE  HasConfirmations
  <2>1. Local(c)
    BY <1>1, <1>4, ProgressIsLocal
  <2>2. c = b
    BY <2>1 DEF Local
  <2>3. Fee(b)
    BY <1>4, <2>2 DEF Progress, RefreshDetails, RefreshQuote, Balance, SignEvm,
      SendIcp, SendBtc, CheckMempool, SubmitAnswered, SubmitFails,
      SubmitTimesOut
  <2> QED
    BY <1>1, <2>3 DEF Fee, Fail, Ends, TypeOK, AttemptTypes
<1> QED
  BY <1>2, <1>3, <1>4 DEF Next, vars, attempts, Open, Close, PayDetails,
    PayQuote, Rotate, Deliver, Broadcast, Appear

\* A bitcoin payment starts only when those reported as made are confirmed.
THEOREM BtcWaits == Spec => BtcWaitsForConfirmations
<1> DEFINE Waits ==
      \A a, b \in Attempts :
        (method = "btc" /\ step[b] = "fee" /\ step'[b] = "send"
           /\ outcome[a] \in Reported)
          => a \in confirmed
<1>1. IInv /\ [Next]_vars => Waits
  <2> SUFFICES ASSUME IInv, [Next]_vars, NEW a \in Attempts, NEW b \in Attempts,
                      method = "btc", step[b] = "fee", step'[b] = "send",
                      outcome[a] \in Reported
               PROVE  a \in confirmed
    OBVIOUS
  <2>1. a \in seen
    BY DEF IInv, PaidBeforeSubmitted
  <2> QED  BY <2>1, OnlyFeeSends DEF HasConfirmations
<1>2. IInv /\ [Next]_vars => [Waits]_vars
  BY <1>1
<1> QED  BY <1>2, Invariant, PTL DEF Spec, BtcWaitsForConfirmations

=============================================================================
