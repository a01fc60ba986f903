------------------------ MODULE IdentityKitRPCProofs ------------------------
(***************************************************************************)
(* What IdentityKitRPC promises, proved for any number of requests, users,  *)
(* failures and sign-outs.                                                  *)
(***************************************************************************)
EXTENDS IdentityKitRPC, SequenceTheorems, TLAPS

\* The states in which a request that asks the user is served.
InteractiveStates ==
    {"CheckAuthentication", "Authenticate", "PrepareComponentData",
     "PromptInteractiveRequest", "CancelInteractiveRequest",
     "ExecuteInteractiveRequest", "Error"}

\* The state of the machine fits the request it serves.
Coherent ==
    /\ state \in InteractiveStates =>
          activeRequest.method \in InteractiveMethods /\ metadata = "interactive"
    /\ state = "ExecuteSilentRequest" => activeRequest.method \in SilentMethods
    /\ state = "SendResponse" => output # None
    /\ state \notin {"ExecuteInteractiveRequest", "Stopped"} => stage = "start"

\* The approval a running execution uses is not used up by an earlier call, and
\* an answer on its way to the dApp is earned.
Approved ==
    /\ state = "ExecuteInteractiveRequest" =>
          /\ approvals > 0
          /\ stage # "performed" => performed < approvals
          /\ stage = "performed" => performed > 0
    /\ state = "SendResponse" /\ output = "result" =>
          /\ activeRequest.method \in InteractiveMethods => approvals > 0
          /\ activeRequest.method = "call" => performed > 0

IInv ==
    /\ TypeOK
    /\ Coherent
    /\ PromptShowsItsRequest
    /\ NothingLost
    /\ Approved
    /\ CallsAreApproved
    /\ ResultsAreEarned

-----------------------------------------------------------------------------
(* Steps within one request *)

\* A step that neither receives nor answers a request leaves every request in
\* its place and every answer as it is.
LEMMA WithinRequest ==
  ASSUME IInv,
         UNCHANGED <<requestsQueue, activeRequest, received, answered>>,
         TypeOK', Coherent', PromptShowsItsRequest', Approved',
         performed' <= approvals'
  PROVE  IInv'
<1>1. NothingLost'
  BY DEF IInv, NothingLost
<1>2. CallsAreApproved' /\ ResultsAreEarned'
  BY DEF IInv, CallsAreApproved, ResultsAreEarned
<1> QED BY <1>1, <1>2 DEF IInv

(* Validation *)

LEMMA ValidateDoneKeeps == ASSUME IInv, ValidateDone PROVE IInv'
<1>1. live' \in BOOLEAN
  BY DEF IInv, TypeOK, ValidateDone, runVars, sessionVars, ledgerVars, boundVars
<1>2. TypeOK' /\ Coherent'
  BY <1>1, RPCAssumption, NoneAssumption DEF IInv, TypeOK, Coherent, PromptShowsItsRequest, Bodies, MainStates, InteractiveStates, SilentMethods, InteractiveMethods, Methods, ValidateDone, runVars, sessionVars, ledgerVars, boundVars
<1>3. PromptShowsItsRequest'
  BY NoneAssumption DEF IInv, TypeOK, PromptShowsItsRequest, ValidateDone, runVars, sessionVars, ledgerVars, boundVars
<1>4. Approved' /\ performed' <= approvals'
  BY NoneAssumption DEF IInv, TypeOK, Coherent, Approved, CallsAreApproved, Bodies, MainStates, InteractiveStates, SilentMethods, InteractiveMethods, ValidateDone, runVars, sessionVars, ledgerVars, boundVars
<1>5. UNCHANGED <<requestsQueue, activeRequest, received, answered>>
  BY DEF ValidateDone, runVars, sessionVars, ledgerVars, boundVars
<1> QED BY <1>2, <1>3, <1>4, <1>5, WithinRequest

LEMMA ValidateFailsKeeps == ASSUME IInv, ValidateFails PROVE IInv'
<1>1. live' \in BOOLEAN
  BY DEF IInv, TypeOK, ValidateFails, runVars, sessionVars, ledgerVars, Fault, NoFault
<1>2. TypeOK' /\ Coherent'
  BY <1>1, RPCAssumption, NoneAssumption DEF IInv, TypeOK, Coherent, PromptShowsItsRequest, Bodies, MainStates, InteractiveStates, SilentMethods, InteractiveMethods, Methods, ValidateFails, runVars, sessionVars, ledgerVars, Fault, NoFault
<1>3. PromptShowsItsRequest'
  BY NoneAssumption DEF IInv, TypeOK, PromptShowsItsRequest, ValidateFails, runVars, sessionVars, ledgerVars, Fault, NoFault
<1>4. Approved' /\ performed' <= approvals'
  BY NoneAssumption DEF IInv, TypeOK, Coherent, Approved, CallsAreApproved, Bodies, MainStates, InteractiveStates, SilentMethods, InteractiveMethods, ValidateFails, runVars, sessionVars, ledgerVars, Fault, NoFault
<1>5. UNCHANGED <<requestsQueue, activeRequest, received, answered>>
  BY DEF ValidateFails, runVars, sessionVars, ledgerVars, Fault, NoFault
<1> QED BY <1>2, <1>3, <1>4, <1>5, WithinRequest

LEMMA ExecuteSilentDoneKeeps == ASSUME IInv, ExecuteSilentDone PROVE IInv'
<1>1. live' \in BOOLEAN
  BY DEF IInv, TypeOK, ExecuteSilentDone, runVars, sessionVars, ledgerVars, boundVars
<1>2. TypeOK' /\ Coherent'
  BY <1>1, RPCAssumption, NoneAssumption DEF IInv, TypeOK, Coherent, PromptShowsItsRequest, Bodies, MainStates, InteractiveStates, SilentMethods, InteractiveMethods, Methods, ExecuteSilentDone, runVars, sessionVars, ledgerVars, boundVars
<1>3. PromptShowsItsRequest'
  BY NoneAssumption DEF IInv, TypeOK, PromptShowsItsRequest, ExecuteSilentDone, runVars, sessionVars, ledgerVars, boundVars
<1>4. Approved' /\ performed' <= approvals'
  BY NoneAssumption DEF IInv, TypeOK, Coherent, Approved, CallsAreApproved, Bodies, MainStates, InteractiveStates, SilentMethods, InteractiveMethods, ExecuteSilentDone, runVars, sessionVars, ledgerVars, boundVars
<1>5. UNCHANGED <<requestsQueue, activeRequest, received, answered>>
  BY DEF ExecuteSilentDone, runVars, sessionVars, ledgerVars, boundVars
<1> QED BY <1>2, <1>3, <1>4, <1>5, WithinRequest

LEMMA ExecuteSilentFailsKeeps == ASSUME IInv, ExecuteSilentFails PROVE IInv'
<1>1. live' \in BOOLEAN
  BY DEF IInv, TypeOK, ExecuteSilentFails, runVars, sessionVars, ledgerVars, Fault
<1>2. TypeOK' /\ Coherent'
  BY <1>1, RPCAssumption, NoneAssumption DEF IInv, TypeOK, Coherent, PromptShowsItsRequest, Bodies, MainStates, InteractiveStates, SilentMethods, InteractiveMethods, Methods, ExecuteSilentFails, runVars, sessionVars, ledgerVars, Fault
<1>3. PromptShowsItsRequest'
  BY NoneAssumption DEF IInv, TypeOK, PromptShowsItsRequest, ExecuteSilentFails, runVars, sessionVars, ledgerVars, Fault
<1>4. Approved' /\ performed' <= approvals'
  BY NoneAssumption DEF IInv, TypeOK, Coherent, Approved, CallsAreApproved, Bodies, MainStates, InteractiveStates, SilentMethods, InteractiveMethods, ExecuteSilentFails, runVars, sessionVars, ledgerVars, Fault
<1>5. UNCHANGED <<requestsQueue, activeRequest, received, answered>>
  BY DEF ExecuteSilentFails, runVars, sessionVars, ledgerVars, Fault
<1> QED BY <1>2, <1>3, <1>4, <1>5, WithinRequest

(* Authentication *)

LEMMA CheckPassesKeeps == ASSUME IInv, CheckPasses PROVE IInv'
<1>1. live' \in BOOLEAN
  BY DEF IInv, TypeOK, CheckPasses, runVars, sessionVars, ledgerVars, boundVars, SignedIn
<1>2. TypeOK' /\ Coherent'
  BY <1>1, RPCAssumption, NoneAssumption DEF IInv, TypeOK, Coherent, PromptShowsItsRequest, Bodies, MainStates, InteractiveStates, SilentMethods, InteractiveMethods, Methods, CheckPasses, runVars, sessionVars, ledgerVars, boundVars, SignedIn
<1>3. PromptShowsItsRequest'
  BY NoneAssumption DEF IInv, TypeOK, PromptShowsItsRequest, CheckPasses, runVars, sessionVars, ledgerVars, boundVars, SignedIn
<1>4. Approved' /\ performed' <= approvals'
  BY NoneAssumption DEF IInv, TypeOK, Coherent, Approved, CallsAreApproved, Bodies, MainStates, InteractiveStates, SilentMethods, InteractiveMethods, CheckPasses, runVars, sessionVars, ledgerVars, boundVars, SignedIn
<1>5. UNCHANGED <<requestsQueue, activeRequest, received, answered>>
  BY DEF CheckPasses, runVars, sessionVars, ledgerVars, boundVars, SignedIn
<1> QED BY <1>2, <1>3, <1>4, <1>5, WithinRequest

LEMMA CheckFailsKeeps == ASSUME IInv, CheckFails PROVE IInv'
<1>1. live' \in BOOLEAN
  BY DEF IInv, TypeOK, CheckFails, runVars, ledgerVars, boundVars, get, SignedIn
<1>2. TypeOK' /\ Coherent'
  BY <1>1, RPCAssumption, NoneAssumption DEF IInv, TypeOK, Coherent, PromptShowsItsRequest, Bodies, MainStates, InteractiveStates, SilentMethods, InteractiveMethods, Methods, CheckFails, runVars, ledgerVars, boundVars, get, SignedIn
<1>3. PromptShowsItsRequest'
  BY NoneAssumption DEF IInv, TypeOK, PromptShowsItsRequest, CheckFails, runVars, ledgerVars, boundVars, get, SignedIn
<1>4. Approved' /\ performed' <= approvals'
  BY NoneAssumption DEF IInv, TypeOK, Coherent, Approved, CallsAreApproved, Bodies, MainStates, InteractiveStates, SilentMethods, InteractiveMethods, CheckFails, runVars, ledgerVars, boundVars, get, SignedIn
<1>5. UNCHANGED <<requestsQueue, activeRequest, received, answered>>
  BY DEF CheckFails, runVars, ledgerVars, boundVars, get, SignedIn
<1> QED BY <1>2, <1>3, <1>4, <1>5, WithinRequest

LEMMA AuthenticatedKeeps == ASSUME IInv, Authenticated PROVE IInv'
<1>1. live' \in BOOLEAN
  BY DEF IInv, TypeOK, Authenticated, runVars, ledgerVars, boundVars
<1>2. TypeOK' /\ Coherent'
  BY <1>1, RPCAssumption, NoneAssumption DEF IInv, TypeOK, Coherent, PromptShowsItsRequest, Bodies, MainStates, InteractiveStates, SilentMethods, InteractiveMethods, Methods, Authenticated, runVars, ledgerVars, boundVars
<1>3. PromptShowsItsRequest'
  BY NoneAssumption DEF IInv, TypeOK, PromptShowsItsRequest, Authenticated, runVars, ledgerVars, boundVars
<1>4. Approved' /\ performed' <= approvals'
  BY NoneAssumption DEF IInv, TypeOK, Coherent, Approved, CallsAreApproved, Bodies, MainStates, InteractiveStates, SilentMethods, InteractiveMethods, Authenticated, runVars, ledgerVars, boundVars
<1>5. UNCHANGED <<requestsQueue, activeRequest, received, answered>>
  BY DEF Authenticated, runVars, ledgerVars, boundVars
<1> QED BY <1>2, <1>3, <1>4, <1>5, WithinRequest

LEMMA AuthenticationFailsKeeps == ASSUME IInv, AuthenticationFails PROVE IInv'
<1>1. live' \in BOOLEAN
  BY DEF IInv, TypeOK, AuthenticationFails, runVars, sessionVars, ledgerVars, Fault
<1>2. TypeOK' /\ Coherent'
  BY <1>1, RPCAssumption, NoneAssumption DEF IInv, TypeOK, Coherent, PromptShowsItsRequest, Bodies, MainStates, InteractiveStates, SilentMethods, InteractiveMethods, Methods, AuthenticationFails, runVars, sessionVars, ledgerVars, Fault
<1>3. PromptShowsItsRequest'
  BY NoneAssumption DEF IInv, TypeOK, PromptShowsItsRequest, AuthenticationFails, runVars, sessionVars, ledgerVars, Fault
<1>4. Approved' /\ performed' <= approvals'
  BY NoneAssumption DEF IInv, TypeOK, Coherent, Approved, CallsAreApproved, Bodies, MainStates, InteractiveStates, SilentMethods, InteractiveMethods, AuthenticationFails, runVars, sessionVars, ledgerVars, Fault
<1>5. UNCHANGED <<requestsQueue, activeRequest, received, answered>>
  BY DEF AuthenticationFails, runVars, sessionVars, ledgerVars, Fault
<1> QED BY <1>2, <1>3, <1>4, <1>5, WithinRequest

(* Prompting *)

LEMMA PrepareDoneKeeps == ASSUME IInv, PrepareDone PROVE IInv'
<1>1. /\ componentData' \in [request : Nat, user : Users]
      /\ componentData' # None
      /\ componentData'.request = activeRequest.id
  BY NoneAssumption DEF IInv, TypeOK, Requests, PrepareDone, CanServe, SignedIn
<1>2. /\ state = "PrepareComponentData" /\ state' = "PromptInteractiveRequest"
      /\ UNCHANGED <<requestsQueue, activeRequest, metadata, output, stage, signer, session, live,
                     renewing, setting, connected, received, answered, approvals, performed,
                     faults, lapses>>
  BY DEF PrepareDone, runVars, sessionVars, ledgerVars, boundVars
<1>3. TypeOK' /\ Coherent'
  BY <1>1, <1>2 DEF IInv, TypeOK, Coherent, MainStates, InteractiveStates
<1>4. PromptShowsItsRequest'
  BY <1>1, <1>2 DEF PromptShowsItsRequest
<1>5. Approved' /\ performed' <= approvals'
  BY <1>2 DEF IInv, TypeOK, Approved, CallsAreApproved
<1> QED BY <1>2, <1>3, <1>4, <1>5, WithinRequest

LEMMA PrepareFailsKeeps == ASSUME IInv, PrepareFails PROVE IInv'
<1>1. live' \in BOOLEAN
  BY DEF IInv, TypeOK, PrepareFails, runVars, ledgerVars, Fault, NoFault, get, CanServe, SignedIn
<1>2. TypeOK' /\ Coherent'
  BY <1>1, RPCAssumption, NoneAssumption DEF IInv, TypeOK, Coherent, PromptShowsItsRequest, Bodies, MainStates, InteractiveStates, SilentMethods, InteractiveMethods, Methods, PrepareFails, runVars, ledgerVars, Fault, NoFault, get, CanServe, SignedIn
<1>3. PromptShowsItsRequest'
  BY NoneAssumption DEF IInv, TypeOK, PromptShowsItsRequest, PrepareFails, runVars, ledgerVars, Fault, NoFault, get, CanServe, SignedIn
<1>4. Approved' /\ performed' <= approvals'
  BY NoneAssumption DEF IInv, TypeOK, Coherent, Approved, CallsAreApproved, Bodies, MainStates, InteractiveStates, SilentMethods, InteractiveMethods, PrepareFails, runVars, ledgerVars, Fault, NoFault, get, CanServe, SignedIn
<1>5. UNCHANGED <<requestsQueue, activeRequest, received, answered>>
  BY DEF PrepareFails, runVars, ledgerVars, Fault, NoFault, get, CanServe, SignedIn
<1> QED BY <1>2, <1>3, <1>4, <1>5, WithinRequest

LEMMA OnApproveKeeps == ASSUME IInv, OnApprove PROVE IInv'
<1>1. live' \in BOOLEAN
  BY DEF IInv, TypeOK, OnApprove, sessionVars, boundVars
<1>2. TypeOK' /\ Coherent'
  BY <1>1, RPCAssumption, NoneAssumption DEF IInv, TypeOK, Coherent, PromptShowsItsRequest, Bodies, MainStates, InteractiveStates, SilentMethods, InteractiveMethods, Methods, OnApprove, sessionVars, boundVars
<1>3. PromptShowsItsRequest'
  BY NoneAssumption DEF IInv, TypeOK, PromptShowsItsRequest, OnApprove, sessionVars, boundVars
<1>4. Approved' /\ performed' <= approvals'
  BY NoneAssumption DEF IInv, TypeOK, Coherent, Approved, CallsAreApproved, Bodies, MainStates, InteractiveStates, SilentMethods, InteractiveMethods, OnApprove, sessionVars, boundVars
<1>5. UNCHANGED <<requestsQueue, activeRequest, received, answered>>
  BY DEF OnApprove, sessionVars, boundVars
<1> QED BY <1>2, <1>3, <1>4, <1>5, WithinRequest

LEMMA OnCancelKeeps == ASSUME IInv, OnCancel PROVE IInv'
<1>1. live' \in BOOLEAN
  BY DEF IInv, TypeOK, OnCancel, runVars, sessionVars, ledgerVars, boundVars
<1>2. TypeOK' /\ Coherent'
  BY <1>1, RPCAssumption, NoneAssumption DEF IInv, TypeOK, Coherent, PromptShowsItsRequest, Bodies, MainStates, InteractiveStates, SilentMethods, InteractiveMethods, Methods, OnCancel, runVars, sessionVars, ledgerVars, boundVars
<1>3. PromptShowsItsRequest'
  BY NoneAssumption DEF IInv, TypeOK, PromptShowsItsRequest, OnCancel, runVars, sessionVars, ledgerVars, boundVars
<1>4. Approved' /\ performed' <= approvals'
  BY NoneAssumption DEF IInv, TypeOK, Coherent, Approved, CallsAreApproved, Bodies, MainStates, InteractiveStates, SilentMethods, InteractiveMethods, OnCancel, runVars, sessionVars, ledgerVars, boundVars
<1>5. UNCHANGED <<requestsQueue, activeRequest, received, answered>>
  BY DEF OnCancel, runVars, sessionVars, ledgerVars, boundVars
<1> QED BY <1>2, <1>3, <1>4, <1>5, WithinRequest

LEMMA OnBackKeeps == ASSUME IInv, OnBack PROVE IInv'
<1>1. live' \in BOOLEAN
  BY DEF IInv, TypeOK, OnBack, runVars, ledgerVars, logout
<1>2. TypeOK' /\ Coherent'
  BY <1>1, RPCAssumption, NoneAssumption DEF IInv, TypeOK, Coherent, PromptShowsItsRequest, Bodies, MainStates, InteractiveStates, SilentMethods, InteractiveMethods, Methods, OnBack, runVars, ledgerVars, logout
<1>3. PromptShowsItsRequest'
  BY NoneAssumption DEF IInv, TypeOK, PromptShowsItsRequest, OnBack, runVars, ledgerVars, logout
<1>4. Approved' /\ performed' <= approvals'
  BY NoneAssumption DEF IInv, TypeOK, Coherent, Approved, CallsAreApproved, Bodies, MainStates, InteractiveStates, SilentMethods, InteractiveMethods, OnBack, runVars, ledgerVars, logout
<1>5. UNCHANGED <<requestsQueue, activeRequest, received, answered>>
  BY DEF OnBack, runVars, ledgerVars, logout
<1> QED BY <1>2, <1>3, <1>4, <1>5, WithinRequest

LEMMA TryAgainKeeps == ASSUME IInv, TryAgain PROVE IInv'
<1>1. live' \in BOOLEAN
  BY DEF IInv, TypeOK, TryAgain, runVars, sessionVars, ledgerVars, boundVars
<1>2. TypeOK' /\ Coherent'
  BY <1>1, RPCAssumption, NoneAssumption DEF IInv, TypeOK, Coherent, PromptShowsItsRequest, Bodies, MainStates, InteractiveStates, SilentMethods, InteractiveMethods, Methods, TryAgain, runVars, sessionVars, ledgerVars, boundVars
<1>3. PromptShowsItsRequest'
  BY NoneAssumption DEF IInv, TypeOK, PromptShowsItsRequest, TryAgain, runVars, sessionVars, ledgerVars, boundVars
<1>4. Approved' /\ performed' <= approvals'
  BY NoneAssumption DEF IInv, TypeOK, Coherent, Approved, CallsAreApproved, Bodies, MainStates, InteractiveStates, SilentMethods, InteractiveMethods, TryAgain, runVars, sessionVars, ledgerVars, boundVars
<1>5. UNCHANGED <<requestsQueue, activeRequest, received, answered>>
  BY DEF TryAgain, runVars, sessionVars, ledgerVars, boundVars
<1> QED BY <1>2, <1>3, <1>4, <1>5, WithinRequest

LEMMA CancelDoneKeeps == ASSUME IInv, CancelDone PROVE IInv'
<1>1. live' \in BOOLEAN
  BY DEF IInv, TypeOK, CancelDone, runVars, sessionVars, ledgerVars, boundVars
<1>2. TypeOK' /\ Coherent'
  BY <1>1, RPCAssumption, NoneAssumption DEF IInv, TypeOK, Coherent, PromptShowsItsRequest, Bodies, MainStates, InteractiveStates, SilentMethods, InteractiveMethods, Methods, CancelDone, runVars, sessionVars, ledgerVars, boundVars
<1>3. PromptShowsItsRequest'
  BY NoneAssumption DEF IInv, TypeOK, PromptShowsItsRequest, CancelDone, runVars, sessionVars, ledgerVars, boundVars
<1>4. Approved' /\ performed' <= approvals'
  BY NoneAssumption DEF IInv, TypeOK, Coherent, Approved, CallsAreApproved, Bodies, MainStates, InteractiveStates, SilentMethods, InteractiveMethods, CancelDone, runVars, sessionVars, ledgerVars, boundVars
<1>5. UNCHANGED <<requestsQueue, activeRequest, received, answered>>
  BY DEF CancelDone, runVars, sessionVars, ledgerVars, boundVars
<1> QED BY <1>2, <1>3, <1>4, <1>5, WithinRequest

(* Execution *)

LEMMA TakeIdentityKeeps == ASSUME IInv, TakeIdentity PROVE IInv'
<1>1. live' \in BOOLEAN
  BY DEF IInv, TypeOK, TakeIdentity, machineVars, sessionVars, ledgerVars, boundVars, CanServe, SignedIn
<1>2. TypeOK' /\ Coherent'
  BY <1>1, RPCAssumption, NoneAssumption DEF IInv, TypeOK, Coherent, PromptShowsItsRequest, Bodies, MainStates, InteractiveStates, SilentMethods, InteractiveMethods, Methods, TakeIdentity, machineVars, sessionVars, ledgerVars, boundVars, CanServe, SignedIn
<1>3. PromptShowsItsRequest'
  BY NoneAssumption DEF IInv, TypeOK, PromptShowsItsRequest, TakeIdentity, machineVars, sessionVars, ledgerVars, boundVars, CanServe, SignedIn
<1>4. Approved' /\ performed' <= approvals'
  BY NoneAssumption DEF IInv, TypeOK, Coherent, Approved, CallsAreApproved, Bodies, MainStates, InteractiveStates, SilentMethods, InteractiveMethods, TakeIdentity, machineVars, sessionVars, ledgerVars, boundVars, CanServe, SignedIn
<1>5. UNCHANGED <<requestsQueue, activeRequest, received, answered>>
  BY DEF TakeIdentity, machineVars, sessionVars, ledgerVars, boundVars, CanServe, SignedIn
<1> QED BY <1>2, <1>3, <1>4, <1>5, WithinRequest

LEMMA PerformCallKeeps == ASSUME IInv, PerformCall PROVE IInv'
<1>1. live' \in BOOLEAN
  BY DEF IInv, TypeOK, PerformCall, machineVars, sessionVars, boundVars
<1>2. TypeOK' /\ Coherent'
  BY <1>1, RPCAssumption, NoneAssumption DEF IInv, TypeOK, Coherent, PromptShowsItsRequest, Bodies, MainStates, InteractiveStates, SilentMethods, InteractiveMethods, Methods, PerformCall, machineVars, sessionVars, boundVars
<1>3. PromptShowsItsRequest'
  BY NoneAssumption DEF IInv, TypeOK, PromptShowsItsRequest, PerformCall, machineVars, sessionVars, boundVars
<1>4. Approved' /\ performed' <= approvals'
  BY NoneAssumption DEF IInv, TypeOK, Coherent, Approved, CallsAreApproved, Bodies, MainStates, InteractiveStates, SilentMethods, InteractiveMethods, PerformCall, machineVars, sessionVars, boundVars
<1>5. UNCHANGED <<requestsQueue, activeRequest, received, answered>>
  BY DEF PerformCall, machineVars, sessionVars, boundVars
<1> QED BY <1>2, <1>3, <1>4, <1>5, WithinRequest

LEMMA ExecuteDoneKeeps == ASSUME IInv, ExecuteDone PROVE IInv'
<1>1. live' \in BOOLEAN
  BY DEF IInv, TypeOK, ExecuteDone, sessionVars, ledgerVars, boundVars
<1>2. TypeOK' /\ Coherent'
  BY <1>1, RPCAssumption, NoneAssumption DEF IInv, TypeOK, Coherent, PromptShowsItsRequest, Bodies, MainStates, InteractiveStates, SilentMethods, InteractiveMethods, Methods, ExecuteDone, sessionVars, ledgerVars, boundVars
<1>3. PromptShowsItsRequest'
  BY NoneAssumption DEF IInv, TypeOK, PromptShowsItsRequest, ExecuteDone, sessionVars, ledgerVars, boundVars
<1>4. Approved' /\ performed' <= approvals'
  BY NoneAssumption DEF IInv, TypeOK, Coherent, Approved, CallsAreApproved, Bodies, MainStates, InteractiveStates, SilentMethods, InteractiveMethods, ExecuteDone, sessionVars, ledgerVars, boundVars
<1>5. UNCHANGED <<requestsQueue, activeRequest, received, answered>>
  BY DEF ExecuteDone, sessionVars, ledgerVars, boundVars
<1> QED BY <1>2, <1>3, <1>4, <1>5, WithinRequest

LEMMA ExecuteFailsKeeps == ASSUME IInv, ExecuteFails PROVE IInv'
<1>1. live' \in BOOLEAN
  BY DEF IInv, TypeOK, ExecuteFails, ledgerVars, Fault, NoFault, get, CanServe, SignedIn
<1>2. TypeOK' /\ Coherent'
  BY <1>1, RPCAssumption, NoneAssumption DEF IInv, TypeOK, Coherent, PromptShowsItsRequest, Bodies, MainStates, InteractiveStates, SilentMethods, InteractiveMethods, Methods, ExecuteFails, ledgerVars, Fault, NoFault, get, CanServe, SignedIn
<1>3. PromptShowsItsRequest'
  BY NoneAssumption DEF IInv, TypeOK, PromptShowsItsRequest, ExecuteFails, ledgerVars, Fault, NoFault, get, CanServe, SignedIn
<1>4. Approved' /\ performed' <= approvals'
  BY NoneAssumption DEF IInv, TypeOK, Coherent, Approved, CallsAreApproved, Bodies, MainStates, InteractiveStates, SilentMethods, InteractiveMethods, ExecuteFails, ledgerVars, Fault, NoFault, get, CanServe, SignedIn
<1>5. UNCHANGED <<requestsQueue, activeRequest, received, answered>>
  BY DEF ExecuteFails, ledgerVars, Fault, NoFault, get, CanServe, SignedIn
<1> QED BY <1>2, <1>3, <1>4, <1>5, WithinRequest

(* SessionChange *)

LEMMA IdleKeeps == ASSUME IInv, Idle PROVE IInv'
<1>1. live' \in BOOLEAN
  BY DEF IInv, TypeOK, Idle, machineVars, runVars, ledgerVars, logout
<1>2. TypeOK' /\ Coherent'
  BY <1>1, RPCAssumption, NoneAssumption DEF IInv, TypeOK, Coherent, PromptShowsItsRequest, Bodies, MainStates, InteractiveStates, SilentMethods, InteractiveMethods, Methods, Idle, machineVars, runVars, ledgerVars, logout
<1>3. PromptShowsItsRequest'
  BY NoneAssumption DEF IInv, TypeOK, PromptShowsItsRequest, Idle, machineVars, runVars, ledgerVars, logout
<1>4. Approved' /\ performed' <= approvals'
  BY NoneAssumption DEF IInv, TypeOK, Coherent, Approved, CallsAreApproved, Bodies, MainStates, InteractiveStates, SilentMethods, InteractiveMethods, Idle, machineVars, runVars, ledgerVars, logout
<1>5. UNCHANGED <<requestsQueue, activeRequest, received, answered>>
  BY DEF Idle, machineVars, runVars, ledgerVars, logout
<1> QED BY <1>2, <1>3, <1>4, <1>5, WithinRequest

LEMMA ExpireKeeps == ASSUME IInv, Expire PROVE IInv'
<1>1. live' \in BOOLEAN
  BY DEF IInv, TypeOK, Expire, machineVars, runVars, ledgerVars, SignedIn
<1>2. TypeOK' /\ Coherent'
  BY <1>1, RPCAssumption, NoneAssumption DEF IInv, TypeOK, Coherent, PromptShowsItsRequest, Bodies, MainStates, InteractiveStates, SilentMethods, InteractiveMethods, Methods, Expire, machineVars, runVars, ledgerVars, SignedIn
<1>3. PromptShowsItsRequest'
  BY NoneAssumption DEF IInv, TypeOK, PromptShowsItsRequest, Expire, machineVars, runVars, ledgerVars, SignedIn
<1>4. Approved' /\ performed' <= approvals'
  BY NoneAssumption DEF IInv, TypeOK, Coherent, Approved, CallsAreApproved, Bodies, MainStates, InteractiveStates, SilentMethods, InteractiveMethods, Expire, machineVars, runVars, ledgerVars, SignedIn
<1>5. UNCHANGED <<requestsQueue, activeRequest, received, answered>>
  BY DEF Expire, machineVars, runVars, ledgerVars, SignedIn
<1> QED BY <1>2, <1>3, <1>4, <1>5, WithinRequest

LEMMA GetElsewhereKeeps == ASSUME IInv, GetElsewhere PROVE IInv'
<1>1. live' \in BOOLEAN
  BY DEF IInv, TypeOK, GetElsewhere, machineVars, runVars, ledgerVars, boundVars, get
<1>2. TypeOK' /\ Coherent'
  BY <1>1, RPCAssumption, NoneAssumption DEF IInv, TypeOK, Coherent, PromptShowsItsRequest, Bodies, MainStates, InteractiveStates, SilentMethods, InteractiveMethods, Methods, GetElsewhere, machineVars, runVars, ledgerVars, boundVars, get
<1>3. PromptShowsItsRequest'
  BY NoneAssumption DEF IInv, TypeOK, PromptShowsItsRequest, GetElsewhere, machineVars, runVars, ledgerVars, boundVars, get
<1>4. Approved' /\ performed' <= approvals'
  BY NoneAssumption DEF IInv, TypeOK, Coherent, Approved, CallsAreApproved, Bodies, MainStates, InteractiveStates, SilentMethods, InteractiveMethods, GetElsewhere, machineVars, runVars, ledgerVars, boundVars, get
<1>5. UNCHANGED <<requestsQueue, activeRequest, received, answered>>
  BY DEF GetElsewhere, machineVars, runVars, ledgerVars, boundVars, get
<1> QED BY <1>2, <1>3, <1>4, <1>5, WithinRequest

LEMMA RenewalSignedKeeps == ASSUME IInv, RenewalSigned PROVE IInv'
<1>1. live' \in BOOLEAN
  BY DEF IInv, TypeOK, RenewalSigned, machineVars, runVars, ledgerVars, boundVars
<1>2. TypeOK' /\ Coherent'
  BY <1>1, RPCAssumption, NoneAssumption DEF IInv, TypeOK, Coherent, PromptShowsItsRequest, Bodies, MainStates, InteractiveStates, SilentMethods, InteractiveMethods, Methods, RenewalSigned, machineVars, runVars, ledgerVars, boundVars
<1>3. PromptShowsItsRequest'
  BY NoneAssumption DEF IInv, TypeOK, PromptShowsItsRequest, RenewalSigned, machineVars, runVars, ledgerVars, boundVars
<1>4. Approved' /\ performed' <= approvals'
  BY NoneAssumption DEF IInv, TypeOK, Coherent, Approved, CallsAreApproved, Bodies, MainStates, InteractiveStates, SilentMethods, InteractiveMethods, RenewalSigned, machineVars, runVars, ledgerVars, boundVars
<1>5. UNCHANGED <<requestsQueue, activeRequest, received, answered>>
  BY DEF RenewalSigned, machineVars, runVars, ledgerVars, boundVars
<1> QED BY <1>2, <1>3, <1>4, <1>5, WithinRequest

LEMMA RenewalFailsKeeps == ASSUME IInv, RenewalFails PROVE IInv'
<1>1. live' \in BOOLEAN
  BY DEF IInv, TypeOK, RenewalFails, runVars, ledgerVars, Fault, logout
<1>2. TypeOK' /\ Coherent'
  BY <1>1, RPCAssumption, NoneAssumption DEF IInv, TypeOK, Coherent, PromptShowsItsRequest, Bodies, MainStates, InteractiveStates, SilentMethods, InteractiveMethods, Methods, RenewalFails, runVars, ledgerVars, Fault, logout
<1>3. PromptShowsItsRequest'
  BY NoneAssumption DEF IInv, TypeOK, PromptShowsItsRequest, RenewalFails, runVars, ledgerVars, Fault, logout
<1>4. Approved' /\ performed' <= approvals'
  BY NoneAssumption DEF IInv, TypeOK, Coherent, Approved, CallsAreApproved, Bodies, MainStates, InteractiveStates, SilentMethods, InteractiveMethods, RenewalFails, runVars, ledgerVars, Fault, logout
<1>5. UNCHANGED <<requestsQueue, activeRequest, received, answered>>
  BY DEF RenewalFails, runVars, ledgerVars, Fault, logout
<1> QED BY <1>2, <1>3, <1>4, <1>5, WithinRequest

LEMMA RenewalSetKeeps == ASSUME IInv, NEW user \in Users, RenewalSet(user) PROVE IInv'
<1>1. live' \in BOOLEAN
  BY DEF IInv, TypeOK, RenewalSet, machineVars, runVars, ledgerVars, boundVars
<1>2. TypeOK' /\ Coherent'
  BY <1>1, RPCAssumption, NoneAssumption DEF IInv, TypeOK, Coherent, PromptShowsItsRequest, Bodies, MainStates, InteractiveStates, SilentMethods, InteractiveMethods, Methods, RenewalSet, machineVars, runVars, ledgerVars, boundVars
<1>3. PromptShowsItsRequest'
  BY NoneAssumption DEF IInv, TypeOK, PromptShowsItsRequest, RenewalSet, machineVars, runVars, ledgerVars, boundVars
<1>4. Approved' /\ performed' <= approvals'
  BY NoneAssumption DEF IInv, TypeOK, Coherent, Approved, CallsAreApproved, Bodies, MainStates, InteractiveStates, SilentMethods, InteractiveMethods, RenewalSet, machineVars, runVars, ledgerVars, boundVars
<1>5. UNCHANGED <<requestsQueue, activeRequest, received, answered>>
  BY DEF RenewalSet, machineVars, runVars, ledgerVars, boundVars
<1> QED BY <1>2, <1>3, <1>4, <1>5, WithinRequest

-----------------------------------------------------------------------------
(* Steps from one request to the next *)

\* A request that comes while another is active waits at the end of the queue;
\* one that comes to an empty window is active at once.
LEMMA OnRequestKeeps == ASSUME IInv, OnRequest PROVE IInv'
<1>1. PICK method \in Kinds, sender \in Users \union {None} :
         LET request == [id |-> received + 1, method |-> method, sender |-> sender]
             q == Append(requestsQueue, request)
         IN  \/ /\ activeRequest # None
                /\ requestsQueue' = q
                /\ UNCHANGED <<state, activeRequest, metadata, approvals, performed>>
             \/ /\ activeRequest = None
                /\ moveQueue(q)
                /\ Ready
  BY DEF OnRequest
<1> DEFINE request == [id |-> received + 1, method |-> method, sender |-> sender]
<1>2. request \in Requests
  BY DEF IInv, TypeOK, Requests
<1>3. /\ received' = received + 1
      /\ state # "Stopped"
      /\ UNCHANGED <<componentData, output, stage, signer, session, live, renewing, setting,
                     connected, answered, faults, lapses>>
  BY DEF OnRequest, runVars, sessionVars, boundVars
<1>4. CASE /\ activeRequest # None
           /\ requestsQueue' = Append(requestsQueue, request)
           /\ UNCHANGED <<state, activeRequest, metadata, approvals, performed>>
  <2>1. TypeOK' /\ Coherent' /\ PromptShowsItsRequest' /\ Approved'
    BY <1>2, <1>3, <1>4 DEF IInv, TypeOK, Coherent, PromptShowsItsRequest, Approved
  <2>2. NothingLost'
    <3>1. /\ Len(requestsQueue') = Len(requestsQueue) + 1
          /\ \A i \in 1..Len(requestsQueue) : requestsQueue'[i] = requestsQueue[i]
          /\ requestsQueue'[Len(requestsQueue) + 1] = request
      BY <1>2, <1>4 DEF IInv, TypeOK
    <3>2. /\ Len(requestsQueue) \in Nat /\ Len(answered) \in Nat
          /\ request.id = Len(answered) + 1 + (Len(requestsQueue) + 1)
      BY <1>4 DEF IInv, TypeOK, NothingLost
    <3>3. \A i \in 1..Len(requestsQueue') : i \in 1..Len(requestsQueue) \/ i = Len(requestsQueue) + 1
      BY <3>1, <3>2
    <3>4. \A i \in 1..Len(requestsQueue) : requestsQueue'[i].id = Len(answered) + 1 + i
      BY <3>1 DEF IInv, NothingLost
    <3>5. requestsQueue'[Len(requestsQueue) + 1].id = Len(answered) + 1 + (Len(requestsQueue) + 1)
      BY <3>1, <3>2
    <3>6. \A i \in 1..Len(requestsQueue') : requestsQueue'[i].id = Len(answered) + 1 + i
      BY <3>3, <3>4, <3>5
    <3> QED BY <1>3, <1>4, <3>1, <3>2, <3>6 DEF IInv, TypeOK, NothingLost
  <2>3. CallsAreApproved' /\ ResultsAreEarned'
    BY <1>3, <1>4 DEF IInv, CallsAreApproved, ResultsAreEarned
  <2> QED BY <2>1, <2>2, <2>3 DEF IInv
<1>5. CASE /\ activeRequest = None
           /\ moveQueue(Append(requestsQueue, request))
           /\ Ready
  <2>1. requestsQueue = <<>> /\ state = "Ready"
    BY <1>3, <1>5 DEF IInv, TypeOK, NothingLost
  <2>2. /\ requestsQueue' = <<>>
        /\ activeRequest' = request
        /\ metadata' = None
        /\ approvals' = 0 /\ performed' = 0
    BY <1>2, <1>5, <2>1 DEF moveQueue
  <2>3. state' = "ValidateRequest"
    BY <1>2, <1>5, <2>2, NoneAssumption DEF Ready
  <2>4. TypeOK' /\ Coherent' /\ PromptShowsItsRequest' /\ Approved'
    BY <1>2, <1>3, <2>1, <2>2, <2>3, NoneAssumption
    DEF IInv, TypeOK, Coherent, PromptShowsItsRequest, Approved, MainStates, InteractiveStates
  <2>5. NothingLost'
    BY <1>2, <1>3, <1>5, <2>1, <2>2, NoneAssumption DEF IInv, TypeOK, NothingLost
  <2>6. CallsAreApproved' /\ ResultsAreEarned'
    BY <1>3, <2>2 DEF IInv, CallsAreApproved, ResultsAreEarned
  <2> QED BY <2>4, <2>5, <2>6 DEF IInv
<1> QED BY <1>1, <1>4, <1>5

\* An answer is taken from the ledger of the active request.
LEMMA AnswerKept ==
  ASSUME IInv, SendResponse,
         Len(answered') = Len(answered) + 1,
         \A i \in 1..Len(answered) : answered'[i] = answered[i],
         answered'[Len(answered) + 1] =
            [id |-> activeRequest.id, method |-> activeRequest.method, body |-> output,
             approvals |-> approvals, performed |-> performed],
         approvals' = 0, performed' = 0
  PROVE  CallsAreApproved' /\ ResultsAreEarned'
<1>1. state = "SendResponse"
  BY DEF SendResponse
<1>2. \A i \in 1..Len(answered') : i \in 1..Len(answered) \/ i = Len(answered) + 1
  BY DEF IInv, TypeOK
<1>3. CallsAreApproved'
  BY <1>2 DEF IInv, TypeOK, CallsAreApproved
<1>4. ResultsAreEarned'
  BY <1>1, <1>2 DEF IInv, TypeOK, Approved, ResultsAreEarned
<1> QED BY <1>3, <1>4

\* The answer goes to the active request, and the queue moves up.
LEMMA SendResponseKeeps == ASSUME IInv, SendResponse PROVE IInv'
<1> DEFINE answer == [id |-> activeRequest.id, method |-> activeRequest.method,
                      body |-> output, approvals |-> approvals, performed |-> performed]
<1>1. /\ state = "SendResponse"
      /\ answered' = Append(answered, answer)
      /\ moveQueue(requestsQueue)
      /\ Ready
      /\ output' = None
      /\ UNCHANGED <<componentData, stage, signer, session, live, renewing, setting,
                     connected, received, faults, lapses>>
  BY DEF SendResponse, runVars, sessionVars, boundVars
<1>2. activeRequest \in Requests /\ output \in Bodies /\ activeRequest # None
  BY <1>1 DEF IInv, TypeOK, Coherent
<1>3. answer \in Answers
  BY <1>2 DEF IInv, TypeOK, Requests, Answers
<1>4. /\ Len(answered') = Len(answered) + 1
      /\ \A i \in 1..Len(answered) : answered'[i] = answered[i]
      /\ answered'[Len(answered) + 1] = answer
      /\ answered' \in Seq(Answers)
  BY <1>1, <1>3 DEF IInv, TypeOK
<1>5. CASE requestsQueue = <<>>
  <2>1. requestsQueue' = <<>> /\ activeRequest' = None /\ metadata' = None
        /\ approvals' = 0 /\ performed' = 0 /\ state' = "Ready"
    BY <1>1, <1>5 DEF moveQueue, Ready
  <2>2. TypeOK' /\ Coherent' /\ PromptShowsItsRequest' /\ Approved'
    BY <1>1, <1>4, <2>1
    DEF IInv, TypeOK, Coherent, PromptShowsItsRequest, Approved, MainStates, InteractiveStates
  <2>3. NothingLost'
    BY <1>1, <1>2, <1>4, <1>5, <2>1 DEF IInv, TypeOK, NothingLost
  <2> QED BY <2>1, <2>2, <2>3, <1>4, AnswerKept DEF IInv
<1>6. CASE requestsQueue # <<>>
  <2>1. /\ Len(requestsQueue) > 0
        /\ Head(requestsQueue) \in Requests
        /\ Head(requestsQueue) = requestsQueue[1]
        /\ Tail(requestsQueue) \in Seq(Requests)
        /\ Len(Tail(requestsQueue)) = Len(requestsQueue) - 1
        /\ \A i \in 1..Len(Tail(requestsQueue)) : Tail(requestsQueue)[i] = requestsQueue[i + 1]
    BY <1>6 DEF IInv, TypeOK
  <2>2. requestsQueue' = Tail(requestsQueue)
    <3>1. CASE Len(requestsQueue) > 1 BY <1>1, <3>1 DEF moveQueue
    <3>2. CASE Len(requestsQueue) = 1
      <4>1. Tail(requestsQueue) = <<>>
        <5>1. Len(Tail(requestsQueue)) = 0 BY <2>1, <3>2
        <5>2. Len(<<>>) = 0 /\ <<>> \in Seq(Requests) BY EmptySeq
        <5>3. \A i \in 1..Len(Tail(requestsQueue)) : Tail(requestsQueue)[i] = <<>>[i] BY <5>1
        <5> QED BY <2>1, <5>1, <5>2, <5>3, SeqEqual
      <4> QED BY <1>1, <3>2, <4>1 DEF moveQueue
    <3> QED BY <2>1, <3>1, <3>2 DEF IInv, TypeOK
  <2>3. activeRequest' = requestsQueue[1] /\ activeRequest' \in Requests /\ activeRequest' # None
        /\ metadata' = None /\ approvals' = 0 /\ performed' = 0
    BY <1>1, <2>1, NoneAssumption DEF moveQueue
  <2>4. state' = "ValidateRequest"
    BY <1>1, <2>3 DEF Ready
  <2>5. TypeOK' /\ Coherent' /\ PromptShowsItsRequest' /\ Approved'
    BY <1>1, <1>4, <2>1, <2>2, <2>3, <2>4
    DEF IInv, TypeOK, Coherent, PromptShowsItsRequest, Approved, MainStates, InteractiveStates
  <2>6. NothingLost'
    BY <1>1, <1>2, <1>4, <2>1, <2>2, <2>3 DEF IInv, TypeOK, NothingLost
  <2> QED BY <2>3, <2>5, <2>6, <1>4, AnswerKept DEF IInv
<1> QED BY <1>5, <1>6

-----------------------------------------------------------------------------
(* The invariant *)

LEMMA InitIInv == Init => IInv
<1> SUFFICES ASSUME Init PROVE IInv
  OBVIOUS
<1>1. TypeOK
  BY DEF Init, TypeOK, MainStates
<1>2. Coherent /\ PromptShowsItsRequest /\ Approved
  BY DEF Init, Coherent, PromptShowsItsRequest, Approved, InteractiveStates
<1>3. NothingLost /\ CallsAreApproved /\ ResultsAreEarned
  BY DEF Init, NothingLost, CallsAreApproved, ResultsAreEarned
<1> QED BY <1>1, <1>2, <1>3 DEF IInv

LEMMA NextIInv == IInv /\ [Next]_vars => IInv'
<1> SUFFICES ASSUME IInv, [Next]_vars PROVE IInv'
  OBVIOUS
<1>1. CASE OnRequest BY <1>1, OnRequestKeeps
<1>2. CASE Validation
  BY <1>2, ValidateDoneKeeps, ValidateFailsKeeps, ExecuteSilentDoneKeeps, ExecuteSilentFailsKeeps
  DEF Validation
<1>3. CASE Authentication
  BY <1>3, CheckPassesKeeps, CheckFailsKeeps, AuthenticatedKeeps, AuthenticationFailsKeeps
  DEF Authentication
<1>4. CASE Prompting
  BY <1>4, PrepareDoneKeeps, PrepareFailsKeeps, OnApproveKeeps, OnCancelKeeps, OnBackKeeps,
     TryAgainKeeps, CancelDoneKeeps
  DEF Prompting
<1>5. CASE Execution
  BY <1>5, TakeIdentityKeeps, PerformCallKeeps, ExecuteDoneKeeps, ExecuteFailsKeeps DEF Execution
<1>6. CASE SendResponse BY <1>6, SendResponseKeeps
<1>7. CASE SessionChange
  BY <1>7, IdleKeeps, ExpireKeeps, GetElsewhereKeeps, RenewalSignedKeeps, RenewalFailsKeeps,
     RenewalSetKeeps
  DEF SessionChange
<1>8. CASE UNCHANGED vars
  BY <1>8 DEF vars, machineVars, runVars, sessionVars, ledgerVars, boundVars, IInv, TypeOK,
     Coherent, PromptShowsItsRequest, NothingLost, Approved, CallsAreApproved, ResultsAreEarned
<1> QED BY <1>1, <1>2, <1>3, <1>4, <1>5, <1>6, <1>7, <1>8 DEF Next

\* IInv holds in every state of every behaviour of the window.
THEOREM Invariance == Spec => []IInv
BY InitIInv, NextIInv, PTL DEF Spec

\* Types, and that only a window without work is Ready.
THEOREM TypeCorrect == Spec => []TypeOK
<1>1. IInv => TypeOK BY DEF IInv
<1> QED BY <1>1, Invariance, PTL

\* Every request received is answered, active or queued, once and in order.
THEOREM RequestsAreKept == Spec => []NothingLost
<1>1. IInv => NothingLost BY DEF IInv
<1> QED BY <1>1, Invariance, PTL

\* The data in the prompt is that of the active request.
THEOREM PromptIsCurrent == Spec => []PromptShowsItsRequest
<1>1. IInv => PromptShowsItsRequest BY DEF IInv
<1> QED BY <1>1, Invariance, PTL

\* Each canister call that goes out uses up an approval of its own.
THEOREM EveryCallIsApproved == Spec => []CallsAreApproved
<1>1. IInv => CallsAreApproved BY DEF IInv
<1> QED BY <1>1, Invariance, PTL

\* No result without the approval and the execution it reports.
THEOREM EveryResultIsEarned == Spec => []ResultsAreEarned
<1>1. IInv => ResultsAreEarned BY DEF IInv
<1> QED BY <1>1, Invariance, PTL

-----------------------------------------------------------------------------
(* The window implements OrderedService *)

LEMMA InitServes == Init => Service!ServiceInit
<1> SUFFICES ASSUME Init PROVE Service!ServiceInit
  OBVIOUS
<1>1. Len(answered) = 0
  BY DEF Init
<1>2. [i \in 1..Len(answered) |-> answered[i].id] = <<>>
  BY <1>1
<1> QED BY <1>2 DEF Init, Service!ServiceInit

LEMMA NextServes == IInv /\ [Next]_vars => [Service!ServiceNext]_(Service!serviceVars)
<1> SUFFICES ASSUME IInv, [Next]_vars PROVE [Service!ServiceNext]_(Service!serviceVars)
  OBVIOUS
<1> DEFINE ids == [i \in 1..Len(answered) |-> answered[i].id]
<1>1. CASE OnRequest
  <2>1. received' = received + 1 /\ answered' = answered
    BY <1>1 DEF OnRequest
  <2> QED BY <2>1 DEF Service!ServiceNext, Service!Accept
<1>2. CASE SendResponse
  <2>1. /\ Len(answered') = Len(answered) + 1
        /\ \A i \in 1..Len(answered) : answered'[i] = answered[i]
        /\ answered'[Len(answered) + 1].id = activeRequest.id
        /\ UNCHANGED received
    BY <1>2 DEF IInv, TypeOK, SendResponse
  <2>2. activeRequest.id = Len(answered) + 1 /\ Len(answered) < received
    BY <1>2 DEF IInv, TypeOK, NothingLost, SendResponse
  <2>3. ids \in Seq(Nat) /\ Len(ids) = Len(answered)
    <3>1. /\ Len(answered) \in Nat
          /\ \A i \in 1..Len(answered) : answered[i].id \in Nat
      BY DEF IInv, TypeOK, NothingLost
    <3>2. ids \in [1..Len(answered) -> Nat]
      BY <3>1
    <3>3. ids \in Seq(Nat)
      BY <3>1, <3>2, SeqDef
    <3>4. Len(ids) = Len(answered)
      BY <3>1
    <3> QED BY <3>3, <3>4
  <2>4. ids' = Append(ids, Len(ids) + 1)
    <3>1. Len(ids') = Len(answered) + 1 /\ DOMAIN ids' = 1..(Len(answered) + 1)
      BY <2>1 DEF IInv, TypeOK
    <3>2. \A i \in 1..Len(answered) : ids'[i] = ids[i]
      BY <2>1 DEF IInv, TypeOK
    <3>3. ids'[Len(answered) + 1] = Len(answered) + 1
      BY <2>1, <2>2 DEF IInv, TypeOK
    <3> QED BY <2>3, <3>1, <3>2, <3>3
  <2> QED BY <2>1, <2>2, <2>3, <2>4 DEF Service!ServiceNext, Service!Answer
<1>3. CASE Validation \/ Authentication \/ Prompting \/ Execution \/ SessionChange \/ UNCHANGED vars
  <2>1. UNCHANGED <<received, answered>>
    BY <1>3 DEF Validation, ValidateDone, ValidateFails, ExecuteSilentDone, ExecuteSilentFails,
       Authentication, CheckPasses, CheckFails, Authenticated, AuthenticationFails,
       Prompting, PrepareDone, PrepareFails, OnApprove, OnCancel, OnBack, TryAgain, CancelDone,
       Execution, TakeIdentity, PerformCall, ExecuteDone, ExecuteFails,
       SessionChange, Idle, Expire, GetElsewhere, RenewalSigned, RenewalFails, RenewalSet,
       ledgerVars, vars
  <2> QED BY <2>1 DEF Service!serviceVars
<1> QED BY <1>1, <1>2, <1>3 DEF Next

\* The answers leave one for each request, in the order of the requests.
THEOREM Implements == Spec => ServedInOrder
<1>1. Spec => Service!ServiceInit /\ [][Service!ServiceNext]_(Service!serviceVars)
  BY InitServes, NextServes, Invariance, PTL DEF Spec
<1> QED BY <1>1 DEF ServedInOrder, Service!ServiceSpec

-----------------------------------------------------------------------------
(* Whose identity signs, when sessions do not expire *)

\* Without expiry nothing is renewed in the background, so the only way to
\* another user leads through the authentication states, and these lead to the
\* prompt only through a new preparation.
UserInv ==
    /\ live = (session # None)
    /\ renewing = None /\ setting = {}
    /\ state \in {"PromptInteractiveRequest", "ExecuteInteractiveRequest"} /\ session # None =>
          session = componentData.user
    /\ SignsForTheUserShown

LEMMA UserStep ==
  ASSUME "expiry" \notin Lapses, IInv, UserInv, [Next]_vars
  PROVE  UserInv'
<1> USE NoneAssumption DEF IInv, TypeOK, Coherent, UserInv, SignsForTheUserShown
<1>1. CASE OnRequest
  BY <1>1 DEF OnRequest, moveQueue, Ready, machineVars, runVars, sessionVars, ledgerVars, boundVars
<1>2. CASE ValidateDone
  BY <1>2 DEF ValidateDone, machineVars, runVars, sessionVars, ledgerVars, boundVars
<1>3. CASE ValidateFails
  BY <1>3 DEF ValidateFails, machineVars, runVars, sessionVars, ledgerVars, boundVars
<1>4. CASE ExecuteSilentDone
  BY <1>4 DEF ExecuteSilentDone, machineVars, runVars, sessionVars, ledgerVars, boundVars
<1>5. CASE ExecuteSilentFails
  BY <1>5 DEF ExecuteSilentFails, machineVars, runVars, sessionVars, ledgerVars, boundVars
<1>6. CASE CheckPasses
  BY <1>6 DEF CheckPasses, machineVars, runVars, sessionVars, ledgerVars, boundVars, SignedIn
<1>7. CASE CheckFails
  BY <1>7 DEF CheckFails, machineVars, runVars, sessionVars, ledgerVars, boundVars, get, SignedIn
<1>8. CASE Authenticated
  BY <1>8 DEF Authenticated, machineVars, runVars, sessionVars, ledgerVars, boundVars
<1>9. CASE AuthenticationFails
  BY <1>9 DEF AuthenticationFails, machineVars, runVars, sessionVars, ledgerVars, boundVars
<1>10. CASE PrepareDone
  BY <1>10 DEF PrepareDone, machineVars, runVars, sessionVars, ledgerVars, boundVars, CanServe, SignedIn
<1>11. CASE PrepareFails
  BY <1>11 DEF PrepareFails, machineVars, runVars, sessionVars, ledgerVars, boundVars, get, CanServe, SignedIn
<1>12. CASE OnApprove
  BY <1>12 DEF OnApprove, machineVars, runVars, sessionVars, ledgerVars, boundVars
<1>13. CASE OnCancel
  BY <1>13 DEF OnCancel, machineVars, runVars, sessionVars, ledgerVars, boundVars
<1>14. CASE OnBack
  BY <1>14 DEF OnBack, machineVars, runVars, sessionVars, ledgerVars, boundVars, logout
<1>15. CASE TryAgain
  BY <1>15 DEF TryAgain, machineVars, runVars, sessionVars, ledgerVars, boundVars
<1>16. CASE CancelDone
  BY <1>16 DEF CancelDone, machineVars, runVars, sessionVars, ledgerVars, boundVars
<1>17. CASE TakeIdentity
  BY <1>17 DEF TakeIdentity, machineVars, runVars, sessionVars, ledgerVars, boundVars, CanServe, SignedIn
<1>18. CASE PerformCall
  BY <1>18 DEF PerformCall, machineVars, runVars, sessionVars, ledgerVars, boundVars
<1>19. CASE ExecuteDone
  BY <1>19 DEF ExecuteDone, machineVars, runVars, sessionVars, ledgerVars, boundVars
<1>20. CASE ExecuteFails
  BY <1>20 DEF ExecuteFails, machineVars, runVars, sessionVars, ledgerVars, boundVars, get, CanServe, SignedIn
<1>21. CASE Idle
  BY <1>21 DEF Idle, machineVars, runVars, sessionVars, ledgerVars, boundVars, logout
<1>22. CASE Expire
  BY <1>22 DEF Expire, machineVars, runVars, sessionVars, ledgerVars, boundVars
<1>23. CASE GetElsewhere
  BY <1>23 DEF GetElsewhere, machineVars, runVars, sessionVars, ledgerVars, boundVars, get
<1>24. CASE RenewalSigned
  BY <1>24 DEF RenewalSigned, machineVars, runVars, sessionVars, ledgerVars, boundVars
<1>25. CASE RenewalFails
  BY <1>25 DEF RenewalFails, machineVars, runVars, sessionVars, ledgerVars, boundVars
<1>26. CASE \E user \in Users : RenewalSet(user)
  BY <1>26 DEF RenewalSet, machineVars, runVars, sessionVars, ledgerVars, boundVars
<1>27. CASE SendResponse
  BY <1>27 DEF SendResponse, moveQueue, Ready, machineVars, runVars, sessionVars, ledgerVars, boundVars
<1>28. CASE UNCHANGED vars
  BY <1>28 DEF vars, machineVars, runVars, sessionVars, ledgerVars, boundVars
<1> QED
  BY <1>1, <1>2, <1>3, <1>4, <1>5, <1>6, <1>7, <1>8, <1>9, <1>10, <1>11, <1>12, <1>13, <1>14, <1>15, <1>16, <1>17, <1>18, <1>19, <1>20, <1>21, <1>22, <1>23, <1>24, <1>25, <1>26, <1>27, <1>28
  DEF Next, Validation, Authentication, Prompting, Execution, SessionChange

\* When sessions do not expire, a delegation or a call is signed for the user
\* whose data the prompt shows.
THEOREM SignedAsShown ==
  ASSUME "expiry" \notin Lapses
  PROVE  Spec => []SignsForTheUserShown
<1>1. Init => UserInv
  BY DEF Init, UserInv, SignsForTheUserShown
<1>2. IInv /\ UserInv /\ [Next]_vars => UserInv'
  BY UserStep
<1>3. UserInv => SignsForTheUserShown
  BY DEF UserInv
<1> QED BY <1>1, <1>2, <1>3, Invariance, PTL DEF Spec

-----------------------------------------------------------------------------
(* Calls that were made, and answers that say so *)

\* Every call of the active request but the last took a fault; the last may
\* still be at work, or its result on its way to the dApp.
CallsAccounted ==
    /\ performed <= 1 + faults
    /\ \/ performed <= faults
       \/ stage = "performed"
       \/ state = "SendResponse" /\ output = "result"

AbortInv == CallsAccounted /\ AbortedMeansNotPerformed

\* A step that answers nothing only has to account for the calls.
LEMMA AnswersAsBefore ==
  ASSUME IInv, AbortInv, answered' = answered, faults' \in Nat, faults' >= faults,
         performed' \in Nat, CallsAccounted'
  PROVE  AbortInv'
<1>1. /\ answered \in Seq(Answers) /\ Len(answered) \in Nat
      /\ performed \in Nat /\ faults \in Nat
  BY DEF IInv, TypeOK
<1>2. \A i \in 1..Len(answered) : answered[i].performed \in Nat
  <2>1. \A i \in 1..Len(answered) : answered[i] \in Answers
    BY <1>1
  <2> QED BY <2>1 DEF Answers
<1>3. performed' <= 1 + faults'
  BY DEF CallsAccounted
<1>4. \A i \in 1..Len(answered) :
        answered[i].performed <= faults' + (IF answered[i].body = "result" THEN 1 ELSE 0)
  BY <1>1, <1>2 DEF AbortInv, AbortedMeansNotPerformed
<1> QED BY <1>3, <1>4 DEF AbortInv, AbortedMeansNotPerformed

LEMMA AbortStep ==
  ASSUME IInv, AbortInv, [Next]_vars
  PROVE  AbortInv'
<1> USE DEF IInv, TypeOK, Coherent, AbortInv, CallsAccounted
<1>1. CASE OnRequest
  <2>1. /\ UNCHANGED <<answered, faults, stage, output>>
        /\ \/ UNCHANGED <<state, performed>>
           \/ performed' = 0
    BY <1>1 DEF OnRequest, moveQueue, runVars, boundVars
  <2> QED BY <2>1, AnswersAsBefore
<1>2. CASE ValidateDone
  BY <1>2, AnswersAsBefore DEF ValidateDone, machineVars, runVars, sessionVars, ledgerVars, boundVars
<1>3. CASE ValidateFails
  BY <1>3, AnswersAsBefore DEF ValidateFails, machineVars, runVars, sessionVars, ledgerVars, boundVars, Fault, NoFault
<1>4. CASE ExecuteSilentDone
  BY <1>4, AnswersAsBefore DEF ExecuteSilentDone, machineVars, runVars, sessionVars, ledgerVars, boundVars
<1>5. CASE ExecuteSilentFails
  BY <1>5, AnswersAsBefore DEF ExecuteSilentFails, machineVars, runVars, sessionVars, ledgerVars, boundVars, Fault
<1>6. CASE CheckPasses
  BY <1>6, AnswersAsBefore DEF CheckPasses, machineVars, runVars, sessionVars, ledgerVars, boundVars
<1>7. CASE CheckFails
  BY <1>7, AnswersAsBefore DEF CheckFails, machineVars, runVars, sessionVars, ledgerVars, boundVars
<1>8. CASE Authenticated
  BY <1>8, AnswersAsBefore DEF Authenticated, machineVars, runVars, sessionVars, ledgerVars, boundVars
<1>9. CASE AuthenticationFails
  BY <1>9, AnswersAsBefore DEF AuthenticationFails, machineVars, runVars, sessionVars, ledgerVars, boundVars, Fault
<1>10. CASE PrepareDone
  BY <1>10, AnswersAsBefore DEF PrepareDone, machineVars, runVars, sessionVars, ledgerVars, boundVars
<1>11. CASE PrepareFails
  BY <1>11, AnswersAsBefore DEF PrepareFails, machineVars, runVars, sessionVars, ledgerVars, boundVars, Fault, NoFault
<1>12. CASE OnApprove
  BY <1>12, AnswersAsBefore DEF OnApprove, machineVars, runVars, sessionVars, ledgerVars, boundVars
<1>13. CASE OnCancel
  BY <1>13, AnswersAsBefore DEF OnCancel, machineVars, runVars, sessionVars, ledgerVars, boundVars
<1>14. CASE OnBack
  BY <1>14, AnswersAsBefore DEF OnBack, machineVars, runVars, sessionVars, ledgerVars, boundVars
<1>15. CASE TryAgain
  BY <1>15, AnswersAsBefore DEF TryAgain, machineVars, runVars, sessionVars, ledgerVars, boundVars
<1>16. CASE CancelDone
  BY <1>16, AnswersAsBefore DEF CancelDone, machineVars, runVars, sessionVars, ledgerVars, boundVars
<1>17. CASE TakeIdentity
  BY <1>17, AnswersAsBefore DEF TakeIdentity, machineVars, runVars, sessionVars, ledgerVars, boundVars
<1>18. CASE PerformCall
  BY <1>18, AnswersAsBefore DEF PerformCall, machineVars, runVars, sessionVars, ledgerVars, boundVars
<1>19. CASE ExecuteDone
  BY <1>19, AnswersAsBefore DEF ExecuteDone, machineVars, runVars, sessionVars, ledgerVars, boundVars
<1>20. CASE ExecuteFails
  BY <1>20, AnswersAsBefore DEF ExecuteFails, machineVars, runVars, sessionVars, ledgerVars, boundVars, Fault, NoFault
<1>21. CASE Idle
  BY <1>21, AnswersAsBefore DEF Idle, machineVars, runVars, sessionVars, ledgerVars, boundVars
<1>22. CASE Expire
  BY <1>22, AnswersAsBefore DEF Expire, machineVars, runVars, sessionVars, ledgerVars, boundVars
<1>23. CASE GetElsewhere
  BY <1>23, AnswersAsBefore DEF GetElsewhere, machineVars, runVars, sessionVars, ledgerVars, boundVars
<1>24. CASE RenewalSigned
  BY <1>24, AnswersAsBefore DEF RenewalSigned, machineVars, runVars, sessionVars, ledgerVars, boundVars
<1>25. CASE RenewalFails
  BY <1>25, AnswersAsBefore DEF RenewalFails, machineVars, runVars, sessionVars, ledgerVars, boundVars, Fault
<1>26. CASE \E user \in Users : RenewalSet(user)
  BY <1>26, AnswersAsBefore DEF RenewalSet, machineVars, runVars, ledgerVars, boundVars
<1>27. CASE SendResponse
  <2>1. /\ Len(answered') = Len(answered) + 1
        /\ \A i \in 1..Len(answered) : answered'[i] = answered[i]
        /\ answered'[Len(answered) + 1].body = output
        /\ answered'[Len(answered) + 1].performed = performed
    BY <1>27 DEF SendResponse
  <2>2. state = "SendResponse" /\ stage = "start" /\ performed' = 0 /\ faults' = faults
    BY <1>27 DEF SendResponse, moveQueue, boundVars
  <2>3. \A i \in 1..Len(answered') : i \in 1..Len(answered) \/ i = Len(answered) + 1
    BY <2>1
  <2>4. AbortedMeansNotPerformed'
    BY <2>1, <2>2, <2>3 DEF AbortedMeansNotPerformed
  <2> QED BY <2>2, <2>4
<1>28. CASE UNCHANGED vars
  BY <1>28, AnswersAsBefore DEF vars, machineVars, runVars, ledgerVars, boundVars
<1> QED
  BY <1>1, <1>2, <1>3, <1>4, <1>5, <1>6, <1>7, <1>8, <1>9, <1>10, <1>11, <1>12, <1>13, <1>14, <1>15, <1>16, <1>17, <1>18, <1>19, <1>20, <1>21, <1>22, <1>23, <1>24, <1>25, <1>26, <1>27, <1>28
  DEF Next, Validation, Authentication, Prompting, Execution, SessionChange

\* A request answered with an error was performed at most once per fault, and
\* one answered with a result at most once more.
THEOREM AbortsAreHonest == Spec => []AbortedMeansNotPerformed
<1>1. Init => AbortInv
  BY DEF Init, AbortInv, CallsAccounted, AbortedMeansNotPerformed
<1>2. IInv /\ AbortInv /\ [Next]_vars => AbortInv'
  BY AbortStep
<1>3. AbortInv => AbortedMeansNotPerformed
  BY DEF AbortInv
<1> QED BY <1>1, <1>2, <1>3, Invariance, PTL DEF Spec
=============================================================================
