--------------------------- MODULE IdentityKitRPC ---------------------------
(***************************************************************************)
(* The RPC window a dApp opens to talk to the wallet: IdentityKitRPCMachine *)
(* with the services it invokes.  One region of the machine receives        *)
(* requests and queues them, the other takes the active request through     *)
(* validation, authentication, the prompt and its execution, and posts the  *)
(* answer.  The wallet's session may end under it at any moment, and an     *)
(* expired one is renewed in the background.                                *)
(*                                                                          *)
(* One dApp origin is modelled.  A state with an invoked service stands for *)
(* the running service; its onDone and onError transitions are the actions. *)
(* icrc29_status, which the receiver answers by itself, is left out.        *)
(***************************************************************************)
EXTENDS Integers, Sequences

CONSTANTS
    Users,          \* the accounts a person may sign in with
    None,           \* no user, no request, nothing prepared
    Kinds,          \* the methods the dApp uses, a subset of Methods
    MaxRequests,    \* bound: requests the dApp sends
    Faults,         \* the failures that may happen, a subset of FaultKinds
    MaxFaults,      \* bound: failures in a run
    Lapses,         \* how a session may end by itself, a subset of LapseKinds
    MaxLapses       \* bound: such ends, and uses of the Back button, in a run

\* permissions: the icrc25_* methods; accounts: icrc27_accounts; delegation:
\* icrc34_delegation; call: icrc49_call_canister; unknown: anything else, and
\* a request whose derivation origin is not valid.
SilentMethods == {"permissions"}
InteractiveMethods == {"accounts", "delegation", "call"}
Methods == SilentMethods \union InteractiveMethods \union {"unknown"}

\* reject: a service fails before it had an effect; lost: a canister performed
\* the call and the answer did not arrive; login: the authentication machine
\* ends in error; renewal: the renewed delegation is not signed.
FaultKinds == {"reject", "lost", "login", "renewal"}

\* idle: the idle manager signs the user out; expiry: the delegation expires.
LapseKinds == {"idle", "expiry"}

VARIABLES
    \* the machine's context and state
    state,          \* the Main region
    requestsQueue,  \* requests that wait for the active one
    activeRequest,  \* the request being served
    metadata,       \* activeRequestMetadata: "silent", "interactive" or None
    componentData,  \* what the prompt shows: which request, for which user
    output,         \* the answer SendResponse will post
    \* the running onApprove
    stage,          \* "start", "signed" (identity taken), "performed"
    signer,         \* the user whose identity it took
    \* authState
    session,        \* the user signed in, or None
    live,           \* whether the session's delegation is valid
    renewing,       \* the user whose delegation is being signed anew, or None
    setting,        \* users whose renewed session is on its way into authState
    connected,      \* the user whose accounts the storage has for the dApp
    \* what the outside has seen
    received,       \* requests accepted so far
    answered,       \* the answers posted so far
    approvals,      \* approvals of the active request
    performed,      \* canister calls made for the active request
    faults,         \* failures so far
    lapses          \* session ends so far

machineVars == <<state, requestsQueue, activeRequest, metadata, componentData, output>>
runVars == <<stage, signer>>
sessionVars == <<session, live, renewing, setting>>
ledgerVars == <<received, answered, approvals, performed>>
boundVars == <<faults, lapses>>
vars == <<machineVars, runVars, sessionVars, connected, ledgerVars, boundVars>>

MainStates ==
    {"Ready", "ValidateRequest", "CheckAuthentication", "Authenticate",
     "PrepareComponentData", "PromptInteractiveRequest",
     "CancelInteractiveRequest", "ExecuteInteractiveRequest", "Error",
     "ExecuteSilentRequest", "SendResponse", "Stopped"}

\* Only a canister call names the account it wants to be sent from.
Requests ==
    [id : Nat, method : Kinds, sender : Users \union {None}]

\* result: the method's result; aborted: error 3001; empty: no data at all.
Bodies == {"result", "aborted", "empty"}
Answers == [id : Nat, method : Kinds, body : Bodies, approvals : Nat, performed : Nat]

ASSUME RPCAssumption ==
    /\ Users # {}
    /\ Kinds \subseteq Methods
    /\ Faults \subseteq FaultKinds
    /\ Lapses \subseteq LapseKinds
    /\ MaxRequests \in Nat /\ MaxFaults \in Nat /\ MaxLapses \in Nat

\* None is nothing else.
ASSUME NoneAssumption ==
    /\ None \notin Users \union Bodies \union {"silent", "interactive"}
    /\ None \notin Requests
    /\ None \notin [request : Nat, user : Users]

-----------------------------------------------------------------------------
(* The machine's assign actions *)

\* Mutant: the newest request is taken first.
moveQueue_Newest(q) ==
    /\ requestsQueue' = IF Len(q) > 1 THEN SubSeq(q, 1, Len(q) - 1) ELSE <<>>
    /\ activeRequest' = IF Len(q) > 0 THEN q[Len(q)] ELSE None
    /\ metadata' = None
    /\ approvals' = 0
    /\ performed' = 0

\* Mutant: the queue is taken for empty when two requests wait.
moveQueue_OffByOne(q) ==
    /\ requestsQueue' = IF Len(q) > 2 THEN Tail(q) ELSE <<>>
    /\ activeRequest' = IF Len(q) > 0 THEN Head(q) ELSE None
    /\ metadata' = None
    /\ approvals' = 0
    /\ performed' = 0

\* moveQueue and the assignments that go with it, for a queue q.
moveQueue(q) ==
    /\ requestsQueue' = IF Len(q) > 1 THEN Tail(q) ELSE <<>>
    /\ activeRequest' = IF Len(q) > 0 THEN Head(q) ELSE None
    /\ metadata' = None
    /\ approvals' = 0
    /\ performed' = 0

\* Mutant: the transition out of Ready waits for an event.
Ready_Waits == state' = "Ready"

\* Ready is left at once when there is an active request.
Ready == state' = IF activeRequest' = None THEN "Ready" ELSE "ValidateRequest"

Fault(f) ==
    /\ f \in Faults
    /\ faults < MaxFaults
    /\ faults' = faults + 1

NoFault == faults' = faults

\* authState.get(): an expired delegation is renewed in the background.
get ==
    renewing' = IF session # None /\ ~live /\ renewing = None THEN session ELSE renewing

\* authState.logout(false)
logout ==
    /\ session' = None
    /\ live' = FALSE

SignedIn == session # None /\ live

-----------------------------------------------------------------------------
(* The RPCReceiverV3 region *)

OnRequest ==
    /\ state # "Stopped"
    /\ received < MaxRequests
    /\ received' = received + 1
    /\ \E method \in Kinds, sender \in Users \union {None} :
          LET request == [id |-> received + 1, method |-> method, sender |-> sender]
              q == Append(requestsQueue, request)
          IN  /\ (method = "call") <=> (sender # None)
              /\ \/ /\ activeRequest # None
                    /\ requestsQueue' = q
                    /\ UNCHANGED <<state, activeRequest, metadata, approvals, performed>>
                 \/ /\ activeRequest = None
                    /\ moveQueue(q)
                    /\ Ready
    /\ UNCHANGED <<componentData, output, runVars, sessionVars, connected, answered, boundVars>>

-----------------------------------------------------------------------------
(* Validation and silent methods *)

ValidateDone ==
    /\ state = "ValidateRequest"
    /\ activeRequest.method # "unknown"
    /\ \/ /\ activeRequest.method \in SilentMethods
          /\ metadata' = "silent"
          /\ state' = "ExecuteSilentRequest"
       \/ /\ activeRequest.method \in InteractiveMethods
          /\ metadata' = "interactive"
          /\ state' = "CheckAuthentication"
    /\ UNCHANGED <<requestsQueue, activeRequest, componentData, output, runVars,
                   sessionVars, connected, ledgerVars, boundVars>>

\* The error event carries no output: SendResponse has nothing to post.
ValidateFails ==
    /\ state = "ValidateRequest"
    /\ \/ activeRequest.method = "unknown" /\ NoFault
       \/ activeRequest.method # "unknown" /\ Fault("reject")
    /\ state' = "SendResponse"
    /\ output' = "empty"
    /\ UNCHANGED <<requestsQueue, activeRequest, metadata, componentData, runVars,
                   sessionVars, connected, ledgerVars, lapses>>

ExecuteSilentDone ==
    /\ state = "ExecuteSilentRequest"
    /\ state' = "SendResponse"
    /\ output' = "result"
    /\ UNCHANGED <<requestsQueue, activeRequest, metadata, componentData, runVars,
                   sessionVars, connected, ledgerVars, boundVars>>

\* prepareFailedResponse builds an error, and nothing takes its promise.
ExecuteSilentFails ==
    /\ state = "ExecuteSilentRequest"
    /\ Fault("reject")
    /\ state' = "SendResponse"
    /\ output' = "empty"
    /\ UNCHANGED <<requestsQueue, activeRequest, metadata, componentData, runVars,
                   sessionVars, connected, ledgerVars, lapses>>

-----------------------------------------------------------------------------
(* Authentication *)

\* Mutant: data that was prepared once for the request is shown again.
CheckPasses_KeepsData ==
    /\ state = "CheckAuthentication"
    /\ SignedIn
    /\ state' = IF componentData # None /\ componentData.request = activeRequest.id
                THEN "PromptInteractiveRequest" ELSE "PrepareComponentData"
    /\ UNCHANGED <<requestsQueue, activeRequest, metadata, componentData, output, runVars,
                   sessionVars, connected, ledgerVars, boundVars>>

CheckPasses ==
    /\ state = "CheckAuthentication"
    /\ SignedIn
    /\ state' = IF metadata = "silent" THEN "ExecuteSilentRequest" ELSE "PrepareComponentData"
    /\ UNCHANGED <<requestsQueue, activeRequest, metadata, componentData, output, runVars,
                   sessionVars, connected, ledgerVars, boundVars>>

CheckFails ==
    /\ state = "CheckAuthentication"
    /\ ~SignedIn
    /\ get
    /\ state' = "Authenticate"
    /\ UNCHANGED <<requestsQueue, activeRequest, metadata, componentData, output, runVars,
                   session, live, setting, connected, ledgerVars, boundVars>>

\* AuthenticationMachine reaches its End: authState.set ran with the new session.
Authenticated ==
    /\ state = "Authenticate"
    /\ session' \in Users
    /\ live' = TRUE
    /\ state' = "CheckAuthentication"
    /\ UNCHANGED <<requestsQueue, activeRequest, metadata, componentData, output, runVars,
                   renewing, setting, connected, ledgerVars, boundVars>>

\* An invocation of AuthenticationMachine without onError rejects.  Neither it
\* nor the RPC machine has a transition for the error: both actors stop.
AuthenticationFails ==
    /\ state = "Authenticate"
    /\ Fault("login")
    /\ state' = "Stopped"
    /\ UNCHANGED <<requestsQueue, activeRequest, metadata, componentData, output, runVars,
                   sessionVars, connected, ledgerVars, lapses>>

-----------------------------------------------------------------------------
(* The prompt *)

\* getComponentData needs an identity; a call also needs its sender among the
\* accounts the dApp is connected with (getSender).
CanServe == SignedIn /\ (activeRequest.method = "call" => connected = activeRequest.sender)

\* Mutant: component data is only assigned when there is none.
PrepareDone_Once ==
    /\ state = "PrepareComponentData"
    /\ CanServe
    /\ componentData' = IF componentData = None
                        THEN [request |-> activeRequest.id, user |-> session]
                        ELSE componentData
    /\ state' = "PromptInteractiveRequest"
    /\ UNCHANGED <<requestsQueue, activeRequest, metadata, output, runVars,
                   sessionVars, connected, ledgerVars, boundVars>>

PrepareDone ==
    /\ state = "PrepareComponentData"
    /\ CanServe
    /\ componentData' = [request |-> activeRequest.id, user |-> session]
    /\ state' = "PromptInteractiveRequest"
    /\ UNCHANGED <<requestsQueue, activeRequest, metadata, output, runVars,
                   sessionVars, connected, ledgerVars, boundVars>>

PrepareFails ==
    /\ state = "PrepareComponentData"
    /\ \/ ~CanServe /\ NoFault
       \/ CanServe /\ Fault("reject")
    /\ get
    /\ state' = "Error"
    /\ UNCHANGED <<requestsQueue, activeRequest, metadata, componentData, output, runVars,
                   session, live, setting, connected, ledgerVars, lapses>>

OnApprove ==
    /\ state = "PromptInteractiveRequest"
    /\ approvals' = approvals + 1
    /\ state' = "ExecuteInteractiveRequest"
    /\ stage' = "start"
    /\ UNCHANGED <<requestsQueue, activeRequest, metadata, componentData, output, signer,
                   sessionVars, connected, received, answered, performed, boundVars>>

\* Mutant: a request can be cancelled while it is executed.
OnCancel_WhileExecuting ==
    /\ state \in {"PromptInteractiveRequest", "ExecuteInteractiveRequest", "Error"}
    /\ state' = "CancelInteractiveRequest"
    /\ UNCHANGED <<requestsQueue, activeRequest, metadata, componentData, output, runVars,
                   sessionVars, connected, ledgerVars, boundVars>>

OnCancel ==
    /\ state \in {"PromptInteractiveRequest", "Error"}
    /\ state' = "CancelInteractiveRequest"
    /\ UNCHANGED <<requestsQueue, activeRequest, metadata, componentData, output, runVars,
                   sessionVars, connected, ledgerVars, boundVars>>

\* onBack signs the user out and then sends ON_BACK; the sign-out is soft and
\* waits for nothing, so no other event comes between.
OnBack ==
    /\ state = "PromptInteractiveRequest"
    /\ lapses < MaxLapses
    /\ lapses' = lapses + 1
    /\ logout
    /\ state' = "CheckAuthentication"
    /\ UNCHANGED <<requestsQueue, activeRequest, metadata, componentData, output, runVars,
                   renewing, setting, connected, ledgerVars, faults>>

\* Mutant: the approved execution is tried again at once.
TryAgain_Executes ==
    /\ state = "Error" /\ componentData # None /\ componentData.request = activeRequest.id
    /\ state' = "ExecuteInteractiveRequest"
    /\ UNCHANGED <<requestsQueue, activeRequest, metadata, componentData, output, runVars,
                   sessionVars, connected, ledgerVars, boundVars>>

TryAgain ==
    /\ state = "Error"
    /\ state' = "CheckAuthentication"
    /\ UNCHANGED <<requestsQueue, activeRequest, metadata, componentData, output, runVars,
                   sessionVars, connected, ledgerVars, boundVars>>

CancelDone ==
    /\ state = "CancelInteractiveRequest"
    /\ state' = "SendResponse"
    /\ output' = "aborted"
    /\ UNCHANGED <<requestsQueue, activeRequest, metadata, componentData, runVars,
                   sessionVars, connected, ledgerVars, boundVars>>

-----------------------------------------------------------------------------
(* onApprove of the interactive methods *)

\* A delegation and a call take the identity of the session of this moment.
TakeIdentity ==
    /\ state = "ExecuteInteractiveRequest"
    /\ stage = "start"
    /\ activeRequest.method \in {"delegation", "call"}
    /\ CanServe
    /\ stage' = "signed"
    /\ signer' = session
    /\ UNCHANGED <<machineVars, sessionVars, connected, ledgerVars, boundVars>>

PerformCall ==
    /\ state = "ExecuteInteractiveRequest"
    /\ stage = "signed"
    /\ activeRequest.method = "call"
    /\ stage' = "performed"
    /\ performed' = performed + 1
    /\ UNCHANGED <<machineVars, signer, sessionVars, connected, received, answered,
                   approvals, boundVars>>

\* The accounts and the delegation methods record the account the user chose
\* in the prompt as connected; the accounts method never looks at the session.
ExecuteDone ==
    /\ state = "ExecuteInteractiveRequest"
    /\ \/ /\ activeRequest.method = "accounts" /\ stage = "start"
          /\ connected' = componentData.user
       \/ /\ activeRequest.method = "delegation" /\ stage = "signed"
          /\ connected' = componentData.user
       \/ /\ activeRequest.method = "call" /\ stage = "performed"
          /\ UNCHANGED connected
    /\ stage' = "start"
    /\ signer' = None
    /\ output' = "result"
    /\ state' = "SendResponse"
    /\ UNCHANGED <<requestsQueue, activeRequest, metadata, componentData,
                   sessionVars, ledgerVars, boundVars>>

ExecuteFails ==
    /\ state = "ExecuteInteractiveRequest"
    /\ \/ /\ stage = "start" /\ activeRequest.method # "accounts" /\ ~CanServe
          /\ get /\ NoFault
       \/ /\ stage = "start" /\ activeRequest.method = "accounts"
          /\ Fault("reject") /\ UNCHANGED renewing
       \/ /\ stage = "signed"
          /\ Fault("reject") /\ UNCHANGED renewing
       \/ /\ stage = "performed"
          /\ Fault("lost") /\ UNCHANGED renewing
    /\ stage' = "start"
    /\ signer' = None
    /\ state' = "Error"
    /\ UNCHANGED <<requestsQueue, activeRequest, metadata, componentData, output,
                   session, live, setting, connected, ledgerVars, lapses>>

-----------------------------------------------------------------------------
(* The answer *)

\* Mutant: the active request is reset and the queue is not moved.
SendResponse_Resets ==
    /\ state = "SendResponse"
    /\ answered' = Append(answered,
          [id |-> activeRequest.id, method |-> activeRequest.method, body |-> output,
           approvals |-> approvals, performed |-> performed])
    /\ activeRequest' = None
    /\ metadata' = None
    /\ approvals' = 0
    /\ performed' = 0
    /\ state' = "Ready"
    /\ output' = None
    /\ UNCHANGED <<requestsQueue, componentData, runVars, sessionVars, connected, received,
                   boundVars>>

SendResponse ==
    /\ state = "SendResponse"
    /\ answered' = Append(answered,
          [id |-> activeRequest.id, method |-> activeRequest.method, body |-> output,
           approvals |-> approvals, performed |-> performed])
    /\ moveQueue(requestsQueue)
    /\ Ready
    /\ output' = None
    /\ UNCHANGED <<componentData, runVars, sessionVars, connected, received, boundVars>>

-----------------------------------------------------------------------------
(* The session, changed by other parts of the page *)

Idle ==
    /\ "idle" \in Lapses /\ lapses < MaxLapses
    /\ session # None
    /\ lapses' = lapses + 1
    /\ logout
    /\ UNCHANGED <<machineVars, runVars, renewing, setting, connected, ledgerVars, faults>>

Expire ==
    /\ "expiry" \in Lapses /\ lapses < MaxLapses
    /\ SignedIn
    /\ lapses' = lapses + 1
    /\ live' = FALSE
    /\ UNCHANGED <<machineVars, runVars, session, renewing, setting, connected,
                   ledgerVars, faults>>

\* Every component that renders calls authState.get().
GetElsewhere ==
    /\ session # None /\ ~live /\ renewing = None
    /\ get
    /\ UNCHANGED <<machineVars, runVars, session, live, setting, connected,
                   ledgerVars, boundVars>>

\* requestFEDelegation resolves; set() is started and not awaited.
RenewalSigned ==
    /\ renewing # None
    /\ setting' = setting \union {renewing}
    /\ renewing' = None
    /\ UNCHANGED <<machineVars, runVars, session, live, connected, ledgerVars, boundVars>>

\* The error reaches invalidateIdentity as its argument hard: the stored data
\* is deleted and the page reloads, with the machine and its requests.
RenewalFails ==
    /\ renewing # None
    /\ Fault("renewal")
    /\ renewing' = None
    /\ logout
    /\ connected' = None
    /\ state' = "Stopped"
    /\ UNCHANGED <<requestsQueue, activeRequest, metadata, componentData, output, runVars,
                   setting, ledgerVars, lapses>>

\* createUserIdData finds the account, or (the delegation was signed with a key
\* that is no account's) it does not and authState stays as it is.
RenewalSet(user) ==
    /\ user \in setting
    /\ setting' = setting \ {user}
    /\ \/ session' = user /\ live' = TRUE
       \/ UNCHANGED <<session, live>>
    /\ UNCHANGED <<machineVars, runVars, renewing, connected, ledgerVars, boundVars>>

-----------------------------------------------------------------------------

Init ==
    /\ state = "Ready"
    /\ requestsQueue = <<>>
    /\ activeRequest = None
    /\ metadata = None
    /\ componentData = None
    /\ output = None
    /\ stage = "start"
    /\ signer = None
    /\ session \in Users \union {None}
    /\ live = (session # None)
    /\ renewing = None
    /\ setting = {}
    /\ connected \in Users \union {None}
    /\ received = 0
    /\ answered = <<>>
    /\ approvals = 0
    /\ performed = 0
    /\ faults = 0
    /\ lapses = 0

Validation == ValidateDone \/ ValidateFails \/ ExecuteSilentDone \/ ExecuteSilentFails
Authentication == CheckPasses \/ CheckFails \/ Authenticated \/ AuthenticationFails
Prompting == PrepareDone \/ PrepareFails \/ OnApprove \/ OnCancel \/ OnBack \/ TryAgain
                \/ CancelDone
Execution == TakeIdentity \/ PerformCall \/ ExecuteDone \/ ExecuteFails
SessionChange == Idle \/ Expire \/ GetElsewhere \/ RenewalSigned \/ RenewalFails
                    \/ \E user \in Users : RenewalSet(user)

Next ==
    \/ OnRequest
    \/ Validation
    \/ Authentication
    \/ Prompting
    \/ Execution
    \/ SendResponse
    \/ SessionChange

Spec == Init /\ [][Next]_vars
\* Every invoked service comes to an end, and a user who is shown a prompt or
\* an error again and again at some point cancels.
Services ==
    \/ Validation \/ CheckPasses \/ CheckFails \/ Authenticated
    \/ PrepareDone \/ PrepareFails \/ CancelDone \/ Execution \/ SendResponse

FairSpec == Spec /\ WF_vars(Services) /\ SF_vars(OnCancel)

-----------------------------------------------------------------------------
(* Correctness *)

\* The values each variable may take: a request is active in every state but
\* Ready, and the metadata of validateRequest is there from then on.
TypeOK ==
    /\ state \in MainStates
    /\ requestsQueue \in Seq(Requests)
    /\ activeRequest \in Requests \union {None}
    /\ metadata \in {"silent", "interactive", None}
    /\ componentData \in [request : Nat, user : Users] \union {None}
    /\ output \in Bodies \union {None}
    /\ stage \in {"start", "signed", "performed"}
    /\ signer \in Users \union {None}
    /\ session \in Users \union {None}
    /\ live \in BOOLEAN
    /\ renewing \in Users \union {None}
    /\ setting \subseteq Users
    /\ connected \in Users \union {None}
    /\ received \in Nat
    /\ answered \in Seq(Answers)
    /\ approvals \in Nat
    /\ performed \in Nat
    /\ faults \in Nat
    /\ lapses \in Nat
    /\ (state = "Ready") => (activeRequest = None)
    /\ (state \notin {"Ready", "Stopped"}) => (activeRequest # None)

\* The answered requests, the active one and the queue are together the
\* requests received, each once and in the order of arrival, whatever failed
\* while they were served: the receiver and SendResponse both move the queue.
NothingLost ==
    /\ \A i \in 1..Len(answered) : answered[i].id = i
    /\ activeRequest # None => activeRequest.id = Len(answered) + 1
    /\ activeRequest = None => requestsQueue = <<>>
    /\ \A i \in 1..Len(requestsQueue) : requestsQueue[i].id = Len(answered) + 1 + i
    /\ received = Len(answered) + (IF activeRequest = None THEN 0 ELSE 1) + Len(requestsQueue)

\* What the user is asked to approve, and what onApprove then works from, was
\* prepared for the request that is active.  componentData survives from one
\* request to the next, through errors, retries and the Back button.
PromptShowsItsRequest ==
    state \in {"PromptInteractiveRequest", "ExecuteInteractiveRequest"} =>
        /\ componentData # None
        /\ componentData.request = activeRequest.id

\* A canister call that goes out has been approved, and one approval sends it
\* at most once: trying again after an error leads back to the prompt.
CallsAreApproved ==
    /\ performed <= approvals
    /\ \A i \in 1..Len(answered) : answered[i].performed <= answered[i].approvals

\* A method that asks the user only ever answers with a result when the user
\* approved, and a canister call only when a canister has performed it.
ResultsAreEarned ==
    \A i \in 1..Len(answered) :
        answered[i].body = "result" =>
            /\ answered[i].method \in InteractiveMethods => answered[i].approvals > 0
            /\ answered[i].method = "call" => answered[i].performed > 0

\* Action aborted is the truth unless the answer of a canister was lost: a
\* request answered with an error was not performed, and one answered with a
\* result was performed once.  Each further time takes a fault of its own.
AbortedMeansNotPerformed ==
    /\ performed <= 1 + faults
    /\ \A i \in 1..Len(answered) :
          answered[i].performed <= faults + (IF answered[i].body = "result" THEN 1 ELSE 0)

\* A delegation or a call is signed for the user for whom the prompt was
\* prepared, although the session can end while the prompt is open and another
\* user can sign in before the next attempt.
SignsForTheUserShown ==
    stage # "start" =>
        /\ signer # None
        /\ signer = componentData.user

\* The window keeps the promise of OrderedService.
Service == INSTANCE OrderedService WITH
               arrived <- received,
               answers <- [i \in 1..Len(answered) |-> answered[i].id]
ServedInOrder == Service!ServiceSpec

\* Every request is answered, whatever the services fail at.
EveryRequestAnswered ==
    \A n \in 1..MaxRequests : (received >= n) ~> (Len(answered) >= n)
=============================================================================
