----------------------------- MODULE EmbedWindow -----------------------------
(***************************************************************************)
(* The embedded wallet that answers the requests of the page around it     *)
(* (features/embed): the machine of machine.ts with its receiver, its      *)
(* sign-in and its procedures, and the approval screens, whose work goes   *)
(* on after the machine has left them.  A request stands for its own       *)
(* parameters; work and answers name the request whose parameters they     *)
(* were made with.                                                         *)
(***************************************************************************)
EXTENDS Naturals, Sequences, FiniteSets

CONSTANTS
  Requests,     \* the requests the page may post
  None,         \* no request
  MaxTrouble    \* bound on the sign-outs, expiries, failures and retries

ASSUME EmbedAssumption == None \notin Requests /\ MaxTrouble \in Nat

Answered == {"ic_getDelegation", "ic_requestTransfer"}  \* by their screens
Methods == Answered \cup {"ic_canisterCall", "ic_renewDelegation"}

VARIABLES
  method,     \* request -> its method, "none" before it is posted
  checking,   \* the requests whose derivation origin is being validated
  accepted,   \* the requests the machine has received, in their order
  queue,      \* context.messageQueue
  message,    \* context.rpcMessage
  origin,     \* rpcMessage.origin is set
  params,     \* the request context.authRequest was made from
  session,    \* context.authSession is set
  signedIn,   \* authState holds a delegation
  auth,       \* state of AUTH
  handle,     \* state of HANDLE_PROCEDURE
  run,        \* the procedure being executed
  screen,     \* the work the approval screen on display waits for
  work,       \* the work of approval screens that is going on
  done,       \* the accepted requests that were answered, in that order
  answer,     \* request -> its answer
  approvals,  \* request -> how often the user approved it
  performed,  \* request -> transfers and canister calls made for it
  closed,     \* requests answered while their work was going on
  failed,     \* the machine has stopped with an error
  trouble     \* how much of MaxTrouble is used up

receiver == <<method, checking, accepted>>
context == <<queue, message, origin, params>>
sign == <<session, signedIn, auth>>
results == <<done, answer, closed>>
deeds == <<approvals, performed>>
vars == <<receiver, context, sign, handle, run, screen, work, results, deeds,
          failed, trouble>>

\* Work for request of, made with the parameters of request by; no is the
\* number of the approval.
Work == [of : Requests, by : Requests, no : Nat]
NoWork == [of |-> None, by |-> None, no |-> 0]

\* The event that started a procedure, the work it brings, and what the
\* procedure found when it started.
Runs == [event : Answered \cup {"APPROVE", ""}, of : Requests \cup {None},
         by : Requests \cup {None}, ok : BOOLEAN, session : BOOLEAN,
         signedIn : BOOLEAN, step : {"start", "call", "reply"}]
NoRun == [event |-> "", of |-> None, by |-> None, ok |-> FALSE,
          session |-> FALSE, signedIn |-> FALSE, step |-> "start"]

Answers == [kind : {"none", "result", "error", "cancel", "invalid"},
            of : Requests \cup {None}, by : Requests \cup {None},
            sent : BOOLEAN]
NoAnswer == [kind |-> "none", of |-> None, by |-> None, sent |-> FALSE]

ReceiverTypes ==
  /\ method \in [Requests -> Methods \cup {"none"}]
  /\ checking \subseteq Requests /\ accepted \in Seq(Requests)

ContextTypes ==
  /\ queue \in Seq(Requests) /\ message \in Requests \cup {None}
  /\ origin \in BOOLEAN /\ params \in Requests \cup {None}

SignTypes ==
  /\ session \in BOOLEAN /\ signedIn \in BOOLEAN
  /\ auth \in {"CheckAppMeta", "CheckAuthentication", "Authenticate",
               "Authenticated"}

ProcedureTypes ==
  /\ handle \in {"READY", "AWAIT", "EXECUTE", "ERROR"}
  /\ (handle # "READY" => message # None)
  /\ run \in Runs
  /\ screen \in Work \cup {NoWork} /\ work \subseteq Work

ResultTypes ==
  /\ done \in Seq(Requests) /\ answer \in [Requests -> Answers]
  /\ closed \subseteq Requests

DeedTypes ==
  approvals \in [Requests -> Nat] /\ performed \in [Requests -> Nat]

TypeOK ==
  /\ ReceiverTypes /\ ContextTypes /\ SignTypes /\ ProcedureTypes
  /\ ResultTypes /\ DeedTypes
  /\ failed \in BOOLEAN /\ trouble \in 0..MaxTrouble

Init ==
  /\ method = [r \in Requests |-> "none"] /\ checking = {}
  /\ accepted = <<>> /\ queue = <<>>
  /\ message = None /\ origin = FALSE /\ params = None
  /\ session = FALSE /\ signedIn \in BOOLEAN /\ auth = "CheckAppMeta"
  /\ handle = "READY" /\ run = NoRun /\ screen = NoWork /\ work = {}
  /\ done = <<>> /\ answer = [r \in Requests |-> NoAnswer] /\ closed = {}
  /\ approvals = [r \in Requests |-> 0] /\ performed = [r \in Requests |-> 0]
  /\ failed = FALSE /\ trouble = 0

Trouble == trouble < MaxTrouble /\ trouble' = trouble + 1
NoTrouble == UNCHANGED trouble

-----------------------------------------------------------------------------
(* What a macrostep of the machine ends with *)

\* The always transitions of READY.
IsAutoApprovable_Calls ==
  message # None /\ method[message] \in {"ic_renewDelegation", "ic_canisterCall"}

IsAutoApprovable == message # None /\ method[message] = "ic_renewDelegation"

HasProcedure_Session == session

HasProcedure == message # None /\ session

Starts(event, w, ok) ==
  run' = [event |-> event, of |-> w.of, by |-> w.by, ok |-> ok,
          session |-> session', signedIn |-> signedIn', step |-> "start"]

FromReady ==
  \/ IsAutoApprovable' /\ handle' = "EXECUTE" /\ Starts("", NoWork, FALSE)
  \/ ~IsAutoApprovable' /\ HasProcedure' /\ handle' = "AWAIT" /\ run' = NoRun
  \/ /\ ~IsAutoApprovable' /\ ~HasProcedure'
     /\ handle' = "READY" /\ run' = NoRun

Settles_Waits == UNCHANGED <<handle, run>>

Settles ==
  \/ handle = "READY" /\ FromReady
  \/ handle # "READY" /\ UNCHANGED <<handle, run>>

\* NFIDEmbedCoordinator and ProcedureApprovalCoordinator: the request whose
\* approval is on display.  Two requests of one method in a row are shown by
\* one instance of the screen, which keeps waiting for what it waits for.
Shown == IF handle = "AWAIT" /\ auth # "Authenticate" THEN message ELSE None
Kept == Shown # None /\ Shown' # None /\ method[Shown] = method[Shown']
Renders(w) == screen' = IF Kept THEN w ELSE NoWork

-----------------------------------------------------------------------------
(* RPC_RECEIVER *)

AssignProcedure_KeepsRequest(r) ==
  /\ message' = r /\ origin' = TRUE
  /\ params' = IF params = None THEN r ELSE params
  /\ UNCHANGED queue

AssignProcedure(r) ==
  message' = r /\ origin' = TRUE /\ params' = r /\ UNCHANGED queue

QueueRequest(r) ==
  queue' = Append(queue, r) /\ UNCHANGED <<message, origin, params>>

RpcMessage(r) ==
  /\ ~failed
  /\ accepted' = Append(accepted, r)
  /\ IF message = None THEN AssignProcedure(r) ELSE QueueRequest(r)
  /\ UNCHANGED sign
  /\ Settles /\ Renders(screen)
  /\ UNCHANGED <<work, results, deeds, failed>>

\* A request without a derivation origin is received as it comes.
Post(r) ==
  /\ method[r] = "none"
  /\ \E m \in Methods : method' = [method EXCEPT ![r] = m]
  /\ UNCHANGED checking /\ RpcMessage(r) /\ NoTrouble

PostWithOrigin(r) ==
  /\ method[r] = "none"
  /\ \E m \in Methods : method' = [method EXCEPT ![r] = m]
  /\ checking' = checking \cup {r}
  /\ UNCHANGED <<accepted, context, sign, handle, run, screen, work, results,
                 deeds, failed, trouble>>

\* validateDerivationOrigin has fetched the alternative origins: the requests
\* validated at the same time are received in the order of the answers.
Validated(r) ==
  /\ r \in checking /\ checking' = checking \ {r}
  /\ UNCHANGED method /\ RpcMessage(r) /\ NoTrouble

Invalid(r) ==
  /\ r \in checking /\ checking' = checking \ {r}
  /\ answer' = [answer EXCEPT ![r] =
                  [kind |-> "invalid", of |-> r, by |-> r, sent |-> TRUE]]
  /\ UNCHANGED <<method, accepted, context, sign, handle, run, screen, work,
                 done, closed, deeds, failed, trouble>>

-----------------------------------------------------------------------------
(* AUTH *)

Auth(state) ==
  /\ ~failed /\ auth' = state
  /\ UNCHANGED <<receiver, context, work, results, deeds, failed>>
  /\ Settles /\ Renders(screen)

CheckAppMeta ==
  /\ auth = "CheckAppMeta" /\ UNCHANGED <<session, signedIn>>
  /\ Auth("CheckAuthentication") /\ NoTrouble

\* CheckAuthState: no session in the cache, or no profile for it.
CheckAuthentication ==
  /\ auth = "CheckAuthentication" /\ UNCHANGED signedIn
  /\ \/ signedIn /\ session' = TRUE /\ Auth("Authenticated") /\ NoTrouble
     \/ ~signedIn /\ UNCHANGED session /\ Auth("Authenticate") /\ NoTrouble
     \/ signedIn /\ UNCHANGED session /\ Auth("Authenticate") /\ Trouble

Authenticate ==
  /\ auth = "Authenticate" /\ signedIn' = TRUE /\ session' = TRUE
  /\ Auth("Authenticated") /\ NoTrouble

\* An action that throws stops the machine.
Stops ==
  /\ failed' = TRUE
  /\ UNCHANGED <<receiver, context, sign, handle, run, screen, work, results,
                 deeds>>

\* sessionExpiryActor; nfid_unauthenticated needs the origin of a request.
SessionExpired ==
  /\ ~failed /\ auth = "Authenticated" /\ Trouble
  /\ IF message # None /\ origin
     THEN UNCHANGED <<session, signedIn>> /\ Auth("Authenticate")
     ELSE Stops

\* authState.get finds an expired delegation that cannot be renewed.
LosesDelegation ==
  /\ signedIn /\ Trouble /\ signedIn' = FALSE
  /\ UNCHANGED <<receiver, context, session, auth, handle, run, screen, work,
                 results, deeds, failed>>

\* AuthChooseAccount signs out: the back button, or accounts it cannot fetch.
Reset ==
  /\ ~failed /\ Shown # None /\ method[Shown] = "ic_getDelegation" /\ Trouble
  /\ signedIn' = FALSE /\ UNCHANGED session
  /\ auth' = "CheckAppMeta" /\ UNCHANGED <<receiver, context>>
  /\ FromReady /\ Renders(screen)
  /\ UNCHANGED <<work, results, deeds, failed>>

-----------------------------------------------------------------------------
(* HANDLE_PROCEDURE *)

UpdateProcedure_KeepsRequest ==
  /\ message' = (IF queue = <<>> THEN None ELSE Head(queue))
  /\ queue' = queue /\ origin' = FALSE /\ UNCHANGED params

UpdateProcedure ==
  /\ message' = (IF queue = <<>> THEN None ELSE Head(queue))
  /\ queue' = (IF queue = <<>> THEN <<>> ELSE Tail(queue))
  /\ origin' = FALSE /\ UNCHANGED params

\* The answer to the current request is posted, and the next one is handled.
Responds(kind, w) ==
  /\ answer' = [answer EXCEPT ![message] =
                  [kind |-> kind, of |-> w.of, by |-> w.by, sent |-> origin]]
  /\ done' = Append(done, message)
  /\ closed' = IF \E v \in work' : v.of = message THEN closed \cup {message}
               ELSE closed
  /\ UpdateProcedure /\ UNCHANGED <<receiver, sign>>
  /\ FromReady /\ Renders(screen)
  /\ UNCHANGED <<deeds, failed>>

Own == [of |-> message, by |-> message]

\* sendRPCCancelResponse throws without an origin.
Cancels ==
  IF origin THEN UNCHANGED work /\ Responds("cancel", Own) ELSE Stops

\* Reject, or a click beside the modal, which is there behind every screen.
Cancel == ~failed /\ handle = "AWAIT" /\ Cancels /\ NoTrouble

Executes(event, w, ok) ==
  /\ handle' = "EXECUTE" /\ UNCHANGED <<receiver, context, sign>>
  /\ Starts(event, w, ok) /\ Renders(screen)

\* RequestCanisterCall: the machine makes the call.
ApproveCall ==
  /\ ~failed /\ Shown # None /\ method[Shown] = "ic_canisterCall"
  /\ approvals' = [approvals EXCEPT ![message] = @ + 1]
  /\ Executes("APPROVE", NoWork, TRUE)
  /\ UNCHANGED <<work, results, performed, failed>> /\ NoTrouble

\* AuthChooseAccount, RequestTransfer: the screen does the work and sends its
\* result.  The delegation is made with context.authRequest.
Approve ==
  /\ ~failed /\ Shown # None /\ method[Shown] \in Answered /\ screen = NoWork
  /\ approvals' = [approvals EXCEPT ![message] = @ + 1]
  /\ LET w == [of |-> message, no |-> approvals[message] + 1,
               by |-> IF method[message] = "ic_getDelegation" THEN params
                      ELSE message]
     IN work' = work \cup {w} /\ screen' = w
  /\ UNCHANGED <<receiver, context, sign, handle, run, results, performed,
                 failed>> /\ NoTrouble

RejectTransfer ==
  /\ ~failed /\ Shown # None /\ method[Shown] = "ic_requestTransfer"
  /\ screen = NoWork
  /\ Executes("ic_requestTransfer", NoWork, FALSE)
  /\ UNCHANGED <<work, results, deeds, failed>> /\ NoTrouble

\* The event is taken by whichever request awaits its approval.
Sends(w, ok) ==
  IF handle = "AWAIT" /\ ~failed
  THEN Executes(method[w.of], w, ok)
  ELSE /\ screen' = (IF screen = w THEN NoWork ELSE screen)
       /\ UNCHANGED <<receiver, context, sign, handle, run>>

\* TransferSuccess reports only while it is on display, or five seconds after.
Lost(w) ==
  /\ method[w.of] = "ic_requestTransfer" /\ screen # w
  /\ UNCHANGED <<receiver, context, sign, handle, run, screen>>

WorkDone(w) ==
  /\ w \in work /\ work' = work \ {w}
  /\ \/ performed' = (IF method[w.of] = "ic_requestTransfer"
                      THEN [performed EXCEPT ![w.of] = @ + 1] ELSE performed)
        /\ (Sends(w, TRUE) \/ Lost(w)) /\ NoTrouble
     \/ UNCHANGED performed /\ (Sends(w, FALSE) \/ Lost(w)) /\ Trouble
  /\ UNCHANGED <<results, approvals, failed>>

\* ExecuteProcedureService rejects: onError.
Rejects ==
  /\ handle' = "ERROR" /\ run' = NoRun
  /\ UNCHANGED <<receiver, context, sign, work, results, deeds, failed>>
  /\ Renders(screen)

Running(methods) ==
  ~failed /\ handle = "EXECUTE" /\ run.session /\ method[message] \in methods

MissingSession ==
  /\ ~failed /\ handle = "EXECUTE" /\ ~run.session /\ Rejects /\ NoTrouble

\* ic_getDelegation and ic_requestTransfer answer with what the event brings,
\* and with an error to any other event.
CanHandle == run.event = method[message] /\ run.ok

AnswerWork ==
  /\ Running(Answered) /\ UNCHANGED work /\ NoTrouble
  /\ IF CanHandle THEN Responds("result", run) ELSE Responds("error", Own)

RenewDelegation ==
  /\ Running({"ic_renewDelegation"}) /\ UNCHANGED work
  /\ \/ run.signedIn /\ Responds("result", Own) /\ NoTrouble
     \/ ~run.signedIn /\ Responds("error", Own) /\ NoTrouble
     \/ run.signedIn /\ Responds("error", Own) /\ Trouble

\* getGlobalDelegation, outside of the try.
GetDelegation ==
  /\ Running({"ic_canisterCall"}) /\ run.step = "start"
  /\ \/ /\ run.signedIn /\ run' = [run EXCEPT !.step = "call"] /\ NoTrouble
        /\ UNCHANGED <<receiver, context, sign, handle, screen, work, results,
                       deeds, failed>>
     \/ ~run.signedIn /\ Rejects /\ NoTrouble
     \/ run.signedIn /\ Rejects /\ Trouble

\* executeCanisterCall: the request reaches the canister.
CallCanister ==
  /\ Running({"ic_canisterCall"}) /\ run.step = "call"
  /\ performed' = [performed EXCEPT ![message] = @ + 1]
  /\ run' = [run EXCEPT !.step = "reply"]
  /\ UNCHANGED <<receiver, context, sign, handle, screen, work, results,
                 approvals, failed>> /\ NoTrouble

\* The reply, or an error: one whose text is JSON is answered, and any other
\* makes JSON.parse throw.
CallReturns ==
  /\ Running({"ic_canisterCall"})
  /\ \/ /\ run.step = "reply" /\ UNCHANGED work
        /\ Responds("result", Own) /\ NoTrouble
     \/ /\ run.step \in {"call", "reply"} /\ UNCHANGED work
        /\ Responds("error", Own) /\ Trouble
     \/ run.step \in {"call", "reply"} /\ Rejects /\ Trouble

\* PageError.  RETRY asks for an approval also where the first attempt needed
\* none; a page that awaits one without a session throws.
ErrorShown == ~failed /\ handle = "ERROR" /\ auth # "Authenticate"

Retry ==
  /\ ErrorShown /\ Trouble
  /\ IF session
     THEN /\ handle' = "AWAIT"
          /\ UNCHANGED <<receiver, context, sign, run, work, results, deeds,
                         failed>>
          /\ Renders(screen)
     ELSE Stops

CancelError == ErrorShown /\ Cancels /\ NoTrouble

-----------------------------------------------------------------------------
Handling ==
  \/ Cancel \/ ApproveCall \/ Approve \/ RejectTransfer
  \/ \E w \in work : WorkDone(w)
  \/ MissingSession \/ AnswerWork \/ RenewDelegation
  \/ GetDelegation \/ CallCanister \/ CallReturns
  \/ Retry \/ CancelError

Progress ==
  \/ \E r \in Requests : Validated(r) \/ Invalid(r)
  \/ CheckAppMeta \/ CheckAuthentication \/ Authenticate
  \/ Handling

Next ==
  \/ \E r \in Requests : Post(r) \/ PostWithOrigin(r)
  \/ SessionExpired \/ LosesDelegation \/ Reset
  \/ Progress

Spec == Init /\ [][Next]_vars

\* The network answers, and the user signs in and decides.
FairSpec == Spec /\ WF_vars(Progress)

-----------------------------------------------------------------------------
(* Properties *)

Current == IF message = None THEN <<>> ELSE <<message>>

\* machine.ts, assignProcedure, queueRequest and updateProcedure: every request
\* the machine has received is answered, being handled or in the queue, once
\* and in the order of their arrival.
NoneLostOrReordered == accepted = done \o Current \o queue

\* execute-procedure.ts runs a canister call for any event: a call or transfer
\* is made without an approval of its own only after a request was closed while
\* its screen's work went on.
MadeOnApproval ==
  \A r \in Requests : performed[r] > approvals[r] => closed # {}

\* execute-procedure.ts: the delegation or transfer a request is answered with
\* was made for it, unless a request was closed while its work went on, and
\* from its own parameters, unless it was queued: updateProcedure leaves
\* authRequest alone.
AnswersAreOwn ==
  \A r \in Requests :
    answer[r].kind = "result" =>
      \/ closed # {}
      \/ answer[r].of = r /\ (answer[r].sent => answer[r].by = r)

\* The embedded wallet keeps the promise of OrderedService, as the RPC window
\* does: a request is named by its place among those received.
Turn(r) == CHOOSE i \in 1..Len(accepted) : accepted[i] = r

Service == INSTANCE OrderedService WITH
             arrived <- Len(accepted),
             answers <- [n \in 1..Len(done) |-> Turn(done[n])]

ServedInOrder == Service!ServiceSpec

\* machine.ts, the always transitions of READY: a request that is not handled
\* waits for the user to sign in, and for nothing else.
WaitsForSignIn == handle = "READY" /\ message # None => ~session

\* A request that was received is answered, unless the machine stops.
AcceptedAreAnswered ==
  \A r \in Requests :
    message = r ~> failed \/ answer[r].kind # "none"

=============================================================================
