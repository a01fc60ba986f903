--------------------------- MODULE EmbedWindowProofs ---------------------------
(***************************************************************************)
(* Proofs about EmbedWindow, for any number of requests and any number of  *)
(* sign-outs, failures and retries.                                        *)
(***************************************************************************)
EXTENDS EmbedWindow, TLAPS, FiniteSetTheorems, SequenceTheorems

\* What the machine knows of was posted, and work has a screen.
Posted ==
  /\ message # None => method[message] \in Methods
  /\ \A i \in 1..Len(queue) : method[queue[i]] \in Methods
  /\ \A r \in checking : method[r] \in Methods
  /\ \A w \in work : method[w.of] \in Answered

\* A request waits in the queue only behind another one.
InTurn == NoneLostOrReordered /\ (message = None => queue = <<>>)

ParamsAreCurrent ==
  message # None => params # None /\ (origin => params = message)

\* As long as no request was closed with its work going on: work is for the
\* current request, and so is what a screen has sent.
Current1(of, by) == of = message /\ (origin => by = message)

WorkIsCurrent == closed = {} => \A w \in work : Current1(w.of, w.by)

RunIsCurrent ==
  closed = {} /\ handle = "EXECUTE" /\ run.ok /\ run.event \in Answered
    => Current1(run.of, run.by)

\* An approval is spent once: by work, by a call to be made, or by the deed.
WorkOf(r) == {w \in work : w.of = r}

Pending(r) ==
  IF /\ handle = "EXECUTE" /\ message = r
     /\ method[r] = "ic_canisterCall" /\ run.step # "reply"
  THEN 1 ELSE 0

ApprovalsCover ==
  closed = {} => \A r \in Requests :
    performed[r] + Cardinality(WorkOf(r)) + Pending(r) <= approvals[r]

IInv ==
  /\ TypeOK /\ IsFiniteSet(work) /\ Posted /\ InTurn
  /\ ParamsAreCurrent /\ WorkIsCurrent /\ RunIsCurrent /\ ApprovalsCover
  /\ AnswersAreOwn

\* A step that keeps requests, work and answers.
QuietRun ==
  \/ UNCHANGED <<handle, run>>
  \/ FromReady
  \/ handle' = "ERROR" /\ run' = NoRun /\ message # None
  \/ handle = "ERROR" /\ handle' = "AWAIT" /\ UNCHANGED run
  \/ /\ handle = "EXECUTE" /\ run.step = "start" /\ UNCHANGED handle
     /\ run' = [run EXCEPT !.step = "call"]

Quiet ==
  /\ UNCHANGED <<receiver, context, results, deeds, work>>
  /\ QuietRun

\* A step that answers the current request.
Carries(kind, w) ==
  kind = "result" =>
    \/ w.of = message /\ w.by = message
    \/ /\ handle = "EXECUTE" /\ method[message] \in Answered /\ CanHandle
       /\ w = run

Closes ==
  /\ handle # "READY" /\ UNCHANGED work
  /\ \E kind \in {"result", "error", "cancel"}, w \in {run, Own} :
       Responds(kind, w) /\ Carries(kind, w)

-----------------------------------------------------------------------------

\* What joining requests in their order comes to.
LEMMA ReceivedLast ==
  ASSUME NEW d \in Seq(Requests), NEW q \in Seq(Requests), NEW m \in Requests, NEW r \in Requests
  PROVE  /\ Append(d \o <<m>> \o q, r) = d \o <<m>> \o Append(q, r)
         /\ Append(d \o <<>> \o <<>>, r) = d \o <<r>> \o <<>>
<1>1. <<m>> \in Seq(Requests) /\ <<r>> \in Seq(Requests) /\ <<>> \in Seq(Requests)
  BY EmptySeq
<1>2. d \o <<m>> \in Seq(Requests)
  BY <1>1, ConcatProperties
<1>3. /\ Append(q, r) = q \o <<r>> /\ Append(d, r) = d \o <<r>>
      /\ Append(d \o <<m>> \o q, r) = (d \o <<m>> \o q) \o <<r>>
  BY <1>1, <1>2, ConcatProperties, AppendIsConcat
<1>4. (d \o <<m>> \o q) \o <<r>> = d \o <<m>> \o (q \o <<r>>)
  BY <1>1, <1>2, ConcatAssociative
<1>5. d \o <<>> \o <<>> = d /\ d \o <<r>> \o <<>> = d \o <<r>>
  BY <1>1, ConcatEmptySeq, ConcatProperties
<1> QED
  BY <1>3, <1>4, <1>5

LEMMA AnsweredFirst ==
  ASSUME NEW d \in Seq(Requests), NEW q \in Seq(Requests), NEW m \in Requests
  PROVE  /\ q # <<>> =>
              d \o <<m>> \o q = Append(d, m) \o <<Head(q)>> \o Tail(q)
         /\ d \o <<m>> \o <<>> = Append(d, m) \o <<>> \o <<>>
<1>1. <<m>> \in Seq(Requests) /\ <<>> \in Seq(Requests) /\ d \o <<m>> \in Seq(Requests)
  <2>1. <<m>> \in Seq(Requests) /\ <<>> \in Seq(Requests)
    BY EmptySeq
  <2> QED
    BY <2>1, ConcatProperties
<1>2. Append(d, m) = d \o <<m>>
  BY AppendIsConcat
<1>3. ASSUME q # <<>>
      PROVE  d \o <<m>> \o q = Append(d, m) \o <<Head(q)>> \o Tail(q)
  <2>1. Head(q) \in Requests /\ Tail(q) \in Seq(Requests)
    BY <1>3, HeadTailProperties
  <2>2. <<Head(q)>> \in Seq(Requests)
    BY <2>1
  <2>3. q = <<Head(q)>> \o Tail(q)
    <3>1. <<Head(q)>> \o Tail(q) \in Seq(Requests)
      BY <2>1, <2>2, ConcatProperties
    <3>2. /\ Len(<<Head(q)>>) = 1 /\ <<Head(q)>>[1] = q[1]
          /\ Len(q) \in Nat \ {0} /\ Len(Tail(q)) = Len(q) - 1
          /\ \A i \in 1..Len(Tail(q)) : Tail(q)[i] = q[i + 1]
      BY <1>3, <2>1, EmptySeq, HeadTailProperties
    <3>3. /\ Len(<<Head(q)>> \o Tail(q)) = Len(q)
          /\ \A i \in 1..Len(q) : (<<Head(q)>> \o Tail(q))[i] =
               IF i <= 1 THEN <<Head(q)>>[i] ELSE Tail(q)[i - 1]
      BY <2>1, <2>2, <3>2, ConcatProperties
    <3>4. \A i \in 1..Len(q) : (<<Head(q)>> \o Tail(q))[i] = q[i]
      BY <3>2, <3>3
    <3> QED
      BY <3>1, <3>3, <3>4, SeqEqual
  <2>4. (d \o <<m>>) \o (<<Head(q)>> \o Tail(q))
          = ((d \o <<m>>) \o <<Head(q)>>) \o Tail(q)
    BY <1>1, <2>1, <2>2, ConcatAssociative
  <2> QED
    BY <1>2, <2>3, <2>4
<1>4. (d \o <<m>>) \o <<>> = d \o <<m>>
  BY <1>1, ConcatEmptySeq
<1> QED
  BY <1>2, <1>3, <1>4

-----------------------------------------------------------------------------

\* The steps that keep requests, work and answers.
LEMMA QuietSteps ==
  ASSUME TypeOK,
         \/ CheckAppMeta \/ CheckAuthentication \/ Authenticate
         \/ SessionExpired \/ LosesDelegation \/ Reset
         \/ MissingSession \/ GetDelegation \/ Retry
  PROVE  Quiet
<1> USE DEF vars, receiver, context, sign, results, deeds, TypeOK,
  ProcedureTypes, Quiet, QuietRun
<1>1. CASE CheckAppMeta
  BY <1>1 DEF CheckAppMeta, Auth, Settles
<1>2. CASE CheckAuthentication
  BY <1>2 DEF CheckAuthentication, Auth, Settles
<1>3. CASE Authenticate
  BY <1>3 DEF Authenticate, Auth, Settles
<1>4. CASE SessionExpired
  BY <1>4 DEF SessionExpired, Auth, Settles, Stops
<1>5. CASE LosesDelegation
  BY <1>5 DEF LosesDelegation
<1>6. CASE Reset
  BY <1>6 DEF Reset, Shown
<1>7. CASE MissingSession
  BY <1>7 DEF MissingSession, Rejects
<1>8. CASE GetDelegation
  BY <1>8 DEF GetDelegation, Running, Rejects
<1>9. CASE Retry
  BY <1>9 DEF Retry, ErrorShown, Stops
<1> QED
  BY <1>1, <1>2, <1>3, <1>4, <1>5, <1>6, <1>7, <1>8, <1>9

\* The steps that answer the current request, or stop the machine.
LEMMA AnsweringSteps ==
  ASSUME TypeOK,
         \/ Cancel \/ CancelError \/ AnswerWork
         \/ RenewDelegation \/ CallReturns
  PROVE  Quiet \/ Closes
<1>1. CASE Cancel
  <2>1. CASE origin
    BY <1>1, <2>1 DEF Cancel, Cancels, Own, Closes, Carries
  <2>2. CASE ~origin
    BY <1>1, <2>2 DEF Cancel, Cancels, Stops, Own, Quiet, QuietRun, vars,
      receiver, context, sign, results, deeds
  <2> QED
    BY <2>1, <2>2
<1>2. CASE CancelError
  <2>1. CASE origin
    BY <1>2, <2>1 DEF CancelError, ErrorShown, Cancels, Own, Closes,
      Carries
  <2>2. CASE ~origin
    BY <1>2, <2>2 DEF CancelError, ErrorShown, Cancels, Stops, Own, Quiet,
      QuietRun, vars, receiver, context, sign, results, deeds
  <2> QED
    BY <2>1, <2>2
<1>3. CASE AnswerWork
  <2>1. CASE CanHandle
    BY <1>3, <2>1 DEF AnswerWork, Running, Own, Closes, Carries
  <2>2. CASE ~CanHandle
    BY <1>3, <2>2 DEF AnswerWork, Running, Own, Closes, Carries
  <2> QED
    BY <2>1, <2>2
<1>4. CASE RenewDelegation
  BY <1>4 DEF RenewDelegation, Running, Own, Closes, Carries
<1>5. CASE CallReturns
  <2>1. CASE Rejects
    BY <1>5, <2>1 DEF CallReturns, Running, Rejects, Quiet, QuietRun,
      TypeOK, ProcedureTypes, vars, receiver, context, sign, results,
      deeds
  <2>2. CASE ~Rejects
    BY <1>5, <2>2 DEF CallReturns, Running, Own, Closes, Carries
  <2> QED
    BY <2>1, <2>2
<1> QED
  BY <1>1, <1>2, <1>3, <1>4, <1>5

\* The variables that the proofs ask no more of than their types.
LEMMA SideTypes ==
  ASSUME TypeOK, ParamsAreCurrent, [Next]_vars
  PROVE  /\ SignTypes' /\ screen' \in Work \cup {NoWork}
         /\ failed' \in BOOLEAN /\ trouble' \in 0..MaxTrouble
<1> DEFINE Goal == /\ SignTypes' /\ screen' \in Work \cup {NoWork}
                   /\ failed' \in BOOLEAN /\ trouble' \in 0..MaxTrouble
<1> USE EmbedAssumption DEF vars, receiver, context, sign, results, deeds,
  SignTypes, Renders
<1>0. /\ SignTypes /\ screen \in Work \cup {NoWork} /\ work \subseteq Work
      /\ failed \in BOOLEAN /\ trouble \in 0..MaxTrouble
  BY DEF TypeOK, ProcedureTypes
<1>1. ASSUME NEW r \in Requests, Post(r)
    PROVE  Goal
  <2>1. SignTypes' /\ failed' \in BOOLEAN
    BY <1>0, <1>1 DEF Post, RpcMessage, AssignProcedure, QueueRequest
  <2>2. screen' \in Work \cup {NoWork}
    BY <1>0, <1>1 DEF Post, RpcMessage, AssignProcedure, QueueRequest
  <2>3. trouble' \in 0..MaxTrouble
    BY <1>0, <1>1 DEF Post, RpcMessage, NoTrouble
  <2> QED
    BY <2>1, <2>2, <2>3
<1>2. ASSUME NEW r \in Requests, Validated(r)
    PROVE  Goal
  <2>1. SignTypes' /\ failed' \in BOOLEAN
    BY <1>0, <1>2 DEF Validated, RpcMessage, AssignProcedure, QueueRequest
  <2>2. screen' \in Work \cup {NoWork}
    BY <1>0, <1>2 DEF Validated, RpcMessage, AssignProcedure, QueueRequest
  <2>3. trouble' \in 0..MaxTrouble
    BY <1>0, <1>2 DEF Validated, RpcMessage, NoTrouble
  <2> QED
    BY <2>1, <2>2, <2>3
<1>3. ASSUME NEW r \in Requests, PostWithOrigin(r)
    PROVE  Goal
  <2>1. SignTypes' /\ failed' \in BOOLEAN
    BY <1>0, <1>3 DEF PostWithOrigin
  <2>2. screen' \in Work \cup {NoWork}
    BY <1>0, <1>3 DEF PostWithOrigin
  <2>3. trouble' \in 0..MaxTrouble
    BY <1>0, <1>3 DEF PostWithOrigin
  <2> QED
    BY <2>1, <2>2, <2>3
<1>4. ASSUME NEW r \in Requests, Invalid(r)
    PROVE  Goal
  <2>1. SignTypes' /\ failed' \in BOOLEAN
    BY <1>0, <1>4 DEF Invalid
  <2>2. screen' \in Work \cup {NoWork}
    BY <1>0, <1>4 DEF Invalid
  <2>3. trouble' \in 0..MaxTrouble
    BY <1>0, <1>4 DEF Invalid
  <2> QED
    BY <2>1, <2>2, <2>3
<1>5. ASSUME CheckAppMeta
    PROVE  Goal
  <2>1. SignTypes' /\ failed' \in BOOLEAN
    BY <1>0, <1>5 DEF CheckAppMeta, Auth
  <2>2. screen' \in Work \cup {NoWork}
    BY <1>0, <1>5 DEF CheckAppMeta, Auth
  <2>3. trouble' \in 0..MaxTrouble
    BY <1>0, <1>5 DEF CheckAppMeta, Auth, NoTrouble
  <2> QED
    BY <2>1, <2>2, <2>3
<1>6. ASSUME CheckAuthentication
    PROVE  Goal
  <2>1. SignTypes' /\ failed' \in BOOLEAN
    BY <1>0, <1>6 DEF CheckAuthentication, Auth
  <2>2. screen' \in Work \cup {NoWork}
    BY <1>0, <1>6 DEF CheckAuthentication, Auth
  <2>3. trouble' \in 0..MaxTrouble
    BY <1>0, <1>6 DEF CheckAuthentication, Auth, NoTrouble, Trouble
  <2> QED
    BY <2>1, <2>2, <2>3
<1>7. ASSUME Authenticate
    PROVE  Goal
  <2>1. SignTypes' /\ failed' \in BOOLEAN
    BY <1>0, <1>7 DEF Authenticate, Auth
  <2>2. screen' \in Work \cup {NoWork}
    BY <1>0, <1>7 DEF Authenticate, Auth
  <2>3. trouble' \in 0..MaxTrouble
    BY <1>0, <1>7 DEF Authenticate, Auth, NoTrouble
  <2> QED
    BY <2>1, <2>2, <2>3
<1>8. ASSUME SessionExpired
    PROVE  Goal
  <2>1. SignTypes' /\ failed' \in BOOLEAN
    BY <1>0, <1>8 DEF SessionExpired, Auth, Stops
  <2>2. screen' \in Work \cup {NoWork}
    BY <1>0, <1>8 DEF SessionExpired, Auth, Stops
  <2>3. trouble' \in 0..MaxTrouble
    BY <1>0, <1>8 DEF SessionExpired, Auth, Stops, Trouble
  <2> QED
    BY <2>1, <2>2, <2>3
<1>9. ASSUME LosesDelegation
    PROVE  Goal
  <2>1. SignTypes' /\ failed' \in BOOLEAN
    BY <1>0, <1>9 DEF LosesDelegation
  <2>2. screen' \in Work \cup {NoWork}
    BY <1>0, <1>9 DEF LosesDelegation
  <2>3. trouble' \in 0..MaxTrouble
    BY <1>0, <1>9 DEF LosesDelegation, Trouble
  <2> QED
    BY <2>1, <2>2, <2>3
<1>10. ASSUME Reset
    PROVE  Goal
  <2>1. SignTypes' /\ failed' \in BOOLEAN
    BY <1>0, <1>10 DEF Reset
  <2>2. screen' \in Work \cup {NoWork}
    BY <1>0, <1>10 DEF Reset
  <2>3. trouble' \in 0..MaxTrouble
    BY <1>0, <1>10 DEF Reset, Trouble
  <2> QED
    BY <2>1, <2>2, <2>3
<1>11. ASSUME Cancel
    PROVE  Goal
  <2>1. SignTypes' /\ failed' \in BOOLEAN
    BY <1>0, <1>11 DEF Cancel, Cancels, Responds, Stops
  <2>2. screen' \in Work \cup {NoWork}
    BY <1>0, <1>11 DEF Cancel, Cancels, Responds, Stops
  <2>3. trouble' \in 0..MaxTrouble
    BY <1>0, <1>11 DEF Cancel, Cancels, Responds, Stops, NoTrouble
  <2> QED
    BY <2>1, <2>2, <2>3
<1>12. ASSUME ApproveCall
    PROVE  Goal
  <2>1. SignTypes' /\ failed' \in BOOLEAN
    BY <1>0, <1>12 DEF ApproveCall, Executes
  <2>2. screen' \in Work \cup {NoWork}
    BY <1>0, <1>12 DEF ApproveCall, Executes
  <2>3. trouble' \in 0..MaxTrouble
    BY <1>0, <1>12 DEF ApproveCall, Executes, NoTrouble
  <2> QED
    BY <2>1, <2>2, <2>3
<1>13. ASSUME Approve
    PROVE  Goal
  <2>1. message \in Requests /\ params \in Requests
    <3>1. message # None
      BY <1>13 DEF Approve, Shown
    <3> QED
      BY <3>1 DEF TypeOK, ContextTypes, ParamsAreCurrent
  <2>2. approvals[message] + 1 \in Nat
    BY <2>1 DEF TypeOK, DeedTypes
  <2>3. screen' \in Work
    BY <1>13, <2>1, <2>2 DEF Approve, Work
  <2> QED
    BY <1>0, <1>13, <2>3 DEF Approve, NoTrouble
<1>14. ASSUME RejectTransfer
    PROVE  Goal
  <2>1. SignTypes' /\ failed' \in BOOLEAN
    BY <1>0, <1>14 DEF RejectTransfer, Executes
  <2>2. screen' \in Work \cup {NoWork}
    BY <1>0, <1>14 DEF RejectTransfer, Executes
  <2>3. trouble' \in 0..MaxTrouble
    BY <1>0, <1>14 DEF RejectTransfer, Executes, NoTrouble
  <2> QED
    BY <2>1, <2>2, <2>3
<1>15. ASSUME NEW w \in work, WorkDone(w)
    PROVE  Goal
  <2>1. SignTypes' /\ failed' \in BOOLEAN
    BY <1>0, <1>15 DEF WorkDone, Sends, Lost, Executes
  <2>2. screen' \in Work \cup {NoWork}
    BY <1>0, <1>15 DEF WorkDone, Sends, Lost, Executes
  <2>3. trouble' \in 0..MaxTrouble
    <3>1. NoTrouble \/ Trouble
      BY <1>15 DEF WorkDone
    <3> QED
      BY <1>0, <3>1 DEF NoTrouble, Trouble
  <2> QED
    BY <2>1, <2>2, <2>3
<1>16. ASSUME MissingSession
    PROVE  Goal
  <2>1. SignTypes' /\ failed' \in BOOLEAN
    BY <1>0, <1>16 DEF MissingSession, Rejects
  <2>2. screen' \in Work \cup {NoWork}
    BY <1>0, <1>16 DEF MissingSession, Rejects
  <2>3. trouble' \in 0..MaxTrouble
    BY <1>0, <1>16 DEF MissingSession, Rejects, NoTrouble
  <2> QED
    BY <2>1, <2>2, <2>3
<1>17. ASSUME AnswerWork
    PROVE  Goal
  <2>1. SignTypes' /\ failed' \in BOOLEAN
    BY <1>0, <1>17 DEF AnswerWork, Responds
  <2>2. screen' \in Work \cup {NoWork}
    BY <1>0, <1>17 DEF AnswerWork, Responds
  <2>3. trouble' \in 0..MaxTrouble
    BY <1>0, <1>17 DEF AnswerWork, Responds, NoTrouble
  <2> QED
    BY <2>1, <2>2, <2>3
<1>18. ASSUME RenewDelegation
    PROVE  Goal
  <2>1. SignTypes' /\ failed' \in BOOLEAN
    BY <1>0, <1>18 DEF RenewDelegation, Responds
  <2>2. screen' \in Work \cup {NoWork}
    BY <1>0, <1>18 DEF RenewDelegation, Responds
  <2>3. trouble' \in 0..MaxTrouble
    BY <1>0, <1>18 DEF RenewDelegation, Responds, NoTrouble, Trouble
  <2> QED
    BY <2>1, <2>2, <2>3
<1>19. ASSUME GetDelegation
    PROVE  Goal
  <2>1. SignTypes' /\ failed' \in BOOLEAN
    BY <1>0, <1>19 DEF GetDelegation, Rejects
  <2>2. screen' \in Work \cup {NoWork}
    BY <1>0, <1>19 DEF GetDelegation, Rejects
  <2>3. trouble' \in 0..MaxTrouble
    BY <1>0, <1>19 DEF GetDelegation, Rejects, NoTrouble, Trouble
  <2> QED
    BY <2>1, <2>2, <2>3
<1>20. ASSUME CallCanister
    PROVE  Goal
  <2>1. SignTypes' /\ failed' \in BOOLEAN
    BY <1>0, <1>20 DEF CallCanister
  <2>2. screen' \in Work \cup {NoWork}
    BY <1>0, <1>20 DEF CallCanister
  <2>3. trouble' \in 0..MaxTrouble
    BY <1>0, <1>20 DEF CallCanister, NoTrouble
  <2> QED
    BY <2>1, <2>2, <2>3
<1>21. ASSUME CallReturns
    PROVE  Goal
  <2>1. SignTypes' /\ failed' \in BOOLEAN
    BY <1>0, <1>21 DEF CallReturns, Responds, Rejects
  <2>2. screen' \in Work \cup {NoWork}
    BY <1>0, <1>21 DEF CallReturns, Responds, Rejects
  <2>3. trouble' \in 0..MaxTrouble
    BY <1>0, <1>21 DEF CallReturns, Responds, Rejects, NoTrouble, Trouble
  <2> QED
    BY <2>1, <2>2, <2>3
<1>22. ASSUME Retry
    PROVE  Goal
  <2>1. SignTypes' /\ failed' \in BOOLEAN
    BY <1>0, <1>22 DEF Retry, Stops
  <2>2. screen' \in Work \cup {NoWork}
    BY <1>0, <1>22 DEF Retry, Stops
  <2>3. trouble' \in 0..MaxTrouble
    BY <1>0, <1>22 DEF Retry, Stops, Trouble
  <2> QED
    BY <2>1, <2>2, <2>3
<1>23. ASSUME CancelError
    PROVE  Goal
  <2>1. SignTypes' /\ failed' \in BOOLEAN
    BY <1>0, <1>23 DEF CancelError, Cancels, Responds, Stops
  <2>2. screen' \in Work \cup {NoWork}
    BY <1>0, <1>23 DEF CancelError, Cancels, Responds, Stops
  <2>3. trouble' \in 0..MaxTrouble
    BY <1>0, <1>23 DEF CancelError, Cancels, Responds, Stops, NoTrouble
  <2> QED
    BY <2>1, <2>2, <2>3
<1>24. CASE UNCHANGED vars
  BY <1>0, <1>24
<1> QED
  BY <1>1, <1>2, <1>3, <1>4, <1>5, <1>6, <1>7, <1>8, <1>9, <1>10, <1>11,
    <1>12, <1>13, <1>14, <1>15, <1>16, <1>17, <1>18, <1>19, <1>20, <1>21,
    <1>22, <1>23, <1>24 DEF Next, Progress, Handling

\* Every step is of one of these kinds.
LEMMA StepKinds ==
  ASSUME TypeOK, [Next]_vars
  PROVE  \/ \E r \in Requests :
              Post(r) \/ Validated(r) \/ PostWithOrigin(r) \/ Invalid(r)
         \/ Quiet \/ Closes \/ ApproveCall \/ RejectTransfer \/ Approve
         \/ \E w \in work : WorkDone(w)
         \/ CallCanister \/ UNCHANGED vars
<1>1. CASE \E r \in Requests : Post(r) \/ PostWithOrigin(r)
  BY <1>1
<1>2. CASE SessionExpired \/ LosesDelegation \/ Reset
  BY <1>2, QuietSteps
<1>3. CASE Progress
  BY <1>3, QuietSteps, AnsweringSteps DEF Progress, Handling
<1> QED
  BY <1>1, <1>2, <1>3 DEF Next

\* Out of READY only a renewal starts, and it brings nothing from a screen.
LEMMA FromReadyRuns ==
  ASSUME FromReady
  PROVE  /\ handle' \in {"READY", "AWAIT", "EXECUTE"}
         /\ handle' # "READY" => message' # None
         /\ handle' = "EXECUTE" =>
              /\ method'[message'] = "ic_renewDelegation"
              /\ run'.event \notin Answered
         /\ \/ run' = NoRun
            \/ run' = [event |-> "", of |-> None, by |-> None, ok |-> FALSE,
                       session |-> session', signedIn |-> signedIn',
                       step |-> "start"]
<1>1. \/ handle' = "EXECUTE" /\ IsAutoApprovable' /\ Starts("", NoWork, FALSE)
      \/ handle' = "AWAIT" /\ HasProcedure' /\ run' = NoRun
      \/ handle' = "READY" /\ run' = NoRun
  BY DEF FromReady
<1>2. CASE handle' = "EXECUTE" /\ IsAutoApprovable' /\ Starts("", NoWork, FALSE)
  <2>1. message' # None /\ method'[message'] = "ic_renewDelegation"
    BY <1>2 DEF IsAutoApprovable
  <2>2. run' = [event |-> "", of |-> None, by |-> None, ok |-> FALSE,
                session |-> session', signedIn |-> signedIn', step |-> "start"]
    BY <1>2 DEF Starts, NoWork
  <2>3. run'.event = ""
    BY <2>2
  <2> QED
    BY <1>2, <2>1, <2>2, <2>3 DEF Answered
<1>3. CASE handle' = "AWAIT" /\ HasProcedure' /\ run' = NoRun
  BY <1>3 DEF HasProcedure
<1>4. CASE handle' = "READY" /\ run' = NoRun
  BY <1>4
<1> QED
  BY <1>1, <1>2, <1>3, <1>4

\* Receiving a posted request keeps what is posted.
LEMMA PostedGrows ==
  ASSUME TypeOK, Posted, NEW r \in Requests, method'[r] \in Methods,
         \A s \in Requests : s = r \/ method'[s] = method[s],
         method[r] = "none" \/ method'[r] = method[r],
         checking' \subseteq checking, work' = work,
         \/ message' = r /\ queue' = queue
         \/ message' = message /\ queue' = Append(queue, r)
  PROVE  Posted'
<1>1. \A s \in Requests : method[s] \in Methods => method'[s] \in Methods
  OBVIOUS
<1>2. message' # None => method'[message'] \in Methods
  BY <1>1, EmbedAssumption DEF Posted, TypeOK, ContextTypes
<1>3. \A s \in checking' : method'[s] \in Methods
  BY <1>1 DEF Posted, TypeOK, ReceiverTypes
<1>4. \A w \in work' : method'[w.of] \in Answered
  <2>1. \A w \in work : w.of \in Requests
    BY DEF TypeOK, ProcedureTypes, Work
  <2>2. \A s \in Requests : method[s] \in Answered => method'[s] \in Answered
    BY DEF Answered, Methods
  <2> QED
    BY <2>1, <2>2 DEF Posted
<1>5. \A i \in 1..Len(queue') : method'[queue'[i]] \in Methods
  <2>1. queue \in Seq(Requests)
    BY DEF TypeOK, ContextTypes
  <2>2. \A i \in 1..Len(queue) : queue[i] \in Requests /\ method'[queue[i]] \in Methods
    BY <1>1, <2>1, ElementOfSeq DEF Posted
  <2>3. CASE queue' = queue
    BY <2>2, <2>3
  <2>4. CASE queue' = Append(queue, r)
    <3>1. /\ Len(queue') = Len(queue) + 1 /\ queue'[Len(queue) + 1] = r
          /\ \A i \in 1..Len(queue) : queue'[i] = queue[i]
          /\ Len(queue) \in Nat
      BY <2>1, <2>4, AppendProperties, LenProperties
    <3>2. \A i \in 1..Len(queue') : i \in 1..Len(queue) \/ i = Len(queue) + 1
      BY <3>1
    <3> QED
      BY <2>2, <3>1, <3>2
  <2> QED
    BY <2>3, <2>4
<1> QED
  BY <1>2, <1>3, <1>4, <1>5 DEF Posted

\* What is known stays posted.
LEMMA PostedStep ==
  ASSUME TypeOK, Posted, [Next]_vars
  PROVE  Posted'
<1> USE EmbedAssumption DEF vars, receiver, context, sign, results, deeds
<1>1. ASSUME NEW r \in Requests, Post(r)
    PROVE  Posted'
  <2>1. /\ \E m \in Methods : method' = [method EXCEPT ![r] = m]
        /\ method[r] = "none" /\ checking' = checking /\ work' = work
        /\ \/ message' = r /\ queue' = queue
           \/ message' = message /\ queue' = Append(queue, r)
    BY <1>1 DEF Post, RpcMessage, AssignProcedure, QueueRequest
  <2>2. /\ method'[r] \in Methods
        /\ \A s \in Requests : s = r \/ method'[s] = method[s]
    BY <2>1 DEF TypeOK, ReceiverTypes
  <2> QED
    BY <2>1, <2>2, PostedGrows
<1>2. ASSUME NEW r \in Requests, Validated(r)
    PROVE  Posted'
  <2>1. /\ method' = method /\ r \in checking
        /\ checking' \subseteq checking /\ work' = work
        /\ \/ message' = r /\ queue' = queue
           \/ message' = message /\ queue' = Append(queue, r)
    BY <1>2 DEF Validated, RpcMessage, AssignProcedure, QueueRequest
  <2>2. method'[r] \in Methods
    BY <2>1 DEF Posted
  <2> QED
    BY <2>1, <2>2, PostedGrows
<1>3. ASSUME NEW r \in Requests, PostWithOrigin(r)
    PROVE  Posted'
  <2>1. /\ \E m \in Methods : method' = [method EXCEPT ![r] = m]
        /\ method[r] = "none" /\ checking' = checking \cup {r}
        /\ UNCHANGED <<work, message, queue>>
    BY <1>3 DEF PostWithOrigin
  <2>2. /\ method'[r] \in Methods
        /\ \A s \in Requests : s = r \/ method'[s] = method[s]
    BY <2>1 DEF TypeOK, ReceiverTypes
  <2>3. \A s \in Requests : method[s] \in Methods => method'[s] = method[s]
    BY <2>1, <2>2 DEF Methods, Answered
  <2>4. /\ message # None => message \in Requests
        /\ \A i \in 1..Len(queue) : queue[i] \in Requests
        /\ \A w \in work : w.of \in Requests
    BY ElementOfSeq DEF TypeOK, ContextTypes, ProcedureTypes, Work
  <2> QED
    BY <2>1, <2>2, <2>3, <2>4 DEF Posted, TypeOK, ReceiverTypes, Methods
<1>4. ASSUME NEW r \in Requests, Invalid(r)
    PROVE  Posted'
  <2>1. UNCHANGED <<method, work, message, queue>> /\ checking' \subseteq checking
    BY <1>4 DEF Invalid
  <2> QED
    BY <2>1 DEF Posted
<1>5. ASSUME Quiet
    PROVE  Posted'
  <2>1. UNCHANGED <<method, checking, message, queue>> /\ work' \subseteq work
    BY <1>5 DEF Quiet
  <2> QED
    BY <2>1 DEF Posted
<1>6. ASSUME Closes
    PROVE  Posted'
  <2>1. UNCHANGED <<method, checking, work>> /\ UpdateProcedure
    BY <1>6 DEF Closes, Responds
  <2>2. queue \in Seq(Requests)
    BY DEF TypeOK, ContextTypes
  <2>3. CASE queue = <<>>
    BY <2>1, <2>2, <2>3, EmptySeq DEF Posted, UpdateProcedure
  <2>4. CASE queue # <<>>
    <3>1. /\ message' = queue[1] /\ queue' = Tail(queue)
      BY <2>1, <2>2, <2>4 DEF UpdateProcedure
    <3>2. /\ Len(queue) \in Nat \ {0} /\ Len(queue') = Len(queue) - 1
          /\ \A i \in 1..Len(queue') : queue'[i] = queue[i + 1]
      BY <2>2, <2>4, <3>1, EmptySeq, HeadTailProperties
    <3>3. 1 \in 1..Len(queue)
          /\ \A i \in 1..Len(queue') : i + 1 \in 1..Len(queue)
      BY <3>2
    <3> QED
      BY <2>1, <3>1, <3>2, <3>3 DEF Posted
  <2> QED
    BY <2>3, <2>4
<1>7. ASSUME ApproveCall
    PROVE  Posted'
  <2>1. UNCHANGED <<method, checking, message, queue>> /\ work' \subseteq work
    BY <1>7 DEF ApproveCall, Executes
  <2> QED
    BY <2>1 DEF Posted
<1>8. ASSUME RejectTransfer
    PROVE  Posted'
  <2>1. UNCHANGED <<method, checking, message, queue>> /\ work' \subseteq work
    BY <1>8 DEF RejectTransfer, Executes
  <2> QED
    BY <2>1 DEF Posted
<1>9. ASSUME Approve
    PROVE  Posted'
  <2>1. /\ UNCHANGED <<method, checking, message, queue>>
        /\ \E w : work' = work \cup {w} /\ w.of = message
        /\ method[message] \in Answered
    BY <1>9 DEF Approve, Shown
  <2> QED
    BY <2>1 DEF Posted
<1>10. ASSUME NEW w \in work, WorkDone(w)
    PROVE  Posted'
  <2>1. UNCHANGED <<method, checking, message, queue>> /\ work' \subseteq work
    BY <1>10 DEF WorkDone, Sends, Lost, Executes
  <2> QED
    BY <2>1 DEF Posted
<1>11. ASSUME CallCanister
    PROVE  Posted'
  <2>1. UNCHANGED <<method, checking, message, queue>> /\ work' \subseteq work
    BY <1>11 DEF CallCanister
  <2> QED
    BY <2>1 DEF Posted
<1>12. ASSUME UNCHANGED vars
    PROVE  Posted'
  BY <1>12 DEF Posted
<1> QED
  BY StepKinds, <1>1, <1>2, <1>3, <1>4, <1>5, <1>6, <1>7, <1>8, <1>9, <1>10,
    <1>11, <1>12

\* A request that comes in is the last one.
LEMMA InTurnReceive ==
  ASSUME TypeOK, InTurn, NEW r \in Requests, RpcMessage(r)
  PROVE  InTurn'
<1> USE EmbedAssumption
<1>1. /\ accepted' = Append(accepted, r) /\ done' = done
      /\ done \in Seq(Requests) /\ queue \in Seq(Requests)
      /\ message \in Requests \cup {None}
  BY DEF RpcMessage, results, TypeOK, ResultTypes, ContextTypes
<1>2. CASE message = None
  <2>1. /\ queue = <<>> /\ queue' = queue /\ message' = r
        /\ accepted = done \o <<>> \o <<>>
    BY <1>2 DEF RpcMessage, AssignProcedure, InTurn, NoneLostOrReordered, Current
  <2>2. accepted' = done \o <<r>> \o <<>>
    BY <1>1, <2>1, ReceivedLast
  <2> QED
    BY <1>1, <2>1, <2>2 DEF InTurn, NoneLostOrReordered, Current
<1>3. CASE message # None
  <2>1. /\ queue' = Append(queue, r) /\ message' = message
        /\ message \in Requests /\ accepted = done \o <<message>> \o queue
    BY <1>1, <1>3 DEF RpcMessage, QueueRequest, InTurn, NoneLostOrReordered,
         Current
  <2>2. accepted' = done \o <<message>> \o queue'
    <3>1. accepted' = Append(done \o <<message>> \o queue, r)
      BY <1>1, <2>1
    <3>2. Append(done \o <<message>> \o queue, r)
            = done \o <<message>> \o Append(queue, r)
      <4>1. /\ done \in Seq(Requests) /\ queue \in Seq(Requests)
            /\ message \in Requests /\ r \in Requests
        BY <1>1, <2>1
      <4> QED
        BY <4>1, ReceivedLast
    <3> QED
      BY <2>1, <3>1, <3>2
  <2> QED
    BY <1>1, <1>3, <2>1, <2>2 DEF InTurn, NoneLostOrReordered, Current
<1> QED
  BY <1>2, <1>3

\* Requests come in last and are answered first.
LEMMA InTurnStep ==
  ASSUME TypeOK, InTurn, [Next]_vars
  PROVE  InTurn'
<1> USE EmbedAssumption DEF vars, receiver, context, sign, results, deeds
<1>1. ASSUME NEW r \in Requests, Post(r)
    PROVE  InTurn'
  BY <1>1, InTurnReceive DEF Post
<1>2. ASSUME NEW r \in Requests, Validated(r)
    PROVE  InTurn'
  BY <1>2, InTurnReceive DEF Validated
<1>3. ASSUME NEW r \in Requests, PostWithOrigin(r)
    PROVE  InTurn'
  <2>1. UNCHANGED <<accepted, done, message, queue>>
    BY <1>3 DEF PostWithOrigin
  <2> QED
    BY <2>1 DEF InTurn, NoneLostOrReordered, Current
<1>4. ASSUME NEW r \in Requests, Invalid(r)
    PROVE  InTurn'
  <2>1. UNCHANGED <<accepted, done, message, queue>>
    BY <1>4 DEF Invalid
  <2> QED
    BY <2>1 DEF InTurn, NoneLostOrReordered, Current
<1>5. ASSUME Quiet
    PROVE  InTurn'
  <2>1. UNCHANGED <<accepted, done, message, queue>>
    BY <1>5 DEF Quiet
  <2> QED
    BY <2>1 DEF InTurn, NoneLostOrReordered, Current
<1>6. ASSUME Closes
    PROVE  InTurn'
  <2>1. /\ UpdateProcedure /\ accepted' = accepted
        /\ done' = Append(done, message) /\ message \in Requests
    BY <1>6 DEF Closes, Responds, TypeOK, ProcedureTypes, ContextTypes
  <2>2. done \in Seq(Requests) /\ queue \in Seq(Requests)
    BY DEF TypeOK, ResultTypes, ContextTypes
  <2>3. accepted = done \o <<message>> \o queue
    BY <2>1 DEF InTurn, NoneLostOrReordered, Current
  <2>4. CASE queue = <<>>
    <3>1. message' = None /\ queue' = <<>>
      BY <2>1, <2>4 DEF UpdateProcedure
    <3>2. accepted' = done' \o <<>> \o <<>>
      BY <2>1, <2>2, <2>3, <2>4, AnsweredFirst
    <3> QED
      BY <3>1, <3>2 DEF InTurn, NoneLostOrReordered, Current
  <2>5. CASE queue # <<>>
    <3>1. /\ message' = Head(queue) /\ queue' = Tail(queue)
          /\ message' \in Requests
      BY <2>1, <2>2, <2>5, HeadTailProperties DEF UpdateProcedure
    <3>2. accepted' = done' \o <<message'>> \o queue'
      BY <2>1, <2>2, <2>3, <2>5, <3>1, AnsweredFirst
    <3> QED
      BY <3>1, <3>2 DEF InTurn, NoneLostOrReordered, Current
  <2> QED
    BY <2>4, <2>5
<1>7. ASSUME ApproveCall
    PROVE  InTurn'
  <2>1. UNCHANGED <<accepted, done, message, queue>>
    BY <1>7 DEF ApproveCall, Executes
  <2> QED
    BY <2>1 DEF InTurn, NoneLostOrReordered, Current
<1>8. ASSUME RejectTransfer
    PROVE  InTurn'
  <2>1. UNCHANGED <<accepted, done, message, queue>>
    BY <1>8 DEF RejectTransfer, Executes
  <2> QED
    BY <2>1 DEF InTurn, NoneLostOrReordered, Current
<1>9. ASSUME Approve
    PROVE  InTurn'
  <2>1. UNCHANGED <<accepted, done, message, queue>>
    BY <1>9 DEF Approve
  <2> QED
    BY <2>1 DEF InTurn, NoneLostOrReordered, Current
<1>10. ASSUME NEW w \in work, WorkDone(w)
    PROVE  InTurn'
  <2>1. UNCHANGED <<accepted, done, message, queue>>
    BY <1>10 DEF WorkDone, Sends, Lost, Executes
  <2> QED
    BY <2>1 DEF InTurn, NoneLostOrReordered, Current
<1>11. ASSUME CallCanister
    PROVE  InTurn'
  <2>1. UNCHANGED <<accepted, done, message, queue>>
    BY <1>11 DEF CallCanister
  <2> QED
    BY <2>1 DEF InTurn, NoneLostOrReordered, Current
<1>12. ASSUME UNCHANGED vars
    PROVE  InTurn'
  BY <1>12 DEF InTurn, NoneLostOrReordered, Current
<1> QED
  BY StepKinds, <1>1, <1>2, <1>3, <1>4, <1>5, <1>6, <1>7, <1>8, <1>9, <1>10,
    <1>11, <1>12

\* Parameters are taken from a request that comes in, and kept.
LEMMA ParamsStep ==
  ASSUME TypeOK, ParamsAreCurrent, [Next]_vars
  PROVE  ParamsAreCurrent'
<1> USE EmbedAssumption DEF vars, receiver, context, sign, results, deeds
<1>1. ASSUME NEW r \in Requests, Post(r)
    PROVE  ParamsAreCurrent'
  BY <1>1 DEF Post, RpcMessage, AssignProcedure, QueueRequest,
    ParamsAreCurrent
<1>2. ASSUME NEW r \in Requests, Validated(r)
    PROVE  ParamsAreCurrent'
  BY <1>2 DEF Validated, RpcMessage, AssignProcedure, QueueRequest,
    ParamsAreCurrent
<1>3. ASSUME NEW r \in Requests, PostWithOrigin(r)
    PROVE  ParamsAreCurrent'
  <2>1. UNCHANGED <<message, origin, params>>
    BY <1>3 DEF PostWithOrigin
  <2> QED
    BY <2>1 DEF ParamsAreCurrent
<1>4. ASSUME NEW r \in Requests, Invalid(r)
    PROVE  ParamsAreCurrent'
  <2>1. UNCHANGED <<message, origin, params>>
    BY <1>4 DEF Invalid
  <2> QED
    BY <2>1 DEF ParamsAreCurrent
<1>5. ASSUME Quiet
    PROVE  ParamsAreCurrent'
  <2>1. UNCHANGED <<message, origin, params>>
    BY <1>5 DEF Quiet
  <2> QED
    BY <2>1 DEF ParamsAreCurrent
<1>6. ASSUME Closes
    PROVE  ParamsAreCurrent'
  <2>1. params' = params /\ origin' = FALSE /\ message # None
    BY <1>6 DEF Closes, Responds, UpdateProcedure, TypeOK, ProcedureTypes
  <2> QED
    BY <2>1 DEF ParamsAreCurrent
<1>7. ASSUME ApproveCall
    PROVE  ParamsAreCurrent'
  <2>1. UNCHANGED <<message, origin, params>>
    BY <1>7 DEF ApproveCall, Executes
  <2> QED
    BY <2>1 DEF ParamsAreCurrent
<1>8. ASSUME RejectTransfer
    PROVE  ParamsAreCurrent'
  <2>1. UNCHANGED <<message, origin, params>>
    BY <1>8 DEF RejectTransfer, Executes
  <2> QED
    BY <2>1 DEF ParamsAreCurrent
<1>9. ASSUME Approve
    PROVE  ParamsAreCurrent'
  <2>1. UNCHANGED <<message, origin, params>>
    BY <1>9 DEF Approve
  <2> QED
    BY <2>1 DEF ParamsAreCurrent
<1>10. ASSUME NEW w \in work, WorkDone(w)
    PROVE  ParamsAreCurrent'
  <2>1. UNCHANGED <<message, origin, params>>
    BY <1>10 DEF WorkDone, Sends, Lost, Executes
  <2> QED
    BY <2>1 DEF ParamsAreCurrent
<1>11. ASSUME CallCanister
    PROVE  ParamsAreCurrent'
  <2>1. UNCHANGED <<message, origin, params>>
    BY <1>11 DEF CallCanister
  <2> QED
    BY <2>1 DEF ParamsAreCurrent
<1>12. ASSUME UNCHANGED vars
    PROVE  ParamsAreCurrent'
  BY <1>12 DEF ParamsAreCurrent
<1> QED
  BY StepKinds, <1>1, <1>2, <1>3, <1>4, <1>5, <1>6, <1>7, <1>8, <1>9, <1>10,
    <1>11, <1>12

\* Work is begun for the current request, which is closed with it.
LEMMA WorkStep ==
  ASSUME TypeOK, ParamsAreCurrent, WorkIsCurrent, [Next]_vars
  PROVE  WorkIsCurrent'
<1> USE EmbedAssumption DEF vars, receiver, context, sign, results, deeds
<1>1. ASSUME NEW r \in Requests, Post(r)
    PROVE  WorkIsCurrent'
  <2>1. UNCHANGED <<work, closed>>
    BY <1>1 DEF Post, RpcMessage
  <2>2. CASE message = None
    <3>1. closed = {} => work = {}
      BY <2>2, EmbedAssumption DEF WorkIsCurrent, Current1, TypeOK, ProcedureTypes, Work
    <3> QED
      BY <2>1, <3>1 DEF WorkIsCurrent
  <2>3. CASE message # None
    <3>1. UNCHANGED <<message, origin>>
      BY <1>1, <2>3 DEF Post, RpcMessage, QueueRequest
    <3> QED
      BY <2>1, <3>1 DEF WorkIsCurrent, Current1
  <2> QED
    BY <2>2, <2>3
<1>2. ASSUME NEW r \in Requests, Validated(r)
    PROVE  WorkIsCurrent'
  <2>1. UNCHANGED <<work, closed>>
    BY <1>2 DEF Validated, RpcMessage
  <2>2. CASE message = None
    <3>1. closed = {} => work = {}
      BY <2>2, EmbedAssumption DEF WorkIsCurrent, Current1, TypeOK, ProcedureTypes, Work
    <3> QED
      BY <2>1, <3>1 DEF WorkIsCurrent
  <2>3. CASE message # None
    <3>1. UNCHANGED <<message, origin>>
      BY <1>2, <2>3 DEF Validated, RpcMessage, QueueRequest
    <3> QED
      BY <2>1, <3>1 DEF WorkIsCurrent, Current1
  <2> QED
    BY <2>2, <2>3
<1>3. ASSUME NEW r \in Requests, PostWithOrigin(r)
    PROVE  WorkIsCurrent'
  <2>1. UNCHANGED <<message, origin, closed>> /\ work' \subseteq work
    BY <1>3 DEF PostWithOrigin
  <2> QED
    BY <2>1 DEF WorkIsCurrent, Current1
<1>4. ASSUME NEW r \in Requests, Invalid(r)
    PROVE  WorkIsCurrent'
  <2>1. UNCHANGED <<message, origin, closed>> /\ work' \subseteq work
    BY <1>4 DEF Invalid
  <2> QED
    BY <2>1 DEF WorkIsCurrent, Current1
<1>5. ASSUME Quiet
    PROVE  WorkIsCurrent'
  <2>1. UNCHANGED <<message, origin, closed>> /\ work' \subseteq work
    BY <1>5 DEF Quiet
  <2> QED
    BY <2>1 DEF WorkIsCurrent, Current1
<1>6. ASSUME Closes
    PROVE  WorkIsCurrent'
  <2>1. /\ work' = work
        /\ closed' = IF \E v \in work' : v.of = message
                     THEN closed \cup {message} ELSE closed
    BY <1>6 DEF Closes, Responds
  <2>2. closed' = {} => work = {}
    BY <2>1 DEF WorkIsCurrent, Current1
  <2> QED
    BY <2>1, <2>2 DEF WorkIsCurrent
<1>7. ASSUME ApproveCall
    PROVE  WorkIsCurrent'
  <2>1. UNCHANGED <<message, origin, closed>> /\ work' \subseteq work
    BY <1>7 DEF ApproveCall, Executes
  <2> QED
    BY <2>1 DEF WorkIsCurrent, Current1
<1>8. ASSUME RejectTransfer
    PROVE  WorkIsCurrent'
  <2>1. UNCHANGED <<message, origin, closed>> /\ work' \subseteq work
    BY <1>8 DEF RejectTransfer, Executes
  <2> QED
    BY <2>1 DEF WorkIsCurrent, Current1
<1>9. ASSUME Approve
    PROVE  WorkIsCurrent'
  <2>1. /\ UNCHANGED <<message, origin, closed>> /\ message # None
        /\ \E w : /\ work' = work \cup {w} /\ w.of = message
                  /\ w.by = params \/ w.by = message
    BY <1>9 DEF Approve, Shown
  <2>2. origin => params = message
    BY <2>1 DEF ParamsAreCurrent
  <2> QED
    BY <2>1, <2>2 DEF WorkIsCurrent, Current1
<1>10. ASSUME NEW w \in work, WorkDone(w)
    PROVE  WorkIsCurrent'
  <2>1. UNCHANGED <<message, origin, closed>> /\ work' \subseteq work
    BY <1>10 DEF WorkDone, Sends, Lost, Executes
  <2> QED
    BY <2>1 DEF WorkIsCurrent, Current1
<1>11. ASSUME CallCanister
    PROVE  WorkIsCurrent'
  <2>1. UNCHANGED <<message, origin, closed>> /\ work' \subseteq work
    BY <1>11 DEF CallCanister
  <2> QED
    BY <2>1 DEF WorkIsCurrent, Current1
<1>12. ASSUME UNCHANGED vars
    PROVE  WorkIsCurrent'
  BY <1>12 DEF WorkIsCurrent, Current1
<1> QED
  BY StepKinds, <1>1, <1>2, <1>3, <1>4, <1>5, <1>6, <1>7, <1>8, <1>9, <1>10,
    <1>11, <1>12

\* What a screen has sent is for the request that awaited it.
LEMMA RunStep ==
  ASSUME TypeOK, WorkIsCurrent, RunIsCurrent, [Next]_vars
  PROVE  RunIsCurrent'
<1> USE EmbedAssumption DEF vars, receiver, context, sign, results, deeds
<1>1. ASSUME NEW r \in Requests, Post(r)
    PROVE  RunIsCurrent'
  <2>1. CASE message = None
    <3>1. handle = "READY" /\ FromReady
      BY <1>1, <2>1 DEF Post, RpcMessage, Settles, TypeOK, ProcedureTypes
    <3> QED
      BY <3>1, FromReadyRuns DEF RunIsCurrent
  <2>2. CASE message # None
    <3>1. UNCHANGED <<message, origin, closed>>
          /\ (UNCHANGED <<handle, run>> \/ FromReady)
      BY <1>1, <2>2 DEF Post, RpcMessage, QueueRequest, Settles
    <3> QED
      BY <3>1, FromReadyRuns DEF RunIsCurrent, Current1
  <2> QED
    BY <2>1, <2>2
<1>2. ASSUME NEW r \in Requests, Validated(r)
    PROVE  RunIsCurrent'
  <2>1. CASE message = None
    <3>1. handle = "READY" /\ FromReady
      BY <1>2, <2>1 DEF Validated, RpcMessage, Settles, TypeOK, ProcedureTypes
    <3> QED
      BY <3>1, FromReadyRuns DEF RunIsCurrent
  <2>2. CASE message # None
    <3>1. UNCHANGED <<message, origin, closed>>
          /\ (UNCHANGED <<handle, run>> \/ FromReady)
      BY <1>2, <2>2 DEF Validated, RpcMessage, QueueRequest, Settles
    <3> QED
      BY <3>1, FromReadyRuns DEF RunIsCurrent, Current1
  <2> QED
    BY <2>1, <2>2
<1>3. ASSUME NEW r \in Requests, PostWithOrigin(r)
    PROVE  RunIsCurrent'
  <2>1. UNCHANGED <<message, origin, closed, handle>>
        /\ (handle = "EXECUTE" => run' = run)
    BY <1>3 DEF PostWithOrigin
  <2> QED
    BY <2>1 DEF RunIsCurrent, Current1
<1>4. ASSUME NEW r \in Requests, Invalid(r)
    PROVE  RunIsCurrent'
  <2>1. UNCHANGED <<message, origin, closed, handle>>
        /\ (handle = "EXECUTE" => run' = run)
    BY <1>4 DEF Invalid
  <2> QED
    BY <2>1 DEF RunIsCurrent, Current1
<1>5. ASSUME Quiet
    PROVE  RunIsCurrent'
  <2>1. UNCHANGED <<message, origin, closed>> /\ QuietRun /\ run \in Runs
    BY <1>5 DEF Quiet, TypeOK, ProcedureTypes
  <2>2. CASE FromReady
    BY <2>2, FromReadyRuns DEF RunIsCurrent
  <2>3. CASE ~FromReady
    BY <2>1, <2>3 DEF QuietRun, RunIsCurrent, Current1, Runs
  <2> QED
    BY <2>2, <2>3
<1>6. ASSUME Closes
    PROVE  RunIsCurrent'
  <2>1. FromReady
    BY <1>6 DEF Closes, Responds
  <2> QED
    BY <2>1, FromReadyRuns DEF RunIsCurrent
<1>7. ASSUME ApproveCall
    PROVE  RunIsCurrent'
  <2>1. run'.ok = FALSE \/ run'.event \notin Answered
    BY <1>7 DEF ApproveCall, Executes, Starts, Answered
  <2> QED
    BY <2>1 DEF RunIsCurrent
<1>8. ASSUME RejectTransfer
    PROVE  RunIsCurrent'
  <2>1. run'.ok = FALSE \/ run'.event \notin Answered
    BY <1>8 DEF RejectTransfer, Executes, Starts, Answered
  <2> QED
    BY <2>1 DEF RunIsCurrent
<1>9. ASSUME Approve
    PROVE  RunIsCurrent'
  <2>1. UNCHANGED <<message, origin, closed, handle>>
        /\ (handle = "EXECUTE" => run' = run)
    BY <1>9 DEF Approve
  <2> QED
    BY <2>1 DEF RunIsCurrent, Current1
<1>10. ASSUME NEW w \in work, WorkDone(w)
    PROVE  RunIsCurrent'
  <2>1. UNCHANGED <<message, origin, closed>>
    BY <1>10 DEF WorkDone, Sends, Lost, Executes
  <2>2. CASE UNCHANGED <<handle, run>>
    BY <2>1, <2>2 DEF RunIsCurrent, Current1
  <2>3. CASE ~UNCHANGED <<handle, run>>
    <3>1. run'.of = w.of /\ run'.by = w.by
      BY <1>10, <2>3 DEF WorkDone, Sends, Lost, Executes, Starts
    <3> QED
      BY <2>1, <3>1 DEF RunIsCurrent, WorkIsCurrent, Current1
  <2> QED
    BY <2>2, <2>3
<1>11. ASSUME CallCanister
    PROVE  RunIsCurrent'
  <2>1. /\ UNCHANGED <<message, origin, closed, handle>>
        /\ run' = [run EXCEPT !.step = "reply"] /\ run \in Runs
    BY <1>11 DEF CallCanister, TypeOK, ProcedureTypes
  <2> QED
    BY <2>1 DEF RunIsCurrent, Current1, Runs
<1>12. ASSUME UNCHANGED vars
    PROVE  RunIsCurrent'
  BY <1>12 DEF RunIsCurrent, Current1
<1> QED
  BY StepKinds, <1>1, <1>2, <1>3, <1>4, <1>5, <1>6, <1>7, <1>8, <1>9, <1>10,
    <1>11, <1>12

\* Removing work removes it from the work for its request.
LEMMA WorkCount ==
  ASSUME IsFiniteSet(work)
  PROVE  /\ \A r : Cardinality(WorkOf(r)) \in Nat
         /\ \A w \in work : work' = work \ {w} =>
              \A r : Cardinality(WorkOf(r)') =
                    Cardinality(WorkOf(r)) - (IF r = w.of THEN 1 ELSE 0)
         /\ \A w : work' = work \cup {w} =>
              \A r : Cardinality(WorkOf(r)') <=
                    Cardinality(WorkOf(r)) + (IF r = w.of THEN 1 ELSE 0)
<1>1. ASSUME NEW r PROVE IsFiniteSet(WorkOf(r))
  <2>1. WorkOf(r) \subseteq work
    BY DEF WorkOf
  <2> QED
    BY <2>1, FS_Subset
<1>2. ASSUME NEW r PROVE Cardinality(WorkOf(r)) \in Nat
  BY <1>1, FS_CardinalityType
<1>3. ASSUME NEW w \in work, work' = work \ {w}, NEW r
      PROVE  Cardinality(WorkOf(r)') =
               Cardinality(WorkOf(r)) - (IF r = w.of THEN 1 ELSE 0)
  <2>1. CASE r = w.of
    <3>1. WorkOf(r)' = WorkOf(r) \ {w} /\ w \in WorkOf(r)
      BY <1>3, <2>1 DEF WorkOf
    <3> QED
      BY <1>1, <2>1, <3>1, FS_RemoveElement
  <2>2. CASE r # w.of
    <3>1. WorkOf(r)' = WorkOf(r)
      BY <1>3, <2>2 DEF WorkOf
    <3> QED
      BY <1>2, <2>2, <3>1
  <2> QED
    BY <2>1, <2>2
<1>4. ASSUME NEW w, work' = work \cup {w}, NEW r
      PROVE  Cardinality(WorkOf(r)') <=
               Cardinality(WorkOf(r)) + (IF r = w.of THEN 1 ELSE 0)
  <2>1. CASE r = w.of
    <3>1. WorkOf(r)' = WorkOf(r) \cup {w}
      BY <1>4, <2>1 DEF WorkOf
    <3>2. \/ Cardinality(WorkOf(r) \cup {w}) = Cardinality(WorkOf(r)) + 1
          \/ Cardinality(WorkOf(r) \cup {w}) = Cardinality(WorkOf(r))
      BY <1>1, FS_AddElement
    <3> QED
      BY <1>2, <2>1, <3>1, <3>2
  <2>2. CASE r # w.of
    <3>1. WorkOf(r)' = WorkOf(r)
      BY <1>4, <2>2 DEF WorkOf
    <3> QED
      BY <1>2, <2>2, <3>1
  <2> QED
    BY <2>1, <2>2
<1> QED
  BY <1>2, <1>3, <1>4

\* A step that performs nothing and begins no work or call.
Spares ==
  /\ closed' = {} => closed = {}
  /\ UNCHANGED <<work, performed, approvals>>
  /\ \A r \in Requests : Pending(r)' = 0 \/ Pending(r)' = Pending(r)

LEMMA SparedStep ==
  ASSUME TypeOK, IsFiniteSet(work), ApprovalsCover, Spares
  PROVE  ApprovalsCover'
<1> SUFFICES ASSUME closed' = {}, NEW r \in Requests
             PROVE  performed'[r] + Cardinality(WorkOf(r)') + Pending(r)'
                      <= approvals'[r]
  BY DEF ApprovalsCover
<1>1. performed[r] + Cardinality(WorkOf(r)) + Pending(r) <= approvals[r]
  BY DEF ApprovalsCover, Spares
<1>2. /\ performed'[r] = performed[r] /\ approvals'[r] = approvals[r]
      /\ WorkOf(r)' = WorkOf(r) /\ (Pending(r)' = 0 \/ Pending(r)' = Pending(r))
  BY DEF Spares, WorkOf
<1>3. performed[r] \in Nat /\ approvals[r] \in Nat /\ Pending(r) \in {0, 1}
  BY DEF TypeOK, DeedTypes, Pending
<1>4. Cardinality(WorkOf(r)) \in Nat
  BY WorkCount
<1> QED
  BY <1>1, <1>2, <1>3, <1>4

LEMMA ReadyIsNotPending ==
  ASSUME FromReady, NEW r \in Requests
  PROVE  Pending(r)' = 0
<1>1. CASE handle' # "EXECUTE"
  BY <1>1 DEF Pending
<1>2. CASE handle' = "EXECUTE"
  <2>1. method'[message'] = "ic_renewDelegation"
    BY <1>2, FromReadyRuns
  <2> QED
    BY <2>1 DEF Pending
<1> QED
  BY <1>1, <1>2

\* Approvals are spent once, unless a request was closed with work going on.
LEMMA CoverStep ==
  ASSUME TypeOK, IsFiniteSet(work), Posted, WorkIsCurrent, ApprovalsCover, [Next]_vars
  PROVE  ApprovalsCover'
<1> USE EmbedAssumption DEF vars, receiver, context, sign, results, deeds
<1>1. ASSUME NEW r \in Requests, Post(r)
    PROVE  ApprovalsCover'
  <2>1. UNCHANGED <<work, performed, approvals, closed>>
    BY <1>1 DEF Post, RpcMessage
  <2>2. ASSUME NEW s \in Requests
        PROVE  Pending(s)' = 0 \/ Pending(s)' = Pending(s)
    <3>1. CASE FromReady
      BY <3>1, ReadyIsNotPending
    <3>2. CASE ~FromReady
      <4>1. UNCHANGED <<handle, run>>
        BY <1>1, <3>2 DEF Post, RpcMessage, Settles
      <4>2. CASE handle = "EXECUTE"
        <5>1. message # None /\ method[message] \in Methods
          BY <4>2 DEF TypeOK, ProcedureTypes, Posted
        <5>2. message' = message
          BY <1>1, <5>1 DEF Post, RpcMessage, QueueRequest
        <5>3. message = s => method'[s] = method[s]
          BY <1>1, <5>1 DEF Post, Methods, Answered, TypeOK, ReceiverTypes
        <5> QED
          BY <4>1, <5>2, <5>3 DEF Pending
      <4>3. CASE handle # "EXECUTE"
        BY <4>1, <4>3 DEF Pending
      <4> QED
        BY <4>2, <4>3
    <3> QED
      BY <3>1, <3>2
  <2> QED
    BY <2>1, <2>2, SparedStep DEF Spares
<1>2. ASSUME NEW r \in Requests, Validated(r)
    PROVE  ApprovalsCover'
  <2>1. UNCHANGED <<work, performed, approvals, closed>>
    BY <1>2 DEF Validated, RpcMessage
  <2>2. ASSUME NEW s \in Requests
        PROVE  Pending(s)' = 0 \/ Pending(s)' = Pending(s)
    <3>1. CASE FromReady
      BY <3>1, ReadyIsNotPending
    <3>2. CASE ~FromReady
      <4>1. UNCHANGED <<handle, run>>
        BY <1>2, <3>2 DEF Validated, RpcMessage, Settles
      <4>2. CASE handle = "EXECUTE"
        <5>1. message # None /\ method[message] \in Methods
          BY <4>2 DEF TypeOK, ProcedureTypes, Posted
        <5>2. message' = message
          BY <1>2, <5>1 DEF Validated, RpcMessage, QueueRequest
        <5>3. message = s => method'[s] = method[s]
          BY <1>2, <5>1 DEF Validated, Methods, Answered, TypeOK, ReceiverTypes
        <5> QED
          BY <4>1, <5>2, <5>3 DEF Pending
      <4>3. CASE handle # "EXECUTE"
        BY <4>1, <4>3 DEF Pending
      <4> QED
        BY <4>2, <4>3
    <3> QED
      BY <3>1, <3>2
  <2> QED
    BY <2>1, <2>2, SparedStep DEF Spares
<1>3. ASSUME NEW r \in Requests, PostWithOrigin(r)
    PROVE  ApprovalsCover'
  <2>1. /\ UNCHANGED <<work, performed, approvals, closed>>
        /\ UNCHANGED <<handle, message, run>>
    BY <1>3 DEF PostWithOrigin
  <2>2. \A s \in Requests : message = s => method'[s] = method[s]
    BY <1>3, EmbedAssumption
    DEF PostWithOrigin, Posted, Methods, Answered, TypeOK, ReceiverTypes
  <2>3. \A s \in Requests : Pending(s)' = Pending(s)
    BY <2>1, <2>2 DEF Pending
  <2> QED
    BY <2>1, <2>3, SparedStep DEF Spares
<1>4. ASSUME NEW r \in Requests, Invalid(r)
    PROVE  ApprovalsCover'
  <2>1. /\ UNCHANGED <<work, performed, approvals, closed>>
        /\ UNCHANGED <<handle, message, run, method>>
    BY <1>4 DEF Invalid
  <2>2. \A s \in Requests : Pending(s)' = Pending(s)
    BY <2>1 DEF Pending
  <2> QED
    BY <2>1, <2>2, SparedStep DEF Spares
<1>5. ASSUME Quiet
    PROVE  ApprovalsCover'
  <2>1. /\ UNCHANGED <<work, performed, approvals, closed, message, method>>
        /\ QuietRun /\ run \in Runs
    BY <1>5 DEF Quiet, TypeOK, ProcedureTypes
  <2>2. ASSUME NEW s \in Requests
        PROVE  Pending(s)' = 0 \/ Pending(s)' = Pending(s)
    <3>1. CASE FromReady
      BY <3>1, ReadyIsNotPending
    <3>2. CASE ~FromReady
      BY <2>1, <3>2 DEF QuietRun, Pending, Runs
    <3> QED
      BY <3>1, <3>2
  <2> QED
    BY <2>1, <2>2, SparedStep DEF Spares
<1>6. ASSUME Closes
    PROVE  ApprovalsCover'
  <2>1. /\ UNCHANGED <<work, performed, approvals>> /\ FromReady
        /\ closed' = {} => closed = {}
    BY <1>6 DEF Closes, Responds
  <2> QED
    BY <2>1, ReadyIsNotPending, SparedStep DEF Spares
<1>7. ASSUME ApproveCall
    PROVE  ApprovalsCover'
  <2> SUFFICES ASSUME closed' = {}, NEW r \in Requests
               PROVE  performed'[r] + Cardinality(WorkOf(r)') + Pending(r)'
                        <= approvals'[r]
    BY DEF ApprovalsCover
  <2>1. /\ performed[r] \in Nat /\ approvals[r] \in Nat
        /\ Pending(r) \in {0, 1} /\ Cardinality(WorkOf(r)) \in Nat
    BY WorkCount DEF TypeOK, DeedTypes, Pending
  <2>2. /\ UNCHANGED <<work, performed, closed, message, method>>
        /\ handle = "AWAIT" /\ approvals' = [approvals EXCEPT ![message] = @ + 1]
    BY <1>7 DEF ApproveCall, Executes, Shown
  <2>3. performed[r] + Cardinality(WorkOf(r)) + Pending(r) <= approvals[r]
    BY <2>2 DEF ApprovalsCover
  <2>4. /\ WorkOf(r)' = WorkOf(r) /\ Pending(r) = 0
        /\ Pending(r)' \in {0, 1} /\ (Pending(r)' = 1 => message = r)
    BY <2>2 DEF WorkOf, Pending
  <2>5. approvals'[r] = IF message = r THEN approvals[r] + 1 ELSE approvals[r]
    BY <2>2 DEF TypeOK, DeedTypes
  <2> QED
    BY <2>1, <2>2, <2>3, <2>4, <2>5
<1>8. ASSUME RejectTransfer
    PROVE  ApprovalsCover'
  <2>1. /\ UNCHANGED <<work, performed, approvals, closed, message, method>>
        /\ method[message] = "ic_requestTransfer"
    BY <1>8 DEF RejectTransfer, Executes, Shown
  <2>2. \A s \in Requests : Pending(s)' = 0
    BY <2>1 DEF Pending
  <2> QED
    BY <2>1, <2>2, SparedStep DEF Spares
<1>9. ASSUME Approve
    PROVE  ApprovalsCover'
  <2> SUFFICES ASSUME closed' = {}, NEW r \in Requests
               PROVE  performed'[r] + Cardinality(WorkOf(r)') + Pending(r)'
                        <= approvals'[r]
    BY DEF ApprovalsCover
  <2>1. /\ performed[r] \in Nat /\ approvals[r] \in Nat
        /\ Pending(r) \in {0, 1} /\ Cardinality(WorkOf(r)) \in Nat
    BY WorkCount DEF TypeOK, DeedTypes, Pending
  <2>2. /\ UNCHANGED <<performed, closed>> /\ handle' = "AWAIT"
        /\ approvals' = [approvals EXCEPT ![message] = @ + 1]
        /\ \E w : work' = work \cup {w} /\ w.of = message
    BY <1>9 DEF Approve, Shown
  <2>3. performed[r] + Cardinality(WorkOf(r)) + Pending(r) <= approvals[r]
    BY <2>2 DEF ApprovalsCover
  <2>4. Pending(r)' = 0
    BY <2>2 DEF Pending
  <2>5. approvals'[r] = IF message = r THEN approvals[r] + 1 ELSE approvals[r]
    BY <2>2 DEF TypeOK, DeedTypes
  <2>6. Cardinality(WorkOf(r)') <=
          Cardinality(WorkOf(r)) + (IF r = message THEN 1 ELSE 0)
    BY <2>2, WorkCount
  <2>7. Cardinality(WorkOf(r)') \in Nat
    <3>1. IsFiniteSet(work')
      BY <2>2, FS_AddElement
    <3>2. WorkOf(r)' \subseteq work'
      BY DEF WorkOf
    <3> QED
      BY <3>1, <3>2, FS_Subset, FS_CardinalityType
  <2> QED
    BY <2>1, <2>2, <2>3, <2>4, <2>5, <2>6, <2>7
<1>10. ASSUME NEW w \in work, WorkDone(w)
    PROVE  ApprovalsCover'
  <2> SUFFICES ASSUME closed' = {}, NEW r \in Requests
               PROVE  performed'[r] + Cardinality(WorkOf(r)') + Pending(r)'
                        <= approvals'[r]
    BY DEF ApprovalsCover
  <2>1. /\ performed[r] \in Nat /\ approvals[r] \in Nat
        /\ Pending(r) \in {0, 1} /\ Cardinality(WorkOf(r)) \in Nat
    BY WorkCount DEF TypeOK, DeedTypes, Pending
  <2>2. /\ UNCHANGED <<approvals, closed, message, method>>
        /\ work' = work \ {w}
        /\ performed' = performed \/ performed' = [performed EXCEPT ![w.of] = @ + 1]
        /\ handle' = "EXECUTE" \/ UNCHANGED <<handle, run>>
    BY <1>10 DEF WorkDone, Sends, Lost, Executes
  <2>3. performed[r] + Cardinality(WorkOf(r)) + Pending(r) <= approvals[r]
    BY <2>2 DEF ApprovalsCover
  <2>4. Cardinality(WorkOf(r)') =
          Cardinality(WorkOf(r)) - (IF r = w.of THEN 1 ELSE 0)
    BY <2>2, WorkCount
  <2>5. \/ performed'[r] = performed[r]
        \/ r = w.of /\ performed'[r] = performed[r] + 1
    BY <2>2 DEF TypeOK, DeedTypes
  <2>6. method[message] \in Answered
    BY <2>2 DEF WorkIsCurrent, Current1, Posted
  <2>7. Pending(r)' = 0
    BY <2>2, <2>6 DEF Pending, Answered
  <2>8. Cardinality(WorkOf(r)') \in Nat
    <3>1. IsFiniteSet(work')
      BY <2>2, FS_RemoveElement
    <3>2. WorkOf(r)' \subseteq work'
      BY DEF WorkOf
    <3> QED
      BY <3>1, <3>2, FS_Subset, FS_CardinalityType
  <2> QED
    BY <2>1, <2>2, <2>3, <2>4, <2>5, <2>7, <2>8
<1>11. ASSUME CallCanister
    PROVE  ApprovalsCover'
  <2> SUFFICES ASSUME closed' = {}, NEW r \in Requests
               PROVE  performed'[r] + Cardinality(WorkOf(r)') + Pending(r)'
                        <= approvals'[r]
    BY DEF ApprovalsCover
  <2>1. /\ performed[r] \in Nat /\ approvals[r] \in Nat
        /\ Pending(r) \in {0, 1} /\ Cardinality(WorkOf(r)) \in Nat
    BY WorkCount DEF TypeOK, DeedTypes, Pending
  <2>2. /\ UNCHANGED <<work, approvals, closed, message, method, handle>>
        /\ handle = "EXECUTE" /\ run.step = "call" /\ run \in Runs
        /\ method[message] = "ic_canisterCall"
        /\ performed' = [performed EXCEPT ![message] = @ + 1]
        /\ run' = [run EXCEPT !.step = "reply"]
    BY <1>11 DEF CallCanister, Running, TypeOK, ProcedureTypes
  <2>3. performed[r] + Cardinality(WorkOf(r)) + Pending(r) <= approvals[r]
    BY <2>2 DEF ApprovalsCover
  <2>4. /\ WorkOf(r)' = WorkOf(r) /\ run'.step = "reply"
        /\ Pending(r) = IF message = r THEN 1 ELSE 0
    BY <2>2 DEF WorkOf, Pending, Runs
  <2>5. Pending(r)' = 0
    BY <2>4 DEF Pending
  <2>6. performed'[r] = IF message = r THEN performed[r] + 1 ELSE performed[r]
    BY <2>2 DEF TypeOK, DeedTypes
  <2> QED
    BY <2>1, <2>2, <2>3, <2>4, <2>5, <2>6
<1>12. ASSUME UNCHANGED vars
    PROVE  ApprovalsCover'
  <2>1. \A s \in Requests : Pending(s)' = Pending(s)
    BY <1>12 DEF Pending
  <2> QED
    BY <1>12, <2>1, SparedStep DEF Spares
<1> QED
  BY StepKinds, <1>1, <1>2, <1>3, <1>4, <1>5, <1>6, <1>7, <1>8, <1>9, <1>10,
    <1>11, <1>12

\* Answers carry what was made for their requests.
LEMMA AnswersStep ==
  ASSUME TypeOK, RunIsCurrent, AnswersAreOwn, [Next]_vars
  PROVE  AnswersAreOwn'
<1> USE EmbedAssumption DEF vars, receiver, context, sign, results, deeds
<1>1. ASSUME NEW r \in Requests, Post(r)
    PROVE  AnswersAreOwn'
  <2>1. UNCHANGED <<answer, closed>>
    BY <1>1 DEF Post, RpcMessage
  <2> QED
    BY <2>1 DEF AnswersAreOwn
<1>2. ASSUME NEW r \in Requests, Validated(r)
    PROVE  AnswersAreOwn'
  <2>1. UNCHANGED <<answer, closed>>
    BY <1>2 DEF Validated, RpcMessage
  <2> QED
    BY <2>1 DEF AnswersAreOwn
<1>3. ASSUME NEW r \in Requests, PostWithOrigin(r)
    PROVE  AnswersAreOwn'
  <2>1. UNCHANGED <<answer, closed>>
    BY <1>3 DEF PostWithOrigin
  <2> QED
    BY <2>1 DEF AnswersAreOwn
<1>4. ASSUME NEW r \in Requests, Invalid(r)
    PROVE  AnswersAreOwn'
  <2>1. /\ closed' = closed /\ answer \in [Requests -> Answers]
        /\ answer' = [answer EXCEPT ![r] = [kind |-> "invalid", of |-> r,
                                           by |-> r, sent |-> TRUE]]
    BY <1>4 DEF Invalid, TypeOK, ResultTypes
  <2>2. /\ answer'[r].kind = "invalid"
        /\ \A s \in Requests : s = r \/ answer'[s] = answer[s]
    BY <2>1
  <2> QED
    BY <2>1, <2>2 DEF AnswersAreOwn
<1>5. ASSUME Quiet
    PROVE  AnswersAreOwn'
  <2>1. UNCHANGED <<answer, closed>>
    BY <1>5 DEF Quiet
  <2> QED
    BY <2>1 DEF AnswersAreOwn
<1>6. ASSUME Closes
    PROVE  AnswersAreOwn'
  <2>1. PICK kind \in {"result", "error", "cancel"}, w \in {run, Own} :
          Responds(kind, w) /\ Carries(kind, w)
    BY <1>6 DEF Closes
  <2>2. /\ answer' = [answer EXCEPT ![message] = [kind |-> kind, of |-> w.of,
                                                 by |-> w.by, sent |-> origin]]
        /\ closed' = {} => closed = {}
    BY <2>1 DEF Responds
  <2>3. /\ message \in Requests /\ answer \in [Requests -> Answers]
    BY <1>6 DEF Closes, TypeOK, ProcedureTypes, ContextTypes, ResultTypes
  <2>4. /\ answer'[message].kind = kind /\ answer'[message].of = w.of
        /\ answer'[message].by = w.by /\ answer'[message].sent = origin
        /\ \A s \in Requests : s = message \/ answer'[s] = answer[s]
    BY <2>2, <2>3
  <2>5. kind = "result" /\ closed = {} => Current1(w.of, w.by)
    <3>1. CASE w.of = message /\ w.by = message
      BY <3>1 DEF Current1
    <3>2. CASE kind = "result" /\ ~(w.of = message /\ w.by = message)
      <4>1. /\ handle = "EXECUTE" /\ method[message] \in Answered
            /\ CanHandle /\ w = run
        BY <2>1, <3>2 DEF Carries
      <4>2. run.ok /\ run.event \in Answered
        BY <4>1 DEF CanHandle
      <4> QED
        BY <4>1, <4>2 DEF RunIsCurrent
    <3> QED
      BY <3>1, <3>2
  <2> QED
    BY <2>2, <2>3, <2>4, <2>5 DEF AnswersAreOwn, Current1
<1>7. ASSUME ApproveCall
    PROVE  AnswersAreOwn'
  <2>1. UNCHANGED <<answer, closed>>
    BY <1>7 DEF ApproveCall
  <2> QED
    BY <2>1 DEF AnswersAreOwn
<1>8. ASSUME RejectTransfer
    PROVE  AnswersAreOwn'
  <2>1. UNCHANGED <<answer, closed>>
    BY <1>8 DEF RejectTransfer
  <2> QED
    BY <2>1 DEF AnswersAreOwn
<1>9. ASSUME Approve
    PROVE  AnswersAreOwn'
  <2>1. UNCHANGED <<answer, closed>>
    BY <1>9 DEF Approve
  <2> QED
    BY <2>1 DEF AnswersAreOwn
<1>10. ASSUME NEW w \in work, WorkDone(w)
    PROVE  AnswersAreOwn'
  <2>1. UNCHANGED <<answer, closed>>
    BY <1>10 DEF WorkDone
  <2> QED
    BY <2>1 DEF AnswersAreOwn
<1>11. ASSUME CallCanister
    PROVE  AnswersAreOwn'
  <2>1. UNCHANGED <<answer, closed>>
    BY <1>11 DEF CallCanister
  <2> QED
    BY <2>1 DEF AnswersAreOwn
<1>12. ASSUME UNCHANGED vars
    PROVE  AnswersAreOwn'
  BY <1>12 DEF AnswersAreOwn
<1> QED
  BY StepKinds, <1>1, <1>2, <1>3, <1>4, <1>5, <1>6, <1>7, <1>8, <1>9, <1>10,
    <1>11, <1>12

\* The types that are not on the side.
MainTypes ==
  /\ ReceiverTypes /\ ContextTypes /\ ResultTypes /\ DeedTypes
  /\ handle \in {"READY", "AWAIT", "EXECUTE", "ERROR"}
  /\ (handle # "READY" => message # None)
  /\ run \in Runs /\ work \subseteq Work /\ IsFiniteSet(work)

RunTypes ==
  /\ handle \in {"READY", "AWAIT", "EXECUTE", "ERROR"}
  /\ (handle # "READY" => message # None) /\ run \in Runs

LEMMA IsRun ==
  ASSUME NEW event \in Answered \cup {"APPROVE", ""}, NEW of \in Requests \cup {None},
         NEW by \in Requests \cup {None}, NEW ok \in BOOLEAN,
         NEW ss \in BOOLEAN, NEW si \in BOOLEAN,
         NEW step \in {"start", "call", "reply"}
  PROVE  [event |-> event, of |-> of, by |-> by, ok |-> ok, session |-> ss,
          signedIn |-> si, step |-> step] \in Runs
  BY DEF Runs

LEMMA KeepsRun ==
  ASSUME run \in Runs, NEW step \in {"start", "call", "reply"}
  PROVE  [run EXCEPT !.step = step] \in Runs
  BY DEF Runs

LEMMA NoRunIsRun == NoRun \in Runs
<1>1. /\ "" \in Answered \cup {"APPROVE", ""} /\ None \in Requests \cup {None}
      /\ FALSE \in BOOLEAN /\ "start" \in {"start", "call", "reply"}
  OBVIOUS
<1> QED
  BY <1>1, IsRun DEF NoRun

LEMMA ReadyTypes ==
  ASSUME FromReady, SignTypes'
  PROVE  RunTypes'
<1>1. session' \in BOOLEAN /\ signedIn' \in BOOLEAN
  BY DEF SignTypes
<1>2. /\ "" \in Answered \cup {"APPROVE", ""} /\ None \in Requests \cup {None}
      /\ FALSE \in BOOLEAN /\ "start" \in {"start", "call", "reply"}
  OBVIOUS
<1>3. run' \in Runs
  <2>1. CASE run' = NoRun
    BY <2>1, NoRunIsRun
  <2>2. CASE run' = [event |-> "", of |-> None, by |-> None, ok |-> FALSE,
                     session |-> session', signedIn |-> signedIn',
                     step |-> "start"]
    BY <1>1, <1>2, <2>2, IsRun
  <2> QED
    BY <2>1, <2>2, FromReadyRuns
<1> QED
  BY <1>3, FromReadyRuns DEF RunTypes

\* Every variable keeps its type.
LEMMA MainStep ==
  ASSUME TypeOK, Posted, ParamsAreCurrent, MainTypes, SignTypes', [Next]_vars
  PROVE  MainTypes'
<1> USE EmbedAssumption DEF vars, receiver, context, sign, results, deeds
<1>1. ASSUME NEW r \in Requests, Post(r)
    PROVE  MainTypes'
  <2>1. ReceiverTypes'
    BY <1>1 DEF Post, RpcMessage, ReceiverTypes, MainTypes
  <2>2. ContextTypes'
    <3>1. queue' \in Seq(Requests)
      BY <1>1, AppendProperties
      DEF Post, RpcMessage, AssignProcedure, QueueRequest, MainTypes, ContextTypes
    <3> QED
      BY <1>1, <3>1
      DEF Post, RpcMessage, AssignProcedure, QueueRequest, MainTypes, ContextTypes
  <2>3. ResultTypes' /\ DeedTypes' /\ work' = work
    BY <1>1 DEF Post, RpcMessage, MainTypes, ResultTypes, DeedTypes
  <2>4. RunTypes'
    <3>1. CASE FromReady
      BY <3>1, ReadyTypes
    <3>2. CASE ~FromReady
      <4>1. UNCHANGED <<handle, run>> /\ handle # "READY"
        BY <1>1, <3>2 DEF Post, RpcMessage, Settles
      <4>2. message' # None
        BY <1>1, <4>1, EmbedAssumption
        DEF Post, RpcMessage, AssignProcedure, QueueRequest, MainTypes
      <4> QED
        BY <4>1, <4>2 DEF RunTypes, MainTypes
    <3> QED
      BY <3>1, <3>2
  <2> QED
    BY <2>1, <2>2, <2>3, <2>4 DEF MainTypes, RunTypes
<1>2. ASSUME NEW r \in Requests, Validated(r)
    PROVE  MainTypes'
  <2>1. ReceiverTypes'
    BY <1>2 DEF Validated, RpcMessage, ReceiverTypes, MainTypes
  <2>2. ContextTypes'
    <3>1. queue' \in Seq(Requests)
      BY <1>2, AppendProperties
      DEF Validated, RpcMessage, AssignProcedure, QueueRequest, MainTypes, ContextTypes
    <3> QED
      BY <1>2, <3>1
      DEF Validated, RpcMessage, AssignProcedure, QueueRequest, MainTypes, ContextTypes
  <2>3. ResultTypes' /\ DeedTypes' /\ work' = work
    BY <1>2 DEF Validated, RpcMessage, MainTypes, ResultTypes, DeedTypes
  <2>4. RunTypes'
    <3>1. CASE FromReady
      BY <3>1, ReadyTypes
    <3>2. CASE ~FromReady
      <4>1. UNCHANGED <<handle, run>> /\ handle # "READY"
        BY <1>2, <3>2 DEF Validated, RpcMessage, Settles
      <4>2. message' # None
        BY <1>2, <4>1, EmbedAssumption
        DEF Validated, RpcMessage, AssignProcedure, QueueRequest, MainTypes
      <4> QED
        BY <4>1, <4>2 DEF RunTypes, MainTypes
    <3> QED
      BY <3>1, <3>2
  <2> QED
    BY <2>1, <2>2, <2>3, <2>4 DEF MainTypes, RunTypes
<1>3. ASSUME NEW r \in Requests, PostWithOrigin(r)
    PROVE  MainTypes'
  BY <1>3 DEF PostWithOrigin, MainTypes, ReceiverTypes, ContextTypes,
    ResultTypes, DeedTypes
<1>4. ASSUME NEW r \in Requests, Invalid(r)
    PROVE  MainTypes'
  <2>1. answer' \in [Requests -> Answers]
    BY <1>4 DEF Invalid, Answers, MainTypes, ResultTypes
  <2> QED
    BY <1>4, <2>1 DEF Invalid, MainTypes, ReceiverTypes, ContextTypes, ResultTypes, DeedTypes
<1>5. ASSUME Quiet
    PROVE  MainTypes'
  <2>1. RunTypes'
    <3>1. CASE FromReady
      BY <3>1, ReadyTypes
    <3>2. message' = message /\ run \in Runs
      BY <1>5 DEF Quiet, MainTypes
    <3>3. CASE UNCHANGED <<handle, run>>
      BY <3>2, <3>3 DEF RunTypes, MainTypes
    <3>4. CASE handle' = "ERROR" /\ run' = NoRun /\ message # None
      BY <3>2, <3>4, NoRunIsRun DEF RunTypes
    <3>5. CASE handle = "ERROR" /\ handle' = "AWAIT" /\ UNCHANGED run
      BY <3>2, <3>5 DEF RunTypes, MainTypes
    <3>6. CASE /\ handle = "EXECUTE" /\ UNCHANGED handle
               /\ run' = [run EXCEPT !.step = "call"]
      BY <3>2, <3>6, KeepsRun DEF RunTypes, MainTypes
    <3> QED
      BY <1>5, <3>1, <3>3, <3>4, <3>5, <3>6 DEF Quiet, QuietRun
  <2> QED
    BY <1>5, <2>1 DEF Quiet, RunTypes, MainTypes, ReceiverTypes, ContextTypes, ResultTypes, DeedTypes
<1>6. ASSUME Closes
    PROVE  MainTypes'
  <2>1. PICK kind \in {"result", "error", "cancel"}, w \in {run, Own} :
          Responds(kind, w)
    BY <1>6 DEF Closes
  <2>2. message \in Requests /\ queue \in Seq(Requests)
    BY <1>6 DEF Closes, MainTypes, ContextTypes
  <2>3. w.of \in Requests \cup {None} /\ w.by \in Requests \cup {None}
    <3>1. CASE w = run
      BY <3>1 DEF Runs, MainTypes
    <3>2. CASE w = Own
      <4>1. w.of = message /\ w.by = message
        BY <3>2 DEF Own
      <4> QED
        BY <2>2, <4>1
    <3> QED
      BY <3>1, <3>2
  <2>4. ResultTypes'
    <3>1. done' \in Seq(Requests)
      BY <2>1, <2>2, AppendProperties DEF Responds, MainTypes, ResultTypes
    <3>2. answer' \in [Requests -> Answers]
      <4>1. [kind |-> kind, of |-> w.of, by |-> w.by, sent |-> origin] \in Answers
        BY <2>3 DEF Answers, MainTypes, ContextTypes
      <4> QED
        BY <2>1, <2>2, <4>1 DEF Responds, MainTypes, ResultTypes
    <3>3. closed' \subseteq Requests
      BY <2>1, <2>2 DEF Responds, MainTypes, ResultTypes
    <3> QED
      BY <3>1, <3>2, <3>3 DEF ResultTypes
  <2>5. ContextTypes'
    <3>1. queue' \in Seq(Requests) /\ message' \in Requests \cup {None}
      BY <2>1, <2>2, HeadTailProperties, EmptySeq DEF Responds, UpdateProcedure
    <3> QED
      BY <2>1, <3>1 DEF Responds, UpdateProcedure, MainTypes, ContextTypes
  <2>6. RunTypes'
    BY <2>1, ReadyTypes DEF Responds
  <2>7. UNCHANGED <<receiver, deeds, work>>
    BY <1>6, <2>1 DEF Closes, Responds
  <2> QED
    BY <2>4, <2>5, <2>6, <2>7
    DEF MainTypes, RunTypes, ReceiverTypes, DeedTypes
<1>7. ASSUME ApproveCall
    PROVE  MainTypes'
  <2>1. /\ UNCHANGED <<receiver, context, work, results, performed>>
        /\ handle = "AWAIT" /\ handle' = "EXECUTE"
        /\ run' = [event |-> "APPROVE", of |-> None, by |-> None, ok |-> TRUE,
                   session |-> session', signedIn |-> signedIn', step |-> "start"]
        /\ approvals' = [approvals EXCEPT ![message] = @ + 1] /\ message \in Requests
    BY <1>7 DEF ApproveCall, Executes, Starts, NoWork, Shown, MainTypes, ContextTypes
  <2>2. session' \in BOOLEAN /\ signedIn' \in BOOLEAN
    BY DEF SignTypes
  <2>3. run' \in Runs
    <3>1. /\ "APPROVE" \in Answered \cup {"APPROVE", ""} /\ None \in Requests \cup {None}
          /\ TRUE \in BOOLEAN /\ "start" \in {"start", "call", "reply"}
      BY DEF Answered
    <3> QED
      BY <2>1, <2>2, <3>1, IsRun
  <2>4. DeedTypes'
    BY <2>1 DEF MainTypes, DeedTypes
  <2>5. RunTypes'
    BY <2>1, <2>3 DEF RunTypes, MainTypes
  <2>6. ReceiverTypes' /\ ContextTypes' /\ ResultTypes' /\ work' = work
    BY <2>1 DEF MainTypes, ReceiverTypes, ContextTypes, ResultTypes
  <2> QED
    BY <2>4, <2>5, <2>6 DEF MainTypes, RunTypes
<1>8. ASSUME RejectTransfer
    PROVE  MainTypes'
  <2>1. /\ UNCHANGED <<receiver, context, work, results, performed>>
        /\ handle = "AWAIT" /\ handle' = "EXECUTE"
        /\ run' = [event |-> "ic_requestTransfer", of |-> None, by |-> None, ok |-> FALSE,
                   session |-> session', signedIn |-> signedIn', step |-> "start"]
        /\ approvals' = approvals /\ message \in Requests
    BY <1>8 DEF RejectTransfer, Executes, Starts, NoWork, Shown, MainTypes, ContextTypes
  <2>2. session' \in BOOLEAN /\ signedIn' \in BOOLEAN
    BY DEF SignTypes
  <2>3. run' \in Runs
    <3>1. /\ "ic_requestTransfer" \in Answered \cup {"APPROVE", ""} /\ None \in Requests \cup {None}
          /\ FALSE \in BOOLEAN /\ "start" \in {"start", "call", "reply"}
      BY DEF Answered
    <3> QED
      BY <2>1, <2>2, <3>1, IsRun
  <2>4. DeedTypes'
    BY <2>1 DEF MainTypes, DeedTypes
  <2>5. RunTypes'
    BY <2>1, <2>3 DEF RunTypes, MainTypes
  <2>6. ReceiverTypes' /\ ContextTypes' /\ ResultTypes' /\ work' = work
    BY <2>1 DEF MainTypes, ReceiverTypes, ContextTypes, ResultTypes
  <2> QED
    BY <2>4, <2>5, <2>6 DEF MainTypes, RunTypes
<1>9. ASSUME Approve
    PROVE  MainTypes'
  <2>1. message \in Requests /\ params \in Requests
    <3>1. message # None
      BY <1>9 DEF Approve, Shown
    <3> QED
      BY <3>1 DEF TypeOK, ContextTypes, ParamsAreCurrent
  <2>2. approvals[message] + 1 \in Nat
    BY <2>1 DEF MainTypes, DeedTypes
  <2>3. PICK v \in Work : work' = work \cup {v}
    BY <1>9, <2>1, <2>2 DEF Approve, Work
  <2>4. work' \subseteq Work /\ IsFiniteSet(work')
    BY <2>3, FS_AddElement DEF MainTypes
  <2>5. DeedTypes'
    BY <1>9, <2>2 DEF Approve, MainTypes, DeedTypes
  <2> QED
    BY <1>9, <2>4, <2>5 DEF Approve, MainTypes, ReceiverTypes, ContextTypes, ResultTypes
<1>10. ASSUME NEW w \in work, WorkDone(w)
    PROVE  MainTypes'
  <2>1. work' \subseteq Work /\ IsFiniteSet(work')
    <3>1. work' = work \ {w}
      BY <1>10 DEF WorkDone
    <3> QED
      BY <3>1, FS_RemoveElement DEF MainTypes
  <2>2. w.of \in Requests /\ w.by \in Requests /\ method[w.of] \in Answered
    BY DEF MainTypes, Work, Posted
  <2>3. DeedTypes'
    <3>1. /\ approvals' = approvals
          /\ \/ performed' = performed
             \/ performed' = [performed EXCEPT ![w.of] = @ + 1]
      BY <1>10 DEF WorkDone
    <3> QED
      BY <2>2, <3>1 DEF MainTypes, DeedTypes
  <2>4. UNCHANGED <<receiver, context, results>>
    BY <1>10 DEF WorkDone, Sends, Lost, Executes
  <2>5. RunTypes'
    <3>1. CASE UNCHANGED <<handle, run>>
      BY <2>4, <3>1 DEF RunTypes, MainTypes
    <3>2. CASE ~UNCHANGED <<handle, run>>
      <4>1. /\ handle = "AWAIT" /\ handle' = "EXECUTE"
            /\ \E ok \in BOOLEAN : Starts(method[w.of], w, ok)
        BY <1>10, <3>2 DEF WorkDone, Sends, Lost, Executes
      <4>2. session' \in BOOLEAN /\ signedIn' \in BOOLEAN
        BY DEF SignTypes
      <4>3. run' \in Runs
        <5>1. PICK ok \in BOOLEAN :
                run' = [event |-> method[w.of], of |-> w.of, by |-> w.by,
                        ok |-> ok, session |-> session',
                        signedIn |-> signedIn', step |-> "start"]
          BY <4>1 DEF Starts
        <5>2. /\ method[w.of] \in Answered \cup {"APPROVE", ""}
              /\ w.of \in Requests \cup {None} /\ w.by \in Requests \cup {None}
              /\ "start" \in {"start", "call", "reply"}
          BY <2>2
        <5> QED
          BY <4>2, <5>1, <5>2, IsRun
      <4> QED
        BY <2>4, <4>1, <4>3 DEF RunTypes, MainTypes
    <3> QED
      BY <3>1, <3>2
  <2> QED
    BY <2>1, <2>3, <2>4, <2>5
    DEF MainTypes, RunTypes, ReceiverTypes, ContextTypes, ResultTypes
<1>11. ASSUME CallCanister
    PROVE  MainTypes'
  <2>1. run' \in Runs
    BY <1>11, KeepsRun DEF CallCanister, MainTypes
  <2>2. DeedTypes'
    <3>1. message \in Requests
      BY <1>11 DEF CallCanister, Running, MainTypes, ContextTypes
    <3>2. /\ approvals' = approvals
          /\ performed' = [performed EXCEPT ![message] = @ + 1]
      BY <1>11 DEF CallCanister
    <3> QED
      BY <3>1, <3>2 DEF MainTypes, DeedTypes
  <2> QED
    BY <1>11, <2>1, <2>2
    DEF CallCanister, MainTypes, ReceiverTypes, ContextTypes, ResultTypes
<1>12. ASSUME UNCHANGED vars
    PROVE  MainTypes'
  BY <1>12 DEF MainTypes, ReceiverTypes, ContextTypes, ResultTypes,
    DeedTypes
<1> QED
  BY StepKinds, <1>1, <1>2, <1>3, <1>4, <1>5, <1>6, <1>7, <1>8, <1>9, <1>10,
    <1>11, <1>12

-----------------------------------------------------------------------------

\* The invariant holds from the start and is kept by every step.
LEMMA InitInvariant == Init => IInv
<1> SUFFICES ASSUME Init PROVE IInv
  OBVIOUS
<1>1. ReceiverTypes /\ ContextTypes /\ SignTypes
  BY EmptySeq DEF Init, ReceiverTypes, ContextTypes, SignTypes
<1>2. ProcedureTypes
  BY DEF Init, ProcedureTypes, Runs, NoRun
<1>3. ResultTypes /\ DeedTypes
  BY EmptySeq DEF Init, ResultTypes, DeedTypes, Answers, NoAnswer
<1>4. TypeOK
  <2>1. failed = FALSE /\ trouble = 0 /\ 0 \in 0..MaxTrouble
    BY EmbedAssumption DEF Init
  <2> QED
    BY <1>1, <1>2, <1>3, <2>1 DEF TypeOK
<1>5. IsFiniteSet(work)
  BY FS_EmptySet DEF Init
<1>6. Posted
  <2>1. Len(queue) = 0
    BY EmptySeq DEF Init
  <2> QED
    BY <2>1 DEF Init, Posted
<1>7. InTurn
  <2>1. <<>> \o <<>> \o <<>> = <<>>
    <3>1. <<>> \in Seq(Requests)
      BY EmptySeq
    <3> QED
      BY <3>1, ConcatEmptySeq
  <2> QED
    BY <2>1 DEF Init, InTurn, NoneLostOrReordered, Current
<1>8. ParamsAreCurrent /\ WorkIsCurrent /\ RunIsCurrent
  BY DEF Init, ParamsAreCurrent, WorkIsCurrent, RunIsCurrent
<1>9. ApprovalsCover
  <2>1. \A r \in Requests :
          /\ performed[r] = 0 /\ approvals[r] = 0 /\ Pending(r) = 0
          /\ WorkOf(r) = {}
    BY DEF Init, Pending, WorkOf
  <2> QED
    BY <2>1, FS_EmptySet DEF ApprovalsCover
<1>10. AnswersAreOwn
  BY DEF Init, AnswersAreOwn, NoAnswer
<1> QED
  BY <1>4, <1>5, <1>6, <1>7, <1>8, <1>9, <1>10 DEF IInv

LEMMA NextInvariant == IInv /\ [Next]_vars => IInv'
<1> SUFFICES ASSUME IInv, [Next]_vars PROVE IInv'
  OBVIOUS
<1> USE DEF IInv
<1>1. /\ SignTypes' /\ screen' \in Work \cup {NoWork}
      /\ failed' \in BOOLEAN /\ trouble' \in 0..MaxTrouble
  BY SideTypes
<1>2. MainTypes
  BY DEF TypeOK, ProcedureTypes, MainTypes
<1>3. MainTypes'
  BY <1>1, <1>2, MainStep
<1>4. TypeOK' /\ IsFiniteSet(work')
  BY <1>1, <1>3 DEF TypeOK, ProcedureTypes, MainTypes
<1>5. Posted' /\ InTurn'
  BY PostedStep, InTurnStep
<1>6. ParamsAreCurrent' /\ WorkIsCurrent' /\ RunIsCurrent'
  BY ParamsStep, WorkStep, RunStep
<1>7. ApprovalsCover'
  BY CoverStep
<1>8. AnswersAreOwn'
  BY AnswersStep
<1> QED
  BY <1>4, <1>5, <1>6, <1>7, <1>8

THEOREM Invariant == Spec => []IInv
<1>1. Init => IInv
  BY InitInvariant
<1>2. IInv /\ [Next]_vars => IInv'
  BY NextInvariant
<1> QED
  BY <1>1, <1>2, PTL DEF Spec

\* Every variable keeps its type, and a procedure that is awaited, executed or
\* failed has a request.
THEOREM TypeCorrect == Spec => []TypeOK
<1>1. IInv => TypeOK
  BY DEF IInv
<1> QED
  BY <1>1, Invariant, PTL

\* The queue of machine.ts: requests are handled once each, in the order of
\* their arrival, through failures, retries, sign-outs and a stop.
THEOREM QueueIsFifo == Spec => []NoneLostOrReordered
<1>1. IInv => NoneLostOrReordered
  BY DEF IInv, InTurn
<1> QED
  BY <1>1, Invariant, PTL

\* No call or transfer without an approval, unless a request was closed while
\* its screen's work went on.
THEOREM DeedsAreApproved == Spec => []MadeOnApproval
<1>1. IInv => MadeOnApproval
  <2> SUFFICES ASSUME IInv, NEW r \in Requests, performed[r] > approvals[r],
                      closed = {}
               PROVE  FALSE
    BY DEF MadeOnApproval
  <2>1. performed[r] + Cardinality(WorkOf(r)) + Pending(r) <= approvals[r]
    BY DEF IInv, ApprovalsCover
  <2>2. /\ performed[r] \in Nat /\ approvals[r] \in Nat
        /\ Pending(r) \in {0, 1} /\ Cardinality(WorkOf(r)) \in Nat
    BY WorkCount DEF IInv, TypeOK, DeedTypes, Pending
  <2> QED
    BY <2>1, <2>2
<1> QED
  BY <1>1, Invariant, PTL

\* Answers carry the work done for their requests, and those that are sent its
\* parameters, unless a request was closed while its screen's work went on.
THEOREM AnswersBelong == Spec => []AnswersAreOwn
<1>1. IInv => AnswersAreOwn
  BY DEF IInv
<1> QED
  BY <1>1, Invariant, PTL

-----------------------------------------------------------------------------
(* The embedded wallet implements OrderedService *)

\* A request is received once: it is posted once, and by then it is neither
\* received nor being validated.
ReceivedOnce ==
  /\ \A i, j \in 1..Len(accepted) : accepted[i] = accepted[j] => i = j
  /\ \A i \in 1..Len(accepted) :
       method[accepted[i]] # "none" /\ accepted[i] \notin checking
  /\ \A r \in checking : method[r] # "none"

LEMMA ReceivesNew ==
  ASSUME TypeOK, ReceivedOnce, NEW r \in Requests, RpcMessage(r),
         method'[r] # "none",
         \A s \in Requests : s # r => method'[s] = method[s],
         method[r] = "none" \/ r \in checking,
         checking' = checking \ {r}
  PROVE  ReceivedOnce'
<1>1. accepted \in Seq(Requests) /\ accepted' = Append(accepted, r)
  BY DEF TypeOK, ReceiverTypes, RpcMessage
<1>2. /\ Len(accepted) \in Nat /\ Len(accepted') = Len(accepted) + 1
      /\ accepted'[Len(accepted) + 1] = r
      /\ \A i \in 1..Len(accepted) :
           accepted'[i] = accepted[i] /\ accepted[i] \in Requests
  BY <1>1, AppendProperties, LenProperties, ElementOfSeq
<1>3. \A i \in 1..Len(accepted) : accepted[i] # r
  BY DEF ReceivedOnce
<1>4. \A i \in 1..Len(accepted') : i \in 1..Len(accepted) \/ i = Len(accepted) + 1
  BY <1>2
<1>5. \A i, j \in 1..Len(accepted') : accepted'[i] = accepted'[j] => i = j
  BY <1>2, <1>3, <1>4 DEF ReceivedOnce
<1>6. \A i \in 1..Len(accepted') :
        method'[accepted'[i]] # "none" /\ accepted'[i] \notin checking'
  BY <1>2, <1>3, <1>4 DEF ReceivedOnce
<1>7. \A s \in checking' : method'[s] # "none"
  BY DEF ReceivedOnce, TypeOK, ReceiverTypes
<1> QED
  BY <1>5, <1>6, <1>7 DEF ReceivedOnce

LEMMA ReceivedOnceStep ==
  ASSUME TypeOK, ReceivedOnce, [Next]_vars
  PROVE  ReceivedOnce'
<1>0. ASSUME UNCHANGED receiver
      PROVE  ReceivedOnce'
  BY <1>0 DEF receiver, ReceivedOnce
<1>1. ASSUME NEW r \in Requests, Post(r)
      PROVE  ReceivedOnce'
  <2>1. PICK m \in Methods : method' = [method EXCEPT ![r] = m]
    BY <1>1 DEF Post
  <2>2. /\ method'[r] # "none" /\ method[r] = "none" /\ RpcMessage(r)
        /\ \A s \in Requests : s # r => method'[s] = method[s]
        /\ checking' = checking /\ r \notin checking
    BY <1>1, <2>1
      DEF Post, TypeOK, ReceiverTypes, Methods, Answered, ReceivedOnce
  <2>3. checking' = checking \ {r}
    BY <2>2
  <2> QED
    BY <2>2, <2>3, ReceivesNew
<1>2. ASSUME NEW r \in Requests, Validated(r)
      PROVE  ReceivedOnce'
  <2>1. /\ method' = method /\ method[r] # "none" /\ r \in checking
        /\ RpcMessage(r) /\ checking' = checking \ {r}
    BY <1>2 DEF Validated, ReceivedOnce
  <2> QED
    BY <2>1, ReceivesNew
<1>3. ASSUME NEW r \in Requests, PostWithOrigin(r)
      PROVE  ReceivedOnce'
  <2>1. PICK m \in Methods : method' = [method EXCEPT ![r] = m]
    BY <1>3 DEF PostWithOrigin
  <2>2. /\ method[r] = "none" /\ method'[r] # "none"
        /\ \A s \in Requests : s # r => method'[s] = method[s]
        /\ checking' = checking \cup {r} /\ accepted' = accepted
    BY <1>3, <2>1
      DEF PostWithOrigin, TypeOK, ReceiverTypes, Methods, Answered
  <2>3. \A i \in 1..Len(accepted) : accepted[i] \in Requests /\ accepted[i] # r
    BY <2>2, ElementOfSeq DEF ReceivedOnce, TypeOK, ReceiverTypes
  <2> QED
    BY <2>2, <2>3 DEF ReceivedOnce, TypeOK, ReceiverTypes
<1>4. ASSUME NEW r \in Requests, Invalid(r)
      PROVE  ReceivedOnce'
  BY <1>4 DEF Invalid, ReceivedOnce
<1>5. ASSUME \/ Quiet \/ Closes \/ ApproveCall \/ RejectTransfer \/ Approve
             \/ \E w \in work : WorkDone(w)
             \/ CallCanister \/ UNCHANGED vars
      PROVE  ReceivedOnce'
  <2>1. UNCHANGED receiver
    BY <1>5 DEF Quiet, Closes, Responds, ApproveCall, RejectTransfer, Executes,
      Approve, WorkDone, Sends, Lost, CallCanister, vars, receiver
  <2> QED
    BY <1>0, <2>1
<1> QED
  BY StepKinds, <1>1, <1>2, <1>3, <1>4, <1>5

THEOREM RequestsOnce == Spec => []ReceivedOnce
<1>1. Init => ReceivedOnce
  BY DEF Init, ReceivedOnce
<1>2. IInv /\ ReceivedOnce /\ [Next]_vars => ReceivedOnce'
  BY ReceivedOnceStep DEF IInv
<1> QED
  BY <1>1, <1>2, Invariant, PTL DEF Spec

\* What is answered was received first, and what is handled comes next.
LEMMA DoneFirst ==
  ASSUME TypeOK, InTurn
  PROVE  /\ Len(done) \in Nat /\ Len(accepted) \in Nat
         /\ Len(done) <= Len(accepted)
         /\ \A n \in 1..Len(done) : done[n] = accepted[n]
         /\ message # None => Len(done) < Len(accepted)
<1>1. /\ done \in Seq(Requests) /\ queue \in Seq(Requests)
      /\ message \in Requests \cup {None}
      /\ accepted = (done \o Current) \o queue
  BY DEF TypeOK, ResultTypes, ContextTypes, InTurn, NoneLostOrReordered
<1>2. /\ Current \in Seq(Requests)
      /\ message # None => Len(Current) = 1
  BY <1>1, EmptySeq DEF Current
<1>3. /\ done \o Current \in Seq(Requests)
      /\ Len(done \o Current) = Len(done) + Len(Current)
      /\ \A n \in 1..Len(done) : (done \o Current)[n] = done[n]
      /\ Len(done) \in Nat /\ Len(Current) \in Nat /\ Len(queue) \in Nat
  BY <1>1, <1>2, ConcatProperties, LenProperties
<1>4. /\ Len(accepted) = Len(done \o Current) + Len(queue)
      /\ \A n \in 1..Len(done \o Current) : accepted[n] = (done \o Current)[n]
  BY <1>1, <1>3, ConcatProperties, LenProperties
<1>5. Len(accepted) = Len(done) + Len(Current) + Len(queue)
  BY <1>3, <1>4
<1>6. ASSUME NEW n \in 1..Len(done)
      PROVE  done[n] = accepted[n]
  <2>1. n \in 1..(Len(done) + Len(Current))
    BY <1>3
  <2> QED
    BY <1>3, <1>4, <2>1
<1>7. Len(done) <= Len(accepted) /\ (message # None => Len(done) < Len(accepted))
  <2> HIDE DEF Current
  <2> QED
    BY <1>2, <1>3, <1>5
<1>8. Len(accepted) \in Nat
  BY <1>3, <1>5
<1> QED
  BY <1>3, <1>6, <1>7, <1>8

LEMMA AnsweredInTurn ==
  ASSUME TypeOK, InTurn, ReceivedOnce
  PROVE  [n \in 1..Len(done) |-> Turn(done[n])] = [n \in 1..Len(done) |-> n]
<1>1. ASSUME NEW n \in 1..Len(done)
      PROVE  Turn(done[n]) = n
  <2>1. n \in 1..Len(accepted) /\ done[n] = accepted[n]
    BY DoneFirst
  <2>2. \A i \in 1..Len(accepted) : accepted[i] = accepted[n] => i = n
    BY <2>1 DEF ReceivedOnce
  <2> QED
    BY <2>1, <2>2 DEF Turn
<1> QED
  BY <1>1

LEMMA StepServes ==
  ASSUME IInv, ReceivedOnce, IInv', ReceivedOnce', [Next]_vars
  PROVE  [Service!ServiceNext]_(Service!serviceVars)
<1> DEFINE turns == [n \in 1..Len(done) |-> Turn(done[n])]
<1>1. /\ turns = [n \in 1..Len(done) |-> n]
      /\ turns' = [n \in 1..Len(done') |-> n]
  <2>1. turns = [n \in 1..Len(done) |-> n]
    BY AnsweredInTurn DEF IInv
  <2>2. (TypeOK /\ InTurn /\ ReceivedOnce => turns = [n \in 1..Len(done) |-> n])'
    BY AnsweredInTurn, PTL
  <2> QED
    BY <2>1, <2>2 DEF IInv
<1> HIDE DEF turns
<1>2. Len(done) \in Nat /\ Len(accepted) \in Nat
  BY DoneFirst DEF IInv
<1>3. ASSUME UNCHANGED <<accepted, done>>
      PROVE  UNCHANGED Service!serviceVars
  <2>1. turns' = turns /\ Len(accepted)' = Len(accepted)
    BY <1>1, <1>3
  <2> QED
    BY <2>1 DEF Service!serviceVars, turns
<1>4. ASSUME NEW r \in Requests, RpcMessage(r)
      PROVE  Service!Accept
  <2>1. accepted' = Append(accepted, r) /\ done' = done
    BY <1>4 DEF RpcMessage, results
  <2>2. Len(accepted)' = Len(accepted) + 1 /\ turns' = turns
    BY <1>1, <2>1, AppendProperties DEF IInv, TypeOK, ReceiverTypes
  <2> QED
    BY <2>2 DEF Service!Accept, turns
<1>5. ASSUME Closes
      PROVE  Service!Answer
  <2>1. /\ accepted' = accepted /\ done' = Append(done, message)
        /\ message \in Requests /\ message # None
    BY <1>5, EmbedAssumption
      DEF Closes, Responds, receiver, IInv, TypeOK, ProcedureTypes, ContextTypes
  <2>2. Len(done) < Len(accepted) /\ Len(done') = Len(done) + 1
    BY <2>1, DoneFirst, AppendProperties DEF IInv, TypeOK, ResultTypes
  <2>3. /\ turns \in Seq(Nat) /\ Len(turns) = Len(done)
        /\ turns' = Append(turns, Len(turns) + 1)
    <3>1. turns \in [1..Len(done) -> Nat]
      BY <1>1, <1>2
    <3>2. turns \in Seq(Nat) /\ Len(turns) = Len(done)
      BY <1>1, <1>2, <3>1, SeqDef
    <3>3. /\ Len(turns') = Len(done) + 1 /\ DOMAIN turns' = 1..(Len(done) + 1)
          /\ \A n \in 1..(Len(done) + 1) : turns'[n] = n
      BY <1>1, <1>2, <2>2
    <3>4. \A n \in 1..Len(done) : turns[n] = n
      BY <1>1
    <3> QED
      BY <1>1, <1>2, <2>2, <3>2, <3>3, <3>4
  <2> QED
    BY <2>1, <2>2, <2>3 DEF Service!Answer, turns
<1>6. CASE \E r \in Requests : Post(r) \/ Validated(r)
  BY <1>4, <1>6 DEF Post, Validated, Service!ServiceNext
<1>7. CASE Closes
  BY <1>5, <1>7 DEF Service!ServiceNext
<1>8. CASE \/ \E r \in Requests : PostWithOrigin(r) \/ Invalid(r)
           \/ Quiet \/ ApproveCall \/ RejectTransfer \/ Approve
           \/ \E w \in work : WorkDone(w)
           \/ CallCanister \/ UNCHANGED vars
  <2>1. UNCHANGED <<accepted, done>>
    BY <1>8 DEF PostWithOrigin, Invalid, Quiet, ApproveCall, RejectTransfer,
      Executes, Approve, WorkDone, Sends, Lost, CallCanister, vars, receiver,
      results
  <2> QED
    BY <1>3, <2>1
<1> QED
  BY StepKinds, <1>6, <1>7, <1>8 DEF IInv

\* Requests validated at the same time are received in any order; from then on
\* the embedded wallet answers as OrderedService promises.
THEOREM Implements == Spec => ServedInOrder
<1>1. Init => Service!ServiceInit
  <2> SUFFICES ASSUME Init PROVE Service!ServiceInit
    OBVIOUS
  <2>1. Len(accepted) = 0 /\ Len(done) = 0
    BY DEF Init
  <2>2. [n \in 1..Len(done) |-> Turn(done[n])] = <<>>
    BY <2>1
  <2> QED
    BY <2>1, <2>2 DEF Service!ServiceInit
<1>2. IInv /\ ReceivedOnce /\ IInv' /\ ReceivedOnce' /\ [Next]_vars
        => [Service!ServiceNext]_(Service!serviceVars)
  BY StepServes
<1>3. Spec => Service!ServiceInit /\ [][Service!ServiceNext]_(Service!serviceVars)
  BY <1>1, <1>2, Invariant, RequestsOnce, PTL DEF Spec
<1> QED
  BY <1>3 DEF ServedInOrder, Service!ServiceSpec

-----------------------------------------------------------------------------
(* A request that waits *)

LEMMA SettlesWaiting ==
  ASSUME FromReady \/ Settles
  PROVE  WaitsForSignIn'
<1>1. CASE FromReady
  BY <1>1 DEF FromReady, HasProcedure, WaitsForSignIn
<1>2. CASE Settles
  BY <1>1, <1>2 DEF Settles, WaitsForSignIn
<1> QED
  BY <1>1, <1>2

LEMMA WaitingStep ==
  ASSUME WaitsForSignIn, [Next]_vars
  PROVE  WaitsForSignIn'
<1>0. ASSUME UNCHANGED <<handle, message, session>>
      PROVE  WaitsForSignIn'
  BY <1>0 DEF WaitsForSignIn
<1>1. ASSUME handle' # "READY"
      PROVE  WaitsForSignIn'
  BY <1>1 DEF WaitsForSignIn
<1>2. ASSUME NEW r \in Requests, Post(r) \/ Validated(r)
      PROVE  WaitsForSignIn'
  BY <1>2, SettlesWaiting DEF Post, Validated, RpcMessage
<1>3. ASSUME NEW r \in Requests, PostWithOrigin(r) \/ Invalid(r)
      PROVE  WaitsForSignIn'
  BY <1>0, <1>3 DEF PostWithOrigin, Invalid, context, sign
<1>4. CASE CheckAppMeta \/ CheckAuthentication \/ Authenticate
  BY <1>4, SettlesWaiting DEF CheckAppMeta, CheckAuthentication, Authenticate, Auth
<1>5. CASE Stops
  BY <1>0, <1>5 DEF Stops, context, sign
<1>6. CASE SessionExpired \/ LosesDelegation \/ Reset
  BY <1>0, <1>5, <1>6, SettlesWaiting DEF SessionExpired, LosesDelegation, Reset, Auth, context
<1>7. ASSUME NEW kind, NEW w, Responds(kind, w)
      PROVE  WaitsForSignIn'
  BY <1>7, SettlesWaiting DEF Responds
<1>8. CASE Cancel \/ CancelError \/ AnswerWork \/ RenewDelegation
  BY <1>5, <1>7, <1>8 DEF Cancel, CancelError, Cancels, AnswerWork, RenewDelegation
<1>9. CASE CallReturns \/ GetDelegation \/ MissingSession
  BY <1>0, <1>1, <1>7, <1>9 DEF CallReturns, GetDelegation, MissingSession, Rejects, context, sign
<1>10. CASE ApproveCall \/ RejectTransfer \/ Approve \/ CallCanister
  BY <1>0, <1>1, <1>10
    DEF ApproveCall, RejectTransfer, Approve, CallCanister, Executes, context, sign
<1>11. ASSUME NEW w \in work, WorkDone(w)
       PROVE  WaitsForSignIn'
  BY <1>0, <1>1, <1>11 DEF WorkDone, Sends, Lost, Executes, context, sign
<1>12. CASE Retry
  BY <1>1, <1>5, <1>12 DEF Retry
<1>13. CASE UNCHANGED vars
  BY <1>0, <1>13 DEF vars, context, sign
<1> QED
  BY <1>2, <1>3, <1>4, <1>6, <1>8, <1>9, <1>10, <1>11, <1>12, <1>13
    DEF Next, Progress, Handling

\* No wake-up is lost: whenever the session is there, the machine is at work on
\* the request it has.
THEOREM WaitsOnlyForSignIn == Spec => []WaitsForSignIn
<1>1. Init => WaitsForSignIn
  BY DEF Init, WaitsForSignIn
<1>2. WaitsForSignIn /\ [Next]_vars => WaitsForSignIn'
  BY WaitingStep
<1> QED
  BY <1>1, <1>2, PTL DEF Spec

=============================================================================
