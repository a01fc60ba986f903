------------------------- MODULE AuthenticationProofs -------------------------
(***************************************************************************)
(* Proofs about Authentication, for any accounts, calls and failures.      *)
(*                                                                         *)
(* The invariant has a part that holds whatever overlaps (which call waits *)
(* for what, and for whom) and one for a page on which no two calls met:   *)
(* there the agent, the published session and KEY_ANCHOR are followed      *)
(* through every flow.  Each step of the machine is first shown to be of   *)
(* one of a few shapes, and each part of the invariant is proved for the   *)
(* shapes.                                                                 *)
(***************************************************************************)
EXTENDS Authentication, TLAPS

\* What may be running as which call: the connectors of the screens, and what
\* the machine invokes.
OfScreens == Connectors \cup {"addPasskey", "addPhrase"}
OfMachine == Providers \cup {"wallets", "send", "poll", "check", "plan"}

\* A call is of a kind that waits for its step.
CallFits(j) ==
  /\ j \in Calls => Is(j, OfScreens \cup {"none"})
  /\ j = Service => Is(j, OfMachine \cup {"none"})
  /\ call[j].step = "idle" <=> Is(j, {"none"})
  /\ call[j].step = "prove" => Is(j, {"google", "ii"} \cup (Connectors \ {"anchor"}))
  /\ call[j].step \in {"profile", "wipe"} =>
       Is(j, Providers \cup (Connectors \ {"signup", "device"})
               \cup {"check", "addPasskey", "addPhrase"})
  /\ call[j].step = "create" => Is(j, Providers \cup {"signup"})
  /\ call[j].step \in {"set", "publish"} => Is(j, Providers \cup Connectors)
  /\ call[j].step = "devices" => Is(j, {"check"})
  /\ call[j].step = "store" => Is(j, {"addPasskey", "addPhrase"})
  /\ call[j].step = "finish" =>
       Is(j, Providers \cup (Connectors \ {"device"}) \cup {"wallets", "send", "poll", "plan"})

\* The machine waits for the service that its state has invoked.
ServiceFits ==
  /\ Is(Service, {"wallets"}) <=> state = "CheckWallets"
  /\ Is(Service, {"google"}) <=> state = "AuthWithGoogle"
  /\ Is(Service, {"ii"}) <=> state = "AuthWithII"
  /\ Is(Service, {"check"}) <=> state = "check2FA"
  /\ Is(Service, {"plan"}) <=>
       state \in {"GetRecoveryProvisioningPlan", "VerifyPasskeyProvisioning",
                  "VerifyRecoveryProvisioning"}
  /\ Is(Service, {"send"}) <=> email = "SendVerificationEmail"
  /\ Is(Service, {"poll"}) <=> email = "PendingEmailVerification"
  /\ Is(Service, {"email"}) <=> email = "EmailVerified"

\* A sign-in is for an account, and once the device, the phrase or the provider
\* has signed its requests are that account's.
Signed(j) ==
  /\ Is(j, Providers \cup Connectors) => call[j].as \in Accounts
  /\ Is(j, Providers \cup Connectors) /\ call[j].step # "prove" => call[j].signer = call[j].as
  /\ Is(j, Connectors) /\ call[j].step # "prove" => call[j].as \in proved
  /\ Is(j, Providers) /\ call[j].step \in {"set", "publish"} => call[j].as \notin TwoFactor
  /\ Is(j, {"email"}) => call[j].as = mailbox

\* Accounts that a later step relies on.
Known ==
  /\ email # "none" => mailbox \in Accounts /\ authSession = None
  /\ state = "TwoFA" => allowed \in Accounts
  /\ Existing \subseteq registered
  /\ session \in TwoFactor => session \in proved

\* The screens on which a call that was not left can be running.
Home(kind) ==
  CASE kind = "passkey" -> {"ChooseWallet", "AuthSelection"}
    [] kind = "signup" -> {"SignUpWithPasskey"}
    [] kind \in {"phrase", "legacy"} -> {"SignInWithRecoveryPhrase"}
    [] kind \in {"device", "anchor"} -> {"OtherSignOptions"}
    [] kind = "factor" -> {"TwoFA"}
    [] kind = "addPasskey" -> {"AddPasskeys"}
    [] kind = "addPhrase" -> {"AuthSaveRecoveryPhrase"}
    [] OTHER -> {}

\* Without an overlap one call of a screen runs, and its screen is shown.
Alone ==
  /\ \A c, d \in Calls : Running(c) /\ Running(d) => c = d
  /\ \A c \in Calls : Running(c) => state \in Home(call[c].kind)
  /\ \A c \in Calls : Is(c, {"passkey"}) => isPasskeyLoading

\* Whom the page stands for while a sign-in of account a waits for its step.
ActsFor(j) ==
  LET a == call[j].as IN
  /\ Is(j, Providers \cup Connectors) /\ call[j].step \notin {"prove", "finish"} => agent = a
  /\ Is(j, Providers \cup Connectors) /\ call[j].step = "publish" => anchor = a
  /\ Is(j, Connectors \ {"phrase"}) /\ call[j].step \in {"profile", "wipe"} =>
       call[j].step = "profile" /\ session = a /\ anchor = a
  /\ Is(j, Connectors) /\ call[j].step = "finish" => agent = a /\ session = a /\ anchor = a
  /\ Is(j, {"factor"}) => a = authSession

\* A provider has signed in account a: its session is published, or it has a
\* second factor; then the agent is its own, or anonymous after a wipe.
ProviderDone(a) ==
  IF a \in TwoFactor THEN agent = None \/ (agent = a /\ anchor \in {None, a})
                     ELSE agent = a /\ session = a /\ anchor = a

\* What the state of the machine says of the page's identity.
StateFits ==
  /\ state = "check2FA" => authSession \in Accounts /\ ProviderDone(authSession)
                             /\ call[Service].signer = agent
  /\ email = "Authenticated" => ProviderDone(mailbox)
  /\ Is(Service, Providers) /\ call[Service].step = "finish" => ProviderDone(call[Service].as)
  /\ state = "TwoFA" => authSession = allowed
  /\ state \in SignedIn => authSession # None /\ session = authSession
                             /\ agent = authSession /\ anchor = authSession
  /\ \A c \in Calls : Is(c, {"addPasskey", "addPhrase"}) =>
       call[c].signer = authSession /\ call[c].step \in {"profile", "store"}
  /\ Is(Service, {"check"}) => call[Service].step \in {"profile", "devices"}

Undisturbed == ~overlapped => Alone /\ (\A j \in Jobs : ActsFor(j)) /\ StateFits

IInv ==
  /\ TypeOK /\ (\A j \in Jobs : CallFits(j) /\ Signed(j)) /\ ServiceFits /\ Known
  /\ Undisturbed

-----------------------------------------------------------------------------
(* The shapes of a step *)

Keeps(j) == \A d \in Jobs \ {j} : call'[d] = call[d]

\* Call j goes on to step s, its next request signed by id.
To(j, s, id) ==
  /\ call'[j].kind = call[j].kind /\ call'[j].step = s
  /\ call'[j].as = call[j].as /\ call'[j].signer = id
  /\ Keeps(j)

Over(j) == call'[j] = Idle /\ Keeps(j)

\* Call j is over, and the machine invokes what state s asks for.
Invokes(j, s, who, id) ==
  /\ state' = s /\ authSession' = who /\ agent' = id
  /\ call'[Service] = Invoke(s, who, id)
  /\ j # Service => call'[j] = Idle
  /\ \A d \in Jobs \ {j, Service} : call'[d] = call[d]

SameMail == email' = email /\ mailbox' = mailbox
SameState == state' = state /\ authSession' = authSession
SamePage == agent' = agent /\ session' = session /\ anchor' = anchor
SameRest == allowed' = allowed /\ registered' = registered
SameMarks == proved' = proved /\ overlapped' = overlapped
SameLoading == isPasskeyLoading' = isPasskeyLoading
LoadingEnds(j) == isPasskeyLoading' = (isPasskeyLoading /\ ~Is(j, {"passkey"}))

\* A screen begins a call for account a.
Begins(c, kind, a) ==
  /\ ~Running(c) /\ kind \in OfScreens \ {"anchor"} /\ state \in Home(kind)
  /\ kind \in Connectors => a \in Accounts
  /\ kind = "factor" => a = allowed
  /\ call'[c] = [kind |-> kind, step |-> IF kind \in Connectors THEN "prove" ELSE "profile",
                 as |-> a, signer |-> agent]
  /\ Keeps(c)
  /\ isPasskeyLoading' = (isPasskeyLoading \/ kind = "passkey")
  /\ overlapped' = (overlapped \/ \E d \in Calls : Running(d))
  /\ SameState /\ SameMail /\ SamePage /\ SameRest /\ proved' = proved

\* The screens between which the user moves without a call.
Moves(to) ==
  /\ {state, to} \subseteq (Screens \cup {"End"}) \ {"TwoFA", "EmailAuthentication"}
  /\ to \in SignedIn => state \in SignedIn
  /\ state \in Home("passkey") /\ isPasskeyLoading => to \in Home("passkey")
  /\ state' = to /\ authSession' = authSession
  /\ overlapped' = (overlapped \/ ~NoneRuns(Kinds \ {"passkey"}))
  /\ call' = call /\ SameMail /\ SamePage /\ SameRest /\ proved' = proved /\ SameLoading

\* Google or Internet Identity is asked for account a.
AsksProvider(kind, a) ==
  /\ state = "AuthSelection" /\ ~isPasskeyLoading /\ a \in Accounts
  /\ \/ kind = "google" /\ state' = "AuthWithGoogle"
     \/ kind = "ii" /\ state' = "AuthWithII"
  /\ authSession' \in {authSession, None}
  /\ call'[Service].kind = kind /\ call'[Service].step = "prove" /\ call'[Service].as = a
  /\ Keeps(Service)
  /\ SameMail /\ SamePage /\ SameRest /\ SameMarks /\ SameLoading

\* The e-mail machine starts, or goes from one of its states to another.
MailCall(s, kind) ==
  /\ \/ s = "SendVerificationEmail" /\ kind = "send"
     \/ s = "PendingEmailVerification" /\ kind = "poll"
     \/ s = "Error" /\ kind = "none"
  /\ email' = s
  /\ call'[Service].kind = kind
  /\ call'[Service].step = IF kind = "none" THEN "idle" ELSE "finish"
  /\ Keeps(Service)
  /\ SamePage /\ SameRest /\ SameMarks /\ SameLoading

StartsMail(a) ==
  /\ state = "AuthSelection" /\ ~isPasskeyLoading /\ a \in Accounts
  /\ state' = "EmailAuthentication" /\ authSession' = None /\ mailbox' = a
  /\ MailCall("SendVerificationEmail", "send")

MailMoves(s, kind) ==
  /\ state = "EmailAuthentication" /\ SameState /\ mailbox' = mailbox
  /\ MailCall(s, kind)

\* The mail was opened: the address signs in.
MailOpened ==
  /\ Is(Service, {"poll"}) /\ email' = "EmailVerified" /\ agent' = mailbox
  /\ call'[Service] = [kind |-> "email", step |-> "profile", as |-> mailbox, signer |-> mailbox]
  /\ Keeps(Service)
  /\ SameState /\ mailbox' = mailbox /\ session' = session /\ anchor' = anchor
  /\ SameRest /\ SameMarks /\ SameLoading

MailEnds(s, who) ==
  /\ email # "none" /\ email' = "none" /\ mailbox' = None
  /\ \/ s = "AuthSelection" /\ who = None
     \/ s = "check2FA" /\ who = mailbox /\ email = "Authenticated"
  /\ Invokes(Service, s, who, agent)
  /\ session' = session /\ anchor' = anchor /\ SameRest /\ SameMarks /\ SameLoading

MailFails ==
  /\ Is(Service, {"email"}) /\ email' = "Error" /\ Over(Service)
  /\ SameState /\ mailbox' = mailbox /\ SamePage /\ SameRest /\ SameMarks /\ SameLoading

MailDone ==
  /\ Is(Service, {"email"}) /\ call[Service].step = "finish"
  /\ email' = "Authenticated" /\ Over(Service)
  /\ SameState /\ mailbox' = mailbox /\ SamePage /\ SameRest /\ SameMarks /\ SameLoading

\* A call that goes on leaves the machine where it is.
GoesOn == SameState /\ SameMail /\ overlapped' = overlapped /\ SameLoading

Proves(j, s) ==
  /\ call[j].step = "prove" /\ To(j, s, call[j].as) /\ agent' = call[j].as
  /\ s = IF Is(j, {"google", "ii", "phrase"}) THEN "profile"
         ELSE IF Is(j, {"signup"}) THEN "create" ELSE "set"
  /\ proved' = proved \cup (IF Is(j, Providers) THEN {} ELSE {call[j].as})
  /\ session' = session /\ anchor' = anchor /\ SameRest /\ GoesOn

Wipes(j) ==
  /\ call[j].step = "profile" /\ Mismatch(j) /\ call[j].signer \in registered
  /\ To(j, "wipe", call[j].signer) /\ anchor' = None
  /\ agent' = agent /\ session' = session /\ SameRest /\ proved' = proved /\ GoesOn

\* The profile is there, id is the agent's identity by then.
Profiled(j, id) ==
  /\ \/ /\ call[j].step = "profile" /\ ~Mismatch(j) /\ call[j].signer \in registered
        /\ id = agent /\ session' = session
     \/ call[j].step = "wipe" /\ id = None /\ session' = None
  /\ anchor' = anchor /\ SameRest /\ proved' = proved

SetsProfile(j, id) ==
  /\ Profiled(j, id) /\ Is(j, Providers \cup {"phrase"})
  /\ Is(j, Providers) => call[j].signer \notin TwoFactor
  /\ To(j, "set", call[j].as) /\ agent' = call[j].as /\ GoesOn

LeavesProfile(j, id) ==
  /\ Profiled(j, id)
  /\ \/ Is(j, Connectors \ {"phrase"})
     \/ Is(j, Providers) /\ call[j].signer \in TwoFactor
  /\ To(j, "finish", call[j].signer) /\ agent' = id /\ GoesOn

StoresNext(j, id) ==
  /\ Profiled(j, id) /\ Is(j, {"addPasskey", "addPhrase"})
  /\ To(j, "store", id) /\ agent' = id /\ GoesOn

DevicesNext(j, id) ==
  /\ Profiled(j, id) /\ Is(j, {"check"}) /\ call[j].signer \in TwoFactor
  /\ To(j, "devices", id) /\ agent' = id /\ GoesOn

PassesCheck(j, id) ==
  /\ Profiled(j, id) /\ Is(j, {"check"}) /\ call[j].signer \notin TwoFactor
  /\ Invokes(j, "GetRecoveryProvisioningPlan", authSession, authSession)
  /\ SameMail /\ overlapped' = overlapped /\ SameLoading

CreatesNext(j) ==
  /\ call[j].step = "profile" /\ Is(j, Providers)
  /\ To(j, "create", call[j].as) /\ agent' = call[j].as
  /\ session' = session /\ anchor' = anchor /\ SameRest /\ proved' = proved /\ GoesOn

Creates(j) ==
  /\ call[j].step = "create" /\ call[j].signer \notin registered
  /\ registered' = registered \cup {call[j].signer} /\ allowed' = allowed
  /\ To(j, "set", call[j].as) /\ agent' = call[j].as
  /\ session' = session /\ anchor' = anchor /\ proved' = proved /\ GoesOn

SetsAnchor(j) ==
  /\ call[j].step = "set" /\ anchor' = call[j].signer
  /\ To(j, "publish", call[j].signer)
  /\ agent' = agent /\ session' = session /\ SameRest /\ proved' = proved /\ GoesOn

Publishes(j, s) ==
  /\ call[j].step = "publish" /\ session' = call[j].as /\ agent' = call[j].as
  /\ ~Is(j, {"device"}) /\ To(j, s, call[j].as)
  /\ \/ s = "finish" /\ ~Is(j, {"passkey", "factor", "legacy"})
     \/ s = "profile" /\ Is(j, {"passkey", "factor", "legacy", "anchor"})
  /\ anchor' = anchor /\ SameRest /\ proved' = proved /\ GoesOn

PublishesFirst(j) ==
  /\ call[j].step = "publish" /\ session' = call[j].as /\ agent' = call[j].as
  /\ Is(j, {"device"}) /\ Keeps(j)
  /\ call'[j].kind = "anchor" /\ call'[j].step = "set"
  /\ call'[j].as = call[j].as /\ call'[j].signer = call[j].as
  /\ anchor' = anchor /\ SameRest /\ proved' = proved /\ GoesOn

AsksFactor(j) ==
  /\ call[j].step = "devices" /\ call[j].signer \in registered
  /\ session' = None /\ allowed' = call[j].signer /\ anchor' = anchor
  /\ Invokes(j, "TwoFA", authSession, None)
  /\ SameMail /\ registered' = registered /\ SameMarks /\ SameLoading

\* The machine enters state s and the page stays as it is.
Enters(j, s, who) ==
  /\ Invokes(j, s, who, agent)
  /\ session' = session /\ anchor' = anchor /\ SameMail /\ SameRest /\ SameMarks /\ LoadingEnds(j)

ChecksNext(j) ==
  Is(j, {"google", "ii"}) /\ call[j].step = "finish" /\ Enters(j, "check2FA", call[j].as)

SignsIn(j, s) ==
  /\ Is(j, Connectors) /\ call[j].step = "finish" /\ s \in {"GetRecoveryProvisioningPlan", "End"}
  /\ state \in {"ChooseWallet", "AuthSelection", "SignUpWithPasskey", "OtherSignOptions",
                "SignInWithRecoveryPhrase", "TwoFA"}
  /\ Enters(j, s, IF state = "TwoFA" THEN authSession ELSE call[j].as)

Advances(j, s) ==
  /\ Is(j, {"plan", "addPasskey", "addPhrase"}) /\ {state, s} \subseteq SignedIn
  /\ Enters(j, s, authSession)

GivesUp(s) ==
  /\ Is(Service, {"wallets", "google", "ii", "check"})
  /\ s \in {"ChooseWallet", "AuthSelection", "Stopped"}
  /\ Enters(Service, s, authSession)

\* A screen's call is over and the machine does not react.
Drops(j) ==
  /\ j # Service /\ Running(j) /\ Over(j)
  /\ SameState /\ SameMail /\ SamePage /\ SameRest /\ SameMarks /\ LoadingEnds(j)

SignsOut(j) ==
  /\ Is(j, {"passkey", "factor"}) /\ Over(j) /\ agent' = None /\ session' = None
  /\ SameState /\ SameMail /\ anchor' = anchor /\ SameRest /\ SameMarks /\ LoadingEnds(j)

\* Nothing that the invariant knows of changes.
Rests ==
  /\ \A j \in Jobs : call'[j] = call[j]
  /\ SameState /\ SameMail /\ SamePage /\ SameRest /\ SameMarks /\ SameLoading

-----------------------------------------------------------------------------
(* The updates of the calls *)

Basics == TypeOK /\ (\A j \in Jobs : CallFits(j) /\ Signed(j)) /\ ServiceFits /\ Known

CallRecords == [kind : Kinds, step : Steps, as : Someone, signer : Someone]

LEMMA CallFields ==
  ASSUME TypeOK, NEW j \in Jobs
  PROVE  /\ call[j] \in CallRecords
         /\ call[j] = [kind |-> call[j].kind, step |-> call[j].step,
                       as |-> call[j].as, signer |-> call[j].signer]
         /\ call[j].kind \in Kinds /\ call[j].step \in Steps
         /\ call[j].as \in Someone /\ call[j].signer \in Someone
  BY DEF TypeOK, CallRecords

LEMMA ServiceIsJob == Service \in Jobs /\ Calls \subseteq Jobs /\ Service \notin Calls
  BY AuthenticationAssumption DEF Jobs

LEMMA Updated ==
  ASSUME TypeOK, NEW j \in Jobs, NEW r, call' = [call EXCEPT ![j] = r]
  PROVE  /\ call'[j] = r /\ Keeps(j)
         /\ r \in CallRecords => call' \in [Jobs -> CallRecords]
  BY DEF TypeOK, Keeps, CallRecords

Stepping(r, s) == [r EXCEPT !.step = s]
Asking(r, s, id) == [r EXCEPT !.step = s, !.signer = id]
Anchoring(r, s, id) == [r EXCEPT !.kind = "anchor", !.step = s, !.signer = id]

Calling(r, k, s, a) == [r EXCEPT !.kind = k, !.step = s, !.as = a]

LEMMA CallUpdates ==
  ASSUME NEW r \in CallRecords, NEW s \in Steps, NEW id \in Someone
  PROVE  /\ Stepping(r, s) \in CallRecords /\ Stepping(r, s).kind = r.kind
         /\ Stepping(r, s).step = s /\ Stepping(r, s).as = r.as
         /\ Stepping(r, s).signer = r.signer
         /\ Asking(r, s, id) \in CallRecords /\ Asking(r, s, id).kind = r.kind
         /\ Asking(r, s, id).step = s /\ Asking(r, s, id).as = r.as
         /\ Asking(r, s, id).signer = id
         /\ Anchoring(r, s, id) \in CallRecords /\ Anchoring(r, s, id).kind = "anchor"
         /\ Anchoring(r, s, id).step = s /\ Anchoring(r, s, id).as = r.as
         /\ Anchoring(r, s, id).signer = id
  BY DEF CallRecords, Stepping, Asking, Anchoring, Kinds, Connectors

LEMMA NewCall ==
  ASSUME NEW r \in CallRecords, NEW k \in Kinds, NEW s \in Steps, NEW id \in Someone
  PROVE  /\ Calling(r, k, s, id) \in CallRecords /\ Calling(r, k, s, id).kind = k
         /\ Calling(r, k, s, id).step = s /\ Calling(r, k, s, id).as = id
         /\ Calling(r, k, s, id).signer = r.signer
  BY DEF CallRecords, Calling

LEMMA IdleRecord ==
  /\ Idle \in CallRecords
  /\ Idle.kind = "none" /\ Idle.step = "idle" /\ Idle.as = None /\ Idle.signer = None
  BY DEF Idle, CallRecords, Kinds, Steps, Someone

LEMMA Stepped ==
  ASSUME TypeOK, NEW j \in Jobs, NEW s \in Steps, Step(j, s)
  PROVE  To(j, s, call[j].signer) /\ call' \in [Jobs -> CallRecords]
<1>1. call' = [call EXCEPT ![j] = Stepping(call[j], s)]
  BY DEF Step, Stepping
<1>2. call[j] \in CallRecords
  BY CallFields
<1>3. /\ call'[j] = Stepping(call[j], s) /\ Keeps(j)
      /\ Stepping(call[j], s) \in CallRecords => call' \in [Jobs -> CallRecords]
  BY <1>1, Updated
<1> QED
  BY <1>2, <1>3, CallUpdates, AuthenticationAssumption DEF To, Someone

LEMMA Asked ==
  ASSUME TypeOK, NEW j \in Jobs, NEW s \in Steps, NEW id \in Someone,
         Ask(j, s, id)
  PROVE  To(j, s, id) /\ agent' = id /\ call' \in [Jobs -> CallRecords]
<1>1. call' = [call EXCEPT ![j] = Asking(call[j], s, id)]
  BY DEF Ask, Asking, TypeOK
<1>2. call[j] \in CallRecords
  BY CallFields
<1>3. /\ call'[j] = Asking(call[j], s, id) /\ Keeps(j)
      /\ Asking(call[j], s, id) \in CallRecords => call' \in [Jobs -> CallRecords]
  BY <1>1, Updated
<1> QED
  BY <1>2, <1>3, CallUpdates DEF To, Ask

LEMMA Called ==
  ASSUME TypeOK, NEW k \in Kinds, NEW s \in Steps, NEW a \in Someone,
         call' = [call EXCEPT ![Service] = [Idle EXCEPT !.kind = k, !.step = s, !.as = a]]
  PROVE  /\ call'[Service].kind = k /\ call'[Service].step = s /\ call'[Service].as = a
         /\ Keeps(Service) /\ call' \in [Jobs -> CallRecords]
<1>1. call' = [call EXCEPT ![Service] = Calling(Idle, k, s, a)]
  BY DEF Calling
<1>2. /\ call'[Service] = Calling(Idle, k, s, a) /\ Keeps(Service)
      /\ Calling(Idle, k, s, a) \in CallRecords => call' \in [Jobs -> CallRecords]
  BY <1>1, Updated, ServiceIsJob
<1> QED
  BY <1>2, NewCall, IdleRecord

LEMMA Entered ==
  ASSUME TypeOK, NEW j \in Jobs, NEW s, NEW who, NEW id, Enter(j, s, who, id)
  PROVE  Invokes(j, s, who, id)
  BY ServiceIsJob DEF Enter, Invokes, TypeOK

\* The kinds of calls are what they look like.
LEMMA KindsOf ==
  /\ OfScreens = {"passkey", "factor", "device", "anchor", "phrase", "legacy", "signup",
                  "addPasskey", "addPhrase"}
  /\ OfMachine = {"google", "email", "ii", "wallets", "send", "poll", "check", "plan"}
  BY DEF OfScreens, OfMachine, Providers, Connectors

-----------------------------------------------------------------------------
(* Every step has one of the shapes *)

UserStep ==
  \/ \E c \in Calls, kind \in OfScreens, a \in Someone : Begins(c, kind, a)
  \/ \E to \in Screens \cup {"End"} : Moves(to)
  \/ \E kind \in {"google", "ii"}, a \in Accounts : AsksProvider(kind, a)

MailStep ==
  \/ \E a \in Accounts : StartsMail(a)
  \/ \E s \in EmailStates, kind \in Kinds : MailMoves(s, kind)
  \/ \E s \in {"AuthSelection", "check2FA"}, who \in Someone : MailEnds(s, who)
  \/ MailOpened \/ MailFails \/ MailDone

CallStep(j) ==
  \/ \E s \in Steps : Proves(j, s)
  \/ \E id \in Someone :
       \/ SetsProfile(j, id) \/ LeavesProfile(j, id) \/ StoresNext(j, id)
       \/ DevicesNext(j, id) \/ PassesCheck(j, id)
  \/ Wipes(j) \/ CreatesNext(j) \/ Creates(j) \/ SetsAnchor(j)
  \/ \E s \in Steps : Publishes(j, s)
  \/ PublishesFirst(j) \/ AsksFactor(j) \/ Drops(j) \/ SignsOut(j)

MachineStep(j) ==
  \/ ChecksNext(j)
  \/ \E s \in SignedIn : SignsIn(j, s) \/ Advances(j, s)

GiveUpStep == \E s \in Screens \cup {"Stopped"} : GivesUp(s)

Shaped ==
  \/ UserStep \/ MailStep \/ GiveUpStep \/ Rests
  \/ \E j \in Jobs : CallStep(j) \/ MachineStep(j)

\* The buttons of the screens.
LEMMA BeginShape ==
  ASSUME Basics, NEW kind \in OfScreens \ {"anchor"}, NEW a \in Someone, NEW s,
         Begin(kind, a, s), state \in Home(kind),
         s = IF kind \in Connectors THEN "prove" ELSE "profile",
         kind \in Connectors => a \in Accounts,
         kind = "factor" => a = allowed,
         isPasskeyLoading' = (isPasskeyLoading \/ kind = "passkey")
  PROVE  \E c \in Calls : Begins(c, kind, a)
<1>1. PICK c \in Calls :
        /\ ~Running(c)
        /\ call' = [call EXCEPT ![c] = [kind |-> kind, step |-> s, as |-> a, signer |-> agent]]
  BY DEF Begin
<1>2. /\ call'[c] = [kind |-> kind, step |-> s, as |-> a, signer |-> agent]
      /\ Keeps(c)
  BY <1>1, Updated, ServiceIsJob DEF Basics
<1> QED
  BY <1>1, <1>2 DEF Begin, Begins, SameState, SameMail, SamePage, SameRest,
    machine, identity, canisters

LEMMA SignInShapes ==
  ASSUME Basics, NEW a \in Accounts,
         \/ onLoginWithPasskey(a) \/ onSignUpWithPasskey(a) \/ onRecover(a)
         \/ handleOtherOptionsAuth(a)
  PROVE  UserStep
<1> DEFINE B == \E c \in Calls, kind \in OfScreens, b \in Someone : Begins(c, kind, b)
<1> USE KindsOf DEF Home, Connectors
<1>0. isPasskeyLoading \in BOOLEAN /\ a \in Someone
  BY DEF Basics, TypeOK, Someone
<1>1. ASSUME onLoginWithPasskey(a) PROVE B
  BY <1>0, <1>1, BeginShape DEF onLoginWithPasskey
<1>2. ASSUME onSignUpWithPasskey(a) PROVE B
  BY <1>0, <1>2, BeginShape DEF onSignUpWithPasskey
<1>3. ASSUME onRecover(a) PROVE B
  <2>1. PICK kind \in {"phrase", "legacy"} : Begin(kind, a, "prove")
    BY <1>3 DEF onRecover
  <2> QED
    BY <1>0, <1>3, <2>1, BeginShape DEF onRecover
<1>4. ASSUME handleOtherOptionsAuth(a) PROVE B
  BY <1>0, <1>4, BeginShape DEF handleOtherOptionsAuth
<1> QED
  BY <1>1, <1>2, <1>3, <1>4 DEF UserStep

LEMMA DeviceShapes ==
  ASSUME Basics, handle2FAAuth \/ onAdd \/ onDone
  PROVE  UserStep
<1> DEFINE B == \E c \in Calls, kind \in OfScreens, b \in Someone : Begins(c, kind, b)
<1> USE KindsOf DEF Home, Connectors
<1>0. /\ isPasskeyLoading \in BOOLEAN /\ allowed \in Someone
      /\ session \in Someone /\ authSession \in Someone
      /\ state = "TwoFA" => allowed \in Accounts
  BY DEF Basics, TypeOK, Known
<1>1. ASSUME handle2FAAuth PROVE B
  BY <1>0, <1>1, BeginShape DEF handle2FAAuth
<1>2. ASSUME onAdd PROVE B
  BY <1>0, <1>2, BeginShape DEF onAdd
<1>3. ASSUME onDone PROVE B
  BY <1>0, <1>3, BeginShape DEF onDone
<1> QED
  BY <1>1, <1>2, <1>3 DEF UserStep

LEMMA LeaveShape ==
  ASSUME Basics, NEW from, NEW to, Leave(from, to),
         {from, to} \subseteq (Screens \cup {"End"}) \ {"TwoFA", "EmailAuthentication"},
         to \in SignedIn => from \in SignedIn,
         from \in Home("passkey") /\ isPasskeyLoading => to \in Home("passkey")
  PROVE  Moves(to)
  BY DEF Leave, Moves, SameMail, SamePage, SameRest, SameLoading, identity, canisters

LEMMA NavigateShape ==
  ASSUME Basics, Navigate
  PROVE  UserStep
<1> DEFINE M == \E to \in Screens \cup {"End"} : Moves(to)
<1> USE DEF Screens, SignedIn, Home
<1>1. ASSUME Leave("ChooseWallet", "AuthSelection") PROVE M
  BY <1>1, LeaveShape
<1>2. ASSUME ~isPasskeyLoading,
             \/ Leave("AuthSelection", "ChooseWallet")
             \/ Leave("AuthSelection", "OtherSignOptions")
             \/ Leave("AuthSelection", "SignUpWithPasskey")
      PROVE M
  BY <1>2, LeaveShape
<1>3. ASSUME \/ Leave("SignUpWithPasskey", "AuthSelection")
             \/ Leave("OtherSignOptions", "AuthSelection")
             \/ Leave("OtherSignOptions", "SignInWithRecoveryPhrase")
             \/ Leave("SignInWithRecoveryPhrase", "OtherSignOptions")
      PROVE M
  BY <1>3, LeaveShape
<1>4. ASSUME \/ Leave("AuthAddRecoveryPhrase", "AuthSaveRecoveryPhrase")
             \/ Leave("AddPasskeysSuccess", "End")
      PROVE M
  BY <1>4, LeaveShape
<1> QED
  BY <1>1, <1>2, <1>3, <1>4 DEF Navigate, UserStep

LEMMA ProviderShape ==
  ASSUME Basics, NEW kind \in {"google", "ii"}, NEW a \in Accounts, SelectProvider(kind, a)
  PROVE  AsksProvider(kind, a)
<1>1. kind \in Kinds /\ "prove" \in Steps /\ a \in Someone
  BY DEF Kinds, Providers, Steps, Someone
<1>2. /\ call'[Service].kind = kind /\ call'[Service].step = "prove" /\ call'[Service].as = a
      /\ Keeps(Service)
  BY <1>1, Called DEF SelectProvider, Basics
<1> QED
  BY <1>2 DEF SelectProvider, AsksProvider, SameMail, SamePage, SameRest, SameMarks,
    SameLoading, identity, canisters, ghosts

\* The e-mail machine.
LEMMA MailShape ==
  ASSUME Basics, NEW s, NEW kind, NEW step, Mail(s, kind, step), mailbox' \in Someone,
         \/ s = "SendVerificationEmail" /\ kind = "send" /\ step = "finish"
         \/ s = "PendingEmailVerification" /\ kind = "poll" /\ step = "finish"
         \/ s = "Error" /\ kind = "none" /\ step = "idle"
  PROVE  MailCall(s, kind)
<1>1. kind \in Kinds /\ step \in Steps
  BY DEF Kinds, Steps
<1>2. /\ call'[Service].kind = kind
      /\ call'[Service].step = IF kind = "none" THEN "idle" ELSE "finish"
      /\ Keeps(Service)
  <2>1. CASE kind = "none"
    <3>1. call' = [call EXCEPT ![Service] = Idle]
      BY <2>1 DEF Mail
    <3> QED
      BY <2>1, <3>1, Updated, ServiceIsJob, IdleRecord DEF Basics
  <2>2. CASE kind # "none"
    <3>1. call' = [call EXCEPT ![Service] =
                     [Idle EXCEPT !.kind = kind, !.step = step, !.as = mailbox']]
      BY <2>2 DEF Mail
    <3> QED
      BY <1>1, <2>2, <3>1, Called DEF Basics
  <2> QED
    BY <2>1, <2>2
<1> QED
  BY <1>2 DEF Mail, MailCall, SamePage, SameRest, SameMarks, SameLoading,
    identity, canisters, ghosts

LEMMA EmailEndsShape ==
  ASSUME Basics, NEW who \in Someone, EmailEnds(who), email # "none",
         \/ who = authSession
         \/ who = mailbox /\ email = "Authenticated"
  PROVE  \E s \in {"AuthSelection", "check2FA"}, w \in Someone : MailEnds(s, w)
<1>1. Invokes(Service, IF who = None THEN "AuthSelection" ELSE "check2FA", who, agent)
  BY Entered, ServiceIsJob DEF EmailEnds, Basics
<1>2. authSession = None /\ mailbox # None
  BY AuthenticationAssumption DEF Basics, Known
<1>3. MailEnds(IF who = None THEN "AuthSelection" ELSE "check2FA", who)
  BY <1>1, <1>2 DEF EmailEnds, MailEnds, SameRest, SameMarks, SameLoading,
    canisters, ghosts
<1> QED
  BY <1>3

LEMMA EmailShapes ==
  ASSUME Basics, EmailStep
  PROVE  MailStep
<1>0. /\ email # "none" => state = "EmailAuthentication"
      /\ Accounts \subseteq Someone
      /\ Is(Service, {"send"}) => email = "SendVerificationEmail"
      /\ Is(Service, {"poll"}) => email = "PendingEmailVerification"
      /\ authSession \in Someone /\ mailbox \in Someone
  BY DEF Basics, TypeOK, ServiceFits, Someone
<1> USE DEF EmailStates, Kinds, Providers, Connectors
<1>1. ASSUME NEW a \in Accounts, SelectEmail(a) PROVE MailStep
  BY <1>0, <1>1, MailShape DEF SelectEmail, StartsMail, MailStep
<1>2. CASE sendVerificationEmail
  <2>1. MailMoves("PendingEmailVerification", "poll")
    BY <1>0, <1>2, MailShape DEF sendVerificationEmail, MailMoves, SameState
  <2> QED
    BY <2>1 DEF MailStep
<1>3. CASE checkEmailVerificationFails
  <2>1. MailMoves("Error", "none")
    BY <1>0, <1>3, MailShape DEF checkEmailVerificationFails, MailMoves, SameState
  <2> QED
    BY <2>1 DEF MailStep
<1>4. CASE Resend
  <2>1. MailMoves("SendVerificationEmail", "send")
    BY <1>0, <1>4, MailShape DEF Resend, MailMoves, SameState
  <2> QED
    BY <2>1 DEF MailStep
<1>5. CASE checkEmailVerification
  <2>1. /\ call'[Service] = [kind |-> "email", step |-> "profile", as |-> mailbox,
                             signer |-> mailbox]
        /\ Keeps(Service)
    BY <1>5, Updated, ServiceIsJob DEF checkEmailVerification, Basics
  <2> QED
    BY <1>5, <2>1 DEF checkEmailVerification, MailOpened, MailStep, SameState, SameRest,
      SameMarks, SameLoading, canisters, ghosts
<1>6. CASE sendVerificationEmailFails \/ EmailBack \/ ContinueVerified
  BY <1>0, <1>6, EmailEndsShape DEF sendVerificationEmailFails, EmailBack, ContinueVerified,
    MailStep
<1> QED
  BY <1>1, <1>2, <1>3, <1>4, <1>5, <1>6 DEF EmailStep

\* The calls.
LEMMA ProveShape ==
  ASSUME Basics, NEW j \in Jobs, Prove(j)
  PROVE  CallStep(j)
<1> DEFINE s == IF Is(j, {"google", "ii", "phrase"}) THEN "profile"
                ELSE IF Is(j, {"signup"}) THEN "create" ELSE "set"
<1>1. s \in Steps /\ call[j].as \in Someone
  BY CallFields DEF Steps, Basics
<1>2. Ask(j, s, call[j].as)
  BY DEF Prove, AskAs
<1>3. To(j, s, call[j].as) /\ agent' = call[j].as
  BY <1>1, <1>2, Asked DEF Basics
<1>4. Proves(j, s)
  BY <1>3 DEF Prove, Proves, SameRest, GoesOn, SameState, SameMail, SameLoading,
    machine, canisters
<1> QED
  BY <1>1, <1>4 DEF CallStep

\* What follows a profile, with the fields of the page as the caller has them.
LEMMA ProfileShape ==
  ASSUME Basics, NEW j \in Jobs, NEW id \in Someone, Profile(j, id), Profiled(j, id),
         SameMail, overlapped' = overlapped, SameLoading
  PROVE  CallStep(j)
<1>0. /\ {"set", "finish", "store", "devices"} \subseteq Steps
      /\ call[j].as \in Someone
  BY CallFields DEF Steps, Basics
<1>1. CASE /\ Is(j, Providers \cup {"phrase"}) /\ SetsNow(j, call[j].signer)
           /\ AskAs(j, "set") /\ UNCHANGED <<state, authSession>>
  <2>1. To(j, "set", call[j].as) /\ agent' = call[j].as
    BY <1>0, <1>1, Asked DEF AskAs, Basics
  <2>2. Is(j, Providers) => call[j].signer \notin TwoFactor
    BY <1>1 DEF SetsNow, Is, Providers
  <2>3. SetsProfile(j, id)
    BY <1>1, <2>1, <2>2 DEF SetsProfile, GoesOn, SameState
  <2> QED
    BY <2>3 DEF CallStep
<1>2. CASE /\ Is(j, Providers \cup Connectors) /\ ~SetsNow(j, call[j].signer)
           /\ Step(j, "finish") /\ agent' = id /\ UNCHANGED <<state, authSession>>
  <2>1. To(j, "finish", call[j].signer)
    BY <1>0, <1>2, Stepped DEF Basics
  <2>2. \/ Is(j, Connectors \ {"phrase"})
        \/ Is(j, Providers) /\ call[j].signer \in TwoFactor
    BY <1>2 DEF SetsNow, Is
  <2>3. LeavesProfile(j, id)
    BY <1>2, <2>1, <2>2 DEF LeavesProfile, GoesOn, SameState
  <2> QED
    BY <2>3 DEF CallStep
<1>3. CASE /\ Is(j, {"addPasskey", "addPhrase"})
           /\ Ask(j, "store", id) /\ UNCHANGED <<state, authSession>>
  <2>1. To(j, "store", id) /\ agent' = id
    BY <1>0, <1>3, Asked DEF Basics
  <2>2. StoresNext(j, id)
    BY <1>3, <2>1 DEF StoresNext, GoesOn, SameState
  <2> QED
    BY <2>2 DEF CallStep
<1>4. CASE /\ Is(j, {"check"}) /\ call[j].signer \in TwoFactor
           /\ Ask(j, "devices", id) /\ UNCHANGED <<state, authSession>>
  <2>1. To(j, "devices", id) /\ agent' = id
    BY <1>0, <1>4, Asked DEF Basics
  <2>2. DevicesNext(j, id)
    BY <1>4, <2>1 DEF DevicesNext, GoesOn, SameState
  <2> QED
    BY <2>2 DEF CallStep
<1>5. CASE /\ Is(j, {"check"}) /\ call[j].signer \notin TwoFactor
           /\ Enter(j, "GetRecoveryProvisioningPlan", authSession, authSession)
  <2>1. Invokes(j, "GetRecoveryProvisioningPlan", authSession, authSession)
    BY <1>5, Entered DEF Basics
  <2>2. PassesCheck(j, id)
    BY <1>5, <2>1 DEF PassesCheck
  <2> QED
    BY <2>2 DEF CallStep
<1> QED
  BY <1>1, <1>2, <1>3, <1>4, <1>5 DEF Profile

LEMMA FetchShape ==
  ASSUME Basics, NEW j \in Jobs, fetchProfile(j) \/ reset(j)
  PROVE  CallStep(j)
<1>1. SameMail /\ SameLoading /\ overlapped' = overlapped /\ SameRest /\ proved' = proved
  BY DEF fetchProfile, reset, SameMail, SameLoading, SameRest, canisters, ghosts
<1>2. agent \in Someone /\ None \in Someone /\ "wipe" \in Steps
  BY DEF Basics, TypeOK, Someone, Steps
<1>3. CASE fetchProfile(j) /\ Mismatch(j)
  <2>1. To(j, "wipe", call[j].signer)
    BY <1>2, <1>3, Stepped DEF fetchProfile, Basics
  <2>2. Wipes(j)
    BY <1>1, <1>3, <2>1 DEF fetchProfile, Wipes, GoesOn, SameState
  <2> QED
    BY <2>2 DEF CallStep
<1>4. CASE fetchProfile(j) /\ ~Mismatch(j)
  <2>1. Profile(j, agent) /\ Profiled(j, agent)
    BY <1>1, <1>4 DEF fetchProfile, Profiled
  <2> QED
    BY <1>1, <1>2, <2>1, ProfileShape
<1>5. CASE reset(j)
  <2>1. Profile(j, None) /\ Profiled(j, None)
    BY <1>1, <1>5 DEF reset, Profiled
  <2> QED
    BY <1>1, <1>2, <2>1, ProfileShape
<1> QED
  BY <1>3, <1>4, <1>5

LEMMA SetShapes ==
  ASSUME Basics, NEW j \in Jobs, createNFIDProfile(j) \/ createUserIdData(j) \/ set(j)
  PROVE  CallStep(j)
<1>0. /\ {"set", "create", "publish", "profile", "finish"} \subseteq Steps
      /\ call[j].as \in Someone
  BY CallFields DEF Steps, Basics
<1>1. SameMail /\ SameLoading /\ SameState /\ SameMarks /\ allowed' = allowed
  BY DEF createNFIDProfile, createUserIdData, set, Quiet, SameMail, SameLoading,
    SameState, SameMarks, machine, ghosts
<1>2. CASE call[j].step = "profile" /\ createNFIDProfile(j)
  <2>1. Ask(j, "create", call[j].as) /\ Is(j, Providers) /\ SameRest
        /\ session' = session /\ anchor' = anchor
    BY <1>2 DEF createNFIDProfile, AskAs, SameRest, machine, canisters
  <2>2. To(j, "create", call[j].as) /\ agent' = call[j].as
    BY <1>0, <2>1, Asked DEF Basics
  <2> QED
    BY <1>1, <1>2, <2>1, <2>2 DEF CreatesNext, CallStep, GoesOn, SameMarks
<1>3. CASE call[j].step = "create" /\ createNFIDProfile(j)
  <2>1. /\ Ask(j, "set", call[j].as) /\ session' = session /\ anchor' = anchor
        /\ call[j].signer \notin registered /\ registered' = registered \cup {call[j].signer}
    BY <1>3 DEF createNFIDProfile, AskAs
  <2>2. To(j, "set", call[j].as) /\ agent' = call[j].as
    BY <1>0, <2>1, Asked DEF Basics
  <2> QED
    BY <1>1, <1>3, <2>1, <2>2 DEF Creates, CallStep, GoesOn, SameMarks
<1>4. CASE createUserIdData(j)
  <2>1. To(j, "publish", call[j].signer)
    BY <1>0, <1>4, Stepped DEF createUserIdData, Basics
  <2> QED
    BY <1>1, <1>4, <2>1 DEF createUserIdData, Quiet, SetsAnchor, CallStep, GoesOn, SameMarks,
      SameRest, canisters
<1>5. CASE set(j) /\ Is(j, {"device"})
  <2>1. call' = [call EXCEPT ![j] = Anchoring(call[j], "set", call[j].as)]
    BY <1>5 DEF set, Anchoring, Basics, TypeOK
  <2>2. call'[j] = Anchoring(call[j], "set", call[j].as) /\ Keeps(j)
    BY <2>1, Updated DEF Basics
  <2>3. call[j] \in CallRecords
    BY CallFields DEF Basics
  <2>4. /\ call'[j].kind = "anchor" /\ call'[j].step = "set"
        /\ call'[j].as = call[j].as /\ call'[j].signer = call[j].as
    <3>1. "set" \in Steps /\ call[j].as \in Someone
      BY <1>0
    <3>2. LET r == Anchoring(call[j], "set", call[j].as)
          IN  r.kind = "anchor" /\ r.step = "set" /\ r.as = call[j].as /\ r.signer = call[j].as
      BY <2>3, <3>1, CallUpdates
    <3> QED
      BY <2>2, <3>2
  <2> QED
    BY <1>1, <1>5, <2>2, <2>4 DEF set, Quiet, PublishesFirst, CallStep, GoesOn, SameMarks,
      SameRest, canisters
<1>6. CASE set(j) /\ ~Is(j, {"device"})
  <2>1. PICK s \in {"finish", "profile"} :
          /\ AskAs(j, s)
          /\ \/ s = "finish" /\ ~Is(j, {"passkey", "factor", "legacy"})
             \/ s = "profile" /\ Is(j, {"passkey", "factor", "legacy", "anchor"})
    BY <1>6 DEF set
  <2>2. To(j, s, call[j].as) /\ agent' = call[j].as
    BY <1>0, <2>1, Asked DEF AskAs, Basics
  <2>3. Publishes(j, s)
    BY <1>1, <1>6, <2>1, <2>2 DEF set, Quiet, Publishes, GoesOn, SameMarks, SameRest, canisters
  <2> QED
    BY <1>0, <2>3 DEF CallStep
<1> QED
  BY <1>2, <1>3, <1>4, <1>5, <1>6 DEF createNFIDProfile

LEMMA FactorShape ==
  ASSUME Basics, NEW j \in Jobs, checkIf2FAEnabled(j)
  PROVE  CallStep(j)
<1>1. Invokes(j, "TwoFA", authSession, None)
  BY Entered DEF checkIf2FAEnabled, Basics
<1> QED
  BY <1>1 DEF checkIf2FAEnabled, AsksFactor, CallStep, SameMail, SameMarks, SameLoading,
    canisters, ghosts

\* The event of a call of a screen.
LEMMA ReceiveShape ==
  ASSUME Basics, NEW j \in Jobs,
         \/ Is(j, Connectors) /\ call[j].step = "finish"
         \/ Is(j, {"addPasskey", "addPhrase"}),
         Receive(j, Event(call[j].kind), call[j].as, agent),
         session' = session, anchor' = anchor, SameMail, SameRest, SameMarks, LoadingEnds(j)
  PROVE  CallStep(j) \/ MachineStep(j)
<1>1. j # Service /\ Is(j, OfScreens) /\ Running(j)
  BY KindsOf DEF Basics, CallFits, Jobs, Is, Connectors, Running
<1>2. /\ Event(call[j].kind) = "CONTINUE" <=> Is(j, {"addPasskey"})
      /\ Event(call[j].kind) = "DONE" <=> Is(j, {"addPhrase"})
      /\ Event(call[j].kind) = "AUTH_WITH_PASSKEY" <=> Is(j, {"passkey"})
  BY DEF Event, Is
<1>3. CASE call' = [call EXCEPT ![j] = Idle] /\ agent' = agent
           /\ UNCHANGED <<state, authSession>>
  <2>1. Over(j)
    BY <1>3, Updated DEF Over, Basics
  <2> QED
    BY <1>1, <1>3, <2>1 DEF Drops, CallStep, SameState, SamePage
<1>4. ASSUME NEW s \in {"GetRecoveryProvisioningPlan", "End"}, NEW who,
             Enter(j, s, who, agent), Is(j, Connectors),
             state \in {"ChooseWallet", "AuthSelection", "SignUpWithPasskey",
                        "OtherSignOptions", "SignInWithRecoveryPhrase", "TwoFA"},
             who = IF state = "TwoFA" THEN authSession ELSE call[j].as
      PROVE  MachineStep(j)
  <2>1. Invokes(j, s, who, agent)
    BY <1>4, Entered DEF Basics
  <2>2. call[j].step = "finish"
    BY <1>4 DEF Is, Connectors
  <2>3. SignsIn(j, s)
    BY <1>4, <2>1, <2>2 DEF SignsIn, Enters
  <2> QED
    BY <2>3 DEF MachineStep, SignedIn
<1>5. ASSUME NEW s, Enter(j, s, authSession, agent), Is(j, {"addPasskey", "addPhrase"}),
             {state, s} \subseteq SignedIn
      PROVE  MachineStep(j)
  <2>1. Invokes(j, s, authSession, agent)
    BY <1>5, Entered DEF Basics
  <2>2. Advances(j, s)
    BY <1>5, <2>1 DEF Advances, Enters, Is
  <2> QED
    BY <1>5, <2>2 DEF MachineStep
<1>6. Is(j, Connectors) \/ Is(j, {"addPasskey", "addPhrase"})
  OBVIOUS
<1>7. Is(j, {"addPasskey", "addPhrase"}) => ~Is(j, Connectors)
  BY DEF Is, Connectors
<1>8. Event(call[j].kind) \in {"CONTINUE", "DONE", "AUTH_WITH_PASSKEY", "AUTHENTICATED"}
  BY DEF Event
<1>9. CASE Is(j, Connectors)
  <2>1. Event(call[j].kind) \in {"AUTH_WITH_PASSKEY", "AUTHENTICATED"}
    BY <1>2, <1>8, <1>9 DEF Is, Connectors
  <2> QED
    BY <1>3, <1>4, <1>9, <2>1 DEF Receive
<1>10. CASE Is(j, {"addPasskey", "addPhrase"})
  <2>1. Event(call[j].kind) \in {"CONTINUE", "DONE"}
    BY <1>2, <1>10 DEF Is
  <2> QED
    BY <1>3, <1>5, <1>10, <2>1 DEF Receive, SignedIn
<1> QED
  BY <1>9, <1>10, <1>6

LEMMA FinishShapes ==
  ASSUME Basics, NEW j \in Jobs, createAccessPoint(j) \/ Finish(j)
  PROVE  CallStep(j) \/ MachineStep(j) \/ MailStep
<1>0. /\ isPasskeyLoading \in BOOLEAN
      /\ call[j].step = "store" => Is(j, {"addPasskey", "addPhrase"})
      /\ Is(j, Providers) => j = Service
  BY KindsOf DEF Basics, TypeOK, CallFits, Jobs, Is, Providers
<1>1. session' = session /\ anchor' = anchor /\ mailbox' = mailbox /\ SameRest /\ SameMarks
  BY <1>0 DEF createAccessPoint, Finish, SameRest, SameMarks, canisters, ghosts
<1>2. CASE createAccessPoint(j)
  <2>1. Is(j, {"addPasskey", "addPhrase"}) /\ SameMail /\ LoadingEnds(j)
    BY <1>0, <1>2 DEF createAccessPoint, SameMail, LoadingEnds, Is
  <2> QED
    BY <1>1, <1>2, <2>1, ReceiveShape DEF createAccessPoint
<1>3. CASE Finish(j) /\ Is(j, Connectors) /\ Receive(j, Event(call[j].kind), call[j].as, agent)
           /\ UNCHANGED email
  <2>1. call[j].step = "finish" /\ SameMail /\ LoadingEnds(j)
    BY <1>3 DEF Finish, SameMail, LoadingEnds
  <2> QED
    BY <1>1, <1>3, <2>1, ReceiveShape
<1>4. CASE Finish(j) /\ Is(j, {"google", "ii"}) /\ Enter(j, "check2FA", call[j].as, agent)
           /\ UNCHANGED email
  <2>1. Invokes(j, "check2FA", call[j].as, agent)
    BY <1>4, Entered DEF Basics
  <2>2. ChecksNext(j)
    BY <1>1, <1>4, <2>1 DEF Finish, ChecksNext, Enters, SameMail, LoadingEnds
  <2> QED
    BY <2>2 DEF MachineStep
<1>5. CASE Finish(j) /\ Is(j, {"email"}) /\ email' = "Authenticated"
           /\ call' = [call EXCEPT ![j] = Idle] /\ UNCHANGED <<state, authSession, agent>>
  <2>1. j = Service /\ Over(j)
    BY <1>0, <1>5, Updated DEF Over, Basics, Is, Providers
  <2>2. SameLoading
    BY <1>0, <1>5 DEF Finish, SameLoading, Is
  <2>3. MailDone
    BY <1>1, <1>5, <2>1, <2>2 DEF Finish, MailDone, SameState, SamePage
  <2> QED
    BY <2>3 DEF MailStep
<1> QED
  BY <1>2, <1>3, <1>4, <1>5 DEF Finish

LEMMA FailShapes ==
  ASSUME Basics, NEW j \in Jobs, Fails(j)
  PROVE  CallStep(j) \/ MachineStep(j) \/ MailStep \/ GiveUpStep
<1>0. /\ isPasskeyLoading \in BOOLEAN
      /\ Is(j, OfMachine) => j = Service
      /\ Is(j, {"plan"}) => state \in SignedIn
  BY KindsOf DEF Basics, TypeOK, CallFits, ServiceFits, Jobs, Is, SignedIn
<1>1. anchor' = anchor /\ mailbox' = mailbox /\ SameRest /\ SameMarks /\ LoadingEnds(j)
  BY DEF Fails, SameRest, SameMarks, LoadingEnds, canisters, ghosts
<1>2. CASE Is(j, {"google"}) /\ Enter(j, "AuthSelection", authSession, agent)
           /\ UNCHANGED <<email, session>>
  <2>1. j = Service /\ Invokes(Service, "AuthSelection", authSession, agent)
    BY <1>0, <1>2, Entered DEF Basics, OfMachine, Providers, Is
  <2>2. GivesUp("AuthSelection")
    BY <1>1, <1>2, <2>1 DEF GivesUp, Enters, SameMail, Is
  <2> QED
    BY <2>2 DEF GiveUpStep, Screens
<1>3. CASE Is(j, {"ii", "check", "wallets"}) /\ Stop /\ UNCHANGED <<email, session>>
  <2>1. j = Service /\ Invokes(Service, "Stopped", authSession, agent)
    BY <1>0, <1>3, Entered DEF Basics, OfMachine, Providers, Is, Stop
  <2>2. GivesUp("Stopped")
    BY <1>1, <1>3, <2>1 DEF GivesUp, Enters, SameMail, Is
  <2> QED
    BY <2>2 DEF GiveUpStep
<1>4. CASE Is(j, {"plan"}) /\ Enter(j, "End", authSession, agent) /\ UNCHANGED <<email, session>>
  <2>1. Invokes(j, "End", authSession, agent)
    BY <1>4, Entered DEF Basics
  <2>2. Advances(j, "End")
    BY <1>0, <1>1, <1>4, <2>1 DEF Advances, Enters, SameMail, Is, SignedIn
  <2> QED
    BY <2>2 DEF MachineStep, SignedIn
<1>5. CASE Is(j, {"email"}) /\ email' = "Error" /\ call' = [call EXCEPT ![j] = Idle]
           /\ UNCHANGED <<state, authSession, agent, session>>
  <2>1. j = Service /\ Over(j)
    BY <1>0, <1>5, Updated DEF Over, Basics, Is, OfMachine, Providers
  <2>2. SameLoading
    BY <1>0, <1>1, <1>5 DEF LoadingEnds, SameLoading, Is
  <2>3. MailFails
    BY <1>1, <1>5, <2>1, <2>2 DEF MailFails, SameState, SamePage
  <2> QED
    BY <2>3 DEF MailStep
<1>6. CASE Is(j, {"passkey", "factor"}) /\ call' = [call EXCEPT ![j] = Idle]
           /\ agent' = None /\ session' = None /\ UNCHANGED <<state, authSession, email>>
  <2>1. Over(j)
    BY <1>6, Updated DEF Over, Basics
  <2> QED
    BY <1>1, <1>6, <2>1 DEF SignsOut, CallStep, SameState, SameMail
<1>7. CASE j # Service /\ call' = [call EXCEPT ![j] = Idle]
           /\ UNCHANGED <<state, authSession, email, agent, session>>
  <2>1. Over(j)
    BY <1>7, Updated DEF Over, Basics
  <2> QED
    BY <1>1, <1>7, <2>1 DEF Fails, Drops, CallStep, SameState, SameMail, SamePage
<1> QED
  BY <1>2, <1>3, <1>4, <1>5, <1>6, <1>7 DEF Fails

\* What the machine does with the answers of its own services.
LEMMA ServiceShapes ==
  ASSUME Basics, getAllWalletsFromThisDevice \/ getPlan \/ checkAccount
  PROVE  MachineStep(Service) \/ GiveUpStep
<1>0. /\ isPasskeyLoading \in BOOLEAN
      /\ state = "CheckWallets" => Is(Service, {"wallets"})
      /\ state \in {"GetRecoveryProvisioningPlan", "VerifyPasskeyProvisioning",
                    "VerifyRecoveryProvisioning"} => Is(Service, {"plan"})
  BY DEF Basics, TypeOK, ServiceFits
<1>1. session' = session /\ anchor' = anchor /\ SameMail /\ SameRest /\ SameMarks /\ SameLoading
  BY DEF getAllWalletsFromThisDevice, getPlan, checkAccount, Quiet, SameMail, SameRest,
    SameMarks, SameLoading, canisters, ghosts
<1>2. CASE getAllWalletsFromThisDevice
  <2>1. PICK s \in {"ChooseWallet", "AuthSelection"} : Enter(Service, s, authSession, agent)
    BY <1>2 DEF getAllWalletsFromThisDevice
  <2>2. Invokes(Service, s, authSession, agent)
    BY <2>1, Entered, ServiceIsJob DEF Basics
  <2>3. GivesUp(s)
    BY <1>0, <1>1, <1>2, <2>2 DEF getAllWalletsFromThisDevice, GivesUp, Enters, LoadingEnds,
      SameLoading, Is
  <2> QED
    BY <2>3 DEF GiveUpStep, Screens
<1>3. CASE getPlan \/ checkAccount
  <2>1. /\ state \in {"GetRecoveryProvisioningPlan", "VerifyPasskeyProvisioning",
                      "VerifyRecoveryProvisioning"}
        /\ \E s \in {"AddPasskeys", "AuthAddRecoveryPhrase", "AddPasskeysSuccess", "End"} :
             Enter(Service, s, authSession, agent)
    BY <1>3 DEF getPlan, checkAccount, PlanSteps
  <2>2. PICK s \in {"AddPasskeys", "AuthAddRecoveryPhrase", "AddPasskeysSuccess", "End"} :
          Enter(Service, s, authSession, agent)
    BY <2>1
  <2>3. Invokes(Service, s, authSession, agent)
    BY <2>2, Entered, ServiceIsJob DEF Basics
  <2>4. Is(Service, {"plan"}) /\ LoadingEnds(Service)
    BY <1>0, <1>1, <2>1 DEF LoadingEnds, SameLoading, Is
  <2>5. Advances(Service, s)
    BY <1>1, <2>1, <2>3, <2>4 DEF Advances, Enters, SignedIn, Is
  <2> QED
    BY <2>5 DEF MachineStep, SignedIn
<1> QED
  BY <1>2, <1>3

LEMMA StepKinds ==
  ASSUME Basics, [Next]_vars
  PROVE  Shaped
<1>1. CASE UNCHANGED vars
  BY <1>1 DEF Shaped, Rests, vars, machine, identity, canisters, ghosts, SameState, SameMail,
    SamePage, SameRest, SameMarks, SameLoading
<1>2. ASSUME NEW a \in Accounts,
             \/ onLoginWithPasskey(a) \/ onSignUpWithPasskey(a) \/ onRecover(a)
             \/ handleOtherOptionsAuth(a)
      PROVE  Shaped
  BY <1>2, SignInShapes DEF Shaped
<1>3. ASSUME NEW a \in Accounts, NEW kind \in {"google", "ii"}, SelectProvider(kind, a)
      PROVE  Shaped
  BY <1>3, ProviderShape DEF Shaped, UserStep
<1>4. CASE onAdd \/ onDone \/ handle2FAAuth
  BY <1>4, DeviceShapes DEF Shaped
<1>5. CASE Navigate
  BY <1>5, NavigateShape DEF Shaped
<1>6. CASE EmailStep
  BY <1>6, EmailShapes DEF Shaped
<1>7. ASSUME NEW j \in Jobs, Prove(j)
      PROVE  Shaped
  BY <1>7, ProveShape DEF Shaped
<1>8. ASSUME NEW j \in Jobs, Answer(j)
      PROVE  Shaped
  BY <1>8, FetchShape, SetShapes, FactorShape, FinishShapes, FailShapes DEF Answer, Shaped
<1>9. CASE getAllWalletsFromThisDevice \/ getPlan \/ checkAccount
  BY <1>9, ServiceShapes, ServiceIsJob DEF Shaped
<1> QED
  BY <1>1, <1>2, <1>3, <1>4, <1>5, <1>6, <1>7, <1>8, <1>9 DEF Next

-----------------------------------------------------------------------------
(* What a step leaves of each sort *)

\* The sorts of what the shapes tell nothing of.
Sorts ==
  /\ call \in [Jobs -> CallRecords]
  /\ keyPair \in BOOLEAN /\ wallets \in BOOLEAN /\ wiped \in BOOLEAN
  /\ devices \in SUBSET (Accounts \X {"passkey", "phrase"})
  /\ faults \in 0..MaxFaults

\* Those of what they tell, with the screen of the e-mail machine.
Pages ==
  /\ state \in Screens \cup Invoking \cup {"End", "Stopped"}
  /\ email \in EmailStates \cup {"none"}
  /\ mailbox \in Someone /\ authSession \in Someone /\ allowed \in Someone
  /\ isPasskeyLoading \in BOOLEAN /\ overlapped \in BOOLEAN
  /\ agent \in Someone /\ session \in Someone /\ anchor \in Someone
  /\ registered \in SUBSET Accounts /\ proved \in SUBSET Accounts
  /\ (state = "EmailAuthentication") <=> (email # "none")

LEMMA SortsOf ==
  ASSUME TypeOK
  PROVE  Sorts /\ Pages
  BY DEF TypeOK, Sorts, Pages, CallRecords

LEMMA Invoked ==
  ASSUME NEW s, NEW who \in Someone, NEW id \in Someone
  PROVE  Invoke(s, who, id) \in CallRecords
<1>1. /\ [kind |-> "check", step |-> "profile", as |-> who, signer |-> id] \in CallRecords
      /\ [kind |-> "plan", step |-> "finish", as |-> None, signer |-> id] \in CallRecords
  BY DEF CallRecords, Kinds, Steps, Someone
<1> QED
  BY <1>1, IdleRecord DEF Invoke

LEMMA EnterSort ==
  ASSUME TypeOK, NEW j \in Jobs, NEW s, NEW who \in Someone, NEW id \in Someone,
         Enter(j, s, who, id)
  PROVE  call' \in [Jobs -> CallRecords]
<1>1. call' = [call EXCEPT ![j] = Idle, ![Service] = Invoke(s, who, id)]
  BY DEF Enter
<1> QED
  BY <1>1, Invoked, IdleRecord, SortsOf DEF Sorts

LEMMA OverSort ==
  ASSUME TypeOK, NEW j \in Jobs, call' = [call EXCEPT ![j] = Idle]
  PROVE  call' \in [Jobs -> CallRecords]
  BY IdleRecord, SortsOf DEF Sorts

LEMMA FaultSort ==
  ASSUME TypeOK, Fault \/ UNCHANGED faults
  PROVE  faults' \in 0..MaxFaults
  BY AuthenticationAssumption DEF TypeOK, Fault

LEMMA BeginSorts ==
  ASSUME Basics, NEW kind \in OfScreens, NEW a \in Someone, NEW s \in Steps, Begin(kind, a, s)
  PROVE  Sorts'
<1>1. PICK c \in Calls :
        call' = [call EXCEPT ![c] = [kind |-> kind, step |-> s, as |-> a, signer |-> agent]]
  BY DEF Begin
<1>2. [kind |-> kind, step |-> s, as |-> a, signer |-> agent] \in CallRecords
  BY DEF CallRecords, Kinds, OfScreens, Basics, TypeOK
<1>3. call' \in [Jobs -> CallRecords]
  BY <1>1, <1>2, Updated, ServiceIsJob DEF Basics
<1> QED
  BY <1>3, SortsOf DEF Begin, Sorts, Basics, machine, canisters

LEMMA UserSorts ==
  ASSUME Basics, NEW a \in Accounts,
         \/ onLoginWithPasskey(a) \/ onSignUpWithPasskey(a) \/ onRecover(a)
         \/ handleOtherOptionsAuth(a)
  PROVE  Sorts'
<1>1. /\ {"prove", "profile"} \subseteq Steps /\ a \in Someone
      /\ {"passkey", "signup", "phrase", "legacy", "device"} \subseteq OfScreens
  BY KindsOf DEF Steps, Someone
<1> QED
  BY <1>1, BeginSorts DEF onLoginWithPasskey, onSignUpWithPasskey, onRecover,
    handleOtherOptionsAuth

LEMMA DeviceSorts ==
  ASSUME Basics, handle2FAAuth \/ onAdd \/ onDone
  PROVE  Sorts'
<1>1. /\ {"prove", "profile"} \subseteq Steps
      /\ {"factor", "addPasskey", "addPhrase"} \subseteq OfScreens
      /\ allowed \in Someone /\ session \in Someone /\ authSession \in Someone
  BY KindsOf DEF Steps, Basics, TypeOK
<1> QED
  BY <1>1, BeginSorts DEF handle2FAAuth, onAdd, onDone

LEMMA MoveSorts ==
  ASSUME Basics, Navigate \/ UNCHANGED vars
  PROVE  Sorts'
<1>1. UNCHANGED <<call, keyPair, wallets, wiped, devices, faults>>
  BY DEF Navigate, Leave, vars, machine, canisters, ghosts
<1> QED
  BY <1>1, SortsOf DEF Sorts, Basics

LEMMA ProviderSorts ==
  ASSUME Basics, NEW kind \in {"google", "ii"}, NEW a \in Accounts, SelectProvider(kind, a)
  PROVE  Sorts'
<1>1. kind \in Kinds /\ "prove" \in Steps /\ a \in Someone
  BY DEF Kinds, Providers, Steps, Someone
<1>2. call' \in [Jobs -> CallRecords]
  BY <1>1, Called DEF SelectProvider, Basics
<1> QED
  BY <1>2, SortsOf DEF SelectProvider, Sorts, Basics, canisters, ghosts

LEMMA MailSorts ==
  ASSUME Basics, NEW s, NEW kind \in {"none", "send", "poll"}, NEW step \in Steps,
         Mail(s, kind, step), mailbox' \in Someone,
         keyPair' \in BOOLEAN, Fault \/ UNCHANGED faults
  PROVE  Sorts'
<1>1. call' \in [Jobs -> CallRecords]
  <2>1. CASE kind = "none"
    <3>1. call' = [call EXCEPT ![Service] = Idle]
      BY <2>1 DEF Mail
    <3> QED
      BY <3>1, OverSort, ServiceIsJob DEF Basics
  <2>2. CASE kind # "none"
    <3>1. call' = [call EXCEPT ![Service] =
                     [Idle EXCEPT !.kind = kind, !.step = step, !.as = mailbox']]
      BY <2>2 DEF Mail
    <3>2. kind \in Kinds
      BY DEF Kinds
    <3> QED
      BY <3>1, <3>2, Called DEF Basics
  <2> QED
    BY <2>1, <2>2
<1> QED
  BY <1>1, SortsOf, FaultSort DEF Mail, Sorts, Basics, canisters, ghosts

LEMMA EmailEndsSorts ==
  ASSUME Basics, NEW who \in Someone, EmailEnds(who), UNCHANGED faults
  PROVE  Sorts'
<1>1. agent \in Someone
  BY DEF Basics, TypeOK
<1>2. call' \in [Jobs -> CallRecords]
  BY <1>1, EnterSort, ServiceIsJob DEF EmailEnds, Basics
<1> QED
  BY <1>2, SortsOf DEF EmailEnds, Sorts, Basics, canisters, ghosts

LEMMA EmailSorts ==
  ASSUME Basics, EmailStep
  PROVE  Sorts'
<1>0. /\ {"finish", "idle", "profile"} \subseteq Steps /\ Accounts \subseteq Someone
      /\ mailbox \in Someone /\ authSession \in Someone /\ keyPair \in BOOLEAN
  BY DEF Basics, TypeOK, Steps, Someone
<1>1. ASSUME NEW a \in Accounts, SelectEmail(a) PROVE Sorts'
  BY <1>0, <1>1, MailSorts DEF SelectEmail
<1>2. CASE sendVerificationEmail
  BY <1>0, <1>2, MailSorts DEF sendVerificationEmail
<1>3. CASE checkEmailVerificationFails
  BY <1>0, <1>3, MailSorts DEF checkEmailVerificationFails
<1>4. CASE Resend
  BY <1>0, <1>4, MailSorts DEF Resend
<1>5. CASE checkEmailVerification
  <2>1. [kind |-> "email", step |-> "profile", as |-> mailbox, signer |-> mailbox] \in CallRecords
    BY <1>0 DEF CallRecords, Kinds, Providers
  <2>2. call' \in [Jobs -> CallRecords]
    BY <1>5, <2>1, Updated, ServiceIsJob DEF checkEmailVerification, Basics
  <2> QED
    BY <1>5, <2>2, SortsOf DEF checkEmailVerification, Sorts, Basics, canisters, ghosts
<1>6. CASE sendVerificationEmailFails \/ EmailBack \/ ContinueVerified
  BY <1>0, <1>6, EmailEndsSorts DEF sendVerificationEmailFails, EmailBack, ContinueVerified
<1> QED
  BY <1>1, <1>2, <1>3, <1>4, <1>5, <1>6 DEF EmailStep

LEMMA ProfileSort ==
  ASSUME Basics, NEW j \in Jobs, NEW id \in Someone, Profile(j, id)
  PROVE  call' \in [Jobs -> CallRecords]
<1>1. /\ {"set", "finish", "store", "devices"} \subseteq Steps
      /\ call[j].as \in Someone /\ authSession \in Someone
  BY CallFields DEF Steps, Basics, TypeOK
<1> QED
  BY <1>1, Asked, Stepped, EnterSort DEF Profile, AskAs, Basics

LEMMA ReceiveSort ==
  ASSUME Basics, NEW j \in Jobs, NEW event, NEW who \in Someone, NEW id \in Someone,
         Receive(j, event, who, id)
  PROVE  call' \in [Jobs -> CallRecords]
<1>1. authSession \in Someone
  BY DEF Basics, TypeOK
<1>2. \/ \E s, w : w \in Someone /\ Enter(j, s, w, id)
      \/ call' = [call EXCEPT ![j] = Idle]
  BY <1>1 DEF Receive
<1> QED
  BY <1>2, EnterSort, OverSort DEF Basics

LEMMA SetSorts ==
  ASSUME Basics, NEW j \in Jobs,
         Prove(j) \/ createNFIDProfile(j) \/ createUserIdData(j) \/ set(j)
  PROVE  Sorts'
<1>0. /\ {"set", "create", "publish", "profile", "finish"} \subseteq Steps
      /\ call[j].as \in Someone
      /\ Is(j, {"signup"}) => call[j].as \in Accounts
  BY CallFields DEF Steps, Basics, Signed, Is, Connectors
<1>1. CASE Prove(j)
  <2>1. \E s \in Steps : Ask(j, s, call[j].as)
    BY <1>0, <1>1 DEF Prove, AskAs
  <2>2. call' \in [Jobs -> CallRecords]
    BY <1>0, <2>1, Asked DEF Basics
  <2> QED
    BY <1>1, <2>2, SortsOf DEF Prove, Sorts, Basics, machine, canisters
<1>2. CASE createNFIDProfile(j)
  <2>1. \E s \in Steps : Ask(j, s, call[j].as)
    BY <1>0, <1>2 DEF createNFIDProfile, AskAs
  <2>2. call' \in [Jobs -> CallRecords]
    BY <1>0, <2>1, Asked DEF Basics
  <2>3. devices' \in SUBSET (Accounts \X {"passkey", "phrase"})
    BY <1>0, <1>2, SortsOf DEF createNFIDProfile, Sorts, Basics, canisters
  <2> QED
    BY <1>2, <2>2, <2>3, SortsOf, FaultSort
    DEF createNFIDProfile, Sorts, Basics, machine, ghosts
<1>3. CASE createUserIdData(j)
  <2>1. call' \in [Jobs -> CallRecords]
    BY <1>0, <1>3, Stepped DEF createUserIdData, Basics
  <2> QED
    BY <1>3, <2>1, SortsOf DEF createUserIdData, Quiet, Sorts, Basics, canisters, ghosts
<1>4. CASE set(j)
  <2>1. CASE Is(j, {"device"})
    <3>1. call' = [call EXCEPT ![j] = Anchoring(call[j], "set", call[j].as)]
      BY <1>4, <2>1 DEF set, Anchoring, Basics, TypeOK
    <3>2. call[j] \in CallRecords /\ "set" \in Steps
      BY <1>0, CallFields DEF Basics
    <3>3. Anchoring(call[j], "set", call[j].as) \in CallRecords
      BY <1>0, <3>2, CallUpdates
    <3> QED
      BY <1>4, <3>1, <3>3, Updated, SortsOf DEF set, Quiet, Sorts, Basics, canisters, ghosts
  <2>2. CASE ~Is(j, {"device"})
    <3>1. call' \in [Jobs -> CallRecords]
      BY <1>0, <1>4, <2>2, Asked DEF set, AskAs, Basics
    <3> QED
      BY <1>4, <3>1, SortsOf DEF set, Quiet, Sorts, Basics, canisters, ghosts
  <2> QED
    BY <2>1, <2>2
<1> QED
  BY <1>1, <1>2, <1>3, <1>4

LEMMA AnswerSorts ==
  ASSUME Basics, NEW j \in Jobs,
         \/ fetchProfile(j) \/ reset(j) \/ checkIf2FAEnabled(j)
         \/ createAccessPoint(j) \/ Finish(j) \/ Fails(j)
  PROVE  Sorts'
<1>0. /\ agent \in Someone /\ None \in Someone /\ authSession \in Someone
      /\ call[j].as \in Someone /\ call[j].signer \in Someone /\ "wipe" \in Steps
  BY CallFields DEF Basics, TypeOK, Someone, Steps
<1>1. CASE fetchProfile(j) \/ reset(j)
  <2>1. call' \in [Jobs -> CallRecords]
    BY <1>0, <1>1, ProfileSort, Stepped DEF fetchProfile, reset, Basics
  <2> QED
    BY <1>1, <2>1, SortsOf DEF fetchProfile, reset, Sorts, Basics, canisters, ghosts
<1>2. CASE checkIf2FAEnabled(j)
  <2>1. call' \in [Jobs -> CallRecords]
    BY <1>0, <1>2, EnterSort DEF checkIf2FAEnabled, Basics
  <2> QED
    BY <1>2, <2>1, SortsOf DEF checkIf2FAEnabled, Sorts, Basics, canisters, ghosts
<1>3. CASE createAccessPoint(j)
  <2>1. call' \in [Jobs -> CallRecords]
    BY <1>0, <1>3, ReceiveSort DEF createAccessPoint
  <2>2. devices' \in SUBSET (Accounts \X {"passkey", "phrase"})
    BY <1>3 DEF createAccessPoint, Basics, TypeOK
  <2> QED
    BY <1>3, <2>1, <2>2, SortsOf DEF createAccessPoint, Sorts, Basics, ghosts
<1>4. CASE Finish(j)
  <2>1. call' \in [Jobs -> CallRecords]
    BY <1>0, <1>4, ReceiveSort, EnterSort, OverSort DEF Finish, Basics
  <2> QED
    BY <1>4, <2>1, SortsOf DEF Finish, Sorts, Basics, canisters, ghosts
<1>5. CASE Fails(j)
  <2>1. \/ \E k \in Jobs : \E s : Enter(k, s, authSession, agent)
        \/ call' = [call EXCEPT ![j] = Idle]
    BY <1>0, <1>5, ServiceIsJob DEF Fails, Stop
  <2>2. call' \in [Jobs -> CallRecords]
    BY <1>0, <2>1, EnterSort, OverSort DEF Basics
  <2> QED
    BY <1>5, <2>2, SortsOf, FaultSort DEF Fails, Sorts, Basics, canisters, ghosts
<1> QED
  BY <1>1, <1>2, <1>3, <1>4, <1>5

LEMMA ServiceSorts ==
  ASSUME Basics, getAllWalletsFromThisDevice \/ getPlan \/ checkAccount
  PROVE  Sorts'
<1>0. agent \in Someone /\ authSession \in Someone
  BY DEF Basics, TypeOK
<1>1. \E s : Enter(Service, s, authSession, agent)
  BY DEF getAllWalletsFromThisDevice, getPlan, checkAccount
<1>2. call' \in [Jobs -> CallRecords]
  BY <1>0, <1>1, EnterSort, ServiceIsJob DEF Basics
<1> QED
  BY <1>2, SortsOf DEF getAllWalletsFromThisDevice, getPlan, checkAccount, Quiet, Sorts, Basics,
    canisters, ghosts

LEMMA StepSorts ==
  ASSUME Basics, [Next]_vars
  PROVE  Sorts'
<1>1. ASSUME NEW a \in Accounts,
             \/ onLoginWithPasskey(a) \/ onSignUpWithPasskey(a) \/ onRecover(a)
             \/ handleOtherOptionsAuth(a)
      PROVE  Sorts'
  BY <1>1, UserSorts
<1>2. ASSUME NEW a \in Accounts, NEW kind \in {"google", "ii"}, SelectProvider(kind, a)
      PROVE  Sorts'
  BY <1>2, ProviderSorts
<1>3. ASSUME NEW j \in Jobs, Prove(j) \/ Answer(j)
      PROVE  Sorts'
  BY <1>3, SetSorts, AnswerSorts DEF Answer
<1> QED
  BY <1>1, <1>2, <1>3, DeviceSorts, MoveSorts, EmailSorts, ServiceSorts DEF Next

-----------------------------------------------------------------------------
(* The part that holds whatever overlaps *)

Rules == (\A j \in Jobs : CallFits(j) /\ Signed(j)) /\ ServiceFits /\ Known

LEMMA CallFacts ==
  ASSUME Basics, NEW j \in Jobs
  PROVE  /\ CallFits(j) /\ Signed(j)
         /\ call[j].as \in Someone /\ call[j].signer \in Someone
         /\ Is(j, OfMachine) => j = Service
         /\ Is(j, OfScreens) => j \in Calls
  BY CallFields, KindsOf DEF Basics, CallFits, Is, Jobs

LEMMA PageFacts ==
  ASSUME Basics
  PROVE  Known /\ Pages /\ ServiceFits
  BY SortsOf DEF Basics

\* A call that does not move is what it was.
LEMMA Unmoved ==
  ASSUME NEW d \in Jobs, CallFits(d), Signed(d), call'[d] = call[d],
         proved \subseteq proved', d \in Calls \/ mailbox' = mailbox
  PROVE  CallFits(d)' /\ Signed(d)'
<1>1. CallFits(d)'
  BY DEF CallFits, Is
<1>2. Signed(d)'
  BY DEF Signed, CallFits, Is, OfScreens, Connectors
<1> QED
  BY <1>1, <1>2

LEMMA RulesOf ==
  ASSUME Basics, NEW j \in Jobs, Keeps(j), proved \subseteq proved',
         j = Service \/ mailbox' = mailbox,
         CallFits(j)', Signed(j)', ServiceFits', Known'
  PROVE  Rules'
<1>1. ASSUME NEW d \in Jobs, d # j
      PROVE  CallFits(d)' /\ Signed(d)'
  BY Unmoved, CallFacts DEF Keeps, Jobs
<1> QED
  BY <1>1 DEF Rules

\* A step of a call that leaves the machine where it is.
LEMMA GoesFits ==
  ASSUME Basics, NEW j \in Jobs, NEW s, NEW id, To(j, s, id), GoesOn
  PROVE  /\ ServiceFits'
         /\ \A d \in Jobs : call'[d].kind = call[d].kind /\ call'[d].as = call[d].as
<1>1. \A d \in Jobs : call'[d].kind = call[d].kind /\ call'[d].as = call[d].as
  BY DEF To, Keeps
<1> QED
  BY <1>1, PageFacts, ServiceIsJob DEF GoesOn, SameState, SameMail, ServiceFits, Is

\* The machine enters a state that is not for a provider or for the e-mail.
LEMMA InvokesFits ==
  ASSUME Basics, NEW j \in Jobs, NEW s, NEW who, NEW id, Invokes(j, s, who, id),
         s \notin {"CheckWallets", "AuthWithGoogle", "AuthWithII"},
         email' \notin {"SendVerificationEmail", "PendingEmailVerification", "EmailVerified"},
         proved' = proved, Known'
  PROVE  Rules'
<1> USE DEF Is, Providers, Connectors
<1>1. /\ call'[Service].kind \in {"check", "plan", "none"}
      /\ call'[Service].kind = "check" <=> s = "check2FA"
      /\ call'[Service].kind = "plan" <=>
           s \in {"GetRecoveryProvisioningPlan", "VerifyPasskeyProvisioning",
                 "VerifyRecoveryProvisioning"}
      /\ call'[Service].kind = "check" => call'[Service].step = "profile"
      /\ call'[Service].kind = "plan" => call'[Service].step = "finish"
      /\ call'[Service].kind = "none" => call'[Service].step = "idle"
  BY IdleRecord DEF Invokes, Invoke
<1>2. CallFits(Service)' /\ Signed(Service)'
  BY <1>1, ServiceIsJob DEF CallFits, Signed, OfMachine
<1>3. ServiceFits'
  BY <1>1 DEF ServiceFits, Invokes
<1>4. ASSUME NEW d \in Jobs, d # Service
      PROVE  CallFits(d)' /\ Signed(d)'
  <2>1. CASE d = j
    <3>1. call'[d] = Idle
      BY <1>4, <2>1 DEF Invokes
    <3> QED
      BY <3>1, IdleRecord DEF CallFits, Signed
  <2>2. CASE d # j
    <3>1. call'[d] = call[d] /\ d \in Calls
      BY <1>4, <2>2 DEF Invokes, Jobs
    <3> QED
      BY <3>1, Unmoved, CallFacts
  <2> QED
    BY <2>1, <2>2
<1> QED
  BY <1>2, <1>3, <1>4 DEF Rules

LEMMA ProvesRules ==
  ASSUME Basics, NEW j \in Jobs, NEW s \in Steps, Proves(j, s)
  PROVE  Rules' /\ Pages'
<1> USE DEF Is, Providers, Connectors
<1>0. /\ CallFits(j) /\ Signed(j) /\ call[j].as \in Someone /\ call[j].signer \in Someone
      /\ Known /\ Pages
  BY CallFacts, PageFacts
<1>1. CallFits(j)'
  BY <1>0 DEF Proves, To, CallFits
<1>2. Signed(j)'
  BY <1>0 DEF Proves, To, Signed, CallFits
<1>3. Known'
  BY <1>0 DEF Proves, GoesOn, SameState, SameMail, SameRest, Known, CallFits
<1>4. Pages'
  BY <1>0 DEF Proves, GoesOn, SameState, SameMail, SameRest, SameLoading, Pages, Signed,
    CallFits
<1> QED
  BY <1>1, <1>2, <1>3, <1>4, GoesFits, RulesOf DEF Proves, To, GoesOn, SameMail

LEMMA SetsProfileRules ==
  ASSUME Basics, NEW j \in Jobs, NEW id \in Someone, SetsProfile(j, id)
  PROVE  Rules' /\ Pages'
<1> USE DEF Is, Providers, Connectors
<1>0. /\ CallFits(j) /\ Signed(j) /\ call[j].as \in Someone /\ call[j].signer \in Someone
      /\ Known /\ Pages
  BY CallFacts, PageFacts
<1>1. CallFits(j)'
  BY <1>0 DEF SetsProfile, To, CallFits
<1>2. Signed(j)'
  BY <1>0, AuthenticationAssumption DEF SetsProfile, Profiled, To, GoesOn, SameMail,
    Signed
<1>3. Known'
  BY <1>0, AuthenticationAssumption DEF SetsProfile, Profiled, GoesOn, SameState,
    SameMail, SameRest, Known, CallFits
<1>4. Pages'
  BY <1>0 DEF SetsProfile, Profiled, GoesOn, SameState, SameMail, SameRest, SameLoading,
    Pages, CallFits
<1> QED
  BY <1>1, <1>2, <1>3, <1>4, GoesFits, RulesOf DEF SetsProfile, Profiled, To, GoesOn,
    SameMail

LEMMA LeavesProfileRules ==
  ASSUME Basics, NEW j \in Jobs, NEW id \in Someone, LeavesProfile(j, id)
  PROVE  Rules' /\ Pages'
<1> USE DEF Is, Providers, Connectors
<1>0. /\ CallFits(j) /\ Signed(j) /\ call[j].as \in Someone /\ call[j].signer \in Someone
      /\ Known /\ Pages
  BY CallFacts, PageFacts
<1>1. CallFits(j)'
  BY <1>0 DEF LeavesProfile, Profiled, To, CallFits
<1>2. Signed(j)'
  BY <1>0, AuthenticationAssumption DEF LeavesProfile, Profiled, To, GoesOn, SameMail,
    Signed
<1>3. Known'
  BY <1>0, AuthenticationAssumption DEF LeavesProfile, Profiled, GoesOn, SameState,
    SameMail, SameRest, Known, CallFits
<1>4. Pages'
  BY <1>0 DEF LeavesProfile, Profiled, GoesOn, SameState, SameMail, SameRest, SameLoading,
    Pages, CallFits
<1> QED
  BY <1>1, <1>2, <1>3, <1>4, GoesFits, RulesOf DEF LeavesProfile, Profiled, To, GoesOn,
    SameMail

LEMMA StoresNextRules ==
  ASSUME Basics, NEW j \in Jobs, NEW id \in Someone, StoresNext(j, id)
  PROVE  Rules' /\ Pages'
<1> USE DEF Is, Providers, Connectors
<1>0. /\ CallFits(j) /\ Signed(j) /\ call[j].as \in Someone /\ call[j].signer \in Someone
      /\ Known /\ Pages
  BY CallFacts, PageFacts
<1>1. CallFits(j)'
  BY <1>0 DEF StoresNext, To, CallFits
<1>2. Signed(j)'
  BY DEF StoresNext, To, Signed
<1>3. Known'
  BY <1>0, AuthenticationAssumption DEF StoresNext, Profiled, GoesOn, SameState, SameMail,
    SameRest, Known, CallFits
<1>4. Pages'
  BY <1>0 DEF StoresNext, Profiled, GoesOn, SameState, SameMail, SameRest, SameLoading,
    Pages, CallFits
<1> QED
  BY <1>1, <1>2, <1>3, <1>4, GoesFits, RulesOf DEF StoresNext, Profiled, To, GoesOn,
    SameMail

LEMMA DevicesNextRules ==
  ASSUME Basics, NEW j \in Jobs, NEW id \in Someone, DevicesNext(j, id)
  PROVE  Rules' /\ Pages'
<1> USE DEF Is, Providers, Connectors
<1>0. /\ CallFits(j) /\ Signed(j) /\ call[j].as \in Someone /\ call[j].signer \in Someone
      /\ Known /\ Pages
  BY CallFacts, PageFacts
<1>1. CallFits(j)'
  BY <1>0 DEF DevicesNext, To, CallFits
<1>2. Signed(j)'
  BY DEF DevicesNext, To, Signed
<1>3. Known'
  BY <1>0, AuthenticationAssumption DEF DevicesNext, Profiled, GoesOn, SameState,
    SameMail, SameRest, Known, CallFits
<1>4. Pages'
  BY <1>0 DEF DevicesNext, Profiled, GoesOn, SameState, SameMail, SameRest, SameLoading,
    Pages, CallFits
<1> QED
  BY <1>1, <1>2, <1>3, <1>4, GoesFits, RulesOf DEF DevicesNext, Profiled, To, GoesOn,
    SameMail

LEMMA WipesRules ==
  ASSUME Basics, NEW j \in Jobs, Wipes(j)
  PROVE  Rules' /\ Pages'
<1> USE DEF Is, Providers, Connectors
<1>0. /\ CallFits(j) /\ Signed(j) /\ call[j].as \in Someone /\ call[j].signer \in Someone
      /\ Known /\ Pages
  BY CallFacts, PageFacts
<1>1. CallFits(j)'
  BY <1>0 DEF Wipes, To, CallFits
<1>2. Signed(j)'
  BY <1>0, AuthenticationAssumption DEF Wipes, To, GoesOn, SameMail, Signed
<1>3. Known'
  BY <1>0 DEF Wipes, GoesOn, SameState, SameMail, SameRest, Known, CallFits
<1>4. Pages'
  BY <1>0 DEF Wipes, GoesOn, SameState, SameMail, SameRest, SameLoading, Pages, Someone,
    CallFits
<1> QED
  BY <1>1, <1>2, <1>3, <1>4, GoesFits, RulesOf DEF Wipes, To, GoesOn, SameMail

LEMMA CreatesNextRules ==
  ASSUME Basics, NEW j \in Jobs, CreatesNext(j)
  PROVE  Rules' /\ Pages'
<1> USE DEF Is, Providers, Connectors
<1>0. /\ CallFits(j) /\ Signed(j) /\ call[j].as \in Someone /\ call[j].signer \in Someone
      /\ Known /\ Pages
  BY CallFacts, PageFacts
<1>1. CallFits(j)'
  BY <1>0 DEF CreatesNext, To, CallFits
<1>2. Signed(j)'
  BY <1>0, AuthenticationAssumption DEF CreatesNext, To, GoesOn, SameMail, Signed
<1>3. Known'
  BY <1>0 DEF CreatesNext, GoesOn, SameState, SameMail, SameRest, Known, CallFits
<1>4. Pages'
  BY <1>0 DEF CreatesNext, GoesOn, SameState, SameMail, SameRest, SameLoading, Pages,
    CallFits
<1> QED
  BY <1>1, <1>2, <1>3, <1>4, GoesFits, RulesOf DEF CreatesNext, To, GoesOn, SameMail

LEMMA CreatesRules ==
  ASSUME Basics, NEW j \in Jobs, Creates(j)
  PROVE  Rules' /\ Pages'
<1> USE DEF Is, Providers, Connectors
<1>0. /\ CallFits(j) /\ Signed(j) /\ call[j].as \in Someone /\ call[j].signer \in Someone
      /\ Known /\ Pages
  BY CallFacts, PageFacts
<1>1. CallFits(j)'
  BY <1>0 DEF Creates, To, CallFits
<1>2. Signed(j)'
  BY <1>0, AuthenticationAssumption DEF Creates, To, GoesOn, SameMail, Signed, Known
<1>3. Known'
  BY <1>0 DEF Creates, GoesOn, SameState, SameMail, Known, CallFits
<1>4. Pages'
  BY <1>0 DEF Creates, GoesOn, SameState, SameMail, SameLoading, Pages, Signed, CallFits
<1> QED
  BY <1>1, <1>2, <1>3, <1>4, GoesFits, RulesOf DEF Creates, To, GoesOn, SameMail

LEMMA SetsAnchorRules ==
  ASSUME Basics, NEW j \in Jobs, SetsAnchor(j)
  PROVE  Rules' /\ Pages'
<1> USE DEF Is, Providers, Connectors
<1>0. /\ CallFits(j) /\ Signed(j) /\ call[j].as \in Someone /\ call[j].signer \in Someone
      /\ Known /\ Pages
  BY CallFacts, PageFacts
<1>1. CallFits(j)'
  BY <1>0 DEF SetsAnchor, To, CallFits
<1>2. Signed(j)'
  BY <1>0, AuthenticationAssumption DEF SetsAnchor, To, GoesOn, SameMail, Signed
<1>3. Known'
  BY <1>0 DEF SetsAnchor, GoesOn, SameState, SameMail, SameRest, Known, CallFits
<1>4. Pages'
  BY <1>0 DEF SetsAnchor, GoesOn, SameState, SameMail, SameRest, SameLoading, Pages,
    CallFits
<1> QED
  BY <1>1, <1>2, <1>3, <1>4, GoesFits, RulesOf DEF SetsAnchor, To, GoesOn, SameMail

LEMMA PublishesRules ==
  ASSUME Basics, NEW j \in Jobs, NEW s \in Steps, Publishes(j, s)
  PROVE  Rules' /\ Pages'
<1> USE DEF Is, Providers, Connectors
<1>0. /\ CallFits(j) /\ Signed(j) /\ call[j].as \in Someone /\ call[j].signer \in Someone
      /\ Known /\ Pages
  BY CallFacts, PageFacts
<1>1. CallFits(j)'
  BY <1>0 DEF Publishes, To, CallFits
<1>2. Signed(j)'
  BY <1>0, AuthenticationAssumption DEF Publishes, To, GoesOn, SameMail, Signed
<1>3. Known'
  BY <1>0 DEF Publishes, GoesOn, SameState, SameMail, SameRest, Known, Signed, CallFits
<1>4. Pages'
  BY <1>0 DEF Publishes, GoesOn, SameState, SameMail, SameRest, SameLoading, Pages,
    CallFits
<1> QED
  BY <1>1, <1>2, <1>3, <1>4, GoesFits, RulesOf DEF Publishes, To, GoesOn, SameMail

LEMMA PassesCheckRules ==
  ASSUME Basics, NEW j \in Jobs, NEW id \in Someone, PassesCheck(j, id)
  PROVE  Rules' /\ Pages'
<1> USE DEF Is, Providers, Connectors
<1>0. /\ CallFits(j) /\ Signed(j) /\ call[j].as \in Someone /\ call[j].signer \in Someone
      /\ Known /\ Pages /\ ServiceFits /\ (Is(j, OfMachine) => j = Service)
  BY CallFacts, PageFacts
<1>1. /\ proved' = proved
      /\ email' \notin {"SendVerificationEmail", "PendingEmailVerification", "EmailVerified"}
  BY <1>0 DEF PassesCheck, Profiled, SameMail, ServiceFits, OfMachine
<1>2. Known'
  BY <1>0, AuthenticationAssumption DEF PassesCheck, Profiled, Invokes, SameMail,
    SameRest, Known
<1>3. Pages'
  BY <1>0 DEF PassesCheck, Profiled, Invokes, SameMail, SameRest, SameLoading, Pages,
    Invoking, ServiceFits, OfMachine
<1> QED
  BY <1>1, <1>2, <1>3, InvokesFits DEF PassesCheck, SignedIn

LEMMA AsksFactorRules ==
  ASSUME Basics, NEW j \in Jobs, AsksFactor(j)
  PROVE  Rules' /\ Pages'
<1> USE DEF Is, Providers, Connectors
<1>0. /\ CallFits(j) /\ Signed(j) /\ call[j].as \in Someone /\ call[j].signer \in Someone
      /\ Known /\ Pages /\ ServiceFits /\ (Is(j, OfMachine) => j = Service)
  BY CallFacts, PageFacts
<1>1. /\ proved' = proved
      /\ email' \notin {"SendVerificationEmail", "PendingEmailVerification", "EmailVerified"}
  BY <1>0 DEF AsksFactor, SameMail, SameMarks, ServiceFits, CallFits, OfMachine
<1>2. Known'
  BY <1>0, AuthenticationAssumption DEF AsksFactor, Invokes, SameMail, Known, Pages
<1>3. Pages'
  BY <1>0 DEF AsksFactor, Invokes, SameMail, SameMarks, SameLoading, Pages, Screens,
    ServiceFits, CallFits, OfMachine, Someone
<1> QED
  BY <1>1, <1>2, <1>3, InvokesFits DEF AsksFactor, SignedIn

LEMMA ChecksNextRules ==
  ASSUME Basics, NEW j \in Jobs, ChecksNext(j)
  PROVE  Rules' /\ Pages'
<1> USE DEF Is, Providers, Connectors
<1>0. /\ CallFits(j) /\ Signed(j) /\ call[j].as \in Someone /\ call[j].signer \in Someone
      /\ Known /\ Pages /\ ServiceFits /\ (Is(j, OfMachine) => j = Service)
  BY CallFacts, PageFacts
<1>1. /\ proved' = proved
      /\ email' \notin {"SendVerificationEmail", "PendingEmailVerification", "EmailVerified"}
  BY <1>0 DEF ChecksNext, Enters, SameMail, SameMarks, ServiceFits, OfMachine
<1>2. Known'
  BY <1>0 DEF ChecksNext, Enters, Invokes, SameMail, SameRest, SameMarks, Known, Pages,
    ServiceFits, OfMachine
<1>3. Pages'
  BY <1>0 DEF ChecksNext, Enters, Invokes, SameMail, SameRest, SameMarks, LoadingEnds,
    Pages, Invoking, ServiceFits, OfMachine
<1> QED
  BY <1>1, <1>2, <1>3, InvokesFits DEF ChecksNext, Enters, SignedIn

LEMMA SignsInRules ==
  ASSUME Basics, NEW j \in Jobs, NEW s, SignsIn(j, s)
  PROVE  Rules' /\ Pages'
<1> USE DEF Is, Providers, Connectors
<1>0. /\ CallFits(j) /\ Signed(j) /\ call[j].as \in Someone /\ call[j].signer \in Someone
      /\ Known /\ Pages /\ ServiceFits /\ (Is(j, OfMachine) => j = Service)
  BY CallFacts, PageFacts
<1>1. /\ proved' = proved
      /\ email' \notin {"SendVerificationEmail", "PendingEmailVerification", "EmailVerified"}
  BY <1>0 DEF SignsIn, Enters, SameMail, SameMarks, Pages
<1>2. Known'
  BY <1>0 DEF SignsIn, Enters, Invokes, SameMail, SameRest, SameMarks, Known, Pages
<1>3. Pages'
  BY <1>0 DEF SignsIn, Enters, Invokes, SameMail, SameRest, SameMarks, LoadingEnds, Pages,
    Invoking
<1> QED
  BY <1>1, <1>2, <1>3, InvokesFits DEF SignsIn, Enters, SignedIn

LEMMA AdvancesRules ==
  ASSUME Basics, NEW j \in Jobs, NEW s, Advances(j, s)
  PROVE  Rules' /\ Pages'
<1> USE DEF Is, Providers, Connectors
<1>0. /\ CallFits(j) /\ Signed(j) /\ call[j].as \in Someone /\ call[j].signer \in Someone
      /\ Known /\ Pages /\ ServiceFits /\ (Is(j, OfMachine) => j = Service)
  BY CallFacts, PageFacts
<1>1. /\ proved' = proved
      /\ email' \notin {"SendVerificationEmail", "PendingEmailVerification", "EmailVerified"}
  BY <1>0 DEF Advances, Enters, SameMail, SameMarks, Pages, SignedIn
<1>2. Known'
  BY <1>0 DEF Advances, Enters, Invokes, SameMail, SameRest, SameMarks, Known, SignedIn
<1>3. Pages'
  BY <1>0 DEF Advances, Enters, Invokes, SameMail, SameRest, SameMarks, LoadingEnds,
    Pages, Screens, Invoking, SignedIn
<1> QED
  BY <1>1, <1>2, <1>3, InvokesFits DEF Advances, Enters, SignedIn

LEMMA GivesUpRules ==
  ASSUME Basics, NEW j, j = Service, NEW s, GivesUp(s)
  PROVE  Rules' /\ Pages'
<1> USE DEF Is, Providers, Connectors
<1>0. /\ CallFits(j) /\ Signed(j) /\ call[j].as \in Someone /\ call[j].signer \in Someone
      /\ Known /\ Pages /\ ServiceFits /\ (Is(j, OfMachine) => j = Service)
  BY CallFacts, PageFacts, ServiceIsJob
<1>1. /\ proved' = proved
      /\ email' \notin {"SendVerificationEmail", "PendingEmailVerification", "EmailVerified"}
  BY <1>0 DEF GivesUp, Enters, SameMail, SameMarks, ServiceFits, Jobs
<1>2. Known'
  BY <1>0 DEF GivesUp, Enters, Invokes, SameMail, SameRest, SameMarks, Known
<1>3. Pages'
  BY <1>0 DEF GivesUp, Enters, Invokes, SameMail, SameRest, SameMarks, LoadingEnds, Pages,
    Screens, ServiceFits
<1> QED
  BY <1>1, <1>2, <1>3, InvokesFits, ServiceIsJob DEF GivesUp, Enters, SignedIn

LEMMA PublishesFirstRules ==
  ASSUME Basics, NEW j \in Jobs, PublishesFirst(j)
  PROVE  Rules' /\ Pages'
<1> USE DEF Is, Providers, Connectors
<1>0. /\ CallFits(j) /\ Signed(j) /\ call[j].as \in Someone /\ call[j].signer \in Someone
      /\ Known /\ Pages /\ ServiceFits /\ (Is(j, OfMachine) => j = Service)
  BY CallFacts, PageFacts
<1>1. /\ CallFits(j)' /\ Signed(j)'
      /\ Keeps(j) /\ proved \subseteq proved' /\ (j = Service \/ mailbox' = mailbox)
  BY <1>0 DEF PublishesFirst, GoesOn, SameMail, CallFits, Signed, OfScreens, OfMachine
<1>2. ServiceFits'
  BY <1>0, ServiceIsJob DEF PublishesFirst, GoesOn, SameState, SameMail, ServiceFits,
    Keeps
<1>3. Known' /\ Pages'
  BY <1>0 DEF PublishesFirst, GoesOn, SameState, SameMail, SameRest, SameLoading, Known,
    Pages, Signed
<1> QED
  BY <1>1, <1>2, <1>3, RulesOf

LEMMA DropsRules ==
  ASSUME Basics, NEW j \in Jobs, Drops(j)
  PROVE  Rules' /\ Pages'
<1> USE DEF Is, Providers, Connectors
<1>0. /\ CallFits(j) /\ Signed(j) /\ call[j].as \in Someone /\ call[j].signer \in Someone
      /\ Known /\ Pages /\ ServiceFits /\ (Is(j, OfMachine) => j = Service)
  BY CallFacts, PageFacts
<1>1. /\ CallFits(j)' /\ Signed(j)'
      /\ Keeps(j) /\ proved \subseteq proved' /\ (j = Service \/ mailbox' = mailbox)
  BY IdleRecord DEF Drops, Over, SameMail, SameMarks, CallFits, Signed
<1>2. ServiceFits'
  BY <1>0, ServiceIsJob DEF Drops, Over, SameState, SameMail, ServiceFits, Keeps
<1>3. Known' /\ Pages'
  BY <1>0 DEF Drops, SameState, SameMail, SamePage, SameRest, SameMarks, LoadingEnds,
    Known, Pages
<1> QED
  BY <1>1, <1>2, <1>3, RulesOf

LEMMA SignsOutRules ==
  ASSUME Basics, NEW j \in Jobs, SignsOut(j)
  PROVE  Rules' /\ Pages'
<1> USE DEF Is, Providers, Connectors
<1>0. /\ CallFits(j) /\ Signed(j) /\ call[j].as \in Someone /\ call[j].signer \in Someone
      /\ Known /\ Pages /\ ServiceFits /\ (Is(j, OfMachine) => j = Service)
  BY CallFacts, PageFacts
<1>1. /\ CallFits(j)' /\ Signed(j)'
      /\ Keeps(j) /\ proved \subseteq proved' /\ (j = Service \/ mailbox' = mailbox)
  BY IdleRecord DEF SignsOut, Over, SameMail, SameMarks, CallFits, Signed
<1>2. ServiceFits'
  BY <1>0, IdleRecord, ServiceIsJob DEF SignsOut, Over, SameState, SameMail, ServiceFits,
    Keeps
<1>3. Known' /\ Pages'
  BY <1>0, AuthenticationAssumption DEF SignsOut, SameState, SameMail, SameRest,
    SameMarks, LoadingEnds, Known, Pages, Someone
<1> QED
  BY <1>1, <1>2, <1>3, RulesOf

LEMMA BeginsRules ==
  ASSUME Basics, NEW j \in Calls, NEW kind \in OfScreens, NEW a \in Someone, Begins(j, kind, a)
  PROVE  Rules' /\ Pages'
<1> USE DEF Is, Providers, Connectors
<1>0. /\ CallFits(j) /\ Signed(j) /\ call[j].as \in Someone /\ call[j].signer \in Someone
      /\ Known /\ Pages /\ ServiceFits /\ (Is(j, OfMachine) => j = Service)
  BY CallFacts, PageFacts, ServiceIsJob
<1>1. /\ CallFits(j)' /\ Signed(j)'
      /\ Keeps(j) /\ proved \subseteq proved' /\ (j = Service \/ mailbox' = mailbox)
  BY ServiceIsJob DEF Begins, SameMail, CallFits, Signed, OfScreens
<1>2. ServiceFits'
  BY <1>0, ServiceIsJob DEF Begins, SameState, SameMail, ServiceFits, Keeps
<1>3. Known' /\ Pages'
  BY <1>0 DEF Begins, SameState, SameMail, SamePage, SameRest, Known, Pages
<1> QED
  BY <1>1, <1>2, <1>3, RulesOf, ServiceIsJob

LEMMA AsksProviderRules ==
  ASSUME Basics, NEW kind \in {"google", "ii"}, NEW a \in Accounts, AsksProvider(kind, a)
  PROVE  Rules' /\ Pages'
<1> USE DEF Is, Providers, Connectors
<1>0. /\ CallFits(Service) /\ Signed(Service) /\ call[Service].as \in Someone
      /\ Known /\ Pages /\ ServiceFits
  BY CallFacts, PageFacts, ServiceIsJob
<1>1. /\ CallFits(Service)' /\ Signed(Service)'
      /\ Keeps(Service) /\ proved \subseteq proved' /\ (Service = Service \/ mailbox' = mailbox)
  BY ServiceIsJob DEF AsksProvider, SameMarks, CallFits, Signed, OfMachine
<1>2. ServiceFits'
  BY <1>0 DEF AsksProvider, SameMail, ServiceFits, Pages
<1>3. Known' /\ Pages'
  BY <1>0 DEF AsksProvider, SameMail, SamePage, SameRest, SameMarks, SameLoading, Known,
    Pages, Someone, Invoking
<1> QED
  BY <1>1, <1>2, <1>3, RulesOf, ServiceIsJob

LEMMA StartsMailRules ==
  ASSUME Basics, NEW a \in Accounts, StartsMail(a)
  PROVE  Rules' /\ Pages'
<1> USE DEF Is, Providers, Connectors
<1>0. /\ CallFits(Service) /\ Signed(Service) /\ call[Service].as \in Someone
      /\ Known /\ Pages /\ ServiceFits
  BY CallFacts, PageFacts, ServiceIsJob
<1>1. /\ CallFits(Service)' /\ Signed(Service)'
      /\ Keeps(Service) /\ proved \subseteq proved' /\ (Service = Service \/ mailbox' = mailbox)
  BY ServiceIsJob DEF StartsMail, MailCall, SameMarks, CallFits, Signed, OfMachine,
    ServiceFits
<1>2. ServiceFits'
  BY DEF StartsMail, MailCall, ServiceFits, Pages
<1>3. Known' /\ Pages'
  BY <1>0 DEF StartsMail, MailCall, SamePage, SameRest, SameMarks, SameLoading, Known,
    Pages, Someone, EmailStates, Screens
<1> QED
  BY <1>1, <1>2, <1>3, RulesOf, ServiceIsJob

LEMMA MailMovesRules ==
  ASSUME Basics, NEW s, NEW kind, MailMoves(s, kind)
  PROVE  Rules' /\ Pages'
<1> USE DEF Is, Providers, Connectors
<1>0. /\ CallFits(Service) /\ Signed(Service) /\ call[Service].as \in Someone
      /\ Known /\ Pages /\ ServiceFits
  BY CallFacts, PageFacts, ServiceIsJob
<1>1. /\ CallFits(Service)' /\ Signed(Service)'
      /\ Keeps(Service) /\ proved \subseteq proved' /\ (Service = Service \/ mailbox' = mailbox)
  BY ServiceIsJob DEF MailMoves, MailCall, SameMarks, CallFits, Signed, OfMachine,
    ServiceFits
<1>2. ServiceFits'
  BY DEF MailMoves, MailCall, SameState, ServiceFits, Pages
<1>3. Known' /\ Pages'
  BY <1>0 DEF MailMoves, MailCall, SameState, SamePage, SameRest, SameMarks, SameLoading,
    Known, Pages, EmailStates
<1> QED
  BY <1>1, <1>2, <1>3, RulesOf, ServiceIsJob

LEMMA MailOpenedRules ==
  ASSUME Basics, MailOpened
  PROVE  Rules' /\ Pages'
<1> USE DEF Is, Providers, Connectors
<1>0. /\ CallFits(Service) /\ Signed(Service) /\ call[Service].as \in Someone
      /\ Known /\ Pages /\ ServiceFits
  BY CallFacts, PageFacts, ServiceIsJob
<1>1. /\ CallFits(Service)' /\ Signed(Service)'
      /\ Keeps(Service) /\ proved \subseteq proved' /\ (Service = Service \/ mailbox' = mailbox)
  BY <1>0, ServiceIsJob DEF MailOpened, SameMarks, CallFits, Signed, Known, OfMachine,
    ServiceFits
<1>2. ServiceFits'
  BY <1>0 DEF MailOpened, SameState, ServiceFits, Pages
<1>3. Known' /\ Pages'
  BY <1>0 DEF MailOpened, SameState, SameRest, SameMarks, SameLoading, Known, Pages,
    ServiceFits, EmailStates
<1> QED
  BY <1>1, <1>2, <1>3, RulesOf, ServiceIsJob

LEMMA MailFailsRules ==
  ASSUME Basics, MailFails
  PROVE  Rules' /\ Pages'
<1> USE DEF Is, Providers, Connectors
<1>0. /\ CallFits(Service) /\ Signed(Service) /\ call[Service].as \in Someone
      /\ Known /\ Pages /\ ServiceFits
  BY CallFacts, PageFacts, ServiceIsJob
<1>1. /\ CallFits(Service)' /\ Signed(Service)'
      /\ Keeps(Service) /\ proved \subseteq proved' /\ (Service = Service \/ mailbox' = mailbox)
  BY IdleRecord DEF MailFails, Over, SameMarks, CallFits, Signed, ServiceFits
<1>2. ServiceFits'
  BY <1>0, IdleRecord DEF MailFails, Over, SameState, ServiceFits, Pages
<1>3. Known' /\ Pages'
  BY <1>0 DEF MailFails, SameState, SamePage, SameRest, SameMarks, SameLoading, Known,
    Pages, ServiceFits, EmailStates
<1> QED
  BY <1>1, <1>2, <1>3, RulesOf, ServiceIsJob

LEMMA MailDoneRules ==
  ASSUME Basics, MailDone
  PROVE  Rules' /\ Pages'
<1> USE DEF Is, Providers, Connectors
<1>0. /\ CallFits(Service) /\ Signed(Service) /\ call[Service].as \in Someone
      /\ Known /\ Pages /\ ServiceFits
  BY CallFacts, PageFacts, ServiceIsJob
<1>1. /\ CallFits(Service)' /\ Signed(Service)'
      /\ Keeps(Service) /\ proved \subseteq proved' /\ (Service = Service \/ mailbox' = mailbox)
  BY IdleRecord DEF MailDone, Over, SameMarks, CallFits, Signed, ServiceFits
<1>2. ServiceFits'
  BY <1>0, IdleRecord DEF MailDone, Over, SameState, ServiceFits, Pages
<1>3. Known' /\ Pages'
  BY <1>0 DEF MailDone, SameState, SamePage, SameRest, SameMarks, SameLoading, Known,
    Pages, ServiceFits, EmailStates
<1> QED
  BY <1>1, <1>2, <1>3, RulesOf, ServiceIsJob

LEMMA MailEndsRules ==
  ASSUME Basics, NEW s, NEW who \in Someone, MailEnds(s, who)
  PROVE  Rules' /\ Pages'
<1> USE DEF Is, Providers, Connectors
<1>0. Known /\ Pages /\ ServiceFits
  BY PageFacts
<1>1. Known' /\ Pages'
  BY <1>0 DEF MailEnds, Invokes, SameRest, SameMarks, SameLoading, Known, Pages, Screens,
    Invoking
<1> QED
  BY <1>1, InvokesFits, ServiceIsJob DEF MailEnds, SameMarks

LEMMA StillRules ==
  ASSUME Basics, Rests \/ \E to \in Screens \cup {"End"} : Moves(to)
  PROVE  Rules' /\ Pages'
<1>0. Known /\ Pages /\ ServiceFits
  BY PageFacts
<1>1. ASSUME NEW d \in Jobs
      PROVE  CallFits(d)' /\ Signed(d)'
  BY Unmoved, CallFacts DEF Rests, Moves, SameMail, SameMarks
<1>2. ServiceFits'
  BY <1>0, ServiceIsJob DEF Rests, Moves, ServiceFits, Is, SameState, SameMail, Screens
<1>3. Known' /\ Pages'
  BY <1>0 DEF Rests, Moves, SameState, SameMail, SamePage, SameRest, SameMarks,
    SameLoading, Known, Pages
<1> QED
  BY <1>1, <1>2, <1>3 DEF Rules

\* Every shape keeps the rules.
LEMMA StepRules ==
  ASSUME Basics, Shaped
  PROVE  Rules' /\ Pages'
<1>1. ASSUME UserStep PROVE Rules' /\ Pages'
  BY <1>1, BeginsRules, StillRules, AsksProviderRules DEF UserStep
<1>2. ASSUME MailStep PROVE Rules' /\ Pages'
  BY <1>2, StartsMailRules, MailMovesRules, MailEndsRules, MailOpenedRules,
    MailFailsRules, MailDoneRules DEF MailStep
<1>3. ASSUME NEW j \in Jobs, CallStep(j) PROVE Rules' /\ Pages'
  BY <1>3, ProvesRules, SetsProfileRules, LeavesProfileRules, StoresNextRules,
    DevicesNextRules, PassesCheckRules, WipesRules, CreatesNextRules, CreatesRules,
    SetsAnchorRules, PublishesRules, PublishesFirstRules, AsksFactorRules, DropsRules,
    SignsOutRules DEF CallStep
<1>4. ASSUME NEW j \in Jobs, MachineStep(j) PROVE Rules' /\ Pages'
  BY <1>4, ChecksNextRules, SignsInRules, AdvancesRules DEF MachineStep
<1>5. ASSUME GiveUpStep PROVE Rules' /\ Pages'
  BY <1>5, GivesUpRules DEF GiveUpStep
<1> QED
  BY <1>1, <1>2, <1>3, <1>4, <1>5, StillRules DEF Shaped

\* The machine and its service wait together.
LEMMA TypesOf ==
  ASSUME Sorts', Pages', CallFits(Service)', ServiceFits'
  PROVE  TypeOK'
<1>1. Running(Service)' <=> call'[Service].kind \in OfMachine
  BY KindsOf DEF CallFits, Is, Running
<1>2. Running(Service)' <=>
        (state' \in Invoking \/ email' \in EmailStates \ {"Error", "Authenticated"})
  BY <1>1, KindsOf DEF ServiceFits, Is, Invoking, EmailStates
<1> QED
  BY <1>2 DEF Sorts, Pages, TypeOK, CallRecords

LEMMA StepTypes ==
  ASSUME Basics, [Next]_vars
  PROVE  Basics'
<1>1. Sorts' /\ Pages' /\ Rules'
  BY StepSorts, StepKinds, StepRules
<1>2. CallFits(Service)' /\ ServiceFits'
  BY <1>1, ServiceIsJob DEF Rules
<1>3. TypeOK'
  BY <1>1, <1>2, TypesOf
<1> QED
  BY <1>1, <1>3 DEF Basics, Rules

-----------------------------------------------------------------------------
(* The part for a page on which no two calls met *)

LEMMA Monotone ==
  ASSUME Basics, Shaped
  PROVE  overlapped => overlapped'
<1> USE DEF SameMarks, GoesOn
<1>1. ASSUME UserStep PROVE overlapped => overlapped'
  BY <1>1 DEF UserStep, Begins, Moves, AsksProvider
<1>2. ASSUME MailStep PROVE overlapped => overlapped'
  BY <1>2 DEF MailStep, StartsMail, MailMoves, MailCall, MailEnds, MailOpened, MailFails,
    MailDone
<1>3. ASSUME NEW j \in Jobs, CallStep(j) PROVE overlapped => overlapped'
  BY <1>3 DEF CallStep, Proves, SetsProfile, LeavesProfile, StoresNext, DevicesNext,
    PassesCheck, Wipes, CreatesNext, Creates, SetsAnchor, Publishes, PublishesFirst,
    AsksFactor, Drops, SignsOut
<1>4. ASSUME NEW j \in Jobs, MachineStep(j) PROVE overlapped => overlapped'
  BY <1>4 DEF MachineStep, ChecksNext, SignsIn, Advances, Enters
<1>5. ASSUME GiveUpStep PROVE overlapped => overlapped'
  BY <1>5 DEF GiveUpStep, GivesUp, Enters
<1> QED
  BY <1>1, <1>2, <1>3, <1>4, <1>5 DEF Shaped, Rests

Quietly(j) == call[j].kind = "none" /\ call[j].step = "idle"

\* A screen that calls shows when the machine waits for no service.
LEMMA HomeIsQuiet ==
  ASSUME Basics, NEW kind \in OfScreens, state \in Home(kind)
  PROVE  Quietly(Service)
<1>1. /\ state \in Screens \ {"EmailAuthentication"}
      /\ kind \in Connectors => state \notin SignedIn
  BY DEF Home, Screens, SignedIn, Connectors
<1>2. call[Service].kind \notin OfMachine
  BY <1>1, PageFacts, KindsOf DEF ServiceFits, Pages, Is, Screens
<1> QED
  BY <1>2, CallFacts, ServiceIsJob DEF CallFits, Is, Quietly

\* Without an overlap all other calls are over while one runs.
LEMMA Solo ==
  ASSUME Basics, Undisturbed, ~overlapped, NEW j \in Jobs, Running(j)
  PROVE  /\ \A d \in Jobs \ {j} : Quietly(d)
         /\ j \in Calls => state \in Home(call[j].kind) /\ call[j].kind \in OfScreens
<1>1. Alone
  BY DEF Undisturbed
<1>2. ASSUME NEW d \in Jobs, ~Running(d)
      PROVE  Quietly(d)
  BY <1>2, CallFacts DEF CallFits, Is, Running, Quietly
<1>3. CASE j \in Calls
  <2>1. call[j].kind \in OfScreens /\ state \in Home(call[j].kind)
    BY <1>1, <1>3, CallFacts DEF Alone, CallFits, Is, Running
  <2>2. Quietly(Service)
    BY <2>1, HomeIsQuiet
  <2>3. ASSUME NEW d \in Calls, d # j
        PROVE  Quietly(d)
    BY <1>1, <1>2, <1>3, <2>3, ServiceIsJob DEF Alone
  <2> QED
    BY <2>1, <2>2, <2>3 DEF Jobs
<1>4. CASE j = Service
  <2>1. ASSUME NEW d \in Calls, Running(d)
        PROVE  FALSE
    <3>1. call[d].kind \in OfScreens /\ state \in Home(call[d].kind)
      BY <1>1, <2>1, CallFacts, ServiceIsJob DEF Alone, CallFits, Is, Running
    <3>2. Quietly(Service)
      BY <3>1, HomeIsQuiet
    <3> QED
      BY <1>4, <3>2 DEF Running, Quietly
  <2> QED
    BY <1>2, <2>1 DEF Jobs
<1> QED
  BY <1>3, <1>4 DEF Jobs

\* Where the user is asked for nothing, no screen calls.
LEMMA NobodyCalls ==
  ASSUME Basics, Undisturbed, ~overlapped,
         state = "EmailAuthentication" \/ (state = "AuthSelection" /\ ~isPasskeyLoading)
  PROVE  \A d \in Jobs \ {Service} : Quietly(d)
<1>1. ASSUME NEW d \in Calls, Running(d)
      PROVE  FALSE
  <2>1. call[d].kind \in OfScreens /\ state \in Home(call[d].kind)
    BY <1>1, Solo, ServiceIsJob
  <2>2. call[d].kind = "passkey" /\ state = "AuthSelection"
    BY <2>1 DEF Home
  <2> QED
    BY <2>2 DEF Undisturbed, Alone, Is
<1> QED
  BY <1>1, CallFacts DEF CallFits, Is, Running, Quietly, Jobs

\* One call is left: what it has to fulfil.
LEMMA OneLeft ==
  ASSUME Basics', NEW j \in Jobs, \A d \in Jobs \ {j} : Quietly(d)',
         j \in Calls /\ call'[j].kind # "none" =>
           /\ call'[j].step # "idle" => (state \in Home(call[j].kind))'
           /\ call'[j].kind = "passkey" => isPasskeyLoading',
         ActsFor(j)', StateFits'
  PROVE  Undisturbed'
<1>1. CallFits(j)'
  BY DEF Basics
<1>2. Alone'
  BY <1>1, ServiceIsJob DEF Alone, Running, Is, Quietly, CallFits
<1>3. \A d \in Jobs : ActsFor(d)'
  BY DEF ActsFor, Is, Quietly, Providers, Connectors
<1> QED
  BY <1>2, <1>3 DEF Undisturbed

LEMMA ProvesAlone ==
  ASSUME Basics, Undisturbed, ~overlapped, Basics',
         NEW j \in Jobs, NEW s \in Steps, Proves(j, s)
  PROVE  Undisturbed'
<1> USE DEF Is, Providers, Connectors
<1>0. /\ CallFits(j) /\ Signed(j) /\ call[j].as \in Someone /\ call[j].signer \in Someone
      /\ Is(j, OfMachine) => j = Service
      /\ Is(j, OfScreens) => j \in Calls
      /\ Known /\ Pages /\ ServiceFits /\ ActsFor(j) /\ StateFits
      /\ \A c \in Calls : Is(c, {"passkey"}) => isPasskeyLoading
  BY CallFacts, PageFacts DEF Undisturbed, Alone
<1>1. Running(j)
  BY DEF Proves, Running
<1>2. /\ \A d \in Jobs \ {j} : Quietly(d)
      /\ j \in Calls => state \in Home(call[j].kind) /\ call[j].kind \in OfScreens
  BY <1>1, Solo
<1>3. \A d \in Jobs \ {j} : Quietly(d)'
  BY <1>2 DEF Proves, To, Keeps, Quietly
<1>4. j \in Calls /\ call'[j].kind # "none" =>
        /\ call'[j].step # "idle" => (state \in Home(call[j].kind))'
        /\ call'[j].kind = "passkey" => isPasskeyLoading'
  BY <1>0, <1>2 DEF Proves, GoesOn, SameState, SameLoading, To
<1>5. ActsFor(j)'
  BY <1>0 DEF Proves, GoesOn, SameState, To, ActsFor
<1>6. StateFits'
  BY <1>0, <1>2, <1>3, ServiceIsJob DEF Proves, GoesOn, SameState, SameMail, SameRest, To,
    CallFits, ServiceFits, Pages, OfMachine, OfScreens, Home, SignedIn, Quietly, StateFits
<1> QED
  BY <1>3, <1>4, <1>5, <1>6, OneLeft

LEMMA SetsProfileAlone ==
  ASSUME Basics, Undisturbed, ~overlapped, Basics',
         NEW j \in Jobs, NEW id \in Someone, SetsProfile(j, id)
  PROVE  Undisturbed'
<1> USE DEF Is, Providers, Connectors
<1>0. /\ CallFits(j) /\ Signed(j) /\ call[j].as \in Someone /\ call[j].signer \in Someone
      /\ Is(j, OfMachine) => j = Service
      /\ Is(j, OfScreens) => j \in Calls
      /\ Known /\ Pages /\ ServiceFits /\ ActsFor(j) /\ StateFits
      /\ \A c \in Calls : Is(c, {"passkey"}) => isPasskeyLoading
  BY CallFacts, PageFacts DEF Undisturbed, Alone
<1>1. Running(j)
  BY DEF SetsProfile, Profiled, Running
<1>2. /\ \A d \in Jobs \ {j} : Quietly(d)
      /\ j \in Calls => state \in Home(call[j].kind) /\ call[j].kind \in OfScreens
  BY <1>1, Solo
<1>3. \A d \in Jobs \ {j} : Quietly(d)'
  BY <1>2 DEF SetsProfile, To, Keeps, Quietly
<1>4. j \in Calls /\ call'[j].kind # "none" =>
        /\ call'[j].step # "idle" => (state \in Home(call[j].kind))'
        /\ call'[j].kind = "passkey" => isPasskeyLoading'
  BY <1>2 DEF SetsProfile, GoesOn, SameState, To
<1>5. ActsFor(j)'
  BY DEF SetsProfile, To, ActsFor
<1>6. StateFits'
  BY <1>0, <1>2, <1>3, ServiceIsJob DEF SetsProfile, GoesOn, SameState, SameMail, To,
    ServiceFits, Pages, OfMachine, OfScreens, Home, SignedIn, Quietly, StateFits
<1> QED
  BY <1>3, <1>4, <1>5, <1>6, OneLeft

LEMMA LeavesProfileAlone ==
  ASSUME Basics, Undisturbed, ~overlapped, Basics',
         NEW j \in Jobs, NEW id \in Someone, LeavesProfile(j, id)
  PROVE  Undisturbed'
<1> USE DEF Is, Providers, Connectors
<1>0. /\ CallFits(j) /\ Signed(j) /\ call[j].as \in Someone /\ call[j].signer \in Someone
      /\ Is(j, OfMachine) => j = Service
      /\ Is(j, OfScreens) => j \in Calls
      /\ Known /\ Pages /\ ServiceFits /\ ActsFor(j) /\ StateFits
      /\ \A c \in Calls : Is(c, {"passkey"}) => isPasskeyLoading
  BY CallFacts, PageFacts DEF Undisturbed, Alone
<1>1. Running(j)
  BY DEF LeavesProfile, Profiled, Running
<1>2. /\ \A d \in Jobs \ {j} : Quietly(d)
      /\ j \in Calls => state \in Home(call[j].kind) /\ call[j].kind \in OfScreens
  BY <1>1, Solo
<1>3. \A d \in Jobs \ {j} : Quietly(d)'
  BY <1>2 DEF LeavesProfile, To, Keeps, Quietly
<1>4. j \in Calls /\ call'[j].kind # "none" =>
        /\ call'[j].step # "idle" => (state \in Home(call[j].kind))'
        /\ call'[j].kind = "passkey" => isPasskeyLoading'
  BY <1>0, <1>2 DEF LeavesProfile, GoesOn, SameState, SameLoading, To
<1>5. ActsFor(j)'
  BY <1>0 DEF LeavesProfile, Profiled, GoesOn, SameState, To, ActsFor
<1>6. StateFits'
  BY <1>0, <1>2, <1>3, ServiceIsJob DEF LeavesProfile, Profiled, GoesOn, SameState,
    SameMail, SameRest, To, Mismatch, ActsFor, Signed, ServiceFits, Known, OfMachine,
    SignedIn, Quietly, StateFits, ProviderDone
<1> QED
  BY <1>3, <1>4, <1>5, <1>6, OneLeft

LEMMA StoresNextAlone ==
  ASSUME Basics, Undisturbed, ~overlapped, Basics',
         NEW j \in Jobs, NEW id \in Someone, StoresNext(j, id)
  PROVE  Undisturbed'
<1> USE DEF Is, Providers, Connectors
<1>0. /\ CallFits(j) /\ Signed(j) /\ call[j].as \in Someone /\ call[j].signer \in Someone
      /\ Is(j, OfMachine) => j = Service
      /\ Is(j, OfScreens) => j \in Calls
      /\ Known /\ Pages /\ ServiceFits /\ ActsFor(j) /\ StateFits
      /\ \A c \in Calls : Is(c, {"passkey"}) => isPasskeyLoading
  BY CallFacts, PageFacts DEF Undisturbed, Alone
<1>1. Running(j)
  BY DEF StoresNext, Profiled, Running
<1>2. /\ \A d \in Jobs \ {j} : Quietly(d)
      /\ j \in Calls => state \in Home(call[j].kind) /\ call[j].kind \in OfScreens
  BY <1>1, Solo
<1>3. \A d \in Jobs \ {j} : Quietly(d)'
  BY <1>2 DEF StoresNext, To, Keeps, Quietly
<1>4. j \in Calls /\ call'[j].kind # "none" =>
        /\ call'[j].step # "idle" => (state \in Home(call[j].kind))'
        /\ call'[j].kind = "passkey" => isPasskeyLoading'
  BY <1>2 DEF StoresNext, GoesOn, SameState, To
<1>5. ActsFor(j)'
  BY DEF StoresNext, To, ActsFor
<1>6. StateFits'
  BY <1>0, <1>2, <1>3, ServiceIsJob DEF StoresNext, Profiled, GoesOn, SameState, SameMail,
    To, Known, OfScreens, Home, SignedIn, Quietly, StateFits
<1> QED
  BY <1>3, <1>4, <1>5, <1>6, OneLeft

LEMMA DevicesNextAlone ==
  ASSUME Basics, Undisturbed, ~overlapped, Basics',
         NEW j \in Jobs, NEW id \in Someone, DevicesNext(j, id)
  PROVE  Undisturbed'
<1> USE DEF Is, Providers, Connectors
<1>0. /\ CallFits(j) /\ Signed(j) /\ call[j].as \in Someone /\ call[j].signer \in Someone
      /\ Is(j, OfMachine) => j = Service
      /\ Is(j, OfScreens) => j \in Calls
      /\ Known /\ Pages /\ ServiceFits /\ ActsFor(j) /\ StateFits
      /\ \A c \in Calls : Is(c, {"passkey"}) => isPasskeyLoading
  BY CallFacts, PageFacts DEF Undisturbed, Alone
<1>1. Running(j)
  BY DEF DevicesNext, Profiled, Running
<1>2. /\ \A d \in Jobs \ {j} : Quietly(d)
      /\ j \in Calls => state \in Home(call[j].kind) /\ call[j].kind \in OfScreens
  BY <1>1, Solo
<1>3. \A d \in Jobs \ {j} : Quietly(d)'
  BY <1>2 DEF DevicesNext, To, Keeps, Quietly
<1>4. j \in Calls /\ call'[j].kind # "none" =>
        /\ call'[j].step # "idle" => (state \in Home(call[j].kind))'
        /\ call'[j].kind = "passkey" => isPasskeyLoading'
  BY <1>2 DEF DevicesNext, GoesOn, SameState, To
<1>5. ActsFor(j)'
  BY DEF DevicesNext, To, ActsFor
<1>6. StateFits'
  BY <1>0, <1>3, ServiceIsJob DEF DevicesNext, Profiled, GoesOn, SameState, SameMail,
    SameRest, To, OfMachine, Quietly, StateFits, ProviderDone
<1> QED
  BY <1>3, <1>4, <1>5, <1>6, OneLeft

LEMMA WipesAlone ==
  ASSUME Basics, Undisturbed, ~overlapped, Basics',
         NEW j \in Jobs, Wipes(j)
  PROVE  Undisturbed'
<1> USE DEF Is, Providers, Connectors
<1>0. /\ CallFits(j) /\ Signed(j) /\ call[j].as \in Someone /\ call[j].signer \in Someone
      /\ Is(j, OfMachine) => j = Service
      /\ Is(j, OfScreens) => j \in Calls
      /\ Known /\ Pages /\ ServiceFits /\ ActsFor(j) /\ StateFits
      /\ \A c \in Calls : Is(c, {"passkey"}) => isPasskeyLoading
  BY CallFacts, PageFacts DEF Undisturbed, Alone
<1>1. Running(j)
  BY DEF Wipes, Running
<1>2. /\ \A d \in Jobs \ {j} : Quietly(d)
      /\ j \in Calls => state \in Home(call[j].kind) /\ call[j].kind \in OfScreens
  BY <1>1, Solo
<1>3. \A d \in Jobs \ {j} : Quietly(d)'
  BY <1>2 DEF Wipes, To, Keeps, Quietly
<1>4. j \in Calls /\ call'[j].kind # "none" =>
        /\ call'[j].step # "idle" => (state \in Home(call[j].kind))'
        /\ call'[j].kind = "passkey" => isPasskeyLoading'
  BY <1>0, <1>2 DEF Wipes, GoesOn, SameState, SameLoading, To
<1>5. ActsFor(j)'
  BY <1>0 DEF Wipes, To, Mismatch, ActsFor, Signed
<1>6. StateFits'
  BY <1>0, <1>2, <1>3, ServiceIsJob, AuthenticationAssumption DEF Wipes, GoesOn,
    SameState, SameMail, SameRest, To, Mismatch, CallFits, ServiceFits, Pages, OfMachine,
    OfScreens, Home, SignedIn, Quietly, StateFits, ProviderDone
<1> QED
  BY <1>3, <1>4, <1>5, <1>6, OneLeft

LEMMA CreatesNextAlone ==
  ASSUME Basics, Undisturbed, ~overlapped, Basics',
         NEW j \in Jobs, CreatesNext(j)
  PROVE  Undisturbed'
<1> USE DEF Is, Providers, Connectors
<1>0. /\ CallFits(j) /\ Signed(j) /\ call[j].as \in Someone /\ call[j].signer \in Someone
      /\ Is(j, OfMachine) => j = Service
      /\ Is(j, OfScreens) => j \in Calls
      /\ Known /\ Pages /\ ServiceFits /\ ActsFor(j) /\ StateFits
      /\ \A c \in Calls : Is(c, {"passkey"}) => isPasskeyLoading
  BY CallFacts, PageFacts DEF Undisturbed, Alone
<1>1. Running(j)
  BY DEF CreatesNext, Running
<1>2. /\ \A d \in Jobs \ {j} : Quietly(d)
      /\ j \in Calls => state \in Home(call[j].kind) /\ call[j].kind \in OfScreens
  BY <1>1, Solo
<1>3. \A d \in Jobs \ {j} : Quietly(d)'
  BY <1>2 DEF CreatesNext, To, Keeps, Quietly
<1>4. j \in Calls /\ call'[j].kind # "none" =>
        /\ call'[j].step # "idle" => (state \in Home(call[j].kind))'
        /\ call'[j].kind = "passkey" => isPasskeyLoading'
  BY <1>2 DEF CreatesNext, GoesOn, SameState, To
<1>5. ActsFor(j)'
  BY DEF CreatesNext, To, ActsFor
<1>6. StateFits'
  BY <1>0, <1>3, ServiceIsJob DEF CreatesNext, GoesOn, SameState, SameMail, To, ActsFor,
    ServiceFits, Pages, OfMachine, Quietly, StateFits
<1> QED
  BY <1>3, <1>4, <1>5, <1>6, OneLeft

LEMMA CreatesAlone ==
  ASSUME Basics, Undisturbed, ~overlapped, Basics',
         NEW j \in Jobs, Creates(j)
  PROVE  Undisturbed'
<1> USE DEF Is, Providers, Connectors
<1>0. /\ CallFits(j) /\ Signed(j) /\ call[j].as \in Someone /\ call[j].signer \in Someone
      /\ Is(j, OfMachine) => j = Service
      /\ Is(j, OfScreens) => j \in Calls
      /\ Known /\ Pages /\ ServiceFits /\ ActsFor(j) /\ StateFits
      /\ \A c \in Calls : Is(c, {"passkey"}) => isPasskeyLoading
  BY CallFacts, PageFacts DEF Undisturbed, Alone
<1>1. Running(j)
  BY DEF Creates, Running
<1>2. /\ \A d \in Jobs \ {j} : Quietly(d)
      /\ j \in Calls => state \in Home(call[j].kind) /\ call[j].kind \in OfScreens
  BY <1>1, Solo
<1>3. \A d \in Jobs \ {j} : Quietly(d)'
  BY <1>2 DEF Creates, To, Keeps, Quietly
<1>4. j \in Calls /\ call'[j].kind # "none" =>
        /\ call'[j].step # "idle" => (state \in Home(call[j].kind))'
        /\ call'[j].kind = "passkey" => isPasskeyLoading'
  BY <1>0, <1>2 DEF Creates, GoesOn, SameState, SameLoading, To
<1>5. ActsFor(j)'
  BY <1>0 DEF Creates, GoesOn, SameState, To, ActsFor
<1>6. StateFits'
  BY <1>0, <1>2, <1>3, ServiceIsJob DEF Creates, GoesOn, SameState, SameMail, To, ActsFor,
    CallFits, ServiceFits, Pages, OfMachine, OfScreens, Home, Quietly, StateFits
<1> QED
  BY <1>3, <1>4, <1>5, <1>6, OneLeft

LEMMA SetsAnchorAlone ==
  ASSUME Basics, Undisturbed, ~overlapped, Basics',
         NEW j \in Jobs, SetsAnchor(j)
  PROVE  Undisturbed'
<1> USE DEF Is, Providers, Connectors
<1>0. /\ CallFits(j) /\ Signed(j) /\ call[j].as \in Someone /\ call[j].signer \in Someone
      /\ Is(j, OfMachine) => j = Service
      /\ Is(j, OfScreens) => j \in Calls
      /\ Known /\ Pages /\ ServiceFits /\ ActsFor(j) /\ StateFits
      /\ \A c \in Calls : Is(c, {"passkey"}) => isPasskeyLoading
  BY CallFacts, PageFacts DEF Undisturbed, Alone
<1>1. Running(j)
  BY DEF SetsAnchor, Running
<1>2. /\ \A d \in Jobs \ {j} : Quietly(d)
      /\ j \in Calls => state \in Home(call[j].kind) /\ call[j].kind \in OfScreens
  BY <1>1, Solo
<1>3. \A d \in Jobs \ {j} : Quietly(d)'
  BY <1>2 DEF SetsAnchor, To, Keeps, Quietly
<1>4. j \in Calls /\ call'[j].kind # "none" =>
        /\ call'[j].step # "idle" => (state \in Home(call[j].kind))'
        /\ call'[j].kind = "passkey" => isPasskeyLoading'
  BY <1>0, <1>2 DEF SetsAnchor, GoesOn, SameState, SameLoading, To
<1>5. ActsFor(j)'
  BY <1>0 DEF SetsAnchor, GoesOn, SameState, To, ActsFor, Signed
<1>6. StateFits'
  BY <1>0, <1>2, <1>3, ServiceIsJob DEF SetsAnchor, GoesOn, SameState, SameMail, SameRest,
    To, ActsFor, Signed, CallFits, ServiceFits, Pages, OfMachine, OfScreens, Home,
    Quietly, StateFits
<1> QED
  BY <1>3, <1>4, <1>5, <1>6, OneLeft

LEMMA PublishesAlone ==
  ASSUME Basics, Undisturbed, ~overlapped, Basics',
         NEW j \in Jobs, NEW s \in Steps, Publishes(j, s)
  PROVE  Undisturbed'
<1> USE DEF Is, Providers, Connectors
<1>0. /\ CallFits(j) /\ Signed(j) /\ call[j].as \in Someone /\ call[j].signer \in Someone
      /\ Is(j, OfMachine) => j = Service
      /\ Is(j, OfScreens) => j \in Calls
      /\ Known /\ Pages /\ ServiceFits /\ ActsFor(j) /\ StateFits
      /\ \A c \in Calls : Is(c, {"passkey"}) => isPasskeyLoading
  BY CallFacts, PageFacts DEF Undisturbed, Alone
<1>1. Running(j)
  BY DEF Publishes, Running
<1>2. /\ \A d \in Jobs \ {j} : Quietly(d)
      /\ j \in Calls => state \in Home(call[j].kind) /\ call[j].kind \in OfScreens
  BY <1>1, Solo
<1>3. \A d \in Jobs \ {j} : Quietly(d)'
  BY <1>2 DEF Publishes, To, Keeps, Quietly
<1>4. j \in Calls /\ call'[j].kind # "none" =>
        /\ call'[j].step # "idle" => (state \in Home(call[j].kind))'
        /\ call'[j].kind = "passkey" => isPasskeyLoading'
  BY <1>0, <1>2 DEF Publishes, GoesOn, SameState, SameLoading, To
<1>5. ActsFor(j)'
  BY <1>0 DEF Publishes, GoesOn, SameState, To, ActsFor
<1>6. StateFits'
  BY <1>0, <1>2, <1>3, ServiceIsJob DEF Publishes, GoesOn, SameState, SameMail, SameRest,
    To, ActsFor, CallFits, ServiceFits, Quietly, StateFits, ProviderDone
<1> QED
  BY <1>3, <1>4, <1>5, <1>6, OneLeft

LEMMA PublishesFirstAlone ==
  ASSUME Basics, Undisturbed, ~overlapped, Basics',
         NEW j \in Jobs, PublishesFirst(j)
  PROVE  Undisturbed'
<1> USE DEF Is, Providers, Connectors
<1>0. /\ CallFits(j) /\ Signed(j) /\ call[j].as \in Someone /\ call[j].signer \in Someone
      /\ Is(j, OfMachine) => j = Service
      /\ Is(j, OfScreens) => j \in Calls
      /\ Known /\ Pages /\ ServiceFits /\ ActsFor(j) /\ StateFits
      /\ \A c \in Calls : Is(c, {"passkey"}) => isPasskeyLoading
  BY CallFacts, PageFacts DEF Undisturbed, Alone
<1>1. Running(j)
  BY DEF PublishesFirst, Running
<1>2. /\ \A d \in Jobs \ {j} : Quietly(d)
      /\ j \in Calls => state \in Home(call[j].kind) /\ call[j].kind \in OfScreens
  BY <1>1, Solo
<1>3. \A d \in Jobs \ {j} : Quietly(d)'
  BY <1>2 DEF PublishesFirst, To, Keeps, Quietly
<1>4. j \in Calls /\ call'[j].kind # "none" =>
        /\ call'[j].step # "idle" => (state \in Home(call[j].kind))'
        /\ call'[j].kind = "passkey" => isPasskeyLoading'
  BY <1>2 DEF PublishesFirst, GoesOn, SameState, To, Home
<1>5. ActsFor(j)'
  BY DEF PublishesFirst, ActsFor
<1>6. StateFits'
  BY <1>0, <1>2, <1>3, ServiceIsJob DEF PublishesFirst, GoesOn, SameState, SameMail,
    ActsFor, Pages, OfScreens, Home, Quietly, StateFits
<1> QED
  BY <1>3, <1>4, <1>5, <1>6, OneLeft

LEMMA DropsAlone ==
  ASSUME Basics, Undisturbed, ~overlapped, Basics',
         NEW j \in Jobs, Drops(j)
  PROVE  Undisturbed'
<1> USE DEF Is, Providers, Connectors
<1>0. /\ CallFits(j) /\ Signed(j) /\ call[j].as \in Someone /\ call[j].signer \in Someone
      /\ Is(j, OfMachine) => j = Service
      /\ Is(j, OfScreens) => j \in Calls
      /\ Known /\ Pages /\ ServiceFits /\ ActsFor(j) /\ StateFits
      /\ \A c \in Calls : Is(c, {"passkey"}) => isPasskeyLoading
  BY CallFacts, PageFacts DEF Undisturbed, Alone
<1>1. Running(j)
  BY DEF Drops
<1>2. /\ \A d \in Jobs \ {j} : Quietly(d)
      /\ j \in Calls => state \in Home(call[j].kind) /\ call[j].kind \in OfScreens
  BY <1>1, Solo
<1>3. \A d \in Jobs \ {j} : Quietly(d)'
  BY <1>2 DEF Drops, Over, Keeps, Quietly
<1>4. j \in Calls /\ call'[j].kind # "none" =>
        /\ call'[j].step # "idle" => (state \in Home(call[j].kind))'
        /\ call'[j].kind = "passkey" => isPasskeyLoading'
  BY IdleRecord DEF Drops, Over
<1>5. ActsFor(j)'
  BY IdleRecord DEF Drops, Over, ActsFor
<1>6. StateFits'
  BY <1>0, <1>2, <1>3, IdleRecord, ServiceIsJob DEF Drops, Over, SamePage, SameState,
    SameMail, SameRest, ServiceFits, Quietly, StateFits, ProviderDone
<1> QED
  BY <1>3, <1>4, <1>5, <1>6, OneLeft

LEMMA SignsOutAlone ==
  ASSUME Basics, Undisturbed, ~overlapped, Basics',
         NEW j \in Jobs, SignsOut(j)
  PROVE  Undisturbed'
<1> USE DEF Is, Providers, Connectors
<1>0. /\ CallFits(j) /\ Signed(j) /\ call[j].as \in Someone /\ call[j].signer \in Someone
      /\ Is(j, OfMachine) => j = Service
      /\ Is(j, OfScreens) => j \in Calls
      /\ Known /\ Pages /\ ServiceFits /\ ActsFor(j) /\ StateFits
      /\ \A c \in Calls : Is(c, {"passkey"}) => isPasskeyLoading
  BY CallFacts, PageFacts DEF Undisturbed, Alone
<1>1. Running(j)
  BY <1>0 DEF SignsOut, Running, CallFits
<1>2. /\ \A d \in Jobs \ {j} : Quietly(d)
      /\ j \in Calls => state \in Home(call[j].kind) /\ call[j].kind \in OfScreens
  BY <1>1, Solo
<1>3. \A d \in Jobs \ {j} : Quietly(d)'
  BY <1>2 DEF SignsOut, Over, Keeps, Quietly
<1>4. j \in Calls /\ call'[j].kind # "none" =>
        /\ call'[j].step # "idle" => (state \in Home(call[j].kind))'
        /\ call'[j].kind = "passkey" => isPasskeyLoading'
  BY IdleRecord DEF SignsOut, Over
<1>5. ActsFor(j)'
  BY IdleRecord DEF SignsOut, Over, ActsFor
<1>6. StateFits'
  BY <1>0, <1>2, <1>3, IdleRecord, ServiceIsJob DEF SignsOut, Over, SameState, SameMail,
    SameRest, Pages, OfScreens, Home, SignedIn, Quietly, StateFits
<1> QED
  BY <1>3, <1>4, <1>5, <1>6, OneLeft

LEMMA PassesCheckAlone ==
  ASSUME Basics, Undisturbed, ~overlapped, Basics',
         NEW j \in Jobs, NEW id \in Someone, PassesCheck(j, id)
  PROVE  Undisturbed'
<1> USE DEF Is, Providers, Connectors
<1>0. /\ CallFits(j) /\ Signed(j) /\ call[j].as \in Someone /\ call[j].signer \in Someone
      /\ Is(j, OfMachine) => j = Service
      /\ Is(j, OfScreens) => j \in Calls
      /\ Known /\ Pages /\ ServiceFits /\ ActsFor(j) /\ StateFits
      /\ \A c \in Calls : Is(c, {"passkey"}) => isPasskeyLoading
  BY CallFacts, PageFacts DEF Undisturbed, Alone
<1>1. Running(j)
  BY DEF PassesCheck, Profiled, Running
<1>2. /\ \A d \in Jobs \ {j} : Quietly(d)
      /\ j \in Calls => state \in Home(call[j].kind) /\ call[j].kind \in OfScreens
  BY <1>1, Solo
<1>3. \A d \in Jobs \ {Service} : Quietly(d)'
  BY <1>2, IdleRecord DEF PassesCheck, Invokes, Keeps, Quietly
<1>4. Service \in Calls /\ call'[Service].kind # "none" =>
        /\ call'[Service].step # "idle" => (state \in Home(call[Service].kind))'
        /\ call'[Service].kind = "passkey" => isPasskeyLoading'
  BY ServiceIsJob
<1>5. ActsFor(Service)'
  BY DEF PassesCheck, Invokes, Invoke, ActsFor
<1>6. StateFits'
  BY <1>0, ServiceIsJob, AuthenticationAssumption DEF PassesCheck, Profiled, Invokes,
    Invoke, SameMail, ServiceFits, Pages, OfMachine, StateFits, ProviderDone
<1> QED
  BY <1>3, <1>5, <1>6, OneLeft, ServiceIsJob

LEMMA AsksFactorAlone ==
  ASSUME Basics, Undisturbed, ~overlapped, Basics',
         NEW j \in Jobs, AsksFactor(j)
  PROVE  Undisturbed'
<1> USE DEF Is, Providers, Connectors
<1>0. /\ CallFits(j) /\ Signed(j) /\ call[j].as \in Someone /\ call[j].signer \in Someone
      /\ Is(j, OfMachine) => j = Service
      /\ Is(j, OfScreens) => j \in Calls
      /\ Known /\ Pages /\ ServiceFits /\ ActsFor(j) /\ StateFits
      /\ \A c \in Calls : Is(c, {"passkey"}) => isPasskeyLoading
  BY CallFacts, PageFacts DEF Undisturbed, Alone
<1>1. Running(j)
  BY DEF AsksFactor, Running
<1>2. /\ \A d \in Jobs \ {j} : Quietly(d)
      /\ j \in Calls => state \in Home(call[j].kind) /\ call[j].kind \in OfScreens
  BY <1>1, Solo
<1>3. \A d \in Jobs \ {Service} : Quietly(d)'
  BY <1>2, IdleRecord DEF AsksFactor, Invokes, Keeps, Quietly
<1>4. Service \in Calls /\ call'[Service].kind # "none" =>
        /\ call'[Service].step # "idle" => (state \in Home(call[Service].kind))'
        /\ call'[Service].kind = "passkey" => isPasskeyLoading'
  BY ServiceIsJob
<1>5. ActsFor(Service)'
  BY IdleRecord DEF AsksFactor, Invokes, Invoke, ActsFor
<1>6. StateFits'
  BY <1>0, IdleRecord, ServiceIsJob, AuthenticationAssumption DEF AsksFactor, Invokes,
    Invoke, SameMail, CallFits, ServiceFits, Pages, OfMachine, SignedIn, StateFits,
    ProviderDone
<1> QED
  BY <1>3, <1>5, <1>6, OneLeft, ServiceIsJob

LEMMA ChecksNextAlone ==
  ASSUME Basics, Undisturbed, ~overlapped, Basics',
         NEW j \in Jobs, ChecksNext(j)
  PROVE  Undisturbed'
<1> USE DEF Is, Providers, Connectors
<1>0. /\ CallFits(j) /\ Signed(j) /\ call[j].as \in Someone /\ call[j].signer \in Someone
      /\ Is(j, OfMachine) => j = Service
      /\ Is(j, OfScreens) => j \in Calls
      /\ Known /\ Pages /\ ServiceFits /\ ActsFor(j) /\ StateFits
      /\ \A c \in Calls : Is(c, {"passkey"}) => isPasskeyLoading
  BY CallFacts, PageFacts DEF Undisturbed, Alone
<1>1. Running(j)
  BY DEF ChecksNext, Running
<1>2. /\ \A d \in Jobs \ {j} : Quietly(d)
      /\ j \in Calls => state \in Home(call[j].kind) /\ call[j].kind \in OfScreens
  BY <1>1, Solo
<1>3. \A d \in Jobs \ {Service} : Quietly(d)'
  BY <1>2, IdleRecord DEF ChecksNext, Enters, Invokes, SameLoading, Keeps, Quietly
<1>4. Service \in Calls /\ call'[Service].kind # "none" =>
        /\ call'[Service].step # "idle" => (state \in Home(call[Service].kind))'
        /\ call'[Service].kind = "passkey" => isPasskeyLoading'
  BY ServiceIsJob
<1>5. ActsFor(Service)'
  BY DEF ChecksNext, Enters, Invokes, Invoke, ActsFor
<1>6. StateFits'
  BY <1>0, <1>2, ServiceIsJob DEF ChecksNext, Enters, Invokes, Invoke, SameMail, Signed,
    OfMachine, SignedIn, Quietly, StateFits, ProviderDone
<1> QED
  BY <1>3, <1>5, <1>6, OneLeft, ServiceIsJob

LEMMA SignsInAlone ==
  ASSUME Basics, Undisturbed, ~overlapped, Basics',
         NEW j \in Jobs, NEW s, SignsIn(j, s)
  PROVE  Undisturbed'
<1> USE DEF Is, Providers, Connectors
<1>0. /\ CallFits(j) /\ Signed(j) /\ call[j].as \in Someone /\ call[j].signer \in Someone
      /\ Is(j, OfMachine) => j = Service
      /\ Is(j, OfScreens) => j \in Calls
      /\ Known /\ Pages /\ ServiceFits /\ ActsFor(j) /\ StateFits
      /\ \A c \in Calls : Is(c, {"passkey"}) => isPasskeyLoading
  BY CallFacts, PageFacts DEF Undisturbed, Alone
<1>1. Running(j)
  BY DEF SignsIn, Running
<1>2. /\ \A d \in Jobs \ {j} : Quietly(d)
      /\ j \in Calls => state \in Home(call[j].kind) /\ call[j].kind \in OfScreens
  BY <1>1, Solo
<1>3. \A d \in Jobs \ {Service} : Quietly(d)'
  BY <1>2, IdleRecord DEF SignsIn, Enters, Invokes, SameLoading, Keeps, Quietly
<1>4. Service \in Calls /\ call'[Service].kind # "none" =>
        /\ call'[Service].step # "idle" => (state \in Home(call[Service].kind))'
        /\ call'[Service].kind = "passkey" => isPasskeyLoading'
  BY ServiceIsJob
<1>5. ActsFor(Service)'
  BY IdleRecord DEF SignsIn, Enters, Invokes, Invoke, ActsFor
<1>6. StateFits'
  BY <1>0, <1>2, <1>3, ServiceIsJob, AuthenticationAssumption DEF SignsIn, Enters,
    Invokes, Invoke, SameMail, ActsFor, Signed, Pages, OfScreens, Home, Quietly, StateFits
<1> QED
  BY <1>3, <1>5, <1>6, OneLeft, ServiceIsJob

LEMMA AdvancesAlone ==
  ASSUME Basics, Undisturbed, ~overlapped, Basics',
         NEW j \in Jobs, NEW s, Advances(j, s)
  PROVE  Undisturbed'
<1> USE DEF Is, Providers, Connectors
<1>0. /\ CallFits(j) /\ Signed(j) /\ call[j].as \in Someone /\ call[j].signer \in Someone
      /\ Is(j, OfMachine) => j = Service
      /\ Is(j, OfScreens) => j \in Calls
      /\ Known /\ Pages /\ ServiceFits /\ ActsFor(j) /\ StateFits
      /\ \A c \in Calls : Is(c, {"passkey"}) => isPasskeyLoading
  BY CallFacts, PageFacts DEF Undisturbed, Alone
<1>1. Running(j)
  BY <1>0 DEF Advances, SameLoading, Running, CallFits
<1>2. /\ \A d \in Jobs \ {j} : Quietly(d)
      /\ j \in Calls => state \in Home(call[j].kind) /\ call[j].kind \in OfScreens
  BY <1>1, Solo
<1>3. \A d \in Jobs \ {Service} : Quietly(d)'
  BY <1>2, IdleRecord DEF Advances, Enters, Invokes, SameLoading, Keeps, Quietly
<1>4. Service \in Calls /\ call'[Service].kind # "none" =>
        /\ call'[Service].step # "idle" => (state \in Home(call[Service].kind))'
        /\ call'[Service].kind = "passkey" => isPasskeyLoading'
  BY ServiceIsJob
<1>5. ActsFor(Service)'
  BY IdleRecord DEF Advances, Enters, Invokes, Invoke, ActsFor
<1>6. StateFits'
  BY <1>0, IdleRecord, ServiceIsJob DEF Advances, Enters, Invokes, Invoke, SameMail,
    Known, SignedIn, StateFits
<1> QED
  BY <1>3, <1>5, <1>6, OneLeft, ServiceIsJob

LEMMA GivesUpAlone ==
  ASSUME Basics, Undisturbed, ~overlapped, Basics',
         NEW j, j = Service, NEW s, GivesUp(s)
  PROVE  Undisturbed'
<1> USE DEF Is, Providers, Connectors
<1>0. /\ CallFits(j) /\ Signed(j) /\ call[j].as \in Someone /\ call[j].signer \in Someone
      /\ Is(j, OfMachine) => j = Service
      /\ Is(j, OfScreens) => j \in Calls
      /\ Known /\ Pages /\ ServiceFits /\ ActsFor(j) /\ StateFits
      /\ \A c \in Calls : Is(c, {"passkey"}) => isPasskeyLoading
  BY CallFacts, PageFacts, ServiceIsJob DEF Undisturbed, Alone
<1>1. Running(j)
  BY <1>0 DEF GivesUp, SameLoading, Running, CallFits
<1>2. /\ \A d \in Jobs \ {j} : Quietly(d)
      /\ j \in Calls => state \in Home(call[j].kind) /\ call[j].kind \in OfScreens
  BY <1>1, Solo, ServiceIsJob
<1>3. \A d \in Jobs \ {Service} : Quietly(d)'
  BY <1>2 DEF GivesUp, Enters, Invokes, SameLoading, Keeps, Quietly
<1>4. Service \in Calls /\ call'[Service].kind # "none" =>
        /\ call'[Service].step # "idle" => (state \in Home(call[Service].kind))'
        /\ call'[Service].kind = "passkey" => isPasskeyLoading'
  BY ServiceIsJob
<1>5. ActsFor(Service)'
  BY IdleRecord DEF GivesUp, Enters, Invokes, Invoke, ActsFor
<1>6. StateFits'
  BY <1>0, IdleRecord, ServiceIsJob DEF GivesUp, Enters, Invokes, Invoke, SameMail,
    ServiceFits, Pages, SignedIn, StateFits
<1> QED
  BY <1>3, <1>5, <1>6, OneLeft, ServiceIsJob

LEMMA AsksProviderAlone ==
  ASSUME Basics, Undisturbed, ~overlapped, Basics',
         NEW kind \in {"google", "ii"}, NEW a \in Accounts, AsksProvider(kind, a)
  PROVE  Undisturbed'
<1> USE DEF Is, Providers, Connectors
<1>0. /\ CallFits(Service) /\ Signed(Service) /\ call[Service].as \in Someone /\ call[Service].signer \in Someone
      /\ Is(Service, OfMachine) => Service = Service
      /\ Is(Service, OfScreens) => Service \in Calls
      /\ Known /\ Pages /\ ServiceFits /\ ActsFor(Service) /\ StateFits
      /\ \A c \in Calls : Is(c, {"passkey"}) => isPasskeyLoading
  BY CallFacts, PageFacts, ServiceIsJob DEF Undisturbed, Alone
<1>2. \A d \in Jobs \ {Service} : Quietly(d)
  BY NobodyCalls DEF AsksProvider
<1>3. \A d \in Jobs \ {Service} : Quietly(d)'
  BY <1>2 DEF AsksProvider, Keeps, Quietly
<1>4. Service \in Calls /\ call'[Service].kind # "none" =>
        /\ call'[Service].step # "idle" => (state \in Home(call[Service].kind))'
        /\ call'[Service].kind = "passkey" => isPasskeyLoading'
  BY ServiceIsJob
<1>5. ActsFor(Service)'
  BY DEF AsksProvider, ActsFor
<1>6. StateFits'
  BY <1>0, <1>3, ServiceIsJob DEF AsksProvider, SameMail, Pages, SignedIn, Quietly,
    StateFits
<1> QED
  BY <1>3, <1>5, <1>6, OneLeft, ServiceIsJob

LEMMA StartsMailAlone ==
  ASSUME Basics, Undisturbed, ~overlapped, Basics',
         NEW a \in Accounts, StartsMail(a)
  PROVE  Undisturbed'
<1> USE DEF Is, Providers, Connectors
<1>0. /\ CallFits(Service) /\ Signed(Service) /\ call[Service].as \in Someone /\ call[Service].signer \in Someone
      /\ Is(Service, OfMachine) => Service = Service
      /\ Is(Service, OfScreens) => Service \in Calls
      /\ Known /\ Pages /\ ServiceFits /\ ActsFor(Service) /\ StateFits
      /\ \A c \in Calls : Is(c, {"passkey"}) => isPasskeyLoading
  BY CallFacts, PageFacts, ServiceIsJob DEF Undisturbed, Alone
<1>2. \A d \in Jobs \ {Service} : Quietly(d)
  BY NobodyCalls DEF StartsMail
<1>3. \A d \in Jobs \ {Service} : Quietly(d)'
  BY <1>2 DEF StartsMail, MailCall, Keeps, Quietly
<1>4. Service \in Calls /\ call'[Service].kind # "none" =>
        /\ call'[Service].step # "idle" => (state \in Home(call[Service].kind))'
        /\ call'[Service].kind = "passkey" => isPasskeyLoading'
  BY ServiceIsJob
<1>5. ActsFor(Service)'
  BY DEF StartsMail, MailCall, ActsFor
<1>6. StateFits'
  BY <1>3, ServiceIsJob DEF StartsMail, MailCall, SignedIn, Quietly, StateFits
<1> QED
  BY <1>3, <1>5, <1>6, OneLeft, ServiceIsJob

LEMMA MailMovesAlone ==
  ASSUME Basics, Undisturbed, ~overlapped, Basics',
         NEW s, NEW kind, MailMoves(s, kind)
  PROVE  Undisturbed'
<1> USE DEF Is, Providers, Connectors
<1>0. /\ CallFits(Service) /\ Signed(Service) /\ call[Service].as \in Someone /\ call[Service].signer \in Someone
      /\ Is(Service, OfMachine) => Service = Service
      /\ Is(Service, OfScreens) => Service \in Calls
      /\ Known /\ Pages /\ ServiceFits /\ ActsFor(Service) /\ StateFits
      /\ \A c \in Calls : Is(c, {"passkey"}) => isPasskeyLoading
  BY CallFacts, PageFacts, ServiceIsJob DEF Undisturbed, Alone
<1>2. \A d \in Jobs \ {Service} : Quietly(d)
  BY NobodyCalls DEF MailMoves
<1>3. \A d \in Jobs \ {Service} : Quietly(d)'
  BY <1>2 DEF MailMoves, MailCall, Keeps, Quietly
<1>4. Service \in Calls /\ call'[Service].kind # "none" =>
        /\ call'[Service].step # "idle" => (state \in Home(call[Service].kind))'
        /\ call'[Service].kind = "passkey" => isPasskeyLoading'
  BY ServiceIsJob
<1>5. ActsFor(Service)'
  BY DEF MailMoves, MailCall, ActsFor
<1>6. StateFits'
  BY <1>0, <1>3, ServiceIsJob DEF MailMoves, MailCall, SameState, SamePage, Quietly,
    StateFits
<1> QED
  BY <1>3, <1>5, <1>6, OneLeft, ServiceIsJob

LEMMA MailOpenedAlone ==
  ASSUME Basics, Undisturbed, ~overlapped, Basics',
         MailOpened
  PROVE  Undisturbed'
<1> USE DEF Is, Providers, Connectors
<1>0. /\ CallFits(Service) /\ Signed(Service) /\ call[Service].as \in Someone /\ call[Service].signer \in Someone
      /\ Is(Service, OfMachine) => Service = Service
      /\ Is(Service, OfScreens) => Service \in Calls
      /\ Known /\ Pages /\ ServiceFits /\ ActsFor(Service) /\ StateFits
      /\ \A c \in Calls : Is(c, {"passkey"}) => isPasskeyLoading
  BY CallFacts, PageFacts, ServiceIsJob DEF Undisturbed, Alone
<1>1. Running(Service)
  BY <1>0 DEF MailOpened, Running, CallFits
<1>2. /\ \A d \in Jobs \ {Service} : Quietly(d)
      /\ Service \in Calls => state \in Home(call[Service].kind) /\ call[Service].kind \in OfScreens
  BY <1>1, Solo, ServiceIsJob
<1>3. \A d \in Jobs \ {Service} : Quietly(d)'
  BY <1>2 DEF MailOpened, Keeps, Quietly
<1>4. Service \in Calls /\ call'[Service].kind # "none" =>
        /\ call'[Service].step # "idle" => (state \in Home(call[Service].kind))'
        /\ call'[Service].kind = "passkey" => isPasskeyLoading'
  BY ServiceIsJob
<1>5. ActsFor(Service)'
  BY DEF MailOpened, ActsFor
<1>6. StateFits'
  BY <1>0, <1>3, ServiceIsJob, AuthenticationAssumption DEF MailOpened, SameState,
    ServiceFits, Known, Quietly, StateFits
<1> QED
  BY <1>3, <1>5, <1>6, OneLeft, ServiceIsJob

LEMMA MailFailsAlone ==
  ASSUME Basics, Undisturbed, ~overlapped, Basics',
         MailFails
  PROVE  Undisturbed'
<1> USE DEF Is, Providers, Connectors
<1>0. /\ CallFits(Service) /\ Signed(Service) /\ call[Service].as \in Someone /\ call[Service].signer \in Someone
      /\ Is(Service, OfMachine) => Service = Service
      /\ Is(Service, OfScreens) => Service \in Calls
      /\ Known /\ Pages /\ ServiceFits /\ ActsFor(Service) /\ StateFits
      /\ \A c \in Calls : Is(c, {"passkey"}) => isPasskeyLoading
  BY CallFacts, PageFacts, ServiceIsJob DEF Undisturbed, Alone
<1>1. Running(Service)
  BY <1>0 DEF MailFails, Running, CallFits
<1>2. /\ \A d \in Jobs \ {Service} : Quietly(d)
      /\ Service \in Calls => state \in Home(call[Service].kind) /\ call[Service].kind \in OfScreens
  BY <1>1, Solo, ServiceIsJob
<1>3. \A d \in Jobs \ {Service} : Quietly(d)'
  BY <1>2 DEF MailFails, Over, Keeps, Quietly
<1>4. Service \in Calls /\ call'[Service].kind # "none" =>
        /\ call'[Service].step # "idle" => (state \in Home(call[Service].kind))'
        /\ call'[Service].kind = "passkey" => isPasskeyLoading'
  BY ServiceIsJob
<1>5. ActsFor(Service)'
  BY IdleRecord DEF MailFails, Over, ActsFor
<1>6. StateFits'
  BY <1>0, <1>3, IdleRecord, ServiceIsJob DEF MailFails, Over, SameState, SamePage,
    SameRest, ServiceFits, Quietly, StateFits
<1> QED
  BY <1>3, <1>5, <1>6, OneLeft, ServiceIsJob

LEMMA MailDoneAlone ==
  ASSUME Basics, Undisturbed, ~overlapped, Basics',
         MailDone
  PROVE  Undisturbed'
<1> USE DEF Is, Providers, Connectors
<1>0. /\ CallFits(Service) /\ Signed(Service) /\ call[Service].as \in Someone /\ call[Service].signer \in Someone
      /\ Is(Service, OfMachine) => Service = Service
      /\ Is(Service, OfScreens) => Service \in Calls
      /\ Known /\ Pages /\ ServiceFits /\ ActsFor(Service) /\ StateFits
      /\ \A c \in Calls : Is(c, {"passkey"}) => isPasskeyLoading
  BY CallFacts, PageFacts, ServiceIsJob DEF Undisturbed, Alone
<1>1. Running(Service)
  BY DEF MailDone, Running
<1>2. /\ \A d \in Jobs \ {Service} : Quietly(d)
      /\ Service \in Calls => state \in Home(call[Service].kind) /\ call[Service].kind \in OfScreens
  BY <1>1, Solo, ServiceIsJob
<1>3. \A d \in Jobs \ {Service} : Quietly(d)'
  BY <1>2 DEF MailDone, Over, Keeps, Quietly
<1>4. Service \in Calls /\ call'[Service].kind # "none" =>
        /\ call'[Service].step # "idle" => (state \in Home(call[Service].kind))'
        /\ call'[Service].kind = "passkey" => isPasskeyLoading'
  BY ServiceIsJob
<1>5. ActsFor(Service)'
  BY IdleRecord DEF MailDone, Over, ActsFor
<1>6. StateFits'
  BY <1>0, <1>3, IdleRecord, ServiceIsJob DEF MailDone, Over, SameState, SamePage,
    SameRest, Signed, ServiceFits, Quietly, StateFits, ProviderDone
<1> QED
  BY <1>3, <1>5, <1>6, OneLeft, ServiceIsJob

LEMMA MailEndsAlone ==
  ASSUME Basics, Undisturbed, ~overlapped, Basics',
         NEW s, NEW who \in Someone, MailEnds(s, who)
  PROVE  Undisturbed'
<1> USE DEF Is, Providers, Connectors
<1>0. /\ CallFits(Service) /\ Signed(Service) /\ call[Service].as \in Someone /\ call[Service].signer \in Someone
      /\ Is(Service, OfMachine) => Service = Service
      /\ Is(Service, OfScreens) => Service \in Calls
      /\ Known /\ Pages /\ ServiceFits /\ ActsFor(Service) /\ StateFits
      /\ \A c \in Calls : Is(c, {"passkey"}) => isPasskeyLoading
  BY CallFacts, PageFacts, ServiceIsJob DEF Undisturbed, Alone
<1>2. \A d \in Jobs \ {Service} : Quietly(d)
  BY <1>0, NobodyCalls DEF MailEnds, Pages
<1>3. \A d \in Jobs \ {Service} : Quietly(d)'
  BY <1>2 DEF MailEnds, Invokes, Keeps, Quietly
<1>4. Service \in Calls /\ call'[Service].kind # "none" =>
        /\ call'[Service].step # "idle" => (state \in Home(call[Service].kind))'
        /\ call'[Service].kind = "passkey" => isPasskeyLoading'
  BY ServiceIsJob
<1>5. ActsFor(Service)'
  BY IdleRecord DEF MailEnds, Invokes, Invoke, ActsFor
<1>6. StateFits'
  BY <1>0, <1>2, IdleRecord, ServiceIsJob DEF MailEnds, Invokes, Invoke, Known, Home,
    SignedIn, Quietly, StateFits, ProviderDone
<1> QED
  BY <1>3, <1>5, <1>6, OneLeft, ServiceIsJob

LEMMA BeginsAlone ==
  ASSUME Basics, Undisturbed, ~overlapped, ~overlapped', Basics',
         NEW j \in Calls, NEW kind \in OfScreens, NEW a \in Someone, Begins(j, kind, a)
  PROVE  Undisturbed'
<1> USE DEF Is, Providers, Connectors
<1>0. /\ Known /\ Pages /\ ServiceFits /\ StateFits
      /\ j \in Jobs /\ j # Service
      /\ \A c \in Calls : Is(c, {"passkey"}) => isPasskeyLoading
  BY PageFacts, ServiceIsJob DEF Undisturbed, Alone
<1>1. \A d \in Calls : Quietly(d)
  <2>1. \A d \in Calls : ~Running(d)
    BY DEF Begins
  <2> QED
    BY <2>1, CallFacts, ServiceIsJob DEF CallFits, Running, Quietly
<1>2. Quietly(Service)
  BY HomeIsQuiet DEF Begins
<1>3. \A d \in Jobs \ {j} : Quietly(d)'
  BY <1>1, <1>2 DEF Begins, Keeps, Quietly, Jobs
<1>4. j \in Calls /\ call'[j].kind # "none" =>
        /\ call'[j].step # "idle" => (state \in Home(call[j].kind))'
        /\ call'[j].kind = "passkey" => isPasskeyLoading'
  <2>1. call'[j].kind = kind /\ state' = state /\ state \in Home(kind)
    BY DEF Begins, SameState
  <2>2. kind = "passkey" => isPasskeyLoading'
    BY DEF Begins
  <2> QED
    BY <2>1, <2>2
<1>5. ActsFor(j)'
  BY <1>0 DEF Begins, SameState, ActsFor, StateFits, Home
<1>6. StateFits'
  <2>1. ASSUME NEW c \in Calls, Is(c, {"addPasskey", "addPhrase"})'
        PROVE  (call[c].signer = authSession /\ call[c].step \in {"profile", "store"})'
    <3>1. c = j
      BY <1>3, <2>1, ServiceIsJob DEF Quietly
    <3>2. call'[j].kind = kind /\ call'[j].signer = agent /\ state \in Home(kind)
          /\ call'[j].step = IF kind \in Connectors THEN "prove" ELSE "profile"
      BY DEF Begins
    <3>3. kind \in {"addPasskey", "addPhrase"} /\ state \in SignedIn
      BY <2>1, <3>1, <3>2 DEF Home, SignedIn
    <3> QED
      BY <1>0, <3>1, <3>3 DEF Begins, SameState, StateFits
  <2>2. Quietly(Service)'
    BY <1>3, ServiceIsJob
  <2>3. UNCHANGED <<state, authSession, email, mailbox, agent, session, anchor, allowed>>
        /\ call'[Service] = call[Service]
    BY ServiceIsJob DEF Begins, SameState, SameMail, SamePage, SameRest, Keeps
  <2> QED
    BY <1>0, <2>1, <2>3 DEF StateFits, ProviderDone
<1> QED
  BY <1>0, <1>3, <1>4, <1>5, <1>6, OneLeft

LEMMA StillAlone ==
  ASSUME Basics, Undisturbed, ~overlapped, ~overlapped', Basics',
         Rests \/ \E to \in Screens \cup {"End"} : Moves(to)
  PROVE  Undisturbed'
<1> USE DEF Is
<1>1. \A d \in Jobs : call'[d] = call[d]
  BY DEF Rests, Moves
<1>2. /\ email' = email /\ mailbox' = mailbox /\ agent' = agent /\ session' = session
      /\ anchor' = anchor /\ authSession' = authSession /\ allowed' = allowed
      /\ isPasskeyLoading' = isPasskeyLoading
  BY DEF Rests, Moves, SameState, SameMail, SamePage, SameRest, SameLoading
<1>3. Alone /\ (\A d \in Jobs : ActsFor(d)) /\ StateFits
  BY DEF Undisturbed
<1>4. ASSUME NEW c \in Calls, Running(c)
      PROVE  state' \in Home(call[c].kind)
  <2>1. state \in Home(call[c].kind) /\ call[c].kind \in OfScreens
    BY <1>4, Solo, ServiceIsJob
  <2>2. CASE Rests
    BY <2>1, <2>2 DEF Rests, SameState
  <2>3. CASE \E to \in Screens \cup {"End"} : Moves(to)
    <3>1. PICK to \in Screens \cup {"End"} : Moves(to)
      BY <2>3
    <3>2. call[c].kind = "passkey"
      BY <1>4, <2>1, <3>1, KindsOf DEF Moves, NoneRuns, Kinds, Connectors
    <3> QED
      BY <1>3, <2>1, <3>1, <3>2 DEF Moves, Alone
  <2> QED
    BY <2>2, <2>3
<1>5. Alone'
  BY <1>1, <1>2, <1>3, <1>4, ServiceIsJob DEF Alone, Running
<1>6. \A d \in Jobs : ActsFor(d)'
  BY <1>1, <1>2, <1>3 DEF ActsFor
<1>7. StateFits'
  <2>1. /\ state' = "check2FA" => state = "check2FA"
        /\ state' = "TwoFA" => state = "TwoFA"
        /\ state' \in SignedIn => state \in SignedIn
    BY DEF Rests, Moves, SameState, Screens
  <2> QED
    BY <1>1, <1>2, <1>3, <2>1, ServiceIsJob DEF StateFits, ProviderDone
<1> QED
  BY <1>5, <1>6, <1>7 DEF Undisturbed

LEMMA StepAlone ==
  ASSUME Basics, Undisturbed, Shaped, Basics'
  PROVE  Undisturbed'
<1>1. CASE overlapped'
  BY <1>1 DEF Undisturbed
<1>2. CASE ~overlapped'
  <2>0. ~overlapped
    BY <1>2, Monotone
  <2>1. ASSUME UserStep PROVE Undisturbed'
    BY <1>2, <2>0, <2>1, BeginsAlone, StillAlone, AsksProviderAlone DEF UserStep
  <2>2. ASSUME MailStep PROVE Undisturbed'
    BY <2>0, <2>2, StartsMailAlone, MailMovesAlone, MailEndsAlone, MailOpenedAlone,
      MailFailsAlone, MailDoneAlone DEF MailStep
  <2>3. ASSUME NEW j \in Jobs, CallStep(j) PROVE Undisturbed'
    BY <2>0, <2>3, ProvesAlone, SetsProfileAlone, LeavesProfileAlone, StoresNextAlone,
      DevicesNextAlone, PassesCheckAlone, WipesAlone, CreatesNextAlone, CreatesAlone,
      SetsAnchorAlone, PublishesAlone, PublishesFirstAlone, AsksFactorAlone, DropsAlone,
      SignsOutAlone DEF CallStep
  <2>4. ASSUME NEW j \in Jobs, MachineStep(j) PROVE Undisturbed'
    BY <2>0, <2>4, ChecksNextAlone, SignsInAlone, AdvancesAlone DEF MachineStep
  <2>5. ASSUME GiveUpStep PROVE Undisturbed'
    BY <2>0, <2>5, GivesUpAlone DEF GiveUpStep
  <2> QED
    BY <1>2, <2>0, <2>1, <2>2, <2>3, <2>4, <2>5, StillAlone DEF Shaped
<1> QED
  BY <1>1, <1>2

-----------------------------------------------------------------------------
(* The theorems *)

LEMMA InitInvariant ==
  ASSUME Init
  PROVE  IInv
<1> DEFINE first == [Idle EXCEPT !.kind = "wallets", !.step = "finish"]
<1>1. /\ first \in CallRecords /\ first.kind = "wallets" /\ first.step = "finish"
      /\ first.as = None /\ first.signer = None
  BY DEF Idle, CallRecords, Kinds, Steps, Someone
<1> HIDE DEF first
<1>2. call = [j \in Jobs |-> IF j = Service THEN first ELSE Idle]
  BY DEF Init, first
<1>3. /\ call \in [Jobs -> CallRecords] /\ call[Service] = first
      /\ \A j \in Jobs \ {Service} : call[j] = Idle
  BY <1>1, <1>2, ServiceIsJob, IdleRecord
<1>4. \A j \in Jobs : CallFits(j) /\ Signed(j)
  BY <1>1, <1>3, IdleRecord, ServiceIsJob DEF CallFits, Signed, Is, OfMachine, Connectors,
    Providers
<1>5. ServiceFits /\ Known
  BY <1>1, <1>3, AuthenticationAssumption DEF Init, ServiceFits, Known, Is
<1>6. TypeOK
  <2>1. Running(Service)
    BY <1>1, <1>3 DEF Running
  <2>2. devices \in SUBSET (Accounts \X {"passkey", "phrase"})
    BY AuthenticationAssumption DEF Init
  <2>3. Pages
    BY AuthenticationAssumption DEF Init, Pages, Invoking, Someone
  <2>4. Sorts
    <3>1. keyPair = FALSE /\ wallets = FALSE /\ wiped = FALSE /\ faults = 0
      BY DEF Init
    <3>2. keyPair \in BOOLEAN /\ wallets \in BOOLEAN /\ wiped \in BOOLEAN
      BY <3>1
    <3>3. faults \in 0..MaxFaults
      BY <3>1, AuthenticationAssumption
    <3> QED
      BY <1>3, <2>2, <3>2, <3>3 DEF Sorts
  <2>5. state \in Invoking
    BY DEF Init, Invoking
  <2> QED
    BY <2>1, <2>3, <2>4, <2>5 DEF TypeOK, Pages, Sorts, CallRecords
<1>7. Undisturbed
  BY <1>1, <1>3, IdleRecord, ServiceIsJob DEF Init, Undisturbed, Alone, ActsFor,
    StateFits, Running, Is, Providers, Connectors, SignedIn
<1> QED
  BY <1>4, <1>5, <1>6, <1>7 DEF IInv

LEMMA NextInvariant ==
  ASSUME IInv, [Next]_vars
  PROVE  IInv'
<1>1. Basics /\ Undisturbed
  BY DEF IInv, Basics
<1>2. Basics' /\ Undisturbed'
  BY <1>1, StepTypes, StepKinds, StepAlone
<1> QED
  BY <1>2 DEF IInv, Basics

\* What is known of calls, services, accounts and the page in every state.
THEOREM Invariant == Spec => []IInv
  BY InitInvariant, NextInvariant, PTL DEF Spec

\* Every variable keeps its sort; the e-mail machine runs on its screen only,
\* and a service runs whenever the state of one of the machines is one that
\* invokes a service, and in no other: the machine never waits for nothing.
THEOREM TypeCorrect == Spec => []TypeOK
<1>1. IInv => TypeOK
  BY DEF IInv
<1> QED
  BY <1>1, Invariant, PTL

\* Past the sign-in the machine, authState and the shared agent stand for the
\* same account, when no call of a screen met another one.
THEOREM EndsAsShown == Spec => []EndsSignedIn
<1>1. IInv => EndsSignedIn
  BY DEF IInv, Undisturbed, StateFits, EndsSignedIn
<1> QED
  BY <1>1, Invariant, PTL

\* No account with a second factor is published, and none gets past the
\* sign-in, before its own device or phrase has signed.
THEOREM FactorAsked == Spec => []SecondFactorIsAsked
<1>1. IInv => SecondFactorIsAsked
  BY DEF IInv, Undisturbed, StateFits, Known, SecondFactorIsAsked
<1> QED
  BY <1>1, Invariant, PTL

-----------------------------------------------------------------------------
(* Why the machine stops *)

\* An account that a provider has signed in has been found or created.
EnrolledCall(j) ==
  Is(j, Providers) /\ call[j].step \in {"wipe", "set", "publish", "finish"} =>
    call[j].as \in registered

EnrolledPage ==
  /\ email = "Authenticated" => mailbox \in registered
  /\ state = "check2FA" => authSession \in registered

Enrolled == EnrolledPage /\ \A j \in Jobs : EnrolledCall(j)

\* Unless a profile did not fit KEY_ANCHOR, the agent goes on to sign for it.
AgentFollows ==
  /\ state = "check2FA" => agent = authSession
  /\ email = "Authenticated" => agent = mailbox
  /\ Is(Service, Providers) /\ call[Service].step = "finish" => agent = call[Service].as

Follows ==
  /\ \A j \in Jobs : call[j].step = "wipe" => wiped
  /\ ~overlapped /\ ~wiped => AgentFollows

LEMMA EnrolledGoes ==
  ASSUME Enrolled, NEW j \in Jobs, Keeps(j), registered \subseteq registered',
         EnrolledCall(j)', EnrolledPage'
  PROVE  Enrolled'
<1>1. ASSUME NEW d \in Jobs, d # j
      PROVE  EnrolledCall(d)'
  BY DEF Keeps, Enrolled, EnrolledCall, Is
<1> QED
  BY <1>1 DEF Enrolled

LEMMA EnrolledEnters ==
  ASSUME Enrolled, NEW j \in Jobs, NEW s, NEW who, NEW id, Invokes(j, s, who, id),
         registered' = registered, EnrolledPage'
  PROVE  Enrolled'
<1>1. call'[Service].kind \notin Providers
  BY IdleRecord DEF Invokes, Invoke, Providers
<1>2. ASSUME NEW d \in Jobs
      PROVE  EnrolledCall(d)'
  <2>1. CASE d = Service
    BY <1>1, <2>1 DEF EnrolledCall, Is
  <2>2. CASE d = j /\ d # Service
    BY <2>2, IdleRecord DEF Invokes, EnrolledCall
  <2>3. CASE d # j /\ d # Service
    BY <2>3 DEF Invokes, Enrolled, EnrolledCall, Is
  <2> QED
    BY <2>1, <2>2, <2>3
<1> QED
  BY <1>2 DEF Enrolled

LEMMA EnrolledByCall ==
  ASSUME Basics, Enrolled, NEW j \in Jobs, CallStep(j)
  PROVE  Enrolled'
<1>0. /\ EnrolledPage /\ EnrolledCall(j) /\ CallFits(j) /\ Signed(j) /\ Pages
      /\ Is(j, OfScreens) => j # Service
  BY CallFacts, PageFacts, ServiceIsJob DEF Enrolled
<1>1. ASSUME GoesOn, Keeps(j), registered \subseteq registered', EnrolledCall(j)'
      PROVE  Enrolled'
  <2>1. EnrolledPage'
    BY <1>0, <1>1 DEF GoesOn, SameState, SameMail, EnrolledPage
  <2> QED
    BY <1>1, <2>1, EnrolledGoes
<1> USE DEF To, EnrolledCall, Is, SameRest
<1>2. ASSUME NEW s \in Steps, Proves(j, s)
      PROVE  Enrolled'
  BY <1>0, <1>1, <1>2 DEF Proves, Providers, Connectors, CallFits
<1>3. ASSUME NEW id \in Someone, SetsProfile(j, id)
      PROVE  Enrolled'
  BY <1>0, <1>1, <1>3 DEF SetsProfile, Profiled, Signed
<1>4. ASSUME NEW id \in Someone, LeavesProfile(j, id)
      PROVE  Enrolled'
  BY <1>0, <1>1, <1>4 DEF LeavesProfile, Profiled, Signed
<1>5. ASSUME NEW id \in Someone, StoresNext(j, id) \/ DevicesNext(j, id)
      PROVE  Enrolled'
  BY <1>1, <1>5 DEF StoresNext, DevicesNext, Profiled
<1>6. ASSUME NEW id \in Someone, PassesCheck(j, id)
      PROVE  Enrolled'
  <2>1. EnrolledPage'
    BY <1>0, <1>6 DEF PassesCheck, Invokes, Profiled, SameMail, EnrolledPage
  <2> QED
    BY <1>6, <2>1, EnrolledEnters DEF PassesCheck, Profiled
<1>7. CASE Wipes(j)
  BY <1>0, <1>1, <1>7 DEF Wipes, Signed
<1>8. CASE CreatesNext(j)
  BY <1>1, <1>8 DEF CreatesNext
<1>9. CASE Creates(j)
  BY <1>0, <1>1, <1>9 DEF Creates, Signed
<1>10. CASE SetsAnchor(j)
  BY <1>0, <1>1, <1>10 DEF SetsAnchor
<1>11. ASSUME NEW s \in Steps, Publishes(j, s)
       PROVE  Enrolled'
  BY <1>0, <1>1, <1>11 DEF Publishes
<1>12. CASE PublishesFirst(j)
  BY <1>1, <1>12 DEF PublishesFirst, Providers
<1>13. CASE AsksFactor(j)
  <2>1. EnrolledPage'
    BY <1>0, <1>13 DEF AsksFactor, Invokes, SameMail, EnrolledPage
  <2> QED
    BY <1>13, <2>1, EnrolledEnters DEF AsksFactor
<1>14. CASE Drops(j) \/ SignsOut(j)
  <2>1. EnrolledPage' /\ EnrolledCall(j)'
    BY <1>0, <1>14, IdleRecord DEF Drops, SignsOut, Over, SameState, SameMail,
      EnrolledPage
  <2> QED
    BY <1>14, <2>1, EnrolledGoes DEF Drops, SignsOut, Over
<1> QED
  BY <1>2, <1>3, <1>4, <1>5, <1>6, <1>7, <1>8, <1>9, <1>10, <1>11, <1>12, <1>13, <1>14 DEF
    CallStep

LEMMA EnrolledByMachine ==
  ASSUME Basics, Enrolled, (\E j \in Jobs : MachineStep(j)) \/ GiveUpStep
  PROVE  Enrolled'
<1>0. EnrolledPage
  BY DEF Enrolled
<1>1. ASSUME NEW j \in Jobs, ChecksNext(j)
      PROVE  Enrolled'
  <2>1. EnrolledPage'
    BY <1>1 DEF ChecksNext, Enters, Invokes, SameMail, SameRest, Enrolled, EnrolledPage,
      EnrolledCall, Is, Providers
  <2> QED
    BY <1>1, <2>1, EnrolledEnters DEF ChecksNext, Enters, SameRest
<1>2. ASSUME NEW j \in Jobs, NEW s, NEW who, Enters(j, s, who), s # "check2FA"
      PROVE  Enrolled'
  <2>1. EnrolledPage'
    BY <1>0, <1>2 DEF Enters, Invokes, SameMail, SameRest, EnrolledPage
  <2> QED
    BY <1>2, <2>1, EnrolledEnters DEF Enters, SameRest
<1>3. ASSUME NEW j \in Jobs, NEW s \in SignedIn, SignsIn(j, s) \/ Advances(j, s)
      PROVE  Enrolled'
  BY <1>2, <1>3 DEF SignsIn, Advances, SignedIn
<1>4. CASE GiveUpStep
  BY <1>2, <1>4, ServiceIsJob DEF GiveUpStep, GivesUp
<1> QED
  BY <1>1, <1>3, <1>4 DEF MachineStep

LEMMA EnrolledByMail ==
  ASSUME Basics, Enrolled, MailStep
  PROVE  Enrolled'
<1>0. /\ EnrolledPage /\ EnrolledCall(Service) /\ CallFits(Service) /\ Signed(Service)
      /\ Known /\ Pages /\ ServiceFits
  BY CallFacts, PageFacts, ServiceIsJob DEF Enrolled
<1> USE DEF SameRest, SameState
<1>1. ASSUME Keeps(Service), registered' = registered, EnrolledPage', EnrolledCall(Service)'
      PROVE  Enrolled'
  BY <1>1, EnrolledGoes, ServiceIsJob
<1>2. ASSUME NEW a \in Accounts, StartsMail(a)
      PROVE  Enrolled'
  BY <1>1, <1>2 DEF StartsMail, MailCall, EnrolledPage, EnrolledCall, Is, Providers
<1>3. ASSUME NEW s \in EmailStates, NEW kind \in Kinds, MailMoves(s, kind)
      PROVE  Enrolled'
  BY <1>1, <1>3 DEF MailMoves, MailCall, EnrolledPage, EnrolledCall, Is, Providers
<1>4. CASE MailOpened
  BY <1>0, <1>1, <1>4 DEF MailOpened, EnrolledPage, EnrolledCall
<1>5. CASE MailFails
  BY <1>0, <1>1, <1>5, IdleRecord DEF MailFails, Over, EnrolledPage, EnrolledCall
<1>6. CASE MailDone
  BY <1>0, <1>1, <1>6, IdleRecord DEF MailDone, Over, EnrolledPage, EnrolledCall, Signed,
    Is, Providers
<1>7. ASSUME NEW s \in {"AuthSelection", "check2FA"}, NEW who \in Someone, MailEnds(s, who)
      PROVE  Enrolled'
  <2>1. EnrolledPage'
    BY <1>0, <1>7 DEF MailEnds, Invokes, EnrolledPage
  <2> QED
    BY <1>7, <2>1, EnrolledEnters, ServiceIsJob DEF MailEnds
<1> QED
  BY <1>2, <1>3, <1>4, <1>5, <1>6, <1>7 DEF MailStep

LEMMA EnrolledStep ==
  ASSUME Basics, Enrolled, Shaped
  PROVE  Enrolled'
<1> USE DEF SameRest, SameState, SameMail
<1>0. EnrolledPage /\ Pages
  BY PageFacts DEF Enrolled
<1>1. ASSUME NEW c \in Calls, NEW kind \in OfScreens, NEW a \in Someone, Begins(c, kind, a)
      PROVE  Enrolled'
  <2>1. EnrolledPage' /\ EnrolledCall(c)'
    BY <1>0, <1>1 DEF Begins, EnrolledPage, EnrolledCall
  <2> QED
    BY <1>1, <2>1, EnrolledGoes, ServiceIsJob DEF Begins
<1>2. ASSUME \A d \in Jobs : call'[d] = call[d], registered' = registered, SameMail,
             authSession' = authSession, state' = "check2FA" => state = "check2FA"
      PROVE  Enrolled'
  BY <1>2 DEF Enrolled, EnrolledPage, EnrolledCall, Is
<1>3. ASSUME NEW to \in Screens \cup {"End"}, Moves(to)
      PROVE  Enrolled'
  BY <1>2, <1>3 DEF Moves, Screens
<1>4. CASE Rests
  BY <1>2, <1>4 DEF Rests
<1>5. ASSUME NEW kind \in {"google", "ii"}, NEW a \in Accounts, AsksProvider(kind, a)
      PROVE  Enrolled'
  <2>1. EnrolledPage' /\ EnrolledCall(Service)'
    BY <1>0, <1>5 DEF AsksProvider, EnrolledPage, EnrolledCall
  <2> QED
    BY <1>5, <2>1, EnrolledGoes, ServiceIsJob DEF AsksProvider
<1> QED
  BY <1>1, <1>3, <1>4, <1>5, EnrolledByCall, EnrolledByMachine, EnrolledByMail DEF Shaped,
    UserStep

\* What the calls of a step keep, and what marks a wipe.
LEMMA WipesAreMarked ==
  ASSUME Basics, [Next]_vars
  PROVE  /\ wiped => wiped'
         /\ \A j \in Jobs : call'[j].step = "wipe" => call[j].step = "wipe" \/ wiped'
<1> DEFINE Marks == /\ wiped => wiped'
                    /\ \A j \in Jobs : call'[j].step = "wipe" => call[j].step = "wipe" \/ wiped'
<1>0. ASSUME wiped' = wiped, NEW j \in Jobs, Keeps(j), call'[j].step # "wipe"
      PROVE  Marks
  BY <1>0 DEF Keeps
<1>1. ASSUME wiped' = wiped, NEW j \in Jobs, NEW s, NEW who, NEW id, Enter(j, s, who, id)
      PROVE  Marks
  <2>1. Invokes(j, s, who, id)
    BY <1>1, Entered DEF Basics
  <2>2. call'[Service].step # "wipe" /\ (j # Service => call'[j].step # "wipe")
    BY <2>1, IdleRecord DEF Invokes, Invoke
  <2> QED
    BY <1>1, <2>1, <2>2 DEF Invokes
<1>2. ASSUME wiped' = wiped, call' = call
      PROVE  Marks
  BY <1>2
<1>3. ASSUME wiped' = wiped, NEW j \in Jobs, call' = [call EXCEPT ![j] = Idle]
      PROVE  Marks
  BY <1>3, IdleRecord
<1>4. ASSUME wiped' = wiped, NEW j \in Jobs, NEW s \in Steps \ {"wipe"}, Step(j, s)
      PROVE  Marks
  BY <1>0, <1>4, Stepped DEF Basics, To
<1>5. ASSUME wiped' = wiped, NEW j \in Jobs, NEW s \in Steps \ {"wipe"}, NEW id \in Someone,
             Ask(j, s, id)
      PROVE  Marks
  BY <1>0, <1>5, Asked DEF Basics, To
<1>6. \A s \in {"profile", "create", "set", "publish", "devices", "store", "finish"} :
        s \in Steps \ {"wipe"}
  BY DEF Steps
<1>7. /\ None \in Someone /\ agent \in Someone
      /\ \A j \in Jobs : call[j].as \in Someone /\ call[j].signer \in Someone
  BY DEF Basics, TypeOK, Someone
<1> SUFFICES Marks
  OBVIOUS
<1> HIDE DEF Marks
<1>8. ASSUME NEW j \in Jobs, NEW event, NEW who, NEW id, wiped' = wiped,
             Receive(j, event, who, id)
      PROVE  Marks
  BY <1>1, <1>3, <1>8 DEF Receive
<1>9. ASSUME NEW j \in Jobs, NEW id \in Someone, wiped' = wiped, Profile(j, id)
      PROVE  Marks
  BY <1>1, <1>4, <1>5, <1>6, <1>7, <1>9 DEF Profile, AskAs
<1>10. ASSUME NEW kind, NEW a, NEW s \in Steps \ {"wipe"}, Begin(kind, a, s)
       PROVE  Marks
  <2>1. PICK c \in Calls :
          call' = [call EXCEPT ![c] = [kind |-> kind, step |-> s, as |-> a, signer |-> agent]]
    BY <1>10 DEF Begin
  <2>2. /\ c \in Jobs /\ Keeps(c)
        /\ call'[c] = [kind |-> kind, step |-> s, as |-> a, signer |-> agent]
    BY <2>1, Updated, ServiceIsJob DEF Basics
  <2>3. call'[c].step = s
    BY <2>2
  <2>4. wiped' = wiped
    BY <1>10 DEF Begin
  <2> QED
    BY <1>0, <2>2, <2>4
<1>11. "prove" \in Steps \ {"wipe"} /\ "profile" \in Steps \ {"wipe"}
  BY DEF Steps
<1>12. ASSUME NEW a, \/ onLoginWithPasskey(a) \/ onSignUpWithPasskey(a) \/ onRecover(a)
                     \/ handleOtherOptionsAuth(a)
       PROVE  Marks
  BY <1>10, <1>11, <1>12 DEF onLoginWithPasskey, onSignUpWithPasskey, onRecover,
    handleOtherOptionsAuth
<1>13. CASE handle2FAAuth \/ onAdd \/ onDone
  <2>1. CASE handle2FAAuth
    BY <1>10, <1>11, <2>1 DEF handle2FAAuth
  <2>2. CASE onAdd
    BY <1>10, <1>11, <2>2 DEF onAdd
  <2>3. CASE onDone
    BY <1>10, <1>11, <2>3 DEF onDone
  <2> QED
    BY <1>13, <2>1, <2>2, <2>3
<1>14. CASE Navigate \/ UNCHANGED vars
  <2>1. wiped' = wiped /\ call' = call
    BY <1>14 DEF Navigate, Leave, vars, ghosts
  <2> QED
    BY <1>2, <2>1
<1>15. ASSUME NEW kind \in {"google", "ii"}, NEW a \in Accounts, SelectProvider(kind, a)
       PROVE  Marks
  <2>1. /\ kind \in Kinds /\ a \in Someone /\ wiped' = wiped
        /\ call' = [call EXCEPT ![Service] =
                      [Idle EXCEPT !.kind = kind, !.step = "prove", !.as = a]]
    BY <1>15 DEF SelectProvider, Kinds, Providers, Someone, ghosts
  <2>2. call'[Service].step = "prove" /\ Keeps(Service)
    BY <1>11, <2>1, Called DEF Basics
  <2> QED
    BY <1>0, <2>1, <2>2, ServiceIsJob
<1>16. ASSUME NEW s, NEW kind \in {"send", "poll", "none"}, NEW step \in {"finish", "idle"},
              Mail(s, kind, step), mailbox' \in Someone
       PROVE  Marks
  <2>1. /\ wiped' = wiped /\ kind \in Kinds /\ step \in Steps \ {"wipe"}
        /\ \/ call' = [call EXCEPT ![Service] = Idle]
           \/ call' = [call EXCEPT ![Service] =
                         [Idle EXCEPT !.kind = kind, !.step = step, !.as = mailbox']]
    BY <1>16 DEF Mail, ghosts, Kinds, Steps
  <2>2. CASE call' = [call EXCEPT ![Service] = Idle]
    BY <1>3, <2>1, <2>2, ServiceIsJob
  <2>3. CASE call' = [call EXCEPT ![Service] =
                        [Idle EXCEPT !.kind = kind, !.step = step, !.as = mailbox']]
    <3>1. call'[Service].step = step /\ Keeps(Service)
      BY <1>16, <2>1, <2>3, Called DEF Basics
    <3> QED
      BY <1>0, <2>1, <3>1, ServiceIsJob
  <2> QED
    BY <2>1, <2>2, <2>3
<1>17. CASE EmailStep
  <2>0. mailbox \in Someone /\ Accounts \subseteq Someone
    BY DEF Basics, TypeOK, Someone
  <2>1. ASSUME NEW a \in Accounts, SelectEmail(a)
        PROVE  Marks
    BY <1>16, <2>0, <2>1 DEF SelectEmail
  <2>2. CASE sendVerificationEmail \/ checkEmailVerificationFails \/ Resend
    <3>1. CASE sendVerificationEmail
      BY <1>16, <2>0, <3>1 DEF sendVerificationEmail
    <3>2. CASE checkEmailVerificationFails
      BY <1>16, <2>0, <3>2 DEF checkEmailVerificationFails
    <3>3. CASE Resend
      BY <1>16, <2>0, <3>3 DEF Resend
    <3> QED
      BY <2>2, <3>1, <3>2, <3>3
  <2>3. ASSUME NEW who, EmailEnds(who)
        PROVE  Marks
    BY <1>1, <2>3, ServiceIsJob DEF EmailEnds, ghosts
  <2>4. CASE checkEmailVerification
    <3>1. /\ wiped' = wiped
          /\ call' = [call EXCEPT ![Service] =
               [kind |-> "email", step |-> "profile", as |-> mailbox, signer |-> mailbox]]
      BY <2>4 DEF checkEmailVerification, ghosts
    <3>2. /\ Keeps(Service)
          /\ call'[Service] =
               [kind |-> "email", step |-> "profile", as |-> mailbox, signer |-> mailbox]
      BY <3>1, Updated, ServiceIsJob DEF Basics
    <3>3. call'[Service].step = "profile"
      BY <3>2
    <3> QED
      BY <1>0, <3>1, <3>2, ServiceIsJob
  <2>5. CASE sendVerificationEmailFails \/ EmailBack \/ ContinueVerified
    BY <2>3, <2>5 DEF sendVerificationEmailFails, EmailBack, ContinueVerified
  <2> QED
    BY <1>17, <2>1, <2>2, <2>4, <2>5 DEF EmailStep
<1>18. ASSUME NEW j \in Jobs, Prove(j)
       PROVE  Marks
  BY <1>5, <1>6, <1>7, <1>18 DEF Prove, AskAs
<1>19. ASSUME NEW j \in Jobs, fetchProfile(j)
       PROVE  Marks
  <2>1. CASE Mismatch(j)
    <3>1. wiped'
      BY <1>19, <2>1 DEF fetchProfile
    <3> QED
      BY <3>1 DEF Marks
  <2>2. CASE ~Mismatch(j)
    BY <1>7, <1>9, <1>19, <2>2 DEF fetchProfile
  <2> QED
    BY <2>1, <2>2
<1>20. ASSUME NEW j \in Jobs, reset(j)
       PROVE  Marks
  BY <1>7, <1>9, <1>20 DEF reset, ghosts
<1>21. ASSUME NEW j \in Jobs, createNFIDProfile(j) \/ createUserIdData(j)
       PROVE  Marks
  BY <1>4, <1>5, <1>6, <1>7, <1>21 DEF createNFIDProfile, createUserIdData, AskAs, Quiet,
    ghosts
<1>22. ASSUME NEW j \in Jobs, set(j)
       PROVE  Marks
  <2>1. wiped' = wiped
    BY <1>22 DEF set, Quiet, ghosts
  <2>2. CASE Is(j, {"device"})
    <3>1. call' = [call EXCEPT ![j] = Anchoring(call[j], "set", call[j].as)]
      BY <1>22, <2>2 DEF set, Anchoring
    <3>2. call'[j] = Anchoring(call[j], "set", call[j].as) /\ Keeps(j)
      BY <3>1, Updated DEF Basics
    <3>3. call'[j].step = "set"
      <4>1. call[j] \in CallRecords /\ "set" \in Steps /\ call[j].as \in Someone
        BY <1>6, CallFields DEF Basics
      <4> QED
        BY <3>2, <4>1, CallUpdates
    <3> QED
      BY <1>0, <2>1, <3>2, <3>3
  <2>3. CASE ~Is(j, {"device"})
    BY <1>5, <1>6, <1>7, <1>22, <2>1, <2>3 DEF set, AskAs
  <2> QED
    BY <2>2, <2>3
<1>23. ASSUME NEW j \in Jobs, checkIf2FAEnabled(j) \/ createAccessPoint(j) \/ Finish(j)
       PROVE  Marks
  BY <1>1, <1>3, <1>8, <1>23 DEF checkIf2FAEnabled, createAccessPoint, Finish, ghosts
<1>24. ASSUME NEW j \in Jobs, Fails(j)
       PROVE  Marks
  BY <1>1, <1>3, <1>24, ServiceIsJob DEF Fails, Stop, ghosts
<1>25. CASE getAllWalletsFromThisDevice \/ getPlan \/ checkAccount
  <2>1. wiped' = wiped
    BY <1>25 DEF getAllWalletsFromThisDevice, getPlan, checkAccount, Quiet, ghosts
  <2>2. \E s : Enter(Service, s, authSession, agent)
    BY <1>25 DEF getAllWalletsFromThisDevice, getPlan, checkAccount
  <2> QED
    BY <1>1, <2>1, <2>2, ServiceIsJob
<1>26. ASSUME NEW j \in Jobs, Answer(j)
       PROVE  Marks
  BY <1>19, <1>20, <1>21, <1>22, <1>23, <1>24, <1>26 DEF Answer
<1> QED
  BY <1>12, <1>13, <1>14, <1>15, <1>17, <1>18, <1>25, <1>26 DEF Next

\* A call of a screen runs while the sign-in of a provider is not under way.
LEMMA FollowsAside ==
  ASSUME Basics, Undisturbed, ~overlapped, NEW j \in Calls, Running(j), SameState, SameMail,
         call'[Service] = call[Service]
  PROVE  AgentFollows'
<1>1. Quietly(Service) /\ state \in Home(call[j].kind) /\ call[j].kind \in OfScreens
  BY Solo, ServiceIsJob
<1>2. state # "check2FA" /\ state # "EmailAuthentication"
  BY <1>1 DEF Home
<1>3. email = "none"
  BY <1>2, PageFacts DEF Pages
<1> QED
  BY <1>1, <1>2, <1>3 DEF AgentFollows, SameState, SameMail, Quietly

\* A service that goes on.
LEMMA FollowsOn ==
  ASSUME Basics, Running(Service), GoesOn,
         state = "check2FA" => agent' = authSession,
         (Is(Service, Providers) /\ call[Service].step = "finish")' => agent' = call'[Service].as
  PROVE  AgentFollows'
<1>1. email # "Authenticated"
  BY DEF Basics, TypeOK, Invoking
<1> QED
  BY <1>1 DEF AgentFollows, GoesOn, SameState, SameMail

LEMMA FollowsEnters ==
  ASSUME NEW j, NEW s, NEW who, NEW id, Invokes(j, s, who, id),
         s = "check2FA" => id = who, email' # "Authenticated"
  PROVE  AgentFollows'
<1>1. call'[Service].kind \notin Providers
  BY IdleRecord DEF Invokes, Invoke, Providers
<1> QED
  BY <1>1 DEF Invokes, AgentFollows, Is

LEMMA FollowsByCall ==
  ASSUME Basics, Undisturbed, ~overlapped, AgentFollows, NEW j \in Jobs, call[j].step # "wipe",
         CallStep(j)
  PROVE  AgentFollows'
<1> USE DEF Is
<1>0. /\ CallFits(j) /\ Signed(j) /\ ServiceFits /\ ActsFor(j)
      /\ Is(j, OfScreens) => j \in Calls
  BY CallFacts, PageFacts DEF Undisturbed
<1>1. Running(j)
  BY <1>0 DEF CallStep, Proves, SetsProfile, LeavesProfile, StoresNext, DevicesNext,
    PassesCheck, Wipes, CreatesNext, Creates, SetsAnchor, Publishes, PublishesFirst,
    AsksFactor, Drops, SignsOut, Profiled, Running, CallFits
<1>2. CASE j \in Calls
  <2>1. j # Service /\ ~Is(j, {"check"})
    BY <1>0, <1>2, ServiceIsJob, KindsOf DEF CallFits
  <2>2. SameState /\ SameMail /\ call'[Service] = call[Service]
    <3>1. ~AsksFactor(j) /\ \A id \in Someone : ~PassesCheck(j, id)
      BY <1>0, <2>1 DEF AsksFactor, PassesCheck, CallFits
    <3>2. CASE Drops(j) \/ SignsOut(j)
      BY <2>1, <3>2, ServiceIsJob DEF Drops, SignsOut, Over, Keeps
    <3>3. CASE PublishesFirst(j)
      BY <2>1, <3>3, ServiceIsJob DEF PublishesFirst, Keeps, GoesOn
    <3>4. CASE ~Drops(j) /\ ~SignsOut(j) /\ ~PublishesFirst(j)
      <4>1. GoesOn /\ Keeps(j)
        BY <3>1, <3>4 DEF CallStep, Proves, SetsProfile, LeavesProfile, StoresNext,
          DevicesNext, Wipes, CreatesNext, Creates, SetsAnchor, Publishes, To
      <4> QED
        BY <2>1, <4>1, ServiceIsJob DEF Keeps, GoesOn
    <3> QED
      BY <3>2, <3>3, <3>4
  <2> QED
    BY <1>1, <1>2, <2>2, FollowsAside
<1>3. CASE j = Service
  <2>0. /\ ~Is(j, OfScreens) /\ (state = "check2FA" <=> Is(j, {"check"}))
        /\ email # "Authenticated"
    BY <1>0, <1>1, <1>3, ServiceIsJob DEF ServiceFits, Basics, TypeOK, Invoking
  <2> USE DEF To
  <2>1. ASSUME NEW s \in Steps, Proves(j, s)
        PROVE  AgentFollows'
    BY <1>0, <1>1, <1>3, <2>0, <2>1, FollowsOn DEF Proves, Connectors, CallFits
  <2>2. ASSUME NEW id \in Someone, SetsProfile(j, id)
        PROVE  AgentFollows'
    BY <1>1, <1>3, <2>0, <2>2, FollowsOn DEF SetsProfile, Providers
  <2>3. ASSUME NEW id \in Someone, LeavesProfile(j, id)
        PROVE  AgentFollows'
    BY <1>0, <1>1, <1>3, <2>0, <2>3, FollowsOn DEF LeavesProfile, Profiled, Providers,
      ActsFor, Connectors
  <2>4. ASSUME NEW id \in Someone, StoresNext(j, id) \/ DevicesNext(j, id)
        PROVE  AgentFollows'
    BY <1>1, <1>3, <2>4, FollowsOn DEF StoresNext, DevicesNext, Profiled, AgentFollows
  <2>5. ASSUME NEW id \in Someone, PassesCheck(j, id)
        PROVE  AgentFollows'
    BY <2>0, <2>5, FollowsEnters DEF PassesCheck, SameMail
  <2>6. CASE Wipes(j)
    BY <1>1, <1>3, <2>6, FollowsOn DEF Wipes, AgentFollows
  <2>7. CASE CreatesNext(j)
    BY <1>1, <1>3, <2>0, <2>7, FollowsOn DEF CreatesNext, Providers
  <2>8. CASE Creates(j)
    BY <1>0, <1>1, <1>3, <2>0, <2>8, FollowsOn DEF Creates, CallFits, Providers
  <2>9. CASE SetsAnchor(j)
    BY <1>0, <1>1, <1>3, <2>0, <2>9, FollowsOn DEF SetsAnchor, CallFits, Providers,
      Connectors
  <2>10. ASSUME NEW s \in Steps, Publishes(j, s)
         PROVE  AgentFollows'
    BY <1>0, <1>1, <1>3, <2>0, <2>10, FollowsOn DEF Publishes, CallFits, Providers,
      Connectors
  <2>11. CASE AsksFactor(j)
    BY <2>0, <2>11, FollowsEnters DEF AsksFactor, SameMail
  <2>12. ~PublishesFirst(j) /\ ~Drops(j) /\ ~SignsOut(j)
    BY <1>3, <2>0, KindsOf DEF PublishesFirst, Drops, SignsOut
  <2> QED
    BY <2>1, <2>2, <2>3, <2>4, <2>5, <2>6, <2>7, <2>8, <2>9, <2>10, <2>11, <2>12 DEF
      CallStep
<1> QED
  BY <1>2, <1>3 DEF Jobs

LEMMA FollowsByMachine ==
  ASSUME Basics, AgentFollows, (\E j \in Jobs : MachineStep(j)) \/ GiveUpStep
  PROVE  AgentFollows'
<1> USE DEF Is
<1>1. ASSUME NEW j \in Jobs, NEW s, NEW who, Enters(j, s, who),
             Running(Service) \/ email # "Authenticated", s = "check2FA" => agent = who
      PROVE  AgentFollows'
  <2>1. email # "Authenticated"
    BY <1>1 DEF Basics, TypeOK, Invoking
  <2> QED
    BY <1>1, <2>1, FollowsEnters DEF Enters, SameMail
<1>2. ASSUME NEW j \in Jobs, ChecksNext(j)
      PROVE  AgentFollows'
  <2>1. j = Service
    BY <1>2, CallFacts, KindsOf DEF ChecksNext
  <2> QED
    BY <1>1, <1>2, <2>1 DEF ChecksNext, AgentFollows, Running, Providers
<1>3. state # "EmailAuthentication" => email # "Authenticated"
  BY PageFacts DEF Pages
<1>4. ASSUME NEW j \in Jobs, NEW s \in SignedIn, SignsIn(j, s) \/ Advances(j, s)
      PROVE  AgentFollows'
  BY <1>1, <1>3, <1>4 DEF SignsIn, Advances, SignedIn
<1>5. CASE GiveUpStep
  <2>1. Running(Service)
    BY <1>5, CallFacts, ServiceIsJob DEF GiveUpStep, GivesUp, CallFits, Running
  <2> QED
    BY <1>1, <1>5, <2>1, ServiceIsJob DEF GiveUpStep, GivesUp
<1> QED
  BY <1>2, <1>4, <1>5 DEF MachineStep

LEMMA FollowsByMail ==
  ASSUME Basics, AgentFollows, MailStep
  PROVE  AgentFollows'
<1>0. Signed(Service) /\ Known /\ Pages /\ ServiceFits
  BY CallFacts, PageFacts, ServiceIsJob
<1> USE DEF Is, Providers, SameState, SamePage
<1>1. ASSUME NEW a \in Accounts, StartsMail(a)
      PROVE  AgentFollows'
  BY <1>1 DEF StartsMail, MailCall, AgentFollows
<1>2. ASSUME NEW s \in EmailStates, NEW kind \in Kinds, MailMoves(s, kind)
      PROVE  AgentFollows'
  BY <1>2 DEF MailMoves, MailCall, AgentFollows
<1>3. CASE MailOpened
  BY <1>0, <1>3 DEF MailOpened, AgentFollows, ServiceFits
<1>4. CASE MailFails \/ MailDone
  BY <1>0, <1>4, IdleRecord DEF MailFails, MailDone, Over, AgentFollows, Signed
<1>5. ASSUME NEW s \in {"AuthSelection", "check2FA"}, NEW who \in Someone, MailEnds(s, who)
      PROVE  AgentFollows'
  BY <1>5, FollowsEnters DEF MailEnds, AgentFollows
<1> QED
  BY <1>1, <1>2, <1>3, <1>4, <1>5 DEF MailStep

LEMMA FollowsStep ==
  ASSUME Basics, Undisturbed, Follows, [Next]_vars
  PROVE  Follows'
<1>1. Shaped
  BY StepKinds
<1>2. /\ wiped => wiped'
      /\ \A j \in Jobs : call'[j].step = "wipe" => wiped'
  BY WipesAreMarked DEF Follows
<1>3. ASSUME ~overlapped', ~wiped'
      PROVE  AgentFollows'
  <2>0. /\ ~overlapped /\ ~wiped /\ AgentFollows
        /\ \A j \in Jobs : call[j].step # "wipe"
    BY <1>1, <1>2, <1>3, Monotone DEF Follows
  <2> USE DEF SameState, SameMail, SamePage
  <2>1. ASSUME NEW c \in Calls, NEW kind \in OfScreens, NEW a \in Someone, Begins(c, kind, a)
        PROVE  AgentFollows'
    BY <2>0, <2>1, ServiceIsJob DEF Begins, Keeps, AgentFollows, Is
  <2>2. ASSUME NEW to \in Screens \cup {"End"}, Moves(to)
        PROVE  AgentFollows'
    BY <2>0, <2>2 DEF Moves, Screens, AgentFollows, Is
  <2>3. CASE Rests
    BY <2>0, <2>3, ServiceIsJob DEF Rests, AgentFollows, Is
  <2>4. ASSUME NEW kind \in {"google", "ii"}, NEW a \in Accounts, AsksProvider(kind, a)
        PROVE  AgentFollows'
    <3>1. email = "none"
      BY <2>4, PageFacts DEF AsksProvider, Pages
    <3> QED
      BY <2>4, <3>1 DEF AsksProvider, AgentFollows
  <2> QED
    BY <1>1, <2>0, <2>1, <2>2, <2>3, <2>4, FollowsByCall, FollowsByMachine, FollowsByMail
      DEF Shaped, UserStep
<1> QED
  BY <1>2, <1>3 DEF Follows

\* Whether the machine stops over a call that was not refused.
LEMMA StopStep ==
  ASSUME Basics, Undisturbed, Enrolled, Follows, ~wiped, ~overlapped, faults \in Nat,
         NEW j \in Jobs, Fails(j), Is(j, {"ii", "check", "wallets"})
  PROVE  state = "AuthWithII" \/ faults' > 0
<1>0. /\ CallFits(j) /\ ServiceFits /\ EnrolledPage /\ StateFits
      /\ j = Service
  BY CallFacts, PageFacts, KindsOf DEF Enrolled, Undisturbed, Is
<1>1. CASE Refused(j)
  <2>1. CASE Is(j, {"wallets"})
    BY <1>0, <1>1, <2>1 DEF Refused, CallFits, Is, Providers, Connectors
  <2>2. CASE Is(j, {"check"})
    <3>1. state = "check2FA" /\ call[j].step \in {"profile", "devices"}
      BY <1>0, <2>2 DEF ServiceFits, StateFits
    <3>2. call[j].signer \in registered
      BY <1>0, <3>1 DEF StateFits, Follows, AgentFollows, EnrolledPage
    <3> QED
      BY <1>1, <3>1, <3>2 DEF Refused
  <2>3. CASE Is(j, {"ii"})
    BY <1>0, <2>3 DEF ServiceFits
  <2> QED
    BY <2>1, <2>2, <2>3 DEF Is
<1>2. CASE ~Refused(j)
  BY <1>2 DEF Fails, Fault
<1> QED
  BY <1>1, <1>2

\* No other step stops it.
LEMMA OnlyFailuresStop ==
  ASSUME Basics, [Next]_vars, state' = "Stopped", state # "Stopped"
  PROVE  \E j \in Jobs : Fails(j) /\ Is(j, {"ii", "check", "wallets"})
<1>1. ~(UNCHANGED vars) /\ ~Navigate
  BY DEF vars, machine, Navigate, Leave
<1>2. ASSUME NEW kind, NEW a, NEW s, Begin(kind, a, s)
      PROVE  FALSE
  BY <1>2 DEF Begin, machine
<1>3. ~handle2FAAuth /\ ~onAdd /\ ~onDone
  BY DEF handle2FAAuth, onAdd, onDone, Begin, machine
<1>4. ASSUME NEW a \in Accounts
      PROVE  /\ ~onLoginWithPasskey(a) /\ ~onSignUpWithPasskey(a) /\ ~onRecover(a)
             /\ ~handleOtherOptionsAuth(a)
             /\ \A kind \in {"google", "ii"} : ~SelectProvider(kind, a)
  BY <1>2 DEF onLoginWithPasskey, onSignUpWithPasskey, onRecover, handleOtherOptionsAuth,
    SelectProvider
<1>5. ~EmailStep
  BY DEF EmailStep, SelectEmail, sendVerificationEmail, sendVerificationEmailFails,
    checkEmailVerification, checkEmailVerificationFails, Resend, EmailBack,
    ContinueVerified, EmailEnds, Enter
<1>6. ~getAllWalletsFromThisDevice /\ ~getPlan /\ ~checkAccount
  BY DEF getAllWalletsFromThisDevice, getPlan, checkAccount, PlanSteps, Enter
<1>7. ASSUME NEW j \in Jobs
      PROVE  ~Prove(j) /\ ~createNFIDProfile(j) /\ ~createUserIdData(j) /\ ~set(j)
             /\ ~checkIf2FAEnabled(j)
  BY DEF Prove, createNFIDProfile, createUserIdData, set, checkIf2FAEnabled, Enter,
    machine
<1>8. ASSUME NEW j \in Jobs, NEW id, Profile(j, id)
      PROVE  FALSE
  BY <1>8 DEF Profile, Enter
<1>9. ASSUME NEW j \in Jobs
      PROVE  ~fetchProfile(j) /\ ~reset(j)
  BY <1>8 DEF fetchProfile, reset
<1>10. ASSUME NEW j \in Jobs, NEW event, NEW who, NEW id, Receive(j, event, who, id)
       PROVE  FALSE
  BY <1>10 DEF Receive, Enter
<1>11. ASSUME NEW j \in Jobs
       PROVE  ~createAccessPoint(j) /\ ~Finish(j)
  BY <1>10 DEF createAccessPoint, Finish, Enter
<1>12. ASSUME NEW j \in Jobs, Fails(j)
       PROVE  Is(j, {"ii", "check", "wallets"})
  BY <1>12 DEF Fails, Enter
<1>13. PICK j \in Jobs : Fails(j)
  BY <1>1, <1>3, <1>4, <1>5, <1>6, <1>7, <1>9, <1>11 DEF Next, Answer
<1> QED
  BY <1>12, <1>13

\* Why the machine stops: a call was rejected, in the window of Internet
\* Identity also by the user; or a profile did not fit KEY_ANCHOR, or calls of
\* the screens met.  It never stops because a sign-in that went its way lacks
\* an account, although check2FA has no onError.
THEOREM Stops == Spec => StopsForCause
<1>1. Init => Enrolled /\ Follows
  <2> SUFFICES ASSUME Init PROVE Enrolled /\ Follows
    OBVIOUS
  <2>1. /\ call[Service].kind = "wallets" /\ call[Service].step = "finish"
        /\ \A j \in Jobs \ {Service} : call[j] = Idle
    BY ServiceIsJob DEF Init, Idle
  <2>2. \A j \in Jobs : EnrolledCall(j) /\ call[j].step # "wipe"
    BY <2>1, IdleRecord DEF EnrolledCall, Is, Providers
  <2>3. state = "CheckWallets" /\ email = "none"
    BY DEF Init
  <2> QED
    BY <2>1, <2>2, <2>3 DEF Enrolled, EnrolledPage, Follows, AgentFollows, Is, Providers
<1>2. ASSUME IInv, Enrolled, Follows, [Next]_vars
      PROVE  Enrolled' /\ Follows'
  BY <1>2, EnrolledStep, FollowsStep, StepKinds DEF IInv, Basics
<1>3. ASSUME IInv, Enrolled, Follows, [Next]_vars, state' = "Stopped" /\ state # "Stopped"
      PROVE  state = "AuthWithII" \/ faults' > 0 \/ wiped \/ overlapped
  <2>1. Basics /\ Undisturbed /\ faults \in Nat
    BY <1>3 DEF IInv, Basics, TypeOK
  <2> QED
    BY <1>3, <2>1, OnlyFailuresStop, StopStep
<1>4. Spec => [](IInv /\ Enrolled /\ Follows)
  BY <1>1, <1>2, Invariant, PTL DEF Spec
<1>5. IInv /\ Enrolled /\ Follows /\ [Next]_vars
        => [state' = "Stopped" /\ state # "Stopped" =>
              state = "AuthWithII" \/ faults' > 0 \/ wiped \/ overlapped]_vars
  BY <1>3
<1> QED
  BY <1>4, <1>5, PTL DEF Spec, StopsForCause
=============================================================================
