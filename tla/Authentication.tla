---------------------------- MODULE Authentication ----------------------------
(***************************************************************************)
(* The sign-in of a user: AuthenticationMachine with its e-mail machine,   *)
(* the services it invokes, the screens of its coordinator, and what they  *)
(* do to authState and to the one agent that all actors of the page share. *)
(*                                                                         *)
(* A screen calls a connector and sends the machine an event when the call *)
(* returns.  Nothing takes such a call back when the user goes on to       *)
(* another screen, and some screens let a second call start.               *)
(***************************************************************************)
EXTENDS Naturals, FiniteSets

CONSTANTS
  Accounts,   \* the principals that may sign in on this page
  Existing,   \* those that had an account before
  TwoFactor,  \* those of them with is2fa
  Calls,      \* calls of the screens that may run at once
  Service,    \* the call that the machine, or its e-mail machine, has invoked
  None,       \* no account; as an identity of the agent: anonymous
  MaxFaults   \* bound on the rejected calls

ASSUME AuthenticationAssumption ==
  /\ TwoFactor \subseteq Existing /\ Existing \subseteq Accounts
  /\ None \notin Accounts /\ Service \notin Calls /\ MaxFaults \in Nat

VARIABLES
  state,       \* the state of AuthenticationMachine
  email,       \* the state of AuthWithEmailMachine
  mailbox,     \* its verificationEmail, as the account the mail address has
  keyPair,     \* whether it has a key pair
  authSession, \* context.authSession, as its account
  allowed,     \* context.allowedDevices, as the account they are of
  wallets,     \* whether context.wallets has any
  isPasskeyLoading,
  call,        \* the calls that run
  agent,       \* the identity of the shared agent
  session,     \* the account authState publishes
  anchor,      \* KEY_ANCHOR of the local storage, as its account
  registered,  \* the accounts the identity manager has
  devices,     \* <<account, kind>>: the access points it has for them
  proved,      \* accounts whose own device or phrase signed (history)
  overlapped,  \* a call was running when another could begin (history)
  wiped,       \* a profile did not fit KEY_ANCHOR (history)
  faults

machine == <<state, email, mailbox, keyPair, authSession, allowed, wallets>>
identity == <<agent, session, anchor>>
canisters == <<registered, devices>>
ghosts == <<proved, overlapped, wiped>>
vars == <<machine, isPasskeyLoading, call, identity, canisters, ghosts, faults>>

Jobs == Calls \cup {Service}
Someone == Accounts \cup {None}

Screens == {"ChooseWallet", "AuthSelection", "SignUpWithPasskey", "SignInWithRecoveryPhrase",
  "OtherSignOptions", "EmailAuthentication", "TwoFA", "AddPasskeys", "AddPasskeysSuccess",
  "AuthAddRecoveryPhrase", "AuthSaveRecoveryPhrase"}
Invoking == {"CheckWallets", "AuthWithGoogle", "AuthWithII", "check2FA",
  "GetRecoveryProvisioningPlan", "VerifyPasskeyProvisioning", "VerifyRecoveryProvisioning"}
EmailStates == {"SendVerificationEmail", "PendingEmailVerification", "EmailVerified", "Error",
  "Authenticated"}

\* Which flow a call belongs to, and what it waits for.
Providers == {"google", "email", "ii"}
Connectors == {"passkey", "factor", "device", "anchor", "phrase", "legacy", "signup"}
Kinds == Providers \cup Connectors
           \cup {"none", "wallets", "send", "poll", "check", "plan", "addPasskey", "addPhrase"}
Steps == {"idle", "prove", "profile", "wipe", "create", "set", "publish", "devices", "store",
  "finish"}

Idle == [kind |-> "none", step |-> "idle", as |-> None, signer |-> None]
Running(j) == call[j].step # "idle"
Is(j, kinds) == call[j].kind \in kinds
NoneRuns(kinds) == \A c \in Calls : Is(c, kinds) => ~Running(c)

TypeOK ==
  /\ state \in Screens \cup Invoking \cup {"End", "Stopped"}
  /\ email \in EmailStates \cup {"none"}
  /\ mailbox \in Someone /\ authSession \in Someone /\ allowed \in Someone
  /\ keyPair \in BOOLEAN /\ wallets \in BOOLEAN /\ isPasskeyLoading \in BOOLEAN
  /\ call \in [Jobs -> [kind : Kinds, step : Steps, as : Someone, signer : Someone]]
  /\ agent \in Someone /\ session \in Someone /\ anchor \in Someone
  /\ registered \in SUBSET Accounts /\ devices \in SUBSET (Accounts \X {"passkey", "phrase"})
  /\ proved \in SUBSET Accounts /\ overlapped \in BOOLEAN /\ wiped \in BOOLEAN
  /\ faults \in 0..MaxFaults
  /\ (state = "EmailAuthentication") <=> (email # "none")
  /\ Running(Service) <=>
       (state \in Invoking \/ email \in EmailStates \ {"Error", "Authenticated"})

\* KEY_ANCHOR is of whoever signed in last and was not signed out hard.
Init ==
  /\ state = "CheckWallets" /\ email = "none" /\ mailbox = None /\ keyPair = FALSE
  /\ authSession = None /\ allowed = None /\ wallets = FALSE /\ isPasskeyLoading = FALSE
  /\ call = [j \in Jobs |-> IF j = Service
                              THEN [Idle EXCEPT !.kind = "wallets", !.step = "finish"] ELSE Idle]
  /\ agent = None /\ session = None /\ anchor \in Existing \cup {None}
  /\ registered = Existing
  /\ devices \in {TwoFactor \X {"passkey"}, Existing \X {"passkey", "phrase"}}
  /\ proved = {} /\ overlapped = FALSE /\ wiped = FALSE /\ faults = 0

-----------------------------------------------------------------------------
(* The machine enters a state *)

\* Mutation: the last steps are not verified.
Invoke_NoCheck(s, who, id) ==
  CASE s = "check2FA" -> [kind |-> "check", step |-> "profile", as |-> who, signer |-> id]
    [] s = "GetRecoveryProvisioningPlan" ->
         [kind |-> "plan", step |-> "finish", as |-> None, signer |-> id]
    [] OTHER -> Idle

\* What a state invokes on entry; its calls are signed by the agent, id by now.
Invoke(s, who, id) ==
  CASE s = "check2FA" -> [kind |-> "check", step |-> "profile", as |-> who, signer |-> id]
    [] s \in {"GetRecoveryProvisioningPlan", "VerifyPasskeyProvisioning",
              "VerifyRecoveryProvisioning"} ->
         [kind |-> "plan", step |-> "finish", as |-> None, signer |-> id]
    [] OTHER -> Idle

\* Call j is over and the machine goes to s; id is the agent's identity by then.
Enter(j, s, who, id) ==
  /\ state' = s /\ authSession' = who /\ agent' = id
  /\ call' = [call EXCEPT ![j] = Idle, ![Service] = Invoke(s, who, id)]

\* An error no transition of the machine handles stops it, with its parent.
Stop == Enter(Service, "Stopped", authSession, agent)

Fault == faults < MaxFaults /\ faults' = faults + 1

Step(j, s) == call' = [call EXCEPT ![j].step = s]

\* The next call is signed by whom the agent stands for.
Ask(j, s, id) == call' = [call EXCEPT ![j].step = s, ![j].signer = id] /\ agent' = id

\* replaceActorIdentity or replaceIdentity, and the call in the same turn.
AskAs(j, s) == Ask(j, s, call[j].as)

-----------------------------------------------------------------------------
(* Screens *)

\* A call begins on a screen; others may still be running.
Begin(kind, a, s) ==
  /\ \E c \in Calls :
       /\ ~Running(c)
       /\ call' = [call EXCEPT ![c] = [kind |-> kind, step |-> s, as |-> a, signer |-> agent]]
  /\ overlapped' = (overlapped \/ \E c \in Calls : Running(c))
  /\ UNCHANGED <<machine, identity, canisters, proved, wiped, faults>>

\* The list of wallets does not show that a login runs, the selection does.
onLoginWithPasskey(a) ==
  /\ state = "ChooseWallet" \/ (state = "AuthSelection" /\ ~isPasskeyLoading)
  /\ <<a, "passkey">> \in devices
  /\ isPasskeyLoading' = TRUE
  /\ Begin("passkey", a, "prove")

\* Buttons that are disabled, or replaced by a loader, while their call runs.
onSignUpWithPasskey(a) ==
  /\ state = "SignUpWithPasskey" /\ NoneRuns({"signup"}) /\ a \notin registered
  /\ Begin("signup", a, "prove")
  /\ UNCHANGED isPasskeyLoading

\* Users of Internet Identity, whose anchors are small, recover in another way.
onRecover(a) ==
  /\ state = "SignInWithRecoveryPhrase" /\ NoneRuns({"phrase", "legacy"})
  /\ <<a, "phrase">> \in devices
  /\ \E kind \in {"phrase", "legacy"} : Begin(kind, a, "prove")
  /\ UNCHANGED isPasskeyLoading

handleOtherOptionsAuth(a) ==
  /\ state = "OtherSignOptions" /\ NoneRuns({"device", "anchor"})
  /\ <<a, "passkey">> \in devices
  /\ Begin("device", a, "prove")
  /\ UNCHANGED isPasskeyLoading

handle2FAAuth ==
  /\ state = "TwoFA" /\ NoneRuns({"factor"})
  /\ Begin("factor", allowed, "prove")
  /\ UNCHANGED isPasskeyLoading

\* createCredential throws without a session, and the screen stays.
onAdd ==
  /\ state = "AddPasskeys" /\ NoneRuns({"addPasskey"}) /\ session # None
  /\ Begin("addPasskey", session, "profile")
  /\ UNCHANGED isPasskeyLoading

\* The phrase is of the anchor of authSession.  The button stays enabled.
onDone ==
  /\ state = "AuthSaveRecoveryPhrase"
  /\ Begin("addPhrase", authSession, "profile")
  /\ UNCHANGED isPasskeyLoading

\* The user goes to another screen; a call of this one goes on.
Leave(from, to) ==
  /\ state = from /\ state' = to
  /\ overlapped' = (overlapped \/ ~NoneRuns(Kinds \ {"passkey"}))
  /\ UNCHANGED <<email, mailbox, keyPair, authSession, allowed, wallets, isPasskeyLoading, call,
                 identity, canisters, proved, wiped, faults>>

Navigate ==
  \/ Leave("ChooseWallet", "AuthSelection")
  \/ /\ ~isPasskeyLoading
     /\ \/ wallets /\ Leave("AuthSelection", "ChooseWallet")
        \/ Leave("AuthSelection", "OtherSignOptions")
        \/ Leave("AuthSelection", "SignUpWithPasskey")
  \/ Leave("SignUpWithPasskey", "AuthSelection")
  \/ NoneRuns({"device", "anchor"}) /\ Leave("OtherSignOptions", "AuthSelection")
  \/ NoneRuns({"device", "anchor"}) /\ Leave("OtherSignOptions", "SignInWithRecoveryPhrase")
  \/ Leave("SignInWithRecoveryPhrase", "OtherSignOptions")
  \/ Leave("AuthAddRecoveryPhrase", "AuthSaveRecoveryPhrase")
  \/ Leave("AddPasskeysSuccess", "End")

\* Google or Internet Identity for account a.  Of the two events only the one
\* for Internet Identity assigns a session, an undefined one.
SelectProvider(kind, a) ==
  /\ state = "AuthSelection" /\ ~isPasskeyLoading
  /\ state' = IF kind = "google" THEN "AuthWithGoogle" ELSE "AuthWithII"
  /\ authSession' = IF kind = "google" THEN authSession ELSE None
  /\ call' = [call EXCEPT ![Service] = [Idle EXCEPT !.kind = kind, !.step = "prove", !.as = a]]
  /\ UNCHANGED <<email, mailbox, keyPair, allowed, wallets, isPasskeyLoading, identity, canisters,
                 ghosts, faults>>

-----------------------------------------------------------------------------
(* AuthWithEmailMachine *)

Mail(s, kind, step) ==
  /\ email' = s
  /\ call' = [call EXCEPT ![Service] =
                IF kind = "none" THEN Idle
                ELSE [Idle EXCEPT !.kind = kind, !.step = step, !.as = mailbox']]
  /\ UNCHANGED <<allowed, wallets, isPasskeyLoading, identity, canisters, ghosts>>

SelectEmail(a) ==
  /\ state = "AuthSelection" /\ ~isPasskeyLoading
  /\ state' = "EmailAuthentication" /\ authSession' = None
  /\ mailbox' = a /\ keyPair' = FALSE
  /\ Mail("SendVerificationEmail", "send", "finish")
  /\ UNCHANGED faults

\* A mail that was sent less than a minute ago is not sent again: the machine
\* waits for the answer to that one, if it has its keys.
sendVerificationEmail ==
  /\ Is(Service, {"send"})
  /\ keyPair' \in {keyPair, TRUE}
  /\ UNCHANGED <<state, mailbox, authSession, faults>>
  /\ Mail("PendingEmailVerification", "poll", "finish")

checkEmailVerification ==
  /\ Is(Service, {"poll"}) /\ keyPair
  /\ email' = "EmailVerified" /\ agent' = mailbox
  /\ call' = [call EXCEPT ![Service] =
       [kind |-> "email", step |-> "profile", as |-> mailbox, signer |-> mailbox]]
  /\ UNCHANGED <<state, mailbox, keyPair, authSession, allowed, wallets, isPasskeyLoading,
                 session, anchor, canisters, ghosts, faults>>

checkEmailVerificationFails ==
  /\ Is(Service, {"poll"})
  /\ IF keyPair THEN Fault ELSE UNCHANGED faults
  /\ UNCHANGED <<state, mailbox, keyPair, authSession>>
  /\ Mail("Error", "none", "idle")

Resend ==
  /\ email \in {"PendingEmailVerification", "Error"}
  /\ UNCHANGED <<state, mailbox, keyPair, authSession, faults>>
  /\ Mail("SendVerificationEmail", "send", "finish")

\* The machine ends; without a session its parent goes back to the selection.
EmailEnds(who) ==
  /\ email' = "none" /\ mailbox' = None /\ keyPair' = FALSE
  /\ Enter(Service, IF who = None THEN "AuthSelection" ELSE "check2FA", who, agent)
  /\ UNCHANGED <<allowed, wallets, isPasskeyLoading, session, anchor, canisters,
                 ghosts>>

EmailBack ==
  /\ email \in {"PendingEmailVerification", "Error"}
  /\ EmailEnds(authSession)
  /\ UNCHANGED faults

sendVerificationEmailFails == Is(Service, {"send"}) /\ EmailEnds(authSession) /\ UNCHANGED faults

\* EMAIL_AUTH_COMPLETE reaches the parent before the end of its child does.
ContinueVerified == email = "Authenticated" /\ EmailEnds(mailbox) /\ UNCHANGED faults

EmailStep ==
  \/ \E a \in Accounts : SelectEmail(a)
  \/ sendVerificationEmail \/ sendVerificationEmailFails
  \/ checkEmailVerification \/ checkEmailVerificationFails
  \/ Resend \/ EmailBack \/ ContinueVerified

-----------------------------------------------------------------------------
(* The answers of the calls *)

\* What the machine does with the events of the screens, in any of its states.
Receive(j, event, who, id) ==
  CASE event = "AUTH_WITH_PASSKEY" /\ state \in {"ChooseWallet", "AuthSelection"} ->
         Enter(j, "GetRecoveryProvisioningPlan", who, id)
    [] event = "AUTHENTICATED" /\ state \in {"AuthSelection", "SignUpWithPasskey",
                                              "OtherSignOptions"} ->
         Enter(j, "End", who, id)
    [] event = "AUTHENTICATED" /\ state = "SignInWithRecoveryPhrase" ->
         Enter(j, "GetRecoveryProvisioningPlan", who, id)
    [] event = "AUTHENTICATED" /\ state = "TwoFA" ->
         Enter(j, "GetRecoveryProvisioningPlan", authSession, id)
    [] event = "CONTINUE" /\ state = "AddPasskeys" ->
         Enter(j, "VerifyPasskeyProvisioning", authSession, id)
    [] event = "DONE" /\ state = "AuthAddRecoveryPhrase" ->
         Enter(j, "AuthSaveRecoveryPhrase", authSession, id)
    [] event = "DONE" /\ state = "AuthSaveRecoveryPhrase" ->
         Enter(j, "VerifyRecoveryProvisioning", authSession, id)
    [] event = "DONE" /\ state = "AddPasskeysSuccess" -> Enter(j, "End", authSession, id)
    [] OTHER -> call' = [call EXCEPT ![j] = Idle] /\ agent' = id
                /\ UNCHANGED <<state, authSession>>

Event(kind) == CASE kind = "passkey" -> "AUTH_WITH_PASSKEY"
                 [] kind = "addPasskey" -> "CONTINUE"
                 [] kind = "addPhrase" -> "DONE"
                 [] OTHER -> "AUTHENTICATED"

\* The user's device, phrase or provider has signed.
Prove(j) ==
  /\ call[j].step = "prove"
  /\ AskAs(j, IF Is(j, {"google", "ii", "phrase"}) THEN "profile"
              ELSE IF Is(j, {"signup"}) THEN "create" ELSE "set")
  /\ proved' = proved \cup (IF Is(j, Providers) THEN {} ELSE {call[j].as})
  /\ UNCHANGED <<machine, isPasskeyLoading, session, anchor, canisters, overlapped, wiped, faults>>

\* Mutation: a provider leaves the session to the second factor, or to nobody.
SetsNow_Phrase(j, who) == Is(j, {"phrase"})

\* Mutation: a provider publishes a session whether or not it is enough.
SetsNow_Always(j, who) == Is(j, Providers \cup {"phrase"})

\* A session is published once a phrase, or a provider that is enough, has signed.
SetsNow(j, who) == Is(j, {"phrase"}) \/ (Is(j, Providers) /\ who \notin TwoFactor)

\* What follows a profile: it is of who signed, id is the agent's identity by now.
Profile(j, id) ==
  LET who == call[j].signer IN
  \/ /\ Is(j, Providers \cup {"phrase"}) /\ SetsNow(j, who)
     /\ AskAs(j, "set") /\ UNCHANGED <<state, authSession>>
  \/ /\ Is(j, Providers \cup Connectors) /\ ~SetsNow(j, who)
     /\ Step(j, "finish") /\ agent' = id /\ UNCHANGED <<state, authSession>>
  \/ /\ Is(j, {"addPasskey", "addPhrase"})
     /\ Ask(j, "store", id) /\ UNCHANGED <<state, authSession>>
  \/ /\ Is(j, {"check"}) /\ who \in TwoFactor
     /\ Ask(j, "devices", id) /\ UNCHANGED <<state, authSession>>
  \/ /\ Is(j, {"check"}) /\ who \notin TwoFactor
     /\ Enter(j, "GetRecoveryProvisioningPlan", authSession, authSession)

\* Not the account of KEY_ANCHOR: fetchProfile calls authState.reset(true).
Mismatch(j) == anchor \notin {None, call[j].signer}

fetchProfile(j) ==
  /\ call[j].step = "profile" /\ call[j].signer \in registered
  /\ IF Mismatch(j)
       THEN Step(j, "wipe") /\ anchor' = None /\ wiped' = TRUE
              /\ UNCHANGED <<state, authSession, agent>>
       ELSE Profile(j, agent) /\ UNCHANGED <<anchor, wiped>>
  /\ UNCHANGED <<email, mailbox, keyPair, allowed, wallets, isPasskeyLoading, session, canisters,
                 proved, overlapped, faults>>

\* The databases are deleted; the caller goes on with an anonymous agent.
reset(j) ==
  /\ call[j].step = "wipe"
  /\ Profile(j, None) /\ session' = None
  /\ UNCHANGED <<email, mailbox, keyPair, allowed, wallets, isPasskeyLoading, anchor, canisters,
                 ghosts, faults>>

\* A call of a screen or a service that waits for nothing but its answer.
Quiet == UNCHANGED <<email, mailbox, keyPair, allowed, wallets, isPasskeyLoading, canisters, ghosts>>

\* Any failure of the profile of a provider is taken for a new user.
createNFIDProfile(j) ==
  \/ /\ call[j].step = "profile" /\ Is(j, Providers)
     /\ IF call[j].signer \in registered THEN Fault ELSE UNCHANGED faults
     /\ AskAs(j, "create")
     /\ UNCHANGED <<machine, isPasskeyLoading, session, anchor, canisters, ghosts>>
  \/ /\ call[j].step = "create" /\ call[j].signer \notin registered
     /\ registered' = registered \cup {call[j].signer}
     /\ devices' = IF Is(j, {"signup"}) THEN devices \cup {<<call[j].as, "passkey">>} ELSE devices
     /\ AskAs(j, "set")
     /\ UNCHANGED <<machine, isPasskeyLoading, session, anchor, ghosts, faults>>

\* authState.set(): the anchor is stored before the session is published.
createUserIdData(j) ==
  /\ call[j].step = "set" /\ call[j].signer \in registered
  /\ anchor' = call[j].signer /\ Step(j, "publish")
  /\ UNCHANGED <<machine, agent, session, faults>> /\ Quiet

\* A login with a device of an anchor calls set() twice, and reads the profile
\* unless it was with a security device.
set(j) ==
  /\ call[j].step = "publish"
  /\ session' = call[j].as
  /\ IF Is(j, {"device"})
       THEN call' = [call EXCEPT ![j].kind = "anchor", ![j].step = "set", ![j].signer = call[j].as]
              /\ agent' = call[j].as
       ELSE \/ ~Is(j, {"passkey", "factor", "legacy"}) /\ AskAs(j, "finish")
            \/ Is(j, {"passkey", "factor", "legacy", "anchor"}) /\ AskAs(j, "profile")
  /\ UNCHANGED <<machine, anchor, faults>> /\ Quiet

\* Signed out softly, for the passkey to come; the devices are of who asked.
checkIf2FAEnabled(j) ==
  /\ call[j].step = "devices" /\ call[j].signer \in registered
  /\ session' = None /\ allowed' = call[j].signer
  /\ Enter(j, "TwoFA", authSession, None)
  /\ UNCHANGED <<email, mailbox, keyPair, wallets, isPasskeyLoading, anchor, canisters, ghosts,
                 faults>>

\* Mutation: no transition for an account that has everything.
PlanSteps_NoDefault(missing) ==
  {"AddPasskeys" : kind \in missing \cap {"passkey"}}
    \cup {"AuthAddRecoveryPhrase" : kind \in missing \cap {"phrase"}}

\* A plan for what the account of the agent lacks, a passkey first if the
\* browser can make one.
PlanSteps(missing) ==
  {"AddPasskeys" : kind \in missing \cap {"passkey"}}
    \cup {IF "phrase" \in missing THEN "AuthAddRecoveryPhrase" ELSE "End"}

getPlan ==
  /\ state = "GetRecoveryProvisioningPlan" /\ call[Service].signer \in registered
  /\ LET missing == {k \in {"passkey", "phrase"} : <<call[Service].signer, k>> \notin devices} IN
     \E s \in PlanSteps(missing) : Enter(Service, s, authSession, agent)
  /\ UNCHANGED <<session, anchor, faults>> /\ Quiet

checkAccount ==
  /\ state \in {"VerifyPasskeyProvisioning", "VerifyRecoveryProvisioning"}
  /\ call[Service].signer \in registered
  /\ LET Has(kind) == <<call[Service].signer, kind>> \in devices IN
     Enter(Service, IF state = "VerifyPasskeyProvisioning" /\ Has("passkey")
                      THEN "AddPasskeysSuccess" ELSE "End", authSession, agent)
  /\ UNCHANGED <<session, anchor, faults>> /\ Quiet

getAllWalletsFromThisDevice ==
  /\ state = "CheckWallets"
  /\ wallets' \in BOOLEAN
  /\ Enter(Service, IF wallets' THEN "ChooseWallet" ELSE "AuthSelection", authSession, agent)
  /\ UNCHANGED <<email, mailbox, keyPair, allowed, isPasskeyLoading, session, anchor, canisters,
                 ghosts, faults>>

\* create_access_point adds to the account that signs.
createAccessPoint(j) ==
  /\ call[j].step = "store" /\ call[j].signer \in registered
  /\ devices' = devices \cup
       {<<call[j].signer, IF Is(j, {"addPasskey"}) THEN "passkey" ELSE "phrase">>}
  /\ Receive(j, Event(call[j].kind), call[j].as, agent)
  /\ UNCHANGED <<email, mailbox, keyPair, allowed, wallets, isPasskeyLoading, session, anchor,
                 registered, ghosts, faults>>

\* A sign-in is done.
Finish(j) ==
  /\ call[j].step = "finish"
  /\ \/ Is(j, {"google", "ii"}) /\ Enter(j, "check2FA", call[j].as, agent) /\ UNCHANGED email
     \/ Is(j, {"email"}) /\ email' = "Authenticated" /\ call' = [call EXCEPT ![j] = Idle]
          /\ UNCHANGED <<state, authSession, agent>>
     \/ Is(j, Connectors) /\ Receive(j, Event(call[j].kind), call[j].as, agent) /\ UNCHANGED email
  /\ isPasskeyLoading' = (isPasskeyLoading /\ ~Is(j, {"passkey"}))
  /\ UNCHANGED <<mailbox, keyPair, allowed, wallets, session, anchor, canisters, ghosts, faults>>

\* Whom a step cannot serve: get_account and the like want an account, a new
\* one none.  What users, or the service for their provider, refuse is no fault.
Refused(j) ==
  \/ call[j].step \in {"profile", "set", "store", "devices"} /\ call[j].signer \notin registered
  \/ call[j].step = "create" /\ call[j].signer \in registered
  \/ Is(j, {"plan"}) /\ call[j].signer \notin registered
  \/ call[j].step = "prove"

\* A call rejects.  The passkey connector signs out, the others leave the agent
\* and the session as they are.
Fails(j) ==
  /\ Running(j) /\ ~Is(j, {"send", "poll"}) /\ call[j].step # "wipe"
  /\ ~(Is(j, Providers) /\ call[j].step = "profile")
  /\ IF Refused(j) THEN UNCHANGED faults ELSE Fault
  /\ \/ Is(j, {"google"}) /\ Enter(j, "AuthSelection", authSession, agent)
          /\ UNCHANGED <<email, session>>
     \/ Is(j, {"ii", "check", "wallets"}) /\ Stop /\ UNCHANGED <<email, session>>
     \/ Is(j, {"plan"}) /\ Enter(j, "End", authSession, agent) /\ UNCHANGED <<email, session>>
     \/ Is(j, {"email"}) /\ email' = "Error" /\ call' = [call EXCEPT ![j] = Idle]
          /\ UNCHANGED <<state, authSession, agent, session>>
     \/ Is(j, {"passkey", "factor"}) /\ call' = [call EXCEPT ![j] = Idle]
          /\ agent' = None /\ session' = None /\ UNCHANGED <<state, authSession, email>>
     \/ j # Service /\ ~Is(j, {"passkey"}) /\ (Is(j, {"factor"}) => call[j].step = "prove")
          /\ call' = [call EXCEPT ![j] = Idle]
          /\ UNCHANGED <<state, authSession, email, agent, session>>
  /\ isPasskeyLoading' = (isPasskeyLoading /\ ~Is(j, {"passkey"}))
  /\ UNCHANGED <<mailbox, keyPair, allowed, wallets, anchor, canisters, ghosts>>

Answer(j) ==
  \/ fetchProfile(j) \/ reset(j) \/ createNFIDProfile(j) \/ createUserIdData(j) \/ set(j)
  \/ checkIf2FAEnabled(j) \/ createAccessPoint(j) \/ Finish(j) \/ Fails(j)

Next ==
  \/ \E a \in Accounts :
       \/ onLoginWithPasskey(a) \/ onSignUpWithPasskey(a) \/ onRecover(a)
       \/ handleOtherOptionsAuth(a)
       \/ \E kind \in {"google", "ii"} : SelectProvider(kind, a)
  \/ handle2FAAuth \/ onAdd \/ onDone \/ Navigate \/ EmailStep
  \/ \E j \in Jobs : Prove(j) \/ Answer(j)
  \/ getAllWalletsFromThisDevice \/ getPlan \/ checkAccount

Spec == Init /\ [][Next]_vars

\* Invoked services are answered: not the mail that a user has to open, nor
\* the window of Internet Identity.
Served ==
  \/ Answer(Service) \/ getAllWalletsFromThisDevice \/ getPlan \/ checkAccount
  \/ Is(Service, {"google"}) /\ Prove(Service)
  \/ sendVerificationEmail \/ sendVerificationEmailFails

FairSpec == Spec /\ WF_vars(Served)

-----------------------------------------------------------------------------
(* Properties *)

\* The states behind a sign-in: from the plan for the recovery devices on.
SignedIn == {"GetRecoveryProvisioningPlan", "AddPasskeys", "VerifyPasskeyProvisioning",
  "AddPasskeysSuccess", "AuthAddRecoveryPhrase", "AuthSaveRecoveryPhrase",
  "VerifyRecoveryProvisioning", "End"}

\* Whichever way a user signs in, with whatever an earlier user or a failed
\* attempt left behind, the machine that is past the sign-in holds a session,
\* authState publishes the same one, and the shared agent signs for it: the
\* devices that are added next go to that account.  (root-machine.ts:322, the
\* set() or reset() of each service.)  Not when the call of a screen that was
\* left, or a second call, ran beside the sign-in.
EndsSignedIn ==
  (state \in SignedIn /\ ~overlapped) =>
    authSession # None /\ session = authSession /\ agent = authSession

\* For an account with a second factor no session is published, even among
\* calls that overlap, and no machine gets past the sign-in when none overlap,
\* unless a device or a phrase of the account itself has signed on this page
\* (google-flow/services.ts:58, services.ts:64, root-machine.ts:306).
SecondFactorIsAsked ==
  /\ session \in TwoFactor => session \in proved
  /\ (state \in SignedIn /\ ~overlapped /\ authSession \in TwoFactor) => authSession \in proved

\* The machine stops only from the window of Internet Identity, over a call that
\* was rejected, after a profile did not fit KEY_ANCHOR, or when calls of the
\* screens met: what is safety in SignInSettles.  No sign-in that went its way
\* stops it for want of an account (root-machine.ts:140, 253, 301).
StopsForCause ==
  [][state' = "Stopped" /\ state # "Stopped" =>
       state = "AuthWithII" \/ faults' > 0 \/ wiped \/ overlapped]_vars

\* A state without a screen is left for one that has a screen, for the end or
\* for the window of Internet Identity.  The machine stops only over a call
\* that was rejected or overlapped, or after a profile did not fit KEY_ANCHOR:
\* the states that lack an onError (root-machine.ts:140, 253, 301).
SignInSettles ==
  (state \in Invoking \/ email \in {"SendVerificationEmail", "EmailVerified"}) ~>
    \/ state \in Screens /\ email \notin {"SendVerificationEmail", "EmailVerified"}
    \/ state \in {"End", "AuthWithII"}
    \/ state = "Stopped" /\ (faults > 0 \/ wiped \/ overlapped)
=============================================================================
