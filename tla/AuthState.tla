------------------------------ MODULE AuthState ------------------------------
(***************************************************************************)
(* authState of packages/integration on several pages of one browser: the  *)
(* load of the stored session, set() of sign-ins and of background         *)
(* renewals, and the soft and hard sign-outs.  All actors of a page share  *)
(* one agent, so what replaceActorIdentity gives to one is used by all.    *)
(* The pages share the stored session key, the stored delegation chain and *)
(* the cached profiles.                                                    *)
(***************************************************************************)
EXTENDS Naturals, FiniteSets

CONSTANTS
  Pages, Users,
  Nobody,       \* no user: a principal without an account
  Flows,        \* the kinds of sign-in, see SignIn
  MaxSessions,  \* bound on the delegations that are made
  MaxTrouble    \* bound on reloads and on what fails

ASSUME AuthAssumption ==
  /\ Nobody \notin Users /\ Flows \subseteq [device : BOOLEAN, first : BOOLEAN]
  /\ MaxSessions \in Nat /\ MaxTrouble \in Nat

Sessions == 1..MaxSessions      \* a session key and the chain made for it

VARIABLES
  owner,      \* session -> the user whose principal it has
  minted,     \* how many sessions there are
  expired,    \* the sessions whose delegation is expired
  key,        \* KEY_STORAGE_KEY in authStorage, 0 when it is not there
  chain,      \* KEY_STORAGE_DELEGATION in authStorage
  profiles,   \* the users with a profile in walletStorage
  deleting,   \* pages whose sign-out asked for a deletion of authStorage
  loaded,     \* page -> cacheLoaded
  session,    \* page -> the session published to its subscribers
  agent,      \* page -> the session its agent signs with
  load,       \* page -> where _loadAuthSessionFromCache is
  calls,      \* page -> the sign-ins and renewals that go on
  renewing,   \* page -> pendingRenewDelegation
  idle,       \* page -> its idle manager
  leaving,    \* page -> a hard sign-out is about to reload it
  last,       \* page -> the user who signed in or was loaded last
  overtaken,  \* page -> a call went on across a sign-out or a sign-in
  astray,     \* page -> a set() failed after it had replaced the identity
  mixed,      \* the stored pair was read or left between its two writes
  broken,     \* page -> a step of its load failed
  trouble     \* how much of MaxTrouble is used up

disk == <<key, chain, profiles, deleting>>
known == <<owner, minted, expired>>
page == <<loaded, session, agent, load, calls, renewing, idle, leaving>>
ghosts == <<last, overtaken, astray, mixed, broken>>
vars == <<known, disk, page, ghosts, trouble>>

\* The session key and the chain may be of different sessions.  A session that
\* was loaded renews itself with its key, others may do it with a device.
Ids == [key : 0..MaxSessions, chain : 0..MaxSessions, device : BOOLEAN]
NoId == [key |-> 0, chain |-> 0, device |-> FALSE]
Id(c) == [key |-> c.made, chain |-> c.made, device |-> c.device]

Steps == {"sign", "key", "chain", "create", "current", "save"}
Calls == [kind : {"signin", "renew"}, step : Steps, made : 0..MaxSessions,
          device : BOOLEAN, first : BOOLEAN, user : Users \cup {Nobody}]

\* User names no one for a chain that is not there.
UserOf(id) == IF id.chain = 0 THEN Nobody ELSE owner[id.chain]
Usable(id) == id.key = id.chain /\ UserOf(id) \in Users

TypeOK ==
  /\ owner \in [Sessions -> Users \cup {Nobody}] /\ minted \in 0..MaxSessions
  /\ expired \subseteq 1..minted
  /\ key \in 0..minted /\ chain \in 0..minted
  /\ profiles \subseteq Users /\ deleting \subseteq Pages
  /\ loaded \in [Pages -> BOOLEAN]
  /\ session \in [Pages -> Ids] /\ agent \in [Pages -> Ids]
  /\ \A p \in Pages : (session[p].chain = 0) = (session[p] = NoId)
  /\ load \in [Pages -> [step : {"key", "chain", "wallet", "create", "save",
                                 "done", "stuck"}, id : Ids]]
  /\ calls \in [Pages -> SUBSET Calls]
  /\ renewing \in [Pages -> BOOLEAN] /\ leaving \in [Pages -> BOOLEAN]
  /\ idle \in [Pages -> {"off", "armed", "fired"}]
  /\ last \in [Pages -> Users \cup {Nobody}]
  /\ overtaken \in [Pages -> BOOLEAN] /\ astray \in [Pages -> BOOLEAN]
  /\ mixed \in BOOLEAN /\ broken \in [Pages -> BOOLEAN]
  /\ trouble \in 0..MaxTrouble

Fresh == [step |-> "key", id |-> NoId]

Init ==
  /\ owner = [s \in Sessions |-> Nobody] /\ minted = 0 /\ expired = {}
  /\ key = 0 /\ chain = 0 /\ profiles = {} /\ deleting = {}
  /\ loaded = [p \in Pages |-> FALSE]
  /\ session = [p \in Pages |-> NoId] /\ agent = [p \in Pages |-> NoId]
  /\ load = [p \in Pages |-> Fresh] /\ calls = [p \in Pages |-> {}]
  /\ renewing = [p \in Pages |-> FALSE] /\ idle = [p \in Pages |-> "off"]
  /\ leaving = [p \in Pages |-> FALSE] /\ last = [p \in Pages |-> Nobody]
  /\ overtaken = [p \in Pages |-> FALSE] /\ astray = [p \in Pages |-> FALSE]
  /\ mixed = FALSE /\ broken = [p \in Pages |-> FALSE] /\ trouble = 0

Trouble == trouble < MaxTrouble /\ trouble' = trouble + 1
NoTrouble == UNCHANGED trouble

Expire ==
  /\ \E s \in 1..minted \ expired : expired' = expired \cup {s}
  /\ UNCHANGED <<owner, minted, disk, page, ghosts, trouble>>

Halfway(p) == \E c \in calls[p] : c.step = "chain"

-----------------------------------------------------------------------------
(* What several operations end with *)

\* replaceIdentity, and setupSessionManager, which makes one idle manager for
\* the life of the page.
Publish(p, id) ==
  /\ session' = [session EXCEPT ![p] = id]
  /\ agent' = [agent EXCEPT ![p] = id]
  /\ idle' = [idle EXCEPT ![p] = IF @ = "off" THEN "armed" ELSE @]
  /\ astray' = [astray EXCEPT ![p] = FALSE]

Reset_KeepsAgent(p) ==
  /\ session' = [session EXCEPT ![p] = NoId] /\ UNCHANGED agent
  /\ loaded' = [loaded EXCEPT ![p] = TRUE]
  /\ last' = [last EXCEPT ![p] = Nobody]
  /\ overtaken' = [overtaken EXCEPT ![p] = @ \/ calls'[p] # {}]
  /\ astray' = [astray EXCEPT ![p] = FALSE]

\* reset(false): nothing is removed from the stores.
Reset(p) ==
  /\ session' = [session EXCEPT ![p] = NoId]
  /\ agent' = [agent EXCEPT ![p] = NoId]
  /\ loaded' = [loaded EXCEPT ![p] = TRUE]
  /\ last' = [last EXCEPT ![p] = Nobody]
  /\ overtaken' = [overtaken EXCEPT ![p] = @ \/ calls'[p] # {}]
  /\ astray' = [astray EXCEPT ![p] = FALSE]

\* reset(true): deleteAll is asked to delete authStorage, then a reload.
HardReset(p) ==
  /\ deleting' = deleting \cup {p}
  /\ leaving' = [leaving EXCEPT ![p] = TRUE]

-----------------------------------------------------------------------------
(* _loadAuthSessionFromCache *)

Loading(p, step) == load[p].step = step
Loads(p, step, id) == load' = [load EXCEPT ![p] = [step |-> step, id |-> id]]

LoadNothing_Unsaid(p) ==
  /\ Loads(p, "done", NoId)
  /\ UNCHANGED <<known, disk, loaded, session, agent, calls, renewing, idle,
                 leaving, ghosts>>

\* No session, or an expired one.
LoadNothing(p) ==
  /\ Loads(p, "done", NoId)
  /\ loaded' = [loaded EXCEPT ![p] = TRUE]
  /\ session' = [session EXCEPT ![p] = NoId]
  /\ UNCHANGED <<known, disk, agent, calls, renewing, idle, leaving, ghosts>>

LoadGoesOn(p, step, id) ==
  /\ Loads(p, step, id)
  /\ UNCHANGED <<known, disk, loaded, session, calls, renewing, idle, leaving,
                 last, overtaken, astray>>

LoadKey(p) ==
  /\ Loading(p, "key")
  /\ \/ /\ LoadGoesOn(p, "chain", [NoId EXCEPT !.key = key])
        /\ mixed' = (mixed \/ \E q \in Pages : Halfway(q))
        /\ UNCHANGED <<agent, broken>> /\ NoTrouble
     \/ LoadNothing(p) /\ Trouble

LoadChain(p) ==
  /\ Loading(p, "chain")
  /\ \/ /\ load[p].id.key # 0 /\ chain \notin expired \cup {0}
        /\ LoadGoesOn(p, "wallet", [load[p].id EXCEPT !.chain = chain])
        /\ UNCHANGED <<agent, mixed, broken>> /\ NoTrouble
     \/ /\ load[p].id.key = 0 \/ chain \in expired \cup {0}
        /\ LoadNothing(p) /\ NoTrouble
     \/ LoadNothing(p) /\ Trouble

LoadPublishes(p) ==
  /\ Loads(p, "done", NoId) /\ Publish(p, load[p].id)
  /\ loaded' = [loaded EXCEPT ![p] = TRUE]
  /\ last' = [last EXCEPT ![p] = UserOf(load[p].id)]
  /\ UNCHANGED <<known, key, chain, deleting, calls, renewing, leaving,
                 overtaken, mixed, broken>>

\* The load rejects where nobody looks: cacheLoaded stays as it is.
LoadFails(p) ==
  /\ Trouble /\ LoadGoesOn(p, "stuck", load[p].id)
  /\ broken' = [broken EXCEPT ![p] = TRUE] /\ UNCHANGED <<agent, mixed>>

\* Without a cached profile, createUserIdData replaces the identity first.
LoadWallet(p) ==
  /\ Loading(p, "wallet")
  /\ \/ /\ UserOf(load[p].id) \in profiles
        /\ LoadPublishes(p) /\ UNCHANGED profiles /\ NoTrouble
     \/ /\ UserOf(load[p].id) \notin profiles
        /\ LoadGoesOn(p, "create", load[p].id)
        /\ agent' = [agent EXCEPT ![p] = load[p].id]
        /\ UNCHANGED <<mixed, broken>> /\ NoTrouble
     \/ LoadFails(p)

LoadCreate(p) ==
  /\ Loading(p, "create")
  /\ \/ /\ LoadGoesOn(p, IF Usable(load[p].id) THEN "save" ELSE "stuck",
                      load[p].id)
        /\ UNCHANGED <<agent, mixed, broken>> /\ NoTrouble
     \/ LoadFails(p)

LoadSave(p) ==
  /\ Loading(p, "save")
  /\ \/ /\ profiles' = profiles \cup {UserOf(load[p].id)}
        /\ LoadPublishes(p) /\ NoTrouble
     \/ LoadFails(p)

Load(p) ==
  LoadKey(p) \/ LoadChain(p) \/ LoadWallet(p) \/ LoadCreate(p) \/ LoadSave(p)

-----------------------------------------------------------------------------
(* requestFEDelegation, and the services that store the pair after set() *)

Free(p) == loaded[p] /\ ~leaving[p]
Moves(p, c, step) ==
  calls' = [calls EXCEPT ![p] = (@ \ {c}) \cup {[c EXCEPT !.step = step]}]
Ends(p, c) == calls' = [calls EXCEPT ![p] = @ \ {c}]
Idles(p, c) == renewing' = [renewing EXCEPT ![p] = @ /\ c.kind = "signin"]

Mint(u) ==
  /\ minted < MaxSessions /\ minted' = minted + 1
  /\ owner' = [owner EXCEPT ![minted + 1] = u]

\* The user has signed in, and the page may keep the device that signs.  Some
\* flows store the pair first (requestFEDelegation), the others after set(),
\* which starts by replacing the identity.
SignIn(p, u) ==
  /\ Free(p) /\ session[p].chain \in expired \cup {0}
  /\ \A c \in calls[p] : c.kind = "renew"
  /\ Mint(u)
  /\ \E f \in Flows :
       LET c == [kind |-> "signin", made |-> minted + 1, user |-> u,
                 step |-> IF f.first THEN "key" ELSE "create",
                 device |-> f.device, first |-> f.first]
       IN /\ calls' = [calls EXCEPT ![p] = @ \cup {c}]
          /\ agent' = IF f.first THEN agent ELSE [agent EXCEPT ![p] = Id(c)]
  /\ overtaken' = [overtaken EXCEPT ![p] = @ \/ calls[p] # {}]
  /\ UNCHANGED <<expired, disk, loaded, session, load, renewing, idle, leaving,
                 last, astray, mixed, broken, trouble>>

\* get() of an expired session.  Its identity is the device, or the session key
\* of a session that was loaded or was made with a key, which has no account.
Renew(p) ==
  /\ session[p].chain \in expired /\ ~renewing[p]
  /\ LET d == session[p].device
     IN calls' = [calls EXCEPT ![p] = @ \cup {
          [kind |-> "renew", step |-> "sign", made |-> 0, device |-> d,
           first |-> TRUE,
           user |-> IF d THEN UserOf(session[p]) ELSE Nobody]}]
  /\ renewing' = [renewing EXCEPT ![p] = TRUE]
  /\ overtaken' = [overtaken EXCEPT ![p] = @ \/ calls[p] # {}]
  /\ UNCHANGED <<known, disk, loaded, session, agent, load, idle, leaving,
                 last, astray, mixed, broken, trouble>>

\* The error is taken for the argument hard of invalidateIdentity.
RenewalFails(p, c) ==
  /\ Ends(p, c) /\ Idles(p, c) /\ HardReset(p)
  /\ UNCHANGED <<loaded, session, agent, last, overtaken, astray>>

Signed(p, c) ==
  /\ c.step = "sign"
  /\ \/ /\ Mint(c.user)
        /\ calls' = [calls EXCEPT ![p] = (@ \ {c}) \cup
                       {[c EXCEPT !.step = "key", !.made = minted + 1]}]
        /\ NoTrouble
        /\ UNCHANGED <<deleting, loaded, session, agent, renewing, leaving,
                       last, overtaken, astray>>
     \/ RenewalFails(p, c) /\ Trouble /\ UNCHANGED <<owner, minted>>
  /\ UNCHANGED <<expired, key, chain, profiles, load, idle, mixed, broken>>

\* loginWithPasskey, which resets when anything in it fails
IsPasskey(c) == c.kind = "signin" /\ c.device /\ ~c.first

PasskeyFails(p, c) ==
  /\ IsPasskey(c) /\ Ends(p, c) /\ Reset(p)
  /\ UNCHANGED <<deleting, renewing, leaving>>

StoreFails(p, c) ==
  /\ Trouble
  /\ \/ c.kind = "renew" /\ RenewalFails(p, c)
     \/ PasskeyFails(p, c)
     \/ /\ c.kind = "signin" /\ ~IsPasskey(c) /\ Ends(p, c)
        /\ UNCHANGED <<deleting, loaded, session, agent, renewing, leaving,
                       last, overtaken, astray>>
  /\ UNCHANGED <<key, chain>>

StoreKey_Once(p, c) ==
  /\ c.step = "key"
  /\ \/ /\ key' = (IF key = 0 THEN c.made ELSE key) /\ Moves(p, c, "chain")
        /\ mixed' = (mixed \/ \E q \in Pages :
                                 Halfway(q) \/ Loading(q, "chain"))
        /\ NoTrouble
        /\ UNCHANGED <<chain, deleting, loaded, session, agent, renewing,
                       leaving, last, overtaken, astray>>
     \/ StoreFails(p, c) /\ UNCHANGED mixed
  /\ UNCHANGED <<known, profiles, load, idle, broken>>

StoreKey(p, c) ==
  /\ c.step = "key"
  /\ \/ /\ key' = c.made /\ Moves(p, c, "chain")
        /\ mixed' = (mixed \/ \E q \in Pages :
                                 Halfway(q) \/ Loading(q, "chain"))
        /\ NoTrouble
        /\ UNCHANGED <<chain, deleting, loaded, session, agent, renewing,
                       leaving, last, overtaken, astray>>
     \/ StoreFails(p, c) /\ UNCHANGED mixed
  /\ UNCHANGED <<known, profiles, load, idle, broken>>

\* The page is done with a renewal although its set() has only begun.
StoreChain(p, c) ==
  /\ c.step = "chain"
  /\ \/ /\ chain' = c.made /\ Idles(p, c) /\ UNCHANGED mixed /\ NoTrouble
        /\ IF c.first
           THEN Moves(p, c, "create") /\ agent' = [agent EXCEPT ![p] = Id(c)]
           ELSE Ends(p, c) /\ UNCHANGED agent
        /\ UNCHANGED <<key, deleting, loaded, session, leaving, last,
                       overtaken, astray>>
     \/ StoreFails(p, c) /\ mixed' = TRUE
  /\ UNCHANGED <<known, profiles, load, idle, broken>>

-----------------------------------------------------------------------------
(* set() *)

\* The set() of a renewal is not awaited.  The agent keeps the identity.
SetFails(p, c) ==
  \/ PasskeyFails(p, c)
  \/ /\ ~IsPasskey(c) /\ Ends(p, c) /\ astray' = [astray EXCEPT ![p] = TRUE]
     /\ UNCHANGED <<deleting, loaded, session, agent, renewing, leaving, last,
                    overtaken>>

SetGoesOn(p, c, step) ==
  /\ Moves(p, c, step)
  /\ UNCHANGED <<deleting, loaded, session, renewing, leaving, last, overtaken,
                 astray>>

SetCreate_Anyone(p, c) ==
  /\ c.step = "create"
  /\ SetGoesOn(p, c, "current") /\ UNCHANGED agent /\ NoTrouble
  /\ UNCHANGED <<known, key, chain, profiles, load, idle, mixed, broken>>

\* createUserIdData throws for a principal without an account.
SetCreate(p, c) ==
  /\ c.step = "create"
  /\ \/ /\ Usable(Id(c)) /\ SetGoesOn(p, c, "current")
        /\ UNCHANGED agent /\ NoTrouble
     \/ SetFails(p, c) /\ (Trouble \/ (~Usable(Id(c)) /\ NoTrouble))
  /\ UNCHANGED <<known, key, chain, profiles, load, idle, mixed, broken>>

\* migratePasskeys replaces the identity once more.
SetCurrent(p, c) ==
  /\ c.step = "current"
  /\ \/ /\ SetGoesOn(p, c, "save") /\ NoTrouble
        /\ agent' = IF c.user \in profiles THEN agent
                                           ELSE [agent EXCEPT ![p] = Id(c)]
     \/ SetFails(p, c) /\ Trouble
  /\ UNCHANGED <<known, key, chain, profiles, load, idle, mixed, broken>>

SetSave(p, c) ==
  /\ c.step = "save"
  /\ \/ /\ profiles' = profiles \cup {c.user}
        /\ Publish(p, Id(c))
        /\ last' = [last EXCEPT ![p] = IF c.kind = "signin" THEN c.user ELSE @]
        /\ IF c.first THEN Ends(p, c) ELSE Moves(p, c, "key")
        /\ NoTrouble
        /\ UNCHANGED <<deleting, loaded, renewing, leaving, overtaken>>
     \/ SetFails(p, c) /\ Trouble /\ UNCHANGED <<profiles, idle>>
  /\ UNCHANGED <<known, key, chain, load, mixed, broken>>

-----------------------------------------------------------------------------
(* Sign-outs and reloads *)

\* The idle manager calls invalidateIdentity once, and never again.
Idle(p) ==
  /\ idle[p] = "armed" /\ idle' = [idle EXCEPT ![p] = "fired"]
  /\ UNCHANGED calls /\ Reset(p)
  /\ UNCHANGED <<known, disk, load, renewing, leaving, mixed, broken, trouble>>

\* logout(false) and reset(false)
SignOut(p) ==
  /\ Free(p) /\ session[p] # NoId
  /\ UNCHANGED calls /\ Reset(p)
  /\ UNCHANGED <<known, disk, load, renewing, idle, leaving, mixed, broken,
                 trouble>>

\* logout()
SignOutHard(p) ==
  /\ Free(p) /\ session[p] # NoId /\ HardReset(p)
  /\ UNCHANGED <<known, key, chain, profiles, loaded, session, agent, load,
                 calls, renewing, idle, ghosts, trouble>>

\* The page comes back without what it had in memory.
Reload(p) ==
  /\ \/ leaving[p] /\ NoTrouble
     \/ ~leaving[p] /\ Trouble
  /\ loaded' = [loaded EXCEPT ![p] = FALSE]
  /\ session' = [session EXCEPT ![p] = NoId]
  /\ agent' = [agent EXCEPT ![p] = NoId]
  /\ load' = [load EXCEPT ![p] = Fresh] /\ calls' = [calls EXCEPT ![p] = {}]
  /\ renewing' = [renewing EXCEPT ![p] = FALSE]
  /\ idle' = [idle EXCEPT ![p] = "off"]
  /\ leaving' = [leaving EXCEPT ![p] = FALSE]
  /\ last' = [last EXCEPT ![p] = Nobody]
  /\ overtaken' = [overtaken EXCEPT ![p] = FALSE]
  /\ astray' = [astray EXCEPT ![p] = FALSE]
  /\ mixed' = (mixed \/ Halfway(p))
  /\ broken' = [broken EXCEPT ![p] = FALSE]
  /\ UNCHANGED <<known, disk>>

\* Other connections may keep the deletion waiting; when they do for 3 seconds
\* the sign-out goes on, and the deletion may still happen.
Deleted(p) ==
  /\ p \in deleting /\ deleting' = deleting \ {p}
  /\ key' = 0 /\ chain' = 0
  /\ mixed' = (mixed \/ \E q \in Pages : Halfway(q))
  /\ UNCHANGED <<known, profiles, page, last, overtaken, astray, broken,
                 trouble>>

Forgotten(p) ==
  /\ p \in deleting /\ deleting' = deleting \ {p}
  /\ UNCHANGED <<known, key, chain, profiles, page, ghosts, trouble>>

Call(p, c) ==
  \/ Signed(p, c) \/ StoreKey(p, c) \/ StoreChain(p, c)
  \/ SetCreate(p, c) \/ SetCurrent(p, c) \/ SetSave(p, c)

Next ==
  \/ Expire
  \/ \E p \in Pages :
       \/ Load(p) \/ Renew(p) \/ Idle(p) \/ SignOut(p) \/ SignOutHard(p)
       \/ Reload(p) \/ Deleted(p) \/ Forgotten(p)
       \/ \E u \in Users : SignIn(p, u)
       \/ \E c \in calls[p] : Call(p, c)

Spec == Init /\ [][Next]_vars

\* The load only waits for the browser and for the network, which answer or
\* fail; everything else may never happen.
FairSpec == Spec /\ \A p \in Pages : WF_vars(Load(p))

-----------------------------------------------------------------------------
(* Properties *)

\* What a page shows is the session of the user who signed in last or was
\* loaded, and its key and chain belong together: a renewal never shows another
\* user, and a session that was signed out does not come back.  It may do so
\* when a call had begun before a sign-out or a sign-in and ended after it, as
\* set() does not look; key and chain may differ when two writers met.
ShowsLastSignIn ==
  \A p \in Pages :
    /\ session[p] # NoId /\ ~overtaken[p] => UserOf(session[p]) = last[p]
    /\ ~mixed => session[p].key = session[p].chain

\* Once no set() goes on, the requests of the page are signed with the session
\* it shows, and with none when it shows none, unless a set() has failed after
\* it replaced the identity (createUserIdData does so before it asks).
AgentIsSession ==
  \A p \in Pages :
    loaded[p] /\ ~astray[p]
    /\ (\A c \in calls[p] : c.step \notin {"create", "current", "save"})
    => agent[p] = session[p]

\* What waits for fromCache() gets an answer, unless a step of the load failed
\* or the stored pair cannot be used: then cacheLoaded is never set.
LoadEnds ==
  \A p \in Pages :
    ~loaded[p] ~> \/ loaded[p]
                  \/ Loading(p, "stuck") /\ (broken[p] \/ ~Usable(load[p].id))
=============================================================================
