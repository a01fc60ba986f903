--------------------------- MODULE AuthStateProofs ---------------------------
(***************************************************************************)
(* Proofs about AuthState, for any pages, users and kinds of sign-in, and  *)
(* any number of sessions, reloads and failures.                           *)
(***************************************************************************)
EXTENDS AuthState, TLAPS

Early == {"key", "chain"}
Late == {"wallet", "create", "save"}

\* A page does nothing else before its load is done.
LoadFirst == \A p \in Pages :
  /\ load[p].step # "done" => /\ ~loaded[p] /\ calls[p] = {}
                              /\ session[p] = NoId /\ idle[p] = "off"
  /\ load[p].step = "done" => loaded[p]
  /\ load[p].step \in Early => agent[p] = NoId
  /\ load[p].step \in Late => load[p].id.chain # 0

\* What is known of a session that was made stays so.
CallMade(c) ==
  /\ c.made <= minted
  /\ c.step # "sign" => c.made # 0 /\ owner[c.made] = c.user
  /\ c.kind = "signin" => c.user \in Users /\ c.step # "sign"
  /\ c.step \in {"current", "save"} => c.user \in Users
  /\ c.kind = "renew" => c.first /\ (~c.device => c.user = Nobody)

Made == \A p \in Pages :
  /\ load[p].id.chain <= minted /\ load[p].id.key <= minted
  /\ session[p].chain <= minted
  /\ load[p].step = "save" => UserOf(load[p].id) \in Users
  /\ \A c \in calls[p] : CallMade(c)

\* A call that nothing overtook is the only one of its page, and a renewal is
\* for the user that the page shows.
Alone == \A p \in Pages : ~overtaken[p] =>
  /\ \A c, d \in calls[p] : c = d
  /\ \A c \in calls[p] : c.kind = "renew" /\ c.device =>
        session[p] # NoId /\ c.user = UserOf(session[p])

\* As long as no two writers met, one call is between its two writes at most,
\* no load reads then, and the stored key and chain belong together.
OneWriter ==
  /\ \A p, q \in Pages : \A c \in calls[p], d \in calls[q] :
       c.step = "chain" /\ d.step = "chain" => p = q /\ c = d
  /\ \A p \in Pages : \A c \in calls[p] : c.step = "chain" => key = c.made
  /\ (\A p \in Pages : ~Halfway(p)) => key = chain
ReadsPair == \A p \in Pages :
  /\ load[p].step = "chain" => /\ \A q \in Pages : ~Halfway(q)
                               /\ chain \in {0, load[p].id.key}
  /\ load[p].step \in Late => load[p].id.key = load[p].id.chain

Together == ~mixed => OneWriter /\ ReadsPair

IInv ==
  /\ TypeOK /\ LoadFirst /\ Made /\ Alone /\ Together
  /\ ShowsLastSignIn /\ AgentIsSession

-----------------------------------------------------------------------------

LoadTypes == [step : {"key", "chain", "wallet", "create", "save", "done",
                      "stuck"}, id : Ids]

LEMMA NoIdType == NoId \in Ids /\ NoId.chain = 0 /\ NoId.key = 0
  BY AuthAssumption DEF Ids, NoId

LEMMA IdTypes ==
  ASSUME NEW c \in Calls
  PROVE  /\ Id(c) \in Ids /\ Id(c).key = c.made /\ Id(c).chain = c.made
         /\ c.made # 0 => Id(c) # NoId
  BY AuthAssumption DEF Calls, Ids, Id, NoId

LEMMA CallFields ==
  ASSUME NEW c \in Calls
  PROVE  /\ c.kind \in {"signin", "renew"} /\ c.step \in Steps
         /\ c.made \in 0..MaxSessions /\ c.device \in BOOLEAN
         /\ c.first \in BOOLEAN /\ c.user \in Users \cup {Nobody}
  BY DEF Calls

-----------------------------------------------------------------------------
(* The steps again, by what they do.  The record that a step adds has a name, *)
(* and the lemmas say what its fields are.                                    *)

Known == UNCHANGED <<owner, minted, expired>>
Others == UNCHANGED <<deleting, renewing, leaving>>
Marks == UNCHANGED <<last, overtaken, astray, broken>>

LoadRecord(step, id) == [step |-> step, id |-> id]
LoadsTo(p, step, id) == load' = [load EXCEPT ![p] = LoadRecord(step, id)]

KeyRead == [NoId EXCEPT !.key = key]
PairRead(p) == [load[p].id EXCEPT !.chain = chain]

ReadsKey(p) ==
  /\ load[p].step = "key" /\ LoadsTo(p, "chain", KeyRead)
  /\ mixed' = (mixed \/ \E q \in Pages : Halfway(q))
  /\ Known /\ Others /\ Marks
  /\ UNCHANGED <<key, chain, profiles, loaded, session, agent, calls, idle,
                 trouble>>

ReadsChain(p) ==
  /\ load[p].step = "chain" /\ load[p].id.key # 0 /\ chain # 0
  /\ LoadsTo(p, "wallet", PairRead(p))
  /\ Known /\ Others /\ Marks
  /\ UNCHANGED <<key, chain, profiles, loaded, session, agent, calls, idle,
                 mixed, trouble>>

ReadsNothing(p) ==
  /\ load[p].step \in Early /\ LoadsTo(p, "done", NoId)
  /\ loaded' = [loaded EXCEPT ![p] = TRUE]
  /\ session' = [session EXCEPT ![p] = NoId]
  /\ trouble' \in 0..MaxTrouble
  /\ Known /\ Others /\ Marks
  /\ UNCHANGED <<key, chain, profiles, agent, calls, idle, mixed>>

Misses(p) ==
  /\ load[p].step = "wallet" /\ LoadsTo(p, "create", load[p].id)
  /\ agent' = [agent EXCEPT ![p] = load[p].id]
  /\ Known /\ Others /\ Marks
  /\ UNCHANGED <<key, chain, profiles, loaded, session, calls, idle, mixed,
                 trouble>>

Learns(p) ==
  /\ load[p].step = "create" /\ LoadsTo(p, "save", load[p].id)
  /\ UserOf(load[p].id) \in Users
  /\ Known /\ Others /\ Marks
  /\ UNCHANGED <<key, chain, profiles, loaded, session, agent, calls, idle,
                 mixed, trouble>>

Sticks(p) ==
  /\ load[p].step \in Late /\ LoadsTo(p, "stuck", load[p].id)
  /\ broken' \in [Pages -> BOOLEAN] /\ trouble' \in 0..MaxTrouble
  /\ Known /\ Others
  /\ UNCHANGED <<key, chain, profiles, loaded, session, agent, calls, idle,
                 last, overtaken, astray, mixed>>

Shows(p) ==
  /\ load[p].step \in Late /\ LoadsTo(p, "done", NoId)
  /\ Publish(p, load[p].id) /\ profiles' \subseteq Users
  /\ loaded' = [loaded EXCEPT ![p] = TRUE]
  /\ UserOf(load[p].id) \in Users \cup {Nobody}
  /\ last' = [last EXCEPT ![p] = UserOf(load[p].id)]
  /\ Known /\ Others
  /\ UNCHANGED <<key, chain, calls, overtaken, mixed, broken, trouble>>

NewSignIn(u, f) ==
  [kind |-> "signin", made |-> minted + 1, user |-> u,
   step |-> IF f.first THEN "key" ELSE "create",
   device |-> f.device, first |-> f.first]

NewRenewal(p) ==
  [kind |-> "renew", step |-> "sign", made |-> 0,
   device |-> session[p].device, first |-> TRUE,
   user |-> IF session[p].device THEN UserOf(session[p]) ELSE Nobody]

At(c, step) == [c EXCEPT !.step = step]
SignedBy(c) == [c EXCEPT !.step = "key", !.made = minted + 1]
Swaps(p, c, d) == calls' = [calls EXCEPT ![p] = (@ \ {c}) \cup {d}]

Signs(p, u, f) ==
  /\ Mint(u)
  /\ calls' = [calls EXCEPT ![p] = @ \cup {NewSignIn(u, f)}]
  /\ agent' = IF f.first THEN agent
              ELSE [agent EXCEPT ![p] = Id(NewSignIn(u, f))]
  /\ overtaken' = [overtaken EXCEPT ![p] = @ \/ calls[p] # {}]
  /\ loaded[p] /\ Others
  /\ UNCHANGED <<expired, key, chain, profiles, loaded, session, load, idle,
                 last, astray, mixed, broken, trouble>>

Renews(p) ==
  /\ session[p].chain \in expired
  /\ calls' = [calls EXCEPT ![p] = @ \cup {NewRenewal(p)}]
  /\ renewing' = [renewing EXCEPT ![p] = TRUE]
  /\ overtaken' = [overtaken EXCEPT ![p] = @ \/ calls[p] # {}]
  /\ Known
  /\ UNCHANGED <<key, chain, profiles, deleting, loaded, session, agent, load,
                 idle, leaving, last, astray, mixed, broken, trouble>>

\* What the call steps leave alone.
CallFrame ==
  /\ deleting' \subseteq Pages
  /\ renewing' \in [Pages -> BOOLEAN] /\ leaving' \in [Pages -> BOOLEAN]
  /\ trouble' \in 0..MaxTrouble /\ mixed' \in BOOLEAN
  /\ UNCHANGED <<expired, load, broken>>

Mints(p, c) ==
  /\ c.step = "sign" /\ Mint(c.user) /\ Swaps(p, c, SignedBy(c))
  /\ CallFrame
  /\ UNCHANGED <<key, chain, profiles, loaded, session, agent, idle, last,
                 overtaken, astray, mixed>>

Drops(p, c) ==
  /\ Ends(p, c) /\ CallFrame
  /\ \/ c.step \notin {"create", "current", "save"} /\ UNCHANGED astray
     \/ astray' = [astray EXCEPT ![p] = TRUE]
  /\ \/ c.step # "chain" /\ UNCHANGED mixed
     \/ mixed'
  /\ UNCHANGED <<owner, minted, key, chain, profiles, loaded, session, agent,
                 idle, last, overtaken>>

FailsAndResets(p, c) ==
  /\ Ends(p, c) /\ Reset(p) /\ CallFrame
  /\ \/ c.step # "chain" /\ UNCHANGED mixed
     \/ mixed'
  /\ UNCHANGED <<owner, minted, key, chain, profiles, idle>>

PutsKey(p, c) ==
  /\ c.step = "key" /\ key' = c.made /\ Swaps(p, c, At(c, "chain"))
  /\ CallFrame
  /\ mixed' = (mixed \/ \E q \in Pages : Halfway(q) \/ load[q].step = "chain")
  /\ UNCHANGED <<owner, minted, chain, profiles, loaded, session, agent, idle,
                 last, overtaken, astray>>

PutsChainFirst(p, c) ==
  /\ c.step = "chain" /\ chain' = c.made /\ Swaps(p, c, At(c, "create"))
  /\ agent' = [agent EXCEPT ![p] = Id(c)] /\ CallFrame
  /\ UNCHANGED <<owner, minted, key, profiles, loaded, session, idle, last,
                 overtaken, astray, mixed>>

PutsChainLast(p, c) ==
  /\ c.step = "chain" /\ chain' = c.made /\ Ends(p, c) /\ CallFrame
  /\ UNCHANGED <<owner, minted, key, profiles, loaded, session, agent, idle,
                 last, overtaken, astray, mixed>>

Creates(p, c) ==
  /\ c.step = "create" /\ UserOf(Id(c)) \in Users
  /\ Swaps(p, c, At(c, "current")) /\ CallFrame
  /\ UNCHANGED <<owner, minted, key, chain, profiles, loaded, session, agent,
                 idle, last, overtaken, astray, mixed>>

Compares(p, c) ==
  /\ c.step = "current" /\ Swaps(p, c, At(c, "save")) /\ CallFrame
  /\ agent' \in {agent, [agent EXCEPT ![p] = Id(c)]}
  /\ UNCHANGED <<owner, minted, key, chain, profiles, loaded, session, idle,
                 last, overtaken, astray, mixed>>

SavedFrame(p, c) ==
  /\ c.step = "save" /\ profiles' = profiles \cup {c.user}
  /\ Publish(p, Id(c))
  /\ last' = [last EXCEPT ![p] = IF c.kind = "signin" THEN c.user ELSE @]
  /\ CallFrame
  /\ UNCHANGED <<owner, minted, key, chain, loaded, overtaken, mixed>>

Saves(p, c) == c.first /\ Ends(p, c) /\ SavedFrame(p, c)
SavesFirst(p, c) == ~c.first /\ Swaps(p, c, At(c, "key")) /\ SavedFrame(p, c)

Resets(p) ==
  /\ loaded[p] /\ Reset(p) /\ idle' \in {idle, [idle EXCEPT ![p] = "fired"]}
  /\ Known
  /\ UNCHANGED <<key, chain, profiles, deleting, load, calls, renewing,
                 leaving, mixed, broken, trouble>>

Forgets(p) ==
  /\ deleting' \subseteq Pages /\ leaving' \in [Pages -> BOOLEAN]
  /\ \/ UNCHANGED <<key, chain, mixed>>
     \/ /\ key' = 0 /\ chain' = 0
        /\ mixed' = (mixed \/ \E q \in Pages : Halfway(q))
  /\ Known
  /\ UNCHANGED <<profiles, loaded, session, agent, load, calls, renewing,
                 idle, last, overtaken, astray, broken, trouble>>

LEMMA CallRecords ==
  ASSUME TypeOK, NEW c \in Calls
  PROVE  /\ \A s \in Steps :
              /\ At(c, s) \in Calls /\ At(c, s).step = s
              /\ At(c, s).kind = c.kind /\ At(c, s).made = c.made
              /\ At(c, s).user = c.user /\ At(c, s).device = c.device
              /\ At(c, s).first = c.first
         /\ minted < MaxSessions =>
              /\ SignedBy(c) \in Calls /\ SignedBy(c).step = "key"
              /\ SignedBy(c).kind = c.kind /\ SignedBy(c).made = minted + 1
              /\ SignedBy(c).user = c.user /\ SignedBy(c).device = c.device
              /\ SignedBy(c).first = c.first
<1>1. ASSUME NEW s \in Steps
      PROVE  /\ At(c, s) \in Calls /\ At(c, s).step = s
             /\ At(c, s).kind = c.kind /\ At(c, s).made = c.made
             /\ At(c, s).user = c.user /\ At(c, s).device = c.device
             /\ At(c, s).first = c.first
  BY DEF At, Calls
<1>2. ASSUME minted < MaxSessions
      PROVE  /\ SignedBy(c) \in Calls /\ SignedBy(c).step = "key"
             /\ SignedBy(c).kind = c.kind /\ SignedBy(c).made = minted + 1
             /\ SignedBy(c).user = c.user /\ SignedBy(c).device = c.device
             /\ SignedBy(c).first = c.first
  <2>1. minted + 1 \in 0..MaxSessions
    BY <1>2, AuthAssumption DEF TypeOK
  <2> QED
    BY <2>1 DEF SignedBy, Calls, Steps
<1> QED
  BY <1>1, <1>2

LEMMA LoadRecords ==
  ASSUME TypeOK
  PROVE  /\ \A id \in Ids :
              \A s \in {"key", "chain", "wallet", "create", "save", "done",
                        "stuck"} :
                /\ LoadRecord(s, id) \in LoadTypes
                /\ LoadRecord(s, id).step = s /\ LoadRecord(s, id).id = id
         /\ KeyRead \in Ids /\ KeyRead.key = key /\ KeyRead.chain = 0
         /\ \A p \in Pages :
              /\ load[p] \in LoadTypes /\ load[p].id \in Ids
              /\ load[p].id.key \in 0..MaxSessions
              /\ load[p].id.chain \in 0..MaxSessions
              /\ PairRead(p) \in Ids /\ PairRead(p).key = load[p].id.key
              /\ PairRead(p).chain = chain
<1>1. ASSUME NEW id \in Ids,
             NEW s \in {"key", "chain", "wallet", "create", "save", "done",
                        "stuck"}
      PROVE  /\ LoadRecord(s, id) \in LoadTypes
             /\ LoadRecord(s, id).step = s /\ LoadRecord(s, id).id = id
  BY DEF LoadRecord, LoadTypes
<1>2. key \in 0..MaxSessions /\ chain \in 0..MaxSessions
  BY AuthAssumption DEF TypeOK
<1>3. KeyRead \in Ids /\ KeyRead.key = key /\ KeyRead.chain = 0
  BY <1>2, NoIdType DEF KeyRead, Ids
<1>4. ASSUME NEW p \in Pages
      PROVE  /\ load[p] \in LoadTypes /\ load[p].id \in Ids
             /\ load[p].id.key \in 0..MaxSessions
             /\ load[p].id.chain \in 0..MaxSessions
             /\ PairRead(p) \in Ids /\ PairRead(p).key = load[p].id.key
             /\ PairRead(p).chain = chain
  <2>1. load[p] \in LoadTypes
    BY DEF TypeOK, LoadTypes
  <2>2. load[p].id \in Ids
    BY <2>1 DEF LoadTypes
  <2> QED
    BY <1>2, <2>1, <2>2 DEF PairRead, Ids
<1> QED
  BY <1>1, <1>3, <1>4

LEMMA NewSignIns ==
  ASSUME TypeOK, NEW u \in Users, NEW f \in Flows
  PROVE  /\ minted < MaxSessions =>
              NewSignIn(u, f) \in Calls /\ NewSignIn(u, f).made = minted + 1
         /\ NewSignIn(u, f).kind = "signin" /\ NewSignIn(u, f).user = u
         /\ NewSignIn(u, f).step = IF f.first THEN "key" ELSE "create"
<1>1. f.device \in BOOLEAN /\ f.first \in BOOLEAN
  BY AuthAssumption
<1>2. ASSUME minted < MaxSessions
      PROVE  NewSignIn(u, f) \in Calls /\ NewSignIn(u, f).made = minted + 1
  <2>1. minted + 1 \in 0..MaxSessions
    BY <1>2, AuthAssumption DEF TypeOK
  <2> QED
    BY <1>1, <2>1 DEF NewSignIn, Calls, Steps
<1>3. /\ NewSignIn(u, f).kind = "signin" /\ NewSignIn(u, f).user = u
      /\ NewSignIn(u, f).step = IF f.first THEN "key" ELSE "create"
  BY DEF NewSignIn
<1> QED
  BY <1>2, <1>3

LEMMA NewRenewals ==
  ASSUME TypeOK, NEW p \in Pages
  PROVE  /\ NewRenewal(p) \in Calls /\ NewRenewal(p).kind = "renew"
         /\ NewRenewal(p).step = "sign" /\ NewRenewal(p).made = 0
         /\ NewRenewal(p).first
         /\ NewRenewal(p).device = session[p].device
         /\ NewRenewal(p).user =
              IF session[p].device THEN UserOf(session[p]) ELSE Nobody
<1>1. session[p] \in Ids /\ session[p].device \in BOOLEAN
      /\ UserOf(session[p]) \in Users \cup {Nobody}
  BY AuthAssumption DEF TypeOK, Ids, UserOf, Sessions
<1>2. NewRenewal(p) \in Calls
  BY <1>1, AuthAssumption DEF NewRenewal, Calls, Steps
<1>3. /\ NewRenewal(p).kind = "renew"
      /\ NewRenewal(p).step = "sign" /\ NewRenewal(p).made = 0
      /\ NewRenewal(p).first
      /\ NewRenewal(p).device = session[p].device
      /\ NewRenewal(p).user =
           IF session[p].device THEN UserOf(session[p]) ELSE Nobody
  BY DEF NewRenewal
<1> QED
  BY <1>2, <1>3



\* What a step is.
LEMMA StepKinds ==
  ASSUME TypeOK, LoadFirst, Made, [Next]_vars
  PROVE  \/ Expire
         \/ \E p \in Pages : ReadsKey(p)
         \/ \E p \in Pages : ReadsChain(p)
         \/ \E p \in Pages : ReadsNothing(p)
         \/ \E p \in Pages : Misses(p)
         \/ \E p \in Pages : Learns(p)
         \/ \E p \in Pages : Sticks(p)
         \/ \E p \in Pages : Shows(p)
         \/ \E p \in Pages, u \in Users, f \in Flows : Signs(p, u, f)
         \/ \E p \in Pages : Renews(p)
         \/ \E p \in Pages : \E c \in calls[p] : Mints(p, c)
         \/ \E p \in Pages : \E c \in calls[p] : Drops(p, c)
         \/ \E p \in Pages : \E c \in calls[p] : FailsAndResets(p, c)
         \/ \E p \in Pages : \E c \in calls[p] : PutsKey(p, c)
         \/ \E p \in Pages : \E c \in calls[p] : PutsChainFirst(p, c)
         \/ \E p \in Pages : \E c \in calls[p] : PutsChainLast(p, c)
         \/ \E p \in Pages : \E c \in calls[p] : Creates(p, c)
         \/ \E p \in Pages : \E c \in calls[p] : Compares(p, c)
         \/ \E p \in Pages : \E c \in calls[p] : Saves(p, c)
         \/ \E p \in Pages : \E c \in calls[p] : SavesFirst(p, c)
         \/ \E p \in Pages : Resets(p)
         \/ \E p \in Pages : Reload(p)
         \/ \E p \in Pages : Forgets(p)
         \/ UNCHANGED vars
<1> USE AuthAssumption, NoIdType
<1>1. ASSUME NEW p \in Pages, LoadKey(p)
    PROVE  ReadsKey(p) \/ ReadsNothing(p)
  <2>1. CASE ~LoadNothing(p)
    BY <1>1, <2>1 DEF ReadsKey, LoadsTo, Known, Others, Marks, LoadKey,
      LoadGoesOn, LoadNothing, Loads, LoadRecord, Loading, Trouble,
      NoTrouble, Early, Late, disk, known, TypeOK, KeyRead
  <2>2. CASE LoadNothing(p)
    BY <1>1, <2>2 DEF ReadsNothing, LoadsTo, Known, Others, Marks,
      LoadKey, LoadGoesOn, LoadNothing, Loads, LoadRecord, Loading,
      Trouble, NoTrouble, Early, Late, disk, known, TypeOK, ghosts
  <2> QED
    BY <1>1, <2>1, <2>2
<1>2. ASSUME NEW p \in Pages, LoadChain(p)
    PROVE  ReadsChain(p) \/ ReadsNothing(p)
  <2>1. CASE ~LoadNothing(p)
    BY <1>2, <2>1 DEF ReadsChain, LoadsTo, Known, Others, Marks,
      LoadChain, LoadGoesOn, LoadNothing, Loads, LoadRecord, Loading,
      Trouble, NoTrouble, Early, Late, disk, known, TypeOK, PairRead
  <2>2. CASE LoadNothing(p)
    BY <1>2, <2>2 DEF ReadsNothing, LoadsTo, Known, Others, Marks,
      LoadChain, LoadGoesOn, LoadNothing, Loads, LoadRecord, Loading,
      Trouble, NoTrouble, Early, Late, disk, known, TypeOK, ghosts
  <2> QED
    BY <1>2, <2>1, <2>2
<1>3. ASSUME NEW p \in Pages, LoadWallet(p)
    PROVE  Shows(p) \/ Misses(p) \/ Sticks(p)
  <2>1. CASE LoadFails(p)
    BY <1>3, <2>1 DEF Sticks, LoadsTo, Known, Others, Marks, LoadWallet,
      LoadGoesOn, LoadPublishes, LoadFails, Loads, LoadRecord, Loading,
      Trouble, NoTrouble, Early, Late, disk, known, TypeOK
  <2>2. CASE LoadPublishes(p) /\ UNCHANGED profiles /\ NoTrouble
    <3>1. UserOf(load[p].id) \in Users \cup {Nobody}
      BY LoadRecords DEF TypeOK, UserOf, Sessions
    <3>2. LoadPublishes(p) /\ load[p].step \in Late /\ UNCHANGED trouble
      BY <1>3, <2>2 DEF LoadWallet, Loading, Late, NoTrouble
    <3>3. profiles' \subseteq Users
      BY <1>3, <2>2 DEF LoadWallet, Loading, TypeOK
    <3> QED
      BY <3>1, <3>2, <3>3 DEF Shows, LoadPublishes, Loads, LoadsTo,
        LoadRecord, Known, Others, known
  <2>3. CASE ~LoadFails(p) /\ ~(LoadPublishes(p) /\ UNCHANGED profiles /\ NoTrouble)
    BY <1>3, <2>3 DEF Misses, LoadsTo, Known, Others, Marks, LoadWallet,
      LoadGoesOn, LoadPublishes, LoadFails, Loads, LoadRecord, Loading,
      Trouble, NoTrouble, Early, Late, disk, known, TypeOK
  <2> QED
    BY <1>3, <2>1, <2>2, <2>3 DEF LoadWallet
<1>4. ASSUME NEW p \in Pages, LoadCreate(p)
    PROVE  Learns(p) \/ Sticks(p)
  <2>1. CASE LoadFails(p)
    BY <1>4, <2>1 DEF Sticks, LoadsTo, Known, Others, Marks, LoadCreate,
      LoadGoesOn, LoadFails, Usable, Loads, LoadRecord, Loading, Trouble,
      NoTrouble, Early, Late, disk, known, TypeOK
  <2>2. CASE ~LoadFails(p) /\ Usable(load[p].id)
    BY <1>4, <2>2 DEF Learns, LoadsTo, Known, Others, Marks, LoadCreate,
      LoadGoesOn, LoadFails, Usable, Loads, LoadRecord, Loading, Trouble,
      NoTrouble, Early, Late, disk, known, TypeOK
  <2>3. CASE ~LoadFails(p) /\ ~Usable(load[p].id)
    BY <1>4, <2>3 DEF Sticks, LoadsTo, Known, Others, Marks, LoadCreate,
      LoadGoesOn, LoadFails, Usable, Loads, LoadRecord, Loading, Trouble,
      NoTrouble, Early, Late, disk, known, TypeOK
  <2> QED
    BY <1>4, <2>1, <2>2, <2>3
<1>5. ASSUME NEW p \in Pages, LoadSave(p)
    PROVE  Shows(p) \/ Sticks(p)
  <2>1. CASE LoadFails(p)
    BY <1>5, <2>1 DEF Sticks, LoadsTo, Known, Others, Marks, LoadSave,
      LoadGoesOn, LoadPublishes, LoadFails, Loads, LoadRecord, Loading,
      Trouble, NoTrouble, Early, Late, disk, known, TypeOK
  <2>2. CASE ~LoadFails(p)
    <3>1. UserOf(load[p].id) \in Users \cup {Nobody}
      BY LoadRecords DEF TypeOK, UserOf, Sessions
    <3>2. LoadPublishes(p) /\ load[p].step \in Late /\ UNCHANGED trouble
      BY <1>5, <2>2 DEF LoadSave, Loading, Late, NoTrouble
    <3>3. profiles' \subseteq Users
      BY <1>5, <2>2 DEF LoadSave, Loading, TypeOK, Made
    <3> QED
      BY <3>1, <3>2, <3>3 DEF Shows, LoadPublishes, Loads, LoadsTo,
        LoadRecord, Known, Others, known
  <2> QED
    BY <1>5, <2>1, <2>2
<1>6. ASSUME NEW p \in Pages, NEW u \in Users, SignIn(p, u)
    PROVE  \E f \in Flows : Signs(p, u, f)
  BY <1>6 DEF SignIn, Signs, NewSignIn, Free, Others, disk
<1>7. ASSUME NEW p \in Pages, Renew(p)
    PROVE  Renews(p)
  BY <1>7 DEF Renew, Renews, NewRenewal, known, disk, ghosts, Known
<1>8. ASSUME NEW p \in Pages, NEW c \in calls[p], Signed(p, c)
    PROVE  Mints(p, c) \/ Drops(p, c)
  <2>1. Idles(p, c) => renewing' \in [Pages -> BOOLEAN]
    BY DEF Idles, TypeOK
  <2>2. ASSUME RenewalFails(p, c), Trouble, c.step = "sign",
             UNCHANGED <<owner, minted, key, chain, mixed>>,
             UNCHANGED <<expired, profiles, load, idle, broken>>
        PROVE  Drops(p, c)
    BY <1>8, <2>1, <2>2 DEF RenewalFails, Drops, Ends, HardReset,
      Trouble, CallFrame, TypeOK
  <2> QED
    BY <1>8, <2>1, <2>2 DEF Signed, Mints, Swaps, SignedBy, CallFrame,
      NoTrouble, TypeOK
<1>9. ASSUME NEW p \in Pages, NEW c \in calls[p], StoreKey(p, c)
    PROVE  PutsKey(p, c) \/ Drops(p, c) \/ FailsAndResets(p, c)
  <2>1. Idles(p, c) => renewing' \in [Pages -> BOOLEAN]
    BY DEF Idles, TypeOK
  <2>2. ASSUME RenewalFails(p, c), Trouble, c.step = "key",
             UNCHANGED <<owner, minted, key, chain, mixed>>,
             UNCHANGED <<expired, profiles, load, idle, broken>>
        PROVE  Drops(p, c)
    BY <1>9, <2>1, <2>2 DEF RenewalFails, Drops, Ends,
      HardReset, Trouble, CallFrame, TypeOK
  <2>3. ASSUME StoreFails(p, c), UNCHANGED <<known, profiles, load, idle, broken>>,
             UNCHANGED mixed
        PROVE  Drops(p, c) \/ FailsAndResets(p, c)
    <3>1. CASE RenewalFails(p, c)
      BY <1>9, <2>2, <2>3, <3>1 DEF StoreFails, known, StoreKey
    <3>2. CASE PasskeyFails(p, c)
      BY <1>9, <2>3, <3>2 DEF StoreFails, known, PasskeyFails,
        FailsAndResets, CallFrame, Trouble, TypeOK, StoreKey
    <3>3. CASE Ends(p, c) /\ UNCHANGED <<deleting, loaded, session, agent, renewing,
                              leaving, last, overtaken, astray>>
      BY <1>9, <2>3, <3>3 DEF StoreFails, known, Drops, CallFrame,
        Trouble, TypeOK, StoreKey
    <3> QED
      BY <2>3, <3>1, <3>2, <3>3 DEF StoreFails
  <2> QED
    BY <1>9, <2>1, <2>3 DEF StoreKey, PutsKey, Swaps, Moves, At, Loading,
      CallFrame, NoTrouble, TypeOK, known
<1>10. ASSUME NEW p \in Pages, NEW c \in calls[p], StoreChain(p, c)
    PROVE  PutsChainFirst(p, c) \/ PutsChainLast(p, c) \/ Drops(p, c) \/ FailsAndResets(p, c)
  <2>1. Idles(p, c) => renewing' \in [Pages -> BOOLEAN]
    BY DEF Idles, TypeOK
  <2>2. ASSUME RenewalFails(p, c), Trouble, c.step = "chain",
             UNCHANGED <<owner, minted, key, chain>>, mixed' = TRUE,
             UNCHANGED <<expired, profiles, load, idle, broken>>
        PROVE  Drops(p, c)
    BY <1>10, <2>1, <2>2 DEF RenewalFails, Drops, Ends,
      HardReset, Trouble, CallFrame, TypeOK
  <2>3. ASSUME StoreFails(p, c), UNCHANGED <<known, profiles, load, idle, broken>>,
             mixed' = TRUE
        PROVE  Drops(p, c) \/ FailsAndResets(p, c)
    <3>1. CASE RenewalFails(p, c)
      BY <1>10, <2>2, <2>3, <3>1 DEF StoreFails, known, StoreChain
    <3>2. CASE PasskeyFails(p, c)
      BY <1>10, <2>3, <3>2 DEF StoreFails, known, PasskeyFails,
        FailsAndResets, CallFrame, Trouble, TypeOK, StoreChain
    <3>3. CASE Ends(p, c) /\ UNCHANGED <<deleting, loaded, session, agent, renewing,
                              leaving, last, overtaken, astray>>
      BY <1>10, <2>3, <3>3 DEF StoreFails, known, Drops, CallFrame,
        Trouble, TypeOK, StoreChain
    <3> QED
      BY <2>3, <3>1, <3>2, <3>3 DEF StoreFails
  <2>4. CASE StoreFails(p, c) /\ mixed' = TRUE
    BY <1>10, <2>3, <2>4 DEF StoreChain
  <2>5. CASE ~(StoreFails(p, c) /\ mixed' = TRUE)
    BY <1>10, <2>1, <2>5 DEF StoreChain, PutsChainFirst, PutsChainLast,
      Swaps, Moves, At, CallFrame, NoTrouble, TypeOK, known
  <2> QED
    BY <2>4, <2>5
<1>11. ASSUME NEW p \in Pages, NEW c \in calls[p], SetCreate(p, c)
    PROVE  Creates(p, c) \/ Drops(p, c) \/ FailsAndResets(p, c)
  BY <1>11 DEF SetCreate, Creates, Drops, FailsAndResets, SetGoesOn,
    SetFails, PasskeyFails, Usable, CallFrame, Trouble, NoTrouble, known,
    Moves, Swaps, At, SignedBy, Idles, HardReset, Ends, SavedFrame, TypeOK
<1>12. ASSUME NEW p \in Pages, NEW c \in calls[p], SetCurrent(p, c)
    PROVE  Compares(p, c) \/ Drops(p, c) \/ FailsAndResets(p, c)
  BY <1>12 DEF SetCurrent, Compares, Drops, FailsAndResets, SetGoesOn,
    SetFails, PasskeyFails, CallFrame, Trouble, NoTrouble, known, Moves,
    Swaps, At, SignedBy, Idles, HardReset, Ends, SavedFrame, TypeOK
<1>13. ASSUME NEW p \in Pages, NEW c \in calls[p], SetSave(p, c)
    PROVE  Saves(p, c) \/ SavesFirst(p, c) \/ Drops(p, c) \/ FailsAndResets(p, c)
  BY <1>13 DEF SetSave, Saves, SavesFirst, Drops, FailsAndResets, SetFails,
    PasskeyFails, CallFrame, Trouble, NoTrouble, known, Moves, Swaps, At,
    SignedBy, Idles, HardReset, Ends, SavedFrame, TypeOK
<1>14. ASSUME NEW p \in Pages, Idle(p)
    PROVE  Resets(p)
  BY <1>14 DEF Idle, Resets, known, Known, TypeOK, disk, LoadFirst
<1>15. ASSUME NEW p \in Pages, SignOut(p)
    PROVE  Resets(p)
  BY <1>15 DEF SignOut, Resets, known, Known, TypeOK, disk, Free
<1>16. ASSUME NEW p \in Pages, SignOutHard(p)
    PROVE  Forgets(p)
  BY <1>16 DEF SignOutHard, Forgets, known, Known, TypeOK, HardReset, ghosts
<1>17. ASSUME NEW p \in Pages, Deleted(p)
    PROVE  Forgets(p)
  BY <1>17 DEF Deleted, Forgets, known, Known, TypeOK, page
<1>18. ASSUME NEW p \in Pages, Forgotten(p)
    PROVE  Forgets(p)
  BY <1>18 DEF Forgotten, Forgets, known, Known, TypeOK, page, ghosts
<1> HIDE AuthAssumption, NoIdType
<1> QED
  BY <1>1, <1>2, <1>3, <1>4, <1>5, <1>6, <1>7, <1>8, <1>9, <1>10, <1>11,
    <1>12, <1>13, <1>14, <1>15, <1>16, <1>17, <1>18 DEF Next, Load, Call

\* Every step keeps the types.
LEMMA TypeStep ==
  ASSUME TypeOK, LoadFirst, Made, [Next]_vars
  PROVE  TypeOK'
<1> USE AuthAssumption, NoIdType DEF LoadTypes
<1>1. ASSUME Expire
    PROVE  TypeOK'
  BY <1>1 DEF Expire, vars, known, disk, page, ghosts, TypeOK
<1>2. ASSUME NEW p \in Pages, ReadsKey(p)
    PROVE  TypeOK'
  BY <1>2, LoadRecords DEF ReadsKey, LoadsTo, Known, Others, Marks, TypeOK
<1>3. ASSUME NEW p \in Pages, ReadsChain(p)
    PROVE  TypeOK'
  BY <1>3, LoadRecords DEF ReadsChain, LoadsTo, Known, Others, Marks, TypeOK
<1>4. ASSUME NEW p \in Pages, ReadsNothing(p)
    PROVE  TypeOK'
  BY <1>4, LoadRecords DEF ReadsNothing, LoadsTo, Known, Others, Marks,
    TypeOK
<1>5. ASSUME NEW p \in Pages, Misses(p)
    PROVE  TypeOK'
  BY <1>5, LoadRecords DEF Misses, LoadsTo, Known, Others, Marks, TypeOK
<1>6. ASSUME NEW p \in Pages, Learns(p)
    PROVE  TypeOK'
  BY <1>6, LoadRecords DEF Learns, LoadsTo, Known, Others, Marks, TypeOK
<1>7. ASSUME NEW p \in Pages, Sticks(p)
    PROVE  TypeOK'
  BY <1>7, LoadRecords DEF Sticks, LoadsTo, Known, Others, Marks, TypeOK
<1>8. ASSUME NEW p \in Pages, Shows(p)
    PROVE  TypeOK'
  <2>0. load[p].id \in Ids /\ load[p].id.chain # 0 /\ load[p].id # NoId
    BY <1>8, LoadRecords, NoIdType DEF Shows, LoadFirst
  <2>1. owner' \in [Sessions -> Users \cup {Nobody}]
    BY <1>8, <2>0 DEF Shows, Publish, LoadsTo, Known, Others, Marks, TypeOK
  <2>2. minted' \in 0..MaxSessions
    BY <1>8, <2>0 DEF Shows, Publish, LoadsTo, Known, Others, Marks, TypeOK
  <2>3. /\ expired' \subseteq 1..minted' /\ profiles' \subseteq Users
        /\ deleting' \subseteq Pages
    BY <1>8, <2>0 DEF Shows, Publish, LoadsTo, Known, Others, Marks, TypeOK
  <2>4. key' \in 0..minted' /\ chain' \in 0..minted'
    BY <1>8, <2>0 DEF Shows, Publish, LoadsTo, Known, Others, Marks, TypeOK
  <2>5. /\ loaded' \in [Pages -> BOOLEAN] /\ renewing' \in [Pages -> BOOLEAN]
        /\ leaving' \in [Pages -> BOOLEAN] /\ trouble' \in 0..MaxTrouble
    BY <1>8, <2>0 DEF Shows, Publish, LoadsTo, Known, Others, Marks, TypeOK
  <2>6. /\ overtaken' \in [Pages -> BOOLEAN] /\ astray' \in [Pages -> BOOLEAN]
        /\ broken' \in [Pages -> BOOLEAN]
    BY <1>8, <2>0 DEF Shows, Publish, LoadsTo, Known, Others, Marks, TypeOK
  <2>7. mixed' \in BOOLEAN
    BY <1>8, <2>0 DEF Shows, Publish, LoadsTo, Known, Others, Marks, TypeOK
  <2>8. /\ idle' \in [Pages -> {"off", "armed", "fired"}]
        /\ last' \in [Pages -> Users \cup {Nobody}]
    BY <1>8, <2>0 DEF Shows, Publish, LoadsTo, Known, Others, Marks, TypeOK
  <2>9. session' \in [Pages -> Ids] /\ agent' \in [Pages -> Ids]
    BY <1>8, <2>0 DEF Shows, Publish, LoadsTo, Known, Others, Marks, TypeOK
  <2>10. \A q \in Pages : (session'[q].chain = 0) = (session'[q] = NoId)
    BY <1>8, <2>0 DEF Shows, Publish, LoadsTo, Known, Others, Marks, TypeOK
  <2>11. load' \in [Pages -> LoadTypes]
    BY <1>8, <2>0, LoadRecords DEF Shows, Publish, LoadsTo, Known, Others,
      Marks, TypeOK, LoadTypes
  <2>12. calls' \in [Pages -> SUBSET Calls]
    BY <1>8, <2>0 DEF Shows, Publish, LoadsTo, Known, Others, Marks, TypeOK
  <2> QED
    BY <2>1, <2>2, <2>3, <2>4, <2>5, <2>6, <2>7, <2>8, <2>9, <2>10, <2>11,
      <2>12 DEF TypeOK, LoadTypes
<1>9. ASSUME NEW p \in Pages, NEW u \in Users, NEW f \in Flows, Signs(p, u, f)
    PROVE  TypeOK'
  <2>0. minted < MaxSessions => NewSignIn(u, f) \in Calls /\ Id(NewSignIn(u, f)) \in Ids
    BY NewSignIns, IdTypes
  <2>1. owner' \in [Sessions -> Users \cup {Nobody}]
    BY <1>9, <2>0 DEF Signs, Mint, Others, TypeOK
  <2>2. minted' \in 0..MaxSessions
    BY <1>9, <2>0 DEF Signs, Mint, Others, TypeOK
  <2>3. /\ expired' \subseteq 1..minted' /\ profiles' \subseteq Users
        /\ deleting' \subseteq Pages
    BY <1>9, <2>0 DEF Signs, Mint, Others, TypeOK
  <2>4. key' \in 0..minted' /\ chain' \in 0..minted'
    BY <1>9, <2>0 DEF Signs, Mint, Others, TypeOK
  <2>5. /\ loaded' \in [Pages -> BOOLEAN] /\ renewing' \in [Pages -> BOOLEAN]
        /\ leaving' \in [Pages -> BOOLEAN] /\ trouble' \in 0..MaxTrouble
    BY <1>9, <2>0 DEF Signs, Mint, Others, TypeOK
  <2>6. /\ overtaken' \in [Pages -> BOOLEAN] /\ astray' \in [Pages -> BOOLEAN]
        /\ broken' \in [Pages -> BOOLEAN]
    BY <1>9, <2>0 DEF Signs, Mint, Others, TypeOK
  <2>7. mixed' \in BOOLEAN
    BY <1>9, <2>0 DEF Signs, Mint, Others, TypeOK
  <2>8. /\ idle' \in [Pages -> {"off", "armed", "fired"}]
        /\ last' \in [Pages -> Users \cup {Nobody}]
    BY <1>9, <2>0 DEF Signs, Mint, Others, TypeOK
  <2>9. session' \in [Pages -> Ids] /\ agent' \in [Pages -> Ids]
    BY <1>9, <2>0 DEF Signs, Mint, Others, TypeOK
  <2>10. \A q \in Pages : (session'[q].chain = 0) = (session'[q] = NoId)
    BY <1>9, <2>0 DEF Signs, Mint, Others, TypeOK
  <2>11. load' \in [Pages -> LoadTypes]
    BY <1>9, <2>0 DEF Signs, Mint, Others, TypeOK, LoadTypes
  <2>12. calls' \in [Pages -> SUBSET Calls]
    BY <1>9, <2>0 DEF Signs, Mint, Others, TypeOK
  <2> QED
    BY <2>1, <2>2, <2>3, <2>4, <2>5, <2>6, <2>7, <2>8, <2>9, <2>10, <2>11,
      <2>12 DEF TypeOK, LoadTypes
<1>10. ASSUME NEW p \in Pages, Renews(p)
    PROVE  TypeOK'
  <2>0. NewRenewal(p) \in Calls
    BY NewRenewals
  <2>1. owner' \in [Sessions -> Users \cup {Nobody}]
    BY <1>10, <2>0 DEF Renews, Known, TypeOK
  <2>2. minted' \in 0..MaxSessions
    BY <1>10, <2>0 DEF Renews, Known, TypeOK
  <2>3. /\ expired' \subseteq 1..minted' /\ profiles' \subseteq Users
        /\ deleting' \subseteq Pages
    BY <1>10, <2>0 DEF Renews, Known, TypeOK
  <2>4. key' \in 0..minted' /\ chain' \in 0..minted'
    BY <1>10, <2>0 DEF Renews, Known, TypeOK
  <2>5. /\ loaded' \in [Pages -> BOOLEAN] /\ renewing' \in [Pages -> BOOLEAN]
        /\ leaving' \in [Pages -> BOOLEAN] /\ trouble' \in 0..MaxTrouble
    BY <1>10, <2>0 DEF Renews, Known, TypeOK
  <2>6. /\ overtaken' \in [Pages -> BOOLEAN] /\ astray' \in [Pages -> BOOLEAN]
        /\ broken' \in [Pages -> BOOLEAN]
    BY <1>10, <2>0 DEF Renews, Known, TypeOK
  <2>7. mixed' \in BOOLEAN
    BY <1>10, <2>0 DEF Renews, Known, TypeOK
  <2>8. /\ idle' \in [Pages -> {"off", "armed", "fired"}]
        /\ last' \in [Pages -> Users \cup {Nobody}]
    BY <1>10, <2>0 DEF Renews, Known, TypeOK
  <2>9. session' \in [Pages -> Ids] /\ agent' \in [Pages -> Ids]
    BY <1>10, <2>0 DEF Renews, Known, TypeOK
  <2>10. \A q \in Pages : (session'[q].chain = 0) = (session'[q] = NoId)
    BY <1>10, <2>0 DEF Renews, Known, TypeOK
  <2>11. load' \in [Pages -> LoadTypes]
    BY <1>10, <2>0 DEF Renews, Known, TypeOK, LoadTypes
  <2>12. calls' \in [Pages -> SUBSET Calls]
    BY <1>10, <2>0 DEF Renews, Known, TypeOK
  <2> QED
    BY <2>1, <2>2, <2>3, <2>4, <2>5, <2>6, <2>7, <2>8, <2>9, <2>10, <2>11,
      <2>12 DEF TypeOK, LoadTypes
<1>11. ASSUME NEW p \in Pages, NEW c \in calls[p], Mints(p, c)
    PROVE  TypeOK'
  <2>0. /\ c \in Calls /\ c.user \in Users \cup {Nobody}
        /\ c.made \in 0..MaxSessions /\ Id(c) \in Ids /\ Id(c).chain = c.made
        /\ c.made # 0 => Id(c) # NoId
    BY CallFields, IdTypes DEF TypeOK
  <2>1. owner' \in [Sessions -> Users \cup {Nobody}]
    BY <1>11, <2>0 DEF Mints, Mint, Swaps, CallFrame, TypeOK
  <2>2. minted' \in 0..MaxSessions
    BY <1>11, <2>0 DEF Mints, Mint, Swaps, CallFrame, TypeOK
  <2>3. /\ expired' \subseteq 1..minted' /\ profiles' \subseteq Users
        /\ deleting' \subseteq Pages
    BY <1>11, <2>0 DEF Mints, Mint, Swaps, CallFrame, TypeOK, Made, CallMade
  <2>4. key' \in 0..minted' /\ chain' \in 0..minted'
    BY <1>11, <2>0 DEF Mints, Mint, Swaps, CallFrame, TypeOK, Made, CallMade
  <2>5. /\ loaded' \in [Pages -> BOOLEAN] /\ renewing' \in [Pages -> BOOLEAN]
        /\ leaving' \in [Pages -> BOOLEAN] /\ trouble' \in 0..MaxTrouble
    BY <1>11, <2>0 DEF Mints, Mint, Swaps, CallFrame, TypeOK
  <2>6. /\ overtaken' \in [Pages -> BOOLEAN] /\ astray' \in [Pages -> BOOLEAN]
        /\ broken' \in [Pages -> BOOLEAN]
    BY <1>11, <2>0 DEF Mints, Mint, Swaps, CallFrame, TypeOK
  <2>7. mixed' \in BOOLEAN
    BY <1>11, <2>0 DEF Mints, Mint, Swaps, CallFrame, TypeOK
  <2>8. /\ idle' \in [Pages -> {"off", "armed", "fired"}]
        /\ last' \in [Pages -> Users \cup {Nobody}]
    BY <1>11, <2>0 DEF Mints, Mint, Swaps, CallFrame, TypeOK
  <2>9. session' \in [Pages -> Ids] /\ agent' \in [Pages -> Ids]
    BY <1>11, <2>0 DEF Mints, Mint, Swaps, CallFrame, TypeOK
  <2>10. \A q \in Pages : (session'[q].chain = 0) = (session'[q] = NoId)
    BY <1>11, <2>0 DEF Mints, Mint, Swaps, CallFrame, TypeOK, Made, CallMade
  <2>11. load' \in [Pages -> LoadTypes]
    BY <1>11, <2>0 DEF Mints, Mint, Swaps, CallFrame, TypeOK, LoadTypes
  <2>12. calls' \in [Pages -> SUBSET Calls]
    BY <1>11, <2>0, CallRecords DEF Mints, Mint, Swaps, CallFrame, TypeOK,
      Steps
  <2> QED
    BY <2>1, <2>2, <2>3, <2>4, <2>5, <2>6, <2>7, <2>8, <2>9, <2>10, <2>11,
      <2>12 DEF TypeOK, LoadTypes
<1>12. ASSUME NEW p \in Pages, NEW c \in calls[p], Drops(p, c)
    PROVE  TypeOK'
  <2>0. /\ c \in Calls /\ c.user \in Users \cup {Nobody}
        /\ c.made \in 0..MaxSessions /\ Id(c) \in Ids /\ Id(c).chain = c.made
        /\ c.made # 0 => Id(c) # NoId
    BY CallFields, IdTypes DEF TypeOK
  <2>1. owner' \in [Sessions -> Users \cup {Nobody}]
    BY <1>12, <2>0 DEF Drops, Ends, CallFrame, TypeOK
  <2>2. minted' \in 0..MaxSessions
    BY <1>12, <2>0 DEF Drops, Ends, CallFrame, TypeOK
  <2>3. /\ expired' \subseteq 1..minted' /\ profiles' \subseteq Users
        /\ deleting' \subseteq Pages
    BY <1>12, <2>0 DEF Drops, Ends, CallFrame, TypeOK, Made, CallMade
  <2>4. key' \in 0..minted' /\ chain' \in 0..minted'
    BY <1>12, <2>0 DEF Drops, Ends, CallFrame, TypeOK, Made, CallMade
  <2>5. /\ loaded' \in [Pages -> BOOLEAN] /\ renewing' \in [Pages -> BOOLEAN]
        /\ leaving' \in [Pages -> BOOLEAN] /\ trouble' \in 0..MaxTrouble
    BY <1>12, <2>0 DEF Drops, Ends, CallFrame, TypeOK
  <2>6. /\ overtaken' \in [Pages -> BOOLEAN] /\ astray' \in [Pages -> BOOLEAN]
        /\ broken' \in [Pages -> BOOLEAN]
    BY <1>12, <2>0 DEF Drops, Ends, CallFrame, TypeOK
  <2>7. mixed' \in BOOLEAN
    BY <1>12, <2>0 DEF Drops, Ends, CallFrame, TypeOK
  <2>8. /\ idle' \in [Pages -> {"off", "armed", "fired"}]
        /\ last' \in [Pages -> Users \cup {Nobody}]
    BY <1>12, <2>0 DEF Drops, Ends, CallFrame, TypeOK
  <2>9. session' \in [Pages -> Ids] /\ agent' \in [Pages -> Ids]
    BY <1>12, <2>0 DEF Drops, Ends, CallFrame, TypeOK
  <2>10. \A q \in Pages : (session'[q].chain = 0) = (session'[q] = NoId)
    BY <1>12, <2>0 DEF Drops, Ends, CallFrame, TypeOK, Made, CallMade
  <2>11. load' \in [Pages -> LoadTypes]
    BY <1>12, <2>0 DEF Drops, Ends, CallFrame, TypeOK, LoadTypes
  <2>12. calls' \in [Pages -> SUBSET Calls]
    BY <1>12, <2>0 DEF Drops, Ends, CallFrame, TypeOK
  <2> QED
    BY <2>1, <2>2, <2>3, <2>4, <2>5, <2>6, <2>7, <2>8, <2>9, <2>10, <2>11,
      <2>12 DEF TypeOK, LoadTypes
<1>13. ASSUME NEW p \in Pages, NEW c \in calls[p], FailsAndResets(p, c)
    PROVE  TypeOK'
  <2>1. c \in Calls
    BY DEF TypeOK
  <2> QED
    BY <1>13, <2>1, CallFields, IdTypes DEF FailsAndResets, Ends, Reset,
      CallFrame, TypeOK
<1>14. ASSUME NEW p \in Pages, NEW c \in calls[p], PutsKey(p, c)
    PROVE  TypeOK'
  <2>0. /\ c \in Calls /\ c.user \in Users \cup {Nobody}
        /\ c.made \in 0..MaxSessions /\ Id(c) \in Ids /\ Id(c).chain = c.made
        /\ c.made # 0 => Id(c) # NoId
    BY CallFields, IdTypes DEF TypeOK
  <2>1. owner' \in [Sessions -> Users \cup {Nobody}]
    BY <1>14, <2>0 DEF PutsKey, Swaps, CallFrame, TypeOK
  <2>2. minted' \in 0..MaxSessions
    BY <1>14, <2>0 DEF PutsKey, Swaps, CallFrame, TypeOK
  <2>3. /\ expired' \subseteq 1..minted' /\ profiles' \subseteq Users
        /\ deleting' \subseteq Pages
    BY <1>14, <2>0 DEF PutsKey, Swaps, CallFrame, TypeOK, Made, CallMade
  <2>4. key' \in 0..minted' /\ chain' \in 0..minted'
    BY <1>14, <2>0 DEF PutsKey, Swaps, CallFrame, TypeOK, Made, CallMade
  <2>5. /\ loaded' \in [Pages -> BOOLEAN] /\ renewing' \in [Pages -> BOOLEAN]
        /\ leaving' \in [Pages -> BOOLEAN] /\ trouble' \in 0..MaxTrouble
    BY <1>14, <2>0 DEF PutsKey, Swaps, CallFrame, TypeOK
  <2>6. /\ overtaken' \in [Pages -> BOOLEAN] /\ astray' \in [Pages -> BOOLEAN]
        /\ broken' \in [Pages -> BOOLEAN]
    BY <1>14, <2>0 DEF PutsKey, Swaps, CallFrame, TypeOK
  <2>7. mixed' \in BOOLEAN
    BY <1>14, <2>0 DEF PutsKey, Swaps, CallFrame, TypeOK
  <2>8. /\ idle' \in [Pages -> {"off", "armed", "fired"}]
        /\ last' \in [Pages -> Users \cup {Nobody}]
    BY <1>14, <2>0 DEF PutsKey, Swaps, CallFrame, TypeOK
  <2>9. session' \in [Pages -> Ids] /\ agent' \in [Pages -> Ids]
    BY <1>14, <2>0 DEF PutsKey, Swaps, CallFrame, TypeOK
  <2>10. \A q \in Pages : (session'[q].chain = 0) = (session'[q] = NoId)
    BY <1>14, <2>0 DEF PutsKey, Swaps, CallFrame, TypeOK, Made, CallMade
  <2>11. load' \in [Pages -> LoadTypes]
    BY <1>14, <2>0 DEF PutsKey, Swaps, CallFrame, TypeOK, LoadTypes
  <2>12. calls' \in [Pages -> SUBSET Calls]
    BY <1>14, <2>0, CallRecords DEF PutsKey, Swaps, CallFrame, TypeOK, Steps
  <2> QED
    BY <2>1, <2>2, <2>3, <2>4, <2>5, <2>6, <2>7, <2>8, <2>9, <2>10, <2>11,
      <2>12 DEF TypeOK, LoadTypes
<1>15. ASSUME NEW p \in Pages, NEW c \in calls[p], PutsChainFirst(p, c)
    PROVE  TypeOK'
  <2>0. /\ c \in Calls /\ c.user \in Users \cup {Nobody}
        /\ c.made \in 0..MaxSessions /\ Id(c) \in Ids /\ Id(c).chain = c.made
        /\ c.made # 0 => Id(c) # NoId
    BY CallFields, IdTypes DEF TypeOK
  <2>1. owner' \in [Sessions -> Users \cup {Nobody}]
    BY <1>15, <2>0 DEF PutsChainFirst, Swaps, CallFrame, TypeOK
  <2>2. minted' \in 0..MaxSessions
    BY <1>15, <2>0 DEF PutsChainFirst, Swaps, CallFrame, TypeOK
  <2>3. /\ expired' \subseteq 1..minted' /\ profiles' \subseteq Users
        /\ deleting' \subseteq Pages
    BY <1>15, <2>0 DEF PutsChainFirst, Swaps, CallFrame, TypeOK, Made,
      CallMade
  <2>4. key' \in 0..minted' /\ chain' \in 0..minted'
    BY <1>15, <2>0 DEF PutsChainFirst, Swaps, CallFrame, TypeOK, Made,
      CallMade
  <2>5. /\ loaded' \in [Pages -> BOOLEAN] /\ renewing' \in [Pages -> BOOLEAN]
        /\ leaving' \in [Pages -> BOOLEAN] /\ trouble' \in 0..MaxTrouble
    BY <1>15, <2>0 DEF PutsChainFirst, Swaps, CallFrame, TypeOK
  <2>6. /\ overtaken' \in [Pages -> BOOLEAN] /\ astray' \in [Pages -> BOOLEAN]
        /\ broken' \in [Pages -> BOOLEAN]
    BY <1>15, <2>0 DEF PutsChainFirst, Swaps, CallFrame, TypeOK
  <2>7. mixed' \in BOOLEAN
    BY <1>15, <2>0 DEF PutsChainFirst, Swaps, CallFrame, TypeOK
  <2>8. /\ idle' \in [Pages -> {"off", "armed", "fired"}]
        /\ last' \in [Pages -> Users \cup {Nobody}]
    BY <1>15, <2>0 DEF PutsChainFirst, Swaps, CallFrame, TypeOK
  <2>9. session' \in [Pages -> Ids] /\ agent' \in [Pages -> Ids]
    BY <1>15, <2>0 DEF PutsChainFirst, Swaps, CallFrame, TypeOK
  <2>10. \A q \in Pages : (session'[q].chain = 0) = (session'[q] = NoId)
    BY <1>15, <2>0 DEF PutsChainFirst, Swaps, CallFrame, TypeOK, Made,
      CallMade
  <2>11. load' \in [Pages -> LoadTypes]
    BY <1>15, <2>0 DEF PutsChainFirst, Swaps, CallFrame, TypeOK, LoadTypes
  <2>12. calls' \in [Pages -> SUBSET Calls]
    BY <1>15, <2>0, CallRecords DEF PutsChainFirst, Swaps, CallFrame, TypeOK,
      Steps
  <2> QED
    BY <2>1, <2>2, <2>3, <2>4, <2>5, <2>6, <2>7, <2>8, <2>9, <2>10, <2>11,
      <2>12 DEF TypeOK, LoadTypes
<1>16. ASSUME NEW p \in Pages, NEW c \in calls[p], PutsChainLast(p, c)
    PROVE  TypeOK'
  <2>0. /\ c \in Calls /\ c.user \in Users \cup {Nobody}
        /\ c.made \in 0..MaxSessions /\ Id(c) \in Ids /\ Id(c).chain = c.made
        /\ c.made # 0 => Id(c) # NoId
    BY CallFields, IdTypes DEF TypeOK
  <2>1. owner' \in [Sessions -> Users \cup {Nobody}]
    BY <1>16, <2>0 DEF PutsChainLast, Ends, CallFrame, TypeOK
  <2>2. minted' \in 0..MaxSessions
    BY <1>16, <2>0 DEF PutsChainLast, Ends, CallFrame, TypeOK
  <2>3. /\ expired' \subseteq 1..minted' /\ profiles' \subseteq Users
        /\ deleting' \subseteq Pages
    BY <1>16, <2>0 DEF PutsChainLast, Ends, CallFrame, TypeOK, Made, CallMade
  <2>4. key' \in 0..minted' /\ chain' \in 0..minted'
    BY <1>16, <2>0 DEF PutsChainLast, Ends, CallFrame, TypeOK, Made, CallMade
  <2>5. /\ loaded' \in [Pages -> BOOLEAN] /\ renewing' \in [Pages -> BOOLEAN]
        /\ leaving' \in [Pages -> BOOLEAN] /\ trouble' \in 0..MaxTrouble
    BY <1>16, <2>0 DEF PutsChainLast, Ends, CallFrame, TypeOK
  <2>6. /\ overtaken' \in [Pages -> BOOLEAN] /\ astray' \in [Pages -> BOOLEAN]
        /\ broken' \in [Pages -> BOOLEAN]
    BY <1>16, <2>0 DEF PutsChainLast, Ends, CallFrame, TypeOK
  <2>7. mixed' \in BOOLEAN
    BY <1>16, <2>0 DEF PutsChainLast, Ends, CallFrame, TypeOK
  <2>8. /\ idle' \in [Pages -> {"off", "armed", "fired"}]
        /\ last' \in [Pages -> Users \cup {Nobody}]
    BY <1>16, <2>0 DEF PutsChainLast, Ends, CallFrame, TypeOK
  <2>9. session' \in [Pages -> Ids] /\ agent' \in [Pages -> Ids]
    BY <1>16, <2>0 DEF PutsChainLast, Ends, CallFrame, TypeOK
  <2>10. \A q \in Pages : (session'[q].chain = 0) = (session'[q] = NoId)
    BY <1>16, <2>0 DEF PutsChainLast, Ends, CallFrame, TypeOK, Made, CallMade
  <2>11. load' \in [Pages -> LoadTypes]
    BY <1>16, <2>0 DEF PutsChainLast, Ends, CallFrame, TypeOK, LoadTypes
  <2>12. calls' \in [Pages -> SUBSET Calls]
    BY <1>16, <2>0 DEF PutsChainLast, Ends, CallFrame, TypeOK
  <2> QED
    BY <2>1, <2>2, <2>3, <2>4, <2>5, <2>6, <2>7, <2>8, <2>9, <2>10, <2>11,
      <2>12 DEF TypeOK, LoadTypes
<1>17. ASSUME NEW p \in Pages, NEW c \in calls[p], Creates(p, c)
    PROVE  TypeOK'
  <2>1. c \in Calls
    BY DEF TypeOK
  <2> QED
    BY <1>17, <2>1, CallFields, IdTypes, CallRecords DEF Creates, Swaps,
      CallFrame, TypeOK, Steps
<1>18. ASSUME NEW p \in Pages, NEW c \in calls[p], Compares(p, c)
    PROVE  TypeOK'
  <2>0. /\ c \in Calls /\ c.user \in Users \cup {Nobody}
        /\ c.made \in 0..MaxSessions /\ Id(c) \in Ids /\ Id(c).chain = c.made
        /\ c.made # 0 => Id(c) # NoId
    BY CallFields, IdTypes DEF TypeOK
  <2>1. owner' \in [Sessions -> Users \cup {Nobody}]
    BY <1>18, <2>0 DEF Compares, Swaps, CallFrame, TypeOK
  <2>2. minted' \in 0..MaxSessions
    BY <1>18, <2>0 DEF Compares, Swaps, CallFrame, TypeOK
  <2>3. /\ expired' \subseteq 1..minted' /\ profiles' \subseteq Users
        /\ deleting' \subseteq Pages
    BY <1>18, <2>0 DEF Compares, Swaps, CallFrame, TypeOK, Made, CallMade
  <2>4. key' \in 0..minted' /\ chain' \in 0..minted'
    BY <1>18, <2>0 DEF Compares, Swaps, CallFrame, TypeOK, Made, CallMade
  <2>5. /\ loaded' \in [Pages -> BOOLEAN] /\ renewing' \in [Pages -> BOOLEAN]
        /\ leaving' \in [Pages -> BOOLEAN] /\ trouble' \in 0..MaxTrouble
    BY <1>18, <2>0 DEF Compares, Swaps, CallFrame, TypeOK
  <2>6. /\ overtaken' \in [Pages -> BOOLEAN] /\ astray' \in [Pages -> BOOLEAN]
        /\ broken' \in [Pages -> BOOLEAN]
    BY <1>18, <2>0 DEF Compares, Swaps, CallFrame, TypeOK
  <2>7. mixed' \in BOOLEAN
    BY <1>18, <2>0 DEF Compares, Swaps, CallFrame, TypeOK
  <2>8. /\ idle' \in [Pages -> {"off", "armed", "fired"}]
        /\ last' \in [Pages -> Users \cup {Nobody}]
    BY <1>18, <2>0 DEF Compares, Swaps, CallFrame, TypeOK
  <2>9. session' \in [Pages -> Ids] /\ agent' \in [Pages -> Ids]
    BY <1>18, <2>0 DEF Compares, Swaps, CallFrame, TypeOK
  <2>10. \A q \in Pages : (session'[q].chain = 0) = (session'[q] = NoId)
    BY <1>18, <2>0 DEF Compares, Swaps, CallFrame, TypeOK, Made, CallMade
  <2>11. load' \in [Pages -> LoadTypes]
    BY <1>18, <2>0 DEF Compares, Swaps, CallFrame, TypeOK, LoadTypes
  <2>12. calls' \in [Pages -> SUBSET Calls]
    BY <1>18, <2>0, CallRecords DEF Compares, Swaps, CallFrame, TypeOK, Steps
  <2> QED
    BY <2>1, <2>2, <2>3, <2>4, <2>5, <2>6, <2>7, <2>8, <2>9, <2>10, <2>11,
      <2>12 DEF TypeOK, LoadTypes
<1>19. ASSUME NEW p \in Pages, NEW c \in calls[p], Saves(p, c)
    PROVE  TypeOK'
  <2>0. /\ c \in Calls /\ c.user \in Users \cup {Nobody}
        /\ c.made \in 0..MaxSessions /\ Id(c) \in Ids /\ Id(c).chain = c.made
        /\ c.made # 0 => Id(c) # NoId
    BY CallFields, IdTypes DEF TypeOK
  <2>1. owner' \in [Sessions -> Users \cup {Nobody}]
    BY <1>19, <2>0 DEF Saves, SavedFrame, Publish, Ends, CallFrame, TypeOK
  <2>2. minted' \in 0..MaxSessions
    BY <1>19, <2>0 DEF Saves, SavedFrame, Publish, Ends, CallFrame, TypeOK
  <2>3. /\ expired' \subseteq 1..minted' /\ profiles' \subseteq Users
        /\ deleting' \subseteq Pages
    BY <1>19, <2>0 DEF Saves, SavedFrame, Publish, Ends, CallFrame, TypeOK,
      Made, CallMade
  <2>4. key' \in 0..minted' /\ chain' \in 0..minted'
    BY <1>19, <2>0 DEF Saves, SavedFrame, Publish, Ends, CallFrame, TypeOK,
      Made, CallMade
  <2>5. /\ loaded' \in [Pages -> BOOLEAN] /\ renewing' \in [Pages -> BOOLEAN]
        /\ leaving' \in [Pages -> BOOLEAN] /\ trouble' \in 0..MaxTrouble
    BY <1>19, <2>0 DEF Saves, SavedFrame, Publish, Ends, CallFrame, TypeOK
  <2>6. /\ overtaken' \in [Pages -> BOOLEAN] /\ astray' \in [Pages -> BOOLEAN]
        /\ broken' \in [Pages -> BOOLEAN]
    BY <1>19, <2>0 DEF Saves, SavedFrame, Publish, Ends, CallFrame, TypeOK
  <2>7. mixed' \in BOOLEAN
    BY <1>19, <2>0 DEF Saves, SavedFrame, Publish, Ends, CallFrame, TypeOK
  <2>8. /\ idle' \in [Pages -> {"off", "armed", "fired"}]
        /\ last' \in [Pages -> Users \cup {Nobody}]
    BY <1>19, <2>0 DEF Saves, SavedFrame, Publish, Ends, CallFrame, TypeOK
  <2>9. session' \in [Pages -> Ids] /\ agent' \in [Pages -> Ids]
    BY <1>19, <2>0 DEF Saves, SavedFrame, Publish, Ends, CallFrame, TypeOK
  <2>10. \A q \in Pages : (session'[q].chain = 0) = (session'[q] = NoId)
    BY <1>19, <2>0 DEF Saves, SavedFrame, Publish, Ends, CallFrame, TypeOK,
      Made, CallMade
  <2>11. load' \in [Pages -> LoadTypes]
    BY <1>19, <2>0 DEF Saves, SavedFrame, Publish, Ends, CallFrame, TypeOK,
      LoadTypes
  <2>12. calls' \in [Pages -> SUBSET Calls]
    BY <1>19, <2>0 DEF Saves, SavedFrame, Publish, Ends, CallFrame, TypeOK
  <2> QED
    BY <2>1, <2>2, <2>3, <2>4, <2>5, <2>6, <2>7, <2>8, <2>9, <2>10, <2>11,
      <2>12 DEF TypeOK, LoadTypes
<1>20. ASSUME NEW p \in Pages, NEW c \in calls[p], SavesFirst(p, c)
    PROVE  TypeOK'
  <2>0. /\ c \in Calls /\ c.user \in Users \cup {Nobody}
        /\ c.made \in 0..MaxSessions /\ Id(c) \in Ids /\ Id(c).chain = c.made
        /\ c.made # 0 => Id(c) # NoId
    BY CallFields, IdTypes DEF TypeOK
  <2>1. owner' \in [Sessions -> Users \cup {Nobody}]
    BY <1>20, <2>0 DEF SavesFirst, SavedFrame, Publish, Swaps, CallFrame,
      TypeOK
  <2>2. minted' \in 0..MaxSessions
    BY <1>20, <2>0 DEF SavesFirst, SavedFrame, Publish, Swaps, CallFrame,
      TypeOK
  <2>3. /\ expired' \subseteq 1..minted' /\ profiles' \subseteq Users
        /\ deleting' \subseteq Pages
    BY <1>20, <2>0 DEF SavesFirst, SavedFrame, Publish, Swaps, CallFrame,
      TypeOK, Made, CallMade
  <2>4. key' \in 0..minted' /\ chain' \in 0..minted'
    BY <1>20, <2>0 DEF SavesFirst, SavedFrame, Publish, Swaps, CallFrame,
      TypeOK, Made, CallMade
  <2>5. /\ loaded' \in [Pages -> BOOLEAN] /\ renewing' \in [Pages -> BOOLEAN]
        /\ leaving' \in [Pages -> BOOLEAN] /\ trouble' \in 0..MaxTrouble
    BY <1>20, <2>0 DEF SavesFirst, SavedFrame, Publish, Swaps, CallFrame,
      TypeOK
  <2>6. /\ overtaken' \in [Pages -> BOOLEAN] /\ astray' \in [Pages -> BOOLEAN]
        /\ broken' \in [Pages -> BOOLEAN]
    BY <1>20, <2>0 DEF SavesFirst, SavedFrame, Publish, Swaps, CallFrame,
      TypeOK
  <2>7. mixed' \in BOOLEAN
    BY <1>20, <2>0 DEF SavesFirst, SavedFrame, Publish, Swaps, CallFrame,
      TypeOK
  <2>8. /\ idle' \in [Pages -> {"off", "armed", "fired"}]
        /\ last' \in [Pages -> Users \cup {Nobody}]
    BY <1>20, <2>0 DEF SavesFirst, SavedFrame, Publish, Swaps, CallFrame,
      TypeOK
  <2>9. session' \in [Pages -> Ids] /\ agent' \in [Pages -> Ids]
    BY <1>20, <2>0 DEF SavesFirst, SavedFrame, Publish, Swaps, CallFrame,
      TypeOK
  <2>10. \A q \in Pages : (session'[q].chain = 0) = (session'[q] = NoId)
    BY <1>20, <2>0 DEF SavesFirst, SavedFrame, Publish, Swaps, CallFrame,
      TypeOK, Made, CallMade
  <2>11. load' \in [Pages -> LoadTypes]
    BY <1>20, <2>0 DEF SavesFirst, SavedFrame, Publish, Swaps, CallFrame,
      TypeOK, LoadTypes
  <2>12. calls' \in [Pages -> SUBSET Calls]
    BY <1>20, <2>0, CallRecords DEF SavesFirst, SavedFrame, Publish, Swaps,
      CallFrame, TypeOK, Steps
  <2> QED
    BY <2>1, <2>2, <2>3, <2>4, <2>5, <2>6, <2>7, <2>8, <2>9, <2>10, <2>11,
      <2>12 DEF TypeOK, LoadTypes
<1>21. ASSUME NEW p \in Pages, Resets(p)
    PROVE  TypeOK'
  BY <1>21 DEF Resets, Reset, Known, TypeOK
<1>22. ASSUME NEW p \in Pages, Reload(p)
    PROVE  TypeOK'
  <2>0. Fresh \in LoadTypes
    BY NoIdType DEF Fresh, LoadTypes
  <2>1. owner' \in [Sessions -> Users \cup {Nobody}]
    BY <1>22, <2>0 DEF Reload, Fresh, vars, known, disk, page, ghosts,
      Trouble, NoTrouble, TypeOK
  <2>2. minted' \in 0..MaxSessions
    BY <1>22, <2>0 DEF Reload, Fresh, vars, known, disk, page, ghosts,
      Trouble, NoTrouble, TypeOK
  <2>3. /\ expired' \subseteq 1..minted' /\ profiles' \subseteq Users
        /\ deleting' \subseteq Pages
    BY <1>22, <2>0 DEF Reload, Fresh, vars, known, disk, page, ghosts,
      Trouble, NoTrouble, TypeOK
  <2>4. key' \in 0..minted' /\ chain' \in 0..minted'
    BY <1>22, <2>0 DEF Reload, Fresh, vars, known, disk, page, ghosts,
      Trouble, NoTrouble, TypeOK
  <2>5. /\ loaded' \in [Pages -> BOOLEAN] /\ renewing' \in [Pages -> BOOLEAN]
        /\ leaving' \in [Pages -> BOOLEAN] /\ trouble' \in 0..MaxTrouble
    BY <1>22, <2>0 DEF Reload, Fresh, vars, known, disk, page, ghosts,
      Trouble, NoTrouble, TypeOK
  <2>6. /\ overtaken' \in [Pages -> BOOLEAN] /\ astray' \in [Pages -> BOOLEAN]
        /\ broken' \in [Pages -> BOOLEAN]
    BY <1>22, <2>0 DEF Reload, Fresh, vars, known, disk, page, ghosts,
      Trouble, NoTrouble, TypeOK
  <2>7. mixed' \in BOOLEAN
    BY <1>22, <2>0 DEF Reload, Fresh, vars, known, disk, page, ghosts,
      Trouble, NoTrouble, TypeOK
  <2>8. /\ idle' \in [Pages -> {"off", "armed", "fired"}]
        /\ last' \in [Pages -> Users \cup {Nobody}]
    BY <1>22, <2>0 DEF Reload, Fresh, vars, known, disk, page, ghosts,
      Trouble, NoTrouble, TypeOK
  <2>9. session' \in [Pages -> Ids] /\ agent' \in [Pages -> Ids]
    BY <1>22, <2>0 DEF Reload, Fresh, vars, known, disk, page, ghosts,
      Trouble, NoTrouble, TypeOK
  <2>10. \A q \in Pages : (session'[q].chain = 0) = (session'[q] = NoId)
    BY <1>22, <2>0 DEF Reload, Fresh, vars, known, disk, page, ghosts,
      Trouble, NoTrouble, TypeOK
  <2>11. load' \in [Pages -> LoadTypes]
    BY <1>22, <2>0 DEF Reload, vars, known, disk, page, ghosts, Trouble,
      NoTrouble, TypeOK, LoadTypes
  <2>12. calls' \in [Pages -> SUBSET Calls]
    BY <1>22, <2>0 DEF Reload, Fresh, vars, known, disk, page, ghosts,
      Trouble, NoTrouble, TypeOK
  <2> QED
    BY <2>1, <2>2, <2>3, <2>4, <2>5, <2>6, <2>7, <2>8, <2>9, <2>10, <2>11,
      <2>12 DEF TypeOK, LoadTypes
<1>23. ASSUME NEW p \in Pages, Forgets(p)
    PROVE  TypeOK'
  <2>1. owner' \in [Sessions -> Users \cup {Nobody}]
    BY <1>23 DEF Forgets, Known, TypeOK
  <2>2. minted' \in 0..MaxSessions
    BY <1>23 DEF Forgets, Known, TypeOK
  <2>3. /\ expired' \subseteq 1..minted' /\ profiles' \subseteq Users
        /\ deleting' \subseteq Pages
    BY <1>23 DEF Forgets, Known, TypeOK
  <2>4. key' \in 0..minted' /\ chain' \in 0..minted'
    BY <1>23 DEF Forgets, Known, TypeOK
  <2>5. /\ loaded' \in [Pages -> BOOLEAN] /\ renewing' \in [Pages -> BOOLEAN]
        /\ leaving' \in [Pages -> BOOLEAN] /\ trouble' \in 0..MaxTrouble
    BY <1>23 DEF Forgets, Known, TypeOK
  <2>6. /\ overtaken' \in [Pages -> BOOLEAN] /\ astray' \in [Pages -> BOOLEAN]
        /\ broken' \in [Pages -> BOOLEAN]
    BY <1>23 DEF Forgets, Known, TypeOK
  <2>7. mixed' \in BOOLEAN
    BY <1>23 DEF Forgets, Known, TypeOK
  <2>8. /\ idle' \in [Pages -> {"off", "armed", "fired"}]
        /\ last' \in [Pages -> Users \cup {Nobody}]
    BY <1>23 DEF Forgets, Known, TypeOK
  <2>9. session' \in [Pages -> Ids] /\ agent' \in [Pages -> Ids]
    BY <1>23 DEF Forgets, Known, TypeOK
  <2>10. \A q \in Pages : (session'[q].chain = 0) = (session'[q] = NoId)
    BY <1>23 DEF Forgets, Known, TypeOK
  <2>11. load' \in [Pages -> LoadTypes]
    BY <1>23 DEF Forgets, Known, TypeOK, LoadTypes
  <2>12. calls' \in [Pages -> SUBSET Calls]
    BY <1>23 DEF Forgets, Known, TypeOK
  <2> QED
    BY <2>1, <2>2, <2>3, <2>4, <2>5, <2>6, <2>7, <2>8, <2>9, <2>10, <2>11,
      <2>12 DEF TypeOK, LoadTypes
<1>24. ASSUME UNCHANGED vars
    PROVE  TypeOK'
  BY <1>24 DEF vars, known, disk, page, ghosts, TypeOK
<1> QED
  BY StepKinds, <1>1, <1>2, <1>3, <1>4, <1>5, <1>6, <1>7, <1>8, <1>9, <1>10,
    <1>11, <1>12, <1>13, <1>14, <1>15, <1>16, <1>17, <1>18, <1>19, <1>20,
    <1>21, <1>22, <1>23, <1>24

\* Nothing else happens on a page before its load is done.
LEMMA LoadFirstStep ==
  ASSUME TypeOK, LoadFirst, Made, [Next]_vars
  PROVE  LoadFirst'
<1> USE AuthAssumption, NoIdType DEF TypeOK, LoadFirst, Early, Late
<1>1. ASSUME Expire
    PROVE  LoadFirst'
  BY <1>1 DEF Expire, vars, known, disk, page, ghosts
<1>2. ASSUME NEW p \in Pages, ReadsKey(p)
    PROVE  LoadFirst'
  BY <1>2, LoadRecords DEF ReadsKey, LoadsTo, Known, Others, Marks
<1>3. ASSUME NEW p \in Pages, ReadsChain(p)
    PROVE  LoadFirst'
  BY <1>3, LoadRecords DEF ReadsChain, LoadsTo, Known, Others, Marks
<1>4. ASSUME NEW p \in Pages, ReadsNothing(p)
    PROVE  LoadFirst'
  BY <1>4, LoadRecords DEF ReadsNothing, LoadsTo, Known, Others, Marks
<1>5. ASSUME NEW p \in Pages, Misses(p)
    PROVE  LoadFirst'
  BY <1>5, LoadRecords DEF Misses, LoadsTo, Known, Others, Marks
<1>6. ASSUME NEW p \in Pages, Learns(p)
    PROVE  LoadFirst'
  BY <1>6, LoadRecords DEF Learns, LoadsTo, Known, Others, Marks
<1>7. ASSUME NEW p \in Pages, Sticks(p)
    PROVE  LoadFirst'
  BY <1>7, LoadRecords DEF Sticks, LoadsTo, Known, Others, Marks
<1>8. ASSUME NEW p \in Pages, Shows(p)
    PROVE  LoadFirst'
  BY <1>8, LoadRecords DEF Shows, Publish, LoadsTo, Known, Others, Marks
<1>9. ASSUME NEW p \in Pages, NEW u \in Users, NEW f \in Flows, Signs(p, u, f)
    PROVE  LoadFirst'
  BY <1>9, NewSignIns DEF Signs, Mint, Others
<1>10. ASSUME NEW p \in Pages, Renews(p)
    PROVE  LoadFirst'
  BY <1>10, NewRenewals DEF Renews, Known
<1>11. ASSUME NEW p \in Pages, NEW c \in calls[p], Mints(p, c)
    PROVE  LoadFirst'
  <2>1. c \in Calls
    BY DEF TypeOK
  <2> QED
    BY <1>11, <2>1, CallFields, IdTypes, CallRecords DEF Mints, Mint,
      Swaps, CallFrame, Steps
<1>12. ASSUME NEW p \in Pages, NEW c \in calls[p], Drops(p, c)
    PROVE  LoadFirst'
  <2>1. c \in Calls
    BY DEF TypeOK
  <2> QED
    BY <1>12, <2>1, CallFields, IdTypes DEF Drops, Ends, CallFrame
<1>13. ASSUME NEW p \in Pages, NEW c \in calls[p], FailsAndResets(p, c)
    PROVE  LoadFirst'
  <2>1. c \in Calls
    BY DEF TypeOK
  <2> QED
    BY <1>13, <2>1, CallFields, IdTypes DEF FailsAndResets, Ends, Reset,
      CallFrame
<1>14. ASSUME NEW p \in Pages, NEW c \in calls[p], PutsKey(p, c)
    PROVE  LoadFirst'
  <2>1. c \in Calls
    BY DEF TypeOK
  <2> QED
    BY <1>14, <2>1, CallFields, IdTypes, CallRecords DEF PutsKey, Swaps,
      CallFrame, Steps
<1>15. ASSUME NEW p \in Pages, NEW c \in calls[p], PutsChainFirst(p, c)
    PROVE  LoadFirst'
  <2>1. c \in Calls
    BY DEF TypeOK
  <2> QED
    BY <1>15, <2>1, CallFields, IdTypes, CallRecords DEF PutsChainFirst,
      Swaps, CallFrame, Steps
<1>16. ASSUME NEW p \in Pages, NEW c \in calls[p], PutsChainLast(p, c)
    PROVE  LoadFirst'
  <2>1. c \in Calls
    BY DEF TypeOK
  <2> QED
    BY <1>16, <2>1, CallFields, IdTypes DEF PutsChainLast, Ends, CallFrame
<1>17. ASSUME NEW p \in Pages, NEW c \in calls[p], Creates(p, c)
    PROVE  LoadFirst'
  <2>1. c \in Calls
    BY DEF TypeOK
  <2> QED
    BY <1>17, <2>1, CallFields, IdTypes, CallRecords DEF Creates, Swaps,
      CallFrame, Steps
<1>18. ASSUME NEW p \in Pages, NEW c \in calls[p], Compares(p, c)
    PROVE  LoadFirst'
  <2>1. c \in Calls
    BY DEF TypeOK
  <2> QED
    BY <1>18, <2>1, CallFields, IdTypes, CallRecords DEF Compares, Swaps,
      CallFrame, Steps
<1>19. ASSUME NEW p \in Pages, NEW c \in calls[p], Saves(p, c)
    PROVE  LoadFirst'
  <2>1. c \in Calls
    BY DEF TypeOK
  <2> QED
    BY <1>19, <2>1, CallFields, IdTypes DEF Saves, SavedFrame, Publish,
      Ends, CallFrame
<1>20. ASSUME NEW p \in Pages, NEW c \in calls[p], SavesFirst(p, c)
    PROVE  LoadFirst'
  <2>1. c \in Calls
    BY DEF TypeOK
  <2> QED
    BY <1>20, <2>1, CallFields, IdTypes, CallRecords DEF SavesFirst,
      SavedFrame, Publish, Swaps, CallFrame, Steps
<1>21. ASSUME NEW p \in Pages, Resets(p)
    PROVE  LoadFirst'
  BY <1>21 DEF Resets, Reset, Known
<1>22. ASSUME NEW p \in Pages, Reload(p)
    PROVE  LoadFirst'
  <2>1. Fresh.step = "key" /\ Fresh.id = NoId
    BY DEF Fresh
  <2>2. ASSUME NEW q \in Pages, q # p
        PROVE  /\ load'[q] = load[q] /\ loaded'[q] = loaded[q]
               /\ calls'[q] = calls[q] /\ session'[q] = session[q]
               /\ idle'[q] = idle[q] /\ agent'[q] = agent[q]
    BY <1>22, <2>2 DEF Reload
  <2>3. load'[p] = Fresh
    BY <1>22 DEF Reload, LoadTypes
  <2>4. loaded'[p] = FALSE
    BY <1>22 DEF Reload
  <2>5. calls'[p] = {} /\ session'[p] = NoId /\ agent'[p] = NoId
    BY <1>22 DEF Reload
  <2>6. idle'[p] = "off"
    BY <1>22 DEF Reload
  <2> HIDE DEF TypeOK
  <2> QED
    BY <2>1, <2>2, <2>3, <2>4, <2>5, <2>6
<1>23. ASSUME NEW p \in Pages, Forgets(p)
    PROVE  LoadFirst'
  BY <1>23 DEF Forgets, Known
<1>24. ASSUME UNCHANGED vars
    PROVE  LoadFirst'
  BY <1>24 DEF vars, known, disk, page, ghosts
<1> QED
  BY StepKinds, <1>1, <1>2, <1>3, <1>4, <1>5, <1>6, <1>7, <1>8, <1>9, <1>10,
    <1>11, <1>12, <1>13, <1>14, <1>15, <1>16, <1>17, <1>18, <1>19, <1>20,
    <1>21, <1>22, <1>23, <1>24

\* What is known of a session that was made stays so.
LEMMA MadeStep ==
  ASSUME TypeOK, LoadFirst, Made, [Next]_vars
  PROVE  Made'
<1> USE AuthAssumption, NoIdType
<1>1. ASSUME Expire
    PROVE  Made'
  BY <1>1 DEF Expire, vars, known, disk, page, ghosts, TypeOK, Made,
    CallMade, LoadFirst, Late, UserOf, Sessions
<1>2. ASSUME NEW p \in Pages, ReadsKey(p)
    PROVE  Made'
  BY <1>2, LoadRecords DEF ReadsKey, LoadsTo, Known, Others, Marks, TypeOK,
    Made, CallMade, LoadFirst, Late, UserOf, Sessions
<1>3. ASSUME NEW p \in Pages, ReadsChain(p)
    PROVE  Made'
  BY <1>3, LoadRecords DEF ReadsChain, LoadsTo, Known, Others, Marks,
    TypeOK, Made, CallMade, LoadFirst, Late, UserOf, Sessions
<1>4. ASSUME NEW p \in Pages, ReadsNothing(p)
    PROVE  Made'
  BY <1>4, LoadRecords DEF ReadsNothing, LoadsTo, Known, Others, Marks,
    TypeOK, Made, CallMade, LoadFirst, Late, UserOf, Sessions
<1>5. ASSUME NEW p \in Pages, Misses(p)
    PROVE  Made'
  BY <1>5, LoadRecords DEF Misses, LoadsTo, Known, Others, Marks, TypeOK,
    Made, CallMade, LoadFirst, Late, UserOf, Sessions
<1>6. ASSUME NEW p \in Pages, Learns(p)
    PROVE  Made'
  BY <1>6, LoadRecords DEF Learns, LoadsTo, Known, Others, Marks, TypeOK,
    Made, CallMade, LoadFirst, Late, UserOf, Sessions
<1>7. ASSUME NEW p \in Pages, Sticks(p)
    PROVE  Made'
  BY <1>7, LoadRecords DEF Sticks, LoadsTo, Known, Others, Marks, TypeOK,
    Made, CallMade, LoadFirst, Late, UserOf, Sessions
<1>8. ASSUME NEW p \in Pages, Shows(p)
    PROVE  Made'
  BY <1>8, LoadRecords DEF Shows, Publish, LoadsTo, Known, Others, Marks,
    TypeOK, Made, CallMade, LoadFirst, Late, UserOf, Sessions
<1>9. ASSUME NEW p \in Pages, NEW u \in Users, NEW f \in Flows, Signs(p, u, f)
    PROVE  Made'
  <2>1. minted' = minted + 1 /\ minted \in 0..MaxSessions /\ minted < MaxSessions
        /\ \A s \in 1..minted : owner'[s] = owner[s]
    BY <1>9 DEF Signs, Mint, Others, TypeOK, Sessions
  <2>2. ASSUME NEW e, e.made \in 0..MaxSessions, CallMade(e)
        PROVE  CallMade(e)'
    BY <2>1, <2>2 DEF CallMade
  <2>6. PICK d : d = NewSignIn(u, f)
    OBVIOUS
  <2>3. CallMade(d)'
    BY <1>9, <2>1, <2>6, NewSignIns DEF Signs, Mint, Others, CallMade, Steps,
      TypeOK, Sessions
  <2>4. ASSUME NEW q \in Pages, NEW e \in calls'[q]
        PROVE  CallMade(e)'
    <3>1. e \in calls[q] \/ e = d
      BY <1>9, <2>6 DEF Signs, Mint, Others, TypeOK
    <3>2. e \in calls[q] => e.made \in 0..MaxSessions /\ CallMade(e)
      BY CallFields DEF TypeOK, Made
    <3> QED
      BY <2>2, <2>3, <3>1, <3>2
  <2>5. ASSUME NEW q \in Pages
        PROVE  (/\ load[q].id.chain <= minted /\ load[q].id.key <= minted
                /\ session[q].chain <= minted
                /\ load[q].step = "save" => UserOf(load[q].id) \in Users)'
    BY <1>9, <2>1, LoadRecords, NoIdType DEF Signs, Mint, Others, TypeOK,
      Made, UserOf, Sessions, Ids
  <2> QED
    BY <2>4, <2>5 DEF Made
<1>10. ASSUME NEW p \in Pages, Renews(p)
    PROVE  Made'
  <2>1. minted' = minted /\ owner' = owner
    BY <1>10 DEF Renews, Known
  <2>2. ASSUME NEW e, e.made \in 0..MaxSessions, CallMade(e)
        PROVE  CallMade(e)'
    BY <2>1, <2>2 DEF CallMade
  <2>6. PICK d : d = NewRenewal(p)
    OBVIOUS
  <2>7. d.kind = "renew" /\ d.step = "sign" /\ d.made = 0 /\ d.first
        /\ (d.device \/ d.user = Nobody)
    BY <2>6, NewRenewals
  <2>3. CallMade(d)'
    BY <2>1, <2>7 DEF CallMade, TypeOK
  <2>4. ASSUME NEW q \in Pages, NEW e \in calls'[q]
        PROVE  CallMade(e)'
    <3>1. e \in calls[q] \/ e = d
      BY <1>10, <2>6 DEF Renews, Known, TypeOK
    <3>2. e \in calls[q] => e.made \in 0..MaxSessions /\ CallMade(e)
      BY CallFields DEF TypeOK, Made
    <3> QED
      BY <2>2, <2>3, <3>1, <3>2
  <2>5. ASSUME NEW q \in Pages
        PROVE  (/\ load[q].id.chain <= minted /\ load[q].id.key <= minted
                /\ session[q].chain <= minted
                /\ load[q].step = "save" => UserOf(load[q].id) \in Users)'
    BY <1>10, <2>1, LoadRecords, NoIdType DEF Renews, Known, TypeOK, Made,
      UserOf, Sessions, Ids
  <2> QED
    BY <2>4, <2>5 DEF Made
<1>11. ASSUME NEW p \in Pages, NEW c \in calls[p], Mints(p, c)
    PROVE  Made'
  <2>0. c \in Calls /\ CallMade(c)
    BY DEF TypeOK, Made
  <2>1. minted' = minted + 1 /\ minted \in 0..MaxSessions /\ minted < MaxSessions
        /\ \A s \in 1..minted : owner'[s] = owner[s]
    BY <1>11 DEF Mints, Mint, Swaps, CallFrame, TypeOK, Sessions
  <2>2. ASSUME NEW e, e.made \in 0..MaxSessions, CallMade(e)
        PROVE  CallMade(e)'
    BY <2>1, <2>2 DEF CallMade
  <2>6. PICK d : d = SignedBy(c)
    OBVIOUS
  <2>3. CallMade(d)'
    BY <1>11, <2>1, <2>6, <2>0, CallFields, CallRecords DEF Mints, Mint,
      Swaps, CallFrame, CallMade, Steps, TypeOK, Sessions
  <2>4. ASSUME NEW q \in Pages, NEW e \in calls'[q]
        PROVE  CallMade(e)'
    <3>1. e \in calls[q] \/ e = d
      BY <1>11, <2>6 DEF Mints, Mint, Swaps, CallFrame, TypeOK
    <3>2. e \in calls[q] => e.made \in 0..MaxSessions /\ CallMade(e)
      BY CallFields DEF TypeOK, Made
    <3> QED
      BY <2>2, <2>3, <3>1, <3>2
  <2>5. ASSUME NEW q \in Pages
        PROVE  (/\ load[q].id.chain <= minted /\ load[q].id.key <= minted
                /\ session[q].chain <= minted
                /\ load[q].step = "save" => UserOf(load[q].id) \in Users)'
    <3>1. /\ load'[q] = load[q] /\ session'[q] = session[q]
          /\ load[q].id.chain \in 0..MaxSessions /\ session[q].chain \in 0..MaxSessions
          /\ load[q].id.key \in 0..MaxSessions
      BY <1>11, LoadRecords DEF Mints, CallFrame, TypeOK, Ids
    <3>2. UserOf(load[q].id)' = UserOf(load[q].id)
      BY <2>1, <3>1 DEF Made, UserOf
    <3> QED
      BY <2>1, <3>1, <3>2 DEF Made
  <2> QED
    BY <2>4, <2>5 DEF Made
<1>12. ASSUME NEW p \in Pages, NEW c \in calls[p], Drops(p, c)
    PROVE  Made'
  <2>1. c \in Calls
    BY DEF TypeOK
  <2> QED
    BY <1>12, <2>1, CallFields, IdTypes DEF Drops, Ends, CallFrame,
      TypeOK, Made, CallMade, LoadFirst, Late, UserOf, Sessions
<1>13. ASSUME NEW p \in Pages, NEW c \in calls[p], FailsAndResets(p, c)
    PROVE  Made'
  <2>1. c \in Calls
    BY DEF TypeOK
  <2> QED
    BY <1>13, <2>1, CallFields, IdTypes DEF FailsAndResets, Ends, Reset,
      CallFrame, TypeOK, Made, CallMade, LoadFirst, Late, UserOf, Sessions
<1>14. ASSUME NEW p \in Pages, NEW c \in calls[p], PutsKey(p, c)
    PROVE  Made'
  <2>0. c \in Calls /\ CallMade(c)
    BY DEF TypeOK, Made
  <2>1. minted' = minted /\ owner' = owner
    BY <1>14 DEF PutsKey, Swaps, CallFrame
  <2>2. ASSUME NEW e, e.made \in 0..MaxSessions, CallMade(e)
        PROVE  CallMade(e)'
    BY <2>1, <2>2 DEF CallMade
  <2>6. PICK d : d = At(c, "chain")
    OBVIOUS
  <2>3. CallMade(d)'
    BY <1>14, <2>1, <2>6, <2>0, CallFields, CallRecords DEF PutsKey, Swaps,
      CallFrame, CallMade, Steps, TypeOK, Sessions
  <2>4. ASSUME NEW q \in Pages, NEW e \in calls'[q]
        PROVE  CallMade(e)'
    <3>1. e \in calls[q] \/ e = d
      BY <1>14, <2>6 DEF PutsKey, Swaps, CallFrame, TypeOK
    <3>2. e \in calls[q] => e.made \in 0..MaxSessions /\ CallMade(e)
      BY CallFields DEF TypeOK, Made
    <3> QED
      BY <2>2, <2>3, <3>1, <3>2
  <2>5. ASSUME NEW q \in Pages
        PROVE  (/\ load[q].id.chain <= minted /\ load[q].id.key <= minted
                /\ session[q].chain <= minted
                /\ load[q].step = "save" => UserOf(load[q].id) \in Users)'
    BY <1>14, <2>1, LoadRecords, NoIdType, <2>0, CallFields, IdTypes DEF
      PutsKey, Swaps, CallFrame, TypeOK, Made, UserOf, Sessions, Ids,
      CallMade
  <2> QED
    BY <2>4, <2>5 DEF Made
<1>15. ASSUME NEW p \in Pages, NEW c \in calls[p], PutsChainFirst(p, c)
    PROVE  Made'
  <2>0. c \in Calls /\ CallMade(c)
    BY DEF TypeOK, Made
  <2>1. minted' = minted /\ owner' = owner
    BY <1>15 DEF PutsChainFirst, Swaps, CallFrame
  <2>2. ASSUME NEW e, e.made \in 0..MaxSessions, CallMade(e)
        PROVE  CallMade(e)'
    BY <2>1, <2>2 DEF CallMade
  <2>6. PICK d : d = At(c, "create")
    OBVIOUS
  <2>3. CallMade(d)'
    BY <1>15, <2>1, <2>6, <2>0, CallFields, CallRecords DEF PutsChainFirst,
      Swaps, CallFrame, CallMade, Steps, TypeOK, Sessions
  <2>4. ASSUME NEW q \in Pages, NEW e \in calls'[q]
        PROVE  CallMade(e)'
    <3>1. e \in calls[q] \/ e = d
      BY <1>15, <2>6 DEF PutsChainFirst, Swaps, CallFrame, TypeOK
    <3>2. e \in calls[q] => e.made \in 0..MaxSessions /\ CallMade(e)
      BY CallFields DEF TypeOK, Made
    <3> QED
      BY <2>2, <2>3, <3>1, <3>2
  <2>5. ASSUME NEW q \in Pages
        PROVE  (/\ load[q].id.chain <= minted /\ load[q].id.key <= minted
                /\ session[q].chain <= minted
                /\ load[q].step = "save" => UserOf(load[q].id) \in Users)'
    BY <1>15, <2>1, LoadRecords, NoIdType, <2>0, CallFields, IdTypes DEF
      PutsChainFirst, Swaps, CallFrame, TypeOK, Made, UserOf, Sessions,
      Ids, CallMade
  <2> QED
    BY <2>4, <2>5 DEF Made
<1>16. ASSUME NEW p \in Pages, NEW c \in calls[p], PutsChainLast(p, c)
    PROVE  Made'
  <2>1. c \in Calls
    BY DEF TypeOK
  <2> QED
    BY <1>16, <2>1, CallFields, IdTypes DEF PutsChainLast, Ends,
      CallFrame, TypeOK, Made, CallMade, LoadFirst, Late, UserOf, Sessions
<1>17. ASSUME NEW p \in Pages, NEW c \in calls[p], Creates(p, c)
    PROVE  Made'
  <2>0. c \in Calls /\ CallMade(c)
    BY DEF TypeOK, Made
  <2>1. minted' = minted /\ owner' = owner
    BY <1>17 DEF Creates, Swaps, CallFrame
  <2>2. ASSUME NEW e, e.made \in 0..MaxSessions, CallMade(e)
        PROVE  CallMade(e)'
    BY <2>1, <2>2 DEF CallMade
  <2>6. PICK d : d = At(c, "current")
    OBVIOUS
  <2>3. CallMade(d)'
    BY <1>17, <2>1, <2>6, <2>0, CallFields, CallRecords, IdTypes DEF Creates,
      Swaps, CallFrame, CallMade, Steps, TypeOK, Sessions, UserOf
  <2>4. ASSUME NEW q \in Pages, NEW e \in calls'[q]
        PROVE  CallMade(e)'
    <3>1. e \in calls[q] \/ e = d
      BY <1>17, <2>6 DEF Creates, Swaps, CallFrame, TypeOK
    <3>2. e \in calls[q] => e.made \in 0..MaxSessions /\ CallMade(e)
      BY CallFields DEF TypeOK, Made
    <3> QED
      BY <2>2, <2>3, <3>1, <3>2
  <2>5. ASSUME NEW q \in Pages
        PROVE  (/\ load[q].id.chain <= minted /\ load[q].id.key <= minted
                /\ session[q].chain <= minted
                /\ load[q].step = "save" => UserOf(load[q].id) \in Users)'
    BY <1>17, <2>1, LoadRecords, NoIdType, <2>0, CallFields, IdTypes DEF
      Creates, Swaps, CallFrame, TypeOK, Made, UserOf, Sessions, Ids,
      CallMade
  <2> QED
    BY <2>4, <2>5 DEF Made
<1>18. ASSUME NEW p \in Pages, NEW c \in calls[p], Compares(p, c)
    PROVE  Made'
  <2>0. c \in Calls /\ CallMade(c)
    BY DEF TypeOK, Made
  <2>1. minted' = minted /\ owner' = owner
    BY <1>18 DEF Compares, Swaps, CallFrame
  <2>2. ASSUME NEW e, e.made \in 0..MaxSessions, CallMade(e)
        PROVE  CallMade(e)'
    BY <2>1, <2>2 DEF CallMade
  <2>6. PICK d : d = At(c, "save")
    OBVIOUS
  <2>3. CallMade(d)'
    BY <1>18, <2>1, <2>6, <2>0, CallFields, CallRecords DEF Compares, Swaps,
      CallFrame, CallMade, Steps, TypeOK, Sessions
  <2>4. ASSUME NEW q \in Pages, NEW e \in calls'[q]
        PROVE  CallMade(e)'
    <3>1. e \in calls[q] \/ e = d
      BY <1>18, <2>6 DEF Compares, Swaps, CallFrame, TypeOK
    <3>2. e \in calls[q] => e.made \in 0..MaxSessions /\ CallMade(e)
      BY CallFields DEF TypeOK, Made
    <3> QED
      BY <2>2, <2>3, <3>1, <3>2
  <2>5. ASSUME NEW q \in Pages
        PROVE  (/\ load[q].id.chain <= minted /\ load[q].id.key <= minted
                /\ session[q].chain <= minted
                /\ load[q].step = "save" => UserOf(load[q].id) \in Users)'
    BY <1>18, <2>1, LoadRecords, NoIdType, <2>0, CallFields, IdTypes DEF
      Compares, Swaps, CallFrame, TypeOK, Made, UserOf, Sessions, Ids,
      CallMade
  <2> QED
    BY <2>4, <2>5 DEF Made
<1>19. ASSUME NEW p \in Pages, NEW c \in calls[p], Saves(p, c)
    PROVE  Made'
  <2>0. c \in Calls /\ CallMade(c)
    BY DEF TypeOK, Made
  <2>1. minted' = minted /\ owner' = owner
    BY <1>19 DEF Saves, SavedFrame, Publish, Ends, CallFrame
  <2>2. ASSUME NEW e, e.made \in 0..MaxSessions, CallMade(e)
        PROVE  CallMade(e)'
    BY <2>1, <2>2 DEF CallMade
  <2>4. ASSUME NEW q \in Pages, NEW e \in calls'[q]
        PROVE  CallMade(e)'
    <3>1. e \in calls[q]
      BY <1>19 DEF Saves, SavedFrame, Publish, Ends, CallFrame, TypeOK
    <3>2. e \in calls[q] => e.made \in 0..MaxSessions /\ CallMade(e)
      BY CallFields DEF TypeOK, Made
    <3> QED
      BY <2>2, <3>1, <3>2
  <2>5. ASSUME NEW q \in Pages
        PROVE  (/\ load[q].id.chain <= minted /\ load[q].id.key <= minted
                /\ session[q].chain <= minted
                /\ load[q].step = "save" => UserOf(load[q].id) \in Users)'
    BY <1>19, <2>1, LoadRecords, NoIdType, <2>0, CallFields, IdTypes DEF
      Saves, SavedFrame, Publish, Ends, CallFrame, TypeOK, Made, UserOf,
      Sessions, Ids, CallMade
  <2> QED
    BY <2>4, <2>5 DEF Made
<1>20. ASSUME NEW p \in Pages, NEW c \in calls[p], SavesFirst(p, c)
    PROVE  Made'
  <2>0. c \in Calls /\ CallMade(c)
    BY DEF TypeOK, Made
  <2>1. minted' = minted /\ owner' = owner
    BY <1>20 DEF SavesFirst, SavedFrame, Publish, Swaps, CallFrame
  <2>2. ASSUME NEW e, e.made \in 0..MaxSessions, CallMade(e)
        PROVE  CallMade(e)'
    BY <2>1, <2>2 DEF CallMade
  <2>6. PICK d : d = At(c, "key")
    OBVIOUS
  <2>3. CallMade(d)'
    BY <1>20, <2>1, <2>6, <2>0, CallFields, CallRecords DEF SavesFirst,
      SavedFrame, Publish, Swaps, CallFrame, CallMade, Steps, TypeOK,
      Sessions
  <2>4. ASSUME NEW q \in Pages, NEW e \in calls'[q]
        PROVE  CallMade(e)'
    <3>1. e \in calls[q] \/ e = d
      BY <1>20, <2>6 DEF SavesFirst, SavedFrame, Publish, Swaps, CallFrame,
        TypeOK
    <3>2. e \in calls[q] => e.made \in 0..MaxSessions /\ CallMade(e)
      BY CallFields DEF TypeOK, Made
    <3> QED
      BY <2>2, <2>3, <3>1, <3>2
  <2>5. ASSUME NEW q \in Pages
        PROVE  (/\ load[q].id.chain <= minted /\ load[q].id.key <= minted
                /\ session[q].chain <= minted
                /\ load[q].step = "save" => UserOf(load[q].id) \in Users)'
    BY <1>20, <2>1, LoadRecords, NoIdType, <2>0, CallFields, IdTypes DEF
      SavesFirst, SavedFrame, Publish, Swaps, CallFrame, TypeOK, Made,
      UserOf, Sessions, Ids, CallMade
  <2> QED
    BY <2>4, <2>5 DEF Made
<1>21. ASSUME NEW p \in Pages, Resets(p)
    PROVE  Made'
  BY <1>21 DEF Resets, Reset, Known, TypeOK, Made, CallMade, LoadFirst,
    Late, UserOf, Sessions
<1>22. ASSUME NEW p \in Pages, Reload(p)
    PROVE  Made'
  <2>1. Fresh.step = "key" /\ Fresh.id = NoId
    BY DEF Fresh
  <2> QED
    BY <1>22, <2>1 DEF Reload, TypeOK, Made, CallMade, UserOf, known, disk
<1>23. ASSUME NEW p \in Pages, Forgets(p)
    PROVE  Made'
  BY <1>23 DEF Forgets, Known, TypeOK, Made, CallMade, LoadFirst, Late,
    UserOf, Sessions
<1>24. ASSUME UNCHANGED vars
    PROVE  Made'
  BY <1>24 DEF vars, known, disk, page, ghosts, TypeOK, Made, CallMade,
    LoadFirst, Late, UserOf, Sessions
<1> QED
  BY StepKinds, <1>1, <1>2, <1>3, <1>4, <1>5, <1>6, <1>7, <1>8, <1>9, <1>10,
    <1>11, <1>12, <1>13, <1>14, <1>15, <1>16, <1>17, <1>18, <1>19, <1>20,
    <1>21, <1>22, <1>23, <1>24

\* Without an overtaking, one call goes on, for the user that is shown.
LEMMA AloneStep ==
  ASSUME TypeOK, LoadFirst, Made, Alone, [Next]_vars
  PROVE  Alone'
<1> USE AuthAssumption, NoIdType
<1>1. ASSUME Expire
    PROVE  Alone'
  BY <1>1 DEF Expire, vars, known, disk, page, ghosts, TypeOK, Alone,
    LoadFirst, Early, Late, Made, CallMade, UserOf
<1>2. ASSUME NEW p \in Pages, ReadsKey(p)
    PROVE  Alone'
  BY <1>2, LoadRecords DEF ReadsKey, LoadsTo, Known, Others, Marks, TypeOK,
    Alone, LoadFirst, Early, Late, Made, CallMade, UserOf
<1>3. ASSUME NEW p \in Pages, ReadsChain(p)
    PROVE  Alone'
  BY <1>3, LoadRecords DEF ReadsChain, LoadsTo, Known, Others, Marks,
    TypeOK, Alone, LoadFirst, Early, Late, Made, CallMade, UserOf
<1>4. ASSUME NEW p \in Pages, ReadsNothing(p)
    PROVE  Alone'
  BY <1>4, LoadRecords DEF ReadsNothing, LoadsTo, Known, Others, Marks,
    TypeOK, Alone, LoadFirst, Early, Late, Made, CallMade, UserOf
<1>5. ASSUME NEW p \in Pages, Misses(p)
    PROVE  Alone'
  BY <1>5, LoadRecords DEF Misses, LoadsTo, Known, Others, Marks, TypeOK,
    Alone, LoadFirst, Early, Late, Made, CallMade, UserOf
<1>6. ASSUME NEW p \in Pages, Learns(p)
    PROVE  Alone'
  BY <1>6, LoadRecords DEF Learns, LoadsTo, Known, Others, Marks, TypeOK,
    Alone, LoadFirst, Early, Late, Made, CallMade, UserOf
<1>7. ASSUME NEW p \in Pages, Sticks(p)
    PROVE  Alone'
  BY <1>7, LoadRecords DEF Sticks, LoadsTo, Known, Others, Marks, TypeOK,
    Alone, LoadFirst, Early, Late, Made, CallMade, UserOf
<1>8. ASSUME NEW p \in Pages, Shows(p)
    PROVE  Alone'
  BY <1>8, LoadRecords DEF Shows, Publish, LoadsTo, Known, Others, Marks,
    TypeOK, Alone, LoadFirst, Early, Late, Made, CallMade, UserOf
<1>9. ASSUME NEW p \in Pages, NEW u \in Users, NEW f \in Flows, Signs(p, u, f)
    PROVE  Alone'
  BY <1>9, NewSignIns DEF Signs, Mint, Others, TypeOK, Alone, LoadFirst,
    Early, Late, Made, CallMade, UserOf, Sessions
<1>10. ASSUME NEW p \in Pages, Renews(p)
    PROVE  Alone'
  <2>1. PICK e : /\ e = NewRenewal(p)
                 /\ e.device => session[p] # NoId /\ e.user = UserOf(session[p])
    BY <1>10, NewRenewals, NoIdType DEF Renews, TypeOK
  <2>2. /\ calls' = [calls EXCEPT ![p] = @ \cup {e}]
        /\ overtaken' = [overtaken EXCEPT ![p] = @ \/ calls[p] # {}]
        /\ UNCHANGED <<session, owner>>
    BY <1>10, <2>1 DEF Renews, Known
  <2>3. ASSUME NEW q \in Pages, ~overtaken'[q]
        PROVE  (/\ \A x, y \in calls[q] : x = y
                /\ \A x \in calls[q] : x.kind = "renew" /\ x.device =>
                     session[q] # NoId /\ x.user = UserOf(session[q]))'
    <3>1. CASE q = p
      <4>1. calls[p] = {} /\ calls'[p] = {e}
        BY <2>2, <2>3, <3>1 DEF TypeOK
      <4> QED
        BY <2>1, <2>2, <3>1, <4>1 DEF UserOf
    <3>2. CASE q # p
      BY <2>2, <2>3, <3>2 DEF Alone, UserOf, TypeOK
    <3> QED
      BY <3>1, <3>2
  <2> QED
    BY <2>3 DEF Alone
<1>11. ASSUME NEW p \in Pages, NEW c \in calls[p], Mints(p, c)
    PROVE  Alone'
  <2>1. c \in Calls
    BY DEF TypeOK
  <2>2. PICK e : /\ e = SignedBy(c) /\ e.kind = c.kind /\ e.user = c.user
                 /\ e.device = c.device
    BY <1>11, <2>1, CallRecords DEF Steps, Mints, Mint
  <2>3. /\ calls' = [calls EXCEPT ![p] = (@ \ {c}) \cup {e}]
        /\ UNCHANGED <<session, overtaken>>
    BY <1>11, <2>2 DEF Mints, Mint, Swaps, CallFrame
  <2>4. ASSUME NEW q \in Pages
        PROVE  UserOf(session[q])' = UserOf(session[q])
    BY <1>11, <2>3 DEF Mints, Mint, Swaps, CallFrame, UserOf, TypeOK, Made,
      Sessions, Ids
  <2>5. ASSUME NEW q \in Pages, q # p PROVE calls'[q] = calls[q]
    BY <2>3, <2>5 DEF TypeOK
  <2>6. ~overtaken[p] => calls[p] = {c} /\ calls'[p] = {e}
    BY <2>3 DEF TypeOK, Alone
  <2>7. ASSUME NEW q \in Pages, ~overtaken'[q]
        PROVE  (/\ \A x, y \in calls[q] : x = y
                /\ \A x \in calls[q] : x.kind = "renew" /\ x.device =>
                     session[q] # NoId /\ x.user = UserOf(session[q]))'
    <3>1. CASE q = p
      BY <2>2, <2>3, <2>4, <2>6, <2>7, <3>1 DEF Alone
    <3>2. CASE q # p
      BY <2>3, <2>4, <2>5, <2>7, <3>2 DEF Alone
    <3> QED
      BY <3>1, <3>2
  <2> QED
    BY <2>7 DEF Alone
<1>12. ASSUME NEW p \in Pages, NEW c \in calls[p], Drops(p, c)
    PROVE  Alone'
  <2>1. c \in Calls
    BY DEF TypeOK
  <2> QED
    BY <1>12, <2>1, CallFields, IdTypes DEF Drops, Ends, CallFrame,
      TypeOK, Alone, LoadFirst, Early, Late, Made, CallMade, UserOf
<1>13. ASSUME NEW p \in Pages, NEW c \in calls[p], FailsAndResets(p, c)
    PROVE  Alone'
  <2>1. c \in Calls
    BY DEF TypeOK
  <2> QED
    BY <1>13, <2>1, CallFields, IdTypes DEF FailsAndResets, Ends, Reset,
      CallFrame, TypeOK, Alone, LoadFirst, Early, Late, Made, CallMade,
      UserOf
<1>14. ASSUME NEW p \in Pages, NEW c \in calls[p], PutsKey(p, c)
    PROVE  Alone'
  <2>1. c \in Calls
    BY DEF TypeOK
  <2>2. PICK e : /\ e = At(c, "chain") /\ e.kind = c.kind /\ e.user = c.user
                 /\ e.device = c.device
    BY <1>14, <2>1, CallRecords DEF Steps
  <2>3. /\ calls' = [calls EXCEPT ![p] = (@ \ {c}) \cup {e}]
        /\ UNCHANGED <<session, overtaken>>
    BY <1>14, <2>2 DEF PutsKey, Swaps, CallFrame
  <2>4. ASSUME NEW q \in Pages
        PROVE  UserOf(session[q])' = UserOf(session[q])
    BY <1>14, <2>3 DEF PutsKey, Swaps, CallFrame, UserOf
  <2>5. ASSUME NEW q \in Pages, q # p PROVE calls'[q] = calls[q]
    BY <2>3, <2>5 DEF TypeOK
  <2>6. ~overtaken[p] => calls[p] = {c} /\ calls'[p] = {e}
    BY <2>3 DEF TypeOK, Alone
  <2>7. ASSUME NEW q \in Pages, ~overtaken'[q]
        PROVE  (/\ \A x, y \in calls[q] : x = y
                /\ \A x \in calls[q] : x.kind = "renew" /\ x.device =>
                     session[q] # NoId /\ x.user = UserOf(session[q]))'
    <3>1. CASE q = p
      BY <2>2, <2>3, <2>4, <2>6, <2>7, <3>1 DEF Alone
    <3>2. CASE q # p
      BY <2>3, <2>4, <2>5, <2>7, <3>2 DEF Alone
    <3> QED
      BY <3>1, <3>2
  <2> QED
    BY <2>7 DEF Alone
<1>15. ASSUME NEW p \in Pages, NEW c \in calls[p], PutsChainFirst(p, c)
    PROVE  Alone'
  <2>1. c \in Calls
    BY DEF TypeOK
  <2>2. PICK e : /\ e = At(c, "create") /\ e.kind = c.kind /\ e.user = c.user
                 /\ e.device = c.device
    BY <1>15, <2>1, CallRecords DEF Steps
  <2>3. /\ calls' = [calls EXCEPT ![p] = (@ \ {c}) \cup {e}]
        /\ UNCHANGED <<session, overtaken>>
    BY <1>15, <2>2 DEF PutsChainFirst, Swaps, CallFrame
  <2>4. ASSUME NEW q \in Pages
        PROVE  UserOf(session[q])' = UserOf(session[q])
    BY <1>15, <2>3 DEF PutsChainFirst, Swaps, CallFrame, UserOf
  <2>5. ASSUME NEW q \in Pages, q # p PROVE calls'[q] = calls[q]
    BY <2>3, <2>5 DEF TypeOK
  <2>6. ~overtaken[p] => calls[p] = {c} /\ calls'[p] = {e}
    BY <2>3 DEF TypeOK, Alone
  <2>7. ASSUME NEW q \in Pages, ~overtaken'[q]
        PROVE  (/\ \A x, y \in calls[q] : x = y
                /\ \A x \in calls[q] : x.kind = "renew" /\ x.device =>
                     session[q] # NoId /\ x.user = UserOf(session[q]))'
    <3>1. CASE q = p
      BY <2>2, <2>3, <2>4, <2>6, <2>7, <3>1 DEF Alone
    <3>2. CASE q # p
      BY <2>3, <2>4, <2>5, <2>7, <3>2 DEF Alone
    <3> QED
      BY <3>1, <3>2
  <2> QED
    BY <2>7 DEF Alone
<1>16. ASSUME NEW p \in Pages, NEW c \in calls[p], PutsChainLast(p, c)
    PROVE  Alone'
  <2>1. c \in Calls
    BY DEF TypeOK
  <2> QED
    BY <1>16, <2>1, CallFields, IdTypes DEF PutsChainLast, Ends,
      CallFrame, TypeOK, Alone, LoadFirst, Early, Late, Made, CallMade,
      UserOf
<1>17. ASSUME NEW p \in Pages, NEW c \in calls[p], Creates(p, c)
    PROVE  Alone'
  <2>1. c \in Calls
    BY DEF TypeOK
  <2>2. PICK e : /\ e = At(c, "current") /\ e.kind = c.kind /\ e.user = c.user
                 /\ e.device = c.device
    BY <1>17, <2>1, CallRecords DEF Steps
  <2>3. /\ calls' = [calls EXCEPT ![p] = (@ \ {c}) \cup {e}]
        /\ UNCHANGED <<session, overtaken>>
    BY <1>17, <2>2 DEF Creates, Swaps, CallFrame
  <2>4. ASSUME NEW q \in Pages
        PROVE  UserOf(session[q])' = UserOf(session[q])
    BY <1>17, <2>3 DEF Creates, Swaps, CallFrame, UserOf
  <2>5. ASSUME NEW q \in Pages, q # p PROVE calls'[q] = calls[q]
    BY <2>3, <2>5 DEF TypeOK
  <2>6. ~overtaken[p] => calls[p] = {c} /\ calls'[p] = {e}
    BY <2>3 DEF TypeOK, Alone
  <2>7. ASSUME NEW q \in Pages, ~overtaken'[q]
        PROVE  (/\ \A x, y \in calls[q] : x = y
                /\ \A x \in calls[q] : x.kind = "renew" /\ x.device =>
                     session[q] # NoId /\ x.user = UserOf(session[q]))'
    <3>1. CASE q = p
      BY <2>2, <2>3, <2>4, <2>6, <2>7, <3>1 DEF Alone
    <3>2. CASE q # p
      BY <2>3, <2>4, <2>5, <2>7, <3>2 DEF Alone
    <3> QED
      BY <3>1, <3>2
  <2> QED
    BY <2>7 DEF Alone
<1>18. ASSUME NEW p \in Pages, NEW c \in calls[p], Compares(p, c)
    PROVE  Alone'
  <2>1. c \in Calls
    BY DEF TypeOK
  <2>2. PICK e : /\ e = At(c, "save") /\ e.kind = c.kind /\ e.user = c.user
                 /\ e.device = c.device
    BY <1>18, <2>1, CallRecords DEF Steps
  <2>3. /\ calls' = [calls EXCEPT ![p] = (@ \ {c}) \cup {e}]
        /\ UNCHANGED <<session, overtaken>>
    BY <1>18, <2>2 DEF Compares, Swaps, CallFrame
  <2>4. ASSUME NEW q \in Pages
        PROVE  UserOf(session[q])' = UserOf(session[q])
    BY <1>18, <2>3 DEF Compares, Swaps, CallFrame, UserOf
  <2>5. ASSUME NEW q \in Pages, q # p PROVE calls'[q] = calls[q]
    BY <2>3, <2>5 DEF TypeOK
  <2>6. ~overtaken[p] => calls[p] = {c} /\ calls'[p] = {e}
    BY <2>3 DEF TypeOK, Alone
  <2>7. ASSUME NEW q \in Pages, ~overtaken'[q]
        PROVE  (/\ \A x, y \in calls[q] : x = y
                /\ \A x \in calls[q] : x.kind = "renew" /\ x.device =>
                     session[q] # NoId /\ x.user = UserOf(session[q]))'
    <3>1. CASE q = p
      BY <2>2, <2>3, <2>4, <2>6, <2>7, <3>1 DEF Alone
    <3>2. CASE q # p
      BY <2>3, <2>4, <2>5, <2>7, <3>2 DEF Alone
    <3> QED
      BY <3>1, <3>2
  <2> QED
    BY <2>7 DEF Alone
<1>19. ASSUME NEW p \in Pages, NEW c \in calls[p], Saves(p, c)
    PROVE  Alone'
  <2>1. c \in Calls
    BY DEF TypeOK
  <2> QED
    BY <1>19, <2>1, CallFields, IdTypes DEF Saves, SavedFrame, Publish,
      Ends, CallFrame, TypeOK, Alone, LoadFirst, Early, Late, Made,
      CallMade, UserOf
<1>20. ASSUME NEW p \in Pages, NEW c \in calls[p], SavesFirst(p, c)
    PROVE  Alone'
  <2>1. c \in Calls
    BY DEF TypeOK
  <2> QED
    BY <1>20, <2>1, CallFields, IdTypes, CallRecords DEF SavesFirst,
      SavedFrame, Publish, Swaps, CallFrame, TypeOK, Alone, LoadFirst,
      Early, Late, Made, CallMade, UserOf, Steps
<1>21. ASSUME NEW p \in Pages, Resets(p)
    PROVE  Alone'
  BY <1>21 DEF Resets, Reset, Known, TypeOK, Alone, LoadFirst, Early, Late,
    Made, CallMade, UserOf
<1>22. ASSUME NEW p \in Pages, Reload(p)
    PROVE  Alone'
  <2>1. /\ calls' = [calls EXCEPT ![p] = {}]
        /\ overtaken' = [overtaken EXCEPT ![p] = FALSE]
        /\ session' = [session EXCEPT ![p] = NoId] /\ UNCHANGED owner
    BY <1>22 DEF Reload, known
  <2> QED
    BY <2>1 DEF Alone, UserOf, TypeOK
<1>23. ASSUME NEW p \in Pages, Forgets(p)
    PROVE  Alone'
  BY <1>23 DEF Forgets, Known, TypeOK, Alone, LoadFirst, Early, Late, Made,
    CallMade, UserOf
<1>24. ASSUME UNCHANGED vars
    PROVE  Alone'
  BY <1>24 DEF vars, known, disk, page, ghosts, TypeOK, Alone, LoadFirst,
    Early, Late, Made, CallMade, UserOf
<1> QED
  BY StepKinds, <1>1, <1>2, <1>3, <1>4, <1>5, <1>6, <1>7, <1>8, <1>9, <1>10,
    <1>11, <1>12, <1>13, <1>14, <1>15, <1>16, <1>17, <1>18, <1>19, <1>20,
    <1>21, <1>22, <1>23, <1>24

\* The agent follows the session.
LEMMA AgentStep ==
  ASSUME TypeOK, LoadFirst, Made, AgentIsSession, [Next]_vars
  PROVE  AgentIsSession'
<1> USE AuthAssumption, NoIdType
<1>1. ASSUME Expire
    PROVE  AgentIsSession'
  BY <1>1 DEF Expire, vars, known, disk, page, ghosts, TypeOK,
    AgentIsSession, LoadFirst, Early, Late
<1>2. ASSUME NEW p \in Pages, ReadsKey(p)
    PROVE  AgentIsSession'
  BY <1>2, LoadRecords DEF ReadsKey, LoadsTo, Known, Others, Marks, TypeOK,
    AgentIsSession, LoadFirst, Early, Late
<1>3. ASSUME NEW p \in Pages, ReadsChain(p)
    PROVE  AgentIsSession'
  BY <1>3, LoadRecords DEF ReadsChain, LoadsTo, Known, Others, Marks,
    TypeOK, AgentIsSession, LoadFirst, Early, Late
<1>4. ASSUME NEW p \in Pages, ReadsNothing(p)
    PROVE  AgentIsSession'
  BY <1>4, LoadRecords DEF ReadsNothing, LoadsTo, Known, Others, Marks,
    TypeOK, AgentIsSession, LoadFirst, Early, Late
<1>5. ASSUME NEW p \in Pages, Misses(p)
    PROVE  AgentIsSession'
  BY <1>5, LoadRecords DEF Misses, LoadsTo, Known, Others, Marks, TypeOK,
    AgentIsSession, LoadFirst, Early, Late
<1>6. ASSUME NEW p \in Pages, Learns(p)
    PROVE  AgentIsSession'
  BY <1>6, LoadRecords DEF Learns, LoadsTo, Known, Others, Marks, TypeOK,
    AgentIsSession, LoadFirst, Early, Late
<1>7. ASSUME NEW p \in Pages, Sticks(p)
    PROVE  AgentIsSession'
  BY <1>7, LoadRecords DEF Sticks, LoadsTo, Known, Others, Marks, TypeOK,
    AgentIsSession, LoadFirst, Early, Late
<1>8. ASSUME NEW p \in Pages, Shows(p)
    PROVE  AgentIsSession'
  BY <1>8, LoadRecords DEF Shows, Publish, LoadsTo, Known, Others, Marks,
    TypeOK, AgentIsSession, LoadFirst, Early, Late
<1>9. ASSUME NEW p \in Pages, NEW u \in Users, NEW f \in Flows, Signs(p, u, f)
    PROVE  AgentIsSession'
  <2>1. PICK e : e = NewSignIn(u, f) /\ (e.step = "create" \/ f.first)
    BY NewSignIns
  <2>2. /\ calls' = [calls EXCEPT ![p] = @ \cup {e}]
        /\ agent' = IF f.first THEN agent ELSE [agent EXCEPT ![p] = Id(e)]
        /\ UNCHANGED <<session, loaded, astray>>
    BY <1>9, <2>1 DEF Signs
  <2>3. \A q \in Pages : q # p => calls'[q] = calls[q] /\ agent'[q] = agent[q]
    BY <2>2 DEF TypeOK
  <2>4. calls'[p] = calls[p] \cup {e}
    BY <2>2 DEF TypeOK
  <2> QED
    BY <2>1, <2>2, <2>3, <2>4 DEF AgentIsSession
<1>10. ASSUME NEW p \in Pages, Renews(p)
    PROVE  AgentIsSession'
  BY <1>10, NewRenewals DEF Renews, Known, TypeOK, AgentIsSession,
    LoadFirst, Early, Late
<1>11. ASSUME NEW p \in Pages, NEW c \in calls[p], Mints(p, c)
    PROVE  AgentIsSession'
  <2>1. c \in Calls
    BY DEF TypeOK
  <2>2. PICK e : e = SignedBy(c) /\ e.step \notin {"create", "current", "save"}
    BY <1>11, <2>1, CallRecords DEF Steps, Mints, Mint
  <2>3. /\ calls' = [calls EXCEPT ![p] = (@ \ {c}) \cup {e}]
        /\ c.step \notin {"create", "current", "save"}
        /\ UNCHANGED <<session, agent, loaded, astray>>
    BY <1>11, <2>2 DEF Mints, Mint, Swaps, CallFrame
  <2>4. ASSUME NEW q \in Pages, \A x \in calls'[q] : x.step \notin {"create", "current", "save"}
        PROVE  \A x \in calls[q] : x.step \notin {"create", "current", "save"}
    BY <2>3, <2>4 DEF TypeOK
  <2> QED
    BY <2>3, <2>4 DEF AgentIsSession
<1>12. ASSUME NEW p \in Pages, NEW c \in calls[p], Drops(p, c)
    PROVE  AgentIsSession'
  <2>1. c \in Calls
    BY DEF TypeOK
  <2> QED
    BY <1>12, <2>1, CallFields, IdTypes DEF Drops, Ends, CallFrame,
      TypeOK, AgentIsSession, LoadFirst, Early, Late
<1>13. ASSUME NEW p \in Pages, NEW c \in calls[p], FailsAndResets(p, c)
    PROVE  AgentIsSession'
  <2>1. c \in Calls
    BY DEF TypeOK
  <2> QED
    BY <1>13, <2>1, CallFields, IdTypes DEF FailsAndResets, Ends, Reset,
      CallFrame, TypeOK, AgentIsSession, LoadFirst, Early, Late
<1>14. ASSUME NEW p \in Pages, NEW c \in calls[p], PutsKey(p, c)
    PROVE  AgentIsSession'
  <2>1. c \in Calls
    BY DEF TypeOK
  <2>2. PICK e : e = At(c, "chain") /\ e.step \notin {"create", "current", "save"}
    BY <1>14, <2>1, CallRecords DEF Steps
  <2>3. /\ calls' = [calls EXCEPT ![p] = (@ \ {c}) \cup {e}]
        /\ c.step \notin {"create", "current", "save"}
        /\ UNCHANGED <<session, agent, loaded, astray>>
    BY <1>14, <2>2 DEF PutsKey, Swaps, CallFrame
  <2>4. ASSUME NEW q \in Pages, \A x \in calls'[q] : x.step \notin {"create", "current", "save"}
        PROVE  \A x \in calls[q] : x.step \notin {"create", "current", "save"}
    BY <2>3, <2>4 DEF TypeOK
  <2> QED
    BY <2>3, <2>4 DEF AgentIsSession
<1>15. ASSUME NEW p \in Pages, NEW c \in calls[p], PutsChainFirst(p, c)
    PROVE  AgentIsSession'
  <2>1. c \in Calls
    BY DEF TypeOK
  <2> QED
    BY <1>15, <2>1, CallFields, IdTypes, CallRecords DEF PutsChainFirst,
      Swaps, CallFrame, TypeOK, AgentIsSession, LoadFirst, Early, Late,
      Steps
<1>16. ASSUME NEW p \in Pages, NEW c \in calls[p], PutsChainLast(p, c)
    PROVE  AgentIsSession'
  <2>1. c \in Calls
    BY DEF TypeOK
  <2>3. /\ calls' = [calls EXCEPT ![p] = @ \ {c}]
        /\ c.step \notin {"create", "current", "save"}
        /\ UNCHANGED <<session, agent, loaded, astray>>
    BY <1>16 DEF PutsChainLast, Ends, CallFrame
  <2>4. ASSUME NEW q \in Pages, \A x \in calls'[q] : x.step \notin {"create", "current", "save"}
        PROVE  \A x \in calls[q] : x.step \notin {"create", "current", "save"}
    BY <2>3, <2>4 DEF TypeOK
  <2> QED
    BY <2>3, <2>4 DEF AgentIsSession
<1>17. ASSUME NEW p \in Pages, NEW c \in calls[p], Creates(p, c)
    PROVE  AgentIsSession'
  <2>1. c \in Calls /\ calls \in [Pages -> SUBSET Calls]
    BY DEF TypeOK
  <2>2. PICK e : e = At(c, "current") /\ e.step = "current"
    BY <2>1, CallRecords DEF Steps
  <2>3. /\ calls' = [calls EXCEPT ![p] = (@ \ {c}) \cup {e}]
        /\ UNCHANGED <<session, agent, loaded, astray>>
    BY <1>17, <2>2 DEF Creates, Swaps
  <2>4. e \in calls'[p] /\ \A q \in Pages \ {p} : calls'[q] = calls[q]
    BY <2>1, <2>3
  <2> QED
    BY <2>2, <2>3, <2>4 DEF AgentIsSession
<1>18. ASSUME NEW p \in Pages, NEW c \in calls[p], Compares(p, c)
    PROVE  AgentIsSession'
  <2>1. c \in Calls
    BY DEF TypeOK
  <2> QED
    BY <1>18, <2>1, CallFields, IdTypes, CallRecords DEF Compares, Swaps,
      CallFrame, TypeOK, AgentIsSession, LoadFirst, Early, Late, Steps
<1>19. ASSUME NEW p \in Pages, NEW c \in calls[p], Saves(p, c)
    PROVE  AgentIsSession'
  <2>1. c \in Calls
    BY DEF TypeOK
  <2> QED
    BY <1>19, <2>1, CallFields, IdTypes DEF Saves, SavedFrame, Publish,
      Ends, CallFrame, TypeOK, AgentIsSession, LoadFirst, Early, Late
<1>20. ASSUME NEW p \in Pages, NEW c \in calls[p], SavesFirst(p, c)
    PROVE  AgentIsSession'
  <2>1. c \in Calls
    BY DEF TypeOK
  <2> QED
    BY <1>20, <2>1, CallFields, IdTypes, CallRecords DEF SavesFirst,
      SavedFrame, Publish, Swaps, CallFrame, TypeOK, AgentIsSession,
      LoadFirst, Early, Late, Steps
<1>21. ASSUME NEW p \in Pages, Resets(p)
    PROVE  AgentIsSession'
  BY <1>21 DEF Resets, Reset, Known, TypeOK, AgentIsSession, LoadFirst,
    Early, Late
<1>22. ASSUME NEW p \in Pages, Reload(p)
    PROVE  AgentIsSession'
  BY <1>22 DEF Reload, Fresh, vars, known, disk, page, ghosts, TypeOK,
    AgentIsSession, LoadFirst, Early, Late
<1>23. ASSUME NEW p \in Pages, Forgets(p)
    PROVE  AgentIsSession'
  BY <1>23 DEF Forgets, Known, TypeOK, AgentIsSession, LoadFirst, Early,
    Late
<1>24. ASSUME UNCHANGED vars
    PROVE  AgentIsSession'
  BY <1>24 DEF vars, known, disk, page, ghosts, TypeOK, AgentIsSession,
    LoadFirst, Early, Late
<1> QED
  BY StepKinds, <1>1, <1>2, <1>3, <1>4, <1>5, <1>6, <1>7, <1>8, <1>9, <1>10,
    <1>11, <1>12, <1>13, <1>14, <1>15, <1>16, <1>17, <1>18, <1>19, <1>20,
    <1>21, <1>22, <1>23, <1>24

\* Without two writers that met, key and chain belong together.
LEMMA TogetherStep ==
  ASSUME TypeOK, LoadFirst, Made, Together, [Next]_vars
  PROVE  Together'
<1> USE AuthAssumption, NoIdType
<1>1. ASSUME Expire
    PROVE  Together'
  BY <1>1 DEF Expire, vars, known, disk, page, ghosts, TypeOK, Together,
    OneWriter, ReadsPair, Halfway, LoadFirst, Late, Early
<1>2. ASSUME NEW p \in Pages, ReadsKey(p)
    PROVE  Together'
  <2>1. /\ load' = [load EXCEPT ![p] = LoadRecord("chain", KeyRead)]
        /\ load'[p].step = "chain" /\ load'[p].id.key = key
    BY <1>2, LoadRecords, NoIdType DEF ReadsKey, LoadsTo, TypeOK
  <2>2. UNCHANGED <<calls, key, chain>>
    BY <1>2 DEF ReadsKey
  <2>3. \A q \in Pages : Halfway(q)' = Halfway(q)
    BY <2>2 DEF Halfway
  <2>4. ASSUME ~mixed'
        PROVE  ~mixed /\ \A q \in Pages : ~Halfway(q)
    BY <1>2, <2>4 DEF ReadsKey
  <2>5. ASSUME ~mixed'
        PROVE  (OneWriter /\ ReadsPair)'
    <3>1. OneWriter /\ ReadsPair
      BY <2>4, <2>5 DEF Together
    <3>2. OneWriter'
      BY <2>2, <2>3, <3>1 DEF OneWriter
    <3>3. chain = key
      BY <2>4, <2>5, <3>1 DEF OneWriter
    <3>4. \A q \in Pages : q # p => load'[q] = load[q]
      BY <2>1 DEF TypeOK
    <3>5. ReadsPair'
      BY <2>1, <2>2, <2>3, <2>4, <2>5, <3>1, <3>3, <3>4 DEF ReadsPair, Late
    <3> QED
      BY <3>2, <3>5
  <2> QED
    BY <2>5 DEF Together
<1>3. ASSUME NEW p \in Pages, ReadsChain(p)
    PROVE  Together'
  BY <1>3, LoadRecords DEF ReadsChain, LoadsTo, Known, Others, Marks,
    TypeOK, Together, OneWriter, ReadsPair, Halfway, LoadFirst, Late, Early
<1>4. ASSUME NEW p \in Pages, ReadsNothing(p)
    PROVE  Together'
  BY <1>4, LoadRecords DEF ReadsNothing, LoadsTo, Known, Others, Marks,
    TypeOK, Together, OneWriter, ReadsPair, Halfway, LoadFirst, Late, Early
<1>5. ASSUME NEW p \in Pages, Misses(p)
    PROVE  Together'
  BY <1>5, LoadRecords DEF Misses, LoadsTo, Known, Others, Marks, TypeOK,
    Together, OneWriter, ReadsPair, Halfway, LoadFirst, Late, Early
<1>6. ASSUME NEW p \in Pages, Learns(p)
    PROVE  Together'
  BY <1>6, LoadRecords DEF Learns, LoadsTo, Known, Others, Marks, TypeOK,
    Together, OneWriter, ReadsPair, Halfway, LoadFirst, Late, Early
<1>7. ASSUME NEW p \in Pages, Sticks(p)
    PROVE  Together'
  BY <1>7, LoadRecords DEF Sticks, LoadsTo, Known, Others, Marks, TypeOK,
    Together, OneWriter, ReadsPair, Halfway, LoadFirst, Late, Early
<1>8. ASSUME NEW p \in Pages, Shows(p)
    PROVE  Together'
  BY <1>8, LoadRecords DEF Shows, Publish, LoadsTo, Known, Others, Marks,
    TypeOK, Together, OneWriter, ReadsPair, Halfway, LoadFirst, Late, Early
<1>9. ASSUME NEW p \in Pages, NEW u \in Users, NEW f \in Flows, Signs(p, u, f)
    PROVE  Together'
  BY <1>9, NewSignIns DEF Signs, Mint, Others, TypeOK, Together, OneWriter,
    ReadsPair, Halfway, LoadFirst, Late, Early
<1>10. ASSUME NEW p \in Pages, Renews(p)
    PROVE  Together'
  BY <1>10, NewRenewals DEF Renews, Known, TypeOK, Together, OneWriter,
    ReadsPair, Halfway, LoadFirst, Late, Early
<1>11. ASSUME NEW p \in Pages, NEW c \in calls[p], Mints(p, c)
    PROVE  Together'
  <2>1. c \in Calls
    BY DEF TypeOK
  <2> QED
    BY <1>11, <2>1, CallFields, IdTypes, CallRecords DEF Mints, Mint,
      Swaps, CallFrame, TypeOK, Together, OneWriter, ReadsPair, Halfway,
      LoadFirst, Late, Early, Steps
<1>12. ASSUME NEW p \in Pages, NEW c \in calls[p], Drops(p, c)
    PROVE  Together'
  <2>1. c \in Calls
    BY DEF TypeOK
  <2> QED
    BY <1>12, <2>1, CallFields, IdTypes DEF Drops, Ends, CallFrame,
      TypeOK, Together, OneWriter, ReadsPair, Halfway, LoadFirst, Late,
      Early
<1>13. ASSUME NEW p \in Pages, NEW c \in calls[p], FailsAndResets(p, c)
    PROVE  Together'
  <2>1. c \in Calls
    BY DEF TypeOK
  <2> QED
    BY <1>13, <2>1, CallFields, IdTypes DEF FailsAndResets, Ends, Reset,
      CallFrame, TypeOK, Together, OneWriter, ReadsPair, Halfway,
      LoadFirst, Late, Early
<1>14. ASSUME NEW p \in Pages, NEW c \in calls[p], PutsKey(p, c)
    PROVE  Together'
  <2>1. c \in Calls
    BY DEF TypeOK
  <2> QED
    BY <1>14, <2>1, CallFields, IdTypes, CallRecords DEF PutsKey, Swaps,
      CallFrame, TypeOK, Together, OneWriter, ReadsPair, Halfway,
      LoadFirst, Late, Early, Steps
<1>15. ASSUME NEW p \in Pages, NEW c \in calls[p], PutsChainFirst(p, c)
    PROVE  Together'
  <2>1. c \in Calls
    BY DEF TypeOK
  <2> QED
    BY <1>15, <2>1, CallFields, IdTypes, CallRecords DEF PutsChainFirst,
      Swaps, CallFrame, TypeOK, Together, OneWriter, ReadsPair, Halfway,
      LoadFirst, Late, Early, Steps
<1>16. ASSUME NEW p \in Pages, NEW c \in calls[p], PutsChainLast(p, c)
    PROVE  Together'
  <2>1. c \in Calls
    BY DEF TypeOK
  <2> QED
    BY <1>16, <2>1, CallFields, IdTypes DEF PutsChainLast, Ends,
      CallFrame, TypeOK, Together, OneWriter, ReadsPair, Halfway,
      LoadFirst, Late, Early
<1>17. ASSUME NEW p \in Pages, NEW c \in calls[p], Creates(p, c)
    PROVE  Together'
  <2>1. c \in Calls
    BY DEF TypeOK
  <2> QED
    BY <1>17, <2>1, CallFields, IdTypes, CallRecords DEF Creates, Swaps,
      CallFrame, TypeOK, Together, OneWriter, ReadsPair, Halfway,
      LoadFirst, Late, Early, Steps
<1>18. ASSUME NEW p \in Pages, NEW c \in calls[p], Compares(p, c)
    PROVE  Together'
  <2>1. c \in Calls
    BY DEF TypeOK
  <2> QED
    BY <1>18, <2>1, CallFields, IdTypes, CallRecords DEF Compares, Swaps,
      CallFrame, TypeOK, Together, OneWriter, ReadsPair, Halfway,
      LoadFirst, Late, Early, Steps
<1>19. ASSUME NEW p \in Pages, NEW c \in calls[p], Saves(p, c)
    PROVE  Together'
  <2>1. c \in Calls
    BY DEF TypeOK
  <2> QED
    BY <1>19, <2>1, CallFields, IdTypes DEF Saves, SavedFrame, Publish,
      Ends, CallFrame, TypeOK, Together, OneWriter, ReadsPair, Halfway,
      LoadFirst, Late, Early
<1>20. ASSUME NEW p \in Pages, NEW c \in calls[p], SavesFirst(p, c)
    PROVE  Together'
  <2>1. c \in Calls
    BY DEF TypeOK
  <2> QED
    BY <1>20, <2>1, CallFields, IdTypes, CallRecords DEF SavesFirst,
      SavedFrame, Publish, Swaps, CallFrame, TypeOK, Together, OneWriter,
      ReadsPair, Halfway, LoadFirst, Late, Early, Steps
<1>21. ASSUME NEW p \in Pages, Resets(p)
    PROVE  Together'
  BY <1>21 DEF Resets, Reset, Known, TypeOK, Together, OneWriter, ReadsPair,
    Halfway, LoadFirst, Late, Early
<1>22. ASSUME NEW p \in Pages, Reload(p)
    PROVE  Together'
  BY <1>22 DEF Reload, Fresh, vars, known, disk, page, ghosts, TypeOK,
    Together, OneWriter, ReadsPair, Halfway, LoadFirst, Late, Early
<1>23. ASSUME NEW p \in Pages, Forgets(p)
    PROVE  Together'
  <2>1. UNCHANGED <<calls, load>>
    BY <1>23 DEF Forgets
  <2>2. CASE UNCHANGED <<key, chain, mixed>>
    BY <2>1, <2>2 DEF Together, OneWriter, ReadsPair, Halfway
  <2>3. CASE /\ key' = 0 /\ chain' = 0
             /\ mixed' = (mixed \/ \E q \in Pages : Halfway(q))
    <3> SUFFICES ASSUME ~mixed' PROVE OneWriter' /\ ReadsPair'
      BY DEF Together
    <3>1. OneWriter /\ ReadsPair /\ \A q \in Pages : ~Halfway(q)
      BY <2>3 DEF Together
    <3>2. OneWriter'
      BY <2>1, <2>3, <3>1 DEF OneWriter, Halfway
    <3>3. ReadsPair'
      BY <2>1, <2>3, <3>1 DEF ReadsPair, Halfway
    <3> QED
      BY <3>2, <3>3
  <2> QED
    BY <1>23, <2>2, <2>3 DEF Forgets
<1>24. ASSUME UNCHANGED vars
    PROVE  Together'
  BY <1>24 DEF vars, known, disk, page, ghosts, TypeOK, Together, OneWriter,
    ReadsPair, Halfway, LoadFirst, Late, Early
<1> QED
  BY StepKinds, <1>1, <1>2, <1>3, <1>4, <1>5, <1>6, <1>7, <1>8, <1>9, <1>10,
    <1>11, <1>12, <1>13, <1>14, <1>15, <1>16, <1>17, <1>18, <1>19, <1>20,
    <1>21, <1>22, <1>23, <1>24

\* A session that is saved is shown, and is that of the last sign-in.
LEMMA SavedIsShown ==
  ASSUME TypeOK, Made, Alone, ShowsLastSignIn,
         NEW p \in Pages, NEW c \in calls[p], SavedFrame(p, c)
  PROVE  ShowsLastSignIn'
<1> USE AuthAssumption
<1>1. c \in Calls /\ CallMade(c) /\ Id(c).chain = c.made
      /\ Id(c).key = c.made /\ c.kind \in {"signin", "renew"}
  BY CallFields, IdTypes DEF TypeOK, Made
<1>2. /\ session' = [session EXCEPT ![p] = Id(c)]
      /\ last' = [last EXCEPT ![p] = IF c.kind = "signin" THEN c.user ELSE @]
      /\ UNCHANGED <<overtaken, owner, mixed>> /\ c.step = "save"
  BY DEF SavedFrame, Publish
<1>3. UserOf(Id(c)) = c.user /\ c.user \in Users
  BY <1>1, <1>2 DEF CallMade, UserOf
<1>4. ASSUME c.kind = "renew", ~overtaken[p]
      PROVE  c.user = last[p]
  <2>1. c.device
    BY <1>1, <1>3, <1>4, AuthAssumption DEF CallMade
  <2>2. session[p] # NoId /\ c.user = UserOf(session[p])
    BY <1>4, <2>1 DEF Alone
  <2> QED
    BY <1>4, <2>2 DEF ShowsLastSignIn
<1>5. session'[p] = Id(c)
      /\ last'[p] = IF c.kind = "signin" THEN c.user ELSE last[p]
  BY <1>2 DEF TypeOK
<1>6. \A q \in Pages : q # p => session'[q] = session[q] /\ last'[q] = last[q]
  BY <1>2 DEF TypeOK
<1>7. \A id : UserOf(id)' = UserOf(id)
  BY <1>2 DEF UserOf
<1>8. ASSUME NEW q \in Pages
      PROVE  (/\ session[q] # NoId /\ ~overtaken[q]
                   => UserOf(session[q]) = last[q]
              /\ ~mixed => session[q].key = session[q].chain)'
  <2>1. CASE q = p
    BY <1>1, <1>2, <1>3, <1>4, <1>5, <1>7, <2>1 DEF UserOf
  <2>2. CASE q # p
    BY <1>2, <1>6, <1>7, <2>2 DEF ShowsLastSignIn, UserOf
  <2> QED
    BY <2>1, <2>2
<1> QED
  BY <1>8 DEF ShowsLastSignIn

\* A renewal shows nobody else.
LEMMA ShownStep ==
  ASSUME TypeOK, LoadFirst, Made, Alone, Together, ShowsLastSignIn, [Next]_vars
  PROVE  ShowsLastSignIn'
<1> USE AuthAssumption, NoIdType
<1>1. ASSUME Expire
    PROVE  ShowsLastSignIn'
  BY <1>1 DEF Expire, vars, known, disk, page, ghosts, TypeOK,
    ShowsLastSignIn, Together, ReadsPair, Alone, LoadFirst, Late, Early,
    UserOf, Made, CallMade
<1>2. ASSUME NEW p \in Pages, ReadsKey(p)
    PROVE  ShowsLastSignIn'
  BY <1>2, LoadRecords DEF ReadsKey, LoadsTo, Known, Others, Marks, TypeOK,
    ShowsLastSignIn, Together, ReadsPair, Alone, LoadFirst, Late, Early,
    UserOf, Made, CallMade
<1>3. ASSUME NEW p \in Pages, ReadsChain(p)
    PROVE  ShowsLastSignIn'
  BY <1>3, LoadRecords DEF ReadsChain, LoadsTo, Known, Others, Marks,
    TypeOK, ShowsLastSignIn, Together, ReadsPair, Alone, LoadFirst, Late,
    Early, UserOf, Made, CallMade
<1>4. ASSUME NEW p \in Pages, ReadsNothing(p)
    PROVE  ShowsLastSignIn'
  BY <1>4, LoadRecords DEF ReadsNothing, LoadsTo, Known, Others, Marks,
    TypeOK, ShowsLastSignIn, Together, ReadsPair, Alone, LoadFirst, Late,
    Early, UserOf, Made, CallMade
<1>5. ASSUME NEW p \in Pages, Misses(p)
    PROVE  ShowsLastSignIn'
  BY <1>5, LoadRecords DEF Misses, LoadsTo, Known, Others, Marks, TypeOK,
    ShowsLastSignIn, Together, ReadsPair, Alone, LoadFirst, Late, Early,
    UserOf, Made, CallMade
<1>6. ASSUME NEW p \in Pages, Learns(p)
    PROVE  ShowsLastSignIn'
  BY <1>6, LoadRecords DEF Learns, LoadsTo, Known, Others, Marks, TypeOK,
    ShowsLastSignIn, Together, ReadsPair, Alone, LoadFirst, Late, Early,
    UserOf, Made, CallMade
<1>7. ASSUME NEW p \in Pages, Sticks(p)
    PROVE  ShowsLastSignIn'
  BY <1>7, LoadRecords DEF Sticks, LoadsTo, Known, Others, Marks, TypeOK,
    ShowsLastSignIn, Together, ReadsPair, Alone, LoadFirst, Late, Early,
    UserOf, Made, CallMade
<1>8. ASSUME NEW p \in Pages, Shows(p)
    PROVE  ShowsLastSignIn'
  BY <1>8, LoadRecords DEF Shows, Publish, LoadsTo, Known, Others, Marks,
    TypeOK, ShowsLastSignIn, Together, ReadsPair, Alone, LoadFirst, Late,
    Early, UserOf, Made, CallMade
<1>9. ASSUME NEW p \in Pages, NEW u \in Users, NEW f \in Flows, Signs(p, u, f)
    PROVE  ShowsLastSignIn'
  BY <1>9, NewSignIns DEF Signs, Mint, Others, TypeOK, ShowsLastSignIn,
    Together, ReadsPair, Alone, LoadFirst, Late, Early, UserOf, Made,
    CallMade
<1>10. ASSUME NEW p \in Pages, Renews(p)
    PROVE  ShowsLastSignIn'
  BY <1>10, NewRenewals DEF Renews, Known, TypeOK, ShowsLastSignIn,
    Together, ReadsPair, Alone, LoadFirst, Late, Early, UserOf, Made,
    CallMade
<1>11. ASSUME NEW p \in Pages, NEW c \in calls[p], Mints(p, c)
    PROVE  ShowsLastSignIn'
  <2>1. c \in Calls
    BY DEF TypeOK
  <2> QED
    BY <1>11, <2>1, CallFields, IdTypes, CallRecords DEF Mints, Mint,
      Swaps, CallFrame, TypeOK, ShowsLastSignIn, Together, ReadsPair,
      Alone, LoadFirst, Late, Early, UserOf, Made, CallMade, Steps
<1>12. ASSUME NEW p \in Pages, NEW c \in calls[p], Drops(p, c)
    PROVE  ShowsLastSignIn'
  <2>1. c \in Calls
    BY DEF TypeOK
  <2> QED
    BY <1>12, <2>1, CallFields, IdTypes DEF Drops, Ends, CallFrame,
      TypeOK, ShowsLastSignIn, Together, ReadsPair, Alone, LoadFirst,
      Late, Early, UserOf, Made, CallMade
<1>13. ASSUME NEW p \in Pages, NEW c \in calls[p], FailsAndResets(p, c)
    PROVE  ShowsLastSignIn'
  <2>1. c \in Calls
    BY DEF TypeOK
  <2> QED
    BY <1>13, <2>1, CallFields, IdTypes DEF FailsAndResets, Ends, Reset,
      CallFrame, TypeOK, ShowsLastSignIn, Together, ReadsPair, Alone,
      LoadFirst, Late, Early, UserOf, Made, CallMade
<1>14. ASSUME NEW p \in Pages, NEW c \in calls[p], PutsKey(p, c)
    PROVE  ShowsLastSignIn'
  <2>1. c \in Calls
    BY DEF TypeOK
  <2> QED
    BY <1>14, <2>1, CallFields, IdTypes, CallRecords DEF PutsKey, Swaps,
      CallFrame, TypeOK, ShowsLastSignIn, Together, ReadsPair, Alone,
      LoadFirst, Late, Early, UserOf, Made, CallMade, Steps
<1>15. ASSUME NEW p \in Pages, NEW c \in calls[p], PutsChainFirst(p, c)
    PROVE  ShowsLastSignIn'
  <2>1. c \in Calls
    BY DEF TypeOK
  <2> QED
    BY <1>15, <2>1, CallFields, IdTypes, CallRecords DEF PutsChainFirst,
      Swaps, CallFrame, TypeOK, ShowsLastSignIn, Together, ReadsPair,
      Alone, LoadFirst, Late, Early, UserOf, Made, CallMade, Steps
<1>16. ASSUME NEW p \in Pages, NEW c \in calls[p], PutsChainLast(p, c)
    PROVE  ShowsLastSignIn'
  <2>1. c \in Calls
    BY DEF TypeOK
  <2> QED
    BY <1>16, <2>1, CallFields, IdTypes DEF PutsChainLast, Ends,
      CallFrame, TypeOK, ShowsLastSignIn, Together, ReadsPair, Alone,
      LoadFirst, Late, Early, UserOf, Made, CallMade
<1>17. ASSUME NEW p \in Pages, NEW c \in calls[p], Creates(p, c)
    PROVE  ShowsLastSignIn'
  <2>1. c \in Calls
    BY DEF TypeOK
  <2> QED
    BY <1>17, <2>1, CallFields, IdTypes, CallRecords DEF Creates, Swaps,
      CallFrame, TypeOK, ShowsLastSignIn, Together, ReadsPair, Alone,
      LoadFirst, Late, Early, UserOf, Made, CallMade, Steps
<1>18. ASSUME NEW p \in Pages, NEW c \in calls[p], Compares(p, c)
    PROVE  ShowsLastSignIn'
  <2>1. c \in Calls
    BY DEF TypeOK
  <2> QED
    BY <1>18, <2>1, CallFields, IdTypes, CallRecords DEF Compares, Swaps,
      CallFrame, TypeOK, ShowsLastSignIn, Together, ReadsPair, Alone,
      LoadFirst, Late, Early, UserOf, Made, CallMade, Steps
<1>19. ASSUME NEW p \in Pages, NEW c \in calls[p], Saves(p, c)
    PROVE  ShowsLastSignIn'
  BY <1>19, SavedIsShown DEF Saves
<1>20. ASSUME NEW p \in Pages, NEW c \in calls[p], SavesFirst(p, c)
    PROVE  ShowsLastSignIn'
  BY <1>20, SavedIsShown DEF SavesFirst
<1>21. ASSUME NEW p \in Pages, Resets(p)
    PROVE  ShowsLastSignIn'
  BY <1>21 DEF Resets, Reset, Known, TypeOK, ShowsLastSignIn, Together,
    ReadsPair, Alone, LoadFirst, Late, Early, UserOf, Made, CallMade
<1>22. ASSUME NEW p \in Pages, Reload(p)
    PROVE  ShowsLastSignIn'
  BY <1>22 DEF Reload, Fresh, vars, known, disk, page, ghosts, TypeOK,
    ShowsLastSignIn, Together, ReadsPair, Alone, LoadFirst, Late, Early,
    UserOf, Made, CallMade
<1>23. ASSUME NEW p \in Pages, Forgets(p)
    PROVE  ShowsLastSignIn'
  BY <1>23 DEF Forgets, Known, TypeOK, ShowsLastSignIn, Together, ReadsPair,
    Alone, LoadFirst, Late, Early, UserOf, Made, CallMade
<1>24. ASSUME UNCHANGED vars
    PROVE  ShowsLastSignIn'
  BY <1>24 DEF vars, known, disk, page, ghosts, TypeOK, ShowsLastSignIn,
    Together, ReadsPair, Alone, LoadFirst, Late, Early, UserOf, Made,
    CallMade
<1> QED
  BY StepKinds, <1>1, <1>2, <1>3, <1>4, <1>5, <1>6, <1>7, <1>8, <1>9, <1>10,
    <1>11, <1>12, <1>13, <1>14, <1>15, <1>16, <1>17, <1>18, <1>19, <1>20,
    <1>21, <1>22, <1>23, <1>24

-----------------------------------------------------------------------------
(* The invariant, and the properties it gives *)

LEMMA InitInv == Init => IInv
<1> SUFFICES ASSUME Init PROVE IInv
  OBVIOUS
<1> USE AuthAssumption, NoIdType DEF Init
<1>1. Fresh.step = "key" /\ Fresh.id = NoId /\ Fresh \in LoadTypes
  BY DEF Fresh, LoadTypes
<1>2. TypeOK
  <2>1. load \in [Pages -> LoadTypes]
    BY <1>1
  <2>2. /\ \A p \in Pages : (session[p].chain = 0) = (session[p] = NoId)
        /\ session \in [Pages -> Ids] /\ agent \in [Pages -> Ids]
        /\ calls \in [Pages -> SUBSET Calls]
    OBVIOUS
  <2>3. owner \in [Sessions -> Users \cup {Nobody}]
    OBVIOUS
  <2>4. /\ minted \in 0..MaxSessions /\ expired \subseteq 1..minted
        /\ key \in 0..minted /\ chain \in 0..minted
        /\ trouble \in 0..MaxTrouble
    OBVIOUS
  <2>5. /\ profiles \subseteq Users /\ deleting \subseteq Pages
        /\ loaded \in [Pages -> BOOLEAN] /\ mixed \in BOOLEAN
        /\ renewing \in [Pages -> BOOLEAN] /\ leaving \in [Pages -> BOOLEAN]
        /\ overtaken \in [Pages -> BOOLEAN] /\ astray \in [Pages -> BOOLEAN]
        /\ broken \in [Pages -> BOOLEAN]
    OBVIOUS
  <2>6. /\ idle \in [Pages -> {"off", "armed", "fired"}]
        /\ last \in [Pages -> Users \cup {Nobody}]
    OBVIOUS
  <2> HIDE DEF Init
  <2> QED
    BY <2>1, <2>2, <2>3, <2>4, <2>5, <2>6 DEF TypeOK, LoadTypes
<1>3. LoadFirst /\ Made
  BY <1>1 DEF LoadFirst, Early, Late, Made
<1>4. Alone
  BY DEF Alone
<1>5. Together
  BY <1>1 DEF Together, OneWriter, ReadsPair, Late, Halfway
<1>6. ShowsLastSignIn /\ AgentIsSession
  BY DEF ShowsLastSignIn, AgentIsSession
<1> QED
  BY <1>2, <1>3, <1>4, <1>5, <1>6 DEF IInv

LEMMA StepInv == IInv /\ [Next]_vars => IInv'
<1> SUFFICES ASSUME IInv, [Next]_vars PROVE IInv'
  OBVIOUS
<1>1. /\ TypeOK /\ LoadFirst /\ Made /\ Alone /\ Together
      /\ ShowsLastSignIn /\ AgentIsSession
  BY DEF IInv
<1>2. TypeOK' /\ LoadFirst' /\ Made'
  BY <1>1, TypeStep, LoadFirstStep, MadeStep
<1>3. Alone' /\ Together'
  BY <1>1, AloneStep, TogetherStep
<1>4. ShowsLastSignIn' /\ AgentIsSession'
  BY <1>1, ShownStep, AgentStep
<1> QED
  BY <1>2, <1>3, <1>4 DEF IInv

LEMMA Invariant == Spec => []IInv
  BY InitInv, StepInv, PTL DEF Spec

\* The variables keep their types.
THEOREM TypeCorrect == Spec => []TypeOK
<1>1. IInv => TypeOK
  BY DEF IInv
<1> QED
  BY <1>1, Invariant, PTL

\* A page shows the user who signed in or was loaded last, with a key and a
\* chain of the same session, for any number of pages, renewals and failures.
THEOREM SignInShown == Spec => []ShowsLastSignIn
<1>1. IInv => ShowsLastSignIn
  BY DEF IInv
<1> QED
  BY <1>1, Invariant, PTL

\* The shared agent of a page signs with the session that the page shows.
THEOREM AgentFollows == Spec => []AgentIsSession
<1>1. IInv => AgentIsSession
  BY DEF IInv
<1> QED
  BY <1>1, Invariant, PTL

\* As long as no two writers meet, the pair in authStorage is of one session
\* whenever no call is between its two writes.
THEOREM StoredPair ==
  Spec => [](~mixed /\ (\A p \in Pages : ~Halfway(p)) => key = chain)
<1>1. IInv => (~mixed /\ (\A p \in Pages : ~Halfway(p)) => key = chain)
  BY DEF IInv, Together, OneWriter
<1> QED
  BY <1>1, Invariant, PTL

=============================================================================
