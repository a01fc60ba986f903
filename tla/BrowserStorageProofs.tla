-------------------------- MODULE BrowserStorageProofs --------------------------
(***************************************************************************)
(* What BrowserStorage promises, proved for any number of stores, accesses, *)
(* switches, sign-outs, reloads and failures.                               *)
(***************************************************************************)
EXTENDS BrowserStorage, TLAPS

\* The request is in the queue of s.
In(q, s, request) == \E i \in 1..Len(q[s]) : q[s][i] = request

OneCopy(q) ==
    \A s, t \in Stores : \A i \in 1..Len(q[s]), j \in 1..Len(q[t]) :
        q[s][i] = "copy" /\ q[t][j] = "copy" => s = t /\ i = j

\* Each first access of s in the queue has a deletion of the switch behind it.
Barred(q, s) ==
    \A j \in 1..Len(q[s]) :
        q[s][j] = "open" => \E i \in (j + 1)..Len(q[s]) : q[s][i] = "delete"

\* Deletions are asked of condemned databases only, the switch waits for its
\* own, and one copy at a time is on its way, of a store not copied yet.
Queued ==
    /\ condemned \subseteq MemoryCapable
    /\ OneCopy(requests)
    /\ \A s \in Stores :
          /\ \A r \in Deletions : In(requests, s, r) => s \in condemned
          /\ In(requests, s, "delete") => phase = "delete"
          /\ In(requests, s, "copy") => phase = "copy" /\ s \in MemoryCapable \ copied

\* A store is bound to memory by a commit or by a fall-back, and the memory
\* mode comes after the switch.
Bindings ==
    /\ \A s \in Stores : bound[s] = "memory" => s \in condemned \union fellBack
    /\ mode = "MEMORY" => phase = "none" /\ ~local
    /\ phase # "copy" => copied = {}

\* The rows are numbered by the clock.
Numbered == \A s \in Stores : disk[s] <= clock /\ memory[s] <= clock /\ atStart[s] <= clock

OnDisk == \A s \in Stores \ (condemned \union fellBack) : disk[s] = written[s]

\* After the commit a first access that still waits for its handle comes
\* before the deletion, which cannot be served while that handle is open; once
\* the deletion is served nothing is on disk and nothing leads there.
Moved ==
    phase = "delete" \/ mode = "MEMORY" =>
        \A s \in MemoryCapable :
            /\ bound[s] # "none"
            /\ Barred(requests, s)
            /\ ~In(requests, s, "delete") => disk[s] = 0 /\ bound[s] = "memory"

\* The row of the start is on disk until it is copied, and in memory then.
Kept ==
    /\ phase = "copy" =>
          \A s \in MemoryCapable \ fellBack :
              /\ disk[s] >= atStart[s]
              /\ s \in condemned => atStart[s] = 0
              /\ s \in copied => memory[s] >= atStart[s]
    /\ phase = "delete" \/ mode = "MEMORY" =>
          \A s \in MemoryCapable \ fellBack : memory[s] >= atStart[s]

IInv == TypeOK /\ Queued /\ Bindings /\ Numbered /\ OnDisk /\ Moved /\ Kept


-----------------------------------------------------------------------------
(* The request queues *)

\* Serving the oldest request of s moves each other one forward.
LEMMA ServeShifts ==
  ASSUME TypeOK, NEW s \in Stores, requests[s] # <<>>
  PROVE  /\ Serve(s) \in [Stores -> Seq(Requests)]
         /\ \A t \in Stores : t # s => Serve(s)[t] = requests[t]
         /\ Len(Serve(s)[s]) \in Nat /\ Len(requests[s]) = Len(Serve(s)[s]) + 1
         /\ \A i \in 1..Len(Serve(s)[s]) : Serve(s)[s][i] = requests[s][i + 1]
         /\ Head(requests[s]) = requests[s][1]
<1>1. requests \in [Stores -> Seq(Requests)] /\ requests[s] \in Seq(Requests)
  BY DEF TypeOK
<1>2. Serve(s)[s] = Tail(requests[s])
  BY <1>1 DEF Serve
<1> QED BY <1>1, <1>2 DEF Serve

\* A new request comes after those that wait.
LEMMA AskAppends ==
  ASSUME TypeOK, NEW S \in SUBSET Stores, NEW r \in Requests
  PROVE  /\ Ask(S, r) \in [Stores -> Seq(Requests)]
         /\ \A t \in Stores : t \notin S => Ask(S, r)[t] = requests[t]
         /\ \A t \in S :
               /\ Len(requests[t]) \in Nat /\ Len(Ask(S, r)[t]) = Len(requests[t]) + 1
               /\ \A i \in 1..Len(requests[t]) : Ask(S, r)[t][i] = requests[t][i]
               /\ Ask(S, r)[t][Len(requests[t]) + 1] = r
<1>1. requests \in [Stores -> Seq(Requests)]
  BY DEF TypeOK
<1>2. \A t \in S : requests[t] \in Seq(Requests) /\ Ask(S, r)[t] = Append(requests[t], r)
  BY <1>1 DEF Ask
<1> QED BY <1>1, <1>2 DEF Ask

\* A deletion that is given up keeps its place.
LEMMA OrphanKeepsPlace ==
  ASSUME NEW q \in [Stores -> Seq(Requests)], NEW r
  PROVE  /\ Orphaned(q, r) \in [Stores -> Seq(Requests)]
         /\ \A t \in Stores :
               /\ Len(q[t]) \in Nat /\ Len(Orphaned(q, r)[t]) = Len(q[t])
               /\ \A i \in 1..Len(q[t]) :
                     Orphaned(q, r)[t][i] = IF q[t][i] = r THEN "orphan" ELSE q[t][i]
<1>1. ASSUME NEW t \in Stores
      PROVE  /\ Orphaned(q, r)[t] \in Seq(Requests)
             /\ Len(q[t]) \in Nat /\ Len(Orphaned(q, r)[t]) = Len(q[t])
             /\ \A i \in 1..Len(q[t]) :
                   Orphaned(q, r)[t][i] = IF q[t][i] = r THEN "orphan" ELSE q[t][i]
  <2>1. q[t] \in Seq(Requests)
    OBVIOUS
  <2>2. \A i \in 1..Len(q[t]) : q[t][i] \in Requests
    BY <2>1
  <2> QED BY <2>1, <2>2 DEF Orphaned, Requests, Deletions
<1>2. DOMAIN Orphaned(q, r) = Stores /\ Orphaned(q, r) = [t \in Stores |-> Orphaned(q, r)[t]]
  BY DEF Orphaned
<1> QED BY <1>1, <1>2

\* What serving leaves in the queues.
LEMMA ServeLeaves ==
  ASSUME TypeOK, NEW s \in Stores, requests[s] # <<>>
  PROVE  /\ \A t \in Stores, r \in Requests : In(Serve(s), t, r) => In(requests, t, r)
         /\ \A t \in Stores, r \in Requests :
               In(requests, t, r) /\ ~(t = s /\ r = Head(requests[s])) => In(Serve(s), t, r)
         /\ OneCopy(requests) => OneCopy(Serve(s))
         /\ \A t \in Stores : Barred(requests, t) => Barred(Serve(s), t)
<1> DEFINE q == Serve(s)
<1>1. /\ \A t \in Stores : t # s => q[t] = requests[t]
      /\ Len(q[s]) \in Nat /\ Len(requests[s]) = Len(q[s]) + 1
      /\ \A i \in 1..Len(q[s]) : q[s][i] = requests[s][i + 1]
      /\ Head(requests[s]) = requests[s][1]
  BY ServeShifts
<1> HIDE DEF q
<1>2. ASSUME NEW t \in Stores, NEW r \in Requests, In(q, t, r)
      PROVE  In(requests, t, r)
  <2>1. CASE t # s
    BY <1>1, <1>2, <2>1 DEF In
  <2>2. CASE t = s
    <3>1. PICK i \in 1..Len(q[s]) : q[s][i] = r
      BY <1>2, <2>2 DEF In
    <3>2. i + 1 \in 1..Len(requests[s]) /\ requests[s][i + 1] = r
      BY <1>1, <3>1
    <3> QED BY <2>2, <3>2 DEF In
  <2> QED BY <2>1, <2>2
<1>3. ASSUME NEW t \in Stores, NEW r \in Requests, In(requests, t, r),
             ~(t = s /\ r = Head(requests[s]))
      PROVE  In(q, t, r)
  <2>1. CASE t # s
    BY <1>1, <1>3, <2>1 DEF In
  <2>2. CASE t = s
    <3>1. PICK i \in 1..Len(requests[s]) : requests[s][i] = r
      BY <1>3, <2>2 DEF In
    <3>2. i # 1
      BY <1>1, <1>3, <2>2, <3>1
    <3>3. i - 1 \in 1..Len(q[s]) /\ q[s][i - 1] = requests[s][(i - 1) + 1]
      BY <1>1, <3>1, <3>2
    <3>4. q[s][i - 1] = r
      BY <3>1, <3>3
    <3> QED BY <2>2, <3>3, <3>4 DEF In
  <2> QED BY <2>1, <2>2
<1>4. ASSUME OneCopy(requests) PROVE OneCopy(q)
  <2> SUFFICES ASSUME NEW t \in Stores, NEW u \in Stores,
                      NEW i \in 1..Len(q[t]), NEW j \in 1..Len(q[u]),
                      q[t][i] = "copy", q[u][j] = "copy"
               PROVE  t = u /\ i = j
    BY DEF OneCopy
  <2> DEFINE k == IF t = s THEN i + 1 ELSE i
             l == IF u = s THEN j + 1 ELSE j
  <2>1. k \in 1..Len(requests[t]) /\ requests[t][k] = "copy"
    BY <1>1
  <2>2. l \in 1..Len(requests[u]) /\ requests[u][l] = "copy"
    BY <1>1
  <2>3. t = u /\ k = l
    BY <1>4, <2>1, <2>2 DEF OneCopy
  <2> QED BY <2>3
<1>5. ASSUME NEW t \in Stores, Barred(requests, t)
      PROVE  Barred(q, t)
  <2>1. CASE t # s
    BY <1>1, <1>5, <2>1 DEF Barred
  <2>2. CASE t = s
    <3> SUFFICES ASSUME NEW j \in 1..Len(q[s]), q[s][j] = "open"
                 PROVE  \E i \in (j + 1)..Len(q[s]) : q[s][i] = "delete"
      BY <2>2 DEF Barred
    <3>1. j + 1 \in 1..Len(requests[s]) /\ requests[s][j + 1] = "open"
      BY <1>1
    <3>2. PICK i \in ((j + 1) + 1)..Len(requests[s]) : requests[s][i] = "delete"
      BY <1>5, <2>2, <3>1 DEF Barred
    <3>3. i - 1 \in (j + 1)..Len(q[s]) /\ i - 1 \in 1..Len(q[s])
      BY <1>1, <3>2
    <3>4. q[s][i - 1] = requests[s][(i - 1) + 1]
      BY <1>1, <3>3
    <3>5. q[s][i - 1] = "delete"
      BY <3>2, <3>3, <3>4
    <3> QED BY <3>3, <3>5
  <2> QED BY <2>1, <2>2
<1> QED BY <1>2, <1>3, <1>4, <1>5 DEF q

\* A copy that is served was the only one.
LEMMA NoOtherCopy ==
  ASSUME TypeOK, NEW s \in Stores, requests[s] # <<>>, Head(requests[s]) = "copy",
         OneCopy(requests)
  PROVE  \A t \in Stores : ~In(Serve(s), t, "copy")
<1>1. /\ \A t \in Stores : t # s => Serve(s)[t] = requests[t]
      /\ Len(Serve(s)[s]) \in Nat /\ Len(requests[s]) = Len(Serve(s)[s]) + 1
      /\ \A i \in 1..Len(Serve(s)[s]) : Serve(s)[s][i] = requests[s][i + 1]
      /\ Head(requests[s]) = requests[s][1]
  BY ServeShifts
<1>2. 1 \in 1..Len(requests[s]) /\ requests[s][1] = "copy"
  BY <1>1
<1>3. SUFFICES ASSUME NEW t \in Stores, NEW i \in 1..Len(Serve(s)[t]), Serve(s)[t][i] = "copy"
               PROVE  FALSE
  BY DEF In
<1>4. CASE t # s
  <2>1. i \in 1..Len(requests[t]) /\ requests[t][i] = "copy"
    BY <1>1, <1>3, <1>4
  <2> QED BY <1>2, <1>4, <2>1 DEF OneCopy
<1>5. CASE t = s
  <2>1. i + 1 \in 1..Len(requests[s]) /\ requests[s][i + 1] = "copy" /\ i + 1 # 1
    BY <1>1, <1>3, <1>5
  <2> QED BY <1>2, <2>1 DEF OneCopy
<1> QED BY <1>4, <1>5

\* What asking adds to the queues.
LEMMA AskAdds ==
  ASSUME TypeOK, NEW S \in SUBSET Stores, NEW r \in Requests
  PROVE  /\ \A t \in Stores, x \in Requests :
               In(Ask(S, r), t, x) <=> In(requests, t, x) \/ (t \in S /\ x = r)
         /\ r # "copy" /\ OneCopy(requests) => OneCopy(Ask(S, r))
         /\ \A t \in Stores : r # "open" /\ Barred(requests, t) => Barred(Ask(S, r), t)
         /\ \A t \in S : r = "delete" => Barred(Ask(S, r), t)
<1> DEFINE q == Ask(S, r)
<1>1. /\ \A t \in Stores : t \notin S => q[t] = requests[t]
      /\ \A t \in S :
            /\ Len(requests[t]) \in Nat /\ Len(q[t]) = Len(requests[t]) + 1
            /\ \A i \in 1..Len(requests[t]) : q[t][i] = requests[t][i]
            /\ q[t][Len(requests[t]) + 1] = r
  BY AskAppends
<1> HIDE DEF q
<1>2. ASSUME NEW t \in Stores, NEW x \in Requests
      PROVE  In(q, t, x) <=> In(requests, t, x) \/ (t \in S /\ x = r)
  <2>1. CASE t \notin S
    BY <1>1, <2>1 DEF In
  <2>2. CASE t \in S
    <3>1. ASSUME In(q, t, x), x # r PROVE In(requests, t, x)
      <4>1. PICK i \in 1..Len(q[t]) : q[t][i] = x
        BY <3>1 DEF In
      <4>2. i \in 1..Len(requests[t]) /\ requests[t][i] = x
        BY <1>1, <2>2, <3>1, <4>1
      <4> QED BY <4>2 DEF In
    <3>2. ASSUME In(requests, t, x) PROVE In(q, t, x)
      <4>1. PICK i \in 1..Len(requests[t]) : requests[t][i] = x
        BY <3>2 DEF In
      <4>2. i \in 1..Len(q[t]) /\ q[t][i] = x
        BY <1>1, <2>2, <4>1
      <4> QED BY <4>2 DEF In
    <3>3. ASSUME x = r PROVE In(q, t, x)
      <4>1. Len(requests[t]) + 1 \in 1..Len(q[t])
        BY <1>1, <2>2
      <4> QED BY <1>1, <2>2, <3>3, <4>1 DEF In
    <3> QED BY <2>2, <3>1, <3>2, <3>3
  <2> QED BY <2>1, <2>2
<1>3. ASSUME r # "copy", OneCopy(requests) PROVE OneCopy(q)
  <2> SUFFICES ASSUME NEW t \in Stores, NEW u \in Stores,
                      NEW i \in 1..Len(q[t]), NEW j \in 1..Len(q[u]),
                      q[t][i] = "copy", q[u][j] = "copy"
               PROVE  t = u /\ i = j
    BY DEF OneCopy
  <2>1. i \in 1..Len(requests[t]) /\ requests[t][i] = "copy"
    BY <1>1, <1>3
  <2>2. j \in 1..Len(requests[u]) /\ requests[u][j] = "copy"
    BY <1>1, <1>3
  <2> QED BY <1>3, <2>1, <2>2 DEF OneCopy
<1>4. ASSUME NEW t \in Stores, r # "open", Barred(requests, t) PROVE Barred(q, t)
  <2>1. CASE t \notin S
    BY <1>1, <1>4, <2>1 DEF Barred
  <2>2. CASE t \in S
    <3> SUFFICES ASSUME NEW j \in 1..Len(q[t]), q[t][j] = "open"
                 PROVE  \E i \in (j + 1)..Len(q[t]) : q[t][i] = "delete"
      BY DEF Barred
    <3>1. j \in 1..Len(requests[t]) /\ requests[t][j] = "open"
      BY <1>1, <1>4, <2>2
    <3>2. PICK i \in (j + 1)..Len(requests[t]) : requests[t][i] = "delete"
      BY <1>4, <3>1 DEF Barred
    <3>3. i \in (j + 1)..Len(q[t]) /\ i \in 1..Len(requests[t])
      BY <1>1, <2>2, <3>2
    <3> QED BY <1>1, <2>2, <3>2, <3>3
  <2> QED BY <2>1, <2>2
<1>5. ASSUME NEW t \in S, r = "delete" PROVE Barred(q, t)
  <2> SUFFICES ASSUME NEW j \in 1..Len(q[t]), q[t][j] = "open"
               PROVE  \E i \in (j + 1)..Len(q[t]) : q[t][i] = "delete"
    BY DEF Barred
  <2>1. j # Len(requests[t]) + 1
    BY <1>1, <1>5
  <2>2. Len(requests[t]) + 1 \in (j + 1)..Len(q[t])
    BY <1>1, <2>1
  <2> QED BY <1>1, <1>5, <2>2
<1> QED BY <1>2, <1>3, <1>4, <1>5 DEF q

\* What giving deletions up changes in the queues.
LEMMA OrphanChanges ==
  ASSUME NEW q \in [Stores -> Seq(Requests)], NEW r \in {"delete", "wipe"}
  PROVE  /\ \A t \in Stores, x \in Requests :
               x # "orphan" => (In(Orphaned(q, r), t, x) <=> In(q, t, x) /\ x # r)
         /\ \A t \in Stores : In(Orphaned(q, r), t, "orphan") => In(q, t, "orphan") \/ In(q, t, r)
         /\ OneCopy(q) => OneCopy(Orphaned(q, r))
         /\ \A t \in Stores : r = "wipe" /\ Barred(q, t) => Barred(Orphaned(q, r), t)
<1> DEFINE p == Orphaned(q, r)
<1>1. \A t \in Stores :
         /\ Len(q[t]) \in Nat /\ Len(p[t]) = Len(q[t])
         /\ \A i \in 1..Len(q[t]) : p[t][i] = IF q[t][i] = r THEN "orphan" ELSE q[t][i]
  BY OrphanKeepsPlace
<1> HIDE DEF p
<1>2. ASSUME NEW t \in Stores, NEW x \in Requests, x # "orphan"
      PROVE  In(p, t, x) <=> In(q, t, x) /\ x # r
  <2>1. \A i \in 1..Len(q[t]) : p[t][i] = x <=> q[t][i] = x /\ x # r
    BY <1>1, <1>2
  <2>2. Len(p[t]) = Len(q[t])
    BY <1>1
  <2> QED BY <2>1, <2>2 DEF In
<1>3. \A t \in Stores : In(p, t, "orphan") => In(q, t, "orphan") \/ In(q, t, r)
  BY <1>1 DEF In
<1>4. ASSUME OneCopy(q) PROVE OneCopy(p)
  <2> SUFFICES ASSUME NEW t \in Stores, NEW u \in Stores,
                      NEW i \in 1..Len(p[t]), NEW j \in 1..Len(p[u]),
                      p[t][i] = "copy", p[u][j] = "copy"
               PROVE  t = u /\ i = j
    BY DEF OneCopy
  <2>1. i \in 1..Len(q[t]) /\ q[t][i] = "copy"
    BY <1>1
  <2>2. j \in 1..Len(q[u]) /\ q[u][j] = "copy"
    BY <1>1
  <2> QED BY <1>4, <2>1, <2>2 DEF OneCopy
<1>5. \A t \in Stores : r = "wipe" /\ Barred(q, t) => Barred(p, t)
  <2> SUFFICES ASSUME NEW t \in Stores, r = "wipe", Barred(q, t),
                      NEW j \in 1..Len(p[t]), p[t][j] = "open"
               PROVE  \E i \in (j + 1)..Len(p[t]) : p[t][i] = "delete"
    BY DEF Barred
  <2>1. j \in 1..Len(q[t]) /\ q[t][j] = "open"
    BY <1>1
  <2>2. PICK i \in (j + 1)..Len(q[t]) : q[t][i] = "delete"
    BY <2>1 DEF Barred
  <2>3. i \in 1..Len(q[t]) /\ i \in (j + 1)..Len(p[t])
    BY <1>1, <2>2
  <2> QED BY <1>1, <2>2, <2>3
<1> QED BY <1>2, <1>3, <1>4, <1>5 DEF p

\* A request that is served was waiting, and leaves the others alone.
LEMMA Turned ==
  ASSUME TypeOK, NEW s \in Stores, NEW r, Turn(s, r)
  PROVE  /\ Serve(s) \in [Stores -> Seq(Requests)]
         /\ r \in Requests /\ In(requests, s, r)
         /\ \A t \in Stores, x \in Requests : In(Serve(s), t, x) => In(requests, t, x)
         /\ \A t \in Stores, x \in Requests :
               In(requests, t, x) /\ ~(t = s /\ x = r) => In(Serve(s), t, x)
         /\ OneCopy(requests) => OneCopy(Serve(s))
         /\ \A t \in Stores : Barred(requests, t) => Barred(Serve(s), t)
         /\ r = "open" /\ Barred(requests, s) => In(Serve(s), s, "delete")
<1>1. requests[s] # <<>> /\ Head(requests[s]) = r
  BY DEF Turn
<1>2. requests[s] \in Seq(Requests)
  BY DEF TypeOK
<1>3. 1 \in 1..Len(requests[s]) /\ requests[s][1] = r /\ r \in Requests
  BY <1>1, <1>2
<1>4. In(requests, s, r)
  BY <1>3 DEF In
<1>5. /\ \A t \in Stores, x \in Requests : In(Serve(s), t, x) => In(requests, t, x)
      /\ \A t \in Stores, x \in Requests :
            In(requests, t, x) /\ ~(t = s /\ x = r) => In(Serve(s), t, x)
      /\ OneCopy(requests) => OneCopy(Serve(s))
      /\ \A t \in Stores : Barred(requests, t) => Barred(Serve(s), t)
  BY <1>1, ServeLeaves
<1>6. ASSUME r = "open", Barred(requests, s) PROVE In(Serve(s), s, "delete")
  <2>1. PICK i \in 2..Len(requests[s]) : requests[s][i] = "delete"
    BY <1>3, <1>6 DEF Barred
  <2>2. i \in 1..Len(requests[s])
    BY <2>1, <1>2
  <2>3. In(requests, s, "delete")
    BY <2>1, <2>2 DEF In
  <2> QED BY <1>5, <1>6, <2>3 DEF Requests, Deletions
<1> QED BY <1>1, <1>3, <1>4, <1>5, <1>6, ServeShifts

\* The only copy.
LEMMA AskCopy ==
  ASSUME TypeOK, NEW s \in Stores, \A t \in Stores : ~In(requests, t, "copy")
  PROVE  OneCopy(Ask({s}, "copy"))
<1>1. {s} \in SUBSET Stores /\ "copy" \in Requests
  BY DEF Requests
<1> DEFINE q == Ask({s}, "copy")
<1>2. /\ \A t \in Stores : t # s => q[t] = requests[t]
      /\ Len(requests[s]) \in Nat /\ Len(q[s]) = Len(requests[s]) + 1
      /\ \A i \in 1..Len(requests[s]) : q[s][i] = requests[s][i]
  <2>1. /\ Ask({s}, "copy") \in [Stores -> Seq(Requests)]
        /\ \A t \in Stores : t \notin {s} => Ask({s}, "copy")[t] = requests[t]
        /\ \A t \in {s} :
              /\ Len(requests[t]) \in Nat /\ Len(Ask({s}, "copy")[t]) = Len(requests[t]) + 1
              /\ \A i \in 1..Len(requests[t]) : Ask({s}, "copy")[t][i] = requests[t][i]
              /\ Ask({s}, "copy")[t][Len(requests[t]) + 1] = "copy"
    BY <1>1, AskAppends, Zenon
  <2> QED BY <2>1
<1> HIDE DEF q
<1>3. ASSUME NEW t \in Stores, NEW i \in 1..Len(q[t]), q[t][i] = "copy"
      PROVE  t = s /\ i = Len(requests[s]) + 1
  <2>1. CASE t # s
    BY <1>2, <1>3, <2>1 DEF In
  <2>2. CASE t = s
    <3>1. i \notin 1..Len(requests[s])
      BY <1>2, <1>3, <2>2 DEF In
    <3> QED BY <1>2, <1>3, <2>2, <3>1
  <2> QED BY <2>1, <2>2
<1> QED BY <1>3 DEF OneCopy, q

-----------------------------------------------------------------------------
(* Accesses *)

LEMMA OpenStep ==
  ASSUME IInv, NEW s \in Stores, Open(s)
  PROVE  IInv'
<1>1. /\ TypeOK /\ {s} \in SUBSET Stores /\ "open" \in Requests /\ Deletions \subseteq Requests
      /\ "copy" \in Requests /\ "delete" \in Requests /\ "open" \notin Deletions
  BY DEF IInv, Requests, Deletions
<1>2. /\ requests' = Ask({s}, "open") /\ bound[s] = "none" /\ mode = "DISK"
      /\ UNCHANGED <<disk, handles, stores, modes, switching, wiping, history, bounds>>
  BY DEF Open
<1>3. /\ requests' \in [Stores -> Seq(Requests)]
      /\ \A t \in Stores \ {s} : requests'[t] = requests[t]
  <2>1. /\ Ask({s}, "open") \in [Stores -> Seq(Requests)]
        /\ \A t \in Stores : t \notin {s} => Ask({s}, "open")[t] = requests[t]
    BY <1>1, AskAppends
  <2> QED BY <1>2, <2>1
<1>4. /\ \A t \in Stores, x \in Requests : In(requests', t, x) <=> In(requests, t, x) \/ (t = s /\ x = "open")
      /\ OneCopy(requests) => OneCopy(requests')
  BY <1>1, <1>2, AskAdds
<1>5. TypeOK'
  BY <1>1, <1>2, <1>3 DEF TypeOK, stores, modes, switching, history, bounds
<1>6. Queued'
  BY <1>1, <1>2, <1>4 DEF IInv, Queued, switching, history
<1>7. Bindings' /\ Numbered' /\ OnDisk' /\ Kept'
  BY <1>2 DEF IInv, Bindings, Numbered, OnDisk, Kept, stores, modes, switching, history, bounds
<1>8. Moved'
  <2> SUFFICES ASSUME phase = "delete", NEW t \in MemoryCapable
               PROVE  /\ bound[t] # "none"
                      /\ Barred(requests', t)
                      /\ ~In(requests', t, "delete") => disk[t] = 0 /\ bound[t] = "memory"
    BY <1>2 DEF Moved, stores, modes, switching
  <2>1. t \in Stores \ {s} /\ bound[t] # "none" /\ Barred(requests, t)
    BY <1>2 DEF IInv, Moved, MemoryCapable
  <2>2. Barred(requests', t)
    BY <1>3, <2>1 DEF Barred
  <2> QED BY <1>1, <1>4, <2>1, <2>2 DEF IInv, Moved
<1> QED BY <1>5, <1>6, <1>7, <1>8 DEF IInv

LEMMA OpenedStep ==
  ASSUME IInv, NEW s \in Stores, Opened(s)
  PROVE  IInv'
<1>1. /\ TypeOK /\ Deletions \subseteq Requests /\ {"open", "copy", "delete", "wipe"} \subseteq Requests
      /\ "open" \notin Deletions /\ "copy" \notin Deletions
  BY DEF IInv, Requests, Deletions
<1>2. /\ Turn(s, "open") /\ requests' = Serve(s)
      /\ handles' = [handles EXCEPT ![s] = @ + 1]
      /\ bound' = [bound EXCEPT ![s] = "disk"]
      /\ UNCHANGED <<disk, memory, modes, switching, wiping, history, bounds>>
  BY DEF Opened
<1>3. /\ requests' \in [Stores -> Seq(Requests)]
      /\ \A t \in Stores, x \in Requests : In(requests', t, x) => In(requests, t, x)
      /\ \A t \in Stores : In(requests, t, "delete") => In(requests', t, "delete")
      /\ OneCopy(requests) => OneCopy(requests')
      /\ \A t \in Stores : Barred(requests, t) => Barred(requests', t)
      /\ Barred(requests, s) => In(requests', s, "delete")
  BY <1>1, <1>2, Turned
<1>4. TypeOK'
  <2>1. handles' \in [Stores -> Nat] /\ bound' \in [Stores -> {"none", "disk", "memory"}]
    BY <1>1, <1>2 DEF TypeOK
  <2>2. \A t \in Stores : bound'[t] = "disk" => handles'[t] > 0
    BY <1>1, <1>2 DEF TypeOK
  <2> QED BY <1>1, <1>2, <1>3, <2>1, <2>2 DEF TypeOK, modes, switching, history, bounds
<1>5. Queued'
  BY <1>1, <1>2, <1>3 DEF IInv, Queued, switching, history
<1>6. Bindings' /\ Numbered' /\ OnDisk' /\ Kept'
  BY <1>1, <1>2 DEF IInv, TypeOK, Bindings, Numbered, OnDisk, Kept, modes, switching, history, bounds
<1>7. Moved'
  BY <1>1, <1>2, <1>3 DEF IInv, TypeOK, Moved, MemoryCapable, modes, switching
<1> QED BY <1>4, <1>5, <1>6, <1>7 DEF IInv

LEMMA OpenFailsStep ==
  ASSUME IInv, NEW s \in Stores, OpenFails(s)
  PROVE  IInv'
<1>1. /\ TypeOK /\ Deletions \subseteq Requests /\ {"open", "copy", "delete", "wipe"} \subseteq Requests
      /\ "open" \notin Deletions /\ "copy" \notin Deletions
  BY DEF IInv, Requests, Deletions
<1>2. /\ Turn(s, "open") /\ requests' = Serve(s)
      /\ bound' = [bound EXCEPT ![s] = "memory"]
      /\ fellBack' = fellBack \union {s}
      /\ faults' = faults + 1
      /\ UNCHANGED <<disk, handles, memory, modes, switching, wiping, written,
                     atStart, condemned, clock, switches, wipes>>
  BY DEF OpenFails, Fault
<1>3. /\ requests' \in [Stores -> Seq(Requests)]
      /\ \A t \in Stores, x \in Requests : In(requests', t, x) => In(requests, t, x)
      /\ \A t \in Stores : In(requests, t, "delete") => In(requests', t, "delete")
      /\ OneCopy(requests) => OneCopy(requests')
      /\ \A t \in Stores : Barred(requests, t) => Barred(requests', t)
      /\ Barred(requests, s) => In(requests', s, "delete")
  BY <1>1, <1>2, Turned
<1>4. TypeOK'
  <2>1. bound' \in [Stores -> {"none", "disk", "memory"}] /\ fellBack' \subseteq Stores /\ faults' \in Nat
    BY <1>1, <1>2 DEF TypeOK
  <2>2. \A t \in Stores : bound'[t] = "disk" => handles'[t] > 0
    BY <1>1, <1>2 DEF TypeOK
  <2> QED BY <1>1, <1>2, <1>3, <2>1, <2>2 DEF TypeOK, modes, switching
<1>5. Queued'
  BY <1>1, <1>2, <1>3 DEF IInv, Queued, switching
<1>6. Bindings' /\ Numbered' /\ OnDisk' /\ Kept'
  BY <1>1, <1>2 DEF IInv, TypeOK, Bindings, Numbered, OnDisk, Kept, modes, switching
<1>7. Moved'
  BY <1>1, <1>2, <1>3 DEF IInv, TypeOK, Moved, MemoryCapable, modes, switching
<1> QED BY <1>4, <1>5, <1>6, <1>7 DEF IInv

LEMMA WriteStep ==
  ASSUME IInv, NEW s \in Stores, Write(s)
  PROVE  IInv'
<1>1. /\ clock \in Nat /\ clock' = clock + 1 /\ clock' \in Nat
      /\ written' = [written EXCEPT ![s] = clock']
      /\ UNCHANGED <<requests, handles, modes, switching, wiping, atStart,
                     condemned, switches, wipes, faults>>
  BY DEF IInv, TypeOK, Write
<1>2. CASE /\ bound[s] = "disk"
           /\ disk' = [disk EXCEPT ![s] = clock']
           /\ UNCHANGED <<stores, fellBack>>
  <2>1. TypeOK'
    BY <1>1, <1>2 DEF IInv, TypeOK, stores, modes, switching
  <2>2. Queued' /\ Bindings'
    BY <1>1, <1>2 DEF IInv, Queued, Bindings, stores, modes, switching
  <2>3. Numbered' /\ OnDisk'
    BY <1>1, <1>2 DEF IInv, TypeOK, Numbered, OnDisk, stores
  <2>4. Moved'
    BY <1>1, <1>2 DEF IInv, TypeOK, Moved, MemoryCapable, stores, modes, switching
  <2>5. Kept'
    <3>1. \A t \in MemoryCapable \ fellBack : disk[t] >= atStart[t] => disk'[t] >= atStart[t]
      <4>1. clock + 1 >= atStart[s]
        BY <1>1 DEF IInv, TypeOK, Numbered
      <4> QED BY <1>1, <1>2, <4>1 DEF IInv, TypeOK, MemoryCapable
    <3> QED BY <1>1, <1>2, <3>1 DEF IInv, Kept, stores, modes, switching
  <2> QED BY <2>1, <2>2, <2>3, <2>4, <2>5 DEF IInv
<1>3. CASE /\ bound[s] = "memory" \/ (bound[s] = "none" /\ mode = "MEMORY")
           /\ bound' = [bound EXCEPT ![s] = "memory"]
           /\ memory' = [memory EXCEPT ![s] = clock']
           /\ fellBack' = IF bound[s] = "none" THEN fellBack \union {s} ELSE fellBack
           /\ UNCHANGED disk
  <2>1. TypeOK'
    BY <1>1, <1>3 DEF IInv, TypeOK, modes, switching
  <2>2. Queued' /\ Bindings'
    BY <1>1, <1>3 DEF IInv, TypeOK, Queued, Bindings, modes, switching
  <2>3. Numbered' /\ OnDisk'
    BY <1>1, <1>3 DEF IInv, TypeOK, Numbered, OnDisk, Bindings
  <2>4. Moved'
    BY <1>1, <1>3 DEF IInv, TypeOK, Moved, MemoryCapable, modes, switching
  <2>5. Kept'
    <3>1. \A t \in MemoryCapable \ fellBack' : t \in MemoryCapable \ fellBack /\ t \in Stores
      BY <1>3 DEF MemoryCapable
    <3>2. \A t \in MemoryCapable \ fellBack : memory[t] >= atStart[t] => memory'[t] >= atStart[t]
      <4>1. clock + 1 >= atStart[s]
        BY <1>1 DEF IInv, TypeOK, Numbered
      <4> QED BY <1>1, <1>3, <4>1 DEF IInv, TypeOK, MemoryCapable
    <3> QED BY <1>1, <1>3, <3>1, <3>2 DEF IInv, Kept, modes, switching
  <2> QED BY <2>1, <2>2, <2>3, <2>4, <2>5 DEF IInv
<1>4. bound \in [Stores -> {"none", "disk", "memory"}]
  BY DEF IInv, TypeOK
<1> QED BY <1>2, <1>3, <1>4 DEF Write, stores

LEMMA SetItemStep ==
  ASSUME IInv, SetItem
  PROVE  IInv'
<1>1. /\ UNCHANGED <<databases, stores, mode, switching, wiping, history, bounds>>
      /\ local' \in BOOLEAN /\ localMemory' \in BOOLEAN
      /\ mode = "MEMORY" => local' = local
  BY DEF IInv, TypeOK, SetItem
<1>2. TypeOK' /\ Queued'
  BY <1>1 DEF IInv, TypeOK, Queued, databases, stores, switching, history, bounds
<1>3. Bindings' /\ Numbered' /\ OnDisk'
  BY <1>1 DEF IInv, Bindings, Numbered, OnDisk, databases, stores, switching, history, bounds
<1>4. Moved' /\ Kept'
  BY <1>1 DEF IInv, Moved, Kept, databases, stores, switching, history, bounds
<1> QED BY <1>2, <1>3, <1>4 DEF IInv

-----------------------------------------------------------------------------
(* The switch *)

LEMMA SwitchStep ==
  ASSUME IInv, doNotRememberMe
  PROVE  IInv'
<1>1. /\ phase = "none" /\ mode = "DISK" /\ phase' = "copy" /\ switches' = switches + 1
      /\ atStart' = [s \in Stores |-> IF s \in MemoryCapable \ condemned THEN Served(s) ELSE 0]
      /\ UNCHANGED <<databases, stores, modes, copied, wiping, written, condemned,
                     fellBack, clock, wipes, faults>>
  BY DEF doNotRememberMe
<1>2. \A s \in Stores : Served(s) \in Nat /\ Served(s) <= clock
  BY DEF IInv, TypeOK, Numbered, Served
<1>3. TypeOK'
  BY <1>1, <1>2 DEF IInv, TypeOK, databases, stores, modes
<1>4. Queued'
  BY <1>1 DEF IInv, Queued, databases
<1>5. Bindings' /\ OnDisk' /\ Moved'
  BY <1>1 DEF IInv, Bindings, OnDisk, Moved, databases, stores, modes
<1>6. Numbered'
  BY <1>1, <1>2 DEF IInv, TypeOK, Numbered, databases, stores
<1>7. Kept'
  <2> SUFFICES ASSUME NEW s \in MemoryCapable \ fellBack
               PROVE  /\ disk[s] >= atStart'[s]
                      /\ s \in condemned => atStart'[s] = 0
                      /\ s \notin copied
    BY <1>1 DEF Kept, databases, stores, modes
  <2>1. s \in Stores /\ copied = {} /\ disk[s] \in Nat
    BY <1>1 DEF IInv, TypeOK, Bindings, MemoryCapable
  <2>2. CASE s \in condemned
    BY <1>1, <2>1, <2>2
  <2>3. CASE s \notin condemned
    <3>1. Served(s) = disk[s]
      BY <1>1, <2>1, <2>3 DEF IInv, Bindings, Served
    <3> QED BY <1>1, <2>1, <2>3, <3>1
  <2> QED BY <2>2, <2>3
<1> QED BY <1>3, <1>4, <1>5, <1>6, <1>7 DEF IInv

LEMMA CopyToMemoryStep ==
  ASSUME IInv, NEW s \in Stores, copyToMemory(s)
  PROVE  IInv'
<1>1. /\ TypeOK /\ Deletions \subseteq Requests /\ {"open", "copy", "delete", "wipe"} \subseteq Requests
      /\ "open" \notin Deletions /\ "copy" \notin Deletions
  BY DEF IInv, Requests, Deletions
<1>2. /\ phase = "copy" /\ s \in MemoryCapable \ copied
      /\ \A t \in Stores : ~In(requests, t, "copy")
      /\ UNCHANGED <<disk, handles, stores, modes, phase, wiping, history, bounds>>
  BY DEF copyToMemory, Copying, Waits, In
<1>3. mode = "DISK"
  BY <1>1, <1>2 DEF IInv, TypeOK, Bindings
<1>4. Bindings' /\ Numbered' /\ OnDisk' /\ Moved'
  BY <1>2, <1>3 DEF IInv, Bindings, Numbered, OnDisk, Moved, stores, modes, history, bounds
<1>5. CASE bound[s] = "memory" /\ copied' = copied \union {s} /\ UNCHANGED requests
  <2>1. TypeOK' /\ Queued'
    BY <1>2, <1>5 DEF IInv, TypeOK, Queued, stores, modes, history, bounds
  <2>2. s \notin fellBack => atStart[s] = 0 /\ memory[s] \in Nat
    BY <1>2, <1>5 DEF IInv, TypeOK, Bindings, Kept
  <2>3. Kept'
    BY <1>2, <1>3, <1>5, <2>2 DEF IInv, Kept, stores, modes, history
  <2> QED BY <1>4, <2>1, <2>3 DEF IInv
<1>6. CASE requests' = Ask({s}, "copy") /\ UNCHANGED copied
  <2>1. {s} \in SUBSET Stores
    OBVIOUS
  <2>2. requests' \in [Stores -> Seq(Requests)]
    BY <1>1, <1>6, <2>1, AskAppends
  <2>3. \A t \in Stores, x \in Requests :
           In(requests', t, x) <=> In(requests, t, x) \/ (t \in {s} /\ x = "copy")
    BY <1>1, <1>6, <2>1, AskAdds
  <2>4. OneCopy(requests')
    BY <1>1, <1>2, <1>6, AskCopy
  <2>5. TypeOK'
    BY <1>1, <1>2, <1>6, <2>2 DEF TypeOK, stores, modes, history, bounds
  <2>6. Queued'
    BY <1>1, <1>2, <1>6, <2>3, <2>4 DEF IInv, Queued, history
  <2>7. Kept'
    BY <1>2, <1>6 DEF IInv, Kept, stores, modes, history
  <2> QED BY <1>4, <2>5, <2>6, <2>7 DEF IInv
<1> QED BY <1>5, <1>6 DEF copyToMemory

LEMMA CopiedStep ==
  ASSUME IInv, NEW s \in Stores, Copied(s)
  PROVE  IInv'
<1>1. /\ TypeOK /\ Deletions \subseteq Requests /\ {"open", "copy", "delete", "wipe"} \subseteq Requests
      /\ "open" \notin Deletions /\ "copy" \notin Deletions
  BY DEF IInv, Requests, Deletions
<1>2. /\ Serve(s) \in [Stores -> Seq(Requests)] /\ In(requests, s, "copy")
      /\ \A t \in Stores, x \in Requests : In(Serve(s), t, x) => In(requests, t, x)
      /\ OneCopy(requests) => OneCopy(Serve(s))
  BY <1>1, Turned DEF Copied
<1>3. /\ phase = "copy" /\ s \in MemoryCapable \ copied /\ mode = "DISK"
      /\ \A t \in Stores : ~In(Serve(s), t, "copy")
  <2>1. OneCopy(requests) /\ requests[s] # <<>> /\ Head(requests[s]) = "copy"
    BY DEF IInv, Queued, Copied, Turn
  <2>2. phase = "copy" /\ s \in MemoryCapable \ copied
    BY <1>2 DEF IInv, Queued
  <2> QED BY <1>1, <2>1, <2>2, NoOtherCopy DEF IInv, TypeOK, Bindings
<1>4. /\ requests' = Serve(s) /\ copied' = copied \union {s}
      /\ memory' = [memory EXCEPT ![s] = IF disk[s] = 0 THEN @ ELSE disk[s]]
      /\ UNCHANGED <<disk, handles, bound, modes, phase, wiping, history, bounds>>
  BY DEF Copied
<1>5. TypeOK'
  BY <1>1, <1>2, <1>3, <1>4 DEF TypeOK, modes, history, bounds
<1>6. Queued'
  BY <1>1, <1>2, <1>3, <1>4 DEF IInv, Queued, history
<1>7. Bindings' /\ Numbered' /\ OnDisk' /\ Moved'
  BY <1>1, <1>3, <1>4 DEF IInv, TypeOK, Bindings, Numbered, OnDisk, Moved, modes, history, bounds
<1>8. Kept'
  BY <1>1, <1>3, <1>4 DEF IInv, TypeOK, Kept, MemoryCapable, modes, history
<1> QED BY <1>5, <1>6, <1>7, <1>8 DEF IInv

LEMMA CopyFailsStep ==
  ASSUME IInv, NEW s \in Stores, CopyFails(s)
  PROVE  IInv'
<1>1. /\ TypeOK /\ Deletions \subseteq Requests /\ {"open", "copy", "delete", "wipe"} \subseteq Requests
      /\ "open" \notin Deletions /\ "copy" \notin Deletions
  BY DEF IInv, Requests, Deletions
<1>2. /\ Serve(s) \in [Stores -> Seq(Requests)] /\ In(requests, s, "copy")
      /\ \A t \in Stores, x \in Requests : In(Serve(s), t, x) => In(requests, t, x)
      /\ OneCopy(requests) => OneCopy(Serve(s))
  BY <1>1, Turned DEF CopyFails
<1>3. /\ phase = "copy" /\ s \in MemoryCapable \ copied /\ mode = "DISK"
      /\ \A t \in Stores : ~In(Serve(s), t, "copy")
  <2>1. OneCopy(requests) /\ requests[s] # <<>> /\ Head(requests[s]) = "copy"
    BY DEF IInv, Queued, CopyFails, Turn
  <2>2. phase = "copy" /\ s \in MemoryCapable \ copied
    BY <1>2 DEF IInv, Queued
  <2> QED BY <1>1, <2>1, <2>2, NoOtherCopy DEF IInv, TypeOK, Bindings
<1>4. /\ requests' = Serve(s) /\ phase' = "none" /\ copied' = {} /\ atStart' = Nothing
      /\ faults' = faults + 1
      /\ UNCHANGED <<disk, handles, stores, modes, wiping, written, condemned,
                     fellBack, clock, switches, wipes>>
  BY DEF CopyFails, Fault
<1>5. TypeOK'
  BY <1>1, <1>2, <1>4 DEF TypeOK, Nothing, stores, modes
<1>6. Queued'
  BY <1>1, <1>2, <1>3, <1>4 DEF IInv, Queued
<1>7. Bindings' /\ OnDisk' /\ Moved' /\ Kept'
  BY <1>3, <1>4 DEF IInv, Bindings, OnDisk, Moved, Kept, stores, modes
<1>8. Numbered'
  BY <1>1, <1>4 DEF IInv, TypeOK, Numbered, Nothing, stores
<1> QED BY <1>5, <1>6, <1>7, <1>8 DEF IInv

LEMMA CommitStep ==
  ASSUME IInv, commitToMemory
  PROVE  IInv'
<1>1. /\ TypeOK /\ Deletions \subseteq Requests /\ {"open", "copy", "delete", "wipe"} \subseteq Requests
      /\ "open" \notin Deletions /\ "copy" \notin Deletions
  BY DEF IInv, Requests, Deletions
<1>2. /\ phase = "copy" /\ copied = MemoryCapable /\ phase' = "delete" /\ copied' = {}
      /\ bound' = [s \in Stores |-> IF s \in MemoryCapable THEN "memory" ELSE bound[s]]
      /\ handles' = [s \in Stores |-> IF s \in MemoryCapable /\ bound[s] = "disk"
                                      THEN handles[s] - 1 ELSE handles[s]]
      /\ requests' = Ask(MemoryCapable, "delete")
      /\ condemned' = condemned \union MemoryCapable
      /\ UNCHANGED <<disk, memory, modes, wiping, written, atStart, fellBack, bounds>>
  BY DEF commitToMemory
<1>3. MemoryCapable \in SUBSET Stores /\ mode = "DISK"
  BY <1>1, <1>2 DEF IInv, TypeOK, Bindings, MemoryCapable
<1>4. requests' \in [Stores -> Seq(Requests)]
  BY <1>1, <1>2, <1>3, AskAppends
<1>5. /\ \A t \in Stores, x \in Requests :
            In(requests', t, x) <=> In(requests, t, x) \/ (t \in MemoryCapable /\ x = "delete")
      /\ OneCopy(requests) => OneCopy(requests')
      /\ \A t \in MemoryCapable : Barred(requests', t)
  BY <1>1, <1>2, <1>3, AskAdds
<1>6. TypeOK'
  <2>1. handles' \in [Stores -> Nat] /\ bound' \in [Stores -> {"none", "disk", "memory"}]
    BY <1>1, <1>2 DEF TypeOK
  <2>2. \A t \in Stores : bound'[t] = "disk" => handles'[t] > 0
    BY <1>1, <1>2 DEF TypeOK
  <2> QED BY <1>1, <1>2, <1>3, <1>4, <2>1, <2>2 DEF TypeOK, modes, bounds
<1>7. Queued'
  BY <1>1, <1>2, <1>3, <1>5 DEF IInv, Queued
<1>8. Bindings' /\ Numbered' /\ OnDisk'
  BY <1>2, <1>3 DEF IInv, Bindings, Numbered, OnDisk, modes, bounds
<1>9. Moved'
  BY <1>1, <1>2, <1>3, <1>5 DEF Moved
<1>10. Kept'
  BY <1>2 DEF IInv, Kept
<1> QED BY <1>6, <1>7, <1>8, <1>9, <1>10 DEF IInv

\* A deletion is served when no handle of the page is open, so its store is not
\* bound to disk.
LEMMA DeleteStep ==
  ASSUME IInv, NEW s \in Stores, NEW request \in Deletions, Delete(s, request)
  PROVE  IInv'
<1>1. /\ TypeOK /\ Deletions \subseteq Requests /\ {"open", "copy", "delete", "wipe"} \subseteq Requests
      /\ "open" \notin Deletions /\ "copy" \notin Deletions
  BY DEF IInv, Requests, Deletions
<1>2. /\ Turn(s, request) /\ handles[s] = 0 /\ requests' = Serve(s)
      /\ disk' = [disk EXCEPT ![s] = 0]
      /\ UNCHANGED <<handles, stores, modes, switching, wiping, history, bounds>>
  BY DEF Delete, Unused
<1>3. /\ requests' \in [Stores -> Seq(Requests)] /\ In(requests, s, request)
      /\ \A t \in Stores, x \in Requests : In(requests', t, x) => In(requests, t, x)
      /\ \A t \in Stores : In(requests, t, "delete") /\ t # s => In(requests', t, "delete")
      /\ OneCopy(requests) => OneCopy(requests')
      /\ \A t \in Stores : Barred(requests, t) => Barred(requests', t)
  BY <1>1, <1>2, Turned
<1>4. s \in condemned /\ bound[s] \in {"none", "memory"}
  BY <1>1, <1>2, <1>3 DEF IInv, TypeOK, Queued
<1>5. TypeOK'
  BY <1>1, <1>2, <1>3 DEF TypeOK, stores, modes, switching, history, bounds
<1>6. Queued'
  BY <1>1, <1>2, <1>3 DEF IInv, Queued, switching, history
<1>7. Bindings' /\ Numbered' /\ OnDisk'
  BY <1>1, <1>2, <1>4 DEF IInv, TypeOK, Bindings, Numbered, OnDisk, stores, modes, switching, history, bounds
<1>8. Moved'
  <2> SUFFICES ASSUME phase = "delete" \/ mode = "MEMORY", NEW t \in MemoryCapable
               PROVE  /\ bound[t] # "none"
                      /\ Barred(requests', t)
                      /\ ~In(requests', t, "delete") => disk'[t] = 0 /\ bound[t] = "memory"
    BY <1>2 DEF Moved, stores, modes, switching
  <2>1. t \in Stores /\ bound[t] # "none" /\ Barred(requests, t)
    BY DEF IInv, Moved, MemoryCapable
  <2>2. CASE t = s
    BY <1>1, <1>2, <1>3, <1>4, <2>1, <2>2 DEF TypeOK
  <2>3. CASE t # s
    <3>1. disk'[t] = disk[t]
      BY <1>1, <1>2, <2>1, <2>3 DEF TypeOK
    <3> QED BY <1>3, <2>1, <2>3, <3>1 DEF IInv, Moved
  <2> QED BY <2>2, <2>3
<1>9. Kept'
  BY <1>1, <1>2, <1>4 DEF IInv, TypeOK, Kept, MemoryCapable, stores, modes, switching, history
<1> QED BY <1>5, <1>6, <1>7, <1>8, <1>9 DEF IInv

\* A switch that is rolled back, with what is left of the queues in q.
LEMMA RollBackStep ==
  ASSUME IInv, NEW q \in [Stores -> Seq(Requests)],
         \A t \in Stores, x \in Requests : In(q, t, x) => In(requests, t, x),
         OneCopy(q), phase = "delete", RollBack(q), faults' \in Nat
  PROVE  IInv'
<1>1. /\ TypeOK /\ Deletions \subseteq Requests /\ {"open", "copy", "delete", "wipe"} \subseteq Requests
      /\ "open" \notin Deletions /\ "copy" \notin Deletions
  BY DEF IInv, Requests, Deletions
<1>2. /\ requests' = Orphaned(q, "delete")
      /\ bound' = [s \in Stores |-> "none"] /\ phase' = "none" /\ atStart' = Nothing
      /\ UNCHANGED <<disk, handles, memory, modes, copied, wiping, written, condemned,
                     fellBack, clock, switches, wipes>>
  BY DEF RollBack
<1>3. mode = "DISK"
  BY <1>1 DEF IInv, TypeOK, Bindings
<1>4. requests' \in [Stores -> Seq(Requests)]
  BY <1>2, OrphanKeepsPlace
<1>5. /\ \A t \in Stores, x \in Requests :
            x # "orphan" => (In(requests', t, x) <=> In(q, t, x) /\ x # "delete")
      /\ \A t \in Stores : In(requests', t, "orphan") => In(q, t, "orphan") \/ In(q, t, "delete")
      /\ OneCopy(requests')
  <2>1. "delete" \in {"delete", "wipe"}
    OBVIOUS
  <2> QED BY <1>2, <2>1, OrphanChanges
<1>6. TypeOK'
  BY <1>1, <1>2, <1>4 DEF TypeOK, Nothing, modes
<1>7. Queued'
  <2>1. ASSUME NEW t \in Stores, NEW r \in Deletions, In(requests', t, r) PROVE t \in condemned
    BY <1>1, <1>5, <2>1 DEF IInv, Queued, Deletions
  <2>2. \A t \in Stores : ~In(requests', t, "copy") /\ ~In(requests', t, "delete")
    BY <1>1, <1>5 DEF IInv, Queued
  <2> QED BY <1>2, <1>5, <2>1, <2>2 DEF IInv, Queued
<1>8. Bindings' /\ OnDisk' /\ Moved' /\ Kept'
  BY <1>2, <1>3 DEF IInv, Bindings, OnDisk, Moved, Kept, modes
<1>9. Numbered'
  BY <1>1, <1>2 DEF IInv, TypeOK, Numbered, Nothing
<1> QED BY <1>6, <1>7, <1>8, <1>9 DEF IInv

LEMMA DeleteFailsStep ==
  ASSUME IInv, NEW s \in Stores, DeleteFails(s)
  PROVE  IInv'
<1>1. TypeOK /\ Turn(s, "delete") /\ RollBack(Serve(s)) /\ faults' \in Nat
  BY DEF IInv, TypeOK, DeleteFails, Fault
<1>2. /\ Serve(s) \in [Stores -> Seq(Requests)] /\ In(requests, s, "delete")
      /\ \A t \in Stores, x \in Requests : In(Serve(s), t, x) => In(requests, t, x)
      /\ OneCopy(requests) => OneCopy(Serve(s))
  BY <1>1, Turned
<1>3. OneCopy(requests) /\ phase = "delete"
  BY <1>2 DEF IInv, Queued
<1> QED BY <1>1, <1>2, <1>3, RollBackStep

LEMMA DeleteTimesOutStep ==
  ASSUME IInv, DeleteTimesOut
  PROVE  IInv'
<1>1. requests \in [Stores -> Seq(Requests)] /\ OneCopy(requests)
  BY DEF IInv, TypeOK, Queued
<1>2. phase = "delete" /\ RollBack(requests) /\ faults' \in Nat
  BY DEF IInv, TypeOK, DeleteTimesOut
<1> QED BY <1>1, <1>2, RollBackStep

LEMMA ForgetStep ==
  ASSUME IInv, forget
  PROVE  IInv'
<1>1. /\ phase = "delete" /\ \A s \in Stores : ~In(requests, s, "delete")
      /\ phase' = "none" /\ mode' = "MEMORY" /\ local' = FALSE
      /\ localMemory' = (localMemory \/ local)
      /\ UNCHANGED <<databases, stores, copied, wiping, history, bounds>>
  BY DEF forget, Waits, In
<1>2. TypeOK'
  BY <1>1 DEF IInv, TypeOK, databases, stores, history, bounds
<1>3. Queued' /\ Bindings'
  BY <1>1 DEF IInv, Queued, Bindings, databases, stores, history
<1>4. Numbered' /\ OnDisk' /\ Moved' /\ Kept'
  BY <1>1 DEF IInv, Numbered, OnDisk, Moved, Kept, databases, stores, history, bounds
<1> QED BY <1>2, <1>3, <1>4 DEF IInv

-----------------------------------------------------------------------------
(* Sign-out and the page *)

LEMMA ClearAuthSessionStep ==
  ASSUME IInv, clearAuthSession
  PROVE  IInv'
<1>1. /\ TypeOK /\ Deletions \subseteq Requests /\ {"open", "copy", "delete", "wipe"} \subseteq Requests
      /\ "open" \notin Deletions /\ "copy" \notin Deletions
  BY DEF IInv, Requests, Deletions
<1>2. /\ wipes' = wipes + 1 /\ wiping' = TRUE /\ local' = FALSE
      /\ requests' = Ask(MemoryCapable, "wipe")
      /\ condemned' = condemned \union MemoryCapable /\ atStart' = Nothing
      /\ UNCHANGED <<disk, handles, stores, mode, localMemory, switching, written, fellBack,
                     clock, switches, faults>>
  BY DEF clearAuthSession
<1>3. MemoryCapable \in SUBSET Stores
  BY DEF MemoryCapable
<1>4. requests' \in [Stores -> Seq(Requests)]
  BY <1>1, <1>2, <1>3, AskAppends
<1>5. /\ \A t \in Stores, x \in Requests :
            In(requests', t, x) <=> In(requests, t, x) \/ (t \in MemoryCapable /\ x = "wipe")
      /\ OneCopy(requests) => OneCopy(requests')
      /\ \A t \in Stores : Barred(requests, t) => Barred(requests', t)
  BY <1>1, <1>2, <1>3, AskAdds
<1>6. TypeOK'
  <2>1. atStart' \in [Stores -> Nat]
    BY <1>2 DEF Nothing
  <2>2. wipes' \in Nat
    BY <1>1, <1>2 DEF TypeOK
  <2>3. condemned' \subseteq Stores
    BY <1>1, <1>2, <1>3 DEF TypeOK
  <2>4. wiping' \in BOOLEAN /\ local' \in BOOLEAN
    BY <1>2
  <2> QED BY <1>1, <1>2, <1>4, <2>1, <2>2, <2>3, <2>4 DEF TypeOK, stores, switching
<1>7. Queued'
  BY <1>1, <1>2, <1>5 DEF IInv, Queued, switching
<1>8. Bindings' /\ OnDisk'
  BY <1>2 DEF IInv, Bindings, OnDisk, stores, switching
<1>9. Numbered' /\ Kept'
  BY <1>1, <1>2 DEF IInv, TypeOK, Numbered, Kept, Nothing, MemoryCapable, stores, switching
<1>10. Moved'
  BY <1>1, <1>2, <1>3, <1>5 DEF IInv, Moved, stores, switching
<1> QED BY <1>6, <1>7, <1>8, <1>9, <1>10 DEF IInv

\* A sign-out that goes on, with what is left of the queues in q.
LEMMA SignedOutStep ==
  ASSUME IInv, NEW q \in [Stores -> Seq(Requests)],
         \A t \in Stores, x \in Requests : In(q, t, x) => In(requests, t, x),
         \A t \in Stores : In(requests, t, "delete") => In(q, t, "delete"),
         \A t \in Stores : Barred(requests, t) => Barred(q, t),
         OneCopy(q), SignedOut(q), faults' \in Nat
  PROVE  IInv'
<1>1. /\ TypeOK /\ Deletions \subseteq Requests /\ {"open", "copy", "delete", "wipe"} \subseteq Requests
      /\ "open" \notin Deletions /\ "copy" \notin Deletions
  BY DEF IInv, Requests, Deletions
<1>2. /\ requests' = Orphaned(q, "wipe") /\ wiping' = FALSE
      /\ UNCHANGED <<disk, handles, stores, modes, switching, history, clock, switches, wipes>>
  BY DEF SignedOut
<1>3. requests' \in [Stores -> Seq(Requests)]
  BY <1>2, OrphanKeepsPlace
<1>4. /\ \A t \in Stores, x \in Requests :
            x # "orphan" => (In(requests', t, x) <=> In(q, t, x) /\ x # "wipe")
      /\ \A t \in Stores : In(requests', t, "orphan") => In(q, t, "orphan") \/ In(q, t, "wipe")
      /\ OneCopy(requests')
      /\ \A t \in Stores : Barred(q, t) => Barred(requests', t)
  <2>1. "wipe" \in {"delete", "wipe"}
    OBVIOUS
  <2> QED BY <1>2, <2>1, OrphanChanges
<1>5. TypeOK'
  BY <1>1, <1>2, <1>3 DEF TypeOK, stores, modes, switching, history
<1>6. Queued'
  <2>1. ASSUME NEW t \in Stores, NEW r \in Deletions, In(requests', t, r) PROVE t \in condemned
    BY <1>1, <1>4, <2>1 DEF IInv, Queued, Deletions
  <2>2. \A t \in Stores :
           /\ In(requests', t, "copy") => In(requests, t, "copy")
           /\ In(requests', t, "delete") => In(requests, t, "delete")
    BY <1>1, <1>4
  <2>3. /\ condemned \subseteq MemoryCapable
        /\ \A t \in Stores :
              /\ In(requests, t, "delete") => phase = "delete"
              /\ In(requests, t, "copy") => phase = "copy" /\ t \in MemoryCapable \ copied
    BY DEF IInv, Queued
  <2>4. condemned' = condemned /\ phase' = phase /\ copied' = copied
    BY <1>2 DEF switching, history
  <2>5. \A t \in Stores :
           /\ In(requests', t, "delete") => phase' = "delete"
           /\ In(requests', t, "copy") => phase' = "copy" /\ t \in MemoryCapable \ copied'
    BY <2>2, <2>3, <2>4
  <2>6. \A t \in Stores : \A r \in Deletions : In(requests', t, r) => t \in condemned'
    BY <2>1, <2>4
  <2>7. condemned' \subseteq MemoryCapable
    BY <2>3, <2>4
  <2> QED BY <1>4, <2>5, <2>6, <2>7 DEF Queued
<1>7. Bindings' /\ Numbered' /\ OnDisk' /\ Kept'
  BY <1>2 DEF IInv, Bindings, Numbered, OnDisk, Kept, stores, modes, switching, history
<1>8. Moved'
  <2>1. \A t \in Stores : In(requests, t, "delete") => In(requests', t, "delete")
    BY <1>1, <1>4
  <2> QED BY <1>2, <1>4, <2>1 DEF IInv, Moved, MemoryCapable, stores, modes, switching
<1> QED BY <1>5, <1>6, <1>7, <1>8 DEF IInv

LEMMA WipeEndsStep ==
  ASSUME IInv, WipeEnds
  PROVE  IInv'
<1>1. TypeOK /\ OneCopy(requests) /\ requests \in [Stores -> Seq(Requests)] /\ faults \in Nat
  BY DEF IInv, TypeOK, Queued
<1>2. CASE SignedOut(requests) /\ UNCHANGED faults
  BY <1>1, <1>2, SignedOutStep
<1>3. ASSUME NEW s \in Stores, Turn(s, "wipe"), Fault("delete"), SignedOut(Serve(s))
      PROVE  IInv'
  <2>1. faults' \in Nat
    BY <1>1, <1>3 DEF Fault
  <2>2. /\ Serve(s) \in [Stores -> Seq(Requests)]
        /\ \A t \in Stores, x \in Requests : In(Serve(s), t, x) => In(requests, t, x)
        /\ \A t \in Stores : In(requests, t, "delete") => In(Serve(s), t, "delete")
        /\ \A t \in Stores : Barred(requests, t) => Barred(Serve(s), t)
        /\ OneCopy(Serve(s))
    BY <1>1, <1>3, Turned DEF Requests, Deletions
  <2> QED BY <1>3, <2>1, <2>2, SignedOutStep
<1> QED BY <1>2, <1>3 DEF WipeEnds

LEMMA ReloadStep ==
  ASSUME IInv, Reload
  PROVE  IInv'
<1>1. PICK kept \in SUBSET {s \in Stores : \E r \in Deletions : Waits(s, r)} :
         /\ requests' = [s \in Stores |-> IF s \in kept THEN <<"orphan">> ELSE <<>>]
         /\ condemned' = kept
  BY DEF Reload
<1>2. /\ handles' = Nothing /\ bound' = [s \in Stores |-> "none"] /\ memory' = Nothing
      /\ mode' = "DISK" /\ localMemory' = FALSE /\ phase' = "none" /\ copied' = {}
      /\ wiping' = FALSE /\ written' = disk /\ atStart' = Nothing /\ fellBack' = {}
      /\ UNCHANGED <<disk, local, bounds>>
  BY DEF Reload
<1>3. kept \subseteq Stores /\ kept \subseteq condemned
  BY DEF IInv, Queued, Waits, In
<1>4. /\ \A t \in Stores \ kept : requests'[t] = <<>> /\ Len(requests'[t]) = 0
      /\ \A t \in kept : requests'[t] = <<"orphan">> /\ Len(requests'[t]) = 1 /\ requests'[t][1] = "orphan"
  BY <1>1, <1>3
<1>5. \A t \in Stores : \A i \in 1..Len(requests'[t]) : requests'[t][i] = "orphan" /\ t \in kept
  BY <1>4
<1>6. TypeOK'
  <2>1. <<"orphan">> \in Seq(Requests) /\ <<>> \in Seq(Requests)
    BY DEF Requests, Deletions
  <2>2. requests' \in [Stores -> Seq(Requests)]
    BY <1>1, <2>1
  <2> QED BY <1>1, <1>2, <1>3, <2>2 DEF IInv, TypeOK, Nothing, bounds
<1>7. Queued'
  <2>1. OneCopy(requests')
    BY <1>5 DEF OneCopy
  <2>2. ASSUME NEW t \in Stores, NEW r, In(requests', t, r) PROVE r = "orphan" /\ t \in kept
    BY <1>5, <2>2 DEF In
  <2> QED BY <1>1, <1>3, <2>1, <2>2 DEF IInv, Queued
<1>8. Bindings' /\ OnDisk' /\ Moved' /\ Kept'
  BY <1>2 DEF Bindings, OnDisk, Moved, Kept
<1>9. Numbered'
  BY <1>2 DEF IInv, TypeOK, Numbered, Nothing, bounds
<1> QED BY <1>6, <1>7, <1>8, <1>9 DEF IInv

-----------------------------------------------------------------------------
(* The theorems *)

LEMMA Initially ==
  ASSUME Init
  PROVE  IInv
<1>1. \A s \in Stores : requests[s] = <<>> /\ Len(requests[s]) = 0
  BY DEF Init
<1>2. TypeOK
  <2>1. <<>> \in Seq(Requests)
    OBVIOUS
  <2>2. requests \in [Stores -> Seq(Requests)] /\ Nothing \in [Stores -> Nat]
    BY <2>1 DEF Init, Nothing
  <2>3. \A s \in Stores : bound[s] # "disk"
    BY DEF Init
  <2> QED BY <2>2, <2>3 DEF Init, TypeOK
<1>3. Queued
  BY <1>1 DEF Init, Queued, OneCopy, In
<1>4. Bindings /\ Numbered /\ OnDisk /\ Moved /\ Kept
  BY DEF Init, Bindings, Numbered, OnDisk, Moved, Kept, Nothing
<1> QED BY <1>2, <1>3, <1>4 DEF IInv

\* Every step of the page and of the browser keeps the invariant.
LEMMA Inductive ==
  ASSUME IInv, [Next]_vars
  PROVE  IInv'
<1>1. CASE Access
  BY <1>1, OpenStep, OpenedStep, OpenFailsStep, WriteStep, SetItemStep DEF Access
<1>2. CASE Switch
  <2>1. ASSUME NEW s \in Stores, Deleted(s) PROVE IInv'
    BY <2>1, DeleteStep DEF Deleted, Deletions
  <2> QED BY <1>2, <2>1, SwitchStep, CommitStep, DeleteTimesOutStep, ForgetStep,
             CopyToMemoryStep, CopiedStep, CopyFailsStep, DeleteFailsStep DEF Switch
<1>3. CASE SignOut
  <2>1. ASSUME NEW s \in Stores, Wiped(s) PROVE IInv'
    BY <2>1, DeleteStep DEF Wiped, Deletions
  <2> QED BY <1>3, <2>1, ClearAuthSessionStep, WipeEndsStep DEF SignOut
<1>4. CASE Browser
  <2>1. ASSUME NEW s \in Stores, OrphanDeleted(s) PROVE IInv'
    BY <2>1, DeleteStep DEF OrphanDeleted, Deletions
  <2> QED BY <1>4, <2>1, ReloadStep DEF Browser
<1>5. CASE UNCHANGED vars
  <2>1. TypeOK' /\ Queued' /\ Bindings'
    BY <1>5 DEF IInv, TypeOK, Queued, Bindings, vars, databases, stores, modes, switching, history, bounds
  <2>2. Numbered' /\ OnDisk' /\ Moved' /\ Kept'
    BY <1>5 DEF IInv, Numbered, OnDisk, Moved, Kept, vars, databases, stores, modes, switching, history, bounds
  <2> QED BY <2>1, <2>2 DEF IInv
<1> QED BY <1>1, <1>2, <1>3, <1>4, <1>5 DEF Next

\* The invariant holds of every state a page can reach, for any number of
\* stores, writes, accesses, switches, sign-outs and failures.
THEOREM Invariance == Spec => []IInv
<1>1. Init => IInv
  BY Initially
<1>2. IInv /\ [Next]_vars => IInv'
  BY Inductive
<1> QED BY <1>1, <1>2, PTL DEF Spec

\* Every variable keeps its type, and a store that is bound to disk has a handle.
THEOREM TypeCorrect == Spec => []TypeOK
<1>1. IInv => TypeOK
  BY DEF IInv
<1> QED BY <1>1, Invariance, PTL

\* A store keeps its resolved writes on disk, and serves them from there, until
\* its database is condemned; a pinned one keeps them for ever.
THEOREM WritesAreKept == Spec => []KeepsWrites
<1>1. IInv => KeepsWrites
  <2> SUFFICES ASSUME IInv, NEW s \in Stores \ ((condemned \ Pinned) \union fellBack)
               PROVE  /\ disk[s] = written[s]
                      /\ mode = "DISK" => Served(s) = written[s]
    BY DEF KeepsWrites
  <2>1. s \notin condemned \union fellBack
    BY DEF IInv, Queued, MemoryCapable
  <2>2. disk[s] = written[s] /\ bound[s] # "memory"
    BY <2>1 DEF IInv, OnDisk, Bindings
  <2> QED BY <2>2 DEF Served
<1> QED BY <1>1, Invariance, PTL

\* A page in memory mode serves, of every store that can move, the row the
\* switch found or a later one.
THEOREM SwitchKeeps == Spec => []SwitchKeepsRows
<1>1. IInv => SwitchKeepsRows
  <2> SUFFICES ASSUME IInv, mode = "MEMORY", NEW s \in MemoryCapable \ fellBack
               PROVE  Served(s) >= atStart[s]
    BY DEF SwitchKeepsRows
  <2>1. s \in Stores /\ bound[s] # "none" /\ memory[s] >= atStart[s]
    BY DEF IInv, Moved, Kept, MemoryCapable
  <2>2. bound[s] = "memory"
    BY <2>1 DEF IInv, Moved, Queued, Bindings
  <2> QED BY <2>1, <2>2 DEF Served
<1> QED BY <1>1, Invariance, PTL

\* In memory mode no database of a store that can move has a row, and no access
\* that still waits can bring one back.
THEOREM NothingStays == Spec => []NothingLeftOnDisk
<1>1. IInv => NothingLeftOnDisk
  <2> SUFFICES ASSUME IInv, mode = "MEMORY"
               PROVE  /\ ~local
                      /\ \A s \in MemoryCapable :
                            disk[s] = 0 /\ bound[s] = "memory" /\ ~Waits(s, "open")
    BY DEF NothingLeftOnDisk
  <2>1. ~local /\ phase = "none"
    BY DEF IInv, Bindings
  <2>2. ASSUME NEW s \in MemoryCapable
        PROVE  disk[s] = 0 /\ bound[s] = "memory" /\ ~Waits(s, "open")
    <3>1. s \in Stores /\ ~In(requests, s, "delete") /\ Barred(requests, s)
      BY <2>1 DEF IInv, Queued, Moved, MemoryCapable
    <3>2. requests[s] \in Seq(Requests)
      BY <3>1 DEF IInv, TypeOK
    <3>3. ~Waits(s, "open")
      <4> SUFFICES ASSUME NEW j \in 1..Len(requests[s]), requests[s][j] = "open" PROVE FALSE
        BY DEF Waits
      <4>1. PICK i \in (j + 1)..Len(requests[s]) : requests[s][i] = "delete"
        BY <3>1 DEF Barred
      <4>2. i \in 1..Len(requests[s])
        BY <3>2, <4>1
      <4> QED BY <3>1, <4>1, <4>2 DEF In
    <3> QED BY <3>1, <3>3 DEF IInv, Moved
  <2> QED BY <2>1, <2>2
<1> QED BY <1>1, Invariance, PTL
=============================================================================
