------------------------ MODULE TrackingLimiterProofs ------------------------
(***************************************************************************)
(* What the counter of the public tracking page guarantees, for any number *)
(* of server processes and threads, any limit and any window.              *)
(***************************************************************************)
EXTENDS TrackingLimiter, TLAPS

(* Requests that were let through are not forgotten as time goes on. *)
ServedGrows ==
  \A p \in Processes : \A s, t \in Times : s <= t => served[p][s] <= served[p][t]

(***************************************************************************)
(* A counter that was written expires a window after the last request that *)
(* the process let through.                                                *)
(***************************************************************************)
LastServed(p) == cache[p].expires - Window

ExpiresAfterLast ==
  \A p \in Processes :
    IF cache[p].expires = 0 THEN \A t \in Times : served[p][t] = 0
    ELSE /\ Window <= cache[p].expires
         /\ LastServed(p) <= now
         /\ 0 < served[p][LastServed(p)]
         /\ LastServed(p) > 0 => served[p][LastServed(p) - 1] < served[p][LastServed(p)]
         /\ \A t \in Times : LastServed(p) <= t => served[p][t] = served[p][now]

(* Requests of one process that have never overlapped are answered one by one. *)
OneByOne ==
  \A p \in Processes \ overlapped : \A t, u \in Threads :
    read[<<p, t>>] # Idle /\ read[<<p, u>>] # Idle => t = u

(***************************************************************************)
(* Such a process has counted, and a request under way has read, at least  *)
(* what was let through in the window that ends now.                       *)
(***************************************************************************)
Counted ==
  \A p \in Processes \ overlapped :
    /\ InWindowUpTo(p, now) <= cache[p].count
    /\ \A t \in Threads : read[<<p, t>>] # Idle => InWindowUpTo(p, now) <= read[<<p, t>>]

RefusedBefore == \A p \in Processes : \A t \in refused[p] : t <= now

IInv ==
  /\ TypeOK /\ ServedGrows /\ ExpiresAfterLast /\ OneByOne /\ Counted /\ RefusedBefore
  /\ LimitPerProcess /\ RefusalFollowsService

-----------------------------------------------------------------------------
LEMMA Typing ==
  ASSUME TypeOK, NEW p \in Processes
  PROVE  /\ now \in Nat /\ now \in Times /\ now <= LastTime
         /\ Limit \in Nat /\ 0 < Limit /\ Window \in Nat /\ 0 < Window /\ LastTime \in Nat
         /\ cache[p].count \in Nat /\ cache[p].count <= Limit
         /\ cache[p].expires \in Nat /\ cache[p].expires <= LastTime + Window
         /\ \A t \in Threads : read[<<p, t>>] \in Nat /\ read[<<p, t>>] <= Limit
         /\ \A s \in Times : s \in Nat /\ s <= LastTime /\ served[p][s] \in Nat
  <1>1. now \in Times /\ Times \subseteq Nat /\ \A s \in Times : s \in Nat /\ s <= LastTime
    BY LimitAssumption DEF TypeOK, Times
  <1>2. cache[p] \in [count : 0..Limit, expires : 0..(LastTime + Window)]
    BY DEF TypeOK
  <1>3. \A t \in Threads : read[<<p, t>>] \in 0..Limit
    BY DEF TypeOK, Workers
  <1>4. \A s \in Times : served[p][s] \in Nat
    BY DEF TypeOK
  <1> QED
    BY <1>1, <1>2, <1>3, <1>4, LimitAssumption

(* What has been let through so far is all there is. *)
LEMMA NothingAhead ==
  ASSUME IInv, NEW p \in Processes, NEW t \in Times, now <= t
  PROVE  served[p][t] = served[p][now]
  BY Typing DEF IInv, ExpiresAfterLast, LastServed, Times

LEMMA WindowsAreNat ==
  ASSUME TypeOK, ServedGrows, NEW p \in Processes, NEW t \in Times
  PROVE  /\ InWindowUpTo(p, t) \in Nat
         /\ Window <= t => t - Window \in Times /\ InWindowUpTo(p, t) = served[p][t] - served[p][t - Window]
         /\ t < Window => InWindowUpTo(p, t) = served[p][t]
  <1>1. t \in Nat /\ t <= LastTime /\ Window \in Nat /\ 0 < Window /\ LastTime \in Nat
    BY Typing
  <1>2. Window <= t => t - Window \in Times /\ t - Window <= t
    BY <1>1 DEF Times
  <1>3. \A s \in Times : served[p][s] \in Nat
    BY Typing
  <1>4. Window <= t => served[p][t - Window] <= served[p][t]
    BY <1>2 DEF ServedGrows
  <1> QED
    BY <1>1, <1>2, <1>3, <1>4 DEF InWindowUpTo

(***************************************************************************)
(* A step that lets nothing through leaves the windows as they are; it     *)
(* keeps the limit if it refuses nothing.                                  *)
(***************************************************************************)
LEMMA NotServed ==
  ASSUME IInv, UNCHANGED <<served, refused>>, overlapped \subseteq overlapped'
  PROVE  ServedGrows' /\ LimitPerProcess' /\ RefusalFollowsService'
  BY DEF IInv, ServedGrows, LimitPerProcess, RefusalFollowsService, InWindowUpTo

LEMMA AdmitStep ==
  ASSUME IInv, NEW p \in Processes, NEW t \in Threads, Admit(p, t)
  PROVE  IInv'
  <1> USE DEF IInv
  <1>1. /\ read' = [read EXCEPT ![<<p, t>>] = Count(p)]
        /\ Count(p) < Limit /\ read[<<p, t>>] = Idle
        /\ UNCHANGED <<now, cache, served, refused>>
        /\ overlapped' = overlapped \cup {q \in {p} : \E u \in Threads : read[<<p, u>>] # Idle}
    BY DEF Admit
  <1>2. Count(p) \in Nat /\ Count(p) \in 0..Limit
    BY <1>1, Typing DEF Count
  <1>3. TypeOK'
    BY <1>1, <1>2 DEF TypeOK, Workers
  <1>4. ServedGrows' /\ LimitPerProcess' /\ RefusalFollowsService'
    BY <1>1, NotServed
  <1>5. ExpiresAfterLast' /\ RefusedBefore'
    BY <1>1 DEF ExpiresAfterLast, LastServed, RefusedBefore
  <1>6. \A q \in Processes, u \in Threads :
          read'[<<q, u>>] = IF q = p /\ u = t THEN Count(p) ELSE read[<<q, u>>]
    BY <1>1 DEF TypeOK, Workers
  <1>7. OneByOne'
    BY <1>1, <1>6 DEF OneByOne, Idle
  <1>8. InWindowUpTo(p, now) <= cache[p].count => InWindowUpTo(p, now) <= Count(p)
    <2>1. now \in Times /\ cache[p].expires \in Nat
      BY Typing
    <2>2. CASE now < cache[p].expires
      BY <2>2 DEF Count
    <2>3. CASE cache[p].expires = 0
      <3>1. InWindowUpTo(p, now) = 0
        <4>1. \A s \in Times : served[p][s] = 0
          BY <2>3 DEF ExpiresAfterLast
        <4>2. Window <= now => now - Window \in Times
          BY <2>1, WindowsAreNat
        <4> QED
          BY <2>1, <4>1, <4>2, Typing DEF InWindowUpTo
      <3> QED
        BY <3>1, <1>2
    <2>4. CASE cache[p].expires <= now /\ cache[p].expires # 0
      <3>1. Window <= cache[p].expires
        BY <2>4 DEF ExpiresAfterLast
      <3>2. Window <= now /\ LastServed(p) <= now - Window
        BY <2>1, <2>4, <3>1, Typing DEF LastServed
      <3>3. served[p][now - Window] = served[p][now]
        BY <2>1, <2>4, <3>2, WindowsAreNat DEF ExpiresAfterLast
      <3>4. InWindowUpTo(p, now) = 0
        BY <2>1, <3>2, <3>3, WindowsAreNat, Typing
      <3> QED
        BY <3>4, <1>2
    <2> QED
      BY <2>1, <2>2, <2>3, <2>4, Typing
  <1>9. Counted'
    BY <1>1, <1>6, <1>8 DEF Counted, InWindowUpTo
  <1> QED
    BY <1>3, <1>4, <1>5, <1>7, <1>9

LEMMA RefuseStep ==
  ASSUME IInv, NEW p \in Processes, NEW t \in Threads, Refuse(p, t)
  PROVE  IInv'
  <1> USE DEF IInv
  <1>1. /\ Limit <= Count(p)
        /\ refused' = [refused EXCEPT ![p] = @ \cup {now}]
        /\ UNCHANGED <<now, cache, read, served, overlapped>>
    BY Typing DEF Refuse, Count
  <1>2. /\ now \in Times /\ now \in Nat
        /\ \A q \in Processes : refused[q] \in SUBSET Times
        /\ \A q \in Processes : refused'[q] = IF q = p THEN refused[p] \cup {now} ELSE refused[q]
    BY <1>1, Typing DEF TypeOK
  <1>3. TypeOK'
    BY <1>1, <1>2 DEF TypeOK
  <1>4. ServedGrows' /\ LimitPerProcess' /\ ExpiresAfterLast' /\ OneByOne' /\ Counted'
    BY <1>1 DEF ServedGrows, LimitPerProcess, ExpiresAfterLast, LastServed, OneByOne, Counted, InWindowUpTo, Idle
  <1>5. RefusedBefore'
    BY <1>1, <1>2 DEF RefusedBefore
  <1>6. 0 < InWindowUpTo(p, now)
    <2> DEFINE last == LastServed(p)
    <2>1. now < cache[p].expires /\ cache[p].expires \in Nat /\ Window \in Nat /\ 0 < Window
      BY <1>1, Typing DEF Count
    <2>2. /\ Window <= cache[p].expires
          /\ last <= now
          /\ 0 < served[p][last]
          /\ last > 0 => served[p][last - 1] < served[p][last]
          /\ \A s \in Times : last <= s => served[p][s] = served[p][now]
      BY <1>2, <2>1 DEF ExpiresAfterLast
    <2>3. last \in Times /\ last \in Nat /\ now < last + Window
      BY <1>2, <2>1, <2>2, LimitAssumption DEF LastServed, Times
    <2>4. served[p][last] = served[p][now]
      BY <2>2, <2>3, <1>2
    <2>5. CASE now < Window
      BY <1>2, <2>2, <2>4, <2>5, WindowsAreNat
    <2>6. CASE Window <= now
      <3>1. now - Window \in Times /\ InWindowUpTo(p, now) = served[p][now] - served[p][now - Window]
        BY <1>2, <2>6, WindowsAreNat
      <3>2. last - 1 \in Times /\ now - Window <= last - 1 /\ 0 < last
        BY <1>2, <2>1, <2>3, <2>6, LimitAssumption DEF Times
      <3>3. served[p][now - Window] <= served[p][last - 1]
        BY <3>1, <3>2 DEF ServedGrows
      <3> QED
        BY <1>2, <2>2, <2>3, <2>4, <3>1, <3>2, <3>3, Typing
    <2> QED
      BY <1>2, <2>1, <2>5, <2>6
  <1>7. RefusalFollowsService'
    BY <1>1, <1>2, <1>6 DEF RefusalFollowsService, InWindowUpTo
  <1> QED
    BY <1>3, <1>4, <1>5, <1>7

LEMMA WriteBackStep ==
  ASSUME IInv, NEW p \in Processes, NEW t \in Threads, WriteBack(p, t)
  PROVE  IInv'
  <1> USE DEF IInv
  <1>1. /\ read[<<p, t>>] # Idle
        /\ cache' = [cache EXCEPT ![p] = [count |-> read[<<p, t>>] + 1, expires |-> now + Window]]
        /\ read' = [read EXCEPT ![<<p, t>>] = Idle]
        /\ served' = [served EXCEPT ![p] = [s \in Times |-> IF now <= s THEN served[p][s] + 1 ELSE served[p][s]]]
        /\ UNCHANGED <<now, refused, overlapped>>
    BY DEF WriteBack, Serve
  <1>2. /\ read[<<p, t>>] \in Nat /\ read[<<p, t>>] < Limit
        /\ now \in Nat /\ now \in Times /\ now <= LastTime
        /\ Window \in Nat /\ 0 < Window /\ LastTime \in Nat /\ Limit \in Nat
    BY <1>1, Typing DEF Idle
  <1>3. /\ cache'[p].count = read[<<p, t>>] + 1 /\ cache'[p].expires = now + Window
        /\ \A q \in Processes : q # p => cache'[q] = cache[q] /\ served'[q] = served[q]
        /\ \A s \in Times : served'[p][s] = IF now <= s THEN served[p][s] + 1 ELSE served[p][s]
        /\ \A q \in Processes, u \in Threads :
             read'[<<q, u>>] = IF q = p /\ u = t THEN Idle ELSE read[<<q, u>>]
    BY <1>1 DEF TypeOK, Workers
  <1>4. \A s \in Times : s \in Nat /\ s <= LastTime /\ served[p][s] \in Nat
    BY Typing
  <1>5. TypeOK'
    <2>1. served' \in [Processes -> [Times -> Nat]]
      BY <1>1, <1>4 DEF TypeOK
    <2>2. cache' \in [Processes -> [count : 0..Limit, expires : 0..(LastTime + Window)]]
      BY <1>1, <1>2 DEF TypeOK
    <2>3. read' \in [Workers -> 0..Limit]
      <3>1. Idle \in 0..Limit
        BY <1>2 DEF Idle
      <3> QED
        BY <1>1, <3>1 DEF TypeOK
    <2> QED
      BY <1>1, <2>1, <2>2, <2>3 DEF TypeOK
  <1>6. ServedGrows'
    BY <1>2, <1>3, <1>4 DEF ServedGrows
  <1>7. ExpiresAfterLast'
    <2>1. ASSUME NEW q \in Processes, q # p, cache[q].expires = 0
          PROVE  cache'[q].expires = 0 /\ \A s \in Times : served'[q][s] = 0
      BY <1>3, <2>1 DEF ExpiresAfterLast
    <2>2. ASSUME NEW q \in Processes, q # p, cache[q].expires # 0
          PROVE  /\ cache'[q].expires # 0 /\ Window <= cache'[q].expires
                 /\ LastServed(q)' = LastServed(q) /\ LastServed(q) <= now'
                 /\ 0 < served'[q][LastServed(q)]
                 /\ LastServed(q) > 0 => served'[q][LastServed(q) - 1] < served'[q][LastServed(q)]
                 /\ \A s \in Times : LastServed(q) <= s => served'[q][s] = served'[q][now']
      BY <1>1, <1>3, <2>2 DEF ExpiresAfterLast, LastServed
    <2>3. LastServed(p)' = now /\ cache'[p].expires # 0 /\ Window <= cache'[p].expires
      BY <1>2, <1>3 DEF LastServed
    <2>4. 0 < served'[p][now]
      BY <1>2, <1>3, <1>4
    <2>5. now > 0 => served'[p][now - 1] < served'[p][now]
      <3>1. now > 0 => now - 1 \in Times /\ served[p][now - 1] <= served[p][now]
        BY <1>2 DEF ServedGrows, Times
      <3> QED
        BY <1>2, <1>3, <1>4, <3>1
    <2>6. \A s \in Times : now <= s => served'[p][s] = served'[p][now]
      BY <1>2, <1>3, NothingAhead
    <2> QED
      <3>1. ASSUME NEW q \in Processes
            PROVE  IF cache'[q].expires = 0 THEN \A s \in Times : served'[q][s] = 0
                   ELSE /\ Window <= cache'[q].expires
                        /\ LastServed(q)' <= now'
                        /\ 0 < served'[q][LastServed(q)']
                        /\ LastServed(q)' > 0 => served'[q][LastServed(q)' - 1] < served'[q][LastServed(q)']
                        /\ \A s \in Times : LastServed(q)' <= s => served'[q][s] = served'[q][now']
        <4>1. CASE q = p
          BY <1>1, <1>2, <2>3, <2>4, <2>5, <2>6, <4>1
        <4>2. CASE q # p /\ cache[q].expires = 0
          BY <2>1, <4>2
        <4>3. CASE q # p /\ cache[q].expires # 0
          BY <2>2, <4>3
        <4> QED
          BY <4>1, <4>2, <4>3
      <3> QED
        BY <3>1 DEF ExpiresAfterLast
  <1>8. OneByOne'
    BY <1>1, <1>3 DEF OneByOne, Idle
  <1>9. \A s \in Times : InWindowUpTo(p, s) \in Nat
    BY WindowsAreNat
  <1>10. ASSUME NEW s \in Times
        PROVE  /\ InWindowUpTo(p, s)' \in Nat
               /\ s < now => InWindowUpTo(p, s)' = InWindowUpTo(p, s)
               /\ s = now => InWindowUpTo(p, s)' = InWindowUpTo(p, s) + 1
               /\ now <= s => InWindowUpTo(p, s)' <= InWindowUpTo(p, now) + 1
    <2>1. /\ s \in Nat /\ served[p][s] \in Nat /\ served[p][now] \in Nat
          /\ now <= s => served[p][s] = served[p][now]
      BY <1>2, <1>9, <1>4, NothingAhead
    <2>2. CASE s < Window
      BY <1>2, <1>9, <1>3, <2>1, <2>2 DEF InWindowUpTo
    <2>3. CASE Window <= s /\ now < Window
      <3>1. s - Window \in Times /\ served[p][s - Window] \in Nat
        BY <1>2, <1>4, <2>1, <2>3, WindowsAreNat
      <3> QED
        BY <1>2, <1>9, <1>3, <2>1, <2>3, <3>1 DEF InWindowUpTo
    <2>4. CASE Window <= s /\ Window <= now
      <3>1. /\ s - Window \in Times /\ served[p][s - Window] \in Nat
            /\ now - Window \in Times /\ served[p][now - Window] \in Nat
        BY <1>2, <1>4, <2>1, <2>4, WindowsAreNat
      <3>2. now <= s => served[p][now - Window] <= served[p][s - Window]
        BY <1>2, <2>1, <3>1 DEF ServedGrows
      <3> QED
        BY <1>2, <1>9, <1>3, <2>1, <2>4, <3>1, <3>2 DEF InWindowUpTo
    <2> QED
      BY <1>2, <1>9, <2>1, <2>2, <2>3, <2>4
  <1>11. \A q \in Processes : q # p => \A s \in Times : InWindowUpTo(q, s)' = InWindowUpTo(q, s)
    BY <1>1, <1>3 DEF InWindowUpTo
  <1>12. p \notin overlapped => InWindowUpTo(p, now) <= read[<<p, t>>]
    BY <1>1 DEF Counted
  <1>13. Counted'
    <2>1. ASSUME NEW q \in Processes \ overlapped, q # p
          PROVE  /\ InWindowUpTo(q, now)' <= cache'[q].count
                 /\ \A u \in Threads : read'[<<q, u>>] # Idle => InWindowUpTo(q, now)' <= read'[<<q, u>>]
      BY <1>1, <1>2, <1>3, <1>11, <2>1 DEF Counted, InWindowUpTo
    <2>2. ASSUME p \notin overlapped
          PROVE  InWindowUpTo(p, now)' <= cache'[p].count
      BY <1>1, <1>2, <1>3, <1>10, <1>9, <1>12, <2>2
    <2>3. ASSUME p \notin overlapped, NEW u \in Threads PROVE read'[<<p, u>>] = Idle
      BY <1>1, <1>3, <2>3 DEF OneByOne
    <2> QED
      BY <1>1, <2>1, <2>2, <2>3 DEF Counted, Idle
  <1>14. LimitPerProcess'
    <2>1. ASSUME NEW q \in Processes \ overlapped, q # p, NEW s \in Times
          PROVE  InWindowUpTo(q, s)' <= Limit
      BY <1>11, <2>1 DEF LimitPerProcess
    <2>2. ASSUME p \notin overlapped, NEW s \in Times
          PROVE  InWindowUpTo(p, s)' <= Limit
      <3>1. CASE s < now
        BY <1>10, <2>2, <3>1 DEF LimitPerProcess
      <3>2. CASE now <= s
        <4>1. InWindowUpTo(p, s)' <= InWindowUpTo(p, now) + 1
          BY <1>10, <3>2
        <4>2. InWindowUpTo(p, now) + 1 <= read[<<p, t>>] + 1
          BY <1>2, <1>9, <1>12, <2>2
        <4> QED
          BY <1>2, <1>9, <1>10, <4>1, <4>2
      <3> QED
        BY <1>2, <1>4, <3>1, <3>2
    <2> QED
      BY <1>1, <2>1, <2>2 DEF LimitPerProcess
  <1>15. RefusalFollowsService' /\ RefusedBefore'
    <2>1. \A q \in Processes : \A s \in refused[q] : s \in Times /\ s <= now /\ InWindowUpTo(q, s) > 0
      BY DEF TypeOK, RefusedBefore, RefusalFollowsService
    <2>2. ASSUME NEW s \in refused[p] PROVE InWindowUpTo(p, s)' > 0
      <3>1. s \in Times /\ s \in Nat /\ s <= now /\ InWindowUpTo(p, s) > 0 /\ InWindowUpTo(p, s) \in Nat
        BY <1>4, <1>9, <2>1, <2>2
      <3>2. /\ s < now => InWindowUpTo(p, s)' = InWindowUpTo(p, s)
            /\ s = now => InWindowUpTo(p, s)' = InWindowUpTo(p, s) + 1
        BY <1>10, <3>1
      <3> QED
        BY <1>2, <3>1, <3>2
    <2>3. ASSUME NEW q \in Processes, q # p, NEW s \in refused[q] PROVE InWindowUpTo(q, s)' > 0
      BY <1>11, <2>1, <2>3
    <2> QED
      BY <1>1, <2>1, <2>2, <2>3 DEF RefusalFollowsService, RefusedBefore
  <1> QED
    BY <1>5, <1>6, <1>7, <1>8, <1>13, <1>14, <1>15

LEMMA TickStep ==
  ASSUME IInv, Tick
  PROVE  IInv'
  <1> USE DEF IInv
  <1>1. now < LastTime /\ now' = now + 1 /\ UNCHANGED <<cache, read, served, refused, overlapped>>
    BY DEF Tick
  <1>2. now \in Times /\ now \in Nat /\ now' \in Times /\ Window \in Nat
    BY <1>1, LimitAssumption DEF TypeOK, Times
  <1>3. TypeOK'
    BY <1>1, <1>2 DEF TypeOK
  <1>4. ServedGrows' /\ LimitPerProcess' /\ RefusalFollowsService'
    BY <1>1, NotServed
  <1>5. \A p \in Processes : served[p][now'] = served[p][now]
    BY <1>1, <1>2, NothingAhead
  <1>6. ExpiresAfterLast'
    <2>1. \A p \in Processes : cache[p].expires \in Nat
      BY Typing
    <2>2. ASSUME NEW p \in Processes
          PROVE  LastServed(p)' = LastServed(p) /\ (LastServed(p) <= now => LastServed(p) <= now')
      BY <1>1, <1>2, <2>1 DEF LastServed
    <2> QED
      BY <1>1, <1>5, <2>1, <2>2 DEF ExpiresAfterLast
  <1>7. OneByOne' /\ RefusedBefore'
    <2>1. \A p \in Processes : \A t \in refused[p] : t \in Nat
      BY LimitAssumption DEF TypeOK, Times
    <2> QED
      BY <1>1, <1>2, <2>1 DEF OneByOne, RefusedBefore, Idle
  <1>8. ASSUME NEW p \in Processes
        PROVE  InWindowUpTo(p, now') <= InWindowUpTo(p, now)
    <2>1. CASE now' < Window
      BY <1>1, <1>2, <1>5, <2>1, Typing DEF InWindowUpTo
    <2>2. CASE now' = Window
      <3>1. 0 \in Times /\ served[p][0] \in Nat /\ served[p][now] \in Nat
        BY <1>2, Typing, LimitAssumption DEF Times
      <3>2. InWindowUpTo(p, now) = served[p][now]
        BY <1>1, <1>2, <2>2, WindowsAreNat
      <3>3. InWindowUpTo(p, now') = served[p][now] - served[p][0]
        BY <1>2, <1>5, <2>2 DEF InWindowUpTo
      <3> QED
        BY <3>1, <3>2, <3>3
    <2>3. CASE Window < now'
      <3>1. /\ now - Window \in Times /\ now' - Window \in Times
            /\ InWindowUpTo(p, now) = served[p][now] - served[p][now - Window]
            /\ InWindowUpTo(p, now') = served[p][now] - served[p][now' - Window]
        BY <1>1, <1>2, <1>5, <2>3, WindowsAreNat
      <3>2. served[p][now - Window] <= served[p][now' - Window]
        BY <1>1, <1>2, <3>1 DEF ServedGrows
      <3>3. /\ served[p][now] \in Nat /\ served[p][now - Window] \in Nat
            /\ served[p][now' - Window] \in Nat
        BY <1>2, <3>1, Typing
      <3> QED
        BY <3>1, <3>2, <3>3
    <2> QED
      BY <1>2, <2>1, <2>2, <2>3
  <1>9. Counted'
    <2>1. ASSUME NEW p \in Processes
          PROVE  InWindowUpTo(p, now)' = InWindowUpTo(p, now')
      BY <1>1 DEF InWindowUpTo
    <2>2. ASSUME NEW p \in Processes
          PROVE  /\ InWindowUpTo(p, now) \in Nat /\ InWindowUpTo(p, now') \in Nat
                 /\ cache[p].count \in Nat /\ \A t \in Threads : read[<<p, t>>] \in Nat
      BY <1>2, WindowsAreNat, Typing
    <2> QED
      BY <1>1, <1>8, <2>1, <2>2 DEF Counted, Idle
  <1> QED
    BY <1>3, <1>4, <1>6, <1>7, <1>9

-----------------------------------------------------------------------------
LEMMA InvInit == Init => IInv
  <1> SUFFICES ASSUME Init PROVE IInv
    OBVIOUS
  <1>1. TypeOK
    BY LimitAssumption DEF Init, TypeOK, Times, Idle
  <1>2. ServedGrows /\ ExpiresAfterLast /\ OneByOne /\ RefusedBefore
    BY DEF Init, ServedGrows, ExpiresAfterLast, OneByOne, RefusedBefore, Workers
  <1>3. \A p \in Processes, t \in Times : InWindowUpTo(p, t) = 0
    <2>1. ASSUME NEW p \in Processes, NEW t \in Times PROVE InWindowUpTo(p, t) = 0
      <3>1. \A s \in Times : served[p][s] = 0
        BY DEF Init
      <3> QED
        BY <1>1, <1>2, <3>1, WindowsAreNat, Typing
    <2> QED
      BY <2>1
  <1>4. LimitPerProcess /\ RefusalFollowsService /\ Counted
    BY <1>1, <1>3, LimitAssumption DEF Init, TypeOK, LimitPerProcess, RefusalFollowsService, Counted, Workers
  <1> QED
    BY <1>1, <1>2, <1>4 DEF IInv

LEMMA InvStep == IInv /\ [Next]_vars => IInv'
  <1> SUFFICES ASSUME IInv, [Next]_vars PROVE IInv'
    OBVIOUS
  <1>1. CASE UNCHANGED vars
    BY <1>1 DEF vars, IInv, TypeOK, ServedGrows, ExpiresAfterLast, LastServed, OneByOne, Counted,
                RefusedBefore, LimitPerProcess, RefusalFollowsService, InWindowUpTo
  <1> QED
    BY <1>1, AdmitStep, RefuseStep, WriteBackStep, TickStep DEF Next

(***************************************************************************)
(* Every number the limiter keeps stays in its range: the counter never    *)
(* passes the limit, with whatever interleaving (_rate_limited).           *)
(***************************************************************************)
THEOREM TypesKept == Spec => []TypeOK
  <1>1. IInv => TypeOK
    BY DEF IInv
  <1> QED
    BY <1>1, InvInit, InvStep, PTL DEF Spec

(***************************************************************************)
(* A process whose requests never overlapped lets at most the limit        *)
(* through in any window (_rate_limited).                                  *)
(***************************************************************************)
THEOREM LimitKept == Spec => []LimitPerProcess
  <1>1. IInv => LimitPerProcess
    BY DEF IInv
  <1> QED
    BY <1>1, InvInit, InvStep, PTL DEF Spec

(***************************************************************************)
(* Whoever is refused was served less than a window before, also when      *)
(* requests overlap (_rate_limited leaves the counter alone at the limit). *)
(***************************************************************************)
THEOREM RefusedAfterService == Spec => []RefusalFollowsService
  <1>1. IInv => RefusalFollowsService
    BY DEF IInv
  <1> QED
    BY <1>1, InvInit, InvStep, PTL DEF Spec

=============================================================================
