--------------------------- MODULE ApiRequestsProofs ---------------------------
(***************************************************************************)
(* The same key returns the same delivery (IdempotentCreate), and in the   *)
(* second part what the keys of the API add to that and what they leave as *)
(* it was (ApiRequests), for any number of workers, shops and keys,        *)
(* whatever overlaps and whatever dies.                                    *)
(***************************************************************************)
EXTENDS ApiRequests, TLAPS

LEMMA BlankType == Blank \in Request
  BY DEF Blank, Request, Owners, Headers

LEMMA InvInit == Init => IInv
  <1> SUFFICES ASSUME Init PROVE IInv
    OBVIOUS
  <1>1. TypeOK
    <2>1. keys \in [Shops -> [Keys -> Ids \cup {0}]]
      BY DEF Init
    <2>2. mem \in [Workers -> Request]
      BY BlankType DEF Init
    <2>3. next \in 1..(MaxDeliveries + 1)
      BY MaxDeliveriesAssumption DEF Init
    <2> QED
      BY <2>1, <2>2, <2>3 DEF Init, TypeOK, Owners, Headers
  <1> QED
    BY <1>1 DEF Init, IInv, FreshIds, HandsOK, OwnDelivery, KeysOK,
       SameKeySameDelivery, Blank

-----------------------------------------------------------------------------
LEMMA HoldType ==
  ASSUME TypeOK, NEW w \in Workers, NEW id \in Nat, Hold(w, id)
  PROVE  mem' \in [Workers -> Request]
  BY DEF Hold, TypeOK, Request

LEMMA ExistingType ==
  ASSUME TypeOK, NEW w \in Workers, mem[w].shop \in Shops, mem[w].key \in Keys
  PROVE  Existing(w) \in Ids \cup {0}
  BY DEF Existing, TypeOK

LEMMA TypeStep == IInv /\ [Next]_vars => TypeOK'
  <1> SUFFICES ASSUME IInv, [Next]_vars PROVE TypeOK'
    OBVIOUS
  <1> USE DEF IInv
  <1>1. ASSUME NEW w \in Workers, NEW s \in Shops, NEW k \in Headers, Receive(w, s, k)
        PROVE  TypeOK'
    BY <1>1 DEF Receive, Goto, TypeOK, Request, Owners, Headers
  <1>2. ASSUME NEW w \in Workers, Lookup(w)
        PROVE  TypeOK'
    <2>1. Existing(w) \in Nat
      BY <1>2, ExistingType, MaxDeliveriesAssumption DEF Lookup, HandsOK, Ids
    <2>2. mem' \in [Workers -> Request]
      BY <1>2, <2>1, HoldType DEF Lookup, TypeOK
    <2> QED
      BY <1>2, <2>2 DEF Lookup, Goto, TypeOK
  <1>3. ASSUME NEW w \in Workers, Create(w)
        PROVE  TypeOK'
    <2>1. next \in Nat /\ mem[w].shop \in Owners /\ mem[w].key \in Headers
      BY <1>3, MaxDeliveriesAssumption DEF Create, TypeOK, Request, Ids
    <2>2. mem' \in [Workers -> Request]
      BY <1>3, <2>1, HoldType DEF Create
    <2>3. next' \in 1..(MaxDeliveries + 1)
      BY <1>3, MaxDeliveriesAssumption DEF Create, Ids
    <2> QED
      BY <1>3, <2>1, <2>2, <2>3 DEF Create, Goto, TypeOK
  <1>4. ASSUME NEW w \in Workers, SetSource(w)
        PROVE  TypeOK'
    BY <1>4 DEF SetSource, Goto, TypeOK
  <1>5. ASSUME NEW w \in Workers, StoreKey(w)
        PROVE  TypeOK'
    BY <1>5 DEF StoreKey, Goto, TypeOK, HandsOK
  <1>6. ASSUME NEW w \in Workers, KeyTaken(w)
        PROVE  TypeOK'
    BY <1>6 DEF KeyTaken, Goto, TypeOK
  <1>7. ASSUME NEW w \in Workers, Yield(w)
        PROVE  TypeOK'
    <2>1. Existing(w) \in Nat
      BY <1>7, ExistingType, MaxDeliveriesAssumption DEF Yield, HandsOK, Ids
    <2>2. mem' \in [Workers -> Request]
      BY <1>7, <2>1, HoldType DEF Yield
    <2> QED
      BY <1>7, <2>2 DEF Yield, Goto, TypeOK, Owners
  <1>8. ASSUME NEW w \in Workers, Reply(w)
        PROVE  TypeOK'
    <2>1. answers' \in SUBSET Answer
      BY <1>8 DEF Reply, TypeOK, HandsOK, Existing, Request, Answer, Headers
    <2> QED
      BY <1>8, <2>1, BlankType DEF Reply, Goto, TypeOK
  <1>9. ASSUME NEW w \in Workers, Crash(w)
        PROVE  TypeOK'
    BY <1>9, BlankType DEF Crash, Goto, TypeOK
  <1>10. CASE UNCHANGED vars
    BY <1>10 DEF vars, TypeOK
  <1> QED
    BY <1>1, <1>2, <1>3, <1>4, <1>5, <1>6, <1>7, <1>8, <1>9, <1>10 DEF Next, Work

-----------------------------------------------------------------------------
(* IInv but for the types. *)
Parts == FreshIds /\ HandsOK /\ OwnDelivery /\ KeysOK /\ SameKeySameDelivery

LEMMA InvStep == IInv /\ [Next]_vars => IInv'
  <1> SUFFICES ASSUME IInv, [Next]_vars PROVE IInv'
    OBVIOUS
  <1>t. TypeOK /\ TypeOK'
    BY TypeStep DEF IInv
  <1>i. Parts
    BY DEF IInv, Parts
  <1>1. ASSUME NEW w \in Workers, NEW s \in Shops, NEW k \in Headers, Receive(w, s, k)
        PROVE  Parts'
    BY <1>1, <1>t, <1>i, MaxDeliveriesAssumption
       DEF Receive, Goto, Headers, Parts, Existing, TypeOK, Request, Answer, Ids,
           FreshIds, HandsOK, OwnDelivery, KeysOK, SameKeySameDelivery
  <1>2. ASSUME NEW w \in Workers, Lookup(w)
        PROVE  Parts'
    <2>1. /\ mem[w].shop \in Shops /\ mem[w].key \in Keys
          /\ pc[w] = "lookup"
          /\ UNCHANGED <<deliveries, next, keys, answers>>
      BY <1>2, <1>i DEF Lookup, Parts, HandsOK
    <2>2. \/ /\ Existing(w) # 0
             /\ mem' = [mem EXCEPT ![w] = [@ EXCEPT !.id = Existing(w)]]
             /\ pc' = [pc EXCEPT ![w] = "answer"]
          \/ mem' = mem /\ pc' = [pc EXCEPT ![w] = "create"]
      BY <1>2 DEF Lookup, Goto, Hold
    <2>3. FreshIds'
      BY <2>1, <2>2, <1>t, <1>i, MaxDeliveriesAssumption DEF Parts,
         FreshIds, TypeOK, Ids
    <2>4. HandsOK'
      <3> SUFFICES ASSUME NEW v \in Workers PROVE HandsOK!(v)'
        BY DEF HandsOK
      <3>1. CASE v = w
        <4>1. CASE Existing(w) # 0 /\ pc'[w] = "answer" /\ mem'[w] = [mem[w] EXCEPT !.id = Existing(w)]
          <5>1. Existing(w)' = Existing(w)
            BY <4>1, <2>1, <1>t DEF Existing, TypeOK, Request
          <5> QED
            BY <3>1, <4>1, <5>1, <2>1, <1>t DEF TypeOK, Request
        <4>2. CASE pc'[w] = "create" /\ mem'[w] = mem[w]
          BY <3>1, <4>2, <2>1
        <4> QED
          BY <4>1, <4>2, <2>1, <2>2, <1>t DEF TypeOK
      <3>2. CASE v # w
        BY <3>2, <2>1, <2>2, <1>t, <1>i, MaxDeliveriesAssumption DEF
           Parts, HandsOK, OwnDelivery, Existing, TypeOK, Request, Ids
      <3> QED
        BY <3>1, <3>2
    <2>5. OwnDelivery'
      <3>1. \A v \in Workers : pc'[v] \in {"source", "key", "clash"} =>
              pc[v] = pc'[v] /\ mem'[v] = mem[v]
        BY <2>1, <2>2, <1>t DEF TypeOK
      <3> QED
        BY <3>1, <2>1, <1>i DEF Parts, OwnDelivery
    <2>6. KeysOK'
      BY <2>1, <2>2, <1>t, <1>i, MaxDeliveriesAssumption DEF Parts,
         KeysOK, OwnDelivery, TypeOK, Ids
    <2>7. SameKeySameDelivery'
      BY <2>1, <2>2, <1>t, <1>i, MaxDeliveriesAssumption DEF Parts,
         KeysOK, OwnDelivery, SameKeySameDelivery, TypeOK, Answer, Ids
    <2> QED
      BY <2>3, <2>4, <2>5, <2>6, <2>7 DEF Parts
  <1>3. ASSUME NEW w \in Workers, Create(w)
        PROVE  Parts'
    <2>1. /\ next \in Ids /\ next \in Nat
          /\ mem[w].shop \in Shops
          /\ deliveries[next] = NoShop
      BY <1>3, <1>t, <1>i, MaxDeliveriesAssumption
         DEF Create, Parts, TypeOK, Ids, FreshIds, HandsOK
    <2>2. /\ deliveries' = [deliveries EXCEPT ![next] = mem[w].shop]
          /\ next' = next + 1
          /\ mem' = [mem EXCEPT ![w] = [@ EXCEPT !.id = next]]
          /\ pc' = [pc EXCEPT ![w] = "source"]
          /\ keys' = keys /\ answers' = answers
      BY <1>3 DEF Create, Hold, Goto
    <2>3. FreshIds'
      BY <2>1, <2>2, <1>t, <1>i, MaxDeliveriesAssumption DEF Parts,
         FreshIds, TypeOK, Ids
    <2>4. HandsOK'
      <3> SUFFICES ASSUME NEW v \in Workers PROVE HandsOK!(v)'
        BY DEF HandsOK
      <3>1. CASE v = w
        BY <3>1, <2>1, <2>2, <1>t, <1>i, MaxDeliveriesAssumption DEF
           Parts, HandsOK, OwnDelivery, Existing, TypeOK, Request, Ids
      <3>2. CASE v # w
        BY <3>2, <2>1, <2>2, <1>t, <1>i, MaxDeliveriesAssumption DEF
           Parts, HandsOK, OwnDelivery, Existing, TypeOK, Request, Ids
      <3> QED
        BY <3>1, <3>2
    <2>5. OwnDelivery'
      <3>1. /\ mem'[w].id = next
            /\ \A v \in Workers : v # w => mem'[v] = mem[v] /\ pc'[v] = pc[v]
        BY <2>2, <1>t DEF TypeOK, Request
      <3>2. \A k \in Shops, h \in Keys : keys[k][h] # next
        BY <2>1, <1>t, <1>i, MaxDeliveriesAssumption DEF Parts, KeysOK, TypeOK, Ids
      <3>3. \A v \in Workers : pc[v] \in {"source", "key", "clash"} => mem[v].id # next
        BY <2>1, <1>i DEF Parts, HandsOK, Ids
      <3>4. \A v \in Workers : v # w /\ pc'[v] \in {"source", "key", "clash"}
              => mem'[v].id = mem[v].id /\ mem[v].id # next /\ pc[v] \in {"source", "key", "clash"}
        BY <3>1, <3>3
      <3> QED
        BY <3>1, <3>2, <3>4, <2>2, <1>i DEF Parts, OwnDelivery
    <2>6. KeysOK'
      BY <2>1, <2>2, <1>t, <1>i, MaxDeliveriesAssumption DEF Parts,
         KeysOK, OwnDelivery, TypeOK, Ids
    <2>7. SameKeySameDelivery'
      BY <2>1, <2>2, <1>t, <1>i, MaxDeliveriesAssumption DEF Parts,
         KeysOK, OwnDelivery, SameKeySameDelivery, TypeOK, Answer, Ids
    <2> QED
      BY <2>3, <2>4, <2>5, <2>6, <2>7 DEF Parts
  <1>4. ASSUME NEW w \in Workers, SetSource(w)
        PROVE  Parts'
    <2>1. /\ pc[w] = "source"
          /\ UNCHANGED <<deliveries, next, keys, mem, answers>>
          /\ pc' = [pc EXCEPT ![w] = IF mem[w].key = NoKey THEN "answer" ELSE "key"]
      BY <1>4 DEF SetSource, Goto
    <2>2. mem[w].key # NoKey => mem[w].key \in Keys
      BY <1>t DEF TypeOK, Request, Headers
    <2>3. FreshIds'
      BY <2>1, <2>2, <1>t, <1>i, MaxDeliveriesAssumption DEF Parts,
         FreshIds, TypeOK, Ids
    <2>4. HandsOK'
      <3> SUFFICES ASSUME NEW v \in Workers PROVE HandsOK!(v)'
        BY DEF HandsOK
      <3>1. CASE v = w
        <4>1. /\ pc'[w] = IF mem[w].key = NoKey THEN "answer" ELSE "key"
              /\ mem' = mem /\ deliveries' = deliveries /\ next' = next
          BY <2>1, <1>t DEF TypeOK
        <4>2. /\ mem[w].shop \in Shops
              /\ mem[w].id \in Ids /\ mem[w].id < next /\ deliveries[mem[w].id] = mem[w].shop
          BY <2>1, <1>i DEF Parts, HandsOK
        <4> QED
          BY <3>1, <4>1, <4>2, <2>2
      <3>2. CASE v # w
        BY <3>2, <2>1, <2>2, <1>t, <1>i, MaxDeliveriesAssumption DEF
           Parts, HandsOK, OwnDelivery, Existing, TypeOK, Request, Ids
      <3> QED
        BY <3>1, <3>2
    <2>5. OwnDelivery'
      BY <2>1, <2>2, <1>t, <1>i, MaxDeliveriesAssumption DEF Parts,
         OwnDelivery, HandsOK, KeysOK, TypeOK, Request, Ids
    <2>6. KeysOK'
      BY <2>1, <2>2, <1>t, <1>i, MaxDeliveriesAssumption DEF Parts,
         KeysOK, OwnDelivery, TypeOK, Ids
    <2>7. SameKeySameDelivery'
      BY <2>1, <2>2, <1>t, <1>i, MaxDeliveriesAssumption DEF Parts,
         KeysOK, OwnDelivery, SameKeySameDelivery, TypeOK, Answer, Ids
    <2> QED
      BY <2>3, <2>4, <2>5, <2>6, <2>7 DEF Parts
  <1>5. ASSUME NEW w \in Workers, StoreKey(w)
        PROVE  Parts'
    BY <1>5, <1>t, <1>i, MaxDeliveriesAssumption
       DEF StoreKey, Goto, Parts, Existing, TypeOK, Request, Answer, Ids,
           FreshIds, HandsOK, OwnDelivery, KeysOK, SameKeySameDelivery
  <1>6. ASSUME NEW w \in Workers, KeyTaken(w)
        PROVE  Parts'
    BY <1>6, <1>t, <1>i, MaxDeliveriesAssumption
       DEF KeyTaken, Goto, Parts, Existing, TypeOK, Request, Answer, Ids,
           FreshIds, HandsOK, OwnDelivery, KeysOK, SameKeySameDelivery
  <1>7. ASSUME NEW w \in Workers, Yield(w)
        PROVE  Parts'
    <2>1. /\ mem[w].shop \in Shops /\ mem[w].key \in Keys /\ mem[w].id \in Ids
          /\ pc[w] = "clash"
          /\ Existing(w) \notin {0, mem[w].id}
      BY <1>7, <1>i DEF Yield, Parts, HandsOK
    <2>2. /\ deliveries' = [deliveries EXCEPT ![mem[w].id] = NoShop]
          /\ mem' = [mem EXCEPT ![w] = [@ EXCEPT !.id = Existing(w)]]
          /\ pc' = [pc EXCEPT ![w] = "answer"]
          /\ UNCHANGED <<next, keys, answers>>
      BY <1>7 DEF Yield, Goto, Hold
    <2>3. FreshIds'
      BY <2>1, <2>2, <1>t, <1>i, MaxDeliveriesAssumption DEF Parts,
         FreshIds, TypeOK, Ids
    <2>4. HandsOK'
      <3> SUFFICES ASSUME NEW v \in Workers PROVE HandsOK!(v)'
        BY DEF HandsOK
      <3>1. CASE v = w
        BY <3>1, <2>1, <2>2, <1>t, <1>i, MaxDeliveriesAssumption DEF
           Parts, HandsOK, OwnDelivery, Existing, TypeOK, Request, Ids
      <3>2. CASE v # w
        BY <3>2, <2>1, <2>2, <1>t, <1>i, MaxDeliveriesAssumption DEF
           Parts, HandsOK, OwnDelivery, Existing, TypeOK, Request, Ids
      <3> QED
        BY <3>1, <3>2
    <2>5. OwnDelivery'
      BY <2>1, <2>2, <1>t, <1>i, MaxDeliveriesAssumption DEF Parts,
         OwnDelivery, HandsOK, KeysOK, TypeOK, Request, Ids
    <2>6. KeysOK'
      BY <2>1, <2>2, <1>t, <1>i, MaxDeliveriesAssumption DEF Parts,
         KeysOK, OwnDelivery, TypeOK, Ids
    <2>7. SameKeySameDelivery'
      BY <2>1, <2>2, <1>t, <1>i, MaxDeliveriesAssumption DEF Parts,
         KeysOK, OwnDelivery, SameKeySameDelivery, TypeOK, Answer, Ids
    <2> QED
      BY <2>3, <2>4, <2>5, <2>6, <2>7 DEF Parts
  <1>8. ASSUME NEW w \in Workers, Reply(w)
        PROVE  Parts'
    BY <1>8, <1>t, <1>i, MaxDeliveriesAssumption
       DEF Reply, Goto, Blank, Parts, Existing, TypeOK, Request, Answer, Ids,
           FreshIds, HandsOK, OwnDelivery, KeysOK, SameKeySameDelivery
  <1>9. ASSUME NEW w \in Workers, Crash(w)
        PROVE  Parts'
    BY <1>9, <1>t, <1>i, MaxDeliveriesAssumption
       DEF Crash, Goto, Blank, Parts, Existing, TypeOK, Request, Answer, Ids,
           FreshIds, HandsOK, OwnDelivery, KeysOK, SameKeySameDelivery
  <1>10. ASSUME UNCHANGED vars
         PROVE  Parts'
    <2>1. Parts' = Parts
      BY <1>10
         DEF vars, Parts, Existing, FreshIds, HandsOK, OwnDelivery, KeysOK, SameKeySameDelivery
    <2> QED
      BY <2>1, <1>i
  <1>p. Parts'
    BY <1>1, <1>2, <1>3, <1>4, <1>5, <1>6, <1>7, <1>8, <1>9, <1>10 DEF Next, Work
  <1> QED
    BY <1>t, <1>p DEF IInv, Parts

(***************************************************************************)
(* Requests hold what is theirs or their key's, at every statement, so the *)
(* inductive invariant holds throughout (POST /deliveries).                *)
(***************************************************************************)
THEOREM Invariant == Spec => []IInv
  BY InvInit, InvStep, PTL DEF Spec

(***************************************************************************)
(* Whatever clients were told for a shop's key, it was one delivery, of    *)
(* that shop and still there (POST /deliveries with Idempotency-Key).      *)
(***************************************************************************)
THEOREM SameKey == Spec => []SameKeySameDelivery
  <1>1. IInv => SameKeySameDelivery
    BY DEF IInv
  <1> QED
    BY <1>1, Invariant, PTL

-----------------------------------------------------------------------------
(* A step that leaves deliveries, keys and what they were made for alone,  *)
(* and moves one worker that had hold of nothing or keeps its hold.        *)
LEMMA OrphansAside ==
  ASSUME NoOrphans, NEW w \in Workers,
         UNCHANGED <<deliveries, keys, made, cut>>,
         \A v \in Workers : v # w => pc'[v] = pc[v] /\ mem'[v] = mem[v],
         \A s \in Shops, k \in Keys, i \in Ids : Holds(w, s, k, i) => Holds(w, s, k, i)'
  PROVE  NoOrphans'
  <1> SUFFICES ASSUME ~cut', NEW s \in Shops, NEW k \in Keys, NEW i \in MadeFor(s, k)',
                      i # keys'[s][k]
               PROVE  \E v \in Workers : Holds(v, s, k, i)'
    BY DEF NoOrphans
  <1>1. i \in MadeFor(s, k) /\ i \in Ids
    BY DEF MadeFor
  <1>2. PICK v \in Workers : Holds(v, s, k, i)
    BY <1>1 DEF NoOrphans
  <1>3. Holds(v, s, k, i)'
    BY <1>1, <1>2 DEF Holds
  <1> QED
    BY <1>3

LEMMA OrphansStep == IInv /\ NoOrphans /\ [Next]_vars => NoOrphans'
  <1> SUFFICES ASSUME IInv, NoOrphans, [Next]_vars PROVE NoOrphans'
    OBVIOUS
  <1> USE DEF IInv
  <1>1. ASSUME NEW w \in Workers, NEW s \in Shops, NEW k \in Headers, Receive(w, s, k)
        PROVE  NoOrphans'
    BY <1>1, OrphansAside DEF Receive, Goto, TypeOK, Holds
  <1>2. ASSUME NEW w \in Workers, Lookup(w)
        PROVE  NoOrphans'
    BY <1>2, OrphansAside DEF Lookup, Goto, Hold, TypeOK, Holds
  <1>3. ASSUME NEW w \in Workers, Create(w)
        PROVE  NoOrphans'
    <2> SUFFICES ASSUME ~cut', NEW s \in Shops, NEW k \in Keys, NEW i \in MadeFor(s, k)',
                        i # keys'[s][k]
                 PROVE  \E v \in Workers : Holds(v, s, k, i)'
      BY DEF NoOrphans
    <2>1. CASE i = next
      <3>1. mem[w].shop = s /\ mem[w].key = k
        BY <1>3, <2>1 DEF Create, MadeFor, TypeOK
      <3>2. mem'[w] = [shop |-> s, key |-> k, id |-> i]
        BY <1>3, <2>1, <3>1 DEF Create, Hold, TypeOK, Request
      <3> QED
        BY <1>3, <3>2 DEF Create, Goto, TypeOK, Holds
    <2>2. CASE i # next
      <3>1. i \in MadeFor(s, k) /\ ~cut /\ i # keys[s][k]
        BY <1>3, <2>2 DEF Create, MadeFor, TypeOK
      <3>2. PICK v \in Workers : Holds(v, s, k, i)
        BY <3>1 DEF NoOrphans
      <3>3. v # w
        BY <1>3, <3>2 DEF Create, Holds
      <3> QED
        BY <1>3, <3>2, <3>3 DEF Create, Goto, Hold, TypeOK, Holds
    <2> QED
      BY <2>1, <2>2
  <1>4. ASSUME NEW w \in Workers, SetSource(w)
        PROVE  NoOrphans'
    <2>1. \A s \in Shops, k \in Keys, i \in Ids : Holds(w, s, k, i) => Holds(w, s, k, i)'
      BY <1>4, KeysAssumption DEF SetSource, Goto, TypeOK, Holds
    <2> QED
      BY <1>4, <2>1, OrphansAside DEF SetSource, Goto, TypeOK
  <1>5. ASSUME NEW w \in Workers, StoreKey(w)
        PROVE  NoOrphans'
    <2> SUFFICES ASSUME ~cut', NEW s \in Shops, NEW k \in Keys, NEW i \in MadeFor(s, k)',
                        i # keys'[s][k]
                 PROVE  \E v \in Workers : Holds(v, s, k, i)'
      BY DEF NoOrphans
    <2>1. i \in MadeFor(s, k) /\ ~cut /\ i \in Ids
      BY <1>5 DEF StoreKey, MadeFor
    <2>2. mem[w].shop \in Shops /\ mem[w].key \in Keys
      BY <1>5 DEF StoreKey, HandsOK
    <2>3. i # keys[s][k]
      <3>1. CASE s = mem[w].shop /\ k = mem[w].key
        BY <1>5, <2>1, <3>1, MaxDeliveriesAssumption DEF StoreKey, Existing, Ids
      <3>2. CASE ~(s = mem[w].shop /\ k = mem[w].key)
        BY <1>5, <3>2, <2>2 DEF StoreKey, TypeOK
      <3> QED
        BY <3>1, <3>2
    <2>4. PICK v \in Workers : Holds(v, s, k, i)
      BY <2>1, <2>3 DEF NoOrphans
    <2>5. v # w
      BY <1>5, <2>2, <2>4 DEF StoreKey, Holds, TypeOK
    <2> QED
      BY <1>5, <2>4, <2>5 DEF StoreKey, Goto, TypeOK, Holds
  <1>6. ASSUME NEW w \in Workers, KeyTaken(w)
        PROVE  NoOrphans'
    BY <1>6, OrphansAside DEF KeyTaken, Goto, TypeOK, Holds
  <1>7. ASSUME NEW w \in Workers, Yield(w)
        PROVE  NoOrphans'
    <2> SUFFICES ASSUME ~cut', NEW s \in Shops, NEW k \in Keys, NEW i \in MadeFor(s, k)',
                        i # keys'[s][k]
                 PROVE  \E v \in Workers : Holds(v, s, k, i)'
      BY DEF NoOrphans
    <2>1. i # mem[w].id
      BY <1>7, ShopsAssumption DEF Yield, MadeFor, TypeOK
    <2>2. i \in MadeFor(s, k) /\ ~cut /\ i # keys[s][k]
      BY <1>7, <2>1 DEF Yield, MadeFor, TypeOK
    <2>3. PICK v \in Workers : Holds(v, s, k, i)
      BY <2>2 DEF NoOrphans
    <2>4. v # w
      BY <2>1, <2>3 DEF Holds
    <2> QED
      BY <1>7, <2>3, <2>4 DEF Yield, Goto, Hold, TypeOK, Holds
  <1>8. ASSUME NEW w \in Workers, Reply(w)
        PROVE  NoOrphans'
    BY <1>8, OrphansAside DEF Reply, Goto, TypeOK, Holds
  <1>9. ASSUME NEW w \in Workers, Crash(w)
        PROVE  NoOrphans'
    BY <1>9 DEF Crash, NoOrphans
  <1>10. CASE UNCHANGED vars
    BY <1>10 DEF vars, NoOrphans, MadeFor, Holds
  <1> QED
    BY <1>1, <1>2, <1>3, <1>4, <1>5, <1>6, <1>7, <1>8, <1>9, <1>10 DEF Next, Work

(***************************************************************************)
(* No duplicate outlives the requests that made it: when all are served    *)
(* and none was cut short, a key has one delivery (the clash of            *)
(* ApiIdempotencyKey and delivery.delete).                                 *)
(***************************************************************************)
THEOREM NoDuplicates == Spec => []NoDuplicateLeft
  <1>1. Init => NoOrphans
    BY ShopsAssumption DEF Init, NoOrphans, MadeFor
  <1>2. NoOrphans => NoDuplicateLeft
    BY DEF NoOrphans, NoDuplicateLeft, Quiet, Holds
  <1> QED
    BY <1>1, <1>2, Invariant, OrphansStep, PTL DEF Spec

-----------------------------------------------------------------------------
(* A key's delivery is there, so what stands is what the rows of keys say. *)
LEMMA StandingIsKeys == IInv => Standing = keys
  <1> SUFFICES ASSUME IInv PROVE Standing = keys
    OBVIOUS
  <1>1. \A s \in Shops, k \in Keys : Standing[s][k] = keys[s][k]
    BY DEF Standing, IInv, KeysOK
  <1>2. keys = [s \in Shops |-> [k \in Keys |-> keys[s][k]]]
    BY DEF IInv, TypeOK
  <1>3. Standing = [s \in Shops |-> [k \in Keys |-> Standing[s][k]]]
    BY DEF Standing
  <1> QED
    BY <1>1, <1>2, <1>3

LEMMA SettleStep ==
  ASSUME IInv, NEW w \in Workers, StoreKey(w), Standing = keys, Standing' = keys'
  PROVE  \E s \in Shops, k \in Keys : Promise!Settle(s, k)
  <1> DEFINE s == mem[w].shop
             k == mem[w].key
             i == mem[w].id
  <1>1. s \in Shops /\ k \in Keys /\ i \in Ids /\ keys[s][k] = 0
    BY DEF IInv, StoreKey, HandsOK, Existing
  <1>2. \A t \in Shops, l \in Keys : keys[t][l] # i
    BY DEF IInv, StoreKey, OwnDelivery
  <1>3. keys' = [keys EXCEPT ![s] = [@ EXCEPT ![k] = i]] /\ answers' = answers
    BY DEF StoreKey
  <1> HIDE DEF s, k, i
  <1>4. Promise!Settle(s, k)
    BY <1>1, <1>2, <1>3 DEF Promise!Settle
  <1> QED
    BY <1>1, <1>4

LEMMA TellStep ==
  ASSUME IInv, NEW w \in Workers, Reply(w), Standing = keys, Standing' = keys'
  PROVE  Promise!vars' = Promise!vars \/ \E s \in Shops, k \in Keys : Promise!Tell(s, k)
  <1> DEFINE s == mem[w].shop
             k == mem[w].key
  <1>1. pc[w] = "answer" /\ keys' = keys /\ answers' = IF k = NoKey THEN answers ELSE answers \cup {mem[w]}
    BY DEF Reply
  <1>2. CASE k = NoKey
    BY <1>1, <1>2 DEF Promise!vars
  <1>3. CASE k # NoKey
    <2>1. s \in Shops /\ k \in Keys /\ mem[w].id = keys[s][k] /\ keys[s][k] # 0
      BY <1>1, <1>3 DEF IInv, HandsOK, TypeOK, Request, Headers, Existing
    <2>2. mem[w] = [shop |-> s, key |-> k, id |-> keys[s][k]]
      BY <2>1 DEF IInv, TypeOK, Request
    <2> HIDE DEF s, k
    <2>3. Promise!Tell(s, k)
      BY <1>1, <1>3, <2>1, <2>2 DEF Promise!Tell
    <2> QED
      BY <2>1, <2>3
  <1> QED
    BY <1>2, <1>3

LEMMA PromiseStep == IInv /\ IInv' /\ [Next]_vars => [Promise!Next]_Promise!vars
  <1> SUFFICES ASSUME IInv, IInv', [Next]_vars PROVE [Promise!Next]_Promise!vars
    OBVIOUS
  <1>1. Standing = keys
    BY StandingIsKeys
  <1>2. Standing' = keys'
    <2>1. (IInv => Standing = keys)'
      BY StandingIsKeys, PTL
    <2> QED
      BY <2>1
  <1>3. ASSUME UNCHANGED <<keys, answers>> PROVE UNCHANGED Promise!vars
    BY <1>1, <1>2, <1>3 DEF Promise!vars
  <1>4. ASSUME NEW w \in Workers, StoreKey(w) PROVE Promise!Next
    BY <1>1, <1>2, <1>4, SettleStep DEF Promise!Next
  <1>5. ASSUME NEW w \in Workers, Reply(w) PROVE [Promise!Next]_Promise!vars
    BY <1>1, <1>2, <1>5, TellStep DEF Promise!Next
  <1>6. ASSUME NEW w \in Workers,
               \/ \E s \in Shops, k \in Headers : Receive(w, s, k)
               \/ Lookup(w) \/ Create(w) \/ SetSource(w) \/ KeyTaken(w) \/ Yield(w) \/ Crash(w)
        PROVE  UNCHANGED <<keys, answers>>
    BY <1>6 DEF Receive, Lookup, Create, SetSource, KeyTaken, Yield, Crash
  <1>7. CASE UNCHANGED vars
    BY <1>3, <1>7 DEF vars
  <1> QED
    BY <1>3, <1>4, <1>5, <1>6, <1>7 DEF Next, Work

LEMMA PromiseInit == Init => Promise!Init
  <1> SUFFICES ASSUME Init PROVE Promise!Init
    OBVIOUS
  <1>1. Standing = keys
    BY InvInit, StandingIsKeys
  <1> QED
    BY <1>1 DEF Init, Promise!Init

(***************************************************************************)
(* POST /deliveries implements what it promises for a key: the delivery is *)
(* settled once, for one key, for good, and no other is ever told (the     *)
(* insert of ApiIdempotencyKey and its clash).                             *)
(***************************************************************************)
THEOREM Refinement == Spec => KeepsPromise
  BY PromiseInit, PromiseStep, Invariant, PTL DEF Spec, KeepsPromise, Promise!Spec

-----------------------------------------------------------------------------
(* The row of a key that a shop has revoked stays revoked. *)
WithdrawnOK == withdrawn \subseteq revoked

KeysInv == KeysTypeOK /\ WithdrawnOK

LEMMA KeysInit == ApiInit => KeysInv
  BY DEF ApiInit, KeysInv, KeysTypeOK, WithdrawnOK, Owners

LEMMA LeaveKeeps ==
  ASSUME KeysInv, NEW w \in Workers, Leave(w)
  PROVE  KeysInv'
  BY DEF Leave, KeysInv, KeysTypeOK, WithdrawnOK

LEMMA KeysStep == KeysInv /\ [ApiNext]_apiVars => KeysInv'
  <1> SUFFICES ASSUME KeysInv, [ApiNext]_apiVars PROVE KeysInv'
    OBVIOUS
  <1> USE DEF KeysInv, KeysTypeOK, WithdrawnOK
  <1>1. ASSUME NEW w \in Workers, NEW a \in ApiKeys, Authenticate(w, a)
        PROVE  KeysInv'
    BY <1>1 DEF Authenticate
  <1>2. ASSUME NEW w \in Workers, NEW k \in Headers, Accept(w, k)
        PROVE  KeysInv'
    BY <1>2 DEF Accept, keyVars
  <1>3. ASSUME NEW w \in Workers, NoteUse(w)
        PROVE  KeysInv'
    BY <1>3 DEF NoteUse
  <1>4. ASSUME NEW w \in Workers, Handle(w)
        PROVE  KeysInv'
    BY <1>4, LeaveKeeps DEF Handle, keyVars
  <1>5. ASSUME NEW w \in Workers, Die(w)
        PROVE  KeysInv'
    BY <1>5, LeaveKeeps DEF Die
  <1>6. ASSUME NEW a \in ApiKeys, Revoke(a)
        PROVE  KeysInv'
    BY <1>6 DEF Revoke
  <1>7. ASSUME NEW a \in ApiKeys, NEW s \in Shops, Generate(s, a)
        PROVE  KeysInv'
    BY <1>7 DEF Generate, Owners
  <1>8. CASE UNCHANGED apiVars
    BY <1>8 DEF apiVars, keyVars
  <1> QED
    BY <1>1, <1>2, <1>3, <1>4, <1>5, <1>6, <1>7, <1>8 DEF ApiNext

LEMMA KeysInvariant == ApiSpec => []KeysInv
  BY KeysInit, KeysStep, PTL DEF ApiSpec

(***************************************************************************)
(* A revoked key opens nothing again, whatever the requests it let in      *)
(* before still write to its row (resolve_shop, ApiKey.revoke).            *)
(***************************************************************************)
THEOREM RevocationIsFinal == ApiSpec => RevokedIsFinal
  <1>1. KeysInv /\ [ApiNext]_apiVars =>
          [\A a \in withdrawn, w \in Workers : auth[w] # a => auth'[w] # a]_apiVars
    <2> SUFFICES ASSUME KeysInv, ApiNext, NEW a \in withdrawn, NEW w \in Workers, auth[w] # a
                 PROVE  auth'[w] # a
      OBVIOUS
    <2> USE DEF KeysInv, KeysTypeOK, WithdrawnOK
    <2>1. a \in ApiKeys /\ a \in revoked /\ a # NoApiKey
      BY ApiKeysAssumption
    <2>2. ASSUME NEW v \in Workers, Leave(v) PROVE auth'[w] # a
      BY <2>1, <2>2 DEF Leave
    <2>3. ASSUME NEW v \in Workers, NEW b \in ApiKeys, Authenticate(v, b) PROVE auth'[w] # a
      BY <2>1, <2>3 DEF Authenticate
    <2> QED
      BY <2>2, <2>3 DEF ApiNext, Accept, NoteUse, Handle, Die, Revoke, Generate, keyVars
  <1> QED
    BY <1>1, KeysInvariant, PTL DEF ApiSpec, RevokedIsFinal

-----------------------------------------------------------------------------
(* The key that let a request in is some shop's. *)
IssuedOK ==
  \A w \in Workers :
    /\ w \in noted => auth[w] # NoApiKey
    /\ auth[w] # NoApiKey => issued[auth[w]] \in Shops

LEMMA IssuedStep == KeysInv /\ IssuedOK /\ [ApiNext]_apiVars => IssuedOK'
  <1> SUFFICES ASSUME KeysInv, IssuedOK, [ApiNext]_apiVars PROVE IssuedOK'
    OBVIOUS
  <1> USE DEF KeysInv, KeysTypeOK, IssuedOK
  <1>1. ASSUME NEW w \in Workers, Leave(w)
        PROVE  IssuedOK'
    BY <1>1 DEF Leave
  <1>2. ASSUME NEW w \in Workers, NEW a \in ApiKeys, Authenticate(w, a)
        PROVE  IssuedOK'
    BY <1>2 DEF Authenticate, Owners
  <1>3. ASSUME NEW a \in ApiKeys, NEW s \in Shops, Generate(s, a)
        PROVE  IssuedOK'
    BY <1>3 DEF Generate
  <1>4. ASSUME NEW w \in Workers, NoteUse(w)
        PROVE  IssuedOK'
    BY <1>4 DEF NoteUse
  <1>5. ASSUME UNCHANGED <<issued, auth, noted>>
        PROVE  IssuedOK'
    BY <1>5
  <1> QED
    BY <1>1, <1>2, <1>3, <1>4, <1>5
       DEF ApiNext, Accept, Handle, Die, Revoke, apiVars, keyVars

(***************************************************************************)
(* A step behind the keys is a step of POST /deliveries or none, so all    *)
(* that holds of the one holds of the other.                               *)
(***************************************************************************)
THEOREM BehindTheKeys == ApiSpec => Spec
  <1>1. ApiInit => Init /\ IssuedOK
    BY DEF ApiInit, IssuedOK
  <1>2. KeysInv /\ IssuedOK /\ [ApiNext]_apiVars => [Next]_vars
    <2> SUFFICES ASSUME IssuedOK, KeysInv, ApiNext PROVE [Next]_vars
      BY DEF apiVars
    <2>1. ASSUME NEW w \in Workers, NEW k \in Headers, Accept(w, k)
          PROVE  Next
      BY <2>1 DEF Accept, IssuedOK, Next
    <2>2. ASSUME NEW w \in Workers, Handle(w)
          PROVE  Next
      BY <2>2 DEF Handle, Next
    <2>3. ASSUME NEW w \in Workers, Die(w)
          PROVE  [Next]_vars
      BY <2>3 DEF Die, Next
    <2>4. ASSUME UNCHANGED vars
          PROVE  [Next]_vars
      BY <2>4
    <2> QED
      BY <2>1, <2>2, <2>3, <2>4 DEF ApiNext, Authenticate, NoteUse, Revoke, Generate
  <1> QED
    BY <1>1, <1>2, KeysInvariant, IssuedStep, PTL DEF ApiSpec, Spec

(***************************************************************************)
(* Behind the keys, too, an Idempotency-Key has one delivery, which every  *)
(* answer names, no duplicate outlives the requests that made it, and the  *)
(* promise of the key is kept (POST /deliveries behind resolve_shop).      *)
(***************************************************************************)
THEOREM SameKeyBehindTheKeys == ApiSpec => [](SameKeySameDelivery /\ NoDuplicateLeft) /\ KeepsPromise
  BY BehindTheKeys, SameKey, NoDuplicates, Refinement, PTL

================================================================================
