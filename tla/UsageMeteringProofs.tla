------------------------- MODULE UsageMeteringProofs -------------------------
(***************************************************************************)
(* Proofs about UsageMetering, for any number of server processes,         *)
(* threads, addresses, channels, months and ticks: the cache of addresses  *)
(* lies around the meter, the meter's counts relate to what was used, and  *)
(* the summary relates to the counts.                                      *)
(***************************************************************************)
EXTENDS UsageMetering, FiniteSetTheorems, WellFoundedInduction, TLAPS

(* What the proof needs of a job: it is a record, whatever its numbers. *)
Fields == {"metric", "address", "month", "shown", "slow"}
JobsOK ==
  /\ DOMAIN job = Workers
  /\ \A w \in Workers : DOMAIN job[w] = Fields /\ job[w].address \in SUBSET Addresses

(* An address was put in the cache when it is there, and it stays there. *)
StoredIsFound ==
  /\ found \in [Addresses -> Nat]
  /\ \A a \in Addresses : found[a] > 0 => a \in geocodes

IInv == JobsOK /\ StoredIsFound /\ KnownAddressIsFree

LEMMA AskingFinite ==
  ASSUME NEW a
  PROVE  /\ IsFiniteSet(Asking(a)) /\ Cardinality(Asking(a)) \in Nat
         /\ Cardinality(Workers) \in Nat /\ Cardinality(Asking(a)) <= Cardinality(Workers)
  <1>1. Asking(a) \subseteq Workers
    BY DEF Asking
  <1> QED
    BY <1>1, WorkersAssumption, FS_Subset, FS_CardinalityType

(* Steps that do not store: nobody asks anew for what is known. *)
LEMMA NotStored ==
  ASSUME IInv, UNCHANGED found, geocodes \subseteq geocodes', JobsOK',
         \A w \in Workers, a \in Addresses : a \in job'[w].address => a \in job[w].address \/ found[a] = 0
  PROVE  IInv'
  <1>1. StoredIsFound'
    BY DEF IInv, StoredIsFound
  <1>2. ASSUME NEW a \in Addresses, found'[a] > 0
        PROVE  found'[a] + Cardinality(Asking(a)') <= Cardinality(Workers)
    <2>1. found[a] \in Nat /\ found[a] > 0 /\ found'[a] = found[a]
      BY <1>2 DEF IInv, StoredIsFound
    <2>2. Asking(a)' \subseteq Asking(a)
      BY <2>1 DEF Asking
    <2>3. Cardinality(Asking(a)') <= Cardinality(Asking(a)) /\ Cardinality(Asking(a)') \in Nat
      BY <2>2, AskingFinite, FS_Subset, FS_CardinalityType
    <2>4. found[a] + Cardinality(Asking(a)) <= Cardinality(Workers)
      BY <2>1 DEF IInv, KnownAddressIsFree
    <2> QED
      BY <2>1, <2>3, <2>4, AskingFinite
  <1> QED
    BY <1>1, <1>2 DEF IInv, KnownAddressIsFree

LEMMA StoreStep ==
  ASSUME IInv, NEW w \in Workers, Store(w)
  PROVE  IInv'
  <1>1. JobsOK'
    BY DEF Store, End, NoJob, IInv, JobsOK, Fields
  <1>2. found' \in [Addresses -> Nat]
    BY DEF Store, IInv, StoredIsFound
  <1>3. \A a \in Addresses : found'[a] > 0 => a \in geocodes'
    BY DEF Store, IInv, StoredIsFound
  <1>4. job'[w].address = {} /\ \A v \in Workers \ {w} : job'[v] = job[v]
    BY DEF Store, End, NoJob, IInv, JobsOK
  <1>5. ASSUME NEW a \in Addresses, found'[a] > 0
        PROVE  found'[a] + Cardinality(Asking(a)') <= Cardinality(Workers)
    <2>1. Asking(a)' = Asking(a) \ {w}
      BY <1>4 DEF Asking
    <2>2. found[a] \in Nat /\ found'[a] = (IF w \in Asking(a) THEN found[a] + 1 ELSE found[a])
      BY DEF Store, IInv, StoredIsFound, Asking
    <2>3. found[a] + Cardinality(Asking(a)) <= Cardinality(Workers)
      BY <2>2, AskingFinite DEF IInv, KnownAddressIsFree
    <2>4. Cardinality(Asking(a)') = (IF w \in Asking(a) THEN Cardinality(Asking(a)) - 1 ELSE Cardinality(Asking(a)))
      BY <2>1, AskingFinite, FS_RemoveElement
    <2> QED
      BY <2>2, <2>3, <2>4, AskingFinite
  <1> QED
    BY <1>1, <1>2, <1>3, <1>5 DEF IInv, StoredIsFound, KnownAddressIsFree

LEMMA InvInit == Init => IInv
  <1> SUFFICES ASSUME Init PROVE IInv
    OBVIOUS
  <1>1. JobsOK
    BY DEF Init, NoJob, JobsOK, Fields
  <1>2. StoredIsFound /\ KnownAddressIsFree
    BY DEF Init, StoredIsFound, KnownAddressIsFree
  <1> QED
    BY <1>1, <1>2 DEF IInv

LEMMA InvStep == IInv /\ [Next]_vars => IInv'
  <1> SUFFICES ASSUME IInv, [Next]_vars PROVE IInv'
    OBVIOUS
  <1> USE DEF dbVars, historyVars
  <1>1. ASSUME UNCHANGED <<found, geocodes, job>> PROVE IInv'
    BY <1>1, NotStored DEF IInv, JobsOK
  <1>2. ASSUME NEW w \in Workers, End(w), UNCHANGED <<found, geocodes>> PROVE IInv'
    <2>1. JobsOK' /\ job'[w].address = {} /\ \A v \in Workers \ {w} : job'[v] = job[v]
      BY <1>2 DEF End, NoJob, IInv, JobsOK, Fields
    <2> QED
      BY <1>2, <2>1, NotStored
  <1>3. ASSUME NEW w \in Workers, NEW j, UNCHANGED <<found, geocodes>>, job' = [job EXCEPT ![w] = j],
               DOMAIN j = Fields, j.address \subseteq job[w].address
        PROVE  IInv'
    <2>1. JobsOK' /\ job'[w] = j /\ \A v \in Workers \ {w} : job'[v] = job[v]
      BY <1>3 DEF IInv, JobsOK
    <2> QED
      BY <1>3, <2>1, NotStored
  <1>4. ASSUME NEW w \in Workers, NEW a \in Addresses, GeocodeMiss(w, a) PROVE IInv'
    <2>1. /\ UNCHANGED <<found, geocodes>> /\ a \notin geocodes
          /\ job' = [job EXCEPT ![w] = [NoJob EXCEPT !.metric = "maps_geocode", !.address = {a}]]
      BY <1>4 DEF GeocodeMiss, Begin
    <2>2. JobsOK' /\ job'[w].address = {a} /\ \A v \in Workers \ {w} : job'[v] = job[v]
      BY <2>1 DEF NoJob, IInv, JobsOK, Fields
    <2>3. found[a] = 0
      BY <2>1 DEF IInv, StoredIsFound
    <2> QED
      BY <2>1, <2>2, <2>3, NotStored
  <1>5. ASSUME NEW w \in Workers, Route(w) \/ SummaryMiss(w) \/ \E c \in Channels : Send(w, c) PROVE IInv'
    <2>1. CASE SummaryMiss(w)
      <3>1. UNCHANGED <<found, geocodes>> /\ job' = [job EXCEPT ![w] = [NoJob EXCEPT !.month = Month(now)]]
        BY <2>1 DEF SummaryMiss, Begin
      <3>2. /\ DOMAIN [NoJob EXCEPT !.month = Month(now)] = Fields
            /\ [NoJob EXCEPT !.month = Month(now)].address = {}
        BY DEF NoJob, Fields
      <3> QED
        BY <1>3, <3>1, <3>2
    <2>2. CASE ~SummaryMiss(w)
      <3>1. PICK m : UNCHANGED <<found, geocodes>> /\ job' = [job EXCEPT ![w] = [NoJob EXCEPT !.metric = m]]
        BY <1>5, <2>2 DEF Route, Send, Begin
      <3>2. DOMAIN [NoJob EXCEPT !.metric = m] = Fields /\ [NoJob EXCEPT !.metric = m].address = {}
        BY DEF NoJob, Fields
      <3> QED
        BY <1>3, <3>1, <3>2
    <2> QED
      BY <2>1, <2>2
  <1>6. ASSUME NEW w \in Workers, RecordRow(w) \/ RecordCount(w) PROVE IInv'
    <2>1. UNCHANGED <<found, geocodes>>
      BY <1>6 DEF RecordRow, RecordCount
    <2>2. End(w) \/ \E k : job' = [job EXCEPT ![w] = [@ EXCEPT !.month = k]]
      BY <1>6 DEF RecordRow, RecordCount, AfterCount
    <2>3. ASSUME NEW k, job' = [job EXCEPT ![w] = [@ EXCEPT !.month = k]] PROVE IInv'
      <3>1. DOMAIN [job[w] EXCEPT !.month = k] = Fields /\ [job[w] EXCEPT !.month = k].address = job[w].address
        BY DEF IInv, JobsOK, Fields
      <3> QED
        BY <1>3, <2>1, <2>3, <3>1
    <2> QED
      BY <1>2, <2>1, <2>2, <2>3
  <1>7. ASSUME NEW w \in Workers, Geocode(w) \/ ComputeRoute(w) \/ Keep(w) \/ Crash(w) PROVE IInv'
    <2>1. UNCHANGED <<found, geocodes>> /\ (End(w) \/ UNCHANGED job)
      BY <1>7 DEF Geocode, ComputeRoute, Keep, Crash, Use
    <2> QED
      BY <1>1, <1>2, <2>1
  <1>8. ASSUME NEW w \in Workers, ReadViber(w) \/ ReadMaps(w) PROVE IInv'
    <2>1. PICK shown : UNCHANGED <<found, geocodes>> /\ job' = [job EXCEPT ![w] = [@ EXCEPT !.shown = shown]]
      BY <1>8 DEF ReadViber, ReadMaps, ReadBucket
    <2>2. DOMAIN [job[w] EXCEPT !.shown = shown] = Fields /\ [job[w] EXCEPT !.shown = shown].address = job[w].address
      BY DEF IInv, JobsOK, Fields
    <2> QED
      BY <1>3, <2>1, <2>2
  <1>9. ASSUME NEW p \in Processes, Restart(p) PROVE IInv'
    <2>1. /\ UNCHANGED <<found, geocodes>>
          /\ job' = [w \in Workers |-> IF w[1] = p THEN NoJob ELSE job[w]]
      BY <1>9 DEF Restart
    <2>2. JobsOK' /\ \A w \in Workers : job'[w].address \subseteq job[w].address
      BY <2>1 DEF NoJob, IInv, JobsOK, Fields
    <2> QED
      BY <2>1, <2>2, NotStored
  <1>10. CASE Tick
    <2>1. /\ UNCHANGED <<found, geocodes>>
          /\ job' = [w \in Workers |-> [job[w] EXCEPT !.slow = @ \/ pc[w] \in {"viber", "maps", "keep"}]]
      BY <1>10 DEF Tick
    <2>2. ASSUME NEW w \in Workers
          PROVE  DOMAIN job'[w] = Fields /\ job'[w].address = job[w].address
      BY <2>1, Zenon DEF IInv, JobsOK, Fields
    <2> QED
      BY <2>1, <2>2, NotStored DEF IInv, JobsOK
  <1>11. CASE UNCHANGED vars
    BY <1>1, <1>11 DEF vars
  <1> QED
    BY <1>4, <1>5, <1>6, <1>7, <1>8, <1>9, <1>10, <1>11, StoreStep DEF Next, Work

(***************************************************************************)
(* Once an address has been stored, only workers that had looked it up     *)
(* before still ask Maps for it (CachingMapsProvider around                *)
(* MeteredMapsProvider).                                                   *)
(***************************************************************************)
THEOREM PaidOnce == Spec => []KnownAddressIsFree
  <1>1. IInv => KnownAddressIsFree
    BY DEF IInv
  <1> QED
    BY <1>1, InvInit, InvStep, PTL DEF Spec

-----------------------------------------------------------------------------
(***************************************************************************)
(* Months and sums over months.                                            *)
(***************************************************************************)
LEMMA ProductGrows ==
  ASSUME NEW c \in Nat, NEW a \in Int, NEW b \in Int, a <= b
  PROVE  c * a <= c * b
  OBVIOUS

LEMMA MonthGrows ==
  ASSUME NEW s \in Nat, NEW t \in Nat, s <= t
  PROVE  Month(s) \in Nat /\ Month(s) <= Month(t)
  <1> DEFINE q == s \div MonthLength
             r == t \div MonthLength
  <1>1. MonthLength \in Nat /\ MonthLength > 0
    BY TimesAssumption
  <1>2. q \in Nat /\ MonthLength * q <= s
    BY <1>1
  <1>3. r \in Nat /\ t < MonthLength * (r + 1)
    BY <1>1
  <1> HIDE DEF q, r
  <1>4. ASSUME r + 1 <= q PROVE FALSE
    <2>1. MonthLength * (r + 1) <= MonthLength * q
      BY <1>1, <1>2, <1>3, <1>4, ProductGrows
    <2> QED
      BY <1>1, <1>2, <1>3, <2>1
  <1>5. q <= r
    BY <1>2, <1>3, <1>4
  <1> QED
    BY <1>2, <1>5 DEF Month, q, r

LEMMA MonthFacts ==
  /\ LastMonth \in Nat /\ 0 \in Months /\ LastMonth \in Months
  /\ \A t \in Times : t \in Nat /\ Month(t) \in Months /\ Month(t) \in Nat
  <1>1. LastTime \in Nat
    BY TimesAssumption
  <1>2. LastMonth \in Nat
    BY <1>1, MonthGrows DEF LastMonth
  <1>3. ASSUME NEW t \in Times PROVE t \in Nat /\ Month(t) \in Nat /\ Month(t) <= LastMonth
    BY <1>1, MonthGrows DEF Times, LastMonth
  <1> QED
    BY <1>2, <1>3 DEF Months

(* Induction over the natural numbers, for sets. *)
LEMMA Induction ==
  ASSUME NEW S, 0 \in S, \A n \in Nat : n \in S => n + 1 \in S
  PROVE  Nat \subseteq S
  <1> DEFINE T == Nat \ S
             R == OpToRel(<, Nat)
  <1>1. SUFFICES ASSUME T # {} PROVE FALSE
    OBVIOUS
  <1>2. \A x, y \in Nat : x < y => <<x, y>> \in R
    BY DEF OpToRel
  <1>3. PICK x \in T : \A y \in T : ~ (<<y, x>> \in R)
    <2>1. IsWellFoundedOn(R, Nat) /\ T \subseteq Nat
      BY NatLessThanWellFounded
    <2> HIDE DEF T, R
    <2> QED
      BY <1>1, <2>1, WFMin
  <1> HIDE DEF R
  <1>4. x # 0 /\ x - 1 \in Nat /\ x - 1 < x
    BY <1>3
  <1>5. x - 1 \notin T
    BY <1>2, <1>3, <1>4
  <1> QED
    BY <1>3, <1>4, <1>5

(* The running totals exist. *)
LEMMA SumsExist ==
  ASSUME NEW f, NEW m
  PROVE  \E s : s = [j \in Months |-> IF j = 0 THEN f[<<m, 0>>] ELSE s[j - 1] + f[<<m, j>>]]
  <1> DEFINE g(k, s) == [j \in 0..k |-> IF j = 0 THEN f[<<m, 0>>] ELSE s[j - 1] + f[<<m, j>>]]
             S == {k \in Nat : \E s : s = g(k, s)}
  <1>1. 0 \in S
    <2> DEFINE s == [j \in 0..0 |-> f[<<m, 0>>]]
    <2>1. s = g(0, s)
      OBVIOUS
    <2> QED
      BY <2>1
  <1>2. ASSUME NEW n \in Nat, n \in S PROVE n + 1 \in S
    <2>1. PICK s : s = g(n, s)
      BY <1>2
    <2> DEFINE t == [j \in 0..(n + 1) |-> IF j = n + 1 THEN s[n] + f[<<m, n + 1>>] ELSE s[j]]
    <2>2. \A j \in 0..n : s[j] = IF j = 0 THEN f[<<m, 0>>] ELSE s[j - 1] + f[<<m, j>>]
      BY <2>1
    <2>3. \A j \in 0..(n + 1) : t[j] = IF j = 0 THEN f[<<m, 0>>] ELSE t[j - 1] + f[<<m, j>>]
      BY <2>2
    <2>4. t = g(n + 1, t)
      BY <2>3
    <2>5. \E u : u = g(n + 1, u)
      <3> HIDE DEF g
      <3> QED
        BY <2>4
    <2> QED
      <3> HIDE DEF g
      <3> QED
        BY <2>5
  <1>3. LastMonth \in S
    <2> HIDE DEF S
    <2> QED
      BY <1>1, <1>2, Induction, MonthFacts
  <1> QED
    BY <1>3 DEF Months

(* The total up to a month: the first month's number, then one month more. *)
LEMMA TotalDef ==
  ASSUME NEW f, NEW m
  PROVE  /\ Total(f, m, 0) = f[<<m, 0>>]
         /\ \A k \in Months \ {0} : Total(f, m, k) = Total(f, m, k - 1) + f[<<m, k>>]
  <1> DEFINE sum == CHOOSE s : s = [j \in Months |-> IF j = 0 THEN f[<<m, 0>>] ELSE s[j - 1] + f[<<m, j>>]]
  <1>1. sum = [j \in Months |-> IF j = 0 THEN f[<<m, 0>>] ELSE sum[j - 1] + f[<<m, j>>]]
    <2> HIDE DEF Months
    <2> QED
      BY SumsExist
  <1>2. \A k : Total(f, m, k) = sum[k]
    BY DEF Total
  <1> HIDE DEF sum
  <1>3. sum[0] = f[<<m, 0>>]
    BY <1>1, MonthFacts DEF Months
  <1>4. ASSUME NEW k \in Months \ {0} PROVE sum[k] = sum[k - 1] + f[<<m, k>>]
    BY <1>1
  <1> QED
    BY <1>2, <1>3, <1>4

LEMMA MonthInduction ==
  ASSUME NEW S, 0 \in S, \A k \in Months \ {0} : k - 1 \in S => k \in S
  PROVE  Months \subseteq S
  <1> DEFINE T == {n \in Nat : n \in Months => n \in S}
  <1>1. 0 \in T
    OBVIOUS
  <1>2. ASSUME NEW n \in Nat, n \in T PROVE n + 1 \in T
    <2>1. n + 1 \in Months => n \in Months /\ n + 1 \in Months \ {0} /\ (n + 1) - 1 = n
      BY MonthFacts DEF Months
    <2> QED
      BY <1>2, <2>1
  <1>3. Nat \subseteq T
    <2> HIDE DEF T
    <2> QED
      BY <1>1, <1>2, Induction
  <1> QED
    BY <1>3 DEF Months

LEMMA TotalType ==
  ASSUME NEW f \in Counts, NEW m \in Metrics, NEW k \in Months
  PROVE  Total(f, m, k) \in Nat
  <1> DEFINE S == {j \in Months : Total(f, m, j) \in Nat}
  <1>1. \A j \in Months : f[<<m, j>>] \in Nat
    BY DEF Counts
  <1>2. 0 \in S
    BY <1>1, MonthFacts, TotalDef
  <1>3. ASSUME NEW j \in Months \ {0}, j - 1 \in S PROVE j \in S
    <2>1. Total(f, m, j) = Total(f, m, j - 1) + f[<<m, j>>]
      BY TotalDef
    <2> QED
      BY <1>1, <1>3, <2>1
  <1> HIDE DEF S
  <1>4. Months \subseteq S
    BY <1>2, <1>3, MonthInduction
  <1> QED
    BY <1>4 DEF S

(* Nothing adds up to nothing. *)
LEMMA TotalOfNothing ==
  ASSUME NEW f \in Counts, NEW m \in Metrics, \A mm \in Metrics \X Months : f[mm] = 0,
         NEW k \in Months
  PROVE  Total(f, m, k) = 0
  <1> DEFINE S == {j \in Months : Total(f, m, j) = 0}
  <1>1. \A j \in Months : f[<<m, j>>] = 0
    OBVIOUS
  <1>2. 0 \in S
    BY <1>1, MonthFacts, TotalDef
  <1>3. ASSUME NEW j \in Months \ {0}, j - 1 \in S PROVE j \in S
    <2>1. Total(f, m, j) = Total(f, m, j - 1) + f[<<m, j>>]
      BY TotalDef
    <2> QED
      BY <1>1, <1>3, <2>1
  <1> HIDE DEF S
  <1>4. Months \subseteq S
    BY <1>2, <1>3, MonthInduction
  <1> QED
    BY <1>4 DEF S

(* One more in a month is one more up to that month and up to any later one. *)
LEMMA TotalPlusOne ==
  ASSUME NEW f \in Counts, NEW c \in Metrics, NEW i \in Months,
         NEW m \in Metrics, NEW k \in Months
  PROVE  Total([f EXCEPT ![<<c, i>>] = @ + 1], m, k)
           = Total(f, m, k) + (IF m = c /\ i <= k THEN 1 ELSE 0)
  <1> DEFINE g == [f EXCEPT ![<<c, i>>] = @ + 1]
             S == {j \in Months : Total(g, m, j) = Total(f, m, j) + (IF m = c /\ i <= j THEN 1 ELSE 0)}
  <1>1. ASSUME NEW j \in Months
        PROVE  /\ f[<<m, j>>] \in Nat
               /\ g[<<m, j>>] = f[<<m, j>>] + (IF m = c /\ i = j THEN 1 ELSE 0)
    BY DEF Counts
  <1>2. \A j \in Months : j \in Nat /\ Total(f, m, j) \in Nat
    BY TotalType, MonthFacts DEF Months
  <1> HIDE DEF g
  <1>3. 0 \in S
    <2>1. Total(g, m, 0) = g[<<m, 0>>] /\ Total(f, m, 0) = f[<<m, 0>>]
      BY TotalDef
    <2>2. 0 \in Months /\ i \in Nat
      BY MonthFacts DEF Months
    <2> QED
      BY <1>1, <2>1, <2>2
  <1>4. ASSUME NEW j \in Months \ {0}, j - 1 \in S PROVE j \in S
    <2>1. /\ Total(g, m, j) = Total(g, m, j - 1) + g[<<m, j>>]
          /\ Total(f, m, j) = Total(f, m, j - 1) + f[<<m, j>>]
      BY TotalDef
    <2>2. Total(g, m, j - 1) = Total(f, m, j - 1) + (IF m = c /\ i <= j - 1 THEN 1 ELSE 0)
      BY <1>4
    <2> QED
      BY <1>1, <1>2, <1>4, <2>1, <2>2
  <1>5. Months \subseteq S
    <2> HIDE DEF S
    <2> QED
      BY <1>3, <1>4, MonthInduction
  <1> QED
    BY <1>5 DEF g

-----------------------------------------------------------------------------
(***************************************************************************)
(* The workers that have counted a call to Maps and not made it, and those *)
(* that will count a message taken by month k at the latest.               *)
(***************************************************************************)
Calling(m) == {w \in Workers : pc[w] = "call" /\ job[w].metric = m}

Due(c, k) ==
  {w \in Workers :
     /\ job[w].metric = c
     /\ \/ pc[w] = "row" /\ Month(now) <= k
        \/ pc[w] = "count" /\ job[w].month <= k}

JobsPlaced ==
  \A w \in Workers :
    /\ pc[w] \in {"row", "count"} => job[w].metric \in Metrics
    /\ pc[w] = "count" => job[w].month <= Month(now)

(* The count covers the calls made and, from this month on, those to come. *)
MapsCovered ==
  \A m \in MapsMetrics, k \in Months :
    Total(used, m, k) + (IF Month(now) <= k THEN Cardinality(Calling(m)) ELSE 0)
      <= Total(count, m, k)

(* What was taken covers what is counted and what is still to be counted. *)
MessagesCovered ==
  \A c \in Channels :
    /\ \A k \in Months : Total(count, c, k) + Cardinality(Due(c, k)) <= Total(used, c, k)
    /\ ~lost => Total(count, c, LastMonth) + Cardinality(Due(c, LastMonth)) = Total(used, c, LastMonth)

(* No bucket ever shrinks. *)
PastBelow ==
  \A n \in 1..Ttl, b \in Buckets, k \in Months : InBucket(past[n], b, k) <= InBucket(count, b, k)

(* What a worker has read in this tick is between what was and what is. *)
HasRead(w, b) == pc[w] = "keep" \/ (pc[w] = "maps" /\ b = "viber")

JobsRecent ==
  \A w \in Workers : pc[w] \in {"viber", "maps", "keep"} /\ ~job[w].slow =>
    /\ job[w].month = Month(now)
    /\ \A b \in Buckets : HasRead(w, b) =>
         /\ \A n \in 1..Ttl : InBucket(past[n], b, Month(now)) <= job[w].shown[b]
         /\ job[w].shown[b] <= InBucket(count, b, Month(now))

(* A live summary was kept at expires - Ttl, and read in the same tick. *)
SummaryRecent ==
  \A p \in Processes : Live(p) /\ ~summary[p].slow =>
    /\ Ttl <= summary[p].expires /\ summary[p].expires <= now + Ttl
    /\ \A b \in Buckets :
         /\ \A n \in 1..Ttl : now + Ttl < n + summary[p].expires =>
              InBucket(past[n], b, Month(summary[p].expires - Ttl)) <= summary[p].shown[b]
         /\ summary[p].shown[b] <= InBucket(count, b, Month(summary[p].expires - Ttl))

CountInv ==
  /\ TypeOK /\ JobsPlaced
  /\ MapsCovered /\ MessagesCovered
  /\ PastBelow /\ JobsRecent /\ SummaryRecent

-----------------------------------------------------------------------------
(* Every statement moves one worker on and gives it a job. *)
Moves(w, place, j) == pc' = [pc EXCEPT ![w] = place] /\ job' = [job EXCEPT ![w] = j]

LEMMA MoveTypes ==
  ASSUME TypeOK, NEW w \in Workers, NEW place \in Places, NEW j \in Job, Moves(w, place, j)
  PROVE  /\ pc' \in [Workers -> Places] /\ job' \in [Workers -> Job]
         /\ pc'[w] = place /\ job'[w] = j
         /\ \A v \in Workers : v # w => pc'[v] = pc[v] /\ job'[v] = job[v]
  BY DEF TypeOK, Moves

LEMMA BucketTypes ==
  ASSUME NEW f \in Counts, NEW b \in Buckets, NEW k \in Months
  PROVE  InBucket(f, b, k) \in Nat
  <1>1. "viber" \in Metrics /\ "maps_geocode" \in Metrics /\ "maps_route" \in Metrics
    BY ChannelsAssumption DEF Metrics, MapsMetrics
  <1>2. CASE b = "viber"
    <2>1. LastMonth \in Months
      BY MonthFacts
    <2> QED
      BY <1>1, <1>2, <2>1, TotalType DEF InBucket
  <1>3. CASE b # "viber"
    <2>1. f[<<"maps_geocode", k>>] \in Nat /\ f[<<"maps_route", k>>] \in Nat
      BY <1>1 DEF Counts
    <2> QED
      BY <1>3, <2>1 DEF InBucket
  <1> QED
    BY <1>2, <1>3

LEMMA JobTypes ==
  /\ NoJob \in Job /\ NoJob.metric = "none" /\ NoJob.slow = FALSE /\ NoJob.month = 0
  /\ \A m \in Metrics : /\ [NoJob EXCEPT !.metric = m] \in Job
                        /\ [NoJob EXCEPT !.metric = m].metric = m
  /\ \A m \in Metrics, a \in Addresses : /\ [NoJob EXCEPT !.metric = m, !.address = {a}] \in Job
                                         /\ [NoJob EXCEPT !.metric = m, !.address = {a}].metric = m
  /\ \A k \in Months : [NoJob EXCEPT !.month = k] \in Job /\ [NoJob EXCEPT !.month = k].month = k
  BY MonthFacts DEF NoJob, Job, Used, NothingUsed

LEMMA JobChanges ==
  ASSUME NEW j \in Job
  PROVE  /\ j.metric \in Metrics \cup {"none"} /\ j.month \in Months /\ j.shown \in Used /\ j.slow \in BOOLEAN
         /\ j.address \in SUBSET Addresses
         /\ \A k \in Months : /\ [j EXCEPT !.month = k] \in Job
                              /\ [j EXCEPT !.month = k].month = k
                              /\ [j EXCEPT !.month = k].metric = j.metric
                              /\ [j EXCEPT !.month = k].slow = j.slow
                              /\ [j EXCEPT !.month = k].shown = j.shown
         /\ \A u \in Used : /\ [j EXCEPT !.shown = u] \in Job
                            /\ [j EXCEPT !.shown = u].shown = u
                            /\ [j EXCEPT !.shown = u].metric = j.metric
                            /\ [j EXCEPT !.shown = u].slow = j.slow
                            /\ [j EXCEPT !.shown = u].month = j.month
  BY DEF Job

LEMMA SlowJob ==
  ASSUME NEW j \in Job, NEW b \in BOOLEAN
  PROVE  /\ [j EXCEPT !.slow = b] \in Job
         /\ [j EXCEPT !.slow = b].slow = b
         /\ [j EXCEPT !.slow = b].metric = j.metric
         /\ [j EXCEPT !.slow = b].month = j.month
         /\ [j EXCEPT !.slow = b].shown = j.shown
  BY DEF Job

-----------------------------------------------------------------------------
(* What a step leaves to be counted or called, whoever takes it. *)
LEMMA PendingFinite ==
  ASSUME NEW S \in SUBSET Workers
  PROVE  IsFiniteSet(S) /\ Cardinality(S) \in Nat
         /\ \A T \in SUBSET S : IsFiniteSet(T) /\ Cardinality(T) \in Nat /\ Cardinality(T) <= Cardinality(S)
  BY WorkersAssumption, FS_Subset, FS_CardinalityType

LEMMA CountTypes ==
  ASSUME TypeOK
  PROVE  /\ \A m \in Metrics, k \in Months : Total(count, m, k) \in Nat /\ Total(used, m, k) \in Nat
         /\ now \in Nat /\ Month(now) \in Months /\ \A k \in Months : k \in Nat /\ k <= LastMonth
         /\ count \in Counts /\ used \in Counts
  <1>1. count \in Counts /\ used \in Counts
    BY DEF TypeOK, Counts
  <1>2. now \in Nat /\ Month(now) \in Months
    BY MonthFacts DEF TypeOK
  <1>3. \A k \in Months : k \in Nat /\ k <= LastMonth
    BY MonthFacts DEF Months
  <1> QED
    BY <1>1, <1>2, <1>3, TotalType

LEMMA MetricKinds ==
  /\ MapsMetrics \subseteq Metrics /\ Channels \subseteq Metrics
  /\ MapsMetrics \cap Channels = {} /\ Metrics = MapsMetrics \cup Channels
  BY ChannelsAssumption DEF Metrics, MapsMetrics

LEMMA MapsKept ==
  ASSUME TypeOK, TypeOK', MapsCovered, Month(now) <= Month(now'),
         \A m \in MapsMetrics, k \in Months : /\ Total(used', m, k) = Total(used, m, k)
                                              /\ Total(count', m, k) = Total(count, m, k),
         \A m \in MapsMetrics : Calling(m)' \subseteq Calling(m)
  PROVE  MapsCovered'
  <1>1. ASSUME NEW m \in MapsMetrics, NEW k \in Months
        PROVE  Total(used', m, k) + (IF Month(now') <= k THEN Cardinality(Calling(m)') ELSE 0)
                 <= Total(count', m, k)
    <2>1. Calling(m) \in SUBSET Workers
      BY DEF Calling
    <2>2. Cardinality(Calling(m)') <= Cardinality(Calling(m)) /\ Cardinality(Calling(m)') \in Nat
          /\ Cardinality(Calling(m)) \in Nat
      BY <2>1, PendingFinite
    <2>3. Total(used, m, k) \in Nat /\ Total(count, m, k) \in Nat /\ k \in Nat /\ Month(now) \in Nat
      BY CountTypes, MetricKinds, MonthFacts
    <2>4. Month(now') \in Nat
      BY MonthFacts DEF TypeOK
    <2>5. Total(used, m, k) + (IF Month(now) <= k THEN Cardinality(Calling(m)) ELSE 0) <= Total(count, m, k)
      BY DEF MapsCovered
    <2> QED
      BY <2>2, <2>3, <2>4, <2>5
  <1> QED
    BY <1>1 DEF MapsCovered

LEMMA MessagesKept ==
  ASSUME TypeOK, MessagesCovered,
         \A c \in Channels, k \in Months : /\ Total(used', c, k) = Total(used, c, k)
                                           /\ Total(count', c, k) = Total(count, c, k)
                                           /\ Due(c, k)' \subseteq Due(c, k),
         ~lost' => ~lost /\ \A c \in Channels : Due(c, LastMonth)' = Due(c, LastMonth)
  PROVE  MessagesCovered'
  <1>1. ASSUME NEW c \in Channels, NEW k \in Months
        PROVE  Total(count', c, k) + Cardinality(Due(c, k)') <= Total(used', c, k)
    <2>1. Due(c, k) \in SUBSET Workers
      BY DEF Due
    <2>2. Cardinality(Due(c, k)') <= Cardinality(Due(c, k)) /\ Cardinality(Due(c, k)') \in Nat
          /\ Cardinality(Due(c, k)) \in Nat
      BY <2>1, PendingFinite
    <2>3. Total(used, c, k) \in Nat /\ Total(count, c, k) \in Nat
      BY CountTypes, MetricKinds
    <2> QED
      BY <2>2, <2>3 DEF MessagesCovered
  <1>2. ASSUME NEW c \in Channels, ~lost'
        PROVE  Total(count', c, LastMonth) + Cardinality(Due(c, LastMonth)') = Total(used', c, LastMonth)
    <2>1. LastMonth \in Months
      BY MonthFacts
    <2> QED
      BY <1>2, <2>1 DEF MessagesCovered
  <1> QED
    BY <1>1, <1>2 DEF MessagesCovered

(* A statement of one worker that counts nothing and uses nothing. *)
LEMMA QuietMove ==
  ASSUME CountInv, TypeOK', UNCHANGED <<now, count, used>>,
         NEW w \in Workers, NEW place \in Places, NEW j \in Job, Moves(w, place, j),
         place # "call", place # "count", place = "row" => j.metric \in MapsMetrics,
         lost' = (lost \/ Uncounted(w))
  PROVE  JobsPlaced' /\ MapsCovered' /\ MessagesCovered'
  <1> USE DEF CountInv
  <1>1. /\ pc'[w] = place /\ job'[w] = j
        /\ \A v \in Workers : v # w => pc'[v] = pc[v] /\ job'[v] = job[v]
    BY MoveTypes
  <1>2. JobsPlaced'
    BY <1>1, MetricKinds DEF JobsPlaced
  <1>3. \A m \in MapsMetrics : Calling(m)' \subseteq Calling(m)
    BY <1>1 DEF Calling
  <1>4. MapsCovered'
    <2>1. Month(now) <= Month(now')
      BY MonthFacts DEF TypeOK
    <2> QED
      BY <1>3, <2>1, MapsKept
  <1>5. ASSUME NEW c \in Channels, NEW k \in Months
        PROVE  /\ Due(c, k)' \subseteq Due(c, k)
               /\ ~lost' => Due(c, k)' = Due(c, k)
    BY <1>1, MetricKinds DEF Due, Uncounted
  <1>6. MessagesCovered'
    <2>1. ~lost' => ~lost /\ \A c \in Channels : Due(c, LastMonth)' = Due(c, LastMonth)
      BY <1>5, MonthFacts
    <2>2. \A c \in Channels, k \in Months : /\ Total(used', c, k) = Total(used, c, k)
                                            /\ Total(count', c, k) = Total(count, c, k)
                                            /\ Due(c, k)' \subseteq Due(c, k)
      BY <1>5
    <2> QED
      BY <2>1, <2>2, MessagesKept
  <1> QED
    BY <1>2, <1>4, <1>6

LEMMA ShownTypes ==
  ASSUME TypeOK
  PROVE  /\ \A n \in 1..Ttl, b \in Buckets, k \in Months : InBucket(past[n], b, k) \in Nat
         /\ \A b \in Buckets, k \in Months : InBucket(count, b, k) \in Nat
         /\ \A w \in Workers, b \in Buckets : job[w].shown[b] \in Nat
         /\ \A p \in Processes, b \in Buckets : summary[p].shown[b] \in Nat
         /\ \A p \in Processes : summary[p].expires \in Nat
  <1>1. \A u \in Used, b \in Buckets : u[b] \in Nat
    BY DEF Used
  <1>2. /\ \A n \in 1..Ttl : past[n] \in Counts
        /\ count \in Counts
    BY DEF TypeOK
  <1>3. \A w \in Workers : job[w].shown \in Used
    BY JobChanges DEF TypeOK
  <1>4. \A p \in Processes : summary[p].shown \in Used /\ summary[p].expires \in Nat
    BY TimesAssumption DEF TypeOK
  <1> QED
    BY <1>1, <1>2, <1>3, <1>4, BucketTypes

(* The month a live summary is about. *)
LEMMA KeptMonth ==
  ASSUME TypeOK, NEW p \in Processes, Ttl <= summary[p].expires, summary[p].expires <= now + Ttl
  PROVE  /\ summary[p].expires - Ttl \in Times /\ summary[p].expires - Ttl \in Nat
         /\ summary[p].expires - Ttl <= now
         /\ Month(summary[p].expires - Ttl) \in Months
  <1>1. summary[p].expires \in Nat /\ Ttl \in Nat /\ now \in 0..LastTime /\ LastTime \in Nat
    BY ShownTypes, TimesAssumption DEF TypeOK, Times
  <1>2. summary[p].expires - Ttl \in Times
    BY <1>1 DEF Times
  <1> QED
    BY <1>1, <1>2, MonthFacts

(* A step in which no bucket shrinks and nobody reads or keeps a summary. *)
LEMMA SummaryKept ==
  ASSUME CountInv, TypeOK', now' = now, past' = past,
         \A b \in Buckets, k \in Months : InBucket(count, b, k) <= InBucket(count', b, k),
         \A v \in Workers : pc'[v] \in {"viber", "maps", "keep"} =>
           \/ pc'[v] = pc[v] /\ job'[v] = job[v]
           \/ pc'[v] = "viber" /\ job'[v].month = Month(now),
         \A p \in Processes : summary'[p] = summary[p] \/ summary'[p] = NoSummary
  PROVE  PastBelow' /\ JobsRecent' /\ SummaryRecent'
  <1>1. TypeOK /\ PastBelow /\ JobsRecent /\ SummaryRecent
    BY DEF CountInv
  <1>2. Month(now) \in Months /\ now \in Nat /\ Ttl \in Nat
    BY <1>1, MonthFacts, CountTypes, TimesAssumption
  <1>3. \A b \in Buckets, k \in Months :
          /\ InBucket(count, b, k) \in Nat /\ InBucket(count', b, k) \in Nat
          /\ \A n \in 1..Ttl : InBucket(past[n], b, k) \in Nat
    <2>1. count' \in Counts
      BY DEF TypeOK
    <2> QED
      BY <1>1, <2>1, ShownTypes, BucketTypes
  <1>4. PastBelow'
    BY <1>1, <1>3 DEF PastBelow
  <1>5. ASSUME NEW w \in Workers, pc'[w] \in {"viber", "maps", "keep"}, ~job'[w].slow
        PROVE  /\ job'[w].month = Month(now)
               /\ \A b \in Buckets : HasRead(w, b)' =>
                    /\ \A n \in 1..Ttl : InBucket(past[n], b, Month(now)) <= job'[w].shown[b]
                    /\ job'[w].shown[b] <= InBucket(count', b, Month(now))
    <2>1. CASE pc'[w] = "viber" /\ job'[w].month = Month(now)
      BY <2>1 DEF HasRead
    <2>2. CASE pc'[w] = pc[w] /\ job'[w] = job[w]
      <3>1. job[w].month = Month(now)
        BY <1>1, <1>5, <2>2 DEF JobsRecent
      <3>2. ASSUME NEW b \in Buckets, HasRead(w, b)'
            PROVE  /\ \A n \in 1..Ttl : InBucket(past[n], b, Month(now)) <= job[w].shown[b]
                   /\ job[w].shown[b] <= InBucket(count, b, Month(now))
                   /\ job[w].shown[b] \in Nat
        <4>1. HasRead(w, b)
          BY <2>2, <3>2 DEF HasRead
        <4> QED
          BY <1>1, <1>5, <2>2, <4>1, ShownTypes DEF JobsRecent
      <3>3. ASSUME NEW b \in Buckets, HasRead(w, b)'
            PROVE  job[w].shown[b] <= InBucket(count', b, Month(now))
        BY <1>2, <1>3, <3>2, <3>3
      <3> QED
        BY <2>2, <3>1, <3>2, <3>3
    <2> QED
      BY <1>5, <2>1, <2>2
  <1>6. JobsRecent'
    BY <1>5 DEF JobsRecent
  <1>7. ASSUME NEW p \in Processes, now < summary'[p].expires, ~summary'[p].slow
        PROVE  LET e == summary'[p].expires
               IN  /\ Ttl <= e /\ e <= now + Ttl
                   /\ \A b \in Buckets :
                        /\ \A n \in 1..Ttl : now + Ttl < n + e =>
                             InBucket(past[n], b, Month(e - Ttl)) <= summary'[p].shown[b]
                        /\ summary'[p].shown[b] <= InBucket(count', b, Month(e - Ttl))
    <2>1. summary'[p] = summary[p] /\ Live(p) /\ ~summary[p].slow
      BY <1>2, <1>7 DEF NoSummary, Live
    <2>2. /\ Ttl <= summary[p].expires /\ summary[p].expires <= now + Ttl
          /\ \A b \in Buckets :
               /\ \A n \in 1..Ttl : now + Ttl < n + summary[p].expires =>
                    InBucket(past[n], b, Month(summary[p].expires - Ttl)) <= summary[p].shown[b]
               /\ summary[p].shown[b] <= InBucket(count, b, Month(summary[p].expires - Ttl))
      BY <1>1, <2>1 DEF SummaryRecent
    <2>3. Month(summary[p].expires - Ttl) \in Months
      BY <1>1, <2>2, KeptMonth
    <2>4. ASSUME NEW b \in Buckets
          PROVE  summary[p].shown[b] <= InBucket(count', b, Month(summary[p].expires - Ttl))
      <3>1. summary[p].shown[b] \in Nat
        BY <1>1, ShownTypes
      <3> QED
        BY <1>3, <2>2, <2>3, <3>1
    <2> QED
      BY <2>1, <2>2, <2>4
  <1>8. SummaryRecent'
    BY <1>7 DEF SummaryRecent, Live
  <1> QED
    BY <1>4, <1>6, <1>8

(* Without a change of the counts the buckets stay as they are. *)
LEMMA BucketsStay ==
  ASSUME TypeOK, UNCHANGED count
  PROVE  \A b \in Buckets, k \in Months : InBucket(count, b, k) <= InBucket(count', b, k)
  BY ShownTypes

(* Such a statement when, moreover, no summary is read or kept. *)
LEMMA QuietStep ==
  ASSUME CountInv, UNCHANGED <<now, count, used, past>>,
         geocodes' \subseteq Addresses, found' \in [Addresses -> Nat],
         NEW w \in Workers, NEW place \in Places, NEW j \in Job, Moves(w, place, j),
         place \notin {"call", "count", "maps", "keep"}, place = "row" => j.metric \in MapsMetrics,
         place = "viber" => j.month = Month(now),
         lost' = (lost \/ Uncounted(w)), summary' = summary
  PROVE  CountInv'
  <1>1. TypeOK
    BY DEF CountInv
  <1>2. /\ pc' \in [Workers -> Places] /\ job' \in [Workers -> Job]
        /\ pc'[w] = place /\ job'[w] = j
        /\ \A v \in Workers : v # w => pc'[v] = pc[v] /\ job'[v] = job[v]
    BY <1>1, MoveTypes
  <1>3. lost' \in BOOLEAN
    BY <1>1 DEF TypeOK, Uncounted
  <1>4. TypeOK'
    BY <1>1, <1>2, <1>3 DEF TypeOK
  <1>5. JobsPlaced' /\ MapsCovered' /\ MessagesCovered'
    BY <1>4, QuietMove
  <1>6. PastBelow' /\ JobsRecent' /\ SummaryRecent'
    BY <1>1, <1>2, <1>4, BucketsStay, SummaryKept
  <1> QED
    BY <1>4, <1>5, <1>6 DEF CountInv

LEMMA StartStep ==
  ASSUME CountInv, NEW w \in Workers, Route(w) \/ SummaryMiss(w) \/ \E a \in Addresses : GeocodeMiss(w, a)
  PROVE  CountInv'
  <1>1. TypeOK /\ geocodes' \subseteq Addresses /\ found' \in [Addresses -> Nat]
    BY DEF CountInv, TypeOK, Route, SummaryMiss, GeocodeMiss, dbVars, historyVars
  <1>2. /\ UNCHANGED <<now, count, used, past>> /\ summary' = summary
        /\ pc[w] = "idle" /\ lost' = (lost \/ Uncounted(w))
    BY <1>1 DEF TypeOK, Route, SummaryMiss, GeocodeMiss, Begin, Uncounted, dbVars, historyVars
  <1>3. CASE SummaryMiss(w)
    <2> DEFINE j == [NoJob EXCEPT !.month = Month(now)]
    <2>1. Moves(w, "viber", j)
      BY <1>3 DEF SummaryMiss, Begin, Goto, Moves
    <2>2. j \in Job /\ j.month = Month(now)
      BY <1>1, JobTypes, MonthFacts DEF TypeOK
    <2> HIDE DEF j
    <2> QED
      BY <1>1, <1>2, <2>1, <2>2, QuietStep DEF Places
  <1>4. CASE Route(w)
    <2> DEFINE j == [NoJob EXCEPT !.metric = "maps_route"]
    <2>1. Moves(w, "row", j)
      BY <1>4 DEF Route, Begin, Goto, Moves
    <2>2. j \in Job /\ j.metric \in MapsMetrics
      BY JobTypes DEF Metrics, MapsMetrics
    <2> HIDE DEF j
    <2> QED
      BY <1>1, <1>2, <2>1, <2>2, QuietStep DEF Places
  <1>5. ASSUME NEW a \in Addresses, GeocodeMiss(w, a) PROVE CountInv'
    <2> DEFINE j == [NoJob EXCEPT !.metric = "maps_geocode", !.address = {a}]
    <2>1. Moves(w, "row", j)
      BY <1>5 DEF GeocodeMiss, Begin, Goto, Moves
    <2>2. j \in Job /\ j.metric \in MapsMetrics
      BY JobTypes DEF Metrics, MapsMetrics
    <2> HIDE DEF j
    <2> QED
      BY <1>1, <1>2, <2>1, <2>2, QuietStep DEF Places
  <1> QED
    BY <1>3, <1>4, <1>5

LEMMA EndStep ==
  ASSUME CountInv, NEW w \in Workers, Store(w) \/ Crash(w)
  PROVE  CountInv'
  <1>1. TypeOK
    BY DEF CountInv
  <1>2. geocodes' \subseteq Addresses /\ found' \in [Addresses -> Nat]
    <2>1. job[w].address \subseteq Addresses
      BY <1>1, JobChanges DEF TypeOK
    <2>2. \A a \in Addresses : found[a] \in Nat /\ found[a] + 1 \in Nat
      BY <1>1 DEF TypeOK
    <2> QED
      BY <1>1, <2>1, <2>2 DEF TypeOK, Store, Crash, dbVars
  <1>3. /\ UNCHANGED <<now, count, used, past>> /\ summary' = summary
        /\ Moves(w, "idle", NoJob) /\ lost' = (lost \/ Uncounted(w))
    BY <1>1 DEF TypeOK, Store, Crash, End, Goto, Moves, Uncounted, dbVars
  <1> QED
    BY <1>2, <1>3, JobTypes, QuietStep DEF Places

(* One more use adds one to the totals from this month on. *)
LEMMA UseTotals ==
  ASSUME TypeOK, NEW c \in Metrics, Use(c)
  PROVE  /\ used' \in Counts
         /\ \A m \in Metrics, k \in Months :
              Total(used', m, k) = Total(used, m, k) + (IF m = c /\ Month(now) <= k THEN 1 ELSE 0)
  <1>1. used \in Counts /\ Month(now) \in Months
    BY CountTypes
  <1>2. used' = [used EXCEPT ![<<c, Month(now)>>] = @ + 1]
    BY DEF Use
  <1>3. used' \in Counts
    BY <1>1, <1>2 DEF Counts
  <1> QED
    BY <1>1, <1>2, <1>3, TotalPlusOne

LEMMA SendStep ==
  ASSUME CountInv, NEW w \in Workers, NEW c \in Channels, Send(w, c)
  PROVE  CountInv'
  <1> DEFINE j == [NoJob EXCEPT !.metric = c]
  <1>1. /\ TypeOK /\ c \in Metrics /\ c \notin MapsMetrics /\ pc[w] = "idle"
        /\ UNCHANGED <<now, count, geocodes, summary, found, lost, past>>
        /\ Use(c) /\ Moves(w, "row", j)
    BY MetricKinds DEF CountInv, Send, Begin, Goto, Moves, dbVars
  <1>2. j \in Job /\ j.metric = c
    BY <1>1, JobTypes
  <1> HIDE DEF j
  <1>3. /\ pc' \in [Workers -> Places] /\ job' \in [Workers -> Job]
        /\ pc'[w] = "row" /\ job'[w] = j
        /\ \A v \in Workers : v # w => pc'[v] = pc[v] /\ job'[v] = job[v]
    BY <1>1, <1>2, MoveTypes DEF Places
  <1>4. TypeOK'
    BY <1>1, <1>3, UseTotals DEF TypeOK, Counts
  <1>5. JobsPlaced'
    BY <1>1, <1>2, <1>3 DEF CountInv, JobsPlaced
  <1>6. MapsCovered'
    <2>1. \A m \in MapsMetrics : Calling(m)' \subseteq Calling(m)
      BY <1>3 DEF Calling
    <2>2. \A m \in MapsMetrics, k \in Months : /\ Total(used', m, k) = Total(used, m, k)
                                               /\ Total(count', m, k) = Total(count, m, k)
      <3>1. ASSUME NEW m \in MapsMetrics, NEW k \in Months PROVE Total(used', m, k) = Total(used, m, k)
        BY <1>1, UseTotals, CountTypes, MetricKinds
      <3> QED
        BY <1>1, <3>1
    <2>3. Month(now) <= Month(now')
      BY <1>1, MonthFacts DEF TypeOK
    <2> QED
      BY <1>1, <1>4, <2>1, <2>2, <2>3, MapsKept DEF CountInv
  <1>7. ASSUME NEW x \in Channels, NEW k \in Months
        PROVE  /\ Cardinality(Due(x, k)') = Cardinality(Due(x, k)) + (IF x = c /\ Month(now) <= k THEN 1 ELSE 0)
               /\ Cardinality(Due(x, k)) \in Nat
    <2>1. IsFiniteSet(Due(x, k)) /\ Cardinality(Due(x, k)) \in Nat /\ w \notin Due(x, k)
      <3>1. Due(x, k) \in SUBSET Workers /\ w \notin Due(x, k)
        BY <1>1 DEF Due
      <3> QED
        BY <3>1, PendingFinite
    <2>2. Due(x, k)' = IF x = c /\ Month(now) <= k THEN Due(x, k) \cup {w} ELSE Due(x, k)
      BY <1>1, <1>2, <1>3 DEF Due
    <2>3. CASE x = c /\ Month(now) <= k
      <3>1. Due(x, k)' = Due(x, k) \cup {w}
        BY <2>2, <2>3
      <3> QED
        BY <2>1, <2>3, <3>1, FS_AddElement
    <2>4. CASE ~(x = c /\ Month(now) <= k)
      <3>1. Due(x, k)' = Due(x, k)
        BY <2>2, <2>4
      <3> QED
        BY <2>1, <2>4, <3>1
    <2> QED
      BY <2>3, <2>4
  <1>8. MessagesCovered'
    <2>1. ASSUME NEW x \in Channels, NEW k \in Months
          PROVE  Total(count', x, k) + Cardinality(Due(x, k)') <= Total(used', x, k)
      <3>1. Total(count, x, k) + Cardinality(Due(x, k)) <= Total(used, x, k)
        BY DEF CountInv, MessagesCovered
      <3>2. Total(count, x, k) \in Nat /\ Total(used, x, k) \in Nat /\ Total(count', x, k) = Total(count, x, k)
            /\ Total(used', x, k) = Total(used, x, k) + (IF x = c /\ Month(now) <= k THEN 1 ELSE 0)
        BY <1>1, UseTotals, CountTypes, MetricKinds
      <3> QED
        BY <1>7, <3>1, <3>2
    <2>2. ASSUME NEW x \in Channels, ~lost'
          PROVE  Total(count', x, LastMonth) + Cardinality(Due(x, LastMonth)') = Total(used', x, LastMonth)
      <3>1. Total(count, x, LastMonth) + Cardinality(Due(x, LastMonth)) = Total(used, x, LastMonth)
        BY <1>1, <2>2 DEF CountInv, MessagesCovered
      <3>2. LastMonth \in Months
        BY MonthFacts
      <3>3. Total(count, x, LastMonth) \in Nat /\ Total(used, x, LastMonth) \in Nat
            /\ Total(count', x, LastMonth) = Total(count, x, LastMonth)
            /\ Total(used', x, LastMonth) = Total(used, x, LastMonth) + (IF x = c /\ Month(now) <= LastMonth THEN 1 ELSE 0)
        BY <1>1, <3>2, UseTotals, CountTypes, MetricKinds
      <3> QED
        BY <1>7, <3>1, <3>2, <3>3
    <2> QED
      BY <2>1, <2>2 DEF MessagesCovered
  <1>9. PastBelow' /\ JobsRecent' /\ SummaryRecent'
    BY <1>1, <1>3, <1>4, BucketsStay, SummaryKept
  <1> QED
    BY <1>4, <1>5, <1>6, <1>8, <1>9 DEF CountInv

LEMMA RecordRowStep ==
  ASSUME CountInv, NEW w \in Workers, RecordRow(w)
  PROVE  CountInv'
  <1> DEFINE j == [job[w] EXCEPT !.month = Month(now)]
  <1>1. /\ TypeOK /\ JobsPlaced /\ pc[w] = "row" /\ Month(now) \in Months /\ Month(now) \in Nat
        /\ UNCHANGED <<now, count, geocodes, summary, used, found, lost, past>>
        /\ Moves(w, "count", j)
    BY CountTypes, MonthFacts DEF CountInv, RecordRow, Goto, Moves, dbVars, historyVars, TypeOK
  <1>2. j \in Job /\ j.metric = job[w].metric /\ j.month = Month(now)
    BY <1>1, JobChanges DEF TypeOK
  <1> HIDE DEF j
  <1>3. /\ pc' \in [Workers -> Places] /\ job' \in [Workers -> Job]
        /\ pc'[w] = "count" /\ job'[w] = j
        /\ \A v \in Workers : v # w => pc'[v] = pc[v] /\ job'[v] = job[v]
    BY <1>1, <1>2, MoveTypes DEF Places
  <1>4. TypeOK'
    BY <1>1, <1>3 DEF TypeOK
  <1>5. JobsPlaced'
    BY <1>1, <1>2, <1>3 DEF JobsPlaced
  <1>6. MapsCovered'
    <2>1. \A m \in MapsMetrics : Calling(m)' \subseteq Calling(m)
      BY <1>3 DEF Calling
    <2> QED
      BY <1>1, <1>4, <2>1, MapsKept DEF CountInv
  <1>7. MessagesCovered'
    <2>1. \A c \in Channels, k \in Months : Due(c, k)' = Due(c, k)
      BY <1>1, <1>2, <1>3 DEF Due
    <2>2. \A c \in Channels : Due(c, LastMonth)' = Due(c, LastMonth)
      BY <2>1, MonthFacts
    <2>3. \A c \in Channels, k \in Months : /\ Total(used', c, k) = Total(used, c, k)
                                            /\ Total(count', c, k) = Total(count, c, k)
                                            /\ Due(c, k)' \subseteq Due(c, k)
      BY <1>1, <2>1
    <2> QED
      BY <1>1, <2>2, <2>3, MessagesKept DEF CountInv
  <1>8. PastBelow' /\ JobsRecent' /\ SummaryRecent'
    BY <1>1, <1>3, <1>4, BucketsStay, SummaryKept
  <1> QED
    BY <1>4, <1>5, <1>6, <1>7, <1>8 DEF CountInv

(* One more counted adds one from its month on, and no bucket shrinks. *)
LEMMA CountTotals ==
  ASSUME CountInv, NEW w \in Workers, RecordCount(w)
  PROVE  /\ job[w].metric \in Metrics /\ job[w].month \in Months /\ job[w].month \in Nat
         /\ job[w].month <= Month(now) /\ pc[w] = "count"
         /\ UNCHANGED <<now, geocodes, summary, used, found, lost, past>>
         /\ count' \in Counts
         /\ \A m \in Metrics, k \in Months :
              Total(count', m, k)
                = Total(count, m, k) + (IF m = job[w].metric /\ job[w].month <= k THEN 1 ELSE 0)
         /\ \A b \in Buckets, k \in Months : InBucket(count, b, k) <= InBucket(count', b, k)
  <1> DEFINE c == job[w].metric
             i == job[w].month
  <1>1. TypeOK /\ JobsPlaced /\ count \in Counts /\ Month(now) \in Months /\ Month(now) \in Nat
    BY CountTypes, MonthFacts DEF CountInv, TypeOK
  <1>2. /\ pc[w] = "count" /\ UNCHANGED <<now, geocodes, summary, used, found, lost, past>>
        /\ count' = [count EXCEPT ![<<c, i>>] = @ + 1]
    BY DEF RecordCount, historyVars
  <1>3. c \in Metrics /\ i \in Months /\ i <= Month(now)
    BY <1>1, <1>2, JobChanges DEF JobsPlaced, TypeOK
  <1>4. i \in Nat
    BY <1>3 DEF Months
  <1> HIDE DEF c, i
  <1>5. /\ count' \in Counts
        /\ \A mm \in Metrics \X Months : count[mm] \in Nat /\ count'[mm] \in Nat /\ count[mm] <= count'[mm]
    BY <1>1, <1>2, <1>3 DEF Counts
  <1>6. ASSUME NEW m \in Metrics, NEW k \in Months
        PROVE  Total(count', m, k) = Total(count, m, k) + (IF m = c /\ i <= k THEN 1 ELSE 0)
    BY <1>1, <1>2, <1>3, TotalPlusOne
  <1>7. "viber" \in Metrics /\ "maps_geocode" \in Metrics /\ "maps_route" \in Metrics
    BY ChannelsAssumption DEF Metrics, MapsMetrics
  <1>8. ASSUME NEW b \in Buckets, NEW k \in Months
        PROVE  InBucket(count, b, k) <= InBucket(count', b, k)
    <2>1. CASE b = "viber"
      <3>1. /\ InBucket(count, b, k) = Total(count, "viber", LastMonth)
            /\ InBucket(count', b, k) = Total(count', "viber", LastMonth)
        BY <2>1 DEF InBucket
      <3>2. LastMonth \in Months /\ Total(count, "viber", LastMonth) \in Nat
        BY <1>1, <1>7, MonthFacts, TotalType
      <3> QED
        BY <1>6, <1>7, <3>1, <3>2
    <2>2. CASE b # "viber"
      <3> DEFINE g == <<"maps_geocode", k>>
                 h == <<"maps_route", k>>
      <3>1. /\ InBucket(count, b, k) = count[g] + count[h]
            /\ InBucket(count', b, k) = count'[g] + count'[h]
        BY <2>2 DEF InBucket
      <3>2. /\ count[g] \in Nat /\ count'[g] \in Nat /\ count[g] <= count'[g]
            /\ count[h] \in Nat /\ count'[h] \in Nat /\ count[h] <= count'[h]
        BY <1>1, <1>5, <1>7
      <3> HIDE DEF g, h
      <3> QED
        BY <3>1, <3>2
    <2> QED
      BY <2>1, <2>2
  <1> QED
    BY <1>1, <1>2, <1>3, <1>4, <1>5, <1>6, <1>8 DEF c, i

LEMMA CountMapsStep ==
  ASSUME CountInv, NEW w \in Workers, RecordCount(w), job[w].metric \in MapsMetrics
  PROVE  CountInv'
  <1> DEFINE m == job[w].metric
             i == job[w].month
             j == [job[w] EXCEPT !.month = 0]
  <1>1. /\ TypeOK /\ m \in Metrics /\ m \notin Channels /\ i \in Months /\ i \in Nat /\ i <= Month(now)
        /\ Month(now) \in Nat /\ pc[w] = "count"
        /\ UNCHANGED <<now, geocodes, summary, used, found, lost, past>>
        /\ count' \in Counts /\ Moves(w, "call", j)
    BY CountTotals, MetricKinds, MonthFacts DEF CountInv, TypeOK, RecordCount, AfterCount, Goto, Moves
  <1>2. j \in Job /\ j.metric = m
    BY <1>1, JobChanges, MonthFacts DEF TypeOK
  <1> HIDE DEF j
  <1>3. /\ pc' \in [Workers -> Places] /\ job' \in [Workers -> Job]
        /\ pc'[w] = "call" /\ job'[w] = j
        /\ \A v \in Workers : v # w => pc'[v] = pc[v] /\ job'[v] = job[v]
    BY <1>1, <1>2, MoveTypes DEF Places
  <1>4. TypeOK'
    BY <1>1, <1>3 DEF TypeOK, Counts
  <1>5. JobsPlaced'
    BY <1>1, <1>3 DEF CountInv, JobsPlaced
  <1>6. ASSUME NEW x \in MapsMetrics
        PROVE  /\ Cardinality(Calling(x)') = Cardinality(Calling(x)) + (IF x = m THEN 1 ELSE 0)
               /\ Cardinality(Calling(x)) \in Nat
    <2>1. IsFiniteSet(Calling(x)) /\ Cardinality(Calling(x)) \in Nat /\ w \notin Calling(x)
      <3>1. Calling(x) \in SUBSET Workers /\ w \notin Calling(x)
        BY <1>1 DEF Calling
      <3> QED
        BY <3>1, PendingFinite
    <2>2. Calling(x)' = IF x = m THEN Calling(x) \cup {w} ELSE Calling(x)
      BY <1>1, <1>2, <1>3 DEF Calling
    <2>3. CASE x = m
      <3>1. Calling(x)' = Calling(x) \cup {w}
        BY <2>2, <2>3
      <3> QED
        BY <2>1, <2>3, <3>1, FS_AddElement
    <2>4. CASE x # m
      BY <2>1, <2>2, <2>4
    <2> QED
      BY <2>3, <2>4
  <1>7. MapsCovered'
    <2>1. ASSUME NEW x \in MapsMetrics, NEW k \in Months
          PROVE  Total(used', x, k) + (IF Month(now') <= k THEN Cardinality(Calling(x)') ELSE 0)
                   <= Total(count', x, k)
      <3>1. Total(used, x, k) + (IF Month(now) <= k THEN Cardinality(Calling(x)) ELSE 0) <= Total(count, x, k)
        BY DEF CountInv, MapsCovered
      <3>2. /\ Total(used, x, k) \in Nat /\ Total(count, x, k) \in Nat /\ k \in Nat
            /\ Total(used', x, k) = Total(used, x, k) /\ Month(now') = Month(now)
        BY <1>1, CountTypes, MetricKinds
      <3>3. Total(count', x, k) = Total(count, x, k) + (IF x = m /\ i <= k THEN 1 ELSE 0)
        BY CountTotals, MetricKinds
      <3> HIDE DEF m, i
      <3> QED
        BY <1>1, <1>6, <3>1, <3>2, <3>3
    <2> QED
      BY <2>1 DEF MapsCovered
  <1>8. MessagesCovered'
    <2>1. \A c \in Channels, k \in Months : Due(c, k)' = Due(c, k)
      BY <1>1, <1>2, <1>3 DEF Due
    <2>2. \A c \in Channels : Due(c, LastMonth)' = Due(c, LastMonth)
      BY <2>1, MonthFacts
    <2>3. ASSUME NEW c \in Channels, NEW k \in Months PROVE Total(count', c, k) = Total(count, c, k)
      <3>1. Total(count, c, k) \in Nat /\ c \in Metrics /\ c # m
        BY <1>1, CountTypes, MetricKinds
      <3> QED
        BY <3>1, CountTotals
    <2>4. \A c \in Channels, k \in Months : /\ Total(used', c, k) = Total(used, c, k)
                                            /\ Total(count', c, k) = Total(count, c, k)
                                            /\ Due(c, k)' \subseteq Due(c, k)
      BY <1>1, <2>1, <2>3
    <2> QED
      BY <1>1, <2>2, <2>4, MessagesKept DEF CountInv
  <1>9. PastBelow' /\ JobsRecent' /\ SummaryRecent'
    BY <1>1, <1>3, <1>4, CountTotals, SummaryKept
  <1> QED
    BY <1>4, <1>5, <1>7, <1>8, <1>9 DEF CountInv

LEMMA CountMessageStep ==
  ASSUME CountInv, NEW w \in Workers, RecordCount(w), job[w].metric \notin MapsMetrics
  PROVE  CountInv'
  <1> DEFINE c == job[w].metric
             i == job[w].month
  <1>1. /\ TypeOK /\ c \in Metrics /\ c \in Channels /\ c \notin MapsMetrics
        /\ i \in Months /\ i \in Nat /\ i <= Month(now)
        /\ Month(now) \in Nat /\ pc[w] = "count"
        /\ UNCHANGED <<now, geocodes, summary, used, found, lost, past>>
        /\ count' \in Counts /\ Moves(w, "idle", NoJob)
    BY CountTotals, MetricKinds, MonthFacts DEF CountInv, TypeOK, RecordCount, AfterCount, End, Goto, Moves
  <1>2. /\ pc' \in [Workers -> Places] /\ job' \in [Workers -> Job]
        /\ pc'[w] = "idle" /\ job'[w] = NoJob
        /\ \A v \in Workers : v # w => pc'[v] = pc[v] /\ job'[v] = job[v]
    BY <1>1, JobTypes, MoveTypes DEF Places
  <1>3. TypeOK'
    BY <1>1, <1>2 DEF TypeOK, Counts
  <1>4. JobsPlaced'
    BY <1>1, <1>2 DEF CountInv, JobsPlaced
  <1>5. MapsCovered'
    <2>1. \A m \in MapsMetrics : Calling(m)' \subseteq Calling(m)
      BY <1>2 DEF Calling
    <2>2. ASSUME NEW m \in MapsMetrics, NEW k \in Months
          PROVE  Total(used', m, k) = Total(used, m, k) /\ Total(count', m, k) = Total(count, m, k)
      <3>1. Total(count, m, k) \in Nat /\ m \in Metrics /\ m # c
        BY <1>1, CountTypes, MetricKinds
      <3> QED
        BY <1>1, <3>1, CountTotals
    <2>3. Month(now) <= Month(now')
      BY <1>1
    <2> QED
      BY <1>1, <1>3, <2>1, <2>2, <2>3, MapsKept DEF CountInv
  <1>6. ASSUME NEW x \in Channels, NEW k \in Months
        PROVE  /\ Cardinality(Due(x, k)) = Cardinality(Due(x, k)') + (IF x = c /\ i <= k THEN 1 ELSE 0)
               /\ Cardinality(Due(x, k)') \in Nat
    <2>1. IsFiniteSet(Due(x, k)) /\ Cardinality(Due(x, k)) \in Nat
      <3>1. Due(x, k) \in SUBSET Workers
        BY DEF Due
      <3> QED
        BY <3>1, PendingFinite
    <2>2. Due(x, k)' = Due(x, k) \ {w} /\ (w \in Due(x, k) <=> x = c /\ i <= k)
      BY <1>1, <1>2 DEF Due
    <2>3. Cardinality(Due(x, k)') = IF w \in Due(x, k) THEN Cardinality(Due(x, k)) - 1 ELSE Cardinality(Due(x, k))
      BY <2>1, <2>2, FS_RemoveElement
    <2>4. Due(x, k)' \in SUBSET Workers
      BY <2>2 DEF Due
    <2>5. Cardinality(Due(x, k)') \in Nat
      BY <2>4, PendingFinite
    <2> HIDE DEF c, i
    <2> QED
      BY <2>1, <2>2, <2>3, <2>5
  <1>7. ASSUME NEW x \in Channels, NEW k \in Months
        PROVE  /\ Total(count, x, k) \in Nat /\ Total(used, x, k) \in Nat
               /\ Total(used', x, k) = Total(used, x, k)
               /\ Total(count', x, k) = Total(count, x, k) + (IF x = c /\ i <= k THEN 1 ELSE 0)
    BY <1>1, CountTypes, MetricKinds, CountTotals
  <1>8. MessagesCovered'
    <2>1. ASSUME NEW x \in Channels, NEW k \in Months
          PROVE  Total(count', x, k) + Cardinality(Due(x, k)') <= Total(used', x, k)
      <3>1. Total(count, x, k) + Cardinality(Due(x, k)) <= Total(used, x, k)
        BY DEF CountInv, MessagesCovered
      <3> HIDE DEF c, i
      <3> QED
        BY <1>6, <1>7, <3>1
    <2>2. ASSUME NEW x \in Channels, ~lost'
          PROVE  Total(count', x, LastMonth) + Cardinality(Due(x, LastMonth)') = Total(used', x, LastMonth)
      <3>1. Total(count, x, LastMonth) + Cardinality(Due(x, LastMonth)) = Total(used, x, LastMonth)
        BY <1>1, <2>2 DEF CountInv, MessagesCovered
      <3>2. LastMonth \in Months
        BY MonthFacts
      <3> HIDE DEF c, i
      <3> QED
        BY <1>6, <1>7, <3>1, <3>2
    <2> QED
      BY <2>1, <2>2 DEF MessagesCovered
  <1>9. PastBelow' /\ JobsRecent' /\ SummaryRecent'
    BY <1>1, <1>2, <1>3, CountTotals, SummaryKept
  <1> QED
    BY <1>3, <1>4, <1>5, <1>8, <1>9 DEF CountInv

(* Maps is asked: one call less to come, and at most one use more. *)
LEMMA CallStep ==
  ASSUME CountInv, NEW w \in Workers, Geocode(w) \/ ComputeRoute(w)
  PROVE  CountInv'
  <1> DEFINE m == job[w].metric
  <1>1. /\ TypeOK /\ m \in MapsMetrics /\ m \in Metrics /\ m \notin Channels /\ pc[w] = "call"
        /\ Month(now) \in Months /\ Month(now) \in Nat
        /\ UNCHANGED <<now, count, geocodes, summary, found, lost, past>>
        /\ Use(m) \/ UNCHANGED used
    <2>1. m \in MapsMetrics /\ pc[w] = "call"
      BY DEF Geocode, ComputeRoute, MapsMetrics
    <2>2. Use(m) \/ UNCHANGED used
      BY DEF Geocode, ComputeRoute
    <2> QED
      BY <2>1, <2>2, CountTypes, MetricKinds, MonthFacts
         DEF CountInv, TypeOK, Geocode, ComputeRoute, dbVars
  <1>2. PICK place \in {"idle", "store"}, j \in Job : Moves(w, place, j)
    <2>1. NoJob \in Job /\ job[w] \in Job /\ job = [job EXCEPT ![w] = job[w]]
      BY <1>1, JobTypes DEF TypeOK
    <2>2. Moves(w, "idle", NoJob) \/ Moves(w, "store", job[w])
      BY <2>1 DEF Geocode, ComputeRoute, End, Goto, Moves
    <2> QED
      BY <2>1, <2>2
  <1> HIDE DEF m
  <1>3. /\ pc' \in [Workers -> Places] /\ job' \in [Workers -> Job]
        /\ pc'[w] = place /\ job'[w] = j
        /\ \A v \in Workers : v # w => pc'[v] = pc[v] /\ job'[v] = job[v]
    BY <1>1, <1>2, MoveTypes DEF Places
  <1>4. /\ used' \in Counts
        /\ \A x \in Metrics, k \in Months :
             \/ Total(used', x, k) = Total(used, x, k)
             \/ Total(used', x, k) = Total(used, x, k) + (IF x = m /\ Month(now) <= k THEN 1 ELSE 0)
    <2>1. CASE Use(m)
      BY <1>1, <2>1, UseTotals
    <2>2. CASE used' = used
      BY <1>1, <2>2 DEF TypeOK, Counts
    <2> QED
      BY <1>1, <2>1, <2>2
  <1>5. TypeOK'
    BY <1>1, <1>3, <1>4 DEF TypeOK, Counts
  <1>6. JobsPlaced'
    BY <1>1, <1>3 DEF CountInv, JobsPlaced
  <1>7. ASSUME NEW x \in MapsMetrics
        PROVE  /\ Cardinality(Calling(x)) = Cardinality(Calling(x)') + (IF x = m THEN 1 ELSE 0)
               /\ Cardinality(Calling(x)') \in Nat
    <2>1. IsFiniteSet(Calling(x)) /\ Cardinality(Calling(x)) \in Nat
      <3>1. Calling(x) \in SUBSET Workers
        BY DEF Calling
      <3> QED
        BY <3>1, PendingFinite
    <2>2. Calling(x)' = Calling(x) \ {w} /\ (w \in Calling(x) <=> x = m)
      BY <1>1, <1>3 DEF Calling, m
    <2>3. Cardinality(Calling(x)') = IF w \in Calling(x) THEN Cardinality(Calling(x)) - 1 ELSE Cardinality(Calling(x))
      BY <2>1, <2>2, FS_RemoveElement
    <2>4. Calling(x)' \in SUBSET Workers
      BY <2>2 DEF Calling
    <2>5. Cardinality(Calling(x)') \in Nat
      BY <2>4, PendingFinite
    <2> QED
      BY <2>1, <2>2, <2>3, <2>5
  <1>8. MapsCovered'
    <2>1. ASSUME NEW x \in MapsMetrics, NEW k \in Months
          PROVE  Total(used', x, k) + (IF Month(now') <= k THEN Cardinality(Calling(x)') ELSE 0)
                   <= Total(count', x, k)
      <3>1. Total(used, x, k) + (IF Month(now) <= k THEN Cardinality(Calling(x)) ELSE 0) <= Total(count, x, k)
        BY DEF CountInv, MapsCovered
      <3>2. /\ Total(used, x, k) \in Nat /\ Total(count, x, k) \in Nat /\ k \in Nat
            /\ Total(count', x, k) = Total(count, x, k) /\ Month(now') = Month(now)
        BY <1>1, CountTypes, MetricKinds
      <3>3. \/ Total(used', x, k) = Total(used, x, k)
            \/ Total(used', x, k) = Total(used, x, k) + (IF x = m /\ Month(now) <= k THEN 1 ELSE 0)
        BY <1>4, MetricKinds
      <3> QED
        BY <1>1, <1>7, <3>1, <3>2, <3>3
    <2> QED
      BY <2>1 DEF MapsCovered
  <1>9. MessagesCovered'
    <2>1. \A c \in Channels, k \in Months : Due(c, k)' = Due(c, k)
      BY <1>1, <1>3 DEF Due
    <2>2. \A c \in Channels : Due(c, LastMonth)' = Due(c, LastMonth)
      BY <2>1, MonthFacts
    <2>3. ASSUME NEW c \in Channels, NEW k \in Months PROVE Total(used', c, k) = Total(used, c, k)
      <3>1. Total(used, c, k) \in Nat /\ c \in Metrics /\ c # m
        BY <1>1, CountTypes, MetricKinds
      <3> QED
        BY <1>4, <3>1
    <2>4. \A c \in Channels, k \in Months : /\ Total(used', c, k) = Total(used, c, k)
                                            /\ Total(count', c, k) = Total(count, c, k)
                                            /\ Due(c, k)' \subseteq Due(c, k)
      BY <1>1, <2>1, <2>3
    <2> QED
      BY <1>1, <2>2, <2>4, MessagesKept DEF CountInv
  <1>10. PastBelow' /\ JobsRecent' /\ SummaryRecent'
    BY <1>1, <1>3, <1>5, BucketsStay, SummaryKept
  <1> QED
    BY <1>5, <1>6, <1>8, <1>9, <1>10 DEF CountInv

(* What the cabinet reads is what is in the buckets at that moment. *)
LEMMA ReadStep ==
  ASSUME CountInv, NEW w \in Workers, ReadViber(w) \/ ReadMaps(w)
  PROVE  CountInv'
  <1> DEFINE b == pc[w]
             u == [job[w].shown EXCEPT ![b] = InBucket(count, b, job[w].month)]
             j == [job[w] EXCEPT !.shown = u]
  <1>1. /\ TypeOK /\ b \in Buckets /\ pc[w] \in {"viber", "maps"}
        /\ UNCHANGED <<now, count, geocodes, summary, used, found, lost, past>>
    BY DEF CountInv, ReadViber, ReadMaps, ReadBucket, Buckets, dbVars, historyVars
  <1>2. PICK place \in {"maps", "keep"} :
          Moves(w, place, j) /\ (place = "keep" <=> b = "maps")
    BY DEF ReadViber, ReadMaps, ReadBucket, Goto, Moves
  <1>3. /\ job[w] \in Job /\ job[w].month \in Months /\ job[w].shown \in Used
        /\ InBucket(count, b, job[w].month) \in Nat
    <2>1. job[w] \in Job
      BY <1>1 DEF TypeOK
    <2>2. job[w].month \in Months /\ job[w].shown \in Used
      BY <2>1, JobChanges
    <2> HIDE DEF b
    <2> QED
      BY <1>1, <2>1, <2>2, ShownTypes
  <1>4. u \in Used
        /\ \A x \in Buckets : u[x] = IF x = b THEN InBucket(count, b, job[w].month) ELSE job[w].shown[x]
    <2> HIDE DEF b
    <2> QED
      BY <1>1, <1>3 DEF Used
  <1>5. j \in Job /\ j.shown = u /\ j.slow = job[w].slow /\ j.month = job[w].month
    <2> HIDE DEF u
    <2> QED
      BY <1>3, <1>4, JobChanges
  <1> HIDE DEF u, j
  <1>6. /\ pc' \in [Workers -> Places] /\ job' \in [Workers -> Job]
        /\ pc'[w] = place /\ job'[w] = j
        /\ \A v \in Workers : v # w => pc'[v] = pc[v] /\ job'[v] = job[v]
    BY <1>1, <1>2, <1>5, MoveTypes DEF Places
  <1>7. TypeOK'
    BY <1>1, <1>6 DEF TypeOK
  <1>8. JobsPlaced' /\ MapsCovered' /\ MessagesCovered'
    <2>1. lost' = (lost \/ Uncounted(w))
      BY <1>1 DEF TypeOK, Uncounted
    <2> QED
      BY <1>1, <1>2, <1>5, <1>7, <2>1, QuietMove DEF Places
  <1>9. PastBelow' /\ SummaryRecent'
    BY <1>1 DEF CountInv, PastBelow, SummaryRecent, Live
  <1>10. ASSUME NEW v \in Workers, pc'[v] \in {"viber", "maps", "keep"}, ~job'[v].slow
         PROVE  /\ job'[v].month = Month(now)
                /\ \A x \in Buckets : HasRead(v, x)' =>
                     /\ \A n \in 1..Ttl : InBucket(past[n], x, Month(now)) <= job'[v].shown[x]
                     /\ job'[v].shown[x] <= InBucket(count, x, Month(now))
    <2>1. CASE v # w
      <3>1. pc'[v] = pc[v] /\ job'[v] = job[v]
        BY <1>6, <2>1
      <3> QED
        BY <1>10, <3>1 DEF CountInv, JobsRecent, HasRead
    <2>2. CASE v = w
      <3>1. job'[v].shown = u /\ ~job[w].slow /\ pc'[v] = place /\ job'[v].month = job[w].month
        BY <1>5, <1>6, <1>10, <2>2
      <3>2. /\ job[w].month = Month(now)
            /\ \A x \in Buckets : HasRead(w, x) =>
                 /\ \A n \in 1..Ttl : InBucket(past[n], x, Month(now)) <= job[w].shown[x]
                 /\ job[w].shown[x] <= InBucket(count, x, Month(now))
        BY <1>1, <3>1 DEF CountInv, JobsRecent
      <3>3. ASSUME NEW x \in Buckets, HasRead(v, x)'
            PROVE  /\ \A n \in 1..Ttl : InBucket(past[n], x, Month(now)) <= u[x]
                   /\ u[x] <= InBucket(count, x, Month(now))
        <4>1. x = b \/ HasRead(w, x)
          BY <1>1, <1>2, <2>2, <3>1, <3>3 DEF HasRead, Buckets
        <4>2. CASE x = b
          <5>1. u[x] = InBucket(count, x, Month(now)) /\ u[x] \in Nat
            BY <1>3, <1>4, <3>2, <4>2
          <5>2. \A n \in 1..Ttl : InBucket(past[n], x, Month(now)) <= InBucket(count, x, Month(now))
            BY <1>3, <3>2 DEF CountInv, PastBelow
          <5> QED
            BY <5>1, <5>2
        <4>3. CASE x # b
          <5>1. u[x] = job[w].shown[x]
            BY <1>4, <4>3
          <5> QED
            BY <3>2, <4>1, <4>3, <5>1
        <4> QED
          BY <4>2, <4>3
      <3> QED
        BY <3>1, <3>2, <3>3
    <2> QED
      BY <2>1, <2>2
  <1>11. JobsRecent'
    BY <1>1, <1>10 DEF JobsRecent
  <1> QED
    BY <1>7, <1>8, <1>9, <1>11 DEF CountInv

(* A summary is kept in the tick in which it was read, unless it was slow. *)
LEMMA KeepStep ==
  ASSUME CountInv, NEW w \in Workers, Keep(w)
  PROVE  CountInv'
  <1> DEFINE kept == [shown |-> job[w].shown, expires |-> now + Ttl, slow |-> job[w].slow]
  <1>1. /\ TypeOK /\ pc[w] = "keep" /\ Moves(w, "idle", NoJob)
        /\ UNCHANGED <<now, count, geocodes, used, found, lost, past>>
        /\ summary' = [summary EXCEPT ![w[1]] = kept]
        /\ w[1] \in Processes /\ Ttl \in Nat /\ now \in Nat /\ job[w] \in Job
    BY CountTypes, TimesAssumption DEF CountInv, Keep, End, Goto, Moves, dbVars, historyVars, Workers, TypeOK
  <1>2. /\ kept.shown = job[w].shown /\ kept.expires = now + Ttl /\ kept.slow = job[w].slow
        /\ kept \in [shown : Used, expires : 0..(LastTime + Ttl), slow : BOOLEAN]
    <2>1. job[w].shown \in Used /\ job[w].slow \in BOOLEAN
      BY <1>1, JobChanges
    <2>2. now + Ttl \in 0..(LastTime + Ttl)
      BY <1>1, TimesAssumption DEF TypeOK, Times
    <2> QED
      BY <2>1, <2>2
  <1> HIDE DEF kept
  <1>3. /\ pc' \in [Workers -> Places] /\ job' \in [Workers -> Job]
        /\ pc'[w] = "idle" /\ job'[w] = NoJob
        /\ \A v \in Workers : v # w => pc'[v] = pc[v] /\ job'[v] = job[v]
    BY <1>1, JobTypes, MoveTypes DEF Places
  <1>4. TypeOK'
    BY <1>1, <1>2, <1>3 DEF TypeOK
  <1>5. JobsPlaced' /\ MapsCovered' /\ MessagesCovered'
    <2>1. lost' = (lost \/ Uncounted(w))
      BY <1>1 DEF TypeOK, Uncounted
    <2> QED
      BY <1>1, <1>4, <2>1, JobTypes, QuietMove DEF Places
  <1>6. PastBelow'
    BY <1>1 DEF CountInv, PastBelow
  <1>7. JobsRecent'
    BY <1>1, <1>3 DEF CountInv, JobsRecent, HasRead
  <1>8. ASSUME NEW p \in Processes, now < summary'[p].expires, ~summary'[p].slow
        PROVE  LET e == summary'[p].expires
               IN  /\ Ttl <= e /\ e <= now + Ttl
                   /\ \A b \in Buckets :
                        /\ \A n \in 1..Ttl : now + Ttl < n + e =>
                             InBucket(past[n], b, Month(e - Ttl)) <= summary'[p].shown[b]
                        /\ summary'[p].shown[b] <= InBucket(count, b, Month(e - Ttl))
    <2>1. CASE p = w[1]
      <3>1. summary'[p] = kept
        BY <1>1, <2>1 DEF TypeOK
      <3>2. ~job[w].slow
        BY <1>2, <1>8, <3>1
      <3>3. \A b \in Buckets :
              /\ \A n \in 1..Ttl : InBucket(past[n], b, Month(now)) <= job[w].shown[b]
              /\ job[w].shown[b] <= InBucket(count, b, Month(now))
        BY <1>1, <3>2 DEF CountInv, JobsRecent, HasRead
      <3>4. Ttl <= now + Ttl /\ now + Ttl <= now + Ttl /\ (now + Ttl) - Ttl = now
        BY <1>1
      <3> QED
        BY <1>2, <3>1, <3>3, <3>4
    <2>2. CASE p # w[1]
      <3>1. summary'[p] = summary[p]
        BY <1>1, <2>2 DEF TypeOK
      <3> QED
        BY <1>8, <3>1 DEF CountInv, SummaryRecent, Live
    <2> QED
      BY <2>1, <2>2
  <1>9. SummaryRecent'
    BY <1>1, <1>8 DEF SummaryRecent, Live
  <1> QED
    BY <1>4, <1>5, <1>6, <1>7, <1>9 DEF CountInv

(* A process that dies takes its workers and its summary with it. *)
LEMMA RestartStep ==
  ASSUME CountInv, NEW p \in Processes, Restart(p)
  PROVE  CountInv'
  <1>1. /\ TypeOK /\ UNCHANGED <<now, count, geocodes, used, found, past>>
        /\ summary' = [summary EXCEPT ![p] = NoSummary]
        /\ pc' = [w \in Workers |-> IF w[1] = p THEN "idle" ELSE pc[w]]
        /\ job' = [w \in Workers |-> IF w[1] = p THEN NoJob ELSE job[w]]
        /\ lost' = (lost \/ \E t \in Threads : Uncounted(<<p, t>>))
    BY DEF CountInv, Restart, dbVars
  <1>2. ASSUME NEW v \in Workers
        PROVE  \/ pc'[v] = pc[v] /\ job'[v] = job[v]
               \/ pc'[v] = "idle" /\ job'[v] = NoJob /\ (~lost' => ~Uncounted(v))
    <2>1. CASE v[1] = p
      <3>1. v = <<p, v[2]>> /\ v[2] \in Threads
        BY <2>1 DEF Workers
      <3> QED
        BY <1>1, <2>1, <3>1
    <2>2. CASE v[1] # p
      BY <1>1, <2>2
    <2> QED
      BY <2>1, <2>2
  <1>3. TypeOK'
    <2>1. NoSummary \in [shown : Used, expires : 0..(LastTime + Ttl), slow : BOOLEAN]
      BY TimesAssumption DEF NoSummary, Used, NothingUsed
    <2>2. pc' \in [Workers -> Places] /\ job' \in [Workers -> Job]
      BY <1>1, JobTypes DEF TypeOK, Places
    <2>3. summary' \in [Processes -> [shown : Used, expires : 0..(LastTime + Ttl), slow : BOOLEAN]]
      BY <1>1, <2>1 DEF TypeOK
    <2>4. lost' \in BOOLEAN
      BY <1>1 DEF TypeOK, Uncounted
    <2> QED
      BY <1>1, <2>2, <2>3, <2>4 DEF TypeOK
  <1>4. JobsPlaced'
    <2>1. JobsPlaced /\ now' = now
      BY <1>1 DEF CountInv
    <2> QED
      BY <1>2, <2>1 DEF JobsPlaced
  <1>5. MapsCovered'
    <2>1. \A m \in MapsMetrics : Calling(m)' \subseteq Calling(m)
      BY <1>2 DEF Calling
    <2>2. Month(now) <= Month(now')
      BY <1>1, MonthFacts DEF TypeOK
    <2> QED
      BY <1>1, <1>3, <2>1, <2>2, MapsKept DEF CountInv
  <1>6. MessagesCovered'
    <2>1. ASSUME NEW c \in Channels, NEW k \in Months
          PROVE  Due(c, k)' \subseteq Due(c, k) /\ (~lost' => Due(c, k)' = Due(c, k))
      BY <1>1, <1>2 DEF Due, Uncounted
    <2>2. ~lost' => ~lost /\ \A c \in Channels : Due(c, LastMonth)' = Due(c, LastMonth)
      BY <1>1, <2>1, MonthFacts DEF TypeOK
    <2>3. \A c \in Channels, k \in Months : /\ Total(used', c, k) = Total(used, c, k)
                                            /\ Total(count', c, k) = Total(count, c, k)
                                            /\ Due(c, k)' \subseteq Due(c, k)
      BY <1>1, <2>1
    <2> QED
      BY <1>1, <2>2, <2>3, MessagesKept DEF CountInv
  <1>7. PastBelow' /\ JobsRecent' /\ SummaryRecent'
    <2>1. \A v \in Workers : pc'[v] \in {"viber", "maps", "keep"} => pc'[v] = pc[v] /\ job'[v] = job[v]
      BY <1>2
    <2>2. \A q \in Processes : summary'[q] = summary[q] \/ summary'[q] = NoSummary
      BY <1>1 DEF TypeOK
    <2> QED
      BY <1>1, <1>3, <2>1, <2>2, BucketsStay, SummaryKept
  <1> QED
    BY <1>3, <1>4, <1>5, <1>6, <1>7 DEF CountInv

(* The clock: months turn, old buckets move on, summaries expire. *)
LEMMA TickStep ==
  ASSUME CountInv, Tick
  PROVE  CountInv'
  <1>1. /\ TypeOK /\ now \in Nat /\ Ttl \in Nat /\ LastTime \in Nat /\ now' = now + 1 /\ now' \in Times
        /\ UNCHANGED <<count, geocodes, pc, used, found, lost>>
        /\ past' = [n \in 1..Ttl |-> IF n = 1 THEN count ELSE past[n - 1]]
        /\ job' = [w \in Workers |-> [job[w] EXCEPT !.slow = @ \/ pc[w] \in {"viber", "maps", "keep"}]]
        /\ summary' = [p \in Processes |-> IF now + 1 < summary[p].expires THEN summary[p] ELSE NoSummary]
    BY TimesAssumption DEF CountInv, Tick, dbVars, TypeOK, Times
  <1>2. /\ Month(now) \in Nat /\ Month(now') \in Nat /\ Month(now) <= Month(now') /\ Month(now') <= LastMonth
        /\ Month(now') \in Months
    <2>1. Month(now) <= Month(now') /\ Month(now) \in Nat
      BY <1>1, MonthGrows
    <2>2. Month(now') \in Months
      BY <1>1, MonthFacts
    <2> QED
      BY <2>1, <2>2, MonthFacts DEF Months
  <1>3. ASSUME NEW w \in Workers
        PROVE  /\ job'[w] \in Job /\ job'[w].slow = (job[w].slow \/ pc[w] \in {"viber", "maps", "keep"})
               /\ job'[w].metric = job[w].metric /\ job'[w].month = job[w].month
    <2> DEFINE slow == job[w].slow \/ pc[w] \in {"viber", "maps", "keep"}
    <2>1. job[w] \in Job /\ slow \in BOOLEAN
      BY <1>1, JobChanges DEF TypeOK
    <2>2. job'[w] = [job[w] EXCEPT !.slow = slow]
      BY <1>1, Zenon
    <2> HIDE DEF slow
    <2>3. /\ job'[w] \in Job /\ job'[w].slow = slow
          /\ job'[w].metric = job[w].metric /\ job'[w].month = job[w].month
      BY <2>1, <2>2, SlowJob
    <2> QED
      BY <2>3 DEF slow
  <1>4. ASSUME NEW p \in Processes, now' < summary'[p].expires
        PROVE  summary'[p] = summary[p] /\ now < summary[p].expires /\ summary[p].expires \in Nat
    <2>1. summary[p].expires \in Nat
      BY <1>1, ShownTypes
    <2>2. summary'[p] = summary[p]
      BY <1>1, <1>4 DEF NoSummary
    <2> QED
      BY <1>1, <1>4, <2>1, <2>2
  <1>6. /\ past' \in [1..Ttl -> Counts]
        /\ \A n \in 1..Ttl : \/ n = 1 /\ past'[n] = count
                             \/ n - 1 \in 1..Ttl /\ past'[n] = past[n - 1]
    <2>1. ASSUME NEW n \in 1..Ttl, n # 1 PROVE n - 1 \in 1..Ttl /\ past[n - 1] \in Counts
      <3>1. n - 1 \in 1..Ttl
        BY <1>1, <2>1
      <3> QED
        BY <1>1, <3>1 DEF TypeOK
    <2>2. count \in Counts
      BY <1>1 DEF TypeOK
    <2> QED
      BY <1>1, <2>1, <2>2
  <1>7. TypeOK'
    <2>1. NoSummary \in [shown : Used, expires : 0..(LastTime + Ttl), slow : BOOLEAN]
      BY <1>1 DEF NoSummary, Used, NothingUsed
    <2>2. summary' \in [Processes -> [shown : Used, expires : 0..(LastTime + Ttl), slow : BOOLEAN]]
      BY <1>1, <2>1 DEF TypeOK
    <2>3. job' \in [Workers -> Job]
      BY <1>1, <1>3
    <2> QED
      BY <1>1, <1>6, <2>2, <2>3 DEF TypeOK
  <1>8. JobsPlaced'
    <2>1. ASSUME NEW w \in Workers, pc[w] = "count" PROVE job[w].month <= Month(now')
      <3>1. job[w].month \in Nat
        BY <1>1, JobChanges DEF TypeOK, Months
      <3>2. job[w].month <= Month(now)
        BY <2>1 DEF CountInv, JobsPlaced
      <3> QED
        BY <1>2, <3>1, <3>2
    <2>2. \A w \in Workers : pc[w] \in {"row", "count"} => job[w].metric \in Metrics
      BY DEF CountInv, JobsPlaced
    <2> QED
      BY <1>1, <1>3, <2>1, <2>2 DEF JobsPlaced
  <1>9. MapsCovered'
    <2>1. \A m \in MapsMetrics : Calling(m)' \subseteq Calling(m)
      BY <1>1, <1>3 DEF Calling
    <2> QED
      BY <1>1, <1>2, <1>7, <2>1, MapsKept DEF CountInv
  <1>10. MessagesCovered'
    <2>1. ASSUME NEW c \in Channels, NEW k \in Months PROVE Due(c, k)' \subseteq Due(c, k)
      <3>1. Month(now') <= k => Month(now) <= k
        BY <1>2 DEF Months
      <3> QED
        BY <1>1, <1>3, <3>1 DEF Due
    <2>2. ASSUME NEW c \in Channels PROVE Due(c, LastMonth)' = Due(c, LastMonth)
      <3>1. Month(now') <= LastMonth /\ Month(now) <= LastMonth
        BY <1>2, MonthFacts
      <3> QED
        BY <1>1, <1>3, <3>1 DEF Due
    <2>3. \A c \in Channels, k \in Months : /\ Total(used', c, k) = Total(used, c, k)
                                            /\ Total(count', c, k) = Total(count, c, k)
                                            /\ Due(c, k)' \subseteq Due(c, k)
      BY <1>1, <2>1
    <2> QED
      BY <1>1, <2>2, <2>3, MessagesKept DEF CountInv
  <1>12. PastBelow'
    <2>1. ASSUME NEW n \in 1..Ttl, NEW b \in Buckets, NEW k \in Months
          PROVE  InBucket(past'[n], b, k) <= InBucket(count, b, k)
      <3>1. InBucket(count, b, k) \in Nat
        BY <1>1, ShownTypes
      <3>2. CASE n = 1 /\ past'[n] = count
        BY <3>1, <3>2
      <3>3. CASE n - 1 \in 1..Ttl /\ past'[n] = past[n - 1]
        BY <3>3 DEF CountInv, PastBelow
      <3> QED
        BY <1>6, <3>2, <3>3
    <2> QED
      BY <1>1, <2>1 DEF PastBelow
  <1>13. JobsRecent'
    BY <1>1, <1>3 DEF JobsRecent
  <1>14. ASSUME NEW p \in Processes, now' < summary'[p].expires, ~summary'[p].slow
         PROVE  LET e == summary'[p].expires
                IN  /\ Ttl <= e /\ e <= now' + Ttl
                    /\ \A b \in Buckets :
                         /\ \A n \in 1..Ttl : now' + Ttl < n + e =>
                              InBucket(past'[n], b, Month(e - Ttl)) <= summary'[p].shown[b]
                         /\ summary'[p].shown[b] <= InBucket(count, b, Month(e - Ttl))
    <2> DEFINE e == summary[p].expires
    <2>1. /\ summary'[p] = summary[p] /\ ~summary[p].slow /\ now < e /\ e \in Nat /\ Live(p)
      BY <1>4, <1>14 DEF Live
    <2>2. /\ Ttl <= e /\ e <= now + Ttl
          /\ \A b \in Buckets :
               /\ \A n \in 1..Ttl : now + Ttl < n + e =>
                    InBucket(past[n], b, Month(e - Ttl)) <= summary[p].shown[b]
               /\ summary[p].shown[b] <= InBucket(count, b, Month(e - Ttl))
      BY <2>1 DEF CountInv, SummaryRecent
    <2> HIDE DEF e
    <2>3. ASSUME NEW b \in Buckets, NEW n \in 1..Ttl, now' + Ttl < n + e
          PROVE  InBucket(past'[n], b, Month(e - Ttl)) <= summary[p].shown[b]
      <3>1. n # 1
        BY <1>1, <2>1, <2>2, <2>3
      <3>2. n - 1 \in 1..Ttl /\ past'[n] = past[n - 1]
        BY <1>6, <3>1
      <3>3. now + Ttl < (n - 1) + e
        BY <1>1, <2>1, <2>3
      <3> QED
        BY <2>2, <3>2, <3>3
    <2>4. e <= now' + Ttl
      BY <1>1, <2>1, <2>2
    <2> QED
      BY <2>1, <2>2, <2>3, <2>4 DEF e
  <1>15. SummaryRecent'
    BY <1>1, <1>14 DEF SummaryRecent, Live
  <1> QED
    BY <1>7, <1>8, <1>9, <1>10, <1>12, <1>13, <1>15 DEF CountInv

LEMMA CountInit == Init => CountInv
  <1> SUFFICES ASSUME Init PROVE CountInv
    OBVIOUS
  <1>1. Ttl \in Nat /\ LastTime \in Nat /\ 0 \in Times
    BY TimesAssumption DEF Times
  <1>2. NoSummary \in [shown : Used, expires : 0..(LastTime + Ttl), slow : BOOLEAN] /\ NothingUsed \in Used
    BY <1>1 DEF NoSummary, Used, NothingUsed
  <1>3. TypeOK
    <2>1. job \in [Workers -> Job] /\ pc \in [Workers -> Places]
      BY JobTypes DEF Init, Places
    <2>2. count \in Counts /\ used \in Counts /\ past \in [1..Ttl -> Counts]
      BY DEF Init, Counts
    <2> QED
      BY <1>1, <1>2, <2>1, <2>2 DEF Init, TypeOK
  <1>4. \A m \in Metrics, k \in Months : Total(count, m, k) = 0 /\ Total(used, m, k) = 0
    <2>1. count \in Counts /\ used = count /\ \A mm \in Metrics \X Months : count[mm] = 0
      BY DEF Init, Counts
    <2> QED
      BY <2>1, TotalOfNothing
  <1>5. /\ \A m \in MapsMetrics : Calling(m) = {}
        /\ \A c \in Channels, k \in Months : Due(c, k) = {}
    BY DEF Init, Calling, Due
  <1>6. Cardinality({}) = 0
    BY FS_EmptySet
  <1>7. MapsCovered
    BY <1>4, <1>5, <1>6, MetricKinds DEF MapsCovered
  <1>8. MessagesCovered
    <2>1. \A c \in Channels, k \in Months : Total(count, c, k) = 0 /\ Total(used, c, k) = 0 /\ Cardinality(Due(c, k)) = 0
      BY <1>4, <1>5, <1>6, MetricKinds
    <2> QED
      BY <2>1, MonthFacts DEF MessagesCovered
  <1>9. JobsPlaced /\ JobsRecent
    BY DEF Init, JobsPlaced, JobsRecent
  <1>10. PastBelow
    <2>1. \A n \in 1..Ttl : past[n] = count
      BY DEF Init
    <2>2. \A b \in Buckets, k \in Months : InBucket(count, b, k) \in Nat
      BY <1>3, ShownTypes
    <2> QED
      BY <2>1, <2>2 DEF PastBelow
  <1>11. SummaryRecent
    BY DEF Init, NoSummary, SummaryRecent, Live
  <1> QED
    BY <1>3, <1>7, <1>8, <1>9, <1>10, <1>11 DEF CountInv

LEMMA CountStep == CountInv /\ [Next]_vars => CountInv'
  <1> SUFFICES ASSUME CountInv, [Next]_vars PROVE CountInv'
    OBVIOUS
  <1>1. ASSUME NEW w \in Workers, RecordCount(w) PROVE CountInv'
    BY <1>1, CountMapsStep, CountMessageStep
  <1>2. CASE UNCHANGED vars
    <2>1. \A m : Calling(m)' = Calling(m)
      BY <1>2 DEF vars, Calling
    <2>2. \A c, k : Due(c, k)' = Due(c, k)
      BY <1>2 DEF vars, dbVars, historyVars, Due
    <2>4. MapsCovered' /\ MessagesCovered'
      BY <1>2, <2>1, <2>2 DEF vars, dbVars, historyVars, CountInv, MapsCovered, MessagesCovered
    <2>5. TypeOK' /\ JobsPlaced'
      BY <1>2 DEF vars, dbVars, historyVars, CountInv, TypeOK, JobsPlaced
    <2>6. PastBelow' /\ JobsRecent' /\ SummaryRecent'
      BY <1>2 DEF vars, dbVars, historyVars, CountInv, PastBelow, JobsRecent, HasRead, SummaryRecent, Live
    <2> QED
      BY <2>4, <2>5, <2>6 DEF CountInv
  <1> QED
    BY <1>1, <1>2, StartStep, SendStep, RecordRowStep, CallStep, EndStep, ReadStep, KeepStep,
       RestartStep, TickStep DEF Next, Work

(* The inductive invariant holds throughout. *)
LEMMA CountsHold == Spec => []CountInv
  BY CountInit, CountStep, PTL DEF Spec

(***************************************************************************)
(* The metered providers keep the shape of their state: counts per metric  *)
(* and month, a summary per process, a job per worker (integrations).      *)
(***************************************************************************)
THEOREM MeteringTypes == Spec => []TypeOK
  <1>1. CountInv => TypeOK
    BY DEF CountInv
  <1> QED
    BY <1>1, CountsHold, PTL

(***************************************************************************)
(* No call to Maps escapes the count: up to the end of any month no more   *)
(* calls reached Maps than were counted, because a call is counted before  *)
(* it is made, in the month it is made in or an earlier one                *)
(* (MeteredMapsProvider).                                                  *)
(***************************************************************************)
THEOREM MapsCounted == Spec => []MapsNeverUndercounted
  <1>1. CountInv => MapsNeverUndercounted
    <2> SUFFICES ASSUME CountInv, NEW m \in MapsMetrics, NEW k \in Months
                 PROVE  Total(used, m, k) <= Total(count, m, k)
      BY DEF MapsNeverUndercounted
    <2>1. Total(used, m, k) \in Nat /\ Total(count, m, k) \in Nat
      BY CountTypes, MetricKinds DEF CountInv
    <2>2. Total(used, m, k) + (IF Month(now) <= k THEN Cardinality(Calling(m)) ELSE 0) <= Total(count, m, k)
      BY DEF CountInv, MapsCovered
    <2>3. Cardinality(Calling(m)) \in Nat
      <3>1. Calling(m) \in SUBSET Workers
        BY DEF Calling
      <3> QED
        BY <3>1, PendingFinite
    <2> QED
      BY <2>1, <2>2, <2>3
  <1> QED
    BY <1>1, CountsHold, PTL

(***************************************************************************)
(* A message is counted after it was taken and never without, and when no  *)
(* worker died in between and none is about to count, every message taken  *)
(* is counted: F("count") + 1 loses no increment (ProviderUsage.record).   *)
(***************************************************************************)
THEOREM MessagesCounted == Spec => []MessagesCountedOnce
  <1>1. CountInv => MessagesCountedOnce
    <2> SUFFICES ASSUME CountInv, NEW c \in Channels
                 PROVE  /\ \A k \in Months : Total(count, c, k) <= Total(used, c, k)
                        /\ ~lost /\ ~(\E w \in Workers : Uncounted(w)) =>
                             Total(count, c, LastMonth) = Total(used, c, LastMonth)
      BY DEF MessagesCountedOnce
    <2>1. ASSUME NEW k \in Months
          PROVE  /\ Total(used, c, k) \in Nat /\ Total(count, c, k) \in Nat
                 /\ Cardinality(Due(c, k)) \in Nat
      <3>1. Due(c, k) \in SUBSET Workers
        BY DEF Due
      <3> QED
        BY <3>1, PendingFinite, CountTypes, MetricKinds DEF CountInv
    <2>2. ASSUME NEW k \in Months PROVE Total(count, c, k) <= Total(used, c, k)
      <3>1. Total(count, c, k) + Cardinality(Due(c, k)) <= Total(used, c, k)
        BY DEF CountInv, MessagesCovered
      <3> QED
        BY <2>1, <3>1
    <2>3. ASSUME ~lost, ~(\E w \in Workers : Uncounted(w))
          PROVE  Total(count, c, LastMonth) = Total(used, c, LastMonth)
      <3>1. Total(count, c, LastMonth) + Cardinality(Due(c, LastMonth)) = Total(used, c, LastMonth)
        BY <2>3 DEF CountInv, MessagesCovered
      <3>2. Due(c, LastMonth) = {}
        BY <2>3 DEF Due, Uncounted
      <3>3. LastMonth \in Months /\ Cardinality({}) = 0
        BY MonthFacts, FS_EmptySet
      <3> QED
        BY <2>1, <3>1, <3>2, <3>3
    <2> QED
      BY <2>2, <2>3
  <1> QED
    BY <1>1, CountsHold, PTL

(***************************************************************************)
(* A live summary computed within a tick is about one moment less than its *)
(* lifetime ago, and each bucket it shows, that of Maps for the month of   *)
(* this moment, lies between what was counted a lifetime ago and what is   *)
(* counted now (quota_summary, _used).                                     *)
(***************************************************************************)
THEOREM SummaryFresh == Spec => []SummaryIsRecent
  <1>1. CountInv => SummaryIsRecent
    <2> SUFFICES ASSUME CountInv, NEW p \in Processes, Live(p), ~summary[p].slow
                 PROVE  \E s \in Times :
                          /\ s <= now /\ now < s + Ttl
                          /\ \A b \in Buckets :
                               summary[p].shown[b]
                                 \in InBucket(past[Ttl], b, Month(s))..InBucket(count, b, Month(s))
      BY DEF SummaryIsRecent
    <2> DEFINE e == summary[p].expires
    <2>1. TypeOK /\ now \in Nat /\ Ttl \in Nat /\ e \in Nat /\ now < e
      BY CountTypes, ShownTypes, TimesAssumption DEF CountInv, Live
    <2>2. /\ Ttl <= e /\ e <= now + Ttl
          /\ \A b \in Buckets :
               /\ \A n \in 1..Ttl : now + Ttl < n + e =>
                    InBucket(past[n], b, Month(e - Ttl)) <= summary[p].shown[b]
               /\ summary[p].shown[b] <= InBucket(count, b, Month(e - Ttl))
      BY DEF CountInv, SummaryRecent
    <2>3. e - Ttl \in Times /\ Month(e - Ttl) \in Months
      BY <2>1, <2>2, KeptMonth
    <2> HIDE DEF e
    <2>4. Ttl \in 1..Ttl /\ now + Ttl < Ttl + e /\ e - Ttl <= now /\ now < (e - Ttl) + Ttl
      BY <2>1, <2>2
    <2>5. ASSUME NEW b \in Buckets
          PROVE  summary[p].shown[b]
                   \in InBucket(past[Ttl], b, Month(e - Ttl))..InBucket(count, b, Month(e - Ttl))
      <3>1. /\ InBucket(past[Ttl], b, Month(e - Ttl)) \in Nat
            /\ InBucket(count, b, Month(e - Ttl)) \in Nat
            /\ summary[p].shown[b] \in Nat
        BY <2>1, <2>3, <2>4, ShownTypes
      <3> QED
        BY <2>2, <2>4, <3>1
    <2> QED
      BY <2>3, <2>4, <2>5
  <1> QED
    BY <1>1, CountsHold, PTL

-----------------------------------------------------------------------------
(***************************************************************************)
(* Each month's count of Maps by itself.                                   *)
(***************************************************************************)
(* The workers that may yet call Maps in this month and count no more in it. *)
Owing ==
  {w \in Workers :
     /\ job[w].metric \in MapsMetrics
     /\ pc[w] = "call" \/ (pc[w] = "count" /\ job[w].month < Month(now))}

(* What this month misses, those that owe it included, is no more than the *)
(* workers, so a month that has passed misses no more either.              *)
MonthCovered ==
  /\ \A k \in Months : InBucket(used, "maps", k) <= InBucket(count, "maps", k) + Cardinality(Workers)
  /\ \A k \in Months : Month(now) < k => InBucket(used, "maps", k) = 0
  /\ InBucket(used, "maps", Month(now)) + Cardinality(Owing) <= InBucket(count, "maps", Month(now)) + Cardinality(Workers)

LEMMA MonthTypes ==
  ASSUME TypeOK
  PROVE  /\ \A k \in Months : k \in Nat /\ InBucket(used, "maps", k) \in Nat /\ InBucket(count, "maps", k) \in Nat
         /\ Month(now) \in Months /\ Month(now) \in Nat
         /\ IsFiniteSet(Owing) /\ Cardinality(Owing) \in Nat
         /\ Cardinality(Owing) <= Cardinality(Workers) /\ Cardinality(Workers) \in Nat
  <1>1. \A k \in Months : k \in Nat /\ InBucket(used, "maps", k) \in Nat /\ InBucket(count, "maps", k) \in Nat
    BY BucketTypes DEF TypeOK, Buckets, Months
  <1>2. Month(now) \in Months /\ Month(now) \in Nat
    BY MonthFacts DEF TypeOK
  <1>3. Owing \in SUBSET Workers
    BY DEF Owing
  <1> QED
    BY <1>1, <1>2, <1>3, PendingFinite

(* One more of a metric of Maps is one more in the bucket of that month. *)
LEMMA BucketPlusOne ==
  ASSUME NEW f \in Counts, NEW c \in Metrics, NEW i \in Months, NEW k \in Months
  PROVE  InBucket([f EXCEPT ![<<c, i>>] = @ + 1], "maps", k)
           = InBucket(f, "maps", k) + (IF c \in MapsMetrics /\ i = k THEN 1 ELSE 0)
  <1> DEFINE g == [f EXCEPT ![<<c, i>>] = @ + 1]
             x == <<"maps_geocode", k>>
             y == <<"maps_route", k>>
  <1>1. /\ f[x] \in Nat /\ f[y] \in Nat
        /\ g[x] = f[x] + (IF c = "maps_geocode" /\ i = k THEN 1 ELSE 0)
        /\ g[y] = f[y] + (IF c = "maps_route" /\ i = k THEN 1 ELSE 0)
    BY ChannelsAssumption DEF Counts, Metrics, MapsMetrics
  <1>2. InBucket(g, "maps", k) = g[x] + g[y] /\ InBucket(f, "maps", k) = f[x] + f[y]
    BY DEF InBucket
  <1> HIDE DEF g, x, y
  <1>3. InBucket(g, "maps", k) = InBucket(f, "maps", k) + (IF c \in MapsMetrics /\ i = k THEN 1 ELSE 0)
    BY <1>1, <1>2 DEF MapsMetrics
  <1> QED
    BY <1>3 DEF g

(* Within a month: nothing more is used, none more owes it, no count falls. *)
LEMMA MonthKept ==
  ASSUME TypeOK, TypeOK', MonthCovered, Month(now') = Month(now), Owing' \subseteq Owing,
         \A k \in Months : /\ InBucket(used', "maps", k) = InBucket(used, "maps", k)
                           /\ InBucket(count, "maps", k) <= InBucket(count', "maps", k)
  PROVE  MonthCovered'
  <1>1. /\ \A k \in Months : InBucket(used, "maps", k) \in Nat /\ InBucket(count, "maps", k) \in Nat
        /\ Month(now) \in Months /\ Cardinality(Workers) \in Nat
    BY MonthTypes
  <1>2. \A k \in Months : InBucket(count', "maps", k) \in Nat
    <2>1. count' \in Counts /\ "maps" \in Buckets
      BY DEF TypeOK, Buckets
    <2> QED
      BY <2>1, BucketTypes
  <1>3. /\ Cardinality(Owing) \in Nat /\ Cardinality(Owing') \in Nat
        /\ Cardinality(Owing') <= Cardinality(Owing)
    <2>1. Owing \in SUBSET Workers
      BY DEF Owing
    <2> QED
      BY <2>1, PendingFinite
  <1>4. ASSUME NEW k \in Months
        PROVE  InBucket(used', "maps", k) <= InBucket(count', "maps", k) + Cardinality(Workers)
    <2>1. InBucket(used, "maps", k) <= InBucket(count, "maps", k) + Cardinality(Workers)
      BY DEF MonthCovered
    <2> QED
      BY <1>1, <1>2, <2>1
  <1>5. InBucket(used', "maps", Month(now)) + Cardinality(Owing')
          <= InBucket(count', "maps", Month(now)) + Cardinality(Workers)
    <2>1. InBucket(used, "maps", Month(now)) + Cardinality(Owing)
            <= InBucket(count, "maps", Month(now)) + Cardinality(Workers)
      BY DEF MonthCovered
    <2> QED
      BY <1>1, <1>2, <1>3, <2>1
  <1>6. \A k \in Months : Month(now) < k => InBucket(used', "maps", k) = 0
    BY DEF MonthCovered
  <1> QED
    BY <1>4, <1>5, <1>6 DEF MonthCovered

(* A step in which nobody counts a call to Maps or makes one. *)
LEMMA MonthQuiet ==
  ASSUME TypeOK, TypeOK', MonthCovered, now' = now, UNCHANGED count,
         \A k \in Months : InBucket(used', "maps", k) = InBucket(used, "maps", k),
         \A v \in Workers : \/ pc'[v] = pc[v] /\ job'[v] = job[v]
                            \/ pc'[v] \notin {"call", "count"}
                            \/ pc'[v] = "count" /\ job'[v].month = Month(now)
  PROVE  MonthCovered'
  <1>1. \A k \in Months : InBucket(count, "maps", k) \in Nat
    BY MonthTypes
  <1>2. Month(now) \in Nat
    BY MonthTypes
  <1>3. Owing' \subseteq Owing
    BY <1>2 DEF Owing
  <1> QED
    BY <1>1, <1>3, MonthKept

LEMMA MonthQuietStep ==
  ASSUME CountInv, TypeOK', MonthCovered, NEW w \in Workers,
         \/ \E a \in Addresses : GeocodeMiss(w, a)
         \/ \E c \in Channels : Send(w, c)
         \/ Route(w) \/ RecordRow(w) \/ Store(w)
         \/ SummaryMiss(w) \/ ReadViber(w) \/ ReadMaps(w) \/ Keep(w) \/ Crash(w)
  PROVE  MonthCovered'
  <1>1. TypeOK
    BY DEF CountInv
  <1>2. /\ now' = now /\ UNCHANGED count
        /\ \/ pc'[w] \notin {"call", "count"}
           \/ pc'[w] = "count" /\ job'[w].month = Month(now)
        /\ \A v \in Workers \ {w} : pc'[v] = pc[v] /\ job'[v] = job[v]
    <2>1. CASE RecordRow(w)
      <3>1. job[w] \in Job /\ Month(now) \in Months
        BY <1>1, MonthTypes DEF TypeOK
      <3>2. job'[w] = [job[w] EXCEPT !.month = Month(now)] /\ \A v \in Workers \ {w} : job'[v] = job[v]
        BY <1>1, <2>1 DEF RecordRow, TypeOK
      <3>3. job'[w].month = Month(now)
        BY <3>1, <3>2, JobChanges
      <3>4. pc'[w] = "count" /\ \A v \in Workers \ {w} : pc'[v] = pc[v]
        BY <1>1, <2>1 DEF RecordRow, Goto, TypeOK
      <3> QED
        BY <2>1, <3>2, <3>3, <3>4 DEF RecordRow, dbVars
    <2>2. CASE ReadViber(w) \/ ReadMaps(w)
      BY <1>1, <2>2 DEF ReadViber, ReadMaps, ReadBucket, Goto, TypeOK, dbVars
    <2>3. CASE Store(w) \/ Keep(w) \/ Crash(w)
      BY <1>1, <2>3 DEF Store, Keep, Crash, End, Goto, TypeOK, dbVars
    <2>4. CASE Route(w) \/ SummaryMiss(w)
      BY <1>1, <2>4 DEF Route, SummaryMiss, Begin, Goto, TypeOK, dbVars
    <2>5. CASE \E a \in Addresses : GeocodeMiss(w, a)
      BY <1>1, <2>5 DEF GeocodeMiss, Begin, Goto, TypeOK, dbVars
    <2>6. CASE \E c \in Channels : Send(w, c)
      BY <1>1, <2>6 DEF Send, Begin, Goto, TypeOK, dbVars
    <2> QED
      BY <2>1, <2>2, <2>3, <2>4, <2>5, <2>6
  <1>3. \A k \in Months : InBucket(used', "maps", k) = InBucket(used, "maps", k)
    <2>1. ASSUME NEW c \in Channels, Send(w, c)
          PROVE  \A k \in Months : InBucket(used', "maps", k) = InBucket(used, "maps", k)
      <3>1. used \in Counts /\ Month(now) \in Months /\ c \in Metrics /\ c \notin MapsMetrics
        BY <1>1, CountTypes, MetricKinds
      <3>2. used' = [used EXCEPT ![<<c, Month(now)>>] = @ + 1]
        BY <2>1 DEF Send, Use
      <3>3. \A k \in Months : InBucket(used', "maps", k) = InBucket(used, "maps", k) + 0
        BY <3>1, <3>2, BucketPlusOne
      <3> QED
        BY <1>1, <3>3, MonthTypes
    <2>2. CASE ~\E c \in Channels : Send(w, c)
      <3>1. UNCHANGED used
        BY <2>2 DEF GeocodeMiss, Route, RecordRow, Store, SummaryMiss, ReadViber, ReadMaps, ReadBucket,
                    Keep, Crash, historyVars
      <3> QED
        BY <3>1
    <2> QED
      BY <2>1, <2>2
  <1> QED
    BY <1>1, <1>2, <1>3, MonthQuiet

(* One more is counted: in this month it is owed, in a former one it was. *)
LEMMA MonthCountStep ==
  ASSUME CountInv, TypeOK', MonthCovered, NEW w \in Workers, RecordCount(w)
  PROVE  MonthCovered'
  <1> DEFINE c == job[w].metric
             i == job[w].month
  <1>1. /\ TypeOK /\ Month(now) \in Months /\ Month(now) \in Nat
        /\ count \in Counts /\ c \in Metrics /\ i \in Months /\ i \in Nat /\ i <= Month(now)
        /\ pc[w] = "count" /\ now' = now /\ UNCHANGED used
        /\ count' = [count EXCEPT ![<<c, i>>] = @ + 1]
    BY CountTotals, MonthTypes DEF CountInv, TypeOK, RecordCount
  <1>2. \A k \in Months : /\ InBucket(count, "maps", k) \in Nat
                          /\ InBucket(count', "maps", k)
                               = InBucket(count, "maps", k) + (IF c \in MapsMetrics /\ i = k THEN 1 ELSE 0)
    BY <1>1, MonthTypes, BucketPlusOne
  <1>3. /\ \A v \in Workers \ {w} : pc'[v] = pc[v] /\ job'[v] = job[v]
        /\ c \notin MapsMetrics => pc'[w] = "idle"
    BY <1>1 DEF RecordCount, AfterCount, End, Goto, TypeOK
  <1>4. CASE c \notin MapsMetrics \/ i < Month(now)
    <2>1. Owing' \subseteq Owing
      BY <1>1, <1>3, <1>4 DEF Owing
    <2>2. \A k \in Months : InBucket(count, "maps", k) <= InBucket(count', "maps", k)
      BY <1>2
    <2> QED
      BY <1>1, <2>1, <2>2, MonthKept
  <1>5. CASE c \in MapsMetrics /\ i = Month(now)
    <2>1. Owing' \subseteq Owing \cup {w}
      BY <1>1, <1>3 DEF Owing
    <2>2. /\ IsFiniteSet(Owing) /\ Cardinality(Owing) \in Nat /\ Cardinality(Workers) \in Nat
          /\ \A k \in Months : InBucket(used, "maps", k) \in Nat
      BY <1>1, MonthTypes
    <2>3. Cardinality(Owing') <= Cardinality(Owing) + 1 /\ Cardinality(Owing') \in Nat
      <3>1. IsFiniteSet(Owing \cup {w}) /\ Cardinality(Owing \cup {w}) <= Cardinality(Owing) + 1
        BY <2>2, FS_AddElement
      <3>2. IsFiniteSet(Owing') /\ Cardinality(Owing') <= Cardinality(Owing \cup {w})
        BY <2>1, <3>1, FS_Subset
      <3>3. Cardinality(Owing') \in Nat /\ Cardinality(Owing \cup {w}) \in Nat
        BY <3>1, <3>2, FS_CardinalityType
      <3> QED
        BY <2>2, <3>1, <3>2, <3>3
    <2>4. InBucket(count', "maps", Month(now)) = InBucket(count, "maps", Month(now)) + 1
      BY <1>1, <1>2, <1>5
    <2>5. InBucket(used, "maps", Month(now)) + Cardinality(Owing)
            <= InBucket(count, "maps", Month(now)) + Cardinality(Workers)
      BY DEF MonthCovered
    <2>6. InBucket(used, "maps", Month(now)) + Cardinality(Owing')
            <= InBucket(count', "maps", Month(now)) + Cardinality(Workers)
      BY <1>1, <1>2, <2>2, <2>3, <2>4, <2>5
    <2>7. ASSUME NEW k \in Months
          PROVE  InBucket(used, "maps", k) <= InBucket(count', "maps", k) + Cardinality(Workers)
      <3>1. InBucket(used, "maps", k) <= InBucket(count, "maps", k) + Cardinality(Workers)
        BY DEF MonthCovered
      <3>2. InBucket(count, "maps", k) <= InBucket(count', "maps", k)
            /\ InBucket(count, "maps", k) \in Nat /\ InBucket(count', "maps", k) \in Nat
        BY <1>2
      <3> QED
        BY <2>2, <3>1, <3>2
    <2>8. \A k \in Months : Month(now) < k => InBucket(used, "maps", k) = 0
      BY DEF MonthCovered
    <2> QED
      BY <1>1, <2>6, <2>7, <2>8 DEF MonthCovered
  <1> HIDE DEF c, i
  <1> QED
    BY <1>1, <1>4, <1>5

(* Maps is asked: who asks owes it no more. *)
LEMMA MonthCallStep ==
  ASSUME CountInv, TypeOK', MonthCovered, NEW w \in Workers, Geocode(w) \/ ComputeRoute(w)
  PROVE  MonthCovered'
  <1> DEFINE c == job[w].metric
  <1>1. /\ TypeOK /\ Month(now) \in Months /\ used \in Counts /\ c \in MapsMetrics /\ c \in Metrics
        /\ now' = now /\ UNCHANGED count
        /\ Use(c) \/ UNCHANGED used
    <2>1. c \in MapsMetrics
      BY DEF Geocode, ComputeRoute, MapsMetrics
    <2>2. Use(c) \/ UNCHANGED used
      BY DEF Geocode, ComputeRoute
    <2>3. now' = now /\ UNCHANGED count
      BY DEF Geocode, ComputeRoute, dbVars
    <2> QED
      BY <2>1, <2>2, <2>3, CountTypes, MetricKinds DEF CountInv
  <1>2. w \in Owing /\ Owing' \subseteq Owing \ {w}
    <2>1. /\ pc[w] = "call" /\ pc'[w] \in {"idle", "store"}
          /\ \A v \in Workers \ {w} : pc'[v] = pc[v] /\ job'[v] = job[v]
      BY <1>1 DEF Geocode, ComputeRoute, End, Goto, TypeOK
    <2> QED
      BY <1>1, <2>1 DEF Owing
  <1> HIDE DEF c
  <1>3. /\ IsFiniteSet(Owing) /\ Cardinality(Owing) \in Nat /\ Cardinality(Workers) \in Nat
        /\ \A k \in Months : InBucket(used, "maps", k) \in Nat /\ InBucket(count, "maps", k) \in Nat
        /\ \A k \in Months : k \in Nat
        /\ Month(now) \in Nat
    BY <1>1, MonthTypes
  <1>4. Cardinality(Owing') <= Cardinality(Owing) - 1 /\ Cardinality(Owing') \in Nat
    <2>1. IsFiniteSet(Owing \ {w}) /\ Cardinality(Owing \ {w}) = Cardinality(Owing) - 1
      BY <1>2, <1>3, FS_RemoveElement
    <2>2. IsFiniteSet(Owing') /\ Cardinality(Owing') <= Cardinality(Owing \ {w})
      BY <1>2, <2>1, FS_Subset
    <2>3. Cardinality(Owing') \in Nat
      BY <2>2, FS_CardinalityType
    <2> QED
      BY <2>1, <2>2, <2>3
  <1>5. ASSUME NEW k \in Months
        PROVE  /\ InBucket(used', "maps", k) \in Nat
               /\ InBucket(used', "maps", k)
                    <= InBucket(used, "maps", k) + (IF k = Month(now) THEN 1 ELSE 0)
    <2>1. CASE UNCHANGED used
      BY <1>3, <2>1
    <2>2. CASE Use(c)
      <3>1. used' = [used EXCEPT ![<<c, Month(now)>>] = @ + 1]
        BY <2>2 DEF Use
      <3>2. InBucket(used', "maps", k) = InBucket(used, "maps", k) + (IF Month(now) = k THEN 1 ELSE 0)
        BY <1>1, <3>1, BucketPlusOne
      <3> QED
        BY <1>3, <3>2
    <2> QED
      BY <1>1, <2>1, <2>2
  <1>6. InBucket(used', "maps", Month(now)) + Cardinality(Owing')
          <= InBucket(count, "maps", Month(now)) + Cardinality(Workers)
    <2>1. InBucket(used, "maps", Month(now)) + Cardinality(Owing)
            <= InBucket(count, "maps", Month(now)) + Cardinality(Workers)
      BY DEF MonthCovered
    <2>2. InBucket(used', "maps", Month(now)) <= InBucket(used, "maps", Month(now)) + 1
          /\ InBucket(used', "maps", Month(now)) \in Nat
      BY <1>1, <1>5
    <2> QED
      BY <1>1, <1>3, <1>4, <2>1, <2>2
  <1>7. ASSUME NEW k \in Months
        PROVE  InBucket(used', "maps", k) <= InBucket(count, "maps", k) + Cardinality(Workers)
    <2>1. CASE k = Month(now)
      BY <1>3, <1>4, <1>5, <1>6, <2>1
    <2>2. CASE k # Month(now)
      <3>1. InBucket(used, "maps", k) <= InBucket(count, "maps", k) + Cardinality(Workers)
        BY DEF MonthCovered
      <3> QED
        BY <1>3, <1>5, <2>2, <3>1
    <2> QED
      BY <2>1, <2>2
  <1>8. ASSUME NEW k \in Months, Month(now) < k PROVE InBucket(used', "maps", k) = 0
    <2>1. InBucket(used, "maps", k) = 0
      BY <1>8 DEF MonthCovered
    <2>2. k # Month(now)
      BY <1>3, <1>8
    <2> QED
      BY <1>3, <1>5, <2>1, <2>2
  <1> QED
    BY <1>1, <1>6, <1>7, <1>8 DEF MonthCovered

(* The month may turn: the new one has no use yet, and no more may owe it *)
(* than there are workers.                                                *)
LEMMA MonthTickStep ==
  ASSUME CountInv, TypeOK', MonthCovered, Tick
  PROVE  MonthCovered'
  <1>1. TypeOK /\ TypeOK' /\ JobsPlaced /\ UNCHANGED <<pc, count, used>> /\ now' = now + 1
    BY DEF CountInv, Tick, dbVars
  <1>2. /\ Month(now) \in Nat /\ Month(now') \in Nat /\ Month(now') \in Months /\ Month(now) <= Month(now')
        /\ now \in Nat
    <2>1. now \in Nat /\ now' \in Nat /\ now <= now'
      BY <1>1, MonthFacts DEF TypeOK
    <2>2. Month(now') \in Months
      BY <1>1, MonthFacts DEF TypeOK
    <2> QED
      BY <2>1, <2>2, MonthGrows
  <1>3. /\ \A k \in Months : InBucket(used, "maps", k) \in Nat /\ InBucket(count, "maps", k) \in Nat
        /\ Cardinality(Workers) \in Nat /\ \A k \in Months : k \in Nat
    BY <1>1, MonthTypes
  <1>4. \A w \in Workers : job'[w].metric = job[w].metric /\ job'[w].month = job[w].month
    <2>1. ASSUME NEW w \in Workers
          PROVE  job'[w].metric = job[w].metric /\ job'[w].month = job[w].month
      <3> DEFINE slow == job[w].slow \/ pc[w] \in {"viber", "maps", "keep"}
      <3>1. job[w] \in Job /\ slow \in BOOLEAN
        BY <1>1, JobChanges DEF TypeOK
      <3>2. job'[w] = [job[w] EXCEPT !.slow = slow]
        BY Zenon DEF Tick
      <3> HIDE DEF slow
      <3> QED
        BY <3>1, <3>2, SlowJob
    <2> QED
      BY <2>1
  <1>5. CASE Month(now') = Month(now)
    <2>1. Owing' \subseteq Owing
      BY <1>1, <1>4, <1>5 DEF Owing
    <2> QED
      BY <1>1, <1>3, <1>5, <2>1, MonthKept
  <1>6. CASE Month(now) < Month(now')
    <2>1. InBucket(used, "maps", Month(now')) = 0
      BY <1>2, <1>6 DEF MonthCovered
    <2>2. Cardinality(Owing') \in Nat /\ Cardinality(Owing') <= Cardinality(Workers)
      <3>1. Owing' \in SUBSET Workers /\ Workers \in SUBSET Workers
        BY DEF Owing
      <3> QED
        BY <3>1, PendingFinite
    <2>3. InBucket(used, "maps", Month(now')) + Cardinality(Owing')
            <= InBucket(count, "maps", Month(now')) + Cardinality(Workers)
      BY <1>2, <1>3, <2>1, <2>2
    <2>4. \A k \in Months : InBucket(used, "maps", k) <= InBucket(count, "maps", k) + Cardinality(Workers)
      BY DEF MonthCovered
    <2>5. ASSUME NEW k \in Months, Month(now') < k PROVE InBucket(used, "maps", k) = 0
      <3>1. Month(now) < k
        BY <1>2, <1>3, <2>5
      <3> QED
        BY <3>1 DEF MonthCovered
    <2> QED
      BY <1>1, <2>3, <2>4, <2>5 DEF MonthCovered
  <1> QED
    BY <1>2, <1>5, <1>6

LEMMA MonthStep == CountInv /\ TypeOK' /\ MonthCovered /\ [Next]_vars => MonthCovered'
  <1> SUFFICES ASSUME CountInv, TypeOK', MonthCovered, [Next]_vars PROVE MonthCovered'
    OBVIOUS
  <1>1. TypeOK
    BY DEF CountInv
  <1>2. ASSUME NEW p \in Processes, Restart(p) PROVE MonthCovered'
    <2>1. /\ now' = now /\ UNCHANGED <<count, used>>
          /\ \A v \in Workers : (pc'[v] = pc[v] /\ job'[v] = job[v]) \/ pc'[v] = "idle"
      BY <1>2 DEF Restart, dbVars
    <2> QED
      BY <1>1, <2>1, MonthQuiet
  <1>3. CASE UNCHANGED vars
    <2>1. UNCHANGED <<now, count, used, pc, job>>
      BY <1>3 DEF vars, dbVars, historyVars
    <2> QED
      BY <1>1, <2>1, MonthQuiet
  <1> QED
    BY <1>2, <1>3, MonthQuietStep, MonthCountStep, MonthCallStep, MonthTickStep DEF Next, Work

LEMMA MonthInit == Init => MonthCovered
  <1> SUFFICES ASSUME Init PROVE MonthCovered
    OBVIOUS
  <1>1. TypeOK
    BY CountInit DEF CountInv
  <1>2. \A k \in Months : InBucket(used, "maps", k) = 0
    BY ChannelsAssumption DEF Init, InBucket, Metrics, MapsMetrics
  <1> QED
    BY <1>1, <1>2, MonthTypes DEF MonthCovered

(***************************************************************************)
(* The count of Maps is nearly right month by month: no month misses more  *)
(* calls than there are workers, because a worker is between its count and *)
(* its call with one call at a time, and ProviderUsage.record takes the    *)
(* month anew for each.                                                    *)
(***************************************************************************)
THEOREM MonthsNearlyRight == Spec => []MonthMissesFew
  <1>1. CountInv => TypeOK
    BY DEF CountInv
  <1>2. MonthCovered => MonthMissesFew
    BY DEF MonthCovered, MonthMissesFew
  <1> QED
    BY <1>1, <1>2, MonthInit, MonthStep, CountsHold, PTL DEF Spec

=============================================================================
