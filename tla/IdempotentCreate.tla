-------------------------- MODULE IdempotentCreate --------------------------
(***************************************************************************)
(* Creating deliveries through the REST API with an Idempotency-Key        *)
(* (deliveries/api.py, POST /deliveries).  A client that got no answer     *)
(* sends the request again with the same key, to any worker, while the     *)
(* first may still be running.  The key is looked up first and its row is  *)
(* inserted last, each in a statement of its own.                          *)
(***************************************************************************)
EXTENDS Naturals, FiniteSets

CONSTANTS
  Workers,       \* worker threads
  Shops,         \* shops, known from the API key of the request
  Keys,          \* Idempotency-Key headers, chosen by each shop on its own
  MaxDeliveries, \* bound: deliveries inserted in a behaviour
  NoShop, NoKey  \* no delivery; no header

ASSUME ShopsAssumption == NoShop \notin Shops
ASSUME KeysAssumption == NoKey \notin Keys
ASSUME MaxDeliveriesAssumption == MaxDeliveries \in Nat

Ids     == 1..MaxDeliveries
Owners  == Shops \cup {NoShop}
Headers == Keys \cup {NoKey}

VARIABLES
  deliveries, \* owner of each delivery row, NoShop when there is no such row
  next,       \* the next primary key
  keys,       \* ApiIdempotencyKey: the delivery of a shop's key, 0 without one
  pc,         \* where each worker stands
  mem,        \* the request each worker serves and the delivery it has in hand
  made,       \* history: the header each delivery was made with
  answers,    \* history: what clients were told for their keys
  cut         \* history: a worker died

vars == <<deliveries, next, keys, pc, mem, made, answers, cut>>

Request == [shop : Owners, key : Headers, id : Nat]
Answer  == [shop : Shops, key : Keys, id : Ids]
Blank   == [shop |-> NoShop, key |-> NoKey, id |-> 0]

TypeOK ==
  /\ deliveries \in [Ids -> Owners]
  /\ next \in 1..(MaxDeliveries + 1)
  /\ keys \in [Shops -> [Keys -> Ids \cup {0}]]
  /\ pc \in [Workers -> {"idle", "lookup", "create", "source", "key", "clash", "answer"}]
  /\ mem \in [Workers -> Request]
  /\ made \in [Ids -> Headers]
  /\ answers \in SUBSET Answer
  /\ cut \in BOOLEAN

Init ==
  /\ deliveries = [i \in Ids |-> NoShop]
  /\ next = 1
  /\ keys = [s \in Shops |-> [k \in Keys |-> 0]]
  /\ pc = [w \in Workers |-> "idle"]
  /\ mem = [w \in Workers |-> Blank]
  /\ made = [i \in Ids |-> NoKey]
  /\ answers = {}
  /\ cut = FALSE

-----------------------------------------------------------------------------
Goto(w, place) == pc' = [pc EXCEPT ![w] = place]

Hold(w, id) == mem' = [mem EXCEPT ![w] = [@ EXCEPT !.id = id]]

(* The delivery of the request's key, 0 without one. *)
Existing(w) == keys[mem[w].shop][mem[w].key]

(* A valid request; without the header the key is neither read nor stored. *)
Receive(w, s, k) ==
  /\ pc[w] = "idle"
  /\ Goto(w, IF k = NoKey THEN "create" ELSE "lookup")
  /\ mem' = [mem EXCEPT ![w] = [shop |-> s, key |-> k, id |-> 0]]
  /\ UNCHANGED <<deliveries, next, keys, made, answers, cut>>

Lookup(w) ==
  /\ pc[w] = "lookup"
  /\ IF Existing(w) # 0
       THEN Hold(w, Existing(w)) /\ Goto(w, "answer")
       ELSE UNCHANGED mem /\ Goto(w, "create")
  /\ UNCHANGED <<deliveries, next, keys, made, answers, cut>>

(* create_delivery: the address is geocoded, the row inserted ... *)
Create(w) ==
  /\ pc[w] = "create"
  /\ next \in Ids
  /\ deliveries' = [deliveries EXCEPT ![next] = mem[w].shop]
  /\ next' = next + 1
  /\ made' = [made EXCEPT ![next] = mem[w].key]
  /\ Hold(w, next)
  /\ Goto(w, "source")
  /\ UNCHANGED <<keys, answers, cut>>

(* ... and the source, which defaults to the cabinet, is set to API. *)
SetSource(w) ==
  /\ pc[w] = "source"
  /\ Goto(w, IF mem[w].key = NoKey THEN "answer" ELSE "key")
  /\ UNCHANGED <<deliveries, next, keys, mem, made, answers, cut>>

(* A slip for StoreKey: the key's row is overwritten, not inserted. *)
OverwriteKey(w) ==
  /\ pc[w] = "key"
  /\ keys' = [keys EXCEPT ![mem[w].shop] = [@ EXCEPT ![mem[w].key] = mem[w].id]]
  /\ Goto(w, "answer")
  /\ UNCHANGED <<deliveries, next, mem, made, answers, cut>>

StoreKey(w) ==
  /\ pc[w] = "key"
  /\ Existing(w) = 0
  /\ keys' = [keys EXCEPT ![mem[w].shop] = [@ EXCEPT ![mem[w].key] = mem[w].id]]
  /\ Goto(w, "answer")
  /\ UNCHANGED <<deliveries, next, mem, made, answers, cut>>

(* uniq_idempotency_key_per_shop: another request was first. *)
KeyTaken(w) ==
  /\ pc[w] = "key"
  /\ Existing(w) # 0
  /\ Goto(w, "clash")
  /\ UNCHANGED <<deliveries, next, keys, mem, made, answers, cut>>

(* A slip for Yield: the request's own delivery stays. *)
YieldWithoutErasing(w) ==
  /\ pc[w] = "clash"
  /\ Hold(w, Existing(w))
  /\ Goto(w, "answer")
  /\ UNCHANGED <<deliveries, next, keys, made, answers, cut>>

(* A slip for Yield: the delivery of the key is erased instead. *)
YieldErasesWinner(w) ==
  /\ pc[w] = "clash"
  /\ deliveries' = [deliveries EXCEPT ![Existing(w)] = NoShop]
  /\ Hold(w, Existing(w))
  /\ Goto(w, "answer")
  /\ UNCHANGED <<next, keys, made, answers, cut>>

(* Its delivery is the answer; this request's own is erased. *)
Yield(w) ==
  /\ pc[w] = "clash"
  /\ deliveries' = [deliveries EXCEPT ![mem[w].id] = NoShop]
  /\ Hold(w, Existing(w))
  /\ Goto(w, "answer")
  /\ UNCHANGED <<next, keys, made, answers, cut>>

Reply(w) ==
  /\ pc[w] = "answer"
  /\ answers' = IF mem[w].key = NoKey THEN answers ELSE answers \cup {mem[w]}
  /\ Goto(w, "idle")
  /\ mem' = [mem EXCEPT ![w] = Blank]
  /\ UNCHANGED <<deliveries, next, keys, made, cut>>

(* The worker dies; the client gets no answer. *)
Crash(w) ==
  /\ pc[w] # "idle"
  /\ Goto(w, "idle")
  /\ mem' = [mem EXCEPT ![w] = Blank]
  /\ cut' = TRUE
  /\ UNCHANGED <<deliveries, next, keys, made, answers>>

Work(w) ==
  \/ Lookup(w) \/ Create(w) \/ SetSource(w)
  \/ StoreKey(w) \/ KeyTaken(w) \/ Yield(w) \/ Reply(w)

Next == \E w \in Workers :
  (\E s \in Shops, k \in Headers : Receive(w, s, k)) \/ Work(w) \/ Crash(w)

Spec == Init /\ [][Next]_vars

-----------------------------------------------------------------------------
Quiet == \A w \in Workers : pc[w] = "idle"

(***************************************************************************)
(* "The same key returns the same delivery": whatever clients were told    *)
(* for a shop's key, it was one delivery, it is that shop's and it is      *)
(* still there, in spite of overlapping requests, workers that die and     *)
(* duplicates that are erased (POST /deliveries).                          *)
(***************************************************************************)
SameKeySameDelivery ==
  \A a \in answers :
    /\ a.id = keys[a.shop][a.key]
    /\ deliveries[a.id] = a.shop

(* The deliveries of a shop that were made for a key. *)
MadeFor(s, k) == {i \in Ids : deliveries[i] = s /\ made[i] = k}

(***************************************************************************)
(* No duplicate outlives the requests that made it: once every request is  *)
(* served to its end, a key has the delivery it names and no other (the    *)
(* clash of ApiIdempotencyKey and delivery.delete).                        *)
(***************************************************************************)
NoDuplicateLeft ==
  Quiet /\ ~cut => \A s \in Shops, k \in Keys : MadeFor(s, k) \subseteq {keys[s][k]}

-----------------------------------------------------------------------------
(* A row is inserted once, under a fresh key. *)
FreshIds == \A i \in Ids : i >= next => deliveries[i] = NoShop

(* Each request has hold of a delivery of its shop: its own, or its key's. *)
HandsOK ==
  \A w \in Workers :
    /\ pc[w] # "idle" => mem[w].shop \in Shops
    /\ pc[w] \in {"lookup", "key", "clash"} => mem[w].key \in Keys
    /\ pc[w] \in {"source", "key", "clash"} =>
         mem[w].id \in Ids /\ mem[w].id < next /\ deliveries[mem[w].id] = mem[w].shop
    /\ pc[w] = "clash" => Existing(w) \notin {0, mem[w].id}
    /\ pc[w] = "answer" /\ mem[w].key # NoKey => mem[w].id = Existing(w) /\ mem[w].id # 0

(* The delivery a request has made is no other request's and no key's. *)
OwnDelivery ==
  \A w \in Workers : pc[w] \in {"source", "key", "clash"} =>
    /\ \A s \in Shops, k \in Keys : keys[s][k] # mem[w].id
    /\ \A v \in Workers : v # w /\ pc[v] \in {"source", "key", "clash"} => mem[v].id # mem[w].id

(* A key names an existing delivery of its shop, and one key names it. *)
KeysOK ==
  \A s \in Shops, k \in Keys : keys[s][k] # 0 =>
    keys[s][k] < next /\ deliveries[keys[s][k]] = s

(***************************************************************************)
(* The inductive invariant behind SameKeySameDelivery (the statements of   *)
(* POST /deliveries taken together).                                       *)
(***************************************************************************)
IInv ==
  /\ TypeOK
  /\ FreshIds
  /\ HandsOK
  /\ OwnDelivery
  /\ KeysOK
  /\ SameKeySameDelivery

(***************************************************************************)
(* The invariant behind NoDuplicateLeft: while nothing is cut short a      *)
(* delivery made for a key is the key's or in the hands of the request     *)
(* that made it.                                                           *)
(***************************************************************************)
Holds(w, s, k, i) == pc[w] \in {"source", "key", "clash"} /\ mem[w] = [shop |-> s, key |-> k, id |-> i]

NoOrphans ==
  ~cut => \A s \in Shops, k \in Keys : \A i \in MadeFor(s, k) :
            i = keys[s][k] \/ \E w \in Workers : Holds(w, s, k, i)

-----------------------------------------------------------------------------
(* The delivery of a shop's key, if it is there and the shop's. *)
Standing ==
  [s \in Shops |-> [k \in Keys |->
     IF keys[s][k] # 0 /\ deliveries[keys[s][k]] = s THEN keys[s][k] ELSE 0]]

Promise == INSTANCE KeyPromise WITH stands <- Standing, told <- answers

(***************************************************************************)
(* "The same key returns the same delivery", as an abstract specification: *)
(* the insert of the key settles the delivery, an answer tells it, and     *)
(* neither a duplicate that is erased nor a worker that dies touches what  *)
(* is settled (POST /deliveries).                                          *)
(***************************************************************************)
KeepsPromise == Promise!Spec

=============================================================================
