------------------------- MODULE RatingRequestProofs -------------------------
(***************************************************************************)
(* Safety of the rating request, for any number of workers, any numbers    *)
(* and ratings and any number of crashes.                                  *)
(***************************************************************************)
EXTENDS RatingRequest, TLAPS

LEMMA BlankType == Blank \in Instance
  BY PhonesAssumption DEF Blank, Instance

LEMMA TypeInit == Init => TypeOK
  <1> SUFFICES ASSUME Init PROVE TypeOK
    OBVIOUS
  <1>1. mem \in [Workers -> Instance] /\ crashes \in 0..MaxCrashes
    BY BlankType, MaxCrashesAssumption DEF Init
  <1>2. requests \in Seq({"queued", "sent", "failed"}) /\ optedOut \in SUBSET Phones
    BY DEF Init
  <1> QED
    BY <1>1, <1>2 DEF Init, TypeOK

LEMMA EndType ==
  ASSUME TypeOK, NEW w \in Workers, End(w)
  PROVE  (pc' \in [Workers -> {"idle", "exists", "blocklist", "create", "send", "sent", "failed",
                               "optout", "correct", "find", "insert", "update", "emit"}])
         /\ op' \in [Workers -> {"none", "callback", "unsubscribe", "resend", "rate"}]
         /\ mem' \in [Workers -> Instance] /\ overlapped' \in BOOLEAN
  BY BlankType DEF End, TypeOK

LEMMA EnterType ==
  ASSUME TypeOK, NEW w \in Workers, NEW o, NEW place, NEW value \in Values \cup {NoRating},
         Enter(w, o, place, value)
  PROVE  mem' \in [Workers -> Instance] /\ overlapped' \in BOOLEAN
         /\ mem'[w].phone = phone /\ mem'[w].value = value
  <1>1. [mem[w] EXCEPT !.phone = phone, !.value = value] \in Instance
    BY DEF TypeOK, Instance
  <1>2. mem' = [mem EXCEPT ![w] = [mem[w] EXCEPT !.phone = phone, !.value = value]]
    BY DEF Enter
  <1>3. [mem[w] EXCEPT !.phone = phone, !.value = value].phone = phone
        /\ [mem[w] EXCEPT !.phone = phone, !.value = value].value = value
    BY DEF TypeOK, Instance
  <1>4. mem' \in [Workers -> Instance] /\ mem'[w].phone = phone /\ mem'[w].value = value
    BY <1>1, <1>2, <1>3 DEF TypeOK
  <1> QED
    BY <1>4 DEF Enter

LEMMA TypeStep == TypeOK /\ [Next]_vars => TypeOK'
  <1> SUFFICES ASSUME TypeOK, [Next]_vars PROVE TypeOK'
    OBVIOUS
  <1> USE DEF dbVars, hisVars
  <1>1. ASSUME NEW w \in Workers, CallbackLoad(w) \/ UnsubscribeLoad(w) \/ ResendLoad(w) PROVE TypeOK'
    <2>1. mem' \in [Workers -> Instance] /\ overlapped' \in BOOLEAN
      BY <1>1, EnterType DEF CallbackLoad, UnsubscribeLoad, ResendLoad
    <2> QED
      BY <1>1, <2>1 DEF CallbackLoad, UnsubscribeLoad, ResendLoad, Enter, TypeOK
  <1>2. ASSUME NEW w \in Workers, RateLoad(w) PROVE TypeOK'
    <2>1. mem' \in [Workers -> Instance] /\ overlapped' \in BOOLEAN
      BY <1>2, EnterType DEF RateLoad
    <2> QED
      BY <1>2, <2>1 DEF RateLoad, Enter, TypeOK
  <1>3. ASSUME NEW w \in Workers, CallbackDuplicate(w) \/ CallbackOptedOut(w) PROVE TypeOK'
    BY <1>3, EndType DEF CallbackDuplicate, CallbackOptedOut, Acknowledge, TypeOK
  <1>4. ASSUME NEW w \in Workers, CallbackFirst(w) \/ CallbackAllowed(w) \/ RateFind(w) PROVE TypeOK'
    BY <1>4 DEF CallbackFirst, CallbackAllowed, RateFind, Proceed, TypeOK
  <1>5. ASSUME NEW w \in Workers, CallbackCreate(w) PROVE TypeOK'
    <2>1. requests' \in Seq({"queued", "sent", "failed"}) /\ Len(requests) + 1 \in Nat
      BY <1>5 DEF CallbackCreate, TypeOK
    <2>2. [mem[w] EXCEPT !.id = Len(requests) + 1] \in Instance
      BY <2>1 DEF TypeOK, Instance
    <2>3. mem' \in [Workers -> Instance]
      BY <1>5, <2>2 DEF CallbackCreate, TypeOK
    <2> QED
      BY <1>5, <2>1, <2>3 DEF CallbackCreate, TypeOK
  <1>6. ASSUME NEW w \in Workers, CallbackSend(w) PROVE TypeOK'
    BY <1>6 DEF CallbackSend, Proceed, TypeOK
  <1>7. ASSUME NEW w \in Workers, CallbackRecord(w) PROVE TypeOK'
    <2>1. requests' \in Seq({"queued", "sent", "failed"})
      <3>1. PICK outcome \in {"sent", "failed"} : requests' = [requests EXCEPT ![mem[w].id] = outcome]
        BY <1>7 DEF CallbackRecord
      <3>2. requests \in Seq({"queued", "sent", "failed"})
        BY DEF TypeOK
      <3>3. /\ Len(requests) \in Nat
            /\ requests \in [1..Len(requests) -> {"queued", "sent", "failed"}]
        BY <3>2
      <3>4. requests' \in [1..Len(requests) -> {"queued", "sent", "failed"}]
        BY <3>1, <3>3
      <3> QED
        BY <3>3, <3>4
    <2> QED
      BY <1>7, <2>1, EndType DEF CallbackRecord, Acknowledge, TypeOK
  <1>8. ASSUME NEW w \in Workers, Unsubscribe(w) \/ ResendCorrect(w) \/ RateEmit(w) PROVE TypeOK'
    <2>1. mem[w].phone \in Phones
      BY DEF TypeOK, Instance
    <2> QED
      BY <1>8, <2>1, EndType DEF Unsubscribe, ResendCorrect, RateEmit, TypeOK
  <1>9. ASSUME NEW w \in Workers, RateInsert(w) \/ RateUpdate(w) PROVE TypeOK'
    <2>1. mem[w].value \in Values \cup {NoRating}
      BY DEF TypeOK, Instance
    <2>2. rating' \in Values \cup {NoRating}
      BY <1>9, <2>1 DEF RateInsert, RateUpdate, TypeOK
    <2>3. CASE RateInsert(w)
      BY <2>2, <2>3 DEF RateInsert, Proceed, TypeOK
    <2>4. CASE RateUpdate(w)
      BY <2>2, <2>4, EndType DEF RateUpdate, TypeOK
    <2> QED
      BY <1>9, <2>3, <2>4
  <1>10. ASSUME NEW w \in Workers, Crash(w) PROVE TypeOK'
    <2>1. crashes' \in 0..MaxCrashes
      BY <1>10, MaxCrashesAssumption DEF Crash, TypeOK
    <2> QED
      BY <1>10, <2>1, EndType DEF Crash, TypeOK
  <1>11. ASSUME NEW p \in Phones, StopReply(p) PROVE TypeOK'
    BY <1>11 DEF StopReply, TypeOK
  <1>12. CASE Expire \/ UNCHANGED vars
    BY <1>12 DEF Expire, vars, TypeOK
  <1> QED
    BY <1>1, <1>2, <1>3, <1>4, <1>5, <1>6, <1>7, <1>8, <1>9, <1>10, <1>11, <1>12 DEF Next, Arrive, Work

-----------------------------------------------------------------------------
(***************************************************************************)
(* The inductive invariant.  A worker stands only at the places of its     *)
(* handler, with a rating in hand where it posts one.                      *)
(***************************************************************************)
PlacesOK ==
  \A w \in Workers :
    /\ pc[w] = "idle" <=> op[w] = "none"
    /\ pc[w] \in {"exists", "blocklist", "create", "send", "sent", "failed"} <=> op[w] = "callback"
    /\ pc[w] \in {"find", "insert", "update"} => mem[w].value # NoRating

(* Callbacks that do not overlap: one of them at a time, one row, one request. *)
OneCallback ==
  ~overlapped =>
    /\ \A v, w \in Workers : op[v] = "callback" /\ op[w] = "callback" => v = w
    /\ Len(requests) <= 1 /\ asked <= Len(requests)
    /\ \A w \in Workers :
         /\ pc[w] \in {"blocklist", "create"} => requests = <<>>
         /\ pc[w] = "send" => asked = 0 /\ Len(requests) = 1

(* The event of a rating has been told or is about to be told by one worker. *)
OneEvent ==
  /\ \A v, w \in Workers : pc[v] = "emit" /\ pc[w] = "emit" => v = w
  /\ events <= 1
  /\ \A w \in Workers :
       /\ pc[w] = "emit" => events = 0
       /\ pc[w] \in {"emit", "update"} => rating # NoRating
  /\ rating = NoRating => events = 0
  /\ rating # NoRating /\ crashes = 0 => events = 1 \/ \E w \in Workers : pc[w] = "emit"

IInv == TypeOK /\ PlacesOK /\ OneCallback /\ OneEvent

LEMMA PlacesStep == TypeOK /\ PlacesOK /\ [Next]_vars => PlacesOK'
  <1> SUFFICES ASSUME TypeOK, PlacesOK, [Next]_vars PROVE PlacesOK'
    OBVIOUS
  <1> USE DEF dbVars, hisVars
  <1>1. ASSUME NEW w \in Workers, CallbackLoad(w) \/ UnsubscribeLoad(w) \/ ResendLoad(w) PROVE PlacesOK'
    BY <1>1 DEF CallbackLoad, UnsubscribeLoad, ResendLoad, Enter, PlacesOK, TypeOK
  <1>2. ASSUME NEW w \in Workers, RateLoad(w) PROVE PlacesOK'
    <2>1. PICK v \in Values : Enter(w, "rate", "find", v)
      BY <1>2 DEF RateLoad
    <2>2. mem'[w].value = v /\ v # NoRating
      BY <2>1, EnterType, RatingAssumption
    <2> QED
      BY <2>1, <2>2 DEF Enter, PlacesOK, TypeOK
  <1>3. ASSUME NEW w \in Workers, End(w) PROVE PlacesOK'
    BY <1>3 DEF End, PlacesOK, TypeOK
  <1>4. ASSUME NEW w \in Workers, CallbackFirst(w) \/ CallbackAllowed(w) \/ RateFind(w) \/ CallbackSend(w)
        PROVE  PlacesOK'
    BY <1>4 DEF CallbackFirst, CallbackAllowed, RateFind, CallbackSend, Proceed, PlacesOK, TypeOK
  <1>5. ASSUME NEW w \in Workers, CallbackCreate(w) PROVE PlacesOK'
    <2>1. \A v \in Workers \ {w} : mem'[v] = mem[v] /\ pc'[v] = pc[v]
      BY <1>5 DEF CallbackCreate, TypeOK
    <2>2. pc[w] = "create" /\ pc'[w] = "send" /\ UNCHANGED op
      BY <1>5 DEF CallbackCreate, TypeOK
    <2> QED
      BY <2>1, <2>2 DEF PlacesOK
  <1>6. ASSUME NEW w \in Workers, RateInsert(w) PROVE PlacesOK'
    BY <1>6 DEF RateInsert, Proceed, PlacesOK, TypeOK
  <1>7. ASSUME NEW w \in Workers,
               CallbackDuplicate(w) \/ CallbackOptedOut(w) \/ CallbackRecord(w) \/ Unsubscribe(w)
                 \/ ResendCorrect(w) \/ RateUpdate(w) \/ RateEmit(w) \/ Crash(w)
        PROVE  End(w)
    BY <1>7 DEF CallbackDuplicate, CallbackOptedOut, CallbackRecord, Acknowledge, Unsubscribe,
         ResendCorrect, RateUpdate, RateEmit, Crash
  <1>8. CASE Expire \/ UNCHANGED vars \/ \E p \in Phones : StopReply(p)
    BY <1>8 DEF Expire, vars, StopReply, PlacesOK
  <1> QED
    BY <1>1, <1>2, <1>3, <1>4, <1>5, <1>6, <1>7, <1>8 DEF Next, Arrive, Work

LEMMA CallbackStep == TypeOK /\ PlacesOK /\ OneCallback /\ [Next]_vars => OneCallback'
  <1> SUFFICES ASSUME TypeOK, PlacesOK, OneCallback, [Next]_vars, ~overlapped' PROVE OneCallback'
    BY DEF OneCallback
  <1> USE DEF dbVars, hisVars
  <1> DEFINE Callback(w) == pc[w] \in {"exists", "blocklist", "create", "send", "sent", "failed"}
             Was == /\ \A v, w \in Workers : op[v] = "callback" /\ op[w] = "callback" => v = w
                    /\ Len(requests) <= 1 /\ asked <= Len(requests)
                    /\ \A w \in Workers :
                         /\ pc[w] \in {"blocklist", "create"} => requests = <<>>
                         /\ pc[w] = "send" => asked = 0 /\ Len(requests) = 1
  <1>0. Len(requests) \in Nat /\ asked \in Nat
    BY DEF TypeOK
  <1>1. ~overlapped => Was
    BY DEF OneCallback
  <1>2. ASSUME ~overlapped, UNCHANGED <<requests, asked>>,
               \A v \in Workers : op'[v] = "callback" => op[v] = "callback",
               \A v \in Workers : pc'[v] \in {"blocklist", "create", "send"} => pc'[v] = pc[v]
        PROVE  OneCallback'
    BY <1>1, <1>2 DEF OneCallback
  <1>3. ASSUME NEW w \in Workers, CallbackLoad(w) PROVE OneCallback'
    <2>1. ~overlapped /\ \A v \in Workers : op[v] # "callback"
      BY <1>3 DEF CallbackLoad, Enter
    <2>2. \A v \in Workers : op'[v] = "callback" => v = w
      BY <1>3, <2>1 DEF CallbackLoad, Enter, TypeOK
    <2>3. \A v \in Workers : pc'[v] \in {"blocklist", "create", "send"} => pc'[v] = pc[v]
      BY <1>3 DEF CallbackLoad, Enter, TypeOK
    <2>4. UNCHANGED <<requests, asked>>
      BY <1>3 DEF CallbackLoad
    <2> QED
      BY <1>1, <2>1, <2>2, <2>3, <2>4 DEF OneCallback
  <1>4. ASSUME NEW w \in Workers, UnsubscribeLoad(w) \/ ResendLoad(w) \/ RateLoad(w) PROVE OneCallback'
    BY <1>2, <1>4 DEF UnsubscribeLoad, ResendLoad, RateLoad, Enter, TypeOK
  <1>5. ASSUME NEW w \in Workers, End(w), UNCHANGED <<requests, asked>> PROVE OneCallback'
    BY <1>2, <1>5 DEF End, TypeOK
  <1>6. ASSUME NEW w \in Workers,
               CallbackDuplicate(w) \/ CallbackOptedOut(w) \/ Unsubscribe(w)
                 \/ ResendCorrect(w) \/ RateUpdate(w) \/ RateEmit(w) \/ Crash(w)
        PROVE  End(w) /\ UNCHANGED <<requests, asked>>
    BY <1>6 DEF CallbackDuplicate, CallbackOptedOut, Acknowledge, Unsubscribe,
         ResendCorrect, RateUpdate, RateEmit, Crash
  <1>7. ASSUME NEW w \in Workers, CallbackFirst(w) PROVE OneCallback'
    <2>1. ~overlapped /\ requests = <<>> /\ UNCHANGED <<requests, asked, op>>
      BY <1>7 DEF CallbackFirst, Proceed
    <2>2. \A v \in Workers : pc'[v] \in {"create", "send"} => pc'[v] = pc[v]
      BY <1>7 DEF CallbackFirst, Proceed, TypeOK
    <2> QED
      BY <1>1, <2>1, <2>2 DEF OneCallback
  <1>8. ASSUME NEW w \in Workers, CallbackAllowed(w) PROVE OneCallback'
    <2>1. ~overlapped /\ requests = <<>> /\ UNCHANGED <<requests, asked, op>>
      BY <1>1, <1>8 DEF CallbackAllowed, Proceed
    <2>2. \A v \in Workers : pc'[v] \in {"blocklist", "send"} => pc'[v] = pc[v]
      BY <1>8 DEF CallbackAllowed, Proceed, TypeOK
    <2> QED
      BY <1>1, <2>1, <2>2 DEF OneCallback
  <1>9. ASSUME NEW w \in Workers, CallbackCreate(w) PROVE OneCallback'
    <2>1. ~overlapped /\ op[w] = "callback" /\ requests = <<>> /\ UNCHANGED <<op, asked>>
      BY <1>1, <1>9 DEF CallbackCreate, PlacesOK
    <2>2. asked = 0 /\ Len(requests') = 1
      BY <1>0, <1>1, <1>9, <2>1 DEF CallbackCreate
    <2>3. \A v \in Workers \ {w} : pc'[v] = pc[v] /\ pc[v] \notin {"blocklist", "create", "send"}
      BY <1>1, <1>9, <2>1 DEF CallbackCreate, PlacesOK, TypeOK
    <2>4. pc'[w] = "send"
      BY <1>9 DEF CallbackCreate, TypeOK
    <2> QED
      BY <1>1, <2>1, <2>2, <2>3, <2>4 DEF OneCallback
  <1>10. ASSUME NEW w \in Workers, CallbackSend(w) PROVE OneCallback'
    <2>1. ~overlapped /\ op[w] = "callback" /\ asked = 0 /\ Len(requests) = 1 /\ UNCHANGED <<op, requests>>
      BY <1>1, <1>10 DEF CallbackSend, Proceed, PlacesOK
    <2>2. asked' = 1
      BY <1>10, <2>1 DEF CallbackSend
    <2>3. \A v \in Workers : pc'[v] \notin {"blocklist", "create", "send"}
      BY <1>1, <1>10, <2>1 DEF CallbackSend, Proceed, PlacesOK, TypeOK
    <2> QED
      BY <1>1, <2>1, <2>2, <2>3 DEF OneCallback
  <1>11. ASSUME NEW w \in Workers, CallbackRecord(w) PROVE OneCallback'
    <2>1. ~overlapped /\ op[w] = "callback" /\ UNCHANGED asked
      BY <1>11 DEF CallbackRecord, Acknowledge, End, PlacesOK
    <2>2. Len(requests') = Len(requests)
      BY <1>11 DEF CallbackRecord, TypeOK
    <2>3. \A v \in Workers : pc'[v] \notin {"blocklist", "create", "send"}
      BY <1>1, <1>11, <2>1 DEF CallbackRecord, Acknowledge, End, PlacesOK, TypeOK
    <2>4. \A v \in Workers : op'[v] # "callback"
      BY <1>1, <1>11, <2>1 DEF CallbackRecord, Acknowledge, End, TypeOK
    <2> QED
      BY <1>1, <2>1, <2>2, <2>3, <2>4 DEF OneCallback
  <1>12. ASSUME NEW w \in Workers, RateFind(w) \/ RateInsert(w) PROVE OneCallback'
    BY <1>2, <1>12 DEF RateFind, RateInsert, Proceed, TypeOK
  <1>13. CASE Expire \/ UNCHANGED vars \/ \E p \in Phones : StopReply(p)
    BY <1>2, <1>13 DEF Expire, vars, StopReply
  <1> QED
    BY <1>3, <1>4, <1>5, <1>6, <1>7, <1>8, <1>9, <1>10, <1>11, <1>12, <1>13 DEF Next, Arrive, Work

LEMMA EventStep == TypeOK /\ PlacesOK /\ OneEvent /\ [Next]_vars => OneEvent'
  <1> SUFFICES ASSUME TypeOK, PlacesOK, OneEvent, [Next]_vars PROVE OneEvent'
    OBVIOUS
  <1> USE DEF dbVars, hisVars
  <1>0. events \in Nat /\ crashes \in Nat
    BY MaxCrashesAssumption DEF TypeOK
  <1>1. ASSUME UNCHANGED <<rating, events, crashes>>,
               \A v \in Workers : pc'[v] = "emit" <=> pc[v] = "emit",
               \A v \in Workers : pc'[v] = "update" => pc[v] = "update" \/ rating # NoRating
        PROVE  OneEvent'
    BY <1>1 DEF OneEvent
  <1>2. ASSUME NEW w \in Workers, Arrive(w) PROVE OneEvent'
    BY <1>1, <1>2 DEF Arrive, CallbackLoad, UnsubscribeLoad, ResendLoad, RateLoad, Enter, TypeOK
  <1>3. ASSUME NEW w \in Workers, CallbackDuplicate(w) \/ CallbackOptedOut(w) \/ CallbackRecord(w)
                                   \/ Unsubscribe(w) \/ ResendCorrect(w)
        PROVE  OneEvent'
    <2>1. UNCHANGED <<rating, events, crashes>> /\ End(w) /\ pc[w] # "emit"
      BY <1>3 DEF CallbackDuplicate, CallbackOptedOut, CallbackRecord, Acknowledge, Unsubscribe, ResendCorrect
    <2> QED
      BY <1>1, <2>1 DEF End, TypeOK
  <1>4. ASSUME NEW w \in Workers, CallbackFirst(w) \/ CallbackAllowed(w) \/ CallbackCreate(w) \/ CallbackSend(w)
        PROVE  OneEvent'
    BY <1>1, <1>4 DEF CallbackFirst, CallbackAllowed, CallbackCreate, CallbackSend, Proceed, TypeOK
  <1>5. ASSUME NEW w \in Workers, RateFind(w) PROVE OneEvent'
    BY <1>1, <1>5 DEF RateFind, Proceed, TypeOK
  <1>6. ASSUME NEW w \in Workers, RateInsert(w) PROVE OneEvent'
    <2>1. CASE rating = NoRating
      <3>1. /\ rating' = mem[w].value /\ mem[w].value # NoRating /\ UNCHANGED <<events, crashes>>
            /\ pc'[w] = "emit" /\ \A v \in Workers \ {w} : pc'[v] = pc[v]
        BY <1>6, <2>1 DEF RateInsert, Proceed, PlacesOK, TypeOK
      <3>2. events = 0 /\ \A v \in Workers : pc[v] \notin {"emit", "update"}
        BY <2>1 DEF OneEvent
      <3> QED
        BY <1>0, <3>1, <3>2 DEF OneEvent
    <2>2. CASE rating # NoRating
      BY <1>1, <1>6, <2>2 DEF RateInsert, Proceed, TypeOK
    <2> QED
      BY <2>1, <2>2
  <1>7. ASSUME NEW w \in Workers, RateUpdate(w) PROVE OneEvent'
    <2>1. /\ rating' # NoRating /\ rating # NoRating /\ UNCHANGED <<events, crashes>> /\ pc[w] = "update"
          /\ pc'[w] = "idle" /\ \A v \in Workers \ {w} : pc'[v] = pc[v]
      BY <1>7 DEF RateUpdate, End, PlacesOK, OneEvent, TypeOK
    <2> QED
      BY <2>1 DEF OneEvent
  <1>8. ASSUME NEW w \in Workers, RateEmit(w) PROVE OneEvent'
    <2>1. /\ events = 0 /\ events' = 1 /\ rating # NoRating /\ UNCHANGED <<rating, crashes>> /\ pc[w] = "emit"
          /\ pc'[w] = "idle" /\ \A v \in Workers \ {w} : pc'[v] = pc[v]
      BY <1>8 DEF RateEmit, End, OneEvent, TypeOK
    <2> QED
      BY <2>1 DEF OneEvent
  <1>9. ASSUME NEW w \in Workers, Crash(w) PROVE OneEvent'
    <2>1. /\ crashes' = crashes + 1 /\ UNCHANGED <<rating, events>>
          /\ pc'[w] = "idle" /\ \A v \in Workers \ {w} : pc'[v] = pc[v]
      BY <1>9 DEF Crash, End, TypeOK
    <2>2. crashes' # 0
      BY <1>0, <2>1
    <2> QED
      BY <2>1, <2>2 DEF OneEvent
  <1>10. CASE Expire \/ UNCHANGED vars \/ \E p \in Phones : StopReply(p)
    BY <1>1, <1>10 DEF Expire, vars, StopReply
  <1> QED
    BY <1>2, <1>3, <1>4, <1>5, <1>6, <1>7, <1>8, <1>9, <1>10 DEF Next, Work

(* Callbacks and posts of a rating, each kept apart from the other's rows. *)
THEOREM Invariant == Spec => []IInv
  <1>1. Init => IInv
    <2>1. Init => PlacesOK /\ OneCallback /\ OneEvent
      BY DEF Init, PlacesOK, OneCallback, OneEvent
    <2> QED
      BY <2>1, TypeInit DEF IInv
  <1>2. IInv /\ [Next]_vars => IInv'
    BY TypeStep, PlacesStep, CallbackStep, EventStep DEF IInv
  <1> QED
    BY <1>1, <1>2, PTL DEF Spec

(***************************************************************************)
(* The recipient is asked at most once as long as callbacks do not         *)
(* overlap, whatever dies and is repeated (send_rating_request).           *)
(***************************************************************************)
THEOREM AskedOnce == Spec => []AskedAtMostOnce
  <1>1. IInv => AskedAtMostOnce
    <2> SUFFICES ASSUME IInv, ~overlapped PROVE asked <= 1 /\ Len(requests) <= 1
      BY DEF AskedAtMostOnce
    <2>1. Len(requests) \in Nat /\ asked \in Nat
      BY DEF IInv, TypeOK
    <2> QED
      BY <2>1 DEF IInv, OneCallback
  <1> QED
    BY <1>1, Invariant, PTL

(***************************************************************************)
(* The merchant hears of a rating exactly once unless a worker dies        *)
(* (rate, update_or_create).                                               *)
(***************************************************************************)
THEOREM ToldOnce == Spec => []RatingToldOnce
  <1>1. IInv => RatingToldOnce
    BY DEF IInv, OneEvent, RatingToldOnce, Quiet
  <1> QED
    BY <1>1, Invariant, PTL

-----------------------------------------------------------------------------
(* A number on the blocklist with nobody about to ask it stays so. *)
LEMMA OptOutStep ==
  ASSUME NEW p \in Phones, TypeOK, [Next]_vars, p \in optedOut, AboutToAsk(p) = {}
  PROVE  p \in optedOut' /\ AboutToAsk(p)' = {}
  <1> USE DEF dbVars, hisVars
  <1>1. p \in optedOut'
    BY DEF Next, vars, Arrive, Work, Crash, CallbackLoad, UnsubscribeLoad, ResendLoad, RateLoad,
         CallbackDuplicate, CallbackFirst, CallbackOptedOut, CallbackAllowed, CallbackCreate, CallbackSend,
         CallbackRecord, Unsubscribe, ResendCorrect, RateFind, RateInsert, RateUpdate, RateEmit,
         StopReply, Expire
  <1>2. ASSUME NEW v \in Workers, pc'[v] \in {"create", "send"}, mem'[v].phone = p PROVE FALSE
    <2>1. ~(pc[v] \in {"create", "send"} /\ mem[v].phone = p)
      BY DEF AboutToAsk
    <2>2. ASSUME NEW w \in Workers, Arrive(w) PROVE FALSE
      <3>1. pc'[w] \notin {"create", "send"} /\ \A u \in Workers \ {w} : pc'[u] = pc[u] /\ mem'[u] = mem[u]
        BY <2>2 DEF Arrive, CallbackLoad, UnsubscribeLoad, ResendLoad, RateLoad, Enter, TypeOK
      <3> QED
        BY <1>2, <2>1, <3>1
    <2>3. ASSUME NEW w \in Workers, CallbackCreate(w) PROVE FALSE
      <3>1. \A u \in Workers : mem'[u].phone = mem[u].phone /\ (pc'[u] = pc[u] \/ pc[u] = "create")
        BY <2>3 DEF CallbackCreate, TypeOK, Instance
      <3> QED
        BY <1>2, <2>1, <3>1
    <2>4. ASSUME NEW w \in Workers, CallbackAllowed(w) PROVE FALSE
      <3>1. mem[w].phone # p
        BY <2>4 DEF CallbackAllowed
      <3>2. UNCHANGED mem /\ \A u \in Workers \ {w} : pc'[u] = pc[u]
        BY <2>4 DEF CallbackAllowed, Proceed, TypeOK
      <3> QED
        BY <1>2, <2>1, <3>1, <3>2
    <2>5. ASSUME NEW w \in Workers, End(w) PROVE FALSE
      BY <1>2, <2>1, <2>5 DEF End, TypeOK
    <2>6. ASSUME NEW w \in Workers, Work(w) \/ Crash(w), ~CallbackCreate(w), ~CallbackAllowed(w), ~End(w)
          PROVE  FALSE
      <3>1. CallbackFirst(w) \/ CallbackSend(w) \/ RateFind(w) \/ RateInsert(w)
        BY <2>6 DEF Work, Crash, CallbackDuplicate, CallbackOptedOut, CallbackRecord, Acknowledge,
             Unsubscribe, ResendCorrect, RateUpdate, RateEmit
      <3>2. UNCHANGED mem /\ \A u \in Workers : pc'[u] = pc[u] \/ pc'[u] \notin {"create", "send"}
        BY <3>1 DEF CallbackFirst, CallbackSend, RateFind, RateInsert, Proceed, TypeOK
      <3> QED
        BY <1>2, <2>1, <3>2
    <2>7. CASE Expire \/ UNCHANGED vars \/ \E q \in Phones : StopReply(q)
      BY <1>2, <2>1, <2>7 DEF Expire, vars, StopReply
    <2> QED
      BY <2>2, <2>3, <2>4, <2>5, <2>6, <2>7 DEF Next
  <1> QED
    BY <1>1, <1>2 DEF AboutToAsk

(***************************************************************************)
(* An opt-out is for good: once a number is blocked and no callback has    *)
(* passed the check before, none ever asks it (is_opted_out).              *)
(***************************************************************************)
THEOREM OptedOutForGood == Spec => OptOutIsFinal
  <1>1. ASSUME NEW p \in Phones
        PROVE  Spec => [](p \in optedOut /\ AboutToAsk(p) = {} => [](AboutToAsk(p) = {}))
    <2>1. IInv /\ [Next]_vars /\ (p \in optedOut /\ AboutToAsk(p) = {})
            => (p \in optedOut /\ AboutToAsk(p) = {})'
      BY OptOutStep DEF IInv
    <2> QED
      BY <2>1, Invariant, PTL DEF Spec
  <1> QED
    BY <1>1 DEF OptOutIsFinal

-----------------------------------------------------------------------------
(***************************************************************************)
(* The safety half of AskedInTheEnd: the queue's task goes only when there *)
(* is nothing left for it to do, or somebody at it who holds the row.      *)
(***************************************************************************)
NotForgotten ==
  task \/ asked > 0 \/ optedOut # {} \/ Abandoned \/ \E w \in Workers : pc[w] = "send"

(* Until somebody is asked, rows are queued and nobody has an answer. *)
RowsQueued ==
  asked = 0 =>
    /\ \A w \in Workers : pc[w] \notin {"sent", "failed"}
    /\ \A i \in DOMAIN requests : requests[i] = "queued"

(* A row is in hand from its insert to the record of the answer. *)
RowInHand ==
  \A w \in Workers :
    /\ mem[w].id # 0 => pc[w] \in {"send", "sent", "failed"}
    /\ pc[w] \in {"send", "sent", "failed"} => requests # <<>>

(* Before the first row only the blocklist lets the queue drop the task. *)
TaskKept == requests = <<>> => task \/ optedOut # {}

PlannedInv == TypeOK /\ RowsQueued /\ RowInHand /\ TaskKept

LEMMA PlannedStep == PlannedInv /\ [Next]_vars => PlannedInv'
  <1> SUFFICES ASSUME PlannedInv, [Next]_vars PROVE PlannedInv'
    OBVIOUS
  <1> USE DEF dbVars, hisVars
  <1>0. TypeOK /\ TypeOK' /\ asked \in Nat /\ RowsQueued /\ RowInHand /\ TaskKept
    BY TypeStep DEF PlannedInv, TypeOK
  <1>1. ASSUME UNCHANGED <<requests, asked>>,
               \A w \in Workers : pc'[w] \in {"send", "sent", "failed"} => pc'[w] = pc[w],
               \A w \in Workers : mem'[w].id = 0 \/ (mem'[w].id = mem[w].id /\ pc'[w] = pc[w]),
               requests = <<>> => task' \/ optedOut' # {}
        PROVE  PlannedInv'
    BY <1>0, <1>1 DEF PlannedInv, RowsQueued, RowInHand, TaskKept
  <1>2. ASSUME NEW w \in Workers, Arrive(w) PROVE PlannedInv'
    <2>1. /\ pc[w] = "idle" /\ pc' \in {[pc EXCEPT ![w] = place] : place \in {"exists", "optout", "correct", "find"}}
          /\ \E value : mem' = [mem EXCEPT ![w] = [@ EXCEPT !.phone = phone, !.value = value]]
      BY <1>2 DEF Arrive, CallbackLoad, UnsubscribeLoad, ResendLoad, RateLoad, Enter
    <2>2. mem[w].id = 0
      BY <1>0, <2>1 DEF RowInHand
    <2>3. mem'[w].id = 0 /\ \A v \in Workers \ {w} : mem'[v] = mem[v] /\ pc'[v] = pc[v]
      BY <1>0, <2>1, <2>2 DEF TypeOK, Instance
    <2>4. pc'[w] \notin {"send", "sent", "failed"}
      BY <1>0, <2>1 DEF TypeOK
    <2>5. UNCHANGED <<requests, asked, task, optedOut>>
      BY <1>2 DEF Arrive, CallbackLoad, UnsubscribeLoad, ResendLoad, RateLoad
    <2> QED
      BY <1>0, <1>1, <2>3, <2>4, <2>5 DEF TaskKept
  <1>3. ASSUME NEW w \in Workers, End(w), UNCHANGED <<requests, asked>>, requests = <<>> => task' \/ optedOut' # {}
        PROVE  PlannedInv'
    <2>1. /\ pc'[w] = "idle" /\ mem'[w].id = 0
          /\ \A v \in Workers \ {w} : mem'[v] = mem[v] /\ pc'[v] = pc[v]
      BY <1>0, <1>3 DEF End, Blank, TypeOK
    <2> QED
      BY <1>1, <1>3, <2>1
  <1>4. ASSUME NEW w \in Workers,
               CallbackDuplicate(w) \/ CallbackOptedOut(w) \/ Unsubscribe(w) \/ ResendCorrect(w)
                 \/ RateUpdate(w) \/ RateEmit(w) \/ Crash(w)
        PROVE  End(w) /\ UNCHANGED <<requests, asked>> /\ (requests = <<>> => task' \/ optedOut' # {})
    <2>1. CASE CallbackDuplicate(w)
      BY <2>1 DEF CallbackDuplicate, Acknowledge
    <2>2. CASE CallbackOptedOut(w)
      BY <2>2 DEF CallbackOptedOut, Acknowledge
    <2>3. CASE Unsubscribe(w) \/ ResendCorrect(w) \/ RateUpdate(w) \/ RateEmit(w) \/ Crash(w)
      BY <1>0, <2>3 DEF Unsubscribe, ResendCorrect, RateUpdate, RateEmit, Crash, TaskKept
    <2> QED
      BY <1>4, <2>1, <2>2, <2>3
  <1>5. ASSUME NEW w \in Workers, CallbackFirst(w) \/ CallbackAllowed(w) \/ RateFind(w) \/ RateInsert(w)
        PROVE  PlannedInv'
    <2>1. /\ UNCHANGED <<requests, asked, task, optedOut, mem>> /\ pc[w] \notin {"send", "sent", "failed"}
          /\ pc'[w] \notin {"send", "sent", "failed"} /\ \A v \in Workers \ {w} : pc'[v] = pc[v]
      BY <1>0, <1>5 DEF CallbackFirst, CallbackAllowed, RateFind, RateInsert, Proceed, TypeOK
    <2>2. mem[w].id = 0
      BY <1>0, <2>1 DEF RowInHand
    <2> QED
      BY <1>0, <1>1, <2>1, <2>2 DEF TaskKept
  <1>6. ASSUME NEW w \in Workers, CallbackCreate(w) PROVE PlannedInv'
    <2>1. /\ requests' = Append(requests, "queued") /\ UNCHANGED asked /\ pc'[w] = "send"
          /\ \A v \in Workers \ {w} : mem'[v] = mem[v] /\ pc'[v] = pc[v]
      BY <1>0, <1>6 DEF CallbackCreate, TypeOK
    <2>2. requests' # <<>>
      BY <1>0, <2>1 DEF TypeOK
    <2>3. ASSUME asked = 0, NEW i \in DOMAIN requests' PROVE requests'[i] = "queued"
      BY <1>0, <2>1, <2>3 DEF RowsQueued, TypeOK
    <2> QED
      BY <1>0, <2>1, <2>2, <2>3 DEF PlannedInv, RowsQueued, RowInHand, TaskKept
  <1>7. ASSUME NEW w \in Workers, CallbackSend(w) PROVE PlannedInv'
    <2>1. /\ UNCHANGED <<requests, task, optedOut, mem>> /\ asked' = asked + 1 /\ pc'[w] \in {"sent", "failed"}
          /\ \A v \in Workers \ {w} : pc'[v] = pc[v]
      BY <1>0, <1>7 DEF CallbackSend, Proceed, TypeOK
    <2>2. asked' # 0
      BY <1>0, <2>1
    <2>3. RowInHand'
      BY <1>0, <1>7, <2>1 DEF CallbackSend, RowInHand
    <2> QED
      BY <1>0, <2>1, <2>2, <2>3 DEF PlannedInv, RowsQueued, TaskKept
  <1>8. ASSUME NEW w \in Workers, CallbackRecord(w) PROVE PlannedInv'
    <2>1. /\ UNCHANGED asked /\ asked # 0 /\ pc'[w] = "idle" /\ mem'[w].id = 0
          /\ \A v \in Workers \ {w} : mem'[v] = mem[v] /\ pc'[v] = pc[v]
      BY <1>0, <1>8 DEF CallbackRecord, Acknowledge, End, Blank, TypeOK, RowsQueued
    <2>2. requests # <<>>
      BY <1>0, <1>8 DEF CallbackRecord, RowInHand
    <2>3. requests' # <<>>
      <3>1. DOMAIN requests' = DOMAIN requests
        BY <1>8 DEF CallbackRecord
      <3>2. requests \in Seq({"queued", "sent", "failed"}) /\ requests' \in Seq({"queued", "sent", "failed"})
        BY <1>0 DEF TypeOK
      <3>3. 1 \in DOMAIN requests
        BY <2>2, <3>2
      <3> QED
        BY <3>1, <3>3
    <2> QED
      BY <1>0, <2>1, <2>2, <2>3 DEF PlannedInv, RowsQueued, RowInHand, TaskKept
  <1>9. CASE Expire \/ UNCHANGED vars \/ \E p \in Phones : StopReply(p)
    BY <1>0, <1>1, <1>9 DEF Expire, vars, StopReply, TaskKept
  <1> QED
    BY <1>2, <1>3, <1>4, <1>5, <1>6, <1>7, <1>8, <1>9 DEF Next, Work

(***************************************************************************)
(* A planned request is never forgotten: while nobody was asked and nobody *)
(* opted out the queue has the task, or a callback is about to ask, or one *)
(* died with the row in hand (send_rating answers 200 when it is done).    *)
(***************************************************************************)
THEOREM PlannedIsKept == Spec => []NotForgotten
  <1>1. Init => PlannedInv
    <2> SUFFICES ASSUME Init PROVE PlannedInv
      OBVIOUS
    <2>1. RowsQueued /\ RowInHand /\ TaskKept
      BY DEF Init, Blank, RowsQueued, RowInHand, TaskKept
    <2> QED
      BY <2>1, TypeInit DEF PlannedInv
  <1>2. PlannedInv /\ PlacesOK => NotForgotten
    <2> SUFFICES ASSUME PlannedInv, PlacesOK, ~task, ~(asked > 0), optedOut = {},
                        \A w \in Workers : pc[w] # "send"
                 PROVE  Abandoned
      BY DEF NotForgotten
    <2>1. asked = 0 /\ requests \in Seq({"queued", "sent", "failed"}) /\ requests # <<>>
      BY DEF PlannedInv, TypeOK, TaskKept
    <2>2. 1 \in DOMAIN requests /\ requests[1] = "queued"
      BY <2>1 DEF PlannedInv, RowsQueued
    <2>3. \A w \in Workers : mem[w].id = 0
      BY <2>1 DEF PlannedInv, RowsQueued, RowInHand
    <2> QED
      BY <2>2, <2>3 DEF Abandoned
  <1> QED
    BY <1>1, <1>2, PlannedStep, Invariant, PTL DEF Spec, IInv

=============================================================================
