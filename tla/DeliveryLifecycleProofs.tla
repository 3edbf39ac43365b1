----------------------- MODULE DeliveryLifecycleProofs -----------------------
(***************************************************************************)
(* Proofs about DeliveryLifecycle, and in the second part about what the   *)
(* merchant is told of it (MerchantEvents), for any number of worker       *)
(* threads, any set of arrival times and any choice of operations on       *)
(* offer.                                                                  *)
(***************************************************************************)
EXTENDS MerchantEvents, TLAPS

LEMMA NewRowType == NewRow \in Row
BY DEF Row, NewRow, Statuses

(* Every variable keeps its type through every statement of the handlers. *)
LEMMA TypeStep == TypeOK /\ [Next]_vars => TypeOK'
<1> SUFFICES ASSUME TypeOK, [Next]_vars PROVE TypeOK'
  OBVIOUS
<1> USE OfferedAssumption, NewRowType
<1> USE DEF TypeOK, Statuses, NotifStatuses, Operations, Places, Emitted,
            At, Goto, Proceed, End, SetStatus, dbVars, historyVars, requestVars
<1>1. ASSUME NEW r \in Requests, NEW o \in Offered, Begin(r, o) PROVE TypeOK'
  BY <1>1 DEF Begin
<1>2. ASSUME NEW r \in Requests, StartStep(r) PROVE TypeOK'
  <2>1. CASE StartDeclined(r)  BY <2>1 DEF StartDeclined
  <2>2. CASE StartNeedsEta(r)  BY <2>2 DEF StartNeedsEta
  <2>3. CASE StartPlanned(r)
    <3>1. PICK e \in Etas :
            mem' = [mem EXCEPT ![r] = [@ EXCEPT !.eta = e, !.status = "on_the_way"]]
      BY <2>3 DEF StartPlanned
    <3>2. [mem[r] EXCEPT !.eta = e, !.status = "on_the_way"] \in Row
      BY DEF Row
    <3>3. mem' \in [Requests -> Row]
      BY <3>1, <3>2
    <3>4. QED BY <2>3, <3>3 DEF StartPlanned
  <2>4. CASE StartSave(r)      BY <2>4 DEF StartSave, Row
  <2>5. CASE StartToken(r)     BY <2>5 DEF StartToken
  <2>6. CASE StartCreate(r)    BY <2>6 DEF StartCreate, Row
  <2>7. CASE StartClash(r)     BY <2>7 DEF StartClash
  <2>8. CASE StartSchedule(r)  BY <2>8 DEF StartSchedule
  <2>9. QED
    BY <1>2, <2>1, <2>2, <2>3, <2>4, <2>5, <2>6, <2>7, <2>8 DEF StartStep
<1>3. ASSUME NEW r \in Requests, Send(r) PROVE TypeOK'
  BY <1>3 DEF Send, Row
<1>4. ASSUME NEW r \in Requests, Record(r) PROVE TypeOK'
  <2>1. CASE op[r] = "start"  BY <1>4, <2>1 DEF Record
  <2>2. CASE op[r] # "start"  BY <1>4, <2>2 DEF Record
  <2>3. QED BY <2>1, <2>2
<1>5. ASSUME NEW r \in Requests, Report(r) PROVE TypeOK'
  <2>1. CASE op[r] = "start"  BY <1>5, <2>1 DEF Report
  <2>2. CASE op[r] # "start"  BY <1>5, <2>2 DEF Report
  <2>3. QED BY <2>1, <2>2
<1>6. ASSUME NEW r \in Requests, Ready(r) \/ Deliver(r) \/ Delete(r) \/ Restore(r)
      PROVE TypeOK'
  <2>1. CASE Ready(r)
    <3>1. CASE mem[r].status = "new"  BY <2>1, <3>1 DEF Ready, Row
    <3>2. CASE mem[r].status # "new"  BY <2>1, <3>2 DEF Ready
    <3>3. QED BY <3>1, <3>2
  <2>2. CASE Deliver(r)
    <3>1. CASE mem[r].status # "delivered"  BY <2>2, <3>1 DEF Deliver, Row
    <3>2. CASE mem[r].status = "delivered"  BY <2>2, <3>2 DEF Deliver
    <3>3. QED BY <3>1, <3>2
  <2>3. CASE Delete(r)   BY <2>3 DEF Delete, Row
  <2>4. CASE Restore(r)  BY <2>4 DEF Restore, Row
  <2>5. QED BY <1>6, <2>1, <2>2, <2>3, <2>4
<1>7. ASSUME NEW r \in Requests, ResendNothing(r) \/ ResendQueue(r) PROVE TypeOK'
  <2>1. CASE ResendNothing(r)  BY <2>1 DEF ResendNothing
  <2>2. CASE ResendQueue(r)
    <3>1. CASE mem[r].eta = NoEta  BY <2>2, <3>1 DEF ResendQueue
    <3>2. CASE mem[r].eta # NoEta  BY <2>2, <3>2 DEF ResendQueue
    <3>3. QED BY <3>1, <3>2
  <2>3. QED BY <1>7, <2>1, <2>2
<1>8. ASSUME NEW r \in Requests, Crash(r) PROVE TypeOK'
  BY <1>8 DEF Crash
<1>9. CASE UNCHANGED vars
  BY <1>9 DEF vars
<1>10. QED
  BY <1>1, <1>2, <1>3, <1>4, <1>5, <1>6, <1>7, <1>8, <1>9 DEF Next, Step

LEMMA TypeInit == Init => TypeOK
<1> SUFFICES ASSUME Init PROVE TypeOK
  OBVIOUS
<1>1. row \in Row /\ mem \in [Requests -> Row]
  BY NewRowType DEF Init
<1>2. op \in [Requests -> Operations \cup {"none"}] /\ pc \in [Requests -> Places]
  BY DEF Init, Operations, Places
<1>3. notif \in NotifStatuses /\ webhooks \in Emitted
  BY DEF Init, NotifStatuses, Emitted
<1>4. announced \in Nat /\ ratingTasks \in Nat
  BY DEF Init
<1>5. token \in BOOLEAN /\ cut \in BOOLEAN
  BY DEF Init
<1>6. startEta \in Etas \cup {NoEta} /\ toldEta \in Etas \cup {NoEta}
  BY DEF Init
<1>7. QED
  BY <1>1, <1>2, <1>3, <1>4, <1>5, <1>6 DEF TypeOK

(* Type correctness of the delivery's row, its notification and the requests. *)
THEOREM TypeCorrect == Spec => []TypeOK
BY TypeInit, TypeStep, PTL DEF Spec
-----------------------------------------------------------------------------
LEMMA InvInit == Init => IInv
<1> SUFFICES ASSUME Init PROVE IInv
  OBVIOUS
<1>1. TypeOK
  BY TypeInit
<1>2. PlacesOK /\ NothingBeforeNotif /\ OneOwner /\ StartActsOnce
  BY DEF Init, PlacesOK, NothingBeforeNotif, OneOwner, StartActsOnce, Senders, Owners
<1>3. NoLooseEnds /\ EtaBeforeNotif /\ EtaAfterNotif /\ ReportsPending
  BY DEF Init, NewRow, NoLooseEnds, EtaBeforeNotif, EtaAfterNotif, ReportsPending,
         Claimants, Resenders
<1>4. QED
  BY <1>1, <1>2, <1>3 DEF IInv

(***************************************************************************)
(* Each statement of the handlers preserves the invariant.  The statements *)
(* that decide who owns the notification, and those that may end a request *)
(* early, are broken down by the invariant's parts.                        *)
(***************************************************************************)
LEMMA InvStep == IInv /\ [Next]_vars => IInv'
<1> SUFFICES ASSUME IInv, [Next]_vars PROVE IInv'
  OBVIOUS
<1> TypeOK /\ TypeOK'
  BY TypeStep DEF IInv
<1> USE EtaAssumption
<1> USE DEF IInv, TypeOK, Row, NewRow, Places, Emitted, At, Goto, Proceed, End, SetStatus,
            dbVars, historyVars, Claimants, Owners, Senders, Resenders
<1>1. ASSUME NEW r \in Requests, NEW x \in Offered, Begin(r, x) PROVE IInv'
  BY <1>1, OfferedAssumption DEF Begin, Operations,
         PlacesOK, NothingBeforeNotif, OneOwner, StartActsOnce, NoLooseEnds,
         EtaBeforeNotif, EtaAfterNotif, ReportsPending
<1>2. ASSUME NEW r \in Requests, StartDeclined(r) PROVE IInv'
  BY <1>2 DEF StartDeclined,
         PlacesOK, NothingBeforeNotif, OneOwner, StartActsOnce, NoLooseEnds,
         EtaBeforeNotif, EtaAfterNotif, ReportsPending
<1>3. ASSUME NEW r \in Requests, StartNeedsEta(r) PROVE IInv'
  BY <1>3 DEF StartNeedsEta,
         PlacesOK, NothingBeforeNotif, OneOwner, StartActsOnce, NoLooseEnds,
         EtaBeforeNotif, EtaAfterNotif, ReportsPending
<1>4. ASSUME NEW r \in Requests, StartPlanned(r) PROVE IInv'
  BY <1>4 DEF StartPlanned, AlreadyStarted,
         PlacesOK, NothingBeforeNotif, OneOwner, StartActsOnce, NoLooseEnds,
         EtaBeforeNotif, EtaAfterNotif, ReportsPending
<1>5. ASSUME NEW r \in Requests, StartSave(r) PROVE IInv'
  BY <1>5 DEF StartSave,
         PlacesOK, NothingBeforeNotif, OneOwner, StartActsOnce, NoLooseEnds,
         EtaBeforeNotif, EtaAfterNotif, ReportsPending
<1>6. ASSUME NEW r \in Requests, StartToken(r) PROVE IInv'
  BY <1>6 DEF StartToken,
         PlacesOK, NothingBeforeNotif, OneOwner, StartActsOnce, NoLooseEnds,
         EtaBeforeNotif, EtaAfterNotif, ReportsPending
<1>7. ASSUME NEW r \in Requests, StartCreate(r) PROVE IInv'
  <2> USE <1>7 DEF StartCreate
  <2>1. PlacesOK'  BY DEF PlacesOK
  <2>2. NothingBeforeNotif'  BY DEF PlacesOK, NothingBeforeNotif
  <2>3. OneOwner'  BY DEF PlacesOK, NothingBeforeNotif, OneOwner
  <2>4. StartActsOnce'  BY DEF PlacesOK, NothingBeforeNotif, OneOwner, StartActsOnce
  <2>5. NoLooseEnds'  BY DEF PlacesOK, NoLooseEnds
  <2>6. EtaBeforeNotif'  BY DEF PlacesOK, NothingBeforeNotif, EtaBeforeNotif
  <2>7. EtaAfterNotif'  BY DEF PlacesOK, NothingBeforeNotif, OneOwner, EtaBeforeNotif, EtaAfterNotif
  <2>8. ReportsPending'  BY DEF PlacesOK, NothingBeforeNotif, ReportsPending
  <2>9. QED BY <2>1, <2>2, <2>3, <2>4, <2>5, <2>6, <2>7, <2>8
<1>8. ASSUME NEW r \in Requests, StartClash(r) PROVE IInv'
  <2> USE <1>8 DEF StartClash
  <2>1. PlacesOK'  BY DEF PlacesOK
  <2>2. NothingBeforeNotif'  BY DEF PlacesOK, NothingBeforeNotif
  <2>3. OneOwner'  BY DEF PlacesOK, NothingBeforeNotif, OneOwner
  <2>4. StartActsOnce'  BY DEF PlacesOK, NothingBeforeNotif, OneOwner, StartActsOnce
  <2>5. NoLooseEnds'  BY DEF PlacesOK, NoLooseEnds
  <2>6. EtaBeforeNotif'  BY DEF PlacesOK, NothingBeforeNotif, EtaBeforeNotif
  <2>7. EtaAfterNotif'  BY DEF PlacesOK, NothingBeforeNotif, OneOwner, EtaBeforeNotif, EtaAfterNotif
  <2>8. ReportsPending'  BY DEF PlacesOK, NothingBeforeNotif, ReportsPending
  <2>9. QED BY <2>1, <2>2, <2>3, <2>4, <2>5, <2>6, <2>7, <2>8
<1>9. ASSUME NEW r \in Requests, StartSchedule(r) PROVE IInv'
  BY <1>9 DEF StartSchedule,
         PlacesOK, NothingBeforeNotif, OneOwner, StartActsOnce, NoLooseEnds,
         EtaBeforeNotif, EtaAfterNotif, ReportsPending
<1>10. ASSUME NEW r \in Requests, Send(r) PROVE IInv'
  BY <1>10 DEF Send,
         PlacesOK, NothingBeforeNotif, OneOwner, StartActsOnce, NoLooseEnds,
         EtaBeforeNotif, EtaAfterNotif, ReportsPending
<1>11. ASSUME NEW r \in Requests, Record(r) PROVE IInv'
  <2>1. /\ notif # "absent" /\ notif' \in {"sent", "failed"}
        /\ Claimants' = Claimants /\ Resenders' \subseteq Resenders
        /\ \A q \in Resenders' : mem'[q] = mem[q]
    BY <1>11 DEF Record, NothingBeforeNotif, PlacesOK
  <2>2. PlacesOK' /\ NothingBeforeNotif' /\ StartActsOnce'
    BY <1>11 DEF Record, PlacesOK, NothingBeforeNotif, OneOwner, StartActsOnce
  <2>7. OneOwner'
    <3>2. CASE op[r] = "start"
      BY <1>11, <2>1, <3>2 DEF Record, OneOwner
    <3>3. CASE op[r] # "start"
      <4>1. Owners' = Owners
        BY <1>11, <3>3 DEF Record, PlacesOK
      <4>2. \A q \in Owners : mem'[q] = mem[q] /\ pc'[q] = pc[q]
        BY <1>11, <3>3 DEF Record
      <4>3. UNCHANGED <<startEta, announced, ratingTasks, webhooks>>
        BY <1>11 DEF Record
      <4> HIDE DEF Owners
      <4> QED
        BY <2>1, <4>1, <4>2, <4>3 DEF OneOwner
    <3> QED
      BY <3>2, <3>3
  <2>3. NoLooseEnds' /\ EtaBeforeNotif'
    BY <1>11, <2>1 DEF Record, NoLooseEnds, EtaBeforeNotif
  <2>4. EtaAfterNotif'
    <3> HIDE DEF Claimants, Resenders
    <3>1. UNCHANGED <<row, startEta, toldEta, cut>>
      BY <1>11 DEF Record
    <3>2. QED BY <2>1, <3>1 DEF EtaAfterNotif
  <2>5. ReportsPending'
    <3>1. CASE op[r] = "start"
      BY <1>11, <2>1, <3>1 DEF Record, ReportsPending
    <3>2. CASE op[r] # "start"
      <4>1. op[r] = "resend" /\ pc[r] # "report"
        BY <1>11, <3>2 DEF Record, PlacesOK
      <4>2. Owners' = Owners
        BY <1>11, <4>1 DEF Record
      <4>3. \A q \in Requests : At(q, "deliver", "report") => At(q, "deliver", "report")'
        BY <1>11, <4>1 DEF Record
      <4>4. UNCHANGED <<row, webhooks, cut>>
        BY <1>11 DEF Record
      <4>5. QED
        <5> HIDE DEF Owners, At
        <5> QED BY <2>1, <4>2, <4>3, <4>4 DEF ReportsPending
    <3>3. QED BY <3>1, <3>2
  <2>6. QED BY <2>2, <2>3, <2>4, <2>5, <2>7
<1>12. ASSUME NEW r \in Requests, Report(r) PROVE IInv'
  BY <1>12 DEF Report,
         PlacesOK, NothingBeforeNotif, OneOwner, StartActsOnce, NoLooseEnds,
         EtaBeforeNotif, EtaAfterNotif, ReportsPending
<1>13. ASSUME NEW r \in Requests, Ready(r) PROVE IInv'
  BY <1>13 DEF Ready,
         PlacesOK, NothingBeforeNotif, OneOwner, StartActsOnce, NoLooseEnds,
         EtaBeforeNotif, EtaAfterNotif, ReportsPending
<1>14. ASSUME NEW r \in Requests, Deliver(r) PROVE IInv'
  <2> USE <1>14 DEF Deliver
  <2>1. PlacesOK' /\ NothingBeforeNotif' /\ OneOwner' /\ StartActsOnce'
    BY DEF PlacesOK, NothingBeforeNotif, OneOwner, StartActsOnce
  <2>2. Claimants' = Claimants /\ Resenders' = Resenders /\ row'.eta = row.eta
    OBVIOUS
  <2>3. \A q \in Claimants \cup Resenders : mem'[q] = mem[q]
    OBVIOUS
  <2>4. EtaBeforeNotif' /\ EtaAfterNotif'
    <3> HIDE DEF Claimants, Resenders
    <3>1. UNCHANGED <<notif, startEta, toldEta, cut>>
      OBVIOUS
    <3>2. QED BY <2>2, <2>3, <3>1 DEF EtaBeforeNotif, EtaAfterNotif
  <2>5. NoLooseEnds'
    BY DEF NoLooseEnds, PlacesOK
  <2>6. ReportsPending'
    BY DEF ReportsPending, PlacesOK
  <2>7. QED BY <2>1, <2>4, <2>5, <2>6
<1>15. ASSUME NEW r \in Requests, Delete(r) PROVE IInv'
  BY <1>15 DEF Delete,
         PlacesOK, NothingBeforeNotif, OneOwner, StartActsOnce, NoLooseEnds,
         EtaBeforeNotif, EtaAfterNotif, ReportsPending
<1>16. ASSUME NEW r \in Requests, Restore(r) PROVE IInv'
  BY <1>16 DEF Restore,
         PlacesOK, NothingBeforeNotif, OneOwner, StartActsOnce, NoLooseEnds,
         EtaBeforeNotif, EtaAfterNotif, ReportsPending
<1>17. ASSUME NEW r \in Requests, ResendNothing(r) PROVE IInv'
  BY <1>17 DEF ResendNothing,
         PlacesOK, NothingBeforeNotif, OneOwner, StartActsOnce, NoLooseEnds,
         EtaBeforeNotif, EtaAfterNotif, ReportsPending
<1>18. ASSUME NEW r \in Requests, ResendQueue(r) PROVE IInv'
  <2> USE <1>18 DEF ResendQueue
  <2>1. PlacesOK'  BY DEF PlacesOK
  <2>2. NothingBeforeNotif'  BY DEF PlacesOK, NothingBeforeNotif
  <2>3. OneOwner'
    <3>1. Owners' = Owners
      BY DEF PlacesOK
    <3>2. \A q \in Owners : mem'[q] = mem[q] /\ pc'[q] = pc[q]
      OBVIOUS
    <3>3. UNCHANGED <<startEta, announced, ratingTasks, webhooks>>
      OBVIOUS
    <3> HIDE DEF Owners
    <3> QED
      BY <3>1, <3>2, <3>3 DEF OneOwner
  <2>4. StartActsOnce'  BY DEF PlacesOK, NothingBeforeNotif, OneOwner, StartActsOnce
  <2>5. NoLooseEnds'  BY DEF PlacesOK, NoLooseEnds
  <2>6. EtaBeforeNotif'  BY DEF PlacesOK, NothingBeforeNotif, EtaBeforeNotif
  <2>7. EtaAfterNotif'  BY DEF PlacesOK, NothingBeforeNotif, OneOwner, EtaBeforeNotif, EtaAfterNotif
  <2>8. ReportsPending'  BY DEF PlacesOK, NothingBeforeNotif, ReportsPending
  <2>9. QED BY <2>1, <2>2, <2>3, <2>4, <2>5, <2>6, <2>7, <2>8
<1>19. ASSUME NEW r \in Requests, Crash(r) PROVE IInv'
  <2> USE <1>19 DEF Crash
  <2>1. PlacesOK' /\ NothingBeforeNotif' /\ OneOwner' /\ StartActsOnce'
    BY DEF PlacesOK, NothingBeforeNotif, OneOwner, StartActsOnce
  <2>2. CASE pc[r] \in {"loaded", "save"}
    <3>1. cut' = cut
      BY <2>2
    <3>2. NoLooseEnds'
      BY <2>2, <3>1 DEF NoLooseEnds, PlacesOK
    <3>3. EtaBeforeNotif' /\ EtaAfterNotif'
      BY <2>2, <3>1 DEF EtaBeforeNotif, EtaAfterNotif, PlacesOK
    <3>4. ReportsPending'
      BY <2>2, <3>1 DEF ReportsPending, PlacesOK
    <3>5. QED BY <2>1, <3>2, <3>3, <3>4
  <2>3. CASE pc[r] \notin {"loaded", "save"}
    <3>1. cut'
      BY <2>3
    <3>2. NoLooseEnds' /\ EtaBeforeNotif' /\ EtaAfterNotif' /\ ReportsPending'
      BY <3>1 DEF NoLooseEnds, EtaBeforeNotif, EtaAfterNotif, ReportsPending
    <3>3. QED BY <2>1, <3>2
  <2>4. QED BY <2>2, <2>3
<1>20. CASE UNCHANGED vars
  BY <1>20 DEF vars, requestVars,
         PlacesOK, NothingBeforeNotif, OneOwner, StartActsOnce, NoLooseEnds,
         EtaBeforeNotif, EtaAfterNotif, ReportsPending
<1>21. QED
  BY <1>1, <1>2, <1>3, <1>4, <1>5, <1>6, <1>7, <1>8, <1>9, <1>10, <1>11,
     <1>12, <1>13, <1>14, <1>15, <1>16, <1>17, <1>18, <1>19, <1>20 DEF Next,
     Step, StartStep

(* The inductive invariant holds of every behaviour of the requests. *)
THEOREM Invariant == Spec => []IInv
BY InvInit, InvStep, PTL DEF Spec

(***************************************************************************)
(* start_delivery is idempotent towards the outside: whatever overlaps or  *)
(* dies, a start sends one message and plans one rating request at most.   *)
(***************************************************************************)
THEOREM StartIsOnce == Spec => []StartActsOnce
<1>1. IInv => StartActsOnce  BY DEF IInv
<1>2. QED BY Invariant, <1>1, PTL

(* Without a request cut short, nothing is left queued or unannounced. *)
THEOREM LooseEndsNeedACut == Spec => []NoLooseEnds
<1>1. IInv => NoLooseEnds  BY DEF IInv
<1>2. QED BY Invariant, <1>1, PTL

(***************************************************************************)
(* The arrival time in the recipient's message is the one on the delivery, *)
(* for starts and resends alike, while no request was cut short and no     *)
(* start is about to lose.                                                 *)
(***************************************************************************)
THEOREM ToldIsStored == Spec => []EtaToldIsStored
<1>1. IInv => EtaToldIsStored
  BY DEF IInv, EtaToldIsStored, NothingBeforeNotif, EtaAfterNotif
<1>2. QED BY Invariant, <1>1, PTL

(* Once the requests are done, the merchant's events have been enqueued. *)
THEOREM MerchantIsTold == Spec => []MerchantTold
<1>1. IInv => MerchantTold
  BY DEF IInv, MerchantTold, ReportsPending, Quiet, Owners, At
<1>2. QED BY Invariant, <1>1, PTL

(* No handler's save touches a column that belongs to another one. *)
THEOREM ColumnsAreOwned == Spec => ColumnOwners
<1> DEFINE Owned ==
      /\ row'.deleted # row.deleted =>
           \E r \in Requests : op[r] \in {"delete", "restore"} /\ pc'[r] # pc[r]
      /\ row'.eta # row.eta =>
           \E r \in Requests : op[r] = "start" /\ pc'[r] # pc[r]
<1>1. TypeOK /\ [Next]_vars => [Owned]_vars
  <2> SUFFICES ASSUME TypeOK, Next PROVE Owned
    BY DEF vars
  <2> USE DEF TypeOK, Row, At, Goto, Proceed, End, SetStatus, dbVars
  <2>1. PICK r \in Requests : (\E o \in Offered : Begin(r, o)) \/ Step(r) \/ Crash(r)
    BY DEF Next
  <2>2. CASE StartSave(r)  BY <2>2 DEF StartSave
  <2>3. CASE Delete(r) \/ Restore(r)  BY <2>3 DEF Delete, Restore
  <2>4. CASE Ready(r) \/ Deliver(r)
    BY <2>4 DEF Ready, Deliver
  <2>5. CASE UNCHANGED row  BY <2>5
  <2>6. QED
    BY <2>1, <2>2, <2>3, <2>4, <2>5 DEF Step, StartStep, Begin, Crash, StartDeclined,
       StartNeedsEta, StartPlanned, StartToken, StartCreate, StartClash, StartSchedule,
       Send, Record, Report, ResendNothing, ResendQueue
<1>2. QED
  BY TypeCorrect, <1>1, PTL DEF Spec, ColumnOwners

-----------------------------------------------------------------------------
(***************************************************************************)
(* Refinement: every step of the requests is a step of the announcement    *)
(* they promise, or leaves it alone.                                       *)
(***************************************************************************)
LEMMA PromiseInit == Init => Promise!Init
BY DEF Init, Promise!Init

(* What the parts of the invariant say of the notification's owner. *)
LEMMA OwnerKnows ==
  ASSUME IInv, NEW r \in Requests, op[r] = "start"
  PROVE  /\ pc[r] = "send" => /\ startEta = mem[r].eta /\ startEta \in Etas
                               /\ announced = 0
         /\ pc[r] = "schedule" => announced = 1 /\ ratingTasks = 0 /\ webhooks.started = 0
         /\ pc[r] = "report" => announced = 1 /\ webhooks.started = 0
BY DEF IInv, PlacesOK, OneOwner, Owners

LEMMA PromiseStep == IInv /\ IInv' /\ [Next]_vars => [Promise!Next]_(Promise!vars)
<1> SUFFICES ASSUME IInv, IInv', [Next]_vars PROVE [Promise!Next]_(Promise!vars)
  OBVIOUS
<1> USE EtaAssumption
<1> USE DEF Promise!Next, Promise!vars
<1>1. ASSUME NEW r \in Requests, StartCreate(r) PROVE [Promise!Next]_(Promise!vars)
  <2>1. startEta' \in Etas
    BY <1>1 DEF StartCreate, IInv, PlacesOK, At
  <2>2. CASE startEta = NoEta
    BY <1>1, <2>1, <2>2 DEF StartCreate, Promise!Claim
  <2>3. startEta = NoEta
    BY <1>1 DEF StartCreate, IInv, NothingBeforeNotif
  <2> QED
    BY <2>2, <2>3
<1>2. ASSUME NEW r \in Requests, Send(r), op[r] = "start" PROVE Promise!HandOver
  BY <1>2, OwnerKnows DEF Send, Promise!HandOver
<1>3. ASSUME NEW r \in Requests, Send(r), op[r] # "start" PROVE Promise!Repeat
  <2>1. notif # "absent" /\ toldEta' \in Etas
    BY <1>3 DEF Send, IInv, PlacesOK, NothingBeforeNotif, Senders
  <2>2. startEta # NoEta
    BY <2>1 DEF IInv, OneOwner
  <2> QED
    BY <1>3, <2>1, <2>2 DEF Send, Promise!Repeat
<1>4. ASSUME NEW r \in Requests, StartSchedule(r) PROVE [Promise!Next]_(Promise!vars)
  <2>1. announced = 1 /\ ratingTasks = 0 /\ webhooks.started = 0
    BY <1>4, OwnerKnows DEF StartSchedule, At
  <2>2. CASE ratingTasks' = ratingTasks
    BY <1>4, <2>2 DEF StartSchedule
  <2>3. CASE ratingTasks' = ratingTasks + 1
    BY <1>4, <2>1, <2>3 DEF StartSchedule, Promise!Plan
  <2> QED
    BY <1>4, <2>2, <2>3 DEF StartSchedule
<1>5. ASSUME NEW r \in Requests, Report(r) PROVE [Promise!Next]_(Promise!vars)
  <2>1. webhooks \in Emitted
    BY DEF IInv, TypeOK
  <2>2. CASE op[r] = "start"
    <3>1. announced = 1 /\ webhooks.started = 0
      BY <1>5, <2>2, OwnerKnows DEF Report
    <3>2. webhooks'.started = 1
      BY <1>5, <2>1, <2>2, <3>1 DEF Report, Emitted
    <3> QED
      BY <1>5, <3>1, <3>2 DEF Report, Promise!Report
  <2>3. CASE op[r] # "start"
    BY <1>5, <2>1, <2>3 DEF Report, Emitted
  <2> QED
    BY <2>2, <2>3
<1>6. ASSUME NEW r \in Requests, NEW o \in Offered, Begin(r, o)
      PROVE UNCHANGED Promise!vars
  BY <1>6 DEF Begin, historyVars
<1>7. ASSUME NEW r \in Requests,
             \/ StartDeclined(r) \/ StartNeedsEta(r) \/ StartPlanned(r) \/ StartSave(r)
             \/ StartToken(r) \/ StartClash(r) \/ Record(r) \/ Crash(r)
      PROVE UNCHANGED Promise!vars
  BY <1>7 DEF StartDeclined, StartNeedsEta, StartPlanned, StartSave, StartToken,
     StartClash, Record, Crash, historyVars
<1>8. ASSUME NEW r \in Requests, Ready(r) \/ Deliver(r) \/ Delete(r) \/ Restore(r)
      PROVE UNCHANGED Promise!vars
  BY <1>8 DEF Ready, Deliver, Delete, Restore, historyVars
<1>9. ASSUME NEW r \in Requests, ResendNothing(r) \/ ResendQueue(r)
      PROVE UNCHANGED Promise!vars
  BY <1>9 DEF ResendNothing, ResendQueue, historyVars
<1>10. CASE UNCHANGED vars
  BY <1>10 DEF vars, historyVars
<1>11. QED
  BY <1>1, <1>2, <1>3, <1>4, <1>5, <1>6, <1>7, <1>8, <1>9, <1>10 DEF Next, Step, StartStep

(***************************************************************************)
(* The requests implement the abstract announcement: its message, its      *)
(* rating request and its event leave the program once each and in this    *)
(* order, with the claimed arrival time (start_delivery).                  *)
(***************************************************************************)
THEOREM Refinement == Spec => KeepsPromise
BY PromiseInit, PromiseStep, Invariant, PTL DEF Spec, KeepsPromise, Promise!Spec

-----------------------------------------------------------------------------
(***************************************************************************)
(* Finality.  An announced delivery cannot lose its status to a request    *)
(* that loads it from now on; only a start about to save, or a ready       *)
(* request holding an instance that is still new, could take it back.      *)
(***************************************************************************)
NobodyTakesBack ==
  /\ notif # "absent"
  /\ \A r \in Requests : pc[r] # "save"
  /\ \A r \in Requests : At(r, "ready", "loaded") => mem[r].status # "new"

KeepsStatus(S) == NobodyTakesBack /\ row.status \in S

LEMMA StatusStep ==
  ASSUME NEW S \in {{"delivered"}, {"on_the_way", "delivered"}},
         TypeOK, [Next]_vars, KeepsStatus(S)
  PROVE  KeepsStatus(S)'
<1> USE DEF KeepsStatus, NobodyTakesBack, TypeOK, Row, NewRow, At, Goto, Proceed, End,
            SetStatus, dbVars, AlreadyStarted
<1>1. ASSUME NEW r \in Requests, NEW o \in Offered, Begin(r, o) PROVE KeepsStatus(S)'
  BY <1>1 DEF Begin
<1>2. ASSUME NEW r \in Requests, StartStep(r) PROVE KeepsStatus(S)'
  BY <1>2 DEF StartStep, StartDeclined, StartNeedsEta, StartPlanned,
     StartSave, StartToken,
     StartCreate, StartClash, StartSchedule
<1>3. ASSUME NEW r \in Requests, Send(r) \/ Record(r) \/ Report(r) PROVE KeepsStatus(S)'
  <2>1. CASE Send(r)    BY <2>1 DEF Send
  <2>2. CASE Record(r)  BY <2>2 DEF Record
  <2>3. CASE Report(r)  BY <2>3 DEF Report
  <2>4. QED BY <1>3, <2>1, <2>2, <2>3
<1>4. ASSUME NEW r \in Requests, Ready(r) PROVE KeepsStatus(S)'
  BY <1>4 DEF Ready
<1>5. ASSUME NEW r \in Requests, Deliver(r) PROVE KeepsStatus(S)'
  BY <1>5 DEF Deliver
<1>6. ASSUME NEW r \in Requests, Delete(r) \/ Restore(r) PROVE KeepsStatus(S)'
  BY <1>6 DEF Delete, Restore
<1>7. ASSUME NEW r \in Requests, ResendNothing(r) \/ ResendQueue(r) PROVE KeepsStatus(S)'
  BY <1>7 DEF ResendNothing, ResendQueue
<1>8. ASSUME NEW r \in Requests, Crash(r) PROVE KeepsStatus(S)'
  BY <1>8 DEF Crash
<1>9. CASE UNCHANGED vars
  BY <1>9 DEF vars, requestVars
<1>10. QED
  BY <1>1, <1>2, <1>3, <1>4, <1>5, <1>6, <1>7, <1>8, <1>9 DEF Next, Step

(* Announced and delivered, with no request left: delivered for good. *)
THEOREM DeliveredIsFinal == Spec => DeliveredIsKept
<1> DEFINE Kept == KeepsStatus({"delivered"})
<1>1. SettledDelivered => Kept
  BY DEF SettledDelivered, Quiet, KeepsStatus, NobodyTakesBack, At
<1>2. TypeOK /\ Kept /\ [Next]_vars => Kept'
  BY StatusStep
<1>3. Kept => row.status = "delivered"
  BY DEF KeepsStatus
<1> HIDE DEF Kept
<1>4. QED
  BY <1>1, <1>2, <1>3, TypeCorrect, PTL DEF Spec, DeliveredIsKept

(* Announced and under way, with no request left: never less than that again. *)
THEOREM UnderWayIsFinal == Spec => UnderWayIsKept
<1> DEFINE Kept == KeepsStatus({"on_the_way", "delivered"})
<1>1. SettledUnderWay => Kept
  BY DEF SettledUnderWay, UnderWay, Quiet, KeepsStatus, NobodyTakesBack, At
<1>2. TypeOK /\ Kept /\ [Next]_vars => Kept'
  BY StatusStep
<1>3. Kept => UnderWay
  BY DEF KeepsStatus, UnderWay
<1> HIDE DEF Kept
<1>4. QED
  BY <1>1, <1>2, <1>3, TypeCorrect, PTL DEF Spec, UnderWayIsKept

-----------------------------------------------------------------------------
(***************************************************************************)
(* Emitting and posting events never disturbs the delivery: what holds of  *)
(* its life holds of it together with the merchant's events                *)
(* (notify_merchant never raises).                                         *)
(***************************************************************************)
THEOREM EventsAside == EventsSpec => Spec
  <1>1. EventsInit => Init
    BY DEF EventsInit
  <1>2. [EventsNext]_allVars => [Next]_vars
    BY DEF EventsNext, allVars, Arrive, Serve, Die, Post, PostUnanswered, Hear, Next
  <1> QED
    BY <1>1, <1>2, PTL DEF EventsSpec, Spec

-----------------------------------------------------------------------------
Told == {"on_the_way", "delivered"}

LEMMA PayloadType == ASSUME NEW r PROVE Payload(r) \in Told
  BY DEF Payload, Told

LEMMA EventsInvInit == EventsInit => EventsInv
  BY DEF EventsInit, Init, EventsInv, OneByOne, Telling, At

LEMMA ArriveStep ==
  ASSUME IInv, EventsInv, NEW r \in Requests, Arrive(r)
  PROVE  EventsInv'
  <1> USE DEF EventsInv
  <1>1. PICK o \in Offered : Begin(r, o)
    BY DEF Arrive
  <1>2. CASE Unfollow
    BY <1>2 DEF Unfollow
  <1>3. CASE UNCHANGED eventVars /\ ~followed
    BY <1>3 DEF eventVars
  <1>4. CASE UNCHANGED eventVars /\ followed /\ Quiet
    <2> USE <1>1, <1>4 DEF Begin, Goto, dbVars, eventVars, Quiet, IInv, TypeOK
    <2>1. OneByOne'
      BY DEF OneByOne
    <2>2. \A q \in Requests : ~Telling(q) /\ ~Telling(q)'
      BY DEF Telling, At
    <2> QED
      BY <2>1, <2>2
  <1> QED
    BY <1>2, <1>3, <1>4 DEF Arrive

(* A statement moves its own request only, and that one was under way. *)
LEMMA OthersStay ==
  ASSUME IInv, NEW r \in Requests, Step(r)
  PROVE  /\ pc[r] # "idle"
         /\ \A q \in Requests \ {r} : pc'[q] = pc[q] /\ op'[q] = op[q]
  <1> USE DEF IInv, TypeOK, At, Goto, Proceed, End
  <1>1. CASE StartStep(r)
    BY <1>1 DEF StartStep, StartDeclined, StartNeedsEta, StartPlanned, StartSave,
                StartToken, StartCreate, StartClash, StartSchedule
  <1>2. CASE Send(r) \/ Record(r) \/ Report(r)
    BY <1>2 DEF Send, Record, Report
  <1>3. CASE Ready(r) \/ Deliver(r) \/ Delete(r) \/ Restore(r)
    BY <1>3 DEF Ready, Deliver, Delete, Restore
  <1>4. CASE ResendNothing(r) \/ ResendQueue(r)
    BY <1>4 DEF ResendNothing, ResendQueue
  <1> QED
    BY <1>1, <1>2, <1>3, <1>4 DEF Step

(* One request at a time stays so, and its instance stays true until used. *)
LEMMA OneByOneStep ==
  ASSUME IInv, OneByOne, NEW r \in Requests, Step(r)
  PROVE  OneByOne'
  <1> USE DEF IInv, TypeOK, OneByOne, At, Goto, Proceed, End, SetStatus, dbVars, PlacesOK
  <1>1. CASE StartStep(r)
    <2>1. CASE StartDeclined(r) \/ StartNeedsEta(r) \/ StartClash(r)
      BY <2>1 DEF StartDeclined, StartNeedsEta, StartClash
    <2>2. CASE StartPlanned(r)
      BY <2>2 DEF StartPlanned, AlreadyStarted
    <2>3. CASE StartSave(r) \/ StartToken(r)
      BY <2>3 DEF StartSave, StartToken
    <2>4. CASE StartCreate(r) \/ StartSchedule(r)
      BY <2>4 DEF StartCreate, StartSchedule
    <2> QED
      BY <1>1, <2>1, <2>2, <2>3, <2>4 DEF StartStep
  <1>2. CASE Send(r) \/ Record(r) \/ Report(r)
    BY <1>2 DEF Send, Record, Report
  <1>3. CASE Ready(r) \/ Deliver(r) \/ Delete(r) \/ Restore(r)
    BY <1>3 DEF Ready, Deliver, Delete, Restore
  <1>4. CASE ResendNothing(r) \/ ResendQueue(r)
    BY <1>4 DEF ResendNothing, ResendQueue
  <1> QED
    BY <1>1, <1>2, <1>3, <1>4 DEF Step

(* The last statement emits what the row says. *)
LEMMA EmitStep ==
  ASSUME IInv, EventsInv, NEW r \in Requests, Step(r), followed, pc[r] = "report", Emit(r)
  PROVE  EventsInv'
  <1> USE DEF EventsInv
  <1>1. OneByOne' /\ followed'
    BY OneByOneStep DEF Emit
  <1>2. Report(r)
    BY DEF Step, StartStep, StartDeclined, StartNeedsEta, StartPlanned, StartSave, StartToken,
           StartCreate, StartClash, StartSchedule, Send, Record, Ready, Deliver, Delete, Restore,
           ResendNothing, ResendQueue, At
  <1>3. Telling(r)
    BY DEF Telling, At, IInv, PlacesOK
  <1>4. row'.status = Payload(r)
    BY <1>2, <1>3 DEF Report, dbVars
  <1>5. sent' \in Seq(Told) /\ sent' # <<>> /\ sent'[Len(sent')] = Payload(r)
    BY PayloadType DEF Emit, Told
  <1>6. \A q \in Requests : ~Telling(q)'
    BY <1>2 DEF Report, End, Goto, OneByOne, Telling, At, IInv, TypeOK
  <1> QED
    BY <1>1, <1>4, <1>5, <1>6 DEF Told

(* Any other statement keeps what was told true, or makes up its own event. *)
LEMMA SilentStep ==
  ASSUME IInv, EventsInv, NEW r \in Requests, Step(r), followed, pc[r] # "report", UNCHANGED eventVars
  PROVE  EventsInv'
  <1> USE DEF EventsInv
  <1>1. OneByOne' /\ followed' /\ sent' = sent
    BY OneByOneStep DEF eventVars
  <1>2. pc[r] # "idle" /\ \A q \in Requests \ {r} : pc'[q] = pc[q] /\ op'[q] = op[q]
    BY OthersStay
  <1>3. \A q \in Requests \ {r} : ~Telling(q) /\ ~Telling(q)'
    BY <1>2 DEF OneByOne, Telling, At
  <1>4. sent # <<>> => sent[Len(sent)] \in Told
    BY DEF Told
  <1>5. \/ Telling(r)' /\ row'.status = Payload(r)'
        \/ ~Telling(r) /\ ~Telling(r)' /\ (sent # <<>> => row'.status = row.status)
    <2> USE DEF IInv, TypeOK, Row, At, Goto, Proceed, End, SetStatus, dbVars, PlacesOK, Telling, Payload
    <2>1. CASE StartDeclined(r) \/ StartNeedsEta(r) \/ StartPlanned(r)
      BY <2>1 DEF StartDeclined, StartNeedsEta, StartPlanned
    <2>2. CASE StartSave(r)
      BY <2>2 DEF StartSave
    <2>3. CASE StartToken(r) \/ StartCreate(r) \/ StartSchedule(r)
      BY <2>3 DEF StartToken, StartCreate, StartSchedule
    <2>4. CASE StartClash(r)
      BY <2>4 DEF StartClash, OneByOne
    <2>5. CASE Send(r)
      BY <2>5 DEF Send
    <2>6. CASE Record(r)
      BY <2>6 DEF Record
    <2>7. CASE Ready(r)
      BY <2>7, <1>3, <1>4 DEF Ready, OneByOne, Told
    <2>8. CASE Deliver(r)
      BY <2>8 DEF Deliver
    <2>9. CASE Delete(r) \/ Restore(r)
      BY <2>9 DEF Delete, Restore
    <2>10. CASE ResendNothing(r) \/ ResendQueue(r)
      BY <2>10 DEF ResendNothing, ResendQueue
    <2>11. ~Report(r)
      BY DEF Report
    <2> QED
      BY <2>1, <2>2, <2>3, <2>4, <2>5, <2>6, <2>7, <2>8, <2>9, <2>10, <2>11 DEF Step, StartStep
  <1> QED
    BY <1>1, <1>3, <1>5

LEMMA DieStep ==
  ASSUME IInv, EventsInv, NEW r \in Requests, Die(r)
  PROVE  EventsInv'
  <1> USE DEF EventsInv
  <1>1. CASE Unfollow
    BY <1>1 DEF Unfollow
  <1>2. CASE UNCHANGED eventVars /\ ~followed
    BY <1>2 DEF eventVars
  <1>3. CASE UNCHANGED eventVars /\ followed /\ ~cut'
    <2>1. pc[r] \in {"loaded", "save"} /\ ~Telling(r)
      BY <1>3 DEF Die, Crash, Telling, At
    <2> QED
      BY <1>3, <2>1 DEF Die, Crash, End, Goto, dbVars, eventVars, OneByOne, Telling, At, Payload, IInv, TypeOK
  <1> QED
    BY <1>1, <1>2, <1>3 DEF Die

LEMMA EventsInvStep == IInv /\ EventsInv /\ [EventsNext]_allVars => EventsInv'
  <1> SUFFICES ASSUME IInv, EventsInv, [EventsNext]_allVars PROVE EventsInv'
    OBVIOUS
  <1>1. ASSUME NEW r \in Requests, Arrive(r) PROVE EventsInv'
    BY <1>1, ArriveStep
  <1>2. ASSUME NEW r \in Requests, Serve(r) PROVE EventsInv'
    <2>1. Step(r)
      BY <1>2 DEF Serve
    <2>2. CASE ~followed
      BY <1>2, <2>2 DEF Serve, eventVars, EventsInv
    <2>3. CASE followed /\ pc[r] = "report"
      BY <1>2, <2>1, <2>3, EmitStep DEF Serve
    <2>4. CASE followed /\ pc[r] # "report"
      BY <1>2, <2>1, <2>4, SilentStep DEF Serve
    <2> QED
      BY <2>2, <2>3, <2>4
  <1>3. ASSUME NEW r \in Requests, Die(r) PROVE EventsInv'
    BY <1>3, DieStep
  <1>4. ASSUME UNCHANGED <<vars, followed, sent>> PROVE EventsInv'
    BY <1>4 DEF EventsInv, OneByOne, Telling, Payload, At, vars, dbVars, requestVars
  <1> QED
    BY <1>1, <1>2, <1>3, <1>4
       DEF EventsNext, Post, PostUnanswered, Hear, allVars, eventVars

(***************************************************************************)
(* The last event emitted tells the delivery's status until the next       *)
(* request, as long as requests come one after the other and none is cut   *)
(* short (emit_delivery_event after the save, the silent mark_ready).      *)
(***************************************************************************)
THEOREM LatestEvent == EventsSpec => []LatestEventIsTrue
  <1>1. EventsInv => LatestEventIsTrue
    BY DEF EventsInv, LatestEventIsTrue, AtRest, Quiet, Telling, At
  <1> QED
    BY <1>1, EventsInvInit, EventsInvStep, EventsAside, Invariant, PTL DEF EventsSpec

-----------------------------------------------------------------------------
(***************************************************************************)
(* The safety half of MerchantCatchesUp: an event that the queue has taken *)
(* is not lost, and a later post of an earlier one does not cover it up    *)
(* (the merchant goes by sent_at).                                         *)
(***************************************************************************)
Heard == newest = Len(sent) /\ MerchantKnows
LatestIsKept ==
  [][AtRest /\ AtRest' /\ (Len(sent) \in outbox \/ Heard)
       => (Len(sent) \in outbox \/ Heard)']_allVars

(* The queue holds events that were made, and the merchant heard of such. *)
PostsOK == newest \in 0..Len(sent) /\ outbox \subseteq 1..Len(sent)

LEMMA LaterOfTwo ==
  ASSUME NEW n \in Nat, NEW i \in Nat
  PROVE  Max({n, i}) = IF n >= i THEN n ELSE i
  <1> DEFINE m == IF n >= i THEN n ELSE i
  <1>1. m \in {n, i} /\ \A y \in {n, i} : m >= y
    OBVIOUS
  <1>2. \A k \in {n, i} : (\A y \in {n, i} : k >= y) => k = m
    OBVIOUS
  <1> HIDE DEF m
  <1>3. Max({n, i}) = m
    BY <1>1, <1>2 DEF Max
  <1> QED
    BY <1>3 DEF m

LEMMA HearStep ==
  ASSUME EventsInv, PostsOK, NEW i \in outbox, Hear(i)
  PROVE  newest' \in {newest, i} /\ newest' >= newest /\ newest' >= i /\ newest' \in 0..Len(sent)
  <1>1. Len(sent) \in Nat
    BY DEF EventsInv
  <1>2. newest \in Nat /\ i \in Nat /\ newest <= Len(sent) /\ i <= Len(sent)
    BY <1>1 DEF PostsOK
  <1>3. newest' = IF newest >= i THEN newest ELSE i
    BY <1>2, LaterOfTwo DEF Hear
  <1> QED
    BY <1>1, <1>2, <1>3

LEMMA PostsStep == EventsInv /\ PostsOK /\ [EventsNext]_allVars => PostsOK'
  <1> SUFFICES ASSUME EventsInv, PostsOK, [EventsNext]_allVars PROVE PostsOK'
    OBVIOUS
  <1>1. sent \in Seq(Told) /\ Len(sent) \in Nat
    BY DEF EventsInv, Told
  <1>2. CASE Unfollow
    BY <1>2 DEF Unfollow, PostsOK
  <1>3. ASSUME NEW r \in Requests, Emit(r) PROVE PostsOK'
    <2>1. Len(sent') = Len(sent) + 1
      BY <1>1, <1>3, PayloadType DEF Emit
    <2> QED
      BY <1>1, <1>3, <2>1 DEF Emit, PostsOK
  <1>4. ASSUME NEW i \in outbox, Hear(i), outbox' \subseteq outbox PROVE PostsOK'
    BY <1>4, HearStep DEF PostsOK, Hear
  <1>5. CASE UNCHANGED eventVars
    BY <1>5 DEF eventVars, PostsOK
  <1> QED
    BY <1>2, <1>3, <1>4, <1>5
       DEF EventsNext, Arrive, Serve, Die, Post, PostUnanswered, allVars, eventVars

LEMMA KeptStep ==
  ASSUME IInv, EventsInv, PostsOK, LatestEventIsTrue', AtRest, AtRest',
         [EventsNext]_allVars, Len(sent) \in outbox \/ Heard
  PROVE  (Len(sent) \in outbox \/ Heard)'
  <1>1. ASSUME NEW r \in Requests PROVE ~Arrive(r) /\ ~Serve(r) /\ ~Die(r)
    <2>1. pc[r] = "idle" /\ pc'[r] = "idle"
      BY DEF AtRest, Quiet
    <2>2. ~Arrive(r)
      BY <2>1 DEF Arrive, Begin, Goto, IInv, TypeOK
    <2>3. ~Step(r)
      BY <2>1, OthersStay
    <2> QED
      BY <2>1, <2>2, <2>3 DEF Serve, Die, Crash
  <1>2. CASE UNCHANGED allVars
    BY <1>2 DEF allVars, vars, dbVars, eventVars, Heard, MerchantKnows
  <1>3. ASSUME NEW i \in outbox, Hear(i), outbox \ {i} \subseteq outbox'
        PROVE  (Len(sent) \in outbox \/ Heard)'
    <2>1. sent' = sent /\ row' = row /\ Len(sent) \in Nat
      BY <1>3 DEF Hear, vars, dbVars, EventsInv
    <2>2. newest' \in {newest, i} /\ newest' >= newest /\ newest' >= i /\ newest' \in 0..Len(sent)
      BY <1>3, HearStep
    <2>3. CASE Len(sent) \in outbox /\ i # Len(sent)
      BY <1>3, <2>1, <2>3
    <2>4. CASE i = Len(sent)
      <3>1. i \in 1..Len(sent)
        BY <1>3 DEF PostsOK
      <3>2. newest' = Len(sent) /\ newest' # 0
        BY <2>1, <2>2, <2>4, <3>1
      <3>3. sent' # <<>>
        BY <2>1, <3>1
      <3> QED
        BY <2>1, <3>2, <3>3 DEF Heard, MerchantKnows, LatestEventIsTrue
    <2>5. CASE Heard
      <3>1. newest' = Len(sent) /\ newest' = newest
        BY <2>1, <2>2, <2>5 DEF Heard
      <3> QED
        BY <2>1, <2>5, <3>1 DEF Heard, MerchantKnows
    <2> QED
      BY <2>3, <2>4, <2>5
  <1> QED
    BY <1>1, <1>2, <1>3 DEF EventsNext, Post, PostUnanswered

(***************************************************************************)
(* Between two requests the latest event the queue has taken stays in it   *)
(* until the merchant has heard it, and then the merchant knows the status *)
(* until the next request, whatever is posted late or again                *)
(* (notify_merchant, the queue's posts).                                   *)
(***************************************************************************)
THEOREM LatestNotLost == EventsSpec => LatestIsKept
  <1>1. EventsInit => PostsOK
    BY DEF EventsInit, PostsOK
  <1>2. ASSUME IInv, EventsInv, PostsOK, LatestEventIsTrue', [EventsNext]_allVars
        PROVE  [AtRest /\ AtRest' /\ (Len(sent) \in outbox \/ Heard)
                  => (Len(sent) \in outbox \/ Heard)']_allVars
    BY <1>2, KeptStep
  <1> QED
    BY <1>1, <1>2, PostsStep, LatestEvent, EventsInvInit, EventsInvStep, EventsAside, Invariant, PTL
       DEF EventsSpec, LatestIsKept

=============================================================================
