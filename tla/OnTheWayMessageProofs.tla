------------------------ MODULE OnTheWayMessageProofs ------------------------
(***************************************************************************)
(* Safety of the on-the-way message, for any number of workers, any chain  *)
(* of channels and any number of messages and resends.                     *)
(***************************************************************************)
EXTENDS OnTheWayMessage, TLAPS

LEMMA BlankType == Blank \in Memory
  BY DEF Blank, Memory, NotifStatuses

LEMMA ChainFacts == /\ DOMAIN Chain = 1..Len(Chain) /\ Len(Chain) \in Nat
                    /\ \A i \in DOMAIN Chain : Chain[i] \in Channels
  BY ChainAssumption DEF Channels

LEMMA AnswersType ==
  ASSUME NEW new, NEW answer \in Answers(new)
  PROVE  answer.ok \in BOOLEAN /\ answer.mid \in Mids \cup {NoMid} /\ (answer.ok => new \in Mids)
  <1>1. CASE answer = [ok |-> FALSE, mid |-> NoMid]
    BY <1>1
  <1>2. CASE new \in Mids /\ answer \in [ok : {TRUE}, mid : {new, NoMid}]
    BY <1>2
  <1> QED
    BY <1>1, <1>2 DEF Answers

(* What a send does, whichever channels it is offered. *)
LEMMA SendOverEffect ==
  ASSUME TypeOK, NEW w \in Workers, NEW paths \in SUBSET Channels, SendOver(w, paths)
  PROVE  \E used \in SUBSET paths, m \in Memory :
           /\ uses' = [c \in Channels |-> IF c \in used /\ uses[c] < 2 THEN uses[c] + 1 ELSE uses[c]]
           /\ mem' = [mem EXCEPT ![w] = m]
           /\ m.status = mem[w].status /\ m.used = used /\ m.asks = mem[w].asks
           /\ messages' = messages \/ (Len(messages) < MaxMessages /\ messages' = Append(messages, "pending"))
  <1>1. PICK n \in {i \in DOMAIN Chain : Chain[i] \in paths}, answer \in Answers(Len(messages) + 1) :
          LET used == {Chain[i] : i \in 1..n} \cap paths
          IN /\ uses' = [c \in Channels |-> IF c \in used /\ uses[c] < 2 THEN uses[c] + 1 ELSE uses[c]]
             /\ messages' = IF answer.ok THEN Append(messages, "pending") ELSE messages
             /\ mem' = [mem EXCEPT ![w] = [@ EXCEPT !.ok = answer.ok, !.mid = answer.mid, !.used = used]]
    BY DEF SendOver
  <1> DEFINE used == {Chain[i] : i \in 1..n} \cap paths
  <1>2. answer.ok \in BOOLEAN /\ answer.mid \in Mids \cup {NoMid}
    BY AnswersType
  <1>3. answer.ok => Len(messages) < MaxMessages
    <2>1. answer.ok => Len(messages) + 1 \in Mids
      BY AnswersType
    <2>2. Len(messages) \in Nat
      BY DEF TypeOK
    <2> QED
      BY <2>1, <2>2, BoundsAssumption DEF Mids
  <1> DEFINE m == [mem[w] EXCEPT !.ok = answer.ok, !.mid = answer.mid, !.used = used]
  <1>5. used \in SUBSET paths
    OBVIOUS
  <1>4. m \in Memory /\ m.status = mem[w].status /\ m.used = used /\ m.asks = mem[w].asks
    <2>1. mem[w] \in Memory /\ used \in SUBSET Channels
      BY <1>5 DEF TypeOK
    <2> HIDE DEF used
    <2>2. /\ [mem[w] EXCEPT !.ok = answer.ok, !.mid = answer.mid, !.used = used] \in Memory
          /\ [mem[w] EXCEPT !.ok = answer.ok, !.mid = answer.mid, !.used = used].status = mem[w].status
          /\ [mem[w] EXCEPT !.ok = answer.ok, !.mid = answer.mid, !.used = used].used = used
          /\ [mem[w] EXCEPT !.ok = answer.ok, !.mid = answer.mid, !.used = used].asks = mem[w].asks
      <3> DEFINE ok == answer.ok
                 mid == answer.mid
                 before == mem[w]
      <3>1. ok \in BOOLEAN /\ mid \in Mids \cup {NoMid} /\ before \in Memory
        BY <1>2, <2>1
      <3> HIDE DEF ok, mid, before
      <3>2. LET after == [before EXCEPT !.ok = ok, !.mid = mid, !.used = used]
            IN  after \in Memory /\ after.status = before.status /\ after.used = used /\ after.asks = before.asks
        BY <2>1, <3>1 DEF Memory
      <3> QED
        BY <3>2 DEF ok, mid, before
    <2> QED
      BY <2>2
  <1> HIDE DEF used
  <1>6. /\ uses' = [c \in Channels |-> IF c \in used /\ uses[c] < 2 THEN uses[c] + 1 ELSE uses[c]]
        /\ messages' = IF answer.ok THEN Append(messages, "pending") ELSE messages
        /\ mem' = [mem EXCEPT ![w] = m]
    BY <1>1 DEF used
  <1> HIDE DEF m
  <1> QED
    BY <1>2, <1>3, <1>4, <1>5, <1>6

-----------------------------------------------------------------------------
LEMMA TypeInit == Init => TypeOK
  <1> SUFFICES ASSUME Init PROVE TypeOK
    OBVIOUS
  <1>1. mem \in [Workers -> Memory]
    BY BlankType DEF Init
  <1>2. notif \in [status : NotifStatuses, mid : Mids \cup {NoMid}]
    BY DEF Init, NotifStatuses
  <1>3. messages \in Seq(Fates) /\ Len(messages) <= MaxMessages
    BY BoundsAssumption DEF Init
  <1>4. resends \in 0..MaxResends
    BY BoundsAssumption DEF Init
  <1>5. /\ declared \in Deployments /\ tried \in SUBSET Channels /\ reports \in SUBSET Report
        /\ tasks \in Nat /\ reported \in BOOLEAN /\ told \in SUBSET Arrived
        /\ refused \in BOOLEAN /\ cut \in BOOLEAN /\ overlapped \in BOOLEAN
    BY DEF Init
  <1>6. /\ pc \in [Workers -> Places] /\ op \in [Workers -> Handlers \cup {"none"}]
        /\ uses \in [Channels -> 0..2]
    BY DEF Init, Places
  <1> QED
    BY <1>1, <1>2, <1>3, <1>4, <1>5, <1>6 DEF TypeOK

(* The handlers that send. *)
LEMMA TypeSend ==
  ASSUME TypeOK, NEW w \in Workers, NEW paths \in SUBSET Channels, SendOver(w, paths)
  PROVE  /\ mem' \in [Workers -> Memory]
         /\ uses' \in [Channels -> 0..2]
         /\ messages' \in Seq(Fates) /\ Len(messages') <= MaxMessages
  <1>1. PICK used \in SUBSET paths, m \in Memory :
           /\ uses' = [c \in Channels |-> IF c \in used /\ uses[c] < 2 THEN uses[c] + 1 ELSE uses[c]]
           /\ mem' = [mem EXCEPT ![w] = m]
           /\ m.status = mem[w].status /\ m.used = used /\ m.asks = mem[w].asks
           /\ messages' = messages \/ (Len(messages) < MaxMessages /\ messages' = Append(messages, "pending"))
    BY SendOverEffect
  <1>2. mem \in [Workers -> Memory] /\ messages \in Seq(Fates) /\ Len(messages) <= MaxMessages
    BY DEF TypeOK
  <1>3. mem' \in [Workers -> Memory]
    BY <1>1, <1>2
  <1>4. uses' \in [Channels -> 0..2]
    BY <1>1 DEF TypeOK
  <1>5. messages' \in Seq(Fates) /\ Len(messages') <= MaxMessages
    <2>1. CASE messages' = messages
      BY <2>1, <1>2
    <2>2. CASE Len(messages) < MaxMessages /\ messages' = Append(messages, "pending")
      <3>1. "pending" \in Fates
        BY DEF Fates
      <3>2. messages' \in Seq(Fates) /\ Len(messages') = Len(messages) + 1
        BY <1>2, <2>2, <3>1
      <3> QED
        BY <1>2, <2>2, <3>2, BoundsAssumption
    <2> QED
      BY <1>1, <2>1, <2>2
  <1> QED
    BY <1>3, <1>4, <1>5

LEMMA EndType ==
  ASSUME TypeOK, NEW w \in Workers, End(w)
  PROVE  /\ pc' \in [Workers -> Places] /\ op' \in [Workers -> Handlers \cup {"none"}]
         /\ mem' \in [Workers -> Memory] /\ overlapped' \in BOOLEAN
  BY BlankType DEF End, TypeOK, Places

LEMMA ProceedType ==
  ASSUME TypeOK, NEW w \in Workers, NEW place \in Places, Proceed(w, place)
  PROVE  /\ pc' \in [Workers -> Places] /\ op' \in [Workers -> Handlers \cup {"none"}]
         /\ mem' \in [Workers -> Memory] /\ overlapped' \in BOOLEAN
  BY DEF Proceed, TypeOK

LEMMA EnterType ==
  ASSUME TypeOK, NEW w \in Workers, NEW o \in Handlers, NEW place \in Places, Enter(w, o, place)
  PROVE  /\ pc' \in [Workers -> Places] /\ op' \in [Workers -> Handlers \cup {"none"}]
         /\ overlapped' \in BOOLEAN
  BY DEF Enter, TypeOK

LEMMA TypeStep == TypeOK /\ [Next]_vars => TypeOK'
  <1> SUFFICES ASSUME TypeOK, [Next]_vars PROVE TypeOK'
    OBVIOUS
  <1> USE DEF dbVars, envVars, hisVars
  <1>1. ASSUME NEW w \in Workers, StartCreate(w) PROVE TypeOK'
    BY <1>1, EnterType DEF StartCreate, TypeOK, NotifStatuses, Handlers, Places
  <1>2. ASSUME NEW w \in Workers, ResendQueue(w) PROVE TypeOK'
    <2>1. resends' \in 0..MaxResends /\ notif' \in [status : NotifStatuses, mid : Mids \cup {NoMid}]
      BY <1>2, BoundsAssumption DEF ResendQueue, TypeOK, NotifStatuses
    <2>2. uses' \in [Channels -> 0..2] /\ told' \in SUBSET Arrived
      BY <1>2 DEF ResendQueue
    <2> QED
      BY <1>2, <2>1, <2>2, EnterType DEF ResendQueue, TypeOK, Handlers, Places
  <1>3. ASSUME NEW w \in Workers, EscalateLoad(w) PROVE TypeOK'
    <2>1. mem' \in [Workers -> Memory]
      BY <1>3 DEF EscalateLoad, TypeOK, Memory
    <2> QED
      BY <1>3, <2>1, EnterType DEF EscalateLoad, TypeOK, Handlers, Places
  <1>4. ASSUME NEW w \in Workers, ReceiptLoad(w) PROVE TypeOK'
    <2>1. mem' \in [Workers -> Memory]
      <3>1. PICK rep \in reports :
              mem' = [mem EXCEPT ![w] = [@ EXCEPT !.status = notif.status, !.asks = rep.status]]
        BY <1>4 DEF ReceiptLoad
      <3>2. rep.status \in ReportStatuses /\ notif.status \in NotifStatuses /\ mem[w] \in Memory
        BY DEF TypeOK, Report
      <3>3. [mem[w] EXCEPT !.status = notif.status, !.asks = rep.status] \in Memory
        BY <3>2 DEF Memory
      <3> QED
        BY <3>1, <3>3 DEF TypeOK
    <2> QED
      BY <1>4, <2>1, EnterType DEF ReceiptLoad, TypeOK, Handlers, Places
  <1>5. ASSUME NEW w \in Workers, Send(w) PROVE TypeOK'
    BY <1>5, TypeSend DEF Send, TypeOK, Places
  <1>6. ASSUME NEW w \in Workers, EscalateSend(w) PROVE TypeOK'
    BY <1>6, TypeSend DEF EscalateSend, UntriedPaths, TypeOK, Places
  <1>7. ASSUME NEW w \in Workers, SaveOutcome(w) PROVE TypeOK'
    <2>1. notif' \in [status : NotifStatuses, mid : Mids \cup {NoMid}]
      BY <1>7 DEF SaveOutcome, TypeOK, NotifStatuses, Memory
    <2> QED
      BY <1>7, <2>1, ProceedType DEF SaveOutcome, TypeOK, Places
  <1>8. ASSUME NEW w \in Workers, WipeAttempts(w) \/ WriteAttempts(w) PROVE TypeOK'
    <2>1. tried' \in SUBSET Channels
      BY <1>8 DEF WipeAttempts, WriteAttempts, TypeOK, Memory
    <2> QED
      BY <1>8, <2>1, ProceedType, EndType DEF WipeAttempts, WriteAttempts, TypeOK, Places
  <1>9. ASSUME NEW w \in Workers, Plan(w) PROVE TypeOK'
    <2>1. tasks \in Nat /\ refused \in BOOLEAN
      BY DEF TypeOK
    <2>2. tasks' \in {tasks, tasks + 1} /\ refused' \in {refused, TRUE}
      BY <1>9 DEF Plan
    <2>4. tasks' \in Nat
      BY <2>1, <2>2
    <2>5. refused' \in BOOLEAN
      BY <2>1, <2>2
    <2>3. tasks' \in Nat /\ refused' \in BOOLEAN
      BY <2>4, <2>5
    <2> QED
      BY <1>9, <2>3, ProceedType, EndType DEF Plan, TypeOK, Places
  <1>10. ASSUME NEW w \in Workers, PlanRaises(w) \/ ReportStart(w) \/ EscalateExhausted(w) PROVE TypeOK'
    BY <1>10, EndType DEF PlanRaises, ReportStart, EscalateExhausted, TypeOK
  <1>11. ASSUME NEW w \in Workers, EscalateAppend(w) PROVE TypeOK'
    <2>1. tried' \in SUBSET Channels
      BY <1>11 DEF EscalateAppend, TypeOK, Memory
    <2> QED
      BY <1>11, <2>1, ProceedType, EndType DEF EscalateAppend, TypeOK, Places
  <1>12. ASSUME NEW w \in Workers, EscalatePromote(w) PROVE TypeOK'
    <2>1. notif' \in [status : NotifStatuses, mid : Mids \cup {NoMid}]
      BY <1>12 DEF EscalatePromote, TypeOK, NotifStatuses, Memory
    <2> QED
      BY <1>12, <2>1, ProceedType DEF EscalatePromote, TypeOK, Places
  <1>13. ASSUME NEW w \in Workers, ReceiptApply(w) PROVE TypeOK'
    <2>1. CASE Applies(mem[w].status, mem[w].asks)
      <3>1. mem[w].asks \in ReportStatuses
        BY <2>1 DEF TypeOK, Memory, Applies, Rank, NotifStatuses
      <3>2. notif' \in [status : NotifStatuses, mid : Mids \cup {NoMid}]
        BY <1>13, <2>1, <3>1 DEF ReceiptApply, TypeOK, NotifStatuses, ReportStatuses, Arrived
      <3> QED
        BY <1>13, <2>1, <3>2, ProceedType DEF ReceiptApply, TypeOK, Places
    <2>2. CASE ~Applies(mem[w].status, mem[w].asks)
      BY <1>13, <2>2, EndType DEF ReceiptApply, TypeOK
    <2> QED
      BY <2>1, <2>2
  <1>14. ASSUME NEW w \in Workers, ReceiptTell(w) \/ Crash(w) PROVE TypeOK'
    <2>1. told' \in SUBSET Arrived /\ cut' \in BOOLEAN
      BY <1>14 DEF ReceiptTell, Crash, TypeOK
    <2> QED
      BY <1>14, <2>1, EndType DEF ReceiptTell, Crash, TypeOK
  <1>15. CASE EscalateNotNeeded
    BY <1>15 DEF EscalateNotNeeded, TypeOK
  <1>16. ASSUME NEW m \in DOMAIN messages, Fate(m) PROVE TypeOK'
    <2>1. messages' \in Seq(Fates) /\ Len(messages') = Len(messages)
      BY <1>16 DEF Fate, TypeOK, Fates
    <2>2. m \in Mids /\ messages'[m] \in ReportStatuses
      BY <1>16, BoundsAssumption DEF Fate, TypeOK, Mids, ReportStatuses, Arrived
    <2>3. reports' \in SUBSET Report
      BY <1>16, <2>2 DEF Fate, TypeOK, Report
    <2> QED
      BY <1>16, <2>1, <2>3 DEF Fate, TypeOK
  <1>17. CASE UNCHANGED vars
    BY <1>17 DEF vars, TypeOK
  <1> QED
    BY <1>1, <1>2, <1>3, <1>4, <1>5, <1>6, <1>7, <1>8, <1>9, <1>10, <1>11, <1>12, <1>13,
       <1>14, <1>15, <1>16, <1>17 DEF Next, Arrive, Work

-----------------------------------------------------------------------------
LEMMA PlacesInit == Init => PlacesOK
  BY DEF Init, PlacesOK, Blank

LEMMA PlacesStep == TypeOK /\ PlacesOK /\ [Next]_vars => PlacesOK'
  <1> SUFFICES ASSUME TypeOK, PlacesOK, [Next]_vars PROVE PlacesOK'
    OBVIOUS
  <1> USE DEF dbVars, envVars, hisVars
  <1>1. ASSUME NEW w \in Workers, StartCreate(w) \/ ResendQueue(w) PROVE PlacesOK'
    BY <1>1 DEF StartCreate, ResendQueue, Enter, PlacesOK, TypeOK
  <1>2. ASSUME NEW w \in Workers, EscalateLoad(w) PROVE PlacesOK'
    BY <1>2 DEF EscalateLoad, Enter, PlacesOK, TypeOK
  <1>3. ASSUME NEW w \in Workers, ReceiptLoad(w) PROVE PlacesOK'
    <2>1. PICK rep \in reports :
            /\ notif.mid = rep.mid
            /\ Enter(w, "receipt", "apply")
            /\ mem' = [mem EXCEPT ![w] = [@ EXCEPT !.status = notif.status, !.asks = rep.status]]
            /\ UNCHANGED <<dbVars, envVars, hisVars>>
      BY <1>3 DEF ReceiptLoad
    <2>2. rep.status \in ReportStatuses /\ rep.mid \in Mids
      BY DEF TypeOK, Report
    <2>3. notif.status # "absent"
      BY <2>1, <2>2, NoMidAssumption DEF PlacesOK
    <2>4. mem'[w].asks = rep.status
      BY <2>1 DEF TypeOK, Memory
    <2> QED
      BY <2>1, <2>2, <2>3, <2>4 DEF Enter, PlacesOK, TypeOK
  <1>4. ASSUME NEW w \in Workers, NEW paths \in SUBSET Channels, SendOver(w, paths),
               \/ pc[w] = "send" /\ pc' = [pc EXCEPT ![w] = "save"]
               \/ pc[w] = "paths" /\ pc' = [pc EXCEPT ![w] = "append"],
               UNCHANGED <<op, notif>>
        PROVE  PlacesOK'
    <2>1. PICK m \in Memory : mem' = [mem EXCEPT ![w] = m]
      BY <1>4, SendOverEffect
    <2> QED
      BY <1>4, <2>1 DEF PlacesOK, TypeOK
  <1>5. ASSUME NEW w \in Workers, Send(w) PROVE PlacesOK'
    <2>1. /\ Channels \in SUBSET Channels /\ SendOver(w, Channels)
          /\ pc[w] = "send" /\ pc' = [pc EXCEPT ![w] = "save"]
          /\ UNCHANGED <<op, notif>>
      BY <1>5 DEF Send
    <2>2. PICK m \in Memory : mem' = [mem EXCEPT ![w] = m]
      BY <2>1, SendOverEffect
    <2> QED
      BY <2>1, <2>2 DEF PlacesOK, TypeOK
  <1>6. ASSUME NEW w \in Workers, EscalateSend(w) PROVE PlacesOK'
    BY <1>4, <1>6 DEF EscalateSend, UntriedPaths
  <1>7. ASSUME NEW w \in Workers,
               pc[w] # "idle", UNCHANGED uses, notif' = notif \/ notif'.status # "absent",
               End(w)
        PROVE  PlacesOK'
    BY <1>7 DEF End, PlacesOK, TypeOK, Blank
  <1>8. ASSUME NEW w \in Workers, SaveOutcome(w) \/ WipeAttempts(w) PROVE PlacesOK'
    BY <1>8 DEF SaveOutcome, WipeAttempts, Proceed, PlacesOK, TypeOK
  <1>9. ASSUME NEW w \in Workers, WriteAttempts(w) PROVE PlacesOK'
    BY <1>7, <1>9 DEF WriteAttempts, Proceed, PlacesOK, TypeOK
  <1>10. ASSUME NEW w \in Workers, Plan(w) PROVE PlacesOK'
    BY <1>7, <1>10 DEF Plan, Proceed, PlacesOK, TypeOK
  <1>11. ASSUME NEW w \in Workers, PlanRaises(w) \/ ReportStart(w) \/ EscalateExhausted(w) PROVE PlacesOK'
    BY <1>7, <1>11 DEF PlanRaises, ReportStart, EscalateExhausted
  <1>12. ASSUME NEW w \in Workers, EscalateAppend(w) PROVE PlacesOK'
    BY <1>7, <1>12 DEF EscalateAppend, Proceed, PlacesOK, TypeOK
  <1>13. ASSUME NEW w \in Workers, EscalatePromote(w) PROVE PlacesOK'
    BY <1>13 DEF EscalatePromote, Proceed, PlacesOK, TypeOK
  <1>14. ASSUME NEW w \in Workers, ReceiptApply(w) PROVE PlacesOK'
    <2>1. mem[w].asks \in ReportStatuses /\ notif.status # "absent"
      BY <1>14 DEF ReceiptApply, PlacesOK
    <2>2. CASE Applies(mem[w].status, mem[w].asks)
      <3>1. notif'.status # "absent" /\ UNCHANGED uses
        BY <1>14, <2>1, <2>2 DEF ReceiptApply, TypeOK, ReportStatuses, Arrived
      <3> QED
        BY <1>14, <2>1, <2>2, <3>1 DEF ReceiptApply, Proceed, PlacesOK, TypeOK
    <2>3. CASE ~Applies(mem[w].status, mem[w].asks)
      BY <1>7, <1>14, <2>3 DEF ReceiptApply
    <2> QED
      BY <2>2, <2>3
  <1>15. ASSUME NEW w \in Workers, ReceiptTell(w) \/ Crash(w) PROVE PlacesOK'
    BY <1>7, <1>15 DEF ReceiptTell, Crash
  <1>16. CASE EscalateNotNeeded
    BY <1>16 DEF EscalateNotNeeded, PlacesOK
  <1>17. ASSUME NEW m \in DOMAIN messages, Fate(m) PROVE PlacesOK'
    BY <1>17 DEF Fate, PlacesOK
  <1>18. CASE UNCHANGED vars
    BY <1>18 DEF vars, PlacesOK
  <1> QED
    BY <1>1, <1>2, <1>3, <1>5, <1>6, <1>8, <1>9, <1>10, <1>11, <1>12, <1>13,
       <1>14, <1>15, <1>16, <1>17, <1>18 DEF Next, Arrive, Work

-----------------------------------------------------------------------------
(* What happened to a message is never taken back. *)
LEMMA MessagesGrow ==
  ASSUME TypeOK, [Next]_vars, NEW m, NEW s, Came(m, s)
  PROVE  Came(m, s)'
  <1> USE DEF dbVars, envVars, hisVars
  <1>1. messages \in Seq(Fates)
    BY DEF TypeOK
  <1>2. CASE UNCHANGED messages
    BY <1>2 DEF Came
  <1>3. ASSUME NEW w \in Workers, NEW paths \in SUBSET Channels, SendOver(w, paths) PROVE Came(m, s)'
    <2>1. messages' = messages \/ messages' = Append(messages, "pending")
      BY <1>3, SendOverEffect
    <2>2. CASE messages' = Append(messages, "pending")
      BY <1>1, <2>2 DEF Came
    <2> QED
      BY <1>2, <2>1, <2>2
  <1>4. ASSUME NEW w \in Workers, Send(w) PROVE Came(m, s)'
    <2>1. Channels \in SUBSET Channels /\ SendOver(w, Channels)
      BY <1>4 DEF Send
    <2> QED
      BY <1>3, <2>1
  <1>5. ASSUME NEW w \in Workers, EscalateSend(w) PROVE Came(m, s)'
    BY <1>3, <1>5 DEF EscalateSend, UntriedPaths
  <1>6. ASSUME NEW n \in DOMAIN messages, Fate(n) PROVE Came(m, s)'
    BY <1>1, <1>6 DEF Fate, Came, Arrived
  <1>7. ASSUME NEW w \in Workers, Arrive(w) PROVE UNCHANGED messages
    BY <1>7 DEF Arrive, StartCreate, ResendQueue, EscalateLoad, ReceiptLoad
  <1>8. ASSUME NEW w \in Workers, Work(w), ~Send(w), ~EscalateSend(w) PROVE UNCHANGED messages
    BY <1>8 DEF Work, SaveOutcome, WipeAttempts, WriteAttempts, Plan, PlanRaises, ReportStart,
         EscalateExhausted, EscalateAppend, EscalatePromote, ReceiptApply, ReceiptTell
  <1>9. EscalateNotNeeded \/ UNCHANGED vars \/ (\E w \in Workers : Crash(w)) => UNCHANGED messages
    BY DEF EscalateNotNeeded, vars, Crash
  <1> QED
    BY <1>2, <1>4, <1>5, <1>6, <1>7, <1>8, <1>9 DEF Next

LEMMA ReceiptsInit == Init => ReceiptsTrue
  BY DEF Init, ReceiptsTrue, Blank, Arrived

(* Where a status or a report's status comes from, in any step. *)
LEMMA ReceiptsStep == TypeOK /\ PlacesOK /\ ReceiptsTrue /\ [Next]_vars => ReceiptsTrue'
  <1> SUFFICES ASSUME TypeOK, PlacesOK, ReceiptsTrue, [Next]_vars PROVE ReceiptsTrue'
    OBVIOUS
  <1> USE DEF dbVars, envVars, hisVars
  <1> DEFINE Now(m, s) == m \in DOMAIN messages' /\ messages'[m] \in (IF s = "read" THEN {"read"} ELSE Arrived)
             Known(s)  == s \in Arrived => \E m \in Mids : Now(m, s)
  <1>1. \A m, s : Came(m, s) => Now(m, s)
    BY MessagesGrow DEF Came
  <1>2. ASSUME \A rep \in reports' : rep.status \in Arrived => Now(rep.mid, rep.status),
               \A w \in Workers : Known(mem'[w].asks),
               Known(notif'.status)
        PROVE  ReceiptsTrue'
    BY <1>2 DEF ReceiptsTrue, Came
  <1>3. /\ \A rep \in reports : rep.status \in Arrived => Now(rep.mid, rep.status)
        /\ \A w \in Workers : Known(mem[w].asks)
        /\ Known(notif.status)
    BY <1>1 DEF ReceiptsTrue
  <1>4. Known("none") /\ Known("queued") /\ Known("sent") /\ Known("failed")
    BY DEF Arrived
  <1> HIDE DEF Known
  <1>5. ASSUME NEW w \in Workers, End(w), UNCHANGED reports, Known(notif'.status) PROVE ReceiptsTrue'
    <2>1. \A v \in Workers : mem'[v].asks = mem[v].asks \/ mem'[v].asks = "none"
      BY <1>5 DEF End, Blank, TypeOK
    <2> QED
      BY <1>2, <1>3, <1>4, <1>5, <2>1
  <1>6. ASSUME UNCHANGED <<mem, reports>>, Known(notif'.status) PROVE ReceiptsTrue'
    BY <1>2, <1>3, <1>6
  <1>7. ASSUME NEW w \in Workers, StartCreate(w) \/ ResendQueue(w) PROVE ReceiptsTrue'
    <2>1. UNCHANGED <<mem, reports>> /\ notif'.status = "queued"
      BY <1>7 DEF StartCreate, ResendQueue, TypeOK
    <2> QED
      BY <1>4, <1>6, <2>1
  <1>8. ASSUME NEW w \in Workers, EscalateLoad(w) PROVE ReceiptsTrue'
    <2>1. (\A v \in Workers : mem'[v].asks = mem[v].asks) /\ UNCHANGED <<notif, reports>>
      BY <1>8 DEF EscalateLoad, TypeOK, Memory
    <2> QED
      BY <1>2, <1>3, <2>1
  <1>9. ASSUME NEW w \in Workers, ReceiptLoad(w) PROVE ReceiptsTrue'
    <2>1. PICK rep \in reports :
            /\ mem' = [mem EXCEPT ![w] = [@ EXCEPT !.status = notif.status, !.asks = rep.status]]
            /\ UNCHANGED <<notif, reports>>
      BY <1>9 DEF ReceiptLoad
    <2>2. \A v \in Workers : mem'[v].asks = mem[v].asks \/ mem'[v].asks = rep.status
      BY <2>1 DEF TypeOK, Memory
    <2>3. Known(rep.status)
      <3>1. rep.mid \in Mids
        BY DEF TypeOK, Report
      <3> QED
        BY <1>3, <3>1 DEF Known
    <2> QED
      BY <1>2, <1>3, <2>1, <2>2, <2>3
  <1>10. ASSUME NEW w \in Workers, NEW paths \in SUBSET Channels, SendOver(w, paths),
                UNCHANGED <<notif, reports>>
         PROVE  ReceiptsTrue'
    <2>1. \A v \in Workers : mem'[v].asks = mem[v].asks
      BY <1>10, SendOverEffect DEF TypeOK
    <2> QED
      BY <1>2, <1>3, <1>10, <2>1
  <1>11. ASSUME NEW w \in Workers, Send(w) PROVE ReceiptsTrue'
    <2>1. Channels \in SUBSET Channels /\ SendOver(w, Channels) /\ UNCHANGED <<notif, reports>>
      BY <1>11 DEF Send
    <2> QED
      BY <1>10, <2>1
  <1>12. ASSUME NEW w \in Workers, EscalateSend(w) PROVE ReceiptsTrue'
    BY <1>10, <1>12 DEF EscalateSend, UntriedPaths
  <1>13. ASSUME NEW w \in Workers, SaveOutcome(w) \/ EscalatePromote(w) PROVE ReceiptsTrue'
    <2>1. UNCHANGED <<mem, reports>> /\ notif'.status \in {"sent", "failed"}
      BY <1>13 DEF SaveOutcome, EscalatePromote, Proceed
    <2> QED
      BY <1>4, <1>6, <2>1
  <1>14. ASSUME NEW w \in Workers, WipeAttempts(w) \/ WriteAttempts(w) \/ Plan(w) \/ EscalateAppend(w)
         PROVE  ReceiptsTrue'
    <2>1. UNCHANGED <<notif, reports>> /\ (UNCHANGED mem \/ End(w))
      BY <1>14 DEF WipeAttempts, WriteAttempts, Plan, EscalateAppend, Proceed
    <2> QED
      BY <1>3, <1>5, <1>6, <2>1
  <1>15. ASSUME NEW w \in Workers, PlanRaises(w) \/ ReportStart(w) \/ EscalateExhausted(w)
                                    \/ ReceiptTell(w) \/ Crash(w)
         PROVE  ReceiptsTrue'
    <2>1. UNCHANGED <<notif, reports>> /\ End(w)
      BY <1>15 DEF PlanRaises, ReportStart, EscalateExhausted, ReceiptTell, Crash
    <2> QED
      BY <1>3, <1>5, <2>1
  <1>16. ASSUME NEW w \in Workers, ReceiptApply(w) PROVE ReceiptsTrue'
    <2>1. UNCHANGED reports /\ (UNCHANGED mem \/ End(w)) /\ notif'.status \in {notif.status, mem[w].asks}
      BY <1>16 DEF ReceiptApply, Proceed, TypeOK
    <2> QED
      BY <1>3, <1>5, <1>6, <2>1
  <1>17. CASE EscalateNotNeeded \/ UNCHANGED vars
    <2>1. UNCHANGED <<mem, notif, reports>>
      BY <1>17 DEF EscalateNotNeeded, vars
    <2> QED
      BY <1>3, <1>6, <2>1
  <1>18. ASSUME NEW m \in DOMAIN messages, Fate(m) PROVE ReceiptsTrue'
    <2>1. m \in DOMAIN messages' /\ UNCHANGED <<mem, notif>>
      BY <1>18 DEF Fate, TypeOK
    <2>2. \A rep \in reports' : rep \in reports \/ (rep.mid = m /\ rep.status = messages'[m])
      BY <1>18 DEF Fate
    <2>3. \A rep \in reports' : rep.status \in Arrived => Now(rep.mid, rep.status)
      BY <1>3, <2>1, <2>2
    <2> QED
      BY <1>2, <1>3, <2>1, <2>3
  <1> QED
    BY <1>7, <1>8, <1>9, <1>11, <1>12, <1>13, <1>14, <1>15, <1>16, <1>17, <1>18 DEF Next, Arrive, Work

-----------------------------------------------------------------------------
(* Overlapping is not forgotten; without it whoever acts is alone. *)
LEMMA Overlap ==
  ASSUME TypeOK, OneAtATime, [Next]_vars, ~overlapped'
  PROVE  /\ ~overlapped
         /\ \A w \in Workers : pc[w] # "idle" => \A v \in Workers \ {w} : pc[v] = "idle"
         /\ \A o, place : \A w \in Workers : Enter(w, o, place) => \A v \in Workers : pc[v] = "idle"
  <1>1. \A o, place : \A w \in Workers : Enter(w, o, place) => ~overlapped /\ \A v \in Workers : pc[v] = "idle"
    BY DEF Enter
  <1>2. ASSUME NEW w \in Workers, Arrive(w) PROVE ~overlapped
    BY <1>1, <1>2 DEF Arrive, StartCreate, ResendQueue, EscalateLoad, ReceiptLoad
  <1>3. ASSUME NEW w \in Workers, Work(w) PROVE ~overlapped
    BY <1>3 DEF Work, Send, SaveOutcome, WipeAttempts, WriteAttempts, Plan, PlanRaises, ReportStart,
         EscalateExhausted, EscalateSend, EscalateAppend, EscalatePromote, ReceiptApply, ReceiptTell,
         Proceed, End
  <1>4. (\E w \in Workers : Crash(w)) \/ EscalateNotNeeded \/ (\E m \in DOMAIN messages : Fate(m))
          \/ UNCHANGED vars => ~overlapped
    BY DEF Crash, End, EscalateNotNeeded, Fate, vars
  <1>5. ~overlapped
    BY <1>2, <1>3, <1>4 DEF Next
  <1> QED
    BY <1>1, <1>5 DEF OneAtATime

LEMMA AloneInit == Init => OneAtATime
  BY DEF Init, OneAtATime, Arrived

LEMMA AloneStep == TypeOK /\ PlacesOK /\ ReceiptsTrue /\ OneAtATime /\ [Next]_vars => OneAtATime'
  <1> SUFFICES ASSUME TypeOK, PlacesOK, ReceiptsTrue, OneAtATime, [Next]_vars, ~overlapped'
               PROVE  OneAtATime'
    BY DEF OneAtATime
  <1> USE DEF dbVars, envVars, hisVars
  <1> DEFINE Now(m, s) == m \in DOMAIN messages' /\ messages'[m] \in (IF s = "read" THEN {"read"} ELSE Arrived)
             Alone(w)  == \A v \in Workers \ {w} : pc'[v] = "idle"
             Fits(w)   == /\ pc'[w] \in {"send", "save"} => notif'.status = "queued"
                          /\ pc'[w] \in {"paths", "append", "promote"} => notif'.status \notin Arrived
                          /\ pc'[w] = "apply" =>
                               /\ mem'[w].status = notif'.status
                               /\ mem'[w].asks \in Arrived => Now(notif'.mid, mem'[w].asks)
             Owned     == notif'.status \in Arrived => Now(notif'.mid, notif'.status)
  <1>1. /\ ~overlapped
        /\ \A w \in Workers : pc[w] # "idle" => \A v \in Workers \ {w} : pc[v] = "idle"
        /\ \A o, place : \A w \in Workers : Enter(w, o, place) => \A v \in Workers : pc[v] = "idle"
    BY Overlap
  <1>2. \A m, s : Came(m, s) => Now(m, s)
    BY MessagesGrow DEF Came
  <1>3. ASSUME NEW w \in Workers, Alone(w), Fits(w), Owned PROVE OneAtATime'
    BY <1>3 DEF OneAtATime, Came
  <1>4. ASSUME UNCHANGED notif PROVE Owned
    BY <1>1, <1>2, <1>4 DEF OneAtATime
  <1>5. ASSUME NEW w \in Workers, NEW o, NEW place, Enter(w, o, place) PROVE Alone(w) /\ pc'[w] = place
    BY <1>1, <1>5 DEF Enter, TypeOK
  <1>6. ASSUME NEW w \in Workers, NEW place, pc[w] # "idle", pc' = [pc EXCEPT ![w] = place]
        PROVE  Alone(w) /\ pc'[w] = place
    BY <1>1, <1>6 DEF TypeOK
  <1>7. ASSUME NEW w \in Workers, pc[w] # "idle", End(w), Owned PROVE OneAtATime'
    BY <1>3, <1>6, <1>7 DEF End
  <1>8. ASSUME NEW w \in Workers, StartCreate(w) \/ ResendQueue(w) PROVE OneAtATime'
    <2>1. Alone(w) /\ pc'[w] = "send"
      BY <1>5, <1>8 DEF StartCreate, ResendQueue
    <2>2. notif'.status = "queued"
      BY <1>8 DEF StartCreate, ResendQueue, TypeOK
    <2> QED
      BY <1>3, <2>1, <2>2 DEF Arrived
  <1>9. ASSUME NEW w \in Workers, EscalateLoad(w) PROVE OneAtATime'
    <2>1. Alone(w) /\ pc'[w] = "paths"
      BY <1>5, <1>9 DEF EscalateLoad
    <2>2. UNCHANGED notif /\ notif.status \notin Arrived
      BY <1>9 DEF EscalateLoad, Arrived
    <2> QED
      BY <1>3, <1>4, <2>1, <2>2
  <1>10. ASSUME NEW w \in Workers, ReceiptLoad(w) PROVE OneAtATime'
    <2>1. PICK rep \in reports :
            /\ notif.mid = rep.mid
            /\ Enter(w, "receipt", "apply")
            /\ mem' = [mem EXCEPT ![w] = [@ EXCEPT !.status = notif.status, !.asks = rep.status]]
            /\ UNCHANGED notif
      BY <1>10 DEF ReceiptLoad
    <2>2. Alone(w) /\ pc'[w] = "apply"
      BY <1>5, <2>1
    <2>3. mem'[w].status = notif.status /\ mem'[w].asks = rep.status
      BY <2>1 DEF TypeOK, Memory
    <2>4. rep.status \in Arrived => Now(rep.mid, rep.status)
      BY <1>2 DEF ReceiptsTrue
    <2> QED
      BY <1>3, <1>4, <2>1, <2>2, <2>3, <2>4
  <1>11. ASSUME NEW w \in Workers, Send(w) PROVE OneAtATime'
    <2>1. Alone(w) /\ pc'[w] = "save"
      BY <1>6, <1>11 DEF Send
    <2>2. UNCHANGED notif /\ notif.status = "queued"
      BY <1>1, <1>11 DEF Send, OneAtATime
    <2> QED
      BY <1>3, <1>4, <2>1, <2>2
  <1>12. ASSUME NEW w \in Workers, EscalateSend(w) PROVE OneAtATime'
    <2>1. Alone(w) /\ pc'[w] = "append"
      BY <1>6, <1>12 DEF EscalateSend
    <2>2. UNCHANGED notif /\ notif.status \notin Arrived
      BY <1>1, <1>12 DEF EscalateSend, OneAtATime
    <2> QED
      BY <1>3, <1>4, <2>1, <2>2
  <1>13. ASSUME NEW w \in Workers, SaveOutcome(w) \/ EscalatePromote(w) PROVE OneAtATime'
    <2>1. Alone(w) /\ pc'[w] \in {"wipe", "plan"}
      BY <1>6, <1>13 DEF SaveOutcome, EscalatePromote, Proceed
    <2>2. notif'.status \in {"sent", "failed"}
      BY <1>13 DEF SaveOutcome, EscalatePromote
    <2> QED
      BY <1>3, <2>1, <2>2 DEF Arrived
  <1>14. ASSUME NEW w \in Workers, WipeAttempts(w) \/ WriteAttempts(w) \/ Plan(w) PROVE OneAtATime'
    <2>1. UNCHANGED notif /\ pc[w] # "idle"
      BY <1>14 DEF WipeAttempts, WriteAttempts, Plan
    <2>2. End(w) \/ Proceed(w, "write") \/ Proceed(w, "plan") \/ Proceed(w, "report")
      BY <1>14 DEF WipeAttempts, WriteAttempts, Plan
    <2>3. CASE ~End(w)
      <3>1. Alone(w) /\ pc'[w] \in {"write", "plan", "report"}
        BY <1>6, <2>1, <2>2, <2>3 DEF Proceed
      <3> QED
        BY <1>3, <1>4, <2>1, <3>1
    <2> QED
      BY <1>4, <1>7, <2>1, <2>3
  <1>15. ASSUME NEW w \in Workers, EscalateAppend(w) PROVE OneAtATime'
    <2>1. UNCHANGED notif /\ pc[w] = "append" /\ notif.status \notin Arrived
      BY <1>1, <1>15 DEF EscalateAppend, OneAtATime
    <2>2. CASE Proceed(w, "promote")
      <3>1. Alone(w) /\ pc'[w] = "promote"
        BY <1>6, <2>1, <2>2 DEF Proceed
      <3> QED
        BY <1>3, <1>4, <2>1, <3>1
    <2>3. CASE End(w)
      BY <1>4, <1>7, <2>1, <2>3
    <2> QED
      BY <1>15, <2>2, <2>3 DEF EscalateAppend
  <1>16. ASSUME NEW w \in Workers, PlanRaises(w) \/ ReportStart(w) \/ EscalateExhausted(w)
                                    \/ ReceiptTell(w) \/ Crash(w)
         PROVE  OneAtATime'
    <2>1. UNCHANGED notif /\ pc[w] # "idle" /\ End(w)
      BY <1>16 DEF PlanRaises, ReportStart, EscalateExhausted, ReceiptTell, Crash
    <2> QED
      BY <1>4, <1>7, <2>1
  <1>17. ASSUME NEW w \in Workers, ReceiptApply(w) PROVE OneAtATime'
    <2>1. pc[w] = "apply" /\ (mem[w].asks \in Arrived => Now(notif.mid, mem[w].asks))
      BY <1>1, <1>2, <1>17 DEF ReceiptApply, OneAtATime
    <2>2. CASE Applies(mem[w].status, mem[w].asks)
      <3>1. Alone(w) /\ pc'[w] = "tell"
        BY <1>6, <1>17, <2>1, <2>2 DEF ReceiptApply, Proceed
      <3>2. notif'.status = mem[w].asks /\ notif'.mid = notif.mid
        BY <1>17, <2>2 DEF ReceiptApply, TypeOK
      <3> QED
        BY <1>3, <2>1, <3>1, <3>2
    <2>3. CASE ~Applies(mem[w].status, mem[w].asks)
      BY <1>4, <1>7, <1>17, <2>1, <2>3 DEF ReceiptApply
    <2> QED
      BY <2>2, <2>3
  <1>18. ASSUME UNCHANGED <<notif, pc, mem>> PROVE OneAtATime'
    BY <1>1, <1>2, <1>4, <1>18 DEF OneAtATime, Came
  <1>19. CASE EscalateNotNeeded \/ UNCHANGED vars \/ \E m \in DOMAIN messages : Fate(m)
    BY <1>18, <1>19 DEF EscalateNotNeeded, vars, Fate
  <1> QED
    BY <1>8, <1>9, <1>10, <1>11, <1>12, <1>13, <1>14, <1>15, <1>16, <1>17, <1>19 DEF Next, Arrive, Work

-----------------------------------------------------------------------------
LEMMA NotCut == ASSUME TypeOK, [Next]_vars, ~cut' PROVE ~cut
  <1> USE DEF hisVars
  <1>1. ASSUME NEW w \in Workers, Arrive(w) PROVE ~cut
    BY <1>1 DEF Arrive, StartCreate, ResendQueue, EscalateLoad, ReceiptLoad
  <1>2. ASSUME NEW w \in Workers, Work(w) PROVE ~cut
    BY <1>2 DEF Work, Send, SaveOutcome, WipeAttempts, WriteAttempts, Plan, PlanRaises, ReportStart,
         EscalateExhausted, EscalateSend, EscalateAppend, EscalatePromote, ReceiptApply, ReceiptTell
  <1>3. ~(\E w \in Workers : Crash(w))
    BY DEF Crash
  <1>4. EscalateNotNeeded \/ (\E m \in DOMAIN messages : Fate(m)) \/ UNCHANGED vars => ~cut
    BY DEF EscalateNotNeeded, Fate, vars
  <1> QED
    BY <1>1, <1>2, <1>3, <1>4 DEF Next

LEMMA UsesInit == Init => UsesRecorded
  BY DEF Init, UsesRecorded

LEMMA UsesStep == TypeOK /\ PlacesOK /\ OneAtATime /\ UsesRecorded /\ [Next]_vars => UsesRecorded'
  <1> SUFFICES ASSUME TypeOK, PlacesOK, OneAtATime, UsesRecorded, [Next]_vars, ~cut', ~overlapped'
               PROVE  UsesRecorded'
    BY DEF UsesRecorded
  <1> USE DEF dbVars, envVars, hisVars
  <1> DEFINE Open     == {"save", "wipe", "write", "append"}
             Alone(w) == \A v \in Workers \ {w} : pc'[v] = "idle"
             Fits(w)  == \A c \in Channels :
                           /\ uses'[c] <= 1
                           /\ pc'[w] = "send" => uses'[c] = 0
                           /\ uses'[c] = 1 /\ pc'[w] \in {"save", "wipe", "write"} => c \in mem'[w].used
                           /\ uses'[c] = 1 /\ pc'[w] = "append" => c \in tried' \cup mem'[w].used
                           /\ uses'[c] = 1 => c \in tried' \/ pc'[w] \in Open
  <1>1. /\ ~overlapped /\ ~cut
        /\ \A w \in Workers : pc[w] # "idle" => \A v \in Workers \ {w} : pc[v] = "idle"
        /\ \A o, place : \A w \in Workers : Enter(w, o, place) => \A v \in Workers : pc[v] = "idle"
    BY Overlap, NotCut
  <1>2. \A c \in Channels : uses[c] \in {0, 1}
    BY <1>1 DEF UsesRecorded, TypeOK
  <1>3. ASSUME NEW w \in Workers, Alone(w), Fits(w) PROVE UsesRecorded'
    BY <1>3 DEF UsesRecorded
  <1>4. ASSUME NEW w \in Workers, NEW o, NEW place, Enter(w, o, place)
        PROVE  /\ Alone(w) /\ pc'[w] = place
               /\ \A c \in Channels : uses[c] = 1 => c \in tried
    BY <1>1, <1>4 DEF Enter, TypeOK, UsesRecorded
  <1>5. ASSUME NEW w \in Workers, NEW place, pc[w] # "idle", pc' = [pc EXCEPT ![w] = place]
        PROVE  /\ Alone(w) /\ pc'[w] = place
               /\ \A c \in Channels : uses[c] = 1 => c \in tried \/ pc[w] \in Open
    <2>1. Alone(w) /\ pc'[w] = place
      BY <1>1, <1>5 DEF TypeOK
    <2>2. \A v \in Workers : pc[v] \in Open => v = w
      BY <1>1, <1>5
    <2> QED
      BY <1>1, <2>1, <2>2 DEF UsesRecorded
  <1>6. ASSUME NEW w \in Workers, pc[w] # "idle", UNCHANGED uses,
               pc' = [pc EXCEPT ![w] = "idle"] \/ pc' = [pc EXCEPT ![w] = "plan"]
                 \/ pc' = [pc EXCEPT ![w] = "report"] \/ pc' = [pc EXCEPT ![w] = "tell"]
                 \/ pc' = [pc EXCEPT ![w] = "promote"],
               \A c \in Channels : uses[c] = 1 => c \in tried'
        PROVE  UsesRecorded'
    <2>1. Alone(w) /\ pc'[w] \in {"idle", "plan", "report", "tell", "promote"}
      BY <1>5, <1>6
    <2> QED
      BY <1>2, <1>3, <1>6, <2>1
  <1>7. ASSUME NEW w \in Workers, StartCreate(w) \/ ResendQueue(w) PROVE UsesRecorded'
    <2>1. Alone(w) /\ pc'[w] = "send"
      BY <1>4, <1>7 DEF StartCreate, ResendQueue
    <2>2. \A c \in Channels : uses'[c] = 0
      BY <1>7 DEF StartCreate, ResendQueue, PlacesOK
    <2> QED
      BY <1>3, <2>1, <2>2
  <1>8. ASSUME NEW w \in Workers, EscalateLoad(w) \/ ReceiptLoad(w) PROVE UsesRecorded'
    <2>1. UNCHANGED <<uses, tried>>
      BY <1>8 DEF EscalateLoad, ReceiptLoad
    <2>2. Enter(w, "escalate", "paths") \/ Enter(w, "receipt", "apply")
      BY <1>8 DEF EscalateLoad, ReceiptLoad
    <2>3. Alone(w) /\ pc'[w] \in {"paths", "apply"} /\ \A c \in Channels : uses[c] = 1 => c \in tried
      BY <1>4, <2>2
    <2> QED
      BY <1>2, <1>3, <2>1, <2>3
  <1>9. ASSUME NEW w \in Workers, Send(w) PROVE UsesRecorded'
    <2>1. Alone(w) /\ pc'[w] = "save"
      BY <1>5, <1>9 DEF Send
    <2>2. \A c \in Channels : uses[c] = 0
      BY <1>1, <1>9 DEF Send, UsesRecorded
    <2>3. Channels \in SUBSET Channels /\ SendOver(w, Channels)
      BY <1>9 DEF Send
    <2>4. PICK used \in SUBSET Channels, m \in Memory :
            /\ uses' = [c \in Channels |-> IF c \in used /\ uses[c] < 2 THEN uses[c] + 1 ELSE uses[c]]
            /\ mem' = [mem EXCEPT ![w] = m] /\ m.used = used
      BY <2>3, SendOverEffect
    <2>5. mem'[w].used = used /\ \A c \in Channels : uses'[c] = (IF c \in used THEN 1 ELSE 0)
      BY <2>2, <2>4 DEF TypeOK
    <2> QED
      BY <1>3, <2>1, <2>5
  <1>10. ASSUME NEW w \in Workers, EscalateSend(w) PROVE UsesRecorded'
    <2>1. /\ Alone(w) /\ pc'[w] = "append" /\ UNCHANGED tried
          /\ \A c \in Channels : uses[c] = 1 => c \in tried
      BY <1>5, <1>10 DEF EscalateSend
    <2>2. PICK used \in SUBSET (Channels \ tried), m \in Memory :
            /\ uses' = [c \in Channels |-> IF c \in used /\ uses[c] < 2 THEN uses[c] + 1 ELSE uses[c]]
            /\ mem' = [mem EXCEPT ![w] = m] /\ m.used = used
      BY <1>10, SendOverEffect DEF EscalateSend, UntriedPaths
    <2>3. mem'[w].used = used
      BY <2>2 DEF TypeOK
    <2>4. \A c \in Channels : uses'[c] = (IF c \in used THEN 1 ELSE uses[c])
      BY <1>2, <2>1, <2>2
    <2> QED
      BY <1>2, <1>3, <2>1, <2>3, <2>4
  <1>11. ASSUME NEW w \in Workers, SaveOutcome(w) \/ WipeAttempts(w) PROVE UsesRecorded'
    <2>1. Alone(w) /\ pc'[w] \in {"wipe", "write"} /\ UNCHANGED <<uses, mem>>
      BY <1>5, <1>11 DEF SaveOutcome, WipeAttempts, Proceed
    <2>2. \A c \in Channels : uses[c] = 1 => c \in mem[w].used
      BY <1>1, <1>11 DEF SaveOutcome, WipeAttempts, UsesRecorded
    <2> QED
      BY <1>2, <1>3, <2>1, <2>2
  <1>12. ASSUME NEW w \in Workers, WriteAttempts(w) \/ EscalateAppend(w) PROVE UsesRecorded'
    <2>1. /\ pc[w] # "idle" /\ UNCHANGED uses
          /\ tried' = tried \cup mem[w].used
      BY <1>12 DEF WriteAttempts, EscalateAppend
    <2>2. \A c \in Channels : uses[c] = 1 => c \in tried \cup mem[w].used
      BY <1>1, <1>12 DEF WriteAttempts, EscalateAppend, UsesRecorded
    <2>3. pc' = [pc EXCEPT ![w] = "idle"] \/ pc' = [pc EXCEPT ![w] = "plan"] \/ pc' = [pc EXCEPT ![w] = "promote"]
      BY <1>12 DEF WriteAttempts, EscalateAppend, Proceed, End
    <2> QED
      BY <1>6, <2>1, <2>2, <2>3
  <1>13. ASSUME NEW w \in Workers, pc[w] \notin Open, pc[w] # "idle", UNCHANGED <<uses, tried>>,
                pc' = [pc EXCEPT ![w] = "idle"] \/ pc' = [pc EXCEPT ![w] = "plan"]
                 \/ pc' = [pc EXCEPT ![w] = "report"] \/ pc' = [pc EXCEPT ![w] = "tell"]
         PROVE  UsesRecorded'
    <2>1. \A c \in Channels : uses[c] = 1 => c \in tried'
      BY <1>5, <1>13
    <2> QED
      BY <1>6, <1>13, <2>1
  <1>14. ASSUME NEW w \in Workers, PlanRaises(w) \/ ReportStart(w) \/ EscalateExhausted(w) \/ ReceiptTell(w)
         PROVE  UsesRecorded'
    BY <1>13, <1>14 DEF PlanRaises, ReportStart, EscalateExhausted, ReceiptTell, End
  <1>15. ASSUME NEW w \in Workers, Plan(w) PROVE UsesRecorded'
    BY <1>13, <1>15 DEF Plan, Proceed, End
  <1>16. ASSUME NEW w \in Workers, EscalatePromote(w) PROVE UsesRecorded'
    BY <1>13, <1>16 DEF EscalatePromote, Proceed
  <1>17. ASSUME NEW w \in Workers, ReceiptApply(w) PROVE UsesRecorded'
    BY <1>13, <1>17 DEF ReceiptApply, Proceed, End
  <1>18. ~\E w \in Workers : Crash(w)
    BY DEF Crash
  <1>19. CASE EscalateNotNeeded \/ UNCHANGED vars \/ \E m \in DOMAIN messages : Fate(m)
    <2>1. UNCHANGED <<uses, tried, pc, mem>>
      BY <1>19 DEF EscalateNotNeeded, vars, Fate
    <2> QED
      BY <1>1, <2>1 DEF UsesRecorded
  <1> QED
    BY <1>7, <1>8, <1>9, <1>10, <1>11, <1>12, <1>14, <1>15, <1>16, <1>17, <1>18, <1>19
       DEF Next, Arrive, Work

(***************************************************************************)
(* What the handlers of the message keep true together, statement by       *)
(* statement (_send_and_record, escalate_delivery, infobip_reports).       *)
(***************************************************************************)
THEOREM Invariant == Spec => []IInv
  <1>1. Init => IInv
    BY TypeInit, PlacesInit, ReceiptsInit, AloneInit, UsesInit DEF IInv
  <1>2. IInv /\ [Next]_vars => IInv'
    BY TypeStep, PlacesStep, ReceiptsStep, AloneStep, UsesStep DEF IInv
  <1> QED
    BY <1>1, <1>2, PTL DEF Spec

(***************************************************************************)
(* However handlers overlap, no arrival is invented (_apply,               *)
(* escalate_delivery, _send_and_record).                                   *)
(***************************************************************************)
THEOREM NoArrivalInvented == Spec => []ArrivalIsReal
  <1>1. IInv => ArrivalIsReal
    BY DEF IInv, ReceiptsTrue, ArrivalIsReal, Came, Arrived
  <1> QED
    BY <1>1, Invariant, PTL

(***************************************************************************)
(* One handler after another, a receipt never credits one message with the *)
(* fate of another (infobip_reports, resend_on_the_way,                    *)
(* escalate_delivery).                                                     *)
(***************************************************************************)
THEOREM CurrentMessage == Spec => []StatusIsOfCurrentMessage
  <1>1. IInv => StatusIsOfCurrentMessage
    BY DEF IInv, OneAtATime, StatusIsOfCurrentMessage, Came, Arrived
  <1> QED
    BY <1>1, Invariant, PTL

(***************************************************************************)
(* One handler after another and no worker lost, no channel carries a      *)
(* logical message twice (escalate_delivery, _append_attempts).            *)
(***************************************************************************)
THEOREM NoChannelTwice == Spec => []OncePerChannel
  <1>1. IInv => OncePerChannel
    BY DEF IInv, UsesRecorded, OncePerChannel
  <1> QED
    BY <1>1, Invariant, PTL

(***************************************************************************)
(* One handler after another, what has arrived stays so until a resend     *)
(* (_apply, escalate_delivery).                                            *)
(***************************************************************************)
THEOREM ArrivalStays == Spec => NeverLowered
  <1> USE DEF dbVars, envVars, hisVars
  <1>1. ASSUME IInv, [Next]_vars, ~overlapped', notif.status \in Arrived, Rank(notif'.status) < Rank(notif.status)
        PROVE  \E w \in Workers : op'[w] = "resend"
    <2>1. TypeOK /\ OneAtATime /\ ~overlapped
      BY <1>1, Overlap DEF IInv
    <2>2. notif.status # "absent" /\ notif'.status # notif.status /\ notif' # notif
      BY <1>1 DEF Arrived, Rank
    <2>3. ASSUME NEW w \in Workers, Arrive(w) PROVE op'[w] = "resend"
      <3>1. ResendQueue(w)
        BY <2>2, <2>3 DEF Arrive, StartCreate, EscalateLoad, ReceiptLoad
      <3> QED
        BY <2>1, <3>1 DEF ResendQueue, Enter, TypeOK
    <2>4. ASSUME NEW w \in Workers, Work(w) PROVE FALSE
      <3>1. SaveOutcome(w) \/ EscalatePromote(w) \/ ReceiptApply(w)
        BY <2>2, <2>4 DEF Work, Send, WipeAttempts, WriteAttempts, Plan, PlanRaises, ReportStart,
             EscalateExhausted, EscalateSend, EscalateAppend, ReceiptTell
      <3>2. ~SaveOutcome(w) /\ ~EscalatePromote(w)
        BY <1>1, <2>1 DEF SaveOutcome, EscalatePromote, OneAtATime, Arrived
      <3>3. CASE ReceiptApply(w)
        <4>1. Applies(notif.status, mem[w].asks) /\ notif'.status = mem[w].asks
          BY <2>1, <2>2, <3>3 DEF ReceiptApply, OneAtATime, TypeOK
        <4> QED
          BY <1>1, <4>1 DEF Applies, Rank, Arrived
      <3> QED
        BY <3>1, <3>2, <3>3
    <2>5. ~(\E w \in Workers : Crash(w)) /\ ~EscalateNotNeeded /\ ~(\E m \in DOMAIN messages : Fate(m))
      BY <2>2 DEF Crash, EscalateNotNeeded, Fate
    <2> QED
      BY <1>1, <2>2, <2>3, <2>4, <2>5 DEF Next, vars
  <1>2. IInv /\ [Next]_vars =>
          [~overlapped' /\ notif.status \in Arrived /\ Rank(notif'.status) < Rank(notif.status)
             => \E w \in Workers : op'[w] = "resend"]_vars
    BY <1>1
  <1> QED
    BY <1>2, Invariant, PTL DEF Spec, NeverLowered

-----------------------------------------------------------------------------
LEMMA ReportedStep == TypeOK /\ PlacesOK /\ ArrivalIsReported /\ [Next]_vars => ArrivalIsReported'
  <1> SUFFICES ASSUME TypeOK, PlacesOK, ArrivalIsReported, [Next]_vars, ~cut', notif'.status \in Arrived
               PROVE  notif'.status \in told' \/ \E v \in Workers : pc'[v] = "tell" /\ mem'[v].asks = notif'.status
    BY DEF ArrivalIsReported
  <1> USE DEF dbVars, envVars, hisVars
  <1> DEFINE Covered == notif'.status \in told' \/ \E v \in Workers : pc'[v] = "tell" /\ mem'[v].asks = notif'.status
  <1>1. ~cut
    BY NotCut
  <1>2. notif.status \in Arrived =>
          notif.status \in told \/ \E v \in Workers : pc[v] = "tell" /\ mem[v].asks = notif.status
    BY <1>1 DEF ArrivalIsReported
  <1>3. ASSUME UNCHANGED <<notif, told>>,
               \A v \in Workers : pc[v] = "tell" => pc'[v] = "tell" /\ mem'[v].asks = mem[v].asks
        PROVE  Covered
    BY <1>2, <1>3
  <1>4. ASSUME NEW w \in Workers, Arrive(w) PROVE Covered
    <2>1. ~StartCreate(w) /\ ~ResendQueue(w)
      BY DEF StartCreate, ResendQueue, TypeOK, Arrived
    <2>2. UNCHANGED <<notif, told>> /\ pc[w] = "idle" /\ \A v \in Workers \ {w} : pc'[v] = pc[v] /\ mem'[v] = mem[v]
      BY <1>4, <2>1 DEF Arrive, EscalateLoad, ReceiptLoad, Enter, TypeOK
    <2> QED
      BY <1>3, <2>2
  <1>5. ASSUME NEW w \in Workers, Work(w), ~ReceiptApply(w), ~ReceiptTell(w) PROVE Covered
    <2>1. ~SaveOutcome(w) /\ ~EscalatePromote(w)
      BY DEF SaveOutcome, EscalatePromote, Arrived
    <2>2. ASSUME NEW paths \in SUBSET Channels, SendOver(w, paths)
          PROVE  \A v \in Workers \ {w} : mem'[v] = mem[v]
      BY <2>2, SendOverEffect DEF TypeOK
    <2>3. ASSUME Send(w)
          PROVE UNCHANGED <<notif, told>> /\ pc[w] # "tell" /\ \A v \in Workers \ {w} : pc'[v] = pc[v] /\ mem'[v] = mem[v]
      <3>1. Channels \in SUBSET Channels /\ SendOver(w, Channels)
        BY <2>3 DEF Send
      <3> QED
        BY <2>2, <2>3, <3>1 DEF Send, TypeOK
    <2>4. ASSUME EscalateSend(w)
          PROVE UNCHANGED <<notif, told>> /\ pc[w] # "tell" /\ \A v \in Workers \ {w} : pc'[v] = pc[v] /\ mem'[v] = mem[v]
      BY <2>2, <2>4 DEF EscalateSend, UntriedPaths, TypeOK
    <2>5. ASSUME ~Send(w), ~EscalateSend(w)
          PROVE UNCHANGED <<notif, told>> /\ pc[w] # "tell" /\ \A v \in Workers \ {w} : pc'[v] = pc[v] /\ mem'[v] = mem[v]
      BY <1>5, <2>1, <2>5 DEF Work, WipeAttempts, WriteAttempts, Plan, PlanRaises, ReportStart,
           EscalateExhausted, EscalateAppend, Proceed, End, TypeOK
    <2> QED
      BY <1>3, <2>3, <2>4, <2>5
  <1>6. ASSUME NEW w \in Workers, ReceiptApply(w) PROVE Covered
    <2>1. CASE Applies(mem[w].status, mem[w].asks)
      <3>1. notif'.status = mem[w].asks /\ pc'[w] = "tell" /\ UNCHANGED mem
        BY <1>6, <2>1 DEF ReceiptApply, Proceed, TypeOK
      <3> QED
        BY <3>1
    <2>2. CASE ~Applies(mem[w].status, mem[w].asks)
      BY <1>3, <1>6, <2>2 DEF ReceiptApply, End, TypeOK
    <2> QED
      BY <2>1, <2>2
  <1>7. ASSUME NEW w \in Workers, ReceiptTell(w) PROVE Covered
    <2>1. /\ UNCHANGED notif /\ told' = told \cup ({mem[w].asks} \cap Arrived)
          /\ \A v \in Workers \ {w} : pc'[v] = pc[v] /\ mem'[v] = mem[v]
      BY <1>7 DEF ReceiptTell, End, TypeOK
    <2> QED
      BY <1>2, <2>1
  <1>8. ~\E w \in Workers : Crash(w)
    BY DEF Crash
  <1>9. CASE EscalateNotNeeded \/ UNCHANGED vars \/ \E m \in DOMAIN messages : Fate(m)
    BY <1>3, <1>9 DEF EscalateNotNeeded, vars, Fate
  <1> QED
    BY <1>4, <1>5, <1>6, <1>7, <1>8, <1>9 DEF Next

(***************************************************************************)
(* Every arrival the delivery shows is told to the merchant, or is about   *)
(* to be, however handlers overlap, unless a worker died                   *)
(* (infobip_reports, _emit_notification_event).                            *)
(***************************************************************************)
THEOREM ArrivalsTold == Spec => []ArrivalIsReported
  <1>1. Init => ArrivalIsReported
    BY DEF Init, ArrivalIsReported, Arrived
  <1>2. IInv /\ ArrivalIsReported /\ [Next]_vars => ArrivalIsReported'
    BY ReportedStep DEF IInv
  <1> QED
    BY <1>1, <1>2, Invariant, PTL DEF Spec

-----------------------------------------------------------------------------
LEMMA StartStep ==
  TypeOK /\ PlacesOK /\ (ChainReadable => StartIsReported) /\ [Next]_vars => (ChainReadable => StartIsReported)'
  <1> SUFFICES ASSUME TypeOK, PlacesOK, ChainReadable => StartIsReported, [Next]_vars,
                      ChainReadable', notif'.status # "absent", ~cut'
               PROVE  reported' \/ \E v \in Workers : op'[v] = "start"
    BY DEF StartIsReported, Starting
  <1> USE DEF dbVars, envVars, hisVars
  <1>1. ~cut
    BY NotCut
  <1>2. UNCHANGED declared
    BY DEF Next, vars, Arrive, StartCreate, ResendQueue, EscalateLoad, ReceiptLoad, Work, Send, SaveOutcome,
         WipeAttempts, WriteAttempts, Plan, PlanRaises, ReportStart, EscalateExhausted, EscalateSend,
         EscalateAppend, EscalatePromote, ReceiptApply, ReceiptTell, Crash, EscalateNotNeeded, Fate
  <1>3. ASSUME notif.status # "absent", UNCHANGED reported, \A v \in Workers : op[v] = "start" => op'[v] = "start"
        PROVE  reported' \/ \E v \in Workers : op'[v] = "start"
    BY <1>1, <1>2, <1>3 DEF ChainReadable, StartIsReported, Starting
  <1>4. ASSUME NEW w \in Workers, notif.status # "absent", UNCHANGED reported, op[w] # "start", End(w)
        PROVE  reported' \/ \E v \in Workers : op'[v] = "start"
    BY <1>3, <1>4 DEF End, TypeOK
  <1>5. ASSUME NEW w \in Workers, pc[w] # "idle" PROVE notif.status # "absent"
    BY <1>5 DEF PlacesOK
  <1>6. ASSUME NEW w \in Workers, StartCreate(w)
        PROVE  reported' \/ \E v \in Workers : op'[v] = "start"
    BY <1>6 DEF StartCreate, Enter, TypeOK
  <1>7. ASSUME NEW w \in Workers, ResendQueue(w) \/ EscalateLoad(w) \/ ReceiptLoad(w)
        PROVE  reported' \/ \E v \in Workers : op'[v] = "start"
    <2>1. op[w] = "none" /\ UNCHANGED reported /\ \A v \in Workers \ {w} : op'[v] = op[v]
      BY <1>7 DEF ResendQueue, EscalateLoad, ReceiptLoad, Enter, PlacesOK, TypeOK
    <2>2. notif.status # "absent"
      BY <1>7 DEF ResendQueue, EscalateLoad, ReceiptLoad
    <2> QED
      BY <1>3, <2>1, <2>2
  <1>8. ASSUME NEW w \in Workers, Send(w) \/ SaveOutcome(w) \/ WipeAttempts(w) \/ EscalateSend(w) \/ EscalatePromote(w)
        PROVE  reported' \/ \E v \in Workers : op'[v] = "start"
    <2>1. pc[w] # "idle" /\ UNCHANGED <<op, reported>>
      BY <1>8 DEF Send, SaveOutcome, WipeAttempts, EscalateSend, EscalatePromote, Proceed
    <2> QED
      BY <1>3, <1>5, <2>1
  <1>9. ASSUME NEW w \in Workers, WriteAttempts(w) \/ Plan(w)
        PROVE  reported' \/ \E v \in Workers : op'[v] = "start"
    <2>1. pc[w] # "idle" /\ UNCHANGED reported /\ (UNCHANGED op \/ (op[w] # "start" /\ End(w)))
      BY <1>9 DEF WriteAttempts, Plan, Proceed
    <2> QED
      BY <1>3, <1>4, <1>5, <2>1
  <1>10. ASSUME NEW w \in Workers, EscalateExhausted(w) \/ EscalateAppend(w) \/ ReceiptApply(w) \/ ReceiptTell(w)
         PROVE  reported' \/ \E v \in Workers : op'[v] = "start"
    <2>1. pc[w] # "idle" /\ UNCHANGED reported /\ op[w] # "start" /\ (UNCHANGED op \/ End(w))
      BY <1>10 DEF EscalateExhausted, EscalateAppend, ReceiptApply, ReceiptTell, Proceed, PlacesOK
    <2> QED
      BY <1>3, <1>4, <1>5, <2>1
  <1>11. ASSUME NEW w \in Workers, ReportStart(w) \/ PlanRaises(w) \/ Crash(w) PROVE reported'
    BY <1>2, <1>11 DEF ReportStart, PlanRaises, Crash, ChainReadable
  <1>12. CASE EscalateNotNeeded \/ UNCHANGED vars \/ \E m \in DOMAIN messages : Fate(m)
    <2>1. UNCHANGED <<notif, reported, op>>
      BY <1>12 DEF EscalateNotNeeded, vars, Fate
    <2> QED
      BY <1>3, <2>1
  <1> QED
    BY <1>6, <1>7, <1>8, <1>9, <1>10, <1>11, <1>12 DEF Next, Arrive, Work

(***************************************************************************)
(* Where every class of the chain declares its channel, a start that is    *)
(* over has reported to the merchant unless a worker died, whatever became *)
(* of its escalation (start_delivery, _schedule_escalation_if_pending).    *)
(***************************************************************************)
THEOREM StartsReported == Spec => [](ChainReadable => StartIsReported)
  <1>1. Init => (ChainReadable => StartIsReported)
    BY DEF Init, StartIsReported
  <1>2. IInv /\ (ChainReadable => StartIsReported) /\ [Next]_vars => (ChainReadable => StartIsReported)'
    BY StartStep DEF IInv
  <1> QED
    BY <1>1, <1>2, Invariant, PTL DEF Spec

-----------------------------------------------------------------------------
(***************************************************************************)
(* The safety half of EscalatesToTheEnd: where every class of the chain    *)
(* declares its channel and nobody has sent the message again, there is    *)
(* always a callback planned or a handler under way that will plan one,    *)
(* until every channel was tried or the message arrived, or the queue      *)
(* refused or a worker died (_schedule_escalation_if_pending).             *)
(***************************************************************************)
Pursuing(w) == op[w] = "escalate" \/ (op[w] = "start" /\ pc[w] # "report")

ChainPursued ==
  ChainReadable /\ resends = 0 /\ notif.status # "absent" =>
    \/ tried = Channels
    \/ \E m \in Mids : Came(m, "delivered")
    \/ refused \/ cut
    \/ tasks > 0
    \/ \E w \in Workers : Pursuing(w)

(* The start is over with its attempts before anybody escalates ... *)
Sending(w) == pc[w] \in {"send", "save", "wipe", "write"}

StartBeforeEscalation ==
  resends = 0 =>
    /\ notif.status = "absent" => tasks = 0
    /\ \A w \in Workers :
         /\ op[w] # "resend"
         /\ Sending(w) =>
              tasks = 0 /\ \A v \in Workers : op[v] # "escalate" /\ (v # w => op[v] # "start")

(* ... and an escalation that nobody took has used the channels left. *)
NothingLeft ==
  resends = 0 => \A w \in Workers :
    pc[w] = "append" /\ ~mem[w].ok => tried \cup mem[w].used = Channels

PursuitInv == StartBeforeEscalation /\ NothingLeft /\ ChainPursued

LEMMA NoResend ==
  ASSUME TypeOK, [Next]_vars, resends' = 0
  PROVE  resends = 0 /\ \A w \in Workers : ~ResendQueue(w)
  <1> USE DEF dbVars, envVars, hisVars
  <1>1. resends \in Nat
    BY BoundsAssumption DEF TypeOK
  <1>2. \A w \in Workers : ~ResendQueue(w)
    BY <1>1 DEF ResendQueue
  <1>3. UNCHANGED resends
    BY <1>2 DEF Next, vars, Arrive, StartCreate, EscalateLoad, ReceiptLoad, Work, Send, SaveOutcome,
         WipeAttempts, WriteAttempts, Plan, PlanRaises, ReportStart, EscalateExhausted, EscalateSend,
         EscalateAppend, EscalatePromote, ReceiptApply, ReceiptTell, Crash, EscalateNotNeeded, Fate
  <1> QED
    BY <1>2, <1>3

LEMMA OthersMemory ==
  ASSUME TypeOK, NEW w \in Workers, NEW paths \in SUBSET Channels, SendOver(w, paths)
  PROVE  \A v \in Workers \ {w} : mem'[v] = mem[v]
  BY SendOverEffect DEF TypeOK

LEMMA NobodyTook ==
  ASSUME TypeOK, NEW w \in Workers, NEW paths \in SUBSET Channels, SendOver(w, paths), ~mem'[w].ok
  PROVE  mem'[w].used = paths
  <1>1. PICK n \in {i \in DOMAIN Chain : Chain[i] \in paths}, answer \in Answers(Len(messages) + 1) :
          LET used == {Chain[i] : i \in 1..n} \cap paths
          IN /\ answer.ok \/ used = paths
             /\ mem' = [mem EXCEPT ![w] = [@ EXCEPT !.ok = answer.ok, !.mid = answer.mid, !.used = used]]
    BY DEF SendOver
  <1> DEFINE used == {Chain[i] : i \in 1..n} \cap paths
  <1>2. answer.ok \/ used = paths
    BY <1>1
  <1>3. mem'[w] = [mem[w] EXCEPT !.ok = answer.ok, !.mid = answer.mid, !.used = used]
    BY <1>1 DEF TypeOK
  <1>4. mem[w] \in Memory
    BY DEF TypeOK
  <1> HIDE DEF used
  <1>5. mem'[w].ok = answer.ok /\ mem'[w].used = used
    BY <1>3, <1>4 DEF Memory
  <1> QED
    BY <1>2, <1>5

LEMMA StartBeforeStep ==
  TypeOK /\ PlacesOK /\ StartBeforeEscalation /\ [Next]_vars => StartBeforeEscalation'
  <1> SUFFICES ASSUME TypeOK, PlacesOK, StartBeforeEscalation, [Next]_vars, resends' = 0
               PROVE  StartBeforeEscalation'
    BY DEF StartBeforeEscalation
  <1> USE DEF dbVars, envVars, hisVars
  <1>1. /\ notif.status = "absent" => tasks = 0
        /\ \A w \in Workers : op[w] # "resend"
        /\ \A w \in Workers : Sending(w) =>
             tasks = 0 /\ \A v \in Workers : op[v] # "escalate" /\ (v # w => op[v] # "start")
    BY NoResend DEF StartBeforeEscalation
  <1>2. ASSUME notif'.status = "absent" => notif.status = "absent", tasks' = tasks,
               \A v \in Workers : Sending(v)' => Sending(v),
               \A v \in Workers : op'[v] \in {op[v], "none", "receipt"}
        PROVE  StartBeforeEscalation'
    BY <1>1, <1>2 DEF StartBeforeEscalation
  <1>3. ASSUME NEW w \in Workers, StartCreate(w) PROVE StartBeforeEscalation'
    <2>1. tasks' = 0 /\ \A v \in Workers : op[v] = "none" /\ ~Sending(v)
      BY <1>1, <1>3 DEF StartCreate, PlacesOK, Sending
    <2>2. op' = [op EXCEPT ![w] = "start"] /\ pc' = [pc EXCEPT ![w] = "send"]
      BY <1>3 DEF StartCreate, Enter
    <2> QED
      BY <2>1, <2>2 DEF StartBeforeEscalation, Sending, TypeOK
  <1>4. ASSUME NEW w \in Workers, EscalateLoad(w) PROVE StartBeforeEscalation'
    <2>1. \A v \in Workers : ~Sending(v)
      BY <1>1, <1>4 DEF EscalateLoad
    <2>2. /\ op' = [op EXCEPT ![w] = "escalate"] /\ pc' = [pc EXCEPT ![w] = "paths"]
          /\ notif' = notif /\ notif.status # "absent"
      BY <1>4 DEF EscalateLoad, Enter
    <2> QED
      BY <1>1, <2>1, <2>2 DEF StartBeforeEscalation, Sending, TypeOK
  <1>5. ASSUME NEW w \in Workers, ReceiptLoad(w) PROVE StartBeforeEscalation'
    <2>1. op' = [op EXCEPT ![w] = "receipt"] /\ pc' = [pc EXCEPT ![w] = "apply"] /\ UNCHANGED <<notif, tasks>>
      BY <1>5 DEF ReceiptLoad, Enter
    <2> QED
      BY <1>2, <2>1 DEF Sending, TypeOK
  <1>6. ASSUME NEW w \in Workers, Plan(w) PROVE StartBeforeEscalation'
    <2>1. pc[w] = "plan" /\ op[w] \in {"start", "escalate"} /\ notif.status # "absent"
      BY <1>6 DEF Plan, PlacesOK
    <2>2. \A v \in Workers : ~Sending(v)
      BY <1>1, <2>1 DEF Sending
    <2>3. /\ notif' = notif /\ \A v \in Workers : op'[v] \in {op[v], "none"}
          /\ pc'[w] \in {"report", "idle"} /\ \A v \in Workers \ {w} : pc'[v] = pc[v]
      BY <1>6 DEF Plan, Proceed, End, TypeOK
    <2> QED
      BY <1>1, <2>1, <2>2, <2>3 DEF StartBeforeEscalation, Sending
  <1>7. ASSUME NEW w \in Workers, Work(w), ~Plan(w) PROVE StartBeforeEscalation'
    <2>1. notif'.status # "absent" /\ tasks' = tasks
      <3>1. pc[w] # "idle" /\ (UNCHANGED notif \/ SaveOutcome(w) \/ EscalatePromote(w) \/ ReceiptApply(w)) /\ tasks' = tasks
        BY <1>7 DEF Work, Send, SaveOutcome, WipeAttempts, WriteAttempts, PlanRaises, ReportStart,
             EscalateExhausted, EscalateSend, EscalateAppend, EscalatePromote, ReceiptApply, ReceiptTell
      <3>2. notif.status # "absent"
        BY <3>1 DEF PlacesOK
      <3> QED
        BY <3>1, <3>2 DEF SaveOutcome, EscalatePromote, ReceiptApply, PlacesOK, ReportStatuses, Arrived, TypeOK
    <2>2. \A v \in Workers : (Sending(v)' => Sending(v)) /\ op'[v] \in {op[v], "none"}
      BY <1>7 DEF Work, Send, SaveOutcome, WipeAttempts, WriteAttempts, PlanRaises, ReportStart,
             EscalateExhausted, EscalateSend, EscalateAppend, EscalatePromote, ReceiptApply, ReceiptTell,
             Proceed, End, Sending, TypeOK
    <2> QED
      BY <1>2, <2>1, <2>2
  <1>8. ASSUME NEW w \in Workers, Crash(w) PROVE StartBeforeEscalation'
    BY <1>2, <1>8 DEF Crash, End, Sending, TypeOK
  <1>9. ASSUME EscalateNotNeeded PROVE StartBeforeEscalation'
    <2>1. tasks > 0 /\ notif' = notif /\ notif.status # "absent" /\ UNCHANGED <<pc, op>>
      BY <1>9 DEF EscalateNotNeeded
    <2> QED
      BY <1>1, <2>1 DEF StartBeforeEscalation, Sending
  <1>10. CASE UNCHANGED vars \/ \E m \in DOMAIN messages : Fate(m)
    BY <1>2, <1>10 DEF vars, Fate, Sending
  <1> QED
    BY <1>3, <1>4, <1>5, <1>6, <1>7, <1>8, <1>9, <1>10, NoResend DEF Next, Arrive

LEMMA NothingLeftStep ==
  TypeOK /\ PlacesOK /\ StartBeforeEscalation /\ NothingLeft /\ [Next]_vars => NothingLeft'
  <1> SUFFICES ASSUME TypeOK, PlacesOK, StartBeforeEscalation, NothingLeft, [Next]_vars, resends' = 0
               PROVE  NothingLeft'
    BY DEF NothingLeft
  <1> USE DEF dbVars, envVars, hisVars
  <1>1. resends = 0 /\ \A w \in Workers : ~ResendQueue(w)
    BY NoResend
  <1>2. tried \subseteq Channels /\ \A v \in Workers : mem[v].used \subseteq Channels
    BY DEF TypeOK, Memory
  <1>3. ASSUME tried \subseteq tried', tried' \subseteq Channels,
               \A v \in Workers : pc'[v] = "append" => pc[v] = "append" /\ mem'[v] = mem[v]
        PROVE  NothingLeft'
    BY <1>1, <1>2, <1>3 DEF NothingLeft
  <1>4. ASSUME NEW w \in Workers, Arrive(w) PROVE NothingLeft'
    <2>1. tried' = tried /\ pc'[w] # "append" /\ \A v \in Workers \ {w} : pc'[v] = pc[v] /\ mem'[v] = mem[v]
      BY <1>1, <1>4 DEF Arrive, StartCreate, EscalateLoad, ReceiptLoad, Enter, TypeOK
    <2> QED
      BY <1>2, <1>3, <2>1
  <1>5. ASSUME NEW w \in Workers, Send(w) PROVE NothingLeft'
    <2>1. Channels \in SUBSET Channels /\ SendOver(w, Channels) /\ tried' = tried /\ pc' = [pc EXCEPT ![w] = "save"]
      BY <1>5 DEF Send
    <2> QED
      BY <1>2, <1>3, <2>1, OthersMemory DEF TypeOK
  <1>6. ASSUME NEW w \in Workers, EscalateSend(w) PROVE NothingLeft'
    <2>1. /\ UntriedPaths(tried) \in SUBSET Channels /\ SendOver(w, UntriedPaths(tried))
          /\ tried' = tried /\ pc' = [pc EXCEPT ![w] = "append"]
      BY <1>6 DEF EscalateSend, UntriedPaths
    <2>2. ~mem'[w].ok => tried' \cup mem'[w].used = Channels
      BY <1>2, <2>1, NobodyTook DEF UntriedPaths
    <2>3. \A v \in Workers \ {w} : pc'[v] = pc[v] /\ mem'[v] = mem[v]
      BY <2>1, OthersMemory DEF TypeOK
    <2> QED
      BY <1>1, <2>1, <2>2, <2>3 DEF NothingLeft
  <1>7. ASSUME NEW w \in Workers, WipeAttempts(w) PROVE NothingLeft'
    <2>1. \A v \in Workers : pc[v] # "append"
      BY <1>1, <1>7 DEF StartBeforeEscalation, Sending, WipeAttempts, PlacesOK
    <2>2. \A v \in Workers : pc'[v] # "append"
      BY <1>7, <2>1 DEF WipeAttempts, Proceed, TypeOK
    <2> QED
      BY <2>2 DEF NothingLeft
  <1>8. ASSUME NEW w \in Workers, WriteAttempts(w) \/ EscalateAppend(w) PROVE NothingLeft'
    <2>1. tried' = tried \cup mem[w].used /\ pc'[w] # "append"
          /\ \A v \in Workers \ {w} : pc'[v] = pc[v] /\ mem'[v] = mem[v]
      BY <1>8 DEF WriteAttempts, EscalateAppend, Proceed, End, TypeOK
    <2> QED
      BY <1>2, <1>3, <2>1
  <1>9. ASSUME NEW w \in Workers, Work(w), ~Send(w), ~EscalateSend(w), ~WipeAttempts(w), ~WriteAttempts(w), ~EscalateAppend(w)
        PROVE  NothingLeft'
    <2>1. tried' = tried /\ pc'[w] # "append" /\ \A v \in Workers \ {w} : pc'[v] = pc[v] /\ mem'[v] = mem[v]
      BY <1>9 DEF Work, SaveOutcome, Plan, PlanRaises, ReportStart, EscalateExhausted, EscalatePromote,
           ReceiptApply, ReceiptTell, Proceed, End, TypeOK
    <2> QED
      BY <1>2, <1>3, <2>1
  <1>10. ASSUME NEW w \in Workers, Crash(w) PROVE NothingLeft'
    BY <1>2, <1>3, <1>10 DEF Crash, End, TypeOK
  <1>11. CASE EscalateNotNeeded \/ UNCHANGED vars \/ \E m \in DOMAIN messages : Fate(m)
    BY <1>2, <1>3, <1>11 DEF EscalateNotNeeded, vars, Fate
  <1> QED
    BY <1>4, <1>5, <1>6, <1>7, <1>8, <1>9, <1>10, <1>11 DEF Next

LEMMA PursuedStep ==
  TypeOK /\ PlacesOK /\ ReceiptsTrue /\ PursuitInv /\ [Next]_vars => ChainPursued'
  <1> SUFFICES ASSUME TypeOK, PlacesOK, ReceiptsTrue, PursuitInv, [Next]_vars,
                      ChainReadable', resends' = 0, notif'.status # "absent", ~refused', ~cut'
               PROVE  \/ tried' = Channels
                      \/ \E m \in Mids : Came(m, "delivered")'
                      \/ tasks' > 0
                      \/ \E v \in Workers : Pursuing(v)'
    BY DEF ChainPursued
  <1> USE DEF dbVars, envVars, hisVars
  <1> DEFINE Goes == \/ tried' = Channels
                     \/ \E m \in Mids : Came(m, "delivered")'
                     \/ tasks' > 0
                     \/ \E v \in Workers : Pursuing(v)'
  <1>1. resends = 0 /\ \A w \in Workers : ~ResendQueue(w) /\ op[w] # "resend"
    BY NoResend DEF PursuitInv, StartBeforeEscalation
  <1>2. UNCHANGED declared /\ ~refused
    <2>1. ASSUME NEW w \in Workers, Plan(w) PROVE UNCHANGED declared /\ ~refused
      <3>1. UNCHANGED refused \/ refused' = TRUE
        BY <2>1 DEF Plan
      <3> QED
        BY <2>1, <3>1 DEF Plan
    <2>2. CASE \A w \in Workers : ~Plan(w)
      <3>1. UNCHANGED <<declared, refused>>
        BY <2>2 DEF Next, vars, Arrive, StartCreate, ResendQueue, EscalateLoad, ReceiptLoad, Work, Send,
             SaveOutcome, WipeAttempts, WriteAttempts, PlanRaises, ReportStart, EscalateExhausted,
             EscalateSend, EscalateAppend, EscalatePromote, ReceiptApply, ReceiptTell, Crash,
             EscalateNotNeeded, Fate
      <3> QED
        BY <3>1
    <2> QED
      BY <2>1, <2>2
  <1>3. ASSUME notif.status # "absent"
        PROVE  \/ tried = Channels
               \/ \E m \in Mids : Came(m, "delivered")'
               \/ tasks > 0
               \/ \E v \in Workers : Pursuing(v)
    BY <1>1, <1>2, <1>3, NotCut, MessagesGrow DEF PursuitInv, ChainPursued, ChainReadable
  <1>4. ASSUME notif.status # "absent", tried' = tried, tasks' = tasks,
               \A v \in Workers : Pursuing(v) => Pursuing(v)'
        PROVE  Goes
    BY <1>3, <1>4
  <1>5. ASSUME NEW w \in Workers, pc[w] # "idle" PROVE notif.status # "absent"
    BY <1>5 DEF PlacesOK
  <1>6. ASSUME NEW w \in Workers, StartCreate(w) \/ EscalateLoad(w) PROVE Goes
    BY <1>6 DEF StartCreate, EscalateLoad, Enter, Pursuing, TypeOK
  <1>7. ASSUME NEW w \in Workers, ReceiptLoad(w) PROVE Goes
    <2>1. /\ UNCHANGED <<notif, tried, tasks>> /\ op[w] = "none"
          /\ \A v \in Workers \ {w} : pc'[v] = pc[v] /\ op'[v] = op[v]
      BY <1>7 DEF ReceiptLoad, Enter, PlacesOK, TypeOK
    <2> QED
      BY <1>4, <2>1 DEF Pursuing
  <1>8. ASSUME NEW w \in Workers, Send(w) \/ SaveOutcome(w) \/ WipeAttempts(w) \/ WriteAttempts(w) PROVE Goes
    <2>1. op[w] = "start"
      BY <1>1, <1>8 DEF Send, SaveOutcome, WipeAttempts, WriteAttempts, PlacesOK
    <2>2. op'[w] = "start" /\ pc'[w] # "report"
      BY <1>8, <2>1 DEF Send, SaveOutcome, WipeAttempts, WriteAttempts, Proceed, TypeOK
    <2> QED
      BY <2>2 DEF Pursuing
  <1>9. ASSUME NEW w \in Workers, Plan(w) PROVE Goes
    <2>1. CASE UntriedPaths(tried) = {}
      BY <1>9, <2>1 DEF Plan, UntriedPaths, TypeOK
    <2>2. CASE UntriedPaths(tried) # {}
      <3>1. tasks' = tasks + 1 /\ tasks \in Nat
        BY <1>9, <2>2 DEF Plan, TypeOK
      <3> QED
        BY <3>1
    <2> QED
      BY <2>1, <2>2
  <1>10. ASSUME NEW w \in Workers, PlanRaises(w) PROVE Goes
    BY <1>2, <1>10 DEF PlanRaises, ChainReadable
  <1>11. ASSUME NEW w \in Workers, ReportStart(w) \/ ReceiptApply(w) \/ ReceiptTell(w) PROVE Goes
    <2>1. pc[w] # "idle" /\ ~Pursuing(w) /\ UNCHANGED <<tried, tasks>>
      BY <1>11 DEF ReportStart, ReceiptApply, ReceiptTell, Pursuing, PlacesOK
    <2>2. \A v \in Workers \ {w} : pc'[v] = pc[v] /\ op'[v] = op[v]
      BY <1>11 DEF ReportStart, ReceiptApply, ReceiptTell, Proceed, End, TypeOK
    <2> QED
      BY <1>4, <1>5, <2>1, <2>2 DEF Pursuing
  <1>12. ASSUME NEW w \in Workers, EscalateExhausted(w) PROVE Goes
    BY <1>12 DEF EscalateExhausted, UntriedPaths, TypeOK
  <1>13. ASSUME NEW w \in Workers, EscalateSend(w) \/ EscalatePromote(w) PROVE Goes
    <2>1. op'[w] = "escalate"
      BY <1>13 DEF EscalateSend, EscalatePromote, Proceed, PlacesOK
    <2> QED
      BY <2>1 DEF Pursuing
  <1>14. ASSUME NEW w \in Workers, EscalateAppend(w) PROVE Goes
    <2>1. CASE mem[w].ok
      BY <1>14, <2>1 DEF EscalateAppend, Proceed, PlacesOK, Pursuing
    <2>2. CASE ~mem[w].ok
      BY <1>1, <1>14, <2>2 DEF EscalateAppend, PursuitInv, NothingLeft
    <2> QED
      BY <2>1, <2>2
  <1>15. ASSUME NEW w \in Workers, Crash(w) PROVE Goes
    BY <1>15 DEF Crash
  <1>16. ASSUME EscalateNotNeeded PROVE Goes
    <2>1. \E m \in Mids : Came(m, notif.status)
      BY <1>16 DEF EscalateNotNeeded, ReceiptsTrue, Arrived
    <2>2. \E m \in Mids : Came(m, "delivered")
      BY <2>1 DEF Came, Arrived
    <2> QED
      BY <2>2, MessagesGrow
  <1>17. CASE UNCHANGED vars \/ \E m \in DOMAIN messages : Fate(m)
    BY <1>4, <1>17 DEF vars, Fate, Pursuing
  <1> QED
    BY <1>1, <1>6, <1>7, <1>8, <1>9, <1>10, <1>11, <1>12, <1>13, <1>14, <1>15, <1>16, <1>17
       DEF Next, Arrive, Work

(***************************************************************************)
(* The chain of escalations does not break by itself: as long as nobody    *)
(* has sent the message again, some callback or handler goes on until the  *)
(* channels are used up or the message arrived, unless the queue refused a *)
(* task or a worker died (start_delivery, escalate_delivery).              *)
(***************************************************************************)
THEOREM ChainIsPursued == Spec => []ChainPursued
  <1>1. Init => PursuitInv
    BY DEF Init, PursuitInv, StartBeforeEscalation, NothingLeft, ChainPursued, Sending
  <1>2. IInv /\ PursuitInv /\ [Next]_vars => PursuitInv'
    BY StartBeforeStep, NothingLeftStep, PursuedStep DEF IInv, PursuitInv
  <1>3. PursuitInv => ChainPursued
    BY DEF PursuitInv
  <1> QED
    BY <1>1, <1>2, <1>3, Invariant, PTL DEF Spec

=============================================================================
