-------------------------- MODULE CabinetFeedProofs --------------------------
(***************************************************************************)
(* What the polling of the list page guarantees, for any number of         *)
(* deliveries, statuses and changes.                                       *)
(***************************************************************************)
EXTENDS CabinetFeed, SequenceTheorems, TLAPS

(* An answer is only on its way to a page that is open. *)
AnswersOpenPage == answer # Nothing => page = "open"

(***************************************************************************)
(* What makes an open page reload, now or at its next poll, is a change    *)
(* that no reload has been spent on.                                       *)
(***************************************************************************)
ChangeInHand ==
  page = "open" /\ (List # current \/ answer \notin {Nothing, current}) => reloads < changes

(* A page whose queries nothing came between shows what it has signed. *)
SignsWhatItShows ==
  ~torn => /\ page = "sign" => shown = List
           /\ page = "open" => shown = current

IInv ==
  /\ TypeOK /\ AnswersOpenPage /\ ChangeInHand /\ SignsWhatItShows
  /\ ReloadsOnlyForChanges

-----------------------------------------------------------------------------
LEMMA ListIsList ==
  ASSUME TypeOK
  PROVE  List \in Lists
  <1>1. Active \in SUBSET Deliveries /\ List \in [Active -> Statuses]
    BY DEF Active, List, TypeOK
  <1> QED
    BY <1>1 DEF Lists

LEMMA EmptyList == <<>> \in Lists
  <1>1. <<>> \in Seq(Statuses) /\ Len(<<>>) = 0
    BY EmptySeq
  <1>2. <<>> \in [{} -> Statuses]
    <2>1. <<>> \in [1..0 -> Statuses] /\ 1..0 = {}
      BY <1>1, LenProperties
    <2> QED
      BY <2>1
  <1>3. {} \in SUBSET Deliveries
    OBVIOUS
  <1> QED
    BY <1>2, <1>3 DEF Lists

LEMMA InvInit == Init => IInv
  <1> SUFFICES ASSUME Init PROVE IInv
    OBVIOUS
  <1>1. TypeOK
    <2>1. shown \in Lists /\ current \in Lists
      BY EmptyList, Zenon DEF Init
    <2>2. status \in [Deliveries -> Statuses \cup {Nothing}] /\ deleted \in SUBSET Deliveries
      BY DEF Init
    <2>3. answer \in {Nothing} /\ page \in {"list", "sign", "open"} /\ torn \in BOOLEAN
      BY Zenon DEF Init
    <2>4. changes \in 0..MaxChanges /\ reloads \in Nat
      BY MaxChangesAssumption DEF Init
    <2> QED
      BY <2>1, <2>2, <2>3, <2>4, Zenon DEF TypeOK
  <1> QED
    BY <1>1 DEF Init, IInv, AnswersOpenPage, ChangeInHand, SignsWhatItShows, ReloadsOnlyForChanges

(* A change pays for one more reload. *)
LEMMA ChangeStep ==
  ASSUME IInv, Change, TypeOK'
  PROVE  IInv'
  <1>1. changes \in Nat /\ reloads \in Nat
    BY MaxChangesAssumption DEF IInv, TypeOK
  <1>2. AnswersOpenPage' /\ ReloadsOnlyForChanges' /\ reloads' < changes'
    BY <1>1 DEF IInv, Change, AnswersOpenPage, ReloadsOnlyForChanges
  <1>3. ChangeInHand'
    BY <1>2 DEF ChangeInHand
  <1>4. SignsWhatItShows'
    BY DEF IInv, Change, SignsWhatItShows
  <1> QED
    BY <1>2, <1>3, <1>4 DEF IInv

LEMMA BrowserStep ==
  ASSUME IInv, Browser
  PROVE  IInv'
  <1>1. changes \in Nat /\ reloads \in Nat /\ List \in Lists
    BY MaxChangesAssumption, ListIsList DEF IInv, TypeOK
  <1>2. UNCHANGED <<status, deleted, changes>> /\ List' = List
    BY DEF Browser, LoadList, LoadSignature, Poll, Reload, KeepPage, List, Active
  <1>3. CASE LoadList
    BY <1>1, <1>2, <1>3 DEF LoadList, IInv, TypeOK, AnswersOpenPage, ChangeInHand, SignsWhatItShows,
                            ReloadsOnlyForChanges
  <1>4. CASE LoadSignature
    BY <1>1, <1>2, <1>4 DEF LoadSignature, Signature, IInv, TypeOK, AnswersOpenPage, ChangeInHand,
                            SignsWhatItShows, ReloadsOnlyForChanges
  <1>5. CASE Poll
    BY <1>1, <1>2, <1>5 DEF Poll, Signature, IInv, TypeOK, AnswersOpenPage, ChangeInHand,
                            SignsWhatItShows, ReloadsOnlyForChanges
  <1>6. CASE Reload
    <2>1. page = "open" /\ reloads < changes
      BY <1>6 DEF Reload, IInv, AnswersOpenPage, ChangeInHand
    <2> QED
      BY <1>1, <1>2, <1>6, <2>1 DEF Reload, IInv, TypeOK, AnswersOpenPage, ChangeInHand,
                                    SignsWhatItShows, ReloadsOnlyForChanges
  <1>7. CASE KeepPage
    BY <1>1, <1>2, <1>7 DEF KeepPage, IInv, TypeOK, AnswersOpenPage, ChangeInHand, SignsWhatItShows,
                            ReloadsOnlyForChanges
  <1> QED
    BY <1>3, <1>4, <1>5, <1>6, <1>7 DEF Browser

LEMMA InvStep == IInv /\ [Next]_vars => IInv'
  <1> SUFFICES ASSUME IInv, [Next]_vars PROVE IInv'
    OBVIOUS
  <1>1. ASSUME Change PROVE changes' \in 0..MaxChanges
    BY <1>1, MaxChangesAssumption DEF Change, IInv, TypeOK
  <1>2. ASSUME NEW d \in Deliveries, NEW s \in Statuses, Move(d, s) PROVE IInv'
    <2>1. TypeOK'
      BY <1>1, <1>2 DEF Move, Change, IInv, TypeOK
    <2> QED
      BY <1>2, <2>1, ChangeStep DEF Move
  <1>3. ASSUME NEW d \in Deliveries, DeleteOrRestore(d) PROVE IInv'
    <2>1. TypeOK'
      BY <1>1, <1>3 DEF DeleteOrRestore, Change, IInv, TypeOK
    <2> QED
      BY <1>3, <2>1, ChangeStep DEF DeleteOrRestore
  <1>4. CASE UNCHANGED vars
    BY <1>4 DEF vars, IInv, TypeOK, AnswersOpenPage, ChangeInHand, SignsWhatItShows,
                ReloadsOnlyForChanges, List, Active
  <1> QED
    BY <1>2, <1>3, <1>4, BrowserStep DEF Next

-----------------------------------------------------------------------------
(***************************************************************************)
(* Page and answers always carry a list or the signature of one            *)
(* (feed_sig in the context of the list view, DeliveryFeedView).           *)
(***************************************************************************)
THEOREM TypesKept == Spec => []TypeOK
  <1>1. IInv => TypeOK
    BY DEF IInv
  <1> QED
    BY <1>1, InvInit, InvStep, PTL DEF Spec

(***************************************************************************)
(* The page never reloads more often than deliveries have changed          *)
(* (_deliveries_signature, the script of delivery_list.html).              *)
(***************************************************************************)
THEOREM ReloadsAreEarned == Spec => []ReloadsOnlyForChanges
  <1>1. IInv => ReloadsOnlyForChanges
    BY DEF IInv
  <1> QED
    BY <1>1, InvInit, InvStep, PTL DEF Spec

(***************************************************************************)
(* An open page shows the list its signature is of, unless something       *)
(* changed between the two queries: then a poll that answers the page's    *)
(* own signature says that the page is fresh (DeliveryListView).           *)
(***************************************************************************)
THEOREM SignatureIsOfPage == Spec => []SignsWhatItShows
  <1>1. IInv => SignsWhatItShows
    BY DEF IInv
  <1> QED
    BY <1>1, InvInit, InvStep, PTL DEF Spec

=============================================================================
