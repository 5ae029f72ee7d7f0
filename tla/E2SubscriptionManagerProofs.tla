--------------------- MODULE E2SubscriptionManagerProofs ---------------------
(***************************************************************************)
(* Proofs about E2SubscriptionManager, for any sets of request ids, RAN    *)
(* functions and actions.                                                  *)
(***************************************************************************)
EXTENDS E2SubscriptionManager, TLAPS

USE DEF LastRound, AddSubDelReq, HasInterface

(* One round of indications sends at most one message, an indication of    *)
(* the subscription whose coroutine runs.                                  *)
LEMMA RoundLemma ==
  ASSUME NEW k \in Keys, NEW c, NEW ready
  PROVE  /\ Round(k, c, ready) \in Seq(Messages)
         /\ Len(Round(k, c, ready)) <= 1
         /\ \A i \in DOMAIN Round(k, c, ready) : i = 1 /\ Round(k, c, ready)[i].key = k
<1> DEFINE A == {a \in Listed(c) : a \in ReportActions => a \in ready}
<1>1. Round(k, c, ready) = IF A = {} THEN << >> ELSE << Indication(k, A) >>
  BY DEF Round
<1>2. Indication(k, A) \in Messages /\ Indication(k, A).key = k
  BY DEF Indication, Messages, MessageTypes, Listed
<1> HIDE DEF A
<1>3. CASE A = {}
  BY <1>1, <1>3
<1>4. CASE A # {}
  <2>1. Round(k, c, ready) = << Indication(k, A) >>
    BY <1>1, <1>4
  <2>2. QED
    BY <2>1, <1>2
<1>5. QED
  BY <1>3, <1>4

(* What HandleSubscriptionRequest can do, one case per outcome.            *)
LEMMA RequestCases ==
  ASSUME NEW k, NEW fn, NEW acts, HandleSubscriptionRequest(k, fn, acts)
  PROVE  \/ SubscribeUnsupported(k, fn)
         \/ SubscribeNotAllowedFailure(fn)
         \/ \E ready : SubscribeNotAllowedSuccess(k, fn, ready)
         \/ SubscribeRejected(k, fn)
         \/ \E A \in SUBSET Actions : \E ready : SubscribeAdmitted(k, fn, A, ready)
BY ConstantsAssumption DEF HandleSubscriptionRequest

(* A step is one of the handlers, with the outcomes of a subscription      *)
(* request and of a delete request told apart, or a stuttering step.       *)
LEMMA StepCases ==
  ASSUME [Next]_vars
  PROVE  \/ \E accepted : HandleSetupResponse(accepted)
         \/ \E k \in Keys, fn \in RanFunctions :
               /\ RicMaySubscribe(k, fn)
               /\ \/ SubscribeUnsupported(k, fn)
                  \/ SubscribeNotAllowedFailure(fn)
                  \/ \E ready : SubscribeNotAllowedSuccess(k, fn, ready)
                  \/ SubscribeRejected(k, fn)
                  \/ \E A \in SUBSET Actions : \E ready : SubscribeAdmitted(k, fn, A, ready)
         \/ \E k \in Keys : DeleteUnknown(k)
         \/ \E k \in Keys : \E ready : DeleteRegistered(k, ready)
         \/ \E k \in Keys : \E ready : ReportPeriod(k, ready)
         \/ UNCHANGED vars
<1>1. CASE \E k \in Keys, fn \in RanFunctions, acts \in SUBSET Actions :
              RicMaySubscribe(k, fn) /\ HandleSubscriptionRequest(k, fn, acts)
  BY <1>1, RequestCases
<1>2. CASE \E k \in Keys : HandleDeleteRequest(k)
  BY <1>2 DEF HandleDeleteRequest
<1>3. QED
  BY <1>1, <1>2 DEF Next

-----------------------------------------------------------------------------
(* The invariant of every RIC, conforming or not.                          *)
IInv == TypeOK /\ SuspendedIsObserved

(* The initial state satisfies the invariant.                              *)
LEMMA InitIInv == Init => IInv
<1> SUFFICES ASSUME Init PROVE IInv
  OBVIOUS
<1>1. TypeOK
  <2>1. copies \in [Keys -> [Actions -> Nat]]
    BY DEF Init, NoActions
  <2>2. << >> \in Seq(Messages)
    OBVIOUS
  <2>3. QED
    BY <2>1, <2>2 DEF Init, TypeOK
<1>2. SuspendedIsObserved
  BY DEF Init, SuspendedIsObserved
<1>3. QED
  BY <1>1, <1>2 DEF IInv

(* Every handler preserves the invariant, whatever the RIC sends.          *)
LEMMA StepIInv == IInv /\ [Next]_vars => IInv'
<1> SUFFICES ASSUME IInv, [Next]_vars PROVE IInv'
  OBVIOUS
<1> USE DEF IInv
<1>a. \A k \in Keys : /\ Response(k) \in Messages
                      /\ Failure(k) \in Messages /\ FailureNoCause(k) \in Messages
                      /\ DeleteResponse(k) \in Messages
                      /\ DeleteFailure(k) \in Messages
  BY DEF Response, Failure, FailureNoCause, DeleteResponse, DeleteFailure, Messages,
     MessageTypes
<1>b. DefaultKey \in Keys /\ Candidates \subseteq RanFunctions
  BY ConstantsAssumption
<1>c. NoActions \in [Actions -> Nat]
  BY DEF NoActions
<1>0. ASSUME Crash PROVE IInv'
  BY <1>0 DEF Crash, TypeOK, SuspendedIsObserved
<1>1. ASSUME NEW accepted, HandleSetupResponse(accepted) PROVE IInv'
  BY <1>1, <1>b DEF HandleSetupResponse, TypeOK, SuspendedIsObserved
<1>2. ASSUME NEW k \in Keys, NEW fn, SubscribeUnsupported(k, fn) PROVE IInv'
  BY <1>2, <1>a DEF SubscribeUnsupported, TypeOK, SuspendedIsObserved
<1>3. ASSUME NEW fn, SubscribeNotAllowedFailure(fn) PROVE IInv'
  BY <1>3, <1>a, <1>b DEF SubscribeNotAllowedFailure, TypeOK, SuspendedIsObserved
<1>4. ASSUME NEW k \in Keys, NEW fn, NEW ready, SubscribeNotAllowedSuccess(k, fn, ready)
      PROVE  IInv'
  <2> DEFINE last == IF k \in observer THEN Round(k, copies[k], ready) ELSE << >>
             found == DefaultKey \in source \cup {k}
             task1 == IF k \in observer THEN [task EXCEPT ![k] = "done"] ELSE task
  <2>1. CASE ~Crash
    <3>1. /\ DefaultKey \notin observer \ {k}
          /\ registered' = registered \cup {DefaultKey}
          /\ source' = source \cup {k}
          /\ observer' = (observer \ {k}) \cup (IF found THEN {DefaultKey} ELSE {})
          /\ timer' = (timer \ {k}) \cup (IF found THEN {DefaultKey} ELSE {})
          /\ task' = [task1 EXCEPT ![DefaultKey] = IF found THEN "awaiting" ELSE "done"]
          /\ sent' = last \o << Response(DefaultKey) >>
          /\ UNCHANGED <<allowed, copies, fault>>
      BY <1>4, <2>1 DEF SubscribeNotAllowedSuccess
    <3>2. sent' \in Seq(Messages)
      <4>1. last \in Seq(Messages)
        BY RoundLemma
      <4>2. QED
        BY <4>1, <3>1, <1>a, <1>b
    <3>3. task1 \in [Keys -> {"none", "awaiting", "done"}]
      BY DEF TypeOK
    <3>4. TypeOK'
      BY <3>1, <3>2, <3>3, <1>b DEF TypeOK
    <3>5. \A j \in Keys : j \in observer' <=> task'[j] = "awaiting"
      BY <3>1, <3>3, <1>b DEF TypeOK, SuspendedIsObserved
    <3>6. observer' \subseteq source' \cap registered' \cap timer'
      BY <3>1 DEF SuspendedIsObserved
    <3>7. QED
      BY <3>4, <3>5, <3>6 DEF SuspendedIsObserved
  <2>2. QED
    BY <2>1, <1>0
<1>5. ASSUME NEW k \in Keys, NEW fn, SubscribeRejected(k, fn) PROVE IInv'
  BY <1>5, <1>a, <1>c DEF SubscribeRejected, TypeOK, SuspendedIsObserved
<1>6. ASSUME NEW k \in Keys, NEW fn, NEW A \in SUBSET Actions, NEW ready,
             SubscribeAdmitted(k, fn, A, ready)
      PROVE  IInv'
  <2> DEFINE list == [a \in Actions |-> copies[k][a] + (IF a \in A THEN 1 ELSE 0)]
             last == IF k \in observer THEN Round(k, list, ready) ELSE << >>
  <2>1. CASE ~Crash
    <3>1. /\ registered' = registered \cup {k}
          /\ copies' = [copies EXCEPT ![k] = list]
          /\ task' = [task EXCEPT ![k] = "awaiting"]
          /\ source' = source \cup {k}
          /\ observer' = observer \cup {k}
          /\ timer' = timer \cup {k}
          /\ sent' = last \o << Response(k) >>
          /\ UNCHANGED <<allowed, fault>>
      BY <1>6, <2>1 DEF SubscribeAdmitted
    <3>2. sent' \in Seq(Messages)
      <4>1. last \in Seq(Messages)
        BY RoundLemma
      <4>2. QED
        BY <4>1, <3>1, <1>a
    <3>3. list \in [Actions -> Nat]
      BY DEF TypeOK
    <3> HIDE DEF list, last
    <3>4. TypeOK'
      BY <3>1, <3>2, <3>3 DEF TypeOK
    <3>5. SuspendedIsObserved'
      BY <3>1 DEF TypeOK, SuspendedIsObserved
    <3>6. QED
      BY <3>4, <3>5
  <2>2. QED
    BY <2>1, <1>0
<1>7. ASSUME NEW k \in Keys, DeleteUnknown(k) PROVE IInv'
  BY <1>7, <1>a, <1>b DEF DeleteUnknown, TypeOK, SuspendedIsObserved
<1>8. ASSUME NEW k \in Keys, NEW ready, DeleteRegistered(k, ready) PROVE IInv'
  <2> DEFINE last == IF k \in observer THEN Round(k, copies[k], ready) ELSE << >>
  <2>1. CASE ~Crash
    <3>1. /\ registered' = registered \ {k}
          /\ copies' = [copies EXCEPT ![k] = NoActions]
          /\ task' = [task EXCEPT ![k] = "none"]
          /\ observer' = observer \ {k}
          /\ timer' = IF k \in observer THEN timer \ {k} ELSE timer
          /\ sent' = last \o << DeleteResponse(k) >>
          /\ UNCHANGED <<allowed, source, fault>>
      BY <1>8, <2>1 DEF DeleteRegistered
    <3>2. sent' \in Seq(Messages)
      <4>1. last \in Seq(Messages)
        BY RoundLemma
      <4>2. QED
        BY <4>1, <3>1, <1>a
    <3> HIDE DEF last
    <3>3. TypeOK'
      BY <3>1, <3>2, <1>c DEF TypeOK
    <3>4. SuspendedIsObserved'
      BY <3>1 DEF TypeOK, SuspendedIsObserved
    <3>5. QED
      BY <3>3, <3>4
  <2>2. QED
    BY <2>1, <1>0
<1>9. ASSUME NEW k \in Keys, NEW ready, ReportPeriod(k, ready) PROVE IInv'
  <2>1. sent' \in Seq(Messages)
    <3>1. Round(k, copies[k], ready) \in Seq(Messages) /\ << >> \in Seq(Messages)
      BY RoundLemma
    <3>2. sent' = Round(k, copies[k], ready) \/ sent' = << >>
      BY <1>9 DEF ReportPeriod
    <3>3. QED
      BY <3>1, <3>2
  <2>2. timer' \subseteq timer /\ observer \cap timer \subseteq timer'
    BY <1>9 DEF ReportPeriod
  <2>3. UNCHANGED <<allowed, registered, copies, task, source, observer, fault>>
    BY <1>9 DEF ReportPeriod
  <2>4. QED
    BY <2>1, <2>2, <2>3 DEF TypeOK, SuspendedIsObserved
<1>10. CASE UNCHANGED vars
  BY <1>10 DEF vars, TypeOK, SuspendedIsObserved
<1>11. QED
  BY StepCases, <1>1, <1>2, <1>3, <1>4, <1>5, <1>6, <1>7, <1>8, <1>9, <1>10

(* The invariant holds in every state the agent can reach.                 *)
LEMMA SpecIInv == Spec => []IInv
BY InitIInv, StepIInv, PTL DEF Spec

(* The subscription manager is type correct whatever the RIC sends: every  *)
(* message it sends carries a request id and actions of the model.         *)
THEOREM TypeCorrect == Spec => []TypeOK
<1>1. IInv => TypeOK
  BY DEF IInv
<1>2. QED
  BY <1>1, SpecIInv, PTL

(* Whatever the RIC sends, coroutines and event sources stay linked: no    *)
(* event source keeps a pointer to a coroutine that was destroyed, and no  *)
(* coroutine waits on a source that is gone or has no timer.               *)
THEOREM SuspendedIsObservedHolds == Spec => []SuspendedIsObserved
<1>1. IInv => SuspendedIsObserved
  BY DEF IInv
<1>2. QED
  BY <1>1, SpecIInv, PTL

-----------------------------------------------------------------------------
(* What a conforming RIC can rely on.                                      *)

(* Everything the table holds is served, for a RIC that names only RAN     *)
(* functions it accepted.                                                  *)
THEOREM RegisteredIsServedHolds == Spec => []RegisteredIsServed
<1>1. Init => RegisteredIsServed
  BY DEF Init, RegisteredIsServed
<1>2. IInv /\ RegisteredIsServed /\ [Next]_vars => RegisteredIsServed'
  <2> SUFFICES ASSUME IInv, OnlyAllowed, registered = observer, [Next]_vars
               PROVE  registered' = observer'
    BY DEF RegisteredIsServed
  <2>1. ASSUME NEW accepted, HandleSetupResponse(accepted) PROVE registered' = observer'
    BY <2>1 DEF HandleSetupResponse
  <2>2. ASSUME NEW k \in Keys, NEW fn, RicMaySubscribe(k, fn),
               \/ SubscribeUnsupported(k, fn)
               \/ SubscribeNotAllowedFailure(fn)
               \/ \E ready : SubscribeNotAllowedSuccess(k, fn, ready)
               \/ SubscribeRejected(k, fn)
               \/ \E A \in SUBSET Actions : \E ready : SubscribeAdmitted(k, fn, A, ready)
        PROVE  registered' = observer'
    <3>1. fn \in allowed
      BY <2>2 DEF RicMaySubscribe
    <3>2. QED
      BY <2>2, <3>1 DEF SubscribeUnsupported, SubscribeNotAllowedFailure,
         SubscribeNotAllowedSuccess, SubscribeRejected, SubscribeAdmitted, Crash
  <2>3. ASSUME NEW k \in Keys, DeleteUnknown(k) PROVE registered' = observer'
    BY <2>3 DEF DeleteUnknown
  <2>4. ASSUME NEW k \in Keys, NEW ready, DeleteRegistered(k, ready)
        PROVE  registered' = observer'
    BY <2>4 DEF DeleteRegistered, Crash
  <2>5. ASSUME NEW k \in Keys, NEW ready, ReportPeriod(k, ready) PROVE registered' = observer'
    BY <2>5 DEF ReportPeriod
  <2>6. CASE UNCHANGED vars
    BY <2>6 DEF vars
  <2>7. QED
    BY StepCases, <2>1, <2>2, <2>3, <2>4, <2>5, <2>6
<1>3. QED
  BY <1>1, <1>2, SpecIInv, PTL DEF Spec

(* A conforming RIC cannot bring the agent down.  A null service model, a  *)
(* null event source and a doubly observed source need a RAN function that *)
(* was not accepted; a null report service needs a repeated request id.    *)
THEOREM NoFaultHolds == Spec => []NoFault
<1>1. Init => NoFault
  BY DEF Init, NoFault
<1>2. IInv /\ RegisteredIsServed /\ NoFault /\ [Next]_vars => NoFault'
  <2> SUFFICES ASSUME IInv, UniqueRequestIds, OnlyAllowed, registered = observer, ~fault,
                      [Next]_vars
               PROVE  ~fault'
    BY DEF RegisteredIsServed, NoFault, ConformingRic
  <2>1. ASSUME NEW accepted, HandleSetupResponse(accepted) PROVE ~fault'
    BY <2>1 DEF HandleSetupResponse
  <2>2. ASSUME NEW k \in Keys, NEW fn, RicMaySubscribe(k, fn),
               \/ SubscribeUnsupported(k, fn)
               \/ SubscribeNotAllowedFailure(fn)
               \/ \E ready : SubscribeNotAllowedSuccess(k, fn, ready)
               \/ SubscribeRejected(k, fn)
               \/ \E A \in SUBSET Actions : \E ready : SubscribeAdmitted(k, fn, A, ready)
        PROVE  ~fault'
    <3>1. fn \in allowed /\ k \notin observer
      BY <2>2 DEF RicMaySubscribe
    <3>2. QED
      BY <2>2, <3>1 DEF SubscribeUnsupported, SubscribeNotAllowedFailure,
         SubscribeNotAllowedSuccess, SubscribeRejected, SubscribeAdmitted
  <2>3. ASSUME NEW k \in Keys, DeleteUnknown(k) PROVE ~fault'
    BY <2>3 DEF DeleteUnknown
  <2>4. ASSUME NEW k \in Keys, NEW ready, DeleteRegistered(k, ready) PROVE ~fault'
    <3>1. observer \subseteq source
      BY DEF IInv, SuspendedIsObserved
    <3>2. QED
      BY <2>4, <3>1 DEF DeleteRegistered
  <2>5. ASSUME NEW k \in Keys, NEW ready, ReportPeriod(k, ready) PROVE ~fault'
    BY <2>5 DEF ReportPeriod
  <2>6. CASE UNCHANGED vars
    BY <2>6 DEF vars
  <2>7. QED
    BY StepCases, <2>1, <2>2, <2>3, <2>4, <2>5, <2>6
<1>3. QED
  BY <1>1, <1>2, SpecIInv, RegisteredIsServedHolds, PTL DEF Spec

(* No action is listed twice under a request id that is never reused while *)
(* it is registered, and nothing is listed under a free one.               *)
THEOREM FreshActionListHolds == Spec => []FreshActionList
<1>1. Init => FreshActionList
  BY DEF Init, FreshActionList, NoActions
<1>2. IInv /\ FreshActionList /\ [Next]_vars => FreshActionList'
  <2> SUFFICES ASSUME IInv, UniqueRequestIds, FreshActionList, [Next]_vars,
                      NEW j \in Keys, NEW b \in Actions
               PROVE  copies'[j][b] <= (IF j \in registered' THEN 1 ELSE 0)
    BY DEF FreshActionList
  <2> DEFINE Goal == copies'[j][b] <= (IF j \in registered' THEN 1 ELSE 0)
  <2>a. /\ copies[j][b] <= (IF j \in registered THEN 1 ELSE 0)
        /\ copies \in [Keys -> [Actions -> Nat]]
        /\ copies[j][b] \in Nat
    BY DEF FreshActionList, IInv, TypeOK
  <2>b. NoActions[b] = 0
    BY DEF NoActions
  <2>0. ASSUME registered \subseteq registered', copies' = copies PROVE Goal
    BY <2>a, <2>0
  <2>1. ASSUME NEW accepted, HandleSetupResponse(accepted) PROVE Goal
    BY <2>0, <2>1 DEF HandleSetupResponse
  <2>2. ASSUME NEW k \in Keys, NEW fn, RicMaySubscribe(k, fn),
               \/ SubscribeUnsupported(k, fn)
               \/ SubscribeNotAllowedFailure(fn)
               \/ \E ready : SubscribeNotAllowedSuccess(k, fn, ready)
        PROVE  Goal
    BY <2>0, <2>2 DEF SubscribeUnsupported, SubscribeNotAllowedFailure,
       SubscribeNotAllowedSuccess, Crash
  <2>3. ASSUME NEW k \in Keys, NEW fn, SubscribeRejected(k, fn) PROVE Goal
    BY <2>3, <2>a, <2>b DEF SubscribeRejected
  <2>4. ASSUME NEW k \in Keys, NEW fn, RicMaySubscribe(k, fn), NEW A \in SUBSET Actions,
               NEW ready, SubscribeAdmitted(k, fn, A, ready)
        PROVE  Goal
    <3> DEFINE list == [a \in Actions |-> copies[k][a] + (IF a \in A THEN 1 ELSE 0)]
    <3>1. CASE ~Crash
      <4>1. registered' = registered \cup {k} /\ copies' = [copies EXCEPT ![k] = list]
        BY <2>4, <3>1 DEF SubscribeAdmitted
      <4>2. k \notin registered
        BY <2>4 DEF RicMaySubscribe
      <4>3. CASE j = k
        <5>1. copies'[j][b] = copies[j][b] + (IF b \in A THEN 1 ELSE 0)
          BY <4>1, <4>3, <2>a
        <5>2. QED
          BY <5>1, <4>1, <4>2, <4>3, <2>a
      <4>4. CASE j # k
        BY <4>1, <4>4, <2>a
      <4>5. QED
        BY <4>3, <4>4
    <3>2. CASE Crash
      BY <3>2, <2>0 DEF Crash
    <3>3. QED
      BY <3>1, <3>2
  <2>5. ASSUME NEW k \in Keys, DeleteUnknown(k) PROVE Goal
    BY <2>0, <2>5 DEF DeleteUnknown
  <2>6. ASSUME NEW k \in Keys, NEW ready, DeleteRegistered(k, ready) PROVE Goal
    <3>1. CASE Crash
      BY <3>1, <2>0 DEF Crash
    <3>2. CASE ~Crash
      <4>1. registered' = registered \ {k} /\ copies' = [copies EXCEPT ![k] = NoActions]
        BY <2>6, <3>2 DEF DeleteRegistered
      <4>2. QED
        BY <4>1, <2>a, <2>b
    <3>3. QED
      BY <3>1, <3>2
  <2>7. ASSUME NEW k \in Keys, NEW ready, ReportPeriod(k, ready) PROVE Goal
    BY <2>0, <2>7 DEF ReportPeriod
  <2>8. CASE UNCHANGED vars
    BY <2>0, <2>8 DEF vars
  <2>9. QED
    BY StepCases, <2>1, <2>2, <2>3, <2>4, <2>5, <2>6, <2>7, <2>8
<1>3. QED
  BY <1>1, <1>2, SpecIInv, PTL DEF Spec

(* For a RIC that reuses no registered request id, a coroutine that waits  *)
(* for its next report period ends only in the step that answers a delete  *)
(* request for it.  Without that assumption the property is false: a       *)
(* repeated request without an admissible action erases the subscription.  *)
THEOREM IndicationUntilDeleteHolds ==
  ASSUME UniqueRequestIds
  PROVE  Spec => IndicationUntilDelete
<1> DEFINE Ends(k) == task[k] = "awaiting" /\ task'[k] # "awaiting"
           Answered == \A k \in Keys : Ends(k) =>
                          \E i \in DOMAIN sent' : sent'[i] = DeleteResponse(k)
<1>1. IInv /\ [Next]_vars => Answered
  <2> SUFFICES ASSUME IInv, [Next]_vars, NEW j \in Keys, Ends(j)
               PROVE  \E i \in DOMAIN sent' : sent'[i] = DeleteResponse(j)
    OBVIOUS
  <2> DEFINE Goal == \E i \in DOMAIN sent' : sent'[i] = DeleteResponse(j)
  <2>a. j \in observer /\ j \in registered
    BY DEF IInv, SuspendedIsObserved
  <2>b. task \in [Keys -> {"none", "awaiting", "done"}] /\ DefaultKey \in Keys
    BY ConstantsAssumption DEF IInv, TypeOK
  <2>0. ASSUME task' = task PROVE FALSE
    BY <2>0
  <2>1. ASSUME NEW accepted, HandleSetupResponse(accepted) PROVE Goal
    BY <2>0, <2>1 DEF HandleSetupResponse
  <2>2. ASSUME NEW k \in Keys, NEW fn,
               SubscribeUnsupported(k, fn) \/ SubscribeNotAllowedFailure(fn)
        PROVE  Goal
    BY <2>0, <2>2 DEF SubscribeUnsupported, SubscribeNotAllowedFailure
  <2>3. ASSUME NEW k \in Keys, NEW fn, RicMaySubscribe(k, fn),
               \/ \E ready : SubscribeNotAllowedSuccess(k, fn, ready)
               \/ SubscribeRejected(k, fn)
               \/ \E A \in SUBSET Actions : \E ready : SubscribeAdmitted(k, fn, A, ready)
        PROVE  Goal
    <3>1. k # j /\ k \notin observer
      BY <2>3, <2>a DEF RicMaySubscribe, IInv, SuspendedIsObserved
    <3>2. CASE \E ready : SubscribeNotAllowedSuccess(k, fn, ready)
      <4>1. PICK ready : SubscribeNotAllowedSuccess(k, fn, ready)
        BY <3>2
      <4>2. CASE Crash
        BY <4>2, <2>0 DEF Crash
      <4>3. CASE ~Crash
        <5>1. DefaultKey \notin observer \ {k} /\ task'[j] = task[j]
          BY <4>1, <4>3, <3>1, <2>a, <2>b DEF SubscribeNotAllowedSuccess
        <5>2. QED
          BY <5>1
      <4>4. QED
        BY <4>2, <4>3
    <3>3. CASE SubscribeRejected(k, fn)
      BY <3>3, <3>1, <2>b DEF SubscribeRejected
    <3>4. CASE \E A \in SUBSET Actions : \E ready : SubscribeAdmitted(k, fn, A, ready)
      BY <3>4, <3>1, <2>b, <2>0 DEF SubscribeAdmitted, Crash
    <3>5. QED
      BY <2>3, <3>2, <3>3, <3>4
  <2>5. ASSUME NEW k \in Keys, DeleteUnknown(k) PROVE Goal
    BY <2>0, <2>5 DEF DeleteUnknown
  <2>6. ASSUME NEW k \in Keys, NEW ready, DeleteRegistered(k, ready) PROVE Goal
    <3> DEFINE last == IF k \in observer THEN Round(k, copies[k], ready) ELSE << >>
    <3>1. CASE Crash
      BY <3>1, <2>0 DEF Crash
    <3>2. CASE ~Crash
      <4>1. task' = [task EXCEPT ![k] = "none"] /\ sent' = last \o << DeleteResponse(k) >>
        BY <2>6, <3>2 DEF DeleteRegistered
      <4>2. k = j
        BY <4>1, <2>b
      <4>3. last \in Seq(Messages)
        BY RoundLemma
      <4> HIDE DEF last
      <4>4. /\ Len(last) + 1 \in DOMAIN sent'
            /\ sent'[Len(last) + 1] = DeleteResponse(k)
        BY <4>1, <4>3
      <4>5. QED
        BY <4>2, <4>4
    <3>3. QED
      BY <3>1, <3>2
  <2>7. ASSUME NEW k \in Keys, NEW ready, ReportPeriod(k, ready) PROVE Goal
    BY <2>0, <2>7 DEF ReportPeriod
  <2>8. CASE UNCHANGED vars
    BY <2>0, <2>8 DEF vars
  <2>9. QED
    BY StepCases, <2>1, <2>2, <2>3, <2>5, <2>6, <2>7, <2>8
<1>2. QED
  BY <1>1, SpecIInv, PTL DEF Spec, IndicationUntilDelete

(* What a coroutine and a handler send in one step: an indication, if any, *)
(* comes first and belongs to the subscription of the coroutine.           *)
LEMMA IndicationFirst ==
  ASSUME NEW k \in Keys, NEW last \in Seq(Messages), Len(last) <= 1,
         \A i \in DOMAIN last : i = 1 /\ last[i].key = k,
         NEW m, m.type # "indication",
         NEW i \in DOMAIN (last \o << m >>), (last \o << m >>)[i].type = "indication"
  PROVE  i = 1 /\ i \in DOMAIN last /\ (last \o << m >>)[i].key = k
<1>1. i \in 1..(Len(last) + 1) /\ Len(last) \in Nat
  OBVIOUS
<1>2. CASE i = Len(last) + 1
  <2>1. (last \o << m >>)[i] = m
    BY <1>2
  <2>2. QED
    BY <2>1
<1>3. CASE i # Len(last) + 1
  <2>1. i \in 1..Len(last)
    BY <1>1, <1>3
  <2>2. i \in DOMAIN last /\ (last \o << m >>)[i] = last[i]
    BY <2>1
  <2>3. QED
    BY <2>2
<1>4. QED
  BY <1>2, <1>3

(* Whatever the RIC sends, an indication is only ever sent for a           *)
(* subscription that is registered when the step begins, and it leaves     *)
(* before the answer of the same step.                                     *)
THEOREM IndicationOnlyIfRegisteredHolds == Spec => IndicationOnlyIfRegistered
<1> DEFINE Good == \A i \in DOMAIN sent' : sent'[i].type = "indication" =>
                      sent'[i].key \in registered /\ i = 1
<1>1. IInv /\ [Next]_vars => Good \/ UNCHANGED vars
  <2> SUFFICES ASSUME IInv, [Next]_vars PROVE Good \/ UNCHANGED vars
    OBVIOUS
  <2>a. observer \subseteq registered
    BY DEF IInv, SuspendedIsObserved
  <2>b. ASSUME NEW k \in Keys, NEW c, NEW ready, NEW m, m.type # "indication",
               sent' = (IF k \in observer THEN Round(k, c, ready) ELSE << >>) \o << m >>
        PROVE  Good
    <3> DEFINE last == IF k \in observer THEN Round(k, c, ready) ELSE << >>
    <3>1. /\ last \in Seq(Messages) /\ Len(last) <= 1
          /\ \A i \in DOMAIN last : i = 1 /\ last[i].key = k
          /\ k \notin observer => last = << >>
      BY RoundLemma
    <3>2. sent' = last \o << m >>
      BY <2>b
    <3> HIDE DEF last
    <3>3. ASSUME NEW i \in DOMAIN sent', sent'[i].type = "indication"
          PROVE  sent'[i].key \in registered /\ i = 1
      <4>1. i = 1 /\ i \in DOMAIN last /\ sent'[i].key = k
        BY <3>1, <3>2, <3>3, <2>b, IndicationFirst
      <4>2. k \in observer
        BY <4>1, <3>1
      <4>3. QED
        BY <4>1, <4>2, <2>a
    <3>4. QED
      BY <3>3
  <2>c. ASSUME NEW m, m.type # "indication", sent' = << m >> PROVE Good
    BY <2>c
  <2>d. ASSUME sent' = << >> PROVE Good
    BY <2>d
  <2>e. ASSUME NEW k \in Keys
        PROVE  /\ Response(k).type # "indication" /\ Failure(k).type # "indication"
               /\ FailureNoCause(k).type # "indication"
               /\ DeleteResponse(k).type # "indication"
               /\ DeleteFailure(k).type # "indication"
    BY DEF Response, Failure, FailureNoCause, DeleteResponse, DeleteFailure
  <2>f. DefaultKey \in Keys
    BY ConstantsAssumption
  <2> HIDE DEF Good
  <2>1. ASSUME NEW accepted, HandleSetupResponse(accepted) PROVE Good
    BY <2>1, <2>d DEF HandleSetupResponse
  <2>2. ASSUME NEW k \in Keys, NEW fn, SubscribeUnsupported(k, fn) PROVE Good
    BY <2>2, <2>c, <2>e DEF SubscribeUnsupported
  <2>3. ASSUME NEW fn, SubscribeNotAllowedFailure(fn) PROVE Good
    BY <2>3, <2>c, <2>e, <2>f DEF SubscribeNotAllowedFailure
  <2>4. ASSUME NEW k \in Keys, NEW fn, NEW ready, SubscribeNotAllowedSuccess(k, fn, ready)
        PROVE  Good
    BY <2>4, <2>b, <2>d, <2>e, <2>f DEF SubscribeNotAllowedSuccess, Crash
  <2>5. ASSUME NEW k \in Keys, NEW fn, SubscribeRejected(k, fn) PROVE Good
    BY <2>5, <2>c, <2>e DEF SubscribeRejected
  <2>6. ASSUME NEW k \in Keys, NEW fn, NEW A \in SUBSET Actions, NEW ready,
               SubscribeAdmitted(k, fn, A, ready)
        PROVE  Good
    BY <2>6, <2>b, <2>d, <2>e DEF SubscribeAdmitted, Crash
  <2>7. ASSUME NEW k \in Keys, DeleteUnknown(k) PROVE Good
    BY <2>7, <2>c, <2>e, <2>f DEF DeleteUnknown
  <2>8. ASSUME NEW k \in Keys, NEW ready, DeleteRegistered(k, ready) PROVE Good
    BY <2>8, <2>b, <2>d, <2>e DEF DeleteRegistered, Crash
  <2>9. ASSUME NEW k \in Keys, NEW ready, ReportPeriod(k, ready) PROVE Good
    <3>1. CASE k \in observer
      <4>1. sent' = Round(k, copies[k], ready)
        BY <2>9, <3>1 DEF ReportPeriod
      <4>2. QED
        BY <4>1, <3>1, <2>a, RoundLemma DEF Good
    <3>2. CASE k \notin observer
      BY <2>9, <3>2, <2>d DEF ReportPeriod
    <3>3. QED
      BY <3>1, <3>2
  <2>10. QED
    BY StepCases, <2>1, <2>2, <2>3, <2>4, <2>5, <2>6, <2>7, <2>8, <2>9
<1>2. QED
  BY <1>1, SpecIInv, PTL DEF Spec, IndicationOnlyIfRegistered
=============================================================================
