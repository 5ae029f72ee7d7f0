------------------------ MODULE E2SubscriptionManager ------------------------
(***************************************************************************)
(* The RIC subscription manager of the E2 agent (srsRAN/lib/e2):           *)
(*   e2_subscription_manager_impl      the table of subscriptions          *)
(*   e2_subscription_setup_procedure   RIC SUBSCRIPTION REQUEST            *)
(*   e2_subscription_delete_procedure  RIC SUBSCRIPTION DELETE REQUEST     *)
(*   e2_indication_procedure           one coroutine per subscription      *)
(*   e2_event_manager::sub_del_reqs    one event source per subscription   *)
(*   e2sm_manager                      RAN functions the RIC accepted      *)
(*                                                                         *)
(* Every handler and every timer callback runs on the executor of the E2   *)
(* agent, so each is one atomic step.  A step resumes coroutines inline;   *)
(* what they do until they suspend again belongs to the step.              *)
(*                                                                         *)
(* Data abstraction: the vector action_list is a bag of actions (copies),  *)
(* because all its indications leave in one handler and their order is     *)
(* never observed; the indications of one round are one message; a report  *)
(* period is the nondeterministic moment at which the timer expires.       *)
(***************************************************************************)
EXTENDS Naturals, Sequences

CONSTANTS
  Keys,             \* RIC request ids: pairs (requestor id, instance id)
  DefaultKey,       \* the pair (0, 0) of a request id that was never filled in
  RanFunctions,     \* RAN function ids a RIC can name
  Candidates,       \* those offered in the E2 SETUP REQUEST
  Supported,        \* supported_ran_functions of the subscription manager
  Actions,          \* RIC actions a request can carry
  ReportActions,    \* those of type report; the others need no report service
  SupportedActions, \* actions the service model admits (e2sm action_supported)
  MaxCopies,        \* bound: copies of an action in one action_list
  UniqueRequestIds, \* the RIC reuses no request id that is registered
  OnlyAllowed       \* the RIC names only RAN functions it accepted

ASSUME ConstantsAssumption ==
  /\ DefaultKey \in Keys
  /\ Candidates \subseteq RanFunctions
  /\ Supported \subseteq Candidates
  /\ ReportActions \subseteq Actions
  /\ SupportedActions \subseteq Actions
  /\ MaxCopies \in Nat \ {0}
  /\ UniqueRequestIds \in BOOLEAN
  /\ OnlyAllowed \in BOOLEAN

VARIABLES
  allowed,      \* e2sm_manager::supported_ran_functions
  registered,   \* keys of the map subscriptions
  copies,       \* [Keys -> [Actions -> Nat]]: action_list of each key
  task,         \* [Keys -> {"none", "awaiting", "done"}]: indication_task
  source,       \* keys that have an event source in sub_del_reqs
  observer,     \* keys whose event source has a subscriber
  timer,        \* keys whose event source has a running timer
  fault,        \* TRUE once a null pointer was dereferenced or an assert failed
  sent          \* messages handed to e2_message_notifier by the last step

vars == <<allowed, registered, copies, task, source, observer, timer,
          fault, sent>>

-----------------------------------------------------------------------------
(* Messages handed to e2_message_notifier.  A RIC SUBSCRIPTION FAILURE     *)
(* carries a cause only if the RAN function was unknown; the type of the   *)
(* others says that their mandatory cause was never set.                   *)

NoActions == [a \in Actions |-> 0]

Response(k)      == [type |-> "response", key |-> k, acts |-> {}]
Failure(k)       == [type |-> "failure", key |-> k, acts |-> {}]
FailureNoCause(k)== [type |-> "failure_no_cause", key |-> k, acts |-> {}]
DeleteResponse(k)== [type |-> "delete_response", key |-> k, acts |-> {}]
DeleteFailure(k) == [type |-> "delete_failure", key |-> k, acts |-> {}]
Indication(k, A) == [type |-> "indication", key |-> k, acts |-> A]

MessageTypes == {"response", "failure", "failure_no_cause", "delete_response",
                 "delete_failure", "indication"}
Messages == [type : MessageTypes, key : Keys, acts : SUBSET Actions]

TypeOK ==
  /\ allowed \subseteq RanFunctions
  /\ registered \subseteq Keys
  /\ copies \in [Keys -> [Actions -> Nat]]
  /\ task \in [Keys -> {"none", "awaiting", "done"}]
  /\ source \subseteq Keys
  /\ observer \subseteq Keys
  /\ timer \subseteq Keys
  /\ fault \in BOOLEAN
  /\ sent \in Seq(Messages)

Init ==
  /\ allowed = {}
  /\ registered = {}
  /\ copies = [k \in Keys |-> NoActions]
  /\ task = [k \in Keys |-> "none"]
  /\ source = {}
  /\ observer = {}
  /\ timer = {}
  /\ fault = FALSE
  /\ sent = << >>

-----------------------------------------------------------------------------
(* One round of the indication coroutine over the action list: a report    *)
(* action is skipped when its measurements are not ready or do not fit in  *)
(* a message, every other action always yields an (empty) indication.      *)

Listed(c) == {a \in Actions : c[a] > 0}

Round(k, c, ready) ==
  LET A == {a \in Listed(c) : a \in ReportActions => a \in ready}
  IN  IF A = {} THEN << >> ELSE << Indication(k, A) >>

(* async_event_source::set and the destructor of a source: the coroutine   *)
(* that is subscribed is resumed, leaves its loop and does a last round.   *)
LastRound(k, c, ready) == IF k \in observer THEN Round(k, c, ready) ELSE << >>

(* e2_event_manager::add_sub_del_req.                                      *)
AddSubDelReq(k) == source' = source \cup {k}

(* e2sm_manager::get_e2sm_interface finds a service model for fn.          *)
HasInterface(fn) == fn \in allowed

(* The process dies: nothing else is observable.                           *)
Crash ==
  /\ fault' = TRUE
  /\ sent' = << >>
  /\ UNCHANGED <<allowed, registered, copies, task, source, observer,
                 timer>>

(* e2_impl::handle_e2_setup_response: the RAN functions the RIC accepted   *)
(* and the agent offered become usable.                                    *)
HandleSetupResponse(accepted) ==
  /\ ~fault
  /\ allowed' = allowed \cup (accepted \cap Candidates)
  /\ sent' = << >>
  /\ UNCHANGED <<registered, copies, task, source, observer, timer,
                 fault>>

-----------------------------------------------------------------------------
(* RIC SUBSCRIPTION REQUEST.  The outcome depends on the RAN function and  *)
(* on A, the actions that were admitted: those the service model supports  *)
(* and whose definition could be copied (deep_copy fails when the buffer   *)
(* pool is empty).                                                         *)

(* The RAN function is unknown to the subscription manager.                *)
SubscribeUnsupported(k, fn) ==
  /\ fn \notin Supported
  /\ sent' = << Failure(k) >>
  /\ UNCHANGED <<allowed, registered, copies, task, source, observer, timer,
                 fault>>

(* The RIC has not accepted the RAN function: handle_subscription_setup    *)
(* returns an outcome in which nothing was assigned.  Its request id is    *)
(* (0, 0) and its flag success was never written, so either value is read. *)
SubscribeNotAllowedFailure(fn) ==
  /\ fn \in Supported /\ ~HasInterface(fn)
  /\ sent' = << FailureNoCause(DefaultKey) >>
  /\ UNCHANGED <<allowed, registered, copies, task, source, observer, timer,
                 fault>>

(* Read as success: the event source of k is replaced, which ends the      *)
(* coroutine of k, and a coroutine is started for the request id (0, 0).   *)
(* Without a service model interface it cannot bind report actions, and an *)
(* event source accepts a single observer.                                 *)
SubscribeNotAllowedSuccess(k, fn, ready) ==
  LET ended == observer \cap {k}
      last  == LastRound(k, copies[k], ready)
      crash == \/ Listed(copies[DefaultKey]) \cap ReportActions # {}
               \/ DefaultKey \in observer \ ended
      found == DefaultKey \in source \cup {k}
      task1 == IF k \in observer THEN [task EXCEPT ![k] = "done"] ELSE task
  IN  /\ fn \in Supported /\ ~HasInterface(fn)
      /\ \/ crash /\ Crash
         \/ /\ ~crash
            /\ registered' = registered \cup {DefaultKey}
            /\ AddSubDelReq(k)
            /\ observer' = (observer \ {k}) \cup (IF found THEN {DefaultKey} ELSE {})
            /\ timer' = (timer \ {k}) \cup (IF found THEN {DefaultKey} ELSE {})
            /\ task' = [task1 EXCEPT ![DefaultKey] =
                                       IF found THEN "awaiting" ELSE "done"]
            /\ sent' = last \o << Response(DefaultKey) >>
            /\ UNCHANGED <<allowed, copies, fault>>

(* Mutants of SubscribeRejected: the entry is not erased; the observer of  *)
(* a destroyed coroutine is not withdrawn; the failure carries the RAN     *)
(* function id as request id; the RIC is told of success.                  *)
RejectedKeepsEntry(k, fn) ==
  /\ fn \in Supported /\ HasInterface(fn)
  /\ registered' = registered \cup {k}
  /\ sent' = << FailureNoCause(k) >>
  /\ UNCHANGED <<allowed, copies, task, source, observer, timer, fault>>

RejectedKeepsObserver(k, fn) ==
  /\ fn \in Supported /\ HasInterface(fn)
  /\ registered' = registered \ {k}
  /\ copies' = [copies EXCEPT ![k] = NoActions]
  /\ task' = [task EXCEPT ![k] = "none"]
  /\ sent' = << FailureNoCause(k) >>
  /\ UNCHANGED <<allowed, source, observer, timer, fault>>

RejectedWrongId(k, fn) ==
  /\ fn \in Supported /\ HasInterface(fn)
  /\ sent' = << FailureNoCause(fn) >>
  /\ UNCHANGED <<allowed, registered, copies, task, source, observer, timer, fault>>

RejectedAsSuccess(k, fn) ==
  /\ fn \in Supported /\ HasInterface(fn)
  /\ sent' = << Response(k) >>
  /\ UNCHANGED <<allowed, registered, copies, task, source, observer, timer, fault>>

(* No action was admitted: the subscription is erased.  A coroutine that   *)
(* ran under the same request id is destroyed and its observer withdrawn.  *)
SubscribeRejected(k, fn) ==
  /\ fn \in Supported /\ HasInterface(fn)
  /\ registered' = registered \ {k}
  /\ copies' = [copies EXCEPT ![k] = NoActions]
  /\ task' = [task EXCEPT ![k] = "none"]
  /\ observer' = observer \ {k}
  /\ sent' = << FailureNoCause(k) >>
  /\ UNCHANGED <<allowed, source, timer, fault>>

(* Some action was admitted.  It is appended to the list of a subscription *)
(* that may exist already; replacing the event source then resumes the old *)
(* coroutine for a last round, before the report services of the new       *)
(* actions exist.  start_subscription binds every report action (the same  *)
(* definition that was admitted always yields a service) and launches the  *)
(* coroutine, which subscribes to the new source and arms its timer.       *)
SubscribeAdmitted(k, fn, A, ready) ==
  LET list == [a \in Actions |-> copies[k][a] + (IF a \in A THEN 1 ELSE 0)]
      last == LastRound(k, list, ready)
      crash == k \in observer /\ A \cap ReportActions # {}
  IN  /\ fn \in Supported /\ HasInterface(fn)
      /\ \/ crash /\ Crash
         \/ /\ ~crash
            /\ registered' = registered \cup {k}
            /\ copies' = [copies EXCEPT ![k] = list]
            /\ task' = [task EXCEPT ![k] = "awaiting"]
            /\ AddSubDelReq(k)
            /\ observer' = observer \cup {k}
            /\ timer' = timer \cup {k}
            /\ sent' = last \o << Response(k) >>
            /\ UNCHANGED <<allowed, fault>>

HandleSubscriptionRequest(k, fn, acts) ==
  /\ ~fault
  /\ \A a \in acts : copies[k][a] < MaxCopies
  /\ \/ SubscribeUnsupported(k, fn)
     \/ SubscribeNotAllowedFailure(fn)
     \/ \E ready \in SUBSET ReportActions : SubscribeNotAllowedSuccess(k, fn, ready)
     \/ SubscribeRejected(k, fn)
     \/ \E A \in SUBSET (acts \cap SupportedActions), ready \in SUBSET ReportActions :
           A # {} /\ SubscribeAdmitted(k, fn, A, ready)

-----------------------------------------------------------------------------
(* RIC SUBSCRIPTION DELETE REQUEST.  stop_subscription hands the request   *)
(* to the event source: the coroutine leaves its loop, but only after one  *)
(* more round of indications.  The subscription is then erased; the event  *)
(* source stays in sub_del_reqs.                                           *)

(* The failure names no request: only the response of the outcome got the  *)
(* request id.                                                             *)
DeleteUnknown(k) ==
  /\ k \notin registered
  /\ sent' = << DeleteFailure(DefaultKey) >>
  /\ UNCHANGED <<allowed, registered, copies, task, source, observer, timer,
                 fault>>

(* Mutants of DeleteRegistered: the coroutine is not stopped; the actions  *)
(* stay in the list; the response is sent before the last round.           *)
DeleteKeepsTask(k, ready) ==
  /\ k \in registered
  /\ registered' = registered \ {k}
  /\ copies' = [copies EXCEPT ![k] = NoActions]
  /\ sent' = << DeleteResponse(k) >>
  /\ UNCHANGED <<allowed, task, source, observer, timer, fault>>

DeleteKeepsActions(k, ready) ==
  /\ k \in registered
  /\ registered' = registered \ {k}
  /\ task' = [task EXCEPT ![k] = "none"]
  /\ observer' = observer \ {k}
  /\ timer' = timer \ {k}
  /\ sent' = << DeleteResponse(k) >>
  /\ UNCHANGED <<allowed, copies, source, fault>>

DeleteAnswersFirst(k, ready) ==
  /\ k \in registered \cap observer
  /\ registered' = registered \ {k}
  /\ copies' = [copies EXCEPT ![k] = NoActions]
  /\ task' = [task EXCEPT ![k] = "none"]
  /\ observer' = observer \ {k}
  /\ timer' = timer \ {k}
  /\ sent' = << DeleteResponse(k) >> \o Round(k, copies[k], ready)
  /\ UNCHANGED <<allowed, source, fault>>

DeleteRegistered(k, ready) ==
  LET last == LastRound(k, copies[k], ready)
  IN  /\ k \in registered
      /\ \/ k \notin source /\ Crash
         \/ /\ k \in source
            /\ registered' = registered \ {k}
            /\ copies' = [copies EXCEPT ![k] = NoActions]
            /\ task' = [task EXCEPT ![k] = "none"]
            /\ observer' = observer \ {k}
            /\ timer' = IF k \in observer THEN timer \ {k} ELSE timer
            /\ sent' = last \o << DeleteResponse(k) >>
            /\ UNCHANGED <<allowed, source, fault>>

HandleDeleteRequest(k) ==
  /\ ~fault
  /\ \/ DeleteUnknown(k)
     \/ \E ready \in SUBSET ReportActions : DeleteRegistered(k, ready)

-----------------------------------------------------------------------------
(* Mutant of ReportPeriod: the coroutine ends when no measurement is ready.*)
PeriodEndsIfEmpty(k, ready) ==
  /\ ~fault
  /\ k \in timer \cap observer
  /\ sent' = Round(k, copies[k], ready)
  /\ task' = [task EXCEPT ![k] = IF sent' = << >> THEN "done" ELSE "awaiting"]
  /\ observer' = IF sent' = << >> THEN observer \ {k} ELSE observer
  /\ UNCHANGED <<allowed, registered, copies, source, timer, fault>>

(* The report period of the event source of k elapses.  With an observer,  *)
(* the coroutine does one round and subscribes again; without one, the     *)
(* callback finds nobody to notify.                                        *)
ReportPeriod(k, ready) ==
  /\ ~fault
  /\ k \in timer
  /\ IF k \in observer
     THEN sent' = Round(k, copies[k], ready) /\ timer' = timer
     ELSE sent' = << >> /\ timer' = timer \ {k}
  /\ UNCHANGED <<allowed, registered, copies, task, source, observer, fault>>

-----------------------------------------------------------------------------
(* The environment: a RIC that respects the two switches, and the timers.  *)

RicMaySubscribe(k, fn) ==
  /\ UniqueRequestIds => k \notin registered
  /\ OnlyAllowed => fn \in allowed

Next ==
  \/ \E accepted \in SUBSET RanFunctions : HandleSetupResponse(accepted)
  \/ \E k \in Keys, fn \in RanFunctions, acts \in SUBSET Actions :
        RicMaySubscribe(k, fn) /\ HandleSubscriptionRequest(k, fn, acts)
  \/ \E k \in Keys : HandleDeleteRequest(k)
  \/ \E k \in Keys, ready \in SUBSET ReportActions : ReportPeriod(k, ready)

Spec == Init /\ [][Next]_vars

-----------------------------------------------------------------------------
(* Properties.                                                             *)

(* The pointers between coroutines and event sources agree whatever the    *)
(* RIC sends: a coroutine is suspended in CORO_AWAIT exactly when the      *)
(* event source of its key has it as subscriber, and then the timer that   *)
(* will wake it runs.  A subscriber without a coroutine would be a         *)
(* dangling pointer, a coroutine without a source would sleep forever.     *)
SuspendedIsObserved ==
  /\ \A k \in Keys : k \in observer <=> task[k] = "awaiting"
  /\ observer \subseteq source \cap registered \cap timer

(* With a RIC that keeps its request ids unique and names only accepted    *)
(* RAN functions, no null report service, null event source, null service  *)
(* model or doubly observed source is ever used.                           *)
ConformingRic == UniqueRequestIds /\ OnlyAllowed
NoFault == ConformingRic => ~fault

(* Every subscription in the table is served: its coroutine waits for the  *)
(* next report period.  It has been acknowledged, so a table entry without *)
(* coroutine would leave the RIC without the indications it was promised.  *)
RegisteredIsServed == OnlyAllowed => registered = observer

(* No action is reported twice in a round of a conforming RIC: what a      *)
(* deleted or failed subscription left behind never leaks into the next    *)
(* subscription under the same request id.                                 *)
FreshActionList ==
  UniqueRequestIds => \A k \in Keys, a \in Actions :
                         copies[k][a] <= (IF k \in registered THEN 1 ELSE 0)

(* An indication leaves only for a subscription that is registered when    *)
(* the step starts, and within a step it precedes the delete response.     *)
IndicationOnlyIfRegistered ==
  [][\A i \in DOMAIN sent' : sent'[i].type = "indication" =>
        sent'[i].key \in registered /\ i = 1]_vars

(* e2_indication_procedure.h: "it will execute periodically until the E2   *)
(* SUBSCRIPTION DELETE REQUEST is received".  A coroutine that waits for   *)
(* its next period ends only in the step that answers a delete request.    *)
IndicationUntilDelete ==
  [][\A k \in Keys : task[k] = "awaiting" /\ task'[k] # "awaiting" =>
        \E i \in DOMAIN sent' : sent'[i] = DeleteResponse(k)]_vars

=============================================================================
