---------------------------- MODULE E2Connection ----------------------------
(***************************************************************************)
(* The association between the E2 agent and the RIC, from start to stop:   *)
(*   e2_entity              start(), stop(), handle_message()              *)
(*   e2_connection_handler  the Tx and Rx paths and their shutdown         *)
(*   e2_setup_procedure     E2 SETUP as a transaction with a timeout       *)
(*   fifo_async_task_scheduler  main_ctrl_loop, one procedure at a time    *)
(*   sctp_network_client_impl   the socket, its sender and its receiver    *)
(* Four threads take part: the application that calls start and stop, the  *)
(* executor of the agent, the IO broker that reads the socket, and the     *)
(* kernel with the RIC behind it.  The kernel and the RIC are external.    *)
(***************************************************************************)
EXTENDS Naturals, Sequences

CONSTANTS
  QueueSize,     \* capacity of the task queue of the executor
  MaxAnswers,    \* bound: answers the RIC gives to the E2 SETUP REQUEST
  PathFailures   \* TRUE if the kernel may report SCTP_COMM_LOST

ASSUME ConnectionAssumption ==
  /\ QueueSize \in Nat \ {0}
  /\ MaxAnswers \in Nat
  /\ PathFailures \in BOOLEAN

VARIABLES
  app,          \* what the application has called: "created", "started", "stopped"
  fatal,        \* report_fatal_error: start or stop could not be queued
  exec_q,       \* tasks queued in the executor of the agent
  loop,         \* main_ctrl_loop: the running procedure, then the pending ones
  setup,        \* e2_setup_procedure: "idle", "awaiting", "ok", "failed", "aborted"
  removal,      \* handle_tnl_association_removal: "idle", "awaiting", "done"
  connected,    \* connected_flag
  tx,           \* tx_pdu_notifier # nullptr
  rx_disconnected, \* the event rx_path_disconnected is set
  recv_handler, \* recv_handler of the SCTP client # nullptr: the Rx path is up
  closed,       \* shutdown_received, shared by the SCTP client and its sender
  assoc,        \* kernel: "up", "shutting", "closed", "lost"
  events,       \* what the kernel has for the IO broker: data and notifications
  requested,    \* the RIC has received the E2 SETUP REQUEST
  answers       \* answers the RIC has sent

agent == <<loop, setup, removal, connected, tx, rx_disconnected>>
socket == <<recv_handler, closed>>
kernel == <<assoc, events, requested, answers>>
vars == <<app, fatal, exec_q, agent, socket, kernel>>

Answers == {"setup_response", "setup_failure"}
Tasks == {"start", "stop", "loss", "report"} \cup Answers
Notifications == {"shutdown_event", "shutdown_comp", "comm_lost"}

TypeOK ==
  /\ app \in {"created", "started", "stopped"}
  /\ fatal \in BOOLEAN
  /\ exec_q \in Seq(Tasks)
  /\ Len(exec_q) <= QueueSize
  /\ loop \in {<< >>, <<"setup">>, <<"removal">>, <<"setup", "removal">>}
  /\ setup \in {"idle", "awaiting", "ok", "failed", "aborted"}
  /\ removal \in {"idle", "awaiting", "done"}
  /\ connected \in BOOLEAN
  /\ tx \in BOOLEAN
  /\ rx_disconnected \in BOOLEAN
  /\ recv_handler \in BOOLEAN
  /\ closed \in BOOLEAN
  /\ assoc \in {"up", "shutting", "closed", "lost"}
  /\ events \in Seq(Answers \cup Notifications)
  /\ requested \in BOOLEAN
  /\ answers \in 0..MaxAnswers

(* The constructor of e2_entity has called connect_to_ric and goes on to   *)
(* use the notifier it returned, so the association is up.                 *)
Init ==
  /\ app = "created"
  /\ fatal = FALSE
  /\ exec_q = << >>
  /\ loop = << >>
  /\ setup = "idle"
  /\ removal = "idle"
  /\ connected = TRUE
  /\ tx = TRUE
  /\ rx_disconnected = FALSE
  /\ recv_handler = TRUE
  /\ closed = FALSE
  /\ assoc = "up"
  /\ events = << >>
  /\ requested = FALSE
  /\ answers = 0

Room == Len(exec_q) < QueueSize

-----------------------------------------------------------------------------
(* Application thread: e2_entity::start and e2_entity::stop.               *)

(* Mutant of Dispatch: the capacity of the queue is ignored.               *)
DispatchUnchecked(task, next) ==
  /\ app' = next
  /\ exec_q' = Append(exec_q, task)
  /\ UNCHANGED <<fatal, agent, socket, kernel>>

Dispatch(task, next) ==
  /\ app' = next
  /\ IF Room
     THEN exec_q' = Append(exec_q, task) /\ UNCHANGED fatal
     ELSE fatal' = TRUE /\ UNCHANGED exec_q
  /\ UNCHANGED <<agent, socket, kernel>>

CallStart == app = "created" /\ Dispatch("start", "started")
CallStop == app = "started" /\ Dispatch("stop", "stopped")

-----------------------------------------------------------------------------
(* Sender of the SCTP client (sctp_send_notifier).                         *)

(* close(), also run by the destructor: an EOF unless somebody closed it.  *)
CloseSender ==
  /\ closed' = TRUE
  /\ assoc' = IF ~closed /\ assoc = "up" THEN "shutting" ELSE assoc

(* on_new_sdu: nothing is sent on a closed sender; a failed send closes it.*)
OnNewSdu ==
  IF closed
  THEN UNCHANGED <<requested, closed>>
  ELSE /\ requested' = (assoc = "up" \/ requested)
       /\ closed' = (assoc # "up")

(* send_e2_setup_request, through e2_tx_channel: a request is dropped when *)
(* the association is down.                                                *)
SendSetupRequest == IF tx THEN OnNewSdu ELSE UNCHANGED <<requested, closed>>

-----------------------------------------------------------------------------
(* Executor of the agent.                                                  *)

(* Mutant of BeginRemoval: it does not wait for the Rx path.               *)
BeginRemovalNoWait ==
  /\ tx' = FALSE
  /\ IF tx THEN CloseSender ELSE UNCHANGED <<closed, assoc>>
  /\ removal' = "done"
  /\ loop' = << >>

(* handle_tnl_association_removal, up to its first suspension.             *)
BeginRemoval ==
  IF connected
  THEN /\ tx' = FALSE
       /\ CloseSender
       /\ removal' = IF rx_disconnected THEN "done" ELSE "awaiting"
       /\ loop' = IF rx_disconnected THEN << >> ELSE <<"removal">>
  ELSE /\ removal' = "done"
       /\ loop' = << >>
       /\ UNCHANGED <<tx, closed, assoc>>

(* main_ctrl_loop starts the setup procedure: it creates the transaction,  *)
(* sends the request and waits.                                            *)
RunStart ==
  /\ loop' = <<"setup">>
  /\ setup' = "awaiting"
  /\ SendSetupRequest
  /\ UNCHANGED <<removal, connected, tx, rx_disconnected, assoc>>

(* The removal waits in main_ctrl_loop until the setup procedure returned. *)
RunStop ==
  /\ IF loop = << >>
     THEN BeginRemoval
     ELSE loop' = Append(loop, "removal") /\ UNCHANGED <<removal, tx, closed, assoc>>
  /\ UNCHANGED <<setup, connected, rx_disconnected, requested>>

(* Mutant of FinishSetup: main_ctrl_loop does not resume the pending stop. *)
FinishSetupForgetsStop(outcome) ==
  /\ setup' = outcome
  /\ loop' = Tail(loop)
  /\ UNCHANGED <<removal, tx, closed, assoc, connected, rx_disconnected, requested>>

(* The setup transaction got an outcome: the procedure returns, and        *)
(* main_ctrl_loop goes on with what is pending, all in the same step.      *)
FinishSetup(outcome) ==
  /\ setup' = outcome
  /\ IF Len(loop) > 1
     THEN BeginRemoval
     ELSE loop' = << >> /\ UNCHANGED <<removal, tx, closed, assoc>>
  /\ UNCHANGED <<connected, rx_disconnected, requested>>

(* set_transaction_outcome finds the setup transaction: it exists as long  *)
(* as the procedure waits for it.                                          *)
TransactionRunning == setup = "awaiting"

(* handle_successful_outcome, handle_unsuccessful_outcome: an answer whose *)
(* transaction is over resumes nobody.                                     *)
RunAnswer(m) ==
  IF TransactionRunning
  THEN FinishSetup(IF m = "setup_response" THEN "ok" ELSE "failed")
  ELSE UNCHANGED <<agent, closed, assoc, requested>>

(* Mutant of RunLoss: the Tx path is not reset.                            *)
RunLossKeepsTx ==
  /\ connected' = FALSE
  /\ rx_disconnected' = TRUE
  /\ IF removal = "awaiting"
     THEN removal' = "done" /\ loop' = << >>
     ELSE UNCHANGED <<removal, loop>>
  /\ UNCHANGED <<tx, closed, assoc, setup, requested>>

(* handle_connection_loss_impl.  If the Tx path was still up, it reports   *)
(* the loss to e2_entity: see Reported.                                    *)
RunLoss ==
  /\ connected' = FALSE
  /\ tx' = FALSE
  /\ IF tx THEN CloseSender ELSE UNCHANGED <<closed, assoc>>
  /\ rx_disconnected' = TRUE
  /\ IF removal = "awaiting"
     THEN removal' = "done" /\ loop' = << >>
     ELSE UNCHANGED <<removal, loop>>
  /\ UNCHANGED <<setup, requested>>

(* e2_entity::handle_connection_loss dispatches e2_impl's handler, which   *)
(* has an empty body.  The task runs inline, is refused, or takes a place  *)
(* in the queue.                                                           *)
Reported(t) == IF t = "loss" /\ tx THEN {<< >>, <<"report">>} ELSE {<< >>}

RunReport == UNCHANGED <<agent, closed, assoc, requested>>

ExecutorStep ==
  /\ ~fatal
  /\ exec_q # << >>
  /\ LET t == Head(exec_q)
     IN  /\ \E report \in Reported(t) : exec_q' = Tail(exec_q) \o report
         /\ \/ t = "start" /\ RunStart
            \/ t = "stop" /\ RunStop
            \/ t = "loss" /\ RunLoss
            \/ t = "report" /\ RunReport
            \/ t \in Answers /\ RunAnswer(t)
  /\ UNCHANGED <<app, fatal, recv_handler, events, answers>>

(* Mutant of SetupTimeout: the transaction is created without a timeout.   *)
SetupNeverExpires == FALSE

(* The timer of the setup transaction expires on the executor.             *)
SetupTimeout ==
  /\ ~fatal
  /\ TransactionRunning
  /\ FinishSetup("aborted")
  /\ UNCHANGED <<app, fatal, exec_q, recv_handler, events, answers>>

-----------------------------------------------------------------------------
(* IO broker: sctp_network_client_impl::receive.                           *)

(* e2_entity::handle_message: the PDU is queued for the agent, or dropped  *)
(* if the queue is full.                                                   *)
HandleMessage(m) == exec_q' = IF Room THEN Append(exec_q, m) ELSE exec_q

(* e2_connection_handler::handle_connection_loss: the IO thread retries    *)
(* until the loss is queued, that is, its step waits for room.             *)
HandleConnectionLoss == Room /\ exec_q' = Append(exec_q, "loss")

(* handle_data.                                                            *)
ReceiveData ==
  /\ Head(events) \in Answers
  /\ HandleMessage(Head(events))
  /\ UNCHANGED socket

(* Mutant of ReceiveClose: the loss is already reported at the start of    *)
(* the shutdown.                                                           *)
ReceiveCloseReports ==
  /\ Head(events) \in {"shutdown_event", "comm_lost"}
  /\ closed' = TRUE
  /\ HandleConnectionLoss
  /\ UNCHANGED recv_handler

(* handle_connection_close: only the flag is raised.                       *)
ReceiveClose ==
  /\ Head(events) \in {"shutdown_event", "comm_lost"}
  /\ closed' = TRUE
  /\ UNCHANGED <<exec_q, recv_handler>>

(* Mutant of ReceiveShutdownComp: the loss is dropped if the queue is full.*)
ShutdownCompDrops ==
  /\ Head(events) = "shutdown_comp"
  /\ closed' = TRUE
  /\ recv_handler' = FALSE
  /\ exec_q' = IF Room THEN Append(exec_q, "loss") ELSE exec_q

(* handle_sctp_shutdown_comp: the receiver is destroyed, and with it the   *)
(* e2_rx_channel, which reports the loss.  The flag may be raised before   *)
(* there is room for the loss; a sender that runs in between finds the     *)
(* association closed and behaves as if the flag were raised.              *)
ReceiveShutdownComp ==
  /\ Head(events) = "shutdown_comp"
  /\ closed' = TRUE
  /\ recv_handler' = FALSE
  /\ HandleConnectionLoss

IoStep ==
  /\ ~fatal
  /\ recv_handler
  /\ events # << >>
  /\ ReceiveData \/ ReceiveClose \/ ReceiveShutdownComp
  /\ events' = Tail(events)
  /\ UNCHANGED <<app, fatal, agent, assoc, requested, answers>>

-----------------------------------------------------------------------------
(* Kernel and RIC.                                                         *)

RicAnswer(m) ==
  /\ requested
  /\ assoc = "up"
  /\ answers < MaxAnswers
  /\ answers' = answers + 1
  /\ events' = Append(events, m)
  /\ UNCHANGED <<app, fatal, exec_q, agent, socket, assoc, requested>>

RicShutdown ==
  /\ assoc = "up"
  /\ assoc' = "shutting"
  /\ events' = Append(events, "shutdown_event")
  /\ UNCHANGED <<app, fatal, exec_q, agent, socket, requested, answers>>

ShutdownComplete ==
  /\ assoc = "shutting"
  /\ assoc' = "closed"
  /\ events' = Append(events, "shutdown_comp")
  /\ UNCHANGED <<app, fatal, exec_q, agent, socket, requested, answers>>

(* The RIC aborts or cannot be reached any more: SCTP_COMM_LOST is the     *)
(* last notification about the association.                                *)
PathFailure ==
  /\ PathFailures
  /\ assoc \in {"up", "shutting"}
  /\ assoc' = "lost"
  /\ events' = Append(events, "comm_lost")
  /\ UNCHANGED <<app, fatal, exec_q, agent, socket, requested, answers>>

-----------------------------------------------------------------------------
Next ==
  \/ CallStart \/ CallStop
  \/ ExecutorStep \/ SetupTimeout
  \/ IoStep
  \/ \E m \in Answers : RicAnswer(m)
  \/ RicShutdown \/ ShutdownComplete \/ PathFailure

(* The executor and the IO broker serve their queues, timers are ticked    *)
(* and the kernel completes a shutdown it began.                           *)
Fairness ==
  /\ WF_vars(ExecutorStep)
  /\ WF_vars(SetupTimeout)
  /\ WF_vars(IoStep)
  /\ WF_vars(ShutdownComplete)

Spec == Init /\ [][Next]_vars /\ Fairness

-----------------------------------------------------------------------------
(* Properties.                                                             *)

(* handle_connection_loss defers the loss "because we want to handle all   *)
(* the already enqueued E2AP events before the association shutdown": no   *)
(* PDU is ever queued behind the loss, and the loss is queued once.        *)
LossIsLastRxTask ==
  \A i, j \in DOMAIN exec_q : i < j /\ exec_q[i] = "loss" =>
     exec_q[j] \notin Answers \cup {"loss"}

(* When the association removal has completed, both paths are down: the    *)
(* IO broker can deliver no further PDU and the agent can send none.       *)
RemovedIsQuiet ==
  removal = "done" => ~tx /\ ~recv_handler /\ ~connected

(* The connected flag outlives neither path: once the agent has processed  *)
(* the loss the Rx path is gone, and while it is connected and was not     *)
(* stopped the Tx path exists.                                             *)
FlagMatchesPaths ==
  /\ ~connected => ~recv_handler /\ ~tx /\ rx_disconnected
  /\ connected /\ removal = "idle" => tx

(* The setup procedure ends: by an answer or by the transaction timeout,   *)
(* also when the connection was lost or the request was dropped.           *)
SetupResolves == setup = "awaiting" ~> setup # "awaiting" \/ fatal

(* stop() completes, although it queues behind a setup procedure that may  *)
(* still be waiting and races with a shutdown by the RIC; it may fail to   *)
(* after SCTP_COMM_LOST (TxResetShutsRx).                                  *)
StopCompletes ==
  app = "stopped" ~> removal = "done" \/ fatal \/ assoc = "lost"

(* e2_connection_handler.cpp: "Resetting the E2 Tx notifier should trigger *)
(* the shutdown of the Rx path in the E2 client."                          *)
TxResetShutsRx == ~tx ~> ~recv_handler \/ fatal

(* A shutdown of the association is noticed by the agent.                  *)
ShutdownIsNoticed == assoc = "closed" ~> ~connected \/ fatal
=============================================================================
