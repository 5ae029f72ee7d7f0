------------------------- MODULE E2ConnectionProofs -------------------------
(***************************************************************************)
(* Proofs about E2Connection, for any queue size, any number of answers of *)
(* the RIC, and with or without path failures.                             *)
(***************************************************************************)
EXTENDS E2Connection, SequenceTheorems, TLAPS

(* The two paths, the flag and the event agree, and the loss is in the     *)
(* queue only between the end of the Rx path and the end of the flag.      *)
PathsInv ==
  /\ connected <=> ~rx_disconnected
  /\ tx => connected
  /\ recv_handler => connected
  /\ \A i \in DOMAIN exec_q : exec_q[i] = "loss" => ~recv_handler /\ connected
  /\ removal = "awaiting" => ~tx
  /\ removal = "done" => ~connected
  /\ connected /\ removal = "idle" => tx

(* main_ctrl_loop and the state of the two procedures agree.               *)
LoopInv ==
  /\ setup = "awaiting" <=> loop \in {<<"setup">>, <<"setup", "removal">>}
  /\ removal = "awaiting" <=> loop = <<"removal">>
  /\ loop = <<"setup", "removal">> => removal = "idle"
  /\ app = "created" => setup = "idle"
  /\ app # "stopped" => removal = "idle" /\ loop # <<"setup", "removal">>

(* As long as start or stop is queued, its procedure is still to begin.    *)
CallsInv ==
  \A i \in DOMAIN exec_q :
     /\ exec_q[i] = "start" => setup = "idle" /\ removal = "idle" /\ app # "created"
     /\ exec_q[i] = "stop" =>
           removal = "idle" /\ app = "stopped" /\ loop # <<"setup", "removal">>

(* start and stop are queued once each, in this order.                     *)
OrderInv ==
  \A i, j \in DOMAIN exec_q :
     /\ exec_q[i] = "start" /\ exec_q[j] = "start" => i = j
     /\ exec_q[i] = "stop" /\ exec_q[j] = "stop" => i = j
     /\ exec_q[i] = "stop" /\ exec_q[j] = "start" => j < i

(* TypeOK in three parts, for the provers: the queue of the executor, the   *)
(* kernel's queue, and the scalars.                                         *)
QueueType == exec_q \in Seq(Tasks) /\ Len(exec_q) <= QueueSize

EventsType ==
  /\ events \in Seq(Answers \cup Notifications)
  /\ answers \in 0..MaxAnswers

ScalarType ==
  /\ app \in {"created", "started", "stopped"}
  /\ fatal \in BOOLEAN
  /\ loop \in {<< >>, <<"setup">>, <<"removal">>, <<"setup", "removal">>}
  /\ setup \in {"idle", "awaiting", "ok", "failed", "aborted"}
  /\ removal \in {"idle", "awaiting", "done"}
  /\ connected \in BOOLEAN
  /\ tx \in BOOLEAN
  /\ rx_disconnected \in BOOLEAN
  /\ recv_handler \in BOOLEAN
  /\ closed \in BOOLEAN
  /\ assoc \in {"up", "shutting", "closed", "lost"}
  /\ requested \in BOOLEAN

IInv == TypeOK /\ PathsInv /\ LoopInv /\ CallsInv /\ OrderInv /\ LossIsLastRxTask

-----------------------------------------------------------------------------
(* TypeOK is the conjunction of its parts.                                 *)
LEMMA TypeParts == TypeOK <=> QueueType /\ EventsType /\ ScalarType
BY DEF TypeOK, QueueType, EventsType, ScalarType

(* What is at which place of a queue after an append.                      *)
LEMMA AppendLemma ==
  ASSUME NEW q \in Seq(Tasks), NEW t \in Tasks
  PROVE  /\ Append(q, t) \in Seq(Tasks)
         /\ Len(Append(q, t)) = Len(q) + 1
         /\ \A i \in DOMAIN Append(q, t) :
               \/ i \in DOMAIN q /\ Append(q, t)[i] = q[i]
               \/ i = Len(q) + 1 /\ Append(q, t)[i] = t
         /\ \A i \in DOMAIN q : i \in Nat /\ i < Len(q) + 1
         /\ Len(q) \in Nat
OBVIOUS

(* A task offered to the executor is appended while there is room, or the  *)
(* queue stays as it is.                                                   *)
LEMMA OfferLemma ==
  ASSUME QueueType, NEW t \in Tasks,
         (Room /\ exec_q' = Append(exec_q, t)) \/ exec_q' = exec_q
  PROVE  /\ QueueType'
         /\ \A i \in DOMAIN exec_q' :
               \/ i \in DOMAIN exec_q /\ exec_q'[i] = exec_q[i]
               \/ i = Len(exec_q) + 1 /\ exec_q'[i] = t
         /\ \A i \in DOMAIN exec_q : i \in Nat /\ i < Len(exec_q) + 1
         /\ Len(exec_q) \in Nat
<1>1. exec_q \in Seq(Tasks) /\ Len(exec_q) <= QueueSize /\ QueueSize \in Nat
  BY ConnectionAssumption DEF QueueType
<1>2. CASE Room /\ exec_q' = Append(exec_q, t)
  <2>1. Len(exec_q) < QueueSize
    BY <1>2 DEF Room
  <2>2. /\ exec_q' \in Seq(Tasks)
        /\ Len(exec_q') = Len(exec_q) + 1
    BY <1>1, <1>2
  <2>3. QueueType'
    BY <1>1, <2>1, <2>2 DEF QueueType
  <2>4. QED
    BY <1>1, <1>2, <2>3, AppendLemma
<1>3. CASE exec_q' = exec_q
  BY <1>1, <1>3 DEF QueueType
<1>4. QED
  BY <1>2, <1>3

(* What is at which place after the executor took a task: the rest moves   *)
(* up by one, and a report of the loss may follow it.                      *)
LEMMA PopLemma ==
  ASSUME NEW q \in Seq(Tasks), q # << >>, NEW rep \in {<< >>, <<"report">>}
  PROVE  LET r == Tail(q) \o rep
         IN  /\ r \in Seq(Tasks)
             /\ Len(r) <= Len(q)
             /\ \A i \in DOMAIN r : i \in Nat
             /\ \A i \in DOMAIN r :
                   \/ i + 1 \in DOMAIN q /\ r[i] = q[i + 1]
                   \/ r[i] = "report"
             /\ 1 \in DOMAIN q /\ Head(q) = q[1]
             /\ \A i \in DOMAIN q : i \in Nat /\ i > 0
<1>1. "report" \in Tasks
  BY DEF Tasks
<1>2. /\ Tail(q) \in Seq(Tasks) /\ Len(Tail(q)) = Len(q) - 1
      /\ Len(q) \in Nat /\ Len(q) > 0
      /\ \A i \in 1..(Len(q) - 1) : Tail(q)[i] = q[i + 1]
  OBVIOUS
<1>3. CASE rep = << >>
  <2>1. Tail(q) \o rep = Tail(q)
    BY <1>2, <1>3
  <2>2. DOMAIN Tail(q) = 1..(Len(q) - 1) /\ DOMAIN q = 1..Len(q) /\ Head(q) = q[1]
    BY <1>2
  <2>3. \A i \in DOMAIN Tail(q) : i \in Nat /\ i + 1 \in DOMAIN q /\ Tail(q)[i] = q[i + 1]
    BY <1>2, <2>2
  <2>4. 1 \in DOMAIN q /\ \A i \in DOMAIN q : i \in Nat /\ i > 0
    BY <1>2, <2>2
  <2>5. Len(Tail(q)) <= Len(q)
    BY <1>2
  <2>6. QED
    BY <2>1, <2>2, <2>3, <2>4, <2>5, <1>2, Zenon
<1>4. CASE rep = <<"report">>
  <2>1. Tail(q) \o rep = Append(Tail(q), "report")
    BY <1>1, <1>2, <1>4
  <2>2. /\ Append(Tail(q), "report") \in Seq(Tasks)
        /\ Len(Append(Tail(q), "report")) = Len(q)
        /\ \A i \in DOMAIN Append(Tail(q), "report") :
              i \in 1..(Len(q) - 1) \/ Append(Tail(q), "report")[i] = "report"
        /\ \A i \in 1..(Len(q) - 1) : Append(Tail(q), "report")[i] = Tail(q)[i]
    BY <1>1, <1>2
  <2>3. QED
    BY <2>1, <2>2, <1>2
<1>5. QED
  BY <1>3, <1>4

(* The contents of main_ctrl_loop are told apart by length and first entry.*)
LEMMA LoopLemma ==
  /\ << >> # <<"setup">> /\ << >> # <<"removal">> /\ << >> # <<"setup", "removal">>
  /\ <<"setup">> # <<"removal">> /\ <<"setup">> # <<"setup", "removal">>
  /\ <<"removal">> # <<"setup", "removal">>
  /\ Len(<< >>) = 0 /\ Len(<<"setup">>) = 1 /\ Len(<<"removal">>) = 1
  /\ Len(<<"setup", "removal">>) = 2
  /\ Append(<<"setup">>, "removal") = <<"setup", "removal">>
<1>1. << >> # <<"setup">> /\ << >> # <<"removal">> /\ << >> # <<"setup", "removal">>
  OBVIOUS
<1>2. Len(<< >>) = 0 /\ Len(<<"setup">>) = 1 /\ Len(<<"removal">>) = 1
  OBVIOUS
<1>3. Len(<<"setup", "removal">>) = 2
  OBVIOUS
<1>4. <<"setup">> # <<"removal">>
  OBVIOUS
<1>5. Append(<<"setup">>, "removal") = <<"setup", "removal">>
  <2> DEFINE a == Append(<<"setup">>, "removal")
             b == <<"setup", "removal">>
             S == {"setup", "removal"}
  <2>1. a \in Seq(S) /\ Len(a) = 2 /\ a[1] = "setup" /\ a[2] = "removal"
    <3>1. <<"setup">> \in Seq(S) /\ "removal" \in S /\ Len(<<"setup">>) = 1
      OBVIOUS
    <3>2. <<"setup">>[1] = "setup"
      OBVIOUS
    <3>3. QED
      BY <3>1, <3>2
  <2>2. b \in Seq(S) /\ Len(b) = 2 /\ b[1] = "setup" /\ b[2] = "removal"
    <3>1. b \in Seq(S)
      OBVIOUS
    <3>2. Len(b) = 2
      OBVIOUS
    <3>3. b[1] = "setup" /\ b[2] = "removal"
      OBVIOUS
    <3>4. QED
      BY <3>1, <3>2, <3>3
  <2>3. \A i \in 1..Len(a) : a[i] = b[i]
    BY <2>1, <2>2
  <2>4. QED
    BY <2>1, <2>2, <2>3, SeqEqual
<1>6. QED
  BY <1>1, <1>2, <1>3, <1>4, <1>5

(* The initial state satisfies the invariant.                              *)
LEMMA InitIInv == Init => IInv
<1> SUFFICES ASSUME Init PROVE IInv
  OBVIOUS
<1>1. TypeOK
  <2>1. << >> \in Seq(Tasks) /\ << >> \in Seq(Answers \cup Notifications) /\ Len(<< >>) = 0
    OBVIOUS
  <2>2. QueueType
    BY <2>1, ConnectionAssumption DEF Init, QueueType
  <2>3. EventsType
    BY <2>1, ConnectionAssumption DEF Init, EventsType
  <2>4. ScalarType
    BY Zenon DEF Init, ScalarType
  <2>5. QED
    BY <2>2, <2>3, <2>4, TypeParts
<1>2. PathsInv /\ CallsInv /\ OrderInv /\ LossIsLastRxTask
  BY DEF Init, PathsInv, CallsInv, OrderInv, LossIsLastRxTask
<1>3. LoopInv
  BY LoopLemma DEF Init, LoopInv
<1>4. QED
  BY <1>1, <1>2, <1>3 DEF IInv

(* start() and stop() preserve it.                                         *)
LEMMA CallIInv == ASSUME IInv, CallStart \/ CallStop PROVE IInv'
<1> USE DEF Dispatch, agent, socket, kernel
<1>1. /\ loop' = loop /\ setup' = setup /\ removal' = removal
      /\ connected' = connected /\ tx' = tx /\ rx_disconnected' = rx_disconnected
      /\ recv_handler' = recv_handler /\ closed' = closed
      /\ assoc' = assoc /\ events' = events /\ requested' = requested /\ answers' = answers
  BY DEF CallStart, CallStop
<1>2. PICK t \in {"start", "stop"} :
         /\ t = "start" => app = "created" /\ app' = "started"
         /\ t = "stop" => app = "started" /\ app' = "stopped"
         /\ \/ Room /\ exec_q' = Append(exec_q, t) /\ fatal' = fatal
            \/ exec_q' = exec_q /\ fatal' = TRUE
  BY DEF CallStart, CallStop
<1>3. t \in Tasks /\ t # "loss" /\ t \notin Answers
  BY DEF Tasks, Answers
<1>4. /\ QueueType'
      /\ \A i \in DOMAIN exec_q' :
            \/ i \in DOMAIN exec_q /\ exec_q'[i] = exec_q[i]
            \/ i = Len(exec_q) + 1 /\ exec_q'[i] = t
      /\ \A i \in DOMAIN exec_q : i \in Nat /\ i < Len(exec_q) + 1
      /\ Len(exec_q) \in Nat
  <2>1. QueueType
    BY TypeParts DEF IInv
  <2>2. QED
    BY <1>2, <1>3, <2>1, OfferLemma
<1>5. TypeOK'
  <2>1. EventsType' /\ ScalarType'
    <3>1. EventsType /\ ScalarType
      BY TypeParts DEF IInv
    <3>2. EventsType'
      BY <1>1, <3>1 DEF EventsType
    <3>3. app' \in {"created", "started", "stopped"} /\ fatal' \in BOOLEAN
      BY <1>2, <3>1 DEF ScalarType
    <3>4. ScalarType'
      BY <1>1, <3>1, <3>3 DEF ScalarType
    <3>5. QED
      BY <3>2, <3>4
  <2>2. QED
    BY <1>4, <2>1 DEF TypeOK, QueueType, EventsType, ScalarType
<1>6. PathsInv'
  BY <1>1, <1>2, <1>3, <1>4 DEF IInv, PathsInv
<1>7. LoopInv'
  BY <1>1, <1>2 DEF IInv, LoopInv
<1>8. CallsInv'
  BY <1>1, <1>2, <1>3, <1>4, LoopLemma DEF IInv, CallsInv, LoopInv
<1>9. OrderInv'
  BY <1>2, <1>4 DEF IInv, OrderInv, CallsInv
<1>10. LossIsLastRxTask'
  BY <1>3, <1>4 DEF IInv, LossIsLastRxTask
<1>11. QED
  BY <1>5, <1>6, <1>7, <1>8, <1>9, <1>10 DEF IInv

(* The kernel and the RIC preserve it.                                     *)
LEMMA KernelIInv ==
  ASSUME IInv, (\E m \in Answers : RicAnswer(m)) \/ RicShutdown \/ ShutdownComplete \/ PathFailure
  PROVE  IInv'
<1> USE DEF agent, socket
<1>1. UNCHANGED <<app, fatal, exec_q, loop, setup, removal, connected, tx, rx_disconnected,
                  recv_handler, closed, requested>>
  BY DEF RicAnswer, RicShutdown, ShutdownComplete, PathFailure
<1>2. TypeOK'
  <2> USE ConnectionAssumption DEF IInv, TypeOK
  <2>1. \A e \in Answers \cup Notifications :
           Append(events, e) \in Seq(Answers \cup Notifications)
    OBVIOUS
  <2>2. ASSUME NEW m \in Answers, RicAnswer(m) PROVE TypeOK'
    BY <1>1, <2>1, <2>2 DEF RicAnswer
  <2>3. CASE RicShutdown
    BY <1>1, <2>1, <2>3 DEF RicShutdown, Notifications
  <2>4. CASE ShutdownComplete
    BY <1>1, <2>1, <2>4 DEF ShutdownComplete, Notifications
  <2>5. CASE PathFailure
    BY <1>1, <2>1, <2>5 DEF PathFailure, Notifications
  <2>6. QED
    BY <2>2, <2>3, <2>4, <2>5
<1>3. PathsInv' /\ LoopInv' /\ CallsInv' /\ OrderInv' /\ LossIsLastRxTask'
  BY <1>1 DEF IInv, PathsInv, LoopInv, CallsInv, OrderInv, LossIsLastRxTask
<1>4. QED
  BY <1>2, <1>3 DEF IInv

(* The IO broker preserves it.                                             *)
LEMMA IoIInv == ASSUME IInv, IoStep PROVE IInv'
<1> USE DEF agent, socket
<1>1. /\ app' = app /\ fatal' = fatal
      /\ loop' = loop /\ setup' = setup /\ removal' = removal
      /\ connected' = connected /\ tx' = tx /\ rx_disconnected' = rx_disconnected
      /\ assoc' = assoc /\ requested' = requested /\ answers' = answers
  BY DEF IoStep
<1>2. /\ recv_handler /\ events # << >> /\ events' = Tail(events)
      /\ \A i \in DOMAIN exec_q : exec_q[i] # "loss"
  BY DEF IoStep, IInv, PathsInv
<1>3. PICK t \in Tasks :
         /\ \/ Room /\ exec_q' = Append(exec_q, t)
            \/ exec_q' = exec_q
         /\ closed' \in BOOLEAN
         /\ \/ t \in Answers /\ recv_handler'
            \/ t = "loss" /\ ~recv_handler' /\ recv_handler' \in BOOLEAN
  <2>1. CASE ReceiveData
    BY <2>1, <1>2 DEF ReceiveData, HandleMessage, Tasks, Answers, IInv, TypeOK
  <2>2. CASE ReceiveClose
    <3>1. "setup_response" \in Answers \cap Tasks
      BY DEF Tasks, Answers
    <3>2. QED
      BY <2>2, <3>1, <1>2 DEF ReceiveClose
  <2>3. CASE ReceiveShutdownComp
    <3>1. "loss" \in Tasks
      BY DEF Tasks
    <3>2. QED
      BY <2>3, <3>1 DEF ReceiveShutdownComp, HandleConnectionLoss
  <2>4. QED
    BY <2>1, <2>2, <2>3 DEF IoStep
<1>4. /\ QueueType'
      /\ \A i \in DOMAIN exec_q' :
            \/ i \in DOMAIN exec_q /\ exec_q'[i] = exec_q[i]
            \/ i = Len(exec_q) + 1 /\ exec_q'[i] = t
      /\ \A i \in DOMAIN exec_q : i \in Nat /\ i < Len(exec_q) + 1
      /\ Len(exec_q) \in Nat
  <2>1. QueueType
    BY TypeParts DEF IInv
  <2>2. QED
    BY <1>3, <2>1, OfferLemma
<1>5. "loss" \notin Answers /\ "start" \notin Answers /\ "stop" \notin Answers
  BY DEF Answers
<1>6. TypeOK'
  <2>1. EventsType /\ ScalarType
    BY TypeParts DEF IInv
  <2>2. recv_handler' \in BOOLEAN
    BY <1>2, <1>3, <2>1 DEF IoStep, ReceiveData, ReceiveClose, ReceiveShutdownComp, ScalarType
  <2>3. EventsType'
    BY <1>1, <1>2, <2>1 DEF EventsType
  <2>4. ScalarType'
    BY <1>1, <1>3, <2>1, <2>2 DEF ScalarType
  <2>5. QED
    BY <1>4, <2>3, <2>4 DEF TypeOK, QueueType, EventsType, ScalarType
<1>7. PathsInv'
  BY <1>1, <1>2, <1>3, <1>4, <1>5 DEF IInv, PathsInv
<1>8. LoopInv'
  BY <1>1 DEF IInv, LoopInv
<1>9. CallsInv'
  BY <1>1, <1>3, <1>4, <1>5 DEF IInv, CallsInv
<1>10. OrderInv'
  BY <1>3, <1>4, <1>5 DEF IInv, OrderInv
<1>11. LossIsLastRxTask'
  BY <1>2, <1>3, <1>4, <1>5 DEF LossIsLastRxTask
<1>12. QED
  BY <1>6, <1>7, <1>8, <1>9, <1>10, <1>11 DEF IInv

(* The first suspension of the removal: it waits for the Rx path, or is    *)
(* done when the agent is not connected.                                   *)
LEMMA BeginRemovalLemma ==
  ASSUME PathsInv, ScalarType, BeginRemoval
  PROVE  /\ \/ connected /\ tx' = FALSE /\ removal' = "awaiting" /\ loop' = <<"removal">>
            \/ ~connected /\ tx' = tx /\ removal' = "done" /\ loop' = << >>
         /\ closed' \in BOOLEAN
         /\ assoc' \in {"up", "shutting", "closed", "lost"}
<1>1. closed' \in BOOLEAN /\ assoc' \in {"up", "shutting", "closed", "lost"}
  BY DEF ScalarType, BeginRemoval, CloseSender
<1>2. CASE connected
  BY <1>1, <1>2 DEF PathsInv, BeginRemoval
<1>3. CASE ~connected
  BY <1>1, <1>3 DEF BeginRemoval
<1>4. QED
  BY <1>2, <1>3

(* No task is new in the queue but a report of the loss.                   *)
Kept == \A i \in DOMAIN exec_q' :
           exec_q'[i] = "report" \/ \E j \in DOMAIN exec_q : exec_q'[i] = exec_q[j]

(* The setup procedure returns, by an answer or by its timeout.            *)
LEMMA FinishSetupLemma ==
  ASSUME IInv, Kept, setup = "awaiting", NEW o \in {"ok", "failed", "aborted"},
         FinishSetup(o), app' = app, fatal' = fatal, recv_handler' = recv_handler
  PROVE  ScalarType' /\ PathsInv' /\ LoopInv' /\ CallsInv'
<1>1. ScalarType /\ PathsInv /\ LoopInv /\ CallsInv
  BY TypeParts DEF IInv
<1>2. /\ setup' = o /\ connected' = connected /\ rx_disconnected' = rx_disconnected
      /\ requested' = requested /\ o # "awaiting" /\ o # "idle"
  BY DEF FinishSetup
<1>3. loop \in {<<"setup">>, <<"setup", "removal">>}
  BY <1>1 DEF LoopInv
<1>4. \A i \in DOMAIN exec_q : exec_q[i] # "start"
  BY <1>1 DEF CallsInv
<1>5. CASE loop = <<"setup", "removal">>
  <2>1. removal = "idle" /\ app = "stopped" /\ \A i \in DOMAIN exec_q : exec_q[i] # "stop"
    BY <1>1, <1>5 DEF LoopInv, CallsInv, ScalarType
  <2>2. BeginRemoval
    BY <1>5, LoopLemma DEF FinishSetup
  <2>3. /\ \/ connected /\ tx' = FALSE /\ removal' = "awaiting" /\ loop' = <<"removal">>
           \/ ~connected /\ tx' = tx /\ removal' = "done" /\ loop' = << >>
        /\ closed' \in BOOLEAN
        /\ assoc' \in {"up", "shutting", "closed", "lost"}
    BY <1>1, <2>2, BeginRemovalLemma
  <2>4. ScalarType'
    BY <1>1, <1>2, <2>3 DEF ScalarType
  <2>5. PathsInv'
    BY <1>1, <1>2, <2>3 DEF PathsInv, Kept
  <2>6. LoopInv'
    BY <1>1, <1>2, <2>1, <2>3, LoopLemma DEF LoopInv
  <2>7. CallsInv'
    BY <1>4, <2>1 DEF CallsInv, Kept
  <2>8. QED
    BY <2>4, <2>5, <2>6, <2>7
<1>6. CASE loop = <<"setup">>
  <2>1. /\ loop' = << >> /\ removal' = removal /\ tx' = tx /\ closed' = closed /\ assoc' = assoc
    BY <1>6, LoopLemma DEF FinishSetup
  <2>2. ScalarType'
    BY <1>1, <1>2, <2>1 DEF ScalarType
  <2>3. PathsInv'
    BY <1>1, <1>2, <2>1 DEF PathsInv, Kept
  <2>4. removal # "awaiting"
    BY <1>1, <1>6, LoopLemma DEF LoopInv
  <2>5. LoopInv'
    BY <1>1, <1>2, <2>1, <2>4, LoopLemma DEF LoopInv
  <2>6. CallsInv'
    BY <1>1, <1>4, <2>1, LoopLemma DEF CallsInv, Kept
  <2>7. QED
    BY <2>2, <2>3, <2>5, <2>6
<1>7. QED
  BY <1>3, <1>5, <1>6

(* The timeout of the setup transaction preserves the invariant.           *)
LEMMA TimeoutIInv == ASSUME IInv, SetupTimeout PROVE IInv'
<1>1. /\ setup = "awaiting" /\ FinishSetup("aborted")
      /\ app' = app /\ fatal' = fatal /\ exec_q' = exec_q /\ recv_handler' = recv_handler
      /\ events' = events /\ answers' = answers
  BY DEF SetupTimeout, TransactionRunning
<1>2. Kept
  BY <1>1 DEF Kept
<1>3. ScalarType' /\ PathsInv' /\ LoopInv' /\ CallsInv'
  BY <1>1, <1>2, FinishSetupLemma
<1>4. QueueType' /\ EventsType'
  BY <1>1, TypeParts DEF IInv, QueueType, EventsType
<1>5. OrderInv' /\ LossIsLastRxTask'
  BY <1>1 DEF IInv, OrderInv, LossIsLastRxTask
<1>6. TypeOK'
  BY <1>3, <1>4 DEF TypeOK, QueueType, EventsType, ScalarType
<1>7. QED
  BY <1>3, <1>5, <1>6 DEF IInv

(* A step of the executor preserves the invariant: one case per task.      *)
LEMMA ExecutorIInv == ASSUME IInv, ExecutorStep PROVE IInv'
<1> DEFINE t == Head(exec_q)
<1>1. QueueType /\ EventsType /\ ScalarType
  BY TypeParts DEF IInv
<1>2. PICK rep \in {<< >>, <<"report">>} : exec_q' = Tail(exec_q) \o rep
  BY DEF ExecutorStep, Reported
<1>3. /\ exec_q' \in Seq(Tasks)
      /\ Len(exec_q') <= Len(exec_q)
      /\ \A i \in DOMAIN exec_q' : i \in Nat
      /\ \A i \in DOMAIN exec_q' :
            \/ i + 1 \in DOMAIN exec_q /\ exec_q'[i] = exec_q[i + 1]
            \/ exec_q'[i] = "report"
      /\ 1 \in DOMAIN exec_q /\ t = exec_q[1]
      /\ \A i \in DOMAIN exec_q : i \in Nat /\ i > 0
  <2>1. exec_q \in Seq(Tasks) /\ exec_q # << >>
    BY <1>1 DEF QueueType, ExecutorStep
  <2>2. QED
    BY <1>2, <2>1, PopLemma
<1>4. QueueType'
  <2>1. Len(exec_q) \in Nat /\ Len(exec_q') \in Nat /\ QueueSize \in Nat
    BY <1>1, <1>3, ConnectionAssumption DEF QueueType
  <2>2. QED
    BY <1>1, <1>3, <2>1 DEF QueueType
<1>5. Kept
  BY <1>3 DEF Kept
<1>6. "report" \notin Answers /\ "loss" \notin Answers
  BY DEF Answers
<1>7. OrderInv'
  BY <1>3 DEF IInv, OrderInv
<1>8. LossIsLastRxTask'
  BY <1>3, <1>6 DEF IInv, LossIsLastRxTask
<1>9. /\ app' = app /\ fatal' = fatal /\ recv_handler' = recv_handler
      /\ events' = events /\ answers' = answers
  BY DEF ExecutorStep
<1>10. EventsType'
  BY <1>1, <1>9 DEF EventsType
<1>11. ScalarType' /\ PathsInv' /\ LoopInv' /\ CallsInv'
  <2>1. PathsInv /\ LoopInv /\ CallsInv /\ OrderInv /\ LossIsLastRxTask
    BY DEF IInv
  <2>2. CASE t = "start" /\ RunStart
    <3>1. /\ loop' = <<"setup">> /\ setup' = "awaiting" /\ removal' = removal
          /\ connected' = connected /\ tx' = tx /\ rx_disconnected' = rx_disconnected
          /\ assoc' = assoc
      BY <2>2 DEF RunStart
    <3>2. requested' \in BOOLEAN /\ closed' \in BOOLEAN
      BY <1>1, <2>2 DEF ScalarType, RunStart, SendSetupRequest, OnNewSdu
    <3>3. /\ removal = "idle" /\ app # "created"
          /\ \A i \in DOMAIN exec_q' : exec_q'[i] # "start"
      BY <1>3, <2>1, <2>2 DEF CallsInv, OrderInv
    <3>4. ScalarType'
      BY <1>1, <1>9, <3>1, <3>2 DEF ScalarType
    <3>5. PathsInv'
      BY <1>5, <1>9, <2>1, <3>1 DEF PathsInv, Kept
    <3>6. LoopInv'
      BY <1>9, <3>1, <3>3, LoopLemma DEF LoopInv
    <3>7. CallsInv'
      BY <1>5, <1>9, <2>1, <3>1, <3>3, LoopLemma DEF CallsInv, Kept
    <3>8. QED
      BY <3>4, <3>5, <3>6, <3>7
  <2>3. CASE t = "stop" /\ RunStop
    <3>1. /\ setup' = setup /\ connected' = connected
          /\ rx_disconnected' = rx_disconnected /\ requested' = requested
      BY <2>3 DEF RunStop
    <3>2. /\ removal = "idle" /\ app = "stopped" /\ loop # <<"setup", "removal">>
          /\ \A i \in DOMAIN exec_q' : exec_q'[i] # "start" /\ exec_q'[i] # "stop"
      BY <1>3, <2>1, <2>3 DEF CallsInv, OrderInv
    <3>3. CallsInv'
      BY <3>2 DEF CallsInv
    <3>4. CASE loop = << >>
      <4>1. /\ \/ connected /\ tx' = FALSE /\ removal' = "awaiting" /\ loop' = <<"removal">>
               \/ ~connected /\ tx' = tx /\ removal' = "done" /\ loop' = << >>
            /\ closed' \in BOOLEAN
            /\ assoc' \in {"up", "shutting", "closed", "lost"}
        BY <1>1, <2>1, <2>3, <3>4, BeginRemovalLemma DEF RunStop
      <4>2. ScalarType'
        BY <1>1, <1>9, <3>1, <4>1 DEF ScalarType
      <4>3. PathsInv'
        BY <1>5, <1>9, <2>1, <3>1, <4>1 DEF PathsInv, Kept
      <4>4. LoopInv'
        BY <1>9, <2>1, <3>1, <3>2, <3>4, <4>1, LoopLemma DEF LoopInv
      <4>5. QED
        BY <3>3, <4>2, <4>3, <4>4
    <3>5. CASE loop # << >>
      <4>1. loop = <<"setup">>
        BY <1>1, <2>1, <3>2, <3>5 DEF ScalarType, LoopInv
      <4>2. /\ loop' = <<"setup", "removal">> /\ removal' = removal /\ tx' = tx
            /\ closed' = closed /\ assoc' = assoc
        BY <2>3, <3>5, <4>1, LoopLemma DEF RunStop
      <4>3. ScalarType'
        BY <1>1, <1>9, <3>1, <4>2 DEF ScalarType
      <4>4. PathsInv'
        BY <1>5, <1>9, <2>1, <3>1, <4>2 DEF PathsInv, Kept
      <4>5. LoopInv'
        BY <1>9, <2>1, <3>1, <3>2, <4>1, <4>2, LoopLemma DEF LoopInv
      <4>6. QED
        BY <3>3, <4>3, <4>4, <4>5
    <3>6. QED
      BY <3>4, <3>5
  <2>4. CASE t = "loss" /\ RunLoss
    <3>1. /\ connected' = FALSE /\ tx' = FALSE /\ rx_disconnected' = TRUE
          /\ setup' = setup /\ requested' = requested
          /\ \/ removal = "awaiting" /\ removal' = "done" /\ loop' = << >>
             \/ removal # "awaiting" /\ removal' = removal /\ loop' = loop
      BY <2>4 DEF RunLoss
    <3>2. closed' \in BOOLEAN /\ assoc' \in {"up", "shutting", "closed", "lost"}
      BY <1>1, <2>4 DEF ScalarType, RunLoss, CloseSender
    <3>3. ~recv_handler /\ \A i \in DOMAIN exec_q' : exec_q'[i] # "loss"
      BY <1>3, <2>1, <2>4 DEF PathsInv, LossIsLastRxTask
    <3>4. ScalarType'
      BY <1>1, <1>9, <3>1, <3>2 DEF ScalarType
    <3>5. PathsInv'
      BY <1>9, <3>1, <3>3 DEF PathsInv
    <3>6. LoopInv'
      BY <1>1, <1>9, <2>1, <3>1, LoopLemma DEF ScalarType, LoopInv
    <3>7. CallsInv'
      BY <1>5, <1>9, <2>1, <3>1 DEF CallsInv, Kept
    <3>8. QED
      BY <3>4, <3>5, <3>6, <3>7
  <2>5. CASE t \in Answers /\ setup = "awaiting" /\ RunAnswer(t)
    <3>1. PICK o \in {"ok", "failed"} : FinishSetup(o)
      BY <2>5 DEF RunAnswer, TransactionRunning
    <3>2. QED
      BY <1>5, <1>9, <2>5, <3>1, FinishSetupLemma
  <2>6. CASE UNCHANGED <<agent, closed, assoc, requested>>
    <3>1. /\ loop' = loop /\ setup' = setup /\ removal' = removal /\ connected' = connected
          /\ tx' = tx /\ rx_disconnected' = rx_disconnected
          /\ closed' = closed /\ assoc' = assoc /\ requested' = requested
      BY <2>6 DEF agent
    <3>2. ScalarType'
      BY <1>1, <1>9, <3>1 DEF ScalarType
    <3>3. PathsInv' /\ CallsInv'
      BY <1>5, <1>9, <2>1, <3>1 DEF PathsInv, CallsInv, Kept
    <3>4. LoopInv'
      BY <1>9, <2>1, <3>1 DEF LoopInv
    <3>5. QED
      BY <3>2, <3>3, <3>4
  <2>7. QED
    BY <2>2, <2>3, <2>4, <2>5, <2>6 DEF ExecutorStep, RunAnswer, RunReport, TransactionRunning
<1>12. TypeOK'
  BY <1>4, <1>10, <1>11 DEF TypeOK, QueueType, EventsType, ScalarType
<1>13. QED
  BY <1>7, <1>8, <1>11, <1>12 DEF IInv

(* The invariant is inductive.                                             *)
LEMMA StepIInv == IInv /\ [Next]_vars => IInv'
<1>1. ASSUME IInv, Next PROVE IInv'
  BY <1>1, CallIInv, ExecutorIInv, TimeoutIInv, IoIInv, KernelIInv DEF Next
<1>2. ASSUME IInv, UNCHANGED vars PROVE IInv'
  <2>1. /\ app' = app /\ fatal' = fatal /\ exec_q' = exec_q /\ loop' = loop /\ setup' = setup
        /\ removal' = removal /\ connected' = connected /\ tx' = tx
        /\ rx_disconnected' = rx_disconnected /\ recv_handler' = recv_handler
        /\ closed' = closed /\ assoc' = assoc /\ events' = events
        /\ requested' = requested /\ answers' = answers
    BY <1>2 DEF vars, agent, socket, kernel
  <2>2. TypeOK'
    BY <1>2, <2>1 DEF IInv, TypeOK
  <2>3. PathsInv' /\ LoopInv' /\ CallsInv' /\ OrderInv' /\ LossIsLastRxTask'
    BY <1>2, <2>1 DEF IInv, PathsInv, LoopInv, CallsInv, OrderInv, LossIsLastRxTask
  <2>4. QED
    BY <2>2, <2>3 DEF IInv
<1>3. QED
  BY <1>1, <1>2

(* Every reachable state satisfies it.                                     *)
LEMMA SpecIInv == Spec => []IInv
BY InitIInv, StepIInv, PTL DEF Spec

-----------------------------------------------------------------------------
(* TypeOK holds: in particular the task queue of the executor never holds  *)
(* more than its capacity, and main_ctrl_loop holds at most a setup and    *)
(* the removal behind it.                                                  *)
THEOREM TypeCorrect == Spec => []TypeOK
<1>1. IInv => TypeOK
  BY DEF IInv
<1>2. QED
  BY <1>1, SpecIInv, PTL

(* handle_connection_loss: no PDU is queued behind the loss, and the loss  *)
(* is queued once, whatever the executor and the IO broker interleave.     *)
THEOREM LossIsLast == Spec => []LossIsLastRxTask
<1>1. IInv => LossIsLastRxTask
  BY DEF IInv
<1>2. QED
  BY <1>1, SpecIInv, PTL

(* handle_tnl_association_removal: when it has completed, neither path is  *)
(* left, although the removal may have waited behind a setup procedure and *)
(* may have raced with a shutdown by the RIC.                              *)
THEOREM RemovalQuiets == Spec => []RemovedIsQuiet
<1>1. IInv => RemovedIsQuiet
  BY DEF IInv, PathsInv, RemovedIsQuiet
<1>2. QED
  BY <1>1, SpecIInv, PTL

(* handle_connection_loss_impl: connected_flag and the event agree with    *)
(* the two paths.                                                          *)
THEOREM FlagIsExact == Spec => []FlagMatchesPaths
<1>1. IInv => FlagMatchesPaths
  BY DEF IInv, TypeOK, PathsInv, FlagMatchesPaths
<1>2. QED
  BY <1>1, SpecIInv, PTL
=============================================================================
