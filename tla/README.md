# A TLA+ model of the E2 agent and of the gNB parts it reports on

The repository deploys an O-RAN monitoring testbed: a 5G core, a near-RT RIC
with monitoring xApps, Zabbix dashboards, and a gNB (srsRAN, vendored under
`srsRAN/`) whose E2 agent reports measurements to the RIC.  Nearly all of the
program logic that is in the repository is the gNB.  This project models three
parts of it:

* what makes the *monitoring* work: the E2 agent, which keeps the association
  with the RIC, the table of subscriptions and one periodic indication coroutine
  per subscription;
* the two services that every component's concurrency rests on: the timers and
  the task strands;
* the downlink data path that the measurements are about: PDCP in the CU-UP, the
  F1-U bearer, and RLC acknowledged mode in the DU.

All paths below are relative to `src/srsRAN/`.

## Inventory

| Part | State | Operations | What is hard | What makes it correct |
|---|---|---|---|---|
| Subscription manager (`lib/e2/common/e2_subscription_manager_impl.cpp`, `lib/e2/procedures/e2_subscription_*`) | map of subscriptions, action list of each | subscription request, delete request | repeated request ids, partly admitted requests, an outcome returned unassigned | table, coroutine and RIC agree; nothing leaks from one subscription into the next |
| Indication procedure, event manager (`e2_indication_procedure.cpp`, `e2_event_manager.h`, `async_event_source.h`) | one coroutine, one event source with observer and timer per request id | report period, cancel, replacement of the source | a coroutine is resumed from inside an assignment or a destructor | a suspended coroutine always has a source and a timer; the last round precedes the delete response |
| E2AP gateway (`lib/e2/gateways`) | - | pack and send a PDU | a PDU that cannot be packed is dropped | requests are answered |
| Connection handler, entity, setup procedure (`lib/e2/common`, `e2_setup_procedure.cpp`, `fifo_async_task_scheduler.h`) | connected flag, Tx notifier, Rx channel, control loop, setup transaction | start, stop, setup response or failure, timeout, connection loss | four threads; stop races with loss and with setup; bounded task queue | stop completes; nothing arrives after removal; the loss is handled last |
| SCTP client (`lib/gateways/sctp_network_client_impl.cpp`) | receiver, shared shutdown flag | send, close, receive data and notifications | shutdown from both sides, lost paths | closing the sender ends the receiver |
| Transactions (`protocol_transaction_manager.h`) | running transactions with timers | create, answer, timeout, cancel | late answers | each transaction ends once |
| Timers (`lib/support/timers.cpp`) | front-end and back-end per timer, command queue, wheel, pool | create, set, run, stop, destroy, tick | lock-free epochs between two threads, reuse, full executors, wrap-around | no early, late, lost or stale expiry |
| Task strand (`executors/strand_executor.h`) | queue, job count | execute, defer, run, failed dispatch | lock-free handover of the strand | mutual exclusion, no lost wakeup, each task once |
| RLC AM (`lib/rlc/rlc_tx_am_entity.cpp`, `rlc_rx_am_entity.cpp`, `rlc_am_pdu.cpp`) | Tx and Rx windows, SDU and retransmission queues, SDU under segmentation, three report buffers, five timers and flags | SDU, discard, pull, status PDU, data PDU, timer expiries | PDUs and reports lost or late, segments out of order, SN arithmetic modulo a moving edge, reports trimmed, MAC pulls on another thread | each SDU at most once; confirmed only if delivered; nobody waits with nothing to wait for |
| PDCP (`lib/pdcp`) | COUNTs `tx_next`, `tx_trans`, `tx_next_ack`, `rx_*`, both windows, discard and reordering timers | SDU, discard, transmit and delivery notification, status report, re-establishment, data PDU, t-Reordering | HFN guessed from an SN, notifications lost, rewound window, timers racing late PDUs | in order, no duplicates, nothing given up that the peer still needs |
| F1-U bearer, SDU queue of RLC (`lib/f1u`, `rlc_sdu_queue_lockfree.h`), session manager (`lib/cu_up/pdu_session_manager_impl.cpp`) | last notified SNs, discard blocks, slots of the queue, which bearer PDCP is connected to | PDU, discard, delivery status, replacement of the bearer | messages lost; the bearer is replaced in two steps | PDCP never hears of a delivery that was none; nobody uses a bearer that is not there |
| RIC control, E2SM-KPM, E2SM-RC | - | control request, measurement collection | partial failure of a control request | planned |
| gNB protocol stack, PHY, applications, xApps, scripts | - | - | - | not modelled, see below |

Interaction: the IO broker thread reads SCTP messages and dispatches PDUs to
the executor of the agent; the executor (in the gNB a strand over a worker pool)
runs one handler at a time; handlers resume coroutines inline; the timer
manager is ticked by another thread and dispatches expiries to the executor;
the agent sends through the SCTP client.  On the data path PDCP hands PDUs to
F1-U, F1-U to the SDU queue of RLC; MAC pulls PDUs from RLC; what RLC has sent
and what the peer has acknowledged travels back over F1-U as SNs and moves the
window of PDCP.

## Modules

| Module | Models | Used by |
|---|---|---|
| `E2SubscriptionManager` | subscription manager, setup, delete and indication procedures, event sources | `MCE2SubscriptionManager`, `E2RicLink` |
| `E2SubscriptionService` | abstract specification: what a conforming RIC is promised | `E2RicLink` |
| `E2RicLink` | the manager composed with a RIC over two FIFO channels, with the PDUs the packer drops | `MCE2RicLink` |
| `E2Connection` | application, agent executor, IO broker and kernel around one association | run directly |
| `Timers` | timer front-ends, `tick()`, the pool | `MCTimers` |
| `TaskStrand` | producers, workers and the strand | `MCTaskStrand` |
| `RlcAmStatus` | status PDUs, SDU lengths, the radio | `RlcAmTx`, `RlcAmRx` |
| `RlcAmTx`, `RlcAmRx` | the sending and the receiving side of RLC AM | `RlcAm` |
| `RlcAmService` | abstract specification: what acknowledged mode promises PDCP | `RlcAm`; assumed in `Pdcp` |
| `RlcAm` | both sides over a lossy radio | `MCRlcAm` |
| `PdcpSn` | SN, HFN, COUNT and the estimation of a COUNT | `PdcpTx`, `PdcpRx`, `F1u` |
| `PdcpTx`, `PdcpRx` | the transmitting and the receiving PDCP entity of an AM DRB | `Pdcp` |
| `F1u` | both ends of the F1-U bearer and the SDU queue of RLC | `Pdcp` |
| `Pdcp` | a downlink DRB from PDCP to PDCP, with the session manager's re-establishment | run directly |
| `E2SubscriptionManagerProofs`, `E2RicLinkProofs`, `E2ConnectionProofs`, `TaskStrandProofs`, `TimersProofs`, `PdcpProofs` | theorems and proofs about the modules of these names | `E2RicLinkProofs` builds on `E2SubscriptionManagerProofs` |
| `RlcAmEntityProofs`, `RlcAmProofs` | theorems about `RlcAm`: each entity for any peer; the two ends together | `RlcAmProofs` builds on `RlcAmEntityProofs` |

### Correspondence with the code

*`E2SubscriptionManager`.* Every handler runs on the executor of the agent, so
each is one action, with everything the coroutines it resumes do until they
suspend.  `registered` and `copies` are the map `subscriptions` and its
action lists (as bags: all indications of a round leave in one handler and
their order is not observed); `task`, `source`, `observer` and `timer` are the
coroutine, the entry of `sub_del_reqs`, its subscriber and its timer; `sent` is
what the step handed to `e2_message_notifier`.  `HandleSubscriptionRequest` has
one disjunct per outcome.  The flag `success` of the outcome is not initialised
and is read unassigned when the RAN function was not accepted
(`e2_subscription_manager_impl.cpp:50`): both values are modelled.  A
dereferenced null pointer or a failed assertion sets `fault`.  The switches
`UniqueRequestIds` and `OnlyAllowed` say what the RIC refrains from; properties
that need a switch name it.

*`E2RicLink`.* `Transmitted` and `Packed` model `e2_to_sctp_pdu_notifier`: a failure
without cause cannot be packed and never leaves; a failure whose cause got only its
type holds an uninitialised value, so it may or may not leave.  The RIC is external,
modelled as the peer the handlers are written for.

*`E2Connection`.* `exec_q` is the bounded task queue; `loop` is `main_ctrl_loop`
with its running and pending procedures; `setup` and `removal` are the two
coroutines; `closed` is the flag `shutdown_received` shared by the SCTP client
and its sender; `events` is what the kernel has for the IO broker.  A refused
`start` or `stop` is `report_fatal_error` (`fatal`).  The E2 setup procedure has a
retry loop, but `retry_required` returns false for every E2 SETUP FAILURE, which
is the only unsuccessful outcome the agent forwards to it, so the model has none.

*`Timers`.* A front-end operation is two steps (the increment of `cmd_id`, then
the push of the command), because `tick()` reads `cmd_id` in between; `tick()` is
one step per command, per postponed expiry and per timer of the bucket.
`timeout` and `cur_time` are modulo `TimeMod` (2^32 in the code); `left` is a
history variable that counts ticks without wheel or wrap, the reference
`ExpiresOnTime` compares against.  The relaxed atomics of `cmd_id` are read in
program order.

*`TaskStrand`.* A step is one access to the queue, to `job_count` or to the
wrapped executor.  The queue is an atomic FIFO.  The loop of a worker
(`run_enqueued_tasks`) and that of a producer whose dispatch failed
(`handle_failed_task_dispatch`) are the same three actions; they differ in what
happens to the popped task.

*`RlcAmTx`, `RlcAmRx`, `RlcAm`.* The variables have the names of the members.
Every handler of the sending side holds the entity's mutex and is one action;
`PullPdu` chooses between a retransmission, the rest of a segmented SDU and a new
SDU as `pull_pdu` does.  What runs concurrently is the buffer state update, which
`handle_changed_buffer_state` defers to another executor (`bs_updates` are the
tasks queued there, `bs_reported` is what MAC knows), and the two steps of
`get_status_pdu`.  `sdu_queue` is the internal queue of `rlc_sdu_queue_lockfree`: a
discarded SDU keeps its place and its slot in it until a read drops it (`Reads`,
`EmptyPull`), so that `is_empty()` (`BuffersEmpty`) is false while the bytes that MAC is
shown (`GetBufferState`) may be 0.  The receiving entity tells MAC of a report that is due
through the sending side of its own (`OwnBufferStateChanges`): nothing while its
`pending_buffer_state` (`own_pending`) is set, else a deferred task (`own_updates`,
`UpdateOwnBufferState`), which the executor may refuse.  The SDUs, pulls and reports of
that other direction touch the same flag and are the action `OtherDirection`;
`MaxUpdates` bounds the tasks queued there.  A grant is the
payload it has room for; a grant of a status report is the number of NACKs that fit.  `upper` and `delivered` record what PDCP
was told and what the peer got.  A failed `srsran_assert`, `on_protocol_failure` or
an SDU that was put together wrongly sets `failure` or `rx_failure`.  Assumed:
`t_poll_retx` and `t_status_prohibit` are not 0; the handler of an expired timer
runs with the expiry (`Timers` shows that no stale expiry reaches a handler);
`on_max_retx` makes the DU release the bearer.  The peer is the same code.

*`PdcpTx`, `PdcpRx`, `F1u`, `Pdcp`.* The entities are operators on a record of
their state; `Pdcp` holds the records and has one action per event.  The CU-UP's
handlers of a UE run on one strand (`cu_up_executor_mapper.cpp:203-208`), so each is
atomic.  Windows are sets of COUNTs; the slots of the circular maps are kept
(`AddToWindow`), since an old COUNT that still holds a slot is overwritten.  Ciphering
is modelled by its effect: a PDU whose COUNT is estimated wrongly fails the
integrity check.  Assumed of the surroundings: RLC AM does what `RlcAmService`
promises; F1-U loses messages and does not reorder them; upper layers do not get a
whole window ahead of the peer's `RX_DELIV`, nor use an SN again while a PDU or a
delivery notification with it is on its way (`Paced`: otherwise the HFN would be
ambiguous by design); at a re-establishment the old RLC entity and what was in
flight are gone, and the peer may send a status report.  Tasks of `handle_pdu` that wait on
`ue_ul_exec` when the bearer is replaced capture a bearer that is then destroyed
(`f1u_bearer_impl.cpp:54`, `pdu_session_manager_impl.cpp:432`).  They stay, in `old_ul`, and
`HandleOldUlMessage` runs them before any task of the new bearer: undefined behaviour,
modelled as either what the old bearer would have told PDCP or nothing; a crash of the
CU-UP is not continued.  `MaxMessages` bounds what
F1-U holds when PDCP sends the next SDU.  `Start` is a COUNT that the
bearer has reached with nothing outstanding, so that the SN wraps within the run.

## Runs

| Run | Properties | Bounds |
|---|---|---|
| `subscription_any_ric` | `SuspendedIsObserved`, `IndicationOnlyIfRegistered`, types | 2 request ids, one of them the default (0, 0); KPM and RC; 3 actions; at most 2 copies of an action |
| `ric_link` | `NoFault`, `RegisteredIsServed`, `FreshActionList`, `ViewsAgree`, `IndicationUntilDelete`, refinement `ServiceSpec` | 2 request ids, 2 actions, one pending indication before the next period |
| `ric_link_answers` (violation) | `RequestIsAnswered` | as above |
| `connection` | `LossIsLastRxTask`, `RemovedIsQuiet`, `FlagMatchesPaths`, `SetupResolves`, `StopCompletes`, `ShutdownIsNoticed`, types | queue of 2 tasks, 2 answers, lost paths |
| `connection_lost` (violation) | `TxResetShutsRx` | as above |
| `timers` | `ExpiryFindsRunning`, `NoLostTimeout`, `ExpiresOnTime`, `PooledIsAtRest`, `BackendPointersValid`, `TimeoutDelivered`, types | 2 timers, 3 operations on the pooled one, 1 on the other (which never runs), wheel of 2, clock modulo 8, durations 0 and 3, room for 1 expiry |
| `strand` | `MutualExclusion`, `CountedIsServed`, `PopFindsTask`, `EachTaskOnce`, `AcceptedLeaves`, types | 2 producers with 3 tasks, 2 workers, queue of 2 |
| `rlc_am` | `NoFailure`, `RetxIsOfSentBytes`, `RxStateOrdered`, `WindowsAgree`, `NoLostWakeup`, `NoSilentStall`, refinement `ServiceSpec`, types | 2 SDUs of 1 and 2 bytes, 6 SNs starting at the last, grants of 0 and 1 byte, 2 data PDUs in flight, 1 NACK per report, retransmission limit 1, queue of 2, at most 1 deferred update of the receiving entity, refusals by `pcell_executor` |
| `rlc_late_status` (violation) | `ExpiryIsFollowedByPoll` | 2 SDUs of 1 byte |
| `pdcp` | `StateOrdered`, `InOrderDelivery`, `NothingLost` | 3 SDUs, 4 SNs, wrap after the second SDU, queues of 2, at most 2 messages on F1-U when the next SDU is sent, 2 re-establishments, losses |
| `pdcp_recovery_stall` (violation) | `SendingResumes` | 3 SDUs, 8 SNs, limit of 2 SDUs in RLC, infinite discard timer, no losses |
| `pdcp_discard_unconnected` (violation) | `DiscardFindsF1u` | 3 SDUs, finite discard timer |

Why the bounds are enough for the cases that matter: two request ids let one
subscription interfere with another and with the default id; two copies let an
action list grow twice.  A queue of two tasks is full while the loss is to be
queued; two answers give a late one and one after the end of the setup.  Three
commands allow run, stop or destroy, and a second run, by the same or the next
owner, while the first expiry is still queued or postponed; the second timer
is created outside the pool, its handle goes through the command queue, and it is then set
or destroyed into the pool, to be taken by another owner.  To run it takes two operations;
that gives 1.8 million states and no violation, but takes more than five minutes.  The
theorems cover any number of timers and commands.  A duration of 3 with a wheel of 2 makes a lap, and the clock wraps.  Three tasks per producer and a queue
of two make the queue fill, the strand change hands between workers and a failed
dispatch meet a concurrent call.  In `rlc_am` the second SDU may wait in the queue behind
the first or be discarded there,
may be segmented, a hole
in it merges with a lost first SDU into one NACK range, the report is trimmed, the
window of one SDU is full, and retransmissions are segmented, lost and counted up
to the limit.  Grants of up to 2 bytes and refusals in `get_status_pdu`
(`PullRefusals`) give 1.2 million states and no violation either.
In `pdcp` the window of two COUNTs fills, the SN wraps before, during and after the
re-establishment, and the SDU queue of RLC overflows.  A
fourth SDU with one re-establishment gives 4.5 million states and no violation; the
theorems cover a fifth, the first to use an SN again.

Deadlock checking is off in all runs: the bounded system stops when its bounds
are used up, the agent may end in a fault, a fatal error or after stop(), and a
bearer that has nothing to send rests.

### What the violations show

* `ric_link_answers`: a rejected request is never answered, because the failure
  message has no cause and is dropped by the packer.
* `connection_lost`: after `SCTP_COMM_LOST` closing the Tx side sends no EOF and
  nothing resets the receiver; the removal procedure waits forever.
  `e2_connection_handler.cpp:67` says that the reset "should trigger the shutdown
  of the Rx path".
* `rlc_late_status`: t-PollRetransmit expires, queues a retransmission of the oldest
  SDU and owes a poll; a delayed report acknowledges that SDU and empties the
  queue.  The next SDU, whose PDU was lost, is neither retransmitted nor polled for
  until PDCP sends something else.  `rlc_tx_am_entity.cpp:1168`: "include a poll in an
  AMD PDU".
* `pdcp_recovery_stall`: a re-establishment rewinds `tx_trans`; notifications of the
  retransmitted PDUs are ignored because "those retransmitted PDUs will be cleaned
  when handling delivery notification for following originals"
  (`pdcp_entity_tx.cpp:570`), but with `rlc_sdu_queue` SDUs outstanding `handle_sdu`
  refuses following originals.  With a finite discard timer the bearer recovers when
  it expires; the default of `configs/qos.yml` is infinite.  Without re-establishment the
  property holds.
* `pdcp_discard_unconnected`: between the two modifications PDCP is connected to no
  F1-U bearer, and the expiry of a discard timer fails the assertion at
  `pdcp_adapters.h:101`.

### Observations without a run of their own

Met while modelling, and followed in the code or with a variant of a run:

* A second subscription request under an id in use, none of whose actions is
  admitted, erases the running subscription (`e2_subscription_manager_impl.cpp:68`),
  although `e2_indication_procedure.h:34-35` says it runs until a delete request.
* The response to a subscription request writes every admitted action into element 0 of
  its list (`e2_subscription_setup_procedure.cpp:61`), so that of several admitted actions
  the RIC sees the last one and default values; the model has no contents of messages.
* The constructor of `e2_entity` dereferences the notifier that `connect_to_ric` returned
  (`e2_entity.cpp:56`), which is null if the connection failed; the model starts connected.
* A strand whose holder cannot dispatch discards tasks of calls that returned true
  (`strand_executor.h:108-110`), and the first task it pops can be another producer's
  (lines 168-169 say otherwise).  `EachTaskOnce` and `AcceptedLeaves` count a discarded
  task as settled: they say that none is lost or taken twice, not that none is discarded.
* `update_mac_buffer_state` suppresses an update when the previous and the present
  buffer state are both above `MAX_DL_PDU_LENGTH` (`rlc_tx_am_entity.cpp:980`), even
  if MAC has pulled, and was told 0, in between; `rlc_am` keeps buffers below it.
* An old status report is accepted if its ACK_SN is still in the window, and may
  call off retransmissions a newer one asked for; so does a trimmed report (an
  exception in `NoSilentStall`).  Only a later poll recovers them.
* `get_status_pdu` swaps the shared and the cached report
  (`rlc_rx_am_entity.cpp:655-657`), so a second pull with no refresh in between returns the
  report before the last one, where `rlc_am_interconnect.h:39` promises "a reference to the
  latest status report".  It is usually refused by `valid_ack_sn`, or still true.  With
  4 SNs and 3 SDUs it can be exactly a window behind and make the sender report a protocol
  failure; with a fourth SDU it can acknowledge an SDU that was lost.  `KeptInTime` is what
  excludes it.
* A spurious retransmission that is overtaken by the first PDU of the next window is taken
  for new data: with 4 SNs, 3 SDUs and a radio that reorders, the peer delivers an SDU
  twice.  Lower layers are to bound the delay; `FlightInWindow` says so.
* A trimmed report may keep a range that ends at its new ACK_SN; the sender then refuses
  the whole report, which costs a round and nothing else.
* A discarded SDU stays in the internal queue until a read drops it
  (`rlc_sdu_queue_lockfree.h:40-43`, 129), and `is_empty()` (line 230) is false as long
  (`rlc_tx_am_entity.cpp:225`, 1066, 1130).  If it is all that is queued, the last PDU goes
  out without a poll, an expiry of t-PollRetransmit queues no retransmission, and MAC, to
  whom `get_buffer_state` shows no bytes, pulls nothing: if that PDU or its status report
  is lost, the bearer stalls silently until PDCP sends another SDU.  It is the first
  exception in `NoSilentStall` (`DiscardedBehind`), and the code's only stall of this kind
  apart from the other two that the property names.
* A deferred task that the executor refuses leaves `pending_buffer_state` set
  (`rlc_tx_am_entity.cpp:967`): MAC hears of no further SDU, and of no status report that is
  due (`on_status_report_changed`, line 824), until a report from the peer or t-PollRetransmit
  forces an update or MAC pulls for another reason.  `NoLostWakeup` excepts it.  The same
  refusal leaves t-StatusProhibit marked as running (`rlc_rx_am_entity.cpp:650-654`): the
  state `"stuck"`.
* A replacement of the F1-U bearer leaves tasks behind that use the destroyed bearer
  (`f1u_bearer_impl.cpp:54`, `pdu_session_manager_impl.cpp:432`; nothing cancels them).  If
  they happen to find it as it was, PDCP stays sound (`NothingLost`, `StateOrdered`).
* `byte_without_poll` does not grow for unsegmented SDUs: the length is taken of a
  buffer that has been moved from (`rlc_tx_am_entity.cpp:297`).
* The check for an old element in the slot of `tx_window` (`pdcp_entity_tx.cpp:131`)
  never fires, since `contains` compares the whole COUNT; the element is overwritten.
* A delivery notification that PDCP handles only after as many further SDUs as there
  are SNs is taken for one about the SDU that has its SN now (`pdcp_entity_tx.cpp:596`):
  `stop_discard_timer` then removes SDUs the peer has not got.  `Paced` excludes it.
* `retransmit_all_pdus` can send more PDUs than the SDU queue of RLC holds; the
  queue refuses the rest.

### Fairness

`E2RicLink` assumes that the executor runs queued handlers, that SCTP delivers
and that the RIC reads its socket; neither report periods nor any action of the
user of the RIC is assumed fair.  `E2Connection` assumes that the executor and
the IO broker serve their queues, that timers are ticked (the setup transaction
is always created with a timeout) and that the kernel completes a shutdown it
began; nothing is assumed of the application, the RIC or path failures.
`Timers` assumes that the clock source ticks, that an operation an owner began
completes and that executors run what they accepted.  `TaskStrand` assumes that
threads inside a call or a loop go on and that the wrapped executor starts the
jobs it accepted.  `RlcAm` assumes that executors and timers go on, that MAC grants
a bearer it knows to have bytes, and that a PDU in flight arrives; the radio may
lose every PDU it is given.  `Pdcp` assumes that executors (with the tasks of a replaced
bearer) and timers go on, that RLC delivers and confirms what it has sent, and that the second modification of a
re-establishment follows the first; nothing is assumed of upper layers.  All of it
is weak fairness of threads that loop over their queues and of timers that run.

## Proofs

`E2SubscriptionManagerProofs` proves, for all sets of request ids, RAN functions
and actions, from `ConstantsAssumption` alone, that the specification implies
`TypeOK`, `SuspendedIsObserved`, `RegisteredIsServed`, `NoFault`,
`FreshActionList` and the action property `IndicationOnlyIfRegistered`; and, under
the assumption that request ids are unique, `IndicationUntilDelete`.  The
inductive invariant is the conjunction of the types, the pairing of coroutines
and sources (which is inductive only together with the fact that a suspended
coroutine is registered and has a source), the statement that action lists of
unregistered keys are empty, and, under `OnlyAllowed`, that exactly the
registered keys are observed.  The absence of faults then follows from the
guards: with unique ids nobody is observed when a request arrives.

`E2RicLinkProofs` proves, for all sets of request ids, RAN functions and actions and
any number of messages in flight, `ViewsAgree`; that behind this RIC the agent has no
fault and serves exactly what it registered (`LinkHasNoFault`, which assumes neither
switch: uniqueness of request ids and the use of accepted functions only are shown of
the RIC); and that every step of the composition is a step or a stutter of
`E2SubscriptionService` (`LinkImplementsService`).  `ViewsAgree` speaks of quiet request
ids only; the invariant `LinkInv` says what is in flight for the others.  `SetupInv`: a
function that the RIC uses is accepted by the agent by the time the request arrives.
`RequestInv`: at most one request per id is on its way, and it will find the table as the
RIC believes it to be.  `AnswerInv`: the answer the RIC waits for is the only one about
its id, behind the indications of the old subscription and before those of the new one.
`StatusInv`: what the RIC believes is what the agent has, or the message that changes it
is on its way.

`TaskStrandProofs` proves, for any finite sets of producers and workers, any
queue size and any number of tasks, `TypeOK`, `MutualExclusion`,
`CountedIsServed`, `PopFindsTask` and `EachTaskOnce`.  The invariant of the first four
has two parts.  `LockInv`: at most one job or thread holds the strand, and somebody holds
it exactly when `job_count` is positive.  `CountInv`: the length of the queue plus the
tasks popped in the current loop is `job_count` plus the number of calls between their
push and their increment.  The second part is why the loop never finds the queue
empty, although push and increment are separate steps.  `EachTaskOnce` needs `OnceInv`:
the tasks of the queue are distinct, none was pushed by a call that was not made, and
that of a call under way is queued, or was already run or discarded by whoever holds the
strand.

`TimersProofs` proves, for any set of timers, any size of the wheel, range of the clock
and capacity of the executors, `TypeOK`, `ExpiryFindsRunning`, `NoLostTimeout`,
`ExpiresOnTime`, `PooledIsAtRest` and `BackendPointersValid`.  Most of the invariant
orders the ids between back-end and front-end: the commands of a timer are processed in
the order of their ids (`QueueInv`), all of them above the one that the back-end has
adopted and up to the one of the front-end (`IdInv`), so an expiry is current only if
nothing about its timer was pushed since (`ExpiryInv`), and what is current for the
back-end is current for the owner (`RunInv`).  `CreateInv`, `DestroyInv` and `FreeInv`
follow a timer from the pool to its owner and back: creation is the first and
destruction the last command about it.  `TimeInv` ties the bucket of a running timer, the
wrapped clock and `left`: the timeout is the clock plus `left` modulo its range, and a
run with no tick left is in the bucket that `tick()` visits.  It needs `DurationInv`, the
limit `MAX_TIMER_DURATION` that `timers.cpp:50` asserts.

`PdcpProofs` proves that `CountEstimate` inverts `SN` for every COUNT from the edge
up to a window beyond it, any SN size and any COUNT (`EstimateIsRight`), what the
operations of both entities keep in order, and `StateOrdered`, `InOrderDelivery` and
`NothingLost`, for every SN size, queue size and bound, with or
without losses, discards and status reports, and for any number of re-establishments.
The invariant follows an SDU from PDCP to the peer: in the window of PDCP it is settled
(the peer has it, or it was lost or discarded) or on its way (`CoverInv`); PDUs on their
way are in the order of their COUNTs and within one range of SNs (`OrderInv`); a discard
names settled SDUs and finds no other with that SN (`DiscardInv`); a notification that is
news for PDCP names the last PDU with its SN (`NewsInv`), so the estimate of its COUNT is
right, and so does one that a replaced bearer left behind (`OldInv`).
`OrderInv` and `NewsInv` are where `Paced` is needed: without its second half
`NothingLost` does not hold (see the observations).

`RlcAmEntityProofs` (the first three layers below) and `RlcAmProofs` (the others) prove,
for every even range of SNs and any SDUs, grants, losses and limits, what follows; each
layer uses those before it.

* `RxInv`, of the receiver alone: `RxStateOrdered`, and that no assertion of the handling
  of t-Reassembly fails (`ReassemblyAssertionsHold`).  `RxStateOrdered` is not inductive:
  an expiry moves `RX_Highest_Status` to the trigger of the timer, so `TimerInv` says that
  the trigger of a running timer lies between `RX_Next` and `RX_Next_Highest`, and
  `HeldInv` that the SN below either has an entry.  When the window moves past the trigger,
  its distance from the new `RX_Next` is at least the window size, which is the condition
  that stops the timer.  `PassedInv`, that all SNs from the trigger up to
  `RX_Highest_Status` are complete while the timer runs, is why `RX_Highest_Status` never
  moves back (`HighestGrows`), which the last layer needs.
* `TypeInv`: `TypeOK`, for any peer.  It says what a status report may ask for and what
  `handle_nack` makes of it, and so contains most of the work on lists: the loops of
  `get_status_pdu` and `handle_nack` are folds, and a fold is the only function that takes
  its steps (`Folded`, `FoldUnique`).  What holds of its states is shown by contradiction,
  of a least state of which it would not.
* `WakeInv`: `NoLostWakeup`, for any order of SDUs, pulls, reports, expiries and deferred
  updates.  The half about status reports is the invariant `TellInv`: while
  `own_pending` is set a task is queued or was refused, and when it is not, MAC knows of
  a report that is due.  It needs nothing else (`StatusReportIsTold`); the half about data
  takes `[]NeverLarge`, that the buffer state never exceeds what one grant takes.  Without
  it the property is false of the code (see the observations).
* `ProtocolInv`, of the two ends together: the sender's window is what it sent from
  `tx_next_ack` on (`SendInv`); the receiver's window lies in it (`LinkInv`); a data PDU in
  flight carries bytes that were sent (`AirLink`); a report in flight, or one that
  `get_status_pdu` may still hand out, whole or trimmed, is true if its ACK_SN is still in
  the window (`ReportLink`, `KeptLink`): what it acknowledges the receiver has, and what it
  asks for was sent.  `NoFailure`, `WindowsAgree` and `RetxIsOfSentBytes` follow.
* `ServiceInv`: the SDUs of the window and of the queue are in the order of their
  acceptance, and `delivered` is 1 for exactly those whose SN the receiver has taken whole.
  With it every step is a step or a stutter of `RlcAmService` (`ServiceHolds`).
* `StallInv`: `NoSilentStall` (`NoSilentStallHolds`).  Three reports can be about at a
  time, two kept and one in flight, and the sender cannot tell which is the older.
  `TurnInv` orders them by what they say: a report with no NACK acknowledges no more than
  where another one starts to ask, or as much as that one does.  `PollInv` says that the
  last PDU sent for the first time has the poll.  So a report that stops the timer reaches
  the end of what was sent; if it has no NACK nothing waits any more, and if it has one,
  `handle_nack` queues a retransmission.  All of it is said of a bearer with nothing
  discarded behind what waits (`DiscardedBehind`) and no trimmed report.
  The `QuietInv` part keeps that true of the
  reports still to come, until a retransmission that is the last takes a poll with it.
  A discarded SDU that is still queued, a poll owed since an expiry and a trimmed report
  break it, and are the three exceptions that the property names.

SNs come around, so the last three layers need that nothing outlives the window it was of.
That is stated as two hypotheses on the behaviour: `FlightInWindow`, that a data PDU in
flight is of the sender's present window or one the receiver drops, and `KeptInTime`, that
no report held by the receiver that `valid_ack_sn` would refuse becomes acceptable later.
Neither follows from the code for every instance (the observations tell a counterexample
to each, found by TLC with 4 SNs).  They are not assumed where they can be proved:

* `FlightInWindow` holds over a radio that does not reorder, given `KeptInTime`
  (`InOrderFlight`, invariant `FlightInv`);
* both hold over any radio while the bearer carries fewer SDUs than half the SNs, less two
  (`ShortBearerInTime`, invariant `FewInv`), so that `NoFailure`, `WindowsAgree`,
  `RetxIsOfSentBytes`, `NoSilentStall` and `ServiceSpec` need no hypothesis there
  (`ShortBearerIsSound`);
* both are true of every behaviour of the instance of `rlc_am`, whose SNs wrap, and whose
  radio reorders.

The inductive invariants were checked with TLC on the instances of the runs before they
were proved.  The proofs use the named assumptions on the constants and nothing else.

Only model-checked: all liveness properties, and the fairness that `ServiceSpec` of the
link includes (out of the prover's reach).

## Not modelled

* RIC control (`e2_ric_control_procedure.cpp`) and transaction id allocation: planned.
* Contents of E2AP messages and E2SM encoding: they do not influence control,
  with the one exception that packing can fail, which is modelled.
* Measurement collection: which reports are ready is a free choice.
* The constructor of `e2_entity` when the connection fails, `connect_to`, and the
  destructor of the SCTP client.
* The lock-free MPMC queue below the strand, and memory orders weaker than
  sequential consistency.
* Of RLC AM: `stop()`, metrics, the recycler, packing.  Of PDCP: SRBs, UM bearers,
  ciphering, failing allocations, COUNT limits other than the hard one, and
  `data_recovery`, which nobody calls.  Of F1-U: the joining of discard blocks and
  buffer sizes.  Setup and release of PDU sessions.
* RLC UM and TM, SDAP, GTP-U, NR-U, MAC and scheduler, the control plane, PHY,
  fronthaul and applications of the gNB; generated ASN.1 code; the xApps
  (written against SDKs that are not in the repository); scripts and
  configuration.

## Plan

Done, in this order: subscription manager, link and refinement, connection,
timers, strand, their first proofs; RLC AM with its refinement, PDCP, F1-U and
their composition; proofs about timers, strand, PDCP, the link and RLC AM.

Next, by importance:

1. `TransactionManager`: ids, exhaustion, cancel on stop, late and duplicate
   outcomes, as an abstract transaction and its implementation over `Timers`.
2. Compose `E2Connection` with the subscription manager: what happens to running
   subscriptions when the association is lost and the agent stops.
3. RIC control procedure with its partial failures; the SCTP client's destructor and
   `connect_to`; the bounded MPMC queue and the one-millisecond pop of the strand.
