------------------------------- MODULE RlcAmTx -------------------------------
(***************************************************************************)
(* The sending side of RLC AM (srsRAN/lib/rlc/rlc_tx_am_entity.cpp).  MAC   *)
(* pulls PDUs: retransmissions first, then the rest of a segmented SDU,     *)
(* then a new SDU.  Every handler holds the entity's mutex, so each one is  *)
(* an action; what arrives concurrently is the SDUs of PDCP and the buffer  *)
(* state update, a task that handle_changed_buffer_state defers.            *)
(*                                                                         *)
(* A grant is the payload it has room for, 0 if not even the header fits.   *)
(* Queued SDUs, PDUs and retransmissions carry the SDU they belong to: the  *)
(* code carries its bytes.  on_max_retx makes the DU release the bearer,    *)
(* and the model stops there.  The checks of build_continued_sdu_segment    *)
(* and build_retx_pdu on their own state are no branches because            *)
(* RetxIsOfSentBytes shows that they never fail.  cfg.t_poll_retx is not 0. *)
(***************************************************************************)
EXTENDS RlcAmStatus

CONSTANTS
  QueueSize,      \* capacity of sdu_queue
  MaxWindow,      \* cfg.max_window, 0 for none
  PollPdu,        \* cfg.poll_pdu
  PollByte,       \* cfg.poll_byte
  MaxRetxThresh,  \* cfg.max_retx_thresh
  MaxDlPdu        \* MAX_DL_PDU_LENGTH

ASSUME TxAssumption ==
  /\ QueueSize \in Nat \ {0} /\ MaxWindow \in Nat
  /\ PollPdu \in Nat /\ PollByte \in Nat /\ MaxRetxThresh \in Nat \ {0}
  /\ MaxDlPdu \in Nat

VARIABLES
  upper,       \* what PDCP has been told of each SDU
  sdu_queue,   \* the internal queue, discarded SDUs included
  tx_next_ack, tx_next, poll_sn, pdu_without_poll, byte_without_poll,
  tx_window,
  sn_under_segmentation,
  retx_queue,
  retx_sn,
  poll_retransmit_timer,             \* is it running?
  is_poll_retransmit_timer_expired,
  pending_buffer_state,
  prev_large,  \* prev_buffer_state > MAX_DL_PDU_LENGTH
  bs_updates,  \* update_mac_buffer_state tasks in the queue of pcell_executor
  bs_reported, \* does MAC know of bytes to send?
  released,    \* on_max_retx was called
  failure      \* on_protocol_failure was called, or an assertion failed

poll_vars == <<poll_sn, pdu_without_poll, byte_without_poll,
               poll_retransmit_timer, is_poll_retransmit_timer_expired>>
bs_vars == <<pending_buffer_state, prev_large, bs_updates, bs_reported>>
tx_vars == <<upper, sdu_queue, tx_next_ack, tx_next, tx_window,
             sn_under_segmentation, retx_queue, retx_sn, poll_vars, bs_vars,
             released, failure>>

RETX_COUNT_NOT_STARTED == -1
TxMod(sn) == Ahead(sn, tx_next_ack)

TxFull(window, next) ==
  \/ Cardinality(DOMAIN window) = am_window_size
  \/ MaxWindow # 0 /\ TxMod(next) > MaxWindow

IsTxWindowFull == TxFull(tx_window, tx_next)

\* is_empty() of the SDU queue looks at the internal queue.
BuffersEmpty ==
  sdu_queue = <<>> /\ retx_queue = <<>> /\ sn_under_segmentation = NoSn

\* In bytes of payload; this side owes no status report.
GetBufferState ==
  LET queued[n \in 0..Len(sdu_queue)] ==
        IF n = 0 THEN 0
        ELSE queued[n - 1] + IF upper[sdu_queue[n]] = "discarded" THEN 0
                             ELSE SduLen[sdu_queue[n]]
      retx[n \in 0..Len(retx_queue)] ==
        IF n = 0 THEN 0 ELSE retx[n - 1] + retx_queue[n].len
      info    == tx_window[sn_under_segmentation]
      segment == IF sn_under_segmentation \notin DOMAIN tx_window THEN 0
                 ELSE SduLen[info.sdu] - info.next_so
  IN  queued[Len(sdu_queue)] + segment + retx[Len(retx_queue)]

BytesToSend == GetBufferState > 0

TxInit ==
  /\ upper = [i \in Sdus |-> "new"]
  /\ sdu_queue = <<>>
  /\ tx_next_ack = Start /\ tx_next = Start
  /\ poll_sn = IF Start = 0 THEN 0 ELSE Start - 1
  /\ pdu_without_poll = 0 /\ byte_without_poll = 0
  /\ tx_window = <<>>
  /\ sn_under_segmentation = NoSn
  /\ retx_queue = <<>> /\ retx_sn = NoSn
  /\ poll_retransmit_timer = FALSE
  /\ is_poll_retransmit_timer_expired = FALSE
  /\ pending_buffer_state = FALSE /\ prev_large = FALSE /\ bs_updates = 0 /\ bs_reported = FALSE
  /\ released = FALSE /\ failure = FALSE

------------------------------------------------------------------------------
(* Buffer state: what makes MAC pull.  MAC is not told of a large buffer    *)
(* state that follows a large one.                                         *)

HandleChangedBufferState ==
  IF pending_buffer_state THEN UNCHANGED bs_vars
  ELSE /\ pending_buffer_state' = TRUE
       /\ bs_updates' \in {bs_updates + 1} \cup (IF Refusals THEN {bs_updates} ELSE {})
       /\ UNCHANGED <<prev_large, bs_reported>>

\* Mutant of ForcedBufferStateUpdate: MAC is not told.
NoBufferStateUpdate == UNCHANGED bs_vars

\* The forced update at the end of a handler, in terms of its result.
ForcedBufferStateUpdate ==
  /\ pending_buffer_state' = FALSE
  /\ bs_reported' = BytesToSend'
  /\ prev_large' = (GetBufferState' > MaxDlPdu)
  /\ UNCHANGED bs_updates

UpdateMacBufferState ==
  /\ bs_updates > 0
  /\ bs_updates' = bs_updates - 1
  /\ pending_buffer_state' = FALSE
  /\ bs_reported' = IF prev_large /\ GetBufferState > MaxDlPdu THEN bs_reported
                    ELSE BytesToSend
  /\ prev_large' = (GetBufferState > MaxDlPdu)
  /\ UNCHANGED <<upper, sdu_queue, tx_next_ack, tx_next, tx_window,
                 sn_under_segmentation, retx_queue, retx_sn, poll_vars,
                 released, failure, data_air, status_air>>

\* MAC asks for the buffer state again after it has pulled.
BufferStateAfterPull ==
  /\ bs_reported' = BytesToSend'
  /\ UNCHANGED <<pending_buffer_state, prev_large, bs_updates>>

------------------------------------------------------------------------------
(* From PDCP, which numbers the SDUs in order.  A discarded SDU stays in the *)
(* internal queue, and in its slot, until a read drops it.                  *)

QueueTakes(i) ==
  /\ Len(sdu_queue) < QueueSize
  /\ \A n \in 1..Len(sdu_queue) : sdu_queue[n] % QueueSize # i % QueueSize

HandleSdu(i) ==
  /\ upper[i] = "new" /\ \A j \in 1..(i - 1) : upper[j] # "new"
  /\ IF QueueTakes(i)
     THEN /\ sdu_queue' = Append(sdu_queue, i)
          /\ upper' = [upper EXCEPT ![i] = "accepted"]
          /\ HandleChangedBufferState
     ELSE /\ upper' = [upper EXCEPT ![i] = "dropped"]
          /\ UNCHANGED <<sdu_queue, bs_vars>>
  /\ UNCHANGED <<tx_next_ack, tx_next, tx_window, sn_under_segmentation,
                 retx_queue, retx_sn, poll_vars, released, failure, data_air,
                 status_air>>

\* An SDU that was read from the queue is not found in its slot.
DiscardSdu(i) ==
  /\ upper[i] = "accepted" /\ \E n \in 1..Len(sdu_queue) : sdu_queue[n] = i
  /\ upper' = [upper EXCEPT ![i] = "discarded"]
  /\ HandleChangedBufferState
  /\ UNCHANGED <<sdu_queue, tx_next_ack, tx_next, tx_window, sn_under_segmentation,
                 retx_queue, retx_sn, poll_vars, released, failure, data_air,
                 status_air>>

------------------------------------------------------------------------------
(* To MAC.  Called after the queues are updated and before tx_next is.     *)

\* Mutant of PollRequired: the queue of retransmissions is not looked at, nor
\* the SDU queue.
PollIfWindowFull(is_retx, payload_size) ==
  \/ TxFull(tx_window', tx_next)
  \/ is_poll_retransmit_timer_expired

PollRequired(is_retx, payload_size) ==
  \/ /\ ~is_retx
     /\ \/ PollPdu > 0 /\ pdu_without_poll + 1 >= PollPdu
        \/ PollByte > 0 /\ byte_without_poll + payload_size >= PollByte
  \/ BuffersEmpty'
  \/ TxFull(tx_window', tx_next)
  \/ is_poll_retransmit_timer_expired

GetPollingBit(sn, is_retx, payload_size) ==
  /\ is_poll_retransmit_timer_expired' = FALSE
  /\ IF PollRequired(is_retx, payload_size)
     THEN /\ pdu_without_poll' = 0 /\ byte_without_poll' = 0
          /\ poll_sn' = IF is_retx THEN poll_sn ELSE sn
          /\ poll_retransmit_timer' = TRUE
     ELSE /\ pdu_without_poll' = pdu_without_poll + (IF is_retx THEN 0 ELSE 1)
          /\ byte_without_poll' = byte_without_poll + payload_size
          /\ UNCHANGED <<poll_sn, poll_retransmit_timer>>

Pdu(sn, sdu, so, len, poll) ==
  [sn |-> sn, sdu |-> sdu, so |-> so, len |-> len,
   last |-> so + len >= SduLen[sdu], poll |-> poll, late |-> FALSE]

\* read pops the n-th SDU and drops the discarded ones before it.
Reads(n) ==
  /\ upper[sdu_queue[n]] # "discarded"
  /\ \A m \in 1..(n - 1) : upper[sdu_queue[m]] = "discarded"

\* sdu.buf has been moved into the window when its length is taken for the
\* polling bit of a full SDU: the length of a moved-from buffer is 0.
BuildNewPdu(grant) ==
  /\ retx_queue = <<>> /\ sn_under_segmentation \notin DOMAIN tx_window
  /\ grant > 0 /\ ~IsTxWindowFull
  /\ \E n \in 1..Len(sdu_queue) :
     LET sdu  == sdu_queue[n]
         full == SduLen[sdu] <= grant
         info == [sdu |-> sdu, next_so |-> IF full THEN 0 ELSE grant,
                  retx_count |-> RETX_COUNT_NOT_STARTED]
     IN  /\ Reads(n)
         /\ sdu_queue' = SubSeq(sdu_queue, n + 1, Len(sdu_queue))
         /\ tx_window' = WithEntry(tx_window, tx_next, info)
         /\ sn_under_segmentation' = IF full THEN NoSn ELSE tx_next
         /\ tx_next' = IF full THEN (tx_next + 1) % Mod ELSE tx_next
         /\ failure' = (failure \/ tx_next \in DOMAIN tx_window)
         /\ UNCHANGED retx_queue
         /\ GetPollingBit(tx_next, FALSE, IF full THEN 0 ELSE grant)
         /\ Transmit(Pdu(tx_next, sdu, 0, IF full THEN SduLen[sdu] ELSE grant,
                         PollRequired(FALSE, IF full THEN 0 ELSE grant)))
  /\ UNCHANGED <<upper, tx_next_ack, retx_sn, released, status_air>>
  /\ BufferStateAfterPull

\* No PDU: MAC took the buffer state for larger than it is.  If the grant and
\* the window admit a read, it drops the discarded SDUs.
EmptyPull(grant) ==
  /\ retx_queue = <<>> /\ sn_under_segmentation \notin DOMAIN tx_window
  /\ \A n \in 1..Len(sdu_queue) : upper[sdu_queue[n]] = "discarded"
  /\ sdu_queue' = IF grant > 0 /\ ~IsTxWindowFull THEN <<>> ELSE sdu_queue
  /\ UNCHANGED <<upper, tx_next_ack, tx_next, tx_window, sn_under_segmentation,
                 retx_queue, retx_sn, poll_vars, released, failure, data_air,
                 status_air>>
  /\ BufferStateAfterPull

BuildContinuedSduSegment(grant) ==
  /\ retx_queue = <<>> /\ sn_under_segmentation \in DOMAIN tx_window
  /\ grant > 0
  /\ LET info == tx_window[sn_under_segmentation]
         rest == SduLen[info.sdu] - info.next_so
         last == rest <= grant
         len  == IF last THEN rest ELSE grant
     IN  /\ sn_under_segmentation' = IF last THEN NoSn ELSE sn_under_segmentation
         /\ tx_window' = [tx_window EXCEPT ![sn_under_segmentation].next_so = @ + len]
         /\ tx_next' = IF last THEN (tx_next + 1) % Mod ELSE tx_next
         /\ UNCHANGED <<sdu_queue, retx_queue>>
         /\ GetPollingBit(tx_next, FALSE, len)
         /\ Transmit(Pdu(tx_next, info.sdu, info.next_so, len,
                         PollRequired(FALSE, len)))
  /\ UNCHANGED <<upper, tx_next_ack, retx_sn, released, failure, status_air>>
  /\ BufferStateAfterPull

BuildRetxPdu(grant) ==
  /\ retx_queue # <<>>
  /\ LET retx == Head(retx_queue)
         len  == IF retx.len <= grant THEN retx.len ELSE grant
     IN  /\ retx_sn' = retx.sn
         /\ UNCHANGED <<sdu_queue, sn_under_segmentation, tx_window>>
         /\ IF grant = 0 THEN UNCHANGED <<retx_queue, poll_vars, data_air>>
            ELSE /\ retx_queue' =
                      IF len = retx.len THEN Tail(retx_queue)
                      ELSE <<[retx EXCEPT !.so = @ + len, !.len = @ - len]>>
                             \o Tail(retx_queue)
                 /\ GetPollingBit(retx.sn, TRUE, 0)
                 /\ Transmit(Pdu(retx.sn, tx_window[retx.sn].sdu, retx.so, len,
                                 PollRequired(TRUE, 0)))
  /\ UNCHANGED <<upper, tx_next_ack, tx_next, released, failure, status_air>>
  /\ BufferStateAfterPull

\* MAC grants a logical channel whose buffer state it knows to be positive.
PullPdu(grant) ==
  /\ bs_reported
  /\ \/ BuildNewPdu(grant) \/ EmptyPull(grant)
     \/ BuildContinuedSduSegment(grant) \/ BuildRetxPdu(grant)

------------------------------------------------------------------------------
(* Status reports.                                                         *)

ValidAckSn(sn) == TxMod(sn) \in 1..am_window_size

\* The last SN of a NACK and the first: each is below the ACK_SN, in the
\* window and was sent.
ValidNack(ack, nack) ==
  \A sn \in {nack.sn, (nack.sn + nack.range - 1) % Mod} :
    TxMod(sn) < TxMod(ack) /\ TxMod(sn) < am_window_size
      /\ TxMod(sn) <= TxMod(tx_next)

IncrementRetxCount(window, sn) == [window EXCEPT ![sn].retx_count = @ + 1]

DecrementRetxCount(count, times) == Max({RETX_COUNT_NOT_STARTED, count - times})

\* The retransmissions that are still queued are called off: an SDU gets its
\* count back, once per run of entries for it in the queue, unless the run is
\* the first and its retransmission had begun.
RewindRetx(window) ==
  LET Before(n) == IF n = 1 THEN retx_sn ELSE retx_queue[n - 1].sn
      Runs(sn)  == {n \in 1..Len(retx_queue) : retx_queue[n].sn = sn /\ Before(n) # sn}
  IN  [sn \in DOMAIN window |->
         [window[sn] EXCEPT !.retx_count =
            DecrementRetxCount(@, Cardinality(Runs(sn)))]]

\* Mutant of SentBytes: an SDU under segmentation is taken for sent.
SentBytesAll(nack, info) == SduLen[info.sdu]

\* "RETX only what was already sent" of an SDU under segmentation.
SentBytes(nack, info) ==
  IF HasSo(nack) /\ nack.sn = sn_under_segmentation THEN info.next_so
  ELSE SduLen[info.sdu]

\* A NACK of one SN, as bytes of an SDU.  acc holds the window, the new queue, the SN counted last.
HandleNack(acc, nack, next_ack) ==
  IF Ahead(nack.sn, next_ack) > Ahead(tx_next, next_ack) THEN acc
  ELSE IF nack.sn \notin DOMAIN acc.window THEN [acc EXCEPT !.failure = TRUE]
  ELSE LET info  == acc.window[nack.sn]
           len   == SduLen[info.sdu]
           sent  == SentBytes(nack, info)
           end   == IF nack.end = EndOfSdu THEN sent - 1 ELSE nack.end
           unsent == nack.end = EndOfSdu /\ sent < len /\ nack.start >= sent
           from  == IF nack.start > end \/ nack.start >= len THEN 0 ELSE nack.start
           upto  == IF end >= len THEN len - 1 ELSE end
           failed == acc.failure \/ from # nack.start \/ upto # end
       IN  IF unsent THEN acc
           ELSE IF Len(acc.queue) = am_window_size
                THEN [acc EXCEPT !.failure = failed]
           ELSE [window  |-> IF acc.sn = nack.sn THEN acc.window
                             ELSE IncrementRetxCount(acc.window, nack.sn),
                 queue   |-> Append(acc.queue, [sn |-> nack.sn, so |-> from,
                                                len |-> upto - from + 1]),
                 sn      |-> nack.sn,
                 failure |-> failed]

\* The NACKs of a range, one SN at a time.
HandleNackRange(acc, nack, ack, next_ack) ==
  LET nacks == SplitRange(nack, ack)
      after[n \in 0..Len(nacks)] ==
        IF n = 0 THEN acc ELSE HandleNack(after[n - 1], nacks[n], next_ack)
  IN  after[Len(nacks)]

\* All NACKs of a report, in order.
HandleNacks(acc, status, next_ack) ==
  LET after[n \in 0..Len(status.nacks)] ==
        IF n = 0 THEN acc
        ELSE HandleNackRange(after[n - 1], status.nacks[n], status.ack, next_ack)
  IN  after[Len(status.nacks)]

\* Mutant of Confirmed: the NACKs do not stop the acknowledgement.
ConfirmedPastNacks(status) ==
  {sn \in DOMAIN tx_window : TxMod(sn) < TxMod(status.ack)}

\* The SNs that the report confirms: from tx_next_ack up to its first NACK,
\* as far as the window has no hole.
Confirmed(status) ==
  LET stop == IF status.nacks = <<>> THEN status.ack ELSE Head(status.nacks).sn
  IN  {sn \in DOMAIN tx_window :
         /\ TxMod(sn) < TxMod(stop)
         /\ \A d \in 0..TxMod(sn) : (tx_next_ack + d) % Mod \in DOMAIN tx_window}

HandleStatusPdu ==
  /\ status_air # <<>>
  /\ status_air' = Tail(status_air)
  /\ UNCHANGED <<sdu_queue, tx_next, sn_under_segmentation, poll_sn,
                 pdu_without_poll, byte_without_poll,
                 is_poll_retransmit_timer_expired, data_air>>
  /\ LET status == Head(status_air)
     IN  IF \/ ~ValidAckSn(status.ack)
            \/ TxMod(status.ack) > TxMod(tx_next + 1)
            \/ \E n \in 1..Len(status.nacks) : ~ValidNack(status.ack, status.nacks[n])
         THEN /\ failure' = (failure \/ /\ ValidAckSn(status.ack)
                                        /\ TxMod(status.ack) > TxMod(tx_next + 1))
              /\ UNCHANGED <<upper, tx_next_ack, tx_window, retx_queue, retx_sn,
                             poll_retransmit_timer, bs_vars, released>>
         ELSE LET acked    == Confirmed(status)
                  next_ack == (tx_next_ack + Cardinality(acked)) % Mod
                  window   == RewindRetx(Restrict(tx_window, DOMAIN tx_window \ acked))
                  result   == HandleNacks([window |-> window, queue |-> <<>>, sn |-> NoSn,
                                           failure |-> failure], status, next_ack)
              IN  /\ poll_retransmit_timer' =
                       (poll_retransmit_timer /\ TxMod(poll_sn) >= TxMod(status.ack))
                  /\ upper' = [i \in Sdus |->
                       IF \E sn \in acked : tx_window[sn].sdu = i THEN "confirmed"
                       ELSE upper[i]]
                  /\ tx_next_ack' = next_ack
                  /\ tx_window' = result.window
                  /\ retx_queue' = result.queue
                  /\ retx_sn' = NoSn
                  /\ failure' = result.failure
                  /\ released' = \E sn \in DOMAIN result.window :
                       /\ result.window[sn].retx_count = MaxRetxThresh
                       /\ window[sn].retx_count < MaxRetxThresh
                  /\ ForcedBufferStateUpdate

OnExpiredPollRetransmitTimer ==
  /\ poll_retransmit_timer
  /\ poll_retransmit_timer' = FALSE
  /\ UNCHANGED <<upper, tx_next_ack, tx_next, poll_sn, pdu_without_poll,
                 byte_without_poll, retx_sn, failure, data_air, status_air>>
  /\ LET stalled == BuffersEmpty \/ IsTxWindowFull
         found   == tx_next_ack \in DOMAIN tx_window
     IN  /\ IF stalled /\ found
            THEN LET retx == [sn |-> tx_next_ack, so |-> 0,
                              len |-> SduLen[tx_window[tx_next_ack].sdu]]
                 IN  /\ IF Len(retx_queue) < am_window_size
                        THEN /\ retx_queue' = Append(retx_queue, retx)
                             /\ tx_window' = IncrementRetxCount(tx_window, tx_next_ack)
                             /\ released' =
                                  (tx_window'[tx_next_ack].retx_count = MaxRetxThresh)
                        ELSE UNCHANGED <<retx_queue, tx_window, released>>
                     /\ UNCHANGED <<sdu_queue, sn_under_segmentation>>
                     /\ ForcedBufferStateUpdate
            ELSE UNCHANGED <<retx_queue, tx_window, released, bs_vars, sdu_queue,
                             sn_under_segmentation>>
         /\ is_poll_retransmit_timer_expired' =
              (is_poll_retransmit_timer_expired \/ ~stalled \/ found)
==============================================================================
