-------------------------------- MODULE RlcAm --------------------------------
(***************************************************************************)
(* One direction of an RLC AM bearer: the sending side of one entity, the   *)
(* receiving side of its peer, and the radio, which loses data and status   *)
(* PDUs.  The timers expire at any time after they were started.            *)
(***************************************************************************)
EXTENDS RlcAmTx, RlcAmRx

CONSTANTS
  MaxGrant,   \* bound: payload a grant has room for
  MaxFit      \* bound: NACKs a grant has room for

ASSUME LinkAssumption == MaxGrant \in Nat \ {0} /\ MaxFit \in Nat

vars == <<tx_vars, rx_vars, data_air, status_air>>

Init ==
  /\ TxInit /\ RxInit
  /\ data_air = <<>> /\ status_air = <<>>

\* A step of one side, as long as the DU has not released the bearer.
Sender(step) == ~released /\ step /\ UNCHANGED rx_vars
Receiver(step) == ~released /\ step /\ UNCHANGED tx_vars

Next ==
  \/ \E i \in Sdus : Sender(HandleSdu(i)) \/ Sender(DiscardSdu(i))
  \/ \E grant \in 0..MaxGrant : Sender(PullPdu(grant))
  \/ Sender(UpdateMacBufferState)
  \/ Sender(HandleStatusPdu)
  \/ Sender(OnExpiredPollRetransmitTimer)
  \/ Receiver(HandleDataPdu)
  \/ Receiver(OnExpiredReassemblyTimer)
  \/ Receiver(UpdateOwnBufferState)
  \/ Receiver(OtherDirection)
  \/ Receiver(GetStatusPdu)
  \/ \E fit \in 0..MaxFit : Receiver(SendStatusPdu(fit))
  \/ Receiver(OnExpiredStatusProhibitTimer)

Spec == Init /\ [][Next]_vars

(***************************************************************************)
(* The executors and the timers go on, MAC grants a bearer that it knows to *)
(* have bytes, with room for payload, and a PDU in flight arrives.  Nothing *)
(* is assumed of the radio: it may lose every PDU.                          *)
(***************************************************************************)
Fairness ==
  /\ WF_vars(Sender(UpdateMacBufferState))
  /\ WF_vars(Sender(HandleStatusPdu))
  /\ WF_vars(Sender(OnExpiredPollRetransmitTimer))
  /\ WF_vars(Sender(\E grant \in 1..MaxGrant : PullPdu(grant)))
  /\ WF_vars(Receiver(HandleDataPdu))
  /\ WF_vars(Receiver(OnExpiredReassemblyTimer))
  /\ WF_vars(Receiver(OnExpiredStatusProhibitTimer))
  /\ WF_vars(Receiver(UpdateOwnBufferState))
  /\ WF_vars(Receiver(status_told /\ GetStatusPdu))
  /\ WF_vars(Receiver(\E fit \in 0..MaxFit : SendStatusPdu(fit)))

FairSpec == Spec /\ Fairness

------------------------------------------------------------------------------
\* A data PDU in flight carries a sequence number.
AirTyped == \A n \in 1..Len(data_air) : data_air[n].sn \in SN

TypeOK ==
  /\ AirTyped
  /\ upper \in [Sdus -> {"new", "accepted", "dropped", "discarded", "confirmed"}]
  /\ sdu_queue \in Seq(Sdus) /\ Len(sdu_queue) <= QueueSize
  /\ {tx_next_ack, tx_next, poll_sn} \subseteq SN
  /\ DOMAIN tx_window \subseteq SN
  /\ \A sn \in DOMAIN tx_window :
       tx_window[sn] \in [sdu : Sdus, next_so : Nat,
                          retx_count : -1..MaxRetxThresh]
  /\ sn_under_segmentation \in SN \cup {NoSn} /\ retx_sn \in SN \cup {NoSn}
  /\ retx_queue \in Seq([sn : SN, so : Nat, len : Nat \ {0}])
  /\ Len(retx_queue) <= am_window_size
  /\ {rx_next, rx_next_status_trigger, rx_highest_status, rx_next_highest} \subseteq SN
  /\ DOMAIN rx_window \subseteq SN
  /\ status_prohibit \in {"off", "running", "stuck"}
  /\ {status_cached.ack, status_shared.ack} \subseteq SN
  /\ trimmed \in BOOLEAN
  /\ delivered \in [Sdus -> Nat]

\* With an honest peer no srsran_assert of the two entities fails, no missing
\* SN is looked up in a window, no delivered SDU lacks bytes or mixes those of
\* two, and on_protocol_failure is never called.
NoFailure == ~failure /\ ~rx_failure

\* The SDU under segmentation is the one with SN tx_next, in the window, with
\* its first byte sent and its last one not (the sanity checks of
\* build_continued_sdu_segment); a queued retransmission is of bytes that were
\* sent, of an SDU in the window (the sanity checks of build_retx_pdu, and
\* "avoid RETX overtaking the original" in handle_nack).
RetxIsOfSentBytes ==
  /\ sn_under_segmentation # NoSn =>
       /\ sn_under_segmentation = tx_next /\ tx_next \in DOMAIN tx_window
       /\ tx_window[tx_next].next_so \in 1..(SduLen[tx_window[tx_next].sdu] - 1)
  /\ \A n \in 1..Len(retx_queue) :
       LET retx == retx_queue[n]
       IN  /\ retx.sn \in DOMAIN tx_window
           /\ retx.so + retx.len <=
                IF retx.sn = sn_under_segmentation THEN tx_window[retx.sn].next_so
                ELSE SduLen[tx_window[retx.sn].sdu]

\* The state variables of handle_data_pdu and of the reassembly timer stay in
\* the order RX_Next <= RX_Highest_Status <= RX_Next_Highest <= RX_Next +
\* AM_Window_Size, RX_Next and RX_Highest_Status are not fully received, and
\* the window holds only SNs from RX_Next to RX_Next_Highest.
RxStateOrdered ==
  LET Rel(sn) == Ahead(sn, rx_next)
  IN  /\ Rel(rx_highest_status) <= Rel(rx_next_highest)
      /\ Rel(rx_next_highest) <= am_window_size
      /\ ~Received(rx_window, rx_next) /\ ~Received(rx_window, rx_highest_status)
      /\ \A sn \in DOMAIN rx_window : Rel(sn) < Rel(rx_next_highest)

\* What the receiver has is what the sender has sent: no SN that the receiver
\* waits for is confirmed, and none beyond TX_Next was received.
WindowsAgree ==
  /\ Ahead(rx_next, tx_next_ack) <= Ahead(tx_next, tx_next_ack)
  /\ Ahead(rx_next_highest, rx_next) <= Ahead(tx_next + 1, rx_next)

\* MAC is never left unaware of something to send, bytes or a status report
\* that is required: it knows, or an update_mac_buffer_state is queued, or
\* the executor has refused one and pending_buffer_state is still set.
NoLostWakeup ==
  /\ BytesToSend =>
       bs_reported \/ bs_updates > 0 \/ (Refusals /\ pending_buffer_state)
  /\ StatusReportRequired =>
       status_told \/ own_updates > 0 \/ (Refusals /\ own_pending)

\* An SDU that followed all that wait for an acknowledgement was discarded.
DiscardedBehind ==
  \E i \in Sdus :
    /\ upper[i] = "discarded"
    /\ \A sn \in DOMAIN tx_window : tx_window[sn].sdu < i

\* Data that waits for an acknowledgement with nothing left to send is guarded
\* by t-PollRetransmit: status reports never stop the timer and leave the
\* sender with no reason to act.  There are three exceptions.  An SDU behind
\* all that wait was discarded: while it is in the internal queue the last PDU
\* goes out without a poll, and nothing makes up for it.  A poll is still owed
\* after the timer expired with something in a queue, were it a discarded SDU
\* or a retransmission that is called off.  A trimmed report calls off
\* retransmissions that it says nothing of.
NoSilentStall ==
  DOMAIN tx_window # {} /\ ~BytesToSend =>
    \/ poll_retransmit_timer
    \/ DiscardedBehind
    \/ is_poll_retransmit_timer_expired
    \/ trimmed

Peer == INSTANCE RlcAmService WITH Count <- Len(SduLen), upper <- upper,
                                   delivered <- delivered

\* The bearer keeps the promises of RlcAmService: at most one delivery, and
\* on_delivered_sdu only for SDUs the peer delivered, in order.
ServiceSpec == Peer!Service

\* get_polling_bit and on_expired_poll_retransmit_timer: once t-PollRetransmit
\* has expired with data unacknowledged, the sender includes "a poll in an AMD
\* PDU", unless a status report settles that data first, and apart from the
\* stall behind a discarded SDU that NoSilentStall excepts.
ExpiryIsFollowedByPoll ==
  is_poll_retransmit_timer_expired
    ~> \/ ~is_poll_retransmit_timer_expired
       \/ DOMAIN tx_window = {}
       \/ released
       \/ DiscardedBehind

==============================================================================
