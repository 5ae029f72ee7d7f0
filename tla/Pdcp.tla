-------------------------------- MODULE Pdcp --------------------------------
(***************************************************************************)
(* A downlink AM DRB: PDCP in the CU-UP, F1-U, the SDU queue of RLC in the  *)
(* DU, RLC AM and PDCP at the peer.  The peer's PDCP is modelled by the     *)
(* receiving entity of this repository, which the CU-UP has for the uplink. *)
(* F1-U loses messages.  RLC AM does what RlcAmService promises: it         *)
(* delivers every SDU it has sent, in any order, and confirms in order.     *)
(*                                                                         *)
(* An RRC re-establishment replaces the F1-U bearer in a first modification *)
(* of the PDU session, which disconnects PDCP from it, and connects it and  *)
(* re-establishes PDCP in a second one.  RLC and the DU's side of F1-U are  *)
(* new then, and what was in flight is gone.                                *)
(***************************************************************************)
EXTENDS PdcpTx, PdcpRx, F1u

CONSTANTS
  Start,          \* a COUNT the bearer has reached with nothing outstanding
  RlcWindow,      \* bound: SDUs that RLC has sent and not confirmed
  FiniteDiscard,  \* is the discard timer finite?
  StatusReports,  \* does the peer send status reports?
  F1uLoss,        \* does F1-U lose messages?
  MaxMessages,    \* bound: messages in flight before PDCP sends another one
  MaxReports,     \* bound: data delivery status messages in flight
  MaxReests       \* bound: RRC re-establishments

ASSUME PdcpAssumption ==
  /\ Start \in Nat /\ Start < MaxCountHard
  /\ {RlcWindow, MaxMessages, MaxReports} \subseteq Nat \ {0} /\ MaxReests \in Nat
  /\ {FiniteDiscard, StatusReports, F1uLoss} \subseteq BOOLEAN

VARIABLES
  tx,         \* PdcpTx
  connected,  \* pdcp_f1u_adapter: f1u_handler # nullptr
  cu,         \* F1u, the side of the CU-UP
  dl_f1u,     \* messages from the CU-UP to the DU
  du,         \* F1u, the side of the DU
  ul_f1u,     \* data delivery status messages from the DU to the CU-UP
  old_ul,     \* those left on ue_ul_exec by F1-U bearers that were replaced
  sdu_queue,  \* of RLC
  rlc,        \* SDUs that RLC has sent and not confirmed: [count, retx, got]
  rx,         \* PdcpRx
  delivered,  \* COUNTs that the peer's upper layers got, in order
  report,     \* status reports of the peer on their way: a set of at most one
  lost,       \* COUNTs of PDUs that F1-U lost or the SDU queue refused
  discarded,  \* COUNTs whose discard timer expired
  reests,
  failure     \* the assertion of on_discard_pdu failed

cu_vars == <<tx, connected, cu>>
rlc_vars == <<du, sdu_queue, rlc>>
peer_vars == <<rx, delivered>>
vars == <<cu_vars, dl_f1u, ul_f1u, old_ul, rlc_vars, peer_vars, report, lost,
          discarded, reests, failure>>

Init ==
  /\ tx = TxInit(Start) /\ rx = RxInit(Start)
  /\ connected = TRUE /\ cu = NewCuBearer /\ du = NewDuBearer
  /\ dl_f1u = <<>> /\ ul_f1u = <<>> /\ old_ul = <<>>
  /\ sdu_queue = <<>> /\ rlc = <<>>
  /\ delivered = <<>> /\ report = {} /\ lost = {} /\ discarded = {}
  /\ reests = 0 /\ failure = FALSE

------------------------------------------------------------------------------
(* The CU-UP.                                                                *)

\* The PDUs between the CU-UP and the peer, and those whose delivery PDCP is
\* still to be notified of.
Outstanding ==
  ({msg.pdu : msg \in ToSet(dl_f1u)} \ {NoCount})
    \cup {sdu.count : sdu \in ToSet(sdu_queue) \cup ToSet(rlc)}
    \cup {dl \in {status.dl : status \in ToSet(ul_f1u) \cup {du}} :
            IsNews(cu.notif_dl, dl)}
    \cup ({status.dl : status \in ToSet(old_ul)} \ {NoCount})

\* Upper layers do not send so fast that the peer gets a window behind (its
\* t-Reordering is shorter than the time a window of SDUs takes), nor that an SN
\* is used again while a PDU or a delivery notification with it is on its way.
Paced ==
  /\ tx.next < rx.deliv + window_size
  /\ \A count \in Outstanding : tx.next < count + SnMod

\* handle_sdu; the adapter drops the PDU while F1-U is not connected.
HandleSdu ==
  /\ Paced /\ ~TxRefuses(tx) /\ Len(dl_f1u) < MaxMessages
  /\ tx' = TxHandleSdu(tx)
  /\ IF connected
     THEN /\ dl_f1u' = Append(dl_f1u, DlMessage(cu, tx.next, FALSE))
          /\ cu' = [cu EXCEPT !.blocks = {}]
     ELSE UNCHANGED <<dl_f1u, cu>>
  /\ UNCHANGED <<connected, ul_f1u, old_ul, rlc_vars, peer_vars, report, lost,
                 discarded, reests, failure>>

\* discard_pdu and on_discard_pdu, which asserts that F1-U is connected.
Discard(counts) ==
  LET gone == Discardable(tx, counts)
  IN  /\ tx' = DiscardPdus(tx, counts)
      /\ cu' = DiscardSdus(cu, gone)
      /\ failure' = (gone # {} /\ ~connected)

DiscardTimerExpired ==
  /\ FiniteDiscard
  /\ \E count \in tx.window :
       Discard({count}) /\ discarded' = discarded \cup {count}
  /\ UNCHANGED <<connected, dl_f1u, ul_f1u, old_ul, rlc_vars, peer_vars,
                 report, lost, reests>>

\* handle_control_pdu of the receiving side and handle_status_report.
HandleStatusReport ==
  /\ \E r \in report : Discard(ReportedAsReceived(tx, r))
  /\ report' = {}
  /\ UNCHANGED <<connected, dl_f1u, ul_f1u, old_ul, rlc_vars, peer_vars, lost,
                 discarded, reests>>

\* on_expired_dl_notif_timer
FlushDiscardBlocks ==
  /\ cu.blocks # {} /\ Len(dl_f1u) < MaxMessages
  /\ dl_f1u' = Append(dl_f1u, DlMessage(cu, NoCount, FALSE))
  /\ cu' = [cu EXCEPT !.blocks = {}]
  /\ UNCHANGED <<tx, connected, ul_f1u, old_ul, rlc_vars, peer_vars, report,
                 lost, discarded, reests, failure>>

\* handle_pdu_impl: the transmit notification, then the delivery notification,
\* of what is news.
Notified(status) ==
  LET tx1 == IF status.tx = NoCount THEN tx
             ELSE HandleTransmitNotification(tx, SN(status.tx))
  IN  IF status.dl = NoCount THEN tx1
      ELSE HandleDeliveryNotification(tx1, SN(status.dl))

HandleUlMessage ==
  /\ old_ul = <<>> /\ ul_f1u # <<>>
  /\ tx' = Notified(News(cu, Head(ul_f1u)))
  /\ cu' = HandleDeliveryStatus(cu, Head(ul_f1u))
  /\ ul_f1u' = Tail(ul_f1u)
  /\ UNCHANGED <<connected, dl_f1u, old_ul, rlc_vars, peer_vars, report, lost,
                 discarded, reests, failure>>

\* handle_pdu_impl of a bearer that is no more: undefined behaviour.  It may
\* find the bearer as it was, find something else, or bring the CU-UP down.
HandleOldUlMessage ==
  /\ old_ul # <<>>
  /\ tx' \in {tx, Notified(Head(old_ul))}
  /\ old_ul' = Tail(old_ul)
  /\ UNCHANGED <<connected, cu, dl_f1u, ul_f1u, rlc_vars, peer_vars, report,
                 lost, discarded, reests, failure>>

\* The first modification: new_ul_tnl_info_required.  The tasks of handle_pdu
\* stay on ue_ul_exec with the bearer that they capture.
ReplaceF1u ==
  /\ connected /\ reests < MaxReests
  /\ connected' = FALSE /\ cu' = NewCuBearer
  /\ dl_f1u' = <<>> /\ ul_f1u' = <<>> /\ report' = {}
  /\ old_ul' = old_ul \o [i \in DOMAIN ul_f1u |-> News(cu, ul_f1u[i])]
  /\ du' = NewDuBearer /\ sdu_queue' = <<>> /\ rlc' = <<>>
  /\ reests' = reests + 1
  /\ UNCHANGED <<tx, peer_vars, lost, discarded, failure>>

\* The second one: dl_up_params and pdcp_reest.  The peer may report what it
\* has received.  What is sent again is not lost any longer, if PDCP keeps it.
ReestablishPdcp ==
  /\ ~connected
  /\ connected' = TRUE
  /\ tx' = TxReestablish(tx)
  /\ dl_f1u' = dl_f1u \o [i \in DOMAIN Ascending(Retransmitted(tx)) |->
                            DlMessage(cu, Ascending(Retransmitted(tx))[i], TRUE)]
  /\ lost' = {c \in lost : \/ c \notin Retransmitted(tx)
                           \/ \E i \in DOMAIN old_ul : c <= old_ul[i].dl}
  /\ report' = IF StatusReports THEN {CompileStatusReport(rx)} ELSE {}
  /\ UNCHANGED <<cu, ul_f1u, old_ul, rlc_vars, peer_vars, discarded, reests,
                 failure>>

------------------------------------------------------------------------------
(* F1-U and the DU.                                                          *)

DuHandleMessage ==
  /\ dl_f1u # <<>> /\ dl_f1u' = Tail(dl_f1u)
  /\ sdu_queue' = DuHandlePdu(sdu_queue, Head(dl_f1u))
  /\ lost' = IF QueueRefuses(sdu_queue, Head(dl_f1u).pdu)
             THEN lost \cup ({Head(dl_f1u).pdu} \ {NoCount}) ELSE lost
  /\ UNCHANGED <<cu_vars, ul_f1u, old_ul, du, rlc, peer_vars, report,
                 discarded, reests, failure>>

\* F1-U loses a message, or the DU's executor has no room for it.
LoseDlMessage ==
  /\ F1uLoss /\ dl_f1u # <<>> /\ dl_f1u' = Tail(dl_f1u)
  /\ lost' = lost \cup ({Head(dl_f1u).pdu} \ {NoCount})
  /\ UNCHANGED <<cu_vars, ul_f1u, old_ul, rlc_vars, peer_vars, report,
                 discarded, reests, failure>>

\* RLC reads an SDU from its queue and sends it: handle_transmit_notification
\* stores the SN of an original.
RlcTransmit ==
  /\ Len(rlc) < RlcWindow
  /\ LET n == QueueReads(sdu_queue)
     IN  /\ n # 0
         /\ sdu_queue' = SubSeq(sdu_queue, n + 1, Len(sdu_queue))
         /\ rlc' = Append(rlc, [count |-> sdu_queue[n].count,
                                retx |-> sdu_queue[n].retx, got |-> FALSE])
         /\ du' = IF sdu_queue[n].retx THEN du
                  ELSE [du EXCEPT !.tx = sdu_queue[n].count]
  /\ UNCHANGED <<cu_vars, dl_f1u, ul_f1u, old_ul, peer_vars, report, lost,
                 discarded, reests, failure>>

\* RLC confirms the oldest SDU: handle_delivery_notification.
RlcDelivered ==
  /\ rlc # <<>> /\ Head(rlc).got /\ rlc' = Tail(rlc)
  /\ du' = IF Head(rlc).retx THEN du ELSE [du EXCEPT !.dl = Head(rlc).count]
  /\ UNCHANGED <<cu_vars, dl_f1u, ul_f1u, old_ul, sdu_queue, peer_vars, report,
                 lost, discarded, reests, failure>>

\* on_expired_ul_notif_timer, or an uplink PDU that carries the status.
SendDeliveryStatus ==
  /\ du # NewDuBearer /\ Len(ul_f1u) < MaxReports
  /\ ul_f1u' = Append(ul_f1u, du)
  /\ UNCHANGED <<cu_vars, dl_f1u, old_ul, rlc_vars, peer_vars, report, lost,
                 discarded, reests, failure>>

LoseUlMessage ==
  /\ F1uLoss
  /\ \/ ul_f1u # <<>> /\ ul_f1u' = Tail(ul_f1u) /\ UNCHANGED report
     \/ report # {} /\ report' = {} /\ UNCHANGED ul_f1u
  /\ UNCHANGED <<cu_vars, dl_f1u, old_ul, rlc_vars, peer_vars, lost, discarded,
                 reests, failure>>

------------------------------------------------------------------------------
(* The peer.                                                                 *)

PeerHandlePdu ==
  /\ \E i \in DOMAIN rlc :
       LET count == rlc[i].count
           rx2   == RxHandleDataPdu(rx, count)
       IN  /\ ~rlc[i].got /\ rlc' = [rlc EXCEPT ![i].got = TRUE]
           /\ IF RxDrops(rx, count) THEN UNCHANGED peer_vars
              ELSE /\ rx' = rx2
                   /\ delivered' = delivered \o RxDelivers(rx, rx2, {count})
  /\ UNCHANGED <<cu_vars, dl_f1u, ul_f1u, old_ul, du, sdu_queue, report, lost,
                 discarded, reests, failure>>

TReorderingExpired ==
  /\ rx.timer
  /\ rx' = RxHandleTReorderingExpire(rx)
  /\ delivered' = delivered \o RxDelivers(rx, rx', {})
  /\ UNCHANGED <<cu_vars, dl_f1u, ul_f1u, old_ul, rlc_vars, report, lost,
                 discarded, reests, failure>>

------------------------------------------------------------------------------
Next ==
  /\ ~failure
  /\ \/ HandleSdu \/ DiscardTimerExpired \/ HandleStatusReport
     \/ FlushDiscardBlocks \/ HandleUlMessage \/ HandleOldUlMessage
     \/ ReplaceF1u \/ ReestablishPdcp
     \/ DuHandleMessage \/ LoseDlMessage \/ LoseUlMessage
     \/ RlcTransmit \/ RlcDelivered \/ SendDeliveryStatus
     \/ PeerHandlePdu \/ TReorderingExpired

Spec == Init /\ [][Next]_vars

(***************************************************************************)
(* The executors, the periodic timers and t-Reordering go on, RLC delivers  *)
(* and confirms what it has sent, and the second modification follows the   *)
(* first.  Nothing is assumed of upper layers or of the discard timer.      *)
(***************************************************************************)
Fairness ==
  /\ WF_vars(HandleStatusReport) /\ WF_vars(FlushDiscardBlocks)
  /\ WF_vars(HandleUlMessage) /\ WF_vars(HandleOldUlMessage)
  /\ WF_vars(ReestablishPdcp)
  /\ WF_vars(DuHandleMessage) /\ WF_vars(RlcTransmit) /\ WF_vars(RlcDelivered)
  /\ WF_vars(SendDeliveryStatus)
  /\ WF_vars(PeerHandlePdu) /\ WF_vars(TReorderingExpired)

FairSpec == Spec /\ Fairness

------------------------------------------------------------------------------
\* The state variables stay in order, as the loops and the unsigned differences
\* of both entities need: TX_NEXT_ACK <= TX_TRANS <= TX_NEXT with the window in
\* between; t-Reordering runs when something is missing and only then, with
\* RX_DELIV < RX_REORD <= RX_NEXT, so that the loop of its expiry ends.
StateOrdered ==
  /\ tx.next_ack <= tx.trans /\ tx.trans <= tx.next
  /\ tx.window \subseteq tx.next_ack..(tx.next - 1)
  /\ rx.timer <=> rx.deliv < rx.next
  /\ rx.timer => rx.deliv < rx.reord /\ rx.reord <= rx.next
  /\ rx.window \subseteq (rx.deliv + 1)..(rx.next - 1)
  /\ rx.next <= tx.next

\* The peer's upper layers get SDUs in the order of their COUNTs and none twice,
\* whatever is retransmitted and however t-Reordering expires.
InOrderDelivery ==
  \A i, j \in DOMAIN delivered : i < j => delivered[i] < delivered[j]

\* PDCP gives up no SDU that it may still have to retransmit: every SDU it
\* accepted is in tx_window or has reached the peer, unless F1-U lost its PDU,
\* the SDU queue of RLC refused it, its discard timer expired or the peer's
\* t-Reordering did.  A PDU whose COUNT the peer estimates wrongly never gets
\* there.
NothingLost ==
  \A count \in Start..(tx.next - 1) :
    \/ count \in tx.window \cup rx.window \cup ToSet(delivered)
    \/ count \in lost \cup discarded
    \/ count < rx.deliv

\* handle_delivery_retransmitted_notification ignores retransmitted PDUs: "For
\* now those retransmitted PDUs will be cleaned when handling delivery
\* notification for following originals."  So following originals must become
\* possible: again and again handle_sdu does not drop SDUs for the state of
\* tx_window.
SendingResumes ==
  []<>(/\ tx.next - tx.trans < RlcSduQueue
       /\ tx.next - tx.trans < window_size - 1)

\* on_discard_pdu of pdcp_f1u_adapter: "F1-U handler must not be nullptr".
DiscardFindsF1u == ~failure
=============================================================================
