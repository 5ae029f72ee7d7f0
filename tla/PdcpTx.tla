------------------------------- MODULE PdcpTx -------------------------------
(***************************************************************************)
(* The transmitting PDCP entity of an AM DRB with a discard timer           *)
(* (srsRAN/lib/pdcp/pdcp_entity_tx.cpp), as operators on its state          *)
(*   [next, trans, next_ack, window]                                        *)
(* where window is the set of the COUNTs whose SDUs are kept.  All of the   *)
(* handlers run on one strand of the CU-UP, so each is atomic.  Ciphering   *)
(* and header writing are left out, as are the allocations that can fail in *)
(* them, the metrics and the test mode.                                     *)
(***************************************************************************)
EXTENDS PdcpSn

CONSTANTS
  RlcSduQueue,   \* cfg.custom.rlc_sdu_queue
  MaxCountHard   \* cfg.custom.max_count.hard: no SDU has a COUNT beyond it

ASSUME TxAssumption ==
  /\ RlcSduQueue \in Nat \ {0}
  /\ MaxCountHard \in Nat /\ MaxCountHard < CountMod

TxInit(start) ==
  [next |-> start, trans |-> start, next_ack |-> start, window |-> {}]

\* Is an SDU from upper layers dropped?  At MaxCountHard the entity also tells
\* its upper layers, which ignore it.
TxRefuses(tx) ==
  \/ tx.trans > tx.next
  \/ tx.next - tx.trans >= RlcSduQueue
  \/ tx.next - tx.trans >= window_size - 1
  \/ tx.next >= MaxCountHard

\* tx_window is a circular_map: its elements live in slot COUNT % window_size,
\* but contains() compares the whole COUNT, so that has_sn(tx_next) is false
\* when the slot is taken by an older COUNT, which add_sn then overwrites.
AddToWindow(window, count) ==
  {c \in window : c % window_size # count % window_size} \cup {count}

\* handle_sdu, for an SDU that is not dropped; its PDU goes to lower layers.
TxHandleSdu(tx) ==
  [tx EXCEPT !.window = AddToWindow(tx.window, tx.next), !.next = tx.next + 1]

\* Mutant of TransInWindow: TX_TRANS stays behind.
TransLeftBehind(tx) == tx

\* The end of stop_discard_timer and of discard_pdu.
TransInWindow(tx) ==
  IF tx.trans < tx.next_ack THEN [tx EXCEPT !.trans = tx.next_ack] ELSE tx

\* stop_discard_timer: everything up to a COUNT was delivered.
StopDiscardTimer(tx, highest) ==
  IF highest < tx.next_ack \/ highest >= tx.next THEN tx
  ELSE TransInWindow([tx EXCEPT
         !.window = {c \in tx.window : c < tx.next_ack \/ c > highest},
         !.next_ack = highest + 1])

\* discard_pdu, for each of a set of COUNTs.  Those that are not in the window
\* are passed over; Discardable are the others, which lower layers hear of.
Discardable(tx, counts) ==
  {c \in counts \cap tx.window : tx.next_ack <= c /\ c < tx.next}

DiscardPdus(tx, counts) ==
  LET window == tx.window \ Discardable(tx, counts)
      kept   == {c \in window : tx.next_ack <= c /\ c < tx.next}
  IN  IF Discardable(tx, counts) = {} THEN tx
      ELSE TransInWindow([tx EXCEPT !.window = window,
                                    !.next_ack = Min(kept \cup {tx.next})])

\* A transmit and a delivery notification of lower layers, which name an SN.
\* The ones about retransmitted PDUs are ignored.
HandleTransmitNotification(tx, sn) ==
  LET count == CountEstimate(tx.next_ack, sn)
  IN  IF count < tx.trans \/ count >= tx.next THEN tx
      ELSE [tx EXCEPT !.trans = count + 1]

HandleDeliveryNotification(tx, sn) ==
  LET count == CountEstimate(tx.next_ack, sn)
  IN  IF count >= tx.next THEN tx ELSE StopDiscardTimer(tx, count)

\* Mutant of ReportedAsReceived: the first missing COUNT is taken as received.
ReportedUpToFmc(tx, report) ==
  {c \in tx.window : c <= report.fmc} \cup report.received

\* handle_status_report discards the COUNTs below fmc and those in the bitmap.
ReportedAsReceived(tx, report) ==
  {c \in tx.window : c < report.fmc} \cup report.received

\* reestablish of an AM DRB is retransmit_all_pdus: the window is sent again, in
\* ascending order.
TxReestablish(tx) == [tx EXCEPT !.trans = tx.next_ack]
Retransmitted(tx) == {c \in tx.window : tx.next_ack <= c /\ c < tx.next}
=============================================================================
