-------------------------------- MODULE F1u --------------------------------
(***************************************************************************)
(* The F1-U bearer between the CU-UP and the DU, and the SDU queue of RLC   *)
(* that it fills: srsRAN/lib/f1u/cu_up/f1u_bearer_impl.cpp,                 *)
(* lib/f1u/du/f1u_bearer_impl.cpp and lib/rlc/rlc_sdu_queue_lockfree.h.     *)
(*                                                                         *)
(* The CU-UP's bearer is [notif_tx, notif_dl, blocks]: the SNs it notified  *)
(* PDCP of last, and the COUNTs whose discard it has not told the DU yet.   *)
(* Joining SNs to blocks is left out; so is flushing blocks when there are  *)
(* too many, which is like the expiry of dl_notif_timer at that moment.     *)
(* The DU's bearer is [tx, dl]: the PDUs of the last notifications of RLC.  *)
(* It also passes on what RLC says of retransmitted PDUs and the desired    *)
(* buffer size, but PDCP ignores the one and nobody reads the other.        *)
(* Messages name PDUs by their COUNT; the SN in them is SN(count).          *)
(***************************************************************************)
EXTENDS PdcpSn, SequencesExt

CONSTANT QueueSize   \* cfg.queue_size: capacity of the SDU queue of RLC

ASSUME QueueAssumption == QueueSize \in Nat \ {0}

NoCount == -1   \* unset_pdcp_sn, or a message without T-PDU

NewCuBearer == [notif_tx |-> NoCount, notif_dl |-> NoCount, blocks |-> {}]
NewDuBearer == [tx |-> NoCount, dl |-> NoCount]

\* discard_sdu, for each of a set of COUNTs.
DiscardSdus(cu, counts) == [cu EXCEPT !.blocks = @ \cup counts]

\* What the CU-UP's bearer sends: a PDU (handle_sdu) or only discards
\* (flush_discard_blocks); the pending discards go with both.
DlMessage(cu, count, is_retx) ==
  [pdu |-> count, retx |-> is_retx, discard |-> cu.blocks]

\* Does a data delivery status hold an SN that PDCP has not been told of?
IsNews(notified, count) == count # NoCount /\ SN(count) # notified

\* The part of it that is news.
News(cu, status) ==
  [tx |-> IF IsNews(cu.notif_tx, status.tx) THEN status.tx ELSE NoCount,
   dl |-> IF IsNews(cu.notif_dl, status.dl) THEN status.dl ELSE NoCount]

HandleDeliveryStatus(cu, status) ==
  [cu EXCEPT !.notif_tx = IF IsNews(@, status.tx) THEN SN(status.tx) ELSE @,
             !.notif_dl = IF IsNews(@, status.dl) THEN SN(status.dl) ELSE @]

------------------------------------------------------------------------------
(* The SDU queue of RLC: [count, retx, discarded].                           *)

Slot(count) == SN(count) % QueueSize

QueueRefuses(queue, count) ==
  \/ Len(queue) >= QueueSize
  \/ \E i \in DOMAIN queue : Slot(queue[i].count) = Slot(count)

QueueWrite(queue, count, is_retx) ==
  Append(queue, [count |-> count, retx |-> is_retx, discarded |-> FALSE])

\* try_discard, for each of a set of COUNTs: the SDU keeps its place.
QueueDiscard(queue, counts) ==
  [i \in DOMAIN queue |->
     IF SN(queue[i].count) \in {SN(c) : c \in counts}
     THEN [queue[i] EXCEPT !.discarded = TRUE] ELSE queue[i]]

\* read drops discarded SDUs up to the first one that is valid.
QueueReads(queue) == SelectInSeq(queue, LAMBDA sdu : ~sdu.discarded)

\* The DU's handle_pdu_impl: first the PDU, then the discards.
DuHandlePdu(queue, msg) ==
  LET with == IF msg.pdu = NoCount \/ QueueRefuses(queue, msg.pdu) THEN queue
              ELSE QueueWrite(queue, msg.pdu, msg.retx)
  IN  QueueDiscard(with, msg.discard)
=============================================================================
