------------------------------- MODULE PdcpRx -------------------------------
(***************************************************************************)
(* The receiving PDCP entity (srsRAN/lib/pdcp/pdcp_entity_rx.cpp), with a   *)
(* t-Reordering that is neither 0 nor infinite, as operators on its state   *)
(*   [deliv, next, reord, timer, window]                                    *)
(* where window is the set of the COUNTs of the SDUs it keeps.  What goes   *)
(* to upper layers is a sequence of COUNTs.  A PDU whose COUNT was          *)
(* estimated wrongly fails the integrity check and is dropped.              *)
(***************************************************************************)
EXTENDS PdcpSn, SequencesExt

RxInit(start) ==
  [deliv |-> start, next |-> start, reord |-> start, timer |-> FALSE,
   window |-> {}]

\* The ascending sequence of a set of COUNTs.
Ascending(counts) ==
  CHOOSE s \in [1..Cardinality(counts) -> counts] :
    \A i, j \in DOMAIN s : i < j => s[i] < s[j]

\* deliver_all_consecutive_counts, from deliv on: the first one that is missing.
FirstGap(window, deliv, next) ==
  Min({c \in deliv..next : c = next \/ c \notin window})

\* The state after every SDU below a COUNT was delivered or given up.
DeliverBelow(rx, count) ==
  [rx EXCEPT !.deliv = count, !.window = {c \in rx.window : c >= count}]

\* The end of handle_data_pdu and of handle_t_reordering_expire.
HandleReorderingTimer(rx, running) ==
  IF ~running /\ rx.deliv < rx.next
  THEN [rx EXCEPT !.reord = rx.next, !.timer = TRUE]
  ELSE [rx EXCEPT !.timer = running]

\* Mutant of RxDrops: a PDU from before RX_DELIV is taken.
DropsDuplicates(rx, count) ==
  CountEstimate(rx.deliv, SN(count)) # count \/ count \in rx.window

\* Is the data PDU dropped?  It is the one sent with that COUNT.
RxDrops(rx, count) ==
  LET rcvd == CountEstimate(rx.deliv, SN(count))
  IN  rcvd # count \/ rcvd < rx.deliv \/ rcvd \in rx.window

\* handle_data_pdu, for a PDU that is not dropped.  rx_window is a
\* circular_map as well: see PdcpTx!AddToWindow.
RxHandleDataPdu(rx, count) ==
  LET window == {c \in rx.window : c % window_size # count % window_size}
                  \cup {count}
      stored == [rx EXCEPT !.window = window,
                           !.next = IF count >= rx.next THEN count + 1 ELSE @]
      after  == IF count = rx.deliv
                THEN DeliverBelow(stored, FirstGap(window, rx.deliv, stored.next))
                ELSE stored
  IN  HandleReorderingTimer(after, rx.timer /\ after.deliv < after.reord)

\* handle_t_reordering_expire
RxHandleTReorderingExpire(rx) ==
  HandleReorderingTimer(
    DeliverBelow(rx, FirstGap(rx.window, rx.reord, rx.next)), FALSE)

\* The SDUs that a step delivers: those it removes from the window, and the
\* one that has just arrived.
RxDelivers(rx, rx2, arrived) ==
  Ascending({c \in rx.window \cup arrived : c < rx2.deliv})

\* compile_status_report
CompileStatusReport(rx) ==
  [fmc |-> rx.deliv, received |-> {c \in rx.window : c > rx.deliv /\ c < rx.next}]
=============================================================================
