------------------------------- MODULE RlcAmRx -------------------------------
(***************************************************************************)
(* The receiving side of RLC AM (srsRAN/lib/rlc/rlc_rx_am_entity.cpp) and   *)
(* what the sending side of the same entity does with its status reports.   *)
(* The data PDU handler and the timers run on ue_executor, one at a time.   *)
(* The status report is pulled by MAC on another thread: get_status_pdu     *)
(* clears do_status in one step and swaps the report buffers, under         *)
(* status_report_mutex, in a later one.                                     *)
(*                                                                         *)
(* The segments of an SDU are the set of bytes received: store_segment      *)
(* trims what overlaps, and keeps a segment unless every byte of it is      *)
(* there.  The third report buffer, status_builder, is reset before use.    *)
(***************************************************************************)
EXTENDS RlcAmStatus

CONSTANTS
  MaxSnPerStatus,  \* max_nof_sn_per_status_report
  PullRefusals,    \* may ue_executor refuse to start t-StatusProhibit?
  MaxUpdates       \* bound: buffer state updates of this entity in a queue

ASSUME RxAssumption ==
  /\ MaxSnPerStatus \in 1..am_window_size /\ PullRefusals \in BOOLEAN
  /\ MaxUpdates \in Nat

VARIABLES
  rx_next, rx_next_status_trigger, rx_highest_status, rx_next_highest,
  rx_window,
  reassembly_timer,  \* is it running?
  do_status,
  status_prohibit,   \* t-StatusProhibit: "off", "running", or "stuck" when its
                     \* start was refused with the flag already set
  status_cached, status_shared,
  get_pending,       \* get_status_pdu is before its swap
  trimmed,           \* was a report trimmed?
  own_pending,       \* pending_buffer_state of this entity's sending side
  own_updates,       \* its update_mac_buffer_state tasks in a queue
  status_told,       \* MAC knows of a status report to send
  delivered,         \* how often each SDU was delivered
  rx_failure         \* an assertion failed or a delivered SDU was not intact

report_vars == <<status_cached, status_shared>>
told_vars == <<own_pending, own_updates, status_told>>
rx_vars == <<rx_next, rx_next_status_trigger, rx_highest_status,
             rx_next_highest, rx_window, reassembly_timer, do_status,
             status_prohibit, report_vars, get_pending, trimmed, told_vars,
             delivered, rx_failure>>

FullyReceived(info) == info.last /\ info.got = 0..Max(info.got)
HasGap(info) == info.got # 0..Max(info.got)
Received(window, sn) == sn \in DOMAIN window /\ FullyReceived(window[sn])

\* At Start > 0 the last report is in status_shared and the one before it,
\* already sent, in status_cached.  At 0 only status_cached is initialised,
\* and INVALID_RLC_SN is packed as the highest SN.
RxInit ==
  /\ rx_next = Start /\ rx_highest_status = Start /\ rx_next_highest = Start
  /\ rx_next_status_trigger = 0
  /\ rx_window = <<>>
  /\ reassembly_timer = FALSE
  /\ do_status = FALSE /\ status_prohibit = "off"
  /\ status_cached = [ack |-> IF Start = 0 THEN 0 ELSE Start - 1, nacks |-> <<>>]
  /\ status_shared = [ack |-> IF Start = 0 THEN Mod - 1 ELSE Start, nacks |-> <<>>]
  /\ get_pending = FALSE /\ trimmed = FALSE
  /\ own_pending = FALSE /\ own_updates = 0 /\ status_told = FALSE
  /\ delivered = [i \in Sdus |-> 0]
  /\ rx_failure = FALSE

------------------------------------------------------------------------------
(* Building the report.                                                    *)

\* Mutant of FirstMissing: no wrap.
FirstMissingUnwrapped(window, sn, limit, base) ==
  IF Received(window, sn) THEN sn + 1 ELSE sn

\* Mutant of FirstMissing: one SN is passed over and no more.
FirstMissingIsNext(window, sn, limit, base) ==
  IF Received(window, sn) THEN (sn + 1) % Mod ELSE sn

\* The first SN from sn on, and below limit, of which bytes are missing.
FirstMissing(window, sn, limit, base) ==
  LET from == Ahead(sn, base)
      d == CHOOSE d \in from..Max({from, Ahead(limit, base)}) :
             /\ d >= Ahead(limit, base) \/ ~Received(window, (base + d) % Mod)
             /\ \A e \in from..(d - 1) : Received(window, (base + e) % Mod)
  IN  (base + d) % Mod

\* Mutant of PushMissing: bytes are always missing at the end.
PushMissingNeverLast(nacks, window, sn) ==
  PushNack(nacks, IF sn \notin DOMAIN window THEN Nack(sn, 0, EndOfSdu)
                  ELSE Nack(sn, Max(window[sn].got) + 1, EndOfSdu))

\* The NACKs of one SN are added: all of it, or the holes before and after
\* what arrived.  scan[b] has those of the holes that start before byte b.
PushMissing(nacks, window, sn) ==
  IF sn \notin DOMAIN window THEN PushNack(nacks, Nack(sn, 0, EndOfSdu))
  ELSE LET got == window[sn].got
           top == Max(got)
           Starts(b) == b \notin got /\ (b = 0 \/ b - 1 \in got)
           Hole(b) == Nack(sn, b, Min({c \in got : c > b}) - 1)
           scan[b \in 0..top] ==
             IF b = 0 THEN nacks
             ELSE IF Starts(b - 1) THEN PushNack(scan[b - 1], Hole(b - 1))
             ELSE scan[b - 1]
       IN  IF window[sn].last THEN scan[top]
           ELSE PushNack(scan[top], Nack(sn, top + 1, EndOfSdu))

\* visit[d] has the NACKs of the first d SNs.
StatusReport(window, next, highest_status) ==
  LET visited == Min({Ahead(highest_status, next), MaxSnPerStatus})
      visit[d \in 0..visited] ==
        IF d = 0 THEN <<>>
        ELSE LET sn == (next + d - 1) % Mod
             IN  IF Received(window, sn) THEN visit[d - 1]
                 ELSE PushMissing(visit[d - 1], window, sn)
  IN  [ack |-> (next + visited) % Mod, nacks |-> visit[visited]]

RefreshStatusReport ==
  status_cached' = StatusReport(rx_window', rx_next', rx_highest_status')

StatusReportRequired == do_status /\ status_prohibit = "off"

\* handle_changed_buffer_state of this entity's sending side.
OwnBufferStateChanges ==
  IF own_pending THEN UNCHANGED told_vars
  ELSE /\ own_pending' = TRUE
       /\ own_updates' \in {own_updates + 1} \cup (IF Refusals THEN {own_updates} ELSE {})
       /\ UNCHANGED status_told

\* Mutant of NotifyStatusReportChanged: the report is asked for before
\* do_status is written.
NotifyTooEarly ==
  IF StatusReportRequired THEN OwnBufferStateChanges ELSE UNCHANGED told_vars

\* notify_status_report_changed, with do_status already written.
NotifyStatusReportChanged ==
  IF StatusReportRequired' THEN OwnBufferStateChanges ELSE UNCHANGED told_vars

------------------------------------------------------------------------------
(* Data PDUs.                                                              *)

\* The window entry of the SN with the PDU added, and whether it changed.
StoreSdu(info, pdu) ==
  IF pdu.so = 0 /\ pdu.last
  THEN [got |-> 0..(pdu.len - 1), last |-> TRUE, sdus |-> {pdu.sdu}]
  ELSE IF pdu.so..(pdu.so + pdu.len - 1) \subseteq info.got THEN info
  ELSE [got |-> info.got \cup pdu.so..(pdu.so + pdu.len - 1),
        last |-> info.last \/ pdu.last, sdus |-> info.sdus \cup {pdu.sdu}]

StopReassembly(window, next) ==
  \/ rx_next_status_trigger = next
  \/ /\ Ahead(rx_next_status_trigger, next) = Ahead(next + 1, next)
     /\ next \in DOMAIN window => ~HasGap(window[next])
  \/ Ahead(rx_next_status_trigger, next) >= am_window_size

StartReassembly(window, from, next_highest, base) ==
  \/ Ahead(next_highest, base) > Ahead(from + 1, base)
  \/ /\ Ahead(next_highest, base) = Ahead(from + 1, base)
     /\ from \in DOMAIN window /\ HasGap(window[from])

Stored(sn) ==
  IF sn \in DOMAIN rx_window THEN rx_window[sn]
  ELSE [got |-> {}, last |-> FALSE, sdus |-> {}]

\* Mutant of Discarded: an SN that is complete is taken again.
DiscardedOutside(pdu) == Ahead(pdu.sn, rx_next) >= am_window_size

Discarded(pdu) ==
  \/ Ahead(pdu.sn, rx_next) >= am_window_size
  \/ Received(rx_window, pdu.sn)

StatusChanged(pdu) ==
  ~Discarded(pdu) /\ StoreSdu(Stored(pdu.sn), pdu) # Stored(pdu.sn)

PlacePdu(pdu) ==
  LET info     == StoreSdu(Stored(pdu.sn), pdu)
      window   == WithEntry(rx_window, pdu.sn, info)
      highest  == IF Ahead(pdu.sn, rx_next) >= Ahead(rx_next_highest, rx_next)
                  THEN (pdu.sn + 1) % Mod ELSE rx_next_highest
      complete == FullyReceived(info)
      next     == IF complete /\ pdu.sn = rx_next
                  THEN FirstMissing(window, rx_next, highest, rx_next) ELSE rx_next
      kept     == {sn \in DOMAIN window : Ahead(sn, rx_next) >= Ahead(next, rx_next)}
      final    == Restrict(window, kept)
      running  == reassembly_timer /\ ~StopReassembly(final, next)
      starts   == ~running /\ StartReassembly(final, next, highest, next)
  IN  /\ rx_window' = final
      /\ rx_next_highest' = highest
      /\ rx_next' = next
      /\ rx_highest_status' =
           IF complete /\ pdu.sn = rx_highest_status
           THEN FirstMissing(window, (rx_highest_status + 1) % Mod, highest, rx_next)
           ELSE rx_highest_status
      /\ delivered' = IF complete
                      THEN [delivered EXCEPT ![CHOOSE i \in info.sdus : TRUE] = @ + 1]
                      ELSE delivered
      /\ reassembly_timer' = (running \/ starts)
      /\ rx_next_status_trigger' = IF starts THEN highest ELSE rx_next_status_trigger
      /\ rx_failure' = \/ rx_failure
                       \/ /\ reassembly_timer /\ next \notin DOMAIN final
                          /\ Ahead(rx_next_status_trigger, next) = Ahead(next + 1, next)
                       \/ /\ complete
                          /\ ~\E i \in Sdus : /\ info.sdus = {i}
                                              /\ info.got = 0..(SduLen[i] - 1)
      /\ IF StatusChanged(pdu) THEN RefreshStatusReport ELSE UNCHANGED status_cached

HandleDataPdu ==
  \E n \in 1..Len(data_air) :
    LET pdu == data_air[n]
    IN  /\ Arrives(n)
        /\ IF Discarded(pdu)
           THEN UNCHANGED <<rx_next, rx_next_status_trigger, rx_highest_status,
                            rx_next_highest, rx_window, reassembly_timer,
                            status_cached, delivered, rx_failure>>
           ELSE PlacePdu(pdu)
        /\ do_status' = (do_status \/ pdu.poll)
        /\ UNCHANGED <<status_prohibit, status_shared, get_pending, trimmed,
                       status_air>>
        /\ IF StatusChanged(pdu) \/ pdu.poll
           THEN NotifyStatusReportChanged ELSE UNCHANGED told_vars

OnExpiredReassemblyTimer ==
  /\ reassembly_timer
  /\ UNCHANGED <<rx_next, rx_next_highest, rx_window, status_prohibit,
                 status_shared, get_pending, trimmed, delivered, data_air,
                 status_air>>
  /\ IF Ahead(rx_next_status_trigger, rx_next) \notin 1..am_window_size
     THEN /\ reassembly_timer' = FALSE
          /\ UNCHANGED <<rx_next_status_trigger, rx_highest_status, do_status,
                         status_cached, told_vars, rx_failure>>
     ELSE LET upd == FirstMissing(rx_window, rx_next_status_trigger,
                                  rx_next_highest, rx_next)
              starts == StartReassembly(rx_window, upd, rx_next_highest, rx_next)
          IN  /\ rx_highest_status' = upd
              /\ rx_failure' = (rx_failure \/ Ahead(upd, rx_next) \notin 1..am_window_size)
              /\ reassembly_timer' = starts
              /\ rx_next_status_trigger' =
                   IF starts THEN rx_next_highest ELSE rx_next_status_trigger
              /\ RefreshStatusReport
              /\ do_status' = TRUE
              /\ NotifyStatusReportChanged

------------------------------------------------------------------------------
(* This entity's sending side.  Of its buffer state only the status report   *)
(* is modelled; its SDUs are those of the other direction.                  *)

rx_data_vars == <<rx_next, rx_next_status_trigger, rx_highest_status,
                  rx_next_highest, rx_window, reassembly_timer, delivered,
                  rx_failure>>

\* update_mac_buffer_state, deferred.
UpdateOwnBufferState ==
  /\ own_updates > 0
  /\ own_updates' = own_updates - 1
  /\ own_pending' = FALSE
  /\ status_told' = StatusReportRequired
  /\ UNCHANGED <<rx_data_vars, do_status, status_prohibit, report_vars,
                 get_pending, trimmed, data_air, status_air>>

\* The other direction: an SDU is queued or discarded, a status report or
\* t-PollRetransmit forces an update, or data is pulled.
OtherDirection ==
  /\ \/ OwnBufferStateChanges
     \/ /\ own_updates < MaxUpdates
        /\ own_pending' = FALSE /\ status_told' = StatusReportRequired
        /\ UNCHANGED own_updates
     \/ /\ status_told' = StatusReportRequired
        /\ UNCHANGED <<own_pending, own_updates>>
  /\ UNCHANGED <<rx_data_vars, do_status, status_prohibit, report_vars,
                 get_pending, trimmed, data_air, status_air>>

\* pull_pdu sends a report that is due before anything else, whatever MAC has
\* granted the bearer for.
GetStatusPdu ==
  /\ ~get_pending
  /\ StatusReportRequired
  /\ get_pending' = TRUE
  /\ do_status' = FALSE
  /\ status_prohibit' \in {"running"} \cup (IF PullRefusals THEN {"stuck"} ELSE {})
  /\ UNCHANGED <<rx_data_vars, report_vars, trimmed, told_vars, data_air,
                 status_air>>

\* The swap, and the report trimmed to the grant, in place, and sent.  MAC
\* asks for the buffer state again when it has pulled.
SendStatusPdu(fit) ==
  /\ get_pending
  /\ get_pending' = FALSE
  /\ status_shared' = Trim(status_cached, fit)
  /\ trimmed' = (trimmed \/ status_shared' # status_cached)
  /\ status_cached' = status_shared
  /\ TransmitStatus(status_shared')
  /\ status_told' = StatusReportRequired
  /\ UNCHANGED <<rx_data_vars, do_status, status_prohibit, own_pending,
                 own_updates, data_air>>

OnExpiredStatusProhibitTimer ==
  /\ status_prohibit = "running"
  /\ status_prohibit' = "off"
  /\ UNCHANGED do_status
  /\ NotifyStatusReportChanged
  /\ UNCHANGED <<rx_data_vars, report_vars, get_pending, trimmed, data_air,
                 status_air>>
==============================================================================
