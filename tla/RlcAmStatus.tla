----------------------------- MODULE RlcAmStatus -----------------------------
(***************************************************************************)
(* The status PDU of RLC AM (srsRAN/lib/rlc/rlc_am_pdu.cpp), the SDUs and   *)
(* PDUs the two ends exchange, and the radio between them as RLC sees it.   *)
(*                                                                         *)
(* A NACK [sn, range, start, end] reports missing bytes: from byte start of *)
(* SN sn to byte end of the last of range SNs.  has_nack_range is range > 1 *)
(* and has_so is HasSo: an SDU of which something arrived never misses all  *)
(* of its bytes.  The size of a packed report only decides how many of its  *)
(* NACKs fit a grant, so a grant is that number.                            *)
(***************************************************************************)
EXTENDS Integers, SequencesExt

CONSTANTS
  Mod,         \* number of sequence numbers (2^12 or 2^18 in the code)
  SduLen,      \* the lengths of the SDUs that PDCP hands over, in order
  Start,       \* SDUs the bearer has carried, one at a time, before the model
  MaxFlight,   \* bound: data PDUs in flight
  Overtaking,  \* may a data PDU be overtaken by the next (HARQ)?
  Refusals     \* may pcell_executor refuse a deferred buffer state update?

ASSUME StatusAssumption ==
  /\ Mod \in Nat /\ Mod % 2 = 0 /\ Mod > 2
  /\ SduLen \in Seq(Nat \ {0})
  /\ Start \in 0..(Mod - 1)
  /\ MaxFlight \in Nat \ {0}
  /\ Overtaking \in BOOLEAN /\ Refusals \in BOOLEAN

SN == 0..(Mod - 1)
NoSn == Mod                         \* INVALID_RLC_SN
am_window_size == Mod \div 2
Sdus == 1..Len(SduLen)
EndOfSdu == Max({SduLen[i] : i \in Sdus} \cup {0}) + 1   \* so_end_of_sdu, 0xffff

\* The distance from base to sn, counted upwards modulo Mod.
Ahead(sn, base) == (sn - base) % Mod

\* A window with one entry written.
WithEntry(window, sn, info) ==
  [s \in DOMAIN window \cup {sn} |-> IF s = sn THEN info ELSE window[s]]

Nack(sn, start, end) == [sn |-> sn, range |-> 1, start |-> start, end |-> end]
HasSo(nack) == nack.start # 0 \/ nack.end # EndOfSdu

CanBeMerged(left, right) ==
  /\ right.sn = (left.sn + left.range) % Mod
  /\ left.end = EndOfSdu
  /\ right.start = 0
  /\ left.range + right.range <= 255

PushNack(nacks, nack) ==
  IF nacks # <<>> /\ CanBeMerged(nacks[Len(nacks)], nack)
  THEN [nacks EXCEPT ![Len(nacks)].range = @ + nack.range,
                     ![Len(nacks)].end = nack.end]
  ELSE Append(nacks, nack)

\* NACKs are dropped from the back until at most fit are left, then as long
\* as the last one starts at the new ACK_SN.
Trim(pdu, fit) ==
  IF Len(pdu.nacks) <= fit THEN pdu
  ELSE LET ack  == pdu.nacks[fit + 1].sn
           kept == Max({0} \cup {n \in 1..fit : pdu.nacks[n].sn # ack})
       IN  [ack |-> ack, nacks |-> [n \in 1..kept |-> pdu.nacks[n]]]

\* The NACKs of single SNs that a range stands for, as handle_status_pdu
\* takes it apart; a range is cut off at the ACK_SN.
SplitRange(nack, ack) ==
  LET last == (nack.sn + nack.range - 1) % Mod
      upto == IF Ahead(ack, nack.sn) < nack.range THEN Ahead(ack, nack.sn)
              ELSE nack.range
  IN  [j \in 1..upto |->
         LET sn == (nack.sn + j - 1) % Mod
         IN  Nack(sn, IF j = 1 THEN nack.start ELSE 0,
                      IF sn = last THEN nack.end ELSE EndOfSdu)]

------------------------------------------------------------------------------
VARIABLES
  data_air,    \* data PDUs on their way from the sender to the receiver
  status_air   \* status PDUs on their way back

(***************************************************************************)
(* MAC carries a PDU or loses it, and never makes a second copy.  HARQ may  *)
(* let a data PDU be overtaken, once.                                       *)
(***************************************************************************)
Transmit(pdu) ==
  /\ Len(data_air) < MaxFlight
  /\ data_air' \in {data_air, Append(data_air, pdu)}

\* The data PDU at position n arrives.
Arrives(n) ==
  /\ n \in 1..Len(data_air)
  /\ n = 1 \/ (Overtaking /\ n = 2 /\ ~data_air[1].late)
  /\ data_air' = IF n = 1 THEN Tail(data_air)
                 ELSE <<[data_air[1] EXCEPT !.late = TRUE]>>
                        \o SubSeq(data_air, 3, Len(data_air))

\* One status PDU is in flight at a time: t-StatusProhibit spaces them.
TransmitStatus(pdu) ==
  /\ status_air = <<>>
  /\ status_air' \in {<<>>, <<pdu>>}
==============================================================================
