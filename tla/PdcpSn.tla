------------------------------- MODULE PdcpSn -------------------------------
(***************************************************************************)
(* Sequence numbers of PDCP (srsRAN/lib/pdcp/pdcp_sn.h and                  *)
(* pdcp_entity_tx_rx_base.h).  Every data PDU of a bearer has a COUNT of    *)
(* 32 bits; the PDU carries its low bits, the SN, and both sides work out   *)
(* the rest, the HFN, from where their window stands.                       *)
(***************************************************************************)
EXTENDS Integers, FiniteSetsExt

CONSTANTS
  SnMod,     \* pdcp_sn_cardinality: 2^12 or 2^18
  CountMod   \* 2^32, a multiple of SnMod

ASSUME SnAssumption ==
  /\ SnMod \in Nat /\ SnMod >= 4 /\ SnMod % 2 = 0
  /\ CountMod \in Nat \ {0} /\ CountMod % SnMod = 0

\* pdcp_window_size
window_size == SnMod \div 2

SN(count) == count % SnMod
HFN(count) == count \div SnMod
COUNT(hfn, sn) == (hfn % (CountMod \div SnMod)) * SnMod + sn

\* The COUNT of the PDU with this SN, as seen from the lower edge of a window.
\* The HFN of the edge may be 0: the subtraction then wraps like uint32_t.
CountEstimate(edge, sn) ==
  LET hfn == IF sn < SN(edge) - window_size THEN HFN(edge) + 1
             ELSE IF sn >= SN(edge) + window_size THEN HFN(edge) - 1
             ELSE HFN(edge)
  IN  COUNT(hfn, sn)
=============================================================================
