----------------------------- MODULE RlcAmProofs -----------------------------
(****************************************************************************)
(* Proofs about an RLC AM bearer, the two ends together, in layers.         *)
(*                                                                          *)
(* ProtocolInv: the sender's window is what it sent from tx_next_ack on     *)
(* (SendInv), the receiver's window lies in it (LinkInv), a data PDU in     *)
(* flight carries bytes that were sent (AirLink), a status report in flight *)
(* or kept is true if it is still about the window (ReportLink, KeptLink).  *)
(* SNs come around, so it needs that nothing outlives its window:           *)
(* FlightInWindow of the data PDUs, and KeptInTime of the reports that      *)
(* get_status_pdu may still hand out.  FlightInv gives the former where the *)
(* radio does not reorder, FewInv both where the SNs do not come around.    *)
(*                                                                          *)
(* ServiceInv, what PDCP is promised: the SDUs of the window are in the     *)
(* order of their acceptance, and delivered is 1 for those whose SN the     *)
(* receiver has taken.                                                      *)
(*                                                                          *)
(* StallInv, why nothing stalls in silence: the last PDU sent has a poll    *)
(* (PollInv), a report without NACKs was made before what another one asks  *)
(* for was missing or after it came (TurnInv), so a report that stops the   *)
(* poll timer asks for something or leaves nothing that waits (QuietInv).   *)
(****************************************************************************)
EXTENDS RlcAmEntityProofs

-----------------------------------------------------------------------------
(* The two ends together.  Distances are taken from tx_next_ack.           *)

Segmenting == sn_under_segmentation # NoSn
Top == IF Segmenting THEN TxMod(tx_next) + 1 ELSE TxMod(tx_next)

(* The sender's window is full of what it has sent, up to Top, and what it *)
(* is to send again are bytes it has sent.                                 *)
SendInv ==
  /\ Top <= am_window_size
  /\ \A sn \in SN : sn \in DOMAIN tx_window <=> TxMod(sn) < Top
  /\ Segmenting => sn_under_segmentation = tx_next
  /\ ~failure
  /\ \A n \in 1..Len(retx_queue) : WasSent(tx_window, retx_queue[n])

(* What the receiver holds of an SN are bytes that were sent with it, all  *)
(* of one SDU, and it has seen the end if it has the last of them.         *)
HeldIs(info, sn) ==
  /\ info.got \subseteq 0..(SentOf(tx_window, sn) - 1)
  /\ info.sdus = {tx_window[sn].sdu}
  /\ info.last <=> (SduLen[tx_window[sn].sdu] - 1) \in info.got

LinkInv ==
  /\ TxMod(rx_next) <= TxMod(rx_next_highest)
  /\ TxMod(rx_next) <= TxMod(tx_next)
  /\ TxMod(rx_next_highest) <= Top
  /\ \A sn \in DOMAIN rx_window : HeldIs(rx_window[sn], sn)
  /\ ~rx_failure

(* A data PDU of an SN in the sender's window carries bytes that were sent *)
(* with it.                                                                *)
CarriesSent(p) ==
  TxMod(p.sn) < am_window_size =>
    /\ TxMod(p.sn) < Top
    /\ p.sdu = tx_window[p.sn].sdu /\ p.so + p.len <= SentOf(tx_window, p.sn)

AirLink == \A n \in 1..Len(data_air) : CarriesSent(data_air[n])

(* A report that the sender will not ignore confirms only what the         *)
(* receiver has, and its NACKs are about bytes that were sent.             *)
StopOf(r) == IF r.nacks = <<>> THEN r.ack ELSE r.nacks[1].sn

NacksBelow(r) == \A n \in 1..Len(r.nacks) : TxMod(r.nacks[n].sn) < TxMod(r.ack)

Claims(r) ==
  /\ TxMod(StopOf(r)) <= TxMod(rx_next)
  /\ \A n \in 1..Len(r.nacks) :
       /\ TxMod(StopOf(r)) <= TxMod(r.nacks[n].sn)
       /\ TxMod(r.nacks[n].sn) + r.nacks[n].range <= am_window_size
       /\ NackPieces(tx_window, r.nacks[n])

ReportTrue(r) ==
  ValidAckSn(r.ack) =>
    /\ TxMod(r.ack) <= TxMod(rx_next_highest)
    /\ NacksBelow(r) => Claims(r)

ReportLink == \A r : status_air = <<r>> => ReportTrue(r)

(* So does every report that the receiver may come to send of those it     *)
(* keeps: trimmed to a grant or whole.                                     *)
Sendable == {Trim(r, fit) : r \in {status_cached, status_shared}, fit \in 0..MaxFit}

KeptLink == \A r \in Sendable : ReportTrue(r)

ProtocolInv == SendInv /\ LinkInv /\ AirLink /\ ReportLink /\ KeptLink

(* What the receiver may send are reports.                                  *)
LEMMA SendableIs ==
  ASSUME TypeInv
  PROVE  Sendable \subseteq ReportSet
<1>1. SUFFICES ASSUME NEW r \in {status_cached, status_shared}, NEW fit \in 0..MaxFit
      PROVE  Trim(r, fit) \in ReportSet
  BY DEF Sendable
<1>2. r \in ReportSet
  BY DEF TypeInv, ReportTypes, WellFormed
<1>3. fit \in Nat
  BY LinkAssumption
<1>4. QED
  BY <1>2, <1>3, TrimIs

(* The distances are numbers, and the window half of the range.             *)
LEMMA Distances ==
  ASSUME TypeInv
  PROVE  /\ tx_next_ack \in SN /\ tx_next \in SN /\ rx_next \in SN /\ rx_next_highest \in SN
         /\ DOMAIN tx_window \subseteq SN /\ DOMAIN rx_window \subseteq SN
         /\ \A sn \in SN : TxMod(sn) \in Nat /\ TxMod(sn) < Mod
         /\ Top \in Nat /\ am_window_size \in Nat /\ am_window_size >= 2 /\ Mod = 2 * am_window_size
<1>1. /\ tx_next_ack \in SN /\ tx_next \in SN /\ rx_next \in SN /\ rx_next_highest \in SN
      /\ DOMAIN tx_window \subseteq SN /\ DOMAIN rx_window \subseteq SN
  BY DEF TypeInv, TxInv, TxTypes, RxInv, RxTypes
<1>2. \A sn \in SN : TxMod(sn) \in Nat /\ TxMod(sn) < Mod
  BY <1>1, AheadNat DEF TxMod
<1>3. Top \in Nat
  BY <1>1, <1>2 DEF Top
<1>4. QED
  BY <1>1, <1>2, <1>3, WindowSize

(* What was sent of an SDU in the window.                                  *)
LEMMA SentIs ==
  ASSUME TypeInv
  PROVE  \A sn \in DOMAIN tx_window :
           /\ tx_window[sn].sdu \in Sdus /\ tx_window[sn].next_so \in Nat
           /\ SduLen[tx_window[sn].sdu] \in Nat \ {0}
           /\ SentOf(tx_window, sn) \in Nat \ {0}
           /\ SentOf(tx_window, sn) <= SduLen[tx_window[sn].sdu]
           /\ sn = sn_under_segmentation => SentOf(tx_window, sn) < SduLen[tx_window[sn].sdu]
           /\ sn # sn_under_segmentation => SentOf(tx_window, sn) = SduLen[tx_window[sn].sdu]
<1>1. SUFFICES ASSUME NEW sn \in DOMAIN tx_window
      PROVE
           /\ tx_window[sn].sdu \in Sdus /\ tx_window[sn].next_so \in Nat
           /\ SduLen[tx_window[sn].sdu] \in Nat \ {0}
           /\ SentOf(tx_window, sn) \in Nat \ {0}
           /\ SentOf(tx_window, sn) <= SduLen[tx_window[sn].sdu]
           /\ sn = sn_under_segmentation => SentOf(tx_window, sn) < SduLen[tx_window[sn].sdu]
           /\ sn # sn_under_segmentation => SentOf(tx_window, sn) = SduLen[tx_window[sn].sdu]
  OBVIOUS
<1> DEFINE len == SduLen[tx_window[sn].sdu]
<1>2. tx_window[sn].sdu \in Sdus /\ tx_window[sn].next_so \in Nat
  BY DEF TypeInv, TxInv, TxTypes, InfoSet
<1>3. len \in Nat \ {0}
  BY <1>2, EndOfSduIs
<1>4. sn = sn_under_segmentation => tx_window[sn].next_so \in 1..(len - 1)
  BY DEF TypeInv, TxInv, SegInv, SegmentOk
<1> HIDE DEF len
<1>5. /\ sn = sn_under_segmentation => SentOf(tx_window, sn) = tx_window[sn].next_so
      /\ sn # sn_under_segmentation => SentOf(tx_window, sn) = len
  BY DEF SentOf, len
<1>6. /\ SentOf(tx_window, sn) \in Nat \ {0} /\ SentOf(tx_window, sn) <= len
      /\ sn = sn_under_segmentation => SentOf(tx_window, sn) < len
  BY <1>2, <1>3, <1>4, <1>5
<1>7. QED
  BY <1>2, <1>3, <1>5, <1>6 DEF len

(* The sender sends more.                                                  *)
Grown ==
  /\ UNCHANGED tx_next_ack
  /\ TxMod(tx_next) <= TxMod(tx_next')
  /\ Top <= Top'
  /\ \A sn \in DOMAIN tx_window :
       /\ sn \in DOMAIN tx_window' /\ tx_window'[sn].sdu = tx_window[sn].sdu
       /\ SentOf(tx_window, sn) <= SentOf(tx_window, sn)'
       /\ sn # sn_under_segmentation => sn # sn_under_segmentation'

(* What was sent stays sent as the window grows.                            *)
LEMMA GrownNackPieces ==
  ASSUME TypeInv, TypeInv', Grown, NEW nack \in NackSet, NackPieces(tx_window, nack)
  PROVE  NackPieces(tx_window, nack)'
<1>1. ASSUME NEW sn, NEW start \in Nat, NEW end \in Nat, PieceOk(tx_window, sn, start, end)
      PROVE  PieceOk(tx_window, sn, start, end)'
  <2>1. sn \in DOMAIN tx_window
    BY <1>1 DEF PieceOk
  <2>2. /\ sn \in DOMAIN tx_window' /\ tx_window'[sn].sdu = tx_window[sn].sdu
        /\ SentOf(tx_window, sn) <= SentOf(tx_window, sn)'
        /\ sn # sn_under_segmentation => sn # sn_under_segmentation'
    BY <2>1 DEF Grown
  <2>3. SentOf(tx_window, sn) \in Nat /\ SentOf(tx_window, sn)' \in Nat
    <3>1. SentOf(tx_window, sn) \in Nat
      BY <2>1, SentIs
    <3>2. SentOf(tx_window, sn)' \in Nat
      <4>1. sn \in DOMAIN tx_window'
        BY <2>2
      <4>2. /\ tx_window'[sn].next_so \in Nat /\ tx_window'[sn].sdu \in Sdus
        BY <4>1 DEF TypeInv, TxInv, TxTypes, InfoSet
      <4>3. SduLen[tx_window'[sn].sdu] \in Nat
        BY <4>2, EndOfSduIs
      <4>4. QED
        BY <4>2, <4>3 DEF SentOf
    <3>3. QED
      BY <3>1, <3>2
  <2> DEFINE a == SentOf(tx_window, sn)
             b == SentOf(tx_window, sn)'
  <2>4. end < a => end < b
    BY <2>2, <2>3
  <2>5. QED
    BY <1>1, <2>2, <2>4 DEF PieceOk
<1>2. ASSUME NEW j \in 1..nack.range
      PROVE  PieceOk(tx_window, At(nack.sn, j - 1), IF j = 1 THEN nack.start ELSE 0,
                     IF j = nack.range THEN nack.end ELSE EndOfSdu)'
  <2>1. /\ (IF j = 1 THEN nack.start ELSE 0) \in Nat
        /\ (IF j = nack.range THEN nack.end ELSE EndOfSdu) \in Nat
    BY EndOfSduIs DEF NackSet
  <2>2. PieceOk(tx_window, At(nack.sn, j - 1), IF j = 1 THEN nack.start ELSE 0,
                IF j = nack.range THEN nack.end ELSE EndOfSdu)
    BY DEF NackPieces
  <2>3. QED
    BY <1>1, <2>1, <2>2
<1>3. QED
  BY <1>2 DEF NackPieces

(* What a data PDU carries stays sent as the window grows.                  *)
LEMMA GrownCarries ==
  ASSUME TypeInv, TypeInv', SendInv, Grown, NEW p \in PduSet, CarriesSent(p)
  PROVE  CarriesSent(p)'
<1>1. TxMod(p.sn)' = TxMod(p.sn)
  BY DEF Grown, TxMod
<1>2. CASE ~(TxMod(p.sn) < am_window_size)
  BY <1>1, <1>2 DEF CarriesSent
<1>3. CASE TxMod(p.sn) < am_window_size
  <2>1. /\ TxMod(p.sn) < Top
        /\ p.sdu = tx_window[p.sn].sdu /\ p.so + p.len <= SentOf(tx_window, p.sn)
    BY <1>3 DEF CarriesSent
  <2>2. p.sn \in SN /\ p.so + p.len \in Nat
    BY DEF PduSet
  <2>3. p.sn \in DOMAIN tx_window
    BY <2>1, <2>2 DEF SendInv
  <2>4. Top \in Nat /\ Top' \in Nat /\ TxMod(p.sn) \in Nat
    <3>1. Top \in Nat /\ TxMod(p.sn) \in Nat
      BY <2>2, Distances
    <3>2. tx_next_ack' \in SN /\ tx_next' \in SN
      BY DEF TypeInv, TxInv, TxTypes
    <3>3. Ahead(tx_next', tx_next_ack') \in Nat
      BY <3>2, AheadNat
    <3>4. Top' \in Nat
      BY <3>3 DEF Top, TxMod
    <3>5. QED
      BY <3>1, <3>4
  <2>5. /\ tx_window'[p.sn].sdu = tx_window[p.sn].sdu
        /\ SentOf(tx_window, p.sn) <= SentOf(tx_window, p.sn)'
        /\ Top <= Top' /\ p.sn \in DOMAIN tx_window'
    BY <2>3 DEF Grown
  <2>6. SentOf(tx_window, p.sn) \in Nat /\ SentOf(tx_window, p.sn)' \in Nat
    <3>1. SentOf(tx_window, p.sn) \in Nat
      BY <2>3, SentIs
    <3>2. /\ tx_window'[p.sn].next_so \in Nat /\ tx_window'[p.sn].sdu \in Sdus
      BY <2>5 DEF TypeInv, TxInv, TxTypes, InfoSet
    <3>3. SduLen[tx_window'[p.sn].sdu] \in Nat
      BY <3>2, EndOfSduIs
    <3>4. QED
      BY <3>1, <3>2, <3>3 DEF SentOf
  <2>7. p.so + p.len <= SentOf(tx_window, p.sn)'
    BY <2>1, <2>2, <2>5, <2>6
  <2>8. TxMod(p.sn) < Top'
    BY <2>1, <2>4, <2>5
  <2>9. QED
    BY <1>1, <2>1, <2>5, <2>7, <2>8 DEF CarriesSent
<1>4. QED
  BY <1>2, <1>3

(* The receiver's side of it, and a report that is under way.              *)
LEMMA SentNext ==
  ASSUME TypeInv'
  PROVE  /\ Top' \in Nat
         /\ \A sn \in DOMAIN tx_window' :
              /\ SentOf(tx_window, sn)' \in Nat \ {0}
              /\ tx_window'[sn].sdu \in Sdus /\ SduLen[tx_window'[sn].sdu] \in Nat
              /\ SentOf(tx_window, sn)' <= SduLen[tx_window'[sn].sdu]
<1>1. Top' \in Nat
  <2>1. tx_next_ack' \in SN /\ tx_next' \in SN
    BY DEF TypeInv, TxInv, TxTypes
  <2>2. Ahead(tx_next', tx_next_ack') \in Nat
    BY <2>1, AheadNat
  <2>3. QED
    BY <2>2 DEF Top, TxMod
<1>2. ASSUME NEW sn \in DOMAIN tx_window'
      PROVE  /\ SentOf(tx_window, sn)' \in Nat \ {0}
             /\ tx_window'[sn].sdu \in Sdus /\ SduLen[tx_window'[sn].sdu] \in Nat
             /\ SentOf(tx_window, sn)' <= SduLen[tx_window'[sn].sdu]
  <2> DEFINE len == SduLen[tx_window'[sn].sdu]
  <2>1. tx_window'[sn].next_so \in Nat /\ tx_window'[sn].sdu \in Sdus
    BY DEF TypeInv, TxInv, TxTypes, InfoSet
  <2>2. len \in Nat \ {0}
    BY <2>1, EndOfSduIs
  <2>3. sn = sn_under_segmentation' => tx_window'[sn].next_so \in 1..(len - 1)
    BY DEF TypeInv, TxInv, SegInv, SegmentOk
  <2>4. SentOf(tx_window, sn)' = IF sn = sn_under_segmentation' THEN tx_window'[sn].next_so ELSE len
    BY DEF SentOf
  <2> HIDE DEF len
  <2>5. SentOf(tx_window, sn)' \in Nat \ {0} /\ SentOf(tx_window, sn)' <= len
    BY <2>1, <2>2, <2>3, <2>4
  <2>6. QED
    BY <2>1, <2>2, <2>5 DEF len
<1>3. QED
  BY <1>1, <1>2

(* The receiver's SNs are in the sender's window.                          *)
LEMMA HeldInWindow ==
  ASSUME TypeInv, SendInv, LinkInv, NEW sn \in DOMAIN rx_window
  PROVE  /\ TxMod(rx_next) <= TxMod(sn) /\ TxMod(sn) < TxMod(rx_next_highest)
         /\ sn \in DOMAIN tx_window
<1> DEFINE R == TxMod(rx_next)
           H == TxMod(rx_next_highest)
           d == TxMod(sn)
<1>1. sn \in SN /\ rx_next \in SN /\ rx_next_highest \in SN /\ tx_next_ack \in SN
  BY Distances
<1>2. R \in Nat /\ H \in Nat /\ d \in Nat /\ R < Mod /\ H < Mod /\ d < Mod /\ Top \in Nat /\ Mod \in Nat
  BY <1>1, Distances
<1>3. R <= H /\ H <= Top
  BY DEF LinkInv
<1>4. Ahead(sn, rx_next) < Ahead(rx_next_highest, rx_next)
  BY Ordered DEF TypeInv, RxInv
<1>5. /\ Ahead(sn, rx_next) = IF d >= R THEN d - R ELSE d - R + Mod
      /\ Ahead(rx_next_highest, rx_next) = IF H >= R THEN H - R ELSE H - R + Mod
  BY <1>1, Rebase DEF TxMod
<1> HIDE DEF R, H, d
<1>6. R <= d /\ d < H /\ d < Top
  BY <1>2, <1>3, <1>4, <1>5
<1>7. QED
  BY <1>1, <1>6 DEF SendInv, R, H, d

(* A report that is true stays so: what it asks for is in the window still. *)
LEMMA ReportGrown ==
  ASSUME TypeInv, TypeInv', Grown, UNCHANGED rx_vars, NEW r \in ReportSet, ReportTrue(r)
  PROVE  ReportTrue(r)'
<1>1. UNCHANGED <<rx_next, rx_next_highest>> /\ \A sn : TxMod(sn)' = TxMod(sn)
  BY DEF Grown, TxMod, rx_vars
<1>2. TxMod(rx_next)' = TxMod(rx_next) /\ TxMod(rx_next_highest)' = TxMod(rx_next_highest)
  BY <1>1 DEF TxMod, Grown
<1>3. TxMod(r.ack)' = TxMod(r.ack) /\ TxMod(StopOf(r))' = TxMod(StopOf(r))
  BY <1>1 DEF TxMod, Grown
<1>4. \A n \in 1..Len(r.nacks) : TxMod(r.nacks[n].sn)' = TxMod(r.nacks[n].sn)
  BY <1>1 DEF TxMod, Grown
<1>5. ValidAckSn(r.ack)' = ValidAckSn(r.ack) /\ (NacksBelow(r)' <=> NacksBelow(r))
  BY <1>3, <1>4 DEF ValidAckSn, NacksBelow
<1>6. Claims(r) => Claims(r)'
  <2>1. SUFFICES ASSUME Claims(r) PROVE Claims(r)'
    OBVIOUS
  <2>2. ASSUME NEW n \in 1..Len(r.nacks)
        PROVE  NackPieces(tx_window, r.nacks[n])'
    <3>1. r.nacks[n] \in NackSet
      BY DEF ReportSet
    <3>2. NackPieces(tx_window, r.nacks[n])
      BY <2>1 DEF Claims
    <3>3. QED
      BY <3>1, <3>2, GrownNackPieces
  <2>3. QED
    BY <1>2, <1>3, <1>4, <2>1, <2>2 DEF Claims
<1>7. QED
  BY <1>2, <1>3, <1>5, <1>6 DEF ReportTrue

(* The receiver's window stays inside as the sender's grows.                *)
LEMMA GrownLink ==
  ASSUME TypeInv, TypeInv', SendInv, LinkInv, ReportLink, KeptLink, Grown, UNCHANGED rx_vars
  PROVE  LinkInv' /\ KeptLink' /\ (UNCHANGED status_air => ReportLink')
<1>1. /\ UNCHANGED <<rx_next, rx_next_highest, rx_window, rx_failure>>
      /\ \A sn : TxMod(sn)' = TxMod(sn)
  BY DEF Grown, TxMod, rx_vars
<1>2. TxMod(rx_next)' = TxMod(rx_next) /\ TxMod(rx_next_highest)' = TxMod(rx_next_highest)
  BY <1>1 DEF TxMod, Grown
<1>3. TxMod(rx_next) <= TxMod(tx_next)' /\ TxMod(rx_next_highest) <= Top'
  <2>1. tx_next_ack \in SN /\ tx_next \in SN /\ tx_next' \in SN /\ rx_next \in SN /\ rx_next_highest \in SN
    BY Distances DEF TypeInv, TxInv, TxTypes
  <2>2. /\ TxMod(tx_next) \in Nat /\ TxMod(tx_next') \in Nat /\ TxMod(rx_next) \in Nat
        /\ TxMod(rx_next_highest) \in Nat
    BY <2>1, Distances
  <2>3. TxMod(tx_next)' = TxMod(tx_next')
    BY DEF Grown, TxMod
  <2>4. TxMod(tx_next) <= TxMod(tx_next') /\ Top <= Top'
    BY DEF Grown
  <2>5. TxMod(rx_next) <= TxMod(tx_next) /\ TxMod(rx_next_highest) <= Top
    BY DEF LinkInv
  <2>6. Top \in Nat /\ Top' \in Nat
    BY Distances, SentNext
  <2>7. TxMod(rx_next) <= TxMod(tx_next')
    BY <2>2, <2>4, <2>5
  <2>8. TxMod(rx_next_highest) <= Top'
    BY <2>2, <2>4, <2>5, <2>6
  <2>9. QED
    BY <2>3, <2>7, <2>8
<1>4. ASSUME NEW sn \in DOMAIN rx_window
      PROVE  HeldIs(rx_window[sn], sn)'
  <2>1. sn \in DOMAIN tx_window
    BY HeldInWindow
  <2>2. HeldIs(rx_window[sn], sn)
    BY DEF LinkInv
  <2>3. /\ sn \in DOMAIN tx_window' /\ tx_window'[sn].sdu = tx_window[sn].sdu
        /\ SentOf(tx_window, sn) <= SentOf(tx_window, sn)'
    BY <2>1 DEF Grown
  <2>4. SentOf(tx_window, sn) \in Nat /\ SentOf(tx_window, sn)' \in Nat
    BY <2>1, <2>3, SentIs, SentNext
  <2> DEFINE a == SentOf(tx_window, sn)
             b == SentOf(tx_window, sn)'
  <2>5. 0..(a - 1) \subseteq 0..(b - 1)
    BY <2>3, <2>4
  <2>6. rx_window'[sn] = rx_window[sn]
    BY <1>1
  <2>7. rx_window[sn].got \subseteq 0..(b - 1)
    BY <2>2, <2>5 DEF HeldIs
  <2>8. QED
    BY <2>2, <2>3, <2>6, <2>7 DEF HeldIs
<1>5. LinkInv'
  BY <1>1, <1>2, <1>3, <1>4 DEF LinkInv
<1>6. ASSUME UNCHANGED status_air, NEW r, status_air' = <<r>>
      PROVE  ReportTrue(r)'
  <2>1. status_air = <<r>>
    BY <1>6
  <2>2. ReportTrue(r) /\ r \in ReportSet
    <3>1. PICK q : WellFormed(q) /\ status_air = <<q>>
      BY <2>1 DEF TypeInv, ReportTypes
    <3>2. q = r
      BY <2>1, <3>1
    <3>3. QED
      BY <2>1, <3>1, <3>2 DEF ReportLink, WellFormed
  <2>3. QED
    BY <2>2, ReportGrown
<1>7. ASSUME NEW r \in Sendable
      PROVE  ReportTrue(r)'
  <2>1. r \in ReportSet /\ ReportTrue(r)
    BY SendableIs DEF KeptLink
  <2>2. QED
    BY <2>1, ReportGrown
<1>8. Sendable' = Sendable
  BY DEF rx_vars, report_vars, Sendable
<1>9. KeptLink'
  BY <1>7, <1>8 DEF KeptLink
<1>10. QED
  BY <1>5, <1>6, <1>9 DEF ReportLink

(* A PDU is sent, or lost, and the rest of what is in flight is as before. *)
LEMMA GrownAir ==
  ASSUME TypeInv, TypeInv', SendInv, AirLink, Grown, NEW pdu \in PduSet, CarriesSent(pdu)',
         Transmit(pdu)
  PROVE  AirLink'
<1> DEFINE k == Len(data_air)
<1>1. data_air \in Seq(PduSet) /\ k \in Nat
  BY DEF TypeInv, AirInv
<1>2. \A n \in 1..k : data_air[n] \in PduSet
  BY <1>1
<1>3. ASSUME NEW n \in 1..k PROVE CarriesSent(data_air[n])
  BY DEF AirLink
<1>4. ASSUME NEW p \in PduSet, CarriesSent(p) PROVE CarriesSent(p)'
  BY <1>4, GrownCarries
<1> DEFINE Ok(p) == /\ (Ahead(p.sn, tx_next_ack') < am_window_size =>
                          /\ Ahead(p.sn, tx_next_ack') < Top'
                          /\ p.sdu = tx_window'[p.sn].sdu
                          /\ p.so + p.len <= IF p.sn = sn_under_segmentation' THEN tx_window'[p.sn].next_so
                                             ELSE SduLen[tx_window'[p.sn].sdu])
<1>5. ASSUME NEW p, CarriesSent(p)' PROVE Ok(p)
  BY <1>5 DEF CarriesSent, TxMod, SentOf
<1>6. \A n \in 1..k : Ok(data_air[n])
  BY <1>2, <1>3, <1>4, <1>5
<1>7. Ok(pdu)
  BY <1>5
<1>8. data_air' = data_air \/ data_air' = Append(data_air, pdu)
  BY DEF Transmit
<1>9. \A n \in 1..Len(data_air') : (n \in 1..k /\ data_air'[n] = data_air[n]) \/ data_air'[n] = pdu
  <2>1. CASE data_air' = data_air
    BY <2>1
  <2>2. CASE data_air' = Append(data_air, pdu)
    <3>1. /\ Len(Append(data_air, pdu)) = k + 1 /\ Append(data_air, pdu)[k + 1] = pdu
          /\ \A n \in 1..k : Append(data_air, pdu)[n] = data_air[n]
      BY <1>1
    <3>2. \A n \in 1..(k + 1) : n \in 1..k \/ n = k + 1
      BY <1>1
    <3>3. QED
      BY <2>2, <3>1, <3>2
  <2>3. QED
    BY <1>8, <2>1, <2>2
<1> HIDE DEF Ok, k
<1>10. \A n \in 1..Len(data_air') : Ok(data_air'[n])
  BY <1>6, <1>7, <1>9
<1>11. QED
  BY <1>10 DEF AirLink, CarriesSent, TxMod, SentOf, Ok

(* A window that grows keeps the link between the two ends.                 *)
LEMMA GrownSame ==
  ASSUME TypeInv, TypeInv', SendInv, AirLink, Grown, UNCHANGED data_air
  PROVE  AirLink'
<1>1. \A n \in 1..Len(data_air) : data_air[n] \in PduSet
  BY DEF TypeInv, AirInv
<1>2. ASSUME NEW n \in 1..Len(data_air) PROVE CarriesSent(data_air[n])
  BY DEF AirLink
<1>3. ASSUME NEW p \in PduSet, CarriesSent(p) PROVE CarriesSent(p)'
  BY <1>3, GrownCarries
<1> DEFINE Ok(p) == /\ (Ahead(p.sn, tx_next_ack') < am_window_size =>
                          /\ Ahead(p.sn, tx_next_ack') < Top'
                          /\ p.sdu = tx_window'[p.sn].sdu
                          /\ p.so + p.len <= IF p.sn = sn_under_segmentation' THEN tx_window'[p.sn].next_so
                                             ELSE SduLen[tx_window'[p.sn].sdu])
<1>4. ASSUME NEW p, CarriesSent(p)' PROVE Ok(p)
  BY <1>4 DEF CarriesSent, TxMod, SentOf
<1>5. \A n \in 1..Len(data_air) : Ok(data_air[n])
  BY <1>1, <1>2, <1>3, <1>4
<1> HIDE DEF Ok
<1>6. \A n \in 1..Len(data_air') : Ok(data_air'[n])
  BY <1>5
<1>7. QED
  BY <1>6 DEF AirLink, CarriesSent, TxMod, SentOf, Ok

(* build_new_pdu.                                                          *)
LEMMA NewGrows ==
  ASSUME TypeInv, TypeInv', SendInv, NEW sdu \in Sdus, NEW info \in InfoSet, NEW len \in Nat \ {0},
         NEW poll \in BOOLEAN, NewPdu(sdu, info, len, poll),
         NEW p, p = Pdu(tx_next, sdu, 0, len, poll)
  PROVE  SendInv' /\ Grown /\ CarriesSent(p)'
<1> DEFINE t == TxMod(tx_next)
           W == am_window_size
<1>1. /\ retx_queue = <<>> /\ sn_under_segmentation \notin DOMAIN tx_window
      /\ ~IsTxWindowFull /\ len <= SduLen[sdu] /\ info.sdu = sdu
      /\ tx_window' = WithEntry(tx_window, tx_next, info)
      /\ \/ /\ len = SduLen[sdu] /\ sn_under_segmentation' = NoSn
            /\ tx_next' = (tx_next + 1) % Mod
         \/ /\ len < SduLen[sdu] /\ sn_under_segmentation' = tx_next
            /\ info.next_so = len /\ tx_next' = tx_next
      /\ failure' = (failure \/ tx_next \in DOMAIN tx_window)
      /\ UNCHANGED <<tx_next_ack, retx_queue>>
  BY DEF NewPdu
<1>2. /\ tx_next_ack \in SN /\ tx_next \in SN /\ DOMAIN tx_window \subseteq SN
      /\ \A sn \in SN : TxMod(sn) \in Nat /\ TxMod(sn) < Mod
      /\ Top \in Nat /\ W \in Nat /\ W >= 2 /\ Mod = 2 * W /\ t \in Nat /\ Mod \in Nat
  BY Distances
<1>3. ~Segmenting /\ Top = t
  <2>1. ASSUME Segmenting PROVE FALSE
    <3>1. sn_under_segmentation = tx_next /\ Top = t + 1
      BY <2>1 DEF SendInv, Top
    <3>2. t < Top
      BY <1>2, <3>1
    <3>3. tx_next \in DOMAIN tx_window
      BY <1>2, <3>2 DEF SendInv
    <3>4. QED
      BY <1>1, <3>1, <3>3
  <2>2. QED
    BY <2>1 DEF Top
<1>4. \A sn \in SN : sn \in DOMAIN tx_window <=> TxMod(sn) < t
  BY <1>3 DEF SendInv
<1>5. t < W
  <2>1. t <= W
    BY <1>3 DEF SendInv
  <2>2. DOMAIN tx_window = {sn \in SN : Ahead(sn, tx_next_ack) < t}
    BY <1>2, <1>4 DEF TxMod
  <2>3. t \in 0..Mod
    BY <1>2, <2>1
  <2>4. Cardinality({sn \in SN : Ahead(sn, tx_next_ack) < t}) = t
    <3> HIDE DEF t
    <3>1. QED
      BY <1>2, <2>3, CountOf
  <2>5. Cardinality(DOMAIN tx_window) # W
    BY <1>1 DEF IsTxWindowFull, TxFull
  <2>6. t # W
    BY <2>2, <2>4, <2>5
  <2> HIDE DEF t
  <2>7. QED
    BY <1>2, <2>1, <2>6
<1>6. tx_next \notin DOMAIN tx_window
  BY <1>2, <1>4
<1>7. At(tx_next, 1) \in SN /\ TxMod(At(tx_next, 1)) = t + 1
  <2>1. Ahead(tx_next, tx_next_ack) + 1 < Mod
    BY <1>2, <1>5 DEF TxMod
  <2>2. QED
    BY <1>2, <2>1, AtStep DEF TxMod
<1>8. \A sn : TxMod(sn)' = TxMod(sn)
  BY <1>1 DEF TxMod
<1>9. Top' = t + 1 /\ tx_next' \in SN /\ (Segmenting' => sn_under_segmentation' = tx_next')
      /\ t <= TxMod(tx_next')
  <2>1. CASE sn_under_segmentation' = NoSn /\ tx_next' = (tx_next + 1) % Mod
    <3>1. tx_next' = At(tx_next, 1) /\ ~Segmenting'
      BY <2>1 DEF At, Segmenting
    <3>2. Top' = TxMod(tx_next)'
      BY <3>1 DEF Top
    <3>3. TxMod(tx_next)' = TxMod(At(tx_next, 1))
      BY <1>1, <3>1 DEF TxMod
    <3> HIDE DEF t
    <3>4. QED
      BY <1>2, <1>7, <3>1, <3>2, <3>3
  <2>2. CASE sn_under_segmentation' = tx_next /\ tx_next' = tx_next
    <3>1. Segmenting'
      BY <1>2, <2>2 DEF Segmenting, SN, NoSn
    <3>2. Top' = TxMod(tx_next)' + 1 /\ TxMod(tx_next)' = t
      BY <1>1, <2>2, <3>1 DEF Top, TxMod
    <3>3. QED
      BY <1>2, <2>2, <3>2
  <2>3. QED
    BY <1>1, <2>1, <2>2
<1>10. /\ DOMAIN tx_window' = DOMAIN tx_window \cup {tx_next}
       /\ tx_window'[tx_next] = info
       /\ \A sn \in DOMAIN tx_window : tx_window'[sn] = tx_window[sn]
  BY <1>1, <1>6 DEF WithEntry
<1>11. SendInv'
  <2>1. Top' <= W
    BY <1>2, <1>5, <1>9
  <2>2. ASSUME NEW sn \in SN
        PROVE  sn \in DOMAIN tx_window' <=> TxMod(sn)' < Top'
    <3>1. TxMod(sn) = t <=> sn = tx_next
      BY <1>2, Rebase DEF TxMod
    <3>2. sn \in DOMAIN tx_window' <=> (TxMod(sn) < t \/ TxMod(sn) = t)
      BY <1>4, <1>10, <3>1
    <3>3. TxMod(sn) \in Nat /\ TxMod(sn)' = TxMod(sn)
      BY <1>2, <1>8
    <3> HIDE DEF t
    <3>4. QED
      BY <1>2, <1>9, <3>2, <3>3
  <2>3. ~failure'
    BY <1>1, <1>6 DEF SendInv
  <2>4. Len(retx_queue') = 0
    BY <1>1
  <2>5. \A n \in 1..Len(retx_queue') : FALSE
    BY <2>4
  <2>6. QED
    BY <1>9, <2>1, <2>2, <2>3, <2>5 DEF SendInv
<1>12. Grown
  <2>1. ASSUME NEW sn \in DOMAIN tx_window
        PROVE  /\ sn \in DOMAIN tx_window' /\ tx_window'[sn].sdu = tx_window[sn].sdu
               /\ SentOf(tx_window, sn) <= SentOf(tx_window, sn)'
               /\ sn # sn_under_segmentation => sn # sn_under_segmentation'
    <3>1. tx_window'[sn] = tx_window[sn] /\ sn \in DOMAIN tx_window'
      BY <1>10
    <3>2. sn # NoSn /\ sn # tx_next
      BY <1>2, <1>6 DEF SN, NoSn
    <3>3. sn # sn_under_segmentation'
      BY <1>1, <3>2
    <3>4. SentOf(tx_window, sn)' = SduLen[tx_window[sn].sdu]
      BY <3>1, <3>3 DEF SentOf
    <3>5. QED
      BY <3>1, <3>3, <3>4, SentIs
  <2>2. Top <= Top'
    BY <1>2, <1>3, <1>9
  <2>3. QED
    BY <1>1, <1>9, <2>1, <2>2 DEF Grown
<1>13. CarriesSent(p)'
  <2>1. p.sn = tx_next /\ p.sdu = sdu /\ p.so = 0 /\ p.len = len
    BY DEF Pdu
  <2>2. tx_window'[tx_next].sdu = sdu /\ SduLen[sdu] \in Nat
    BY <1>1, <1>10, EndOfSduIs
  <2>3. tx_next # NoSn
    BY <1>2 DEF SN, NoSn
  <2> DEFINE sent == IF p.sn = sn_under_segmentation' THEN tx_window'[p.sn].next_so
                     ELSE SduLen[tx_window'[p.sn].sdu]
  <2>4. p.so + p.len <= sent
    <3>1. sent = IF tx_next = sn_under_segmentation' THEN info.next_so ELSE SduLen[sdu]
      BY <1>10, <2>1, <2>2
    <3> HIDE DEF sent
    <3>2. QED
      BY <1>1, <2>1, <2>2, <2>3, <3>1
  <2>5. Ahead(p.sn, tx_next_ack') < Top'
    BY <1>1, <1>2, <1>9, <2>1 DEF TxMod
  <2>6. p.sdu = tx_window'[p.sn].sdu
    BY <2>1, <2>2
  <2>7. QED
    BY <2>4, <2>5, <2>6 DEF CarriesSent, TxMod, SentOf
<1>14. QED
  BY <1>11, <1>12, <1>13

(* build_continued_sdu_segment.                                            *)
LEMMA SegmentGrows ==
  ASSUME TypeInv, TypeInv', SendInv, NEW info \in InfoSet, NEW len \in Nat \ {0},
         NEW poll \in BOOLEAN, NextSegment(info, len, poll),
         NEW p, p = Pdu(tx_next, info.sdu, info.next_so, len, poll)
  PROVE  SendInv' /\ Grown /\ CarriesSent(p)'
<1> DEFINE t == TxMod(tx_next)
           W == am_window_size
<1>1. /\ retx_queue = <<>> /\ sn_under_segmentation = tx_next
      /\ tx_next \in DOMAIN tx_window /\ info = tx_window[tx_next]
      /\ tx_window' \in [DOMAIN tx_window -> InfoSet]
      /\ \A s \in DOMAIN tx_window :
           /\ s # tx_next => tx_window'[s] = tx_window[s]
           /\ tx_window'[s].sdu = tx_window[s].sdu
      /\ tx_window'[tx_next].next_so = info.next_so + len
      /\ \/ /\ info.next_so + len = SduLen[info.sdu] /\ sn_under_segmentation' = NoSn
            /\ tx_next' = (tx_next + 1) % Mod
         \/ /\ info.next_so + len < SduLen[info.sdu] /\ sn_under_segmentation' = tx_next
            /\ tx_next' = tx_next
      /\ UNCHANGED <<tx_next_ack, retx_queue, failure>>
  BY DEF NextSegment
<1>2. /\ tx_next_ack \in SN /\ tx_next \in SN /\ DOMAIN tx_window \subseteq SN
      /\ \A sn \in SN : TxMod(sn) \in Nat /\ TxMod(sn) < Mod
      /\ Top \in Nat /\ W \in Nat /\ W >= 2 /\ Mod = 2 * W /\ t \in Nat /\ Mod \in Nat
  BY Distances
<1>3. tx_next # NoSn /\ NoSn \notin SN
  BY <1>2 DEF SN, NoSn
<1>4. Segmenting /\ Top = t + 1 /\ t + 1 <= W
  BY <1>1, <1>3 DEF Segmenting, Top, SendInv
<1>5. At(tx_next, 1) \in SN /\ TxMod(At(tx_next, 1)) = t + 1
  <2>1. Ahead(tx_next, tx_next_ack) + 1 < Mod
    BY <1>2, <1>4 DEF TxMod
  <2>2. QED
    BY <1>2, <2>1, AtStep DEF TxMod
<1>6. \A sn : TxMod(sn)' = TxMod(sn)
  BY <1>1 DEF TxMod
<1>7. Top' = t + 1 /\ tx_next' \in SN /\ (Segmenting' => sn_under_segmentation' = tx_next')
      /\ t <= TxMod(tx_next')
  <2>1. CASE sn_under_segmentation' = NoSn /\ tx_next' = (tx_next + 1) % Mod
    <3>1. tx_next' = At(tx_next, 1) /\ ~Segmenting'
      BY <2>1 DEF At, Segmenting
    <3>2. Top' = TxMod(tx_next)'
      BY <3>1 DEF Top
    <3>3. TxMod(tx_next)' = TxMod(At(tx_next, 1))
      BY <1>1, <3>1 DEF TxMod
    <3> HIDE DEF t
    <3>4. QED
      BY <1>2, <1>5, <3>1, <3>2, <3>3
  <2>2. CASE sn_under_segmentation' = tx_next /\ tx_next' = tx_next
    <3>1. Segmenting'
      BY <1>3, <2>2 DEF Segmenting
    <3>2. Top' = TxMod(tx_next)' + 1 /\ TxMod(tx_next)' = t
      BY <1>1, <2>2, <3>1 DEF Top, TxMod
    <3>3. QED
      BY <1>2, <2>2, <3>2
  <2>3. QED
    BY <1>1, <2>1, <2>2
<1>8. DOMAIN tx_window' = DOMAIN tx_window
  BY <1>1
<1>9. SendInv'
  <2>1. Top' <= W
    BY <1>4, <1>7
  <2>2. ASSUME NEW sn \in SN
        PROVE  sn \in DOMAIN tx_window' <=> TxMod(sn)' < Top'
    BY <1>4, <1>6, <1>7, <1>8 DEF SendInv
  <2>3. ~failure'
    BY <1>1 DEF SendInv
  <2>4. Len(retx_queue') = 0
    BY <1>1
  <2>5. \A n \in 1..Len(retx_queue') : FALSE
    BY <2>4
  <2>6. QED
    BY <1>7, <2>1, <2>2, <2>3, <2>5 DEF SendInv
<1> DEFINE Sent(sn) == IF sn = sn_under_segmentation' THEN tx_window'[sn].next_so
                       ELSE SduLen[tx_window'[sn].sdu]
<1>10. Sent(tx_next) = info.next_so + len
  BY <1>1, <1>3
<1>11. Grown
  <2>1. ASSUME NEW sn \in DOMAIN tx_window
        PROVE  /\ sn \in DOMAIN tx_window' /\ tx_window'[sn].sdu = tx_window[sn].sdu
               /\ SentOf(tx_window, sn) <= SentOf(tx_window, sn)'
               /\ sn # sn_under_segmentation => sn # sn_under_segmentation'
    <3>1. tx_window'[sn].sdu = tx_window[sn].sdu /\ sn \in DOMAIN tx_window' /\ sn # NoSn
      BY <1>1, <1>2, <1>3, <1>8
    <3>2. SentOf(tx_window, sn)' = Sent(sn)
      BY DEF SentOf
    <3>3. sn # sn_under_segmentation => sn # sn_under_segmentation'
      BY <1>1, <3>1
    <3>4. SentOf(tx_window, sn) <= Sent(sn)
      <4>1. CASE sn = tx_next
        <5>1. SentOf(tx_window, sn) = info.next_so /\ info.next_so \in Nat
          BY <1>1, <4>1 DEF SentOf, InfoSet
        <5>2. Sent(sn) = info.next_so + len
          BY <1>10, <4>1
        <5> HIDE DEF Sent
        <5>3. QED
          BY <5>1, <5>2
      <4>2. CASE sn # tx_next
        <5>1. Sent(sn) = SduLen[tx_window[sn].sdu]
          BY <1>1, <3>1, <4>2
        <5> HIDE DEF Sent
        <5>2. QED
          BY <5>1, SentIs
      <4>3. QED
        BY <4>1, <4>2
    <3>5. QED
      BY <3>1, <3>2, <3>3, <3>4
  <2>2. Top <= Top'
    BY <1>2, <1>4, <1>7
  <2>3. QED
    BY <1>1, <1>7, <2>1, <2>2 DEF Grown
<1>12. CarriesSent(p)'
  <2>1. p.sn = tx_next /\ p.sdu = info.sdu /\ p.so = info.next_so /\ p.len = len
    BY DEF Pdu
  <2>2. p.so + p.len <= Sent(p.sn)
    <3>1. p.so + p.len = Sent(p.sn) /\ p.so + p.len \in Int
      BY <1>10, <2>1 DEF InfoSet
    <3> HIDE DEF Sent
    <3>2. QED
      BY <3>1
  <2>3. Ahead(p.sn, tx_next_ack') < Top'
    BY <1>1, <1>2, <1>7, <2>1 DEF TxMod
  <2>4. p.sdu = tx_window'[p.sn].sdu
    BY <1>1, <2>1
  <2>5. QED
    BY <2>2, <2>3, <2>4 DEF CarriesSent, TxMod, SentOf
<1>13. QED
  BY <1>9, <1>11, <1>12

(* Nothing new is sent: the counts in the window may change, and the queue *)
(* of retransmissions.                                                     *)
SameWindow ==
  /\ UNCHANGED <<tx_next_ack, tx_next, sn_under_segmentation, failure>>
  /\ DOMAIN tx_window' = DOMAIN tx_window
  /\ \A sn \in DOMAIN tx_window : /\ tx_window'[sn].sdu = tx_window[sn].sdu
                                  /\ tx_window'[sn].next_so = tx_window[sn].next_so

(* A window with the same SDUs counts as grown.                             *)
LEMMA SameGrown ==
  ASSUME TypeInv, SendInv, SameWindow,
         \A n \in 1..Len(retx_queue') :
           /\ retx_queue'[n].sn \in DOMAIN tx_window
           /\ WasSent(tx_window, retx_queue'[n])
  PROVE  SendInv' /\ Grown
<1>1. \A sn : TxMod(sn)' = TxMod(sn)
  BY DEF SameWindow, TxMod
<1>2. TxMod(tx_next)' = TxMod(tx_next) /\ Segmenting' = Segmenting /\ TxMod(tx_next') = TxMod(tx_next)
  BY DEF SameWindow, TxMod, Segmenting
<1>3. Top' = Top /\ Top \in Nat /\ TxMod(tx_next) \in Nat
  BY <1>2, Distances DEF Top
<1>4. ASSUME NEW sn \in DOMAIN tx_window
      PROVE  SentOf(tx_window, sn)' = SentOf(tx_window, sn) /\ SentOf(tx_window, sn) \in Nat
  BY SentIs DEF SameWindow, SentOf
<1>5. ASSUME NEW n \in 1..Len(retx_queue')
      PROVE  WasSent(tx_window, retx_queue[n])'
  <2> DEFINE r == retx_queue'[n]
  <2>1. r.sn \in DOMAIN tx_window /\ r.so + r.len <= SentOf(tx_window, r.sn)
    BY DEF WasSent
  <2>2. SentOf(tx_window, r.sn) = IF r.sn = sn_under_segmentation' THEN tx_window'[r.sn].next_so
                                  ELSE SduLen[tx_window'[r.sn].sdu]
    BY <2>1 DEF SameWindow, SentOf
  <2> HIDE DEF r
  <2>3. r.so + r.len <= IF r.sn = sn_under_segmentation' THEN tx_window'[r.sn].next_so
                        ELSE SduLen[tx_window'[r.sn].sdu]
    BY <2>1, <2>2
  <2>4. QED
    BY <2>3 DEF r, WasSent, SentOf
<1>6. SendInv'
  <2>1. \A sn \in SN : sn \in DOMAIN tx_window' <=> TxMod(sn)' < Top'
    BY <1>1, <1>3 DEF SendInv, SameWindow
  <2>2. QED
    BY <1>2, <1>3, <1>5, <2>1 DEF SendInv, SameWindow
<1>7. Grown
  <2>1. \A sn \in DOMAIN tx_window : SentOf(tx_window, sn) <= SentOf(tx_window, sn)'
    BY <1>4
  <2>2. Top <= Top' /\ TxMod(tx_next) <= TxMod(tx_next')
    BY <1>2, <1>3
  <2>3. QED
    BY <2>1, <2>2 DEF Grown, SameWindow
<1>8. QED
  BY <1>6, <1>7

(* build_retx_pdu.                                                         *)
LEMMA RetxGrows ==
  ASSUME TypeInv, TypeInv', SendInv, NEW len \in Nat \ {0}, NEW poll \in BOOLEAN,
         RetxSent(len, poll),
         UNCHANGED <<tx_next_ack, tx_next, tx_window, sn_under_segmentation, failure>>,
         NEW p, p = Pdu(retx_queue[1].sn, tx_window[retx_queue[1].sn].sdu, retx_queue[1].so, len, poll)
  PROVE  SendInv' /\ Grown /\ CarriesSent(p)'
<1>1. /\ retx_queue \in Seq(RetxSet) /\ Len(retx_queue) \in Nat
      /\ \A n \in 1..Len(retx_queue) : Exists(tx_window, retx_queue[n])
      /\ \A n \in 1..Len(retx_queue) : WasSent(tx_window, retx_queue[n])
  BY DEF TypeInv, TxInv, RetxTypes, SendInv
<1>2. SameWindow
  BY DEF SameWindow
<1>3. ASSUME NEW n \in 1..Len(retx_queue')
      PROVE  retx_queue'[n].sn \in DOMAIN tx_window /\ WasSent(tx_window, retx_queue'[n])
  <2>1. PICK m \in 1..Len(retx_queue) :
          /\ retx_queue'[n].sn = retx_queue[m].sn
          /\ retx_queue'[n].so + retx_queue'[n].len = retx_queue[m].so + retx_queue[m].len
    BY DEF RetxSent
  <2>2. Exists(tx_window, retx_queue[m]) /\ WasSent(tx_window, retx_queue[m])
    BY <1>1
  <2>3. QED
    BY <2>1, <2>2 DEF Exists, WasSent
<1>4. SendInv' /\ Grown
  BY <1>2, <1>3, SameGrown
<1>5. CarriesSent(p)
  <2> DEFINE r == retx_queue[1]
  <2>1. 1 \in 1..Len(retx_queue) /\ len <= r.len
    BY <1>1 DEF RetxSent
  <2>2. r \in RetxSet /\ Exists(tx_window, r) /\ WasSent(tx_window, r)
    BY <1>1, <2>1
  <2>3. r.so \in Nat /\ r.len \in Nat /\ r.sn \in SN
    BY <2>2 DEF RetxSet
  <2>4. p.sn = r.sn /\ p.sdu = tx_window[r.sn].sdu /\ p.so = r.so /\ p.len = len
    BY DEF Pdu
  <2> HIDE DEF r
  <2>5. r.sn \in DOMAIN tx_window /\ r.so + r.len <= SentOf(tx_window, r.sn)
    BY <2>2 DEF Exists, WasSent
  <2>6. SentOf(tx_window, r.sn) \in Nat
    BY <2>5, SentIs
  <2>7. p.so + p.len <= SentOf(tx_window, p.sn)
    BY <2>1, <2>3, <2>4, <2>5, <2>6
  <2>8. TxMod(p.sn) < Top
    BY <2>3, <2>4, <2>5 DEF SendInv
  <2>9. QED
    BY <2>4, <2>7, <2>8 DEF CarriesSent
<1>6. CarriesSent(p)'
  <2>1. p \in PduSet
    <3> DEFINE r == retx_queue[1]
    <3>1. 1 \in 1..Len(retx_queue)
      BY <1>1 DEF RetxSent
    <3>2. r \in RetxSet /\ Exists(tx_window, r)
      BY <1>1, <3>1
    <3>3. r.sn \in SN /\ r.so \in Nat /\ r.sn \in DOMAIN tx_window
      BY <3>2 DEF RetxSet, Exists
    <3>4. tx_window[r.sn].sdu \in Sdus
      BY <3>3, SentIs
    <3>5. QED
      BY <3>3, <3>4 DEF Pdu, PduSet
  <2>2. QED
    BY <1>4, <1>5, <2>1, GrownCarries
<1>7. QED
  BY <1>4, <1>6

(* on_expired_poll_retransmit_timer: the SDU under segmentation is never   *)
(* the one that is sent again, as it would have to be the only one.        *)
LEMMA PollGrows ==
  ASSUME TypeInv, SendInv, OnExpiredPollRetransmitTimer
  PROVE  SendInv' /\ Grown /\ SameWindow
<1> DEFINE sn == tx_next_ack
           retx == [sn |-> sn, so |-> 0, len |-> SduLen[tx_window[sn].sdu]]
           k == Len(retx_queue)
<1>1. /\ UNCHANGED <<sn_under_segmentation, tx_next_ack, tx_next, failure>>
      /\ \/ UNCHANGED <<retx_queue, tx_window>>
         \/ /\ BuffersEmpty \/ IsTxWindowFull
            /\ sn \in DOMAIN tx_window
            /\ retx_queue' = Append(retx_queue, retx)
            /\ tx_window' = IncrementRetxCount(tx_window, sn)
  BY DEF OnExpiredPollRetransmitTimer
<1>2. /\ retx_queue \in Seq(RetxSet) /\ k \in Nat
      /\ \A n \in 1..k : Exists(tx_window, retx_queue[n])
      /\ \A n \in 1..k : WasSent(tx_window, retx_queue[n])
  BY DEF TypeInv, TxInv, RetxTypes, SendInv
<1>3. \A n \in 1..k : retx_queue[n].sn \in DOMAIN tx_window /\ WasSent(tx_window, retx_queue[n])
  BY <1>2 DEF Exists
<1>4. CASE UNCHANGED <<retx_queue, tx_window>>
  <2>1. SameWindow
    BY <1>1, <1>4 DEF SameWindow
  <2>2. QED
    BY <1>3, <1>4, <2>1, SameGrown
<1>5. CASE /\ BuffersEmpty \/ IsTxWindowFull
           /\ sn \in DOMAIN tx_window
           /\ retx_queue' = Append(retx_queue, retx)
           /\ tx_window' = IncrementRetxCount(tx_window, sn)
  <2>1. /\ tx_next_ack \in SN /\ tx_next \in SN /\ DOMAIN tx_window \subseteq SN
        /\ am_window_size \in Nat /\ am_window_size >= 2 /\ Top \in Nat
        /\ Mod = 2 * am_window_size /\ Mod \in Nat
        /\ TxMod(tx_next) \in Nat
    BY Distances
  <2>2. SameWindow
    <3>1. tx_window \in [DOMAIN tx_window -> InfoSet]
      BY DEF TypeInv, TxInv, TxTypes
    <3>2. tx_window' = [s \in DOMAIN tx_window |->
             IF s = sn THEN [tx_window[sn] EXCEPT !.retx_count = tx_window[sn].retx_count + 1]
             ELSE tx_window[s]]
      BY <1>5, <3>1 DEF IncrementRetxCount
    <3>3. ASSUME NEW i \in InfoSet, NEW c
          PROVE  [i EXCEPT !.retx_count = c].sdu = i.sdu /\ [i EXCEPT !.retx_count = c].next_so = i.next_so
      BY DEF InfoSet
    <3>4. tx_window[sn] \in InfoSet
      BY <1>5, <3>1
    <3>5. QED
      BY <1>1, <3>2, <3>3, <3>4 DEF SameWindow
  <2>3. sn # sn_under_segmentation
    <3>1. ASSUME sn = sn_under_segmentation PROVE FALSE
      <4>1. Segmenting /\ sn = tx_next
        BY <2>1, <3>1 DEF Segmenting, SendInv, SN, NoSn
      <4>2. TxMod(tx_next) = 0
        BY <2>1, <4>1, Rebase DEF TxMod
      <4>3. Top = 1
        BY <4>1, <4>2 DEF Top
      <4>4. ~BuffersEmpty
        BY <4>1 DEF BuffersEmpty, Segmenting
      <4>5. Cardinality(DOMAIN tx_window) = 1
        <5>1. DOMAIN tx_window = {s \in SN : Ahead(s, tx_next_ack) < 1}
          BY <2>1, <4>3 DEF SendInv, TxMod
        <5>2. 1 \in 0..Mod
          BY <2>1
        <5>3. QED
          BY <2>1, <5>1, <5>2, CountOf
      <4>6. ~(MaxWindow # 0 /\ TxMod(tx_next) > MaxWindow)
        BY <4>2, TxAssumption
      <4>7. ~IsTxWindowFull
        BY <2>1, <4>5, <4>6 DEF IsTxWindowFull, TxFull
      <4>8. QED
        BY <1>5, <4>4, <4>7
    <3>2. QED
      BY <3>1
  <2>4. WasSent(tx_window, retx)
    <3>1. SentOf(tx_window, sn) = SduLen[tx_window[sn].sdu] /\ SduLen[tx_window[sn].sdu] \in Nat
      BY <1>5, <2>3, SentIs
    <3>2. retx.sn = sn /\ retx.so + retx.len = SduLen[tx_window[sn].sdu]
      BY <3>1
    <3> HIDE DEF retx
    <3>3. QED
      BY <3>1, <3>2 DEF WasSent
  <2> HIDE DEF retx
  <2>5. /\ Len(retx_queue') = k + 1 /\ retx_queue'[k + 1] = retx
        /\ \A n \in 1..k : retx_queue'[n] = retx_queue[n]
    BY <1>2, <1>5
  <2>6. retx.sn \in DOMAIN tx_window
    BY <1>5 DEF retx
  <2>7. \A n \in 1..(k + 1) : n \in 1..k \/ n = k + 1
    BY <1>2
  <2>8. \A n \in 1..Len(retx_queue') :
           retx_queue'[n].sn \in DOMAIN tx_window /\ WasSent(tx_window, retx_queue'[n])
    BY <1>3, <2>4, <2>5, <2>6, <2>7
  <2>9. QED
    BY <2>2, <2>8, SameGrown
<1>6. QED
  BY <1>1, <1>4, <1>5

(* Every step of the sender but the handling of a report.                  *)
LEMMA SenderKeepsProtocol ==
  ASSUME TypeInv, TypeInv', ProtocolInv, ~released, SenderStep, ~HandleStatusPdu, UNCHANGED rx_vars
  PROVE  ProtocolInv'
<1>1. SendInv /\ LinkInv /\ AirLink /\ ReportLink /\ KeptLink /\ TxInv
  BY DEF ProtocolInv, TypeInv
<1>2. ASSUME SendInv', Grown, UNCHANGED status_air, AirLink'
      PROVE  ProtocolInv'
  BY <1>1, <1>2, GrownLink DEF ProtocolInv
<1>3. ASSUME UNCHANGED <<tx_next_ack, tx_next, tx_window, sn_under_segmentation, failure, retx_queue,
                         data_air, status_air>>
      PROVE  ProtocolInv'
  <2>1. SameWindow
    BY <1>3 DEF SameWindow
  <2>2. \A n \in 1..Len(retx_queue') :
          retx_queue'[n].sn \in DOMAIN tx_window /\ WasSent(tx_window, retx_queue'[n])
    BY <1>1, <1>3 DEF SendInv, TxInv, RetxTypes, Exists
  <2>3. SendInv' /\ Grown
    BY <1>1, <2>1, <2>2, SameGrown
  <2>4. AirLink'
    BY <1>1, <1>3, <2>3, GrownSame
  <2>5. QED
    BY <1>2, <1>3, <2>3, <2>4
<1>4. ASSUME NEW pdu \in PduSet, Transmit(pdu), SendInv', Grown, CarriesSent(pdu)', UNCHANGED status_air
      PROVE  ProtocolInv'
  <2>1. AirLink'
    BY <1>1, <1>4, GrownAir
  <2>2. QED
    BY <1>2, <1>4, <2>1
<1>5. ASSUME NEW i \in Sdus, HandleSdu(i) \/ DiscardSdu(i)
      PROVE  ProtocolInv'
  BY <1>3, <1>5 DEF HandleSdu, DiscardSdu
<1>6. ASSUME UpdateMacBufferState
      PROVE  ProtocolInv'
  BY <1>3, <1>6 DEF UpdateMacBufferState
<1>7. ASSUME OnExpiredPollRetransmitTimer
      PROVE  ProtocolInv'
  <2>1. UNCHANGED <<data_air, status_air>>
    BY <1>7 DEF OnExpiredPollRetransmitTimer
  <2>2. SendInv' /\ Grown
    BY <1>1, <1>7, PollGrows
  <2>3. AirLink'
    BY <1>1, <2>1, <2>2, GrownSame
  <2>4. QED
    BY <1>2, <2>1, <2>2, <2>3
<1>8. ASSUME NEW grant \in 0..MaxGrant, PullPdu(grant)
      PROVE  ProtocolInv'
  <2>1. grant \in Nat
    BY LinkAssumption
  <2>2. CASE BuildNewPdu(grant)
    <3>1. PICK sdu \in Sdus, info \in InfoSet, len \in Nat \ {0}, poll \in BOOLEAN :
            NewPdu(sdu, info, len, poll)
      BY <1>1, <2>1, <2>2, BuildNewIs
    <3>2. PICK p : p = Pdu(tx_next, sdu, 0, len, poll)
      OBVIOUS
    <3>3. SendInv' /\ Grown /\ CarriesSent(p)'
      BY <1>1, <3>1, <3>2, NewGrows
    <3>4. p \in PduSet
      <4>1. tx_next \in SN
        BY Distances
      <4>2. QED
        BY <3>2, <4>1 DEF Pdu, PduSet
    <3>5. Transmit(p) /\ UNCHANGED status_air
      BY <3>1, <3>2 DEF NewPdu
    <3>6. QED
      BY <1>4, <3>3, <3>4, <3>5
  <2>3. CASE BuildContinuedSduSegment(grant)
    <3>1. PICK info \in InfoSet, len \in Nat \ {0}, poll \in BOOLEAN : NextSegment(info, len, poll)
      BY <1>1, <2>1, <2>3, BuildContinuedIs
    <3>2. PICK p : p = Pdu(tx_next, info.sdu, info.next_so, len, poll)
      OBVIOUS
    <3>3. SendInv' /\ Grown /\ CarriesSent(p)'
      BY <1>1, <3>1, <3>2, SegmentGrows
    <3>4. p \in PduSet
      <4>1. tx_next \in SN /\ info.sdu \in Sdus /\ info.next_so \in Nat
        BY Distances DEF InfoSet
      <4>2. QED
        BY <3>2, <4>1 DEF Pdu, PduSet
    <3>5. Transmit(p) /\ UNCHANGED status_air
      BY <3>1, <3>2 DEF NextSegment
    <3>6. QED
      BY <1>4, <3>3, <3>4, <3>5
  <2>4. CASE BuildRetxPdu(grant)
    <3>1. /\ UNCHANGED <<tx_next_ack, tx_next, tx_window, sn_under_segmentation, failure, status_air>>
          /\ \/ UNCHANGED <<retx_queue, data_air>>
             \/ \E len \in Nat \ {0}, poll \in BOOLEAN : RetxSent(len, poll)
      BY <1>1, <2>1, <2>4, BuildRetxIs
    <3>2. CASE UNCHANGED <<retx_queue, data_air>>
      BY <1>3, <3>1, <3>2
    <3>3. ASSUME NEW len \in Nat \ {0}, NEW poll \in BOOLEAN, RetxSent(len, poll)
          PROVE  ProtocolInv'
      <4> DEFINE r == retx_queue[1]
      <4>1. PICK p : p = Pdu(r.sn, tx_window[r.sn].sdu, r.so, len, poll)
        OBVIOUS
      <4>2. SendInv' /\ Grown /\ CarriesSent(p)'
        BY <1>1, <3>1, <3>3, <4>1, RetxGrows
      <4>3. Transmit(p)
        BY <3>3, <4>1 DEF RetxSent
      <4>4. r \in RetxSet /\ r.sn \in DOMAIN tx_window
        <5>1. 1 \in 1..Len(retx_queue) /\ retx_queue \in Seq(RetxSet)
          BY <1>1, <3>3 DEF RetxSent, TxInv, RetxTypes
        <5>2. QED
          BY <1>1, <5>1 DEF TxInv, RetxTypes, Exists
      <4>5. r.sn \in SN /\ r.so \in Nat /\ tx_window[r.sn].sdu \in Sdus
        BY <4>4, SentIs DEF RetxSet
      <4>6. p \in PduSet
        BY <4>1, <4>5 DEF Pdu, PduSet
      <4>7. QED
        BY <1>4, <3>1, <4>2, <4>3, <4>6
    <3>4. QED
      BY <3>1, <3>2, <3>3
  <2>5. CASE EmptyPull(grant)
    BY <1>3, <2>5 DEF EmptyPull
  <2>6. QED
    BY <1>8, <2>2, <2>3, <2>4, <2>5 DEF PullPdu
<1>9. QED
  BY <1>5, <1>6, <1>7, <1>8 DEF SenderStep

-----------------------------------------------------------------------------
(* handle_status_pdu.                                                      *)

(* No data PDU is in flight from so long ago that the sender may take its  *)
(* SN for a new one once the report in flight arrives.                     *)
Timely(p) == TxMod(p.sn) < am_window_size \/ TxMod(rx_next) + am_window_size <= TxMod(p.sn)

FlightInWindow == \A n \in 1..Len(data_air) : Timely(data_air[n])

(* The ACK_SN of a report that the receiver may send does not come back    *)
(* into the sender's window: no such report falls a whole window behind.   *)
KeptInTime == \A r \in Sendable : ValidAckSn(r.ack)' => ValidAckSn(r.ack)

(* The SNs that a report confirms are those before its first NACK.         *)
LEMMA ConfirmedIs ==
  ASSUME TypeInv, ProtocolInv, NEW r, WellFormed(r), ReportTrue(r), ValidAckSn(r.ack),
         NacksBelow(r)
  PROVE  /\ StopOf(r) \in SN /\ TxMod(StopOf(r)) <= TxMod(rx_next)
         /\ Confirmed(r) = {sn \in SN : TxMod(sn) < TxMod(StopOf(r))}
         /\ (tx_next_ack + Cardinality(Confirmed(r))) % Mod = StopOf(r)
<1> DEFINE na == StopOf(r)
           s == TxMod(na)
           A == {sn \in SN : TxMod(sn) < s}
<1>1. r \in ReportSet /\ r.ack \in SN /\ r.nacks \in Seq(NackSet) /\ Len(r.nacks) \in Nat
  BY DEF WellFormed, ReportSet
<1>2. na \in SN
  <2>1. CASE r.nacks = <<>>
    BY <1>1, <2>1 DEF StopOf
  <2>2. CASE r.nacks # <<>>
    <3>1. 1 \in 1..Len(r.nacks)
      BY <1>1, <2>2
    <3>2. r.nacks[1] \in NackSet
      BY <1>1, <3>1
    <3>3. QED
      BY <2>2, <3>2 DEF StopOf, NackSet
  <2>3. QED
    BY <2>1, <2>2
<1>3. na = IF r.nacks = <<>> THEN r.ack ELSE Head(r.nacks).sn
  BY <1>1 DEF StopOf
<1>4. s <= TxMod(rx_next)
  BY DEF ReportTrue, Claims
<1> HIDE DEF na
<1>5. /\ tx_next_ack \in SN /\ DOMAIN tx_window \subseteq SN /\ Top \in Nat /\ s \in Nat /\ s < Mod
      /\ TxMod(rx_next) \in Nat /\ TxMod(tx_next) \in Nat /\ Mod \in Nat
      /\ \A sn \in SN : TxMod(sn) \in Nat /\ TxMod(sn) < Mod
  BY <1>2, Distances, WindowSize
<1>6. TxMod(rx_next) <= TxMod(tx_next) /\ TxMod(tx_next) <= Top
  BY <1>5 DEF ProtocolInv, LinkInv, Top
<1>7. s <= Top
  BY <1>4, <1>5, <1>6
<1> HIDE DEF s
<1>8. \A sn \in SN : sn \in DOMAIN tx_window <=> TxMod(sn) < Top
  BY DEF ProtocolInv, SendInv
<1>9. ASSUME NEW sn \in SN, TxMod(sn) < s
      PROVE  \A d \in 0..TxMod(sn) : (tx_next_ack + d) % Mod \in DOMAIN tx_window
  <2>1. SUFFICES ASSUME NEW d \in 0..TxMod(sn) PROVE At(tx_next_ack, d) \in DOMAIN tx_window
    BY DEF At
  <2>2. d \in 0..(Mod - 1) /\ d < Top
    BY <1>5, <1>7, <1>9
  <2>3. At(tx_next_ack, d) \in SN /\ TxMod(At(tx_next_ack, d)) = d
    BY <1>5, <2>2, AtIs DEF TxMod
  <2>4. QED
    BY <1>8, <2>2, <2>3
<1>10. Confirmed(r) = {sn \in DOMAIN tx_window :
                         /\ TxMod(sn) < s
                         /\ \A d \in 0..TxMod(sn) : (tx_next_ack + d) % Mod \in DOMAIN tx_window}
  BY <1>3 DEF Confirmed, s
<1>11. \A sn \in SN : TxMod(sn) < s => sn \in DOMAIN tx_window
  BY <1>5, <1>7, <1>8
<1>12. Confirmed(r) = A
  BY <1>5, <1>9, <1>10, <1>11
<1>13. Cardinality(A) = s
  <2>1. s \in 0..Mod
    BY <1>5
  <2>2. QED
    BY <1>5, <2>1, CountOf DEF TxMod
<1>14. (tx_next_ack + s) % Mod = na
  BY <1>2, <1>5, Rebase DEF At, s, TxMod
<1>15. QED
  BY <1>2, <1>4, <1>12, <1>13, <1>14 DEF na, s

(* A report is applied if its ACK_SN and its NACKs fit the window.         *)
LEMMA NotRefused ==
  ASSUME NEW r, ~Refused(r)
  PROVE  ValidAckSn(r.ack) /\ NacksBelow(r)
<1>1. ValidAckSn(r.ack) /\ \A n \in 1..Len(r.nacks) : ValidNack(r.ack, r.nacks[n])
  BY DEF Refused
<1>2. ASSUME NEW n \in 1..Len(r.nacks)
      PROVE  TxMod(r.nacks[n].sn) < TxMod(r.ack)
  BY <1>1 DEF ValidNack
<1>3. QED
  BY <1>1, <1>2 DEF NacksBelow

(* The sender's window starts at na now.                                   *)
Advanced(na) ==
  /\ na \in SN /\ tx_next_ack' = na /\ TxMod(na) <= TxMod(rx_next)
  /\ UNCHANGED <<tx_next, sn_under_segmentation, failure>>
  /\ \A sn : sn \in DOMAIN tx_window' <=> sn \in DOMAIN tx_window /\ ~(TxMod(sn) < TxMod(na))
  /\ \A sn \in DOMAIN tx_window' : /\ tx_window'[sn].sdu = tx_window[sn].sdu
                                   /\ tx_window'[sn].next_so = tx_window[sn].next_so
  /\ \A n \in 1..Len(retx_queue') : WasSent(tx_window, retx_queue[n])'

(* handle_status_pdu moves the window to the first SN that is not           *)
(* confirmed, and with no SDU under segmentation it queues what is asked.   *)
LEMMA StatusAdvances ==
  ASSUME TypeInv, ProtocolInv, ~released, NEW r, WellFormed(r), status_air = <<r>>,
         HandleStatusPdu, ~Refused(r)
  PROVE  Advanced(StopOf(r)) /\ (r.nacks # <<>> /\ ~Segmenting => retx_queue' # <<>>)
<1> DEFINE na    == StopOf(r)
           acked == Confirmed(r)
           next_ack == (tx_next_ack + Cardinality(acked)) % Mod
           w     == RewindRetx(Restrict(tx_window, DOMAIN tx_window \ acked))
           res   == HandleNacks([window |-> w, queue |-> <<>>, sn |-> NoSn,
                                 failure |-> failure], r, next_ack)
<1>1. Head(status_air) = r
  OBVIOUS
<1>2. /\ UNCHANGED <<tx_next, sn_under_segmentation>>
      /\ tx_next_ack' = next_ack /\ tx_window' = res.window /\ retx_queue' = res.queue
      /\ failure' = res.failure
  BY <1>1 DEF HandleStatusPdu, Refused
<1>3. ReportTrue(r) /\ ValidAckSn(r.ack) /\ NacksBelow(r)
  BY NotRefused DEF ProtocolInv, ReportLink
<1>4. /\ na \in SN /\ TxMod(na) <= TxMod(rx_next)
      /\ acked = {sn \in SN : TxMod(sn) < TxMod(na)}
      /\ next_ack = na
  BY <1>3, ConfirmedIs
<1>5. Rewound(w, acked) /\ TxInv
  BY RewindIs DEF TypeInv
<1>6. ASSUME NEW n \in 1..Len(r.nacks)
      PROVE  NackPieces(w, r.nacks[n])
  <2> DEFINE nack == r.nacks[n]
  <2>1. nack \in NackSet
    BY DEF WellFormed, ReportSet
  <2>2. /\ TxMod(na) <= TxMod(nack.sn) /\ TxMod(nack.sn) + nack.range <= am_window_size
        /\ NackPieces(tx_window, nack)
    BY <1>3 DEF ReportTrue, Claims
  <2>3. nack.sn \in SN /\ nack.range \in Nat
    BY <2>1 DEF NackSet
  <2>4. /\ TxMod(nack.sn) \in Nat /\ TxMod(na) \in Nat /\ am_window_size \in Nat /\ tx_next_ack \in SN
        /\ Mod = 2 * am_window_size
    BY <1>4, <2>3, Distances
  <2> HIDE DEF nack, na, w, acked
  <2>5. ASSUME NEW j \in 1..nack.range
        PROVE  PieceOk(w, At(nack.sn, j - 1), IF j = 1 THEN nack.start ELSE 0,
                       IF j = nack.range THEN nack.end ELSE EndOfSdu)
    <3> DEFINE sn == At(nack.sn, j - 1)
               b == IF j = 1 THEN nack.start ELSE 0
               e == IF j = nack.range THEN nack.end ELSE EndOfSdu
    <3>1. PieceOk(tx_window, sn, b, e)
      BY <2>2 DEF NackPieces
    <3>2. j - 1 \in Nat /\ TxMod(nack.sn) + (j - 1) < Mod
      BY <2>2, <2>3, <2>4
    <3>3. TxMod(sn) = TxMod(nack.sn) + (j - 1)
      BY <2>3, <2>4, <3>2, AtStep DEF TxMod
    <3> HIDE DEF sn, b, e
    <3>4. ~(TxMod(sn) < TxMod(na))
      BY <2>2, <2>4, <3>2, <3>3
    <3>5. sn \in DOMAIN tx_window /\ sn \notin acked
      BY <1>4, <3>1, <3>4 DEF PieceOk
    <3>6. sn \in DOMAIN w /\ w[sn].sdu = tx_window[sn].sdu /\ w[sn].next_so = tx_window[sn].next_so
      BY <1>5, <3>5 DEF Rewound
    <3>7. PieceOk(w, sn, b, e)
      BY <3>1, <3>6 DEF PieceOk, SentOf
    <3>8. QED
      BY <3>7 DEF sn, b, e
  <2>6. QED
    BY <2>5 DEF NackPieces, nack
<1> HIDE DEF na, acked, next_ack, w
<1>7. StatusApplied(res, w, acked, TRUE) /\ (ReportAsks(r, next_ack) => res.queue # <<>>)
  BY <1>5, <1>6, StatusIs
<1> HIDE DEF res
<1>14. ASSUME r.nacks # <<>>, ~Segmenting
       PROVE  ReportAsks(r, next_ack)
  <2>1. ASSUME NEW n \in 1..Len(r.nacks)
        PROVE  r.nacks[n].sn # r.ack
    <3>1. TxMod(r.nacks[n].sn) < TxMod(r.ack) /\ r.ack \in SN
      BY <1>3, <2>1 DEF NacksBelow, WellFormed, ReportSet
    <3>2. TxMod(r.ack) \in Nat
      BY <3>1, Distances
    <3>3. QED
      BY <3>1, <3>2
  <2>2. ASSUME NEW n \in 1..Len(r.nacks), NEW j \in 1..r.nacks[n].range
        PROVE  ~(Ahead(At(r.nacks[n].sn, j - 1), next_ack) > Ahead(tx_next, next_ack))
    <3> DEFINE sn == At(r.nacks[n].sn, j - 1)
    <3>1. sn \in DOMAIN w
      BY <1>6, <2>2 DEF NackPieces, PieceOk
    <3> HIDE DEF sn
    <3>2. sn \in DOMAIN tx_window /\ sn \in SN /\ ~(TxMod(sn) < TxMod(na))
      BY <1>4, <1>5, <3>1, Distances DEF Rewound
    <3>3. /\ TxMod(sn) < TxMod(tx_next) /\ TxMod(sn) \in Nat /\ TxMod(tx_next) \in Nat
          /\ TxMod(na) \in Nat /\ tx_next \in SN /\ tx_next_ack \in SN
      BY <1>4, <1>14, <3>2, Distances DEF ProtocolInv, SendInv, Top
    <3>4. /\ Ahead(sn, na) = TxMod(sn) - TxMod(na)
          /\ Ahead(tx_next, na) = TxMod(tx_next) - TxMod(na)
      BY <1>4, <3>2, <3>3, Rebase DEF TxMod
    <3>5. QED
      BY <1>4, <3>3, <3>4 DEF sn
  <2>3. QED
    BY <1>14, <2>1, <2>2 DEF ReportAsks, Asks, Segmenting
<1>8. /\ DOMAIN res.window = DOMAIN tx_window \ acked
      /\ \A sn \in DOMAIN res.window :
           /\ res.window[sn].sdu = tx_window[sn].sdu
           /\ res.window[sn].next_so = tx_window[sn].next_so
      /\ res.failure = failure
      /\ \A n \in 1..Len(res.queue) : WasSent(res.window, res.queue[n])
  BY <1>7 DEF StatusApplied
<1>9. ASSUME NEW n \in 1..Len(retx_queue')
      PROVE  WasSent(tx_window, retx_queue[n])'
  <2>1. WasSent(res.window, res.queue[n])
    BY <1>2, <1>8
  <2>2. QED
    BY <1>2, <2>1 DEF WasSent, SentOf
<1>10. DOMAIN tx_window \subseteq SN
  BY Distances
<1>11. \A sn : sn \in DOMAIN tx_window' <=> sn \in DOMAIN tx_window /\ ~(TxMod(sn) < TxMod(na))
  BY <1>2, <1>4, <1>8, <1>10
<1>12. Advanced(na)
  BY <1>2, <1>4, <1>8, <1>9, <1>11 DEF Advanced
<1>13. QED
  BY <1>2, <1>7, <1>12, <1>14 DEF na

(* A report that the receiver keeps is as true as before: what is ahead of *)
(* na is as much nearer, and what is behind does not fit the window.       *)
LEMMA ReportAdvanced ==
  ASSUME TypeInv, TypeInv', SendInv, LinkInv, NEW na, Advanced(na), UNCHANGED rx_vars,
         NEW r \in ReportSet, ReportTrue(r), ValidAckSn(r.ack)' => ValidAckSn(r.ack)
  PROVE  ReportTrue(r)'
<1> DEFINE s == TxMod(na)
           R == TxMod(rx_next)
           H == TxMod(rx_next_highest)
           W == am_window_size
           a == TxMod(r.ack)
<1>1. /\ na \in SN /\ tx_next_ack' = na /\ s <= R /\ UNCHANGED sn_under_segmentation
      /\ \A sn : sn \in DOMAIN tx_window' <=> sn \in DOMAIN tx_window /\ ~(TxMod(sn) < s)
      /\ \A sn \in DOMAIN tx_window' : /\ tx_window'[sn].sdu = tx_window[sn].sdu
                                       /\ tx_window'[sn].next_so = tx_window[sn].next_so
      /\ UNCHANGED <<rx_next, rx_next_highest>>
  BY DEF Advanced, rx_vars
<1>2. /\ tx_next_ack \in SN /\ tx_next \in SN /\ rx_next \in SN /\ rx_next_highest \in SN
      /\ Top \in Nat /\ W \in Nat /\ W >= 2 /\ Mod = 2 * W
      /\ \A sn \in SN : TxMod(sn) \in Nat /\ TxMod(sn) < Mod
      /\ s \in Nat /\ R \in Nat /\ H \in Nat
  BY <1>1, Distances
<1>3. r.ack \in SN /\ r.nacks \in Seq(NackSet) /\ Len(r.nacks) \in Nat /\ a \in Nat
  BY <1>2 DEF ReportSet
<1>4. ASSUME NEW n \in 1..Len(r.nacks)
      PROVE  r.nacks[n] \in NackSet /\ r.nacks[n].sn \in SN /\ r.nacks[n].range \in Nat \ {0}
  <2>1. r.nacks[n] \in NackSet
    BY <1>3
  <2>2. QED
    BY <2>1 DEF NackSet
<1>5. R <= H /\ H <= Top /\ Top <= W
  BY DEF LinkInv, SendInv
<1>6. ASSUME NEW sn \in SN
      PROVE  TxMod(sn)' = IF TxMod(sn) >= s THEN TxMod(sn) - s ELSE TxMod(sn) - s + Mod
  <2>1. TxMod(sn)' = Ahead(sn, na)
    BY <1>1 DEF TxMod
  <2>2. QED
    BY <1>1, <1>2, <2>1, Rebase DEF TxMod
<1>7. ASSUME NEW sn \in SN, ~(TxMod(sn)' >= W)
      PROVE  TxMod(sn) >= s /\ TxMod(sn)' = TxMod(sn) - s
  <2>1. TxMod(sn) \in Nat
    BY <1>2
  <2> HIDE DEF s, R, H, W
  <2>2. QED
    BY <1>1, <1>2, <1>5, <1>6, <1>7, <2>1
<1>8. R - s \in Nat /\ H - s \in Nat /\ TxMod(rx_next)' = R - s /\ TxMod(rx_next_highest)' = H - s
  <2>1. /\ TxMod(rx_next)' = IF R >= s THEN R - s ELSE R - s + Mod
        /\ TxMod(rx_next_highest)' = IF H >= s THEN H - s ELSE H - s + Mod
    <3>1. /\ TxMod(rx_next)' = Ahead(rx_next, na)
          /\ TxMod(rx_next_highest)' = Ahead(rx_next_highest, na)
      BY <1>1 DEF TxMod
    <3>2. QED
      BY <1>1, <1>2, <3>1, Rebase DEF TxMod
  <2> HIDE DEF s, R, H, W
  <2>2. QED
    BY <1>1, <1>2, <1>5, <2>1
<1> HIDE DEF s, R, H, W
<1>9. CASE ~ValidAckSn(r.ack)'
  BY <1>9 DEF ReportTrue
<1>10. CASE ValidAckSn(r.ack)'
  <2>1. a \in 1..W /\ TxMod(r.ack)' \in 1..W
    BY <1>10 DEF ValidAckSn, W
  <2>2. a >= s /\ TxMod(r.ack)' = a - s
    <3>1. TxMod(r.ack)' = IF a >= s THEN a - s ELSE a - s + Mod
      BY <1>3, <1>6
    <3> HIDE DEF a
    <3>2. QED
      BY <1>1, <1>2, <1>3, <1>5, <2>1, <3>1
  <2>3. a <= H /\ (NacksBelow(r) => Claims(r))
    BY <2>1 DEF ReportTrue, ValidAckSn, W, H
  <2>4. TxMod(r.ack)' <= TxMod(rx_next_highest)'
    <3> HIDE DEF a
    <3>1. QED
      BY <1>2, <1>3, <1>8, <2>2, <2>3
  <2>5. ASSUME NacksBelow(r)' PROVE Claims(r)'
    <3>1. ASSUME NEW n \in 1..Len(r.nacks)
          PROVE  /\ TxMod(r.nacks[n].sn) >= s /\ TxMod(r.nacks[n].sn) < a
                 /\ TxMod(r.nacks[n].sn)' = TxMod(r.nacks[n].sn) - s
      <4> DEFINE sn == r.nacks[n].sn
                 d == TxMod(sn)
      <4>1. sn \in SN /\ d \in Nat
        BY <1>2, <1>4
      <4>2. TxMod(sn)' < TxMod(r.ack)'
        BY <2>5 DEF NacksBelow
      <4>3. TxMod(sn)' = IF d >= s THEN d - s ELSE d - s + Mod
        BY <1>6, <4>1
      <4> HIDE DEF sn, d, a
      <4>4. d >= s /\ d < a /\ TxMod(sn)' = d - s
        <5>1. a \in Nat /\ a >= s /\ a <= W /\ TxMod(r.ack)' = a - s
          BY <1>2, <2>1, <2>2 DEF W
        <5>2. s \in Nat /\ W \in Nat /\ Mod = 2 * W
          BY <1>2
        <5>3. CASE d >= s
          BY <5>1, <5>2, <5>3, <4>1, <4>2, <4>3
        <5>4. CASE ~(d >= s)
          BY <5>1, <5>2, <5>4, <4>1, <4>2, <4>3
        <5>5. QED
          BY <5>3, <5>4
      <4>5. QED
        BY <4>4 DEF sn, d
    <3>2. Claims(r)
      BY <2>3, <3>1 DEF NacksBelow
    <3>3. StopOf(r) \in SN /\ TxMod(StopOf(r)) >= s
      <4>1. CASE r.nacks = <<>>
        BY <1>3, <2>2, <4>1 DEF StopOf
      <4>2. CASE r.nacks # <<>>
        <5>1. 1 \in 1..Len(r.nacks)
          BY <1>3, <4>2
        <5>2. QED
          BY <1>4, <3>1, <4>2, <5>1 DEF StopOf
      <4>3. QED
        BY <4>1, <4>2
    <3> DEFINE t == TxMod(StopOf(r))
    <3>4. TxMod(StopOf(r))' = t - s /\ t \in Nat
      BY <1>2, <1>6, <3>3
    <3>5. t <= R
      BY <3>2 DEF Claims, R
    <3> HIDE DEF t
    <3>6. TxMod(StopOf(r))' <= TxMod(rx_next)'
      BY <1>2, <1>8, <3>4, <3>5
    <3>7. ASSUME NEW n \in 1..Len(r.nacks)
          PROVE  /\ TxMod(StopOf(r))' <= TxMod(r.nacks[n].sn)'
                 /\ TxMod(r.nacks[n].sn)' + r.nacks[n].range <= W
                 /\ NackPieces(tx_window, r.nacks[n])'
      <4> DEFINE nack == r.nacks[n]
                 d == TxMod(nack.sn)
                 q == nack.range
      <4>1. nack.sn \in SN /\ q \in Nat \ {0} /\ d \in Nat
        BY <1>2, <1>4
      <4>2. d >= s /\ TxMod(nack.sn)' = d - s
        BY <3>1
      <4>3. t <= d /\ d + q <= W /\ NackPieces(tx_window, nack)
        BY <3>2 DEF Claims, t, W
      <4> HIDE DEF nack, d, q
      <4>4. TxMod(StopOf(r))' <= TxMod(nack.sn)' /\ TxMod(nack.sn)' + q <= W
        BY <1>2, <3>4, <4>1, <4>2, <4>3
      <4>5. ASSUME NEW j \in 1..q
            PROVE  PieceOk(tx_window, At(nack.sn, j - 1), IF j = 1 THEN nack.start ELSE 0,
                           IF j = nack.range THEN nack.end ELSE EndOfSdu)'
        <5> DEFINE x == At(nack.sn, j - 1)
                   b == IF j = 1 THEN nack.start ELSE 0
                   e == IF j = nack.range THEN nack.end ELSE EndOfSdu
        <5>1. PieceOk(tx_window, x, b, e)
          BY <4>3 DEF NackPieces, q
        <5>2. j - 1 \in Nat /\ d + (j - 1) < Mod
          BY <1>2, <4>1, <4>3
        <5>3. TxMod(x) = d + (j - 1)
          BY <1>2, <4>1, <5>2, AtStep DEF TxMod, d
        <5> HIDE DEF x, b, e
        <5>4. ~(TxMod(x) < s) /\ x \in DOMAIN tx_window
          BY <1>2, <4>1, <4>2, <5>1, <5>2, <5>3 DEF PieceOk
        <5>5. x \in DOMAIN tx_window'
          BY <1>1, <5>4
        <5>6. tx_window'[x].sdu = tx_window[x].sdu /\ tx_window'[x].next_so = tx_window[x].next_so
          BY <1>1, <5>5
        <5>7. PieceOk(tx_window, x, b, e)'
          BY <1>1, <5>1, <5>5, <5>6 DEF PieceOk, SentOf
        <5>8. QED
          BY <5>7 DEF x, b, e
      <4>6. NackPieces(tx_window, nack)'
        BY <4>5 DEF NackPieces, q
      <4>7. QED
        BY <4>4, <4>6 DEF nack, q
    <3>8. QED
      BY <3>6, <3>7 DEF Claims, W
  <2>6. QED
    BY <2>4, <2>5 DEF ReportTrue
<1>11. QED
  BY <1>9, <1>10

(* The distances of both ends shrink by as much, and a data PDU in flight  *)
(* that fell out of the window stays out of it.                            *)
LEMMA AdvancedKeeps ==
  ASSUME TypeInv, TypeInv', ProtocolInv, FlightInWindow, KeptInTime, NEW na, Advanced(na),
         UNCHANGED rx_vars, UNCHANGED data_air, status_air' = <<>>
  PROVE  ProtocolInv'
<1> DEFINE s == TxMod(na)
           R == TxMod(rx_next)
           H == TxMod(rx_next_highest)
           N == TxMod(tx_next)
           W == am_window_size
<1>1. /\ na \in SN /\ tx_next_ack' = na /\ s <= R
      /\ UNCHANGED <<tx_next, sn_under_segmentation, failure>>
      /\ UNCHANGED <<rx_next, rx_next_highest, rx_window, rx_failure>>
  BY DEF Advanced, rx_vars
<1>2. /\ tx_next_ack \in SN /\ tx_next \in SN /\ rx_next \in SN /\ rx_next_highest \in SN
      /\ DOMAIN tx_window \subseteq SN /\ DOMAIN rx_window \subseteq SN
      /\ Top \in Nat /\ W \in Nat /\ W >= 2 /\ Mod = 2 * W
      /\ \A sn \in SN : TxMod(sn) \in Nat /\ TxMod(sn) < Mod
      /\ s \in Nat /\ R \in Nat /\ H \in Nat /\ N \in Nat
  BY <1>1, Distances
<1>3. R <= H /\ R <= N /\ H <= Top /\ Top <= W /\ Top = IF Segmenting THEN N + 1 ELSE N
  BY DEF ProtocolInv, LinkInv, SendInv, Top
<1>4. ASSUME NEW sn \in SN
      PROVE  Ahead(sn, na) = IF TxMod(sn) >= s THEN TxMod(sn) - s ELSE TxMod(sn) - s + Mod
  BY <1>1, <1>2, Rebase DEF TxMod
<1>5. /\ TxMod(rx_next)' = Ahead(rx_next, na) /\ TxMod(rx_next_highest)' = Ahead(rx_next_highest, na)
      /\ TxMod(tx_next)' = Ahead(tx_next, na)
  BY <1>1 DEF TxMod
<1>6. /\ Ahead(rx_next, na) = IF R >= s THEN R - s ELSE R - s + Mod
      /\ Ahead(rx_next_highest, na) = IF H >= s THEN H - s ELSE H - s + Mod
      /\ Ahead(tx_next, na) = IF N >= s THEN N - s ELSE N - s + Mod
  BY <1>2, <1>4
<1> HIDE DEF s, R, H, N, W
<1>7. TxMod(rx_next)' = R - s /\ TxMod(rx_next_highest)' = H - s /\ TxMod(tx_next)' = N - s
  BY <1>1, <1>2, <1>3, <1>5, <1>6
<1>8. Segmenting' = Segmenting
  BY <1>1 DEF Segmenting
<1>9. Top' = Top - s /\ s <= Top
  <2>1. Top' = IF Segmenting THEN (N - s) + 1 ELSE N - s
    BY <1>7, <1>8 DEF Top
  <2>2. s <= Top
    BY <1>1, <1>2, <1>3
  <2>3. CASE Segmenting
    <3>1. Top' = (N - s) + 1 /\ Top = N + 1
      BY <1>3, <2>1, <2>3
    <3>2. QED
      BY <1>2, <2>2, <3>1
  <2>4. CASE ~Segmenting
    <3>1. Top' = N - s /\ Top = N
      BY <1>3, <2>1, <2>4
    <3>2. QED
      BY <1>2, <2>2, <3>1
  <2>5. QED
    BY <2>3, <2>4
<1>10. /\ \A sn : sn \in DOMAIN tx_window' <=> sn \in DOMAIN tx_window /\ ~(TxMod(sn) < s)
       /\ \A sn \in DOMAIN tx_window' : /\ tx_window'[sn].sdu = tx_window[sn].sdu
                                        /\ tx_window'[sn].next_so = tx_window[sn].next_so
       /\ \A n \in 1..Len(retx_queue') : WasSent(tx_window, retx_queue[n])'
  BY DEF Advanced, s
<1>11. SendInv'
  <2>1. \A sn \in SN : sn \in DOMAIN tx_window' <=> TxMod(sn)' < Top'
    <3>1. SUFFICES ASSUME NEW sn \in SN PROVE sn \in DOMAIN tx_window' <=> Ahead(sn, na) < Top'
      BY <1>1 DEF TxMod
    <3> DEFINE d == TxMod(sn)
    <3>2. sn \in DOMAIN tx_window <=> d < Top
      BY DEF ProtocolInv, SendInv
    <3>3. sn \in DOMAIN tx_window' <=> sn \in DOMAIN tx_window /\ ~(d < s)
      BY <1>10
    <3>4. Ahead(sn, na) = IF d >= s THEN d - s ELSE d - s + Mod
      BY <1>4
    <3>5. d \in Nat
      BY <1>2
    <3> HIDE DEF d
    <3>6. Ahead(sn, na) < Top' <=> (d < Top /\ ~(d < s))
      BY <1>2, <1>3, <1>9, <3>4, <3>5
    <3>7. QED
      BY <3>2, <3>3, <3>6
  <2>2. Top' <= W
    BY <1>2, <1>3, <1>9
  <2>3. QED
    BY <1>1, <1>8, <1>10, <2>1, <2>2 DEF ProtocolInv, SendInv, W
<1>12. ASSUME NEW sn \in DOMAIN tx_window'
       PROVE  SentOf(tx_window, sn)' = SentOf(tx_window, sn) /\ tx_window'[sn].sdu = tx_window[sn].sdu
  BY <1>1, <1>10 DEF SentOf
<1>13. LinkInv'
  <2>1. ASSUME NEW sn \in DOMAIN rx_window
        PROVE  HeldIs(rx_window[sn], sn)'
    <3>1. R <= TxMod(sn) /\ sn \in DOMAIN tx_window
      BY HeldInWindow DEF ProtocolInv, R
    <3>2. ~(TxMod(sn) < s)
      BY <1>1, <1>2, <3>1
    <3>3. sn \in DOMAIN tx_window'
      BY <1>10, <3>1, <3>2
    <3>4. HeldIs(rx_window[sn], sn)
      BY DEF ProtocolInv, LinkInv
    <3>5. QED
      BY <1>1, <1>12, <3>3, <3>4 DEF HeldIs
  <2>2. R - s <= H - s /\ R - s <= N - s /\ H - s <= Top - s
    BY <1>2, <1>3
  <2>3. QED
    BY <1>1, <1>7, <1>9, <2>1, <2>2 DEF ProtocolInv, LinkInv
<1>14. AirLink'
  <2>1. SUFFICES ASSUME NEW n \in 1..Len(data_air) PROVE CarriesSent(data_air[n])'
    BY DEF AirLink
  <2>2. PICK p : p = data_air[n]
    OBVIOUS
  <2>3. p \in PduSet /\ CarriesSent(p) /\ Timely(p)
    BY <2>2 DEF TypeInv, AirInv, ProtocolInv, AirLink, FlightInWindow
  <2> DEFINE d == TxMod(p.sn)
  <2>4. p.sn \in SN
    BY <2>3 DEF PduSet
  <2>5. d \in Nat /\ d < Mod /\ Ahead(p.sn, na) = IF d >= s THEN d - s ELSE d - s + Mod
    BY <1>2, <1>4, <2>4
  <2>6. d < W \/ R + W <= d
    BY <2>3 DEF Timely, R, W
  <2> HIDE DEF d
  <2>7. CASE ~(Ahead(p.sn, na) < W)
    BY <1>1, <2>2, <2>7 DEF CarriesSent, TxMod, W
  <2>8. CASE Ahead(p.sn, na) < W
    <3>1. d < W /\ ~(d < s) /\ Ahead(p.sn, na) = d - s
      BY <1>1, <1>2, <1>3, <2>5, <2>6, <2>8
    <3>2. d < Top /\ p.sdu = tx_window[p.sn].sdu /\ p.so + p.len <= SentOf(tx_window, p.sn)
      BY <2>3, <3>1 DEF CarriesSent, d, W
    <3>3. p.sn \in DOMAIN tx_window
      BY <2>4, <3>2 DEF ProtocolInv, SendInv, d
    <3>4. p.sn \in DOMAIN tx_window'
      BY <1>10, <3>1, <3>3 DEF d
    <3>5. Ahead(p.sn, na) < Top'
      BY <1>2, <1>9, <2>5, <3>1, <3>2
    <3>6. SentOf(tx_window, p.sn)' = SentOf(tx_window, p.sn) /\ tx_window'[p.sn].sdu = tx_window[p.sn].sdu
      BY <1>1, <1>10, <3>4 DEF SentOf
    <3>7. CarriesSent(p)'
      BY <1>1, <3>2, <3>5, <3>6 DEF CarriesSent, TxMod
    <3>8. data_air'[n] = p
      BY <2>2
    <3>9. QED
      BY <1>1, <1>10, <3>2, <3>4, <3>5, <3>8 DEF CarriesSent, TxMod, SentOf
  <2>9. QED
    BY <2>7, <2>8
<1>15. KeptLink'
  <2>1. Sendable' = Sendable
    BY DEF rx_vars, report_vars, Sendable
  <2>2. ASSUME NEW r \in Sendable
        PROVE  ReportTrue(r)'
    <3>1. r \in ReportSet /\ ReportTrue(r)
      BY SendableIs DEF ProtocolInv, KeptLink
    <3>2. ValidAckSn(r.ack)' => ValidAckSn(r.ack)
      BY DEF KeptInTime
    <3>3. QED
      BY <3>1, <3>2, ReportAdvanced DEF ProtocolInv
  <2>3. QED
    BY <2>1, <2>2 DEF KeptLink
<1>16. QED
  BY <1>11, <1>13, <1>14, <1>15 DEF ProtocolInv, ReportLink

(* handle_status_pdu keeps the link between the two ends.                   *)
LEMMA StatusKeepsProtocol ==
  ASSUME TypeInv, TypeInv', ProtocolInv, FlightInWindow, KeptInTime, ~released, HandleStatusPdu,
         UNCHANGED rx_vars
  PROVE  ProtocolInv'
<1>1. PICK r : WellFormed(r) /\ status_air = <<r>>
  BY DEF TypeInv, ReportTypes, HandleStatusPdu
<1>2. status_air' = <<>> /\ UNCHANGED data_air /\ Head(status_air) = r
  BY <1>1 DEF HandleStatusPdu
<1>3. CASE ~Refused(r)
  BY <1>1, <1>2, <1>3, StatusAdvances, AdvancedKeeps
<1>4. CASE Refused(r)
  <2>1. /\ UNCHANGED <<tx_next_ack, tx_next, tx_window, sn_under_segmentation, retx_queue>>
        /\ failure' = (failure \/ (ValidAckSn(r.ack) /\ TxMod(r.ack) > TxMod(tx_next + 1)))
    BY <1>2, <1>4 DEF HandleStatusPdu, Refused
  <2>2. ASSUME ValidAckSn(r.ack) PROVE ~(TxMod(r.ack) > TxMod(tx_next + 1))
    <3> DEFINE N == TxMod(tx_next)
    <3>1. TxMod(r.ack) <= TxMod(rx_next_highest) /\ TxMod(rx_next_highest) <= Top
      BY <1>1, <2>2 DEF ProtocolInv, ReportLink, ReportTrue, LinkInv
    <3>2. r.ack \in SN
      BY <1>1 DEF WellFormed, ReportSet
    <3>3. /\ tx_next_ack \in SN /\ tx_next \in SN /\ Top \in Nat /\ N \in Nat /\ N < Mod
          /\ TxMod(r.ack) \in Nat /\ TxMod(rx_next_highest) \in Nat
          /\ am_window_size \in Nat /\ am_window_size >= 2 /\ Mod = 2 * am_window_size
      BY <3>2, Distances
    <3>4. Top <= am_window_size /\ Top <= N + 1 /\ N <= Top
      BY <3>3 DEF ProtocolInv, SendInv, Top
    <3>5. TxMod(tx_next + 1) = IF N = Mod - 1 THEN 0 ELSE N + 1
      BY <3>3, AheadIs DEF TxMod
    <3> HIDE DEF N
    <3>6. TxMod(tx_next + 1) = N + 1
      BY <3>3, <3>4, <3>5
    <3>7. QED
      BY <3>1, <3>3, <3>4, <3>6
  <2>3. failure' = failure
    BY <2>1, <2>2 DEF TypeInv, TxInv, TxTypes
  <2>4. SameWindow
    BY <2>1, <2>3 DEF SameWindow
  <2>5. \A n \in 1..Len(retx_queue') :
          retx_queue'[n].sn \in DOMAIN tx_window /\ WasSent(tx_window, retx_queue'[n])
    BY <2>1 DEF ProtocolInv, SendInv, TypeInv, TxInv, RetxTypes, Exists
  <2>6. SendInv' /\ Grown
    BY <2>4, <2>5, SameGrown DEF ProtocolInv
  <2>7. AirLink' /\ LinkInv' /\ KeptLink'
    BY <1>2, <2>6, GrownSame, GrownLink DEF ProtocolInv
  <2>8. QED
    BY <1>2, <2>6, <2>7 DEF ProtocolInv, ReportLink
<1>5. QED
  BY <1>3, <1>4

-----------------------------------------------------------------------------
(* The steps of the receiver.                                              *)

(* The receiver leaves the sender's side of the invariant alone.            *)
LEMMA SendUnchanged ==
  ASSUME SendInv, UNCHANGED tx_vars
  PROVE  SendInv'
<1>1. UNCHANGED <<tx_next_ack, tx_next, tx_window, sn_under_segmentation, failure, retx_queue>>
  BY DEF tx_vars
<1>2. Segmenting' = Segmenting /\ TxMod(tx_next)' = TxMod(tx_next)
  BY <1>1 DEF Segmenting, TxMod
<1>3. Top' = Top
  BY <1>2 DEF Top
<1>4. \A sn \in SN : sn \in DOMAIN tx_window' <=> TxMod(sn)' < Top'
  BY <1>1, <1>3 DEF SendInv, TxMod
<1>5. \A n \in 1..Len(retx_queue') : WasSent(tx_window, retx_queue[n])'
  BY <1>1 DEF SendInv, WasSent, SentOf
<1>6. QED
  BY <1>1, <1>2, <1>3, <1>4, <1>5 DEF SendInv

(* A report stays true: the receiver only moves on.                        *)
LEMMA ReportStays ==
  ASSUME TypeInv, TypeInv', UNCHANGED tx_vars, NEW r \in ReportSet, ReportTrue(r),
         TxMod(rx_next) <= TxMod(rx_next)', TxMod(rx_next_highest) <= TxMod(rx_next_highest)'
  PROVE  ReportTrue(r)'
<1>1. UNCHANGED <<tx_next_ack, tx_window, sn_under_segmentation>>
  BY DEF tx_vars
<1>2. r.ack \in SN /\ r.nacks \in Seq(NackSet)
  BY DEF ReportSet
<1>3. /\ TxMod(r.ack)' = TxMod(r.ack) /\ TxMod(StopOf(r))' = TxMod(StopOf(r))
      /\ ValidAckSn(r.ack)' = ValidAckSn(r.ack)
  BY <1>1 DEF TxMod, ValidAckSn
<1>4. NacksBelow(r)' = NacksBelow(r)
  BY <1>1 DEF NacksBelow, TxMod
<1>5. StopOf(r) \in SN
  <2>1. CASE r.nacks = <<>>
    BY <1>2, <2>1 DEF StopOf
  <2>2. CASE r.nacks # <<>>
    <3>1. 1 \in 1..Len(r.nacks)
      BY <1>2, <2>2
    <3>2. r.nacks[1] \in NackSet
      BY <1>2, <3>1
    <3>3. QED
      BY <2>2, <3>2 DEF StopOf, NackSet
  <2>3. QED
    BY <2>1, <2>2
<1>6. /\ TxMod(r.ack) \in Nat /\ TxMod(StopOf(r)) \in Nat /\ TxMod(rx_next) \in Nat
      /\ TxMod(rx_next_highest) \in Nat
  BY <1>2, <1>5, Distances
<1>7. TxMod(rx_next)' \in Nat /\ TxMod(rx_next_highest)' \in Nat
  <2>1. rx_next' \in SN /\ rx_next_highest' \in SN /\ tx_next_ack' \in SN
    BY DEF TypeInv, RxInv, RxTypes, TxInv, TxTypes
  <2>2. QED
    BY <2>1, AheadNat DEF TxMod
<1>8. ASSUME Claims(r) PROVE Claims(r)'
  <2>1. TxMod(StopOf(r)) <= TxMod(rx_next)'
    BY <1>6, <1>7, <1>8 DEF Claims
  <2>2. ASSUME NEW n \in 1..Len(r.nacks)
        PROVE  /\ TxMod(r.nacks[n].sn)' = TxMod(r.nacks[n].sn)
               /\ NackPieces(tx_window, r.nacks[n])'
    BY <1>1, <1>8 DEF Claims, TxMod, NackPieces, PieceOk, SentOf
  <2>3. QED
    BY <1>3, <1>8, <2>1, <2>2 DEF Claims
<1>9. TxMod(r.ack) <= TxMod(rx_next_highest) => TxMod(r.ack) <= TxMod(rx_next_highest)'
  BY <1>6, <1>7
<1>10. QED
  BY <1>3, <1>4, <1>8, <1>9 DEF ReportTrue

(* The reports under way and kept stay true as the receiver goes on.        *)
LEMMA ReportsStay ==
  ASSUME TypeInv, TypeInv', ReportLink, KeptLink, UNCHANGED tx_vars,
         TxMod(rx_next) <= TxMod(rx_next)', TxMod(rx_next_highest) <= TxMod(rx_next_highest)'
  PROVE  /\ UNCHANGED status_air => ReportLink'
         /\ UNCHANGED report_vars => KeptLink'
<1>1. ASSUME UNCHANGED status_air, NEW r, status_air' = <<r>>
      PROVE  ReportTrue(r)'
  <2>1. PICK q : WellFormed(q) /\ status_air = <<q>>
    BY <1>1 DEF TypeInv, ReportTypes
  <2>2. q = r /\ status_air = <<r>>
    <3>1. status_air = <<r>>
      BY <1>1
    <3>2. <<q>>[1] = q /\ <<r>>[1] = r
      OBVIOUS
    <3>3. QED
      BY <2>1, <3>1, <3>2
  <2>3. r \in ReportSet /\ ReportTrue(r)
    BY <1>1, <2>1, <2>2 DEF WellFormed, ReportLink
  <2>4. QED
    BY <2>3, ReportStays
<1>2. ASSUME NEW r \in Sendable PROVE ReportTrue(r)'
  <2>1. r \in ReportSet /\ ReportTrue(r)
    BY SendableIs DEF KeptLink
  <2>2. QED
    BY <2>1, ReportStays
<1>3. UNCHANGED report_vars => Sendable' = Sendable
  BY DEF report_vars, Sendable
<1>4. QED
  BY <1>1, <1>2, <1>3 DEF ReportLink, KeptLink

(* What is left in flight when a data PDU has arrived was in flight.       *)
LEMMA LeftInFlight ==
  ASSUME AirInv, NEW n, Arrives(n)
  PROVE  \A m \in 1..Len(data_air') : \E k \in 1..Len(data_air) :
           /\ data_air'[m].sn = data_air[k].sn /\ data_air'[m].sdu = data_air[k].sdu
           /\ data_air'[m].so = data_air[k].so /\ data_air'[m].len = data_air[k].len
<1> DEFINE k == Len(data_air)
<1>1. data_air \in Seq(PduSet) /\ k \in Nat
  BY DEF AirInv
<1>2. n \in 1..k
  BY DEF Arrives
<1>3. CASE n = 1
  <2>1. data_air' = Tail(data_air)
    BY <1>3 DEF Arrives
  <2>2. Len(data_air') = k - 1 /\ \A m \in 1..(k - 1) : data_air'[m] = data_air[m + 1]
    BY <1>1, <1>2, <1>3, <2>1
  <2>3. \A m \in 1..(k - 1) : m + 1 \in 1..k
    BY <1>1
  <2>4. QED
    BY <2>2, <2>3
<1>4. CASE n # 1
  <2> DEFINE p == [data_air[1] EXCEPT !.late = TRUE]
             q == SubSeq(data_air, 3, k)
  <2>1. n = 2 /\ data_air' = <<p>> \o q /\ k >= 2
    BY <1>1, <1>2, <1>4 DEF Arrives
  <2>2. q \in Seq(PduSet) /\ Len(q) = k - 2 /\ \A m \in 1..(k - 2) : q[m] = data_air[m + 2]
    BY <1>1, <2>1, WithoutTwo
  <2>3. 1 \in 1..k
    BY <1>1, <2>1
  <2>4. data_air[1] \in PduSet
    BY <1>1, <2>3
  <2>5. /\ p \in PduSet /\ p.sn = data_air[1].sn /\ p.sdu = data_air[1].sdu
        /\ p.so = data_air[1].so /\ p.len = data_air[1].len
    BY <2>4 DEF PduSet
  <2> HIDE DEF p, q
  <2>6. /\ Len(data_air') = k - 1 /\ data_air'[1] = p
        /\ \A m \in 2..(k - 1) : data_air'[m] = q[m - 1]
    BY <1>1, <2>1, <2>2, <2>5
  <2>7. ASSUME NEW m \in 2..(k - 1) PROVE m + 1 \in 1..k /\ data_air'[m] = data_air[m + 1]
    <3>1. m - 1 \in 1..(k - 2) /\ (m - 1) + 2 = m + 1 /\ m + 1 \in 1..k
      BY <1>1
    <3>2. QED
      BY <2>2, <2>6, <3>1
  <2>8. \A m \in 1..(k - 1) : m = 1 \/ m \in 2..(k - 1)
    BY <1>1
  <2>9. QED
    BY <2>3, <2>5, <2>6, <2>7, <2>8
<1>5. QED
  BY <1>3, <1>4

(* What is left in flight was in flight.                                    *)
LEMMA AirLeft ==
  ASSUME AirInv, AirLink, UNCHANGED tx_vars,
         \A m \in 1..Len(data_air') : \E k \in 1..Len(data_air) :
           /\ data_air'[m].sn = data_air[k].sn /\ data_air'[m].sdu = data_air[k].sdu
           /\ data_air'[m].so = data_air[k].so /\ data_air'[m].len = data_air[k].len
  PROVE  AirLink'
<1>1. UNCHANGED <<tx_next_ack, tx_next, tx_window, sn_under_segmentation>>
  BY DEF tx_vars
<1>2. Top' = Top
  BY <1>1 DEF Top, Segmenting, TxMod
<1>3. SUFFICES ASSUME NEW m \in 1..Len(data_air') PROVE CarriesSent(data_air[m])'
  BY DEF AirLink
<1>4. PICK k \in 1..Len(data_air) :
        /\ data_air'[m].sn = data_air[k].sn /\ data_air'[m].sdu = data_air[k].sdu
        /\ data_air'[m].so = data_air[k].so /\ data_air'[m].len = data_air[k].len
  OBVIOUS
<1>5. CarriesSent(data_air[k])
  BY DEF AirLink
<1>6. QED
  BY <1>1, <1>2, <1>4, <1>5 DEF CarriesSent, TxMod, SentOf

(* A complete SDU was sent in full.                                        *)
LEMMA CompleteIs ==
  ASSUME TypeInv, SendInv, NEW sn \in DOMAIN tx_window, NEW info, EntryOk(info), HeldIs(info, sn),
         FullyReceived(info)
  PROVE  /\ info.got = 0..(SduLen[tx_window[sn].sdu] - 1)
         /\ TxMod(sn) < TxMod(tx_next)
<1> DEFINE len == SduLen[tx_window[sn].sdu]
           t == SentOf(tx_window, sn)
           top == Max(info.got)
<1>1. /\ len \in Nat \ {0} /\ t \in Nat /\ t <= len
      /\ sn = sn_under_segmentation => t < len
  BY SentIs
<1>2. info.got \subseteq 0..(t - 1) /\ (len - 1) \in info.got /\ info.got = 0..top
  BY DEF HeldIs, FullyReceived
<1>3. top \in info.got /\ \A x \in info.got : x <= top
  <2>1. info.got \in SUBSET Nat /\ info.got # {}
    BY <1>1, <1>2
  <2>2. \A x \in info.got : x <= t
    BY <1>1, <1>2
  <2>3. QED
    BY <1>1, <2>1, <2>2, MaxIs
<1> HIDE DEF len, t, top
<1>4. top \in 0..(t - 1) /\ len - 1 <= top
  BY <1>2, <1>3
<1>5. top = len - 1 /\ t = len
  BY <1>1, <1>4
<1>6. sn # sn_under_segmentation
  BY <1>1, <1>5
<1>7. TxMod(sn) < TxMod(tx_next)
  <2>1. sn \in SN /\ tx_next \in SN /\ tx_next_ack \in SN
    BY Distances
  <2>2. TxMod(sn) \in Nat /\ TxMod(tx_next) \in Nat
    BY <2>1, Distances
  <2>3. TxMod(sn) < Top
    BY <2>1 DEF SendInv
  <2>4. CASE Segmenting
    <3>1. sn # tx_next
      BY <1>6, <2>4 DEF SendInv
    <3>2. TxMod(sn) # TxMod(tx_next)
      BY <2>1, <3>1, Rebase DEF TxMod
    <3>3. TxMod(sn) < TxMod(tx_next) + 1
      BY <2>3, <2>4 DEF Top
    <3>4. QED
      BY <2>2, <3>2, <3>3
  <2>5. CASE ~Segmenting
    BY <2>3, <2>5 DEF Top
  <2>6. QED
    BY <2>4, <2>5
<1>8. QED
  BY <1>2, <1>5, <1>7 DEF len

(* What handling a data PDU does, in terms of its parts.                   *)
Placed(pdu, info, window, highest, next, complete) ==
  /\ info = StoreSdu(Stored(pdu.sn), pdu)
  /\ window = WithEntry(rx_window, pdu.sn, info)
  /\ highest = IF Ahead(pdu.sn, rx_next) >= Ahead(rx_next_highest, rx_next)
               THEN (pdu.sn + 1) % Mod ELSE rx_next_highest
  /\ complete = FullyReceived(info)
  /\ next = IF complete /\ pdu.sn = rx_next
            THEN FirstMissing(window, rx_next, highest, rx_next) ELSE rx_next
  /\ rx_window' = Restrict(window, {sn \in DOMAIN window : Ahead(sn, rx_next) >= Ahead(next, rx_next)})
  /\ rx_next_highest' = highest /\ rx_next' = next
  /\ delivered' = IF complete
                  THEN [delivered EXCEPT ![CHOOSE i \in info.sdus : TRUE] = @ + 1]
                  ELSE delivered
  /\ rx_failure' => \/ rx_failure
                    \/ /\ reassembly_timer /\ next \notin DOMAIN rx_window'
                       /\ Ahead(rx_next_status_trigger, next) = Ahead(next + 1, next)
                    \/ /\ complete
                       /\ ~\E i \in Sdus : info.sdus = {i} /\ info.got = 0..(SduLen[i] - 1)

(* What handle_data_pdu does with a data PDU, in short.                     *)
LEMMA PlacedIs ==
  ASSUME NEW pdu, PlacePdu(pdu)
  PROVE  \E info, window, highest, next, complete : Placed(pdu, info, window, highest, next, complete)
<1> DEFINE info     == StoreSdu(Stored(pdu.sn), pdu)
           window   == WithEntry(rx_window, pdu.sn, info)
           highest  == IF Ahead(pdu.sn, rx_next) >= Ahead(rx_next_highest, rx_next)
                       THEN (pdu.sn + 1) % Mod ELSE rx_next_highest
           complete == FullyReceived(info)
           next     == IF complete /\ pdu.sn = rx_next
                       THEN FirstMissing(window, rx_next, highest, rx_next) ELSE rx_next
<1>1. Placed(pdu, info, window, highest, next, complete)
  BY DEF PlacePdu, Placed
<1>2. QED
  BY <1>1

(* The PDU that is stored is of an SN the sender has sent.                 *)
LEMMA ArrivedInWindow ==
  ASSUME TypeInv, SendInv, LinkInv, NEW pdu \in PduSet, CarriesSent(pdu), Timely(pdu), ~Discarded(pdu)
  PROVE  /\ TxMod(rx_next) <= TxMod(pdu.sn) /\ TxMod(pdu.sn) < Top /\ pdu.sn \in DOMAIN tx_window
         /\ Ahead(pdu.sn, rx_next) = TxMod(pdu.sn) - TxMod(rx_next)
         /\ pdu.sdu = tx_window[pdu.sn].sdu /\ pdu.so + pdu.len <= SentOf(tx_window, pdu.sn)
<1> DEFINE d == TxMod(pdu.sn)
           R == TxMod(rx_next)
           W == am_window_size
           a == Ahead(pdu.sn, rx_next)
<1>1. pdu.sn \in SN
  BY DEF PduSet
<1>2. /\ rx_next \in SN /\ tx_next_ack \in SN /\ d \in Nat /\ d < Mod /\ R \in Nat /\ TxMod(tx_next) \in Nat
      /\ Top \in Nat /\ W \in Nat /\ Mod = 2 * W
  BY <1>1, Distances
<1>3. a = IF d >= R THEN d - R ELSE d - R + Mod
  BY <1>1, <1>2, Rebase DEF TxMod
<1>4. ~(a >= W)
  BY DEF Discarded
<1>5. d < W \/ R + W <= d
  BY DEF Timely
<1>6. R <= TxMod(tx_next) /\ TxMod(tx_next) <= Top /\ Top <= W
  BY <1>2 DEF LinkInv, SendInv, Top
<1> HIDE DEF d, R, W, a
<1>7. d < W /\ R <= d /\ a = d - R
  BY <1>2, <1>3, <1>4, <1>5, <1>6
<1>8. d < Top /\ pdu.sdu = tx_window[pdu.sn].sdu /\ pdu.so + pdu.len <= SentOf(tx_window, pdu.sn)
  BY <1>7 DEF CarriesSent, d, W
<1>9. pdu.sn \in DOMAIN tx_window
  BY <1>1, <1>8 DEF SendInv, d
<1>10. QED
  BY <1>7, <1>8, <1>9 DEF d, R, a

(* store_segment keeps what the entry is to the SDU that was sent.         *)
LEMMA StoredHeld ==
  ASSUME TypeInv, SendInv, LinkInv, NEW pdu \in PduSet, PduOk(pdu), pdu.sn \in DOMAIN tx_window,
         pdu.sdu = tx_window[pdu.sn].sdu, pdu.so + pdu.len <= SentOf(tx_window, pdu.sn)
  PROVE  HeldIs(StoreSdu(Stored(pdu.sn), pdu), pdu.sn)
<1> DEFINE sn == pdu.sn
           old == Stored(sn)
           info == StoreSdu(old, pdu)
           t == SentOf(tx_window, sn)
           len == SduLen[tx_window[sn].sdu]
           new == pdu.so..(pdu.so + pdu.len - 1)
<1>1. pdu.so \in Nat /\ pdu.len \in Nat \ {0} /\ t \in Nat \ {0} /\ t <= len /\ len \in Nat \ {0}
  BY SentIs DEF PduSet
<1>2. pdu.so + pdu.len <= t /\ (pdu.last <=> pdu.so + pdu.len = len) /\ pdu.last \in BOOLEAN
  BY DEF PduOk, PduSet
<1>3. /\ old.got \subseteq 0..(t - 1) /\ (old.last <=> (len - 1) \in old.got)
      /\ old.sdus \subseteq {pdu.sdu}
      /\ old.got # {} => old.sdus = {pdu.sdu}
  <2>1. CASE sn \in DOMAIN rx_window
    <3>1. HeldIs(rx_window[sn], sn)
      BY <2>1 DEF LinkInv
    <3>2. QED
      BY <2>1, <3>1 DEF HeldIs, Stored
  <2>2. CASE sn \notin DOMAIN rx_window
    BY <2>2 DEF Stored
  <2>3. QED
    BY <2>1, <2>2
<1> HIDE DEF old, t, len
<1>4. new \subseteq 0..(t - 1) /\ new # {} /\ ((len - 1) \in new <=> pdu.last)
  <2>1. pdu.so \in new
    BY <1>1
  <2>2. new \subseteq 0..(t - 1)
    BY <1>1, <1>2
  <2>3. (len - 1) \in new <=> pdu.so + pdu.len = len
    BY <1>1, <1>2
  <2>4. QED
    BY <1>2, <2>1, <2>2, <2>3
<1>5. CASE pdu.so = 0 /\ pdu.last
  <2>1. info = [got |-> 0..(pdu.len - 1), last |-> TRUE, sdus |-> {pdu.sdu}]
    BY <1>5 DEF StoreSdu
  <2>2. 0..(pdu.len - 1) = new
    BY <1>1, <1>5
  <2>3. info.got = new /\ info.last = TRUE /\ info.sdus = {pdu.sdu}
    BY <2>1, <2>2
  <2>4. QED
    BY <1>4, <1>5, <2>3 DEF HeldIs, t, len, old
<1>6. CASE ~(pdu.so = 0 /\ pdu.last) /\ new \subseteq old.got
  <2>1. info = old
    BY <1>6 DEF StoreSdu
  <2>2. old.sdus = {pdu.sdu}
    BY <1>3, <1>4, <1>6
  <2>3. QED
    BY <1>3, <2>1, <2>2 DEF HeldIs, t, len, old
<1>7. CASE ~(pdu.so = 0 /\ pdu.last) /\ ~(new \subseteq old.got)
  <2>1. info = [got |-> old.got \cup new, last |-> old.last \/ pdu.last, sdus |-> old.sdus \cup {pdu.sdu}]
    BY <1>7 DEF StoreSdu
  <2>2. /\ info.got = old.got \cup new /\ info.last = (old.last \/ pdu.last)
        /\ info.sdus = old.sdus \cup {pdu.sdu}
    BY <2>1
  <2> HIDE DEF info, new
  <2>3. info.got \subseteq 0..(t - 1) /\ info.sdus = {pdu.sdu}
    BY <1>3, <1>4, <2>2
  <2>4. info.last <=> (len - 1) \in info.got
    BY <1>3, <1>4, <2>2
  <2>5. HeldIs(info, sn)
    BY <2>3, <2>4 DEF HeldIs, t, len
  <2>6. QED
    BY <2>5 DEF info, old
<1>8. QED
  BY <1>5, <1>6, <1>7

(* handle_data_pdu keeps the receiver's window inside the sender's, and     *)
(* moves it up.                                                             *)
LEMMA PlaceLinks ==
  ASSUME TypeInv, SendInv, LinkInv, NEW pdu \in PduSet, PduOk(pdu), CarriesSent(pdu), Timely(pdu),
         ~Discarded(pdu), NEW info, NEW window, NEW highest, NEW next, NEW complete,
         Placed(pdu, info, window, highest, next, complete), TriggerHeld, UNCHANGED tx_vars
  PROVE  /\ LinkInv'
         /\ TxMod(rx_next) <= TxMod(rx_next)' /\ TxMod(rx_next_highest) <= TxMod(rx_next_highest)'
         /\ rx_next' \in SN
         /\ \A sn \in SN : TxMod(rx_next) <= TxMod(sn) /\ TxMod(sn) < TxMod(rx_next') => Received(window, sn)
<1> DEFINE sn == pdu.sn
           d == TxMod(sn)
           R == TxMod(rx_next)
           H == TxMod(rx_next_highest)
           N == TxMod(tx_next)
           W == am_window_size
<1>1. UNCHANGED <<tx_next_ack, tx_next, tx_window, sn_under_segmentation>>
  BY DEF tx_vars
<1>2. sn \in SN
  BY DEF PduSet
<1>3. /\ rx_next \in SN /\ rx_next_highest \in SN /\ tx_next \in SN /\ tx_next_ack \in SN
      /\ d \in Nat /\ d < Mod /\ R \in Nat /\ H \in Nat /\ N \in Nat /\ Mod \in Nat
      /\ Top \in Nat /\ W \in Nat /\ W >= 2 /\ Mod = 2 * W
      /\ DOMAIN rx_window \subseteq SN /\ DOMAIN tx_window \subseteq SN
      /\ \A s \in SN : TxMod(s) \in Nat /\ TxMod(s) < Mod
  BY <1>2, Distances
<1>4. /\ R <= d /\ d < Top /\ sn \in DOMAIN tx_window /\ Ahead(sn, rx_next) = d - R
      /\ pdu.sdu = tx_window[sn].sdu /\ pdu.so + pdu.len <= SentOf(tx_window, sn)
  BY ArrivedInWindow
<1>5. R <= H /\ R <= N /\ H <= Top /\ Top <= W /\ N <= Top /\ ~rx_failure
  BY <1>3 DEF LinkInv, SendInv, Top
<1>6. /\ info = StoreSdu(Stored(sn), pdu)
      /\ window = WithEntry(rx_window, sn, info)
      /\ highest = IF Ahead(sn, rx_next) >= Ahead(rx_next_highest, rx_next)
                   THEN (sn + 1) % Mod ELSE rx_next_highest
      /\ complete = FullyReceived(info)
      /\ next = IF complete /\ sn = rx_next
                THEN FirstMissing(window, rx_next, highest, rx_next) ELSE rx_next
      /\ rx_window' = Restrict(window, {s \in DOMAIN window : Ahead(s, rx_next) >= Ahead(next, rx_next)})
      /\ rx_next_highest' = highest /\ rx_next' = next
      /\ rx_failure' => \/ rx_failure
                        \/ /\ reassembly_timer /\ next \notin DOMAIN rx_window'
                           /\ Ahead(rx_next_status_trigger, next) = Ahead(next + 1, next)
                        \/ /\ complete
                           /\ ~\E i \in Sdus : info.sdus = {i} /\ info.got = 0..(SduLen[i] - 1)
  BY DEF Placed
<1>7. EntryOk(info) /\ HeldIs(info, sn)
  BY <1>4, <1>6, StoredIsOk, StoredHeld DEF TypeInv, RxHeld
<1>8. Ahead(rx_next_highest, rx_next) = H - R
  BY <1>3, <1>5, Rebase DEF TxMod
<1>9. highest \in SN /\ TxMod(highest) \in Nat /\ H <= TxMod(highest) /\ TxMod(highest) <= Top
  <2>1. CASE d - R >= H - R
    <3>1. highest = (sn + 1) % Mod
      BY <1>4, <1>6, <1>8, <2>1
    <3>2. /\ (sn + 1) % Mod \in SN
          /\ TxMod((sn + 1) % Mod) = IF d = Mod - 1 THEN 0 ELSE d + 1
      BY <1>2, <1>3, AheadIs DEF TxMod
    <3> HIDE DEF sn, d, R, H, N, W
    <3>3. TxMod((sn + 1) % Mod) = d + 1
      BY <1>3, <1>4, <1>5, <3>2
    <3>4. QED
      BY <1>3, <1>4, <1>5, <2>1, <3>1, <3>2, <3>3
  <2>2. CASE ~(d - R >= H - R)
    <3>1. highest = rx_next_highest
      BY <1>4, <1>6, <1>8, <2>2
    <3>2. QED
      BY <1>3, <1>5, <3>1 DEF H
  <2>3. QED
    BY <2>1, <2>2
<1> DEFINE HH == TxMod(highest)
<1>10. Ahead(highest, rx_next) = HH - R
  <2>1. Ahead(highest, rx_next) = IF HH >= R THEN HH - R ELSE HH - R + Mod
    BY <1>3, <1>9, Rebase DEF TxMod
  <2>2. HH >= R
    BY <1>3, <1>5, <1>9
  <2>3. QED
    BY <2>1, <2>2
<1>11. /\ next \in SN /\ Ahead(next, rx_next) \in Nat /\ Ahead(next, rx_next) <= HH - R
       /\ \A s \in SN : Ahead(s, rx_next) < Ahead(next, rx_next) => Received(window, s)
  <2>1. Ahead(rx_next, rx_next) = 0 /\ \A s \in SN : Ahead(s, rx_next) \in Nat
    BY <1>3, Rebase, AheadNat
  <2>2. CASE complete /\ sn = rx_next
    <3>1. next = FirstMissing(window, rx_next, highest, rx_next)
      BY <1>6, <2>2
    <3>2. /\ next \in SN
          /\ Ahead(next, rx_next) <= Ahead(rx_next, rx_next) \/ Ahead(next, rx_next) <= Ahead(highest, rx_next)
          /\ \A s \in SN : Ahead(rx_next, rx_next) <= Ahead(s, rx_next) /\ Ahead(s, rx_next) < Ahead(next, rx_next)
                          => Received(window, s)
      BY <1>3, <1>9, <3>1, FirstMissingIs
    <3> DEFINE e == Ahead(next, rx_next)
    <3>3. e \in Nat /\ (e <= 0 \/ e <= HH - R) /\ HH - R >= 0
      <4>1. HH - R >= 0
        BY <1>3, <1>5, <1>9
      <4>2. QED
        BY <1>10, <2>1, <3>2, <4>1
    <3>4. e <= HH - R
      BY <1>3, <1>9, <3>3
    <3>5. \A s \in SN : Ahead(s, rx_next) < e => Received(window, s)
      BY <2>1, <3>2
    <3>6. QED
      BY <3>2, <3>3, <3>4, <3>5
  <2>3. CASE ~(complete /\ sn = rx_next)
    <3>1. next = rx_next
      BY <1>6, <2>3
    <3>2. HH - R >= 0
      BY <1>3, <1>5, <1>9
    <3>3. \A s \in SN : ~(Ahead(s, rx_next) < 0)
      BY <2>1
    <3>4. QED
      BY <1>3, <2>1, <3>1, <3>2, <3>3
  <2>4. QED
    BY <2>2, <2>3
<1> DEFINE e == Ahead(next, rx_next)
<1>12. TxMod(next) = R + e
  <2>1. e = IF TxMod(next) >= R THEN TxMod(next) - R ELSE TxMod(next) - R + Mod
    BY <1>3, <1>11, Rebase DEF TxMod
  <2>2. TxMod(next) \in Nat
    BY <1>3, <1>11
  <2> HIDE DEF e, R, HH, N, H, d, W
  <2>3. QED
    BY <1>3, <1>5, <1>9, <1>11, <2>1, <2>2 DEF e, HH
<1>13. DOMAIN window = DOMAIN rx_window \cup {sn} /\ window[sn] = info
       /\ \A s \in DOMAIN rx_window : s # sn => window[s] = rx_window[s]
  BY <1>6 DEF WithEntry
<1>14. ASSUME NEW s \in DOMAIN window
       PROVE  EntryOk(window[s]) /\ HeldIs(window[s], s) /\ s \in DOMAIN tx_window
  <2>1. CASE s = sn
    BY <1>4, <1>7, <1>13, <2>1
  <2>2. CASE s # sn
    <3>1. s \in DOMAIN rx_window /\ window[s] = rx_window[s]
      BY <1>13, <2>2
    <3>2. EntryOk(rx_window[s]) /\ HeldIs(rx_window[s], s) /\ s \in DOMAIN tx_window
      BY <3>1, HeldInWindow DEF LinkInv, TypeInv, RxHeld, EntriesOk
    <3>3. QED
      BY <3>1, <3>2
  <2>3. QED
    BY <2>1, <2>2
<1>15. R + e <= N
  <2>1. CASE e = 0
    BY <1>3, <1>5, <2>1
  <2>2. CASE e # 0
    <3> DEFINE p == At(rx_next, e - 1)
    <3>1. e - 1 \in 0..(Mod - 1) /\ e - 1 < e
      <4>1. e <= HH - R /\ e \in Nat
        BY <1>11
      <4> HIDE DEF e, HH, R
      <4>2. QED
        BY <1>3, <1>5, <1>9, <2>2, <4>1 DEF HH
    <3>2. p \in SN /\ Ahead(p, rx_next) = e - 1
      BY <1>3, <3>1, AtIs
    <3> HIDE DEF p
    <3>3. Received(window, p)
      BY <1>11, <3>1, <3>2
    <3>4. p \in DOMAIN window /\ FullyReceived(window[p])
      BY <3>3 DEF Received
    <3>5. TxMod(p) < N
      BY <1>14, <3>4, CompleteIs
    <3>6. e - 1 = IF TxMod(p) >= R THEN TxMod(p) - R ELSE TxMod(p) - R + Mod
      BY <1>3, <3>2, Rebase DEF TxMod
    <3>7. TxMod(p) \in Nat
      BY <1>3, <3>2
    <3>8. e \in Nat
      BY <1>11
    <3> HIDE DEF e, R, N, H, d, W, HH
    <3>9. TxMod(p) = R + (e - 1)
      BY <1>3, <1>5, <1>9, <1>11, <3>6, <3>7, <3>8 DEF e, HH
    <3>10. QED
      BY <1>3, <3>5, <3>7, <3>8, <3>9
  <2>3. QED
    BY <2>1, <2>2
<1>16. ~rx_failure'
  <2>1. rx_next' = next
    BY <1>6
  <2>2. ~(/\ reassembly_timer /\ next \notin DOMAIN rx_window'
          /\ Ahead(rx_next_status_trigger, next) = Ahead(next + 1, next))
    BY <2>1 DEF TriggerHeld
  <2>3. complete => \E i \in Sdus : info.sdus = {i} /\ info.got = 0..(SduLen[i] - 1)
    <3>1. SUFFICES ASSUME complete
                   PROVE  \E i \in Sdus : info.sdus = {i} /\ info.got = 0..(SduLen[i] - 1)
      OBVIOUS
    <3>2. info.got = 0..(SduLen[tx_window[sn].sdu] - 1)
      BY <1>4, <1>6, <1>7, <3>1, CompleteIs
    <3>3. info.sdus = {tx_window[sn].sdu} /\ tx_window[sn].sdu \in Sdus
      BY <1>4, <1>7, SentIs DEF HeldIs
    <3>4. QED
      BY <3>2, <3>3
  <2>4. QED
    BY <1>5, <1>6, <2>2, <2>3
<1>17. /\ TxMod(rx_next)' = TxMod(next) /\ TxMod(rx_next_highest)' = HH /\ TxMod(tx_next)' = N
       /\ Top' = Top
  <2>1. \A s : TxMod(s)' = Ahead(s', tx_next_ack)
    BY <1>1 DEF TxMod
  <2>2. TxMod(tx_next)' = N /\ Segmenting' = Segmenting
    BY <1>1 DEF TxMod, Segmenting
  <2>3. QED
    BY <1>1, <1>6, <2>2 DEF Top, TxMod
<1>18. \A s \in DOMAIN rx_window' : s \in DOMAIN window /\ rx_window'[s] = window[s]
  BY <1>6 DEF Restrict
<1>19. \A s \in DOMAIN rx_window' : HeldIs(rx_window[s], s)'
  BY <1>1, <1>14, <1>18 DEF HeldIs, SentOf
<1>20. R + e <= HH /\ R <= R + e
  <2>1. e \in Nat /\ e <= HH - R
    BY <1>11
  <2> HIDE DEF e
  <2>2. QED
    BY <1>3, <1>9, <2>1
<1>21. LinkInv'
  <2>1. TxMod(rx_next)' <= TxMod(rx_next_highest)' /\ TxMod(rx_next)' <= TxMod(tx_next)'
    BY <1>12, <1>15, <1>17, <1>20
  <2>2. TxMod(rx_next_highest)' <= Top'
    BY <1>9, <1>17
  <2>3. QED
    BY <1>16, <1>19, <2>1, <2>2 DEF LinkInv
<1>22. ASSUME NEW s \in SN, R <= TxMod(s), TxMod(s) < TxMod(next)
       PROVE  Received(window, s)
  <2>1. Ahead(s, rx_next) = TxMod(s) - R
    <3>1. Ahead(s, rx_next) = IF TxMod(s) >= R THEN TxMod(s) - R ELSE TxMod(s) - R + Mod
      BY <1>3, Rebase DEF TxMod
    <3>2. TxMod(s) >= R
      BY <1>3, <1>22
    <3>3. QED
      BY <3>1, <3>2
  <2>2. TxMod(s) - R < e
    <3>1. TxMod(s) \in Nat /\ e \in Nat
      BY <1>3, <1>11
    <3> HIDE DEF e, R
    <3>2. QED
      BY <1>3, <1>12, <1>22, <3>1
  <2>3. QED
    BY <1>11, <2>1, <2>2
<1>23. rx_next' = next /\ next \in SN
  BY <1>6, <1>11
<1>24. QED
  BY <1>9, <1>12, <1>17, <1>20, <1>21, <1>22, <1>23

(* The distances of the SNs that the receiver waits for.                   *)
LEMMA Beyond ==
  ASSUME TypeInv, SendInv, LinkInv, NEW sn \in SN,
         Ahead(sn, rx_next) <= Ahead(rx_next_highest, rx_next)
  PROVE  /\ TxMod(sn) = TxMod(rx_next) + Ahead(sn, rx_next) /\ TxMod(sn) <= TxMod(rx_next_highest)
         /\ Ahead(sn, rx_next) \in Nat
         /\ Ahead(rx_next_highest, rx_next) = TxMod(rx_next_highest) - TxMod(rx_next)
<1> DEFINE d == TxMod(sn)
           R == TxMod(rx_next)
           H == TxMod(rx_next_highest)
           a == Ahead(sn, rx_next)
           b == Ahead(rx_next_highest, rx_next)
<1>1. /\ rx_next \in SN /\ rx_next_highest \in SN /\ tx_next_ack \in SN
      /\ d \in Nat /\ d < Mod /\ R \in Nat /\ H \in Nat /\ H < Mod /\ Mod \in Nat
  BY Distances
<1>2. R <= H
  BY DEF LinkInv
<1>3. /\ a = IF d >= R THEN d - R ELSE d - R + Mod
      /\ b = IF H >= R THEN H - R ELSE H - R + Mod
      /\ a \in Nat /\ b \in Nat
  BY <1>1, Rebase, AheadNat DEF TxMod
<1>4. a <= b
  OBVIOUS
<1> HIDE DEF d, R, H, a, b
<1>5. b = H - R /\ d = R + a /\ d <= H
  BY <1>1, <1>2, <1>3, <1>4
<1>6. QED
  BY <1>3, <1>5 DEF d, R, H, a, b

(* What the receiver misses of an SN it reports are bytes that were sent.  *)
LEMMA MissingWasSent ==
  ASSUME TypeInv, SendInv, LinkInv, NEW sn \in SN,
         Ahead(sn, rx_next) < Ahead(rx_next_highest, rx_next),
         NEW start \in Nat, NEW end \in Nat, RxPiece(rx_window, sn, start, end)
  PROVE  PieceOk(tx_window, sn, start, end)
<1> DEFINE d == TxMod(sn)
           H == TxMod(rx_next_highest)
           N == TxMod(tx_next)
           t == SentOf(tx_window, sn)
           len == SduLen[tx_window[sn].sdu]
           a == Ahead(sn, rx_next)
           b == Ahead(rx_next_highest, rx_next)
<1>1. /\ tx_next_ack \in SN /\ tx_next \in SN /\ rx_next \in SN /\ rx_next_highest \in SN
      /\ d \in Nat /\ H \in Nat /\ N \in Nat /\ Top \in Nat /\ TxMod(rx_next) \in Nat
  BY Distances
<1>2. a \in Nat /\ b \in Nat
  BY <1>1, AheadNat
<1>3. d = TxMod(rx_next) + a /\ b = H - TxMod(rx_next)
  BY <1>2, Beyond
<1>4. d < H /\ H <= Top
  <2>1. a < b
    OBVIOUS
  <2>2. H <= Top
    BY DEF LinkInv
  <2> HIDE DEF a, b, d, H
  <2>3. QED
    BY <1>1, <1>2, <1>3, <2>1, <2>2
<1>5. sn \in DOMAIN tx_window
  <2>1. d < Top
    BY <1>1, <1>4
  <2>2. QED
    BY <2>1 DEF SendInv
<1>6. t \in Nat \ {0} /\ t <= len /\ len \in Nat
  BY <1>5, SentIs
<1>7. CASE start = 0 /\ end = EndOfSdu /\ sn \notin DOMAIN rx_window
  <2>1. a + 1 # b
    BY <1>7 DEF TypeInv, RxInv, HeldInv
  <2>2. Top <= N + 1
    BY <1>1 DEF Top
  <2>3. d < N
    <3>1. a < b
      OBVIOUS
    <3> HIDE DEF a, b, d, H, N
    <3>2. QED
      BY <1>1, <1>2, <1>3, <1>4, <2>1, <2>2, <3>1
  <2>4. sn # tx_next
    BY <1>1, <2>3
  <2>5. sn # sn_under_segmentation
    <3>1. sn # NoSn
      BY <1>1, WindowSize DEF SN, NoSn
    <3>2. QED
      BY <2>4, <3>1 DEF SendInv, Segmenting
  <2>6. QED
    BY <1>5, <1>7, <2>5 DEF PieceOk
<1>8. CASE sn \in DOMAIN rx_window
  <2> DEFINE info == rx_window[sn]
  <2>1. info.got \subseteq 0..(t - 1) /\ (info.last <=> (len - 1) \in info.got)
    BY <1>8 DEF LinkInv, HeldIs
  <2> HIDE DEF t, len
  <2>2. CASE end = EndOfSdu /\ ~info.last /\ \E c \in info.got : start = c + 1
    <3>1. PICK c \in info.got : start = c + 1
      BY <2>2
    <3>2. c # len - 1 /\ c \in 0..(t - 1)
      BY <2>1, <2>2, <3>1
    <3>3. start \in 1..(len - 1)
      BY <1>6, <3>1, <3>2
    <3>4. QED
      BY <1>5, <2>2, <3>3 DEF PieceOk, len
  <2>3. CASE end # EndOfSdu /\ start <= end /\ \E c \in info.got : end < c
    <3>1. PICK c \in info.got : end < c
      BY <2>3
    <3>2. c \in 0..(t - 1)
      BY <2>1
    <3>3. end < t
      BY <1>6, <3>1, <3>2
    <3>4. QED
      BY <1>5, <2>3, <3>3 DEF PieceOk, t
  <2>4. QED
    BY <1>8, <2>2, <2>3 DEF RxPiece
<1>9. QED
  BY <1>7, <1>8 DEF RxPiece

(* A report that was just made is true, whatever it is trimmed to.          *)
LEMMA LatestIsTrue ==
  ASSUME TypeInv, SendInv, LinkInv, NEW fit \in Nat, NEW t,
         t = Trim(StatusReport(rx_window, rx_next, rx_highest_status), fit)
  PROVE  ReportTrue(t) /\ TxMod(t.ack) <= TxMod(rx_next_highest)
<1> DEFINE c == StatusReport(rx_window, rx_next, rx_highest_status)
           R == TxMod(rx_next)
           H == TxMod(rx_next_highest)
           k == Len(c.nacks)
           a == Ahead(c.ack, rx_next)
           b == Ahead(rx_next_highest, rx_next)
<1>1. ReportOf(rx_window, rx_next, c) /\ a <= Ahead(rx_highest_status, rx_next)
  BY RefreshedIs DEF TypeInv, RxHeld
<1> HIDE DEF c
<1>2. /\ c \in ReportSet /\ NacksOf(rx_window, rx_next, a, c.nacks)
      /\ a # 0 => c.nacks # <<>>
  BY <1>1 DEF ReportOf
<1>3. /\ rx_next \in SN /\ rx_next_highest \in SN /\ rx_highest_status \in SN /\ c.ack \in SN
      /\ tx_next_ack \in SN /\ R \in Nat /\ H \in Nat /\ am_window_size \in Nat /\ Top \in Nat
      /\ Mod = 2 * am_window_size /\ k \in Nat /\ c.nacks \in Seq(NackSet)
  BY <1>2, Distances DEF TypeInv, RxInv, RxTypes, ReportSet
<1>4. a \in Nat /\ b \in Nat /\ a <= b
  <2>1. Ahead(rx_highest_status, rx_next) <= b
    BY Ordered DEF TypeInv, RxInv
  <2>2. a \in Nat /\ b \in Nat /\ Ahead(rx_highest_status, rx_next) \in Nat
    BY <1>3, AheadNat
  <2> HIDE DEF a, b
  <2>3. QED
    BY <1>1, <2>1, <2>2
<1>5. b = H - R /\ H <= Top /\ Top <= am_window_size
  BY <1>3, <1>4, Beyond DEF LinkInv, SendInv
<1>6. ASSUME NEW n \in 1..k
      PROVE  /\ c.nacks[n] \in NackSet
             /\ Ahead(c.nacks[n].sn, rx_next) \in Nat
             /\ Ahead(c.nacks[n].sn, rx_next) + c.nacks[n].range <= a
             /\ TxMod(c.nacks[n].sn) = R + Ahead(c.nacks[n].sn, rx_next)
             /\ TxMod(c.nacks[n].sn) <= H
             /\ TxMod(c.nacks[n].sn) + c.nacks[n].range <= am_window_size
             /\ NackPieces(tx_window, c.nacks[n])
  <2> DEFINE nack == c.nacks[n]
             f == Ahead(nack.sn, rx_next)
  <2>1. /\ nack \in NackSet /\ f + nack.range <= a
        /\ \A j \in 1..nack.range :
             RxPiece(rx_window, At(nack.sn, j - 1), IF j = 1 THEN nack.start ELSE 0,
                     IF j = nack.range THEN nack.end ELSE EndOfSdu)
    BY <1>2 DEF NacksOf, NackOf
  <2>2. nack.sn \in SN /\ nack.range \in Nat \ {0} /\ nack.start \in Nat /\ nack.end \in Nat
    BY <2>1 DEF NackSet
  <2>3. f \in Nat
    BY <1>3, <2>2, AheadNat
  <2>4. f <= b
    <3> HIDE DEF f, a, b, nack
    <3>1. QED
      BY <1>4, <2>1, <2>2, <2>3
  <2>5. TxMod(nack.sn) = R + f /\ TxMod(nack.sn) <= H
    BY <2>2, <2>4, Beyond
  <2>6. TxMod(nack.sn) + nack.range <= am_window_size
    <3> HIDE DEF f, a, b, nack, R, H
    <3>1. QED
      BY <1>3, <1>4, <1>5, <2>1, <2>2, <2>3, <2>5
  <2>7. ASSUME NEW j \in 1..nack.range
        PROVE  PieceOk(tx_window, At(nack.sn, j - 1), IF j = 1 THEN nack.start ELSE 0,
                       IF j = nack.range THEN nack.end ELSE EndOfSdu)
    <3> DEFINE s == At(nack.sn, j - 1)
               x == IF j = 1 THEN nack.start ELSE 0
               e == IF j = nack.range THEN nack.end ELSE EndOfSdu
    <3>1. x \in Nat /\ e \in Nat
      BY <2>2, EndOfSduIs
    <3>2. RxPiece(rx_window, s, x, e)
      BY <2>1
    <3>3. j - 1 \in Nat /\ f + (j - 1) < b /\ f + (j - 1) < Mod
      <4>1. b < Mod
        BY <1>3, AheadNat
      <4>2. f + nack.range <= a /\ nack.range \in Nat /\ a \in Nat /\ b \in Nat /\ a <= b /\ Mod \in Nat
        BY <1>3, <1>4, <2>1, <2>2, WindowSize
      <4> DEFINE q == nack.range
      <4>3. j \in 1..q
        OBVIOUS
      <4> HIDE DEF f, a, b, nack, q, s, x, e
      <4>4. QED
        BY <2>3, <4>1, <4>2, <4>3 DEF q
    <3>4. s \in SN /\ Ahead(s, rx_next) = f + (j - 1)
      BY <1>3, <2>2, <3>3, AtStep
    <3> HIDE DEF s, x, e
    <3>5. PieceOk(tx_window, s, x, e)
      BY <3>1, <3>2, <3>3, <3>4, MissingWasSent
    <3>6. QED
      BY <3>5 DEF s, x, e
  <2>8. NackPieces(tx_window, nack)
    BY <2>7 DEF NackPieces
  <2>9. QED
    BY <2>1, <2>3, <2>5, <2>6, <2>8
<1>7. /\ t \in ReportSet
      /\ Len(t.nacks) <= k
      /\ \A n \in 1..Len(t.nacks) : t.nacks[n] = c.nacks[n]
      /\ \/ t = c
         \/ /\ k >= 1
            /\ \E n \in 1..k : t.ack = c.nacks[n].sn
            /\ t.nacks = <<>> => t.ack = c.nacks[1].sn
  BY <1>2, TrimIs DEF c
<1>8. t.nacks \in Seq(NackSet) /\ Len(t.nacks) \in Nat
  BY <1>7 DEF ReportSet
<1>9. k >= 1 => c.nacks[1].sn = rx_next
  BY <1>2, <1>3 DEF NacksOf
<1>10. TxMod(t.ack) <= H
  <2>1. CASE t = c
    BY <1>3, <1>4, <2>1, Beyond
  <2>2. CASE \E n \in 1..k : t.ack = c.nacks[n].sn
    BY <1>6, <2>2
  <2>3. QED
    BY <1>7, <2>1, <2>2
<1>11. StopOf(t) = rx_next
  <2>1. CASE t.nacks # <<>>
    <3>1. 1 \in 1..Len(t.nacks) /\ k >= 1
      BY <1>3, <1>7, <1>8, <2>1
    <3>2. t.nacks[1] = c.nacks[1]
      BY <1>7, <3>1
    <3>3. QED
      BY <1>9, <2>1, <3>1, <3>2 DEF StopOf
  <2>2. CASE t.nacks = <<>> /\ t = c
    <3>1. a = 0
      BY <1>2, <2>2
    <3>2. c.ack = rx_next
      BY <1>3, <3>1, Rebase
    <3>3. QED
      BY <2>2, <3>2 DEF StopOf
  <2>3. CASE t.nacks = <<>> /\ k >= 1 /\ (t.nacks = <<>> => t.ack = c.nacks[1].sn)
    BY <1>9, <2>3 DEF StopOf
  <2>4. QED
    BY <1>7, <2>1, <2>2, <2>3
<1>12. ASSUME NEW n \in 1..Len(t.nacks)
       PROVE  /\ R <= TxMod(t.nacks[n].sn)
              /\ TxMod(t.nacks[n].sn) + t.nacks[n].range <= am_window_size
              /\ NackPieces(tx_window, t.nacks[n])
  <2>1. n \in 1..k /\ t.nacks[n] = c.nacks[n]
    BY <1>3, <1>7, <1>8
  <2>2. /\ TxMod(c.nacks[n].sn) = R + Ahead(c.nacks[n].sn, rx_next)
        /\ Ahead(c.nacks[n].sn, rx_next) \in Nat
        /\ TxMod(c.nacks[n].sn) + c.nacks[n].range <= am_window_size
        /\ NackPieces(tx_window, c.nacks[n])
    BY <1>6, <2>1
  <2>3. R <= TxMod(c.nacks[n].sn)
    BY <1>3, <2>2
  <2>4. QED
    BY <2>1, <2>2, <2>3
<1>13. QED
  BY <1>3, <1>10, <1>11, <1>12 DEF ReportTrue, Claims

(* That is so of the report that the receiver has just refreshed, whatever *)
(* it is trimmed to.                                                       *)
LatestLink ==
  status_cached = StatusReport(rx_window, rx_next, rx_highest_status) =>
    \A fit \in 0..MaxFit :
      /\ ReportTrue(Trim(status_cached, fit))
      /\ TxMod(Trim(status_cached, fit).ack) <= TxMod(rx_next_highest)

(* As above, of the report kept.                                            *)
LEMMA LatestNow == TypeInv /\ SendInv /\ LinkInv => LatestLink
<1>1. \A fit \in 0..MaxFit : fit \in Nat
  BY LinkAssumption
<1>2. QED
  BY <1>1, LatestIsTrue DEF LatestLink

(* As above, of the next state.                                             *)
LEMMA LatestNext == (TypeInv /\ SendInv /\ LinkInv)' => LatestLink'
  BY LatestNow, PTL

(* A report that was trimmed is trimmed again: to what the first could     *)
(* have been trimmed to.                                                   *)
LEMMA TrimTwice ==
  ASSUME NEW r \in ReportSet, NEW f \in Nat, NEW g \in Nat
  PROVE  Trim(Trim(r, f), g) \in {Trim(r, f), Trim(r, g)}
<1> DEFINE k == Len(r.nacks)
           t == Trim(r, f)
           ack == r.nacks[f + 1].sn
           S == {0} \cup {n \in 1..f : r.nacks[n].sn # ack}
           kept == Max(S)
<1>1. r.nacks \in Seq(NackSet) /\ k \in Nat
  BY DEF ReportSet
<1>2. CASE k <= f
  BY <1>2 DEF Trim
<1>3. CASE ~(k <= f)
  <2>1. t = [ack |-> ack, nacks |-> [n \in 1..kept |-> r.nacks[n]]]
    BY <1>3 DEF Trim
  <2>2. kept \in 0..f
    <3>1. S \in SUBSET Nat /\ S # {} /\ \A n \in S : n <= f
      OBVIOUS
    <3>2. Max(S) \in S
      BY <3>1, MaxIs
    <3>3. QED
      BY <3>1, <3>2
  <2> HIDE DEF kept
  <2>3. Len(t.nacks) = kept /\ \A n \in 1..kept : t.nacks[n] = r.nacks[n]
    BY <2>1, <2>2
  <2> HIDE DEF t
  <2>4. CASE kept <= g
    BY <2>3, <2>4 DEF Trim, t
  <2>5. CASE ~(kept <= g)
    <3>1. g + 1 \in 1..kept /\ ~(k <= g) /\ \A n \in 1..g : n \in 1..kept
      BY <1>1, <1>3, <2>2, <2>5
    <3>2. \A n \in 1..(g + 1) : t.nacks[n] = r.nacks[n]
      BY <2>3, <3>1
    <3> DEFINE x == r.nacks[g + 1].sn
               K == {0} \cup {n \in 1..g : r.nacks[n].sn # x}
               L == {0} \cup {n \in 1..g : t.nacks[n].sn # t.nacks[g + 1].sn}
    <3>3. t.nacks[g + 1].sn = x /\ L = K
      BY <3>2
    <3>4. Trim(t, g) = [ack |-> x, nacks |-> [n \in 1..Max(K) |-> t.nacks[n]]]
      <4>1. Trim(t, g) = [ack |-> t.nacks[g + 1].sn, nacks |-> [n \in 1..Max(L) |-> t.nacks[n]]]
        BY <2>3, <2>5 DEF Trim
      <4> HIDE DEF L, K, x
      <4>2. QED
        BY <3>3, <4>1
    <3>5. Trim(r, g) = [ack |-> x, nacks |-> [n \in 1..Max(K) |-> r.nacks[n]]]
      BY <3>1 DEF Trim
    <3>6. Max(K) \in 0..g
      <4>1. K \in SUBSET Nat /\ K # {} /\ \A n \in K : n <= g
        OBVIOUS
      <4>2. Max(K) \in K
        BY <4>1, MaxIs
      <4>3. QED
        BY <4>1, <4>2
    <3> HIDE DEF K, x
    <3> DEFINE m == Max(K)
    <3>7. m \in 0..g
      BY <3>6
    <3> HIDE DEF m
    <3>8. \A n \in 1..m : t.nacks[n] = r.nacks[n]
      BY <3>2, <3>7
    <3>9. Trim(t, g) = Trim(r, g)
      BY <3>4, <3>5, <3>8 DEF m
    <3>10. QED
      BY <3>9 DEF t
  <2>6. QED
    BY <2>4, <2>5
<1>4. QED
  BY <1>2, <1>3

(* Each step of the receiver.                                              *)
Refreshed ==
  /\ status_cached' = StatusReport(rx_window', rx_next', rx_highest_status')
  /\ UNCHANGED status_shared

(* The reports that are kept are true after a refresh.                      *)
LEMMA RefreshedKept ==
  ASSUME TypeInv, TypeInv', KeptLink, SendInv', LinkInv', Refreshed, UNCHANGED tx_vars,
         TxMod(rx_next) <= TxMod(rx_next)', TxMod(rx_next_highest) <= TxMod(rx_next_highest)'
  PROVE  KeptLink'
<1>1. ASSUME NEW fit \in 0..MaxFit PROVE ReportTrue(Trim(status_cached, fit))'
  BY LatestNext DEF LatestLink, Refreshed
<1>2. ASSUME NEW fit \in 0..MaxFit PROVE ReportTrue(Trim(status_shared, fit))'
  <2>1. PICK r : r = Trim(status_shared, fit)
    OBVIOUS
  <2>2. r \in Sendable
    BY <2>1 DEF Sendable
  <2>3. r \in ReportSet /\ ReportTrue(r)
    BY <2>2, SendableIs DEF KeptLink
  <2>4. ReportTrue(r)'
    BY <2>3, ReportStays
  <2>5. r = Trim(status_shared', fit)
    BY <2>1 DEF Refreshed
  <2>6. QED
    BY <2>4, <2>5
<1>3. QED
  BY <1>1, <1>2 DEF KeptLink, Sendable

(* handle_data_pdu, in short: the report is refreshed if the PDU is placed *)
(* and says anything new.                                                  *)
LEMMA ArrivalIs ==
  ASSUME HandleDataPdu
  PROVE  \E n \in 1..Len(data_air) :
           /\ Arrives(n) /\ UNCHANGED status_air /\ (UNCHANGED report_vars \/ Refreshed)
           /\ IF Discarded(data_air[n]) THEN UNCHANGED <<rx_next, rx_next_highest, rx_window, rx_failure>>
              ELSE PlacePdu(data_air[n])
<1>1. PICK n \in 1..Len(data_air) :
        /\ Arrives(n) /\ UNCHANGED status_air /\ UNCHANGED status_shared
        /\ IF Discarded(data_air[n])
           THEN UNCHANGED <<rx_next, rx_next_highest, rx_window, rx_failure, status_cached>>
           ELSE PlacePdu(data_air[n])
  BY DEF HandleDataPdu
<1>2. PICK p : p = data_air[n]
  OBVIOUS
<1>3. PlacePdu(p) => UNCHANGED status_cached \/ RefreshStatusReport
  BY DEF PlacePdu
<1>4. UNCHANGED status_cached \/ RefreshStatusReport
  BY <1>1, <1>2, <1>3
<1>5. UNCHANGED report_vars \/ Refreshed
  BY <1>1, <1>4 DEF report_vars, Refreshed, RefreshStatusReport
<1>6. QED
  BY <1>1, <1>5

(* get_status_pdu and the pull leave no report that could not be sent      *)
(* before.                                                                 *)
LEMMA SendableShrinks ==
  ASSUME TypeInv, NEW fit \in 0..MaxFit, SendStatusPdu(fit)
  PROVE  Sendable' \subseteq Sendable
<1>1. status_shared' = Trim(status_cached, fit) /\ status_cached' = status_shared
  BY DEF SendStatusPdu
<1>2. SUFFICES ASSUME NEW r \in {status_cached', status_shared'}, NEW g \in 0..MaxFit
               PROVE  Trim(r, g) \in Sendable
  BY DEF Sendable
<1>3. CASE r = status_shared
  BY <1>3 DEF Sendable
<1>4. CASE r = Trim(status_cached, fit)
  <2>1. status_cached \in ReportSet /\ fit \in Nat /\ g \in Nat
    BY LinkAssumption DEF TypeInv, ReportTypes, WellFormed
  <2>2. Trim(r, g) \in {Trim(status_cached, fit), Trim(status_cached, g)}
    BY <1>4, <2>1, TrimTwice
  <2>3. QED
    BY <2>2 DEF Sendable
<1>5. QED
  BY <1>1, <1>2, <1>3, <1>4

(* The steps of the receiver.                                              *)
LEMMA ReceiverKeepsProtocol ==
  ASSUME TypeInv, TypeInv', ReassemblyAssertions, ProtocolInv, FlightInWindow, ReceiverStep,
         UNCHANGED tx_vars
  PROVE  ProtocolInv' /\ TxMod(rx_next) <= TxMod(rx_next)'
<1>1. SendInv /\ LinkInv /\ AirLink /\ ReportLink /\ KeptLink /\ SendInv'
  BY SendUnchanged DEF ProtocolInv
<1>2. UNCHANGED <<tx_next_ack, tx_next, tx_window, sn_under_segmentation>>
  BY DEF tx_vars
<1>3. ASSUME UNCHANGED <<rx_next, rx_next_highest, rx_window>>, ~rx_failure'
      PROVE  /\ LinkInv'
             /\ TxMod(rx_next) <= TxMod(rx_next)' /\ TxMod(rx_next_highest) <= TxMod(rx_next_highest)'
  <2>1. /\ TxMod(rx_next)' = TxMod(rx_next) /\ TxMod(rx_next_highest)' = TxMod(rx_next_highest)
        /\ TxMod(tx_next)' = TxMod(tx_next) /\ Segmenting' = Segmenting
    BY <1>2, <1>3 DEF TxMod, Segmenting
  <2>2. Top' = Top
    BY <2>1 DEF Top
  <2>3. TxMod(rx_next) \in Nat /\ TxMod(rx_next_highest) \in Nat
    BY Distances
  <2>4. \A sn \in DOMAIN rx_window' : HeldIs(rx_window[sn], sn)'
    BY <1>1, <1>2, <1>3 DEF LinkInv, HeldIs, SentOf
  <2>5. LinkInv'
    BY <1>1, <1>3, <2>1, <2>2, <2>4 DEF LinkInv
  <2>6. QED
    BY <2>1, <2>3, <2>5
<1>4. ASSUME UNCHANGED data_air PROVE AirLink'
  <2>1. Top' = Top
    BY <1>2 DEF Top, Segmenting, TxMod
  <2>2. QED
    BY <1>1, <1>2, <1>4, <2>1 DEF AirLink, CarriesSent, TxMod, SentOf
<1>5. ASSUME Refreshed, LinkInv',
             TxMod(rx_next) <= TxMod(rx_next)', TxMod(rx_next_highest) <= TxMod(rx_next_highest)'
      PROVE  KeptLink'
  BY <1>1, <1>5, RefreshedKept
<1>6. ASSUME UNCHANGED <<rx_next, rx_next_highest, rx_window, data_air, status_air>>, ~rx_failure',
             UNCHANGED report_vars \/ Refreshed
      PROVE  ProtocolInv' /\ TxMod(rx_next) <= TxMod(rx_next)'
  <2>1. /\ LinkInv'
        /\ TxMod(rx_next) <= TxMod(rx_next)' /\ TxMod(rx_next_highest) <= TxMod(rx_next_highest)'
    BY <1>3, <1>6
  <2>2. ReportLink' /\ KeptLink'
    BY <1>1, <1>5, <1>6, <2>1, ReportsStay
  <2>3. QED
    BY <1>1, <1>4, <1>6, <2>1, <2>2 DEF ProtocolInv
<1>7. CASE \/ GetStatusPdu \/ OnExpiredStatusProhibitTimer \/ OnExpiredReassemblyTimer
           \/ UpdateOwnBufferState \/ OtherDirection
  <2>1. ~rx_failure'
    BY <1>1, <1>7 DEF ReassemblyAssertions, LinkInv, GetStatusPdu, OnExpiredStatusProhibitTimer,
                      UpdateOwnBufferState, OtherDirection, rx_data_vars
  <2>2. UNCHANGED report_vars \/ Refreshed
    BY <1>7 DEF GetStatusPdu, OnExpiredStatusProhibitTimer, OnExpiredReassemblyTimer, report_vars,
                UpdateOwnBufferState, OtherDirection, Refreshed, RefreshStatusReport
  <2>3. QED
    BY <1>6, <1>7, <2>1, <2>2 DEF GetStatusPdu, OnExpiredStatusProhibitTimer, OnExpiredReassemblyTimer,
                                  UpdateOwnBufferState, OtherDirection, rx_data_vars
<1>8. ASSUME NEW fit \in 0..MaxFit, SendStatusPdu(fit)
      PROVE  ProtocolInv' /\ TxMod(rx_next) <= TxMod(rx_next)'
  <2>1. /\ UNCHANGED <<rx_next, rx_next_highest, rx_window, rx_failure, data_air>>
        /\ status_shared' = Trim(status_cached, fit) /\ status_cached' = status_shared
        /\ status_air' \in {<<>>, <<status_shared'>>}
    BY <1>8 DEF SendStatusPdu, TransmitStatus, rx_data_vars
  <2>2. /\ LinkInv'
        /\ TxMod(rx_next) <= TxMod(rx_next)' /\ TxMod(rx_next_highest) <= TxMod(rx_next_highest)'
    BY <1>1, <1>3, <2>1 DEF LinkInv
  <2>3. ASSUME NEW r \in Sendable PROVE ReportTrue(r)'
    <3>1. r \in ReportSet /\ ReportTrue(r)
      BY <1>1, SendableIs DEF KeptLink
    <3>2. QED
      BY <2>2, <3>1, ReportStays
  <2>4. ReportLink'
    <3>1. SUFFICES ASSUME NEW r, status_air' = <<r>>
                   PROVE  ReportTrue(r)'
      BY DEF ReportLink
    <3>2. r = Trim(status_cached, fit)
      <4>1. <<r>>[1] = r /\ <<status_shared'>>[1] = status_shared'
        OBVIOUS
      <4>2. <<r>> = <<status_shared'>>
        BY <2>1, <3>1
      <4>3. QED
        BY <2>1, <4>1, <4>2
    <3>3. r \in Sendable
      BY <3>2 DEF Sendable
    <3>4. QED
      BY <2>3, <3>3
  <2>5. Sendable' \subseteq Sendable
    BY <1>8, SendableShrinks
  <2>6. KeptLink'
    BY <2>3, <2>5 DEF KeptLink
  <2>7. QED
    BY <1>1, <1>4, <2>1, <2>2, <2>4, <2>6 DEF ProtocolInv
<1>9. CASE HandleDataPdu
  <2>1. PICK n \in 1..Len(data_air) :
          /\ Arrives(n) /\ UNCHANGED status_air /\ (UNCHANGED report_vars \/ Refreshed)
          /\ IF Discarded(data_air[n]) THEN UNCHANGED <<rx_next, rx_next_highest, rx_window, rx_failure>>
             ELSE PlacePdu(data_air[n])
    BY <1>9, ArrivalIs
  <2>2. AirLink'
    <3>1. AirInv
      BY DEF TypeInv
    <3>2. \A m \in 1..Len(data_air') : \E k \in 1..Len(data_air) :
           /\ data_air'[m].sn = data_air[k].sn /\ data_air'[m].sdu = data_air[k].sdu
           /\ data_air'[m].so = data_air[k].so /\ data_air'[m].len = data_air[k].len
      BY <2>1, <3>1, LeftInFlight
    <3>3. QED
      BY <1>1, <3>1, <3>2, AirLeft
  <2>3. /\ LinkInv'
        /\ TxMod(rx_next) <= TxMod(rx_next)' /\ TxMod(rx_next_highest) <= TxMod(rx_next_highest)'
    <3>1. CASE Discarded(data_air[n])
      BY <1>1, <1>3, <2>1, <3>1 DEF LinkInv
    <3>2. CASE ~Discarded(data_air[n])
      <4>1. PICK p : p = data_air[n]
        OBVIOUS
      <4>2. p \in PduSet /\ PduOk(p) /\ CarriesSent(p) /\ Timely(p) /\ ~Discarded(p) /\ PlacePdu(p)
        BY <1>1, <2>1, <3>2, <4>1 DEF TypeInv, AirInv, AirLink, FlightInWindow
      <4>3. PICK info, window, highest, next, complete : Placed(p, info, window, highest, next, complete)
        BY <4>2, PlacedIs
      <4>4. TriggerHeld
        BY DEF ReassemblyAssertions
      <4>5. QED
        BY <1>1, <4>2, <4>3, <4>4, PlaceLinks
    <3>3. QED
      BY <3>1, <3>2
  <2>4. ReportLink' /\ KeptLink'
    BY <1>1, <1>5, <2>1, <2>3, ReportsStay
  <2>5. QED
    BY <1>1, <2>2, <2>3, <2>4 DEF ProtocolInv
<1>10. QED
  BY <1>7, <1>8, <1>9 DEF ReceiverStep

(* The reports that the receiver starts with are of nothing: of Start or   *)
(* of the SN before it.                                                    *)
LEMMA KeptInitially ==
  ASSUME Init
  PROVE  \A r \in {status_cached, status_shared}, fit \in 0..MaxFit :
           Trim(r, fit) = r /\ r.ack \in SN /\ Ahead(r.ack, Start) \in {0, Mod - 1}
<1>1. SUFFICES ASSUME NEW r \in {status_cached, status_shared}, NEW fit \in 0..MaxFit
               PROVE  Trim(r, fit) = r /\ r.ack \in SN /\ Ahead(r.ack, Start) \in {0, Mod - 1}
  OBVIOUS
<1>2. Start \in SN
  BY StatusAssumption DEF SN
<1>3. /\ r.nacks = <<>>
      /\ \/ r.ack = Start
         \/ Start = 0 /\ (r.ack = 0 \/ r.ack = Mod - 1)
         \/ Start # 0 /\ r.ack = Start - 1
  BY DEF Init, RxInit
<1>4. r.ack \in SN /\ (r.ack = Start \/ (Start = 0 /\ r.ack = Mod - 1) \/ r.ack + 1 = Start)
  BY <1>2, <1>3, WindowSize DEF SN
<1>5. /\ Mod \in Nat /\ Mod > 2
      /\ Ahead(r.ack, Start) = IF r.ack >= Start THEN r.ack - Start ELSE r.ack - Start + Mod
  <2>1. Mod \in Nat /\ Mod > 2
    BY WindowSize
  <2>2. PICK sn \in SN : sn = r.ack
    BY <1>4
  <2>3. Ahead(sn, Start) = IF sn >= Start THEN sn - Start ELSE sn - Start + Mod
    BY <1>2, AheadIs
  <2>4. QED
    BY <2>1, <2>2, <2>3
<1>6. Ahead(r.ack, Start) \in {0, Mod - 1}
  BY <1>2, <1>4, <1>5 DEF SN
<1>7. r.nacks = <<>> /\ fit >= 0 /\ Len(r.nacks) = 0
  BY <1>3, LinkAssumption
<1>8. Trim(r, fit) = r
  BY <1>7 DEF Trim
<1>9. QED
  BY <1>4, <1>6, <1>8

(* Nothing is in flight and nothing was sent.                              *)
LEMMA ProtocolInitially ==
  ASSUME Init
  PROVE  ProtocolInv
<1>1. /\ tx_next_ack = Start /\ tx_next = Start /\ rx_next = Start /\ rx_next_highest = Start
      /\ tx_window = <<>> /\ rx_window = <<>> /\ sn_under_segmentation = NoSn /\ retx_queue = <<>>
      /\ ~failure /\ ~rx_failure /\ data_air = <<>> /\ status_air = <<>>
  BY DEF Init, TxInit, RxInit
<1>2. Start \in SN
  BY StatusAssumption DEF SN
<1>3. TxMod(tx_next) = 0 /\ TxMod(rx_next) = 0 /\ TxMod(rx_next_highest) = 0 /\ ~Segmenting
  BY <1>1, <1>2, Rebase DEF TxMod, Segmenting
<1>4. Top = 0
  BY <1>3 DEF Top
<1>5. \A sn \in SN : ~(TxMod(sn) < 0)
  BY <1>1, <1>2, AheadNat DEF TxMod
<1>6. DOMAIN tx_window = {} /\ DOMAIN rx_window = {}
  BY <1>1
<1>7. SendInv
  <2>1. Top <= am_window_size
    BY <1>4, WindowSize
  <2>2. QED
    BY <1>1, <1>3, <1>4, <1>5, <1>6, <2>1 DEF SendInv
<1>8. LinkInv
  BY <1>1, <1>3, <1>4, <1>6 DEF LinkInv
<1>9. AirLink /\ ReportLink
  BY <1>1 DEF AirLink, ReportLink
<1>10. KeptLink
  <2>1. ASSUME NEW r \in {status_cached, status_shared}, NEW fit \in 0..MaxFit
        PROVE  ReportTrue(Trim(r, fit))
    <3>1. Trim(r, fit) = r /\ TxMod(r.ack) \in {0, Mod - 1}
      BY <1>1, KeptInitially DEF TxMod
    <3>2. ~ValidAckSn(r.ack)
      BY <3>1, WindowSize DEF ValidAckSn
    <3>3. QED
      BY <3>1, <3>2 DEF ReportTrue
  <2>2. QED
    BY <2>1 DEF KeptLink, Sendable
<1>11. QED
  BY <1>7, <1>8, <1>9, <1>10 DEF ProtocolInv

(* Stuttering keeps the link between the two ends.                          *)
LEMMA StutterKeepsProtocol ==
  ASSUME ProtocolInv, TypeInv, TypeInv', UNCHANGED vars
  PROVE  ProtocolInv'
<1>1. /\ UNCHANGED tx_vars /\ UNCHANGED <<rx_next, rx_next_highest, rx_window, rx_failure, data_air, status_air>>
  BY DEF vars, rx_vars
<1>2. UNCHANGED <<tx_next_ack, tx_next, tx_window, sn_under_segmentation>>
  BY <1>1 DEF tx_vars
<1>3. Top' = Top
  BY <1>2 DEF Top, Segmenting, TxMod
<1>4. SendInv'
  BY <1>1, SendUnchanged DEF ProtocolInv
<1>5. LinkInv'
  BY <1>1, <1>2, <1>3 DEF ProtocolInv, LinkInv, HeldIs, SentOf, TxMod
<1>6. AirLink'
  BY <1>1, <1>2, <1>3 DEF ProtocolInv, AirLink, CarriesSent, TxMod, SentOf
<1>7. ReportLink' /\ KeptLink'
  <2>1. TxMod(rx_next) <= TxMod(rx_next)' /\ TxMod(rx_next_highest) <= TxMod(rx_next_highest)'
    <3>1. TxMod(rx_next)' = TxMod(rx_next) /\ TxMod(rx_next_highest)' = TxMod(rx_next_highest)
      BY <1>1, <1>2 DEF TxMod
    <3>2. TxMod(rx_next) \in Nat /\ TxMod(rx_next_highest) \in Nat
      BY Distances
    <3>3. QED
      BY <3>1, <3>2
  <2>2. UNCHANGED report_vars
    BY DEF vars, rx_vars
  <2>3. QED
    BY <1>1, <2>1, <2>2, ReportsStay DEF ProtocolInv
<1>8. QED
  BY <1>4, <1>5, <1>6, <1>7 DEF ProtocolInv

(* Every step keeps the link between the two ends, as long as nothing       *)
(* outlives its window.                                                     *)
LEMMA ProtocolStep ==
  ASSUME TypeInv, TypeInv', ReassemblyAssertions, ProtocolInv, FlightInWindow, [KeptInTime]_vars,
         [Next]_vars
  PROVE  ProtocolInv'
<1>1. KeptInTime
  <2>1. UNCHANGED vars => UNCHANGED tx_next_ack
    BY DEF vars, tx_vars
  <2>2. ASSUME UNCHANGED tx_next_ack, NEW r PROVE ValidAckSn(r.ack)' => ValidAckSn(r.ack)
    BY <2>2 DEF ValidAckSn, TxMod
  <2>3. QED
    BY <2>1, <2>2 DEF KeptInTime
<1>2. CASE ~released /\ SenderStep /\ UNCHANGED rx_vars
  BY <1>1, <1>2, SenderKeepsProtocol, StatusKeepsProtocol
<1>3. CASE ReceiverStep /\ UNCHANGED tx_vars
  BY <1>3, ReceiverKeepsProtocol
<1>4. CASE UNCHANGED vars
  BY <1>4, StutterKeepsProtocol
<1>5. QED
  BY <1>2, <1>3, <1>4, StepSplits

(* The properties that the invariant gives.                                *)
LEMMA ProtocolIsSound ==
  ASSUME TypeInv, ProtocolInv
  PROVE  NoFailure /\ WindowsAgree /\ RetxIsOfSentBytes
<1> DEFINE R == TxMod(rx_next)
           H == TxMod(rx_next_highest)
           N == TxMod(tx_next)
           W == am_window_size
<1>1. /\ tx_next_ack \in SN /\ tx_next \in SN /\ rx_next \in SN /\ rx_next_highest \in SN
      /\ Top \in Nat /\ W \in Nat /\ W >= 2 /\ Mod = 2 * W /\ R \in Nat /\ H \in Nat /\ N \in Nat
      /\ Mod \in Nat
  BY Distances
<1>2. /\ R <= N /\ R <= H /\ H <= Top /\ Top <= W /\ Top <= N + 1 /\ N <= Top
      /\ ~failure /\ ~rx_failure
  BY <1>1 DEF ProtocolInv, LinkInv, SendInv, Top
<1>3. NoFailure
  BY <1>2 DEF NoFailure
<1>4. WindowsAgree
  <2>1. Ahead(rx_next, tx_next_ack) <= Ahead(tx_next, tx_next_ack)
    BY <1>2 DEF TxMod
  <2>2. Ahead(rx_next_highest, rx_next) = H - R
    <3>1. Ahead(rx_next_highest, rx_next) = IF H >= R THEN H - R ELSE H - R + Mod
      BY <1>1, Rebase DEF TxMod
    <3>2. QED
      BY <1>1, <1>2, <3>1
  <2>3. Ahead(tx_next, rx_next) = N - R
    <3>1. Ahead(tx_next, rx_next) = IF N >= R THEN N - R ELSE N - R + Mod
      BY <1>1, Rebase DEF TxMod
    <3>2. QED
      BY <1>1, <1>2, <3>1
  <2>4. Ahead(tx_next + 1, rx_next) = IF N - R = Mod - 1 THEN 0 ELSE N - R + 1
    BY <1>1, <2>3, AheadIs
  <2> HIDE DEF R, H, N, W
  <2>5. N - R # Mod - 1 /\ H - R <= N - R + 1
    BY <1>1, <1>2
  <2>6. Ahead(rx_next_highest, rx_next) <= Ahead(tx_next + 1, rx_next)
    BY <2>2, <2>4, <2>5
  <2>7. QED
    BY <2>1, <2>6 DEF WindowsAgree
<1>5. RetxIsOfSentBytes
  <2>1. ASSUME sn_under_segmentation # NoSn
        PROVE  /\ sn_under_segmentation = tx_next /\ tx_next \in DOMAIN tx_window
               /\ tx_window[tx_next].next_so \in 1..(SduLen[tx_window[tx_next].sdu] - 1)
    <3>1. Segmenting
      BY <2>1 DEF Segmenting
    <3>2. sn_under_segmentation = tx_next /\ Top = N + 1
      BY <3>1 DEF ProtocolInv, SendInv, Top
    <3>3. N < Top
      BY <1>1, <3>2
    <3>4. tx_next \in DOMAIN tx_window
      BY <1>1, <3>3 DEF ProtocolInv, SendInv
    <3>5. QED
      BY <3>2, <3>4 DEF TypeInv, TxInv, SegInv, SegmentOk
  <2>2. ASSUME NEW n \in 1..Len(retx_queue)
        PROVE  /\ retx_queue[n].sn \in DOMAIN tx_window
               /\ retx_queue[n].so + retx_queue[n].len <=
                    IF retx_queue[n].sn = sn_under_segmentation THEN tx_window[retx_queue[n].sn].next_so
                    ELSE SduLen[tx_window[retx_queue[n].sn].sdu]
    <3>1. Exists(tx_window, retx_queue[n]) /\ WasSent(tx_window, retx_queue[n])
      BY DEF TypeInv, TxInv, RetxTypes, ProtocolInv, SendInv
    <3>2. QED
      BY <3>1 DEF Exists, WasSent, SentOf
  <2>3. QED
    BY <2>1, <2>2 DEF RetxIsOfSentBytes
<1>6. QED
  BY <1>3, <1>4, <1>5

(* The two ends are linked in every state, as long as nothing outlives its  *)
(* window.                                                                  *)
LEMMA ProtocolHolds == Spec /\ []FlightInWindow /\ [][KeptInTime]_vars => []ProtocolInv
<1>1. Init => ProtocolInv
  BY ProtocolInitially
<1>2. TypeInv /\ TypeInv' /\ ProtocolInv /\ FlightInWindow /\ [Next]_vars /\ [KeptInTime]_vars
        => ProtocolInv'
  <2>1. SUFFICES ASSUME TypeInv, TypeInv', ProtocolInv, FlightInWindow, [Next]_vars,
                        [KeptInTime]_vars
                 PROVE  ProtocolInv'
    OBVIOUS
  <2>2. ReassemblyAssertions
    BY <2>1, TypesStep
  <2>3. QED
    BY <2>1, <2>2, ProtocolStep
<1>3. QED
  BY <1>1, <1>2, TypesHold, PTL DEF Spec

-----------------------------------------------------------------------------
(* Without overtaking no data PDU stays in flight for long enough to be    *)
(* taken for another: those behind it were sent within a window of it, and *)
(* what the receiver has seen is within a window of what is in flight.     *)

Off(sn) == IF TxMod(sn) < am_window_size THEN TxMod(sn) ELSE TxMod(sn) - Mod

FlightInv ==
  \A n \in 1..Len(data_air) :
    /\ TxMod(rx_next_highest) <= Off(data_air[n].sn) + am_window_size
    /\ \A m \in 1..(n - 1) : Off(data_air[m].sn) + 1 <= Off(data_air[n].sn) + am_window_size

(* What FlightInv says is enough.                                           *)
LEMMA FlightIsTimely ==
  ASSUME TypeInv, ProtocolInv, FlightInv
  PROVE  FlightInWindow
<1>1. SUFFICES ASSUME NEW n \in 1..Len(data_air) PROVE Timely(data_air[n])
  BY DEF FlightInWindow
<1> DEFINE sn == data_air[n].sn
           d == TxMod(sn)
           R == TxMod(rx_next)
           H == TxMod(rx_next_highest)
           W == am_window_size
<1>2. sn \in SN
  <2>1. data_air[n] \in PduSet
    BY DEF TypeInv, AirInv
  <2>2. QED
    BY <2>1 DEF PduSet
<1>3. d \in Nat /\ d < Mod /\ R \in Nat /\ H \in Nat /\ W \in Nat /\ Mod = 2 * W
  BY <1>2, Distances
<1>4. R <= H
  BY DEF ProtocolInv, LinkInv
<1>5. H <= (IF d < W THEN d ELSE d - Mod) + W
  BY DEF FlightInv, Off
<1> HIDE DEF d, R, H, W
<1>6. d < W \/ R + W <= d
  BY <1>3, <1>4, <1>5
<1>7. QED
  BY <1>6 DEF Timely, d, R, W

(* A data PDU is sent: of an SN of the window.                             *)
LEMMA SentInFlight ==
  ASSUME TypeInv, ProtocolInv, FlightInv, SendInv', TypeInv', UNCHANGED tx_next_ack, UNCHANGED rx_vars,
         \/ UNCHANGED data_air
         \/ \E p \in PduSet : p.sn \in DOMAIN tx_window' /\ Transmit(p)
  PROVE  FlightInv'
<1> DEFINE k == Len(data_air)
           H == TxMod(rx_next_highest)
           W == am_window_size
<1>1. UNCHANGED rx_next_highest /\ \A sn : Off(sn)' = Off(sn)
  BY DEF rx_vars, Off, TxMod
<1>2. TxMod(rx_next_highest)' = H
  BY <1>1 DEF TxMod
<1>3. CASE UNCHANGED data_air
  BY <1>1, <1>2, <1>3 DEF FlightInv, Off, TxMod
<1>4. ASSUME NEW p \in PduSet, p.sn \in DOMAIN tx_window', Transmit(p), data_air' # data_air
      PROVE  FlightInv'
  <2>1. data_air' = Append(data_air, p)
    BY <1>4 DEF Transmit
  <2>2. data_air \in Seq(PduSet) /\ k \in Nat
    BY DEF TypeInv, AirInv
  <2>3. Len(data_air') = k + 1 /\ data_air'[k + 1] = p /\ \A n \in 1..k : data_air'[n] = data_air[n]
    BY <2>1, <2>2
  <2>4. \A n \in 1..k : data_air[n].sn \in SN
    <3>1. \A n \in 1..k : data_air[n] \in PduSet
      BY <2>2
    <3>2. QED
      BY <3>1 DEF PduSet
  <2>5. p.sn \in SN
    BY DEF PduSet
  <2>6. /\ Top \in Nat /\ W \in Nat /\ Mod = 2 * W /\ H \in Nat /\ H <= Top /\ Top <= W
        /\ \A sn \in SN : TxMod(sn) \in Nat /\ TxMod(sn) < Mod
    BY Distances DEF ProtocolInv, SendInv, LinkInv
  <2>7. Off(p.sn) \in Nat
    <3>1. TxMod(p.sn)' < Top' /\ Top' <= W
      BY <1>4, <2>5 DEF SendInv
    <3>2. TxMod(p.sn)' = TxMod(p.sn)
      BY DEF TxMod
    <3>3. Top' \in Nat
      BY SentNext
    <3>4. TxMod(p.sn) < W
      BY <2>5, <2>6, <3>1, <3>2, <3>3
    <3>5. QED
      BY <2>5, <2>6, <3>4 DEF Off
  <2>8. ASSUME NEW sn \in SN PROVE Off(sn) \in Int /\ Off(sn) + 1 <= W
    <3> DEFINE d == TxMod(sn)
    <3>1. Off(sn) = IF d < W THEN d ELSE d - Mod
      BY DEF Off
    <3>2. d \in Nat /\ d < Mod
      BY <2>6
    <3> HIDE DEF d, W
    <3>3. QED
      BY <2>6, <3>1, <3>2
  <2>9. \A m \in 1..k : Off(data_air[m].sn) + 1 <= Off(p.sn) + W
    BY <2>4, <2>6, <2>7, <2>8
  <2>10. H <= Off(p.sn) + W
    BY <2>6, <2>7
  <2>11. \A n \in 1..k :
           /\ H <= Off(data_air[n].sn) + W
           /\ \A m \in 1..(n - 1) : Off(data_air[m].sn) + 1 <= Off(data_air[n].sn) + W
    BY DEF FlightInv
  <2> HIDE DEF H, W
  <2>12. ASSUME NEW n \in 1..(k + 1)
         PROVE  /\ H <= Off(data_air'[n].sn) + W
                /\ \A m \in 1..(n - 1) : Off(data_air'[m].sn) + 1 <= Off(data_air'[n].sn) + W
    <3>1. CASE n = k + 1
      <4>1. data_air'[n] = p /\ \A m \in 1..(n - 1) : m \in 1..k /\ data_air'[m] = data_air[m]
        BY <2>2, <2>3, <3>1
      <4>2. QED
        BY <2>9, <2>10, <4>1
    <3>2. CASE n \in 1..k
      <4>1. data_air'[n] = data_air[n] /\ \A m \in 1..(n - 1) : m \in 1..k /\ data_air'[m] = data_air[m]
        BY <2>2, <2>3, <3>2
      <4>2. QED
        BY <2>11, <3>2, <4>1
    <3>3. QED
      BY <2>2, <3>1, <3>2
  <2> DEFINE D(sn) == IF Ahead(sn, tx_next_ack') < W THEN Ahead(sn, tx_next_ack')
                      ELSE Ahead(sn, tx_next_ack') - Mod
  <2>13. \A sn : D(sn) = Off(sn)
    BY DEF Off, TxMod, W
  <2>14. Ahead(rx_next_highest', tx_next_ack') = H
    BY <1>1 DEF H, TxMod
  <2>15. ASSUME NEW n \in 1..Len(data_air')
         PROVE  /\ Ahead(rx_next_highest', tx_next_ack') <= D(data_air'[n].sn) + W
                /\ \A m \in 1..(n - 1) : D(data_air'[m].sn) + 1 <= D(data_air'[n].sn) + W
    BY <2>3, <2>12, <2>13, <2>14
  <2>16. QED
    BY <2>15 DEF FlightInv, Off, TxMod, W
<1>5. QED
  BY <1>3, <1>4

(* The window moves up under what is in flight.                             *)
LEMMA AdvancedFlight ==
  ASSUME TypeInv, ProtocolInv, FlightInv, NEW na, Advanced(na), UNCHANGED rx_vars, UNCHANGED data_air
  PROVE  FlightInv'
<1> DEFINE s == TxMod(na)
           R == TxMod(rx_next)
           H == TxMod(rx_next_highest)
           W == am_window_size
           D(sn) == IF Ahead(sn, na) < W THEN Ahead(sn, na) ELSE Ahead(sn, na) - Mod
<1>1. /\ na \in SN /\ tx_next_ack' = na /\ s <= R
      /\ UNCHANGED <<rx_next_highest, data_air>>
  BY DEF Advanced, rx_vars
<1>2. /\ tx_next_ack \in SN /\ rx_next_highest \in SN
      /\ W \in Nat /\ Mod = 2 * W /\ s \in Nat /\ R \in Nat /\ H \in Nat /\ Top \in Nat
      /\ \A sn \in SN : TxMod(sn) \in Nat /\ TxMod(sn) < Mod
  BY <1>1, Distances
<1>3. R <= H /\ H <= Top /\ Top <= W
  BY DEF ProtocolInv, LinkInv, SendInv
<1>4. Ahead(rx_next_highest, na) = H - s
  <2>1. Ahead(rx_next_highest, na) = IF H >= s THEN H - s ELSE H - s + Mod
    BY <1>1, <1>2, Rebase DEF TxMod
  <2>2. H >= s
    BY <1>1, <1>2, <1>3
  <2>3. QED
    BY <2>1, <2>2
<1>5. ASSUME NEW n \in 1..Len(data_air)
      PROVE  D(data_air[n].sn) = Off(data_air[n].sn) - s /\ Off(data_air[n].sn) \in Int
  <2> DEFINE sn == data_air[n].sn
             d == TxMod(sn)
             a == Ahead(sn, na)
  <2>1. sn \in SN
    <3>1. data_air[n] \in PduSet
      BY DEF TypeInv, AirInv
    <3>2. QED
      BY <3>1 DEF PduSet
  <2>2. d < W \/ R + W <= d
    BY FlightIsTimely DEF FlightInWindow, Timely
  <2>3. d \in Nat /\ d < Mod
    BY <1>2, <2>1
  <2>4. a = IF d >= s THEN d - s ELSE d - s + Mod
    BY <1>1, <1>2, <2>1, Rebase DEF TxMod
  <2>5. Off(sn) = IF d < W THEN d ELSE d - Mod
    BY DEF Off
  <2> HIDE DEF d, a, s, R, H, W
  <2>6. (IF a < W THEN a ELSE a - Mod) = Off(sn) - s /\ Off(sn) \in Int
    BY <1>1, <1>2, <1>3, <2>2, <2>3, <2>4, <2>5
  <2>7. QED
    BY <2>6 DEF a, d
<1>6. \A n \in 1..Len(data_air) :
        /\ H <= Off(data_air[n].sn) + W
        /\ \A m \in 1..(n - 1) : Off(data_air[m].sn) + 1 <= Off(data_air[n].sn) + W
  BY DEF FlightInv
<1>7. \A n \in 1..Len(data_air) : \A m \in 1..(n - 1) : m \in 1..Len(data_air)
  BY DEF TypeInv, AirInv
<1> HIDE DEF s, H, W, D, R
<1>8. ASSUME NEW n \in 1..Len(data_air)
      PROVE  /\ H - s <= D(data_air[n].sn) + W
             /\ \A m \in 1..(n - 1) : D(data_air[m].sn) + 1 <= D(data_air[n].sn) + W
  <2> DEFINE x == Off(data_air[n].sn)
  <2>1. D(data_air[n].sn) = x - s /\ x \in Int /\ H <= x + W
    BY <1>5, <1>6
  <2>2. ASSUME NEW m \in 1..(n - 1)
        PROVE  D(data_air[m].sn) + 1 <= D(data_air[n].sn) + W
    <3> DEFINE y == Off(data_air[m].sn)
    <3>1. D(data_air[m].sn) = y - s /\ y \in Int /\ y + 1 <= x + W
      BY <1>5, <1>6, <1>7
    <3> HIDE DEF x, y
    <3>2. QED
      BY <1>2, <2>1, <3>1
  <2> HIDE DEF x
  <2>3. H - s <= D(data_air[n].sn) + W
    BY <1>2, <2>1
  <2>4. QED
    BY <2>2, <2>3
<1>9. QED
  BY <1>1, <1>4, <1>8 DEF FlightInv, Off, TxMod, D, W

(* A data PDU arrives, the first one.                                       *)
LEMMA ReceivedFlight ==
  ASSUME TypeInv, ProtocolInv, FlightInv, ~Overtaking, HandleDataPdu, UNCHANGED tx_vars
  PROVE  FlightInv'
<1> DEFINE k == Len(data_air)
           H == TxMod(rx_next_highest)
           W == am_window_size
<1>1. PICK n \in 1..k :
        /\ Arrives(n)
        /\ IF Discarded(data_air[n]) THEN UNCHANGED rx_next_highest ELSE PlacePdu(data_air[n])
  BY DEF HandleDataPdu
<1>2. n = 1 /\ data_air' = Tail(data_air)
  BY <1>1 DEF Arrives
<1>3. data_air \in Seq(PduSet) /\ k \in Nat /\ k >= 1 /\ 1 \in 1..k
  BY <1>1 DEF TypeInv, AirInv
<1>4. Len(data_air') = k - 1 /\ \A m \in 1..(k - 1) : data_air'[m] = data_air[m + 1]
  BY <1>2, <1>3
<1>5. UNCHANGED tx_next_ack
  BY DEF tx_vars
<1> DEFINE p == data_air[1]
           HH == TxMod(rx_next_highest')
<1>6. HH = H \/ (HH = Off(p.sn) + 1)
  <2>1. CASE Discarded(p)
    BY <1>1, <1>2, <2>1
  <2>2. CASE ~Discarded(p)
    <3>1. p \in PduSet /\ CarriesSent(p) /\ Timely(p) /\ PlacePdu(p)
      BY <1>1, <1>2, <1>3, <2>2, FlightIsTimely DEF ProtocolInv, AirLink, FlightInWindow
    <3>2. TxMod(p.sn) < Top
      BY <2>2, <3>1, ArrivedInWindow DEF ProtocolInv
    <3>3. p.sn \in SN
      BY <3>1 DEF PduSet
    <3>4. /\ tx_next_ack \in SN /\ TxMod(p.sn) \in Nat /\ W \in Nat /\ Mod = 2 * W /\ W >= 2
          /\ Top \in Nat /\ Top <= W
      BY <3>3, Distances DEF ProtocolInv, SendInv
    <3>5. TxMod(p.sn) < W
      BY <3>2, <3>4
    <3>6. Off(p.sn) = TxMod(p.sn)
      BY <3>5 DEF Off
    <3>7. TxMod((p.sn + 1) % Mod) = IF TxMod(p.sn) = Mod - 1 THEN 0 ELSE TxMod(p.sn) + 1
      BY <3>3, <3>4, AheadIs DEF TxMod
    <3>8. TxMod((p.sn + 1) % Mod) = Off(p.sn) + 1
      BY <3>4, <3>5, <3>6, <3>7
    <3>9. PICK info, window, highest, next, complete : Placed(p, info, window, highest, next, complete)
      BY <3>1, PlacedIs
    <3>10. rx_next_highest' = (p.sn + 1) % Mod \/ rx_next_highest' = rx_next_highest
      BY <3>9 DEF Placed
    <3>11. QED
      BY <3>8, <3>10
  <2>3. QED
    BY <2>1, <2>2
<1>7. \A m \in 1..k :
        /\ H <= Off(data_air[m].sn) + W
        /\ \A j \in 1..(m - 1) : Off(data_air[j].sn) + 1 <= Off(data_air[m].sn) + W
  BY DEF FlightInv
<1> HIDE DEF k, H, HH, W
<1>8. ASSUME NEW m \in 1..(k - 1)
      PROVE  /\ HH <= Off(data_air'[m].sn) + W
             /\ \A j \in 1..(m - 1) : Off(data_air'[j].sn) + 1 <= Off(data_air'[m].sn) + W
  <2>1. m + 1 \in 1..k /\ 1 \in 1..((m + 1) - 1) /\ data_air'[m] = data_air[m + 1]
    BY <1>3, <1>4
  <2>2. H <= Off(data_air'[m].sn) + W /\ Off(p.sn) + 1 <= Off(data_air'[m].sn) + W
    BY <1>7, <2>1
  <2>3. ASSUME NEW j \in 1..(m - 1)
        PROVE  Off(data_air'[j].sn) + 1 <= Off(data_air'[m].sn) + W
    <3>1. j \in 1..(k - 1) /\ j + 1 \in 1..((m + 1) - 1)
      BY <1>3
    <3>2. data_air'[j] = data_air[j + 1]
      BY <1>4, <3>1
    <3>3. QED
      BY <1>7, <2>1, <3>1, <3>2
  <2>4. QED
    BY <1>6, <2>2, <2>3
<1> DEFINE D(sn) == IF Ahead(sn, tx_next_ack') < W THEN Ahead(sn, tx_next_ack')
                    ELSE Ahead(sn, tx_next_ack') - Mod
<1>9. /\ \A sn : D(sn) = Off(sn)
      /\ Ahead(rx_next_highest', tx_next_ack') = HH
  BY <1>5 DEF Off, TxMod, W, HH
<1>10. ASSUME NEW m \in 1..Len(data_air')
       PROVE  /\ Ahead(rx_next_highest', tx_next_ack') <= D(data_air'[m].sn) + W
              /\ \A j \in 1..(m - 1) : D(data_air'[j].sn) + 1 <= D(data_air'[m].sn) + W
  BY <1>4, <1>8, <1>9
<1>11. QED
  BY <1>10 DEF FlightInv, Off, TxMod, W

(* The steps of the sender keep what is in flight within a window.          *)
LEMMA SenderFlight ==
  ASSUME TypeInv, TypeInv', ProtocolInv, ProtocolInv', FlightInv, ~released, SenderStep, UNCHANGED rx_vars
  PROVE  FlightInv'
<1>1. TxInv
  BY DEF TypeInv
<1>2. ASSUME UNCHANGED tx_next_ack,
             \/ UNCHANGED data_air
             \/ \E p \in PduSet : p.sn \in DOMAIN tx_window' /\ Transmit(p)
      PROVE  FlightInv'
  BY <1>2, SentInFlight DEF ProtocolInv
<1>3. ASSUME NEW i \in Sdus, HandleSdu(i) \/ DiscardSdu(i)
      PROVE  FlightInv'
  BY <1>2, <1>3 DEF HandleSdu, DiscardSdu
<1>4. CASE UpdateMacBufferState
  BY <1>2, <1>4 DEF UpdateMacBufferState
<1>5. CASE OnExpiredPollRetransmitTimer
  BY <1>2, <1>5 DEF OnExpiredPollRetransmitTimer
<1>6. CASE HandleStatusPdu
  <2>1. PICK r : WellFormed(r) /\ status_air = <<r>>
    BY <1>6 DEF TypeInv, ReportTypes, HandleStatusPdu
  <2>2. UNCHANGED data_air /\ Head(status_air) = r
    BY <1>6, <2>1 DEF HandleStatusPdu
  <2>3. CASE ~Refused(r)
    BY <1>6, <2>1, <2>2, <2>3, StatusAdvances, AdvancedFlight
  <2>4. CASE Refused(r)
    <3>1. UNCHANGED tx_next_ack
      BY <1>6, <2>2, <2>4 DEF HandleStatusPdu, Refused
    <3>2. QED
      BY <1>2, <2>2, <3>1
  <2>5. QED
    BY <2>3, <2>4
<1>7. ASSUME NEW grant \in 0..MaxGrant, PullPdu(grant)
      PROVE  FlightInv'
  <2>1. grant \in Nat
    BY LinkAssumption
  <2>2. /\ tx_next \in SN
        /\ \A sn \in DOMAIN tx_window : sn \in SN /\ tx_window[sn].sdu \in Sdus
    BY Distances, SentIs
  <2>3. ASSUME NEW sn \in SN, NEW sdu \in Sdus, NEW so \in Nat, NEW len \in Nat \ {0}, NEW poll \in BOOLEAN,
               sn \in DOMAIN tx_window', Transmit(Pdu(sn, sdu, so, len, poll)), UNCHANGED tx_next_ack
        PROVE  FlightInv'
    <3>1. Pdu(sn, sdu, so, len, poll) \in PduSet /\ Pdu(sn, sdu, so, len, poll).sn = sn
      BY DEF Pdu, PduSet
    <3>2. QED
      BY <1>2, <2>3, <3>1
  <2>4. CASE BuildNewPdu(grant)
    <3>1. PICK sdu \in Sdus, info \in InfoSet, len \in Nat \ {0}, poll \in BOOLEAN :
            NewPdu(sdu, info, len, poll)
      BY <1>1, <2>1, <2>4, BuildNewIs
    <3>2. tx_next \in DOMAIN tx_window'
      BY <3>1 DEF NewPdu, WithEntry
    <3>3. QED
      BY <2>2, <2>3, <3>1, <3>2 DEF NewPdu
  <2>5. CASE BuildContinuedSduSegment(grant)
    <3>1. PICK info \in InfoSet, len \in Nat \ {0}, poll \in BOOLEAN : NextSegment(info, len, poll)
      BY <1>1, <2>1, <2>5, BuildContinuedIs
    <3>2. tx_next \in DOMAIN tx_window' /\ info.sdu \in Sdus /\ info.next_so \in Nat
      BY <3>1 DEF NextSegment, InfoSet
    <3>3. UNCHANGED tx_next_ack /\ Transmit(Pdu(tx_next, info.sdu, info.next_so, len, poll))
      BY <2>5, <3>1 DEF BuildContinuedSduSegment, NextSegment
    <3>4. QED
      BY <2>2, <2>3, <3>2, <3>3
  <2>6. CASE BuildRetxPdu(grant)
    <3>1. /\ UNCHANGED <<tx_next_ack, tx_window>>
          /\ \/ UNCHANGED <<retx_queue, data_air>>
             \/ \E len \in Nat \ {0}, poll \in BOOLEAN : RetxSent(len, poll)
      BY <1>1, <2>1, <2>6, BuildRetxIs
    <3>2. CASE UNCHANGED <<retx_queue, data_air>>
      BY <1>2, <3>1, <3>2
    <3>3. ASSUME NEW len \in Nat \ {0}, NEW poll \in BOOLEAN, RetxSent(len, poll)
          PROVE  FlightInv'
      <4> DEFINE r == retx_queue[1]
      <4>1. r \in RetxSet /\ r.sn \in DOMAIN tx_window
        <5>1. 1 \in 1..Len(retx_queue) /\ retx_queue \in Seq(RetxSet)
          BY <1>1, <3>3 DEF RetxSent, TxInv, RetxTypes
        <5>2. QED
          BY <1>1, <5>1 DEF TxInv, RetxTypes, Exists
      <4>2. r.sn \in SN /\ r.so \in Nat /\ tx_window[r.sn].sdu \in Sdus
        BY <2>2, <4>1 DEF RetxSet
      <4>3. Transmit(Pdu(r.sn, tx_window[r.sn].sdu, r.so, len, poll))
        BY <3>3 DEF RetxSent
      <4>4. QED
        BY <2>3, <3>1, <4>1, <4>2, <4>3
    <3>4. QED
      BY <3>1, <3>2, <3>3
  <2>7. CASE EmptyPull(grant)
    BY <1>2, <2>7 DEF EmptyPull
  <2>8. QED
    BY <1>7, <2>4, <2>5, <2>6, <2>7 DEF PullPdu
<1>8. QED
  BY <1>3, <1>4, <1>5, <1>6, <1>7 DEF SenderStep

(* So does every step.                                                      *)
LEMMA FlightStep ==
  ASSUME TypeInv, TypeInv', ProtocolInv, ProtocolInv', FlightInv, ~Overtaking, [Next]_vars
  PROVE  FlightInv'
<1>1. CASE ~released /\ SenderStep /\ UNCHANGED rx_vars
  BY <1>1, SenderFlight
<1>2. ASSUME UNCHANGED <<tx_next_ack, rx_next_highest, data_air>>
      PROVE  FlightInv'
  BY <1>2 DEF FlightInv, Off, TxMod
<1>3. CASE ReceiverStep /\ UNCHANGED tx_vars
  <2>1. UNCHANGED tx_next_ack
    BY <1>3 DEF tx_vars
  <2>2. CASE HandleDataPdu
    BY <1>3, <2>2, ReceivedFlight
  <2>3. CASE ~HandleDataPdu
    <3>1. UNCHANGED <<rx_next_highest, data_air>>
      BY <1>3, <2>3 DEF ReceiverStep, OnExpiredReassemblyTimer, GetStatusPdu, SendStatusPdu,
                        OnExpiredStatusProhibitTimer, UpdateOwnBufferState,
                        OtherDirection, rx_data_vars
    <3>2. QED
      BY <1>2, <2>1, <3>1
  <2>4. QED
    BY <2>2, <2>3
<1>4. CASE UNCHANGED vars
  BY <1>2, <1>4 DEF vars, tx_vars, rx_vars
<1>5. QED
  BY <1>1, <1>3, <1>4, StepSplits

(* Nothing is in flight initially.                                          *)
LEMMA FlightInitially ==
  ASSUME Init
  PROVE  FlightInv
  BY DEF Init, FlightInv

(* A radio that does not reorder keeps the data PDUs in flight within a     *)
(* window of what the receiver expects: inside_rx_window does not take a    *)
(* late retransmission for the first PDU of the next window.                *)
THEOREM InOrderFlight ==
  ASSUME ~Overtaking
  PROVE  Spec /\ [][KeptInTime]_vars => []FlightInWindow
<1> DEFINE Inv == ProtocolInv /\ FlightInv
<1>1. Init => Inv
  BY ProtocolInitially, FlightInitially
<1>2. TypeInv /\ TypeInv' /\ Inv /\ [Next]_vars /\ [KeptInTime]_vars => Inv'
  <2>1. SUFFICES ASSUME TypeInv, TypeInv', ProtocolInv, FlightInv, [Next]_vars, [KeptInTime]_vars
                 PROVE  ProtocolInv' /\ FlightInv'
    OBVIOUS
  <2>2. ReassemblyAssertions
    BY <2>1, TypesStep
  <2>3. ProtocolInv'
    BY <2>1, <2>2, FlightIsTimely, ProtocolStep
  <2>4. QED
    BY <2>1, <2>3, FlightStep
<1>3. TypeInv /\ Inv => FlightInWindow
  BY FlightIsTimely
<1>4. QED
  BY <1>1, <1>2, <1>3, TypesHold, PTL DEF Spec

(* handle_status_pdu and the receiver's checks do not call                  *)
(* on_protocol_failure: a report in flight acknowledges no SN that was not  *)
(* sent, and no data PDU carries bytes beyond its SDU.                      *)
THEOREM NoFailureHolds == Spec /\ []FlightInWindow /\ [][KeptInTime]_vars => []NoFailure
<1>1. TypeInv /\ ProtocolInv => NoFailure
  BY ProtocolIsSound
<1>2. QED
  BY <1>1, TypesHold, ProtocolHolds, PTL

(* The windows of the two ends stay within each other: the receiver never   *)
(* expects an SN before tx_next_ack or beyond what build_new_pdu numbered.  *)
THEOREM WindowsAgreeHolds == Spec /\ []FlightInWindow /\ [][KeptInTime]_vars => []WindowsAgree
<1>1. TypeInv /\ ProtocolInv => WindowsAgree
  BY ProtocolIsSound
<1>2. QED
  BY <1>1, TypesHold, ProtocolHolds, PTL

(* What handle_nack queues for retransmission, and what build_retx_pdu      *)
(* splits it into, are bytes of SDUs in the window that were sent before,   *)
(* and the SN under segmentation is the next one.                           *)
THEOREM RetxIsOfSentBytesHolds ==
  Spec /\ []FlightInWindow /\ [][KeptInTime]_vars => []RetxIsOfSentBytes
<1>1. TypeInv /\ ProtocolInv => RetxIsOfSentBytes
  BY ProtocolIsSound
<1>2. QED
  BY <1>1, TypesHold, ProtocolHolds, PTL

-----------------------------------------------------------------------------
(* What the bearer promises PDCP: SDUs are in the order in which they were *)
(* accepted, and the receiver delivers each once.  The internal queue holds *)
(* the discarded ones too, until a read drops them.                        *)

WindowOrder == \A sn, sm \in DOMAIN tx_window :
  TxMod(sn) < TxMod(sm) => tx_window[sn].sdu < tx_window[sm].sdu
QueueOrder == \A m, n \in 1..Len(sdu_queue) : m < n => sdu_queue[m] < sdu_queue[n]
QueueAfter == \A sn \in DOMAIN tx_window, m \in 1..Len(sdu_queue) : tx_window[sn].sdu < sdu_queue[m]
InWindow(i) == \E sn \in DOMAIN tx_window : tx_window[sn].sdu = i
InQueue(i) == \E m \in 1..Len(sdu_queue) : sdu_queue[m] = i
AcceptedIs == \A i \in Sdus :
  /\ upper[i] = "accepted" => InWindow(i) \/ InQueue(i)
  /\ InWindow(i) => upper[i] = "accepted"
  /\ InQueue(i) => upper[i] \in {"accepted", "discarded"}
NewLast == \A i, j \in Sdus : upper[i] = "new" /\ i < j => upper[j] = "new"

OrderInv == WindowOrder /\ QueueOrder /\ QueueAfter /\ AcceptedIs /\ NewLast

Taken(sn) == TxMod(sn) < TxMod(rx_next) \/ Received(rx_window, sn)

DeliveredInv ==
  /\ \A sn \in DOMAIN tx_window : delivered[tx_window[sn].sdu] = IF Taken(sn) THEN 1 ELSE 0
  /\ \A i \in Sdus : upper[i] = "new" => delivered[i] = 0
  /\ \A m \in 1..Len(sdu_queue) : delivered[sdu_queue[m]] = 0

ServiceInv == OrderInv /\ DeliveredInv
ServiceStep == [Peer!ServiceNext]_<<upper, delivered>>

(* An SDU has one SN, and is not in the queue when it has one.             *)
LEMMA OneSn ==
  ASSUME TypeInv, OrderInv, NEW sn \in DOMAIN tx_window
  PROVE  /\ \A sm \in DOMAIN tx_window : tx_window[sm].sdu = tx_window[sn].sdu => sm = sn
         /\ \A m \in 1..Len(sdu_queue) : sdu_queue[m] # tx_window[sn].sdu
         /\ tx_window[sn].sdu \in Sdus /\ upper[tx_window[sn].sdu] = "accepted"
<1>1. DOMAIN tx_window \subseteq SN /\ tx_next_ack \in SN /\ \A s \in SN : TxMod(s) \in Nat
  BY Distances
<1>2. \A s \in DOMAIN tx_window : tx_window[s].sdu \in Sdus /\ tx_window[s].sdu \in Nat
  BY SentIs DEF Sdus
<1>3. ASSUME NEW sm \in DOMAIN tx_window, tx_window[sm].sdu = tx_window[sn].sdu
      PROVE  sm = sn
  <2>1. ~(TxMod(sm) < TxMod(sn)) /\ ~(TxMod(sn) < TxMod(sm))
    BY <1>2, <1>3 DEF OrderInv, WindowOrder
  <2>2. TxMod(sm) = TxMod(sn)
    BY <1>1, <2>1
  <2>3. QED
    BY <1>1, <2>2, Rebase DEF TxMod
<1>4. \A m \in 1..Len(sdu_queue) : sdu_queue[m] # tx_window[sn].sdu
  BY <1>2 DEF OrderInv, QueueAfter
<1>5. upper[tx_window[sn].sdu] = "accepted"
  BY <1>2 DEF OrderInv, AcceptedIs, InWindow
<1>6. QED
  BY <1>2, <1>3, <1>4, <1>5

(* A step that is none of the service's.                                    *)
LEMMA SameService ==
  ASSUME TypeInv, ServiceInv, UNCHANGED <<upper, sdu_queue, tx_next_ack>>, UNCHANGED rx_vars,
         DOMAIN tx_window' = DOMAIN tx_window,
         \A sn \in DOMAIN tx_window : tx_window'[sn].sdu = tx_window[sn].sdu
  PROVE  ServiceInv' /\ ServiceStep
<1>1. UNCHANGED <<rx_next, rx_window, delivered>>
  BY DEF rx_vars
<1>2. OrderInv'
  <2>1. WindowOrder' /\ QueueOrder' /\ QueueAfter' /\ NewLast'
    BY DEF ServiceInv, OrderInv, WindowOrder, QueueOrder, QueueAfter, NewLast, TxMod
  <2>2. AcceptedIs'
    BY DEF ServiceInv, OrderInv, AcceptedIs, InWindow, InQueue
  <2>3. QED
    BY <2>1, <2>2 DEF OrderInv
<1>3. DeliveredInv'
  BY <1>1 DEF ServiceInv, DeliveredInv, Taken, Received, TxMod
<1>4. QED
  BY <1>1, <1>2, <1>3 DEF ServiceInv, ServiceStep

(* handle_sdu.                                                             *)
LEMMA OfferedService ==
  ASSUME TypeInv, ServiceInv, NEW i \in Sdus, HandleSdu(i), UNCHANGED rx_vars
  PROVE  ServiceInv' /\ ServiceStep
<1> DEFINE k == Len(sdu_queue)
<1>1. UNCHANGED <<rx_next, rx_window, delivered>>
  BY DEF rx_vars
<1>2. /\ upper[i] = "new" /\ \A j \in 1..(i - 1) : upper[j] # "new"
      /\ \/ sdu_queue' = Append(sdu_queue, i) /\ upper' = [upper EXCEPT ![i] = "accepted"]
         \/ sdu_queue' = sdu_queue /\ upper' = [upper EXCEPT ![i] = "dropped"]
      /\ UNCHANGED <<tx_next_ack, tx_window>>
  BY DEF HandleSdu
<1>3. /\ upper \in [Sdus -> UpperStates] /\ sdu_queue \in Seq(Sdus) /\ k \in Nat
      /\ \A m \in 1..k : sdu_queue[m] \in Sdus
      /\ \A j \in Sdus : j \in Nat
  BY DEF TypeInv, TxInv, TxTypes, Sdus
<1>4. ASSUME NEW j \in Sdus, upper[j] # "new" PROVE j < i
  <2>1. ~(i < j) /\ i # j
    BY <1>2, <1>4 DEF ServiceInv, OrderInv, NewLast
  <2>2. QED
    BY <1>3, <2>1
<1>5. \A j \in Sdus : j # i => upper'[j] = upper[j]
  BY <1>2, <1>3
<1>6. upper'[i] # "new"
  BY <1>2, <1>3
<1>7. NewLast'
  <2>1. SUFFICES ASSUME NEW a \in Sdus, NEW b \in Sdus, upper'[a] = "new", a < b
                 PROVE  upper'[b] = "new"
    BY DEF NewLast
  <2>2. a # i /\ upper[a] = "new"
    BY <1>5, <1>6, <2>1
  <2>3. upper[b] = "new"
    BY <2>1, <2>2 DEF ServiceInv, OrderInv, NewLast
  <2>4. b # i
    <3>1. b = i => a \in 1..(i - 1)
      BY <1>3, <2>1 DEF Sdus
    <3>2. QED
      BY <1>2, <2>2, <3>1
  <2>5. QED
    BY <1>5, <2>3, <2>4
<1>8. WindowOrder'
  BY <1>2 DEF ServiceInv, OrderInv, WindowOrder, TxMod
<1>9. /\ \A sn \in DOMAIN tx_window' : delivered'[tx_window'[sn].sdu] = IF Taken(sn)' THEN 1 ELSE 0
      /\ \A j \in Sdus : upper'[j] = "new" => delivered'[j] = 0
      /\ delivered[i] = 0
  BY <1>1, <1>2, <1>5, <1>6 DEF ServiceInv, DeliveredInv, Taken, Received, TxMod
<1>10. ServiceStep
  <2>1. Peer!Offer(i)
    <3>1. \E answer \in {"accepted", "dropped"} : upper' = [upper EXCEPT ![i] = answer]
      BY <1>2
    <3>2. QED
      BY <1>1, <1>2, <3>1 DEF Peer!Offer
  <2>2. QED
    BY <2>1 DEF ServiceStep, Peer!ServiceNext, Peer!ServiceSdus, Sdus
<1>11. \A j \in Sdus : InWindow(j)' <=> InWindow(j)
  BY <1>2 DEF InWindow
<1>12. CASE sdu_queue' = sdu_queue /\ upper' = [upper EXCEPT ![i] = "dropped"]
  <2>1. QueueOrder' /\ QueueAfter'
    BY <1>2, <1>12 DEF ServiceInv, OrderInv, QueueOrder, QueueAfter
  <2>2. \A j \in Sdus : InQueue(j)' <=> InQueue(j)
    BY <1>12 DEF InQueue
  <2>3. AcceptedIs'
    <3>1. ~InWindow(i) /\ ~InQueue(i) /\ upper'[i] # "accepted"
      BY <1>2, <1>3, <1>12 DEF ServiceInv, OrderInv, AcceptedIs
    <3>2. ASSUME NEW j \in Sdus
          PROVE  /\ upper'[j] = "accepted" => InWindow(j)' \/ InQueue(j)'
                 /\ InWindow(j)' => upper'[j] = "accepted"
                 /\ InQueue(j)' => upper'[j] \in {"accepted", "discarded"}
      BY <1>5, <1>11, <2>2, <3>1 DEF ServiceInv, OrderInv, AcceptedIs
    <3>3. QED
      BY <3>2 DEF AcceptedIs
  <2>4. DeliveredInv'
    BY <1>1, <1>9, <1>12 DEF ServiceInv, DeliveredInv
  <2>5. QED
    BY <1>7, <1>8, <1>10, <2>1, <2>3, <2>4 DEF ServiceInv, OrderInv
<1>13. CASE sdu_queue' = Append(sdu_queue, i) /\ upper' = [upper EXCEPT ![i] = "accepted"]
  <2>1. Len(sdu_queue') = k + 1 /\ sdu_queue'[k + 1] = i /\ \A m \in 1..k : sdu_queue'[m] = sdu_queue[m]
    BY <1>3, <1>13
  <2>2. \A m \in 1..k : sdu_queue[m] < i
    <3>1. \A m \in 1..k : sdu_queue[m] \in Sdus /\ upper[sdu_queue[m]] # "new"
      BY <1>3 DEF ServiceInv, OrderInv, AcceptedIs, InQueue
    <3>2. QED
      BY <1>4, <3>1
  <2>3. \A sn \in DOMAIN tx_window : tx_window[sn].sdu < i
    BY <1>4, OneSn DEF ServiceInv
  <2>4. \A m \in 1..(k + 1) : m \in 1..k \/ m = k + 1
    BY <1>3
  <2>5. QueueOrder'
    <3>1. SUFFICES ASSUME NEW m \in 1..(k + 1), NEW n \in 1..(k + 1), m < n
                   PROVE  sdu_queue'[m] < sdu_queue'[n]
      BY <2>1 DEF QueueOrder
    <3>2. m \in 1..k
      BY <1>3, <3>1
    <3>3. CASE n \in 1..k
      BY <2>1, <3>1, <3>2, <3>3 DEF ServiceInv, OrderInv, QueueOrder
    <3>4. CASE n = k + 1
      BY <2>1, <2>2, <3>2, <3>4
    <3>5. QED
      BY <2>4, <3>3, <3>4
  <2>6. QueueAfter'
    <3>1. SUFFICES ASSUME NEW sn \in DOMAIN tx_window, NEW m \in 1..(k + 1)
                   PROVE  tx_window[sn].sdu < sdu_queue'[m]
      BY <1>2, <2>1 DEF QueueAfter
    <3>2. CASE m \in 1..k
      BY <2>1, <3>2 DEF ServiceInv, OrderInv, QueueAfter
    <3>3. CASE m = k + 1
      BY <2>1, <2>3, <3>3
    <3>4. QED
      BY <2>4, <3>2, <3>3
  <2>7. \A j \in Sdus : InQueue(j)' <=> InQueue(j) \/ j = i
    <3>1. ASSUME NEW j \in Sdus, InQueue(j) PROVE InQueue(j)'
      <4>1. PICK m \in 1..k : sdu_queue[m] = j
        BY <3>1 DEF InQueue
      <4>2. m \in 1..(k + 1) /\ sdu_queue'[m] = j
        BY <1>3, <2>1, <4>1
      <4>3. QED
        BY <2>1, <4>2 DEF InQueue
    <3>2. InQueue(i)'
      <4>1. k + 1 \in 1..(k + 1)
        BY <1>3
      <4>2. QED
        BY <2>1, <4>1 DEF InQueue
    <3>3. ASSUME NEW j \in Sdus, InQueue(j)' PROVE InQueue(j) \/ j = i
      BY <2>1, <2>4, <3>3 DEF InQueue
    <3>4. QED
      BY <3>1, <3>2, <3>3
  <2>8. AcceptedIs'
    <3>1. upper'[i] = "accepted"
      BY <1>3, <1>13
    <3>2. ASSUME NEW j \in Sdus
          PROVE  /\ upper'[j] = "accepted" => InWindow(j)' \/ InQueue(j)'
                 /\ InWindow(j)' => upper'[j] = "accepted"
                 /\ InQueue(j)' => upper'[j] \in {"accepted", "discarded"}
      BY <1>5, <1>11, <2>7, <3>1 DEF ServiceInv, OrderInv, AcceptedIs
    <3>3. QED
      BY <3>2 DEF AcceptedIs
  <2>9. \A m \in 1..(k + 1) : delivered'[sdu_queue'[m]] = 0
    BY <1>1, <1>9, <2>1, <2>4 DEF ServiceInv, DeliveredInv
  <2>10. DeliveredInv'
    BY <1>9, <2>1, <2>9 DEF DeliveredInv
  <2>11. QED
    BY <1>7, <1>8, <1>10, <2>5, <2>6, <2>8, <2>10 DEF ServiceInv, OrderInv
<1>14. QED
  BY <1>2, <1>12, <1>13

(* discard_sdu.                                                            *)
LEMMA DiscardedService ==
  ASSUME TypeInv, ServiceInv, NEW i \in Sdus, DiscardSdu(i), UNCHANGED rx_vars
  PROVE  ServiceInv' /\ ServiceStep
<1>1. UNCHANGED <<rx_next, rx_window, delivered>>
  BY DEF rx_vars
<1>2. /\ upper[i] = "accepted" /\ InQueue(i) /\ upper' = [upper EXCEPT ![i] = "discarded"]
      /\ UNCHANGED <<sdu_queue, tx_next_ack, tx_window>>
  BY DEF DiscardSdu, InQueue
<1>3. upper'[i] = "discarded" /\ \A j \in Sdus : j # i => upper'[j] = upper[j]
  BY <1>2 DEF TypeInv, TxInv, TxTypes
<1>4. delivered[i] = 0 /\ ~InWindow(i)
  <2>1. PICK m \in 1..Len(sdu_queue) : sdu_queue[m] = i
    BY <1>2 DEF InQueue
  <2>2. QED
    BY <2>1, OneSn DEF ServiceInv, DeliveredInv, InWindow
<1>5. WindowOrder' /\ QueueOrder' /\ QueueAfter'
  BY <1>2 DEF ServiceInv, OrderInv, WindowOrder, QueueOrder, QueueAfter, TxMod
<1>6. NewLast'
  <2>1. \A j \in Sdus : upper'[j] = "new" <=> upper[j] = "new"
    BY <1>2, <1>3
  <2>2. QED
    BY <2>1 DEF ServiceInv, OrderInv, NewLast
<1>7. AcceptedIs'
  <2>1. \A j \in Sdus : (InWindow(j)' <=> InWindow(j)) /\ (InQueue(j)' <=> InQueue(j))
    BY <1>2 DEF InWindow, InQueue
  <2>2. ASSUME NEW j \in Sdus
        PROVE  /\ upper'[j] = "accepted" => InWindow(j)' \/ InQueue(j)'
               /\ InWindow(j)' => upper'[j] = "accepted"
               /\ InQueue(j)' => upper'[j] \in {"accepted", "discarded"}
    BY <1>3, <1>4, <2>1 DEF ServiceInv, OrderInv, AcceptedIs
  <2>3. QED
    BY <2>2 DEF AcceptedIs
<1>8. DeliveredInv'
  <2>1. \A sn \in DOMAIN tx_window' : delivered'[tx_window'[sn].sdu] = IF Taken(sn)' THEN 1 ELSE 0
    BY <1>1, <1>2 DEF ServiceInv, DeliveredInv, Taken, Received, TxMod
  <2>2. \A j \in Sdus : upper'[j] = "new" => delivered'[j] = 0
    BY <1>1, <1>3 DEF ServiceInv, DeliveredInv
  <2>3. \A m \in 1..Len(sdu_queue') : delivered'[sdu_queue'[m]] = 0
    BY <1>1, <1>2 DEF ServiceInv, DeliveredInv
  <2>4. QED
    BY <2>1, <2>2, <2>3 DEF DeliveredInv
<1>9. ServiceStep
  <2>1. Peer!Discard(i)
    BY <1>1, <1>2, <1>4 DEF Peer!Discard
  <2>2. QED
    BY <2>1 DEF ServiceStep, Peer!ServiceNext, Peer!ServiceSdus, Sdus
<1>10. QED
  BY <1>5, <1>6, <1>7, <1>8, <1>9 DEF ServiceInv, OrderInv

(* A pull that finds only discarded SDUs in the queue.                     *)
LEMMA EmptyService ==
  ASSUME TypeInv, ServiceInv, NEW grant, EmptyPull(grant), UNCHANGED rx_vars
  PROVE  ServiceInv' /\ ServiceStep
<1>1. UNCHANGED <<rx_next, rx_window, delivered, upper, tx_next_ack, tx_window>>
  BY DEF rx_vars, EmptyPull
<1>2. CASE sdu_queue' = sdu_queue
  BY <1>1, <1>2, SameService
<1>3. CASE sdu_queue' = <<>>
  <2>1. Len(sdu_queue') = 0 /\ ~ \E m \in 1..Len(sdu_queue') : TRUE
    BY <1>3
  <2>2. WindowOrder' /\ QueueOrder' /\ QueueAfter' /\ NewLast'
    BY <1>1, <2>1 DEF ServiceInv, OrderInv, WindowOrder, QueueOrder, QueueAfter, NewLast, TxMod
  <2>3. AcceptedIs'
    <3>1. \A i \in Sdus : InQueue(i) => upper[i] = "discarded"
      BY DEF EmptyPull, InQueue
    <3>2. \A i \in Sdus : (InWindow(i)' <=> InWindow(i)) /\ ~InQueue(i)'
      BY <1>1, <2>1 DEF InWindow, InQueue
    <3>3. ASSUME NEW i \in Sdus
          PROVE  /\ upper'[i] = "accepted" => InWindow(i)' \/ InQueue(i)'
                 /\ InWindow(i)' => upper'[i] = "accepted"
                 /\ InQueue(i)' => upper'[i] \in {"accepted", "discarded"}
      BY <1>1, <3>1, <3>2 DEF ServiceInv, OrderInv, AcceptedIs
    <3>4. QED
      BY <3>3 DEF AcceptedIs
  <2>4. DeliveredInv'
    <3>1. \A sn \in DOMAIN tx_window' : delivered'[tx_window'[sn].sdu] = IF Taken(sn)' THEN 1 ELSE 0
      BY <1>1 DEF ServiceInv, DeliveredInv, Taken, Received, TxMod
    <3>2. \A j \in Sdus : upper'[j] = "new" => delivered'[j] = 0
      BY <1>1 DEF ServiceInv, DeliveredInv
    <3>3. QED
      BY <2>1, <3>1, <3>2 DEF DeliveredInv
  <2>5. QED
    BY <1>1, <2>2, <2>3, <2>4 DEF ServiceInv, OrderInv, ServiceStep
<1>4. QED
  BY <1>2, <1>3 DEF EmptyPull

(* build_new_pdu: the first SDU of the queue that is not discarded gets the *)
(* next SN.                                                                *)
LEMMA NewService ==
  ASSUME TypeInv, SendInv, LinkInv, ServiceInv, NEW sdu \in Sdus, NEW info \in InfoSet,
         NEW len \in Nat \ {0}, NEW poll \in BOOLEAN, NewPdu(sdu, info, len, poll), UNCHANGED rx_vars
  PROVE  ServiceInv' /\ ServiceStep
<1> DEFINE k == Len(sdu_queue)
<1>1. UNCHANGED <<rx_next, rx_window, delivered>>
  BY DEF rx_vars
<1>2. /\ UNCHANGED <<upper, tx_next_ack>>
      /\ sn_under_segmentation \notin DOMAIN tx_window
      /\ tx_window' = WithEntry(tx_window, tx_next, info) /\ info.sdu = sdu
  BY DEF NewPdu
<1>3. PICK n \in 1..k : Reads(n) /\ sdu = sdu_queue[n] /\ sdu_queue' = SubSeq(sdu_queue, n + 1, k)
  BY DEF NewPdu
<1>4. /\ k \in Nat /\ n \in Nat /\ n \in 1..k /\ Len(sdu_queue') = k - n
      /\ \A m \in 1..(k - n) : m + n \in 1..k /\ sdu_queue'[m] = sdu_queue[m + n]
  <2>1. sdu_queue \in Seq(Sdus)
    BY DEF TypeInv, TxInv, TxTypes
  <2>2. Len(sdu_queue') = k - n /\ \A m \in 1..Len(sdu_queue') : sdu_queue'[m] = sdu_queue[m + n] /\ m + n \in 1..k
    BY <1>3, <2>1, ReadLeaves
  <2>3. QED
    BY <2>1, <2>2
<1>5. /\ tx_next \in SN /\ tx_next_ack \in SN /\ rx_next \in SN /\ DOMAIN tx_window \subseteq SN
      /\ \A sn \in SN : TxMod(sn) \in Nat
  BY Distances
<1>6. tx_next \notin DOMAIN tx_window /\ \A sn \in DOMAIN tx_window : TxMod(sn) < TxMod(tx_next)
  <2>1. ~Segmenting
    BY <1>2, <1>5 DEF SendInv, Top
  <2>2. QED
    BY <1>5, <2>1 DEF SendInv, Top
<1>7. /\ DOMAIN tx_window' = DOMAIN tx_window \cup {tx_next}
      /\ tx_window'[tx_next].sdu = sdu
      /\ \A sn \in DOMAIN tx_window : sn # tx_next /\ tx_window'[sn] = tx_window[sn]
  BY <1>2, <1>6 DEF WithEntry
<1>8. \A sn \in SN : TxMod(sn)' = TxMod(sn)
  BY <1>2 DEF TxMod
<1>9. \A sn \in DOMAIN tx_window : tx_window[sn].sdu < sdu
  BY <1>3 DEF ServiceInv, OrderInv, QueueAfter
<1>10. WindowOrder'
  <2>1. SUFFICES ASSUME NEW a \in DOMAIN tx_window', NEW b \in DOMAIN tx_window', TxMod(a)' < TxMod(b)'
                 PROVE  tx_window'[a].sdu < tx_window'[b].sdu
    BY DEF WindowOrder, TxMod
  <2>2. a \in SN /\ b \in SN
    BY <1>5, <1>7
  <2>3. TxMod(a) < TxMod(b)
    BY <1>8, <2>1, <2>2
  <2>4. a \in DOMAIN tx_window
    <3>1. CASE b = tx_next
      BY <1>5, <1>7, <2>2, <2>3, <3>1
    <3>2. CASE b \in DOMAIN tx_window
      BY <1>5, <1>6, <1>7, <2>2, <2>3, <3>2
    <3>3. QED
      BY <1>7, <3>1, <3>2
  <2>5. CASE b = tx_next
    BY <1>7, <1>9, <2>4, <2>5
  <2>6. CASE b \in DOMAIN tx_window
    BY <1>7, <2>3, <2>4, <2>6 DEF ServiceInv, OrderInv, WindowOrder
  <2>7. QED
    BY <1>7, <2>5, <2>6
<1>11. QueueOrder'
  <2>1. ASSUME NEW m \in 1..(k - n), NEW l \in 1..(k - n), m < l
        PROVE  sdu_queue'[m] < sdu_queue'[l]
    <3>1. m + n < l + n
      BY <1>4, <2>1
    <3>2. QED
      BY <1>4, <3>1 DEF ServiceInv, OrderInv, QueueOrder
  <2>2. QED
    BY <1>4, <2>1 DEF QueueOrder
<1>12. QueueAfter'
  <2>1. ASSUME NEW m \in 1..(k - n), NEW sn \in DOMAIN tx_window'
        PROVE  tx_window'[sn].sdu < sdu_queue'[m]
    <3>1. CASE sn \in DOMAIN tx_window
      BY <1>4, <1>7, <3>1 DEF ServiceInv, OrderInv, QueueAfter
    <3>2. CASE sn = tx_next
      <4>1. n < m + n /\ m + n \in 1..k
        BY <1>4
      <4>2. sdu_queue[n] < sdu_queue[m + n]
        BY <1>4, <4>1 DEF ServiceInv, OrderInv, QueueOrder
      <4>3. QED
        BY <1>3, <1>4, <1>7, <3>2, <4>2
    <3>3. QED
      BY <1>7, <3>1, <3>2
  <2>2. QED
    BY <1>4, <2>1 DEF QueueAfter
<1>13. \A j \in Sdus : InWindow(j)' <=> InWindow(j) \/ j = sdu
  <2>1. ASSUME NEW j \in Sdus, InWindow(j) PROVE InWindow(j)'
    BY <1>7, <2>1 DEF InWindow
  <2>2. InWindow(sdu)'
    BY <1>7 DEF InWindow
  <2>3. ASSUME NEW j \in Sdus, InWindow(j)' PROVE InWindow(j) \/ j = sdu
    BY <1>7, <2>3 DEF InWindow
  <2>4. QED
    BY <2>1, <2>2, <2>3
<1>14. AcceptedIs' /\ NewLast'
  <2>1. InQueue(sdu) /\ upper[sdu] = "accepted"
    <3>1. InQueue(sdu) /\ upper[sdu] # "discarded"
      BY <1>3 DEF InQueue, Reads
    <3>2. QED
      BY <3>1 DEF ServiceInv, OrderInv, AcceptedIs
  <2>2. ASSUME NEW j \in Sdus, InQueue(j)' PROVE InQueue(j)
    <3>1. PICK m \in 1..(k - n) : sdu_queue'[m] = j
      BY <1>4, <2>2 DEF InQueue
    <3>2. QED
      BY <1>4, <3>1 DEF InQueue
  <2>3. ASSUME NEW j \in Sdus, upper[j] = "accepted", InQueue(j), j # sdu PROVE InQueue(j)'
    <3>1. PICK m \in 1..k : sdu_queue[m] = j
      BY <2>3 DEF InQueue
    <3>2. ~(m < n)
      <4>1. m < n => m \in 1..(n - 1)
        BY <1>4
      <4>2. QED
        BY <1>3, <2>3, <3>1, <4>1 DEF Reads
    <3>3. m # n
      BY <1>3, <2>3, <3>1
    <3>4. m - n \in 1..(k - n) /\ (m - n) + n = m
      BY <1>4, <3>2, <3>3
    <3>5. sdu_queue'[m - n] = j
      BY <1>4, <3>1, <3>4
    <3>6. QED
      BY <1>4, <3>4, <3>5 DEF InQueue
  <2>4. ASSUME NEW j \in Sdus
        PROVE  /\ upper'[j] = "accepted" => InWindow(j)' \/ InQueue(j)'
               /\ InWindow(j)' => upper'[j] = "accepted"
               /\ InQueue(j)' => upper'[j] \in {"accepted", "discarded"}
    <3>1. /\ upper[j] = "accepted" => InWindow(j) \/ InQueue(j)
          /\ InWindow(j) => upper[j] = "accepted"
          /\ InQueue(j) => upper[j] \in {"accepted", "discarded"}
      BY DEF ServiceInv, OrderInv, AcceptedIs
    <3>2. QED
      BY <1>2, <1>13, <2>1, <2>2, <2>3, <3>1
  <2>5. AcceptedIs'
    BY <2>4 DEF AcceptedIs
  <2>6. NewLast'
    BY <1>2 DEF ServiceInv, OrderInv, NewLast
  <2>7. QED
    BY <2>5, <2>6
<1>15. \A sn \in SN : Taken(sn)' <=> Taken(sn)
  BY <1>1, <1>2 DEF Taken, Received, TxMod
<1>16. delivered[sdu] = 0 /\ ~Taken(tx_next)
  <2>1. delivered[sdu] = 0
    BY <1>3 DEF ServiceInv, DeliveredInv
  <2>2. tx_next \notin DOMAIN rx_window
    BY <1>6, HeldInWindow
  <2>3. ~(TxMod(tx_next) < TxMod(rx_next))
    BY <1>5 DEF LinkInv
  <2>4. QED
    BY <2>1, <2>2, <2>3 DEF Taken, Received
<1>17. DeliveredInv'
  <2>1. ASSUME NEW sn \in DOMAIN tx_window'
        PROVE  delivered'[tx_window'[sn].sdu] = IF Taken(sn)' THEN 1 ELSE 0
    <3>1. CASE sn \in DOMAIN tx_window
      <4>1. delivered[tx_window[sn].sdu] = IF Taken(sn) THEN 1 ELSE 0
        BY <3>1 DEF ServiceInv, DeliveredInv
      <4>2. QED
        BY <1>1, <1>5, <1>7, <1>15, <3>1, <4>1
    <3>2. CASE sn = tx_next
      BY <1>1, <1>5, <1>7, <1>15, <1>16, <3>2
    <3>3. QED
      BY <1>7, <3>1, <3>2
  <2>2. \A j \in Sdus : upper'[j] = "new" => delivered'[j] = 0
    BY <1>1, <1>2 DEF ServiceInv, DeliveredInv
  <2>3. \A m \in 1..(k - n) : delivered'[sdu_queue'[m]] = 0
    <3>1. \A l \in 1..k : delivered[sdu_queue[l]] = 0
      BY DEF ServiceInv, DeliveredInv
    <3>2. QED
      BY <1>1, <1>4, <3>1
  <2>4. QED
    BY <1>4, <2>1, <2>2, <2>3 DEF DeliveredInv
<1>18. QED
  BY <1>1, <1>2, <1>10, <1>11, <1>12, <1>14, <1>17 DEF ServiceInv, OrderInv, ServiceStep

(* The steps of the sender other than handle_status_pdu.                   *)
LEMMA SenderService ==
  ASSUME TypeInv, SendInv, LinkInv, ServiceInv, ~HandleStatusPdu, SenderStep, UNCHANGED rx_vars
  PROVE  ServiceInv' /\ ServiceStep
<1>1. TxInv
  BY DEF TypeInv
<1>2. ASSUME NEW i \in Sdus, HandleSdu(i) \/ DiscardSdu(i)
      PROVE  ServiceInv' /\ ServiceStep
  BY <1>2, OfferedService, DiscardedService
<1>3. ASSUME NEW grant \in 0..MaxGrant, PullPdu(grant)
      PROVE  ServiceInv' /\ ServiceStep
  <2>1. grant \in Nat
    BY LinkAssumption
  <2>2. CASE BuildNewPdu(grant)
    <3>1. PICK sdu \in Sdus, info \in InfoSet, len \in Nat \ {0}, poll \in BOOLEAN :
            NewPdu(sdu, info, len, poll)
      BY <1>1, <2>1, <2>2, BuildNewIs
    <3>2. QED
      BY <3>1, NewService
  <2>3. CASE BuildContinuedSduSegment(grant)
    <3>1. PICK info \in InfoSet, len \in Nat \ {0}, poll \in BOOLEAN : NextSegment(info, len, poll)
      BY <1>1, <2>1, <2>3, BuildContinuedIs
    <3>2. /\ UNCHANGED <<upper, sdu_queue, tx_next_ack>>
          /\ tx_window' \in [DOMAIN tx_window -> InfoSet]
          /\ \A s \in DOMAIN tx_window : tx_window'[s].sdu = tx_window[s].sdu
      BY <3>1 DEF NextSegment
    <3>3. DOMAIN tx_window' = DOMAIN tx_window
      BY <3>2
    <3>4. QED
      BY <3>2, <3>3, SameService
  <2>4. CASE BuildRetxPdu(grant)
    <3>1. UNCHANGED <<upper, sdu_queue, tx_next_ack, tx_window>>
      BY <1>1, <2>1, <2>4, BuildRetxIs
    <3>2. QED
      BY <3>1, SameService
  <2>5. CASE EmptyPull(grant)
    BY <2>5, EmptyService
  <2>6. QED
    BY <1>3, <2>2, <2>3, <2>4, <2>5 DEF PullPdu
<1>4. CASE UpdateMacBufferState
  <2>1. UNCHANGED <<upper, sdu_queue, tx_next_ack, tx_window>>
    BY <1>4 DEF UpdateMacBufferState
  <2>2. QED
    BY <2>1, SameService
<1>5. CASE OnExpiredPollRetransmitTimer
  <2>1. UNCHANGED <<upper, sdu_queue, tx_next_ack>>
    BY <1>5 DEF OnExpiredPollRetransmitTimer
  <2>2. SameWindow
    BY <1>5, PollGrows
  <2>3. QED
    BY <2>1, <2>2, SameService DEF SameWindow
<1>6. QED
  BY <1>2, <1>3, <1>4, <1>5 DEF SenderStep

(* handle_status_pdu: the SDUs up to the last one that is confirmed, all of *)
(* which were delivered.                                                    *)
LEMMA AdvancedService ==
  ASSUME TypeInv, SendInv, LinkInv, ServiceInv, NEW na, Advanced(na), UNCHANGED rx_vars,
         UNCHANGED sdu_queue,
         upper' = [i \in Sdus |->
                     IF \E sn \in {sn \in SN : TxMod(sn) < TxMod(na)} : tx_window[sn].sdu = i
                     THEN "confirmed" ELSE upper[i]]
  PROVE  ServiceInv' /\ ServiceStep
<1> DEFINE s == TxMod(na)
           R == TxMod(rx_next)
           Gone(i) == \E sn \in DOMAIN tx_window : TxMod(sn) < s /\ tx_window[sn].sdu = i
<1>1. UNCHANGED <<rx_next, rx_window, delivered>>
  BY DEF rx_vars
<1>2. /\ na \in SN /\ tx_next_ack' = na /\ s <= R
      /\ \A sn : sn \in DOMAIN tx_window' <=> sn \in DOMAIN tx_window /\ ~(TxMod(sn) < s)
      /\ \A sn \in DOMAIN tx_window' : tx_window'[sn].sdu = tx_window[sn].sdu
  BY DEF Advanced
<1>3. /\ tx_next_ack \in SN /\ tx_next \in SN /\ rx_next \in SN
      /\ DOMAIN tx_window \subseteq SN /\ Top \in Nat
      /\ \A sn \in SN : TxMod(sn) \in Nat /\ TxMod(sn) < Mod
      /\ Mod \in Nat
  BY Distances
<1>4. s \in Nat /\ R \in Nat /\ R <= Top
  <2>1. R <= TxMod(tx_next)
    BY DEF LinkInv
  <2>2. TxMod(tx_next) \in Nat /\ s \in Nat /\ R \in Nat
    BY <1>2, <1>3
  <2>3. TxMod(tx_next) <= Top
    BY <2>2 DEF Top
  <2> HIDE DEF s, R
  <2>4. QED
    BY <1>3, <2>1, <2>2, <2>3
<1>5. \A sn \in SN : TxMod(sn) < s => sn \in DOMAIN tx_window /\ Taken(sn)
  <2>1. ASSUME NEW sn \in SN, TxMod(sn) < s PROVE TxMod(sn) < R /\ TxMod(sn) < Top
    <3>1. TxMod(sn) \in Nat
      BY <1>3
    <3> HIDE DEF s, R
    <3>2. QED
      BY <1>2, <1>3, <1>4, <2>1, <3>1
  <2>2. QED
    BY <2>1 DEF SendInv, Taken
<1>6. /\ upper \in [Sdus -> UpperStates] /\ sdu_queue \in Seq(Sdus)
      /\ \A i \in Sdus : i \in Nat
  BY DEF TypeInv, TxInv, TxTypes, Sdus
<1>7. \A sn \in DOMAIN tx_window : tx_window[sn].sdu \in Sdus
  BY SentIs
<1>8. \A i \in Sdus : upper'[i] = IF Gone(i) THEN "confirmed" ELSE upper[i]
  BY <1>3, <1>5
<1>9. ASSUME NEW i \in Sdus, Gone(i)
      PROVE  upper[i] = "accepted" /\ delivered[i] = 1 /\ ~InQueue(i)
  <2>1. PICK sn \in DOMAIN tx_window : TxMod(sn) < s /\ tx_window[sn].sdu = i
    BY <1>9
  <2>2. Taken(sn)
    BY <1>3, <1>5, <2>1
  <2>3. upper[i] = "accepted" /\ ~InQueue(i)
    BY <2>1, OneSn DEF ServiceInv, InQueue
  <2>4. delivered[i] = 1
    BY <2>1, <2>2 DEF ServiceInv, DeliveredInv
  <2>5. QED
    BY <2>3, <2>4
<1>10. ASSUME NEW i \in Sdus
       PROVE  InWindow(i)' <=> InWindow(i) /\ ~Gone(i)
  <2>1. ASSUME InWindow(i)' PROVE InWindow(i) /\ ~Gone(i)
    <3>1. PICK sn \in DOMAIN tx_window' : tx_window'[sn].sdu = i
      BY <2>1 DEF InWindow
    <3>2. sn \in DOMAIN tx_window /\ ~(TxMod(sn) < s) /\ tx_window[sn].sdu = i
      BY <1>2, <3>1
    <3>3. \A sm \in DOMAIN tx_window : tx_window[sm].sdu = i => sm = sn
      BY <3>2, OneSn DEF ServiceInv
    <3>4. QED
      BY <3>2, <3>3 DEF InWindow
  <2>2. ASSUME InWindow(i), ~Gone(i) PROVE InWindow(i)'
    <3>1. PICK sn \in DOMAIN tx_window : tx_window[sn].sdu = i
      BY <2>2 DEF InWindow
    <3>2. ~(TxMod(sn) < s)
      BY <2>2, <3>1
    <3>3. sn \in DOMAIN tx_window' /\ tx_window'[sn].sdu = i
      BY <1>2, <3>1, <3>2
    <3>4. QED
      BY <3>3 DEF InWindow
  <2>3. QED
    BY <2>1, <2>2
<1> HIDE DEF Gone
<1>11. AcceptedIs'
  <2>1. ASSUME NEW i \in Sdus
        PROVE  /\ upper'[i] = "accepted" => InWindow(i)' \/ InQueue(i)'
               /\ InWindow(i)' => upper'[i] = "accepted"
               /\ InQueue(i)' => upper'[i] \in {"accepted", "discarded"}
    <3>1. InQueue(i)' <=> InQueue(i)
      BY DEF InQueue
    <3>2. /\ upper[i] = "accepted" => InWindow(i) \/ InQueue(i)
          /\ InWindow(i) => upper[i] = "accepted"
          /\ InQueue(i) => upper[i] \in {"accepted", "discarded"}
      BY DEF ServiceInv, OrderInv, AcceptedIs
    <3>3. QED
      BY <1>8, <1>9, <1>10, <3>1, <3>2
  <2>2. QED
    BY <2>1 DEF AcceptedIs
<1>12. NewLast'
  <2>1. \A i \in Sdus : upper'[i] = "new" <=> upper[i] = "new"
    BY <1>8, <1>9
  <2>2. QED
    BY <2>1 DEF ServiceInv, OrderInv, NewLast
<1>13. ASSUME NEW sn \in SN, ~(TxMod(sn) < s)
       PROVE  TxMod(sn)' = TxMod(sn) - s
  <2>1. TxMod(sn)' = Ahead(sn, na)
    BY <1>2 DEF TxMod
  <2>2. Ahead(sn, na) = IF TxMod(sn) >= s THEN TxMod(sn) - s ELSE TxMod(sn) - s + Mod
    BY <1>2, <1>3, Rebase DEF TxMod
  <2>3. TxMod(sn) \in Nat
    BY <1>3
  <2> HIDE DEF s
  <2>4. QED
    BY <1>4, <1>13, <2>1, <2>2, <2>3
<1>14. WindowOrder'
  <2>1. SUFFICES ASSUME NEW a \in DOMAIN tx_window', NEW b \in DOMAIN tx_window', TxMod(a)' < TxMod(b)'
                 PROVE  tx_window'[a].sdu < tx_window'[b].sdu
    BY DEF WindowOrder, TxMod
  <2>2. /\ a \in DOMAIN tx_window /\ b \in DOMAIN tx_window /\ a \in SN /\ b \in SN
        /\ ~(TxMod(a) < s) /\ ~(TxMod(b) < s)
        /\ tx_window'[a].sdu = tx_window[a].sdu /\ tx_window'[b].sdu = tx_window[b].sdu
    BY <1>2, <1>3
  <2>3. TxMod(a)' = TxMod(a) - s /\ TxMod(b)' = TxMod(b) - s /\ TxMod(a) \in Nat /\ TxMod(b) \in Nat
    BY <1>3, <1>13, <2>2
  <2>4. TxMod(a) < TxMod(b)
    <3> HIDE DEF s
    <3>1. QED
      BY <1>4, <2>1, <2>3
  <2>5. QED
    BY <2>2, <2>4 DEF ServiceInv, OrderInv, WindowOrder
<1>15. QueueOrder' /\ QueueAfter'
  <2>1. QueueOrder'
    BY DEF ServiceInv, OrderInv, QueueOrder
  <2>2. QueueAfter'
    BY <1>2 DEF ServiceInv, OrderInv, QueueAfter
  <2>3. QED
    BY <2>1, <2>2
<1>16. DeliveredInv'
  <2>1. ASSUME NEW sn \in DOMAIN tx_window'
        PROVE  delivered'[tx_window'[sn].sdu] = IF Taken(sn)' THEN 1 ELSE 0
    <3>1. sn \in DOMAIN tx_window /\ sn \in SN /\ ~(TxMod(sn) < s) /\ tx_window'[sn].sdu = tx_window[sn].sdu
      BY <1>2, <1>3
    <3>2. Taken(sn)' <=> Taken(sn)
      <4>1. TxMod(sn)' = TxMod(sn) - s /\ TxMod(rx_next)' = R - s /\ TxMod(sn) \in Nat
        <5>1. ~(R < s)
          BY <1>2, <1>4
        <5>2. TxMod(rx_next)' = Ahead(rx_next, na)
          BY <1>1, <1>2 DEF TxMod
        <5>3. Ahead(rx_next, na) = IF R >= s THEN R - s ELSE R - s + Mod
          BY <1>2, <1>3, Rebase DEF TxMod
        <5> HIDE DEF R, s
        <5>4. TxMod(rx_next)' = R - s
          BY <1>4, <5>1, <5>2, <5>3
        <5>5. QED
          BY <1>3, <1>13, <3>1, <5>4 DEF s
      <4>2. TxMod(sn)' < TxMod(rx_next)' <=> TxMod(sn) < R
        <5> HIDE DEF R, s
        <5>1. QED
          BY <1>4, <4>1
      <4>3. Received(rx_window, sn)' <=> Received(rx_window, sn)
        BY <1>1 DEF Received
      <4>4. QED
        BY <4>2, <4>3 DEF Taken
    <3>3. delivered[tx_window[sn].sdu] = IF Taken(sn) THEN 1 ELSE 0
      BY <3>1 DEF ServiceInv, DeliveredInv
    <3>4. QED
      BY <1>1, <3>1, <3>2, <3>3
  <2>2. \A i \in Sdus : upper'[i] = "new" => delivered'[i] = 0
    BY <1>1, <1>8, <1>9 DEF ServiceInv, DeliveredInv
  <2>3. \A m \in 1..Len(sdu_queue') : delivered'[sdu_queue'[m]] = 0
    BY <1>1 DEF ServiceInv, DeliveredInv
  <2>4. QED
    BY <2>1, <2>2, <2>3 DEF DeliveredInv
<1>17. ServiceStep
  <2>1. CASE s = 0
    <3>1. \A i \in Sdus : ~Gone(i)
      BY <1>3, <2>1 DEF Gone
    <3>2. upper' = upper
      BY <1>6, <1>8, <3>1
    <3>3. QED
      BY <1>1, <3>2 DEF ServiceStep
  <2>2. CASE s # 0
    <3> DEFINE top == At(tx_next_ack, s - 1)
               n   == tx_window[top].sdu
    <3>1. top \in SN /\ TxMod(top) = s - 1
      <4>1. s < Mod
        BY <1>2, <1>3
      <4>2. s - 1 \in 0..(Mod - 1)
        BY <1>3, <1>4, <2>2, <4>1
      <4>3. QED
        BY <1>3, <4>2, AtIs DEF TxMod
    <3>2. top \in DOMAIN tx_window
      BY <1>4, <1>5, <2>2, <3>1
    <3>3. n \in Sdus /\ n \in Nat
      BY <1>6, <1>7, <3>2
    <3> HIDE DEF top
    <3>4. ASSUME NEW i \in Sdus
          PROVE  Gone(i) <=> i <= n /\ upper[i] = "accepted"
      <4>1. ASSUME Gone(i) PROVE i <= n
        <5>1. PICK sn \in DOMAIN tx_window : TxMod(sn) < s /\ tx_window[sn].sdu = i
          BY <4>1 DEF Gone
        <5>2. TxMod(sn) \in Nat /\ sn \in SN
          BY <1>3
        <5>3. CASE TxMod(sn) < TxMod(top)
          <6>1. i < n
            BY <3>2, <5>1, <5>3 DEF ServiceInv, OrderInv, WindowOrder
          <6>2. QED
            BY <1>6, <3>3, <6>1
        <5>4. CASE TxMod(sn) = TxMod(top)
          <6>1. sn = top
            BY <1>3, <3>1, <5>2, <5>4, Rebase DEF TxMod
          <6>2. QED
            BY <1>6, <5>1, <6>1
        <5>5. TxMod(sn) < TxMod(top) \/ TxMod(sn) = TxMod(top)
          <6> HIDE DEF s
          <6>1. QED
            BY <1>4, <3>1, <5>1, <5>2
        <5>6. QED
          BY <5>3, <5>4, <5>5
      <4>2. ASSUME i <= n, upper[i] = "accepted" PROVE Gone(i)
        <5>1. ~InQueue(i)
          <6>1. ASSUME NEW m \in 1..Len(sdu_queue), sdu_queue[m] = i PROVE FALSE
            <7>1. n < i
              BY <3>2, <6>1 DEF ServiceInv, OrderInv, QueueAfter
            <7>2. QED
              BY <1>6, <3>3, <4>2, <7>1
          <6>2. QED
            BY <6>1 DEF InQueue
        <5>2. InWindow(i)
          BY <4>2, <5>1 DEF ServiceInv, OrderInv, AcceptedIs
        <5>3. PICK sn \in DOMAIN tx_window : tx_window[sn].sdu = i
          BY <5>2 DEF InWindow
        <5>4. ~(TxMod(top) < TxMod(sn))
          <6>1. ASSUME TxMod(top) < TxMod(sn) PROVE FALSE
            <7>1. n < i
              BY <3>2, <5>3, <6>1 DEF ServiceInv, OrderInv, WindowOrder
            <7>2. QED
              BY <1>6, <3>3, <4>2, <7>1
          <6>2. QED
            BY <6>1
        <5>5. TxMod(sn) < s
          <6>1. TxMod(sn) \in Nat
            BY <1>3
          <6> HIDE DEF s
          <6>2. QED
            BY <1>4, <2>2, <3>1, <5>4, <6>1
        <5>6. QED
          BY <5>3, <5>5 DEF Gone
      <4>3. QED
        BY <1>9, <4>1, <4>2
    <3>5. \A i \in 1..n : upper[i] = "accepted" => delivered[i] = 1
      <4>1. ASSUME NEW i \in 1..n PROVE i \in Sdus /\ i <= n
        BY <1>6, <3>3 DEF Sdus
      <4>2. QED
        BY <1>9, <3>4, <4>1
    <3>6. upper' = [i \in Sdus |-> IF i <= n /\ upper[i] = "accepted" THEN "confirmed" ELSE upper[i]]
      <4>1. upper' = [i \in Sdus |-> upper'[i]]
        OBVIOUS
      <4>2. QED
        BY <1>8, <3>4, <4>1
    <3>7. Peer!Confirm(n)
      BY <1>1, <3>5, <3>6 DEF Peer!Confirm, Peer!ServiceSdus, Sdus
    <3>8. QED
      BY <3>3, <3>7 DEF ServiceStep, Peer!ServiceNext, Peer!ServiceSdus, Sdus
  <2>3. QED
    BY <2>1, <2>2
<1>18. QED
  BY <1>11, <1>12, <1>14, <1>15, <1>16, <1>17 DEF ServiceInv, OrderInv

(* A report is refused, or it confirms.                                    *)
LEMMA StatusService ==
  ASSUME TypeInv, ProtocolInv, ServiceInv, ~released, HandleStatusPdu, UNCHANGED rx_vars
  PROVE  ServiceInv' /\ ServiceStep
<1>1. PICK r : WellFormed(r) /\ status_air = <<r>>
  BY DEF TypeInv, ReportTypes, HandleStatusPdu
<1>2. Head(status_air) = r /\ UNCHANGED sdu_queue
  BY <1>1 DEF HandleStatusPdu
<1>3. CASE Refused(r)
  <2>1. UNCHANGED <<upper, tx_next_ack, tx_window>>
    BY <1>2, <1>3 DEF HandleStatusPdu, Refused
  <2>2. QED
    BY <1>2, <2>1, SameService
<1>4. CASE ~Refused(r)
  <2>1. Advanced(StopOf(r))
    BY <1>1, <1>4, StatusAdvances
  <2>2. ReportTrue(r) /\ ValidAckSn(r.ack) /\ NacksBelow(r)
    BY <1>1, <1>4, NotRefused DEF ProtocolInv, ReportLink
  <2>3. Confirmed(r) = {sn \in SN : TxMod(sn) < TxMod(StopOf(r))}
    BY <1>1, <2>2, ConfirmedIs
  <2>4. upper' = [i \in Sdus |-> IF \E sn \in Confirmed(r) : tx_window[sn].sdu = i
                                THEN "confirmed" ELSE upper[i]]
    BY <1>2, <1>4 DEF HandleStatusPdu, Refused
  <2>5. QED
    BY <1>2, <2>1, <2>3, <2>4, AdvancedService DEF ProtocolInv
<1>5. QED
  BY <1>3, <1>4

(* handle_data_pdu: the SDU of an SN is delivered when its last byte       *)
(* arrives, and only then is the SN taken.                                 *)
LEMMA TakenIs ==
  ASSUME TypeInv, SendInv, LinkInv, NEW pdu \in PduSet, PduOk(pdu), CarriesSent(pdu), Timely(pdu),
         ~Discarded(pdu), NEW info, NEW window, NEW highest, NEW next, NEW complete,
         Placed(pdu, info, window, highest, next, complete), TriggerHeld, UNCHANGED tx_vars,
         NEW s \in DOMAIN tx_window
  PROVE  Taken(s)' <=> Taken(s) \/ (s = pdu.sn /\ complete)
<1> DEFINE d == TxMod(s)
           R == TxMod(rx_next)
           next0 == TxMod(rx_next)'
<1>1. tx_next_ack' = tx_next_ack /\ next0 = TxMod(rx_next')
  BY DEF tx_vars, TxMod
<1>2. /\ window = WithEntry(rx_window, pdu.sn, info) /\ complete = FullyReceived(info)
      /\ rx_next' = next
      /\ rx_window' = Restrict(window, {a \in DOMAIN window : Ahead(a, rx_next) >= Ahead(next, rx_next)})
  BY DEF Placed
<1>3. /\ rx_next \in SN /\ tx_next_ack \in SN /\ s \in SN /\ pdu.sn \in SN
      /\ d \in Nat /\ R \in Nat /\ Mod \in Nat
      /\ DOMAIN rx_window \subseteq SN
  BY Distances DEF PduSet
<1>4. /\ R <= next0 /\ next \in SN
      /\ \A a \in SN : R <= TxMod(a) /\ TxMod(a) < next0 => Received(window, a)
  BY <1>1, <1>2, PlaceLinks
<1>5. next0 \in Nat
  BY <1>1, <1>2, <1>4, Distances
<1>6. R <= TxMod(pdu.sn) /\ ~Received(rx_window, pdu.sn)
  BY ArrivedInWindow DEF Discarded
<1>7. /\ Received(window, pdu.sn) <=> complete
      /\ \A a : a # pdu.sn => (Received(window, a) <=> Received(rx_window, a))
  <2>1. /\ Received(window, pdu.sn) <=> FullyReceived(info)
        /\ \A a : a # pdu.sn => (Received(window, a) <=> Received(rx_window, a))
    <3>1. window = WithEntry(rx_window, pdu.sn, info)
      BY <1>2
    <3>2. QED
      BY <3>1, Zenon DEF WithEntry, Received
  <2>2. QED
    BY <1>2, <2>1, Zenon
<1>8. Received(rx_window, s)' => Received(window, s)
  BY <1>2 DEF Received, Restrict
<1>9. Received(window, s) /\ R <= d /\ ~(d < next0) => Received(rx_window, s)'
  <2>1. SUFFICES ASSUME Received(window, s), R <= d, ~(d < next0)
                 PROVE  Received(rx_window, s)'
    OBVIOUS
  <2>2. Ahead(s, rx_next) = d - R
    <3>1. Ahead(s, rx_next) = IF d >= R THEN d - R ELSE d - R + Mod
      BY <1>3, Rebase DEF TxMod
    <3>2. QED
      BY <1>3, <2>1, <3>1
  <2>3. Ahead(next, rx_next) = next0 - R
    <3>1. Ahead(next, rx_next) = IF next0 >= R THEN next0 - R ELSE next0 - R + Mod
      BY <1>1, <1>2, <1>3, <1>4, Rebase DEF TxMod
    <3>2. QED
      BY <1>3, <1>4, <1>5, <3>1
  <2> HIDE DEF d, R, next0
  <2>4. Ahead(s, rx_next) >= Ahead(next, rx_next)
    BY <1>3, <1>5, <2>1, <2>2, <2>3
  <2>5. s \in DOMAIN rx_window' /\ rx_window'[s] = window[s]
    BY <1>2, <2>1, <2>4 DEF Restrict, Received
  <2>6. QED
    BY <2>1, <2>5 DEF Received
<1>10. Received(rx_window, s) => R <= d
  BY HeldInWindow DEF Received
<1>11. Taken(s)' <=> d < next0 \/ Received(rx_window, s)'
  BY <1>1 DEF Taken, TxMod
<1>12. Taken(s) <=> d < R \/ Received(rx_window, s)
  BY DEF Taken
<1> HIDE DEF d, R, next0
<1>13. ASSUME Taken(s)' PROVE Taken(s) \/ (s = pdu.sn /\ complete)
  <2>1. d < R \/ Received(window, s)
    BY <1>3, <1>4, <1>8, <1>11, <1>13 DEF d
  <2>2. CASE d < R
    BY <1>12, <2>2
  <2>3. CASE Received(window, s)
    BY <1>7, <1>12, <2>3
  <2>4. QED
    BY <2>1, <2>2, <2>3
<1>14. ASSUME Taken(s) PROVE Taken(s)'
  <2>1. CASE d < R
    <3>1. d < next0
      BY <1>3, <1>4, <1>5, <2>1
    <3>2. QED
      BY <1>11, <3>1
  <2>2. CASE Received(rx_window, s)
    <3>1. Received(window, s)
      BY <1>6, <1>7, <2>2
    <3>2. QED
      BY <1>9, <1>10, <1>11, <2>2, <3>1
  <2>3. QED
    BY <1>12, <1>14, <2>1, <2>2
<1>15. ASSUME s = pdu.sn, complete PROVE Taken(s)'
  <2>1. Received(window, s) /\ R <= d
    BY <1>6, <1>7, <1>15 DEF d
  <2>2. QED
    BY <1>9, <1>11, <2>1
<1>16. QED
  BY <1>13, <1>14, <1>15

(* handle_data_pdu delivers an SDU when its last byte arrives, once.        *)
LEMMA PlacedService ==
  ASSUME TypeInv, SendInv, LinkInv, ServiceInv,
         NEW pdu \in PduSet, PduOk(pdu), CarriesSent(pdu), Timely(pdu),
         ~Discarded(pdu), NEW info, NEW window, NEW highest, NEW next, NEW complete,
         Placed(pdu, info, window, highest, next, complete), TriggerHeld, UNCHANGED tx_vars
  PROVE  ServiceInv' /\ ServiceStep
<1> DEFINE sn == pdu.sn
           i == tx_window[sn].sdu
<1>1. UNCHANGED <<upper, sdu_queue, tx_next_ack, tx_window>>
  BY DEF tx_vars
<1>2. OrderInv'
  <2>1. WindowOrder' /\ QueueOrder' /\ QueueAfter' /\ NewLast'
    BY <1>1 DEF ServiceInv, OrderInv, WindowOrder, QueueOrder, QueueAfter, NewLast, TxMod
  <2>2. AcceptedIs'
    BY <1>1 DEF ServiceInv, OrderInv, AcceptedIs, InWindow, InQueue
  <2>3. QED
    BY <2>1, <2>2 DEF OrderInv
<1>3. /\ sn \in DOMAIN tx_window /\ pdu.sdu = i /\ pdu.so + pdu.len <= SentOf(tx_window, sn)
      /\ TxMod(rx_next) <= TxMod(sn)
  BY ArrivedInWindow
<1>4. i \in Sdus /\ upper[i] = "accepted"
  BY <1>3, OneSn DEF ServiceInv
<1>5. \A s \in DOMAIN tx_window : tx_window[s].sdu = i => s = sn
  BY <1>3, OneSn DEF ServiceInv
<1>6. \A m \in 1..Len(sdu_queue) : sdu_queue[m] # i
  BY <1>3, OneSn DEF ServiceInv
<1>7. /\ info = StoreSdu(Stored(sn), pdu)
      /\ delivered' = IF complete THEN [delivered EXCEPT ![CHOOSE j \in info.sdus : TRUE] = @ + 1]
                      ELSE delivered
  BY DEF Placed
<1>8. info.sdus = {i}
  BY <1>3, <1>7, StoredHeld DEF HeldIs
<1>9. ~Taken(sn)
  <2>1. ~Received(rx_window, sn)
    BY DEF Discarded
  <2>2. TxMod(sn) \in Nat /\ TxMod(rx_next) \in Nat
    BY <1>3, Distances
  <2>3. QED
    BY <1>3, <2>1, <2>2 DEF Taken
<1>10. delivered[i] = 0 /\ delivered \in [Sdus -> Nat]
  BY <1>3, <1>9 DEF ServiceInv, DeliveredInv, TypeInv, RxHeld
<1>11. ASSUME NEW s \in DOMAIN tx_window
       PROVE  Taken(s)' <=> Taken(s) \/ (s = sn /\ complete)
  BY TakenIs
<1>12. /\ \A s \in DOMAIN tx_window : delivered[tx_window[s].sdu] = IF Taken(s) THEN 1 ELSE 0
       /\ \A j \in Sdus : upper[j] = "new" => delivered[j] = 0
       /\ \A m \in 1..Len(sdu_queue) : delivered[sdu_queue[m]] = 0
  BY DEF ServiceInv, DeliveredInv
<1> HIDE DEF sn, i
<1>13. CASE ~complete
  <2>1. delivered' = delivered
    BY <1>7, <1>13
  <2>2. \A s \in DOMAIN tx_window : Taken(s)' <=> Taken(s)
    BY <1>11, <1>13
  <2>3. \A s \in DOMAIN tx_window' : delivered'[tx_window'[s].sdu] = IF Taken(s)' THEN 1 ELSE 0
    BY <1>1, <1>12, <2>1, <2>2
  <2>4. DeliveredInv'
    BY <1>1, <1>12, <2>1, <2>3 DEF DeliveredInv
  <2>5. QED
    BY <1>1, <1>2, <2>1, <2>4 DEF ServiceInv, ServiceStep
<1>14. CASE complete
  <2>1. (CHOOSE j \in info.sdus : TRUE) = i
    BY <1>8, Zenon
  <2>2. delivered' = [delivered EXCEPT ![i] = 1]
    <3>1. delivered' = [delivered EXCEPT ![CHOOSE j \in info.sdus : TRUE] =
                          delivered[CHOOSE j \in info.sdus : TRUE] + 1]
      BY <1>7, <1>14
    <3>2. delivered' = [delivered EXCEPT ![i] = delivered[i] + 1]
      BY <2>1, <3>1
    <3>3. QED
      BY <1>10, <3>2
  <2>3. delivered'[i] = 1 /\ \A j \in Sdus : j # i => delivered'[j] = delivered[j]
    BY <1>4, <1>10, <2>2
  <2>4. ASSUME NEW s \in DOMAIN tx_window'
        PROVE  delivered'[tx_window'[s].sdu] = IF Taken(s)' THEN 1 ELSE 0
    <3>1. s \in DOMAIN tx_window /\ tx_window'[s].sdu = tx_window[s].sdu
      BY <1>1
    <3>2. CASE s = sn
      <4>1. Taken(s)' /\ tx_window[s].sdu = i
        BY <1>11, <1>14, <3>1, <3>2 DEF i
      <4>2. QED
        BY <2>3, <3>1, <4>1
    <3>3. CASE s # sn
      <4>1. tx_window[s].sdu # i /\ tx_window[s].sdu \in Sdus
        BY <1>5, <3>1, <3>3, SentIs
      <4>2. Taken(s)' <=> Taken(s)
        BY <1>11, <3>1, <3>3
      <4>3. delivered[tx_window[s].sdu] = IF Taken(s) THEN 1 ELSE 0
        BY <1>12, <3>1
      <4>4. QED
        BY <2>3, <3>1, <4>1, <4>2, <4>3
    <3>4. QED
      BY <3>2, <3>3
  <2>5. \A j \in Sdus : upper'[j] = "new" => delivered'[j] = 0
    BY <1>1, <1>4, <1>12, <2>3
  <2>6. ASSUME NEW m \in 1..Len(sdu_queue') PROVE delivered'[sdu_queue'[m]] = 0
    <3>1. sdu_queue[m] \in Sdus
      BY <1>1 DEF TypeInv, TxInv, TxTypes
    <3>2. QED
      BY <1>1, <1>6, <1>12, <2>3, <3>1
  <2>7. DeliveredInv'
    BY <2>4, <2>5, <2>6 DEF DeliveredInv
  <2>8. Peer!Deliver(i)
    BY <1>1, <1>4, <1>10, <2>2 DEF Peer!Deliver
  <2>9. ServiceStep
    BY <1>4, <2>8 DEF ServiceStep, Peer!ServiceNext, Peer!ServiceSdus, Sdus
  <2>10. QED
    BY <1>2, <2>7, <2>9 DEF ServiceInv
<1>15. QED
  BY <1>13, <1>14

(* The steps of the receiver.                                              *)
LEMMA ReceiverService ==
  ASSUME TypeInv, ReassemblyAssertions, ProtocolInv, FlightInWindow, ServiceInv,
         ReceiverStep, UNCHANGED tx_vars
  PROVE  ServiceInv' /\ ServiceStep
<1>1. UNCHANGED <<upper, sdu_queue, tx_next_ack, tx_window>>
  BY DEF tx_vars
<1>2. ASSUME UNCHANGED <<rx_next, rx_window, delivered>>
      PROVE  ServiceInv' /\ ServiceStep
  <2>1. WindowOrder' /\ QueueOrder' /\ QueueAfter' /\ NewLast'
    BY <1>1 DEF ServiceInv, OrderInv, WindowOrder, QueueOrder, QueueAfter, NewLast, TxMod
  <2>2. AcceptedIs'
    BY <1>1 DEF ServiceInv, OrderInv, AcceptedIs, InWindow, InQueue
  <2>3. DeliveredInv'
    BY <1>1, <1>2 DEF ServiceInv, DeliveredInv, Taken, Received, TxMod
  <2>4. QED
    BY <1>1, <1>2, <2>1, <2>2, <2>3 DEF ServiceInv, OrderInv, ServiceStep
<1>3. CASE ~HandleDataPdu
  BY <1>2, <1>3 DEF ReceiverStep, OnExpiredReassemblyTimer, GetStatusPdu, SendStatusPdu,
                    OnExpiredStatusProhibitTimer, UpdateOwnBufferState,
                    OtherDirection, rx_data_vars
<1>4. CASE HandleDataPdu
  <2>1. PICK n \in 1..Len(data_air) :
          IF Discarded(data_air[n]) THEN UNCHANGED <<rx_next, rx_window, delivered>>
          ELSE PlacePdu(data_air[n])
    BY <1>4 DEF HandleDataPdu
  <2>2. CASE Discarded(data_air[n])
    BY <1>2, <2>1, <2>2
  <2>3. CASE ~Discarded(data_air[n])
    <3>1. PICK p : p = data_air[n]
      OBVIOUS
    <3>2. /\ p \in PduSet /\ PduOk(p) /\ CarriesSent(p) /\ Timely(p) /\ ~Discarded(p) /\ PlacePdu(p)
          /\ SendInv /\ LinkInv
      BY <2>1, <2>3, <3>1 DEF TypeInv, AirInv, ProtocolInv, AirLink, FlightInWindow
    <3>3. PICK info, window, highest, next, complete : Placed(p, info, window, highest, next, complete)
      BY <3>2, PlacedIs
    <3>4. TriggerHeld
      BY DEF ReassemblyAssertions
    <3>5. QED
      BY <3>2, <3>3, <3>4, PlacedService
  <2>4. QED
    BY <2>2, <2>3
<1>5. QED
  BY <1>3, <1>4

(* Nothing is accepted or delivered initially.                              *)
LEMMA ServiceInitially ==
  ASSUME Init
  PROVE  ServiceInv /\ Peer!ServiceInit
<1>1. /\ tx_window = <<>> /\ sdu_queue = <<>>
      /\ upper = [i \in Sdus |-> "new"] /\ delivered = [i \in Sdus |-> 0]
  BY DEF Init, TxInit, RxInit
<1>2. DOMAIN tx_window = {} /\ Len(sdu_queue) = 0
  BY <1>1
<1>3. OrderInv /\ DeliveredInv
  BY <1>1, <1>2 DEF OrderInv, WindowOrder, QueueOrder, QueueAfter, AcceptedIs, NewLast, InWindow,
                    InQueue, DeliveredInv
<1>4. QED
  BY <1>1, <1>3 DEF ServiceInv, Peer!ServiceInit, Peer!ServiceSdus, Sdus

(* Every step is one of the service, or none.                               *)
LEMMA ServiceIsKept ==
  ASSUME TypeInv, ReassemblyAssertions, ProtocolInv, FlightInWindow, ServiceInv, [Next]_vars
  PROVE  ServiceInv' /\ ServiceStep
<1>1. CASE ~released /\ SenderStep /\ UNCHANGED rx_vars
  BY <1>1, SenderService, StatusService DEF ProtocolInv
<1>2. CASE ReceiverStep /\ UNCHANGED tx_vars
  BY <1>2, ReceiverService
<1>3. CASE UNCHANGED vars
  <2>1. UNCHANGED <<upper, sdu_queue, tx_next_ack, tx_window>> /\ UNCHANGED rx_vars
    BY <1>3 DEF vars, tx_vars
  <2>2. QED
    BY <2>1, SameService
<1>4. QED
  BY <1>1, <1>2, <1>3, StepSplits

(* The bearer implements what PDCP is promised: an SDU is confirmed only    *)
(* after it was delivered, in the order of acceptance, and no SDU is        *)
(* delivered twice, for all the segmentation, loss, retransmission and      *)
(* discarding in between.                                                   *)
THEOREM ServiceHolds == Spec /\ []FlightInWindow /\ [][KeptInTime]_vars => ServiceSpec
<1>1. Init => ServiceInv /\ Peer!ServiceInit
  BY ServiceInitially
<1>2. TypeInv /\ ProtocolInv /\ FlightInWindow /\ ServiceInv /\ [Next]_vars
        => ServiceInv' /\ [Peer!ServiceNext]_<<upper, delivered>>
  BY TypesStep, ServiceIsKept DEF ServiceStep
<1>3. QED
  BY <1>1, <1>2, TypesHold, ProtocolHolds, PTL DEF Spec, ServiceSpec, Peer!Service

-----------------------------------------------------------------------------
(* No silent stall.  Reports acknowledge in the order in which they were    *)
(* made, though two are kept and one is in flight, and the poll is on the   *)
(* last PDU when there is nothing more to send: what stops t-PollRetransmit *)
(* then asks for something, or leaves nothing that waits.                   *)

(* The reports that can reach the sender whole.                             *)
Reports == {r \in {status_cached, status_shared} : Len(r.nacks) <= MaxFit}
             \cup {r \in ReportSet : status_air = <<r>>}

(* Nothing guards what waits for an acknowledgement but retransmissions.   *)
Quiet ==
  /\ ~poll_retransmit_timer /\ ~is_poll_retransmit_timer_expired
  /\ ~DiscardedBehind /\ ~trimmed
  /\ sdu_queue = <<>> /\ ~Segmenting /\ DOMAIN tx_window # {}

(* The last PDU that was sent first of all had a poll.                     *)
PollInv ==
  sdu_queue = <<>> /\ ~Segmenting /\ tx_next # tx_next_ack =>
    DiscardedBehind \/ (poll_sn + 1) % Mod = tx_next

(* A report acknowledges nothing beyond RX_Highest_Status.                 *)
AckInv == \A r \in Reports : ValidAckSn(r.ack) => TxMod(r.ack) <= TxMod(rx_highest_status)

(* A report with no NACK was made before what another asks for was missing, *)
(* or after it came.                                                       *)
TurnInv ==
  \A r, b \in Reports :
    r.nacks = <<>> /\ ValidAckSn(r.ack) /\ ValidAckSn(b.ack) =>
      TxMod(r.ack) <= TxMod(StopOf(b)) \/ TxMod(r.ack) >= TxMod(b.ack)

(* Once all is quiet, something is asked for, and what no NACK asks for is *)
(* acknowledged up to the end.                                             *)
QuietInv ==
  Quiet =>
    /\ retx_queue # <<>>
    /\ TxMod(rx_highest_status) >= Top
    /\ \A r \in Reports : r.nacks = <<>> /\ ValidAckSn(r.ack) => TxMod(r.ack) >= Top

ReportInv == AckInv /\ TurnInv /\ QuietInv
StallInv == PollInv /\ (trimmed \/ ReportInv)

(* The first SN that a report does not confirm is one.                     *)
LEMMA StopIsSn ==
  ASSUME NEW r \in ReportSet
  PROVE  StopOf(r) \in SN /\ r.ack \in SN
<1>1. r.ack \in SN /\ r.nacks \in Seq(NackSet)
  BY DEF ReportSet
<1>2. CASE r.nacks = <<>>
  BY <1>1, <1>2 DEF StopOf
<1>3. CASE r.nacks # <<>>
  <2>1. 1 \in 1..Len(r.nacks)
    BY <1>1, <1>3
  <2>2. r.nacks[1] \in NackSet
    BY <1>1, <2>1
  <2>3. QED
    BY <1>1, <1>3, <2>2 DEF StopOf, NackSet
<1>4. QED
  BY <1>2, <1>3

(* They are reports, and true.                                             *)
LEMMA ReportsAre ==
  ASSUME TypeInv, ReportLink, KeptLink, NEW r \in Reports
  PROVE  /\ r \in ReportSet /\ r.ack \in SN /\ StopOf(r) \in SN
         /\ status_air = <<r>> \/ r \in Sendable
         /\ r.nacks = <<>> /\ ValidAckSn(r.ack)
              => StopOf(r) = r.ack /\ TxMod(r.ack) <= TxMod(rx_next)
<1>1. status_air = <<r>> \/ r \in Sendable
  <2>1. CASE r \in {status_cached, status_shared} /\ Len(r.nacks) <= MaxFit
    <3>1. Trim(r, MaxFit) = r
      BY <2>1 DEF Trim
    <3>2. MaxFit \in 0..MaxFit
      BY LinkAssumption
    <3>3. QED
      BY <2>1, <3>1, <3>2 DEF Sendable
  <2>2. QED
    BY <2>1 DEF Reports
<1>2. r \in ReportSet
  BY DEF Reports, TypeInv, ReportTypes, WellFormed
<1>3. r.ack \in SN /\ StopOf(r) \in SN
  BY <1>2, StopIsSn
<1>4. ReportTrue(r)
  BY <1>1 DEF ReportLink, KeptLink
<1>5. ASSUME r.nacks = <<>>, ValidAckSn(r.ack)
      PROVE  StopOf(r) = r.ack /\ TxMod(r.ack) <= TxMod(rx_next)
  <2>1. NacksBelow(r)
    BY <1>5 DEF NacksBelow
  <2>2. Claims(r) /\ StopOf(r) = r.ack
    BY <1>4, <1>5, <2>1 DEF ReportTrue, StopOf
  <2>3. QED
    BY <2>2 DEF Claims
<1>6. QED
  BY <1>1, <1>2, <1>3, <1>5

(* RX_Highest_Status, seen from the sender.                                *)
HighestPlace ==
  /\ rx_highest_status \in SN
  /\ TxMod(rx_next) \in Nat /\ TxMod(rx_highest_status) \in Nat
  /\ TxMod(rx_highest_status) = TxMod(rx_next) + Ahead(rx_highest_status, rx_next)
  /\ Ahead(rx_highest_status, rx_next) \in Nat
  /\ TxMod(rx_highest_status) <= am_window_size

(* RX_Highest_Status lies in the window of the sender.                      *)
LEMMA HighestNow == TypeInv /\ SendInv /\ LinkInv => HighestPlace
<1>1. SUFFICES ASSUME TypeInv, SendInv, LinkInv PROVE HighestPlace
  OBVIOUS
<1>2. rx_highest_status \in SN
  BY <1>1 DEF TypeInv, RxInv, RxTypes
<1>3. Ahead(rx_highest_status, rx_next) <= Ahead(rx_next_highest, rx_next)
  BY <1>1, Ordered DEF TypeInv, RxInv
<1>4. /\ TxMod(rx_highest_status) = TxMod(rx_next) + Ahead(rx_highest_status, rx_next)
      /\ TxMod(rx_highest_status) <= TxMod(rx_next_highest)
      /\ Ahead(rx_highest_status, rx_next) \in Nat
  BY <1>1, <1>2, <1>3, Beyond
<1>5. /\ TxMod(rx_next) \in Nat /\ TxMod(rx_highest_status) \in Nat /\ Top \in Nat
      /\ TxMod(rx_next_highest) \in Nat /\ am_window_size \in Nat
  BY <1>1, <1>2, Distances
<1>6. TxMod(rx_next_highest) <= Top /\ Top <= am_window_size
  BY <1>1 DEF LinkInv, SendInv
<1>7. QED
  BY <1>2, <1>4, <1>5, <1>6 DEF HighestPlace

(* As above, of the next state.                                             *)
LEMMA HighestNext == (TypeInv /\ SendInv /\ LinkInv)' => HighestPlace'
  BY HighestNow, PTL

(* It does not move back for the sender either.                            *)
LEMMA HighestMoves ==
  ASSUME TypeInv, TypeInv', ProtocolInv, ProtocolInv', UNCHANGED tx_next_ack, HighestGrows,
         TxMod(rx_next) <= TxMod(rx_next)'
  PROVE  TxMod(rx_highest_status) <= TxMod(rx_highest_status)'
<1>1. HighestPlace /\ HighestPlace'
  BY HighestNow, HighestNext DEF ProtocolInv
<1>2. PICK hs : hs = rx_highest_status'
  OBVIOUS
<1>3. TxMod(rx_highest_status)' = TxMod(hs) /\ TxMod(rx_next)' = TxMod(rx_next')
  BY <1>2 DEF TxMod
<1>4. /\ hs \in SN /\ TxMod(hs) \in Nat /\ TxMod(rx_next)' \in Nat
      /\ TxMod(rx_next)' <= TxMod(hs) /\ TxMod(rx_next) \in Nat
  <2>1. /\ TxMod(rx_highest_status)' = TxMod(rx_next)' + Ahead(rx_highest_status, rx_next)'
        /\ Ahead(rx_highest_status, rx_next)' \in Nat /\ TxMod(rx_next)' \in Nat
        /\ TxMod(rx_highest_status)' \in Nat /\ rx_highest_status' \in SN
    BY <1>1 DEF HighestPlace
  <2>2. QED
    BY <1>1, <1>2, <1>3, <2>1 DEF HighestPlace
<1>5. /\ Ahead(hs, rx_next) = IF TxMod(hs) >= TxMod(rx_next) THEN TxMod(hs) - TxMod(rx_next)
                              ELSE TxMod(hs) - TxMod(rx_next) + Mod
      /\ tx_next_ack \in SN /\ rx_next \in SN
  BY <1>4, Distances, Rebase DEF TxMod
<1>6. Ahead(rx_highest_status, rx_next) <= Ahead(hs, rx_next)
  BY <1>2 DEF HighestGrows
<1>7. /\ TxMod(rx_highest_status) = TxMod(rx_next) + Ahead(rx_highest_status, rx_next)
      /\ TxMod(rx_highest_status) \in Nat
  BY <1>1 DEF HighestPlace
<1>8. Ahead(hs, rx_next) = TxMod(hs) - TxMod(rx_next)
  <2>1. TxMod(hs) >= TxMod(rx_next)
    BY <1>4
  <2>2. QED
    BY <1>5, <2>1
<1>9. QED
  <2> DEFINE a == TxMod(hs)
             b == TxMod(rx_next)
             c == TxMod(rx_highest_status)
             d == Ahead(rx_highest_status, rx_next)
  <2>1. a \in Nat /\ b \in Nat /\ c \in Nat /\ c = b + d /\ d <= a - b /\ d \in Nat
    BY <1>1, <1>4, <1>6, <1>7, <1>8 DEF HighestPlace
  <2> HIDE DEF a, b, c, d
  <2>2. c <= a
    BY <2>1
  <2>3. QED
    BY <1>3, <2>2 DEF a, c

(* The report that says how things are at the receiver starts where it      *)
(* waits and, if it asks for nothing, ends where it asks for nothing yet.   *)
LatestLimits ==
  \A r : r = StatusReport(rx_window, rx_next, rx_highest_status) =>
    /\ r \in ReportSet /\ r.ack \in SN /\ StopOf(r) = rx_next
    /\ TxMod(r.ack) <= TxMod(rx_highest_status)
    /\ r.nacks = <<>> => r.ack = rx_highest_status

(* That is so of what get_status_pdu would report.                          *)
LEMMA LatestIs == TypeInv /\ SendInv /\ LinkInv => LatestLimits
<1>1. SUFFICES ASSUME TypeInv, SendInv, LinkInv,
                      NEW r, r = StatusReport(rx_window, rx_next, rx_highest_status)
               PROVE  /\ r \in ReportSet /\ r.ack \in SN /\ StopOf(r) = rx_next
                      /\ TxMod(r.ack) <= TxMod(rx_highest_status)
                      /\ r.nacks = <<>> => r.ack = rx_highest_status
  BY DEF LatestLimits
<1> DEFINE h == Ahead(rx_highest_status, rx_next)
           v == Min({h, MaxSnPerStatus})
<1>2. RxInv /\ EntriesOk(rx_window)
  BY <1>1 DEF TypeInv, RxHeld
<1>3. ReportOf(rx_window, rx_next, r) /\ Ahead(r.ack, rx_next) <= h
  BY <1>1, <1>2, RefreshedIs
<1>4. /\ rx_next \in SN /\ rx_highest_status \in SN /\ r \in ReportSet /\ r.ack \in SN
      /\ h \in Nat /\ h < Mod /\ Ahead(r.ack, rx_next) \in Nat
  BY <1>2, <1>3, AheadNat DEF RxInv, RxTypes, ReportOf, ReportSet
<1>5. r.nacks = <<>> => Ahead(r.ack, rx_next) = 0
  BY <1>3 DEF ReportOf
<1>6. \A sn \in SN : Ahead(sn, rx_next) = 0 => sn = rx_next
  BY <1>4, Rebase
<1>7. StopOf(r) = rx_next
  BY <1>3, <1>4, <1>5, <1>6 DEF StopOf, ReportOf, NacksOf
<1>8. TxMod(r.ack) <= TxMod(rx_highest_status)
  <2>1. h <= Ahead(rx_next_highest, rx_next) /\ Ahead(rx_next_highest, rx_next) \in Nat
    BY <1>1, <1>2, <1>4, AheadNat, Ordered DEF RxInv, RxTypes
  <2>2. Ahead(r.ack, rx_next) <= Ahead(rx_next_highest, rx_next)
    BY <1>3, <1>4, <2>1
  <2>3. /\ TxMod(r.ack) = TxMod(rx_next) + Ahead(r.ack, rx_next)
        /\ TxMod(rx_highest_status) = TxMod(rx_next) + h
    BY <1>1, <1>4, <2>1, <2>2, Beyond
  <2>4. TxMod(rx_next) \in Nat
    BY <1>1, <1>4, Distances
  <2> HIDE DEF h
  <2>5. QED
    BY <1>3, <1>4, <2>3, <2>4
<1>9. ASSUME r.nacks = <<>> PROVE r.ack = rx_highest_status
  <2>1. r.ack = At(rx_next, v)
    BY <1>1 DEF StatusReport, At
  <2>2. MaxSnPerStatus \in Nat /\ MaxSnPerStatus >= 1
    BY RxAssumption, WindowSize
  <2> HIDE DEF h
  <2>3. v \in {h, MaxSnPerStatus} /\ v <= h
    <3>1. {h, MaxSnPerStatus} \in SUBSET Nat /\ {h, MaxSnPerStatus} # {}
      BY <1>4, <2>2
    <3>2. QED
      BY <3>1, MinIs
  <2> HIDE DEF v
  <2>4. v \in 0..(Mod - 1)
    BY <1>4, <2>2, <2>3, WindowSize
  <2>5. Ahead(r.ack, rx_next) = v
    BY <1>4, <2>1, <2>4, AtIs
  <2>6. h = 0
    BY <1>4, <1>5, <1>9, <2>2, <2>3, <2>5
  <2>7. rx_highest_status = rx_next /\ r.ack = rx_next
    BY <1>4, <1>5, <1>6, <1>9, <2>6 DEF h
  <2>8. QED
    BY <2>7
<1>10. QED
  BY <1>4, <1>7, <1>8, <1>9

(* As above, of the next state.                                             *)
LEMMA LatestIsNext == (TypeInv /\ SendInv /\ LinkInv)' => LatestLimits'
  BY LatestIs, PTL

(* While the sender confirms nothing, reports that the receiver refreshes   *)
(* take their turn.                                                        *)
LEMMA ReportsMove ==
  ASSUME TypeInv, TypeInv', ProtocolInv, ProtocolInv', ReportInv, UNCHANGED tx_next_ack,
         TxMod(rx_next) <= TxMod(rx_next)',
         TxMod(rx_highest_status) <= TxMod(rx_highest_status)',
         \A r \in Reports' : r \in Reports \/ r = StatusReport(rx_window', rx_next', rx_highest_status'),
         Quiet' => Quiet /\ Top' = Top /\ (retx_queue # <<>> => retx_queue' # <<>>)
  PROVE  ReportInv'
<1>1. PICK h1, n1 : h1 = rx_highest_status' /\ n1 = rx_next'
  OBVIOUS
<1>2. /\ \A x : TxMod(x)' = TxMod(x) /\ (ValidAckSn(x)' <=> ValidAckSn(x))
      /\ TxMod(rx_highest_status)' = TxMod(h1) /\ TxMod(rx_next)' = TxMod(n1)
  BY <1>1 DEF TxMod, ValidAckSn
<1>3. /\ TxMod(n1) \in Nat /\ TxMod(h1) \in Nat
      /\ TxMod(rx_next) \in Nat /\ TxMod(rx_highest_status) \in Nat
      /\ TxMod(rx_next) <= TxMod(n1) /\ TxMod(rx_highest_status) <= TxMod(h1)
  <2>1. HighestPlace /\ HighestPlace'
    BY HighestNow, HighestNext DEF ProtocolInv
  <2>2. QED
    BY <1>2, <2>1 DEF HighestPlace
<1>4. ASSUME NEW r, r = StatusReport(rx_window', rx_next', rx_highest_status')
      PROVE  /\ r.ack \in SN /\ StopOf(r) = n1 /\ TxMod(r.ack) <= TxMod(h1)
             /\ r.nacks = <<>> => r.ack = h1
  <2>1. LatestLimits'
    BY LatestIsNext DEF ProtocolInv
  <2>2. QED
    BY <1>1, <1>2, <1>4, <2>1 DEF LatestLimits
<1>5. ASSUME NEW r \in Reports
      PROVE  /\ r.ack \in SN /\ StopOf(r) \in SN
             /\ r.nacks = <<>> /\ ValidAckSn(r.ack) => TxMod(r.ack) <= TxMod(rx_next)
  BY <1>5, ReportsAre DEF ProtocolInv
<1>6. ASSUME NEW r, r \in Reports'
      PROVE  r.ack \in SN /\ StopOf(r) \in SN /\ TxMod(r.ack) \in Nat /\ TxMod(StopOf(r)) \in Nat
  <2>1. r.ack \in SN /\ StopOf(r) \in SN
    <3>1. n1 \in SN
      BY <1>1 DEF TypeInv, RxInv, RxTypes
    <3>2. QED
      BY <1>4, <1>5, <1>6, <3>1
  <2>2. QED
    BY <2>1, Distances
<1>7. ASSUME NEW r, r \in Reports', ValidAckSn(r.ack)
      PROVE  TxMod(r.ack) <= TxMod(h1)
  <2>1. CASE r \in Reports
    BY <1>3, <1>6, <1>7, <2>1 DEF ReportInv, AckInv
  <2>2. QED
    BY <1>4, <1>7, <2>1
<1>8. AckInv'
  BY <1>2, <1>7 DEF AckInv
<1>9. ASSUME NEW r, NEW b, r \in Reports', b \in Reports', r.nacks = <<>>, ValidAckSn(r.ack),
             ValidAckSn(b.ack)
      PROVE  TxMod(r.ack) <= TxMod(StopOf(b)) \/ TxMod(r.ack) >= TxMod(b.ack)
  <2>1. CASE r \in Reports /\ b \in Reports
    BY <1>9, <2>1 DEF ReportInv, TurnInv
  <2>2. CASE r \in Reports /\ b \notin Reports
    <3>1. StopOf(b) = n1
      BY <1>4, <1>9, <2>2
    <3>2. TxMod(r.ack) <= TxMod(rx_next) /\ TxMod(r.ack) \in Nat
      BY <1>5, <1>6, <1>9, <2>2
    <3>3. QED
      BY <1>3, <3>1, <3>2
  <2>3. CASE r \notin Reports
    <3>1. r.ack = h1
      BY <1>4, <1>9, <2>3
    <3>2. QED
      BY <1>3, <1>6, <1>7, <1>9, <3>1
  <2>4. QED
    BY <2>1, <2>2, <2>3
<1>10. TurnInv'
  <2>1. SUFFICES ASSUME NEW r, NEW b, r \in Reports', b \in Reports', r.nacks = <<>>,
                        ValidAckSn(r.ack)', ValidAckSn(b.ack)'
                 PROVE  TxMod(r.ack)' <= TxMod(StopOf(b))' \/ TxMod(r.ack)' >= TxMod(b.ack)'
    BY DEF TurnInv
  <2>2. TxMod(StopOf(b))' = TxMod(StopOf(b))
    BY DEF TxMod, StopOf
  <2>3. QED
    BY <1>2, <1>9, <2>1, <2>2
<1>11. QuietInv'
  <2>1. SUFFICES ASSUME Quiet'
                 PROVE  /\ retx_queue' # <<>>
                        /\ TxMod(h1) >= Top'
                        /\ \A r \in Reports' : r.nacks = <<>> /\ ValidAckSn(r.ack)
                                              => TxMod(r.ack) >= Top'
    BY <1>2 DEF QuietInv
  <2>2. /\ Top' = Top /\ Top \in Nat /\ retx_queue' # <<>> /\ TxMod(rx_highest_status) >= Top
        /\ \A r \in Reports : r.nacks = <<>> /\ ValidAckSn(r.ack) => TxMod(r.ack) >= Top
    BY <2>1, Distances DEF ReportInv, QuietInv
  <2>3. TxMod(h1) >= Top
    BY <1>3, <2>2
  <2>4. ASSUME NEW r, r \in Reports', r.nacks = <<>>, ValidAckSn(r.ack)
        PROVE  TxMod(r.ack) >= Top
    <3>1. CASE r \in Reports
      BY <2>2, <2>4, <3>1
    <3>2. CASE r \notin Reports
      BY <1>4, <2>3, <2>4, <3>2
    <3>3. QED
      BY <3>1, <3>2
  <2>5. QED
    BY <2>2, <2>3, <2>4
<1>12. QED
  BY <1>8, <1>10, <1>11 DEF ReportInv

(* How the sender's steps change what is quiet.                             *)
QuietKept ==
  Quiet' => Quiet /\ Top' = Top /\ (retx_queue # <<>> => retx_queue' # <<>>)

(* A step that touches none of it keeps what is quiet.                      *)
LEMMA SameQuiet ==
  ASSUME UNCHANGED <<sdu_queue, retx_queue, tx_window, sn_under_segmentation, tx_next, tx_next_ack,
                     poll_vars, trimmed>>,
         DiscardedBehind => DiscardedBehind'
  PROVE  QuietKept
<1>1. Top' = Top /\ Segmenting' = Segmenting
  BY DEF Top, Segmenting, TxMod
<1>2. Quiet' => Quiet
  BY <1>1 DEF Quiet, poll_vars
<1>3. QED
  BY <1>1, <1>2 DEF QuietKept

(* A step that leaves the queue and the poll alone keeps PollInv.           *)
LEMMA SamePoll ==
  ASSUME PollInv, UNCHANGED <<sdu_queue, sn_under_segmentation, tx_next, tx_next_ack, poll_sn>>,
         DiscardedBehind => DiscardedBehind'
  PROVE  PollInv'
<1>1. Segmenting' = Segmenting
  BY DEF Segmenting
<1>2. QED
  BY <1>1 DEF PollInv

(* A PDU that is the last for now has a poll and starts the timer.          *)
LEMMA LastHasPoll ==
  ASSUME NEW size, GetPollingBit(tx_next, FALSE, size), retx_queue' = <<>>,
         tx_next' = (tx_next + 1) % Mod \/ Segmenting'
  PROVE  PollInv' /\ ~Quiet'
<1>1. sdu_queue' = <<>> /\ ~Segmenting' => BuffersEmpty'
  BY DEF BuffersEmpty, Segmenting
<1>2. BuffersEmpty' => poll_sn' = tx_next /\ poll_retransmit_timer' = TRUE
  BY DEF GetPollingBit, PollRequired
<1>3. QED
  BY <1>1, <1>2 DEF PollInv, Quiet

(* build_new_pdu, which finds no retransmission queued.                     *)
LEMMA NewQuiet ==
  ASSUME TypeInv, NEW grant \in Nat, BuildNewPdu(grant)
  PROVE  PollInv' /\ ~Quiet'
<1>1. PICK sdu, full :
        /\ full \in BOOLEAN
        /\ retx_queue' = retx_queue /\ retx_queue = <<>>
        /\ sn_under_segmentation' = IF full THEN NoSn ELSE tx_next
        /\ tx_next' = IF full THEN (tx_next + 1) % Mod ELSE tx_next
        /\ GetPollingBit(tx_next, FALSE, IF full THEN 0 ELSE grant)
  BY DEF BuildNewPdu
<1>2. tx_next \in SN /\ NoSn \notin SN
  BY WindowSize DEF TypeInv, TxInv, TxTypes, SN, NoSn
<1>3. tx_next' = (tx_next + 1) % Mod \/ Segmenting'
  BY <1>1, <1>2 DEF Segmenting
<1>4. PICK size : GetPollingBit(tx_next, FALSE, size)
  BY <1>1
<1>5. QED
  BY <1>1, <1>3, <1>4, LastHasPoll

(* A discarded SDU in the queue is behind all that wait.                    *)
LEMMA QueuedIsBehind ==
  ASSUME TypeInv, ServiceInv, sdu_queue # <<>>,
         \A n \in 1..Len(sdu_queue) : upper[sdu_queue[n]] = "discarded"
  PROVE  DiscardedBehind
<1>1. sdu_queue \in Seq(Sdus)
  BY DEF TypeInv, TxInv, TxTypes
<1>2. 1 \in 1..Len(sdu_queue)
  BY <1>1
<1>3. sdu_queue[1] \in Sdus /\ upper[sdu_queue[1]] = "discarded"
  BY <1>1, <1>2
<1>4. \A sn \in DOMAIN tx_window : tx_window[sn].sdu < sdu_queue[1]
  BY <1>2 DEF ServiceInv, OrderInv, QueueAfter
<1>5. QED
  BY <1>3, <1>4 DEF DiscardedBehind

(* A pull that finds only discarded SDUs in the queue.                     *)
LEMMA EmptyQuiet ==
  ASSUME TypeInv, ServiceInv, PollInv, NEW grant, EmptyPull(grant), UNCHANGED trimmed
  PROVE  PollInv' /\ QuietKept
<1>1. /\ UNCHANGED <<retx_queue, tx_window, sn_under_segmentation, tx_next, tx_next_ack, poll_vars, upper>>
      /\ sdu_queue' = <<>> \/ sdu_queue' = sdu_queue
  BY DEF EmptyPull
<1>2. DiscardedBehind' = DiscardedBehind
  BY <1>1 DEF DiscardedBehind
<1>3. CASE sdu_queue' = sdu_queue
  BY <1>1, <1>2, <1>3, SameQuiet, SamePoll DEF poll_vars
<1>4. CASE sdu_queue # <<>>
  <2>1. DiscardedBehind
    BY <1>4, QueuedIsBehind DEF EmptyPull
  <2>2. QED
    BY <1>2, <2>1 DEF PollInv, QuietKept, Quiet
<1>5. QED
  BY <1>1, <1>3, <1>4

(* build_continued_sdu_segment, likewise.                                   *)
LEMMA ContinuedQuiet ==
  ASSUME TypeInv, NEW grant \in Nat, BuildContinuedSduSegment(grant)
  PROVE  PollInv' /\ ~Quiet'
<1>1. PICK len, last :
        /\ last \in BOOLEAN
        /\ retx_queue' = retx_queue /\ retx_queue = <<>>
        /\ sn_under_segmentation \in DOMAIN tx_window
        /\ sn_under_segmentation' = IF last THEN NoSn ELSE sn_under_segmentation
        /\ tx_next' = IF last THEN (tx_next + 1) % Mod ELSE tx_next
        /\ GetPollingBit(tx_next, FALSE, len)
  BY DEF BuildContinuedSduSegment
<1>2. DOMAIN tx_window \subseteq SN /\ NoSn \notin SN
  BY WindowSize DEF TypeInv, TxInv, TxTypes, SN, NoSn
<1>3. tx_next' = (tx_next + 1) % Mod \/ Segmenting'
  BY <1>1, <1>2 DEF Segmenting
<1>4. QED
  BY <1>1, <1>3, LastHasPoll

(* A retransmission that leaves nothing to send has a poll.                 *)
LEMMA RetxQuiet ==
  ASSUME PollInv, NEW grant \in Nat, BuildRetxPdu(grant), UNCHANGED trimmed
  PROVE  PollInv' /\ QuietKept
<1>1. /\ UNCHANGED <<sdu_queue, sn_under_segmentation, tx_window, upper, tx_next_ack, tx_next>>
      /\ \/ UNCHANGED <<retx_queue, poll_vars>>
         \/ \E sn : GetPollingBit(sn, TRUE, 0)
  BY DEF BuildRetxPdu
<1>2. DiscardedBehind' = DiscardedBehind
  BY <1>1 DEF DiscardedBehind
<1>3. CASE UNCHANGED <<retx_queue, poll_vars>>
  BY <1>1, <1>2, <1>3, SameQuiet, SamePoll DEF poll_vars
<1>4. CASE \E sn : GetPollingBit(sn, TRUE, 0)
  <2>1. PICK sn : GetPollingBit(sn, TRUE, 0)
    BY <1>4
  <2>2. poll_sn' = poll_sn
    BY <2>1 DEF GetPollingBit
  <2>3. PollInv'
    BY <1>1, <1>2, <2>2, SamePoll
  <2>4. ASSUME ~poll_retransmit_timer'
        PROVE  ~poll_retransmit_timer /\ ~is_poll_retransmit_timer_expired /\ ~BuffersEmpty'
    BY <2>1, <2>4 DEF GetPollingBit, PollRequired
  <2>5. Top' = Top /\ Segmenting' = Segmenting
    BY <1>1 DEF Top, Segmenting, TxMod
  <2>6. ASSUME Quiet'
        PROVE  Quiet /\ retx_queue' # <<>>
    <3>1. ~poll_retransmit_timer' /\ sdu_queue' = <<>> /\ ~Segmenting'
      BY <2>6 DEF Quiet
    <3>2. retx_queue' # <<>>
      BY <2>4, <3>1 DEF BuffersEmpty, Segmenting
    <3>3. Quiet
      BY <1>1, <1>2, <2>4, <2>5, <2>6, <3>1 DEF Quiet
    <3>4. QED
      BY <3>2, <3>3
  <2>7. QED
    BY <2>3, <2>5, <2>6 DEF QuietKept
<1>5. QED
  BY <1>1, <1>3, <1>4

(* The timer expires without a poll being owed only if nothing waits.       *)
LEMMA ExpiryQuiet ==
  ASSUME TypeInv, SendInv, PollInv, OnExpiredPollRetransmitTimer, SameWindow
  PROVE  PollInv' /\ ~Quiet'
<1>1. /\ UNCHANGED <<sdu_queue, sn_under_segmentation, tx_next, tx_next_ack, poll_sn, upper>>
      /\ tx_next_ack \in DOMAIN tx_window => is_poll_retransmit_timer_expired' = TRUE
      /\ tx_next_ack \notin DOMAIN tx_window => UNCHANGED tx_window
  BY DEF OnExpiredPollRetransmitTimer
<1>2. PollInv'
  <2>1. DiscardedBehind => DiscardedBehind'
    BY <1>1 DEF DiscardedBehind, SameWindow
  <2>2. QED
    BY <1>1, <2>1, SamePoll
<1>3. ASSUME tx_next_ack \notin DOMAIN tx_window PROVE DOMAIN tx_window = {}
  <2>1. /\ tx_next_ack \in SN /\ DOMAIN tx_window \subseteq SN /\ Top \in Nat
        /\ \A sn \in SN : TxMod(sn) \in Nat
    BY Distances
  <2>2. TxMod(tx_next_ack) = 0
    BY <2>1, Rebase DEF TxMod
  <2>3. ~(0 < Top)
    BY <1>3, <2>1, <2>2 DEF SendInv
  <2>4. \A sn \in SN : ~(TxMod(sn) < Top)
    BY <2>1, <2>3
  <2>5. QED
    BY <2>1, <2>4 DEF SendInv
<1>4. QED
  BY <1>1, <1>2, <1>3 DEF Quiet

(* The steps of the sender but handle_status_pdu.                          *)
LEMMA SenderStaysQuiet ==
  ASSUME TypeInv, SendInv, ServiceInv, PollInv, SenderStep, ~HandleStatusPdu, UNCHANGED rx_vars
  PROVE  PollInv' /\ QuietKept /\ UNCHANGED tx_next_ack /\ UNCHANGED status_air
<1>1. UNCHANGED trimmed
  BY DEF rx_vars
<1>2. ASSUME NEW i \in Sdus, HandleSdu(i)
      PROVE  PollInv' /\ QuietKept /\ UNCHANGED tx_next_ack /\ UNCHANGED status_air
  <2>1. /\ upper[i] = "new" /\ upper \in [Sdus -> UpperStates] /\ sdu_queue \in Seq(Sdus)
        /\ UNCHANGED <<tx_next_ack, tx_next, tx_window, sn_under_segmentation, retx_queue, poll_vars,
                       status_air>>
    BY <1>2 DEF HandleSdu, TypeInv, TxInv, TxTypes
  <2>2. CASE sdu_queue' = Append(sdu_queue, i)
    <3>1. Len(sdu_queue') = Len(sdu_queue) + 1 /\ Len(sdu_queue) \in Nat
      BY <2>1, <2>2
    <3>2. sdu_queue' # <<>>
      BY <3>1
    <3>3. QED
      BY <2>1, <3>2 DEF PollInv, QuietKept, Quiet
  <2>3. CASE UNCHANGED sdu_queue /\ upper' = [upper EXCEPT ![i] = "dropped"]
    <3>1. \A j \in Sdus : upper[j] = "discarded" => upper'[j] = "discarded"
      BY <2>1, <2>3
    <3>2. DiscardedBehind => DiscardedBehind'
      BY <2>1, <3>1 DEF DiscardedBehind
    <3>3. QED
      BY <1>1, <2>1, <2>3, <3>2, SameQuiet, SamePoll DEF poll_vars
  <2>4. QED
    BY <1>2, <2>2, <2>3 DEF HandleSdu
<1>3. ASSUME NEW i \in Sdus, DiscardSdu(i)
      PROVE  PollInv' /\ QuietKept /\ UNCHANGED tx_next_ack /\ UNCHANGED status_air
  <2>1. sdu_queue' = sdu_queue /\ Len(sdu_queue) # 0
    BY <1>3 DEF DiscardSdu, TypeInv, TxInv, TxTypes
  <2>2. sdu_queue' # <<>>
    BY <2>1
  <2>3. QED
    BY <1>3, <2>2 DEF PollInv, QuietKept, Quiet, DiscardSdu
<1>4. ASSUME NEW grant \in 0..MaxGrant, PullPdu(grant)
      PROVE  PollInv' /\ QuietKept /\ UNCHANGED tx_next_ack /\ UNCHANGED status_air
  <2>1. grant \in Nat
    BY LinkAssumption
  <2>2. \/ BuildNewPdu(grant) \/ EmptyPull(grant)
        \/ BuildContinuedSduSegment(grant) \/ BuildRetxPdu(grant)
    BY <1>4 DEF PullPdu
  <2>3. UNCHANGED tx_next_ack /\ UNCHANGED status_air
    BY <2>2 DEF BuildNewPdu, EmptyPull, BuildContinuedSduSegment, BuildRetxPdu
  <2>4. QED
    BY <1>1, <2>1, <2>2, <2>3, NewQuiet, EmptyQuiet, ContinuedQuiet, RetxQuiet DEF QuietKept
<1>5. CASE UpdateMacBufferState
  BY <1>1, <1>5, SameQuiet, SamePoll DEF UpdateMacBufferState, poll_vars, DiscardedBehind
<1>6. CASE OnExpiredPollRetransmitTimer
  <2>1. SameWindow
    BY <1>6, PollGrows DEF TypeInv
  <2>2. PollInv' /\ ~Quiet'
    BY <1>6, <2>1, ExpiryQuiet
  <2>3. QED
    BY <1>6, <2>2 DEF QuietKept, OnExpiredPollRetransmitTimer
<1>7. QED
  BY <1>2, <1>3, <1>4, <1>5, <1>6 DEF SenderStep

(* handle_status_pdu.                                                      *)

(* A report that is not applied is gone.                                    *)
LEMMA RefusedMoves ==
  ASSUME TypeInv, TypeInv', ProtocolInv, ProtocolInv', PollInv, ReportInv, HandleStatusPdu,
         NEW b, status_air = <<b>>, Refused(b), UNCHANGED rx_vars
  PROVE  PollInv' /\ ReportInv'
<1>1. /\ Head(status_air) = b /\ status_air' = <<>>
      /\ UNCHANGED <<sdu_queue, tx_next, sn_under_segmentation, poll_sn,
                     is_poll_retransmit_timer_expired>>
  BY DEF HandleStatusPdu
<1>2. UNCHANGED <<upper, tx_next_ack, tx_window, retx_queue, poll_retransmit_timer>>
  BY <1>1 DEF HandleStatusPdu, Refused
<1>3. UNCHANGED <<trimmed, rx_next, rx_highest_status, report_vars>>
  BY DEF rx_vars
<1>4. DiscardedBehind' = DiscardedBehind
  BY <1>2 DEF DiscardedBehind
<1>5. PollInv'
  BY <1>1, <1>2, <1>4, SamePoll
<1>6. QuietKept
  <2>1. Top' = Top /\ Segmenting' = Segmenting
    BY <1>1, <1>2 DEF Top, Segmenting, TxMod
  <2>2. Quiet' => Quiet
    BY <1>1, <1>2, <1>3, <1>4, <2>1 DEF Quiet
  <2>3. QED
    BY <1>2, <2>1, <2>2 DEF QuietKept
<1>7. \A r \in Reports' : r \in Reports
  BY <1>1, <1>3 DEF Reports, report_vars
<1>8. /\ TxMod(rx_next) <= TxMod(rx_next)'
      /\ TxMod(rx_highest_status) <= TxMod(rx_highest_status)'
  <2>1. /\ TxMod(rx_next)' = TxMod(rx_next)
        /\ TxMod(rx_highest_status)' = TxMod(rx_highest_status)
    BY <1>2, <1>3 DEF TxMod
  <2>2. HighestPlace
    BY HighestNow DEF ProtocolInv
  <2>3. QED
    BY <2>1, <2>2 DEF HighestPlace
<1>9. ReportInv'
  BY <1>2, <1>6, <1>7, <1>8, ReportsMove DEF QuietKept
<1>10. QED
  BY <1>5, <1>9

(* After a report was applied, distances are smaller by what it confirmed,  *)
(* and a report that still counts acknowledges more.                       *)
LEMMA Closer ==
  ASSUME TypeInv, ProtocolInv, KeptInTime, NEW na, Advanced(na)
  PROVE  /\ TxMod(na) \in Nat /\ TxMod(na) <= TxMod(rx_next) /\ TxMod(na) <= am_window_size
         /\ \A sn \in SN : TxMod(na) <= TxMod(sn) => TxMod(sn)' = TxMod(sn) - TxMod(na)
         /\ \A r \in Sendable : ValidAckSn(r.ack)' => ValidAckSn(r.ack) /\ TxMod(na) < TxMod(r.ack)
<1>1. /\ na \in SN /\ tx_next_ack \in SN /\ tx_next_ack' = na /\ TxMod(na) \in Nat
      /\ am_window_size \in Nat /\ Mod = 2 * am_window_size
      /\ TxMod(na) <= TxMod(rx_next)
      /\ \A sn \in SN : TxMod(sn) \in Nat
  BY Distances DEF Advanced
<1>2. TxMod(na) <= am_window_size
  <2>1. HighestPlace
    BY HighestNow DEF ProtocolInv
  <2>2. QED
    BY <1>1, <2>1 DEF HighestPlace
<1>3. ASSUME NEW sn \in SN
      PROVE  TxMod(sn)' = IF TxMod(sn) >= TxMod(na) THEN TxMod(sn) - TxMod(na)
                          ELSE TxMod(sn) - TxMod(na) + Mod
  BY <1>1, Rebase DEF TxMod
<1>4. ASSUME NEW sn \in SN, TxMod(na) <= TxMod(sn)
      PROVE  TxMod(sn)' = TxMod(sn) - TxMod(na)
  BY <1>1, <1>3, <1>4
<1>5. ASSUME NEW r \in Sendable, ValidAckSn(r.ack)'
      PROVE  ValidAckSn(r.ack) /\ TxMod(na) < TxMod(r.ack)
  <2>1. ValidAckSn(r.ack)
    BY <1>5 DEF KeptInTime
  <2>2. r.ack \in SN
    BY SendableIs DEF ReportSet
  <2>3. TxMod(r.ack) \in 1..am_window_size /\ TxMod(r.ack)' \in 1..am_window_size
    BY <1>5, <2>1 DEF ValidAckSn
  <2> DEFINE a == TxMod(r.ack)
             k == TxMod(na)
             a1 == TxMod(r.ack)'
  <2>4. a1 = IF a >= k THEN a - k ELSE a - k + Mod
    BY <1>3, <2>2
  <2>5. a \in 1..am_window_size /\ a1 \in 1..am_window_size /\ k \in Nat /\ k <= am_window_size
    BY <1>1, <1>2, <2>3
  <2> HIDE DEF a, k, a1
  <2>6. k < a
    BY <1>1, <2>4, <2>5
  <2>7. QED
    BY <2>1, <2>6 DEF k, a
<1>6. QED
  BY <1>1, <1>2, <1>4, <1>5

(* The reports that are left when the one in flight was applied.            *)
LEMMA ReportsLeft ==
  ASSUME TypeInv, status_air' = <<>>, UNCHANGED report_vars, NEW r, r \in Reports'
  PROVE  r \in Reports /\ r \in Sendable /\ r.ack \in SN /\ StopOf(r) \in SN
<1>1. r \in {status_cached, status_shared} /\ Len(r.nacks) <= MaxFit
  <2>1. \A x : status_air' # <<x>>
    OBVIOUS
  <2>2. QED
    BY <2>1 DEF Reports, report_vars
<1>2. r \in Reports
  BY <1>1 DEF Reports
<1>3. Trim(r, MaxFit) = r /\ MaxFit \in 0..MaxFit
  BY <1>1, LinkAssumption DEF Trim
<1>4. r \in Sendable
  BY <1>1, <1>3 DEF Sendable
<1>5. r \in ReportSet
  BY <1>4, SendableIs
<1>6. QED
  BY <1>2, <1>4, <1>5, StopIsSn

(* If all is quiet after the report was applied, it asked for something,    *)
(* and what another report acknowledges goes to the end.                   *)
LEMMA AppliedQuiet ==
  ASSUME TypeInv, ProtocolInv, PollInv, ReportInv, ~DiscardedBehind, ~trimmed,
         ~is_poll_retransmit_timer_expired, sdu_queue = <<>>, ~Segmenting,
         NEW b \in Reports, ValidAckSn(b.ack), TxMod(StopOf(b)) < Top,
         ~(poll_retransmit_timer /\ TxMod(poll_sn) >= TxMod(b.ack))
  PROVE  /\ b.nacks # <<>> /\ TxMod(rx_highest_status) >= Top
         /\ \A r \in Reports : r.nacks = <<>> /\ ValidAckSn(r.ack) =>
              TxMod(r.ack) >= Top \/ TxMod(r.ack) <= TxMod(StopOf(b))
<1>1. /\ Top \in Nat /\ Top = TxMod(tx_next) /\ tx_next \in SN /\ tx_next_ack \in SN
      /\ \A sn \in SN : TxMod(sn) \in Nat
      /\ poll_sn \in SN /\ DOMAIN tx_window \subseteq SN
  BY Distances DEF TypeInv, TxInv, TxTypes, Top
<1>2. HighestPlace
  BY HighestNow DEF ProtocolInv
<1>3. ASSUME NEW r \in Reports
      PROVE  r.ack \in SN /\ StopOf(r) \in SN /\ TxMod(r.ack) \in Nat /\ TxMod(StopOf(r)) \in Nat
  BY <1>1, <1>3, ReportsAre DEF ProtocolInv
<1>4. b.nacks = <<>> => StopOf(b) = b.ack
  BY DEF StopOf
<1>5. CASE poll_retransmit_timer
  <2>1. TxMod(poll_sn) < TxMod(b.ack)
    BY <1>1, <1>3, <1>5
  <2>2. tx_next # tx_next_ack
    <3>1. TxMod(tx_next_ack) = 0
      BY <1>1, Rebase DEF TxMod
    <3>2. QED
      BY <1>1, <1>3, <3>1
  <2>3. (poll_sn + 1) % Mod = tx_next
    BY <2>2 DEF PollInv
  <2>4. TxMod(tx_next) = IF TxMod(poll_sn) = Mod - 1 THEN 0 ELSE TxMod(poll_sn) + 1
    BY <1>1, <2>3, AheadIs DEF TxMod
  <2>5. TxMod(b.ack) >= Top
    BY <1>1, <1>3, <2>1, <2>4
  <2>6. TxMod(rx_highest_status) >= TxMod(b.ack)
    BY DEF ReportInv, AckInv
  <2>7. b.nacks # <<>> /\ TxMod(rx_highest_status) >= Top
    BY <1>1, <1>2, <1>3, <1>4, <2>5, <2>6 DEF HighestPlace
  <2>8. ASSUME NEW r \in Reports, r.nacks = <<>>, ValidAckSn(r.ack)
        PROVE  TxMod(r.ack) >= Top \/ TxMod(r.ack) <= TxMod(StopOf(b))
    <3>1. TxMod(r.ack) <= TxMod(StopOf(b)) \/ TxMod(r.ack) >= TxMod(b.ack)
      BY <2>8 DEF ReportInv, TurnInv
    <3>2. QED
      BY <1>1, <1>3, <2>5, <2>8, <3>1
  <2>9. QED
    BY <2>7, <2>8
<1>6. CASE ~poll_retransmit_timer
  <2>1. DOMAIN tx_window # {}
    BY <1>1, <1>3 DEF ProtocolInv, SendInv
  <2>2. Quiet
    BY <1>6, <2>1 DEF Quiet
  <2>3. /\ TxMod(rx_highest_status) >= Top
        /\ \A r \in Reports : r.nacks = <<>> /\ ValidAckSn(r.ack) => TxMod(r.ack) >= Top
    BY <2>2 DEF ReportInv, QuietInv
  <2>4. b.nacks # <<>>
    BY <1>1, <1>3, <1>4, <2>3
  <2>5. QED
    BY <2>3, <2>4
<1>7. QED
  BY <1>5, <1>6

(* The poll stays on the last PDU when a report is applied.                 *)
LEMMA AppliedPoll ==
  ASSUME TypeInv, ProtocolInv, PollInv, UNCHANGED <<sdu_queue, poll_sn>>, NEW na, Advanced(na),
         DiscardedBehind => DiscardedBehind'
  PROVE  PollInv'
<1>1. /\ UNCHANGED <<tx_next, sn_under_segmentation>> /\ na \in SN /\ tx_next_ack' = na
      /\ tx_next \in SN /\ tx_next_ack \in SN
      /\ TxMod(na) <= TxMod(rx_next) /\ TxMod(rx_next) <= TxMod(tx_next)
      /\ TxMod(na) \in Nat /\ TxMod(rx_next) \in Nat /\ TxMod(tx_next) \in Nat
  BY Distances DEF Advanced, ProtocolInv, LinkInv
<1>2. Segmenting' = Segmenting
  BY <1>1 DEF Segmenting
<1>3. ASSUME tx_next = tx_next_ack PROVE tx_next_ack' = tx_next_ack
  <2>1. TxMod(tx_next) = 0
    BY <1>1, <1>3, Rebase DEF TxMod
  <2>2. TxMod(na) = 0
    BY <1>1, <2>1
  <2>3. TxMod(na) = TxMod(tx_next_ack)
    BY <1>3, <2>1, <2>2
  <2>4. na = tx_next_ack
    BY <1>1, <2>3, Rebase DEF TxMod
  <2>5. QED
    BY <1>1, <2>4
<1>4. tx_next' # tx_next_ack' => tx_next # tx_next_ack
  BY <1>1, <1>3
<1>5. QED
  BY <1>1, <1>2, <1>4 DEF PollInv

(* A report that is applied stops the timer only if it asks for something   *)
(* or leaves nothing that waits.                                           *)
LEMMA AppliedMoves ==
  ASSUME TypeInv, TypeInv', ProtocolInv, ProtocolInv', KeptInTime, ~released, HandleStatusPdu,
         PollInv, ReportInv, DiscardedBehind => DiscardedBehind',
         NEW b, WellFormed(b), status_air = <<b>>, ~Refused(b), UNCHANGED rx_vars
  PROVE  PollInv' /\ ReportInv'
<1>1. PICK na : na = StopOf(b)
  OBVIOUS
<1>2. Advanced(na) /\ (b.nacks # <<>> /\ ~Segmenting => retx_queue' # <<>>)
  BY <1>1, StatusAdvances
<1>3. /\ Head(status_air) = b /\ status_air' = <<>>
      /\ UNCHANGED <<sdu_queue, poll_sn, is_poll_retransmit_timer_expired>>
  BY DEF HandleStatusPdu
<1>4. poll_retransmit_timer' = (poll_retransmit_timer /\ TxMod(poll_sn) >= TxMod(b.ack))
  BY <1>3 DEF HandleStatusPdu, Refused
<1>5. UNCHANGED <<trimmed, rx_next, rx_highest_status, report_vars>>
  BY DEF rx_vars
<1>6. PollInv'
  BY <1>2, <1>3, AppliedPoll
<1>7. b \in Reports /\ ValidAckSn(b.ack)
  BY NotRefused DEF Reports, WellFormed
<1>8. /\ TxMod(na) \in Nat /\ TxMod(na) <= TxMod(rx_next)
      /\ \A sn \in SN : TxMod(na) <= TxMod(sn) => TxMod(sn)' = TxMod(sn) - TxMod(na)
      /\ \A r \in Sendable : ValidAckSn(r.ack)' => ValidAckSn(r.ack) /\ TxMod(na) < TxMod(r.ack)
  BY <1>2, Closer
<1>9. HighestPlace /\ \A sn \in SN : TxMod(sn) \in Nat
  BY HighestNow, Distances DEF ProtocolInv
<1>10. ASSUME NEW r, r \in Reports', ValidAckSn(r.ack)'
       PROVE  /\ r \in Reports /\ ValidAckSn(r.ack) /\ r.ack \in SN /\ StopOf(r) \in SN
              /\ TxMod(na) < TxMod(r.ack) /\ TxMod(r.ack)' = TxMod(r.ack) - TxMod(na)
              /\ TxMod(r.ack) \in Nat /\ TxMod(StopOf(r)) \in Nat
  <2>1. r \in Reports /\ r \in Sendable /\ r.ack \in SN /\ StopOf(r) \in SN
    BY <1>3, <1>5, <1>10, ReportsLeft
  <2>2. ValidAckSn(r.ack) /\ TxMod(na) < TxMod(r.ack)
    BY <1>8, <1>10, <2>1
  <2>3. TxMod(r.ack) \in Nat /\ TxMod(StopOf(r)) \in Nat
    BY <1>9, <2>1
  <2>4. TxMod(na) <= TxMod(r.ack)
    BY <1>8, <2>2, <2>3
  <2>5. QED
    BY <1>8, <2>1, <2>2, <2>3, <2>4
<1>11. /\ TxMod(rx_highest_status)' = TxMod(rx_highest_status) - TxMod(na)
       /\ TxMod(rx_highest_status) \in Nat
  <2>1. PICK h : h = rx_highest_status
    OBVIOUS
  <2>2. h \in SN /\ TxMod(na) <= TxMod(h) /\ TxMod(h) \in Nat
    BY <1>8, <1>9, <2>1 DEF HighestPlace
  <2>3. TxMod(h)' = TxMod(h) - TxMod(na)
    BY <1>8, <2>2
  <2>4. TxMod(rx_highest_status)' = TxMod(h)'
    BY <1>5, <2>1 DEF TxMod
  <2>5. QED
    BY <2>1, <2>2, <2>3, <2>4
<1>12. AckInv'
  <2>1. SUFFICES ASSUME NEW r, r \in Reports', ValidAckSn(r.ack)'
                 PROVE  TxMod(r.ack)' <= TxMod(rx_highest_status)'
    BY DEF AckInv
  <2>2. TxMod(r.ack) <= TxMod(rx_highest_status)
    BY <1>10, <2>1 DEF ReportInv, AckInv
  <2>3. QED
    BY <1>8, <1>10, <1>11, <2>1, <2>2
<1>13. TurnInv'
  <2>1. SUFFICES ASSUME NEW r, NEW c, r \in Reports', c \in Reports', r.nacks = <<>>,
                        ValidAckSn(r.ack)', ValidAckSn(c.ack)'
                 PROVE  TxMod(r.ack)' <= TxMod(StopOf(c))' \/ TxMod(r.ack)' >= TxMod(c.ack)'
    BY DEF TurnInv
  <2>2. TxMod(r.ack) <= TxMod(StopOf(c)) \/ TxMod(r.ack) >= TxMod(c.ack)
    BY <1>10, <2>1 DEF ReportInv, TurnInv
  <2>3. PICK x : x = StopOf(c)
    OBVIOUS
  <2>4. TxMod(StopOf(c))' = TxMod(x)' /\ TxMod(StopOf(c)) = TxMod(x)
    BY <2>3 DEF StopOf, TxMod
  <2>5. x \in SN /\ TxMod(x) \in Nat
    BY <1>9, <1>10, <2>1, <2>3
  <2>6. CASE TxMod(r.ack) <= TxMod(x)
    <3>1. TxMod(na) <= TxMod(x)
      BY <1>8, <1>10, <2>1, <2>5, <2>6
    <3>2. TxMod(x)' = TxMod(x) - TxMod(na)
      BY <1>8, <2>5, <3>1
    <3>3. QED
      BY <1>8, <1>10, <2>1, <2>4, <2>5, <2>6, <3>2
  <2>7. CASE TxMod(r.ack) >= TxMod(c.ack)
    BY <1>8, <1>10, <2>1, <2>7
  <2>8. QED
    BY <2>2, <2>4, <2>6, <2>7
<1>14. QuietInv'
  <2>1. SUFFICES ASSUME Quiet'
                 PROVE  /\ retx_queue' # <<>>
                        /\ TxMod(rx_highest_status)' >= Top'
                        /\ \A r \in Reports' : r.nacks = <<>> /\ ValidAckSn(r.ack)'
                                              => TxMod(r.ack)' >= Top'
    BY DEF QuietInv
  <2>2. UNCHANGED <<tx_next, sn_under_segmentation>> /\ tx_next_ack' = na /\ na \in SN
    BY <1>2 DEF Advanced
  <2>3. /\ ~DiscardedBehind /\ ~trimmed /\ ~is_poll_retransmit_timer_expired /\ sdu_queue = <<>>
        /\ ~Segmenting /\ ~Segmenting' /\ ~poll_retransmit_timer' /\ DOMAIN tx_window' # {}
    BY <1>3, <1>5, <2>1, <2>2 DEF Quiet, Segmenting
  <2>4. /\ Top \in Nat /\ Top = TxMod(tx_next) /\ tx_next \in SN /\ DOMAIN tx_window \subseteq SN
    BY <2>3, Distances DEF Top
  <2>5. TxMod(na) < Top
    <3>1. PICK sn \in DOMAIN tx_window' : TRUE
      BY <2>3
    <3>2. sn \in DOMAIN tx_window /\ ~(TxMod(sn) < TxMod(na))
      BY <1>2 DEF Advanced
    <3>3. sn \in SN /\ TxMod(sn) < Top
      BY <2>4, <3>2 DEF ProtocolInv, SendInv
    <3>4. QED
      BY <1>8, <1>9, <2>4, <3>2, <3>3
  <2>6. Top' = Top - TxMod(na)
    <3>1. PICK n : n = tx_next
      OBVIOUS
    <3>2. TxMod(n)' = TxMod(n) - TxMod(na)
      BY <1>8, <1>9, <2>4, <2>5, <3>1
    <3>3. Top' = TxMod(n)'
      BY <2>2, <2>3, <3>1 DEF Top, TxMod
    <3>4. QED
      BY <2>4, <3>1, <3>2, <3>3
  <2>7. /\ b.nacks # <<>> /\ TxMod(rx_highest_status) >= Top
        /\ \A r \in Reports : r.nacks = <<>> /\ ValidAckSn(r.ack) =>
             TxMod(r.ack) >= Top \/ TxMod(r.ack) <= TxMod(na)
    BY <1>1, <1>4, <1>7, <2>3, <2>5, AppliedQuiet
  <2>8. retx_queue' # <<>>
    BY <1>2, <2>3, <2>7
  <2>9. TxMod(rx_highest_status)' >= Top'
    BY <1>8, <1>11, <2>4, <2>6, <2>7
  <2>10. ASSUME NEW r, r \in Reports', r.nacks = <<>>, ValidAckSn(r.ack)'
         PROVE  TxMod(r.ack)' >= Top'
    <3>1. TxMod(r.ack) >= Top
      BY <1>8, <1>10, <2>7, <2>10
    <3>2. QED
      BY <1>8, <1>10, <2>4, <2>6, <2>10, <3>1
  <2>11. QED
    BY <2>8, <2>9, <2>10
<1>15. QED
  BY <1>6, <1>12, <1>13, <1>14 DEF ReportInv

(* A report that a grant leaves whole fits the grant.                       *)
LEMMA TrimFits ==
  ASSUME NEW r \in ReportSet, NEW fit \in Nat, Trim(r, fit) = r
  PROVE  Len(r.nacks) <= fit
<1>1. r.nacks \in Seq(NackSet) /\ Len(r.nacks) \in Nat
  BY DEF ReportSet
<1>2. SUFFICES ASSUME ~(Len(r.nacks) <= fit) PROVE FALSE
  OBVIOUS
<1> DEFINE ack == r.nacks[fit + 1].sn
           T == {0} \cup {n \in 1..fit : r.nacks[n].sn # ack}
           kept == Max(T)
<1>3. r = [ack |-> ack, nacks |-> [n \in 1..kept |-> r.nacks[n]]]
  BY <1>2 DEF Trim
<1>4. kept \in 0..fit
  <2>1. T \in SUBSET Nat /\ T # {} /\ \A x \in T : x <= fit
    OBVIOUS
  <2>2. T \subseteq 0..fit
    OBVIOUS
  <2> HIDE DEF T
  <2>3. QED
    BY <2>1, <2>2, MaxIs
<1> HIDE DEF kept
<1>5. DOMAIN r.nacks = 1..kept
  BY <1>3
<1>6. fit + 1 \in 1..Len(r.nacks) /\ fit + 1 \notin 1..kept
  BY <1>1, <1>2, <1>4
<1>7. PICK s \in Seq(NackSet) : s = r.nacks
  BY <1>1
<1>8. DOMAIN s = 1..Len(s) /\ DOMAIN s = 1..kept /\ fit + 1 \in 1..Len(s)
  BY <1>5, <1>6, <1>7
<1>9. QED
  BY <1>6, <1>8

(* As long as no report was trimmed, a report is an old one or the latest.  *)
LEMMA ReceiverReports ==
  ASSUME TypeInv, ReceiverStep, ~trimmed'
  PROVE  /\ ~trimmed
         /\ \A r \in Reports' : r \in Reports \/ r = StatusReport(rx_window', rx_next', rx_highest_status')
<1>1. ASSUME UNCHANGED <<report_vars, status_air>> PROVE \A r \in Reports' : r \in Reports
  BY <1>1 DEF Reports, report_vars
<1>2. ASSUME Refreshed, UNCHANGED status_air, NEW r \in Reports'
      PROVE  r \in Reports \/ r = StatusReport(rx_window', rx_next', rx_highest_status')
  BY <1>2 DEF Reports, Refreshed
<1>3. CASE \/ GetStatusPdu \/ OnExpiredStatusProhibitTimer \/ OnExpiredReassemblyTimer
           \/ UpdateOwnBufferState \/ OtherDirection
  <2>1. UNCHANGED <<trimmed, status_air>> /\ (UNCHANGED report_vars \/ Refreshed)
    BY <1>3 DEF GetStatusPdu, OnExpiredStatusProhibitTimer, OnExpiredReassemblyTimer, report_vars,
                UpdateOwnBufferState, OtherDirection, Refreshed, RefreshStatusReport
  <2>2. QED
    BY <1>1, <1>2, <2>1
<1>4. CASE HandleDataPdu
  <2>1. UNCHANGED trimmed
    BY <1>4 DEF HandleDataPdu
  <2>2. UNCHANGED status_air /\ (UNCHANGED report_vars \/ Refreshed)
    BY <1>4, ArrivalIs
  <2>3. QED
    BY <1>1, <1>2, <2>1, <2>2
<1>5. ASSUME NEW fit \in 0..MaxFit, SendStatusPdu(fit)
      PROVE  ~trimmed /\ \A r \in Reports' : r \in Reports
  <2>1. /\ status_shared' = Trim(status_cached, fit) /\ status_cached' = status_shared
        /\ trimmed' = (trimmed \/ status_shared' # status_cached)
        /\ status_air' \in {<<>>, <<status_shared'>>}
    BY <1>5 DEF SendStatusPdu, TransmitStatus
  <2>2. ~trimmed /\ status_shared' = status_cached
    BY <2>1
  <2>3. status_cached \in ReportSet /\ fit \in Nat /\ fit <= MaxFit /\ MaxFit \in Nat
    BY LinkAssumption DEF TypeInv, ReportTypes, WellFormed
  <2>4. Len(status_cached.nacks) <= MaxFit
    <3>1. Trim(status_cached, fit) = status_cached
      BY <2>1, <2>2
    <3>2. Len(status_cached.nacks) <= fit
      BY <2>3, <3>1, TrimFits
    <3>3. status_cached.nacks \in Seq(NackSet)
      BY <2>3 DEF ReportSet
    <3>4. QED
      BY <2>3, <3>2, <3>3
  <2>5. ASSUME NEW r \in Reports' PROVE r \in Reports
    <3>1. CASE r \in {status_cached', status_shared'} /\ Len(r.nacks) <= MaxFit
      BY <2>1, <2>2, <3>1 DEF Reports
    <3>2. CASE status_air' = <<r>>
      <4>1. <<r>>[1] = r /\ <<status_cached>>[1] = status_cached
        OBVIOUS
      <4>2. r = status_cached
        BY <2>1, <2>2, <3>2, <4>1
      <4>3. QED
        BY <2>4, <4>2 DEF Reports
    <3>3. QED
      BY <2>5, <3>1, <3>2 DEF Reports
  <2>6. QED
    BY <2>2, <2>5
<1>6. QED
  BY <1>3, <1>4, <1>5 DEF ReceiverStep

(* PDCP is told of a discarded SDU no more, and it stays behind all that     *)
(* wait unless another SDU is sent.                                         *)
LEMMA DiscardedStays ==
  ASSUME TypeInv, ServiceStep, DiscardedBehind, DOMAIN tx_window' \subseteq DOMAIN tx_window,
         \A sn \in DOMAIN tx_window' : tx_window'[sn].sdu = tx_window[sn].sdu
  PROVE  DiscardedBehind'
<1>1. PICK i \in Sdus : upper[i] = "discarded" /\ \A sn \in DOMAIN tx_window : tx_window[sn].sdu < i
  BY DEF DiscardedBehind
<1>2. upper \in [Sdus -> UpperStates] /\ Peer!ServiceSdus = Sdus
  BY DEF TypeInv, TxInv, TxTypes, Peer!ServiceSdus, Sdus
<1>3. UNCHANGED upper \/ \E j \in Sdus : Peer!Offer(j) \/ Peer!Discard(j) \/ Peer!Confirm(j)
  BY <1>2 DEF ServiceStep, Peer!ServiceNext, Peer!Deliver
<1>4. ASSUME NEW j \in Sdus, Peer!Offer(j) \/ Peer!Discard(j)
      PROVE  upper'[i] = "discarded"
  <2>1. j # i /\ \E answer : upper' = [upper EXCEPT ![j] = answer]
    BY <1>1, <1>4 DEF Peer!Offer, Peer!Discard
  <2>2. QED
    BY <1>1, <1>2, <2>1
<1>5. ASSUME NEW j \in Sdus, Peer!Confirm(j)
      PROVE  upper'[i] = "discarded"
  BY <1>1, <1>2, <1>5 DEF Peer!Confirm
<1>6. upper'[i] = "discarded"
  BY <1>1, <1>3, <1>4, <1>5
<1>7. \A sn \in DOMAIN tx_window' : tx_window'[sn].sdu < i
  BY <1>1
<1>8. QED
  BY <1>6, <1>7 DEF DiscardedBehind

(* The steps of the receiver keep StallInv.                                 *)
LEMMA ReceiverStall ==
  ASSUME TypeInv, TypeInv', ReassemblyAssertions, ProtocolInv, ProtocolInv', FlightInWindow, HighestGrows,
         ReceiverStep, UNCHANGED tx_vars, StallInv
  PROVE  StallInv'
<1>1. /\ UNCHANGED <<sdu_queue, retx_queue, tx_window, sn_under_segmentation, tx_next, tx_next_ack,
                     poll_vars, upper>>
  BY DEF tx_vars
<1>2. DiscardedBehind' = DiscardedBehind
  BY <1>1 DEF DiscardedBehind
<1>3. PollInv'
  BY <1>1, <1>2, SamePoll DEF StallInv, poll_vars
<1>4. ASSUME ~trimmed' PROVE ReportInv'
  <2>1. /\ ~trimmed
        /\ \A r \in Reports' : r \in Reports \/ r = StatusReport(rx_window', rx_next', rx_highest_status')
    BY <1>4, ReceiverReports
  <2>2. trimmed' = trimmed
    BY <1>4, <2>1 DEF TypeInv, ReportTypes
  <2>3. QuietKept
    BY <1>1, <1>2, <2>2, SameQuiet
  <2>4. TxMod(rx_next) <= TxMod(rx_next)'
    BY ReceiverKeepsProtocol
  <2>5. TxMod(rx_highest_status) <= TxMod(rx_highest_status)'
    BY <1>1, <2>4, HighestMoves
  <2>6. ReportInv
    BY <2>1 DEF StallInv
  <2>7. QED
    BY <1>1, <2>1, <2>3, <2>4, <2>5, <2>6, ReportsMove DEF QuietKept
<1>5. QED
  BY <1>3, <1>4 DEF StallInv

(* A step that makes no report and confirms nothing keeps ReportInv.        *)
LEMMA SteadyReports ==
  ASSUME TypeInv, TypeInv', ProtocolInv, ProtocolInv', UNCHANGED rx_vars, UNCHANGED tx_next_ack,
         UNCHANGED status_air, QuietKept, ReportInv
  PROVE  ReportInv'
<1>1. UNCHANGED <<rx_next, rx_highest_status, report_vars>>
  BY DEF rx_vars
<1>2. \A r \in Reports' : r \in Reports
  BY <1>1 DEF Reports, report_vars
<1>3. /\ TxMod(rx_next) <= TxMod(rx_next)'
      /\ TxMod(rx_highest_status) <= TxMod(rx_highest_status)'
  <2>1. /\ TxMod(rx_next)' = TxMod(rx_next)
        /\ TxMod(rx_highest_status)' = TxMod(rx_highest_status)
    BY <1>1 DEF TxMod
  <2>2. HighestPlace
    BY HighestNow DEF ProtocolInv
  <2>3. QED
    BY <2>1, <2>2 DEF HighestPlace
<1>4. QED
  BY <1>2, <1>3, ReportsMove DEF QuietKept

(* The steps of the sender keep StallInv.                                   *)
LEMMA SenderStall ==
  ASSUME TypeInv, TypeInv', ProtocolInv, ProtocolInv', KeptInTime, ~released, SenderStep,
         UNCHANGED rx_vars, ServiceInv, ServiceStep, StallInv
  PROVE  StallInv'
<1>1. UNCHANGED trimmed
  BY DEF rx_vars
<1>2. CASE ~HandleStatusPdu
  <2>1. PollInv' /\ QuietKept /\ UNCHANGED tx_next_ack /\ UNCHANGED status_air
    BY <1>2, SenderStaysQuiet DEF ProtocolInv, StallInv
  <2>2. ReportInv => ReportInv'
    BY <2>1, SteadyReports
  <2>3. QED
    BY <1>1, <2>1, <2>2 DEF StallInv
<1>3. CASE HandleStatusPdu
  <2>1. PICK b : WellFormed(b) /\ status_air = <<b>>
    BY <1>3 DEF TypeInv, ReportTypes, HandleStatusPdu
  <2>0. DiscardedBehind => DiscardedBehind'
    <3>1. CASE ~Refused(b)
      <4>1. PICK na : na = StopOf(b)
        OBVIOUS
      <4>2. Advanced(na)
        BY <1>3, <2>1, <3>1, <4>1, StatusAdvances
      <4>3. /\ DOMAIN tx_window' \subseteq DOMAIN tx_window
            /\ \A sn \in DOMAIN tx_window' : tx_window'[sn].sdu = tx_window[sn].sdu
        BY <4>2 DEF Advanced
      <4>4. QED
        BY <4>3, DiscardedStays
    <3>2. CASE Refused(b)
      <4>1. Head(status_air) = b
        BY <2>1
      <4>2. UNCHANGED <<tx_window, upper>>
        BY <1>3, <3>2, <4>1 DEF HandleStatusPdu, Refused
      <4>3. QED
        BY <4>2 DEF DiscardedBehind
    <3>3. QED
      BY <3>1, <3>2
  <2>2. PollInv'
    <3>1. CASE ~Refused(b)
      <4>1. UNCHANGED <<sdu_queue, poll_sn>>
        BY <1>3 DEF HandleStatusPdu
      <4>2. PICK na : na = StopOf(b)
        OBVIOUS
      <4>3. Advanced(na)
        BY <1>3, <2>1, <3>1, <4>2, StatusAdvances
      <4>4. QED
        BY <2>0, <4>1, <4>3, AppliedPoll DEF StallInv
    <3>2. CASE Refused(b)
      <4>1. /\ Head(status_air) = b
            /\ UNCHANGED <<sdu_queue, sn_under_segmentation, tx_next, poll_sn>>
        BY <1>3, <2>1 DEF HandleStatusPdu
      <4>2. UNCHANGED tx_next_ack
        BY <1>3, <3>2, <4>1 DEF HandleStatusPdu, Refused
      <4>3. QED
        BY <2>0, <4>1, <4>2, SamePoll DEF StallInv
    <3>3. QED
      BY <3>1, <3>2
  <2>3. ReportInv => ReportInv'
    BY <1>3, <2>0, <2>1, AppliedMoves, RefusedMoves DEF StallInv
  <2>4. QED
    BY <1>1, <2>2, <2>3 DEF StallInv
<1>4. QED
  BY <1>2, <1>3

(* Stuttering keeps it.                                                     *)
LEMMA StutterStalls ==
  ASSUME TypeInv, TypeInv', ProtocolInv, ProtocolInv', UNCHANGED vars, StallInv
  PROVE  StallInv'
<1>1. /\ UNCHANGED <<sdu_queue, retx_queue, tx_window, sn_under_segmentation, tx_next, tx_next_ack,
                     poll_vars, upper, status_air, trimmed>>
      /\ UNCHANGED rx_vars
  BY DEF vars, tx_vars, rx_vars
<1>2. DiscardedBehind' = DiscardedBehind
  BY <1>1 DEF DiscardedBehind
<1>3. PollInv'
  BY <1>1, <1>2, SamePoll DEF StallInv, poll_vars
<1>4. QuietKept
  BY <1>1, <1>2, SameQuiet
<1>5. ReportInv => ReportInv'
  BY <1>1, <1>4, SteadyReports
<1>6. QED
  BY <1>1, <1>3, <1>5 DEF StallInv

(* Every step keeps it, as long as nothing outlives its window.             *)
LEMMA StallStep ==
  ASSUME TypeInv, TypeInv', ProtocolInv, ProtocolInv', FlightInWindow, [KeptInTime]_vars,
         ServiceInv, [Next]_vars, StallInv
  PROVE  StallInv'
<1>1. ReassemblyAssertions
  BY TypesStep
<1>2. HighestGrows
  BY RxStep, TypeInvIsTypeOK DEF TypeInv, TypeOK
<1>3. ServiceStep
  BY <1>1, ServiceIsKept
<1>4. CASE ~released /\ SenderStep /\ UNCHANGED rx_vars
  <2>1. CASE KeptInTime
    BY <1>3, <1>4, <2>1, SenderStall
  <2>2. CASE UNCHANGED vars
    BY <2>2, StutterStalls
  <2>3. QED
    BY <2>1, <2>2
<1>5. CASE ReceiverStep /\ UNCHANGED tx_vars
  BY <1>1, <1>2, <1>5, ReceiverStall
<1>6. CASE UNCHANGED vars
  BY <1>6, StutterStalls
<1>7. QED
  BY <1>4, <1>5, <1>6, StepSplits

(* Nothing was sent and no report counts initially.                         *)
LEMMA StallInitially ==
  ASSUME Init
  PROVE  StallInv
<1>1. /\ tx_next_ack = Start /\ tx_next = Start /\ tx_window = <<>> /\ status_air = <<>>
  BY DEF Init, TxInit
<1>2. PollInv
  BY <1>1 DEF PollInv
<1>3. DOMAIN tx_window = {}
  BY <1>1
<1>4. QuietInv
  BY <1>3 DEF QuietInv, Quiet
<1>5. ASSUME NEW r \in Reports PROVE ~ValidAckSn(r.ack)
  <2>1. r \in {status_cached, status_shared}
    <3>1. \A x : status_air # <<x>>
      BY <1>1
    <3>2. QED
      BY <3>1 DEF Reports
  <2>2. 0 \in 0..MaxFit
    BY LinkAssumption
  <2>3. TxMod(r.ack) \in {0, Mod - 1}
    BY <1>1, <2>1, <2>2, KeptInitially DEF TxMod
  <2>4. QED
    BY <2>3, WindowSize DEF ValidAckSn
<1>6. AckInv /\ TurnInv
  BY <1>5 DEF AckInv, TurnInv
<1>7. QED
  BY <1>2, <1>4, <1>6 DEF StallInv, ReportInv

(* The sums of get_buffer_state.                                            *)
LEMMA SumExists ==
  ASSUME NEW k \in Nat, NEW len, \A n \in 1..k : len[n] \in Nat
  PROVE  \E f : f = [n \in 0..k |-> IF n = 0 THEN 0 ELSE f[n - 1] + len[n]]
<1> DEFINE S == [n \in 0..k |-> Nat]
           step == [n \in 1..k |-> [a \in Nat |-> a + len[n]]]
<1>1. PICK f : FoldOf(f, k, Nat, S, step, 0)
  <2>1. S \in [0..k -> SUBSET Nat] /\ 0 \in S[0]
    OBVIOUS
  <2>2. ASSUME NEW n \in 1..k, NEW a \in S[n - 1] PROVE step[n][a] \in S[n]
    <3>1. n - 1 \in 0..k /\ n \in 0..k
      OBVIOUS
    <3>2. a \in Nat /\ S[n] = Nat /\ len[n] \in Nat
      BY <2>2, <3>1
    <3>3. step[n][a] = a + len[n]
      BY <2>2, <3>2
    <3> HIDE DEF S, step
    <3>4. QED
      BY <3>2, <3>3
  <2> HIDE DEF S, step
  <2>3. Stepping(k, Nat, S, step)
    BY <2>1, <2>2 DEF Stepping
  <2>4. QED
    BY <2>1, <2>3, Folded
<1> DEFINE g == [n \in 0..k |-> IF n = 0 THEN 0 ELSE f[n - 1] + len[n]]
<1>2. ASSUME NEW n \in 0..k PROVE f[n] = g[n]
  <2>1. CASE n = 0
    BY <1>1, <2>1 DEF FoldOf
  <2>2. CASE n # 0
    <3>1. n \in 1..k /\ n - 1 \in 0..k
      BY <2>2
    <3>2. f[n] = step[n][f[n - 1]] /\ f[n - 1] \in Nat
      BY <1>1, <3>1 DEF FoldOf
    <3>3. QED
      BY <2>2, <3>1, <3>2
  <2>3. QED
    BY <2>1, <2>2
<1>3. f = g
  <2>1. f = [n \in 0..k |-> f[n]] /\ g = [n \in 0..k |-> g[n]]
    BY <1>1 DEF FoldOf
  <2> HIDE DEF g
  <2>2. QED
    BY <1>2, <2>1
<1>4. QED
  BY <1>3

(* Such a sum is at least each of its terms.                                *)
LEMMA SumCovers ==
  ASSUME NEW k \in Nat, NEW len, \A n \in 1..k : len[n] \in Nat,
         NEW f, f = [n \in 0..k |-> IF n = 0 THEN 0 ELSE f[n - 1] + len[n]],
         NEW j \in 0..k
  PROVE  f[k] \in Nat /\ (j # 0 => f[k] >= len[j])
<1>1. f[0] = 0 /\ \A n \in 1..k : f[n] = f[n - 1] + len[n]
  <2>1. 0 \in 0..k /\ \A n \in 1..k : n \in 0..k /\ n # 0
    OBVIOUS
  <2>2. QED
    BY <2>1
<1> DEFINE S == [n \in 0..k |-> IF j = 0 \/ n < j THEN Nat ELSE {x \in Nat : x >= len[j]}]
<1>2. ASSUME NEW n \in 1..k, f[n - 1] \in S[n - 1] PROVE f[n] \in S[n]
  <2>1. n - 1 \in 0..k /\ n \in 0..k /\ n # 0 /\ len[n] \in Nat /\ j \in Nat
    OBVIOUS
  <2>2. f[n] = f[n - 1] + len[n]
    BY <1>1
  <2>3. f[n - 1] \in Nat
    BY <1>2, <2>1
  <2>4. f[n] \in Nat /\ f[n] >= f[n - 1] /\ f[n] >= len[n]
    BY <2>1, <2>2, <2>3
  <2>5. CASE j = 0 \/ n < j
    BY <2>1, <2>4, <2>5
  <2>6. CASE j # 0 /\ n = j
    BY <2>1, <2>4, <2>6
  <2>7. CASE j # 0 /\ n > j
    <3>1. j \in 1..k /\ len[j] \in Nat /\ ~(n - 1 < j) /\ ~(n < j)
      BY <2>1, <2>7
    <3>2. f[n - 1] >= len[j]
      BY <1>2, <2>1, <2>7, <3>1
    <3>3. f[n] >= len[j]
      BY <2>3, <2>4, <3>1, <3>2
    <3>4. QED
      BY <2>1, <2>4, <2>7, <3>1, <3>3
  <2>8. QED
    BY <2>1, <2>5, <2>6, <2>7
<1>3. f[0] \in S[0]
  BY <1>1
<1>4. S[k] = IF j = 0 \/ k < j THEN Nat ELSE {x \in Nat : x >= len[j]}
  OBVIOUS
<1> HIDE DEF S
<1>5. \A n \in 0..k : f[n] \in S[n]
  <2>1. \A n \in 1..k : f[n - 1] \in S[n - 1] => f[n] \in S[n]
    BY <1>2
  <2>2. QED
    BY <1>3, <2>1, FoldStays
<1>6. k \in 0..k
  OBVIOUS
<1>7. f[k] \in S[k]
  BY <1>5, <1>6
<1>8. QED
  BY <1>4, <1>7

(* With no bytes to send, only discarded SDUs are queued.                   *)
LEMMA NothingToSend ==
  ASSUME TypeInv, ProtocolInv, ~BytesToSend
  PROVE  /\ \A n \in 1..Len(sdu_queue) : upper[sdu_queue[n]] = "discarded"
         /\ retx_queue = <<>> /\ ~Segmenting
<1> DEFINE k  == Len(sdu_queue)
           m  == Len(retx_queue)
           Len0(n) == IF upper[sdu_queue[n]] = "discarded" THEN 0 ELSE SduLen[sdu_queue[n]]
           Queued(f) == f = [n \in 0..k |-> IF n = 0 THEN 0 ELSE f[n - 1] + Len0(n)]
           Retx(f) == f = [n \in 0..m |-> IF n = 0 THEN 0 ELSE f[n - 1] + retx_queue[n].len]
           q  == CHOOSE f : Queued(f)
           r  == CHOOSE f : Retx(f)
           info == tx_window[sn_under_segmentation]
           segment == IF sn_under_segmentation \notin DOMAIN tx_window THEN 0
                      ELSE SduLen[info.sdu] - info.next_so
           ql == [n \in 1..k |-> Len0(n)]
           rl == [n \in 1..m |-> retx_queue[n].len]
<1>1. GetBufferState = q[k] + segment + r[m]
  BY DEF GetBufferState
<1>2. sdu_queue \in Seq(Sdus) /\ retx_queue \in Seq(RetxSet) /\ k \in Nat /\ m \in Nat
  BY DEF TypeInv, TxInv, TxTypes, RetxTypes
<1>0. \A n \in 1..k : sdu_queue[n] \in Sdus
  BY <1>2
<1>3. \A n \in 1..k : ql[n] \in Nat
  BY <1>0, EndOfSduIs
<1>17. \A n \in 1..k : upper[sdu_queue[n]] # "discarded" => ql[n] # 0
  BY <1>0, EndOfSduIs
<1>18. \A n \in 1..k : ql[n] = Len0(n)
  OBVIOUS
<1>4. \A n \in 1..m : rl[n] = retx_queue[n].len /\ rl[n] \in Nat \ {0}
  <2>1. \A n \in 1..m : retx_queue[n] \in RetxSet
    BY <1>2
  <2>2. QED
    BY <2>1 DEF RetxSet
<1> HIDE DEF ql, rl, k, m, Len0
<1>5. ASSUME NEW f
      PROVE  Queued(f) <=> f = [n \in 0..k |-> IF n = 0 THEN 0 ELSE f[n - 1] + ql[n]]
  <2>1. \A n \in 0..k : n # 0 => Len0(n) = ql[n]
    BY <1>2, <1>18
  <2>2. QED
    BY <2>1
<1>6. ASSUME NEW f
      PROVE  Retx(f) <=> f = [n \in 0..m |-> IF n = 0 THEN 0 ELSE f[n - 1] + rl[n]]
  BY <1>2, <1>4
<1>7. \E f : Queued(f)
  <2>1. \E f : f = [n \in 0..k |-> IF n = 0 THEN 0 ELSE f[n - 1] + ql[n]]
    BY <1>2, <1>3, SumExists
  <2> HIDE DEF Queued
  <2>2. QED
    BY <1>5, <2>1
<1>8. \E f : Retx(f)
  <2>1. \E f : f = [n \in 0..m |-> IF n = 0 THEN 0 ELSE f[n - 1] + rl[n]]
    BY <1>2, <1>4, SumExists
  <2> HIDE DEF Retx
  <2>2. QED
    BY <1>6, <2>1
<1>9. Queued(q) /\ Retx(r)
  <2> HIDE DEF Queued, Retx
  <2>1. QED
    BY <1>7, <1>8, Zenon
<1> HIDE DEF q, r
<1>10. q[k] \in Nat /\ \A n \in 1..k : q[k] >= ql[n]
  <2>1. q = [n \in 0..k |-> IF n = 0 THEN 0 ELSE q[n - 1] + ql[n]]
    BY <1>5, <1>9
  <2>2. ASSUME NEW j \in 0..k PROVE q[k] \in Nat /\ (j # 0 => q[k] >= ql[j])
    BY <1>2, <1>3, <2>1, SumCovers
  <2>3. 0 \in 0..k /\ \A n \in 1..k : n \in 0..k /\ n # 0
    BY <1>2
  <2>4. QED
    BY <2>2, <2>3
<1>11. r[m] \in Nat /\ (m # 0 => r[m] > 0)
  <2>1. r = [n \in 0..m |-> IF n = 0 THEN 0 ELSE r[n - 1] + rl[n]]
    BY <1>6, <1>9
  <2>2. m \in 0..m /\ \A n \in 1..m : rl[n] \in Nat
    BY <1>2, <1>4
  <2>3. r[m] \in Nat /\ (m # 0 => r[m] >= rl[m])
    BY <1>2, <2>1, <2>2, SumCovers
  <2>4. m # 0 => rl[m] > 0
    BY <1>2, <1>4
  <2>5. QED
    BY <1>2, <1>4, <2>3, <2>4
<1>12. segment \in Nat /\ (Segmenting => segment > 0)
  <2>1. CASE Segmenting
    <3>1. /\ sn_under_segmentation = tx_next /\ Top = TxMod(tx_next) + 1 /\ tx_next \in SN
          /\ TxMod(tx_next) \in Nat
      BY <2>1, Distances DEF ProtocolInv, SendInv, Top
    <3>2. sn_under_segmentation \in DOMAIN tx_window
      BY <3>1 DEF ProtocolInv, SendInv
    <3>3. info.next_so \in 1..(SduLen[info.sdu] - 1)
      BY <3>2 DEF TypeInv, TxInv, SegInv, SegmentOk
    <3>4. info.sdu \in Sdus
      BY <3>2, SentIs
    <3>5. SduLen[info.sdu] \in Nat
      BY <3>4, EndOfSduIs
    <3> HIDE DEF info
    <3>6. QED
      BY <3>2, <3>3, <3>5
  <2>2. CASE ~Segmenting
    <3>1. sn_under_segmentation \notin DOMAIN tx_window
      BY <2>2, WindowSize DEF Segmenting, TypeInv, TxInv, TxTypes, SN, NoSn
    <3>2. QED
      BY <2>2, <3>1
  <2>3. QED
    BY <2>1, <2>2
<1> HIDE DEF segment, Queued, Retx
<1>13. ~(q[k] + segment + r[m] > 0)
  BY <1>1 DEF BytesToSend
<1>14. q[k] = 0 /\ m = 0 /\ ~Segmenting
  BY <1>2, <1>10, <1>11, <1>12, <1>13
<1>15. \A n \in 1..k : upper[sdu_queue[n]] = "discarded"
  <2>1. \A n \in 1..k : ql[n] = 0
    BY <1>3, <1>10, <1>14
  <2>2. QED
    BY <1>17, <2>1
<1>16. QED
  BY <1>2, <1>14, <1>15 DEF k, m

(* The property that the invariant gives.                                   *)
LEMMA StallIsSound ==
  ASSUME TypeInv, ProtocolInv, ServiceInv, StallInv
  PROVE  NoSilentStall
<1>1. SUFFICES ASSUME DOMAIN tx_window # {}, ~BytesToSend, ~poll_retransmit_timer, ~DiscardedBehind,
                      ~is_poll_retransmit_timer_expired, ~trimmed
               PROVE  FALSE
  BY DEF NoSilentStall
<1>2. sdu_queue = <<>> /\ retx_queue = <<>> /\ ~Segmenting
  BY <1>1, NothingToSend, QueuedIsBehind
<1>3. Quiet
  BY <1>1, <1>2 DEF Quiet
<1>4. QED
  BY <1>1, <1>2, <1>3 DEF StallInv, ReportInv, QuietInv

(* As long as nothing outlives its window, data that waits for an           *)
(* acknowledgement with nothing left to send is guarded by t-PollRetransmit *)
(* but for the three exceptions: a report that stops the timer always asks  *)
(* for something or confirms all that was sent.                            *)
THEOREM NoSilentStallHolds == Spec /\ []FlightInWindow /\ [][KeptInTime]_vars => []NoSilentStall
<1>1. Init => ServiceInv /\ StallInv
  BY ServiceInitially, StallInitially
<1>2. TypeInv /\ TypeInv' /\ ProtocolInv /\ ProtocolInv' /\ FlightInWindow /\ [KeptInTime]_vars
        /\ ServiceInv /\ StallInv /\ [Next]_vars
        => ServiceInv' /\ StallInv'
  BY TypesStep, ServiceIsKept, StallStep
<1>3. TypeInv /\ ProtocolInv /\ ServiceInv /\ StallInv => NoSilentStall
  BY StallIsSound
<1>4. QED
  BY <1>1, <1>2, <1>3, TypesHold, ProtocolHolds, PTL DEF Spec

-----------------------------------------------------------------------------
(* A bearer that carries fewer SDUs than half the SNs, less two.  Distances *)
(* are taken from the first SN here: no SN is used twice, so nothing that   *)
(* is in flight or kept is about another window than the one it was of.     *)

Few == Len(SduLen) + 1 < am_window_size

FromStart(sn) == Ahead(sn, Start)
Used == IF Segmenting THEN FromStart(tx_next) + 1 ELSE FromStart(tx_next)

FewSent == Few /\ Used <= Len(SduLen) /\ FromStart(tx_next_ack) <= FromStart(tx_next)

(* Each SDU that has no SN yet is preceded by those that have one.         *)
FewQueued ==
  /\ \A m \in 1..Len(sdu_queue) : sdu_queue[m] >= Used + m
  /\ \A i \in Sdus : upper[i] = "new" => i >= Used + Len(sdu_queue) + 1

FewFlight == \A n \in 1..Len(data_air) : FromStart(data_air[n].sn) < Used

FewKept == \A r \in Sendable : FromStart(r.ack) <= Used \/ FromStart(r.ack) = Mod - 1

FewInv == FewSent /\ FewQueued /\ FewFlight /\ FewKept

(* The sender's window, seen from the first SN.                            *)
WindowFromStart ==
  /\ FromStart(tx_next_ack) \in Nat /\ FromStart(tx_next) \in Nat /\ Used \in Nat
  /\ Used = FromStart(tx_next_ack) + Top
  /\ FromStart(tx_next) = FromStart(tx_next_ack) + TxMod(tx_next)
  /\ \A sn \in SN :
       /\ FromStart(sn) \in Nat /\ FromStart(sn) < Mod
       /\ TxMod(sn) = IF FromStart(sn) >= FromStart(tx_next_ack)
                      THEN FromStart(sn) - FromStart(tx_next_ack)
                      ELSE FromStart(sn) - FromStart(tx_next_ack) + Mod
       /\ TxMod(sn) <= Top => FromStart(sn) = FromStart(tx_next_ack) + TxMod(sn)

(* What Few says of the constants.                                         *)
LEMMA FewIs ==
  ASSUME Few
  PROVE  /\ Len(SduLen) \in Nat /\ Len(SduLen) + 1 < am_window_size /\ Start \in SN
         /\ Mod = 2 * am_window_size /\ am_window_size \in Nat /\ Sdus = 1..Len(SduLen)
<1>1. Len(SduLen) \in Nat
  BY TxAssumption
<1>2. QED
  BY <1>1, StatusAssumption, WindowSize DEF Few, SN, Sdus

(* The distances from the first SN and those in the window.                 *)
LEMMA FewWindow == TypeInv /\ FewSent => WindowFromStart
<1>1. SUFFICES ASSUME TypeInv, FewSent PROVE WindowFromStart
  OBVIOUS
<1> DEFINE A == FromStart(tx_next_ack)
           N == FromStart(tx_next)
           K == Len(SduLen)
<1>2. /\ K \in Nat /\ K + 1 < am_window_size /\ Start \in SN
      /\ Mod = 2 * am_window_size /\ am_window_size \in Nat
  BY <1>1, FewIs DEF FewSent
<1>3. /\ tx_next_ack \in SN /\ tx_next \in SN
      /\ \A sn \in SN : FromStart(sn) \in Nat /\ FromStart(sn) < Mod
  BY <1>1, <1>2, Distances, AheadNat DEF FromStart
<1>4. A \in Nat /\ N \in Nat /\ A <= N /\ Used \in Nat /\ Used <= K
  BY <1>1, <1>3 DEF FewSent, Used
<1>5. ASSUME NEW sn \in SN
      PROVE  TxMod(sn) = IF FromStart(sn) >= A THEN FromStart(sn) - A ELSE FromStart(sn) - A + Mod
  BY <1>2, <1>3, Rebase DEF TxMod, FromStart
<1>6. TxMod(tx_next) = N - A
  BY <1>3, <1>4, <1>5
<1> HIDE DEF A, N
<1>7. Used = A + Top
  <2>1. CASE Segmenting
    <3>1. Used = N + 1 /\ Top = (N - A) + 1
      BY <1>6, <2>1 DEF Used, Top, N
    <3>2. QED
      BY <1>4, <3>1
  <2>2. CASE ~Segmenting
    <3>1. Used = N /\ Top = N - A
      BY <1>6, <2>2 DEF Used, Top, N
    <3>2. QED
      BY <1>4, <3>1
  <2>3. QED
    BY <2>1, <2>2
<1>8. N = A + TxMod(tx_next)
  BY <1>4, <1>6
<1>9. ASSUME NEW sn \in SN, TxMod(sn) <= Top
      PROVE  FromStart(sn) = A + TxMod(sn)
  <2> DEFINE f == FromStart(sn)
             d == TxMod(sn)
  <2>1. f \in Nat /\ f < Mod /\ d = (IF f >= A THEN f - A ELSE f - A + Mod) /\ d <= Top
    BY <1>3, <1>5, <1>9
  <2>2. Top \in Nat
    BY <1>1, Distances
  <2> HIDE DEF f, d, K
  <2>3. f = A + d
    BY <1>2, <1>4, <1>7, <2>1, <2>2
  <2>4. QED
    BY <2>3 DEF f, d
<1>10. QED
  BY <1>3, <1>4, <1>5, <1>7, <1>8, <1>9 DEF WindowFromStart, A, N

(* As above, of the next state.                                             *)
LEMMA FewWindowNext == (TypeInv /\ FewSent)' => WindowFromStart'
  BY FewWindow, PTL

(* No data PDU in flight is taken for another.                             *)
LEMMA FewIsTimely ==
  ASSUME TypeInv, ProtocolInv, FewInv
  PROVE  FlightInWindow
<1>1. SUFFICES ASSUME NEW n \in 1..Len(data_air) PROVE Timely(data_air[n])
  BY DEF FlightInWindow
<1> DEFINE sn == data_air[n].sn
           f == FromStart(sn)
           d == TxMod(sn)
           R == TxMod(rx_next)
           A == FromStart(tx_next_ack)
           W == am_window_size
           K == Len(SduLen)
<1>2. sn \in SN
  <2>1. data_air[n] \in PduSet
    BY DEF TypeInv, AirInv
  <2>2. QED
    BY <2>1 DEF PduSet
<1>3. WindowFromStart
  BY FewWindow DEF FewInv
<1>4. /\ f \in Nat /\ f < Mod /\ A \in Nat
      /\ d = IF f >= A THEN f - A ELSE f - A + Mod
      /\ Used = A + Top /\ Used \in Nat
  BY <1>2, <1>3 DEF WindowFromStart
<1>5. f < Used /\ Used <= K
  BY DEF FewInv, FewFlight, FewSent
<1>6. K \in Nat /\ K + 1 < W /\ Mod = 2 * W /\ W \in Nat
  BY FewIs DEF FewInv, FewSent
<1>7. R \in Nat /\ Top \in Nat /\ R <= Top
  <2>1. R \in Nat /\ Top \in Nat /\ TxMod(rx_next_highest) \in Nat
    BY Distances
  <2>2. R <= TxMod(rx_next_highest) /\ TxMod(rx_next_highest) <= Top
    BY DEF ProtocolInv, LinkInv
  <2>3. QED
    BY <2>1, <2>2
<1> HIDE DEF f, d, R, A, W, K
<1>8. d < W \/ R + W <= d
  BY <1>4, <1>5, <1>6, <1>7
<1>9. QED
  BY <1>8 DEF Timely, d, R, W

(* The window moves ahead, and not beyond what was sent.                   *)
LEMMA FewAdvances ==
  ASSUME TypeInv, ProtocolInv, FewInv, NEW na, Advanced(na)
  PROVE  /\ FromStart(tx_next_ack) <= FromStart(na) /\ FromStart(na) <= FromStart(tx_next)
         /\ FromStart(na) \in Nat
<1>1. na \in SN /\ TxMod(na) <= TxMod(rx_next) /\ TxMod(rx_next) <= TxMod(tx_next)
  BY DEF Advanced, ProtocolInv, LinkInv
<1>2. /\ TxMod(na) \in Nat /\ TxMod(rx_next) \in Nat /\ TxMod(tx_next) \in Nat
      /\ Top \in {TxMod(tx_next), TxMod(tx_next) + 1}
  BY <1>1, Distances DEF Top
<1>3. TxMod(na) <= Top /\ TxMod(na) <= TxMod(tx_next)
  BY <1>1, <1>2
<1>4. WindowFromStart
  BY FewWindow DEF FewInv
<1>5. /\ FromStart(na) = FromStart(tx_next_ack) + TxMod(na)
      /\ FromStart(tx_next) = FromStart(tx_next_ack) + TxMod(tx_next)
      /\ FromStart(tx_next_ack) \in Nat /\ FromStart(na) \in Nat
  BY <1>1, <1>3, <1>4 DEF WindowFromStart
<1>6. QED
  BY <1>2, <1>3, <1>5

(* An ACK_SN that is not in the window does not get there as it moves.     *)
LEMMA FewInTime ==
  ASSUME TypeInv, ProtocolInv, FewInv, tx_next_ack' \in SN,
         FromStart(tx_next_ack) <= FromStart(tx_next_ack'),
         FromStart(tx_next_ack') <= FromStart(tx_next)
  PROVE  KeptInTime
<1>1. SUFFICES ASSUME NEW r \in Sendable, ValidAckSn(r.ack)'
               PROVE  ValidAckSn(r.ack)
  BY DEF KeptInTime
<1>2. PICK sn \in SN : sn = r.ack
  BY SendableIs DEF ReportSet
<1> DEFINE f == FromStart(sn)
           A == FromStart(tx_next_ack)
           B == FromStart(tx_next_ack')
           N == FromStart(tx_next)
           d == TxMod(sn)
           e == Ahead(sn, tx_next_ack')
           W == am_window_size
           K == Len(SduLen)
<1>3. K \in Nat /\ K + 1 < W /\ Mod = 2 * W /\ W \in Nat /\ Start \in SN
  BY FewIs DEF FewInv, FewSent
<1>4. WindowFromStart
  BY FewWindow DEF FewInv
<1>5. /\ f \in Nat /\ f < Mod /\ A \in Nat /\ B \in Nat /\ N \in Nat /\ Used \in Nat
      /\ d = IF f >= A THEN f - A ELSE f - A + Mod
  <2>1. tx_next_ack' \in SN
    OBVIOUS
  <2>2. QED
    BY <1>4, <2>1 DEF WindowFromStart
<1>6. e = IF f >= B THEN f - B ELSE f - B + Mod
  BY <1>3, Rebase DEF FromStart
<1>7. f <= Used \/ f = Mod - 1
  BY <1>2 DEF FewInv, FewKept
<1>8. A <= B /\ B <= N /\ N <= Used /\ Used <= K
  <2>1. N <= Used
    BY <1>5 DEF Used
  <2>2. QED
    BY <2>1 DEF FewInv, FewSent
<1>9. e \in 1..W
  BY <1>1, <1>2 DEF ValidAckSn, TxMod
<1> HIDE DEF f, A, B, N, d, e, W, K
<1>10. e >= 1 /\ e <= W /\ e \in Nat
  BY <1>3, <1>9
<1>11. f > B
  BY <1>3, <1>5, <1>6, <1>7, <1>8, <1>10
<1>12. f # Mod - 1
  BY <1>3, <1>5, <1>6, <1>8, <1>10, <1>11
<1>13. d \in 1..W
  BY <1>3, <1>5, <1>7, <1>8, <1>11, <1>12
<1>14. QED
  BY <1>2, <1>13 DEF ValidAckSn, d, W

(* A step of the sender, in terms of how many SNs it uses.                 *)
LEMMA SentFew ==
  ASSUME TypeInv, TypeInv', ProtocolInv', FewInv, UNCHANGED rx_vars, FewSent', FewQueued',
         Used <= Used',
         \/ UNCHANGED data_air
         \/ \E p \in PduSet : p.sn \in DOMAIN tx_window' /\ Transmit(p)
  PROVE  FewInv'
<1>1. WindowFromStart /\ WindowFromStart'
  BY FewWindow, FewWindowNext DEF FewInv
<1>2. Used \in Nat /\ Used' \in Nat
  BY <1>1 DEF WindowFromStart
<1>3. UNCHANGED <<status_cached, status_shared>>
  BY DEF rx_vars, report_vars
<1>4. \A n \in 1..Len(data_air) : data_air[n].sn \in SN
  <2>1. \A n \in 1..Len(data_air) : data_air[n] \in PduSet
    BY DEF TypeInv, AirInv
  <2>2. QED
    BY <2>1 DEF PduSet
<1>5. \A n \in 1..Len(data_air) : FromStart(data_air[n].sn) < Used'
  <2>1. \A n \in 1..Len(data_air) : FromStart(data_air[n].sn) \in Nat /\ FromStart(data_air[n].sn) < Used
    BY <1>1, <1>4 DEF WindowFromStart, FewInv, FewFlight
  <2>2. QED
    BY <1>2, <2>1
<1>6. FewFlight'
  <2>1. CASE UNCHANGED data_air
    BY <1>5, <2>1 DEF FewFlight, FromStart
  <2>2. ASSUME NEW p \in PduSet, p.sn \in DOMAIN tx_window', Transmit(p)
        PROVE  FewFlight'
    <3>1. p.sn \in SN
      BY DEF PduSet
    <3>2. TxMod(p.sn)' < Top'
      BY <2>2, <3>1 DEF ProtocolInv, SendInv
    <3>3. /\ FromStart(p.sn) = FromStart(tx_next_ack') + Ahead(p.sn, tx_next_ack')
          /\ Used' = FromStart(tx_next_ack') + Top'
          /\ FromStart(tx_next_ack') \in Nat /\ Top' \in Nat /\ Ahead(p.sn, tx_next_ack') \in Nat
      <4>1. Top' \in Nat /\ tx_next_ack' \in SN
        BY SentNext DEF TypeInv, TxInv, TxTypes
      <4>2. Ahead(p.sn, tx_next_ack') \in Nat
        BY <3>1, <4>1, AheadNat
      <4>3. TxMod(p.sn)' <= Top'
        BY <3>2, <4>1, <4>2 DEF TxMod
      <4>4. QED
        BY <1>1, <3>1, <4>1, <4>2, <4>3 DEF WindowFromStart, TxMod, FromStart
    <3>4. FromStart(p.sn) < Used'
      <4>1. Ahead(p.sn, tx_next_ack') < Top'
        BY <3>2 DEF TxMod
      <4>2. QED
        BY <3>3, <4>1
    <3>5. data_air' = data_air \/ data_air' = Append(data_air, p)
      BY <2>2 DEF Transmit
    <3>6. CASE data_air' = data_air
      BY <2>1, <3>6
    <3>7. CASE data_air' = Append(data_air, p)
      <4> DEFINE k == Len(data_air)
      <4>1. data_air \in Seq(PduSet) /\ k \in Nat
        BY DEF TypeInv, AirInv
      <4>2. Len(data_air') = k + 1 /\ data_air'[k + 1] = p /\ \A n \in 1..k : data_air'[n] = data_air[n]
        BY <3>7, <4>1
      <4>3. ASSUME NEW n \in 1..Len(data_air')
            PROVE  FromStart(data_air'[n].sn) < Used'
        <5>1. n = k + 1 \/ n \in 1..k
          BY <4>1, <4>2
        <5>2. QED
          BY <1>5, <3>4, <4>2, <5>1
      <4>4. QED
        BY <4>3 DEF FewFlight, FromStart
    <3>8. QED
      BY <3>5, <3>6, <3>7
  <2>3. QED
    BY <2>1, <2>2
<1>7. FewKept'
  <2>1. SUFFICES ASSUME NEW r \in Sendable
                 PROVE  FromStart(r.ack) <= Used' \/ FromStart(r.ack) = Mod - 1
    BY <1>3 DEF FewKept, Sendable, FromStart
  <2>2. PICK sn \in SN : sn = r.ack
    BY SendableIs DEF ReportSet
  <2>3. FromStart(sn) \in Nat
    BY <1>1 DEF WindowFromStart
  <2>4. FromStart(sn) <= Used \/ FromStart(sn) = Mod - 1
    BY <2>2 DEF FewInv, FewKept
  <2>5. FromStart(sn) <= Used' \/ FromStart(sn) = Mod - 1
    BY <1>2, <2>3, <2>4
  <2>6. QED
    BY <2>2, <2>5
<1>8. QED
  BY <1>6, <1>7 DEF FewInv

(* Nothing is accepted, discarded or given an SN.                          *)
LEMMA SameFew ==
  ASSUME FewInv, UNCHANGED <<upper, sdu_queue, tx_next, sn_under_segmentation>>,
         FromStart(tx_next_ack') <= FromStart(tx_next)
  PROVE  FewSent' /\ FewQueued' /\ Used' = Used
<1>1. Used' = Used
  BY DEF Used, Segmenting, FromStart
<1>2. FewSent'
  BY <1>1 DEF FewInv, FewSent, Few, FromStart
<1>3. FewQueued'
  BY <1>1 DEF FewInv, FewQueued
<1>4. QED
  BY <1>1, <1>2, <1>3

(* PDCP's SDUs enter the queue in order, and leave it.                     *)
LEMMA QueueFew ==
  ASSUME TypeInv, FewInv, NEW i \in Sdus, HandleSdu(i) \/ DiscardSdu(i)
  PROVE  FewSent' /\ FewQueued' /\ Used' = Used
<1> DEFINE k == Len(sdu_queue)
<1>1. UNCHANGED <<tx_next, tx_next_ack, sn_under_segmentation>>
  BY DEF HandleSdu, DiscardSdu
<1>2. Used' = Used
  BY <1>1 DEF Used, Segmenting, FromStart
<1>3. FewSent'
  BY <1>1, <1>2 DEF FewInv, FewSent, Few, FromStart
<1>4. /\ sdu_queue \in Seq(Sdus) /\ k \in Nat /\ upper \in [Sdus -> UpperStates]
      /\ Sdus \subseteq Nat /\ Used \in Nat
  <2>1. Used \in Nat
    BY FewWindow DEF FewInv, WindowFromStart
  <2>2. QED
    BY <2>1 DEF TypeInv, TxInv, TxTypes, Sdus
<1>5. /\ \A m \in 1..k : sdu_queue[m] >= Used + m
      /\ \A j \in Sdus : upper[j] = "new" => j >= Used + k + 1
  BY DEF FewInv, FewQueued
<1>6. \A m \in 1..k : sdu_queue[m] \in Nat
  <2>1. \A m \in 1..k : sdu_queue[m] \in Sdus
    BY <1>4
  <2>2. QED
    BY <1>4, <2>1
<1> HIDE DEF k
<1>7. CASE HandleSdu(i)
  <2>1. upper[i] = "new" /\ \A j \in 1..(i - 1) : upper[j] # "new"
    BY <1>7 DEF HandleSdu
  <2>2. \A j \in Sdus : upper'[j] = "new" => upper[j] = "new" /\ j >= i + 1
    <3>1. \A j \in Sdus : upper'[j] = IF j = i THEN upper'[i] ELSE upper[j]
      BY <1>4, <1>7 DEF HandleSdu
    <3>2. upper'[i] # "new"
      BY <1>4, <1>7 DEF HandleSdu
    <3>3. ASSUME NEW j \in Sdus, upper'[j] = "new"
          PROVE  upper[j] = "new" /\ j >= i + 1
      <4>1. j # i /\ upper[j] = "new"
        BY <3>1, <3>2, <3>3
      <4>2. j \in Nat /\ i \in Nat /\ j >= 1
        BY <1>4 DEF Sdus
      <4>3. j \notin 1..(i - 1)
        BY <2>1, <4>1
      <4>4. QED
        BY <4>1, <4>2, <4>3
    <3>4. QED
      BY <3>3
  <2>3. i \in Nat /\ i >= Used + k + 1
    BY <1>4, <1>5, <2>1
  <2>4. sdu_queue' = sdu_queue \/ sdu_queue' = Append(sdu_queue, i)
    BY <1>7 DEF HandleSdu
  <2>5. CASE sdu_queue' = sdu_queue
    <3>1. Len(sdu_queue') = k /\ \A m \in 1..k : sdu_queue'[m] >= Used + m
      BY <1>5, <2>5 DEF k
    <3>2. \A j \in Sdus : upper'[j] = "new" => j >= Used + k + 1
      BY <1>5, <2>2
    <3>3. FewQueued'
      BY <1>2, <3>1, <3>2 DEF FewQueued
    <3>4. QED
      BY <1>2, <1>3, <3>3
  <2>6. CASE sdu_queue' = Append(sdu_queue, i)
    <3>1. Len(sdu_queue') = k + 1 /\ sdu_queue'[k + 1] = i /\ \A m \in 1..k : sdu_queue'[m] = sdu_queue[m]
      BY <1>4, <2>6 DEF k
    <3>2. ASSUME NEW m \in 1..(k + 1) PROVE sdu_queue'[m] >= Used + m
      <4>1. CASE m = k + 1
        BY <1>4, <2>3, <3>1, <4>1
      <4>2. CASE m # k + 1
        <5>1. m \in 1..k
          BY <1>4, <4>2
        <5>2. QED
          BY <1>5, <3>1, <5>1
      <4>3. QED
        BY <4>1, <4>2
    <3>3. ASSUME NEW j \in Sdus, upper'[j] = "new" PROVE j >= Used + (k + 1) + 1
      <4>1. j >= i + 1 /\ j \in Nat
        BY <1>4, <2>2, <3>3
      <4>2. QED
        BY <1>4, <2>3, <4>1
    <3>4. FewQueued'
      BY <1>2, <3>1, <3>2, <3>3 DEF FewQueued
    <3>5. QED
      BY <1>2, <1>3, <3>4
  <2>7. QED
    BY <1>2, <1>3, <2>4, <2>5, <2>6
<1>8. CASE DiscardSdu(i)
  <2>1. sdu_queue' = sdu_queue /\ upper' = [upper EXCEPT ![i] = "discarded"]
    BY <1>8 DEF DiscardSdu
  <2>2. ASSUME NEW j \in Sdus, upper'[j] = "new" PROVE j >= Used + k + 1
    BY <1>4, <1>5, <2>1, <2>2
  <2>3. FewQueued'
    BY <1>2, <1>5, <2>1, <2>2 DEF FewQueued, k
  <2>4. QED
    BY <1>2, <1>3, <2>3
<1>9. QED
  BY <1>7, <1>8

(* The SN after the last one that is used.                                 *)
LEMMA NextFew ==
  ASSUME TypeInv, Few, FromStart(tx_next) + 1 <= Len(SduLen)
  PROVE  FromStart((tx_next + 1) % Mod) = FromStart(tx_next) + 1
<1>1. /\ Len(SduLen) \in Nat /\ Len(SduLen) + 1 < am_window_size /\ Start \in SN
      /\ Mod = 2 * am_window_size /\ am_window_size \in Nat
  BY FewIs
<1>2. tx_next \in SN
  BY Distances
<1>3. FromStart(tx_next) \in Nat
  BY <1>1, <1>2, AheadNat DEF FromStart
<1>4. FromStart((tx_next + 1) % Mod) =
        IF FromStart(tx_next) = Mod - 1 THEN 0 ELSE FromStart(tx_next) + 1
  BY <1>1, <1>2, AheadIs DEF FromStart
<1>5. QED
  BY <1>1, <1>3, <1>4

(* build_new_pdu gives the SDU that it reads the next SN.                   *)
LEMMA NewFew ==
  ASSUME TypeInv, SendInv, FewInv, NEW sdu \in Sdus, NEW info \in InfoSet,
         NEW len \in Nat \ {0}, NEW poll \in BOOLEAN, NewPdu(sdu, info, len, poll)
  PROVE  FewSent' /\ FewQueued' /\ Used' = Used + 1
<1> DEFINE k == Len(sdu_queue)
           N == FromStart(tx_next)
<1>1. /\ sn_under_segmentation \notin DOMAIN tx_window /\ UNCHANGED <<upper, tx_next_ack>>
      /\ \/ sn_under_segmentation' = NoSn /\ tx_next' = (tx_next + 1) % Mod
         \/ sn_under_segmentation' = tx_next /\ tx_next' = tx_next
  BY DEF NewPdu
<1>2. /\ tx_next \in SN /\ sdu_queue \in Seq(Sdus) /\ k \in Nat
      /\ \A m \in 1..k : sdu_queue[m] \in Sdus
  BY Distances DEF TypeInv, TxInv, TxTypes
<1> PICK n \in 1..k : sdu = sdu_queue[n] /\ sdu_queue' = SubSeq(sdu_queue, n + 1, k)
  BY DEF NewPdu
<1>3. ~Segmenting
  <2>1. SUFFICES ASSUME Segmenting PROVE FALSE
    OBVIOUS
  <2>2. sn_under_segmentation = tx_next /\ Top = TxMod(tx_next) + 1
    BY <2>1 DEF SendInv, Top
  <2>3. TxMod(tx_next) < Top
    BY <1>2, <2>2, Distances
  <2>4. QED
    BY <1>1, <1>2, <2>2, <2>3 DEF SendInv
<1>4. Used = N
  BY <1>3 DEF Used
<1>5. /\ N \in Nat /\ FromStart(tx_next_ack) \in Nat /\ Few /\ FromStart(tx_next_ack) <= N
  BY FewWindow DEF FewInv, WindowFromStart, FewSent
<1>6. /\ \A m \in 1..k : sdu_queue[m] >= N + m
      /\ \A j \in Sdus : upper[j] = "new" => j >= N + k + 1
  BY <1>4 DEF FewInv, FewQueued
<1>7. N + 1 <= Len(SduLen)
  <2>1. sdu >= N + n /\ sdu \in 1..Len(SduLen) /\ n \in Nat /\ n >= 1
    BY <1>2, <1>5, <1>6, FewIs
  <2>2. QED
    BY <1>5, <2>1, FewIs
<1>8. tx_next # NoSn
  BY <1>2, WindowSize DEF SN, NoSn
<1>9. Used' = N + 1 /\ N <= FromStart(tx_next')
  <2>1. CASE sn_under_segmentation' = NoSn /\ tx_next' = (tx_next + 1) % Mod
    <3>1. FromStart(tx_next') = N + 1
      BY <1>5, <1>7, <2>1, NextFew
    <3>2. Used' = FromStart(tx_next')
      BY <2>1 DEF Used, Segmenting, FromStart
    <3>3. QED
      BY <1>5, <3>1, <3>2
  <2>2. CASE sn_under_segmentation' = tx_next /\ tx_next' = tx_next
    <3>1. Used' = N + 1
      BY <1>8, <2>2 DEF Used, Segmenting, FromStart
    <3>2. QED
      BY <1>5, <2>2, <3>1
  <2>3. QED
    BY <1>1, <2>1, <2>2
<1>10. FewSent'
  <2>1. FromStart(tx_next_ack) <= FromStart(tx_next')
    <3>1. FromStart(tx_next') \in Nat
      BY <1>2, <1>5, <1>7, <1>1, NextFew
    <3>2. QED
      BY <1>5, <1>9, <3>1
  <2>2. QED
    BY <1>1, <1>5, <1>7, <1>9, <2>1 DEF FewSent, Few, FromStart
<1>11. /\ Len(sdu_queue') = k - n
       /\ \A m \in 1..Len(sdu_queue') : sdu_queue'[m] = sdu_queue[m + n] /\ m + n \in 1..k
  BY <1>2, ReadLeaves
<1>12. ASSUME NEW m \in 1..Len(sdu_queue') PROVE sdu_queue'[m] >= (N + 1) + m
  <2>1. m \in Nat /\ n \in Nat /\ n >= 1
    BY <1>2, <1>11
  <2>2. PICK l \in 1..k : l = m + n
    BY <1>11
  <2>3. sdu_queue[l] >= N + l
    BY <1>6
  <2>4. sdu_queue[l] \in Nat
    <3>1. sdu_queue[l] \in Sdus
      BY <1>2
    <3>2. QED
      BY <3>1 DEF Sdus
  <2>5. QED
    BY <1>5, <1>11, <2>1, <2>2, <2>3, <2>4
<1>13. ASSUME NEW j \in Sdus, upper'[j] = "new" PROVE j >= (N + 1) + Len(sdu_queue') + 1
  <2>1. j >= N + k + 1 /\ j \in Nat
    BY <1>1, <1>6, <1>13 DEF Sdus
  <2>2. QED
    BY <1>2, <1>5, <1>11, <2>1
<1> HIDE DEF k, N
<1>14. FewQueued'
  BY <1>9, <1>12, <1>13 DEF FewQueued
<1>15. QED
  BY <1>4, <1>9, <1>10, <1>14

(* build_continued_sdu_segment goes on with the SN it has.                 *)
LEMMA ContinuedFew ==
  ASSUME TypeInv, FewInv, NEW info \in InfoSet, NEW len \in Nat \ {0}, NEW poll \in BOOLEAN,
         NextSegment(info, len, poll)
  PROVE  FewSent' /\ FewQueued' /\ Used' = Used
<1> DEFINE N == FromStart(tx_next)
<1>1. /\ sn_under_segmentation = tx_next /\ UNCHANGED <<upper, sdu_queue, tx_next_ack>>
      /\ \/ sn_under_segmentation' = NoSn /\ tx_next' = (tx_next + 1) % Mod
         \/ sn_under_segmentation' = tx_next /\ tx_next' = tx_next
  BY DEF NextSegment
<1>2. tx_next \in SN /\ tx_next # NoSn
  BY Distances, WindowSize DEF SN, NoSn
<1>3. Used = N + 1
  BY <1>1, <1>2 DEF Used, Segmenting
<1>4. N \in Nat /\ FromStart(tx_next_ack) \in Nat /\ Few /\ FromStart(tx_next_ack) <= N
  BY FewWindow DEF FewInv, WindowFromStart, FewSent
<1>5. N + 1 <= Len(SduLen)
  BY <1>3 DEF FewInv, FewSent
<1>6. Used' = N + 1 /\ FromStart(tx_next_ack) <= FromStart(tx_next')
  <2>1. CASE sn_under_segmentation' = NoSn /\ tx_next' = (tx_next + 1) % Mod
    <3>1. FromStart(tx_next') = N + 1
      BY <1>4, <1>5, <2>1, NextFew
    <3>2. Used' = FromStart(tx_next')
      BY <2>1 DEF Used, Segmenting, FromStart
    <3>3. QED
      BY <1>4, <3>1, <3>2
  <2>2. CASE sn_under_segmentation' = tx_next /\ tx_next' = tx_next
    <3>1. Used' = N + 1
      BY <1>2, <2>2 DEF Used, Segmenting, FromStart
    <3>2. QED
      BY <1>4, <2>2, <3>1
  <2>3. QED
    BY <1>1, <2>1, <2>2
<1>7. FewSent'
  BY <1>1, <1>4, <1>5, <1>6 DEF FewSent, Few, FromStart
<1>8. FewQueued'
  BY <1>1, <1>3, <1>6 DEF FewInv, FewQueued
<1>9. QED
  BY <1>3, <1>6, <1>7, <1>8

SendableTyped == Sendable \subseteq ReportSet

(* What the receiver may send are reports.                                  *)
LEMMA SendableNow == TypeInv => SendableTyped
  BY SendableIs DEF SendableTyped

(* As above, of the next state.                                             *)
LEMMA SendableNext == TypeInv' => SendableTyped'
  BY SendableNow, PTL

(* The steps of the sender.                                                *)
LEMMA SenderFew ==
  ASSUME TypeInv, TypeInv', ProtocolInv, ProtocolInv', FewInv, ~released, SenderStep, UNCHANGED rx_vars
  PROVE  FewInv'
<1>1. TxInv /\ SendInv
  BY DEF TypeInv, ProtocolInv
<1>2. FewSent /\ Used \in Nat
  BY FewWindow DEF FewInv, WindowFromStart
<1>3. ASSUME FewSent' /\ FewQueued', Used' = Used \/ Used' = Used + 1,
             \/ UNCHANGED data_air
             \/ \E p \in PduSet : p.sn \in DOMAIN tx_window' /\ Transmit(p)
      PROVE  FewInv'
  <2>1. Used <= Used'
    BY <1>2, <1>3
  <2>2. QED
    BY <1>3, <2>1, SentFew
<1>4. ASSUME UNCHANGED <<upper, sdu_queue, tx_next, sn_under_segmentation, tx_next_ack>>,
             \/ UNCHANGED data_air
             \/ \E p \in PduSet : p.sn \in DOMAIN tx_window' /\ Transmit(p)
      PROVE  FewInv'
  <2>1. FromStart(tx_next_ack') <= FromStart(tx_next)
    BY <1>2, <1>4 DEF FewSent
  <2>2. QED
    BY <1>3, <1>4, <2>1, SameFew
<1>5. ASSUME NEW i \in Sdus, HandleSdu(i) \/ DiscardSdu(i)
      PROVE  FewInv'
  <2>1. UNCHANGED data_air
    BY <1>5 DEF HandleSdu, DiscardSdu
  <2>2. QED
    BY <1>3, <1>5, <2>1, QueueFew
<1>6. CASE UpdateMacBufferState \/ OnExpiredPollRetransmitTimer
  BY <1>4, <1>6 DEF UpdateMacBufferState, OnExpiredPollRetransmitTimer
<1>7. CASE HandleStatusPdu
  <2>1. PICK r : WellFormed(r) /\ status_air = <<r>>
    BY <1>7 DEF TypeInv, ReportTypes, HandleStatusPdu
  <2>2. UNCHANGED <<data_air, sdu_queue, tx_next, sn_under_segmentation>> /\ Head(status_air) = r
    BY <1>7, <2>1 DEF HandleStatusPdu
  <2>3. CASE ~Refused(r)
    <3>1. Advanced(StopOf(r))
      BY <1>7, <2>1, <2>3, StatusAdvances
    <3>2. PICK na : na = StopOf(r)
      OBVIOUS
    <3>3. tx_next_ack' = na /\ FromStart(na) <= FromStart(tx_next)
      BY <3>1, <3>2, FewAdvances DEF Advanced
    <3>4. Used' = Used
      BY <2>2 DEF Used, Segmenting, FromStart
    <3>5. FewSent'
      BY <1>2, <2>2, <3>3, <3>4 DEF FewSent, Few, FromStart
    <3>6. \A i \in Sdus : upper'[i] = "new" => upper[i] = "new"
      <4>1. \E acked : upper' = [i \in Sdus |-> IF \E sn \in acked : tx_window[sn].sdu = i
                                                  THEN "confirmed" ELSE upper[i]]
        BY <1>7, <2>2, <2>3, Zenon DEF HandleStatusPdu, Refused
      <4>2. QED
        BY <4>1
    <3>7. FewQueued'
      BY <2>2, <3>4, <3>6 DEF FewInv, FewQueued
    <3>8. QED
      BY <1>3, <2>2, <3>4, <3>5, <3>7
  <2>4. CASE Refused(r)
    <3>1. UNCHANGED <<tx_next_ack, upper>>
      BY <1>7, <2>2, <2>4 DEF HandleStatusPdu, Refused
    <3>2. QED
      BY <1>4, <2>2, <3>1
  <2>5. QED
    BY <2>3, <2>4
<1>8. ASSUME NEW grant \in 0..MaxGrant, PullPdu(grant)
      PROVE  FewInv'
  <2>1. grant \in Nat
    BY LinkAssumption
  <2>2. /\ tx_next \in SN
        /\ \A sn \in DOMAIN tx_window : sn \in SN /\ tx_window[sn].sdu \in Sdus
    BY Distances, SentIs
  <2>3. ASSUME NEW sn \in SN, NEW sdu \in Sdus, NEW so \in Nat, NEW len \in Nat \ {0}, NEW poll \in BOOLEAN,
               sn \in DOMAIN tx_window', Transmit(Pdu(sn, sdu, so, len, poll))
        PROVE  \E p \in PduSet : p.sn \in DOMAIN tx_window' /\ Transmit(p)
    <3>1. Pdu(sn, sdu, so, len, poll) \in PduSet /\ Pdu(sn, sdu, so, len, poll).sn = sn
      BY DEF Pdu, PduSet
    <3>2. QED
      BY <2>3, <3>1
  <2>4. CASE BuildNewPdu(grant)
    <3>1. PICK sdu \in Sdus, info \in InfoSet, len \in Nat \ {0}, poll \in BOOLEAN :
            NewPdu(sdu, info, len, poll)
      BY <1>1, <2>1, <2>4, BuildNewIs
    <3>2. tx_next \in DOMAIN tx_window' /\ Transmit(Pdu(tx_next, sdu, 0, len, poll))
      BY <3>1 DEF NewPdu, WithEntry
    <3>3. FewSent' /\ FewQueued' /\ Used' = Used + 1
      BY <1>1, <3>1, NewFew
    <3>4. QED
      BY <1>3, <2>2, <2>3, <3>2, <3>3
  <2>5. CASE BuildContinuedSduSegment(grant)
    <3>1. PICK info \in InfoSet, len \in Nat \ {0}, poll \in BOOLEAN : NextSegment(info, len, poll)
      BY <1>1, <2>1, <2>5, BuildContinuedIs
    <3>2. tx_next \in DOMAIN tx_window' /\ info.sdu \in Sdus /\ info.next_so \in Nat
      BY <3>1 DEF NextSegment, InfoSet
    <3>3. Transmit(Pdu(tx_next, info.sdu, info.next_so, len, poll))
      BY <3>1 DEF NextSegment
    <3>4. FewSent' /\ FewQueued' /\ Used' = Used
      BY <3>1, ContinuedFew
    <3>5. QED
      BY <1>3, <2>2, <2>3, <3>2, <3>3, <3>4
  <2>6. CASE BuildRetxPdu(grant)
    <3>1. /\ UNCHANGED <<upper, sdu_queue, tx_next_ack, tx_next, tx_window, sn_under_segmentation>>
          /\ \/ UNCHANGED <<retx_queue, data_air>>
             \/ \E len \in Nat \ {0}, poll \in BOOLEAN : RetxSent(len, poll)
      BY <1>1, <2>1, <2>6, BuildRetxIs
    <3>2. CASE UNCHANGED <<retx_queue, data_air>>
      BY <1>4, <3>1, <3>2
    <3>3. ASSUME NEW len \in Nat \ {0}, NEW poll \in BOOLEAN, RetxSent(len, poll)
          PROVE  FewInv'
      <4> DEFINE r == retx_queue[1]
      <4>1. r \in RetxSet /\ r.sn \in DOMAIN tx_window
        <5>1. 1 \in 1..Len(retx_queue) /\ retx_queue \in Seq(RetxSet)
          BY <1>1, <3>3 DEF RetxSent, TxInv, RetxTypes
        <5>2. QED
          BY <1>1, <5>1 DEF TxInv, RetxTypes, Exists
      <4>2. r.sn \in SN /\ r.so \in Nat /\ tx_window[r.sn].sdu \in Sdus
        BY <2>2, <4>1 DEF RetxSet
      <4>3. Transmit(Pdu(r.sn, tx_window[r.sn].sdu, r.so, len, poll))
        BY <3>3 DEF RetxSent
      <4>4. \E p \in PduSet : p.sn \in DOMAIN tx_window' /\ Transmit(p)
        BY <2>3, <3>1, <4>1, <4>2, <4>3
      <4>5. QED
        BY <1>4, <3>1, <4>4
    <3>4. QED
      BY <3>1, <3>2, <3>3
  <2>7. CASE EmptyPull(grant)
    <3>1. UNCHANGED <<upper, tx_next, tx_next_ack, sn_under_segmentation, data_air>>
      BY <2>7 DEF EmptyPull
    <3>2. Used' = Used
      BY <3>1 DEF Used, Segmenting, FromStart
    <3>3. FewSent'
      BY <1>2, <3>1, <3>2 DEF FewSent, Few, FromStart
    <3>4. CASE sdu_queue' = sdu_queue
      BY <1>4, <3>1, <3>4
    <3>5. CASE sdu_queue' = <<>>
      <4>1. Len(sdu_queue') = 0 /\ Len(sdu_queue) \in Nat
        BY <3>5 DEF TypeInv, TxInv, TxTypes
      <4>2. ASSUME NEW i \in Sdus, upper'[i] = "new" PROVE i >= Used + 0 + 1
        <5>1. i >= Used + Len(sdu_queue) + 1 /\ i \in Nat
          BY <3>1, <4>2 DEF FewInv, FewQueued, Sdus
        <5>2. QED
          BY <1>2, <4>1, <5>1
      <4>3. FewQueued'
        BY <3>2, <4>1, <4>2 DEF FewQueued
      <4>4. QED
        BY <1>3, <3>1, <3>2, <3>3, <4>3
    <3>6. QED
      BY <2>7, <3>4, <3>5 DEF EmptyPull
  <2>8. QED
    BY <1>8, <2>4, <2>5, <2>6, <2>7 DEF PullPdu
<1>9. QED
  BY <1>5, <1>6, <1>7, <1>8 DEF SenderStep

(* The steps of the receiver: a report that is refreshed is of what was    *)
(* sent.                                                                   *)
LEMMA ReceiverFew ==
  ASSUME TypeInv, TypeInv', ProtocolInv', FewInv, ReceiverStep, UNCHANGED tx_vars
  PROVE  FewInv'
<1>1. UNCHANGED <<upper, sdu_queue, tx_next, sn_under_segmentation, tx_next_ack>>
  BY DEF tx_vars
<1>2. FewSent' /\ FewQueued' /\ Used' = Used
  <2>1. FromStart(tx_next_ack') <= FromStart(tx_next)
    BY <1>1 DEF FewInv, FewSent
  <2>2. QED
    BY <1>1, <2>1, SameFew
<1>3. FewFlight'
  <2>1. CASE UNCHANGED data_air
    BY <1>2, <2>1 DEF FewInv, FewFlight, FromStart
  <2>2. CASE HandleDataPdu
    <3>1. PICK n \in 1..Len(data_air) : Arrives(n)
      BY <2>2, ArrivalIs
    <3>2. \A m \in 1..Len(data_air') : \E k \in 1..Len(data_air) : data_air'[m].sn = data_air[k].sn
      BY <3>1, LeftInFlight DEF TypeInv
    <3>3. \A m \in 1..Len(data_air') : FromStart(data_air'[m].sn) < Used'
      BY <1>2, <3>2 DEF FewInv, FewFlight
    <3>4. QED
      BY <3>3 DEF FewFlight, FromStart
  <2>3. QED
    BY <2>1, <2>2 DEF ReceiverStep, OnExpiredReassemblyTimer, GetStatusPdu, SendStatusPdu,
                      OnExpiredStatusProhibitTimer, UpdateOwnBufferState,
                      OtherDirection, rx_data_vars
<1>4. ASSUME Sendable' \subseteq Sendable PROVE FewKept'
  BY <1>2, <1>4 DEF FewInv, FewKept, FromStart
<1>5. ASSUME UNCHANGED report_vars PROVE FewKept'
  BY <1>4, <1>5 DEF report_vars, Sendable
<1>6. ASSUME Refreshed PROVE FewKept'
  <2>1. ASSUME NEW fit \in 0..MaxFit
        PROVE  FromStart(Trim(status_cached', fit).ack) <= Used'
    <3>1. PICK t : t = Trim(status_cached', fit)
      OBVIOUS
    <3>2. t \in Sendable'
      BY <3>1 DEF Sendable
    <3>3. t.ack \in SN
      <4>1. Sendable' \subseteq ReportSet
        BY SendableNext DEF SendableTyped
      <4>2. QED
        BY <3>2, <4>1 DEF ReportSet
    <3>4. TxMod(t.ack)' <= TxMod(rx_next_highest)'
      BY <1>6, <3>1, LatestNext DEF ProtocolInv, LatestLink, Refreshed
    <3>5. TxMod(rx_next_highest)' <= Top'
      BY DEF ProtocolInv, LinkInv
    <3>6. WindowFromStart' /\ Top' \in Nat
      BY <1>2, FewWindowNext, SentNext
    <3>7. TxMod(t.ack)' \in Nat /\ TxMod(rx_next_highest)' \in Nat
      <4>1. tx_next_ack' \in SN /\ rx_next_highest' \in SN
        BY DEF TypeInv, TxInv, TxTypes, RxInv, RxTypes
      <4>2. QED
        BY <3>3, <4>1, AheadNat DEF TxMod
    <3>8. TxMod(t.ack)' <= Top'
      BY <3>4, <3>5, <3>6, <3>7
    <3>9. FromStart(t.ack) = FromStart(tx_next_ack') + TxMod(t.ack)'
      BY <3>3, <3>6, <3>8 DEF WindowFromStart, FromStart
    <3>10. Used' = FromStart(tx_next_ack') + Top' /\ FromStart(tx_next_ack') \in Nat
      BY <3>6 DEF WindowFromStart, FromStart
    <3>11. FromStart(t.ack) <= Used'
      BY <3>6, <3>7, <3>8, <3>9, <3>10
    <3>12. QED
      BY <3>1, <3>11
  <2>2. ASSUME NEW fit \in 0..MaxFit
        PROVE  \/ FromStart(Trim(status_shared', fit).ack) <= Used'
               \/ FromStart(Trim(status_shared', fit).ack) = Mod - 1
    <3>1. PICK t : t = Trim(status_shared, fit)
      OBVIOUS
    <3>2. t \in Sendable
      BY <3>1 DEF Sendable
    <3>3. FromStart(t.ack) <= Used \/ FromStart(t.ack) = Mod - 1
      BY <3>2 DEF FewInv, FewKept
    <3>4. t = Trim(status_shared', fit)
      BY <1>6, <3>1 DEF Refreshed
    <3>5. QED
      BY <1>2, <3>3, <3>4
  <2>3. QED
    BY <2>1, <2>2 DEF FewKept, Sendable, FromStart
<1>7. ASSUME NEW fit \in 0..MaxFit, SendStatusPdu(fit) PROVE FewKept'
  BY <1>4, <1>7, SendableShrinks
<1>8. ASSUME HandleDataPdu PROVE FewKept'
  BY <1>5, <1>6, <1>8, ArrivalIs
<1>9. ASSUME GetStatusPdu \/ OnExpiredStatusProhibitTimer \/ UpdateOwnBufferState \/ OtherDirection
      PROVE  FewKept'
  BY <1>5, <1>9 DEF GetStatusPdu, OnExpiredStatusProhibitTimer, UpdateOwnBufferState, OtherDirection
<1>10. ASSUME OnExpiredReassemblyTimer PROVE FewKept'
  <2>1. UNCHANGED report_vars \/ Refreshed
    BY <1>10 DEF OnExpiredReassemblyTimer, report_vars, Refreshed, RefreshStatusReport
  <2>2. QED
    BY <1>5, <1>6, <2>1
<1>11. FewKept'
  BY <1>7, <1>8, <1>9, <1>10 DEF ReceiverStep
<1>12. QED
  BY <1>2, <1>3, <1>11 DEF FewInv

(* No SN is used initially.                                                 *)
LEMMA FewInitially ==
  ASSUME Few, Init
  PROVE  FewInv
<1>1. /\ tx_next_ack = Start /\ tx_next = Start /\ sn_under_segmentation = NoSn
      /\ sdu_queue = <<>> /\ data_air = <<>>
  BY DEF Init, TxInit
<1>2. Start \in SN /\ Len(SduLen) \in Nat /\ Sdus = 1..Len(SduLen)
  BY FewIs
<1>3. FromStart(Start) = 0
  BY <1>2, Rebase DEF FromStart
<1>4. Used = 0
  BY <1>1, <1>3 DEF Used, Segmenting
<1>5. FewSent
  BY <1>1, <1>2, <1>3, <1>4 DEF FewSent
<1>6. FewQueued
  BY <1>1, <1>2, <1>4 DEF FewQueued
<1>7. FewFlight
  BY <1>1 DEF FewFlight
<1>8. FewKept
  <2>1. ASSUME NEW r \in {status_cached, status_shared}, NEW fit \in 0..MaxFit
        PROVE  FromStart(Trim(r, fit).ack) \in {0, Mod - 1}
    BY KeptInitially DEF FromStart
  <2>2. QED
    BY <1>4, <2>1 DEF FewKept, Sendable
<1>9. QED
  BY <1>5, <1>6, <1>7, <1>8 DEF FewInv

(* Nothing outlives its window.                                            *)
LEMMA FewStep ==
  ASSUME TypeInv, TypeInv', ProtocolInv, FewInv, [Next]_vars
  PROVE  [KeptInTime]_vars /\ ProtocolInv' /\ FewInv'
<1>1. CASE ~released /\ SenderStep /\ UNCHANGED rx_vars
  <2>1. tx_next_ack' \in SN
    BY DEF TypeInv, TxInv, TxTypes
  <2>2. /\ FromStart(tx_next_ack) <= FromStart(tx_next_ack')
        /\ FromStart(tx_next_ack') <= FromStart(tx_next)
    <3>1. WindowFromStart /\ FromStart(tx_next_ack) <= FromStart(tx_next)
      BY FewWindow DEF FewInv, FewSent
    <3>2. CASE UNCHANGED tx_next_ack
      BY <3>1, <3>2 DEF WindowFromStart
    <3>3. CASE HandleStatusPdu
      <4>1. PICK r : WellFormed(r) /\ status_air = <<r>>
        BY <3>3 DEF TypeInv, ReportTypes, HandleStatusPdu
      <4>2. CASE ~Refused(r)
        <5>1. Advanced(StopOf(r))
          BY <1>1, <3>3, <4>1, <4>2, StatusAdvances
        <5>2. PICK na : na = StopOf(r)
          OBVIOUS
        <5>3. QED
          BY <5>1, <5>2, FewAdvances DEF Advanced
      <4>3. CASE Refused(r)
        <5>1. Head(status_air) = r
          BY <4>1
        <5>2. UNCHANGED tx_next_ack
          BY <3>3, <4>3, <5>1 DEF HandleStatusPdu, Refused
        <5>3. QED
          BY <3>2, <5>2
      <4>4. QED
        BY <4>2, <4>3
    <3>4. UNCHANGED tx_next_ack \/ HandleStatusPdu
      BY <1>1 DEF SenderStep, HandleSdu, DiscardSdu, PullPdu, BuildNewPdu, BuildContinuedSduSegment,
                  BuildRetxPdu, EmptyPull, UpdateMacBufferState, OnExpiredPollRetransmitTimer
    <3>5. QED
      BY <3>2, <3>3, <3>4
  <2>3. KeptInTime
    BY <2>1, <2>2, FewInTime
  <2>4. ProtocolInv'
    BY <2>3, TypesStep, FewIsTimely, ProtocolStep
  <2>5. QED
    BY <1>1, <2>3, <2>4, SenderFew
<1>2. ASSUME UNCHANGED tx_next_ack PROVE KeptInTime
  BY <1>2 DEF KeptInTime, ValidAckSn, TxMod
<1>3. CASE ReceiverStep /\ UNCHANGED tx_vars
  <2>1. KeptInTime
    BY <1>2, <1>3 DEF tx_vars
  <2>2. ProtocolInv'
    BY <2>1, TypesStep, FewIsTimely, ProtocolStep
  <2>3. QED
    BY <1>3, <2>1, <2>2, ReceiverFew
<1>4. CASE UNCHANGED vars
  <2>1. ProtocolInv'
    BY <1>4, StutterKeepsProtocol
  <2>2. /\ UNCHANGED <<upper, sdu_queue, tx_next, sn_under_segmentation, tx_next_ack>>
        /\ UNCHANGED data_air /\ UNCHANGED rx_vars
    BY <1>4 DEF vars, tx_vars
  <2>3. FewSent' /\ FewQueued' /\ Used' = Used
    BY <2>2, SameFew DEF FewInv, FewSent
  <2>4. Used <= Used'
    BY <2>3, FewWindow DEF FewInv, WindowFromStart
  <2>5. FewInv'
    BY <2>1, <2>2, <2>3, <2>4, SentFew
  <2>6. QED
    BY <1>4, <2>1, <2>5
<1>5. QED
  BY <1>1, <1>3, <1>4, StepSplits

(* The two hypotheses hold of a bearer that carries fewer SDUs than half    *)
(* the SNs, less two, whatever the radio does: inside_rx_window and         *)
(* valid_ack_sn never see an SN of an earlier window.                       *)
THEOREM ShortBearerInTime ==
  ASSUME Few
  PROVE  Spec => []FlightInWindow /\ [][KeptInTime]_vars
<1> DEFINE Inv == ProtocolInv /\ FewInv
<1>1. Init => Inv
  BY ProtocolInitially, FewInitially
<1>2. TypeInv /\ TypeInv' /\ Inv /\ [Next]_vars => Inv' /\ [KeptInTime]_vars
  BY FewStep
<1>3. TypeInv /\ Inv => FlightInWindow
  BY FewIsTimely
<1>4. QED
  BY <1>1, <1>2, <1>3, TypesHold, PTL DEF Spec

(* Such a bearer keeps all promises, with no hypothesis on what is in       *)
(* flight: on_protocol_failure is not called, retransmissions are of sent   *)
(* bytes, nothing stalls in silence, and PDCP is told the truth about its   *)
(* SDUs.                                                                    *)
THEOREM ShortBearerIsSound ==
  ASSUME Few
  PROVE  Spec => /\ []NoFailure /\ []WindowsAgree /\ []RetxIsOfSentBytes /\ []NoSilentStall
                 /\ ServiceSpec
<1>1. Spec => []FlightInWindow /\ [][KeptInTime]_vars
  BY ShortBearerInTime
<1>2. QED
  BY <1>1, NoFailureHolds, WindowsAgreeHolds, RetxIsOfSentBytesHolds, NoSilentStallHolds, ServiceHolds,
     PTL
==============================================================================
