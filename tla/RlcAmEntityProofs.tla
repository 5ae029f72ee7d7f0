-------------------------- MODULE RlcAmEntityProofs --------------------------
(****************************************************************************)
(* Proofs about the two RLC AM entities, whatever their peer sends them.    *)
(*                                                                          *)
(* RxInv, the receiver.  A running t-Reassembly needs its trigger between   *)
(* RX_Next and RX_Next_Highest (TimerInv), or its expiry would move         *)
(* RX_Highest_Status out of the window; and the SN below the trigger, like  *)
(* the one below RX_Next_Highest, has an entry in the window (HeldInv),     *)
(* which is what the lookups of handle_data_pdu rely on.                    *)
(*                                                                          *)
(* TypeInv, types: what a status report may ask for and what handle_nack    *)
(* makes of it.  Both entities fold over lists; a fold is the unique        *)
(* function that takes its steps (Folded, FoldUnique), and what holds of    *)
(* its states is shown of a least state of which it would not.              *)
(*                                                                          *)
(* WakeInv, the sender and MAC, as long as one PDU takes all there is.      *)
(****************************************************************************)
EXTENDS RlcAm, WellFoundedInduction, FiniteSetTheorems, SequenceTheorems, TLAPS

(* The window is half the range of SNs.                                    *)
LEMMA WindowSize ==
  /\ Mod \in Nat \ {0} /\ am_window_size \in Nat /\ am_window_size >= 2
  /\ Mod = 2 * am_window_size
  BY StatusAssumption DEF am_window_size

(* A remainder without a multiple, or with one.                            *)
LEMMA SmallMod ==
  ASSUME NEW m \in Nat \ {0}, NEW a \in Int, 0 - m <= a, a < 2 * m
  PROVE  a % m = IF a < 0 THEN a + m ELSE IF a < m THEN a ELSE a - m
<1> DEFINE q == a \div m
           r == a % m
           k == IF a < 0 THEN q + 1 ELSE IF a < m THEN q ELSE q - 1
<1>1. q \in Int /\ r \in 0..(m - 1) /\ a = m * q + r
  OBVIOUS
<1> HIDE DEF q, r
<1>2. k \in Int
  BY <1>1
<1>3. m * (q + 1) = m * q + m /\ m * (q - 1) = m * q - m /\ m * q \in Int
  BY <1>1
<1>4. m * k = (IF a < 0 THEN a + m ELSE IF a < m THEN a ELSE a - m) - r
  BY <1>1, <1>3
<1>5. /\ k >= 1 => m * k >= m
      /\ k <= -1 => m * k <= 0 - m
      /\ k = 0 => m * k = 0
  <2> HIDE DEF k
  <2>1. QED
    BY <1>2
<1> HIDE DEF k
<1>6. k = 0
  BY <1>1, <1>2, <1>4, <1>5
<1>7. QED
  BY <1>1, <1>4, <1>5, <1>6 DEF r

(* Distances and successors modulo the range of SNs.                       *)
LEMMA AheadIs ==
  ASSUME NEW sn \in SN, NEW base \in SN
  PROVE  /\ Ahead(sn, base) = IF sn >= base THEN sn - base ELSE sn - base + Mod
         /\ Ahead(sn, base) \in 0..(Mod - 1)
         /\ Ahead(sn + 1, base) = IF Ahead(sn, base) = Mod - 1 THEN 0 ELSE Ahead(sn, base) + 1
         /\ (sn + 1) % Mod \in SN
         /\ Ahead((sn + 1) % Mod, base) = Ahead(sn + 1, base)
<1>1. Mod \in Nat \ {0} /\ sn \in 0..(Mod - 1) /\ base \in 0..(Mod - 1)
  BY WindowSize DEF SN
<1>2. (sn - base) % Mod = IF sn - base < 0 THEN sn - base + Mod ELSE sn - base
  <2>1. sn - base \in Int /\ 0 - Mod <= sn - base /\ sn - base < Mod /\ sn - base < 2 * Mod
    BY <1>1
  <2>2. QED
    BY <1>1, <2>1, SmallMod
<1>3. ((sn + 1) - base) % Mod = IF (sn + 1) - base < 0 THEN (sn + 1) - base + Mod
                                ELSE IF (sn + 1) - base < Mod THEN (sn + 1) - base
                                ELSE (sn + 1) - base - Mod
  <2>1. (sn + 1) - base \in Int /\ 0 - Mod <= (sn + 1) - base /\ (sn + 1) - base < 2 * Mod
    BY <1>1
  <2>2. QED
    BY <1>1, <2>1, SmallMod
<1>4. (sn + 1) % Mod = IF sn + 1 < Mod THEN sn + 1 ELSE sn + 1 - Mod
  <2>1. (sn + 1) - 0 \in Int /\ 0 - Mod <= (sn + 1) - 0 /\ (sn + 1) - 0 < 2 * Mod
    BY <1>1
  <2>2. ((sn + 1) - 0) % Mod = IF (sn + 1) - 0 < 0 THEN (sn + 1) - 0 + Mod
                               ELSE IF (sn + 1) - 0 < Mod THEN (sn + 1) - 0
                               ELSE (sn + 1) - 0 - Mod
    BY <1>1, <2>1, SmallMod
  <2>3. QED
    BY <1>1, <2>2
<1> DEFINE t == (sn + 1) % Mod
<1>5. t \in 0..(Mod - 1)
  BY <1>1, <1>4
<1>6. (t - base) % Mod = IF t - base < 0 THEN t - base + Mod ELSE t - base
  <2> HIDE DEF t
  <2>1. t - base \in Int /\ 0 - Mod <= t - base /\ t - base < Mod /\ t - base < 2 * Mod
    BY <1>1, <1>5
  <2>2. QED
    BY <1>1, <2>1, SmallMod
<1>7. Ahead(sn, base) = IF sn >= base THEN sn - base ELSE sn - base + Mod
  BY <1>1, <1>2 DEF Ahead
<1>8. Ahead(sn + 1, base) = IF Ahead(sn, base) = Mod - 1 THEN 0 ELSE Ahead(sn, base) + 1
  <2>1. Ahead(sn + 1, base) = ((sn + 1) - base) % Mod
    BY DEF Ahead
  <2>2. QED
    BY <1>1, <1>3, <1>7, <2>1
<1>9. Ahead(t, base) = (t - base) % Mod
  BY DEF Ahead
<1> HIDE DEF t
<1>10. t = IF sn + 1 < Mod THEN sn + 1 ELSE sn + 1 - Mod
  BY <1>4 DEF t
<1>11. Ahead(t, base) = Ahead(sn + 1, base)
  BY <1>1, <1>6, <1>7, <1>8, <1>9, <1>10
<1>12. QED
  BY <1>1, <1>5, <1>7, <1>8, <1>11 DEF t, SN

(* The SN at a distance from base.                                         *)
At(base, d) == (base + d) % Mod

(* It is a sequence number at that distance.                               *)
LEMMA AtIs ==
  ASSUME NEW base \in SN, NEW d \in 0..(Mod - 1)
  PROVE  At(base, d) \in SN /\ Ahead(At(base, d), base) = d
<1>1. Mod \in Nat \ {0} /\ base \in 0..(Mod - 1)
  BY WindowSize DEF SN
<1>2. (base + d) - 0 \in Int /\ 0 - Mod <= (base + d) - 0 /\ (base + d) - 0 < 2 * Mod
  BY <1>1
<1>3. ((base + d) - 0) % Mod = IF (base + d) - 0 < 0 THEN (base + d) - 0 + Mod
                               ELSE IF (base + d) - 0 < Mod THEN (base + d) - 0
                               ELSE (base + d) - 0 - Mod
  BY <1>1, <1>2, SmallMod
<1> DEFINE t == At(base, d)
<1>4. t = IF base + d < Mod THEN base + d ELSE base + d - Mod
  BY <1>1, <1>3 DEF At
<1> HIDE DEF t
<1>5. t \in 0..(Mod - 1)
  BY <1>1, <1>4
<1>6. t \in SN
  BY <1>5 DEF SN
<1>7. Ahead(t, base) = IF t >= base THEN t - base ELSE t - base + Mod
  BY <1>6, AheadIs
<1>8. QED
  BY <1>1, <1>4, <1>5, <1>6, <1>7 DEF t

(* Distances from a base determine an SN, and are rebased by subtraction.  *)
LEMMA Rebase ==
  ASSUME NEW base \in SN, NEW next \in SN, NEW sn \in SN
  PROVE  /\ Ahead(sn, next) = IF Ahead(sn, base) >= Ahead(next, base)
                              THEN Ahead(sn, base) - Ahead(next, base)
                              ELSE Ahead(sn, base) - Ahead(next, base) + Mod
         /\ Ahead(sn, base) = Ahead(next, base) <=> sn = next
         /\ Ahead(base, base) = 0
         /\ At(base, Ahead(sn, base)) = sn
<1>1. Mod \in Nat \ {0} /\ base \in 0..(Mod - 1) /\ next \in 0..(Mod - 1) /\ sn \in 0..(Mod - 1)
  BY WindowSize DEF SN
<1>2. /\ Ahead(sn, base) = IF sn >= base THEN sn - base ELSE sn - base + Mod
      /\ Ahead(next, base) = IF next >= base THEN next - base ELSE next - base + Mod
      /\ Ahead(sn, next) = IF sn >= next THEN sn - next ELSE sn - next + Mod
      /\ Ahead(base, base) = IF base >= base THEN base - base ELSE base - base + Mod
      /\ Ahead(sn, base) \in 0..(Mod - 1)
  BY AheadIs
<1>3. Ahead(base, base) = 0
  BY <1>1, <1>2
<1>4. Ahead(sn, next) = IF Ahead(sn, base) >= Ahead(next, base)
                        THEN Ahead(sn, base) - Ahead(next, base)
                        ELSE Ahead(sn, base) - Ahead(next, base) + Mod
  BY <1>1, <1>2
<1>5. Ahead(sn, base) = Ahead(next, base) <=> sn = next
  BY <1>1, <1>2
<1>6. At(base, Ahead(sn, base)) = sn
  <2> DEFINE t == At(base, Ahead(sn, base))
  <2>1. t \in SN /\ Ahead(t, base) = Ahead(sn, base)
    BY <1>2, AtIs
  <2> HIDE DEF t
  <2>2. t \in 0..(Mod - 1) /\ Ahead(t, base) = IF t >= base THEN t - base ELSE t - base + Mod
    BY <2>1, AheadIs DEF SN
  <2>3. t = sn
    BY <1>1, <1>2, <2>1, <2>2
  <2>4. QED
    BY <2>3 DEF t
<1>7. QED
  BY <1>3, <1>4, <1>5, <1>6

(* The greater of two numbers.                                             *)
LEMMA MaxOfTwo ==
  ASSUME NEW a \in Int, NEW b \in Int
  PROVE  Max({a, b}) = IF a >= b THEN a ELSE b
<1> DEFINE S == {a, b}
           m == IF a >= b THEN a ELSE b
<1>1. m \in S /\ \A y \in S : m >= y
  OBVIOUS
<1>2. \A x \in S : (\A y \in S : x >= y) => x = m
  OBVIOUS
<1>3. Max(S) = CHOOSE x \in S : \A y \in S : x >= y
  BY DEF Max
<1> HIDE DEF S, m
<1>4. Max(S) = m
  BY <1>1, <1>2, <1>3
<1>5. QED
  BY <1>4 DEF S, m

(* A set of numbers that is not empty has a minimal element.               *)
LEMMA Minimal ==
  ASSUME NEW R, NEW T \in SUBSET Nat, T # {}, IsWellFoundedOn(R, Nat)
  PROVE  \E x \in T : \A y \in T : ~(<<y, x>> \in R)
<1>1. T \subseteq Nat
  OBVIOUS
<1>2. QED
  BY <1>1, WFMin, Zenon

(* A set of numbers that is not empty has a least element.                 *)
LEMMA Least ==
  ASSUME NEW T \in SUBSET Nat, T # {}
  PROVE  \E x \in T : \A y \in T : x <= y
<1>1. PICK x \in T : \A y \in T : ~(<<y, x>> \in OpToRel(<, Nat))
  BY Minimal, NatLessThanWellFounded, Zenon
<1>2. \A y \in T : y < x => <<y, x>> \in OpToRel(<, Nat)
  BY DEF OpToRel
<1>3. \A y \in T : ~(y < x)
  BY <1>1, <1>2, Zenon
<1>4. QED
  BY <1>3

(* FirstMissing: every SN before the result is received, and the result is *)
(* not, unless it is the limit.                                            *)
LEMMA FirstMissingIs ==
  ASSUME NEW window, NEW sn \in SN, NEW limit \in SN, NEW base \in SN,
         NEW r, r = FirstMissing(window, sn, limit, base)
  PROVE  /\ r \in SN /\ Ahead(sn, base) <= Ahead(r, base)
         /\ Ahead(r, base) <= Ahead(sn, base) \/ Ahead(r, base) <= Ahead(limit, base)
         /\ Ahead(r, base) >= Ahead(limit, base) \/ ~Received(window, r)
         /\ \A s \in SN : Ahead(sn, base) <= Ahead(s, base) /\ Ahead(s, base) < Ahead(r, base)
                          => Received(window, s)
<1> DEFINE from == Ahead(sn, base)
           lim == Ahead(limit, base)
           top == Max({from, lim})
           Good(d) == d >= lim \/ ~Received(window, At(base, d))
           Rec(e) == Received(window, At(base, e))
           P(d) == Good(d) /\ \A e \in from..(d - 1) : Rec(e)
           d0 == CHOOSE d \in from..top : P(d)
<1>1. from \in 0..(Mod - 1) /\ lim \in 0..(Mod - 1) /\ Mod \in Nat
  BY AheadIs, WindowSize
<1>2. r = At(base, d0)
  BY DEF FirstMissing, At
<1> HIDE DEF from, lim
<1>3. top = IF from >= lim THEN from ELSE lim
  BY <1>1, MaxOfTwo
<1> HIDE DEF top
<1>4. \E d \in from..top : P(d)
  <2> DEFINE T == {d \in from..top : Good(d)}
  <2>1. T \in SUBSET Nat
    BY <1>1, <1>3
  <2>2. top \in T
    BY <1>1, <1>3
  <2>3. PICK d \in T : \A y \in T : d <= y
    <3> HIDE DEF T
    <3>1. QED
      BY <2>1, <2>2, Least
  <2>4. ASSUME NEW e \in from..(d - 1)
        PROVE  Rec(e)
    <3>1. e \in from..top /\ ~(d <= e)
      BY <1>1, <1>3, <2>1, <2>3
    <3>2. e \notin T
      BY <2>3, <3>1
    <3>3. QED
      BY <3>1, <3>2
  <2>5. QED
    BY <2>3, <2>4
<1>5. d0 \in from..top /\ P(d0)
  BY <1>4
<1> HIDE DEF d0
<1>6. d0 \in 0..(Mod - 1) /\ from <= d0 /\ (d0 <= from \/ d0 <= lim)
  BY <1>1, <1>3, <1>5
<1>7. r \in SN /\ Ahead(r, base) = d0
  BY <1>2, <1>6, AtIs
<1>8. ASSUME NEW s \in SN, from <= Ahead(s, base), Ahead(s, base) < d0
      PROVE  Received(window, s)
  <2>1. Ahead(s, base) \in from..(d0 - 1)
    <3>1. Ahead(s, base) \in 0..(Mod - 1)
      BY AheadIs
    <3>2. QED
      BY <1>1, <1>6, <1>8, <3>1
  <2>2. At(base, Ahead(s, base)) = s
    BY Rebase
  <2>3. QED
    BY <1>5, <2>1, <2>2
<1>9. d0 >= lim \/ ~Received(window, r)
  BY <1>2, <1>5
<1>10. \A s \in SN : from <= Ahead(s, base) /\ Ahead(s, base) < d0 => Received(window, s)
  BY <1>8
<1>11. QED
  BY <1>6, <1>7, <1>9, <1>10 DEF from, lim

-----------------------------------------------------------------------------
(* The inductive invariant of the receiving side.                          *)

RxTypes ==
  /\ rx_next \in SN /\ rx_next_status_trigger \in SN
  /\ rx_highest_status \in SN /\ rx_next_highest \in SN
  /\ DOMAIN rx_window \subseteq SN /\ reassembly_timer \in BOOLEAN

(* Something of the SN below rx_next_highest was received.                 *)
HeldInv ==
  \A sn \in SN : Ahead(sn, rx_next) + 1 = Ahead(rx_next_highest, rx_next) =>
    sn \in DOMAIN rx_window

(* While t-Reassembly runs its trigger is within the SNs received so far,  *)
(* and something of the SN below it was received.                          *)
TimerInv ==
  reassembly_timer =>
    /\ Ahead(rx_next_status_trigger, rx_next) >= 1
    /\ Ahead(rx_next_status_trigger, rx_next) <= Ahead(rx_next_highest, rx_next)
    /\ \A sn \in SN : Ahead(sn, rx_next) + 1 = Ahead(rx_next_status_trigger, rx_next) =>
         sn \in DOMAIN rx_window

(* What RX_Highest_Status has passed beyond the trigger was received, so   *)
(* that the expiry, which takes it to the trigger, does not take it back.  *)
PassedInv ==
  reassembly_timer =>
    \A sn \in SN :
      /\ Ahead(rx_next_status_trigger, rx_next) <= Ahead(sn, rx_next)
      /\ Ahead(sn, rx_next) < Ahead(rx_highest_status, rx_next)
      => Received(rx_window, sn)

RxInv == RxTypes /\ RxStateOrdered /\ HeldInv /\ TimerInv /\ PassedInv

(* RxStateOrdered with its abbreviation unfolded.                          *)
LEMMA Ordered ==
  RxStateOrdered <=>
    /\ Ahead(rx_highest_status, rx_next) <= Ahead(rx_next_highest, rx_next)
    /\ Ahead(rx_next_highest, rx_next) <= am_window_size
    /\ ~Received(rx_window, rx_next) /\ ~Received(rx_window, rx_highest_status)
    /\ \A sn \in DOMAIN rx_window : Ahead(sn, rx_next) < Ahead(rx_next_highest, rx_next)
  BY DEF RxStateOrdered

(* A window with one entry written.                                        *)
LEMMA Written ==
  ASSUME NEW f, NEW sn, NEW info, NEW g, g = WithEntry(f, sn, info)
  PROVE  /\ DOMAIN g = DOMAIN f \cup {sn}
         /\ Received(g, sn) <=> FullyReceived(info)
         /\ \A s : s # sn => (Received(g, s) <=> Received(f, s))
<1>1. DOMAIN g = DOMAIN f \cup {sn}
  BY DEF WithEntry
<1>2. g[sn] = info
  BY DEF WithEntry
<1>3. \A s \in DOMAIN f : s # sn => g[s] = f[s]
  BY DEF WithEntry
<1>4. QED
  BY <1>1, <1>2, <1>3 DEF Received

(* The window entry that handle_data_pdu reads to see whether to stop a    *)
(* running t-Reassembly is there.                                          *)
TriggerHeld ==
  reassembly_timer =>
    (Ahead(rx_next_status_trigger, rx_next') = Ahead(rx_next' + 1, rx_next') =>
       rx_next' \in DOMAIN rx_window')

(* RX_Highest_Status never moves back.                                     *)
HighestGrows == Ahead(rx_highest_status, rx_next) <= Ahead(rx_highest_status', rx_next)

(* A data PDU of the window that is not complete is stored: the window     *)
(* moves past what is complete.                                            *)
LEMMA PlaceKeeps ==
  ASSUME RxInv, NEW pdu, pdu.sn \in SN, ~Discarded(pdu), PlacePdu(pdu)
  PROVE  RxInv' /\ TriggerHeld /\ HighestGrows
<1> DEFINE sn       == pdu.sn
           info     == StoreSdu(Stored(pdu.sn), pdu)
           window   == WithEntry(rx_window, pdu.sn, info)
           highest  == IF Ahead(pdu.sn, rx_next) >= Ahead(rx_next_highest, rx_next)
                       THEN (pdu.sn + 1) % Mod ELSE rx_next_highest
           complete == FullyReceived(info)
           next     == IF complete /\ pdu.sn = rx_next
                       THEN FirstMissing(window, rx_next, highest, rx_next) ELSE rx_next
           kept     == {s \in DOMAIN window : Ahead(s, rx_next) >= Ahead(next, rx_next)}
           final    == Restrict(window, kept)
           running  == reassembly_timer /\ ~StopReassembly(final, next)
           starts   == ~running /\ StartReassembly(final, next, highest, next)
           hs       == IF complete /\ pdu.sn = rx_highest_status
                       THEN FirstMissing(window, (rx_highest_status + 1) % Mod, highest, rx_next)
                       ELSE rx_highest_status
           b == rx_next
           S == Ahead(sn, b)
           H0 == Ahead(rx_next_highest, b)
           H == Ahead(highest, b)
           E == Ahead(next, b)
<1>1. /\ rx_window' = final /\ rx_next_highest' = highest /\ rx_next' = next
      /\ rx_highest_status' = hs
      /\ reassembly_timer' = (running \/ starts)
      /\ rx_next_status_trigger' = IF starts THEN highest ELSE rx_next_status_trigger
  BY DEF PlacePdu
<1>2. /\ b \in SN /\ sn \in SN /\ rx_next_highest \in SN /\ rx_highest_status \in SN
      /\ DOMAIN rx_window \subseteq SN /\ rx_next_status_trigger \in SN
      /\ reassembly_timer \in BOOLEAN
  BY DEF RxInv, RxTypes
<1>3. /\ Ahead(rx_highest_status, b) <= H0 /\ H0 <= am_window_size
      /\ ~Received(rx_window, b) /\ ~Received(rx_window, rx_highest_status)
      /\ \A s \in DOMAIN rx_window : Ahead(s, b) < H0
  BY Ordered DEF RxInv
<1>4. S < am_window_size /\ ~Received(rx_window, sn)
  <2>1. S \in 0..(Mod - 1) /\ Mod \in Nat /\ am_window_size \in Nat
    BY <1>2, AheadIs, WindowSize
  <2>2. ~(S >= am_window_size) /\ ~Received(rx_window, sn)
    BY DEF Discarded
  <2>3. QED
    BY <2>1, <2>2
<1> HIDE DEF info
<1>5. /\ DOMAIN window = DOMAIN rx_window \cup {sn}
      /\ Received(window, sn) <=> complete
      /\ \A s : s # sn => (Received(window, s) <=> Received(rx_window, s))
  <2>1. window = WithEntry(rx_window, sn, info)
    OBVIOUS
  <2> HIDE DEF window, sn
  <2>2. /\ DOMAIN window = DOMAIN rx_window \cup {sn}
        /\ Received(window, sn) <=> FullyReceived(info)
        /\ \A s : s # sn => (Received(window, s) <=> Received(rx_window, s))
    BY <2>1, Written
  <2>3. QED
    BY <2>2
<1>6. /\ Mod \in Nat \ {0} /\ am_window_size \in Nat /\ am_window_size >= 2
      /\ Mod = 2 * am_window_size
      /\ S \in 0..(Mod - 1) /\ H0 \in 0..(Mod - 1)
      /\ \A s \in SN : Ahead(s, b) \in 0..(Mod - 1)
  BY <1>2, AheadIs, WindowSize
<1> HIDE DEF window, complete, sn, b
<1>7. highest \in SN /\ H \in 0..(Mod - 1) /\ ((H = S + 1 /\ S >= H0) \/ (highest = rx_next_highest /\ S < H0))
  <2>1. CASE S >= H0
    <3>1. highest = (sn + 1) % Mod
      BY <2>1 DEF sn, b
    <3>2. highest \in SN /\ H = IF S = Mod - 1 THEN 0 ELSE S + 1
      BY <1>2, <3>1, AheadIs
    <3>3. S # Mod - 1 /\ S + 1 \in 0..(Mod - 1)
      BY <1>4, <1>6
    <3> HIDE DEF H, S, highest
    <3>4. H = S + 1 /\ H \in 0..(Mod - 1)
      BY <3>2, <3>3
    <3>5. QED
      BY <2>1, <3>2, <3>4
  <2>2. CASE ~(S >= H0)
    <3>1. highest = rx_next_highest
      BY <2>2 DEF sn, b
    <3>2. QED
      BY <1>2, <1>6, <2>2, <3>1
  <2>3. QED
    BY <2>1, <2>2
<1>8. H >= S + 1 /\ H >= H0 /\ H <= am_window_size
  BY <1>3, <1>4, <1>6, <1>7
<1>9. \A s \in DOMAIN window : s \in SN /\ Ahead(s, b) < H
  <2>1. \A s \in DOMAIN rx_window : s \in SN /\ Ahead(s, b) < H
    BY <1>2, <1>3, <1>6, <1>7, <1>8
  <2>2. sn \in SN /\ Ahead(sn, b) < H
    BY <1>2, <1>6, <1>7, <1>8
  <2>3. QED
    BY <1>5, <2>1, <2>2
<1>10. \A s \in SN : Ahead(s, b) + 1 = H => s \in DOMAIN window
  <2>1. CASE H = S + 1 /\ S >= H0
    <3>1. \A s \in SN : Ahead(s, b) + 1 = H => Ahead(s, b) = S
      BY <1>6, <2>1
    <3>2. \A s \in SN : Ahead(s, b) = Ahead(sn, b) <=> s = sn
      BY <1>2, Rebase
    <3>3. QED
      BY <1>5, <3>1, <3>2
  <2>2. CASE highest = rx_next_highest /\ S < H0
    BY <1>5, <2>2 DEF RxInv, HeldInv, b
  <2>3. QED
    BY <1>7, <2>1, <2>2
<1> HIDE DEF highest, H0
<1>11. Ahead(b, b) = 0 /\ \A s \in SN : Ahead(s, b) = 0 => s = b
  BY <1>2, Rebase
<1>12. /\ next \in SN /\ E \in 0..(Mod - 1) /\ E <= H /\ ~Received(window, next)
       /\ (complete /\ sn = b) \/ E = 0
       /\ \A s \in SN : Ahead(s, b) < E => Received(window, s)
  <2>1. CASE complete /\ sn = b
    <3>1. next = FirstMissing(window, b, highest, b)
      BY <2>1 DEF sn, b
    <3>2. /\ next \in SN /\ Ahead(b, b) <= E /\ (E <= Ahead(b, b) \/ E <= H)
          /\ E >= H \/ ~Received(window, next)
          /\ \A s \in SN : Ahead(b, b) <= Ahead(s, b) /\ Ahead(s, b) < E => Received(window, s)
      BY <1>2, <1>7, <3>1, FirstMissingIs
    <3>3. E \in 0..(Mod - 1)
      BY <1>6, <3>2
    <3>4. E <= H
      BY <1>7, <1>11, <3>2, <3>3
    <3>5. E >= H => ~Received(window, next)
      <4>1. next \in DOMAIN window => E < H
        BY <1>9
      <4>2. QED
        BY <1>7, <3>3, <4>1 DEF Received
    <3>6. \A s \in SN : Ahead(b, b) <= Ahead(s, b)
      BY <1>6, <1>11
    <3>7. QED
      BY <2>1, <3>2, <3>3, <3>4, <3>5, <3>6
  <2>2. CASE ~(complete /\ sn = b)
    <3>1. next = b
      BY <2>2 DEF sn, b
    <3>2. ~Received(window, b)
      BY <1>3, <1>5, <2>2
    <3>3. E = 0
      BY <1>11, <3>1
    <3>4. next \in SN /\ ~Received(window, next)
      BY <1>2, <3>1, <3>2
    <3>5. E \in 0..(Mod - 1) /\ E <= H
      BY <1>6, <1>7, <3>3
    <3>6. \A s \in SN : ~(Ahead(s, b) < E)
      BY <1>6, <3>3
    <3>7. QED
      BY <3>3, <3>4, <3>5, <3>6
  <2>3. QED
    BY <2>1, <2>2
<1> HIDE DEF next
<1>13. /\ hs \in SN /\ Ahead(hs, b) \in 0..(Mod - 1) /\ Ahead(hs, b) <= H
       /\ Ahead(hs, b) >= E /\ ~Received(window, hs)
       /\ Ahead(rx_highest_status, b) <= Ahead(hs, b)
       /\ \A s \in SN : /\ Ahead(rx_highest_status, b) <= Ahead(s, b)
                        /\ Ahead(s, b) < Ahead(hs, b)
                        => Received(window, s)
  <2>1. CASE complete /\ sn = rx_highest_status
    <3> DEFINE t == (rx_highest_status + 1) % Mod
    <3>1. hs = FirstMissing(window, t, highest, b)
      BY <2>1 DEF sn, b
    <3>2. t \in SN /\ Ahead(t, b) = IF S = Mod - 1 THEN 0 ELSE S + 1
      BY <1>2, <2>1, AheadIs
    <3>3. Ahead(t, b) = S + 1
      BY <1>4, <1>6, <3>2
    <3> HIDE DEF t, hs
    <3>4. /\ hs \in SN /\ S + 1 <= Ahead(hs, b)
          /\ Ahead(hs, b) <= S + 1 \/ Ahead(hs, b) <= H
          /\ Ahead(hs, b) >= H \/ ~Received(window, hs)
          /\ \A s \in SN : S + 1 <= Ahead(s, b) /\ Ahead(s, b) < Ahead(hs, b) => Received(window, s)
      BY <1>2, <1>7, <3>1, <3>2, <3>3, FirstMissingIs
    <3>5. Ahead(hs, b) \in 0..(Mod - 1)
      BY <1>6, <3>4
    <3>6. Ahead(hs, b) <= H
      BY <1>6, <1>7, <1>8, <3>4, <3>5
    <3>7. ~Received(window, hs)
      <4>1. hs \in DOMAIN window => Ahead(hs, b) < H
        BY <1>9
      <4>2. QED
        BY <1>7, <3>4, <3>5, <4>1 DEF Received
    <3>8. Ahead(hs, b) >= E
      <4>1. CASE E = 0
        BY <3>5, <4>1
      <4>2. CASE E # 0
        <5>1. complete /\ sn = b
          BY <1>12, <4>2
        <5>2. ~(Ahead(hs, b) < E)
          BY <1>12, <3>4, <3>7
        <5>3. QED
          BY <1>12, <3>5, <5>2
      <4>3. QED
        BY <4>1, <4>2
    <3>9. ASSUME NEW s \in SN, S <= Ahead(s, b), Ahead(s, b) < Ahead(hs, b)
          PROVE  Received(window, s)
      <4>1. CASE Ahead(s, b) = S
        <5>1. s = sn
          BY <1>2, <4>1, Rebase
        <5>2. QED
          BY <1>5, <2>1, <5>1
      <4>2. CASE Ahead(s, b) # S
        <5>1. S + 1 <= Ahead(s, b)
          BY <1>6, <3>9, <4>2
        <5>2. QED
          BY <3>4, <3>9, <5>1
      <4>3. QED
        BY <4>1, <4>2
    <3>10. S <= Ahead(hs, b) /\ S = Ahead(rx_highest_status, b)
      BY <1>6, <2>1, <3>4, <3>5
    <3>11. QED
      BY <3>4, <3>5, <3>6, <3>7, <3>8, <3>9, <3>10
  <2>2. CASE ~(complete /\ sn = rx_highest_status)
    <3>1. hs = rx_highest_status
      BY <2>2 DEF sn
    <3> HIDE DEF hs
    <3>2. hs \in SN /\ Ahead(hs, b) \in 0..(Mod - 1)
      BY <1>2, <1>6, <3>1
    <3>3. Ahead(hs, b) <= H
      BY <1>3, <1>6, <1>7, <1>8, <3>1, <3>2
    <3>4. ~Received(window, hs)
      BY <1>3, <1>5, <2>2, <3>1
    <3>5. ~(Ahead(hs, b) < E)
      BY <1>12, <3>2, <3>4
    <3>6. \A s \in SN : ~(Ahead(hs, b) <= Ahead(s, b) /\ Ahead(s, b) < Ahead(hs, b))
      BY <1>6, <3>2
    <3>7. QED
      BY <1>12, <3>1, <3>2, <3>3, <3>4, <3>5, <3>6
  <2>3. QED
    BY <2>1, <2>2
<1> HIDE DEF hs
<1>14. \A s \in SN : /\ Ahead(s, next) = IF Ahead(s, b) >= E THEN Ahead(s, b) - E ELSE Ahead(s, b) - E + Mod
                     /\ Ahead(s, b) = E <=> s = next
                     /\ Ahead(next, next) = 0
  BY <1>2, <1>12, Rebase
<1> HIDE DEF H, E
<1>15. /\ Ahead(highest, next) = H - E
       /\ Ahead(hs, next) = Ahead(hs, b) - E
       /\ \A s \in SN : Ahead(s, b) >= E => Ahead(s, next) = Ahead(s, b) - E
       /\ \A s \in SN : Ahead(s, b) < E => Ahead(s, next) = Ahead(s, b) - E + Mod
  <2>1. Ahead(highest, b) = H
    BY DEF H
  <2>2. \A s \in SN : Ahead(s, b) >= E => Ahead(s, next) = Ahead(s, b) - E
    BY <1>14
  <2>3. \A s \in SN : Ahead(s, b) < E => Ahead(s, next) = Ahead(s, b) - E + Mod
    BY <1>6, <1>12, <1>14
  <2>4. H >= E
    BY <1>7, <1>12
  <2>5. QED
    BY <1>7, <1>13, <2>1, <2>2, <2>3, <2>4
<1>16. /\ DOMAIN final = {s \in DOMAIN window : Ahead(s, b) >= E}
       /\ \A s \in DOMAIN final : final[s] = window[s]
  BY DEF Restrict, b, E
<1> HIDE DEF final
<1>17. /\ \A s \in DOMAIN final : s \in DOMAIN window /\ s \in SN /\ Ahead(s, b) >= E
       /\ \A s : Received(final, s) => Received(window, s)
  BY <1>9, <1>16 DEF Received
<1>18. \A s \in SN : Ahead(s, next) + 1 = Ahead(highest, next) => s \in DOMAIN final
  <2> SUFFICES ASSUME NEW s \in SN, Ahead(s, next) + 1 = H - E
               PROVE  s \in DOMAIN final
    BY <1>15
  <2>1. Ahead(s, b) \in 0..(Mod - 1)
    BY <1>6
  <2>2. ~(Ahead(s, b) < E)
    BY <1>6, <1>7, <1>12, <1>15, <2>1
  <2>3. Ahead(s, b) >= E /\ Ahead(s, b) + 1 = H
    BY <1>7, <1>12, <1>15, <2>1, <2>2
  <2>4. s \in DOMAIN window
    BY <1>10, <2>3 DEF H
  <2>5. QED
    BY <1>16, <2>3, <2>4
<1>19. Ahead(next, next) = 0 /\ Ahead(next + 1, next) = 1
  <2>1. Ahead(next, next) = 0 /\ Mod - 1 # 0
    BY <1>6, <1>14, <1>12
  <2>2. Ahead(next + 1, next) = IF Ahead(next, next) = Mod - 1 THEN 0 ELSE Ahead(next, next) + 1
    BY <1>12, AheadIs
  <2>3. QED
    BY <2>1, <2>2
<1>20. starts => Ahead(highest, next) >= 1
  <2>1. starts => Ahead(highest, next) > 1 \/ Ahead(highest, next) = 1
    BY <1>19 DEF StartReassembly
  <2>2. H - E \in Int
    BY <1>7, <1>12
  <2>3. QED
    BY <1>15, <2>1, <2>2
<1> DEFINE trigger == rx_next_status_trigger
           T == Ahead(trigger, b)
           near == reassembly_timer /\ trigger # next /\ ~(Ahead(trigger, next) >= am_window_size)
<1>21. near => /\ Ahead(trigger, next) >= 1
               /\ T >= E /\ Ahead(trigger, next) = T - E
               /\ Ahead(trigger, next) <= Ahead(highest, next)
               /\ \A s \in SN : Ahead(s, next) + 1 = Ahead(trigger, next) => s \in DOMAIN final
  <2> SUFFICES ASSUME near
               PROVE  /\ Ahead(trigger, next) >= 1
                      /\ T >= E /\ Ahead(trigger, next) = T - E
                      /\ Ahead(trigger, next) <= Ahead(highest, next)
                      /\ \A s \in SN : Ahead(s, next) + 1 = Ahead(trigger, next) => s \in DOMAIN final
    OBVIOUS
  <2>1. reassembly_timer /\ trigger # next /\ ~(Ahead(trigger, next) >= am_window_size)
    OBVIOUS
  <2>2. T >= 1 /\ T <= H0 /\ \A s \in SN : Ahead(s, b) + 1 = T => s \in DOMAIN rx_window
    BY <2>1 DEF RxInv, TimerInv, b, H0
  <2>3. T \in 0..(Mod - 1) /\ trigger \in SN
    BY <1>2, <1>6
  <2>4. T >= E => Ahead(trigger, next) = T - E
    BY <1>15, <2>3
  <2>5. T < E => Ahead(trigger, next) = T - E + Mod
    BY <1>15, <2>3
  <2>6. T # E
    BY <1>14, <2>1, <2>3
  <2> HIDE DEF T, trigger, near
  <2>7. H0 \in 0..(Mod - 1) /\ H \in 0..(Mod - 1) /\ E \in 0..(Mod - 1) /\ E <= H
        /\ H0 <= H /\ H <= am_window_size /\ am_window_size \in Nat /\ Mod = 2 * am_window_size
    BY <1>6, <1>7, <1>8, <1>12 DEF H, E
  <2>8. ~(T < E)
    BY <2>1, <2>3, <2>5, <2>7
  <2>9. T >= E /\ Ahead(trigger, next) = T - E /\ T - E >= 1 /\ T - E <= H - E
    BY <2>2, <2>3, <2>4, <2>6, <2>7, <2>8
  <2>10. ASSUME NEW s \in SN, Ahead(s, next) + 1 = T - E
         PROVE  s \in DOMAIN final
    <3>1. Ahead(s, b) \in 0..(Mod - 1)
      BY <1>6
    <3>2. Ahead(s, b) < E => Ahead(s, next) = Ahead(s, b) - E + Mod
      BY <1>15
    <3>3. ~(Ahead(s, b) < E)
      BY <2>3, <2>7, <2>10, <3>1, <3>2
    <3>4. Ahead(s, b) >= E /\ Ahead(s, next) = Ahead(s, b) - E
      BY <1>15, <2>7, <3>1, <3>3
    <3>5. Ahead(s, b) + 1 = T
      BY <2>3, <2>7, <2>10, <3>1, <3>4
    <3>6. s \in DOMAIN window
      BY <1>5, <2>2, <3>5
    <3>7. QED
      BY <1>16, <3>4, <3>6
  <2>11. QED
    BY <1>15, <2>9, <2>10
<1>22. /\ Ahead(hs, next) <= Ahead(highest, next)
       /\ Ahead(highest, next) <= am_window_size
       /\ ~Received(final, next) /\ ~Received(final, hs)
       /\ \A s \in DOMAIN final : Ahead(s, next) < Ahead(highest, next)
  <2>1. Ahead(hs, next) <= Ahead(highest, next) /\ Ahead(highest, next) <= am_window_size
    BY <1>6, <1>7, <1>8, <1>12, <1>13, <1>15
  <2>2. ASSUME NEW s \in DOMAIN final
        PROVE  Ahead(s, next) < Ahead(highest, next)
    <3>1. s \in SN /\ Ahead(s, b) >= E /\ Ahead(s, b) < H /\ Ahead(s, b) \in 0..(Mod - 1)
      BY <1>6, <1>9, <1>17 DEF H
    <3>2. Ahead(s, next) = Ahead(s, b) - E
      BY <1>15, <3>1
    <3>3. QED
      BY <1>7, <1>12, <1>15, <3>1, <3>2
  <2>3. QED
    BY <1>12, <1>13, <1>17, <2>1, <2>2
<1>23. running => near
  BY DEF StopReassembly
<1>24. reassembly_timer /\ Ahead(trigger, next) = Ahead(next + 1, next) => next \in DOMAIN final
  <2> SUFFICES ASSUME reassembly_timer, Ahead(trigger, next) = Ahead(next + 1, next)
               PROVE  next \in DOMAIN final
    OBVIOUS
  <2>1. Ahead(trigger, next) = 1 /\ Ahead(next, next) = 0 /\ ~(1 >= am_window_size)
    BY <1>6, <1>19
  <2> HIDE DEF trigger
  <2>2. near
    BY <2>1
  <2> HIDE DEF near
  <2>3. \A s \in SN : Ahead(s, next) + 1 = 1 => s \in DOMAIN final
    BY <1>21, <2>1, <2>2
  <2>4. QED
    BY <1>12, <2>1, <2>3
<1> HIDE DEF running, starts, near
<1>25. RxTypes'
  BY <1>1, <1>2, <1>7, <1>12, <1>13, <1>17 DEF RxTypes
<1>26. RxStateOrdered'
  BY <1>1, <1>22 DEF RxStateOrdered
<1>27. HeldInv'
  BY <1>1, <1>18 DEF HeldInv
<1>28. TimerInv'
  <2>1. CASE starts
    <3>1. rx_next_status_trigger' = highest /\ rx_next_highest' = highest /\ rx_next' = next
          /\ rx_window' = final
      BY <1>1, <2>1
    <3>2. Ahead(highest, next) >= 1 /\ Ahead(highest, next) <= Ahead(highest, next)
      BY <1>6, <1>7, <1>12, <1>15, <1>20, <2>1
    <3>3. QED
      BY <1>18, <3>1, <3>2 DEF TimerInv
  <2>2. CASE ~starts
    <3>1. rx_next_status_trigger' = trigger /\ rx_next_highest' = highest /\ rx_next' = next
          /\ rx_window' = final /\ reassembly_timer' = (running \/ starts)
      BY <1>1, <2>2
    <3> HIDE DEF trigger
    <3>2. QED
      BY <1>21, <1>23, <2>2, <3>1 DEF TimerInv
  <2>3. QED
    BY <2>1, <2>2
<1>29. ASSUME running, NEW s \in SN, Ahead(trigger, next) <= Ahead(s, next),
              Ahead(s, next) < Ahead(hs, next)
       PROVE  Received(final, s)
  <2> DEFINE A == Ahead(s, b)
             U == Ahead(hs, b)
  <2>1. /\ T >= E /\ Ahead(trigger, next) = T - E /\ reassembly_timer
        /\ T \in 0..(Mod - 1) /\ trigger \in SN /\ A \in 0..(Mod - 1)
    BY <1>2, <1>6, <1>21, <1>23, <1>29 DEF running
  <2>2. /\ U \in 0..(Mod - 1) /\ Ahead(hs, next) = U - E /\ E \in 0..(Mod - 1)
        /\ (A >= E => Ahead(s, next) = A - E) /\ (A < E => Ahead(s, next) = A - E + Mod)
    BY <1>12, <1>13, <1>15 DEF E
  <2> HIDE DEF A, T, U, trigger
  <2>3. A >= E /\ T <= A /\ A < U
    BY <1>6, <1>29, <2>1, <2>2
  <2>4. Received(window, s)
    <3> DEFINE V == Ahead(rx_highest_status, b)
    <3>1. V \in 0..(Mod - 1)
      BY <1>2, <1>6
    <3> HIDE DEF V
    <3>2. CASE A < V
      <4>1. Received(rx_window, s)
        BY <2>1, <2>3, <3>2 DEF RxInv, PassedInv, A, T, V, b, trigger
      <4>2. QED
        BY <1>4, <1>5, <4>1
    <3>3. CASE V <= A
      BY <1>13, <2>3, <3>3 DEF A, U, V
    <3>4. QED
      BY <2>1, <3>1, <3>2, <3>3
  <2>5. s \in DOMAIN final /\ final[s] = window[s]
    BY <1>16, <2>3, <2>4 DEF A, Received
  <2>6. QED
    BY <2>4, <2>5 DEF Received
<1>30. PassedInv'
  <2>1. CASE starts
    <3>1. rx_next_status_trigger' = highest /\ rx_highest_status' = hs /\ rx_next' = next
      BY <1>1, <2>1
    <3>2. ASSUME NEW s \in SN, Ahead(highest, next) <= Ahead(s, next),
                 Ahead(s, next) < Ahead(hs, next)
          PROVE  FALSE
      <4>1. s \in SN /\ next \in SN /\ highest \in SN /\ hs \in SN
        BY <1>7, <1>12, <1>13
      <4> HIDE DEF next, highest, hs, trigger, T, S, kept
      <4>2. /\ Ahead(s, next) \in 0..(Mod - 1)
            /\ Ahead(highest, next) \in 0..(Mod - 1)
            /\ Ahead(hs, next) \in 0..(Mod - 1)
        BY <4>1, AheadIs
      <4>3. QED
        BY <1>6, <1>22, <3>2, <4>2
    <3>3. QED
      BY <3>1, <3>2 DEF PassedInv
  <2>2. CASE ~starts
    <3>1. /\ rx_next_status_trigger' = trigger /\ rx_highest_status' = hs /\ rx_next' = next
          /\ rx_window' = final /\ reassembly_timer' = (running \/ starts)
      BY <1>1, <2>2
    <3> HIDE DEF trigger
    <3>2. QED
      BY <1>29, <2>2, <3>1 DEF PassedInv
  <2>3. QED
    BY <2>1, <2>2
<1>31. TriggerHeld
  BY <1>1, <1>24 DEF TriggerHeld
<1>32. HighestGrows
  BY <1>1, <1>13 DEF HighestGrows, b
<1>33. QED
  BY <1>25, <1>26, <1>27, <1>28, <1>30, <1>31, <1>32 DEF RxInv

(* The trigger of a running timer, rebased: the SN below it is the window's *)
(* first one when the two are neighbours.                                  *)
LEMMA TriggerIsHeld ==
  ASSUME RxInv, reassembly_timer,
         Ahead(rx_next_status_trigger, rx_next) = Ahead(rx_next + 1, rx_next)
  PROVE  rx_next \in DOMAIN rx_window
<1>1. rx_next \in SN
  BY DEF RxInv, RxTypes
<1>2. Ahead(rx_next, rx_next) = 0
  BY <1>1, Rebase
<1>3. Ahead(rx_next + 1, rx_next) = IF Ahead(rx_next, rx_next) = Mod - 1 THEN 0 ELSE Ahead(rx_next, rx_next) + 1
  BY <1>1, AheadIs
<1>4. Ahead(rx_next, rx_next) + 1 = Ahead(rx_next_status_trigger, rx_next)
  BY <1>2, <1>3, WindowSize
<1>5. QED
  BY <1>1, <1>4 DEF RxInv, TimerInv

(* t-Reassembly expires: RX_Highest_Status moves past what is complete, up  *)
(* to RX_Next_Highest, and the assertion on it holds.                      *)
LEMMA ExpiryKeeps ==
  ASSUME RxInv, OnExpiredReassemblyTimer
  PROVE  RxInv' /\ (rx_failure' => rx_failure) /\ HighestGrows
<1> DEFINE b == rx_next
           trigger == rx_next_status_trigger
           highest == rx_next_highest
           T == Ahead(trigger, b)
           H == Ahead(highest, b)
           upd == FirstMissing(rx_window, trigger, highest, b)
           U == Ahead(upd, b)
           starts == StartReassembly(rx_window, upd, highest, b)
<1>1. /\ b \in SN /\ trigger \in SN /\ highest \in SN /\ rx_highest_status \in SN
      /\ DOMAIN rx_window \subseteq SN
  BY DEF RxInv, RxTypes
<1>2. /\ H <= am_window_size /\ ~Received(rx_window, b)
      /\ \A s \in DOMAIN rx_window : Ahead(s, b) < H
  BY Ordered DEF RxInv
<1>3. T >= 1 /\ T <= H
  BY DEF RxInv, TimerInv, OnExpiredReassemblyTimer
<1>4. T \in 0..(Mod - 1) /\ H \in 0..(Mod - 1) /\ am_window_size \in Nat /\ Mod \in Nat
  BY <1>1, AheadIs, WindowSize
<1>5. T \in 1..am_window_size
  BY <1>2, <1>3, <1>4
<1>6. /\ rx_next' = b /\ rx_next_highest' = highest /\ rx_window' = rx_window
      /\ rx_highest_status' = upd
      /\ rx_failure' = (rx_failure \/ U \notin 1..am_window_size)
      /\ reassembly_timer' = starts
      /\ rx_next_status_trigger' = IF starts THEN highest ELSE trigger
  BY <1>5 DEF OnExpiredReassemblyTimer
<1> HIDE DEF upd, T, H
<1>7. /\ upd \in SN /\ T <= U
      /\ U <= T \/ U <= H
      /\ U >= H \/ ~Received(rx_window, upd)
  BY <1>1, FirstMissingIs DEF upd, T, H
<1>8. U \in 0..(Mod - 1)
  BY <1>1, <1>7, AheadIs
<1>9. upd \in DOMAIN rx_window => U < H
  BY <1>2
<1> HIDE DEF U, starts
<1>10. U <= H /\ U \in 1..am_window_size
  BY <1>2, <1>3, <1>4, <1>7, <1>8
<1>11. ~Received(rx_window, upd)
  BY <1>4, <1>7, <1>8, <1>9 DEF Received
<1>12. RxTypes'
  BY <1>1, <1>6, <1>7 DEF RxTypes, starts, StartReassembly
<1>13. RxStateOrdered'
  <2>1. /\ Ahead(upd, b) <= Ahead(highest, b) /\ Ahead(highest, b) <= am_window_size
        /\ ~Received(rx_window, b) /\ ~Received(rx_window, upd)
        /\ \A s \in DOMAIN rx_window : Ahead(s, b) < Ahead(highest, b)
    BY <1>2, <1>10, <1>11 DEF U, H
  <2>2. QED
    BY <1>6, <2>1 DEF RxStateOrdered
<1>14. \A s \in SN : Ahead(s, b) + 1 = Ahead(highest, b) => s \in DOMAIN rx_window
  BY DEF RxInv, HeldInv
<1>15. HeldInv'
  BY <1>6, <1>14 DEF HeldInv
<1>16. TimerInv'
  <2>1. CASE starts
    <3>1. Ahead(highest, b) >= 1 /\ Ahead(highest, b) <= Ahead(highest, b)
      BY <1>3, <1>4 DEF H
    <3>2. rx_next_status_trigger' = highest
      BY <1>6, <2>1
    <3>3. QED
      BY <1>6, <1>14, <3>1, <3>2 DEF TimerInv
  <2>2. CASE ~starts
    BY <1>6, <2>2 DEF TimerInv
  <2>3. QED
    BY <2>1, <2>2
<1>17. PassedInv'
  <2>1. CASE starts
    <3>1. \A s \in SN : ~(H <= Ahead(s, b) /\ Ahead(s, b) < U)
      <4>1. \A s \in SN : Ahead(s, b) \in 0..(Mod - 1)
        BY <1>1, AheadIs
      <4>2. QED
        BY <1>4, <1>8, <1>10, <4>1
    <3>2. QED
      BY <1>6, <2>1, <3>1 DEF PassedInv, H, U
  <2>2. CASE ~starts
    BY <1>6, <2>2 DEF PassedInv
  <2>3. QED
    BY <2>1, <2>2
<1>18. HighestGrows
  <2>1. Ahead(rx_highest_status, b) \in 0..(Mod - 1)
    BY <1>1, AheadIs
  <2>2. ~(U < Ahead(rx_highest_status, b))
    BY <1>7, <1>11 DEF RxInv, PassedInv, OnExpiredReassemblyTimer, T, U
  <2>3. Ahead(rx_highest_status, b) <= U
    BY <1>8, <2>1, <2>2
  <2>4. QED
    BY <1>6, <2>3 DEF HighestGrows, U
<1>19. rx_failure' => rx_failure
  BY <1>6, <1>10
<1>20. QED
  BY <1>12, <1>13, <1>15, <1>16, <1>17, <1>18, <1>19 DEF RxInv

(* The part of the receiver's state that the order is about.               *)
order_vars == <<rx_next, rx_next_status_trigger, rx_highest_status,
                rx_next_highest, rx_window, reassembly_timer>>

(* A step that leaves it alone keeps the invariant.                        *)
LEMMA UnchangedKeeps ==
  ASSUME RxInv, UNCHANGED order_vars
  PROVE  RxInv'
<1>1. /\ rx_next' = rx_next /\ rx_next_status_trigger' = rx_next_status_trigger
      /\ rx_highest_status' = rx_highest_status /\ rx_next_highest' = rx_next_highest
      /\ rx_window' = rx_window /\ reassembly_timer' = reassembly_timer
  BY DEF order_vars
<1>2. RxTypes'
  BY <1>1 DEF RxInv, RxTypes
<1>3. RxStateOrdered'
  BY <1>1 DEF RxInv, RxStateOrdered
<1>4. HeldInv'
  BY <1>1 DEF RxInv, HeldInv
<1>5. TimerInv'
  BY <1>1 DEF RxInv, TimerInv
<1>6. PassedInv'
  BY <1>1 DEF RxInv, PassedInv
<1>7. QED
  BY <1>2, <1>3, <1>4, <1>5, <1>6 DEF RxInv

(* The receiver starts with an empty window at RX_Next.                    *)
LEMMA RxInitially ==
  Init => RxInv
<1> SUFFICES ASSUME Init
             PROVE  RxInv
  OBVIOUS
<1>1. /\ rx_next = Start /\ rx_highest_status = Start /\ rx_next_highest = Start
      /\ rx_next_status_trigger = 0 /\ rx_window = <<>> /\ reassembly_timer = FALSE
  BY DEF Init, RxInit
<1>2. Start \in SN /\ 0 \in SN
  BY StatusAssumption DEF SN
<1>3. Ahead(Start, Start) = 0
  BY <1>2, Rebase
<1>4. DOMAIN rx_window = {}
  BY <1>1
<1>5. RxTypes
  BY <1>1, <1>2, <1>4 DEF RxTypes
<1>6. RxStateOrdered
  BY <1>1, <1>3, <1>4, WindowSize DEF RxStateOrdered, Received
<1>7. \A s \in SN : Ahead(s, Start) \in 0..(Mod - 1)
  BY <1>2, AheadIs
<1>8. HeldInv
  <2>1. \A s \in SN : Ahead(s, Start) + 1 # 0
    BY <1>7
  <2>2. QED
    BY <1>1, <1>3, <2>1 DEF HeldInv
<1>9. QED
  BY <1>1, <1>5, <1>6, <1>8 DEF RxInv, TimerInv, PassedInv

(* Neither the lookup of handle_data_pdu nor the assertion on              *)
(* rx_highest_status in on_expired_reassembly_timer fails.                 *)
ReassemblyAssertions ==
  /\ TriggerHeld
  /\ OnExpiredReassemblyTimer => (rx_failure' => rx_failure)

(* The lookup is sound in a step that moves nothing.                       *)
LEMMA SteadyTrigger ==
  ASSUME RxInv, rx_next' = rx_next, rx_window' = rx_window
  PROVE  TriggerHeld
  BY TriggerIsHeld DEF TriggerHeld

(* A step that leaves RX_Highest_Status alone does not move it back.       *)
LEMMA SteadyHighest ==
  ASSUME RxInv, UNCHANGED order_vars
  PROVE  HighestGrows
<1>1. rx_highest_status \in SN /\ rx_next \in SN
  BY DEF RxInv, RxTypes
<1>2. Ahead(rx_highest_status, rx_next) \in 0..(Mod - 1)
  BY <1>1, AheadIs
<1>3. QED
  BY <1>2, WindowSize DEF HighestGrows, order_vars

(* A step keeps the order of the receiver's state, and no assertion fails. *)
LEMMA RxStep ==
  ASSUME RxInv, AirTyped, [Next]_vars
  PROVE  RxInv' /\ ReassemblyAssertions /\ HighestGrows
<1>1. CASE HandleDataPdu
  <2>1. PICK n \in 1..Len(data_air) :
          IF Discarded(data_air[n]) THEN UNCHANGED order_vars ELSE PlacePdu(data_air[n])
    BY <1>1 DEF HandleDataPdu, order_vars
  <2>2. data_air[n].sn \in SN
    BY DEF AirTyped
  <2>3. UNCHANGED order_vars => TriggerHeld
    BY SteadyTrigger DEF order_vars
  <2>4. RxInv' /\ TriggerHeld /\ HighestGrows
    BY <2>1, <2>2, <2>3, PlaceKeeps, UnchangedKeeps, SteadyHighest
  <2>5. QED
    BY <2>4, ExpiryKeeps DEF ReassemblyAssertions
<1>2. CASE OnExpiredReassemblyTimer
  <2>1. rx_next' = rx_next /\ rx_window' = rx_window
    BY <1>2 DEF OnExpiredReassemblyTimer
  <2>2. QED
    BY <1>2, <2>1, ExpiryKeeps, SteadyTrigger DEF ReassemblyAssertions
<1>3. CASE UNCHANGED order_vars
  <2>1. rx_next' = rx_next /\ rx_window' = rx_window
    BY <1>3 DEF order_vars
  <2>2. QED
    BY <1>3, <2>1, UnchangedKeeps, ExpiryKeeps, SteadyTrigger, SteadyHighest DEF ReassemblyAssertions
<1>4. UNCHANGED rx_vars => UNCHANGED order_vars
  BY DEF rx_vars, order_vars
<1>5. UNCHANGED vars => UNCHANGED rx_vars
  BY DEF vars
<1>6. GetStatusPdu \/ OnExpiredStatusProhibitTimer => UNCHANGED order_vars
  BY DEF GetStatusPdu, OnExpiredStatusProhibitTimer, order_vars, rx_data_vars
<1>7. \A fit \in 0..MaxFit : SendStatusPdu(fit) => UNCHANGED order_vars
  BY DEF SendStatusPdu, order_vars, rx_data_vars
<1>8. UpdateOwnBufferState \/ OtherDirection => UNCHANGED order_vars
  BY DEF UpdateOwnBufferState, OtherDirection, order_vars, rx_data_vars
<1>9. HandleDataPdu \/ OnExpiredReassemblyTimer \/ UNCHANGED order_vars
  BY <1>4, <1>5, <1>6, <1>7, <1>8, Zenon DEF Next, Sender, Receiver
<1>10. QED
  BY <1>1, <1>2, <1>3, <1>9

-----------------------------------------------------------------------------
(* MAC is not left unaware of a status report that is required.  The        *)
(* notification is handle_changed_buffer_state of the sending side: nothing *)
(* while pending_buffer_state is set, or else a deferred task, which the    *)
(* executor may refuse.                                                     *)

TellInv ==
  /\ own_updates \in Nat
  /\ own_pending => own_updates > 0 \/ Refusals
  /\ StatusReportRequired => status_told \/ own_updates > 0 \/ (Refusals /\ own_pending)

(* handle_changed_buffer_state tells MAC, whatever is due.                  *)
LEMMA ChangeTells ==
  ASSUME TellInv, OwnBufferStateChanges
  PROVE  TellInv'
<1>1. CASE own_pending
  <2>1. own_pending' = own_pending /\ own_updates' = own_updates
    BY <1>1 DEF OwnBufferStateChanges, told_vars
  <2>2. QED
    BY <1>1, <2>1 DEF TellInv
<1>2. CASE ~own_pending
  <2>1. own_pending' /\ (own_updates' = own_updates + 1 \/ (Refusals /\ own_updates' = own_updates))
    BY <1>2 DEF OwnBufferStateChanges
  <2>2. own_updates' \in Nat /\ (own_updates' > 0 \/ Refusals)
    BY <2>1 DEF TellInv
  <2>3. QED
    BY <2>1, <2>2 DEF TellInv
<1>3. QED
  BY <1>1, <1>2

(* A handler that notifies the sending side if a report is due.             *)
LEMMA NotifyTells ==
  ASSUME TellInv, NotifyStatusReportChanged
  PROVE  TellInv'
<1>1. CASE StatusReportRequired'
  BY <1>1, ChangeTells DEF NotifyStatusReportChanged
<1>2. CASE ~StatusReportRequired'
  BY <1>2 DEF NotifyStatusReportChanged, told_vars, TellInv
<1>3. QED
  BY <1>1, <1>2

(* MAC is shown what is due, by the deferred update, a forced one or a pull. *)
LEMMA ShownIsTold ==
  ASSUME TellInv, status_told' = StatusReportRequired',
         \/ UNCHANGED <<own_pending, own_updates>>
         \/ own_pending' = FALSE /\ own_updates' \in {own_updates, own_updates - 1}
                                 /\ own_updates' >= 0
  PROVE  TellInv'
<1>1. own_updates' \in Nat /\ (own_pending' => own_updates' > 0 \/ Refusals)
  BY DEF TellInv
<1>2. QED
  BY <1>1 DEF TellInv

(* No step leaves a report due without the telling under way.               *)
LEMMA TellStep ==
  ASSUME TellInv, [Next]_vars
  PROVE  TellInv'
<1>1. CASE UNCHANGED <<do_status, status_prohibit, told_vars>>
  BY <1>1 DEF TellInv, told_vars, StatusReportRequired
<1>2. CASE HandleDataPdu
  <2>1. PICK n \in 1..Len(data_air) :
          /\ do_status' = (do_status \/ data_air[n].poll)
          /\ status_prohibit' = status_prohibit
          /\ IF StatusChanged(data_air[n]) \/ data_air[n].poll
             THEN NotifyStatusReportChanged ELSE UNCHANGED told_vars
    BY <1>2 DEF HandleDataPdu
  <2>2. CASE NotifyStatusReportChanged
    BY <2>2, NotifyTells
  <2>3. CASE ~data_air[n].poll /\ UNCHANGED told_vars
    BY <2>1, <2>3 DEF TellInv, told_vars, StatusReportRequired
  <2>4. QED
    BY <2>1, <2>2, <2>3
<1>3. CASE OnExpiredReassemblyTimer
  <2>1. \/ NotifyStatusReportChanged
        \/ UNCHANGED <<do_status, status_prohibit, told_vars>>
    BY <1>3 DEF OnExpiredReassemblyTimer
  <2>2. QED
    BY <2>1, <1>1, NotifyTells
<1>4. CASE GetStatusPdu
  BY <1>4 DEF GetStatusPdu, TellInv, told_vars, StatusReportRequired
<1>5. ASSUME NEW fit, SendStatusPdu(fit)
      PROVE  TellInv'
  <2>1. /\ status_told' = StatusReportRequired
        /\ UNCHANGED <<do_status, status_prohibit, own_pending, own_updates>>
    BY <1>5 DEF SendStatusPdu
  <2>2. QED
    BY <2>1, ShownIsTold DEF StatusReportRequired
<1>6. CASE OnExpiredStatusProhibitTimer
  BY <1>6, NotifyTells DEF OnExpiredStatusProhibitTimer
<1>7. CASE UpdateOwnBufferState
  <2>1. /\ own_updates > 0 /\ own_updates' = own_updates - 1 /\ own_pending' = FALSE
        /\ status_told' = StatusReportRequired /\ UNCHANGED <<do_status, status_prohibit>>
    BY <1>7 DEF UpdateOwnBufferState
  <2>2. own_updates' >= 0
    BY <2>1 DEF TellInv
  <2>3. QED
    BY <2>1, <2>2, ShownIsTold DEF StatusReportRequired
<1>8. CASE OtherDirection
  <2>1. \/ OwnBufferStateChanges
        \/ /\ status_told' = StatusReportRequired /\ UNCHANGED <<do_status, status_prohibit>>
           /\ \/ own_pending' = FALSE /\ own_updates' = own_updates
              \/ UNCHANGED <<own_pending, own_updates>>
    BY <1>8 DEF OtherDirection
  <2>2. CASE OwnBufferStateChanges
    BY <2>2, ChangeTells
  <2>3. CASE /\ status_told' = StatusReportRequired /\ UNCHANGED <<do_status, status_prohibit>>
             /\ \/ own_pending' = FALSE /\ own_updates' = own_updates
                \/ UNCHANGED <<own_pending, own_updates>>
    <3>1. own_updates \in Nat
      BY DEF TellInv
    <3>2. status_told' = StatusReportRequired'
      BY <2>3 DEF StatusReportRequired
    <3>3. CASE own_pending' = FALSE /\ own_updates' = own_updates
      <4>1. own_updates' \in {own_updates, own_updates - 1} /\ own_updates' >= 0
        BY <3>1, <3>3
      <4>2. QED
        BY <3>2, <3>3, <4>1, ShownIsTold
    <3>4. CASE UNCHANGED <<own_pending, own_updates>>
      BY <3>2, <3>4, ShownIsTold
    <3>5. QED
      BY <2>3, <3>3, <3>4
  <2>4. QED
    BY <2>1, <2>2, <2>3
<1>9. UNCHANGED rx_vars => UNCHANGED <<do_status, status_prohibit, told_vars>>
  BY DEF rx_vars, told_vars
<1>10. UNCHANGED vars => UNCHANGED rx_vars
  BY DEF vars
<1>11. \/ HandleDataPdu \/ OnExpiredReassemblyTimer \/ GetStatusPdu
       \/ (\E fit \in 0..MaxFit : SendStatusPdu(fit)) \/ OnExpiredStatusProhibitTimer
       \/ UpdateOwnBufferState \/ OtherDirection \/ UNCHANGED rx_vars
  BY <1>10, Zenon DEF Next, Sender, Receiver
<1>12. QED
  BY <1>1, <1>2, <1>3, <1>4, <1>5, <1>6, <1>7, <1>8, <1>9, <1>11

(* A status report that is required is known to MAC, or an update of the    *)
(* buffer state is queued, or the executor refused one and the flag that    *)
(* suppresses the next ones is still set.                                   *)
THEOREM StatusReportIsTold ==
  Spec => [](StatusReportRequired => status_told \/ own_updates > 0 \/ (Refusals /\ own_pending))
<1>1. Init => TellInv
  BY DEF Init, RxInit, StatusReportRequired, TellInv
<1>2. TellInv /\ [Next]_vars => TellInv'
  BY TellStep
<1>3. TellInv => (StatusReportRequired => status_told \/ own_updates > 0 \/ (Refusals /\ own_pending))
  BY DEF TellInv
<1>4. QED
  BY <1>1, <1>2, <1>3, PTL DEF Spec

-----------------------------------------------------------------------------
(* Folds, maxima and counts.                                               *)

(* Each of k steps goes from a set of states to the next one.              *)
Stepping(k, U, S, step) ==
  /\ k \in Nat /\ S \in [0..k -> SUBSET U]
  /\ \A n \in 1..k : \A x \in S[n - 1] : step[n][x] \in S[n]

(* f has the states of such a fold, from a on.                             *)
FoldOf(f, k, U, S, step, a) ==
  /\ f \in [0..k -> U]
  /\ f[0] = a
  /\ \A n \in 0..k : f[n] \in S[n]
  /\ \A n \in 1..k : f[n] = step[n][f[n - 1]]

(* A fold has states.                                                      *)
LEMMA Folded ==
  ASSUME NEW k, NEW U, NEW S, NEW step, Stepping(k, U, S, step), NEW a \in S[0]
  PROVE  \E f : FoldOf(f, k, U, S, step, a)
<1>0. /\ k \in Nat /\ S \in [0..k -> SUBSET U]
      /\ \A n \in 1..k : \A x \in S[n - 1] : step[n][x] \in S[n]
  BY DEF Stepping
<1> DEFINE Is(f, m) == /\ DOMAIN f = 0..m /\ f[0] = a /\ f[m] \in S[m]
                       /\ \A n \in 1..m : f[n - 1] \in S[n - 1] /\ f[n] = step[n][f[n - 1]]
           Bad == {m \in 0..k : ~\E f : Is(f, m)}
<1>1. ASSUME Bad # {} PROVE FALSE
  <2>1. PICK m \in Bad : \A l \in Bad : m <= l
    <3>1. Bad \in SUBSET Nat
      BY <1>0
    <3> HIDE DEF Bad
    <3>2. QED
      BY <1>1, <3>1, Least
  <2>2. m \in 0..k /\ ~\E f : Is(f, m)
    OBVIOUS
  <2>3. m # 0
    <3>1. Is([n \in 0..0 |-> a], 0)
      OBVIOUS
    <3> HIDE DEF Is
    <3>2. QED
      BY <2>2, <3>1
  <2>4. m \in 1..k /\ m - 1 \in 0..k /\ m - 1 \notin Bad
    <3> HIDE DEF Bad, Is
    <3>1. QED
      BY <1>0, <2>1, <2>2, <2>3
  <2>5. PICK f : Is(f, m - 1)
    <3> HIDE DEF Is
    <3>1. QED
      BY <2>4
  <2> DEFINE g == [n \in 0..m |-> IF n = m THEN step[m][f[m - 1]] ELSE f[n]]
  <2>6. /\ m \in Nat /\ m - 1 \in Nat /\ m >= 1 /\ m <= k
        /\ DOMAIN f = 0..(m - 1) /\ f[0] = a /\ f[m - 1] \in S[m - 1]
        /\ \A n \in 1..(m - 1) : f[n - 1] \in S[n - 1] /\ f[n] = step[n][f[n - 1]]
    BY <1>0, <2>4, <2>5
  <2> HIDE DEF Bad
  <2>7. step[m][f[m - 1]] \in S[m]
    BY <1>0, <2>6
  <2>8. DOMAIN g = 0..m /\ g[0] = a /\ g[m] \in S[m]
    BY <2>6, <2>7
  <2>9. ASSUME NEW n \in 1..m
        PROVE  g[n - 1] \in S[n - 1] /\ g[n] = step[n][g[n - 1]]
    <3>1. n - 1 \in 0..m /\ n - 1 # m /\ g[n - 1] = f[n - 1]
      BY <2>6
    <3>2. CASE n = m
      BY <2>6, <3>1, <3>2
    <3>3. CASE n # m
      <4>1. n \in 1..(m - 1) /\ n \in 0..m
        BY <2>6, <3>3
      <4>2. g[n] = f[n]
        BY <3>3, <4>1
      <4>3. QED
        BY <2>6, <3>1, <4>1, <4>2
    <3>4. QED
      BY <3>2, <3>3
  <2>10. Is(g, m)
    BY <2>8, <2>9
  <2> HIDE DEF g, Is
  <2>11. QED
    BY <2>2, <2>10
<1>2. \E f : Is(f, k)
  <2>1. k \in 0..k /\ k \notin Bad
    <3> HIDE DEF Bad
    <3>1. QED
      BY <1>0, <1>1
  <2> HIDE DEF Is
  <2>2. QED
    BY <2>1
<1>3. PICK f : Is(f, k)
  BY <1>2
<1> DEFINE g == [n \in 0..k |-> f[n]]
<1>4. ASSUME NEW n \in 1..k PROVE g[n] = step[n][g[n - 1]] /\ g[n] \in S[n]
  <2>1. n \in 0..k /\ n - 1 \in 0..k /\ g[n] = f[n] /\ g[n - 1] = f[n - 1]
    BY <1>0
  <2>2. f[n] = step[n][f[n - 1]] /\ f[n - 1] \in S[n - 1] /\ step[n][f[n - 1]] \in S[n]
    BY <1>0, <1>3
  <2>3. QED
    BY <2>1, <2>2
<1>5. g[0] = a
  BY <1>0, <1>3
<1>6. \A n \in 0..k : g[n] \in S[n]
  <2>1. ASSUME NEW n \in 0..k PROVE g[n] \in S[n]
    <3>1. n = 0 \/ n \in 1..k
      BY <1>0
    <3> HIDE DEF g
    <3>2. QED
      BY <1>4, <1>5, <3>1
  <2>2. QED
    BY <2>1
<1>7. g \in [0..k -> U]
  BY <1>0, <1>6
<1> HIDE DEF g
<1>8. FoldOf(g, k, U, S, step, a)
  BY <1>4, <1>5, <1>6, <1>7 DEF FoldOf
<1>9. QED
  BY <1>8

(* The states of such a fold are in these sets.                            *)
LEMMA FoldStays ==
  ASSUME NEW k \in Nat, NEW S, NEW h, h[0] \in S[0],
         \A n \in 1..k : h[n - 1] \in S[n - 1] => h[n] \in S[n]
  PROVE  \A n \in 0..k : h[n] \in S[n]
<1> DEFINE Bad == {m \in 0..k : h[m] \notin S[m]}
<1>1. ASSUME Bad # {} PROVE FALSE
  <2>1. PICK m \in Bad : \A l \in Bad : m <= l
    <3>1. Bad \in SUBSET Nat
      OBVIOUS
    <3> HIDE DEF Bad
    <3>2. QED
      BY <1>1, <3>1, Least
  <2>2. m \in 0..k /\ h[m] \notin S[m] /\ m # 0
    OBVIOUS
  <2>3. m - 1 \in 0..k /\ m - 1 \notin Bad
    <3> HIDE DEF Bad
    <3>1. QED
      BY <2>1, <2>2
  <2>4. QED
    BY <2>2, <2>3
<1>2. QED
  BY <1>1

(* A bounded set of numbers that is not empty has its maximum.             *)
LEMMA MaxIs ==
  ASSUME NEW T \in SUBSET Nat, T # {}, NEW b \in Nat, \A x \in T : x <= b
  PROVE  Max(T) \in T /\ \A x \in T : x <= Max(T)
<1> DEFINE U == {u \in Nat : \A x \in T : x <= u}
<1>1. PICK u \in U : \A v \in U : u <= v
  <2>1. U \in SUBSET Nat /\ b \in U
    OBVIOUS
  <2> HIDE DEF U
  <2>2. QED
    BY <2>1, Least
<1>2. u \in Nat /\ \A x \in T : x <= u
  OBVIOUS
<1>3. u \in T
  <2>1. SUFFICES ASSUME u \notin T PROVE FALSE
    OBVIOUS
  <2>2. PICK t \in T : TRUE
    OBVIOUS
  <2>3. u - 1 \in Nat /\ \A x \in T : x <= u - 1
    BY <1>2, <2>1, <2>2
  <2>4. u - 1 \in U
    BY <2>3
  <2>5. u <= u - 1
    BY <1>1, <2>4
  <2>6. QED
    BY <1>2, <2>5
<1> HIDE DEF U
<1>4. \E x \in T : \A y \in T : x >= y
  BY <1>2, <1>3
<1>5. Max(T) \in T /\ \A y \in T : Max(T) >= y
  BY <1>4 DEF Max
<1>6. QED
  BY <1>5

(* A set of numbers that is not empty has its minimum.                     *)
LEMMA MinIs ==
  ASSUME NEW T \in SUBSET Nat, T # {}
  PROVE  Min(T) \in T /\ \A x \in T : Min(T) <= x
<1>1. \E x \in T : \A y \in T : x <= y
  BY Least
<1>2. QED
  BY <1>1 DEF Min

(* The lengths of the SDUs, all below so_end_of_sdu.                       *)
LEMMA EndOfSduIs ==
  /\ EndOfSdu \in Nat /\ EndOfSdu > 0
  /\ \A i \in Sdus : SduLen[i] \in Nat \ {0} /\ SduLen[i] < EndOfSdu
<1> DEFINE k == Len(SduLen)
           Bounded(m) == \E b \in Nat : \A i \in 1..m : SduLen[i] <= b
           Bad == {m \in 0..k : ~Bounded(m)}
           T == {SduLen[i] : i \in Sdus} \cup {0}
<1>1. k \in Nat /\ \A i \in 1..k : SduLen[i] \in Nat \ {0}
  BY StatusAssumption
<1>2. Sdus = 1..k
  BY DEF Sdus
<1> HIDE DEF k
<1>3. ASSUME Bad # {} PROVE FALSE
  <2>1. PICK m \in Bad : \A l \in Bad : m <= l
    <3>1. Bad \in SUBSET Nat
      BY <1>1
    <3> HIDE DEF Bad
    <3>2. QED
      BY <1>3, <3>1, Least
  <2>2. m \in 0..k /\ ~Bounded(m)
    OBVIOUS
  <2>3. m # 0
    <3>1. Bounded(0)
      OBVIOUS
    <3>2. QED
      BY <2>2, <3>1
  <2>4. m - 1 \in 0..k /\ m - 1 \notin Bad
    <3> HIDE DEF Bad, Bounded
    <3>1. QED
      BY <1>1, <2>1, <2>2, <2>3
  <2>5. PICK b \in Nat : \A i \in 1..(m - 1) : SduLen[i] <= b
    BY <2>4
  <2>6. m \in 1..k /\ SduLen[m] \in Nat /\ b + SduLen[m] \in Nat
    BY <1>1, <2>2, <2>3
  <2>7. ASSUME NEW i \in 1..m PROVE SduLen[i] <= b + SduLen[m]
    <3>1. i \in 1..k /\ SduLen[i] \in Nat /\ (i = m \/ i \in 1..(m - 1))
      BY <1>1, <2>6
    <3>2. CASE i = m
      BY <2>6, <3>2
    <3>3. CASE i \in 1..(m - 1)
      BY <2>5, <2>6, <3>1, <3>3
    <3>4. QED
      BY <3>1, <3>2, <3>3
  <2>8. QED
    BY <2>2, <2>6, <2>7
<1>4. Bounded(k)
  <2>1. k \in 0..k
    BY <1>1
  <2> HIDE DEF Bounded
  <2>2. QED
    BY <1>3, <2>1
<1>5. PICK b \in Nat : \A i \in 1..k : SduLen[i] <= b
  BY <1>4
<1>6. T \in SUBSET Nat /\ T # {} /\ 0 \in T /\ \A x \in T : x <= b
  BY <1>1, <1>2, <1>5
<1>7. \A i \in Sdus : SduLen[i] \in T
  OBVIOUS
<1>8. EndOfSdu = Max(T) + 1
  BY DEF EndOfSdu
<1> HIDE DEF T
<1>9. Max(T) \in T /\ \A x \in T : x <= Max(T)
  BY <1>6, MaxIs
<1>10. Max(T) \in Nat
  BY <1>6, <1>9
<1>11. \A i \in Sdus : SduLen[i] \in Nat \ {0} /\ SduLen[i] <= Max(T)
  BY <1>1, <1>2, <1>7, <1>9
<1>12. QED
  BY <1>8, <1>10, <1>11

(* There are t SNs at a distance below t.                                  *)
LEMMA CountOf ==
  ASSUME NEW base \in SN, NEW t \in 0..Mod
  PROVE  /\ IsFiniteSet({sn \in SN : Ahead(sn, base) < t})
         /\ Cardinality({sn \in SN : Ahead(sn, base) < t}) = t
<1> DEFINE S == {sn \in SN : Ahead(sn, base) < t}
           f == [d \in 1..t |-> At(base, d - 1)]
<1>1. Mod \in Nat /\ t \in Nat
  BY WindowSize
<1>2. ASSUME NEW d \in 1..t
      PROVE  f[d] \in SN /\ Ahead(f[d], base) = d - 1
  <2>1. d - 1 \in 0..(Mod - 1)
    BY <1>1
  <2>2. QED
    BY <2>1, AtIs
<1>3. \A sn \in SN : Ahead(sn, base) \in 0..(Mod - 1) /\ At(base, Ahead(sn, base)) = sn
  BY AheadIs, Rebase
<1>4. \A sn \in S : Ahead(sn, base) + 1 \in 1..t /\ f[Ahead(sn, base) + 1] = sn
  BY <1>1, <1>3
<1>5. f \in [1..t -> S]
  BY <1>1, <1>2
<1> HIDE DEF f
<1>6. \A d, e \in 1..t : f[d] = f[e] => d = e
  BY <1>1, <1>2
<1>7. \A sn \in S : \E d \in 1..t : f[d] = sn
  BY <1>4
<1> HIDE DEF S
<1>8. ExistsBijection(1..t, S)
  <2>1. f \in Injection(1..t, S)
    BY <1>5, <1>6 DEF Injection, IsInjective
  <2>2. f \in Surjection(1..t, S)
    BY <1>5, <1>7 DEF Surjection
  <2>3. QED
    BY <2>1, <2>2 DEF ExistsBijection, Bijection
<1>9. IsFiniteSet(1..t) /\ Cardinality(1..t) = t
  BY <1>1, FS_Interval
<1>10. IsFiniteSet(S) /\ Cardinality(S) = t
  BY <1>8, <1>9, FS_Bijection
<1>11. QED
  BY <1>10 DEF S

-----------------------------------------------------------------------------
(* Status reports.  What a NACK says of the receiver's window.             *)

(* Steps upwards from an SN, short of going around.                        *)
LEMMA AtStep ==
  ASSUME NEW base \in SN, NEW sn \in SN, NEW r \in Nat, Ahead(sn, base) + r < Mod
  PROVE  At(sn, r) \in SN /\ Ahead(At(sn, r), base) = Ahead(sn, base) + r
<1> DEFINE t == At(sn, r)
<1>1. Mod \in Nat /\ Ahead(sn, base) \in 0..(Mod - 1)
  BY AheadIs, WindowSize
<1>2. r \in 0..(Mod - 1)
  BY <1>1
<1>3. t \in SN /\ Ahead(t, sn) = r
  BY <1>2, AtIs
<1> HIDE DEF t
<1>4. /\ Ahead(t, sn) = IF Ahead(t, base) >= Ahead(sn, base)
                        THEN Ahead(t, base) - Ahead(sn, base)
                        ELSE Ahead(t, base) - Ahead(sn, base) + Mod
      /\ Ahead(t, base) \in 0..(Mod - 1)
  BY <1>3, Rebase, AheadIs
<1>5. Ahead(t, base) = Ahead(sn, base) + r
  BY <1>1, <1>3, <1>4
<1>6. QED
  BY <1>3, <1>5 DEF t

(* Distances are numbers below Mod.                                        *)
LEMMA AheadNat ==
  \A sn, base \in SN : Ahead(sn, base) \in Nat /\ Ahead(sn, base) < Mod
<1>1. SUFFICES ASSUME NEW sn \in SN, NEW base \in SN
               PROVE  Ahead(sn, base) \in Nat /\ Ahead(sn, base) < Mod
  OBVIOUS
<1>2. Ahead(sn, base) \in 0..(Mod - 1)
  BY AheadIs
<1>3. QED
  BY <1>2, WindowSize

(* A sequence is empty if its length is 0.                                 *)
LEMMA NotEmpty ==
  ASSUME NEW S, NEW s \in Seq(S)
  PROVE  s # <<>> <=> Len(s) >= 1
  OBVIOUS

NackSet == [sn : SN, range : Nat \ {0}, start : Nat, end : Nat]

(* The bytes from start to end of an SN are missing: all of it, what       *)
(* follows the last byte received, or a hole.                              *)
RxPiece(window, sn, start, end) ==
  \/ start = 0 /\ end = EndOfSdu /\ sn \notin DOMAIN window
  \/ /\ sn \in DOMAIN window /\ end = EndOfSdu /\ ~window[sn].last
     /\ \E c \in window[sn].got : start = c + 1
  \/ /\ sn \in DOMAIN window /\ end # EndOfSdu /\ start <= end
     /\ \E c \in window[sn].got : end < c

(* A NACK, of one SN or of a range, is about the first d SNs from next on. *)
NackOf(window, next, d, nack) ==
  /\ nack \in NackSet
  /\ Ahead(nack.sn, next) + nack.range <= d
  /\ \A j \in 1..nack.range :
       RxPiece(window, At(nack.sn, j - 1), IF j = 1 THEN nack.start ELSE 0,
               IF j = nack.range THEN nack.end ELSE EndOfSdu)

(* Of two NACKs the second is not about an SN before the last of the first.*)
InOrder(next, nacks) ==
  \A n \in 1..Len(nacks) : \A m \in 1..(n - 1) :
    Ahead(nacks[m].sn, next) + nacks[m].range - 1 <= Ahead(nacks[n].sn, next)

(* So are the NACKs of a report, the first of which is for next.           *)
NacksOf(window, next, d, nacks) ==
  /\ nacks \in Seq(NackSet)
  /\ \A n \in 1..Len(nacks) : NackOf(window, next, d, nacks[n])
  /\ InOrder(next, nacks)
  /\ nacks # <<>> => nacks[1].sn = next

(* What the window holds of an SN are bytes of an SDU.                     *)
Holds(window) ==
  \A sn \in DOMAIN window :
    window[sn].got \subseteq 0..(EndOfSdu - 1) /\ window[sn].got # {}

(* push_nack: two NACKs are merged into a range that says the same.        *)
LEMMA MergedIs ==
  ASSUME NEW window, NEW next \in SN, NEW d \in 1..am_window_size,
         NEW left, NackOf(window, next, d, left),
         NEW nack \in NackSet, nack.range = 1, Ahead(nack.sn, next) = d - 1,
         RxPiece(window, nack.sn, nack.start, nack.end),
         CanBeMerged(left, nack),
         NEW m, m = [sn |-> left.sn, range |-> left.range + 1, start |-> left.start,
                     end |-> nack.end]
  PROVE  NackOf(window, next, d, m)
<1> DEFINE r == left.range
           e == Ahead(left.sn, next)
<1>1. /\ left.sn \in SN /\ r \in Nat /\ r >= 1 /\ left.start \in Nat /\ left.end \in Nat
      /\ e + r <= d /\ e \in 0..(Mod - 1)
  <2>1. left \in NackSet /\ Ahead(left.sn, next) + left.range <= d
    BY DEF NackOf
  <2>2. left.sn \in SN /\ r \in Nat /\ r >= 1 /\ left.start \in Nat /\ left.end \in Nat
    BY <2>1 DEF NackSet
  <2>3. QED
    BY <2>1, <2>2, AheadIs
<1>2. Mod \in Nat /\ am_window_size \in Nat /\ Mod = 2 * am_window_size /\ am_window_size >= 2
  BY WindowSize
<1>3. nack.sn = At(left.sn, r) /\ left.end = EndOfSdu /\ nack.start = 0 /\ nack.end \in Nat
  BY DEF CanBeMerged, At, NackSet
<1>4. e + r = d - 1
  <2>1. e + r < Mod
    BY <1>1, <1>2
  <2>2. Ahead(At(left.sn, r), next) = e + r
    BY <1>1, <2>1, AtStep
  <2>3. QED
    BY <1>3, <2>2
<1>5. m \in NackSet
  BY <1>1, <1>3 DEF NackSet
<1>6. m.sn = left.sn /\ m.range = r + 1 /\ m.start = left.start /\ m.end = nack.end
  OBVIOUS
<1>7. Ahead(m.sn, next) + m.range <= d
  BY <1>1, <1>2, <1>4, <1>6
<1>8. ASSUME NEW j \in 1..m.range
      PROVE  RxPiece(window, At(m.sn, j - 1), IF j = 1 THEN m.start ELSE 0,
                     IF j = m.range THEN m.end ELSE EndOfSdu)
  <2>1. CASE j = r + 1
    <3>1. j - 1 = r /\ j # 1 /\ j = m.range
      BY <1>1, <1>6, <2>1
    <3>2. QED
      BY <1>3, <1>6, <3>1
  <2>2. CASE j # r + 1
    <3>1. j \in 1..r /\ j # m.range
      BY <1>1, <1>6, <2>2
    <3>2. RxPiece(window, At(left.sn, j - 1), IF j = 1 THEN left.start ELSE 0,
                  IF j = r THEN left.end ELSE EndOfSdu)
      BY <3>1 DEF NackOf
    <3>3. QED
      BY <1>3, <1>6, <3>1, <3>2
  <2>3. QED
    BY <2>1, <2>2
<1>9. QED
  BY <1>5, <1>7, <1>8 DEF NackOf

(* push_nack keeps what the NACKs say, and adds the new one.               *)
LEMMA PushNackKeeps ==
  ASSUME NEW window, NEW next \in SN, NEW d \in 1..am_window_size,
         NEW nacks, NacksOf(window, next, d, nacks),
         NEW nack \in NackSet, nack.range = 1, Ahead(nack.sn, next) = d - 1,
         RxPiece(window, nack.sn, nack.start, nack.end),
         nacks = <<>> => nack.sn = next
  PROVE  NacksOf(window, next, d, PushNack(nacks, nack)) /\ PushNack(nacks, nack) # <<>>
<1> DEFINE k == Len(nacks)
           p == PushNack(nacks, nack)
<1>1. nacks \in Seq(NackSet) /\ k \in Nat /\ \A n \in 1..k : nacks[n] \in NackSet
  BY DEF NacksOf
<1>2. NackOf(window, next, d, nack)
  <2>1. nack.sn \in SN /\ nack.start \in Nat /\ nack.end \in Nat
    BY DEF NackSet
  <2>2. Ahead(nack.sn, nack.sn) = 0 /\ At(nack.sn, Ahead(nack.sn, nack.sn)) = nack.sn
    BY <2>1, Rebase
  <2>3. Ahead(nack.sn, next) + nack.range <= d
    BY WindowSize
  <2>4. \A j \in 1..nack.range : j = 1 /\ j = nack.range /\ j - 1 = 0
    OBVIOUS
  <2>5. QED
    BY <2>2, <2>3, <2>4 DEF NackOf
<1>3. CASE nacks # <<>> /\ CanBeMerged(nacks[k], nack)
  <2> DEFINE m == [sn |-> nacks[k].sn, range |-> nacks[k].range + 1,
                   start |-> nacks[k].start, end |-> nack.end]
             q == [n \in 1..k |-> IF n = k THEN m ELSE nacks[n]]
  <2>1. k \in 1..k /\ nacks[k] \in NackSet
    BY <1>1, <1>3
  <2>2. p = q
    <3>1. p = [nacks EXCEPT ![k] = [[nacks[k] EXCEPT !.range = nacks[k].range + 1] EXCEPT !.end = nack.end]]
      BY <1>1, <1>3, <2>1 DEF PushNack, NackSet
    <3>2. [[nacks[k] EXCEPT !.range = nacks[k].range + 1] EXCEPT !.end = nack.end] = m
      <4> DEFINE l == nacks[k]
      <4>1. l \in NackSet
        BY <2>1
      <4> HIDE DEF l
      <4>2. l = [sn |-> l.sn, range |-> l.range, start |-> l.start, end |-> l.end]
        BY <4>1 DEF NackSet
      <4>3. [l EXCEPT !.range = l.range + 1]
            = [sn |-> l.sn, range |-> l.range + 1, start |-> l.start, end |-> l.end]
        BY <4>2
      <4> DEFINE l2 == [l EXCEPT !.range = l.range + 1]
      <4>4. [l2 EXCEPT !.end = nack.end]
            = [sn |-> l.sn, range |-> l.range + 1, start |-> l.start, end |-> nack.end]
        <5>1. l2 = [sn |-> l.sn, range |-> l.range + 1, start |-> l.start, end |-> l.end]
          BY <4>3
        <5> HIDE DEF l2
        <5>2. QED
          BY <5>1
      <4>5. QED
        BY <4>4 DEF l
    <3>3. DOMAIN nacks = 1..k
      BY <1>1
    <3> HIDE DEF m, p, k
    <3>4. QED
      BY <3>1, <3>2, <3>3
  <2> HIDE DEF p
  <2>3. NackOf(window, next, d, m)
    <3>1. NackOf(window, next, d, nacks[k])
      BY <2>1 DEF NacksOf
    <3> HIDE DEF k
    <3>2. QED
      BY <1>3, <3>1, MergedIs
  <2>4. m \in NackSet /\ m.sn = nacks[k].sn
    BY <2>3 DEF NackOf
  <2> HIDE DEF m
  <2>5. q \in Seq(NackSet) /\ Len(q) = k
    BY <1>1, <2>4
  <2>6. \A n \in 1..k : NackOf(window, next, d, q[n])
    BY <2>3 DEF NacksOf
  <2>7. q # <<>> /\ q[1].sn = next
    <3>1. nacks[1].sn = next /\ 1 \in 1..k
      BY <1>3, <2>1 DEF NacksOf
    <3>2. q[1].sn = nacks[1].sn
      BY <2>4, <3>1
    <3>3. QED
      BY <2>5, <3>1, <3>2
  <2>8. ASSUME NEW n \in 1..k, NEW l \in 1..(n - 1)
        PROVE  Ahead(q[l].sn, next) + q[l].range - 1 <= Ahead(q[n].sn, next)
    <3>1. l \in 1..k /\ l # k
      BY <1>1
    <3>2. q[l] = nacks[l] /\ q[n].sn = nacks[n].sn
      BY <2>4, <3>1
    <3>3. Ahead(nacks[l].sn, next) + nacks[l].range - 1 <= Ahead(nacks[n].sn, next)
      BY DEF NacksOf, InOrder
    <3> HIDE DEF q
    <3>4. QED
      BY <3>2, <3>3
  <2> HIDE DEF q, k
  <2>9. QED
    BY <2>2, <2>5, <2>6, <2>7, <2>8 DEF NacksOf, InOrder, p
<1>4. CASE ~(nacks # <<>> /\ CanBeMerged(nacks[k], nack))
  <2>1. p = Append(nacks, nack)
    BY <1>4 DEF PushNack
  <2> HIDE DEF p
  <2>2. p \in Seq(NackSet) /\ Len(p) = k + 1 /\ p[k + 1] = nack /\ \A n \in 1..k : p[n] = nacks[n]
    BY <1>1, <2>1
  <2>3. \A n \in 1..Len(p) : NackOf(window, next, d, p[n])
    BY <1>1, <1>2, <2>2 DEF NacksOf
  <2> HIDE DEF k
  <2>4. p # <<>>
    BY <1>1, <2>2
  <2>5. p[1].sn = next
    <3>1. CASE nacks = <<>>
      <4>1. k = 0 /\ nack.sn = next
        BY <3>1 DEF k
      <4>2. QED
        BY <2>2, <4>1
    <3>2. CASE nacks # <<>>
      <4>1. nacks[1].sn = next /\ 1 \in 1..k
        BY <1>1, <3>2 DEF NacksOf, k
      <4>2. QED
        BY <2>2, <4>1
    <3>3. QED
      BY <3>1, <3>2
  <2>6. ASSUME NEW n \in 1..Len(p), NEW l \in 1..(n - 1)
        PROVE  Ahead(p[l].sn, next) + p[l].range - 1 <= Ahead(p[n].sn, next)
    <3>1. k \in Nat /\ l \in 1..k /\ p[l] = nacks[l]
      BY <1>1, <2>2
    <3>2. CASE n = k + 1
      <4>1. p[n].sn = nack.sn /\ nacks[l] \in NackSet
        BY <1>1, <2>2, <3>1, <3>2
      <4>2. Ahead(nacks[l].sn, next) + nacks[l].range <= d
        BY <3>1 DEF NacksOf, NackOf, k
      <4>3. nacks[l].sn \in SN /\ nacks[l].range \in Nat /\ d \in Int
        BY <4>1, WindowSize DEF NackSet
      <4>4. Ahead(nacks[l].sn, next) \in Int
        BY <4>3, AheadNat
      <4>5. QED
        BY <3>1, <4>1, <4>2, <4>3, <4>4
    <3>3. CASE n # k + 1
      <4>1. n \in 1..k /\ p[n] = nacks[n]
        BY <2>2, <3>1, <3>3
      <4>2. Ahead(nacks[l].sn, next) + nacks[l].range - 1 <= Ahead(nacks[n].sn, next)
        BY <4>1 DEF NacksOf, InOrder, k
      <4>3. QED
        BY <3>1, <4>1, <4>2
    <3>4. QED
      BY <3>2, <3>3
  <2>7. QED
    BY <2>2, <2>3, <2>4, <2>5, <2>6 DEF NacksOf, InOrder, p
<1>5. QED
  BY <1>3, <1>4

(* What NACKs say of the first SNs they say of more SNs.                   *)
LEMMA NacksGrow ==
  ASSUME NEW window, NEW next \in SN, NEW d \in Int, NEW e \in Int, d <= e,
         NEW nacks, NacksOf(window, next, d, nacks)
  PROVE  NacksOf(window, next, e, nacks)
<1>1. ASSUME NEW n \in 1..Len(nacks)
      PROVE  NackOf(window, next, e, nacks[n])
  <2>1. NackOf(window, next, d, nacks[n])
    BY DEF NacksOf
  <2>2. nacks[n].sn \in SN /\ nacks[n].range \in Nat
    BY <2>1 DEF NackOf, NackSet
  <2>3. Ahead(nacks[n].sn, next) \in Int /\ Ahead(nacks[n].sn, next) + nacks[n].range <= d
    <3>1. Ahead(nacks[n].sn, next) + nacks[n].range <= d
      BY <2>1 DEF NackOf
    <3>2. Ahead(nacks[n].sn, next) \in Int
      BY <2>2, AheadNat
    <3>3. QED
      BY <3>1, <3>2
  <2>4. Ahead(nacks[n].sn, next) + nacks[n].range <= e
    BY <2>2, <2>3
  <2>5. QED
    BY <2>1, <2>4 DEF NackOf
<1>2. QED
  BY <1>1 DEF NacksOf, InOrder

(* The NACKs of one SN of which bytes are missing are added.               *)
LEMMA PushMissingKeeps ==
  ASSUME NEW window, Holds(window), NEW next \in SN, NEW d \in 1..am_window_size,
         NEW nacks0, NacksOf(window, next, d - 1, nacks0),
         NEW sn \in SN, Ahead(sn, next) = d - 1, ~Received(window, sn),
         nacks0 = <<>> => sn = next
  PROVE  /\ NacksOf(window, next, d, PushMissing(nacks0, window, sn))
         /\ PushMissing(nacks0, window, sn) # <<>>
<1>1. am_window_size \in Nat /\ d \in Int /\ d - 1 \in Int
  BY WindowSize
<1>2. NacksOf(window, next, d, nacks0)
  BY <1>1, NacksGrow
<1>3. EndOfSdu \in Nat /\ EndOfSdu > 0
  BY EndOfSduIs
<1>4. ASSUME NEW s, NEW e, s \in Nat, e \in Nat, RxPiece(window, sn, s, e),
             NEW nacks, NacksOf(window, next, d, nacks), nacks = <<>> => sn = next
      PROVE  /\ NacksOf(window, next, d, PushNack(nacks, Nack(sn, s, e)))
             /\ PushNack(nacks, Nack(sn, s, e)) # <<>>
  <2> DEFINE nk == Nack(sn, s, e)
  <2>1. nk \in NackSet /\ nk.sn = sn /\ nk.range = 1 /\ nk.start = s /\ nk.end = e
    BY <1>4 DEF Nack, NackSet
  <2> HIDE DEF nk
  <2>2. QED
    BY <1>4, <2>1, PushNackKeeps DEF nk
<1>5. CASE sn \notin DOMAIN window
  <2>1. RxPiece(window, sn, 0, EndOfSdu)
    BY <1>5 DEF RxPiece
  <2>2. PushMissing(nacks0, window, sn) = PushNack(nacks0, Nack(sn, 0, EndOfSdu))
    BY <1>5 DEF PushMissing
  <2>3. QED
    BY <1>2, <1>3, <1>4, <2>1, <2>2
<1>6. CASE sn \in DOMAIN window
  <2> DEFINE got == window[sn].got
             top == Max(got)
             Starts(b) == b \notin got /\ (b = 0 \/ b - 1 \in got)
             Hole(b) == Nack(sn, b, Min({c \in got : c > b}) - 1)
             Is(f) == f = [b \in 0..top |->
                             IF b = 0 THEN nacks0
                             ELSE IF Starts(b - 1) THEN PushNack(f[b - 1], Hole(b - 1))
                             ELSE f[b - 1]]
             h == CHOOSE f : Is(f)
  <2>1. PushMissing(nacks0, window, sn) =
          IF window[sn].last THEN h[top] ELSE PushNack(h[top], Nack(sn, top + 1, EndOfSdu))
    BY <1>6 DEF PushMissing
  <2>2. got \in SUBSET Nat /\ got # {} /\ EndOfSdu - 1 \in Nat /\ \A x \in got : x <= EndOfSdu - 1
    BY <1>3, <1>6 DEF Holds
  <2>3. top \in got /\ \A x \in got : x <= top
    <3> HIDE DEF got
    <3>1. QED
      BY <2>2, MaxIs
  <2>4. top \in Nat /\ got \subseteq 0..top
    BY <2>2, <2>3
  <2>5. window[sn].last => got # 0..top
    BY <1>6 DEF Received, FullyReceived
  <2> HIDE DEF top
  <2>6. ASSUME NEW b \in 0..(top - 1), Starts(b),
               NEW nacks, NacksOf(window, next, d, nacks), nacks = <<>> => sn = next
        PROVE  NacksOf(window, next, d, PushNack(nacks, Hole(b))) /\ PushNack(nacks, Hole(b)) # <<>>
    <3> DEFINE later == {c \in got : c > b}
               e == Min(later) - 1
    <3>1. later \in SUBSET Nat /\ top \in later
      BY <2>2, <2>3, <2>4
    <3>2. Min(later) \in later
      <4> HIDE DEF later
      <4>1. QED
        BY <3>1, MinIs
    <3>3. Min(later) \in got /\ Min(later) \in Nat /\ Min(later) > b /\ Min(later) <= EndOfSdu - 1
      BY <2>2, <3>2
    <3>4. Hole(b) = Nack(sn, b, e)
      OBVIOUS
    <3> HIDE DEF later, Hole
    <3>5. e \in Nat /\ b \in Nat /\ b <= e /\ e < Min(later) /\ e # EndOfSdu
      BY <1>3, <3>3
    <3>6. RxPiece(window, sn, b, e)
      BY <1>6, <3>3, <3>5 DEF RxPiece
    <3> HIDE DEF e
    <3>7. QED
      BY <1>4, <2>6, <3>4, <3>5, <3>6
  <2> DEFINE Good == {s \in Seq(NackSet) : NacksOf(window, next, d, s) /\ (s = <<>> => sn = next)}
             S == [b \in 0..top |-> Good]
             Step(b, s) == IF Starts(b - 1) THEN PushNack(s, Hole(b - 1)) ELSE s
             step == [b \in 1..top |-> [s \in Good |-> Step(b, s)]]
  <2>7. nacks0 \in Good
    BY <1>2 DEF NacksOf
  <2>8. ASSUME NEW b \in 1..top, NEW s \in Good
        PROVE  /\ Step(b, s) \in Good
               /\ Starts(b - 1) => Step(b, s) # <<>>
               /\ ~Starts(b - 1) => Step(b, s) = s
    <3>1. b - 1 \in 0..(top - 1)
      BY <2>4
    <3>2. NacksOf(window, next, d, s) /\ (s = <<>> => sn = next)
      OBVIOUS
    <3>3. CASE Starts(b - 1)
      <4>1. /\ NacksOf(window, next, d, PushNack(s, Hole(b - 1)))
            /\ PushNack(s, Hole(b - 1)) # <<>>
        <5> HIDE DEF Starts, Hole
        <5>1. QED
          BY <2>6, <3>1, <3>2, <3>3
      <4>2. Step(b, s) = PushNack(s, Hole(b - 1))
        BY <3>3
      <4> HIDE DEF Step, Hole, Starts
      <4>3. Step(b, s) \in Seq(NackSet)
        BY <4>1, <4>2 DEF NacksOf
      <4>4. QED
        BY <3>3, <4>1, <4>2, <4>3
    <3>4. CASE ~Starts(b - 1)
      <4>1. Step(b, s) = s
        BY <3>4
      <4> HIDE DEF Step, Starts, Good
      <4>2. QED
        BY <3>4, <4>1
    <3>5. QED
      BY <3>3, <3>4
  <2> HIDE DEF Good, Step, Starts, Hole, got
  <2>9. \E f : Is(f)
    <3>1. \A b \in 1..top : \A x \in S[b - 1] : step[b][x] \in S[b]
      BY <2>4, <2>8
    <3>2. nacks0 \in S[0]
      BY <2>4, <2>7
    <3>3. PICK f : FoldOf(f, top, Good, S, step, nacks0)
      <4>1. Stepping(top, Good, S, step)
        BY <2>4, <3>1 DEF Stepping
      <4> HIDE DEF S, step
      <4>2. QED
        BY <3>2, <4>1, Folded
    <3> DEFINE g == [b \in 0..top |-> IF b = 0 THEN nacks0
                       ELSE IF Starts(b - 1) THEN PushNack(f[b - 1], Hole(b - 1))
                       ELSE f[b - 1]]
    <3>4. ASSUME NEW b \in 0..top PROVE f[b] = g[b]
      <4>1. CASE b = 0
        BY <3>3, <4>1 DEF FoldOf
      <4>2. CASE b # 0
        <5>1. b \in 1..top /\ b - 1 \in 0..top
          BY <2>4, <4>2
        <5>2. f[b] = step[b][f[b - 1]] /\ f[b - 1] \in Good
          BY <3>3, <4>2, <5>1 DEF FoldOf
        <5>3. f[b] = Step(b, f[b - 1])
          BY <5>1, <5>2
        <5>4. QED
          BY <4>2, <5>3 DEF Step
      <4>3. QED
        BY <4>1, <4>2
    <3>5. f = g
      <4>1. f = [b \in 0..top |-> f[b]] /\ g = [b \in 0..top |-> g[b]]
        BY <3>3 DEF FoldOf
      <4> HIDE DEF g
      <4>2. QED
        BY <3>4, <4>1
    <3>6. Is(f)
      BY <3>5
    <3>7. QED
      BY <3>6
  <2>10. Is(h)
    <3> HIDE DEF Is
    <3>1. QED
      BY <2>9, Zenon
  <2> HIDE DEF h
  <2>11. h[0] = nacks0 /\ \A b \in 1..top : h[b] = Step(b, h[b - 1])
    <3>1. 0 \in 0..top
      BY <2>4
    <3>2. h[0] = nacks0
      BY <2>10, <3>1
    <3>3. ASSUME NEW b \in 1..top PROVE h[b] = Step(b, h[b - 1])
      <4>1. b \in 0..top /\ b # 0
        BY <2>4
      <4>2. h[b] = IF Starts(b - 1) THEN PushNack(h[b - 1], Hole(b - 1)) ELSE h[b - 1]
        BY <2>10, <4>1
      <4>3. QED
        BY <4>2 DEF Step
    <3>4. QED
      BY <3>2, <3>3
  <2> HIDE DEF Is
  <2>12. \A b \in 0..top : h[b] \in Good
    <3>1. h[0] \in S[0]
      BY <2>4, <2>7, <2>11
    <3>2. \A b \in 1..top : h[b - 1] \in S[b - 1] => h[b] \in S[b]
      BY <2>4, <2>8, <2>11
    <3>3. \A b \in 0..top : h[b] \in S[b]
      <4> HIDE DEF S
      <4>1. QED
        BY <2>4, <3>1, <3>2, FoldStays
    <3>4. QED
      BY <3>3
  <2>13. h[top] \in Good /\ NacksOf(window, next, d, h[top]) /\ (h[top] = <<>> => sn = next)
    BY <2>4, <2>12 DEF Good
  <2>14. CASE ~window[sn].last
    <3>1. RxPiece(window, sn, top + 1, EndOfSdu)
      BY <1>6, <2>3, <2>14 DEF RxPiece, got
    <3>2. top + 1 \in Nat
      BY <2>4
    <3>3. QED
      BY <1>3, <1>4, <2>1, <2>13, <2>14, <3>1, <3>2
  <2>15. CASE window[sn].last
    <3> DEFINE Lost == {b \in 0..top : b \notin got}
    <3>1. Lost # {} /\ Lost \in SUBSET Nat
      <4>1. \A b \in got : b \in 0..top
        BY <2>4
      <4>2. got # 0..top
        BY <2>5, <2>15
      <4>3. PICK b \in 0..top : b \notin got
        BY <4>1, <4>2
      <4>4. QED
        BY <2>4, <4>3
    <3>2. PICK m \in Lost : \A b \in Lost : m <= b
      <4> HIDE DEF Lost
      <4>1. QED
        BY <3>1, Least
    <3>3. m \in 0..(top - 1) /\ Starts(m)
      <4>1. m \in 0..top /\ m \notin got /\ m # top
        BY <2>3
      <4>2. m # 0 => m - 1 \in 0..top /\ m - 1 \notin Lost
        <5> HIDE DEF Lost
        <5>1. QED
          BY <2>4, <3>2, <4>1
      <4>3. m # 0 => m - 1 \in got
        BY <4>2
      <4>4. QED
        BY <2>4, <4>1, <4>3 DEF Starts
    <3> DEFINE g == [n \in 0..(top - m - 1) |-> h[m + 1 + n]]
               U == [n \in 0..(top - m - 1) |-> {s \in Good : s # <<>>}]
    <3>4. top - m - 1 \in Nat /\ m + 1 \in 1..top /\ m + 1 - 1 = m
      BY <2>4, <3>3
    <3>5. h[m + 1] \in Good /\ h[m + 1] # <<>>
      <4>1. h[m] \in Good /\ h[m + 1] \in Good /\ h[m + 1] = Step(m + 1, h[m + 1 - 1])
        BY <2>4, <2>11, <2>12, <3>4
      <4>2. QED
        BY <2>8, <3>3, <3>4, <4>1
    <3>6. g[0] \in U[0]
      BY <3>4, <3>5
    <3>7. ASSUME NEW n \in 1..(top - m - 1), g[n - 1] \in U[n - 1]
          PROVE  g[n] \in U[n]
      <4>1. /\ n \in 0..(top - m - 1) /\ n - 1 \in 0..(top - m - 1)
            /\ m + 1 + n \in 1..top /\ m + 1 + n \in 0..top /\ m + 1 + n - 1 = m + 1 + (n - 1)
        BY <2>4, <3>3
      <4>2. g[n] = h[m + 1 + n] /\ g[n - 1] = h[m + 1 + (n - 1)] /\ g[n - 1] \in Good /\ g[n - 1] # <<>>
        BY <3>7, <4>1
      <4> HIDE DEF g
      <4>3. g[n] = Step(m + 1 + n, g[n - 1]) /\ g[n] \in Good
        BY <2>11, <2>12, <4>1, <4>2
      <4>4. g[n] # <<>>
        BY <2>8, <4>1, <4>2, <4>3
      <4>5. QED
        BY <4>1, <4>3, <4>4
    <3>8. \A n \in 0..(top - m - 1) : g[n] \in U[n]
      <4> HIDE DEF g, U
      <4>1. QED
        BY <3>4, <3>6, <3>7, FoldStays
    <3>9. h[top] # <<>>
      <4>1. top - m - 1 \in 0..(top - m - 1) /\ m + 1 + (top - m - 1) = top
        BY <2>4, <3>3, <3>4
      <4>2. QED
        BY <3>8, <4>1
    <3>10. QED
      BY <2>1, <2>13, <2>15, <3>9
  <2>16. QED
    BY <2>14, <2>15
<1>7. QED
  BY <1>5, <1>6

ReportSet == [ack : SN, nacks : Seq(NackSet)]

(* The report is about a prefix of the SNs from rx_next on, and says of    *)
(* them only what is missing, rx_next first.                               *)
ReportOf(window, next, r) ==
  /\ r \in ReportSet
  /\ NacksOf(window, next, Ahead(r.ack, next), r.nacks)
  /\ Ahead(r.ack, next) # 0 => r.nacks # <<>>

(* The report that the receiver makes is about its window.                  *)
LEMMA StatusReportIs ==
  ASSUME NEW window, Holds(window), NEW next \in SN, NEW hs \in SN,
         Ahead(hs, next) <= am_window_size, ~Received(window, next),
         NEW r, r = StatusReport(window, next, hs)
  PROVE  ReportOf(window, next, r) /\ Ahead(r.ack, next) <= Ahead(hs, next)
<1> DEFINE v == Min({Ahead(hs, next), MaxSnPerStatus})
           Step(d, s) == IF Received(window, At(next, d - 1)) THEN s
                         ELSE PushMissing(s, window, At(next, d - 1))
           Is(f) == f = [d \in 0..v |->
                           IF d = 0 THEN <<>>
                           ELSE IF Received(window, (next + d - 1) % Mod) THEN f[d - 1]
                                ELSE PushMissing(f[d - 1], window, (next + d - 1) % Mod)]
           h == CHOOSE f : Is(f)
<1>1. r = [ack |-> (next + v) % Mod, nacks |-> h[v]]
  BY DEF StatusReport
<1>2. /\ am_window_size \in Nat /\ Mod \in Nat /\ Mod = 2 * am_window_size /\ am_window_size >= 2
      /\ Ahead(hs, next) \in Nat /\ MaxSnPerStatus \in Nat
      /\ next \in Int
  BY WindowSize, AheadNat, RxAssumption DEF SN
<1>3. v \in Nat /\ v <= Ahead(hs, next) /\ v <= am_window_size
  <2> DEFINE T == {Ahead(hs, next), MaxSnPerStatus}
  <2>1. T \in SUBSET Nat /\ T # {} /\ Ahead(hs, next) \in T
    BY <1>2
  <2> HIDE DEF T
  <2>2. Min(T) \in T /\ \A x \in T : Min(T) <= x
    BY <2>1, MinIs
  <2>3. QED
    BY <1>2, <2>1, <2>2 DEF T
<1> HIDE DEF v
<1>4. ASSUME NEW d \in 1..v
      PROVE  /\ (next + d - 1) % Mod = At(next, d - 1)
             /\ At(next, d - 1) \in SN /\ Ahead(At(next, d - 1), next) = d - 1
             /\ d \in 1..am_window_size
             /\ d = 1 <=> At(next, d - 1) = next
  <2>1. d - 1 \in 0..(Mod - 1) /\ next + d - 1 = next + (d - 1) /\ d \in 1..am_window_size
    BY <1>2, <1>3
  <2>2. At(next, d - 1) \in SN /\ Ahead(At(next, d - 1), next) = d - 1
    BY <2>1, AtIs
  <2>3. Ahead(At(next, d - 1), next) = Ahead(next, next) <=> At(next, d - 1) = next
    BY <2>2, Rebase
  <2>4. Ahead(next, next) = 0
    BY Rebase
  <2>5. QED
    BY <1>3, <2>1, <2>2, <2>3, <2>4 DEF At
<1> DEFINE U == Seq(NackSet)
           S == [d \in 0..v |-> {s \in U : NacksOf(window, next, d, s) /\ (d # 0 => s # <<>>)}]
           step == [d \in 1..v |-> [s \in U |-> Step(d, s)]]
<1>5. ASSUME NEW d \in 1..v, NEW s \in S[d - 1]
      PROVE  Step(d, s) \in S[d]
  <2> DEFINE sn == At(next, d - 1)
  <2>1. d - 1 \in 0..v /\ d \in 0..v /\ d # 0 /\ d \in Int /\ d - 1 \in Int
    BY <1>3
  <2>2. s \in U /\ NacksOf(window, next, d - 1, s) /\ (d - 1 # 0 => s # <<>>)
    BY <2>1
  <2>3. /\ sn \in SN /\ Ahead(sn, next) = d - 1 /\ d \in 1..am_window_size
        /\ d = 1 <=> sn = next
    BY <1>4
  <2> HIDE DEF sn
  <2>4. NacksOf(window, next, d, Step(d, s)) /\ Step(d, s) # <<>>
    <3>1. CASE Received(window, sn)
      <4>1. Step(d, s) = s
        BY <3>1 DEF sn
      <4>2. s # <<>>
        BY <2>2, <2>3, <3>1, <2>1
      <4>3. NacksOf(window, next, d, s)
        BY <2>1, <2>2, NacksGrow
      <4>4. QED
        BY <4>1, <4>2, <4>3
    <3>2. CASE ~Received(window, sn)
      <4>1. Step(d, s) = PushMissing(s, window, sn)
        BY <3>2 DEF sn
      <4>2. s = <<>> => sn = next
        BY <2>1, <2>2, <2>3
      <4> HIDE DEF Step
      <4>3. QED
        BY <2>2, <2>3, <3>2, <4>1, <4>2, PushMissingKeeps
    <3>3. QED
      BY <3>1, <3>2
  <2> HIDE DEF Step
  <2>5. Step(d, s) \in U
    BY <2>4 DEF NacksOf
  <2>6. QED
    BY <2>1, <2>4, <2>5
<1>6. <<>> \in S[0]
  <2>1. NacksOf(window, next, 0, <<>>)
    BY DEF NacksOf, InOrder
  <2>2. QED
    BY <1>3, <2>1
<1> HIDE DEF Step
<1>7. \E f : Is(f)
  <2>1. PICK f : FoldOf(f, v, U, S, step, <<>>)
    <3>1. \A d \in 1..v : \A s \in S[d - 1] : s \in U
      BY <1>3
    <3>2. \A d \in 1..v : \A s \in S[d - 1] : step[d][s] \in S[d]
      BY <1>5, <3>1
    <3>3. S \in [0..v -> SUBSET U]
      OBVIOUS
    <3> HIDE DEF S, step, U
    <3>4. Stepping(v, U, S, step)
      BY <1>3, <3>2, <3>3 DEF Stepping
    <3>5. QED
      BY <1>6, <3>4, Folded
  <2> DEFINE g == [d \in 0..v |->
                     IF d = 0 THEN <<>>
                     ELSE IF Received(window, (next + d - 1) % Mod) THEN f[d - 1]
                          ELSE PushMissing(f[d - 1], window, (next + d - 1) % Mod)]
  <2>2. ASSUME NEW d \in 0..v PROVE f[d] = g[d]
    <3>1. CASE d = 0
      BY <2>1, <3>1 DEF FoldOf
    <3>2. CASE d # 0
      <4>1. d \in 1..v /\ d - 1 \in 0..v
        BY <1>3, <3>2
      <4>2. f[d] = step[d][f[d - 1]] /\ f[d - 1] \in U
        BY <2>1, <4>1 DEF FoldOf
      <4>3. f[d] = Step(d, f[d - 1])
        BY <4>1, <4>2
      <4>4. QED
        BY <1>4, <3>2, <4>1, <4>3 DEF Step
    <3>3. QED
      BY <3>1, <3>2
  <2>3. f = g
    <3>1. f = [d \in 0..v |-> f[d]] /\ g = [d \in 0..v |-> g[d]]
      BY <2>1 DEF FoldOf
    <3> HIDE DEF g
    <3>2. QED
      BY <2>2, <3>1
  <2>4. Is(f)
    BY <2>3
  <2>5. QED
    BY <2>4
<1>8. Is(h)
  <2> HIDE DEF Is
  <2>1. QED
    BY <1>7, Zenon
<1> HIDE DEF h
<1>9. h[0] = <<>> /\ \A d \in 1..v : h[d] = Step(d, h[d - 1])
  <2>1. 0 \in 0..v
    BY <1>3
  <2>2. h[0] = <<>>
    BY <1>8, <2>1
  <2>3. ASSUME NEW d \in 1..v PROVE h[d] = Step(d, h[d - 1])
    <3>1. d \in 0..v /\ d # 0
      BY <1>3
    <3>2. h[d] = IF Received(window, (next + d - 1) % Mod) THEN h[d - 1]
                 ELSE PushMissing(h[d - 1], window, (next + d - 1) % Mod)
      BY <1>8, <3>1
    <3>3. QED
      BY <1>4, <3>2 DEF Step
  <2>4. QED
    BY <2>2, <2>3
<1> HIDE DEF Is, S
<1>10. \A d \in 0..v : h[d] \in S[d]
  <2>1. \A d \in 1..v : h[d - 1] \in S[d - 1] => h[d] \in S[d]
    BY <1>5, <1>9
  <2>2. QED
    BY <1>3, <1>6, <1>9, <2>1, FoldStays
<1>11. v \in 0..v
  BY <1>3
<1>12. h[v] \in U /\ NacksOf(window, next, v, h[v]) /\ (v # 0 => h[v] # <<>>)
  BY <1>10, <1>11 DEF S
<1>13. r.ack = At(next, v) /\ r.nacks = h[v]
  BY <1>1 DEF At
<1>14. At(next, v) \in SN /\ Ahead(At(next, v), next) = v
  <2>1. v \in 0..(Mod - 1)
    BY <1>2, <1>3
  <2>2. QED
    BY <2>1, AtIs
<1>15. r \in ReportSet
  BY <1>1, <1>12, <1>14 DEF ReportSet, At
<1>16. QED
  BY <1>3, <1>12, <1>13, <1>14, <1>15 DEF ReportOf

(* rlc_am_status_pdu::trim: what is left of a report.                      *)
LEMMA TrimIs ==
  ASSUME NEW r \in ReportSet, NEW fit \in Nat, NEW t, t = Trim(r, fit)
  PROVE  /\ t \in ReportSet
         /\ Len(t.nacks) <= Len(r.nacks)
         /\ \A n \in 1..Len(t.nacks) : t.nacks[n] = r.nacks[n]
         /\ \/ t = r
            \/ /\ Len(r.nacks) >= 1
               /\ \E n \in 1..Len(r.nacks) : t.ack = r.nacks[n].sn
               /\ t.nacks = <<>> => t.ack = r.nacks[1].sn
<1> DEFINE nacks == r.nacks
           k == Len(nacks)
<1>1. nacks \in Seq(NackSet) /\ k \in Nat /\ \A n \in 1..k : nacks[n].sn \in SN
  <2>1. nacks \in Seq(NackSet)
    BY DEF ReportSet
  <2>2. \A n \in 1..Len(nacks) : nacks[n] \in NackSet
    BY <2>1
  <2>3. QED
    BY <2>1, <2>2 DEF NackSet
<1>2. CASE k <= fit
  <2>1. t = r
    BY <1>2 DEF Trim
  <2> HIDE DEF nacks
  <2>2. QED
    BY <1>1, <2>1 DEF nacks
<1>3. CASE ~(k <= fit)
  <2> DEFINE ack == nacks[fit + 1].sn
             T == {0} \cup {n \in 1..fit : nacks[n].sn # ack}
             kept == Max(T)
             q == [n \in 1..kept |-> nacks[n]]
  <2>1. t = [ack |-> ack, nacks |-> q]
    BY <1>3 DEF Trim
  <2>2. kept \in T /\ \A x \in T : x <= kept
    <3>1. T \in SUBSET Nat /\ T # {} /\ \A x \in T : x <= fit
      OBVIOUS
    <3> HIDE DEF T
    <3>2. QED
      BY <3>1, MaxIs
  <2>3. kept \in 0..fit /\ fit + 1 \in 1..k /\ k >= 1 /\ kept <= k
    <3>1. kept \in 0..fit
      BY <2>2
    <3> HIDE DEF kept
    <3>2. QED
      BY <1>1, <1>3, <3>1
  <2>4. kept = 0 => ack = nacks[1].sn
    <3>1. ASSUME kept = 0, fit # 0 PROVE ack = nacks[1].sn
      <4>1. 1 \in 1..fit /\ 1 \notin T
        <5> HIDE DEF kept, T
        <5>1. QED
          BY <2>2, <3>1
      <4> HIDE DEF kept
      <4>2. QED
        BY <4>1
    <3>2. QED
      BY <3>1
  <2> HIDE DEF kept
  <2>5. q \in Seq(NackSet) /\ Len(q) = kept /\ \A n \in 1..kept : q[n] = nacks[n]
    <3>1. \A n \in 1..kept : nacks[n] \in NackSet
      BY <1>1, <2>3
    <3> HIDE DEF nacks
    <3>2. QED
      BY <2>3, <3>1
  <2>6. q = <<>> => kept = 0
    BY <2>3, <2>5
  <2>7. ack \in SN
    BY <1>1, <2>3
  <2> HIDE DEF q
  <2>8. t \in ReportSet /\ t.ack = ack /\ t.nacks = q
    BY <2>1, <2>5, <2>7 DEF ReportSet
  <2>9. QED
    BY <2>3, <2>4, <2>5, <2>6, <2>8
<1>4. QED
  BY <1>2, <1>3

(* The NACKs of a report are in order, within a window from some SN on.    *)
Sorted(next, nacks) ==
  /\ InOrder(next, nacks)
  /\ \A n \in 1..Len(nacks) : Ahead(nacks[n].sn, next) + nacks[n].range <= am_window_size

WellFormed(r) == r \in ReportSet /\ \E next \in SN : Sorted(next, r.nacks)

(* What the receiver reports is a report.                                   *)
LEMMA ReportIsWellFormed ==
  ASSUME NEW window, NEW next \in SN, NEW r, ReportOf(window, next, r),
         Ahead(r.ack, next) <= am_window_size
  PROVE  WellFormed(r)
<1> DEFINE d == Ahead(r.ack, next)
<1>1. r \in ReportSet /\ NacksOf(window, next, d, r.nacks)
  BY DEF ReportOf
<1>2. d \in Nat /\ am_window_size \in Nat
  <2>1. r.ack \in SN
    BY <1>1 DEF ReportSet
  <2>2. QED
    BY <2>1, AheadNat, WindowSize
<1> HIDE DEF d
<1>3. ASSUME NEW n \in 1..Len(r.nacks)
      PROVE  Ahead(r.nacks[n].sn, next) + r.nacks[n].range <= am_window_size
  <2>1. NackOf(window, next, d, r.nacks[n])
    BY <1>1 DEF NacksOf
  <2>2. r.nacks[n] \in NackSet /\ Ahead(r.nacks[n].sn, next) + r.nacks[n].range <= d
    BY <2>1 DEF NackOf
  <2>3. r.nacks[n].sn \in SN /\ r.nacks[n].range \in Nat
    BY <2>2 DEF NackSet
  <2>4. Ahead(r.nacks[n].sn, next) \in Nat
    BY <2>3, AheadNat
  <2>5. QED
    BY <1>2, <2>2, <2>3, <2>4 DEF d
<1>4. Sorted(next, r.nacks)
  BY <1>1, <1>3 DEF Sorted, NacksOf
<1>5. QED
  BY <1>1, <1>4 DEF WellFormed

(* So is what a trimmed report leaves.                                      *)
LEMMA TrimmedIsWellFormed ==
  ASSUME NEW r, WellFormed(r), NEW fit \in Nat
  PROVE  WellFormed(Trim(r, fit))
<1> DEFINE t == Trim(r, fit)
<1>1. r \in ReportSet
  BY DEF WellFormed
<1>2. PICK next \in SN : Sorted(next, r.nacks)
  BY DEF WellFormed
<1>3. /\ t \in ReportSet
      /\ Len(t.nacks) <= Len(r.nacks)
      /\ \A n \in 1..Len(t.nacks) : t.nacks[n] = r.nacks[n]
  BY <1>1, TrimIs
<1>4. Len(t.nacks) \in Nat /\ Len(r.nacks) \in Nat
  <2>1. t.nacks \in Seq(NackSet) /\ r.nacks \in Seq(NackSet)
    BY <1>1, <1>3 DEF ReportSet
  <2> HIDE DEF t
  <2>2. QED
    BY <2>1
<1> HIDE DEF t
<1>5. ASSUME NEW n \in 1..Len(t.nacks)
      PROVE  n \in 1..Len(r.nacks) /\ t.nacks[n] = r.nacks[n]
  BY <1>3, <1>4
<1>6. ASSUME NEW n \in 1..Len(t.nacks), NEW m \in 1..(n - 1)
      PROVE  Ahead(t.nacks[m].sn, next) + t.nacks[m].range - 1 <= Ahead(t.nacks[n].sn, next)
  <2>1. m \in 1..Len(t.nacks)
    BY <1>4
  <2>2. t.nacks[m] = r.nacks[m] /\ t.nacks[n] = r.nacks[n] /\ n \in 1..Len(r.nacks)
    BY <1>5, <2>1
  <2>3. Ahead(r.nacks[m].sn, next) + r.nacks[m].range - 1 <= Ahead(r.nacks[n].sn, next)
    BY <1>2, <2>2 DEF Sorted, InOrder
  <2>4. QED
    BY <2>2, <2>3
<1>7. ASSUME NEW n \in 1..Len(t.nacks)
      PROVE  Ahead(t.nacks[n].sn, next) + t.nacks[n].range <= am_window_size
  BY <1>2, <1>5 DEF Sorted
<1>8. Sorted(next, t.nacks)
  BY <1>6, <1>7 DEF Sorted, InOrder
<1>9. QED
  BY <1>3, <1>8 DEF WellFormed, t

-----------------------------------------------------------------------------
(* handle_nack: from the NACKs of a report to queued retransmissions.      *)

InfoSet == [sdu : Sdus, next_so : Nat, retx_count : Int]
RetxSet == [sn : SN, so : Nat, len : Nat \ {0}]
AccSet(D) == [window : [D -> InfoSet], queue : Seq(RetxSet), sn : SN \cup {NoSn},
              failure : BOOLEAN]

(* The bytes of an SDU in the window that were sent.                       *)
SentOf(window, sn) ==
  IF sn = sn_under_segmentation THEN window[sn].next_so ELSE SduLen[window[sn].sdu]

(* An SDU under segmentation has its first byte sent and its last one not. *)
SegmentOk(window) ==
  sn_under_segmentation \in DOMAIN window =>
    window[sn_under_segmentation].next_so
      \in 1..(SduLen[window[sn_under_segmentation].sdu] - 1)

(* The sender can take a NACK of these bytes of an SN at its word.         *)
PieceOk(window, sn, start, end) ==
  /\ sn \in DOMAIN window
  /\ \/ end = EndOfSdu /\ start = 0 /\ sn # sn_under_segmentation
     \/ end = EndOfSdu /\ start \in 1..(SduLen[window[sn].sdu] - 1)
     \/ end # EndOfSdu /\ start <= end /\ end < SentOf(window, sn)

(* Entries of a queue of retransmissions that were sent, or at least exist.*)
Exists(window, retx) ==
  retx.sn \in DOMAIN window /\ retx.so + retx.len <= SduLen[window[retx.sn].sdu]
WasSent(window, retx) == retx.so + retx.len <= SentOf(window, retx.sn)

(* The NACKs up to a distance have been handled: an SDU was counted once,  *)
(* and what is queued are bytes of SDUs in the window; if the NACKs are to *)
(* be trusted, bytes that were sent, and nothing has failed.               *)
CountedOnce(acc, window, base, upto) ==
  /\ acc.sn # NoSn => Ahead(acc.sn, base) <= upto
  /\ \A sn \in DOMAIN window :
       /\ acc.window[sn].sdu = window[sn].sdu
       /\ acc.window[sn].next_so = window[sn].next_so
       /\ acc.window[sn].retx_count \in {window[sn].retx_count, window[sn].retx_count + 1}
       /\ (sn # acc.sn /\ upto <= Ahead(sn, base))
            => acc.window[sn].retx_count = window[sn].retx_count

AccOk(acc, window, base, upto, trusted) ==
  /\ acc \in AccSet(DOMAIN window)
  /\ Len(acc.queue) <= am_window_size
  /\ CountedOnce(acc, window, base, upto)
  /\ \A n \in 1..Len(acc.queue) : Exists(window, acc.queue[n])
  /\ trusted => /\ acc.failure = failure
                /\ \A n \in 1..Len(acc.queue) : WasSent(window, acc.queue[n])

(* What is counted once up to an SN is so up to a later one.                *)
LEMMA CountedFurther ==
  ASSUME NEW window, DOMAIN window \subseteq SN, NEW base \in SN, NEW d \in Int, NEW e \in Int,
         d <= e, NEW acc, acc.sn \in SN \cup {NoSn}, CountedOnce(acc, window, base, d)
  PROVE  CountedOnce(acc, window, base, e)
<1>1. acc.sn # NoSn => Ahead(acc.sn, base) \in Int
  BY AheadNat
<1>2. acc.sn # NoSn => Ahead(acc.sn, base) <= e
  BY <1>1 DEF CountedOnce
<1>3. ASSUME NEW sn \in DOMAIN window, e <= Ahead(sn, base)
      PROVE  d <= Ahead(sn, base)
  <2>1. Ahead(sn, base) \in Int
    BY AheadNat
  <2>2. QED
    BY <1>3, <2>1
<1>4. QED
  BY <1>2, <1>3 DEF CountedOnce

(* A NACK of one SN is handled.                                            *)
LEMMA HandleNackKeeps ==
  ASSUME NEW window, window \in [DOMAIN window -> InfoSet], DOMAIN window \subseteq SN,
         SegmentOk(window),
         NEW base \in SN, NEW d \in Nat, NEW trusted \in BOOLEAN,
         NEW acc, AccOk(acc, window, base, d, trusted),
         NEW nack \in NackSet, d <= Ahead(nack.sn, base),
         trusted => PieceOk(window, nack.sn, nack.start, nack.end),
         NEW next_ack
  PROVE  AccOk(HandleNack(acc, nack, next_ack), window, base, Ahead(nack.sn, base), trusted)
<1> DEFINE D == Ahead(nack.sn, base)
           res == HandleNack(acc, nack, next_ack)
           info  == acc.window[nack.sn]
           len   == SduLen[info.sdu]
           sent  == SentBytes(nack, info)
           end   == IF nack.end = EndOfSdu THEN sent - 1 ELSE nack.end
           unsent == nack.end = EndOfSdu /\ sent < len /\ nack.start >= sent
           from  == IF nack.start > end \/ nack.start >= len THEN 0 ELSE nack.start
           upto  == IF end >= len THEN len - 1 ELSE end
           failed == acc.failure \/ from # nack.start \/ upto # end
           retx == [sn |-> nack.sn, so |-> from, len |-> upto - from + 1]
<1>1. nack.sn \in SN /\ nack.start \in Nat /\ nack.end \in Nat /\ D \in Nat
  BY AheadNat DEF NackSet
<1>2. /\ acc.window \in [DOMAIN window -> InfoSet] /\ acc.queue \in Seq(RetxSet)
      /\ acc.sn \in SN \cup {NoSn} /\ acc.failure \in BOOLEAN
      /\ acc = [window |-> acc.window, queue |-> acc.queue, sn |-> acc.sn, failure |-> acc.failure]
      /\ Len(acc.queue) \in Nat /\ Len(acc.queue) <= am_window_size
  BY DEF AccOk, AccSet
<1>3. CountedOnce(acc, window, base, D)
  BY <1>1, <1>2, CountedFurther DEF AccOk
<1>4. AccOk(acc, window, base, D, trusted)
  BY <1>3 DEF AccOk
<1>5. ASSUME NEW f \in BOOLEAN, trusted => f = failure
      PROVE  AccOk([acc EXCEPT !.failure = f], window, base, D, trusted)
  <2> DEFINE a == [acc EXCEPT !.failure = f]
  <2>1. a = [window |-> acc.window, queue |-> acc.queue, sn |-> acc.sn, failure |-> f]
    BY <1>2
  <2>2. a.window = acc.window /\ a.queue = acc.queue /\ a.sn = acc.sn /\ a.failure = f
    BY <2>1
  <2>3. a \in AccSet(DOMAIN window)
    BY <1>2, <2>1 DEF AccSet
  <2> HIDE DEF a
  <2>4. CountedOnce(a, window, base, D)
    BY <1>3, <2>2 DEF CountedOnce
  <2>5. QED
    BY <1>4, <1>5, <2>2, <2>3, <2>4 DEF AccOk, a
<1>6. CASE Ahead(nack.sn, next_ack) > Ahead(tx_next, next_ack)
  <2>1. res = acc
    BY <1>6 DEF HandleNack
  <2>2. QED
    BY <1>4, <2>1
<1>7. CASE ~(Ahead(nack.sn, next_ack) > Ahead(tx_next, next_ack)) /\ nack.sn \notin DOMAIN acc.window
  <2>1. res = [acc EXCEPT !.failure = TRUE]
    BY <1>7 DEF HandleNack
  <2>2. ~trusted
    BY <1>2, <1>7 DEF PieceOk
  <2>3. QED
    BY <1>5, <2>1, <2>2
<1>8. CASE ~(Ahead(nack.sn, next_ack) > Ahead(tx_next, next_ack)) /\ nack.sn \in DOMAIN acc.window
  <2>1. res = IF unsent THEN acc
              ELSE IF Len(acc.queue) = am_window_size THEN [acc EXCEPT !.failure = failed]
              ELSE [window  |-> IF acc.sn = nack.sn THEN acc.window
                                ELSE IncrementRetxCount(acc.window, nack.sn),
                    queue   |-> Append(acc.queue, retx),
                    sn      |-> nack.sn,
                    failure |-> failed]
    BY <1>8 DEF HandleNack
  <2>2. /\ nack.sn \in DOMAIN window /\ info \in InfoSet
        /\ info.sdu = window[nack.sn].sdu /\ info.next_so = window[nack.sn].next_so
    BY <1>2, <1>3, <1>8 DEF CountedOnce
  <2>3. len \in Nat \ {0} /\ len < EndOfSdu /\ EndOfSdu \in Nat
    <3>1. info.sdu \in Sdus
      BY <2>2 DEF InfoSet
    <3>2. QED
      BY <3>1, EndOfSduIs
  <2>4. /\ sent \in Nat \ {0}
        /\ nack.sn = sn_under_segmentation /\ HasSo(nack) => sent = SentOf(window, nack.sn)
        /\ nack.sn # sn_under_segmentation => sent = len /\ sent = SentOf(window, nack.sn)
        /\ ~HasSo(nack) => sent = len
        /\ SentOf(window, nack.sn) <= len /\ SentOf(window, nack.sn) \in Nat
    <3>1. nack.sn = sn_under_segmentation => /\ info.next_so \in 1..(len - 1)
                                             /\ SentOf(window, nack.sn) = info.next_so
      BY <2>2 DEF SegmentOk, SentOf
    <3>2. nack.sn # sn_under_segmentation => SentOf(window, nack.sn) = len
      BY <2>2 DEF SentOf
    <3>3. sent = IF HasSo(nack) /\ nack.sn = sn_under_segmentation THEN info.next_so ELSE len
      BY DEF SentBytes
    <3> HIDE DEF sent, len, info
    <3>4. QED
      BY <2>3, <3>1, <3>2, <3>3
  <2> HIDE DEF sent, len
  <2>5. /\ end \in Nat /\ from \in Nat /\ upto \in Nat
        /\ upto - from + 1 \in Nat \ {0} /\ from + (upto - from + 1) = upto + 1
        /\ upto + 1 <= len
    <3>1. end \in Nat
      BY <1>1, <2>4
    <3> HIDE DEF end, info
    <3>2. from \in Nat /\ upto \in Nat /\ from <= upto /\ upto + 1 <= len
      BY <1>1, <2>3, <3>1
    <3> HIDE DEF from, upto
    <3>3. QED
      BY <2>3, <3>1, <3>2
  <2>6. ASSUME trusted, ~unsent
        PROVE  from = nack.start /\ upto = end /\ upto + 1 <= SentOf(window, nack.sn)
    <3>1. /\ SduLen[window[nack.sn].sdu] = len
          /\ \/ nack.end = EndOfSdu /\ nack.start = 0 /\ nack.sn # sn_under_segmentation
             \/ nack.end = EndOfSdu /\ nack.start \in 1..(len - 1)
             \/ nack.end # EndOfSdu /\ nack.start <= nack.end /\ nack.end < SentOf(window, nack.sn)
      BY <2>2, <2>6 DEF PieceOk, len
    <3>2. CASE nack.end = EndOfSdu /\ nack.start = 0 /\ nack.sn # sn_under_segmentation
      BY <2>3, <2>4, <3>2
    <3>3. CASE nack.end = EndOfSdu /\ nack.start \in 1..(len - 1)
      <4>1. HasSo(nack)
        BY <3>3 DEF HasSo
      <4>2. sent = SentOf(window, nack.sn) /\ sent <= len
        BY <2>4, <4>1
      <4>3. nack.start < sent
        <5>1. ~(sent < len /\ nack.start >= sent)
          BY <2>6, <3>3
        <5>2. QED
          BY <2>3, <2>4, <3>3, <4>2, <5>1
      <4>4. QED
        BY <2>3, <2>4, <3>3, <4>2, <4>3
    <3>4. CASE nack.end # EndOfSdu /\ nack.start <= nack.end /\ nack.end < SentOf(window, nack.sn)
      BY <1>1, <2>3, <2>4, <3>4
    <3>5. QED
      BY <3>1, <3>2, <3>3, <3>4
  <2>7. /\ failed \in BOOLEAN
        /\ trusted /\ ~unsent => failed = failure
    <3>1. trusted => acc.failure = failure
      BY DEF AccOk
    <3> HIDE DEF from, upto, end, unsent
    <3>2. QED
      BY <1>2, <2>6, <3>1
  <2> HIDE DEF failed
  <2>8. retx \in RetxSet /\ retx.sn = nack.sn /\ retx.so + retx.len = upto + 1
    <3> HIDE DEF from, upto, end
    <3>1. QED
      BY <1>1, <2>5 DEF RetxSet
  <2>9. Exists(window, retx)
    <3>1. SduLen[window[nack.sn].sdu] = len
      BY <2>2 DEF len
    <3> HIDE DEF retx, upto
    <3>2. QED
      BY <2>2, <2>5, <2>8, <3>1 DEF Exists
  <2>10. trusted /\ ~unsent => WasSent(window, retx)
    <3> HIDE DEF retx, upto, unsent, end, from
    <3>1. QED
      BY <2>6, <2>8 DEF WasSent
  <2> HIDE DEF retx, from, upto, end, unsent
  <2>11. CASE unsent
    BY <1>4, <2>1, <2>11
  <2>12. CASE ~unsent /\ Len(acc.queue) = am_window_size
    BY <1>5, <2>1, <2>7, <2>12
  <2>13. CASE ~unsent /\ Len(acc.queue) # am_window_size
    <3> DEFINE w == IF acc.sn = nack.sn THEN acc.window
                    ELSE IncrementRetxCount(acc.window, nack.sn)
               q == Append(acc.queue, retx)
    <3>1. res = [window |-> w, queue |-> q, sn |-> nack.sn, failure |-> failed]
      BY <2>1, <2>13
    <3>2. /\ q \in Seq(RetxSet) /\ Len(q) = Len(acc.queue) + 1 /\ q[Len(acc.queue) + 1] = retx
          /\ \A n \in 1..Len(acc.queue) : q[n] = acc.queue[n]
      BY <1>2, <2>8
    <3>3. Len(q) <= am_window_size
      BY <1>2, <2>13, <3>2, WindowSize
    <3>4. acc.sn # nack.sn =>
            w = [sn \in DOMAIN window |->
                   IF sn = nack.sn THEN [acc.window[sn] EXCEPT !.retx_count = @ + 1]
                   ELSE acc.window[sn]]
      BY <1>2, <2>2 DEF IncrementRetxCount
    <3>5. ASSUME NEW i \in InfoSet
          PROVE  /\ [i EXCEPT !.retx_count = @ + 1] \in InfoSet
                 /\ [i EXCEPT !.retx_count = @ + 1].sdu = i.sdu
                 /\ [i EXCEPT !.retx_count = @ + 1].next_so = i.next_so
                 /\ [i EXCEPT !.retx_count = @ + 1].retx_count = i.retx_count + 1
      BY DEF InfoSet
    <3>6. /\ w \in [DOMAIN window -> InfoSet]
          /\ \A sn \in DOMAIN window :
               /\ w[sn].sdu = acc.window[sn].sdu /\ w[sn].next_so = acc.window[sn].next_so
               /\ sn # nack.sn => w[sn] = acc.window[sn]
               /\ w[sn].retx_count = IF sn = nack.sn /\ acc.sn # nack.sn
                                     THEN acc.window[sn].retx_count + 1
                                     ELSE acc.window[sn].retx_count
      <4>1. CASE acc.sn = nack.sn
        BY <1>2, <4>1
      <4>2. CASE acc.sn # nack.sn
        <5> DEFINE Bumped(sn) == [acc.window[sn] EXCEPT !.retx_count = @ + 1]
        <5>1. w = [sn \in DOMAIN window |-> IF sn = nack.sn THEN Bumped(sn) ELSE acc.window[sn]]
          BY <3>4, <4>2
        <5>2. \A sn \in DOMAIN window : acc.window[sn] \in InfoSet
          BY <1>2
        <5>3. \A sn \in DOMAIN window :
                /\ Bumped(sn) \in InfoSet /\ Bumped(sn).sdu = acc.window[sn].sdu
                /\ Bumped(sn).next_so = acc.window[sn].next_so
                /\ Bumped(sn).retx_count = acc.window[sn].retx_count + 1
          BY <3>5, <5>2
        <5> HIDE DEF w, Bumped
        <5>4. w \in [DOMAIN window -> InfoSet]
          BY <5>1, <5>2, <5>3
        <5>5. \A sn \in DOMAIN window : w[sn] = IF sn = nack.sn THEN Bumped(sn) ELSE acc.window[sn]
          BY <5>1
        <5>6. QED
          BY <4>2, <5>3, <5>4, <5>5
      <4>3. QED
        BY <4>1, <4>2
    <3> HIDE DEF w, q
    <3>7. /\ res.window = w /\ res.queue = q /\ res.sn = nack.sn /\ res.failure = failed
          /\ res \in AccSet(DOMAIN window)
      BY <1>1, <2>7, <3>1, <3>2, <3>6 DEF AccSet
    <3> HIDE DEF res
    <3>8. CountedOnce(res, window, base, D)
      <4>1. res.sn # NoSn => Ahead(res.sn, base) <= D
        BY <1>1, <3>7
      <4>2. ASSUME NEW sn \in DOMAIN window
            PROVE  /\ w[sn].sdu = window[sn].sdu
                   /\ w[sn].next_so = window[sn].next_so
                   /\ w[sn].retx_count \in {window[sn].retx_count, window[sn].retx_count + 1}
                   /\ (sn # nack.sn /\ D <= Ahead(sn, base))
                        => w[sn].retx_count = window[sn].retx_count
        <5>1. /\ acc.window[sn].sdu = window[sn].sdu
              /\ acc.window[sn].next_so = window[sn].next_so
              /\ acc.window[sn].retx_count \in {window[sn].retx_count, window[sn].retx_count + 1}
              /\ (sn # acc.sn /\ D <= Ahead(sn, base))
                   => acc.window[sn].retx_count = window[sn].retx_count
          BY <1>3 DEF CountedOnce
        <5>2. CASE sn = nack.sn
          <6>1. acc.sn # nack.sn => acc.window[sn].retx_count = window[sn].retx_count
            BY <1>1, <5>1, <5>2
          <6>2. QED
            BY <3>6, <5>1, <5>2, <6>1
        <5>3. CASE sn # nack.sn
          <6>1. w[sn] = acc.window[sn]
            BY <3>6, <5>3
          <6>2. ASSUME sn = acc.sn, D <= Ahead(sn, base) PROVE FALSE
            <7>1. acc.sn # NoSn /\ acc.sn \in SN
              BY <6>2, WindowSize DEF SN, NoSn
            <7>2. Ahead(acc.sn, base) <= D /\ Ahead(sn, base) \in Nat
              BY <1>3, <6>2, <7>1, AheadNat DEF CountedOnce
            <7>3. Ahead(sn, base) = Ahead(nack.sn, base)
              BY <1>1, <6>2, <7>2
            <7>4. QED
              BY <1>1, <5>3, <7>1, <7>3, <6>2, Rebase
          <6>3. QED
            BY <5>1, <5>3, <6>1, <6>2
        <5>4. QED
          BY <5>2, <5>3
      <4>3. QED
        BY <3>7, <4>1, <4>2 DEF CountedOnce
    <3>9. ASSUME NEW n \in 1..Len(q)
          PROVE  Exists(window, q[n]) /\ (trusted => WasSent(window, q[n]))
      <4>1. CASE n = Len(acc.queue) + 1
        BY <2>9, <2>10, <2>13, <3>2, <4>1
      <4>2. CASE n # Len(acc.queue) + 1
        <5>1. n \in 1..Len(acc.queue) /\ q[n] = acc.queue[n]
          BY <1>2, <3>2, <4>2
        <5>2. QED
          BY <5>1 DEF AccOk
      <4>3. QED
        BY <4>1, <4>2
    <3>10. QED
      BY <2>7, <2>13, <3>3, <3>7, <3>8, <3>9 DEF AccOk, res
  <2>14. QED
    BY <2>11, <2>12, <2>13
<1>9. QED
  BY <1>6, <1>7, <1>8

(* The pieces a NACK stands for.                                           *)
NackPieces(window, nack) ==
  \A j \in 1..nack.range :
    PieceOk(window, At(nack.sn, j - 1), IF j = 1 THEN nack.start ELSE 0,
            IF j = nack.range THEN nack.end ELSE EndOfSdu)

(* A range is taken apart into NACKs of consecutive SNs.                   *)
LEMMA SplitIs ==
  ASSUME NEW nack \in NackSet, NEW ack \in SN, NEW base \in SN,
         Ahead(nack.sn, base) + nack.range <= am_window_size,
         NEW s, s = SplitRange(nack, ack)
  PROVE  /\ Len(s) \in 0..nack.range
         /\ nack.sn # ack => Len(s) # 0
         /\ \A j \in 1..Len(s) :
              /\ s[j] \in NackSet
              /\ s[j].sn = At(nack.sn, j - 1)
              /\ Ahead(s[j].sn, base) = Ahead(nack.sn, base) + j - 1
              /\ s[j].start = IF j = 1 THEN nack.start ELSE 0
              /\ s[j].end = IF j = nack.range THEN nack.end ELSE EndOfSdu
<1> DEFINE r == nack.range
           e == Ahead(nack.sn, base)
           last == (nack.sn + nack.range - 1) % Mod
           upto == IF Ahead(ack, nack.sn) < nack.range THEN Ahead(ack, nack.sn) ELSE nack.range
           Piece(j) == Nack((nack.sn + j - 1) % Mod, IF j = 1 THEN nack.start ELSE 0,
                            IF (nack.sn + j - 1) % Mod = last THEN nack.end ELSE EndOfSdu)
<1>1. s = [j \in 1..upto |-> Piece(j)]
  BY DEF SplitRange
<1>2. /\ nack.sn \in SN /\ r \in Nat \ {0} /\ nack.start \in Nat /\ nack.end \in Nat
      /\ nack.sn \in Int
  BY DEF NackSet, SN
<1>3. /\ e \in Nat /\ Ahead(ack, nack.sn) \in Nat /\ EndOfSdu \in Nat
      /\ Mod \in Nat /\ am_window_size \in Nat /\ Mod = 2 * am_window_size /\ am_window_size >= 2
  BY <1>2, AheadNat, EndOfSduIs, WindowSize
<1>4. upto \in 0..r
  BY <1>2, <1>3
<1>5. ASSUME NEW j \in 1..r
      PROVE  /\ (nack.sn + j - 1) % Mod = At(nack.sn, j - 1)
             /\ At(nack.sn, j - 1) \in SN /\ Ahead(At(nack.sn, j - 1), base) = e + j - 1
  <2>1. nack.sn + j - 1 = nack.sn + (j - 1) /\ j - 1 \in Nat /\ e + (j - 1) < Mod
    BY <1>2, <1>3
  <2>2. At(nack.sn, j - 1) \in SN /\ Ahead(At(nack.sn, j - 1), base) = e + (j - 1)
    BY <1>2, <2>1, AtStep
  <2>3. QED
    BY <1>2, <1>3, <2>1, <2>2 DEF At
<1>6. last = At(nack.sn, r - 1) /\ Ahead(last, base) = e + r - 1
  BY <1>2, <1>5
<1>0. nack.sn # ack => upto # 0
  <2>1. nack.sn # ack => Ahead(ack, nack.sn) # 0
    BY <1>2, Rebase
  <2>2. QED
    BY <1>2, <1>3, <2>1
<1> HIDE DEF upto, last, e
<1>7. Len(s) = upto
  BY <1>1, <1>4
<1>8. ASSUME NEW j \in 1..upto
      PROVE  /\ s[j] \in NackSet
             /\ s[j].sn = At(nack.sn, j - 1)
             /\ Ahead(s[j].sn, base) = e + j - 1
             /\ s[j].start = IF j = 1 THEN nack.start ELSE 0
             /\ s[j].end = IF j = nack.range THEN nack.end ELSE EndOfSdu
  <2>1. j \in 1..r
    BY <1>2, <1>4
  <2>2. /\ (nack.sn + j - 1) % Mod = At(nack.sn, j - 1)
        /\ At(nack.sn, j - 1) \in SN /\ Ahead(At(nack.sn, j - 1), base) = e + j - 1
    BY <1>5, <2>1
  <2>3. At(nack.sn, j - 1) = last <=> j = r
    <3>1. j # r => Ahead(At(nack.sn, j - 1), base) # Ahead(last, base)
      BY <1>2, <1>3, <1>6, <2>1, <2>2
    <3>2. QED
      BY <1>6, <3>1
  <2>4. s[j] = [sn |-> At(nack.sn, j - 1), range |-> 1,
                start |-> IF j = 1 THEN nack.start ELSE 0,
                end |-> IF j = r THEN nack.end ELSE EndOfSdu]
    <3>1. s[j] = Piece(j)
      BY <1>1
    <3>2. QED
      BY <2>2, <2>3, <3>1 DEF Nack
  <2>5. s[j] \in NackSet
    BY <1>2, <1>3, <2>2, <2>4 DEF NackSet
  <2>6. QED
    BY <2>2, <2>4, <2>5
<1>9. QED
  BY <1>0, <1>4, <1>7, <1>8 DEF e

(* A NACK of an SN that was sent whole is not passed over.                  *)
Asks(nack, next_ack) ==
  /\ sn_under_segmentation = NoSn
  /\ \A j \in 1..nack.range : ~(Ahead(At(nack.sn, j - 1), next_ack) > Ahead(tx_next, next_ack))

LEMMA HandleNackAsks ==
  ASSUME NEW window, NEW base, NEW d, NEW acc, AccOk(acc, window, base, d, TRUE),
         NEW nack \in NackSet, PieceOk(window, nack.sn, nack.start, nack.end), NEW next_ack,
         sn_under_segmentation = NoSn, ~(Ahead(nack.sn, next_ack) > Ahead(tx_next, next_ack))
  PROVE  HandleNack(acc, nack, next_ack).queue # <<>>
<1> DEFINE res == HandleNack(acc, nack, next_ack)
           info  == acc.window[nack.sn]
           len   == SduLen[info.sdu]
           sent  == SentBytes(nack, info)
           end   == IF nack.end = EndOfSdu THEN sent - 1 ELSE nack.end
           unsent == nack.end = EndOfSdu /\ sent < len /\ nack.start >= sent
           from  == IF nack.start > end \/ nack.start >= len THEN 0 ELSE nack.start
           upto  == IF end >= len THEN len - 1 ELSE end
           failed == acc.failure \/ from # nack.start \/ upto # end
           retx == [sn |-> nack.sn, so |-> from, len |-> upto - from + 1]
<1>1. /\ acc.window \in [DOMAIN window -> InfoSet] /\ acc.queue \in Seq(RetxSet)
      /\ acc = [window |-> acc.window, queue |-> acc.queue, sn |-> acc.sn, failure |-> acc.failure]
  BY DEF AccOk, AccSet
<1>2. nack.sn \in DOMAIN acc.window /\ info.sdu \in Sdus
  BY <1>1 DEF PieceOk, InfoSet
<1>3. len \in Nat
  BY <1>2, EndOfSduIs
<1>4. sent = len
  <2>1. nack.sn # sn_under_segmentation
    BY WindowSize DEF NackSet, SN, NoSn
  <2>2. QED
    BY <2>1 DEF SentBytes
<1>5. res = IF unsent THEN acc
            ELSE IF Len(acc.queue) = am_window_size THEN [acc EXCEPT !.failure = failed]
            ELSE [window  |-> IF acc.sn = nack.sn THEN acc.window
                              ELSE IncrementRetxCount(acc.window, nack.sn),
                  queue   |-> Append(acc.queue, retx),
                  sn      |-> nack.sn,
                  failure |-> failed]
  BY <1>2 DEF HandleNack
<1>6. ~unsent
  BY <1>3, <1>4
<1> HIDE DEF unsent, failed, retx, res
<1>7. CASE Len(acc.queue) = am_window_size
  <2>1. res.queue = acc.queue
    BY <1>1, <1>5, <1>6, <1>7
  <2>2. acc.queue # <<>>
    BY <1>7, WindowSize
  <2>3. QED
    BY <2>1, <2>2 DEF res
<1>8. CASE Len(acc.queue) # am_window_size
  <2>1. res.queue = Append(acc.queue, retx)
    BY <1>5, <1>6, <1>8
  <2> DEFINE T == RetxSet \cup {retx}
  <2>2. acc.queue \in Seq(T) /\ retx \in T
    BY <1>1
  <2> HIDE DEF T
  <2>3. Len(Append(acc.queue, retx)) = Len(acc.queue) + 1 /\ Len(acc.queue) \in Nat
    BY <2>2
  <2>4. Append(acc.queue, retx) # <<>>
    BY <2>3
  <2>5. QED
    BY <2>1, <2>4 DEF res
<1>9. QED
  BY <1>7, <1>8

(* The NACKs of a range are handled.                                       *)
LEMMA HandleNackRangeKeeps ==
  ASSUME NEW window, window \in [DOMAIN window -> InfoSet], DOMAIN window \subseteq SN,
         SegmentOk(window),
         NEW base \in SN, NEW d \in Nat, NEW trusted \in BOOLEAN,
         NEW acc, AccOk(acc, window, base, d, trusted),
         NEW nack \in NackSet, d <= Ahead(nack.sn, base),
         Ahead(nack.sn, base) + nack.range <= am_window_size,
         trusted => NackPieces(window, nack),
         NEW ack \in SN, NEW next_ack
  PROVE  /\ AccOk(HandleNackRange(acc, nack, ack, next_ack), window, base,
                  Ahead(nack.sn, base) + nack.range - 1, trusted)
         /\ trusted /\ nack.sn # ack /\ Asks(nack, next_ack)
              => HandleNackRange(acc, nack, ack, next_ack).queue # <<>>
<1> DEFINE s == SplitRange(nack, ack)
           k == Len(s)
           e == Ahead(nack.sn, base)
           Is(f) == f = [n \in 0..k |-> IF n = 0 THEN acc
                                        ELSE HandleNack(f[n - 1], s[n], next_ack)]
           h == CHOOSE f : Is(f)
           U == AccSet(DOMAIN window)
           Upto(n) == IF n = 0 THEN d ELSE e + n - 1
           S == [n \in 0..k |-> {a \in U : AccOk(a, window, base, Upto(n), trusted)}]
           step == [n \in 1..k |-> [a \in U |-> HandleNack(a, s[n], next_ack)]]
<1>1. HandleNackRange(acc, nack, ack, next_ack) = h[k]
  BY DEF HandleNackRange
<1>2. nack.sn \in SN /\ nack.range \in Nat \ {0} /\ e \in Nat
  BY AheadNat DEF NackSet
<1>3. /\ k \in 0..nack.range /\ k \in Nat
      /\ nack.sn # ack => k # 0
      /\ \A j \in 1..k :
           /\ s[j] \in NackSet
           /\ s[j].sn = At(nack.sn, j - 1)
           /\ Ahead(s[j].sn, base) = e + j - 1
           /\ s[j].start = IF j = 1 THEN nack.start ELSE 0
           /\ s[j].end = IF j = nack.range THEN nack.end ELSE EndOfSdu
  BY <1>2, SplitIs
<1> HIDE DEF s, k
<1>4. ASSUME NEW n \in 1..k, NEW a \in S[n - 1]
      PROVE  a \in U /\ HandleNack(a, s[n], next_ack) \in S[n]
  <2>1. n - 1 \in 0..k /\ n \in 0..k /\ n # 0 /\ n \in 1..nack.range
    BY <1>2, <1>3
  <2>2. a \in U /\ AccOk(a, window, base, Upto(n - 1), trusted)
    BY <2>1
  <2>3. s[n] \in NackSet /\ Ahead(s[n].sn, base) = e + n - 1 /\ Upto(n) = e + n - 1
    BY <1>3, <2>1
  <2>4. Upto(n - 1) \in Nat /\ Upto(n - 1) <= e + n - 1
    BY <1>2, <1>3
  <2>5. trusted => PieceOk(window, s[n].sn, s[n].start, s[n].end)
    BY <1>3, <2>1 DEF NackPieces
  <2> HIDE DEF Upto
  <2>6. AccOk(HandleNack(a, s[n], next_ack), window, base, e + n - 1, trusted)
    BY <2>2, <2>3, <2>4, <2>5, HandleNackKeeps
  <2>7. HandleNack(a, s[n], next_ack) \in U
    BY <2>6 DEF AccOk
  <2>8. QED
    BY <2>1, <2>2, <2>3, <2>6, <2>7
<1>5. acc \in S[0]
  <2>1. acc \in U
    BY DEF AccOk
  <2>2. QED
    BY <1>3, <2>1
<1>6. \E f : Is(f)
  <2>1. PICK f : FoldOf(f, k, U, S, step, acc)
    <3>1. \A n \in 1..k : \A a \in S[n - 1] : step[n][a] \in S[n]
      BY <1>4
    <3>2. S \in [0..k -> SUBSET U]
      OBVIOUS
    <3> HIDE DEF S, step, U
    <3>3. Stepping(k, U, S, step)
      BY <1>3, <3>1, <3>2 DEF Stepping
    <3>4. QED
      BY <1>5, <3>3, Folded
  <2> DEFINE g == [n \in 0..k |-> IF n = 0 THEN acc ELSE HandleNack(f[n - 1], s[n], next_ack)]
  <2> HIDE DEF U, S
  <2>2. ASSUME NEW n \in 0..k PROVE f[n] = g[n]
    <3>1. CASE n = 0
      BY <2>1, <3>1 DEF FoldOf
    <3>2. CASE n # 0
      <4>1. n \in 1..k /\ n - 1 \in 0..k
        BY <1>3, <3>2
      <4>2. f[n] = step[n][f[n - 1]] /\ f[n - 1] \in U
        BY <2>1, <4>1 DEF FoldOf
      <4>3. QED
        BY <3>2, <4>1, <4>2
    <3>3. QED
      BY <3>1, <3>2
  <2>3. f = g
    <3>1. f = [n \in 0..k |-> f[n]] /\ g = [n \in 0..k |-> g[n]]
      BY <2>1 DEF FoldOf
    <3> HIDE DEF g
    <3>2. QED
      BY <2>2, <3>1
  <2>4. Is(f)
    BY <2>3
  <2>5. QED
    BY <2>4
<1>7. Is(h)
  <2> HIDE DEF Is
  <2>1. QED
    BY <1>6, Zenon
<1> HIDE DEF h
<1>8. h[0] = acc /\ \A n \in 1..k : h[n] = HandleNack(h[n - 1], s[n], next_ack)
  <2>1. 0 \in 0..k /\ \A n \in 1..k : n \in 0..k /\ n # 0
    BY <1>3
  <2>2. QED
    BY <1>7, <2>1
<1> HIDE DEF Is, S
<1>9. \A n \in 0..k : h[n] \in S[n]
  <2>1. \A n \in 1..k : h[n - 1] \in S[n - 1] => h[n] \in S[n]
    BY <1>4, <1>8
  <2>2. QED
    BY <1>3, <1>5, <1>8, <2>1, FoldStays
<1>10. AccOk(h[k], window, base, Upto(k), trusted)
  BY <1>3, <1>9 DEF S
<1>11. Upto(k) \in Int /\ Upto(k) <= e + nack.range - 1 /\ e + nack.range - 1 \in Int
  BY <1>2, <1>3
<1> HIDE DEF Upto
<1>12. h[k].sn \in SN \cup {NoSn}
  BY <1>10 DEF AccOk, AccSet
<1>13. CountedOnce(h[k], window, base, e + nack.range - 1)
  BY <1>10, <1>11, <1>12, CountedFurther DEF AccOk
<1>14. ASSUME trusted, nack.sn # ack, Asks(nack, next_ack)
       PROVE  h[k].queue # <<>>
  <2>1. k \in 1..k /\ k - 1 \in 0..k /\ k \in 1..nack.range
    BY <1>2, <1>3, <1>14
  <2>2. h[k] = HandleNack(h[k - 1], s[k], next_ack) /\ h[k - 1] \in S[k - 1]
    BY <1>8, <1>9, <2>1
  <2>3. AccOk(h[k - 1], window, base, Upto(k - 1), TRUE)
    BY <1>14, <2>1, <2>2 DEF S
  <2>4. s[k] \in NackSet /\ s[k].sn = At(nack.sn, k - 1)
    BY <1>3, <2>1
  <2>5. PieceOk(window, s[k].sn, s[k].start, s[k].end)
    BY <1>3, <1>14, <2>1 DEF NackPieces
  <2>6. sn_under_segmentation = NoSn /\ ~(Ahead(s[k].sn, next_ack) > Ahead(tx_next, next_ack))
    BY <1>14, <2>1, <2>4 DEF Asks
  <2>7. QED
    BY <2>2, <2>3, <2>4, <2>5, <2>6, HandleNackAsks
<1>15. QED
  BY <1>1, <1>10, <1>13, <1>14 DEF AccOk

(* All NACKs of a report are handled.                                      *)
ReportAsks(status, next_ack) ==
  /\ status.nacks # <<>>
  /\ \A n \in 1..Len(status.nacks) :
       status.nacks[n].sn # status.ack /\ Asks(status.nacks[n], next_ack)

LEMMA HandleNacksKeeps ==
  ASSUME NEW window, window \in [DOMAIN window -> InfoSet], DOMAIN window \subseteq SN,
         SegmentOk(window), failure \in BOOLEAN,
         NEW base \in SN, NEW trusted \in BOOLEAN,
         NEW status \in ReportSet, Sorted(base, status.nacks),
         trusted => \A n \in 1..Len(status.nacks) : NackPieces(window, status.nacks[n]),
         NEW next_ack, NEW acc,
         acc = [window |-> window, queue |-> <<>>, sn |-> NoSn, failure |-> failure]
  PROVE  /\ \E upto \in Nat :
              AccOk(HandleNacks(acc, status, next_ack), window, base, upto, trusted)
         /\ trusted /\ ReportAsks(status, next_ack)
              => HandleNacks(acc, status, next_ack).queue # <<>>
<1> DEFINE s == status.nacks
           k == Len(s)
           Is(f) == f = [n \in 0..k |-> IF n = 0 THEN acc
                           ELSE HandleNackRange(f[n - 1], s[n], status.ack, next_ack)]
           h == CHOOSE f : Is(f)
           U == AccSet(DOMAIN window)
           Upto(n) == IF n = 0 THEN 0 ELSE Ahead(s[n].sn, base) + s[n].range - 1
           S == [n \in 0..k |-> {a \in U : AccOk(a, window, base, Upto(n), trusted)}]
           step == [n \in 1..k |-> [a \in U |-> HandleNackRange(a, s[n], status.ack, next_ack)]]
<1>1. HandleNacks(acc, status, next_ack) = h[k]
  BY DEF HandleNacks
<1>2. status.ack \in SN /\ s \in Seq(NackSet) /\ k \in Nat
  BY DEF ReportSet
<1>3. ASSUME NEW n \in 1..k
      PROVE  /\ s[n] \in NackSet /\ s[n].range \in Nat \ {0} /\ Ahead(s[n].sn, base) \in Nat
             /\ Ahead(s[n].sn, base) + s[n].range <= am_window_size
             /\ \A m \in 1..(n - 1) : Ahead(s[m].sn, base) + s[m].range - 1 <= Ahead(s[n].sn, base)
             /\ trusted => NackPieces(window, s[n])
  <2>1. s[n] \in NackSet
    BY <1>2
  <2>2. s[n].sn \in SN /\ s[n].range \in Nat \ {0}
    BY <2>1 DEF NackSet
  <2>3. QED
    BY <2>1, <2>2, AheadNat DEF Sorted, InOrder
<1> HIDE DEF s, k
<1>4. ASSUME NEW n \in 1..k, NEW a \in S[n - 1]
      PROVE  a \in U /\ HandleNackRange(a, s[n], status.ack, next_ack) \in S[n]
  <2>1. n - 1 \in 0..k /\ n \in 0..k /\ n # 0
    BY <1>2
  <2>2. a \in U /\ AccOk(a, window, base, Upto(n - 1), trusted)
    BY <2>1
  <2>3. Upto(n - 1) \in Nat /\ Upto(n - 1) <= Ahead(s[n].sn, base)
    <3>1. CASE n = 1
      BY <1>3, <3>1
    <3>2. CASE n # 1
      <4>1. n - 1 \in 1..k /\ n - 1 \in 1..(n - 1) /\ n - 1 # 0
        BY <1>2, <3>2
      <4>2. Upto(n - 1) = Ahead(s[n - 1].sn, base) + s[n - 1].range - 1
        BY <4>1
      <4>3. s[n - 1].range \in Nat \ {0} /\ Ahead(s[n - 1].sn, base) \in Nat
        BY <1>3, <4>1
      <4>4. Ahead(s[n - 1].sn, base) + s[n - 1].range - 1 <= Ahead(s[n].sn, base)
        BY <1>3, <4>1
      <4>5. QED
        BY <4>2, <4>3, <4>4
    <3>3. QED
      BY <3>1, <3>2
  <2>4. Upto(n) = Ahead(s[n].sn, base) + s[n].range - 1
    BY <2>1
  <2> HIDE DEF Upto
  <2>5. AccOk(HandleNackRange(a, s[n], status.ack, next_ack), window, base, Upto(n), trusted)
    BY <1>2, <1>3, <2>2, <2>3, <2>4, HandleNackRangeKeeps
  <2>6. HandleNackRange(a, s[n], status.ack, next_ack) \in U
    BY <2>5 DEF AccOk
  <2>7. QED
    BY <2>1, <2>2, <2>5, <2>6
<1>5. acc \in S[0]
  <2>1. /\ acc.window = window /\ acc.queue = <<>> /\ acc.sn = NoSn /\ acc.failure = failure
        /\ Len(acc.queue) = 0
    OBVIOUS
  <2>2. acc \in U
    BY DEF AccSet
  <2>3. CountedOnce(acc, window, base, 0)
    <3>1. \A sn \in DOMAIN window : window[sn].retx_count \in Int
      BY DEF InfoSet
    <3>2. QED
      BY <2>1, <3>1 DEF CountedOnce
  <2>4. AccOk(acc, window, base, 0, trusted)
    <3>1. Len(acc.queue) <= am_window_size /\ \A n \in 1..Len(acc.queue) : FALSE
      BY <2>1, WindowSize
    <3>2. QED
      BY <2>1, <2>2, <2>3, <3>1 DEF AccOk
  <2>5. QED
    BY <1>2, <2>2, <2>4
<1>6. \E f : Is(f)
  <2>1. PICK f : FoldOf(f, k, U, S, step, acc)
    <3>1. \A n \in 1..k : \A a \in S[n - 1] : step[n][a] \in S[n]
      BY <1>4
    <3>2. S \in [0..k -> SUBSET U]
      OBVIOUS
    <3> HIDE DEF S, step, U
    <3>3. Stepping(k, U, S, step)
      BY <1>2, <3>1, <3>2 DEF Stepping
    <3>4. QED
      BY <1>5, <3>3, Folded
  <2> DEFINE g == [n \in 0..k |-> IF n = 0 THEN acc
                     ELSE HandleNackRange(f[n - 1], s[n], status.ack, next_ack)]
  <2> HIDE DEF U, S
  <2>2. ASSUME NEW n \in 0..k PROVE f[n] = g[n]
    <3>1. CASE n = 0
      BY <2>1, <3>1 DEF FoldOf
    <3>2. CASE n # 0
      <4>1. n \in 1..k /\ n - 1 \in 0..k
        BY <1>2, <3>2
      <4>2. f[n] = step[n][f[n - 1]] /\ f[n - 1] \in U
        BY <2>1, <4>1 DEF FoldOf
      <4>3. QED
        BY <3>2, <4>1, <4>2
    <3>3. QED
      BY <3>1, <3>2
  <2>3. f = g
    <3>1. f = [n \in 0..k |-> f[n]] /\ g = [n \in 0..k |-> g[n]]
      BY <2>1 DEF FoldOf
    <3> HIDE DEF g
    <3>2. QED
      BY <2>2, <3>1
  <2>4. Is(f)
    BY <2>3
  <2>5. QED
    BY <2>4
<1>7. Is(h)
  <2> HIDE DEF Is
  <2>1. QED
    BY <1>6, Zenon
<1> HIDE DEF h
<1>8. h[0] = acc /\ \A n \in 1..k : h[n] = HandleNackRange(h[n - 1], s[n], status.ack, next_ack)
  <2>1. 0 \in 0..k /\ \A n \in 1..k : n \in 0..k /\ n # 0
    BY <1>2
  <2>2. QED
    BY <1>7, <2>1
<1> HIDE DEF Is, S
<1>9. \A n \in 0..k : h[n] \in S[n]
  <2>1. \A n \in 1..k : h[n - 1] \in S[n - 1] => h[n] \in S[n]
    BY <1>4, <1>8
  <2>2. QED
    BY <1>2, <1>5, <1>8, <2>1, FoldStays
<1>10. AccOk(h[k], window, base, Upto(k), trusted)
  BY <1>2, <1>9 DEF S
<1>11. Upto(k) \in Nat
  <2>1. k = 0 \/ k \in 1..k
    BY <1>2
  <2>2. QED
    BY <1>3, <2>1
<1>12. ASSUME trusted, ReportAsks(status, next_ack)
       PROVE  h[k].queue # <<>>
  <2>1. k # 0
    BY <1>2, <1>12 DEF ReportAsks, s, k
  <2>2. k \in 1..k /\ k - 1 \in 0..k
    BY <1>2, <2>1
  <2>3. /\ h[k] = HandleNackRange(h[k - 1], s[k], status.ack, next_ack)
        /\ h[k - 1] \in S[k - 1]
    BY <1>8, <1>9, <2>2
  <2>4. AccOk(h[k - 1], window, base, Upto(k - 1), trusted)
    BY <2>2, <2>3 DEF S
  <2>5. s[k].sn # status.ack /\ Asks(s[k], next_ack)
    BY <1>12, <2>2 DEF ReportAsks, s, k
  <2>6. Upto(k - 1) \in Nat /\ Upto(k - 1) <= Ahead(s[k].sn, base)
    <3>1. CASE k = 1
      BY <1>3, <2>2, <3>1
    <3>2. CASE k # 1
      <4>1. k - 1 \in 1..k /\ k - 1 \in 1..(k - 1) /\ k - 1 # 0
        BY <1>2, <2>2, <3>2
      <4>2. Upto(k - 1) = Ahead(s[k - 1].sn, base) + s[k - 1].range - 1
        BY <4>1
      <4>3. s[k - 1].range \in Nat \ {0} /\ Ahead(s[k - 1].sn, base) \in Nat
        BY <1>3, <4>1
      <4>4. Ahead(s[k - 1].sn, base) + s[k - 1].range - 1 <= Ahead(s[k].sn, base)
        BY <1>3, <2>2, <4>1
      <4>5. QED
        BY <4>2, <4>3, <4>4
    <3>3. QED
      BY <3>1, <3>2
  <2> HIDE DEF Upto
  <2>7. QED
    BY <1>2, <1>3, <1>12, <2>2, <2>3, <2>4, <2>5, <2>6, HandleNackRangeKeeps
<1>13. QED
  BY <1>1, <1>10, <1>11, <1>12

-----------------------------------------------------------------------------
(* Types, and what the entities assume of their own state.                 *)

UpperStates == {"new", "accepted", "dropped", "discarded", "confirmed"}

TxTypes ==
  /\ upper \in [Sdus -> UpperStates]
  /\ sdu_queue \in Seq(Sdus) /\ Len(sdu_queue) <= QueueSize
  /\ tx_next_ack \in SN /\ tx_next \in SN /\ poll_sn \in SN
  /\ tx_window \in [DOMAIN tx_window -> InfoSet] /\ DOMAIN tx_window \subseteq SN
  /\ sn_under_segmentation \in SN \cup {NoSn} /\ retx_sn \in SN \cup {NoSn}
  /\ failure \in BOOLEAN

SegInv ==
  /\ sn_under_segmentation \in DOMAIN tx_window => sn_under_segmentation = tx_next
  /\ SegmentOk(tx_window)

RetxTypes ==
  /\ retx_queue \in Seq(RetxSet) /\ Len(retx_queue) <= am_window_size
  /\ \A n \in 1..Len(retx_queue) : Exists(tx_window, retx_queue[n])

(* An SDU whose count reaches the threshold makes the DU release the bearer.*)
CountInv ==
  \A sn \in DOMAIN tx_window :
    /\ -1 <= tx_window[sn].retx_count
    /\ IF released THEN tx_window[sn].retx_count <= MaxRetxThresh
       ELSE tx_window[sn].retx_count < MaxRetxThresh

TxInv == TxTypes /\ SegInv /\ RetxTypes /\ CountInv

PduSet == [sn : SN, sdu : Sdus, so : Nat, len : Nat \ {0}, last : BOOLEAN,
           poll : BOOLEAN, late : BOOLEAN]
PduOk(p) == /\ p.so + p.len <= SduLen[p.sdu]
            /\ p.last = (p.so + p.len = SduLen[p.sdu])
AirInv == data_air \in Seq(PduSet) /\ \A n \in 1..Len(data_air) : PduOk(data_air[n])

(* A data PDU that is sent joins those in flight, or is lost.               *)
LEMMA Transmitted ==
  ASSUME AirInv, NEW pdu \in PduSet, PduOk(pdu), Transmit(pdu)
  PROVE  AirInv'
<1>1. data_air' = data_air \/ data_air' = Append(data_air, pdu)
  BY DEF Transmit
<1>2. CASE data_air' = data_air
  BY <1>2 DEF AirInv
<1>3. CASE data_air' = Append(data_air, pdu)
  <2> DEFINE q == Append(data_air, pdu)
             k == Len(data_air)
  <2>1. data_air \in Seq(PduSet) /\ k \in Nat /\ \A n \in 1..k : PduOk(data_air[n])
    BY DEF AirInv
  <2>2. q \in Seq(PduSet) /\ Len(q) = k + 1 /\ q[k + 1] = pdu /\ \A n \in 1..k : q[n] = data_air[n]
    BY <2>1
  <2> HIDE DEF q, k
  <2>3. \A n \in 1..Len(q) : PduOk(q[n])
    <3>1. \A n \in 1..Len(q) : n = k + 1 \/ n \in 1..k
      BY <2>1, <2>2
    <3>2. QED
      BY <2>1, <2>2, <3>1
  <2>4. QED
    BY <1>3, <2>2, <2>3 DEF AirInv, q
<1>4. QED
  BY <1>1, <1>2, <1>3

(* The PDUs that the sender builds are data PDUs.                           *)
LEMMA PduIs ==
  ASSUME NEW sn \in SN, NEW sdu \in Sdus, NEW so \in Nat, NEW len \in Nat \ {0},
         so + len <= SduLen[sdu], NEW poll \in BOOLEAN
  PROVE  Pdu(sn, sdu, so, len, poll) \in PduSet /\ PduOk(Pdu(sn, sdu, so, len, poll))
<1>1. SduLen[sdu] \in Nat
  BY EndOfSduIs
<1>2. (so + len >= SduLen[sdu]) = (so + len = SduLen[sdu])
  BY <1>1
<1>3. QED
  BY <1>2 DEF Pdu, PduSet, PduOk

(* The polling bit is one.                                                  *)
LEMMA PollIsBoolean ==
  ASSUME NEW is_retx, NEW size
  PROVE  PollRequired(is_retx, size) \in BOOLEAN
  BY DEF PollRequired

(* handle_sdu and discard_sdu.                                             *)
LEMMA HandleSduTypes ==
  ASSUME TxInv, NEW i \in Sdus, HandleSdu(i)
  PROVE  TxInv'
<1>1. /\ UNCHANGED <<tx_next_ack, tx_next, tx_window, sn_under_segmentation, retx_queue, retx_sn,
                     poll_sn, released, failure>>
      /\ \/ /\ sdu_queue' = Append(sdu_queue, i) /\ Len(sdu_queue) < QueueSize
            /\ upper' = [upper EXCEPT ![i] = "accepted"]
         \/ sdu_queue' = sdu_queue /\ upper' = [upper EXCEPT ![i] = "dropped"]
  BY DEF HandleSdu, QueueTakes, poll_vars
<1>2. QueueSize \in Nat
  BY TxAssumption
<1>3. TxTypes'
  <2>1. sdu_queue \in Seq(Sdus) /\ Len(sdu_queue) <= QueueSize /\ upper \in [Sdus -> UpperStates]
    BY DEF TxInv, TxTypes
  <2>2. sdu_queue' \in Seq(Sdus) /\ Len(sdu_queue') <= QueueSize
    BY <1>1, <1>2, <2>1
  <2>3. upper' \in [Sdus -> UpperStates]
    BY <1>1, <2>1 DEF UpperStates
  <2>4. QED
    BY <1>1, <2>2, <2>3 DEF TxInv, TxTypes
<1>4. SegInv' /\ RetxTypes' /\ CountInv'
  BY <1>1 DEF TxInv, SegInv, SegmentOk, RetxTypes, CountInv
<1>5. QED
  BY <1>3, <1>4 DEF TxInv

(* discard_sdu keeps the types.                                             *)
LEMMA DiscardSduTypes ==
  ASSUME TxInv, NEW i \in Sdus, DiscardSdu(i)
  PROVE  TxInv'
<1>1. /\ UNCHANGED <<sdu_queue, tx_next_ack, tx_next, tx_window, sn_under_segmentation, retx_queue,
                     retx_sn, poll_sn, released, failure>>
      /\ upper' = [upper EXCEPT ![i] = "discarded"]
  BY DEF DiscardSdu, poll_vars
<1>2. TxTypes'
  BY <1>1 DEF TxInv, TxTypes, UpperStates
<1>3. SegInv' /\ RetxTypes' /\ CountInv'
  BY <1>1 DEF TxInv, SegInv, SegmentOk, RetxTypes, CountInv
<1>4. QED
  BY <1>2, <1>3 DEF TxInv

(* read: what is left of the internal queue when n SDUs were popped.        *)
LEMMA ReadLeaves ==
  ASSUME NEW S, NEW s \in Seq(S), NEW n \in 1..Len(s), NEW q, q = SubSeq(s, n + 1, Len(s))
  PROVE  /\ s[n] \in S
         /\ q \in Seq(S) /\ Len(q) = Len(s) - n
         /\ \A m \in 1..Len(q) : q[m] = s[m + n] /\ m + n \in 1..Len(s)
<1> DEFINE k == Len(s)
<1>1. k \in Nat /\ n \in 1..k /\ \A m \in 1..k : s[m] \in S
  OBVIOUS
<1>2. q = SubSeq(s, n + 1, k)
  OBVIOUS
<1> HIDE DEF k
<1>3. n + 1 \in Int /\ k \in Int /\ \A m \in (n + 1)..k : s[m] \in S
  BY <1>1
<1>4. /\ q \in Seq(S)
      /\ Len(q) = IF n + 1 <= k THEN k - (n + 1) + 1 ELSE 0
      /\ \A m \in 1..(k - (n + 1) + 1) : q[m] = s[(n + 1) + m - 1]
  BY <1>2, <1>3, SubSeqProperties
<1>5. Len(q) = k - n /\ \A m \in 1..(k - n) : q[m] = s[m + n] /\ m + n \in 1..k
  BY <1>1, <1>4
<1>6. QED
  BY <1>1, <1>4, <1>5 DEF k

(* get_polling_bit keeps the type of poll_sn.                               *)
LEMMA PollTypes ==
  ASSUME NEW sn \in SN, NEW is_retx, NEW size, GetPollingBit(sn, is_retx, size), poll_sn \in SN
  PROVE  poll_sn' \in SN
  BY DEF GetPollingBit

(* build_new_pdu, in short: what it writes and sends.                      *)
NewPdu(sdu, info, len, poll) ==
  /\ retx_queue = <<>> /\ sn_under_segmentation \notin DOMAIN tx_window
  /\ ~IsTxWindowFull
  /\ \E n \in 1..Len(sdu_queue) :
       /\ Reads(n) /\ sdu = sdu_queue[n]
       /\ sdu_queue' = SubSeq(sdu_queue, n + 1, Len(sdu_queue))
  /\ len <= SduLen[sdu]
  /\ info.sdu = sdu /\ info.retx_count = -1
  /\ tx_window' = WithEntry(tx_window, tx_next, info)
  /\ \/ /\ len = SduLen[sdu] /\ sn_under_segmentation' = NoSn
        /\ tx_next' = (tx_next + 1) % Mod
     \/ /\ len < SduLen[sdu] /\ sn_under_segmentation' = tx_next
        /\ info.next_so = len /\ tx_next' = tx_next
  /\ failure' = (failure \/ tx_next \in DOMAIN tx_window)
  /\ Transmit(Pdu(tx_next, sdu, 0, len, poll))
  /\ poll_sn' \in SN
  /\ UNCHANGED <<upper, tx_next_ack, retx_queue, retx_sn, released, status_air>>

(* What build_new_pdu does, in short.                                       *)
LEMMA BuildNewIs ==
  ASSUME TxInv, NEW grant \in Nat, BuildNewPdu(grant)
  PROVE  \E sdu \in Sdus, info \in InfoSet, len \in Nat \ {0}, poll \in BOOLEAN :
           NewPdu(sdu, info, len, poll)
<1>0. /\ retx_queue = <<>> /\ sn_under_segmentation \notin DOMAIN tx_window
      /\ grant > 0 /\ ~IsTxWindowFull
      /\ UNCHANGED <<upper, tx_next_ack, retx_sn, released, status_air>>
  BY DEF BuildNewPdu
<1> PICK n \in 1..Len(sdu_queue) :
     LET sdu  == sdu_queue[n]
         full == SduLen[sdu] <= grant
         info == [sdu |-> sdu, next_so |-> IF full THEN 0 ELSE grant,
                  retx_count |-> RETX_COUNT_NOT_STARTED]
     IN  /\ Reads(n)
         /\ sdu_queue' = SubSeq(sdu_queue, n + 1, Len(sdu_queue))
         /\ tx_window' = WithEntry(tx_window, tx_next, info)
         /\ sn_under_segmentation' = IF full THEN NoSn ELSE tx_next
         /\ tx_next' = IF full THEN (tx_next + 1) % Mod ELSE tx_next
         /\ failure' = (failure \/ tx_next \in DOMAIN tx_window)
         /\ UNCHANGED retx_queue
         /\ GetPollingBit(tx_next, FALSE, IF full THEN 0 ELSE grant)
         /\ Transmit(Pdu(tx_next, sdu, 0, IF full THEN SduLen[sdu] ELSE grant,
                         PollRequired(FALSE, IF full THEN 0 ELSE grant)))
  BY DEF BuildNewPdu
<1> DEFINE sdu  == sdu_queue[n]
           full == SduLen[sdu] <= grant
           info == [sdu |-> sdu, next_so |-> IF full THEN 0 ELSE grant,
                    retx_count |-> RETX_COUNT_NOT_STARTED]
           len  == IF full THEN SduLen[sdu] ELSE grant
           poll == PollRequired(FALSE, IF full THEN 0 ELSE grant)
<1>1. /\ retx_queue = <<>> /\ sn_under_segmentation \notin DOMAIN tx_window
      /\ grant > 0 /\ ~IsTxWindowFull
      /\ Reads(n) /\ sdu_queue' = SubSeq(sdu_queue, n + 1, Len(sdu_queue))
      /\ tx_window' = WithEntry(tx_window, tx_next, info)
      /\ sn_under_segmentation' = IF full THEN NoSn ELSE tx_next
      /\ tx_next' = IF full THEN (tx_next + 1) % Mod ELSE tx_next
      /\ failure' = (failure \/ tx_next \in DOMAIN tx_window)
      /\ GetPollingBit(tx_next, FALSE, IF full THEN 0 ELSE grant)
      /\ Transmit(Pdu(tx_next, sdu, 0, len, poll))
      /\ UNCHANGED <<upper, tx_next_ack, retx_queue, retx_sn, released, status_air>>
  BY <1>0
<1>2. sdu_queue \in Seq(Sdus) /\ tx_next \in SN /\ poll_sn \in SN
  BY DEF TxInv, TxTypes
<1>3. sdu = sdu_queue[n] /\ sdu \in Sdus
  BY <1>2
<1> HIDE DEF sdu
<1>4. SduLen[sdu] \in Nat \ {0}
  BY <1>3, EndOfSduIs
<1>5. /\ len \in Nat \ {0} /\ len <= SduLen[sdu] /\ info \in InfoSet
      /\ info.sdu = sdu /\ info.retx_count = -1
      /\ full => len = SduLen[sdu]
      /\ ~full => len < SduLen[sdu] /\ info.next_so = len
  BY <1>1, <1>3, <1>4 DEF InfoSet, RETX_COUNT_NOT_STARTED
<1>6. poll \in BOOLEAN
  BY PollIsBoolean
<1>7. poll_sn' \in SN
  BY <1>1, <1>2, PollTypes
<1> HIDE DEF poll, info, len, full
<1>8. \/ /\ len = SduLen[sdu] /\ sn_under_segmentation' = NoSn
         /\ tx_next' = (tx_next + 1) % Mod
      \/ /\ len < SduLen[sdu] /\ sn_under_segmentation' = tx_next
         /\ info.next_so = len /\ tx_next' = tx_next
  BY <1>1, <1>5
<1>9. QED
  BY <1>1, <1>3, <1>5, <1>6, <1>7, <1>8 DEF NewPdu

(* build_new_pdu keeps the types.                                           *)
LEMMA BuildNewTypes ==
  ASSUME TxInv, AirInv, NEW grant \in Nat, BuildNewPdu(grant)
  PROVE  TxInv' /\ AirInv'
<1>0. PICK sdu \in Sdus, info \in InfoSet, len \in Nat \ {0}, poll \in BOOLEAN :
           NewPdu(sdu, info, len, poll)
  BY BuildNewIs
<1>1. /\ retx_queue = <<>> /\ sn_under_segmentation \notin DOMAIN tx_window
      /\ \E n \in 1..Len(sdu_queue) : sdu_queue' = SubSeq(sdu_queue, n + 1, Len(sdu_queue))
      /\ len <= SduLen[sdu]
      /\ info.sdu = sdu /\ info.retx_count = -1
      /\ tx_window' = WithEntry(tx_window, tx_next, info)
      /\ \/ /\ len = SduLen[sdu] /\ sn_under_segmentation' = NoSn
            /\ tx_next' = (tx_next + 1) % Mod
         \/ /\ len < SduLen[sdu] /\ sn_under_segmentation' = tx_next
            /\ info.next_so = len /\ tx_next' = tx_next
      /\ failure' = (failure \/ tx_next \in DOMAIN tx_window)
      /\ Transmit(Pdu(tx_next, sdu, 0, len, poll))
      /\ poll_sn' \in SN
      /\ UNCHANGED <<upper, tx_next_ack, retx_queue, retx_sn, released, status_air>>
  BY <1>0 DEF NewPdu
<1>2. TxTypes
  BY DEF TxInv
<1>3. tx_next \in SN /\ (tx_next + 1) % Mod \in SN /\ tx_next' \in SN
  BY <1>1, <1>2, AheadIs DEF TxTypes
<1>4. /\ tx_window' \in [DOMAIN tx_window' -> InfoSet] /\ DOMAIN tx_window' = DOMAIN tx_window \cup {tx_next}
      /\ DOMAIN tx_window' \subseteq SN /\ tx_window'[tx_next] = info
      /\ \A s \in DOMAIN tx_window : s # tx_next => tx_window'[s] = tx_window[s]
  <2>1. tx_window \in [DOMAIN tx_window -> InfoSet] /\ DOMAIN tx_window \subseteq SN
    BY <1>2 DEF TxTypes
  <2>2. tx_window' = WithEntry(tx_window, tx_next, info) /\ tx_next \in SN
    BY <1>1, <1>3
  <2>3. QED
    BY <2>1, <2>2 DEF WithEntry
<1>5. sdu_queue' \in Seq(Sdus) /\ Len(sdu_queue') <= QueueSize
  <2>1. sdu_queue \in Seq(Sdus) /\ Len(sdu_queue) \in Nat /\ Len(sdu_queue) <= QueueSize /\ QueueSize \in Nat
    BY <1>2, TxAssumption DEF TxTypes
  <2>2. PICK n \in 1..Len(sdu_queue) : sdu_queue' = SubSeq(sdu_queue, n + 1, Len(sdu_queue))
    BY <1>1
  <2>3. sdu_queue' \in Seq(Sdus) /\ Len(sdu_queue') = Len(sdu_queue) - n
    BY <2>1, <2>2, ReadLeaves
  <2>4. QED
    BY <2>1, <2>3
<1>6. TxTypes'
  <2>1. failure' \in BOOLEAN
    BY <1>1
  <2>2. sn_under_segmentation' \in SN \cup {NoSn}
    BY <1>1, <1>3
  <2>3. QED
    BY <1>1, <1>2, <1>3, <1>4, <1>5, <2>1, <2>2 DEF TxTypes
<1>7. SegInv'
  <2>1. NoSn \notin SN
    BY WindowSize DEF NoSn, SN
  <2>2. CASE len = SduLen[sdu] /\ sn_under_segmentation' = NoSn
    BY <1>4, <2>1, <2>2 DEF SegInv, SegmentOk
  <2>3. CASE len < SduLen[sdu] /\ sn_under_segmentation' = tx_next /\ info.next_so = len /\ tx_next' = tx_next
    <3>1. SduLen[sdu] \in Nat
      BY EndOfSduIs
    <3>2. len \in 1..(SduLen[sdu] - 1)
      BY <2>3, <3>1
    <3>3. QED
      BY <1>1, <1>4, <2>3, <3>2 DEF SegInv, SegmentOk
  <2>4. QED
    BY <1>1, <2>2, <2>3
<1>8. RetxTypes'
  BY <1>1, WindowSize DEF RetxTypes
<1>9. CountInv'
  <2>1. MaxRetxThresh \in Nat \ {0}
    BY TxAssumption
  <2>2. CountInv
    BY DEF TxInv
  <2>3. QED
    BY <1>1, <1>4, <2>1, <2>2 DEF CountInv
<1>10. AirInv'
  <2>1. SduLen[sdu] \in Nat /\ 0 + len <= SduLen[sdu]
    BY <1>1, EndOfSduIs
  <2>2. Pdu(tx_next, sdu, 0, len, poll) \in PduSet /\ PduOk(Pdu(tx_next, sdu, 0, len, poll))
    BY <1>3, <2>1, PduIs
  <2>3. QED
    BY <1>1, <2>2, Transmitted
<1>11. QED
  BY <1>6, <1>7, <1>8, <1>9, <1>10 DEF TxInv

(* A pull that finds no SDU keeps the types.                                *)
LEMMA EmptyPullTypes ==
  ASSUME TxInv, AirInv, NEW grant, EmptyPull(grant)
  PROVE  TxInv' /\ AirInv'
<1>1. /\ UNCHANGED <<upper, tx_next_ack, tx_next, tx_window, sn_under_segmentation, retx_queue,
                     retx_sn, poll_sn, released, failure, data_air>>
      /\ sdu_queue' = <<>> \/ sdu_queue' = sdu_queue
  BY DEF EmptyPull, poll_vars
<1>2. sdu_queue' \in Seq(Sdus) /\ Len(sdu_queue') <= QueueSize
  <2>1. sdu_queue \in Seq(Sdus) /\ Len(sdu_queue) <= QueueSize /\ QueueSize \in Nat
    BY TxAssumption DEF TxInv, TxTypes
  <2>2. CASE sdu_queue' = <<>>
    BY <2>1, <2>2
  <2>3. CASE sdu_queue' = sdu_queue
    BY <2>1, <2>3
  <2>4. QED
    BY <1>1, <2>2, <2>3
<1>3. TxTypes'
  BY <1>1, <1>2 DEF TxInv, TxTypes
<1>4. SegInv' /\ RetxTypes' /\ CountInv' /\ AirInv'
  BY <1>1 DEF TxInv, SegInv, SegmentOk, RetxTypes, CountInv, AirInv
<1>5. QED
  BY <1>3, <1>4 DEF TxInv

(* build_continued_sdu_segment, in short.                                  *)
NextSegment(info, len, poll) ==
  /\ retx_queue = <<>> /\ sn_under_segmentation = tx_next
  /\ tx_next \in DOMAIN tx_window /\ info = tx_window[tx_next]
  /\ tx_window' \in [DOMAIN tx_window -> InfoSet]
  /\ \A s \in DOMAIN tx_window :
       /\ s # tx_next => tx_window'[s] = tx_window[s]
       /\ tx_window'[s].sdu = tx_window[s].sdu
       /\ tx_window'[s].retx_count = tx_window[s].retx_count
  /\ tx_window'[tx_next].next_so = info.next_so + len
  /\ \/ /\ info.next_so + len = SduLen[info.sdu] /\ sn_under_segmentation' = NoSn
        /\ tx_next' = (tx_next + 1) % Mod
     \/ /\ info.next_so + len < SduLen[info.sdu] /\ sn_under_segmentation' = tx_next
        /\ tx_next' = tx_next
  /\ Transmit(Pdu(tx_next, info.sdu, info.next_so, len, poll))
  /\ poll_sn' \in SN
  /\ UNCHANGED <<upper, sdu_queue, tx_next_ack, retx_queue, retx_sn, released, failure, status_air>>

(* What build_continued_sdu_segment does, in short.                         *)
LEMMA BuildContinuedIs ==
  ASSUME TxInv, NEW grant \in Nat, BuildContinuedSduSegment(grant)
  PROVE  \E info \in InfoSet, len \in Nat \ {0}, poll \in BOOLEAN : NextSegment(info, len, poll)
<1> DEFINE info == tx_window[sn_under_segmentation]
           rest == SduLen[info.sdu] - info.next_so
           last == rest <= grant
           len  == IF last THEN rest ELSE grant
           poll == PollRequired(FALSE, len)
<1>1. /\ retx_queue = <<>> /\ sn_under_segmentation \in DOMAIN tx_window /\ grant > 0
      /\ sn_under_segmentation' = IF last THEN NoSn ELSE sn_under_segmentation
      /\ tx_window' = [tx_window EXCEPT ![sn_under_segmentation].next_so = @ + len]
      /\ tx_next' = IF last THEN (tx_next + 1) % Mod ELSE tx_next
      /\ GetPollingBit(tx_next, FALSE, len)
      /\ Transmit(Pdu(tx_next, info.sdu, info.next_so, len, poll))
      /\ UNCHANGED <<upper, sdu_queue, tx_next_ack, retx_queue, retx_sn, released, failure, status_air>>
  BY DEF BuildContinuedSduSegment
<1>2. /\ sn_under_segmentation = tx_next /\ tx_next \in SN /\ poll_sn \in SN
      /\ tx_window \in [DOMAIN tx_window -> InfoSet]
      /\ info.next_so \in 1..(SduLen[info.sdu] - 1)
  BY <1>1 DEF TxInv, TxTypes, SegInv, SegmentOk
<1>3. info \in InfoSet /\ info.sdu \in Sdus /\ info.next_so \in Nat
  BY <1>1, <1>2 DEF InfoSet
<1>4. SduLen[info.sdu] \in Nat
  BY <1>3, EndOfSduIs
<1>5. poll \in BOOLEAN /\ poll_sn' \in SN
  BY <1>1, <1>2, PollIsBoolean, PollTypes
<1>6. tx_window' = [s \in DOMAIN tx_window |->
                      IF s = tx_next THEN [tx_window[s] EXCEPT !.next_so = tx_window[s].next_so + len]
                      ELSE tx_window[s]]
  BY <1>1, <1>2
<1> HIDE DEF info
<1>7. /\ len \in Nat \ {0}
      /\ last => info.next_so + len = SduLen[info.sdu]
      /\ ~last => info.next_so + len < SduLen[info.sdu]
  <2>1. rest \in Nat \ {0} /\ info.next_so + rest = SduLen[info.sdu]
    BY <1>2, <1>3, <1>4
  <2>2. grant \in Nat \ {0}
    BY <1>1
  <2> HIDE DEF rest
  <2>3. QED
    BY <1>3, <1>4, <2>1, <2>2
<1> HIDE DEF last, len, poll
<1>8. ASSUME NEW i \in InfoSet, NEW so \in Nat
      PROVE  /\ [i EXCEPT !.next_so = so] \in InfoSet
             /\ [i EXCEPT !.next_so = so].sdu = i.sdu
             /\ [i EXCEPT !.next_so = so].retx_count = i.retx_count
             /\ [i EXCEPT !.next_so = so].next_so = so
  BY DEF InfoSet
<1>9. /\ tx_window' \in [DOMAIN tx_window -> InfoSet]
      /\ \A s \in DOMAIN tx_window :
           /\ s # tx_next => tx_window'[s] = tx_window[s]
           /\ tx_window'[s].sdu = tx_window[s].sdu
           /\ tx_window'[s].retx_count = tx_window[s].retx_count
      /\ tx_window'[tx_next].next_so = info.next_so + len
  <2> DEFINE More(s) == [tx_window[s] EXCEPT !.next_so = tx_window[s].next_so + len]
  <2>1. tx_window' = [s \in DOMAIN tx_window |-> IF s = tx_next THEN More(s) ELSE tx_window[s]]
    BY <1>6
  <2>2. \A s \in DOMAIN tx_window : tx_window[s] \in InfoSet /\ tx_window[s].next_so + len \in Nat
    BY <1>2, <1>7 DEF InfoSet
  <2>3. \A s \in DOMAIN tx_window :
          /\ More(s) \in InfoSet /\ More(s).sdu = tx_window[s].sdu
          /\ More(s).retx_count = tx_window[s].retx_count
          /\ More(s).next_so = tx_window[s].next_so + len
    BY <1>8, <2>2
  <2> HIDE DEF More
  <2>4. tx_window' \in [DOMAIN tx_window -> InfoSet]
    BY <2>1, <2>2, <2>3
  <2>5. \A s \in DOMAIN tx_window : tx_window'[s] = IF s = tx_next THEN More(s) ELSE tx_window[s]
    BY <2>1
  <2>6. tx_next \in DOMAIN tx_window /\ info = tx_window[tx_next]
    BY <1>1, <1>2 DEF info
  <2>7. QED
    BY <2>3, <2>4, <2>5, <2>6
<1>10. info = tx_window[tx_next] /\ tx_next \in DOMAIN tx_window
  BY <1>1, <1>2 DEF info
<1>11. \/ /\ info.next_so + len = SduLen[info.sdu] /\ sn_under_segmentation' = NoSn
          /\ tx_next' = (tx_next + 1) % Mod
       \/ /\ info.next_so + len < SduLen[info.sdu] /\ sn_under_segmentation' = tx_next
          /\ tx_next' = tx_next
  BY <1>1, <1>2, <1>7
<1>12. NextSegment(info, len, poll)
  BY <1>1, <1>2, <1>5, <1>9, <1>10, <1>11 DEF NextSegment
<1>13. QED
  BY <1>3, <1>5, <1>7, <1>12

(* build_continued_sdu_segment keeps the types.                             *)
LEMMA BuildContinuedTypes ==
  ASSUME TxInv, AirInv, NEW grant \in Nat, BuildContinuedSduSegment(grant)
  PROVE  TxInv' /\ AirInv'
<1>0. PICK info \in InfoSet, len \in Nat \ {0}, poll \in BOOLEAN : NextSegment(info, len, poll)
  BY BuildContinuedIs
<1>1. /\ retx_queue = <<>> /\ sn_under_segmentation = tx_next
      /\ tx_next \in DOMAIN tx_window /\ info = tx_window[tx_next]
      /\ tx_window' \in [DOMAIN tx_window -> InfoSet]
      /\ \A s \in DOMAIN tx_window :
           /\ s # tx_next => tx_window'[s] = tx_window[s]
           /\ tx_window'[s].sdu = tx_window[s].sdu
           /\ tx_window'[s].retx_count = tx_window[s].retx_count
      /\ tx_window'[tx_next].next_so = info.next_so + len
      /\ \/ /\ info.next_so + len = SduLen[info.sdu] /\ sn_under_segmentation' = NoSn
            /\ tx_next' = (tx_next + 1) % Mod
         \/ /\ info.next_so + len < SduLen[info.sdu] /\ sn_under_segmentation' = tx_next
            /\ tx_next' = tx_next
      /\ Transmit(Pdu(tx_next, info.sdu, info.next_so, len, poll))
      /\ poll_sn' \in SN
      /\ UNCHANGED <<upper, sdu_queue, tx_next_ack, retx_queue, retx_sn, released, failure, status_air>>
  BY <1>0 DEF NextSegment
<1>2. TxTypes
  BY DEF TxInv
<1>3. tx_next \in SN /\ (tx_next + 1) % Mod \in SN /\ tx_next' \in SN
  BY <1>1, <1>2, AheadIs DEF TxTypes
<1>4. DOMAIN tx_window' = DOMAIN tx_window
  BY <1>1
<1>5. info.sdu \in Sdus /\ info.next_so \in Nat /\ SduLen[info.sdu] \in Nat
  <2>1. info.sdu \in Sdus /\ info.next_so \in Nat
    BY DEF InfoSet
  <2>2. QED
    BY <2>1, EndOfSduIs
<1>6. TxTypes'
  <2>1. sn_under_segmentation' \in SN \cup {NoSn}
    BY <1>1, <1>3
  <2>2. tx_window' \in [DOMAIN tx_window' -> InfoSet] /\ DOMAIN tx_window' \subseteq SN
    BY <1>1, <1>2, <1>4 DEF TxTypes
  <2>3. QED
    BY <1>1, <1>2, <1>3, <2>1, <2>2 DEF TxTypes
<1>7. SegInv'
  <2>1. NoSn \notin SN
    BY WindowSize DEF NoSn, SN
  <2>2. CASE sn_under_segmentation' = NoSn
    BY <1>2, <1>4, <2>1, <2>2 DEF SegInv, SegmentOk, TxTypes
  <2>3. CASE info.next_so + len < SduLen[info.sdu] /\ sn_under_segmentation' = tx_next /\ tx_next' = tx_next
    <3>1. tx_window'[tx_next].sdu = info.sdu
      BY <1>1
    <3>2. tx_window'[tx_next].next_so \in 1..(SduLen[tx_window'[tx_next].sdu] - 1)
      BY <1>1, <1>5, <2>3, <3>1
    <3>3. QED
      BY <2>3, <3>2 DEF SegInv, SegmentOk
  <2>4. QED
    BY <1>1, <2>2, <2>3
<1>8. RetxTypes'
  BY <1>1, WindowSize DEF RetxTypes
<1>9. CountInv'
  <2>1. CountInv
    BY DEF TxInv
  <2>2. QED
    BY <1>1, <1>4, <2>1 DEF CountInv
<1>10. AirInv'
  <2>1. info.next_so + len <= SduLen[info.sdu]
    BY <1>1, <1>5
  <2>2. /\ Pdu(tx_next, info.sdu, info.next_so, len, poll) \in PduSet
        /\ PduOk(Pdu(tx_next, info.sdu, info.next_so, len, poll))
    BY <1>3, <1>5, <2>1, PduIs
  <2>3. QED
    BY <1>1, <2>2, Transmitted
<1>11. QED
  BY <1>6, <1>7, <1>8, <1>9, <1>10 DEF TxInv

(* build_retx_pdu, in short.  What is left in the queue ends where it did. *)
RetxSent(len, poll) ==
  /\ retx_queue # <<>> /\ len <= retx_queue[1].len
  /\ retx_queue' \in Seq(RetxSet) /\ Len(retx_queue') <= Len(retx_queue)
  /\ \A n \in 1..Len(retx_queue') : \E m \in 1..Len(retx_queue) :
       /\ retx_queue'[n].sn = retx_queue[m].sn
       /\ retx_queue'[n].so + retx_queue'[n].len = retx_queue[m].so + retx_queue[m].len
  /\ Transmit(Pdu(retx_queue[1].sn, tx_window[retx_queue[1].sn].sdu, retx_queue[1].so, len, poll))

(* What build_retx_pdu does, in short.                                      *)
LEMMA BuildRetxIs ==
  ASSUME TxInv, NEW grant \in Nat, BuildRetxPdu(grant)
  PROVE  /\ poll_sn' \in SN /\ retx_sn' \in SN
         /\ UNCHANGED <<upper, sdu_queue, tx_next_ack, tx_next, tx_window, sn_under_segmentation,
                        released, failure, status_air>>
         /\ \/ UNCHANGED <<retx_queue, data_air>>
            \/ \E len \in Nat \ {0}, poll \in BOOLEAN : RetxSent(len, poll)
<1> DEFINE retx == Head(retx_queue)
           len  == IF retx.len <= grant THEN retx.len ELSE grant
           poll == PollRequired(TRUE, 0)
           k == Len(retx_queue)
           rest == [retx EXCEPT !.so = @ + len, !.len = @ - len]
<1>1. /\ retx_queue # <<>> /\ retx_sn' = retx.sn
      /\ \/ UNCHANGED <<retx_queue, poll_vars, data_air>>
         \/ /\ grant # 0
            /\ retx_queue' = IF len = retx.len THEN Tail(retx_queue)
                             ELSE <<rest>> \o Tail(retx_queue)
            /\ GetPollingBit(retx.sn, TRUE, 0)
            /\ Transmit(Pdu(retx.sn, tx_window[retx.sn].sdu, retx.so, len, poll))
      /\ UNCHANGED <<upper, sdu_queue, tx_next_ack, tx_next, tx_window, sn_under_segmentation,
                     released, failure, status_air>>
  BY DEF BuildRetxPdu
<1>2. retx_queue \in Seq(RetxSet) /\ k \in Nat /\ k >= 1 /\ poll_sn \in SN
  <2>1. retx_queue \in Seq(RetxSet) /\ poll_sn \in SN
    BY DEF TxInv, TxTypes, RetxTypes
  <2>2. QED
    BY <1>1, <2>1, NotEmpty
<1>3. retx = retx_queue[1] /\ retx \in RetxSet
  BY <1>1, <1>2
<1>4. retx.sn \in SN /\ retx.so \in Nat /\ retx.len \in Nat \ {0}
  BY <1>3 DEF RetxSet
<1>5. poll_sn' \in SN
  BY <1>1, <1>2, <1>4, PollTypes DEF poll_vars
<1>6. ASSUME grant # 0,
             retx_queue' = (IF len = retx.len THEN Tail(retx_queue) ELSE <<rest>> \o Tail(retx_queue)),
             Transmit(Pdu(retx.sn, tx_window[retx.sn].sdu, retx.so, len, poll))
      PROVE  len \in Nat \ {0} /\ RetxSent(len, poll)
  <2> DEFINE t == Tail(retx_queue)
  <2>1. t \in Seq(RetxSet) /\ Len(t) = k - 1 /\ \A n \in 1..(k - 1) : t[n] = retx_queue[n + 1]
    BY <1>1, <1>2
  <2>2. len \in Nat \ {0} /\ len <= retx.len
    BY <1>4, <1>6
  <2> HIDE DEF len, t, k, retx
  <2>3. ASSUME NEW n \in 1..(k - 1)
        PROVE  n + 1 \in 1..k /\ t[n] = retx_queue[n + 1]
    BY <1>2, <2>1
  <2>4. CASE len = retx.len
    <3>1. retx_queue' = t
      BY <1>6, <2>4 DEF t
    <3>2. Len(t) <= k /\ retx_queue # <<>> /\ len <= retx_queue[1].len
      BY <1>1, <1>2, <1>3, <2>1, <2>2
    <3>3. \A n \in 1..Len(t) : \E m \in 1..k : /\ t[n].sn = retx_queue[m].sn
                                               /\ t[n].so + t[n].len = retx_queue[m].so + retx_queue[m].len
      BY <2>1, <2>3
    <3> HIDE DEF poll
    <3>4. Transmit(Pdu(retx_queue[1].sn, tx_window[retx_queue[1].sn].sdu, retx_queue[1].so, len, poll))
      BY <1>3, <1>6
    <3>5. QED
      BY <2>1, <2>2, <3>1, <3>2, <3>3, <3>4 DEF RetxSent, k
  <2>5. CASE len # retx.len
    <3> DEFINE q == <<rest>> \o t
    <3>1. retx_queue' = q
      BY <1>6, <2>5 DEF t
    <3>2. rest = [sn |-> retx.sn, so |-> retx.so + len, len |-> retx.len - len]
      <4>1. retx = [sn |-> retx.sn, so |-> retx.so, len |-> retx.len]
        BY <1>3 DEF RetxSet
      <4> DEFINE r1 == [retx EXCEPT !.so = retx.so + len]
      <4>2. r1 = [sn |-> retx.sn, so |-> retx.so + len, len |-> retx.len]
        BY <4>1
      <4>3. rest = [r1 EXCEPT !.len = retx.len - len]
        BY <1>4, <4>1, <4>2
      <4> HIDE DEF r1, rest
      <4>4. QED
        BY <4>2, <4>3
    <3>3. rest \in RetxSet /\ rest.sn = retx.sn /\ rest.so + rest.len = retx.so + retx.len
      <4>1. retx.len - len \in Nat \ {0} /\ retx.so + len \in Nat
        BY <1>4, <2>2, <2>5
      <4> HIDE DEF rest
      <4>2. QED
        BY <1>4, <2>2, <3>2, <4>1 DEF RetxSet
    <3> HIDE DEF rest
    <3>4. q \in Seq(RetxSet) /\ Len(q) = k /\ q[1] = rest /\ \A n \in 1..(k - 1) : q[n + 1] = t[n]
      BY <1>2, <2>1, <3>3
    <3> HIDE DEF q
    <3>5. ASSUME NEW n \in 1..k
          PROVE  \E m \in 1..k : /\ q[n].sn = retx_queue[m].sn
                                 /\ q[n].so + q[n].len = retx_queue[m].so + retx_queue[m].len
      <4>1. CASE n = 1
        BY <1>2, <1>3, <3>3, <3>4, <4>1
      <4>2. CASE n # 1
        <5>1. n - 1 \in 1..(k - 1) /\ (n - 1) + 1 = n
          BY <1>2, <4>2
        <5>2. q[n] = retx_queue[n]
          BY <2>3, <3>4, <5>1
        <5>3. QED
          BY <5>2
      <4>3. QED
        BY <4>1, <4>2
    <3> HIDE DEF poll
    <3>6. Transmit(Pdu(retx_queue[1].sn, tx_window[retx_queue[1].sn].sdu, retx_queue[1].so, len, poll))
      BY <1>3, <1>6
    <3>7. k <= k /\ retx_queue # <<>> /\ len <= retx_queue[1].len
      BY <1>1, <1>2, <1>3, <2>2
    <3>8. QED
      BY <2>2, <3>1, <3>4, <3>5, <3>6, <3>7 DEF RetxSent, k
  <2>6. QED
    BY <2>2, <2>4, <2>5
<1>7. poll \in BOOLEAN
  BY PollIsBoolean
<1> HIDE DEF poll, len, rest
<1>8. QED
  BY <1>1, <1>4, <1>5, <1>6, <1>7

(* build_retx_pdu keeps the types.                                          *)
LEMMA BuildRetxTypes ==
  ASSUME TxInv, AirInv, NEW grant \in Nat, BuildRetxPdu(grant)
  PROVE  TxInv' /\ AirInv'
<1>1. /\ poll_sn' \in SN /\ retx_sn' \in SN
      /\ UNCHANGED <<upper, sdu_queue, tx_next_ack, tx_next, tx_window, sn_under_segmentation,
                     released, failure, status_air>>
      /\ \/ UNCHANGED <<retx_queue, data_air>>
         \/ \E len \in Nat \ {0}, poll \in BOOLEAN : RetxSent(len, poll)
  BY BuildRetxIs
<1>2. TxTypes' /\ SegInv' /\ CountInv'
  BY <1>1 DEF TxInv, TxTypes, SegInv, SegmentOk, CountInv
<1>3. CASE UNCHANGED <<retx_queue, data_air>>
  <2>1. RetxTypes' /\ AirInv'
    BY <1>1, <1>3 DEF TxInv, RetxTypes, AirInv
  <2>2. QED
    BY <1>2, <2>1 DEF TxInv
<1>4. ASSUME NEW len \in Nat \ {0}, NEW poll \in BOOLEAN, RetxSent(len, poll)
      PROVE  RetxTypes' /\ AirInv'
  <2> DEFINE r == retx_queue[1]
             sdu == tx_window[r.sn].sdu
  <2>1. retx_queue \in Seq(RetxSet) /\ Len(retx_queue) \in Nat /\ Len(retx_queue) <= am_window_size
    BY DEF TxInv, RetxTypes
  <2>2. retx_queue # <<>> /\ len <= r.len /\ Transmit(Pdu(r.sn, sdu, r.so, len, poll))
    BY <1>4 DEF RetxSent
  <2>3. 1 \in 1..Len(retx_queue) /\ r \in RetxSet
    BY <2>1, <2>2
  <2>4. Exists(tx_window, r)
    BY <2>3 DEF TxInv, RetxTypes
  <2>5. r.sn \in SN /\ r.so \in Nat /\ r.len \in Nat \ {0}
    BY <2>3 DEF RetxSet
  <2>6. sdu \in Sdus /\ r.so + r.len <= SduLen[sdu]
    BY <2>4 DEF Exists, TxInv, TxTypes, InfoSet
  <2>7. SduLen[sdu] \in Nat
    BY <2>6, EndOfSduIs
  <2> HIDE DEF r, sdu
  <2>8. r.so + len <= SduLen[sdu]
    BY <2>2, <2>5, <2>6, <2>7
  <2>9. AirInv'
    BY <2>2, <2>5, <2>6, <2>8, PduIs, Transmitted
  <2>10. ASSUME NEW n \in 1..Len(retx_queue') PROVE Exists(tx_window', retx_queue'[n])
    <3>1. PICK m \in 1..Len(retx_queue) :
            /\ retx_queue'[n].sn = retx_queue[m].sn
            /\ retx_queue'[n].so + retx_queue'[n].len = retx_queue[m].so + retx_queue[m].len
      BY <1>4 DEF RetxSent
    <3>2. Exists(tx_window, retx_queue[m])
      BY DEF TxInv, RetxTypes
    <3>3. QED
      BY <1>1, <3>1, <3>2 DEF Exists
  <2>11. retx_queue' \in Seq(RetxSet) /\ Len(retx_queue') <= am_window_size
    <3>1. retx_queue' \in Seq(RetxSet) /\ Len(retx_queue') <= Len(retx_queue)
      BY <1>4 DEF RetxSent
    <3>2. Len(retx_queue') \in Nat
      BY <3>1
    <3>3. QED
      BY <2>1, <3>1, <3>2, WindowSize
  <2>12. QED
    BY <2>9, <2>10, <2>11 DEF RetxTypes
<1>5. QED
  BY <1>1, <1>2, <1>3, <1>4 DEF TxInv

(* The window without the SDUs that are acknowledged, and with the counts  *)
(* of the others below the threshold.                                      *)
Rewound(w, acked) ==
  /\ DOMAIN w = DOMAIN tx_window \ acked /\ w \in [DOMAIN w -> InfoSet]
  /\ \A sn \in DOMAIN w :
       /\ w[sn].sdu = tx_window[sn].sdu /\ w[sn].next_so = tx_window[sn].next_so
       /\ -1 <= w[sn].retx_count /\ w[sn].retx_count < MaxRetxThresh

(* The retransmissions that are called off give SDUs their counts back.    *)
LEMMA RewindIs ==
  ASSUME TxInv, ~released, NEW acked
  PROVE  Rewound(RewindRetx(Restrict(tx_window, DOMAIN tx_window \ acked)), acked)
<1> DEFINE D == DOMAIN tx_window \ acked
           r == Restrict(tx_window, D)
           w == RewindRetx(r)
           Before(n) == IF n = 1 THEN retx_sn ELSE retx_queue[n - 1].sn
           Runs(sn)  == {n \in 1..Len(retx_queue) : retx_queue[n].sn = sn /\ Before(n) # sn}
           Count(sn) == DecrementRetxCount(r[sn].retx_count, Cardinality(Runs(sn)))
<1>1. DOMAIN r = D /\ \A sn \in D : r[sn] = tx_window[sn]
  BY DEF Restrict
<1>2. \A sn \in D : r[sn] \in InfoSet /\ -1 <= r[sn].retx_count /\ r[sn].retx_count < MaxRetxThresh
  BY <1>1 DEF TxInv, TxTypes, CountInv
<1> HIDE DEF r
<1>3. w = [sn \in DOMAIN r |-> [r[sn] EXCEPT !.retx_count = Count(sn)]]
  BY DEF RewindRetx, r
<1> HIDE DEF w
<1>4. ASSUME NEW sn \in D
      PROVE  Count(sn) \in Int /\ -1 <= Count(sn) /\ Count(sn) < MaxRetxThresh
  <2> DEFINE c == r[sn].retx_count
             m == Cardinality(Runs(sn))
  <2>1. m \in Nat
    <3>1. Len(retx_queue) \in Nat
      BY DEF TxInv, RetxTypes
    <3>2. IsFiniteSet(1..Len(retx_queue))
      BY <3>1, FS_Interval
    <3>3. Runs(sn) \subseteq 1..Len(retx_queue)
      OBVIOUS
    <3> HIDE DEF Runs
    <3>4. IsFiniteSet(Runs(sn))
      BY <3>2, <3>3, FS_Subset
    <3>5. QED
      BY <3>4, FS_CardinalityType
  <2>2. c \in Int /\ -1 <= c /\ c < MaxRetxThresh /\ MaxRetxThresh \in Nat \ {0}
    BY <1>2, TxAssumption DEF InfoSet
  <2>3. Count(sn) = Max({-1, c - m})
    BY DEF DecrementRetxCount, RETX_COUNT_NOT_STARTED
  <2> HIDE DEF c, m, Count
  <2>4. -1 \in Int /\ c - m \in Int
    BY <2>1, <2>2
  <2>5. Count(sn) = IF -1 >= c - m THEN -1 ELSE c - m
    BY <2>3, <2>4, MaxOfTwo
  <2>6. QED
    BY <2>1, <2>2, <2>5
<1> HIDE DEF Count
<1>5. ASSUME NEW i \in InfoSet, NEW c \in Int
      PROVE  /\ [i EXCEPT !.retx_count = c] \in InfoSet
             /\ [i EXCEPT !.retx_count = c].sdu = i.sdu
             /\ [i EXCEPT !.retx_count = c].next_so = i.next_so
             /\ [i EXCEPT !.retx_count = c].retx_count = c
  BY DEF InfoSet
<1> DEFINE New(sn) == [r[sn] EXCEPT !.retx_count = Count(sn)]
<1>6. \A sn \in D : /\ New(sn) \in InfoSet /\ New(sn).sdu = tx_window[sn].sdu
                    /\ New(sn).next_so = tx_window[sn].next_so /\ New(sn).retx_count = Count(sn)
  BY <1>1, <1>2, <1>4, <1>5
<1>7. w = [sn \in D |-> New(sn)]
  BY <1>1, <1>3
<1> HIDE DEF New, D
<1>8. DOMAIN w = D /\ w \in [D -> InfoSet] /\ \A sn \in D : w[sn] = New(sn)
  BY <1>6, <1>7
<1>9. Rewound(w, acked)
  BY <1>4, <1>6, <1>8 DEF D, Rewound
<1>10. QED
  BY <1>9 DEF w, r, D

(* What a report that is not refused makes of the window and of the queue. *)
StatusApplied(res, w, acked, trusted) ==
  /\ DOMAIN res.window = DOMAIN tx_window \ acked
  /\ res.window \in [DOMAIN res.window -> InfoSet]
  /\ \A sn \in DOMAIN res.window :
       /\ res.window[sn].sdu = tx_window[sn].sdu
       /\ res.window[sn].next_so = tx_window[sn].next_so
       /\ -1 <= res.window[sn].retx_count /\ res.window[sn].retx_count <= MaxRetxThresh
       /\ w[sn].retx_count < MaxRetxThresh
  /\ res.queue \in Seq(RetxSet) /\ Len(res.queue) <= am_window_size
  /\ \A n \in 1..Len(res.queue) : Exists(res.window, res.queue[n])
  /\ res.failure \in BOOLEAN
  /\ trusted => /\ res.failure = failure
                /\ \A n \in 1..Len(res.queue) : WasSent(res.window, res.queue[n])

(* What handle_status_pdu does with a report that it applies, in short.     *)
LEMMA StatusIs ==
  ASSUME TxInv, NEW status, WellFormed(status), NEW acked, NEW w, Rewound(w, acked),
         NEW next_ack, NEW trusted \in BOOLEAN,
         trusted => \A n \in 1..Len(status.nacks) : NackPieces(w, status.nacks[n])
  PROVE  /\ StatusApplied(HandleNacks([window |-> w, queue |-> <<>>, sn |-> NoSn,
                                       failure |-> failure], status, next_ack),
                          w, acked, trusted)
         /\ trusted /\ ReportAsks(status, next_ack)
              => HandleNacks([window |-> w, queue |-> <<>>, sn |-> NoSn,
                              failure |-> failure], status, next_ack).queue # <<>>
<1> DEFINE acc == [window |-> w, queue |-> <<>>, sn |-> NoSn, failure |-> failure]
           res == HandleNacks(acc, status, next_ack)
<1>1. /\ DOMAIN w = DOMAIN tx_window \ acked /\ w \in [DOMAIN w -> InfoSet]
      /\ \A sn \in DOMAIN w :
           /\ w[sn].sdu = tx_window[sn].sdu /\ w[sn].next_so = tx_window[sn].next_so
           /\ -1 <= w[sn].retx_count /\ w[sn].retx_count < MaxRetxThresh
  BY DEF Rewound
<1>2. DOMAIN w \subseteq SN /\ failure \in BOOLEAN
  BY <1>1 DEF TxInv, TxTypes
<1>3. SegmentOk(w)
  BY <1>1 DEF TxInv, SegInv, SegmentOk
<1>4. status \in ReportSet
  BY DEF WellFormed
<1>5. PICK base \in SN : Sorted(base, status.nacks)
  BY DEF WellFormed
<1> HIDE DEF acc
<1>6. acc = [window |-> w, queue |-> <<>>, sn |-> NoSn, failure |-> failure]
  BY DEF acc
<1>7. /\ \E upto \in Nat : AccOk(HandleNacks(acc, status, next_ack), w, base, upto, trusted)
      /\ trusted /\ ReportAsks(status, next_ack)
           => HandleNacks(acc, status, next_ack).queue # <<>>
  BY <1>1, <1>2, <1>3, <1>4, <1>5, <1>6, HandleNacksKeeps
<1>8. PICK upto \in Nat : AccOk(res, w, base, upto, trusted)
  BY <1>7
<1> HIDE DEF res
<1>9. /\ res.window \in [DOMAIN w -> InfoSet] /\ res.queue \in Seq(RetxSet)
      /\ res.failure \in BOOLEAN /\ Len(res.queue) <= am_window_size
  BY <1>8 DEF AccOk, AccSet
<1>10. DOMAIN res.window = DOMAIN w
  BY <1>9
<1>11. ASSUME NEW sn \in DOMAIN w
       PROVE  /\ res.window[sn].sdu = w[sn].sdu /\ res.window[sn].next_so = w[sn].next_so
              /\ -1 <= res.window[sn].retx_count /\ res.window[sn].retx_count <= MaxRetxThresh
  <2>1. /\ res.window[sn].sdu = w[sn].sdu /\ res.window[sn].next_so = w[sn].next_so
        /\ res.window[sn].retx_count \in {w[sn].retx_count, w[sn].retx_count + 1}
    BY <1>8 DEF AccOk, CountedOnce
  <2> DEFINE c == w[sn].retx_count
             e == res.window[sn].retx_count
  <2>2. c \in Int /\ MaxRetxThresh \in Nat /\ -1 <= c /\ c < MaxRetxThresh /\ e \in {c, c + 1}
    BY <1>1, <2>1, TxAssumption DEF InfoSet
  <2> HIDE DEF c, e
  <2>3. -1 <= e /\ e <= MaxRetxThresh
    BY <2>2
  <2>4. QED
    BY <2>1, <2>3 DEF e
<1>12. ASSUME NEW n \in 1..Len(res.queue)
       PROVE  Exists(res.window, res.queue[n]) /\ (trusted => WasSent(res.window, res.queue[n]))
  <2>1. Exists(w, res.queue[n]) /\ (trusted => WasSent(w, res.queue[n]))
    BY <1>8 DEF AccOk
  <2>2. QED
    BY <1>10, <1>11, <2>1 DEF Exists, WasSent, SentOf
<1>13. trusted => res.failure = failure
  BY <1>8 DEF AccOk
<1>14. \A sn \in DOMAIN res.window :
         /\ res.window[sn].sdu = tx_window[sn].sdu
         /\ res.window[sn].next_so = tx_window[sn].next_so
         /\ -1 <= res.window[sn].retx_count /\ res.window[sn].retx_count <= MaxRetxThresh
         /\ w[sn].retx_count < MaxRetxThresh
  BY <1>1, <1>10, <1>11
<1>15. DOMAIN res.window = DOMAIN tx_window \ acked /\ res.window \in [DOMAIN res.window -> InfoSet]
  BY <1>1, <1>9, <1>10
<1>16. /\ \A n \in 1..Len(res.queue) : Exists(res.window, res.queue[n])
       /\ trusted => \A n \in 1..Len(res.queue) : WasSent(res.window, res.queue[n])
  BY <1>12
<1>17. StatusApplied(res, w, acked, trusted)
  BY <1>9, <1>13, <1>14, <1>15, <1>16 DEF StatusApplied
<1>18. trusted /\ ReportAsks(status, next_ack) => res.queue # <<>>
  BY <1>7 DEF res
<1>19. QED
  BY <1>17, <1>18 DEF res, acc

(* handle_status_pdu.                                                      *)
Refused(status) ==
  \/ ~ValidAckSn(status.ack)
  \/ TxMod(status.ack) > TxMod(tx_next + 1)
  \/ \E n \in 1..Len(status.nacks) : ~ValidNack(status.ack, status.nacks[n])

(* handle_status_pdu keeps the types.                                       *)
LEMMA HandleStatusTypes ==
  ASSUME TxInv, ~released, NEW status, status_air # <<>>, status = Head(status_air),
         WellFormed(status), HandleStatusPdu
  PROVE  TxInv'
<1>0. UNCHANGED <<sdu_queue, tx_next, sn_under_segmentation, poll_sn>>
  BY DEF HandleStatusPdu
<1>1. CASE Refused(status)
  <2>1. /\ failure' = (failure \/ /\ ValidAckSn(status.ack)
                                  /\ TxMod(status.ack) > TxMod(tx_next + 1))
        /\ UNCHANGED <<upper, tx_next_ack, tx_window, retx_queue, retx_sn, released>>
    BY <1>1 DEF HandleStatusPdu, Refused
  <2>2. failure' \in BOOLEAN
    BY <2>1
  <2>3. TxTypes'
    BY <1>0, <2>1, <2>2 DEF TxInv, TxTypes
  <2>4. SegInv' /\ RetxTypes' /\ CountInv'
    BY <1>0, <2>1 DEF TxInv, SegInv, SegmentOk, RetxTypes, CountInv
  <2>5. QED
    BY <2>3, <2>4 DEF TxInv
<1>2. CASE ~Refused(status)
  <2> DEFINE acked    == Confirmed(status)
             next_ack == (tx_next_ack + Cardinality(acked)) % Mod
             w        == RewindRetx(Restrict(tx_window, DOMAIN tx_window \ acked))
             res      == HandleNacks([window |-> w, queue |-> <<>>, sn |-> NoSn,
                                      failure |-> failure], status, next_ack)
  <2>1. /\ upper' = [i \in Sdus |-> IF \E sn \in acked : tx_window[sn].sdu = i THEN "confirmed"
                                    ELSE upper[i]]
        /\ tx_next_ack' = next_ack
        /\ tx_window' = res.window /\ retx_queue' = res.queue /\ retx_sn' = NoSn
        /\ failure' = res.failure
        /\ released' = \E sn \in DOMAIN res.window :
                         /\ res.window[sn].retx_count = MaxRetxThresh
                         /\ w[sn].retx_count < MaxRetxThresh
    BY <1>2 DEF HandleStatusPdu, Refused
  <2>2. acked \subseteq DOMAIN tx_window
    BY DEF Confirmed
  <2> HIDE DEF acked
  <2>3. next_ack \in SN
    <3>1. DOMAIN tx_window \subseteq 0..(Mod - 1) /\ tx_next_ack \in Int /\ Mod \in Nat \ {0}
      BY WindowSize DEF TxInv, TxTypes, SN
    <3>2. IsFiniteSet(0..(Mod - 1))
      BY <3>1, FS_Interval
    <3>3. IsFiniteSet(acked)
      BY <2>2, <3>1, <3>2, FS_Subset
    <3>4. Cardinality(acked) \in Nat
      BY <3>3, FS_CardinalityType
    <3>5. \A x \in Int : x % Mod \in 0..(Mod - 1)
      BY <3>1
    <3> DEFINE c == Cardinality(acked)
    <3> HIDE DEF c
    <3>6. tx_next_ack + c \in Int
      BY <3>1, <3>4 DEF c
    <3>7. (tx_next_ack + c) % Mod \in 0..(Mod - 1)
      BY <3>5, <3>6
    <3>8. QED
      BY <3>7 DEF SN, c
  <2>4. /\ DOMAIN res.window = DOMAIN tx_window \ acked
        /\ res.window \in [DOMAIN res.window -> InfoSet]
        /\ \A sn \in DOMAIN res.window :
             /\ res.window[sn].sdu = tx_window[sn].sdu
             /\ res.window[sn].next_so = tx_window[sn].next_so
             /\ -1 <= res.window[sn].retx_count /\ res.window[sn].retx_count <= MaxRetxThresh
             /\ w[sn].retx_count < MaxRetxThresh
        /\ res.queue \in Seq(RetxSet) /\ Len(res.queue) <= am_window_size
        /\ \A n \in 1..Len(res.queue) : Exists(res.window, res.queue[n])
        /\ res.failure \in BOOLEAN
    <3>1. Rewound(w, acked)
      BY RewindIs
    <3> HIDE DEF next_ack, w
    <3>2. StatusApplied(res, w, acked, FALSE)
      BY <3>1, StatusIs
    <3> HIDE DEF res
    <3>3. QED
      BY <3>2 DEF StatusApplied
  <2> HIDE DEF next_ack, res, w
  <2>5. upper' \in [Sdus -> UpperStates]
    BY <2>1 DEF TxInv, TxTypes, UpperStates
  <2>6. TxTypes'
    <3>1. DOMAIN tx_window \subseteq SN
      BY DEF TxInv, TxTypes
    <3>2. tx_window' \in [DOMAIN tx_window' -> InfoSet] /\ DOMAIN tx_window' \subseteq SN
      BY <2>1, <2>4, <3>1
    <3>3. QED
      BY <1>0, <2>1, <2>3, <2>4, <2>5, <3>2 DEF TxInv, TxTypes
  <2>7. SegInv'
    <3>1. SegInv
      BY DEF TxInv
    <3>2. sn_under_segmentation' \in DOMAIN tx_window' => sn_under_segmentation \in DOMAIN tx_window
      BY <1>0, <2>1, <2>4
    <3>3. QED
      BY <1>0, <2>1, <2>4, <3>1, <3>2 DEF SegInv, SegmentOk
  <2>8. RetxTypes'
    BY <2>1, <2>4 DEF RetxTypes
  <2>9. CountInv'
    <3>1. ASSUME NEW sn \in DOMAIN res.window
          PROVE  /\ -1 <= res.window[sn].retx_count
                 /\ IF released' THEN res.window[sn].retx_count <= MaxRetxThresh
                    ELSE res.window[sn].retx_count < MaxRetxThresh
      <4>1. res.window[sn].retx_count \in Int /\ MaxRetxThresh \in Nat
        BY <2>4, TxAssumption DEF InfoSet
      <4>2. ~released' => res.window[sn].retx_count # MaxRetxThresh
        BY <2>1, <2>4
      <4>3. QED
        BY <2>4, <4>1, <4>2
    <3>2. QED
      BY <2>1, <3>1 DEF CountInv
  <2>10. QED
    BY <2>6, <2>7, <2>8, <2>9 DEF TxInv
<1>3. QED
  BY <1>1, <1>2

(* on_expired_poll_retransmit_timer.                                       *)
LEMMA PollTimerTypes ==
  ASSUME TxInv, ~released, OnExpiredPollRetransmitTimer
  PROVE  TxInv' /\ UNCHANGED data_air
<1> DEFINE sn == tx_next_ack
           retx == [sn |-> sn, so |-> 0, len |-> SduLen[tx_window[sn].sdu]]
<1>1. /\ UNCHANGED <<upper, sdu_queue, sn_under_segmentation, tx_next_ack, tx_next, poll_sn,
                     retx_sn, failure, data_air>>
      /\ \/ UNCHANGED <<retx_queue, tx_window, released>>
         \/ /\ sn \in DOMAIN tx_window /\ Len(retx_queue) < am_window_size
            /\ retx_queue' = Append(retx_queue, retx)
            /\ tx_window' = IncrementRetxCount(tx_window, sn)
            /\ released' = (tx_window'[sn].retx_count = MaxRetxThresh)
  BY DEF OnExpiredPollRetransmitTimer
<1>2. CASE UNCHANGED <<retx_queue, tx_window, released>>
  <2>1. TxTypes'
    BY <1>1, <1>2 DEF TxInv, TxTypes
  <2>2. SegInv' /\ RetxTypes' /\ CountInv'
    BY <1>1, <1>2 DEF TxInv, SegInv, SegmentOk, RetxTypes, CountInv
  <2>3. QED
    BY <1>1, <2>1, <2>2 DEF TxInv
<1>3. CASE /\ sn \in DOMAIN tx_window /\ Len(retx_queue) < am_window_size
           /\ retx_queue' = Append(retx_queue, retx)
           /\ tx_window' = IncrementRetxCount(tx_window, sn)
           /\ released' = (tx_window'[sn].retx_count = MaxRetxThresh)
  <2> DEFINE k == Len(retx_queue)
             D == DOMAIN tx_window
             Bumped == [tx_window[sn] EXCEPT !.retx_count = tx_window[sn].retx_count + 1]
  <2>1. tx_window \in [D -> InfoSet] /\ D \subseteq SN /\ sn \in SN
    BY DEF TxInv, TxTypes
  <2>2. tx_window' = [s \in D |-> IF s = sn THEN Bumped ELSE tx_window[s]]
    BY <1>3, <2>1 DEF IncrementRetxCount
  <2>3. /\ Bumped \in InfoSet /\ Bumped.sdu = tx_window[sn].sdu
        /\ Bumped.next_so = tx_window[sn].next_so
        /\ Bumped.retx_count = tx_window[sn].retx_count + 1
    <3> DEFINE i == tx_window[sn]
    <3>1. i \in InfoSet
      BY <1>3, <2>1
    <3> HIDE DEF i
    <3>2. /\ [i EXCEPT !.retx_count = i.retx_count + 1] \in InfoSet
          /\ [i EXCEPT !.retx_count = i.retx_count + 1].sdu = i.sdu
          /\ [i EXCEPT !.retx_count = i.retx_count + 1].next_so = i.next_so
          /\ [i EXCEPT !.retx_count = i.retx_count + 1].retx_count = i.retx_count + 1
      BY <3>1 DEF InfoSet
    <3>3. QED
      BY <3>2 DEF i
  <2> HIDE DEF Bumped
  <2>4. DOMAIN tx_window' = D /\ tx_window' \in [D -> InfoSet]
    BY <2>1, <2>2, <2>3
  <2>5. \A s \in D : /\ tx_window'[s].sdu = tx_window[s].sdu
                     /\ tx_window'[s].next_so = tx_window[s].next_so
                     /\ tx_window'[s].retx_count = IF s = sn THEN tx_window[s].retx_count + 1
                                                   ELSE tx_window[s].retx_count
    BY <2>2, <2>3
  <2> HIDE DEF D
  <2>6. TxTypes'
    BY <1>1, <2>1, <2>4 DEF TxInv, TxTypes
  <2>7. SegInv'
    BY <1>1, <2>4, <2>5 DEF TxInv, SegInv, SegmentOk, D
  <2>8. retx \in RetxSet /\ retx.sn = sn /\ retx.so + retx.len = SduLen[tx_window[sn].sdu]
    <3>1. tx_window[sn].sdu \in Sdus
      BY <1>3, <2>1 DEF InfoSet, D
    <3>2. SduLen[tx_window[sn].sdu] \in Nat \ {0}
      BY <3>1, EndOfSduIs
    <3>3. QED
      BY <2>1, <3>2 DEF RetxSet
  <2>9. Exists(tx_window', retx)
    <3>1. SduLen[tx_window[sn].sdu] \in Nat /\ sn \in D
      BY <1>3, <2>8 DEF RetxSet, D
    <3> HIDE DEF retx
    <3>2. QED
      BY <2>4, <2>5, <2>8, <3>1 DEF Exists
  <2> HIDE DEF retx
  <2>10. RetxTypes'
    <3> DEFINE q == Append(retx_queue, retx)
    <3>1. retx_queue \in Seq(RetxSet) /\ k \in Nat /\ \A n \in 1..k : Exists(tx_window, retx_queue[n])
      BY DEF TxInv, RetxTypes
    <3>2. q \in Seq(RetxSet) /\ Len(q) = k + 1 /\ q[k + 1] = retx /\ \A n \in 1..k : q[n] = retx_queue[n]
      BY <2>8, <3>1
    <3>3. \A n \in 1..k : Exists(tx_window', retx_queue[n])
      BY <2>4, <2>5, <3>1 DEF Exists, D
    <3> HIDE DEF q
    <3>4. ASSUME NEW n \in 1..Len(q) PROVE Exists(tx_window', q[n])
      <4>1. n = k + 1 \/ n \in 1..k
        BY <3>1, <3>2
      <4>2. QED
        BY <2>9, <3>2, <3>3, <4>1
    <3>5. Len(q) <= am_window_size
      BY <1>3, <3>1, <3>2, WindowSize
    <3>6. retx_queue' = q
      BY <1>3 DEF q
    <3>7. QED
      BY <3>2, <3>4, <3>5, <3>6 DEF RetxTypes
  <2>11. CountInv'
    <3>1. CountInv
      BY DEF TxInv
    <3>2. ASSUME NEW s \in D
          PROVE  /\ -1 <= tx_window'[s].retx_count
                 /\ IF released' THEN tx_window'[s].retx_count <= MaxRetxThresh
                    ELSE tx_window'[s].retx_count < MaxRetxThresh
      <4>1. tx_window[s].retx_count \in Int /\ MaxRetxThresh \in Nat
        BY <2>1, TxAssumption DEF InfoSet
      <4>2. -1 <= tx_window[s].retx_count /\ tx_window[s].retx_count < MaxRetxThresh
        BY <3>1 DEF CountInv, D
      <4>3. s = sn /\ ~released' => tx_window'[s].retx_count # MaxRetxThresh
        BY <1>3
      <4>4. QED
        BY <2>5, <4>1, <4>2, <4>3
    <3>3. QED
      BY <2>4, <3>2 DEF CountInv
  <2>12. QED
    BY <1>1, <2>6, <2>7, <2>10, <2>11 DEF TxInv
<1>4. QED
  BY <1>1, <1>2, <1>3

-----------------------------------------------------------------------------
(* The receiving side and the radio.                                       *)

(* What is held of an SN are bytes of SDUs.                                *)
EntryOk(info) ==
  /\ info.got \subseteq 0..(EndOfSdu - 1) /\ info.got # {}
  /\ info.sdus \subseteq Sdus /\ info.sdus # {}
  /\ info.last \in BOOLEAN

EntriesOk(window) == \A sn \in DOMAIN window : EntryOk(window[sn])

RxHeld == EntriesOk(rx_window) /\ delivered \in [Sdus -> Nat]

ReportTypes ==
  /\ WellFormed(status_cached) /\ WellFormed(status_shared)
  /\ status_air = <<>> \/ \E r : WellFormed(r) /\ status_air = <<r>>
  /\ status_prohibit \in {"off", "running", "stuck"} /\ trimmed \in BOOLEAN

(* A sequence without its first two elements.                              *)
LEMMA WithoutTwo ==
  ASSUME NEW S, NEW s \in Seq(S), Len(s) >= 2
  PROVE  /\ SubSeq(s, 3, Len(s)) \in Seq(S) /\ Len(SubSeq(s, 3, Len(s))) = Len(s) - 2
         /\ \A m \in 1..(Len(s) - 2) : SubSeq(s, 3, Len(s))[m] = s[m + 2]
<1> DEFINE k == Len(s)
           q == SubSeq(s, 3, k)
<1>1. k \in Int /\ k >= 2 /\ \A i \in 3..k : s[i] \in S
  OBVIOUS
<1> HIDE DEF k
<1>2. /\ q \in Seq(S) /\ Len(q) = IF 3 <= k THEN k - 3 + 1 ELSE 0
      /\ \A i \in 1..(k - 3 + 1) : q[i] = s[3 + i - 1]
  BY <1>1, SubSeqProperties
<1> HIDE DEF q
<1>3. k - 3 + 1 = k - 2 /\ \A i \in 1..(k - 2) : 3 + i - 1 = i + 2
  BY <1>1
<1>4. q \in Seq(S) /\ Len(q) = k - 2 /\ \A i \in 1..(k - 2) : q[i] = s[i + 2]
  BY <1>1, <1>2, <1>3
<1>5. QED
  BY <1>4 DEF q, k

(* A data PDU that arrives, out of turn or not, leaves the others alone.   *)
LEMMA ArrivesKeeps ==
  ASSUME AirInv, NEW n, Arrives(n)
  PROVE  AirInv'
<1> DEFINE k == Len(data_air)
<1>1. data_air \in Seq(PduSet) /\ k \in Nat /\ \A m \in 1..k : data_air[m] \in PduSet /\ PduOk(data_air[m])
  BY DEF AirInv
<1>2. CASE n = 1
  <2>1. k >= 1 /\ data_air # <<>> /\ data_air' = Tail(data_air)
    BY <1>1, <1>2 DEF Arrives
  <2>2. /\ Tail(data_air) \in Seq(PduSet) /\ Len(Tail(data_air)) = k - 1
        /\ \A m \in 1..(k - 1) : Tail(data_air)[m] = data_air[m + 1]
    BY <1>1, <2>1
  <2>3. \A m \in 1..(k - 1) : m + 1 \in 1..k
    BY <1>1
  <2>4. \A m \in 1..(k - 1) : PduOk(Tail(data_air)[m])
    BY <1>1, <2>2, <2>3
  <2>5. QED
    BY <2>1, <2>2, <2>4 DEF AirInv
<1>3. CASE n = 2
  <2> DEFINE x == [data_air[1] EXCEPT !.late = TRUE]
             q == SubSeq(data_air, 3, k)
             s == <<x>> \o q
  <2>1. k >= 2 /\ data_air' = s
    BY <1>1, <1>3 DEF Arrives
  <2>2. 1 \in 1..k
    BY <1>1, <2>1
  <2>3. x \in PduSet /\ PduOk(x)
    <3>1. data_air[1] \in PduSet /\ PduOk(data_air[1])
      BY <1>1, <2>2
    <3>2. ASSUME NEW p \in PduSet, PduOk(p)
          PROVE  [p EXCEPT !.late = TRUE] \in PduSet /\ PduOk([p EXCEPT !.late = TRUE])
      BY <3>2 DEF PduSet, PduOk
    <3>3. QED
      BY <3>1, <3>2
  <2>4. q \in Seq(PduSet) /\ Len(q) = k - 2 /\ \A m \in 1..(k - 2) : q[m] = data_air[m + 2]
    BY <1>1, <2>1, WithoutTwo
  <2>5. \A m \in 1..(k - 2) : PduOk(q[m])
    <3>1. \A m \in 1..(k - 2) : m + 2 \in 1..k
      BY <1>1, <2>1
    <3>2. QED
      BY <1>1, <2>4, <3>1
  <2> HIDE DEF x, q
  <2>6. /\ s \in Seq(PduSet) /\ Len(s) = k - 1 /\ s[1] = x
        /\ \A m \in 2..(k - 1) : s[m] = q[m - 1]
    BY <1>1, <2>1, <2>3, <2>4
  <2> HIDE DEF s
  <2>7. ASSUME NEW m \in 1..(k - 1) PROVE PduOk(s[m])
    <3>1. m = 1 \/ (m \in 2..(k - 1) /\ m - 1 \in 1..(k - 2))
      BY <1>1, <2>1
    <3>2. QED
      BY <2>3, <2>5, <2>6, <3>1
  <2>8. QED
    BY <2>1, <2>6, <2>7 DEF AirInv
<1>4. n = 1 \/ n = 2
  BY DEF Arrives
<1>5. QED
  BY <1>2, <1>3, <1>4

(* A PDU is added to what is held of its SN.                               *)
LEMMA StoredIsOk ==
  ASSUME EntriesOk(rx_window), NEW pdu \in PduSet, PduOk(pdu)
  PROVE  EntryOk(StoreSdu(Stored(pdu.sn), pdu))
<1> DEFINE old == Stored(pdu.sn)
           bytes == pdu.so..(pdu.so + pdu.len - 1)
           info == StoreSdu(old, pdu)
<1>1. pdu.so \in Nat /\ pdu.len \in Nat \ {0} /\ pdu.sdu \in Sdus /\ pdu.last \in BOOLEAN
  BY DEF PduSet
<1>2. SduLen[pdu.sdu] \in Nat /\ SduLen[pdu.sdu] < EndOfSdu /\ EndOfSdu \in Nat
  BY <1>1, EndOfSduIs
<1>3. pdu.so + pdu.len <= SduLen[pdu.sdu]
  BY DEF PduOk
<1>4. bytes \subseteq 0..(EndOfSdu - 1) /\ pdu.so \in bytes
  BY <1>1, <1>2, <1>3
<1>5. /\ old.got \subseteq 0..(EndOfSdu - 1) /\ old.sdus \subseteq Sdus /\ old.last \in BOOLEAN
      /\ old.got # {} => EntryOk(old)
  BY DEF Stored, EntriesOk, EntryOk
<1>6. info = IF pdu.so = 0 /\ pdu.last
             THEN [got |-> 0..(pdu.len - 1), last |-> TRUE, sdus |-> {pdu.sdu}]
             ELSE IF bytes \subseteq old.got THEN old
             ELSE [got |-> old.got \cup bytes, last |-> old.last \/ pdu.last,
                   sdus |-> old.sdus \cup {pdu.sdu}]
  BY DEF StoreSdu
<1> HIDE DEF old, info
<1>7. CASE pdu.so = 0 /\ pdu.last
  <2>1. info = [got |-> 0..(pdu.len - 1), last |-> TRUE, sdus |-> {pdu.sdu}]
    BY <1>6, <1>7
  <2>2. 0..(pdu.len - 1) = bytes
    BY <1>1, <1>7
  <2> HIDE DEF bytes
  <2>3. QED
    BY <1>1, <1>4, <2>1, <2>2 DEF EntryOk, info, old
<1>8. CASE ~(pdu.so = 0 /\ pdu.last)
  <2>1. bytes \subseteq old.got => old.got # {}
    BY <1>4
  <2> HIDE DEF bytes
  <2>2. EntryOk(info)
    BY <1>1, <1>4, <1>5, <1>6, <1>8, <2>1 DEF EntryOk
  <2>3. QED
    BY <2>2 DEF info, old
<1>9. QED
  BY <1>7, <1>8

(* What handle_data_pdu stores is of an SDU.                                *)
LEMMA PlaceHeld ==
  ASSUME RxHeld, NEW pdu \in PduSet, PduOk(pdu), PlacePdu(pdu)
  PROVE  RxHeld'
<1> DEFINE info     == StoreSdu(Stored(pdu.sn), pdu)
           window   == WithEntry(rx_window, pdu.sn, info)
           i        == CHOOSE i \in info.sdus : TRUE
<1>1. EntryOk(info)
  BY StoredIsOk DEF RxHeld
<1>2. PICK kept \in SUBSET DOMAIN window :
        /\ rx_window' = Restrict(window, kept)
        /\ delivered' = delivered \/ delivered' = [delivered EXCEPT ![i] = @ + 1]
  BY DEF PlacePdu
<1> HIDE DEF info
<1>3. EntriesOk(window)
  BY <1>1 DEF RxHeld, EntriesOk, WithEntry
<1>4. i \in Sdus
  BY <1>1 DEF EntryOk
<1> HIDE DEF window, i
<1>5. EntriesOk(rx_window')
  BY <1>2, <1>3 DEF EntriesOk, Restrict
<1>6. delivered' \in [Sdus -> Nat]
  BY <1>2, <1>4 DEF RxHeld
<1>7. QED
  BY <1>5, <1>6 DEF RxHeld

(* Every entry of the receiver's window stays one.                          *)
LEMMA EntriesHold ==
  ASSUME NEW window, EntriesOk(window)
  PROVE  Holds(window)
  BY DEF EntriesOk, EntryOk, Holds

(* The report of a window that is in order.                                *)
LEMMA RefreshedIs ==
  ASSUME RxInv, EntriesOk(rx_window), NEW r,
         r = StatusReport(rx_window, rx_next, rx_highest_status)
  PROVE  ReportOf(rx_window, rx_next, r) /\ Ahead(r.ack, rx_next) <= Ahead(rx_highest_status, rx_next)
<1>1. rx_next \in SN /\ rx_highest_status \in SN /\ rx_next_highest \in SN
  BY DEF RxInv, RxTypes
<1>2. /\ Ahead(rx_highest_status, rx_next) <= Ahead(rx_next_highest, rx_next)
      /\ Ahead(rx_next_highest, rx_next) <= am_window_size
      /\ ~Received(rx_window, rx_next)
  BY Ordered DEF RxInv
<1>3. Ahead(rx_highest_status, rx_next) <= am_window_size
  <2>1. /\ Ahead(rx_highest_status, rx_next) \in Nat /\ Ahead(rx_next_highest, rx_next) \in Nat
        /\ am_window_size \in Nat
    BY <1>1, AheadNat, WindowSize
  <2>2. QED
    BY <1>2, <2>1
<1>4. Holds(rx_window)
  BY EntriesHold
<1>5. QED
  BY <1>1, <1>2, <1>3, <1>4, StatusReportIs

(* A refreshed report is one.                                               *)
LEMMA RefreshedIsWellFormed ==
  ASSUME NEW window, EntriesOk(window), NEW next \in SN, NEW hs \in SN, NEW nh \in SN,
         Ahead(hs, next) <= Ahead(nh, next), Ahead(nh, next) <= am_window_size,
         ~Received(window, next)
  PROVE  WellFormed(StatusReport(window, next, hs))
<1> DEFINE r == StatusReport(window, next, hs)
<1>1. /\ Ahead(hs, next) \in Nat /\ Ahead(nh, next) \in Nat /\ am_window_size \in Nat
  BY AheadNat, WindowSize
<1>2. Ahead(hs, next) <= am_window_size /\ Holds(window)
  BY <1>1, EntriesHold
<1>3. ReportOf(window, next, r) /\ Ahead(r.ack, next) <= Ahead(hs, next)
  BY <1>2, StatusReportIs
<1> HIDE DEF r
<1>4. r.ack \in SN
  BY <1>3 DEF ReportOf, ReportSet
<1>5. Ahead(r.ack, next) \in Nat
  BY <1>4, AheadNat
<1>6. Ahead(r.ack, next) <= am_window_size
  BY <1>1, <1>2, <1>3, <1>5
<1>7. WellFormed(r)
  BY <1>3, <1>6, ReportIsWellFormed
<1>8. QED
  BY <1>7 DEF r

(* The inductive invariant behind TypeOK.                                  *)
TypeInv == TxInv /\ AirInv /\ RxInv /\ RxHeld /\ ReportTypes

(* The inductive invariant implies the type invariant.                      *)
LEMMA TypeInvIsTypeOK ==
  ASSUME TypeInv
  PROVE  TypeOK
<1>1. AirTyped
  <2>1. \A n \in 1..Len(data_air) : data_air[n] \in PduSet
    BY DEF TypeInv, AirInv
  <2>2. QED
    BY <2>1 DEF AirTyped, PduSet
<1>2. \A sn \in DOMAIN tx_window :
        tx_window[sn] \in [sdu : Sdus, next_so : Nat, retx_count : -1..MaxRetxThresh]
  <2>1. SUFFICES ASSUME NEW sn \in DOMAIN tx_window
                 PROVE  tx_window[sn] \in [sdu : Sdus, next_so : Nat, retx_count : -1..MaxRetxThresh]
    OBVIOUS
  <2>2. tx_window[sn] \in InfoSet
    BY DEF TypeInv, TxInv, TxTypes
  <2>3. -1 <= tx_window[sn].retx_count /\ tx_window[sn].retx_count <= MaxRetxThresh
    <3>1. /\ -1 <= tx_window[sn].retx_count
          /\ IF released THEN tx_window[sn].retx_count <= MaxRetxThresh
             ELSE tx_window[sn].retx_count < MaxRetxThresh
      BY DEF TypeInv, TxInv, CountInv
    <3>2. tx_window[sn].retx_count \in Int /\ MaxRetxThresh \in Int
      BY <2>2, TxAssumption DEF InfoSet
    <3>3. QED
      BY <3>1, <3>2
  <2>4. MaxRetxThresh \in Int
    BY TxAssumption
  <2>5. QED
    BY <2>2, <2>3, <2>4 DEF InfoSet
<1>3. /\ upper \in [Sdus -> {"new", "accepted", "dropped", "discarded", "confirmed"}]
      /\ sdu_queue \in Seq(Sdus) /\ Len(sdu_queue) <= QueueSize
      /\ {tx_next_ack, tx_next, poll_sn} \subseteq SN /\ DOMAIN tx_window \subseteq SN
      /\ sn_under_segmentation \in SN \cup {NoSn} /\ retx_sn \in SN \cup {NoSn}
  BY DEF TypeInv, TxInv, TxTypes, UpperStates
<1>4. retx_queue \in Seq([sn : SN, so : Nat, len : Nat \ {0}]) /\ Len(retx_queue) <= am_window_size
  BY DEF TypeInv, TxInv, RetxTypes, RetxSet
<1>5. /\ {rx_next, rx_next_status_trigger, rx_highest_status, rx_next_highest} \subseteq SN
      /\ DOMAIN rx_window \subseteq SN
  BY DEF TypeInv, RxInv, RxTypes
<1>6. /\ status_prohibit \in {"off", "running", "stuck"} /\ trimmed \in BOOLEAN
      /\ {status_cached.ack, status_shared.ack} \subseteq SN
  BY DEF TypeInv, ReportTypes, WellFormed, ReportSet
<1>7. delivered \in [Sdus -> Nat]
  BY DEF TypeInv, RxHeld
<1>8. QED
  BY <1>1, <1>2, <1>3, <1>4, <1>5, <1>6, <1>7 DEF TypeOK

(* The types hold initially.                                                *)
LEMMA TypesInitially ==
  ASSUME Init
  PROVE  TypeInv
<1>1. Start \in SN /\ Start - 1 \in Int /\ 0 \in SN /\ Mod - 1 \in SN /\ (Start # 0 => Start - 1 \in SN)
  BY StatusAssumption DEF SN
<1>2. TxInv
  <2>1. /\ upper = [i \in Sdus |-> "new"] /\ sdu_queue = <<>>
        /\ tx_next_ack = Start /\ tx_next = Start /\ poll_sn = (IF Start = 0 THEN 0 ELSE Start - 1)
        /\ tx_window = <<>> /\ sn_under_segmentation = NoSn /\ retx_queue = <<>> /\ retx_sn = NoSn
        /\ failure = FALSE
    BY DEF Init, TxInit
  <2>2. DOMAIN tx_window = {} /\ tx_window \in [{} -> InfoSet]
    BY <2>1
  <2>3. TxTypes
    <3>1. QueueSize \in Nat /\ Len(sdu_queue) = 0 /\ sdu_queue \in Seq(Sdus)
      BY <2>1, TxAssumption
    <3>2. upper \in [Sdus -> UpperStates]
      BY <2>1 DEF UpperStates
    <3>3. tx_next_ack \in SN /\ tx_next \in SN /\ poll_sn \in SN
      BY <1>1, <2>1
    <3>4. Len(sdu_queue) <= QueueSize
      BY <3>1
    <3>5. tx_window \in [DOMAIN tx_window -> InfoSet] /\ DOMAIN tx_window \subseteq SN
      BY <2>2
    <3>6. QED
      BY <2>1, <3>1, <3>2, <3>3, <3>4, <3>5 DEF TxTypes
  <2>4. SegInv /\ CountInv
    BY <2>2 DEF SegInv, SegmentOk, CountInv
  <2>5. RetxTypes
    <3>1. retx_queue \in Seq(RetxSet) /\ Len(retx_queue) = 0
      BY <2>1
    <3>2. QED
      BY <3>1, WindowSize DEF RetxTypes
  <2>6. QED
    BY <2>3, <2>4, <2>5 DEF TxInv
<1>3. AirInv
  <2>1. data_air \in Seq(PduSet) /\ Len(data_air) = 0
    BY DEF Init
  <2>2. QED
    BY <2>1 DEF AirInv
<1>4. RxInv
  BY RxInitially
<1>5. RxHeld
  <2>1. rx_window = <<>> /\ delivered = [i \in Sdus |-> 0]
    BY DEF Init, RxInit
  <2>2. DOMAIN rx_window = {} /\ delivered \in [Sdus -> Nat]
    BY <2>1
  <2>3. QED
    BY <2>2 DEF RxHeld, EntriesOk
<1>6. ReportTypes
  <2>1. ASSUME NEW ack \in SN PROVE WellFormed([ack |-> ack, nacks |-> <<>>])
    <3> DEFINE r == [ack |-> ack, nacks |-> <<>>]
    <3>1. r.nacks = <<>> /\ Len(r.nacks) = 0 /\ r.nacks \in Seq(NackSet) /\ r \in ReportSet
      BY DEF ReportSet
    <3> HIDE DEF r
    <3>2. Sorted(0, r.nacks)
      BY <3>1 DEF Sorted, InOrder
    <3>3. WellFormed(r)
      BY <1>1, <3>1, <3>2 DEF WellFormed
    <3>4. QED
      BY <3>3 DEF r
  <2>2. /\ status_cached = [ack |-> IF Start = 0 THEN 0 ELSE Start - 1, nacks |-> <<>>]
        /\ status_shared = [ack |-> IF Start = 0 THEN Mod - 1 ELSE Start, nacks |-> <<>>]
        /\ status_air = <<>> /\ status_prohibit = "off" /\ trimmed = FALSE
    BY DEF Init, RxInit
  <2>3. WellFormed(status_cached)
    <3>1. (IF Start = 0 THEN 0 ELSE Start - 1) \in SN
      BY <1>1
    <3>2. QED
      BY <2>1, <2>2, <3>1
  <2>4. WellFormed(status_shared)
    <3>1. (IF Start = 0 THEN Mod - 1 ELSE Start) \in SN
      BY <1>1
    <3>2. QED
      BY <2>1, <2>2, <3>1
  <2>5. QED
    BY <2>2, <2>3, <2>4 DEF ReportTypes
<1>7. QED
  BY <1>2, <1>3, <1>4, <1>5, <1>6 DEF TypeInv

(* The sender's steps.                                                     *)
SenderStep ==
  \/ \E i \in Sdus : HandleSdu(i) \/ DiscardSdu(i)
  \/ \E grant \in 0..MaxGrant : PullPdu(grant)
  \/ UpdateMacBufferState
  \/ HandleStatusPdu
  \/ OnExpiredPollRetransmitTimer

(* The steps of the sender keep the types.                                  *)
LEMMA SenderTypes ==
  ASSUME TypeInv, ~released, SenderStep
  PROVE  TxInv' /\ AirInv'
<1>1. TxInv /\ AirInv
  BY DEF TypeInv
<1>2. ASSUME NEW i \in Sdus, HandleSdu(i) \/ DiscardSdu(i)
      PROVE  TxInv' /\ AirInv'
  <2>1. UNCHANGED data_air
    BY <1>2 DEF HandleSdu, DiscardSdu
  <2>2. AirInv'
    BY <1>1, <2>1 DEF AirInv
  <2>3. QED
    BY <1>1, <1>2, <2>2, HandleSduTypes, DiscardSduTypes
<1>3. ASSUME NEW grant \in 0..MaxGrant, PullPdu(grant)
      PROVE  TxInv' /\ AirInv'
  <2>1. grant \in Nat
    BY LinkAssumption
  <2>2. \/ BuildNewPdu(grant) \/ EmptyPull(grant)
        \/ BuildContinuedSduSegment(grant) \/ BuildRetxPdu(grant)
    BY <1>3 DEF PullPdu
  <2>3. QED
    BY <1>1, <2>1, <2>2, BuildNewTypes, EmptyPullTypes, BuildContinuedTypes, BuildRetxTypes
<1>4. ASSUME UpdateMacBufferState
      PROVE  TxInv' /\ AirInv'
  <2>1. UNCHANGED <<upper, sdu_queue, tx_next_ack, tx_next, tx_window, sn_under_segmentation,
                    retx_queue, retx_sn, poll_sn, released, failure, data_air>>
    BY <1>4 DEF UpdateMacBufferState, poll_vars
  <2>2. TxTypes'
    BY <1>1, <2>1 DEF TxInv, TxTypes
  <2>3. SegInv' /\ RetxTypes' /\ CountInv' /\ AirInv'
    BY <1>1, <2>1 DEF TxInv, SegInv, SegmentOk, RetxTypes, CountInv, AirInv
  <2>4. QED
    BY <2>2, <2>3 DEF TxInv
<1>5. ASSUME HandleStatusPdu
      PROVE  TxInv' /\ AirInv'
  <2>1. status_air # <<>> /\ UNCHANGED data_air
    BY <1>5 DEF HandleStatusPdu
  <2>2. PICK r : WellFormed(r) /\ status_air = <<r>>
    BY <2>1 DEF TypeInv, ReportTypes
  <2>3. r = Head(status_air)
    BY <2>2
  <2>4. TxInv'
    BY <1>1, <1>5, <2>1, <2>2, <2>3, HandleStatusTypes
  <2>5. QED
    BY <1>1, <2>1, <2>4 DEF AirInv
<1>6. ASSUME OnExpiredPollRetransmitTimer
      PROVE  TxInv' /\ AirInv'
  <2>1. TxInv' /\ UNCHANGED data_air
    BY <1>1, <1>6, PollTimerTypes
  <2>2. QED
    BY <1>1, <2>1 DEF AirInv
<1>7. QED
  BY <1>2, <1>3, <1>4, <1>5, <1>6 DEF SenderStep

(* The receiver's side of a sender's step.                                 *)
LEMMA SenderLeaves ==
  ASSUME TypeInv, SenderStep, UNCHANGED rx_vars
  PROVE  RxInv' /\ RxHeld' /\ ReportTypes'
<1>1. /\ UNCHANGED order_vars
      /\ UNCHANGED <<rx_window, delivered, status_cached, status_shared, status_prohibit, trimmed>>
  BY DEF rx_vars, order_vars, report_vars
<1>2. RxInv'
  BY <1>1, UnchangedKeeps DEF TypeInv
<1>3. RxHeld'
  BY <1>1 DEF TypeInv, RxHeld
<1>4. status_air' = status_air \/ (status_air # <<>> /\ status_air' = Tail(status_air))
  BY DEF SenderStep, HandleSdu, DiscardSdu, PullPdu, BuildNewPdu, EmptyPull, BuildContinuedSduSegment,
         BuildRetxPdu, UpdateMacBufferState, HandleStatusPdu, OnExpiredPollRetransmitTimer
<1>5. status_air' = <<>> \/ \E r : WellFormed(r) /\ status_air' = <<r>>
  <2>1. ASSUME NEW r PROVE Tail(<<r>>) = <<>>
    OBVIOUS
  <2>2. QED
    BY <1>4, <2>1 DEF TypeInv, ReportTypes
<1>6. ReportTypes'
  BY <1>1, <1>5 DEF TypeInv, ReportTypes
<1>7. QED
  BY <1>2, <1>3, <1>6

(* The receiver's steps.                                                   *)
ReceiverStep ==
  \/ HandleDataPdu
  \/ OnExpiredReassemblyTimer
  \/ UpdateOwnBufferState
  \/ OtherDirection
  \/ GetStatusPdu
  \/ \E fit \in 0..MaxFit : SendStatusPdu(fit)
  \/ OnExpiredStatusProhibitTimer

(* The steps of the receiver keep the types.                                *)
LEMMA ReceiverTypes ==
  ASSUME TypeInv, ReceiverStep, RxInv'
  PROVE  AirInv' /\ RxHeld' /\ ReportTypes'
<1>1. /\ AirInv /\ RxHeld
      /\ WellFormed(status_cached) /\ WellFormed(status_shared)
      /\ status_air = <<>> \/ \E r : WellFormed(r) /\ status_air = <<r>>
      /\ status_prohibit \in {"off", "running", "stuck"} /\ trimmed \in BOOLEAN
  BY DEF TypeInv, ReportTypes
<1>2. ASSUME RefreshStatusReport, RxHeld'
      PROVE  WellFormed(status_cached')
  <2>1. EntriesOk(rx_window')
    BY <1>2 DEF RxHeld
  <2>2. rx_next' \in SN /\ rx_highest_status' \in SN /\ rx_next_highest' \in SN
    BY DEF RxInv, RxTypes
  <2>3. /\ Ahead(rx_highest_status', rx_next') <= Ahead(rx_next_highest', rx_next')
        /\ Ahead(rx_next_highest', rx_next') <= am_window_size
        /\ ~Received(rx_window', rx_next')
    BY DEF RxInv, RxStateOrdered
  <2>4. WellFormed(StatusReport(rx_window', rx_next', rx_highest_status'))
    BY <2>1, <2>2, <2>3, RefreshedIsWellFormed
  <2>5. QED
    BY <1>2, <2>4 DEF RefreshStatusReport
<1>3. CASE HandleDataPdu
  <2>1. PICK n \in 1..Len(data_air) :
          /\ Arrives(n)
          /\ IF Discarded(data_air[n])
             THEN UNCHANGED <<rx_window, status_cached, delivered>>
             ELSE PlacePdu(data_air[n])
          /\ UNCHANGED <<status_prohibit, status_shared, trimmed, status_air>>
    BY <1>3 DEF HandleDataPdu
  <2>2. AirInv'
    BY <1>1, <2>1, ArrivesKeeps
  <2>3. data_air[n] \in PduSet /\ PduOk(data_air[n])
    BY <1>1, <2>1 DEF AirInv
  <2>4. CASE Discarded(data_air[n])
    <3>1. UNCHANGED <<rx_window, status_cached, delivered>>
      BY <2>1, <2>4
    <3>2. RxHeld'
      BY <1>1, <3>1 DEF RxHeld
    <3>3. ReportTypes'
      BY <1>1, <2>1, <3>1 DEF ReportTypes
    <3>4. QED
      BY <2>2, <3>2, <3>3
  <2>5. CASE ~Discarded(data_air[n])
    <3>1. PlacePdu(data_air[n])
      BY <2>1, <2>5
    <3>2. RxHeld'
      BY <1>1, <2>3, <3>1, PlaceHeld
    <3>3. RefreshStatusReport \/ UNCHANGED status_cached
      BY <3>1 DEF PlacePdu
    <3>4. WellFormed(status_cached')
      BY <1>1, <1>2, <3>2, <3>3
    <3>5. ReportTypes'
      BY <1>1, <2>1, <3>4 DEF ReportTypes
    <3>6. QED
      BY <2>2, <3>2, <3>5
  <2>6. QED
    BY <2>4, <2>5
<1>4. CASE OnExpiredReassemblyTimer
  <2>1. /\ UNCHANGED <<rx_window, delivered, status_prohibit, status_shared, trimmed, data_air,
                       status_air>>
        /\ RefreshStatusReport \/ UNCHANGED status_cached
    BY <1>4 DEF OnExpiredReassemblyTimer
  <2>2. RxHeld' /\ AirInv'
    BY <1>1, <2>1 DEF RxHeld, AirInv
  <2>3. WellFormed(status_cached')
    BY <1>1, <1>2, <2>1, <2>2
  <2>4. QED
    BY <1>1, <2>1, <2>2, <2>3 DEF ReportTypes
<1>5. CASE GetStatusPdu
  <2>1. /\ UNCHANGED <<rx_window, delivered, status_cached, status_shared, trimmed, data_air,
                       status_air>>
        /\ status_prohibit' \in {"running", "stuck"}
    BY <1>5 DEF GetStatusPdu, report_vars, rx_data_vars
  <2>2. RxHeld' /\ AirInv'
    BY <1>1, <2>1 DEF RxHeld, AirInv
  <2>3. QED
    BY <1>1, <2>1, <2>2 DEF ReportTypes
<1>6. ASSUME NEW fit \in 0..MaxFit, SendStatusPdu(fit)
      PROVE  AirInv' /\ RxHeld' /\ ReportTypes'
  <2>1. /\ UNCHANGED <<rx_window, delivered, status_prohibit, data_air>>
        /\ status_shared' = Trim(status_cached, fit)
        /\ trimmed' = (trimmed \/ status_shared' # status_cached)
        /\ status_cached' = status_shared
        /\ TransmitStatus(status_shared')
    BY <1>6 DEF SendStatusPdu, rx_data_vars
  <2>2. RxHeld' /\ AirInv'
    BY <1>1, <2>1 DEF RxHeld, AirInv
  <2>3. fit \in Nat
    BY LinkAssumption
  <2>4. WellFormed(status_shared')
    BY <1>1, <2>1, <2>3, TrimmedIsWellFormed
  <2>5. status_air' = <<>> \/ status_air' = <<status_shared'>>
    BY <2>1 DEF TransmitStatus
  <2>6. trimmed' \in BOOLEAN
    BY <1>1, <2>1
  <2>7. status_air' = <<>> \/ \E r : WellFormed(r) /\ status_air' = <<r>>
    BY <2>4, <2>5
  <2>8. QED
    BY <1>1, <2>1, <2>2, <2>4, <2>6, <2>7 DEF ReportTypes
<1>7. CASE OnExpiredStatusProhibitTimer
  <2>1. /\ UNCHANGED <<rx_window, delivered, status_cached, status_shared, trimmed, data_air,
                       status_air>>
        /\ status_prohibit' = "off"
    BY <1>7 DEF OnExpiredStatusProhibitTimer, report_vars, rx_data_vars
  <2>2. RxHeld' /\ AirInv'
    BY <1>1, <2>1 DEF RxHeld, AirInv
  <2>3. QED
    BY <1>1, <2>1, <2>2 DEF ReportTypes
<1>8. CASE UpdateOwnBufferState \/ OtherDirection
  <2>1. UNCHANGED <<rx_window, delivered, status_cached, status_shared, trimmed, data_air,
                    status_air, status_prohibit>>
    BY <1>8 DEF UpdateOwnBufferState, OtherDirection, report_vars, rx_data_vars
  <2>2. RxHeld' /\ AirInv'
    BY <1>1, <2>1 DEF RxHeld, AirInv
  <2>3. QED
    BY <1>1, <2>1, <2>2 DEF ReportTypes
<1>9. QED
  BY <1>3, <1>4, <1>5, <1>6, <1>7, <1>8 DEF ReceiverStep

(* A step is one of the sender or one of the receiver.                      *)
LEMMA StepSplits ==
  ASSUME [Next]_vars
  PROVE  \/ ~released /\ SenderStep /\ UNCHANGED rx_vars
         \/ ~released /\ ReceiverStep /\ UNCHANGED tx_vars
         \/ UNCHANGED vars
  BY Zenon DEF Next, Sender, Receiver, SenderStep, ReceiverStep

(* The receiver leaves the sender alone.                                    *)
LEMMA TxUnchanged ==
  ASSUME TxInv, UNCHANGED tx_vars
  PROVE  TxInv'
<1>1. UNCHANGED <<upper, sdu_queue, tx_next_ack, tx_next, tx_window, sn_under_segmentation,
                  retx_queue, retx_sn, poll_sn, released, failure>>
  BY DEF tx_vars, poll_vars
<1>2. TxTypes'
  BY <1>1 DEF TxInv, TxTypes
<1>3. SegInv' /\ RetxTypes' /\ CountInv'
  BY <1>1 DEF TxInv, SegInv, SegmentOk, RetxTypes, CountInv
<1>4. QED
  BY <1>2, <1>3 DEF TxInv

(* Every step keeps the types, and the order of the receiver's state.      *)
LEMMA TypesStep ==
  ASSUME TypeInv, [Next]_vars
  PROVE  TypeInv' /\ ReassemblyAssertions
<1>1. AirTyped
  BY TypeInvIsTypeOK DEF TypeOK
<1>2. RxInv' /\ ReassemblyAssertions
  BY <1>1, RxStep DEF TypeInv
<1>3. CASE ~released /\ SenderStep /\ UNCHANGED rx_vars
  BY <1>2, <1>3, SenderTypes, SenderLeaves DEF TypeInv
<1>4. CASE ~released /\ ReceiverStep /\ UNCHANGED tx_vars
  BY <1>2, <1>4, TxUnchanged, ReceiverTypes DEF TypeInv
<1>5. CASE UNCHANGED vars
  <2>1. /\ UNCHANGED tx_vars
        /\ UNCHANGED <<rx_window, delivered, data_air, status_air, status_cached, status_shared,
                       status_prohibit, trimmed>>
    BY <1>5 DEF vars, rx_vars, report_vars
  <2>2. TxInv'
    BY <2>1, TxUnchanged DEF TypeInv
  <2>3. AirInv' /\ RxHeld' /\ ReportTypes'
    BY <2>1 DEF TypeInv, AirInv, RxHeld, ReportTypes
  <2>4. QED
    BY <1>2, <2>2, <2>3 DEF TypeInv
<1>6. QED
  BY <1>3, <1>4, <1>5, StepSplits

(* The types hold of every behaviour.                                       *)
LEMMA TypesHold == Spec => []TypeInv
<1>1. Init => TypeInv
  BY TypesInitially
<1>2. TypeInv /\ [Next]_vars => TypeInv'
  BY TypesStep
<1>3. QED
  BY <1>1, <1>2, PTL DEF Spec

(* TypeOK: whatever arrives in whatever order, what the entities keep and   *)
(* what is in flight has its type.  In particular the retransmissions that  *)
(* handle_nack queues are of SNs and of at least one byte of an SDU, and    *)
(* the failure flags are set only by the checks that set them.              *)
THEOREM TypeOKHolds == Spec => []TypeOK
<1>1. TypeInv => TypeOK
  BY TypeInvIsTypeOK
<1>2. QED
  BY <1>1, TypesHold, PTL

(* Whatever data PDUs arrive, in whatever order, handle_data_pdu and        *)
(* on_expired_reassembly_timer keep the receiver's state variables in       *)
(* order and within one window.                                            *)
THEOREM RxStateOrderedHolds == Spec => []RxStateOrdered
<1>1. TypeInv => RxStateOrdered
  BY DEF TypeInv, RxInv
<1>2. QED
  BY <1>1, TypesHold, PTL

(* No assertion of the reassembly timer's handling fails: the entry that    *)
(* handle_data_pdu looks up when the trigger follows rx_next is in the      *)
(* window, and the rx_highest_status that on_expired_reassembly_timer       *)
(* computes is in the window too.                                           *)
THEOREM ReassemblyAssertionsHold == Spec => [][ReassemblyAssertions]_vars
<1>1. TypeInv /\ [Next]_vars => ReassemblyAssertions
  BY TypesStep
<1>2. QED
  BY <1>1, TypesHold, PTL DEF Spec

-----------------------------------------------------------------------------
(* MAC is told of bytes to send, as long as there are never more of them   *)
(* than one PDU takes: it is not told of a large buffer state after a      *)
(* large one.                                                              *)

NeverLarge == ~(GetBufferState > MaxDlPdu)

WakeInv ==
  /\ bs_updates \in Nat /\ ~prev_large
  /\ pending_buffer_state => bs_updates > 0 \/ Refusals
  /\ BytesToSend => bs_reported \/ bs_updates > 0 \/ (Refusals /\ pending_buffer_state)

\* No SDU is discarded in the step, and none is put back.
SameDiscards == \A i \in Sdus : (upper'[i] = "discarded") = (upper[i] = "discarded")

(* The bytes to send depend on the queues and the window, and on which of   *)
(* the queued SDUs are discarded.                                           *)
LEMMA SameBufferState ==
  ASSUME UNCHANGED <<sdu_queue, retx_queue, tx_window, sn_under_segmentation>>, SameDiscards,
         sdu_queue \in Seq(Sdus)
  PROVE  GetBufferState' = GetBufferState
<1> DEFINE Q(f) == f = [n \in 0..Len(sdu_queue) |->
                          IF n = 0 THEN 0
                          ELSE f[n - 1] + IF upper[sdu_queue[n]] = "discarded" THEN 0
                                          ELSE SduLen[sdu_queue[n]]]
           P(f) == f = [n \in 0..Len(sdu_queue) |->
                          IF n = 0 THEN 0
                          ELSE f[n - 1] + IF upper'[sdu_queue[n]] = "discarded" THEN 0
                                          ELSE SduLen[sdu_queue[n]]]
           R(f) == f = [n \in 0..Len(retx_queue) |->
                          IF n = 0 THEN 0 ELSE f[n - 1] + retx_queue[n].len]
           info == tx_window[sn_under_segmentation]
           segment == IF sn_under_segmentation \notin DOMAIN tx_window THEN 0
                      ELSE SduLen[info.sdu] - info.next_so
           q == CHOOSE f : Q(f)
           p == CHOOSE f : P(f)
           r == CHOOSE f : R(f)
<1>1. GetBufferState = q[Len(sdu_queue)] + segment + r[Len(retx_queue)]
  BY DEF GetBufferState
<1>2. GetBufferState' = p[Len(sdu_queue)] + segment + r[Len(retx_queue)]
  BY DEF GetBufferState
<1>3. ASSUME NEW f PROVE P(f) <=> Q(f)
  <2>1. \A n \in 0..Len(sdu_queue) : n # 0 => sdu_queue[n] \in Sdus
    OBVIOUS
  <2>2. \A n \in 0..Len(sdu_queue) :
          n # 0 => (upper'[sdu_queue[n]] = "discarded") = (upper[sdu_queue[n]] = "discarded")
    BY <2>1 DEF SameDiscards
  <2>3. [n \in 0..Len(sdu_queue) |->
           IF n = 0 THEN 0
           ELSE f[n - 1] + IF upper'[sdu_queue[n]] = "discarded" THEN 0 ELSE SduLen[sdu_queue[n]]]
        = [n \in 0..Len(sdu_queue) |->
             IF n = 0 THEN 0
             ELSE f[n - 1] + IF upper[sdu_queue[n]] = "discarded" THEN 0 ELSE SduLen[sdu_queue[n]]]
    BY <2>2
  <2>4. QED
    BY <2>3, Zenon
<1> HIDE DEF P, Q
<1>4. p = q
  BY <1>3
<1> HIDE DEF p, q, r, segment
<1>5. QED
  BY <1>1, <1>2, <1>4

(* handle_changed_buffer_state, whatever the buffer state has become.      *)
LEMMA ChangeIsTold ==
  ASSUME WakeInv, HandleChangedBufferState
  PROVE  WakeInv'
<1>1. CASE pending_buffer_state
  <2>1. UNCHANGED <<pending_buffer_state, prev_large, bs_updates, bs_reported>>
    BY <1>1 DEF HandleChangedBufferState, bs_vars
  <2>2. QED
    BY <1>1, <2>1 DEF WakeInv
<1>2. CASE ~pending_buffer_state
  <2>1. /\ pending_buffer_state'
        /\ bs_updates' = bs_updates + 1 \/ (Refusals /\ bs_updates' = bs_updates)
        /\ UNCHANGED prev_large
    BY <1>2 DEF HandleChangedBufferState
  <2>2. bs_updates' \in Nat /\ (bs_updates' > 0 \/ Refusals)
    BY <2>1 DEF WakeInv
  <2>3. QED
    BY <2>1, <2>2 DEF WakeInv
<1>3. QED
  BY <1>1, <1>2

(* A step that leaves the bytes to send leaves what MAC knows of them.      *)
LEMMA SameIsTold ==
  ASSUME WakeInv, UNCHANGED bs_vars, SameDiscards, sdu_queue \in Seq(Sdus),
         UNCHANGED <<sdu_queue, retx_queue, tx_window, sn_under_segmentation>>
  PROVE  WakeInv'
<1>1. GetBufferState' = GetBufferState
  BY SameBufferState
<1>2. QED
  BY <1>1 DEF WakeInv, bs_vars, BytesToSend

(* A forced update tells MAC.                                               *)
LEMMA ForcedIsTold ==
  ASSUME WakeInv, NeverLarge', ForcedBufferStateUpdate
  PROVE  WakeInv'
<1> DEFINE large == GetBufferState > MaxDlPdu
<1>1. /\ pending_buffer_state' = FALSE /\ bs_reported' = BytesToSend' /\ prev_large' = large'
      /\ UNCHANGED bs_updates
  BY DEF ForcedBufferStateUpdate
<1>2. ~large'
  BY DEF NeverLarge
<1> HIDE DEF large
<1>3. QED
  BY <1>1, <1>2 DEF WakeInv

(* Every step leaves MAC told, or the telling under way.                    *)
LEMMA WakeStep ==
  ASSUME TypeInv, WakeInv, NeverLarge, NeverLarge', [Next]_vars
  PROVE  WakeInv'
<1>0. sdu_queue \in Seq(Sdus) /\ upper \in [Sdus -> UpperStates]
  BY DEF TypeInv, TxInv, TxTypes
<1>1. ASSUME NEW i \in Sdus, HandleSdu(i) \/ DiscardSdu(i)
      PROVE  WakeInv'
  <2>1. CASE HandleChangedBufferState
    BY <2>1, ChangeIsTold
  <2>2. CASE ~HandleChangedBufferState
    <3>1. /\ upper[i] = "new" /\ upper' = [upper EXCEPT ![i] = "dropped"]
          /\ UNCHANGED bs_vars
          /\ UNCHANGED <<sdu_queue, retx_queue, tx_window, sn_under_segmentation>>
      BY <1>1, <2>2 DEF HandleSdu, DiscardSdu
    <3>2. SameDiscards
      BY <1>0, <3>1 DEF SameDiscards
    <3>3. QED
      BY <1>0, <3>1, <3>2, SameIsTold
  <2>3. QED
    BY <2>1, <2>2
<1>2. ASSUME NEW grant, PullPdu(grant)
      PROVE  WakeInv'
  <2>1. BufferStateAfterPull
    BY <1>2 DEF PullPdu, BuildNewPdu, EmptyPull, BuildContinuedSduSegment, BuildRetxPdu
  <2>2. /\ bs_reported' = BytesToSend'
        /\ UNCHANGED <<pending_buffer_state, prev_large, bs_updates>>
    BY <2>1 DEF BufferStateAfterPull
  <2>3. QED
    BY <2>2 DEF WakeInv
<1>3. ASSUME UpdateMacBufferState
      PROVE  WakeInv'
  <2> DEFINE large == GetBufferState > MaxDlPdu
  <2>1. /\ bs_updates > 0 /\ bs_updates' = bs_updates - 1 /\ pending_buffer_state' = FALSE
        /\ bs_reported' = IF prev_large /\ large THEN bs_reported ELSE BytesToSend
        /\ prev_large' = large
        /\ UNCHANGED <<sdu_queue, retx_queue, tx_window, sn_under_segmentation>>
        /\ SameDiscards
    BY <1>3 DEF UpdateMacBufferState, SameDiscards
  <2>2. ~large
    BY DEF NeverLarge
  <2> HIDE DEF large
  <2>3. GetBufferState' = GetBufferState
    BY <1>0, <2>1, SameBufferState
  <2>4. BytesToSend' = BytesToSend
    BY <2>3 DEF BytesToSend
  <2>5. QED
    BY <2>1, <2>2, <2>4 DEF WakeInv
<1>4. ASSUME HandleStatusPdu
      PROVE  WakeInv'
  <2>1. \/ ForcedBufferStateUpdate
        \/ /\ UNCHANGED bs_vars /\ SameDiscards
           /\ UNCHANGED <<sdu_queue, retx_queue, tx_window, sn_under_segmentation>>
    BY <1>4 DEF HandleStatusPdu, SameDiscards
  <2>2. QED
    BY <1>0, <2>1, ForcedIsTold, SameIsTold
<1>5. ASSUME OnExpiredPollRetransmitTimer
      PROVE  WakeInv'
  <2>1. \/ ForcedBufferStateUpdate
        \/ /\ UNCHANGED bs_vars /\ SameDiscards
           /\ UNCHANGED <<sdu_queue, retx_queue, tx_window, sn_under_segmentation>>
    BY <1>5 DEF OnExpiredPollRetransmitTimer, SameDiscards
  <2>2. QED
    BY <1>0, <2>1, ForcedIsTold, SameIsTold
<1>6. ASSUME UNCHANGED tx_vars
      PROVE  WakeInv'
  <2>1. /\ UNCHANGED bs_vars /\ SameDiscards
        /\ UNCHANGED <<sdu_queue, retx_queue, tx_window, sn_under_segmentation>>
    BY <1>6 DEF tx_vars, SameDiscards
  <2>2. QED
    BY <1>0, <2>1, SameIsTold
<1>7. UNCHANGED vars => UNCHANGED tx_vars
  BY DEF vars
<1>8. QED
  BY <1>1, <1>2, <1>3, <1>4, <1>5, <1>6, <1>7, StepSplits DEF SenderStep

(* There is nothing to tell initially.                                      *)
LEMMA WakeInitially ==
  ASSUME Init
  PROVE  WakeInv
<1>1. bs_updates = 0 /\ prev_large = FALSE /\ pending_buffer_state = FALSE
  BY DEF Init, TxInit
<1>2. sdu_queue = <<>> /\ retx_queue = <<>> /\ tx_window = <<>>
  BY DEF Init, TxInit
<1>3. ~BytesToSend
  <2> DEFINE Is(f) == f = [n \in 0..0 |->
                             IF n = 0 THEN 0
                             ELSE f[n - 1] + IF upper[sdu_queue[n]] = "discarded" THEN 0
                                             ELSE SduLen[sdu_queue[n]]]
             Js(f) == f = [n \in 0..0 |-> IF n = 0 THEN 0 ELSE f[n - 1] + retx_queue[n].len]
             q == CHOOSE f : Is(f)
             r == CHOOSE f : Js(f)
  <2>1. Len(sdu_queue) = 0 /\ Len(retx_queue) = 0 /\ sn_under_segmentation \notin DOMAIN tx_window
    BY <1>2
  <2>2. GetBufferState = q[0] + 0 + r[0]
    BY <2>1 DEF GetBufferState
  <2>3. Is([n \in 0..0 |-> 0]) /\ Js([n \in 0..0 |-> 0])
    OBVIOUS
  <2>4. Is(q) /\ Js(r)
    <3> HIDE DEF Is, Js
    <3>1. QED
      BY <2>3, Zenon
  <2> HIDE DEF q, r
  <2>5. q[0] = 0 /\ r[0] = 0
    BY <2>4
  <2>6. QED
    BY <2>2, <2>5 DEF BytesToSend
<1>4. QED
  BY <1>1, <1>3 DEF WakeInv

(* MAC is told of bytes to send: update_mac_buffer_state, deferred behind   *)
(* the pending_buffer_state flag, never leaves bytes that MAC has not been  *)
(* told of, whatever order the executors run handle_sdu, pull_pdu, the      *)
(* status handlers and the timers in.  It holds as long as there is never   *)
(* more to send than one grant takes: of a large buffer state that follows  *)
(* a large one MAC is not told.                                             *)
THEOREM NoLostWakeupHolds == Spec /\ []NeverLarge => []NoLostWakeup
<1>1. TypeInv /\ WakeInv /\ NeverLarge /\ NeverLarge' /\ [Next]_vars => WakeInv'
  BY WakeStep
<1>2. /\ WakeInv
      /\ StatusReportRequired => status_told \/ own_updates > 0 \/ (Refusals /\ own_pending)
      => NoLostWakeup
  BY DEF WakeInv, NoLostWakeup
<1>3. Init => WakeInv
  BY WakeInitially
<1>4. QED
  BY <1>1, <1>2, <1>3, TypesHold, StatusReportIsTold, PTL DEF Spec
==============================================================================
