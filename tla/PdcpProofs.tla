----------------------------- MODULE PdcpProofs -----------------------------
(***************************************************************************)
(* Proofs about Pdcp, for every SN size, window, queue and bound, with or  *)
(* without losses, a discard timer and status reports, and for any number  *)
(* of re-establishments.  The invariant follows an SDU from PDCP to the    *)
(* peer: while it is in the window of PDCP it is on its way or settled,    *)
(* the PDUs on their way are in the order of their COUNTs and within one   *)
(* range of SNs, and whatever names an SDU by its SN (a discard, a         *)
(* delivery notification) finds that SDU or none.                          *)
(*                                                                         *)
(* First come facts about the operators of PdcpSn, PdcpTx and PdcpRx, on   *)
(* any states te and re of the two entities: what the estimation of a      *)
(* COUNT gives, and what each handler does to state variables and window.  *)
(***************************************************************************)
EXTENDS Pdcp, FiniteSetTheorems, TLAPS

(* The window is half the range of SNs.                                    *)
LEMMA WindowSize ==
  window_size \in Nat /\ window_size >= 2 /\ SnMod = 2 * window_size
  BY SnAssumption DEF window_size

(* Arithmetic modulo the range of SNs: multiples, quotients and            *)
(* remainders.                                                             *)
LEMMA Multiples ==
  ASSUME NEW m \in Nat \ {0}, NEW k \in Int
  PROVE  /\ m * k \in Int
         /\ k >= 1 => m * k >= m
         /\ k <= -1 => m * k <= 0 - m
         /\ k = 0 => m * k = 0
  OBVIOUS

(* Quotient and remainder determine a COUNT, as HFN and SN do.             *)
LEMMA Division ==
  ASSUME NEW m \in Nat \ {0}, NEW c \in Nat
  PROVE  /\ c \div m \in Nat /\ c % m \in 0..(m - 1)
         /\ c = m * (c \div m) + (c % m)
  OBVIOUS

(* Two COUNTs with one SN are at least the range of SNs apart.             *)
LEMMA Congruent ==
  ASSUME NEW m \in Nat \ {0}, NEW c \in Nat, NEW d \in Nat, c % m = d % m
  PROVE  c < d => c + m <= d
<1> DEFINE p == c \div m
           q == d \div m
           s == c % m
           k == q - p
<1>1. p \in Nat /\ q \in Nat /\ s \in 0..(m - 1)
      /\ c = m * p + s /\ d = m * q + s
  BY Division
<1>2. k \in Int /\ d = c + m * k
  BY <1>1
<1> HIDE DEF k
<1>3. QED
  BY <1>2, Multiples

(* COUNTs a range of SNs apart have one SN.                                *)
LEMMA Shift ==
  ASSUME NEW m \in Nat \ {0}, NEW c \in Nat
  PROVE  (c + m) % m = c % m
<1> DEFINE d == c + m
           r == d % m
           s == c % m
           k == (c \div m) + 1 - (d \div m)
<1>1. d \in Nat
  OBVIOUS
<1>2. /\ r \in 0..(m - 1) /\ s \in 0..(m - 1)
      /\ d \div m \in Nat /\ c \div m \in Nat
      /\ d = m * (d \div m) + r /\ c = m * (c \div m) + s
  BY <1>1, Division
<1>3. k \in Int /\ m * k = r - s
  BY <1>2
<1> HIDE DEF r, s, k
<1>4. r = s
  BY <1>2, <1>3, Multiples
<1>5. QED
  BY <1>4 DEF r, s

(* The range of COUNTs is a number of whole ranges of SNs.                 *)
LEMMA Hfns ==
  /\ CountMod \div SnMod \in Nat \ {0}
  /\ CountMod = SnMod * (CountMod \div SnMod)
  BY SnAssumption

(* A value within the range is its own remainder.                          *)
LEMMA SmallMod == ASSUME NEW m \in Nat \ {0}, NEW a \in 0..(m-1) PROVE a % m = a
  OBVIOUS

(* The estimation of a COUNT from its SN (the reception procedure and the  *)
(* notifications of lower layers) is right for every COUNT from the edge   *)
(* up to a window beyond it, the wrap of the SN included.                  *)
THEOREM EstimateIsRight ==
  ASSUME NEW edge \in Nat, NEW count \in Nat, count < CountMod,
         edge <= count, count < edge + window_size
  PROVE  CountEstimate(edge, SN(count)) = count
<1> DEFINE q == HFN(count)
           s == SN(count)
           p == HFN(edge)
           r == SN(edge)
           k == q - p
           m == CountMod \div SnMod
<1>1. SnMod \in Nat \ {0} /\ window_size \in Nat /\ SnMod = 2 * window_size
  BY WindowSize, SnAssumption
<1>2. /\ q \in Nat /\ p \in Nat /\ s \in 0..(SnMod - 1) /\ r \in 0..(SnMod - 1)
      /\ count = SnMod * q + s /\ edge = SnMod * p + r
  BY <1>1, Division DEF SN, HFN
<1> HIDE DEF q, s, p, r
<1>3. k \in Int /\ q = p + k /\ count - edge = SnMod * k + (s - r)
  BY <1>1, <1>2
<1> HIDE DEF k
<1>4. /\ k >= 1 => SnMod * k >= SnMod
      /\ k <= -1 => SnMod * k <= 0 - SnMod
      /\ k = 0 => SnMod * k = 0
      /\ k - 1 >= 1 => SnMod * (k - 1) >= SnMod
      /\ SnMod * k \in Int /\ SnMod * (k - 1) = SnMod * k - SnMod
  BY <1>1, <1>3, Multiples
<1>5. m \in Nat \ {0} /\ CountMod = SnMod * m
  BY Hfns
<1> HIDE DEF m
<1>6. q < m
  <2>1. q - m \in Int /\ SnMod * (q - m) = SnMod * q - SnMod * m
    BY <1>1, <1>2, <1>5
  <2>2. q - m >= 1 => SnMod * (q - m) >= SnMod
    BY <1>1, <2>1, Multiples
  <2>3. SnMod * q \in Int /\ SnMod * m \in Int /\ SnMod * q < SnMod * m
    BY <1>1, <1>2, <1>5
  <2>4. q # m
    BY <1>1, <2>3
  <2>5. QED
    BY <1>1, <1>2, <1>5, <2>1, <2>2, <2>3, <2>4
<1>7. q % m = q
  BY <1>2, <1>5, <1>6, SmallMod
<1>8. count - edge >= 0 /\ count - edge < window_size
  BY <1>1
<1>9. CASE s < r - window_size
  <2>1. k = 1
    BY <1>1, <1>2, <1>3, <1>4, <1>8, <1>9
  <2>2. p + 1 = q
    BY <1>2, <1>3, <2>1
  <2>3. CountEstimate(edge, s) = COUNT(p + 1, s)
    BY <1>9 DEF CountEstimate, p, r
  <2>4. COUNT(q, s) = q * SnMod + s
    BY <1>7 DEF COUNT, m
  <2>5. QED
    BY <1>1, <1>2, <2>2, <2>3, <2>4 DEF s
<1>10. CASE s >= r - window_size
  <2>1. k = 0
    BY <1>1, <1>2, <1>3, <1>4, <1>8, <1>10
  <2>2. s < r + window_size /\ q = p
    BY <1>1, <1>2, <1>3, <1>4, <1>8, <2>1
  <2>3. QED
    BY <1>1, <1>2, <1>7, <1>10, <2>2 DEF CountEstimate, COUNT, q, s, p, r, m
<1>11. QED
  BY <1>1, <1>2, <1>9, <1>10

(* Whatever it estimates, the COUNT has the SN it was given.               *)
LEMMA EstimateIsCongruent ==
  ASSUME NEW edge \in Nat, NEW sn \in 0..(SnMod - 1)
  PROVE  /\ CountEstimate(edge, sn) \in Nat
         /\ CountEstimate(edge, sn) % SnMod = sn
<1> DEFINE m == CountMod \div SnMod
<1>1. SnMod \in Nat \ {0} /\ window_size \in Nat /\ m \in Nat \ {0}
  BY WindowSize, Hfns, SnAssumption
<1>2. HFN(edge) \in Nat
  BY <1>1, Division DEF HFN
<1>3. ASSUME NEW h \in Int
      PROVE  COUNT(h, sn) \in Nat /\ COUNT(h, sn) % SnMod = sn
  <2>1. h % m \in Nat
    BY <1>1, <1>3
  <2> HIDE DEF m
  <2>2. COUNT(h, sn) = (h % m) * SnMod + sn
    BY DEF COUNT, m
  <2> DEFINE x == h % m
  <2> HIDE DEF x
  <2>3. x \in Nat => x * SnMod + sn \in Nat /\ (x * SnMod + sn) % SnMod = sn
    BY <1>1
  <2>4. QED
    BY <2>1, <2>2, <2>3 DEF x
<1> HIDE DEF m
<1>4. QED
  BY <1>2, <1>3 DEF CountEstimate


(* A finite set of numbers can be listed in ascending order.               *)
LEMMA RankExists ==
  ASSUME NEW S \in SUBSET Int, IsFiniteSet(S), NEW i \in 1..Cardinality(S)
  PROVE  \E c \in S : Cardinality({d \in S : d < c}) = i - 1
<1> DEFINE n == Cardinality(S)
           Below(c) == {d \in S : d < c}
           f == [c \in S |-> Cardinality(Below(c))]
<1>1. n \in Nat
  BY FS_CardinalityType
<1>2. \A c \in S : /\ Below(c) \in SUBSET S /\ c \in S \ Below(c)
                   /\ IsFiniteSet(Below(c)) /\ Cardinality(Below(c)) \in Nat
  BY FS_Subset, FS_CardinalityType
<1>3. \A c \in S : Cardinality(Below(c)) < n
  <2> SUFFICES ASSUME NEW c \in S PROVE Cardinality(Below(c)) < n
    OBVIOUS
  <2>1. Cardinality(Below(c)) <= n /\ (n = Cardinality(Below(c)) => S = Below(c))
    BY <1>2, FS_Subset
  <2>2. QED
    BY <1>1, <1>2, <2>1
<1>4. \A c, e \in S : c < e => Cardinality(Below(c)) < Cardinality(Below(e))
  <2> SUFFICES ASSUME NEW c \in S, NEW e \in S, c < e
               PROVE  Cardinality(Below(c)) < Cardinality(Below(e))
    OBVIOUS
  <2>1. \A d \in S : d \in Int
    OBVIOUS
  <2>2. (\A d \in S : d < c => d < e) /\ ~(c < c)
    BY <2>1
  <2>3. Below(c) \in SUBSET Below(e) /\ c \in Below(e) /\ c \notin Below(c)
    BY <2>2, Zenon
  <2>4. /\ Cardinality(Below(c)) <= Cardinality(Below(e))
        /\ Cardinality(Below(e)) = Cardinality(Below(c)) => Below(e) = Below(c)
    BY <1>2, <2>3, FS_Subset
  <2>5. QED
    BY <1>2, <2>3, <2>4
<1> HIDE DEF Below
<1>5. f \in [S -> 0..(n - 1)]
  BY <1>1, <1>2, <1>3
<1>6. ASSUME NEW c \in S, NEW e \in S, f[c] = f[e] PROVE c = e
  <2>1. ~(c < e) /\ ~(e < c)
    BY <1>2, <1>4, <1>6
  <2>2. QED
    BY <2>1
<1> HIDE DEF f
<1>7. f \in Injection(S, 0..(n - 1))
  BY <1>5, <1>6 DEF Injection, IsInjective
<1>8. IsFiniteSet(0..(n - 1)) /\ Cardinality(0..(n - 1)) = n
  <2>1. n - 1 \in Int /\ 0 \in Int /\ (IF 0 > n - 1 THEN 0 ELSE n - 1 - 0 + 1) = n
    BY <1>1
  <2>2. QED
    BY <2>1, FS_Interval
<1>9. f \in Surjection(S, 0..(n - 1))
  BY <1>7, <1>8, FS_Injection
<1>10. i - 1 \in 0..(n - 1)
  BY <1>1
<1>11. \E c \in S : f[c] = i - 1
  BY <1>9, <1>10 DEF Surjection
<1>12. QED
  BY <1>11 DEF f, Below

(* Every non-empty finite set of integers has a least element.             *)
LEMMA MinIsLeast ==
  ASSUME NEW S \in SUBSET Int, IsFiniteSet(S), S # {}
  PROVE  /\ Min(S) \in S
         /\ \A c \in S : Min(S) <= c
<1>1. Cardinality(S) \in Nat /\ Cardinality(S) # 0
  BY FS_CardinalityType, FS_EmptySet
<1>2. PICK c \in S : Cardinality({d \in S : d < c}) = 0
  <2>1. 1 \in 1..Cardinality(S) /\ 1 - 1 = 0
    BY <1>1
  <2>2. \E c \in S : Cardinality({d \in S : d < c}) = 1 - 1
    BY <2>1, RankExists
  <2>3. QED
    BY <2>1, <2>2
<1>3. {d \in S : d < c} = {}
  BY <1>2, FS_Subset, FS_EmptySet
<1>4. \A d \in S : c <= d
  BY <1>3
<1>5. QED
  BY <1>4 DEF Min

(* Ascending lists the elements of a finite set in their order.            *)
LEMMA AscendingSorts ==
  ASSUME NEW S \in SUBSET Nat, IsFiniteSet(S)
  PROVE  /\ Ascending(S) \in Seq(S)
         /\ \A i, j \in DOMAIN Ascending(S) :
               i < j => Ascending(S)[i] < Ascending(S)[j]
         /\ \A c \in S : \E i \in DOMAIN Ascending(S) : Ascending(S)[i] = c
<1> DEFINE n == Cardinality(S)
           rank(c) == Cardinality({d \in S : d < c})
           s == Ascending(S)
           r == [i \in 1..n |-> CHOOSE c \in S : rank(c) = i - 1]
<1>1. n \in Nat
  BY FS_CardinalityType
<1>2. \A i \in 1..n : r[i] \in S /\ rank(r[i]) = i - 1
  <2> SUFFICES ASSUME NEW i \in 1..n PROVE r[i] \in S /\ rank(r[i]) = i - 1
    OBVIOUS
  <2>1. S \in SUBSET Int
    OBVIOUS
  <2>2. \E c \in S : rank(c) = i - 1
    BY <2>1, RankExists
  <2> HIDE DEF rank
  <2>3. QED
    BY <2>2
<1>3. \A c, d \in S : c <= d => rank(c) <= rank(d) /\ rank(c) \in Nat /\ rank(d) \in Nat
  <2> SUFFICES ASSUME NEW c \in S, NEW d \in S, c <= d
               PROVE  rank(c) <= rank(d) /\ rank(c) \in Nat /\ rank(d) \in Nat
    OBVIOUS
  <2>1. \A e \in S : e \in Nat
    OBVIOUS
  <2>2. \A e \in S : e < c => e < d
    BY <2>1
  <2>3. {e \in S : e < c} \in SUBSET {e \in S : e < d}
    BY <2>2, Zenon
  <2>4. IsFiniteSet({e \in S : e < d}) /\ IsFiniteSet({e \in S : e < c})
    BY FS_Subset
  <2>5. QED
    BY <2>3, <2>4, FS_Subset, FS_CardinalityType
<1>4. r \in [1..n -> S]
  BY <1>2
<1> HIDE DEF rank, r, n
<1>5. ASSUME NEW i \in 1..n, NEW j \in 1..n, i < j PROVE r[i] < r[j]
  <2>1. ~(rank(r[j]) <= rank(r[i]))
    BY <1>1, <1>2, <1>5
  <2>2. ~(r[j] <= r[i])
    BY <1>2, <1>3, <2>1
  <2>3. r[i] \in Nat /\ r[j] \in Nat
    BY <1>2
  <2>4. QED
    BY <2>2, <2>3
<1>6. /\ s \in [1..n -> S]
      /\ \A i, j \in DOMAIN s : i < j => s[i] < s[j]
  <2>1. DOMAIN r = 1..n
    BY <1>4
  <2>2. \E t \in [1..n -> S] : \A i, j \in DOMAIN t : i < j => t[i] < t[j]
    BY <1>4, <1>5, <2>1
  <2>3. QED
    BY <2>2 DEF Ascending, n
<1> HIDE DEF s
<1>7. DOMAIN s = 1..n
  BY <1>6
<1>8. s \in Seq(S)
  BY <1>1, <1>6
<1>9. \A i, j \in 1..n : s[i] = s[j] => i = j
  <2> SUFFICES ASSUME NEW i \in 1..n, NEW j \in 1..n, s[i] = s[j] PROVE i = j
    OBVIOUS
  <2>1. s[i] \in Nat /\ s[j] \in Nat
    BY <1>6
  <2>2. ~(i < j) /\ ~(j < i)
    BY <1>6, <1>7, <2>1
  <2>3. QED
    BY <1>1, <2>2
<1>10. s \in Injection(1..n, S)
  BY <1>6, <1>7, <1>9 DEF Injection, IsInjective
<1>11. Cardinality(1..n) = n
  BY <1>1, FS_Interval
<1>12. s \in Surjection(1..n, S)
  BY <1>10, <1>11, FS_Injection DEF n
<1>13. \A c \in S : \E i \in 1..n : s[i] = c
  BY <1>12 DEF Surjection
<1>14. QED
  BY <1>6, <1>7, <1>8, <1>13 DEF s
-----------------------------------------------------------------------------
(* The transmitting entity.  Its state variables are in order, and its     *)
(* window lies between TX_NEXT_ACK and TX_NEXT.                            *)
TxStates == [next : Nat, trans : Nat, next_ack : Nat, window : SUBSET Nat]

TxOrdered(te) ==
  /\ te \in TxStates
  /\ te.next_ack <= te.trans /\ te.trans <= te.next
  /\ te.window \subseteq te.next_ack..(te.next - 1)

(* The transmitting entity starts in order.                                *)
LEMMA TxInitially ==
  ASSUME NEW start \in Nat
  PROVE  TxOrdered(TxInit(start))
  BY DEF TxOrdered, TxStates, TxInit

(* handle_sdu keeps every SDU of the window but one in the slot it takes.  *)
LEMMA TxSends ==
  ASSUME NEW te, TxOrdered(te)
  PROVE  /\ TxOrdered(TxHandleSdu(te))
         /\ TxHandleSdu(te).next = te.next + 1
         /\ te.next \in TxHandleSdu(te).window
         /\ TxHandleSdu(te).window \subseteq te.window \cup {te.next}
         /\ \A c \in te.window :
              c \in TxHandleSdu(te).window \/ c + window_size <= te.next
         /\ \A c \in TxHandleSdu(te).window :
              te.next + 1 <= c + window_size \/ c + window_size < te.next
<1> DEFINE u == TxHandleSdu(te)
           w == {c \in te.window : c % window_size # te.next % window_size}
<1>1. /\ te \in TxStates /\ te.next \in Nat /\ te.trans \in Nat
      /\ te.next_ack \in Nat /\ te.window \subseteq Nat
      /\ te.next_ack <= te.trans /\ te.trans <= te.next
      /\ \A c \in te.window : te.next_ack <= c /\ c < te.next
  BY DEF TxOrdered, TxStates
<1>2. /\ u \in TxStates /\ u.next = te.next + 1 /\ u.trans = te.trans
      /\ u.next_ack = te.next_ack /\ u.window = w \cup {te.next}
  <2>1. u = [te EXCEPT !.window = w \cup {te.next}, !.next = te.next + 1]
    BY DEF TxHandleSdu, AddToWindow
  <2>2. w \cup {te.next} \in SUBSET Nat /\ te.next + 1 \in Nat /\ te \in TxStates
    BY <1>1
  <2> HIDE DEF w, u
  <2>3. QED
    BY <2>1, <2>2 DEF TxStates
<1>3. window_size \in Nat \ {0} /\ window_size \in Nat
  BY WindowSize
<1>4. \A c \in te.window : c \notin w => c + window_size <= te.next
  <2> SUFFICES ASSUME NEW c \in te.window, c % window_size = te.next % window_size
               PROVE  c + window_size <= te.next
    OBVIOUS
  <2>1. c \in Nat /\ c < te.next
    BY <1>1
  <2>2. QED
    BY <1>1, <1>3, <2>1, Congruent
<1>5. \A c \in w : c + window_size # te.next
  <2> SUFFICES ASSUME NEW c \in w, c + window_size = te.next PROVE FALSE
    OBVIOUS
  <2>1. c \in Nat
    BY <1>1
  <2>2. (c + window_size) % window_size = c % window_size
    BY <1>3, <2>1, Shift
  <2>3. QED
    BY <2>2
<1> HIDE DEF u, w
<1>6. w \subseteq te.window
  BY DEF w
<1>7. TxOrdered(u)
  <2>1. \A c \in u.window : c \in u.next_ack..(u.next - 1)
    BY <1>1, <1>2, <1>6
  <2>2. QED
    BY <1>1, <1>2, <2>1 DEF TxOrdered
<1>8. \A c \in u.window : te.next + 1 <= c + window_size \/ c + window_size < te.next
  BY <1>1, <1>2, <1>3, <1>5, <1>6
<1>9. QED
  BY <1>2, <1>4, <1>6, <1>7, <1>8 DEF u

(* stop_discard_timer gives up SDUs up to the COUNT it is told, no other.  *)
LEMMA TxStops ==
  ASSUME NEW te, TxOrdered(te), NEW highest \in Nat
  PROVE  /\ TxOrdered(StopDiscardTimer(te, highest))
         /\ StopDiscardTimer(te, highest).next = te.next
         /\ StopDiscardTimer(te, highest).window \subseteq te.window
         /\ \A c \in te.window :
              c \in StopDiscardTimer(te, highest).window
                \/ (c <= highest /\ highest < te.next)
<1> DEFINE u == StopDiscardTimer(te, highest)
           w == {c \in te.window : c < te.next_ack \/ c > highest}
<1>1. /\ te \in TxStates /\ te.next \in Nat /\ te.trans \in Nat
      /\ te.next_ack \in Nat /\ te.window \subseteq Nat
      /\ te.next_ack <= te.trans /\ te.trans <= te.next
      /\ \A c \in te.window : te.next_ack <= c /\ c < te.next
  BY DEF TxOrdered, TxStates
<1>2. CASE highest < te.next_ack \/ highest >= te.next
  <2>1. u = te
    BY <1>2 DEF StopDiscardTimer
  <2> HIDE DEF u
  <2>2. TxOrdered(u) /\ u.next = te.next /\ u.window = te.window
    BY <2>1
  <2>3. QED
    BY <2>2 DEF u
<1>3. CASE ~(highest < te.next_ack \/ highest >= te.next)
  <2>1. /\ u \in TxStates /\ u.next = te.next /\ u.next_ack = highest + 1
        /\ u.trans = IF te.trans < highest + 1 THEN highest + 1 ELSE te.trans
        /\ u.window = w
    <3> DEFINE v == [te EXCEPT !.window = w, !.next_ack = highest + 1]
    <3>1. u = TransInWindow(v)
      BY <1>3 DEF StopDiscardTimer
    <3>2. w \in SUBSET Nat /\ highest + 1 \in Nat /\ te \in TxStates
      BY <1>1
    <3> HIDE DEF w, u
    <3>3. /\ v \in TxStates /\ v.next = te.next /\ v.next_ack = highest + 1
          /\ v.trans = te.trans /\ v.window = w
      BY <3>2 DEF TxStates
    <3> HIDE DEF v
    <3>4. QED
      BY <3>1, <3>3 DEF TransInWindow, TxStates
  <2>2. \A c \in te.window : c \in w \/ c <= highest
    BY <1>1
  <2>3. \A c \in w : highest < c
    BY <1>1
  <2> HIDE DEF u
  <2>4. \A c \in u.window : c \in u.next_ack..(u.next - 1)
    BY <1>1, <2>1, <2>3
  <2>5. TxOrdered(u)
    BY <1>1, <1>3, <2>1, <2>4 DEF TxOrdered
  <2>6. QED
    BY <1>1, <1>3, <2>1, <2>2, <2>5 DEF u
<1>4. QED
  BY <1>2, <1>3

(* discard_pdu takes the COUNTs it is told, as far as they are in the      *)
(* window, and nothing else out of it.                                     *)
LEMMA TxDiscards ==
  ASSUME NEW te, TxOrdered(te), NEW counts
  PROVE  /\ TxOrdered(DiscardPdus(te, counts))
         /\ DiscardPdus(te, counts).next = te.next
         /\ Discardable(te, counts) = counts \cap te.window
         /\ DiscardPdus(te, counts).window = te.window \ counts
<1> DEFINE u == DiscardPdus(te, counts)
           gone == Discardable(te, counts)
           w == te.window \ gone
           kept == {c \in w : te.next_ack <= c /\ c < te.next}
           S == kept \cup {te.next}
<1>1. /\ te \in TxStates /\ te.next \in Nat /\ te.trans \in Nat
      /\ te.next_ack \in Nat /\ te.window \subseteq Nat
      /\ te.next_ack <= te.trans /\ te.trans <= te.next
      /\ \A c \in te.window : te.next_ack <= c /\ c < te.next
  BY DEF TxOrdered, TxStates
<1>2. gone = counts \cap te.window
  BY <1>1 DEF Discardable
<1> HIDE DEF gone
<1>3. CASE gone = {}
  <2>1. u = te
    BY <1>3 DEF DiscardPdus, gone
  <2>2. te.window \ counts = te.window
    BY <1>2, <1>3
  <2>3. QED
    BY <1>2, <2>1, <2>2 DEF gone
<1>4. CASE gone # {}
  <2>1. /\ S \in SUBSET Int /\ S # {} /\ S \in SUBSET (te.next_ack..te.next)
        /\ \A c \in w : c \in S
    <3>1. \A c \in w : c \in Nat /\ te.next_ack <= c /\ c < te.next
      BY <1>1
    <3>2. kept = w
      BY <3>1
    <3> HIDE DEF w, kept
    <3>3. QED
      BY <1>1, <3>1, <3>2
  <2> HIDE DEF S
  <2>2. IsFiniteSet(S)
    <3>1. te.next_ack \in Int /\ te.next \in Int
      BY <1>1
    <3>2. IsFiniteSet(te.next_ack..te.next)
      BY <3>1, FS_Interval
    <3>3. QED
      BY <2>1, <3>2, FS_Subset
  <2>3. Min(S) \in S /\ \A c \in S : Min(S) <= c
    BY <2>1, <2>2, MinIsLeast
  <2> DEFINE a == Min(S)
  <2>4. a \in Nat /\ te.next_ack <= a /\ a <= te.next /\ \A c \in w : a <= c
    <3>1. a \in te.next_ack..te.next /\ \A c \in w : a <= c
      BY <2>1, <2>3
    <3> HIDE DEF a, w
    <3>2. QED
      BY <1>1, <3>1
  <2>5. u = TransInWindow([te EXCEPT !.window = w, !.next_ack = a])
    BY <1>4 DEF DiscardPdus, gone, S
  <2> HIDE DEF a, u
  <2>6. /\ u \in TxStates /\ u.next = te.next /\ u.next_ack = a
        /\ u.trans = IF te.trans < a THEN a ELSE te.trans
        /\ u.window = w
    BY <1>1, <2>4, <2>5 DEF TransInWindow, TxStates
  <2>7. \A c \in u.window : c \in u.next_ack..(u.next - 1)
    BY <1>1, <2>4, <2>6
  <2>8. TxOrdered(u)
    BY <1>1, <2>4, <2>6, <2>7 DEF TxOrdered
  <2>9. w = te.window \ counts
    BY <1>2
  <2>10. QED
    BY <1>2, <2>6, <2>8, <2>9 DEF gone, u
<1>5. QED
  BY <1>3, <1>4

(* A transmit notification moves TX_TRANS only, within its bounds.         *)
LEMMA TxTransmitted ==
  ASSUME NEW te, TxOrdered(te), NEW sn \in 0..(SnMod - 1)
  PROVE  /\ TxOrdered(HandleTransmitNotification(te, sn))
         /\ HandleTransmitNotification(te, sn).next = te.next
         /\ HandleTransmitNotification(te, sn).window = te.window
<1> DEFINE e == CountEstimate(te.next_ack, sn)
           u == HandleTransmitNotification(te, sn)
<1>1. /\ te \in TxStates /\ te.next \in Nat /\ te.trans \in Nat
      /\ te.next_ack \in Nat /\ te.window \subseteq Nat
      /\ te.next_ack <= te.trans /\ te.trans <= te.next
      /\ te.window \subseteq te.next_ack..(te.next - 1)
  BY DEF TxOrdered, TxStates
<1>2. e \in Nat
  BY <1>1, EstimateIsCongruent
<1> HIDE DEF e
<1>3. u = te \/ (e < te.next /\ te.trans <= e /\ u = [te EXCEPT !.trans = e + 1])
  BY <1>1, <1>2 DEF HandleTransmitNotification, e
<1> HIDE DEF u
<1>4. CASE u = te
  BY <1>4 DEF u
<1>5. CASE e < te.next /\ te.trans <= e /\ u = [te EXCEPT !.trans = e + 1]
  <2>1. /\ u \in TxStates /\ u.next = te.next /\ u.next_ack = te.next_ack
        /\ u.trans = e + 1 /\ u.window = te.window
    BY <1>1, <1>2, <1>5 DEF TxStates
  <2>2. TxOrdered(u)
    BY <1>1, <1>2, <1>5, <2>1 DEF TxOrdered
  <2>3. QED
    BY <2>1, <2>2 DEF u
<1>6. QED
  BY <1>3, <1>4, <1>5

(* A delivery notification gives up SDUs up to a COUNT below TX_NEXT that  *)
(* has the SN it names.                                                    *)
LEMMA TxDelivered ==
  ASSUME NEW te, TxOrdered(te), NEW sn \in 0..(SnMod - 1)
  PROVE  /\ TxOrdered(HandleDeliveryNotification(te, sn))
         /\ HandleDeliveryNotification(te, sn).next = te.next
         /\ HandleDeliveryNotification(te, sn).window \subseteq te.window
         /\ \E e \in Nat :
              /\ e % SnMod = sn
              /\ \A c \in te.window :
                   c \in HandleDeliveryNotification(te, sn).window
                     \/ (c <= e /\ e < te.next)
<1> DEFINE e == CountEstimate(te.next_ack, sn)
           u == HandleDeliveryNotification(te, sn)
<1>1. te.next_ack \in Nat
  BY DEF TxOrdered, TxStates
<1>2. e \in Nat /\ e % SnMod = sn
  BY <1>1, EstimateIsCongruent
<1> HIDE DEF e
<1>3. u = te \/ u = StopDiscardTimer(te, e)
  BY DEF HandleDeliveryNotification, e
<1> HIDE DEF u
<1>4. /\ TxOrdered(u) /\ u.next = te.next /\ u.window \subseteq te.window
      /\ \A c \in te.window : c \in u.window \/ (c <= e /\ e < te.next)
  BY <1>2, <1>3, TxStops
<1>5. QED
  BY <1>2, <1>4 DEF u

(* Re-establishment sends the whole window again.                          *)
LEMMA TxReestablishes ==
  ASSUME NEW te, TxOrdered(te)
  PROVE  /\ TxOrdered(TxReestablish(te))
         /\ TxReestablish(te).next = te.next
         /\ TxReestablish(te).window = te.window
         /\ Retransmitted(te) = te.window
         /\ IsFiniteSet(te.window)
<1>1. /\ te \in TxStates /\ te.next \in Nat /\ te.trans \in Nat
      /\ te.next_ack \in Nat /\ te.window \subseteq Nat
      /\ te.next_ack <= te.trans /\ te.trans <= te.next
      /\ te.window \subseteq te.next_ack..(te.next - 1)
      /\ \A c \in te.window : te.next_ack <= c /\ c < te.next
  BY DEF TxOrdered, TxStates
<1>2. /\ TxReestablish(te) \in TxStates /\ TxReestablish(te).next = te.next
      /\ TxReestablish(te).next_ack = te.next_ack
      /\ TxReestablish(te).trans = te.next_ack
      /\ TxReestablish(te).window = te.window
  BY <1>1 DEF TxReestablish, TxStates
<1>3. TxOrdered(TxReestablish(te))
  BY <1>1, <1>2 DEF TxOrdered
<1>4. Retransmitted(te) = te.window
  BY <1>1 DEF Retransmitted
<1>5. IsFiniteSet(te.window)
  <2>1. te.next_ack \in Int /\ te.next - 1 \in Int
    BY <1>1
  <2>2. QED
    BY <1>1, <2>1, FS_Interval, FS_Subset
<1>6. QED
  BY <1>2, <1>3, <1>4, <1>5
-----------------------------------------------------------------------------
(* The receiving entity.  RX_DELIV, RX_REORD and RX_NEXT are in order, its *)
(* window lies between the first and the last of them, and t-Reordering    *)
(* runs exactly when something is missing.                                 *)
RxStates ==
  [deliv : Nat, next : Nat, reord : Nat, timer : BOOLEAN, window : SUBSET Nat]

RxBounded(re) ==
  /\ re \in RxStates
  /\ re.deliv <= re.next
  /\ re.window \subseteq (re.deliv + 1)..(re.next - 1)

RxOrdered(re) ==
  /\ RxBounded(re)
  /\ re.timer <=> re.deliv < re.next
  /\ re.timer => re.deliv < re.reord /\ re.reord <= re.next

(* The receiving entity starts in order.                                   *)
LEMMA RxInitially ==
  ASSUME NEW start \in Nat
  PROVE  RxOrdered(RxInit(start))
  BY DEF RxOrdered, RxBounded, RxStates, RxInit

(* The types of the fields, as the other proofs use them.                  *)
LEMMA RxFields ==
  ASSUME NEW re, RxBounded(re)
  PROVE  /\ re \in RxStates /\ re.deliv \in Nat /\ re.next \in Nat
         /\ re.reord \in Nat /\ re.timer \in BOOLEAN /\ re.window \subseteq Nat
         /\ re.deliv <= re.next
         /\ \A c \in re.window : c \in Nat /\ re.deliv < c /\ c < re.next
  BY DEF RxBounded, RxStates

(* deliver_all_consecutive_counts stops at RX_NEXT or at a missing COUNT.  *)
LEMMA GapIsMissing ==
  ASSUME NEW window \in SUBSET Nat, NEW deliv \in Nat, NEW next \in Nat, deliv <= next
  PROVE  /\ FirstGap(window, deliv, next) \in Nat
         /\ deliv <= FirstGap(window, deliv, next)
         /\ FirstGap(window, deliv, next) <= next
         /\ \/ FirstGap(window, deliv, next) = next
            \/ FirstGap(window, deliv, next) \notin window
<1> DEFINE S == {c \in deliv..next : c = next \/ c \notin window}
<1>1. S \in SUBSET Int /\ S \in SUBSET (deliv..next) /\ next \in S
  OBVIOUS
<1>2. IsFiniteSet(S)
  <2>1. deliv \in Int /\ next \in Int
    OBVIOUS
  <2>2. QED
    BY <1>1, <2>1, FS_Interval, FS_Subset
<1>3. S # {}
  BY <1>1
<1>4. Min(S) \in S
  BY <1>1, <1>2, <1>3, MinIsLeast
<1> DEFINE g == Min(S)
<1>5. g \in deliv..next /\ (g = next \/ g \notin window)
  BY <1>4
<1>6. FirstGap(window, deliv, next) = g
  BY DEF FirstGap
<1> HIDE DEF g
<1>7. QED
  BY <1>5, <1>6

(* Delivery up to a missing COUNT keeps what is beyond it.                 *)
LEMMA RxDeliversBelow ==
  ASSUME NEW re \in RxStates, NEW g \in Nat, g <= re.next,
         g = re.next \/ g \notin re.window,
         \A c \in re.window : c < re.next
  PROVE  /\ RxBounded(DeliverBelow(re, g))
         /\ DeliverBelow(re, g).deliv = g
         /\ DeliverBelow(re, g).next = re.next
         /\ DeliverBelow(re, g).reord = re.reord
         /\ DeliverBelow(re, g).window \subseteq re.window
         /\ \A c \in re.window : c \in DeliverBelow(re, g).window \/ c < g
<1> DEFINE w == {c \in re.window : c >= g}
           u == DeliverBelow(re, g)
<1>1. re.next \in Nat /\ re.window \subseteq Nat
  BY DEF RxStates
<1>2. /\ w \in SUBSET Nat /\ w \subseteq re.window
      /\ \A c \in re.window : c \in w \/ c < g
      /\ \A c \in w : c \in Nat /\ g < c /\ c < re.next
  BY <1>1
<1>3. u = [re EXCEPT !.deliv = g, !.window = w]
  BY DEF DeliverBelow
<1> HIDE DEF w, u
<1>4. u \in RxStates /\ u.deliv = g /\ u.next = re.next /\ u.reord = re.reord
      /\ u.window = w
  BY <1>2, <1>3 DEF RxStates
<1>5. u.window \subseteq (u.deliv + 1)..(u.next - 1)
  <2>1. \A c \in w : c \in (g + 1)..(re.next - 1)
    BY <1>1, <1>2
  <2>2. QED
    BY <1>4, <2>1
<1>6. RxBounded(u)
  BY <1>4, <1>5 DEF RxBounded
<1>7. QED
  BY <1>2, <1>4, <1>6 DEF u

(* t-Reordering is left to run, started again or stopped as it must be.    *)
LEMMA TimerIsRight ==
  ASSUME NEW re, RxBounded(re), NEW running \in BOOLEAN,
         running => re.deliv < re.reord /\ re.reord <= re.next
  PROVE  /\ RxOrdered(HandleReorderingTimer(re, running))
         /\ HandleReorderingTimer(re, running).deliv = re.deliv
         /\ HandleReorderingTimer(re, running).next = re.next
         /\ HandleReorderingTimer(re, running).window = re.window
<1> DEFINE u == HandleReorderingTimer(re, running)
<1>1. /\ re \in RxStates /\ re.deliv \in Nat /\ re.next \in Nat /\ re.reord \in Nat
      /\ re.deliv <= re.next
      /\ re.window \subseteq (re.deliv + 1)..(re.next - 1)
  BY DEF RxBounded, RxStates
<1>2. CASE ~running /\ re.deliv < re.next
  <2>1. u = [re EXCEPT !.reord = re.next, !.timer = TRUE]
    BY <1>2 DEF HandleReorderingTimer
  <2> HIDE DEF u
  <2>2. /\ u \in RxStates /\ u.deliv = re.deliv /\ u.next = re.next
        /\ u.window = re.window /\ u.reord = re.next /\ u.timer = TRUE
    BY <1>1, <2>1 DEF RxStates
  <2>3. RxOrdered(u)
    BY <1>1, <1>2, <2>2 DEF RxOrdered, RxBounded
  <2>4. QED
    BY <2>2, <2>3 DEF u
<1>3. CASE ~(~running /\ re.deliv < re.next)
  <2>1. u = [re EXCEPT !.timer = running]
    BY <1>3 DEF HandleReorderingTimer
  <2> HIDE DEF u
  <2>2. /\ u \in RxStates /\ u.deliv = re.deliv /\ u.next = re.next
        /\ u.window = re.window /\ u.reord = re.reord /\ u.timer = running
    BY <1>1, <2>1 DEF RxStates
  <2>3. running <=> re.deliv < re.next
    BY <1>1, <1>3
  <2>4. RxOrdered(u)
    BY <1>1, <2>2, <2>3 DEF RxOrdered, RxBounded
  <2>5. QED
    BY <2>2, <2>4 DEF u
<1>4. QED
  BY <1>2, <1>3

(* A PDU that is not dropped is in the window or delivered afterwards, and *)
(* no other SDU is given up but one whose slot it takes.                   *)
LEMMA RxReceives ==
  ASSUME NEW re, RxOrdered(re), NEW count \in Nat, re.deliv <= count,
         count \notin re.window
  PROVE  /\ RxOrdered(RxHandleDataPdu(re, count))
         /\ re.deliv <= RxHandleDataPdu(re, count).deliv
         /\ RxHandleDataPdu(re, count).next =
              (IF count >= re.next THEN count + 1 ELSE re.next)
         /\ \/ count \in RxHandleDataPdu(re, count).window
            \/ count < RxHandleDataPdu(re, count).deliv
         /\ \A c \in re.window :
              \/ c \in RxHandleDataPdu(re, count).window
              \/ c < RxHandleDataPdu(re, count).deliv
              \/ c + window_size <= count
              \/ count + window_size <= c
<1> DEFINE u == RxHandleDataPdu(re, count)
           old == {c \in re.window : c % window_size # count % window_size}
           w == old \cup {count}
           n == IF count >= re.next THEN count + 1 ELSE re.next
           stored == [re EXCEPT !.window = w,
                                !.next = IF count >= re.next THEN count + 1 ELSE @]
           g == FirstGap(w, re.deliv, n)
           after == IF count = re.deliv THEN DeliverBelow(stored, g) ELSE stored
           running == re.timer /\ after.deliv < after.reord
<1>1. /\ re \in RxStates /\ re.deliv \in Nat /\ re.next \in Nat
      /\ re.reord \in Nat /\ re.timer \in BOOLEAN /\ re.window \subseteq Nat
      /\ re.deliv <= re.next
      /\ \A c \in re.window : c \in Nat /\ re.deliv < c /\ c < re.next
      /\ re.timer => re.deliv < re.reord /\ re.reord <= re.next
  BY RxFields DEF RxOrdered
<1>2. n \in Nat /\ count < n /\ re.next <= n
  BY <1>1
<1>3. \A c \in re.window : c \in old \/ c + window_size <= count
                             \/ count + window_size <= c
  <2> SUFFICES ASSUME NEW c \in re.window, c % window_size = count % window_size
               PROVE  c + window_size <= count \/ count + window_size <= c
    OBVIOUS
  <2>1. c \in Nat /\ window_size \in Nat \ {0}
    BY <1>1, WindowSize
  <2>2. c < count => c + window_size <= count
    BY <2>1, Congruent
  <2>3. count < c => count + window_size <= c
    BY <2>1, Congruent
  <2>4. QED
    BY <2>1, <2>2, <2>3
<1>4. /\ w \in SUBSET Nat
      /\ \A c \in w : c \in Nat /\ re.deliv <= c /\ c < n
      /\ \A c \in w : c = count \/ c \in re.window
      /\ count \in w /\ \A c \in old : c \in w
  BY <1>1, <1>2
<1>5. stored = [re EXCEPT !.window = w, !.next = n]
  BY <1>1 DEF RxStates
<1> HIDE DEF w, n, old, stored
<1>6. /\ stored \in RxStates /\ stored.deliv = re.deliv /\ stored.next = n
      /\ stored.reord = re.reord /\ stored.timer = re.timer /\ stored.window = w
  <2>1. re \in RxStates
    BY <1>1
  <2>2. QED
    BY <1>2, <1>4, <1>5, <2>1 DEF RxStates
<1>7. u = HandleReorderingTimer(after, running)
  BY <1>6 DEF RxHandleDataPdu, stored, w, old, n
<1>8. /\ RxBounded(after) /\ re.deliv <= after.deliv /\ after.next = n
      /\ after.reord = re.reord
      /\ \A c \in w : c \in after.window \/ c < after.deliv
  <2>1. CASE count = re.deliv
    <3>1. g \in Nat /\ re.deliv <= g /\ g <= n /\ (g = n \/ g \notin w)
      BY <1>1, <1>2, <1>4, GapIsMissing
    <3> HIDE DEF g
    <3>2. after = DeliverBelow(stored, g)
      BY <2>1
    <3> HIDE DEF after
    <3>3. \A c \in stored.window : c < stored.next
      BY <1>4, <1>6
    <3>4. /\ RxBounded(after) /\ after.deliv = g /\ after.next = n
          /\ after.reord = re.reord
          /\ \A c \in w : c \in after.window \/ c < g
      BY <1>6, <3>1, <3>2, <3>3, RxDeliversBelow
    <3>5. QED
      BY <3>1, <3>4
  <2>2. CASE count # re.deliv
    <3>1. after = stored
      BY <2>2
    <3> HIDE DEF after
    <3>2. \A c \in w : re.deliv < c
      BY <1>1, <1>4, <2>2
    <3>3. w \subseteq (re.deliv + 1)..(n - 1)
      BY <1>1, <1>2, <1>4, <3>2
    <3>4. RxBounded(stored)
      BY <1>1, <1>2, <1>6, <3>3 DEF RxBounded
    <3>5. QED
      BY <1>1, <1>6, <3>1, <3>4
  <2>3. QED
    BY <2>1, <2>2
<1> HIDE DEF after
<1>9. running \in BOOLEAN /\ (running => after.deliv < after.reord /\ after.reord <= after.next)
  BY <1>1, <1>2, <1>8
<1> HIDE DEF running, u
<1>10. /\ RxOrdered(u) /\ u.deliv = after.deliv /\ u.next = n
       /\ u.window = after.window
  BY <1>7, <1>8, <1>9, TimerIsRight
<1>11. \A c \in w : c \in u.window \/ c < u.deliv
  BY <1>8, <1>10
<1>12. count \in u.window \/ count < u.deliv
  BY <1>4, <1>11
<1>13. \A c \in re.window : \/ c \in u.window \/ c < u.deliv
                            \/ c + window_size <= count \/ count + window_size <= c
  BY <1>3, <1>4, <1>11
<1>14. re.deliv <= u.deliv /\ u.next = (IF count >= re.next THEN count + 1 ELSE re.next)
  BY <1>8, <1>10 DEF n
<1>15. QED
  BY <1>10, <1>12, <1>13, <1>14 DEF u

(* The expiry of t-Reordering moves RX_DELIV on and loses nothing else.    *)
LEMMA RxExpires ==
  ASSUME NEW re, RxOrdered(re), re.timer
  PROVE  /\ RxOrdered(RxHandleTReorderingExpire(re))
         /\ re.deliv <= RxHandleTReorderingExpire(re).deliv
         /\ RxHandleTReorderingExpire(re).next = re.next
         /\ \A c \in re.window :
              \/ c \in RxHandleTReorderingExpire(re).window
              \/ c < RxHandleTReorderingExpire(re).deliv
<1> DEFINE u == RxHandleTReorderingExpire(re)
           g == FirstGap(re.window, re.reord, re.next)
           after == DeliverBelow(re, g)
<1>1. /\ re \in RxStates /\ re.deliv \in Nat /\ re.next \in Nat
      /\ re.reord \in Nat /\ re.window \in SUBSET Nat
      /\ \A c \in re.window : c < re.next
      /\ re.deliv < re.reord /\ re.reord <= re.next
  BY RxFields DEF RxOrdered
<1>2. /\ g \in Nat /\ re.reord <= g /\ g <= re.next
      /\ (g = re.next \/ g \notin re.window)
  BY <1>1, GapIsMissing
<1>3. u = HandleReorderingTimer(after, FALSE)
  BY DEF RxHandleTReorderingExpire
<1> HIDE DEF g, u
<1>4. /\ RxBounded(after) /\ after.deliv = g /\ after.next = re.next
      /\ \A c \in re.window : c \in after.window \/ c < g
  BY <1>1, <1>2, RxDeliversBelow
<1> HIDE DEF after
<1>5. /\ RxOrdered(u) /\ u.deliv = after.deliv /\ u.next = after.next
      /\ u.window = after.window
  BY <1>3, <1>4, TimerIsRight
<1>6. re.deliv <= u.deliv
  BY <1>1, <1>2, <1>4, <1>5
<1>7. QED
  BY <1>4, <1>5, <1>6 DEF u

(* What a step of the receiving entity delivers lies between RX_DELIV      *)
(* before and after it, in ascending order.                                *)
LEMMA RxDeliversInOrder ==
  ASSUME NEW re, NEW rx2, RxOrdered(re), RxOrdered(rx2),
         NEW arrived \in SUBSET Nat, \A c \in arrived : re.deliv <= c
  PROVE  /\ RxDelivers(re, rx2, arrived) \in Seq(Nat)
         /\ \A i \in DOMAIN RxDelivers(re, rx2, arrived) :
              /\ re.deliv <= RxDelivers(re, rx2, arrived)[i]
              /\ RxDelivers(re, rx2, arrived)[i] < rx2.deliv
         /\ \A i, j \in DOMAIN RxDelivers(re, rx2, arrived) :
              i < j => RxDelivers(re, rx2, arrived)[i] < RxDelivers(re, rx2, arrived)[j]
<1> DEFINE S == {c \in re.window \cup arrived : c < rx2.deliv}
           s == RxDelivers(re, rx2, arrived)
<1>1. /\ re.deliv \in Nat /\ rx2.deliv \in Nat /\ re.window \subseteq Nat
      /\ \A c \in re.window : re.deliv < c
  BY RxFields DEF RxOrdered
<1>2. /\ S \in SUBSET Nat
      /\ \A c \in S : re.deliv <= c /\ c < rx2.deliv
  <2>1. \A c \in re.window : c \in Nat /\ re.deliv <= c
    BY <1>1
  <2>2. \A c \in arrived : c \in Nat /\ re.deliv <= c
    OBVIOUS
  <2>3. QED
    BY <2>1, <2>2
<1> HIDE DEF S
<1>3. IsFiniteSet(S)
  <2>1. rx2.deliv \in Nat /\ \A c \in S : c <= rx2.deliv
    BY <1>1, <1>2
  <2>2. QED
    BY <1>2, <2>1, FS_BoundedSetOfNaturals, Zenon
<1>4. s = Ascending(S)
  BY DEF RxDelivers, S
<1> HIDE DEF s
<1>5. /\ s \in Seq(S)
      /\ \A i, j \in DOMAIN s : i < j => s[i] < s[j]
  BY <1>2, <1>3, <1>4, AscendingSorts
<1>6. \A i \in DOMAIN s : s[i] \in S
  BY <1>5
<1>7. s \in Seq(Nat)
  <2>1. Len(s) \in Nat /\ s \in [1..Len(s) -> S] /\ S \subseteq Nat
    BY <1>2, <1>5
  <2>2. s \in [1..Len(s) -> Nat]
    BY <2>1
  <2>3. QED
    BY <2>1, <2>2
<1>8. QED
  BY <1>2, <1>5, <1>6, <1>7 DEF s

-----------------------------------------------------------------------------
(* The bearer.                                                             *)

(* The counts of the PDUs on their way to the peer, in RLC, in its queue   *)
(* and on F1-U.                                                            *)
RlcCounts == {rlc[i].count : i \in DOMAIN rlc}
QueueCounts == {sdu_queue[i].count : i \in DOMAIN sdu_queue}
PduCounts == {dl_f1u[i].pdu : i \in DOMAIN dl_f1u} \ {NoCount}
OnTheWay == RlcCounts \cup QueueCounts \cup PduCounts

(* PDCP need not keep the SDU any longer.                                  *)
Settled(c) == c \in rx.window \/ c < rx.deliv \/ c \in lost \cup discarded

(* The data delivery status messages, and the one the DU would send now.   *)
Reports == Append(ul_f1u, du)

MaybeCount == Nat \cup {NoCount}
DlMessages == [pdu : MaybeCount, retx : BOOLEAN, discard : SUBSET Nat]
QueuedSdus == [count : Nat, retx : BOOLEAN, discarded : BOOLEAN]
SentSdus == [count : Nat, retx : BOOLEAN, got : BOOLEAN]
CuStates == [notif_tx : MaybeCount, notif_dl : MaybeCount, blocks : SUBSET Nat]
DuStates == [tx : MaybeCount, dl : MaybeCount]

TypeInv ==
  /\ connected \in BOOLEAN /\ failure \in BOOLEAN
  /\ cu \in CuStates /\ du \in DuStates
  /\ dl_f1u \in Seq(DlMessages) /\ ul_f1u \in Seq(DuStates)
  /\ sdu_queue \in Seq(QueuedSdus) /\ rlc \in Seq(SentSdus)
  /\ delivered \in Seq(Nat)
  /\ report \subseteq [fmc : Nat, received : SUBSET Nat]
  /\ lost \subseteq Nat /\ discarded \subseteq Nat

(* Both entities are in order.  The transmitting one is never more than a  *)
(* window ahead of the receiving one, and the window it keeps is no larger *)
(* than the circular map that holds it.                                    *)
EntityInv ==
  /\ TxOrdered(tx) /\ RxOrdered(rx)
  /\ Start <= tx.next /\ tx.next <= MaxCountHard
  /\ rx.next <= tx.next /\ tx.next <= rx.deliv + window_size
  /\ \A c \in tx.window : tx.next <= c + window_size

(* What was delivered lies below RX_DELIV, in ascending order.             *)
DeliveredInv ==
  /\ \A i \in DOMAIN delivered : delivered[i] < rx.deliv
  /\ InOrderDelivery

(* PDUs do not overtake one another between PDCP and RLC, and their SNs    *)
(* tell them apart.                                                        *)
OrderInv ==
  /\ \A i, j \in DOMAIN rlc : i < j => rlc[i].count < rlc[j].count
  /\ \A i, j \in DOMAIN sdu_queue : i < j => sdu_queue[i].count < sdu_queue[j].count
  /\ \A i, j \in DOMAIN dl_f1u :
       i < j /\ dl_f1u[j].pdu # NoCount => dl_f1u[i].pdu < dl_f1u[j].pdu
  /\ \A a \in RlcCounts, b \in QueueCounts \cup PduCounts : a < b
  /\ \A a \in QueueCounts, b \in PduCounts : a < b
  /\ \A a \in OnTheWay : a < tx.next /\ tx.next <= a + SnMod

(* F1-U carries nothing while it is not connected.                         *)
UnconnectedInv ==
  ~connected /\ ~failure =>
    /\ cu.blocks = {} /\ dl_f1u = << >> /\ ul_f1u = << >>
    /\ du = NewDuBearer /\ sdu_queue = << >> /\ rlc = << >>

(* An SDU in the window of PDCP is settled or on its way.  What the peer's *)
(* RLC got and what was discarded in the queue is settled.                 *)
CoverInv ==
  /\ connected => \A c \in tx.window : Settled(c) \/ c \in OnTheWay
  /\ \A i \in DOMAIN rlc : rlc[i].got => Settled(rlc[i].count)
  /\ \A i \in DOMAIN sdu_queue :
       sdu_queue[i].discarded => Settled(sdu_queue[i].count)

(* The SDUs whose discard is on its way to the queue are settled, and no   *)
(* other SDU that the queue will hold by then has the SN of one of them.   *)
DiscardInv ==
  /\ \A b \in cu.blocks : Settled(b) /\ b < tx.next /\ tx.next <= b + window_size
  /\ \A i \in DOMAIN dl_f1u : \A b \in dl_f1u[i].discard :
       /\ Settled(b) /\ b < tx.next
       /\ \A a \in QueueCounts : a < b + SnMod
       /\ \A j \in DOMAIN dl_f1u : j <= i => dl_f1u[j].pdu < b + SnMod

(* A status report of the peer says what the peer has.                     *)
ReportInv ==
  \A r \in report : /\ r.fmc <= rx.deliv
                    /\ \A c \in r.received : c \in rx.window \/ c < rx.deliv

(* The delivery status messages are in the order of the COUNTs they name,  *)
(* all of it is settled, and one that is news for PDCP names the last PDU  *)
(* with its SN.                                                            *)
NewsInv ==
  /\ \A i, j \in DOMAIN Reports : i < j => Reports[i].dl <= Reports[j].dl
  /\ \A i \in DOMAIN Reports : \A c \in tx.window : c <= Reports[i].dl => Settled(c)
  /\ du.dl < tx.next /\ \A a \in OnTheWay : du.dl < a
  /\ \A i \in DOMAIN Reports :
       IsNews(cu.notif_dl, Reports[i].dl) => tx.next <= Reports[i].dl + SnMod

(* Every SDU is in the window of PDCP or settled.                          *)
LossInv == \A c \in Start..(tx.next - 1) : c \in tx.window \/ Settled(c)

IInv ==
  /\ TypeInv /\ EntityInv /\ DeliveredInv /\ OrderInv /\ UnconnectedInv
  /\ CoverInv /\ DiscardInv /\ ReportInv /\ NewsInv /\ LossInv

(* What the tasks of replaced F1-U bearers notify PDCP of, if they still   *)
(* find their bearer: PDUs that it has sent, the last ones with their SNs, *)
(* and everything up to them is settled.                                   *)
OldInv ==
  /\ old_ul \in Seq(DuStates)
  /\ \A i \in DOMAIN old_ul :
       /\ old_ul[i].dl < tx.next
       /\ old_ul[i].dl # NoCount => tx.next <= old_ul[i].dl + SnMod
       /\ \A c \in tx.window : c <= old_ul[i].dl => Settled(c)
-----------------------------------------------------------------------------
(* Facts about sequences.                                                  *)

LEMMA Appended ==
  ASSUME NEW S, NEW s \in Seq(S), NEW e \in S, NEW t, t = Append(s, e)
  PROVE  /\ t \in Seq(S) /\ Len(s) \in Nat /\ Len(t) = Len(s) + 1
         /\ DOMAIN t = DOMAIN s \cup {Len(s) + 1}
         /\ \A i \in DOMAIN s : i \in Int /\ i < Len(s) + 1 /\ t[i] = s[i] /\ s[i] \in S
         /\ t[Len(s) + 1] = e
  OBVIOUS

(* A sequence without its first element.                                   *)
LEMMA Shortened ==
  ASSUME NEW S, NEW s \in Seq(S), s # << >>, NEW t, t = Tail(s)
  PROVE  /\ t \in Seq(S) /\ 1 \in DOMAIN s /\ Head(s) = s[1] /\ Head(s) \in S
         /\ \A i \in DOMAIN s : i \in Int /\ i >= 1 /\ s[i] \in S
         /\ \A i \in DOMAIN t : i \in Int /\ i + 1 \in DOMAIN s /\ t[i] = s[i + 1]
                                /\ 1 < i + 1
         /\ \A i \in DOMAIN s : i # 1 => i - 1 \in DOMAIN t /\ t[i - 1] = s[i]
  OBVIOUS

(* Two sequences, one after the other.                                     *)
LEMMA Concatenated ==
  ASSUME NEW S, NEW s \in Seq(S), NEW u \in Seq(S), NEW t, t = s \o u
  PROVE  /\ t \in Seq(S)
         /\ \A i \in DOMAIN t : \/ i \in DOMAIN s /\ t[i] = s[i]
                                \/ \E k \in DOMAIN u : t[i] = u[k]
<1>1. /\ t \in Seq(S) /\ Len(t) = Len(s) + Len(u) /\ Len(s) \in Nat /\ Len(u) \in Nat
      /\ DOMAIN s = 1..Len(s) /\ DOMAIN u = 1..Len(u) /\ DOMAIN t = 1..Len(t)
  OBVIOUS
<1>2. ASSUME NEW i \in DOMAIN t
      PROVE  \/ i \in DOMAIN s /\ t[i] = s[i]
             \/ \E k \in DOMAIN u : t[i] = u[k]
  <2>1. CASE i <= Len(s)
    BY <1>1, <2>1
  <2>2. CASE i > Len(s)
    <3>1. i - Len(s) \in DOMAIN u
      BY <1>1, <2>2
    <3>2. t[i] = u[i - Len(s)]
      BY <1>1, <2>2
    <3>3. QED
      BY <3>1, <3>2
  <2>3. QED
    BY <1>1, <2>1, <2>2
<1>3. QED
  BY <1>1, <1>2

(* A sequence without its first n elements.                                *)
LEMMA Suffix ==
  ASSUME NEW S, NEW s \in Seq(S), NEW n \in DOMAIN s, NEW t,
         t = SubSeq(s, n + 1, Len(s))
  PROVE  /\ t \in Seq(S) /\ n \in Int /\ s[n] \in S
         /\ \A i \in DOMAIN s : i \in Int /\ s[i] \in S
         /\ \A i \in DOMAIN t : i \in Int /\ i + n \in DOMAIN s /\ t[i] = s[i + n]
                                /\ n < i + n
         /\ \A i \in DOMAIN s : n < i => i - n \in DOMAIN t /\ t[i - n] = s[i]
<1>1. n \in Nat /\ n >= 1 /\ n <= Len(s) /\ Len(s) \in Nat
  OBVIOUS
<1>2. /\ t \in Seq(S) /\ Len(t) = Len(s) - n
      /\ \A i \in 1..(Len(s) - n) : t[i] = s[i + n]
  BY <1>1
<1>3. DOMAIN t = 1..(Len(s) - n) /\ DOMAIN s = 1..Len(s)
  BY <1>1, <1>2
<1>4. \A i \in DOMAIN t : i \in Int /\ i + n \in DOMAIN s /\ n < i + n
  BY <1>1, <1>3
<1>5. \A i \in DOMAIN s : n < i => i - n \in DOMAIN t /\ (i - n) + n = i
  BY <1>1, <1>3
<1>6. QED
  BY <1>1, <1>2, <1>3, <1>4, <1>5

-----------------------------------------------------------------------------
(* The types, as the other proofs use them.                                *)
LEMMA Types ==
  ASSUME IInv
  PROVE  /\ tx.next \in Nat /\ tx.window \subseteq Nat /\ rx.next \in Nat
         /\ rx.deliv \in Nat /\ rx.window \subseteq Nat
         /\ \A c \in tx.window : c \in Nat /\ c < tx.next
         /\ \A c \in rx.window : c \in Nat /\ rx.deliv < c /\ c < rx.next
         /\ TxOrdered(tx) /\ RxOrdered(rx) /\ RxBounded(rx)
  BY RxFields DEF IInv, EntityInv, TxOrdered, TxStates, RxOrdered

(* What is assumed of the constants.                                       *)
LEMMA Constants ==
  /\ window_size \in Nat /\ window_size >= 2 /\ SnMod \in Nat /\ SnMod = 2 * window_size
  /\ SnMod \in Nat \ {0} /\ Start \in Nat /\ MaxCountHard \in Nat
  /\ CountMod \in Nat /\ MaxCountHard < CountMod
  BY WindowSize, SnAssumption, TxAssumption, PdcpAssumption

(* The COUNTs in the messages and the queues.                              *)
LEMMA CountTypes ==
  ASSUME IInv
  PROVE  /\ RlcCounts \subseteq Nat /\ QueueCounts \subseteq Nat
         /\ PduCounts \subseteq Nat /\ OnTheWay \subseteq Nat
         /\ \A i \in DOMAIN rlc : rlc[i] \in SentSdus /\ rlc[i].count \in RlcCounts
         /\ \A i \in DOMAIN sdu_queue :
              sdu_queue[i] \in QueuedSdus /\ sdu_queue[i].count \in QueueCounts
         /\ \A i \in DOMAIN dl_f1u :
              /\ dl_f1u[i] \in DlMessages /\ dl_f1u[i].pdu \in Int
              /\ dl_f1u[i].pdu # NoCount => dl_f1u[i].pdu \in PduCounts
<1>1. rlc \in Seq(SentSdus) /\ sdu_queue \in Seq(QueuedSdus) /\ dl_f1u \in Seq(DlMessages)
  BY DEF IInv, TypeInv
<1>2. \A i \in DOMAIN rlc : rlc[i] \in SentSdus
  BY <1>1
<1>3. \A i \in DOMAIN sdu_queue : sdu_queue[i] \in QueuedSdus
  BY <1>1
<1>4. \A i \in DOMAIN dl_f1u : dl_f1u[i] \in DlMessages
  BY <1>1
<1>5. /\ \A m \in SentSdus : m.count \in Nat
      /\ \A m \in QueuedSdus : m.count \in Nat
      /\ \A m \in DlMessages : m.pdu \in MaybeCount
  BY DEF SentSdus, QueuedSdus, DlMessages
<1>6. RlcCounts \subseteq Nat
  BY <1>2, <1>5 DEF RlcCounts
<1>7. QueueCounts \subseteq Nat
  BY <1>3, <1>5 DEF QueueCounts
<1>8. PduCounts \subseteq Nat
  BY <1>4, <1>5 DEF PduCounts, MaybeCount
<1>9. \A i \in DOMAIN dl_f1u : dl_f1u[i].pdu \in Int
  BY <1>4, <1>5 DEF MaybeCount, NoCount
<1>10. QED
  BY <1>2, <1>3, <1>4, <1>6, <1>7, <1>8, <1>9
     DEF RlcCounts, QueueCounts, PduCounts, OnTheWay

(* The delivery status messages.                                           *)
LEMMA ReportTypes ==
  ASSUME IInv
  PROVE  /\ ul_f1u \in Seq(DuStates) /\ du \in DuStates
         /\ Reports \in Seq(DuStates) /\ Len(ul_f1u) \in Nat
         /\ DOMAIN Reports = DOMAIN ul_f1u \cup {Len(ul_f1u) + 1}
         /\ \A i \in DOMAIN ul_f1u : /\ i \in Int /\ i < Len(ul_f1u) + 1
                                     /\ Reports[i] = ul_f1u[i]
         /\ Reports[Len(ul_f1u) + 1] = du
         /\ \A i \in DOMAIN Reports : Reports[i].dl \in MaybeCount /\ Reports[i].dl \in Int
         /\ du.dl \in MaybeCount /\ du.dl \in Int
<1>1. ul_f1u \in Seq(DuStates) /\ du \in DuStates
  BY DEF IInv, TypeInv
<1>2. Reports = Append(ul_f1u, du)
  BY DEF Reports
<1>3. /\ Reports \in Seq(DuStates) /\ Len(ul_f1u) \in Nat
      /\ DOMAIN Reports = DOMAIN ul_f1u \cup {Len(ul_f1u) + 1}
      /\ \A i \in DOMAIN ul_f1u : /\ i \in Int /\ i < Len(ul_f1u) + 1
                                  /\ Reports[i] = ul_f1u[i]
      /\ Reports[Len(ul_f1u) + 1] = du
  BY <1>1, <1>2, Appended
<1>4. \A r \in DuStates : r.dl \in MaybeCount /\ r.dl \in Int
  BY DEF DuStates, MaybeCount, NoCount
<1>5. \A i \in DOMAIN Reports : Reports[i] \in DuStates
  BY <1>3
<1>6. QED
  BY <1>1, <1>3, <1>4, <1>5

(* Settled in the next state.                                              *)
WillBeSettled(c) == c \in rx'.window \/ c < rx'.deliv \/ c \in lost' \cup discarded'

(* The two ways to say it are one.                                         *)
LEMMA WillBe == \A c : Settled(c)' <=> WillBeSettled(c)
  BY DEF Settled, WillBeSettled

(* What is settled stays so while the peer loses nothing.                  *)
LEMMA SettledStays ==
  ASSUME IInv, rx'.deliv \in Nat, rx.deliv <= rx'.deliv,
         \A c \in rx.window : c \in rx'.window \/ c < rx'.deliv,
         lost \subseteq lost', discarded \subseteq discarded'
  PROVE  \A c \in Nat : Settled(c) => Settled(c)'
<1>1. rx.deliv \in Nat
  BY Types
<1>2. \A c \in Nat : c < rx.deliv => c < rx'.deliv
  BY <1>1
<1>3. QED
  BY <1>2 DEF Settled

(* It stays so as long as the peer does nothing.                           *)
LEMMA SettledSame ==
  ASSUME UNCHANGED rx, lost \subseteq lost', discarded \subseteq discarded'
  PROVE  \A c : Settled(c) => Settled(c)'
  BY DEF Settled
-----------------------------------------------------------------------------
(* What the actions do to the state that the invariant is about.           *)

LEMMA SduStep ==
  ASSUME IInv, HandleSdu
  PROVE  /\ TxOrdered(tx') /\ tx'.next = tx.next + 1 /\ tx.next \in tx'.window
         /\ tx'.window \subseteq tx.window \cup {tx.next}
         /\ \A c \in tx.window : c \in tx'.window \/ c < rx.deliv
         /\ \A c \in tx'.window : tx'.next <= c + window_size
         /\ tx.next < rx.deliv + window_size /\ tx.next < MaxCountHard
         /\ \A a \in OnTheWay : tx'.next <= a + SnMod
         /\ \A i \in DOMAIN Reports :
              IsNews(cu.notif_dl, Reports[i].dl) => tx'.next <= Reports[i].dl + SnMod
         /\ UNCHANGED <<connected, ul_f1u, du, sdu_queue, rlc, rx, delivered, report,
                        lost, discarded, failure>>
<1>1. /\ tx.next < rx.deliv + window_size
      /\ \A count \in Outstanding : tx.next < count + SnMod
      /\ ~TxRefuses(tx) /\ tx' = TxHandleSdu(tx)
      /\ UNCHANGED <<connected, ul_f1u, du, sdu_queue, rlc, rx, delivered, report,
                     lost, discarded, failure>>
  BY DEF HandleSdu, Paced, rlc_vars, peer_vars
<1>2. /\ tx.next \in Nat /\ rx.deliv \in Nat /\ TxOrdered(tx)
      /\ \A c \in tx.window : c \in Nat /\ c < tx.next
  BY Types
<1>3. window_size \in Nat /\ window_size >= 2 /\ SnMod \in Nat /\ MaxCountHard \in Nat
  BY Constants
<1>4. /\ TxOrdered(tx') /\ tx'.next = tx.next + 1 /\ tx.next \in tx'.window
      /\ tx'.window \subseteq tx.window \cup {tx.next}
      /\ \A c \in tx.window : c \in tx'.window \/ c + window_size <= tx.next
      /\ \A c \in tx'.window : tx.next + 1 <= c + window_size \/ c + window_size < tx.next
  BY <1>1, <1>2, TxSends
<1>5. \A c \in tx.window : c \in tx'.window \/ c < rx.deliv
  BY <1>1, <1>2, <1>3, <1>4
<1>6. \A c \in tx'.window : tx'.next <= c + window_size
  <2> SUFFICES ASSUME NEW c \in tx'.window PROVE tx.next + 1 <= c + window_size
    BY <1>4
  <2>1. CASE c = tx.next
    BY <2>1, <1>2, <1>3
  <2>2. CASE c \in tx.window
    <3>1. tx.next <= c + window_size /\ c \in Nat
      BY <2>2, <1>2 DEF IInv, EntityInv
    <3>2. QED
      BY <3>1, <1>2, <1>3, <1>4
  <2>3. QED
    BY <1>4, <2>1, <2>2
<1>7. tx.next < MaxCountHard
  BY <1>1, <1>2, <1>3 DEF TxRefuses
<1>8. OnTheWay \subseteq Outstanding
  BY DEF OnTheWay, RlcCounts, QueueCounts, PduCounts, Outstanding, ToSet
<1>9. \A a \in OnTheWay : tx.next + 1 <= a + SnMod
  <2>1. OnTheWay \subseteq Nat
    BY CountTypes
  <2>2. ASSUME NEW a \in OnTheWay PROVE tx.next + 1 <= a + SnMod
    <3>1. a \in Nat /\ tx.next < a + SnMod
      BY <1>1, <1>8, <2>1
    <3>2. QED
      BY <3>1, <1>2, <1>3
  <2>3. QED
    BY <2>2
<1>10. ASSUME NEW i \in DOMAIN Reports, IsNews(cu.notif_dl, Reports[i].dl)
       PROVE  tx.next + 1 <= Reports[i].dl + SnMod
  <2>1. Reports[i].dl \in Int
    BY ReportTypes
  <2>2. Reports[i] \in ToSet(ul_f1u) \cup {du}
    BY ReportTypes DEF ToSet
  <2>3. Reports[i].dl \in Outstanding
    BY <1>10, <2>2 DEF Outstanding
  <2>4. tx.next < Reports[i].dl + SnMod
    BY <2>3, <1>1
  <2>5. QED
    BY <2>1, <2>4, <1>2, <1>3
<1>11. QED
  BY <1>1, <1>4, <1>5, <1>6, <1>7, <1>9, <1>10

(* The message of handle_sdu, and the one that only carries discards.      *)
LEMMA Sends ==
  ASSUME IInv, HandleSdu \/ FlushDiscardBlocks
  PROVE  \/ /\ ~connected /\ UNCHANGED <<dl_f1u, cu>>
            /\ HandleSdu
         \/ /\ connected \/ cu.blocks # {}
            /\ cu' \in CuStates /\ cu'.blocks = {} /\ cu'.notif_dl = cu.notif_dl
            /\ \E m \in DlMessages :
                 /\ dl_f1u' = Append(dl_f1u, m) /\ m.discard = cu.blocks
                 /\ \/ HandleSdu /\ m.pdu = tx.next
                    \/ m.pdu = NoCount /\ UNCHANGED tx
<1>1. cu \in CuStates /\ cu.blocks \in SUBSET Nat
  BY DEF IInv, TypeInv, CuStates
<1>2. /\ [cu EXCEPT !.blocks = {}] \in CuStates
      /\ [cu EXCEPT !.blocks = {}].blocks = {}
      /\ [cu EXCEPT !.blocks = {}].notif_dl = cu.notif_dl
  BY <1>1 DEF CuStates
<1>3. ASSUME NEW n \in MaybeCount
      PROVE  /\ DlMessage(cu, n, FALSE) \in DlMessages
             /\ DlMessage(cu, n, FALSE).pdu = n
             /\ DlMessage(cu, n, FALSE).discard = cu.blocks
  BY <1>1 DEF DlMessage, DlMessages
<1>4. tx.next \in MaybeCount /\ NoCount \in MaybeCount
  BY Types DEF MaybeCount
<1>5. CASE HandleSdu /\ connected
  <2>1. cu' = [cu EXCEPT !.blocks = {}] /\ dl_f1u' = Append(dl_f1u, DlMessage(cu, tx.next, FALSE))
    BY <1>5 DEF HandleSdu
  <2>2. QED
    BY <1>2, <1>3, <1>4, <1>5, <2>1
<1>6. CASE HandleSdu /\ ~connected
  BY <1>6 DEF HandleSdu
<1>7. CASE FlushDiscardBlocks
  <2>1. /\ cu' = [cu EXCEPT !.blocks = {}] /\ UNCHANGED tx /\ cu.blocks # {}
        /\ dl_f1u' = Append(dl_f1u, DlMessage(cu, NoCount, FALSE))
    BY <1>7 DEF FlushDiscardBlocks
  <2>2. QED
    BY <1>2, <1>3, <1>4, <2>1
<1>8. QED
  BY <1>5, <1>6, <1>7

(* Discards take only SDUs that are settled afterwards.                    *)
LEMMA DiscardStep ==
  ASSUME IInv, DiscardTimerExpired \/ HandleStatusReport
  PROVE  \E gone \in SUBSET tx.window :
           /\ TxOrdered(tx') /\ tx'.next = tx.next /\ tx'.window = tx.window \ gone
           /\ cu' \in CuStates /\ cu'.blocks = cu.blocks \cup gone
           /\ cu'.notif_dl = cu.notif_dl
           /\ failure' \in BOOLEAN
           /\ ~failure' => connected \/ gone = {}
           /\ \A c \in gone : Settled(c)'
           /\ discarded \subseteq discarded' /\ discarded' \subseteq Nat
           /\ report' \subseteq report
           /\ UNCHANGED <<connected, dl_f1u, ul_f1u, du, sdu_queue, rlc, rx, delivered,
                          lost>>
<1>1. cu \in CuStates /\ cu.blocks \in SUBSET Nat /\ discarded \subseteq Nat
  BY DEF IInv, TypeInv, CuStates
<1>2. TxOrdered(tx) /\ tx.window \subseteq Nat /\ rx.deliv \in Nat
  BY Types
<1>3. ASSUME NEW counts, Discard(counts)
      PROVE  LET gone == counts \cap tx.window
             IN  /\ TxOrdered(tx') /\ tx'.next = tx.next
                 /\ tx'.window = tx.window \ gone
                 /\ cu' \in CuStates /\ cu'.blocks = cu.blocks \cup gone
                 /\ cu'.notif_dl = cu.notif_dl
                 /\ failure' \in BOOLEAN
                 /\ ~failure' => connected \/ gone = {}
  <2> DEFINE gone == counts \cap tx.window
  <2>1. Discardable(tx, counts) = gone
    BY <1>2, TxDiscards
  <2>2. /\ tx' = DiscardPdus(tx, counts) /\ cu' = DiscardSdus(cu, gone)
        /\ failure' = (gone # {} /\ ~connected)
    BY <1>3, <2>1 DEF Discard
  <2>3. TxOrdered(tx') /\ tx'.next = tx.next /\ tx'.window = tx.window \ counts
    BY <1>2, <2>2, TxDiscards
  <2>4. tx'.window = tx.window \ gone /\ gone \in SUBSET Nat
    BY <1>2, <2>3
  <2> HIDE DEF gone
  <2>5. cu.blocks \cup gone \in SUBSET Nat
    BY <1>1, <2>4
  <2>6. /\ cu' \in CuStates /\ cu'.blocks = cu.blocks \cup gone
        /\ cu'.notif_dl = cu.notif_dl
    BY <1>1, <2>2, <2>5 DEF DiscardSdus, CuStates
  <2>7. QED
    BY <2>2, <2>3, <2>4, <2>6 DEF gone
<1>4. CASE DiscardTimerExpired
  <2>1. PICK count \in tx.window :
          Discard({count}) /\ discarded' = discarded \cup {count}
    BY <1>4 DEF DiscardTimerExpired
  <2>2. UNCHANGED <<connected, dl_f1u, ul_f1u, du, sdu_queue, rlc, rx, delivered, lost, report>>
    BY <1>4 DEF DiscardTimerExpired, rlc_vars, peer_vars
  <2>3. {count} \cap tx.window = {count}
    OBVIOUS
  <2>4. discarded' \subseteq Nat /\ discarded \subseteq discarded'
    BY <1>1, <1>2, <2>1
  <2>5. \A c \in {count} : Settled(c)'
    BY <2>1 DEF Settled
  <2>6. {count} \in SUBSET tx.window
    OBVIOUS
  <2>7. QED
    BY <1>3, <2>1, <2>2, <2>3, <2>4, <2>5, <2>6
<1>5. CASE HandleStatusReport
  <2>1. PICK r \in report : Discard(ReportedAsReceived(tx, r))
    BY <1>5 DEF HandleStatusReport
  <2> DEFINE counts == ReportedAsReceived(tx, r)
             gone == counts \cap tx.window
  <2>2. /\ UNCHANGED <<connected, dl_f1u, ul_f1u, du, sdu_queue, rlc, rx, delivered, lost, discarded>>
        /\ report' = {}
    BY <1>5 DEF HandleStatusReport, rlc_vars, peer_vars
  <2>3. /\ r.fmc <= rx.deliv /\ r.fmc \in Nat
        /\ \A c \in r.received : c \in rx.window \/ c < rx.deliv
    BY DEF IInv, ReportInv, TypeInv
  <2>4. ASSUME NEW c \in gone PROVE Settled(c)'
    <3>1. c \in Nat /\ (c < r.fmc \/ c \in r.received)
      BY <1>2, <2>4 DEF ReportedAsReceived
    <3>2. c \in rx.window \/ c < rx.deliv
      BY <1>2, <2>3, <3>1
    <3>3. QED
      BY <2>2, <3>2 DEF Settled
  <2>5. gone \in SUBSET tx.window
    OBVIOUS
  <2> HIDE DEF counts
  <2>6. /\ TxOrdered(tx') /\ tx'.next = tx.next /\ tx'.window = tx.window \ gone
        /\ cu' \in CuStates /\ cu'.blocks = cu.blocks \cup gone
        /\ cu'.notif_dl = cu.notif_dl
        /\ failure' \in BOOLEAN
        /\ ~failure' => connected \/ gone = {}
    BY <1>3, <2>1 DEF counts
  <2> HIDE DEF gone
  <2>7. QED
    BY <1>1, <2>2, <2>4, <2>5, <2>6
<1>6. QED
  BY <1>4, <1>5

(* What is news of a data delivery status.                                 *)
LEMMA NewsTypes ==
  ASSUME NEW b, NEW status, NEW news, news = News(b, status),
         status.tx \in MaybeCount, status.dl \in MaybeCount
  PROVE  /\ news \in DuStates
         /\ news.dl = IF IsNews(b.notif_dl, status.dl) THEN status.dl ELSE NoCount
<1> DEFINE nt == IF IsNews(b.notif_tx, status.tx) THEN status.tx ELSE NoCount
           nd == IF IsNews(b.notif_dl, status.dl) THEN status.dl ELSE NoCount
<1>1. nt \in MaybeCount /\ nd \in MaybeCount
  BY DEF MaybeCount
<1>2. news = [tx |-> nt, dl |-> nd]
  BY DEF News
<1> HIDE DEF nt, nd
<1>3. news \in DuStates /\ news.dl = nd
  BY <1>1, <1>2 DEF DuStates
<1>4. QED
  BY <1>3 DEF nd

(* The notifications of a data delivery status give up only SDUs up to the *)
(* one whose delivery it tells.                                            *)
LEMMA NotifiedStep ==
  ASSUME IInv, NEW status \in DuStates, NEW t, t = Notified(status),
         status.dl # NoCount => tx.next <= status.dl + SnMod,
         \A c \in tx.window : c <= status.dl => Settled(c)
  PROVE  /\ TxOrdered(t) /\ t.next = tx.next /\ t.window \subseteq tx.window
         /\ \A c \in tx.window : c \in t.window \/ Settled(c)
<1> DEFINE tx1 == IF status.tx = NoCount THEN tx
                  ELSE HandleTransmitNotification(tx, SN(status.tx))
<1>1. t = IF status.dl = NoCount THEN tx1
          ELSE HandleDeliveryNotification(tx1, SN(status.dl))
  BY DEF Notified
<1>2. status.tx \in MaybeCount /\ status.dl \in MaybeCount
  BY DEF DuStates
<1>3. \A c \in Nat : SN(c) \in 0..(SnMod - 1)
  BY Constants, Division DEF SN
<1>4. /\ TxOrdered(tx1) /\ tx1.next = tx.next /\ tx1.window = tx.window
  <2>1. TxOrdered(tx)
    BY Types
  <2>2. CASE status.tx # NoCount
    <3>1. status.tx \in Nat
      BY <1>2, <2>2 DEF MaybeCount
    <3>2. SN(status.tx) \in 0..(SnMod - 1)
      BY <1>3, <3>1
    <3>3. QED
      BY <2>1, <2>2, <3>2, TxTransmitted
  <2>3. CASE status.tx = NoCount
    BY <2>1, <2>3
  <2>4. QED
    BY <2>2, <2>3
<1> HIDE DEF tx1
<1>5. CASE status.dl # NoCount
  <2> DEFINE d == status.dl
  <2>1. d \in Nat /\ SN(d) \in 0..(SnMod - 1)
    BY <1>2, <1>3, <1>5 DEF MaybeCount
  <2>2. t = HandleDeliveryNotification(tx1, SN(d))
    BY <1>1, <1>5
  <2>3. tx.next <= d + SnMod /\ \A c \in tx.window : c <= d => Settled(c)
    BY <1>5
  <2> HIDE DEF d
  <2>4. PICK e \in Nat : /\ e % SnMod = SN(d)
                         /\ \A c \in tx1.window : c \in t.window \/ (c <= e /\ e < tx1.next)
    BY <1>4, <2>1, <2>2, TxDelivered
  <2>5. d < e => d + SnMod <= e
    BY <2>1, <2>4, Constants, Congruent DEF SN
  <2>6. tx.next \in Nat /\ SnMod \in Nat /\ \A c \in tx.window : c \in Nat
    BY Types, Constants
  <2>7. e < tx.next => e <= d
    BY <2>1, <2>3, <2>4, <2>5, <2>6
  <2>8. ASSUME NEW c \in tx.window PROVE c \in t.window \/ Settled(c)
    <3>1. c \in t.window \/ (c <= e /\ e < tx.next)
      BY <1>4, <2>4
    <3>2. CASE c <= e /\ e < tx.next
      <4>1. c <= d
        BY <2>1, <2>4, <2>6, <2>7, <3>2
      <4>2. QED
        BY <2>3, <4>1
    <3>3. QED
      BY <3>1, <3>2
  <2>9. TxOrdered(t) /\ t.next = tx1.next /\ t.window \subseteq tx1.window
    BY <1>4, <2>1, <2>2, TxDelivered
  <2>10. QED
    BY <1>4, <2>8, <2>9
<1>6. CASE status.dl = NoCount
  BY <1>1, <1>4, <1>6
<1>7. QED
  BY <1>5, <1>6

(* The notifications of the DU give up only SDUs that are settled.         *)
LEMMA UlStep ==
  ASSUME IInv, HandleUlMessage
  PROVE  /\ TxOrdered(tx') /\ tx'.next = tx.next /\ tx'.window \subseteq tx.window
         /\ \A c \in tx.window : c \in tx'.window \/ Settled(c)
         /\ cu' \in CuStates /\ cu'.blocks = cu.blocks
         /\ cu'.notif_dl = IF IsNews(cu.notif_dl, Head(ul_f1u).dl)
                           THEN SN(Head(ul_f1u).dl) ELSE cu.notif_dl
         /\ ul_f1u # << >> /\ ul_f1u' = Tail(ul_f1u)
         /\ UNCHANGED <<connected, dl_f1u, du, sdu_queue, rlc, rx, delivered, report,
                        lost, discarded, failure>>
<1> DEFINE status == Head(ul_f1u)
<1>1. /\ ul_f1u # << >> /\ ul_f1u' = Tail(ul_f1u)
      /\ tx' = Notified(News(cu, status))
      /\ cu' = HandleDeliveryStatus(cu, status)
      /\ UNCHANGED <<connected, dl_f1u, du, sdu_queue, rlc, rx, delivered, report,
                     lost, discarded, failure>>
  BY DEF HandleUlMessage, rlc_vars, peer_vars
<1>2. /\ 1 \in DOMAIN ul_f1u /\ status = ul_f1u[1] /\ status \in DuStates
  BY <1>1, ReportTypes, Shortened
<1>3. 1 \in DOMAIN Reports /\ Reports[1] = status
  BY <1>2, ReportTypes
<1> HIDE DEF status
<1>4. /\ status.tx \in MaybeCount /\ status.dl \in MaybeCount
      /\ cu \in CuStates /\ cu.notif_tx \in MaybeCount /\ cu.notif_dl \in MaybeCount
  BY <1>2 DEF DuStates, CuStates, IInv, TypeInv
<1>5. \A c \in Nat : SN(c) \in 0..(SnMod - 1) /\ SN(c) \in MaybeCount
  BY Constants, Division DEF SN, MaybeCount
<1>6. PICK news : news = News(cu, status)
  OBVIOUS
<1>7. /\ TxOrdered(tx') /\ tx'.next = tx.next /\ tx'.window \subseteq tx.window
      /\ \A c \in tx.window : c \in tx'.window \/ Settled(c)
  <2>1. /\ news \in DuStates
        /\ news.dl = IF IsNews(cu.notif_dl, status.dl) THEN status.dl ELSE NoCount
    BY <1>4, <1>6, NewsTypes
  <2>2. news.dl # NoCount => tx.next <= news.dl + SnMod
    BY <1>3, <2>1 DEF IInv, NewsInv
  <2>3. \A c \in tx.window : c <= news.dl => Settled(c)
    <3>1. \A c \in tx.window : c <= status.dl => Settled(c)
      BY <1>3 DEF IInv, NewsInv
    <3>2. \A c \in tx.window : ~(c <= NoCount)
      BY Types DEF NoCount
    <3>3. QED
      BY <2>1, <3>1, <3>2
  <2>4. tx' = Notified(news)
    BY <1>1, <1>6
  <2>5. QED
    BY <2>1, <2>2, <2>3, <2>4, NotifiedStep
<1>8. /\ cu' \in CuStates /\ cu'.blocks = cu.blocks
      /\ cu'.notif_dl = IF IsNews(cu.notif_dl, status.dl)
                        THEN SN(status.dl) ELSE cu.notif_dl
  <2> DEFINE nt == IF IsNews(cu.notif_tx, status.tx) THEN SN(status.tx) ELSE cu.notif_tx
             nd == IF IsNews(cu.notif_dl, status.dl) THEN SN(status.dl) ELSE cu.notif_dl
  <2>1. nt \in MaybeCount /\ nd \in MaybeCount
    BY <1>4, <1>5 DEF IsNews, MaybeCount
  <2>2. cu' = [cu EXCEPT !.notif_tx = nt, !.notif_dl = nd]
    BY <1>1, <1>4 DEF HandleDeliveryStatus, CuStates
  <2> HIDE DEF nt, nd
  <2>3. cu' \in CuStates /\ cu'.blocks = cu.blocks /\ cu'.notif_dl = nd
    BY <1>4, <2>1, <2>2 DEF CuStates
  <2>4. QED
    BY <2>3 DEF nd
<1>9. QED
  BY <1>1, <1>7, <1>8 DEF status
(* The queue of RLC after a message of the CU-UP.  SDUs that are marked    *)
(* discarded are settled, because the discard names their COUNT.           *)
LEMMA DuStep ==
  ASSUME IInv, DuHandleMessage
  PROVE  /\ dl_f1u # << >> /\ dl_f1u' = Tail(dl_f1u)
         /\ sdu_queue' \in Seq(QueuedSdus)
         /\ lost \subseteq lost' /\ lost' \subseteq Nat
         /\ \/ /\ DOMAIN sdu_queue' = DOMAIN sdu_queue
               /\ Head(dl_f1u).pdu # NoCount => Head(dl_f1u).pdu \in lost'
            \/ /\ Head(dl_f1u).pdu # NoCount
               /\ Len(sdu_queue) \in Nat
               /\ DOMAIN sdu_queue' = DOMAIN sdu_queue \cup {Len(sdu_queue) + 1}
               /\ \A i \in DOMAIN sdu_queue : i \in Int /\ i < Len(sdu_queue) + 1
               /\ sdu_queue'[Len(sdu_queue) + 1].count = Head(dl_f1u).pdu
         /\ \A i \in DOMAIN sdu_queue : sdu_queue'[i].count = sdu_queue[i].count
         /\ \A i \in DOMAIN sdu_queue' : sdu_queue'[i].discarded =>
              WillBeSettled(sdu_queue'[i].count)
         /\ UNCHANGED <<tx, connected, cu, ul_f1u, du, rlc, rx, delivered, report,
                        discarded, failure>>
<1> DEFINE m == Head(dl_f1u)
           put == ~(m.pdu = NoCount \/ QueueRefuses(sdu_queue, m.pdu))
           with == IF m.pdu = NoCount \/ QueueRefuses(sdu_queue, m.pdu) THEN sdu_queue
                   ELSE QueueWrite(sdu_queue, m.pdu, m.retx)
<1>1. /\ dl_f1u # << >> /\ dl_f1u' = Tail(dl_f1u)
      /\ sdu_queue' = QueueDiscard(with, m.discard)
      /\ lost' = IF QueueRefuses(sdu_queue, m.pdu)
                 THEN lost \cup ({m.pdu} \ {NoCount}) ELSE lost
      /\ UNCHANGED <<tx, connected, cu, ul_f1u, du, rlc, rx, delivered, report,
                     discarded, failure>>
  BY DEF DuHandleMessage, DuHandlePdu, cu_vars, peer_vars
<1>2. /\ dl_f1u \in Seq(DlMessages) /\ sdu_queue \in Seq(QueuedSdus)
      /\ lost \subseteq Nat
  BY DEF IInv, TypeInv
<1>3. 1 \in DOMAIN dl_f1u /\ m = dl_f1u[1] /\ m \in DlMessages
  BY <1>1, <1>2, Shortened
<1>4. m.pdu \in MaybeCount /\ m.retx \in BOOLEAN /\ m.discard \in SUBSET Nat
  BY <1>3 DEF DlMessages
<1>5. /\ \A b \in m.discard : /\ Settled(b) /\ b < tx.next /\ b \in Nat
                              /\ \A a \in QueueCounts : a < b + SnMod
                              /\ m.pdu < b + SnMod
      /\ m.pdu # NoCount => m.pdu \in PduCounts
  BY <1>3, <1>4, CountTypes DEF IInv, DiscardInv
<1> HIDE DEF m
<1>6. lost \subseteq lost' /\ lost' \subseteq Nat
  BY <1>1, <1>2, <1>4 DEF MaybeCount
<1>7. \A c : Settled(c) => WillBeSettled(c)
  BY <1>1, <1>6 DEF Settled, WillBeSettled
<1>8. /\ with \in Seq(QueuedSdus)
      /\ \/ ~put /\ with = sdu_queue
         \/ /\ put /\ Len(sdu_queue) \in Nat
            /\ DOMAIN with = DOMAIN sdu_queue \cup {Len(sdu_queue) + 1}
            /\ \A i \in DOMAIN sdu_queue : i \in Int /\ i < Len(sdu_queue) + 1
            /\ with[Len(sdu_queue) + 1].count = m.pdu
            /\ with[Len(sdu_queue) + 1].discarded = FALSE
            /\ m.pdu \in Nat
      /\ \A i \in DOMAIN sdu_queue : with[i] = sdu_queue[i]
  <2>1. CASE put
    <3> DEFINE e == [count |-> m.pdu, retx |-> m.retx, discarded |-> FALSE]
    <3>1. m.pdu \in Nat
      BY <1>4, <2>1 DEF MaybeCount
    <3>2. e \in QueuedSdus /\ e.count = m.pdu /\ e.discarded = FALSE
      BY <1>4, <3>1 DEF QueuedSdus
    <3>3. with = Append(sdu_queue, e)
      BY <2>1 DEF QueueWrite
    <3> HIDE DEF e, with
    <3>4. /\ with \in Seq(QueuedSdus) /\ Len(sdu_queue) \in Nat
          /\ DOMAIN with = DOMAIN sdu_queue \cup {Len(sdu_queue) + 1}
          /\ \A i \in DOMAIN sdu_queue : i \in Int /\ i < Len(sdu_queue) + 1
                                         /\ with[i] = sdu_queue[i]
          /\ with[Len(sdu_queue) + 1] = e
      BY <1>2, <3>2, <3>3, Appended
    <3>5. QED
      BY <2>1, <3>1, <3>2, <3>4
  <2>2. CASE ~put
    BY <1>2, <2>2
  <2>3. QED
    BY <2>1, <2>2
<1>9. put \/ (m.pdu # NoCount => m.pdu \in lost')
  BY <1>1
<1> HIDE DEF with, put
<1>10. \A i \in DOMAIN with :
         /\ with[i] \in QueuedSdus /\ with[i].count \in Nat
         /\ with[i].count \in QueueCounts \/ (with[i].count = m.pdu /\ m.pdu \in PduCounts
                                              /\ with[i].discarded = FALSE)
         /\ with[i].discarded => Settled(with[i].count)
  <2>1. \A i \in DOMAIN with : with[i] \in QueuedSdus
    BY <1>8
  <2>2. \A u \in QueuedSdus : u.count \in Nat
    BY DEF QueuedSdus
  <2>3. \A i \in DOMAIN sdu_queue : /\ sdu_queue[i].count \in QueueCounts
                                    /\ sdu_queue[i].discarded => Settled(sdu_queue[i].count)
    BY CountTypes DEF IInv, CoverInv
  <2>4. NoCount \notin Nat
    BY DEF NoCount
  <2>5. QED
    BY <1>5, <1>8, <2>1, <2>2, <2>3, <2>4
<1>11. /\ DOMAIN sdu_queue' = DOMAIN with
       /\ \A i \in DOMAIN with :
            /\ sdu_queue'[i] \in QueuedSdus /\ sdu_queue'[i].count = with[i].count
            /\ sdu_queue'[i].discarded =>
                 with[i].discarded \/ \E b \in m.discard : SN(with[i].count) = SN(b)
  <2>1. sdu_queue' = [i \in DOMAIN with |->
                        IF SN(with[i].count) \in {SN(c) : c \in m.discard}
                        THEN [with[i] EXCEPT !.discarded = TRUE] ELSE with[i]]
    BY <1>1 DEF QueueDiscard
  <2>2. \A u \in QueuedSdus : /\ [u EXCEPT !.discarded = TRUE] \in QueuedSdus
                              /\ [u EXCEPT !.discarded = TRUE].count = u.count
    BY DEF QueuedSdus
  <2>3. DOMAIN sdu_queue' = DOMAIN with
    BY <2>1
  <2>4. ASSUME NEW i \in DOMAIN with
        PROVE  /\ sdu_queue'[i] \in QueuedSdus /\ sdu_queue'[i].count = with[i].count
               /\ sdu_queue'[i].discarded =>
                    with[i].discarded \/ \E b \in m.discard : SN(with[i].count) = SN(b)
    <3>1. CASE SN(with[i].count) \in {SN(c) : c \in m.discard}
      <4>1. sdu_queue'[i] = [with[i] EXCEPT !.discarded = TRUE]
        BY <2>1, <3>1
      <4>2. QED
        BY <1>10, <2>2, <3>1, <4>1
    <3>2. CASE SN(with[i].count) \notin {SN(c) : c \in m.discard}
      <4>1. sdu_queue'[i] = with[i]
        BY <2>1, <3>2
      <4>2. QED
        BY <1>10, <4>1
    <3>3. QED
      BY <3>1, <3>2
  <2>5. QED
    BY <2>3, <2>4
<1>12. ASSUME NEW i \in DOMAIN with, sdu_queue'[i].discarded
       PROVE  WillBeSettled(sdu_queue'[i].count)
  <2> DEFINE a == with[i].count
  <2>1. CASE with[i].discarded
    BY <1>7, <1>10, <1>11, <2>1
  <2>2. CASE \E b \in m.discard : SN(a) = SN(b)
    <3>1. PICK b \in m.discard : SN(a) = SN(b)
      BY <2>2
    <3>2. Settled(b) /\ b < tx.next /\ b \in Nat /\ a < b + SnMod /\ a \in Nat
      BY <1>5, <1>10
    <3>3. a < tx.next /\ tx.next <= a + SnMod
      BY <1>10 DEF IInv, OrderInv, OnTheWay
    <3>4. tx.next \in Nat /\ SnMod \in Nat /\ SnMod \in Nat \ {0}
      BY Types, Constants
    <3> HIDE DEF a
    <3>5. (a < b => a + SnMod <= b) /\ (b < a => b + SnMod <= a)
      BY <3>1, <3>2, <3>4, Congruent DEF SN
    <3>6. a = b
      BY <3>2, <3>3, <3>4, <3>5
    <3>7. QED
      BY <1>7, <1>11, <3>2, <3>6 DEF a
  <2>3. QED
    BY <1>11, <1>12, <2>1, <2>2
<1>13. sdu_queue' \in Seq(QueuedSdus)
  <2>1. Len(with) \in Nat /\ DOMAIN with = 1..Len(with)
    BY <1>8
  <2>2. sdu_queue' = [i \in 1..Len(with) |-> sdu_queue'[i]]
    <3>1. sdu_queue' = [i \in DOMAIN with |->
                          IF SN(with[i].count) \in {SN(c) : c \in m.discard}
                          THEN [with[i] EXCEPT !.discarded = TRUE] ELSE with[i]]
      BY <1>1 DEF QueueDiscard
    <3>2. QED
      BY <2>1, <3>1
  <2>3. sdu_queue' \in [1..Len(with) -> QueuedSdus]
    BY <1>11, <2>1, <2>2
  <2>4. QED
    BY <2>1, <2>3
<1>14. \A i \in DOMAIN sdu_queue : i \in DOMAIN with /\ sdu_queue'[i].count = sdu_queue[i].count
  BY <1>8, <1>11
<1>15. \/ /\ DOMAIN sdu_queue' = DOMAIN sdu_queue
          /\ m.pdu # NoCount => m.pdu \in lost'
       \/ /\ m.pdu # NoCount
          /\ Len(sdu_queue) \in Nat
          /\ DOMAIN sdu_queue' = DOMAIN sdu_queue \cup {Len(sdu_queue) + 1}
          /\ \A i \in DOMAIN sdu_queue : i \in Int /\ i < Len(sdu_queue) + 1
          /\ sdu_queue'[Len(sdu_queue) + 1].count = m.pdu
  <2>1. CASE ~put
    BY <1>8, <1>9, <1>11, <2>1
  <2>2. CASE put
    <3>1. /\ Len(sdu_queue) + 1 \in DOMAIN with
          /\ with[Len(sdu_queue) + 1].count = m.pdu
          /\ DOMAIN with = DOMAIN sdu_queue \cup {Len(sdu_queue) + 1}
      BY <1>8, <2>2
    <3>2. m.pdu # NoCount
      BY <1>8, <2>2 DEF NoCount
    <3>3. QED
      BY <1>8, <1>11, <2>2, <3>1, <3>2
  <2>3. QED
    BY <2>1, <2>2
<1>16. \A i \in DOMAIN sdu_queue' : sdu_queue'[i].discarded =>
         WillBeSettled(sdu_queue'[i].count)
  BY <1>11, <1>12
<1>17. QED
  BY <1>1, <1>6, <1>13, <1>14, <1>15, <1>16 DEF m

(* RLC takes the first SDU of its queue that is not discarded.             *)
LEMMA TransmitStep ==
  ASSUME IInv, RlcTransmit
  PROVE  /\ \E n \in DOMAIN sdu_queue, u \in SentSdus :
              /\ \A i \in DOMAIN sdu_queue : i < n => sdu_queue[i].discarded
              /\ sdu_queue' = SubSeq(sdu_queue, n + 1, Len(sdu_queue))
              /\ rlc' = Append(rlc, u)
              /\ u.count = sdu_queue[n].count /\ u.got = FALSE
         /\ du' \in DuStates /\ du'.dl = du.dl
         /\ UNCHANGED <<tx, connected, cu, dl_f1u, ul_f1u, rx, delivered, report, lost,
                        discarded, failure>>
<1> DEFINE n == QueueReads(sdu_queue)
           I == {i \in 1..Len(sdu_queue) : ~sdu_queue[i].discarded}
           u == [count |-> sdu_queue[n].count, retx |-> sdu_queue[n].retx, got |-> FALSE]
<1>1. /\ n # 0 /\ sdu_queue' = SubSeq(sdu_queue, n + 1, Len(sdu_queue))
      /\ rlc' = Append(rlc, u)
      /\ du' = IF sdu_queue[n].retx THEN du ELSE [du EXCEPT !.tx = sdu_queue[n].count]
      /\ UNCHANGED <<tx, connected, cu, dl_f1u, ul_f1u, rx, delivered, report, lost,
                     discarded, failure>>
  BY DEF RlcTransmit, cu_vars, peer_vars
<1>2. n = IF I # {} THEN Min(I) ELSE 0
  BY DEF QueueReads, SelectInSeq
<1>3. sdu_queue \in Seq(QueuedSdus) /\ du \in DuStates
  BY DEF IInv, TypeInv
<1>4. Len(sdu_queue) \in Nat /\ DOMAIN sdu_queue = 1..Len(sdu_queue)
  BY <1>3
<1> HIDE DEF n
<1>5. n \in I /\ \A i \in I : n <= i
  <2>1. I # {} /\ n = Min(I)
    BY <1>1, <1>2
  <2>2. I \in SUBSET (1..Len(sdu_queue)) /\ I \in SUBSET Int
    BY <1>4
  <2>3. IsFiniteSet(I)
    <3>1. IsFiniteSet(1..Len(sdu_queue))
      <4>1. 1 \in Int /\ Len(sdu_queue) \in Int
        BY <1>4
      <4>2. QED
        BY <4>1, FS_Interval
    <3>2. QED
      BY <2>2, <3>1, FS_Subset
  <2> HIDE DEF I
  <2>4. QED
    BY <2>1, <2>2, <2>3, MinIsLeast
<1>6. n \in DOMAIN sdu_queue /\ \A i \in DOMAIN sdu_queue : i < n => sdu_queue[i].discarded
  BY <1>4, <1>5
<1>7. sdu_queue[n] \in QueuedSdus
  BY <1>3, <1>6
<1>8. sdu_queue[n].count \in Nat /\ sdu_queue[n].retx \in BOOLEAN
  BY <1>7 DEF QueuedSdus
<1>9. u \in SentSdus /\ u.count = sdu_queue[n].count /\ u.got = FALSE
  BY <1>8 DEF SentSdus
<1> HIDE DEF u, I
<1>10. du' \in DuStates /\ du'.dl = du.dl
  BY <1>1, <1>3, <1>8 DEF DuStates, MaybeCount
<1>11. QED
  BY <1>1, <1>6, <1>9, <1>10

(* RLC confirms its oldest SDU; the DU notes it if it is an original.      *)
LEMMA ConfirmStep ==
  ASSUME IInv, RlcDelivered
  PROVE  /\ rlc # << >> /\ rlc' = Tail(rlc) /\ 1 \in DOMAIN rlc /\ rlc[1].got
         /\ du' \in DuStates /\ (du'.dl = du.dl \/ du'.dl = rlc[1].count)
         /\ UNCHANGED <<tx, connected, cu, dl_f1u, ul_f1u, sdu_queue, rx, delivered,
                        report, lost, discarded, failure>>
<1>1. /\ rlc # << >> /\ Head(rlc).got /\ rlc' = Tail(rlc)
      /\ du' = IF Head(rlc).retx THEN du ELSE [du EXCEPT !.dl = Head(rlc).count]
      /\ UNCHANGED <<tx, connected, cu, dl_f1u, ul_f1u, sdu_queue, rx, delivered,
                     report, lost, discarded, failure>>
  BY DEF RlcDelivered, cu_vars, peer_vars
<1>2. rlc \in Seq(SentSdus) /\ du \in DuStates
  BY DEF IInv, TypeInv
<1>3. 1 \in DOMAIN rlc /\ Head(rlc) = rlc[1] /\ rlc[1] \in SentSdus
  BY <1>1, <1>2, Shortened
<1>4. rlc[1].count \in MaybeCount
  BY <1>3 DEF SentSdus, MaybeCount
<1>5. du' = du \/ du' = [du EXCEPT !.dl = rlc[1].count]
  BY <1>1, <1>3
<1>6. du' \in DuStates /\ (du'.dl = du.dl \/ du'.dl = rlc[1].count)
  BY <1>2, <1>4, <1>5 DEF DuStates
<1>7. QED
  BY <1>1, <1>3, <1>6

(* The peer gets a PDU: it is settled afterwards, and everything that was  *)
(* before.                                                                 *)
LEMMA PeerStep ==
  ASSUME IInv, PeerHandlePdu
  PROVE  /\ RxOrdered(rx') /\ rx'.deliv \in Nat /\ rx.deliv <= rx'.deliv
         /\ rx'.next <= tx.next
         /\ \A c \in rx.window : c \in rx'.window \/ c < rx'.deliv
         /\ \E i \in DOMAIN rlc :
              /\ rlc' = [rlc EXCEPT ![i].got = TRUE]
              /\ WillBeSettled(rlc[i].count)
         /\ \/ UNCHANGED <<rx, delivered>>
            \/ \E arrived \in SUBSET Nat :
                 /\ \A c \in arrived : rx.deliv <= c
                 /\ delivered' = delivered \o RxDelivers(rx, rx', arrived)
         /\ UNCHANGED <<tx, connected, cu, dl_f1u, ul_f1u, du, sdu_queue, report, lost,
                        discarded, failure>>
<1>1. PICK i \in DOMAIN rlc :
        /\ rlc' = [rlc EXCEPT ![i].got = TRUE]
        /\ IF RxDrops(rx, rlc[i].count) THEN UNCHANGED <<rx, delivered>>
           ELSE /\ rx' = RxHandleDataPdu(rx, rlc[i].count)
                /\ delivered' = delivered \o
                     RxDelivers(rx, RxHandleDataPdu(rx, rlc[i].count), {rlc[i].count})
  BY DEF PeerHandlePdu, peer_vars
<1>2. UNCHANGED <<tx, connected, cu, dl_f1u, ul_f1u, du, sdu_queue, report, lost,
                  discarded, failure>>
  BY DEF PeerHandlePdu, cu_vars
<1> DEFINE count == rlc[i].count
<1>3. count \in RlcCounts /\ count \in Nat
  BY CountTypes
<1>4. count < tx.next
  BY <1>3 DEF IInv, OrderInv, OnTheWay
<1> HIDE DEF count
<1>5. /\ tx.next \in Nat /\ rx.deliv \in Nat /\ rx.next \in Nat /\ RxOrdered(rx)
      /\ \A c \in rx.window : c \in Nat /\ rx.deliv < c /\ c < rx.next
  BY Types
<1>6. /\ tx.next <= rx.deliv + window_size /\ rx.next <= tx.next
      /\ tx.next <= MaxCountHard
  BY DEF IInv, EntityInv
<1>7. window_size \in Nat /\ MaxCountHard \in Nat /\ CountMod \in Nat /\ MaxCountHard < CountMod
  BY Constants
<1>8. rx.deliv <= count => CountEstimate(rx.deliv, SN(count)) = count
  <2> SUFFICES ASSUME rx.deliv <= count PROVE CountEstimate(rx.deliv, SN(count)) = count
    OBVIOUS
  <2>1. count < CountMod /\ count < rx.deliv + window_size
    BY <1>3, <1>4, <1>5, <1>6, <1>7
  <2>2. QED
    BY <1>3, <1>5, <2>1, EstimateIsRight
<1>9. CASE RxDrops(rx, count)
  <2>1. UNCHANGED <<rx, delivered>>
    BY <1>1, <1>9 DEF count
  <2>2. count < rx.deliv \/ count \in rx.window
    BY <1>3, <1>5, <1>8, <1>9 DEF RxDrops
  <2>3. WillBeSettled(count)
    BY <2>1, <2>2 DEF WillBeSettled
  <2>4. /\ RxOrdered(rx') /\ rx'.deliv \in Nat /\ rx.deliv <= rx'.deliv
        /\ rx'.next <= tx.next
        /\ \A c \in rx.window : c \in rx'.window \/ c < rx'.deliv
    BY <1>5, <1>6, <2>1
  <2>5. QED
    BY <1>1, <1>2, <2>1, <2>3, <2>4 DEF count
<1>10. CASE ~RxDrops(rx, count)
  <2>1. /\ rx' = RxHandleDataPdu(rx, count)
        /\ delivered' = delivered \o RxDelivers(rx, rx', {count})
    BY <1>1, <1>10 DEF count
  <2>2. rx.deliv <= count /\ count \notin rx.window
    BY <1>3, <1>5, <1>10 DEF RxDrops
  <2>3. /\ RxOrdered(rx') /\ rx.deliv <= rx'.deliv
        /\ rx'.next = (IF count >= rx.next THEN count + 1 ELSE rx.next)
        /\ count \in rx'.window \/ count < rx'.deliv
        /\ \A c \in rx.window : \/ c \in rx'.window \/ c < rx'.deliv
                                \/ c + window_size <= count
                                \/ count + window_size <= c
    BY <1>3, <1>5, <2>1, <2>2, RxReceives
  <2>4. \A c \in rx.window : ~(c + window_size <= count) /\ ~(count + window_size <= c)
    BY <1>3, <1>4, <1>5, <1>6, <1>7, <2>2
  <2>5. \A c \in rx.window : c \in rx'.window \/ c < rx'.deliv
    BY <2>3, <2>4
  <2>6. rx'.next <= tx.next
    BY <1>3, <1>4, <1>5, <1>6, <2>3
  <2>7. rx'.deliv \in Nat
    <3>1. RxBounded(rx')
      BY <2>3 DEF RxOrdered
    <3>2. QED
      BY <3>1, RxFields
  <2>8. WillBeSettled(count)
    BY <2>3 DEF WillBeSettled
  <2>9. {count} \in SUBSET Nat /\ \A c \in {count} : rx.deliv <= c
    BY <1>3, <2>2
  <2>10. QED
    BY <1>1, <1>2, <2>1, <2>3, <2>5, <2>6, <2>7, <2>8, <2>9 DEF count
<1>11. QED
  BY <1>9, <1>10

(* The expiry of t-Reordering.                                             *)
LEMMA ReorderingStep ==
  ASSUME IInv, TReorderingExpired
  PROVE  /\ RxOrdered(rx') /\ rx'.deliv \in Nat /\ rx.deliv <= rx'.deliv
         /\ rx'.next = rx.next
         /\ \A c \in rx.window : c \in rx'.window \/ c < rx'.deliv
         /\ delivered' = delivered \o RxDelivers(rx, rx', {})
         /\ UNCHANGED <<tx, connected, cu, dl_f1u, ul_f1u, du, sdu_queue, rlc, report,
                        lost, discarded, failure>>
<1>1. /\ rx.timer /\ rx' = RxHandleTReorderingExpire(rx)
      /\ delivered' = delivered \o RxDelivers(rx, rx', {})
      /\ UNCHANGED <<tx, connected, cu, dl_f1u, ul_f1u, du, sdu_queue, rlc, report,
                     lost, discarded, failure>>
  BY DEF TReorderingExpired, cu_vars, rlc_vars
<1>2. RxOrdered(rx)
  BY Types
<1>3. /\ RxOrdered(rx') /\ rx.deliv <= rx'.deliv /\ rx'.next = rx.next
      /\ \A c \in rx.window : c \in rx'.window \/ c < rx'.deliv
  BY <1>1, <1>2, RxExpires
<1>4. rx'.deliv \in Nat
  BY <1>3, RxFields DEF RxOrdered
<1>5. QED
  BY <1>1, <1>3, <1>4

(* The second modification of the session sends the whole window again.    *)
LEMMA ReestablishStep ==
  ASSUME IInv, ReestablishPdcp
  PROVE  /\ ~connected /\ connected' = TRUE
         /\ TxOrdered(tx') /\ tx'.next = tx.next /\ tx'.window = tx.window
         /\ lost' \subseteq lost /\ \A c \in lost : c \in lost' \/ c \in tx.window
         /\ \A c \in lost : (\E i \in DOMAIN old_ul : c <= old_ul[i].dl) => c \in lost'
         /\ \E s \in Seq(tx.window) :
              /\ \A i, j \in DOMAIN s : i < j => s[i] < s[j]
              /\ \A c \in tx.window : \E i \in DOMAIN s : s[i] = c
              /\ dl_f1u' = dl_f1u \o [i \in DOMAIN s |-> DlMessage(cu, s[i], TRUE)]
         /\ report' \subseteq {CompileStatusReport(rx)}
         /\ UNCHANGED <<cu, ul_f1u, du, sdu_queue, rlc, rx, delivered, discarded, failure>>
<1>1. /\ ~connected /\ connected' = TRUE /\ tx' = TxReestablish(tx)
      /\ dl_f1u' = dl_f1u \o [i \in DOMAIN Ascending(Retransmitted(tx)) |->
                                DlMessage(cu, Ascending(Retransmitted(tx))[i], TRUE)]
      /\ lost' = {c \in lost : \/ c \notin Retransmitted(tx)
                               \/ \E i \in DOMAIN old_ul : c <= old_ul[i].dl}
      /\ report' \subseteq {CompileStatusReport(rx)}
      /\ UNCHANGED <<cu, ul_f1u, du, sdu_queue, rlc, rx, delivered, discarded, failure>>
  BY DEF ReestablishPdcp, rlc_vars, peer_vars
<1>2. TxOrdered(tx) /\ tx.window \in SUBSET Nat
  BY Types
<1>3. /\ TxOrdered(tx') /\ tx'.next = tx.next /\ tx'.window = tx.window
      /\ Retransmitted(tx) = tx.window /\ IsFiniteSet(tx.window)
  BY <1>1, <1>2, TxReestablishes
<1> DEFINE s == Ascending(tx.window)
<1>4. /\ lost' \subseteq lost /\ \A c \in lost : c \in lost' \/ c \in tx.window
      /\ \A c \in lost : (\E i \in DOMAIN old_ul : c <= old_ul[i].dl) => c \in lost'
  BY <1>1, <1>3
<1>5. /\ s \in Seq(tx.window)
      /\ \A i, j \in DOMAIN s : i < j => s[i] < s[j]
      /\ \A c \in tx.window : \E i \in DOMAIN s : s[i] = c
  BY <1>2, <1>3, AscendingSorts
<1>6. dl_f1u' = dl_f1u \o [i \in DOMAIN s |-> DlMessage(cu, s[i], TRUE)]
  BY <1>1, <1>3
<1> HIDE DEF s
<1>7. QED
  BY <1>1, <1>3, <1>4, <1>5, <1>6

(* The steps that only lose a message or send a status.                    *)
LEMMA LossStep ==
  ASSUME IInv, LoseDlMessage
  PROVE  /\ dl_f1u # << >> /\ dl_f1u' = Tail(dl_f1u)
         /\ lost \subseteq lost' /\ lost' \subseteq Nat
         /\ Head(dl_f1u).pdu # NoCount => Head(dl_f1u).pdu \in lost'
         /\ UNCHANGED <<tx, connected, cu, ul_f1u, du, sdu_queue, rlc, rx, delivered,
                        report, discarded, failure>>
<1>1. /\ dl_f1u # << >> /\ dl_f1u' = Tail(dl_f1u)
      /\ lost' = lost \cup ({Head(dl_f1u).pdu} \ {NoCount})
      /\ UNCHANGED <<tx, connected, cu, ul_f1u, du, sdu_queue, rlc, rx, delivered,
                     report, discarded, failure>>
  BY DEF LoseDlMessage, cu_vars, rlc_vars, peer_vars
<1>2. dl_f1u \in Seq(DlMessages) /\ lost \subseteq Nat
  BY DEF IInv, TypeInv
<1>3. Head(dl_f1u) \in DlMessages
  BY <1>1, <1>2, Shortened
<1>4. Head(dl_f1u).pdu \in MaybeCount
  BY <1>3 DEF DlMessages
<1>5. QED
  BY <1>1, <1>2, <1>4 DEF MaybeCount
-----------------------------------------------------------------------------
(* What keeps each part of the invariant when a step does not touch much   *)
(* of what it is about.                                                    *)

(* The entities, when the transmitting one only gives SDUs up.             *)
LEMMA EntityKept ==
  ASSUME IInv, UNCHANGED rx, TxOrdered(tx'), tx'.next = tx.next,
         tx'.window \subseteq tx.window
  PROVE  EntityInv'
  BY DEF IInv, EntityInv

(* The delivered SDUs, when the peer does nothing.                         *)
LEMMA DeliveredKept ==
  ASSUME IInv, UNCHANGED <<rx, delivered>>
  PROVE  DeliveredInv'
  BY DEF IInv, DeliveredInv, InOrderDelivery

(* The PDUs on their way, when none is sent or received.                   *)
LEMMA OrderKept ==
  ASSUME IInv, UNCHANGED <<dl_f1u, sdu_queue, rlc>>, tx'.next = tx.next
  PROVE  OrderInv' /\ UNCHANGED <<OnTheWay, QueueCounts, PduCounts, RlcCounts>>
<1>1. UNCHANGED <<OnTheWay, QueueCounts, PduCounts, RlcCounts>>
  BY DEF OnTheWay, RlcCounts, QueueCounts, PduCounts
<1>2. QED
  BY <1>1 DEF IInv, OrderInv

(* The SDUs that are settled or on their way, when none is sent.           *)
LEMMA CoverKept ==
  ASSUME IInv, UNCHANGED <<connected, dl_f1u, sdu_queue, rlc>>,
         \A c \in Nat : Settled(c) => Settled(c)', tx'.window \subseteq tx.window
  PROVE  CoverInv'
<1>1. UNCHANGED OnTheWay
  BY DEF OnTheWay, RlcCounts, QueueCounts, PduCounts
<1>2. \A c \in tx.window : c \in Nat
  BY Types
<1>3. /\ \A i \in DOMAIN rlc : rlc[i].count \in Nat
      /\ \A i \in DOMAIN sdu_queue : sdu_queue[i].count \in Nat
  BY CountTypes
<1>4. \A c \in Nat : Settled(c) => WillBeSettled(c)
  BY WillBe
<1>5. /\ connected => \A c \in tx'.window : WillBeSettled(c) \/ c \in OnTheWay
      /\ \A i \in DOMAIN rlc : rlc[i].got => WillBeSettled(rlc[i].count)
      /\ \A i \in DOMAIN sdu_queue :
           sdu_queue[i].discarded => WillBeSettled(sdu_queue[i].count)
  BY <1>2, <1>3, <1>4 DEF IInv, CoverInv
<1>6. QED
  BY <1>1, <1>5 DEF CoverInv, Settled, WillBeSettled

(* The discards on their way, when none is added.                          *)
LEMMA DiscardKept ==
  ASSUME IInv, UNCHANGED dl_f1u, cu'.blocks = cu.blocks, tx'.next = tx.next,
         \A c \in Nat : Settled(c) => Settled(c)', QueueCounts' \subseteq QueueCounts
  PROVE  DiscardInv'
<1>1. cu.blocks \subseteq Nat
  BY DEF IInv, TypeInv, CuStates
<1>2. \A i \in DOMAIN dl_f1u : dl_f1u[i].discard \subseteq Nat
  BY CountTypes DEF DlMessages
<1>3. \A c \in Nat : Settled(c) => WillBeSettled(c)
  BY WillBe
<1>4. \A b \in cu.blocks : WillBeSettled(b) /\ b < tx.next /\ tx.next <= b + window_size
  BY <1>1, <1>3 DEF IInv, DiscardInv
<1>5. \A i \in DOMAIN dl_f1u : \A b \in dl_f1u[i].discard :
        /\ WillBeSettled(b) /\ b < tx.next
        /\ \A a \in QueueCounts : a < b + SnMod
        /\ \A j \in DOMAIN dl_f1u : j <= i => dl_f1u[j].pdu < b + SnMod
  BY <1>2, <1>3 DEF IInv, DiscardInv
<1>6. QED
  BY <1>4, <1>5 DEF DiscardInv, Settled, WillBeSettled

(* The status report, when the peer does nothing.                          *)
LEMMA ReportKept ==
  ASSUME IInv, UNCHANGED rx, report' \subseteq report
  PROVE  ReportInv'
  BY DEF IInv, ReportInv

(* The delivery status messages, when none is sent or received.            *)
LEMMA NewsKept ==
  ASSUME IInv, UNCHANGED <<ul_f1u, du>>, cu'.notif_dl = cu.notif_dl, tx'.next = tx.next,
         tx'.window \subseteq tx.window, \A c \in Nat : Settled(c) => Settled(c)',
         OnTheWay' \subseteq OnTheWay
  PROVE  NewsInv'
<1>1. UNCHANGED Reports
  BY DEF Reports
<1>2. \A c \in tx.window : c \in Nat
  BY Types
<1>3. \A c \in Nat : Settled(c) => WillBeSettled(c)
  BY WillBe
<1>4. \A i \in DOMAIN Reports : \A c \in tx'.window : c <= Reports[i].dl => WillBeSettled(c)
  BY <1>2, <1>3 DEF IInv, NewsInv
<1>5. /\ \A i, j \in DOMAIN Reports : i < j => Reports[i].dl <= Reports[j].dl
      /\ du.dl < tx.next /\ \A a \in OnTheWay' : du.dl < a
      /\ \A i \in DOMAIN Reports :
           IsNews(cu'.notif_dl, Reports[i].dl) => tx.next <= Reports[i].dl + SnMod
  BY DEF IInv, NewsInv
<1>6. QED
  BY <1>1, <1>4, <1>5 DEF NewsInv, Settled, WillBeSettled

(* Every SDU in the window or settled, when those taken out are settled.   *)
LEMMA LossKept ==
  ASSUME IInv, tx'.next = tx.next, \A c \in Nat : Settled(c) => Settled(c)',
         \A c \in tx.window : c \in tx'.window \/ WillBeSettled(c)
  PROVE  LossInv'
<1>1. Start \in Nat /\ tx.next \in Nat
  BY Constants, Types
<1>2. \A c \in Start..(tx.next - 1) : c \in Nat
  BY <1>1
<1>3. \A c \in Nat : Settled(c) => WillBeSettled(c)
  BY WillBe
<1>4. \A c \in Start..(tx.next - 1) : c \in tx'.window \/ WillBeSettled(c)
  BY <1>2, <1>3 DEF IInv, LossInv
<1>5. QED
  BY <1>4 DEF LossInv, Settled, WillBeSettled

(* The pipeline is empty while F1-U is not connected.                      *)
LEMMA Carries ==
  ASSUME IInv, ~failure,
         \/ dl_f1u # << >> \/ ul_f1u # << >> \/ sdu_queue # << >> \/ rlc # << >>
         \/ du # NewDuBearer \/ cu.blocks # {}
  PROVE  connected = TRUE
  BY DEF IInv, UnconnectedInv, TypeInv

(* Nothing is said of F1-U once it is connected.                           *)
LEMMA UnconnectedKept ==
  ASSUME connected' = TRUE
  PROVE  UnconnectedInv'
  BY DEF UnconnectedInv
-----------------------------------------------------------------------------
(* The actions, one by one.                                                *)

(* handle_sdu: the COUNT is new, and Paced keeps its SN apart from those   *)
(* on their way.                                                           *)
LEMMA SduKeeps ==
  ASSUME IInv, ~failure, HandleSdu
  PROVE  IInv'
<1>1. /\ TxOrdered(tx') /\ tx'.next = tx.next + 1 /\ tx.next \in tx'.window
      /\ tx'.window \subseteq tx.window \cup {tx.next}
      /\ \A c \in tx.window : c \in tx'.window \/ c < rx.deliv
      /\ \A c \in tx'.window : tx'.next <= c + window_size
      /\ tx.next < rx.deliv + window_size /\ tx.next < MaxCountHard
      /\ \A a \in OnTheWay : tx'.next <= a + SnMod
      /\ \A i \in DOMAIN Reports :
           IsNews(cu.notif_dl, Reports[i].dl) => tx'.next <= Reports[i].dl + SnMod
  BY SduStep
<1>2. UNCHANGED <<connected, ul_f1u, du, sdu_queue, rlc, rx, delivered, report,
                  lost, discarded, failure>>
  BY SduStep
<1>3. /\ tx.next \in Nat /\ rx.deliv \in Nat /\ rx.next \in Nat
      /\ \A c \in tx.window : c \in Nat /\ c < tx.next
  BY Types
<1>4. window_size \in Nat /\ window_size >= 2 /\ SnMod \in Nat /\ MaxCountHard \in Nat
      /\ SnMod = 2 * window_size /\ Start \in Nat
  BY Constants
<1>5. UNCHANGED <<RlcCounts, QueueCounts, Reports>>
  BY <1>2 DEF RlcCounts, QueueCounts, Reports
<1>6. \A c : Settled(c) => WillBeSettled(c)
  BY <1>2 DEF Settled, WillBeSettled
<1>7. /\ dl_f1u \in Seq(DlMessages) /\ connected \in BOOLEAN /\ cu \in CuStates
      /\ cu.blocks \subseteq Nat
  BY DEF IInv, TypeInv, CuStates
<1>8. /\ \A a \in OnTheWay : a \in Nat /\ a < tx.next
      /\ RlcCounts \subseteq OnTheWay /\ QueueCounts \subseteq OnTheWay
      /\ PduCounts \subseteq OnTheWay
  BY CountTypes DEF IInv, OrderInv, OnTheWay
<1>9. EntityInv'
  <2>1. Start <= tx.next /\ rx.next <= tx.next /\ RxOrdered(rx)
    BY DEF IInv, EntityInv
  <2>2. /\ Start <= tx'.next /\ tx'.next <= MaxCountHard
        /\ rx.next <= tx'.next /\ tx'.next <= rx.deliv + window_size
    BY <1>1, <1>3, <1>4, <2>1
  <2>3. QED
    BY <1>1, <1>2, <2>1, <2>2 DEF EntityInv
<1>10. DeliveredInv' /\ ReportInv'
  BY <1>2, DeliveredKept, ReportKept
<1>11. LossInv'
  <2>1. ASSUME NEW c \in Start..(tx'.next - 1)
        PROVE  c \in tx'.window \/ WillBeSettled(c)
    <3>1. c \in Start..(tx.next - 1) \/ c = tx.next
      BY <1>1, <1>3, <1>4
    <3>2. CASE c \in Start..(tx.next - 1)
      <4>1. c \in tx.window \/ Settled(c)
        BY <3>2 DEF IInv, LossInv
      <4>2. QED
        BY <1>1, <1>2, <1>6, <4>1 DEF WillBeSettled
    <3>3. QED
      BY <1>1, <3>1, <3>2
  <2>2. QED
    BY <2>1 DEF LossInv, Settled, WillBeSettled
<1>12. \A i \in DOMAIN Reports : Reports[i].dl \in Int /\ Reports[i].dl < tx.next
  <2>1. du.dl < tx.next /\ \A i, j \in DOMAIN Reports : i < j => Reports[i].dl <= Reports[j].dl
    BY DEF IInv, NewsInv
  <2>2. /\ \A i \in DOMAIN Reports : Reports[i].dl \in Int
        /\ \A i \in DOMAIN Reports : i = Len(ul_f1u) + 1 \/ i < Len(ul_f1u) + 1
        /\ Len(ul_f1u) + 1 \in DOMAIN Reports /\ Reports[Len(ul_f1u) + 1] = du
    BY ReportTypes
  <2>3. QED
    BY <1>3, <2>1, <2>2
<1>13. ASSUME cu'.notif_dl = cu.notif_dl, OnTheWay' \subseteq OnTheWay \cup {tx.next}
       PROVE  NewsInv'
  <2>1. ASSUME NEW i \in DOMAIN Reports, NEW c \in tx'.window, c <= Reports[i].dl
        PROVE  WillBeSettled(c)
    <3>1. c # tx.next
      BY <1>3, <1>12, <2>1
    <3>2. c \in tx.window
      BY <1>1, <3>1
    <3>3. QED
      BY <1>6, <2>1, <3>2 DEF IInv, NewsInv
  <2>2. du.dl \in Int /\ du.dl < tx.next /\ \A a \in OnTheWay : du.dl < a
    BY ReportTypes DEF IInv, NewsInv
  <2>3. du.dl < tx'.next /\ \A a \in OnTheWay' : du.dl < a
    BY <1>1, <1>3, <1>13, <2>2
  <2>4. \A i, j \in DOMAIN Reports : i < j => Reports[i].dl <= Reports[j].dl
    BY DEF IInv, NewsInv
  <2>5. QED
    BY <1>1, <1>2, <1>5, <1>13, <2>1, <2>3, <2>4 DEF NewsInv, Settled, WillBeSettled
<1>14. \A i \in DOMAIN dl_f1u : dl_f1u[i].discard \subseteq Nat /\ dl_f1u[i].pdu \in Int
  BY CountTypes DEF DlMessages
<1>15. \A i, j \in DOMAIN dl_f1u :
         i < j /\ dl_f1u[j].pdu # NoCount => dl_f1u[i].pdu < dl_f1u[j].pdu
  BY DEF IInv, OrderInv
<1>16. \A i \in DOMAIN dl_f1u : dl_f1u[i].pdu < tx.next
  <2>1. \A i \in DOMAIN dl_f1u : dl_f1u[i].pdu # NoCount => dl_f1u[i].pdu \in PduCounts
    BY CountTypes
  <2>2. QED
    BY <1>3, <1>8, <1>14, <2>1 DEF NoCount
<1>17. CASE ~connected
  <2>1. UNCHANGED <<dl_f1u, cu>>
    BY <1>17, Sends DEF HandleSdu, FlushDiscardBlocks
  <2>2. UNCHANGED <<OnTheWay, PduCounts>>
    BY <1>5, <2>1 DEF OnTheWay, PduCounts
  <2>3. dl_f1u = << >> /\ cu.blocks = {} /\ sdu_queue = << >> /\ rlc = << >>
    BY <1>17 DEF IInv, UnconnectedInv
  <2>4. TypeInv'
    BY <1>2, <2>1 DEF IInv, TypeInv
  <2>5. OrderInv'
    <3>1. \A a \in OnTheWay : a < tx'.next
      BY <1>1, <1>3, <1>8
    <3>2. QED
      BY <1>1, <1>2, <1>5, <2>1, <2>2, <3>1 DEF IInv, OrderInv
  <2>6. UnconnectedInv'
    BY <1>2, <2>1 DEF IInv, UnconnectedInv
  <2>7. CoverInv'
    BY <1>2, <1>17, <2>3 DEF CoverInv
  <2>8. DiscardInv'
    BY <2>1, <2>3 DEF DiscardInv
  <2>9. NewsInv'
    BY <1>13, <2>1, <2>2
  <2>10. QED
    BY <1>9, <1>10, <1>11, <2>4, <2>5, <2>6, <2>7, <2>8, <2>9 DEF IInv
<1>18. CASE connected
  <2>1. /\ cu' \in CuStates /\ cu'.blocks = {} /\ cu'.notif_dl = cu.notif_dl
        /\ \E m \in DlMessages :
             /\ dl_f1u' = Append(dl_f1u, m) /\ m.discard = cu.blocks /\ m.pdu = tx.next
    <3>1. tx' # tx
      BY <1>1, <1>3
    <3>2. QED
      BY <1>18, <3>1, Sends
  <2>2. PICK m \in DlMessages :
          dl_f1u' = Append(dl_f1u, m) /\ m.discard = cu.blocks /\ m.pdu = tx.next
    BY <2>1
  <2> DEFINE n == Len(dl_f1u) + 1
  <2>3. /\ dl_f1u' \in Seq(DlMessages) /\ n \in Int
        /\ DOMAIN dl_f1u' = DOMAIN dl_f1u \cup {n}
        /\ \A i \in DOMAIN dl_f1u : i \in Int /\ i < n /\ dl_f1u'[i] = dl_f1u[i]
        /\ dl_f1u'[n] = m
    BY <1>7, <2>2, Appended
  <2> HIDE DEF n
  <2>4. PduCounts' = PduCounts \cup {tx.next}
    <3>1. tx.next # NoCount
      BY <1>3 DEF NoCount
    <3>2. PduCounts' = {dl_f1u'[i].pdu : i \in DOMAIN dl_f1u \cup {n}} \ {NoCount}
      BY <2>3 DEF PduCounts
    <3>3. {dl_f1u'[i].pdu : i \in DOMAIN dl_f1u \cup {n}} = {dl_f1u[i].pdu : i \in DOMAIN dl_f1u} \cup {tx.next}
      BY <2>2, <2>3
    <3>4. QED
      BY <3>1, <3>2, <3>3 DEF PduCounts
  <2>5. OnTheWay' = OnTheWay \cup {tx.next}
    BY <1>5, <2>4 DEF OnTheWay
  <2>6. TypeInv'
    BY <1>2, <2>1, <2>3 DEF IInv, TypeInv
  <2>7. OrderInv'
    <3>1. \A a \in OnTheWay' : a < tx'.next /\ tx'.next <= a + SnMod
      BY <1>1, <1>3, <1>4, <1>8, <2>5
    <3>2. /\ \A a \in RlcCounts, b \in QueueCounts \cup PduCounts' : a < b
          /\ \A a \in QueueCounts, b \in PduCounts' : a < b
      BY <1>8, <2>4 DEF IInv, OrderInv
    <3>3. ASSUME NEW i \in DOMAIN dl_f1u', NEW j \in DOMAIN dl_f1u', i < j,
                 dl_f1u'[j].pdu # NoCount
          PROVE  dl_f1u'[i].pdu < dl_f1u'[j].pdu
      <4>1. i \in DOMAIN dl_f1u
        BY <2>3, <3>3
      <4>2. CASE j = n
        BY <1>16, <2>2, <2>3, <4>1, <4>2
      <4>3. CASE j \in DOMAIN dl_f1u
        BY <1>15, <2>3, <3>3, <4>1, <4>3
      <4>4. QED
        BY <2>3, <4>2, <4>3
    <3>4. QED
      BY <1>2, <1>5, <3>1, <3>2, <3>3 DEF IInv, OrderInv
  <2>8. UnconnectedInv'
    BY <1>2, <1>7, <1>18, UnconnectedKept
  <2>9. CoverInv'
    <3>1. \A c \in tx'.window : WillBeSettled(c) \/ c \in OnTheWay'
      BY <1>1, <1>6, <1>18, <2>5 DEF IInv, CoverInv
    <3>2. /\ \A i \in DOMAIN rlc : rlc[i].got => WillBeSettled(rlc[i].count)
          /\ \A i \in DOMAIN sdu_queue :
               sdu_queue[i].discarded => WillBeSettled(sdu_queue[i].count)
      BY <1>6 DEF IInv, CoverInv
    <3>3. QED
      BY <1>2, <3>1, <3>2 DEF CoverInv, Settled, WillBeSettled
  <2>10. DiscardInv'
    <3>1. ASSUME NEW i \in DOMAIN dl_f1u, NEW b \in dl_f1u[i].discard
          PROVE  /\ WillBeSettled(b) /\ b < tx'.next
                 /\ \A a \in QueueCounts : a < b + SnMod
                 /\ \A j \in DOMAIN dl_f1u' : j <= i => dl_f1u'[j].pdu < b + SnMod
      <4>1. /\ Settled(b) /\ b < tx.next /\ b \in Nat
            /\ \A a \in QueueCounts : a < b + SnMod
            /\ \A j \in DOMAIN dl_f1u : j <= i => dl_f1u[j].pdu < b + SnMod
        BY <1>14 DEF IInv, DiscardInv
      <4>2. \A j \in DOMAIN dl_f1u' : j <= i => j \in DOMAIN dl_f1u
        BY <2>3
      <4>3. QED
        BY <1>1, <1>3, <1>6, <2>3, <4>1, <4>2
    <3>2. ASSUME NEW b \in m.discard
          PROVE  /\ WillBeSettled(b) /\ b < tx'.next
                 /\ \A a \in QueueCounts : a < b + SnMod
                 /\ \A j \in DOMAIN dl_f1u' : dl_f1u'[j].pdu < b + SnMod
      <4>1. Settled(b) /\ b < tx.next /\ tx.next <= b + window_size /\ b \in Nat
        BY <1>7, <2>2 DEF IInv, DiscardInv
      <4>2. \A a \in Int : a <= tx.next => a < b + SnMod
        BY <1>3, <1>4, <4>1
      <4>3. \A j \in DOMAIN dl_f1u' : dl_f1u'[j].pdu \in Int /\ dl_f1u'[j].pdu <= tx.next
        BY <1>3, <1>14, <1>16, <2>2, <2>3
      <4>4. \A a \in QueueCounts : a \in Int /\ a <= tx.next
        BY <1>3, <1>8
      <4>5. b < tx'.next
        BY <1>1, <1>3, <4>1
      <4>6. QED
        BY <1>6, <4>1, <4>2, <4>3, <4>4, <4>5
    <3>3. \A i \in DOMAIN dl_f1u' : \A b \in dl_f1u'[i].discard :
            /\ WillBeSettled(b) /\ b < tx'.next
            /\ \A a \in QueueCounts : a < b + SnMod
            /\ \A j \in DOMAIN dl_f1u' : j <= i => dl_f1u'[j].pdu < b + SnMod
      BY <2>3, <3>1, <3>2
    <3>4. QED
      BY <1>5, <2>1, <3>3 DEF DiscardInv, Settled, WillBeSettled
  <2>11. NewsInv'
    BY <1>13, <2>1, <2>5
  <2>12. QED
    BY <1>9, <1>10, <1>11, <2>6, <2>7, <2>8, <2>9, <2>10, <2>11 DEF IInv
<1>19. QED
  BY <1>7, <1>17, <1>18

(* The expiry of dl_notif_timer sends the pending discards.                *)
LEMMA FlushKeeps ==
  ASSUME IInv, ~failure, FlushDiscardBlocks
  PROVE  IInv'
<1>1. /\ cu.blocks # {}
      /\ UNCHANGED <<tx, connected, ul_f1u, du, sdu_queue, rlc, rx, delivered, report,
                     lost, discarded, failure>>
  BY DEF FlushDiscardBlocks, rlc_vars, peer_vars
<1>2. connected = TRUE
  BY <1>1, Carries
<1>3. /\ cu' \in CuStates /\ cu'.blocks = {} /\ cu'.notif_dl = cu.notif_dl
      /\ \E m \in DlMessages :
           dl_f1u' = Append(dl_f1u, m) /\ m.discard = cu.blocks /\ m.pdu = NoCount
  <2>1. ~HandleSdu
    <3>1. HandleSdu => tx' # tx
      BY SduStep, Types
    <3>2. QED
      BY <1>1, <3>1
  <2>2. QED
    BY <2>1, Sends
<1>4. PICK m \in DlMessages :
        dl_f1u' = Append(dl_f1u, m) /\ m.discard = cu.blocks /\ m.pdu = NoCount
  BY <1>3
<1>5. dl_f1u \in Seq(DlMessages) /\ cu.blocks \subseteq Nat
  BY DEF IInv, TypeInv, CuStates
<1> DEFINE n == Len(dl_f1u) + 1
<1>6. /\ dl_f1u' \in Seq(DlMessages) /\ n \in Int
      /\ DOMAIN dl_f1u' = DOMAIN dl_f1u \cup {n}
      /\ \A i \in DOMAIN dl_f1u : i \in Int /\ i < n /\ dl_f1u'[i] = dl_f1u[i]
      /\ dl_f1u'[n] = m
  BY <1>4, <1>5, Appended
<1> HIDE DEF n
<1>7. UNCHANGED <<RlcCounts, QueueCounts, PduCounts, OnTheWay>>
  <2>1. UNCHANGED <<RlcCounts, QueueCounts>>
    BY <1>1 DEF RlcCounts, QueueCounts
  <2>2. PduCounts' = {dl_f1u'[i].pdu : i \in DOMAIN dl_f1u \cup {n}} \ {NoCount}
    BY <1>6 DEF PduCounts
  <2>3. {dl_f1u'[i].pdu : i \in DOMAIN dl_f1u \cup {n}} = {dl_f1u[i].pdu : i \in DOMAIN dl_f1u} \cup {NoCount}
    BY <1>4, <1>6
  <2>4. PduCounts' = PduCounts
    BY <2>2, <2>3 DEF PduCounts
  <2>5. QED
    BY <2>1, <2>4 DEF OnTheWay
<1>8. \A c : Settled(c) <=> WillBeSettled(c)
  BY <1>1 DEF Settled, WillBeSettled
<1>9. \A c \in Nat : Settled(c) => Settled(c)'
  BY <1>8, WillBe
<1>10. TypeInv'
  BY <1>1, <1>3, <1>6 DEF IInv, TypeInv
<1>11. EntityInv' /\ DeliveredInv' /\ ReportInv' /\ UnconnectedInv'
  <2>1. TxOrdered(tx')
    BY <1>1, Types
  <2>2. QED
    BY <1>1, <1>2, <2>1, EntityKept, DeliveredKept, ReportKept, UnconnectedKept
<1>12. LossInv' /\ NewsInv'
  BY <1>1, <1>3, <1>7, <1>9, LossKept, NewsKept
<1>13. OrderInv'
  <2>1. \A i, j \in DOMAIN dl_f1u' :
          i < j /\ dl_f1u'[j].pdu # NoCount => dl_f1u'[i].pdu < dl_f1u'[j].pdu
    <3>1. \A i, j \in DOMAIN dl_f1u :
            i < j /\ dl_f1u[j].pdu # NoCount => dl_f1u[i].pdu < dl_f1u[j].pdu
      BY DEF IInv, OrderInv
    <3>2. \A i, j \in DOMAIN dl_f1u' :
            i < j /\ dl_f1u'[j].pdu # NoCount => i \in DOMAIN dl_f1u /\ j \in DOMAIN dl_f1u
      BY <1>4, <1>6
    <3>3. QED
      BY <1>6, <3>1, <3>2
  <2>2. QED
    BY <1>1, <1>7, <2>1 DEF IInv, OrderInv
<1>14. CoverInv'
  BY <1>1, <1>7, <1>8 DEF IInv, CoverInv, Settled
<1>15. DiscardInv'
  <2>1. /\ tx.next \in Nat /\ window_size \in Nat /\ SnMod = 2 * window_size
        /\ window_size >= 2 /\ SnMod \in Nat
    BY Types, Constants
  <2>2. \A i \in DOMAIN dl_f1u : dl_f1u[i].discard \subseteq Nat /\ dl_f1u[i].pdu \in Int
    BY CountTypes DEF DlMessages
  <2>3. \A a \in OnTheWay : a \in Nat /\ a < tx.next
    BY CountTypes DEF IInv, OrderInv
  <2>4. \A i \in DOMAIN dl_f1u' : dl_f1u'[i].pdu \in Int /\ dl_f1u'[i].pdu <= tx.next
    <3>1. \A i \in DOMAIN dl_f1u : dl_f1u[i].pdu # NoCount => dl_f1u[i].pdu \in OnTheWay
      BY CountTypes DEF OnTheWay
    <3>2. \A i \in DOMAIN dl_f1u : dl_f1u[i].pdu <= tx.next
      BY <2>1, <2>2, <2>3, <3>1 DEF NoCount
    <3>3. NoCount \in Int /\ NoCount <= tx.next
      BY <2>1 DEF NoCount
    <3>4. QED
      BY <1>4, <1>6, <2>2, <3>2, <3>3
  <2>5. ASSUME NEW i \in DOMAIN dl_f1u, NEW b \in dl_f1u[i].discard
        PROVE  /\ WillBeSettled(b) /\ b < tx.next
               /\ \A a \in QueueCounts : a < b + SnMod
               /\ \A j \in DOMAIN dl_f1u' : j <= i => dl_f1u'[j].pdu < b + SnMod
    <3>1. /\ Settled(b) /\ b < tx.next /\ b \in Nat
          /\ \A a \in QueueCounts : a < b + SnMod
          /\ \A j \in DOMAIN dl_f1u : j <= i => dl_f1u[j].pdu < b + SnMod
      BY <2>2 DEF IInv, DiscardInv
    <3>2. \A j \in DOMAIN dl_f1u' : j <= i => j \in DOMAIN dl_f1u
      BY <1>6
    <3>3. QED
      BY <1>6, <1>8, <3>1, <3>2
  <2>6. ASSUME NEW b \in m.discard
        PROVE  /\ WillBeSettled(b) /\ b < tx.next
               /\ \A a \in QueueCounts : a < b + SnMod
               /\ \A j \in DOMAIN dl_f1u' : dl_f1u'[j].pdu < b + SnMod
    <3>1. Settled(b) /\ b < tx.next /\ tx.next <= b + window_size /\ b \in Nat
      BY <1>4, <1>5 DEF IInv, DiscardInv
    <3>2. \A a \in Int : a <= tx.next => a < b + SnMod
      BY <2>1, <3>1
    <3>3. \A a \in QueueCounts : a \in Int /\ a <= tx.next
      BY <2>1, <2>3 DEF OnTheWay
    <3>4. QED
      BY <1>8, <2>4, <3>1, <3>2, <3>3
  <2>7. \A i \in DOMAIN dl_f1u' : \A b \in dl_f1u'[i].discard :
          /\ WillBeSettled(b) /\ b < tx.next
          /\ \A a \in QueueCounts : a < b + SnMod
          /\ \A j \in DOMAIN dl_f1u' : j <= i => dl_f1u'[j].pdu < b + SnMod
    BY <1>6, <2>5, <2>6
  <2>8. QED
    BY <1>1, <1>3, <1>7, <2>7 DEF DiscardInv, Settled, WillBeSettled
<1>16. QED
  BY <1>10, <1>11, <1>12, <1>13, <1>14, <1>15 DEF IInv

(* The discard timer and the status report.                                *)
LEMMA DiscardKeeps ==
  ASSUME IInv, ~failure, DiscardTimerExpired \/ HandleStatusReport
  PROVE  IInv'
<1>1. PICK gone \in SUBSET tx.window :
        /\ TxOrdered(tx') /\ tx'.next = tx.next /\ tx'.window = tx.window \ gone
        /\ cu' \in CuStates /\ cu'.blocks = cu.blocks \cup gone
        /\ cu'.notif_dl = cu.notif_dl
        /\ failure' \in BOOLEAN
        /\ ~failure' => connected \/ gone = {}
        /\ \A c \in gone : Settled(c)'
        /\ discarded \subseteq discarded' /\ discarded' \subseteq Nat
        /\ report' \subseteq report
        /\ UNCHANGED <<connected, dl_f1u, ul_f1u, du, sdu_queue, rlc, rx, delivered, lost>>
  BY DiscardStep
<1>2. \A c \in Nat : Settled(c) => Settled(c)'
  BY <1>1, SettledSame
<1>3. tx'.window \subseteq tx.window /\ \A c \in tx.window : c \in tx'.window \/ WillBeSettled(c)
  BY <1>1, WillBe
<1>4. TypeInv'
  BY <1>1 DEF IInv, TypeInv
<1>5. EntityInv' /\ DeliveredInv' /\ ReportInv' /\ LossInv' /\ CoverInv'
  BY <1>1, <1>2, <1>3, EntityKept, DeliveredKept, ReportKept, LossKept, CoverKept
<1>6. OrderInv' /\ UNCHANGED <<OnTheWay, QueueCounts>>
  BY <1>1, OrderKept
<1>7. NewsInv'
  BY <1>1, <1>2, <1>3, <1>6, NewsKept
<1>8. UnconnectedInv'
  <2>1. CASE connected
    BY <1>1, <2>1 DEF UnconnectedInv
  <2>2. CASE ~connected
    <3>1. /\ cu.blocks = {} /\ dl_f1u = << >> /\ ul_f1u = << >>
          /\ du = NewDuBearer /\ sdu_queue = << >> /\ rlc = << >>
      BY <2>2 DEF IInv, UnconnectedInv
    <3>2. ~failure' => cu'.blocks = {}
      BY <1>1, <2>2, <3>1
    <3>3. QED
      BY <1>1, <3>1, <3>2 DEF UnconnectedInv
  <2>3. QED
    BY <2>1, <2>2
<1>9. DiscardInv'
  <2>1. \A c \in Nat : Settled(c) => WillBeSettled(c)
    BY <1>2, WillBe
  <2>2. cu.blocks \subseteq Nat /\ \A i \in DOMAIN dl_f1u : dl_f1u[i].discard \subseteq Nat
    BY CountTypes DEF IInv, TypeInv, CuStates, DlMessages
  <2>3. \A b \in gone : WillBeSettled(b) /\ b < tx.next /\ tx.next <= b + window_size
    BY <1>1, Types, WillBe DEF IInv, EntityInv
  <2>4. \A b \in cu.blocks : WillBeSettled(b) /\ b < tx.next /\ tx.next <= b + window_size
    BY <2>1, <2>2 DEF IInv, DiscardInv
  <2>5. \A i \in DOMAIN dl_f1u : \A b \in dl_f1u[i].discard :
          /\ WillBeSettled(b) /\ b < tx.next
          /\ \A a \in QueueCounts : a < b + SnMod
          /\ \A j \in DOMAIN dl_f1u : j <= i => dl_f1u[j].pdu < b + SnMod
    BY <2>1, <2>2 DEF IInv, DiscardInv
  <2>6. QED
    BY <1>1, <1>6, <2>3, <2>4, <2>5 DEF DiscardInv, Settled, WillBeSettled
<1>10. QED
  BY <1>4, <1>5, <1>6, <1>7, <1>8, <1>9 DEF IInv

(* The delivery status messages but the first, and once more the last.     *)
LEMMA ReportsShortened ==
  ASSUME IInv, ul_f1u # << >>, ul_f1u' = Tail(ul_f1u), UNCHANGED du
  PROVE  /\ 1 \in DOMAIN Reports /\ Reports[1] = Head(ul_f1u)
         /\ \A i \in DOMAIN Reports' :
              i \in Int /\ 1 < i + 1 /\ i + 1 \in DOMAIN Reports /\ Reports'[i] = Reports[i + 1]
<1>1. ul_f1u \in Seq(DuStates) /\ du \in DuStates
  BY ReportTypes
<1>2. /\ ul_f1u' \in Seq(DuStates) /\ Len(ul_f1u') = Len(ul_f1u) - 1 /\ Len(ul_f1u) \in Nat
      /\ \A i \in 1..(Len(ul_f1u) - 1) : ul_f1u'[i] = ul_f1u[i + 1]
      /\ Len(ul_f1u) >= 1 /\ Head(ul_f1u) = ul_f1u[1]
  BY <1>1
<1>3. Reports = Append(ul_f1u, du) /\ Reports' = Append(ul_f1u', du)
  BY DEF Reports
<1>4. /\ DOMAIN Reports = 1..(Len(ul_f1u) + 1) /\ DOMAIN Reports' = 1..Len(ul_f1u)
      /\ \A i \in 1..Len(ul_f1u) : Reports[i] = ul_f1u[i]
      /\ Reports[Len(ul_f1u) + 1] = du
      /\ \A i \in 1..(Len(ul_f1u) - 1) : Reports'[i] = ul_f1u'[i]
      /\ Reports'[Len(ul_f1u)] = du
  BY <1>1, <1>2, <1>3
<1>5. ASSUME NEW i \in DOMAIN Reports'
      PROVE  i \in Int /\ 1 < i + 1 /\ i + 1 \in DOMAIN Reports /\ Reports'[i] = Reports[i + 1]
  <2>1. i \in Int /\ 1 < i + 1 /\ i + 1 \in DOMAIN Reports
    BY <1>2, <1>4
  <2>2. CASE i = Len(ul_f1u)
    BY <1>4, <2>2
  <2>3. CASE i \in 1..(Len(ul_f1u) - 1)
    <3>1. i + 1 \in 1..Len(ul_f1u)
      BY <1>2, <2>3
    <3>2. QED
      BY <1>2, <1>4, <2>1, <2>3, <3>1
  <2>4. QED
    BY <1>2, <1>4, <2>2, <2>3
<1>6. 1 \in DOMAIN Reports /\ Reports[1] = Head(ul_f1u)
  BY <1>2, <1>4
<1>7. QED
  BY <1>5, <1>6

(* What the order of the messages gives when the first of them goes.       *)
LEMMA NewsShortened ==
  ASSUME IInv, ul_f1u # << >>, ul_f1u' = Tail(ul_f1u), UNCHANGED <<du, OnTheWay>>,
         tx'.next = tx.next, tx'.window \subseteq tx.window,
         \A c \in Nat : Settled(c) => Settled(c)',
         \/ cu'.notif_dl = cu.notif_dl
         \/ IsNews(cu.notif_dl, Head(ul_f1u).dl)
  PROVE  NewsInv'
<1>1. /\ 1 \in DOMAIN Reports /\ Reports[1] = Head(ul_f1u)
      /\ \A i \in DOMAIN Reports' :
           i \in Int /\ 1 < i + 1 /\ i + 1 \in DOMAIN Reports /\ Reports'[i] = Reports[i + 1]
  BY ReportsShortened
<1>2. /\ \A i, j \in DOMAIN Reports : i < j => Reports[i].dl <= Reports[j].dl
      /\ \A i \in DOMAIN Reports : \A c \in tx.window : c <= Reports[i].dl => Settled(c)
      /\ du.dl < tx.next /\ \A a \in OnTheWay : du.dl < a
      /\ \A i \in DOMAIN Reports :
           IsNews(cu.notif_dl, Reports[i].dl) => tx.next <= Reports[i].dl + SnMod
  BY DEF IInv, NewsInv
<1>3. \A i \in DOMAIN Reports : Reports[i].dl \in Int
  BY ReportTypes
<1>4. \A i, j \in DOMAIN Reports' : i < j => Reports'[i].dl <= Reports'[j].dl
  <2> SUFFICES ASSUME NEW i \in DOMAIN Reports', NEW j \in DOMAIN Reports', i < j
               PROVE  Reports'[i].dl <= Reports'[j].dl
    OBVIOUS
  <2>1. i + 1 < j + 1 /\ i + 1 \in DOMAIN Reports /\ j + 1 \in DOMAIN Reports
    BY <1>1
  <2>2. QED
    BY <1>1, <1>2, <2>1
<1>5. \A i \in DOMAIN Reports' : \A c \in tx'.window : c <= Reports'[i].dl => WillBeSettled(c)
  BY <1>1, <1>2, Types, WillBe
<1>6. ASSUME NEW i \in DOMAIN Reports', IsNews(cu'.notif_dl, Reports'[i].dl)
      PROVE  tx.next <= Reports'[i].dl + SnMod
  <2>1. CASE cu'.notif_dl = cu.notif_dl
    BY <1>1, <1>2, <1>6, <2>1
  <2>2. CASE IsNews(cu.notif_dl, Head(ul_f1u).dl)
    <3>1. tx.next <= Reports[1].dl + SnMod
      BY <1>1, <1>2, <2>2
    <3>2. Reports[1].dl <= Reports'[i].dl
      BY <1>1, <1>2
    <3>3. Reports[1].dl \in Int /\ Reports'[i].dl \in Int /\ tx.next \in Nat /\ SnMod \in Nat
      BY <1>1, <1>3, Types, Constants
    <3>4. QED
      BY <3>1, <3>2, <3>3
  <2>3. QED
    BY <2>1, <2>2
<1>7. QED
  BY <1>2, <1>4, <1>5, <1>6 DEF NewsInv, Settled, WillBeSettled

(* A data delivery status arrives at the CU-UP.                            *)
LEMMA UlKeeps ==
  ASSUME IInv, ~failure, HandleUlMessage
  PROVE  IInv'
<1>1. /\ TxOrdered(tx') /\ tx'.next = tx.next /\ tx'.window \subseteq tx.window
      /\ \A c \in tx.window : c \in tx'.window \/ Settled(c)
      /\ cu' \in CuStates /\ cu'.blocks = cu.blocks
      /\ cu'.notif_dl = IF IsNews(cu.notif_dl, Head(ul_f1u).dl)
                        THEN SN(Head(ul_f1u).dl) ELSE cu.notif_dl
      /\ ul_f1u # << >> /\ ul_f1u' = Tail(ul_f1u)
      /\ UNCHANGED <<connected, dl_f1u, du, sdu_queue, rlc, rx, delivered, report,
                     lost, discarded, failure>>
  BY UlStep
<1>2. \A c \in Nat : Settled(c) => Settled(c)'
  BY <1>1, SettledSame
<1>3. connected = TRUE
  BY <1>1, Carries
<1>4. OrderInv' /\ UNCHANGED <<OnTheWay, QueueCounts>>
  BY <1>1, OrderKept
<1>5. TypeInv'
  <2>1. ul_f1u' \in Seq(DuStates)
    BY <1>1, ReportTypes, Shortened
  <2>2. QED
    BY <1>1, <2>1 DEF IInv, TypeInv
<1>6. EntityInv' /\ DeliveredInv' /\ ReportInv' /\ CoverInv' /\ UnconnectedInv'
  BY <1>1, <1>2, <1>3, EntityKept, DeliveredKept, ReportKept, CoverKept, UnconnectedKept
<1>7. LossInv'
  <2>1. \A c \in tx.window : c \in tx'.window \/ WillBeSettled(c)
    BY <1>1, <1>2, Types, WillBe
  <2>2. QED
    BY <1>1, <1>2, <2>1, LossKept
<1>8. DiscardInv'
  BY <1>1, <1>2, <1>4, DiscardKept
<1>9. NewsInv'
  BY <1>1, <1>2, <1>4, NewsShortened
<1>10. QED
  BY <1>4, <1>5, <1>6, <1>7, <1>8, <1>9 DEF IInv

(* A task of a replaced F1-U bearer runs, and finds its bearer or not.     *)
LEMMA OldUlStep ==
  ASSUME IInv, OldInv, HandleOldUlMessage
  PROVE  /\ TxOrdered(tx') /\ tx'.next = tx.next /\ tx'.window \subseteq tx.window
         /\ \A c \in tx.window : c \in tx'.window \/ Settled(c)
         /\ old_ul # << >> /\ old_ul' = Tail(old_ul)
         /\ UNCHANGED <<connected, cu, dl_f1u, ul_f1u, du, sdu_queue, rlc, rx,
                        delivered, report, lost, discarded, failure>>
<1>1. /\ old_ul # << >> /\ old_ul' = Tail(old_ul)
      /\ tx' = tx \/ tx' = Notified(Head(old_ul))
      /\ UNCHANGED <<connected, cu, dl_f1u, ul_f1u, du, sdu_queue, rlc, rx,
                     delivered, report, lost, discarded, failure>>
  BY DEF HandleOldUlMessage, rlc_vars, peer_vars
<1>2. old_ul \in Seq(DuStates)
  BY DEF OldInv
<1>3. 1 \in DOMAIN old_ul /\ Head(old_ul) = old_ul[1] /\ Head(old_ul) \in DuStates
  BY <1>1, <1>2, Shortened
<1>4. CASE tx' = tx
  BY <1>1, <1>4, Types
<1>5. CASE tx' = Notified(Head(old_ul))
  <2>1. PICK status \in DuStates : status = old_ul[1] /\ tx' = Notified(status)
    BY <1>3, <1>5
  <2>2. /\ status.dl # NoCount => tx.next <= status.dl + SnMod
        /\ \A c \in tx.window : c <= status.dl => Settled(c)
    BY <1>3, <2>1 DEF OldInv
  <2>3. QED
    BY <1>1, <2>1, <2>2, NotifiedStep
<1>6. QED
  BY <1>1, <1>4, <1>5

(* So it disturbs nothing either way.                                      *)
LEMMA OldUlKeeps ==
  ASSUME IInv, OldInv, ~failure, HandleOldUlMessage
  PROVE  IInv'
<1>1. /\ TxOrdered(tx') /\ tx'.next = tx.next /\ tx'.window \subseteq tx.window
      /\ \A c \in tx.window : c \in tx'.window \/ Settled(c)
      /\ UNCHANGED <<connected, cu, dl_f1u, ul_f1u, du, sdu_queue, rlc, rx,
                     delivered, report, lost, discarded, failure>>
  BY OldUlStep
<1>2. \A c \in Nat : Settled(c) => Settled(c)'
  BY <1>1, SettledSame
<1>3. OrderInv' /\ UNCHANGED <<OnTheWay, QueueCounts>>
  BY <1>1, OrderKept
<1>4. TypeInv' /\ UnconnectedInv'
  BY <1>1 DEF IInv, TypeInv, UnconnectedInv
<1>5. EntityInv' /\ DeliveredInv' /\ ReportInv' /\ CoverInv' /\ DiscardInv' /\ NewsInv'
  BY <1>1, <1>2, <1>3, EntityKept, DeliveredKept, ReportKept, CoverKept, DiscardKept,
     NewsKept
<1>6. LossInv'
  <2>1. \A c \in tx.window : c \in tx'.window \/ WillBeSettled(c)
    BY <1>1, <1>2, Types, WillBe
  <2>2. QED
    BY <1>1, <1>2, <2>1, LossKept
<1>7. QED
  BY <1>3, <1>4, <1>5, <1>6 DEF IInv

(* A data delivery status or a status report is lost.                      *)
LEMMA LoseUlKeeps ==
  ASSUME IInv, ~failure, LoseUlMessage
  PROVE  IInv'
<1>1. /\ \/ ul_f1u # << >> /\ ul_f1u' = Tail(ul_f1u) /\ report' = report
         \/ report' = {} /\ ul_f1u' = ul_f1u
      /\ UNCHANGED <<tx, connected, cu, dl_f1u, du, sdu_queue, rlc, rx, delivered,
                     lost, discarded, failure>>
  BY DEF LoseUlMessage, cu_vars, rlc_vars, peer_vars
<1>2. \A c \in Nat : Settled(c) => Settled(c)'
  BY <1>1, SettledSame
<1>3. OrderInv' /\ UNCHANGED <<OnTheWay, QueueCounts>>
  BY <1>1, OrderKept
<1>4. TxOrdered(tx') /\ report' \subseteq report /\ tx'.window \subseteq tx.window
  BY <1>1, Types
<1>5. TypeInv'
  <2>1. ul_f1u' \in Seq(DuStates)
    BY <1>1, ReportTypes, Shortened
  <2>2. QED
    BY <1>1, <2>1 DEF IInv, TypeInv
<1>6. EntityInv' /\ DeliveredInv' /\ ReportInv' /\ CoverInv' /\ LossInv' /\ DiscardInv'
  BY <1>1, <1>2, <1>3, <1>4, EntityKept, DeliveredKept, ReportKept, CoverKept, LossKept,
     DiscardKept
<1>7. UnconnectedInv'
  BY <1>1 DEF IInv, UnconnectedInv
<1>8. NewsInv'
  BY <1>1, <1>2, <1>3, <1>4, NewsKept, NewsShortened
<1>9. QED
  BY <1>3, <1>5, <1>6, <1>7, <1>8 DEF IInv

(* The DU sends a data delivery status.                                    *)
LEMMA StatusKeeps ==
  ASSUME IInv, ~failure, SendDeliveryStatus
  PROVE  IInv'
<1>1. /\ du # NewDuBearer /\ ul_f1u' = Append(ul_f1u, du)
      /\ UNCHANGED <<tx, connected, cu, dl_f1u, du, sdu_queue, rlc, rx, delivered, report,
                     lost, discarded, failure>>
  BY DEF SendDeliveryStatus, cu_vars, rlc_vars, peer_vars
<1>2. \A c \in Nat : Settled(c) => Settled(c)'
  BY <1>1, SettledSame
<1>3. connected = TRUE
  BY <1>1, Carries
<1>4. OrderInv' /\ UNCHANGED <<OnTheWay, QueueCounts>>
  BY <1>1, OrderKept
<1>5. TxOrdered(tx') /\ report' \subseteq report /\ tx'.window \subseteq tx.window
  BY <1>1, Types
<1>6. TypeInv'
  <2>1. ul_f1u' \in Seq(DuStates)
    BY <1>1, ReportTypes
  <2>2. QED
    BY <1>1, <2>1 DEF IInv, TypeInv
<1>7. EntityInv' /\ DeliveredInv' /\ ReportInv' /\ CoverInv' /\ LossInv' /\ DiscardInv'
      /\ UnconnectedInv'
  BY <1>1, <1>2, <1>3, <1>4, <1>5, EntityKept, DeliveredKept, ReportKept, CoverKept,
     LossKept, DiscardKept, UnconnectedKept
<1>8. NewsInv'
  <2>1. Reports' = Append(Reports, du) /\ Reports \in Seq(DuStates) /\ du \in DuStates
    BY <1>1, ReportTypes DEF Reports
  <2> DEFINE n == Len(Reports) + 1
             old == Len(ul_f1u) + 1
  <2>2. /\ DOMAIN Reports' = DOMAIN Reports \cup {n} /\ n \in Int
        /\ \A i \in DOMAIN Reports : i \in Int /\ i < n /\ Reports'[i] = Reports[i]
        /\ Reports'[n] = du
    BY <2>1, Appended
  <2>3. /\ old \in DOMAIN Reports /\ Reports[old] = du /\ old \in Int
        /\ \A i \in DOMAIN Reports : i = old \/ i < old
        /\ \A i \in DOMAIN Reports : Reports[i].dl \in Int
    BY ReportTypes
  <2> HIDE DEF n, old
  <2>4. /\ \A i, j \in DOMAIN Reports : i < j => Reports[i].dl <= Reports[j].dl
        /\ \A i \in DOMAIN Reports : \A c \in tx.window : c <= Reports[i].dl => Settled(c)
        /\ du.dl < tx.next /\ \A a \in OnTheWay : du.dl < a
        /\ \A i \in DOMAIN Reports :
             IsNews(cu.notif_dl, Reports[i].dl) => tx.next <= Reports[i].dl + SnMod
    BY DEF IInv, NewsInv
  <2>5. \A i \in DOMAIN Reports : Reports[i].dl <= du.dl
    BY <2>3, <2>4
  <2>6. ASSUME NEW i \in DOMAIN Reports', NEW j \in DOMAIN Reports', i < j
        PROVE  Reports'[i].dl <= Reports'[j].dl
    <3>1. i \in DOMAIN Reports
      BY <2>2, <2>6
    <3>2. QED
      BY <2>2, <2>4, <2>5, <2>6, <3>1
  <2>7. \A i \in DOMAIN Reports' : \E k \in DOMAIN Reports : Reports'[i] = Reports[k]
    BY <2>2, <2>3
  <2>8. \A i \in DOMAIN Reports' : \A c \in tx.window : c <= Reports'[i].dl => WillBeSettled(c)
    <3>1. \A c \in tx.window : Settled(c) => WillBeSettled(c)
      BY <1>2, Types, WillBe
    <3>2. QED
      BY <2>4, <2>7, <3>1
  <2>9. \A i \in DOMAIN Reports' :
          IsNews(cu.notif_dl, Reports'[i].dl) => tx.next <= Reports'[i].dl + SnMod
    BY <2>4, <2>7
  <2>10. QED
    BY <1>1, <1>4, <2>4, <2>6, <2>8, <2>9 DEF NewsInv, Settled, WillBeSettled
<1>9. QED
  BY <1>4, <1>6, <1>7, <1>8 DEF IInv

(* The first modification: nothing is on its way any longer.               *)
LEMMA ReplaceKeeps ==
  ASSUME IInv, ~failure, ReplaceF1u
  PROVE  IInv'
<1>1. /\ connected' = FALSE /\ cu' = NewCuBearer /\ du' = NewDuBearer
      /\ dl_f1u' = << >> /\ ul_f1u' = << >> /\ sdu_queue' = << >> /\ rlc' = << >>
      /\ report' = {}
      /\ UNCHANGED <<tx, rx, delivered, lost, discarded, failure>>
  BY DEF ReplaceF1u, peer_vars
<1>2. \A c \in Nat : Settled(c) => Settled(c)'
  BY <1>1, SettledSame
<1>3. TxOrdered(tx') /\ tx'.window \subseteq tx.window /\ tx.next \in Nat
      /\ \A c \in tx.window : c \in Nat
  BY <1>1, Types
<1>4. cu' \in CuStates /\ cu'.blocks = {} /\ du' \in DuStates /\ du'.dl = -1
  BY <1>1 DEF NewCuBearer, NewDuBearer, CuStates, DuStates, MaybeCount, NoCount
<1>5. /\ dl_f1u' \in Seq(DlMessages) /\ ul_f1u' \in Seq(DuStates)
      /\ sdu_queue' \in Seq(QueuedSdus) /\ rlc' \in Seq(SentSdus)
      /\ DOMAIN dl_f1u' = {} /\ DOMAIN sdu_queue' = {} /\ DOMAIN rlc' = {}
  BY <1>1
<1>6. TypeInv'
  BY <1>1, <1>4, <1>5 DEF IInv, TypeInv
<1>7. EntityInv' /\ DeliveredInv' /\ ReportInv' /\ LossInv'
  BY <1>1, <1>2, <1>3, EntityKept, DeliveredKept, ReportKept, LossKept
<1>8. RlcCounts' = {} /\ QueueCounts' = {} /\ PduCounts' = {} /\ OnTheWay' = {}
  <2>1. RlcCounts' = {} /\ QueueCounts' = {}
    BY <1>5 DEF RlcCounts, QueueCounts
  <2>2. PduCounts' = {}
    BY <1>5 DEF PduCounts
  <2>3. QED
    BY <2>1, <2>2 DEF OnTheWay
<1>9. OrderInv' /\ CoverInv' /\ DiscardInv' /\ UnconnectedInv'
  BY <1>1, <1>4, <1>5, <1>8 DEF OrderInv, CoverInv, DiscardInv, UnconnectedInv
<1>10. NewsInv'
  <2>1. Reports' = Append(ul_f1u', du') /\ Len(ul_f1u') = 0 /\ DOMAIN ul_f1u' = {}
    BY <1>1 DEF Reports
  <2>2. DOMAIN Reports' = {1} /\ Reports'[1] = du'
    BY <1>4, <1>5, <2>1, Appended
  <2>3. \A i \in DOMAIN Reports' : Reports'[i].dl = -1
    BY <1>4, <2>2
  <2>4. \A c \in tx.window : ~(c <= -1)
    BY <1>3
  <2>5. \A i \in DOMAIN Reports' : ~IsNews(cu'.notif_dl, Reports'[i].dl)
    BY <2>3 DEF IsNews, NoCount
  <2>6. du'.dl < tx'.next
    BY <1>1, <1>3, <1>4
  <2>7. \A i, j \in DOMAIN Reports' : i < j => Reports'[i].dl <= Reports'[j].dl
    BY <2>3
  <2>8. QED
    BY <1>1, <1>8, <2>3, <2>4, <2>5, <2>6, <2>7 DEF NewsInv
<1>11. QED
  BY <1>6, <1>7, <1>9, <1>10 DEF IInv

(* The second one: the window of PDCP is on its way again, so what F1-U    *)
(* had lost of it need not count as lost any longer.                       *)
LEMMA ReestablishKeeps ==
  ASSUME IInv, ~failure, ReestablishPdcp
  PROVE  IInv'
<1>1. /\ ~connected /\ connected' = TRUE
      /\ TxOrdered(tx') /\ tx'.next = tx.next /\ tx'.window = tx.window
      /\ lost' \subseteq lost /\ \A c \in lost : c \in lost' \/ c \in tx.window
      /\ report' \subseteq {CompileStatusReport(rx)}
      /\ UNCHANGED <<cu, ul_f1u, du, sdu_queue, rlc, rx, delivered, discarded, failure>>
  BY ReestablishStep
<1>2. PICK s \in Seq(tx.window) :
        /\ \A i, j \in DOMAIN s : i < j => s[i] < s[j]
        /\ \A c \in tx.window : \E i \in DOMAIN s : s[i] = c
        /\ dl_f1u' = dl_f1u \o [i \in DOMAIN s |-> DlMessage(cu, s[i], TRUE)]
  BY ReestablishStep
<1>3. /\ cu.blocks = {} /\ dl_f1u = << >> /\ ul_f1u = << >>
      /\ du = NewDuBearer /\ sdu_queue = << >> /\ rlc = << >>
  BY <1>1 DEF IInv, UnconnectedInv
<1>4. /\ tx.next \in Nat /\ \A c \in tx.window : c \in Nat /\ c < tx.next
      /\ rx.deliv \in Nat /\ rx.window \subseteq Nat
      /\ window_size \in Nat /\ SnMod \in Nat /\ SnMod = 2 * window_size
  BY Types, Constants
<1>5. /\ DOMAIN dl_f1u' = DOMAIN s /\ dl_f1u' \in Seq(DlMessages)
      /\ \A i \in DOMAIN s : /\ dl_f1u'[i].pdu = s[i] /\ dl_f1u'[i].discard = {}
                             /\ s[i] \in tx.window
  <2> DEFINE t == [i \in DOMAIN s |-> DlMessage(cu, s[i], TRUE)]
  <2>1. \A i \in DOMAIN s : s[i] \in tx.window
    OBVIOUS
  <2>2. \A i \in DOMAIN s : s[i] \in MaybeCount
    BY <1>4, <2>1 DEF MaybeCount
  <2>3. \A i \in DOMAIN s : /\ DlMessage(cu, s[i], TRUE) \in DlMessages
                            /\ DlMessage(cu, s[i], TRUE).pdu = s[i]
                            /\ DlMessage(cu, s[i], TRUE).discard = {}
    BY <1>3, <2>2 DEF DlMessage, DlMessages
  <2>4. DOMAIN s = 1..Len(s) /\ Len(s) \in Nat
    OBVIOUS
  <2>5. t \in [1..Len(s) -> DlMessages] /\ DOMAIN t = DOMAIN s
    BY <2>3, <2>4
  <2>6. \A i \in DOMAIN s : t[i] = DlMessage(cu, s[i], TRUE)
    OBVIOUS
  <2> HIDE DEF t
  <2>7. t \in Seq(DlMessages)
    BY <2>4, <2>5
  <2>8. dl_f1u' = t
    BY <1>2, <1>3, <2>7 DEF t
  <2>9. QED
    BY <2>1, <2>3, <2>5, <2>6, <2>7, <2>8
<1>6. PduCounts' = tx.window
  <2>1. \A c \in tx.window : c # NoCount
    BY <1>4 DEF NoCount
  <2>2. PduCounts' = {s[i] : i \in DOMAIN s} \ {NoCount}
    BY <1>5 DEF PduCounts
  <2>3. {s[i] : i \in DOMAIN s} = tx.window
    BY <1>2
  <2>4. QED
    BY <2>1, <2>2, <2>3
<1>7. DOMAIN sdu_queue' = {} /\ DOMAIN rlc' = {} /\ QueueCounts' = {} /\ RlcCounts' = {}
  <2>1. DOMAIN sdu_queue' = {} /\ DOMAIN rlc' = {}
    BY <1>1, <1>3
  <2>2. QED
    BY <2>1 DEF QueueCounts, RlcCounts
<1>8. OnTheWay' = tx.window
  BY <1>6, <1>7 DEF OnTheWay
<1>9. TypeInv'
  <2>1. report' \subseteq [fmc : Nat, received : SUBSET Nat]
    BY <1>1, <1>4 DEF CompileStatusReport
  <2>2. QED
    BY <1>1, <1>5, <2>1 DEF IInv, TypeInv
<1>10. EntityInv' /\ DeliveredInv' /\ UnconnectedInv'
  BY <1>1, EntityKept, DeliveredKept, UnconnectedKept
<1>11. OrderInv'
  <2>1. \A c \in tx.window : c < tx.next /\ tx.next <= c + SnMod
    <3>1. \A c \in tx.window : tx.next <= c + window_size
      BY DEF IInv, EntityInv
    <3>2. QED
      BY <1>4, <3>1
  <2>2. ASSUME NEW i \in DOMAIN dl_f1u', NEW j \in DOMAIN dl_f1u', i < j
        PROVE  dl_f1u'[i].pdu < dl_f1u'[j].pdu
    <3>1. /\ i \in DOMAIN s /\ j \in DOMAIN s
          /\ dl_f1u'[i].pdu = s[i] /\ dl_f1u'[j].pdu = s[j]
      BY <1>5
    <3>2. s[i] < s[j]
      BY <1>2, <2>2, <3>1
    <3>3. QED
      BY <3>1, <3>2
  <2>3. QED
    BY <1>1, <1>6, <1>7, <1>8, <2>1, <2>2 DEF OrderInv
<1>12. CoverInv' /\ DiscardInv'
  BY <1>1, <1>3, <1>5, <1>7, <1>8 DEF CoverInv, DiscardInv
<1>13. ReportInv'
  <2>1. \A r \in report' : r.fmc = rx.deliv /\ r.received \subseteq rx.window
    BY <1>1 DEF CompileStatusReport
  <2>2. rx.deliv <= rx.deliv
    BY <1>4
  <2>3. QED
    BY <1>1, <2>1, <2>2 DEF ReportInv
<1>14. NewsInv'
  <2>1. Reports' = Append(ul_f1u, du) /\ du.dl = -1 /\ du \in DuStates
        /\ ul_f1u \in Seq(DuStates) /\ Len(ul_f1u) = 0 /\ DOMAIN ul_f1u = {}
    BY <1>1, <1>3, ReportTypes DEF Reports, NewDuBearer, NoCount
  <2>2. DOMAIN Reports' = {1} /\ Reports'[1] = du
    BY <2>1, Appended
  <2>3. \A i \in DOMAIN Reports' : Reports'[i].dl = -1
    BY <2>1, <2>2
  <2>4. \A c \in tx.window : ~(c <= -1) /\ -1 < c
    BY <1>4
  <2>5. \A i \in DOMAIN Reports' : ~IsNews(cu'.notif_dl, Reports'[i].dl)
    BY <2>3 DEF IsNews, NoCount
  <2>6. du'.dl = -1 /\ du'.dl < tx'.next
    BY <1>1, <1>4, <2>1
  <2>7. \A i, j \in DOMAIN Reports' : i < j => Reports'[i].dl <= Reports'[j].dl
    BY <2>3
  <2>8. QED
    BY <1>1, <1>8, <2>3, <2>4, <2>5, <2>6, <2>7 DEF NewsInv
<1>15. LossInv'
  <2>1. \A c \in Start..(tx.next - 1) : c \in tx.window \/ WillBeSettled(c)
    BY <1>1 DEF IInv, LossInv, Settled, WillBeSettled
  <2>2. QED
    BY <1>1, <2>1 DEF LossInv, Settled, WillBeSettled
<1>16. QED
  BY <1>9, <1>10, <1>11, <1>12, <1>13, <1>14, <1>15 DEF IInv

(* The messages on F1-U but the first.                                     *)
LEMMA DlShortened ==
  ASSUME IInv, dl_f1u # << >>, dl_f1u' = Tail(dl_f1u)
  PROVE  /\ dl_f1u' \in Seq(DlMessages)
         /\ \A b \in PduCounts' : b \in PduCounts /\ Head(dl_f1u).pdu < b
         /\ \A b \in PduCounts : b \in PduCounts' \/ b = Head(dl_f1u).pdu
         /\ Head(dl_f1u).pdu # NoCount => Head(dl_f1u).pdu \in PduCounts
         /\ \A i, j \in DOMAIN dl_f1u' :
              i < j /\ dl_f1u'[j].pdu # NoCount => dl_f1u'[i].pdu < dl_f1u'[j].pdu
         /\ \A i \in DOMAIN dl_f1u' : \A b \in dl_f1u'[i].discard :
              /\ Settled(b) /\ b \in Nat /\ b < tx.next
              /\ \A a \in QueueCounts : a < b + SnMod
              /\ Head(dl_f1u).pdu < b + SnMod
              /\ \A j \in DOMAIN dl_f1u' : j <= i => dl_f1u'[j].pdu < b + SnMod
<1>1. /\ dl_f1u' \in Seq(DlMessages) /\ 1 \in DOMAIN dl_f1u /\ Head(dl_f1u) = dl_f1u[1]
      /\ \A i \in DOMAIN dl_f1u' : i \in Int /\ i + 1 \in DOMAIN dl_f1u
                                   /\ dl_f1u'[i] = dl_f1u[i + 1] /\ 1 < i + 1
      /\ \A i \in DOMAIN dl_f1u : i \in Int
      /\ \A i \in DOMAIN dl_f1u : i # 1 => i - 1 \in DOMAIN dl_f1u' /\ dl_f1u'[i - 1] = dl_f1u[i]
  <2>1. dl_f1u \in Seq(DlMessages)
    BY DEF IInv, TypeInv
  <2>2. QED
    BY <2>1, Shortened
<1>2. \A i, j \in DOMAIN dl_f1u :
        i < j /\ dl_f1u[j].pdu # NoCount => dl_f1u[i].pdu < dl_f1u[j].pdu
  BY DEF IInv, OrderInv
<1>3. \A i \in DOMAIN dl_f1u : dl_f1u[i].pdu # NoCount => dl_f1u[i].pdu \in PduCounts
  BY DEF PduCounts
<1>4. \A b \in PduCounts' : b \in PduCounts /\ Head(dl_f1u).pdu < b
  <2> SUFFICES ASSUME NEW b \in PduCounts' PROVE b \in PduCounts /\ Head(dl_f1u).pdu < b
    OBVIOUS
  <2>1. PICK i \in DOMAIN dl_f1u' : b = dl_f1u'[i].pdu /\ b # NoCount
    BY DEF PduCounts
  <2>2. QED
    BY <1>1, <1>2, <1>3, <2>1
<1>5. \A b \in PduCounts : b \in PduCounts' \/ b = Head(dl_f1u).pdu
  <2> SUFFICES ASSUME NEW b \in PduCounts, b # Head(dl_f1u).pdu PROVE b \in PduCounts'
    OBVIOUS
  <2>1. PICK i \in DOMAIN dl_f1u : b = dl_f1u[i].pdu /\ b # NoCount
    BY DEF PduCounts
  <2>2. i - 1 \in DOMAIN dl_f1u' /\ dl_f1u'[i - 1].pdu = b
    BY <1>1, <2>1
  <2>3. QED
    BY <2>1, <2>2 DEF PduCounts
<1>6. \A i, j \in DOMAIN dl_f1u' :
        i < j /\ dl_f1u'[j].pdu # NoCount => dl_f1u'[i].pdu < dl_f1u'[j].pdu
  <2> SUFFICES ASSUME NEW i \in DOMAIN dl_f1u', NEW j \in DOMAIN dl_f1u', i < j,
                      dl_f1u'[j].pdu # NoCount
               PROVE  dl_f1u'[i].pdu < dl_f1u'[j].pdu
    OBVIOUS
  <2>1. i + 1 < j + 1
    BY <1>1
  <2>2. QED
    BY <1>1, <1>2, <2>1
<1>7. ASSUME NEW i \in DOMAIN dl_f1u', NEW b \in dl_f1u'[i].discard
      PROVE  /\ Settled(b) /\ b \in Nat /\ b < tx.next
             /\ \A a \in QueueCounts : a < b + SnMod
             /\ Head(dl_f1u).pdu < b + SnMod
             /\ \A j \in DOMAIN dl_f1u' : j <= i => dl_f1u'[j].pdu < b + SnMod
  <2>1. i \in Int /\ i + 1 \in DOMAIN dl_f1u /\ b \in dl_f1u[i + 1].discard /\ 1 <= i + 1
    BY <1>1
  <2>2. /\ Settled(b) /\ b < tx.next
        /\ \A a \in QueueCounts : a < b + SnMod
        /\ \A j \in DOMAIN dl_f1u : j <= i + 1 => dl_f1u[j].pdu < b + SnMod
    BY <2>1 DEF IInv, DiscardInv
  <2>3. b \in Nat
    BY <2>1, CountTypes DEF DlMessages
  <2>4. ASSUME NEW j \in DOMAIN dl_f1u', j <= i PROVE dl_f1u'[j].pdu < b + SnMod
    <3>1. j + 1 \in DOMAIN dl_f1u /\ dl_f1u'[j] = dl_f1u[j + 1] /\ j \in Int
      BY <1>1
    <3>2. j + 1 <= i + 1
      BY <2>1, <2>4, <3>1
    <3>3. QED
      BY <2>2, <3>1, <3>2
  <2>5. QED
    BY <1>1, <2>1, <2>2, <2>3, <2>4
<1>8. QED
  BY <1>1, <1>3, <1>4, <1>5, <1>6, <1>7

(* F1-U loses a message of the CU-UP.                                      *)
LEMMA LoseDlKeeps ==
  ASSUME IInv, ~failure, LoseDlMessage
  PROVE  IInv'
<1>1. /\ dl_f1u # << >> /\ dl_f1u' = Tail(dl_f1u)
      /\ lost \subseteq lost' /\ lost' \subseteq Nat
      /\ Head(dl_f1u).pdu # NoCount => Head(dl_f1u).pdu \in lost'
      /\ UNCHANGED <<tx, connected, cu, ul_f1u, du, sdu_queue, rlc, rx, delivered,
                     report, discarded, failure>>
  BY LossStep
<1>2. /\ dl_f1u' \in Seq(DlMessages)
      /\ \A b \in PduCounts' : b \in PduCounts
      /\ \A b \in PduCounts : b \in PduCounts' \/ b = Head(dl_f1u).pdu
      /\ \A i, j \in DOMAIN dl_f1u' :
           i < j /\ dl_f1u'[j].pdu # NoCount => dl_f1u'[i].pdu < dl_f1u'[j].pdu
      /\ \A i \in DOMAIN dl_f1u' : \A b \in dl_f1u'[i].discard :
           /\ Settled(b) /\ b \in Nat /\ b < tx.next
           /\ \A a \in QueueCounts : a < b + SnMod
           /\ \A j \in DOMAIN dl_f1u' : j <= i => dl_f1u'[j].pdu < b + SnMod
  BY <1>1, DlShortened
<1>3. \A c : Settled(c) => WillBeSettled(c)
  BY <1>1 DEF Settled, WillBeSettled
<1>4. \A c \in Nat : Settled(c) => Settled(c)'
  BY <1>3, WillBe
<1>5. TxOrdered(tx') /\ connected = TRUE
  BY <1>1, Types, Carries
<1>6. TypeInv'
  BY <1>1, <1>2 DEF IInv, TypeInv
<1>7. EntityInv' /\ DeliveredInv' /\ ReportInv' /\ LossInv' /\ UnconnectedInv'
  BY <1>1, <1>4, <1>5, EntityKept, DeliveredKept, ReportKept, LossKept, UnconnectedKept
<1>8. /\ UNCHANGED <<RlcCounts, QueueCounts>> /\ OnTheWay' \subseteq OnTheWay
      /\ \A a \in OnTheWay : a \in OnTheWay' \/ WillBeSettled(a)
  <2>1. UNCHANGED <<RlcCounts, QueueCounts>>
    BY <1>1 DEF RlcCounts, QueueCounts
  <2>2. \A b \in PduCounts : b \in PduCounts' \/ b \in lost'
    BY <1>1, <1>2 DEF PduCounts
  <2>3. QED
    BY <1>2, <2>1, <2>2 DEF OnTheWay, WillBeSettled
<1>9. OrderInv'
  BY <1>1, <1>2, <1>8 DEF IInv, OrderInv
<1>10. CoverInv'
  <2>1. \A c \in tx.window : WillBeSettled(c) \/ c \in OnTheWay'
    BY <1>3, <1>5, <1>8 DEF IInv, CoverInv
  <2>2. /\ \A i \in DOMAIN rlc : rlc[i].got => WillBeSettled(rlc[i].count)
        /\ \A i \in DOMAIN sdu_queue :
             sdu_queue[i].discarded => WillBeSettled(sdu_queue[i].count)
    BY <1>3 DEF IInv, CoverInv
  <2>3. QED
    BY <1>1, <2>1, <2>2 DEF CoverInv, Settled, WillBeSettled
<1>11. DiscardInv'
  <2>1. \A b \in cu.blocks : WillBeSettled(b) /\ b < tx.next /\ tx.next <= b + window_size
    BY <1>3 DEF IInv, DiscardInv
  <2>2. \A i \in DOMAIN dl_f1u' : \A b \in dl_f1u'[i].discard :
           /\ WillBeSettled(b) /\ b < tx.next
           /\ \A a \in QueueCounts : a < b + SnMod
           /\ \A j \in DOMAIN dl_f1u' : j <= i => dl_f1u'[j].pdu < b + SnMod
    BY <1>2, <1>3
  <2>3. QED
    BY <1>1, <1>8, <2>1, <2>2 DEF DiscardInv, Settled, WillBeSettled
<1>12. NewsInv'
  BY <1>1, <1>4, <1>8, NewsKept
<1>13. QED
  BY <1>6, <1>7, <1>9, <1>10, <1>11, <1>12 DEF IInv

(* The DU moves a PDU from F1-U to the queue of RLC, or the queue refuses  *)
(* it.                                                                     *)
LEMMA DuKeeps ==
  ASSUME IInv, ~failure, DuHandleMessage
  PROVE  IInv'
<1> DEFINE p == Head(dl_f1u).pdu
           n == Len(sdu_queue) + 1
<1>1. /\ dl_f1u # << >> /\ dl_f1u' = Tail(dl_f1u)
      /\ sdu_queue' \in Seq(QueuedSdus)
      /\ lost \subseteq lost' /\ lost' \subseteq Nat
      /\ \/ /\ DOMAIN sdu_queue' = DOMAIN sdu_queue
            /\ p # NoCount => p \in lost'
         \/ /\ p # NoCount /\ n \in Int
            /\ DOMAIN sdu_queue' = DOMAIN sdu_queue \cup {n}
            /\ \A i \in DOMAIN sdu_queue : i \in Int /\ i < n
            /\ sdu_queue'[n].count = p
      /\ \A i \in DOMAIN sdu_queue : sdu_queue'[i].count = sdu_queue[i].count
      /\ \A i \in DOMAIN sdu_queue' : sdu_queue'[i].discarded =>
           WillBeSettled(sdu_queue'[i].count)
      /\ UNCHANGED <<tx, connected, cu, ul_f1u, du, rlc, rx, delivered, report,
                     discarded, failure>>
  BY DuStep
<1> HIDE DEF n
<1>2. /\ dl_f1u' \in Seq(DlMessages)
      /\ \A b \in PduCounts' : b \in PduCounts /\ p < b
      /\ \A b \in PduCounts : b \in PduCounts' \/ b = p
      /\ p # NoCount => p \in PduCounts
      /\ \A i, j \in DOMAIN dl_f1u' :
           i < j /\ dl_f1u'[j].pdu # NoCount => dl_f1u'[i].pdu < dl_f1u'[j].pdu
      /\ \A i \in DOMAIN dl_f1u' : \A b \in dl_f1u'[i].discard :
           /\ Settled(b) /\ b \in Nat /\ b < tx.next
           /\ \A a \in QueueCounts : a < b + SnMod
           /\ p < b + SnMod
           /\ \A j \in DOMAIN dl_f1u' : j <= i => dl_f1u'[j].pdu < b + SnMod
  BY <1>1, DlShortened
<1> HIDE DEF p
<1>3. \A c : Settled(c) => WillBeSettled(c)
  BY <1>1 DEF Settled, WillBeSettled
<1>4. \A c \in Nat : Settled(c) => Settled(c)'
  BY <1>3, WillBe
<1>5. TxOrdered(tx') /\ connected = TRUE
  BY <1>1, Types, Carries
<1>6. TypeInv'
  BY <1>1, <1>2 DEF IInv, TypeInv
<1>7. EntityInv' /\ DeliveredInv' /\ ReportInv' /\ LossInv' /\ UnconnectedInv'
  BY <1>1, <1>4, <1>5, EntityKept, DeliveredKept, ReportKept, LossKept, UnconnectedKept
<1>8. /\ QueueCounts \subseteq QueueCounts'
      /\ \A a \in QueueCounts' : a \in QueueCounts \/ (a = p /\ p # NoCount)
      /\ p # NoCount => p \in QueueCounts' \/ p \in lost'
  BY <1>1 DEF QueueCounts
<1>9. /\ UNCHANGED RlcCounts /\ OnTheWay' \subseteq OnTheWay
      /\ \A a \in OnTheWay : a \in OnTheWay' \/ WillBeSettled(a)
  <2>1. UNCHANGED RlcCounts
    BY <1>1 DEF RlcCounts
  <2>2. \A b \in PduCounts : b \in PduCounts' \/ b \in QueueCounts' \/ b \in lost'
    BY <1>2, <1>8 DEF PduCounts
  <2>3. QED
    BY <1>2, <1>8, <2>1, <2>2 DEF OnTheWay, WillBeSettled
<1>10. OrderInv'
  <2>1. /\ \A a \in RlcCounts, b \in QueueCounts \cup PduCounts : a < b
        /\ \A a \in QueueCounts, b \in PduCounts : a < b
        /\ \A i, j \in DOMAIN sdu_queue : i < j => sdu_queue[i].count < sdu_queue[j].count
    BY DEF IInv, OrderInv
  <2>2. \A a \in RlcCounts, b \in QueueCounts' \cup PduCounts' : a < b
    BY <1>2, <1>8, <2>1
  <2>3. \A a \in QueueCounts', b \in PduCounts' : a < b
    BY <1>2, <1>8, <2>1
  <2>4. ASSUME NEW i \in DOMAIN sdu_queue', NEW j \in DOMAIN sdu_queue', i < j
        PROVE  sdu_queue'[i].count < sdu_queue'[j].count
    <3>1. \A k \in DOMAIN sdu_queue : k \in Int /\ sdu_queue[k].count \in QueueCounts
      <4>1. sdu_queue \in Seq(QueuedSdus)
        BY DEF IInv, TypeInv
      <4>2. QED
        BY <4>1 DEF QueueCounts
    <3>2. CASE i \in DOMAIN sdu_queue /\ j \in DOMAIN sdu_queue
      BY <1>1, <2>1, <2>4, <3>2
    <3>3. CASE i \notin DOMAIN sdu_queue \/ j \notin DOMAIN sdu_queue
      <4>1. /\ p # NoCount /\ i \in DOMAIN sdu_queue /\ j = n
            /\ sdu_queue'[n].count = p
        BY <1>1, <2>4, <3>1, <3>3
      <4>2. sdu_queue'[i].count \in QueueCounts
        BY <1>1, <3>1, <4>1
      <4>3. QED
        BY <1>2, <2>1, <4>1, <4>2
    <3>4. QED
      BY <3>2, <3>3
  <2>5. QED
    BY <1>1, <1>2, <1>9, <2>2, <2>3, <2>4 DEF IInv, OrderInv
<1>11. CoverInv'
  <2>1. \A c \in tx.window : WillBeSettled(c) \/ c \in OnTheWay'
    BY <1>3, <1>5, <1>9 DEF IInv, CoverInv
  <2>2. \A i \in DOMAIN rlc : rlc[i].got => WillBeSettled(rlc[i].count)
    BY <1>3 DEF IInv, CoverInv
  <2>3. QED
    BY <1>1, <2>1, <2>2 DEF CoverInv, Settled, WillBeSettled
<1>12. DiscardInv'
  <2>1. \A b \in cu.blocks : WillBeSettled(b) /\ b < tx.next /\ tx.next <= b + window_size
    BY <1>3 DEF IInv, DiscardInv
  <2>2. \A i \in DOMAIN dl_f1u' : \A b \in dl_f1u'[i].discard :
           /\ WillBeSettled(b) /\ b < tx.next
           /\ \A a \in QueueCounts' : a < b + SnMod
           /\ \A j \in DOMAIN dl_f1u' : j <= i => dl_f1u'[j].pdu < b + SnMod
    BY <1>2, <1>3, <1>8
  <2>3. QED
    BY <1>1, <2>1, <2>2 DEF DiscardInv, Settled, WillBeSettled
<1>13. NewsInv'
  BY <1>1, <1>4, <1>9, NewsKept
<1>14. QED
  BY <1>6, <1>7, <1>10, <1>11, <1>12, <1>13 DEF IInv

(* RLC moves an SDU from its queue to those it has sent, past the ones     *)
(* that were discarded, which are settled.                                 *)
LEMMA TransmitKeeps ==
  ASSUME IInv, ~failure, RlcTransmit
  PROVE  IInv'
<1>1. PICK n \in DOMAIN sdu_queue, u \in SentSdus :
        /\ \A i \in DOMAIN sdu_queue : i < n => sdu_queue[i].discarded
        /\ sdu_queue' = SubSeq(sdu_queue, n + 1, Len(sdu_queue))
        /\ rlc' = Append(rlc, u)
        /\ u.count = sdu_queue[n].count /\ u.got = FALSE
  BY TransmitStep
<1>2. /\ du' \in DuStates /\ du'.dl = du.dl
      /\ UNCHANGED <<tx, connected, cu, dl_f1u, ul_f1u, rx, delivered, report, lost,
                     discarded, failure>>
  BY TransmitStep
<1>3. sdu_queue \in Seq(QueuedSdus) /\ rlc \in Seq(SentSdus)
  BY DEF IInv, TypeInv
<1>4. /\ sdu_queue' \in Seq(QueuedSdus) /\ n \in Int
      /\ \A i \in DOMAIN sdu_queue : i \in Int
      /\ \A i \in DOMAIN sdu_queue' : /\ i \in Int /\ i + n \in DOMAIN sdu_queue
                                      /\ sdu_queue'[i] = sdu_queue[i + n] /\ n < i + n
      /\ \A i \in DOMAIN sdu_queue : n < i =>
           i - n \in DOMAIN sdu_queue' /\ sdu_queue'[i - n] = sdu_queue[i]
  BY <1>1, <1>3, Suffix
<1> DEFINE e == Len(rlc) + 1
           q == u.count
<1>5. /\ rlc' \in Seq(SentSdus) /\ e \in Int
      /\ DOMAIN rlc' = DOMAIN rlc \cup {e}
      /\ \A i \in DOMAIN rlc : i \in Int /\ i < e /\ rlc'[i] = rlc[i]
      /\ rlc'[e] = u
  BY <1>1, <1>3, Appended
<1> HIDE DEF e
<1>6. /\ \A i \in DOMAIN sdu_queue : sdu_queue[i].count \in QueueCounts
      /\ \A i \in DOMAIN rlc : rlc[i].count \in RlcCounts
      /\ q \in QueueCounts /\ q = sdu_queue[n].count
  BY <1>1 DEF QueueCounts, RlcCounts
<1> HIDE DEF q
<1>7. /\ \A i, j \in DOMAIN rlc : i < j => rlc[i].count < rlc[j].count
      /\ \A i, j \in DOMAIN sdu_queue : i < j => sdu_queue[i].count < sdu_queue[j].count
      /\ \A a \in RlcCounts, b \in QueueCounts \cup PduCounts : a < b
      /\ \A a \in QueueCounts, b \in PduCounts : a < b
  BY DEF IInv, OrderInv
<1>8. \A a \in QueueCounts' : a \in QueueCounts /\ q < a
  <2> SUFFICES ASSUME NEW i \in DOMAIN sdu_queue'
               PROVE  sdu_queue'[i].count \in QueueCounts /\ q < sdu_queue'[i].count
    BY DEF QueueCounts
  <2>1. /\ i + n \in DOMAIN sdu_queue /\ n < i + n /\ sdu_queue'[i] = sdu_queue[i + n]
    BY <1>4
  <2>2. QED
    BY <1>6, <1>7, <2>1
<1>9. RlcCounts' = RlcCounts \cup {q}
  <2>1. RlcCounts' = {rlc'[i].count : i \in DOMAIN rlc \cup {e}}
    BY <1>5 DEF RlcCounts
  <2>2. rlc'[e].count = q
    BY <1>5 DEF q
  <2>3. QED
    BY <1>5, <2>1, <2>2 DEF RlcCounts
<1>10. UNCHANGED PduCounts
  BY <1>2 DEF PduCounts
<1>11. OnTheWay' \subseteq OnTheWay
  BY <1>6, <1>8, <1>9, <1>10 DEF OnTheWay
<1>12. \A a \in OnTheWay : a \in OnTheWay' \/ Settled(a)
  <2>1. ASSUME NEW i \in DOMAIN sdu_queue
        PROVE  sdu_queue[i].count \in OnTheWay' \/ Settled(sdu_queue[i].count)
    <3>1. i \in Int /\ n \in Int
      BY <1>4
    <3>2. CASE i < n
      BY <1>1, <3>2 DEF IInv, CoverInv
    <3>3. CASE i = n
      BY <1>6, <1>9, <3>3 DEF OnTheWay
    <3>4. CASE n < i
      <4>1. sdu_queue[i].count \in QueueCounts'
        BY <1>4, <3>4 DEF QueueCounts
      <4>2. QED
        BY <4>1 DEF OnTheWay
    <3>5. QED
      BY <3>1, <3>2, <3>3, <3>4
  <2>2. \A a \in QueueCounts : a \in OnTheWay' \/ Settled(a)
    BY <2>1 DEF QueueCounts
  <2>3. QED
    BY <1>9, <1>10, <2>2 DEF OnTheWay
<1>13. \A c : Settled(c) <=> WillBeSettled(c)
  BY <1>2 DEF Settled, WillBeSettled
<1>14. \A c \in Nat : Settled(c) => Settled(c)'
  BY <1>13, WillBe
<1>15. TxOrdered(tx')
  BY <1>2, Types
<1>16. connected = TRUE
  <2>1. sdu_queue # << >>
    BY <1>1
  <2>2. QED
    BY <2>1, Carries
<1>17. TypeInv'
  BY <1>2, <1>4, <1>5 DEF IInv, TypeInv
<1>18. EntityInv' /\ DeliveredInv' /\ ReportInv' /\ LossInv' /\ UnconnectedInv'
  BY <1>2, <1>14, <1>15, <1>16, EntityKept, DeliveredKept, ReportKept, LossKept,
     UnconnectedKept
<1>19. DiscardInv'
  BY <1>2, <1>8, <1>14, DiscardKept
<1>20. OrderInv'
  <2>1. ASSUME NEW i \in DOMAIN rlc', NEW j \in DOMAIN rlc', i < j
        PROVE  rlc'[i].count < rlc'[j].count
    <3>1. i \in DOMAIN rlc
      BY <1>5, <2>1
    <3>2. CASE j \in DOMAIN rlc
      BY <1>5, <1>7, <2>1, <3>1, <3>2
    <3>3. CASE j = e
      BY <1>5, <1>6, <1>7, <3>1, <3>3 DEF q
    <3>4. QED
      BY <1>5, <3>2, <3>3
  <2>2. ASSUME NEW i \in DOMAIN sdu_queue', NEW j \in DOMAIN sdu_queue', i < j
        PROVE  sdu_queue'[i].count < sdu_queue'[j].count
    <3>1. i + n < j + n
      BY <1>4, <2>2
    <3>2. QED
      BY <1>4, <1>7, <3>1
  <2>3. \A a \in RlcCounts', b \in QueueCounts' \cup PduCounts : a < b
    BY <1>6, <1>7, <1>8, <1>9
  <2>4. \A a \in QueueCounts', b \in PduCounts : a < b
    BY <1>7, <1>8
  <2>5. QED
    BY <1>2, <1>10, <1>11, <2>1, <2>2, <2>3, <2>4 DEF IInv, OrderInv
<1>21. CoverInv'
  <2>1. \A c \in tx.window : WillBeSettled(c) \/ c \in OnTheWay'
    BY <1>12, <1>13, <1>16 DEF IInv, CoverInv
  <2>2. \A i \in DOMAIN rlc' : rlc'[i].got => WillBeSettled(rlc'[i].count)
    BY <1>1, <1>5, <1>13 DEF IInv, CoverInv
  <2>3. \A i \in DOMAIN sdu_queue' :
          sdu_queue'[i].discarded => WillBeSettled(sdu_queue'[i].count)
    BY <1>4, <1>13 DEF IInv, CoverInv
  <2>4. QED
    BY <1>2, <2>1, <2>2, <2>3 DEF CoverInv, Settled, WillBeSettled
<1>22. NewsInv'
  <2>1. /\ DOMAIN Reports' = DOMAIN Reports
        /\ \A i \in DOMAIN Reports : Reports'[i].dl = Reports[i].dl
    <3>1. Reports' = Append(ul_f1u, du') /\ ul_f1u \in Seq(DuStates)
      BY <1>2, ReportTypes DEF Reports
    <3>2. /\ DOMAIN Reports' = DOMAIN ul_f1u \cup {Len(ul_f1u) + 1}
          /\ \A i \in DOMAIN ul_f1u : Reports'[i] = ul_f1u[i]
          /\ Reports'[Len(ul_f1u) + 1] = du'
      BY <1>2, <3>1, Appended
    <3>3. QED
      BY <1>2, <3>2, ReportTypes
  <2>2. \A i \in DOMAIN Reports : \A c \in tx.window : c <= Reports[i].dl => WillBeSettled(c)
    BY <1>13 DEF IInv, NewsInv
  <2>3. /\ \A i, j \in DOMAIN Reports : i < j => Reports[i].dl <= Reports[j].dl
        /\ du.dl < tx.next /\ \A a \in OnTheWay' : du.dl < a
        /\ \A i \in DOMAIN Reports :
             IsNews(cu.notif_dl, Reports[i].dl) => tx.next <= Reports[i].dl + SnMod
    BY <1>11 DEF IInv, NewsInv
  <2>4. QED
    BY <1>2, <2>1, <2>2, <2>3 DEF NewsInv, Settled, WillBeSettled
<1>23. QED
  BY <1>17, <1>18, <1>19, <1>20, <1>21, <1>22 DEF IInv

(* RLC confirms in the order of the COUNTs, so every SDU of the window up  *)
(* to the confirmed one is settled.                                        *)
LEMMA ConfirmKeeps ==
  ASSUME IInv, ~failure, RlcDelivered
  PROVE  IInv'
<1>1. /\ rlc # << >> /\ rlc' = Tail(rlc) /\ 1 \in DOMAIN rlc /\ rlc[1].got
      /\ du' \in DuStates /\ (du'.dl = du.dl \/ du'.dl = rlc[1].count)
      /\ UNCHANGED <<tx, connected, cu, dl_f1u, ul_f1u, sdu_queue, rx, delivered,
                     report, lost, discarded, failure>>
  BY ConfirmStep
<1>2. rlc \in Seq(SentSdus)
  BY DEF IInv, TypeInv
<1>3. /\ rlc' \in Seq(SentSdus)
      /\ \A i \in DOMAIN rlc : i \in Int /\ i >= 1
      /\ \A i \in DOMAIN rlc' : /\ i \in Int /\ i + 1 \in DOMAIN rlc
                                /\ rlc'[i] = rlc[i + 1] /\ 1 < i + 1
      /\ \A i \in DOMAIN rlc : i # 1 => i - 1 \in DOMAIN rlc' /\ rlc'[i - 1] = rlc[i]
  BY <1>1, <1>2, Shortened
<1> DEFINE q == rlc[1].count
<1>4. q \in RlcCounts /\ q \in Nat /\ Settled(q)
  <2>1. q \in RlcCounts /\ RlcCounts \subseteq Nat
    BY <1>1, CountTypes
  <2>2. Settled(q)
    BY <1>1 DEF IInv, CoverInv
  <2>3. QED
    BY <2>1, <2>2
<1> HIDE DEF q
<1>5. /\ \A i, j \in DOMAIN rlc : i < j => rlc[i].count < rlc[j].count
      /\ \A a \in RlcCounts, b \in QueueCounts \cup PduCounts : a < b
      /\ \A a \in OnTheWay : a < tx.next /\ tx.next <= a + SnMod
  BY DEF IInv, OrderInv
<1>6. \A a \in RlcCounts' : a \in RlcCounts /\ q < a
  <2> SUFFICES ASSUME NEW i \in DOMAIN rlc'
               PROVE  rlc'[i].count \in RlcCounts /\ q < rlc'[i].count
    BY DEF RlcCounts
  <2>1. i + 1 \in DOMAIN rlc /\ rlc'[i] = rlc[i + 1] /\ 1 < i + 1
    BY <1>3
  <2>2. QED
    BY <1>1, <1>5, <2>1 DEF RlcCounts, q
<1>7. \A a \in RlcCounts : a \in RlcCounts' \/ a = q
  <2> SUFFICES ASSUME NEW i \in DOMAIN rlc
               PROVE  rlc[i].count \in RlcCounts' \/ rlc[i].count = q
    BY DEF RlcCounts
  <2>1. CASE i = 1
    BY <2>1 DEF q
  <2>2. CASE i # 1
    BY <1>3, <2>2 DEF RlcCounts
  <2>3. QED
    BY <2>1, <2>2
<1>8. UNCHANGED <<QueueCounts, PduCounts>>
  BY <1>1 DEF QueueCounts, PduCounts
<1>9. /\ \A a \in OnTheWay' : a \in OnTheWay /\ q < a
      /\ \A a \in OnTheWay : a \in OnTheWay' \/ a = q
      /\ q \in OnTheWay
  BY <1>4, <1>5, <1>6, <1>7, <1>8 DEF OnTheWay
<1>10. \A c : Settled(c) <=> WillBeSettled(c)
  BY <1>1 DEF Settled, WillBeSettled
<1>11. \A c \in Nat : Settled(c) => Settled(c)'
  BY <1>10, WillBe
<1>12. TxOrdered(tx') /\ connected = TRUE
  BY <1>1, Types, Carries
<1>13. TypeInv'
  BY <1>1, <1>3 DEF IInv, TypeInv
<1>14. EntityInv' /\ DeliveredInv' /\ ReportInv' /\ LossInv' /\ UnconnectedInv' /\ DiscardInv'
  BY <1>1, <1>8, <1>11, <1>12, EntityKept, DeliveredKept, ReportKept, LossKept,
     UnconnectedKept, DiscardKept
<1>15. OrderInv'
  <2>1. ASSUME NEW i \in DOMAIN rlc', NEW j \in DOMAIN rlc', i < j
        PROVE  rlc'[i].count < rlc'[j].count
    <3>1. i + 1 < j + 1
      BY <1>3, <2>1
    <3>2. QED
      BY <1>3, <1>5, <3>1
  <2>2. QED
    BY <1>1, <1>6, <1>8, <1>9, <2>1 DEF IInv, OrderInv
<1>16. CoverInv'
  <2>1. \A c \in tx.window : WillBeSettled(c) \/ c \in OnTheWay'
    BY <1>4, <1>9, <1>10, <1>12 DEF IInv, CoverInv
  <2>2. \A i \in DOMAIN rlc' : rlc'[i].got => WillBeSettled(rlc'[i].count)
    BY <1>3, <1>10 DEF IInv, CoverInv
  <2>3. \A i \in DOMAIN sdu_queue :
          sdu_queue[i].discarded => WillBeSettled(sdu_queue[i].count)
    BY <1>10 DEF IInv, CoverInv
  <2>4. QED
    BY <1>1, <2>1, <2>2, <2>3 DEF CoverInv, Settled, WillBeSettled
<1>17. NewsInv'
  <2> DEFINE n == Len(ul_f1u) + 1
  <2>1. /\ \A i, j \in DOMAIN Reports : i < j => Reports[i].dl <= Reports[j].dl
        /\ \A i \in DOMAIN Reports : \A c \in tx.window : c <= Reports[i].dl => Settled(c)
        /\ du.dl < tx.next /\ \A a \in OnTheWay : du.dl < a
        /\ \A i \in DOMAIN Reports :
             IsNews(cu.notif_dl, Reports[i].dl) => tx.next <= Reports[i].dl + SnMod
    BY DEF IInv, NewsInv
  <2>2. /\ DOMAIN Reports = DOMAIN ul_f1u \cup {n} /\ n \in Int
        /\ \A i \in DOMAIN ul_f1u : i \in Int /\ i < n /\ Reports[i] = ul_f1u[i]
        /\ Reports[n] = du /\ du.dl \in Int
        /\ \A i \in DOMAIN Reports : Reports[i].dl \in Int
    BY ReportTypes
  <2>3. /\ DOMAIN Reports' = DOMAIN ul_f1u \cup {n}
        /\ \A i \in DOMAIN ul_f1u : Reports'[i] = ul_f1u[i]
        /\ Reports'[n] = du'
    <3>1. Reports' = Append(ul_f1u, du') /\ ul_f1u \in Seq(DuStates)
      BY <1>1, ReportTypes DEF Reports
    <3>2. QED
      BY <1>1, <3>1, Appended
  <2> HIDE DEF n
  <2>4. du.dl < q
    BY <1>9, <2>1
  <2>5. du'.dl \in Int /\ du.dl <= du'.dl
    BY <1>1, <1>4, <2>2, <2>4 DEF q
  <2>6. ASSUME NEW i \in DOMAIN Reports', NEW j \in DOMAIN Reports', i < j
        PROVE  Reports'[i].dl <= Reports'[j].dl
    <3>1. i \in DOMAIN ul_f1u /\ i \in DOMAIN Reports /\ Reports'[i] = Reports[i]
      BY <2>2, <2>3, <2>6
    <3>2. CASE j \in DOMAIN ul_f1u
      BY <2>1, <2>2, <2>3, <2>6, <3>1, <3>2
    <3>3. CASE j = n
      <4>1. Reports[i].dl <= du.dl
        BY <2>1, <2>2, <2>6, <3>1, <3>3
      <4>2. QED
        BY <2>2, <2>3, <2>5, <3>1, <3>3, <4>1
    <3>4. QED
      BY <2>3, <3>2, <3>3
  <2>7. ASSUME NEW c \in tx.window, c <= q PROVE WillBeSettled(c)
    <3>1. c \in Nat
      BY Types
    <3>2. Settled(c) \/ c \in OnTheWay
      BY <1>12 DEF IInv, CoverInv
    <3>3. c \in OnTheWay => c = q
      BY <1>4, <1>9, <2>7, <3>1
    <3>4. QED
      BY <1>4, <1>10, <3>2, <3>3
  <2>8. \A i \in DOMAIN Reports' : \A c \in tx.window : c <= Reports'[i].dl => WillBeSettled(c)
    <3>1. \A i \in DOMAIN Reports' : Reports'[i].dl = q \/ (i \in DOMAIN Reports /\ Reports'[i].dl = Reports[i].dl)
      BY <1>1, <2>2, <2>3 DEF q
    <3>2. QED
      BY <1>10, <2>1, <2>7, <3>1
  <2>9. du'.dl < tx.next /\ \A a \in OnTheWay' : du'.dl < a
    BY <1>1, <1>5, <1>9, <2>1 DEF q
  <2>10. \A i \in DOMAIN Reports' :
           IsNews(cu.notif_dl, Reports'[i].dl) => tx.next <= Reports'[i].dl + SnMod
    <3>1. \A i \in DOMAIN Reports' : Reports'[i].dl = q \/ (i \in DOMAIN Reports /\ Reports'[i].dl = Reports[i].dl)
      BY <1>1, <2>2, <2>3 DEF q
    <3>2. QED
      BY <1>5, <1>9, <2>1, <3>1
  <2>11. QED
    BY <1>1, <2>6, <2>8, <2>9, <2>10 DEF NewsInv, Settled, WillBeSettled
<1>18. QED
  BY <1>13, <1>14, <1>15, <1>16, <1>17 DEF IInv

(* What the peer delivers in a step follows what it has delivered.         *)
LEMMA DeliversMore ==
  ASSUME IInv, RxOrdered(rx'), rx'.deliv \in Nat, rx.deliv <= rx'.deliv,
         NEW arrived \in SUBSET Nat, \A c \in arrived : rx.deliv <= c,
         delivered' = delivered \o RxDelivers(rx, rx', arrived)
  PROVE  DeliveredInv' /\ delivered' \in Seq(Nat)
<1> DEFINE s == RxDelivers(rx, rx', arrived)
<1>1. /\ s \in Seq(Nat)
      /\ \A i \in DOMAIN s : rx.deliv <= s[i] /\ s[i] < rx'.deliv
      /\ \A i, j \in DOMAIN s : i < j => s[i] < s[j]
  BY Types, RxDeliversInOrder
<1>2. delivered' = delivered \o s /\ delivered \in Seq(Nat) /\ rx.deliv \in Nat
  BY Types DEF IInv, TypeInv
<1>3. /\ \A i \in DOMAIN delivered : delivered[i] < rx.deliv
      /\ \A i, j \in DOMAIN delivered : i < j => delivered[i] < delivered[j]
  BY DEF IInv, DeliveredInv, InOrderDelivery
<1> HIDE DEF s
<1> DEFINE n == Len(delivered)
<1>4. /\ delivered' \in Seq(Nat) /\ n \in Nat /\ DOMAIN delivered = 1..n
      /\ Len(s) \in Nat /\ DOMAIN s = 1..Len(s)
      /\ DOMAIN delivered' = 1..(n + Len(s))
      /\ \A i \in 1..n : delivered'[i] = delivered[i]
      /\ \A i \in 1..(n + Len(s)) : i > n => delivered'[i] = s[i - n]
  BY <1>1, <1>2
<1>5. /\ \A i \in 1..n : delivered[i] \in Nat
      /\ \A i \in DOMAIN s : s[i] \in Nat
  BY <1>1, <1>2, <1>4
<1> HIDE DEF n
<1>6. \A i \in DOMAIN delivered' : \/ i \in Int /\ i \in 1..n /\ i <= n
                                   \/ i \in Int /\ i > n /\ i - n \in DOMAIN s
  BY <1>4
<1>7. \A i \in DOMAIN delivered' : delivered'[i] < rx'.deliv
  <2> SUFFICES ASSUME NEW i \in DOMAIN delivered' PROVE delivered'[i] < rx'.deliv
    OBVIOUS
  <2>1. CASE i \in 1..n
    BY <1>2, <1>3, <1>4, <1>5, <2>1
  <2>2. CASE i > n /\ i - n \in DOMAIN s
    BY <1>1, <1>4, <2>2
  <2>3. QED
    BY <1>6, <2>1, <2>2
<1>8. ASSUME NEW i \in DOMAIN delivered', NEW j \in DOMAIN delivered', i < j
      PROVE  delivered'[i] < delivered'[j]
  <2>1. CASE i \in 1..n /\ j \in 1..n
    BY <1>3, <1>4, <1>8, <2>1
  <2>2. CASE i \in 1..n /\ (j > n /\ j - n \in DOMAIN s)
    <3>1. delivered'[i] = delivered[i] /\ delivered[i] < rx.deliv /\ delivered[i] \in Nat
      BY <1>3, <1>4, <1>5, <2>2
    <3>2. delivered'[j] = s[j - n] /\ rx.deliv <= s[j - n] /\ s[j - n] \in Nat
      BY <1>1, <1>4, <1>5, <2>2
    <3>3. QED
      BY <1>2, <3>1, <3>2
  <2>3. CASE (i > n /\ i - n \in DOMAIN s) /\ (j > n /\ j - n \in DOMAIN s)
    <3>1. i - n < j - n
      BY <1>4, <1>6, <1>8
    <3>2. QED
      BY <1>1, <1>4, <2>3, <3>1
  <2>4. j \in 1..n => i \in 1..n
    BY <1>4, <1>6, <1>8
  <2>5. QED
    BY <1>6, <2>1, <2>2, <2>3, <2>4
<1>9. DeliveredInv'
  BY <1>7, <1>8 DEF DeliveredInv, InOrderDelivery
<1>10. QED
  BY <1>4, <1>9

(* A step of the peer that leaves the PDUs on their way where they are.    *)
LEMMA PeerMoves ==
  ASSUME IInv, ~failure, RxOrdered(rx'), rx'.deliv \in Nat, rx.deliv <= rx'.deliv,
         rx'.next <= tx.next,
         \A c \in rx.window : c \in rx'.window \/ c < rx'.deliv,
         DeliveredInv', delivered' \in Seq(Nat),
         rlc' \in Seq(SentSdus), DOMAIN rlc' = DOMAIN rlc,
         \A i \in DOMAIN rlc : rlc'[i].count = rlc[i].count,
         \A i \in DOMAIN rlc : rlc'[i].got => rlc[i].got \/ WillBeSettled(rlc[i].count),
         UNCHANGED <<tx, connected, cu, dl_f1u, ul_f1u, du, sdu_queue, report, lost,
                     discarded, failure>>
  PROVE  IInv'
<1>1. \A c \in Nat : Settled(c) => Settled(c)'
  BY SettledStays
<1>2. /\ TxOrdered(tx') /\ rx.deliv \in Nat /\ tx.next \in Nat /\ window_size \in Nat
      /\ \A c \in tx.window : c \in Nat
  BY Types, Constants
<1>3. UNCHANGED <<RlcCounts, QueueCounts, PduCounts, OnTheWay>>
  BY DEF RlcCounts, QueueCounts, PduCounts, OnTheWay
<1>4. TypeInv'
  BY DEF IInv, TypeInv
<1>5. EntityInv'
  <2>1. /\ Start <= tx.next /\ tx.next <= MaxCountHard
        /\ tx.next <= rx.deliv + window_size
        /\ \A c \in tx.window : tx.next <= c + window_size
    BY DEF IInv, EntityInv
  <2>2. tx.next <= rx'.deliv + window_size
    BY <1>2, <2>1
  <2>3. QED
    BY <1>2, <2>1, <2>2 DEF EntityInv
<1>6. OrderInv'
  <2>1. \A i, j \in DOMAIN rlc' : i < j => rlc'[i].count < rlc'[j].count
    BY DEF IInv, OrderInv
  <2>2. QED
    BY <1>3, <2>1 DEF IInv, OrderInv
<1>7. UnconnectedInv'
  <2>1. rlc = << >> => rlc' = << >>
    <3>1. DOMAIN rlc' = {} => rlc' = << >>
      OBVIOUS
    <3>2. QED
      BY <3>1
  <2>2. QED
    BY <2>1 DEF IInv, UnconnectedInv
<1>8. CoverInv'
  <2>1. /\ \A i \in DOMAIN rlc : rlc[i].count \in Nat
        /\ \A i \in DOMAIN sdu_queue : sdu_queue[i].count \in Nat
        /\ \A c \in Nat : Settled(c) => WillBeSettled(c)
    BY <1>1, CountTypes, WillBe
  <2>2. /\ connected => \A c \in tx.window : WillBeSettled(c) \/ c \in OnTheWay
        /\ \A i \in DOMAIN rlc : rlc[i].got => WillBeSettled(rlc[i].count)
        /\ \A i \in DOMAIN sdu_queue :
             sdu_queue[i].discarded => WillBeSettled(sdu_queue[i].count)
    BY <1>2, <2>1 DEF IInv, CoverInv
  <2>3. \A i \in DOMAIN rlc' : rlc'[i].got => WillBeSettled(rlc'[i].count)
    BY <2>2
  <2>4. QED
    BY <1>3, <2>2, <2>3 DEF CoverInv, Settled, WillBeSettled
<1>9. DiscardInv' /\ NewsInv' /\ LossInv'
  BY <1>1, <1>3, DiscardKept, NewsKept, LossKept
<1>10. ReportInv'
  <2>1. report \subseteq [fmc : Nat, received : SUBSET Nat]
    BY DEF IInv, TypeInv
  <2>2. ASSUME NEW r \in report
        PROVE  /\ r.fmc <= rx'.deliv
               /\ \A c \in r.received : c \in rx'.window \/ c < rx'.deliv
    <3>1. /\ r.fmc <= rx.deliv /\ r.fmc \in Nat /\ r.received \subseteq Nat
          /\ \A c \in r.received : c \in rx.window \/ c < rx.deliv
      BY <2>1 DEF IInv, ReportInv
    <3>2. r.fmc <= rx'.deliv
      BY <1>2, <3>1
    <3>3. \A c \in Nat : c < rx.deliv => c < rx'.deliv
      BY <1>2
    <3>4. QED
      BY <3>1, <3>2, <3>3
  <2>3. QED
    BY <2>2 DEF ReportInv
<1>11. QED
  BY <1>4, <1>5, <1>6, <1>7, <1>8, <1>9, <1>10 DEF IInv

(* The peer receives a PDU.                                                *)
LEMMA PeerKeeps ==
  ASSUME IInv, ~failure, PeerHandlePdu
  PROVE  IInv'
<1>1. /\ RxOrdered(rx') /\ rx'.deliv \in Nat /\ rx.deliv <= rx'.deliv
      /\ rx'.next <= tx.next
      /\ \A c \in rx.window : c \in rx'.window \/ c < rx'.deliv
      /\ \/ UNCHANGED <<rx, delivered>>
         \/ \E arrived \in SUBSET Nat :
              /\ \A c \in arrived : rx.deliv <= c
              /\ delivered' = delivered \o RxDelivers(rx, rx', arrived)
      /\ UNCHANGED <<tx, connected, cu, dl_f1u, ul_f1u, du, sdu_queue, report, lost,
                     discarded, failure>>
  BY PeerStep
<1>2. PICK i \in DOMAIN rlc :
        rlc' = [rlc EXCEPT ![i].got = TRUE] /\ WillBeSettled(rlc[i].count)
  BY PeerStep
<1>3. DeliveredInv' /\ delivered' \in Seq(Nat)
  <2>1. CASE UNCHANGED <<rx, delivered>>
    BY <2>1, DeliveredKept DEF IInv, TypeInv
  <2>2. CASE ~UNCHANGED <<rx, delivered>>
    BY <1>1, <2>2, DeliversMore
  <2>3. QED
    BY <2>1, <2>2
<1>4. rlc \in Seq(SentSdus)
  BY DEF IInv, TypeInv
<1>5. /\ rlc' \in Seq(SentSdus) /\ DOMAIN rlc' = DOMAIN rlc
      /\ \A j \in DOMAIN rlc : rlc'[j].count = rlc[j].count
      /\ \A j \in DOMAIN rlc : rlc'[j].got => rlc[j].got \/ j = i
  <2>1. \A u \in SentSdus : /\ [u EXCEPT !.got = TRUE] \in SentSdus
                            /\ [u EXCEPT !.got = TRUE].count = u.count
    BY DEF SentSdus
  <2>2. \A j \in DOMAIN rlc : rlc[j] \in SentSdus
    BY <1>4
  <2>3. /\ DOMAIN rlc' = DOMAIN rlc
        /\ \A j \in DOMAIN rlc : rlc'[j] = IF j = i THEN [rlc[j] EXCEPT !.got = TRUE] ELSE rlc[j]
    BY <1>2
  <2>4. \A j \in DOMAIN rlc : rlc'[j] \in SentSdus /\ rlc'[j].count = rlc[j].count
    BY <2>1, <2>2, <2>3
  <2>5. rlc' \in Seq(SentSdus)
    <3>1. DOMAIN rlc = 1..Len(rlc) /\ Len(rlc) \in Nat
      BY <1>4
    <3>2. rlc' = [j \in 1..Len(rlc) |-> rlc'[j]]
      BY <1>2, <1>4, <3>1
    <3>3. QED
      BY <2>4, <3>1, <3>2
  <2>6. QED
    BY <2>3, <2>4, <2>5
<1>6. \A j \in DOMAIN rlc : rlc'[j].got => rlc[j].got \/ WillBeSettled(rlc[j].count)
  BY <1>2, <1>5
<1>7. QED
  BY <1>1, <1>3, <1>5, <1>6, PeerMoves

(* t-Reordering expires at the peer.                                       *)
LEMMA ReorderingKeeps ==
  ASSUME IInv, ~failure, TReorderingExpired
  PROVE  IInv'
<1>1. /\ RxOrdered(rx') /\ rx'.deliv \in Nat /\ rx.deliv <= rx'.deliv
      /\ rx'.next = rx.next
      /\ \A c \in rx.window : c \in rx'.window \/ c < rx'.deliv
      /\ delivered' = delivered \o RxDelivers(rx, rx', {})
      /\ UNCHANGED <<tx, connected, cu, dl_f1u, ul_f1u, du, sdu_queue, rlc, report,
                     lost, discarded, failure>>
  BY ReorderingStep
<1>2. DeliveredInv' /\ delivered' \in Seq(Nat)
  <2>1. {} \in SUBSET Nat
    OBVIOUS
  <2>2. QED
    BY <1>1, <2>1, DeliversMore
<1>3. rlc' \in Seq(SentSdus) /\ rx'.next <= tx.next
  BY <1>1 DEF IInv, TypeInv, EntityInv
<1>4. QED
  BY <1>1, <1>2, <1>3, PeerMoves

-----------------------------------------------------------------------------
(* The tasks of replaced F1-U bearers.                                     *)

(* They name what they named, of PDCP as it moves on.                      *)
LEMMA OldKept ==
  ASSUME IInv, OldInv,
         old_ul' = old_ul \/ (old_ul # << >> /\ old_ul' = Tail(old_ul)),
         tx'.next \in Nat, tx.next <= tx'.next,
         tx'.window \subseteq tx.window \cup {tx.next},
         \A i \in DOMAIN old_ul :
           old_ul[i].dl # NoCount => tx'.next <= old_ul[i].dl + SnMod,
         \A c \in tx.window : \A i \in DOMAIN old_ul :
           c <= old_ul[i].dl /\ Settled(c) => WillBeSettled(c)
  PROVE  OldInv'
<1>1. old_ul \in Seq(DuStates)
  BY DEF OldInv
<1>2. /\ old_ul' \in Seq(DuStates)
      /\ \A i \in DOMAIN old_ul' : \E k \in DOMAIN old_ul : old_ul'[i] = old_ul[k]
  <2>1. CASE old_ul' = old_ul
    BY <1>1, <2>1
  <2>2. CASE old_ul # << >> /\ old_ul' = Tail(old_ul)
    <3>1. /\ old_ul' \in Seq(DuStates)
          /\ \A i \in DOMAIN old_ul' : i + 1 \in DOMAIN old_ul /\ old_ul'[i] = old_ul[i + 1]
      BY <1>1, <2>2, Shortened
    <3>2. QED
      BY <3>1
  <2>3. QED
    BY <2>1, <2>2
<1>3. \A k \in DOMAIN old_ul : old_ul[k].dl \in Int
  <2>1. \A r \in DuStates : r.dl \in Int
    BY DEF DuStates, MaybeCount, NoCount
  <2>2. \A k \in DOMAIN old_ul : old_ul[k] \in DuStates
    BY <1>1
  <2>3. QED
    BY <2>1, <2>2
<1>4. /\ tx.next \in Nat /\ \A c \in tx.window : c \in Nat
      /\ \A k \in DOMAIN old_ul : /\ old_ul[k].dl < tx.next
                                  /\ \A c \in tx.window : c <= old_ul[k].dl => Settled(c)
  BY Types DEF OldInv
<1>5. ASSUME NEW k \in DOMAIN old_ul
      PROVE  /\ old_ul[k].dl < tx'.next
             /\ old_ul[k].dl # NoCount => tx'.next <= old_ul[k].dl + SnMod
             /\ \A c \in tx'.window : c <= old_ul[k].dl => WillBeSettled(c)
  <2>1. old_ul[k].dl \in Int /\ old_ul[k].dl < tx.next
    BY <1>3, <1>4
  <2>2. old_ul[k].dl < tx'.next /\ ~(tx.next <= old_ul[k].dl)
    BY <1>4, <2>1
  <2>3. \A c \in tx'.window : c <= old_ul[k].dl => c \in tx.window
    BY <2>2
  <2>4. QED
    BY <1>4, <2>2, <2>3
<1>6. \A i \in DOMAIN old_ul' :
        /\ old_ul'[i].dl < tx'.next
        /\ old_ul'[i].dl # NoCount => tx'.next <= old_ul'[i].dl + SnMod
        /\ \A c \in tx'.window : c <= old_ul'[i].dl => WillBeSettled(c)
  BY <1>2, <1>5
<1>7. QED
  BY <1>2, <1>6 DEF OldInv, Settled, WillBeSettled

(* Most steps change little of what they are about.                        *)
LEMMA OldSame ==
  ASSUME IInv, OldInv, tx'.next = tx.next, tx'.window \subseteq tx.window,
         old_ul' = old_ul \/ (old_ul # << >> /\ old_ul' = Tail(old_ul)),
         \A c \in Nat : Settled(c) => Settled(c)'
  PROVE  OldInv'
<1>1. tx.next \in Nat /\ \A c \in tx.window : c \in Nat
  BY Types
<1>2. \A c \in tx.window : Settled(c) => WillBeSettled(c)
  BY <1>1, WillBe
<1>3. \A i \in DOMAIN old_ul : old_ul[i].dl # NoCount => tx'.next <= old_ul[i].dl + SnMod
  BY DEF OldInv
<1>4. tx'.next \in Nat /\ tx.next <= tx'.next
  BY <1>1
<1>5. QED
  BY <1>2, <1>3, <1>4, OldKept

(* PDCP does not send so fast that it uses the SN of one of them again.    *)
LEMMA OldSdu ==
  ASSUME IInv, OldInv, HandleSdu
  PROVE  OldInv'
<1>1. /\ tx'.next = tx.next + 1 /\ tx'.window \subseteq tx.window \cup {tx.next}
      /\ UNCHANGED <<rx, lost, discarded>>
  BY SduStep
<1>2. /\ \A count \in Outstanding : tx.next < count + SnMod
      /\ old_ul' = old_ul
  BY DEF HandleSdu, Paced
<1>3. tx.next \in Nat /\ SnMod \in Nat
  BY Types, Constants
<1>4. ASSUME NEW i \in DOMAIN old_ul, old_ul[i].dl # NoCount
      PROVE  tx'.next <= old_ul[i].dl + SnMod
  <2>1. old_ul[i].dl \in Int
    <3>1. old_ul[i] \in DuStates
      BY DEF OldInv
    <3>2. QED
      BY <3>1 DEF DuStates, MaybeCount, NoCount
  <2>2. old_ul[i] \in ToSet(old_ul)
    BY DEF ToSet
  <2>3. old_ul[i].dl \in Outstanding
    BY <1>4, <2>2 DEF Outstanding
  <2>4. tx.next < old_ul[i].dl + SnMod
    BY <1>2, <2>3
  <2>5. QED
    BY <1>1, <1>3, <2>1, <2>4
<1>5. \A c : Settled(c) => WillBeSettled(c)
  BY <1>1 DEF Settled, WillBeSettled
<1>6. tx'.next \in Nat /\ tx.next <= tx'.next
  BY <1>1, <1>3
<1>7. QED
  BY <1>1, <1>2, <1>4, <1>5, <1>6, OldKept

(* A replaced bearer leaves what it has received.                          *)
LEMMA OldReplace ==
  ASSUME IInv, OldInv, ReplaceF1u
  PROVE  OldInv'
<1> DEFINE s == [i \in DOMAIN ul_f1u |-> News(cu, ul_f1u[i])]
<1>1. /\ old_ul' = old_ul \o s
      /\ UNCHANGED <<tx, rx, lost, discarded>>
  BY DEF ReplaceF1u, peer_vars
<1>2. ul_f1u \in Seq(DuStates) /\ old_ul \in Seq(DuStates)
  BY ReportTypes DEF OldInv
<1>3. DOMAIN ul_f1u = 1..Len(ul_f1u) /\ Len(ul_f1u) \in Nat
      /\ \A i \in DOMAIN ul_f1u : ul_f1u[i] \in DuStates
  BY <1>2
<1>4. ASSUME NEW i \in DOMAIN ul_f1u
      PROVE  /\ s[i] \in DuStates
             /\ s[i].dl = IF IsNews(cu.notif_dl, ul_f1u[i].dl) THEN ul_f1u[i].dl ELSE NoCount
  <2>1. ul_f1u[i].tx \in MaybeCount /\ ul_f1u[i].dl \in MaybeCount
    BY <1>3 DEF DuStates
  <2>2. PICK news : news = News(cu, ul_f1u[i])
    OBVIOUS
  <2>3. /\ news \in DuStates
        /\ news.dl = IF IsNews(cu.notif_dl, ul_f1u[i].dl) THEN ul_f1u[i].dl ELSE NoCount
    BY <2>1, <2>2, NewsTypes
  <2>4. QED
    BY <2>2, <2>3
<1>5. s \in [1..Len(ul_f1u) -> DuStates] /\ DOMAIN s = 1..Len(ul_f1u)
  BY <1>3, <1>4
<1> HIDE DEF s
<1>6. s \in Seq(DuStates)
  BY <1>3, <1>5
<1>7. /\ old_ul' \in Seq(DuStates)
      /\ \A i \in DOMAIN old_ul' : \/ i \in DOMAIN old_ul /\ old_ul'[i] = old_ul[i]
                                   \/ \E k \in DOMAIN s : old_ul'[i] = s[k]
  BY <1>1, <1>2, <1>6, Concatenated
<1>8. ASSUME NEW k \in DOMAIN s
      PROVE  /\ s[k].dl < tx.next
             /\ s[k].dl # NoCount => tx.next <= s[k].dl + SnMod
             /\ \A c \in tx.window : c <= s[k].dl => Settled(c)
  <2>1. k \in DOMAIN ul_f1u
    BY <1>3, <1>5
  <2>2. /\ k \in DOMAIN Reports /\ Reports[k].dl = ul_f1u[k].dl /\ k \in Int
        /\ Len(ul_f1u) + 1 \in DOMAIN Reports /\ Reports[Len(ul_f1u) + 1] = du
        /\ k < Len(ul_f1u) + 1 /\ ul_f1u[k].dl \in Int /\ du.dl \in Int
    BY <2>1, ReportTypes
  <2>3. ul_f1u[k].dl <= du.dl /\ du.dl < tx.next
    BY <2>2 DEF IInv, NewsInv
  <2>4. tx.next \in Nat /\ \A c \in tx.window : c \in Nat
    BY Types
  <2>5. CASE IsNews(cu.notif_dl, ul_f1u[k].dl)
    <3>1. s[k].dl = ul_f1u[k].dl
      BY <1>4, <2>1, <2>5
    <3>2. /\ tx.next <= ul_f1u[k].dl + SnMod
          /\ \A c \in tx.window : c <= ul_f1u[k].dl => Settled(c)
      BY <2>2, <2>5 DEF IInv, NewsInv
    <3>3. ul_f1u[k].dl < tx.next
      BY <2>2, <2>3, <2>4
    <3>4. QED
      BY <3>1, <3>2, <3>3
  <2>6. CASE ~IsNews(cu.notif_dl, ul_f1u[k].dl)
    <3>1. s[k].dl = NoCount
      BY <1>4, <2>1, <2>6
    <3>2. NoCount < tx.next /\ \A c \in tx.window : ~(c <= NoCount)
      BY <2>4 DEF NoCount
    <3>3. QED
      BY <3>1, <3>2
  <2>7. QED
    BY <2>5, <2>6
<1>9. \A i \in DOMAIN old_ul' :
        /\ old_ul'[i].dl < tx.next
        /\ old_ul'[i].dl # NoCount => tx.next <= old_ul'[i].dl + SnMod
        /\ \A c \in tx.window : c <= old_ul'[i].dl => Settled(c)
  BY <1>7, <1>8 DEF OldInv
<1>10. QED
  BY <1>1, <1>7, <1>9 DEF OldInv, Settled

(* What one of them may still take out of the window stays lost.           *)
LEMMA OldReestablish ==
  ASSUME IInv, OldInv, ReestablishPdcp
  PROVE  OldInv'
<1>1. /\ tx'.next = tx.next /\ tx'.window = tx.window
      /\ \A c \in lost : (\E i \in DOMAIN old_ul : c <= old_ul[i].dl) => c \in lost'
      /\ UNCHANGED <<rx, discarded>>
  BY ReestablishStep
<1>2. old_ul' = old_ul
  BY DEF ReestablishPdcp
<1>3. \A c \in tx.window : \A i \in DOMAIN old_ul :
        c <= old_ul[i].dl /\ Settled(c) => WillBeSettled(c)
  BY <1>1 DEF Settled, WillBeSettled
<1>4. tx'.next \in Nat /\ tx.next <= tx'.next
  BY <1>1, Types
<1>5. \A i \in DOMAIN old_ul : old_ul[i].dl # NoCount => tx'.next <= old_ul[i].dl + SnMod
  BY <1>1 DEF OldInv
<1>6. QED
  BY <1>1, <1>2, <1>3, <1>4, <1>5, OldKept

(* Every step keeps what they name.                                        *)
LEMMA OldKeeps ==
  ASSUME IInv, OldInv, Next
  PROVE  OldInv'
<1>1. CASE HandleSdu
  BY <1>1, OldSdu
<1>2. CASE DiscardTimerExpired \/ HandleStatusReport
  <2>1. /\ tx'.next = tx.next /\ tx'.window \subseteq tx.window
        /\ discarded \subseteq discarded' /\ UNCHANGED <<rx, lost>>
    BY <1>2, DiscardStep
  <2>2. old_ul' = old_ul
    BY <1>2 DEF DiscardTimerExpired, HandleStatusReport
  <2>3. QED
    BY <2>1, <2>2, SettledSame, OldSame
<1>3. CASE HandleUlMessage
  <2>1. /\ tx'.next = tx.next /\ tx'.window \subseteq tx.window
        /\ UNCHANGED <<rx, lost, discarded>>
    BY <1>3, UlStep
  <2>2. old_ul' = old_ul
    BY <1>3 DEF HandleUlMessage
  <2>3. QED
    BY <2>1, <2>2, SettledSame, OldSame
<1>4. CASE HandleOldUlMessage
  <2>1. /\ tx'.next = tx.next /\ tx'.window \subseteq tx.window
        /\ old_ul # << >> /\ old_ul' = Tail(old_ul)
        /\ UNCHANGED <<rx, lost, discarded>>
    BY <1>4, OldUlStep
  <2>2. QED
    BY <2>1, SettledSame, OldSame
<1>5. CASE ReplaceF1u
  BY <1>5, OldReplace
<1>6. CASE ReestablishPdcp
  BY <1>6, OldReestablish
<1>7. CASE DuHandleMessage \/ LoseDlMessage
  <2>1. lost \subseteq lost'
    BY <1>7, DuStep, LossStep
  <2>2. UNCHANGED <<tx, rx, discarded, old_ul>>
    BY <1>7 DEF DuHandleMessage, LoseDlMessage, cu_vars, peer_vars
  <2>3. QED
    BY <2>1, <2>2, SettledSame, OldSame
<1>8. CASE FlushDiscardBlocks \/ RlcTransmit \/ RlcDelivered \/ SendDeliveryStatus
             \/ LoseUlMessage
  <2>1. UNCHANGED <<tx, rx, lost, discarded, old_ul>>
    BY <1>8 DEF FlushDiscardBlocks, RlcTransmit, RlcDelivered, SendDeliveryStatus,
                LoseUlMessage, cu_vars, peer_vars
  <2>2. QED
    BY <2>1, SettledSame, OldSame
<1>9. CASE PeerHandlePdu \/ TReorderingExpired
  <2>1. /\ rx'.deliv \in Nat /\ rx.deliv <= rx'.deliv
        /\ \A c \in rx.window : c \in rx'.window \/ c < rx'.deliv
    BY <1>9, PeerStep, ReorderingStep
  <2>2. UNCHANGED <<tx, lost, discarded, old_ul>>
    BY <1>9 DEF PeerHandlePdu, TReorderingExpired, cu_vars
  <2>3. \A c \in Nat : Settled(c) => Settled(c)'
    BY <2>1, <2>2, SettledStays
  <2>4. QED
    BY <2>2, <2>3, OldSame
<1>10. QED
  BY <1>1, <1>2, <1>3, <1>4, <1>5, <1>6, <1>7, <1>8, <1>9 DEF Next

-----------------------------------------------------------------------------
(* The bearer starts in order, with nothing on its way.                    *)
LEMMA Initially == Init => IInv
<1> SUFFICES ASSUME Init PROVE IInv
  OBVIOUS
<1>1. /\ tx = TxInit(Start) /\ rx = RxInit(Start)
      /\ connected = TRUE /\ cu = NewCuBearer /\ du = NewDuBearer
      /\ dl_f1u = << >> /\ ul_f1u = << >> /\ sdu_queue = << >> /\ rlc = << >>
      /\ delivered = << >> /\ report = {} /\ lost = {} /\ discarded = {}
      /\ failure = FALSE
  BY DEF Init
<1>2. /\ Start \in Nat /\ Start < MaxCountHard /\ MaxCountHard \in Nat
      /\ window_size \in Nat
  BY Constants, PdcpAssumption
<1>3. /\ TxOrdered(tx) /\ RxOrdered(rx) /\ tx.next = Start /\ tx.window = {}
      /\ rx.next = Start /\ rx.deliv = Start
  BY <1>1, <1>2, TxInitially, RxInitially DEF TxInit, RxInit
<1>4. /\ cu \in CuStates /\ cu.blocks = {} /\ du \in DuStates /\ du.dl = -1
  BY <1>1 DEF NewCuBearer, NewDuBearer, CuStates, DuStates, MaybeCount, NoCount
<1>5. /\ dl_f1u \in Seq(DlMessages) /\ ul_f1u \in Seq(DuStates)
      /\ sdu_queue \in Seq(QueuedSdus) /\ rlc \in Seq(SentSdus) /\ delivered \in Seq(Nat)
      /\ DOMAIN dl_f1u = {} /\ DOMAIN sdu_queue = {} /\ DOMAIN rlc = {}
      /\ DOMAIN delivered = {}
  BY <1>1
<1>6. TypeInv
  BY <1>1, <1>4, <1>5 DEF TypeInv
<1>7. EntityInv
  BY <1>2, <1>3 DEF EntityInv
<1>8. RlcCounts = {} /\ QueueCounts = {} /\ PduCounts = {} /\ OnTheWay = {}
  BY <1>5 DEF RlcCounts, QueueCounts, PduCounts, OnTheWay
<1>9. DeliveredInv /\ OrderInv /\ UnconnectedInv /\ CoverInv /\ DiscardInv /\ ReportInv
  BY <1>1, <1>3, <1>4, <1>5, <1>8
     DEF DeliveredInv, InOrderDelivery, OrderInv, UnconnectedInv, CoverInv, DiscardInv,
         ReportInv
<1>10. LossInv
  BY <1>2, <1>3 DEF LossInv
<1>11. NewsInv
  <2>1. DOMAIN Reports = {1} /\ Reports[1] = du
    <3>1. Len(ul_f1u) = 0 /\ DOMAIN ul_f1u = {}
      BY <1>1
    <3>2. QED
      BY <1>4, <1>5, <3>1, Appended DEF Reports
  <2>2. \A i \in DOMAIN Reports : Reports[i].dl = -1
    BY <1>4, <2>1
  <2>3. \A i \in DOMAIN Reports : ~IsNews(cu.notif_dl, Reports[i].dl)
    BY <2>2 DEF IsNews, NoCount
  <2>4. du.dl < tx.next
    BY <1>2, <1>3, <1>4
  <2>5. QED
    BY <1>3, <1>8, <2>2, <2>3, <2>4 DEF NewsInv
<1>12. QED
  BY <1>6, <1>7, <1>9, <1>10, <1>11 DEF IInv

(* A step that changes nothing.                                            *)
LEMMA Stutters ==
  ASSUME IInv, UNCHANGED vars
  PROVE  IInv'
<1>1. UNCHANGED <<tx, connected, cu, dl_f1u, ul_f1u, du, sdu_queue, rlc, rx, delivered,
                  report, lost, discarded, failure>>
  BY DEF vars, cu_vars, rlc_vars, peer_vars
<1>2. /\ \A c \in Nat : Settled(c) => Settled(c)'
      /\ TxOrdered(tx') /\ OrderInv' /\ UNCHANGED <<OnTheWay, QueueCounts>>
  BY <1>1, SettledSame, Types, OrderKept
<1>3. EntityInv' /\ DeliveredInv' /\ ReportInv' /\ CoverInv' /\ LossInv' /\ DiscardInv'
      /\ NewsInv'
  BY <1>1, <1>2, EntityKept, DeliveredKept, ReportKept, CoverKept, LossKept, DiscardKept,
     NewsKept
<1>4. TypeInv' /\ UnconnectedInv'
  BY <1>1 DEF IInv, TypeInv, UnconnectedInv
<1>5. QED
  BY <1>2, <1>3, <1>4 DEF IInv

(* The inductive invariant holds in every state of a bearer.               *)
THEOREM Invariant == Spec => []IInv
<1>1. Init => IInv /\ OldInv
  <2>1. Init => OldInv
    BY DEF Init, OldInv
  <2>2. QED
    BY <2>1, Initially
<1>2. IInv /\ OldInv /\ [Next]_vars => IInv' /\ OldInv'
  <2> SUFFICES ASSUME IInv, OldInv, [Next]_vars PROVE IInv' /\ OldInv'
    OBVIOUS
  <2>1. CASE Next
    <3>1. IInv'
      BY <2>1, SduKeeps, FlushKeeps, DiscardKeeps, UlKeeps, OldUlKeeps, LoseUlKeeps,
         StatusKeeps, ReplaceKeeps, ReestablishKeeps, LoseDlKeeps, DuKeeps, TransmitKeeps,
         ConfirmKeeps, PeerKeeps, ReorderingKeeps
         DEF Next
    <3>2. QED
      BY <2>1, <3>1, OldKeeps
  <2>2. CASE UNCHANGED vars
    <3>1. UNCHANGED <<tx, rx, lost, discarded, old_ul>>
      BY <2>2 DEF vars, cu_vars, peer_vars
    <3>2. QED
      BY <2>2, <3>1, Stutters, SettledSame, OldSame
  <2>3. QED
    BY <2>1, <2>2
<1>3. QED
  BY <1>1, <1>2, PTL DEF Spec

(* Both PDCP entities keep their state variables in order, whatever is     *)
(* lost, discarded or re-established, for every SN size and window: the    *)
(* loops of both entities end and their unsigned differences do not wrap.  *)
THEOREM StateOrderedHolds == Spec => []StateOrdered
<1>1. IInv => StateOrdered
  BY DEF IInv, EntityInv, TxOrdered, RxOrdered, RxBounded, StateOrdered
<1>2. QED
  BY <1>1, Invariant, PTL

(* The peer's upper layers get SDUs in order and none of them twice.       *)
THEOREM InOrderDeliveryHolds == Spec => []InOrderDelivery
<1>1. IInv => InOrderDelivery
  BY DEF IInv, DeliveredInv
<1>2. QED
  BY <1>1, Invariant, PTL

(* PDCP gives up no SDU before the peer has it, unless F1-U lost its PDU,  *)
(* the SDU queue refused it, its discard timer expired or the peer gave it *)
(* up: a notification of F1-U or a status report never clears another SDU  *)
(* than the one it is about.                                               *)
THEOREM NothingLostHolds == Spec => []NothingLost
<1>1. IInv => NothingLost
  BY DEF IInv, LossInv, Settled, NothingLost
<1>2. QED
  BY <1>1, Invariant, PTL
=============================================================================
