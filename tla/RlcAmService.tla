---------------------------- MODULE RlcAmService ----------------------------
(***************************************************************************)
(* What an acknowledged-mode bearer promises PDCP: an accepted SDU is       *)
(* delivered to the peer at most once, PDCP is told that it was delivered   *)
(* only after it was, in the order in which the SDUs were accepted, and an  *)
(* SDU that was discarded in time never reaches the peer.                   *)
(***************************************************************************)
EXTENDS Naturals

CONSTANT Count   \* number of SDUs

VARIABLES
  upper,       \* what PDCP was told of each SDU
  delivered    \* how often the peer received it

ServiceSdus == 1..Count

ServiceInit ==
  /\ upper = [i \in ServiceSdus |-> "new"]
  /\ delivered = [i \in ServiceSdus |-> 0]

Offer(i) ==
  /\ upper[i] = "new"
  /\ \A j \in 1..(i - 1) : upper[j] # "new"
  /\ \E answer \in {"accepted", "dropped"} : upper' = [upper EXCEPT ![i] = answer]
  /\ UNCHANGED delivered

Discard(i) ==
  /\ upper[i] = "accepted" /\ delivered[i] = 0
  /\ upper' = [upper EXCEPT ![i] = "discarded"]
  /\ UNCHANGED delivered

Deliver(i) ==
  /\ upper[i] = "accepted" /\ delivered[i] = 0
  /\ delivered' = [delivered EXCEPT ![i] = 1]
  /\ UNCHANGED upper

\* All accepted SDUs up to n, of which each was delivered.
Confirm(n) ==
  /\ \A i \in 1..n : upper[i] = "accepted" => delivered[i] = 1
  /\ upper' = [i \in ServiceSdus |->
                 IF i <= n /\ upper[i] = "accepted" THEN "confirmed" ELSE upper[i]]
  /\ UNCHANGED delivered

ServiceNext ==
  \E i \in ServiceSdus : Offer(i) \/ Discard(i) \/ Deliver(i) \/ Confirm(i)

Service == ServiceInit /\ [][ServiceNext]_<<upper, delivered>>
==============================================================================
